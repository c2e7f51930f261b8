------------------------------- MODULE GpuHost ------------------------------
(***************************************************************************)
(* The host program lightning_gpu: the main thread (GpuApp.cpp, Start and  *)
(* Stop of ProcGpu.cpp) and the worker thread (Process), which turns       *)
(* requests into messages on the serial line and remembers, per rectangle, *)
(* what it sent last in order not to repeat it (GpuUtils.cpp).             *)
(*                                                                         *)
(* A handler's messages are computed at once into the thread's own queue   *)
(* (wout, mout) and written one by one: the threads' writes interleave.    *)
(***************************************************************************)
EXTENDS RectGeometry, Sequences

CONSTANTS N,           \* DETECTOR_OBJECTS_COUNT_MAX
          Frames,      \* pixel rectangles the image processing reports
          CameraSizes, \* picture sizes the camera may report
          MaxWire      \* messages under way on the line, a bound

ASSUME HostAssumption ==
  /\ N \in 1..10 /\ MaxWire \in Nat \ {0}
  /\ Frames \subseteq [left : Int, top : Int, width : Int, height : Int]
  /\ CameraSizes \subseteq [width : Nat, height : Nat]
  /\ \A c \in CameraSizes : c.width >= COLS /\ c.height >= ROWS

VARIABLES main,        \* step of the main thread
          mout,        \* messages the main thread still has to write
          worker,      \* step of the worker thread
          wout,        \* messages the worker still has to write
          job,         \* its loops over rectangles: boxes to send, indices i and j
          wire,        \* messages written and not yet read by the OSD
          prev,        \* prevRects
          lastMode, cleared, cam,
          running, stopFlag,
          gpuPart,     \* "none": pGpuPart is null; "alive"; "gone": it dangles
          terminated   \* terminateWaiting was called

hostVars == <<main, mout, worker, wout, job, wire, prev, lastMode, cleared, cam, running,
              stopFlag, gpuPart, terminated>>
shared == <<running, stopFlag, gpuPart, terminated>>
sender == <<wout, prev>>
local == <<job, lastMode, cleared, cam>>

Index == 0..(N - 1)
(* DisplayMode, the OSD's Control. *)
Tracker == 0
Detector == 1
Manual == 2
(* Status. *)
Void == 0
Lost == 1
NotFound == 2

-----------------------------------------------------------------------------
(* NAMED_VALUE_INT messages: the first two characters of the name and the value. *)
Msg(k, c, r) == [k |-> k, c |-> c, r |-> r]
ClearScreenMsg == Msg("C", 83, Zero)         \* "CS"
ClearAllMsg == Msg("C", 65, Zero)            \* "CA"
ControlMsg(mode) == Msg("O", 48 + mode, Zero)
StatusMsg(status) == Msg("S", 48 + status, Zero)
ResetMsg == Msg("R", 0, Zero)
NotTrackedMsg == Msg("A", 0, Zero)
Messages == [k : {"C", "O", "S", "R", "A", "T", "D"}, c : Byte, r : ByteRects]

PrevRect == [r : ByteRects, line : {0, 1}, valid : BOOLEAN]
FreshPrev == [i \in Index |-> [r |-> Zero, line |-> 0, valid |-> FALSE]]

(* A sender is the cache with the messages to write: the send_ functions map one to the
   next.  send_clear_all and send_clear_screen forget the coordinates, not the validity. *)
Put(s, m) == [s EXCEPT !.out = Append(@, m)]
Forget_Nothing(p) == p
Forget(p) == [i \in Index |-> [p[i] EXCEPT !.r = Zero]]
SendClear(s, m) == Put([s EXCEPT !.prev = Forget(@)], m)

(* send_clear_rect: the index itself, not its digit, is the second character. *)
SendClearRect(s, i) == IF s.prev[i].valid
                       THEN Put([s EXCEPT !.prev[i].valid = FALSE], Msg("C", i, Zero))
                       ELSE s

Known_AnyLine(p, r, line) == p.valid /\ p.r = r
Known(p, r, line) == p.valid /\ p.r = r /\ p.line = line
Remember(s, i, r, line) == [s EXCEPT !.prev[i] = [r |-> r, line |-> line, valid |-> TRUE]]
SendDetectorObj(s, i, r) ==
  IF Known(s.prev[i], r, 0) THEN s
  ELSE Remember(Put(SendClearRect(s, i), Msg("D", 48 + i, r)), i, r, 0)
SendTrackerObj(s, r) ==
  IF Known(s.prev[0], r, 1) THEN s ELSE Remember(Put(s, Msg("T", 0, r)), 0, r, 1)

Sender == [prev |-> prev, out |-> <<>>]
Submit(s) == prev' = s.prev /\ wout' = s.out

-----------------------------------------------------------------------------
(* Worker thread. *)
WorkerReady(step) == worker = step /\ wout = <<>>
To(step) == worker' = step

(* Process: the OSD is wiped, the cache invalidated. *)
Begin == /\ WorkerReady("begin") /\ To("open")
         /\ Submit([prev |-> FreshPrev, out |-> <<ClearScreenMsg, ClearAllMsg>>])
         /\ UNCHANGED <<main, mout, wire, local, shared>>

(* Process ends by an exception; a constructed GpuPartIpc is destroyed with its frame. *)
Throw == /\ worker \in {"open", "camera", "wait"} /\ wout = <<>> /\ To("ended")
         /\ gpuPart' = IF gpuPart = "alive" THEN "gone" ELSE gpuPart
         /\ UNCHANGED <<main, mout, wire, sender, local, running, stopFlag, terminated>>

Open == /\ WorkerReady("open") /\ To("camera") /\ gpuPart' = "alive"
        /\ UNCHANGED <<main, mout, wire, sender, local, running, stopFlag, terminated>>

GetCamera == /\ WorkerReady("camera") /\ To("loop")
             /\ cam' \in CameraSizes
             /\ UNCHANGED <<main, mout, wire, sender, job, lastMode, cleared, shared>>

(* while (!stopFlag_.load()): the frame of Process, with gpuPart, is left when it is set. *)
LoopTest == /\ WorkerReady("loop")
            /\ IF stopFlag THEN To("ended") /\ gpuPart' = "gone"
                           ELSE To("entering") /\ UNCHANGED gpuPart
            /\ UNCHANGED <<main, mout, wire, sender, local, running, stopFlag, terminated>>

(* waitRequestFromFpo is called. *)
EnterWait == /\ WorkerReady("entering") /\ To("wait")
             /\ UNCHANGED <<main, mout, wire, sender, local, shared>>

(* waitRequestFromFpo returns nothing because of terminateWaiting: stopFlag is set, the
   worker throws "Exit stop". *)
Woken == /\ WorkerReady("wait") /\ terminated /\ stopFlag
         /\ To("ended") /\ gpuPart' = "gone"
         /\ UNCHANGED <<main, mout, wire, sender, local, running, stopFlag, terminated>>

(* The handlers of the worker's loop, one per request. *)
NoJob == [boxes |-> <<>>, i |-> 0, j |-> 0]
Received == WorkerReady("wait") /\ UNCHANGED <<main, mout, wire, shared>>
Finished == To("loop") /\ UNCHANGED job
Entered(mode, s) == IF lastMode # mode THEN Put(s, ControlMsg(mode)) ELSE s

TrackPrologue_NoClear == Entered(Tracker, Sender)
TrackPrologue == Entered(Tracker, IF cleared THEN Sender ELSE SendClear(Sender, ClearAllMsg))

(* TRACK: the target's rectangle, then the clearing of rectangles 1, 2, ... *)
Track(f) ==
  LET start == IF lastMode # Tracker THEN Put(TrackPrologue, StatusMsg(Void)) ELSE TrackPrologue
  IN /\ Received /\ f.width # 0 /\ f.height # 0
     /\ Submit(SendTrackerObj(start, Normalize(f, cam)))
     /\ To("clear") /\ job' = [NoJob EXCEPT !.j = 1]
     /\ cleared' = TRUE /\ lastMode' = Tracker /\ UNCHANGED cam

(* TRACK without an extent. *)
NotTracked == /\ Received /\ Submit(Put(TrackPrologue, NotTrackedMsg))
              /\ Finished
              /\ cleared' = TRUE /\ lastMode' = Tracker /\ UNCHANGED cam

(* NO_TRACK and INIT_TGT_NOT_FOUND. *)
TrackFailed_NoClear(status) ==
  /\ Received /\ Submit(Put(TrackPrologue, StatusMsg(status)))
  /\ Finished
  /\ cleared' = TRUE /\ lastMode' = Tracker /\ UNCHANGED cam
TrackFailed(status) ==
  /\ Received /\ Submit(SendClear(Put(TrackPrologue, StatusMsg(status)), ClearAllMsg))
  /\ Finished
  /\ cleared' = TRUE /\ lastMode' = Tracker /\ UNCHANGED cam

(* DetectResults: mode and status, then each object and the clearing of the others. *)
Detect(fs) ==
  LET start == IF lastMode # Detector THEN Put(Entered(Detector, Sender), StatusMsg(Void)) ELSE Sender
  IN /\ Received
     /\ IF fs = <<>>
        THEN Submit(SendClear(start, ClearAllMsg)) /\ Finished
        ELSE /\ Submit(start) /\ To("object")
             /\ job' = [NoJob EXCEPT !.boxes = [k \in DOMAIN fs |-> Normalize(fs[k], cam)]]
     /\ cleared' = FALSE /\ lastMode' = Detector /\ UNCHANGED cam

DetectObject == /\ WorkerReady("object") /\ To("clear")
                /\ Submit(SendDetectorObj(Sender, job.i, job.boxes[job.i + 1]))
                /\ job' = [job EXCEPT !.j = Len(job.boxes)]
                /\ UNCHANGED <<main, mout, wire, lastMode, cleared, cam, shared>>

ClearRect == /\ WorkerReady("clear") /\ job.j < N /\ UNCHANGED worker
             /\ Submit(SendClearRect(Sender, job.j))
             /\ job' = [job EXCEPT !.j = @ + 1]
             /\ UNCHANGED <<main, mout, wire, lastMode, cleared, cam, shared>>

ClearedRects == /\ WorkerReady("clear") /\ job.j >= N
                /\ IF job.i + 1 < Len(job.boxes)
                   THEN To("object") /\ job' = [job EXCEPT !.i = @ + 1]
                   ELSE To("loop") /\ job' = NoJob
                /\ UNCHANGED <<main, mout, wire, sender, lastMode, cleared, cam, shared>>

(* MANUAL, and NO_MANUAL, which leaves the control mode on the screen. *)
ManualFlight_NoStatus(manual) ==
  LET wiped == SendClear(Sender, ClearAllMsg)
  IN /\ Received /\ Submit(IF manual THEN Put(wiped, ControlMsg(Manual)) ELSE wiped)
     /\ Finished
     /\ cleared' = FALSE /\ lastMode' = Manual /\ UNCHANGED cam
ManualFlight(manual) ==
  LET wiped == SendClear(Sender, ClearAllMsg)
  IN /\ Received
     /\ Submit(IF manual THEN Put(Put(wiped, ControlMsg(Manual)), StatusMsg(Void)) ELSE wiped)
     /\ Finished
     /\ cleared' = FALSE /\ lastMode' = Manual /\ UNCHANGED cam

(* Speed, Altitude, Angles, Voltage: their messages do not concern the overlay. *)
Telemetry == Received /\ Finished /\ cleared' = FALSE /\ UNCHANGED <<sender, lastMode, cam>>

Camera == Received /\ Finished /\ cam' \in CameraSizes /\ UNCHANGED <<sender, lastMode, cleared>>

(* A string for the message line, or a value that is not valid. *)
OtherRequest == Received /\ Finished /\ UNCHANGED <<sender, lastMode, cleared, cam>>

WorkerWrite == /\ wout # <<>> /\ Len(wire) < MaxWire
               /\ wire' = Append(wire, Head(wout)) /\ wout' = Tail(wout)
               /\ UNCHANGED <<main, mout, worker, prev, local, shared>>

(* The port fails: UNP::SerialPort::WriteN throws an int, which ends Process, or the whole
   program when the messages are those Process writes before its try block. *)
Die == /\ main' = "off" /\ mout' = <<>> /\ worker' = "none" /\ wout' = <<>>
       /\ UNCHANGED <<wire, prev, local, shared>>
WorkerWriteFails ==
  /\ wout # <<>>
  /\ IF worker = "open"
     THEN Die
     ELSE /\ To("ended") /\ wout' = <<>> /\ gpuPart' = "gone"
          /\ UNCHANGED <<main, mout, wire, prev, local, running, stopFlag, terminated>>

-----------------------------------------------------------------------------
(* Main thread. *)
MainReady(step) == main = step /\ mout = <<>>

(* The program is started: statics and members have their initial values. *)
Launch == /\ main \in {"off", "exited"} /\ main' = "start"
          /\ worker' = "none" /\ wout' = <<>> /\ job' = NoJob /\ prev' = FreshPrev
          /\ lastMode' = Manual /\ cleared' = FALSE
          /\ running' = FALSE /\ stopFlag' = FALSE /\ gpuPart' = "none" /\ terminated' = FALSE
          /\ UNCHANGED <<mout, wire, cam>>

(* Start: after the configuration, clear the screen and reset the OSD. *)
Start == /\ MainReady("start") /\ main' = "spawn"
         /\ mout' = <<ClearScreenMsg, ResetMsg>>
         /\ prev' = Forget(prev)
         /\ UNCHANGED <<worker, wout, wire, local, shared>>

(* Start returns early when the configuration cannot be parsed: no worker, no message. *)
StartFailed == /\ MainReady("start") /\ main' = "wait"
               /\ UNCHANGED <<mout, worker, wire, sender, local, shared>>

Spawn == /\ MainReady("spawn") /\ main' = "wait"
         /\ running' = TRUE /\ stopFlag' = FALSE /\ worker' = "begin"
         /\ UNCHANGED <<mout, wire, sender, local, gpuPart, terminated>>

(* sigwait returns; Stop does nothing when no worker was started. *)
Signal == /\ MainReady("wait")
          /\ IF running
             THEN main' = "stop" /\ mout' = <<ControlMsg(Manual), StatusMsg(Void)>>
             ELSE main' = "destroy" /\ UNCHANGED mout
          /\ UNCHANGED <<worker, wire, sender, local, shared>>

SetStopFlag == /\ MainReady("stop") /\ main' = "terminate"
               /\ stopFlag' = TRUE
               /\ UNCHANGED <<mout, worker, wire, sender, local, running, gpuPart, terminated>>

(* if (pGpuPart) pGpuPart->terminateWaiting().  The wake-up is remembered by the library
   until the next wait.  On a destroyed object the call may do nothing or kill the process. *)
Terminate_Forgotten == /\ MainReady("terminate") /\ main' = "join"
                       /\ terminated' = (gpuPart = "alive" /\ worker = "wait")
                       /\ UNCHANGED <<mout, worker, wire, sender, local, running, stopFlag, gpuPart>>
Terminate == /\ MainReady("terminate") /\ main' = "join"
             /\ terminated' = (gpuPart = "alive")
             /\ UNCHANGED <<mout, worker, wire, sender, local, running, stopFlag, gpuPart>>
TerminateCrash == MainReady("terminate") /\ gpuPart = "gone" /\ Die

Join_NoWait == /\ MainReady("join") /\ main' = "destroy"
               /\ running' = FALSE
               /\ UNCHANGED <<mout, worker, wire, sender, local, stopFlag, gpuPart, terminated>>
Join == /\ MainReady("join") /\ worker = "ended" /\ main' = "destroy"
        /\ running' = FALSE
        /\ UNCHANGED <<mout, worker, wire, sender, local, stopFlag, gpuPart, terminated>>

(* ~TI_Gpu; its Stop returns at once. *)
Destroy == /\ MainReady("destroy") /\ main' = "exit"
           /\ mout' = <<ClearAllMsg, ClearScreenMsg>>
           /\ prev' = Forget(prev)
           /\ UNCHANGED <<worker, wout, wire, local, shared>>

Exit == /\ MainReady("exit") /\ main' = "exited"
        /\ UNCHANGED <<mout, worker, wire, sender, local, shared>>

MainWrite == /\ mout # <<>> /\ Len(wire) < MaxWire
             /\ wire' = Append(wire, Head(mout)) /\ mout' = Tail(mout)
             /\ UNCHANGED <<main, worker, sender, local, shared>>

(* Nothing in main, Start, Stop or the destructor catches an int. *)
MainWriteFails == mout # <<>> /\ Die

-----------------------------------------------------------------------------
HostInit == /\ main = "off" /\ mout = <<>> /\ worker = "none" /\ wout = <<>> /\ wire = <<>>
            /\ job = NoJob /\ prev = FreshPrev /\ lastMode = Manual /\ cleared = FALSE /\ cam \in CameraSizes
            /\ running = FALSE /\ stopFlag = FALSE /\ gpuPart = "none" /\ terminated = FALSE

(* Steps the two threads take on their own. *)
MainStep == \/ Start \/ StartFailed \/ Spawn \/ SetStopFlag \/ Terminate \/ TerminateCrash
            \/ Join \/ Destroy \/ Exit \/ MainWrite
WorkerStep == \/ Begin \/ Open \/ GetCamera \/ LoopTest \/ EnterWait \/ Woken
              \/ DetectObject \/ ClearRect \/ ClearedRects \/ WorkerWrite

HostTypeOK ==
  /\ main \in {"off", "start", "spawn", "wait", "stop", "terminate", "join", "destroy",
               "exit", "exited"}
  /\ worker \in {"none", "begin", "open", "camera", "loop", "entering", "wait", "object",
                "clear", "ended"}
  /\ job \in [boxes : Seq(ByteRects), i : Nat, j : Nat]
  /\ Len(job.boxes) <= N /\ (worker = "object" => job.i < Len(job.boxes))
  /\ mout \in Seq(Messages) /\ wout \in Seq(Messages) /\ wire \in Seq(Messages)
  /\ Len(wire) <= MaxWire
  /\ prev \in [Index -> PrevRect]
  /\ lastMode \in {Tracker, Detector, Manual} /\ cleared \in BOOLEAN /\ cam \in CameraSizes
  /\ running \in BOOLEAN /\ stopFlag \in BOOLEAN /\ terminated \in BOOLEAN
  /\ gpuPart \in {"none", "alive", "gone"}
=============================================================================
