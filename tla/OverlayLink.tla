----------------------------- MODULE OverlayLink ----------------------------
(***************************************************************************)
(* Host and OSD joined by the one-way serial line.  The line may lose a    *)
(* message (a checksum error, a full receive buffer, an OSD that restarts) *)
(* and the OSD may restart; the host cannot notice either.                 *)
(*                                                                         *)
(* Two history variables say what the OSD is entitled to show: the last    *)
(* request about the overlay the worker handled, unless its port failed,   *)
(* and the parts of the overlay that a loss or a restart touched and       *)
(* nothing has renewed since.                                              *)
(***************************************************************************)
EXTENDS GpuHost, OsdOverlay

CONSTANTS Losses,  \* whether the line loses messages and the OSD restarts by itself
          Ends     \* whether signals come and the host's port or its IPC library fail

(* The OSD has a rectangle for each of the host's: both sides count ten. *)
ASSUME LinkAssumption == N <= NumRects

VARIABLES last,   \* last overlay request handled, with its normalized rectangles
          stale   \* subset of Parts

linkVars == <<hostVars, osdVars, last, stale>>
history == <<last, stale>>

Parts == {"rects", "mode", "aim"}
Nothing == [k |-> "nothing", boxes |-> <<>>]
Requested(k, boxes) == [k |-> k, boxes |-> boxes]

(* What a message changes, and what it sets whatever it was before. *)
Affects(m) == CASE m.k = "C" -> IF m.c = 83 THEN {} ELSE {"rects"}
                [] m.k \in {"T", "D"} -> Parts
                [] m.k = "S" -> {"aim"}
                [] m.k = "O" -> {"mode"}
                [] OTHER -> {}
Renews(m) == CASE m.k = "C" /\ m.c = 65 -> {"rects"}
               [] m.k \in {"T", "D"} -> {"mode", "aim"}
               [] m.k = "S" -> {"aim"}
               [] m.k = "O" -> {"mode"}
               [] OTHER -> {}

Deliver == /\ wire # <<>> /\ wire' = Tail(wire)
           /\ Handle(Head(wire))
           /\ stale' = IF Head(wire).k = "R" THEN Parts ELSE stale \ Renews(Head(wire))
           /\ UNCHANGED <<main, mout, worker, sender, local, shared, last>>

Lose == /\ Losses /\ wire # <<>> /\ wire' = Tail(wire)
        /\ stale' = stale \cup Affects(Head(wire))
        /\ UNCHANGED <<main, mout, worker, sender, local, shared, osdVars, last>>

Restart == /\ Losses /\ OsdReset /\ stale' = Parts
           /\ UNCHANGED <<hostVars, last>>

Quiet == UNCHANGED <<osdVars, history>>
Note(k, boxes) == last' = Requested(k, boxes) /\ UNCHANGED <<osdVars, stale>>

Objects == UNION {[1..n -> Frames] : n \in 0..N}
Request ==
  \/ \E f \in Frames : Track(f) /\ Note("track", <<Normalize(f, cam)>>)
  \/ NotTracked /\ Note("empty", <<>>)
  \/ TrackFailed(Lost) /\ Note("lost", <<>>)
  \/ TrackFailed(NotFound) /\ Note("notfound", <<>>)
  \/ \E fs \in Objects : Detect(fs) /\ Note("detect", [i \in DOMAIN fs |-> Normalize(fs[i], cam)])
  \/ ManualFlight(TRUE) /\ Note("manual", <<>>)
  \/ ManualFlight(FALSE) /\ Note("nomanual", <<>>)
  \/ (Telemetry \/ Camera \/ OtherRequest) /\ Quiet

Init == HostInit /\ OsdInit /\ last = Nothing /\ stale = {}

Next == \/ Request
        \/ (MainStep \/ WorkerStep) /\ Quiet
        \/ Ends /\ (Signal \/ Throw) /\ Quiet
        \/ Ends /\ (WorkerWriteFails \/ MainWriteFails) /\ last' = Nothing /\ UNCHANGED <<osdVars, stale>>
        \/ Launch /\ last' = Nothing /\ UNCHANGED <<osdVars, stale>>
        \/ Deliver \/ Lose \/ Restart
        \/ TickOsd /\ UNCHANGED <<hostVars, history>>

Spec == Init /\ [][Next]_linkVars

(* The scheduler runs both threads, the kernel's lock on the terminal lets each of two
   blocked writers have its turn, and the UART drains the line whether or not the OSD
   listens.  Requests, signals and failures may never come. *)
Fairness == /\ WF_linkVars(MainStep /\ Quiet) /\ WF_linkVars(WorkerStep /\ Quiet)
            /\ SF_linkVars(MainWrite /\ Quiet)
            /\ WF_linkVars(Deliver)
FairSpec == Spec /\ Fairness

-----------------------------------------------------------------------------
TypeOK == HostTypeOK /\ OsdTypeOK /\ stale \subseteq Parts

(* The host is running and every message it wrote has been handled or lost. *)
Drained == wire = <<>> /\ wout = <<>> /\ mout = <<>>
Settled(k) == /\ Drained /\ main = "wait" /\ last.k = k
              /\ worker \in {"loop", "entering", "wait", "ended"}

Solid(i, box) == rects[i].type = "t" /\ rects[i].line = 1 /\ rects[i].box = Clamp(box)
Dashed(i, box) == rects[i].type = "d" /\ rects[i].line = 0 /\ rects[i].box = Clamp(box)
NoRects == \A i \in RectIndex : ~Drawn(i)

(* The host's cache suppresses a message only when the OSD already draws exactly that
   rectangle (the test of send_detector_obj and send_tracker_obj, GpuUtils.cpp:152 and 175),
   as long as no loss or restart came between; the zero rectangle of a cleared entry is the
   exception. *)
CacheMatchesOsd ==
  Drained /\ worker \notin {"none", "ended"} /\ "rects" \notin stale =>
    \A i \in Index : prev[i].valid /\ prev[i].r # Zero =>
      IF prev[i].line = 1 THEN Solid(i, prev[i].r) ELSE Dashed(i, prev[i].r)

(* A tracked target is shown as one solid rectangle, in tracker mode, with no aim warning
   and nothing else on the screen, whatever was shown before. *)
TrackerShown ==
  Settled("track") /\ stale = {} /\ last.boxes[1] # Zero =>
    /\ Drawn(0) /\ Solid(0, last.boxes[1])
    /\ \A i \in RectIndex \ {0} : ~Drawn(i)
    /\ controlMode = Tracker /\ aimStatus = Void

(* A lost, or never found, target leaves no rectangle and the warning on the screen. *)
FailureShown ==
  Settled("lost") \/ Settled("notfound") =>
    /\ "rects" \notin stale => NoRects
    /\ "aim" \notin stale => aimStatus = (IF last.k = "lost" THEN Lost ELSE NotFound)
    /\ "mode" \notin stale => controlMode = Tracker

(* Every object the detector reports is shown, in detector mode, with no aim warning. *)
DetectorShown ==
  Settled("detect") /\ stale = {} =>
    /\ \A i \in DOMAIN last.boxes :
         last.boxes[i] # Zero => Drawn(i - 1) /\ Dashed(i - 1, last.boxes[i])
    /\ controlMode = Detector /\ aimStatus = Void

(* Manual flight is announced and leaves nothing of the tracker or the detector. *)
ManualShown ==
  Settled("manual") /\ stale = {} => NoRects /\ controlMode = Manual /\ aimStatus = Void

(* After the host's orderly end, whatever its threads were doing, no rectangle stays on
   the screen. *)
CleanAfterExit == Drained /\ main = "exited" /\ "rects" \notin stale => NoRects

(* Stop always comes back: the flag, the wake-up and the join leave no interleaving in
   which the worker waits for a request for ever (ProcGpu.cpp:69-76 and 91-92). *)
StopReturns == main = "stop" ~> main \in {"exited", "off"}

(* Every drawn rectangle, whatever the host sent, lies inside the screen, so that its
   outline does not continue on the other side (SerialMAVLINK.ino:303-310, 329-336). *)
RectsOnScreen == \A i \in RectIndex : Drawn(i) =>
                   /\ rects[i].box.w >= 1 /\ rects[i].box.x + rects[i].box.w <= COLS
                   /\ rects[i].box.h >= 1 /\ rects[i].box.y + rects[i].box.h <= ROWS

(* The host clears, by their number, the rectangles the detector no longer reports
   (ProcGpu.cpp:177-179): they are not shown any more. *)
NoStaleRects ==
  Settled("detect") /\ "rects" \notin stale =>
    \A i \in RectIndex : i >= Len(last.boxes) => ~Drawn(i)

(* A rectangle nobody renews within SQUARE_CLEAR_TIMEOUT is cleared. *)
RectsExpire == \A i \in RectIndex : Drawn(i) => now - rects[i].time <= 1
=============================================================================
