-------------------------- MODULE OverlayLinkProofs --------------------------
(***************************************************************************)
(* Proofs about the host, the line and the OSD's rectangles.  The type     *)
(* invariant carries what the other theorems need of the messages under    *)
(* way: each of them was built from four bytes, whatever the image         *)
(* processing reported and whichever thread wrote it.  The last section is *)
(* about the geometry: which cells are shown for the pixels of an object.  *)
(***************************************************************************)
EXTENDS OverlayLink, GeometryPart, TLAPS

(* Integer division by a positive number. *)
LEMMA QuotInt == ASSUME NEW a \in Int, NEW b \in Nat \ {0} PROVE Quot(a, b) \in Int
BY DEF Quot

LEMMA ByteRange == ASSUME NEW a \in Int PROVE a % 256 \in Byte
BY DEF Byte

(* A picture at least as wide as the screen has cells of a pixel or more. *)
LEMMA CellPositive == ASSUME NEW a \in Nat, NEW b \in Nat \ {0}, a >= b PROVE Most(a, 1) \div b \in Nat \ {0}
<1>1. Most(a, 1) = a  BY DEF Most
<1>2. a \div b \in Nat  OBVIOUS
<1>3. a = b * (a \div b) + (a % b) /\ a % b < b  OBVIOUS
<1>4. a \div b # 0  BY <1>2, <1>3
<1> QED  BY <1>1, <1>2, <1>4

LEMMA FirstByte == ASSUME NEW a \in Int, NEW cell \in Nat \ {0} PROVE First(a, cell) \in Byte
BY QuotInt, ByteRange DEF First

LEMMA CountByte == ASSUME NEW a \in Int, NEW size \in Int, NEW cell \in Nat \ {0}
                   PROVE Count(a, size, cell) \in Byte
<1> DEFINE width == Most(size, 1)
           end == a + width
           one == IF Rem(end, cell) > 0 /\ 2 * width > cell THEN 1 ELSE 0
<1>1. end \in Int  BY DEF Most
<1>2. Quot(end, cell) \in Int  BY <1>1, QuotInt
<1>3. First(a, cell) \in Byte  BY FirstByte
<1>4. First(a, cell) \in Int  BY <1>3 DEF Byte
<1>5. one \in Int  OBVIOUS
<1> HIDE DEF one, end
<1>6. (Quot(end, cell) - First(a, cell) + one) % 256 \in Byte  BY <1>2, <1>4, <1>5, ByteRange
<1> QED  BY <1>6 DEF Count, one, end

(* normalize_rect_px_center yields four bytes. *)
LEMMA NormalizeBytes == ASSUME NEW f \in Frames, NEW c \in CameraSizes PROVE Normalize(f, c) \in ByteRects
<1>1. f.left \in Int /\ f.top \in Int /\ f.width \in Int /\ f.height \in Int  BY HostAssumption
<1>2. Most(c.width, 1) \div COLS \in Nat \ {0} /\ Most(c.height, 1) \div ROWS \in Nat \ {0}
  BY HostAssumption, GridAssumption, CellPositive
<1> QED  BY <1>1, <1>2, FirstByte, CountByte DEF Normalize, ByteRects

(* The rectangle the OSD keeps is inside its screen. *)
OnScreen(box) == /\ box.w >= 1 /\ box.x + box.w <= COLS
                 /\ box.h >= 1 /\ box.y + box.h <= ROWS
LEMMA ClampAxis == ASSUME NEW first \in Byte, NEW count \in Byte, NEW cells \in 1..255
                   PROVE /\ ClampFrom(first, cells) \in 0..(cells - 1)
                         /\ ClampCount(first, count, cells) \in 1..cells
                         /\ ClampFrom(first, cells) + ClampCount(first, count, cells) <= cells
<1> DEFINE from == ClampFrom(first, cells)
           wide == Least(Most(count, 1), cells)
<1>1. from \in 0..(cells - 1)  BY DEF ClampFrom, Least, Byte
<1>2. wide \in 1..cells  BY DEF Least, Most, Byte
<1> HIDE DEF from, wide
<1>3. Least(wide, cells - from) \in 1..cells /\ from + Least(wide, cells - from) <= cells
  BY <1>1, <1>2 DEF Least
<1> QED  BY <1>1, <1>3 DEF ClampCount, from, wide
LEMMA ClampOnScreen == ASSUME NEW r \in ByteRects PROVE Clamp(r) \in Boxes /\ OnScreen(Clamp(r))
<1>1. r.x \in Byte /\ r.y \in Byte /\ r.w \in Byte /\ r.h \in Byte  BY DEF ByteRects
<1>2. COLS \in 1..255 /\ ROWS \in 1..255  BY GridAssumption
<1>3. /\ ClampFrom(r.x, COLS) \in 0..(COLS - 1) /\ ClampCount(r.x, r.w, COLS) \in 1..COLS
      /\ ClampFrom(r.x, COLS) + ClampCount(r.x, r.w, COLS) <= COLS
  BY <1>1, <1>2, ClampAxis
<1>4. /\ ClampFrom(r.y, ROWS) \in 0..(ROWS - 1) /\ ClampCount(r.y, r.h, ROWS) \in 1..ROWS
      /\ ClampFrom(r.y, ROWS) + ClampCount(r.y, r.h, ROWS) <= ROWS
  BY <1>1, <1>2, ClampAxis
<1> QED  BY <1>2, <1>3, <1>4 DEF Clamp, Boxes, OnScreen

-----------------------------------------------------------------------------
(* The send_ functions of GpuUtils.cpp keep the cache and the queue well formed. *)
Senders == [prev : [Index -> PrevRect], out : Seq(Messages)]

LEMMA ZeroBytes == Zero \in ByteRects
BY DEF Zero, ByteRects, Byte

LEMMA FixedMessages == /\ ClearScreenMsg \in Messages /\ ClearAllMsg \in Messages
                       /\ ResetMsg \in Messages /\ NotTrackedMsg \in Messages
                       /\ \A v \in 0..2 : ControlMsg(v) \in Messages /\ StatusMsg(v) \in Messages
BY ZeroBytes DEF ClearScreenMsg, ClearAllMsg, ResetMsg, NotTrackedMsg, ControlMsg, StatusMsg,
                 Messages, Msg, Byte

LEMMA IndexRange == Index \subseteq 0..9 /\ 0 \in Index
BY HostAssumption DEF Index

LEMMA PutType == ASSUME NEW s \in Senders, NEW m \in Messages PROVE Put(s, m) \in Senders
BY DEF Put, Senders

LEMMA ForgetType == ASSUME NEW p \in [Index -> PrevRect] PROVE Forget(p) \in [Index -> PrevRect]
BY ZeroBytes DEF Forget, PrevRect

LEMMA SendClearType == ASSUME NEW s \in Senders, NEW m \in Messages PROVE SendClear(s, m) \in Senders
<1>1. [s EXCEPT !.prev = Forget(@)] \in Senders  BY ForgetType DEF Senders
<1> QED  BY <1>1, PutType DEF SendClear

LEMMA SendClearRectType == ASSUME NEW s \in Senders, NEW i \in Index PROVE SendClearRect(s, i) \in Senders
<1>1. [s EXCEPT !.prev[i].valid = FALSE] \in Senders  BY DEF Senders, PrevRect
<1>2. Msg("C", i, Zero) \in Messages  BY ZeroBytes, IndexRange DEF Msg, Messages, Byte
<1> QED  BY <1>1, <1>2, PutType DEF SendClearRect

LEMMA RememberType == ASSUME NEW s \in Senders, NEW i \in Index, NEW r \in ByteRects, NEW line \in {0, 1}
                      PROVE Remember(s, i, r, line) \in Senders
BY DEF Remember, Senders, PrevRect

LEMMA SendDetectorObjType == ASSUME NEW s \in Senders, NEW i \in Index, NEW r \in ByteRects
                             PROVE SendDetectorObj(s, i, r) \in Senders
<1>1. Msg("D", 48 + i, r) \in Messages  BY IndexRange DEF Msg, Messages, Byte
<1> QED  BY <1>1, SendClearRectType, PutType, RememberType DEF SendDetectorObj

LEMMA SendTrackerObjType == ASSUME NEW s \in Senders, NEW r \in ByteRects
                            PROVE SendTrackerObj(s, r) \in Senders
<1>1. Msg("T", 0, r) \in Messages  BY DEF Msg, Messages, Byte
<1> QED  BY <1>1, IndexRange, PutType, RememberType DEF SendTrackerObj

(* A queue handed over by Submit. *)
LEMMA SubmitType == ASSUME NEW s \in Senders, Submit(s)
                    PROVE prev' \in [Index -> PrevRect] /\ wout' \in Seq(Messages)
BY DEF Senders, Submit

LEMMA FreshType == FreshPrev \in [Index -> PrevRect]
BY ZeroBytes DEF FreshPrev, PrevRect

LEMMA ModeRange == Tracker \in 0..2 /\ Detector \in 0..2 /\ Manual \in 0..2
                   /\ Void \in 0..2 /\ Lost \in 0..2 /\ NotFound \in 0..2
BY DEF Tracker, Detector, Manual, Void, Lost, NotFound

LEMMA SenderType == ASSUME HostTypeOK PROVE Sender \in Senders
BY DEF HostTypeOK, Sender, Senders

LEMMA EnteredType == ASSUME NEW s \in Senders, NEW mode \in 0..2 PROVE Entered(mode, s) \in Senders
BY PutType, FixedMessages DEF Entered

LEMMA TrackPrologueType == ASSUME HostTypeOK PROVE TrackPrologue \in Senders
BY SenderType, SendClearType, EnteredType, FixedMessages, ModeRange DEF TrackPrologue

LEMMA NoJobType == NoJob \in [boxes : Seq(ByteRects), i : Nat, j : Nat] /\ Len(NoJob.boxes) = 0
BY DEF NoJob

(* What a handler of the worker leaves alone. *)
LEMMA ReceivedType ==
  ASSUME HostTypeOK, Received, worker' \in {"loop", "clear", "object"},
         prev' \in [Index -> PrevRect], wout' \in Seq(Messages),
         job' \in [boxes : Seq(ByteRects), i : Nat, j : Nat],
         Len(job'.boxes) <= N, worker' = "object" => job'.i < Len(job'.boxes),
         lastMode' \in {Tracker, Detector, Manual}, cleared' \in BOOLEAN, cam' \in CameraSizes
  PROVE  HostTypeOK'
BY DEF HostTypeOK, Received, shared

(* The handlers that finish with the messages they send. *)
LEMMA FinishedType ==
  ASSUME HostTypeOK, Received, Finished, NEW s \in Senders, Submit(s),
         lastMode' \in {Tracker, Detector, Manual}, cleared' \in BOOLEAN, cam' \in CameraSizes
  PROVE  HostTypeOK'
<1>1. worker' = "loop" /\ worker = "wait" /\ job' = job  BY DEF Received, Finished, WorkerReady, To
<1>2. job' \in [boxes : Seq(ByteRects), i : Nat, j : Nat] /\ Len(job'.boxes) <= N
  BY <1>1 DEF HostTypeOK
<1> QED  BY <1>1, <1>2, SubmitType, ReceivedType

LEMMA TrackTypes == ASSUME HostTypeOK, NEW f \in Frames, Track(f) PROVE HostTypeOK'
<1> DEFINE start == IF lastMode # Tracker THEN Put(TrackPrologue, StatusMsg(Void)) ELSE TrackPrologue
<1>1. start \in Senders  BY TrackPrologueType, PutType, FixedMessages, ModeRange
<1>2. Normalize(f, cam) \in ByteRects  BY NormalizeBytes DEF HostTypeOK
<1>3. SendTrackerObj(start, Normalize(f, cam)) \in Senders  BY <1>1, <1>2, SendTrackerObjType
<1>4. Submit(SendTrackerObj(start, Normalize(f, cam)))  BY DEF Track
<1>5. Received /\ worker' = "clear" /\ job' = [NoJob EXCEPT !.j = 1] /\ cleared' = TRUE
      /\ lastMode' = Tracker /\ cam' = cam
  BY DEF Track, To
<1>6. job' \in [boxes : Seq(ByteRects), i : Nat, j : Nat] /\ Len(job'.boxes) <= N
  BY <1>5, NoJobType, HostAssumption
<1>7. cam \in CameraSizes  BY DEF HostTypeOK
<1> QED  BY <1>3, <1>4, <1>5, <1>6, <1>7, SubmitType, ReceivedType

LEMMA FailedTypes == ASSUME HostTypeOK, NEW status \in 0..2, TrackFailed(status) PROVE HostTypeOK'
<1> DEFINE s == SendClear(Put(TrackPrologue, StatusMsg(status)), ClearAllMsg)
<1>1. s \in Senders  BY TrackPrologueType, PutType, SendClearType, FixedMessages
<1>2. Received /\ Finished /\ Submit(s) /\ cleared' = TRUE /\ lastMode' = Tracker /\ cam' = cam
  BY DEF TrackFailed
<1>3. cam \in CameraSizes  BY DEF HostTypeOK
<1> HIDE DEF s
<1> QED  BY <1>1, <1>2, <1>3, FinishedType

LEMMA NotTrackedTypes == ASSUME HostTypeOK, NotTracked PROVE HostTypeOK'
<1> DEFINE s == Put(TrackPrologue, NotTrackedMsg)
<1>1. s \in Senders  BY TrackPrologueType, PutType, FixedMessages
<1>2. Received /\ Finished /\ Submit(s) /\ cleared' = TRUE /\ lastMode' = Tracker /\ cam' = cam
  BY DEF NotTracked
<1>3. cam \in CameraSizes  BY DEF HostTypeOK
<1> HIDE DEF s
<1> QED  BY <1>1, <1>2, <1>3, FinishedType

LEMMA ManualTypes == ASSUME HostTypeOK, NEW manual \in BOOLEAN, ManualFlight(manual) PROVE HostTypeOK'
<1> DEFINE wiped == SendClear(Sender, ClearAllMsg)
           s == IF manual THEN Put(Put(wiped, ControlMsg(Manual)), StatusMsg(Void)) ELSE wiped
<1>1. s \in Senders  BY SenderType, PutType, SendClearType, FixedMessages, ModeRange
<1>2. Received /\ Finished /\ Submit(s) /\ cleared' = FALSE /\ lastMode' = Manual /\ cam' = cam
  BY DEF ManualFlight
<1>3. cam \in CameraSizes  BY DEF HostTypeOK
<1> HIDE DEF s
<1> QED  BY <1>1, <1>2, <1>3, FinishedType

LEMMA DetectTypes == ASSUME HostTypeOK, NEW fs \in Objects, Detect(fs) PROVE HostTypeOK'
<1> DEFINE start == IF lastMode # Detector THEN Put(Entered(Detector, Sender), StatusMsg(Void)) ELSE Sender
           boxes == [k \in DOMAIN fs |-> Normalize(fs[k], cam)]
<1>1. start \in Senders  BY SenderType, EnteredType, PutType, FixedMessages, ModeRange
<1>2. /\ Received /\ cleared' = FALSE /\ lastMode' = Detector /\ cam' = cam
      /\ \/ fs = <<>> /\ Submit(SendClear(start, ClearAllMsg)) /\ Finished
         \/ fs # <<>> /\ Submit(start) /\ To("object") /\ job' = [NoJob EXCEPT !.boxes = boxes]
  BY DEF Detect
<1>3. cam \in CameraSizes  BY DEF HostTypeOK
<1>4. CASE fs = <<>>
  <2>1. SendClear(start, ClearAllMsg) \in Senders  BY <1>1, SendClearType, FixedMessages
  <2> QED  BY <1>2, <1>3, <1>4, <2>1, FinishedType
<1>5. CASE fs # <<>>
  <2>1. PICK n \in 0..N : fs \in [1..n -> Frames]  BY DEF Objects
  <2>2. n # 0  BY <1>5, <2>1
  <2>3. boxes \in [1..n -> ByteRects]  BY <2>1, <1>3, NormalizeBytes
  <2>4. n \in Nat /\ n <= N /\ n > 0  BY <2>1, <2>2, HostAssumption
  <2>5. boxes \in Seq(ByteRects) /\ Len(boxes) = n  BY <2>3, <2>4
  <2>6. job' = [NoJob EXCEPT !.boxes = boxes] /\ worker' = "object"  BY <1>2, <1>5 DEF To
  <2> HIDE DEF boxes
  <2>7. job' \in [boxes : Seq(ByteRects), i : Nat, j : Nat] /\ job'.boxes = boxes /\ job'.i = 0
    BY <2>5, <2>6 DEF NoJob
  <2>8. prev' \in [Index -> PrevRect] /\ wout' \in Seq(Messages)  BY <1>1, <1>2, <1>5, SubmitType
  <2> QED  BY <1>2, <1>3, <2>4, <2>5, <2>6, <2>7, <2>8, ReceivedType
<1> QED  BY <1>4, <1>5

LEMMA WriteType == ASSUME NEW queue \in Seq(Messages), queue # <<>>,
                          wire \in Seq(Messages), Len(wire) < MaxWire
                   PROVE /\ Tail(queue) \in Seq(Messages)
                         /\ Append(wire, Head(queue)) \in Seq(Messages)
                         /\ Len(Append(wire, Head(queue))) <= MaxWire
BY HostAssumption

(* A step of the loops over rectangles. *)
LEMMA LoopStepType ==
  ASSUME HostTypeOK, UNCHANGED <<main, mout, wire, lastMode, cleared, cam, shared>>,
         worker' \in {"loop", "clear", "object"},
         prev' \in [Index -> PrevRect], wout' \in Seq(Messages),
         job' \in [boxes : Seq(ByteRects), i : Nat, j : Nat],
         Len(job'.boxes) <= N, worker' = "object" => job'.i < Len(job'.boxes)
  PROVE  HostTypeOK'
BY DEF HostTypeOK, shared

LEMMA JobType ==
  ASSUME NEW jb \in [boxes : Seq(ByteRects), i : Nat, j : Nat], NEW n \in Nat
  PROVE  /\ [jb EXCEPT !.j = n] \in [boxes : Seq(ByteRects), i : Nat, j : Nat]
         /\ [jb EXCEPT !.j = n].boxes = jb.boxes /\ [jb EXCEPT !.j = n].i = jb.i
         /\ [jb EXCEPT !.i = n] \in [boxes : Seq(ByteRects), i : Nat, j : Nat]
         /\ [jb EXCEPT !.i = n].boxes = jb.boxes /\ [jb EXCEPT !.i = n].i = n
OBVIOUS

(* The worker's other steps. *)
LEMMA WorkerTypes == ASSUME HostTypeOK, WorkerStep PROVE HostTypeOK'
<1> USE DEF shared, sender, local, To
<1> job \in [boxes : Seq(ByteRects), i : Nat, j : Nat]  BY DEF HostTypeOK
<1>1. CASE Begin
  <2>1. <<ClearScreenMsg, ClearAllMsg>> \in Seq(Messages)  BY FixedMessages
  <2>2. prev' = FreshPrev /\ wout' = <<ClearScreenMsg, ClearAllMsg>>  BY <1>1 DEF Begin, Submit
  <2> QED  BY <1>1, <2>1, <2>2, FreshType DEF Begin, HostTypeOK
<1>2. CASE Open  BY <1>2 DEF Open, HostTypeOK
<1>3. CASE GetCamera  BY <1>3 DEF GetCamera, HostTypeOK
<1>4. CASE LoopTest  BY <1>4 DEF LoopTest, HostTypeOK
<1>5. CASE EnterWait  BY <1>5 DEF EnterWait, HostTypeOK
<1>6. CASE Woken  BY <1>6 DEF Woken, HostTypeOK
<1>7. CASE DetectObject
  <2>1. job.boxes \in Seq(ByteRects) /\ job.i \in Nat /\ job.i < Len(job.boxes) /\ Len(job.boxes) <= N
    BY <1>7 DEF DetectObject, WorkerReady, HostTypeOK
  <2>2. job.boxes[job.i + 1] \in ByteRects  BY <2>1
  <2>3. job.i \in Index  BY <2>1, HostAssumption DEF Index
  <2>4. prev' \in [Index -> PrevRect] /\ wout' \in Seq(Messages)
    BY <1>7, <2>2, <2>3, SenderType, SendDetectorObjType, SubmitType DEF DetectObject
  <2>5. job' = [job EXCEPT !.j = Len(job.boxes)]  BY <1>7 DEF DetectObject
  <2>6. job' \in [boxes : Seq(ByteRects), i : Nat, j : Nat] /\ Len(job'.boxes) <= N
    BY <2>1, <2>5, JobType
  <2>7. worker' = "clear" /\ UNCHANGED <<main, mout, wire, lastMode, cleared, cam, shared>>
    BY <1>7 DEF DetectObject
  <2> QED  BY <2>4, <2>6, <2>7, LoopStepType
<1>8. CASE ClearRect
  <2>1. job.j \in Index
    <3>1. job.j \in Nat  BY <1>8 DEF HostTypeOK
    <3>2. job.j < N  BY <1>8 DEF ClearRect
    <3> QED  BY <3>1, <3>2, HostAssumption DEF Index
  <2>2. prev' \in [Index -> PrevRect] /\ wout' \in Seq(Messages)
    BY <1>8, <2>1, SenderType, SendClearRectType, SubmitType DEF ClearRect
  <2>3. job' = [job EXCEPT !.j = @ + 1]  BY <1>8 DEF ClearRect
  <2>4. /\ job' \in [boxes : Seq(ByteRects), i : Nat, j : Nat]
        /\ job'.boxes = job.boxes /\ job'.i = job.i
    BY <2>3, JobType
  <2>5. worker' = "clear" /\ UNCHANGED <<main, mout, wire, lastMode, cleared, cam, shared>>
    BY <1>8 DEF ClearRect, WorkerReady
  <2>6. Len(job.boxes) <= N  BY DEF HostTypeOK
  <2> QED  BY <2>2, <2>4, <2>5, <2>6, LoopStepType
<1>9. CASE ClearedRects
  <2>1. CASE job.i + 1 < Len(job.boxes)
    <3>1. worker' = "object" /\ job' = [job EXCEPT !.i = @ + 1]  BY <1>9, <2>1 DEF ClearedRects
    <3>2. /\ job' \in [boxes : Seq(ByteRects), i : Nat, j : Nat]
          /\ job'.boxes = job.boxes /\ job'.i = job.i + 1
      BY <3>1, JobType
    <3>3. UNCHANGED <<main, mout, wire, lastMode, cleared, cam, shared, sender>>
      BY <1>9 DEF ClearedRects
    <3>4. prev' \in [Index -> PrevRect] /\ wout' \in Seq(Messages) /\ Len(job.boxes) <= N
      BY <3>3 DEF HostTypeOK
    <3> QED  BY <2>1, <3>1, <3>2, <3>3, <3>4, LoopStepType
  <2>2. CASE ~(job.i + 1 < Len(job.boxes))
    BY <1>9, <2>2, NoJobType, HostAssumption DEF ClearedRects, HostTypeOK
  <2> QED  BY <2>1, <2>2
<1>10. CASE WorkerWrite  BY <1>10, WriteType DEF WorkerWrite, HostTypeOK
<1> QED  BY <1>1, <1>2, <1>3, <1>4, <1>5, <1>6, <1>7, <1>8, <1>9, <1>10 DEF WorkerStep

(* The main thread's steps. *)
LEMMA MainTypes == ASSUME HostTypeOK, MainStep PROVE HostTypeOK'
<1> USE DEF shared, sender, local, MainReady
<1>1. CASE Start
  <2>1. <<ClearScreenMsg, ResetMsg>> \in Seq(Messages)  BY FixedMessages
  <2>2. prev' \in [Index -> PrevRect]  BY <1>1, ForgetType DEF Start, HostTypeOK
  <2> QED  BY <1>1, <2>1, <2>2 DEF Start, HostTypeOK
<1>2. CASE StartFailed  BY <1>2 DEF StartFailed, HostTypeOK
<1>3. CASE Spawn  BY <1>3 DEF Spawn, HostTypeOK
<1>4. CASE SetStopFlag  BY <1>4 DEF SetStopFlag, HostTypeOK
<1>5. CASE Terminate  BY <1>5 DEF Terminate, HostTypeOK
<1>6. CASE TerminateCrash  BY <1>6 DEF TerminateCrash, Die, HostTypeOK
<1>7. CASE Join  BY <1>7 DEF Join, HostTypeOK
<1>8. CASE Destroy
  <2>1. <<ClearAllMsg, ClearScreenMsg>> \in Seq(Messages)  BY FixedMessages
  <2>2. prev' \in [Index -> PrevRect]  BY <1>8, ForgetType DEF Destroy, HostTypeOK
  <2> QED  BY <1>8, <2>1, <2>2 DEF Destroy, HostTypeOK
<1>9. CASE Exit  BY <1>9 DEF Exit, HostTypeOK
<1>10. CASE MainWrite  BY <1>10, WriteType DEF MainWrite, HostTypeOK
<1> QED  BY <1>1, <1>2, <1>3, <1>4, <1>5, <1>6, <1>7, <1>8, <1>9, <1>10 DEF MainStep

(* Signals, exceptions, failing ports, a new start, and requests the overlay ignores. *)
LEMMA OtherTypes ==
  ASSUME HostTypeOK,
         \/ Signal \/ Throw \/ WorkerWriteFails \/ MainWriteFails \/ Launch
         \/ Telemetry \/ Camera \/ OtherRequest
  PROVE  HostTypeOK'
<1> USE DEF shared, sender, local, To, MainReady
<1>1. CASE Signal
  <2>1. <<ControlMsg(Manual), StatusMsg(Void)>> \in Seq(Messages)  BY FixedMessages, ModeRange
  <2> QED  BY <1>1, <2>1 DEF Signal, HostTypeOK
<1>2. CASE Throw  BY <1>2 DEF Throw, HostTypeOK
<1>3. CASE WorkerWriteFails
  <2>1. <<>> \in Seq(Messages)  OBVIOUS
  <2>2. CASE worker = "open"  BY <1>3, <2>1, <2>2 DEF WorkerWriteFails, Die, HostTypeOK
  <2>3. CASE worker # "open"  BY <1>3, <2>1, <2>3 DEF WorkerWriteFails, HostTypeOK
  <2> QED  BY <2>2, <2>3
<1>4. CASE MainWriteFails  BY <1>4 DEF MainWriteFails, Die, HostTypeOK
<1>5. CASE Launch
  <2>1. NoJob \in [boxes : Seq(ByteRects), i : Nat, j : Nat] /\ Len(NoJob.boxes) <= N
    BY NoJobType, HostAssumption
  <2>2. <<>> \in Seq(Messages)  OBVIOUS
  <2>3. /\ prev' \in [Index -> PrevRect] /\ wout' \in Seq(Messages)
        /\ job' \in [boxes : Seq(ByteRects), i : Nat, j : Nat] /\ Len(job'.boxes) <= N
        /\ lastMode' \in {Tracker, Detector, Manual} /\ worker' = "none" /\ main' = "start"
        /\ UNCHANGED <<mout, wire, cam>>
    BY <1>5, <2>1, <2>2, FreshType DEF Launch
  <2>4. /\ cleared' \in BOOLEAN /\ running' \in BOOLEAN /\ stopFlag' \in BOOLEAN
        /\ gpuPart' = "none" /\ terminated' \in BOOLEAN
    BY <1>5 DEF Launch
  <2> QED  BY <2>3, <2>4 DEF HostTypeOK
<1>6. CASE Telemetry  BY <1>6 DEF Telemetry, Received, Finished, HostTypeOK
<1>7. CASE Camera  BY <1>7 DEF Camera, Received, Finished, HostTypeOK
<1>8. CASE OtherRequest  BY <1>8 DEF OtherRequest, Received, Finished, HostTypeOK
<1> QED  BY <1>1, <1>2, <1>3, <1>4, <1>5, <1>6, <1>7, <1>8

(* The line gives up its first message. *)
LEMMA TakenType ==
  ASSUME HostTypeOK, wire # <<>>, wire' = Tail(wire),
         UNCHANGED <<main, mout, worker, sender, local, shared>>
  PROVE  HostTypeOK' /\ Head(wire) \in Messages
<1>1. wire \in Seq(Messages) /\ Len(wire) <= MaxWire /\ MaxWire \in Nat
  BY HostAssumption DEF HostTypeOK
<1>2. wire' \in Seq(Messages) /\ Len(wire') <= MaxWire /\ Head(wire) \in Messages  BY <1>1
<1> QED  BY <1>2 DEF HostTypeOK, shared, sender, local

-----------------------------------------------------------------------------
(* The OSD: handling a message keeps its state well typed and every drawn rectangle inside
   the screen. *)
OsdInv == OsdTypeOK /\ RectsOnScreen

LEMMA NoRectType == NoRect \in Rects
BY GridAssumption, OverlayAssumption DEF NoRect, Rects, Boxes, Zero

LEMMA SetType ==
  ASSUME OsdInv, NEW i \in RectIndex, NEW rect \in Rects, Set(i, rect), OnScreen(rect.box)
  PROVE  rects' \in [RectIndex -> Rects] /\ RectsOnScreen'
<1>1. rects \in [RectIndex -> Rects] /\ RectsOnScreen  BY DEF OsdInv, OsdTypeOK
<1>2. rects' = [rects EXCEPT ![i] = rect]  BY DEF Set
<1> QED  BY <1>1, <1>2 DEF RectsOnScreen, Drawn, OnScreen

LEMMA HandleType == ASSUME OsdInv, NEW m \in Messages, Handle(m) PROVE OsdInv'
<1> USE DEF OsdInv, OsdTypeOK
<1>1. m.r \in ByteRects /\ m.c \in Byte  BY DEF Messages
<1>2. Clamp(m.r) \in Boxes /\ OnScreen(Clamp(m.r))  BY <1>1, ClampOnScreen
<1>3. now \in 0..MaxTime  BY OverlayAssumption
<1>4. 0 \in RectIndex  BY OverlayAssumption DEF RectIndex
<1>5. ASSUME \A i \in RectIndex : rects'[i] \in {rects[i], NoRect}, rects' \in [RectIndex -> Rects]
      PROVE RectsOnScreen'
  BY <1>5 DEF RectsOnScreen, Drawn, NoRect
<1>6. CASE m.k = "C" /\ HandleClear(m)
  <2>1. rects' \in [RectIndex -> Rects] /\ \A i \in RectIndex : rects'[i] \in {rects[i], NoRect}
    BY <1>6, NoRectType DEF HandleClear
  <2> QED  BY <1>5, <1>6, <2>1 DEF HandleClear
<1>7. CASE m.k = "T" /\ HandleTracker(m)
  <2> DEFINE rect == [type |-> "t", box |-> Clamp(m.r), line |-> 1, time |-> now]
  <2>1. rect \in Rects /\ rect.box = Clamp(m.r)  BY <1>2, <1>3 DEF Rects
  <2>2. Set(0, rect)  BY <1>7 DEF HandleTracker
  <2> HIDE DEF rect
  <2>3. rects' \in [RectIndex -> Rects] /\ RectsOnScreen'  BY <1>2, <1>4, <2>1, <2>2, SetType
  <2> QED  BY <1>7, <2>3 DEF HandleTracker, Modes
<1>8. CASE m.k = "D" /\ HandleDetector(m)
  <2> DEFINE rect == [type |-> "d", box |-> Clamp(m.r), line |-> 0, time |-> now]
  <2>1. rect \in Rects /\ rect.box = Clamp(m.r)  BY <1>2, <1>3 DEF Rects
  <2>2. IF m.c - 48 \in RectIndex THEN Set(m.c - 48, rect) ELSE UNCHANGED rects
    BY <1>8 DEF HandleDetector
  <2> HIDE DEF rect
  <2>3. CASE m.c - 48 \in RectIndex
    <3>1. rects' \in [RectIndex -> Rects] /\ RectsOnScreen'  BY <1>2, <2>1, <2>2, <2>3, SetType
    <3> QED  BY <1>8, <3>1 DEF HandleDetector, Modes
  <2>4. CASE m.c - 48 \notin RectIndex
    BY <1>8, <2>2, <2>4 DEF HandleDetector, Modes, RectsOnScreen, Drawn
  <2> QED  BY <2>3, <2>4
<1>9. CASE HandleStatus(m) \/ HandleControl(m) \/ HandleOther
  BY <1>9 DEF HandleStatus, HandleControl, HandleOther, osdVars, RectsOnScreen, Drawn
<1>10. CASE OsdReset
  <2>1. rects' \in [RectIndex -> Rects] /\ \A i \in RectIndex : rects'[i] \in {rects[i], NoRect}
    BY <1>10, NoRectType DEF OsdReset
  <2> QED  BY <1>5, <1>10, <2>1, OverlayAssumption DEF OsdReset, Modes
<1> QED  BY <1>6, <1>7, <1>8, <1>9, <1>10 DEF Handle

-----------------------------------------------------------------------------
(* The whole system. *)
LinkInv == TypeOK /\ RectsOnScreen

LEMMA InitInv == Init => LinkInv
<1> SUFFICES ASSUME Init PROVE LinkInv  OBVIOUS
<1>1. HostTypeOK
  <2>1. <<>> \in Seq(Messages) /\ Len(<<>>) <= MaxWire  BY HostAssumption
  <2>2. NoJob \in [boxes : Seq(ByteRects), i : Nat, j : Nat] /\ Len(NoJob.boxes) <= N
    BY NoJobType, HostAssumption
  <2> QED  BY <2>1, <2>2, FreshType DEF Init, HostInit, HostTypeOK
<1>2. OsdTypeOK  BY NoRectType, OverlayAssumption DEF Init, OsdInit, OsdTypeOK, Modes
<1>3. RectsOnScreen  BY DEF Init, OsdInit, RectsOnScreen, Drawn, NoRect
<1> QED  BY <1>1, <1>2, <1>3 DEF LinkInv, TypeOK, Init

LEMMA StepInv == LinkInv /\ [Next]_linkVars => LinkInv'
<1> SUFFICES ASSUME LinkInv, [Next]_linkVars PROVE LinkInv'  OBVIOUS
<1>1. HostTypeOK /\ OsdInv /\ stale \subseteq Parts  BY DEF LinkInv, TypeOK, OsdInv
<1>2. ASSUME HostTypeOK', UNCHANGED osdVars, stale' \subseteq Parts PROVE LinkInv'
  BY <1>1, <1>2 DEF LinkInv, TypeOK, OsdInv, OsdTypeOK, osdVars, RectsOnScreen, Drawn
<1>3. ASSUME HostTypeOK', OsdInv', stale' \subseteq Parts PROVE LinkInv'
  BY <1>3 DEF LinkInv, TypeOK, OsdInv
<1>4. CASE Request
  <2> stale' = stale /\ UNCHANGED osdVars  BY <1>4 DEF Request, Note, Quiet, history
  <2>1. HostTypeOK'
    BY <1>1, <1>4, TrackTypes, NotTrackedTypes, FailedTypes, DetectTypes, ManualTypes, OtherTypes,
       ModeRange
    DEF Request
  <2> QED  BY <1>1, <1>2, <2>1
<1>5. CASE (MainStep \/ WorkerStep) /\ Quiet
  BY <1>1, <1>2, <1>5, MainTypes, WorkerTypes DEF Quiet, history
<1>6. CASE (Signal \/ Throw) /\ Quiet
  BY <1>1, <1>2, <1>6, OtherTypes DEF Quiet, history
<1>7. CASE (WorkerWriteFails \/ MainWriteFails \/ Launch) /\ UNCHANGED <<osdVars, stale>>
  BY <1>1, <1>2, <1>7, OtherTypes
<1>8. CASE Deliver
  <2>1. HostTypeOK' /\ Head(wire) \in Messages  BY <1>1, <1>8, TakenType DEF Deliver
  <2>2. OsdInv'  BY <1>1, <1>8, <2>1, HandleType DEF Deliver
  <2>3. stale' \subseteq Parts  BY <1>1, <1>8 DEF Deliver
  <2> QED  BY <1>3, <2>1, <2>2, <2>3
<1>9. CASE Lose
  <2>1. HostTypeOK'  BY <1>1, <1>9, TakenType DEF Lose
  <2>2. stale' \subseteq Parts  BY <1>1, <1>9 DEF Lose, Affects, Parts
  <2> QED  BY <1>2, <1>9, <2>1, <2>2 DEF Lose
<1>10. CASE Restart
  <2>1. HostTypeOK'  BY <1>1, <1>10 DEF Restart, hostVars, local, shared, sender, HostTypeOK
  <2>2. rects' = [i \in RectIndex |-> NoRect] /\ controlMode' = 2 /\ aimStatus' = 0 /\ now' = 1
    BY <1>10 DEF Restart, OsdReset
  <2>3. OsdInv'
    BY <2>2, NoRectType, OverlayAssumption DEF OsdInv, OsdTypeOK, Modes, RectsOnScreen, Drawn, NoRect
  <2> QED  BY <1>3, <1>10, <2>1, <2>3 DEF Restart
<1>11. CASE TickOsd /\ UNCHANGED <<hostVars, history>>
  <2>1. HostTypeOK'  BY <1>1, <1>11 DEF hostVars, local, shared, sender, HostTypeOK
  <2>2. OsdInv'
    BY <1>1, <1>11, OverlayAssumption DEF TickOsd, OsdInv, OsdTypeOK, RectsOnScreen, Drawn
  <2> QED  BY <1>1, <1>3, <1>11, <2>1, <2>2 DEF history
<1>12. CASE UNCHANGED linkVars
  <2>1. HostTypeOK'  BY <1>1, <1>12 DEF linkVars, hostVars, local, shared, sender, HostTypeOK
  <2> QED  BY <1>1, <1>2, <1>12, <2>1 DEF linkVars
<1> QED
  BY <1>4, <1>5, <1>6, <1>7, <1>8, <1>9, <1>10, <1>11, <1>12 DEF Next

(* Whatever the threads do and however the line fails, every variable has its type: the
   cache, the queues and the messages under way are built from bytes, and the loops over
   rectangles never leave the cache (GpuUtils.cpp, ProcGpu.cpp). *)
THEOREM LinkTypeCorrect == Spec => []TypeOK
<1>1. LinkInv => TypeOK  BY DEF LinkInv
<1> QED  BY <1>1, InitInv, StepInv, PTL DEF Spec

(* No rectangle is ever drawn across the border of the screen, whatever the image
   processing reports, for every picture and screen size (SerialMAVLINK.ino:303-310,
   329-336). *)
THEOREM OutlinesOnScreen == Spec => []RectsOnScreen
<1>1. LinkInv => RectsOnScreen  BY DEF LinkInv
<1> QED  BY <1>1, InitInv, StepInv, PTL DEF Spec

-----------------------------------------------------------------------------
(***************************************************************************)
(* What the OSD shows of the overlay, whatever the host's threads do and   *)
(* however messages and restarts interleave.  A claim is about one thing   *)
(* the OSD keeps: the mode, the aim status, a rectangle, or that there are *)
(* none.  A claim is due when the messages under way, taken one after the  *)
(* other, end in it: the last of them that touches the thing makes the     *)
(* claim true or, when none touches it, it already is.  The worker's own   *)
(* queue comes after the line.                                             *)
(*                                                                         *)
(* The host's cache is right about a rectangle when it is due, and what a  *)
(* request asks for is due from the moment its handler has run.            *)
(***************************************************************************)

Working == worker \notin {"none", "ended"}

(* A message that changes rectangle i, and one that makes it the rectangle p. *)
Touches(m, i) == \/ m.k = "T" /\ i = 0
                 \/ m.k = "D" /\ m.c - 48 = i
                 \/ m.k = "C" /\ (m.c = 65 \/ (m.c # 83 /\ Digit(m.c) = i))
Sets(m, i, p) == \/ m.k = "T" /\ i = 0 /\ p.line = 1 /\ m.r = p.r
                 \/ m.k = "D" /\ m.c - 48 = i /\ p.line # 1 /\ m.r = p.r
Matches(i, p) == IF p.line = 1 THEN Solid(i, p.r) ELSE Dashed(i, p.r)

-----------------------------------------------------------------------------
(* Claims. *)
Blank == [r |-> Zero, line |-> 0, valid |-> FALSE]
ModeIs(v) == [about |-> "mode", i |-> v, p |-> Blank]
AimIs(v) == [about |-> "aim", i |-> v, p |-> Blank]
NoneDrawn == [about |-> "none", i |-> 0, p |-> Blank]
OnlyFirst == [about |-> "others", i |-> 0, p |-> Blank]
RectIs(i, p) == [about |-> "rect", i |-> i, p |-> p]
Claims == {c \in [about : {"mode", "aim", "none", "others", "rect"}, i : 0..9, p : PrevRect] :
             /\ c.about \in {"mode", "aim"} => c.i \in 0..2
             /\ c.about = "rect" => c.i \in Index}

(* The messages that make a claim true whatever was before, and those that may end it. *)
Setters(c) == {m \in Messages :
  \/ c.about = "mode" /\ \/ m.k = "T" /\ c.i = 0
                         \/ m.k = "D" /\ c.i = 1
                         \/ m.k = "O" /\ m.c = 48 + c.i
  \/ c.about = "aim" /\ \/ m.k \in {"T", "D"} /\ c.i = 0
                        \/ m.k = "S" /\ m.c = 48 + c.i
  \/ c.about \in {"none", "others"} /\ m.k = "C" /\ m.c = 65
  \/ c.about = "rect" /\ Sets(m, c.i, c.p)}
Touchers(c) == {m \in Messages :
  \/ c.about = "mode" /\ m.k \in {"T", "D", "O"}
  \/ c.about = "aim" /\ m.k \in {"T", "D", "S"}
  \/ c.about = "none" /\ m.k \in {"T", "D"}
  \/ c.about = "others" /\ m.k = "D"
  \/ c.about = "rect" /\ Touches(m, c.i)}

(* Nothing is claimed of what a loss or a restart made stale. *)
Base(c) ==
  \/ c.about = "mode" /\ ("mode" \in stale \/ controlMode = c.i)
  \/ c.about = "aim" /\ ("aim" \in stale \/ aimStatus = c.i)
  \/ c.about = "none" /\ ("rects" \in stale \/ NoRects)
  \/ c.about = "others" /\ ("rects" \in stale \/ \A i \in RectIndex \ {0} : ~Drawn(i))
  \/ c.about = "rect" /\ ("rects" \in stale \/ Matches(c.i, c.p))

(* The messages of q end in S and are not followed by one of T, given what was before. *)
Renewed(q, S, T) == \E n \in 1..Len(q) : q[n] \in S /\ \A k \in 1..Len(q) : k > n => q[k] \notin T
Untouched(q, T) == \A k \in 1..Len(q) : q[k] \notin T
Leaves(q, S, T, before) == Renewed(q, S, T) \/ (Untouched(q, T) /\ before)

OnLine(c) == Leaves(wire, Setters(c), Touchers(c), Base(c))
After(q, c) == Leaves(q, Setters(c), Touchers(c), OnLine(c))
Due(c) == After(wout, c)

-----------------------------------------------------------------------------
(* The invariant: the cache, the two threads, the host's end, and what requests ask for. *)
Right(pr, q) == \A i \in Index : \A p \in PrevRect :
                  p = pr[i] /\ p.valid /\ p.r # Zero => After(q, RectIs(i, p))
Cache == Working => Right(prev, wout)

Threads == /\ Working => /\ main \in {"wait", "stop", "terminate", "join"} /\ running
                         /\ \A k \in 1..Len(mout) : mout[k].k \in {"O", "S"}
           /\ ~Working => wout = <<>>
           /\ main \in {"start", "spawn"} => worker = "none" /\ \A i \in Index : prev[i].r = Zero

(* From the destructor on the last messages under way clear the screen. *)
Ending == main \in {"exit", "exited"} => After(mout, NoneDrawn)

(* The host's modes say what the OSD was told.  After a failure the aim status is not
   void, but then every rectangle is sent anew, and a rectangle makes it so. *)
Forgotten == \A i \in Index : prev[i].r = Zero
Informed ==
  /\ lastMode = Tracker => Due(ModeIs(Tracker)) /\ (Due(AimIs(Void)) \/ Forgotten)
  /\ lastMode = Detector => Due(ModeIs(Detector)) /\ Due(AimIs(Void))
  /\ cleared => lastMode = Tracker /\ Due(OnlyFirst)
Told == main = "wait" /\ Working => Informed

(* The loops over rectangles belong to the last request. *)
Objecting == /\ last.k = "detect" /\ lastMode = Detector /\ ~cleared
             /\ job.boxes = last.boxes /\ job.i < Len(last.boxes)
Loops == /\ worker = "object" => Objecting
         /\ worker = "clear" => \/ Objecting /\ job.j >= Len(last.boxes)
                                \/ last.k = "track" /\ lastMode = Tracker /\ job.boxes = <<>> /\ job.j >= 1
Fresh == main \in {"start", "spawn"} \/ worker = "begin" =>
           last = Nothing /\ lastMode = Manual /\ ~cleared
Asked == /\ last.boxes \in Seq(ByteRects) /\ Len(last.boxes) <= N
         /\ last.k = "track" => Len(last.boxes) = 1
         /\ main = "wait" => mout = <<>>

(* The objects of the last request that have been sent, and what it asks for. *)
Done == CASE worker = "object" -> job.i
          [] worker = "clear" -> job.i + 1
          [] OTHER -> Len(last.boxes)
Target(p) == p = [r |-> last.boxes[1], line |-> 1, valid |-> TRUE] /\ p.r # Zero
Reported(n, p) == p = [r |-> last.boxes[n], line |-> 0, valid |-> TRUE] /\ p.r # Zero
Owed ==
  /\ last.k \in {"lost", "notfound"} => Due(NoneDrawn) /\ Due(ModeIs(Tracker))
  /\ last.k = "lost" => Due(AimIs(Lost))
  /\ last.k = "notfound" => Due(AimIs(NotFound))
  /\ last.k = "track" => \A p \in PrevRect : Target(p) =>
       Due(RectIs(0, p)) /\ Due(OnlyFirst) /\ Due(ModeIs(Tracker)) /\ Due(AimIs(Void))
  /\ last.k = "detect" =>
       /\ Due(ModeIs(Detector)) /\ Due(AimIs(Void))
       /\ \A n \in 1..Done : \A p \in PrevRect : Reported(n, p) => Due(RectIs(n - 1, p))
  /\ last.k = "manual" => Due(NoneDrawn) /\ Due(ModeIs(Manual)) /\ Due(AimIs(Void))
Answered == main = "wait" => Owed

(* A rectangle in use was set at some time: the clock starts above zero. *)
Timed == \A i \in RectIndex : rects[i].type # "n" => rects[i].time # 0

IInv == /\ LinkInv /\ Threads /\ Cache /\ Ending
        /\ Loops /\ Fresh /\ Asked /\ Told /\ Answered /\ Timed

-----------------------------------------------------------------------------
(* Queues. *)
LEMMA LeavesMonotone ==
  ASSUME NEW q, NEW S, NEW T, NEW before, NEW after, Leaves(q, S, T, before), before => after
  PROVE  Leaves(q, S, T, after)
BY DEF Leaves

LEMMA LeavesEmpty == ASSUME NEW S, NEW T, NEW before PROVE Leaves(<<>>, S, T, before) <=> before
BY DEF Leaves, Renewed, Untouched

LEMMA AppendSets ==
  ASSUME NEW q \in Seq(Messages), NEW m \in Messages, NEW S, NEW T, NEW before, m \in S
  PROVE  Leaves(Append(q, m), S, T, before)
<1> DEFINE a == Append(q, m)
<1>1. Len(a) = Len(q) + 1 /\ a[Len(q) + 1] = m /\ Len(q) \in Nat  OBVIOUS
<1> HIDE DEF a
<1>2. Len(q) + 1 \in 1..Len(a) /\ \A k \in 1..Len(a) : ~(k > Len(q) + 1)  BY <1>1
<1>3. Renewed(a, S, T)  BY <1>1, <1>2 DEF Renewed
<1> QED  BY <1>3 DEF Leaves, a

LEMMA AppendKeeps ==
  ASSUME NEW q \in Seq(Messages), NEW m \in Messages, NEW S, NEW T, NEW before,
         m \notin T, Leaves(q, S, T, before)
  PROVE  Leaves(Append(q, m), S, T, before)
<1> DEFINE a == Append(q, m)
<1>1. Len(a) = Len(q) + 1 /\ a[Len(q) + 1] = m /\ Len(q) \in Nat  OBVIOUS
<1>2. \A k \in 1..Len(q) : a[k] = q[k]  OBVIOUS
<1> HIDE DEF a
<1>3. \A k \in 1..Len(a) : k \in 1..Len(q) \/ k = Len(q) + 1  BY <1>1
<1>4. CASE Renewed(q, S, T)
  <2>1. PICK n \in 1..Len(q) : q[n] \in S /\ \A k \in 1..Len(q) : k > n => q[k] \notin T
    BY <1>4 DEF Renewed
  <2>2. n \in 1..Len(a) /\ a[n] \in S  BY <1>1, <1>2, <2>1
  <2>3. \A k \in 1..Len(a) : k > n => a[k] \notin T  BY <1>1, <1>2, <1>3, <2>1
  <2> QED  BY <2>2, <2>3 DEF Renewed, Leaves, a
<1>5. CASE Untouched(q, T) /\ before
  <2>1. Untouched(a, T)  BY <1>1, <1>2, <1>3, <1>5 DEF Untouched
  <2> QED  BY <1>5, <2>1 DEF Leaves, a
<1> QED  BY <1>4, <1>5 DEF Leaves

LEMMA TailLeaves ==
  ASSUME NEW q \in Seq(Messages), q # <<>>, NEW S, NEW T, NEW before, NEW after,
         Leaves(q, S, T, before),
         Head(q) \in S => after, Head(q) \notin T /\ before => after
  PROVE  Leaves(Tail(q), S, T, after)
<1> DEFINE t == Tail(q)
<1>1. Len(q) \in Nat \ {0} /\ Len(t) = Len(q) - 1 /\ Head(q) = q[1]  OBVIOUS
<1>2. \A k \in 1..Len(t) : t[k] = q[k + 1] /\ k + 1 \in 1..Len(q)  BY <1>1
<1> HIDE DEF t
<1>3. CASE Renewed(q, S, T)
  <2>1. PICK n \in 1..Len(q) : q[n] \in S /\ \A k \in 1..Len(q) : k > n => q[k] \notin T
    BY <1>3 DEF Renewed
  <2>2. CASE n = 1
    <3>1. after /\ Untouched(t, T)  BY <1>1, <1>2, <2>1, <2>2 DEF Untouched
    <3> QED  BY <3>1 DEF Leaves, t
  <2>3. CASE n # 1
    <3>1. n - 1 \in 1..Len(t) /\ t[n - 1] = q[n]  BY <1>1, <1>2, <2>1, <2>3
    <3>2. \A k \in 1..Len(t) : k > n - 1 => t[k] \notin T  BY <1>1, <1>2, <2>1
    <3>3. Renewed(t, S, T)  BY <2>1, <3>1, <3>2 DEF Renewed
    <3> QED  BY <3>3 DEF Leaves, t
  <2> QED  BY <2>2, <2>3
<1>4. CASE Untouched(q, T) /\ before
  <2>1. after /\ Untouched(t, T)  BY <1>1, <1>2, <1>4 DEF Untouched
  <2> QED  BY <2>1 DEF Leaves, t
<1> QED  BY <1>3, <1>4 DEF Leaves

LEMMA AfterSets ==
  ASSUME NEW q \in Seq(Messages), NEW m \in Messages, NEW c, m \in Setters(c)
  PROVE  After(Append(q, m), c)
BY AppendSets DEF After

LEMMA AfterKeeps ==
  ASSUME NEW q \in Seq(Messages), NEW m \in Messages, NEW c, m \notin Touchers(c), After(q, c)
  PROVE  After(Append(q, m), c)
BY AppendKeeps DEF After

-----------------------------------------------------------------------------
(* What the host's messages set, and what they leave. *)
LEMMA ClaimTypes ==
  /\ \A v \in 0..2 : ModeIs(v) \in Claims /\ AimIs(v) \in Claims
  /\ NoneDrawn \in Claims /\ OnlyFirst \in Claims
  /\ \A i \in Index : \A p \in PrevRect : RectIs(i, p) \in Claims
<1>1. Blank \in PrevRect  BY ZeroBytes DEF Blank, PrevRect
<1> QED  BY <1>1, IndexRange DEF Claims, ModeIs, AimIs, NoneDrawn, OnlyFirst, RectIs

LEMMA ControlClaims ==
  ASSUME NEW v \in 0..2
  PROVE  /\ ControlMsg(v) \in Messages /\ ControlMsg(v) \in Setters(ModeIs(v))
         /\ \A c \in Claims : c.about # "mode" => ControlMsg(v) \notin Touchers(c)
BY FixedMessages DEF ControlMsg, Msg, Setters, Touchers, ModeIs, Touches

LEMMA StatusClaims ==
  ASSUME NEW v \in 0..2
  PROVE  /\ StatusMsg(v) \in Messages /\ StatusMsg(v) \in Setters(AimIs(v))
         /\ \A c \in Claims : c.about # "aim" => StatusMsg(v) \notin Touchers(c)
BY FixedMessages DEF StatusMsg, Msg, Setters, Touchers, AimIs, Touches

LEMMA ClearClaims ==
  /\ ClearAllMsg \in Messages /\ ClearAllMsg \in Setters(NoneDrawn) /\ ClearAllMsg \in Setters(OnlyFirst)
  /\ \A c \in Claims : c.about # "rect" => ClearAllMsg \notin Touchers(c)
BY FixedMessages DEF ClearAllMsg, Msg, Setters, Touchers, NoneDrawn, OnlyFirst

(* "CS", 'A' and the clearing of one rectangle touch nothing. *)
LEMMA HarmlessClaims ==
  /\ NotTrackedMsg \in Messages /\ ClearScreenMsg \in Messages
  /\ \A c \in Claims : NotTrackedMsg \notin Touchers(c) /\ ClearScreenMsg \notin Touchers(c)
  /\ \A i \in Index : /\ Msg("C", i, Zero) \in Messages
                      /\ \A c \in Claims : Msg("C", i, Zero) \notin Touchers(c)
<1>1. NotTrackedMsg \in Messages /\ ClearScreenMsg \in Messages  BY FixedMessages
<1>2. \A c \in Claims : NotTrackedMsg \notin Touchers(c) /\ ClearScreenMsg \notin Touchers(c)
  BY DEF NotTrackedMsg, ClearScreenMsg, Msg, Touchers, Touches
<1>3. ASSUME NEW i \in Index
      PROVE  Msg("C", i, Zero) \in Messages /\ \A c \in Claims : Msg("C", i, Zero) \notin Touchers(c)
  <2>1. Msg("C", i, Zero) \in Messages  BY ZeroBytes, IndexRange DEF Msg, Messages, Byte
  <2>2. \A j \in 0..9 : ~Touches(Msg("C", i, Zero), j)  BY IndexRange DEF Touches, Msg, Digit
  <2>3. \A c \in Claims : c.i \in 0..9  BY DEF Claims
  <2> QED  BY <2>1, <2>2, <2>3 DEF Touchers, Msg
<1> QED  BY <1>1, <1>2, <1>3

LEMMA TrackerClaims ==
  ASSUME NEW r \in ByteRects
  PROVE  LET m == Msg("T", 0, r) IN
         /\ m \in Messages /\ m \in Setters(ModeIs(Tracker)) /\ m \in Setters(AimIs(Void))
         /\ m \notin Touchers(OnlyFirst)
         /\ \A p \in PrevRect : p.r = r /\ p.line = 1 => m \in Setters(RectIs(0, p))
         /\ \A i \in Index \ {0} : \A p : m \notin Touchers(RectIs(i, p))
<1>1. Msg("T", 0, r) \in Messages  BY DEF Msg, Messages, Byte
<1> QED
  BY <1>1 DEF Msg, Setters, Touchers, ModeIs, AimIs, OnlyFirst, RectIs, Sets, Touches, Tracker, Void

LEMMA DetectorClaims ==
  ASSUME NEW r \in ByteRects, NEW i \in Index
  PROVE  LET m == Msg("D", 48 + i, r) IN
         /\ m \in Messages /\ m \in Setters(ModeIs(Detector)) /\ m \in Setters(AimIs(Void))
         /\ \A p \in PrevRect : p.r = r /\ p.line = 0 => m \in Setters(RectIs(i, p))
         /\ \A j \in Index \ {i} : \A p : m \notin Touchers(RectIs(j, p))
<1>1. Msg("D", 48 + i, r) \in Messages /\ i \in 0..9  BY IndexRange DEF Msg, Messages, Byte
<1> QED
  BY <1>1, IndexRange DEF Msg, Setters, Touchers, ModeIs, AimIs, RectIs, Sets, Touches, Detector, Void

-----------------------------------------------------------------------------
(* The send_ functions keep the cache right, given a queue they add to. *)
LEMMA PutRight ==
  ASSUME NEW s \in Senders, NEW m \in Messages,
         \A i \in Index : \A p \in PrevRect : m \notin Touchers(RectIs(i, p)), Right(s.prev, s.out)
  PROVE  Right(Put(s, m).prev, Put(s, m).out)
<1>1. Put(s, m).prev = s.prev /\ Put(s, m).out = Append(s.out, m)  BY DEF Put, Senders
<1>2. s.out \in Seq(Messages)  BY DEF Senders
<1> QED  BY <1>1, <1>2, AfterKeeps DEF Right

LEMMA ZeroRight == ASSUME NEW pr, NEW q, \A i \in Index : pr[i].r = Zero PROVE Right(pr, q)
BY DEF Right

LEMMA SendClearForgets ==
  ASSUME NEW s \in Senders, NEW m \in Messages
  PROVE  /\ SendClear(s, m).out = Append(s.out, m)
         /\ \A i \in Index : SendClear(s, m).prev[i].r = Zero
         /\ Right(SendClear(s, m).prev, SendClear(s, m).out)
<1>1. SendClear(s, m).prev = Forget(s.prev) /\ SendClear(s, m).out = Append(s.out, m)
  BY DEF SendClear, Put, Senders
<1>2. \A i \in Index : Forget(s.prev)[i].r = Zero  BY DEF Forget, Senders, PrevRect
<1> QED  BY <1>1, <1>2, ZeroRight

LEMMA SendClearRectRight ==
  ASSUME NEW s \in Senders, NEW i \in Index, Right(s.prev, s.out)
  PROVE  Right(SendClearRect(s, i).prev, SendClearRect(s, i).out)
<1> DEFINE w == [s EXCEPT !.prev[i].valid = FALSE]
<1>1. w \in Senders  BY DEF Senders, PrevRect
<1>2. Right(w.prev, w.out)
  <2>1. w.out = s.out /\ ~w.prev[i].valid /\ \A j \in Index \ {i} : w.prev[j] = s.prev[j]
    BY DEF Senders, PrevRect
  <2> HIDE DEF w
  <2> QED  BY <2>1 DEF Right
<1>3. Msg("C", i, Zero) \in Messages  BY HarmlessClaims
<1>4. \A j \in Index : \A p \in PrevRect : Msg("C", i, Zero) \notin Touchers(RectIs(j, p))
  BY HarmlessClaims, ClaimTypes
<1> HIDE DEF w
<1>5. Right(Put(w, Msg("C", i, Zero)).prev, Put(w, Msg("C", i, Zero)).out)
  BY <1>1, <1>2, <1>3, <1>4, PutRight
<1> QED  BY <1>5 DEF SendClearRect, w

(* A rectangle is sent and remembered. *)
LEMMA RememberRight ==
  ASSUME NEW s \in Senders, NEW i \in Index, NEW r \in ByteRects, NEW line \in {0, 1}, NEW m \in Messages,
         \A p \in PrevRect : p.r = r /\ p.line = line => m \in Setters(RectIs(i, p)),
         \A j \in Index \ {i} : \A p : m \notin Touchers(RectIs(j, p)),
         Right(s.prev, s.out)
  PROVE  Right(Remember(Put(s, m), i, r, line).prev, Remember(Put(s, m), i, r, line).out)
<1> DEFINE kept == [r |-> r, line |-> line, valid |-> TRUE]
           new == Remember(Put(s, m), i, r, line)
<1>1. kept \in PrevRect /\ kept.r = r /\ kept.line = line  BY DEF PrevRect
<1>2. /\ new.out = Append(s.out, m) /\ new.prev[i] = kept
      /\ \A j \in Index \ {i} : new.prev[j] = s.prev[j]
  BY DEF Remember, Put, Senders
<1>3. s.out \in Seq(Messages)  BY DEF Senders
<1> HIDE DEF kept, new
<1>4. \A p \in PrevRect : p = new.prev[i] => After(new.out, RectIs(i, p))
  BY <1>1, <1>2, <1>3, AfterSets
<1>5. ASSUME NEW j \in Index \ {i}, NEW p \in PrevRect, p = new.prev[j], p.valid, p.r # Zero
      PROVE  After(new.out, RectIs(j, p))
  <2>1. After(s.out, RectIs(j, p))  BY <1>2, <1>5 DEF Right
  <2> QED  BY <1>2, <1>3, <1>5, <2>1, AfterKeeps
<1> QED  BY <1>4, <1>5 DEF Right, new

LEMMA SendDetectorObjRight ==
  ASSUME NEW s \in Senders, NEW i \in Index, NEW r \in ByteRects, Right(s.prev, s.out)
  PROVE  Right(SendDetectorObj(s, i, r).prev, SendDetectorObj(s, i, r).out)
<1> DEFINE m == Msg("D", 48 + i, r)
           c == SendClearRect(s, i)
<1>1. /\ m \in Messages /\ \A p \in PrevRect : p.r = r /\ p.line = 0 => m \in Setters(RectIs(i, p))
      /\ \A j \in Index \ {i} : \A p : m \notin Touchers(RectIs(j, p))
  BY DetectorClaims
<1>2. c \in Senders /\ Right(c.prev, c.out)  BY SendClearRectType, SendClearRectRight
<1> HIDE DEF m, c
<1>3. Right(Remember(Put(c, m), i, r, 0).prev, Remember(Put(c, m), i, r, 0).out)
  BY <1>1, <1>2, RememberRight
<1> QED  BY <1>3 DEF SendDetectorObj, m, c

LEMMA SendTrackerObjRight ==
  ASSUME NEW s \in Senders, NEW r \in ByteRects, Right(s.prev, s.out)
  PROVE  Right(SendTrackerObj(s, r).prev, SendTrackerObj(s, r).out)
<1> DEFINE m == Msg("T", 0, r)
<1>1. /\ m \in Messages /\ \A p \in PrevRect : p.r = r /\ p.line = 1 => m \in Setters(RectIs(0, p))
      /\ \A j \in Index \ {0} : \A p : m \notin Touchers(RectIs(j, p))
  BY TrackerClaims
<1> HIDE DEF m
<1>2. Right(Remember(Put(s, m), 0, r, 1).prev, Remember(Put(s, m), 0, r, 1).out)
  BY <1>1, IndexRange, RememberRight
<1> QED  BY <1>2 DEF SendTrackerObj, m

-----------------------------------------------------------------------------
(* What the send_ functions leave due. *)
LEMMA PutOut == ASSUME NEW s \in Senders, NEW m \in Messages
                PROVE Put(s, m).out = Append(s.out, m) /\ Put(s, m).prev = s.prev /\ s.out \in Seq(Messages)
BY DEF Put, Senders

LEMMA PutKeeps ==
  ASSUME NEW s \in Senders, NEW m \in Messages, NEW c, m \notin Touchers(c), After(s.out, c)
  PROVE  After(Put(s, m).out, c)
BY PutOut, AfterKeeps

LEMMA PutSets ==
  ASSUME NEW s \in Senders, NEW m \in Messages, NEW c, m \in Setters(c) PROVE After(Put(s, m).out, c)
BY PutOut, AfterSets

LEMMA SendClearKeeps ==
  ASSUME NEW s \in Senders, NEW c \in Claims, c.about # "rect", After(s.out, c)
  PROVE  After(SendClear(s, ClearAllMsg).out, c)
<1>1. ClearAllMsg \notin Touchers(c) /\ ClearAllMsg \in Messages  BY ClearClaims
<1>2. SendClear(s, ClearAllMsg).out = Append(s.out, ClearAllMsg) /\ s.out \in Seq(Messages)
  BY <1>1, SendClearForgets DEF Senders
<1> QED  BY <1>1, <1>2, AfterKeeps

LEMMA SendClearSets ==
  ASSUME NEW s \in Senders
  PROVE  /\ After(SendClear(s, ClearAllMsg).out, NoneDrawn)
         /\ After(SendClear(s, ClearAllMsg).out, OnlyFirst)
<1>1. SendClear(s, ClearAllMsg).out = Append(s.out, ClearAllMsg) /\ s.out \in Seq(Messages)
  BY ClearClaims, SendClearForgets DEF Senders
<1> QED  BY <1>1, ClearClaims, AfterSets

LEMMA SendClearRectKeeps ==
  ASSUME NEW s \in Senders, NEW i \in Index, NEW c \in Claims, After(s.out, c)
  PROVE  After(SendClearRect(s, i).out, c)
<1> DEFINE w == [s EXCEPT !.prev[i].valid = FALSE]
<1>1. w \in Senders /\ w.out = s.out  BY DEF Senders, PrevRect
<1> HIDE DEF w
<1>2. After(Put(w, Msg("C", i, Zero)).out, c)  BY <1>1, HarmlessClaims, PutKeeps
<1> QED  BY <1>2 DEF SendClearRect, w

LEMMA RememberOut == ASSUME NEW s \in Senders, NEW i \in Index, NEW r, NEW line
                     PROVE Remember(s, i, r, line).out = s.out
BY DEF Remember, Senders

LEMMA SendDetectorObjDue ==
  ASSUME NEW s \in Senders, NEW i \in Index, NEW r \in ByteRects, Right(s.prev, s.out),
         After(s.out, ModeIs(Detector)), After(s.out, AimIs(Void))
  PROVE  LET q == SendDetectorObj(s, i, r).out IN
         /\ After(q, ModeIs(Detector)) /\ After(q, AimIs(Void))
         /\ \A p \in PrevRect : p = [r |-> r, line |-> 0, valid |-> TRUE] /\ p.r # Zero => After(q, RectIs(i, p))
         /\ \A j \in Index \ {i} : \A p \in PrevRect : After(s.out, RectIs(j, p)) => After(q, RectIs(j, p))
<1> DEFINE m == Msg("D", 48 + i, r)
           c == SendClearRect(s, i)
<1>1. CASE Known(s.prev[i], r, 0)
  <2>1. SendDetectorObj(s, i, r) = s  BY <1>1 DEF SendDetectorObj
  <2>2. s.prev[i] \in PrevRect /\ s.prev[i].valid /\ s.prev[i].r = r /\ s.prev[i].line = 0
    BY <1>1 DEF Known, Senders
  <2>3. s.prev[i] = [r |-> r, line |-> 0, valid |-> TRUE]  BY <2>2 DEF PrevRect
  <2>4. \A p \in PrevRect : p = s.prev[i] /\ p.r # Zero => After(s.out, RectIs(i, p))
    BY <2>2 DEF Right
  <2> QED  BY <2>1, <2>3, <2>4
<1>2. CASE ~Known(s.prev[i], r, 0)
  <2>1. /\ m \in Messages /\ m \in Setters(ModeIs(Detector)) /\ m \in Setters(AimIs(Void))
        /\ \A p \in PrevRect : p.r = r /\ p.line = 0 => m \in Setters(RectIs(i, p))
        /\ \A j \in Index \ {i} : \A p : m \notin Touchers(RectIs(j, p))
    BY DetectorClaims
  <2>2. c \in Senders  BY SendClearRectType
  <2>3. \A j \in Index : \A p \in PrevRect : After(s.out, RectIs(j, p)) => After(c.out, RectIs(j, p))
    BY ClaimTypes, SendClearRectKeeps
  <2>4. SendDetectorObj(s, i, r) = Remember(Put(c, m), i, r, 0)  BY <1>2 DEF SendDetectorObj
  <2> HIDE DEF m, c
  <2>5. SendDetectorObj(s, i, r).out = Put(c, m).out  BY <2>1, <2>2, <2>4, PutType, RememberOut
  <2>6. /\ After(Put(c, m).out, ModeIs(Detector)) /\ After(Put(c, m).out, AimIs(Void))
        /\ \A p \in PrevRect : p.r = r /\ p.line = 0 => After(Put(c, m).out, RectIs(i, p))
    BY <2>1, <2>2, PutSets
  <2>7. \A j \in Index \ {i} : \A p \in PrevRect :
          After(c.out, RectIs(j, p)) => After(Put(c, m).out, RectIs(j, p))
    BY <2>1, <2>2, PutKeeps
  <2> QED  BY <2>3, <2>5, <2>6, <2>7
<1> QED  BY <1>1, <1>2

LEMMA SendTrackerObjDue ==
  ASSUME NEW s \in Senders, NEW r \in ByteRects, Right(s.prev, s.out),
         After(s.out, ModeIs(Tracker)), After(s.out, OnlyFirst),
         After(s.out, AimIs(Void)) \/ \A i \in Index : s.prev[i].r = Zero
  PROVE  LET t == SendTrackerObj(s, r) IN
         /\ After(t.out, ModeIs(Tracker)) /\ After(t.out, OnlyFirst)
         /\ After(t.out, AimIs(Void)) \/ \A i \in Index : t.prev[i].r = Zero
         /\ r # Zero => After(t.out, AimIs(Void))
         /\ \A p \in PrevRect : p = [r |-> r, line |-> 1, valid |-> TRUE] /\ p.r # Zero => After(t.out, RectIs(0, p))
<1> DEFINE m == Msg("T", 0, r)
<1>0. 0 \in Index  BY IndexRange
<1>1. CASE Known(s.prev[0], r, 1)
  <2>1. SendTrackerObj(s, r) = s  BY <1>1 DEF SendTrackerObj
  <2>2. s.prev[0] \in PrevRect /\ s.prev[0].valid /\ s.prev[0].r = r /\ s.prev[0].line = 1
    BY <1>0, <1>1 DEF Known, Senders
  <2>3. s.prev[0] = [r |-> r, line |-> 1, valid |-> TRUE]  BY <2>2 DEF PrevRect
  <2>4. \A p \in PrevRect : p = s.prev[0] /\ p.r # Zero => After(s.out, RectIs(0, p))
    BY <1>0, <2>2 DEF Right
  <2> QED  BY <1>0, <2>1, <2>2, <2>3, <2>4
<1>2. CASE ~Known(s.prev[0], r, 1)
  <2>1. /\ m \in Messages /\ m \in Setters(ModeIs(Tracker)) /\ m \in Setters(AimIs(Void))
        /\ m \notin Touchers(OnlyFirst)
        /\ \A p \in PrevRect : p.r = r /\ p.line = 1 => m \in Setters(RectIs(0, p))
    BY TrackerClaims
  <2>2. SendTrackerObj(s, r) = Remember(Put(s, m), 0, r, 1)  BY <1>2 DEF SendTrackerObj
  <2> HIDE DEF m
  <2>3. SendTrackerObj(s, r).out = Put(s, m).out  BY <1>0, <2>1, <2>2, PutType, RememberOut
  <2>4. /\ After(Put(s, m).out, ModeIs(Tracker)) /\ After(Put(s, m).out, AimIs(Void))
        /\ \A p \in PrevRect : p.r = r /\ p.line = 1 => After(Put(s, m).out, RectIs(0, p))
    BY <2>1, PutSets
  <2>5. After(Put(s, m).out, OnlyFirst)  BY <2>1, PutKeeps
  <2> QED  BY <2>3, <2>4, <2>5
<1> QED  BY <1>1, <1>2

-----------------------------------------------------------------------------
(* The line's end: a message that sets a claim makes it true, one that does not touch it
   leaves it, and a lost one that could have made it true makes its part stale. *)
LEMMA RectHandled ==
  ASSUME LinkInv, NEW m \in Messages, Handle(m), NEW i \in Index, NEW p \in PrevRect
  PROVE  /\ Sets(m, i, p) => Matches(i, p)'
         /\ ~Touches(m, i) /\ Matches(i, p) /\ m.k # "R" => Matches(i, p)'
<1>1. i \in RectIndex /\ i \in 0..9 /\ rects \in [RectIndex -> Rects]
  BY HostAssumption, OverlayAssumption, LinkAssumption DEF Index, RectIndex, LinkInv, TypeOK, OsdTypeOK
<1>2. ASSUME Sets(m, i, p) PROVE Matches(i, p)'
  <2>1. CASE m.k = "T"
    <3>1. HandleTracker(m) /\ i = 0 /\ p.line = 1 /\ m.r = p.r
      BY <1>2, <2>1 DEF Sets, Handle
    <3> QED  BY <1>1, <3>1 DEF HandleTracker, Set, Matches, Solid
  <2>2. CASE m.k = "D"
    <3>1. HandleDetector(m) /\ m.c - 48 = i /\ p.line # 1 /\ m.r = p.r
      BY <1>2, <2>2 DEF Sets, Handle
    <3> QED  BY <1>1, <3>1 DEF HandleDetector, Set, Matches, Dashed
  <2> QED  BY <1>2, <2>1, <2>2 DEF Sets
<1>3. ASSUME ~Touches(m, i), Matches(i, p), m.k # "R" PROVE Matches(i, p)'
  <2>1. rects'[i] = rects[i]
    <3>1. CASE HandleClear(m) /\ m.k = "C"  BY <1>1, <1>3, <3>1 DEF HandleClear, Touches
    <3>2. CASE HandleTracker(m) /\ m.k = "T"
      <4>1. i # 0  BY <1>3, <3>2 DEF Touches
      <4> QED  BY <1>1, <3>2, <4>1 DEF HandleTracker, Set
    <3>3. CASE HandleDetector(m) /\ m.k = "D"  BY <1>1, <1>3, <3>3 DEF HandleDetector, Touches, Set
    <3>4. CASE HandleStatus(m) \/ HandleControl(m) \/ HandleOther
      BY <3>4 DEF HandleStatus, HandleControl, HandleOther, osdVars
    <3> QED  BY <1>3, <3>1, <3>2, <3>3, <3>4 DEF Handle
  <2> QED  BY <1>3, <2>1 DEF Matches, Solid, Dashed
<1> QED  BY <1>2, <1>3

OnlyFirstDrawn == \A i \in RectIndex \ {0} : ~Drawn(i)

LEMMA NoneHandled ==
  ASSUME LinkInv, NEW m \in Messages, Handle(m), m.k # "R"
  PROVE  /\ m.k = "C" /\ m.c = 65 => NoRects' /\ OnlyFirstDrawn'
         /\ m.k \notin {"T", "D"} /\ NoRects => NoRects'
         /\ m.k # "D" /\ OnlyFirstDrawn => OnlyFirstDrawn'
<1>1. rects \in [RectIndex -> Rects] /\ NoRect.type = "n"
  BY DEF LinkInv, TypeOK, OsdTypeOK, NoRect
<1>2. m.k = "C" /\ m.c = 65 => \A i \in RectIndex : rects'[i] = NoRect
  BY DEF Handle, HandleClear
<1>3. m.k \notin {"T", "D"} => \A i \in RectIndex : rects'[i] \in {rects[i], NoRect}
  <2>1. CASE m.k = "C" /\ HandleClear(m)  BY <1>1, <2>1 DEF HandleClear
  <2>2. CASE HandleStatus(m) \/ HandleControl(m) \/ HandleOther
    BY <2>2 DEF HandleStatus, HandleControl, HandleOther, osdVars
  <2> QED  BY <2>1, <2>2 DEF Handle
<1>4. m.k = "T" => \A i \in RectIndex \ {0} : rects'[i] = rects[i]
  BY <1>1 DEF Handle, HandleTracker, Set
<1> QED  BY <1>1, <1>2, <1>3, <1>4 DEF NoRects, OnlyFirstDrawn, Drawn

LEMMA TextHandled ==
  ASSUME NEW m \in Messages, Handle(m), m.k # "R"
  PROVE  /\ m.k \notin {"T", "D", "O"} => controlMode' = controlMode
         /\ m.k \notin {"T", "D", "S"} => aimStatus' = aimStatus
         /\ m.k = "T" => controlMode' = 0 /\ aimStatus' = 0
         /\ m.k = "D" => controlMode' = 1 /\ aimStatus' = 0
         /\ \A v \in 0..2 : m.c = 48 + v => /\ m.k = "O" => controlMode' = v
                                            /\ m.k = "S" => aimStatus' = v
BY DEF Handle, HandleClear, HandleTracker, HandleDetector, HandleStatus, HandleControl, HandleOther,
       osdVars, Modes

(* What is stale now: nothing but what was, and not what the message renewed. *)
LEMMA BaseHandled ==
  ASSUME LinkInv, NEW m \in Messages, Handle(m), NEW c \in Claims,
         stale' = IF m.k = "R" THEN Parts ELSE stale \ Renews(m)
  PROVE  /\ m \in Setters(c) => Base(c)'
         /\ m \notin Touchers(c) /\ Base(c) => Base(c)'
<1>0. c.about \in {"mode", "aim", "none", "others", "rect"}  BY DEF Claims
<1>1. CASE m.k = "R"
  <2>1. {"mode", "aim", "rects"} \subseteq stale'  BY <1>1 DEF Parts
  <2> QED  BY <1>0, <2>1 DEF Base
<1>2. CASE m.k # "R" /\ c.about = "mode"
  <2>1. c.i \in 0..2  BY <1>2 DEF Claims
  <2>2. m \in Setters(c) => controlMode' = c.i
    BY <1>2, <2>1, TextHandled DEF Setters
  <2>3. m \notin Touchers(c) => controlMode' = controlMode /\ "mode" \notin Renews(m)
    BY <1>2, TextHandled DEF Touchers, Renews
  <2> QED  BY <1>2, <2>2, <2>3 DEF Base
<1>3. CASE m.k # "R" /\ c.about = "aim"
  <2>1. c.i \in 0..2  BY <1>3 DEF Claims
  <2>2. m \in Setters(c) => aimStatus' = c.i
    BY <1>3, <2>1, TextHandled DEF Setters
  <2>3. m \notin Touchers(c) => aimStatus' = aimStatus /\ "aim" \notin Renews(m)
    BY <1>3, TextHandled DEF Touchers, Renews
  <2> QED  BY <1>3, <2>2, <2>3 DEF Base
<1>4. "rects" \in Renews(m) => m.k = "C" /\ m.c = 65  BY DEF Renews
<1>5. CASE m.k # "R" /\ c.about = "none"
  <2>1. m \in Setters(c) => m.k = "C" /\ m.c = 65  BY <1>5 DEF Setters
  <2>2. m \notin Touchers(c) => m.k \notin {"T", "D"}  BY <1>5 DEF Touchers
  <2> QED  BY <1>4, <1>5, <2>1, <2>2, NoneHandled DEF Base
<1>6. CASE m.k # "R" /\ c.about = "others"
  <2>1. m \in Setters(c) => m.k = "C" /\ m.c = 65  BY <1>6 DEF Setters
  <2>2. m \notin Touchers(c) => m.k # "D"  BY <1>6 DEF Touchers
  <2> QED  BY <1>4, <1>6, <2>1, <2>2, NoneHandled DEF Base, OnlyFirstDrawn
<1>7. CASE m.k # "R" /\ c.about = "rect"
  <2>1. c.i \in Index /\ c.p \in PrevRect  BY <1>7 DEF Claims
  <2>2. m \in Setters(c) => Sets(m, c.i, c.p)  BY <1>7 DEF Setters
  <2>3. m \notin Touchers(c) => ~Touches(m, c.i) /\ "rects" \notin Renews(m)
    BY <1>4, <1>7 DEF Touchers, Touches
  <2> QED  BY <1>7, <2>1, <2>2, <2>3, RectHandled DEF Base
<1> QED  BY <1>0, <1>1, <1>2, <1>3, <1>5, <1>6, <1>7

(* What the OSD keeps and what is stale have not changed. *)
Still == UNCHANGED <<rects, controlMode, aimStatus, stale>>

LEMMA BaseStill == ASSUME NEW c, UNCHANGED <<rects, controlMode, aimStatus>>, stale \subseteq stale', Base(c)
                   PROVE Base(c)'
BY DEF Base, Matches, Solid, Dashed, NoRects, Drawn

LEMMA BaseSame == ASSUME NEW c, Still PROVE Base(c)' = Base(c)
BY DEF Still, Base, Matches, Solid, Dashed, NoRects, Drawn

LEMMA BaseLost ==
  ASSUME NEW m \in Messages, NEW c \in Claims, UNCHANGED <<rects, controlMode, aimStatus>>,
         stale' = stale \cup Affects(m)
  PROVE  /\ m \in Setters(c) => Base(c)'
         /\ Base(c) => Base(c)'
<1>1. ASSUME m \in Setters(c) PROVE Base(c)'
  <2>1. /\ c.about = "mode" => "mode" \in Affects(m)
        /\ c.about = "aim" => "aim" \in Affects(m)
        /\ c.about \in {"none", "others", "rect"} => "rects" \in Affects(m)
    BY <1>1 DEF Setters, Sets, Affects, Parts
  <2>2. c.about \in {"mode", "aim", "none", "others", "rect"}  BY DEF Claims
  <2> QED  BY <2>1, <2>2 DEF Base
<1> QED  BY <1>1, BaseStill

(* The line gives up its first message, or the OSD restarts: claims stay due. *)
LEMMA LineKeeps ==
  ASSUME LinkInv, Deliver \/ Lose \/ Restart, NEW c \in Claims, OnLine(c) PROVE OnLine(c)'
<1> DEFINE m == Head(wire)
<1>0. wire \in Seq(Messages)  BY DEF LinkInv, TypeOK, HostTypeOK
<1>1. Leaves(wire, Setters(c), Touchers(c), Base(c))  BY DEF OnLine
<1>2. CASE Deliver \/ Lose
  <2>1. wire # <<>> /\ wire' = Tail(wire) /\ m \in Messages  BY <1>0, <1>2 DEF Deliver, Lose
  <2>2. /\ m \in Setters(c) => Base(c)'
        /\ m \notin Touchers(c) /\ Base(c) => Base(c)'
    <3>1. CASE Deliver
      <4>1. Handle(m) /\ stale' = IF m.k = "R" THEN Parts ELSE stale \ Renews(m)
        BY <3>1 DEF Deliver
      <4> QED  BY <2>1, <4>1, BaseHandled
    <3>2. CASE Lose
      <4>1. UNCHANGED <<rects, controlMode, aimStatus>> /\ stale' = stale \cup Affects(m)
        BY <3>2 DEF Lose, osdVars
      <4> QED  BY <2>1, <4>1, BaseLost
    <3> QED  BY <1>2, <3>1, <3>2
  <2>3. Leaves(Tail(wire), Setters(c), Touchers(c), Base(c)')
    BY <1>0, <1>1, <2>1, <2>2, TailLeaves
  <2> QED  BY <2>1, <2>3 DEF OnLine
<1>3. CASE Restart
  <2>1. wire' = wire /\ {"mode", "aim", "rects"} \subseteq stale'  BY <1>3 DEF Restart, Parts, hostVars
  <2>2. c.about \in {"mode", "aim", "none", "others", "rect"}  BY DEF Claims
  <2>3. Base(c)'  BY <2>1, <2>2 DEF Base
  <2>4. Leaves(wire, Setters(c), Touchers(c), Base(c)')  BY <1>1, <2>3, LeavesMonotone
  <2> QED  BY <2>1, <2>4 DEF OnLine
<1> QED  BY <1>2, <1>3

(* A message goes from a queue to the end of the line. *)
LEMMA MovedOnLine ==
  ASSUME HostTypeOK, NEW m \in Messages, wire' = Append(wire, m), Still, NEW c
  PROVE  /\ m \in Setters(c) => OnLine(c)'
         /\ m \notin Touchers(c) /\ OnLine(c) => OnLine(c)'
<1>1. wire \in Seq(Messages)  BY DEF HostTypeOK
<1>2. OnLine(c) = Leaves(wire, Setters(c), Touchers(c), Base(c))  BY DEF OnLine
<1>3. OnLine(c)' = Leaves(Append(wire, m), Setters(c), Touchers(c), Base(c))
  BY BaseSame DEF OnLine
<1> QED  BY <1>1, <1>2, <1>3, AppendSets, AppendKeeps

LEMMA QueueMoves ==
  ASSUME HostTypeOK, NEW q \in Seq(Messages), q # <<>>, wire' = Append(wire, Head(q)), Still,
         NEW c, After(q, c)
  PROVE  Leaves(Tail(q), Setters(c), Touchers(c), OnLine(c)')
<1>1. Head(q) \in Messages  OBVIOUS
<1>2. /\ Head(q) \in Setters(c) => OnLine(c)'
      /\ Head(q) \notin Touchers(c) /\ OnLine(c) => OnLine(c)'
  BY <1>1, MovedOnLine
<1> QED  BY <1>2, TailLeaves DEF After

LEMMA OnLineSame == ASSUME Still, wire' = wire, NEW c PROVE OnLine(c)' = OnLine(c)
BY BaseSame DEF OnLine

-----------------------------------------------------------------------------
(* Steps after which everything that was due still is. *)
Kept == \A c \in Claims : Due(c) => Due(c)'

LEMMA DueIs == ASSUME NEW c PROVE Due(c)' = Leaves(wout', Setters(c), Touchers(c), OnLine(c)')
BY DEF Due, After

LEMMA LineKept == ASSUME LinkInv, Deliver \/ Lose \/ Restart PROVE Kept
<1> SUFFICES ASSUME NEW c \in Claims, Due(c) PROVE Due(c)'  BY DEF Kept
<1>1. wout' = wout  BY DEF Deliver, Lose, Restart, hostVars, sender
<1>2. OnLine(c) => OnLine(c)'  BY LineKeeps
<1>3. Leaves(wout, Setters(c), Touchers(c), OnLine(c))  BY DEF Due, After
<1>4. Leaves(wout, Setters(c), Touchers(c), OnLine(c)')  BY <1>2, <1>3, LeavesMonotone
<1> QED  BY <1>1, <1>4, DueIs

LEMMA StillKept == ASSUME Still, UNCHANGED <<wire, wout>> PROVE Kept
<1> SUFFICES ASSUME NEW c \in Claims, Due(c) PROVE Due(c)'  BY DEF Kept
<1>1. OnLine(c)' = OnLine(c)  BY OnLineSame
<1>2. Leaves(wout, Setters(c), Touchers(c), OnLine(c))  BY DEF Due, After
<1> QED  BY <1>1, <1>2, DueIs

LEMMA WriteKept == ASSUME HostTypeOK, WorkerWrite, Still PROVE Kept
<1> SUFFICES ASSUME NEW c \in Claims, Due(c) PROVE Due(c)'  BY DEF Kept
<1>1. wout \in Seq(Messages) /\ wout # <<>> /\ wire' = Append(wire, Head(wout)) /\ wout' = Tail(wout)
  BY DEF HostTypeOK, WorkerWrite
<1>2. Leaves(Tail(wout), Setters(c), Touchers(c), OnLine(c)')  BY <1>1, QueueMoves DEF Due
<1> QED  BY <1>1, <1>2, DueIs

(* A message of the main thread that does not touch a claim leaves it due. *)
LEMMA MainWriteDue ==
  ASSUME HostTypeOK, MainWrite, Still, NEW c, Head(mout) \notin Touchers(c), Due(c) PROVE Due(c)'
<1>1. mout \in Seq(Messages) /\ mout # <<>> /\ wire' = Append(wire, Head(mout)) /\ wout' = wout
  BY DEF HostTypeOK, MainWrite, sender
<1>2. Head(mout) \in Messages  BY <1>1
<1>3. OnLine(c) => OnLine(c)'  BY <1>1, <1>2, MovedOnLine
<1>4. Leaves(wout, Setters(c), Touchers(c), OnLine(c))  BY DEF Due, After
<1>5. Leaves(wout, Setters(c), Touchers(c), OnLine(c)')  BY <1>3, <1>4, LeavesMonotone
<1> QED  BY <1>1, <1>5, DueIs

(* A queue handed over: what it leaves is due. *)
LEMMA SubmitDue ==
  ASSUME NEW s, Submit(s), Still, wire' = wire, NEW c PROVE After(s.out, c) => Due(c)'
<1>1. OnLine(c)' = OnLine(c)  BY OnLineSame
<1>2. wout' = s.out  BY DEF Submit
<1> QED  BY <1>1, <1>2, DueIs DEF After

LEMMA SenderDue == ASSUME wout = <<>>, NEW c PROVE After(Sender.out, c) <=> Due(c)
BY DEF Sender, Due

-----------------------------------------------------------------------------
(* The two threads: a worker runs between Spawn and Join, and while it runs the main thread
   writes only the mode and the status, from Stop. *)
LEMMA ThreadsMain ==
  ASSUME HostTypeOK, Threads, MainStep PROVE Threads'
<1> USE DEF MainReady, Threads, Working, shared, sender
<1>1. CASE Start
  <2>1. ~Working /\ \A i \in Index : prev'[i].r = Zero
    <3>1. prev \in [Index -> PrevRect] /\ prev' = Forget(prev) /\ main = "start"  BY <1>1 DEF Start, HostTypeOK
    <3> QED  BY <3>1 DEF Forget, PrevRect
  <2> QED  BY <1>1, <2>1 DEF Start
<1>2. CASE StartFailed  BY <1>2 DEF StartFailed
<1>3. CASE Spawn  BY <1>3 DEF Spawn
<1>4. CASE SetStopFlag  BY <1>4 DEF SetStopFlag
<1>5. CASE Terminate  BY <1>5 DEF Terminate
<1>6. CASE TerminateCrash  BY <1>6 DEF TerminateCrash, Die
<1>7. CASE Join  BY <1>7 DEF Join
<1>8. CASE Destroy  BY <1>8 DEF Destroy
<1>9. CASE Exit  BY <1>9 DEF Exit
<1>10. CASE MainWrite
  <2>1. mout \in Seq(Messages) /\ mout # <<>> /\ mout' = Tail(mout)
        /\ UNCHANGED <<main, worker, wout, prev, running>>
    BY <1>10 DEF MainWrite, HostTypeOK
  <2>2. Len(mout') = Len(mout) - 1 /\ Len(mout) \in Nat /\ \A k \in 1..Len(mout') : mout'[k] = mout[k + 1]
    BY <2>1
  <2>3. Working => \A k \in 1..Len(mout') : mout'[k].k \in {"O", "S"}  BY <2>2
  <2> QED  BY <2>1, <2>3
<1> QED  BY <1>1, <1>2, <1>3, <1>4, <1>5, <1>6, <1>7, <1>8, <1>9, <1>10 DEF MainStep

LEMMA WorkerFrame ==
  ASSUME Threads, WorkerStep \/ Request
  PROVE  Working /\ worker' # "none" /\ (~Working' => wout' = <<>>)
<1>1. CASE WorkerWrite  BY <1>1 DEF WorkerWrite, Threads, Working
<1>2. CASE WorkerStep /\ ~WorkerWrite
  BY <1>2 DEF WorkerStep, Begin, Open, GetCamera, LoopTest, EnterWait, Woken, DetectObject, ClearRect,
              ClearedRects, WorkerReady, To, Working, sender
<1>3. CASE Request
  BY <1>3 DEF Request, Track, NotTracked, TrackFailed, Detect, ManualFlight, Telemetry, Camera,
              OtherRequest, Received, Finished, WorkerReady, To, Working
<1> QED  BY <1>1, <1>2, <1>3

LEMMA WorkerLeaves == ASSUME WorkerStep \/ Request PROVE UNCHANGED <<main, mout, running>>
BY DEF WorkerStep, Request, Begin, Open, GetCamera, LoopTest, EnterWait, Woken, DetectObject, ClearRect,
       ClearedRects, WorkerWrite, Track, NotTracked, TrackFailed, Detect, ManualFlight, Telemetry, Camera,
       OtherRequest, Received, shared

LEMMA ThreadsWorker == ASSUME Threads, WorkerStep \/ Request PROVE Threads'
BY WorkerFrame, WorkerLeaves DEF Threads

LEMMA ThreadsRest ==
  ASSUME HostTypeOK, Threads, Signal \/ Throw \/ WorkerWriteFails \/ MainWriteFails \/ Launch
  PROVE  Threads'
<1> USE DEF MainReady, Threads, Working, shared, sender, To
<1>1. CASE Signal
  <2>1. ControlMsg(Manual).k = "O" /\ StatusMsg(Void).k = "S"  BY DEF ControlMsg, StatusMsg, Msg
  <2>2. CASE running
    <3>1. mout' = <<ControlMsg(Manual), StatusMsg(Void)>> /\ main' = "stop"
          /\ UNCHANGED <<worker, wout, prev, running>>
      BY <1>1, <2>2 DEF Signal
    <3>2. \A k \in 1..Len(mout') : mout'[k].k \in {"O", "S"}  BY <2>1, <3>1
    <3> QED  BY <2>2, <3>1, <3>2
  <2>3. CASE ~running  BY <1>1, <2>3 DEF Signal
  <2> QED  BY <2>2, <2>3
<1>2. CASE Throw  BY <1>2 DEF Throw
<1>3. CASE WorkerWriteFails
  <2>1. wout # <<>> /\ wout' = <<>> /\ worker' \in {"none", "ended"} /\ main' \in {"off", main}
    BY <1>3 DEF WorkerWriteFails, Die
  <2> QED  BY <2>1
<1>4. CASE MainWriteFails  BY <1>4 DEF MainWriteFails, Die
<1>5. CASE Launch  BY <1>5 DEF Launch, FreshPrev
<1> QED  BY <1>1, <1>2, <1>3, <1>4, <1>5

-----------------------------------------------------------------------------
(* What the loops and the last request say of each other. *)
LEMMA RequestLoops ==
  ASSUME HostTypeOK, Request, Loops, Asked PROVE Loops' /\ Asked'
<1>0. worker = "wait" /\ UNCHANGED <<main, mout>>
  BY DEF Request, Track, NotTracked, TrackFailed, Detect, ManualFlight, Telemetry, Camera, OtherRequest,
         Received, WorkerReady
<1>1. ASSUME NEW f \in Frames, Track(f), Note("track", <<Normalize(f, cam)>>) PROVE Loops' /\ Asked'
  <2>1. Normalize(f, cam) \in ByteRects  BY NormalizeBytes DEF HostTypeOK
  <2>2. last'.k = "track" /\ last'.boxes = <<Normalize(f, cam)>>  BY <1>1 DEF Note, Requested
  <2>3. /\ worker' = "clear" /\ lastMode' = Tracker /\ job' = [NoJob EXCEPT !.j = 1]
    BY <1>1 DEF Track, To
  <2>4. job'.boxes = <<>> /\ job'.j = 1  BY <2>3 DEF NoJob
  <2>5. last'.boxes \in Seq(ByteRects) /\ Len(last'.boxes) = 1 /\ 1 <= N
    BY <2>1, <2>2, HostAssumption
  <2> QED  BY <1>0, <2>2, <2>3, <2>4, <2>5 DEF Loops, Asked
<1>2. ASSUME NEW k, k # "track", last' = Requested(k, <<>>), worker' = "loop" PROVE Loops' /\ Asked'
  <2>1. last'.k = k /\ last'.boxes = <<>>  BY <1>2 DEF Requested
  <2>2. <<>> \in Seq(ByteRects) /\ Len(<<>>) <= N  BY HostAssumption
  <2> QED  BY <1>0, <1>2, <2>1, <2>2 DEF Loops, Asked
<1>3. CASE NotTracked /\ Note("empty", <<>>)
  BY <1>2, <1>3 DEF NotTracked, Finished, To, Note
<1>4. CASE TrackFailed(Lost) /\ Note("lost", <<>>)
  BY <1>2, <1>4 DEF TrackFailed, Finished, To, Note
<1>5. CASE TrackFailed(NotFound) /\ Note("notfound", <<>>)
  BY <1>2, <1>5 DEF TrackFailed, Finished, To, Note
<1>6. ASSUME NEW fs \in Objects, Detect(fs),
             Note("detect", [i \in DOMAIN fs |-> Normalize(fs[i], cam)])
      PROVE  Loops' /\ Asked'
  <2> DEFINE boxes == [i \in DOMAIN fs |-> Normalize(fs[i], cam)]
  <2>1. PICK n \in 0..N : fs \in [1..n -> Frames]  BY DEF Objects
  <2>2. n \in Nat /\ n <= N  BY HostAssumption
  <2>3. boxes \in [1..n -> ByteRects]  BY <2>1, NormalizeBytes DEF HostTypeOK
  <2>4. boxes \in Seq(ByteRects) /\ Len(boxes) = n  BY <2>2, <2>3
  <2>5. last' = Requested("detect", boxes)  BY <1>6 DEF Note
  <2>6. \/ worker' = "loop"
        \/ /\ worker' = "object" /\ fs # <<>> /\ job' = [NoJob EXCEPT !.boxes = boxes]
           /\ lastMode' = Detector /\ ~cleared'
    BY <1>6 DEF Detect, Finished, To
  <2>7. fs # <<>> => n > 0  BY <2>1, <2>2
  <2> HIDE DEF boxes
  <2>8. last'.k = "detect" /\ last'.boxes = boxes  BY <2>5 DEF Requested
  <2>9. Asked'  BY <1>0, <2>2, <2>4, <2>8 DEF Asked
  <2>10. CASE worker' = "loop"  BY <2>9, <2>10 DEF Loops
  <2>11. CASE worker' = "object" /\ fs # <<>> /\ job' = [NoJob EXCEPT !.boxes = boxes]
              /\ lastMode' = Detector /\ ~cleared'
    <3>1. job'.boxes = boxes /\ job'.i = 0  BY <2>11 DEF NoJob
    <3> QED  BY <2>4, <2>7, <2>8, <2>9, <2>11, <3>1 DEF Loops, Objecting
  <2> QED  BY <2>6, <2>10, <2>11
<1>7. CASE ManualFlight(TRUE) /\ Note("manual", <<>>)
  BY <1>2, <1>7 DEF ManualFlight, Finished, To, Note
<1>8. CASE ManualFlight(FALSE) /\ Note("nomanual", <<>>)
  BY <1>2, <1>8 DEF ManualFlight, Finished, To, Note
<1>9. CASE (Telemetry \/ Camera \/ OtherRequest) /\ Quiet
  <2>1. worker' = "loop" /\ last' = last
    BY <1>9 DEF Telemetry, Camera, OtherRequest, Finished, To, Quiet, history
  <2> QED  BY <1>0, <2>1 DEF Loops, Asked
<1> QED  BY <1>1, <1>3, <1>4, <1>5, <1>6, <1>7, <1>8, <1>9 DEF Request

LEMMA WorkerLoops ==
  ASSUME HostTypeOK, WorkerStep, Loops, last' = last PROVE Loops'
<1> USE DEF To, Loops
<1>0. /\ job \in [boxes : Seq(ByteRects), i : Nat, j : Nat]
      /\ worker = "object" => job.i < Len(job.boxes)
  BY DEF HostTypeOK
<1>1. CASE Begin \/ Open \/ GetCamera \/ LoopTest \/ EnterWait \/ Woken
  BY <1>1 DEF Begin, Open, GetCamera, LoopTest, EnterWait, Woken
<1>2. CASE DetectObject
  <2>1. worker = "object" /\ worker' = "clear" /\ UNCHANGED <<lastMode, cleared>>
        /\ job' = [job EXCEPT !.j = Len(job.boxes)]
    BY <1>2 DEF DetectObject, WorkerReady
  <2>2. job'.boxes = job.boxes /\ job'.i = job.i /\ job'.j = Len(job.boxes)  BY <1>0, <2>1
  <2>3. Len(job.boxes) \in Nat  BY <1>0
  <2> QED  BY <2>1, <2>2, <2>3 DEF Objecting
<1>3. CASE ClearRect
  <2>1. worker = "clear" /\ worker' = "clear" /\ UNCHANGED <<lastMode, cleared>>
        /\ job' = [job EXCEPT !.j = @ + 1]
    BY <1>3 DEF ClearRect, WorkerReady
  <2>2. job'.boxes = job.boxes /\ job'.i = job.i /\ job'.j = job.j + 1 /\ job.j \in Nat  BY <1>0, <2>1
  <2>3. Len(job.boxes) \in Nat  BY <1>0
  <2>4. CASE Objecting /\ job.j >= Len(last.boxes)
    BY <2>1, <2>2, <2>3, <2>4 DEF Objecting
  <2>5. CASE last.k = "track" /\ lastMode = Tracker /\ job.boxes = <<>> /\ job.j >= 1
    BY <2>1, <2>2, <2>5
  <2> QED  BY <2>1, <2>4, <2>5
<1>4. CASE ClearedRects
  <2>1. worker = "clear" /\ UNCHANGED <<lastMode, cleared>>
        /\ \/ job.i + 1 < Len(job.boxes) /\ worker' = "object" /\ job' = [job EXCEPT !.i = @ + 1]
           \/ worker' = "loop"
    BY <1>4 DEF ClearedRects, WorkerReady
  <2>2. CASE job.i + 1 < Len(job.boxes) /\ worker' = "object" /\ job' = [job EXCEPT !.i = @ + 1]
    <3>1. job'.boxes = job.boxes /\ job'.i = job.i + 1  BY <1>0, <2>2
    <3>2. job.boxes # <<>>  BY <1>0, <2>2
    <3>3. Objecting  BY <2>1, <3>2
    <3> QED  BY <2>1, <2>2, <3>1, <3>3 DEF Objecting
  <2> QED  BY <2>1, <2>2
<1>5. CASE WorkerWrite
  BY <1>5 DEF WorkerWrite, local, Objecting
<1> QED  BY <1>1, <1>2, <1>3, <1>4, <1>5 DEF WorkerStep

(* A step that leaves the worker's place, its loops, its modes and the last request. *)
LEMMA LoopsSame == ASSUME Loops, UNCHANGED <<worker, job, lastMode, cleared, last>> PROVE Loops'
BY DEF Loops, Objecting

LEMMA WorkerFresh ==
  ASSUME Threads, Fresh, WorkerStep \/ Request, last' = last \/ Request PROVE Fresh'
<1>1. main' = main /\ main \notin {"start", "spawn"}  BY WorkerFrame, WorkerLeaves DEF Threads
<1>2. CASE WorkerWrite /\ last' = last
  BY <1>1, <1>2 DEF WorkerWrite, local, Fresh
<1>3. CASE WorkerStep /\ ~WorkerWrite
  <2>1. worker' # "begin"
    BY <1>3 DEF WorkerStep, Begin, Open, GetCamera, LoopTest, EnterWait, Woken, DetectObject, ClearRect,
                ClearedRects, WorkerReady, To
  <2> QED  BY <1>1, <2>1 DEF Fresh
<1>4. CASE Request
  <2>1. worker' # "begin"
    BY <1>4 DEF Request, Track, NotTracked, TrackFailed, Detect, ManualFlight, Telemetry, Camera,
                OtherRequest, Finished, To
  <2> QED  BY <1>1, <2>1 DEF Fresh
<1>5. WorkerWrite => ~Request
  BY DEF WorkerWrite, Request, Track, NotTracked, TrackFailed, Detect, ManualFlight, Telemetry, Camera,
         OtherRequest, Received, WorkerReady
<1> QED  BY <1>2, <1>3, <1>4, <1>5

LEMMA MainFresh == ASSUME Threads, Fresh, MainStep, last' = last PROVE Fresh'
<1> USE DEF MainReady, Fresh, local, sender
<1>1. CASE Start  BY <1>1 DEF Start
<1>2. CASE Spawn  BY <1>2 DEF Spawn
<1>3. CASE MainWrite  BY <1>3 DEF MainWrite
<1>4. CASE StartFailed \/ SetStopFlag \/ Terminate \/ Join \/ Destroy \/ Exit
  BY <1>4 DEF StartFailed, SetStopFlag, Terminate, Join, Destroy, Exit
<1>5. CASE TerminateCrash  BY <1>5 DEF TerminateCrash, Die
<1> QED  BY <1>1, <1>2, <1>3, <1>4, <1>5 DEF MainStep

LEMMA MainAsked == ASSUME Asked, MainStep, last' = last PROVE Asked'
<1> USE DEF MainReady, Asked
<1>1. main' = "wait" => mout' = <<>>
  BY DEF MainStep, Start, StartFailed, Spawn, SetStopFlag, Terminate, TerminateCrash, Join, Destroy, Exit,
         MainWrite, Die
<1> QED  BY <1>1

LEMMA MainLoops == ASSUME Loops, MainStep, last' = last PROVE Loops'
<1>1. CASE TerminateCrash  BY <1>1 DEF TerminateCrash, Die, Loops
<1>2. CASE MainStep /\ ~TerminateCrash
  <2>1. UNCHANGED <<job, lastMode, cleared>> /\ (worker' = worker \/ worker' = "begin")
    BY <1>2 DEF MainStep, Start, StartFailed, Spawn, SetStopFlag, Terminate, Join, Destroy, Exit,
                MainWrite, local
  <2> QED  BY <2>1, LoopsSame DEF Loops
<1> QED  BY <1>1, <1>2

(* Signals, failures and a new start. *)
LEMMA RestLoops ==
  ASSUME Threads, Loops, Fresh, Asked,
         \/ (Signal \/ Throw) /\ last' = last
         \/ (WorkerWriteFails \/ MainWriteFails \/ Launch) /\ last' = Nothing
  PROVE  Loops' /\ Fresh' /\ Asked'
<1>0. Nothing.boxes = <<>> /\ Nothing.k = "nothing" /\ <<>> \in Seq(ByteRects) /\ Len(<<>>) <= N
  BY HostAssumption DEF Nothing
<1>1. CASE Signal /\ last' = last
  <2>1. UNCHANGED <<worker, job, lastMode, cleared>> /\ main' \in {"stop", "destroy"}
    BY <1>1 DEF Signal, local
  <2> QED  BY <1>1, <2>1, LoopsSame DEF Fresh, Asked
<1>2. CASE Throw /\ last' = last
  <2>1. worker' = "ended" /\ UNCHANGED <<main, mout, lastMode, cleared>>  BY <1>2 DEF Throw, To, local
  <2> QED  BY <1>2, <2>1 DEF Loops, Fresh, Asked
<1>3. CASE WorkerWriteFails /\ last' = Nothing
  <2>1. worker' \in {"none", "ended"} /\ (UNCHANGED <<main, mout>> \/ main' = "off")
        /\ wout # <<>>
    BY <1>3 DEF WorkerWriteFails, Die, To
  <2>2. main' \notin {"start", "spawn"}  BY <2>1 DEF Threads, Working
  <2> QED  BY <1>0, <1>3, <2>1, <2>2 DEF Loops, Fresh, Asked
<1>4. CASE MainWriteFails /\ last' = Nothing
  BY <1>0, <1>4 DEF MainWriteFails, Die, Loops, Fresh, Asked
<1>5. CASE Launch /\ last' = Nothing
  BY <1>0, <1>5 DEF Launch, Loops, Fresh, Asked
<1> QED  BY <1>1, <1>2, <1>3, <1>4, <1>5

-----------------------------------------------------------------------------
(* The clock of a rectangle, and the host's end. *)
LEMMA TimedHandled == ASSUME LinkInv, Timed, NEW m \in Messages, Handle(m) PROVE Timed'
<1>1. rects \in [RectIndex -> Rects] /\ now # 0 /\ NoRect.type = "n"
  BY OverlayAssumption DEF LinkInv, TypeOK, OsdTypeOK, NoRect
<1>2. CASE HandleClear(m) \/ OsdReset
  <2>1. \A i \in RectIndex : rects'[i] \in {rects[i], NoRect}  BY <1>1, <1>2 DEF HandleClear, OsdReset
  <2> QED  BY <1>1, <2>1 DEF Timed
<1>3. CASE HandleTracker(m) \/ HandleDetector(m)
  <2>1. \A i \in RectIndex : rects'[i] = rects[i] \/ rects'[i].time = now
    BY <1>1, <1>3 DEF HandleTracker, HandleDetector, Set
  <2> QED  BY <1>1, <2>1 DEF Timed
<1>4. CASE HandleStatus(m) \/ HandleControl(m) \/ HandleOther
  BY <1>4 DEF HandleStatus, HandleControl, HandleOther, osdVars, Timed
<1> QED  BY <1>2, <1>3, <1>4 DEF Handle

LEMMA TimedStep == ASSUME LinkInv, Timed, [Next]_linkVars PROVE Timed'
<1>1. CASE Deliver
  <2>1. Head(wire) \in Messages /\ Handle(Head(wire))
    BY <1>1 DEF Deliver, LinkInv, TypeOK, HostTypeOK
  <2> QED  BY <2>1, TimedHandled
<1>2. CASE Restart  BY <1>2 DEF Restart, OsdReset, Timed, NoRect
<1>3. CASE rects' = rects  BY <1>3 DEF Timed
<1>4. Request \/ Lose \/ TickOsd \/ UNCHANGED <<osdVars, stale>> \/ UNCHANGED linkVars => rects' = rects
  BY DEF Request, Note, Quiet, Lose, TickOsd, osdVars, linkVars
<1> QED  BY <1>1, <1>2, <1>3, <1>4 DEF Next, Quiet, history

(* The worker acts only before the destructor runs. *)
LEMMA WorkerBefore ==
  ASSUME Threads, WorkerStep \/ Request \/ Throw \/ WorkerWriteFails
  PROVE  main' \notin {"exit", "exited"}
<1>1. CASE WorkerStep \/ Request
  BY <1>1, WorkerFrame, WorkerLeaves DEF Threads
<1>2. CASE Throw \/ WorkerWriteFails
  <2>1. Working /\ main' \in {main, "off"}
    BY <1>2 DEF Throw, WorkerWriteFails, Die, Threads, Working
  <2> QED  BY <2>1 DEF Threads
<1> QED  BY <1>1, <1>2

LEMMA EndingMain == ASSUME HostTypeOK, Ending, MainStep, Still PROVE Ending'
<1> USE DEF MainReady
<1> DEFINE S == Setters(NoneDrawn)
           T == Touchers(NoneDrawn)
<1>1. CASE Destroy
  <2>1. mout' = <<ClearAllMsg, ClearScreenMsg>>  BY <1>1 DEF Destroy
  <2>2. ClearAllMsg \in S /\ ClearScreenMsg \notin T
    BY ClearClaims, HarmlessClaims, ClaimTypes
  <2> HIDE DEF S, T
  <2>3. Len(mout') = 2 /\ mout'[1] \in S /\ mout'[2] \notin T  BY <2>1, <2>2
  <2>4. 1 \in 1..Len(mout') /\ \A k \in 1..Len(mout') : k > 1 => k = 2  BY <2>3
  <2>5. Renewed(mout', S, T)  BY <2>3, <2>4 DEF Renewed
  <2> QED  BY <2>5 DEF Ending, After, Leaves, S, T
<1>2. CASE Exit
  <2>1. UNCHANGED <<mout, wire>> /\ main = "exit"  BY <1>2 DEF Exit
  <2> QED  BY <2>1, OnLineSame DEF Ending, After
<1>3. CASE MainWrite
  <2>1. /\ mout \in Seq(Messages) /\ mout # <<>> /\ UNCHANGED main
        /\ wire' = Append(wire, Head(mout)) /\ mout' = Tail(mout)
    BY <1>3 DEF MainWrite, HostTypeOK
  <2> SUFFICES ASSUME main \in {"exit", "exited"} PROVE Leaves(Tail(mout), S, T, OnLine(NoneDrawn)')
    BY <2>1 DEF Ending, After
  <2>2. After(mout, NoneDrawn)  BY DEF Ending
  <2> QED  BY <2>1, <2>2, QueueMoves
<1>4. CASE Start \/ StartFailed \/ Spawn \/ SetStopFlag \/ Terminate \/ TerminateCrash \/ Join
  <2>1. main' \notin {"exit", "exited"}
    BY <1>4 DEF Start, StartFailed, Spawn, SetStopFlag, Terminate, TerminateCrash, Join, Die
  <2> QED  BY <2>1 DEF Ending
<1> QED  BY <1>1, <1>2, <1>3, <1>4 DEF MainStep

LEMMA EndingLine == ASSUME LinkInv, Ending, Deliver \/ Lose \/ Restart PROVE Ending'
<1>1. UNCHANGED <<main, mout>>  BY DEF Deliver, Lose, Restart, hostVars
<1>2. OnLine(NoneDrawn) => OnLine(NoneDrawn)'  BY LineKeeps, ClaimTypes
<1> SUFFICES ASSUME main \in {"exit", "exited"} PROVE After(mout, NoneDrawn)'
  BY <1>1 DEF Ending
<1>3. Leaves(mout, Setters(NoneDrawn), Touchers(NoneDrawn), OnLine(NoneDrawn))  BY DEF Ending, After
<1>4. Leaves(mout, Setters(NoneDrawn), Touchers(NoneDrawn), OnLine(NoneDrawn)')
  BY <1>2, <1>3, LeavesMonotone
<1> QED  BY <1>1, <1>4 DEF After

LEMMA EndingSame == ASSUME Ending, Still, UNCHANGED <<main, mout, wire>> PROVE Ending'
BY OnLineSame DEF Ending, After

LEMMA EndingRest == ASSUME Signal \/ MainWriteFails \/ Launch PROVE Ending'
BY DEF Signal, MainWriteFails, Launch, Die, Ending

-----------------------------------------------------------------------------
(* The cache. *)
LEMMA KeptCache == ASSUME Cache, Kept, prev' = prev, Working' => Working PROVE Cache'
<1> SUFFICES ASSUME Working', NEW i \in Index, NEW p \in PrevRect, p = prev[i], p.valid, p.r # Zero
             PROVE  Due(RectIs(i, p))'
  BY DEF Cache, Right, Due
<1>1. Due(RectIs(i, p))  BY DEF Cache, Right, Due
<1> QED  BY <1>1, ClaimTypes DEF Kept

LEMMA SubmitCache == ASSUME NEW s, Right(s.prev, s.out), Submit(s), Still, wire' = wire PROVE Cache'
<1> SUFFICES ASSUME NEW i \in Index, NEW p \in PrevRect, p = s.prev[i], p.valid, p.r # Zero
             PROVE  Due(RectIs(i, p))'
  BY DEF Cache, Right, Due, Submit
<1>1. After(s.out, RectIs(i, p))  BY DEF Right
<1> QED  BY <1>1, SubmitDue

LEMMA SenderRight == ASSUME Cache, Working, wout = <<>> PROVE Right(Sender.prev, Sender.out)
BY DEF Cache, Sender

LEMMA EnteredRight ==
  ASSUME NEW s \in Senders, NEW mode \in 0..2, Right(s.prev, s.out)
  PROVE  Right(Entered(mode, s).prev, Entered(mode, s).out)
<1>1. ControlMsg(mode) \in Messages
      /\ \A i \in Index : \A p \in PrevRect : ControlMsg(mode) \notin Touchers(RectIs(i, p))
  BY ControlClaims, ClaimTypes DEF RectIs
<1> QED  BY <1>1, PutRight DEF Entered

LEMMA StatusRight ==
  ASSUME NEW s \in Senders, NEW v \in 0..2, Right(s.prev, s.out)
  PROVE  Right(Put(s, StatusMsg(v)).prev, Put(s, StatusMsg(v)).out)
<1>1. StatusMsg(v) \in Messages
      /\ \A i \in Index : \A p \in PrevRect : StatusMsg(v) \notin Touchers(RectIs(i, p))
  BY StatusClaims, ClaimTypes DEF RectIs
<1> QED  BY <1>1, PutRight

LEMMA PrologueRight ==
  ASSUME HostTypeOK, Cache, Working, wout = <<>> PROVE Right(TrackPrologue.prev, TrackPrologue.out)
<1> DEFINE s == IF cleared THEN Sender ELSE SendClear(Sender, ClearAllMsg)
<1>1. s \in Senders  BY SenderType, SendClearType, FixedMessages
<1>2. Right(s.prev, s.out)  BY SenderType, SenderRight, SendClearForgets, FixedMessages
<1> HIDE DEF s
<1> QED  BY <1>1, <1>2, EnteredRight, ModeRange DEF TrackPrologue, s

LEMMA RequestFrame ==
  ASSUME Request
  PROVE  /\ Received /\ worker = "wait" /\ Working /\ wout = <<>> /\ UNCHANGED <<wire, main, mout>>
         /\ Still
BY DEF Request, Track, NotTracked, TrackFailed, Detect, ManualFlight, Telemetry, Camera, OtherRequest,
       Note, Quiet, Received, WorkerReady, osdVars, history, Working, Still

(* The answer to a request. *)
LEMMA RequestCache ==
  ASSUME HostTypeOK, Cache, Request PROVE Cache'
<1>0. Received /\ Still /\ wire' = wire /\ Working /\ wout = <<>> /\ worker = "wait"
  BY RequestFrame
<1>1. ASSUME NEW f \in Frames, Track(f) PROVE Cache'
  <2> DEFINE start == IF lastMode # Tracker THEN Put(TrackPrologue, StatusMsg(Void)) ELSE TrackPrologue
             s == SendTrackerObj(start, Normalize(f, cam))
  <2>1. start \in Senders  BY TrackPrologueType, PutType, FixedMessages, ModeRange
  <2>2. Right(start.prev, start.out)
    BY <1>0, TrackPrologueType, PrologueRight, StatusRight, ModeRange
  <2>3. Normalize(f, cam) \in ByteRects  BY NormalizeBytes DEF HostTypeOK
  <2>4. Submit(s)  BY <1>1 DEF Track
  <2> HIDE DEF start
  <2>5. Right(s.prev, s.out)
    BY <2>1, <2>2, <2>3, SendTrackerObjRight
  <2> QED  BY <1>0, <2>4, <2>5, SubmitCache
<1>2. CASE NotTracked
  <2> DEFINE s == Put(TrackPrologue, NotTrackedMsg)
  <2>1. NotTrackedMsg \in Messages
        /\ \A i \in Index : \A p \in PrevRect : NotTrackedMsg \notin Touchers(RectIs(i, p))
    BY HarmlessClaims, ClaimTypes
  <2>2. Right(s.prev, s.out)  BY <1>0, <2>1, TrackPrologueType, PrologueRight, PutRight
  <2>3. Submit(s)  BY <1>2 DEF NotTracked
  <2> HIDE DEF s
  <2> QED  BY <1>0, <2>2, <2>3, SubmitCache
<1>3. ASSUME NEW status \in 0..2, TrackFailed(status) PROVE Cache'
  <2> DEFINE before == Put(TrackPrologue, StatusMsg(status))
             s == SendClear(before, ClearAllMsg)
  <2>1. before \in Senders  BY TrackPrologueType, PutType, FixedMessages
  <2>2. Submit(s)  BY <1>3 DEF TrackFailed
  <2> HIDE DEF before
  <2>3. Right(s.prev, s.out)  BY <2>1, SendClearForgets, FixedMessages
  <2> QED  BY <1>0, <2>2, <2>3, SubmitCache
<1>4. ASSUME NEW fs \in Objects, Detect(fs) PROVE Cache'
  <2> DEFINE entered == Entered(Detector, Sender)
             start == IF lastMode # Detector THEN Put(entered, StatusMsg(Void)) ELSE Sender
  <2>1. entered \in Senders /\ Right(entered.prev, entered.out)
    BY <1>0, SenderType, SenderRight, EnteredType, EnteredRight, ModeRange
  <2>2. Submit(start) \/ Submit(SendClear(start, ClearAllMsg))  BY <1>4 DEF Detect
  <2> HIDE DEF entered
  <2>3. start \in Senders /\ Right(start.prev, start.out)
    BY <1>0, <2>1, SenderType, SenderRight, PutType, StatusRight, FixedMessages, ModeRange
  <2> HIDE DEF start
  <2>4. CASE Submit(start)  BY <1>0, <2>3, <2>4, SubmitCache
  <2>5. CASE Submit(SendClear(start, ClearAllMsg))
    <3>1. Right(SendClear(start, ClearAllMsg).prev, SendClear(start, ClearAllMsg).out)
      BY <2>3, SendClearForgets, FixedMessages
    <3> QED  BY <1>0, <2>5, <3>1, SubmitCache
  <2> QED  BY <2>2, <2>4, <2>5
<1>5. ASSUME NEW manual \in BOOLEAN, ManualFlight(manual) PROVE Cache'
  <2> DEFINE wiped == SendClear(Sender, ClearAllMsg)
             entered == Put(wiped, ControlMsg(Manual))
             s == IF manual THEN Put(entered, StatusMsg(Void)) ELSE wiped
  <2>1. wiped \in Senders /\ Right(wiped.prev, wiped.out)
    BY SenderType, SendClearType, SendClearForgets, FixedMessages
  <2>2. Submit(s)  BY <1>5 DEF ManualFlight
  <2>3. ControlMsg(Manual) \in Messages
        /\ \A i \in Index : \A p \in PrevRect : ControlMsg(Manual) \notin Touchers(RectIs(i, p))
    BY ControlClaims, ClaimTypes, ModeRange DEF RectIs
  <2> HIDE DEF wiped
  <2>4. entered \in Senders /\ Right(entered.prev, entered.out)
    BY <2>1, <2>3, PutType, PutRight
  <2> HIDE DEF entered
  <2>5. Right(s.prev, s.out)  BY <2>1, <2>4, StatusRight, ModeRange
  <2> HIDE DEF s
  <2> QED  BY <1>0, <2>2, <2>5, SubmitCache
<1>6. CASE Telemetry \/ Camera \/ OtherRequest
  <2>1. prev' = prev /\ wout' = wout  BY <1>6 DEF Telemetry, Camera, OtherRequest, sender, Received
  <2>2. Kept  BY <1>0, <2>1, StillKept
  <2> QED  BY <1>0, <2>1, <2>2, KeptCache
<1> QED  BY <1>1, <1>2, <1>3, <1>4, <1>5, <1>6, ModeRange DEF Request

(* The worker's other steps. *)
LEMMA ObjectSent ==
  ASSUME HostTypeOK, DetectObject
  PROVE  /\ Working /\ wout = <<>> /\ wire' = wire /\ Sender \in Senders
         /\ job.i \in Index /\ job.boxes[job.i + 1] \in ByteRects
         /\ Submit(SendDetectorObj(Sender, job.i, job.boxes[job.i + 1]))
<1>1. worker = "object" /\ wout = <<>> /\ wire' = wire
      /\ Submit(SendDetectorObj(Sender, job.i, job.boxes[job.i + 1]))
  BY DEF DetectObject, WorkerReady
<1>2. job.boxes \in Seq(ByteRects) /\ job.i \in Nat /\ job.i < Len(job.boxes) /\ Len(job.boxes) <= N
  BY <1>1 DEF HostTypeOK
<1>3. job.boxes[job.i + 1] \in ByteRects /\ job.i \in Index  BY <1>2, HostAssumption DEF Index
<1> QED  BY <1>1, <1>3, SenderType DEF Working

LEMMA RectCleared ==
  ASSUME HostTypeOK, ClearRect
  PROVE  /\ Working /\ wout = <<>> /\ wire' = wire /\ Sender \in Senders
         /\ job.j \in Index /\ Submit(SendClearRect(Sender, job.j))
<1>1. worker = "clear" /\ wout = <<>> /\ wire' = wire /\ job.j < N
      /\ Submit(SendClearRect(Sender, job.j))
  BY DEF ClearRect, WorkerReady
<1>2. job.j \in Index  BY <1>1, HostAssumption DEF HostTypeOK, Index
<1> QED  BY <1>1, <1>2, SenderType DEF Working

(* Steps that hand over nothing. *)
LEMMA IdleKept ==
  ASSUME Still, Open \/ GetCamera \/ LoopTest \/ EnterWait \/ Woken \/ ClearedRects
  PROVE  Kept /\ UNCHANGED <<prev, wire, wout>> /\ Working
<1>1. UNCHANGED <<prev, wout, wire>> /\ Working
  BY DEF Open, GetCamera, LoopTest, EnterWait, Woken, ClearedRects, sender, WorkerReady, Working
<1> QED  BY <1>1, StillKept

LEMMA WorkerCache ==
  ASSUME HostTypeOK, Threads, Cache, WorkerStep, Still PROVE Cache'
<1>1. CASE Begin
  <2>1. \A i \in Index : prev'[i].r = Zero  BY <1>1 DEF Begin, Submit, FreshPrev
  <2> QED  BY <2>1 DEF Cache, Right
<1>2. CASE Open \/ GetCamera \/ LoopTest \/ EnterWait \/ Woken \/ ClearedRects
  BY <1>2, IdleKept, KeptCache
<1>3. CASE DetectObject
  BY <1>3, ObjectSent, SenderRight, SendDetectorObjRight, SubmitCache
<1>4. CASE ClearRect
  BY <1>4, RectCleared, SenderRight, SendClearRectRight, SubmitCache
<1>5. CASE WorkerWrite
  <2>1. prev' = prev /\ Working  BY <1>5, WorkerFrame DEF WorkerWrite
  <2> QED  BY <1>5, <2>1, WriteKept, KeptCache
<1> QED  BY <1>1, <1>2, <1>3, <1>4, <1>5 DEF WorkerStep

(* While there is a worker, what the main thread writes touches no rectangle. *)
LEMMA MainWritePlain ==
  ASSUME HostTypeOK, Threads, Working, MainWrite
  PROVE  \A c \in Claims : c.about \notin {"mode", "aim"} => Head(mout) \notin Touchers(c)
<1>1. mout \in Seq(Messages) /\ mout # <<>>  BY DEF MainWrite, HostTypeOK
<1>2. Head(mout) = mout[1] /\ 1 \in 1..Len(mout)  BY <1>1
<1>3. Head(mout).k \in {"O", "S"}  BY <1>2 DEF Threads
<1> QED  BY <1>3 DEF Touchers, Touches, Claims

LEMMA MainCache ==
  ASSUME HostTypeOK, Threads, Cache, MainStep, Still PROVE Cache'
<1> USE DEF MainReady
<1>1. CASE Start \/ Destroy
  <2>1. ~Working /\ worker' = worker  BY <1>1 DEF Start, Destroy, Threads, Working
  <2> QED  BY <2>1 DEF Cache, Working
<1>2. CASE Spawn
  <2>1. \A i \in Index : prev'[i].r = Zero  BY <1>2 DEF Spawn, Threads, sender
  <2> QED  BY <2>1 DEF Cache, Right
<1>3. CASE StartFailed \/ SetStopFlag \/ Terminate \/ Join \/ Exit
  <2>1. UNCHANGED <<prev, wout, wire, worker>>
    BY <1>3 DEF StartFailed, SetStopFlag, Terminate, Join, Exit, sender
  <2> QED  BY <2>1, StillKept, KeptCache DEF Working
<1>4. CASE TerminateCrash
  BY <1>4 DEF TerminateCrash, Die, Cache, Working
<1>5. CASE MainWrite
  <2>1. UNCHANGED <<prev, worker>>  BY <1>5 DEF MainWrite, sender
  <2> SUFFICES ASSUME Working, NEW i \in Index, NEW p \in PrevRect, p = prev[i], p.valid, p.r # Zero
               PROVE  Due(RectIs(i, p))'
    BY <2>1 DEF Cache, Right, Due, Working
  <2>2. RectIs(i, p) \in Claims /\ RectIs(i, p).about = "rect"  BY ClaimTypes DEF RectIs
  <2>3. Due(RectIs(i, p))  BY DEF Cache, Right, Due
  <2>4. Head(mout) \notin Touchers(RectIs(i, p))  BY <1>5, <2>2, MainWritePlain
  <2> QED  BY <1>5, <2>3, <2>4, MainWriteDue
<1> QED  BY <1>1, <1>2, <1>3, <1>4, <1>5 DEF MainStep

(* Signals, failures, a new start, and steps of the line and the OSD. *)
LEMMA RestCache ==
  ASSUME Cache, Still, Signal \/ Throw \/ WorkerWriteFails \/ MainWriteFails \/ Launch PROVE Cache'
<1>1. ~Working' \/ ((Working' => Working) /\ UNCHANGED <<prev, wout, wire>>)
  BY DEF Signal, Throw, WorkerWriteFails, MainWriteFails, Launch, Die, To, Working, sender
<1>2. ~Working' => Cache'  BY DEF Cache
<1> QED  BY <1>1, <1>2, StillKept, KeptCache

-----------------------------------------------------------------------------
(* What the host tells, and what it owes. *)
LEMMA DoneRange ==
  ASSUME HostTypeOK, Loops, Asked, last.k = "detect"
  PROVE  /\ Done \in Nat /\ Done <= Len(last.boxes) /\ Len(last.boxes) \in Nat
         /\ \A n \in 1..Done : n - 1 \in Index
<1>1. Len(last.boxes) \in Nat /\ Len(last.boxes) <= N  BY DEF Asked
<1>2. worker \in {"object", "clear"} => Objecting  BY DEF Loops
<1>3. job.i \in Nat  BY DEF HostTypeOK
<1>4. Done \in Nat /\ Done <= Len(last.boxes)  BY <1>1, <1>2, <1>3 DEF Done, Objecting
<1> QED  BY <1>1, <1>4, HostAssumption DEF Index

LEMMA InformedKept ==
  ASSUME Informed, Kept, lastMode' = lastMode, cleared' => cleared, Forgotten => Forgotten'
  PROVE  Informed'
<1>1. /\ Due(ModeIs(Tracker)) => Due(ModeIs(Tracker))'
      /\ Due(ModeIs(Detector)) => Due(ModeIs(Detector))'
      /\ Due(AimIs(Void)) => Due(AimIs(Void))'
      /\ Due(OnlyFirst) => Due(OnlyFirst)'
  BY ClaimTypes, ModeRange DEF Kept
<1> QED  BY <1>1 DEF Informed

LEMMA OwedKept ==
  ASSUME HostTypeOK, Loops, Asked, Owed, Kept, last' = last,
         last.k = "detect" => \A n \in 1..Done' : n \in 1..Done
  PROVE  Owed'
<1>1. /\ \A v \in 0..2 : /\ Due(ModeIs(v)) => Due(ModeIs(v))'
                         /\ Due(AimIs(v)) => Due(AimIs(v))'
      /\ Due(NoneDrawn) => Due(NoneDrawn)'
      /\ Due(OnlyFirst) => Due(OnlyFirst)'
      /\ \A i \in Index : \A p \in PrevRect : Due(RectIs(i, p)) => Due(RectIs(i, p))'
  BY ClaimTypes DEF Kept
<1>2. \A p : Target(p)' = Target(p)  BY DEF Target
<1>3. \A n, p : Reported(n, p)' = Reported(n, p)  BY DEF Reported
<1>4. last.k \in {"lost", "notfound"} => Due(NoneDrawn)' /\ Due(ModeIs(Tracker))'
  BY <1>1, ModeRange DEF Owed
<1>5. (last.k = "lost" => Due(AimIs(Lost))') /\ (last.k = "notfound" => Due(AimIs(NotFound))')
  BY <1>1, ModeRange DEF Owed
<1>6. last.k = "track" => \A p \in PrevRect : Target(p) =>
        Due(RectIs(0, p))' /\ Due(OnlyFirst)' /\ Due(ModeIs(Tracker))' /\ Due(AimIs(Void))'
  BY <1>1, IndexRange, ModeRange DEF Owed
<1>7. ASSUME last.k = "detect"
      PROVE  /\ Due(ModeIs(Detector))' /\ Due(AimIs(Void))'
             /\ \A n \in 1..Done' : \A p \in PrevRect : Reported(n, p) => Due(RectIs(n - 1, p))'
  <2>1. Due(ModeIs(Detector)) /\ Due(AimIs(Void))  BY <1>7 DEF Owed
  <2>2. \A n \in 1..Done : \A p \in PrevRect : Reported(n, p) => Due(RectIs(n - 1, p))
    BY <1>7 DEF Owed
  <2>3. \A n \in 1..Done : n - 1 \in Index  BY <1>7, DoneRange
  <2> QED  BY <1>1, <1>7, <2>1, <2>2, <2>3, ModeRange
<1>8. last.k = "manual" => Due(NoneDrawn)' /\ Due(ModeIs(Manual))' /\ Due(AimIs(Void))'
  BY <1>1, ModeRange DEF Owed
<1> QED  BY <1>2, <1>3, <1>4, <1>5, <1>6, <1>7, <1>8 DEF Owed

LEMMA PrologueDue ==
  ASSUME HostTypeOK, Informed, wout = <<>>
  PROVE  /\ After(TrackPrologue.out, ModeIs(Tracker)) /\ After(TrackPrologue.out, OnlyFirst)
         /\ After(TrackPrologue.out, AimIs(Void)) \/ \A i \in Index : TrackPrologue.prev[i].r = Zero
<1> DEFINE s == IF cleared THEN Sender ELSE SendClear(Sender, ClearAllMsg)
<1>1. Sender \in Senders /\ s \in Senders  BY SenderType, SendClearType, FixedMessages
<1>2. CASE cleared
  <2>1. s = Sender /\ lastMode = Tracker /\ Due(OnlyFirst) /\ Due(ModeIs(Tracker))
        /\ (Due(AimIs(Void)) \/ Forgotten)
    BY <1>2 DEF Informed
  <2>2. TrackPrologue = Sender  BY <2>1, <1>2 DEF TrackPrologue, Entered
  <2> QED  BY <2>1, <2>2, SenderDue DEF Forgotten, Sender
<1>3. CASE ~cleared
  <2>1. s = SendClear(Sender, ClearAllMsg) /\ TrackPrologue = Entered(Tracker, s)
    BY <1>3 DEF TrackPrologue
  <2>2. After(s.out, OnlyFirst) /\ \A i \in Index : s.prev[i].r = Zero
    BY <1>1, <2>1, SendClearSets, SendClearForgets, FixedMessages
  <2>3. CASE lastMode = Tracker
    <3>1. After(Sender.out, ModeIs(Tracker))  BY <2>3, SenderDue DEF Informed
    <3>2. ModeIs(Tracker) \in Claims /\ ModeIs(Tracker).about # "rect"
      BY ClaimTypes, ModeRange DEF ModeIs
    <3>3. After(s.out, ModeIs(Tracker))  BY <1>1, <2>1, <3>1, <3>2, SendClearKeeps
    <3>4. TrackPrologue = s  BY <2>1, <2>3 DEF Entered
    <3> HIDE DEF s
    <3> QED  BY <2>2, <3>3, <3>4
  <2>4. CASE lastMode # Tracker
    <3>1. TrackPrologue = Put(s, ControlMsg(Tracker))  BY <2>1, <2>4 DEF Entered
    <3> HIDE DEF s
    <3>2. /\ ControlMsg(Tracker) \in Messages /\ ControlMsg(Tracker) \in Setters(ModeIs(Tracker))
          /\ ControlMsg(Tracker) \notin Touchers(OnlyFirst)
      BY ControlClaims, ClaimTypes, ModeRange DEF OnlyFirst
    <3> QED  BY <1>1, <2>2, <3>1, <3>2, PutSets, PutKeeps, PutOut
  <2> QED  BY <2>3, <2>4
<1> QED  BY <1>2, <1>3

(* Each request: what the host says of the OSD afterwards, and what is owed. *)
LEMMA TrackOwes ==
  ASSUME HostTypeOK, Cache, Working, Informed, wout = <<>>, Still, wire' = wire, NEW f \in Frames,
         Track(f), last' = Requested("track", <<Normalize(f, cam)>>)
  PROVE  Informed' /\ Owed'
<1> DEFINE r == Normalize(f, cam)
           start == IF lastMode # Tracker THEN Put(TrackPrologue, StatusMsg(Void)) ELSE TrackPrologue
           t == SendTrackerObj(start, r)
<1>1. r \in ByteRects  BY NormalizeBytes DEF HostTypeOK
<1>2. Submit(t) /\ lastMode' = Tracker /\ cleared'  BY DEF Track
<1>3. last'.k = "track" /\ last'.boxes[1] = r  BY DEF Requested
<1> HIDE DEF r
<1>4. start \in Senders /\ Right(start.prev, start.out)
  BY TrackPrologueType, PutType, FixedMessages, PrologueRight, StatusRight, ModeRange
<1>5. /\ After(start.out, ModeIs(Tracker)) /\ After(start.out, OnlyFirst)
      /\ After(start.out, AimIs(Void)) \/ \A i \in Index : start.prev[i].r = Zero
  <2>1. CASE lastMode = Tracker  BY <2>1, PrologueDue
  <2>2. CASE lastMode # Tracker
    <3>1. start = Put(TrackPrologue, StatusMsg(Void))  BY <2>2
    <3>2. /\ StatusMsg(Void) \in Messages /\ StatusMsg(Void) \in Setters(AimIs(Void))
          /\ StatusMsg(Void) \notin Touchers(OnlyFirst) /\ StatusMsg(Void) \notin Touchers(ModeIs(Tracker))
      BY StatusClaims, ClaimTypes, ModeRange DEF OnlyFirst, ModeIs
    <3> HIDE DEF start
    <3> QED  BY <3>1, <3>2, PrologueDue, TrackPrologueType, PutSets, PutKeeps
  <2> QED  BY <2>1, <2>2
<1> HIDE DEF start
<1>6. /\ After(t.out, ModeIs(Tracker)) /\ After(t.out, OnlyFirst)
      /\ After(t.out, AimIs(Void)) \/ \A i \in Index : t.prev[i].r = Zero
      /\ r # Zero => After(t.out, AimIs(Void))
      /\ \A p \in PrevRect : p = [r |-> r, line |-> 1, valid |-> TRUE] /\ p.r # Zero => After(t.out, RectIs(0, p))
  BY <1>1, <1>4, <1>5, SendTrackerObjDue
<1> HIDE DEF t
<1>7. \A c : After(t.out, c) => Due(c)'  BY <1>2, SubmitDue
<1>8. prev' = t.prev  BY <1>2 DEF Submit
<1>9. /\ Due(ModeIs(Tracker))' /\ Due(OnlyFirst)' /\ (Due(AimIs(Void))' \/ Forgotten')
  BY <1>6, <1>7, <1>8 DEF Forgotten
<1>10. Informed'
  BY <1>2, <1>9 DEF Informed, Tracker, Detector
<1>11. \A p \in PrevRect : Target(p)' =>
         Due(RectIs(0, p))' /\ Due(OnlyFirst)' /\ Due(ModeIs(Tracker))' /\ Due(AimIs(Void))'
  <2> SUFFICES ASSUME NEW p \in PrevRect, Target(p)' PROVE Due(RectIs(0, p))' /\ Due(AimIs(Void))'
    BY <1>9
  <2>1. p = [r |-> r, line |-> 1, valid |-> TRUE] /\ p.r # Zero  BY <1>3 DEF Target
  <2>2. r # Zero  BY <2>1
  <2> QED  BY <1>6, <1>7, <2>1, <2>2
<1>12. Owed'  BY <1>3, <1>11 DEF Owed
<1> QED  BY <1>10, <1>12

LEMMA NotTrackedOwes ==
  ASSUME HostTypeOK, Informed, wout = <<>>, Still, wire' = wire,
         NotTracked, last' = Requested("empty", <<>>)
  PROVE  Informed' /\ Owed'
<1> DEFINE s == Put(TrackPrologue, NotTrackedMsg)
<1>1. Submit(s) /\ lastMode' = Tracker  BY DEF NotTracked
<1>2. s.prev = TrackPrologue.prev  BY TrackPrologueType, FixedMessages, PutOut
<1>3. \A c \in Claims : After(TrackPrologue.out, c) => After(s.out, c)
  BY TrackPrologueType, HarmlessClaims, PutKeeps
<1>4. /\ After(s.out, ModeIs(Tracker)) /\ After(s.out, OnlyFirst)
      /\ After(s.out, AimIs(Void)) \/ \A i \in Index : s.prev[i].r = Zero
  BY <1>2, <1>3, PrologueDue, ClaimTypes, ModeRange
<1> HIDE DEF s
<1>5. \A c : After(s.out, c) => Due(c)'  BY <1>1, SubmitDue
<1>6. prev' = s.prev  BY <1>1 DEF Submit
<1>7. Due(ModeIs(Tracker))' /\ Due(OnlyFirst)' /\ (Due(AimIs(Void))' \/ Forgotten')
  BY <1>4, <1>5, <1>6 DEF Forgotten
<1>8. Informed'  BY <1>1, <1>7 DEF Informed, Tracker, Detector
<1>9. last'.k = "empty"  BY DEF Requested
<1> QED  BY <1>8, <1>9 DEF Owed

LEMMA TrackFailedOwes ==
  ASSUME HostTypeOK, Informed, wout = <<>>, Still, wire' = wire, NEW status \in 0..2,
         TrackFailed(status), NEW k, last' = Requested(k, <<>>),
         (k = "lost" /\ status = Lost) \/ (k = "notfound" /\ status = NotFound)
  PROVE  Informed' /\ Owed'
<1> DEFINE before == Put(TrackPrologue, StatusMsg(status))
           s == SendClear(before, ClearAllMsg)
<1>1. Submit(s) /\ lastMode' = Tracker  BY DEF TrackFailed
<1>2. before \in Senders /\ TrackPrologue \in Senders  BY TrackPrologueType, PutType, FixedMessages
<1>3. After(before.out, ModeIs(Tracker)) /\ After(before.out, AimIs(status))
  <2>1. /\ StatusMsg(status) \in Messages /\ StatusMsg(status) \in Setters(AimIs(status))
        /\ StatusMsg(status) \notin Touchers(ModeIs(Tracker))
    BY StatusClaims, ClaimTypes, ModeRange DEF ModeIs
  <2> QED  BY <1>2, <2>1, PrologueDue, PutSets, PutKeeps
<1> HIDE DEF before
<1>4. After(s.out, NoneDrawn) /\ After(s.out, OnlyFirst)  BY <1>2, SendClearSets
<1>5. \A i \in Index : s.prev[i].r = Zero  BY <1>2, SendClearForgets, FixedMessages
<1>6. After(s.out, ModeIs(Tracker)) /\ After(s.out, AimIs(status))
  <2>1. /\ ModeIs(Tracker) \in Claims /\ ModeIs(Tracker).about # "rect"
        /\ AimIs(status) \in Claims /\ AimIs(status).about # "rect"
    BY ClaimTypes, ModeRange DEF ModeIs, AimIs
  <2> QED  BY <1>2, <1>3, <2>1, SendClearKeeps
<1> HIDE DEF s
<1>7. \A c : After(s.out, c) => Due(c)'  BY <1>1, SubmitDue
<1>8. Forgotten'  BY <1>1, <1>5 DEF Submit, Forgotten
<1>9. Due(NoneDrawn)' /\ Due(OnlyFirst)' /\ Due(ModeIs(Tracker))' /\ Due(AimIs(status))'
  BY <1>4, <1>6, <1>7
<1>10. Informed'  BY <1>1, <1>8, <1>9 DEF Informed, Tracker, Detector
<1>11. last'.k = k  BY DEF Requested
<1>12. Owed'  BY <1>9, <1>11 DEF Owed
<1> QED  BY <1>10, <1>12

LEMMA DetectOwes ==
  ASSUME HostTypeOK, Informed, wout = <<>>, Still, wire' = wire, NEW fs \in Objects, Detect(fs),
         last' = Requested("detect", [i \in DOMAIN fs |-> Normalize(fs[i], cam)])
  PROVE  Informed' /\ Owed'
<1> DEFINE entered == Entered(Detector, Sender)
           start == IF lastMode # Detector THEN Put(entered, StatusMsg(Void)) ELSE Sender
<1>1. lastMode' = Detector /\ ~cleared'  BY DEF Detect
<1>2. start \in Senders /\ Sender \in Senders
  BY SenderType, EnteredType, PutType, FixedMessages, ModeRange
<1>3. After(start.out, ModeIs(Detector)) /\ After(start.out, AimIs(Void))
  <2>1. CASE lastMode = Detector  BY <2>1, SenderDue DEF Informed
  <2>2. CASE lastMode # Detector
    <3>1. start = Put(Put(Sender, ControlMsg(Detector)), StatusMsg(Void))  BY <2>2 DEF Entered
    <3>2. /\ ControlMsg(Detector) \in Messages /\ ControlMsg(Detector) \in Setters(ModeIs(Detector))
          /\ StatusMsg(Void) \in Messages /\ StatusMsg(Void) \in Setters(AimIs(Void))
          /\ StatusMsg(Void) \notin Touchers(ModeIs(Detector))
      BY ControlClaims, StatusClaims, ClaimTypes, ModeRange DEF ModeIs
    <3>3. After(Put(Sender, ControlMsg(Detector)).out, ModeIs(Detector))  BY <1>2, <3>2, PutSets
    <3>4. Put(Sender, ControlMsg(Detector)) \in Senders  BY <1>2, <3>2, PutType
    <3> QED  BY <3>1, <3>2, <3>3, <3>4, PutSets, PutKeeps
  <2> QED  BY <2>1, <2>2
<1>4. \/ Submit(SendClear(start, ClearAllMsg)) /\ fs = <<>> /\ worker' = "loop"
      \/ Submit(start) /\ worker' = "object" /\ job'.i = 0
  BY DEF Detect, Finished, To, NoJob
<1> HIDE DEF start, entered
<1>5. Due(ModeIs(Detector))' /\ Due(AimIs(Void))'
  <2>1. CASE Submit(start)  BY <1>3, <2>1, SubmitDue
  <2>2. CASE Submit(SendClear(start, ClearAllMsg))
    <3>1. /\ ModeIs(Detector) \in Claims /\ ModeIs(Detector).about # "rect"
          /\ AimIs(Void) \in Claims /\ AimIs(Void).about # "rect"
      BY ClaimTypes, ModeRange DEF ModeIs, AimIs
    <3>2. /\ After(SendClear(start, ClearAllMsg).out, ModeIs(Detector))
          /\ After(SendClear(start, ClearAllMsg).out, AimIs(Void))
      BY <1>2, <1>3, <3>1, SendClearKeeps
    <3> QED  BY <2>2, <3>2, SubmitDue
  <2> QED  BY <1>4, <2>1, <2>2
<1>6. Informed'  BY <1>1, <1>5 DEF Informed, Tracker, Detector
<1>7. last'.k = "detect" /\ last'.boxes = [i \in DOMAIN fs |-> Normalize(fs[i], cam)]
  BY DEF Requested
<1>8. Done' = 0
  <2>1. CASE worker' = "object" /\ job'.i = 0  BY <2>1 DEF Done
  <2>2. CASE fs = <<>> /\ worker' = "loop"
    <3>1. last'.boxes = <<>>  BY <1>7, <2>2
    <3> QED  BY <2>2, <3>1 DEF Done
  <2> QED  BY <1>4, <2>1, <2>2
<1>9. Owed'  BY <1>5, <1>7, <1>8 DEF Owed
<1> QED  BY <1>6, <1>9

LEMMA ManualOwes ==
  ASSUME HostTypeOK, Still, wire' = wire, NEW manual \in BOOLEAN, ManualFlight(manual), NEW k,
         last' = Requested(k, <<>>), IF manual THEN k = "manual" ELSE k = "nomanual"
  PROVE  Informed' /\ Owed'
<1> DEFINE wiped == SendClear(Sender, ClearAllMsg)
           entered == Put(wiped, ControlMsg(Manual))
           s == Put(entered, StatusMsg(Void))
<1>1. lastMode' = Manual /\ ~cleared' /\ (manual => Submit(s))  BY DEF ManualFlight
<1>2. Informed'  BY <1>1 DEF Informed, Tracker, Detector, Manual
<1>3. last'.k = k  BY DEF Requested
<1>4. CASE manual
  <2>1. wiped \in Senders /\ After(wiped.out, NoneDrawn)
    BY SenderType, SendClearType, SendClearSets, FixedMessages
  <2> HIDE DEF wiped
  <2>2. /\ ControlMsg(Manual) \in Messages /\ ControlMsg(Manual) \in Setters(ModeIs(Manual))
        /\ ControlMsg(Manual) \notin Touchers(NoneDrawn)
        /\ StatusMsg(Void) \in Messages /\ StatusMsg(Void) \in Setters(AimIs(Void))
        /\ StatusMsg(Void) \notin Touchers(ModeIs(Manual)) /\ StatusMsg(Void) \notin Touchers(NoneDrawn)
    BY ControlClaims, StatusClaims, ClaimTypes, ModeRange DEF ModeIs, NoneDrawn
  <2>3. entered \in Senders /\ After(entered.out, NoneDrawn) /\ After(entered.out, ModeIs(Manual))
    BY <2>1, <2>2, PutType, PutSets, PutKeeps
  <2> HIDE DEF entered
  <2>4. After(s.out, NoneDrawn) /\ After(s.out, ModeIs(Manual)) /\ After(s.out, AimIs(Void))
    BY <2>2, <2>3, PutSets, PutKeeps
  <2> HIDE DEF s
  <2>5. \A c : After(s.out, c) => Due(c)'  BY <1>1, <1>4, SubmitDue
  <2> QED  BY <1>2, <1>3, <1>4, <2>4, <2>5 DEF Owed
<1>5. CASE ~manual  BY <1>2, <1>3, <1>5 DEF Owed
<1> QED  BY <1>4, <1>5

-----------------------------------------------------------------------------
(* Told and Answered, step by step. *)
LEMMA RequestOwes ==
  ASSUME HostTypeOK, Loops, Asked, Cache, Told, Answered, Request, main = "wait" PROVE Informed' /\ Owed'
<1>0. /\ Working /\ wout = <<>> /\ worker = "wait" /\ Still /\ wire' = wire /\ Received
      /\ Informed /\ Owed
  BY RequestFrame DEF Told, Answered
<1>1. ASSUME NEW f \in Frames, Track(f), Note("track", <<Normalize(f, cam)>>) PROVE Informed' /\ Owed'
  BY <1>0, <1>1, TrackOwes DEF Note
<1>2. CASE NotTracked /\ Note("empty", <<>>)  BY <1>0, <1>2, NotTrackedOwes DEF Note
<1>3. CASE TrackFailed(Lost) /\ Note("lost", <<>>)
  BY <1>0, <1>3, TrackFailedOwes, ModeRange DEF Note
<1>4. CASE TrackFailed(NotFound) /\ Note("notfound", <<>>)
  BY <1>0, <1>4, TrackFailedOwes, ModeRange DEF Note
<1>5. ASSUME NEW fs \in Objects, Detect(fs), Note("detect", [i \in DOMAIN fs |-> Normalize(fs[i], cam)])
      PROVE  Informed' /\ Owed'
  BY <1>0, <1>5, DetectOwes DEF Note
<1>6. CASE ManualFlight(TRUE) /\ Note("manual", <<>>)  BY <1>0, <1>6, ManualOwes DEF Note
<1>7. CASE ManualFlight(FALSE) /\ Note("nomanual", <<>>)  BY <1>0, <1>7, ManualOwes DEF Note
<1>8. CASE (Telemetry \/ Camera \/ OtherRequest) /\ Quiet
  <2>1. /\ UNCHANGED <<prev, wout, wire, lastMode, last>> /\ (cleared' => cleared) /\ worker' = "loop"
    BY <1>0, <1>8
    DEF Telemetry, Camera, OtherRequest, Finished, To, Quiet, history, sender, Received
  <2>2. Kept /\ (Forgotten => Forgotten')  BY <1>0, <2>1, StillKept DEF Forgotten
  <2>3. Done' = Done  BY <1>0, <2>1 DEF Done
  <2>4. Informed'  BY <1>0, <2>1, <2>2, InformedKept
  <2>5. Owed'  BY <1>0, <2>1, <2>2, <2>3, OwedKept
  <2> QED  BY <2>4, <2>5
<1> QED  BY <1>1, <1>2, <1>3, <1>4, <1>5, <1>6, <1>7, <1>8 DEF Request

LEMMA ObjectOwes ==
  ASSUME HostTypeOK, Loops, Asked, Cache, Informed, Owed, DetectObject, Still, last' = last
  PROVE  Informed' /\ Owed'
<1> DEFINE r == job.boxes[job.i + 1]
           s == SendDetectorObj(Sender, job.i, r)
<1>1. /\ Working /\ wout = <<>> /\ wire' = wire /\ Sender \in Senders
      /\ job.i \in Index /\ r \in ByteRects /\ Submit(s)
  BY ObjectSent
<1>2. worker = "object" /\ worker' = "clear" /\ UNCHANGED <<lastMode, cleared>> /\ job'.i = job.i
      /\ job.i \in Nat
  BY DEF DetectObject, WorkerReady, To, HostTypeOK
<1>3. /\ last.k = "detect" /\ lastMode = Detector /\ ~cleared
      /\ job.boxes = last.boxes /\ job.i < Len(last.boxes)
  BY <1>2 DEF Loops, Objecting
<1>4. Right(Sender.prev, Sender.out) /\ Due(ModeIs(Detector)) /\ Due(AimIs(Void))
  BY <1>1, <1>3, SenderRight DEF Informed
<1> HIDE DEF r
<1>5. /\ After(s.out, ModeIs(Detector)) /\ After(s.out, AimIs(Void))
      /\ \A p \in PrevRect : p = [r |-> r, line |-> 0, valid |-> TRUE] /\ p.r # Zero =>
           After(s.out, RectIs(job.i, p))
      /\ \A j \in Index \ {job.i} : \A p \in PrevRect :
           After(Sender.out, RectIs(j, p)) => After(s.out, RectIs(j, p))
  BY <1>1, <1>4, SenderDue, SendDetectorObjDue
<1> HIDE DEF s
<1>6. \A c : After(s.out, c) => Due(c)'  BY <1>1, SubmitDue
<1>7. Due(ModeIs(Detector))' /\ Due(AimIs(Void))'  BY <1>5, <1>6
<1>8. Informed'  BY <1>2, <1>3, <1>7 DEF Informed, Tracker, Detector
<1>9. Done = job.i /\ Done' = job.i + 1  BY <1>2 DEF Done
<1>10. ASSUME NEW n \in 1..Done', NEW p \in PrevRect, Reported(n, p)' PROVE Due(RectIs(n - 1, p))'
  <2>1. p = [r |-> last.boxes[n], line |-> 0, valid |-> TRUE] /\ p.r # Zero  BY <1>10 DEF Reported
  <2>2. CASE n = job.i + 1
    <3>1. last.boxes[n] = r /\ n - 1 = job.i  BY <1>2, <1>3, <2>2 DEF r
    <3> QED  BY <1>5, <1>6, <2>1, <3>1
  <2>3. CASE n # job.i + 1
    <3>1. n \in 1..Done /\ n - 1 # job.i  BY <1>2, <1>9, <2>3
    <3>2. n - 1 \in Index  BY <1>3, <3>1, DoneRange
    <3>3. Reported(n, p)  BY <2>1 DEF Reported
    <3>4. Due(RectIs(n - 1, p))  BY <1>3, <3>1, <3>3 DEF Owed
    <3> QED  BY <1>1, <1>5, <1>6, <3>1, <3>2, <3>4, SenderDue
  <2> QED  BY <2>2, <2>3
<1>11. last'.k = "detect"  BY <1>3
<1>12. Owed'  BY <1>7, <1>10, <1>11 DEF Owed
<1> QED  BY <1>8, <1>12

LEMMA ClearOwes ==
  ASSUME HostTypeOK, Loops, Asked, Informed, Owed, ClearRect, Still, last' = last
  PROVE  Informed' /\ Owed'
<1> DEFINE s == SendClearRect(Sender, job.j)
<1>1. /\ wout = <<>> /\ wire' = wire /\ Sender \in Senders /\ job.j \in Index /\ Submit(s)
  BY RectCleared
<1>2. UNCHANGED <<worker, lastMode, cleared>> /\ job'.i = job.i
  BY DEF ClearRect, HostTypeOK
<1>3. \A c \in Claims : After(Sender.out, c) => After(s.out, c)  BY <1>1, SendClearRectKeeps
<1>4. \A i \in Index : s.prev[i].r = Sender.prev[i].r
  BY <1>1 DEF SendClearRect, Put, Senders, PrevRect
<1> HIDE DEF s
<1>5. Kept  BY <1>1, <1>3, SenderDue, SubmitDue DEF Kept
<1>6. Forgotten => Forgotten'  BY <1>1, <1>4 DEF Forgotten, Submit, Sender
<1>7. Done' = Done  BY <1>2 DEF Done
<1> QED  BY <1>2, <1>5, <1>6, <1>7, InformedKept, OwedKept

LEMMA ClearedOwes ==
  ASSUME HostTypeOK, Loops, Asked, Informed, Owed, ClearedRects, Still, last' = last
  PROVE  Informed' /\ Owed'
<1>1. Kept /\ UNCHANGED <<prev, lastMode, cleared>>  BY IdleKept DEF ClearedRects
<1>2. worker = "clear" /\ job.i \in Nat /\ job.boxes \in Seq(ByteRects)
      /\ \/ job.i + 1 < Len(job.boxes) /\ worker' = "object" /\ job' = [job EXCEPT !.i = @ + 1]
         \/ job.i + 1 >= Len(job.boxes) /\ worker' = "loop"
  BY DEF ClearedRects, WorkerReady, To, HostTypeOK
<1>3. ASSUME last.k = "detect", NEW n \in 1..Done' PROVE n \in 1..Done
  <2>1. job.boxes = last.boxes /\ job.i < Len(last.boxes)  BY <1>2, <1>3 DEF Loops, Objecting
  <2>2. Done = job.i + 1  BY <1>2 DEF Done
  <2>3. CASE worker' = "object" /\ job' = [job EXCEPT !.i = @ + 1]
    <3>1. job'.i = job.i + 1  BY <2>3 DEF HostTypeOK
    <3> QED  BY <2>2, <2>3, <3>1 DEF Done
  <2>4. CASE job.i + 1 >= Len(job.boxes) /\ worker' = "loop"
    <3>1. Done' = Len(last.boxes) /\ Len(last.boxes) \in Nat  BY <1>2, <2>1, <2>4 DEF Done
    <3> QED  BY <1>2, <2>1, <2>2, <2>4, <3>1
  <2> QED  BY <1>2, <2>3, <2>4
<1>4. Forgotten => Forgotten'  BY <1>1 DEF Forgotten
<1> QED  BY <1>1, <1>3, <1>4, InformedKept, OwedKept

LEMMA WorkerOwes ==
  ASSUME HostTypeOK, Threads, Loops, Fresh, Asked, Cache, Told, Answered, WorkerStep, Still,
         last' = last, main = "wait"
  PROVE  (Working' => Informed') /\ Owed'
<1>0. Working /\ Informed /\ Owed  BY WorkerFrame DEF Told, Answered
<1>1. CASE Begin
  <2>1. last = Nothing /\ lastMode = Manual /\ ~cleared  BY <1>1 DEF Begin, WorkerReady, Fresh
  <2>2. lastMode' = Manual /\ ~cleared'  BY <1>1, <2>1 DEF Begin, local
  <2>3. last'.k = "nothing"  BY <2>1 DEF Nothing
  <2> QED  BY <2>2, <2>3 DEF Informed, Owed, Manual, Tracker, Detector
<1>2. CASE Open \/ GetCamera \/ LoopTest \/ EnterWait \/ Woken
  <2>1. Kept /\ UNCHANGED <<prev, lastMode, cleared>>
    BY <1>2, IdleKept DEF Open, GetCamera, LoopTest, EnterWait, Woken, local
  <2>2. Done' = Done
    BY <1>2 DEF Open, GetCamera, LoopTest, EnterWait, Woken, WorkerReady, To, Done
  <2>3. Forgotten => Forgotten'  BY <2>1 DEF Forgotten
  <2> QED  BY <1>0, <2>1, <2>2, <2>3, InformedKept, OwedKept
<1>3. CASE DetectObject  BY <1>0, <1>3, ObjectOwes
<1>4. CASE ClearRect  BY <1>0, <1>4, ClearOwes
<1>5. CASE ClearedRects  BY <1>0, <1>5, ClearedOwes
<1>6. CASE WorkerWrite
  <2>1. Kept /\ UNCHANGED <<prev, lastMode, cleared, worker, job>>
    BY <1>6, WriteKept DEF WorkerWrite, local
  <2>2. Done' = Done /\ (Forgotten => Forgotten')  BY <2>1 DEF Done, Forgotten
  <2> QED  BY <1>0, <2>1, <2>2, InformedKept, OwedKept
<1> QED  BY <1>1, <1>2, <1>3, <1>4, <1>5, <1>6 DEF WorkerStep

LEMMA MainOwes ==
  ASSUME Threads, Fresh, Asked, MainStep, last' = last PROVE Told' /\ Answered'
<1> USE DEF MainReady
<1>1. CASE StartFailed
  <2>1. last' = Nothing /\ ~Working' /\ Nothing.k = "nothing"
    BY <1>1 DEF StartFailed, Fresh, Threads, Working, Nothing
  <2> QED  BY <2>1 DEF Told, Answered, Owed
<1>2. CASE Spawn
  <2>1. last' = Nothing /\ lastMode' = Manual /\ ~cleared' /\ Nothing.k = "nothing"
    BY <1>2 DEF Spawn, Fresh, local, Nothing
  <2> QED  BY <2>1 DEF Told, Answered, Owed, Informed, Manual, Tracker, Detector
<1>3. CASE MainStep /\ ~StartFailed /\ ~Spawn
  <2>1. main' # "wait"
    BY <1>3 DEF MainStep, Start, SetStopFlag, Terminate, TerminateCrash, Join, Destroy, Exit, MainWrite,
                Die, Asked
  <2> QED  BY <2>1 DEF Told, Answered
<1> QED  BY <1>1, <1>2, <1>3

LEMMA RestOwes ==
  ASSUME HostTypeOK, Threads, Loops, Asked, Told, Answered, Still,
         \/ (Signal \/ Throw) /\ last' = last
         \/ (WorkerWriteFails \/ MainWriteFails \/ Launch) /\ last' = Nothing
  PROVE  Told' /\ Answered'
<1>1. CASE Signal  BY <1>1 DEF Signal, Told, Answered
<1>2. CASE Throw /\ last' = last
  <2>1. Kept  BY <1>2, StillKept DEF Throw, sender
  <2>2. Done' = Done /\ main' = main /\ ~Working'  BY <1>2 DEF Throw, To, Done, Working
  <2> QED  BY <1>2, <2>1, <2>2, OwedKept DEF Told, Answered
<1>3. CASE (WorkerWriteFails \/ MainWriteFails \/ Launch) /\ last' = Nothing
  <2>1. last'.k = "nothing"  BY <1>3 DEF Nothing
  <2>2. ~Working'
    BY <1>3 DEF WorkerWriteFails, MainWriteFails, Launch, Die, To, Working
  <2> QED  BY <2>1, <2>2 DEF Told, Answered, Owed
<1> QED  BY <1>1, <1>2, <1>3

(* Steps of the line, of the OSD alone, and of nobody. *)
LEMMA KeptAll ==
  ASSUME HostTypeOK, Loops, Fresh, Asked, Threads, Cache, Told, Answered, Kept,
         UNCHANGED <<main, mout, worker, sender, local, shared, last>>
  PROVE  Threads' /\ Cache' /\ Loops' /\ Fresh' /\ Asked' /\ Told' /\ Answered'
<1> USE DEF sender, local, shared
<1>1. Threads'  BY DEF Threads, Working
<1>2. Cache'  BY KeptCache DEF Working
<1>3. Loops'  BY LoopsSame
<1>4. Fresh' /\ Asked'  BY DEF Fresh, Asked
<1>5. Told'
  <2>1. Forgotten => Forgotten'  BY DEF Forgotten
  <2> QED  BY <2>1, InformedKept DEF Told, Working
<1>6. Answered'
  <2>1. Done' = Done  BY DEF Done
  <2> QED  BY <2>1, OwedKept DEF Answered
<1> QED  BY <1>1, <1>2, <1>3, <1>4, <1>5, <1>6

-----------------------------------------------------------------------------
LEMMA InitIInv == Init => IInv
<1> SUFFICES ASSUME Init PROVE IInv  OBVIOUS
<1> USE DEF Init, HostInit, OsdInit
<1>1. LinkInv  BY InitInv
<1>2. Threads /\ Cache /\ Ending /\ Loops /\ Fresh /\ Told /\ Answered
  BY DEF Threads, Cache, Working, Ending, Loops, Fresh, Told, Answered
<1>3. Asked  BY HostAssumption DEF Asked, Nothing
<1>4. Timed  BY DEF Timed, NoRect
<1> QED  BY <1>1, <1>2, <1>3, <1>4 DEF IInv

LEMMA StepIInv == IInv /\ [Next]_linkVars => IInv'
<1> SUFFICES ASSUME IInv, [Next]_linkVars PROVE IInv'  OBVIOUS
<1>0. /\ LinkInv /\ Threads /\ Cache /\ Ending /\ Loops /\ Fresh /\ Asked /\ Told /\ Answered /\ Timed
      /\ HostTypeOK
  BY DEF IInv, LinkInv, TypeOK
<1>1. LinkInv' /\ Timed'  BY <1>0, StepInv, TimedStep
<1>2. CASE Request
  <2>1. Threads' /\ Loops' /\ Asked' /\ Fresh' /\ Cache'
    BY <1>0, <1>2, ThreadsWorker, RequestLoops, WorkerFresh, RequestCache
  <2>2. Ending'  BY <1>0, <1>2, WorkerBefore DEF Ending
  <2>3. Told' /\ Answered'
    BY <1>0, <1>2, RequestFrame, RequestOwes DEF Told, Answered
  <2> QED  BY <1>1, <2>1, <2>2, <2>3 DEF IInv
<1>3. CASE MainStep /\ Quiet
  <2>1. Still /\ last' = last  BY <1>3 DEF Quiet, osdVars, history, Still
  <2>2. Threads' /\ Loops' /\ Asked' /\ Fresh' /\ Cache' /\ Ending'
    BY <1>0, <1>3, <2>1, ThreadsMain, MainLoops, MainAsked, MainFresh, MainCache, EndingMain
  <2>3. Told' /\ Answered'  BY <1>0, <1>3, <2>1, MainOwes
  <2> QED  BY <1>1, <2>2, <2>3 DEF IInv
<1>4. CASE WorkerStep /\ Quiet
  <2>1. Still /\ last' = last  BY <1>4 DEF Quiet, osdVars, history, Still
  <2>2. Threads' /\ Loops' /\ Fresh' /\ Cache'
    BY <1>0, <1>4, <2>1, ThreadsWorker, WorkerLoops, WorkerFresh, WorkerCache
  <2>3. UNCHANGED <<main, mout>>  BY <1>4, WorkerLeaves
  <2>4. Asked'  BY <1>0, <2>1, <2>3 DEF Asked
  <2>5. Ending'  BY <1>0, <1>4, WorkerBefore DEF Ending
  <2>6. Told' /\ Answered'  BY <1>0, <1>4, <2>1, <2>3, WorkerOwes DEF Told, Answered
  <2> QED  BY <1>1, <2>2, <2>4, <2>5, <2>6 DEF IInv
<1>5. CASE /\ UNCHANGED <<osdVars, stale>>
           /\ \/ (Signal \/ Throw) /\ last' = last
              \/ (WorkerWriteFails \/ MainWriteFails \/ Launch) /\ last' = Nothing
  <2>1. Still  BY <1>5 DEF osdVars, Still
  <2>2. Threads' /\ Loops' /\ Fresh' /\ Asked' /\ Cache'
    BY <1>0, <1>5, <2>1, ThreadsRest, RestLoops, RestCache
  <2>3. Ending'  BY <1>0, <1>5, WorkerBefore, EndingRest DEF Ending
  <2>4. Told' /\ Answered'  BY <1>0, <1>5, <2>1, RestOwes
  <2> QED  BY <1>1, <2>2, <2>3, <2>4 DEF IInv
<1>6. CASE Deliver \/ Lose \/ Restart
  <2>1. UNCHANGED <<main, mout, worker, sender, local, shared, last>>
    <3>1. CASE Deliver \/ Lose  BY <3>1 DEF Deliver, Lose
    <3>2. CASE Restart  BY <3>2 DEF Restart, hostVars, sender, local, shared
    <3> QED  BY <1>6, <3>1, <3>2
  <2>2. Kept /\ Ending'  BY <1>0, <1>6, LineKept, EndingLine
  <2> QED  BY <1>0, <1>1, <2>1, <2>2, KeptAll DEF IInv
<1>7. CASE UNCHANGED <<hostVars, history, rects, controlMode, aimStatus>>
  <2>1. Still /\ UNCHANGED <<main, mout, worker, sender, local, shared, last, wire, wout>>
    BY <1>7 DEF hostVars, history, Still, sender, local, shared
  <2>2. Kept /\ Ending'  BY <1>0, <2>1, StillKept, EndingSame
  <2> QED  BY <1>0, <1>1, <2>1, <2>2, KeptAll DEF IInv
<1>8. CASE TickOsd /\ UNCHANGED <<hostVars, history>>  BY <1>7, <1>8 DEF TickOsd
<1>9. CASE UNCHANGED linkVars  BY <1>7, <1>9 DEF linkVars, osdVars, history
<1> QED
  BY <1>2, <1>3, <1>4, <1>5, <1>6, <1>8, <1>9 DEF Next, Quiet, history

LEMMA Invariance == Spec => []IInv
BY InitIInv, StepIInv, PTL DEF Spec

-----------------------------------------------------------------------------
(* With nothing under way, what is due is what the OSD shows. *)
LEMMA DueShown == ASSUME wire = <<>>, wout = <<>>, NEW c PROVE Due(c) <=> Base(c)
<1>1. OnLine(c) <=> Base(c)  BY LeavesEmpty DEF OnLine
<1> QED  BY <1>1, LeavesEmpty DEF Due, After

LEMMA SettledOwed ==
  ASSUME IInv, NEW k, Settled(k)
  PROVE  /\ Owed /\ wire = <<>> /\ wout = <<>> /\ last.k = k /\ Done = Len(last.boxes)
         /\ Asked /\ Timed
BY DEF IInv, Answered, Settled, Drained, Done

(* With nothing under way, what the cache holds is what the OSD draws: the test that
   suppresses a message (GpuUtils.cpp:152 and 175) never suppresses a needed one, as long as
   no loss or restart made the rectangles stale. *)
THEOREM CacheIsRight == Spec => []CacheMatchesOsd
<1>1. IInv => CacheMatchesOsd
  <2> SUFFICES ASSUME IInv, Drained, worker \notin {"none", "ended"}, "rects" \notin stale,
                      NEW i \in Index, prev[i].valid, prev[i].r # Zero
               PROVE  Matches(i, prev[i])
    BY DEF CacheMatchesOsd, Matches
  <2>1. prev[i] \in PrevRect  BY DEF IInv, LinkInv, TypeOK, HostTypeOK
  <2>2. PICK p \in PrevRect : p = prev[i]  BY <2>1
  <2>3. Due(RectIs(i, p))  BY <2>2 DEF IInv, Cache, Right, Working, Due
  <2>4. Base(RectIs(i, p))  BY <2>3, DueShown DEF Drained
  <2>5. Matches(i, p)  BY <2>4 DEF Base, RectIs
  <2> QED  BY <2>2, <2>5
<1> QED  BY <1>1, Invariance, PTL

(* After the host's orderly end, whatever its threads were doing when the signal came, no
   rectangle stays on the screen (ProcGpu.cpp:17-31 and 60-79), as long as no loss or
   restart made the rectangles stale. *)
THEOREM CleanAtTheEnd == Spec => []CleanAfterExit
<1>1. IInv => CleanAfterExit
  <2> SUFFICES ASSUME IInv, Drained, main = "exited", "rects" \notin stale PROVE NoRects
    BY DEF CleanAfterExit
  <2>1. After(<<>>, NoneDrawn) /\ wire = <<>>  BY DEF IInv, Ending, Drained
  <2>2. Base(NoneDrawn)  BY <2>1, LeavesEmpty DEF After, OnLine
  <2> QED  BY <2>2 DEF Base, NoneDrawn
<1> QED  BY <1>1, Invariance, PTL

(* Whatever was shown before, a tracked target ends as the one solid rectangle on the
   screen, in tracker mode and without an aim warning (ProcGpu.cpp:109-129), once
   its messages have arrived and unless a loss or a restart touched the overlay. *)
THEOREM TrackerIsShown == Spec => []TrackerShown
<1>1. IInv => TrackerShown
  <2> DEFINE p == [r |-> last.boxes[1], line |-> 1, valid |-> TRUE]
  <2> SUFFICES ASSUME IInv, Settled("track"), stale = {}, last.boxes[1] # Zero
               PROVE  /\ Drawn(0) /\ Solid(0, last.boxes[1])
                      /\ \A i \in RectIndex \ {0} : ~Drawn(i)
                      /\ controlMode = Tracker /\ aimStatus = Void
    BY DEF TrackerShown
  <2>1. /\ Owed /\ wire = <<>> /\ wout = <<>> /\ last.k = "track" /\ Asked /\ Timed
    BY SettledOwed
  <2>2. last.boxes[1] \in ByteRects  BY <2>1 DEF Asked
  <2>3. p \in PrevRect /\ Target(p)  BY <2>2 DEF PrevRect, Target
  <2>4. Due(RectIs(0, p)) /\ Due(OnlyFirst) /\ Due(ModeIs(Tracker)) /\ Due(AimIs(Void))
    BY <2>1, <2>3 DEF Owed
  <2>5. Base(RectIs(0, p)) /\ Base(OnlyFirst) /\ Base(ModeIs(Tracker)) /\ Base(AimIs(Void))
    BY <2>1, <2>4, DueShown
  <2>6. Matches(0, p)  BY <2>5 DEF Base, RectIs
  <2>7. Solid(0, last.boxes[1])  BY <2>6 DEF Matches
  <2>8. 0 \in RectIndex  BY OverlayAssumption DEF RectIndex
  <2>9. Drawn(0)  BY <2>1, <2>7, <2>8 DEF Solid, Drawn, Timed
  <2>10. \A i \in RectIndex \ {0} : ~Drawn(i)  BY <2>5 DEF Base, OnlyFirst
  <2>11. controlMode = Tracker /\ aimStatus = Void  BY <2>5 DEF Base, ModeIs, AimIs
  <2> QED  BY <2>7, <2>9, <2>10, <2>11
<1> QED  BY <1>1, Invariance, PTL

(* A target that was lost, or never found, leaves no rectangle, tracker mode and its warning
   (ProcGpu.cpp:130-139), each part unless a loss or a restart
   touched it. *)
THEOREM FailureIsShown == Spec => []FailureShown
<1>1. IInv => FailureShown
  <2> SUFFICES ASSUME IInv, NEW k \in {"lost", "notfound"}, Settled(k)
               PROVE  /\ "rects" \notin stale => NoRects
                      /\ "aim" \notin stale => aimStatus = (IF last.k = "lost" THEN Lost ELSE NotFound)
                      /\ "mode" \notin stale => controlMode = Tracker
    BY DEF FailureShown
  <2>1. Owed /\ wire = <<>> /\ wout = <<>> /\ last.k = k  BY SettledOwed
  <2> DEFINE v == IF last.k = "lost" THEN Lost ELSE NotFound
  <2>2. Due(NoneDrawn) /\ Due(ModeIs(Tracker)) /\ Due(AimIs(v))  BY <2>1 DEF Owed
  <2>3. Base(NoneDrawn) /\ Base(ModeIs(Tracker)) /\ Base(AimIs(v))  BY <2>1, <2>2, DueShown
  <2> QED  BY <2>3 DEF Base, NoneDrawn, ModeIs, AimIs
<1> QED  BY <1>1, Invariance, PTL

(* Every object of a detector report is drawn dashed where the host put it, in detector mode
   and without an aim warning (ProcGpu.cpp:149-182), unless a loss or a restart
   touched the overlay. *)
THEOREM DetectorIsShown == Spec => []DetectorShown
<1>1. IInv => DetectorShown
  <2> SUFFICES ASSUME IInv, Settled("detect"), stale = {}
               PROVE  /\ \A i \in DOMAIN last.boxes : last.boxes[i] # Zero =>
                           Drawn(i - 1) /\ Dashed(i - 1, last.boxes[i])
                      /\ controlMode = Detector /\ aimStatus = Void
    BY DEF DetectorShown
  <2>1. /\ Owed /\ wire = <<>> /\ wout = <<>> /\ last.k = "detect" /\ Done = Len(last.boxes)
        /\ Asked /\ Timed
    BY SettledOwed
  <2>2. Due(ModeIs(Detector)) /\ Due(AimIs(Void))  BY <2>1 DEF Owed
  <2>3. Base(ModeIs(Detector)) /\ Base(AimIs(Void))  BY <2>1, <2>2, DueShown
  <2>4. controlMode = Detector /\ aimStatus = Void  BY <2>3 DEF Base, ModeIs, AimIs
  <2>5. ASSUME NEW i \in DOMAIN last.boxes, last.boxes[i] # Zero
        PROVE  Drawn(i - 1) /\ Dashed(i - 1, last.boxes[i])
    <3> DEFINE p == [r |-> last.boxes[i], line |-> 0, valid |-> TRUE]
    <3>1. last.boxes \in Seq(ByteRects) /\ Len(last.boxes) <= N  BY <2>1 DEF Asked
    <3>2. i \in 1..Len(last.boxes) /\ last.boxes[i] \in ByteRects  BY <3>1
    <3>3. p \in PrevRect /\ Reported(i, p)  BY <2>5, <3>2 DEF PrevRect, Reported
    <3>4. Due(RectIs(i - 1, p))  BY <2>1, <3>2, <3>3 DEF Owed
    <3>5. Base(RectIs(i - 1, p))  BY <2>1, <3>4, DueShown
    <3>6. Matches(i - 1, p)  BY <3>5 DEF Base, RectIs
    <3>7. Dashed(i - 1, last.boxes[i])  BY <3>6 DEF Matches
    <3>8. i - 1 \in RectIndex
      BY <3>1, <3>2, HostAssumption, OverlayAssumption, LinkAssumption DEF RectIndex
    <3>9. Drawn(i - 1)  BY <2>1, <3>7, <3>8 DEF Dashed, Drawn, Timed
    <3> QED  BY <3>7, <3>9
  <2> QED  BY <2>4, <2>5
<1> QED  BY <1>1, Invariance, PTL

(* Manual flight leaves no rectangle, manual mode and no aim warning (ProcGpu.cpp:190-194),
   unless a loss or a restart touched the overlay. *)
THEOREM ManualIsShown == Spec => []ManualShown
<1>1. IInv => ManualShown
  <2> SUFFICES ASSUME IInv, Settled("manual"), stale = {}
               PROVE  NoRects /\ controlMode = Manual /\ aimStatus = Void
    BY DEF ManualShown
  <2>1. Owed /\ wire = <<>> /\ wout = <<>> /\ last.k = "manual"  BY SettledOwed
  <2>2. Due(NoneDrawn) /\ Due(ModeIs(Manual)) /\ Due(AimIs(Void))  BY <2>1 DEF Owed
  <2>3. Base(NoneDrawn) /\ Base(ModeIs(Manual)) /\ Base(AimIs(Void))  BY <2>1, <2>2, DueShown
  <2> QED  BY <2>3 DEF Base, NoneDrawn, ModeIs, AimIs
<1> QED  BY <1>1, Invariance, PTL

-----------------------------------------------------------------------------
(* An object in the picture, and the rectangle of cells shown for it, for any screen and any
   picture of as many pixels. *)

LEMMA Divided == ASSUME NEW a \in Nat, NEW b \in Nat \ {0}
                 PROVE /\ a \div b \in Nat /\ b * (a \div b) <= a /\ a < b * (a \div b) + b
                       /\ a % b = a - b * (a \div b) /\ b * (a \div b) \in Nat
OBVIOUS

LEMMA Product == ASSUME NEW b \in Nat, NEW i \in Int, NEW j \in Int
                 PROVE /\ i <= j => b * i <= b * j /\ i * b <= j * b
                       /\ i < j => b * i + b <= b * j
                       /\ i * b = b * i /\ b * (i + 1) = b * i + b /\ (i + 1) * b = b * i + b
                       /\ b * i \in Int
OBVIOUS

LEMMA CellsInOrder == ASSUME NEW b \in Nat \ {0}, NEW i \in Nat, NEW j \in Nat, NEW m \in Nat, NEW n \in Nat,
                             b * i <= m, n < b * j + b, m <= n
                      PROVE i <= j
<1> SUFFICES ASSUME j < i PROVE FALSE
  OBVIOUS
<1>1. j + 1 <= i /\ j + 1 \in Int /\ i \in Int  OBVIOUS
<1>2. b * (j + 1) <= b * i  BY <1>1, Product
<1>3. b * (j + 1) = b * j + b  BY Product
<1> QED  BY <1>2, <1>3

LEMMA CellsInBytes == ASSUME NEW cells \in 1..127, NEW q \in Nat, NEW e \in Nat, q <= e, e < 2 * cells
                      PROVE q \in 0..255 /\ (e - q) + 1 \in 0..255 /\ e - q \in 0..255
OBVIOUS

(* Along one axis: the first pixel's cell q, and the cell e that the first pixel after the
   object is in. *)
LEMMA AxisCells ==
  ASSUME NEW cells \in 1..127, NEW size \in Nat, size >= cells,
         NEW from \in Nat, NEW w \in Nat \ {0}, from + w <= size,
         NEW cell \in Nat, cell = size \div cells,
         NEW q \in Nat, q = from \div cell, NEW e \in Nat, e = (from + w) \div cell
  PROVE /\ cell >= 1 /\ cells * cell <= size /\ size < cells * cell + cells
        /\ cell * q <= from /\ from < cell * q + cell
        /\ cell * e <= from + w /\ from + w < cell * e + cell
        /\ q <= e /\ e < 2 * cells
<1>1. cells \in Nat \ {0} /\ cells <= 127  OBVIOUS
<1>2. cells * cell <= size /\ size < cells * cell + cells  BY <1>1, Divided
<1>3. cell >= 1
  <2> SUFFICES ASSUME cell = 0 PROVE FALSE
    OBVIOUS
  <2>1. cells * cell = 0  BY <1>1
  <2> QED  BY <1>1, <1>2, <2>1
<1>4. cell \in Nat \ {0}  BY <1>3
<1>5. cell * q <= from /\ from < cell * q + cell  BY <1>4, Divided
<1>6. cell * e <= from + w /\ from + w < cell * e + cell
  <2>1. from + w \in Nat  OBVIOUS
  <2> QED  BY <1>4, <2>1, Divided
<1>7. q <= e
  <2>1. from + w \in Nat /\ from <= from + w  OBVIOUS
  <2> QED  BY <1>4, <1>5, <1>6, <2>1, CellsInOrder
<1>8. e < 2 * cells
  <2> SUFFICES ASSUME 2 * cells <= e PROVE FALSE
    BY <1>1
  <2>1. cell * (2 * cells) <= cell * e  BY <1>1, Product
  <2>2. cell * (2 * cells) = cells * cell + cells * cell  BY <1>1
  <2>3. cells * 1 <= cells * cell  BY <1>1, <1>3, Product
  <2>4. cells * cell \in Nat /\ cell * e \in Nat  BY <1>1
  <2> QED  BY <1>1, <1>2, <1>6, <2>1, <2>2, <2>3, <2>4
<1> QED  BY <1>2, <1>3, <1>5, <1>6, <1>7, <1>8

(* The bytes hold the cells. *)
LastCell(from, w, cell, e) == IF from + w > cell * e /\ 2 * w > cell THEN 1 ELSE 0

AxisIs(cells, size, from, width, w, cell, q, e) ==
  /\ size >= cells /\ w = Geometry!Most(width, 1) /\ from + w <= size
  /\ cell = size \div cells /\ q = from \div cell /\ e = (from + w) \div cell
BytesAre(from, width, w, cell, q, e) ==
  /\ Geometry!First(from, cell) = q
  /\ Geometry!Count(from, width, cell) = (e - q) + LastCell(from, w, cell, e)

LEMMA AxisBytes ==
  ASSUME NEW cells \in 1..127, NEW size \in Nat, NEW from \in Nat, NEW width \in Nat,
         NEW w \in Nat \ {0}, NEW cell \in Nat, NEW q \in Nat, NEW e \in Nat,
         AxisIs(cells, size, from, width, w, cell, q, e)
  PROVE BytesAre(from, width, w, cell, q, e)
<1>0. /\ size >= cells /\ w = Geometry!Most(width, 1) /\ from + w <= size
      /\ cell = size \div cells /\ q = from \div cell /\ e = (from + w) \div cell
  BY DEF AxisIs
<1>1. cell >= 1 /\ q <= e /\ e < 2 * cells /\ cell * e <= from + w  BY Zenon, <1>0, AxisCells
<1>2. q \in 0..255 /\ (e - q) + 1 \in 0..255 /\ e - q \in 0..255  BY <1>1, CellsInBytes
<1>3. \A n \in 0..255 : n % 256 = n  OBVIOUS
<1>4. Geometry!Quot(from, cell) = q /\ Geometry!Quot(from + w, cell) = e
  <2>1. from >= 0 /\ from + w >= 0  OBVIOUS
  <2> QED  BY <1>0, <2>1 DEF Geometry!Quot
<1>5. Geometry!First(from, cell) = q  BY <1>2, <1>3, <1>4 DEF Geometry!First
<1>6. Geometry!Rem(from + w, cell) > 0 <=> from + w > cell * e
  <2>1. Geometry!Rem(from + w, cell) = (from + w) - cell * e  BY <1>4 DEF Geometry!Rem
  <2>2. cell * e \in Nat /\ from + w \in Nat  OBVIOUS
  <2> QED  BY <2>1, <2>2
<1>7. LastCell(from, w, cell, e) = IF Geometry!Rem(from + w, cell) > 0 /\ 2 * w > cell THEN 1 ELSE 0
  BY <1>6 DEF LastCell
<1>8. Geometry!Count(from, width, cell) = ((e - q) + LastCell(from, w, cell, e)) % 256
  BY <1>0, <1>4, <1>5, <1>7 DEF Geometry!Count
<1>9. (e - q) + LastCell(from, w, cell, e) \in 0..255
  <2>1. LastCell(from, w, cell, e) = 0 \/ LastCell(from, w, cell, e) = 1  BY DEF LastCell
  <2> QED  BY <1>2, <2>1
<1> QED  BY <1>3, <1>5, <1>8, <1>9 DEF BytesAre

(* What the OSD keeps of it: as many cells as there are, from the first. *)
Clamped(cells, q, n, from, count) ==
  /\ from \in 0..(cells - 1) /\ count \in 1..cells /\ from + count <= cells
  /\ from <= q /\ (q <= cells - 1 => from = q) /\ (from < cells - 1 => from = q)
  /\ count = 1 \/ count <= n
  /\ \A d \in Nat : d <= n - 1 /\ from + d <= cells - 1 => d <= count - 1

LEMMA AxisClamped ==
  ASSUME NEW cells \in 1..127, NEW q \in Nat, NEW n \in Nat
  PROVE Clamped(cells, q, n, Geometry!ClampFrom(q, cells), Geometry!ClampCount(q, n, cells))
<1> DEFINE from == Geometry!ClampFrom(q, cells)
           count == Geometry!ClampCount(q, n, cells)
<1> HIDE DEF from, count
<1>1. from = IF q < cells - 1 THEN q ELSE cells - 1  BY DEF from, Geometry!ClampFrom, Geometry!Least
<1>2. from \in 0..(cells - 1) /\ from <= q /\ (q <= cells - 1 => from = q) /\ (from < cells - 1 => from = q)
  BY <1>1
<1>3. PICK m \in Nat : m = Geometry!Most(n, 1) /\ m >= 1 /\ m >= n /\ (m = 1 \/ m = n)
  BY DEF Geometry!Most
<1>4. PICK k \in Nat : k = Geometry!Least(m, cells) /\ k >= 1 /\ k <= cells /\ k <= m /\ (k = m \/ k = cells)
  BY <1>3 DEF Geometry!Least
<1>5. count = IF k < cells - from THEN k ELSE cells - from
  BY <1>3, <1>4 DEF count, from, Geometry!ClampCount, Geometry!Least
<1>6. count \in 1..cells /\ from + count <= cells /\ count <= k
  BY <1>2, <1>4, <1>5
<1>7. count = 1 \/ count <= n  BY <1>3, <1>4, <1>6
<1>8. ASSUME NEW d \in Nat, d <= n - 1, from + d <= cells - 1 PROVE d <= count - 1
  <2>1. d <= k - 1  BY <1>2, <1>3, <1>4, <1>8
  <2> QED  BY <1>2, <1>4, <1>5, <1>8, <2>1
<1>9. Clamped(cells, q, n, from, count)  BY <1>2, <1>6, <1>7, <1>8 DEF Clamped
<1> QED  BY <1>9 DEF from, count

InCell(from, cell, q) == cell * q <= from /\ from < cell * q + cell
Framed(from, width, cell, cells, size, first, count) ==
  /\ Geometry!Covered(from, width, cell, cells) \subseteq first..(first + count - 1)
  /\ first..(first + count - 1) \subseteq Geometry!Touched(from, width, cell, cells, size)

LEMMA AxisFramed ==
  ASSUME NEW cells \in 1..127, NEW size \in Nat, NEW from \in Nat, NEW width \in Nat,
         NEW w \in Nat \ {0}, w = Geometry!Most(width, 1), from + w <= size,
         NEW cell \in Nat \ {0}, NEW q \in Nat, NEW e \in Nat,
         InCell(from, cell, q), InCell(from + w, cell, e), q <= e,
         NEW n \in Nat, n = (e - q) + LastCell(from, w, cell, e),
         NEW first, NEW count, Clamped(cells, q, n, first, count)
  PROVE Framed(from, width, cell, cells, size, first, count)
<1>0. cell * q <= from /\ from < cell * q + cell /\ cell * e <= from + w /\ from + w < cell * e + cell
  BY DEF InCell
<1>1. /\ first \in 0..(cells - 1) /\ count \in 1..cells /\ first + count <= cells
      /\ first <= q /\ (q <= cells - 1 => first = q) /\ (first < cells - 1 => first = q)
      /\ count = 1 \/ count <= n
      /\ \A d \in Nat : d <= n - 1 /\ first + d <= cells - 1 => d <= count - 1
  BY DEF Clamped
<1>2. ASSUME NEW i \in first..(first + count - 1)
      PROVE i \in Geometry!Touched(from, width, cell, cells, size)
  <2>1. i \in 0..(cells - 1) /\ i \in Nat /\ first <= i /\ (i = first \/ (count <= n /\ i <= first + n - 1))
    BY <1>1
  <2>2. from < Geometry!CellEnd(i, cell, cells, size)
    <3>1. CASE i = cells - 1
      BY <3>1 DEF Geometry!CellEnd
    <3>2. CASE i # cells - 1
      <4>1. q <= i /\ i \in Int /\ q \in Int  BY <1>1, <2>1, <3>2
      <4>2. cell * q <= cell * i  BY <4>1, Product
      <4>3. (i + 1) * cell = cell * i + cell  BY <4>1, Product
      <4>4. from < cell * i + cell  BY <1>0, <2>1, <4>2
      <4> QED  BY <3>2, <4>3, <4>4 DEF Geometry!CellEnd
    <3> QED  BY <3>1, <3>2
  <2>3. i * cell < from + w
    <3>0. i * cell = cell * i  BY <2>1, Product
    <3>1. CASE i <= q
      <4>1. cell * i <= cell * q  BY <2>1, <3>1, Product
      <4> QED  BY <1>0, <2>1, <3>0, <4>1
    <3>2. CASE q < i /\ LastCell(from, w, cell, e) = 1
      <4>1. i <= e  BY <1>1, <2>1, <3>2
      <4>2. cell * i <= cell * e  BY <2>1, <4>1, Product
      <4>3. cell * e < from + w  BY <3>2 DEF LastCell
      <4> QED  BY <1>0, <2>1, <3>0, <4>2, <4>3
    <3>3. CASE q < i /\ LastCell(from, w, cell, e) = 0
      <4>1. i < e /\ i \in Int /\ e \in Int  BY <1>1, <2>1, <3>3
      <4>2. cell * i + cell <= cell * e  BY <4>1, Product
      <4> QED  BY <1>0, <2>1, <3>0, <4>2
    <3> QED  BY <2>1, <3>1, <3>2, <3>3 DEF LastCell
  <2> QED  BY <2>1, <2>2, <2>3 DEF Geometry!Touched
<1>3. ASSUME NEW i \in Geometry!Covered(from, width, cell, cells)
      PROVE i \in first..(first + count - 1)
  <2>1. i \in 0..(cells - 1) /\ i \in Nat  BY DEF Geometry!Covered
  <2>2. (i + 1) * cell = cell * i + cell /\ i * cell = cell * i /\ cell * i \in Nat
    BY <2>1, Product
  <2>3. PICK lo, hi \in Nat : /\ lo = Geometry!Most(from, i * cell) /\ hi = Geometry!Least(from + width, (i + 1) * cell)
                              /\ lo >= from /\ lo >= cell * i /\ hi <= from + width /\ hi <= cell * i + cell
    <3>1. Geometry!Most(from, i * cell) \in Nat /\ Geometry!Most(from, i * cell) >= from
          /\ Geometry!Most(from, i * cell) >= cell * i
      BY <2>2 DEF Geometry!Most
    <3>2. Geometry!Least(from + width, (i + 1) * cell) \in Nat
          /\ Geometry!Least(from + width, (i + 1) * cell) <= from + width
          /\ Geometry!Least(from + width, (i + 1) * cell) <= cell * i + cell
      BY <2>2 DEF Geometry!Least
    <3> QED  BY <3>1, <3>2
  <2>4. 2 * (hi - lo) > cell  BY <2>3 DEF Geometry!Covered
  <2>5. lo < hi /\ hi - lo <= width  BY <2>3, <2>4
  <2>6. w = width /\ 2 * w > cell
    <3>1. width >= 1  BY <2>5
    <3>2. w = width  BY <3>1 DEF Geometry!Most
    <3> QED  BY <2>4, <2>5, <3>2
  <2>7. from < cell * i + cell /\ cell * i < from + w  BY <2>2, <2>3, <2>5, <2>6
  <2>8. q <= i  BY <1>0, <2>1, <2>7, CellsInOrder
  <2>9. i <= e
    <3>1. cell * i <= from + w /\ from + w \in Nat  BY <2>2, <2>7
    <3> QED  BY <1>0, <2>1, <3>1, CellsInOrder
  <2>10. i - q <= n - 1
    <3>1. CASE i = e
      <4>1. LastCell(from, w, cell, e) = 1  BY <2>6, <2>7, <3>1 DEF LastCell
      <4> QED  BY <2>1, <3>1, <4>1
    <3>2. CASE i < e
      <4>1. LastCell(from, w, cell, e) \in Nat  BY DEF LastCell
      <4> QED  BY <2>1, <3>2, <4>1
    <3> QED  BY <2>1, <2>9, <3>1, <3>2
  <2>11. first = q /\ i - q \in Nat /\ first + (i - q) <= cells - 1  BY <1>1, <2>1, <2>8
  <2>12. i - q <= count - 1  BY <1>1, <2>10, <2>11
  <2> QED  BY <1>1, <2>1, <2>8, <2>11, <2>12
<1> QED  BY <1>2, <1>3 DEF Framed

(* The object is in the picture wherever it moves. *)
InPicture == /\ object \in [left : Nat, top : Nat, width : Nat, height : Nat]
             /\ object.left + Geometry!Most(object.width, 1) <= Picture.width
             /\ object.top + Geometry!Most(object.height, 1) <= Picture.height

LEMMA MostOne == ASSUME NEW n \in Nat PROVE Geometry!Most(n, 1) \in Nat \ {0} /\ Geometry!Most(n, 1) >= n
BY DEF Geometry!Most

LEMMA PictureIs == ASSUME Geometry!PictureAssumption
  PROVE /\ Picture.width \in Nat /\ Picture.height \in Nat /\ COLS \in 1..127 /\ ROWS \in 1..127
        /\ Picture.width >= COLS /\ Picture.height >= ROWS
BY GridAssumption DEF Geometry!PictureAssumption

LEMMA PictureInit == ASSUME Geometry!PictureAssumption, Geometry!Init PROVE InPicture
<1>1. PICK w \in 0..Picture.width, h \in 0..Picture.height :
        object = [left |-> 0, top |-> 0, width |-> w, height |-> h]
  BY DEF Geometry!Init
<1>2. w \in Nat /\ h \in Nat /\ Picture.width >= 1 /\ Picture.height >= 1 /\ w <= Picture.width /\ h <= Picture.height
  BY PictureIs
<1>3. Geometry!Most(w, 1) <= Picture.width /\ Geometry!Most(h, 1) <= Picture.height
  BY <1>2 DEF Geometry!Most
<1> QED  BY <1>1, <1>2, <1>3, PictureIs, MostOne DEF InPicture

LEMMA PictureStep == ASSUME Geometry!PictureAssumption, InPicture, [Geometry!Next]_object PROVE InPicture'
<1>1. /\ object.left \in Nat /\ object.top \in Nat /\ object.width \in Nat /\ object.height \in Nat
      /\ Geometry!Most(object.width, 1) \in Nat \ {0} /\ Geometry!Most(object.height, 1) \in Nat \ {0}
      /\ Picture.width \in Nat /\ Picture.height \in Nat
      /\ object = [left |-> object.left, top |-> object.top, width |-> object.width, height |-> object.height]
  BY PictureIs, MostOne DEF InPicture
<1>2. CASE Geometry!MoveRight
  <2>1. object' = [left |-> object.left + 1, top |-> object.top, width |-> object.width, height |-> object.height]
    BY <1>1, <1>2 DEF Geometry!MoveRight
  <2>2. (object.left + 1) + Geometry!Most(object.width, 1) <= Picture.width
    BY <1>1, <1>2 DEF Geometry!MoveRight
  <2> QED  BY <1>1, <2>1, <2>2 DEF InPicture, Geometry!Most
<1>3. CASE Geometry!MoveDown
  <2>1. object' = [left |-> object.left, top |-> object.top + 1, width |-> object.width, height |-> object.height]
    BY <1>1, <1>3 DEF Geometry!MoveDown
  <2>2. (object.top + 1) + Geometry!Most(object.height, 1) <= Picture.height
    BY <1>1, <1>3 DEF Geometry!MoveDown
  <2> QED  BY <1>1, <2>1, <2>2 DEF InPicture, Geometry!Most
<1>4. CASE object' = object
  BY <1>4 DEF InPicture, Geometry!Most
<1> QED  BY <1>2, <1>3, <1>4 DEF Geometry!Next

(* One axis of the rectangle shown. *)
Shown(cells, size, from, width, cell, first, count) ==
  /\ first = Geometry!ClampFrom(Geometry!First(from, cell), cells)
  /\ count = Geometry!ClampCount(Geometry!First(from, cell), Geometry!Count(from, width, cell), cells)
Inside(cells, first, count) ==
  first \in 0..(cells - 1) /\ count \in 1..cells /\ first + count <= cells

LEMMA AxisShown ==
  ASSUME NEW cells \in 1..127, NEW size \in Nat, size >= cells,
         NEW from \in Nat, NEW width \in Nat, from + Geometry!Most(width, 1) <= size,
         NEW first, NEW count, Shown(cells, size, from, width, size \div cells, first, count)
  PROVE Framed(from, width, size \div cells, cells, size, first, count) /\ Inside(cells, first, count)
<1>0. cells \in Nat \ {0}  OBVIOUS
<1>1. PICK w \in Nat \ {0} : w = Geometry!Most(width, 1)  BY MostOne
<1>2. PICK cell \in Nat : cell = size \div cells  BY <1>0, Divided
<1>3. from + w <= size  BY <1>1
<1>4. cell >= 1
  <2>1. size < cells * cell + cells  BY <1>0, <1>2, Divided
  <2> SUFFICES ASSUME cell = 0 PROVE FALSE
    BY <1>2
  <2>2. cells * cell = 0  BY <1>0
  <2> QED  BY <1>0, <2>1, <2>2
<1>5. cell \in Nat \ {0} /\ from + w \in Nat  BY <1>4
<1>6. PICK q \in Nat, e \in Nat : q = from \div cell /\ e = (from + w) \div cell  BY <1>5, Divided
<1>7. InCell(from, cell, q) /\ InCell(from + w, cell, e) /\ q <= e
  BY Zenon, <1>2, <1>3, <1>6, AxisCells DEF InCell
<1>8. BytesAre(from, width, w, cell, q, e)
  <2>1. AxisIs(cells, size, from, width, w, cell, q, e)
    BY Zenon, <1>1, <1>2, <1>3, <1>6 DEF AxisIs
  <2> QED  BY Zenon, <2>1, AxisBytes
<1>9. PICK n \in Nat : n = (e - q) + LastCell(from, w, cell, e)
  <2>1. LastCell(from, w, cell, e) \in Nat  BY DEF LastCell
  <2>2. e - q \in Nat  BY <1>7
  <2> QED  BY <2>1, <2>2
<1>10. first = Geometry!ClampFrom(q, cells) /\ count = Geometry!ClampCount(q, n, cells)
  BY Zenon, <1>2, <1>8, <1>9 DEF Shown, BytesAre
<1>11. Clamped(cells, q, n, first, count)
  <2>1. Clamped(cells, q, n, Geometry!ClampFrom(q, cells), Geometry!ClampCount(q, n, cells))
    BY AxisClamped
  <2> QED  BY Zenon, <1>10, <2>1
<1>12. Framed(from, width, cell, cells, size, first, count)
  BY Zenon, <1>1, <1>3, <1>5, <1>7, <1>9, <1>11, AxisFramed
<1>13. Inside(cells, first, count)  BY Zenon, <1>11 DEF Clamped, Inside
<1> QED  BY Zenon, <1>2, <1>12, <1>13

LEMMA BoxShown ==
  ASSUME Geometry!PictureAssumption, InPicture
  PROVE /\ Shown(COLS, Picture.width, object.left, object.width, Picture.width \div COLS, Geometry!Box.x, Geometry!Box.w)
        /\ Shown(ROWS, Picture.height, object.top, object.height, Picture.height \div ROWS, Geometry!Box.y, Geometry!Box.h)
<1>1. Picture.width \in Nat /\ Picture.height \in Nat /\ Picture.width >= 1 /\ Picture.height >= 1
  BY PictureIs
<1>2. Geometry!Most(Picture.width, 1) = Picture.width /\ Geometry!Most(Picture.height, 1) = Picture.height
  BY <1>1 DEF Geometry!Most
<1> QED  BY <1>2 DEF Shown, Geometry!Box, Geometry!Clamp, Geometry!Normalize

LEMMA ShownInside ==
  ASSUME Geometry!PictureAssumption, InPicture
  PROVE /\ Framed(object.left, object.width, Picture.width \div COLS, COLS, Picture.width, Geometry!Box.x, Geometry!Box.w)
        /\ Framed(object.top, object.height, Picture.height \div ROWS, ROWS, Picture.height, Geometry!Box.y, Geometry!Box.h)
        /\ Inside(COLS, Geometry!Box.x, Geometry!Box.w) /\ Inside(ROWS, Geometry!Box.y, Geometry!Box.h)
<1>1. /\ object.left \in Nat /\ object.width \in Nat /\ object.left + Geometry!Most(object.width, 1) <= Picture.width
      /\ object.top \in Nat /\ object.height \in Nat /\ object.top + Geometry!Most(object.height, 1) <= Picture.height
  BY DEF InPicture
<1> QED  BY Zenon, <1>1, PictureIs, BoxShown, AxisShown

(* A cell of the screen has a position of its own among those of screen[]. *)
LEMMA PositionOf ==
  ASSUME NEW column \in 0..(COLS - 1), NEW line \in 0..(ROWS - 1)
  PROVE line * COLS + column \in 0..(COLS * ROWS - 1)
<1>1. COLS \in Nat /\ ROWS \in Nat /\ COLS >= 1 /\ ROWS >= 1 /\ column \in Nat /\ line \in Nat /\ line + 1 <= ROWS
  BY GridAssumption
<1>2. COLS * line + COLS <= COLS * ROWS /\ line * COLS = COLS * line /\ COLS * ROWS \in Int
      /\ COLS * 0 <= COLS * line /\ COLS * line \in Int
  <2>1. line \in Int /\ ROWS \in Int /\ line < ROWS /\ 0 <= line  BY <1>1
  <2> QED  BY <1>1, <2>1, Product
<1>3. COLS * 0 = 0  BY <1>1
<1> QED  BY <1>1, <1>2, <1>3

LEMMA BorderDrawn == ASSUME Inside(COLS, Geometry!Box.x, Geometry!Box.w), Inside(ROWS, Geometry!Box.y, Geometry!Box.h)
                     PROVE Geometry!OutlineIsBorder
<1> DEFINE x == Geometry!Box.x
           w == Geometry!Box.w
           y == Geometry!Box.y
           h == Geometry!Box.h
<1>0. x = Geometry!Box.x /\ w = Geometry!Box.w /\ y = Geometry!Box.y /\ h = Geometry!Box.h
  OBVIOUS
<1> HIDE DEF x, w, y, h
<1>1. /\ x \in Nat /\ w \in Nat /\ y \in Nat /\ h \in Nat
      /\ w >= 1 /\ h >= 1 /\ x + w <= COLS /\ y + h <= ROWS
  BY <1>0, GridAssumption DEF Inside
<1> DEFINE Border(column, line) == column \in {x, x + w - 1} \/ line \in {y, y + h - 1}
           OnBorder(p) == \E dx \in 0..(w - 1), dy \in 0..(h - 1) :
                            /\ (dx = 0 \/ dx = w - 1) \/ (dy = 0 \/ dy = h - 1)
                            /\ p = (y + dy) * COLS + x + dx
<1>2. Geometry!Most(w, 1) = w /\ Geometry!Most(h, 1) = h  BY <1>1 DEF Geometry!Most
<1>3. Geometry!Outline(Geometry!Box) = {p \in 0..(COLS * ROWS - 1) : OnBorder(p)}
  BY Zenon, <1>0, <1>2 DEF Geometry!Outline, Geometry!Along, Geometry!Edge
<1>4. ASSUME NEW p, OnBorder(p)
      PROVE \E column \in x..(x + w - 1), line \in y..(y + h - 1) :
              Border(column, line) /\ p = line * COLS + column
  <2>1. PICK dx \in 0..(w - 1), dy \in 0..(h - 1) :
             /\ (dx = 0 \/ dx = w - 1) \/ (dy = 0 \/ dy = h - 1)
             /\ p = (y + dy) * COLS + x + dx
    BY Zenon, <1>4
  <2>2. PICK column \in x..(x + w - 1) : column = x + dx  BY <1>1
  <2>3. PICK line \in y..(y + h - 1) : line = y + dy  BY <1>1
  <2>4. Border(column, line)  BY <1>1, <2>1, <2>2, <2>3
  <2>5. p = line * COLS + column
    <3>1. p = line * COLS + x + dx  BY Zenon, <2>1, <2>3
    <3>2. line * COLS \in Int /\ x \in Int /\ dx \in Int
      BY GridAssumption, <1>1, <2>3
    <3> QED  BY <2>2, <3>1, <3>2
  <2> QED  BY Zenon, <2>4, <2>5
<1>5. ASSUME NEW column \in x..(x + w - 1), NEW line \in y..(y + h - 1), Border(column, line)
      PROVE OnBorder(line * COLS + column) /\ line * COLS + column \in 0..(COLS * ROWS - 1)
  <2>1. PICK dx \in 0..(w - 1) : column = x + dx /\ dx = column - x
    <3>1. column - x \in 0..(w - 1) /\ column = x + (column - x)  BY <1>1
    <3> QED  BY <3>1
  <2>2. PICK dy \in 0..(h - 1) : line = y + dy /\ dy = line - y
    <3>1. line - y \in 0..(h - 1) /\ line = y + (line - y)  BY <1>1
    <3> QED  BY <3>1
  <2>3. (dx = 0 \/ dx = w - 1) \/ (dy = 0 \/ dy = h - 1)  BY <1>1, <1>5, <2>1, <2>2
  <2>4. line * COLS + column = (y + dy) * COLS + x + dx
    <3>1. line * COLS \in Int /\ x \in Int /\ dx \in Int
      BY GridAssumption, <1>1, <2>2
    <3>2. line * COLS + column = line * COLS + x + dx  BY <2>1, <3>1
    <3> QED  BY Zenon, <2>2, <3>2
  <2>5. OnBorder(line * COLS + column)  BY Zenon, <2>3, <2>4
  <2>6. column \in 0..(COLS - 1) /\ line \in 0..(ROWS - 1)  BY GridAssumption, <1>1
  <2> QED  BY Zenon, <2>5, <2>6, PositionOf
<1>6. /\ \A p \in Geometry!Outline(Geometry!Box) : \E column \in x..(x + w - 1), line \in y..(y + h - 1) :
           Border(column, line) /\ p = line * COLS + column
      /\ \A column \in x..(x + w - 1), line \in y..(y + h - 1) :
           Border(column, line) => line * COLS + column \in Geometry!Outline(Geometry!Box)
  <2> HIDE DEF Border, OnBorder
  <2> QED  BY Zenon, <1>3, <1>4, <1>5
<1> QED  BY Zenon, <1>6 DEF x, w, y, h, Geometry!OutlineIsBorder

LEMMA FramedHere == ASSUME Geometry!PictureAssumption, InPicture PROVE Geometry!ObjectFramed
<1>1. Geometry!CellsFramed  BY Zenon, ShownInside DEF Geometry!CellsFramed, Framed
<1>2. Geometry!OutlineIsBorder  BY Zenon, ShownInside, BorderDrawn
<1> QED  BY <1>1, <1>2 DEF Geometry!ObjectFramed

(* The rectangle of cells shown for an object holds every cell the object covers by more than
   a half and no cell it does not touch, and its outline on the screen is that rectangle's
   border (normalize_rect_px_center, the clamping of serialMAVCheck, displayCustom), for
   every picture with a pixel a cell or more and every screen of up to 127 x 127 cells. *)
THEOREM ShownAsFramed ==
  ASSUME Geometry!PictureAssumption
  PROVE Geometry!Spec => []ObjectFramed
<1>1. Geometry!Init => InPicture  BY PictureInit
<1>2. InPicture /\ [Geometry!Next]_object => InPicture'  BY PictureStep
<1>3. InPicture => ObjectFramed  BY FramedHere DEF ObjectFramed
<1> QED  BY <1>1, <1>2, <1>3, PTL DEF Geometry!Spec
=============================================================================
