----------------------------- MODULE OsdOverlay -----------------------------
(* The part of the OSD's state the host's overlay messages control: the rectangles, the   *)
(* control mode and the aim status (serialMAVCheck in SerialMAVLINK.ino), and what of it  *)
(* displayCustom draws (CUSTOM.ino).                                                      *)
EXTENDS RectGeometry

CONSTANTS NumRects,   \* NUM_CUSTOM_RECTS
          MaxTime     \* bound of the clock

ASSUME OverlayAssumption == NumRects \in 1..10 /\ MaxTime \in Nat \ {0}

VARIABLES rects,        \* customRects with lastMsgTime
          controlMode,  \* control_mode
          aimStatus,    \* aim_status
          now           \* millis(), in units of SQUARE_CLEAR_TIMEOUT

osdVars == <<rects, controlMode, aimStatus, now>>

RectIndex == 0..(NumRects - 1)
Modes == 0..2
NoRect == [type |-> "n", box |-> Zero, line |-> 0, time |-> 0]
Boxes == [x : 0..(COLS - 1), y : 0..(ROWS - 1), w : 0..COLS, h : 0..ROWS]
Rects == [type : {"n", "t", "d"}, box : Boxes, line : {0, 1}, time : 0..MaxTime]

(* static initial values; the clock starts above zero, since setup takes a second. *)
OsdInit == /\ rects = [i \in RectIndex |-> NoRect]
           /\ controlMode = 2 /\ aimStatus = 0 /\ now = 1

(* resetFunc, or power: the firmware starts again from its initial values. *)
OsdReset == /\ rects' = [i \in RectIndex |-> NoRect]
            /\ controlMode' = 2 /\ aimStatus' = 0 /\ now' = 1

-----------------------------------------------------------------------------
(* setCustomRectAtomic and clearCustomRectAtomic ignore an index out of range. *)
Set(i, rect) == rects' = [rects EXCEPT ![i] = rect]
Digit(c) == (c - 48) % 256      \* uint8_t(name[1] - '0')

HandleClear(m) ==
  /\ rects' = IF m.c = 65 THEN [i \in RectIndex |-> NoRect]
              ELSE IF m.c # 83 /\ Digit(m.c) \in RectIndex
                   THEN [rects EXCEPT ![Digit(m.c)] = NoRect]
                   ELSE rects
  /\ UNCHANGED <<controlMode, aimStatus, now>>

HandleTracker(m) ==
  /\ controlMode' = 0 /\ aimStatus' = 0
  /\ Set(0, [type |-> "t", box |-> Clamp(m.r), line |-> 1, time |-> now])
  /\ UNCHANGED now

HandleDetector(m) ==
  /\ controlMode' = 1 /\ aimStatus' = 0
  /\ IF m.c - 48 \in RectIndex
     THEN Set(m.c - 48, [type |-> "d", box |-> Clamp(m.r), line |-> 0, time |-> now])
     ELSE UNCHANGED rects
  /\ UNCHANGED now

HandleStatus(m) ==
  /\ aimStatus' = IF m.c - 48 \in Modes THEN m.c - 48 ELSE aimStatus
  /\ UNCHANGED <<rects, controlMode, now>>

HandleControl(m) ==
  /\ controlMode' = IF m.c - 48 \in Modes THEN m.c - 48 ELSE controlMode
  /\ UNCHANGED <<rects, aimStatus, now>>

(* Any other name, 'A' among them, falls through to the heartbeat handler. *)
HandleOther == UNCHANGED osdVars

Handle(m) == \/ m.k = "C" /\ HandleClear(m)
             \/ m.k = "T" /\ HandleTracker(m)
             \/ m.k = "D" /\ HandleDetector(m)
             \/ m.k = "S" /\ HandleStatus(m)
             \/ m.k = "O" /\ HandleControl(m)
             \/ m.k = "R" /\ OsdReset
             \/ m.k \notin {"C", "T", "D", "S", "O", "R"} /\ HandleOther

TickOsd == now < MaxTime /\ now' = now + 1 /\ UNCHANGED <<rects, controlMode, aimStatus>>

-----------------------------------------------------------------------------
(* displayCustom draws the rectangles in use that were ever set. *)
Drawn(i) == rects[i].type # "n" /\ rects[i].time # 0
OverlayCells == UNION {Outline(rects[i].box) : i \in {j \in RectIndex : Drawn(j)}}

OsdTypeOK == /\ rects \in [RectIndex -> Rects]
             /\ controlMode \in Modes /\ aimStatus \in Modes /\ now \in 1..MaxTime
=============================================================================
