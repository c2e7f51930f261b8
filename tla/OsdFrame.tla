------------------------------ MODULE OsdFrame ------------------------------
(***************************************************************************)
(* What the display path of the OSD firmware promises: a frame is composed *)
(* off screen, and every redraw replaces the WHOLE picture by that frame.  *)
(* Nothing of an older frame survives a redraw, although the firmware only *)
(* transfers the cells that changed (MAX7456_DrawScreen).                  *)
(***************************************************************************)
CONSTANTS Cells,   \* cells of the character grid
          Glyphs,  \* symbols of the font
          Blank,   \* the empty cell
          Areas    \* sets of cells a redraw may cover (one per video standard)

VARIABLES shown,   \* what the viewer sees
          pending  \* the frame under composition

vars == <<shown, pending>>

Picture == [Cells -> Glyphs \cup {Blank}]
NoPicture == [c \in Cells |-> Blank]

Init == shown = NoPicture /\ pending = NoPicture

(* Symbols are added to, or wiped from, the frame being composed. *)
Compose == pending' \in Picture /\ UNCHANGED shown

(* A redraw: the screen becomes the composed frame, and a new one starts. *)
Show(area) == /\ shown' = [c \in Cells |-> IF c \in area THEN pending[c] ELSE Blank]
              /\ pending' = NoPicture

(* The chip, or the whole firmware, is reset. *)
Restart == shown' = NoPicture /\ pending' \in {pending, NoPicture}

Next == Compose \/ (\E area \in Areas : Show(area)) \/ Restart

Spec == Init /\ [][Next]_vars
=============================================================================
