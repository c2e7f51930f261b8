------------------------------ MODULE MCLayout ------------------------------
(* Two fields, of which the configuration file places one.                                *)
EXTENDS ScreenLayout

Place(x, y, visibility) == [x |-> x, y |-> y, visibility |-> visibility]
MCOrder == <<1>>
MCDefault == [f \in {0, 1} |-> IF f = 0 THEN 60 + Always ELSE 450]

(* The rows the OSD may move by one, others, the edges of the screen and just beyond; and two
   starts of the host: every place replaces every other one, and one that a power failure
   has torn. *)
SomePlaces == {Place(1, 5, 1), Place(0, 6, 1), Place(1, 9, 1), Place(0, 10, 1), Place(COLS - 1, 2, 1),
               Place(COLS - 1, ROWS - 1, 1), Place(COLS - 1, ROWS, 1), Place(2, 14, 0)}
=============================================================================
