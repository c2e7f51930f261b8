------------------------------- MODULE MCLink -------------------------------
(* A 3 x 2 character screen, a camera picture with 2 x 2 pixels a cell and one pixel left *)
(* over at two sides, two rectangles.                                                     *)
EXTENDS OverlayLink

Object(left, top, width, height) == [left |-> left, top |-> top, width |-> width, height |-> height]
MCCameras == {[width |-> 7, height |-> 5]}
(* An object that leaves the character screen at the right, and one in the corner that
   takes no whole cell: its rectangle is the zero rectangle. *)
MCFrames == {Object(4, 0, 3, 5), Object(0, 0, 1, 1)}
=============================================================================
