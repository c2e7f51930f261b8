----------------------------- MODULE MCLifecycle ----------------------------
(* One rectangle, a lossless line, and every way the host may end and start again. *)
EXTENDS OverlayLink

Object(left, top, width, height) == [left |-> left, top |-> top, width |-> width, height |-> height]
MCCameras == {[width |-> 6, height |-> 4], [width |-> 12, height |-> 8]}
MCFrames == {Object(2, 0, 4, 3)}
=============================================================================
