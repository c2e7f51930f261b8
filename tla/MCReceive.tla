------------------------------ MODULE MCReceive -----------------------------
(* Bytes of five values, of which 3 starts a frame and 4 is the length of the text     *)
(* message: texts of two bytes, two short messages, start bytes in their contents.     *)
EXTENDS MavReceive

MCNamed == {<<3, 1>>, <<0, 2>>}
MCWipes == {<<0, 2>>}
MCTexts == {<<1, 1>>, <<3, 2>>}
=============================================================================
