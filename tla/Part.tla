---------------------------------- MODULE Part ---------------------------------
(* Components that share no state are checked one by one: a behaviour is about one of them, *)
(* its part, and the variables of the others stay as they are.                              *)
VARIABLE part
================================================================================
