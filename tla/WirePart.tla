------------------------------- MODULE WirePart -------------------------------
(* The part of the layout of messages: what comes along the line, and the OSD's buffer. *)
EXTENDS Part

CONSTANTS WireMessages, WireBuffer
VARIABLES serialBuffer, received, handled

Wire == INSTANCE MavWire WITH Sent <- WireMessages, SERIALBUFFERSIZE <- WireBuffer

(* What the senders pack passes the tests of the OSD, and a handler reads whole fields of
   its own message (GlobalVariables.h:971-1054, SerialMAVLINK.ino:165-685). *)
MessagesRead ==
  part = "wire" => Wire!EveryKindHandled /\ Wire!ReadsOwnMessage /\ Wire!ReadsWholeFields
================================================================================
