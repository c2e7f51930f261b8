------------------------------- MODULE FlightPart ------------------------------
(* The part of the flight: whether the aircraft is armed, and its home. *)
EXTENDS Part

CONSTANTS GLITCHES, MINSATFIX, Satellites, Places, MaxLog
VARIABLES armed, armedglitchprotect, GPS_home, GPS_distanceToHome, log

Flight == INSTANCE FlightState

(* The aircraft is taken for armed while no more than two heartbeats in a row lacked the bit
   (SerialMAVLINK.ino:382-417). *)
ArmedAsReported == part = "flight" => Flight!ArmedAsReported

(* Home is where the first fix of the armed aircraft was, and the distance that of the last
   fix of this flight (SerialMAVLINK.ino:517-550 and 649-685). *)
HomeAndDistance == part = "flight" => Flight!HomeAndDistance
================================================================================
