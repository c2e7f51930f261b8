------------------------------- MODULE FieldsPart ------------------------------
(* The part of the display functions: the fields on the code's screen, and the message line
   on a screen of any size. *)
EXTENDS Part

CONSTANTS FieldPlaces, Altitudes, Speeds, Voltages, Angles,
          TextColumns, TextRows, TextPlaces, Texts
VARIABLES field, at, value, localData, writes

Fields == INSTANCE DisplayFields WITH LINE <- 30, ROWS <- 16, Positions <- FieldPlaces, Texts <- {}
Text == INSTANCE DisplayFields
          WITH LINE <- TextColumns, ROWS <- TextRows, Positions <- TextPlaces,
               Altitudes <- {}, Speeds <- {}, Voltages <- {}, Angles <- {}

(* A reader of the screen gets every number, with its sign (Screen.ino:296-341, 797-870 and
   1526-1575). *)
NumbersRead == part = "fields" => Fields!NumbersRead

(* A text is laid out as paragraphs, character by character, and is whole when it has no more
   rows than the picture (Screen.ino:206-240). *)
MessageLaidOut == part = "message" => Text!MessageLaidOut /\ Text!MessageWhole
================================================================================
