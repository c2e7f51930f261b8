------------------------------- MODULE ConfigPart ------------------------------
(* The part of the host's configuration: the parser of the file. *)
EXTENDS Part

CONSTANTS Columns,                        \* COLS of the screen
          Files, Known, Garbage,
          NoNumber, NoText                \* a word, and an empty value
VARIABLES file, curNode, prop, column, visible, sent

Parser == INSTANCE ConfigFile WITH COLS <- Columns, Word <- NoNumber, Empty <- NoText,
                               x <- column, flag <- visible

(* An element with all its attributes in order is placed as it says, whatever the others
   have (States.cpp:11-150). *)
CompletePlaced == part = "config" => Parser!CompletePlaced

(* A file without an empty value is parsed to its end (States.cpp:23-145). *)
ParsedToTheEnd == part = "config" /\ Parser!NoEmpty ~> part = "config" /\ Parser!Ended
================================================================================
