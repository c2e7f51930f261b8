--------------------------------- MODULE MCOsd --------------------------------
(***************************************************************************)
(* The components around the OSD's screen that are checked one by one: the *)
(* geometry of a rectangle, the fields and the message line, the layout of *)
(* messages, the flight's state and the host's configuration file.  They   *)
(* share no state, so that a behaviour is about one of Parts, and the      *)
(* variables of the others stay 0.                                         *)
(***************************************************************************)
EXTENDS GeometryPart, FieldsPart, WirePart, FlightPart, ConfigPart, Sequences, SequencesExt

CONSTANT Parts   \* subset of {"geometry", "fields", "message", "wire", "flight", "config"}

fieldVars == <<field, at, value, localData, writes>>
wireVars == <<serialBuffer, received, handled>>
flightVars == <<armed, armedglitchprotect, GPS_home, GPS_distanceToHome, log>>
configVars == <<file, curNode, prop, column, visible, sent>>
vars == <<part, object, fieldVars, wireVars, flightVars, configVars>>

-----------------------------------------------------------------------------
(* An object of every size in every place of a picture of 13 x 9 pixels on 3 x 2 cells: cells
   of 4 x 4 pixels, and one pixel left over at two sides. *)
SmallPicture == [width |-> 13, height |-> 9]

(* Fields at a corner and in the middle of the screen, with values around every power of ten. *)
SomeAltitudes ==
  {100 * n + d : n \in {-99, -10, -2, -1, 0, 9, 10, 99, 100, 999, 1000, 9999}, d \in {0, 1, 99}}
    \cup {-327690, -327689, 3276799, 3276800}
SomeSpeeds == {0, 27, 28, 277, 278, 1000, 2777, 2778, 27777, 27778, 32767}
SomeVoltages == 0..655
SomeAngles == -110..110 \cup {s * a : s \in {-1, 1}, a \in {899, 900, 989, 990, 999, 1000, 1001, 1799, 1800}}

(* Texts of up to seven characters in three rows of two: 14 ends the text, 15 is a line
   break; every three characters of any kind. *)
SomeTexts == UNION {[1..n -> {14, 15, 17}] : n \in 1..7} \cup [1..3 -> 14..18]
AllPlaces == INSTANCE DisplayFields
               WITH LINE <- 30, ROWS <- 16, Positions <- 0..479, Altitudes <- {}, Speeds <- {},
                    Voltages <- {0, 126}, Angles <- {-50, 0}, Texts <- {<<16, 14>>}

(* Every message either side knows. *)
Library == INSTANCE MavWire WITH Sent <- {}, SERIALBUFFERSIZE <- 65
AllMessages == Library!Names

(* Files of two elements: every choice and order of the attributes, each a number, a word or
   empty; the second element may be one the code does not know. *)
Orders == UNION {{s \in [1..n -> {"visibility", "positionX", "positionY"}] : IsInjective(s)} : n \in 0..3}
Valued(values) ==
  {[i \in DOMAIN o |-> [name |-> o[i], value |-> v[i]]] :
     <<o, v>> \in {p \in Orders \X UNION {[1..n -> values] : n \in 0..3} : Len(p[1]) = Len(p[2])}}
SomeFiles ==
  {<<[field |-> "Altitude", attributes |-> a], [field |-> second, attributes |-> b]>> :
     second \in {"Yaw", "Extra"}, a \in Valued({1, NoNumber, NoText}),
     b \in {attributes \in Valued({4, NoNumber}) : Len(attributes) # 2}}

ASSUME PartsAssumption ==
  /\ Geometry!PictureAssumption
  /\ Fields!FieldsAssumption /\ Text!FieldsAssumption /\ AllPlaces!FieldsAssumption
  /\ Wire!WireAssumption /\ Flight!FlightAssumption /\ Parser!FileAssumption

-----------------------------------------------------------------------------
Init ==
  /\ part \in Parts
  /\ IF part = "geometry" THEN Geometry!Init ELSE object = 0
  /\ IF part \in {"fields", "message", "places"} THEN Fields!Init
     ELSE field = 0 /\ at = 0 /\ value = 0 /\ localData = 0 /\ writes = 0
  /\ IF part = "wire" THEN Wire!Init ELSE serialBuffer = 0 /\ received = 0 /\ handled = 0
  /\ IF part = "flight" THEN Flight!Init
     ELSE armed = 0 /\ armedglitchprotect = 0 /\ GPS_home = 0 /\ GPS_distanceToHome = 0 /\ log = 0
  /\ IF part = "config" THEN Parser!Init
     ELSE file = 0 /\ curNode = 0 /\ prop = 0 /\ column = 0 /\ visible = 0 /\ sent = 0

GeometryStep == part = "geometry" /\ Geometry!Next
                /\ UNCHANGED <<part, fieldVars, wireVars, flightVars, configVars>>
FieldStep == /\ \/ part = "fields" /\ Fields!Next
                \/ part = "message" /\ Text!Next
                \/ part = "places" /\ AllPlaces!Next
             /\ UNCHANGED <<part, object, wireVars, flightVars, configVars>>
WireStep == part = "wire" /\ Wire!Next
            /\ UNCHANGED <<part, object, fieldVars, flightVars, configVars>>
FlightStep == part = "flight" /\ Flight!Next
              /\ UNCHANGED <<part, object, fieldVars, wireVars, configVars>>
ConfigStep == part = "config" /\ Parser!Next
              /\ UNCHANGED <<part, object, fieldVars, wireVars, flightVars>>
Next == GeometryStep \/ FieldStep \/ WireStep \/ FlightStep \/ ConfigStep

(* The parser is a loop of the main thread: it takes its next step. *)
Spec == Init /\ [][Next]_vars /\ WF_vars(ConfigStep)

-----------------------------------------------------------------------------
(* Properties that documents state and the code does not have. *)
FieldsInPicture == part = "places" => AllPlaces!FieldsInPicture
MessageAtColumn == part = "message" => Text!MessageAtColumn
Pressure2Handled == part = "wire" => Wire!Pressure2Handled
ThrottleRead == part = "wire" => Wire!ThrottleRead
PlacedByName == part = "config" => Parser!PlacedByName
ArmedFromHeartbeats ==
  [][part = "flight" /\ armed' # armed => log'[Len(log')].kind \in {"armed", "disarmed"}]_vars
=============================================================================
