----------------------------- MODULE ScreenLayout ----------------------------
(***************************************************************************)
(* Where the text fields stand.  At its start the host sends the positions *)
(* of gpuConfig.xml one by one (States.cpp) and resets the OSD; the OSD    *)
(* translates each to its own lines, keeps it in three layouts of its      *)
(* EEPROM and reads a layout again after a restart, a change of the video  *)
(* standard or of the layout switch, moving fields down on a PAL picture   *)
(* (MW_OSD.ino).  The EEPROM is written byte by byte, and power may fail   *)
(* between two bytes.                                                      *)
(***************************************************************************)
EXTENDS Integers, Sequences

CONSTANTS COLS, ROWS,    \* the character screen, 30 x 16 in the code; LINE is COLS
          POSITIONS_SETTINGS,  \* text fields of the layout, 59 in the code
          FieldOrder,    \* the fields of the configuration file, in its order
          Places,        \* elements of a configuration: [x, y, visibility]
          Default,       \* SCREENLAYOUT_DEFAULT
          MaxWire,       \* bound: messages under way
          MaxStarts      \* bound: starts of the host

Fields == 0..(POSITIONS_SETTINGS - 1)
Byte == 0..255
Word == 0..65535
Layouts == 0..2

ASSUME LayoutAssumption ==
  /\ COLS \in 1..30 /\ ROWS \in 14..16 /\ MaxWire \in Nat \ {0} /\ MaxStarts \in Nat
  /\ POSITIONS_SETTINGS \in 1..100 /\ FieldOrder \in Seq(Fields)
  /\ Places \subseteq [x : Byte, y : Byte, visibility : {0, 1}]
  /\ Default \in [Fields -> Word]

VARIABLES config,        \* the configuration file: a place for each field in it
          host,          \* "off", "parsing" or "started"
          at,            \* attributes of the file already parsed
          carry,         \* parseXmlNode's x, y and name_attr[3], kept between elements
          wire,          \* messages under way
          osd,           \* "check": checkEEPROM; "run": loop()
          eeprom,        \* its bytes, by address
          todo,          \* byte writes the code under way still has to make
          screenPosition, signaltype, screenlayout,
          resetFlag,     \* flags.reset
          camera,        \* the video input is PAL (1) or not (0)
          intact,        \* history: the host's messages were all taken in entirely
          torn,          \* history: a write to the EEPROM was cut short
          starts

vars == <<config, host, at, carry, wire, osd, eeprom, todo, screenPosition, signaltype,
          screenlayout, resetFlag, camera, intact, torn, starts>>
hostSide == <<config, host, at, carry, starts>>
memory == <<eeprom, todo>>
reading == <<screenPosition, signaltype, screenlayout, resetFlag>>

-----------------------------------------------------------------------------
(* EEPROM: the version, Settings[S_VIDEOSIGNALTYPE], the layouts' low and high bytes. *)
Version == <<"version">>
Standard == <<"standard">>
Cell(layout, f, part) == <<layout, f, part>>
Addresses == {Version, Standard} \cup {Cell(l, f, p) : l \in Layouts, f \in Fields, p \in {0, 1}}
EEPROMVER == 18
Erased == [a \in Addresses |-> 255]
Put(a, byte) == [a |-> a, byte |-> byte]
Half(value, part) == IF part = 0 THEN value % 256 ELSE value \div 256

(* setScreenPosition and checkEEPROM write low before high byte, layout after layout. *)
FieldWrites_FirstLayout(f, value) == [k \in 1..2 |-> Put(Cell(0, f, k - 1), Half(value, k - 1))]
FieldWrites(f, value) ==
  [k \in 1..6 |-> Put(Cell((k - 1) \div 2, f, (k - 1) % 2), Half(value, (k - 1) % 2))]

(* checkEEPROM: the version is the first byte written. *)
DefaultWrites ==
  LET bytes == 2 * POSITIONS_SETTINGS
  IN <<Put(Version, EEPROMVER), Put(Standard, 2)>> \o
     [k \in 1..(3 * bytes) |->
        LET f == ((k - 1) % bytes) \div 2
        IN Put(Cell((k - 1) \div bytes, f, (k - 1) % 2), Half(Default[f], (k - 1) % 2))]

Line(n) == (n - 1) * COLS      \* LINE01, LINE02, ...
Always == 49152                \* DISPLAY_ALWAYS
PosMask == 512                 \* POS_MASK + 1

(* A default that is shown stands in the first fourteen lines (GlobalVariables.h:604-664). *)
ASSUME DefaultAssumption ==
  \A f \in Fields : \/ Default[f] < PosMask
                    \/ Always <= Default[f] /\ Default[f] < Always + (ROWS - 2) * COLS

(* setScreenPosition: the sixteen lines of a position on fourteen lines of the layout. *)
Limited_Not(p) == p
Limited(p) == IF p >= ROWS * COLS THEN ROWS * COLS - 1 ELSE p
LineBase(row) == IF row <= 6 THEN Line(row)
                 ELSE IF row <= 9 THEN Line(row - 1)
                 ELSE Line(row - 2)
Encoded(p, flag) ==
  LET q == Limited(p)
  IN ((LineBase((q \div COLS) + 1) + (q % COLS)) % PosMask) + (IF flag = 49 THEN Always ELSE 0)

(* readEEPROM: on PAL, fields beyond LINE06 and LINE09 move down by a line each. *)
Shifted(value) == (value + (IF value % PosMask > Line(6) THEN COLS ELSE 0)
                         + (IF value % PosMask > Line(9) THEN COLS ELSE 0)) % 65536
ReadLayout(layout, signal) ==
  [f \in Fields |->
     LET value == eeprom[Cell(layout, f, 0)] + 256 * eeprom[Cell(layout, f, 1)]
     IN IF signal = 1 /\ eeprom[Standard] # 1 THEN Shifted(value) ELSE value]

getPosition(f) == screenPosition[f] % PosMask
fieldIsVisible(f) == screenPosition[f] \div 16384 = 3
-----------------------------------------------------------------------------
(* Host: parseXmlConfigFile, then Start's reset.  Attributes come in the order of the
   shipped file; positionY sends the place with what the attributes before it left. *)
Attributes == 3 * Len(FieldOrder)
Field(k) == FieldOrder[((k - 1) \div 3) + 1]
HasRoom == Len(wire) < MaxWire

HostStart == /\ starts < MaxStarts /\ starts' = starts + 1
             /\ config' \in [{FieldOrder[k] : k \in DOMAIN FieldOrder} -> Places]
             /\ host' = "parsing" /\ at' = 0 /\ carry' = [x |-> 0, flag |-> 0]
             /\ intact' = TRUE
             /\ UNCHANGED <<wire, osd, memory, reading, camera, torn>>

ParseVisibility == /\ host = "parsing" /\ at < Attributes /\ at % 3 = 0
                   /\ carry' = [carry EXCEPT !.flag = 48 + config[Field(at + 1)].visibility]
                   /\ at' = at + 1
                   /\ UNCHANGED <<config, host, wire, starts, osd, memory, reading, camera, intact, torn>>

ParseX == /\ host = "parsing" /\ at < Attributes /\ at % 3 = 1
          /\ carry' = [carry EXCEPT !.x = config[Field(at + 1)].x]
          /\ at' = at + 1
          /\ UNCHANGED <<config, host, wire, starts, osd, memory, reading, camera, intact, torn>>

convertCoords(x, y) == y * COLS + x
ParseY == /\ host = "parsing" /\ at < Attributes /\ at % 3 = 2 /\ HasRoom
          /\ LET f == Field(at + 1)
             IN wire' = Append(wire, [k |-> "P", f |-> f, flag |-> carry.flag,
                                      p |-> convertCoords(carry.x, config[f].y)])
          /\ at' = at + 1
          /\ UNCHANGED <<config, host, carry, starts, osd, memory, reading, camera, intact, torn>>

SendReset == /\ host = "parsing" /\ at = Attributes /\ HasRoom
             /\ wire' = Append(wire, [k |-> "R", f |-> 0, flag |-> 0, p |-> 0])
             /\ host' = "started"
             /\ UNCHANGED <<config, at, carry, starts, osd, memory, reading, camera, intact, torn>>

-----------------------------------------------------------------------------
(* OSD. *)
Running == osd = "run" /\ todo = <<>>

(* 'P': screenPosition and the three layouts in the EEPROM. *)
SetScreenPosition ==
  /\ Running /\ wire # <<>> /\ Head(wire).k = "P" /\ wire' = Tail(wire)
  /\ LET m == Head(wire)
     IN /\ screenPosition' = [screenPosition EXCEPT ![m.f] = Encoded(m.p, m.flag)]
        /\ todo' = FieldWrites(m.f, Encoded(m.p, m.flag))
  /\ UNCHANGED <<hostSide, osd, eeprom, signaltype, screenlayout, resetFlag, camera, intact, torn>>

(* 'R'. *)
ResetRequest == /\ Running /\ wire # <<>> /\ Head(wire).k = "R" /\ wire' = Tail(wire)
                /\ screenPosition' = ReadLayout(screenlayout, signaltype)
                /\ resetFlag' = TRUE
                /\ UNCHANGED <<hostSide, osd, memory, signaltype, screenlayout, camera, intact, torn>>

(* EEPROM.write. *)
WriteByte == /\ todo # <<>> /\ todo' = Tail(todo)
             /\ eeprom' = [eeprom EXCEPT ![Head(todo).a] = Head(todo).byte]
             /\ UNCHANGED <<hostSide, wire, osd, reading, camera, intact, torn>>

(* The firmware starts: checkEEPROM writes the defaults into an EEPROM without version. *)
Restarted == /\ osd' = "check" /\ resetFlag' = FALSE
             /\ todo' = IF eeprom[Version] = EEPROMVER THEN <<>> ELSE DefaultWrites
             /\ screenlayout' = 0 /\ signaltype' = 0
             /\ UNCHANGED <<hostSide, wire, eeprom, screenPosition, camera>>

(* loop(): resetFunc. *)
Reset == /\ Running /\ resetFlag /\ Restarted
         /\ UNCHANGED <<intact, torn>>

(* Power comes back after a failure. *)
PowerCut == /\ Restarted
            /\ intact' = (intact /\ (osd = "run" => todo = <<>>))
            /\ torn' = (torn \/ todo # <<>>)

(* setup: readEEPROM, MAX7456Setup, which reads it again with the standard detected. *)
Setup == /\ osd = "check" /\ todo = <<>> /\ osd' = "run"
         /\ signaltype' = camera /\ screenPosition' = ReadLayout(screenlayout, camera)
         /\ UNCHANGED <<hostSide, wire, memory, screenlayout, resetFlag, camera, intact, torn>>

(* MAX7456CheckStatus sets the chip up again. *)
SetupAgain == /\ Running /\ ~resetFlag
              /\ signaltype' = camera /\ screenPosition' = ReadLayout(screenlayout, camera)
              /\ UNCHANGED <<hostSide, wire, osd, memory, screenlayout, resetFlag, camera, intact, torn>>

(* loop(): the layout switch, a channel of RC_CHANNELS. *)
SwitchLayout == /\ Running /\ ~resetFlag
                /\ screenlayout' \in Layouts \ {screenlayout}
                /\ screenPosition' = ReadLayout(screenlayout', signaltype)
                /\ UNCHANGED <<hostSide, wire, osd, memory, signaltype, resetFlag, camera, intact, torn>>

(* A message is lost: a checksum error, or an OSD that starts. *)
Lose == /\ wire # <<>> /\ wire' = Tail(wire) /\ intact' = FALSE
        /\ UNCHANGED <<hostSide, osd, memory, reading, camera, torn>>

CameraChange == /\ camera' = 1 - camera
                /\ UNCHANGED <<hostSide, wire, osd, memory, reading, intact, torn>>

Init == /\ config = <<>> /\ host = "off" /\ at = 0 /\ carry = [x |-> 0, flag |-> 0]
        /\ wire = <<>> /\ starts = 0
        /\ osd = "check" /\ eeprom = Erased /\ todo = DefaultWrites
        /\ screenPosition = [f \in Fields |-> 0] /\ signaltype = 0 /\ screenlayout = 0
        /\ resetFlag = FALSE /\ camera \in {0, 1} /\ intact = FALSE /\ torn = FALSE

Next == \/ HostStart \/ ParseVisibility \/ ParseX \/ ParseY \/ SendReset
        \/ SetScreenPosition \/ ResetRequest \/ WriteByte \/ Reset \/ PowerCut \/ Setup
        \/ SetupAgain \/ SwitchLayout \/ Lose \/ CameraChange

Spec == Init /\ [][Next]_vars

-----------------------------------------------------------------------------
TypeOK == /\ host \in {"off", "parsing", "started"} /\ at \in 0..Attributes
          /\ carry \in [x : Byte, flag : {0, 48, 49}]
          /\ osd \in {"check", "run"}
          /\ wire \in Seq([k : {"P", "R"}, f : Fields, flag : {0, 48, 49}, p : Word])
          /\ eeprom \in [Addresses -> Byte]
          /\ todo \in Seq([a : Addresses, byte : Byte])
          /\ screenPosition \in [Fields -> Word]
          /\ signaltype \in {0, 1} /\ screenlayout \in Layouts /\ camera \in {0, 1}
          /\ resetFlag \in BOOLEAN /\ intact \in BOOLEAN /\ torn \in BOOLEAN

(* The OSD took in the host's whole configuration, the reset with it, and is not in the
   middle of a start; later power failures, resets, camera changes and layout switches
   are no exception. *)
Configured == host = "started" /\ wire = <<>> /\ intact /\ Running /\ ~resetFlag
Documented(place) == place.x < COLS /\ place.y < ROWS
Row(f) == getPosition(f) \div COLS
Column(f) == getPosition(f) % COLS

(* A configured field is shown if the file says so, in its column; on PAL in its row,
   except in rows 5, 6, 9 and 10, where it may stand one row away; on NTSC up to two rows
   higher (setScreenPosition and readEEPROM: MW_OSD.ino:740-791 and 692-704). *)
PlacedAsConfigured ==
  Configured => \A f \in DOMAIN config : Documented(config[f]) =>
    /\ fieldIsVisible(f) <=> config[f].visibility = 1
    /\ Column(f) = config[f].x
    /\ IF signaltype = 1
       THEN IF config[f].y \in {5, 6, 9, 10} THEN Row(f) - config[f].y \in {-1, 0, 1}
                                             ELSE Row(f) = config[f].y
       ELSE Row(f) \in (config[f].y - 2)..config[f].y

(* Whatever the file says, a visible field begins inside screen[], unless power failed
   during a write to the EEPROM. *)
VisibleOnScreen ==
  Running /\ ~torn => \A f \in Fields : fieldIsVisible(f) => getPosition(f) < ROWS * COLS

(* The file's positionY counts the sixteen rows of the screen from the top
   (gpuConfig.xml:8-10): on a PAL picture the field stands in that row. *)
RowsExact ==
  Configured /\ signaltype = 1 => \A f \in DOMAIN config :
    Documented(config[f]) /\ fieldIsVisible(f) => getPosition(f) = config[f].y * COLS + config[f].x
=============================================================================
