----------------------------- MODULE DisplayFields ----------------------------
(***************************************************************************)
(* The display functions of the fields the host places on the screen       *)
(* (Screen.ino): numbers turned into text, the two status fields, and the  *)
(* message line wrapped into the rows of the picture.  A function is what  *)
(* it writes: cells of screen[] and symbols, in the order of the code.     *)
(*                                                                         *)
(* A symbol is a number: 0..9 are the digits.  Altitude and speed are in   *)
(* cm and cm/s, voltage in 0.1 V, angles in 0.1 degree, as in the OSD's    *)
(* variables.                                                              *)
(***************************************************************************)
EXTENDS Integers, Sequences

CONSTANTS LINE, ROWS,     \* columns and rows of the picture, 30 and 16
          Positions,      \* where fields are placed
          Altitudes, Speeds, Voltages, Angles,
          Texts           \* what localData may hold

FieldsAssumption ==
  /\ LINE \in Nat /\ LINE > 2 /\ ROWS \in Nat \ {0}
  /\ Positions \subseteq 0..(LINE * ROWS - 1)
  /\ Altitudes \subseteq Int                               \* an int32_t
  /\ \A v \in Speeds : v \in Nat /\ v < 2^15               \* an int16_t, as the angles
  /\ \A v \in Voltages : v \in Nat /\ v <= 655              \* a uint16_t of mV, in 0.1 V
  /\ \A v \in Angles : v \in Int /\ -(2^15) < v /\ v < 2^15
  /\ Texts \subseteq Seq(Nat)

VARIABLES field, at,         \* the display function that ran and its position
          value, localData,  \* the number or the text it showed
          writes             \* what it wrote
vars == <<field, at, value, localData, writes>>

Minus == 10
Dot == 11
Icon == 12
Blank == 13
(* Characters of a text: the terminator, the line break, a capital and a small letter, and
   one the font has no symbol for. *)
Nul == 14
NewLine == 15
Capital == 16
Small == 17
Strange == 18

-----------------------------------------------------------------------------
(* A division of the code, which rounds towards zero; an int of the AVR; and itoa, which
   takes one: the last digit comes after those of the tenth. *)
Abs(n) == IF n < 0 THEN -n ELSE n
Over(n, d) == IF n < 0 THEN -((-n) \div d) ELSE n \div d
Int16(n) == ((n + 2^15) % 2^16) - 2^15
Digits(n) == LET d[k \in 0..n] == IF k < 10 THEN <<k>> ELSE Append(d[k \div 10], k % 10)
             IN d[n]
Sign(negative) == IF negative THEN <<Minus>> ELSE <<>>
Itoa(n) == Sign(Int16(n) < 0) \o Digits(Abs(Int16(n)))

(* displayItem: with a decimal place a single digit gets a zero before it; the last digit
   moves one place on and the point takes its place. *)
Padded_Never(s) == s
Padded(s) == IF Len(s) = 1 THEN <<0>> \o s ELSE s
WithPoint(s) == SubSeq(s, 1, Len(s) - 1) \o <<Dot, s[Len(s)]>>
Item(n, lead, decimals) ==
  lead \o (IF decimals = 0 THEN Itoa(n) ELSE WithPoint(Padded(Itoa(n)))) \o <<Icon>>

(* displayHorizon's numbers: the sign by the variable, the digits of whole degrees. *)
Degrees(n) == Abs(n) \div 10
Angle(n, negative) == <<Icon>> \o Sign(negative) \o Itoa(Degrees(n))

WriteString(s, p) == [i \in 1..Len(s) |-> [at |-> p + i - 1, ch |-> s[i]]]

Draw(f, p, v, text, written) ==
  /\ field = "none" /\ field' = f /\ at' = p /\ writes' = written
  /\ value' = v /\ localData' = text
DrawNumber(f, p, v, written) == Draw(f, p, v, <<>>, written)

(* S_ALTRESOLUTION is 0 with MAVLink: a height below it has a decimal place. *)
Metres(t_alt10) == Over(t_alt10, 10)
Decimals(t_alt) == IF t_alt < 0 THEN 1 ELSE 0
AltitudeItem(t_alt10) ==
  LET t_dp == Decimals(Metres(t_alt10))
  IN Item(IF t_dp = 1 THEN t_alt10 ELSE Metres(t_alt10), <<Icon>>, t_dp)
Altitude(p, v) == DrawNumber("altitude", p, v, WriteString(AltitudeItem(Over(v, 10)), p))
(* The factor 0.036 is a float, a little below it: a product that is a whole number may come
   out one less when it is cut off. *)
Kmh(v) == {(v * 36) \div 1000} \cup (IF v > 0 THEN {(v * 36 - 1) \div 1000} ELSE {})
AirSpeed(p, v) ==
  \E t_speed \in Kmh(v) : DrawNumber("speed", p, v, WriteString(Item(t_speed, <<Icon>>, 0), p))
Voltage(p, v) == DrawNumber("voltage", p, v, WriteString(Item(v, <<>>, 1), p))
(* MwAngle[1] holds the pitch with its sign changed, and is shown with it changed back. *)
Pitch(p, v) == DrawNumber("pitch", p, v, WriteString(Angle(-v, -v > 0), p))
Roll(p, v) == DrawNumber("roll", p, v, WriteString(Angle(v, v < 0), p))
Yaw(p, v) == DrawNumber("yaw", p, v, WriteString(Angle(v, v < 0), p))
(* Void draws nothing, Lost five symbols, Not_found six; the mode of control two. *)
Icons == <<0, 5, 6>>
Status(p, v) == DrawNumber("status", p, v, WriteString([i \in 1..Icons[v + 1] |-> Icon], p))
Control(p, v) == DrawNumber("control", p, v, WriteString(<<Icon, Icon>>, p))

-----------------------------------------------------------------------------
(* displayMessage *)
symbolValidation(ch) == CASE ch = Small -> Capital [] ch = Strange -> Blank [] OTHER -> ch

Cursor(pos, count) == [pos |-> pos, count |-> count, ended |-> FALSE, out |-> <<>>]
Break(c) == LET below == (c.pos \div LINE) * LINE + LINE
            IN [c EXCEPT !.pos = IF below >= LINE * ROWS - 1 THEN 0 ELSE below, !.count = 0]
Full_Wide(c) == c.count = LINE - 1
Full(c) == c.count = LINE - 2
Step(c) == [c EXCEPT !.pos = @ + 1, !.count = @ + 1]
Show(c, ch) == [c EXCEPT !.out = Append(@, [at |-> c.pos, ch |-> symbolValidation(ch)])]
Room(c) == IF Full(c) THEN Break(c) ELSE c
Character(c, ch) ==
  IF c.ended THEN c
  ELSE CASE ch = NewLine -> Break(Room(c))
         [] ch = Nul -> [Step(Room(c)) EXCEPT !.ended = TRUE]
         [] OTHER -> Show(Step(Room(c)), ch)
Typed(p, text) ==
  LET c[i \in 0..Len(text)] == IF i = 0 THEN Cursor((p \div LINE) * LINE, 0)
                                         ELSE Character(c[i - 1], text[i])
  IN c[Len(text)].out
Message(p, text) == Draw("message", p, 0, text, Typed(p, text))

-----------------------------------------------------------------------------
Init == field = "none" /\ at = 0 /\ value = 0 /\ localData = <<>> /\ writes = <<>>

(* MAX7456_DrawScreen leaves the cells it sent blank for the next build. *)
Sent == /\ field # "none" /\ field' = "none" /\ at' = 0
        /\ value' = 0 /\ localData' = <<>> /\ writes' = <<>>

Next == \/ Sent
        \/ \E p \in Positions :
             \/ \E v \in Altitudes : Altitude(p, v)
             \/ \E v \in Speeds : AirSpeed(p, v)
             \/ \E v \in Voltages : Voltage(p, v)
             \/ \E v \in Angles : Pitch(p, v) \/ Roll(p, v) \/ Yaw(p, v)
             \/ \E v \in 0..2 : Status(p, v) \/ Control(p, v)
             \/ \E text \in Texts : Message(p, text)

Spec == Init /\ [][Next]_vars

-----------------------------------------------------------------------------
(* The number a reader takes from the digits, the point left out, and its sign. *)
Read == [i \in DOMAIN writes |-> writes[i].ch]
NumberOf(s) ==
  LET n[i \in 0..Len(s)] == IF i = 0 THEN 0
                             ELSE IF s[i] \in 0..9 THEN 10 * n[i - 1] + s[i] ELSE n[i - 1]
  IN n[Len(s)]
Number == NumberOf(Read)
Negative == Minus \in {Read[i] : i \in DOMAIN Read}

Tenths == \E i \in 2..(Len(Read) - 2) : /\ Read[i] = Dot /\ Read[i + 2] = Icon
                                        /\ {Read[i - 1], Read[i + 1]} \subseteq 0..9
Whole == Dot \notin {Read[i] : i \in DOMAIN Read}

(* What stands on the screen is the number: metres, and tenths of a metre from one metre
   below zero on, while they fit an int; km/h, a whole number or one less; tenths of a volt;
   degrees with the sign of the angle.  A point has a digit on either side, and what is below
   the last place shown is cut off. *)
NumbersRead ==
  /\ field = "altitude" /\ value > -10 * (2^15 + 1) /\ value < 100 * 2^15 =>
       IF value > -100 THEN Whole /\ ~Negative /\ Number = Abs(value) \div 100
                       ELSE Tenths /\ Negative /\ Number = Abs(value) \div 10
  /\ field = "speed" => Number * 1000 <= value * 36 /\ value * 36 <= (Number + 1) * 1000
  /\ field = "voltage" => Tenths /\ Number = value
  /\ field \in {"pitch", "roll", "yaw"} => Number = Degrees(value) /\ (Negative <=> value < 0)

(* A text is laid out as paragraphs: one of n characters takes n \div W + 1 rows of W, so
   that a line break after a full row leaves an empty one. *)
W == LINE - 2
Upto == IF field # "message" THEN 0
        ELSE LET ends == {i \in DOMAIN localData : localData[i] = Nul}
             IN IF ends = {} THEN Len(localData)
                ELSE (CHOOSE i \in ends : \A j \in ends : i <= j) - 1
Breaks(i) == {j \in 1..(i - 1) : localData[j] = NewLine}
Begins(i) == IF Breaks(i) = {} THEN 0 ELSE CHOOSE b \in Breaks(i) : \A c \in Breaks(i) : b >= c
InRow(i) == i - Begins(i) - 1       \* characters of its paragraph before the i-th
RowsOf(b) == (b - Begins(b) - 1) \div W + 1   \* rows of the paragraph the break b ends
RowsAbove(i) ==
  LET rows[j \in 0..Len(localData)] ==
        IF j = 0 THEN 0 ELSE rows[j - 1] + (IF localData[j] = NewLine THEN RowsOf(j) ELSE 0)
  IN rows[i - 1]
RowOf(i) == RowsAbove(i) + InRow(i) \div W
Cell(i) == ((at \div LINE + RowOf(i)) % ROWS) * LINE + 1 + (InRow(i) % W)
Printed == {i \in 1..Upto : localData[i] # NewLine}

(* Every character before the terminator is drawn where that layout puts it, between the
   picture's first and last column, going on at the top below the last row. *)
MessageLaidOut ==
  field = "message" =>
    {[at |-> Cell(i), ch |-> symbolValidation(localData[i])] : i \in Printed}
      = {writes[i] : i \in DOMAIN writes}

(* A text that has no more rows than the picture is whole on the screen: no character is
   drawn over another one. *)
MessageWhole ==
  field = "message" /\ (\A i \in Printed : RowOf(i) < ROWS) =>
    \A i, j \in DOMAIN writes : i # j => writes[i].at # writes[j].at

(* Whatever place the host's configuration gives a field, it stays in the picture. *)
FieldsInPicture == \A i \in DOMAIN writes : writes[i].at \in 0..(LINE * ROWS - 1)
(* A text begins in the column it is placed at. *)
MessageAtColumn == field = "message" /\ writes # <<>> => writes[1].at = at
=============================================================================
