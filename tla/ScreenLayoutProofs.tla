--------------------------- MODULE ScreenLayoutProofs ---------------------------
(***************************************************************************)
(* Where the fields stand, for every configuration file, every number of   *)
(* fields, every length of the line and any number of starts: what the     *)
(* host read is at every moment either under way or, once every write that *)
(* was begun is made, in the EEPROM; and what is in the EEPROM is on the   *)
(* screen after a restart.  The last section is about the parser alone,    *)
(* for files of any elements.                                              *)
(***************************************************************************)
EXTENDS ScreenLayout, ConfigPart, SequenceTheorems, TLAPS

-----------------------------------------------------------------------------
(* Numbers: lines and columns of a position, halves of a word. *)
LEMMA LineAndColumn == ASSUME NEW c \in Nat \ {0}, NEW r \in Nat, NEW x \in 0..(c - 1)
                       PROVE (r * c + x) \div c = r /\ (r * c + x) % c = x
<1> DEFINE a == r * c + x
           q == a \div c
           m == a % c
<1>1. a \in Nat /\ q \in Int /\ m \in 0..(c - 1) /\ a = c * q + m
  <2>1. r * c \in Nat  OBVIOUS
  <2>2. a \in Nat  BY <2>1
  <2> HIDE DEF a
  <2> QED  BY <2>2
<1> HIDE DEF q, m
<1>2. ~(q > r)
  <2> SUFFICES ASSUME q >= r + 1 PROVE FALSE
    BY <1>1
  <2>1. c * q >= c * (r + 1)  BY <1>1
  <2>2. c * (r + 1) = r * c + c  OBVIOUS
  <2> QED  BY <1>1, <2>1, <2>2
<1>3. ~(q < r)
  <2> SUFFICES ASSUME r >= q + 1 PROVE FALSE
    BY <1>1
  <2>1. c * r >= c * (q + 1)  BY <1>1
  <2>2. c * (q + 1) = c * q + c  BY <1>1
  <2> QED  BY <1>1, <2>1, <2>2
<1>4. q = r  BY <1>1, <1>2, <1>3
<1>5. m = x  BY <1>1, <1>4
<1> QED  BY <1>4, <1>5 DEF q, m

(* Membership in an interval by comparison. *)
LEMMA WordIs == \A v : v \in Word <=> v \in Nat /\ v < 65536
<1> DEFINE top == 65535
<1>1. Word = 0..top  BY DEF Word
<1>2. top \in Nat /\ top + 1 = 65536  OBVIOUS
<1> HIDE DEF top
<1>3. \A v : v \in 0..top <=> v \in Nat /\ v < top + 1  BY <1>2
<1> QED  BY <1>1, <1>2, <1>3

LEMMA ByteIs == \A v : v \in Byte <=> v \in Nat /\ v < 256
<1> DEFINE top == 255
<1>1. Byte = 0..top  BY DEF Byte
<1>2. top \in Nat /\ top + 1 = 256  OBVIOUS
<1> HIDE DEF top
<1>3. \A v : v \in 0..top <=> v \in Nat /\ v < top + 1  BY <1>2
<1> QED  BY <1>1, <1>2, <1>3

LEMMA Halves == ASSUME NEW v \in Word
                PROVE /\ Half(v, 0) \in Byte /\ Half(v, 1) \in Byte
                      /\ Half(v, 0) + 256 * Half(v, 1) = v
<1>1. v \in Nat /\ v < 65536  BY WordIs
<1>2. /\ v % 256 \in Nat /\ v % 256 < 256 /\ v \div 256 \in Nat /\ v \div 256 < 256
      /\ (v % 256) + 256 * (v \div 256) = v
  BY <1>1
<1> QED  BY <1>2, ByteIs DEF Half

(* The screen's size, and that a line of the layout fits in a position. *)
LEMMA Size == /\ COLS \in 1..30 /\ ROWS \in 14..16
              /\ ROWS * COLS \in Nat /\ (ROWS - 2) * COLS \in Nat
              /\ (ROWS - 2) * COLS = ROWS * COLS - 2 * COLS
              /\ (ROWS - 2) * COLS <= 420
<1>1. COLS \in 1..30 /\ ROWS \in 14..16  BY LayoutAssumption
<1>2. ROWS = 14 \/ ROWS = 15 \/ ROWS = 16  BY <1>1
<1> QED  BY <1>1, <1>2

LEMMA RowFits == ASSUME NEW r \in 0..20, r < ROWS - 2
                 PROVE r * COLS \in Nat /\ r * COLS + COLS <= (ROWS - 2) * COLS
<1>1. COLS \in 1..30 /\ (ROWS = 14 \/ ROWS = 15 \/ ROWS = 16)  BY LayoutAssumption
<1>2. r * COLS \in Nat /\ r * COLS + COLS = (r + 1) * COLS  BY <1>1
<1>3. r + 1 <= ROWS - 2  BY <1>1
<1>4. (r + 1) * COLS <= (ROWS - 2) * COLS  BY <1>1, <1>3
<1> QED  BY <1>2, <1>4

(* The line of the layout on which row y of the file comes to stand. *)
RowOf(y) == IF y <= 5 THEN y ELSE IF y <= 8 THEN y - 1 ELSE y - 2
Shows(flag) == IF flag = 49 THEN Always ELSE 0

LEMMA LineBaseIs == ASSUME NEW y \in 0..15 PROVE LineBase(y + 1) = RowOf(y) * COLS
BY DEF LineBase, Line, RowOf

LEMMA RowOfFits == ASSUME NEW y \in 0..(ROWS - 1)
                   PROVE y \in 0..15 /\ RowOf(y) \in 0..13 /\ RowOf(y) < ROWS - 2
BY Size DEF RowOf

(* A position of the file keeps its column, and becomes one of the first fourteen lines. *)
LEMMA EncodedAt == ASSUME NEW y \in 0..(ROWS - 1), NEW x \in 0..(COLS - 1), NEW flag
                   PROVE /\ Encoded(y * COLS + x, flag) = RowOf(y) * COLS + x + Shows(flag)
                         /\ RowOf(y) * COLS + x \in 0..((ROWS - 2) * COLS - 1)
<1>1. COLS \in Nat \ {0} /\ y \in 0..15 /\ RowOf(y) \in 0..13 /\ x \in Nat /\ x < COLS
  BY Size, RowOfFits
<1>2. (y * COLS + x) \div COLS = y /\ (y * COLS + x) % COLS = x  BY <1>1, LineAndColumn
<1>3. Limited(y * COLS + x) = y * COLS + x
  <2>1. (y + 1) * COLS <= ROWS * COLS  BY Size
  <2>2. (y + 1) * COLS = y * COLS + COLS  BY <1>1
  <2>3. y * COLS \in Nat /\ ROWS * COLS \in Nat  BY <1>1, Size
  <2> HIDE DEF Limited
  <2> QED  BY <1>1, <2>1, <2>2, <2>3 DEF Limited
<1>4. RowOf(y) * COLS + x \in 0..((ROWS - 2) * COLS - 1) /\ (ROWS - 2) * COLS <= 420
  <2> DEFINE base == RowOf(y) * COLS
             room == (ROWS - 2) * COLS
  <2>1. base \in Nat /\ base + COLS <= room  BY <1>1, RowOfFits, RowFits
  <2>2. room \in Nat /\ room <= 420  BY Size
  <2> HIDE DEF base, room
  <2>3. base + x \in 0..(room - 1)  BY <1>1, <2>1, <2>2
  <2> QED  BY <2>2, <2>3 DEF base, room
<1>5. LineBase(y + 1) = RowOf(y) * COLS  BY <1>1, LineBaseIs
<1>6. (RowOf(y) * COLS + x) % PosMask = RowOf(y) * COLS + x
  <2> DEFINE n == RowOf(y) * COLS + x
  <2>1. n \in Int /\ 0 <= n /\ n < 512  BY <1>4, Size
  <2> HIDE DEF n
  <2>2. n % 512 = n  BY <2>1
  <2> QED  BY <2>2 DEF n, PosMask
<1> QED  BY <1>2, <1>3, <1>4, <1>5, <1>6 DEF Encoded, Shows

(* So does any other position, from the end of the screen. *)
LEMMA EncodedOnScreen == ASSUME NEW p \in Nat, NEW flag
                         PROVE \E n \in 0..((ROWS - 2) * COLS - 1) : Encoded(p, flag) = n + Shows(flag)
<1> DEFINE q == Limited(p)
           y == q \div COLS
           x == q % COLS
<1>1. COLS \in Nat \ {0} /\ ROWS * COLS \in Nat /\ ROWS * COLS > 0
  BY Size
<1>2. q \in Nat /\ q < ROWS * COLS  BY <1>1 DEF Limited
<1> HIDE DEF q
<1>3. y \in Nat /\ x \in 0..(COLS - 1) /\ q = COLS * y + x  BY <1>1, <1>2
<1> HIDE DEF y, x
<1>4. y < ROWS
  <2> SUFFICES ASSUME y >= ROWS PROVE FALSE
    BY <1>3, Size
  <2>1. COLS * y >= COLS * ROWS  BY <1>1, <1>3, Size
  <2> QED  BY <1>2, <1>3, <2>1, Size
<1>5. y \in 0..(ROWS - 1) /\ q = y * COLS + x  BY <1>3, <1>4, Size
<1>6. Limited(q) = q
  <2>1. ~(q >= ROWS * COLS)  BY <1>1, <1>2
  <2> QED  BY <2>1 DEF Limited
<1>7. Encoded(p, flag) = Encoded(q, flag)  BY <1>6 DEF Encoded, q
<1> QED  BY <1>3, <1>5, <1>7, EncodedAt

(* A layout's word is a position that is not shown, or one that can be on the screen. *)
Fit(v) == /\ v \in Word
          /\ v < PosMask \/ (Always <= v /\ v < Always + (ROWS - 2) * COLS)

LEMMA EncodedFits == ASSUME NEW p \in Nat, NEW flag PROVE Fit(Encoded(p, flag))
<1> DEFINE room == (ROWS - 2) * COLS
<1>1. PICK n \in 0..(room - 1) : Encoded(p, flag) = n + Shows(flag)
  BY EncodedOnScreen
<1>2. room \in Nat /\ room <= 420  BY Size
<1> HIDE DEF room
<1>3. n \in Nat /\ n < room /\ n < 420  BY <1>1, <1>2
<1>4. CASE flag = 49
  <2>1. Encoded(p, flag) = n + 49152  BY <1>1, <1>4 DEF Shows, Always
  <2> QED  BY <1>2, <1>3, <2>1, WordIs DEF Fit, Always, room
<1>5. CASE flag # 49
  <2>1. Encoded(p, flag) = n  BY <1>1, <1>3, <1>5 DEF Shows
  <2> QED  BY <1>3, <2>1, WordIs DEF Fit, PosMask
<1> QED  BY <1>4, <1>5

LEMMA DefaultFits == ASSUME NEW f \in Fields PROVE Fit(Default[f])
<1>1. Default \in [Fields -> Word]  BY LayoutAssumption
<1>2. Default[f] \in Word  BY <1>1
<1>3. Default[f] < PosMask \/ (Always <= Default[f] /\ Default[f] < Always + (ROWS - 2) * COLS)
  BY DefaultAssumption
<1> QED  BY <1>2, <1>3, Zenon DEF Fit

(* Moved down or not, a word of the layout is a word and what it shows is on the screen. *)
LEMMA ShiftedWord == ASSUME NEW v \in Word PROVE Shifted(v) \in Word
<1> DEFINE s == v + (IF v % PosMask > Line(6) THEN COLS ELSE 0)
                  + (IF v % PosMask > Line(9) THEN COLS ELSE 0)
<1>1. COLS \in Nat /\ v \in Nat  BY Size, WordIs
<1>2. s \in Nat  BY <1>1
<1>3. Shifted(v) = s % 65536  BY DEF Shifted
<1> HIDE DEF s
<1>4. s % 65536 \in Nat /\ s % 65536 < 65536  BY <1>2
<1> QED  BY <1>3, <1>4, WordIs

LEMMA FitOnScreen == ASSUME NEW v, Fit(v), NEW w \in {v, Shifted(v)}, w \div 16384 = 3
                     PROVE w % PosMask < ROWS * COLS
<1> DEFINE size == ROWS * COLS
           room == (ROWS - 2) * COLS
<1>1. size \in Nat /\ room \in Nat /\ room = size - 2 * COLS /\ room <= 420 /\ COLS \in 1..30  BY Size
<1>2. v \in Word /\ (v < 512 \/ (49152 <= v /\ v < 49152 + room))  BY DEF Fit, PosMask, Always
<1> HIDE DEF size, room
<1>3. v \in Nat /\ v < 65536  BY <1>2, WordIs
<1>4. PICK d \in {0, COLS, 2 * COLS} : w = (v + d) % 65536
  <2>1. CASE w = v
    <3>1. w = (v + 0) % 65536  BY <1>3, <2>1
    <3> QED  BY <3>1
  <2>2. CASE w = Shifted(v)
    <3>1. \/ Shifted(v) = (v + 0 + 0) % 65536
          \/ Shifted(v) = (v + COLS + 0) % 65536
          \/ Shifted(v) = (v + 0 + COLS) % 65536
          \/ Shifted(v) = (v + COLS + COLS) % 65536
      BY DEF Shifted
    <3>2. /\ v + 0 + 0 = v + 0 /\ v + COLS + 0 = v + COLS
          /\ v + 0 + COLS = v + COLS /\ v + COLS + COLS = v + 2 * COLS
      BY <1>1, <1>3
    <3> QED  BY <2>2, <3>1, <3>2
  <2> QED  BY <2>1, <2>2
<1>5. d \in Nat /\ d <= 60 /\ d <= 2 * COLS  BY <1>1
<1>6. CASE v < 512
  <2>1. w = v + d  BY <1>3, <1>4, <1>5, <1>6
  <2>2. w < 1000 /\ w \in Nat  BY <1>3, <1>5, <1>6, <2>1
  <2> QED  BY <2>2
<1>7. CASE 49152 <= v /\ v < 49152 + room
  <2>1. PICK n \in Nat : v = n + 49152
    <3>1. v - 49152 \in Nat /\ v = (v - 49152) + 49152  BY <1>3, <1>7
    <3> QED  BY <3>1
  <2>2. n < room /\ n + d < size /\ n + d < 480  BY <1>1, <1>5, <1>7, <2>1
  <2>3. w = n + d + 49152  BY <1>4, <1>5, <2>1, <2>2
  <2>4. w % 512 = n + d  BY <1>5, <2>1, <2>2, <2>3
  <2> QED  BY <2>2, <2>4 DEF size, PosMask
<1> QED  BY <1>2, <1>6, <1>7

-----------------------------------------------------------------------------
(* The EEPROM's addresses are different, and each byte of the defaults is written once. *)
LEMMA DifferentCells ==
  /\ Version # Standard
  /\ \A l, f, p : Cell(l, f, p) # Version /\ Cell(l, f, p) # Standard
  /\ \A l, f, p, l2, f2, p2 : Cell(l, f, p) = Cell(l2, f2, p2) => l = l2 /\ f = f2 /\ p = p2
<1>1. Version # Standard
  <2>1. Version[1] = "version" /\ Standard[1] = "standard"  BY DEF Version, Standard
  <2> QED  BY <2>1
<1>2. ASSUME NEW l, NEW f, NEW p PROVE Cell(l, f, p) # Version /\ Cell(l, f, p) # Standard
  <2>1. Len(Cell(l, f, p)) = 3 /\ Len(Version) = 1 /\ Len(Standard) = 1
    BY DEF Cell, Version, Standard
  <2> QED  BY <2>1
<1>3. ASSUME NEW l, NEW f, NEW p, NEW l2, NEW f2, NEW p2, Cell(l, f, p) = Cell(l2, f2, p2)
      PROVE l = l2 /\ f = f2 /\ p = p2
  BY <1>3 DEF Cell
<1> QED  BY <1>1, <1>2, <1>3

LEMMA AddressIs ==
  /\ Version \in Addresses /\ Standard \in Addresses
  /\ \A l \in Layouts, f \in Fields, p \in {0, 1} : Cell(l, f, p) \in Addresses
BY DEF Addresses

Writes == [a : Addresses, byte : Byte]
Pack(k, v, f) == Put(Cell((k - 1) \div 2, f, (k - 1) % 2), Half(v, (k - 1) % 2))

LEMMA PutIs == ASSUME NEW a \in Addresses, NEW b \in Byte
               PROVE Put(a, b) \in Writes /\ Put(a, b).a = a /\ Put(a, b).byte = b
BY DEF Put, Writes

LEMMA HalfIs == ASSUME NEW v \in Word, NEW p \in {0, 1} PROVE Half(v, p) \in Byte
BY Halves

(* The six writes of one field. *)
LEMMA FieldWritesAre == ASSUME NEW f \in Fields, NEW v \in Word
  PROVE /\ FieldWrites(f, v) \in Seq(Writes)
        /\ \A i \in DOMAIN FieldWrites(f, v) : \E l \in Layouts, p \in {0, 1} :
             FieldWrites(f, v)[i].a = Cell(l, f, p) /\ FieldWrites(f, v)[i].byte = Half(v, p)
        /\ \A l \in Layouts, p \in {0, 1} : \E i \in DOMAIN FieldWrites(f, v) :
             FieldWrites(f, v)[i].a = Cell(l, f, p) /\ FieldWrites(f, v)[i].byte = Half(v, p)
<1> DEFINE w == FieldWrites(f, v)
<1>1. /\ DOMAIN w = 1..6
      /\ \A k \in 1..6 : w[k] = Put(Cell((k - 1) \div 2, f, (k - 1) % 2), Half(v, (k - 1) % 2))
  BY DEF FieldWrites
<1>2. ASSUME NEW k \in 1..6
      PROVE /\ (k - 1) \div 2 \in Layouts /\ (k - 1) % 2 \in {0, 1}
            /\ w[k] \in Writes /\ w[k].a = Cell((k - 1) \div 2, f, (k - 1) % 2)
            /\ w[k].byte = Half(v, (k - 1) % 2)
  <2>1. (k - 1) \div 2 \in Layouts /\ (k - 1) % 2 \in {0, 1}  BY DEF Layouts
  <2>2. Cell((k - 1) \div 2, f, (k - 1) % 2) \in Addresses  BY <2>1, AddressIs
  <2>3. Half(v, (k - 1) % 2) \in Byte  BY <2>1, HalfIs
  <2> HIDE DEF w
  <2> QED  BY <1>1, <2>1, <2>2, <2>3, PutIs
<1>3. w \in Seq(Writes)
  <2>1. w \in [1..6 -> Writes]
    <3>1. w = [k \in 1..6 |-> w[k]]  BY DEF FieldWrites
    <3> HIDE DEF w
    <3> QED  BY <1>2, <3>1
  <2> DEFINE n == 6
  <2>2. n \in Nat /\ w \in [1..n -> Writes]  BY <2>1
  <2> HIDE DEF w, n
  <2> QED  BY <2>2
<1> HIDE DEF w
<1>4. ASSUME NEW l \in Layouts, NEW p \in {0, 1}
      PROVE \E i \in 1..6 : w[i].a = Cell(l, f, p) /\ w[i].byte = Half(v, p)
  <2> DEFINE i == 2 * l + p + 1
  <2>1. i \in 1..6 /\ (i - 1) \div 2 = l /\ (i - 1) % 2 = p  BY DEF Layouts
  <2> HIDE DEF i
  <2> QED  BY <1>2, <2>1
<1> QED  BY <1>1, <1>2, <1>3, <1>4 DEF w

(* The defaults: the version, the video standard, then every byte of every layout. *)
LEMMA DefaultWritesAre ==
  /\ DefaultWrites \in Seq(Writes) /\ DefaultWrites # <<>>
  /\ DefaultWrites[1] = Put(Version, EEPROMVER)
  /\ \A i \in DOMAIN DefaultWrites :
       \/ DefaultWrites[i].a = Version /\ DefaultWrites[i].byte = EEPROMVER
       \/ DefaultWrites[i].a = Standard /\ DefaultWrites[i].byte = 2
       \/ \E l \in Layouts, f \in Fields, p \in {0, 1} :
            DefaultWrites[i].a = Cell(l, f, p) /\ DefaultWrites[i].byte = Half(Default[f], p)
  /\ \A l \in Layouts, f \in Fields, p \in {0, 1} : \E i \in DOMAIN DefaultWrites :
       DefaultWrites[i].a = Cell(l, f, p)
<1> DEFINE bytes == 2 * POSITIONS_SETTINGS
           Where(k) == ((k - 1) % bytes) \div 2
           rest == [k \in 1..(3 * bytes) |->
                      LET f == ((k - 1) % bytes) \div 2
                      IN Put(Cell((k - 1) \div bytes, f, (k - 1) % 2), Half(Default[f], (k - 1) % 2))]
           head == <<Put(Version, EEPROMVER), Put(Standard, 2)>>
<1>1. DefaultWrites = head \o rest  BY DEF DefaultWrites
<1>2. bytes \in Nat \ {0} /\ bytes = 2 * POSITIONS_SETTINGS /\ POSITIONS_SETTINGS \in 1..100
  BY LayoutAssumption
<1>3. /\ DOMAIN rest = 1..(3 * bytes)
      /\ \A k \in 1..(3 * bytes) :
           rest[k] = Put(Cell((k - 1) \div bytes, Where(k), (k - 1) % 2), Half(Default[Where(k)], (k - 1) % 2))
  OBVIOUS
<1>4. EEPROMVER \in Byte /\ 2 \in Byte  BY ByteIs DEF EEPROMVER
<1>5. head \in Seq(Writes) /\ Len(head) = 2 /\ head[1] = Put(Version, EEPROMVER) /\ head[2] = Put(Standard, 2)
  <2>1. Put(Version, EEPROMVER) \in Writes /\ Put(Standard, 2) \in Writes
    BY <1>4, AddressIs, PutIs
  <2> QED  BY <2>1
<1> HIDE DEF bytes
<1>6. ASSUME NEW k \in 1..(3 * bytes)
      PROVE /\ (k - 1) \div bytes \in Layouts /\ Where(k) \in Fields /\ (k - 1) % 2 \in {0, 1}
            /\ rest[k] \in Writes
            /\ rest[k].a = Cell((k - 1) \div bytes, Where(k), (k - 1) % 2)
            /\ rest[k].byte = Half(Default[Where(k)], (k - 1) % 2)
  <2>1. (k - 1) \div bytes \in Layouts
    <3> DEFINE q == (k - 1) \div bytes
    <3>1. q \in Int /\ (k - 1) % bytes \in 0..(bytes - 1) /\ k - 1 = bytes * q + ((k - 1) % bytes)
      BY <1>2
    <3> HIDE DEF q
    <3>2. ~(q >= 3)
      <4> SUFFICES ASSUME q >= 3 PROVE FALSE
        OBVIOUS
      <4>1. bytes * q >= bytes * 3  BY <1>2, <3>1
      <4> QED  BY <1>2, <3>1, <4>1
    <3>3. ~(q <= -1)
      <4> SUFFICES ASSUME q <= -1 PROVE FALSE
        OBVIOUS
      <4>1. bytes * q <= bytes * (-1)  BY <1>2, <3>1
      <4> QED  BY <1>2, <3>1, <4>1
    <3>4. q \in 0..2  BY <3>1, <3>2, <3>3
    <3> QED  BY <3>4 DEF q, Layouts
  <2>2. Where(k) \in Fields
    <3>1. (k - 1) % bytes \in 0..(bytes - 1)  BY <1>2
    <3> QED  BY <1>2, <3>1 DEF Fields
  <2>3. (k - 1) % 2 \in {0, 1}  BY <1>2
  <2>4. Default[Where(k)] \in Word  BY <2>2, LayoutAssumption
  <2> HIDE DEF Where, rest
  <2>5. Cell((k - 1) \div bytes, Where(k), (k - 1) % 2) \in Addresses
    BY <2>1, <2>2, <2>3, AddressIs
  <2>6. Half(Default[Where(k)], (k - 1) % 2) \in Byte  BY <2>3, <2>4, HalfIs
  <2> QED  BY <1>3, <2>1, <2>2, <2>3, <2>5, <2>6, PutIs
<1>7. rest \in Seq(Writes) /\ Len(rest) = 3 * bytes
  <2>1. rest = [k \in 1..(3 * bytes) |-> rest[k]]  OBVIOUS
  <2> HIDE DEF rest
  <2>2. rest \in [1..(3 * bytes) -> Writes]  BY <1>6, <2>1
  <2>3. 3 * bytes \in Nat  BY <1>2
  <2> QED  BY <2>2, <2>3
<1>8. ASSUME NEW l \in Layouts, NEW f \in Fields, NEW p \in {0, 1}
      PROVE \E k \in 1..(3 * bytes) : rest[k].a = Cell(l, f, p)
  <2> DEFINE m == 2 * f + p
             k == l * bytes + m + 1
  <2>1. f \in Nat /\ f < POSITIONS_SETTINGS /\ l \in 0..2  BY <1>2 DEF Fields, Layouts
  <2>2. m \in 0..(bytes - 1) /\ m \div 2 = f /\ m % 2 = p  BY <1>2, <2>1
  <2> HIDE DEF m
  <2>3. k - 1 = l * bytes + m /\ k \in 1..(3 * bytes)
    <3>1. l * bytes \in Nat /\ l * bytes <= 2 * bytes  BY <1>2, <2>1
    <3> QED  BY <1>2, <2>2, <3>1
  <2>4. (k - 1) \div bytes = l /\ (k - 1) % bytes = m
    BY <1>2, <2>1, <2>2, <2>3, LineAndColumn
  <2>5. (k - 1) % 2 = p
    <3>1. l = 0 \/ l = 1 \/ l = 2  BY <2>1
    <3>2. k - 1 = m \/ k - 1 = 2 * POSITIONS_SETTINGS + m \/ k - 1 = 4 * POSITIONS_SETTINGS + m
      BY <1>2, <2>2, <2>3, <3>1
    <3> QED  BY <1>2, <2>2, <3>2
  <2>6. Where(k) = f  BY <2>2, <2>4
  <2> HIDE DEF k, Where, rest
  <2> QED  BY <1>6, <2>3, <2>4, <2>5, <2>6
<1> HIDE DEF head, rest, Where
<1>9. /\ DefaultWrites \in Seq(Writes) /\ DOMAIN DefaultWrites = 1..(2 + 3 * bytes)
      /\ DefaultWrites # <<>>
      /\ \A i \in 1..(2 + 3 * bytes) : DefaultWrites[i] = IF i <= 2 THEN head[i] ELSE rest[i - 2]
  <2> DEFINE n == 3 * bytes
  <2>1. n \in Nat /\ Len(rest) = n /\ rest \in Seq(Writes) /\ head \in Seq(Writes) /\ Len(head) = 2
    BY <1>2, <1>5, <1>7
  <2> HIDE DEF n
  <2>2. /\ head \o rest \in Seq(Writes) /\ Len(head \o rest) = 2 + n
        /\ \A i \in 1..(2 + n) : (head \o rest)[i] = IF i <= 2 THEN head[i] ELSE rest[i - 2]
    BY <2>1, ConcatProperties
  <2>3. DefaultWrites # <<>>  BY <1>1, <2>1, <2>2
  <2>4. DOMAIN DefaultWrites = 1..(2 + n)  BY <1>1, <2>1, <2>2
  <2> QED  BY <1>1, <2>2, <2>3, <2>4 DEF n
<1>10. ASSUME NEW i \in DOMAIN DefaultWrites
       PROVE \/ DefaultWrites[i].a = Version /\ DefaultWrites[i].byte = EEPROMVER
             \/ DefaultWrites[i].a = Standard /\ DefaultWrites[i].byte = 2
             \/ \E l \in Layouts, f \in Fields, p \in {0, 1} :
                  DefaultWrites[i].a = Cell(l, f, p) /\ DefaultWrites[i].byte = Half(Default[f], p)
  <2>1. CASE i <= 2
    <3>1. i = 1 \/ i = 2  BY <1>2, <1>9, <2>1
    <3>2. DefaultWrites[i] = Put(Version, EEPROMVER) \/ DefaultWrites[i] = Put(Standard, 2)
      BY <1>5, <1>9, <2>1, <3>1
    <3> QED  BY <1>4, <3>2, AddressIs, PutIs
  <2>2. CASE ~(i <= 2)
    <3>1. i - 2 \in 1..(3 * bytes) /\ DefaultWrites[i] = rest[i - 2]
      BY <1>2, <1>9, <2>2
    <3> QED  BY <1>6, <3>1
  <2> QED  BY <2>1, <2>2
<1>11. ASSUME NEW l \in Layouts, NEW f \in Fields, NEW p \in {0, 1}
       PROVE \E i \in DOMAIN DefaultWrites : DefaultWrites[i].a = Cell(l, f, p)
  <2>1. PICK k \in 1..(3 * bytes) : rest[k].a = Cell(l, f, p)  BY <1>8
  <2>2. k + 2 \in DOMAIN DefaultWrites /\ DefaultWrites[k + 2] = rest[k]
    BY <1>2, <1>9
  <2> QED  BY <2>1, <2>2
<1>12. DefaultWrites[1] = Put(Version, EEPROMVER)  BY <1>2, <1>5, <1>9
<1> QED  BY <1>9, <1>10, <1>11, <1>12

-----------------------------------------------------------------------------
(* Types.  What the host has read is a place for each field of the file. *)
Named == {FieldOrder[k] : k \in DOMAIN FieldOrder}
Read == host # "off" => config \in [Named -> Places]
Typed == TypeOK /\ Read

Messages == [k : {"P", "R"}, f : Fields, flag : {0, 48, 49}, p : Word]

LEMMA OrderIs == FieldOrder \in Seq(Fields) /\ Named \subseteq Fields /\ Attributes = 3 * Len(FieldOrder)
<1>1. FieldOrder \in Seq(Fields)  BY LayoutAssumption
<1> QED  BY <1>1 DEF Named, Attributes

(* The attribute that is parsed next belongs to a field of the file. *)
LEMMA AttributeOf == ASSUME TypeOK, Read, host = "parsing", at < Attributes
  PROVE /\ at \in Nat /\ (at \div 3) + 1 \in DOMAIN FieldOrder
        /\ Field(at + 1) = FieldOrder[(at \div 3) + 1]
        /\ Field(at + 1) \in Named /\ Field(at + 1) \in Fields
        /\ config[Field(at + 1)] \in Places
        /\ config[Field(at + 1)] \in [x : Byte, y : Byte, visibility : {0, 1}]
<1>1. FieldOrder \in Seq(Fields) /\ Named \subseteq Fields /\ Attributes = 3 * Len(FieldOrder)
  BY OrderIs
<1>2. at \in Nat /\ at < 3 * Len(FieldOrder) /\ Len(FieldOrder) \in Nat
  BY <1>1 DEF TypeOK
<1>3. (at \div 3) + 1 \in 1..Len(FieldOrder) /\ (at + 1) - 1 = at  BY <1>2
<1>4. (at \div 3) + 1 \in DOMAIN FieldOrder /\ Field(at + 1) = FieldOrder[(at \div 3) + 1]
  BY <1>1, <1>3 DEF Field
<1>5. Field(at + 1) \in Named  BY <1>4 DEF Named
<1>6. config[Field(at + 1)] \in Places  BY <1>5 DEF Read
<1>7. Places \subseteq [x : Byte, y : Byte, visibility : {0, 1}]  BY LayoutAssumption
<1> QED  BY <1>1, <1>2, <1>4, <1>5, <1>6, <1>7

LEMMA CoordsAre == ASSUME NEW x \in Byte, NEW y \in Byte
                   PROVE convertCoords(x, y) \in Word
<1>1. x \in Nat /\ x < 256 /\ y \in Nat /\ y < 256 /\ COLS \in 1..30  BY ByteIs, Size
<1>2. y * COLS \in Nat /\ y * COLS <= 255 * COLS  BY <1>1
<1>3. y * COLS + x \in Nat /\ y * COLS + x < 65536  BY <1>1, <1>2
<1> QED  BY <1>3, WordIs DEF convertCoords

LEMMA FlagIs == ASSUME NEW b \in {0, 1} PROVE 48 + b \in {0, 48, 49}
OBVIOUS

(* What a layout reads is a word for each field. *)
Stores(l, f) == eeprom[Cell(l, f, 0)] + 256 * eeprom[Cell(l, f, 1)]

LEMMA StoresWord == ASSUME eeprom \in [Addresses -> Byte], NEW l \in Layouts, NEW f \in Fields
                    PROVE Stores(l, f) \in Word
<1>1. Cell(l, f, 0) \in Addresses /\ Cell(l, f, 1) \in Addresses  BY AddressIs
<1>2. eeprom[Cell(l, f, 0)] \in Byte /\ eeprom[Cell(l, f, 1)] \in Byte  BY <1>1
<1> DEFINE a == eeprom[Cell(l, f, 0)]
           b == eeprom[Cell(l, f, 1)]
<1>3. a \in Nat /\ a < 256 /\ b \in Nat /\ b < 256  BY <1>2, ByteIs
<1> HIDE DEF a, b
<1>4. a + 256 * b \in Nat /\ a + 256 * b < 65536  BY <1>3
<1> QED  BY <1>4, WordIs DEF a, b, Stores

LEMMA ReadLayoutIs == ASSUME NEW l, NEW s, NEW f \in Fields
  PROVE ReadLayout(l, s)[f] = IF s = 1 /\ eeprom[Standard] # 1 THEN Shifted(Stores(l, f)) ELSE Stores(l, f)
BY DEF ReadLayout, Stores

LEMMA ReadLayoutType == ASSUME eeprom \in [Addresses -> Byte], NEW l \in Layouts, NEW s
                        PROVE ReadLayout(l, s) \in [Fields -> Word]
<1>1. \A f \in Fields : ReadLayout(l, s)[f] \in Word
  <2> TAKE f \in Fields
  <2>1. Stores(l, f) \in Word  BY StoresWord
  <2>2. Shifted(Stores(l, f)) \in Word  BY <2>1, ShiftedWord
  <2> QED  BY <2>1, <2>2, ReadLayoutIs
<1>2. ReadLayout(l, s) = [f \in Fields |-> ReadLayout(l, s)[f]]  BY DEF ReadLayout
<1> QED  BY <1>1, <1>2

LEMMA EncodedType == ASSUME NEW p \in Word, NEW flag PROVE Encoded(p, flag) \in Word
BY EncodedFits, WordIs DEF Fit

LEMMA InitTyped == Init => Typed
<1> SUFFICES ASSUME Init PROVE TypeOK /\ Read
  BY DEF Typed
<1>1. at \in 0..Attributes /\ carry \in [x : Byte, flag : {0, 48, 49}]
  <2>1. Len(FieldOrder) \in Nat /\ Attributes = 3 * Len(FieldOrder)  BY OrderIs
  <2>2. 0 \in Byte  BY ByteIs
  <2> QED  BY <2>1, <2>2 DEF Init
<1>2. eeprom \in [Addresses -> Byte]
  <2>1. 255 \in Byte  BY ByteIs
  <2> QED  BY <2>1 DEF Init, Erased
<1>3. todo \in Seq([a : Addresses, byte : Byte])  BY DefaultWritesAre DEF Init, Writes
<1>4. screenPosition \in [Fields -> Word]
  <2>1. 0 \in Word  BY WordIs
  <2> QED  BY <2>1 DEF Init
<1>5. wire \in Seq([k : {"P", "R"}, f : Fields, flag : {0, 48, 49}, p : Word])  BY DEF Init
<1>6. host \in {"off", "parsing", "started"} /\ osd \in {"check", "run"} /\ Read
  BY DEF Init, Read
<1>7. /\ signaltype \in {0, 1} /\ screenlayout \in Layouts /\ camera \in {0, 1}
      /\ resetFlag \in BOOLEAN /\ intact \in BOOLEAN /\ torn \in BOOLEAN
  <2>1. 0 \in {0, 1} /\ 0 \in Layouts  BY DEF Layouts
  <2> QED  BY <2>1, Zenon DEF Init
<1> QED  BY <1>1, <1>2, <1>3, <1>4, <1>5, <1>6, <1>7, Zenon DEF TypeOK

LEMMA NextTyped == Typed /\ [Next]_vars => Typed'
<1> SUFFICES ASSUME TypeOK, Read, [Next]_vars PROVE TypeOK' /\ Read'
  BY DEF Typed
<1> USE DEF hostSide, memory, reading
<1>1. CASE HostStart
  <2>1. at' \in 0..Attributes /\ carry' \in [x : Byte, flag : {0, 48, 49}]
    <3>1. Len(FieldOrder) \in Nat /\ Attributes = 3 * Len(FieldOrder)  BY OrderIs
    <3>2. 0 \in Byte  BY ByteIs
    <3> QED  BY <1>1, <3>1, <3>2 DEF HostStart
  <2>2. Read'  BY <1>1 DEF HostStart, Read, Named
  <2> QED  BY <1>1, <2>1, <2>2, Zenon DEF HostStart, TypeOK
<1>2. CASE ParseVisibility
  <2>1. host = "parsing" /\ at < Attributes  BY <1>2 DEF ParseVisibility
  <2>2. at' \in 0..Attributes
    <3>1. Len(FieldOrder) \in Nat /\ Attributes = 3 * Len(FieldOrder)  BY OrderIs
    <3> QED  BY <1>2, <3>1, <2>1 DEF ParseVisibility, TypeOK
  <2>3. carry' \in [x : Byte, flag : {0, 48, 49}]
    <3>1. config[Field(at + 1)].visibility \in {0, 1}  BY <2>1, AttributeOf
    <3>2. 48 + config[Field(at + 1)].visibility \in {0, 48, 49}  BY <3>1, FlagIs
    <3> QED  BY <1>2, <3>2 DEF ParseVisibility, TypeOK
  <2>4. Read'  BY <1>2 DEF ParseVisibility, Read
  <2> QED  BY <1>2, <2>2, <2>3, <2>4, Zenon DEF ParseVisibility, TypeOK
<1>3. CASE ParseX
  <2>1. host = "parsing" /\ at < Attributes  BY <1>3 DEF ParseX
  <2>2. at' \in 0..Attributes
    <3>1. Len(FieldOrder) \in Nat /\ Attributes = 3 * Len(FieldOrder)  BY OrderIs
    <3> QED  BY <1>3, <3>1, <2>1 DEF ParseX, TypeOK
  <2>3. carry' \in [x : Byte, flag : {0, 48, 49}]
    <3>1. config[Field(at + 1)].x \in Byte  BY <2>1, AttributeOf
    <3> QED  BY <1>3, <3>1 DEF ParseX, TypeOK
  <2>4. Read'  BY <1>3 DEF ParseX, Read
  <2> QED  BY <1>3, <2>2, <2>3, <2>4, Zenon DEF ParseX, TypeOK
<1>4. CASE ParseY
  <2>1. host = "parsing" /\ at < Attributes  BY <1>4 DEF ParseY
  <2>2. at' \in 0..Attributes
    <3>1. Len(FieldOrder) \in Nat /\ Attributes = 3 * Len(FieldOrder)  BY OrderIs
    <3>2. at \in 0..Attributes /\ at' = at + 1  BY <1>4 DEF ParseY, TypeOK
    <3> QED  BY <3>1, <3>2, <2>1
  <2> DEFINE f == Field(at + 1)
             p == convertCoords(carry.x, config[f].y)
             m == [k |-> "P", f |-> f, flag |-> carry.flag, p |-> p]
  <2>3. m \in Messages
    <3>1. f \in Fields /\ config[f].y \in Byte  BY <2>1, AttributeOf
    <3>2. carry.x \in Byte /\ carry.flag \in {0, 48, 49}  BY DEF TypeOK
    <3>3. p \in Word  BY <3>1, <3>2, CoordsAre
    <3> HIDE DEF f, p
    <3> QED  BY <3>1, <3>2, <3>3 DEF Messages
  <2>4. wire' = Append(wire, m)  BY <1>4 DEF ParseY
  <2> HIDE DEF m
  <2>5. wire' \in Seq([k : {"P", "R"}, f : Fields, flag : {0, 48, 49}, p : Word])
    BY <2>3, <2>4 DEF Messages, TypeOK
  <2>6. Read'  BY <1>4 DEF ParseY, Read
  <2> QED  BY <1>4, <2>2, <2>5, <2>6, Zenon DEF ParseY, TypeOK
<1>5. CASE SendReset
  <2> DEFINE m == [k |-> "R", f |-> 0, flag |-> 0, p |-> 0]
  <2>1. m \in Messages
    <3>1. 0 \in Fields  BY LayoutAssumption DEF Fields
    <3>2. 0 \in Word  BY WordIs
    <3> QED  BY <3>1, <3>2 DEF Messages
  <2>2. wire' = Append(wire, m)  BY <1>5 DEF SendReset
  <2> HIDE DEF m
  <2>3. wire' \in Seq([k : {"P", "R"}, f : Fields, flag : {0, 48, 49}, p : Word])
    BY <2>1, <2>2 DEF Messages, TypeOK
  <2>4. Read'  BY <1>5 DEF SendReset, Read
  <2> QED  BY <1>5, <2>3, <2>4, Zenon DEF SendReset, TypeOK
<1>6. CASE SetScreenPosition
  <2> DEFINE m == Head(wire)
             v == Encoded(m.p, m.flag)
  <2>1. wire \in Seq(Messages) /\ wire # <<>> /\ wire' = Tail(wire)
    BY <1>6 DEF SetScreenPosition, TypeOK, Messages
  <2>2. m \in Messages /\ wire' \in Seq(Messages)  BY <2>1
  <2>3. m.p \in Word /\ m.f \in Fields  BY <2>2 DEF Messages
  <2>4. v \in Word  BY <2>3, EncodedType
  <2>5. screenPosition' = [screenPosition EXCEPT ![m.f] = v] /\ todo' = FieldWrites(m.f, v)
    BY <1>6 DEF SetScreenPosition
  <2> HIDE DEF m, v
  <2>6. screenPosition' \in [Fields -> Word]  BY <2>3, <2>4, <2>5 DEF TypeOK
  <2>7. todo' \in Seq([a : Addresses, byte : Byte])
    BY <2>3, <2>4, <2>5, FieldWritesAre DEF Writes
  <2>8. Read'  BY <1>6 DEF SetScreenPosition, Read
  <2> QED  BY <1>6, <2>2, <2>6, <2>7, <2>8, Zenon DEF SetScreenPosition, TypeOK, Messages
<1>7. CASE ResetRequest
  <2>1. wire' \in Seq([k : {"P", "R"}, f : Fields, flag : {0, 48, 49}, p : Word])
    BY <1>7 DEF ResetRequest, TypeOK
  <2>2. screenPosition' \in [Fields -> Word]
    BY <1>7, ReadLayoutType DEF ResetRequest, TypeOK
  <2>3. Read'  BY <1>7 DEF ResetRequest, Read
  <2> QED  BY <1>7, <2>1, <2>2, <2>3, Zenon DEF ResetRequest, TypeOK
<1>8. CASE WriteByte
  <2>1. todo \in Seq(Writes) /\ todo # <<>> /\ todo' = Tail(todo)
    BY <1>8 DEF WriteByte, TypeOK, Writes
  <2>2. todo' \in Seq([a : Addresses, byte : Byte]) /\ Head(todo).a \in Addresses /\ Head(todo).byte \in Byte
    <3>1. todo' \in Seq(Writes) /\ Head(todo) \in Writes  BY <2>1
    <3> QED  BY <3>1 DEF Writes
  <2>3. eeprom' \in [Addresses -> Byte]  BY <1>8, <2>2 DEF WriteByte, TypeOK
  <2>4. Read'  BY <1>8 DEF WriteByte, Read
  <2> QED  BY <1>8, <2>2, <2>3, <2>4, Zenon DEF WriteByte, TypeOK
<1>9. ASSUME Restarted, intact' \in BOOLEAN, torn' \in BOOLEAN PROVE TypeOK' /\ Read'
  <2>1. todo' \in Seq([a : Addresses, byte : Byte])
    <3>1. todo' = <<>> \/ todo' = DefaultWrites  BY <1>9 DEF Restarted
    <3>2. DefaultWrites \in Seq([a : Addresses, byte : Byte])  BY DefaultWritesAre DEF Writes
    <3>3. <<>> \in Seq([a : Addresses, byte : Byte])  OBVIOUS
    <3> QED  BY <3>1, <3>2, <3>3, Zenon
  <2>2. Read'  BY <1>9 DEF Restarted, Read
  <2>3. 0 \in Layouts  BY DEF Layouts
  <2> QED  BY <1>9, <2>1, <2>2, <2>3, Zenon DEF Restarted, TypeOK
<1>10. CASE Reset
  BY <1>9, <1>10 DEF Reset, TypeOK
<1>11. CASE PowerCut
  <2>1. intact' \in BOOLEAN /\ torn' \in BOOLEAN  BY <1>11, Zenon DEF PowerCut, TypeOK
  <2> QED  BY <1>9, <1>11, <2>1 DEF PowerCut
<1>12. CASE Setup
  <2>1. screenPosition' \in [Fields -> Word]
    BY <1>12, ReadLayoutType DEF Setup, TypeOK
  <2>2. Read'  BY <1>12 DEF Setup, Read
  <2> QED  BY <1>12, <2>1, <2>2, Zenon DEF Setup, TypeOK
<1>13. CASE SetupAgain
  <2>1. screenPosition' \in [Fields -> Word]
    BY <1>13, ReadLayoutType DEF SetupAgain, TypeOK
  <2>2. Read'  BY <1>13 DEF SetupAgain, Read
  <2> QED  BY <1>13, <2>1, <2>2, Zenon DEF SetupAgain, TypeOK
<1>14. CASE SwitchLayout
  <2>1. screenlayout' \in Layouts  BY <1>14 DEF SwitchLayout
  <2>2. screenPosition' \in [Fields -> Word]
    BY <1>14, <2>1, ReadLayoutType DEF SwitchLayout, TypeOK
  <2>3. Read'  BY <1>14 DEF SwitchLayout, Read
  <2> QED  BY <1>14, <2>1, <2>2, <2>3, Zenon DEF SwitchLayout, TypeOK
<1>15. CASE Lose
  <2>1. wire' \in Seq([k : {"P", "R"}, f : Fields, flag : {0, 48, 49}, p : Word])
    BY <1>15 DEF Lose, TypeOK
  <2>2. Read'  BY <1>15 DEF Lose, Read
  <2> QED  BY <1>15, <2>1, <2>2, Zenon DEF Lose, TypeOK
<1>16. CASE CameraChange
  <2>1. camera' \in {0, 1}  BY <1>16 DEF CameraChange, TypeOK
  <2>2. Read'  BY <1>16 DEF CameraChange, Read
  <2> QED  BY <1>16, <2>1, <2>2, Zenon DEF CameraChange, TypeOK
<1>17. CASE UNCHANGED vars
  BY <1>17, Zenon DEF vars, TypeOK, Read
<1> QED  BY <1>1, <1>2, <1>3, <1>4, <1>5, <1>6, <1>7, <1>8, <1>10, <1>11, <1>12, <1>13, <1>14, <1>15,
            <1>16, <1>17 DEF Next

(* Every variable keeps its type: no position is sent, stored or read that does not fit
   its sixteen bits. *)
THEOREM LayoutTypeCorrect == Spec => []TypeOK
<1>1. Typed => TypeOK  BY DEF Typed
<1> QED  BY InitTyped, NextTyped, <1>1, PTL DEF Spec

-----------------------------------------------------------------------------
(* The EEPROM.  A byte is settled when it holds a value already or the writes still to be
   made give it that value, and none gives it another. *)
Settled(a, b) == /\ \A i \in DOMAIN todo : todo[i].a = a => todo[i].byte = b
                 /\ eeprom[a] = b \/ \E i \in DOMAIN todo : todo[i].a = a
Kept(l, f, v) == \A p \in {0, 1} : Settled(Cell(l, f, p), Half(v, p))

(* checkEEPROM and setScreenPosition are over once the version is there. *)
Memory == /\ Settled(Version, EEPROMVER)
          /\ osd = "run" => eeprom[Version] = EEPROMVER
          /\ eeprom[Standard] # 1
          /\ \A i \in DOMAIN todo : todo[i].a = Standard => todo[i].byte # 1
Whole == ~torn => \A l \in Layouts, f \in Fields : \E v : Fit(v) /\ Kept(l, f, v)
Shown == osd = "run" /\ ~torn => \A f \in Fields : fieldIsVisible(f) => getPosition(f) < ROWS * COLS

(* The ways a step treats the EEPROM. *)
LEMMA MemorySteps == ASSUME [Next]_vars
  PROVE \/ eeprom' = eeprom /\ todo' = todo /\ (osd' = osd \/ (osd' = "run" /\ todo = <<>>))
        \/ WriteByte
        \/ SetScreenPosition
        \/ (Reset \/ PowerCut) /\ Restarted
<1> USE DEF hostSide, memory, reading
<1>1. ASSUME UNCHANGED <<eeprom, todo, osd>>
      PROVE eeprom' = eeprom /\ todo' = todo /\ (osd' = osd \/ (osd' = "run" /\ todo = <<>>))
  BY <1>1
<1>2. CASE UNCHANGED vars
  <2>1. UNCHANGED <<eeprom, todo, osd>>  BY <1>2 DEF vars
  <2> QED  BY <1>1, <2>1
<1>3. CASE HostStart \/ ParseVisibility \/ ParseX \/ ParseY \/ SendReset
  <2>1. UNCHANGED <<eeprom, todo, osd>>
    BY <1>3 DEF HostStart, ParseVisibility, ParseX, ParseY, SendReset
  <2> QED  BY <1>1, <2>1
<1>4. CASE ResetRequest \/ SetupAgain \/ SwitchLayout \/ Lose \/ CameraChange
  <2>1. UNCHANGED <<eeprom, todo, osd>>
    BY <1>4 DEF ResetRequest, SetupAgain, SwitchLayout, Lose, CameraChange
  <2> QED  BY <1>1, <2>1
<1>5. CASE Setup
  BY <1>5 DEF Setup
<1>6. CASE Reset \/ PowerCut
  BY <1>6 DEF Reset, PowerCut
<1> QED  BY <1>2, <1>3, <1>4, <1>5, <1>6 DEF Next

LEMMA TailIs == ASSUME NEW S, NEW s \in Seq(S), s # <<>>
  PROVE /\ Tail(s) \in Seq(S) /\ Head(s) = s[1] /\ Head(s) \in S
        /\ 1 \in DOMAIN s
        /\ \A i \in DOMAIN Tail(s) : i \in Nat \ {0} /\ i + 1 \in DOMAIN s /\ Tail(s)[i] = s[i + 1]
        /\ \A i \in DOMAIN s : i # 1 => i - 1 \in DOMAIN Tail(s) /\ Tail(s)[i - 1] = s[i]
OBVIOUS

(* Making a write leaves a settled byte settled. *)
LEMMA WrittenSettled == ASSUME TypeOK, WriteByte, NEW a \in Addresses, NEW b, Settled(a, b)
                        PROVE Settled(a, b)'
<1>1. todo \in Seq(Writes) /\ todo # <<>> /\ todo' = Tail(todo)
  BY DEF WriteByte, TypeOK, Writes
<1>2. /\ Head(todo) = todo[1] /\ 1 \in DOMAIN todo
      /\ \A i \in DOMAIN Tail(todo) : i + 1 \in DOMAIN todo /\ Tail(todo)[i] = todo[i + 1]
      /\ \A i \in DOMAIN todo : i # 1 => i - 1 \in DOMAIN Tail(todo) /\ Tail(todo)[i - 1] = todo[i]
  BY <1>1, TailIs
<1>3. eeprom \in [Addresses -> Byte] /\ eeprom' = [eeprom EXCEPT ![todo[1].a] = todo[1].byte]
  BY <1>2 DEF WriteByte, TypeOK
<1>4. \A i \in DOMAIN todo' : todo'[i].a = a => todo'[i].byte = b
  BY <1>1, <1>2 DEF Settled
<1>5. CASE todo[1].a = a
  <2>1. todo[1].byte = b  BY <1>2, <1>5 DEF Settled
  <2>2. eeprom'[a] = b  BY <1>3, <1>5, <2>1
  <2> QED  BY <1>4, <2>2 DEF Settled
<1>6. CASE todo[1].a # a
  <2>1. eeprom'[a] = eeprom[a]  BY <1>3, <1>6
  <2>2. eeprom[a] = b \/ \E i \in DOMAIN todo : i # 1 /\ todo[i].a = a  BY <1>6 DEF Settled
  <2>3. eeprom'[a] = b \/ \E i \in DOMAIN todo' : todo'[i].a = a
    BY <1>1, <1>2, <2>1, <2>2
  <2> QED  BY <1>4, <2>3 DEF Settled
<1> QED  BY <1>5, <1>6

LEMMA QuietSettled == ASSUME eeprom' = eeprom, todo' = todo, NEW a, NEW b, Settled(a, b)
                      PROVE Settled(a, b)'
BY DEF Settled

LEMMA IdleSettled == ASSUME todo = <<>>, NEW a, NEW b
                     PROVE Settled(a, b) <=> eeprom[a] = b
BY DEF Settled

(* What the code that takes a position writes settles that field's bytes and no others. *)
LEMMA PlacedSettled == ASSUME todo = <<>>, eeprom' = eeprom, NEW f \in Fields, NEW v \in Word,
                              todo' = FieldWrites(f, v)
  PROVE /\ \A l \in Layouts, p \in {0, 1} : Settled(Cell(l, f, p), Half(v, p))'
        /\ \A a, b : (\A l, p : a # Cell(l, f, p)) /\ Settled(a, b) => Settled(a, b)'
<1>1. ASSUME NEW l \in Layouts, NEW p \in {0, 1} PROVE Settled(Cell(l, f, p), Half(v, p))'
  <2>1. \E i \in DOMAIN todo' : todo'[i].a = Cell(l, f, p)  BY FieldWritesAre
  <2>2. \A i \in DOMAIN todo' : todo'[i].a = Cell(l, f, p) => todo'[i].byte = Half(v, p)
    <3> SUFFICES ASSUME NEW i \in DOMAIN todo', todo'[i].a = Cell(l, f, p)
                 PROVE todo'[i].byte = Half(v, p)
      OBVIOUS
    <3>1. PICK l2 \in Layouts, p2 \in {0, 1} : todo'[i].a = Cell(l2, f, p2) /\ todo'[i].byte = Half(v, p2)
      <4>1. i \in DOMAIN FieldWrites(f, v) /\ todo'[i] = FieldWrites(f, v)[i]  OBVIOUS
      <4> QED  BY <4>1, FieldWritesAre
    <3>2. Cell(l2, f, p2) = Cell(l, f, p)  BY <3>1
    <3>3. p2 = p  BY <3>2 DEF Cell
    <3> QED  BY <3>1, <3>3
  <2> QED  BY <2>1, <2>2 DEF Settled
<1>2. ASSUME NEW a, NEW b, \A l, p : a # Cell(l, f, p), Settled(a, b) PROVE Settled(a, b)'
  <2>1. eeprom[a] = b  BY <1>2, IdleSettled
  <2>2. \A i \in DOMAIN todo' : todo'[i].a # a  BY <1>2, FieldWritesAre
  <2> QED  BY <2>1, <2>2 DEF Settled
<1> QED  BY <1>1, <1>2

(* A restart that finds no write cut short finds the version, and writes nothing. *)
LEMMA RestartedIdle == ASSUME Memory, Restarted, todo = <<>>
                       PROVE eeprom' = eeprom /\ todo' = todo /\ eeprom[Version] = EEPROMVER
<1>1. eeprom[Version] = EEPROMVER  BY IdleSettled DEF Memory
<1> QED  BY <1>1 DEF Restarted

LEMMA PositionTaken == ASSUME TypeOK, SetScreenPosition
  PROVE /\ osd = "run" /\ todo = <<>> /\ eeprom' = eeprom /\ osd' = osd
        /\ Head(wire) \in Messages /\ Head(wire).f \in Fields /\ Head(wire).p \in Nat
        /\ Encoded(Head(wire).p, Head(wire).flag) \in Word
        /\ todo' = FieldWrites(Head(wire).f, Encoded(Head(wire).p, Head(wire).flag))
        /\ screenPosition' = [screenPosition EXCEPT ![Head(wire).f] = Encoded(Head(wire).p, Head(wire).flag)]
<1>1. wire \in Seq(Messages) /\ wire # <<>>  BY DEF SetScreenPosition, TypeOK, Messages
<1>2. Head(wire) \in Messages  BY <1>1
<1>3. Head(wire).f \in Fields /\ Head(wire).p \in Word  BY <1>2 DEF Messages
<1>4. Encoded(Head(wire).p, Head(wire).flag) \in Word /\ Head(wire).p \in Nat
  BY <1>3, EncodedType, WordIs
<1> QED  BY <1>2, <1>3, <1>4 DEF SetScreenPosition, Running

-----------------------------------------------------------------------------
(* The version and the video standard. *)
LEMMA InitMemory == Init => Memory
<1> SUFFICES ASSUME Init PROVE Memory
  OBVIOUS
<1>1. todo = DefaultWrites /\ osd = "check" /\ eeprom = Erased  BY DEF Init
<1>2. \A i \in DOMAIN todo : /\ todo[i].a = Version => todo[i].byte = EEPROMVER
                             /\ todo[i].a = Standard => todo[i].byte = 2
  BY <1>1, DefaultWritesAre, DifferentCells
<1>3. \E i \in DOMAIN todo : todo[i].a = Version
  <2>1. 1 \in DOMAIN todo  BY <1>1, DefaultWritesAre
  <2>2. todo[1].a = Version  BY <1>1, DefaultWritesAre DEF Put
  <2> QED  BY <2>1, <2>2
<1>4. eeprom[Standard] = 255  BY <1>1, AddressIs DEF Erased
<1> QED  BY <1>1, <1>2, <1>3, <1>4 DEF Memory, Settled

LEMMA NextMemory == TypeOK /\ Memory /\ [Next]_vars => Memory'
<1> SUFFICES ASSUME TypeOK, Memory, [Next]_vars PROVE Memory'
  OBVIOUS
<1>1. CASE eeprom' = eeprom /\ todo' = todo /\ (osd' = osd \/ (osd' = "run" /\ todo = <<>>))
  <2>1. Settled(Version, EEPROMVER)'  BY <1>1, QuietSettled DEF Memory
  <2>2. osd' = "run" => eeprom'[Version] = EEPROMVER
    BY <1>1, IdleSettled DEF Memory
  <2> QED  BY <1>1, <2>1, <2>2 DEF Memory
<1>2. CASE WriteByte
  <2>1. todo \in Seq(Writes) /\ todo # <<>> /\ todo' = Tail(todo) /\ osd' = osd
    BY <1>2 DEF WriteByte, TypeOK, Writes
  <2>2. /\ Head(todo) = todo[1] /\ 1 \in DOMAIN todo
        /\ \A i \in DOMAIN Tail(todo) : i + 1 \in DOMAIN todo /\ Tail(todo)[i] = todo[i + 1]
    BY <2>1, TailIs
  <2>3. eeprom \in [Addresses -> Byte] /\ eeprom' = [eeprom EXCEPT ![todo[1].a] = todo[1].byte]
    BY <1>2, <2>2 DEF WriteByte, TypeOK
  <2>4. Settled(Version, EEPROMVER)'  BY <1>2, WrittenSettled, AddressIs DEF Memory
  <2>5. osd' = "run" => eeprom'[Version] = EEPROMVER
    BY <2>1, <2>2, <2>3, AddressIs DEF Memory, Settled
  <2>6. eeprom'[Standard] # 1
    BY <2>2, <2>3, AddressIs DEF Memory
  <2>7. \A i \in DOMAIN todo' : todo'[i].a = Standard => todo'[i].byte # 1
    BY <2>1, <2>2 DEF Memory
  <2> QED  BY <2>4, <2>5, <2>6, <2>7 DEF Memory
<1>3. CASE SetScreenPosition
  <2> DEFINE f == Head(wire).f
             v == Encoded(Head(wire).p, Head(wire).flag)
  <2>1. /\ todo = <<>> /\ eeprom' = eeprom /\ osd' = osd /\ f \in Fields /\ v \in Word
        /\ todo' = FieldWrites(f, v)
    BY <1>3, PositionTaken
  <2> HIDE DEF f, v
  <2>2. Settled(Version, EEPROMVER)'
    BY <2>1, PlacedSettled, DifferentCells DEF Memory
  <2>3. \A i \in DOMAIN todo' : todo'[i].a # Standard
    BY <2>1, FieldWritesAre, DifferentCells
  <2> QED  BY <2>1, <2>2, <2>3 DEF Memory
<1>4. CASE (Reset \/ PowerCut) /\ Restarted
  <2>1. eeprom' = eeprom /\ osd' = "check"  BY <1>4 DEF Restarted
  <2>2. CASE eeprom[Version] = EEPROMVER
    <3>1. todo' = <<>>  BY <1>4, <2>2 DEF Restarted
    <3> QED  BY <2>1, <2>2, <3>1 DEF Memory, Settled
  <2>3. CASE eeprom[Version] # EEPROMVER
    <3>1. todo' = DefaultWrites  BY <1>4, <2>3 DEF Restarted
    <3>2. \A i \in DOMAIN todo' : /\ todo'[i].a = Version => todo'[i].byte = EEPROMVER
                                  /\ todo'[i].a = Standard => todo'[i].byte = 2
      BY <3>1, DefaultWritesAre, DifferentCells
    <3>3. \E i \in DOMAIN todo' : todo'[i].a = Version
      <4>1. 1 \in DOMAIN todo'  BY <3>1, DefaultWritesAre
      <4>2. todo'[1].a = Version  BY <3>1, DefaultWritesAre DEF Put
      <4> QED  BY <4>1, <4>2
    <3> QED  BY <2>1, <3>2, <3>3 DEF Memory, Settled
  <2> QED  BY <2>2, <2>3
<1> QED  BY <1>1, <1>2, <1>3, <1>4, MemorySteps

-----------------------------------------------------------------------------
(* Without a write cut short, every layout holds, or is about to hold, positions that fit;
   and what is read from it is on the screen. *)
LEMMA InitWhole == Init => Whole /\ Shown
<1> SUFFICES ASSUME Init PROVE Whole /\ Shown
  OBVIOUS
<1>1. todo = DefaultWrites /\ osd = "check"  BY DEF Init
<1>2. ASSUME NEW l \in Layouts, NEW f \in Fields PROVE \E v : Fit(v) /\ Kept(l, f, v)
  <2>1. ASSUME NEW p \in {0, 1} PROVE Settled(Cell(l, f, p), Half(Default[f], p))
    <3>1. \E i \in DOMAIN todo : todo[i].a = Cell(l, f, p)  BY <1>1, DefaultWritesAre
    <3>2. ASSUME NEW i \in DOMAIN todo, todo[i].a = Cell(l, f, p)
          PROVE todo[i].byte = Half(Default[f], p)
      <4>1. PICK l2 \in Layouts, f2 \in Fields, p2 \in {0, 1} :
              todo[i].a = Cell(l2, f2, p2) /\ todo[i].byte = Half(Default[f2], p2)
        <5>1. todo[i].a # Version /\ todo[i].a # Standard  BY <3>2, DifferentCells
        <5> HIDE DEF Cell, Version, Standard
        <5> QED  BY <1>1, <5>1, DefaultWritesAre
      <4>2. Cell(l2, f2, p2) = Cell(l, f, p)  BY <3>2, <4>1
      <4>3. f2 = f /\ p2 = p  BY <4>2 DEF Cell
      <4> QED  BY <4>1, <4>3
    <3> QED  BY <3>1, <3>2 DEF Settled
  <2> QED  BY <2>1, DefaultFits DEF Kept
<1> QED  BY <1>1, <1>2 DEF Whole, Shown

LEMMA RestoredFits == ASSUME TypeOK, todo = <<>>, NEW l \in Layouts, NEW f \in Fields,
                             NEW v \in Word, Kept(l, f, v)
                      PROVE Stores(l, f) = v
<1>1. eeprom[Cell(l, f, 0)] = Half(v, 0) /\ eeprom[Cell(l, f, 1)] = Half(v, 1)
  BY IdleSettled DEF Kept
<1> QED  BY <1>1, Halves DEF Stores

LEMMA NextWhole == TypeOK /\ Memory /\ Whole /\ [Next]_vars => Whole'
<1> SUFFICES ASSUME TypeOK, Memory, Whole, [Next]_vars, ~torn',
                    NEW l \in Layouts, NEW f \in Fields
             PROVE \E v : Fit(v) /\ Kept(l, f, v)'
  BY DEF Whole
<1> USE DEF hostSide, memory, reading
<1>1. ~torn
  <2>1. UNCHANGED torn \/ torn' = (torn \/ todo # <<>>)
    <3>1. CASE PowerCut
      BY <3>1 DEF PowerCut
    <3>2. CASE Reset
      BY <3>2 DEF Reset
    <3>3. CASE HostStart \/ ParseVisibility \/ ParseX \/ ParseY \/ SendReset
      BY <3>3 DEF HostStart, ParseVisibility, ParseX, ParseY, SendReset
    <3>4. CASE SetScreenPosition \/ ResetRequest \/ WriteByte \/ Setup
      BY <3>4 DEF SetScreenPosition, ResetRequest, WriteByte, Setup
    <3>5. CASE SetupAgain \/ SwitchLayout \/ Lose \/ CameraChange
      BY <3>5 DEF SetupAgain, SwitchLayout, Lose, CameraChange
    <3>6. CASE UNCHANGED vars
      BY <3>6 DEF vars
    <3> QED  BY <3>1, <3>2, <3>3, <3>4, <3>5, <3>6 DEF Next
  <2> QED  BY <2>1
<1>2. PICK v : Fit(v) /\ Kept(l, f, v)  BY <1>1 DEF Whole
<1>3. CASE eeprom' = eeprom /\ todo' = todo
  BY <1>2, <1>3, QuietSettled DEF Kept
<1>4. CASE WriteByte
  BY <1>2, <1>4, WrittenSettled, AddressIs DEF Kept
<1>5. CASE SetScreenPosition
  <2> DEFINE g == Head(wire).f
             w == Encoded(Head(wire).p, Head(wire).flag)
  <2>1. /\ todo = <<>> /\ eeprom' = eeprom /\ g \in Fields /\ w \in Word
        /\ todo' = FieldWrites(g, w) /\ Fit(w)
    BY <1>5, PositionTaken, EncodedFits
  <2> HIDE DEF g, w
  <2>2. CASE g = f
    BY <2>1, <2>2, PlacedSettled DEF Kept
  <2>3. CASE g # f
    BY <1>2, <2>1, <2>3, PlacedSettled, DifferentCells DEF Kept
  <2> QED  BY <2>2, <2>3
<1>6. CASE (Reset \/ PowerCut) /\ Restarted
  <2>1. todo = <<>>  BY <1>6 DEF Reset, Running, PowerCut
  <2>2. eeprom' = eeprom /\ todo' = todo  BY <1>6, <2>1, RestartedIdle
  <2> QED  BY <1>3, <2>2
<1> QED  BY <1>3, <1>4, <1>5, <1>6, MemorySteps

(* A layout that is read when no write is under way shows what it holds. *)
LEMMA ReadShown == ASSUME TypeOK, Whole, ~torn, todo = <<>>, NEW l \in Layouts, NEW s, NEW f \in Fields,
                          ReadLayout(l, s)[f] \div 16384 = 3
                   PROVE ReadLayout(l, s)[f] % PosMask < ROWS * COLS
<1>1. PICK v : Fit(v) /\ Kept(l, f, v)  BY DEF Whole
<1>2. v \in Word  BY <1>1 DEF Fit
<1>3. Stores(l, f) = v  BY <1>1, <1>2, RestoredFits
<1>4. ReadLayout(l, s)[f] \in {v, Shifted(v)}  BY <1>3, ReadLayoutIs
<1> QED  BY <1>1, <1>4, FitOnScreen

LEMMA NextShown == TypeOK /\ Whole /\ Shown /\ [Next]_vars => Shown'
<1> SUFFICES ASSUME TypeOK, Whole, Shown, [Next]_vars, osd' = "run", ~torn',
                    NEW f \in Fields, fieldIsVisible(f)'
             PROVE (getPosition(f) < ROWS * COLS)'
  BY DEF Shown
<1> USE DEF hostSide, memory, reading
<1>1. ASSUME UNCHANGED <<osd, torn, screenPosition>> PROVE (getPosition(f) < ROWS * COLS)'
  BY <1>1 DEF Shown, fieldIsVisible, getPosition
<1>2. ASSUME ~torn, todo = <<>>, NEW l \in Layouts, NEW s, screenPosition' = ReadLayout(l, s)
      PROVE (getPosition(f) < ROWS * COLS)'
  <2>1. ReadLayout(l, s)[f] \div 16384 = 3  BY <1>2 DEF fieldIsVisible
  <2>2. ReadLayout(l, s)[f] % PosMask < ROWS * COLS  BY <1>2, <2>1, ReadShown
  <2> QED  BY <1>2, <2>2 DEF getPosition
<1>3. CASE UNCHANGED vars
  BY <1>1, <1>3 DEF vars
<1>4. CASE HostStart \/ ParseVisibility \/ ParseX \/ ParseY \/ SendReset
  BY <1>1, <1>4 DEF HostStart, ParseVisibility, ParseX, ParseY, SendReset
<1>5. CASE WriteByte \/ Lose \/ CameraChange
  BY <1>1, <1>5 DEF WriteByte, Lose, CameraChange
<1>6. CASE Reset \/ PowerCut
  <2>1. osd' = "check"  BY <1>6 DEF Reset, PowerCut, Restarted
  <2> QED  BY <2>1
<1>7. CASE SetScreenPosition
  <2> DEFINE g == Head(wire).f
             w == Encoded(Head(wire).p, Head(wire).flag)
  <2>1. /\ osd = "run" /\ ~torn /\ g \in Fields /\ Fit(w)
        /\ screenPosition' = [screenPosition EXCEPT ![g] = w] /\ screenPosition \in [Fields -> Word]
    BY <1>7, PositionTaken, EncodedFits DEF SetScreenPosition, TypeOK
  <2> HIDE DEF g, w
  <2>2. CASE g = f
    <3>1. screenPosition'[f] = w  BY <2>1, <2>2
    <3>2. w \div 16384 = 3  BY <3>1 DEF fieldIsVisible
    <3>3. w % PosMask < ROWS * COLS  BY <2>1, <3>2, FitOnScreen
    <3> QED  BY <3>1, <3>3 DEF getPosition
  <2>3. CASE g # f
    <3>1. screenPosition'[f] = screenPosition[f]  BY <2>1, <2>3
    <3> QED  BY <2>1, <3>1 DEF Shown, fieldIsVisible, getPosition
  <2> QED  BY <2>2, <2>3
<1>8. CASE ResetRequest \/ SetupAgain
  <2>1. todo = <<>> /\ ~torn /\ screenlayout \in Layouts
    BY <1>8 DEF ResetRequest, SetupAgain, Running, TypeOK
  <2>2. screenPosition' = ReadLayout(screenlayout, signaltype) \/ screenPosition' = ReadLayout(screenlayout, camera)
    BY <1>8 DEF ResetRequest, SetupAgain
  <2> QED  BY <1>2, <2>1, <2>2
<1>9. CASE Setup
  <2>1. todo = <<>> /\ ~torn /\ screenlayout \in Layouts /\ screenPosition' = ReadLayout(screenlayout, camera)
    BY <1>9 DEF Setup, TypeOK
  <2> QED  BY <1>2, <2>1
<1>10. CASE SwitchLayout
  <2>1. /\ todo = <<>> /\ ~torn /\ screenlayout' \in Layouts
        /\ screenPosition' = ReadLayout(screenlayout', signaltype)
    BY <1>10 DEF SwitchLayout, Running
  <2> QED  BY <1>2, <2>1
<1> QED  BY <1>3, <1>4, <1>5, <1>6, <1>7, <1>8, <1>9, <1>10 DEF Next

(* Whatever the configuration file holds, and whenever the OSD or its power restarts: unless
   power failed during a write to the EEPROM, each visible field begins inside the screen
   (setScreenPosition limits a position to the screen and to fourteen lines, and readEEPROM
   moves it down by two at most). *)
THEOREM FieldsOnScreen == Spec => []VisibleOnScreen
<1> DEFINE Inv == Typed /\ Memory /\ Whole /\ Shown
<1>1. Init => Inv  BY InitTyped, InitMemory, InitWhole
<1>2. Inv /\ [Next]_vars => Inv'
  <2>1. Typed => TypeOK  BY DEF Typed
  <2> QED  BY <2>1, NextTyped, NextMemory, NextWhole, NextShown
<1>3. Inv => VisibleOnScreen  BY DEF Shown, VisibleOnScreen, Running
<1> QED  BY <1>1, <1>2, <1>3, PTL DEF Spec

-----------------------------------------------------------------------------
(* The host's messages.  After each field it has sent, either a message with that field's
   place is under way and no later one contradicts it, or the EEPROM has it and none under
   way contradicts it. *)
Message(f) == [k |-> "P", f |-> f, flag |-> 48 + config[f].visibility,
               p |-> convertCoords(config[f].x, config[f].y)]
Sent(f) == \E j \in 1..(at \div 3) : FieldOrder[j] = f

Agrees(w, i, f, m) == \A j \in DOMAIN w : j >= i /\ w[j].k = "P" /\ w[j].f = f => w[j] = m
Awaited(w, f, m) == \E i \in DOMAIN w : w[i] = m /\ Agrees(w, i, f, m)

Ran == osd = "run" \/ (eeprom[Version] = EEPROMVER /\ todo = <<>>)
Wanted(f) == Encoded(Message(f).p, Message(f).flag)
Held(f) == \A l \in Layouts : Kept(l, f, Wanted(f))
Stored(f) == Agrees(wire, 0, f, Message(f)) /\ Ran /\ Held(f)

Parsed == /\ host = "off" => at = 0
          /\ host = "started" => at = Attributes
          /\ host = "parsing" /\ at < Attributes /\ at % 3 # 0 =>
               carry.flag = 48 + config[Field(at + 1)].visibility
          /\ host = "parsing" /\ at < Attributes /\ at % 3 = 2 =>
               carry.x = config[Field(at + 1)].x
Taken == intact => /\ host # "off"
                   /\ \A f \in Fields : Sent(f) => Awaited(wire, f, Message(f)) \/ Stored(f)
Finished ==
  intact /\ host = "started" =>
    IF wire = <<>>
    THEN Ran /\ todo = <<>> /\ (osd = "run" => screenPosition = ReadLayout(screenlayout, signaltype))
    ELSE wire[Len(wire)].k = "R"

(* A queue that grows at its end and is read from its front. *)
LEMMA AppendIs == ASSUME NEW S, NEW s \in Seq(S), NEW e \in S
  PROVE /\ Append(s, e) \in Seq(S) /\ Append(s, e) # <<>>
        /\ Len(Append(s, e)) = Len(s) + 1 /\ Len(s) \in Nat /\ DOMAIN s = 1..Len(s)
        /\ DOMAIN Append(s, e) = 1..(Len(s) + 1)
        /\ Append(s, e)[Len(s) + 1] = e
        /\ \A i \in DOMAIN s : Append(s, e)[i] = s[i]
OBVIOUS

LEMMA SentLast == ASSUME NEW w \in Seq(Messages), NEW m \in Messages, NEW f
                  PROVE m.f = f => Awaited(Append(w, m), f, m)
<1> DEFINE s == Append(w, m)
           n == Len(w) + 1
<1>1. DOMAIN s = 1..n /\ n \in Nat \ {0} /\ s[n] = m  BY AppendIs
<1> HIDE DEF s, n
<1>2. n \in DOMAIN s  BY <1>1
<1>3. \A j \in DOMAIN s : j >= n => j = n  BY <1>1
<1> QED  BY <1>1, <1>2, <1>3 DEF Awaited, Agrees, s

LEMMA SentOther == ASSUME NEW w \in Seq(Messages), NEW e \in Messages, NEW f, NEW m,
                          e.k # "P" \/ e.f # f
  PROVE /\ Agrees(w, 0, f, m) => Agrees(Append(w, e), 0, f, m)
        /\ Awaited(w, f, m) => Awaited(Append(w, e), f, m)
<1> DEFINE s == Append(w, e)
           n == Len(w) + 1
<1>1. /\ DOMAIN s = 1..n /\ n \in Nat \ {0} /\ s[n] = e /\ DOMAIN w = 1..(n - 1)
      /\ \A i \in DOMAIN w : s[i] = w[i]
  BY AppendIs
<1> HIDE DEF s, n
<1>2. \A j \in DOMAIN s : j # n => j \in DOMAIN w  BY <1>1
<1>3. \A i : Agrees(w, i, f, m) => Agrees(s, i, f, m)  BY <1>1, <1>2 DEF Agrees
<1>4. \A i \in DOMAIN w : i \in DOMAIN s  BY <1>1
<1>5. Awaited(w, f, m) => Awaited(s, f, m)  BY <1>1, <1>3, <1>4 DEF Awaited
<1> QED  BY <1>3, <1>5 DEF s

LEMMA TakenOut == ASSUME NEW w \in Seq(Messages), w # <<>>, NEW f, NEW m
  PROVE /\ Agrees(w, 0, f, m) => Agrees(Tail(w), 0, f, m)
        /\ Awaited(w, f, m) => Awaited(Tail(w), f, m) \/ (w[1] = m /\ Agrees(Tail(w), 0, f, m))
<1> DEFINE t == Tail(w)
<1>1. /\ \A i \in DOMAIN t : i \in Nat \ {0} /\ i + 1 \in DOMAIN w /\ t[i] = w[i + 1]
      /\ \A i \in DOMAIN w : i # 1 => i - 1 \in DOMAIN t /\ t[i - 1] = w[i]
      /\ \A i \in DOMAIN w : i \in Nat \ {0}
  BY TailIs
<1> HIDE DEF t
<1>2. ASSUME NEW i \in Nat, Agrees(w, i + 1, f, m) PROVE Agrees(t, i, f, m)
  <2> SUFFICES ASSUME NEW j \in DOMAIN t, j >= i, t[j].k = "P", t[j].f = f PROVE t[j] = m
    BY DEF Agrees
  <2>1. j + 1 \in DOMAIN w /\ t[j] = w[j + 1] /\ j + 1 >= i + 1  BY <1>1
  <2> QED  BY <1>2, <2>1 DEF Agrees
<1>3. Agrees(w, 0, f, m) => Agrees(w, 0 + 1, f, m)  BY <1>1 DEF Agrees
<1>4. Agrees(w, 0, f, m) => Agrees(t, 0, f, m)  BY <1>2, <1>3
<1>5. ASSUME Awaited(w, f, m) PROVE Awaited(t, f, m) \/ (w[1] = m /\ Agrees(t, 0, f, m))
  <2>1. PICK i \in DOMAIN w : w[i] = m /\ Agrees(w, i, f, m)  BY <1>5 DEF Awaited
  <2>2. CASE i = 1
    <3>1. Agrees(w, 0 + 1, f, m)  BY <2>1, <2>2
    <3> QED  BY <1>2, <2>1, <2>2, <3>1
  <2>3. CASE i # 1
    <3>1. i - 1 \in DOMAIN t /\ t[i - 1] = m /\ i - 1 \in Nat /\ (i - 1) + 1 = i
      BY <1>1, <2>1, <2>3
    <3>2. Agrees(t, i - 1, f, m)  BY <1>2, <2>1, <3>1
    <3> QED  BY <3>1, <3>2 DEF Awaited
  <2> QED  BY <2>2, <2>3
<1> QED  BY <1>4, <1>5 DEF t

(* The place of a field of the file is a message. *)
LEMMA MessageIs == ASSUME Read, host # "off", NEW f \in Named
  PROVE /\ f \in Fields /\ config[f] \in [x : Byte, y : Byte, visibility : {0, 1}]
        /\ Message(f) \in Messages /\ Message(f).f = f /\ Message(f).p \in Nat
        /\ Wanted(f) \in Word
<1>1. f \in Fields  BY OrderIs
<1>2. config[f] \in Places  BY DEF Read
<1>3. Places \subseteq [x : Byte, y : Byte, visibility : {0, 1}]  BY LayoutAssumption
<1>4. config[f] \in [x : Byte, y : Byte, visibility : {0, 1}]  BY <1>2, <1>3
<1> DEFINE p == convertCoords(config[f].x, config[f].y)
           flag == 48 + config[f].visibility
<1>5. p \in Word  BY <1>4, CoordsAre
<1>6. flag \in {0, 48, 49}  BY <1>4, FlagIs
<1>7. Message(f) = [k |-> "P", f |-> f, flag |-> flag, p |-> p]  BY DEF Message
<1> HIDE DEF p, flag
<1>8. Message(f) \in Messages /\ Message(f).f = f /\ Message(f).p = p
  BY <1>1, <1>5, <1>6, <1>7 DEF Messages
<1> QED  BY <1>1, <1>4, <1>5, <1>8, EncodedType, WordIs DEF Wanted

LEMMA SentNamed == ASSUME TypeOK, NEW f, Sent(f) PROVE f \in Named
<1>1. FieldOrder \in Seq(Fields) /\ Attributes = 3 * Len(FieldOrder) /\ at \in 0..Attributes
  BY OrderIs DEF TypeOK
<1>2. PICK j \in 1..(at \div 3) : FieldOrder[j] = f  BY DEF Sent
<1>3. Len(FieldOrder) \in Nat  BY <1>1
<1>4. j \in 1..Len(FieldOrder)  BY <1>1, <1>2, <1>3
<1> QED  BY <1>1, <1>2, <1>4 DEF Named

-----------------------------------------------------------------------------
(* What the parser keeps between two attributes is what the file says. *)
LEMMA InitParsed == Init => Parsed
BY DEF Init, Parsed

LEMMA NextAttribute == ASSUME TypeOK, host = "parsing", at < Attributes
  PROVE /\ at \in Nat /\ at + 1 \in Nat
        /\ at % 3 = 0 => (at + 1) % 3 = 1 /\ (at + 1) \div 3 = at \div 3
        /\ at % 3 = 1 => (at + 1) % 3 = 2 /\ (at + 1) \div 3 = at \div 3
        /\ at % 3 = 2 => (at + 1) % 3 = 0 /\ (at + 1) \div 3 = (at \div 3) + 1
        /\ at % 3 # 2 => Field((at + 1) + 1) = Field(at + 1)
<1>1. at \in Nat
  <2>1. Len(FieldOrder) \in Nat /\ Attributes = 3 * Len(FieldOrder)  BY OrderIs
  <2>2. at \in 0..Attributes  BY DEF TypeOK
  <2> QED  BY <2>1, <2>2
<1>2. /\ at % 3 = 0 => (at + 1) % 3 = 1 /\ (at + 1) \div 3 = at \div 3
      /\ at % 3 = 1 => (at + 1) % 3 = 2 /\ (at + 1) \div 3 = at \div 3
      /\ at % 3 = 2 => (at + 1) % 3 = 0 /\ (at + 1) \div 3 = (at \div 3) + 1
      /\ at % 3 = 0 \/ at % 3 = 1 \/ at % 3 = 2
      /\ (at + 1) - 1 = at /\ ((at + 1) + 1) - 1 = at + 1
  BY <1>1
<1> QED  BY <1>1, <1>2 DEF Field

LEMMA NextParsed == Typed /\ Parsed /\ [Next]_vars => Parsed'
<1> SUFFICES ASSUME TypeOK, Read, Parsed, [Next]_vars PROVE Parsed'
  BY DEF Typed
<1> USE DEF hostSide, memory, reading
<1>1. ASSUME UNCHANGED hostSide PROVE Parsed'
  BY <1>1 DEF Parsed, Field, Attributes
<1>2. CASE HostStart
  <2>1. 0 % 3 = 0 /\ ~(0 % 3 = 2)  OBVIOUS
  <2> QED  BY <1>2, <2>1 DEF HostStart, Parsed
<1>3. CASE ParseVisibility
  <2>1. host = "parsing" /\ at < Attributes /\ at % 3 = 0 /\ at' = at + 1 /\ host' = host /\ config' = config
    BY <1>3 DEF ParseVisibility
  <2>2. at' % 3 = 1 /\ Field(at' + 1) = Field(at + 1)  BY <2>1, NextAttribute
  <2>3. carry'.flag = 48 + config[Field(at + 1)].visibility  BY <1>3 DEF ParseVisibility, TypeOK
  <2> QED  BY <2>1, <2>2, <2>3 DEF Parsed, Field
<1>4. CASE ParseX
  <2>1. host = "parsing" /\ at < Attributes /\ at % 3 = 1 /\ at' = at + 1 /\ host' = host /\ config' = config
    BY <1>4 DEF ParseX
  <2>2. at' % 3 = 2 /\ Field(at' + 1) = Field(at + 1)  BY <2>1, NextAttribute
  <2>3. carry'.x = config[Field(at + 1)].x /\ carry'.flag = carry.flag
    BY <1>4 DEF ParseX, TypeOK
  <2>4. carry.flag = 48 + config[Field(at + 1)].visibility  BY <2>1 DEF Parsed
  <2> QED  BY <2>1, <2>2, <2>3, <2>4 DEF Parsed, Field
<1>5. CASE ParseY
  <2>1. host = "parsing" /\ at < Attributes /\ at % 3 = 2 /\ at' = at + 1 /\ host' = host
    BY <1>5 DEF ParseY
  <2>2. at' % 3 = 0  BY <2>1, NextAttribute
  <2> QED  BY <2>1, <2>2 DEF Parsed
<1>6. CASE SendReset
  BY <1>6 DEF SendReset, Parsed
<1>7. CASE SetScreenPosition \/ ResetRequest \/ WriteByte \/ Reset \/ PowerCut \/ Setup
  BY <1>1, <1>7 DEF SetScreenPosition, ResetRequest, WriteByte, Reset, PowerCut, Restarted, Setup
<1>8. CASE SetupAgain \/ SwitchLayout \/ Lose \/ CameraChange
  BY <1>1, <1>8 DEF SetupAgain, SwitchLayout, Lose, CameraChange
<1>9. CASE UNCHANGED vars
  BY <1>1, <1>9 DEF vars
<1> QED  BY <1>2, <1>3, <1>4, <1>5, <1>6, <1>7, <1>8, <1>9 DEF Next

-----------------------------------------------------------------------------
(* What the EEPROM holds of the file stays there, until the file changes. *)
Quiet == eeprom' = eeprom /\ todo' = todo /\ (osd' = osd \/ osd' = "run")

LEMMA StillHeld ==
  ASSUME TypeOK, Read, Memory, config' = config, host # "off", NEW f \in Named, Ran, Held(f),
         \/ Quiet
         \/ WriteByte
         \/ SetScreenPosition /\ (Head(wire).f # f \/ Head(wire) = Message(f))
         \/ Restarted /\ (osd = "run" => todo = <<>>)
  PROVE Ran' /\ Held(f)'
<1> USE DEF hostSide, memory, reading
<1>1. PICK v \in Word : v = Wanted(f)  BY MessageIs
<1>2. v \in Word /\ f \in Fields /\ Wanted(f)' = v  BY <1>1, MessageIs DEF Wanted, Message
<1>3. \A l \in Layouts : Kept(l, f, v)  BY <1>1 DEF Held
<1>4. (\A l \in Layouts : \A p \in {0, 1} : Settled(Cell(l, f, p), Half(v, p))') => Held(f)'
  <2>1. \A l : (\A p \in {0, 1} : Settled(Cell(l, f, p), Half(v, p))') => Kept(l, f, v)'
    BY DEF Kept
  <2> QED  BY <1>2, <2>1 DEF Held
<1>5. CASE Quiet
  <2>1. Ran'  BY <1>5 DEF Ran, Quiet
  <2>2. Held(f)'  BY <1>3, <1>4, <1>5, QuietSettled DEF Kept, Quiet
  <2> QED  BY <2>1, <2>2
<1>6. CASE WriteByte
  <2>1. Ran'  BY <1>6 DEF WriteByte, Ran
  <2>2. \A l \in Layouts : \A p \in {0, 1} : Settled(Cell(l, f, p), Half(v, p))'
    BY <1>2, <1>3, <1>6, WrittenSettled, AddressIs DEF Kept
  <2> QED  BY <1>4, <2>1, <2>2
<1>7. CASE SetScreenPosition /\ (Head(wire).f # f \/ Head(wire) = Message(f))
  <2>0. PICK g \in Fields, w \in Word : g = Head(wire).f /\ w = Encoded(Head(wire).p, Head(wire).flag)
    BY <1>7, PositionTaken
  <2>1. /\ osd' = "run" /\ todo = <<>> /\ eeprom' = eeprom /\ g \in Fields /\ w \in Word
        /\ todo' = FieldWrites(g, w)
    BY <1>7, <2>0, PositionTaken
  <2>2. g = f => w = v
    <3>1. SUFFICES ASSUME g = f PROVE w = v
      OBVIOUS
    <3>2. Head(wire) = Message(f)  BY <1>7, <2>0, <3>1
    <3> QED  BY <1>1, <2>0, <3>2 DEF Wanted
  <2>3. Ran'  BY <2>1 DEF Ran
  <2>4. CASE g = f
    <3>1. \A l \in Layouts : \A p \in {0, 1} : Settled(Cell(l, f, p), Half(v, p))'
      BY <2>1, <2>2, <2>4, PlacedSettled
    <3> QED  BY <1>4, <2>3, <3>1
  <2>5. CASE g # f
    <3>1. ASSUME NEW l \in Layouts, NEW p \in {0, 1} PROVE Settled(Cell(l, f, p), Half(v, p))'
      <4>1. \A l2, p2 : Cell(l, f, p) # Cell(l2, g, p2)  BY <2>5 DEF Cell
      <4>2. Settled(Cell(l, f, p), Half(v, p))  BY <1>3 DEF Kept
      <4> QED  BY <2>1, <4>1, <4>2, PlacedSettled
    <3> QED  BY <1>4, <2>3, <3>1
  <2> QED  BY <2>4, <2>5
<1>8. CASE Restarted /\ (osd = "run" => todo = <<>>)
  <2>1. todo = <<>>  BY <1>8 DEF Ran
  <2>2. eeprom' = eeprom /\ todo' = todo /\ eeprom[Version] = EEPROMVER
    BY <1>8, <2>1, RestartedIdle
  <2>3. Ran'  BY <2>1, <2>2 DEF Ran
  <2>4. Held(f)'  BY <1>3, <1>4, <2>2, QuietSettled DEF Kept
  <2> QED  BY <2>3, <2>4
<1> QED  BY <1>5, <1>6, <1>7, <1>8

LEMMA InitTaken == Init => Taken /\ Finished
BY DEF Init, Taken, Finished

LEMMA NextTaken == Typed /\ Memory /\ Parsed /\ Taken /\ [Next]_vars => Taken'
<1> SUFFICES ASSUME TypeOK, Read, Memory, Parsed, Taken, [Next]_vars, intact' PROVE Taken'
  BY DEF Typed, Taken
<1> USE DEF hostSide, memory, reading
<1>0. wire \in Seq(Messages)  BY DEF TypeOK, Messages
<1>1. CASE HostStart
  <2>1. at' = 0 /\ host' = "parsing"  BY <1>1 DEF HostStart
  <2>2. \A f : ~Sent(f)'
    <3>1. 1..(0 \div 3) = {}  OBVIOUS
    <3> QED  BY <2>1, <3>1 DEF Sent
  <2> QED  BY <2>1, <2>2 DEF Taken
(* A step of the host or of nobody, that sends nothing for field f. *)
<1>2. ASSUME intact, config' = config, host' # "off", NEW f \in Fields, Sent(f),
             wire' = wire \/ \E e \in Messages : wire' = Append(wire, e) /\ (e.k # "P" \/ e.f # f),
             Quiet, host # "off"
      PROVE (Awaited(wire, f, Message(f)) \/ Stored(f))'
  <2>1. f \in Named  BY <1>2, SentNamed
  <2>2. Message(f)' = Message(f)  BY <1>2 DEF Message
  <2>3. /\ Agrees(wire, 0, f, Message(f)) => Agrees(wire', 0, f, Message(f))
        /\ Awaited(wire, f, Message(f)) => Awaited(wire', f, Message(f))
    BY <1>0, <1>2, SentOther
  <2>4. Awaited(wire, f, Message(f)) \/ Stored(f)  BY <1>2 DEF Taken
  <2>5. CASE Awaited(wire, f, Message(f))
    <3>1. Awaited(wire', f, Message(f)')  BY <2>2, <2>3, <2>5
    <3> QED  BY <3>1
  <2>6. CASE Stored(f)
    <3>1. Agrees(wire', 0, f, Message(f)')  BY <2>2, <2>3, <2>6 DEF Stored
    <3>2. Ran' /\ Held(f)'  BY <1>2, <2>1, <2>6, StillHeld DEF Stored
    <3> QED  BY <3>1, <3>2 DEF Stored
  <2> QED  BY <2>4, <2>5, <2>6
<1>3. ASSUME intact, config' = config, host' # "off", host # "off", at' \div 3 = at \div 3, wire' = wire,
             Quiet
      PROVE Taken'
  <2>1. \A f : Sent(f)' => Sent(f)  BY <1>3 DEF Sent
  <2> QED  BY <1>2, <1>3, <2>1 DEF Taken
<1>4. CASE ParseVisibility
  <2>1. /\ host = "parsing" /\ at < Attributes /\ at % 3 = 0 /\ at' = at + 1 /\ host' = host
        /\ config' = config /\ wire' = wire /\ intact' = intact /\ Quiet
    BY <1>4 DEF ParseVisibility, Quiet
  <2>2. at' \div 3 = at \div 3  BY <2>1, NextAttribute
  <2> QED  BY <1>3, <2>1, <2>2
<1>5. CASE ParseX
  <2>1. /\ host = "parsing" /\ at < Attributes /\ at % 3 = 1 /\ at' = at + 1 /\ host' = host
        /\ config' = config /\ wire' = wire /\ intact' = intact /\ Quiet
    BY <1>5 DEF ParseX, Quiet
  <2>2. at' \div 3 = at \div 3  BY <2>1, NextAttribute
  <2> QED  BY <1>3, <2>1, <2>2
<1>6. CASE ParseY
  <2>0. PICK g \in Named : g = Field(at + 1)  BY <1>6, AttributeOf DEF ParseY
  <2> DEFINE e == [k |-> "P", f |-> g, flag |-> carry.flag, p |-> convertCoords(carry.x, config[g].y)]
  <2>1. /\ host = "parsing" /\ at < Attributes /\ at % 3 = 2 /\ at' = at + 1 /\ host' = host
        /\ config' = config /\ wire' = Append(wire, e) /\ intact' = intact
    BY <1>6, <2>0 DEF ParseY
  <2>2. at' \div 3 = (at \div 3) + 1 /\ at \in Nat  BY <2>1, NextAttribute
  <2>3. Quiet  BY <1>6 DEF ParseY, Quiet
  <2>4. g \in Named /\ g = FieldOrder[(at \div 3) + 1]  BY <2>0, <2>1, AttributeOf
  <2>5. e = Message(g)
    <3>1. carry.flag = 48 + config[g].visibility /\ carry.x = config[g].x  BY <2>0, <2>1 DEF Parsed
    <3> QED  BY <3>1 DEF Message
  <2>6. e \in Messages /\ e.f = g  BY <2>1, <2>4, <2>5, MessageIs
  <2> HIDE DEF e
  <2>7. \A f : Sent(f)' => f = g \/ Sent(f)
    <3>1. \A j \in 1..((at \div 3) + 1) : j = (at \div 3) + 1 \/ j \in 1..(at \div 3)
      BY <2>2
    <3> QED  BY <2>2, <2>4, <3>1 DEF Sent
  <2>8. Awaited(wire, g, Message(g))'
    <3>1. Message(g)' = e  BY <2>1, <2>5 DEF Message
    <3>2. Awaited(wire', g, e)  BY <1>0, <2>1, <2>6, SentLast
    <3> QED  BY <3>1, <3>2
  <2>9. ASSUME NEW f \in Fields, Sent(f)' PROVE (Awaited(wire, f, Message(f)) \/ Stored(f))'
    <3>1. CASE f = g
      BY <2>8, <3>1
    <3>2. CASE f # g
      <4>1. Sent(f)  BY <2>7, <2>9, <3>2
      <4>2. \E e2 \in Messages : wire' = Append(wire, e2) /\ (e2.k # "P" \/ e2.f # f)
        BY <2>1, <2>6, <3>2
      <4> QED  BY <1>2, <2>1, <2>3, <4>1, <4>2
    <3> QED  BY <3>1, <3>2
  <2>10. host' # "off"  BY <2>1
  <2> QED  BY <2>9, <2>10 DEF Taken
<1>7. CASE SendReset
  <2> DEFINE e == [k |-> "R", f |-> 0, flag |-> 0, p |-> 0]
  <2>1. /\ host = "parsing" /\ at' = at /\ host' = "started"
        /\ config' = config /\ wire' = Append(wire, e) /\ intact' = intact
    BY <1>7 DEF SendReset
  <2>2. e \in Messages /\ e.k # "P"
    <3>1. 0 \in Fields  BY LayoutAssumption DEF Fields
    <3>2. 0 \in Word  BY WordIs
    <3> QED  BY <3>1, <3>2 DEF Messages
  <2> HIDE DEF e
  <2>3. Quiet  BY <1>7 DEF SendReset, Quiet
  <2>4. \A f : Sent(f)' => Sent(f)  BY <2>1 DEF Sent
  <2> QED  BY <1>2, <2>1, <2>2, <2>3, <2>4 DEF Taken
(* A step of the OSD that takes no message. *)
<1>8. ASSUME UNCHANGED hostSide, wire' = wire, intact,
             Quiet \/ WriteByte \/ (Restarted /\ (osd = "run" => todo = <<>>))
      PROVE Taken'
  <2>1. host' = host /\ config' = config /\ at' = at /\ host # "off"  BY <1>8 DEF Taken
  <2>2. ASSUME NEW f \in Fields, Sent(f)' PROVE (Awaited(wire, f, Message(f)) \/ Stored(f))'
    <3>1. Sent(f)  BY <2>1, <2>2 DEF Sent
    <3>2. f \in Named  BY <3>1, SentNamed
    <3>3. Message(f)' = Message(f)  BY <2>1 DEF Message
    <3>4. CASE Awaited(wire, f, Message(f))
      <4>1. Awaited(wire', f, Message(f)')  BY <1>8, <3>3, <3>4
      <4> QED  BY <4>1
    <3>5. CASE Stored(f)
      <4>1. Agrees(wire', 0, f, Message(f)')  BY <1>8, <3>3, <3>5 DEF Stored
      <4>2. Ran' /\ Held(f)'  BY <1>8, <2>1, <3>2, <3>5, StillHeld DEF Stored
      <4> QED  BY <4>1, <4>2 DEF Stored
    <3> QED  BY <1>8, <3>1, <3>4, <3>5 DEF Taken
  <2> QED  BY <2>1, <2>2 DEF Taken
<1>9. CASE SetScreenPosition
  <2>1. /\ UNCHANGED hostSide /\ wire # <<>> /\ wire' = Tail(wire) /\ intact /\ Head(wire).k = "P"
    BY <1>9 DEF SetScreenPosition
  <2>2. host' = host /\ config' = config /\ at' = at /\ host # "off"  BY <2>1 DEF Taken
  <2>3. Head(wire) = wire[1] /\ 1 \in DOMAIN wire  BY <1>0, <2>1, TailIs
  <2>4. ASSUME NEW f \in Fields, Sent(f)' PROVE (Awaited(wire, f, Message(f)) \/ Stored(f))'
    <3>1. Sent(f)  BY <2>2, <2>4 DEF Sent
    <3>2. f \in Named  BY <3>1, SentNamed
    <3>3. Message(f)' = Message(f)  BY <2>2 DEF Message
    <3>4. CASE Awaited(Tail(wire), f, Message(f))
      <4>1. Awaited(wire', f, Message(f)')  BY <2>1, <3>3, <3>4
      <4> QED  BY <4>1
    <3>5. CASE wire[1] = Message(f) /\ Agrees(Tail(wire), 0, f, Message(f))
      <4>1. Agrees(wire', 0, f, Message(f)')  BY <2>1, <3>3, <3>5
      <4>2. Ran' /\ Held(f)'
        <5>0. PICK v \in Word : v = Wanted(f)  BY <2>2, <3>2, MessageIs
        <5>1. v = Encoded(Head(wire).p, Head(wire).flag) /\ Head(wire).f = f
          BY <2>3, <3>5, <5>0 DEF Wanted, Message
        <5>2. /\ osd' = "run" /\ todo = <<>> /\ eeprom' = eeprom /\ v \in Word
              /\ todo' = FieldWrites(f, v)
          BY <1>9, <5>1, PositionTaken
        <5>3. Wanted(f)' = v  BY <2>2, <5>0 DEF Wanted, Message
        <5>4. \A l \in Layouts, p \in {0, 1} : Settled(Cell(l, f, p), Half(v, p))'
          BY <5>2, PlacedSettled
        <5>5. \A l \in Layouts : Kept(l, f, v)'
          BY <5>4 DEF Kept
        <5>6. Held(f)'  BY <5>3, <5>5 DEF Held
        <5> QED  BY <5>2, <5>6 DEF Ran
      <4> QED  BY <4>1, <4>2 DEF Stored
    <3>6. CASE Stored(f)
      <4>1. Agrees(Tail(wire), 0, f, Message(f))  BY <1>0, <2>1, <3>6, TakenOut DEF Stored
      <4>2. Agrees(wire', 0, f, Message(f)')  BY <2>1, <3>3, <4>1
      <4>3. Head(wire).f # f \/ Head(wire) = Message(f)
        <5>1. Agrees(wire, 0, f, Message(f))  BY <3>6 DEF Stored
        <5>2. 1 >= 0  OBVIOUS
        <5> QED  BY <2>1, <2>3, <5>1, <5>2 DEF Agrees
      <4>4. Ran' /\ Held(f)'  BY <1>9, <2>2, <3>2, <3>6, <4>3, StillHeld DEF Stored
      <4> QED  BY <4>2, <4>4 DEF Stored
    <3>7. Awaited(wire, f, Message(f)) \/ Stored(f)  BY <2>1, <3>1 DEF Taken
    <3> QED  BY <1>0, <2>1, <3>4, <3>5, <3>6, <3>7, TakenOut
  <2> QED  BY <2>2, <2>4 DEF Taken
<1>10. CASE ResetRequest
  <2>1. /\ UNCHANGED hostSide /\ wire # <<>> /\ wire' = Tail(wire) /\ intact /\ Head(wire).k = "R"
        /\ osd = "run" /\ todo = <<>>
    BY <1>10 DEF ResetRequest, Running
  <2>2. host' = host /\ config' = config /\ at' = at /\ host # "off"  BY <2>1 DEF Taken
  <2>3. Head(wire) = wire[1] /\ Quiet  BY <1>0, <1>10, <2>1, TailIs DEF ResetRequest, Quiet
  <2>4. ASSUME NEW f \in Fields, Sent(f)' PROVE (Awaited(wire, f, Message(f)) \/ Stored(f))'
    <3>1. Sent(f)  BY <2>2, <2>4 DEF Sent
    <3>2. f \in Named  BY <3>1, SentNamed
    <3>3. Message(f)' = Message(f) /\ wire[1] # Message(f)  BY <2>1, <2>2, <2>3 DEF Message
    <3>4. CASE Awaited(wire, f, Message(f))
      <4>1. Awaited(Tail(wire), f, Message(f))  BY <1>0, <2>1, <3>3, <3>4, TakenOut
      <4>2. Awaited(wire', f, Message(f)')  BY <2>1, <3>3, <4>1
      <4> QED  BY <4>2
    <3>5. CASE Stored(f)
      <4>1. Agrees(Tail(wire), 0, f, Message(f))  BY <1>0, <2>1, <3>5, TakenOut DEF Stored
      <4>2. Agrees(wire', 0, f, Message(f)')  BY <2>1, <3>3, <4>1
      <4>3. Ran' /\ Held(f)'  BY <2>1, <2>2, <2>3, <3>2, <3>5, StillHeld DEF Stored
      <4> QED  BY <4>2, <4>3 DEF Stored
    <3> QED  BY <2>1, <3>1, <3>4, <3>5 DEF Taken
  <2> QED  BY <2>2, <2>4 DEF Taken
<1>11. CASE WriteByte
  BY <1>8, <1>11 DEF WriteByte
<1>12. CASE Reset
  BY <1>8, <1>12 DEF Reset, Restarted, Running
<1>13. CASE PowerCut
  BY <1>8, <1>13 DEF PowerCut, Restarted
<1>14. CASE Setup
  BY <1>8, <1>14 DEF Setup, Quiet
<1>15. CASE SetupAgain \/ SwitchLayout
  BY <1>8, <1>15 DEF SetupAgain, SwitchLayout, Quiet
<1>16. CASE Lose
  BY <1>16 DEF Lose
<1>17. CASE CameraChange
  BY <1>8, <1>17 DEF CameraChange, Quiet
<1>18. CASE UNCHANGED vars
  BY <1>8, <1>18 DEF vars, Quiet
<1> QED  BY <1>1, <1>4, <1>5, <1>6, <1>7, <1>9, <1>10, <1>11, <1>12, <1>13, <1>14, <1>15, <1>16, <1>17,
            <1>18 DEF Next

(* Once the reset is sent it is the last message, and once it is taken the screen shows what
   the EEPROM holds. *)
LEMMA NextFinished == Typed /\ Memory /\ Parsed /\ Finished /\ [Next]_vars => Finished'
<1> SUFFICES ASSUME TypeOK, Memory, Finished, [Next]_vars, intact', host' = "started" PROVE Finished'
  BY DEF Typed, Finished
<1> USE DEF hostSide, memory, reading
<1>0. wire \in Seq(Messages)  BY DEF TypeOK, Messages
<1>1. ASSUME intact, host = "started", wire' = wire, eeprom' = eeprom, todo' = todo,
             \/ osd' = osd /\ UNCHANGED <<screenPosition, screenlayout, signaltype>>
             \/ osd' = "run" /\ screenPosition' = ReadLayout(screenlayout', signaltype')
             \/ osd' = "check" /\ eeprom[Version] = EEPROMVER
      PROVE Finished'
  <2>1. \A l, s : ReadLayout(l, s)' = ReadLayout(l, s)  BY <1>1 DEF ReadLayout
  <2>2. CASE wire = <<>>
    <3>1. Ran /\ todo = <<>> /\ (osd = "run" => screenPosition = ReadLayout(screenlayout, signaltype))
      BY <1>1, <2>2 DEF Finished
    <3>2. Ran' /\ todo' = <<>>  BY <1>1, <3>1 DEF Ran
    <3>3. PICK l, s : l = screenlayout' /\ s = signaltype'  OBVIOUS
    <3>4. osd' = "run" => screenPosition' = ReadLayout(l, s)  BY <1>1, <3>1, <3>3
    <3>5. osd' = "run" => screenPosition' = ReadLayout(l, s)'  BY <2>1, <3>4
    <3>6. ReadLayout(screenlayout, signaltype)' = ReadLayout(l, s)'  BY <3>3 DEF ReadLayout
    <3> QED  BY <1>1, <2>2, <3>2, <3>5, <3>6 DEF Finished
  <2>3. CASE wire # <<>>
    BY <1>1, <2>3 DEF Finished
  <2> QED  BY <2>2, <2>3
<1>2. CASE HostStart \/ ParseVisibility \/ ParseX \/ ParseY
  BY <1>2 DEF HostStart, ParseVisibility, ParseX, ParseY
<1>3. CASE SendReset
  <2> DEFINE e == [k |-> "R", f |-> 0, flag |-> 0, p |-> 0]
  <2>1. e \in Messages /\ e.k = "R"
    <3>1. 0 \in Fields  BY LayoutAssumption DEF Fields
    <3>2. 0 \in Word  BY WordIs
    <3> QED  BY <3>1, <3>2 DEF Messages
  <2>2. wire' = Append(wire, e)  BY <1>3 DEF SendReset
  <2> HIDE DEF e
  <2>3. wire' # <<>> /\ Len(wire') = Len(wire) + 1 /\ wire'[Len(wire) + 1] = e
    BY <1>0, <2>1, <2>2, AppendIs
  <2> QED  BY <2>1, <2>3 DEF Finished
<1>4. CASE SetScreenPosition
  <2>1. /\ intact /\ host = "started" /\ wire # <<>> /\ wire' = Tail(wire) /\ Head(wire).k = "P"
        /\ osd' = "run"
    BY <1>4 DEF SetScreenPosition, Running
  <2>2. wire[Len(wire)].k = "R"  BY <2>1 DEF Finished
  <2>3. Len(wire) # 1 /\ Len(wire) \in Nat \ {0}
    <3>1. Head(wire) = wire[1]  BY <1>0, <2>1
    <3>2. Len(wire) \in Nat \ {0}  BY <1>0, <2>1
    <3> QED  BY <2>1, <2>2, <3>1, <3>2
  <2>4. Tail(wire) # <<>> /\ Tail(wire)[Len(Tail(wire))] = wire[Len(wire)]
    <3>1. Len(Tail(wire)) = Len(wire) - 1  BY <1>0, <2>1
    <3>2. DOMAIN Tail(wire) = 1..(Len(wire) - 1)  BY <1>0, <2>1
    <3>3. Len(wire) - 1 \in DOMAIN Tail(wire)  BY <2>3, <3>2
    <3>4. Tail(wire)[Len(wire) - 1] = wire[(Len(wire) - 1) + 1]  BY <1>0, <2>1, <3>3, TailIs
    <3>5. (Len(wire) - 1) + 1 = Len(wire) /\ Len(wire) - 1 # 0  BY <2>3
    <3>6. Tail(wire) # <<>>  BY <3>1, <3>5
    <3> QED  BY <3>1, <3>4, <3>5, <3>6
  <2> QED  BY <2>1, <2>2, <2>4 DEF Finished
<1>5. CASE ResetRequest
  <2>1. /\ intact /\ host = "started" /\ wire # <<>> /\ wire' = Tail(wire) /\ Head(wire).k = "R"
        /\ osd' = "run" /\ todo = <<>> /\ todo' = <<>> /\ eeprom' = eeprom
        /\ screenPosition' = ReadLayout(screenlayout, signaltype)
        /\ screenlayout' = screenlayout /\ signaltype' = signaltype
    BY <1>5 DEF ResetRequest, Running
  <2>2. wire[Len(wire)].k = "R"  BY <2>1 DEF Finished
  <2>3. CASE Len(wire) = 1
    <3>1. wire' = <<>>  BY <1>0, <2>1, <2>3
    <3>2. ReadLayout(screenlayout, signaltype)' = ReadLayout(screenlayout, signaltype)
      BY <2>1 DEF ReadLayout
    <3> QED  BY <2>1, <3>1, <3>2 DEF Finished, Ran
  <2>4. CASE Len(wire) # 1
    <3>0. Len(wire) \in Nat \ {0}  BY <1>0, <2>1
    <3>1. Len(Tail(wire)) = Len(wire) - 1  BY <1>0, <2>1
    <3>2. DOMAIN Tail(wire) = 1..(Len(wire) - 1)  BY <1>0, <2>1
    <3>3. Len(wire) - 1 \in DOMAIN Tail(wire)  BY <2>4, <3>0, <3>2
    <3>4. Tail(wire)[Len(wire) - 1] = wire[(Len(wire) - 1) + 1]  BY <1>0, <2>1, <3>3, TailIs
    <3>5. (Len(wire) - 1) + 1 = Len(wire)  BY <3>0
    <3>6. Tail(wire) # <<>>  BY <2>4, <3>0, <3>1
    <3> QED  BY <2>1, <2>2, <3>1, <3>4, <3>5, <3>6 DEF Finished
  <2> QED  BY <2>3, <2>4
<1>6. CASE WriteByte
  <2>1. intact /\ host = "started" /\ todo # <<>> /\ wire' = wire  BY <1>6 DEF WriteByte
  <2> QED  BY <2>1 DEF Finished
<1>7. CASE Reset \/ PowerCut
  <2>1. /\ intact /\ host = "started" /\ (osd = "run" => todo = <<>>) /\ Restarted /\ wire' = wire
    BY <1>7 DEF Reset, PowerCut, Running, Restarted
  <2>2. CASE wire = <<>>
    <3>1. todo = <<>>  BY <2>1, <2>2 DEF Finished
    <3>2. eeprom' = eeprom /\ todo' = todo /\ eeprom[Version] = EEPROMVER  BY <2>1, <3>1, RestartedIdle
    <3>3. osd' = "check"  BY <2>1 DEF Restarted
    <3> QED  BY <1>1, <2>1, <3>2, <3>3
  <2>3. CASE wire # <<>>
    BY <2>1, <2>3 DEF Finished
  <2> QED  BY <2>2, <2>3
<1>8. CASE Setup \/ SetupAgain \/ SwitchLayout
  BY <1>1, <1>8 DEF Setup, SetupAgain, SwitchLayout, Running
<1>9. CASE Lose
  BY <1>9 DEF Lose
<1>10. CASE CameraChange
  BY <1>1, <1>10 DEF CameraChange
<1>11. CASE UNCHANGED vars
  BY <1>1, <1>11 DEF vars
<1> QED  BY <1>2, <1>3, <1>4, <1>5, <1>6, <1>7, <1>8, <1>9, <1>10, <1>11 DEF Next

-----------------------------------------------------------------------------
(* Rows and columns of what is read back. *)
Down(r, x) == (IF r > 5 \/ (r = 5 /\ x > 0) THEN 1 ELSE 0) + (IF r > 8 \/ (r = 8 /\ x > 0) THEN 1 ELSE 0)

LEMMA BeyondLine == ASSUME NEW r \in 0..13, NEW x \in 0..(COLS - 1)
  PROVE /\ r * COLS + x > Line(6) <=> r > 5 \/ (r = 5 /\ x > 0)
        /\ r * COLS + x > Line(9) <=> r > 8 \/ (r = 8 /\ x > 0)
<1>1. COLS \in Nat /\ COLS > 0  BY Size
<1>2. Line(6) = 5 * COLS /\ Line(9) = 8 * COLS  BY DEF Line
<1>3. \A k \in {5, 8} : r > k => r * COLS >= k * COLS + COLS
  BY <1>1
<1>4. \A k \in {5, 8} : r < k => r * COLS + COLS <= k * COLS
  BY <1>1
<1> DEFINE a == r * COLS
<1>5. a \in Nat  BY <1>1
<1>6. /\ r > 5 => a >= 5 * COLS + COLS
      /\ r > 8 => a >= 8 * COLS + COLS
      /\ r < 5 => a + COLS <= 5 * COLS
      /\ r < 8 => a + COLS <= 8 * COLS
      /\ r = 5 => a = 5 * COLS
      /\ r = 8 => a = 8 * COLS
  BY <1>3, <1>4
<1> HIDE DEF a
<1>7. /\ a + x > 5 * COLS <=> r > 5 \/ (r = 5 /\ x > 0)
      /\ a + x > 8 * COLS <=> r > 8 \/ (r = 8 /\ x > 0)
  BY <1>1, <1>5, <1>6
<1> QED  BY <1>2, <1>7 DEF a

LEMMA ShiftedAt == ASSUME NEW r \in 0..13, NEW x \in 0..(COLS - 1), NEW s \in {0, Always}
                   PROVE Shifted(r * COLS + x + s) = (r + Down(r, x)) * COLS + x + s
<1> DEFINE n == r * COLS + x
           d == Down(r, x)
<1>1. COLS \in Nat /\ COLS > 0 /\ COLS <= 30  BY Size
<1>2. n \in Nat /\ n < 450
  <2>1. r * COLS \in Nat /\ r * COLS <= 13 * COLS  BY <1>1
  <2> QED  BY <1>1, <2>1
<1>3. /\ n > Line(6) <=> r > 5 \/ (r = 5 /\ x > 0)
      /\ n > Line(9) <=> r > 8 \/ (r = 8 /\ x > 0)
  BY BeyondLine
<1>4. (r + d) * COLS = r * COLS + d * COLS /\ d \in 0..2
  <2>1. d \in 0..2  BY DEF Down
  <2> HIDE DEF d
  <2>2. d = 0 \/ d = 1 \/ d = 2  BY <2>1
  <2> QED  BY <1>1, <2>1, <2>2
<1>5. d * COLS = (IF n > Line(6) THEN COLS ELSE 0) + (IF n > Line(9) THEN COLS ELSE 0)
  <2> HIDE DEF n
  <2> QED  BY <1>1, <1>3 DEF Down
<1> HIDE DEF n, d
<1>6. (n + s) % PosMask = n  BY <1>2 DEF PosMask, Always
<1>7. Shifted(n + s) = (n + s + d * COLS) % 65536
  <2> DEFINE a == IF n > Line(6) THEN COLS ELSE 0
             b == IF n > Line(9) THEN COLS ELSE 0
  <2>1. Shifted(n + s) = (n + s + a + b) % 65536  BY <1>6 DEF Shifted
  <2>2. a \in Nat /\ b \in Nat /\ d * COLS = a + b /\ n + s \in Nat  BY <1>1, <1>2, <1>5 DEF Always
  <2> HIDE DEF a, b
  <2>3. (n + s) + a + b = n + s + (a + b)  BY <2>2
  <2> QED  BY <2>1, <2>2, <2>3
<1>8. d * COLS \in Nat /\ d * COLS <= 60
  <2>1. d = 0 \/ d = 1 \/ d = 2  BY <1>4
  <2> QED  BY <1>1, <2>1
<1>9. n + s + d * COLS \in Nat /\ n + s + d * COLS < 65536
  <2> DEFINE e == d * COLS
  <2>1. e \in Nat /\ e <= 60  BY <1>8
  <2> HIDE DEF e
  <2> QED  BY <1>2, <2>1 DEF e, Always
<1>10. Shifted(n + s) = n + s + d * COLS
  <2> DEFINE w == n + s + d * COLS
  <2>1. w \in Nat /\ w < 65536  BY <1>9
  <2> HIDE DEF w
  <2>2. w % 65536 = w  BY <2>1
  <2> QED  BY <1>7, <2>2 DEF w
<1>11. (r + d) * COLS + x = n + d * COLS  BY <1>1, <1>2, <1>4, <1>8 DEF n
<1> QED  BY <1>2, <1>8, <1>10, <1>11 DEF n, d, Always

(* What a word says of the place. *)
LEMMA PlaceOf == ASSUME NEW r \in 0..15, NEW x \in 0..(COLS - 1), NEW s \in {0, Always},
                        NEW w, w = r * COLS + x + s
  PROVE /\ (w % PosMask) \div COLS = r /\ (w % PosMask) % COLS = x
        /\ w \div 16384 = 3 <=> s = Always
<1> DEFINE n == r * COLS + x
<1>1. COLS \in Nat \ {0} /\ COLS <= 30  BY Size
<1>2. n \in Nat /\ n < 480
  <2>1. r * COLS \in Nat /\ r * COLS <= 15 * COLS  BY <1>1
  <2> QED  BY <1>1, <2>1
<1>3. n \div COLS = r /\ n % COLS = x  BY <1>1, LineAndColumn
<1> HIDE DEF n
<1>4. w = n + s  BY DEF n
<1>5. w % PosMask = n  BY <1>2, <1>4 DEF PosMask, Always
<1>6. w \div 16384 = 3 <=> s = Always  BY <1>2, <1>4 DEF Always
<1> QED  BY <1>3, <1>5, <1>6

LEMMA RowRead == ASSUME NEW y \in 0..(ROWS - 1), NEW x \in 0..(COLS - 1)
  PROVE /\ RowOf(y) \in (y - 2)..y
        /\ RowOf(y) + Down(RowOf(y), x) \in 0..15
        /\ y \in {5, 6, 9, 10} => (RowOf(y) + Down(RowOf(y), x)) - y \in {-1, 0, 1}
        /\ y \notin {5, 6, 9, 10} => RowOf(y) + Down(RowOf(y), x) = y
<1>1. y \in 0..15 /\ x \in Nat  BY Size
<1> QED  BY <1>1 DEF RowOf, Down

(* Once the OSD has taken in the host's configuration, and however often it restarts, loses
   power, changes its video standard or layout after that: each configured field is shown
   exactly if the file says so, in its column, and in its row as far as setScreenPosition
   and readEEPROM allow. *)
LEMMA ConfiguredPlaced == Typed /\ Memory /\ Parsed /\ Taken /\ Finished => PlacedAsConfigured
<1> SUFFICES ASSUME TypeOK, Read, Memory, Parsed, Taken, Finished, Configured,
                    NEW f \in DOMAIN config, Documented(config[f])
             PROVE /\ fieldIsVisible(f) <=> config[f].visibility = 1
                   /\ Column(f) = config[f].x
                   /\ IF signaltype = 1
                      THEN IF config[f].y \in {5, 6, 9, 10} THEN Row(f) - config[f].y \in {-1, 0, 1}
                                                            ELSE Row(f) = config[f].y
                      ELSE Row(f) \in (config[f].y - 2)..config[f].y
  BY DEF Typed, PlacedAsConfigured
<1>1. host = "started" /\ wire = <<>> /\ intact /\ osd = "run" /\ todo = <<>>
  BY DEF Configured, Running
<1>2. f \in Named /\ f \in Fields  BY <1>1, MessageIs DEF Read
<1>3. Sent(f)
  <2>1. at = 3 * Len(FieldOrder) /\ FieldOrder \in Seq(Fields)  BY <1>1, OrderIs DEF Parsed
  <2>2. at \div 3 = Len(FieldOrder)
    <3>1. Len(FieldOrder) \in Nat  BY <2>1
    <3> QED  BY <2>1, <3>1
  <2>3. PICK k \in DOMAIN FieldOrder : FieldOrder[k] = f  BY <1>2 DEF Named
  <2>4. k \in 1..(at \div 3)  BY <2>1, <2>2, <2>3
  <2> QED  BY <2>3, <2>4 DEF Sent
<1>4. Held(f)
  <2>1. ~Awaited(wire, f, Message(f))  BY <1>1 DEF Awaited
  <2> QED  BY <1>1, <1>2, <1>3, <2>1 DEF Taken, Stored
<1> DEFINE x == config[f].x
           y == config[f].y
           s == Shows(48 + config[f].visibility)
           r == RowOf(y)
           w == screenPosition[f]
<1>5. x \in 0..(COLS - 1) /\ y \in 0..(ROWS - 1) /\ config[f].visibility \in {0, 1}
  <2>1. config[f] \in [x : Byte, y : Byte, visibility : {0, 1}]  BY <1>1, <1>2, MessageIs
  <2>2. x \in Nat /\ y \in Nat /\ config[f].visibility \in {0, 1}  BY <2>1, ByteIs
  <2> QED  BY <2>2, Size DEF Documented
<1>6. s \in {0, Always} /\ (s = Always <=> config[f].visibility = 1)
  BY <1>5 DEF Shows, Always
<1>7. Wanted(f) = r * COLS + x + s
  <2>1. Wanted(f) = Encoded(y * COLS + x, 48 + config[f].visibility)
    BY DEF Wanted, Message, convertCoords
  <2> HIDE DEF x, y
  <2> QED  BY <1>5, <2>1, EncodedAt
<1>8. r \in 0..13  BY <1>5, RowOfFits
<1>9. Stores(screenlayout, f) = Wanted(f)
  <2>1. screenlayout \in Layouts /\ Wanted(f) \in Word  BY <1>1, <1>2, MessageIs DEF TypeOK
  <2>2. Kept(screenlayout, f, Wanted(f))  BY <1>4, <2>1 DEF Held
  <2> QED  BY <1>1, <1>2, <2>1, <2>2, RestoredFits
<1>10. w = IF signaltype = 1 THEN Shifted(Wanted(f)) ELSE Wanted(f)
  <2>1. screenPosition = ReadLayout(screenlayout, signaltype)  BY <1>1 DEF Finished
  <2>2. eeprom[Standard] # 1  BY DEF Memory
  <2> QED  BY <1>2, <1>9, <2>1, <2>2, ReadLayoutIs
<1> HIDE DEF x, y, s, r, w
<1>11. CASE signaltype = 1
  <2>1. w = (r + Down(r, x)) * COLS + x + s  BY <1>5, <1>6, <1>7, <1>8, <1>10, <1>11, ShiftedAt
  <2>2. /\ r + Down(r, x) \in 0..15
        /\ y \in {5, 6, 9, 10} => (r + Down(r, x)) - y \in {-1, 0, 1}
        /\ y \notin {5, 6, 9, 10} => r + Down(r, x) = y
    BY <1>5, RowRead DEF r
  <2>3. /\ (w % PosMask) \div COLS = r + Down(r, x) /\ (w % PosMask) % COLS = x
        /\ w \div 16384 = 3 <=> s = Always
    BY <1>5, <1>6, <2>1, <2>2, PlaceOf
  <2>4. Row(f) = r + Down(r, x) /\ Column(f) = x /\ (fieldIsVisible(f) <=> s = Always)
    BY <2>3 DEF Row, Column, getPosition, fieldIsVisible, w
  <2>5. /\ y \in {5, 6, 9, 10} => Row(f) - y \in {-1, 0, 1}
        /\ y \notin {5, 6, 9, 10} => Row(f) = y
    BY <2>2, <2>4
  <2> QED  BY <1>6, <1>11, <2>4, <2>5 DEF x, y
<1>12. CASE signaltype # 1
  <2>1. w = r * COLS + x + s  BY <1>7, <1>10, <1>12
  <2>2. r \in (y - 2)..y /\ r \in 0..15  BY <1>5, <1>8, RowRead DEF r
  <2>3. /\ (w % PosMask) \div COLS = r /\ (w % PosMask) % COLS = x
        /\ w \div 16384 = 3 <=> s = Always
    BY <1>5, <1>6, <2>1, <2>2, PlaceOf
  <2>4. Row(f) = r /\ Column(f) = x /\ (fieldIsVisible(f) <=> s = Always)
    BY <2>3 DEF Row, Column, getPosition, fieldIsVisible, w
  <2> QED  BY <1>6, <1>12, <2>2, <2>4 DEF x, y
<1> QED  BY <1>11, <1>12

(* The same, of the system. *)
THEOREM PlacedWhereConfigured == Spec => []PlacedAsConfigured
<1> DEFINE Inv == Typed /\ Memory /\ Parsed /\ Taken /\ Finished
<1>1. Init => Inv  BY InitTyped, InitMemory, InitParsed, InitTaken
<1>2. Inv /\ [Next]_vars => Inv'
  <2>1. Typed => TypeOK  BY DEF Typed
  <2> QED  BY <2>1, NextTyped, NextMemory, NextParsed, NextTaken, NextFinished
<1>3. Inv => PlacedAsConfigured  BY ConfiguredPlaced
<1> QED  BY <1>1, <1>2, <1>3, PTL DEF Spec

-----------------------------------------------------------------------------
(* The host's parser, on any configuration file: where a complete element is placed does not
   depend on the elements around it. *)

Pairs == [name : Parser!Names, value : 0..255 \cup {NoNumber, NoText}]
Contents == /\ Len(file) \in Nat /\ DOMAIN file = 1..Len(file)
            /\ \A k \in DOMAIN file : file[k].attributes \in Seq(Pairs)

Requests == [field : {file[k].field : k \in DOMAIN file}, flag : 0..255 \cup {NoNumber}, position : Int]
Progress == /\ curNode \in 1..(Len(file) + 1) /\ prop \in Nat \ {0}
            /\ curNode <= Len(file) => prop <= Len(file[curNode].attributes) + 1
Registers == column \in Int /\ visible \in 0..255 \cup {NoNumber}
ParserTyped == Contents /\ Progress /\ Registers /\ sent \in Seq(Requests)

(* What was sent is of elements that were reached. *)
SentOfReached == \A n \in DOMAIN sent : \E j \in DOMAIN file : j <= curNode /\ sent[n].field = file[j].field

(* The attributes of the element under way are in the registers, and it is not yet sent;
   every complete element behind was sent as it is meant. *)
Regular(k) == /\ file[k].field \in Known /\ Parser!Only(k)
              /\ Parser!Full(file[k]) /\ Parser!Numbers(file[k]) /\ Parser!YLast(file[k])
InRegisters(k) == \A i \in 1..(prop - 1) : LET a == file[k].attributes[i]
                                    IN /\ a.name = "visibility" => visible = a.value
                                       /\ a.name = "positionX" => column = a.value
Behind(k) == k < curNode \/ (k = curNode /\ prop = 4)
UnderWay(k) == k = curNode /\ prop <= 3
RegularPlaced == \A k \in DOMAIN file : Regular(k) =>
                   /\ Behind(k) => Parser!PlacedAsMeant(k)
                   /\ UnderWay(k) => Parser!Sends(k) = {} /\ InRegisters(k)
ParserInv == ParserTyped /\ SentOfReached /\ RegularPlaced

(* The three attributes are each there once, the line last. *)
LEMMA ThreeAttributes ==
  ASSUME NEW e, e.attributes \in Seq(Pairs), Parser!Full(e), Parser!YLast(e)
  PROVE /\ Len(e.attributes) = 3 /\ DOMAIN e.attributes = 1..3
        /\ e.attributes[3].name = "positionY"
        /\ \/ e.attributes[1].name = "visibility" /\ e.attributes[2].name = "positionX"
           \/ e.attributes[1].name = "positionX" /\ e.attributes[2].name = "visibility"
<1>1. Len(e.attributes) = 3 /\ DOMAIN e.attributes = 1..3  BY DEF Parser!Full
<1>2. e.attributes[3].name = "positionY"  BY DEF Parser!YLast
<1>3. {e.attributes[i].name : i \in 1..3} = {"visibility", "positionX", "positionY"}
  <2>1. {a.name : a \in Parser!Range(e.attributes)} = {"visibility", "positionX", "positionY"}
    BY DEF Parser!Full, Parser!Names
  <2> QED  BY <1>1, <2>1 DEF Parser!Range
<1>4. PICK i \in 1..3 : e.attributes[i].name = "visibility"  BY <1>3
<1>5. PICK j \in 1..3 : e.attributes[j].name = "positionX"  BY <1>3
<1>6. i # 3 /\ j # 3 /\ i # j  BY <1>2, <1>4, <1>5
<1>7. (i = 1 /\ j = 2) \/ (i = 2 /\ j = 1)  BY <1>6
<1> QED  BY <1>1, <1>2, <1>4, <1>5, <1>7

LEMMA PlaceIs ==
  ASSUME NEW e, e.attributes \in Seq(Pairs), Parser!Full(e), Parser!YLast(e), NEW i \in 1..3
  PROVE Parser!Place(e)[e.attributes[i].name] = e.attributes[i].value
<1>1. /\ DOMAIN e.attributes = 1..3 /\ e.attributes[3].name = "positionY"
      /\ \/ e.attributes[1].name = "visibility" /\ e.attributes[2].name = "positionX"
         \/ e.attributes[1].name = "positionX" /\ e.attributes[2].name = "visibility"
  BY ThreeAttributes
<1>2. \A j \in DOMAIN e.attributes : e.attributes[j].name = e.attributes[i].name => j = i
  <2>1. i = 1 \/ i = 2 \/ i = 3  OBVIOUS
  <2> SUFFICES ASSUME NEW j \in 1..3, e.attributes[j].name = e.attributes[i].name PROVE j = i
    BY <1>1
  <2>2. j = 1 \/ j = 2 \/ j = 3  OBVIOUS
  <2>3. /\ e.attributes[1].name # e.attributes[2].name /\ e.attributes[1].name # e.attributes[3].name
        /\ e.attributes[2].name # e.attributes[3].name
    BY <1>1
  <2> QED  BY <2>1, <2>2, <2>3
<1>3. (CHOOSE j \in DOMAIN e.attributes : e.attributes[j].name = e.attributes[i].name) = i
  BY <1>1, <1>2
<1>4. e.attributes[i].name \in Parser!Names
  BY <1>1 DEF Parser!Names
<1> QED  BY Zenon, <1>3, <1>4 DEF Parser!Place

LEMMA ParserInit == ASSUME Parser!FileAssumption, Parser!Init PROVE ParserInv
<1>1. file \in Files /\ curNode = 1 /\ prop = 1 /\ column = 0 /\ visible = 0 /\ sent = <<>>
  BY DEF Parser!Init, Parser!Unset
<1>2. file \in Seq(Parser!Range(file))
  BY <1>1 DEF Parser!FileAssumption
<1>3. Len(file) \in Nat /\ DOMAIN file = 1..Len(file)  BY <1>2
<1>4. Contents
  <2> SUFFICES ASSUME NEW k \in DOMAIN file PROVE file[k].attributes \in Seq(Pairs)
    BY <1>3 DEF Contents
  <2>1. file[k] \in Parser!Range(file)  BY DEF Parser!Range
  <2> QED  BY <1>1, <2>1 DEF Parser!FileAssumption, Pairs
<1>5. Progress
  <2>1. 1 <= Len(file) => Len(file[1].attributes) \in Nat  BY <1>3, <1>4 DEF Contents
  <2> QED  BY <1>1, <1>3, <2>1 DEF Progress
<1>6. Registers /\ sent \in Seq(Requests) /\ DOMAIN sent = {}  BY <1>1 DEF Registers
<1>7. SentOfReached  BY <1>6 DEF SentOfReached
<1>8. RegularPlaced
  <2>1. \A k \in DOMAIN file : ~Behind(k) /\ Parser!Sends(k) = {} /\ InRegisters(k)
    BY <1>1, <1>3, <1>6 DEF Behind, Parser!Sends, InRegisters
  <2> QED  BY <2>1 DEF RegularPlaced
<1> QED  BY <1>4, <1>5, <1>6, <1>7, <1>8 DEF ParserInv, ParserTyped

(* A request for one field leaves what was sent for the others alone. *)
LEMMA OthersKept ==
  ASSUME sent \in Seq(Requests), file' = file, NEW m \in Requests, sent' = Append(sent, m),
         NEW k, m.field # file[k].field
  PROVE /\ Parser!Sends(k)' = Parser!Sends(k)
        /\ Parser!PlacedAsMeant(k) => Parser!PlacedAsMeant(k)'
<1>1. /\ DOMAIN sent' = DOMAIN sent \cup {Len(sent) + 1} /\ sent'[Len(sent) + 1] = m
      /\ \A n \in DOMAIN sent : sent'[n] = sent[n]
  OBVIOUS
<1>2. Parser!Sends(k)' = Parser!Sends(k)
  BY <1>1 DEF Parser!Sends
<1>3. Parser!Meant(file[k])' = Parser!Meant(file[k])
  <2>1. Parser!Meant(file[k])' = Parser!Meant(file'[k])
    BY DEF Parser!Meant, Parser!Place, Parser!convertCoords, Parser!Names
  <2> QED  BY Zenon, <2>1
<1>4. ASSUME Parser!PlacedAsMeant(k) PROVE Parser!PlacedAsMeant(k)'
  <2>1. PICK n \in DOMAIN sent : Parser!Sends(k) = {n} /\ sent[n] = Parser!Meant(file[k])
    BY Zenon, <1>4 DEF Parser!PlacedAsMeant
  <2>2. n \in DOMAIN sent' /\ Parser!Sends(k)' = {n} /\ sent'[n] = Parser!Meant(file[k])'
    BY Zenon, <1>1, <1>2, <1>3, <2>1
  <2> QED  BY Zenon, <2>2 DEF Parser!PlacedAsMeant
<1> QED  BY Zenon, <1>2, <1>4

(* What one pass of the loop does. *)
ValueRead(value) == file[curNode].field \in Known /\ value \in 0..255
                /\ (file[curNode].attributes[prop].value # NoNumber => value = file[curNode].attributes[prop].value)
Request(value) == [field |-> file[curNode].field, flag |-> visible, position |-> Parser!convertCoords(column, value)]
Visibility == /\ file[curNode].field \in Known /\ file[curNode].attributes[prop].name = "visibility"
              /\ visible' = file[curNode].attributes[prop].value /\ column' = column /\ sent' = sent
PositionX == \E value \in 0..255 : /\ ValueRead(value) /\ file[curNode].attributes[prop].name = "positionX"
                                   /\ column' = value /\ visible' = visible /\ sent' = sent
PositionY == \E value \in 0..255 : /\ ValueRead(value) /\ file[curNode].attributes[prop].name = "positionY"
                                   /\ sent' = Append(sent, Request(value)) /\ column' = column /\ visible' = visible
Unknown == file[curNode].field \notin Known /\ column' = column /\ visible' = visible /\ sent' = sent

LEMMA ParseDoes ==
  ASSUME Parser!FileAssumption, ParserTyped, Parser!ParseAttribute
  PROVE /\ curNode \in DOMAIN file /\ prop \in 1..Len(file[curNode].attributes)
        /\ file[curNode].attributes[prop] \in Pairs /\ file[curNode].attributes[prop].value # NoText
        /\ prop' = prop + 1 /\ curNode' = curNode /\ file' = file
        /\ Visibility \/ PositionX \/ PositionY \/ Unknown
<1> DEFINE a == file[curNode].attributes[prop]
<1>1. curNode \in DOMAIN file /\ prop \in 1..Len(file[curNode].attributes) /\ a \in Pairs
  <2>1. curNode \in DOMAIN file
    BY DEF ParserTyped, Contents, Progress, Parser!ParseAttribute, Parser!Ended
  <2>2. file[curNode].attributes \in Seq(Pairs)  BY <2>1 DEF ParserTyped, Contents
  <2>3. prop \in Nat \ {0}  BY DEF ParserTyped, Progress
  <2>4. ~(prop > Len(file[curNode].attributes))
    BY DEF Parser!ParseAttribute, Parser!AttributesDone, Parser!Node
  <2>5. Len(file[curNode].attributes) \in Nat  BY <2>2
  <2>6. prop \in 1..Len(file[curNode].attributes)  BY <2>3, <2>4, <2>5
  <2> QED  BY <2>1, <2>2, <2>6
<1>2. a.value # NoText /\ prop' = prop + 1 /\ curNode' = curNode /\ file' = file
  BY DEF Parser!ParseAttribute, Parser!Attribute, Parser!Node
<1>3. CASE file[curNode].field \notin Known
  <2>1. Unknown  BY <1>3 DEF Parser!ParseAttribute, Parser!Node, Unknown
  <2> QED  BY <1>1, <1>2, <2>1
<1>4. CASE file[curNode].field \in Known
  <2>1. PICK value \in Parser!Values(a.value) :
          \/ a.name = "visibility" /\ visible' = a.value /\ UNCHANGED <<column, sent>>
          \/ a.name = "positionX" /\ column' = value /\ UNCHANGED <<visible, sent>>
          \/ a.name = "positionY" /\ Parser!Send(value) /\ UNCHANGED <<column, visible>>
    BY Zenon, <1>4 DEF Parser!ParseAttribute, Parser!Attribute, Parser!Node
  <2>2. value \in 0..255 /\ (a.value # NoNumber => value = a.value)
    <3>1. a.value \in 0..255 \cup {NoNumber, NoText} /\ Garbage \subseteq 0..255
      BY <1>1 DEF Pairs, Parser!FileAssumption
    <3> QED  BY <1>2, <3>1 DEF Parser!Values
  <2>3. ValueRead(value)  BY Zenon, <1>4, <2>2 DEF ValueRead
  <2>4. CASE a.name = "visibility" /\ visible' = a.value /\ UNCHANGED <<column, sent>>
    <3>1. Visibility  BY Zenon, <1>4, <2>4 DEF Visibility
    <3> QED  BY Zenon, <1>1, <1>2, <3>1
  <2>5. CASE a.name = "positionX" /\ column' = value /\ UNCHANGED <<visible, sent>>
    <3>1. PositionX  BY Zenon, <2>2, <2>3, <2>5 DEF PositionX
    <3> QED  BY Zenon, <1>1, <1>2, <3>1
  <2>6. CASE a.name = "positionY" /\ Parser!Send(value) /\ UNCHANGED <<column, visible>>
    <3>1. sent' = Append(sent, Request(value))  BY Zenon, <2>6 DEF Parser!Send, Parser!Node, Request
    <3>2. PositionY  BY Zenon, <2>2, <2>3, <2>6, <3>1 DEF PositionY
    <3> QED  BY Zenon, <1>1, <1>2, <3>2
  <2> QED  BY Zenon, <2>1, <2>4, <2>5, <2>6
<1> QED  BY <1>3, <1>4

LEMMA RequestTyped ==
  ASSUME Parser!FileAssumption, ParserTyped, curNode \in DOMAIN file, NEW value \in 0..255
  PROVE Request(value) \in Requests
<1>1. column \in Int /\ Columns \in Int /\ visible \in 0..255 \cup {NoNumber}
  BY DEF ParserTyped, Registers, Parser!FileAssumption
<1>2. Parser!convertCoords(column, value) \in Int  BY <1>1 DEF Parser!convertCoords
<1> QED  BY <1>1, <1>2 DEF Request, Requests

LEMMA ParseTyped ==
  ASSUME Parser!FileAssumption, ParserTyped, Parser!ParseAttribute PROVE ParserTyped'
<1>1. /\ curNode \in DOMAIN file /\ prop \in 1..Len(file[curNode].attributes)
      /\ file[curNode].attributes[prop] \in Pairs /\ file[curNode].attributes[prop].value # NoText
      /\ prop' = prop + 1 /\ curNode' = curNode /\ file' = file
      /\ Visibility \/ PositionX \/ PositionY \/ Unknown
  BY ParseDoes
<1>2. Contents'  BY <1>1 DEF ParserTyped, Contents
<1>3. Progress'
  <2>1. Len(file[curNode].attributes) \in Nat  BY <1>1 DEF ParserTyped, Contents
  <2> QED  BY <1>1, <2>1 DEF ParserTyped, Progress
<1>4. Requests' = Requests  BY <1>1 DEF Requests
<1>5. Registers'
  <2>1. column \in Int /\ visible \in 0..255 \cup {NoNumber}  BY DEF ParserTyped, Registers
  <2>2. file[curNode].attributes[prop].value \in 0..255 \cup {NoNumber}  BY <1>1 DEF Pairs
  <2>3. CASE Visibility  BY <2>1, <2>2, <2>3 DEF Visibility, Registers
  <2>4. CASE PositionX  BY <2>1, <2>4 DEF PositionX, Registers
  <2>5. CASE PositionY  BY <2>1, <2>5 DEF PositionY, Registers
  <2>6. CASE Unknown  BY <2>1, <2>6 DEF Unknown, Registers
  <2> QED  BY <1>1, <2>3, <2>4, <2>5, <2>6
<1>6. sent' \in Seq(Requests)
  <2>1. sent \in Seq(Requests)  BY DEF ParserTyped
  <2>2. CASE PositionY
    <3>1. PICK value \in 0..255 : sent' = Append(sent, Request(value))  BY <2>2 DEF PositionY
    <3>2. Request(value) \in Requests  BY <1>1, RequestTyped
    <3> QED  BY <2>1, <3>1, <3>2
  <2>3. CASE Visibility \/ PositionX \/ Unknown
    BY <2>1, <2>3 DEF Visibility, PositionX, Unknown
  <2> QED  BY <1>1, <2>2, <2>3
<1> QED  BY <1>2, <1>3, <1>4, <1>5, <1>6 DEF ParserTyped

LEMMA ParseReached ==
  ASSUME Parser!FileAssumption, ParserTyped, SentOfReached, Parser!ParseAttribute PROVE SentOfReached'
<1>1. /\ curNode \in DOMAIN file /\ curNode' = curNode /\ file' = file
      /\ Visibility \/ PositionX \/ PositionY \/ Unknown
  BY ParseDoes
<1>2. CASE PositionY
  <2>1. PICK value \in 0..255 : sent' = Append(sent, Request(value))  BY <1>2 DEF PositionY
  <2>2. /\ DOMAIN sent' = DOMAIN sent \cup {Len(sent) + 1} /\ sent'[Len(sent) + 1] = Request(value)
        /\ \A n \in DOMAIN sent : sent'[n] = sent[n]
    BY <2>1 DEF ParserTyped
  <2>3. sent'[Len(sent) + 1].field = file[curNode].field  BY <2>2 DEF Request
  <2>4. curNode <= curNode  BY DEF ParserTyped, Progress
  <2> QED  BY Zenon, <1>1, <2>2, <2>3, <2>4 DEF SentOfReached
<1>3. CASE Visibility \/ PositionX \/ Unknown
  <2>1. sent' = sent  BY <1>3 DEF Visibility, PositionX, Unknown
  <2> QED  BY <1>1, <2>1 DEF SentOfReached
<1> QED  BY <1>1, <1>2, <1>3

(* Of a complete element the registers hold, before its last attribute, what it says. *)
LEMMA HeldIsMeant ==
  ASSUME ParserTyped, curNode \in DOMAIN file, Regular(curNode), InRegisters(curNode), prop = 3,
         NEW value, value = file[curNode].attributes[3].value
  PROVE Request(value) = Parser!Meant(file[curNode])
<1> DEFINE e == file[curNode]
           a == e.attributes
<1>1. a \in Seq(Pairs) /\ Parser!Full(e) /\ Parser!YLast(e)
  BY DEF ParserTyped, Contents, Regular
<1>2. /\ a[3].name = "positionY"
      /\ \/ a[1].name = "visibility" /\ a[2].name = "positionX"
         \/ a[1].name = "positionX" /\ a[2].name = "visibility"
  BY Zenon, <1>1, ThreeAttributes
<1>3. /\ Parser!Place(e)[a[1].name] = a[1].value /\ Parser!Place(e)[a[2].name] = a[2].value
      /\ Parser!Place(e)[a[3].name] = a[3].value
  <2>1. 1 \in 1..3 /\ 2 \in 1..3 /\ 3 \in 1..3  OBVIOUS
  <2> QED  BY Zenon, <1>1, <2>1, PlaceIs
<1>4. \A i \in 1..2 : (a[i].name = "visibility" => visible = a[i].value) /\ (a[i].name = "positionX" => column = a[i].value)
  <2>1. prop - 1 = 2  OBVIOUS
  <2> QED  BY Zenon, <2>1 DEF InRegisters
<1>5. 1 \in 1..2 /\ 2 \in 1..2  OBVIOUS
<1>6. /\ visible = Parser!Place(e)["visibility"] /\ column = Parser!Place(e)["positionX"]
      /\ value = Parser!Place(e)["positionY"]
  BY Zenon, <1>2, <1>3, <1>4, <1>5
<1> QED  BY <1>6 DEF Request, Parser!Meant

LEMMA ParsePlaced ==
  ASSUME Parser!FileAssumption, ParserTyped, RegularPlaced, Parser!ParseAttribute PROVE RegularPlaced'
<1>1. /\ curNode \in DOMAIN file /\ prop \in 1..Len(file[curNode].attributes)
      /\ file[curNode].attributes[prop] \in Pairs /\ file[curNode].attributes[prop].value # NoText
      /\ prop' = prop + 1 /\ curNode' = curNode /\ file' = file
      /\ Visibility \/ PositionX \/ PositionY \/ Unknown
  BY ParseDoes
<1> DEFINE a == file[curNode].attributes
<1>2. curNode \in Int /\ prop \in Nat \ {0} /\ sent \in Seq(Requests)
  BY DEF ParserTyped, Progress
<1> SUFFICES ASSUME NEW k \in DOMAIN file, Regular(k)
             PROVE /\ Behind(k)' => Parser!PlacedAsMeant(k)'
                   /\ UnderWay(k)' => Parser!Sends(k)' = {} /\ InRegisters(k)'
  <2>1. \A k \in DOMAIN file : Regular(k)' => Regular(k)
    BY <1>1 DEF Regular, Parser!Only, Parser!Full, Parser!Numbers, Parser!YLast, Parser!Place, Parser!Names
  <2> QED  BY Zenon, <1>1, <2>1 DEF RegularPlaced
<1>3. /\ Behind(k) => Parser!PlacedAsMeant(k)
      /\ UnderWay(k) => Parser!Sends(k) = {} /\ InRegisters(k)
  BY Zenon DEF RegularPlaced
<1>4. k \in Int  BY DEF ParserTyped, Contents
<1>5. CASE k # curNode
  <2>1. Behind(k)' = Behind(k) /\ ~UnderWay(k)'  BY <1>1, <1>2, <1>4, <1>5 DEF Behind, UnderWay
  <2>2. CASE sent' = sent
    <3>1. Parser!PlacedAsMeant(k)' = Parser!PlacedAsMeant(k)
      BY <1>1, <2>2 DEF Parser!PlacedAsMeant, Parser!Sends, Parser!Meant, Parser!Place, Parser!convertCoords, Parser!Names
    <3> QED  BY Zenon, <1>3, <2>1, <3>1
  <2>3. CASE PositionY
    <3>1. PICK value \in 0..255 : sent' = Append(sent, Request(value))  BY <2>3 DEF PositionY
    <3>2. Request(value) \in Requests  BY <1>1, RequestTyped
    <3>3. Request(value).field # file[k].field
      <4>1. file[curNode].field # file[k].field  BY Zenon, <1>1, <1>5 DEF Regular, Parser!Only
      <4> QED  BY <4>1 DEF Request
    <3>4. Parser!PlacedAsMeant(k) => Parser!PlacedAsMeant(k)'
      BY Zenon, <1>1, <1>2, <3>1, <3>2, <3>3, OthersKept
    <3> QED  BY Zenon, <1>3, <2>1, <3>4
  <2> QED  BY Zenon, <1>1, <2>2, <2>3 DEF Visibility, PositionX, Unknown
<1>6. CASE k = curNode
  <2>1. /\ Len(a) = 3 /\ a[3].name = "positionY"
        /\ \/ a[1].name = "visibility" /\ a[2].name = "positionX"
           \/ a[1].name = "positionX" /\ a[2].name = "visibility"
    <3>1. a \in Seq(Pairs) /\ Parser!Full(file[curNode]) /\ Parser!YLast(file[curNode])
      BY <1>6 DEF ParserTyped, Contents, Regular
    <3> QED  BY Zenon, <3>1, ThreeAttributes
  <2>2. prop \in 1..3 /\ UnderWay(k)  BY <1>1, <1>6, <2>1 DEF UnderWay
  <2>3. Parser!Sends(k) = {} /\ InRegisters(k)  BY Zenon, <1>3, <2>2
  <2>4. file[curNode].field \in Known  BY <1>6 DEF Regular
  <2>5. CASE prop = 3
    <3>1. PositionY
      BY <1>1, <2>1, <2>4, <2>5 DEF Visibility, PositionX, Unknown
    <3>2. PICK value \in 0..255 : ValueRead(value) /\ sent' = Append(sent, Request(value))
      BY <3>1 DEF PositionY
    <3>3. value = a[3].value
      <4>1. 3 \in 1..3 /\ a \in Seq(Pairs)  BY <1>6 DEF ParserTyped, Contents
      <4>2. Parser!Place(file[curNode])[a[3].name] = a[3].value
        BY Zenon, <1>6, <4>1, PlaceIs DEF Regular
      <4>3. Parser!Place(file[curNode])["positionY"] # NoNumber
        BY <1>6 DEF Regular, Parser!Numbers
      <4>4. a[3].value # NoNumber  BY Zenon, <2>1, <4>2, <4>3
      <4> QED  BY Zenon, <2>5, <3>2, <4>4 DEF ValueRead
    <3>4. Request(value) = Parser!Meant(file[k])
      BY Zenon, <1>1, <1>6, <2>3, <2>5, <3>3, HeldIsMeant
    <3>5. /\ DOMAIN sent' = DOMAIN sent \cup {Len(sent) + 1} /\ sent'[Len(sent) + 1] = Request(value)
          /\ \A n \in DOMAIN sent : sent'[n] = sent[n]
      BY <1>2, <3>2
    <3>6. Request(value).field = file[k].field  BY <1>6 DEF Request
    <3>7. \A n \in DOMAIN sent : sent[n].field # file[k].field  BY Zenon, <2>3 DEF Parser!Sends
    <3>8. Parser!Sends(k)' = {Len(sent) + 1}
      <4>1. Parser!Sends(k)' = {n \in DOMAIN sent' : sent'[n].field = file[k].field}
        BY <1>1 DEF Parser!Sends
      <4> QED  BY Zenon, <3>5, <3>6, <3>7, <4>1
    <3>9. Parser!Meant(file[k])' = Parser!Meant(file[k])
      BY <1>1 DEF Parser!Meant, Parser!Place, Parser!convertCoords, Parser!Names
    <3>10. Parser!PlacedAsMeant(k)'
      BY Zenon, <3>4, <3>5, <3>8, <3>9 DEF Parser!PlacedAsMeant
    <3>11. ~UnderWay(k)'  BY <1>1, <2>5 DEF UnderWay
    <3> QED  BY <3>10, <3>11
  <2>6. CASE prop # 3
    <3>1. prop \in {1, 2} /\ prop' \in {2, 3}  BY <1>1, <2>2, <2>6
    <3>2. ~Behind(k)'  BY <1>1, <1>2, <1>6, <3>1 DEF Behind
    <3>3. Visibility \/ PositionX
      BY <1>1, <2>1, <2>4, <3>1 DEF PositionY, Unknown
    <3>4. sent' = sent  BY <3>3 DEF Visibility, PositionX
    <3>5. Parser!Sends(k)' = {}  BY <1>1, <2>3, <3>4 DEF Parser!Sends
    <3>6. InRegisters(k)'
      <4>1. (a[prop].name = "visibility" => visible' = a[prop].value) /\ (a[prop].name = "positionX" => column' = a[prop].value)
        <5>1. CASE Visibility  BY <5>1 DEF Visibility
        <5>2. CASE PositionX
          <6>1. PICK value \in 0..255 : ValueRead(value) /\ a[prop].name = "positionX" /\ column' = value
            BY Zenon, <5>2 DEF PositionX
          <6>2. Parser!Place(file[curNode])[a[prop].name] = a[prop].value
            <7>1. a \in Seq(Pairs)  BY <1>6 DEF ParserTyped, Contents
            <7> QED  BY Zenon, <1>6, <2>2, <7>1, PlaceIs DEF Regular
          <6>3. Parser!Place(file[curNode])["positionX"] # NoNumber
            BY <1>6 DEF Regular, Parser!Numbers
          <6>4. a[prop].value = value  BY Zenon, <6>1, <6>2, <6>3 DEF ValueRead
          <6>5. a[prop].name # "visibility"  BY <6>1
          <6> QED  BY <6>1, <6>4, <6>5
        <5> QED  BY <3>3, <5>1, <5>2
      <4>2. ASSUME NEW i \in 1..(prop - 1)
            PROVE (a[i].name = "visibility" => visible' = a[i].value) /\ (a[i].name = "positionX" => column' = a[i].value)
        <5>1. (a[i].name = "visibility" => visible = a[i].value) /\ (a[i].name = "positionX" => column = a[i].value)
          BY Zenon, <1>6, <2>3 DEF InRegisters
        <5>2. i = 1 /\ prop = 2 /\ a[1].name # a[2].name  BY <2>1, <3>1
        <5>3. CASE Visibility
          <6>1. a[i].name = "positionX" /\ column' = column  BY <2>1, <5>2, <5>3 DEF Visibility
          <6> QED  BY <5>1, <6>1
        <5>4. CASE PositionX
          <6>1. a[i].name = "visibility" /\ visible' = visible  BY <2>1, <5>2, <5>4 DEF PositionX
          <6> QED  BY <5>1, <6>1
        <5> QED  BY <3>3, <5>3, <5>4
      <4>3. \A i \in 1..(prop' - 1) : i = prop \/ i \in 1..(prop - 1)  BY <1>1, <1>2
      <4>4. InRegisters(k)' <=> \A i \in 1..(prop' - 1) : (a[i].name = "visibility" => visible' = a[i].value)
                                                 /\ (a[i].name = "positionX" => column' = a[i].value)
        BY Zenon, <1>1, <1>6 DEF InRegisters
      <4> HIDE DEF a
      <4> QED  BY Zenon, <4>1, <4>2, <4>3, <4>4
    <3> QED  BY <3>2, <3>5, <3>6
  <2> QED  BY <2>5, <2>6
<1> QED  BY <1>5, <1>6

LEMMA NextKept ==
  ASSUME ParserInv, Parser!NextNode PROVE ParserInv'
<1>1. /\ curNode \in Nat \ {0} /\ curNode <= Len(file) /\ Len(file) \in Nat /\ DOMAIN file = 1..Len(file)
      /\ prop > Len(file[curNode].attributes) /\ prop <= Len(file[curNode].attributes) + 1 /\ prop \in Nat \ {0}
      /\ curNode' = curNode + 1 /\ prop' = 1 /\ file' = file /\ column' = column /\ visible' = visible /\ sent' = sent
  BY DEF ParserInv, ParserTyped, Contents, Progress, Parser!NextNode, Parser!Ended, Parser!AttributesDone, Parser!Node
<1>2. curNode \in DOMAIN file  BY <1>1
<1>3. Contents' /\ Registers' /\ Requests' = Requests
  BY <1>1 DEF ParserInv, ParserTyped, Contents, Registers, Requests
<1>4. Progress'
  <2>1. curNode + 1 <= Len(file) => Len(file[curNode + 1].attributes) \in Nat
    <3>1. curNode + 1 <= Len(file) => curNode + 1 \in DOMAIN file  BY <1>1
    <3> QED  BY <3>1 DEF ParserInv, ParserTyped, Contents
  <2> QED  BY <1>1, <2>1 DEF Progress
<1>5. SentOfReached'
  <2> SUFFICES ASSUME NEW n \in DOMAIN sent
               PROVE \E j \in DOMAIN file : j <= curNode + 1 /\ sent[n].field = file[j].field
    BY Zenon, <1>1 DEF SentOfReached
  <2>1. PICK j \in DOMAIN file : j <= curNode /\ sent[n].field = file[j].field
    BY Zenon DEF ParserInv, SentOfReached
  <2>2. j <= curNode + 1  BY <1>1, <2>1
  <2> QED  BY Zenon, <2>1, <2>2
<1>6. ASSUME NEW k \in DOMAIN file, Regular(k)
      PROVE /\ Behind(k)' => Parser!PlacedAsMeant(k)'
            /\ UnderWay(k)' => Parser!Sends(k)' = {} /\ InRegisters(k)'
  <2>1. Behind(k) => Parser!PlacedAsMeant(k)
    BY Zenon, <1>6 DEF ParserInv, RegularPlaced
  <2>2. Parser!PlacedAsMeant(k)' = Parser!PlacedAsMeant(k)
    BY <1>1 DEF Parser!PlacedAsMeant, Parser!Sends, Parser!Meant, Parser!Place, Parser!convertCoords, Parser!Names
  <2>3. Behind(k)' => Behind(k)
    <3>1. k \in Nat  BY <1>1
    <3>2. CASE k = curNode
      <4>1. file[k].attributes \in Seq(Pairs) /\ Parser!Full(file[k]) /\ Parser!YLast(file[k])
        BY <1>6 DEF ParserInv, ParserTyped, Contents, Regular
      <4>2. Len(file[k].attributes) = 3  BY Zenon, <4>1, ThreeAttributes
      <4>3. prop = 4  BY <1>1, <3>2, <4>2
      <4> QED  BY <3>2, <4>3 DEF Behind
    <3>3. CASE k # curNode
      BY <1>1, <3>1, <3>3 DEF Behind
    <3> QED  BY <3>2, <3>3
  <2>4. ASSUME UnderWay(k)' PROVE Parser!Sends(k)' = {} /\ InRegisters(k)'
    <3>1. k = curNode + 1  BY <1>1, <2>4 DEF UnderWay
    <3>2. InRegisters(k)'
      <4>1. 1..(prop' - 1) = {}  BY <1>1
      <4> QED  BY Zenon, <4>1 DEF InRegisters
    <3>3. ASSUME NEW n \in DOMAIN sent PROVE sent[n].field # file[k].field
      <4>1. PICK j \in DOMAIN file : j <= curNode /\ sent[n].field = file[j].field
        BY Zenon DEF ParserInv, SentOfReached
      <4>2. j # k  BY <1>1, <3>1, <4>1
      <4> QED  BY Zenon, <1>6, <4>1, <4>2 DEF Regular, Parser!Only
    <3>4. Parser!Sends(k)' = {n \in DOMAIN sent : sent[n].field = file[k].field}
      BY <1>1 DEF Parser!Sends
    <3> QED  BY Zenon, <3>2, <3>3, <3>4
  <2> QED  BY Zenon, <2>1, <2>2, <2>3, <2>4
<1>7. RegularPlaced'
  <2>1. \A k \in DOMAIN file : Regular(k)' => Regular(k)
    BY <1>1 DEF Regular, Parser!Only, Parser!Full, Parser!Numbers, Parser!YLast, Parser!Place, Parser!Names
  <2> QED  BY Zenon, <1>1, <1>6, <2>1 DEF RegularPlaced
<1>8. sent' \in Seq(Requests)'  BY <1>1, <1>3 DEF ParserInv, ParserTyped
<1> QED  BY <1>3, <1>4, <1>5, <1>7, <1>8 DEF ParserInv, ParserTyped

LEMMA ParserSame == ASSUME ParserInv, UNCHANGED Parser!vars PROVE ParserInv'
<1>1. file' = file /\ curNode' = curNode /\ prop' = prop /\ column' = column /\ visible' = visible /\ sent' = sent
  BY DEF Parser!vars
<1>2. ParserTyped'
  BY <1>1 DEF ParserInv, ParserTyped, Contents, Progress, Registers, Requests
<1>3. SentOfReached'  BY <1>1 DEF ParserInv, SentOfReached
<1>4. RegularPlaced'
  <2>1. \A k \in DOMAIN file : Regular(k)' => Regular(k)
    BY <1>1 DEF Regular, Parser!Only, Parser!Full, Parser!Numbers, Parser!YLast, Parser!Place, Parser!Names
  <2>2. ASSUME NEW k \in DOMAIN file
        PROVE /\ Behind(k)' = Behind(k) /\ UnderWay(k)' = UnderWay(k) /\ InRegisters(k)' = InRegisters(k)
              /\ Parser!Sends(k)' = Parser!Sends(k) /\ Parser!PlacedAsMeant(k)' = Parser!PlacedAsMeant(k)
    <3>1. Behind(k)' = Behind(k) /\ UnderWay(k)' = UnderWay(k)  BY <1>1 DEF Behind, UnderWay
    <3>2. InRegisters(k)' = InRegisters(k)  BY Zenon, <1>1 DEF InRegisters
    <3>3. Parser!Sends(k)' = Parser!Sends(k)  BY <1>1 DEF Parser!Sends
    <3>4. Parser!PlacedAsMeant(k)' = Parser!PlacedAsMeant(k)
      BY <1>1 DEF Parser!PlacedAsMeant, Parser!Sends, Parser!Meant, Parser!Place, Parser!convertCoords, Parser!Names
    <3> QED  BY <3>1, <3>2, <3>3, <3>4
  <2> QED  BY Zenon, <1>1, <2>1, <2>2 DEF ParserInv, RegularPlaced
<1> QED  BY <1>2, <1>3, <1>4 DEF ParserInv

LEMMA ParserStep == ASSUME Parser!FileAssumption, ParserInv, [Parser!Next]_Parser!vars PROVE ParserInv'
<1>1. CASE Parser!NextNode  BY Zenon, <1>1, NextKept
<1>2. CASE Parser!ParseAttribute
  BY Zenon, <1>2, ParseTyped, ParseReached, ParsePlaced DEF ParserInv
<1>3. CASE Parser!SkipEmpty  BY <1>3, ParserSame DEF Parser!SkipEmpty
<1>4. CASE Parser!Done  BY <1>4, ParserSame DEF Parser!Done
<1>5. CASE UNCHANGED Parser!vars  BY Zenon, <1>5, ParserSame
<1> QED  BY Zenon, <1>1, <1>2, <1>3, <1>4, <1>5 DEF Parser!Next

(* An element with its three attributes in order and numbers for its place, the only one of
   its field, is sent once and with what it says, whatever words, gaps, empty values and
   orders the elements before and behind it have (parseXmlNode in States.cpp). *)
THEOREM CompleteIsPlaced ==
  ASSUME Parser!FileAssumption
  PROVE Parser!Spec => []CompletePlaced
<1>1. Parser!Init => ParserInv  BY ParserInit
<1>2. ParserInv /\ [Parser!Next]_Parser!vars => ParserInv'  BY ParserStep
<1>3. ParserInv => CompletePlaced
  <2> SUFFICES ASSUME ParserInv, NEW k \in Parser!Parsed, Parser!Only(k), Parser!Full(file[k]),
                      Parser!Numbers(file[k]), Parser!YLast(file[k])
               PROVE Parser!PlacedAsMeant(k)
    BY DEF CompletePlaced, Parser!CompletePlaced
  <2>1. k \in DOMAIN file /\ k < curNode /\ file[k].field \in Known  BY DEF Parser!Parsed
  <2>2. Regular(k) /\ Behind(k)  BY <2>1 DEF Regular, Behind
  <2> QED  BY Zenon, <2>1, <2>2 DEF ParserInv, RegularPlaced
<1> QED  BY <1>1, <1>2, <1>3, PTL DEF Parser!Spec
=============================================================================
