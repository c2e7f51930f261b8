-------------------------- MODULE MavReceiveProofs ---------------------------
(***************************************************************************)
(* The receiver of the OSD, for every size of its buffer, every set of     *)
(* messages and any damage to the line.  The bytes the checksum was        *)
(* computed over are the witness: they start with the length and hold the  *)
(* id, the buffers hold the bytes after them, and only the message that    *)
(* was sent has the checksum the line carries.  For the other direction    *)
(* the number of bytes an undamaged frame has on the line tells where the  *)
(* receiver is and what it has summed.                                     *)
(***************************************************************************)
EXTENDS MavReceive, SequenceTheorems, TLAPS

Bytes == [v : Values, of : Seq(Int)]

(* What a message's checksum covers, without and with the CRC_EXTRA of its id. *)
Covered(m) == <<Len(m.payload), 0, 0, 0, m.id>> \o m.payload
Checked(m) == Covered(m) \o <<m.id>>

(* A checksum byte on the line belongs to the message under way. *)
Wired == /\ line \in Seq(Bytes)
         /\ line # <<>> => current \in Sendable
         /\ \A k \in 1..Len(line) : \/ line[k].of = <<>>
                                    \/ \E half \in {0, 1} : line[k] = Check(Checked(current), half)

(* What the checksum covers is the header and the first n bytes of the contents. *)
Stored(n) == IF id = Encapsulated
             THEN \A k \in 1..TextSize : k + 2 <= n => encData[k] = sum[k + 7]
             ELSE \A k \in 1..SERIALBUFFERSIZE : k <= n => serialBuffer[k] = sum[k + 5]
Position == [idle |-> 0, start |-> 0, len |-> 1, seq |-> 2, sys |-> 3, comp |-> 4]
Counted ==
  /\ state \in {"start", "len", "seq", "sys", "comp"} => Len(sum) = Position[state] /\ index = 0
  /\ state \in {"len", "seq", "sys", "comp"} => sum[1] = length
  /\ state \in {"payload", "checksum"} => Len(sum) >= 5 /\ sum[1] = length /\ sum[5] = id
  /\ state = "payload" => Len(sum) = 5 + index /\ (index < length \/ length = 0) /\ Stored(index)
  /\ state = "checksum" => /\ Len(sum) = 5 + (IF length = 0 THEN Wrap ELSE length)
                           /\ length # 0 => Stored(length)

Inv == TypeOK /\ Wired /\ Counted /\ HandledWasSent

-----------------------------------------------------------------------------
(* Frames. *)
LEMMA Sizes ==
  /\ Wrap \in Nat /\ Wrap >= 5 /\ TextSize \in Nat /\ TextSize = Wrap - 3 /\ EncLength = Wrap - 1
  /\ NamedLength \in Nat /\ NamedLength >= 1 /\ NamedLength < SERIALBUFFERSIZE
  /\ SERIALBUFFERSIZE \in Nat /\ SERIALBUFFERSIZE <= Wrap - 1
BY ReceiveAssumption DEF TextSize, EncLength

LEMMA SendableForms ==
  ASSUME NEW m \in Sendable
  PROVE  \/ \E p \in NamedPayloads : m = Message(Named, p)
         \/ \E t \in Texts : m = Message(Encapsulated, <<0, 0>> \o t)
BY DEF Sendable

LEMMA TextPayload ==
  ASSUME NEW t \in Texts
  PROVE  /\ t \in [1..TextSize -> Values] /\ t \in Seq(Values)
         /\ <<0, 0>> \o t \in Seq(Values) /\ Len(<<0, 0>> \o t) = Wrap - 1
         /\ \A k \in 1..TextSize : (<<0, 0>> \o t)[k + 2] = t[k]
<1>1. t \in [1..TextSize -> Values] /\ TextSize \in Nat /\ TextSize = Wrap - 3
  BY ReceiveAssumption, Sizes DEF Values
<1>2. t \in Seq(Values) /\ Len(t) = TextSize  BY <1>1
<1>3. 0 \in Values  BY Sizes DEF Values
<1>4. <<0, 0>> \in Seq(Values) /\ Len(<<0, 0>>) = 2  BY <1>3
<1>5. /\ <<0, 0>> \o t \in Seq(Values) /\ Len(<<0, 0>> \o t) = 2 + TextSize
      /\ \A k \in 1..(2 + TextSize) : k > 2 => (<<0, 0>> \o t)[k] = t[k - 2]
  BY <1>2, <1>4, ConcatProperties
<1>6. \A k \in 1..TextSize : k + 2 \in 1..(2 + TextSize) /\ k + 2 > 2 /\ (k + 2) - 2 = k  BY <1>1
<1> HIDE DEF TextSize
<1>7. ASSUME NEW k \in 1..TextSize PROVE (<<0, 0>> \o t)[k + 2] = t[k]
  <2>1. (<<0, 0>> \o t)[k + 2] = t[(k + 2) - 2]  BY <1>5, <1>6
  <2> QED  BY <1>6, <2>1
<1> QED  BY <1>1, <1>2, <1>5, <1>7, Sizes

LEMMA SendablePayload ==
  ASSUME NEW m \in Sendable
  PROVE  /\ m.id \in Known /\ m.id \in Values
         /\ m.payload \in Seq(Values) /\ Len(m.payload) \in Values /\ Len(m.payload) >= 1
<1>1. CASE \E p \in NamedPayloads : m = Message(Named, p)
  <2>1. PICK p \in NamedPayloads : m = Message(Named, p)  BY <1>1
  <2>2. p \in [1..NamedLength -> Values]  BY ReceiveAssumption DEF Values
  <2>3. p \in Seq(Values) /\ Len(p) = NamedLength  BY <2>2, Sizes
  <2>4. m.id = Named /\ m.payload = p  BY <2>1 DEF Message
  <2> QED  BY <2>3, <2>4, Sizes, ReceiveAssumption DEF Known, Values
<1>2. CASE \E t \in Texts : m = Message(Encapsulated, <<0, 0>> \o t)
  <2>1. PICK t \in Texts : m = Message(Encapsulated, <<0, 0>> \o t)  BY <1>2
  <2>2. m.id = Encapsulated /\ m.payload = <<0, 0>> \o t  BY <2>1 DEF Message
  <2> QED  BY <2>2, TextPayload, Sizes, ReceiveAssumption DEF Known, Values
<1> QED  BY <1>1, <1>2, SendableForms

LEMMA CoveredBytes ==
  ASSUME NEW m \in Sendable
  PROVE  /\ Covered(m) \in Seq(Values) /\ Len(Covered(m)) = 5 + Len(m.payload)
         /\ Covered(m)[1] = Len(m.payload) /\ Covered(m)[5] = m.id
         /\ \A k \in 1..Len(m.payload) : Covered(m)[k + 5] = m.payload[k]
<1> DEFINE h == <<Len(m.payload), 0, 0, 0, m.id>>
           p == m.payload
<1>1. p \in Seq(Values) /\ Len(p) \in Values /\ Len(p) >= 1 /\ m.id \in Values  BY SendablePayload
<1>2. 0 \in Values  BY Sizes DEF Values
<1>3. h \in Seq(Values) /\ Len(h) = 5 /\ h[1] = Len(p) /\ h[5] = m.id  BY <1>1, <1>2
<1> HIDE DEF h, p
<1>4. /\ h \o p \in Seq(Values) /\ Len(h \o p) = 5 + Len(p)
      /\ \A k \in 1..(5 + Len(p)) : (h \o p)[k] = IF k <= 5 THEN h[k] ELSE p[k - 5]
  <2>1. /\ h \o p \in Seq(Values) /\ Len(h \o p) = Len(h) + Len(p)
        /\ \A k \in 1..(Len(h) + Len(p)) : (h \o p)[k] = IF k <= Len(h) THEN h[k] ELSE p[k - Len(h)]
    BY <1>1, <1>3, ConcatProperties
  <2> QED  BY <1>3, <2>1
<1>5. Len(p) \in Nat  BY <1>1
<1>6. (h \o p)[1] = h[1] /\ (h \o p)[5] = h[5]  BY <1>4, <1>5
<1>7. ASSUME NEW k \in 1..Len(p) PROVE (h \o p)[k + 5] = p[k]
  <2>1. k + 5 \in 1..(5 + Len(p)) /\ ~(k + 5 <= 5) /\ (k + 5) - 5 = k  BY <1>5
  <2> QED  BY <1>4, <2>1
<1> QED  BY <1>3, <1>4, <1>6, <1>7 DEF Covered, h, p

LEMMA CheckedBytes ==
  ASSUME NEW m \in Sendable
  PROVE  Checked(m) \in Seq(Values) /\ Checked(m) = Append(Covered(m), m.id)
BY CoveredBytes, SendablePayload DEF Checked

LEMMA SeqOfInt == ASSUME NEW b \in Seq(Values) PROVE b \in Seq(Int) /\ Len(b) \in Nat
<1>1. Len(b) \in Nat /\ b \in [1..Len(b) -> Values]  OBVIOUS
<1>2. b \in [1..Len(b) -> Int]  BY <1>1 DEF Values
<1> QED  BY <1>1, <1>2

LEMMA CheckByte ==
  ASSUME NEW b \in Seq(Values), NEW half \in {0, 1}
  PROVE  /\ Check(b, half) \in Bytes /\ Check(b, half).of # <<>>
         /\ Check(b, half).of = <<half>> \o b
<1>1. <<half>> \in Seq(Int) /\ b \in Seq(Int) /\ Len(<<half>>) = 1  BY SeqOfInt
<1>2. <<half>> \o b \in Seq(Int) /\ Len(<<half>> \o b) = 1 + Len(b)  BY <1>1, ConcatProperties
<1>3. Len(b) \in Nat  OBVIOUS
<1>4. <<half>> \o b # <<>>  BY <1>2, <1>3
<1>5. 0 \in Values  BY Sizes DEF Values
<1> QED  BY <1>2, <1>4, <1>5 DEF Check, Bytes

(* The checksum tells messages apart. *)
LEMMA CheckInjective ==
  ASSUME NEW a \in Seq(Values), NEW b \in Seq(Values), NEW g \in {0, 1}, NEW h \in {0, 1},
         Check(a, g) = Check(b, h)
  PROVE  a = b
<1>1. <<g>> \o a = <<h>> \o b  BY CheckByte
<1>2. <<g>> \in Seq(Int) /\ <<h>> \in Seq(Int) /\ a \in Seq(Int) /\ b \in Seq(Int)
      /\ Len(<<g>>) = 1 /\ Len(<<h>>) = 1
  BY SeqOfInt
<1>3. /\ Len(<<g>> \o a) = 1 + Len(a)
      /\ \A k \in 1..(1 + Len(a)) : (<<g>> \o a)[k] = IF k <= 1 THEN <<g>>[k] ELSE a[k - 1]
  BY <1>2, ConcatProperties
<1>4. /\ Len(<<h>> \o b) = 1 + Len(b)
      /\ \A k \in 1..(1 + Len(b)) : (<<h>> \o b)[k] = IF k <= 1 THEN <<h>>[k] ELSE b[k - 1]
  BY <1>2, ConcatProperties
<1>5. Len(a) \in Nat /\ Len(b) \in Nat  OBVIOUS
<1>6. Len(a) = Len(b)  BY <1>1, <1>3, <1>4, <1>5
<1>7. ASSUME NEW k \in 1..Len(a) PROVE a[k] = b[k]
  <2>1. k + 1 \in 1..(1 + Len(a)) /\ ~(k + 1 <= 1) /\ (k + 1) - 1 = k  BY <1>5
  <2>2. (<<g>> \o a)[k + 1] = a[k] /\ (<<h>> \o b)[k + 1] = b[k]  BY <1>3, <1>4, <1>6, <2>1
  <2> QED  BY <1>1, <2>2
<1> QED  BY <1>6, <1>7, SeqEqual

(* A frame, byte by byte. *)
LEMMA PackedAt ==
  ASSUME NEW m \in Sendable
  PROVE  LET n == Len(m.payload)
         IN /\ Packed(m) \in Seq(Bytes) /\ Len(Packed(m)) = n + 8
            /\ Packed(m)[1] = Plain(Start)
            /\ \A k \in 2..(n + 6) : Packed(m)[k] = Plain(Covered(m)[k - 1])
            /\ Packed(m)[n + 7] = Check(Checked(m), 0) /\ Packed(m)[n + 8] = Check(Checked(m), 1)
<1> DEFINE n == Len(m.payload)
           c == Covered(m)
           front == [k \in 1..(Len(c) + 1) |-> IF k = 1 THEN Plain(Start) ELSE Plain(c[k - 1])]
           back == <<Check(Checked(m), 0), Check(Checked(m), 1)>>
<1>1. Packed(m) = front \o back  BY DEF Packed, Covered, Checked
<1>2. c \in Seq(Values) /\ Len(c) = n + 5 /\ n \in Nat  BY CoveredBytes, SendablePayload
<1>3. Checked(m) \in Seq(Values)  BY CheckedBytes
<1> HIDE DEF c, n
<1>4. Start \in Values  BY Sizes DEF Start, Values
<1>5. \A v \in Values : Plain(v) \in Bytes
  <2>1. <<>> \in Seq(Int)  OBVIOUS
  <2> QED  BY <2>1 DEF Plain, Bytes
<1>6. \A k \in 1..(Len(c) + 1) : front[k] \in Bytes
  <2> TAKE k \in 1..(Len(c) + 1)
  <2>1. CASE k = 1  BY <1>4, <1>5, <2>1
  <2>2. CASE k # 1
    <3>1. k - 1 \in 1..Len(c)  BY <1>2, <2>2
    <3>2. c[k - 1] \in Values  BY <1>2, <3>1
    <3> QED  BY <1>5, <2>2, <3>2
  <2> QED  BY <2>1, <2>2
<1>7. front \in Seq(Bytes) /\ Len(front) = n + 6
  <2>1. front \in [1..(Len(c) + 1) -> Bytes]  BY <1>6
  <2>2. Len(c) + 1 = n + 6 /\ n + 6 \in Nat  BY <1>2
  <2> HIDE DEF front
  <2> QED  BY <2>1, <2>2
<1>8. Check(Checked(m), 0) \in Bytes /\ Check(Checked(m), 1) \in Bytes  BY <1>3, CheckByte
<1>9. back \in Seq(Bytes) /\ Len(back) = 2  BY <1>8
<1>10. back[1] = Check(Checked(m), 0) /\ back[2] = Check(Checked(m), 1)  OBVIOUS
<1>11. front[1] = Plain(Start) /\ \A k \in 2..(n + 6) : front[k] = Plain(c[k - 1])  BY <1>2
<1> HIDE DEF front, back
<1>12. /\ front \o back \in Seq(Bytes) /\ Len(front \o back) = n + 8
       /\ \A k \in 1..(n + 8) : (front \o back)[k] = IF k <= n + 6 THEN front[k] ELSE back[k - (n + 6)]
  <2>1. /\ front \o back \in Seq(Bytes) /\ Len(front \o back) = Len(front) + Len(back)
        /\ \A k \in 1..(Len(front) + Len(back)) :
             (front \o back)[k] = IF k <= Len(front) THEN front[k] ELSE back[k - Len(front)]
    BY <1>7, <1>9, ConcatProperties
  <2>2. Len(front) + Len(back) = n + 8  BY <1>2, <1>7, <1>9
  <2> QED  BY <1>7, <2>1, <2>2
<1>13. Packed(m)[1] = front[1] /\ \A k \in 2..(n + 6) : Packed(m)[k] = front[k]  BY <1>1, <1>2, <1>12
<1>14. Packed(m)[n + 7] = back[1] /\ Packed(m)[n + 8] = back[2]
  <2>1. n + 7 \in 1..(n + 8) /\ ~(n + 7 <= n + 6) /\ (n + 7) - (n + 6) = 1  BY <1>2
  <2>2. n + 8 \in 1..(n + 8) /\ ~(n + 8 <= n + 6) /\ (n + 8) - (n + 6) = 2  BY <1>2
  <2>3. (front \o back)[n + 7] = back[(n + 7) - (n + 6)]  BY <1>12, <2>1
  <2>4. (front \o back)[n + 8] = back[(n + 8) - (n + 6)]  BY <1>12, <2>2
  <2> QED  BY <1>1, <2>1, <2>2, <2>3, <2>4
<1> QED  BY <1>1, <1>10, <1>11, <1>12, <1>13, <1>14 DEF n, c

(* Only the last two bytes of a frame are checksum bytes. *)
LEMMA PackedBytes ==
  ASSUME NEW m \in Sendable
  PROVE  /\ Packed(m) \in Seq(Bytes)
         /\ \A k \in 1..Len(Packed(m)) : \/ Packed(m)[k].of = <<>>
                                         \/ \E half \in {0, 1} : Packed(m)[k] = Check(Checked(m), half)
<1> DEFINE n == Len(m.payload)
<1>1. n \in Nat  BY SendablePayload
<1>2. \A v : Plain(v).of = <<>>  BY DEF Plain
<1> SUFFICES ASSUME NEW k \in 1..(n + 8)
             PROVE  \/ Packed(m)[k].of = <<>>
                    \/ \E half \in {0, 1} : Packed(m)[k] = Check(Checked(m), half)
  BY PackedAt
<1>3. k = 1 \/ k \in 2..(n + 6) \/ k = n + 7 \/ k = n + 8  BY <1>1
<1> QED  BY <1>2, <1>3, PackedAt

-----------------------------------------------------------------------------
(* Bytes read and appended. *)
LEMMA LineByte ==
  ASSUME Wired, line # <<>>
  PROVE  Head(line) \in Bytes /\ Head(line).v \in Values /\ current \in Sendable
<1>1. line \in Seq(Bytes)  BY DEF Wired
<1>2. Head(line) \in Bytes  BY <1>1
<1> QED  BY <1>2 DEF Wired, Bytes

LEMMA TailWired == ASSUME Wired, line # <<>>, line' = Tail(line), current' = current PROVE Wired'
<1>1. line \in Seq(Bytes) /\ current \in Sendable  BY DEF Wired
<1>2. /\ Tail(line) \in Seq(Bytes) /\ Len(line) \in Nat \ {0} /\ Len(Tail(line)) = Len(line) - 1
      /\ \A k \in 1..Len(Tail(line)) : Tail(line)[k] = line[k + 1]
  BY <1>1
<1>3. ASSUME NEW k \in 1..Len(line')
      PROVE  \/ line'[k].of = <<>>
             \/ \E half \in {0, 1} : line'[k] = Check(Checked(current'), half)
  <2>1. k + 1 \in 1..Len(line) /\ line'[k] = line[k + 1]  BY <1>2
  <2>2. \/ line[k + 1].of = <<>>
        \/ \E half \in {0, 1} : line[k + 1] = Check(Checked(current), half)
    BY <2>1 DEF Wired
  <2> QED  BY <2>1, <2>2
<1> QED  BY <1>1, <1>2, <1>3 DEF Wired

LEMMA Positions == /\ Position["start"] = 0 /\ Position["len"] = 1 /\ Position["seq"] = 2
                   /\ Position["sys"] = 3 /\ Position["comp"] = 4
BY DEF Position

LEMMA Wrapped ==
  ASSUME NEW n \in 0..(Wrap - 1)
  PROVE  (n + 1) % Wrap = IF n = Wrap - 1 THEN 0 ELSE n + 1
<1>1. Wrap \in Nat \ {0}  BY Sizes
<1> DEFINE q == (n + 1) \div Wrap
           m == (n + 1) % Wrap
<1>2. n + 1 = Wrap * q + m /\ m \in 0..(Wrap - 1) /\ q \in Int  BY <1>1
<1>3. n + 1 >= 1 /\ n + 1 <= Wrap  BY <1>1
<1> HIDE DEF q, m
<1>4. q \in {0, 1}
  <2>1. CASE q < 0
    <3>1. Wrap * q <= 0 - Wrap  BY <1>1, <1>2, <2>1
    <3> QED  BY <1>1, <1>2, <1>3, <3>1
  <2>2. CASE q > 1
    <3>1. Wrap * q >= 2 * Wrap  BY <1>1, <1>2, <2>2
    <3> QED  BY <1>1, <1>2, <1>3, <3>1
  <2> QED  BY <1>2, <2>1, <2>2
<1>5. m = IF n = Wrap - 1 THEN 0 ELSE n + 1  BY <1>1, <1>2, <1>3, <1>4
<1> QED  BY <1>5 DEF m

LEMMA Summing ==
  ASSUME NEW s \in Seq(Values), NEW v \in Values
  PROVE  /\ Append(s, v) \in Seq(Values) /\ Len(Append(s, v)) = Len(s) + 1 /\ Len(s) \in Nat
         /\ Append(s, v)[Len(s) + 1] = v /\ \A k \in 1..Len(s) : Append(s, v)[k] = s[k]
OBVIOUS

(* What a byte taken leaves alone. *)
LEMMA ReceiveFrame ==
  ASSUME Inv, NEW from, Receive(from)
  PROVE  /\ state = from /\ line # <<>> /\ Head(line).v \in Values /\ Wired'
         /\ current' = current /\ localData' = localData /\ shown' = shown
<1>1. line # <<>> /\ line' = Tail(line) /\ current' = current  BY DEF Receive, history
<1> QED  BY <1>1, LineByte, TailWired DEF Inv, Receive, history, display

LEMMA InitInv == Init => Inv
<1> SUFFICES ASSUME Init PROVE Inv  OBVIOUS
<1>1. Empty \in [1..TextSize -> Values] /\ Spaces \in [1..TextSize -> Values]
  BY Sizes DEF Empty, Spaces, Values
<1>2. [k \in 1..SERIALBUFFERSIZE |-> 0] \in [1..SERIALBUFFERSIZE -> Values] /\ 0 \in Values
  BY Sizes DEF Values
<1>3. <<>> \in Seq(Values) /\ <<>> \in Seq(Bytes) /\ Len(<<>>) = 0  OBVIOUS
<1>4. TypeOK  BY <1>1, <1>2, <1>3 DEF Init, TypeOK
<1>5. Wired /\ Counted /\ HandledWasSent  BY <1>3 DEF Init, Wired, Counted, HandledWasSent
<1> QED  BY <1>4, <1>5 DEF Inv

-----------------------------------------------------------------------------
(* Each state of the receiver. *)
LEMMA SendStep == ASSUME Inv, Send PROVE Inv'
<1>1. current' \in Sendable /\ line' = Packed(current') /\ handled' = None
      /\ UNCHANGED <<state, length, id, magic, low, index, sum, serialBuffer, encData, encDataReady,
                     clear_debug, localData, shown>>
  BY DEF Send, header, contents, display
<1>2. TypeOK'  BY <1>1 DEF Inv, TypeOK
<1>3. Wired'  BY <1>1, PackedBytes DEF Wired
<1>4. Counted'  BY <1>1 DEF Inv, Counted, Stored
<1> QED  BY <1>1, <1>2, <1>3, <1>4 DEF Inv, HandledWasSent

LEMMA IdleStep == ASSUME Inv, Idle PROVE Inv'
<1>1. Receive("idle")  BY DEF Idle
<1>2. state = "idle" /\ Wired' /\ current' = current /\ UNCHANGED <<localData, shown>>
  BY <1>1, ReceiveFrame
<1>3. UNCHANGED <<length, id, magic, low, serialBuffer, encData, encDataReady, clear_debug, handled>>
      /\ \/ state' = "start" /\ sum' = <<>> /\ index' = 0
         \/ UNCHANGED <<state, sum, index>>
  BY DEF Idle, header, contents
<1>4. <<>> \in Seq(Values) /\ Len(<<>>) = 0 /\ 0 \in Values  BY Sizes DEF Values
<1>5. TypeOK'  BY <1>2, <1>3, <1>4 DEF Inv, TypeOK
<1>6. Counted'
  <2>1. CASE state' = "start"  BY <1>2, <1>3, <1>4, <2>1, Positions DEF Counted
  <2>2. CASE state' = "idle"  BY <2>2 DEF Counted
  <2> QED  BY <1>2, <1>3, <2>1, <2>2
<1> QED  BY <1>2, <1>3, <1>5, <1>6 DEF Inv, HandledWasSent

LEMMA StartStep == ASSUME Inv, HeaderStart PROVE Inv'
<1> DEFINE b == Head(line).v
<1>1. Receive("start")  BY DEF HeaderStart
<1>2. state = "start" /\ b \in Values /\ Wired' /\ current' = current /\ UNCHANGED <<localData, shown>>
  BY <1>1, ReceiveFrame
<1>3. /\ UNCHANGED <<id, magic, low, index, serialBuffer, encData, encDataReady, clear_debug, handled>>
      /\ sum' = Append(sum, b) /\ length' = b /\ state' \in {"idle", "len"}
  BY DEF HeaderStart, contents, Summed, byte
<1> HIDE DEF b
<1>4. sum = <<>> /\ index = 0  BY <1>2 DEF Inv, TypeOK
<1>5. sum' \in Seq(Values) /\ Len(sum') = 1 /\ sum'[1] = b  BY <1>2, <1>3, <1>4
<1>6. TypeOK'  BY <1>2, <1>3, <1>5 DEF Inv, TypeOK
<1>7. Counted'  BY <1>3, <1>4, <1>5, Positions DEF Counted
<1> QED  BY <1>2, <1>3, <1>6, <1>7 DEF Inv, HandledWasSent

LEMMA SkipStep == ASSUME Inv, Skip PROVE Inv'
<1> DEFINE b == Head(line).v
<1>1. PICK step \in {<<"len", "seq">>, <<"seq", "sys">>, <<"sys", "comp">>} :
        /\ Receive(step[1]) /\ Summed /\ state' = step[2]
        /\ UNCHANGED <<header, index, contents, clear_debug, handled>>
  BY DEF Skip
<1>2. state = step[1] /\ b \in Values /\ Wired' /\ current' = current /\ UNCHANGED <<localData, shown>>
  BY <1>1, ReceiveFrame
<1>3. /\ UNCHANGED <<length, id, magic, low, index, serialBuffer, encData, encDataReady, clear_debug, handled>>
      /\ sum' = Append(sum, b)
  BY <1>1 DEF header, contents, Summed, byte
<1> HIDE DEF b
<1>4. \/ state = "len" /\ state' = "seq" /\ Len(sum) = 1
      \/ state = "seq" /\ state' = "sys" /\ Len(sum) = 2
      \/ state = "sys" /\ state' = "comp" /\ Len(sum) = 3
  <2>1. CASE step = <<"len", "seq">>  BY <1>1, <1>2, <2>1, Positions DEF Inv, Counted
  <2>2. CASE step = <<"seq", "sys">>  BY <1>1, <1>2, <2>2, Positions DEF Inv, Counted
  <2>3. CASE step = <<"sys", "comp">>  BY <1>1, <1>2, <2>3, Positions DEF Inv, Counted
  <2> QED  BY <2>1, <2>2, <2>3
<1>5. sum[1] = length /\ index = 0 /\ sum \in Seq(Values)  BY <1>4 DEF Inv, Counted, TypeOK
<1>6. sum' \in Seq(Values) /\ Len(sum') = Len(sum) + 1 /\ sum'[1] = length
  BY <1>2, <1>3, <1>4, <1>5, Summing
<1>7. TypeOK'  BY <1>2, <1>3, <1>4, <1>6 DEF Inv, TypeOK
<1>8. Counted'  BY <1>3, <1>4, <1>5, <1>6, Positions DEF Counted
<1> QED  BY <1>2, <1>3, <1>7, <1>8 DEF Inv, HandledWasSent

LEMMA CompStep == ASSUME Inv, HeaderComp PROVE Inv'
<1> DEFINE b == Head(line).v
<1>1. Receive("comp")  BY DEF HeaderComp
<1>2. state = "comp" /\ b \in Values /\ Wired' /\ current' = current /\ UNCHANGED <<localData, shown>>
  BY <1>1, ReceiveFrame
<1>3. /\ UNCHANGED <<length, low, index, serialBuffer, encData, encDataReady, clear_debug, handled>>
      /\ sum' = Append(sum, b) /\ id' = b /\ magic' \in Known \cup {magic}
      /\ state' \in {"payload", "idle"}
      /\ b \in Known /\ state' = "payload" => length = Length(b)
  BY DEF HeaderComp, contents, Summed, byte
<1> HIDE DEF b
<1>4. Len(sum) = 4 /\ sum[1] = length /\ index = 0 /\ sum \in Seq(Values)
  BY <1>2, Positions DEF Inv, Counted, TypeOK
<1>5. sum' \in Seq(Values) /\ Len(sum') = 5 /\ sum'[1] = length /\ sum'[5] = b
  <2>1. /\ sum' \in Seq(Values) /\ Len(sum') = Len(sum) + 1 /\ sum'[Len(sum) + 1] = b
        /\ \A k \in 1..Len(sum) : sum'[k] = sum[k]
    BY <1>2, <1>3, <1>4, Summing
  <2>2. Len(sum) + 1 = 5 /\ 1 \in 1..Len(sum)  BY <1>4
  <2> QED  BY <1>4, <2>1, <2>2
<1>6. length \in Nat  BY DEF Inv, TypeOK, Values
<1>7. index' < length' \/ length' = 0  BY <1>3, <1>4, <1>6
<1>8. TypeOK'
  <2>1. Len(sum') = 5 + index'  BY <1>3, <1>4, <1>5
  <2> QED  BY <1>2, <1>3, <1>5, <1>7, <2>1 DEF Inv, TypeOK
<1>9. Stored(index)'
  <2>1. \A k \in 1..TextSize : ~(k + 2 <= index')  BY <1>3, <1>4, Sizes
  <2>2. \A k \in 1..SERIALBUFFERSIZE : ~(k <= index')  BY <1>3, <1>4, Sizes
  <2> QED  BY <2>1, <2>2 DEF Stored
<1>10. Counted'  BY <1>3, <1>4, <1>5, <1>7, <1>9 DEF Counted
<1> QED  BY <1>2, <1>3, <1>8, <1>10 DEF Inv, HandledWasSent

LEMMA PayloadStep == ASSUME Inv, Payload PROVE Inv'
<1> DEFINE b == Head(line).v
<1>1. Receive("payload")  BY DEF Payload
<1>2. state = "payload" /\ b \in Values /\ Wired' /\ current' = current /\ UNCHANGED <<localData, shown>>
  BY <1>1, ReceiveFrame
<1>3. /\ UNCHANGED <<length, id, magic, low, clear_debug, handled>>
      /\ sum' = Append(sum, b) /\ index' = (index + 1) % Wrap
      /\ state' = IF index' = length THEN "checksum" ELSE "payload"
  BY <1>2 DEF Payload, header, Summed, byte
<1>4. IF id = Encapsulated
      THEN /\ encDataReady' = FALSE /\ serialBuffer' = serialBuffer
           /\ encData' = IF index - 1 \in 1..TextSize THEN [encData EXCEPT ![index - 1] = b] ELSE encData
      ELSE /\ UNCHANGED <<encData, encDataReady>>
           /\ serialBuffer' = IF index < SERIALBUFFERSIZE
                              THEN [serialBuffer EXCEPT ![index + 1] = b] ELSE serialBuffer
  BY DEF Payload, byte
<1> HIDE DEF b
<1>5. /\ Len(sum) = 5 + index /\ sum[1] = length /\ sum[5] = id /\ Stored(index)
      /\ (index < length \/ length = 0) /\ sum \in Seq(Values)
      /\ index \in 0..(Wrap - 1) /\ length \in 0..(Wrap - 1)
      /\ serialBuffer \in [1..SERIALBUFFERSIZE -> Values] /\ encData \in [1..TextSize -> Values]
      /\ encDataReady \in BOOLEAN
  BY <1>2 DEF Inv, Counted, TypeOK, Values
<1>6. /\ sum' \in Seq(Values) /\ Len(sum') = index + 6 /\ sum'[index + 6] = b
      /\ \A k \in 1..(index + 5) : sum'[k] = sum[k]
  <2>1. Len(sum) + 1 = index + 6 /\ Len(sum) = index + 5  BY <1>5
  <2> QED  BY <1>2, <1>3, <1>5, <2>1, Summing
<1>7. index' = (IF index = Wrap - 1 THEN 0 ELSE index + 1) /\ index' \in 0..(Wrap - 1)
  BY <1>3, <1>5, Sizes, Wrapped
<1>8. serialBuffer' \in [1..SERIALBUFFERSIZE -> Values] /\ encData' \in [1..TextSize -> Values]
      /\ encDataReady' \in BOOLEAN
  BY <1>2, <1>4, <1>5
<1>9. /\ state' = "payload" => Len(sum') = 5 + index' /\ (index' < length' \/ length' = 0)
      /\ state' = "checksum" => Len(sum') = 5 + (IF length' = 0 THEN Wrap ELSE length')
      /\ state' \in {"payload", "checksum"}
  BY <1>3, <1>5, <1>6, <1>7, Sizes
<1>10. length # 0 => index' = index + 1  BY <1>5, <1>7
<1>11. index' = 0 \/ index' = index + 1  BY <1>7
<1>12. Stored(index)'
  <2>1. CASE index' = 0
    <3>1. (\A k \in 1..TextSize : ~(k + 2 <= index')) /\ \A k \in 1..SERIALBUFFERSIZE : ~(k <= index')
      BY <2>1, Sizes
    <3> QED  BY <3>1 DEF Stored
  <2>2. CASE index' = index + 1 /\ id = Encapsulated
    <3>1. ASSUME NEW k \in 1..TextSize, k + 2 <= index' PROVE encData'[k] = sum'[k + 7]
      <4>1. k \in Nat /\ index \in Nat  BY <1>5, Sizes
      <4>2. CASE k = index - 1
        <5>1. index - 1 \in 1..TextSize /\ k + 7 = index + 6  BY <4>1, <4>2
        <5> QED  BY <1>4, <1>5, <1>6, <2>2, <4>2, <5>1
      <4>3. CASE k # index - 1
        <5>1. k + 2 <= index /\ k + 7 \in 1..(index + 5)  BY <2>2, <3>1, <4>1, <4>3
        <5>2. encData[k] = sum[k + 7]  BY <1>5, <2>2, <5>1 DEF Stored
        <5>3. encData'[k] = encData[k]  BY <1>4, <1>5, <2>2, <4>3
        <5> QED  BY <1>6, <5>1, <5>2, <5>3
      <4> QED  BY <4>2, <4>3
    <3> QED  BY <1>3, <2>2, <3>1 DEF Stored
  <2>3. CASE index' = index + 1 /\ id # Encapsulated
    <3>1. ASSUME NEW k \in 1..SERIALBUFFERSIZE, k <= index' PROVE serialBuffer'[k] = sum'[k + 5]
      <4>1. k \in Nat /\ index \in Nat  BY <1>5, Sizes
      <4>2. CASE k = index + 1
        <5>1. index < SERIALBUFFERSIZE /\ k + 5 = index + 6  BY <4>1, <4>2, Sizes
        <5> QED  BY <1>4, <1>5, <1>6, <2>3, <4>2, <5>1
      <4>3. CASE k # index + 1
        <5>1. k <= index /\ k + 5 \in 1..(index + 5)  BY <2>3, <3>1, <4>1, <4>3
        <5>2. serialBuffer[k] = sum[k + 5]  BY <1>5, <2>3, <5>1 DEF Stored
        <5>3. serialBuffer'[k] = serialBuffer[k]  BY <1>4, <1>5, <2>3, <4>3
        <5> QED  BY <1>6, <5>1, <5>2, <5>3
      <4> QED  BY <4>2, <4>3
    <3> QED  BY <1>3, <2>3, <3>1 DEF Stored
  <2> QED  BY <1>11, <2>1, <2>2, <2>3
<1>13. 1 \in 1..(index + 5) /\ 5 \in 1..(index + 5) /\ Len(sum') >= 5  BY <1>5, <1>6
<1>14. sum'[1] = length' /\ sum'[5] = id'  BY <1>3, <1>5, <1>6, <1>13
<1>15. TypeOK'
  <2>1. index' \in Values  BY <1>7 DEF Values
  <2>2. state' = "checksum" /\ index' = length' => Len(sum') = 5 + (IF length' = 0 THEN Wrap ELSE length')
    BY <1>9
  <2> QED  BY <1>2, <1>3, <1>6, <1>8, <1>9, <2>1, <2>2 DEF Inv, TypeOK
<1>16. Counted'
  <2>1. state' = "checksum" => Stored(length)'
    <3> SUFFICES ASSUME state' = "checksum" PROVE Stored(length)'  OBVIOUS
    <3>1. index' = length'  BY <1>3
    <3> QED  BY <1>12, <3>1 DEF Stored
  <2> QED  BY <1>9, <1>12, <1>13, <1>14, <2>1 DEF Counted
<1> QED  BY <1>2, <1>3, <1>15, <1>16 DEF Inv, HandledWasSent

LEMMA LowStep == ASSUME Inv, ChecksumLow PROVE Inv'
<1>1. Receive("checksum")  BY DEF ChecksumLow
<1>2. state = "checksum" /\ Wired' /\ current' = current /\ UNCHANGED <<localData, shown>>
  BY <1>1, ReceiveFrame
<1>3. /\ UNCHANGED <<state, length, id, magic, sum, serialBuffer, encData, encDataReady, clear_debug, handled>>
      /\ index' = (index + 1) % Wrap
  BY DEF ChecksumLow, contents
<1>4. index \in 0..(Wrap - 1)  BY DEF Inv, TypeOK, Values
<1>5. index' \in Values  BY <1>3, <1>4, Sizes DEF Values
<1>6. Len(sum) = 5 + (IF length = 0 THEN Wrap ELSE length)  BY <1>2 DEF Inv, Counted
<1>7. TypeOK'  BY <1>2, <1>3, <1>5, <1>6 DEF Inv, TypeOK
<1>8. Counted'  BY <1>2, <1>3 DEF Inv, Counted, Stored
<1> QED  BY <1>2, <1>3, <1>7, <1>8 DEF Inv, HandledWasSent

(* A matching checksum: the bytes summed are those of the message under way, and so are the
   ones stored. *)
LEMMA MatchTaken ==
  ASSUME Inv, state = "checksum", line # <<>>, Head(line) = Check(Append(sum, magic), 1)
  PROVE  /\ Taken = current /\ current \in Sendable
         /\ id = Encapsulated => encData \in Texts
<1>1. current \in Sendable /\ line \in Seq(Bytes)  BY DEF Inv, Wired
<1>2. sum \in Seq(Values) /\ magic \in Values
  BY ReceiveAssumption, Sizes DEF Inv, TypeOK, Known, Values
<1>3. Append(sum, magic) \in Seq(Values)  BY <1>2
<1>4. Head(line) = line[1] /\ 1 \in 1..Len(line)  BY <1>1
<1>5. PICK half \in {0, 1} : Head(line) = Check(Checked(current), half)
  <2>1. Head(line).of # <<>>  BY <1>3, CheckByte
  <2> QED  BY <1>4, <2>1 DEF Inv, Wired
<1>6. Append(sum, magic) = Append(Covered(current), current.id)
  <2>1. Checked(current) \in Seq(Values) /\ Checked(current) = Append(Covered(current), current.id)
    BY <1>1, CheckedBytes
  <2>2. Append(sum, magic) = Checked(current)  BY <1>3, <1>5, <2>1, CheckInjective
  <2> QED  BY <2>1, <2>2
<1>7. sum = Covered(current)
  <2>1. Covered(current) \in Seq(Values) /\ current.id \in Values
    BY <1>1, CoveredBytes, SendablePayload
  <2> QED  BY <1>2, <1>6, <2>1, AppendProperties
<1>8. /\ length = Len(current.payload) /\ id = current.id
      /\ \A k \in 1..length : sum[k + 5] = current.payload[k]
  <2>1. sum[1] = length /\ sum[5] = id  BY DEF Inv, Counted
  <2> QED  BY <1>1, <1>7, <2>1, CoveredBytes
<1>9. length # 0 /\ length \in Nat /\ Stored(length)
  <2>1. length \in Values /\ length >= 1  BY <1>1, <1>8, SendablePayload
  <2> QED  BY <2>1 DEF Inv, Counted, Values
<1>10. CASE \E p \in NamedPayloads : current = Message(Named, p)
  <2>1. PICK p \in NamedPayloads : current = Message(Named, p)  BY <1>10
  <2>2. p \in [1..NamedLength -> Values]  BY ReceiveAssumption DEF Values
  <2>3. current.payload = p /\ id = Named /\ Len(p) = NamedLength  BY <1>8, <2>1, <2>2, Sizes DEF Message
  <2>4. id # Encapsulated /\ length = NamedLength  BY <1>8, <2>3, ReceiveAssumption
  <2>5. \A k \in 1..NamedLength : serialBuffer[k] = p[k]
    BY <1>8, <1>9, <2>3, <2>4, Sizes DEF Stored
  <2>6. SubSeq(serialBuffer, 1, NamedLength) = p
    <3> DEFINE q == SubSeq(serialBuffer, 1, NamedLength)
    <3>1. \A k \in 1..NamedLength : serialBuffer[k] \in Values  BY <2>2, <2>5
    <3>2. q \in Seq(Values) /\ Len(q) = NamedLength
          /\ \A k \in 1..NamedLength : q[k] = serialBuffer[k]
      <4>1. /\ q \in Seq(Values)
            /\ Len(q) = (IF 1 <= NamedLength THEN NamedLength - 1 + 1 ELSE 0)
            /\ \A k \in 1..(NamedLength - 1 + 1) : q[k] = serialBuffer[1 + k - 1]
        BY <3>1, Sizes, SubSeqProperties
      <4>2. NamedLength - 1 + 1 = NamedLength /\ 1 <= NamedLength
            /\ \A k \in 1..NamedLength : 1 + k - 1 = k
        BY Sizes
      <4> HIDE DEF q
      <4> QED  BY <4>1, <4>2
    <3>3. p \in Seq(Values) /\ Len(p) = NamedLength  BY <2>2, Sizes
    <3> HIDE DEF q
    <3>4. Len(q) = Len(p) /\ \A k \in 1..Len(q) : q[k] = p[k]  BY <2>5, <3>2, <3>3
    <3>5. q = p  BY <3>2, <3>3, <3>4, SeqEqual
    <3> QED  BY <3>5 DEF q
  <2>7. Taken = Message(Named, p)  BY <2>3, <2>4, <2>6 DEF Taken, Message
  <2> QED  BY <1>1, <2>1, <2>4, <2>7
<1>11. CASE \E t \in Texts : current = Message(Encapsulated, <<0, 0>> \o t)
  <2>1. PICK t \in Texts : current = Message(Encapsulated, <<0, 0>> \o t)  BY <1>11
  <2>2. /\ current.payload = <<0, 0>> \o t /\ id = Encapsulated /\ t \in [1..TextSize -> Values]
        /\ length = Wrap - 1 /\ \A k \in 1..TextSize : (<<0, 0>> \o t)[k + 2] = t[k]
    BY <1>8, <2>1, TextPayload DEF Message
  <2>3. ASSUME NEW k \in 1..TextSize PROVE encData[k] = t[k]
    <3>1. k + 2 \in 1..length /\ k + 2 <= length /\ (k + 2) + 5 = k + 7  BY <2>2, Sizes
    <3>2. encData[k] = sum[k + 7]  BY <1>9, <2>2, <3>1 DEF Stored
    <3>3. sum[k + 7] = current.payload[k + 2]  BY <1>8, <3>1
    <3> QED  BY <2>2, <3>2, <3>3
  <2>4. encData \in [1..TextSize -> Values]  BY DEF Inv, TypeOK
  <2>5. encData = t
    <3>1. encData = [k \in 1..TextSize |-> encData[k]]  BY <2>4
    <3>2. t = [k \in 1..TextSize |-> t[k]]  BY <2>2
    <3> QED  BY <2>3, <3>1, <3>2, Zenon
  <2>6. Taken = Message(Encapsulated, <<0, 0>> \o t)  BY <2>2, <2>5 DEF Taken, Message
  <2> QED  BY <1>1, <2>1, <2>5, <2>6
<1> QED  BY <1>1, <1>10, <1>11, SendableForms

LEMMA HighStep == ASSUME Inv, ChecksumHigh PROVE Inv'
<1>1. Receive("checksum")  BY DEF ChecksumHigh
<1>2. state = "checksum" /\ line # <<>> /\ Wired' /\ current' = current /\ UNCHANGED <<localData, shown>>
  BY <1>1, ReceiveFrame
<1>3. UNCHANGED <<length, id, magic, low, index, serialBuffer, encData>> /\ state' = "idle"
      /\ sum' = Append(sum, magic)
  BY DEF ChecksumHigh, header
<1>4. sum' \in Seq(Values)
  <2>1. magic \in Values  BY ReceiveAssumption, Sizes DEF Inv, TypeOK, Known, Values
  <2> QED  BY <1>3, <2>1 DEF Inv, TypeOK
<1>5. encDataReady' \in BOOLEAN /\ clear_debug' \in BOOLEAN
  BY DEF ChecksumHigh, Inv, TypeOK
<1>6. handled' \in {handled, current} /\ (handled' # handled => current \in Sendable)
  <2>1. CASE Matches
    <3>1. Head(line) = Check(Append(sum, magic), 1)  BY <2>1 DEF Matches
    <3>2. Taken = current /\ current \in Sendable  BY <1>2, <3>1, MatchTaken
    <3> QED  BY <2>1, <3>2 DEF ChecksumHigh
  <2>2. CASE ~Matches  BY <2>2 DEF ChecksumHigh
  <2> QED  BY <2>1, <2>2
<1>7. TypeOK'  BY <1>2, <1>3, <1>4, <1>5, <1>6 DEF Inv, TypeOK
<1>8. Counted'  BY <1>3 DEF Counted
<1>9. HandledWasSent'  BY <1>2, <1>6 DEF Inv, HandledWasSent
<1> QED  BY <1>2, <1>7, <1>8, <1>9 DEF Inv

(* The display, and what fails on the line. *)
LEMMA DisplayStep == ASSUME Inv, DisplayMessage PROVE Inv'
<1>1. /\ UNCHANGED <<line, current, state, length, id, magic, index, sum, serialBuffer, encData,
                     encDataReady, clear_debug, handled>>
      /\ localData' \in {encData, localData} /\ shown' \in {Spaces, localData'}
  BY DEF DisplayMessage, Show, history, header, contents
<1>2. Spaces \in [1..TextSize -> Values]  BY Sizes DEF Spaces, Values
<1>3. TypeOK'  BY <1>1, <1>2 DEF Inv, TypeOK
<1>4. Wired' /\ Counted' /\ HandledWasSent'  BY <1>1 DEF Inv, Wired, Counted, Stored, HandledWasSent
<1> QED  BY <1>3, <1>4 DEF Inv

LEMMA DamageStep ==
  ASSUME Inv, Damage, Wired' PROVE Inv'
<1>1. /\ UNCHANGED <<current, state, length, id, magic, index, sum, serialBuffer, encData,
                     encDataReady, clear_debug, localData, shown, handled>>
  BY DEF Damage, header, contents, display
<1> QED  BY <1>1 DEF Inv, TypeOK, Counted, Stored, HandledWasSent

LEMMA FalsifyStep == ASSUME Inv, Falsify PROVE Inv'
<1>1. PICK v \in Values : line' = <<Plain(v)>> \o Tail(line)  BY DEF Falsify
<1>2. line # <<>> /\ current' = current /\ line \in Seq(Bytes)  BY DEF Falsify, Damage, Inv, Wired
<1>3. Tail(line) \in Seq(Bytes) /\ Len(line) \in Nat \ {0} /\ Len(Tail(line)) = Len(line) - 1
      /\ \A k \in 1..Len(Tail(line)) : Tail(line)[k] = line[k + 1]
  BY <1>2
<1>4. Plain(v) \in Bytes /\ Plain(v).of = <<>>
  <2>1. <<>> \in Seq(Int)  OBVIOUS
  <2> QED  BY <2>1 DEF Plain, Bytes
<1> DEFINE t == Tail(line)
           f == <<Plain(v)>>
<1>5. f \in Seq(Bytes) /\ Len(f) = 1 /\ f[1] = Plain(v)  BY <1>4
<1> HIDE DEF t, f
<1>6. /\ line' \in Seq(Bytes) /\ Len(line') = Len(f) + Len(t)
      /\ \A k \in 1..(Len(f) + Len(t)) : line'[k] = IF k <= Len(f) THEN f[k] ELSE t[k - Len(f)]
  BY <1>1, <1>3, <1>5, ConcatProperties DEF t, f
<1>7. ASSUME NEW k \in 1..Len(line')
      PROVE  \/ line'[k].of = <<>>
             \/ \E half \in {0, 1} : line'[k] = Check(Checked(current'), half)
  <2>1. Len(f) = 1 /\ Len(t) = Len(line) - 1 /\ Len(line) \in Nat  BY <1>3, <1>5 DEF t
  <2>2. CASE k = 1  BY <1>4, <1>5, <1>6, <2>1, <2>2
  <2>3. CASE k # 1
    <3>1. line'[k] = t[k - 1] /\ k - 1 \in 1..Len(t)  BY <1>6, <2>1, <2>3
    <3>2. t[k - 1] = line[k] /\ k \in 1..Len(line)
      <4>1. (k - 1) + 1 = k /\ k \in 1..Len(line)  BY <2>1, <3>1
      <4> QED  BY <1>3, <3>1, <4>1 DEF t
    <3> QED  BY <1>2, <3>1, <3>2 DEF Inv, Wired
  <2> QED  BY <2>2, <2>3
<1>8. Wired'  BY <1>2, <1>6, <1>7 DEF Wired, Inv
<1> QED  BY <1>8, DamageStep DEF Falsify

LEMMA RestartStep == ASSUME Inv, Restart PROVE Inv'
<1>1. Empty \in [1..TextSize -> Values] /\ Spaces \in [1..TextSize -> Values]
  BY Sizes DEF Empty, Spaces, Values
<1>2. [k \in 1..SERIALBUFFERSIZE |-> 0] \in [1..SERIALBUFFERSIZE -> Values] /\ 0 \in Values
  BY Sizes DEF Values
<1>3. <<>> \in Seq(Values)  OBVIOUS
<1>4. /\ state' = "idle" /\ length' = 0 /\ id' = 0 /\ index' = 0 /\ magic' = 0 /\ sum' = <<>>
      /\ serialBuffer' = [k \in 1..SERIALBUFFERSIZE |-> 0]
      /\ encData' = Empty /\ encDataReady' = FALSE /\ clear_debug' = TRUE
      /\ localData' = Spaces /\ shown' = Spaces /\ UNCHANGED <<line, current, handled>>
  BY DEF Restart
<1>5. TypeOK'  BY <1>1, <1>2, <1>3, <1>4 DEF Inv, TypeOK
<1>6. Wired' /\ Counted' /\ HandledWasSent'  BY <1>4 DEF Inv, Wired, Counted, HandledWasSent
<1> QED  BY <1>5, <1>6 DEF Inv

LEMMA StepInv == Inv /\ [Next]_vars => Inv'
<1> SUFFICES ASSUME Inv, [Next]_vars PROVE Inv'  OBVIOUS
<1>1. CASE Drop
  <2>1. Wired'
    <3>1. line # <<>> /\ line' = Tail(line) /\ current' = current  BY <1>1 DEF Drop, Damage
    <3> QED  BY <3>1, TailWired DEF Inv
  <2> QED  BY <1>1, <2>1, DamageStep DEF Drop
<1>2. CASE UNCHANGED vars
  BY <1>2 DEF vars, header, contents, display, Inv, TypeOK, Wired, Counted, Stored, HandledWasSent
<1> QED
  BY <1>1, <1>2, SendStep, IdleStep, StartStep, SkipStep, CompStep, PayloadStep, LowStep, HighStep,
     DisplayStep, FalsifyStep, RestartStep
  DEF Next

-----------------------------------------------------------------------------
(* A frame that meets an idle receiver and is not damaged: after c of its bytes the receiver
   is where the frame's layout says. *)
Consumed == Len(current.payload) + 8 - Len(line)
Suffix == /\ Consumed \in 0..(Len(current.payload) + 7)
          /\ \A k \in 1..Len(line) : line[k] = Packed(current)[Consumed + k]
Reached(c, n) == CASE c = 0 -> "idle" [] c = 1 -> "start" [] c = 2 -> "len" [] c = 3 -> "seq"
                   [] c = 4 -> "sys" [] c = 5 -> "comp"
                   [] c \in 6..(n + 5) -> "payload" [] OTHER -> "checksum"
SumHolds(c) == Len(sum) = c /\ \A k \in 1..c : sum[k] = Covered(current)[k]
Progress(c, n) ==
  /\ state = Reached(c, n)
  /\ c \in 1..(n + 6) => SumHolds(c - 1)
  /\ c >= 6 => magic = current.id
  /\ c = n + 6 => index = n
  /\ c = n + 7 => SumHolds(n + 5) /\ index # n /\ low = Check(Checked(current), 0)
Sync == clean => IF line = <<>> THEN handled = current /\ state = "idle"
                 ELSE Suffix /\ Progress(Consumed, Len(current.payload))

(* One byte further in the frame. *)
LEMMA Advance ==
  ASSUME Inv, Sync, clean, line # <<>>, line' = Tail(line), current' = current
  PROVE  LET n == Len(current.payload)
             c == Consumed
         IN /\ n \in Nat /\ n >= 1 /\ c \in 0..(n + 7) /\ Progress(c, n) /\ current \in Sendable
            /\ Head(line) = Packed(current)[c + 1]
            /\ c < n + 7 => line' # <<>> /\ Suffix' /\ Consumed' = c + 1
            /\ c = n + 7 => line' = <<>>
<1> DEFINE n == Len(current.payload)
           c == Consumed
<1>1. current \in Sendable /\ line \in Seq(Bytes)  BY DEF Inv, Wired
<1>2. n \in Nat /\ n >= 1
  <2>1. n \in Values /\ n >= 1  BY <1>1, SendablePayload
  <2> QED  BY <2>1 DEF Values
<1>3. Suffix /\ Progress(c, n)  BY DEF Sync
<1>4. Len(line) \in Nat \ {0} /\ c = n + 8 - Len(line) /\ c \in 0..(n + 7)
  BY <1>1, <1>3 DEF Consumed, Suffix
<1>5. Head(line) = line[1] /\ Len(line') = Len(line) - 1 /\ line' \in Seq(Bytes)
      /\ \A k \in 1..Len(line') : line'[k] = line[k + 1]
  BY <1>1
<1>6. Head(line) = Packed(current)[c + 1]  BY <1>3, <1>4, <1>5 DEF Suffix
<1>7. Consumed' = n + 8 - Len(line')  BY DEF Consumed
<1> HIDE DEF n, c
<1>8. Consumed' = c + 1  BY <1>2, <1>4, <1>5, <1>7
<1>9. ASSUME c < n + 7 PROVE line' # <<>> /\ Suffix'
  <2>1. Len(line') > 0  BY <1>2, <1>4, <1>5, <1>9
  <2>2. Consumed' \in 0..(n + 7)  BY <1>2, <1>4, <1>8, <1>9
  <2>3. ASSUME NEW k \in 1..Len(line') PROVE line'[k] = Packed(current)[Consumed' + k]
    <3>1. k + 1 \in 1..Len(line) /\ c + (k + 1) = Consumed' + k  BY <1>4, <1>5, <1>8
    <3>2. line[k + 1] = Packed(current)[c + (k + 1)]  BY <1>3, <3>1 DEF Suffix, c
    <3> QED  BY <1>5, <3>1, <3>2
  <2> QED  BY <2>1, <2>2, <2>3 DEF Suffix, n
<1>10. c = n + 7 => line' = <<>>  BY <1>2, <1>4, <1>5
<1> QED  BY <1>1, <1>2, <1>3, <1>4, <1>6, <1>8, <1>9, <1>10 DEF n, c

(* A byte of the header or the contents is added to the sum. *)
LEMMA SumAdvance ==
  ASSUME current \in Sendable, NEW n, n = Len(current.payload), NEW c \in 1..(n + 5),
         sum \in Seq(Values), SumHolds(c - 1), Head(line) = Packed(current)[c + 1],
         sum' = Append(sum, Head(line).v), current' = current
  PROVE  Head(line).v = Covered(current)[c] /\ SumHolds(c)'
<1>1. n \in Nat  BY SendablePayload DEF Values
<1>2. c + 1 \in 2..(n + 6) /\ (c + 1) - 1 = c  BY <1>1
<1>3. Head(line) = Plain(Covered(current)[c])  BY <1>2, PackedAt
<1>4. Head(line).v = Covered(current)[c]  BY <1>3 DEF Plain
<1>5. c \in 1..Len(Covered(current)) /\ Covered(current) \in Seq(Values)  BY <1>1, CoveredBytes
<1>6. Covered(current)[c] \in Values  BY <1>5
<1>7. Len(sum) = c - 1 /\ \A k \in 1..(c - 1) : sum[k] = Covered(current)[k]  BY DEF SumHolds
<1>8. Len(sum') = c /\ sum'[c] = Covered(current)[c] /\ \A k \in 1..(c - 1) : sum'[k] = sum[k]
  <2>1. Len(sum) + 1 = c  BY <1>1, <1>7
  <2> QED  BY <1>4, <1>6, <1>7, <2>1, Summing
<1>9. \A k \in 1..c : k \in 1..(c - 1) \/ k = c  BY <1>1
<1> QED  BY <1>4, <1>7, <1>8, <1>9 DEF SumHolds

(* Where the receiver is tells how far the frame is. *)
LEMMA Where ==
  ASSUME NEW n \in Nat, n >= 1, NEW c \in 0..(n + 7), state = Reached(c, n)
  PROVE  /\ state = "idle" => c = 0
         /\ state = "start" => c = 1
         /\ state = "len" => c = 2
         /\ state = "seq" => c = 3
         /\ state = "sys" => c = 4
         /\ state = "comp" => c = 5
         /\ state = "payload" => c \in 6..(n + 5)
         /\ state = "checksum" => c \in {n + 6, n + 7}
<1>1. \/ c = 0 \/ c = 1 \/ c = 2 \/ c = 3 \/ c = 4 \/ c = 5 \/ c \in 6..(n + 5) \/ c \in {n + 6, n + 7}
  OBVIOUS
<1>2. \A k \in 0..5 : k \notin 6..(n + 5) /\ k \notin {n + 6, n + 7}  OBVIOUS
<1>3. \A k \in {n + 6, n + 7} : k \notin 0..5 /\ k \notin 6..(n + 5)  OBVIOUS
<1>4. \A k \in 6..(n + 5) : k \notin 0..5  OBVIOUS
<1> QED  BY <1>1, <1>2, <1>3, <1>4 DEF Reached

-----------------------------------------------------------------------------
LEMMA FrameKept ==
  ASSUME Sync, UNCHANGED <<line, current, clean, state, magic, index, sum, low, handled>>
  PROVE  Sync'
BY DEF Sync, Suffix, Consumed, Progress, SumHolds

(* The frame goes on: what is left to show is where the receiver now is. *)
LEMMA GoesOn ==
  ASSUME Inv, Sync, clean, NEW from, Receive(from),
         NEW n, n = Len(current.payload), NEW c, c = Consumed, c < n + 7,
         Progress(c + 1, n)'
  PROVE  Sync'
<1>1. line # <<>> /\ line' = Tail(line) /\ current' = current  BY DEF Receive, history
<1>2. line' # <<>> /\ Suffix' /\ Consumed' = c + 1  BY <1>1, Advance
<1>3. Len(current.payload)' = n  BY <1>1
<1>4. Progress(Consumed, Len(current.payload))'
  BY <1>2, <1>3 DEF Progress, Reached, SumHolds
<1> QED  BY <1>2, <1>4 DEF Sync

(* A damaged or ill-timed frame promises nothing. *)
LEMMA NotClean == ASSUME ~clean' PROVE Sync'
BY DEF Sync

LEMMA SendableLength ==
  ASSUME NEW m \in Sendable
  PROVE  Len(m.payload) = Length(m.id) /\ m.id \in Known
<1>1. CASE \E p \in NamedPayloads : m = Message(Named, p)
  <2>1. PICK p \in NamedPayloads : m = Message(Named, p)  BY <1>1
  <2>2. p \in [1..NamedLength -> Values]  BY ReceiveAssumption DEF Values
  <2>3. Len(p) = NamedLength  BY <2>2, Sizes
  <2> QED  BY <2>1, <2>3 DEF Message, Length, Known
<1>2. CASE \E t \in Texts : m = Message(Encapsulated, <<0, 0>> \o t)
  <2>1. PICK t \in Texts : m = Message(Encapsulated, <<0, 0>> \o t)  BY <1>2
  <2>2. m.id = Encapsulated /\ m.payload = <<0, 0>> \o t  BY <2>1 DEF Message
  <2> QED  BY <2>2, TextPayload, ReceiveAssumption DEF Length, Known, EncLength
<1> QED  BY <1>1, <1>2, SendableForms

LEMMA SendSync == ASSUME Inv, Send PROVE Sync'
<1> PICK n : n = Len(current.payload)'  OBVIOUS
<1>1. current' \in Sendable /\ line' = Packed(current') /\ state' = state /\ clean' = (state = "idle")
  BY DEF Send
<1>2. n \in Nat /\ n >= 1 /\ Len(line') = n + 8 /\ line' \in Seq(Bytes)
  <2>1. n \in Values /\ n >= 1  BY <1>1, SendablePayload
  <2> QED  BY <1>1, <2>1, PackedAt DEF Values
<1>3. n + 8 - (n + 8) = 0 /\ line' # <<>>  BY <1>2
<1>4. Consumed' = 0  BY <1>2, <1>3 DEF Consumed
<1>5. Suffix'
  <2>1. 0 \in 0..(n + 7) /\ \A k \in 1..Len(line') : 0 + k = k  BY <1>2
  <2> QED  BY <1>1, <1>4, <2>1 DEF Suffix
<1>6. clean' => Progress(Consumed, Len(current.payload))'
  <2>1. ~(0 \in 1..(n + 6)) /\ ~(0 >= 6) /\ 0 # n + 6 /\ 0 # n + 7  BY <1>2
  <2>2. clean' => state' = "idle"  BY <1>1, Zenon
  <2>3. state' = "idle" => Progress(0, n)'  BY <2>1 DEF Progress, Reached
  <2> QED  BY <1>4, <2>2, <2>3 DEF Progress, Reached, SumHolds
<1> QED  BY <1>3, <1>5, <1>6 DEF Sync

LEMMA IdleSync == ASSUME Inv, Sync, Idle PROVE Sync'
<1>1. Receive("idle")  BY DEF Idle
<1>2. line # <<>> /\ line' = Tail(line) /\ current' = current /\ clean' = clean /\ state = "idle"
  BY <1>1 DEF Receive, history
<1> SUFFICES ASSUME clean PROVE Sync'  BY <1>2, NotClean
<1> PICK n, c : n = Len(current.payload) /\ c = Consumed  OBVIOUS
<1>3. n \in Nat /\ n >= 1 /\ c \in 0..(n + 7) /\ Progress(c, n) /\ current \in Sendable
      /\ Head(line) = Packed(current)[c + 1]
  BY <1>2, Advance
<1>4. c = 0  BY <1>2, <1>3, Where DEF Progress
<1>5. Head(line).v = Start  BY <1>3, <1>4, PackedAt DEF Plain
<1>6. state' = "start" /\ sum' = <<>>  BY <1>5 DEF Idle, byte
<1>7. Progress(c + 1, n)'
  <2>1. 0 + 1 = 1 /\ 1 - 1 = 0 /\ ~(1 >= 6) /\ 1 # n + 6 /\ 1 # n + 7  BY <1>3
  <2>2. SumHolds(0)'  BY <1>6 DEF SumHolds
  <2> QED  BY <1>4, <1>6, <2>1, <2>2 DEF Progress, Reached
<1>8. c < n + 7  BY <1>3, <1>4
<1> QED  BY <1>1, <1>7, <1>8, GoesOn

(* What the receiver knows of an undamaged frame when it takes the next byte. *)
LEMMA Meets ==
  ASSUME Inv, Sync, clean, NEW from, Receive(from),
         NEW n, n = Len(current.payload), NEW c, c = Consumed
  PROVE  /\ n \in Nat /\ n >= 1 /\ c \in 0..(n + 7) /\ Progress(c, n) /\ current \in Sendable
         /\ Head(line) = Packed(current)[c + 1] /\ state = from /\ current' = current
         /\ line # <<>> /\ sum \in Seq(Values) /\ from = Reached(c, n)
<1>1. line # <<>> /\ line' = Tail(line) /\ current' = current /\ state = from
  BY DEF Receive, history
<1>2. /\ n \in Nat /\ n >= 1 /\ c \in 0..(n + 7) /\ Progress(c, n) /\ current \in Sendable
      /\ Head(line) = Packed(current)[c + 1]
  BY <1>1, Advance
<1>3. from = Reached(c, n)  BY <1>1, <1>2 DEF Progress
<1> QED  BY <1>1, <1>2, <1>3 DEF Inv, TypeOK

(* The frame's own length, once it is summed. *)
LEMMA LengthKnown ==
  ASSUME Inv, current \in Sendable, NEW n, n = Len(current.payload), NEW c \in Nat, c >= 1,
         SumHolds(c), state \notin {"idle", "start"}
  PROVE  length = n
<1>1. sum[1] = Covered(current)[1]  BY DEF SumHolds
<1>2. Covered(current)[1] = n  BY CoveredBytes
<1>3. sum[1] = length
  <2>1. state \in {"len", "seq", "sys", "comp", "payload", "checksum"}  BY DEF Inv, TypeOK
  <2> QED  BY <2>1 DEF Inv, Counted
<1> QED  BY <1>1, <1>2, <1>3

LEMMA StartSync == ASSUME Inv, Sync, HeaderStart PROVE Sync'
<1>1. Receive("start")  BY DEF HeaderStart
<1>2. clean' = clean  BY <1>1 DEF Receive, history
<1> SUFFICES ASSUME clean PROVE Sync'  BY <1>2, NotClean
<1> PICK n, c : n = Len(current.payload) /\ c = Consumed  OBVIOUS
<1>3. /\ n \in Nat /\ n >= 1 /\ c \in 0..(n + 7) /\ Progress(c, n) /\ current \in Sendable
      /\ Head(line) = Packed(current)[c + 1] /\ state = "start" /\ current' = current
      /\ sum \in Seq(Values)
  BY <1>1, Meets
<1>4. c = 1  BY <1>3, Where DEF Progress
<1>5. sum' = Append(sum, Head(line).v)  BY DEF HeaderStart, Summed, byte
<1>6. Head(line).v = Covered(current)[1] /\ SumHolds(1)'
  <2>1. 1 \in 1..(n + 5) /\ 1 \in 1..(n + 6) /\ SumHolds(1 - 1)  BY <1>3, <1>4 DEF Progress
  <2> QED  BY <1>3, <1>4, <1>5, <2>1, SumAdvance
<1>7. state' = "len"
  <2>1. Head(line).v = n  BY <1>3, <1>6, CoveredBytes
  <2>2. n < SERIALBUFFERSIZE \/ n = EncLength  BY <1>3, SendableLength, Sizes DEF Length
  <2> QED  BY <1>3, <2>1, <2>2, Sizes DEF HeaderStart, byte
<1>8. Progress(c + 1, n)'
  <2>1. 1 + 1 = 2 /\ 2 - 1 = 1 /\ ~(2 >= 6) /\ 2 # n + 6 /\ 2 # n + 7  BY <1>3
  <2> QED  BY <1>4, <1>6, <1>7, <2>1 DEF Progress, Reached
<1>9. c < n + 7  BY <1>3, <1>4
<1> QED  BY <1>1, <1>8, <1>9, GoesOn

LEMMA SkipSync == ASSUME Inv, Sync, Skip PROVE Sync'
<1>1. PICK step \in {<<"len", "seq">>, <<"seq", "sys">>, <<"sys", "comp">>} :
        Receive(step[1]) /\ Summed /\ state' = step[2]
  BY DEF Skip
<1>2. clean' = clean  BY <1>1 DEF Receive, history
<1> SUFFICES ASSUME clean PROVE Sync'  BY <1>2, NotClean
<1> PICK n, c : n = Len(current.payload) /\ c = Consumed  OBVIOUS
<1>3. /\ n \in Nat /\ n >= 1 /\ c \in 0..(n + 7) /\ Progress(c, n) /\ current \in Sendable
      /\ Head(line) = Packed(current)[c + 1] /\ state = step[1] /\ current' = current
      /\ sum \in Seq(Values)
  BY <1>1, Meets
<1>4. c \in {2, 3, 4} /\ state' = Reached(c + 1, n)
  <2>1. CASE step = <<"len", "seq">>
    <3>1. c = 2  BY <1>3, <2>1, Where DEF Progress
    <3> QED  BY <1>1, <2>1, <3>1 DEF Reached
  <2>2. CASE step = <<"seq", "sys">>
    <3>1. c = 3  BY <1>3, <2>2, Where DEF Progress
    <3> QED  BY <1>1, <2>2, <3>1 DEF Reached
  <2>3. CASE step = <<"sys", "comp">>
    <3>1. c = 4  BY <1>3, <2>3, Where DEF Progress
    <3> QED  BY <1>1, <2>3, <3>1 DEF Reached
  <2> QED  BY <2>1, <2>2, <2>3
<1>5. sum' = Append(sum, Head(line).v)  BY <1>1 DEF Summed, byte
<1>6. SumHolds(c)'
  <2>1. c \in 1..(n + 5) /\ c \in 1..(n + 6) /\ SumHolds(c - 1)  BY <1>3, <1>4 DEF Progress
  <2> QED  BY <1>3, <1>5, <2>1, SumAdvance
<1>7. Progress(c + 1, n)'
  <2>1. (c + 1) - 1 = c /\ ~(c + 1 >= 6) /\ c + 1 # n + 6 /\ c + 1 # n + 7  BY <1>3, <1>4
  <2> QED  BY <1>4, <1>6, <2>1 DEF Progress
<1>8. c < n + 7  BY <1>3, <1>4
<1> QED  BY <1>1, <1>7, <1>8, GoesOn

LEMMA CompSync == ASSUME Inv, Sync, HeaderComp PROVE Sync'
<1>1. Receive("comp")  BY DEF HeaderComp
<1>2. clean' = clean  BY <1>1 DEF Receive, history
<1> SUFFICES ASSUME clean PROVE Sync'  BY <1>2, NotClean
<1> PICK n, c : n = Len(current.payload) /\ c = Consumed  OBVIOUS
<1>3. /\ n \in Nat /\ n >= 1 /\ c \in 0..(n + 7) /\ Progress(c, n) /\ current \in Sendable
      /\ Head(line) = Packed(current)[c + 1] /\ state = "comp" /\ current' = current
      /\ sum \in Seq(Values)
  BY <1>1, Meets
<1>4. c = 5  BY <1>3, Where DEF Progress
<1>5. sum' = Append(sum, Head(line).v)  BY DEF HeaderComp, Summed, byte
<1>6. SumHolds(4) /\ Head(line).v = Covered(current)[5] /\ SumHolds(5)'
  <2>1. 5 \in 1..(n + 5) /\ 5 \in 1..(n + 6) /\ SumHolds(5 - 1) /\ 5 - 1 = 4  BY <1>3, <1>4 DEF Progress
  <2> QED  BY <1>3, <1>4, <1>5, <2>1, SumAdvance
<1>7. Head(line).v = current.id /\ current.id \in Known /\ n = Length(current.id)
  BY <1>3, <1>6, CoveredBytes, SendableLength
<1>8. length = n  BY <1>3, <1>6, LengthKnown
<1>9. state' = "payload" /\ magic' = current.id  BY <1>7, <1>8 DEF HeaderComp, byte
<1>10. Progress(c + 1, n)'
  <2>1. 5 + 1 = 6 /\ 6 - 1 = 5 /\ 6 \in 6..(n + 5) /\ 6 # n + 6 /\ 6 # n + 7  BY <1>3
  <2> QED  BY <1>3, <1>4, <1>6, <1>9, <2>1 DEF Progress, Reached
<1>11. c < n + 7  BY <1>3, <1>4
<1> QED  BY <1>1, <1>10, <1>11, GoesOn

LEMMA PayloadSync == ASSUME Inv, Sync, Payload PROVE Sync'
<1>1. Receive("payload")  BY DEF Payload
<1>2. clean' = clean  BY <1>1 DEF Receive, history
<1> SUFFICES ASSUME clean PROVE Sync'  BY <1>2, NotClean
<1> PICK n, c : n = Len(current.payload) /\ c = Consumed  OBVIOUS
<1>3. /\ n \in Nat /\ n >= 1 /\ c \in 0..(n + 7) /\ Progress(c, n) /\ current \in Sendable
      /\ Head(line) = Packed(current)[c + 1] /\ state = "payload" /\ current' = current
      /\ sum \in Seq(Values)
  BY <1>1, Meets
<1>4. c \in 6..(n + 5)  BY <1>3, Where DEF Progress
<1>5. sum' = Append(sum, Head(line).v) /\ magic' = magic /\ index' = (index + 1) % Wrap
      /\ state' = IF index' = length THEN "checksum" ELSE "payload"
  BY <1>3 DEF Payload, Summed, byte, header
<1>6. SumHolds(c - 1) /\ SumHolds(c)'
  <2>1. c \in 1..(n + 5) /\ c \in 1..(n + 6)  BY <1>3, <1>4
  <2>2. SumHolds(c - 1)  BY <1>3, <2>1 DEF Progress
  <2> QED  BY <1>3, <1>5, <2>1, <2>2, SumAdvance
<1>7. length = n
  <2>1. c - 1 \in Nat /\ c - 1 >= 1  BY <1>3, <1>4
  <2> QED  BY <1>3, <1>6, <2>1, LengthKnown
<1>8. index' = c - 5
  <2>1. Len(sum) = c - 1  BY <1>6 DEF SumHolds
  <2>2. Len(sum) = 5 + index /\ index \in 0..(Wrap - 1)  BY <1>3 DEF Inv, TypeOK, Values
  <2>3. index = c - 6  BY <1>3, <1>4, <2>1, <2>2
  <2>4. n <= Wrap - 1
    <3>1. n \in Values  BY <1>3, SendablePayload
    <3> QED  BY <3>1, Sizes DEF Values
  <2>5. index # Wrap - 1  BY <1>3, <1>4, <2>3, <2>4, Sizes
  <2>6. index' = index + 1  BY <1>5, <2>2, <2>5, Wrapped
  <2>7. c \in Nat  BY <1>3
  <2> QED  BY <2>3, <2>6, <2>7
<1>9. magic' = current.id  BY <1>3, <1>4, <1>5 DEF Progress
<1>10. Progress(c + 1, n)'
  <2>1. (c + 1) - 1 = c /\ c + 1 # n + 7 /\ c + 1 \notin 0..5  BY <1>3, <1>4
  <2>2. CASE c = n + 5
    <3>1. index' = n /\ c + 1 = n + 6 /\ c + 1 \notin 6..(n + 5)  BY <1>3, <1>8, <2>2
    <3>2. state' = "checksum"  BY <1>5, <1>7, <3>1
    <3>3. state' = Reached(c + 1, n)  BY <1>3, <2>1, <3>1, <3>2 DEF Reached
    <3> QED  BY <1>3, <1>6, <1>9, <2>1, <3>1, <3>3 DEF Progress
  <2>3. CASE c # n + 5
    <3>1. index' # n /\ c + 1 # n + 6 /\ c + 1 \in 6..(n + 5)  BY <1>3, <1>4, <1>8, <2>3
    <3>2. state' = "payload"  BY <1>5, <1>7, <3>1
    <3>3. state' = Reached(c + 1, n)  BY <1>3, <2>1, <3>1, <3>2 DEF Reached
    <3> QED  BY <1>3, <1>6, <1>9, <2>1, <3>1, <3>3 DEF Progress
  <2> QED  BY <2>2, <2>3
<1>11. c < n + 7  BY <1>3, <1>4
<1> QED  BY <1>1, <1>10, <1>11, GoesOn

LEMMA LowSync == ASSUME Inv, Sync, ChecksumLow PROVE Sync'
<1>1. Receive("checksum") /\ index = length  BY DEF ChecksumLow
<1>2. clean' = clean  BY <1>1 DEF Receive, history
<1> SUFFICES ASSUME clean PROVE Sync'  BY <1>2, NotClean
<1> PICK n, c : n = Len(current.payload) /\ c = Consumed  OBVIOUS
<1>3. /\ n \in Nat /\ n >= 1 /\ c \in 0..(n + 7) /\ Progress(c, n) /\ current \in Sendable
      /\ Head(line) = Packed(current)[c + 1] /\ state = "checksum" /\ current' = current
      /\ sum \in Seq(Values)
  BY <1>1, Meets
<1>4. c \in {n + 6, n + 7}  BY <1>3, Where DEF Progress
<1>5. SumHolds(n + 5)
  <2>1. CASE c = n + 6
    <3>1. c \in 1..(n + 6) /\ c - 1 = n + 5  BY <1>3, <2>1
    <3> QED  BY <1>3, <3>1 DEF Progress
  <2>2. CASE c = n + 7  BY <1>3, <2>2 DEF Progress
  <2> QED  BY <1>4, <2>1, <2>2
<1>6. length = n
  <2>1. n + 5 \in Nat /\ n + 5 >= 1  BY <1>3
  <2> QED  BY <1>3, <1>5, <2>1, LengthKnown
<1>7. c = n + 6  BY <1>1, <1>3, <1>4, <1>6 DEF Progress
<1>8. state' = "checksum" /\ sum' = sum /\ magic' = magic /\ low' = Head(line)
      /\ index' = (index + 1) % Wrap
  BY <1>3 DEF ChecksumLow
<1>9. low' = Check(Checked(current), 0)
  <2>1. c + 1 = n + 7  BY <1>3, <1>7
  <2> QED  BY <1>3, <1>8, <2>1, PackedAt
<1>10. index' # n
  <2>1. index = n /\ index \in 0..(Wrap - 1)  BY <1>1, <1>6 DEF Inv, TypeOK, Values
  <2>2. index' = IF index = Wrap - 1 THEN 0 ELSE index + 1  BY <1>8, <2>1, Wrapped
  <2> QED  BY <1>3, <2>1, <2>2
<1>11. magic' = current.id /\ SumHolds(n + 5)'
  BY <1>3, <1>5, <1>7, <1>8 DEF Progress, SumHolds
<1>12. Progress(c + 1, n)'
  <2>1. c + 1 = n + 7 /\ n + 7 \notin 0..5 /\ n + 7 \notin 6..(n + 5) /\ n + 7 # n + 6
        /\ n + 7 \notin 1..(n + 6)
    BY <1>3, <1>7
  <2>2. state' = Reached(n + 7, n)  BY <1>3, <1>8, <2>1 DEF Reached
  <2> QED  BY <1>3, <1>9, <1>10, <1>11, <2>1, <2>2 DEF Progress
<1>13. c < n + 7  BY <1>3, <1>7
<1> QED  BY <1>1, <1>12, <1>13, GoesOn

LEMMA HighMatches ==
  ASSUME Inv, Sync, clean, ChecksumHigh
  PROVE  Matches /\ Taken = current /\ line' = <<>> /\ line # <<>> /\ current' = current
<1>1. Receive("checksum") /\ index # length  BY DEF ChecksumHigh
<1>2. line' = Tail(line)  BY <1>1 DEF Receive
<1> PICK n, c : n = Len(current.payload) /\ c = Consumed  OBVIOUS
<1>3. /\ n \in Nat /\ n >= 1 /\ c \in 0..(n + 7) /\ Progress(c, n) /\ current \in Sendable
      /\ Head(line) = Packed(current)[c + 1] /\ state = "checksum" /\ current' = current
      /\ line # <<>> /\ sum \in Seq(Values)
  BY <1>1, Meets
<1>4. c \in {n + 6, n + 7}  BY <1>3, Where DEF Progress
<1>5. SumHolds(n + 5)
  <2>1. CASE c = n + 6
    <3>1. c \in 1..(n + 6) /\ c - 1 = n + 5  BY <1>3, <2>1
    <3> QED  BY <1>3, <3>1 DEF Progress
  <2>2. CASE c = n + 7  BY <1>3, <2>2 DEF Progress
  <2> QED  BY <1>4, <2>1, <2>2
<1>6. length = n
  <2>1. n + 5 \in Nat /\ n + 5 >= 1  BY <1>3
  <2> QED  BY <1>3, <1>5, <2>1, LengthKnown
<1>7. c = n + 7  BY <1>1, <1>3, <1>4, <1>6 DEF Progress
<1>8. magic = current.id /\ low = Check(Checked(current), 0)
  <2>1. n + 7 >= 6  BY <1>3
  <2> QED  BY <1>3, <1>7, <2>1 DEF Progress
<1>9. Head(line) = Check(Checked(current), 1)
  <2>1. c + 1 = n + 8  BY <1>3, <1>7
  <2> QED  BY <1>3, <2>1, PackedAt
<1>10. sum = Covered(current)
  <2>1. Covered(current) \in Seq(Values) /\ Len(Covered(current)) = n + 5  BY <1>3, CoveredBytes
  <2>2. 5 + n = n + 5 /\ Len(sum) = n + 5 /\ \A k \in 1..(n + 5) : sum[k] = Covered(current)[k]
    BY <1>3, <1>5 DEF SumHolds
  <2> QED  BY <1>3, <2>1, <2>2, SeqEqual
<1>11. Append(sum, magic) = Checked(current)  BY <1>3, <1>8, <1>10, CheckedBytes
<1>12. Matches  BY <1>8, <1>9, <1>11 DEF Matches
<1>13. Taken = current  BY <1>3, <1>9, <1>11, MatchTaken
<1>14. line' = <<>>  BY <1>2, <1>3, <1>7, Advance
<1> QED  BY <1>3, <1>12, <1>13, <1>14

LEMMA HighSync == ASSUME Inv, Sync, ChecksumHigh PROVE Sync'
<1>1. clean' = clean /\ state' = "idle"  BY DEF ChecksumHigh, Receive, history
<1> SUFFICES ASSUME clean PROVE Sync'  BY <1>1, NotClean
<1>2. Matches /\ Taken = current /\ line' = <<>> /\ current' = current  BY HighMatches
<1>3. handled' = current  BY <1>2 DEF ChecksumHigh
<1> QED  BY <1>1, <1>2, <1>3 DEF Sync

LEMMA StepSync == Inv /\ Sync /\ [Next]_vars => Sync'
<1> SUFFICES ASSUME Inv, Sync, [Next]_vars PROVE Sync'  OBVIOUS
<1>1. CASE DisplayMessage
  BY <1>1, FrameKept DEF DisplayMessage, Show, history, header
<1>2. CASE Drop \/ Falsify \/ Restart
  BY <1>2, NotClean DEF Drop, Falsify, Restart, Damage, Fault
<1>3. CASE UNCHANGED vars  BY <1>3, FrameKept DEF vars
<1> QED
  BY <1>1, <1>2, <1>3, SendSync, IdleSync, StartSync, SkipSync, CompSync, PayloadSync, LowSync, HighSync
  DEF Next

-----------------------------------------------------------------------------
(* Without a fault every frame meets an idle receiver, and the text is one of the host's
   whenever its buffer may be shown or is not being written. *)
Shows == Texts \cup {Spaces, Empty}
Filling == state \in {"payload", "checksum"} /\ id = Encapsulated
Whole == faults = 0 =>
           /\ clean \/ (line = <<>> /\ state = "idle")
           /\ localData \in Shows /\ shown \in Shows
           /\ encDataReady \/ ~Filling => encData \in Shows

LEMMA WholeSend == ASSUME Sync, Whole, Send PROVE Whole'
<1>1. UNCHANGED <<state, id, encData, encDataReady, localData, shown, faults>>
      /\ line = <<>> /\ clean' = (state = "idle")
  BY DEF Send, header, contents, display
<1>2. faults = 0 => state = "idle"  BY <1>1 DEF Sync, Whole
<1>3. faults = 0 => clean'  BY <1>1, <1>2, Zenon
<1> QED  BY <1>1, <1>3 DEF Whole, Filling, Shows

(* A byte that leaves the text alone. *)
LEMMA WholeReceive ==
  ASSUME Whole, NEW from, Receive(from), UNCHANGED <<encData, encDataReady>>,
         Filling' => Filling \/ state = "comp",
         ~Filling' => ~Filling
  PROVE  Whole'
<1>1. line # <<>> /\ UNCHANGED <<clean, faults, localData, shown>>
  BY DEF Receive, history, display
<1> QED  BY <1>1 DEF Whole, Shows, Filling

LEMMA WholeHeader == ASSUME Inv, Whole, Idle \/ HeaderStart \/ Skip PROVE Whole'
<1>1. PICK from \in {"idle", "start", "len", "seq", "sys"} : Receive(from) /\ state = from
  BY DEF Idle, HeaderStart, Skip, Receive
<1>2. state' \in {"idle", "start", "len", "seq", "sys", "comp"} /\ UNCHANGED <<encData, encDataReady>>
  BY <1>1 DEF Idle, HeaderStart, Skip, contents
<1> QED  BY <1>1, <1>2, WholeReceive DEF Filling

LEMMA WholeComp == ASSUME Inv, Whole, HeaderComp PROVE Whole'
<1>1. Receive("comp") /\ state = "comp" /\ UNCHANGED <<encData, encDataReady>>
  BY DEF HeaderComp, Receive, contents
<1> QED  BY <1>1, WholeReceive DEF Filling

LEMMA WholePayload == ASSUME Inv, Whole, Payload PROVE Whole'
<1>1. Receive("payload") /\ state = "payload" /\ id' = id /\ state' \in {"payload", "checksum"}
  BY DEF Payload, Receive, header
<1>2. CASE id = Encapsulated
  <2>1. encDataReady' = FALSE /\ Filling'  BY <1>1, <1>2 DEF Payload, Filling
  <2>2. line # <<>> /\ UNCHANGED <<clean, faults, localData, shown>>
    BY <1>1 DEF Receive, history, display
  <2> QED  BY <2>1, <2>2 DEF Whole, Shows
<1>3. CASE id # Encapsulated
  <2>1. UNCHANGED <<encData, encDataReady>>  BY <1>3 DEF Payload
  <2> QED  BY <1>1, <1>3, <2>1, WholeReceive DEF Filling
<1> QED  BY <1>2, <1>3

LEMMA WholeLow == ASSUME Inv, Whole, ChecksumLow PROVE Whole'
<1>1. Receive("checksum") /\ UNCHANGED <<state, id, encData, encDataReady>>
  BY DEF ChecksumLow, contents
<1> QED  BY <1>1, WholeReceive DEF Filling

(* The checksum of an undamaged frame matches, so that a text just received is whole. *)
LEMMA WholeHigh == ASSUME Inv, Sync, Whole, ChecksumHigh PROVE Whole'
<1>1. /\ Receive("checksum") /\ state = "checksum" /\ line # <<>> /\ state' = "idle"
      /\ encData' = encData /\ id' = id
      /\ UNCHANGED <<clean, faults, localData, shown>>
  BY DEF ChecksumHigh, Receive, history, display, header
<1> SUFFICES ASSUME faults = 0 PROVE Whole'  BY <1>1 DEF Whole
<1>2. clean  BY <1>1 DEF Whole
<1>3. encData \in Shows
  <2>1. CASE id = Encapsulated
    <3>1. Matches  BY <1>2, HighMatches
    <3>2. encData \in Texts  BY <1>1, <2>1, <3>1, MatchTaken DEF Matches
    <3> QED  BY <3>2 DEF Shows
  <2>2. CASE id # Encapsulated  BY <2>2 DEF Whole, Filling
  <2> QED  BY <2>1, <2>2
<1>4. clean' \/ (line' = <<>> /\ state' = "idle")  BY <1>1, <1>2
<1>5. localData' \in Shows' /\ shown' \in Shows'  BY <1>1 DEF Whole, Shows
<1>6. encData' \in Shows'  BY <1>1, <1>3 DEF Shows
<1> QED  BY <1>4, <1>5, <1>6 DEF Whole

LEMMA WholeDisplay == ASSUME Whole, DisplayMessage PROVE Whole'
<1>1. /\ UNCHANGED <<line, clean, faults, state, id, encData, encDataReady>>
      /\ localData' = (IF encDataReady THEN encData ELSE localData)
      /\ shown' \in {Spaces, localData'}
  BY DEF DisplayMessage, Show, history, header, contents
<1>2. faults = 0 => localData' \in Shows  BY <1>1 DEF Whole
<1>3. Spaces \in Shows  BY DEF Shows
<1> QED  BY <1>1, <1>2, <1>3 DEF Whole, Filling, Shows

LEMMA StepWhole ==
  Inv /\ Sync /\ Whole /\ faults \in Nat /\ [Next]_vars => Whole' /\ (faults \in Nat)'
<1> SUFFICES ASSUME Inv, Sync, Whole, faults \in Nat, [Next]_vars PROVE Whole' /\ faults' \in Nat
  OBVIOUS
<1>1. CASE Drop \/ Falsify \/ Restart
  <2>1. Fault  BY <1>1 DEF Drop, Falsify, Restart, Damage
  <2> QED  BY <2>1 DEF Fault, Whole
<1>2. CASE UNCHANGED vars  BY <1>2 DEF vars, header, contents, display, history, Whole, Filling, Shows
<1>3. ASSUME NEW from, Receive(from) PROVE faults' \in Nat  BY <1>3 DEF Receive, history
<1>4. CASE Idle \/ HeaderStart \/ Skip \/ HeaderComp \/ Payload \/ ChecksumLow \/ ChecksumHigh
  <2>1. faults' \in Nat
    BY <1>3, <1>4 DEF Idle, HeaderStart, Skip, HeaderComp, Payload, ChecksumLow, ChecksumHigh
  <2> QED
    BY <1>4, <2>1, WholeHeader, WholeComp, WholePayload, WholeLow, WholeHigh
<1>5. CASE Send \/ DisplayMessage
  BY <1>5, WholeSend, WholeDisplay DEF Send, DisplayMessage, Show, history
<1> QED  BY <1>1, <1>2, <1>4, <1>5 DEF Next

-----------------------------------------------------------------------------
(* Whatever arrives, no buffer is written beyond its end, and the checksum covers the header
   and as many bytes as were counted (SerialMAVLINK.ino, serialMAVreceive). *)
THEOREM ReceiveTypeCorrect == Spec => []TypeOK
<1>1. Inv => TypeOK  BY DEF Inv
<1> QED  BY <1>1, InitInv, StepInv, PTL DEF Spec

(* Whatever the line loses or falsifies, and wherever the firmware restarts, what is handled
   is the message that was sent, with exactly its contents. *)
THEOREM HandledIsSent == Spec => []HandledWasSent
<1>1. Inv => HandledWasSent  BY DEF Inv
<1> QED  BY <1>1, InitInv, StepInv, PTL DEF Spec

(* A frame that meets an idle receiver and is not damaged is handled, whatever its length
   and its bytes: of the longest text, too, whose index wraps at its last byte, and of
   contents that hold start bytes (SerialMAVLINK.ino:714-917). *)
THEOREM CleanIsHandled == Spec => []CleanHandled
<1>1. Init => Sync  BY DEF Init, Sync
<1>2. Inv /\ Sync => CleanHandled  BY DEF Sync, CleanHandled
<1> QED  BY <1>1, <1>2, InitInv, StepInv, StepSync, PTL DEF Spec

(* Without a fault the message line never shows a mixture of two texts or half of one,
   although the bytes go straight into the buffer that displayMessage copies
   (SerialMAVLINK.ino:888, Screen.ino:213-215). *)
THEOREM TextIsWhole == Spec => []TextWhole
<1>1. Init => Sync /\ Whole /\ faults \in Nat  BY DEF Init, Sync, Whole, Shows
<1>2. Whole => TextWhole  BY DEF Whole, Shows, TextWhole
<1> QED  BY <1>1, <1>2, InitInv, StepInv, StepSync, StepWhole, PTL DEF Spec
=============================================================================
