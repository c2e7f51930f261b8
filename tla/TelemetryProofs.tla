---------------------------- MODULE TelemetryProofs ----------------------------
(***************************************************************************)
(* The numbers on the screen, for every set of values, every line and any  *)
(* number of faults.  What the host owes the screen for a kind of number   *)
(* is the last number reported, or zero when it is not running.  The       *)
(* invariant says where the messages under way end: the last of them that  *)
(* carries a kind carries what is owed or, when none does, the screen      *)
(* already shows it or a fault has made it stale.                          *)
(*                                                                         *)
(* Then whether the aircraft is armed, where home is and how far, for any  *)
(* history of messages: the armed status and its counter come from the     *)
(* heartbeats since the last one with the bit, home from the first fix of  *)
(* the armed aircraft, the distance from the last fix of this flight.      *)
(***************************************************************************)
EXTENDS Telemetry, FlightPart, TLAPS, FiniteSetTheorems

Owed(k) == IF host = "off" THEN Zero[k] ELSE last[k]

(* What a number becomes in a message, and what the screen may show for it. *)
Sent(k, v) == CASE k \in {"speed", "altitude"} -> NotNegative(v)
                [] k = "voltage" -> Within(v, 65535)
                [] OTHER -> v
Right(k, v, x) == x = Due(k, v) \/ (k = "speed" /\ v > ShortMax)

Touches(m, k) == k \in DOMAIN m
Carries(m, k, v) == Touches(m, k) /\ m[k] = Sent(k, v)
Renewed(q, k, v) == \E n \in 1..Len(q) : /\ Carries(q[n], k, v)
                                         /\ \A j \in 1..Len(q) : j > n => ~Touches(q[j], k)
Untouched(q, k) == \A j \in 1..Len(q) : ~Touches(q[j], k)
Leaves(q, k, v, before) == Renewed(q, k, v) \/ (Untouched(q, k) /\ before)

OnScreen(k, v) == k \in stale \/ Right(k, v, shown[k])

Values == [speed |-> Int, altitude |-> Int, voltage |-> Int,
           attitude |-> [roll : Int, pitch : Int, yaw : Int]]
Numbers == {f \in [Kinds -> UNION {Values[k] : k \in Kinds}] : \A k \in Kinds : f[k] \in Values[k]}

Memory == /\ host \in {"off", "starting", "running", "stopped"}
          /\ prev \in Numbers /\ last \in Numbers
          /\ host # "off" => prev = last
          /\ host = "starting" => last = Zero
Queue == wire \in Seq(UNION {[d -> UNION {Values[k] : k \in Kinds}] : d \in SUBSET Kinds})
Inv == Memory /\ Queue /\ \A k \in Kinds : Leaves(wire, k, Owed(k), OnScreen(k, Owed(k)))

-----------------------------------------------------------------------------
(* Numbers. *)
LEMMA ZeroIsNumbers == Zero \in Numbers
<1>1. DOMAIN Zero = Kinds  BY DEF Zero, Kinds
<1>2. \A k \in Kinds : Zero[k] \in Values[k]
  <2>1. Zero["speed"] = 0 /\ Zero["altitude"] = 0 /\ Zero["voltage"] = 0 /\ Zero["attitude"] = Level
    BY DEF Zero
  <2>2. Level \in Values["attitude"]  BY DEF Level, Values
  <2>3. Values["speed"] = Int /\ Values["altitude"] = Int /\ Values["voltage"] = Int  BY DEF Values
  <2> QED  BY <2>1, <2>2, <2>3 DEF Kinds
<1>3. Zero = [k \in Kinds |-> Zero[k]]  BY <1>1 DEF Zero
<1>4. \A k \in Kinds : Zero[k] \in UNION {Values[j] : j \in Kinds}  BY <1>2
<1>5. Zero \in [Kinds -> UNION {Values[k] : k \in Kinds}]  BY <1>3, <1>4
<1> QED  BY <1>2, <1>5 DEF Numbers

LEMMA ReportedValues == \A k \in Kinds : Reported[k] \subseteq Values[k]
<1>1. /\ Reported["speed"] = Speeds /\ Reported["altitude"] = Altitudes
      /\ Reported["voltage"] = Voltages /\ Reported["attitude"] = Angles
  BY DEF Reported
<1>2. Values["speed"] = Int /\ Values["altitude"] = Int /\ Values["voltage"] = Int
      /\ Values["attitude"] = [roll : Int, pitch : Int, yaw : Int]
  BY DEF Values
<1>3. Speeds \subseteq Int /\ Altitudes \subseteq Int /\ Voltages \subseteq Int
  BY TelemetryAssumption
<1>4. Angles \subseteq [roll : Int, pitch : Int, yaw : Int]  BY TelemetryAssumption
<1> QED  BY <1>1, <1>2, <1>3, <1>4 DEF Kinds

LEMMA DueZero == \A k \in Kinds : Due(k, Zero[k]) = Zero[k] /\ Sent(k, Zero[k]) = Zero[k]
BY DEF Due, Sent, Zero, Level, Kinds, NotNegative, Within

(* A number that reaches the screen is shown as it is due. *)
LEMMA ConvertRight ==
  ASSUME NEW k \in Kinds, NEW v \in Values[k], NEW garbage
  PROVE  Right(k, v, Convert(k, Sent(k, v), garbage))
BY TelemetryAssumption DEF Kinds, Values, Right, Convert, Sent, Due, NotNegative, Within

-----------------------------------------------------------------------------
(* Queues. *)
LEMMA LeavesEmpty == ASSUME NEW k, NEW v, NEW before PROVE Leaves(<<>>, k, v, before) <=> before
BY DEF Leaves, Renewed, Untouched

LEMMA AppendCarries ==
  ASSUME NEW S, NEW q \in Seq(S), NEW m \in S, NEW k, NEW v, NEW before, Carries(m, k, v)
  PROVE  Leaves(Append(q, m), k, v, before)
<1> DEFINE a == Append(q, m)
<1>1. Len(a) = Len(q) + 1 /\ a[Len(q) + 1] = m /\ Len(q) \in Nat  OBVIOUS
<1> HIDE DEF a
<1>2. Len(q) + 1 \in 1..Len(a) /\ Carries(a[Len(q) + 1], k, v)  BY <1>1
<1>3. \A j \in 1..Len(a) : ~(j > Len(q) + 1)  BY <1>1
<1>4. Renewed(a, k, v)  BY <1>2, <1>3 DEF Renewed
<1> QED  BY <1>4 DEF Leaves, a

LEMMA AppendKeeps ==
  ASSUME NEW S, NEW q \in Seq(S), NEW m \in S, NEW k, NEW v, NEW before,
         ~Touches(m, k), Leaves(q, k, v, before)
  PROVE  Leaves(Append(q, m), k, v, before)
<1> DEFINE a == Append(q, m)
<1>1. Len(a) = Len(q) + 1 /\ a[Len(q) + 1] = m /\ Len(q) \in Nat  OBVIOUS
<1>2. \A j \in 1..Len(q) : a[j] = q[j]  OBVIOUS
<1> HIDE DEF a
<1>3. \A j \in 1..Len(a) : j \in 1..Len(q) \/ j = Len(q) + 1  BY <1>1
<1>4. CASE Renewed(q, k, v)
  <2>1. PICK n \in 1..Len(q) : Carries(q[n], k, v) /\ \A j \in 1..Len(q) : j > n => ~Touches(q[j], k)
    BY <1>4 DEF Renewed
  <2>2. n \in 1..Len(a) /\ Carries(a[n], k, v)  BY <1>1, <1>2, <2>1
  <2>3. \A j \in 1..Len(a) : j > n => ~Touches(a[j], k)  BY <1>1, <1>2, <1>3, <2>1
  <2>4. Renewed(a, k, v)  BY <2>2, <2>3 DEF Renewed
  <2> QED  BY <2>4 DEF Leaves, a
<1>5. CASE Untouched(q, k) /\ before
  <2>1. Untouched(a, k)  BY <1>1, <1>2, <1>3, <1>5 DEF Untouched
  <2> QED  BY <1>5, <2>1 DEF Leaves, a
<1> QED  BY <1>4, <1>5 DEF Leaves

LEMMA TailLeaves ==
  ASSUME NEW S, NEW q \in Seq(S), q # <<>>, NEW k, NEW v, NEW before, NEW after,
         Leaves(q, k, v, before),
         Carries(Head(q), k, v) => after, ~Touches(Head(q), k) /\ before => after
  PROVE  Leaves(Tail(q), k, v, after)
<1> DEFINE t == Tail(q)
<1>1. Len(q) \in Nat \ {0} /\ Len(t) = Len(q) - 1 /\ Head(q) = q[1]  OBVIOUS
<1>2. \A j \in 1..Len(t) : t[j] = q[j + 1] /\ j + 1 \in 1..Len(q)  BY <1>1
<1> HIDE DEF t
<1>3. CASE Renewed(q, k, v)
  <2>1. PICK n \in 1..Len(q) : Carries(q[n], k, v) /\ \A j \in 1..Len(q) : j > n => ~Touches(q[j], k)
    BY <1>3 DEF Renewed
  <2>2. CASE n = 1
    <3>1. after  BY <1>1, <2>1, <2>2
    <3>2. Untouched(t, k)  BY <1>1, <1>2, <2>1, <2>2 DEF Untouched
    <3> QED  BY <3>1, <3>2 DEF Leaves, t
  <2>3. CASE n # 1
    <3>1. n - 1 \in 1..Len(t) /\ t[n - 1] = q[n]  BY <1>1, <1>2, <2>1, <2>3
    <3>2. \A j \in 1..Len(t) : j > n - 1 => ~Touches(t[j], k)  BY <1>1, <1>2, <2>1
    <3>3. Renewed(t, k, v)  BY <2>1, <3>1, <3>2 DEF Renewed
    <3> QED  BY <3>3 DEF Leaves, t
  <2> QED  BY <2>2, <2>3
<1>4. CASE Untouched(q, k) /\ before
  <2>1. ~Touches(q[1], k)  BY <1>1, <1>4 DEF Untouched
  <2>2. after  BY <1>1, <1>4, <2>1
  <2>3. Untouched(t, k)  BY <1>1, <1>2, <1>4 DEF Untouched
  <2> QED  BY <2>2, <2>3 DEF Leaves, t
<1> QED  BY <1>3, <1>4 DEF Leaves

-----------------------------------------------------------------------------
(* The host writes a message for the numbers that change: what it carries of the other
   kinds is what was already owed. *)
Messages == UNION {[d -> UNION {Values[k] : k \in Kinds}] : d \in SUBSET Kinds}

LEMMA SentValues == ASSUME NEW k \in Kinds, NEW v \in Values[k] PROVE Sent(k, v) \in Values[k]
<1>1. Values["speed"] = Int /\ Values["altitude"] = Int /\ Values["voltage"] = Int  BY DEF Values
<1> QED  BY <1>1 DEF Kinds, Sent, NotNegative, Within

LEMMA VfrCarries ==
  ASSUME NEW s \in Int, NEW a \in Int
  PROVE  /\ VfrHud(s, a) \in Messages
         /\ Carries(VfrHud(s, a), "speed", s) /\ Carries(VfrHud(s, a), "altitude", a)
         /\ \A k \in Kinds \ {"speed", "altitude"} : ~Touches(VfrHud(s, a), k)
<1> DEFINE m == VfrHud(s, a)
<1>1. DOMAIN m = {"speed", "altitude"} /\ m["speed"] = NotNegative(s) /\ m["altitude"] = NotNegative(a)
  BY DEF VfrHud
<1>2. NotNegative(s) \in Int /\ NotNegative(a) \in Int  BY DEF NotNegative
<1>3. m = [k \in {"speed", "altitude"} |-> m[k]]  BY <1>1 DEF VfrHud
<1>4. Int = Values["speed"] /\ "speed" \in Kinds  BY DEF Values, Kinds
<1>5. {"speed", "altitude"} \in SUBSET Kinds  BY DEF Kinds
<1>6. \A k \in {"speed", "altitude"} : m[k] \in UNION {Values[j] : j \in Kinds}  BY <1>1, <1>2, <1>4
<1>7. m \in [{"speed", "altitude"} -> UNION {Values[j] : j \in Kinds}]  BY <1>3, <1>6
<1> HIDE DEF m
<1>8. m \in Messages  BY <1>5, <1>7 DEF Messages
<1>9. Carries(m, "speed", s) /\ Carries(m, "altitude", a)  BY <1>1 DEF Carries, Touches, Sent
<1>10. \A k \in Kinds \ {"speed", "altitude"} : ~Touches(m, k)  BY <1>1 DEF Touches
<1> QED  BY <1>8, <1>9, <1>10 DEF m

LEMMA VoltageCarries ==
  ASSUME NEW v \in Int
  PROVE  /\ SysStatus(v) \in Messages /\ Carries(SysStatus(v), "voltage", v)
         /\ \A k \in Kinds \ {"voltage"} : ~Touches(SysStatus(v), k)
<1> DEFINE m == SysStatus(v)
<1>1. DOMAIN m = {"voltage"} /\ m["voltage"] = Within(v, 65535)  BY DEF SysStatus
<1>2. Within(v, 65535) \in Int  BY DEF NotNegative, Within
<1>3. m = [k \in {"voltage"} |-> m[k]]  BY <1>1 DEF SysStatus
<1>4. Int = Values["voltage"] /\ "voltage" \in Kinds  BY DEF Values, Kinds
<1>5. \A k \in {"voltage"} : m[k] \in UNION {Values[j] : j \in Kinds}  BY <1>1, <1>2, <1>4
<1>6. m \in [{"voltage"} -> UNION {Values[j] : j \in Kinds}]  BY <1>3, <1>5
<1> HIDE DEF m
<1>7. m \in Messages  BY <1>4, <1>6 DEF Messages
<1> QED  BY <1>1, <1>7 DEF Carries, Touches, Sent, m

LEMMA AttitudeCarries ==
  ASSUME NEW v \in Values["attitude"]
  PROVE  /\ Attitude(v) \in Messages /\ Carries(Attitude(v), "attitude", v)
         /\ \A k \in Kinds \ {"attitude"} : ~Touches(Attitude(v), k)
<1> DEFINE m == Attitude(v)
<1>1. DOMAIN m = {"attitude"} /\ m["attitude"] = v  BY DEF Attitude
<1>2. m = [k \in {"attitude"} |-> m[k]]  BY <1>1 DEF Attitude
<1>3. "attitude" \in Kinds  BY DEF Kinds
<1>4. \A k \in {"attitude"} : m[k] \in UNION {Values[j] : j \in Kinds}  BY <1>1, <1>3
<1>5. m \in [{"attitude"} -> UNION {Values[j] : j \in Kinds}]  BY <1>2, <1>4
<1> HIDE DEF m
<1>6. m \in Messages  BY <1>3, <1>5 DEF Messages
<1> QED  BY <1>1, <1>6 DEF Carries, Touches, Sent, m

LEMMA ZeroCarries ==
  ClearScreen \in Messages /\ \A k \in Kinds : Carries(ClearScreen, k, Zero[k])
<1>1. Zero \in [Kinds -> UNION {Values[k] : k \in Kinds}]  BY ZeroIsNumbers DEF Numbers
<1>2. ClearScreen \in Messages  BY <1>1 DEF ClearScreen, Messages
<1>3. DOMAIN ClearScreen = Kinds  BY <1>1 DEF ClearScreen
<1> QED  BY <1>2, <1>3, DueZero DEF ClearScreen, Carries, Touches

(* Whatever kind changes, the message carries the new number and what is owed of the kinds
   it overwrites besides. *)
LEMMA ReportCarries ==
  ASSUME Memory, NEW kind \in Kinds, NEW value \in Values[kind]
  PROVE  /\ Report(kind, value) \in Messages /\ Carries(Report(kind, value), kind, value)
         /\ \A k \in Kinds \ {kind} : Touches(Report(kind, value), k) => Carries(Report(kind, value), k, prev[k])
<1>1. prev["speed"] \in Int /\ prev["altitude"] \in Int
  BY DEF Memory, Numbers, Values, Kinds
<1>2. prev.speed = prev["speed"] /\ prev.altitude = prev["altitude"]  OBVIOUS
<1>3. CASE kind = "speed"
  <2>1. value \in Int /\ Report(kind, value) = VfrHud(value, prev["altitude"])
    BY <1>2, <1>3 DEF Report, Values
  <2> QED  BY <1>1, <1>3, <2>1, VfrCarries
<1>4. CASE kind = "altitude"
  <2>1. value \in Int /\ Report(kind, value) = VfrHud(prev["speed"], value)
    BY <1>2, <1>4 DEF Report, Values
  <2> QED  BY <1>1, <1>4, <2>1, VfrCarries
<1>5. CASE kind = "voltage"
  <2>1. value \in Int /\ Report(kind, value) = SysStatus(value)  BY <1>5 DEF Report, Values
  <2> QED  BY <1>5, <2>1, VoltageCarries
<1>6. CASE kind = "attitude"
  <2>1. Report(kind, value) = Attitude(value)  BY <1>6 DEF Report
  <2> QED  BY <1>6, <2>1, AttitudeCarries
<1> QED  BY <1>3, <1>4, <1>5, <1>6 DEF Kinds

-----------------------------------------------------------------------------
(* Steps. *)
LEMMA InitInv == Init => Inv
<1> SUFFICES ASSUME Init PROVE Inv  OBVIOUS
<1>1. Memory  BY ZeroIsNumbers DEF Init, Memory
<1>2. wire = <<>> /\ Queue  BY DEF Init, Queue
<1>3. \A k \in Kinds : OnScreen(k, Owed(k))  BY DueZero DEF Init, OnScreen, Owed, Right
<1> QED  BY <1>1, <1>2, <1>3, LeavesEmpty DEF Inv

(* A message is written that carries what is owed of every kind it overwrites. *)
LEMMA WriteKeeps ==
  ASSUME Inv, NEW m \in Messages, Write(m), UNCHANGED <<shown, stale>>,
         \A k \in Kinds : Touches(m, k) => Carries(m, k, Owed(k)'),
         \A k \in Kinds : ~Touches(m, k) => Owed(k)' = Owed(k)
  PROVE  Queue' /\ \A k \in Kinds : Leaves(wire, k, Owed(k), OnScreen(k, Owed(k)))'
<1>1. wire \in Seq(Messages) /\ wire' = Append(wire, m)  BY DEF Inv, Queue, Messages, Write
<1>2. Queue'  BY <1>1 DEF Queue, Messages
<1>3. ASSUME NEW k \in Kinds PROVE Leaves(wire', k, Owed(k)', OnScreen(k, Owed(k))')
  <2>1. CASE Touches(m, k)
    <3>1. Carries(m, k, Owed(k)')  BY <2>1
    <3> QED  BY <1>1, <3>1, AppendCarries
  <2>2. CASE ~Touches(m, k)
    <3>1. Owed(k)' = Owed(k) /\ OnScreen(k, Owed(k))' = OnScreen(k, Owed(k))  BY <2>2 DEF OnScreen
    <3>2. Leaves(wire, k, Owed(k)', OnScreen(k, Owed(k))')  BY <3>1 DEF Inv
    <3> QED  BY <1>1, <2>2, <3>2, AppendKeeps
  <2> QED  BY <2>1, <2>2
<1> QED  BY <1>2, <1>3

(* Nothing is written, and what is owed stays. *)
LEMMA QuietKeeps ==
  ASSUME Inv, UNCHANGED <<wire, shown, stale>>, \A k \in Kinds : Owed(k)' = Owed(k)
  PROVE  Queue' /\ \A k \in Kinds : Leaves(wire, k, Owed(k), OnScreen(k, Owed(k)))'
BY DEF Inv, Queue, OnScreen

LEMMA ClearKeeps ==
  ASSUME Inv, Write(ClearScreen), UNCHANGED <<shown, stale>>, \A k \in Kinds : Owed(k)' = Zero[k]
  PROVE  Queue' /\ \A k \in Kinds : Leaves(wire, k, Owed(k), OnScreen(k, Owed(k)))'
BY ZeroCarries, WriteKeeps DEF Carries

LEMMA ReceiveKeeps ==
  ASSUME Inv, NEW kind \in Kinds, NEW value \in Reported[kind], Receive(kind, value)
  PROVE  Inv'
<1>1. value \in Values[kind]  BY ReportedValues
<1>2. /\ host = "running" /\ host' = host /\ UNCHANGED <<shown, stale>>
      /\ prev' = [prev EXCEPT ![kind] = value] /\ last' = [last EXCEPT ![kind] = value]
      /\ prev = last /\ prev \in Numbers
  BY DEF Receive, Inv, Memory
<1>3. last'[kind] = value /\ \A k \in Kinds \ {kind} : last'[k] = last[k]  BY <1>2 DEF Numbers
<1>4. Memory'
  <2>1. last' \in Numbers  BY <1>1, <1>2 DEF Numbers
  <2> QED  BY <1>2, <2>1 DEF Memory
<1>5. CASE Changed(kind, value)
  <2> DEFINE m == Report(kind, value)
  <2>1. Write(m)  BY <1>5 DEF Receive
  <2>2. m \in Messages /\ Carries(m, kind, value)
        /\ \A k \in Kinds \ {kind} : Touches(m, k) => Carries(m, k, prev[k])
    BY <1>1, ReportCarries DEF Inv
  <2> HIDE DEF m
  <2>3. \A k \in Kinds : Owed(k)' = last'[k] /\ Owed(k) = last[k]  BY <1>2 DEF Owed
  <2>4. \A k \in Kinds : Touches(m, k) => Carries(m, k, Owed(k)')  BY <1>2, <1>3, <2>2, <2>3
  <2>5. \A k \in Kinds : ~Touches(m, k) => Owed(k)' = Owed(k)
    BY <1>3, <2>2, <2>3 DEF Carries
  <2> QED  BY <1>2, <1>4, <2>1, <2>2, <2>4, <2>5, WriteKeeps DEF Inv
<1>6. CASE ~Changed(kind, value)
  <2>1. wire' = wire /\ last[kind] = value  BY <1>2, <1>6 DEF Receive, Changed
  <2>2. \A k \in Kinds : Owed(k)' = Owed(k)  BY <1>2, <1>3, <2>1 DEF Owed
  <2> QED  BY <1>2, <1>4, <2>1, <2>2, QuietKeeps DEF Inv
<1> QED  BY <1>5, <1>6

(* The line gives up a message. *)
LEMMA TakenKeeps ==
  ASSUME Inv, wire # <<>>, wire' = Tail(wire), UNCHANGED <<host, prev, last>>,
         \A k \in Kinds : Carries(Head(wire), k, Owed(k)) => OnScreen(k, Owed(k))',
         \A k \in Kinds : ~Touches(Head(wire), k) /\ OnScreen(k, Owed(k)) => OnScreen(k, Owed(k))'
  PROVE  Inv'
<1>1. wire \in Seq(Messages)  BY DEF Inv, Queue, Messages
<1>2. Queue'  BY <1>1 DEF Queue, Messages
<1>3. Memory'  BY DEF Inv, Memory
<1>4. ASSUME NEW k \in Kinds PROVE Leaves(wire', k, Owed(k)', OnScreen(k, Owed(k))')
  <2>1. Owed(k)' = Owed(k)  BY DEF Owed
  <2>2. Leaves(wire, k, Owed(k), OnScreen(k, Owed(k)))  BY DEF Inv
  <2> QED  BY <1>1, <2>1, <2>2, TailLeaves
<1> QED  BY <1>2, <1>3, <1>4 DEF Inv

LEMMA OwedValues == ASSUME Memory, NEW k \in Kinds PROVE Owed(k) \in Values[k]
BY ZeroIsNumbers DEF Memory, Owed, Numbers

LEMMA DeliverKeeps == ASSUME Inv, Deliver PROVE Inv'
<1>1. PICK garbage \in Overflowed : shown' = Taken(Head(wire), garbage)  BY DEF Deliver
<1>2. wire # <<>> /\ wire' = Tail(wire) /\ stale' = stale \ DOMAIN Head(wire)
      /\ UNCHANGED <<host, prev, last>>
  BY DEF Deliver
<1>3. ASSUME NEW k \in Kinds, Carries(Head(wire), k, Owed(k)) PROVE OnScreen(k, Owed(k))'
  <2>1. shown'[k] = Convert(k, Sent(k, Owed(k)), garbage)  BY <1>1, <1>3 DEF Taken, Carries, Touches
  <2>2. Right(k, Owed(k), shown'[k])  BY <2>1, ConvertRight, OwedValues DEF Inv
  <2>3. Owed(k)' = Owed(k)  BY <1>2 DEF Owed
  <2> QED  BY <2>2, <2>3 DEF OnScreen
<1>4. ASSUME NEW k \in Kinds, ~Touches(Head(wire), k), OnScreen(k, Owed(k)) PROVE OnScreen(k, Owed(k))'
  <2>1. shown'[k] = shown[k] /\ (k \in stale => k \in stale')
    BY <1>1, <1>2, <1>4 DEF Taken, Touches
  <2>2. Owed(k)' = Owed(k)  BY <1>2 DEF Owed
  <2> QED  BY <1>4, <2>1, <2>2 DEF OnScreen
<1> QED  BY <1>2, <1>3, <1>4, TakenKeeps

LEMMA LoseKeeps == ASSUME Inv, Lose PROVE Inv'
<1>1. wire # <<>> /\ wire' = Tail(wire) /\ stale' = stale \cup DOMAIN Head(wire)
      /\ UNCHANGED <<host, prev, last, shown>>
  BY DEF Lose
<1>2. \A k \in Kinds : Owed(k)' = Owed(k)  BY <1>1 DEF Owed
<1>3. \A k \in Kinds : Carries(Head(wire), k, Owed(k)) => OnScreen(k, Owed(k))'
  BY <1>1 DEF Carries, Touches, OnScreen
<1>4. \A k \in Kinds : ~Touches(Head(wire), k) /\ OnScreen(k, Owed(k)) => OnScreen(k, Owed(k))'
  BY <1>1, <1>2 DEF OnScreen
<1> QED  BY <1>1, <1>3, <1>4, TakenKeeps

LEMMA RestartKeeps == ASSUME Inv, Restart PROVE Inv'
<1>1. stale' = Kinds /\ UNCHANGED <<host, prev, wire, last>>  BY DEF Restart
<1>2. Memory' /\ Queue'  BY <1>1 DEF Inv, Memory, Queue
<1>3. ASSUME NEW k \in Kinds PROVE Leaves(wire', k, Owed(k)', OnScreen(k, Owed(k))')
  <2>1. OnScreen(k, Owed(k))' /\ Owed(k)' = Owed(k)  BY <1>1 DEF OnScreen, Owed
  <2> QED  BY <1>1, <2>1 DEF Inv, Leaves
<1> QED  BY <1>2, <1>3 DEF Inv

LEMMA StepInv == Inv /\ [Next]_vars => Inv'
<1> SUFFICES ASSUME Inv, [Next]_vars PROVE Inv'  OBVIOUS
<1>1. CASE Start
  <2>1. Memory'  BY <1>1, ZeroIsNumbers DEF Start, Inv, Memory
  <2>2. Write(ClearScreen) /\ UNCHANGED <<shown, stale>> /\ \A k \in Kinds : Owed(k)' = Zero[k]
    BY <1>1 DEF Start, Owed
  <2> QED  BY <2>1, <2>2, ClearKeeps DEF Inv
<1>2. CASE Begin
  <2>1. Memory'  BY <1>2 DEF Begin, Inv, Memory
  <2>2. Write(ClearScreen) /\ UNCHANGED <<shown, stale>> /\ \A k \in Kinds : Owed(k)' = Zero[k]
    BY <1>2 DEF Begin, Owed, Inv, Memory
  <2> QED  BY <2>1, <2>2, ClearKeeps DEF Inv
<1>3. CASE Stop
  <2>1. Memory'  BY <1>3 DEF Stop, Inv, Memory
  <2>2. UNCHANGED <<wire, shown, stale>> /\ \A k \in Kinds : Owed(k)' = Owed(k)  BY <1>3 DEF Stop, Owed
  <2> QED  BY <2>1, <2>2, QuietKeeps DEF Inv
<1>4. CASE Exit
  <2>1. Memory'  BY <1>4 DEF Exit, Inv, Memory
  <2>2. Write(ClearScreen) /\ UNCHANGED <<shown, stale>> /\ \A k \in Kinds : Owed(k)' = Zero[k]
    BY <1>4 DEF Exit, Owed
  <2> QED  BY <2>1, <2>2, ClearKeeps DEF Inv
<1>5. CASE Deliver \/ Lose \/ Restart  BY <1>5, DeliverKeeps, LoseKeeps, RestartKeeps
<1>6. ASSUME NEW kind \in Kinds, NEW value \in Reported[kind], Receive(kind, value) PROVE Inv'
  BY <1>6, ReceiveKeeps
<1>7. CASE UNCHANGED vars
  <2>1. Memory' /\ \A k \in Kinds : Owed(k)' = Owed(k)  BY <1>7 DEF vars, Inv, Memory, Owed
  <2>2. UNCHANGED <<wire, shown, stale>>  BY <1>7 DEF vars
  <2> QED  BY <2>1, <2>2, QuietKeeps DEF Inv
<1> QED  BY <1>1, <1>2, <1>3, <1>4, <1>5, <1>6, <1>7 DEF Next

-----------------------------------------------------------------------------
(* With the line drained the screen shows the last number reported of every kind no fault
   has touched since, whatever is reported and in whatever order: the messages the host
   leaves out (ProcGpu.cpp:204-245) are not needed, and a message for one kind never spoils
   another (GpuUtils.cpp, send_vfr_hud). *)
THEOREM LastIsShown == Spec => []ShownIsLast
<1>1. Inv => ShownIsLast
  <2> SUFFICES ASSUME Inv, host = "running", wire = <<>>, NEW k \in Kinds \ stale
               PROVE  shown[k] = Due(k, last[k]) \/ (k = "speed" /\ last.speed > ShortMax)
    BY DEF ShownIsLast
  <2>1. Owed(k) = last[k]  BY DEF Owed
  <2>2. Leaves(wire, k, last[k], OnScreen(k, last[k]))  BY <2>1 DEF Inv
  <2>3. OnScreen(k, last[k])  BY <2>2, LeavesEmpty
  <2> QED  BY <2>3 DEF OnScreen, Right
<1> QED  BY <1>1, InitInv, StepInv, PTL DEF Spec

(* The orderly end of the host leaves no number of it on the screen (ProcGpu.cpp, ~TI_Gpu). *)
THEOREM NothingAfterExit == Spec => []ZeroAfterExit
<1>1. Inv => ZeroAfterExit
  <2> SUFFICES ASSUME Inv, host = "off", wire = <<>>, NEW k \in Kinds \ stale PROVE shown[k] = Zero[k]
    BY DEF ZeroAfterExit
  <2>1. Owed(k) = Zero[k]  BY DEF Owed
  <2>2. Leaves(wire, k, Zero[k], OnScreen(k, Zero[k]))  BY <2>1 DEF Inv
  <2>3. Right(k, Zero[k], shown[k])  BY <2>2, LeavesEmpty DEF OnScreen
  <2>4. ~(k = "speed" /\ Zero[k] > ShortMax)  BY TelemetryAssumption DEF Zero
  <2> QED  BY <2>3, <2>4, DueZero DEF Right
<1> QED  BY <1>1, InitInv, StepInv, PTL DEF Spec

-----------------------------------------------------------------------------
(* The flight's state, for any number of glitches, any places and any history of messages. *)

BeatKinds == {"armed", "disarmed", "unknown_name"}

LEMMA SameCount == \A S : Flight!Cardinality(S) = Cardinality(S)
BY DEF Flight!Cardinality, Cardinality

(* A heartbeat had the bit last at k, and the ones since then, which lacked it, were
   counted; or none had it so far. *)
Glitches(k) == Cardinality(Flight!Beats(k + 1, Len(log)))
LastArmed(k) == /\ k \in 1..Len(log) /\ log[k].kind = "armed"
                /\ \A j \in (k + 1)..Len(log) : log[j].kind # "armed"
Counted(k) == /\ armed <=> Glitches(k) <= GLITCHES
              /\ armedglitchprotect = IF Glitches(k) < GLITCHES THEN GLITCHES - Glitches(k) ELSE 0
NeverArmed == ~armed /\ armedglitchprotect = 0 /\ \A j \in 1..Len(log) : log[j].kind # "armed"
Armed == NeverArmed \/ \E k \in 1..Len(log) : LastArmed(k) /\ Counted(k)

(* Home and the distance, with the messages they come from named. *)
Now == {k \in Flight!HomeFixes : \A i \in k..Len(log) : Flight!ArmedAt(i)}
Homed == \/ Flight!HomeFixes = {} /\ GPS_home = Flight!NoHome
         \/ \E m \in Flight!HomeFixes : /\ \A k \in Flight!HomeFixes : m <= k
                                        /\ GPS_home = log[m].at
Far == \/ Now = {} /\ GPS_distanceToHome = 0
       \/ \E m \in Now : /\ \A k \in Now : k <= m
                         /\ GPS_distanceToHome = Flight!Distance(log[m].at, GPS_home)

(* What a step of the handler does with a message. *)
Flags == armed \in BOOLEAN /\ armedglitchprotect \in Nat /\ log \in Seq(Flight!Messages)
Message(m) == m \in Flight!Messages /\ log' = Append(log, m)

LEMMA LogIs == ASSUME Flags, NEW m, Message(m)
  PROVE /\ Len(log) \in Nat /\ Len(log') = Len(log) + 1 /\ log' \in Seq(Flight!Messages)
        /\ DOMAIN log = 1..Len(log) /\ DOMAIN log' = 1..(Len(log) + 1)
        /\ log'[Len(log) + 1] = m
        /\ \A i \in 1..Len(log) : log'[i] = log[i]
<1>1. log \in Seq(Flight!Messages) /\ m \in Flight!Messages /\ log' = Append(log, m)
  BY DEF Flags, Message
<1> QED  BY <1>1

(* The heartbeats up to some message: finitely many, and the fewer the later they begin. *)
LEMMA BeatsAre == ASSUME NEW i \in Nat \ {0}, NEW j \in Nat
  PROVE /\ IsFiniteSet(Flight!Beats(i, j)) /\ Cardinality(Flight!Beats(i, j)) \in Nat
        /\ \A h \in Nat \ {0} : h <= i => Cardinality(Flight!Beats(i, j)) <= Cardinality(Flight!Beats(h, j))
<1>1. \A h \in Nat \ {0} : IsFiniteSet(Flight!Beats(h, j))
  <2> TAKE h \in Nat \ {0}
  <2>1. IsFiniteSet(h..j)  BY FS_Interval
  <2>2. Flight!Beats(h, j) \subseteq h..j  BY DEF Flight!Beats
  <2> QED  BY <2>1, <2>2, FS_Subset
<1>2. Cardinality(Flight!Beats(i, j)) \in Nat  BY <1>1, FS_CardinalityType
<1>3. ASSUME NEW h \in Nat \ {0}, h <= i
      PROVE Cardinality(Flight!Beats(i, j)) <= Cardinality(Flight!Beats(h, j))
  <2>1. Flight!Beats(i, j) \subseteq Flight!Beats(h, j)  BY <1>3 DEF Flight!Beats
  <2> QED  BY <1>1, <2>1, FS_Subset
<1> QED  BY <1>1, <1>2, <1>3

(* A message leaves the past as it was, and one more heartbeat counts as one. *)
LEMMA BeatsStay == ASSUME Flags, NEW m, Message(m), NEW i \in Nat \ {0}
  PROVE /\ \A j \in 0..Len(log) : Flight!Beats(i, j)' = Flight!Beats(i, j)
        /\ m.kind \notin BeatKinds =>
             Flight!Beats(i, Len(log))' = Flight!Beats(i, Len(log))
        /\ m.kind \in BeatKinds /\ i <= Len(log) + 1 =>
             Cardinality(Flight!Beats(i, Len(log))') = Cardinality(Flight!Beats(i, Len(log))) + 1
<1>0. PICK n \in Nat : n = Len(log)  BY LogIs
<1>1. /\ n \in Nat /\ Len(log') = n + 1 /\ log'[n + 1] = m
      /\ \A k \in 1..n : log'[k] = log[k]
  BY <1>0, LogIs
<1>2. \A j \in 0..n : Flight!Beats(i, j)' = Flight!Beats(i, j)
  <2> TAKE j \in 0..n
  <2>1. \A k \in i..j : k \in 1..n  BY <1>1
  <2> QED  BY <1>1, <2>1 DEF Flight!Beats
<1>3. ASSUME m.kind \notin BeatKinds
      PROVE Flight!Beats(i, n + 1)' = Flight!Beats(i, n)
  <2>1. \A k \in i..(n + 1) : k = n + 1 \/ (k \in 1..n /\ k \in i..n)  BY <1>1
  <2>2. \A k \in i..n : k \in 1..n /\ k \in i..(n + 1)  BY <1>1
  <2> QED  BY <1>1, <1>3, <2>1, <2>2 DEF Flight!Beats, BeatKinds
<1>4. ASSUME m.kind \in BeatKinds, i <= n + 1
      PROVE Cardinality(Flight!Beats(i, n + 1)') = Cardinality(Flight!Beats(i, n)) + 1
  <2>1. \A k \in i..(n + 1) : k = n + 1 \/ (k \in 1..n /\ k \in i..n)  BY <1>1
  <2>2. \A k \in i..n : k \in 1..n /\ k \in i..(n + 1)  BY <1>1
  <2>3. n + 1 \in i..(n + 1) /\ n + 1 \notin i..n  BY <1>1, <1>4
  <2>4. Flight!Beats(i, n + 1)' = Flight!Beats(i, n) \cup {n + 1}
    BY <1>1, <1>4, <2>1, <2>2, <2>3 DEF Flight!Beats, BeatKinds
  <2>5. n + 1 \notin Flight!Beats(i, n) /\ IsFiniteSet(Flight!Beats(i, n))
    BY <1>1, <2>3, BeatsAre DEF Flight!Beats
  <2> QED  BY <2>4, <2>5, FS_AddElement
<1>5. Flight!Beats(i, Len(log))' = Flight!Beats(i, n + 1)'  BY <1>1 DEF Flight!Beats
<1> QED  BY <1>0, <1>2, <1>3, <1>4, <1>5

(* Whether the aircraft is armed, as the history has it, at the message before the last. *)
LEMMA ArmedStays == ASSUME Flags, NEW m, Message(m)
                    PROVE \A i \in 0..Len(log) : Flight!ArmedAt(i)' <=> Flight!ArmedAt(i)
<1> TAKE i \in 0..Len(log)
<1>1. /\ Len(log) \in Nat /\ \A k \in 1..Len(log) : log'[k] = log[k]
  BY LogIs
<1>2. \A k \in 1..i : /\ k \in 1..Len(log) /\ k + 1 \in Nat \ {0}
                      /\ Flight!Beats(k + 1, i)' = Flight!Beats(k + 1, i)
  BY <1>1, BeatsStay
<1>3. \A k \in 1..i : log'[k] = log[k] /\ Flight!Cardinality(Flight!Beats(k + 1, i))' = Flight!Cardinality(Flight!Beats(k + 1, i))
  BY <1>1, <1>2, SameCount
<1> QED  BY <1>3 DEF Flight!ArmedAt

(* The armed status is the one the history gives. *)
LEMMA ArmedMeans == ASSUME Flight!FlightAssumption, Flags, Armed
                    PROVE Flight!ArmedAsReported
<1> DEFINE n == Len(log)
<1>0. n \in Nat /\ GLITCHES \in Nat  BY DEF Flags, Flight!FlightAssumption
<1>1. CASE NeverArmed
  BY <1>1 DEF NeverArmed, Flight!ArmedAsReported, Flight!ArmedAt
<1>2. ASSUME NEW k \in 1..n, LastArmed(k), Counted(k) PROVE Flight!ArmedAsReported
  <2>1. Glitches(k) <= GLITCHES => Flight!ArmedAt(n)
    <3>1. Glitches(k) = Flight!Cardinality(Flight!Beats(k + 1, n))  BY SameCount DEF Glitches
    <3> QED  BY <1>2, <3>1 DEF Flight!ArmedAt, LastArmed
  <2>2. ASSUME Flight!ArmedAt(n) PROVE Glitches(k) <= GLITCHES
    <3>1. PICK h \in 1..n : log[h].kind = "armed" /\ Cardinality(Flight!Beats(h + 1, n)) <= GLITCHES
      BY <2>2, SameCount DEF Flight!ArmedAt
    <3>2. h <= k
      <4>1. ~(h \in (k + 1)..n)  BY <1>2, <3>1 DEF LastArmed
      <4> QED  BY <1>0, <4>1
    <3> DEFINE a == h + 1
               b == k + 1
    <3>3. a \in Nat \ {0} /\ b \in Nat \ {0} /\ a <= b  BY <1>0, <3>2
    <3> HIDE DEF a, b, n
    <3>4. /\ Cardinality(Flight!Beats(b, n)) <= Cardinality(Flight!Beats(a, n))
          /\ Cardinality(Flight!Beats(b, n)) \in Nat /\ Cardinality(Flight!Beats(a, n)) \in Nat
      BY <1>0, <3>3, BeatsAre
    <3> QED  BY <1>0, <3>1, <3>4 DEF Glitches, a, b, n
  <2> QED  BY <1>2, <2>1, <2>2 DEF Counted, Flight!ArmedAsReported
<1> QED  BY <1>1, <1>2 DEF Armed

(* A heartbeat with the bit, one without it, and everything else. *)
LEMMA BitArms == ASSUME Flight!FlightAssumption, Flags, NEW m, Message(m), m.kind = "armed",
                        armed' = TRUE, armedglitchprotect' = GLITCHES
                 PROVE Armed'
<1>0. PICK k \in Nat \ {0} : k = Len(log) + 1  BY LogIs
<1>1. k \in Nat \ {0} /\ Len(log') = k /\ log'[k] = m /\ GLITCHES \in Nat
  BY <1>0, LogIs DEF Flight!FlightAssumption
<1>2. (k + 1)..k = {}  BY <1>1
<1>3. Flight!Beats(k + 1, Len(log))' = {}
  <2>1. \A i : i \in (k + 1)..k => FALSE  BY <1>2
  <2>2. Flight!Beats(k + 1, Len(log))' = {i \in (k + 1)..k : log'[i].kind \in BeatKinds}
    BY <1>1 DEF Flight!Beats, BeatKinds
  <2> QED  BY <2>1, <2>2
<1>4. Cardinality(Flight!Beats(k + 1, Len(log))') = 0  BY <1>3, FS_EmptySet
<1>5. Counted(k)'  BY <1>1, <1>4 DEF Counted, Glitches
<1>6. LastArmed(k)'  BY <1>1, <1>2 DEF LastArmed
<1> QED  BY <1>1, <1>5, <1>6 DEF Armed

LEMMA GlitchCounts == ASSUME Flight!FlightAssumption, Flags, Armed, NEW m, Message(m), m.kind \in {"disarmed", "unknown_name"},
                             IF armedglitchprotect > 0
                               THEN armedglitchprotect' = armedglitchprotect - 1 /\ armed' = armed
                               ELSE armed' = FALSE /\ UNCHANGED armedglitchprotect
                      PROVE Armed'
<1> DEFINE n == Len(log)
<1>1. /\ n \in Nat /\ Len(log') = n + 1 /\ log'[n + 1] = m /\ GLITCHES \in Nat /\ m.kind # "armed"
      /\ m.kind \in BeatKinds /\ \A k \in 1..n : log'[k] = log[k]
  BY LogIs DEF Flight!FlightAssumption, BeatKinds
<1>2. CASE NeverArmed
  <2>1. ~armed' /\ armedglitchprotect' = 0  BY <1>2 DEF NeverArmed
  <2>2. \A j \in 1..(n + 1) : log'[j].kind # "armed"
    <3>1. \A j \in 1..(n + 1) : j = n + 1 \/ j \in 1..n  BY <1>1
    <3> QED  BY <1>1, <1>2, <3>1 DEF NeverArmed
  <2> QED  BY <1>1, <2>1, <2>2 DEF Armed, NeverArmed
<1>3. ASSUME NEW k \in 1..n, LastArmed(k), Counted(k) PROVE Armed'
  <2>1. k \in 1..(n + 1) /\ k + 1 \in Nat \ {0} /\ k + 1 <= n + 1  BY <1>1
  <2>2. LastArmed(k)'
    <3>1. \A j \in (k + 1)..(n + 1) : j = n + 1 \/ (j \in (k + 1)..n /\ j \in 1..n)  BY <1>1
    <3> QED  BY <1>1, <1>3, <2>1, <3>1 DEF LastArmed
  <2> DEFINE c == Glitches(k)
  <2>3. c \in Nat  BY <1>1, <2>1, BeatsAre DEF Glitches
  <2>4. Glitches(k)' = c + 1  BY <1>1, <2>1, BeatsStay DEF Glitches
  <2>5. Counted(k)'
    <3>1. /\ armed <=> c <= GLITCHES
          /\ armedglitchprotect = IF c < GLITCHES THEN GLITCHES - c ELSE 0
      BY <1>3 DEF Counted
    <3> HIDE DEF c
    <3>2. CASE c < GLITCHES
      <4>1. armedglitchprotect > 0 /\ armedglitchprotect - 1 = GLITCHES - (c + 1)  BY <1>1, <2>3, <3>1, <3>2
      <4>2. armedglitchprotect' = GLITCHES - (c + 1) /\ armed' = armed  BY <4>1
      <4>3. armed /\ c + 1 <= GLITCHES  BY <1>1, <2>3, <3>1, <3>2
      <4>4. GLITCHES - (c + 1) = IF c + 1 < GLITCHES THEN GLITCHES - (c + 1) ELSE 0
        BY <1>1, <2>3, <3>2
      <4> QED  BY <2>4, <4>2, <4>3, <4>4 DEF Counted
    <3>3. CASE ~(c < GLITCHES)
      <4>1. armedglitchprotect = 0  BY <3>1, <3>3
      <4>2. armedglitchprotect' = 0 /\ armed' = FALSE  BY <4>1
      <4>3. ~(c + 1 <= GLITCHES) /\ ~(c + 1 < GLITCHES)  BY <1>1, <2>3, <3>3
      <4> QED  BY <2>4, <4>2, <4>3 DEF Counted
    <3> QED  BY <3>2, <3>3
  <2> QED  BY <1>1, <2>1, <2>2, <2>5 DEF Armed
<1> QED  BY <1>2, <1>3 DEF Armed

LEMMA OthersKeep == ASSUME Flags, Armed, NEW m, Message(m), m.kind \notin BeatKinds,
                           UNCHANGED <<armed, armedglitchprotect>>
                    PROVE Armed'
<1> DEFINE n == Len(log)
<1>1. /\ n \in Nat /\ Len(log') = n + 1 /\ log'[n + 1] = m /\ m.kind # "armed"
      /\ \A k \in 1..n : log'[k] = log[k]
  BY LogIs DEF BeatKinds
<1>2. CASE NeverArmed
  <2>1. \A j \in 1..(n + 1) : j = n + 1 \/ j \in 1..n  BY <1>1
  <2> QED  BY <1>1, <1>2, <2>1 DEF Armed, NeverArmed
<1>3. ASSUME NEW k \in 1..n, LastArmed(k), Counted(k) PROVE Armed'
  <2>1. k \in 1..(n + 1) /\ k + 1 \in Nat \ {0}  BY <1>1
  <2>2. LastArmed(k)'
    <3>1. \A j \in (k + 1)..(n + 1) : j = n + 1 \/ (j \in (k + 1)..n /\ j \in 1..n)  BY <1>1
    <3> QED  BY <1>1, <1>3, <2>1, <3>1 DEF LastArmed
  <2>3. Glitches(k)' = Glitches(k)  BY <1>1, <2>1, BeatsStay DEF Glitches
  <2>4. Counted(k)'  BY <1>3, <2>3 DEF Counted
  <2> QED  BY <1>1, <2>1, <2>2, <2>4 DEF Armed
<1> QED  BY <1>2, <1>3 DEF Armed

(* A fix of the armed aircraft. *)
IsFix(m) == m.kind = "gps" /\ m.sats >= MINSATFIX

LEMMA HomeFixesAre == ASSUME Flags, NEW k
  PROVE k \in Flight!HomeFixes <=> k \in 1..Len(log) /\ IsFix(log[k]) /\ Flight!ArmedAt(k)
<1>1. DOMAIN log = 1..Len(log)  BY DEF Flags
<1> QED  BY <1>1 DEF Flight!HomeFixes, Flight!Fixes, IsFix

(* One more message adds one fix at most, and the distance is about a fix since the armed
   status rose. *)
LEMMA FixesGrow == ASSUME Flight!FlightAssumption, Flags, Flags', Armed', NEW m, Message(m), NEW k
  PROVE /\ k \in Flight!HomeFixes' <=> \/ k \in Flight!HomeFixes
                                       \/ k = Len(log) + 1 /\ IsFix(m) /\ armed'
        /\ k \in Flight!HomeFixes => k \in 1..Len(log) /\ log'[k] = log[k]
        /\ k \in Now' <=> armed' /\ (k \in Now \/ (k = Len(log) + 1 /\ IsFix(m)))
        /\ k \in Now => k \in Flight!HomeFixes
<1>0. PICK n \in Nat : n = Len(log)  BY LogIs
<1>1. /\ Len(log') = n + 1 /\ log'[n + 1] = m /\ \A i \in 1..n : log'[i] = log[i]
      /\ \A i \in 1..(n + 1) : i = n + 1 \/ i \in 1..n
      /\ \A i \in 1..n : i \in 1..(n + 1) /\ i \in 0..n /\ i # n + 1
      /\ n + 1 \in 1..(n + 1) /\ n + 1 \notin 1..n
  BY <1>0, LogIs
<1>2. Flight!ArmedAt(n + 1)' <=> armed'
  <2>1. Flight!ArmedAsReported'  BY ArmedMeans, PTL
  <2> QED  BY <1>1, <2>1 DEF Flight!ArmedAsReported, Flight!ArmedAt
<1>3. \A i \in 1..n : Flight!ArmedAt(i)' <=> Flight!ArmedAt(i)  BY <1>0, <1>1, ArmedStays
<1>4. \A i : i \in Flight!HomeFixes <=> i \in 1..n /\ IsFix(log[i]) /\ Flight!ArmedAt(i)
  BY <1>0, HomeFixesAre
<1>5. \A i : i \in Flight!HomeFixes' <=> i \in 1..(n + 1) /\ IsFix(log'[i]) /\ Flight!ArmedAt(i)'
  <2>1. DOMAIN log' = 1..(n + 1)  BY <1>0, LogIs
  <2> QED  BY <2>1 DEF Flight!HomeFixes, Flight!Fixes, IsFix
<1>6. \A i : i \in Flight!HomeFixes' <=> i \in Flight!HomeFixes \/ (i = n + 1 /\ IsFix(m) /\ armed')
  BY <1>1, <1>2, <1>3, <1>4, <1>5
<1>7. \A i : i \in Now <=> i \in Flight!HomeFixes /\ \A j \in i..n : Flight!ArmedAt(j)
  BY <1>0 DEF Now
<1>8. \A i : i \in Now' <=> i \in Flight!HomeFixes' /\ \A j \in i..(n + 1) : Flight!ArmedAt(j)'
  BY <1>1 DEF Now
<1>9. \A i \in 1..(n + 1) : (\A j \in i..(n + 1) : Flight!ArmedAt(j)')
                               <=> (\A j \in i..n : Flight!ArmedAt(j)) /\ armed'
  <2> TAKE i \in 1..(n + 1)
  <2>1. \A j \in i..(n + 1) : j = n + 1 \/ (j \in i..n /\ j \in 1..n)  BY <1>0
  <2>2. \A j \in i..n : j \in i..(n + 1) /\ j \in 1..n  BY <1>0
  <2>3. n + 1 \in i..(n + 1)  BY <1>0
  <2> QED  BY <1>2, <1>3, <2>1, <2>2, <2>3
<1>10. \A j \in (n + 1)..n : FALSE  BY <1>0
<1>11. k \in Now' <=> armed' /\ (k \in Now \/ (k = n + 1 /\ IsFix(m)))
  <2>1. CASE k \in 1..n
    BY <1>1, <1>6, <1>7, <1>8, <1>9, <2>1
  <2>2. CASE k = n + 1
    BY <1>1, <1>4, <1>6, <1>7, <1>8, <1>9, <1>10, <2>2
  <2>3. CASE k \notin 1..n /\ k # n + 1
    BY <1>4, <1>6, <1>7, <1>8, <2>3
  <2> QED  BY <2>1, <2>2, <2>3
<1> QED  BY <1>0, <1>1, <1>4, <1>6, <1>7, <1>11

(* Home is the place of the first such fix. *)
HomeStep(m) == GPS_home' = IF GPS_home = Flight!NoHome /\ armed /\ IsFix(m) THEN m.at ELSE GPS_home

LEMMA NextHomed == ASSUME Flight!FlightAssumption, Flags, Flags', Armed', Homed, NEW m, Message(m), HomeStep(m),
                          armed' = armed \/ ~IsFix(m)
                   PROVE Homed'
<1>0. PICK n \in Nat : n = Len(log)  BY LogIs
<1>1. \A k : /\ k \in Flight!HomeFixes' <=> k \in Flight!HomeFixes \/ (k = n + 1 /\ IsFix(m) /\ armed')
             /\ k \in Flight!HomeFixes => k \in 1..n /\ log'[k] = log[k]
  BY <1>0, FixesGrow
<1>2. log'[n + 1] = m  BY <1>0, LogIs
<1>3. CASE Flight!HomeFixes = {} /\ GPS_home = Flight!NoHome
  <2>1. CASE IsFix(m) /\ armed
    <3>1. n + 1 \in Flight!HomeFixes' /\ \A k \in Flight!HomeFixes' : n + 1 <= k
      BY <1>0, <1>1, <1>3, <2>1
    <3>2. GPS_home' = log'[n + 1].at  BY <1>2, <1>3, <2>1 DEF HomeStep
    <3> QED  BY <3>1, <3>2 DEF Homed
  <2>2. CASE ~(IsFix(m) /\ armed)
    <3>1. Flight!HomeFixes' = {}  BY <1>1, <1>3, <2>2
    <3>2. GPS_home' = Flight!NoHome  BY <1>3, <2>2 DEF HomeStep
    <3> QED  BY <3>1, <3>2 DEF Homed, Flight!NoHome
  <2> QED  BY <2>1, <2>2
<1>4. ASSUME NEW h \in Flight!HomeFixes, \A k \in Flight!HomeFixes : h <= k, GPS_home = log[h].at
      PROVE Homed'
  <2>1. h \in 1..n /\ h \in Flight!HomeFixes' /\ log'[h] = log[h]  BY <1>1
  <2>2. GPS_home # Flight!NoHome
    <3>1. log[h] \in Flight!Messages /\ IsFix(log[h])  BY <1>0, <2>1, HomeFixesAre DEF Flags
    <3>2. log[h].at \in Places  BY <3>1 DEF Flight!Messages, IsFix
    <3> QED  BY <1>4, <3>2 DEF Flight!NoHome, Flight!FlightAssumption
  <2>3. GPS_home' = log'[h].at  BY <1>4, <2>1, <2>2 DEF HomeStep
  <2>4. \A k \in Flight!HomeFixes' : h <= k  BY <1>0, <1>1, <1>4, <2>1
  <2> QED  BY <2>1, <2>3, <2>4 DEF Homed
<1> QED  BY <1>3, <1>4 DEF Homed

(* The distance is the last one. *)
FarStep(m) == GPS_distanceToHome' =
                IF ~armed' THEN 0
                ELSE IF IsFix(m) /\ GPS_home' # Flight!NoHome THEN Flight!Distance(m.at, GPS_home')
                ELSE GPS_distanceToHome

LEMMA NextFar == ASSUME Flight!FlightAssumption, Flags, Armed, Flags', Armed', Homed, Homed', Far,
                        NEW m, Message(m), HomeStep(m), FarStep(m),
                        armed' = armed \/ ~IsFix(m)
                 PROVE Far'
<1>0. PICK n \in Nat : n = Len(log)  BY LogIs
<1>1. \A k : /\ k \in Flight!HomeFixes' <=> k \in Flight!HomeFixes \/ (k = n + 1 /\ IsFix(m) /\ armed')
             /\ k \in Flight!HomeFixes => k \in 1..n /\ log'[k] = log[k]
             /\ k \in Now' <=> armed' /\ (k \in Now \/ (k = n + 1 /\ IsFix(m)))
             /\ k \in Now => k \in Flight!HomeFixes
  BY <1>0, FixesGrow
<1>2. log'[n + 1] = m  BY <1>0, LogIs
<1>3. CASE ~armed'
  <2>1. Now' = {} /\ GPS_distanceToHome' = 0  BY <1>1, <1>3 DEF FarStep
  <2> QED  BY <2>1 DEF Far
<1>4. CASE armed' /\ IsFix(m)
  <2>1. n + 1 \in Now' /\ n + 1 \in Flight!HomeFixes' /\ \A k \in Now' : k <= n + 1
    BY <1>0, <1>1, <1>4
  <2>2. GPS_home' # Flight!NoHome
    <3>1. PICK h \in Flight!HomeFixes' : GPS_home' = log'[h].at
      BY <2>1 DEF Homed
    <3>2. log'[h] \in Flight!Messages /\ IsFix(log'[h])
      <4>1. \A k \in 1..n : log'[k] = log[k]  BY <1>0, LogIs
      <4>2. CASE h \in Flight!HomeFixes
        <5>1. log[h] \in Flight!Messages /\ IsFix(log[h])  BY <1>0, <1>1, <4>2, HomeFixesAre DEF Flags
        <5> QED  BY <1>1, <4>2, <5>1
      <4>3. CASE h = n + 1
        BY <1>2, <1>4, <4>3 DEF Message
      <4> QED  BY <1>1, <3>1, <4>2, <4>3
    <3>3. log'[h].at \in Places  BY <3>2 DEF Flight!Messages, IsFix
    <3> QED  BY <3>1, <3>3 DEF Flight!NoHome, Flight!FlightAssumption
  <2>3. GPS_distanceToHome' = Flight!Distance(log'[n + 1].at, GPS_home')
    BY <1>2, <1>4, <2>2 DEF FarStep
  <2>4. Flight!Distance(log'[n + 1].at, GPS_home') = Flight!Distance(log[n + 1].at, GPS_home)'
    BY DEF Flight!Distance
  <2> QED  BY <2>1, <2>3, <2>4 DEF Far
<1>5. CASE armed' /\ ~IsFix(m)
  <2>1. GPS_distanceToHome' = GPS_distanceToHome /\ GPS_home' = GPS_home  BY <1>5 DEF FarStep, HomeStep
  <2>2. \A k : k \in Now' <=> k \in Now  BY <1>1, <1>5
  <2>3. CASE Now = {} /\ GPS_distanceToHome = 0
    BY <2>1, <2>2, <2>3 DEF Far
  <2>4. ASSUME NEW h \in Now, \A k \in Now : k <= h, GPS_distanceToHome = Flight!Distance(log[h].at, GPS_home)
        PROVE Far'
    <3>1. log'[h] = log[h] /\ h \in Now' /\ \A k \in Now' : k <= h  BY <1>1, <2>2, <2>4
    <3>2. GPS_distanceToHome' = Flight!Distance(log[h].at, GPS_home)'
      BY <2>1, <2>4, <3>1 DEF Flight!Distance
    <3> QED  BY <3>1, <3>2 DEF Far
  <2> QED  BY <2>3, <2>4 DEF Far
<1> QED  BY <1>3, <1>4, <1>5

(* Every message, and nothing at all. *)
FlightInv == Flags /\ Armed /\ Homed /\ Far

LEMMA FlightInit == ASSUME Flight!FlightAssumption, Flight!Init PROVE FlightInv
<1>1. /\ armed = FALSE /\ armedglitchprotect = 0 /\ GPS_home = Flight!NoHome /\ GPS_distanceToHome = 0
      /\ log = <<>>
  BY DEF Flight!Init
<1>2. Flags
  <2>1. <<>> \in Seq(Flight!Messages)  OBVIOUS
  <2> QED  BY <1>1, <2>1 DEF Flags
<1>3. Armed
  <2>1. Len(log) = 0  BY <1>1
  <2> QED  BY <1>1, <2>1 DEF Armed, NeverArmed
<1>4. Flight!HomeFixes = {}  BY <1>1 DEF Flight!HomeFixes, Flight!Fixes
<1> QED  BY <1>1, <1>2, <1>3, <1>4 DEF FlightInv, Homed, Far, Now

LEMMA OneMessage == ASSUME Flight!FlightAssumption, FlightInv, NEW m, Message(m),
                           armed' \in BOOLEAN, armedglitchprotect' \in Nat, Armed',
                           HomeStep(m), FarStep(m), armed' = armed \/ ~IsFix(m)
                    PROVE FlightInv'
<1>1. Flags'  BY LogIs DEF FlightInv, Flags
<1>2. Homed'  BY <1>1, NextHomed DEF FlightInv
<1>3. Far'  BY <1>1, <1>2, NextFar DEF FlightInv
<1> QED  BY <1>1, <1>2, <1>3 DEF FlightInv

LEMMA PlainMessage == ASSUME NEW k \in {"armed", "disarmed", "unknown_name", "other"},
                             Flight!Received([kind |-> k])
                      PROVE /\ Message([kind |-> k]) /\ ~IsFix([kind |-> k])
                            /\ UNCHANGED GPS_home => HomeStep([kind |-> k])
                            /\ Flight!Handled(GPS_distanceToHome) => FarStep([kind |-> k])
<1>1. [kind |-> k] \in Flight!Messages  BY DEF Flight!Messages
<1>2. ~IsFix([kind |-> k])  BY DEF IsFix
<1> QED  BY <1>1, <1>2 DEF Message, Flight!Received, HomeStep, FarStep, Flight!Handled

LEMMA ArmedBitKeeps == ASSUME Flight!FlightAssumption, FlightInv, Flight!ArmedBit PROVE FlightInv'
<1> DEFINE m == [kind |-> "armed"]
<1>1. Message(m) /\ ~IsFix(m) /\ HomeStep(m) /\ FarStep(m)  BY PlainMessage DEF Flight!ArmedBit
<1>2. m.kind = "armed"  OBVIOUS
<1>3. armed' = TRUE /\ armedglitchprotect' = GLITCHES /\ GLITCHES \in Nat
  BY DEF Flight!ArmedBit, Flight!FlightAssumption
<1> HIDE DEF m
<1>4. Armed'  BY <1>1, <1>2, <1>3, BitArms DEF FlightInv
<1> QED  BY <1>1, <1>3, <1>4, OneMessage

LEMMA NoArmedBitKeeps == ASSUME Flight!FlightAssumption, FlightInv, NEW k \in {"disarmed", "unknown_name"},
                                Flight!NoArmedBit([kind |-> k])
                         PROVE FlightInv'
<1> DEFINE m == [kind |-> k]
<1>1. Message(m) /\ ~IsFix(m) /\ HomeStep(m) /\ FarStep(m)  BY PlainMessage DEF Flight!NoArmedBit
<1>2. m.kind \in {"disarmed", "unknown_name"}  OBVIOUS
<1>3. IF armedglitchprotect > 0
        THEN armedglitchprotect' = armedglitchprotect - 1 /\ armed' = armed
        ELSE armed' = FALSE /\ UNCHANGED armedglitchprotect
  BY DEF Flight!NoArmedBit
<1>4. armed' \in BOOLEAN /\ armedglitchprotect' \in Nat
  <2>1. armed' \in BOOLEAN  BY <1>3 DEF FlightInv, Flags
  <2>2. armedglitchprotect' \in Nat  BY <1>3 DEF FlightInv, Flags
  <2> QED  BY <2>1, <2>2
<1> HIDE DEF m
<1>5. Armed'  BY <1>1, <1>2, <1>3, GlitchCounts DEF FlightInv
<1> QED  BY <1>1, <1>4, <1>5, OneMessage

LEMMA FixKeeps == ASSUME Flight!FlightAssumption, FlightInv, NEW sats \in Satellites, NEW p \in Places,
                         Flight!GPS_RAW_INT(sats, p)
                  PROVE FlightInv'
<1> DEFINE m == [kind |-> "gps", sats |-> sats, at |-> p]
<1>1. Message(m)  BY DEF Message, Flight!GPS_RAW_INT, Flight!Received, Flight!Messages
<1>2. m.kind = "gps" /\ m.sats = sats /\ m.at = p  OBVIOUS
<1>3. UNCHANGED <<armed, armedglitchprotect>>  BY DEF Flight!GPS_RAW_INT
<1>4. HomeStep(m)  BY <1>2 DEF Flight!GPS_RAW_INT, Flight!Home, HomeStep, IsFix
<1>5. FarStep(m)  BY <1>2, <1>3 DEF Flight!GPS_RAW_INT, Flight!Handled, FarStep, IsFix
<1> HIDE DEF m
<1>6. Armed'  BY <1>1, <1>2, <1>3, OthersKeep DEF FlightInv, BeatKinds
<1> QED  BY <1>1, <1>3, <1>4, <1>5, <1>6, OneMessage DEF FlightInv, Flags

LEMMA OtherKeeps == ASSUME Flight!FlightAssumption, FlightInv, Flight!Other PROVE FlightInv'
<1> DEFINE m == [kind |-> "other"]
<1>1. Message(m) /\ ~IsFix(m) /\ HomeStep(m) /\ FarStep(m)  BY PlainMessage DEF Flight!Other
<1>2. m.kind = "other"  OBVIOUS
<1>3. UNCHANGED <<armed, armedglitchprotect>>  BY DEF Flight!Other
<1> HIDE DEF m
<1>4. Armed'  BY <1>1, <1>2, <1>3, OthersKeep DEF FlightInv, BeatKinds
<1> QED  BY <1>1, <1>3, <1>4, OneMessage DEF FlightInv, Flags

LEMMA FlightStutters == ASSUME FlightInv, UNCHANGED Flight!vars PROVE FlightInv'
<1>1. UNCHANGED <<armed, armedglitchprotect, GPS_home, GPS_distanceToHome, log>>  BY DEF Flight!vars
<1>2. Flags'  BY <1>1 DEF FlightInv, Flags, Flight!Messages
<1>3. \A i, j : Flight!Beats(i, j)' = Flight!Beats(i, j)  BY <1>1 DEF Flight!Beats
<1>4. Armed'
  <2>1. \A k : Glitches(k)' = Glitches(k)  BY <1>1, <1>3 DEF Glitches
  <2> QED  BY <1>1, <2>1 DEF FlightInv, Armed, NeverArmed, LastArmed, Counted
<1>5. \A i : Flight!ArmedAt(i)' <=> Flight!ArmedAt(i)  BY <1>1, <1>3, SameCount DEF Flight!ArmedAt
<1>6. Flight!HomeFixes' = Flight!HomeFixes  BY <1>1, <1>5 DEF Flight!HomeFixes, Flight!Fixes
<1>7. Now' = Now  BY <1>1, <1>5, <1>6 DEF Now
<1>8. Homed'  BY <1>1, <1>6 DEF FlightInv, Homed, Flight!NoHome
<1>9. Far'  BY <1>1, <1>7 DEF FlightInv, Far, Flight!Distance
<1> QED  BY <1>2, <1>4, <1>8, <1>9 DEF FlightInv

LEMMA FlightStep == ASSUME Flight!FlightAssumption, FlightInv, [Flight!Next]_Flight!vars PROVE FlightInv'
<1>1. CASE Flight!HEARTBEAT
  BY <1>1, ArmedBitKeeps, NoArmedBitKeeps DEF Flight!HEARTBEAT
<1>2. CASE Flight!NAMED_VALUE_INT
  BY <1>2, NoArmedBitKeeps DEF Flight!NAMED_VALUE_INT
<1>3. CASE \E sats \in Satellites, p \in Places : Flight!GPS_RAW_INT(sats, p)
  BY <1>3, FixKeeps
<1>4. CASE Flight!Other
  BY <1>4, OtherKeeps
<1>5. CASE UNCHANGED Flight!vars
  BY <1>5, FlightStutters
<1> QED  BY <1>1, <1>2, <1>3, <1>4, <1>5 DEF Flight!Next

(* What the invariant says of home and of the distance. *)
LEMMA HomeMeans == ASSUME Flags, Homed, Far PROVE Flight!HomeAndDistance
<1>0. Flight!HomeFixes \subseteq Int
  <2>1. DOMAIN log = 1..Len(log) /\ Len(log) \in Nat  BY DEF Flags
  <2> QED  BY <2>1 DEF Flight!HomeFixes, Flight!Fixes
<1>1. Flight!HomeOfFirstFlight
  <2>1. ASSUME NEW m \in Flight!HomeFixes, \A k \in Flight!HomeFixes : m <= k
        PROVE Flight!Min(Flight!HomeFixes) = m
    <3>1. \A x \in Flight!HomeFixes : (\A k \in Flight!HomeFixes : x <= k) => x = m
      BY <1>0, <2>1
    <3> QED  BY <2>1, <3>1 DEF Flight!Min
  <2> QED  BY <2>1 DEF Homed, Flight!HomeOfFirstFlight
<1>2. Flight!DistanceOfThisFlight
  <2>0. Now \subseteq Int  BY <1>0 DEF Now
  <2>1. ASSUME NEW m \in Now, \A k \in Now : k <= m
        PROVE Flight!Max(Now) = m
    <3>1. \A x \in Now : (\A k \in Now : x >= k) => x = m
      BY <2>0, <2>1
    <3>2. \A x, k \in Now : x >= k <=> k <= x  BY <2>0
    <3> QED  BY <2>1, <3>1, <3>2 DEF Flight!Max
  <2>2. GPS_distanceToHome = IF Now = {} THEN 0 ELSE Flight!Distance(log[Flight!Max(Now)].at, GPS_home)
    BY <2>1 DEF Far
  <2> QED  BY <2>2 DEF Now, Flight!DistanceOfThisFlight
<1> QED  BY <1>1, <1>2 DEF Flight!HomeAndDistance

(* For any number of tolerated heartbeats, any satellites and places and any history of
   messages, the aircraft is taken for armed exactly while no more than so many heartbeats in
   a row lacked the bit (SerialMAVLINK.ino:382-417). *)
THEOREM ArmedIsReported == ASSUME Flight!FlightAssumption
                           PROVE Flight!Spec => []ArmedAsReported
<1>1. Flight!Init => FlightInv  BY FlightInit
<1>2. FlightInv /\ [Flight!Next]_Flight!vars => FlightInv'  BY FlightStep
<1>3. FlightInv => ArmedAsReported  BY ArmedMeans DEF FlightInv, ArmedAsReported
<1> QED  BY <1>1, <1>2, <1>3, PTL DEF Flight!Spec

(* Home is the place of the first fix of the armed aircraft through every later flight, and
   the distance the one of the last fix of this flight (SerialMAVLINK.ino:517-550 and
   649-685). *)
THEOREM HomeIsKept == ASSUME Flight!FlightAssumption
                      PROVE Flight!Spec => []HomeAndDistance
<1>1. Flight!Init => FlightInv  BY FlightInit
<1>2. FlightInv /\ [Flight!Next]_Flight!vars => FlightInv'  BY FlightStep
<1>3. FlightInv => HomeAndDistance  BY HomeMeans DEF FlightInv, HomeAndDistance
<1> QED  BY <1>1, <1>2, <1>3, PTL DEF Flight!Spec
=============================================================================
