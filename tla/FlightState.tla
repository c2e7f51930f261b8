------------------------------ MODULE FlightState -----------------------------
(***************************************************************************)
(* Whether the OSD takes the aircraft for armed, where its home is and how *)
(* far that is (serialMAVCheck, SerialMAVLINK.ino).  A heartbeat without   *)
(* the armed bit may be a glitch: armed falls when armedglitchprotect of   *)
(* them have come before.  Home is taken once, and kept until a restart.   *)
(*                                                                         *)
(* The switch of the handler has no break after NAMED_VALUE_INT, so that a *)
(* name it does not know, such as the host's 'A', goes on as a heartbeat,  *)
(* whose byte 6 is then one of the value's, zero in what the host sends.   *)
(* Places are points of a line; log is the history of what arrived.        *)
(***************************************************************************)
EXTENDS Integers, Sequences, FiniteSets, FiniteSetsExt

CONSTANTS GLITCHES,      \* what armedglitchprotect is set to, 2
          MINSATFIX,     \* satellites a fix needs, 5
          Satellites, Places,
          MaxLog         \* messages, a bound of the model

FlightAssumption ==
  /\ GLITCHES \in Nat /\ MINSATFIX \in Nat
  /\ Satellites \subseteq Nat /\ Places \subseteq Nat /\ MaxLog \in Nat

VARIABLES armed, armedglitchprotect,
          GPS_home,             \* NoHome while bit 0 of GPS_fix_HOME is not set
          GPS_distanceToHome,
          log
vars == <<armed, armedglitchprotect, GPS_home, GPS_distanceToHome, log>>

NoHome == -1
Messages == {[kind |-> k] : k \in {"armed", "disarmed", "unknown_name", "other"}}
              \cup [kind : {"gps"}, sats : Satellites, at : Places]

Distance(p, q) == IF p > q THEN p - q ELSE q - p

TypeOK == /\ armed \in BOOLEAN /\ armedglitchprotect \in 0..GLITCHES
          /\ GPS_home \in Places \cup {NoHome}
          /\ GPS_distanceToHome \in {0} \cup {Distance(p, q) : p, q \in Places}
          /\ log \in Seq(Messages) /\ Len(log) <= MaxLog

Init == /\ armed = FALSE /\ armedglitchprotect = 0
        /\ GPS_home = NoHome /\ GPS_distanceToHome = 0 /\ log = <<>>

(* The end of the handler, whatever the message was. *)
Handled_Keep(distance) == GPS_distanceToHome' = distance
Handled(distance) == GPS_distanceToHome' = IF armed' THEN distance ELSE 0
Received(m) == Len(log) < MaxLog /\ log' = Append(log, m)

ArmedBit == /\ Received([kind |-> "armed"])
            /\ armed' = TRUE /\ armedglitchprotect' = GLITCHES
            /\ Handled(GPS_distanceToHome)
            /\ UNCHANGED GPS_home

NoArmedBit_Once(m) == /\ Received(m)
                      /\ armed' = FALSE /\ armedglitchprotect' = 0
                      /\ Handled(GPS_distanceToHome)
                      /\ UNCHANGED GPS_home
NoArmedBit(m) == /\ Received(m)
                 /\ IF armedglitchprotect > 0
                      THEN armedglitchprotect' = armedglitchprotect - 1 /\ armed' = armed
                      ELSE armed' = FALSE /\ UNCHANGED armedglitchprotect
                 /\ Handled(GPS_distanceToHome)
                 /\ UNCHANGED GPS_home

HEARTBEAT == ArmedBit \/ NoArmedBit([kind |-> "disarmed"])
NAMED_VALUE_INT == NoArmedBit([kind |-> "unknown_name"])

Home(sats, p) == IF GPS_home = NoHome /\ armed /\ sats >= MINSATFIX THEN p ELSE GPS_home
GPS_RAW_INT(sats, p) ==
  /\ Received([kind |-> "gps", sats |-> sats, at |-> p])
  /\ GPS_home' = Home(sats, p)
  /\ UNCHANGED <<armed, armedglitchprotect>>
  /\ Handled(IF sats >= MINSATFIX /\ GPS_home' # NoHome THEN Distance(p, GPS_home')
                                                        ELSE GPS_distanceToHome)

Other == /\ Received([kind |-> "other"])
         /\ UNCHANGED <<armed, armedglitchprotect, GPS_home>>
         /\ Handled(GPS_distanceToHome)

Next == \/ HEARTBEAT
        \/ NAMED_VALUE_INT
        \/ \E sats \in Satellites, p \in Places : GPS_RAW_INT(sats, p)
        \/ Other

Spec == Init /\ [][Next]_vars

-----------------------------------------------------------------------------
(* What the messages mean, read off the history. *)
Beats(i, j) == {k \in i..j : log[k].kind \in {"armed", "disarmed", "unknown_name"}}
ArmedAt(i) == \E k \in 1..i : /\ log[k].kind = "armed"
                              /\ Cardinality(Beats(k + 1, i)) <= GLITCHES
Fixes == {k \in DOMAIN log : log[k].kind = "gps" /\ log[k].sats >= MINSATFIX}
HomeFixes == {k \in Fixes : ArmedAt(k)}

(* The aircraft is armed exactly while no more than GLITCHES heartbeats in a row lacked the
   bit since one had it, whatever came between them. *)
ArmedAsReported == armed <=> ArmedAt(Len(log))

(* Home is where the first fix of the armed aircraft was, and stays there through later
   flights. *)
HomeOfFirstFlight ==
  GPS_home = IF HomeFixes = {} THEN NoHome ELSE log[Min(HomeFixes)].at

(* The distance is that of the last fix since the aircraft was armed last, and zero when
   there was none: a distance of the flight before never comes back. *)
DistanceOfThisFlight ==
  LET now == {k \in HomeFixes : \A i \in k..Len(log) : ArmedAt(i)}
  IN GPS_distanceToHome = IF now = {} THEN 0 ELSE Distance(log[Max(now)].at, GPS_home)

(* Both: what the pilot reads of home is about one place, and about this flight. *)
HomeAndDistance == HomeOfFirstFlight /\ DistanceOfThisFlight

(* What the configuration says of the armed status: it is sent in the heartbeat.  So nothing
   else would change it. *)
ArmedFromHeartbeats ==
  [][armed' # armed => log'[Len(log')].kind \in {"armed", "disarmed"}]_vars
=============================================================================
