------------------------------- MODULE Telemetry ------------------------------
(***************************************************************************)
(* The numbers on the screen: air speed, altitude, battery voltage and     *)
(* attitude.  The worker thread sends a number only when it differs from   *)
(* the one before (ProcGpu.cpp:204-245); speed and altitude share the      *)
(* message VFR_HUD, so each is sent with the host's memory of the other.   *)
(* Nothing is repeated: what the line loses, or a restart of the OSD       *)
(* forgets, stays wrong until the number changes.                          *)
(*                                                                         *)
(* Speed is in cm/s, altitude in cm, voltage in mV, angles in 0.1 degree.  *)
(***************************************************************************)
EXTENDS Integers, Sequences

CONSTANTS Speeds, Altitudes, Voltages, Angles,  \* what the image processing reports
          ShortMax,     \* largest int16_t, 32767
          Overflowed,   \* what a conversion to int16_t out of its range may leave
          MaxWire,      \* bound: messages under way
          MaxFaults     \* bound: messages lost and restarts of the OSD

ASSUME TelemetryAssumption ==
  /\ {Speeds, Altitudes, Voltages} \subseteq SUBSET Int
  /\ Angles \subseteq [roll : Int, pitch : Int, yaw : Int]
  /\ ShortMax \in Nat /\ Overflowed \subseteq (-ShortMax - 1)..ShortMax /\ Overflowed # {}
  /\ MaxWire \in Nat \ {0} /\ MaxFaults \in Nat

VARIABLES host,    \* "off", "starting", "running", "stopped"
          prev,    \* prev_airSpeed, prev_altitude, prev_battVoltage, prev_roll, ...
          wire,    \* messages written and not yet read
          shown,   \* AIR_speed, MwAltitude, MwVBat, MwAngle
          last,    \* history: the last number of each kind reported to this host
          stale,   \* history: the kinds a fault touched and no message has renewed
          faults   \* history: messages lost and restarts

vars == <<host, prev, wire, shown, last, stale, faults>>

Kinds == {"speed", "altitude", "voltage", "attitude"}
Level == [roll |-> 0, pitch |-> 0, yaw |-> 0]
Zero == [speed |-> 0, altitude |-> 0, voltage |-> 0, attitude |-> Level]
Reported == [speed |-> Speeds, altitude |-> Altitudes, voltage |-> Voltages, attitude |-> Angles]

-----------------------------------------------------------------------------
(* Messages: the numbers a message carries, by kind; "CS" carries zeros of every kind. *)
NotNegative(v) == IF v < 0 THEN 0 ELSE v
Within(v, most) == IF NotNegative(v) > most THEN most ELSE NotNegative(v)

VfrHud(speed, altitude) == [speed |-> NotNegative(speed), altitude |-> NotNegative(altitude)]
SysStatus(voltage) == [voltage |-> Within(voltage, 65535)]
Attitude(angles) == [attitude |-> angles]
ClearScreen == Zero

Report_SpeedAlone(kind, value) ==
  CASE kind = "speed" -> VfrHud(value, 0)
    [] kind = "altitude" -> VfrHud(prev.speed, value)
    [] kind = "voltage" -> SysStatus(value)
    [] kind = "attitude" -> Attitude(value)
Report(kind, value) ==
  CASE kind = "speed" -> VfrHud(value, prev.altitude)
    [] kind = "altitude" -> VfrHud(prev.speed, value)
    [] kind = "voltage" -> SysStatus(value)
    [] kind = "attitude" -> Attitude(value)

Room(n) == Len(wire) + n <= MaxWire
Write(m) == wire' = Append(wire, m)

-----------------------------------------------------------------------------
(* The host. *)
Start == /\ host = "off" /\ Room(1) /\ Write(ClearScreen)
         /\ host' = "starting" /\ prev' = Zero /\ last' = Zero
         /\ UNCHANGED <<shown, stale, faults>>

Begin == /\ host = "starting" /\ Room(1) /\ Write(ClearScreen) /\ host' = "running"
         /\ UNCHANGED <<prev, shown, last, stale, faults>>

Changed_DeadBand(kind, value) ==
  IF kind = "attitude" THEN prev[kind] # value
  ELSE value > prev[kind] + 500 \/ value < prev[kind] - 500
Changed(kind, value) == prev[kind] # value
Receive(kind, value) ==
  /\ host = "running"
  /\ IF Changed(kind, value) THEN Room(1) /\ Write(Report(kind, value)) ELSE UNCHANGED wire
  /\ prev' = [prev EXCEPT ![kind] = value]
  /\ last' = [last EXCEPT ![kind] = value]
  /\ UNCHANGED <<host, shown, stale, faults>>

(* Stop joins the worker, which has begun, before the destructor of TI_Gpu clears the screen. *)
Stop == /\ host = "running" /\ host' = "stopped"
        /\ UNCHANGED <<prev, wire, shown, last, stale, faults>>
Exit_Silent == host = "stopped" /\ host' = "off" /\ UNCHANGED <<prev, wire, shown, last, stale, faults>>
Exit == /\ host = "stopped" /\ Room(1) /\ Write(ClearScreen)
        /\ host' = "off"
        /\ UNCHANGED <<prev, shown, last, stale, faults>>

-----------------------------------------------------------------------------
(* The OSD: serialMAVCheck; "garbage" is what a float out of range leaves in an int16_t. *)
Convert(kind, value, garbage) ==
  CASE kind = "speed" -> IF value <= ShortMax THEN value ELSE garbage
    [] kind = "altitude" -> value
    [] kind = "voltage" -> value \div 100
    [] kind = "attitude" -> [value EXCEPT !.pitch = -@]
Taken(m, garbage) ==
  [k \in Kinds |-> IF k \in DOMAIN m THEN Convert(k, m[k], garbage) ELSE shown[k]]

Deliver == /\ wire # <<>> /\ wire' = Tail(wire)
           /\ \E garbage \in Overflowed : shown' = Taken(Head(wire), garbage)
           /\ stale' = stale \ DOMAIN Head(wire)
           /\ UNCHANGED <<host, prev, last, faults>>

Fault == faults < MaxFaults /\ faults' = faults + 1
Lose == /\ Fault /\ wire # <<>> /\ wire' = Tail(wire)
        /\ stale' = stale \cup DOMAIN Head(wire)
        /\ UNCHANGED <<host, prev, shown, last>>
Restart == /\ Fault /\ shown' = Zero /\ stale' = Kinds
           /\ UNCHANGED <<host, prev, wire, last>>

-----------------------------------------------------------------------------
Init == /\ host = "off" /\ prev = Zero /\ wire = <<>> /\ shown = Zero /\ last = Zero
        /\ stale = {} /\ faults = 0

Next == \/ Start \/ Begin \/ Stop \/ Exit \/ Deliver \/ Lose \/ Restart
        \/ \E kind \in Kinds : \E value \in Reported[kind] : Receive(kind, value)

Spec == Init /\ [][Next]_vars
(* The UART drains the line whatever the OSD does. *)
FairSpec == Spec /\ WF_vars(Deliver)

-----------------------------------------------------------------------------
Carried == [speed |-> Nat, altitude |-> Nat, voltage |-> 0..65535,
            attitude |-> [roll : Int, pitch : Int, yaw : Int]]
TypeOK ==
  /\ host \in {"off", "starting", "running", "stopped"}
  /\ \A k \in Kinds : {prev[k], last[k]} \subseteq Reported[k] \cup {Zero[k]}
  /\ \A i \in DOMAIN wire : \A k \in DOMAIN wire[i] : k \in Kinds /\ wire[i][k] \in Carried[k]
  /\ shown.speed \in (-ShortMax - 1)..ShortMax /\ shown.voltage \in 0..655
  /\ stale \subseteq Kinds /\ faults \in 0..MaxFaults

(* The number the screen owes the pilot for a reported one. *)
Due(k, value) ==
  CASE k = "speed" -> NotNegative(value)
    [] k = "altitude" -> NotNegative(value)
    [] k = "voltage" -> Within(value, 65535) \div 100
    [] k = "attitude" -> [value EXCEPT !.pitch = -@]

(* Once the line is drained the screen shows the last number reported of every kind that
   no fault has touched since, although nothing is sent when a number repeats and although
   every VFR_HUD overwrites both speed and altitude; an air speed beyond the 327 m/s an
   int16_t holds is the exception. *)
ShownIsLast ==
  host = "running" /\ wire = <<>> =>
    \A k \in Kinds \ stale :
      shown[k] = Due(k, last[k]) \/ (k = "speed" /\ last.speed > ShortMax)

(* After the host's end no number of it stays on the screen. *)
ZeroAfterExit == host = "off" /\ wire = <<>> => \A k \in Kinds \ stale : shown[k] = Zero[k]

(* What is wrong on the screen is repaired by the next changes: as long as the altitude
   keeps changing, faults do not leave a wrong altitude, nor a wrong speed, for ever. *)
Climbing == \E v \in Altitudes : v # prev.altitude /\ Receive("altitude", v)
Repaired == []<><<Climbing>>_vars => []<>(stale \cap {"speed", "altitude"} = {})
=============================================================================
