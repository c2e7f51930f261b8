-------------------------------- MODULE MavWire -------------------------------
(***************************************************************************)
(* The layout of messages on the two sides of the line.  The sender packs  *)
(* the fields of a message one after the other, as the MAVLink library     *)
(* does, and checksums them with the message's CRC_EXTRA.  The OSD has a   *)
(* table of lengths and CRC_EXTRAs of its own (GlobalVariables.h), puts    *)
(* the bytes into one buffer that every message shares and that is never   *)
(* cleared, and reads the fields by offsets written into the handlers      *)
(* (SerialMAVLINK.ino).                                                    *)
(*                                                                         *)
(* A byte of the buffer is whether it came with the message last received: *)
(* a handler that reads past the end of its message reads what an earlier  *)
(* one left.                                                               *)
(***************************************************************************)
EXTENDS Integers, Sequences

CONSTANTS Sent,             \* messages that come along the line, a subset of Messages
          SERIALBUFFERSIZE

VARIABLES serialBuffer,  \* per byte: whether it came with the last message
          received,      \* history: the message that was sent last
          handled        \* whether serialMAVCheck was called with it
vars == <<serialBuffer, received, handled>>

-----------------------------------------------------------------------------
(* The library's messages: CRC_EXTRA, and the fields in the order of the wire. *)
Field(name, size) == [name |-> name, nth |-> 0, size |-> size]
Chan(n) == [name |-> "chan", nth |-> n, size |-> 2]
Chans(n) == [i \in 1..n |-> Chan(i)]
TimeBootMs == Field("time_boot_ms", 4)

Heartbeat == [crc |-> 50, fields |->
  <<Field("custom_mode", 4), Field("type", 1), Field("autopilot", 1), Field("base_mode", 1),
    Field("system_status", 1), Field("mavlink_version", 1)>>]
VfrHud == [crc |-> 20, fields |->
  <<Field("airspeed", 4), Field("groundspeed", 4), Field("alt", 4), Field("climb", 4),
    Field("heading", 2), Field("throttle", 2)>>]
Attitude == [crc |-> 39, fields |->
  <<TimeBootMs, Field("roll", 4), Field("pitch", 4), Field("yaw", 4),
    Field("rollspeed", 4), Field("pitchspeed", 4), Field("yawspeed", 4)>>]
GpsRawInt == [crc |-> 24, fields |->
  <<Field("time_usec", 8), Field("lat", 4), Field("lon", 4), Field("alt", 4), Field("eph", 2),
    Field("epv", 2), Field("vel", 2), Field("cog", 2), Field("fix_type", 1),
    Field("satellites_visible", 1)>>]
RcChannelsRaw == [crc |-> 244, fields |->
  <<TimeBootMs>> \o Chans(8) \o <<Field("port", 1), Field("rssi", 1)>>]
RcChannels == [crc |-> 118, fields |->
  <<TimeBootMs>> \o Chans(18) \o <<Field("chancount", 1), Field("rssi", 1)>>]
SysStatus == [crc |-> 124, fields |->
  <<Field("present", 4), Field("enabled", 4), Field("health", 4), Field("load", 2),
    Field("voltage_battery", 2), Field("current_battery", 2), Field("drop_rate_comm", 2),
    Field("errors_comm", 2), Field("errors_count1", 2), Field("errors_count2", 2),
    Field("errors_count3", 2), Field("errors_count4", 2), Field("battery_remaining", 1)>>]
NavControllerOutput == [crc |-> 183, fields |->
  <<Field("nav_roll", 4), Field("nav_pitch", 4), Field("alt_error", 4), Field("aspd_error", 4),
    Field("xtrack_error", 4), Field("nav_bearing", 2), Field("target_bearing", 2),
    Field("wp_dist", 2)>>]
MissionCurrent == [crc |-> 28, fields |-> <<Field("seq", 2)>>]
Pressure == <<TimeBootMs, Field("press_abs", 4), Field("press_diff", 4), Field("temperature", 2)>>
ScaledPressure == [crc |-> 115, fields |-> Pressure]
ScaledPressure2 == [crc |-> 195, fields |-> Pressure]
NamedValueInt == [crc |-> 44, fields |-> <<TimeBootMs, Field("value", 4), Field("name", 10)>>]
EncapsulatedData == [crc |-> 223, fields |-> <<Field("seqnr", 2), Field("data", 253)>>]
StatusText == [crc |-> 83, fields |-> <<Field("severity", 1), Field("text", 50)>>]
SystemTime == [crc |-> 137, fields |-> <<Field("time_unix_usec", 8), TimeBootMs>>]
(* WIND comes from the dialect of one autopilot, not from the library. *)
Wind == [crc |-> 1, fields |-> <<Field("direction", 4), Field("speed", 4), Field("speed_z", 4)>>]

Messages == [HEARTBEAT |-> Heartbeat, VFR_HUD |-> VfrHud, ATTITUDE |-> Attitude,
  GPS_RAW_INT |-> GpsRawInt, RC_CHANNELS_RAW |-> RcChannelsRaw, RC_CHANNELS |-> RcChannels,
  SYS_STATUS |-> SysStatus, NAV_CONTROLLER_OUTPUT |-> NavControllerOutput,
  MISSION_CURRENT |-> MissionCurrent, SCALED_PRESSURE |-> ScaledPressure,
  SCALED_PRESSURE2 |-> ScaledPressure2, NAMED_VALUE_INT |-> NamedValueInt,
  ENCAPSULATED_DATA |-> EncapsulatedData, STATUSTEXT |-> StatusText,
  SYSTEM_TIME |-> SystemTime, WIND |-> Wind]
Names == DOMAIN Messages

(* The shared buffer is longer than the longest message it has to take, STATUSTEXT. *)
WireAssumption == Sent \subseteq Names /\ SERIALBUFFERSIZE \in Nat /\ SERIALBUFFERSIZE > 51

(* Where a message's fields end, hence where the next one starts, and how long it is. *)
Ends(fields) ==
  LET end[i \in 0..Len(fields)] == IF i = 0 THEN 0 ELSE end[i - 1] + fields[i].size
  IN end
Offset(m, i) == Ends(Messages[m].fields)[i - 1]
Length == [m \in Names |-> LET f == Messages[m].fields IN Ends(f)[Len(f)]]

-----------------------------------------------------------------------------
(* The OSD's side: lengths and "magics"... *)
Entry(length, magic) == [length |-> length, magic |-> magic]
Table == [HEARTBEAT |-> Entry(9, 50), VFR_HUD |-> Entry(20, 20), ATTITUDE |-> Entry(28, 39),
  GPS_RAW_INT |-> Entry(30, 24), RC_CHANNELS_RAW |-> Entry(22, 244), RC_CHANNELS |-> Entry(42, 118),
  SYS_STATUS |-> Entry(31, 124), NAV_CONTROLLER_OUTPUT |-> Entry(26, 183),
  MISSION_CURRENT |-> Entry(2, 28), SCALED_PRESSURE |-> Entry(14, 115),
  SCALED_PRESSURE2 |-> Entry(14, 14), NAMED_VALUE_INT |-> Entry(18, 44),
  ENCAPSULATED_DATA |-> Entry(255, 223), STATUSTEXT |-> Entry(51, 83),
  SYSTEM_TIME |-> Entry(12, 137), WIND |-> Entry(12, 1)]

(* ... and what serialMAVCheck reads for each message: a field, from a byte on, so many
   bytes (serialbufferint reads four, of which an assignment to 16 bits keeps two). *)
Read(name, from, size) == [name |-> name, nth |-> 0, from |-> from, size |-> size]
ReadChans_FromThree(n) == {[name |-> "chan", nth |-> i, from |-> 4 + 2 * i, size |-> 2] : i \in 1..n}
ReadChans(n) == {[name |-> "chan", nth |-> i, from |-> 2 + 2 * i, size |-> 2] : i \in 1..n}
Reads(m) ==
  CASE m = "HEARTBEAT" -> {Read("custom_mode", 0, 4), Read("base_mode", 6, 1)}
    [] m = "VFR_HUD" -> {Read("airspeed", 0, 4), Read("groundspeed", 4, 4), Read("alt", 8, 4),
                         Read("climb", 12, 4), Read("heading", 16, 2), Read("throttle", 19, 2)}
    [] m = "ATTITUDE" -> {Read("roll", 4, 4), Read("pitch", 8, 4), Read("yaw", 12, 4)}
    [] m = "GPS_RAW_INT" -> {Read("satellites_visible", 29, 1), Read("fix_type", 28, 1),
                             Read("cog", 26, 2), Read("lat", 8, 4), Read("lon", 12, 4),
                             Read("eph", 20, 2)}
    [] m = "RC_CHANNELS_RAW" -> ReadChans(8) \cup {Read("port", 20, 1), Read("rssi", 21, 1)}
    [] m = "RC_CHANNELS" -> ReadChans(16) \cup {Read("rssi", 41, 1)}
    [] m = "SYS_STATUS" -> {Read("enabled", 4, 4), Read("voltage_battery", 14, 2),
                            Read("current_battery", 16, 2), Read("battery_remaining", 30, 1)}
    [] m = "NAV_CONTROLLER_OUTPUT" -> {Read("wp_dist", 24, 2)}
    [] m = "MISSION_CURRENT" -> {Read("seq", 0, 2)}
    [] m \in {"SCALED_PRESSURE", "SCALED_PRESSURE2"} -> {Read("temperature", 12, 2)}
    [] m = "NAMED_VALUE_INT" -> {Read("time_boot_ms", 0, 4), Read("value", 4, 4), Read("name", 8, 10)}
    [] m = "SYSTEM_TIME" -> {Read("time_unix_usec", 0, 8)}
    [] m = "WIND" -> {Read("direction", 0, 4), Read("speed", 4, 4)}
    [] OTHER -> {}

-----------------------------------------------------------------------------
(* serialMAVreceive, for one whole frame.  A length the buffer cannot take ends it at
   once, except that of the text, which has a buffer of its own. *)
Fits(m) == Length[m] < SERIALBUFFERSIZE \/ m = "ENCAPSULATED_DATA"
Taken(m) == Fits(m) /\ Length[m] = Table[m].length
Buffered(m) == Taken(m) /\ m # "ENCAPSULATED_DATA"
Stored(m, k) == Buffered(m) /\ k < Length[m]

None == "none"

Receive(m) ==
  /\ received' = m
  /\ serialBuffer' = [k \in DOMAIN serialBuffer |-> Stored(m, k)]
  /\ handled' = (Taken(m) /\ Messages[m].crc = Table[m].magic)

Init == /\ serialBuffer = [k \in 0..(SERIALBUFFERSIZE - 1) |-> FALSE]
        /\ received = None /\ handled = FALSE

Next == \E m \in Sent : Receive(m)
Spec == Init /\ [][Next]_vars

-----------------------------------------------------------------------------
(* The bytes of the last message are in the buffer from its first byte on. *)
TypeOK ==
  /\ DOMAIN serialBuffer = 0..(SERIALBUFFERSIZE - 1)
  /\ received \in Sent \cup {None} /\ handled \in BOOLEAN
  /\ \A k \in DOMAIN serialBuffer :
       serialBuffer[k] \in BOOLEAN /\ (serialBuffer[k] => serialBuffer[0])

ReadsOf(m, but) == {r \in Reads(m) : <<m, r.name>> \notin but}
Whole(m, r) ==
  \E i \in DOMAIN Messages[m].fields :
    LET f == Messages[m].fields[i]
    IN f.name = r.name /\ f.nth = r.nth /\ Offset(m, i) = r.from /\ f.size = r.size
Own(r) == \A k \in r.from..(r.from + r.size - 1) : serialBuffer[k]

(* Every message the senders pack passes the OSD's tests of length and checksum
   (SerialMAVLINK.ino:771-872 and 908), and is handled: the two tables of lengths and
   CRC_EXTRAs agree.  SCALED_PRESSURE2 is the exception. *)
EveryKindHandled == received \notin {None, "SCALED_PRESSURE2"} => handled
(* The CRC_EXTRA of SCALED_PRESSURE2 in the OSD's table is the library's, too. *)
Pressure2Handled == received = "SCALED_PRESSURE2" => handled

(* A handler reads only bytes of its own message, and none an earlier, longer message
   left in the buffer; VFR_HUD's throttle is the exception. *)
ReadsOwnMessage == handled => \A r \in ReadsOf(received, {<<"VFR_HUD", "throttle">>}) : Own(r)
(* Each of the handlers' offsets is that of the field meant, and all of its bytes and no
   others are read; VFR_HUD's throttle is the exception. *)
ReadsWholeFields ==
  handled => \A r \in ReadsOf(received, {<<"VFR_HUD", "throttle">>}) : Whole(received, r)
(* mw_mav.throttle, which replaces the RC channel of an armed aircraft, is VFR_HUD's
   throttle (SerialMAVLINK.ino:478 and 486). *)
ThrottleRead == handled /\ received = "VFR_HUD" =>
                  \A r \in Reads("VFR_HUD") : r.name = "throttle" => Own(r) /\ Whole("VFR_HUD", r)
=============================================================================
