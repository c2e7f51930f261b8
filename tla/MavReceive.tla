------------------------------ MODULE MavReceive ------------------------------
(***************************************************************************)
(* The OSD's receiver: serialMAVreceive takes MAVLink frames apart byte by *)
(* byte (SerialMAVLINK.ino), and displayMessage picks up the text of the   *)
(* last ENCAPSULATED_DATA frame between two bytes (Screen.ino).  The line  *)
(* may drop or falsify bytes, so that any byte may be taken for any field  *)
(* of a frame.                                                             *)
(*                                                                         *)
(* A byte is its value and, for the two checksum bytes of a frame, what it *)
(* is the checksum of: the CRC tells the frames of the model apart.        *)
(***************************************************************************)
EXTENDS Integers, Sequences

CONSTANTS Wrap,             \* values of a byte, 256 in the code
          SERIALBUFFERSIZE,
          Named, Encapsulated,        \* message ids: a short message, and the text
          NamedLength,
          NamedPayloads, Wipes,       \* the short messages, and those of them that are 'CS'
          Texts,
          MaxFaults         \* bound: bytes lost or falsified, and restarts

ASSUME ReceiveAssumption ==
  /\ Wrap \in Nat /\ Wrap >= 5 /\ SERIALBUFFERSIZE \in 1..(Wrap - 1)
  /\ {Named, Encapsulated} \subseteq 0..(Wrap - 1) /\ Named # Encapsulated
  /\ NamedLength \in 1..(SERIALBUFFERSIZE - 1)
  /\ NamedPayloads \subseteq [1..NamedLength -> 0..(Wrap - 1)]
  /\ Wipes \subseteq NamedPayloads
  /\ Texts \subseteq [1..(Wrap - 3) -> 0..(Wrap - 1)]
  /\ MaxFaults \in Nat

Values == 0..(Wrap - 1)
Start == Wrap - 2                 \* 0xFE
EncLength == Wrap - 1             \* MAVLINK_MSG_ID_ENCAPSULATED_DATA_LEN, 255
TextSize == EncLength - 2         \* encData
Known == {Named, Encapsulated}
Length(id) == IF id = Named THEN NamedLength ELSE EncLength

VARIABLES line,       \* bytes of the frame under way still to come
          current,    \* history: that frame's message
          state, length, id, index, magic,   \* mav_state, message_length, ...
          sum,        \* the bytes serial_checksum was computed over
          low,        \* low byte of mav_checksum_rcv
          serialBuffer, encData, encDataReady,
          clear_debug,
          localData,  \* the text of the message line
          shown,      \* what displayMessage drew of it last
          handled,    \* history: what serialMAVCheck was called with in this frame
          clean,      \* history: this frame met an idle receiver and is undamaged
          faults      \* history: bytes lost or falsified, and restarts

vars == <<line, current, state, length, id, index, magic, sum, low, serialBuffer, encData,
          encDataReady, clear_debug, localData, shown, handled, clean, faults>>
header == <<length, id, magic, low>>
contents == <<serialBuffer, encData, encDataReady>>
display == <<localData, shown>>
history == <<current, clean, faults>>

None == [id |-> -1, payload |-> <<>>]
Message(i, payload) == [id |-> i, payload |-> payload]
Empty == [k \in 1..TextSize |-> 0]
Spaces == [k \in 1..TextSize |-> 32 % Wrap]   \* setup() fills localData with spaces

-----------------------------------------------------------------------------
(* The host's frames: start, length, sequence number, system, component, id, payload. *)
Plain(v) == [v |-> v, of |-> <<>>]
Check(bytes, half) == [v |-> 0, of |-> <<half>> \o bytes]
Packed(m) ==
  LET covered == <<Len(m.payload), 0, 0, 0, m.id>> \o m.payload
      checked == covered \o <<m.id>>     \* the CRC_EXTRA of each id
  IN [k \in 1..(Len(covered) + 1) |-> IF k = 1 THEN Plain(Start) ELSE Plain(covered[k - 1])]
     \o <<Check(checked, 0), Check(checked, 1)>>

Sendable == {Message(Named, p) : p \in NamedPayloads}
            \cup {Message(Encapsulated, <<0, 0>> \o t) : t \in Texts}

Send == /\ line = <<>>
        /\ current' \in Sendable /\ line' = Packed(current')
        /\ handled' = None /\ clean' = (state = "idle")
        /\ UNCHANGED <<state, header, index, sum, contents, clear_debug, display, faults>>

-----------------------------------------------------------------------------
(* serialMAVreceive: one action per state; every byte but the start, and those of the
   checksum, is added to the checksum. *)
Receive(from) == /\ state = from /\ line # <<>> /\ line' = Tail(line)
                 /\ UNCHANGED <<display, history>>
byte == Head(line).v
Summed == sum' = Append(sum, byte)

Idle == /\ Receive("idle")
        /\ IF byte = Start
           THEN state' = "start" /\ sum' = <<>> /\ index' = 0
           ELSE UNCHANGED <<state, sum, index>>
        /\ UNCHANGED <<header, contents, clear_debug, handled>>

HeaderStart_Short == /\ Receive("start") /\ Summed /\ length' = byte
                     /\ state' = IF byte >= SERIALBUFFERSIZE THEN "idle" ELSE "len"
                     /\ UNCHANGED <<id, magic, low, index, contents, clear_debug, handled>>
HeaderStart == /\ Receive("start") /\ Summed /\ length' = byte
               /\ state' = IF byte >= SERIALBUFFERSIZE /\ byte # EncLength THEN "idle" ELSE "len"
               /\ UNCHANGED <<id, magic, low, index, contents, clear_debug, handled>>

(* Sequence number, system and component are not looked at (MAV_ALL, MAV_COMP_ALL). *)
Skip == \E step \in {<<"len", "seq">>, <<"seq", "sys">>, <<"sys", "comp">>} :
          /\ Receive(step[1]) /\ Summed /\ state' = step[2]
          /\ UNCHANGED <<header, index, contents, clear_debug, handled>>

(* The id must have the length announced.  For an unknown id the code compares with an
   uninitialized variable. *)
HeaderComp == /\ Receive("comp") /\ Summed /\ id' = byte
              /\ IF byte \in Known
                 THEN magic' = byte /\ state' = IF length = Length(byte) THEN "payload" ELSE "idle"
                 ELSE UNCHANGED magic /\ state' \in {"payload", "idle"}
              /\ UNCHANGED <<length, low, index, contents, clear_debug, handled>>

Payload == /\ Receive("payload") /\ Summed
           /\ IF id = Encapsulated
              THEN /\ encDataReady' = FALSE
                   /\ encData' = IF index - 1 \in 1..TextSize
                                 THEN [encData EXCEPT ![index - 1] = byte] ELSE encData
                   /\ UNCHANGED serialBuffer
              ELSE /\ serialBuffer' = IF index < SERIALBUFFERSIZE
                                      THEN [serialBuffer EXCEPT ![index + 1] = byte] ELSE serialBuffer
                   /\ UNCHANGED <<encData, encDataReady>>
           /\ index' = (index + 1) % Wrap
           /\ state' = IF index' = length THEN "checksum" ELSE state
           /\ UNCHANGED <<header, clear_debug, handled>>

ChecksumLow == /\ Receive("checksum") /\ index = length
               /\ low' = Head(line) /\ index' = (index + 1) % Wrap
               /\ UNCHANGED <<state, length, id, magic, sum, contents, clear_debug, handled>>

(* What serialMAVCheck reads of the message. *)
Taken == Message(id, IF id = Encapsulated THEN <<0, 0>> \o encData ELSE SubSeq(serialBuffer, 1, length))
Matches_Low == low = Check(Append(sum, magic), 0)
Matches == LET checked == Append(sum, magic)
           IN low = Check(checked, 0) /\ Head(line) = Check(checked, 1)
ChecksumHigh == /\ Receive("checksum") /\ index # length
                /\ state' = "idle" /\ sum' = Append(sum, magic)
                /\ IF Matches
                   THEN /\ encDataReady' = TRUE /\ handled' = Taken
                        /\ clear_debug' = IF id = Encapsulated THEN FALSE
                                          ELSE clear_debug \/ Taken.payload \in Wipes
                   ELSE UNCHANGED <<encDataReady, clear_debug, handled>>
                /\ UNCHANGED <<header, index, serialBuffer, encData>>

(* displayMessage, between two bytes: a text that is not drawn is blank in the next picture. *)
Show(text) == /\ localData' = text
              /\ shown' = IF clear_debug THEN Spaces ELSE text
              /\ UNCHANGED <<line, history, state, header, index, sum, contents, clear_debug, handled>>
DisplayMessage_Always == Show(encData)
DisplayMessage == Show(IF encDataReady THEN encData ELSE localData)

-----------------------------------------------------------------------------
(* The line. *)
Fault == faults < MaxFaults /\ faults' = faults + 1 /\ clean' = FALSE
Damage == /\ line # <<>> /\ Fault
          /\ UNCHANGED <<current, state, header, index, sum, contents, clear_debug, display, handled>>
Drop == Damage /\ line' = Tail(line)
Falsify == Damage /\ \E v \in Values \ {byte} : line' = <<Plain(v)>> \o Tail(line)

(* The firmware starts again in the middle of a frame. *)
Restart == /\ Fault
           /\ state' = "idle" /\ length' = 0 /\ id' = 0 /\ index' = 0 /\ magic' = 0
           /\ sum' = <<>> /\ low' = Plain(0)
           /\ serialBuffer' = [k \in 1..SERIALBUFFERSIZE |-> 0]
           /\ encData' = Empty /\ encDataReady' = FALSE
           /\ clear_debug' = TRUE /\ localData' = Spaces /\ shown' = Spaces
           /\ UNCHANGED <<line, current, handled>>

Init == /\ line = <<>> /\ current = None
        /\ state = "idle" /\ length = 0 /\ id = 0 /\ index = 0 /\ magic = 0
        /\ sum = <<>> /\ low = Plain(0)
        /\ serialBuffer = [k \in 1..SERIALBUFFERSIZE |-> 0]
        /\ encData = Empty /\ encDataReady = FALSE
        /\ clear_debug = TRUE /\ localData = Spaces /\ shown = Spaces
        /\ handled = None /\ clean = FALSE /\ faults = 0

Next == \/ Send \/ Idle \/ HeaderStart \/ Skip \/ HeaderComp \/ Payload
        \/ ChecksumLow \/ ChecksumHigh \/ DisplayMessage \/ Drop \/ Falsify \/ Restart

Spec == Init /\ [][Next]_vars

-----------------------------------------------------------------------------
(* Within the contents of a message the checksum covers the five bytes of the header and
   every byte up to the index, which never passes the length announced. *)
TypeOK ==
  /\ state \in {"idle", "start", "len", "seq", "sys", "comp", "payload", "checksum"}
  /\ {length, id, index} \subseteq Values /\ magic \in Known \cup {0}
  /\ sum \in Seq(Values)
  /\ state = "start" => index = 0 /\ sum = <<>>
  /\ state = "payload" => Len(sum) = 5 + index /\ (index < length \/ length = 0)
  /\ state = "checksum" /\ index = length => Len(sum) = 5 + (IF length = 0 THEN Wrap ELSE length)
  /\ serialBuffer \in [1..SERIALBUFFERSIZE -> Values]
  /\ {encData, localData, shown} \subseteq [1..TextSize -> Values]
  /\ encDataReady \in BOOLEAN /\ clear_debug \in BOOLEAN
  /\ handled \in {None} \cup Sendable /\ current \in {None} \cup Sendable

(* Whatever the line does to the bytes, what is handled is the message that was sent,
   with exactly its contents: the buffers hold what the checksum was computed over. *)
HandledWasSent == handled # None => handled = current

(* A frame that reaches an idle receiver undamaged is handled, the longest one, whose
   length is the largest value of the index, too (SerialMAVLINK.ino:727, 898 and 904). *)
CleanHandled == clean /\ line = <<>> => handled = current

(* As long as nothing fails the text shown is always one the host sent, although its
   bytes arrive between the pictures built, or no text at all. *)
TextWhole == faults = 0 => shown \in Texts \cup {Spaces, Empty}

(* The message line shows the string of an ENCAPSULATED_DATA message, or nothing yet. *)
TextWasSent == shown \in Texts \cup {Spaces, Empty}
=============================================================================
