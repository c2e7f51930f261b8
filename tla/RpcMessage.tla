------------------------------ MODULE RpcMessage ------------------------------
(***************************************************************************)
(* How a request reaches the callback of an RPC server and how the answer  *)
(* comes back (unp_rpc.cc): the packers of both protocols, and Receive,    *)
(* which puts a message together from what recv returns, one half of it at *)
(* a time.  Requests of both protocols come on one connection, the next    *)
(* after the answer to the one before.                                     *)
(*                                                                         *)
(* A message is a sequence of bytes.  A number is the sequence of its      *)
(* bytes, high byte first, each printed as one digit; the fields of the    *)
(* binary header are one unit each.  The callback answers with the         *)
(* arguments it got.  int32_t, int64_t and double are packed like          *)
(* uint32_t and, in eight bytes, correctly.                                *)
(***************************************************************************)
EXTENDS Integers, Sequences, FiniteSets, SequencesExt, FiniteSetsExt

CONSTANTS Arguments,       \* of each protocol, "bin" and "txt": the arguments a request may have
          LineEnds,        \* what a line may be ended with
          Initial, Reserve \* the buffer's size at first, and what it grows by beyond its need
MessageAssumption == Initial >= 4 /\ Reserve \in Nat \ {0}

Tab == 9
Lf == 10
Cr == 13
Space == 32
Quote == 34
Backslash == 92
Digit0 == 48
Digit1 == 49
HexMark == 120
Prefix == 176
Telnet == 255
Method == 42
Cmd == 1
HeaderSize == 4
Byte == 0..255

VARIABLES client,          \* "idle" or "waits"
          asked,           \* the client's request: protocol, arguments, how many of them it sent
          wire,            \* sent to the server and not yet read
          phase,           \* where Receive is
          buf, size,       \* its buffer: what is filled of it, and its size
          moved,           \* the buffer grew since h, the pointer to its first byte, was taken
          packer,          \* the request's protocol
          answer,          \* the protocol of the answer's RPC_Args
          got, parseError, \* what the callback took from its arguments
          reply

vars == <<client, asked, wire, phase, buf, size, moved, packer, answer, got, parseError, reply>>

-----------------------------------------------------------------------------
(* RPC_MessagePacker_Bin. *)
Low(v) == SubSeq(v, Len(v) - 3, Len(v))
PutVarBin(a) ==
  CASE a.type = "uint32" -> a.v
    [] a.type = "uint64" -> Low(a.v) \o <<0, 0, 0, 0>>     \* htobe32
    [] a.type = "string" -> a.v \o <<0>>

Width(type) == IF type = "uint32" THEN 4 ELSE 8
Wrong == [ok |-> FALSE]
Taken(v, rest) == [ok |-> TRUE, v |-> v, rest |-> rest]
After(s, n) == SubSeq(s, n + 1, Len(s))

GetVarBin(type, s) ==
  LET end == SelectInSeq(s, LAMBDA b : b = 0)
      n == Width(type)
  IN CASE type = "string" -> IF end = 0 THEN Wrong ELSE Taken(SubSeq(s, 1, end - 1), After(s, end))
       [] type # "string" -> IF Len(s) < n THEN Wrong ELSE Taken(SubSeq(s, 1, n), After(s, n))

(* RPC_MessagePacker_Txt. *)
IsSpace(b) == b \in {Tab, Lf, Cr, Space}
IsDigit(b) == b \in {Digit0, Digit1}
Shown(v) == LET first == SelectInSeq(v, LAMBDA b : b # 0)
                digits == IF first = 0 THEN <<0>> ELSE After(v, first - 1)
            IN <<Digit0, HexMark>> \o [i \in DOMAIN digits |-> Digit0 + digits[i]]

Escaped(s) == FlattenSeq([i \in DOMAIN s |-> IF s[i] = Quote THEN <<Backslash, Quote>> ELSE <<s[i]>>])
PutVarTxt(a) == IF a.type = "string" THEN <<Quote>> \o Escaped(a.v) \o <<Quote, Space>>
                                     ELSE Shown(a.v) \o <<Tab>>

(* GetVar_e: the text of the next value.  An escape is taken out of the buffer, whose rest
   moves up; its end stays where it was and repeats the last byte. *)
Plain(s, begin) ==
  LET end == begin + SelectInSeq(After(s, begin), IsSpace)
  IN IF end = begin THEN Wrong ELSE Taken(SubSeq(s, begin, end - 1), After(s, end))

Slashes(s, i) == i - 1 - Max({0} \cup {j \in 1..(i - 1) : s[j] # Backslash})     \* just before i
InEsc(s, i) == Slashes(s, i) % 2 = 1
Quoted(s, begin) ==
  LET t == After(s, begin)
      ends == {i \in DOMAIN t : t[i] = Quote /\ ~InEsc(t, i)}
      end == Min(ends)
      escapes == {i \in 1..(end - 1) : t[i] = Backslash /\ ~InEsc(t, i)}
  IN IF ends = {} THEN Wrong
     ELSE Taken(FlattenSeq([i \in 1..(end - 1) |-> IF i \in escapes THEN <<>> ELSE <<t[i]>>]),
                After(t, end) \o [i \in 1..Cardinality(escapes) |-> Last(s)])

Value(s, extended) ==
  LET begin == SelectInSeq(s, LAMBDA b : ~IsSpace(b))
  IN IF Len(s) <= 1 \/ begin = 0 THEN Wrong
     ELSE IF extended /\ s[begin] = Quote THEN Quoted(s, begin) ELSE Plain(s, begin)

(* strtoul. *)
Number(text, n) ==
  LET digits == IF Len(text) > 2 /\ text[2] = HexMark THEN After(text, 2) ELSE text
  IN IF ~IsDigit(text[1]) THEN Wrong
     ELSE Taken([i \in 1..n |-> IF i <= n - Len(digits) THEN 0
                                ELSE digits[i - n + Len(digits)] - Digit0], <<>>)
GetVarTxt(type, s) ==
  LET text == Value(s, type = "string")
      number == Number(text.v, Width(type))
  IN IF ~text.ok \/ type = "string" THEN text
     ELSE IF number.ok THEN Taken(number.v, text.rest) ELSE Wrong

-----------------------------------------------------------------------------
(* RPC_Args: after an error every further value is the default. *)
Default(type) == IF type = "string" THEN <<>> ELSE [i \in 1..Width(type) |-> 0]
GetVar(p, type, s) == IF p = "bin" THEN GetVarBin(type, s) ELSE GetVarTxt(type, s)

ShiftRight(p, g, type) ==
  LET r == GetVar(p, type, g.rest)
  IN IF ~g.error /\ r.ok THEN [g EXCEPT !.values = Append(@, r.v), !.rest = r.rest]
     ELSE [g EXCEPT !.values = Append(@, Default(type)), !.error = TRUE]
Take(p, types, s) == FoldLeft(LAMBDA g, type : ShiftRight(p, g, type),
                              [values |-> <<>>, rest |-> s, error |-> FALSE], types)

Types(args) == [i \in DOMAIN args |-> args[i].type]
Values(args) == [i \in DOMAIN args |-> args[i].v]
Packed(p, args) == FlattenSeq([i \in DOMAIN args |-> IF p = "bin" THEN PutVarBin(args[i])
                                                                ELSE PutVarTxt(args[i])])
Header(data) == <<Prefix, Method, Cmd, Len(data)>>

(* What is in the answer before its first value: Clear leaves room for the binary header. *)
Cleared(p) == IF p = "bin" THEN <<Prefix, Method, Cmd, 0>> ELSE <<>>

(* Send. *)
Sent(p, s) == IF p = "bin" THEN Header(After(s, HeaderSize)) \o After(s, HeaderSize)
              ELSE IF s = <<>> THEN <<Lf>> ELSE Front(s) \o <<Lf>>

(* A line as its description has it: strings in quotes, in which a backslash escapes. *)
Written(a) == IF a.type # "string" THEN Shown(a.v)
              ELSE <<Quote>> \o FlattenSeq([i \in DOMAIN a.v |->
                                  IF a.v[i] \in {Quote, Backslash} THEN <<Backslash, a.v[i]>>
                                                                   ELSE <<a.v[i]>>])
                   \o <<Quote>>
Line(args, end) == <<Digit1>> \o FlattenSeq([i \in DOMAIN args |-> <<Space>> \o Written(args[i])])
                   \o end

-----------------------------------------------------------------------------
Nothing == [p |-> "bin", args |-> <<>>, n |-> 0]
Init == /\ client = "idle" /\ asked = Nothing /\ wire = <<>>
        /\ phase = "first" /\ buf = <<>> /\ size = Initial /\ moved = FALSE
        /\ packer = "bin" /\ answer = "bin"
        /\ got = <<>> /\ parseError = FALSE /\ reply = <<>>

(* The client sends the first n of the arguments its method has. *)
Ask == /\ client = "idle" /\ client' = "waits"
       /\ \E p \in {"bin", "txt"} : \E args \in Arguments[p] : \E n \in 0..Len(args) :
            LET given == SubSeq(args, 1, n) IN
              /\ asked' = [p |-> p, args |-> args, n |-> n]
              /\ \/ p = "bin" /\ wire' = wire \o Header(Packed(p, given)) \o Packed(p, given)
                 \/ p = "txt" /\ \E end \in LineEnds, option \in {<<>>, <<Telnet, 244>>} :
                                   wire' = wire \o option \o Line(given, end)
       /\ UNCHANGED <<phase, buf, size, moved, packer, answer, got, parseError, reply>>

GetReply == /\ client = "waits" /\ reply # <<>>
            /\ client' = "idle" /\ reply' = <<>> /\ got' = <<>> /\ parseError' = FALSE
            /\ asked' = Nothing
            /\ UNCHANGED <<wire, phase, buf, size, moved, packer, answer>>

Reads(s, n) == buf' = s \o SubSeq(wire, 1, n) /\ wire' = After(wire, n)
rest == <<client, asked, answer, got, parseError, reply>>

(* Receive: the first recv tells the protocol. *)
IsAscii(b) == b < 128
First == /\ phase = "first" /\ wire # <<>>
         /\ \E n \in 1..Min({Len(wire), size}) : Reads(<<>>, n)
         /\ IF IsAscii(wire[1]) \/ wire[1] = Telnet THEN packer' = "txt" /\ phase' = "line"
                                                    ELSE packer' = "bin" /\ phase' = "header"
         /\ moved' = FALSE
         /\ UNCHANGED <<rest, size>>

IsEol(b) == b \in {Lf, Cr, 0}
Resize(n) == size' = IF n > size THEN n + Reserve ELSE size

(* A line grows until what was read ends with its end. *)
MoreLine_Tight == /\ phase = "line" /\ ~IsEol(Last(buf)) /\ wire # <<>>
                  /\ IF Len(buf) > size THEN Resize(Len(buf) + Reserve) ELSE UNCHANGED size
                  /\ IF size' = Len(buf) THEN phase' = "closed" /\ UNCHANGED <<buf, wire>>
                     ELSE /\ \E n \in 1..Min({Len(wire), size' - Len(buf)}) : Reads(buf, n)
                          /\ UNCHANGED phase
                  /\ moved' = (moved \/ size' # size)
                  /\ UNCHANGED <<rest, packer>>
MoreLine == /\ phase = "line" /\ ~IsEol(Last(buf)) /\ wire # <<>>
            /\ IF Len(buf) >= size THEN Resize(Len(buf) + Reserve) ELSE UNCHANGED size
            /\ \E n \in 1..Min({Len(wire), size' - Len(buf)}) : Reads(buf, n)
            /\ moved' = (moved \/ size' # size)
            /\ UNCHANGED <<rest, packer, phase>>

EndOfLine == /\ phase = "line" /\ IsEol(Last(buf))
             /\ buf' = Front(buf) \o <<Space>> /\ phase' = "command"
             /\ UNCHANGED <<rest, wire, size, moved, packer>>

(* h->prefix: when the buffer has grown, h may point into freed memory, which holds anything. *)
PrefixRead == IF moved THEN Byte ELSE {buf[1]}

(* What telnet sent before the text is skipped; then the command is taken. *)
Command == /\ phase = "command"
           /\ \E prefix \in PrefixRead :
                LET skip == IF prefix = Telnet THEN SelectLastInSeq(buf, LAMBDA b : ~IsAscii(b)) ELSE 0
                    r == GetVarTxt("uint32", After(buf, skip))
                IN IF r.ok THEN phase' = "call" /\ buf' = r.rest
                           ELSE phase' = "closed" /\ UNCHANGED buf
           /\ UNCHANGED <<rest, wire, size, moved, packer>>

(* The rest of the header and of the data, which must end with the message. *)
MoreHeader == /\ phase = "header"
              /\ LET n == IF Len(buf) < HeaderSize THEN HeaderSize - Len(buf) ELSE 0
                 IN Len(wire) >= n /\ Reads(buf, n)
              /\ phase' = "data"
              /\ UNCHANGED <<rest, size, moved, packer>>
MoreData == /\ phase = "data"
            /\ LET count == HeaderSize + buf[4]
                   n == IF Len(buf) < count THEN count - Len(buf) ELSE 0
               IN IF Len(buf) > count THEN phase' = "closed" /\ UNCHANGED <<buf, wire, size>>
                  ELSE /\ Len(wire) >= n /\ Resize(count)
                       /\ buf' = After(buf \o SubSeq(wire, 1, n), HeaderSize)
                       /\ wire' = After(wire, n) /\ phase' = "call"
            /\ moved' = (moved \/ size' # size)
            /\ UNCHANGED <<rest, packer>>

(* RPC_Server_CmdHandle_th: the answer takes the request's protocol and is cleared, the
   callback is called, the answer sent. *)
Handle ==
  /\ phase = "call" /\ phase' = "first"
  /\ LET types == Types(asked.args)
         g == Take(packer, types, buf)
         back == [i \in DOMAIN types |-> [type |-> types[i], v |-> g.values[i]]]
     IN /\ got' = g.values /\ parseError' = g.error
        /\ reply' = Sent(packer, Cleared(packer) \o Packed(packer, back))
  /\ answer' = packer /\ buf' = <<>>
  /\ UNCHANGED <<client, asked, wire, size, moved, packer>>

(* After an error the handler ends, with the connection and both messages; the client's next
   request comes on a new one. *)
Reconnect == /\ phase = "closed" /\ phase' = "first"
             /\ client' = "idle" /\ asked' = Nothing /\ wire' = <<>>
             /\ buf' = <<>> /\ size' = Initial /\ moved' = FALSE
             /\ packer' = "bin" /\ answer' = "bin"
             /\ UNCHANGED <<got, parseError, reply>>

Server == First \/ MoreLine \/ EndOfLine \/ Command \/ MoreHeader \/ MoreData \/ Handle
Next == Ask \/ GetReply \/ Server \/ Reconnect

Spec == Init /\ [][Next]_vars

-----------------------------------------------------------------------------
TypeOK == /\ client \in {"idle", "waits"} /\ asked.n \in 0..Len(asked.args)
          /\ wire \in Seq(Byte) /\ buf \in Seq(Byte) /\ reply \in Seq(Byte)
          /\ phase \in {"first", "line", "command", "header", "data", "call", "closed"}
          /\ Len(buf) <= size
          /\ moved \in BOOLEAN /\ packer \in {"bin", "txt"} /\ answer \in {"bin", "txt"}
          /\ parseError \in BOOLEAN

(* However a request is cut by the network, and whatever came before it on the connection,
   the callback gets the arguments the client gave and the defaults for those it did not,
   with parseError telling so. *)
Understood == reply # <<>> =>
                LET all == asked.args IN
                  /\ got = [i \in DOMAIN all |-> IF i <= asked.n THEN all[i].v
                                                 ELSE Default(all[i].type)]
                  /\ parseError = (asked.n < Len(all))

(* The client takes from the answer what the callback put into it. *)
Echo == Take(asked.p, Types(asked.args),
             IF asked.p = "bin" THEN After(reply, HeaderSize) ELSE Front(reply) \o <<Space>>)
Echoed == reply # <<>> => /\ Echo.values = got /\ ~Echo.error
                          /\ asked.p = "bin" => reply[4] = Len(reply) - HeaderSize

(* The server closes the connection on no request but a line that telnet's options begin and
   that outgrew the buffer; that it does not wait for more of one than there is, is the absence
   of deadlock. *)
Served == phase = "closed" => moved /\ buf[1] = Telnet

(* Without the exception: the text protocol can be used through telnet (unp_rpc.h, line 15). *)
TelnetServed == phase # "closed"
===============================================================================
