------------------------------- MODULE MCLibrary ------------------------------
(***************************************************************************)
(* Two parts of the host's library that are checked one by one: requests   *)
(* and answers of the RPC server as bytes of a stream, and the log file.   *)
(* They share no state, so that a behaviour is about one of Parts, and the *)
(* variables of the other stay 0.                                          *)
(***************************************************************************)
EXTENDS LogPart, Integers, Sequences

CONSTANTS Parts,      \* subset of {"rpc", "long", "slash", "line", "log"}
          Initial     \* the size of the RPC server's buffer at first

VARIABLES client, asked, wire, phase, buf, size, moved, packer, answer, got, parseError, reply

rpcVars == <<client, asked, wire, phase, buf, size, moved, packer, answer, got, parseError, reply>>
logVars == <<now, truncBefore, file, backups, pc, recordsCount, last, at, listed, doomed, ok,
             failures, excess, overwritten>>
vars == <<part, rpcVars, logVars>>

-----------------------------------------------------------------------------
(* Requests of up to two arguments. *)
Numbers == {[type |-> "uint32", v |-> v] : v \in {<<0, 0, 0, 0>>, <<0, 1, 1, 0>>}}
Longs == {[type |-> "uint64", v |-> <<0, 1, 0, 0, 0, 0, 1, 0>>]}
Letter == 97
Space == 32
Quote == 34
Backslash == 92
Lf == 10
Cr == 13
Strings == {[type |-> "string", v |-> v] : v \in {<<>>, <<Letter>>, <<Space, Quote>>}}
Slashed == {[type |-> "string", v |-> v] : v \in {<<Backslash>>, <<Backslash, Quote, Letter>>}}

UpToTwo(S) == {<<>>} \cup {<<a>> : a \in S} \cup {<<a, b>> : a \in S, b \in S}
Requests(bin, txt) == [bin |-> UpToTwo(bin), txt |-> UpToTwo(txt)]

(* Of the texts, those the code can read: no eight-byte numbers and no backslashes. *)
Rpc == INSTANCE RpcMessage
         WITH Arguments <- Requests(Numbers \cup Strings \cup Slashed, Numbers \cup Longs \cup Strings),
              LineEnds <- {<<Lf>>}, Reserve <- 2
LongRpc == INSTANCE RpcMessage
             WITH Arguments <- Requests(Longs, Numbers), LineEnds <- {<<Lf>>}, Reserve <- 2
SlashRpc == INSTANCE RpcMessage
              WITH Arguments <- Requests(Numbers, Strings \cup Slashed), LineEnds <- {<<Lf>>},
                   Reserve <- 2
LineRpc == INSTANCE RpcMessage
             WITH Arguments <- Requests(Numbers, Strings), LineEnds <- {<<Cr, Lf>>}, Reserve <- 2

ASSUME PartsAssumption == Rpc!MessageAssumption /\ Log!LogAssumption

-----------------------------------------------------------------------------
Init ==
  /\ part \in Parts
  /\ IF part # "log" THEN Rpc!Init
     ELSE /\ client = 0 /\ asked = 0 /\ wire = 0 /\ phase = 0 /\ buf = 0 /\ size = 0
          /\ moved = 0 /\ packer = 0 /\ answer = 0 /\ got = 0 /\ parseError = 0 /\ reply = 0
  /\ IF part = "log" THEN Log!Init
     ELSE /\ now = 0 /\ truncBefore = 0 /\ file = 0 /\ backups = 0 /\ pc = 0
          /\ recordsCount = 0 /\ last = 0 /\ at = 0 /\ listed = 0 /\ doomed = 0 /\ ok = 0
          /\ failures = 0 /\ excess = 0 /\ overwritten = 0

RpcStep == /\ \/ part = "rpc" /\ Rpc!Next
              \/ part = "long" /\ LongRpc!Next
              \/ part = "slash" /\ SlashRpc!Next
              \/ part = "line" /\ LineRpc!Next
           /\ UNCHANGED <<part, logVars>>
LogStep == part = "log" /\ Log!Next /\ UNCHANGED <<part, rpcVars>>
Next == RpcStep \/ LogStep
Spec == Init /\ [][Next]_vars

-----------------------------------------------------------------------------
(* However a request is cut by the network, and whatever came before it on the connection,
   the callback gets the client's arguments, the client the callback's answer, and the server
   keeps the connection; it may close it only on a line that telnet's options begin and that
   outgrew the buffer (unp_rpc.cc:82-600). *)
RequestsServed == part = "rpc" => Rpc!Understood /\ Rpc!Echoed /\ Rpc!Served

(* Properties that documents state and the code does not have. *)
LongsUnderstood == part = "long" => LongRpc!Understood
SlashesEchoed == part = "slash" => SlashRpc!Echoed
LinesServed == part = "line" => LineRpc!Served
TelnetServed == part = "rpc" => Rpc!TelnetServed
FileBounded == part = "log" => Log!FileBounded
NeverMoreBackups == part = "log" => Log!NeverMoreBackups
BackedUp == [][part = "log" /\ pc # "none" /\ file # {} /\ file' = {}
                 => \E t \in DOMAIN backups : backups'[t] = file]_vars
NoneOverwritten == [][part = "log" => \A t \in DOMAIN backups :
                        backups[t] # {} => backups'[t] \in {backups[t], {}}]_vars
===============================================================================
