------------------------------- MODULE RpcCall --------------------------------
(***************************************************************************)
(* Calls of an RPC client and what the server makes of them               *)
(* (unp_rpc_client.cc, unp_rpc_server_cmd_handle.cc).  The client keeps    *)
(* its connection from call to call; when an attempt fails it closes it    *)
(* and tries again, on a new one.  The server has a handler for every      *)
(* connection, which goes on with a request after its client has given up. *)
(* A method is run and then answered, a signal is answered and then run.   *)
(*                                                                         *)
(* A message is the number of the call it belongs to.  The code compares   *)
(* the command and the type of the answer only: here all calls have one    *)
(* command.  A connection is closed by its client, by its handler's end or *)
(* by the end of the server's process.                                     *)
(***************************************************************************)
EXTENDS Integers, FiniteSets

CONSTANTS MaxCalls,       \* bound: calls made, one after the other
          MaxConns,       \* bound: connections made
          attemptsMax,
          MaxTroubles     \* bound: timeouts, connections dropped, stops and deaths of the server
ASSUME CallAssumption == /\ MaxCalls \in Nat /\ MaxConns \in Nat
                         /\ attemptsMax \in Nat \ {0} /\ MaxTroubles \in Nat

Call == 1..MaxCalls
Conn == 1..MaxConns
None == 0

VARIABLES client,     \* where the client is in Talk
          call,       \* the latest call
          kind,       \* "method" or "signal", of each call
          attempts,   \* in Talk: attempts left, with the one being made
          sock,       \* the client's connection, or None
          opened,     \* connections made
          request, reply,  \* on each connection: what was sent and not yet received
          handler,    \* on each connection: where its handler is, "ended" without one
          work,       \* the request the handler has
          up,         \* the server accepts connections
          result,     \* of each call: what Talk returned
          answer,     \* of each call: the call whose answer it was given
          runs,       \* how often each call was run by the server
          troubles, troubled   \* how many there were, and the calls they met

server == <<handler, work, runs, up>>
told == <<result, answer>>
vars == <<client, call, kind, attempts, sock, opened, request, reply, server, told,
          troubles, troubled>>

Working == {"callback", "answer", "signal", "last"}

Init == /\ client = "idle" /\ call = 0 /\ kind = [c \in Call |-> "method"] /\ attempts = 0
        /\ sock = None /\ opened = 0
        /\ request = [k \in Conn |-> None] /\ reply = [k \in Conn |-> None]
        /\ handler = [k \in Conn |-> "ended"] /\ work = [k \in Conn |-> None]
        /\ up \in BOOLEAN
        /\ result = [c \in Call |-> "none"] /\ answer = [c \in Call |-> None]
        /\ runs = [c \in Call |-> 0]
        /\ troubles = 0 /\ troubled = {}

-----------------------------------------------------------------------------
(* RPC_ClientImpl::Talk. *)
Talk == /\ client = "idle" /\ call < MaxCalls
        /\ client' = "attempt" /\ call' = call + 1 /\ attempts' = attemptsMax
        /\ \E t \in {"method", "signal"} : kind' = [kind EXCEPT ![call'] = t]
        /\ troubled' = IF up THEN troubled ELSE troubled \cup {call'}
        /\ UNCHANGED <<sock, opened, request, reply, server, told, troubles>>

Returns(r) == /\ client' = "idle" /\ result' = [result EXCEPT ![call] = r]

(* The socket is closed; the attempt is repeated while there are attempts left. *)
AttemptFailed_Keeps == /\ IF attempts > 1 THEN client' = "attempt" /\ UNCHANGED result
                                          ELSE Returns("failed")
                       /\ attempts' = attempts - 1
                       /\ UNCHANGED <<call, kind, sock, opened, server, answer>>
AttemptFailed_More == /\ sock' = None
                      /\ IF attempts > 0 THEN client' = "attempt" /\ UNCHANGED result
                                         ELSE Returns("failed")
                      /\ attempts' = attempts - 1
                      /\ UNCHANGED <<call, kind, opened, server, answer>>
AttemptFailed_Early == /\ sock' = None
                       /\ IF attempts > 2 THEN client' = "attempt" /\ UNCHANGED result
                                          ELSE Returns("failed")
                       /\ attempts' = attempts - 1
                       /\ UNCHANGED <<call, kind, opened, server, answer>>
AttemptFailed == /\ sock' = None
                 /\ IF attempts > 1 THEN client' = "attempt" /\ UNCHANGED result
                                    ELSE Returns("failed")
                 /\ attempts' = attempts - 1
                 /\ UNCHANGED <<call, kind, opened, server, answer>>

(* Talk_single: an open socket is used as it is. *)
Connect == /\ client = "attempt" /\ sock = None /\ up /\ opened < MaxConns
           /\ opened' = opened + 1 /\ sock' = opened' /\ client' = "send"
           /\ handler' = [handler EXCEPT ![opened'] = "reading"]
           /\ UNCHANGED <<call, kind, attempts, request, reply, work, runs, up, told,
                          troubles, troubled>>
(* The accept thread cannot set the socket's option or create the handler and closes it. *)
Dropped == /\ client = "attempt" /\ sock = None /\ up /\ opened < MaxConns
           /\ troubles < MaxTroubles /\ troubles' = troubles + 1
           /\ troubled' = troubled \cup {call}
           /\ opened' = opened + 1 /\ sock' = opened' /\ client' = "send"
           /\ UNCHANGED <<call, kind, attempts, request, reply, server, told>>
Connected == /\ client = "attempt" /\ sock # None /\ client' = "send"
             /\ UNCHANGED <<call, kind, attempts, sock, opened, request, reply, server, told,
                            troubles, troubled>>

(* Before canRepeat is set: there is no second attempt. *)
CannotConnect == /\ client = "attempt" /\ sock = None
                 /\ \/ ~up /\ UNCHANGED <<troubles, troubled>>
                    \/ /\ troubles < MaxTroubles /\ troubles' = troubles + 1
                       /\ troubled' = troubled \cup {call}
                 /\ Returns("failed") /\ attempts' = 0
                 /\ UNCHANGED <<call, kind, sock, opened, request, reply, server, answer>>

Send == /\ client = "send" /\ client' = "receive"
        /\ request' = IF handler[sock] = "ended" THEN request
                      ELSE [request EXCEPT ![sock] = call]
        /\ UNCHANGED <<call, kind, attempts, sock, opened, reply, server, told,
                       troubles, troubled>>
SendFails == /\ client = "send" /\ handler[sock] = "ended"
             /\ AttemptFailed /\ UNCHANGED <<request, reply, troubles, troubled>>

Receive == /\ client = "receive" /\ reply[sock] # None
           /\ reply' = [reply EXCEPT ![sock] = None]
           /\ IF kind[reply[sock]] = kind[call]
                THEN /\ answer' = [answer EXCEPT ![call] = reply[sock]]
                     /\ Returns("ok")
                     /\ UNCHANGED <<call, kind, attempts, sock, opened, server>>
                ELSE AttemptFailed
           /\ UNCHANGED <<request, troubles, troubled>>
ReceiveEof == /\ client = "receive" /\ reply[sock] = None /\ handler[sock] = "ended"
              /\ AttemptFailed /\ UNCHANGED <<request, reply, troubles, troubled>>
Timeout == /\ client = "receive" /\ reply[sock] = None /\ troubles < MaxTroubles
           /\ troubles' = troubles + 1 /\ troubled' = troubled \cup {call}
           /\ AttemptFailed /\ UNCHANGED <<request, reply>>

-----------------------------------------------------------------------------
(* RPC_Server_CmdHandle_th, on connection k. *)
rest == <<client, call, kind, attempts, sock, opened, up, told, troubles, troubled>>
Goes(k, here, there) == handler[k] = here /\ handler' = [handler EXCEPT ![k] = there]

ReceiveMethod(k) == /\ Goes(k, "reading", "callback")
                    /\ request[k] # None /\ kind[request[k]] = "method"
                    /\ work' = [work EXCEPT ![k] = request[k]]
                    /\ request' = [request EXCEPT ![k] = None]
                    /\ UNCHANGED <<rest, reply, runs>>

Run(k) == /\ runs' = [runs EXCEPT ![work[k]] = @ + 1]
          /\ UNCHANGED <<rest, request, reply>>

RunMethod(k) == Goes(k, "callback", "answer") /\ Run(k) /\ UNCHANGED work

Answer(k) == /\ Goes(k, "answer", "reading")
             /\ work' = [work EXCEPT ![k] = None]
             /\ reply' = IF sock = k THEN [reply EXCEPT ![k] = work[k]] ELSE reply
             /\ UNCHANGED <<rest, request, runs>>

(* A signal's answer is sent before the callback; when that fails, the callback still runs
   and the handler ends after it. *)
AnswerSignal_Silent(k) == /\ request[k] # None /\ kind[request[k]] = "signal"
                          /\ Goes(k, "reading", "signal")
                          /\ work' = [work EXCEPT ![k] = request[k]]
                          /\ request' = [request EXCEPT ![k] = None]
                          /\ UNCHANGED <<rest, reply, runs>>
AnswerSignal(k) == /\ request[k] # None /\ kind[request[k]] = "signal"
                   /\ work' = [work EXCEPT ![k] = request[k]]
                   /\ request' = [request EXCEPT ![k] = None]
                   /\ \/ /\ Goes(k, "reading", "signal")
                         /\ reply' = IF sock = k THEN [reply EXCEPT ![k] = request[k]] ELSE reply
                      \/ sock # k /\ Goes(k, "reading", "last") /\ UNCHANGED reply
                   /\ UNCHANGED <<rest, runs>>

RunSignal(k) == /\ \/ Goes(k, "signal", "reading")
                   \/ Goes(k, "last", "ended")
                /\ Run(k) /\ work' = [work EXCEPT ![k] = None]

(* The client has closed the connection (a request in the buffer may be lost with it), or
   the server stops and the handler is cancelled. *)
Ends(k) == /\ handler[k] \in {"reading", "answer"} /\ (sock # k \/ ~up)
           /\ handler' = [handler EXCEPT ![k] = "ended"]
           /\ work' = [work EXCEPT ![k] = None]
           /\ request' = [request EXCEPT ![k] = None]
           /\ UNCHANGED <<rest, reply, runs>>

-----------------------------------------------------------------------------
(* The server is started, stopped (Stop waits for the handlers) or killed. *)
InCall == IF client = "idle" THEN {} ELSE {call}
Start == /\ ~up /\ up' = TRUE /\ \A k \in Conn : handler[k] = "ended"
         /\ UNCHANGED <<client, call, kind, attempts, sock, opened, request, reply, handler, work,
                        runs, told, troubles, troubled>>

Stop == /\ up /\ up' = FALSE /\ troubles < MaxTroubles /\ troubles' = troubles + 1
        /\ troubled' = troubled \cup InCall
        /\ UNCHANGED <<client, call, kind, attempts, sock, opened, request, reply, handler, work,
                       runs, told>>

Killed == /\ up /\ up' = FALSE /\ troubles < MaxTroubles /\ troubles' = troubles + 1
          /\ troubled' = troubled \cup InCall \cup {work[k] : k \in {j \in Conn : work[j] # None}}
          /\ handler' = [k \in Conn |-> "ended"] /\ work' = [k \in Conn |-> None]
          /\ request' = [k \in Conn |-> None]
          /\ reply' \in {reply, [k \in Conn |-> None]}
          /\ UNCHANGED <<client, call, kind, attempts, sock, opened, runs, told>>

-----------------------------------------------------------------------------
ClientStep == \/ Connect \/ Connected \/ CannotConnect \/ Send \/ SendFails
              \/ Receive \/ ReceiveEof
HandlerStep(k) == \/ ReceiveMethod(k) \/ RunMethod(k) \/ Answer(k)
                  \/ AnswerSignal(k) \/ RunSignal(k) \/ Ends(k)

Next == \/ Talk \/ ClientStep \/ Timeout \/ Dropped \/ Start \/ Stop \/ Killed
        \/ \E k \in Conn : HandlerStep(k)

Spec == Init /\ [][Next]_vars

(* The client's thread and the handlers' run, and callbacks return; nothing makes a client
   call, a timeout pass or the server start. *)
FairSpec == Spec /\ WF_vars(ClientStep) /\ \A k \in Conn : WF_vars(HandlerStep(k))

-----------------------------------------------------------------------------
TypeOK == /\ client \in {"idle", "attempt", "send", "receive"}
          /\ call \in 0..MaxCalls
          /\ kind \in [Call -> {"method", "signal"}]
          /\ attempts \in 0..attemptsMax
          /\ opened \in 0..MaxConns /\ sock \in 0..opened
          /\ request \in [Conn -> Call \cup {None}]
          /\ reply \in [Conn -> Call \cup {None}]
          /\ handler \in [Conn -> {"reading", "ended"} \cup Working]
          /\ work \in [Conn -> Call \cup {None}]
          /\ up \in BOOLEAN
          /\ result \in [Call -> {"none", "ok", "failed"}]
          /\ answer \in [Call -> Call \cup {None}]
          /\ runs \in [Call -> Nat]
          /\ troubles \in 0..MaxTroubles
          /\ troubled \subseteq Call

(* The answer a call returns is the answer to itself, though neither the command nor the
   type tells it from a late answer to an earlier call. *)
OwnAnswer == \A c \in Call : result[c] = "ok" => answer[c] = c

(* The connections on which a call was sent and not yet run. *)
Pending(c) == {k \in Conn : request[k] = c \/ (work[k] = c /\ handler[k] # "answer")}
Copies(c) == Cardinality(Pending(c))

(* However often it is tried, a call is not run more often than there are attempts, now or
   later. *)
RunsBounded == \A c \in Call : runs[c] + Copies(c) <= attemptsMax

(* A call that meets no timeout, no stop of the server and no connection that cannot be made
   or is dropped succeeds and is run once, also when the server was restarted since the
   connection was made. *)
SmoothOnce == \A c \in Call : result[c] # "none" /\ c \notin troubled =>
                                result[c] = "ok" /\ runs[c] + Copies(c) = 1

(* A call returns. *)
Return == client # "idle" ~> client = "idle"
=============================================================================
