---------------------------- MODULE RpcCallProofs -----------------------------
(***************************************************************************)
(* Proofs about the RPC client's calls, for any number of calls, attempts  *)
(* and troubles: an answer belongs to the call it is given to, no call is  *)
(* run more often than there are attempts, and one that meets no trouble   *)
(* is run once.                                                            *)
(***************************************************************************)
EXTENDS RpcCall, TLAPS, FiniteSetTheorems

Active == /\ client # "idle" => call \in Call /\ attempts \in 1..attemptsMax
          /\ client \in {"send", "receive"} => sock # None

(* A connection that is still to be made is empty; a handler that waits has no work; one
   that runs a method has no other request waiting. *)
Fresh == \A k \in Conn : k > opened => request[k] = None /\ reply[k] = None /\ handler[k] = "ended"
WorkFits == \A k \in Conn : handler[k] \in {"reading", "ended"} <=> work[k] = None
HalfDuplex == \A k \in Conn : handler[k] \in {"callback", "answer"} => request[k] = None

(* On the client's connection there is nothing but the call that waits for its answer. *)
Quiet(k) == request[k] = None /\ handler[k] \notin {"callback", "answer"}
Line == sock # None =>
          /\ client # "receive" => Quiet(sock) /\ reply[sock] = None
          /\ client = "receive" => /\ request[sock] \in {None, call} /\ reply[sock] \in {None, call}
                                   /\ handler[sock] \in {"callback", "answer"} => work[sock] = call
                                   /\ reply[sock] # None => Quiet(sock)

Steady == Active /\ Fresh /\ WorkFits /\ HalfDuplex /\ Line /\ OwnAnswer
IInv == TypeOK /\ Steady

(* What is on its way belongs to calls made; a connection's request is another call than
   its handler's work, which at the time of a request is an earlier one. *)
Known == \A k \in Conn : request[k] <= call /\ work[k] <= call
Earlier == client \in {"attempt", "send"} /\ sock # None => work[sock] # call
Distinct == \A k \in Conn : request[k] # None => request[k] # work[k]
Future == \A c \in Call : c > call => runs[c] = 0
Left(c) == IF c = call /\ client # "idle"
             THEN IF client = "receive" THEN attempts - 1 ELSE attempts
             ELSE 0
Budget == \A c \in Call : runs[c] + Copies(c) + Left(c) <= attemptsMax
Count == Known /\ Earlier /\ Distinct /\ Future /\ Budget

(* The client's variables and the connections', for the proof of TypeOK. *)
ClientOK == /\ client \in {"idle", "attempt", "send", "receive"}
            /\ call \in 0..MaxCalls /\ attempts \in 0..attemptsMax
            /\ kind \in [Call -> {"method", "signal"}]
            /\ result \in [Call -> {"none", "ok", "failed"}]
            /\ answer \in [Call -> Call \cup {None}]
            /\ troubles \in 0..MaxTroubles /\ troubled \subseteq Call
LinesOK == /\ opened \in 0..MaxConns /\ sock \in 0..opened
           /\ request \in [Conn -> Call \cup {None}]
           /\ reply \in [Conn -> Call \cup {None}]
HandlersOK == /\ handler \in [Conn -> {"reading", "ended"} \cup Working]
              /\ work \in [Conn -> Call \cup {None}]
              /\ runs \in [Call -> Nat]
              /\ up \in BOOLEAN

-----------------------------------------------------------------------------
LEMMA TypeParts == TypeOK <=> ClientOK /\ LinesOK /\ HandlersOK
BY DEF TypeOK, ClientOK, LinesOK, HandlersOK

LEMMA FailedTypes == ASSUME TypeOK, Active, client # "idle", AttemptFailed
                     PROVE /\ client' \in {"attempt", "idle"} /\ attempts' \in 0..attemptsMax
                           /\ client' # "idle" => attempts' \in 1..attemptsMax
                           /\ result' \in [Call -> {"none", "ok", "failed"}]
                           /\ sock' = None
                           /\ \A c \in Call : result'[c] = "ok" => result[c] = "ok"
<1>1. CASE attempts > 1
  BY <1>1, CallAssumption DEF AttemptFailed, Active, TypeOK
<1>2. CASE ~(attempts > 1)
  BY <1>2, CallAssumption DEF AttemptFailed, Returns, Active, TypeOK
<1> QED  BY <1>1, <1>2

LEMMA TypeStep == IInv /\ [Next]_vars => TypeOK'
<1> SUFFICES ASSUME IInv, [Next]_vars PROVE TypeOK'
  OBVIOUS
<1> SUFFICES ClientOK' /\ LinesOK' /\ HandlersOK'
  BY TypeParts, PTL
<1> USE CallAssumption DEF Call, Conn, None
<1>0. TypeOK /\ Active /\ ClientOK /\ LinesOK /\ HandlersOK  BY TypeParts DEF IInv, Steady
<1>1. CASE Talk
  <2>1. UNCHANGED <<sock, opened, request, reply, handler, work, runs, up, result, answer, troubles>>
    BY <1>1 DEF Talk, server, told
  <2>2. ClientOK'  BY <1>0, <1>1, <2>1 DEF Talk, ClientOK
  <2> QED  BY <1>0, <2>1, <2>2 DEF LinesOK, HandlersOK
<1>2. CASE Connect
  <2>1. ClientOK'  BY <1>0, <1>2 DEF Connect, told, ClientOK
  <2>2. LinesOK' /\ opened' \in Conn  BY <1>0, <1>2 DEF Connect, LinesOK
  <2>3. HandlersOK'  BY <1>0, <1>2, <2>2 DEF Connect, HandlersOK
  <2> QED  BY <2>1, <2>2, <2>3
<1>3. CASE Connected
  <2>1. client' = "send" /\ UNCHANGED <<call, kind, attempts, sock, opened, request, reply, handler,
                                         work, runs, up, result, answer, troubles, troubled>>
    BY <1>3 DEF Connected, server, told
  <2> QED  BY <1>0, <2>1 DEF ClientOK, LinesOK, HandlersOK
<1>4. CASE CannotConnect
  <2>1. UNCHANGED <<sock, opened, request, reply, handler, work, runs, up>>
    BY <1>4 DEF CannotConnect, server
  <2>2. troubles' \in 0..MaxTroubles /\ troubled' \subseteq Call
    <3>1. call \in Call  BY <1>0, <1>4 DEF CannotConnect, Active
    <3>2. troubles' \in 0..MaxTroubles  BY <1>0, <1>4 DEF CannotConnect, ClientOK
    <3>3. troubled' \subseteq Call  BY <1>0, <1>4, <3>1 DEF CannotConnect, ClientOK
    <3> QED  BY <3>2, <3>3
  <2>3. result' \in [Call -> {"none", "ok", "failed"}] /\ attempts' \in 0..attemptsMax
    <3>1. result' = [result EXCEPT ![call] = "failed"] /\ attempts' = 0
      BY <1>4 DEF CannotConnect, Returns
    <3>2. result' \in [Call -> {"none", "ok", "failed"}]  BY <1>0, <3>1 DEF ClientOK
    <3> QED  BY <3>1, <3>2
  <2>4. client' = "idle" /\ UNCHANGED <<call, kind, answer>>
    BY <1>4 DEF CannotConnect, Returns
  <2>5. ClientOK'  BY <1>0, <2>2, <2>3, <2>4 DEF ClientOK
  <2> QED  BY <1>0, <2>1, <2>5 DEF LinesOK, HandlersOK
<1>5. CASE Send
  <2>1. client' = "receive" /\ UNCHANGED <<call, kind, attempts, sock, opened, reply, handler, work,
                                            runs, up, result, answer, troubles, troubled>>
    BY <1>5 DEF Send, server, told
  <2>2. request' \in [Conn -> Call \cup {None}]  BY <1>0, <1>5 DEF Send, Active, LinesOK
  <2> QED  BY <1>0, <2>1, <2>2 DEF ClientOK, LinesOK, HandlersOK
<1>6. CASE SendFails \/ ReceiveEof \/ Timeout
  <2>1. AttemptFailed /\ client # "idle"  BY <1>6 DEF SendFails, ReceiveEof, Timeout
  <2>2. /\ UNCHANGED <<request, reply>>
        /\ troubles' \in 0..MaxTroubles /\ troubled' \subseteq Call
    <3>1. call \in Call  BY <1>0, <2>1 DEF Active
    <3>2. troubles' \in 0..MaxTroubles
      BY <1>0, <1>6 DEF SendFails, ReceiveEof, Timeout, ClientOK
    <3>3. troubled' \subseteq Call
      BY <1>0, <1>6, <3>1 DEF SendFails, ReceiveEof, Timeout, ClientOK
    <3> QED  BY <1>6, <3>2, <3>3 DEF SendFails, ReceiveEof, Timeout
  <2>3. UNCHANGED <<call, kind, opened, handler, work, runs, up, answer>>
    BY <2>1 DEF AttemptFailed, server
  <2>4. ClientOK'  BY <1>0, <2>1, <2>2, <2>3, FailedTypes DEF ClientOK
  <2>5. LinesOK'  BY <1>0, <2>1, <2>2, <2>3, FailedTypes DEF LinesOK
  <2> QED  BY <1>0, <2>3, <2>4, <2>5 DEF HandlersOK
<1>7. CASE Receive
  <2>1. /\ reply' \in [Conn -> Call \cup {None}] /\ reply[sock] \in Call
        /\ client # "idle" /\ UNCHANGED <<request, troubles, troubled>>
    BY <1>0, <1>7 DEF Receive, Active, LinesOK
  <2>2. CASE AttemptFailed
    <3>1. UNCHANGED <<call, kind, opened, handler, work, runs, up, answer>>
      BY <2>2 DEF AttemptFailed, server
    <3>2. ClientOK'  BY <1>0, <2>1, <2>2, <3>1, FailedTypes DEF ClientOK
    <3>3. LinesOK'  BY <1>0, <2>1, <2>2, <3>1, FailedTypes DEF LinesOK
    <3> QED  BY <1>0, <3>1, <3>2, <3>3 DEF HandlersOK
  <2>3. CASE ~AttemptFailed
    <3>1. /\ answer' = [answer EXCEPT ![call] = reply[sock]] /\ Returns("ok")
          /\ UNCHANGED <<call, kind, attempts, sock, opened, handler, work, runs, up>>
      BY <1>7, <2>3 DEF Receive, server
    <3>2. ClientOK'  BY <1>0, <2>1, <3>1 DEF Returns, ClientOK
    <3> QED  BY <1>0, <2>1, <3>1, <3>2 DEF LinesOK, HandlersOK
  <2> QED  BY <2>2, <2>3
<1>8. ASSUME NEW k \in Conn, HandlerStep(k) PROVE ClientOK' /\ LinesOK' /\ HandlersOK'
  <2>1. UNCHANGED <<client, call, kind, attempts, sock, opened, up, result, answer, troubles, troubled>>
    BY <1>8 DEF HandlerStep, ReceiveMethod, RunMethod, Run, Answer, AnswerSignal, RunSignal, Ends, rest, told
  <2>2. request' \in [Conn -> Call \cup {None}]
    BY <1>0, <1>8 DEF HandlerStep, ReceiveMethod, RunMethod, Run, Answer, AnswerSignal, RunSignal, Ends, LinesOK
  <2>3. reply' \in [Conn -> Call \cup {None}]
    <3>1. request[k] \in Call \cup {None} /\ work[k] \in Call \cup {None}
      BY <1>0 DEF LinesOK, HandlersOK
    <3> QED  BY <1>0, <1>8, <3>1
      DEF HandlerStep, ReceiveMethod, RunMethod, Run, Answer, AnswerSignal, RunSignal, Ends, LinesOK
  <2>4. handler' \in [Conn -> {"reading", "ended"} \cup Working]
    BY <1>0, <1>8
    DEF HandlerStep, ReceiveMethod, RunMethod, Answer, AnswerSignal, RunSignal, Ends, Goes, HandlersOK, Working
  <2>5. work' \in [Conn -> Call \cup {None}]
    BY <1>0, <1>8
    DEF HandlerStep, ReceiveMethod, RunMethod, Answer, AnswerSignal, RunSignal, Ends, HandlersOK, LinesOK
  <2>6. runs' \in [Call -> Nat]
    <3>1. CASE Run(k)
      <4>1. \A c \in Call : runs[c] + 1 \in Nat  BY <1>0 DEF HandlersOK
      <4> QED  BY <1>0, <3>1, <4>1 DEF Run, HandlersOK
    <3>2. CASE UNCHANGED runs  BY <1>0, <3>2 DEF HandlersOK
    <3> QED  BY <1>8, <3>1, <3>2
      DEF HandlerStep, ReceiveMethod, RunMethod, Answer, AnswerSignal, RunSignal, Ends
  <2>7. ClientOK'  BY <1>0, <2>1 DEF ClientOK
  <2>8. LinesOK'  BY <1>0, <2>1, <2>2, <2>3 DEF LinesOK
  <2> QED  BY <1>0, <2>1, <2>4, <2>5, <2>6, <2>7, <2>8 DEF HandlersOK
<1>9. CASE Start
  <2>1. up' = TRUE /\ UNCHANGED <<client, call, kind, attempts, sock, opened, request, reply, handler,
                                   work, runs, result, answer, troubles, troubled>>
    BY <1>9 DEF Start, told
  <2> QED  BY <1>0, <2>1 DEF ClientOK, LinesOK, HandlersOK
<1>10. CASE Stop
  <2>1. up' = FALSE /\ UNCHANGED <<client, call, kind, attempts, sock, opened, request, reply, handler,
                                    work, runs, result, answer>>
    BY <1>10 DEF Stop, told
  <2>2. troubles' \in 0..MaxTroubles /\ troubled' \subseteq Call
    BY <1>0, <1>10 DEF Stop, InCall, Active, ClientOK
  <2>3. ClientOK'  BY <1>0, <2>1, <2>2 DEF ClientOK
  <2> QED  BY <1>0, <2>1, <2>3 DEF LinesOK, HandlersOK
<1>11. CASE Killed
  <2>1. troubles' \in 0..MaxTroubles /\ troubled' \subseteq Call
    <3>1. InCall \subseteq Call  BY <1>0 DEF InCall, Active
    <3>2. \A j \in Conn : work[j] # None => work[j] \in Call  BY <1>0 DEF HandlersOK
    <3>3. troubled' \subseteq Call
      <4>1. troubled' = troubled \cup InCall \cup {work[k] : k \in {j \in Conn : work[j] # None}}
        BY <1>11 DEF Killed
      <4>2. troubled \subseteq Call  BY <1>0 DEF ClientOK
      <4> QED  BY <3>1, <3>2, <4>1, <4>2
    <3>4. troubles' \in 0..MaxTroubles  BY <1>0, <1>11 DEF Killed, ClientOK
    <3> QED  BY <3>3, <3>4
  <2>2. UNCHANGED <<client, call, kind, attempts, sock, opened, runs, result, answer>> /\ up' = FALSE
    BY <1>11 DEF Killed, told
  <2>3. ClientOK'  BY <1>0, <2>1, <2>2 DEF ClientOK
  <2>4. LinesOK'  BY <1>0, <1>11, <2>2 DEF Killed, LinesOK
  <2>5. HandlersOK'  BY <1>0, <1>11, <2>2 DEF Killed, HandlersOK
  <2> QED  BY <2>3, <2>4, <2>5
<1>12. CASE UNCHANGED vars
  BY <1>0, <1>12 DEF vars, server, told, ClientOK, LinesOK, HandlersOK
<1>13. CASE Dropped
  <2>1. /\ client' = "send"
        /\ UNCHANGED <<call, kind, attempts, request, reply, handler, work, runs, up, result, answer>>
    BY <1>13 DEF Dropped, server, told
  <2>2. troubles' \in 0..MaxTroubles /\ troubled' \subseteq Call
    <3>1. call \in Call  BY <1>0, <1>13 DEF Dropped, Active
    <3>2. troubles' \in 0..MaxTroubles  BY <1>0, <1>13 DEF Dropped, ClientOK
    <3> QED  BY <1>0, <1>13, <3>1, <3>2 DEF Dropped, ClientOK
  <2>3. ClientOK'  BY <1>0, <2>1, <2>2 DEF ClientOK
  <2>4. LinesOK'  BY <1>0, <1>13, <2>1 DEF Dropped, LinesOK
  <2> QED  BY <1>0, <2>1, <2>3, <2>4 DEF HandlersOK
<1> QED
  BY <1>1, <1>2, <1>3, <1>4, <1>5, <1>6, <1>7, <1>8, <1>9, <1>10, <1>11, <1>12, <1>13
  DEF Next, ClientStep

LEMMA SteadyStep == ASSUME IInv, [Next]_vars, TypeOK' PROVE Steady'
<1> USE CallAssumption DEF Call, Conn, None
<1>0. /\ TypeOK /\ Active /\ Fresh /\ WorkFits /\ HalfDuplex /\ Line /\ OwnAnswer
      /\ call \in 0..MaxCalls /\ opened \in 0..MaxConns /\ sock \in 0..opened
  BY DEF IInv, Steady, TypeOK
<1> USE DEF Active, Quiet, Line, OwnAnswer, Steady
<1>1. CASE Talk
  <2>1. /\ call' \in Call /\ client' = "attempt" /\ attempts' = attemptsMax /\ client = "idle"
        /\ UNCHANGED <<sock, opened, request, reply, handler, work, result, answer>>
    BY <1>0, <1>1 DEF Talk, server, told
  <2> QED  BY <1>0, <2>1 DEF Fresh, WorkFits, HalfDuplex
<1>2. CASE Connect
  <2>1. /\ opened' = opened + 1 /\ sock' = opened' /\ client = "attempt" /\ client' = "send"
        /\ opened' \in Conn
        /\ UNCHANGED <<call, attempts, request, reply, work, result, answer>>
    BY <1>0, <1>2 DEF Connect, told
  <2>2. request[sock'] = None /\ reply[sock'] = None /\ handler[sock'] = "ended"
    BY <1>0, <2>1 DEF Fresh
  <2>3. handler' = [handler EXCEPT ![sock'] = "reading"] /\ handler'[sock'] = "reading"
    BY <1>0, <1>2, <2>1 DEF Connect, TypeOK
  <2>4. Fresh'  BY <1>0, <2>1, <2>3 DEF Fresh, TypeOK
  <2>5. WorkFits' /\ HalfDuplex'  BY <1>0, <2>1, <2>2, <2>3 DEF WorkFits, HalfDuplex, TypeOK
  <2> QED  BY <1>0, <2>1, <2>2, <2>3, <2>4, <2>5
<1>3. CASE Connected
  <2>1. /\ client = "attempt" /\ client' = "send" /\ sock # None
        /\ UNCHANGED <<call, attempts, sock, opened, request, reply, handler, work, result, answer>>
    BY <1>3 DEF Connected, server, told
  <2> QED  BY <1>0, <2>1 DEF Fresh, WorkFits, HalfDuplex
<1>4. CASE CannotConnect
  <2>1. /\ client = "attempt" /\ client' = "idle" /\ sock = None
        /\ result' = [result EXCEPT ![call] = "failed"]
        /\ UNCHANGED <<call, sock, opened, request, reply, handler, work, answer>>
    BY <1>4 DEF CannotConnect, Returns, server
  <2> QED  BY <1>0, <2>1 DEF Fresh, WorkFits, HalfDuplex, TypeOK
<1>5. CASE Send
  <2>1. /\ client = "send" /\ client' = "receive" /\ sock # None /\ sock \in Conn /\ call \in Call
        /\ UNCHANGED <<call, attempts, sock, opened, reply, handler, work, result, answer>>
    BY <1>0, <1>5 DEF Send, server, told
  <2>2. /\ \A k \in Conn : k # sock => request'[k] = request[k]
        /\ request'[sock] \in {None, call}
    BY <1>0, <1>5, <2>1 DEF Send, TypeOK
  <2> QED  BY <1>0, <2>1, <2>2 DEF Fresh, WorkFits, HalfDuplex
<1>6. ASSUME AttemptFailed, client # "idle", UNCHANGED request,
             \A k \in Conn : k # sock => reply'[k] = reply[k],
             sock # None => reply'[sock] \in {None, reply[sock]}
      PROVE Steady'
  <2>1. /\ client' \in {"attempt", "idle"}
        /\ client' # "idle" => attempts' \in 1..attemptsMax
        /\ \A c \in Call : result'[c] = "ok" => result[c] = "ok"
        /\ sock' = None
        /\ UNCHANGED <<call, opened, handler, work, answer>>
    BY <1>0, <1>6, FailedTypes DEF AttemptFailed, server
  <2>2. Fresh'  BY <1>0, <1>6, <2>1 DEF Fresh
  <2>3. WorkFits' /\ HalfDuplex'  BY <1>0, <1>6, <2>1 DEF WorkFits, HalfDuplex
  <2>4. OwnAnswer'  BY <1>0, <2>1
  <2>5. Active'  BY <1>0, <1>6, <2>1
  <2>6. Line'  BY <2>1
  <2> QED  BY <2>2, <2>3, <2>4, <2>5, <2>6
<1>7. CASE SendFails \/ ReceiveEof \/ Timeout
  BY <1>6, <1>7 DEF SendFails, ReceiveEof, Timeout
<1>8. CASE Receive
  <2>1. /\ client = "receive" /\ sock # None /\ sock \in Conn /\ call \in Call
        /\ reply[sock] = call /\ Quiet(sock)
        /\ reply' = [reply EXCEPT ![sock] = None] /\ UNCHANGED request
    BY <1>0, <1>8 DEF Receive
  <2>2. CASE AttemptFailed
    BY <1>0, <1>6, <2>1, <2>2 DEF TypeOK
  <2>3. CASE ~AttemptFailed
    <3>1. /\ answer' = [answer EXCEPT ![call] = reply[sock]]
          /\ result' = [result EXCEPT ![call] = "ok"] /\ client' = "idle"
          /\ UNCHANGED <<call, attempts, sock, opened, handler, work>>
      BY <1>8, <2>3 DEF Receive, Returns, server
    <3>2. OwnAnswer'  BY <1>0, <2>1, <3>1 DEF TypeOK
    <3> QED  BY <1>0, <2>1, <3>1, <3>2 DEF Fresh, WorkFits, HalfDuplex, TypeOK
  <2> QED  BY <2>2, <2>3
<1>9. ASSUME NEW k \in Conn, HandlerStep(k) PROVE Steady'
  <2>1. UNCHANGED <<client, call, attempts, sock, opened, result, answer>>
    BY <1>9 DEF HandlerStep, ReceiveMethod, RunMethod, Run, Answer, AnswerSignal, RunSignal, Ends, rest, told
  <2>2. /\ \A j \in Conn : j # k => /\ request'[j] = request[j] /\ reply'[j] = reply[j]
                                    /\ handler'[j] = handler[j] /\ work'[j] = work[j]
        /\ handler[k] # "ended" /\ k <= opened
    <3>1. handler[k] # "ended"
      BY <1>9 DEF HandlerStep, ReceiveMethod, RunMethod, Answer, AnswerSignal, RunSignal, Ends, Goes
    <3>2. \A j \in Conn : j # k => /\ request'[j] = request[j] /\ reply'[j] = reply[j]
                                  /\ handler'[j] = handler[j] /\ work'[j] = work[j]
      <4>1. DOMAIN request = Conn /\ DOMAIN reply = Conn /\ DOMAIN handler = Conn /\ DOMAIN work = Conn
        BY <1>0 DEF TypeOK
      <4>2. CASE ReceiveMethod(k) \/ RunMethod(k)  BY <4>1, <4>2 DEF ReceiveMethod, RunMethod, Run, Goes
      <4>3. CASE Answer(k)  BY <4>1, <4>3 DEF Answer, Goes
      <4>4. CASE Ends(k)  BY <4>1, <4>4 DEF Ends
      <4>5. CASE AnswerSignal(k)  BY <4>1, <4>5 DEF AnswerSignal, Goes
      <4>6. CASE RunSignal(k)  BY <4>1, <4>6 DEF RunSignal, Run, Goes
      <4> QED  BY <1>9, <4>2, <4>3, <4>4, <4>5, <4>6 DEF HandlerStep
    <3> QED  BY <1>0, <3>1, <3>2 DEF Fresh
  <2>3. /\ handler'[k] \in {"reading", "ended"} <=> work'[k] = None
        /\ handler'[k] \in {"callback", "answer"} => request'[k] = None
        /\ k = sock /\ client # "receive" => /\ request'[k] = None /\ reply'[k] = None
                                            /\ handler'[k] \notin {"callback", "answer"}
        /\ k = sock /\ client = "receive" =>
              /\ request'[k] \in {None, call} /\ reply'[k] \in {None, call}
              /\ handler'[k] \in {"callback", "answer"} => work'[k] = call
              /\ reply'[k] # None => /\ request'[k] = None
                                    /\ handler'[k] \notin {"callback", "answer"}
    <3> USE <1>0 DEF TypeOK, WorkFits, HalfDuplex, Goes
    <3>1. CASE ReceiveMethod(k)  BY <3>1 DEF ReceiveMethod
    <3>2. CASE RunMethod(k)  BY <3>2 DEF RunMethod, Run
    <3>3. CASE Answer(k)  BY <3>3 DEF Answer
    <3>4. CASE AnswerSignal(k)  BY <3>4 DEF AnswerSignal
    <3>5. CASE RunSignal(k)  BY <3>5 DEF RunSignal, Run
    <3>6. CASE Ends(k)  BY <3>6 DEF Ends
    <3> QED  BY <1>9, <3>1, <3>2, <3>3, <3>4, <3>5, <3>6 DEF HandlerStep
  <2>4. Fresh' /\ WorkFits' /\ HalfDuplex'
    BY <1>0, <2>1, <2>2, <2>3 DEF Fresh, WorkFits, HalfDuplex
  <2>5. Line'  BY <1>0, <2>1, <2>2, <2>3
  <2> QED  BY <1>0, <2>1, <2>4, <2>5
<1>10. CASE Start \/ Stop
  <2>1. UNCHANGED <<client, call, attempts, sock, opened, request, reply, handler, work, result, answer>>
    BY <1>10 DEF Start, Stop, told
  <2> QED  BY <1>0, <2>1 DEF Fresh, WorkFits, HalfDuplex
<1>11. CASE Killed
  <2>1. /\ UNCHANGED <<client, call, attempts, sock, opened, result, answer>>
        /\ \A k \in Conn : /\ request'[k] = None /\ handler'[k] = "ended" /\ work'[k] = None
                           /\ reply'[k] \in {None, reply[k]}
    BY <1>0, <1>11 DEF Killed, told, TypeOK
  <2> QED  BY <1>0, <2>1 DEF Fresh, WorkFits, HalfDuplex
<1>12. CASE UNCHANGED vars
  BY <1>0, <1>12 DEF vars, server, told, Fresh, WorkFits, HalfDuplex
<1>13. CASE Dropped
  <2>1. /\ opened' = opened + 1 /\ sock' = opened' /\ client = "attempt" /\ client' = "send"
        /\ opened' \in Conn
        /\ UNCHANGED <<call, attempts, request, reply, handler, work, result, answer>>
    BY <1>0, <1>13 DEF Dropped, server, told
  <2>2. request[sock'] = None /\ reply[sock'] = None /\ handler[sock'] = "ended"
    BY <1>0, <2>1 DEF Fresh
  <2>3. Fresh' /\ WorkFits' /\ HalfDuplex'
    BY <1>0, <2>1 DEF Fresh, WorkFits, HalfDuplex
  <2> QED  BY <1>0, <2>1, <2>2, <2>3
<1> QED
  BY <1>1, <1>2, <1>3, <1>4, <1>5, <1>7, <1>8, <1>9, <1>10, <1>11, <1>12, <1>13
  DEF Next, ClientStep

-----------------------------------------------------------------------------
LEMMA PendingFinite == ASSUME NEW c
                       PROVE /\ IsFiniteSet(Pending(c)) /\ Copies(c) \in Nat
                             /\ Pending(c) = {} => Copies(c) = 0
                             /\ \A k \in Pending(c) : Cardinality(Pending(c) \ {k}) = Copies(c) - 1
<1>1. Pending(c) \subseteq Conn  BY DEF Pending
<1>2. IsFiniteSet(Conn)  BY CallAssumption, FS_Interval, 1 \in Int, MaxConns \in Int DEF Conn
<1>3. IsFiniteSet(Pending(c))  BY <1>1, <1>2, FS_Subset
<1>4. Copies(c) \in Nat  BY <1>3, FS_CardinalityType DEF Copies
<1>5. Pending(c) = {} => Copies(c) = 0  BY FS_EmptySet DEF Copies
<1>6. \A k \in Pending(c) : Cardinality(Pending(c) \ {k}) = Copies(c) - 1
  BY <1>3, FS_RemoveElement DEF Copies
<1> QED  BY <1>3, <1>4, <1>5, <1>6

LEMMA CopiesNext == ASSUME NEW c PROVE Copies(c)' \in Nat
<1>1. Pending(c)' \subseteq Conn  BY DEF Pending
<1>2. IsFiniteSet(Conn)  BY CallAssumption, FS_Interval, 1 \in Int, MaxConns \in Int DEF Conn
<1>3. IsFiniteSet(Pending(c)')  BY <1>1, <1>2, FS_Subset
<1> QED  BY <1>3, FS_CardinalityType DEF Copies

LEMMA PendingNext == ASSUME NEW c
                     PROVE /\ Pending(c)' \subseteq Pending(c) => Copies(c)' <= Copies(c)
                           /\ \A k : Pending(c)' \subseteq Pending(c) \cup {k} => Copies(c)' <= Copies(c) + 1
                           /\ \A k \in Pending(c) : Pending(c)' \subseteq Pending(c) \ {k} => Copies(c)' <= Copies(c) - 1
<1>1. IsFiniteSet(Pending(c)) /\ Copies(c) \in Nat  BY PendingFinite
<1>2. ASSUME Pending(c)' \subseteq Pending(c) PROVE Copies(c)' <= Copies(c)
  BY <1>1, <1>2, FS_Subset DEF Copies
<1>3. ASSUME NEW k, Pending(c)' \subseteq Pending(c) \cup {k} PROVE Copies(c)' <= Copies(c) + 1
  <2>1. IsFiniteSet(Pending(c) \cup {k}) /\ Cardinality(Pending(c) \cup {k}) <= Copies(c) + 1
    <3>1. IsFiniteSet(Pending(c) \cup {k})  BY <1>1, FS_AddElement
    <3>2. Cardinality(Pending(c) \cup {k}) \in {Copies(c), Copies(c) + 1}
      BY <1>1, FS_AddElement DEF Copies
    <3> QED  BY <1>1, <3>1, <3>2
  <2>2. Cardinality(Pending(c)') <= Cardinality(Pending(c) \cup {k})  BY <1>3, <2>1, FS_Subset
  <2>3. IsFiniteSet(Pending(c)')  BY <1>3, <2>1, FS_Subset
  <2>4. Cardinality(Pending(c)') \in Nat /\ Cardinality(Pending(c) \cup {k}) \in Nat
    BY <2>1, <2>3, FS_CardinalityType
  <2> QED  BY <1>1, <2>1, <2>2, <2>4 DEF Copies
<1>4. ASSUME NEW k \in Pending(c), Pending(c)' \subseteq Pending(c) \ {k} PROVE Copies(c)' <= Copies(c) - 1
  <2>1. IsFiniteSet(Pending(c) \ {k}) /\ Cardinality(Pending(c) \ {k}) = Copies(c) - 1
    BY <1>1, FS_RemoveElement DEF Copies
  <2>2. Cardinality(Pending(c)') <= Cardinality(Pending(c) \ {k})  BY <1>4, <2>1, FS_Subset
  <2> QED  BY <2>1, <2>2 DEF Copies
<1> QED  BY <1>2, <1>3, <1>4

(* No call gets more copies and runs than it loses attempts. *)
LEMMA BudgetKept == ASSUME TypeOK, TypeOK', Budget,
                           \A c \in Call : /\ runs'[c] = runs[c]
                                           /\ Pending(c)' \subseteq Pending(c)
                                           /\ Left(c)' \in Int /\ Left(c) \in Int
                                           /\ Left(c)' <= Left(c)
                    PROVE Budget'
<1> SUFFICES ASSUME NEW c \in Call PROVE runs'[c] + Copies(c)' + Left(c)' <= attemptsMax
  BY DEF Budget, Call
<1>1. runs[c] + Copies(c) + Left(c) <= attemptsMax  BY DEF Budget
<1>2. Copies(c)' <= Copies(c)  BY PendingNext
<1>3. Copies(c) \in Nat /\ Copies(c)' \in Nat  BY PendingFinite, CopiesNext
<1>4. runs[c] \in Nat /\ attemptsMax \in Nat  BY CallAssumption DEF TypeOK
<1> QED  BY <1>1, <1>2, <1>3, <1>4

LEMMA LeftInt == ASSUME TypeOK, NEW c PROVE Left(c) \in Int
BY CallAssumption DEF TypeOK, Left

LEMMA LeftNext == ASSUME TypeOK', NEW c PROVE Left(c)' \in Int
BY CallAssumption DEF TypeOK, Left

LEMMA RunStep == ASSUME IInv, TypeOK', Count, NEW k \in Conn, RunMethod(k) \/ RunSignal(k)
                 PROVE Budget' /\ Future' /\ Known' /\ Earlier' /\ Distinct'
<1> USE CallAssumption DEF Conn, Call, None
<1>0. /\ TypeOK /\ Active /\ WorkFits /\ HalfDuplex /\ Known /\ Earlier /\ Distinct /\ Future /\ Budget
      /\ call \in 0..MaxCalls
  BY DEF IInv, Steady, Count, TypeOK
<1>1. /\ UNCHANGED <<client, call, attempts, sock, request>>
      /\ runs' = [runs EXCEPT ![work[k]] = @ + 1]
      /\ handler[k] \in {"callback", "signal", "last"}
      /\ \A j \in Conn : j # k => work'[j] = work[j] /\ handler'[j] = handler[j]
      /\ handler'[k] = "answer" \/ work'[k] = None
      /\ work'[k] \in {work[k], None}
  BY <1>0 DEF RunMethod, RunSignal, Run, Goes, rest, TypeOK
<1>2. work[k] \in Call /\ request[k] # work[k] /\ work[k] <= call
  BY <1>0, <1>1 DEF TypeOK, WorkFits, HalfDuplex, Known, Distinct
<1>3. /\ \A c \in Call : c # work[k] => runs'[c] = runs[c]
      /\ runs'[work[k]] = runs[work[k]] + 1
  BY <1>0, <1>1, <1>2 DEF TypeOK
<1>4. Future'  BY <1>0, <1>1, <1>2, <1>3 DEF Future
<1>5. Known' /\ Distinct'  BY <1>0, <1>1 DEF Known, Distinct, TypeOK
<1>6. Earlier'
  <2>1. sock # None => sock \in Conn  BY <1>0 DEF TypeOK
  <2> QED  BY <1>0, <1>1, <2>1, <1>2 DEF Earlier, Active
<1>7. ASSUME NEW c \in Call PROVE runs'[c] + Copies(c)' + Left(c)' <= attemptsMax
  <2>1. Left(c)' = Left(c) /\ Left(c) \in Int  BY <1>0, <1>1, LeftInt DEF Left
  <2>2. Copies(c) \in Nat /\ Copies(c)' \in Nat  BY PendingFinite, CopiesNext
  <2>3. runs[c] \in Nat /\ runs[c] + Copies(c) + Left(c) <= attemptsMax  BY <1>0 DEF Budget, TypeOK
  <2>4. CASE c = work[k]
    <3>1. k \in Pending(c)  BY <1>1, <2>4 DEF Pending
    <3>2. Pending(c)' \subseteq Pending(c) \ {k}  BY <1>1, <1>2, <2>4 DEF Pending
    <3>3. Copies(c)' <= Copies(c) - 1  BY <3>1, <3>2, PendingNext
    <3> QED  BY <1>3, <2>1, <2>2, <2>3, <2>4, <3>3
  <2>5. CASE c # work[k]
    <3>1. Pending(c)' \subseteq Pending(c)  BY <1>1, <2>5 DEF Pending
    <3>2. Copies(c)' <= Copies(c)  BY <3>1, PendingNext
    <3> QED  BY <1>3, <2>1, <2>2, <2>3, <2>5, <3>2
  <2> QED  BY <2>4, <2>5
<1>8. Budget'  BY <1>7 DEF Budget
<1> QED  BY <1>4, <1>5, <1>6, <1>8

LEMMA HandlerCount == ASSUME IInv, TypeOK', Count, NEW k \in Conn, HandlerStep(k) PROVE Count'
<1> USE CallAssumption DEF Conn, Call, None
<1>0. /\ TypeOK /\ Active /\ WorkFits /\ HalfDuplex /\ Line
      /\ Known /\ Earlier /\ Distinct /\ Future /\ Budget
  BY DEF IInv, Steady, Count
<1>1. CASE RunMethod(k) \/ RunSignal(k)  BY <1>1, RunStep DEF Count
<1>2. CASE ReceiveMethod(k) \/ AnswerSignal(k) \/ Answer(k) \/ Ends(k)
  <2>1. /\ UNCHANGED <<client, call, attempts, sock, runs>>
        /\ \A j \in Conn : j # k => /\ request'[j] = request[j] /\ work'[j] = work[j]
                                    /\ handler'[j] = handler[j]
    BY <1>0, <1>2 DEF ReceiveMethod, AnswerSignal, Answer, Ends, Goes, rest, TypeOK
  <2>2. \/ work'[k] = None /\ request'[k] \in {None, request[k]}
        \/ request[k] # None /\ work'[k] = request[k] /\ request'[k] = None
    BY <1>0, <1>2 DEF ReceiveMethod, AnswerSignal, Answer, Ends, Goes, rest, TypeOK
  <2>3. Known' /\ Distinct' /\ Future'
    <3>1. work[k] <= call /\ request[k] <= call /\ call \in Nat  BY <1>0 DEF Known, TypeOK
    <3>2. Known'  BY <1>0, <2>1, <2>2, <3>1 DEF Known
    <3>3. Distinct'  BY <1>0, <2>1, <2>2 DEF Distinct
    <3>4. Future'  BY <1>0, <2>1 DEF Future
    <3> QED  BY <3>2, <3>3, <3>4
  <2>4. Earlier'
    <3>1. sock # None => sock \in Conn  BY <1>0 DEF TypeOK
    <3> QED  BY <1>0, <2>1, <2>2, <3>1 DEF Earlier, Line, Quiet, Active
  <2>5. \A c \in Call : Pending(c)' \subseteq Pending(c)
    BY <2>1, <2>2 DEF Pending
  <2>6. \A c \in Call : Left(c)' = Left(c) /\ Left(c) \in Int  BY <1>0, <2>1, LeftInt DEF Left
  <2>7. Budget'  BY <1>0, <2>1, <2>5, <2>6, BudgetKept
  <2> QED  BY <2>3, <2>4, <2>7 DEF Count
<1> QED  BY <1>1, <1>2 DEF HandlerStep

LEMMA CountStep == ASSUME IInv, Count, [Next]_vars, TypeOK' PROVE Count'
<1> USE CallAssumption DEF Call, Conn, None
<1>0. /\ TypeOK /\ Active /\ Fresh /\ WorkFits /\ HalfDuplex /\ Line
      /\ Known /\ Earlier /\ Distinct /\ Future /\ Budget
      /\ call \in 0..MaxCalls /\ attempts \in 0..attemptsMax /\ opened \in 0..MaxConns
      /\ sock # None => sock \in Conn
  <2>1. /\ TypeOK /\ Active /\ Fresh /\ WorkFits /\ HalfDuplex /\ Line
        /\ Known /\ Earlier /\ Distinct /\ Future /\ Budget
    BY DEF IInv, Steady, Count
  <2>2. /\ call \in 0..MaxCalls /\ attempts \in 0..attemptsMax /\ opened \in 0..MaxConns
        /\ sock \in 0..opened
    BY <2>1 DEF TypeOK
  <2> QED  BY <2>1, <2>2
<1>a. \A c \in Call : Left(c) \in Int /\ Left(c)' \in Int  BY <1>0, LeftInt, LeftNext
<1>1. CASE Talk
  <2>1. /\ call' = call + 1 /\ call' \in Call /\ client' = "attempt" /\ attempts' = attemptsMax
        /\ client = "idle" /\ UNCHANGED <<sock, request, handler, work, runs>>
    BY <1>0, <1>1 DEF Talk, server
  <2>2. Known' /\ Earlier' /\ Distinct' /\ Future'
    <3>1. \A k \in Conn : request[k] \in Nat /\ work[k] \in Nat  BY <1>0 DEF TypeOK
    <3>2. Known'  BY <1>0, <2>1, <3>1 DEF Known
    <3>3. Earlier'  BY <1>0, <2>1, <3>1 DEF Known, Earlier
    <3>4. Distinct' /\ Future'  BY <1>0, <2>1 DEF Distinct, Future
    <3> QED  BY <3>2, <3>3, <3>4
  <2>3. ASSUME NEW c \in Call PROVE runs'[c] + Copies(c)' + Left(c)' <= attemptsMax
    <3>1. Pending(c)' = Pending(c)  BY <2>1 DEF Pending
    <3>2. Copies(c)' <= Copies(c) /\ Copies(c) \in Nat /\ Copies(c)' \in Nat
      BY <3>1, PendingNext, PendingFinite, CopiesNext
    <3>3. CASE c = call'
      <4>1. runs[c] = 0  BY <1>0, <2>1, <3>3 DEF Future
      <4>2. Pending(c) = {}  BY <1>0, <2>1, <3>3 DEF Known, Pending, TypeOK
      <4>3. Copies(c) = 0  BY <4>2, PendingFinite
      <4>4. Left(c)' = attemptsMax  BY <2>1, <3>3 DEF Left
      <4> QED  BY <2>1, <3>2, <4>1, <4>3, <4>4
    <3>4. CASE c # call'
      <4>1. Left(c)' = 0 /\ Left(c) = 0  BY <2>1, <3>4 DEF Left
      <4>2. runs[c] \in Nat /\ runs[c] + Copies(c) + Left(c) <= attemptsMax
        BY <1>0 DEF TypeOK, Budget
      <4> QED  BY <2>1, <3>2, <4>1, <4>2
    <3> QED  BY <3>3, <3>4
  <2>4. Budget'  BY <2>3 DEF Budget
  <2> QED  BY <2>2, <2>4 DEF Count
<1>2. CASE Send
  <2>1. /\ client = "send" /\ client' = "receive" /\ sock \in Conn /\ call \in Call
        /\ UNCHANGED <<call, attempts, sock, handler, work, runs>>
    BY <1>0, <1>2 DEF Send, server, Active
  <2>2. /\ \A k \in Conn : k # sock => request'[k] = request[k]
        /\ request'[sock] \in {None, call} /\ request[sock] = None /\ work[sock] # call
    BY <1>0, <1>2, <2>1 DEF Send, TypeOK, Line, Quiet, Earlier
  <2>3. Known' /\ Earlier' /\ Distinct' /\ Future'
    <3>1. Known'  BY <1>0, <2>1, <2>2 DEF Known
    <3>2. Distinct'  BY <1>0, <2>1, <2>2 DEF Distinct
    <3>3. Earlier' /\ Future'  BY <1>0, <2>1 DEF Earlier, Future
    <3> QED  BY <3>1, <3>2, <3>3
  <2>4. ASSUME NEW c \in Call PROVE runs'[c] + Copies(c)' + Left(c)' <= attemptsMax
    <3>1. Copies(c) \in Nat /\ Copies(c)' \in Nat /\ runs[c] \in Nat
          /\ runs[c] + Copies(c) + Left(c) <= attemptsMax
      BY <1>0, PendingFinite, CopiesNext DEF Budget, TypeOK
    <3>2. CASE c = call
      <4>1. Pending(c)' \subseteq Pending(c) \cup {sock}  BY <2>1, <2>2 DEF Pending
      <4>2. Copies(c)' <= Copies(c) + 1  BY <4>1, PendingNext
      <4>3. Left(c)' = Left(c) - 1  BY <1>0, <2>1, <3>2 DEF Left
      <4> QED  BY <1>a, <2>1, <3>1, <4>2, <4>3
    <3>3. CASE c # call
      <4>1. Pending(c)' \subseteq Pending(c)  BY <2>1, <2>2, <3>3 DEF Pending
      <4>2. Copies(c)' <= Copies(c)  BY <4>1, PendingNext
      <4>3. Left(c)' = 0 /\ Left(c) = 0  BY <2>1, <3>3 DEF Left
      <4> QED  BY <2>1, <3>1, <4>2, <4>3
    <3> QED  BY <3>2, <3>3
  <2>5. Budget'  BY <2>4 DEF Budget
  <2> QED  BY <2>3, <2>5 DEF Count
<1>3. ASSUME UNCHANGED <<call, work, runs>>,
             \A k \in Conn : request'[k] = request[k],
             \A c \in Call : Pending(c)' \subseteq Pending(c) /\ Left(c)' <= Left(c),
             Earlier'
      PROVE Count'
  <2>1. Known' /\ Distinct' /\ Future'
    BY <1>0, <1>3 DEF Known, Distinct, Future
  <2>2. Budget'  BY <1>0, <1>a, <1>3, BudgetKept
  <2> QED  BY <1>3, <2>1, <2>2 DEF Count
<1>4. CASE Connect
  <2>1. /\ client = "attempt" /\ client' = "send" /\ sock' = opened + 1 /\ sock' \in Conn
        /\ UNCHANGED <<call, attempts, request, work, runs>>
        /\ handler' = [handler EXCEPT ![sock'] = "reading"]
    BY <1>0, <1>4 DEF Connect
  <2>2. work[sock'] = None  BY <1>0, <2>1 DEF Fresh, WorkFits
  <2>3. \A c \in Call : Pending(c)' \subseteq Pending(c)
    BY <1>0, <2>1, <2>2 DEF Pending, TypeOK
  <2>4. \A c \in Call : Left(c)' <= Left(c)  BY <1>a, <2>1 DEF Left
  <2>5. Earlier'  BY <1>0, <2>1, <2>2 DEF Earlier, Active
  <2> QED  BY <1>3, <2>1, <2>3, <2>4, <2>5
<1>5. CASE Connected
  <2>1. /\ client = "attempt" /\ client' = "send"
        /\ UNCHANGED <<call, attempts, sock, request, handler, work, runs>>
    BY <1>5 DEF Connected, server
  <2>2. \A c \in Call : Left(c)' <= Left(c) /\ Pending(c)' = Pending(c)
    BY <1>a, <2>1 DEF Left, Pending
  <2>3. Earlier'  BY <1>0, <2>1 DEF Earlier
  <2> QED  BY <1>3, <2>1, <2>2, <2>3
<1>6. ASSUME AttemptFailed, client \in {"send", "receive"}, UNCHANGED request PROVE Count'
  <2>1. /\ client' \in {"attempt", "idle"} /\ attempts' = attempts - 1 /\ sock' = None
        /\ UNCHANGED <<call, handler, work, runs>>
    BY <1>6 DEF AttemptFailed, Returns, server
  <2>2. \A c \in Call : Left(c)' <= Left(c)
    BY <1>0, <1>6, <2>1 DEF Left, Active
  <2>3. \A c \in Call : Pending(c)' = Pending(c)  BY <1>6, <2>1 DEF Pending
  <2>4. Earlier'  BY <2>1 DEF Earlier
  <2> QED  BY <1>3, <1>6, <2>1, <2>2, <2>3, <2>4
<1>7. ASSUME client' = "idle", client # "idle",
             UNCHANGED <<call, request, handler, work, runs>>
      PROVE Count'
  <2>1. \A c \in Call : Left(c)' <= Left(c)  BY <1>0, <1>7 DEF Left, Active
  <2>2. \A c \in Call : Pending(c)' = Pending(c)  BY <1>7 DEF Pending
  <2>3. Earlier'  BY <1>7 DEF Earlier
  <2> QED  BY <1>3, <1>7, <2>1, <2>2, <2>3
<1>8. CASE CannotConnect
  BY <1>7, <1>8 DEF CannotConnect, Returns, server
<1>9. CASE Receive
  <2>1. CASE AttemptFailed  BY <1>6, <1>9, <2>1 DEF Receive
  <2>2. CASE ~AttemptFailed  BY <1>7, <1>9, <2>2 DEF Receive, Returns, server
  <2> QED  BY <2>1, <2>2
<1>10. CASE SendFails \/ ReceiveEof \/ Timeout
  BY <1>6, <1>10 DEF SendFails, ReceiveEof, Timeout
<1>11. CASE Start \/ Stop
  <2>1. UNCHANGED <<client, call, attempts, sock, request, handler, work, runs>>
    BY <1>11 DEF Start, Stop
  <2>2. \A c \in Call : Left(c)' <= Left(c) /\ Pending(c)' = Pending(c)
    BY <1>a, <2>1 DEF Left, Pending
  <2>3. Earlier'  BY <1>0, <2>1 DEF Earlier
  <2> QED  BY <1>3, <2>1, <2>2, <2>3
<1>12. CASE Killed
  <2>1. /\ UNCHANGED <<client, call, attempts, sock, runs>>
        /\ \A k \in Conn : request'[k] = None /\ handler'[k] = "ended" /\ work'[k] = None
    BY <1>12 DEF Killed
  <2>2. \A c \in Call : Left(c)' <= Left(c)  BY <1>a, <2>1 DEF Left
  <2>3. \A c \in Call : Pending(c)' \subseteq Pending(c)  BY <2>1 DEF Pending
  <2>4. Known' /\ Distinct' /\ Future'
    BY <1>0, <2>1 DEF Known, Distinct, Future
  <2>5. Earlier'  BY <1>0, <2>1 DEF Earlier, Active
  <2>6. Budget'  BY <1>0, <1>a, <2>1, <2>2, <2>3, BudgetKept
  <2> QED  BY <2>4, <2>5, <2>6 DEF Count
<1>13. CASE UNCHANGED vars
  <2>1. UNCHANGED <<client, call, attempts, sock, request, handler, work, runs>>
    BY <1>13 DEF vars, server
  <2>2. \A c \in Call : Left(c)' <= Left(c) /\ Pending(c)' = Pending(c)
    BY <1>a, <2>1 DEF Left, Pending
  <2>3. Earlier'  BY <1>0, <2>1 DEF Earlier
  <2> QED  BY <1>3, <2>1, <2>2, <2>3
<1>14. CASE Dropped
  <2>1. /\ client = "attempt" /\ client' = "send" /\ sock' = opened + 1 /\ sock' \in Conn
        /\ UNCHANGED <<call, attempts, request, handler, work, runs>>
    BY <1>0, <1>14 DEF Dropped, server
  <2>2. work[sock'] = None  BY <1>0, <2>1 DEF Fresh, WorkFits
  <2>3. \A c \in Call : Left(c)' <= Left(c) /\ Pending(c)' = Pending(c)
    BY <1>a, <2>1 DEF Left, Pending
  <2>4. Earlier'  BY <1>0, <2>1, <2>2 DEF Earlier, Active
  <2> QED  BY <1>3, <2>1, <2>3, <2>4
<1> QED
  BY <1>1, <1>2, <1>4, <1>5, <1>8, <1>9, <1>10, <1>11, <1>12, <1>13, <1>14, HandlerCount
  DEF Next, ClientStep

LEMMA InitIInv == Init => IInv /\ Count
<1> SUFFICES ASSUME Init PROVE IInv /\ Count
  OBVIOUS
<1> USE CallAssumption DEF Init, Call, Conn, None
<1>1. TypeOK
  <2>1. ClientOK  BY DEF ClientOK
  <2>2. LinesOK  BY DEF LinesOK
  <2>3. HandlersOK  BY DEF HandlersOK
  <2> QED  BY <2>1, <2>2, <2>3, TypeParts
<1>2. Steady  BY DEF Steady, Active, Fresh, WorkFits, HalfDuplex, Line, OwnAnswer
<1>3. Known /\ Earlier /\ Distinct /\ Future  BY DEF Known, Earlier, Distinct, Future
<1>4. ASSUME NEW c \in Call PROVE runs[c] + Copies(c) + Left(c) <= attemptsMax
  <2>1. Pending(c) = {}  BY DEF Pending
  <2>2. Copies(c) = 0  BY <2>1, PendingFinite
  <2> QED  BY <2>2 DEF Left
<1>5. Budget  BY <1>4 DEF Budget
<1> QED  BY <1>1, <1>2, <1>3, <1>5 DEF IInv, Count

LEMMA Invariant == Spec => [](IInv /\ Count)
<1>1. IInv /\ Count /\ [Next]_vars => IInv' /\ Count'
  BY TypeStep, SteadyStep, CountStep DEF IInv
<1> QED  BY InitIInv, <1>1, PTL DEF Spec

-----------------------------------------------------------------------------
(* What SmoothOnce needs.  A call that met no trouble and has not reached a handler was run
   by none and is nowhere on its way; once it has, it is run or on its way exactly once.
   Only its first attempt can meet a connection whose handler has ended, one of a server
   that was stopped before the call, and the server is up while it lasts. *)
Total(c) == runs[c] + Copies(c)
Open(c) == c = call /\ client # "idle"
Unsent == client # "receive" \/ handler[sock] = "ended"
Unanswered == \A c \in Call : c > call \/ Open(c) => result[c] = "none"
LastLeft == sock # None => handler[sock] # "last"
Onward == client # "idle" /\ call \notin troubled =>
            /\ up
            /\ sock # None /\ (client = "attempt" \/ handler[sock] = "ended") => attempts = attemptsMax
            /\ client = "receive" /\ handler[sock] = "ended" => reply[sock] = None
Tally(c) == /\ \A k \in Conn : request[k] = c => k = sock /\ client = "receive" /\ c = call
            /\ Open(c) /\ Unsent => Total(c) = 0
            /\ ~(Open(c) /\ Unsent) => Total(c) = 1
            /\ ~Open(c) => result[c] = "ok"
Tallies == \A c \in Call \ troubled : c <= call => Tally(c)
Smooth == Unanswered /\ LastLeft /\ Onward /\ Tallies

LEMMA TotalKept == ASSUME NEW c, runs'[c] = runs[c], Pending(c)' = Pending(c)
                   PROVE Total(c)' = Total(c)
BY DEF Total, Copies

LEMMA TotalZero == ASSUME TypeOK, NEW c \in Call, Total(c) = 0
                   PROVE runs[c] = 0 /\ Pending(c) = {} /\ \A k \in Conn : request[k] # c
<1>1. runs[c] \in Nat /\ Copies(c) \in Nat /\ IsFiniteSet(Pending(c))  BY PendingFinite DEF TypeOK
<1>2. runs[c] = 0 /\ Copies(c) = 0  BY <1>1 DEF Total
<1>3. Pending(c) = {}  BY <1>1, <1>2, FS_EmptySet DEF Copies
<1> QED  BY <1>2, <1>3 DEF Pending

(* A handler that runs a call takes it off what is on its way. *)
LEMMA TotalRun == ASSUME IInv, Count, NEW k \in Conn, RunMethod(k) \/ RunSignal(k), NEW c \in Call
                  PROVE Total(c)' = Total(c)
<1> USE DEF Conn, Call, None
<1>0. TypeOK /\ WorkFits /\ HalfDuplex /\ Distinct  BY DEF IInv, Steady, Count
<1>1. /\ UNCHANGED request
      /\ runs' = [runs EXCEPT ![work[k]] = @ + 1]
      /\ handler[k] \in {"callback", "signal", "last"}
      /\ \A j \in Conn : j # k => work'[j] = work[j] /\ handler'[j] = handler[j]
      /\ handler'[k] = "answer" \/ work'[k] = None
      /\ work'[k] \in {work[k], None}
  BY <1>0 DEF RunMethod, RunSignal, Run, Goes, rest, TypeOK
<1>2. work[k] \in Call /\ request[k] # work[k]
  BY <1>0, <1>1 DEF TypeOK, WorkFits, HalfDuplex, Distinct
<1>3. CASE c = work[k]
  <2>1. k \in Pending(c) /\ Pending(c)' = Pending(c) \ {k}
    BY <1>1, <1>2, <1>3 DEF Pending
  <2>2. Copies(c)' = Copies(c) - 1 /\ Copies(c) \in Nat
    BY <2>1, PendingFinite DEF Copies
  <2>3. runs'[c] = runs[c] + 1 /\ runs[c] \in Nat
    BY <1>0, <1>1, <1>2, <1>3 DEF TypeOK
  <2> QED  BY <2>2, <2>3 DEF Total
<1>4. CASE c # work[k]
  <2>1. Pending(c)' = Pending(c)  BY <1>1, <1>2, <1>4 DEF Pending
  <2>2. runs'[c] = runs[c]  BY <1>0, <1>1, <1>2, <1>4 DEF TypeOK
  <2> QED  BY <2>1, <2>2, TotalKept
<1> QED  BY <1>3, <1>4

(* An attempt that fails is made again, unless the call met trouble. *)
LEMMA FailedSmooth == ASSUME IInv, Count, Smooth, attemptsMax > 1, AttemptFailed,
                             client # "idle", UNCHANGED request, troubled \subseteq troubled',
                             call \in troubled' \/ (Unsent /\ attempts = attemptsMax)
                      PROVE Smooth'
<1> USE CallAssumption DEF Call, Conn, None
<1>0. /\ TypeOK /\ Active /\ call \in 0..MaxCalls /\ call \in Call
      /\ Unanswered /\ Onward /\ Tallies
  BY DEF IInv, Steady, Smooth, TypeOK, Active
<1>1. /\ sock' = None /\ UNCHANGED <<call, runs, handler, work, up>>
      /\ \A c \in Call : c # call => result'[c] = result[c]
      /\ client' \in {"attempt", "idle"}
      /\ client' # "idle" => UNCHANGED result
      /\ attempts = attemptsMax => client' = "attempt"
  BY <1>0 DEF AttemptFailed, Returns, server, TypeOK
<1>2. LastLeft'  BY <1>1 DEF LastLeft
<1>3. Unanswered'  BY <1>0, <1>1 DEF Unanswered, Open
<1>4. Onward'  BY <1>0, <1>1 DEF Onward
<1>5. ASSUME NEW c \in Call \ troubled', c <= call' PROVE Tally(c)'
  <2>1. Tally(c) /\ c \in Call  BY <1>0, <1>1, <1>5 DEF Tallies
  <2>2. Total(c)' = Total(c)  BY <1>1, TotalKept DEF Pending
  <2>3. CASE c = call
    <3>1. Unsent /\ client' = "attempt"  BY <1>1, <1>5, <2>3
    <3>2. Total(c) = 0  BY <2>1, <2>3, <3>1 DEF Tally, Open
    <3>3. \A k \in Conn : request[k] # c  BY <1>0, <2>1, <3>2, TotalZero
    <3> QED  BY <1>1, <2>2, <2>3, <3>1, <3>2, <3>3 DEF Tally, Open, Unsent
  <2>4. CASE c # call
    BY <1>1, <2>1, <2>2, <2>4 DEF Tally, Open, Unsent
  <2> QED  BY <2>3, <2>4
<1>6. Tallies'  BY <1>5 DEF Tallies
<1> QED  BY <1>2, <1>3, <1>4, <1>6 DEF Smooth

LEMMA HandlerSmooth == ASSUME IInv, Count, Smooth, NEW k \in Conn, HandlerStep(k) PROVE Smooth'
<1> USE CallAssumption DEF Call, Conn, None
<1>0. /\ TypeOK /\ Active /\ WorkFits /\ HalfDuplex /\ Line /\ Distinct
      /\ Unanswered /\ LastLeft /\ Onward /\ Tallies
  BY DEF IInv, Steady, Smooth, Count
<1>1. /\ UNCHANGED <<client, call, attempts, sock, up, result, troubled>>
      /\ handler[k] # "ended"
      /\ \A j \in Conn : j # k => /\ request'[j] = request[j] /\ reply'[j] = reply[j]
                                  /\ handler'[j] = handler[j] /\ work'[j] = work[j]
      /\ request'[k] \in {None, request[k]}
  BY <1>0 DEF HandlerStep, ReceiveMethod, RunMethod, Run, Answer, AnswerSignal, RunSignal, Ends,
              Goes, rest, told, TypeOK
<1>2. handler'[k] = "ended" => handler[k] = "last" \/ Ends(k)
  BY <1>0 DEF HandlerStep, ReceiveMethod, RunMethod, Answer, AnswerSignal, RunSignal, Goes, TypeOK
<1>3. handler'[k] = "last" => sock # k \/ handler[k] = "last"
  BY <1>0 DEF HandlerStep, ReceiveMethod, RunMethod, Answer, AnswerSignal, RunSignal, Ends, Goes, TypeOK
<1>4. client # "idle" /\ call \notin troubled /\ sock = k => handler'[k] # "ended"
  BY <1>0, <1>1, <1>2 DEF Ends, LastLeft, Onward
<1>5. sock # None => sock \in Conn  BY <1>0 DEF TypeOK
<1>6. LastLeft'  BY <1>0, <1>1, <1>3, <1>5 DEF LastLeft
<1>7. Unanswered'  BY <1>0, <1>1 DEF Unanswered, Open
<1>8. Onward'  BY <1>0, <1>1, <1>4, <1>5 DEF Onward, Active
<1>9. ASSUME NEW c \in Call \ troubled', c <= call' PROVE Tally(c)'
  <2>1. Tally(c) /\ c \in Call /\ c \notin troubled  BY <1>0, <1>1, <1>9 DEF Tallies
  <2>2. Total(c)' = Total(c)
    <3>1. CASE RunMethod(k) \/ RunSignal(k)  BY <2>1, <3>1, TotalRun
    <3>2. CASE ReceiveMethod(k) \/ AnswerSignal(k)
      <4>1. /\ handler[k] = "reading" /\ request[k] # None /\ work'[k] = request[k]
            /\ request'[k] = None /\ handler'[k] # "answer" /\ UNCHANGED runs
        BY <1>0, <3>2 DEF ReceiveMethod, AnswerSignal, Goes, TypeOK
      <4>2. work[k] = None  BY <1>0, <4>1 DEF WorkFits
      <4>3. Pending(c)' = Pending(c)  BY <1>1, <2>1, <4>1, <4>2 DEF Pending
      <4> QED  BY <4>1, <4>3, TotalKept
    <3>3. CASE Answer(k)
      <4>1. /\ handler[k] = "answer" /\ work'[k] = None /\ UNCHANGED <<request, runs>>
        BY <1>0, <3>3 DEF Answer, Goes, TypeOK
      <4>2. Pending(c)' = Pending(c)  BY <1>1, <2>1, <4>1 DEF Pending
      <4> QED  BY <4>1, <4>2, TotalKept
    <3>4. CASE Ends(k)
      <4>1. /\ handler[k] \in {"reading", "answer"} /\ (sock # k \/ ~up)
            /\ work'[k] = None /\ request'[k] = None /\ UNCHANGED runs
        BY <1>0, <3>4 DEF Ends, TypeOK
      <4>2. request[k] # c  BY <1>0, <2>1, <4>1 DEF Tally, Onward
      <4>3. handler[k] = "reading" => work[k] = None  BY <1>0 DEF WorkFits
      <4>4. Pending(c)' = Pending(c)  BY <1>1, <2>1, <4>1, <4>2, <4>3 DEF Pending
      <4> QED  BY <4>1, <4>4, TotalKept
    <3> QED  BY <3>1, <3>2, <3>3, <3>4 DEF HandlerStep
  <2>3. Open(c) => (Unsent' <=> Unsent)
    BY <1>0, <1>1, <1>4, <1>5, <2>1 DEF Open, Unsent, Active
  <2>4. Open(c)' <=> Open(c)  BY <1>1 DEF Open
  <2>5. \A j \in Conn : request'[j] = c => request[j] = c  BY <1>1, <2>1
  <2> QED  BY <1>1, <2>1, <2>2, <2>3, <2>4, <2>5 DEF Tally
<1>10. Tallies'  BY <1>9 DEF Tallies
<1> QED  BY <1>6, <1>7, <1>8, <1>10 DEF Smooth

LEMMA SmoothStep == ASSUME IInv, Count, Smooth, attemptsMax > 1, [Next]_vars PROVE Smooth'
<1> USE CallAssumption DEF Call, Conn, None
<1>0. /\ TypeOK /\ Active /\ Fresh /\ WorkFits /\ HalfDuplex /\ Line /\ Known /\ Future /\ Earlier
      /\ Unanswered /\ LastLeft /\ Onward /\ Tallies
      /\ call \in 0..MaxCalls /\ opened \in 0..MaxConns /\ (sock # None => sock \in Conn)
  BY DEF IInv, Steady, Smooth, Count, TypeOK
<1>1. CASE Talk
  <2>1. /\ call' = call + 1 /\ call' \in Call /\ client' = "attempt" /\ attempts' = attemptsMax
        /\ client = "idle" /\ UNCHANGED <<sock, request, reply, handler, work, runs, up, result>>
        /\ troubled \subseteq troubled' /\ (call' \notin troubled' => up)
    BY <1>0, <1>1 DEF Talk, server, told
  <2>2. LastLeft'  BY <1>0, <2>1 DEF LastLeft
  <2>3. Unanswered'  BY <1>0, <2>1 DEF Unanswered, Open
  <2>4. Onward'  BY <2>1 DEF Onward
  <2>5. ASSUME NEW c \in Call \ troubled', c <= call' PROVE Tally(c)'
    <3>1. Total(c)' = Total(c)  BY <2>1, TotalKept DEF Pending
    <3>2. CASE c = call'
      <4>1. runs[c] = 0  BY <1>0, <2>1, <3>2 DEF Future
      <4>2. Pending(c) = {} /\ \A k \in Conn : request[k] # c
        BY <1>0, <2>1, <3>2 DEF Known, Pending, TypeOK
      <4>3. Total(c) = 0  BY <4>1, <4>2, PendingFinite DEF Total
      <4> QED  BY <2>1, <3>1, <3>2, <4>2, <4>3 DEF Tally, Open, Unsent
    <3>3. CASE c # call'
      <4>1. c <= call /\ c \in Call \ troubled  BY <1>0, <2>1, <2>5, <3>3
      <4>2. Tally(c)  BY <1>0, <4>1 DEF Tallies
      <4> QED  BY <2>1, <3>1, <3>3, <4>2 DEF Tally, Open, Unsent
    <3> QED  BY <3>2, <3>3
  <2>6. Tallies'  BY <2>5 DEF Tallies
  <2> QED  BY <2>2, <2>3, <2>4, <2>6 DEF Smooth
<1>2. CASE Connect
  <2>1. /\ client = "attempt" /\ client' = "send" /\ sock' = opened + 1 /\ sock' \in Conn
        /\ sock = None /\ up /\ UNCHANGED <<call, attempts, request, work, runs, up, result, troubled>>
        /\ handler' = [handler EXCEPT ![sock'] = "reading"]
    BY <1>0, <1>2 DEF Connect, told
  <2>2. work[sock'] = None  BY <1>0, <2>1 DEF Fresh, WorkFits
  <2>3. handler'[sock'] = "reading"  BY <1>0, <2>1 DEF TypeOK
  <2>4. LastLeft' /\ Onward'  BY <2>1, <2>3 DEF LastLeft, Onward
  <2>5. Unanswered'  BY <1>0, <2>1 DEF Unanswered, Open
  <2>6. ASSUME NEW c \in Call \ troubled', c <= call' PROVE Tally(c)'
    <3>1. Tally(c)  BY <1>0, <2>1, <2>6 DEF Tallies
    <3>2. Pending(c)' = Pending(c)  BY <1>0, <2>1, <2>2 DEF Pending, TypeOK
    <3>3. Total(c)' = Total(c)  BY <2>1, <3>2, TotalKept
    <3> QED  BY <2>1, <3>1, <3>3 DEF Tally, Open, Unsent
  <2>7. Tallies'  BY <2>6 DEF Tallies
  <2> QED  BY <2>4, <2>5, <2>7 DEF Smooth
<1>3. CASE Connected
  <2>1. /\ client = "attempt" /\ client' = "send" /\ sock # None
        /\ UNCHANGED <<call, attempts, sock, request, reply, handler, work, runs, up, result, troubled>>
    BY <1>3 DEF Connected, server, told
  <2>2. LastLeft' /\ Onward'  BY <1>0, <2>1 DEF LastLeft, Onward
  <2>3. Unanswered'  BY <1>0, <2>1 DEF Unanswered, Open
  <2>4. ASSUME NEW c \in Call \ troubled', c <= call' PROVE Tally(c)'
    <3>1. Tally(c)  BY <1>0, <2>1, <2>4 DEF Tallies
    <3>2. Total(c)' = Total(c)  BY <2>1, TotalKept DEF Pending
    <3> QED  BY <2>1, <3>1, <3>2 DEF Tally, Open, Unsent
  <2>5. Tallies'  BY <2>4 DEF Tallies
  <2> QED  BY <2>2, <2>3, <2>5 DEF Smooth
<1>4. CASE CannotConnect
  <2>1. /\ client = "attempt" /\ client' = "idle" /\ sock = None
        /\ result' = [result EXCEPT ![call] = "failed"]
        /\ UNCHANGED <<call, sock, request, reply, handler, work, runs, up>>
        /\ troubled \subseteq troubled' /\ (~up \/ call \in troubled') /\ call \in Call
    BY <1>0, <1>4 DEF CannotConnect, Returns, server, Active
  <2>2. call \in troubled'  BY <1>0, <2>1 DEF Onward
  <2>3. LastLeft' /\ Onward'  BY <2>1 DEF LastLeft, Onward
  <2>4. \A c \in Call : c # call => result'[c] = result[c]  BY <1>0, <2>1 DEF TypeOK
  <2>5. Unanswered'  BY <1>0, <2>1, <2>4 DEF Unanswered, Open
  <2>6. ASSUME NEW c \in Call \ troubled', c <= call' PROVE Tally(c)'
    <3>1. Tally(c) /\ c # call  BY <1>0, <2>1, <2>2, <2>6 DEF Tallies
    <3>2. Total(c)' = Total(c)  BY <2>1, TotalKept DEF Pending
    <3> QED  BY <2>1, <2>4, <3>1, <3>2 DEF Tally, Open, Unsent
  <2>7. Tallies'  BY <2>6 DEF Tallies
  <2> QED  BY <2>3, <2>5, <2>7 DEF Smooth
<1>5. CASE Send
  <2>1. /\ client = "send" /\ client' = "receive" /\ sock \in Conn /\ call \in Call
        /\ UNCHANGED <<call, attempts, sock, reply, handler, work, runs, up, result, troubled>>
    BY <1>0, <1>5 DEF Send, server, told, Active
  <2>2. /\ \A k \in Conn : k # sock => request'[k] = request[k]
        /\ handler[sock] = "ended" => request' = request
        /\ handler[sock] # "ended" => request'[sock] = call
        /\ request[sock] = None /\ reply[sock] = None
    BY <1>0, <1>5, <2>1 DEF Send, TypeOK, Line, Quiet
  <2>3. LastLeft' /\ Onward'  BY <1>0, <2>1, <2>2 DEF LastLeft, Onward
  <2>4. Unanswered'  BY <1>0, <2>1 DEF Unanswered, Open
  <2>5. ASSUME NEW c \in Call \ troubled', c <= call' PROVE Tally(c)'
    <3>1. Tally(c)  BY <1>0, <2>1, <2>5 DEF Tallies
    <3>2. CASE handler[sock] = "ended"
      <4>1. Total(c)' = Total(c)  BY <2>1, <2>2, <3>2, TotalKept DEF Pending
      <4> QED  BY <2>1, <2>2, <3>1, <3>2, <4>1 DEF Tally, Open, Unsent
    <3>3. CASE handler[sock] # "ended" /\ c # call
      <4>1. Pending(c)' = Pending(c)  BY <2>1, <2>2, <3>3 DEF Pending
      <4>2. Total(c)' = Total(c)  BY <2>1, <4>1, TotalKept
      <4> QED  BY <2>1, <2>2, <3>1, <3>3, <4>2 DEF Tally, Open, Unsent
    <3>4. CASE handler[sock] # "ended" /\ c = call
      <4>1. Total(c) = 0  BY <2>1, <3>1, <3>4 DEF Tally, Open, Unsent
      <4>2. runs[c] = 0 /\ Pending(c) = {} /\ \A k \in Conn : request[k] # c
        BY <1>0, <4>1, TotalZero
      <4>3. Pending(c)' = {sock}
        <5>1. \A k \in Conn : ~(work[k] = c /\ handler[k] # "answer")
          BY <4>2 DEF Pending
        <5>2. \A k \in Conn : request'[k] = c <=> k = sock
          BY <2>1, <2>2, <3>4, <4>2
        <5> QED  BY <2>1, <5>1, <5>2 DEF Pending
      <4>4. Copies(c)' = 1  BY <4>3, FS_Singleton DEF Copies
      <4>5. Total(c)' = 1  BY <2>1, <4>2, <4>4 DEF Total
      <4> QED  BY <2>1, <2>2, <3>4, <4>2, <4>5 DEF Tally, Open, Unsent
    <3> QED  BY <3>2, <3>3, <3>4
  <2>6. Tallies'  BY <2>5 DEF Tallies
  <2> QED  BY <2>3, <2>4, <2>6 DEF Smooth
<1>6. CASE SendFails \/ ReceiveEof \/ Timeout
  <2>1. /\ AttemptFailed /\ client # "idle" /\ UNCHANGED request /\ troubled \subseteq troubled'
        /\ sock # None
        /\ call \in troubled' \/ handler[sock] = "ended"
    BY <1>0, <1>6 DEF SendFails, ReceiveEof, Timeout, Active
  <2>2. call \in troubled' \/ (Unsent /\ attempts = attemptsMax)
    BY <1>0, <2>1 DEF Unsent, Onward
  <2> QED  BY <2>1, <2>2, FailedSmooth
<1>7. CASE Receive
  <2>1. /\ client = "receive" /\ sock \in Conn /\ call \in Call
        /\ reply[sock] = call /\ Quiet(sock) /\ reply[sock] # None
    BY <1>0, <1>7 DEF Receive, Active, Line
  <2>2. /\ result' = [result EXCEPT ![call] = "ok"] /\ client' = "idle"
        /\ UNCHANGED <<call, attempts, sock, request, handler, work, runs, up, troubled>>
    BY <1>7, <2>1 DEF Receive, Returns, server
  <2>3. /\ result'[call] = "ok" /\ \A c \in Call : c # call => result'[c] = result[c]
    BY <1>0, <2>1, <2>2 DEF TypeOK
  <2>4. LastLeft' /\ Onward'  BY <1>0, <2>2 DEF LastLeft, Onward
  <2>5. Unanswered'  BY <1>0, <2>2, <2>3 DEF Unanswered, Open
  <2>6. ASSUME NEW c \in Call \ troubled', c <= call' PROVE Tally(c)'
    <3>1. Tally(c)  BY <1>0, <2>2, <2>6 DEF Tallies
    <3>2. Total(c)' = Total(c)  BY <2>2, TotalKept DEF Pending
    <3>3. c = call => ~Unsent  BY <1>0, <2>1, <2>2, <2>6 DEF Onward, Unsent
    <3>4. \A k \in Conn : request[k] # c  BY <2>1, <3>1 DEF Tally, Quiet
    <3> QED  BY <2>2, <2>3, <3>1, <3>2, <3>3, <3>4 DEF Tally, Open
  <2>7. Tallies'  BY <2>6 DEF Tallies
  <2> QED  BY <2>4, <2>5, <2>7 DEF Smooth
<1>8. CASE Start \/ Stop
  <2>1. /\ UNCHANGED <<client, call, attempts, sock, request, reply, handler, work, runs, result>>
        /\ troubled \subseteq troubled' /\ (client # "idle" => up' \/ call \in troubled')
    BY <1>8 DEF Start, Stop, told, InCall
  <2>2. LastLeft' /\ Onward'  BY <1>0, <2>1 DEF LastLeft, Onward
  <2>3. Unanswered'  BY <1>0, <2>1 DEF Unanswered, Open
  <2>4. ASSUME NEW c \in Call \ troubled', c <= call' PROVE Tally(c)'
    <3>1. Tally(c)  BY <1>0, <2>1, <2>4 DEF Tallies
    <3>2. Total(c)' = Total(c)  BY <2>1, TotalKept DEF Pending
    <3> QED  BY <2>1, <3>1, <3>2 DEF Tally, Open, Unsent
  <2>5. Tallies'  BY <2>4 DEF Tallies
  <2> QED  BY <2>2, <2>3, <2>5 DEF Smooth
<1>9. CASE Killed
  <2>1. /\ UNCHANGED <<client, call, attempts, sock, runs, result>>
        /\ \A k \in Conn : request'[k] = None /\ handler'[k] = "ended" /\ work'[k] = None
        /\ troubled \subseteq troubled' /\ (client # "idle" => call \in troubled')
        /\ \A k \in Conn : work[k] # None => work[k] \in troubled'
    BY <1>9 DEF Killed, told, InCall
  <2>2. LastLeft' /\ Onward'  BY <1>0, <2>1 DEF LastLeft, Onward
  <2>3. Unanswered'  BY <1>0, <2>1 DEF Unanswered, Open
  <2>4. ASSUME NEW c \in Call \ troubled', c <= call' PROVE Tally(c)'
    <3>1. Tally(c) /\ c \in Call  BY <1>0, <2>1, <2>4 DEF Tallies
    <3>2. ~Open(c)  BY <2>1, <2>4 DEF Open
    <3>3. \A k \in Conn : request[k] # c /\ work[k] # c
      BY <2>1, <2>4, <3>1, <3>2 DEF Tally, Open
    <3>4. Pending(c)' = Pending(c)  BY <2>1, <3>1, <3>3 DEF Pending
    <3>5. Total(c)' = Total(c)  BY <2>1, <3>4, TotalKept
    <3> QED  BY <2>1, <3>1, <3>2, <3>5 DEF Tally, Open
  <2>5. Tallies'  BY <2>4 DEF Tallies
  <2> QED  BY <2>2, <2>3, <2>5 DEF Smooth
<1>10. CASE UNCHANGED vars
  <2>1. UNCHANGED <<client, call, attempts, sock, request, reply, handler, work, runs, up, result, troubled>>
    BY <1>10 DEF vars, server, told
  <2>2. LastLeft' /\ Onward'  BY <1>0, <2>1 DEF LastLeft, Onward
  <2>3. Unanswered'  BY <1>0, <2>1 DEF Unanswered, Open
  <2>4. ASSUME NEW c \in Call \ troubled', c <= call' PROVE Tally(c)'
    <3>1. Tally(c)  BY <1>0, <2>1, <2>4 DEF Tallies
    <3>2. Total(c)' = Total(c)  BY <2>1, TotalKept DEF Pending
    <3> QED  BY <2>1, <3>1, <3>2 DEF Tally, Open, Unsent
  <2>5. Tallies'  BY <2>4 DEF Tallies
  <2> QED  BY <2>2, <2>3, <2>5 DEF Smooth
<1>11. CASE Dropped
  <2>1. /\ client = "attempt" /\ client' = "send" /\ call \in troubled'
        /\ UNCHANGED <<call, attempts, request, handler, work, runs, up, result>>
        /\ sock = None /\ sock' \in Conn /\ sock' = opened + 1 /\ troubled \subseteq troubled'
    BY <1>0, <1>11 DEF Dropped, server, told
  <2>2. handler[sock'] = "ended"  BY <1>0, <2>1 DEF Fresh
  <2>3. LastLeft' /\ Onward'  BY <2>1, <2>2 DEF LastLeft, Onward
  <2>4. Unanswered'  BY <1>0, <2>1 DEF Unanswered, Open
  <2>5. ASSUME NEW c \in Call \ troubled', c <= call' PROVE Tally(c)'
    <3>1. Tally(c) /\ c # call  BY <1>0, <2>1, <2>5 DEF Tallies
    <3>2. Total(c)' = Total(c)  BY <2>1, TotalKept DEF Pending
    <3> QED  BY <2>1, <3>1, <3>2 DEF Tally, Open, Unsent
  <2>6. Tallies'  BY <2>5 DEF Tallies
  <2> QED  BY <2>3, <2>4, <2>6 DEF Smooth
<1> QED
  BY <1>1, <1>2, <1>3, <1>4, <1>5, <1>6, <1>7, <1>8, <1>9, <1>10, <1>11, HandlerSmooth
  DEF Next, ClientStep

-----------------------------------------------------------------------------
(* Every variable keeps its type: the attempts never get below zero. *)
THEOREM RpcCallTypeCorrect == Spec => []TypeOK
<1>1. IInv => TypeOK  BY DEF IInv
<1> QED  BY Invariant, <1>1, PTL

(* However the server is stopped, killed or late, a call that returns well returns its own
   answer: an attempt that fails takes its connection with it. *)
THEOREM OwnAnswers == Spec => []OwnAnswer
<1>1. IInv => OwnAnswer  BY DEF IInv, Steady
<1> QED  BY Invariant, <1>1, PTL

(* RPC_ClientParams::attemptsMax bounds how often the server runs a call, the copies that
   are still on their way when it returns included. *)
THEOREM RunsAreBounded == Spec => []RunsBounded
<1>1. IInv /\ Count => RunsBounded
  <2> SUFFICES ASSUME IInv, Count, NEW c \in Call PROVE runs[c] + Copies(c) <= attemptsMax
    BY DEF RunsBounded
  <2>1. runs[c] + Copies(c) + Left(c) <= attemptsMax  BY DEF Count, Budget
  <2>2. Left(c) \in Nat  BY CallAssumption DEF IInv, TypeOK, Steady, Active, Left
  <2>3. runs[c] \in Nat /\ Copies(c) \in Nat  BY PendingFinite DEF IInv, TypeOK
  <2> QED  BY <2>1, <2>2, <2>3, CallAssumption
<1> QED  BY Invariant, <1>1, PTL

(* With more than one attempt (RPC_Client::ATTEMPTS_DEFAULT is 2, unp_rpc_client.h:29), a
   call that meets no timeout, no stop of the server and no connection that cannot be made or
   that the server drops succeeds and is run exactly once:
   the retry on a connection whose server was restarted neither loses nor repeats it
   (RPC_ClientImpl::Talk). *)
THEOREM SmoothCalls == ASSUME attemptsMax > 1 PROVE Spec => []SmoothOnce
<1>1. Init => Smooth
  BY CallAssumption
  DEF Init, Smooth, Unanswered, Open, LastLeft, Onward, Tallies, Call, Conn, None
<1>2. IInv /\ Count /\ Smooth /\ [Next]_vars => Smooth'  BY SmoothStep
<1>3. IInv /\ Count /\ Smooth => SmoothOnce
  <2> SUFFICES ASSUME IInv, Count, Smooth, NEW c \in Call, result[c] # "none", c \notin troubled
               PROVE result[c] = "ok" /\ runs[c] + Copies(c) = 1
    BY DEF SmoothOnce
  <2>1. call \in 0..MaxCalls /\ ~(c > call) /\ ~Open(c)
    BY DEF IInv, TypeOK, Smooth, Unanswered
  <2>2. Tally(c)  BY <2>1 DEF Smooth, Tallies, Call
  <2> QED  BY <2>1, <2>2 DEF Tally, Total
<1> QED  BY Invariant, <1>1, <1>2, <1>3, PTL DEF Spec
=============================================================================
