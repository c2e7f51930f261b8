------------------------------ MODULE RpcServer -------------------------------
(***************************************************************************)
(* The threads of an RPC server (unp_rpc_server*.cc).  Start creates the   *)
(* accept thread; it gives every connection to a thread of its own, which  *)
(* it keeps in a slot and joins when it needs the slot again.  Stop        *)
(* cancels and joins the accept thread, whose cleanup handler cancels the  *)
(* others, waits until none is busy and joins them.                        *)
(*                                                                         *)
(* A thread acts on pthread_cancel at a cancellation point while it has    *)
(* not disabled it: accept, the calls on a socket, and pthread_join, which *)
(* GetCmdHandlerAvl_lock calls with the mutex locked.  What a thread does  *)
(* between locking and unlocking is one action where no cancellation point *)
(* is inside.                                                              *)
(***************************************************************************)
EXTENDS Integers, FiniteSets

CONSTANT MaxConns       \* bound: connections made, and with it handler threads
ASSUME ConnsAssumption == MaxConns \in Nat

Slot == 1..MaxConns
NoThread == 0
Accepter == MaxConns + 1

VARIABLES user,          \* what Start and Stop are doing: "idle" or "joining"
          acceptTidOk,
          accepter,      \* where the accept thread is, "none" without one
          cancelled,     \* threads with a cancellation pending
          mutex,         \* SharedData's condMutex: who holds it
          cmdHandlers,   \* slots in the list
          state,         \* CmdHandleInfo::state
          handler,       \* where a slot's thread is, "none" without one
          taken,         \* the slot the accept thread is working on
          cmdHandlersBusyCount,
          backlog,       \* connections waiting to be accepted
          made           \* connections made

thread == <<handler, state, cmdHandlersBusyCount>>
vars == <<user, acceptTidOk, accepter, cancelled, mutex, cmdHandlers, thread, taken,
          backlog, made>>

AcceptPoints == {"none", "accept", "lock", "find", "join", "create", "mark",
                 "cancel", "wait", "sleep", "joinall", "ended"}
HandlerPoints == {"none", "socket", "callback", "finish", "trigger", "ended"}

Init == /\ user = "idle" /\ acceptTidOk = FALSE /\ accepter = "none"
        /\ cancelled = {} /\ mutex = NoThread /\ cmdHandlers = 0
        /\ state = [s \in Slot |-> "AVL"] /\ handler = [s \in Slot |-> "none"]
        /\ taken = 0 /\ cmdHandlersBusyCount = 0 /\ backlog = 0 /\ made = 0

At(here, there) == accepter = here /\ accepter' = there

-----------------------------------------------------------------------------
(* RPC_ServerImpl and the clients. *)
Start == /\ user = "idle" /\ ~acceptTidOk /\ acceptTidOk' = TRUE
         /\ At("none", "accept")
         /\ UNCHANGED <<user, cancelled, mutex, cmdHandlers, thread, taken, backlog, made>>

Stop == /\ user = "idle" /\ acceptTidOk /\ user' = "joining"
        /\ cancelled' = cancelled \cup {Accepter}
        /\ UNCHANGED <<acceptTidOk, accepter, mutex, cmdHandlers, thread, taken, backlog, made>>

Stopped == /\ user = "joining" /\ user' = "idle" /\ At("ended", "none")
           /\ acceptTidOk' = FALSE /\ cancelled' = cancelled \ {Accepter}
           /\ UNCHANGED <<mutex, cmdHandlers, thread, taken, backlog, made>>

Connect == /\ accepter \notin {"none", "ended"} /\ made < MaxConns
           /\ made' = made + 1 /\ backlog' = backlog + 1
           /\ UNCHANGED <<user, acceptTidOk, accepter, cancelled, mutex, cmdHandlers, thread, taken>>

-----------------------------------------------------------------------------
(* RPC_Server_CmdAccept_th and GetCmdHandlerAvl_lock. *)
Accept == /\ At("accept", "lock") /\ Accepter \notin cancelled
          /\ backlog > 0 /\ backlog' = backlog - 1
          /\ UNCHANGED <<user, acceptTidOk, cancelled, mutex, cmdHandlers, thread, taken, made>>

(* Its options could not be set: the connection is closed. *)
Dropped == /\ accepter = "accept" /\ Accepter \notin cancelled
           /\ backlog > 0 /\ backlog' = backlog - 1
           /\ UNCHANGED <<user, acceptTidOk, accepter, cancelled, mutex, cmdHandlers, thread, taken, made>>

LockShared == /\ At("lock", "find") /\ mutex = NoThread /\ mutex' = Accepter
              /\ UNCHANGED <<user, acceptTidOk, cancelled, cmdHandlers, thread, taken, backlog, made>>

NotBusy == {s \in 1..cmdHandlers : state[s] # "BUSY"}

(* The first slot that is not busy, or a new one at the end of the list. *)
FindSlot == /\ accepter = "find"
            /\ \/ /\ \E s \in NotBusy : (\A t \in NotBusy : s <= t) /\ taken' = s
                  /\ accepter' = IF state[taken'] = "ZOMBIE" THEN "join" ELSE "create"
                  /\ UNCHANGED cmdHandlers
               \/ /\ NotBusy = {}
                  /\ taken' = cmdHandlers + 1 /\ cmdHandlers' = cmdHandlers + 1
                  /\ accepter' = "create"
            /\ UNCHANGED <<user, acceptTidOk, cancelled, mutex, thread, backlog, made>>

Join(s) == /\ state[s] = "ZOMBIE" /\ handler[s] = "ended"
           /\ state' = [state EXCEPT ![s] = "AVL"]
           /\ handler' = [handler EXCEPT ![s] = "none"]
           /\ UNCHANGED cmdHandlersBusyCount

JoinZombie == /\ At("join", "create") /\ Join(taken)
              /\ cancelled' = cancelled \ {taken}
              /\ UNCHANGED <<user, acceptTidOk, mutex, cmdHandlers, taken, backlog, made>>

(* pthread_create; the new thread runs at once. *)
CreateHandler == /\ At("create", "mark")
                 /\ handler' = [handler EXCEPT ![taken] = "socket"]
                 /\ UNCHANGED <<user, acceptTidOk, cancelled, mutex, cmdHandlers, state,
                                cmdHandlersBusyCount, taken, backlog, made>>
CreateFails == /\ At("create", "accept") /\ mutex' = NoThread
               /\ UNCHANGED <<user, acceptTidOk, cancelled, cmdHandlers, thread, taken, backlog, made>>

MarkBusy == /\ At("mark", "accept") /\ mutex' = NoThread
            /\ state' = [state EXCEPT ![taken] = "BUSY"]
            /\ cmdHandlersBusyCount' = cmdHandlersBusyCount + 1
            /\ UNCHANGED <<user, acceptTidOk, cancelled, cmdHandlers, handler, taken, backlog, made>>

(* The accept thread is cancelled where it waits for a connection, or for a zombie that
   still runs: the mutex stays locked then. *)
CancelAccept == /\ Accepter \in cancelled
                /\ At("accept", "cancel")
                /\ UNCHANGED <<user, acceptTidOk, cancelled, mutex, cmdHandlers, thread, taken, backlog, made>>
CancelJoin == /\ Accepter \in cancelled
              /\ At("join", "cancel") /\ handler[taken] # "ended"
              /\ UNCHANGED <<user, acceptTidOk, cancelled, mutex, cmdHandlers, thread, taken, backlog, made>>

(* ~CmdAcceptData, with cancellation disabled: cancel the busy handlers ... *)
CancelHandlers == /\ At("cancel", "wait") /\ mutex = NoThread
                  /\ cancelled' = cancelled \cup {s \in 1..cmdHandlers : state[s] = "BUSY"}
                  /\ UNCHANGED <<user, acceptTidOk, mutex, cmdHandlers, thread, taken, backlog, made>>

(* ... wait until none is busy (WaitCmdHandlerAvlAll) ... *)
WaitBusy == /\ accepter = "wait" /\ mutex = NoThread
            /\ IF cmdHandlersBusyCount > 0 THEN accepter' = "sleep" /\ UNCHANGED mutex
                                           ELSE accepter' = "joinall" /\ mutex' = Accepter
            /\ UNCHANGED <<user, acceptTidOk, cancelled, cmdHandlers, thread, taken, backlog, made>>

(* ... join them ... *)
JoinAll == /\ accepter = "joinall" /\ UNCHANGED accepter
           /\ \E s \in 1..cmdHandlers : Join(s) /\ cancelled' = cancelled \ {s}
           /\ UNCHANGED <<user, acceptTidOk, mutex, cmdHandlers, taken, backlog, made>>

(* ... close the sockets and free what the threads shared. *)
EndAccept_Busy == /\ At("joinall", "ended")
                  /\ mutex' = NoThread /\ cmdHandlers' = 0 /\ backlog' = 0 /\ taken' = 0
                  /\ UNCHANGED <<user, acceptTidOk, cancelled, thread, made>>
EndAccept == /\ At("joinall", "ended") /\ \A s \in 1..cmdHandlers : state[s] = "AVL"
             /\ mutex' = NoThread /\ cmdHandlers' = 0 /\ backlog' = 0 /\ taken' = 0
             /\ UNCHANGED <<user, acceptTidOk, cancelled, thread, made>>

-----------------------------------------------------------------------------
(* RPC_Server_CmdHandle_th: Receive and Send on the socket may be cancelled and may fail;
   the client's callback runs with cancellation disabled. *)
Goes(s, here, there) == handler[s] = here /\ handler' = [handler EXCEPT ![s] = there]
others == <<user, acceptTidOk, cmdHandlers, taken, backlog, made>>

Request(s) == /\ Goes(s, "socket", "callback") /\ s \notin cancelled
              /\ UNCHANGED <<others, accepter, cancelled, mutex, state, cmdHandlersBusyCount>>
CallbackDone(s) == /\ Goes(s, "callback", "socket")
                   /\ UNCHANGED <<others, accepter, cancelled, mutex, state, cmdHandlersBusyCount>>
Disconnect(s) == /\ Goes(s, "socket", "finish") /\ s \notin cancelled
                 /\ UNCHANGED <<others, accepter, cancelled, mutex, state, cmdHandlersBusyCount>>
CancelHandler(s) == /\ Goes(s, "socket", "finish") /\ s \in cancelled
                    /\ UNCHANGED <<others, accepter, cancelled, mutex, state, cmdHandlersBusyCount>>

(* ~CmdHandleData, with cancellation disabled. *)
Finish_Unlocked(s) == /\ Goes(s, "finish", "trigger")
                      /\ state' = [state EXCEPT ![s] = "ZOMBIE"]
                      /\ cmdHandlersBusyCount' = cmdHandlersBusyCount - 1
                      /\ UNCHANGED <<others, accepter, cancelled, mutex>>
Finish(s) == /\ Goes(s, "finish", "trigger") /\ mutex = NoThread
             /\ state' = [state EXCEPT ![s] = "ZOMBIE"]
             /\ cmdHandlersBusyCount' = cmdHandlersBusyCount - 1
             /\ UNCHANGED <<others, accepter, cancelled, mutex>>
Trigger_Never(s) == /\ Goes(s, "trigger", "ended")
                    /\ UNCHANGED <<others, accepter, cancelled, mutex, state, cmdHandlersBusyCount>>
Trigger(s) == /\ Goes(s, "trigger", "ended")
              /\ accepter' = IF accepter = "sleep" THEN "wait" ELSE accepter
              /\ UNCHANGED <<others, cancelled, mutex, state, cmdHandlersBusyCount>>

-----------------------------------------------------------------------------
AcceptNext == \/ Accept \/ Dropped \/ LockShared \/ FindSlot \/ JoinZombie \/ CreateHandler \/ CreateFails
              \/ MarkBusy \/ CancelAccept \/ CancelJoin \/ CancelHandlers \/ WaitBusy
              \/ JoinAll \/ EndAccept
HandlerSteps(s) == \/ CallbackDone(s) \/ CancelHandler(s) \/ Finish(s) \/ Trigger(s)
HandlerNext(s) == Request(s) \/ Disconnect(s) \/ HandlerSteps(s)

Next == \/ Start \/ Stop \/ Stopped \/ Connect \/ AcceptNext
        \/ \E s \in Slot : HandlerNext(s)

Spec == Init /\ [][Next]_vars

(* The scheduler runs every thread, a callback returns, and pthread_join returns when the
   thread has ended.  Nothing makes a client send, close or connect. *)
FairSpec == Spec /\ WF_vars(Stopped) /\ WF_vars(AcceptNext)
                 /\ \A s \in Slot : WF_vars(HandlerSteps(s))

-----------------------------------------------------------------------------
TypeOK == /\ user \in {"idle", "joining"} /\ acceptTidOk \in BOOLEAN
          /\ accepter \in AcceptPoints
          /\ cancelled \subseteq Slot \cup {Accepter}
          /\ mutex \in {NoThread, Accepter}
          /\ cmdHandlers \in 0..MaxConns
          /\ state \in [Slot -> {"AVL", "BUSY", "ZOMBIE"}]
          /\ handler \in [Slot -> HandlerPoints]
          /\ taken \in 0..MaxConns
          /\ cmdHandlersBusyCount \in 0..MaxConns
          /\ backlog \in 0..MaxConns /\ made \in 0..MaxConns

(* A slot's state tells what its thread is doing, but for a thread created a moment ago that
   the accept thread has not marked yet. *)
SlotTellsThread ==
  \A s \in Slot : /\ state[s] = "BUSY" => handler[s] \in {"socket", "callback", "finish"}
                  /\ state[s] = "ZOMBIE" => handler[s] \in {"trigger", "ended"}
                  /\ state[s] = "AVL" =>
                       handler[s] = "none" \/ (accepter = "mark" /\ taken = s)

(* Stop returns only when no handler runs: none touches what the accept thread freed. *)
NoneOutlivesStop == ~acceptTidOk \/ accepter = "ended" => \A s \in Slot : handler[s] = "none"

(* The counter WaitCmdHandlerAvlAll waits for is the number of busy slots. *)
Busy == {s \in Slot : state[s] = "BUSY"}
CountsBusy == cmdHandlersBusyCount = Cardinality(Busy)

(* Stop returns, unless the accept thread was cancelled while it joined a zombie. *)
StopReturnsOrHolds ==
  user = "joining" ~> user = "idle" \/ (accepter = "cancel" /\ mutex = Accepter)

(* The threads may be ended by pthread_cancel (unp_rpc_server_impl.h:109): Stop, which does
   so, returns. *)
StopReturns == user = "joining" ~> user = "idle"
=============================================================================
