--------------------------- MODULE RpcServerProofs ---------------------------
(***************************************************************************)
(* Proofs about the host's library.  The RPC server's threads, for any     *)
(* number of connections: a slot's state tells what its thread does, the   *)
(* counter of busy slots is exact, and no handler outlives Stop.           *)
(*                                                                         *)
(* The log file, for any number of records and backups: what a rotation    *)
(* deletes leaves room for one backup, each backup but the first stands    *)
(* for as many records as the file may hold, and what is kept has no hole. *)
(***************************************************************************)
EXTENDS RpcServer, LogPart, TLAPS, FiniteSetTheorems, WellFoundedInduction

(* There is a slot left for every connection that is still to be given one. *)
Room == cmdHandlers + backlog + (IF accepter \in {"lock", "find"} THEN 1 ELSE 0) <= made

(* The slot the accept thread works on is in the list, free until it is marked, and the
   mutex is locked until then. *)
Locked == accepter \in {"find", "join", "create", "mark", "joinall"} => mutex = Accepter
Working == /\ accepter \in {"join", "create", "mark"} => taken \in 1..cmdHandlers
           /\ accepter \in {"create", "mark"} => state[taken] = "AVL"
           /\ accepter = "create" => handler[taken] = "none"
           /\ accepter = "mark" => handler[taken] \in {"socket", "callback", "finish"}

(* Slots that are not in the list have no thread, and the list is empty while there is no
   accept thread. *)
Beyond == \A s \in Slot : s > cmdHandlers => state[s] = "AVL"
Over == /\ accepter \in {"none", "ended"} => cmdHandlers = 0
        /\ ~acceptTidOk => accepter = "none"

Steady == SlotTellsThread /\ Locked /\ Working /\ Beyond /\ Over
IInv == TypeOK /\ CountsBusy /\ Room /\ Steady

-----------------------------------------------------------------------------
LEMMA SlotSets == ASSUME NEW S \in SUBSET Slot
                  PROVE IsFiniteSet(S) /\ Cardinality(S) \in 0..MaxConns
<1>1. IsFiniteSet(Slot) /\ Cardinality(Slot) = MaxConns
  BY ConnsAssumption, FS_Interval, 1 \in Int, MaxConns \in Int DEF Slot
<1>2. IsFiniteSet(S) /\ Cardinality(S) <= Cardinality(Slot)  BY <1>1, FS_Subset
<1>3. Cardinality(S) \in Nat  BY <1>2, FS_CardinalityType
<1> QED  BY <1>1, <1>2, <1>3

LEMMA BusyGrows == ASSUME TypeOK, CountsBusy, NEW s \in Slot, state[s] # "BUSY",
                          state' = [state EXCEPT ![s] = "BUSY"],
                          cmdHandlersBusyCount' = cmdHandlersBusyCount + 1
                   PROVE CountsBusy' /\ cmdHandlersBusyCount' \in 0..MaxConns
<1>1. Busy' = Busy \cup {s} /\ s \notin Busy /\ Busy \in SUBSET Slot  BY DEF Busy, TypeOK
<1>2. IsFiniteSet(Busy)  BY <1>1, SlotSets
<1>3. Cardinality(Busy') = Cardinality(Busy) + 1  BY <1>1, <1>2, FS_AddElement
<1>4. CountsBusy'  BY <1>3 DEF CountsBusy
<1>5. Busy' \in SUBSET Slot  BY <1>1
<1>6. Cardinality(Busy') \in 0..MaxConns  BY <1>5, SlotSets
<1> QED  BY <1>4, <1>6 DEF CountsBusy

LEMMA BusyShrinks == ASSUME TypeOK, CountsBusy, NEW s \in Slot, state[s] = "BUSY",
                            state' = [state EXCEPT ![s] = "ZOMBIE"],
                            cmdHandlersBusyCount' = cmdHandlersBusyCount - 1
                     PROVE CountsBusy' /\ cmdHandlersBusyCount' \in 0..MaxConns
<1>1. Busy' = Busy \ {s} /\ s \in Busy /\ Busy \in SUBSET Slot  BY DEF Busy, TypeOK
<1>2. IsFiniteSet(Busy)  BY <1>1, SlotSets
<1>3. Cardinality(Busy') = Cardinality(Busy) - 1  BY <1>1, <1>2, FS_RemoveElement
<1>4. CountsBusy'  BY <1>3 DEF CountsBusy
<1>5. Busy' \in SUBSET Slot  BY <1>1
<1>6. Cardinality(Busy') \in 0..MaxConns  BY <1>5, SlotSets
<1> QED  BY <1>4, <1>6 DEF CountsBusy

LEMMA BusyStays == ASSUME CountsBusy, UNCHANGED cmdHandlersBusyCount,
                          \A s \in Slot : state'[s] = "BUSY" <=> state[s] = "BUSY"
                   PROVE CountsBusy'
<1>1. Busy' = Busy  BY DEF Busy
<1> QED  BY <1>1 DEF CountsBusy

(* A thread that ends has been marked: the mutex it takes is held until then. *)
LEMMA FinishIsBusy == ASSUME IInv, NEW s \in Slot, handler[s] = "finish", mutex = NoThread
                      PROVE state[s] = "BUSY"
<1>1. accepter # "mark"  BY ConnsAssumption DEF IInv, Steady, Locked, NoThread, Accepter
<1> QED  BY <1>1 DEF IInv, Steady, SlotTellsThread, TypeOK

-----------------------------------------------------------------------------
LEMMA TypeStep == IInv /\ [Next]_vars => TypeOK'
<1> SUFFICES ASSUME IInv, [Next]_vars PROVE TypeOK'
  OBVIOUS
<1> USE ConnsAssumption DEF TypeOK, AcceptPoints, HandlerPoints, NoThread, At
<1>0. TypeOK /\ Room  BY DEF IInv
<1>1. CASE Start \/ Stop \/ Stopped \/ Connect
  <2>1. CASE Start  BY <1>0, <2>1 DEF Start, thread
  <2>2. CASE Stop  BY <1>0, <2>2 DEF Stop, thread
  <2>3. CASE Stopped  BY <1>0, <2>3 DEF Stopped, thread
  <2>4. CASE Connect  BY <1>0, <2>4 DEF Connect, Room, thread
  <2> QED  BY <1>1, <2>1, <2>2, <2>3, <2>4
<1>2. CASE Accept \/ Dropped \/ LockShared
  BY <1>0, <1>2 DEF Accept, Dropped, LockShared, thread
<1>3. CASE FindSlot
  <2>1. cmdHandlers + 1 <= made /\ made <= MaxConns  BY <1>0, <1>3 DEF FindSlot, Room
  <2>2. taken' \in 0..MaxConns /\ cmdHandlers' \in 0..MaxConns
    BY <1>0, <1>3, <2>1 DEF FindSlot, NotBusy
  <2>3. accepter' \in AcceptPoints  BY <1>3 DEF FindSlot
  <2> QED  BY <1>0, <1>3, <2>2, <2>3 DEF FindSlot, thread
<1>4. CASE JoinZombie \/ JoinAll
  <2>1. PICK t : Join(t) /\ cancelled' = cancelled \ {t}
    BY <1>4 DEF JoinZombie, JoinAll
  <2>2. state' \in [Slot -> {"AVL", "BUSY", "ZOMBIE"}]  BY <1>0, <2>1 DEF Join
  <2>3. handler' \in [Slot -> HandlerPoints]  BY <1>0, <2>1 DEF Join
  <2>4. /\ accepter' \in AcceptPoints
        /\ UNCHANGED <<user, acceptTidOk, mutex, cmdHandlers, taken, backlog, made>>
    BY <1>0, <1>4 DEF JoinZombie, JoinAll
  <2> QED  BY <1>0, <2>1, <2>2, <2>3, <2>4 DEF Join
<1>5. CASE CreateHandler \/ CreateFails
  BY <1>0, <1>5 DEF CreateHandler, CreateFails, thread
<1>6. CASE MarkBusy
  <2>1. taken \in Slot /\ state[taken] # "BUSY"
    BY <1>0, <1>6 DEF MarkBusy, IInv, Steady, Working, Slot
  <2>2. cmdHandlersBusyCount' \in 0..MaxConns
    BY <1>6, <2>1, BusyGrows DEF MarkBusy, IInv
  <2> QED  BY <1>0, <1>6, <2>2 DEF MarkBusy
<1>7. CASE CancelAccept \/ CancelJoin \/ WaitBusy
  BY <1>0, <1>7 DEF CancelAccept, CancelJoin, WaitBusy, thread
<1>8. CASE CancelHandlers
  <2>1. cancelled' \subseteq Slot \cup {Accepter}
    <3>1. 1..cmdHandlers \subseteq Slot  BY <1>0 DEF Slot
    <3> QED  BY <1>0, <1>8, <3>1 DEF CancelHandlers
  <2> QED  BY <1>0, <1>8, <2>1 DEF CancelHandlers, thread
<1>9. CASE EndAccept
  BY <1>0, <1>9 DEF EndAccept, thread
<1>10. ASSUME NEW s \in Slot, Request(s) \/ Disconnect(s) \/ CallbackDone(s) \/ CancelHandler(s)
       PROVE TypeOK'
  BY <1>0, <1>10 DEF Request, Disconnect, CallbackDone, CancelHandler, Goes, others
<1>11. ASSUME NEW s \in Slot, Finish(s) PROVE TypeOK'
  <2>1. cmdHandlersBusyCount' \in 0..MaxConns
    <3>1. state[s] = "BUSY"  BY <1>11, FinishIsBusy DEF Finish, Goes
    <3> QED  BY <1>11, <3>1, BusyShrinks DEF Finish, IInv
  <2> QED  BY <1>0, <1>11, <2>1 DEF Finish, Goes, others
<1>12. ASSUME NEW s \in Slot, Trigger(s) PROVE TypeOK'
  BY <1>0, <1>12 DEF Trigger, Goes, others
<1>13. CASE UNCHANGED vars
  BY <1>0, <1>13 DEF vars, thread
<1> QED
  BY <1>1, <1>2, <1>3, <1>4, <1>5, <1>6, <1>7, <1>8, <1>9, <1>10, <1>11, <1>12, <1>13
  DEF Next, AcceptNext, HandlerNext, HandlerSteps

LEMMA CountStep == IInv /\ [Next]_vars => CountsBusy'
<1> SUFFICES ASSUME IInv, [Next]_vars PROVE CountsBusy'
  OBVIOUS
<1>0. TypeOK /\ CountsBusy  BY DEF IInv
<1>1. CASE JoinZombie \/ JoinAll
  <2>1. PICK t : Join(t)  BY <1>1 DEF JoinZombie, JoinAll
  <2>2. \A s \in Slot : state'[s] = "BUSY" <=> state[s] = "BUSY"
    BY <1>0, <2>1 DEF Join, TypeOK
  <2> QED  BY <1>0, <2>1, <2>2, BusyStays DEF Join
<1>2. CASE MarkBusy
  <2>1. taken \in Slot /\ state[taken] # "BUSY"
    BY <1>0, <1>2 DEF MarkBusy, At, IInv, Steady, Working, Slot, TypeOK
  <2> QED  BY <1>0, <1>2, <2>1, BusyGrows DEF MarkBusy
<1>3. ASSUME NEW s \in Slot, Finish(s) PROVE CountsBusy'
  <2>1. state[s] = "BUSY"  BY <1>3, FinishIsBusy DEF Finish, Goes
  <2> QED  BY <1>0, <1>3, <2>1, BusyShrinks DEF Finish
<1>4. CASE UNCHANGED <<state, cmdHandlersBusyCount>>
  BY <1>0, <1>4, BusyStays
<1>5. \/ JoinZombie \/ JoinAll \/ MarkBusy \/ UNCHANGED <<state, cmdHandlersBusyCount>>
      \/ \E s \in Slot : Finish(s)
  BY DEF Next, AcceptNext, HandlerNext, HandlerSteps, vars, thread, Start, Stop, Stopped, Connect,
         Accept, Dropped, LockShared, FindSlot, CreateHandler, CreateFails, CancelAccept, CancelJoin,
         CancelHandlers, WaitBusy, EndAccept, Request, Disconnect, CallbackDone, CancelHandler, Trigger
<1> QED  BY <1>1, <1>2, <1>3, <1>4, <1>5

LEMMA RoomStep == IInv /\ [Next]_vars => Room'
<1> SUFFICES ASSUME IInv, [Next]_vars PROVE Room'
  OBVIOUS
<1> USE ConnsAssumption DEF Room, TypeOK
<1>0. TypeOK /\ Room  BY DEF IInv
<1>1. CASE Start \/ Stop \/ Stopped \/ Connect
  BY <1>0, <1>1 DEF Start, Stop, Stopped, Connect, At
<1>2. CASE Accept \/ Dropped \/ LockShared
  BY <1>0, <1>2 DEF Accept, Dropped, LockShared, At
<1>3. CASE FindSlot
  BY <1>0, <1>3 DEF FindSlot
<1>4. CASE EndAccept
  BY <1>0, <1>4 DEF EndAccept, At
<1>5. CASE UNCHANGED <<cmdHandlers, backlog, made>> /\ accepter' \notin {"lock", "find"}
  BY <1>0, <1>5
<1>6. CASE UNCHANGED <<cmdHandlers, backlog, made, accepter>>
  BY <1>0, <1>6
<1>7. \/ Start \/ Stop \/ Stopped \/ Connect \/ Accept \/ Dropped \/ LockShared \/ FindSlot \/ EndAccept
      \/ UNCHANGED <<cmdHandlers, backlog, made>> /\ accepter' \notin {"lock", "find"}
      \/ UNCHANGED <<cmdHandlers, backlog, made, accepter>>
  BY DEF Next, AcceptNext, HandlerNext, HandlerSteps, vars, others, At, JoinZombie, JoinAll,
         CreateHandler, CreateFails, MarkBusy, CancelAccept, CancelJoin, CancelHandlers, WaitBusy,
         Request, Disconnect, CallbackDone, CancelHandler, Finish, Trigger
<1> QED  BY <1>1, <1>2, <1>3, <1>4, <1>5, <1>6, <1>7

LEMMA SteadyStep == IInv /\ [Next]_vars => Steady'
<1> SUFFICES ASSUME IInv, [Next]_vars PROVE Steady'
  OBVIOUS
<1> USE ConnsAssumption DEF TypeOK, At, Slot, NoThread, Accepter
<1>0. TypeOK /\ Steady /\ Room  BY DEF IInv
<1>a. SlotTellsThread /\ Locked /\ Working /\ Beyond /\ Over  BY <1>0 DEF Steady
<1> USE DEF SlotTellsThread, Locked, Working, Beyond, Over
(* Nothing but the accept thread's place, its mutex and what Stop waits for. *)
<1>1. CASE Start \/ Stop \/ Stopped \/ Connect
  BY <1>a, <1>1 DEF Start, Stop, Stopped, Connect, thread, Steady
<1>2. CASE Accept \/ Dropped \/ LockShared \/ CreateFails \/ CancelAccept \/ CancelJoin
  BY <1>0, <1>a, <1>2
  DEF Accept, Dropped, LockShared, CreateFails, CancelAccept, CancelJoin, thread, Steady
<1>3. CASE CancelHandlers \/ WaitBusy
  BY <1>a, <1>3 DEF CancelHandlers, WaitBusy, thread, Steady
<1>4. CASE FindSlot
  <2>1. cmdHandlers + 1 <= MaxConns  BY <1>0, <1>4 DEF FindSlot, Room
  <2>2. UNCHANGED <<mutex, acceptTidOk, state, handler>> /\ accepter = "find"
    BY <1>4 DEF FindSlot, thread
  <2>3. CASE NotBusy = {}
    <3>1. /\ taken' = cmdHandlers + 1 /\ cmdHandlers' = cmdHandlers + 1
          /\ accepter' = "create"
      BY <1>4, <2>3 DEF FindSlot
    <3>2. taken' \in Slot /\ state[taken'] = "AVL" /\ handler[taken'] = "none"
      BY <1>0, <1>a, <2>1, <2>2, <3>1
    <3> QED  BY <1>0, <1>a, <2>2, <3>1, <3>2 DEF Steady
  <2>4. CASE NotBusy # {}
    <3>1. /\ taken' \in NotBusy /\ cmdHandlers' = cmdHandlers
          /\ accepter' = IF state[taken'] = "ZOMBIE" THEN "join" ELSE "create"
      BY <1>4, <2>4 DEF FindSlot
    <3>2. taken' \in 1..cmdHandlers /\ taken' \in Slot /\ state[taken'] # "BUSY"
      BY <1>0, <3>1 DEF NotBusy
    <3>3. accepter' = "create" => state[taken'] = "AVL" /\ handler[taken'] = "none"
      BY <1>0, <1>a, <2>2, <3>1, <3>2
    <3>4. accepter' \in {"join", "create"}  BY <3>1
    <3> QED  BY <1>0, <1>a, <2>2, <3>1, <3>2, <3>3, <3>4 DEF Steady
  <2> QED  BY <2>3, <2>4
<1>5. CASE JoinZombie
  BY <1>0, <1>a, <1>5 DEF JoinZombie, Join, Steady
<1>6. CASE JoinAll
  BY <1>0, <1>a, <1>6 DEF JoinAll, Join, Steady
<1>7. CASE CreateHandler
  BY <1>0, <1>a, <1>7 DEF CreateHandler, Steady
<1>8. CASE MarkBusy
  BY <1>0, <1>a, <1>8 DEF MarkBusy, Steady
<1>9. CASE EndAccept
  <2>1. \A s \in Slot : state'[s] = "AVL"  BY <1>0, <1>a, <1>9 DEF EndAccept, thread
  <2> QED  BY <1>0, <1>a, <1>9, <2>1 DEF EndAccept, thread, Steady
<1>10. ASSUME NEW s \in Slot, Request(s) \/ Disconnect(s) \/ CallbackDone(s) \/ CancelHandler(s)
       PROVE Steady'
  BY <1>0, <1>a, <1>10 DEF Request, Disconnect, CallbackDone, CancelHandler, Goes, others, Steady
<1>11. ASSUME NEW s \in Slot, Finish(s) PROVE Steady'
  <2>1. state[s] = "BUSY"  BY <1>11, FinishIsBusy DEF Finish, Goes
  <2> QED  BY <1>0, <1>a, <1>11, <2>1 DEF Finish, Goes, others, Steady
<1>12. ASSUME NEW s \in Slot, Trigger(s) PROVE Steady'
  <2>1. state[s] = "ZOMBIE"  BY <1>0, <1>a, <1>12 DEF Trigger, Goes
  <2> QED  BY <1>0, <1>a, <1>12, <2>1 DEF Trigger, Goes, others, Steady
<1>13. CASE UNCHANGED vars
  BY <1>a, <1>13 DEF vars, thread, Steady
<1> QED
  BY <1>1, <1>2, <1>3, <1>4, <1>5, <1>6, <1>7, <1>8, <1>9, <1>10, <1>11, <1>12, <1>13
  DEF Next, AcceptNext, HandlerNext, HandlerSteps

LEMMA InitIInv == Init => IInv
<1> SUFFICES ASSUME Init PROVE IInv
  OBVIOUS
<1> USE ConnsAssumption DEF Init
<1>1. TypeOK
  <2>1. acceptTidOk \in BOOLEAN /\ cancelled \subseteq Slot \cup {Accepter}  OBVIOUS
  <2>2. state \in [Slot -> {"AVL", "BUSY", "ZOMBIE"}] /\ handler \in [Slot -> HandlerPoints]
    BY DEF HandlerPoints
  <2>3. /\ cmdHandlers \in 0..MaxConns /\ taken \in 0..MaxConns /\ cmdHandlersBusyCount \in 0..MaxConns
        /\ backlog \in 0..MaxConns /\ made \in 0..MaxConns
    OBVIOUS
  <2> QED  BY <2>1, <2>2, <2>3 DEF TypeOK, AcceptPoints, NoThread
<1>2. CountsBusy
  <2>1. Busy = {}  BY DEF Busy
  <2> QED  BY <2>1, FS_EmptySet DEF CountsBusy
<1>3. Room  BY DEF Room
<1>4. SlotTellsThread /\ Locked /\ Working /\ Beyond /\ Over
  BY DEF SlotTellsThread, Locked, Working, Beyond, Over
<1>5. Steady  BY <1>4 DEF Steady
<1> QED  BY <1>1, <1>2, <1>3, <1>5 DEF IInv

LEMMA Invariant == Spec => []IInv
<1>1. IInv /\ [Next]_vars => IInv'
  BY TypeStep, CountStep, RoomStep, SteadyStep DEF IInv
<1> QED  BY InitIInv, <1>1, PTL DEF Spec

-----------------------------------------------------------------------------
(* Every variable keeps its type: there is a slot for every connection, and the counter of
   busy slots never gets below zero. *)
THEOREM RpcTypeCorrect == Spec => []TypeOK
<1>1. IInv => TypeOK  BY DEF IInv
<1> QED  BY Invariant, <1>1, PTL

(* A slot's state (CmdHandleInfo::state) tells what its thread does. *)
THEOREM SlotsTell == Spec => []SlotTellsThread
<1>1. IInv => SlotTellsThread  BY DEF IInv, Steady
<1> QED  BY Invariant, <1>1, PTL

(* cmdHandlersBusyCount, which WaitCmdHandlerAvlAll waits for, is exact. *)
THEOREM BusyCounted == Spec => []CountsBusy
<1>1. IInv => CountsBusy  BY DEF IInv
<1> QED  BY Invariant, <1>1, PTL

(* When Stop returns, no handler thread is left that could use what it freed. *)
THEOREM NoneOutlives == Spec => []NoneOutlivesStop
<1>1. IInv => NoneOutlivesStop
  <2> SUFFICES ASSUME IInv, ~acceptTidOk \/ accepter = "ended", NEW s \in Slot
               PROVE handler[s] = "none"
    BY DEF NoneOutlivesStop
  <2>1. accepter \in {"none", "ended"} /\ cmdHandlers = 0  BY DEF IInv, Steady, Over
  <2>2. state[s] = "AVL"  BY <2>1, ConnsAssumption DEF IInv, Steady, Beyond, Slot
  <2> QED  BY <2>1, <2>2 DEF IInv, Steady, SlotTellsThread
<1> QED  BY Invariant, <1>1, PTL

-----------------------------------------------------------------------------
(* The log file and its backups, for any number of records, backups, failures and seconds. *)

LEMMA LogCount == \A S : Log!Cardinality(S) = Cardinality(S)
BY DEF Log!Cardinality, Cardinality

(* The naturals are well-ordered, which stands for induction over them. *)
LEMMA LeastOf == ASSUME NEW S \in SUBSET Nat, S # {}
                 PROVE \E m \in S : \A n \in S : m <= n
<1>1. IsWellFoundedOn(OpToRel(<, Nat), Nat)  BY Zenon, NatLessThanWellFounded
<1>2. PICK R : IsWellFoundedOn(R, Nat) /\ R = OpToRel(<, Nat)  BY Zenon, <1>1
<1>3. \A x, y \in Nat : y < x => <<y, x>> \in R  BY <1>2 DEF OpToRel
<1>4. \E x \in S : \A y \in S : ~ (<<y, x>> \in R)  BY Zenon, <1>2, WFMin
<1>5. PICK x \in S : \A y \in S : ~ (<<y, x>> \in R)  BY <1>4
<1>6. \A y \in S : x \in Nat /\ y \in Nat  OBVIOUS
<1>7. \A y \in S : ~(y < x)  BY Zenon, <1>3, <1>5, <1>6
<1>8. \A y \in S : x <= y  BY <1>6, <1>7
<1> QED  BY <1>8

(* The elements of a finite set that have fewer than c before them are c. *)
Below(S, t) == {u \in S : u < t}
First(S, c) == {t \in S : Cardinality(Below(S, t)) < c}

LEMMA FirstCount == ASSUME NEW S \in SUBSET Nat, IsFiniteSet(S), NEW c \in 0..Cardinality(S)
                    PROVE Cardinality(First(S, c)) = c
<1>0. Cardinality(S) \in Nat  BY FS_CardinalityType
<1>1. \A t : /\ Below(S, t) \subseteq S /\ IsFiniteSet(Below(S, t))
             /\ Cardinality(Below(S, t)) \in Nat
  <2> TAKE t
  <2>1. Below(S, t) \subseteq S  BY DEF Below
  <2>2. IsFiniteSet(Below(S, t))  BY <2>1, FS_Subset
  <2> QED  BY <2>1, <2>2, FS_CardinalityType
<1> DEFINE Bad == {d \in Nat : d <= Cardinality(S) /\ Cardinality(First(S, d)) # d}
<1>2. ASSUME NEW b \in Bad, \A d \in Bad : b <= d PROVE FALSE
  <2>0. b \in Nat /\ b <= Cardinality(S) /\ Cardinality(First(S, b)) # b  OBVIOUS
  <2>1. b # 0
    <3>1. First(S, 0) = {}  BY <1>1 DEF First
    <3> QED  BY <2>0, <3>1, FS_EmptySet
  <2>2. PICK d \in Nat : b = d + 1 /\ d < Cardinality(S)
    <3>1. b - 1 \in Nat /\ b = (b - 1) + 1 /\ b - 1 < Cardinality(S)  BY <1>0, <2>0, <2>1
    <3> QED  BY <3>1
  <2>3. Cardinality(First(S, d)) = d
    <3>1. d \notin Bad  BY <1>2, <2>2
    <3> QED  BY <1>0, <2>2, <3>1
  <2>4. First(S, d) \subseteq S /\ IsFiniteSet(First(S, d))
    <3>1. First(S, d) \subseteq S  BY DEF First
    <3> QED  BY <3>1, FS_Subset
  <2>5. S \ First(S, d) # {}  BY <1>0, <2>2, <2>3, <2>4
  <2>6. PICK m \in S \ First(S, d) : \A n \in S \ First(S, d) : m <= n
    <3>1. S \ First(S, d) \in SUBSET Nat  OBVIOUS
    <3> QED  BY <2>5, <3>1, LeastOf
  <2>7. m \in Nat /\ \A t \in S : t \in Nat  BY <2>6
  <2>8. Cardinality(Below(S, m)) >= d  BY <1>1, <2>2, <2>6 DEF First
  <2>9. \A t \in First(S, d) : t < m
    <3> SUFFICES ASSUME NEW t \in First(S, d), ~(t < m) PROVE FALSE
      OBVIOUS
    <3>1. t \in S /\ Cardinality(Below(S, t)) < d  BY DEF First
    <3>2. Below(S, m) \subseteq Below(S, t)
      <4>1. t \in Nat /\ m <= t  BY <2>7, <3>1
      <4>2. \A u \in S : u < m => u < t  BY <2>7, <4>1
      <4> QED  BY <4>2 DEF Below
    <3>3. Cardinality(Below(S, m)) <= Cardinality(Below(S, t))  BY <1>1, <3>2, FS_Subset
    <3> QED  BY <1>1, <2>8, <3>1, <3>3
  <2>10. Below(S, m) = First(S, d)
    <3>1. \A u \in Below(S, m) : u \in First(S, d)  BY <2>6, <2>7 DEF Below
    <3> QED  BY <2>4, <2>9, <3>1 DEF Below
  <2>11. m \in First(S, b)
    <3>1. Cardinality(Below(S, m)) < b  BY <2>2, <2>3, <2>10
    <3> QED  BY <2>6, <3>1 DEF First
  <2>12. \A t \in First(S, b) : t = m \/ t \in First(S, d)
    <3> SUFFICES ASSUME NEW t \in First(S, b), t # m, t \notin First(S, d) PROVE FALSE
      OBVIOUS
    <3>1. t \in S /\ Cardinality(Below(S, t)) < b  BY DEF First
    <3>2. m < t  BY <2>6, <2>7, <3>1
    <3>3. First(S, d) \cup {m} \subseteq Below(S, t)
      <4>1. \A u \in First(S, d) : u \in S /\ u < t  BY <2>4, <2>7, <2>9, <3>1, <3>2
      <4> QED  BY <2>6, <3>2, <4>1 DEF Below
    <3>4. Cardinality(First(S, d) \cup {m}) = d + 1
      <4>1. m \notin First(S, d)  BY <2>6
      <4> QED  BY Zenon, <2>3, <2>4, <4>1, FS_AddElement
    <3>5. d + 1 <= Cardinality(Below(S, t))  BY <1>1, <3>3, <3>4, FS_Subset
    <3> QED  BY <1>1, <2>2, <3>1, <3>5
  <2>13. \A t \in First(S, d) : t \in First(S, b)  BY <1>1, <2>2 DEF First
  <2>14. First(S, b) = First(S, d) \cup {m}  BY <2>11, <2>12, <2>13
  <2> QED  BY <2>0, <2>2, <2>3, <2>4, <2>6, <2>14, FS_AddElement
<1>3. Bad = {}  BY <1>2, LeastOf
<1> QED  BY <1>0, <1>3

(* What the logger's state holds: numbers of records that were written, and the step it is at. *)
Stages == {"none", "ready", "backup", "reopen", "write"}
Faults == /\ listed \in BOOLEAN /\ ok \in BOOLEAN /\ overwritten \in BOOLEAN
          /\ failures \in Nat /\ excess \in Nat
Harmed == failures # 0 \/ overwritten
LogTyped == /\ now \in Nat /\ now <= MaxTime /\ at \in Nat /\ at <= now
            /\ truncBefore \in BOOLEAN /\ Faults
            /\ last \in Nat /\ recordsCount \in Nat /\ pc \in Stages
            /\ file \subseteq 1..last /\ backups \in [Log!Time -> SUBSET (1..last)]

(* Backups are of the past and of the records before the file's. *)
Ordered == /\ Log!InOrder
           /\ \A t \in Log!Names : t <= now /\ (pc = "backup" => t <= at)

(* Every backup but the first was made when the file before it was full: with each later
   backup recordsCountMax more records were written, and those the logger has counted. *)
Later(t) == {u \in Log!Names : t < u}
Count == IF pc \in {"ready", "backup", "write"} THEN recordsCount ELSE 0
After(t) == recordsCountMax * Cardinality(Later(t))
Deep == \A t \in Log!Names : \A r \in backups[t] : r + After(t) + Count <= last

(* A rotation is of a full file, it leaves room for the backup it makes, but for those its list
   may lack, and keeps as many as it may. *)
Left == Cardinality(Log!Names \ doomed)
Spare == IF listed THEN 0 ELSE excess
Rotation == /\ pc = "backup" => /\ recordsCountMax > 0 /\ recordsCount >= recordsCountMax
                                /\ doomed \subseteq Log!Names
                                /\ ok /\ backupCountMax > 0 => Left + 1 <= backupCountMax + Spare
                                /\ doomed # {} => Left + 1 >= backupCountMax
                                /\ ~Harmed => ok /\ \A t \in doomed : \A u \in Log!Names : u < t => u \in doomed
            /\ pc = "reopen" /\ ~Harmed => file = {}

Bounded == backupCountMax > 0 => Cardinality(Log!Names) <= backupCountMax + excess

(* What is kept has no hole up to the latest record, and lacks those only that are as old
   as all backups together. *)
NoHole == \A r \in Log!Kept : \A s \in 1..last : r <= s => s \in Log!Kept
Enough == \A s \in 1..last : s + backupCountMax * recordsCountMax > last => s \in Log!Kept
Latest == ~Harmed /\ ~truncBefore => NoHole /\ Enough

LogInv == LogTyped /\ Ordered /\ Deep /\ Rotation /\ Bounded /\ Latest

LEMMA NamesAre == ASSUME Log!LogAssumption
  PROVE /\ Log!Names \subseteq Log!Time /\ Log!Time \subseteq Nat /\ IsFiniteSet(Log!Names)
        /\ Log!Names \subseteq Nat /\ Cardinality(Log!Names) \in Nat
        /\ \A S \in SUBSET Log!Names : IsFiniteSet(S) /\ Cardinality(S) \in Nat
        /\ recordsCountMax \in Nat /\ backupCountMax \in Nat /\ MaxTime \in Nat
<1>1. MaxTime \in Nat /\ recordsCountMax \in Nat /\ backupCountMax \in Nat  BY DEF Log!LogAssumption
<1>2. IsFiniteSet(Log!Time)  BY <1>1, FS_Interval DEF Log!Time
<1>3. Log!Names \subseteq Log!Time /\ Log!Time \subseteq Nat  BY <1>1 DEF Log!Names, Log!Time
<1>4. \A S \in SUBSET Log!Time : IsFiniteSet(S) /\ Cardinality(S) \in Nat
  BY <1>2, FS_Subset, FS_CardinalityType
<1> QED  BY <1>1, <1>3, <1>4

LEMMA Times == ASSUME NEW r \in Nat, NEW a \in Nat, NEW b \in Nat, a <= b
               PROVE r * a \in Nat /\ r * a <= r * b /\ r * (a + 1) = r * a + r
OBVIOUS

(* The later backups are numbered, and a backup less is never a later one more. *)
LEMMA LaterAre == ASSUME Log!LogAssumption, NEW t
  PROVE /\ IsFiniteSet(Later(t)) /\ Cardinality(Later(t)) \in Nat /\ After(t) \in Nat
<1>1. Later(t) \subseteq Log!Names  BY DEF Later
<1>2. IsFiniteSet(Later(t)) /\ Cardinality(Later(t)) \in Nat  BY <1>1, NamesAre
<1> QED  BY <1>2, NamesAre, Times DEF After

LEMMA Sums == ASSUME NEW r \in Nat, NEW a \in Nat, NEW c \in Nat, NEW d \in Nat, NEW l \in Nat, NEW m \in Nat,
                     r + a + c <= l, l <= m, d + l <= c + m \/ d = 0
              PROVE r + a + d <= m
OBVIOUS

(* Steps that leave the backups alone. *)
LEMMA SameNames == ASSUME UNCHANGED backups
  PROVE /\ Log!Names' = Log!Names /\ Log!Time' = Log!Time
        /\ \A t : Later(t)' = Later(t) /\ After(t)' = After(t)
<1>1. Log!Names' = Log!Names /\ Log!Time' = Log!Time  BY DEF Log!Names, Log!Time
<1>2. \A t : Later(t)' = Later(t)  BY <1>1 DEF Later
<1> QED  BY <1>1, <1>2 DEF After

LEMMA KeptAre == \A r : r \in Log!Kept <=> r \in file \/ \E t \in Log!Names : r \in backups[t]
BY DEF Log!Kept

LEMMA SameBackups ==
  ASSUME Log!LogAssumption, LogInv, UNCHANGED <<backups, truncBefore>>,
         last' \in Nat, last' >= last, now' \in Nat, now' >= now, now' <= MaxTime, at' \in Nat, at' <= now',
         Faults', excess' >= excess, recordsCount' \in Nat, pc' \in Stages,
         file' \subseteq 1..last', \A s \in file' : s \in file \/ s > last,
         pc' = "backup" => at' = now \/ (at' = at /\ pc = "backup"),
         Count' + last <= Count + last' \/ (Count' = 0),
         Rotation', Latest'
  PROVE LogInv'
<1>0. /\ Log!Names' = Log!Names /\ Log!Time' = Log!Time
      /\ \A t : After(t)' = After(t)
  BY SameNames
<1>1. LogTyped'
  <2>1. 1..last \subseteq 1..last'  BY DEF LogInv, LogTyped
  <2>2. backups' \in [Log!Time' -> SUBSET (1..last')]  BY <1>0, <2>1 DEF LogInv, LogTyped
  <2> QED  BY <2>2 DEF LogInv, LogTyped
<1>2. \A t \in Log!Names : \A r \in backups[t] : r \in Nat /\ r <= last
  BY NamesAre DEF LogInv, LogTyped
<1>3. Ordered'
  <2>1. Log!InOrder'
    <3>1. \A t \in Log!Names : \A r \in backups[t], s \in file' : r < s
      <4> TAKE t \in Log!Names
      <4> TAKE r \in backups[t], s \in file'
      <4>1. CASE s \in file  BY <4>1 DEF LogInv, Ordered, Log!InOrder
      <4>2. CASE s > last
        <5>1. s \in Nat /\ last \in Nat /\ r \in Nat /\ r <= last  BY <1>2 DEF LogInv, LogTyped
        <5> QED  BY <4>2, <5>1
      <4> QED  BY <4>1, <4>2
    <3> QED  BY <1>0, <3>1 DEF LogInv, Ordered, Log!InOrder
  <2>2. \A t \in Log!Names : t <= now' /\ (pc' = "backup" => t <= at')
    BY NamesAre DEF LogInv, LogTyped, Ordered
  <2> QED  BY <1>0, <2>1, <2>2 DEF Ordered
<1>4. Deep'
  <2> SUFFICES ASSUME NEW t \in Log!Names, NEW r \in backups[t] PROVE r + After(t) + Count' <= last'
    BY <1>0 DEF Deep
  <2>1. /\ r \in Nat /\ After(t) \in Nat /\ last \in Nat /\ r + After(t) + Count <= last
        /\ Count \in Nat /\ Count' \in Nat
    BY <1>2, LaterAre DEF LogInv, LogTyped, Deep, Count
  <2>2. PICK a, c, d \in Nat : a = After(t) /\ c = Count /\ d = Count'  BY <2>1
  <2>3. r + a + d <= last'
    <3>1. r \in Nat /\ last \in Nat /\ last' \in Nat /\ last <= last' /\ r + a + c <= last  BY <2>1, <2>2
    <3>2. d + last <= c + last' \/ d = 0  BY <2>2
    <3> QED  BY <3>1, <3>2, Sums
  <2> QED  BY <2>2, <2>3
<1>5. Bounded'
  <2>1. Cardinality(Log!Names) \in Nat /\ backupCountMax \in Nat  BY NamesAre
  <2>2. excess \in Nat /\ excess' \in Nat  BY DEF LogInv, LogTyped, Faults
  <2>3. backupCountMax > 0 => Cardinality(Log!Names) <= backupCountMax + excess'
    BY <2>1, <2>2 DEF LogInv, Bounded
  <2> QED  BY <1>0, <2>3 DEF Bounded
<1> QED  BY <1>1, <1>3, <1>4, <1>5 DEF LogInv

LEMMA KeptStays == ASSUME UNCHANGED <<backups, truncBefore, last>>, Latest, Harmed => Harmed',
                          file' = file \/ truncBefore \/ Harmed' \/ (file' = {} /\ file = {})
                   PROVE Latest'
<1> SUFFICES ASSUME ~Harmed', ~truncBefore' PROVE NoHole' /\ Enough'
  BY DEF Latest
<1>1. NoHole /\ Enough /\ file' = file  BY DEF Latest
<1>2. Log!Kept' = Log!Kept  BY <1>1, SameNames DEF Log!Kept
<1> QED  BY <1>1, <1>2 DEF NoHole, Enough

LEMMA QuietKeeps ==
  ASSUME Log!LogAssumption, LogInv, UNCHANGED <<backups, truncBefore, last>>,
         now' = now \/ (now' = now + 1 /\ now < MaxTime), at' = at \/ at' = now,
         Faults', Harmed => Harmed', excess' >= excess, recordsCount' \in Nat, pc' \in Stages,
         file' = file \/ (file' = {} /\ (truncBefore \/ Harmed' \/ file = {})),
         pc' = "backup" => at' = now \/ (at' = at /\ pc = "backup"),
         Count' <= Count \/ Count' = 0,
         Rotation'
  PROVE LogInv'
<1>1. Latest'  BY KeptStays DEF LogInv
<1>2. file' \subseteq 1..last' /\ \A s \in file' : s \in file
  <2>1. file \subseteq 1..last  BY DEF LogInv, LogTyped
  <2> QED  BY <2>1
<1>3. now' \in Nat /\ now' >= now /\ now' <= MaxTime /\ at' \in Nat /\ at' <= now'
  <2>1. now \in Nat /\ now <= MaxTime /\ at \in Nat /\ at <= now /\ MaxTime \in Nat
    BY NamesAre DEF LogInv, LogTyped
  <2> QED  BY <2>1
<1>4. last' \in Nat /\ last' >= last /\ (Count' + last <= Count + last' \/ Count' = 0)
  <2>1. last \in Nat /\ Count \in Nat /\ Count' \in Nat  BY DEF LogInv, LogTyped, Count
  <2>2. \A c, d, l \in Nat : l >= l /\ (d <= c => d + l <= c + l)  OBVIOUS
  <2>3. last' = last  OBVIOUS
  <2> QED  BY Zenon, <2>1, <2>2, <2>3
<1> QED  BY <1>1, <1>2, <1>3, <1>4, SameBackups

(* Steps outside a rotation that leave the records alone. *)
LEMMA OpenKeeps == ASSUME Log!LogAssumption, LogInv, Log!Open PROVE LogInv'
<1>1. /\ pc' = "ready" /\ recordsCount' = 0 /\ (file' = file \/ file' = {}) /\ (file' = file \/ truncBefore)
      /\ UNCHANGED <<now, truncBefore, backups, last, at, listed, doomed, ok, failures, excess,
                     overwritten>>
  BY DEF Log!Open, Log!rotation, Log!faults
<1>2. Rotation'  BY <1>1 DEF Rotation
<1>3. Count' = 0  BY <1>1 DEF Count
<1>4. /\ Faults' /\ recordsCount' \in Nat /\ pc' \in Stages
      /\ (Harmed => Harmed') /\ excess' >= excess
  BY <1>1 DEF LogInv, LogTyped, Faults, Harmed, Stages
<1> QED  BY <1>1, <1>2, <1>3, <1>4, QuietKeeps

LEMMA EndKeeps == ASSUME Log!LogAssumption, LogInv, Log!End PROVE LogInv'
<1>1. pc' = "none" /\ UNCHANGED <<now, truncBefore, file, backups, recordsCount, last, at, listed, doomed, ok, failures, excess,
                     overwritten>>
  BY DEF Log!End, Log!rotation, Log!disk, Log!faults
<1>2. Rotation'  BY <1>1 DEF Rotation
<1>3. Count' = 0  BY <1>1 DEF Count
<1>4. /\ Faults' /\ recordsCount' \in Nat /\ pc' \in Stages
      /\ (Harmed => Harmed') /\ excess' >= excess
  BY <1>1 DEF LogInv, LogTyped, Faults, Harmed, Stages
<1> QED  BY <1>1, <1>2, <1>3, <1>4, QuietKeeps

LEMMA TickKeeps == ASSUME Log!LogAssumption, LogInv, Log!Tick PROVE LogInv'
<1>1. /\ now' = now + 1 /\ now < MaxTime
      /\ UNCHANGED <<truncBefore, file, backups, pc, recordsCount, last, at, listed, doomed, ok, failures, excess,
                     overwritten>>
  BY DEF Log!Tick, Log!rotation, Log!disk, Log!faults
<1>2. Rotation'
  <2>1. Left' = Left /\ Log!Names' = Log!Names /\ Spare' = Spare /\ Harmed' = Harmed
    BY <1>1, SameNames DEF Left, Spare, Harmed
  <2> QED  BY <1>1, <2>1 DEF LogInv, Rotation
<1>3. Count' = Count /\ Count \in Nat  BY <1>1 DEF Count, LogInv, LogTyped
<1>4. /\ Faults' /\ recordsCount' \in Nat /\ pc' \in Stages
      /\ (Harmed => Harmed') /\ excess' >= excess
  BY <1>1 DEF LogInv, LogTyped, Faults, Harmed
<1>5. pc' = "backup" => at' = at /\ pc = "backup"  BY <1>1
<1> QED  BY <1>1, <1>2, <1>3, <1>4, <1>5, QuietKeeps

(* A record is the latest from then on. *)
LEMMA WriteKeeps == ASSUME Log!LogAssumption, LogInv, Log!Write, pc \in {"ready", "write"}, pc' = "ready",
                           UNCHANGED Log!rotation
                    PROVE LogInv'
<1>1. /\ last' = last + 1 /\ file' = file \cup {last + 1}
      /\ recordsCount' = recordsCount + (IF recordsCountMax > 0 THEN 1 ELSE 0)
      /\ UNCHANGED <<now, truncBefore, backups, at, listed, doomed, ok, failures, excess,
                     overwritten>>
  BY DEF Log!Write, Log!rotation, Log!faults
<1>2. last \in Nat /\ last' \in Nat /\ recordsCount \in Nat /\ recordsCount' \in Nat /\ recordsCount' <= recordsCount + 1
  BY <1>1 DEF LogInv, LogTyped
<1>3. file' \subseteq 1..last'
  <2>1. file \subseteq 1..last  BY DEF LogInv, LogTyped
  <2>2. 1..last \subseteq 1..(last + 1) /\ last + 1 \in 1..(last + 1)  BY <1>2
  <2> QED  BY <1>1, <2>1, <2>2
<1>4. Count' + last <= Count + last'
  <2>1. Count' = recordsCount' /\ Count = recordsCount  BY DEF Count
  <2> QED  BY <1>1, <1>2, <2>1
<1>5. Rotation'  BY DEF Rotation
<1>6. Latest'
  <2> SUFFICES ASSUME ~Harmed, ~truncBefore PROVE NoHole' /\ Enough'
    BY <1>1 DEF Latest, Harmed
  <2>1. NoHole /\ Enough  BY DEF LogInv, Latest
  <2>2. \A r : r \in Log!Kept' <=> r \in Log!Kept \/ r = last + 1
    BY <1>1, SameNames DEF Log!Kept
  <2>3. \A s \in 1..last' : s = last + 1 \/ s \in 1..last  BY <1>1, <1>2
  <2>4. NoHole'
    <3>1. ASSUME NEW r \in Log!Kept', NEW s \in 1..last', r <= s PROVE s \in Log!Kept'
      BY <2>1, <2>2, <2>3, <1>2, <3>1 DEF NoHole
    <3> QED  BY <3>1 DEF NoHole
  <2>5. Enough'
    <3> DEFINE most == backupCountMax * recordsCountMax
    <3>0. most \in Nat  BY NamesAre, Times
    <3> HIDE DEF most
    <3>1. ASSUME NEW s \in 1..last', s + most > last' PROVE s \in Log!Kept'
      BY <1>1, <1>2, <2>1, <2>2, <2>3, <3>0, <3>1 DEF Enough, most
    <3> QED  BY <3>1 DEF Enough, most
  <2> QED  BY <2>4, <2>5
<1>7. \A s \in file' : s \in file \/ s > last  BY <1>1, <1>2
<1>8. /\ last' >= last /\ pc' \in Stages /\ now' >= now /\ at' <= now' /\ now' <= MaxTime
      /\ Faults' /\ excess' >= excess
  BY <1>1, <1>2 DEF LogInv, LogTyped, Faults, Stages
<1> QED  BY <1>1, <1>2, <1>3, <1>4, <1>5, <1>6, <1>7, <1>8, SameBackups DEF LogInv, LogTyped

LEMMA AddKeeps == ASSUME Log!LogAssumption, LogInv, Log!Add PROVE LogInv'
BY WriteKeeps DEF Log!Add

LEMMA AddRestKeeps == ASSUME Log!LogAssumption, LogInv, Log!AddRest PROVE LogInv'
BY WriteKeeps DEF Log!AddRest

(* What a rotation gives up of its list leaves just room for one backup, and is the oldest. *)
LEMMA OldestAre ==
  ASSUME Log!LogAssumption, NEW S \in SUBSET Log!Names,
         NEW D, D = Log!Oldest(S, Cardinality(S) - backupCountMax + 1)
  PROVE /\ D \subseteq S
        /\ backupCountMax > 0 => Cardinality(S \ D) + 1 <= backupCountMax
        /\ D # {} => Cardinality(S \ D) + 1 >= backupCountMax
        /\ \A t \in D : \A u \in S : u < t => u \in D
<1>1. /\ S \subseteq Nat /\ IsFiniteSet(S) /\ Cardinality(S) \in Nat /\ backupCountMax \in Nat
      /\ \A T \in SUBSET S : IsFiniteSet(T) /\ Cardinality(T) \in Nat
  BY NamesAre
<1>2. PICK n \in Nat, c \in Int : n = Cardinality(S) /\ c = (n - backupCountMax) + 1
  BY <1>1
<1>3. D = First(S, c)
  <2>1. Log!Oldest(S, c) = First(S, c)  BY LogCount DEF Log!Oldest, First, Below
  <2>2. c = Cardinality(S) - backupCountMax + 1  BY <1>2
  <2> QED  BY <2>1, <2>2
<1>4. \A t : Below(S, t) \subseteq S  BY DEF Below
<1>5. D \subseteq S  BY <1>3 DEF First
<1>6. \A t \in D : \A u \in S : u < t => u \in D
  <2> SUFFICES ASSUME NEW t \in D, NEW u \in S, u < t PROVE u \in D
    OBVIOUS
  <2>1. t \in Nat /\ u \in Nat  BY <1>1, <1>5
  <2>2. Below(S, u) \subseteq Below(S, t)
    <3>1. \A v \in S : v < u => v < t  BY <1>1, <2>1
    <3> QED  BY <3>1 DEF Below
  <2>3. Cardinality(Below(S, u)) <= Cardinality(Below(S, t))  BY <1>1, <1>4, <2>2, FS_Subset
  <2>4. Cardinality(Below(S, u)) \in Nat /\ Cardinality(Below(S, t)) \in Nat  BY <1>1, <1>4
  <2>5. Cardinality(Below(S, t)) < c  BY <1>3 DEF First
  <2>6. Cardinality(Below(S, u)) < c  BY <2>3, <2>4, <2>5
  <2> QED  BY <1>3, <2>6 DEF First
<1>7. CASE c <= 0
  <2>1. \A t \in S : ~(Cardinality(Below(S, t)) < c)
    <3> TAKE t \in S
    <3>1. Cardinality(Below(S, t)) \in Nat  BY <1>1, <1>4
    <3> QED  BY <1>7, <3>1
  <2>2. D = {}  BY <1>3, <2>1 DEF First
  <2>3. S \ D = S  BY <2>2
  <2>4. n + 1 <= backupCountMax  BY <1>1, <1>2, <1>7
  <2> QED  BY <1>2, <2>2, <2>3, <2>4
<1>8. CASE c > 0 /\ backupCountMax > 0
  <2>1. c \in 0..n /\ c \in Nat  BY <1>1, <1>2, <1>8
  <2>2. Cardinality(D) = c  BY <1>1, <1>2, <1>3, <2>1, FirstCount
  <2>3. S \cap D = D  BY <1>5
  <2>4. Cardinality(S \ D) = n - c
    <3>1. Cardinality(S \ D) = Cardinality(S) - Cardinality(S \cap D)  BY Zenon, <1>1, FS_Difference
    <3> QED  BY Zenon, <1>2, <2>2, <2>3, <3>1
  <2>5. Cardinality(S \ D) + 1 = backupCountMax  BY <1>1, <1>2, <2>4
  <2>6. backupCountMax <= backupCountMax /\ backupCountMax >= backupCountMax  BY <1>1
  <2> QED  BY <1>5, <1>6, <2>5, <2>6
<1>9. CASE backupCountMax = 0
  <2>1. Cardinality(S \ D) \in Nat  BY <1>1
  <2> QED  BY <1>5, <1>6, <1>9, <2>1
<1> QED  BY <1>1, <1>2, <1>7, <1>8, <1>9

LEMMA BackupLogKeeps == ASSUME Log!LogAssumption, LogInv, Log!BackupLog PROVE LogInv'
<1>1. /\ pc = "ready" /\ pc' = "backup" /\ at' = now /\ ok' = TRUE
      /\ recordsCountMax > 0 /\ recordsCount >= recordsCountMax
      /\ UNCHANGED <<now, truncBefore, file, backups, recordsCount, last, overwritten>>
  BY DEF Log!BackupLog, Log!Full, Log!disk
<1>2. PICK S \in SUBSET Log!Names : /\ Log!GetBackupList(S)
                                   /\ doomed' = Log!Oldest(S, Cardinality(S) - backupCountMax + 1)
  BY LogCount DEF Log!BackupLog
<1>3. Log!Names' = Log!Names  BY <1>1, SameNames
<1>4. /\ failures \in Nat /\ excess \in Nat /\ overwritten \in BOOLEAN
      /\ recordsCount \in Nat
  BY DEF LogInv, LogTyped, Faults
<1>5. \/ S = Log!Names /\ listed' = TRUE /\ failures' = failures /\ excess' = excess
      \/ listed' = FALSE /\ failures' = failures + 1 /\ excess' = excess + 1
  BY <1>2 DEF Log!GetBackupList, Log!Fails
<1>6. Rotation'
  <2>1. /\ doomed' \subseteq S
        /\ backupCountMax > 0 => Cardinality(S \ doomed') + 1 <= backupCountMax
        /\ doomed' # {} => Cardinality(S \ doomed') + 1 >= backupCountMax
        /\ \A t \in doomed' : \A u \in S : u < t => u \in doomed'
    BY <1>2, OldestAre
  <2>2. Left' = Cardinality(Log!Names \ doomed')  BY <1>3 DEF Left
  <2>3. /\ Cardinality(S \ doomed') \in Nat /\ Cardinality(Log!Names \ doomed') \in Nat
        /\ Cardinality(S \ doomed') <= Cardinality(Log!Names \ doomed')
        /\ Cardinality(Log!Names \ doomed') <= Cardinality(Log!Names)
        /\ Cardinality(Log!Names) \in Nat /\ backupCountMax \in Nat
    <3>1. S \ doomed' \subseteq Log!Names \ doomed' /\ Log!Names \ doomed' \subseteq Log!Names
      OBVIOUS
    <3>2. S \ doomed' \in SUBSET Log!Names  OBVIOUS
    <3> QED  BY <3>1, <3>2, NamesAre, FS_Subset
  <2>4. doomed' # {} => Left' + 1 >= backupCountMax  BY <2>1, <2>2, <2>3
  <2>5. backupCountMax > 0 => Left' + 1 <= backupCountMax + Spare'
    <3>1. CASE S = Log!Names /\ listed' = TRUE
      BY <2>1, <2>2, <2>3, <3>1 DEF Spare
    <3>2. CASE listed' = FALSE /\ excess' = excess + 1
      <4>1. Spare' = excess + 1  BY <3>2 DEF Spare
      <4>2. backupCountMax > 0 => Cardinality(Log!Names) <= backupCountMax + excess  BY DEF LogInv, Bounded
      <4> QED  BY <1>4, <2>2, <2>3, <4>1, <4>2
    <3> QED  BY <1>5, <3>1, <3>2
  <2>6. ~Harmed' => \A t \in doomed' : \A u \in Log!Names : u < t => u \in doomed'
    <3>1. ~Harmed' => S = Log!Names  BY <1>4, <1>5 DEF Harmed
    <3> QED  BY <2>1, <3>1
  <2> QED  BY <1>1, <1>3, <2>1, <2>4, <2>5, <2>6 DEF Rotation
<1>7. Count' = Count /\ Count \in Nat  BY <1>1 DEF Count, LogInv, LogTyped
<1>8. /\ Faults' /\ recordsCount' \in Nat /\ pc' \in Stages
      /\ (Harmed => Harmed') /\ excess' >= excess
  <2>1. failures' \in Nat /\ excess' \in Nat /\ excess' >= excess /\ (failures # 0 => failures' # 0)
    BY <1>4, <1>5
  <2>2. listed' \in BOOLEAN /\ ok' \in BOOLEAN /\ overwritten' \in BOOLEAN
    BY <1>1, <1>4, <1>5
  <2>3. Harmed => Harmed'  BY <1>1, <2>1 DEF Harmed
  <2>4. pc' \in Stages /\ recordsCount' \in Nat  BY <1>1, <1>4 DEF Stages
  <2> QED  BY <2>1, <2>2, <2>3, <2>4 DEF Faults
<1> QED  BY <1>1, <1>6, <1>7, <1>8, QuietKeeps

(* A deletion that failed, a file that could not be renamed or opened, and a file opened. *)
LEMMA FailsHarms == ASSUME LogInv, Log!Fails PROVE failures' \in Nat /\ Harmed'
<1>1. failures \in Nat /\ failures' = failures + 1  BY DEF LogInv, LogTyped, Faults, Log!Fails
<1> QED  BY <1>1 DEF Harmed

LEMMA UnlinkFailKeeps == ASSUME Log!LogAssumption, LogInv, Log!Unlink, UNCHANGED backups, Log!Fails, ok' = FALSE
                         PROVE LogInv'
<1>1. /\ pc = "backup" /\ doomed # {} /\ doomed' = doomed \ {Log!Min(doomed)}
      /\ UNCHANGED <<now, truncBefore, file, pc, recordsCount, last, at, listed, excess, overwritten>>
      /\ failures' \in Nat /\ Harmed'
  BY FailsHarms DEF Log!Unlink
<1>2. Log!Names' = Log!Names  BY SameNames
<1>3. Rotation'
  <2>1. doomed' \subseteq doomed /\ doomed \subseteq Log!Names  BY <1>1 DEF LogInv, Rotation
  <2>2. Left \in Nat /\ Left' \in Nat /\ Left <= Left'
    <3>1. Log!Names \ doomed \subseteq Log!Names \ doomed'  BY <2>1
    <3>2. Log!Names \ doomed' \subseteq Log!Names  OBVIOUS
    <3>3. Left' = Cardinality(Log!Names \ doomed')  BY <1>2 DEF Left
    <3> QED  BY <3>1, <3>2, <3>3, NamesAre, FS_Subset DEF Left
  <2>3. Left + 1 >= backupCountMax  BY <1>1 DEF LogInv, Rotation
  <2>4. Left' + 1 >= backupCountMax  BY <2>2, <2>3, NamesAre
  <2> QED  BY <1>1, <1>2, <2>1, <2>4 DEF LogInv, Rotation
<1>4. Count' = Count /\ Count \in Nat  BY <1>1 DEF Count, LogInv, LogTyped
<1>5. /\ Faults' /\ recordsCount' \in Nat /\ pc' \in Stages
      /\ (Harmed => Harmed') /\ excess' >= excess
  <2>1. Faults /\ recordsCount \in Nat /\ pc \in Stages  BY DEF LogInv, LogTyped
  <2>2. Faults'  BY <1>1, <2>1 DEF Faults
  <2>3. excess \in Nat /\ excess' = excess  BY <1>1, <2>1 DEF Faults
  <2>4. excess' >= excess  BY <2>3
  <2> QED  BY <1>1, <2>1, <2>2, <2>4
<1> QED  BY <1>1, <1>3, <1>4, <1>5, QuietKeeps

LEMMA RenameFailKeeps == ASSUME Log!LogAssumption, LogInv, Log!Rename, UNCHANGED <<file, backups>>,
                                failures' \in Nat, Harmed', UNCHANGED <<excess, overwritten>>
                         PROVE LogInv'
<1>1. /\ pc = "backup" /\ pc' = "reopen"
      /\ UNCHANGED <<now, truncBefore, recordsCount, last, at, listed, doomed, ok>>
  BY DEF Log!Rename, Log!rotation
<1>2. Rotation'  BY <1>1 DEF Rotation
<1>3. Count' = 0  BY <1>1 DEF Count
<1>4. /\ Faults' /\ recordsCount' \in Nat /\ pc' \in Stages
      /\ (Harmed => Harmed') /\ excess' >= excess
  BY <1>1 DEF LogInv, LogTyped, Faults, Harmed, Stages
<1> QED  BY <1>1, <1>2, <1>3, <1>4, QuietKeeps

LEMMA ReopenKeeps == ASSUME Log!LogAssumption, LogInv, Log!Reopen PROVE LogInv'
<1>1. /\ pc = "reopen" /\ pc' = "write" /\ file' = {} /\ recordsCount' = 0
      /\ UNCHANGED <<now, truncBefore, backups, last, at, listed, doomed, ok, failures, excess,
                     overwritten>>
  BY DEF Log!Reopen, Log!rotation, Log!faults
<1>2. Rotation'  BY <1>1 DEF Rotation
<1>3. Count' = 0  BY <1>1 DEF Count
<1>4. /\ Faults' /\ recordsCount' \in Nat /\ pc' \in Stages
      /\ (Harmed => Harmed') /\ excess' >= excess
  BY <1>1 DEF LogInv, LogTyped, Faults, Harmed, Stages
<1>5. Harmed' \/ file = {}  BY <1>1 DEF LogInv, LogTyped, Rotation, Harmed
<1> QED  BY <1>1, <1>2, <1>3, <1>4, <1>5, QuietKeeps

LEMMA ReopenFailKeeps == ASSUME Log!LogAssumption, LogInv, Log!ReopenFails PROVE LogInv'
<1>1. /\ pc' = "none" /\ failures' \in Nat /\ Harmed'
      /\ UNCHANGED <<now, truncBefore, file, backups, recordsCount, last, at, listed, doomed, ok, excess,
                     overwritten>>
  BY FailsHarms DEF Log!ReopenFails, Log!rotation, Log!disk
<1>2. Rotation'  BY <1>1 DEF Rotation
<1>3. Count' = 0  BY <1>1 DEF Count
<1>4. /\ Faults' /\ recordsCount' \in Nat /\ pc' \in Stages
      /\ (Harmed => Harmed') /\ excess' >= excess
  BY <1>1 DEF LogInv, LogTyped, Faults, Harmed, Stages
<1> QED  BY <1>1, <1>2, <1>3, <1>4, QuietKeeps

(* A backup deleted, the oldest of those given up. *)
LEMMA UnlinkKeeps == ASSUME Log!LogAssumption, LogInv, Log!Unlink,
                            backups' = [backups EXCEPT ![Log!Min(doomed)] = {}],
                            UNCHANGED <<ok, failures>>
                     PROVE LogInv'
<1>1. /\ pc = "backup" /\ doomed # {} /\ doomed' = doomed \ {Log!Min(doomed)}
      /\ UNCHANGED <<now, truncBefore, file, pc, recordsCount, last, at, listed, ok, failures, excess,
                     overwritten>>
  BY DEF Log!Unlink
<1>2. /\ doomed \subseteq Log!Names /\ recordsCountMax > 0 /\ recordsCount >= recordsCountMax
      /\ ok /\ backupCountMax > 0 => Left + 1 <= backupCountMax + Spare
      /\ Left + 1 >= backupCountMax
      /\ ~Harmed => ok /\ \A t \in doomed : \A u \in Log!Names : u < t => u \in doomed
  BY <1>1 DEF LogInv, Rotation
<1>3. PICK d \in doomed : d = Log!Min(doomed) /\ \A t \in doomed : d <= t
  <2>1. doomed \in SUBSET Nat /\ \A t \in doomed : t \in Nat  BY <1>2, NamesAre
  <2>2. PICK m \in doomed : \A t \in doomed : m <= t  BY <1>1, <2>1, LeastOf
  <2>3. Log!Min(doomed) \in doomed /\ \A t \in doomed : Log!Min(doomed) <= t
    BY <2>2 DEF Log!Min
  <2> QED  BY <2>3
<1>4. d \in Log!Names /\ d \in Log!Time /\ d \in Nat  BY <1>2, NamesAre
<1>5. Log!Time' = Log!Time /\ backups \in [Log!Time -> SUBSET (1..last)]
  BY DEF Log!Time, LogInv, LogTyped
<1>6. backups' = [backups EXCEPT ![d] = {}]  BY <1>3
<1>7. /\ backups' \in [Log!Time -> SUBSET (1..last)]
      /\ \A t \in Log!Time : backups'[t] = IF t = d THEN {} ELSE backups[t]
  BY <1>4, <1>5, <1>6
<1>8. Log!Names' = Log!Names \ {d}  BY <1>5, <1>7 DEF Log!Names
<1>9. \A t \in Log!Names' : t \in Log!Names /\ backups'[t] = backups[t]
  BY <1>7, <1>8, NamesAre
<1>10. LogTyped'
  <2>1. Faults'  BY <1>1 DEF LogInv, LogTyped, Faults
  <2> QED  BY <1>1, <1>5, <1>7, <2>1 DEF LogInv, LogTyped
<1>11. Ordered'
  <2>1. Log!InOrder'  BY <1>1, <1>9 DEF LogInv, Ordered, Log!InOrder
  <2> QED  BY <1>1, <1>9, <2>1 DEF LogInv, Ordered
<1>12. Deep'
  <2> SUFFICES ASSUME NEW t \in Log!Names', NEW r \in backups'[t] PROVE r + After(t)' + Count' <= last'
    BY DEF Deep
  <2>1. After(t)' <= After(t) /\ After(t)' \in Nat /\ After(t) \in Nat
    <3>1. Later(t)' \subseteq Later(t)  BY <1>8 DEF Later
    <3>2. Later(t) \subseteq Log!Names  BY DEF Later
    <3>3. /\ Cardinality(Later(t)') \in Nat /\ Cardinality(Later(t)) \in Nat
          /\ Cardinality(Later(t)') <= Cardinality(Later(t))
      BY <3>1, <3>2, NamesAre, FS_Subset
    <3>4. recordsCountMax \in Nat  BY NamesAre
    <3> QED  BY <3>3, <3>4, Times DEF After
  <2>2. Count' = Count /\ Count \in Nat  BY <1>1 DEF Count, LogInv, LogTyped
  <2>3. t \in Log!Names /\ r \in backups[t]  BY <1>9
  <2>4. r + After(t) + Count <= last  BY <2>3 DEF LogInv, Deep
  <2>5. r \in Nat /\ last \in Nat  BY <1>5, <2>3, NamesAre DEF LogInv, LogTyped
  <2>6. PICK a, b, c \in Nat : a = After(t)' /\ b = After(t) /\ c = Count  BY <2>1, <2>2
  <2>7. r + a + c <= last  BY <2>1, <2>4, <2>5, <2>6
  <2> QED  BY <1>1, <2>2, <2>6, <2>7
<1>13. Log!Names' \ doomed' = Log!Names \ doomed
  BY <1>1, <1>2, <1>3, <1>8
<1>14. Rotation'
  <2>1. Left' = Left /\ Spare' = Spare /\ Harmed' = Harmed  BY <1>1, <1>13 DEF Left, Spare, Harmed
  <2>2. doomed' \subseteq Log!Names'  BY <1>1, <1>2, <1>3, <1>8
  <2>3. ~Harmed => \A t \in doomed' : \A u \in Log!Names' : u < t => u \in doomed'
    BY <1>1, <1>2, <1>3, <1>8
  <2> QED  BY <1>1, <1>2, <2>1, <2>2, <2>3 DEF Rotation
<1>15. Bounded'
  <2>1. Cardinality(Log!Names') <= Cardinality(Log!Names) /\ Cardinality(Log!Names') \in Nat
    BY <1>8, NamesAre, FS_Subset
  <2>2. Cardinality(Log!Names) \in Nat /\ backupCountMax \in Nat /\ excess \in Nat
    BY NamesAre DEF LogInv, LogTyped, Faults
  <2> QED  BY <1>1, <2>1, <2>2 DEF LogInv, Bounded
<1>16. Latest'
  <2> SUFFICES ASSUME ~Harmed, ~truncBefore PROVE NoHole' /\ Enough'
    BY <1>1 DEF Latest, Harmed
  <2>1. NoHole /\ Enough /\ Log!InOrder  BY DEF LogInv, Latest, Ordered
  <2>2. \A u \in Log!Names : u # d => d < u
    <3> SUFFICES ASSUME NEW u \in Log!Names, u < d PROVE FALSE
      BY <1>4, NamesAre
    <3>1. u \in doomed  BY <1>2
    <3> QED  BY <1>3, <1>4, <3>1, NamesAre
  <2>3. \A r : r \in Log!Kept <=> r \in Log!Kept' \/ r \in backups[d]
    BY <1>1, <1>4, <1>7, <1>8, <1>9 DEF Log!Kept
  <2>4. \A q \in backups[d] : \A r \in Log!Kept' : q < r
    <3> TAKE q \in backups[d]
    <3> TAKE r \in Log!Kept'
    <3>1. CASE r \in file  BY <1>4, <2>1, <3>1 DEF Log!InOrder
    <3>2. CASE \E t \in Log!Names' : r \in backups'[t]
      <4>1. PICK t \in Log!Names : t # d /\ r \in backups[t]  BY <1>8, <1>9, <3>2
      <4> QED  BY <1>4, <2>1, <2>2, <4>1 DEF Log!InOrder
    <3> QED  BY <1>1, <3>1, <3>2 DEF Log!Kept
  <2>5. last \in Nat  BY DEF LogInv, LogTyped
  <2>6. NoHole'
    <3> SUFFICES ASSUME NEW r \in Log!Kept', NEW s \in 1..last, r <= s, s \notin Log!Kept' PROVE FALSE
      BY <1>1 DEF NoHole
    <3>1. r \in Log!Kept /\ s \in Log!Kept  BY <2>1, <2>3 DEF NoHole
    <3>2. s < r  BY <2>3, <2>4, <3>1
    <3>3. r \in Nat /\ s \in Nat
      <4>1. r \in 1..last
        BY <1>9, <1>1, NamesAre DEF Log!Kept, LogInv, LogTyped
      <4> QED  BY <2>5, <4>1
    <3> QED  BY <3>2, <3>3
  <2>7. \A q \in backups[d] : q + backupCountMax * recordsCountMax <= last
    <3> TAKE q \in backups[d]
    <3>1. q + After(d) + recordsCount <= last
      <4>1. q + After(d) + Count <= last /\ Count = recordsCount  BY <1>1, <1>4 DEF LogInv, Deep, Count
      <4> QED  BY <4>1
    <3>2. Left <= Cardinality(Later(d)) /\ Left \in Nat /\ Cardinality(Later(d)) \in Nat
      <4>1. Log!Names \ doomed \subseteq Later(d)
        BY <2>2, <1>3 DEF Later
      <4>2. Log!Names \ doomed \subseteq Log!Names /\ Later(d) \subseteq Log!Names  BY DEF Later
      <4> QED  BY <4>1, <4>2, NamesAre, FS_Subset DEF Left
    <3>3. recordsCountMax \in Nat /\ backupCountMax \in Nat /\ recordsCount \in Nat /\ q \in Nat
      BY <1>4, <1>5, <2>5, NamesAre DEF LogInv, LogTyped
    <3>4. PICK n \in Nat : n = Cardinality(Later(d))  BY <3>2
    <3>5. n + 1 >= backupCountMax  BY <1>2, <3>2, <3>3, <3>4
    <3>6. /\ After(d) = recordsCountMax * n /\ recordsCountMax * n \in Nat
          /\ backupCountMax * recordsCountMax <= recordsCountMax * n + recordsCountMax
          /\ backupCountMax * recordsCountMax \in Nat
      <4>1. recordsCountMax * backupCountMax \in Nat /\ recordsCountMax * backupCountMax <= recordsCountMax * (n + 1)
        BY <3>3, <3>4, <3>5, Times
      <4>2. recordsCountMax * (n + 1) = recordsCountMax * n + recordsCountMax /\ recordsCountMax * n \in Nat
        BY <3>3, <3>4, Times
      <4>3. backupCountMax * recordsCountMax = recordsCountMax * backupCountMax  BY <3>3
      <4>4. After(d) = recordsCountMax * n  BY <3>4 DEF After
      <4> QED  BY <4>1, <4>2, <4>3, <4>4
    <3>7. PICK a, b \in Nat : a = recordsCountMax * n /\ b = backupCountMax * recordsCountMax  BY <3>6
    <3>8. q + a + recordsCount <= last /\ b <= a + recordsCountMax  BY <3>1, <3>6, <3>7
    <3>9. q + b <= last  BY <1>2, <2>5, <3>3, <3>7, <3>8
    <3> QED  BY <3>7, <3>9
  <2>8. Enough'
    <3> SUFFICES ASSUME NEW s \in 1..last, s + backupCountMax * recordsCountMax > last, s \notin Log!Kept'
                 PROVE FALSE
      BY <1>1 DEF Enough
    <3>1. s \in Log!Kept  BY <2>1 DEF Enough
    <3>2. s + backupCountMax * recordsCountMax <= last  BY <2>3, <2>7, <3>1
    <3>3. backupCountMax * recordsCountMax \in Nat /\ s \in Nat  BY <2>5, NamesAre, Times
    <3> QED  BY <2>5, <3>2, <3>3
  <2> QED  BY <2>6, <2>8
<1> QED  BY <1>10, <1>11, <1>12, <1>14, <1>15, <1>16 DEF LogInv

LEMMA OneMore == ASSUME NEW S, NEW x, IsFiniteSet(S)
                 PROVE /\ IsFiniteSet(S \cup {x}) /\ Cardinality(S \cup {x}) <= Cardinality(S) + 1
<1>1. Cardinality(S) \in Nat  BY FS_CardinalityType
<1>2. /\ IsFiniteSet(S \cup {x})
      /\ Cardinality(S \cup {x}) = IF x \in S THEN Cardinality(S) ELSE Cardinality(S) + 1
  BY FS_AddElement
<1>3. \A n \in Nat : n <= n + 1  OBVIOUS
<1> QED  BY <1>1, <1>2, <1>3

(* A backup made of the file. *)
LEMMA RenameKeeps == ASSUME Log!LogAssumption, LogInv, Log!Rename, ok,
                            backups' = [backups EXCEPT ![at] = file], file' = {},
                            overwritten' = (overwritten \/ backups[at] # {}),
                            excess' = IF listed THEN 0 ELSE excess, UNCHANGED failures
                     PROVE LogInv'
<1>1. /\ pc = "backup" /\ doomed = {} /\ pc' = "reopen"
      /\ UNCHANGED <<now, truncBefore, recordsCount, last, at, listed, doomed, ok>>
  BY DEF Log!Rename, Log!rotation
<1>2. /\ at \in Nat /\ at <= now /\ last \in Nat /\ recordsCount \in Nat
      /\ file \subseteq 1..last /\ backups \in [Log!Time -> SUBSET (1..last)]
      /\ Faults
  BY DEF LogInv, LogTyped
<1>3. at \in Log!Time
  <2>1. now \in Nat /\ now <= MaxTime /\ MaxTime \in Nat  BY NamesAre DEF LogInv, LogTyped
  <2> QED  BY <1>2, <2>1 DEF Log!Time
<1>4. /\ Log!Time' = Log!Time /\ backups' \in [Log!Time -> SUBSET (1..last)]
      /\ \A t \in Log!Time : backups'[t] = IF t = at THEN file ELSE backups[t]
  BY <1>2, <1>3 DEF Log!Time
<1>5. \A t \in Log!Names' : /\ t \in Log!Time /\ t \in Nat
                            /\ t # at => t \in Log!Names /\ backups'[t] = backups[t]
                            /\ t = at => backups'[t] = file
  <2>1. Log!Names' \subseteq Log!Time  BY <1>4 DEF Log!Names
  <2> QED  BY <1>4, <2>1, NamesAre DEF Log!Names
<1>6. \A t \in Log!Names : t \in Nat /\ t <= at  BY <1>1, NamesAre DEF LogInv, Ordered
<1>7. LogTyped'
  <2>1. Faults'  BY <1>1, <1>2 DEF Faults
  <2>2. file' \subseteq 1..last' /\ backups' \in [Log!Time' -> SUBSET (1..last')]
    BY <1>1, <1>4
  <2>3. pc' \in Stages  BY <1>1 DEF Stages
  <2> QED  BY <1>1, <2>1, <2>2, <2>3 DEF LogInv, LogTyped
<1>8. Ordered'
  <2>1. ASSUME NEW t \in Log!Names', NEW u \in Log!Names', t < u,
               NEW r \in backups'[t], NEW s \in backups'[u]
        PROVE r < s
    <3>1. t # at  BY <1>2, <1>5, <1>6, <2>1
    <3>2. t \in Log!Names /\ r \in backups[t]  BY <1>5, <3>1
    <3>3. CASE u = at  BY <1>5, <3>2, <3>3 DEF LogInv, Ordered, Log!InOrder
    <3>4. CASE u # at  BY <1>5, <2>1, <3>2, <3>4 DEF LogInv, Ordered, Log!InOrder
    <3> QED  BY <3>3, <3>4
  <2>2. \A t \in Log!Names' : t <= now
    <3> TAKE t \in Log!Names'
    <3>1. CASE t = at  BY <1>2, <3>1
    <3>2. CASE t # at  BY <1>5, <3>2 DEF LogInv, Ordered
    <3> QED  BY <3>1, <3>2
  <2> QED  BY <1>1, <2>1, <2>2 DEF Ordered, Log!InOrder
<1>9. Deep'
  <2> SUFFICES ASSUME NEW t \in Log!Names', NEW r \in backups'[t] PROVE r + After(t)' + Count' <= last'
    BY DEF Deep
  <2>0. Count' = 0 /\ recordsCountMax \in Nat  BY <1>1, NamesAre DEF Count
  <2>1. CASE t = at
    <3>1. Later(t)' = {}  BY <1>5, <1>6, <2>1 DEF Later
    <3>2. After(t)' = recordsCountMax * 0  BY <3>1, FS_EmptySet DEF After
    <3>3. After(t)' = 0  BY <2>0, <3>2
    <3>4. r \in 1..last  BY <1>2, <1>5, <2>1
    <3> QED  BY <1>1, <1>2, <2>0, <3>3, <3>4
  <2>2. CASE t # at
    <3>1. t \in Log!Names /\ r \in backups[t]  BY <1>5, <2>2
    <3>2. Later(t)' \subseteq Later(t) \cup {at}  BY <1>5 DEF Later
    <3>3. PICK n, m \in Nat : n = Cardinality(Later(t)) /\ m = Cardinality(Later(t)') /\ m <= n + 1
      <4>1. IsFiniteSet(Later(t)) /\ Cardinality(Later(t)) \in Nat  BY LaterAre
      <4>2. IsFiniteSet(Later(t) \cup {at}) /\ Cardinality(Later(t) \cup {at}) <= Cardinality(Later(t)) + 1
        BY <4>1, OneMore
      <4>3. /\ Cardinality(Later(t)') \in Nat /\ Cardinality(Later(t) \cup {at}) \in Nat
            /\ Cardinality(Later(t)') <= Cardinality(Later(t) \cup {at})
        BY <3>2, <4>2, FS_Subset, FS_CardinalityType
      <4> QED  BY <4>1, <4>2, <4>3
    <3>4. After(t) = recordsCountMax * n /\ After(t)' = recordsCountMax * m  BY <3>3 DEF After
    <3>5. /\ recordsCountMax * n \in Nat /\ recordsCountMax * m \in Nat
          /\ recordsCountMax * m <= recordsCountMax * n + recordsCountMax
      <4>1. recordsCountMax * m <= recordsCountMax * (n + 1)  BY <2>0, <3>3, Times
      <4>2. recordsCountMax * (n + 1) = recordsCountMax * n + recordsCountMax  BY <2>0, <3>3, Times
      <4> QED  BY <2>0, <3>3, <4>1, <4>2, Times
    <3>6. PICK a, b \in Nat : a = recordsCountMax * n /\ b = recordsCountMax * m  BY <3>5
    <3>7. r + a + recordsCount <= last
      <4>1. r + After(t) + Count <= last /\ Count = recordsCount  BY <1>1, <3>1 DEF LogInv, Deep, Count
      <4> QED  BY <3>4, <3>6, <4>1
    <3>8. recordsCount >= recordsCountMax  BY <1>1 DEF LogInv, Rotation
    <3>9. r \in Nat  BY <1>2, <3>1, NamesAre
    <3>10. r + b + 0 <= last  BY <1>2, <2>0, <3>5, <3>6, <3>7, <3>8, <3>9
    <3> QED  BY <1>1, <2>0, <3>4, <3>6, <3>10
  <2> QED  BY <2>1, <2>2
<1>10. Rotation'  BY <1>1 DEF Rotation
<1>11. Bounded'
  <2> SUFFICES ASSUME backupCountMax > 0 PROVE Cardinality(Log!Names') <= backupCountMax + excess'
    BY DEF Bounded
  <2>0. excess' = Spare /\ excess' \in Nat  BY <1>2 DEF Spare, Faults
  <2>1. Cardinality(Log!Names) + 1 <= backupCountMax + excess'
    <3>1. Log!Names \ doomed = Log!Names  BY <1>1
    <3>2. Left + 1 <= backupCountMax + Spare  BY <1>1 DEF LogInv, Rotation
    <3> QED  BY <2>0, <3>1, <3>2 DEF Left
  <2>2. Log!Names' \subseteq Log!Names \cup {at}  BY <1>5
  <2>3. IsFiniteSet(Log!Names \cup {at}) /\ Cardinality(Log!Names \cup {at}) <= Cardinality(Log!Names) + 1
    BY NamesAre, OneMore
  <2>4. /\ Cardinality(Log!Names') \in Nat /\ Cardinality(Log!Names \cup {at}) \in Nat
        /\ Cardinality(Log!Names') <= Cardinality(Log!Names \cup {at})
    BY <2>2, <2>3, FS_Subset, FS_CardinalityType
  <2>5. backupCountMax \in Nat /\ Cardinality(Log!Names) \in Nat  BY NamesAre
  <2> QED  BY <2>0, <2>1, <2>3, <2>4, <2>5
<1>12. Latest'
  <2> SUFFICES ASSUME ~Harmed', ~truncBefore PROVE NoHole' /\ Enough'
    BY <1>1 DEF Latest
  <2>1. ~Harmed /\ backups[at] = {}  BY <1>2 DEF Harmed
  <2>2. \A r : r \in Log!Kept' <=> r \in Log!Kept
    <3>1. \A r \in Log!Kept' : r \in Log!Kept  BY <1>5 DEF Log!Kept
    <3>2. ASSUME NEW r \in Log!Kept PROVE r \in Log!Kept'
      <4>1. CASE r \in file
        <5>1. at \in Log!Names' /\ r \in backups'[at]  BY <1>3, <1>4, <4>1 DEF Log!Names
        <5> QED  BY <5>1 DEF Log!Kept
      <4>2. CASE \E t \in Log!Names : r \in backups[t]
        <5>1. PICK t \in Log!Names : r \in backups[t]  BY <4>2
        <5>2. t # at /\ t \in Log!Time  BY <2>1, <5>1, NamesAre
        <5>3. t \in Log!Names' /\ r \in backups'[t]  BY <1>4, <5>1, <5>2 DEF Log!Names
        <5> QED  BY <5>3 DEF Log!Kept
      <4> QED  BY <4>1, <4>2 DEF Log!Kept
    <3> QED  BY <3>1, <3>2
  <2>3. NoHole /\ Enough  BY <2>1 DEF LogInv, Latest
  <2> QED  BY <1>1, <2>2, <2>3 DEF NoHole, Enough
<1> QED  BY <1>7, <1>8, <1>9, <1>10, <1>11, <1>12 DEF LogInv

LEMMA LogInit == ASSUME Log!LogAssumption, Log!Init PROVE LogInv
<1>1. /\ now = 0 /\ at = 0 /\ file = {} /\ pc = "none" /\ recordsCount = 0 /\ last = 0
      /\ truncBefore \in BOOLEAN /\ ok = TRUE /\ listed = TRUE /\ failures = 0 /\ excess = 0 /\ overwritten = FALSE
      /\ backups = [t \in Log!Time |-> {}]
  BY DEF Log!Init
<1>2. Log!Names = {} /\ Log!Kept = {}
  <2>1. Log!Names = {}  BY <1>1 DEF Log!Names
  <2> QED  BY <1>1, <2>1 DEF Log!Kept
<1>3. LogTyped
  <2>1. 0 <= MaxTime  BY NamesAre
  <2>2. backups \in [Log!Time -> SUBSET (1..last)] /\ file \subseteq 1..last  BY <1>1
  <2>3. now \in Nat /\ now <= MaxTime /\ at \in Nat /\ at <= now /\ last \in Nat /\ recordsCount \in Nat
    BY <1>1, <2>1
  <2>4. truncBefore \in BOOLEAN /\ Faults /\ pc \in Stages
    BY <1>1 DEF Stages, Faults
  <2> QED  BY <2>2, <2>3, <2>4 DEF LogTyped
<1>4. Ordered  BY <1>1, <1>2 DEF Ordered, Log!InOrder
<1>5. Deep  BY <1>2 DEF Deep
<1>6. Rotation  BY <1>1 DEF Rotation
<1>7. Bounded
  <2>1. Cardinality(Log!Names) = 0 /\ backupCountMax \in Nat  BY <1>2, FS_EmptySet, NamesAre
  <2> QED  BY <1>1, <2>1 DEF Bounded
<1>8. Latest  BY <1>1, <1>2 DEF Latest, NoHole, Enough
<1> QED  BY <1>3, <1>4, <1>5, <1>6, <1>7, <1>8 DEF LogInv

LEMMA LogStutters == ASSUME LogInv, UNCHANGED Log!vars PROVE LogInv'
<1>1. UNCHANGED <<now, truncBefore, file, backups, pc, recordsCount, last, at, listed, doomed, ok, failures, excess,
                     overwritten>>
  BY DEF Log!vars, Log!disk, Log!rotation, Log!faults
<1>2. Log!Names' = Log!Names /\ Log!Time' = Log!Time /\ \A t : After(t)' = After(t)  BY <1>1, SameNames
<1>3. Log!Kept' = Log!Kept  BY <1>1, <1>2 DEF Log!Kept
<1>10. Faults' = Faults /\ Harmed' = Harmed /\ Spare' = Spare  BY <1>1 DEF Faults, Harmed, Spare
<1>4. LogTyped'  BY <1>1, <1>2, <1>10 DEF LogInv, LogTyped
<1>5. Ordered'  BY <1>1, <1>2 DEF LogInv, Ordered, Log!InOrder
<1>6. Deep'  BY <1>1, <1>2 DEF LogInv, Deep, Count
<1>7. Rotation'  BY <1>1, <1>2, <1>10 DEF LogInv, Rotation, Left
<1>8. Bounded'  BY <1>1, <1>2 DEF LogInv, Bounded
<1>9. Latest'  BY <1>1, <1>3, <1>10 DEF LogInv, Latest, NoHole, Enough
<1> QED  BY <1>4, <1>5, <1>6, <1>7, <1>8, <1>9 DEF LogInv

LEMMA LogStep == ASSUME Log!LogAssumption, LogInv, [Log!Next]_Log!vars PROVE LogInv'
<1>1. CASE Log!Open  BY <1>1, OpenKeeps
<1>2. CASE Log!Add  BY <1>2, AddKeeps
<1>3. CASE Log!BackupLog  BY <1>3, BackupLogKeeps
<1>4. CASE Log!Unlink
  <2>1. \/ backups' = [backups EXCEPT ![Log!Min(doomed)] = {}] /\ UNCHANGED <<ok, failures>>
        \/ UNCHANGED backups /\ Log!Fails /\ ok' = FALSE
    BY <1>4 DEF Log!Unlink
  <2> QED  BY <1>4, <2>1, UnlinkKeeps, UnlinkFailKeeps
<1>5. CASE Log!Rename
  <2>1. CASE /\ ok /\ backups' = [backups EXCEPT ![at] = file] /\ file' = {}
             /\ overwritten' = (overwritten \/ backups[at] # {})
             /\ excess' = (IF listed THEN 0 ELSE excess) /\ UNCHANGED failures
    BY <1>5, <2>1, RenameKeeps
  <2>2. CASE Log!Fails /\ UNCHANGED <<Log!disk, excess, overwritten>>
    BY <1>5, <2>2, RenameFailKeeps, FailsHarms DEF Log!disk
  <2>3. CASE ~ok /\ UNCHANGED <<Log!disk, Log!faults>>
    <3>1. Harmed /\ failures \in Nat  BY <1>5, <2>3 DEF Log!Rename, LogInv, LogTyped, Faults, Rotation
    <3>2. Harmed' /\ failures' \in Nat /\ UNCHANGED <<file, backups, excess, overwritten>>
      BY <2>3, <3>1 DEF Harmed, Log!faults, Log!disk
    <3> QED  BY <1>5, <3>2, RenameFailKeeps
  <2> QED  BY <1>5, <2>1, <2>2, <2>3 DEF Log!Rename
<1>6. CASE Log!Reopen  BY <1>6, ReopenKeeps
<1>7. CASE Log!ReopenFails  BY <1>7, ReopenFailKeeps
<1>8. CASE Log!AddRest  BY <1>8, AddRestKeeps
<1>9. CASE Log!End  BY <1>9, EndKeeps
<1>10. CASE Log!Tick  BY <1>10, TickKeeps
<1>11. CASE UNCHANGED Log!vars  BY <1>11, LogStutters
<1> QED  BY <1>1, <1>2, <1>3, <1>4, <1>5, <1>6, <1>7, <1>8, <1>9, <1>10, <1>11 DEF Log!Next

(* What the invariant says of the files. *)
LEMMA LatestMeans == ASSUME Log!LogAssumption, LogInv PROVE Log!LatestKept
<1> SUFFICES ASSUME ~Harmed, ~truncBefore
             PROVE /\ Log!Kept = (last - Cardinality(Log!Kept) + 1)..last
                   /\ \/ Cardinality(Log!Kept) = last
                      \/ Cardinality(Log!Kept) >= backupCountMax * recordsCountMax
  BY LogCount DEF Log!LatestKept, Harmed
<1>1. NoHole /\ Enough  BY DEF LogInv, Latest
<1>2. last \in Nat /\ Log!Kept \subseteq 1..last
  <2>1. \A t \in Log!Names : backups[t] \subseteq 1..last  BY NamesAre DEF LogInv, LogTyped
  <2> QED  BY <2>1 DEF Log!Kept, LogInv, LogTyped
<1>3. PICK most \in Nat : most = backupCountMax * recordsCountMax  BY NamesAre, Times
<1>4. CASE Log!Kept = {}
  <2>1. Cardinality(Log!Kept) = 0  BY <1>4, FS_EmptySet
  <2>2. (last - 0 + 1)..last = {}  BY <1>2
  <2>3. last = 0 \/ 0 >= most
    <3>1. ASSUME last # 0 PROVE ~(last + most > last)
      <4>1. last \in 1..last  BY <1>2, <3>1
      <4> QED  BY <1>1, <1>3, <1>4, <4>1 DEF Enough
    <3> QED  BY <1>2, <1>3, <3>1
  <2> QED  BY <1>3, <1>4, <2>1, <2>2, <2>3
<1>5. CASE Log!Kept # {}
  <2>1. Log!Kept \in SUBSET Nat  BY <1>2
  <2>2. PICK first \in Log!Kept : \A r \in Log!Kept : first <= r  BY <1>5, <2>1, LeastOf
  <2>3. first \in Nat /\ 1 <= first /\ first <= last  BY <1>2, <2>2
  <2>4. Log!Kept = first..last
    <3>1. \A r \in first..last : r \in 1..last /\ first <= r  BY <1>2, <2>3
    <3>2. \A r \in first..last : r \in Log!Kept  BY <1>1, <3>1 DEF NoHole
    <3>3. \A r \in Log!Kept : r \in first..last
      <4>1. \A r \in 1..last : first <= r => r \in first..last  BY <1>2, <2>3
      <4> QED  BY <1>2, <2>2, <4>1
    <3> QED  BY <3>2, <3>3
  <2>5. Cardinality(Log!Kept) = last - first + 1  BY <1>2, <2>3, <2>4, FS_Interval
  <2>6. last - (last - first + 1) + 1 = first  BY <1>2, <2>3
  <2>7. first = 1 \/ last - first + 1 >= most
    <3> SUFFICES ASSUME first # 1 PROVE last - first + 1 >= most
      OBVIOUS
    <3>1. first - 1 \in 1..last /\ first - 1 < first  BY <1>2, <2>3
    <3>2. first - 1 \notin Log!Kept  BY <2>2, <2>3, <3>1
    <3>3. ~((first - 1) + most > last)  BY <1>1, <1>3, <3>1, <3>2 DEF Enough
    <3> QED  BY <1>2, <2>3, <3>3
  <2>8. last - 1 + 1 = last  BY <1>2
  <2> QED  BY <1>3, <2>4, <2>5, <2>6, <2>7, <2>8
<1> QED  BY <1>4, <1>5

(* For any number of records, backups and seconds, and however the process ends and its calls
   fail, the backups are in the order of their records, and no more than configured but for one
   for each listing of the directory that failed, until a rotation succeeds on a complete list;
   while no call failed, no two rotations fell into one second and the file is not cleared when
   it is opened, they and the file hold the latest records without a hole
   (unp_log_sys.cc:64-260). *)
THEOREM LogIsKept == ASSUME Log!LogAssumption PROVE Log!Spec => []LogKept
<1>1. Log!Init => LogInv  BY LogInit
<1>2. LogInv /\ [Log!Next]_Log!vars => LogInv'  BY LogStep
<1>3. LogInv => LogKept
  <2> SUFFICES ASSUME LogInv PROVE Log!LogKept
    BY DEF LogKept
  <2>1. Log!BackupsBounded  BY LogCount DEF LogInv, Bounded, Log!BackupsBounded
  <2>2. Log!InOrder  BY DEF LogInv, Ordered
  <2> QED  BY <2>1, <2>2, LatestMeans DEF Log!LogKept
<1> QED  BY <1>1, <1>2, <1>3, PTL DEF Log!Spec
=============================================================================
