------------------------------ MODULE RtdbProofs ------------------------------
(***************************************************************************)
(* Proofs about the run-time database: for any threads in any processes a  *)
(* writer is alone, and the two levels of locking implement one readers-   *)
(* writer lock.                                                            *)
(***************************************************************************)
EXTENDS Rtdb, TLAPS, FiniteSetTheorems

(* The threads of a process that lockCount counts. *)
Inside(p) == {t \in Threads : Proc[t] = p /\ pc[t] \in {"file", "hold"}}

(* Nobody is inside where a call on the file failed; elsewhere the counter is exact; a writer
   is the only one inside; whoever waits for the file has the mutex and is the only one
   inside; whoever holds is covered by the process's lock on the file; these locks do not
   conflict, and the dead have none. *)
Emptied == \A p \in alive : Broken(p) => Inside(p) = {}
Counted == \A p \in alive : ~Broken(p) => lockCount[p] = Cardinality(Inside(p))
Written == \A p \in alive : ~Broken(p) => (lockedW[p] <=> (\E t \in Inside(p) : want[t] = "w"))
Single == \A p \in alive : \A t, u \in Inside(p) : want[t] = "w" => t = u
Filing == \A t \in Threads : At(t, "file") => mutex[Proc[t]] = t /\ Inside(Proc[t]) = {t}
Covered == \A t \in Threads : Holds(t) => file[Proc[t]] = want[t]
Exclusive == \A p, q \in Processes : p # q /\ file[p] = "w" => file[q] = "none"
IInv == TypeOK /\ Emptied /\ Counted /\ Written /\ Single /\ Filing /\ Covered /\ Exclusive

-----------------------------------------------------------------------------
LEMMA InsideFinite == ASSUME NEW p PROVE IsFiniteSet(Inside(p)) /\ Cardinality(Inside(p)) \in Nat
<1>1. Inside(p) \in SUBSET Threads  BY DEF Inside
<1>2. IsFiniteSet(Inside(p))  BY <1>1, RtdbAssumption, FS_Subset
<1> QED  BY <1>2, FS_CardinalityType

LEMMA Positive == ASSUME IInv, NEW t \in Threads, At(t, "hold") \/ At(t, "file")
                  PROVE lockCount[Proc[t]] \in Nat \ {0} /\ ~Broken(Proc[t])
<1> DEFINE p == Proc[t]
<1>1. t \in Inside(p) /\ p \in alive /\ ~Broken(p)  BY DEF Inside, At, IInv, Emptied
<1>2. Cardinality(Inside(p)) # 0  BY <1>1, InsideFinite, FS_EmptySet
<1> QED  BY <1>1, <1>2, InsideFinite DEF IInv, Counted

LEMMA TypeStep == IInv /\ [Next]_vars => TypeOK'
<1> SUFFICES ASSUME IInv, [Next]_vars PROVE TypeOK'
  OBVIOUS
<1> USE RtdbAssumption DEF TypeOK, Modes
<1>0. TypeOK  BY DEF IInv
<1>1. ASSUME NEW t \in Threads, Call(t) PROVE TypeOK'
  BY <1>0, <1>1 DEF Call, At, Goto, object, ended
<1>2. ASSUME NEW t \in Threads, Wait(t) PROVE TypeOK'
  BY <1>0, <1>2 DEF Wait, Goto, object, ended
<1>3. ASSUME NEW t \in Threads, Spurious(t) PROVE TypeOK'
  BY <1>0, <1>3 DEF Spurious, Goto, object, ended
<1>4. ASSUME NEW t \in Threads, Enter(t) PROVE TypeOK'
  BY <1>0, <1>4 DEF Enter, Joined, Goto, Keep, object, ended
<1>5. ASSUME NEW t \in Threads, FileLock(t) PROVE TypeOK'
  BY <1>0, <1>5 DEF FileLock, Goto, Keep, object, ended
<1>6. ASSUME NEW t \in Threads, Unlock(t) PROVE TypeOK'
  <2>1. lockCount[Proc[t]] - 1 \in Nat  BY <1>6, Positive DEF Unlock
  <2> QED  BY <1>0, <1>6, <2>1 DEF Unlock, Unlocked, Goto, object, ended
<1>7. ASSUME NEW t \in Threads, Trigger(t) PROVE TypeOK'
  BY <1>0, <1>7 DEF Trigger, Woken, object, ended
<1>8. ASSUME NEW t \in Threads, Restore(t) PROVE TypeOK'
  BY <1>0, <1>8 DEF Restore, At, Known, Goto, object, ended
<1>9. ASSUME NEW t \in Threads, RestoreFails(t) \/ FileLockFails(t) PROVE TypeOK'
  BY <1>0, <1>9 DEF RestoreFails, FileLockFails, AssertFails, End, Goto, object, ended
<1>10. ASSUME NEW t \in Threads, Forget(t) PROVE TypeOK'
  BY <1>0, <1>10 DEF Forget, Goto, object, ended
<1>11. ASSUME NEW p \in Processes, Killed(p) PROVE TypeOK'
  BY <1>0, <1>11 DEF Killed, End
<1>12. ASSUME NEW t \in Threads, UnlockFails(t) PROVE TypeOK'
  BY <1>0, <1>12 DEF UnlockFails, End, Keep, Goto, object, ended
<1>13. CASE UNCHANGED vars
  BY <1>0, <1>13 DEF vars
<1> QED
  BY <1>1, <1>2, <1>3, <1>4, <1>5, <1>6, <1>7, <1>8, <1>9, <1>10, <1>11, <1>12, <1>13 DEF Next, Step

(* A step that moves no thread into or out of the lock keeps the invariant. *)
LEMMA Outside == ASSUME IInv, TypeOK', UNCHANGED <<object, mutex, alive>>,
                        \A t \in Threads : pc[t] \in {"file", "hold"} \/ pc'[t] \in {"file", "hold"}
                                           => pc'[t] = pc[t] /\ want'[t] = want[t]
                 PROVE IInv'
<1>0. \A p : Broken(p)' = Broken(p)  BY DEF Broken
<1>1. \A p : Inside(p)' = Inside(p)  BY DEF Inside
<1>2. \A p : \A t \in Inside(p) : want'[t] = want[t]  BY DEF Inside
<1>3. \A t \in Threads : (At(t, "file")' => At(t, "file")) /\ (Holds(t)' => Holds(t) /\ want'[t] = want[t])
  BY DEF At, Holds
<1>4. Emptied' /\ Counted' /\ Written' /\ Single'
  BY <1>0, <1>1, <1>2 DEF IInv, Emptied, Counted, Written, Single, object
<1>5. Filing' /\ Covered' /\ Exclusive'
  BY <1>1, <1>3 DEF IInv, Filing, Covered, Exclusive, object
<1> QED  BY <1>4, <1>5 DEF IInv

LEMMA EnterStep == ASSUME IInv, TypeOK', NEW t \in Threads, Enter(t) PROVE IInv'
<1> DEFINE p == Proc[t]
<1> USE RtdbAssumption
<1>0. TypeOK /\ TypeOK'  BY DEF IInv
<1>1. /\ p \in alive /\ p \in Processes /\ pc[t] = "lock" /\ mutex[p] = "nobody" /\ ~Busy(t)
      /\ UNCHANGED <<want, file, alive>> /\ t \notin Inside(p)
  BY DEF Enter, At, Free, ended, Inside
<1>2. Inside(p)' = Inside(p) \cup {t} /\ \A q : q # p => Inside(q)' = Inside(q)
  BY <1>0 DEF Enter, Goto, Inside, TypeOK
<1>3. /\ lockCount'[p] = lockCount[p] + 1 /\ \A q \in Processes \ {p} : lockCount'[q] = lockCount[q]
      /\ lockedW'[p] = (lockedW[p] \/ want[t] = "w")
      /\ \A q \in Processes \ {p} : lockedW'[q] = lockedW[q]
  BY <1>0, <1>1 DEF Enter, Joined, TypeOK
<1>11. ~Broken(p) /\ ~Broken(p)' /\ \A q \in Processes \ {p} : Broken(q)' = Broken(q)
  <2>1. ~Broken(p)  BY <1>1 DEF Broken
  <2>2. ~Broken(p)'
    <3>1. mutex'[p] = "nobody" \/ (mutex'[p] = t /\ pc'[t] = "file")
      BY <1>0, <1>1 DEF Enter, Goto, Keep, TypeOK
    <3> QED  BY <3>1 DEF Broken
  <2>3. \A q \in Processes \ {p} : Broken(q)' = Broken(q)
    BY <1>0, <1>1 DEF Enter, Goto, Keep, TypeOK, Broken
  <2> QED  BY <2>1, <2>2, <2>3
<1>4. Counted'
  <2>1. Cardinality(Inside(p)') = Cardinality(Inside(p)) + 1
    BY <1>1, <1>2, InsideFinite, FS_AddElement
  <2>2. ASSUME NEW q \in alive, q # p, ~Broken(q) PROVE lockCount'[q] = Cardinality(Inside(q)')
    BY <1>0, <1>1, <1>2, <1>3, <2>2 DEF IInv, Counted, TypeOK
  <2>3. lockCount'[p] = Cardinality(Inside(p)')  BY <1>1, <1>3, <1>11, <2>1 DEF IInv, Counted
  <2> QED  BY <1>0, <1>1, <1>11, <2>2, <2>3 DEF Counted, TypeOK
<1>5. Written'
  <2>1. ASSUME NEW q \in alive, q # p, ~Broken(q) PROVE lockedW'[q] <=> \E u \in Inside(q)' : want'[u] = "w"
    BY <1>0, <1>1, <1>2, <1>3, <2>1 DEF IInv, Written, TypeOK
  <2>2. lockedW'[p] <=> \E u \in Inside(p)' : want'[u] = "w"
    BY <1>0, <1>1, <1>2, <1>3, <1>11 DEF IInv, Written, TypeOK
  <2> QED  BY <1>0, <1>1, <1>11, <2>1, <2>2 DEF Written, TypeOK
<1>12. Emptied'
  BY <1>0, <1>1, <1>2, <1>11 DEF IInv, Emptied, TypeOK
<1>6. lockCount[p] = 0 => Inside(p) = {}
  BY <1>1, <1>11, InsideFinite, FS_EmptySet DEF IInv, Counted
<1>7. Single'
  <2>1. CASE want[t] = "w"
    <3>1. Inside(p)' = {t}  BY <1>0, <1>1, <1>2, <1>6, <2>1 DEF Busy, TypeOK
    <3> QED  BY <1>1, <1>2, <3>1 DEF IInv, Single
  <2>2. CASE want[t] # "w"
    <3>1. \A u \in Inside(p) : want[u] # "w"  BY <1>1, <1>11, <2>2 DEF Busy, IInv, Written
    <3> QED  BY <1>1, <1>2, <2>2, <3>1 DEF IInv, Single
  <2> QED  BY <2>1, <2>2
<1>8. \A u \in Threads : pc[u] = "file" /\ Proc[u] \in alive => Proc[u] # p
  BY <1>1 DEF IInv, Filing, At
<1>9. CASE lockCount'[p] = 1
  <2>1. lockCount[p] = 0  BY <1>0, <1>1, <1>3, <1>9 DEF TypeOK
  <2>2. pc' = [pc EXCEPT ![t] = "file"] /\ mutex' = [mutex EXCEPT ![p] = t]
    BY <1>9 DEF Enter, Goto, Keep
  <2>3. Filing'
    BY <1>0, <1>1, <1>2, <1>6, <1>8, <2>1, <2>2 DEF IInv, Filing, At, TypeOK
  <2>4. Covered'  BY <1>0, <1>1, <2>2 DEF IInv, Covered, Holds, At, TypeOK
  <2> QED  BY <1>0, <1>1, <1>4, <1>5, <1>7, <1>12, <2>3, <2>4 DEF IInv, Exclusive
<1>10. CASE lockCount'[p] # 1
  <2>1. pc' = [pc EXCEPT ![t] = "hold"] /\ UNCHANGED mutex  BY <1>10 DEF Enter, Goto
  <2>2. lockCount[p] # 0  BY <1>0, <1>1, <1>3, <1>10 DEF TypeOK
  <2>3. want[t] = "r" /\ ~lockedW[p]  BY <1>0, <1>1, <2>2 DEF Busy, TypeOK
  <2>4. PICK u \in Inside(p) : TRUE
    BY <1>1, <1>11, <2>2, FS_EmptySet DEF IInv, Counted
  <2>5. u \in Threads /\ Holds(u) /\ Proc[u] = p /\ want[u] = "r"
    BY <1>0, <1>1, <1>8, <1>11, <2>3 DEF Inside, Holds, At, IInv, Written, TypeOK
  <2>6. file[p] = "r"  BY <2>5 DEF IInv, Covered
  <2>7. Filing'  BY <1>0, <1>1, <1>2, <1>8, <2>1 DEF IInv, Filing, At, TypeOK
  <2>8. Covered'  BY <1>0, <1>1, <2>1, <2>3, <2>6 DEF IInv, Covered, Holds, At, TypeOK
  <2> QED  BY <1>0, <1>1, <1>4, <1>5, <1>7, <1>12, <2>7, <2>8 DEF IInv, Exclusive
<1> QED  BY <1>9, <1>10

LEMMA FileLockStep == ASSUME IInv, TypeOK', NEW t \in Threads, FileLock(t) PROVE IInv'
<1> DEFINE p == Proc[t]
<1> USE RtdbAssumption
<1>0. TypeOK /\ TypeOK'  BY DEF IInv
<1>1. /\ p \in alive /\ p \in Processes /\ pc[t] = "file" /\ ~Conflicts(p, want[t])
      /\ mutex[p] = t /\ Inside(p) = {t}
      /\ UNCHANGED <<want, lockCount, lockedW, alive>>
      /\ file' = [file EXCEPT ![p] = want[t]] /\ mutex' = [mutex EXCEPT ![p] = "nobody"]
      /\ pc' = [pc EXCEPT ![t] = "hold"]
  BY DEF FileLock, At, ended, Keep, Goto, IInv, Filing
<1>2. \A q : Inside(q)' = Inside(q)  BY <1>0, <1>1 DEF Inside, TypeOK
<1>9. ~Broken(p) /\ \A q \in Processes : Broken(q)' => Broken(q)
  BY <1>0, <1>1 DEF Broken, TypeOK
<1>3. Emptied' /\ Counted' /\ Written' /\ Single'
  <2>1. \A q : \A u \in Inside(q) : want'[u] = want[u]  BY <1>1
  <2>2. \A q \in Processes : Broken(q) => Broken(q)'  BY <1>0, <1>1 DEF Broken, TypeOK
  <2> QED  BY <1>0, <1>1, <1>2, <1>9, <2>1, <2>2 DEF IInv, Emptied, Counted, Written, Single, TypeOK
<1>4. \A u \in Threads : pc[u] = "file" /\ Proc[u] = p => u = t
  BY <1>1 DEF Inside
<1>5. Filing'  BY <1>0, <1>1, <1>2, <1>4 DEF IInv, Filing, At, TypeOK
<1>6. \A u \in Threads : pc[u] = "hold" => Proc[u] # p  BY <1>1 DEF Inside
<1>7. Covered'  BY <1>0, <1>1, <1>6 DEF IInv, Covered, Holds, At, TypeOK
<1>8. Exclusive'
  BY <1>0, <1>1 DEF IInv, Exclusive, Conflicts, TypeOK, Modes
<1> QED  BY <1>0, <1>3, <1>5, <1>7, <1>8 DEF IInv

LEMMA UnlockStep == ASSUME IInv, TypeOK', NEW t \in Threads, Unlock(t) PROVE IInv'
<1> DEFINE p == Proc[t]
<1> USE RtdbAssumption
<1>0. TypeOK /\ TypeOK'  BY DEF IInv
<1>1. /\ p \in alive /\ p \in Processes /\ pc[t] = "hold" /\ mutex[p] = "nobody" /\ t \in Inside(p)
      /\ UNCHANGED <<want, mutex, alive>>
      /\ file' = [file EXCEPT ![p] = Unlocked(p)]
      /\ lockCount' = [lockCount EXCEPT ![p] = @ - 1] /\ lockedW' = [lockedW EXCEPT ![p] = FALSE]
      /\ pc' = [pc EXCEPT ![t] = "trigger"]
  BY DEF Unlock, At, Free, ended, Goto, Inside
<1>2. Inside(p)' = Inside(p) \ {t} /\ \A q : q # p => Inside(q)' = Inside(q)
  BY <1>0, <1>1 DEF Inside, TypeOK
<1>9. ~Broken(p) /\ ~Broken(p)' /\ \A q \in Processes \ {p} : Broken(q)' = Broken(q)
  BY <1>0, <1>1 DEF Broken, TypeOK
<1>10. Emptied'  BY <1>0, <1>1, <1>2, <1>9 DEF IInv, Emptied, TypeOK
<1>3. Counted'
  <2>1. Cardinality(Inside(p)') = Cardinality(Inside(p)) - 1
    <3>1. IsFiniteSet(Inside(p))  BY InsideFinite
    <3>2. Cardinality(Inside(p) \ {t}) = Cardinality(Inside(p)) - 1
      BY <1>1, <3>1, FS_RemoveElement
    <3> QED  BY <1>2, <3>2
  <2>2. ASSUME NEW q \in alive, q # p, ~Broken(q) PROVE lockCount'[q] = Cardinality(Inside(q)')
    BY <1>0, <1>1, <1>2, <2>2 DEF IInv, Counted, TypeOK
  <2>3. lockCount'[p] = Cardinality(Inside(p)')
    <3>1. lockCount'[p] = lockCount[p] - 1  BY <1>0, <1>1 DEF TypeOK
    <3> QED  BY <1>1, <1>9, <2>1, <3>1 DEF IInv, Counted
  <2> QED  BY <1>0, <1>1, <1>9, <2>2, <2>3 DEF Counted, TypeOK
<1>4. Written'
  <2>1. ASSUME NEW q \in alive, q # p, ~Broken(q) PROVE lockedW'[q] <=> \E u \in Inside(q)' : want'[u] = "w"
    BY <1>0, <1>1, <1>2, <2>1 DEF IInv, Written, TypeOK
  <2>2. ~lockedW'[p]  BY <1>0, <1>1 DEF TypeOK
  <2>3. \A u \in Inside(p)' : want'[u] # "w"  BY <1>1, <1>2 DEF IInv, Single
  <2> QED  BY <1>0, <1>1, <1>9, <2>1, <2>2, <2>3 DEF Written, TypeOK
<1>5. Single'  BY <1>1, <1>2 DEF IInv, Single
<1>6. Filing'  BY <1>0, <1>1, <1>2 DEF IInv, Filing, At, TypeOK
<1>7. Covered'
  <2>1. CASE lockCount[p] = 1
    <3>1. \A u \in Threads : Holds(u) /\ Proc[u] = p => u = t
      <4>1. \E x : Inside(p) = {x}
        BY <1>1, <1>9, <2>1, InsideFinite, FS_Singleton DEF IInv, Counted
      <4> QED  BY <1>1, <4>1 DEF Inside, Holds, At
    <3> QED  BY <1>0, <1>1, <3>1 DEF IInv, Covered, Holds, At, TypeOK
  <2>2. CASE lockCount[p] # 1
    BY <1>0, <1>1, <2>2 DEF IInv, Covered, Holds, At, TypeOK, Unlocked
  <2> QED  BY <2>1, <2>2
<1>8. Exclusive'  BY <1>0, <1>1 DEF IInv, Exclusive, Unlocked, TypeOK
<1> QED  BY <1>0, <1>3, <1>4, <1>5, <1>6, <1>7, <1>8, <1>10 DEF IInv

(* A call on the file that fails leaves nobody inside its process: the thread was the only one. *)
LEMMA ThrowStep == ASSUME IInv, TypeOK', NEW t \in Threads, pc[t] \in {"file", "hold"}, Inside(Proc[t]) = {t},
                          Proc[t] \in alive, mutex' = [mutex EXCEPT ![Proc[t]] = t],
                          pc' = [pc EXCEPT ![t] = "idle"], UNCHANGED <<want, object, alive>>
                   PROVE IInv'
<1> DEFINE p == Proc[t]
<1> USE RtdbAssumption
<1>0. TypeOK /\ TypeOK'  BY DEF IInv
<1>1. p \in Processes /\ Inside(p)' = {} /\ \A q : q # p => Inside(q)' = Inside(q)
  BY <1>0 DEF Inside, TypeOK
<1>2. Broken(p)' /\ \A q \in Processes \ {p} : Broken(q)' = Broken(q)
  BY <1>0, <1>1 DEF Broken, TypeOK
<1>3. \A q : \A u \in Inside(q)' : u \in Inside(q) /\ want'[u] = want[u]  BY <1>1
<1>4. Emptied' /\ Counted' /\ Written' /\ Single'
  BY <1>0, <1>1, <1>2, <1>3 DEF IInv, Emptied, Counted, Written, Single, object, TypeOK
<1>5. Filing'
  <2>1. \A u \in Threads : pc[u] = "file" /\ Proc[u] = p => u = t  BY DEF Inside
  <2> QED  BY <1>0, <1>1, <2>1 DEF IInv, Filing, At, TypeOK
<1>6. Covered'  BY <1>0, <1>1 DEF IInv, Covered, Holds, At, TypeOK, object
<1>7. Exclusive'  BY DEF IInv, Exclusive, object
<1> QED  BY <1>0, <1>4, <1>5, <1>6, <1>7 DEF IInv

(* A process that ends. *)
LEMMA EndStep == ASSUME IInv, TypeOK', NEW p \in Processes, End(p) PROVE IInv'
<1>0. TypeOK /\ TypeOK'  BY DEF IInv
<1>1. UNCHANGED <<pc, want, mutex, lockCount, lockedW>> /\ alive' = alive \ {p}
      /\ file' = [file EXCEPT ![p] = "none"]
  BY DEF End
<1>2. \A q : Inside(q)' = Inside(q) /\ Broken(q)' = Broken(q)  BY <1>1 DEF Inside, Broken
<1>3. Emptied' /\ Counted' /\ Written' /\ Single'
  BY <1>1, <1>2 DEF IInv, Emptied, Counted, Written, Single
<1>4. Filing'  BY <1>1, <1>2 DEF IInv, Filing, At
<1>5. Covered'  BY <1>0, <1>1, RtdbAssumption DEF IInv, Covered, Holds, At, TypeOK
<1>6. Exclusive'  BY <1>0, <1>1 DEF IInv, Exclusive, TypeOK
<1> QED  BY <1>0, <1>3, <1>4, <1>5, <1>6 DEF IInv

LEMMA Inductive == IInv /\ [Next]_vars => IInv'
<1> SUFFICES ASSUME IInv, [Next]_vars PROVE IInv'
  OBVIOUS
<1>0. TypeOK /\ TypeOK'  BY TypeStep DEF IInv
<1> USE RtdbAssumption
<1>1. ASSUME NEW t \in Threads, Call(t) PROVE IInv'
  <2>1. \A u \in Threads : pc[u] \in {"file", "hold"} \/ pc'[u] \in {"file", "hold"}
                           => pc'[u] = pc[u] /\ want'[u] = want[u]
    BY <1>0, <1>1 DEF Call, At, Goto, TypeOK
  <2> QED  BY <1>0, <1>1, <2>1, Outside DEF Call, object, ended
<1>2. ASSUME NEW t \in Threads, Wait(t) \/ Spurious(t) \/ Restore(t) \/ Forget(t) PROVE IInv'
  <2>1. UNCHANGED <<want, mutex, object, alive>>  BY <1>2 DEF Wait, Spurious, Restore, Forget, object, ended
  <2>2. \A u \in Threads : pc[u] \in {"file", "hold"} \/ pc'[u] \in {"file", "hold"} => pc'[u] = pc[u]
    BY <1>0, <1>2 DEF Wait, Spurious, Restore, Forget, At, Goto, TypeOK
  <2> QED  BY <1>0, <2>1, <2>2, Outside
<1>3. ASSUME NEW t \in Threads, Trigger(t) PROVE IInv'
  <2>1. \A u \in Threads : pc[u] \in {"file", "hold"} \/ pc'[u] \in {"file", "hold"} => pc'[u] = pc[u]
    BY <1>0, <1>3 DEF Trigger, At, Woken, TypeOK
  <2> QED  BY <1>0, <1>3, <2>1, Outside DEF Trigger, object, ended
<1>4. ASSUME NEW t \in Threads, RestoreFails(t) PROVE IInv'
  <2>1. CASE End(Proc[t])  BY <1>0, <2>1, EndStep
  <2>2. CASE Goto(t, "idle") /\ UNCHANGED <<want, cancel, mutex, object, cancelState, calls, ended>>
    <3>1. \A u \in Threads : pc[u] \in {"file", "hold"} \/ pc'[u] \in {"file", "hold"} => pc'[u] = pc[u]
      BY <1>0, <1>4, <2>2 DEF RestoreFails, At, Goto, TypeOK
    <3> QED  BY <1>0, <2>2, <3>1, Outside DEF object, ended
  <2> QED  BY <1>4, <2>1, <2>2 DEF RestoreFails, AssertFails
<1>7. ASSUME NEW t \in Threads, FileLockFails(t) PROVE IInv'
  <2>1. CASE End(Proc[t])  BY <1>0, <2>1, EndStep
  <2>2. CASE Goto(t, "idle") /\ UNCHANGED <<want, cancel, mutex, object, cancelState, calls, ended>>
    <3>1. pc[t] = "file" /\ Proc[t] \in alive /\ mutex[Proc[t]] = t /\ Inside(Proc[t]) = {t}
      BY <1>7 DEF FileLockFails, At, IInv, Filing
    <3>2. mutex' = [mutex EXCEPT ![Proc[t]] = t]  BY <1>0, <2>2, <3>1 DEF TypeOK
    <3> QED  BY <1>0, <2>2, <3>1, <3>2, ThrowStep DEF Goto, ended
  <2> QED  BY <1>7, <2>1, <2>2 DEF FileLockFails, AssertFails
<1>8. ASSUME NEW t \in Threads, UnlockFails(t) PROVE IInv'
  <2>1. CASE End(Proc[t])  BY <1>0, <2>1, EndStep
  <2>2. CASE Keep(t, t) /\ Goto(t, "idle") /\ UNCHANGED <<want, cancel, object, cancelState, calls, ended>>
    <3>1. pc[t] = "hold" /\ Proc[t] \in alive /\ lockCount[Proc[t]] = 1 /\ ~Broken(Proc[t])
      BY <1>8, Positive DEF UnlockFails, At
    <3>2. t \in Inside(Proc[t])  BY <3>1 DEF Inside
    <3>3. \E x : Inside(Proc[t]) = {x}
      BY <3>1, InsideFinite, FS_Singleton DEF IInv, Counted
    <3>4. Inside(Proc[t]) = {t}  BY <3>2, <3>3
    <3> QED  BY <1>0, <2>2, <3>1, <3>4, ThrowStep DEF Goto, Keep, ended
  <2> QED  BY <1>8, <2>1, <2>2 DEF UnlockFails
<1>5. ASSUME NEW p \in Processes, Killed(p) PROVE IInv'
  BY <1>0, <1>5, EndStep DEF Killed
<1>6. CASE UNCHANGED vars
  BY <1>0, <1>6, Outside DEF vars, object
<1> QED  BY <1>0, <1>1, <1>2, <1>3, <1>4, <1>5, <1>6, <1>7, <1>8, EnterStep, FileLockStep, UnlockStep DEF Next, Step

LEMMA Initial == Init => IInv
<1> SUFFICES ASSUME Init PROVE IInv
  OBVIOUS
<1> USE RtdbAssumption DEF Init
<1>1. TypeOK  BY DEF TypeOK, Modes
<1>2. \A p : Inside(p) = {}  BY DEF Inside
<1>3. Emptied /\ Counted /\ Written /\ Single  BY <1>2, FS_EmptySet DEF Emptied, Counted, Written, Single
<1>4. Filing /\ Covered /\ Exclusive  BY DEF Filing, Covered, Exclusive, Holds, At
<1> QED  BY <1>1, <1>3, <1>4 DEF IInv

LEMMA Alone == IInv => WriterAlone
<1> SUFFICES ASSUME IInv, NEW t \in Threads, NEW u \in Threads, t # u, Holds(t), Holds(u)
             PROVE {want[t], want[u]} = {"r"}
  BY DEF WriterAlone
<1>1. want[t] \in {"r", "w"} /\ want[u] \in {"r", "w"} /\ Proc[t] \in Processes /\ Proc[u] \in Processes
  BY RtdbAssumption DEF IInv, TypeOK
<1>2. file[Proc[t]] = want[t] /\ file[Proc[u]] = want[u]  BY DEF IInv, Covered
<1>3. CASE Proc[t] = Proc[u]
  <2>1. t \in Inside(Proc[t]) /\ u \in Inside(Proc[t]) /\ Proc[t] \in alive
    BY <1>3 DEF Holds, At, Inside
  <2> QED  BY <1>1, <2>1 DEF IInv, Single
<1>4. CASE Proc[t] # Proc[u]
  BY <1>1, <1>2, <1>4 DEF IInv, Exclusive
<1> QED  BY <1>3, <1>4

-----------------------------------------------------------------------------
(* The counters, the locks and the threads of the database keep their types. *)
THEOREM RtdbTypeCorrect == Spec => []TypeOK
<1>1. IInv => TypeOK  BY DEF IInv
<1> QED  BY <1>1, Initial, Inductive, PTL DEF Spec

(* Whatever processes and threads there are, however they interleave, die or abort, a
   thread that may write the database is the only one that may touch it. *)
THEOREM WriterIsAlone == Spec => []WriterAlone
BY Initial, Inductive, Alone, PTL DEF Spec

(* Every step of the two levels of locks is a step of one readers-writer lock, or none. *)
LEMMA LockStep == IInv /\ IInv' /\ WriterAlone' /\ [Next]_vars
                  => [Lock!Next]_[t \in Threads |-> IF Holds(t) THEN want[t] ELSE "none"]
<1> DEFINE held == [t \in Threads |-> IF Holds(t) THEN want[t] ELSE "none"]
<1> SUFFICES ASSUME IInv, IInv', WriterAlone', [Next]_vars PROVE Lock!Next \/ held' = held
  OBVIOUS
<1> USE RtdbAssumption
<1>0. TypeOK /\ TypeOK' /\ WriterAlone'  BY DEF IInv
<1>1. ASSUME NEW t \in Threads, ~Holds(t), Holds(t)', held'[t] = want[t], UNCHANGED want,
             \A u \in Threads \ {t} : Holds(u)' = Holds(u)
      PROVE Lock!Next
  <2>1. held[t] = "none" /\ want[t] \in {"r", "w"}  BY <1>0, <1>1 DEF TypeOK
  <2>2. held' = [held EXCEPT ![t] = want[t]]  BY <1>1
  <2>3. ASSUME NEW u \in Threads \ {t}, held[u] \in (IF want[t] = "w" THEN {"r", "w"} ELSE {"w"})
        PROVE FALSE
    <3>1. Holds(u)  BY <2>3
    <3>2. held[u] = want[u] /\ Holds(u)' /\ want'[u] = want[u] /\ want'[t] = want[t]  BY <1>1, <3>1
    <3>3. {want[t], want[u]} = {"r"}  BY <1>0, <1>1, <3>2 DEF WriterAlone
    <3> QED  BY <2>3, <3>2, <3>3
  <2>4. ~Lock!Among(t, IF want[t] = "w" THEN {"r", "w"} ELSE {"w"})
    BY <2>3 DEF Lock!Among
  <2>5. Lock!Acquire(t, "r") \/ Lock!Acquire(t, "w")
    <3> HIDE DEF held
    <3>1. CASE want[t] = "r"  BY <2>1, <2>2, <2>4, <3>1 DEF Lock!Acquire, held
    <3>2. CASE want[t] = "w"  BY <2>1, <2>2, <2>4, <3>2 DEF Lock!Acquire, held
    <3> QED  BY <2>1, <3>1, <3>2
  <2> QED  BY <2>5 DEF Lock!Next
<1>2. ASSUME NEW p \in Processes, End(p) PROVE Lock!Next
  <2>1. held' = [t \in Threads |-> IF Proc[t] = p THEN "none" ELSE held[t]]
    BY <1>2 DEF End, Holds, At
  <2> QED  BY <2>1 DEF Lock!Vanish, Lock!Next
<1>3. ASSUME NEW t \in Threads, Enter(t) PROVE Lock!Next \/ held' = held
  <2>1. pc[t] = "lock" /\ UNCHANGED <<want, alive>> /\ Proc[t] \in alive  BY <1>3 DEF Enter, At, ended
  <2>2. CASE pc' = [pc EXCEPT ![t] = "hold"]
    <3>1. ~Holds(t) /\ Holds(t)' /\ \A u \in Threads \ {t} : Holds(u)' = Holds(u)
      BY <1>0, <2>1, <2>2 DEF Holds, At, TypeOK
    <3>2. held'[t] = want[t]  BY <2>1, <3>1
    <3> QED  BY <1>1, <2>1, <3>1, <3>2
  <2>3. CASE pc' = [pc EXCEPT ![t] = "file"]
    <3>1. \A u \in Threads : Holds(u)' = Holds(u)  BY <1>0, <2>1, <2>3 DEF Holds, At, TypeOK
    <3> QED  BY <2>1, <3>1
  <2> QED  BY <1>3, <2>2, <2>3 DEF Enter, Goto
<1>4. ASSUME NEW t \in Threads, FileLock(t) PROVE Lock!Next
  <2>1. /\ pc[t] = "file" /\ UNCHANGED <<want, alive>> /\ Proc[t] \in alive
        /\ pc' = [pc EXCEPT ![t] = "hold"]
    BY <1>4 DEF FileLock, At, ended, Goto
  <2>2. ~Holds(t) /\ Holds(t)' /\ \A u \in Threads \ {t} : Holds(u)' = Holds(u)
    BY <1>0, <2>1 DEF Holds, At, TypeOK
  <2>3. held'[t] = want[t]  BY <2>1, <2>2
  <2> QED  BY <1>1, <2>1, <2>2, <2>3
<1>5. ASSUME NEW t \in Threads, Unlock(t) PROVE Lock!Next
  <2>1. /\ pc[t] = "hold" /\ UNCHANGED <<want, alive>> /\ Proc[t] \in alive
        /\ pc' = [pc EXCEPT ![t] = "trigger"]
    BY <1>5 DEF Unlock, At, ended, Goto
  <2>2. Holds(t) /\ ~Holds(t)' /\ \A u \in Threads \ {t} : Holds(u)' = Holds(u)
    BY <1>0, <2>1 DEF Holds, At, TypeOK
  <2>3. held[t] # "none"  BY <1>0, <2>2 DEF TypeOK
  <2>4. held' = [held EXCEPT ![t] = "none"]  BY <2>1, <2>2
  <2> QED  BY <2>3, <2>4 DEF Lock!Release, Lock!Next
<1>6. ASSUME NEW t \in Threads, \/ Wait(t) \/ Spurious(t) \/ Restore(t) \/ Forget(t) \/ Call(t) \/ Trigger(t)
      PROVE held' = held
  <2>1. UNCHANGED alive
    BY <1>6 DEF Wait, Spurious, Restore, Forget, Call, Trigger, ended
  <2>2. \A u \in Threads : /\ (pc[u] = "hold") = (pc'[u] = "hold")
                           /\ pc[u] = "hold" => want'[u] = want[u]
    BY <1>0, <1>6 DEF Wait, Spurious, Restore, Forget, Call, Trigger, At, Goto, Woken, TypeOK
  <2>3. \A u \in Threads : Holds(u)' = Holds(u) /\ (Holds(u) => want'[u] = want[u])
    BY <2>1, <2>2 DEF Holds, At
  <2> QED  BY <2>3
<1>7. ASSUME NEW t \in Threads, RestoreFails(t) \/ FileLockFails(t) PROVE Lock!Next \/ held' = held
  <2>1. CASE End(Proc[t])  BY <1>2, <2>1
  <2>2. CASE Goto(t, "idle") /\ UNCHANGED <<want, ended>>
    <3>1. \A u \in Threads : Holds(u)' = Holds(u)
      BY <1>0, <1>7, <2>2 DEF RestoreFails, FileLockFails, Holds, At, Goto, ended, TypeOK
    <3> QED  BY <2>2, <3>1
  <2> QED  BY <1>7, <2>1, <2>2 DEF RestoreFails, FileLockFails, AssertFails
<1>10. ASSUME NEW t \in Threads, UnlockFails(t) PROVE Lock!Next
  <2>1. CASE End(Proc[t])  BY <1>2, <2>1
  <2>2. CASE Goto(t, "idle") /\ UNCHANGED <<want, ended>>
    <3>1. Holds(t) /\ ~Holds(t)' /\ \A u \in Threads \ {t} : Holds(u)' = Holds(u)
      BY <1>0, <1>10, <2>2 DEF UnlockFails, Holds, At, Goto, ended, TypeOK
    <3>2. held[t] # "none"  BY <1>0, <3>1 DEF TypeOK
    <3>3. held' = [held EXCEPT ![t] = "none"]  BY <2>2, <3>1
    <3> QED  BY <3>2, <3>3 DEF Lock!Release, Lock!Next
  <2> QED  BY <1>10, <2>1, <2>2 DEF UnlockFails
<1>8. ASSUME NEW p \in Processes, Killed(p) PROVE Lock!Next
  BY <1>2, <1>8 DEF Killed
<1>9. CASE UNCHANGED vars
  BY <1>9 DEF vars, Holds, At
<1> QED  BY <1>3, <1>4, <1>5, <1>6, <1>7, <1>8, <1>9, <1>10 DEF Next, Step

(* The run-time database implements a readers-writer lock among all threads of all processes. *)
THEOREM ImplementsLock == Spec => Implements
<1>1. Init => Lock!Init
  BY DEF Init, Lock!Init, Holds, At
<1> QED  BY <1>1, Initial, Inductive, Alone, LockStep, PTL DEF Spec, Implements, Lock!Spec
=============================================================================
