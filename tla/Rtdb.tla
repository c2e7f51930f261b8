--------------------------------- MODULE Rtdb ---------------------------------
(***************************************************************************)
(* The run-time database of unp_cp: one shared memory object, opened once  *)
(* in each process, locked by a lock on the file between processes and by  *)
(* a counter under a mutex between the threads of one process              *)
(* (unp_rtdb.cc).  The file's lock belongs to the process, not to a thread.*)
(* LockRead and LockWrite forbid the cancellation of the thread, Unlock    *)
(* permits it again: the state to restore is kept in one variable of the   *)
(* object, which all its threads share.  A call on the file that fails     *)
(* ends the process or throws, with the mutex locked.                      *)
(***************************************************************************)
EXTENDS Integers, FiniteSets

CONSTANTS Threads, Processes, Proc,   \* Proc: the process of each thread
          MaxCalls,                   \* bound: locks taken by each thread
          MaxDeaths                   \* bound: processes killed from outside

ASSUME RtdbAssumption ==
  /\ IsFiniteSet(Threads) /\ Proc \in [Threads -> Processes]
  /\ "nobody" \notin Threads
  /\ MaxCalls \in Nat /\ MaxDeaths \in Nat

VARIABLES pc,           \* where each thread is
          want,         \* the lock it asked for: "r" or "w"
          cancel,       \* its cancel state: "enabled" or "disabled"
          mutex,        \* who holds the mutex of each process's object
          lockCount, lockedW,
          cancelState,  \* of each process's object: "unset" is CANCEL_NOT_SET
          file,         \* the lock of each process on the file
          alive,        \* processes that run
          calls, deaths

vars == <<pc, want, cancel, mutex, lockCount, lockedW, cancelState, file, alive,
          calls, deaths>>
object == <<lockCount, lockedW, file>>
ended == <<alive, deaths>>

At(t, label) == pc[t] = label /\ Proc[t] \in alive
Goto(t, label) == pc' = [pc EXCEPT ![t] = label]
Free(t) == mutex[Proc[t]] = "nobody"
Keep(t, holder) == mutex' = [mutex EXCEPT ![Proc[t]] = holder]

(* LockRead, LockWrite: the old cancel state goes to the shared variable. *)
Call(t) == /\ At(t, "idle") /\ calls[t] < MaxCalls
           /\ calls' = [calls EXCEPT ![t] = @ + 1]
           /\ \E mode \in {"r", "w"} : want' = [want EXCEPT ![t] = mode]
           /\ cancelState' = [cancelState EXCEPT ![Proc[t]] = cancel[t]]
           /\ cancel' = [cancel EXCEPT ![t] = "disabled"]
           /\ Goto(t, "lock")
           /\ UNCHANGED <<mutex, object, ended>>

Busy_AnyReader(t) == lockedW[Proc[t]] \/ (want[t] = "w" /\ lockCount[Proc[t]] > 1)
Busy(t) == IF want[t] = "w" THEN lockCount[Proc[t]] > 0 ELSE lockedW[Proc[t]]

(* condMutex.Wait gives the mutex back; it may also return by itself. *)
Wait(t) == /\ At(t, "lock") /\ Free(t) /\ Busy(t)
           /\ Goto(t, "waiting")
           /\ UNCHANGED <<want, cancel, mutex, object, cancelState, calls, ended>>
Spurious(t) == /\ At(t, "waiting") /\ Goto(t, "lock")
               /\ UNCHANGED <<want, cancel, mutex, object, cancelState, calls, ended>>

Joined(p) == lockCount[p] + 1
(* The first of the process goes on to the file's lock, with the mutex in its hands. *)
Enter(t) ==
  /\ At(t, "lock") /\ Free(t) /\ ~Busy(t)
  /\ lockCount' = [lockCount EXCEPT ![Proc[t]] = Joined(Proc[t])]
  /\ lockedW' = [lockedW EXCEPT ![Proc[t]] = @ \/ want[t] = "w"]
  /\ IF lockCount'[Proc[t]] = 1
     THEN Goto(t, "file") /\ Keep(t, t)
     ELSE Goto(t, "hold") /\ UNCHANGED mutex
  /\ UNCHANGED <<want, cancel, file, cancelState, calls, ended>>

(* readw_lock, writew_lock: wait until no other process has a lock in conflict. *)
Conflicts(p, mode) == \E q \in Processes \ {p} :
                        file[q] = "w" \/ (mode = "w" /\ file[q] = "r")
FileLock(t) ==
  /\ At(t, "file") /\ ~Conflicts(Proc[t], want[t])
  /\ file' = [file EXCEPT ![Proc[t]] = want[t]]
  /\ Keep(t, "nobody") /\ Goto(t, "hold")
  /\ UNCHANGED <<want, cancel, lockCount, lockedW, cancelState, calls, ended>>

(* A process that ends loses its lock on the file. *)
End(p) == /\ alive' = alive \ {p} /\ file' = [file EXCEPT ![p] = "none"]
          /\ UNCHANGED <<pc, want, cancel, mutex, lockCount, lockedW, cancelState, calls>>

(* ASSERT, when a call failed: it ends the process or, by default, throws; a caller that
   catches goes on, and nothing is undone. *)
AssertFails(t) == \/ End(Proc[t]) /\ UNCHANGED deaths
                  \/ /\ Goto(t, "idle")
                     /\ UNCHANGED <<want, cancel, mutex, object, cancelState, calls, ended>>

(* The waiting is not taken up again after a signal, and the system may have no locks left:
   the mutex stays locked and the thread counted. *)
FileLockFails(t) == At(t, "file") /\ AssertFails(t)

Unlocked_Always(p) == "none"
Unlocked(p) == IF lockCount[p] = 1 THEN "none" ELSE file[p]
Unlock(t) ==
  /\ At(t, "hold") /\ Free(t)
  /\ file' = [file EXCEPT ![Proc[t]] = Unlocked(Proc[t])]
  /\ lockCount' = [lockCount EXCEPT ![Proc[t]] = @ - 1]
  /\ lockedW' = [lockedW EXCEPT ![Proc[t]] = FALSE]
  /\ Goto(t, "trigger")
  /\ UNCHANGED <<want, cancel, mutex, cancelState, calls, ended>>

(* un_lock, which the last of the process calls: the mutex stays locked, and the file. *)
UnlockFails(t) ==
  /\ At(t, "hold") /\ Free(t) /\ lockCount[Proc[t]] = 1
  /\ \/ End(Proc[t]) /\ UNCHANGED deaths
     \/ /\ Keep(t, t) /\ Goto(t, "idle")
        /\ UNCHANGED <<want, cancel, object, cancelState, calls, ended>>

Woken_None(t) == {}
Woken(t) == {u \in Threads : Proc[u] = Proc[t] /\ pc[u] = "waiting"}
Trigger(t) ==
  /\ At(t, "trigger")
  /\ pc' = [u \in Threads |-> IF u = t THEN "restore" ELSE IF u \in Woken(t) THEN "lock" ELSE pc[u]]
  /\ UNCHANGED <<want, cancel, mutex, object, cancelState, calls, ended>>

(* SetCancelState(cancelState, NULL): CANCEL_NOT_SET is not a state. *)
Known(t) == cancelState[Proc[t]] # "unset"
Restore(t) == /\ At(t, "restore") /\ Known(t)
              /\ cancel' = [cancel EXCEPT ![t] = cancelState[Proc[t]]]
              /\ Goto(t, "forget")
              /\ UNCHANGED <<want, mutex, object, cancelState, calls, ended>>
RestoreFails(t) == At(t, "restore") /\ ~Known(t) /\ AssertFails(t)
Forget(t) ==
  /\ At(t, "forget")
  /\ cancelState' = [cancelState EXCEPT ![Proc[t]] = "unset"]
  /\ Goto(t, "idle")
  /\ UNCHANGED <<want, cancel, mutex, object, calls, ended>>

Killed(p) == /\ p \in alive /\ deaths < MaxDeaths /\ deaths' = deaths + 1
             /\ End(p)

Init == /\ pc = [t \in Threads |-> "idle"] /\ want = [t \in Threads |-> "r"]
        /\ cancel = [t \in Threads |-> "enabled"]
        /\ mutex = [p \in Processes |-> "nobody"]
        /\ lockCount = [p \in Processes |-> 0] /\ lockedW = [p \in Processes |-> FALSE]
        /\ cancelState = [p \in Processes |-> "unset"]
        /\ file = [p \in Processes |-> "none"]
        /\ alive = Processes
        /\ calls = [t \in Threads |-> 0] /\ deaths = 0

Step(t) == \/ Call(t) \/ Wait(t) \/ Spurious(t) \/ Enter(t) \/ FileLock(t) \/ FileLockFails(t)
           \/ Unlock(t) \/ UnlockFails(t) \/ Trigger(t) \/ Restore(t)
           \/ RestoreFails(t) \/ Forget(t)
Next == (\E t \in Threads : Step(t)) \/ \E p \in Processes : Killed(p)

Spec == Init /\ [][Next]_vars

(* The scheduler runs every thread; the mutex and the kernel's queue for the file serve
   whoever waits for them again and again.  Whoever has a lock gives it back. *)
Fairness == \A t \in Threads :
              /\ WF_vars(Wait(t)) /\ WF_vars(Unlock(t)) /\ WF_vars(Trigger(t))
              /\ WF_vars(Restore(t)) /\ WF_vars(RestoreFails(t)) /\ WF_vars(Forget(t))
              /\ SF_vars(Enter(t)) /\ SF_vars(FileLock(t))
FairSpec == Spec /\ Fairness

-----------------------------------------------------------------------------
Modes == {"none", "r", "w"}
TypeOK ==
  /\ pc \in [Threads -> {"idle", "lock", "waiting", "file", "hold", "trigger", "restore", "forget"}]
  /\ want \in [Threads -> {"r", "w"}]
  /\ cancel \in [Threads -> {"enabled", "disabled"}]
  /\ mutex \in [Processes -> Threads \cup {"nobody"}]
  /\ lockCount \in [Processes -> Nat] /\ lockedW \in [Processes -> BOOLEAN]
  /\ cancelState \in [Processes -> {"unset", "enabled", "disabled"}]
  /\ file \in [Processes -> Modes]
  /\ alive \subseteq Processes
  /\ calls \in [Threads -> 0..MaxCalls] /\ deaths \in 0..MaxDeaths

Holds(t) == At(t, "hold")

(* A thread that may write is alone, among the threads of its process and those of every
   other one, although the kernel knows processes only (unp_rtdb.h, line 6). *)
WriterAlone == \A t, u \in Threads : t # u /\ Holds(t) /\ Holds(u) => {want[t], want[u]} = {"r"}

(* The database is a readers-writer lock, also when processes end with locks taken. *)
Lock == INSTANCE RwLock WITH held <- [t \in Threads |-> IF Holds(t) THEN want[t] ELSE "none"]
Implements == Lock!Spec

(* The object of p is dead: a thread threw with its mutex locked. *)
Broken(p) == \E t \in Threads : Proc[t] = p /\ mutex[p] = t /\ pc[t] # "file"

(* Whoever waits for a lock gets it, once the others have given theirs back: no wake-up is
   lost, and nobody sleeps with the mutex that another one needs to unlock.  Excepted are the
   threads of a process whose mutex was left locked by a call on the file that failed, and
   those who wait for such a process's lock on the file. *)
Waits(t) == At(t, "lock") \/ At(t, "waiting") \/ At(t, "file")
Served == \A t \in Threads :
            Waits(t) ~> \/ Holds(t) \/ Proc[t] \notin alive \/ Broken(Proc[t])
                        \/ \E p \in alive : Broken(p) /\ file[p] # "none"

(* Without the exception: what a caller expects who catches what ASSERT throws
   (unp_rtdb.h, line 16). *)
ServedAfterErrors == \A t \in Threads : Waits(t) ~> Holds(t) \/ Proc[t] \notin alive

(* After Unlock a thread can be cancelled again, as before its LockRead or LockWrite
   (unp_rtdb.h, lines 52 and 72). *)
CancelRestored == \A t \in Threads : At(t, "idle") => cancel[t] = "enabled"
=============================================================================
