-------------------------------- MODULE RwLock --------------------------------
(***************************************************************************)
(* What the run-time database promises (unp_rtdb.h): a readers-writer lock *)
(* among all threads of all processes.  A process that dies gives back the *)
(* locks of its threads.                                                   *)
(***************************************************************************)
CONSTANTS Threads, Processes,
          Proc                \* the process of each thread

VARIABLE held                 \* "none", "r" or "w" for each thread

Among(t, modes) == \E u \in Threads \ {t} : held[u] \in modes

Acquire(t, mode) == /\ held[t] = "none"
                    /\ ~Among(t, IF mode = "w" THEN {"r", "w"} ELSE {"w"})
                    /\ held' = [held EXCEPT ![t] = mode]

Release(t) == held[t] # "none" /\ held' = [held EXCEPT ![t] = "none"]

Vanish(p) == held' = [t \in Threads |-> IF Proc[t] = p THEN "none" ELSE held[t]]

Init == held = [t \in Threads |-> "none"]

Next == \/ \E t \in Threads : Release(t) \/ \E mode \in {"r", "w"} : Acquire(t, mode)
        \/ \E p \in Processes : Vanish(p)

Spec == Init /\ [][Next]_held
=============================================================================
