-------------------------------- MODULE LogFile -------------------------------
(***************************************************************************)
(* The log file of LoggerSys (unp_log_sys.cc): records are appended; when  *)
(* recordsCountMax were written, BackupLog deletes the oldest backups,     *)
(* renames the file to a backup named by the time, in seconds, and opens a *)
(* new one.  The process may end anywhere, BackupLog's steps may fail, the *)
(* listing of the directory too, which nobody notices, and a logger may be *)
(* made again on the files that are left.                                  *)
(*                                                                         *)
(* A record is its number.  The logger's own lines and the other sinks are *)
(* left out; one whose file cannot be opened writes nothing.  Writing a    *)
(* record does not fail, and local time goes forward.                      *)
(***************************************************************************)
EXTENDS Integers, FiniteSets, FiniteSetsExt

CONSTANTS MaxRecords,      \* bound: records written
          MaxTime,         \* bound: seconds
          MaxFailures,     \* bound: failed calls
          recordsCountMax, backupCountMax

LogAssumption == /\ MaxRecords \in Nat /\ MaxTime \in Nat /\ MaxFailures \in Nat
                        /\ recordsCountMax \in Nat /\ backupCountMax \in Nat

Record == 1..MaxRecords
Time == 0..MaxTime

VARIABLES now,
          truncBefore,
          file,          \* the records in the log file
          backups,       \* the records in the backup of each second, {} without one
          pc,            \* where the logger is, "none" without one
          recordsCount,
          last,          \* the latest record written
          at,            \* BackupLog: the time it took
          listed,        \* BackupLog: its list has all backups
          doomed,        \* BackupLog: backups still to be deleted
          ok,            \* BackupLog: deleting them succeeded
          failures,      \* calls that failed
          excess,        \* lists that lacked a backup, since a rotation succeeded on a complete one
          overwritten    \* a backup was replaced by one of the same second

rotation == <<at, listed, doomed, ok>>
disk == <<file, backups>>
faults == <<failures, excess, overwritten>>
vars == <<now, truncBefore, disk, pc, recordsCount, last, rotation, faults>>

Init == /\ now = 0 /\ truncBefore \in BOOLEAN
        /\ file = {} /\ backups = [t \in Time |-> {}]
        /\ pc = "none" /\ recordsCount = 0 /\ last = 0
        /\ at = 0 /\ listed = TRUE /\ doomed = {} /\ ok = TRUE
        /\ failures = 0 /\ excess = 0 /\ overwritten = FALSE

-----------------------------------------------------------------------------
(* LoggerSys::Init. *)
Open == /\ pc = "none" /\ pc' = "ready" /\ recordsCount' = 0
        /\ file' = IF truncBefore THEN {} ELSE file
        /\ UNCHANGED <<now, truncBefore, backups, last, rotation, faults>>

(* AddV: the record is written. *)
Write == /\ last < MaxRecords /\ last' = last + 1
         /\ file' = file \cup {last'}
         /\ recordsCount' = recordsCount + (IF recordsCountMax > 0 THEN 1 ELSE 0)
         /\ UNCHANGED <<now, truncBefore, backups, faults>>

Full == recordsCountMax > 0 /\ recordsCount >= recordsCountMax

Add == pc = "ready" /\ ~Full /\ Write /\ UNCHANGED <<pc, rotation>>

Names == {t \in Time : backups[t] # {}}
Oldest(list, c) == {t \in list : Cardinality({u \in list : u < t}) < c}

Fails == failures < MaxFailures /\ failures' = failures + 1

(* An unreadable directory is an empty list, one read in part a shorter one. *)
GetBackupList(list) ==
  \/ list = Names /\ listed' = TRUE /\ UNCHANGED <<failures, excess>>
  \/ list # Names /\ listed' = FALSE /\ Fails /\ excess' = excess + 1

(* AddV and BackupLog, up to the deletion of the oldest backups in the list. *)
BackupLog_Late == /\ pc = "ready" /\ Full /\ last < MaxRecords
                  /\ at' = now /\ ok' = TRUE /\ pc' = "backup"
                  /\ \E list \in SUBSET Names :
                       /\ GetBackupList(list)
                       /\ doomed' = Oldest(list, Cardinality(list) - backupCountMax)
                  /\ UNCHANGED <<now, truncBefore, disk, recordsCount, last, overwritten>>
BackupLog == /\ pc = "ready" /\ Full /\ last < MaxRecords
             /\ at' = now /\ ok' = TRUE /\ pc' = "backup"
             /\ \E list \in SUBSET Names :
                  /\ GetBackupList(list)
                  /\ doomed' = Oldest(list, Cardinality(list) - backupCountMax + 1)
             /\ UNCHANGED <<now, truncBefore, disk, recordsCount, last, overwritten>>

(* The deletion goes on after a failure. *)
Unlink == /\ pc = "backup" /\ doomed # {}
          /\ LET t == Min(doomed) IN
               /\ doomed' = doomed \ {t}
               /\ \/ /\ backups' = [backups EXCEPT ![t] = {}]
                     /\ UNCHANGED <<ok, failures>>
                  \/ Fails /\ ok' = FALSE /\ UNCHANGED backups
          /\ UNCHANGED <<now, truncBefore, file, pc, recordsCount, last, at, listed, excess,
                         overwritten>>

(* The backup replaces one made in the same second. *)
Rename == /\ pc = "backup" /\ doomed = {} /\ pc' = "reopen"
          /\ \/ /\ ok
                /\ backups' = [backups EXCEPT ![at] = file] /\ file' = {}
                /\ overwritten' = (overwritten \/ backups[at] # {})
                /\ excess' = IF listed THEN 0 ELSE excess
                /\ UNCHANGED failures
             \/ ok /\ Fails /\ UNCHANGED <<disk, excess, overwritten>>
             \/ ~ok /\ UNCHANGED <<disk, faults>>
          /\ UNCHANGED <<now, truncBefore, recordsCount, last, rotation>>

Reopen == /\ pc = "reopen" /\ pc' = "write" /\ file' = {} /\ recordsCount' = 0
          /\ UNCHANGED <<now, truncBefore, backups, last, rotation, faults>>

(* When it cannot be opened, the record is written through a null pointer. *)
ReopenFails == /\ pc = "reopen" /\ pc' = "none" /\ Fails
               /\ UNCHANGED <<now, truncBefore, disk, recordsCount, last, rotation, excess,
                              overwritten>>

AddRest == pc = "write" /\ pc' = "ready" /\ Write /\ UNCHANGED rotation

(* ~LoggerSys, or the end of the process. *)
End == /\ pc # "none" /\ pc' = "none"
       /\ UNCHANGED <<now, truncBefore, disk, recordsCount, last, rotation, faults>>

Tick == /\ now < MaxTime /\ now' = now + 1
        /\ UNCHANGED <<truncBefore, disk, pc, recordsCount, last, rotation, faults>>

Next == \/ Open \/ Add \/ BackupLog \/ Unlink \/ Rename \/ Reopen \/ ReopenFails
        \/ AddRest \/ End \/ Tick

Spec == Init /\ [][Next]_vars

-----------------------------------------------------------------------------
TypeOK == /\ now \in Time /\ at \in Time /\ truncBefore \in BOOLEAN
          /\ file \subseteq Record /\ backups \in [Time -> SUBSET Record]
          /\ pc \in {"none", "ready", "backup", "reopen", "write"}
          /\ recordsCount \in 0..recordsCountMax
          /\ last \in 0..MaxRecords
          /\ doomed \subseteq Names /\ listed \in BOOLEAN /\ ok \in BOOLEAN
          /\ failures \in 0..MaxFailures /\ excess \in 0..failures /\ overwritten \in BOOLEAN

(* "Maximum number of backup copies": wherever a rotation is broken off and whichever of its
   calls fail, except that each listing that failed may add one, until a rotation succeeds whose
   list is complete. *)
BackupsBounded == backupCountMax > 0 => Cardinality(Names) <= backupCountMax + excess

(* Nothing is kept twice, and a backup is older than what comes after it. *)
InOrder == /\ \A t, u \in Names : t < u => \A r \in backups[t], s \in backups[u] : r < s
           /\ \A t \in Names : \A r \in backups[t], s \in file : r < s

Kept == file \cup UNION {backups[t] : t \in Names}

(* While no call failed and no two rotations fell into one second (the second overwrites the
   backup of the first), what is kept are the latest records, without a hole, and enough to
   fill the backups, wherever the process ended. *)
LatestKept == failures = 0 /\ ~overwritten /\ ~truncBefore =>
                /\ Kept = (last - Cardinality(Kept) + 1)..last
                /\ \/ Cardinality(Kept) = last
                   \/ Cardinality(Kept) >= backupCountMax * recordsCountMax

(* What a reader of the log may count on. *)
LogKept == BackupsBounded /\ InOrder /\ LatestKept

(* "Maximum number of backup copies", whatever fails. *)
NeverMoreBackups == backupCountMax > 0 => Cardinality(Names) <= backupCountMax

(* A rotation deletes backups to keep their number; the backups that it makes leave the others
   alone. *)
NoneOverwritten == [][\A t \in Time : backups[t] # {} => backups'[t] \in {backups[t], {}}]_vars

(* "Maximum number of records": the file never holds more. *)
FileBounded == recordsCountMax > 0 => Cardinality(file) <= recordsCountMax

(* "When it is exceeded a backup will be made, the file will be cleared": the records the
   logger clears from the file are in a backup. *)
BackedUp == [][pc # "none" /\ file # {} /\ file' = {} => \E t \in Time : backups'[t] = file]_vars
===============================================================================
