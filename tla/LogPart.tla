-------------------------------- MODULE LogPart --------------------------------
(* The part of the log file and its backups. *)
EXTENDS Part

CONSTANTS MaxRecords, MaxTime, MaxFailures, recordsCountMax, backupCountMax
VARIABLES now, truncBefore, file, backups, pc, recordsCount, last, at, listed, doomed, ok,
          failures, excess, overwritten

Log == INSTANCE LogFile

(* However the process ends and its calls fail, the backups are in order, and bounded but for
   one more per listing that failed, until a rotation succeeds on a complete one; and while no
   call failed and no two rotations fell into one second, what is kept are the latest records,
   without a hole (unp_log_sys.cc:64-260). *)
LogKept == part = "log" => Log!LogKept
================================================================================
