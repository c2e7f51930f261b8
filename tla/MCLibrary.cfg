SPECIFICATION Spec
CONSTANTS
  Parts = {"rpc", "log"}
  Initial = 6
  \* the log file is restarted and rotated several times, by two records a file
  MaxRecords = 11
  MaxTime = 5
  MaxFailures = 2
  recordsCountMax = 2
  backupCountMax = 2
INVARIANTS
  RequestsServed
  LogKept
