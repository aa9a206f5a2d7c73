SPECIFICATION LiveSpec
CONSTANTS
  host = host
  runner = runner
  Proc = {host, runner}
  MaxTransports = 2
  Limit <- MCLimit
  None = None
INVARIANTS TypeOK LeaseCoversSpawn ProbeExcludesAcp
PROPERTIES  CrashDoesNotPin
CHECK_DEADLOCK FALSE
