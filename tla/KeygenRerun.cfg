SPECIFICATION KeygenFair
CONSTANTS
  p1 = p1
  n1 = n1
  n2 = n2
  NoFile = NoFile
  NoJob = NoJob
  Nobody = Nobody
  NoKey = NoKey
  Procs = {p1}
  Pids = {n1, n2}
  Paths = {"secret", "pub"}
  Contents <- KeyFiles
  Kinds = {"new"}
  Faults = {"open", "write", "rename", "remove", "crash", "power"}
  OneNamespace = TRUE
  Keys = {1, 2, 3, 4, 5, 6, 7, 8, 9}
  Exclusive = TRUE
INVARIANTS
  KeygenTypeOK
  PairMatches
  SuccessLeavesPair
PROPERTIES
  SecretStays
  EventuallyPaired
