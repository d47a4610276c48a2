SPECIFICATION SignFair
CONSTANTS
  p1 = p1
  p2 = p2
  n1 = n1
  n2 = n2
  s = s
  t = t
  u = u
  k1 = k1
  k2 = k2
  k3 = k3
  m1 = m1
  NoFile = NoFile
  NoJob = NoJob
  Nobody = Nobody
  NoName = NoName
  Malformed = Malformed
  Procs = {p1}
  Pids = {n1}
  Paths = {"a", "b"}
  Contents <- AllContents
  Kinds = {"overwrite"}
  Faults = {"write", "rename", "crash", "power"}
  OneNamespace = TRUE
  Names = {s, t, u}
  Keys = {k1, k2, k3}
  Prints = {m1}
  Bytes <- AllBytes
  EdValid <- ValidBytes
  MlValid <- ValidBytes
  MaxSigCandidates = 3
  Signers <- TwoSigners
  Fresh <- FreshOrBad
  MaxYields = 1
  Exclusive = TRUE
INVARIANT
  FinishedMeansSigned
PROPERTY
  EventuallySigned
