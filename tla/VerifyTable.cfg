SPECIFICATION Spec
CONSTANTS
  n = n
  o = o
  k1 = k1
  k2 = k2
  m = m
  NoName = NoName
  NoKey = NoKey
  Unreadable = Unreadable
  Malformed = Malformed
  Names = {n, o}
  Keys = {k1}
  Prints = {m}
  Bytes <- AllBytes
  EdValid <- ValidBytes
  MlValid <- ValidBytes
  MaxSigCandidates = 2
  VectorName = n
  VectorKey = k1
  Sample = m
  Flipped = "x"
  Noise <- AllNoise
  Inputs <- TableInputs
CHECK_DEADLOCK FALSE
INVARIANTS
  TypeOK
  AcceptsOnlyVerified
  RefusesOnlyBrokenPqc
  VectorsHold
