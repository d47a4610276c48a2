SPECIFICATION Spec
CONSTANTS
  u = u
  s = s
  ku = ku
  ks = ks
  kx = kx
  m = m
  NoName = NoName
  NoBody = NoBody
  NotUtf8 = NotUtf8
  Malformed = Malformed
  Names = {u, s}
  Keys = {ku, ks, kx}
  Prints = {m}
  Bytes <- AllBytes
  EdValid <- ValidBytes
  MlValid <- ValidBytes
  MaxSigCandidates = 2
  UpstreamName = u
  UpstreamKey = ku
  OwnName = s
  OwnKey = ks
  Docs <- AllDocs
  Cut <- AllCuts
  Requests = {"r1"}
  Sizes = {0, 1, 3, 4, 5}
  MaxChunk = 2
  MaxNarinfoBytes = 4
  MaxCacheInfoBytes = 3
  Timeout = 3
INVARIANT
  NarCutOnlyByUpstream
