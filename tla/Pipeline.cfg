SPECIFICATION Spec
CONSTANTS
  c = c
  s = s
  kc = kc
  k1 = k1
  k2 = k2
  k3 = k3
  p = p
  h = h
  dir = dir
  Empty = Empty
  None = None
  NotNumber = NotNumber
  Rootless = Rootless
  Semicolon = Semicolon
  Comma = Comma
  Tokens <- AllTokens
  Spelled <- Spellings
  StoreDir <- Dirs
  NoName = NoName
  NoDoc = NoDoc
  Names = {c, s}
  Keys <- SomeKeys
  Prints <- AllPrints
  Bytes <- AllBytes
  EdValid <- ValidBytes
  MlValid <- ValidBytes
  MaxSigCandidates = 2
  Signers <- AllSigners
  Proxies <- AllProxies
  Nix <- TheNix
  Originals <- AllOriginals
  OtherValues <- Edits
  MaxHops = 2
  MaxChanges = 2
  MaxLayouts = 1
CHECK_DEADLOCK FALSE
INVARIANTS
  PipelineTypeOK
  BelievedAsSigned
PROPERTIES
  HopsKeepTheRest
  LayoutDoesNotMatter
  ImplementsProvenance
