SPECIFICATION Spec
CONSTANTS
  p1 = p1
  p2 = p2
  n1 = n1
  n2 = n2
  c1 = c1
  c2 = c2
  NoFile = NoFile
  NoJob = NoJob
  Nobody = Nobody
  Contents = {c1, c2}
  Pids = {n1, n2}
  Procs = {p1, p2}
  Paths = {"a"}
  Kinds = {"new", "overwrite"}
  Faults = {"open", "write", "rename", "remove", "crash", "power"}
  OneNamespace = TRUE
SYMMETRY Interchange
INVARIANTS
  TypeOK
  Untorn
PROPERTY
  ImplementsRegister
