SPECIFICATION Spec
CONSTANTS
  Procs = {p1, p2}
  Paths <- MCPaths
  Contents = {c1, c2}
  Patterns <- MCPatterns
  Requests <- MCRequests
  Failures = {"build", "write", "crash"}
  None = none
  Torn = torn
INVARIANTS
  TypeOK
  CacheFaithful
  MemoAsAsked
  OwnBuildServes
  TornHasCause
SYMMETRY Symmetric
CHECK_DEADLOCK FALSE
