SPECIFICATION Spec
CONSTANTS
  Procs = {p1, p2}
  Outputs = {o1, o2}
  Files = {f1, f2}
  Parallel = 2
SYMMETRY MC_Symmetry
INVARIANTS
  TypeOK
  ImageWholeOrAbsent
  NoLeftoversAfterWrite
  SuccessMeansOwnImage
CHECK_DEADLOCK FALSE
