SPECIFICATION Spec
CONSTANTS
  o1 = o1
  o2 = o2
  a1 = a1
  a2 = a2
  a3 = a3
  a4 = a4
  a5 = a5
  bad = bad
  Objects = {o1, o2}
  Keys <- Key
  Atoms = {a1, a2, a3, a4, a5, bad}
  Opaque = {bad}
  EmptyKey <- NoKey
  CStr <- Plain
  Rank <- RankOf
SYMMETRY Interchangeable
INVARIANTS TypeOK KeysListed OneOwner NoUndefinedBehaviour
PROPERTIES CopiesAreComplete KeysKeepTheirOrder
\* a copy may want more atoms than the instance has
CHECK_DEADLOCK FALSE
