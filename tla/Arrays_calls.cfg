SPECIFICATION Spec
CONSTANTS
  r1 = r1
  r2 = r2
  r3 = r3
  r4 = r4
  n1 = n1
  n2 = n2
  bad = bad
  Atoms = {r1, r2, r3, r4, n1, n2, bad}
  Arrays = {r1, r2, r3, r4}
  Opaque = {bad}
SYMMETRY Interchangeable
INVARIANTS TypeOK OneOwner CopiesHaveTheShape
PROPERTIES ElementsKeepTheirOrder OriginalsStayWhole
\* a copy may want more atoms than the instance has
CHECK_DEADLOCK FALSE
