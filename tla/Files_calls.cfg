SPECIFICATION Spec
CONSTANTS
  SizeMax = 7
  Zero = 0
  Byte <- Bytes
  Lengths <- AnyLength
  MaxBytes = 4
INVARIANTS TypeOK NoOverrun EofIsTheEnd
\* a stream at its end that refuses everything
CHECK_DEADLOCK FALSE
