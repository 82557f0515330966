SPECIFICATION Spec
CONSTANTS
  BufferLen = 3
  Lengths <- ValueLengths
  MaxBytes = 8
  Answers <- Healthy
INVARIANTS ResultTellsCompleteness
\* no call is in progress and MaxBytes were written
CHECK_DEADLOCK FALSE
