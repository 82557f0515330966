SPECIFICATION FairSpec
CONSTANTS
  BufferLen = 3
  Lengths <- ValueLengths
  MaxBytes = 9
  Answers <- Faulty
INVARIANTS TypeOK NeverReorders NothingLost MessageIsOut
PROPERTIES EveryWriteReturns ImplementsChannel
\* no call is in progress and MaxBytes were written
CHECK_DEADLOCK FALSE
