SPECIFICATION FairSpec
CONSTANTS
  Texts <- MCTexts
  outside = 55
INVARIANTS TypeOK UnreadIsUntouched NoNulInside AcceptedStringsDecode ResultSaysWhatTheTextNames
PROPERTIES DecodeEnds
\* a decode ends
CHECK_DEADLOCK FALSE
