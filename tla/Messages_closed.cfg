SPECIFICATION FairSpec
CONSTANTS
  Kinds <- Socket
  Inputs <- ClosedEarly
  MaxTokens = 0
  RulesLength = 0
  Width = 12
PROPERTIES CallReturnsAfterClose
\* parseJSON returns and nothing is left to do
CHECK_DEADLOCK FALSE
