SPECIFICATION Spec
CONSTANTS
  Kinds <- View
  Inputs <- ArrayTexts
  MaxTokens = 2
  RulesLength = 0
  Width = 12
INVARIANTS FinalBracketIsNoError
\* parseJSON returns and nothing is left to do
CHECK_DEADLOCK FALSE
