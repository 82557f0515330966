SPECIFICATION DocumentSpec
CONSTANTS
  Kinds <- StreamKinds
  Inputs <- DocumentTexts
  MaxTokens = 5
  RulesLength = 5
  Width = 12
INVARIANTS TypeOK OneMessagePerCall CommaFlag ParsesExactlyTheDocuments TruncationIsEndOfData NumbersHaveTheirValue
PROPERTIES EveryCallReturns StepsMakeProgress
\* parseJSON returns and nothing is left to do
CHECK_DEADLOCK FALSE
