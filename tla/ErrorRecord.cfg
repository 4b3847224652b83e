SPECIFICATION RecordSpec
CONSTANTS
  Texts = {"a", "b"}
  LongTexts = {"b"}
  TightTexts = {"a"}
  Counted = TRUE
  MaxInput = 7
  MaxStack = 3
  MaxWords = 6
  CauseTexts <- Quotes
  MaxCauseDepth = 2
  MaxCauseType = 2
  MaxMessage = 5
  Types = {"Io", "Cancelled", "Panic"}
  Rules <- SomeRules
INVARIANT StandsForFrames
INVARIANT MoreIsPositive
INVARIANT NoSecretInMessages
INVARIANT SizeIsBounded
\* An error is recorded once.
CHECK_DEADLOCK FALSE
