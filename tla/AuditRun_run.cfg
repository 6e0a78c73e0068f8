SPECIFICATION FairSpec
CONSTANTS
  NumPrompts = 2
  NumTasks = 3
  PromptOf <- PromptOfTask
  Price <- PriceOfTask
  Samples = 3
  MinSamples = 2
  MaxCalls = 5
  Budget = 6
  MaxWorkers = 2
  Keywords = 2
  KeywordPrice = 2
INVARIANTS PaidKept Accounted Sampled
CHECK_DEADLOCK FALSE
PROPERTY Ends
