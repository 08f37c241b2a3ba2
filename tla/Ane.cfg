SPECIFICATION FairRuntime
CONSTANTS
  GivenShapes <- SmallShapes
  MinWidth = 2
  MaxInputs = 1
  MaxConstants = 2
  MaxOps = 2
  Hidden = 5
  Heads = 2
  HeadDim = 2
  KvHeads = 1
  Intermediate = 3
  PromptWidth = 6
  DecodeWidth = 7
  MaxSeq = 11
  Layers = 4
  Interval = 2
  History = 3
  Prompts <- Lengths
  Budgets <- Lengths
INVARIANTS TypeOK WeightsAreTheirOwn DefinedBeforeUse  RecurrenceFollows CacheFollows 
PROPERTIES FittingRunsFinish
CONSTRAINT DeclaredFirst
CHECK_DEADLOCK FALSE
