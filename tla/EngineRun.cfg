CONSTANTS
  Id = {i1}
  AutoId = auto
  MaxBatch = 2
  Plans <- MCPlans
  StepLimit = 2
  ToolLimit = 3
  RepeatLimit = 2
  AutoVerify = 1
  MaxFault = 2
  None = None
SPECIFICATION FairSpec
CHECK_DEADLOCK FALSE
INVARIANTS HistorySound RunAccounts
PROPERTIES NothingLost RunEnds
