\* Every combination of servers, approvals, checks and aborts over two turns,
\* with a model and an approver that may stay silent for ever.
SPECIFICATION AbortFairSpec
CONSTANTS
  e1 = e1
  e2 = e2
  b1 = b1
  r1 = r1
  check = check
  none = none
  EditCalls = {e1}
  BashCalls = {b1}
  OtherCalls = {}
  Check = check
  NoCall = none
  MaxBatch = 2
  Configs <- AskConfigs
  MaxBytes = 5
  MaxHistory = 2
  CallObjects = {"c1", "c2"}
  MaxAnswer = 3
INVARIANTS
  FinalMeansPassed
  AbortCostsOneStep
  
PROPERTIES
  NothingRunsUnasked
  EventGrammar
  AbortEnds
CHECK_DEADLOCK FALSE
