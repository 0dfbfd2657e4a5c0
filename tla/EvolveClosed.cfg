\* One field, closed by two refusals before the last round; one stop.
SPECIFICATION FairSpec
CHECK_DEADLOCK FALSE
CONSTANTS
  f1 = f1
  f2 = f2
  Fields <- OneField
  Edits <- OneFieldEdits
  BadEdits <- OneFieldBad
  NoEdit = NoEdit
  Rounds = 3
  Repeats = 1
  Train = 1
  Gate = 1
  Test = 1
  Limits = {12, 60}
  Costs = {1}
  MaxCost = 1
  MaxStops = 1
  Tasks = {1, 2, 3}
  Times = 1
  GateTasks = {3}
  Alpha <- Fraction
  CostAlpha <- Fraction
  MinShared = 2
  Unit = 2
  Levels <- FiveLevels
  Proposals <- Proposed
  Chain = 3
  MinTrainGate = 4
  MinTest = 2
INVARIANTS
  PendingMeansOpen
  VerdictsSound
PROPERTY
  SessionEnds
