\* One round and a limit reached as its last sweep ends.
SPECIFICATION Spec
CHECK_DEADLOCK FALSE
CONSTANTS
  f1 = f1
  f2 = f2
  Fields <- TwoFields
  Edits <- TwoFieldEdits
  BadEdits <- TwoFieldBad
  NoEdit = NoEdit
  Rounds = 1
  Repeats = 1
  Train = 1
  Gate = 1
  Test = 1
  Limits = {9, 60}
  Costs = {1}
  MaxCost = 1
  MaxStops = 0
INVARIANT
  CountMeansRolled
