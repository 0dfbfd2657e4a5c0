\* One field, closed by two refusals before the last round; then started again.
SPECIFICATION Spec
CHECK_DEADLOCK FALSE
CONSTANTS
  f1 = f1
  f2 = f2
  Fields <- OneField
  Edits <- OneFieldEdits
  BadEdits <- OneFieldBad
  NoEdit = NoEdit
  Rounds = 3
  Repeats = 1
  Train = 1
  Gate = 1
  Test = 1
  Limits = {12, 60}
  Costs = {1}
  MaxCost = 1
  MaxStops = 0
PROPERTY
  FinishedIsOnlyPrinted
