\* Two rounds, a low and a high limit, one stop of any kind.
SPECIFICATION Spec
CHECK_DEADLOCK FALSE
CONSTANTS
  f1 = f1
  f2 = f2
  Fields <- TwoFields
  Edits <- TwoFieldEdits
  BadEdits <- TwoFieldBad
  NoEdit = NoEdit
  Rounds = 2
  Repeats = 2
  Train = 1
  Gate = 1
  Test = 1
  Limits = {6, 21}
  Costs = {0, 4}
  MaxCost = 4
  MaxStops = 1
INVARIANTS
  TypeOK
  Resumable
  MoneyKept
  LimitHolds
  RolledTestShows
PROPERTY
  StopsUnseen
