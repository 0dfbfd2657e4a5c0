\* Three turns of up to two calls over two edits and a read: the repeat detector.
SPECIFICATION Spec
CONSTANTS
  e1 = e1
  e2 = e2
  b1 = b1
  r1 = r1
  check = check
  none = none
  EditCalls = {e1, e2}
  BashCalls = {}
  OtherCalls = {r1}
  Check = check
  NoCall = none
  MaxBatch = 2
  Configs <- LoopConfigs
INVARIANTS
  TypeOK
  RequestHistory
  RepeatsCounted
  LoopVerdictReal
  LoopCaught
  FreshContextInTime
CHECK_DEADLOCK FALSE
