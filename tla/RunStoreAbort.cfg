SPECIFICATION Spec
CHECK_DEADLOCK FALSE
CONSTANTS
  r1 = r1
  r2 = r2
  d1 = d1
  d2 = d2
  dir = dir
  Runs = {r1}
  Readers = {d1}
  Workdir <- OneDir
  Watched <- WatchFirst
  MaxEvents = 2
  MaxDrops = 0
INVARIANT
  AbortUnparks
