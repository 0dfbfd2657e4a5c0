SPECIFICATION FairSpec
CHECK_DEADLOCK FALSE
CONSTANTS
  r1 = r1
  r2 = r2
  d1 = d1
  d2 = d2
  dir = dir
  Runs = {r1}
  Readers = {d1, d2}
  Workdir <- OneDir
  Watched <- WatchFirst
  MaxEvents = 1
  MaxDrops = 1
INVARIANTS
  TypeOK
  NothingMissed
  RepairSound
PROPERTIES
  StreamEnds
