\* The parts that keep something, one at a time; each stops when its bounds are spent.
SPECIFICATION Spec
CHECK_DEADLOCK FALSE
CONSTANTS
  a = a
  b = b
  Agents = {a, b}
  Clients <- TheClients
  MaxRequests = 3
  MaxCalls = 1
  MaxWaiting = 0
  Names = {n1, n2}
  Caps = {1, 2}
  MaxStarts = 2
  MaxFaults = 1
  Writers = {w1, w2}
  Removers = {d1, d2}
  Versions = {1, 2}
  MaxAsks = 3
  BenchKinds = {"new", "again"}
  Runs = 2
  Changes = {"protected", "link", "modules", "unseen"}
  p1 = p1
  p2 = p2
  f1 = f1
  Paths = {p1, p2}
  FileOf <- OneFile
  MaxLines = 2
  Settings <- TheSettings
  Escalation = 2
  MaxSteps = 3
  Outputs = {0, 2, 9}
  StubLen = 4
  Budgets = {3, 5}
  MaxTurns = 4
INVARIANTS
  TranscriptSound
  NotesKept
  JobsSafe
  BenchSound
  GuardSafe
  StubsRebuilt
  ProxiesSafe
PROPERTY
  StopsEnd
