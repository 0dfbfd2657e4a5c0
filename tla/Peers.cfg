\* What asks and waits, one part at a time; each stops when its bounds are spent.
SPECIFICATION Spec
CHECK_DEADLOCK FALSE
CONSTANTS
  Servers = {0, 2}
  MaxToolCalls = 2
  MaxStrays = 1
  Apis = {"openai", "anthropic", "ollama"}
  MaxPieces = 2
  MaxTicks = 1
  Benches = {x, y}
  Going = x
  NoBench = NoBench
  MaxRuns = 2
  MaxLen = 1
  MaxClicks = 2
  g = g
  Hosts = {g, h, k}
  Telling = {g, h}
  Keyed = {k}
  Local = {g, h}
  ModelNames = {m1, m2}
  NoModel = NoModel
  MaxChanges = 3
  MaxPresses = 2
  MaxEvolves = 2
  Pollers = {p1, p2}
  MaxWrites = 3
PROPERTIES
  ChildrenEnd
  RepliesHonest
  BenchShown
  AppCurrent
