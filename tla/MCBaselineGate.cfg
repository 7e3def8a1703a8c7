CONSTANTS
  f1 = f1
  f2 = f2
  p1 = p1
  p2 = p2
  Files = {f1, f2}
  Prints = {p1, p2}
  Issues <- MCIssues
  Sessions = {s1, s2}
  Targets = {"directory", f1}
  Modes = {"full", "incremental"}
  Spellings = {"relative"}
  MinSeverities = {1}
  FailOns = {2}
  MaxCommands = 3
  MaxEvents = 1
  Missing = Missing
  Torn = Torn
  NoEntry = NoEntry
  NotLoaded = NotLoaded
  NoExit = NoExit
  Dot = Dot
SPECIFICATION Spec
SYMMETRY Symmetry
INVARIANTS
  FullScanGatesNew
  TornNeverPasses
