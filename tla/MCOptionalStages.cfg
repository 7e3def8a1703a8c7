CONSTANTS
  a1 = a1
  a2 = a2
  f1 = f1
  f2 = f2
  w1 = w1
  Address = {a1, a2}
  Rps = 2
  Patterns <- MCPatterns
  PatternSeverity <- MCSeverity
  MinSeverity = 1
  Worlds <- MCWorlds
  Sources = {f1, f2}
  Functions = {w1}
  Detectors <- MCDetectors
  NoFile = NoFile
  NoName = NoName
  OptionSet <- MCOptions
  Projects <- MCProjects
  AddressLists <- MCAddressLists
  MaxScans = 2
  MaxKills = 1
SPECIFICATION Spec
CHECK_DEADLOCK FALSE
INVARIANTS
  
  AnswersRight
  
  DirectoryClean

  
