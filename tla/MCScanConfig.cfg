CONSTANTS
  Lines <- MCLines
  MaxLines = 5
  FlagSets <- MCFlagSets
  Targets <- MCTargets
  Sources <- MCSources
  PatternOf <- MCPatternOf
  Issues <- MCIssues
  Default = {"tx", "calls"}
  Experimental = {"gap"}
  SkippedDirs = {"lib", "node_modules"}
  TestFiles = {}
SPECIFICATION Spec
INVARIANTS
  ConfigMeansItsLines
  DetectorsAsConfigured
  
