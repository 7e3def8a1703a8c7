CONSTANTS
  Names = {"x", "y", "s", "t"}
  NoName = "-"
  FunNames = {"f", "g", "h", "only"}
  Units <- MCUnits
  Modes = {"plain", "ordered", "indexed"}
SPECIFICATION Spec
INVARIANTS
  
  TaintIsLeastFixpoint
  ChainsAreDerivations
CHECK_DEADLOCK FALSE
