CONSTANTS
  Funs = {"f", "g", "h"}
  NoFun = "none"
  Names = {"p", "q", "x", "y", "s", "a", "b", "c", "__return__", "msg.sender"}
  StateVars = {"s"}
  MaxCalls = 4
  Programs <- MCPrograms
SPECIFICATION Spec
INVARIANTS
  SummariesRight
  FlowsRight
PROPERTY AnalyzeEnds
CHECK_DEADLOCK FALSE
