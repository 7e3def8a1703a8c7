CONSTANTS
  Nodes <- MCNodes
  Units <- MCUnits
  Builtins = {"require", "abi"}
  Graphs <- MCGraphs
  Marks = {{}}
  EntrySets = {{}}
SPECIFICATION BuildSpec
INVARIANTS
  FlagsRight
  
  ComponentsRight
  BuildRight
