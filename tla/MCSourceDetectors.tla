------------------------- MODULE MCSourceDetectors -------------------------
(* How files may be written: contracts and heads of every layout, and one   *)
(* contract whose functions have bodies worth looking at.                   *)
EXTENDS SourceDetectors

H(name, visibility, marks) == [name |-> name, visibility |-> visibility, marks |-> marks]

MCStyles == {
  [length |-> 7, results |-> {}, heads |-> {H("f", "external", {})},
   kinds |-> {"import", "comment", "contract", "emptyContract", "bareContract", "parents", "brace",
              "function", "oneLiner", "declaration", "signature", "attributes", "modifier",
              "bareModifier", "constructor", "close"}],
  [length |-> 9, results |-> {}, heads |-> {H("f", "external", {})},
   kinds |-> {"contract", "variable", "function", "comment", "call", "write", "check", "block",
              "else", "close"}],
  [length |-> 10, results |-> {}, heads |-> {H("f", "external", {})},
   kinds |-> {"contract", "lockVariable", "function", "check", "set", "reset", "call", "invoke", "close"}],
  [length |-> 9, results |-> {}, heads |-> {H("f", "external", {}), H("_g", "external", {})},
   kinds |-> {"contract", "bareContract", "variable", "function", "declaration", "brace", "write",
              "call", "close"}],
  [length |-> 9, results |-> {}, heads |-> {H("f", "external", {}), H("f", "internal", {"nonReentrant"})},
   kinds |-> {"contract", "emptyContract", "variable", "signature", "attributes", "brace", "write",
              "call", "close"}],
  [length |-> 7, results |-> {}, heads |-> {H("f", "external", {}), H("h", "internal", {}), H("setOwner", "external", {"onlyOwner"})},
   kinds |-> {"contract", "function", "declaration", "oneLiner", "signature", "brace", "attributes",
              "write", "ownerCheck", "close"}],
  [length |-> 15, results |-> {"ok"}, heads |-> {H("f", "external", {})},
   kinds |-> {"contract", "function", "result", "resultCheck", "other", "close"}],
  [length |-> 9, results |-> {"ok", "okTo"}, heads |-> {H("f", "external", {})},
   kinds |-> {"contract", "constructor", "declaration", "function", "call", "result", "resultCheck",
              "close"}],
  [length |-> 10, results |-> {"ok"}, heads |-> {H("f", "external", {})},
   kinds |-> {"contract", "function", "result", "resultCheck", "assembly", "yulBlock", "isZero", "close"}],
  [length |-> 10, results |-> {}, heads |-> {H("initialize", "external", {})},
   kinds |-> {"contract", "function", "write", "initCheck", "disable", "block", "close"}],
  [length |-> 7, results |-> {},
   heads |-> {H("initialize", "external", {}), H("initialize", "internal", {}),
              H("initialize", "external", {"initializer"})},
   kinds |-> {"contract", "oneLiner", "declaration", "signature", "attributes", "function", "brace",
              "block", "write", "initCheck", "ownableInit", "close"}],
  [length |-> 9, results |-> {}, heads |-> {},
   kinds |-> {"contract", "bareContract", "base", "comment", "brace", "constructor",
              "constructorHead", "constructorMark", "write", "disable", "close"}],
  [length |-> 7, results |-> {}, heads |-> {H("initialize", "external", {}), H("transferOwnership", "external", {})},
   kinds |-> {"contract", "upgradeable", "emptyContract", "variable", "gap", "function",
              "declaration", "ownableInit", "close"}],
  [length |-> 8, results |-> {}, heads |-> {H("initialize", "external", {})},
   kinds |-> {"contract", "upgradeable", "bareContract", "parents", "base", "comment", "brace",
              "variable", "gap", "close"}] }
=============================================================================
