--------------------------- MODULE MCBaselineGate ---------------------------
(* Two files: one with two issues of one print, the other with an issue    *)
(* whose severity an override raises, and with an ignored one.             *)
EXTENDS BaselineGate, TLC
CONSTANTS f1, f2, p1, p2

Symmetry == Permutations(Sessions)

MCIssues ==
  {[file |-> f1, print |-> p1, severity |-> 2, effective |-> 2, ignored |-> FALSE],
   [file |-> f1, print |-> p1, severity |-> 3, effective |-> 3, ignored |-> FALSE],
   [file |-> f2, print |-> p1, severity |-> 1, effective |-> 3, ignored |-> FALSE],
   [file |-> f2, print |-> p2, severity |-> 2, effective |-> 2, ignored |-> TRUE]}
=============================================================================
