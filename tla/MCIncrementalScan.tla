------------------------- MODULE MCIncrementalScan -------------------------
(* Two sessions of two tool versions over two files with two contents.    *)
EXTENDS IncrementalScan, TLC
Symmetry == Permutations(Contents) \cup Permutations(Sessions)
              \cup Permutations(Files)
=============================================================================
