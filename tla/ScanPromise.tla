---------------------------- MODULE ScanPromise ----------------------------
(***************************************************************************)
(* What a caller of ScanFiles may rely on, whatever the number of workers  *)
(* and however they interleave: each file of the list gets one result, a   *)
(* reported file never becomes unreported, the call returns only when      *)
(* every file has been reported, and it does return.                       *)
(***************************************************************************)
CONSTANT Files          \* the files handed to ScanFiles

VARIABLES reported,     \* the files whose result the caller already holds
          returned      \* has ScanFiles returned?

vars == <<reported, returned>>

Init == reported = {} /\ returned = FALSE

Report(f) ==
  /\ ~returned
  /\ f \notin reported
  /\ reported' = reported \cup {f}
  /\ UNCHANGED returned

Return ==
  /\ ~returned
  /\ reported = Files
  /\ returned' = TRUE
  /\ UNCHANGED reported

Next == Return \/ \E f \in Files : Report(f)

Safe == Init /\ [][Next]_vars

Spec == Safe /\ WF_vars(Next)
=============================================================================
