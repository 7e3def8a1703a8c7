---------------------------- MODULE PathTracker ----------------------------
(***************************************************************************)
(* internal/pathtracker: what guards a function's body, asked of the lines *)
(* a reader took for it.  FindEarlyGuards looks for requires before the    *)
(* first state write or external call at brace depth 0, FindCustomMutex    *)
(* for a lock that is checked, set and released.  A body is a sequence of  *)
(* lines of ContractParser.  Detectors ask for three kinds of guard.       *)
(***************************************************************************)
EXTENDS ContractParser

CONSTANT GuardScanDepth   \* of a Tracker: 20 from pathtracker.New

ASSUME ScanDepthAssumption == GuardScanDepth \in Nat

\* Braces open after the first i lines: a line has at most one of each.
Depth(ls, i) == Cardinality({j \in 1..i : Opens(ls[j]) = 1}) - Cardinality({j \in 1..i : Closes(ls[j]) = 1})

-----------------------------------------------------------------------------
(* guardScanner.scan *)

IsStateWriteOrCall(l) == l.kind \in Calls \cup {"write", "set", "reset"}

PastGuards(ls, i) == \E j \in 1..i : Depth(ls, j) = 0 /\ IsStateWriteOrCall(ls[j])

MatchGuard(l) == CASE l.kind = "ownerCheck" -> "access-control"
                   [] l.kind = "check"      -> "reentrancy"
                   [] l.kind = "initCheck"  -> "initialized"
                   [] OTHER                 -> NoName

EarlyGuards(ls, guard) ==
  {i \in 1..Len(ls) : i <= GuardScanDepth /\ MatchGuard(ls[i]) = guard /\ ~PastGuards(ls, i)}

HasAccessControlGuard(ls) == EarlyGuards(ls, "access-control") # {}

-----------------------------------------------------------------------------
(* mutexScanner.find; the lock must be declared outside every function of the file. *)

HasMutex(ls, src) ==
  /\ \E c, s, r \in 1..Len(ls) : c < s /\ s < r
       /\ ls[c].kind = "check" /\ ls[s].kind = "set" /\ ls[r].kind = "reset"
  /\ \E i \in 1..Len(src) : src[i].kind = "lockVariable" /\ Depth(src, i) <= 1

HasReentrancyGuard(ls, src) == EarlyGuards(ls, "reentrancy") # {} \/ HasMutex(ls, src)

-----------------------------------------------------------------------------
(* functionBodyForPathTracking: the lines after the one with the first "{", *)
(* up to the one that balances it; all of them if that leaves none.         *)

Stripped(ls) ==
  LET opening  == {i \in 1..Len(ls) : Opens(ls[i]) = 1}
      first    == CHOOSE i \in opening : \A j \in opening : i <= j
      closings == {i \in first..Len(ls) : Depth(ls, i) <= 0}
      last     == IF closings = {} THEN Len(ls)
                  ELSE CHOOSE i \in closings : \A j \in closings : i <= j
      body     == IF last = first THEN <<Plain("other")>>       \* what follows "{" on its line
                  ELSE SubSeq(ls, first + 1, IF closings # {} /\ ls[last].kind = "close"
                                             THEN last - 1 ELSE last)
  IN IF opening = {} \/ body = <<>> THEN ls ELSE body
=============================================================================
