----------------------------- MODULE Selections -----------------------------
(***************************************************************************)
(* Two loops over a slice that the code writes again and again: one that   *)
(* appends the elements that pass a test, and one that appends each of     *)
(* several slices to a result.  SelectSeq and FlattenSeq say the same; the *)
(* test is a set here and not an operator, so that facts about the loop    *)
(* can be stated and proved (OptionalStagesProofs).                        *)
(***************************************************************************)
EXTENDS Naturals, Sequences

KeptOf(s, S) ==
  LET kept[i \in 0..Len(s)] ==
        IF i = 0 THEN <<>>
        ELSE IF s[i] \in S THEN Append(kept[i - 1], s[i]) ELSE kept[i - 1]
  IN kept[Len(s)]
\* The elements of s that are in S, in their order.  (The singletons have TLC
\* evaluate the arguments once.)
Kept(s, S) == CHOOSE r \in {KeptOf(t, T) : t \in {s}, T \in {S}} : TRUE

\* The sequences of ss one after the other.
Joined(ss) ==
  LET joined[i \in 0..Len(ss)] == IF i = 0 THEN <<>> ELSE joined[i - 1] \o ss[i]
  IN joined[Len(ss)]
=============================================================================
