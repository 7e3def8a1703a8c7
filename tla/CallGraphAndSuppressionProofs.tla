----------------------- MODULE CallGraphAndSuppressionProofs -----------------------
(***************************************************************************)
(* For every call graph: the transitive flags are no false alarms and are  *)
(* lost in recursion only (FlagsRight), the marking ends with exactly the  *)
(* functions that calls lead to from the entry points (ReachableExact),    *)
(* Tarjan's search finds the classes of mutual recursion, callees first    *)
(* (ComponentsRight), and no recursion is deeper than there are functions. *)
(*                                                                         *)
(* FlagsSound needs only that the flags are computed from direct marks and *)
(* from flags of callees.  For ReachableExact, the inductive invariant     *)
(* says of every marked function that its callees are marked, or that it   *)
(* has a frame on the recursion's stack and the callees before the frame's *)
(* position are marked: once the stack is empty, what is marked is closed  *)
(* under calls.  For ComponentsRight, TarjanInv says how index, lowlink,   *)
(* nodeStack and the open frames go together: an open node leads to all    *)
(* that is above it on nodeStack, all on nodeStack leads to an open node   *)
(* that is not above it, and a lowlink is the index of a node on nodeStack *)
(* that is led to and no greater than that of what was looked at.          *)
(*                                                                         *)
(* The second part is about CallGraphBuild: BuildInv says what passes 1    *)
(* and 2 have made of the functions and calls they are past, and that the  *)
(* graph they leave is one that the searches' invariants hold of.          *)
(*                                                                         *)
(* The last part is about Suppression and shares no state with the others. *)
(* For every file, every ignore list and every bound: the line-by-line     *)
(* parser suppresses exactly what the directives cover (DirectivesExact),  *)
(* nothing is hidden without a reason (HiddenForAReason), and what one     *)
(* scan reports the next one of the same content does not hide             *)
(* (ReportedStays).  The invariant states what the parser's three tables   *)
(* mean after its first lineNum lines: open[id] is the last line that      *)
(* turned id off, if nothing turned it on since; the ranges are the pairs  *)
(* of a start and an end with nothing on the same id between them.         *)
(***************************************************************************)
EXTENDS CallGraphBuild, Suppression, SequenceTheorems, FiniteSetTheorems, TLAPS

\* The part of the state the two passes work on has its types.
Typed ==
  /\ callees \in [Nodes -> Seq(Nodes)]
  /\ marked \subseteq Nodes
  /\ entries \subseteq Nodes
  /\ pass \in {"flags", "reach", "cycles", "done"}
  /\ loop \subseteq Nodes
  /\ stack \in Seq(Frames)
  /\ flag \in [Nodes -> BOOLEAN]
  /\ reachable \subseteq Nodes

\* The callees of m before its k-th are marked.
MarkedBefore(m, k) ==
  \A i \in 1..Len(callees[m]) : i < k => callees[m][i] \in reachable

Expanded(m) == \A i \in 1..Len(callees[m]) : callees[m][i] \in reachable

Open(m) == \E f \in 1..Len(stack) : stack[f].node = m /\ MarkedBefore(m, stack[f].next)

ReachInv ==
  /\ pass = "flags" => reachable = {}
  /\ pass = "reach" =>
       /\ reachable \subseteq Reached(entries)
       /\ loop \subseteq entries
       /\ entries \ loop \subseteq reachable
       /\ \A f \in 1..Len(stack) : stack[f].node \in reachable
       /\ \A m \in reachable : Expanded(m) \/ Open(m)
  /\ pass \in {"cycles", "done"} => reachable = Reached(entries)

-----------------------------------------------------------------------------
(* Lemmas about the graph and the stack *)

\* A search's frame names a function and a position of its callees.
LEMMA TopTyped ==
  ASSUME Typed, Searching
  PROVE  /\ Len(stack) \in Nat \ {0}
         /\ Top \in Frames
         /\ Top.node \in Nodes
         /\ Top.next \in Nat \ {0}
<1>1. stack \in Seq(Frames) /\ stack # <<>>
  BY DEF Typed, Searching
<1>2. Len(stack) \in Nat \ {0}
  BY <1>1
<1>3. Top \in Frames
  BY <1>1, <1>2 DEF Top
<1> QED
  BY <1>2, <1>3 DEF Frames

LEMMA PoppedTyped ==
  ASSUME Typed, Searching
  PROVE  /\ Popped \in Seq(Frames)
         /\ Len(Popped) = Len(stack) - 1
         /\ \A f \in 1..Len(Popped) : Popped[f] = stack[f]
<1> DEFINE k == Len(stack) - 1
<1>1. stack \in Seq(Frames) /\ k \in Nat /\ k < Len(stack)
  BY TopTyped DEF Typed
<1>2. Popped = SubSeq(stack, 1, k)
  BY DEF Popped
<1>3. k = Len(stack) - 1
  OBVIOUS
<1> HIDE DEF k
<1>4. \A f \in 1..k : stack[f] \in Frames
  BY <1>1
<1>5. /\ SubSeq(stack, 1, k) \in Seq(Frames)
      /\ Len(SubSeq(stack, 1, k)) = IF 1 <= k THEN k - 1 + 1 ELSE 0
      /\ \A f \in 1..(k - 1 + 1) : SubSeq(stack, 1, k)[f] = stack[1 + f - 1]
  <2>1. 1 \in Int /\ k \in Int
    BY <1>1
  <2> QED
    BY <1>4, <2>1, SubSeqProperties, SMTT(30)
<1>6. Len(SubSeq(stack, 1, k)) = k
  BY <1>1, <1>5
<1>7. \A f \in 1..k : SubSeq(stack, 1, k)[f] = stack[f]
  BY <1>1, <1>5
<1> QED
  BY <1>2, <1>3, <1>5, <1>6, <1>7

\* Moving on to the next callee leaves the other frames alone.
LEMMA AdvancedTyped ==
  ASSUME Typed, Searching
  PROVE  /\ Advanced \in Seq(Frames)
         /\ Len(Advanced) = Len(stack)
         /\ \A f \in 1..Len(stack) : Advanced[f].node = stack[f].node
         /\ \A f \in 1..Len(stack) : f # Len(stack) => Advanced[f].next = stack[f].next
         /\ Advanced[Len(stack)].next = Top.next + 1
<1> DEFINE moved == [Top EXCEPT !.next = @ + 1]
<1>1. stack \in Seq(Frames) /\ Len(stack) \in Nat \ {0}
  BY TopTyped DEF Typed
<1>2. moved \in Frames /\ moved.node = Top.node /\ moved.next = Top.next + 1
  BY TopTyped DEF Frames
<1>3. Advanced = [stack EXCEPT ![Len(stack)] = moved]
  BY DEF Advanced, Top
<1> HIDE DEF moved
<1>4. /\ Advanced \in Seq(Frames)
      /\ Len(Advanced) = Len(stack)
      /\ Advanced[Len(stack)] = moved
      /\ \A f \in 1..Len(stack) : f # Len(stack) => Advanced[f] = stack[f]
  BY <1>1, <1>2, <1>3
<1> QED
  BY <1>1, <1>2, <1>4 DEF Top

\* The callee a search is at is a function, called by the innermost frame's.
LEMMA CalleeTyped ==
  ASSUME Typed, MoreCallees
  PROVE  /\ Callee \in Nodes
         /\ Top.next \in 1..Len(callees[Top.node])
         /\ Calls(Top.node, Callee)
<1>1. Searching
  BY DEF MoreCallees
<1>2. callees[Top.node] \in Seq(Nodes) /\ Top.next \in 1..Len(callees[Top.node])
  BY <1>1, TopTyped DEF MoreCallees, Typed
<1> QED
  BY <1>2 DEF Callee, Calls

\* Calls lead from a function to those they lead to from its callee.
LEMMA ReachedFromCallee ==
  ASSUME NEW m \in Nodes, NEW k \in Nodes, Calls(m, k)
  PROVE  Reached({k}) \subseteq Reached({m})
BY DEF Reached, Closed

LEMMA ReachedStart ==
  ASSUME NEW S \in SUBSET Nodes
  PROVE  S \subseteq Reached(S)
BY DEF Reached

LEMMA ReachedClosed ==
  ASSUME NEW S \in SUBSET Nodes, NEW m \in Reached(S), NEW k \in Nodes, Calls(m, k)
  PROVE  k \in Reached(S)
BY DEF Reached, Closed

\* What is closed and contains the start contains all that is reached.
LEMMA ReachedLeast ==
  ASSUME NEW S \in SUBSET Nodes, NEW T \in SUBSET Nodes, S \subseteq T, Closed(T)
  PROVE  Reached(S) \subseteq T
BY DEF Reached

\* No pass changes the graph.
LEMMA GraphFixed ==
  ASSUME [Next]_vars
  PROVE  /\ callees' = callees /\ marked' = marked /\ entries' = entries
         /\ Reached(entries)' = Reached(entries)
         /\ \A n \in Nodes : Reached({n})' = Reached({n})
<1>1. callees' = callees /\ marked' = marked /\ entries' = entries
  BY DEF Next, Step, Built, vars, graphVars, FlagsPick, FlagsDescend, FlagsFinish,
         FlagsDone, ReachPick, ReachDescend, ReachFinish, ReachDone, CyclesPick,
         CyclesDescend, CyclesFinish, CyclesDone
<1>2. \A m, k \in Nodes : Calls(m, k)' = Calls(m, k)
  BY <1>1 DEF Calls
<1> QED
  BY <1>1, <1>2 DEF Reached, Closed

-----------------------------------------------------------------------------
(* The types of the first two passes' state are invariant. *)

LEMMA PushTyped ==
  ASSUME NEW s \in Seq(Frames), NEW n \in Nodes
  PROVE  /\ Append(s, Frame(n)) \in Seq(Frames)
         /\ <<Frame(n)>> \in Seq(Frames)
BY DEF Frame, Frames

LEMMA InitTyped == Init => Typed
BY GraphsAssumption DEF Init, SearchInit, Typed

LEMMA NextTyped == Typed /\ [Next]_vars => Typed'
<1> SUFFICES ASSUME Typed, [Next]_vars
             PROVE  Typed'
  OBVIOUS
<1> USE DEF graphVars
<1>1. ASSUME NEW n \in Nodes, FlagsPick(n)
      PROVE  Typed'
  BY <1>1, PushTyped DEF FlagsPick, Typed
<1>2. ASSUME NEW n \in Nodes, ReachPick(n)
      PROVE  Typed'
  BY <1>2, PushTyped DEF ReachPick, Typed
<1>3. ASSUME NEW n \in Nodes, NEW frames \in Seq(Frames), Begin(n, frames)
      PROVE  stack' \in Seq(Frames)
  BY <1>3, PushTyped DEF Begin
<1>4. ASSUME NEW n \in Nodes, CyclesPick(n)
      PROVE  Typed'
  <2>1. stack' \in Seq(Frames)
    <3>1. stack \in Seq(Frames)
      BY DEF Typed
    <3> QED
      BY <1>3, <1>4, <3>1 DEF CyclesPick
  <2> QED
    BY <1>4, <2>1 DEF CyclesPick, Typed
<1>5. ASSUME MoreCallees
      PROVE  Advanced \in Seq(Frames) /\ Callee \in Nodes
  BY <1>5, AdvancedTyped, CalleeTyped DEF MoreCallees
<1>6. CASE FlagsDescend
  BY <1>5, <1>6, PushTyped DEF FlagsDescend, Typed
<1>7. CASE FlagsFinish
  <2>1. Popped \in Seq(Frames)
    BY <1>7, PoppedTyped DEF FlagsFinish, NoMore
  <2>2. Inherited(Top.node) \in BOOLEAN
    BY DEF Inherited
  <2> QED
    BY <1>7, <2>1, <2>2 DEF FlagsFinish, Typed
<1>8. CASE FlagsDone
  BY <1>8 DEF FlagsDone, Typed
<1>9. CASE ReachDescend
  BY <1>5, <1>9, PushTyped DEF ReachDescend, Typed
<1>10. CASE ReachFinish
  BY <1>10, PoppedTyped DEF ReachFinish, NoMore, Typed
<1>11. CASE ReachDone
  BY <1>11 DEF ReachDone, Typed
<1>12. CASE CyclesDescend
  <2>1. stack' \in Seq(Frames)
    BY <1>3, <1>5, <1>12 DEF CyclesDescend
  <2> QED
    BY <1>12, <2>1 DEF CyclesDescend, Typed
<1>13. CASE CyclesFinish
  <2>1. Popped \in Seq(Frames)
    BY <1>13, PoppedTyped DEF CyclesFinish, NoMore
  <2> QED
    BY <1>13, <2>1 DEF CyclesFinish, Typed
<1>14. CASE CyclesDone
  BY <1>14 DEF CyclesDone, Typed
<1>15. CASE UNCHANGED vars
  BY <1>15 DEF vars, Typed
<1> QED
  BY <1>1, <1>2, <1>4, <1>6, <1>7, <1>8, <1>9, <1>10, <1>11, <1>12, <1>13, <1>14, <1>15
     DEF Next, Step, Built

-----------------------------------------------------------------------------
(* FlagsSound *)

\* A flag that is set, or that is computed now, has a marked function behind it.
LEMMA NextSound == Typed /\ FlagsSound /\ [Next]_vars => FlagsSound'
<1> SUFFICES ASSUME Typed, FlagsSound, [Next]_vars, NEW n \in Nodes, flag'[n]
             PROVE  Reached({n}) \cap marked # {}
  BY GraphFixed DEF FlagsSound
<1>1. CASE flag[n]
  BY <1>1 DEF FlagsSound
<1>2. CASE ~flag[n]
  <2>1. FlagsFinish
    BY <1>2 DEF Next, Step, Built, vars, FlagsPick, FlagsDescend, FlagsDone,
                ReachPick, ReachDescend, ReachFinish, ReachDone, CyclesPick,
                CyclesDescend, CyclesFinish, CyclesDone
  <2>2. Inherited(n)
    BY <1>2, <2>1 DEF FlagsFinish, Typed
  <2>3. CASE n \in marked
    BY <2>3, ReachedStart
  <2>4. CASE n \notin marked
    <3>1. PICK i \in 1..Len(callees[n]) : flag[callees[n][i]]
      BY <2>2, <2>4 DEF Inherited
    <3>2. callees[n][i] \in Nodes /\ Calls(n, callees[n][i])
      BY <3>1 DEF Typed, Calls
    <3>3. Reached({callees[n][i]}) \cap marked # {}
      BY <3>1, <3>2 DEF FlagsSound
    <3> QED
      BY <3>2, <3>3, ReachedFromCallee
  <2> QED
    BY <2>3, <2>4
<1> QED
  BY <1>1, <1>2

\* No false alarm: a function whose TransitiveExternalCall is set leads, along
\* resolved calls, to one that makes an external or unresolved call.
THEOREM FlagsAreSound == Spec => []FlagsSound
<1>1. Init => FlagsSound
  BY DEF Init, SearchInit, FlagsSound
<1> QED
  BY <1>1, InitTyped, NextTyped, NextSound, PTL DEF Spec

-----------------------------------------------------------------------------
(* ReachableExact *)

LEMMA InitReach == Init => ReachInv
BY DEF Init, SearchInit, ReachInv

\* A marked function stays expanded or open when its frame does not move and
\* what is marked only grows.
LEMMA StillMarked ==
  ASSUME NEW m, callees' = callees, reachable \subseteq reachable'
  PROVE  /\ Expanded(m) => Expanded(m)'
         /\ \A k \in Nat : MarkedBefore(m, k) => MarkedBefore(m, k)'
BY DEF Expanded, MarkedBefore

LEMMA ReachPickInv ==
  ASSUME Typed, ReachInv, [Next]_vars, NEW n \in Nodes, ReachPick(n)
  PROVE  ReachInv'
<1>1. /\ pass = "reach" /\ pass' = "reach" /\ stack = <<>> /\ n \in loop
      /\ loop' = loop \ {n} /\ reachable' = reachable \cup {n}
      /\ stack' = IF n \in reachable THEN <<>> ELSE <<Frame(n)>>
  BY DEF ReachPick, Searching
<1>2. callees' = callees /\ entries' = entries /\ Reached(entries)' = Reached(entries)
  BY GraphFixed
<1>3. n \in Reached(entries) /\ loop' \subseteq entries
  BY <1>1, ReachedStart DEF ReachInv, Typed
<1>4. \A f \in 1..Len(stack') : stack'[f].node = n /\ stack'[f].next = 1
  BY <1>1 DEF Frame
<1>5. ASSUME NEW m \in reachable'
      PROVE  Expanded(m)' \/ Open(m)'
  <2>1. CASE m \in reachable
    <3>1. Expanded(m)
      BY <1>1, <2>1 DEF ReachInv, Open
    <3> QED
      BY <1>1, <1>2, <3>1, StillMarked
  <2>2. CASE m \notin reachable
    <3>1. m = n /\ stack' = <<Frame(n)>>
      BY <1>1, <2>2
    <3>2. Len(stack') = 1 /\ stack'[1].node = n /\ stack'[1].next = 1
      BY <3>1 DEF Frame
    <3>3. MarkedBefore(m, 1)'
      BY <1>2 DEF MarkedBefore, Typed
    <3> QED
      BY <3>1, <3>2, <3>3 DEF Open
  <2> QED
    BY <2>1, <2>2
<1> QED
  BY <1>1, <1>2, <1>3, <1>4, <1>5 DEF ReachInv

LEMMA ReachDescendInv ==
  ASSUME Typed, ReachInv, [Next]_vars, ReachDescend
  PROVE  ReachInv'
<1>1. /\ pass = "reach" /\ pass' = "reach" /\ loop' = loop /\ MoreCallees /\ Searching
      /\ reachable' = reachable \cup {Callee}
      /\ stack' = IF Callee \in reachable THEN Advanced ELSE Append(Advanced, Frame(Callee))
  BY DEF ReachDescend, MoreCallees
<1>2. callees' = callees /\ entries' = entries /\ Reached(entries)' = Reached(entries)
  BY GraphFixed
<1>3. /\ Callee \in Nodes /\ Calls(Top.node, Callee)
      /\ Callee = callees[Top.node][Top.next]
  BY <1>1, CalleeTyped DEF Callee
<1>4. /\ Len(stack) \in Nat \ {0} /\ Top.next \in Nat \ {0} /\ Top.node \in Nodes
      /\ Top = stack[Len(stack)] /\ stack \in Seq(Frames)
  BY <1>1, TopTyped DEF Top, Typed
<1>5. /\ Advanced \in Seq(Frames) /\ Len(Advanced) = Len(stack)
      /\ \A f \in 1..Len(stack) : Advanced[f].node = stack[f].node
      /\ \A f \in 1..Len(stack) : f # Len(stack) => Advanced[f].next = stack[f].next
      /\ Advanced[Len(stack)].next = Top.next + 1
  BY <1>1, AdvancedTyped
<1>6. Top.node \in reachable
  BY <1>1, <1>4 DEF ReachInv
<1>7. Callee \in Reached(entries)
  BY <1>1, <1>3, <1>6, ReachedClosed DEF ReachInv, Typed
<1>8. /\ Len(stack') >= Len(stack)
      /\ Len(stack') \in Nat
      /\ \A f \in 1..Len(stack) : stack'[f] = Advanced[f]
      /\ \A f \in 1..Len(stack') : f > Len(stack) =>
            /\ f = Len(stack') /\ Callee \notin reachable
            /\ stack'[f] = Frame(Callee)
  <2>1. CASE Callee \in reachable
    BY <1>1, <1>4, <1>5, <2>1
  <2>2. CASE Callee \notin reachable
    <3>1. stack' = Append(Advanced, Frame(Callee))
      BY <1>1, <2>2
    <3>2. /\ Len(stack') = Len(stack) + 1
          /\ \A f \in 1..Len(stack) : stack'[f] = Advanced[f]
          /\ stack'[Len(stack) + 1] = Frame(Callee)
      BY <1>3, <1>4, <1>5, <3>1, PushTyped, AppendProperties DEF Frame, Frames
    <3> QED
      BY <1>4, <2>2, <3>2
  <2> QED
    BY <2>1, <2>2
<1>9. \A f \in 1..Len(stack') : stack'[f].node \in reachable'
  <2> SUFFICES ASSUME NEW f \in 1..Len(stack')
               PROVE  stack'[f].node \in reachable'
    OBVIOUS
  <2>1. CASE f \in 1..Len(stack)
    BY <1>1, <1>5, <1>8, <2>1 DEF ReachInv
  <2>2. CASE f \notin 1..Len(stack)
    <3>1. f > Len(stack)
      BY <1>4, <1>8, <2>2
    <3> QED
      BY <1>1, <1>8, <3>1 DEF Frame
  <2> QED
    BY <2>1, <2>2
<1>10. ASSUME NEW m \in reachable'
       PROVE  Expanded(m)' \/ Open(m)'
  <2>1. CASE Expanded(m)
    BY <1>1, <1>2, <2>1, StillMarked
  <2>2. CASE m \in reachable /\ Open(m)
    <3>1. PICK f \in 1..Len(stack) : stack[f].node = m /\ MarkedBefore(m, stack[f].next)
      BY <2>2 DEF Open
    <3>2. f \in 1..Len(stack') /\ stack'[f].node = m /\ stack[f].next \in Nat
      <4>1. f \in 1..Len(stack') /\ stack'[f].node = stack[f].node
        BY <1>4, <1>5, <1>8
      <4>2. stack[f] \in Frames
        BY <1>4
      <4> QED
        BY <3>1, <4>1, <4>2 DEF Frames
    <3>3. \A i \in 1..Len(callees[m]) : i < stack[f].next => callees[m][i] \in reachable'
      BY <1>1, <3>1 DEF MarkedBefore
    <3>4. CASE f # Len(stack)
      <4>1. stack'[f].next = stack[f].next
        BY <1>5, <1>8, <3>4
      <4> QED
        BY <1>2, <3>2, <3>3, <4>1 DEF Open, MarkedBefore
    <3>5. CASE f = Len(stack)
      <4>1. stack'[f].next = stack[f].next + 1 /\ m = Top.node /\ stack[f].next = Top.next
        BY <1>4, <1>5, <1>8, <3>1, <3>5
      <4>2. callees[m][Top.next] \in reachable'
        BY <1>1, <1>3, <4>1
      <4>3. \A i \in 1..Len(callees'[m]) : i < stack'[f].next => callees'[m][i] \in reachable'
        <5> SUFFICES ASSUME NEW i \in 1..Len(callees[m]), i < stack[f].next + 1
                     PROVE  callees[m][i] \in reachable'
          BY <1>2, <4>1
        <5>1. i < stack[f].next \/ i = stack[f].next
          BY <3>2
        <5> QED
          BY <1>2, <3>3, <4>1, <4>2, <5>1 DEF MarkedBefore
      <4> QED
        BY <3>2, <4>3 DEF Open, MarkedBefore
    <3> QED
      BY <3>4, <3>5
  <2>3. CASE m \notin reachable
    <3>1. m = Callee /\ stack' = Append(Advanced, Frame(Callee))
      BY <1>1, <2>3
    <3>2. /\ Len(stack) + 1 \in 1..Len(stack')
          /\ stack'[Len(stack) + 1] = Frame(Callee)
      BY <1>3, <1>4, <1>5, <3>1, PushTyped, AppendProperties DEF Frame, Frames
    <3>3. /\ Frame(Callee).node = m /\ Frame(Callee).next = 1
      BY <3>1 DEF Frame
    <3>4. \A i \in 1..Len(callees'[m]) : ~(i < 1)
      BY <1>2, <1>3, <3>1 DEF Typed
    <3> QED
      BY <3>2, <3>3, <3>4 DEF Open, MarkedBefore
  <2> QED
    BY <1>1, <2>1, <2>2, <2>3 DEF ReachInv
<1>11. reachable' \subseteq Reached(entries)'
  BY <1>1, <1>2, <1>7 DEF ReachInv
<1> QED
  BY <1>1, <1>2, <1>9, <1>10, <1>11 DEF ReachInv

LEMMA ReachFinishInv ==
  ASSUME Typed, ReachInv, [Next]_vars, ReachFinish
  PROVE  ReachInv'
<1>1. /\ pass = "reach" /\ pass' = "reach" /\ loop' = loop /\ reachable' = reachable
      /\ NoMore /\ Searching /\ stack' = Popped
  BY DEF ReachFinish, NoMore
<1>2. callees' = callees /\ entries' = entries /\ Reached(entries)' = Reached(entries)
  BY GraphFixed
<1>3. /\ Len(stack) \in Nat \ {0} /\ Top.next \in Nat \ {0} /\ Top.node \in Nodes
      /\ Top = stack[Len(stack)]
      /\ Len(stack') = Len(stack) - 1
      /\ \A f \in 1..Len(stack') : stack'[f] = stack[f]
  BY <1>1, TopTyped, PoppedTyped DEF Top
<1>4. ASSUME NEW m \in reachable
      PROVE  Expanded(m)' \/ Open(m)'
  <2>1. CASE Expanded(m)
    BY <1>1, <1>2, <2>1 DEF Expanded
  <2>2. CASE Open(m)
    <3>1. PICK f \in 1..Len(stack) : stack[f].node = m /\ MarkedBefore(m, stack[f].next)
      BY <2>2 DEF Open
    <3>2. CASE f = Len(stack)
      <4>1. m \in Nodes /\ Len(callees[m]) \in Nat /\ stack[f].next > Len(callees[m])
        BY <1>1, <1>3, <3>1, <3>2 DEF NoMore, Typed
      <4>2. stack[f].next \in Nat
        BY <1>3, <3>2
      <4> QED
        BY <1>1, <1>2, <3>1, <4>1, <4>2 DEF MarkedBefore, Expanded
    <3>3. CASE f # Len(stack)
      <4>1. f \in 1..Len(stack') /\ stack'[f] = stack[f]
        BY <1>3, <3>3
      <4> QED
        BY <1>1, <1>2, <3>1, <4>1 DEF MarkedBefore, Open
    <3> QED
      BY <3>2, <3>3
  <2> QED
    BY <1>1, <2>1, <2>2 DEF ReachInv
<1>5. \A f \in 1..Len(stack') : stack'[f].node \in reachable'
  BY <1>1, <1>3 DEF ReachInv
<1> QED
  BY <1>1, <1>2, <1>4, <1>5 DEF ReachInv

LEMMA ReachDoneInv ==
  ASSUME Typed, ReachInv, [Next]_vars, ReachDone
  PROVE  ReachInv'
<1>1. /\ pass = "reach" /\ pass' = "cycles" /\ loop = {} /\ stack = <<>>
      /\ reachable' = reachable
  BY DEF ReachDone, Searching
<1>2. Reached(entries)' = Reached(entries)
  BY GraphFixed
<1>3. entries \subseteq reachable /\ reachable \subseteq Reached(entries)
  BY <1>1 DEF ReachInv
<1>4. Closed(reachable)
  <2>1. \A m \in reachable : Expanded(m)
    BY <1>1 DEF ReachInv, Open
  <2> QED
    BY <2>1 DEF Closed, Calls, Expanded
<1>5. Reached(entries) \subseteq reachable
  BY <1>3, <1>4, ReachedLeast DEF Typed
<1> QED
  BY <1>1, <1>2, <1>3, <1>5 DEF ReachInv

LEMMA NextReach == Typed /\ ReachInv /\ [Next]_vars => ReachInv'
<1> SUFFICES ASSUME Typed, ReachInv, [Next]_vars
             PROVE  ReachInv'
  OBVIOUS
<1>1. Reached(entries)' = Reached(entries) /\ callees' = callees /\ entries' = entries
  BY GraphFixed
<1>2. CASE \E n \in Nodes : FlagsPick(n)
  BY <1>2 DEF FlagsPick, ReachInv
<1>3. CASE FlagsDescend \/ FlagsFinish
  BY <1>3 DEF FlagsDescend, FlagsFinish, ReachInv
<1>4. CASE FlagsDone
  BY <1>1, <1>4 DEF FlagsDone, Searching, ReachInv, graphVars
<1>5. CASE \E n \in Nodes : ReachPick(n)
  BY <1>5, ReachPickInv
<1>6. CASE ReachDescend \/ ReachFinish \/ ReachDone
  BY <1>6, ReachDescendInv, ReachFinishInv, ReachDoneInv
<1>7. CASE \/ \E n \in Nodes : CyclesPick(n)
           \/ CyclesDescend \/ CyclesFinish \/ CyclesDone
  BY <1>1, <1>7 DEF CyclesPick, CyclesDescend, CyclesFinish, CyclesDone, ReachInv
<1>8. CASE UNCHANGED vars
  BY <1>1, <1>8 DEF vars, ReachInv, Expanded, Open, MarkedBefore
<1> QED
  BY <1>2, <1>3, <1>4, <1>5, <1>6, <1>7, <1>8 DEF Next, Step, Built

\* markReachable leaves IsReachableFromExternal set on exactly the functions that
\* calls lead to from an entry point.
THEOREM MarkingIsExact == Spec => []ReachableExact
<1>1. ReachInv => ReachableExact
  BY DEF ReachInv, ReachableExact
<1> QED
  BY <1>1, InitTyped, NextTyped, InitReach, NextReach, PTL DEF Spec

-----------------------------------------------------------------------------
(* FlagsLostInRecursionOnly *)

\* A node that is done has the flag if it is marked, and if a callee has it, unless
\* the two call each other.
Settled(n) ==
  /\ n \in marked => flag[n]
  /\ \A k \in Nodes : Calls(n, k) =>
       \/ n # k /\ Together(n, k)
       \/ k \in visited /\ (flag[k] => flag[n])

\* n is in every set of functions that contains m and is closed under the calls c.
Path(c, m, n) ==
  \A T \in SUBSET Nodes :
    m \in T /\ (\A x, y \in Nodes : x \in T /\ (\E i \in 1..Len(c[x]) : c[x][i] = y) => y \in T)
      => n \in T

On(s, n) == \E f \in 1..Len(s) : s[f].node = n

\* The callees before a frame's position are done, or open: and an open node
\* leads to those above it on the stack.
LostInv ==
  /\ visited \subseteq Nodes
  /\ \A n \in visited : Settled(n)
  /\ pass # "flags" => visited = Nodes
  /\ pass = "flags" =>
       /\ \A f, g \in 1..Len(stack) : f < g =>
            /\ stack[f].node # stack[g].node
            /\ Path(callees, stack[f].node, stack[g].node)
       /\ \A f \in 1..Len(stack) : stack[f].node \notin visited
       /\ \A f \in 1..Len(stack) : \A i \in 1..Len(callees[stack[f].node]) :
            i < stack[f].next =>
              \/ callees[stack[f].node][i] \in visited
              \/ On(stack, callees[stack[f].node][i])
       /\ \A n \in Nodes \ loop : n \in visited \/ On(stack, n)

LEMMA InitLost == Init => LostInv
BY DEF Init, SearchInit, LostInv

LEMMA PathReached ==
  ASSUME NEW m \in Nodes, NEW n \in Nodes
  PROVE  n \in Reached({m}) <=> Path(callees, m, n)
BY DEF Reached, Closed, Calls, Path

LEMMA PathTransitive ==
  ASSUME NEW m \in Nodes, NEW n \in Nodes, NEW k \in Nodes,
         Path(callees, m, n), Path(callees, n, k)
  PROVE  Path(callees, m, k)
BY DEF Path

LEMMA PathStart ==
  ASSUME NEW m \in Nodes
  PROVE  Path(callees, m, m)
BY DEF Path

LEMMA CallIsPath ==
  ASSUME NEW m \in Nodes, NEW k \in Nodes, Calls(m, k)
  PROVE  Path(callees, m, k)
BY DEF Path, Calls

\* What does not touch the flags leaves the nodes that are done settled.
LEMMA SettledFixed ==
  ASSUME Typed, [Next]_vars, visited' = visited, flag' = flag, visited \subseteq Nodes
  PROVE  \A n \in visited : Settled(n) => Settled(n)'
<1>1. \A m, k \in Nodes : Calls(m, k)' = Calls(m, k) /\ Together(m, k)' = Together(m, k)
  BY GraphFixed DEF Calls, Together
<1> QED
  BY <1>1, GraphFixed DEF Settled

LEMMA FlagsPickLost ==
  ASSUME Typed, LostInv, [Next]_vars, NEW n \in Nodes, FlagsPick(n)
  PROVE  LostInv'
<1>1. /\ pass = "flags" /\ pass' = "flags" /\ stack = <<>> /\ loop' = loop \ {n}
      /\ visited' = visited /\ flag' = flag
      /\ stack' = IF n \in visited THEN <<>> ELSE <<Frame(n)>>
  BY DEF FlagsPick, Searching
<1>2. \A m \in visited : Settled(m)'
  BY <1>1, SettledFixed DEF LostInv
<1>3. /\ \A f, g \in 1..Len(stack') : ~(f < g)
      /\ \A f \in 1..Len(stack') : stack'[f].node = n /\ stack'[f].next = 1
      /\ n \notin visited => 1 \in 1..Len(stack')
  BY <1>1 DEF Frame
<1>4. \A f \in 1..Len(stack') : n \notin visited
  BY <1>1
<1>5. \A f \in 1..Len(stack') : \A i \in 1..Len(callees'[stack'[f].node]) :
         ~(i < stack'[f].next)
  BY <1>3, GraphFixed DEF Typed
<1>6. \A m \in Nodes \ loop' : m \in visited \/ On(stack', m)
  BY <1>1, <1>3 DEF LostInv, On
<1> QED
  BY <1>1, <1>2, <1>3, <1>4, <1>5, <1>6 DEF LostInv

LEMMA FramesTyped ==
  ASSUME Typed
  PROVE  \A f \in 1..Len(stack) : stack[f].node \in Nodes /\ stack[f].next \in Nat
<1>1. \A f \in 1..Len(stack) : stack[f] \in Frames
  BY DEF Typed
<1> QED
  BY <1>1 DEF Frames

LEMMA FlagsDescendLost ==
  ASSUME Typed, LostInv, [Next]_vars, FlagsDescend
  PROVE  LostInv'
<1> DEFINE skip == Callee \in visited \/ On(stack, Callee)
<1>1. /\ pass = "flags" /\ pass' = "flags" /\ loop' = loop /\ MoreCallees /\ Searching
      /\ visited' = visited /\ flag' = flag
      /\ stack' = IF skip THEN Advanced ELSE Append(Advanced, Frame(Callee))
  BY DEF FlagsDescend, MoreCallees, InStack, On
<1>2. callees' = callees
  BY GraphFixed
<1>3. /\ Callee \in Nodes /\ Calls(Top.node, Callee)
      /\ Callee = callees[Top.node][Top.next]
  BY <1>1, CalleeTyped DEF Callee
<1>4. /\ Len(stack) \in Nat \ {0} /\ Top.next \in Nat \ {0} /\ Top.node \in Nodes
      /\ Top = stack[Len(stack)]
      /\ \A f \in 1..Len(stack) : stack[f].node \in Nodes /\ stack[f].next \in Nat
  BY <1>1, TopTyped, FramesTyped DEF Top
<1>5. /\ Advanced \in Seq(Frames) /\ Len(Advanced) = Len(stack)
      /\ \A f \in 1..Len(stack) : Advanced[f].node = stack[f].node
      /\ \A f \in 1..Len(stack) : f # Len(stack) => Advanced[f].next = stack[f].next
      /\ Advanced[Len(stack)].next = Top.next + 1
  BY <1>1, AdvancedTyped
<1>6. /\ Len(stack') \in {Len(stack), Len(stack) + 1}
      /\ skip => Len(stack') = Len(stack)
      /\ ~skip => Len(stack') = Len(stack) + 1
      /\ \A f \in 1..Len(stack) : stack'[f] = Advanced[f]
      /\ ~skip => /\ stack'[Len(stack) + 1].node = Callee
                  /\ stack'[Len(stack) + 1].next = 1
  <2>1. CASE skip
    BY <1>1, <1>4, <1>5, <2>1
  <2>2. CASE ~skip
    <3>1. stack' = Append(Advanced, Frame(Callee))
      BY <1>1, <2>2
    <3>2. /\ Len(stack') = Len(stack) + 1
          /\ \A f \in 1..Len(stack) : stack'[f] = Advanced[f]
          /\ stack'[Len(stack) + 1] = Frame(Callee)
      BY <1>3, <1>4, <1>5, <3>1, PushTyped, AppendProperties DEF Frame, Frames
    <3> QED
      BY <1>4, <2>2, <3>2 DEF Frame
  <2> QED
    BY <2>1, <2>2
<1> HIDE DEF skip
<1>7. skip => Callee \in visited \/ On(stack, Callee)
  BY DEF skip
<1>8. ~skip => Callee \notin visited /\ \A f \in 1..Len(stack) : stack[f].node # Callee
  BY DEF skip, On
<1>9. \A f \in 1..Len(stack) : f \in 1..Len(stack') /\ stack'[f].node = stack[f].node
  BY <1>4, <1>5, <1>6
<1>10. \A n : On(stack, n) => On(stack', n)
  BY <1>9 DEF On
<1>11. On(stack', Callee) \/ Callee \in visited
  <2>1. CASE skip
    BY <1>7, <1>10, <2>1
  <2>2. CASE ~skip
    BY <1>4, <1>6, <2>2 DEF On
  <2> QED
    BY <2>1, <2>2
<1>12. \A n \in visited : Settled(n)'
  BY <1>1, SettledFixed DEF LostInv
<1>13. ASSUME NEW f \in 1..Len(stack'), NEW g \in 1..Len(stack'), f < g
       PROVE  /\ stack'[f].node # stack'[g].node
              /\ Path(callees, stack'[f].node, stack'[g].node)
  <2>1. f \in 1..Len(stack) /\ stack'[f].node = stack[f].node /\ stack[f].node \in Nodes
    BY <1>4, <1>6, <1>9, <1>13
  <2>2. CASE g \in 1..Len(stack)
    BY <1>1, <1>2, <1>9, <1>13, <2>1, <2>2 DEF LostInv
  <2>3. CASE g \notin 1..Len(stack)
    <3>1. ~skip /\ g = Len(stack) + 1 /\ stack'[g].node = Callee
      BY <1>4, <1>6, <2>3
    <3>2. stack[f].node # Callee
      BY <1>8, <2>1, <3>1
    <3>3. Path(callees, stack[f].node, Top.node)
      <4>1. CASE f = Len(stack)
        BY <1>4, <4>1, PathStart
      <4>2. CASE f # Len(stack)
        <5>1. f < Len(stack) /\ Len(stack) \in 1..Len(stack)
          BY <1>4, <2>1, <4>2
        <5> QED
          BY <1>1, <1>4, <2>1, <5>1 DEF LostInv
      <4> QED
        BY <4>1, <4>2
    <3>4. Path(callees, stack[f].node, Callee)
      BY <1>3, <1>4, <2>1, <3>3, CallIsPath, PathTransitive
    <3> QED
      BY <1>2, <2>1, <3>1, <3>2, <3>4
  <2> QED
    BY <2>2, <2>3
<1>14. ASSUME NEW f \in 1..Len(stack')
       PROVE  /\ stack'[f].node \notin visited
              /\ \A i \in 1..Len(callees[stack'[f].node]) : i < stack'[f].next =>
                   \/ callees[stack'[f].node][i] \in visited
                   \/ On(stack', callees[stack'[f].node][i])
  <2>1. CASE f \in 1..Len(stack) /\ f # Len(stack)
    <3>1. stack'[f].node = stack[f].node /\ stack'[f].next = stack[f].next
      BY <1>5, <1>6, <1>9, <2>1
    <3> QED
      BY <1>1, <1>10, <2>1, <3>1 DEF LostInv
  <2>2. CASE f = Len(stack)
    <3>1. stack'[f].node = Top.node /\ stack'[f].next = Top.next + 1 /\ f \in 1..Len(stack)
      BY <1>4, <1>5, <1>6, <1>9, <2>2
    <3>2. Top.node \notin visited
      BY <1>1, <1>4, <2>2, <3>1 DEF LostInv
    <3>3. ASSUME NEW i \in 1..Len(callees[Top.node]), i < Top.next + 1
          PROVE  callees[Top.node][i] \in visited \/ On(stack', callees[Top.node][i])
      <4>1. CASE i = Top.next
        BY <1>3, <1>11, <4>1
      <4>2. CASE i < Top.next
        BY <1>1, <1>4, <1>10, <2>2, <3>1, <4>2 DEF LostInv
      <4> QED
        BY <1>4, <3>3, <4>1, <4>2
    <3> QED
      BY <3>1, <3>2, <3>3
  <2>3. CASE f \notin 1..Len(stack)
    <3>1. ~skip /\ stack'[f].node = Callee /\ stack'[f].next = 1
      BY <1>4, <1>6, <2>3
    <3>2. Len(callees[Callee]) \in Nat
      BY <1>3 DEF Typed
    <3> QED
      BY <1>8, <3>1, <3>2
  <2> QED
    BY <2>1, <2>2, <2>3
<1>15. \A n \in Nodes \ loop : n \in visited \/ On(stack', n)
  BY <1>1, <1>10 DEF LostInv
<1> QED
  BY <1>1, <1>2, <1>12, <1>13, <1>14, <1>15 DEF LostInv

LEMMA FlagsFinishLost ==
  ASSUME Typed, LostInv, [Next]_vars, FlagsFinish
  PROVE  LostInv'
<1> DEFINE n == Top.node
<1>1. /\ pass = "flags" /\ pass' = "flags" /\ loop' = loop /\ NoMore /\ Searching
      /\ flag' = [flag EXCEPT ![n] = Inherited(n)]
      /\ visited' = visited \cup {n}
      /\ stack' = Popped
  BY DEF FlagsFinish, NoMore
<1>2. /\ callees' = callees /\ marked' = marked
      /\ \A m, k \in Nodes : Calls(m, k)' = Calls(m, k) /\ Together(m, k)' = Together(m, k)
  BY GraphFixed DEF Calls, Together
<1>3. /\ Len(stack) \in Nat \ {0} /\ Top.next \in Nat \ {0} /\ n \in Nodes
      /\ Top = stack[Len(stack)] /\ Len(stack) \in 1..Len(stack)
      /\ Len(stack') = Len(stack) - 1
      /\ \A f \in 1..Len(stack') : f \in 1..Len(stack) /\ f < Len(stack)
      /\ \A f \in 1..Len(stack) : f < Len(stack) => f \in 1..Len(stack')
      /\ \A f \in 1..Len(stack') : stack'[f] = stack[f]
  BY <1>1, TopTyped, PoppedTyped DEF Top
<1>4. n \notin visited
  BY <1>1, <1>3 DEF LostInv
<1>5. /\ flag'[n] = Inherited(n)
      /\ \A m \in Nodes : m # n => flag'[m] = flag[m]
  BY <1>1, <1>3 DEF Typed
<1>6. ASSUME NEW m, m = n
      PROVE  Settled(m)'
  <2>1. n \in marked => flag'[n]
    BY <1>5 DEF Inherited
  <2>2. ASSUME NEW k \in Nodes, Calls(n, k)
        PROVE  \/ n # k /\ Together(n, k)
               \/ k \in visited' /\ (flag'[k] => flag'[n])
    <3>1. PICK i \in 1..Len(callees[n]) : callees[n][i] = k
      BY <2>2 DEF Calls
    <3>2. i < Top.next
      <4>1. Len(callees[n]) \in Nat
        BY <1>3 DEF Typed
      <4> QED
        BY <1>1, <1>3, <3>1, <4>1 DEF NoMore
    <3>3. k \in visited \/ On(stack, k)
      BY <1>1, <1>3, <3>1, <3>2 DEF LostInv
    <3>4. CASE k = n
      BY <1>1, <3>4
    <3>5. CASE k # n /\ k \in visited
      BY <1>1, <1>5, <3>1, <3>5 DEF Inherited
    <3>6. CASE k # n /\ On(stack, k)
      <4>1. PICK f \in 1..Len(stack) : stack[f].node = k
        BY <3>6 DEF On
      <4>2. f < Len(stack)
        BY <1>3, <3>6, <4>1
      <4>3. Path(callees, k, n)
        BY <1>1, <1>3, <4>1, <4>2 DEF LostInv
      <4>4. Path(callees, n, k)
        BY <1>3, <2>2, CallIsPath
      <4> QED
        BY <1>3, <3>6, <4>3, <4>4, PathReached DEF Together
    <3> QED
      BY <3>3, <3>4, <3>5, <3>6
  <2> HIDE DEF n
  <2> QED
    BY <1>2, <1>3, <1>6, <2>1, <2>2 DEF Settled
<1>7. ASSUME NEW m \in visited
      PROVE  Settled(m)'
  <2>1. m \in Nodes /\ m # n /\ Settled(m) /\ flag'[m] = flag[m]
    BY <1>4, <1>5 DEF LostInv
  <2>2. ASSUME NEW k \in Nodes, Calls(m, k)
        PROVE  \/ m # k /\ Together(m, k)
               \/ k \in visited' /\ (flag'[k] => flag'[m])
    <3>1. CASE m # k /\ Together(m, k)
      BY <3>1
    <3>2. CASE k \in visited /\ (flag[k] => flag[m])
      <4>1. k # n
        BY <1>4, <3>2
      <4> QED
        BY <1>1, <1>5, <2>1, <3>2, <4>1
    <3> QED
      BY <2>1, <2>2, <3>1, <3>2 DEF Settled
  <2> QED
    BY <1>2, <2>1, <2>2 DEF Settled
<1> HIDE DEF n
<1>8. \A f \in 1..Len(stack') : stack'[f].node \notin visited'
  BY <1>1, <1>3 DEF LostInv, n
<1>9. \A k : On(stack, k) => On(stack', k) \/ k \in visited'
  <2> SUFFICES ASSUME NEW k, On(stack, k), k # n
               PROVE  On(stack', k)
    BY <1>1
  <2>1. PICK f \in 1..Len(stack) : stack[f].node = k
    BY DEF On
  <2>2. f < Len(stack)
    BY <1>3, <2>1 DEF n
  <2> QED
    BY <1>3, <2>1, <2>2 DEF On
<1>10. \A f \in 1..Len(stack') : \A i \in 1..Len(callees[stack'[f].node]) :
         i < stack'[f].next =>
           \/ callees[stack'[f].node][i] \in visited'
           \/ On(stack', callees[stack'[f].node][i])
  BY <1>1, <1>3, <1>9 DEF LostInv
<1>11. \A f, g \in 1..Len(stack') : f < g =>
         /\ stack'[f].node # stack'[g].node
         /\ Path(callees, stack'[f].node, stack'[g].node)
  BY <1>1, <1>3 DEF LostInv
<1>12. \A m \in Nodes \ loop' : m \in visited' \/ On(stack', m)
  BY <1>1, <1>9 DEF LostInv
<1>13. visited' \subseteq Nodes /\ \A m \in visited' : Settled(m)'
  <2>1. visited' \subseteq Nodes
    BY <1>1, <1>3 DEF LostInv
  <2> QED
    BY <1>1, <1>6, <1>7, <2>1
<1> QED
  BY <1>1, <1>2, <1>8, <1>10, <1>11, <1>12, <1>13 DEF LostInv

LEMMA NextLost == Typed /\ LostInv /\ [Next]_vars => LostInv'
<1> SUFFICES ASSUME Typed, LostInv, [Next]_vars
             PROVE  LostInv'
  OBVIOUS
<1>1. CASE \E n \in Nodes : FlagsPick(n)
  BY <1>1, FlagsPickLost
<1>2. CASE FlagsDescend \/ FlagsFinish
  BY <1>2, FlagsDescendLost, FlagsFinishLost
<1>3. ASSUME visited' = visited, flag' = flag
      PROVE  visited' \subseteq Nodes /\ \A n \in visited' : Settled(n)'
  BY <1>3, SettledFixed DEF LostInv
<1>4. CASE FlagsDone
  <2>1. /\ pass = "flags" /\ pass' # "flags" /\ stack = <<>> /\ loop = {}
        /\ visited' = visited /\ flag' = flag
    BY <1>4 DEF FlagsDone, Searching
  <2>2. visited' = Nodes
    <3>1. \A n : ~On(stack, n)
      BY <2>1 DEF On
    <3>2. visited \subseteq Nodes /\ \A n \in Nodes : n \in visited
      BY <2>1, <3>1 DEF LostInv
    <3> QED
      BY <2>1, <3>2
  <2> QED
    BY <1>3, <2>1, <2>2 DEF LostInv
<1>5. CASE \/ \E n \in Nodes : ReachPick(n) \/ CyclesPick(n)
           \/ ReachDescend \/ ReachFinish \/ ReachDone
           \/ CyclesDescend \/ CyclesFinish \/ CyclesDone
  <2>1. pass # "flags" /\ pass' # "flags" /\ visited' = visited /\ flag' = flag
    BY <1>5 DEF ReachPick, CyclesPick, ReachDescend, ReachFinish, ReachDone,
                CyclesDescend, CyclesFinish, CyclesDone
  <2> QED
    BY <1>3, <2>1 DEF LostInv
<1>6. CASE UNCHANGED vars
  <2>1. /\ visited' = visited /\ flag' = flag /\ pass' = pass /\ stack' = stack
        /\ loop' = loop /\ callees' = callees
    BY <1>6 DEF vars
  <2> QED
    BY <1>3, <2>1 DEF LostInv
<1> QED
  BY <1>1, <1>2, <1>4, <1>5, <1>6 DEF Next, Step, Built

\* The flagged functions contain the marked ones and are closed under all calls but
\* those between functions that call each other, so that they contain Certain.
LEMMA LostOnlyInRecursion == Typed /\ LostInv => FlagsLostInRecursionOnly
<1> SUFFICES ASSUME Typed, LostInv, pass = "done", NEW n \in Certain
             PROVE  flag[n]
  BY DEF FlagsLostInRecursionOnly
<1> DEFINE T == {m \in Nodes : flag[m]}
<1>1. \A m \in Nodes : Settled(m)
  BY DEF LostInv
<1>2. marked \subseteq T
  BY <1>1 DEF Settled, Typed
<1>3. \A m, k \in Nodes : Calls(m, k) /\ k \in T => m \in T \/ (m # k /\ Together(m, k))
  BY <1>1 DEF Settled
<1>4. T \in SUBSET Nodes
  OBVIOUS
<1> HIDE DEF T
<1>5. n \in T
  BY <1>2, <1>3, <1>4 DEF Certain
<1> QED
  BY <1>5 DEF T

\* Whatever the order of the searches, a flag is lost only along a call between two
\* functions that call each other.
THEOREM FlagsLostOnlyInRecursion == Spec => []FlagsLostInRecursionOnly
BY LostOnlyInRecursion, InitTyped, NextTyped, InitLost, NextLost, PTL DEF Spec

\* computeNodeProperties sets a transitive flag for a reason and loses it in recursion only.
THEOREM FlagsAreRight == Spec => []FlagsRight
<1>1. FlagsSound /\ FlagsLostInRecursionOnly => FlagsRight  BY DEF FlagsRight
<1>. QED  BY <1>1, FlagsAreSound, FlagsLostOnlyInRecursion, PTL

-----------------------------------------------------------------------------
(* ComponentsRight *)

Numbered == {m \in Nodes : index[m] # 0}
Finished == UNION sccs

TarjanTyped ==
  /\ index \in [Nodes -> Nat] /\ low \in [Nodes -> Nat]
  /\ nodeStack \in Seq(Nodes) /\ onStack \subseteq Nodes /\ sccs \subseteq SUBSET Nodes
  /\ \A m \in Nodes : index[m] <= Cardinality(Numbered) /\ low[m] <= index[m]

\* nodeStack holds the nodes that are begun and in no component yet, in the order of index.
StackSorted ==
  /\ onStack = {nodeStack[i] : i \in 1..Len(nodeStack)}
  /\ \A i, j \in 1..Len(nodeStack) : i < j => index[nodeStack[i]] < index[nodeStack[j]]
  /\ Numbered = onStack \cup Finished
  /\ onStack \cap Finished = {}

\* The recursion is a path of calls through nodes of rising index.
PathOfCalls ==
  \A k \in 1..Len(stack) :
    /\ stack[k].node \in onStack
    /\ \A l \in 1..Len(stack) : k < l => index[stack[k].node] < index[stack[l].node]
    /\ k < Len(stack) => Calls(stack[k].node, stack[k + 1].node)

\* An open node leads to all that is above it on nodeStack ...
LeadsUp ==
  \A k \in 1..Len(stack) : \A x \in onStack :
    index[stack[k].node] <= index[x] => x \in Reached({stack[k].node})

\* ... and every node there leads to an open one that is not above it.
LeadsDown ==
  \A x \in onStack : \E k \in 1..Len(stack) :
    index[stack[k].node] <= index[x] /\ stack[k].node \in Reached({x})

\* low is the index of a node that is led to.
LowIsReached ==
  \A k \in 1..Len(stack) : \E m \in onStack :
    index[m] = low[stack[k].node] /\ m \in Reached({stack[k].node})

\* The i-th callee of x has been looked at.
LookedAt(x, i) ==
  /\ i \in 1..Len(callees[x])
  /\ \A k \in 1..Len(stack) : stack[k].node = x => i < stack[k].next

\* What has been looked at has begun, and is not below low of the open node it belongs to.
EdgesRight ==
  \A x \in onStack : \A i \in 1..Len(callees[x]) : LookedAt(x, i) =>
    /\ callees[x][i] \in Numbered
    /\ callees[x][i] \in onStack =>
         \A k \in 1..Len(stack) :
           /\ index[stack[k].node] <= index[x]
           /\ \A l \in 1..Len(stack) : k < l => index[x] < index[stack[l].node]
           => low[stack[k].node] <= index[callees[x][i]]

SccsRight ==
  /\ Closed(Finished)
  /\ \A S \in sccs : S # {} /\ \A n \in S : S = {m \in Nodes : Together(m, n)}

TarjanInv ==
  /\ TarjanTyped /\ StackSorted /\ PathOfCalls /\ LeadsUp /\ LeadsDown /\ LowIsReached
  /\ EdgesRight /\ SccsRight

CyclesInv ==
  /\ pass \in {"flags", "reach"} =>
       /\ \A n \in Nodes : index[n] = 0 /\ low[n] = 0
       /\ index \in [Nodes -> Nat] /\ low \in [Nodes -> Nat]
       /\ onStack = {} /\ nodeStack = <<>> /\ sccs = {}
  /\ pass \in {"cycles", "done"} => TarjanInv
  /\ pass = "cycles" => Nodes \ loop \subseteq Numbered
  /\ pass = "done" => stack = <<>> /\ Numbered = Nodes

LEMMA ReachedOn ==
  ASSUME NEW m \in Nodes, NEW k \in Reached({m})
  PROVE  k \in Nodes /\ Reached({k}) \subseteq Reached({m})
BY DEF Reached

LEMMA SameCalls ==
  ASSUME callees' = callees
  PROVE  /\ \A m, k : Calls(m, k)' <=> Calls(m, k)
         /\ \A S : (Closed(S)' <=> Closed(S)) /\ Reached(S)' = Reached(S)
         /\ \A m, k : Together(m, k)' <=> Together(m, k)
<1>1. \A m, k : Calls(m, k)' <=> Calls(m, k)
  BY DEF Calls
<1>2. \A S : Closed(S)' <=> Closed(S)
  BY <1>1 DEF Closed
<1>3. \A S : Reached(S)' = Reached(S)
  BY <1>2 DEF Reached
<1>4. \A m, k : Together(m, k)' <=> Together(m, k)
  BY <1>3 DEF Together
<1> QED
  BY <1>1, <1>2, <1>3, <1>4

LEMMA NumberedFinite == IsFiniteSet(Numbered) /\ Cardinality(Numbered) \in Nat
<1>1. Numbered \subseteq Nodes /\ IsFiniteSet(Nodes)
  BY GraphsAssumption DEF Numbered
<1>2. IsFiniteSet(Numbered)
  BY <1>1, FS_Subset
<1> QED
  BY <1>2, FS_CardinalityType

\* The nodes above n on nodeStack are those begun after it.
LEMMA ComponentIs ==
  ASSUME TarjanTyped, StackSorted, NEW n \in onStack
  PROVE  /\ PositionOf(n) \in 1..Len(nodeStack) /\ nodeStack[PositionOf(n)] = n
         /\ Component(n) = {x \in onStack : index[n] <= index[x]}
         /\ \A i \in 1..Len(nodeStack) : i < PositionOf(n) <=> index[nodeStack[i]] < index[n]
<1>1. \E i \in 1..Len(nodeStack) : nodeStack[i] = n
  BY DEF StackSorted
<1>2. PositionOf(n) \in 1..Len(nodeStack) /\ nodeStack[PositionOf(n)] = n
  BY <1>1 DEF PositionOf
<1>3. PICK p \in 1..Len(nodeStack) : p = PositionOf(n)
  BY <1>2
<1>4. Len(nodeStack) \in Nat /\ \A i \in 1..Len(nodeStack) : nodeStack[i] \in Nodes
  BY DEF TarjanTyped
<1>5. \A i \in 1..Len(nodeStack) : index[nodeStack[i]] \in Nat
  BY <1>4 DEF TarjanTyped
<1>6. \A i, j \in 1..Len(nodeStack) : i < j => index[nodeStack[i]] < index[nodeStack[j]]
  BY DEF StackSorted
<1>7. ASSUME NEW i \in 1..Len(nodeStack)
      PROVE  /\ i < p <=> index[nodeStack[i]] < index[n]
             /\ i >= p <=> index[n] <= index[nodeStack[i]]
  <2>1. nodeStack[p] = n
    BY <1>2, <1>3
  <2>2. i < p \/ i = p \/ p < i
    BY <1>4
  <2>3. i < p => index[nodeStack[i]] < index[n]
    BY <1>6, <2>1
  <2>4. p < i => index[n] < index[nodeStack[i]]
    BY <1>6, <2>1
  <2>5. index[n] \in Nat /\ index[nodeStack[i]] \in Nat
    BY <1>5, <2>1
  <2> QED
    BY <1>4, <2>1, <2>2, <2>3, <2>4, <2>5
<1>8. Component(n) = {x \in onStack : index[n] <= index[x]}
  <2>1. ASSUME NEW x \in Component(n)
        PROVE  x \in onStack /\ index[n] <= index[x]
    <3>1. PICK i \in p..Len(nodeStack) : x = nodeStack[i]
      BY <1>3, <2>1 DEF Component
    <3>2. i \in 1..Len(nodeStack) /\ i >= p
      BY <1>4, <3>1
    <3> QED
      BY <1>7, <3>1, <3>2 DEF StackSorted
  <2>2. ASSUME NEW x \in onStack, index[n] <= index[x]
        PROVE  x \in Component(n)
    <3>1. PICK i \in 1..Len(nodeStack) : x = nodeStack[i]
      BY <2>2 DEF StackSorted
    <3>2. i \in p..Len(nodeStack)
      BY <1>4, <1>7, <2>2, <3>1
    <3> QED
      BY <1>3, <3>1, <3>2 DEF Component
  <2> QED
    BY <2>1, <2>2
<1> QED
  BY <1>2, <1>3, <1>7, <1>8

\* An index is that of one node on the stack only.
LEMMA IndexOfOne ==
  ASSUME TarjanTyped, StackSorted, NEW m \in onStack, NEW n \in onStack, index[m] = index[n]
  PROVE  m = n
<1>1. PICK i \in 1..Len(nodeStack) : m = nodeStack[i]
  BY DEF StackSorted
<1>2. PICK j \in 1..Len(nodeStack) : n = nodeStack[j]
  BY DEF StackSorted
<1>3. index[m] \in Nat
  BY DEF TarjanTyped
<1>4. ~(i < j) /\ ~(j < i)
  BY <1>1, <1>2, <1>3 DEF StackSorted
<1> QED
  BY <1>1, <1>2, <1>4

\* A node has one frame at most.
LEMMA OneFrame ==
  ASSUME TarjanTyped, PathOfCalls, NEW k \in 1..Len(stack), NEW l \in 1..Len(stack),
         stack[k].node = stack[l].node
  PROVE  k = l
<1>1. ~(k < l) /\ ~(l < k)
  <2>1. index[stack[k].node] \in Nat
    BY DEF TarjanTyped, PathOfCalls
  <2> QED
    BY <2>1 DEF PathOfCalls
<1> QED
  BY <1>1

\* The numbers before a step that begins n, and after.
LEMMA CountNext ==
  ASSUME TarjanTyped, NEW n \in Nodes, index[n] = 0,
         index' = [index EXCEPT ![n] = Cardinality(Numbered) + 1]
  PROVE  /\ Numbered' = Numbered \cup {n} /\ n \notin Numbered
         /\ Cardinality(Numbered') = Cardinality(Numbered) + 1
         /\ index' \in [Nodes -> Nat]
         /\ index'[n] = Cardinality(Numbered) + 1
         /\ \A x \in Nodes : x # n => index'[x] = index[x]
<1>1. Cardinality(Numbered) \in Nat /\ IsFiniteSet(Numbered)
  BY NumberedFinite
<1>2. /\ index' \in [Nodes -> Nat]
      /\ index'[n] = Cardinality(Numbered) + 1
      /\ \A x \in Nodes : x # n => index'[x] = index[x]
  BY <1>1 DEF TarjanTyped
<1>3. Cardinality(Numbered) + 1 # 0
  BY <1>1
<1>4. Numbered' = Numbered \cup {n} /\ n \notin Numbered
  BY <1>2, <1>3 DEF Numbered
<1>5. Cardinality(Numbered \cup {n}) = Cardinality(Numbered) + 1
  BY <1>1, <1>4, FS_AddElement
<1> QED
  BY <1>2, <1>4, <1>5

\* When the top frame moves on, what has been looked at is what was, and the callee it was at.
LEMMA LookedBefore ==
  ASSUME Typed, Len(stack') >= Len(stack), Len(stack') \in Nat,
         \A k \in 1..Len(stack) : /\ stack'[k].node = stack[k].node
                                  /\ k < Len(stack) => stack'[k].next = stack[k].next,
         stack # <<>> => stack'[Len(stack)].next = Top.next + 1
  PROVE  \A x \in Nodes : \A i \in 1..Len(callees[x]) :
           /\ \A k \in 1..Len(stack') : stack'[k].node = x => i < stack'[k].next
           /\ stack # <<>> => x # Top.node \/ i # Top.next
           => LookedAt(x, i)
<1>0. Len(stack) \in Nat
  BY DEF Typed
<1>1. PICK L \in Nat : L = Len(stack)
  BY ONLY <1>0
<1> SUFFICES ASSUME NEW x \in Nodes, NEW i \in 1..Len(callees[x]),
                    \A k \in 1..Len(stack') : stack'[k].node = x => i < stack'[k].next,
                    stack # <<>> => x # Top.node \/ i # Top.next
             PROVE  LookedAt(x, i)
  OBVIOUS
<1>2. ASSUME NEW k \in 1..L, stack[k].node = x
      PROVE  i < stack[k].next
  <2>1. k \in 1..Len(stack') /\ stack'[k].node = x
    BY <1>1, <1>2
  <2>2. i < stack'[k].next
    BY <2>1
  <2>3. CASE k < L
    BY <1>1, <2>2, <2>3
  <2>4. CASE k = L
    <3>1. stack # <<>> /\ Top = stack[k]
      BY <1>1, <2>4 DEF Top
    <3>2. i # Top.next /\ i < Top.next + 1
      BY <1>1, <1>2, <2>2, <2>4, <3>1
    <3>3. Top.next \in Nat
      BY <3>1, TopTyped DEF Searching
    <3>4. i \in Int
      OBVIOUS
    <3> QED
      BY ONLY <3>1, <3>2, <3>3, <3>4
  <2> QED
    BY <1>1, <2>3, <2>4
<1> QED
  BY <1>1, <1>2 DEF LookedAt

\* tarjanDFS begins on n, at the top of the recursion or from a frame that has moved on to it.
LEMMA BeginInv ==
  ASSUME Typed, TarjanInv, callees' = callees, NEW n \in Nodes, index[n] = 0,
         NEW frames \in Seq(Frames), Len(frames) = Len(stack),
         \A k \in 1..Len(stack) : /\ frames[k].node = stack[k].node
                                  /\ k < Len(stack) => frames[k].next = stack[k].next,
         stack # <<>> => /\ frames[Len(stack)].next = Top.next + 1
                         /\ Top.next \in 1..Len(callees[Top.node])
                         /\ callees[Top.node][Top.next] = n,
         Begin(n, frames)
  PROVE  TarjanInv'
<1>1. PICK c \in Nat : c = Cardinality(Numbered) + 1
  BY NumberedFinite
<1>2. PICK L \in Nat : L = Len(stack) /\ (L # 0 <=> stack # <<>>)
  BY DEF Typed
<1>3. /\ index' = [index EXCEPT ![n] = c] /\ low' = [low EXCEPT ![n] = c]
      /\ nodeStack' = Append(nodeStack, n) /\ onStack' = onStack \cup {n}
      /\ stack' = Append(frames, Frame(n)) /\ sccs' = sccs
  BY <1>1 DEF Begin, Numbered
<1>4. /\ TarjanTyped /\ StackSorted /\ PathOfCalls /\ LeadsUp /\ LeadsDown /\ LowIsReached
      /\ EdgesRight /\ SccsRight
  BY DEF TarjanInv
<1>5. /\ Numbered' = Numbered \cup {n} /\ n \notin Numbered
      /\ Cardinality(Numbered') = c
      /\ index' \in [Nodes -> Nat] /\ index'[n] = c
      /\ \A x \in Nodes : x # n => index'[x] = index[x]
  BY <1>1, <1>3, <1>4, CountNext
<1>6. low'[n] = c /\ low' \in [Nodes -> Nat] /\ \A x \in Nodes : x # n => low'[x] = low[x]
  BY <1>3, <1>4 DEF TarjanTyped
<1>7. \A x \in onStack : /\ x \in Nodes /\ x # n /\ index[x] \in Nat /\ index'[x] = index[x]
                         /\ low'[x] = low[x] /\ index[x] < c /\ low[x] <= index[x] /\ low[x] \in Nat
  <2>1. \A x \in Nodes : index[x] \in Nat /\ index[x] < c /\ low[x] <= index[x] /\ low[x] \in Nat
    BY <1>1, <1>4, NumberedFinite DEF TarjanTyped
  <2>2. onStack \subseteq Nodes /\ onStack \subseteq Numbered
    BY <1>4 DEF TarjanTyped, StackSorted
  <2> QED
    BY <1>5, <1>6, <2>1, <2>2
<1>8. /\ Len(stack') = L + 1 /\ stack'[L + 1] = Frame(n)
      /\ \A k \in 1..L : stack'[k] = frames[k]
  <2>1. Frame(n) \in Frames
    BY DEF Frame, Frames
  <2> QED
    BY <1>2, <1>3, <2>1
<1>9. /\ stack'[L + 1].node = n /\ stack'[L + 1].next = 1
      /\ \A k \in 1..L : stack'[k].node = stack[k].node /\ stack[k].node \in onStack
  BY <1>2, <1>4, <1>8 DEF Frame, PathOfCalls
<1>9a. PICK nd \in [1..L -> onStack] : \A k \in 1..L : nd[k] = stack[k].node
  <2>1. [k \in 1..L |-> stack[k].node] \in [1..L -> onStack]
    BY <1>9
  <2> QED
    BY <2>1
<1>9b. \A k \in 1..L : /\ stack[k].node = nd[k] /\ stack'[k].node = nd[k] /\ nd[k] \in onStack
                        /\ index'[nd[k]] = index[nd[k]] /\ low'[nd[k]] = low[nd[k]]
                        /\ index[nd[k]] \in Nat /\ low[nd[k]] \in Nat /\ index[nd[k]] < c
                        /\ low[nd[k]] < c
  <2>1. \A k \in 1..L : nd[k] \in onStack
    OBVIOUS
  <2>2. \A x \in onStack : low[x] < c
    BY <1>7
  <2> QED
    BY ONLY <1>7, <1>9, <1>9a, <2>1, <2>2
<1>9c. \A k, l \in 1..L : k < l => index[nd[k]] < index[nd[l]]
  <2>1. \A k, l \in 1..L : k < l => index[stack[k].node] < index[stack[l].node]
    BY ONLY <1>2, <1>4 DEF PathOfCalls
  <2> QED
    BY ONLY <1>9b, <2>1
<1>9d. \A k \in 1..L : \A x \in onStack : index[nd[k]] <= index[x] => x \in Reached({nd[k]})
  <2>1. \A k \in 1..L : \A x \in onStack :
          index[stack[k].node] <= index[x] => x \in Reached({stack[k].node})
    BY ONLY <1>2, <1>4 DEF LeadsUp
  <2> QED
    BY ONLY <1>9b, <2>1
<1>9e. \A x \in onStack : \E k \in 1..L : index[nd[k]] <= index[x] /\ nd[k] \in Reached({x})
  <2>1. \A x \in onStack : \E k \in 1..L :
          index[stack[k].node] <= index[x] /\ stack[k].node \in Reached({x})
    BY ONLY <1>2, <1>4 DEF LeadsDown
  <2> QED
    BY ONLY <1>9b, <2>1
<1>9f. \A k \in 1..L : \E m \in onStack : index[m] = low[nd[k]] /\ m \in Reached({nd[k]})
  <2>1. ASSUME NEW k \in 1..L
        PROVE  \E m \in onStack : index[m] = low[nd[k]] /\ m \in Reached({nd[k]})
    <3>1. PICK m \in onStack : index[m] = low[stack[k].node] /\ m \in Reached({stack[k].node})
      BY <1>2, <1>4 DEF LowIsReached
    <3>2. stack[k].node = nd[k]
      BY <1>9b
    <3> QED
      BY <3>1, <3>2
  <2> QED
    BY <2>1
<1>9g. \A x \in onStack : index'[x] = index[x] /\ index[x] \in Nat /\ index[x] < c
  BY ONLY <1>7
<1>10. \A k \in 1..Len(stack') : k \in 1..L \/ k = L + 1
  BY <1>8
<1>11. /\ \A m, k : Calls(m, k)' <=> Calls(m, k)
       /\ \A S : (Closed(S)' <=> Closed(S)) /\ Reached(S)' = Reached(S)
       /\ \A m, k : Together(m, k)' <=> Together(m, k)
  BY SameCalls
<1>12. L # 0 => /\ Top = stack[L] /\ Top.node \in onStack /\ Top.node \in Nodes
                /\ Calls(Top.node, n) /\ L \in 1..L
  <2>1. L # 0 => L \in 1..L /\ Top = stack[L]
    BY <1>2 DEF Top
  <2>2. L # 0 => Top.node \in onStack
    BY <1>9, <2>1
  <2>3. L # 0 => Calls(Top.node, n)
    BY <1>2 DEF Calls
  <2> QED
    BY <1>7, <2>1, <2>2, <2>3
<1>13. \A k \in 1..L : index[stack[k].node] <= index[Top.node]
  BY <1>2, <1>4, <1>7, <1>9, <1>12 DEF PathOfCalls
<1>14. n \notin onStack /\ n \notin Finished /\ Finished' = Finished
  BY <1>3, <1>4, <1>5 DEF StackSorted, Finished
<1>t. TarjanTyped'
  <2>1. nodeStack' \in Seq(Nodes) /\ onStack' \subseteq Nodes /\ sccs' \subseteq SUBSET Nodes
    BY <1>3, <1>4 DEF TarjanTyped
  <2>2. ASSUME NEW m \in Nodes
        PROVE  index'[m] <= c /\ low'[m] <= index'[m]
    <3>1. CASE m = n
      BY <1>5, <1>6, <3>1
    <3>2. CASE m # n
      BY <1>1, <1>4, <1>5, <1>6, <3>2, NumberedFinite DEF TarjanTyped
    <3> QED
      BY <3>1, <3>2
  <2> QED
    BY <1>5, <1>6, <2>1, <2>2 DEF TarjanTyped
<1>s. StackSorted'
  <2>1. PICK N \in Nat : N = Len(nodeStack)
    BY <1>4 DEF TarjanTyped
  <2>2. /\ Len(nodeStack') = N + 1 /\ nodeStack'[N + 1] = n
        /\ \A i \in 1..N : nodeStack'[i] = nodeStack[i] /\ nodeStack[i] \in onStack
    BY <1>3, <1>4, <2>1 DEF TarjanTyped, StackSorted
  <2>3. onStack' = {nodeStack'[i] : i \in 1..Len(nodeStack')}
    <3>1. onStack = {nodeStack[i] : i \in 1..N}
      BY <1>4, <2>1 DEF StackSorted
    <3>2. \A i \in 1..(N + 1) : i \in 1..N \/ i = N + 1
      BY <2>1
    <3>3. N + 1 \in 1..(N + 1) /\ 1..N \subseteq 1..(N + 1)
      BY <2>1
    <3>4. \A x \in onStack' : \E i \in 1..(N + 1) : x = nodeStack'[i]
      BY <1>3, <2>2, <3>1, <3>3
    <3>5. \A i \in 1..(N + 1) : nodeStack'[i] \in onStack'
      BY <1>3, <2>2, <3>2
    <3> QED
      BY <2>2, <3>4, <3>5
  <2>4. ASSUME NEW i \in 1..Len(nodeStack'), NEW j \in 1..Len(nodeStack'), i < j
        PROVE  index'[nodeStack'[i]] < index'[nodeStack'[j]]
    <3>1. i \in 1..N /\ (j \in 1..N \/ j = N + 1)
      BY <2>1, <2>2, <2>4
    <3>2. CASE j \in 1..N
      <4>1. index[nodeStack[i]] < index[nodeStack[j]]
        BY <1>4, <2>1, <2>4, <3>1, <3>2 DEF StackSorted
      <4>2. nodeStack[i] \in onStack /\ nodeStack[j] \in onStack
        BY <2>2, <3>1, <3>2
      <4>3. index'[nodeStack[i]] < index'[nodeStack[j]]
        BY ONLY <1>9g, <4>1, <4>2
      <4> QED
        BY <2>2, <3>1, <3>2, <4>3
    <3>3. CASE j = N + 1
      <4>1. nodeStack[i] \in onStack
        BY <2>2, <3>1
      <4>2. index'[nodeStack[i]] < index'[n]
        BY ONLY <1>5, <1>9g, <4>1
      <4> QED
        BY <2>2, <3>1, <3>3, <4>2
    <3> QED
      BY <3>1, <3>2, <3>3
  <2> QED
    BY <1>3, <1>4, <1>5, <1>14, <2>3, <2>4 DEF StackSorted
<1>p. PathOfCalls'
  <2>1. ASSUME NEW k \in 1..Len(stack')
        PROVE  /\ stack'[k].node \in onStack'
               /\ \A l \in 1..Len(stack') : k < l => index'[stack'[k].node] < index'[stack'[l].node]
               /\ k < Len(stack') => Calls(stack'[k].node, stack'[k + 1].node)
    <3>1. CASE k = L + 1
      BY <1>2, <1>3, <1>8, <1>9, <3>1
    <3>2. CASE k \in 1..L
      <4>1. ASSUME NEW l \in 1..Len(stack'), k < l
            PROVE  index'[stack'[k].node] < index'[stack'[l].node]
        <5>1. CASE l = L + 1
          <6>1. index'[nd[k]] < index'[n]
            BY ONLY <1>5, <1>9b, <3>2
          <6> QED
            BY <1>9, <1>9b, <3>2, <5>1, <6>1
        <5>2. CASE l \in 1..L
          <6>1. index'[nd[k]] < index'[nd[l]]
            BY ONLY <1>9b, <1>9c, <3>2, <4>1, <5>2
          <6> QED
            BY <1>9b, <3>2, <5>2, <6>1
        <5> QED
          BY <1>10, <5>1, <5>2
      <4>2. Calls(stack'[k].node, stack'[k + 1].node)
        <5>1. CASE k = L
          BY <1>2, <1>9, <1>12, <3>2, <5>1
        <5>2. CASE k # L
          <6>1. k < L /\ k + 1 \in 1..L
            BY <1>2, <3>2, <5>2
          <6> QED
            BY <1>2, <1>4, <1>9, <3>2, <6>1 DEF PathOfCalls
        <5> QED
          BY <5>1, <5>2
      <4> QED
        BY <1>3, <1>9, <3>2, <4>1, <4>2
    <3> QED
      BY <1>10, <3>1, <3>2
  <2> QED
    BY <1>11, <2>1 DEF PathOfCalls
<1>u. LeadsUp'
  <2>1. ASSUME NEW k \in 1..Len(stack'), NEW x \in onStack', index'[stack'[k].node] <= index'[x]
        PROVE  x \in Reached({stack'[k].node})
    <3>1. CASE k = L + 1
      <4>1. x = n
        BY <1>1, <1>3, <1>5, <1>7, <1>9, <2>1, <3>1
      <4> QED
        BY <1>9, <3>1, <4>1, ReachedStart
    <3>2. CASE k \in 1..L /\ x \in onStack
      <4>1. index'[nd[k]] <= index'[x]
        BY <1>9b, <2>1, <3>2
      <4>2. index[nd[k]] <= index[x]
        BY ONLY <1>9b, <1>9g, <3>2, <4>1
      <4> QED
        BY <1>9b, <1>9d, <3>2, <4>2
    <3>3. CASE k \in 1..L /\ x = n
      <4>1. stack[k].node \in Nodes /\ Top.node \in Reached({stack[k].node})
        <5>1. L # 0
          BY <1>2, <3>3
        <5>2. index[nd[k]] <= index[Top.node] /\ Top.node \in onStack
          BY <1>9b, <1>12, <1>13, <3>3, <5>1
        <5>3. Top.node \in Reached({nd[k]}) /\ nd[k] \in Nodes
          BY <1>7, <1>9d, <3>3, <5>2
        <5> QED
          BY <1>9b, <3>3, <5>3
      <4>2. Calls(Top.node, n)
        BY <1>2, <1>12, <3>3
      <4> QED
        BY <1>9, <3>3, <4>1, <4>2, ReachedClosed
    <3> QED
      BY <1>3, <1>10, <3>1, <3>2, <3>3
  <2> QED
    BY <1>11, <2>1 DEF LeadsUp
<1>d. LeadsDown'
  <2>1. ASSUME NEW x \in onStack'
        PROVE  \E k \in 1..Len(stack') : /\ index'[stack'[k].node] <= index'[x]
                                         /\ stack'[k].node \in Reached({x})
    <3>1. CASE x \in onStack
      <4>1. PICK k \in 1..L : index[nd[k]] <= index[x] /\ nd[k] \in Reached({x})
        BY <1>9e, <3>1
      <4>2. k \in 1..Len(stack') /\ stack'[k].node = nd[k]
        BY <1>2, <1>8, <1>9b
      <4>3. index'[nd[k]] <= index'[x]
        BY ONLY <1>9b, <1>9g, <3>1, <4>1
      <4> QED
        BY <4>1, <4>2, <4>3
    <3>2. CASE x = n
      <4>1. L + 1 \in 1..Len(stack')
        BY <1>2, <1>8
      <4>2. n \in Reached({n}) /\ index'[n] <= index'[n]
        BY <1>1, <1>5, ReachedStart
      <4> QED
        BY <1>9, <3>2, <4>1, <4>2
    <3> QED
      BY <1>3, <3>1, <3>2
  <2> QED
    BY <1>11, <2>1 DEF LeadsDown
<1>l. LowIsReached'
  <2>1. ASSUME NEW k \in 1..Len(stack')
        PROVE  \E m \in onStack' : index'[m] = low'[stack'[k].node] /\ m \in Reached({stack'[k].node})
    <3>1. CASE k \in 1..L
      <4>1. PICK m \in onStack : index[m] = low[nd[k]] /\ m \in Reached({nd[k]})
        BY <1>9f, <3>1
      <4>2. index'[m] = low'[nd[k]]
        BY ONLY <1>9b, <1>9g, <3>1, <4>1
      <4> QED
        BY <1>3, <1>9b, <3>1, <4>1, <4>2
    <3>2. CASE k = L + 1
      <4>1. n \in Reached({n}) /\ n \in onStack' /\ index'[n] = low'[n]
        BY <1>3, <1>5, <1>6, ReachedStart
      <4> QED
        BY <1>9, <3>2, <4>1
    <3> QED
      BY <1>10, <3>1, <3>2
  <2> QED
    BY <1>11, <2>1 DEF LowIsReached
<1>e. EdgesRight'
  <2>1. ASSUME NEW x \in onStack', NEW i \in 1..Len(callees[x]), LookedAt(x, i)'
        PROVE  /\ callees[x][i] \in Numbered'
               /\ callees[x][i] \in onStack' =>
                    \A k \in 1..Len(stack') :
                      /\ index'[stack'[k].node] <= index'[x]
                      /\ \A l \in 1..Len(stack') : k < l => index'[x] < index'[stack'[l].node]
                      => low'[stack'[k].node] <= index'[callees[x][i]]
    <3>1. x \in onStack
      <4>1. ASSUME x = n PROVE FALSE
        <5>1. L + 1 \in 1..Len(stack')
          BY <1>2, <1>8
        <5>2. i < 1
          BY <1>9, <2>1, <4>1, <5>1 DEF LookedAt
        <5> QED
          BY <2>1, <5>2
      <4> QED
        BY <1>3, <4>1
    <3>2. CASE L # 0 /\ x = Top.node /\ i = Top.next
      <4>1. callees[x][i] = n
        BY <1>2, <3>2
      <4>2. ASSUME NEW k \in 1..Len(stack'), index'[stack'[k].node] <= index'[x]
            PROVE  low'[stack'[k].node] <= index'[n]
        <5>1. k \in 1..L
          <6>1. k # L + 1
            BY <1>5, <1>9, <1>9g, <3>1, <4>2
          <6> QED
            BY <1>10, <6>1
        <5>2. low'[nd[k]] <= index'[n]
          <6>1. low'[nd[k]] = low[nd[k]] /\ low[nd[k]] \in Nat /\ low[nd[k]] < c /\ index'[n] = c
            BY <1>5, <1>9b, <5>1
          <6> QED
            BY <6>1
        <5> QED
          BY <1>9b, <5>1, <5>2
      <4> QED
        BY <1>5, <4>1, <4>2
    <3>3. CASE ~(L # 0 /\ x = Top.node /\ i = Top.next)
      <4>1. LookedAt(x, i)
        <5>1. /\ Len(stack') >= Len(stack) /\ Len(stack') \in Nat
              /\ \A k \in 1..Len(stack) : /\ stack'[k].node = stack[k].node
                                          /\ k < Len(stack) => stack'[k].next = stack[k].next
              /\ stack # <<>> => stack'[Len(stack)].next = Top.next + 1
          BY <1>2, <1>8, <1>9, <1>12
        <5>2. stack # <<>> => x # Top.node \/ i # Top.next
          BY <1>2, <3>3
        <5>3. \A k \in 1..Len(stack') : stack'[k].node = x => i < stack'[k].next
          BY <2>1 DEF LookedAt
        <5>4. \A y \in Nodes : \A j \in 1..Len(callees[y]) :
                /\ \A k \in 1..Len(stack') : stack'[k].node = y => j < stack'[k].next
                /\ stack # <<>> => y # Top.node \/ j # Top.next
                => LookedAt(y, j)
          <6>1. Typed
            OBVIOUS
          <6> QED
            BY ONLY <5>1, <6>1, LookedBefore
        <5>5. x \in Nodes
          BY <1>7, <3>1
        <5> QED
          BY <5>2, <5>3, <5>4, <5>5
      <4>2. callees[x][i] \in Numbered /\ callees[x][i] # n
        BY <1>4, <1>5, <3>1, <4>1 DEF EdgesRight
      <4>3. ASSUME callees[x][i] \in onStack, NEW k \in 1..Len(stack'),
                   index'[stack'[k].node] <= index'[x],
                   \A l \in 1..Len(stack') : k < l => index'[x] < index'[stack'[l].node]
            PROVE  low'[stack'[k].node] <= index'[callees[x][i]]
        <5>1. k \in 1..L
          BY <1>5, <1>7, <1>9, <1>10, <3>1, <4>3
        <5>2. index[stack[k].node] <= index[x]
          <6>1. index'[nd[k]] <= index'[x]
            BY <1>9b, <4>3, <5>1
          <6>2. index[nd[k]] <= index[x]
            BY ONLY <1>9b, <1>9g, <3>1, <5>1, <6>1
          <6> QED
            BY <1>9b, <5>1, <6>2
        <5>3. ASSUME NEW l \in 1..L, k < l
              PROVE  index[x] < index[stack[l].node]
          <6>1. l \in 1..Len(stack')
            BY <1>2, <1>8
          <6> QED
            BY <1>7, <1>9, <3>1, <4>3, <5>3, <6>1
        <5>4. low[stack[k].node] <= index[callees[x][i]]
          BY <1>2, <1>4, <3>1, <4>1, <4>3, <5>1, <5>2, <5>3 DEF EdgesRight
        <5>5. low[nd[k]] <= index[callees[x][i]]
          BY <1>9b, <5>1, <5>4
        <5>6. low'[nd[k]] <= index'[callees[x][i]]
          BY ONLY <1>9b, <1>9g, <4>3, <5>1, <5>5
        <5> QED
          BY <1>9b, <5>1, <5>6
      <4> QED
        BY <1>3, <1>5, <4>2, <4>3
    <3> QED
      BY <3>2, <3>3
  <2> QED
    BY <2>1 DEF EdgesRight
<1>c. SccsRight'
  BY <1>3, <1>4, <1>11 DEF SccsRight, Finished
<1> QED
  BY <1>t, <1>s, <1>p, <1>u, <1>d, <1>l, <1>e, <1>c DEF TarjanInv

\* A callee that has begun: the lowlink is lowered to its index when it is on nodeStack.
LEMMA BackEdgeInv ==
  ASSUME Typed, TarjanInv, callees' = callees, MoreCallees, index[Callee] # 0,
         low' = IF Callee \in onStack
                THEN [low EXCEPT ![Top.node] = Least(@, index[Callee])] ELSE low,
         stack' = Advanced,
         index' = index, onStack' = onStack, nodeStack' = nodeStack, sccs' = sccs
  PROVE  TarjanInv'
<1>1. /\ TarjanTyped /\ StackSorted /\ PathOfCalls /\ LeadsUp /\ LeadsDown /\ LowIsReached
      /\ EdgesRight /\ SccsRight
  BY DEF TarjanInv
<1>2. Searching /\ Len(stack) \in Nat \ {0} /\ Top.node \in Nodes
  BY TopTyped DEF MoreCallees
<1>3. PICK L \in Nat : L = Len(stack) /\ L # 0
  BY ONLY <1>2
<1>4. /\ Callee \in Nodes /\ Top.next \in 1..Len(callees[Top.node]) /\ Calls(Top.node, Callee)
      /\ callees[Top.node][Top.next] = Callee /\ Top = stack[L]
  BY <1>3, CalleeTyped DEF Callee, Top
<1>5. /\ Len(stack') = L
      /\ \A k \in 1..L : /\ stack'[k].node = stack[k].node
                         /\ stack[k].node \in onStack
                         /\ k < L => stack'[k].next = stack[k].next
      /\ stack'[L].next = Top.next + 1
  BY <1>1, <1>2, <1>3, AdvancedTyped DEF PathOfCalls
<1>6. PICK nd \in [1..L -> onStack] : \A k \in 1..L : nd[k] = stack[k].node
  <2>1. [k \in 1..L |-> stack[k].node] \in [1..L -> onStack]
    BY <1>5
  <2> QED
    BY <2>1
<1>7. /\ nd[L] = Top.node /\ L \in 1..L
      /\ \A k \in 1..L : /\ stack[k].node = nd[k] /\ stack'[k].node = nd[k]
                         /\ nd[k] \in onStack /\ nd[k] \in Nodes
                         /\ index[nd[k]] \in Nat /\ low[nd[k]] \in Nat
  <2>1. L \in 1..L
    BY <1>3
  <2>2. \A x \in onStack : x \in Nodes /\ index[x] \in Nat /\ low[x] \in Nat
    BY <1>1 DEF TarjanTyped
  <2> QED
    BY <1>4, <1>5, <1>6, <2>1, <2>2
<1>8. \A k, l \in 1..L : k < l => index[nd[k]] < index[nd[l]]
  BY <1>1, <1>3, <1>7 DEF PathOfCalls
<1>9. \A k \in 1..L : k # L => nd[k] # nd[L] /\ index[nd[k]] < index[nd[L]]
  BY <1>3, <1>7, <1>8
<1>10. PICK w \in Nat : /\ low' = [low EXCEPT ![nd[L]] = w] /\ w <= low[nd[L]]
                        /\ w = low[nd[L]] \/ (Callee \in onStack /\ w = index[Callee])
                        /\ Callee \in onStack => w <= index[Callee]
  <2>1. index[Callee] \in Nat /\ low \in [Nodes -> Nat] /\ low[nd[L]] \in Nat
    BY <1>1, <1>4, <1>7 DEF TarjanTyped
  <2>2. CASE Callee \in onStack
    <3>1. low' = [low EXCEPT ![nd[L]] = Least(low[nd[L]], index[Callee])]
      BY <1>7, <2>2
    <3>2. /\ Least(low[nd[L]], index[Callee]) \in Nat
          /\ Least(low[nd[L]], index[Callee]) <= low[nd[L]]
          /\ Least(low[nd[L]], index[Callee]) <= index[Callee]
          /\ \/ Least(low[nd[L]], index[Callee]) = low[nd[L]]
             \/ Least(low[nd[L]], index[Callee]) = index[Callee]
      BY <2>1 DEF Least
    <3> QED
      BY <2>2, <3>1, <3>2
  <2>3. CASE Callee \notin onStack
    <3>1. low' = [low EXCEPT ![nd[L]] = low[nd[L]]]
      BY <2>1, <2>3
    <3> QED
      BY <2>1, <2>3, <3>1
  <2> QED
    BY <2>2, <2>3
<1>11. /\ low' \in [Nodes -> Nat] /\ low'[nd[L]] = w
       /\ \A x \in Nodes : low'[x] <= low[x] /\ (x # nd[L] => low'[x] = low[x])
  <2>1. low \in [Nodes -> Nat] /\ nd[L] \in Nodes
    BY <1>1, <1>7 DEF TarjanTyped
  <2>2. low' \in [Nodes -> Nat] /\ low'[nd[L]] = w
    BY <1>10, <2>1
  <2>3. \A x \in Nodes : x # nd[L] => low'[x] = low[x]
    BY <1>10, <2>1
  <2>4. ASSUME NEW x \in Nodes PROVE low'[x] <= low[x]
    <3>1. CASE x = nd[L]
      BY <1>10, <2>2, <3>1
    <3>2. CASE x # nd[L]
      <4>1. low'[x] = low[x] /\ low[x] \in Nat
        BY <2>1, <2>3, <3>2
      <4> QED
        BY <4>1
    <3> QED
      BY <3>1, <3>2
  <2> QED
    BY <2>2, <2>3, <2>4
<1>12. /\ \A m, k : Calls(m, k)' <=> Calls(m, k)
       /\ \A S : (Closed(S)' <=> Closed(S)) /\ Reached(S)' = Reached(S)
       /\ \A m, k : Together(m, k)' <=> Together(m, k)
  BY SameCalls
<1>13. Numbered' = Numbered /\ Finished' = Finished /\ Callee \in Numbered
  BY <1>4 DEF Numbered, Finished
<1>t. TarjanTyped'
  <2>1. ASSUME NEW m \in Nodes
        PROVE  index'[m] <= Cardinality(Numbered)' /\ low'[m] <= index'[m]
    <3>1. /\ index[m] <= Cardinality(Numbered) /\ low[m] <= index[m]
          /\ low[m] \in Nat /\ index[m] \in Nat
      BY <1>1 DEF TarjanTyped
    <3>2. low'[m] <= low[m] /\ low'[m] \in Nat
      BY <1>11
    <3> QED
      BY <1>13, <3>1, <3>2
  <2> QED
    BY <1>1, <1>11, <2>1 DEF TarjanTyped
<1>s. StackSorted'
  BY <1>1, <1>13 DEF StackSorted
<1>p. PathOfCalls'
  <2>1. \A k \in 1..L : k < L => Calls(nd[k], nd[k + 1])
    <3>1. ASSUME NEW k \in 1..L, k < L PROVE Calls(nd[k], nd[k + 1])
      <4>1. k + 1 \in 1..L
        BY <1>3, <3>1
      <4> QED
        BY <1>1, <1>3, <1>7, <3>1, <4>1 DEF PathOfCalls
    <3> QED
      BY <3>1
  <2>2. ASSUME NEW k \in 1..L, k < L PROVE Calls(stack'[k].node, stack'[k + 1].node)
    <3>1. k + 1 \in 1..L
      BY <1>3, <2>2
    <3> QED
      BY <1>7, <2>1, <2>2, <3>1
  <2>3. \A k, l \in 1..L : k < l => index'[stack'[k].node] < index'[stack'[l].node]
    BY <1>7, <1>8
  <2> QED
    BY <1>5, <1>7, <1>12, <2>2, <2>3 DEF PathOfCalls
<1>u. LeadsUp'
  BY <1>1, <1>3, <1>5, <1>7, <1>12 DEF LeadsUp
<1>d. LeadsDown'
  <2>1. \A x \in onStack : \E k \in 1..L : index[nd[k]] <= index[x] /\ nd[k] \in Reached({x})
    BY <1>1, <1>3, <1>7 DEF LeadsDown
  <2> QED
    BY <1>5, <1>7, <1>12, <2>1 DEF LeadsDown
<1>l. LowIsReached'
  <2>1. ASSUME NEW k \in 1..L
        PROVE  \E m \in onStack : index[m] = low'[nd[k]] /\ m \in Reached({nd[k]})
    <3>1. PICK m \in onStack : index[m] = low[nd[k]] /\ m \in Reached({nd[k]})
      <4>1. PICK m \in onStack : index[m] = low[stack[k].node] /\ m \in Reached({stack[k].node})
        BY <1>1, <1>3 DEF LowIsReached
      <4>2. stack[k].node = nd[k]
        BY <1>7
      <4> QED
        BY <4>1, <4>2
    <3>2. CASE k # L \/ w = low[nd[L]]
      <4>1. low'[nd[k]] = low[nd[k]]
        BY <1>7, <1>9, <1>11, <3>2
      <4> QED
        BY <3>1, <4>1
    <3>3. CASE k = L /\ Callee \in onStack /\ w = index[Callee]
      <4>1. Calls(nd[L], Callee) /\ nd[L] \in Nodes
        BY <1>4, <1>7
      <4>2. Callee \in Reached({nd[L]})
        BY <1>4, <4>1, ReachedStart, ReachedClosed
      <4> QED
        BY <1>11, <3>3, <4>2
    <3> QED
      BY <1>10, <3>2, <3>3
  <2>2. ASSUME NEW k \in 1..Len(stack')
        PROVE  \E m \in onStack' : index'[m] = low'[stack'[k].node] /\ m \in Reached({stack'[k].node})
    <3>1. k \in 1..L /\ stack'[k].node = nd[k]
      BY <1>5, <1>7
    <3>2. PICK m \in onStack : index[m] = low'[nd[k]] /\ m \in Reached({nd[k]})
      BY <2>1, <3>1
    <3> QED
      BY <3>1, <3>2
  <2> QED
    BY <1>12, <2>2 DEF LowIsReached
<1>e. EdgesRight'
  <2>1. ASSUME NEW x \in onStack, NEW i \in 1..Len(callees[x]), LookedAt(x, i)'
        PROVE  /\ callees[x][i] \in Numbered
               /\ callees[x][i] \in onStack =>
                    \A k \in 1..L :
                      /\ index[nd[k]] <= index[x]
                      /\ \A l \in 1..L : k < l => index[x] < index[nd[l]]
                      => low'[nd[k]] <= index[callees[x][i]]
    <3>1. CASE x = nd[L] /\ i = Top.next
      <4>1. callees[x][i] = Callee
        BY <1>4, <1>7, <3>1
      <4>2. ASSUME Callee \in onStack, NEW k \in 1..L,
                   \A l \in 1..L : k < l => index[x] < index[nd[l]]
            PROVE  low'[nd[k]] <= index[Callee]
        <5>1. k = L
          <6>1. ~(k < L)
            BY <1>7, <3>1, <4>2
          <6> QED
            BY <1>3, <6>1
        <5> QED
          BY <1>10, <1>11, <4>2, <5>1
      <4> QED
        BY <1>13, <4>1, <4>2
    <3>2. CASE ~(x = nd[L] /\ i = Top.next)
      <4>1. LookedAt(x, i)
        <5>1. /\ Len(stack') >= Len(stack) /\ Len(stack') \in Nat
              /\ \A k \in 1..Len(stack) : /\ stack'[k].node = stack[k].node
                                          /\ k < Len(stack) => stack'[k].next = stack[k].next
              /\ stack # <<>> => stack'[Len(stack)].next = Top.next + 1
          BY <1>3, <1>5
        <5>2. stack # <<>> => x # Top.node \/ i # Top.next
          BY <1>7, <3>2
        <5>3. \A k \in 1..Len(stack') : stack'[k].node = x => i < stack'[k].next
          BY <2>1 DEF LookedAt
        <5>4. \A y \in Nodes : \A j \in 1..Len(callees[y]) :
                /\ \A k \in 1..Len(stack') : stack'[k].node = y => j < stack'[k].next
                /\ stack # <<>> => y # Top.node \/ j # Top.next
                => LookedAt(y, j)
          BY <5>1, LookedBefore
        <5>5. x \in Nodes
          BY <1>1 DEF TarjanTyped
        <5> QED
          BY <5>2, <5>3, <5>4, <5>5
      <4>2. callees[x][i] \in Numbered
        BY <1>1, <4>1 DEF EdgesRight
      <4>3. ASSUME callees[x][i] \in onStack, NEW k \in 1..L, index[nd[k]] <= index[x],
                   \A l \in 1..L : k < l => index[x] < index[nd[l]]
            PROVE  low'[nd[k]] <= index[callees[x][i]]
        <5>1. /\ index[stack[k].node] <= index[x]
              /\ \A l \in 1..Len(stack) : k < l => index[x] < index[stack[l].node]
          BY <1>3, <1>7, <4>3
        <5>2. low[nd[k]] <= index[callees[x][i]]
          BY <1>1, <1>3, <1>7, <4>1, <4>3, <5>1 DEF EdgesRight
        <5>3. /\ low'[nd[k]] <= low[nd[k]] /\ low'[nd[k]] \in Nat /\ low[nd[k]] \in Nat
              /\ index[callees[x][i]] \in Nat
          BY <1>1, <1>7, <1>11, <4>3 DEF TarjanTyped
        <5> QED
          BY <5>2, <5>3
      <4> QED
        BY <4>2, <4>3
    <3> QED
      BY <3>1, <3>2
  <2>2. ASSUME NEW x \in onStack, NEW i \in 1..Len(callees[x]), LookedAt(x, i)',
               callees[x][i] \in onStack, NEW k \in 1..Len(stack'),
               index[stack'[k].node] <= index[x],
               \A l \in 1..Len(stack') : k < l => index[x] < index[stack'[l].node]
        PROVE  low'[stack'[k].node] <= index[callees[x][i]]
    <3>1. /\ k \in 1..L /\ index[nd[k]] <= index[x]
          /\ \A l \in 1..L : k < l => index[x] < index[nd[l]]
      BY <1>5, <1>7, <2>2
    <3>2. low'[nd[k]] <= index[callees[x][i]]
      BY <2>1, <2>2, <3>1
    <3> QED
      BY <1>7, <3>1, <3>2
  <2>3. \A x \in onStack : \A i \in 1..Len(callees[x]) : LookedAt(x, i)' => callees[x][i] \in Numbered
    BY <2>1
  <2> QED
    BY <1>13, <2>2, <2>3 DEF EdgesRight
<1>c. SccsRight'
  BY <1>1, <1>12, <1>13 DEF SccsRight
<1> QED
  BY <1>t, <1>s, <1>p, <1>u, <1>d, <1>l, <1>e, <1>c DEF TarjanInv

\* The nodes of the frames, by their depth.
LEMMA OpenNodes ==
  ASSUME Typed, TarjanInv, Searching
  PROVE  \E L \in Nat : \E nd \in [1..L -> onStack] :
           /\ L = Len(stack) /\ L \in 1..L /\ nd[L] = Top.node
           /\ \A k \in 1..L : /\ stack[k].node = nd[k] /\ nd[k] \in onStack /\ nd[k] \in Nodes
                              /\ index[nd[k]] \in Nat /\ low[nd[k]] \in Nat
                              /\ low[nd[k]] <= index[nd[k]]
           /\ \A k, l \in 1..L : k < l => index[nd[k]] < index[nd[l]]
           /\ \A k \in 1..L : k < L => Calls(nd[k], nd[k + 1])
<1>1. TarjanTyped /\ PathOfCalls
  BY DEF TarjanInv
<1>2. Len(stack) \in Nat \ {0}
  BY TopTyped
<1>3. PICK L \in Nat : L = Len(stack) /\ L \in 1..L
  BY <1>2
<1>4. PICK nd \in [1..L -> onStack] : \A k \in 1..L : nd[k] = stack[k].node
  <2>1. [k \in 1..L |-> stack[k].node] \in [1..L -> onStack]
    BY <1>1, <1>3 DEF PathOfCalls
  <2> QED
    BY <2>1
<1>5. \A k \in 1..L : /\ stack[k].node = nd[k] /\ nd[k] \in onStack /\ nd[k] \in Nodes
                      /\ index[nd[k]] \in Nat /\ low[nd[k]] \in Nat
                      /\ low[nd[k]] <= index[nd[k]]
  <2>1. \A x \in onStack : x \in Nodes /\ index[x] \in Nat /\ low[x] \in Nat /\ low[x] <= index[x]
    BY <1>1 DEF TarjanTyped
  <2> QED
    BY <1>4, <2>1
<1>6. nd[L] = Top.node
  BY <1>3, <1>5 DEF Top
<1>7. \A k, l \in 1..L : k < l => index[nd[k]] < index[nd[l]]
  BY <1>1, <1>3, <1>5 DEF PathOfCalls
<1>8. ASSUME NEW k \in 1..L, k < L
      PROVE  Calls(nd[k], nd[k + 1])
  <2>1. k + 1 \in 1..L
    BY <1>3, <1>8
  <2> QED
    BY <1>1, <1>3, <1>5, <1>8, <2>1 DEF PathOfCalls
<1> QED
  BY <1>3, <1>5, <1>6, <1>7, <1>8

\* Node k of the recursion leads up and down, and to its lowlink.
LEMMA OpenLeads ==
  ASSUME TarjanInv, NEW L \in Nat, L = Len(stack), NEW nd \in [1..L -> onStack],
         \A k \in 1..L : stack[k].node = nd[k]
  PROVE  /\ \A k \in 1..L : \A x \in onStack : index[nd[k]] <= index[x] => x \in Reached({nd[k]})
         /\ \A x \in onStack : \E k \in 1..L : index[nd[k]] <= index[x] /\ nd[k] \in Reached({x})
         /\ \A k \in 1..L : \E m \in onStack : index[m] = low[nd[k]] /\ m \in Reached({nd[k]})
<1>1. LeadsUp /\ LeadsDown /\ LowIsReached
  BY DEF TarjanInv
<1>2. \A k \in 1..L : \A x \in onStack : index[nd[k]] <= index[x] => x \in Reached({nd[k]})
  BY <1>1 DEF LeadsUp
<1>3. \A x \in onStack : \E k \in 1..L : index[nd[k]] <= index[x] /\ nd[k] \in Reached({x})
  BY <1>1 DEF LeadsDown
<1>4. ASSUME NEW k \in 1..L
      PROVE  \E m \in onStack : index[m] = low[nd[k]] /\ m \in Reached({nd[k]})
  <2>1. PICK m \in onStack : index[m] = low[stack[k].node] /\ m \in Reached({stack[k].node})
    BY <1>1 DEF LowIsReached
  <2>2. stack[k].node = nd[k]
    OBVIOUS
  <2> QED
    BY <2>1, <2>2
<1> QED
  BY <1>2, <1>3, <1>4

\* What was looked at in the frames below the top still is, and was.
LEMMA LookedBelow ==
  ASSUME Typed, Searching, NoMore, callees' = callees, stack' = Popped
  PROVE  /\ \A i \in 1..Len(callees[Top.node]) : i < Top.next
         /\ \A x \in Nodes : \A i \in 1..Len(callees[x]) :
              x # Top.node /\ LookedAt(x, i)' => LookedAt(x, i)
<1>1. /\ Len(stack) \in Nat \ {0} /\ Len(stack') = Len(stack) - 1
      /\ \A k \in 1..Len(stack') : stack'[k] = stack[k]
      /\ Top.next \in Nat \ {0} /\ Top.node \in Nodes
  BY TopTyped, PoppedTyped
<1>2. Len(callees[Top.node]) \in Nat
  BY <1>1 DEF Typed
<1>3. ASSUME NEW x \in Nodes, NEW i \in 1..Len(callees[x]), x # Top.node, LookedAt(x, i)'
      PROVE  LookedAt(x, i)
  <2>1. ASSUME NEW k \in 1..Len(stack), stack[k].node = x
        PROVE  i < stack[k].next
    <3>1. k # Len(stack)
      BY <1>3, <2>1 DEF Top
    <3>2. k \in 1..Len(stack')
      BY <1>1, <3>1
    <3> QED
      BY <1>1, <1>3, <2>1, <3>2 DEF LookedAt
  <2> QED
    BY <2>1 DEF LookedAt
<1> QED
  BY <1>1, <1>2, <1>3 DEF NoMore

\* The root of a component: what is above it on nodeStack is a class of mutual recursion.
LEMMA FinishRootInv ==
  ASSUME Typed, TarjanInv, callees' = callees, NoMore, IsRoot(Top.node),
         sccs' = sccs \cup {Component(Top.node)}, onStack' = onStack \ Component(Top.node),
         nodeStack' = SubSeq(nodeStack, 1, PositionOf(Top.node) - 1),
         low' = IF Len(stack) = 1 THEN low
                ELSE [low EXCEPT ![Caller.node] = Least(@, low[Top.node])],
         stack' = Popped, index' = index
  PROVE  TarjanInv'
<1>1. /\ TarjanTyped /\ StackSorted /\ EdgesRight /\ SccsRight
  BY DEF TarjanInv
<1>2. Searching
  BY DEF NoMore
<1>2a. PICK L \in Nat : \E nd \in [1..L -> onStack] :
           /\ L = Len(stack) /\ L \in 1..L /\ nd[L] = Top.node
           /\ \A k \in 1..L : /\ stack[k].node = nd[k] /\ nd[k] \in onStack /\ nd[k] \in Nodes
                              /\ index[nd[k]] \in Nat /\ low[nd[k]] \in Nat
                              /\ low[nd[k]] <= index[nd[k]]
           /\ \A k, l \in 1..L : k < l => index[nd[k]] < index[nd[l]]
           /\ \A k \in 1..L : k < L => Calls(nd[k], nd[k + 1])
  BY <1>2, OpenNodes
<1>3. PICK nd \in [1..L -> onStack] :
           /\ L = Len(stack) /\ L \in 1..L /\ nd[L] = Top.node
           /\ \A k \in 1..L : /\ stack[k].node = nd[k] /\ nd[k] \in onStack /\ nd[k] \in Nodes
                              /\ index[nd[k]] \in Nat /\ low[nd[k]] \in Nat
                              /\ low[nd[k]] <= index[nd[k]]
           /\ \A k, l \in 1..L : k < l => index[nd[k]] < index[nd[l]]
           /\ \A k \in 1..L : k < L => Calls(nd[k], nd[k + 1])
  BY ONLY <1>2a
<1>4. /\ \A k \in 1..L : \A x \in onStack : index[nd[k]] <= index[x] => x \in Reached({nd[k]})
      /\ \A x \in onStack : \E k \in 1..L : index[nd[k]] <= index[x] /\ nd[k] \in Reached({x})
      /\ \A k \in 1..L : \E m \in onStack : index[m] = low[nd[k]] /\ m \in Reached({nd[k]})
  BY <1>3, OpenLeads
<1>5. /\ Len(stack') = L - 1 /\ 1..(L - 1) \subseteq 1..L /\ L \notin 1..(L - 1)
      /\ \A k \in 1..(L - 1) : stack'[k] = stack[k] /\ stack'[k].node = nd[k]
      /\ \A k \in 1..L : k # L => k \in 1..(L - 1)
  BY <1>2, <1>3, PoppedTyped
<1>6. PICK n \in onStack : n = Top.node /\ n = nd[L]
  BY <1>3
<1>7. \A x \in onStack : /\ x \in Nodes /\ index[x] \in Nat /\ low[x] \in Nat /\ low[x] <= index[x]
  BY <1>1 DEF TarjanTyped
<1>8. \A k \in 1..(L - 1) : index[nd[k]] < index[n]
  BY <1>3, <1>5, <1>6
<1>9. low[n] = index[n]
  BY <1>6 DEF IsRoot
<1>10. low' = low
  <2>1. CASE L = 1
    BY <1>3, <2>1
  <2>2. CASE L # 1
    <3>1. L - 1 \in 1..(L - 1) /\ Caller.node = nd[L - 1]
      BY <1>3, <1>5, <2>2 DEF Caller
    <3>2. low[nd[L - 1]] \in Nat /\ low[nd[L - 1]] < low[n]
      <4>1. /\ low[nd[L - 1]] \in Nat /\ low[nd[L - 1]] <= index[nd[L - 1]]
            /\ index[nd[L - 1]] \in Nat /\ index[nd[L - 1]] < index[n] /\ index[n] \in Nat
        BY <1>3, <1>5, <1>7, <1>8, <3>1
      <4> QED
        BY <1>9, <4>1
    <3>3. Least(low[nd[L - 1]], low[n]) = low[nd[L - 1]]
      BY <3>2 DEF Least
    <3>4. low' = [low EXCEPT ![nd[L - 1]] = low[nd[L - 1]]]
      BY <1>3, <1>6, <2>2, <3>1, <3>3
    <3>5. low \in [Nodes -> Nat]
      BY <1>1 DEF TarjanTyped
    <3> QED
      BY <3>4, <3>5
  <2> QED
    BY <2>1, <2>2
<1>11. PICK C \in SUBSET onStack : C = Component(n) /\ \A x \in onStack : x \in C <=> index[n] <= index[x]
  <2>1. Component(n) = {x \in onStack : index[n] <= index[x]}
    BY <1>1, ComponentIs
  <2> QED
    BY <2>1
<1>12. /\ sccs' = sccs \cup {C} /\ onStack' = onStack \ C /\ n \in C
       /\ Finished' = Finished \cup C /\ Numbered' = Numbered
  <2>1. n \in C
    BY <1>7, <1>11
  <2>2. sccs' = sccs \cup {C} /\ onStack' = onStack \ C
    BY <1>6, <1>11
  <2>3. UNION (sccs \cup {C}) = (UNION sccs) \cup C
    OBVIOUS
  <2> QED
    BY <2>1, <2>2, <2>3 DEF Finished, Numbered
<1>13. \A x \in onStack' : x \in onStack /\ index[x] < index[n] /\ x # n
  BY <1>7, <1>11, <1>12
<1>14. \A k \in 1..(L - 1) : nd[k] \in onStack'
  <2>1. ASSUME NEW k \in 1..(L - 1) PROVE nd[k] \in onStack /\ nd[k] \notin C
    <3>1. nd[k] \in onStack /\ index[nd[k]] < index[n] /\ index[nd[k]] \in Nat /\ index[n] \in Nat
      BY <1>3, <1>5, <1>7, <1>8
    <3> QED
      BY <1>11, <3>1
  <2> QED
    BY <1>12, <2>1
<1>15. /\ \A m, k : Calls(m, k)' <=> Calls(m, k)
       /\ \A S : (Closed(S)' <=> Closed(S)) /\ Reached(S)' = Reached(S)
       /\ \A m, k : Together(m, k)' <=> Together(m, k)
  BY SameCalls
<1>t. TarjanTyped'
  <2>1. nodeStack' \in Seq(Nodes)
    <3>1. PositionOf(n) \in 1..Len(nodeStack) /\ nodeStack \in Seq(Nodes)
      BY <1>1, ComponentIs DEF TarjanTyped
    <3>2. SubSeq(nodeStack, 1, PositionOf(n) - 1) \in Seq(Nodes)
      BY <3>1
    <3> QED
      BY <1>6, <3>2
  <2>2. onStack' \subseteq Nodes /\ sccs' \subseteq SUBSET Nodes
    BY <1>1, <1>12 DEF TarjanTyped
  <2> QED
    BY <1>1, <1>10, <1>12, <2>1, <2>2 DEF TarjanTyped
<1>s. StackSorted'
  <2>1. PICK p \in 1..Len(nodeStack) :
          /\ nodeStack' = SubSeq(nodeStack, 1, p - 1)
          /\ \A i \in 1..Len(nodeStack) : i < p <=> index[nodeStack[i]] < index[n]
    BY <1>1, <1>6, ComponentIs
  <2>2. /\ Len(nodeStack') = p - 1 /\ \A i \in 1..(p - 1) : nodeStack'[i] = nodeStack[i]
        /\ \A i \in 1..Len(nodeStack) : i < p <=> i \in 1..(p - 1)
        /\ 1..(p - 1) \subseteq 1..Len(nodeStack)
    <3>1. Len(nodeStack) \in Nat /\ nodeStack \in Seq(Nodes)
      BY <1>1 DEF TarjanTyped
    <3>2. PICK q \in Nat : q = p - 1 /\ q <= Len(nodeStack)
      BY <3>1
    <3>3. Len(SubSeq(nodeStack, 1, q)) = q /\ \A i \in 1..q : SubSeq(nodeStack, 1, q)[i] = nodeStack[i]
      BY <3>1, <3>2
    <3>4. \A i \in 1..Len(nodeStack) : i < p <=> i \in 1..(p - 1)
      BY <3>1
    <3>5. 1..(p - 1) \subseteq 1..Len(nodeStack)
      BY <3>1
    <3> QED
      BY <2>1, <3>2, <3>3, <3>4, <3>5
  <2>3. onStack = {nodeStack[i] : i \in 1..Len(nodeStack)}
    BY <1>1 DEF StackSorted
  <2>4. onStack' = {nodeStack'[i] : i \in 1..Len(nodeStack')}
    <3>1. ASSUME NEW x \in onStack'
          PROVE  \E i \in 1..(p - 1) : x = nodeStack'[i]
      <4>1. PICK i \in 1..Len(nodeStack) : x = nodeStack[i]
        BY <1>13, <2>3, <3>1
      <4>2. i \in 1..(p - 1)
        BY <1>13, <2>1, <2>2, <3>1, <4>1
      <4> QED
        BY <2>2, <4>1, <4>2
    <3>2. ASSUME NEW i \in 1..(p - 1)
          PROVE  nodeStack'[i] \in onStack'
      <4>1. nodeStack'[i] = nodeStack[i] /\ nodeStack[i] \in onStack /\ i \in 1..Len(nodeStack)
        BY <2>2, <2>3
      <4>2. index[nodeStack[i]] < index[n]
        BY <2>1, <2>2, <4>1
      <4>3. index[nodeStack[i]] \in Nat /\ index[n] \in Nat
        BY <1>7, <4>1
      <4>4. nodeStack[i] \notin C
        BY <1>11, <4>1, <4>2, <4>3
      <4> QED
        BY <1>12, <4>1, <4>4
    <3> QED
      BY <2>2, <3>1, <3>2
  <2>5. \A i, j \in 1..Len(nodeStack') : i < j => index'[nodeStack'[i]] < index'[nodeStack'[j]]
    <3>1. ASSUME NEW i \in 1..(p - 1), NEW j \in 1..(p - 1), i < j
          PROVE  index[nodeStack'[i]] < index[nodeStack'[j]]
      <4>1. i \in 1..Len(nodeStack) /\ j \in 1..Len(nodeStack)
        BY <2>2
      <4>2. index[nodeStack[i]] < index[nodeStack[j]]
        BY <1>1, <3>1, <4>1 DEF StackSorted
      <4> QED
        BY <2>2, <4>2
    <3> QED
      BY <2>2, <3>1
  <2>6. /\ Numbered' = onStack' \cup Finished' /\ onStack' \cap Finished' = {}
    <3>1. Numbered = onStack \cup Finished /\ onStack \cap Finished = {}
      BY <1>1 DEF StackSorted
    <3> QED
      BY <1>12, <3>1
  <2> QED
    BY <2>4, <2>5, <2>6 DEF StackSorted
<1>p. PathOfCalls'
  <2>1. ASSUME NEW k \in 1..(L - 1), k < L - 1 PROVE Calls(stack'[k].node, stack'[k + 1].node)
    <3>1. k + 1 \in 1..(L - 1) /\ k \in 1..L /\ k < L
      BY <1>3, <2>1
    <3>2. Calls(nd[k], nd[k + 1])
      BY <1>3, <3>1
    <3> QED
      BY <1>5, <3>1, <3>2
  <2>2. \A k, l \in 1..(L - 1) : k < l => index'[stack'[k].node] < index'[stack'[l].node]
    <3>1. ASSUME NEW k \in 1..(L - 1), NEW l \in 1..(L - 1), k < l
          PROVE  index[nd[k]] < index[nd[l]]
      BY <1>3, <1>5, <3>1
    <3> QED
      BY <1>5, <3>1
  <2> QED
    BY <1>5, <1>14, <1>15, <2>1, <2>2 DEF PathOfCalls
<1>u. LeadsUp'
  <2>1. ASSUME NEW k \in 1..(L - 1), NEW x \in onStack', index[nd[k]] <= index[x]
        PROVE  x \in Reached({nd[k]})
    BY <1>4, <1>5, <1>13, <2>1
  <2> QED
    BY <1>5, <1>15, <2>1 DEF LeadsUp
<1>d. LeadsDown'
  <2>1. ASSUME NEW x \in onStack'
        PROVE  \E k \in 1..(L - 1) : index[nd[k]] <= index[x] /\ nd[k] \in Reached({x})
    <3>1. PICK k \in 1..L : index[nd[k]] <= index[x] /\ nd[k] \in Reached({x})
      BY <1>4, <1>13
    <3>2. index[x] < index[n] /\ index[x] \in Nat /\ index[n] \in Nat
      BY <1>7, <1>13
    <3>3. k # L
      BY <1>6, <3>1, <3>2
    <3> QED
      BY <1>5, <3>1, <3>3
  <2> QED
    BY <1>5, <1>15, <2>1 DEF LeadsDown
<1>l. LowIsReached'
  <2>1. ASSUME NEW k \in 1..(L - 1)
        PROVE  \E m \in onStack' : index[m] = low[nd[k]] /\ m \in Reached({nd[k]})
    <3>1. PICK m \in onStack : index[m] = low[nd[k]] /\ m \in Reached({nd[k]})
      BY <1>4, <1>5
    <3>2. /\ low[nd[k]] <= index[nd[k]] /\ low[nd[k]] \in Nat /\ index[nd[k]] \in Nat
          /\ index[nd[k]] < index[n] /\ index[n] \in Nat
      BY <1>3, <1>5, <1>7, <1>8
    <3>3. index[m] < index[n] /\ index[m] \in Nat
      BY <3>1, <3>2
    <3>4. m \notin C
      BY <1>11, <3>2, <3>3
    <3> QED
      BY <1>12, <3>1, <3>4
  <2>2. ASSUME NEW k \in 1..Len(stack')
        PROVE  \E m \in onStack' : index'[m] = low'[stack'[k].node] /\ m \in Reached({stack'[k].node})
    <3>1. k \in 1..(L - 1) /\ stack'[k].node = nd[k]
      BY <1>5
    <3>2. PICK m \in onStack' : index[m] = low[nd[k]] /\ m \in Reached({nd[k]})
      BY <2>1, <3>1
    <3> QED
      BY <1>10, <3>1, <3>2
  <2> QED
    BY <1>15, <2>2 DEF LowIsReached
<1>16. /\ \A i \in 1..Len(callees[n]) : i < Top.next
       /\ \A x \in Nodes : \A i \in 1..Len(callees[x]) : x # n /\ LookedAt(x, i)' => LookedAt(x, i)
  BY <1>2, <1>6, LookedBelow
<1>e. EdgesRight'
  <2>1. ASSUME NEW x \in onStack', NEW i \in 1..Len(callees[x]), LookedAt(x, i)'
        PROVE  LookedAt(x, i) /\ callees[x][i] \in Numbered
    <3>1. x \in Nodes /\ x # n /\ x \in onStack
      BY <1>7, <1>13
    <3>2. LookedAt(x, i)
      BY <1>16, <2>1, <3>1
    <3> QED
      BY <1>1, <3>1, <3>2 DEF EdgesRight
  <2>2. ASSUME NEW x \in onStack', NEW i \in 1..Len(callees[x]), LookedAt(x, i)',
               callees[x][i] \in onStack', NEW k \in 1..Len(stack'),
               index'[stack'[k].node] <= index'[x],
               \A l \in 1..Len(stack') : k < l => index'[x] < index'[stack'[l].node]
        PROVE  low'[stack'[k].node] <= index'[callees[x][i]]
    <3>1. /\ k \in 1..(L - 1) /\ k \in 1..L /\ stack'[k].node = nd[k] /\ index[nd[k]] <= index[x]
          /\ \A l \in 1..(L - 1) : k < l => index[x] < index[nd[l]]
      BY <1>5, <2>2
    <3>2. index[x] < index[n] /\ x \in onStack /\ callees[x][i] \in onStack
      BY <1>13, <2>2
    <3>3. \A l \in 1..L : k < l => index[x] < index[nd[l]]
      BY <1>5, <1>6, <3>1, <3>2
    <3>4. /\ index[stack[k].node] <= index[x]
          /\ \A l \in 1..Len(stack) : k < l => index[x] < index[stack[l].node]
      BY <1>3, <3>1, <3>3
    <3>5. LookedAt(x, i) /\ k \in 1..Len(stack)
      BY <1>3, <2>1, <2>2, <3>1
    <3>6. low[stack[k].node] <= index[callees[x][i]]
      BY <1>1, <3>2, <3>4, <3>5 DEF EdgesRight
    <3> QED
      BY <1>3, <1>10, <3>1, <3>6
  <2> QED
    BY <1>12, <2>1, <2>2 DEF EdgesRight
<1>17. Closed(Finished \cup C)
  <2>1. ASSUME NEW x \in C, NEW y \in Nodes, Calls(x, y)
        PROVE  y \in Finished \cup C
    <3>1. PICK i \in 1..Len(callees[x]) : callees[x][i] = y
      BY <2>1 DEF Calls
    <3>2. x \in onStack /\ index[n] <= index[x] /\ index[x] \in Nat /\ index[n] \in Nat
      BY <1>7, <1>11
    <3>3. LookedAt(x, i)
      <4>1. ASSUME NEW k \in 1..Len(stack), stack[k].node = x
            PROVE  i < stack[k].next
        <5>1. k \in 1..L /\ nd[k] = x
          BY <1>3, <4>1
        <5>2. k = L
          <6>1. ASSUME k # L PROVE FALSE
            <7>1. index[nd[k]] < index[n]
              BY <1>5, <1>8, <5>1, <6>1
            <7> QED
              BY <3>2, <5>1, <7>1
          <6> QED
            BY <6>1
        <5>3. x = n /\ stack[k] = Top
          BY <1>3, <1>6, <5>1, <5>2 DEF Top
        <5> QED
          BY <1>16, <3>1, <5>3
      <4> QED
        BY <3>1, <4>1 DEF LookedAt
    <3>4. y \in Numbered
      BY <1>1, <3>1, <3>2, <3>3 DEF EdgesRight
    <3>5. CASE y \in onStack
      <4>1. /\ L \in 1..Len(stack) /\ index[stack[L].node] <= index[x]
            /\ \A l \in 1..Len(stack) : L < l => index[x] < index[stack[l].node]
        BY <1>3, <1>6, <3>2
      <4>2. low[stack[L].node] <= index[y]
        BY <1>1, <3>1, <3>2, <3>3, <3>5, <4>1 DEF EdgesRight
      <4>3. index[n] <= index[y]
        BY <1>3, <1>6, <1>9, <4>2
      <4> QED
        BY <1>11, <3>5, <4>3
    <3>6. CASE y \in Finished
      BY <3>6
    <3> QED
      BY <1>1, <3>4, <3>5, <3>6 DEF StackSorted
  <2>2. Closed(Finished)
    BY <1>1 DEF SccsRight
  <2> QED
    BY <2>1, <2>2 DEF Closed
<1>18. ASSUME NEW r \in C
       PROVE  C = {m \in Nodes : Together(m, r)}
  <2>1. ASSUME NEW a \in C, NEW b \in C
        PROVE  a \in Reached({b})
    <3>1. /\ a \in onStack /\ b \in onStack /\ index[n] <= index[a] /\ index[a] \in Nat
          /\ index[n] \in Nat
      BY <1>7, <1>11
    <3>2. PICK k \in 1..L : nd[k] \in Reached({b})
      BY <1>4, <3>1
    <3>3. index[nd[k]] <= index[a]
      <4>1. CASE k = L
        BY <1>6, <3>1, <4>1
      <4>2. CASE k # L
        <5>1. index[nd[k]] < index[n] /\ index[nd[k]] \in Nat
          BY <1>3, <1>5, <1>8, <4>2
        <5> QED
          BY <3>1, <5>1
      <4> QED
        BY <4>1, <4>2
    <3>4. a \in Reached({nd[k]})
      BY <1>4, <3>1, <3>3
    <3>5. b \in Nodes
      BY <1>7, <3>1
    <3> QED
      BY <3>2, <3>4, <3>5, ReachedOn
  <2>2. ASSUME NEW m \in Nodes, Together(m, r)
        PROVE  m \in C
    <3>1. m \in Reached({r}) /\ r \in Reached({m}) /\ r \in Nodes /\ r \in onStack
      BY <1>7, <1>11, <2>2 DEF Together
    <3>2. Finished \subseteq Nodes /\ C \subseteq Nodes
      BY <1>1, <1>7, <1>11 DEF TarjanTyped, Finished
    <3>3. Reached({r}) \subseteq Finished \cup C
      BY <1>17, <3>2, ReachedLeast
    <3>4. ASSUME m \in Finished PROVE FALSE
      <4>1. Reached({m}) \subseteq Finished
        BY <1>1, <3>2, <3>4, ReachedLeast DEF SccsRight
      <4> QED
        BY <1>1, <3>1, <4>1 DEF StackSorted
    <3> QED
      BY <3>1, <3>3, <3>4
  <2>3. C \subseteq Nodes
    BY <1>7, <1>11
  <2> QED
    BY <2>1, <2>2, <2>3 DEF Together
<1>c. SccsRight'
  <2>2. ASSUME NEW S \in sccs' PROVE S # {} /\ \A r \in S : S = {m \in Nodes : Together(m, r)}
    <3>1. CASE S \in sccs
      BY <1>1, <3>1 DEF SccsRight
    <3>2. CASE S = C
      BY <1>12, <1>18, <3>2
    <3> QED
      BY <1>12, <3>1, <3>2
  <2> QED
    BY <1>12, <1>15, <1>17, <2>2 DEF SccsRight
<1> QED
  BY <1>t, <1>s, <1>p, <1>u, <1>d, <1>l, <1>e, <1>c DEF TarjanInv

\* A node that leads to one begun earlier: its lowlink goes to the caller.
LEMMA FinishInnerInv ==
  ASSUME Typed, TarjanInv, callees' = callees, NoMore, ~IsRoot(Top.node),
         sccs' = sccs, onStack' = onStack, nodeStack' = nodeStack,
         low' = IF Len(stack) = 1 THEN low
                ELSE [low EXCEPT ![Caller.node] = Least(@, low[Top.node])],
         stack' = Popped, index' = index
  PROVE  TarjanInv'
<1>1. /\ TarjanTyped /\ StackSorted /\ EdgesRight /\ SccsRight
  BY DEF TarjanInv
<1>2. Searching
  BY DEF NoMore
<1>2a. PICK L \in Nat : \E nd \in [1..L -> onStack] :
           /\ L = Len(stack) /\ L \in 1..L /\ nd[L] = Top.node
           /\ \A k \in 1..L : /\ stack[k].node = nd[k] /\ nd[k] \in onStack /\ nd[k] \in Nodes
                              /\ index[nd[k]] \in Nat /\ low[nd[k]] \in Nat
                              /\ low[nd[k]] <= index[nd[k]]
           /\ \A k, l \in 1..L : k < l => index[nd[k]] < index[nd[l]]
           /\ \A k \in 1..L : k < L => Calls(nd[k], nd[k + 1])
  BY <1>2, OpenNodes
<1>3. PICK nd \in [1..L -> onStack] :
           /\ L = Len(stack) /\ L \in 1..L /\ nd[L] = Top.node
           /\ \A k \in 1..L : /\ stack[k].node = nd[k] /\ nd[k] \in onStack /\ nd[k] \in Nodes
                              /\ index[nd[k]] \in Nat /\ low[nd[k]] \in Nat
                              /\ low[nd[k]] <= index[nd[k]]
           /\ \A k, l \in 1..L : k < l => index[nd[k]] < index[nd[l]]
           /\ \A k \in 1..L : k < L => Calls(nd[k], nd[k + 1])
  BY ONLY <1>2a
<1>4. /\ \A k \in 1..L : \A x \in onStack : index[nd[k]] <= index[x] => x \in Reached({nd[k]})
      /\ \A x \in onStack : \E k \in 1..L : index[nd[k]] <= index[x] /\ nd[k] \in Reached({x})
      /\ \A k \in 1..L : \E m \in onStack : index[m] = low[nd[k]] /\ m \in Reached({nd[k]})
  BY <1>3, OpenLeads
<1>5. /\ Len(stack') = L - 1 /\ 1..(L - 1) \subseteq 1..L /\ L \notin 1..(L - 1)
      /\ \A k \in 1..(L - 1) : stack'[k] = stack[k] /\ stack'[k].node = nd[k]
      /\ \A k \in 1..L : k # L => k \in 1..(L - 1)
  BY <1>2, <1>3, PoppedTyped
<1>6. PICK n \in onStack : n = Top.node /\ n = nd[L]
  BY <1>3
<1>7. \A x \in onStack : /\ x \in Nodes /\ index[x] \in Nat /\ low[x] \in Nat /\ low[x] <= index[x]
  BY <1>1 DEF TarjanTyped
<1>8. \A k \in 1..(L - 1) : index[nd[k]] < index[n]
  BY <1>3, <1>5, <1>6
<1>9. low[n] < index[n]
  <2>1. low[n] # index[n] /\ low[n] \in Nat /\ index[n] \in Nat /\ low[n] <= index[n]
    BY <1>6, <1>7 DEF IsRoot
  <2> QED
    BY <2>1
\* The node low is the index of, and an open one that it leads to.
<1>10. PICK m \in onStack : index[m] = low[n] /\ m \in Reached({n})
  BY <1>3, <1>4, <1>6
<1>11. PICK h \in 1..(L - 1) : index[nd[h]] <= index[m] /\ nd[h] \in Reached({m})
  <2>1. PICK h \in 1..L : index[nd[h]] <= index[m] /\ nd[h] \in Reached({m})
    BY <1>4
  <2>2. h # L
    <3>1. index[nd[h]] \in Nat /\ index[m] \in Nat /\ index[n] \in Nat /\ index[m] < index[n]
      BY <1>3, <1>7, <1>9, <1>10
    <3> QED
      BY <1>6, <2>1, <3>1
  <2> QED
    BY <1>5, <2>1, <2>2
<1>12. PICK c \in onStack :
         /\ c = nd[L - 1] /\ L - 1 \in 1..(L - 1) /\ Calls(c, n) /\ c \in Nodes
         /\ low' = [low EXCEPT ![c] = Least(@, low[n])]
  <2>1. L - 1 \in 1..(L - 1) /\ L # 1
    BY <1>3, <1>11
  <2>2. Caller.node = nd[L - 1] /\ Calls(nd[L - 1], n) /\ nd[L - 1] \in Nodes /\ nd[L - 1] \in onStack
    <3>1. L - 1 \in 1..L /\ L - 1 < L /\ (L - 1) + 1 = L
      BY <2>1
    <3> QED
      BY <1>3, <1>6, <3>1 DEF Caller
  <2> QED
    BY <1>3, <1>6, <2>1, <2>2
<1>13. /\ low' \in [Nodes -> Nat] /\ low'[c] <= low[n]
       /\ low'[c] = low[c] \/ low'[c] = low[n]
       /\ \A x \in Nodes : low'[x] <= low[x] /\ (x # c => low'[x] = low[x])
  <2>1. low \in [Nodes -> Nat] /\ low[c] \in Nat /\ low[n] \in Nat
    BY <1>1, <1>6, <1>7, <1>12 DEF TarjanTyped
  <2>2. PICK v \in Nat : /\ v = Least(low[c], low[n]) /\ v <= low[n] /\ v <= low[c]
                         /\ v = low[c] \/ v = low[n]
    BY <2>1 DEF Least
  <2>3. low' = [low EXCEPT ![c] = v]
    BY <1>12, <2>2
  <2>4. low' \in [Nodes -> Nat] /\ low'[c] = v /\ \A x \in Nodes : x # c => low'[x] = low[x]
    <3>1. c \in Nodes /\ v \in Nat
      BY <1>12
    <3> QED
      BY ONLY <2>1, <2>3, <3>1
  <2>5. ASSUME NEW x \in Nodes PROVE low'[x] <= low[x]
    <3>1. CASE x = c
      BY <2>2, <2>4, <3>1
    <3>2. CASE x # c
      <4>1. low'[x] = low[x] /\ low[x] \in Nat
        BY <2>1, <2>4, <3>2
      <4> QED
        BY <4>1
    <3> QED
      BY <3>1, <3>2
  <2> QED
    BY <2>2, <2>4, <2>5
<1>14. Finished' = Finished /\ Numbered' = Numbered
  BY DEF Finished, Numbered
<1>15. /\ \A a, b : Calls(a, b)' <=> Calls(a, b)
       /\ \A S : (Closed(S)' <=> Closed(S)) /\ Reached(S)' = Reached(S)
       /\ \A a, b : Together(a, b)' <=> Together(a, b)
  BY SameCalls
<1>t. TarjanTyped'
  <2>1. ASSUME NEW x \in Nodes
        PROVE  index'[x] <= Cardinality(Numbered)' /\ low'[x] <= index'[x]
    <3>1. /\ index[x] <= Cardinality(Numbered) /\ low[x] <= index[x]
          /\ low[x] \in Nat /\ index[x] \in Nat
      BY <1>1 DEF TarjanTyped
    <3>2. low'[x] <= low[x] /\ low'[x] \in Nat
      BY <1>13
    <3> QED
      BY <1>14, <3>1, <3>2
  <2> QED
    BY <1>1, <1>13, <2>1 DEF TarjanTyped
<1>s. StackSorted'
  BY <1>1, <1>14 DEF StackSorted
<1>p. PathOfCalls'
  <2>1. ASSUME NEW k \in 1..(L - 1), k < L - 1 PROVE Calls(stack'[k].node, stack'[k + 1].node)
    <3>1. k + 1 \in 1..(L - 1) /\ k \in 1..L /\ k < L
      BY <1>3, <2>1
    <3>2. Calls(nd[k], nd[k + 1])
      BY <1>3, <3>1
    <3> QED
      BY <1>5, <3>1, <3>2
  <2>2. \A k, l \in 1..(L - 1) : k < l => index'[stack'[k].node] < index'[stack'[l].node]
    <3>1. ASSUME NEW k \in 1..(L - 1), NEW l \in 1..(L - 1), k < l
          PROVE  index[nd[k]] < index[nd[l]]
      BY <1>3, <1>5, <3>1
    <3> QED
      BY <1>5, <3>1
  <2>3. \A k \in 1..(L - 1) : stack'[k].node \in onStack'
    BY <1>3, <1>5
  <2> QED
    BY <1>5, <1>15, <2>1, <2>2, <2>3 DEF PathOfCalls
<1>u. LeadsUp'
  <2>1. ASSUME NEW k \in 1..(L - 1), NEW x \in onStack, index[nd[k]] <= index[x]
        PROVE  x \in Reached({nd[k]})
    BY <1>4, <1>5, <2>1
  <2> QED
    BY <1>5, <1>15, <2>1 DEF LeadsUp
<1>d. LeadsDown'
  <2>1. ASSUME NEW x \in onStack
        PROVE  \E k \in 1..(L - 1) : index[nd[k]] <= index[x] /\ nd[k] \in Reached({x})
    <3>1. PICK k \in 1..L : index[nd[k]] <= index[x] /\ nd[k] \in Reached({x})
      BY <1>4
    <3>2. CASE k # L
      BY <1>5, <3>1, <3>2
    <3>3. CASE k = L
      <4>1. n \in Reached({x}) /\ index[n] <= index[x]
        BY <1>6, <3>1, <3>3
      <4>2. index[nd[h]] <= index[x]
        <5>1. /\ index[nd[h]] < index[n] /\ index[nd[h]] \in Nat /\ index[n] \in Nat
              /\ index[x] \in Nat
          BY <1>3, <1>5, <1>7, <1>8
        <5> QED
          BY <4>1, <5>1
      <4>3. nd[h] \in Reached({x})
        BY <1>7, <1>10, <1>11, <4>1, ReachedOn
      <4> QED
        BY <4>2, <4>3
    <3> QED
      BY <3>2, <3>3
  <2> QED
    BY <1>5, <1>15, <2>1 DEF LeadsDown
<1>l. LowIsReached'
  <2>1. ASSUME NEW k \in 1..(L - 1)
        PROVE  \E r \in onStack : index[r] = low'[nd[k]] /\ r \in Reached({nd[k]})
    <3>1. PICK r \in onStack : index[r] = low[nd[k]] /\ r \in Reached({nd[k]})
      BY <1>4, <1>5
    <3>2. CASE nd[k] # c \/ low'[c] = low[c]
      <4>1. low'[nd[k]] = low[nd[k]]
        BY <1>3, <1>5, <1>13, <3>2
      <4> QED
        BY <3>1, <4>1
    <3>3. CASE nd[k] = c /\ low'[c] = low[n]
      <4>1. n \in Nodes /\ Reached({n}) \subseteq Reached({c})
        BY <1>7, <1>12, ReachedFromCallee
      <4> QED
        BY <1>10, <3>3, <4>1
    <3> QED
      BY <1>13, <3>2, <3>3
  <2>2. ASSUME NEW k \in 1..Len(stack')
        PROVE  \E r \in onStack' : index'[r] = low'[stack'[k].node] /\ r \in Reached({stack'[k].node})
    <3>1. k \in 1..(L - 1) /\ stack'[k].node = nd[k]
      BY <1>5
    <3>2. PICK r \in onStack : index[r] = low'[nd[k]] /\ r \in Reached({nd[k]})
      BY <2>1, <3>1
    <3> QED
      BY <3>1, <3>2
  <2> QED
    BY <1>15, <2>2 DEF LowIsReached
<1>16. /\ \A i \in 1..Len(callees[n]) : i < Top.next
       /\ \A x \in Nodes : \A i \in 1..Len(callees[x]) : x # n /\ LookedAt(x, i)' => LookedAt(x, i)
  BY <1>2, <1>6, LookedBelow
<1>e. EdgesRight'
  <2>1. ASSUME NEW x \in onStack, NEW i \in 1..Len(callees[x]), LookedAt(x, i)'
        PROVE  LookedAt(x, i) /\ callees[x][i] \in Numbered
    <3>1. CASE x # n
      BY <1>1, <1>7, <1>16, <2>1, <3>1 DEF EdgesRight
    <3>2. CASE x = n
      <4>1. ASSUME NEW k \in 1..Len(stack), stack[k].node = x
            PROVE  i < stack[k].next
        <5>1. k \in 1..L /\ nd[k] = n
          BY <1>3, <3>2, <4>1
        <5>2. k = L
          <6>1. ASSUME k # L PROVE FALSE
            <7>1. index[nd[k]] < index[n] /\ index[n] \in Nat
              BY <1>5, <1>7, <1>8, <5>1, <6>1
            <7> QED
              BY <5>1, <7>1
          <6> QED
            BY <6>1
        <5>3. stack[k] = Top
          BY <1>3, <5>2 DEF Top
        <5> QED
          BY <1>16, <3>2, <5>3
      <4>2. LookedAt(x, i)
        BY <4>1 DEF LookedAt
      <4> QED
        BY <1>1, <4>2 DEF EdgesRight
    <3> QED
      BY <3>1, <3>2
  <2>2. ASSUME NEW x \in onStack, NEW i \in 1..Len(callees[x]), LookedAt(x, i)',
               callees[x][i] \in onStack, NEW k \in 1..L, index[nd[k]] <= index[x],
               \A l \in 1..L : k < l => index[x] < index[nd[l]]
        PROVE  low[nd[k]] <= index[callees[x][i]]
    <3>1. /\ index[stack[k].node] <= index[x] /\ k \in 1..Len(stack)
          /\ \A l \in 1..Len(stack) : k < l => index[x] < index[stack[l].node]
      BY <1>3, <2>2
    <3>2. low[stack[k].node] <= index[callees[x][i]]
      BY <1>1, <2>1, <2>2, <3>1 DEF EdgesRight
    <3> QED
      BY <1>3, <3>2
  <2>3. ASSUME NEW x \in onStack, NEW i \in 1..Len(callees[x]), LookedAt(x, i)',
               callees[x][i] \in onStack, NEW k \in 1..(L - 1), index[nd[k]] <= index[x],
               \A l \in 1..(L - 1) : k < l => index[x] < index[nd[l]]
        PROVE  low'[nd[k]] <= index[callees[x][i]]
    <3>1. /\ index[x] \in Nat /\ index[n] \in Nat /\ index[callees[x][i]] \in Nat
          /\ low[n] \in Nat /\ nd[k] \in Nodes /\ low[nd[k]] \in Nat /\ low'[nd[k]] \in Nat
          /\ low'[nd[k]] <= low[nd[k]] /\ low'[c] \in Nat
      BY <1>3, <1>5, <1>7, <1>12, <1>13, <2>3
    <3>2. CASE index[x] < index[n]
      <4>1. \A l \in 1..L : k < l => index[x] < index[nd[l]]
        BY <1>5, <1>6, <2>3, <3>2
      <4>2. low[nd[k]] <= index[callees[x][i]]
        BY <1>5, <2>2, <2>3, <4>1
      <4> QED
        BY <3>1, <4>2
    <3>3. CASE index[n] <= index[x]
      <4>1. k = L - 1
        <5>1. ASSUME k # L - 1 PROVE FALSE
          <6>1. k < L - 1
            BY <1>3, <5>1
          <6>2. index[x] < index[c] /\ index[c] < index[n] /\ index[c] \in Nat
            BY <1>7, <1>8, <1>12, <2>3, <6>1
          <6> QED
            BY <3>1, <3>3, <6>2
        <5> QED
          BY <5>1
      <4>2. \A l \in 1..L : L < l => index[x] < index[nd[l]]
        BY <1>3
      <4>3. low[n] <= index[callees[x][i]]
        BY <1>3, <1>6, <2>2, <2>3, <3>3, <4>2
      <4>4. low'[nd[k]] <= low[n]
        BY <1>12, <1>13, <4>1
      <4> QED
        BY <3>1, <4>3, <4>4
    <3> QED
      BY <3>1, <3>2, <3>3
  <2>4. ASSUME NEW x \in onStack, NEW i \in 1..Len(callees[x]), LookedAt(x, i)',
               callees[x][i] \in onStack, NEW k \in 1..Len(stack'),
               index'[stack'[k].node] <= index'[x],
               \A l \in 1..Len(stack') : k < l => index'[x] < index'[stack'[l].node]
        PROVE  low'[stack'[k].node] <= index'[callees[x][i]]
    <3>1. /\ k \in 1..(L - 1) /\ stack'[k].node = nd[k] /\ index[nd[k]] <= index[x]
          /\ \A l \in 1..(L - 1) : k < l => index[x] < index[nd[l]]
      BY <1>5, <2>4
    <3>2. low'[nd[k]] <= index[callees[x][i]]
      BY <2>3, <2>4, <3>1
    <3> QED
      BY <3>1, <3>2
  <2> QED
    BY <1>14, <2>1, <2>4 DEF EdgesRight
<1>c. SccsRight'
  BY <1>1, <1>14, <1>15 DEF SccsRight
<1> QED
  BY <1>t, <1>s, <1>p, <1>u, <1>d, <1>l, <1>e, <1>c DEF TarjanInv

LEMMA TarjanFixed ==
  ASSUME UNCHANGED <<callees, stack, tarjanVars>>
  PROVE  TarjanInv' <=> TarjanInv
<1>1. /\ callees' = callees /\ stack' = stack /\ index' = index /\ low' = low
      /\ onStack' = onStack /\ nodeStack' = nodeStack /\ sccs' = sccs
  BY DEF tarjanVars
<1> QED
  BY <1>1 DEF TarjanInv, TarjanTyped, StackSorted, PathOfCalls, LeadsUp, LeadsDown, LowIsReached,
              EdgesRight, SccsRight, Numbered, Finished, LookedAt, Reached, Closed, Calls, Together

\* detectCycles starts from nothing.
LEMMA TarjanStarts ==
  ASSUME stack = <<>>, onStack = {}, nodeStack = <<>>, sccs = {},
         index \in [Nodes -> Nat], low \in [Nodes -> Nat],
         \A n \in Nodes : index[n] = 0 /\ low[n] = 0
  PROVE  TarjanInv
<1>1. Numbered = {} /\ Finished = {} /\ Cardinality(Numbered) \in Nat
  BY NumberedFinite DEF Numbered, Finished
<1>2. Len(stack) = 0 /\ Len(nodeStack) = 0 /\ 1..0 = {}
  OBVIOUS
<1>3. TarjanTyped
  BY <1>1 DEF TarjanTyped
<1>4. StackSorted /\ PathOfCalls /\ LeadsUp /\ LeadsDown /\ LowIsReached
  BY <1>1, <1>2 DEF StackSorted, PathOfCalls, LeadsUp, LeadsDown, LowIsReached
<1>5. EdgesRight /\ SccsRight
  BY <1>1 DEF EdgesRight, SccsRight, Closed
<1> QED
  BY <1>3, <1>4, <1>5 DEF TarjanInv

\* What the steps of the cycle pass begin has begun after them.
LEMMA CyclesPickInv ==
  ASSUME Typed, CyclesInv, [Next]_vars, NEW n \in Nodes, CyclesPick(n)
  PROVE  CyclesInv'
<1>1. /\ pass = "cycles" /\ pass' = "cycles" /\ stack = <<>> /\ n \in loop /\ loop' = loop \ {n}
      /\ callees' = callees
  BY GraphFixed DEF CyclesPick, Searching
<1>2. TarjanInv /\ Nodes \ loop \subseteq Numbered
  BY <1>1 DEF CyclesInv
<1>3. CASE index[n] = 0
  <2>1. Begin(n, stack)
    BY <1>3 DEF CyclesPick
  <2>2. TarjanInv'
    <3>1. stack \in Seq(Frames) /\ Len(stack) = 0
      BY <1>1 DEF Typed
    <3> QED
      BY <1>1, <1>2, <1>3, <2>1, <3>1, BeginInv
  <2>3. Numbered' = Numbered \cup {n}
    <3>1. index' = [index EXCEPT ![n] = Cardinality(Numbered) + 1] /\ TarjanTyped
      BY <1>2, <2>1 DEF Begin, Numbered, TarjanInv
    <3> QED
      BY <1>3, <3>1, CountNext
  <2> QED
    BY <1>1, <1>2, <2>2, <2>3 DEF CyclesInv
<1>4. CASE index[n] # 0
  <2>1. UNCHANGED <<callees, stack, tarjanVars>>
    BY <1>1, <1>4 DEF CyclesPick
  <2>2. TarjanInv'
    BY <1>2, <2>1, TarjanFixed
  <2>3. Numbered' = Numbered /\ n \in Numbered
    BY <1>4, <2>1 DEF Numbered, tarjanVars
  <2> QED
    BY <1>1, <1>2, <2>2, <2>3 DEF CyclesInv
<1> QED
  BY <1>3, <1>4

LEMMA CyclesDescendInv ==
  ASSUME Typed, CyclesInv, [Next]_vars, CyclesDescend
  PROVE  CyclesInv'
<1>1. /\ pass = "cycles" /\ pass' = "cycles" /\ MoreCallees /\ loop' = loop /\ callees' = callees
  BY GraphFixed DEF CyclesDescend
<1>2. TarjanInv /\ Nodes \ loop \subseteq Numbered
  BY <1>1 DEF CyclesInv
<1>3. CASE index[Callee] = 0
  <2>1. Begin(Callee, Advanced)
    BY <1>3 DEF CyclesDescend
  <2>2. PICK n \in Nodes : n = Callee
    BY <1>1, CalleeTyped
  <2>3. TarjanInv'
    <3>1. Searching
      BY <1>1 DEF MoreCallees
    <3>2. PICK frames \in Seq(Frames) : frames = Advanced
      BY <3>1, AdvancedTyped
    <3>3. /\ Len(frames) = Len(stack)
          /\ \A k \in 1..Len(stack) : /\ frames[k].node = stack[k].node
                                      /\ k < Len(stack) => frames[k].next = stack[k].next
          /\ frames[Len(stack)].next = Top.next + 1
      <4>1. \A k \in 1..Len(stack) : k < Len(stack) => k # Len(stack)
        OBVIOUS
      <4> QED
        BY <3>1, <3>2, <4>1, AdvancedTyped
    <3>4. Top.next \in 1..Len(callees[Top.node]) /\ callees[Top.node][Top.next] = n
      BY <1>1, <2>2, CalleeTyped DEF Callee
    <3>5. index[n] = 0 /\ Begin(n, frames)
      BY <1>3, <2>1, <2>2, <3>2
    <3> QED
      BY <1>1, <1>2, <3>3, <3>4, <3>5, BeginInv
  <2>4. Numbered' = Numbered \cup {n}
    <3>1. index' = [index EXCEPT ![n] = Cardinality(Numbered) + 1] /\ TarjanTyped /\ index[n] = 0
      BY <1>2, <1>3, <2>1, <2>2 DEF Begin, Numbered, TarjanInv
    <3> QED
      BY <3>1, CountNext
  <2> QED
    BY <1>1, <1>2, <2>3, <2>4 DEF CyclesInv
<1>4. CASE index[Callee] # 0
  <2>1. /\ low' = IF Callee \in onStack
                  THEN [low EXCEPT ![Top.node] = Least(@, index[Callee])] ELSE low
        /\ stack' = Advanced
        /\ index' = index /\ onStack' = onStack /\ nodeStack' = nodeStack /\ sccs' = sccs
    BY <1>4 DEF CyclesDescend
  <2>2. TarjanInv'
    BY <1>1, <1>2, <1>4, <2>1, BackEdgeInv
  <2>3. Numbered' = Numbered
    BY <2>1 DEF Numbered
  <2> QED
    BY <1>1, <1>2, <2>2, <2>3 DEF CyclesInv
<1> QED
  BY <1>3, <1>4

LEMMA CyclesFinishInv ==
  ASSUME Typed, CyclesInv, [Next]_vars, CyclesFinish
  PROVE  CyclesInv'
<1>1. /\ pass = "cycles" /\ pass' = "cycles" /\ NoMore /\ loop' = loop /\ callees' = callees
      /\ stack' = Popped /\ index' = index
      /\ low' = IF Len(stack) = 1 THEN low
                ELSE [low EXCEPT ![Caller.node] = Least(@, low[Top.node])]
  BY GraphFixed DEF CyclesFinish
<1>2. TarjanInv /\ Nodes \ loop \subseteq Numbered
  BY <1>1 DEF CyclesInv
<1>3. TarjanInv'
  <2>1. CASE IsRoot(Top.node)
    <3>1. /\ sccs' = sccs \cup {Component(Top.node)} /\ onStack' = onStack \ Component(Top.node)
          /\ nodeStack' = SubSeq(nodeStack, 1, PositionOf(Top.node) - 1)
      BY <2>1 DEF CyclesFinish
    <3> QED
      BY <1>1, <1>2, <2>1, <3>1, FinishRootInv
  <2>2. CASE ~IsRoot(Top.node)
    <3>1. sccs' = sccs /\ onStack' = onStack /\ nodeStack' = nodeStack
      BY <2>2 DEF CyclesFinish
    <3> QED
      BY <1>1, <1>2, <2>2, <3>1, FinishInnerInv
  <2> QED
    BY <2>1, <2>2
<1> QED
  BY <1>1, <1>2, <1>3 DEF CyclesInv, Numbered

LEMMA InitCycles == Init => CyclesInv
BY DEF Init, SearchInit, CyclesInv

LEMMA NextCycles == Typed /\ CyclesInv /\ [Next]_vars => CyclesInv'
<1> SUFFICES ASSUME Typed, CyclesInv, [Next]_vars
             PROVE  CyclesInv'
  OBVIOUS
<1>1. CASE \E n \in Nodes : CyclesPick(n)
  BY <1>1, CyclesPickInv
<1>2. CASE CyclesDescend
  BY <1>2, CyclesDescendInv
<1>3. CASE CyclesFinish
  BY <1>3, CyclesFinishInv
<1>4. CASE \/ \E n \in Nodes : FlagsPick(n) \/ ReachPick(n)
           \/ FlagsDescend \/ FlagsFinish \/ FlagsDone \/ ReachDescend \/ ReachFinish
  <2>1. pass \in {"flags", "reach"} /\ pass' \in {"flags", "reach"} /\ UNCHANGED tarjanVars
    BY <1>4 DEF FlagsPick, ReachPick, FlagsDescend, FlagsFinish, FlagsDone, ReachDescend, ReachFinish
  <2> QED
    BY <2>1 DEF CyclesInv, tarjanVars
<1>5. CASE ReachDone
  <2>1. /\ pass = "reach" /\ pass' = "cycles" /\ loop' = Nodes /\ stack = <<>>
        /\ UNCHANGED <<callees, stack, tarjanVars>>
    BY <1>5, GraphFixed DEF ReachDone, Searching
  <2>2. TarjanInv
    BY <2>1, TarjanStarts DEF CyclesInv
  <2>3. TarjanInv'
    BY <2>1, <2>2, TarjanFixed
  <2> QED
    BY <2>1, <2>3 DEF CyclesInv
<1>6. CASE CyclesDone
  <2>1. /\ pass = "cycles" /\ pass' = "done" /\ loop = {} /\ stack = <<>>
        /\ UNCHANGED <<callees, stack, tarjanVars>>
    BY <1>6, GraphFixed DEF CyclesDone, Searching
  <2>2. TarjanInv /\ Nodes \subseteq Numbered
    BY <2>1 DEF CyclesInv
  <2>3. TarjanInv'
    BY <2>1, <2>2, TarjanFixed
  <2>4. Numbered' = Numbered /\ Numbered \subseteq Nodes
    BY <2>1 DEF Numbered, tarjanVars
  <2> QED
    BY <2>1, <2>2, <2>3, <2>4 DEF CyclesInv
<1>7. CASE UNCHANGED vars
  <2>1. /\ UNCHANGED <<callees, stack, tarjanVars>> /\ pass' = pass /\ loop' = loop
    BY <1>7 DEF vars, tarjanVars
  <2>2. TarjanInv' <=> TarjanInv
    BY <2>1, TarjanFixed
  <2>3. Numbered' = Numbered
    BY <2>1 DEF Numbered, tarjanVars
  <2> QED
    BY <2>1, <2>2, <2>3 DEF CyclesInv, tarjanVars
<1> QED
  BY <1>1, <1>2, <1>3, <1>4, <1>5, <1>6, <1>7 DEF Next, Step, Built

\* A finished component calls none that is not finished.
LEMMA CyclesClosed == CyclesInv /\ Typed => ComponentsClosed
<1> SUFFICES ASSUME CyclesInv, Typed
             PROVE  ComponentsClosed
  OBVIOUS
<1>1. CASE pass \in {"cycles", "done"}
  <2>1. Closed(Finished) /\ onStack \cap Finished = {}
    BY <1>1 DEF CyclesInv, TarjanInv, SccsRight, StackSorted
  <2> QED
    BY <2>1 DEF ComponentsClosed, Finished
<1>2. CASE pass \in {"flags", "reach"}
  BY <1>2 DEF CyclesInv, ComponentsClosed, Closed
<1> QED
  BY <1>1, <1>2 DEF Typed

\* With the recursion over nothing is on nodeStack, every node is in a component, and
\* each component is the class of its nodes.
LEMMA CyclesExact == CyclesInv => ComponentsExact
<1> SUFFICES ASSUME CyclesInv, pass = "done"
             PROVE  sccs = {{m \in Nodes : Together(m, n)} : n \in Nodes}
  BY DEF ComponentsExact
<1>1. TarjanInv /\ stack = <<>> /\ Numbered = Nodes
  BY DEF CyclesInv
<1>2. Finished = Nodes
  <2>1. Len(stack) = 0
    BY <1>1
  <2>2. onStack = {}
    BY <1>1, <2>1 DEF TarjanInv, LeadsDown
  <2> QED
    BY <1>1, <2>2 DEF TarjanInv, StackSorted
<1>3. \A S \in sccs : S # {} /\ S \subseteq Nodes /\ \A n \in S : S = {m \in Nodes : Together(m, n)}
  BY <1>1 DEF TarjanInv, SccsRight, TarjanTyped
<1>4. \A n \in Nodes : \E S \in sccs : n \in S
  BY <1>2 DEF Finished
<1>5. \A n \in Nodes : {m \in Nodes : Together(m, n)} \in sccs
  BY <1>3, <1>4
<1>6. \A S \in sccs : \E n \in Nodes : S = {m \in Nodes : Together(m, n)}
  BY <1>3
<1> QED
  BY <1>5, <1>6

\* Tarjan's search finds the classes of functions that call each other, whatever the
\* order of the searches, and finishes a class after those it calls.
THEOREM ComponentsAreRight == Spec => []ComponentsRight
<1>1. Typed /\ CyclesInv => ComponentsRight
  BY CyclesClosed, CyclesExact DEF ComponentsRight
<1> QED
  BY <1>1, InitTyped, NextTyped, InitCycles, NextCycles, PTL DEF Spec

-----------------------------------------------------------------------------
(* TypeOK, and how deep the recursion goes *)

\* The marking has marked the nodes of its frames, and no node has two.
DepthInv ==
  pass = "reach" =>
    \A k \in 1..Len(stack) :
      /\ stack[k].node \in reachable
      /\ \A l \in 1..Len(stack) : k < l => stack[k].node # stack[l].node

\* Frames of distinct nodes are no more than there are nodes.
LEMMA DepthBounded ==
  ASSUME Typed,
         \A k, l \in 1..Len(stack) : k < l => stack[k].node # stack[l].node
  PROVE  Len(stack) <= Cardinality(Nodes)
<1>1. Len(stack) \in Nat /\ \A k \in 1..Len(stack) : stack[k].node \in Nodes
  <2>1. stack \in Seq(Frames)
    BY DEF Typed
  <2>2. Len(stack) \in Nat /\ \A k \in 1..Len(stack) : stack[k] \in Frames
    BY <2>1
  <2> QED
    BY <2>2 DEF Frames
<1>2. PICK L \in Nat : L = Len(stack)
  BY ONLY <1>1
<1>3. PICK f \in [1..L -> Nodes] : \A k \in 1..L : f[k] = stack[k].node
  <2>1. [k \in 1..L |-> stack[k].node] \in [1..L -> Nodes]
    BY <1>1, <1>2
  <2> QED
    BY <2>1
<1>4. f \in Injection(1..L, Nodes)
  <2>1. ASSUME NEW k \in 1..L, NEW l \in 1..L, f[k] = f[l]
        PROVE  k = l
    <3>1. ~(k < l) /\ ~(l < k)
      BY <1>2, <1>3, <2>1
    <3> QED
      BY <1>2, <3>1
  <2> QED
    BY <2>1 DEF Injection, IsInjective
<1>5. Cardinality(1..L) <= Cardinality(Nodes)
  BY <1>4, FS_Injection, GraphsAssumption
<1>6. Cardinality(1..L) = L
  <2>1. Cardinality(1..L) = IF 1 > L THEN 0 ELSE L - 1 + 1
    BY FS_Interval
  <2> QED
    BY <2>1
<1> QED
  BY <1>2, <1>5, <1>6

LEMMA NextDepth == Typed /\ DepthInv /\ [Next]_vars => DepthInv'
<1> SUFFICES ASSUME Typed, DepthInv, [Next]_vars, pass' = "reach"
             PROVE  \A k \in 1..Len(stack') :
                      /\ stack'[k].node \in reachable'
                      /\ \A l \in 1..Len(stack') : k < l => stack'[k].node # stack'[l].node
  BY DEF DepthInv
<1>1. ASSUME NEW n \in Nodes, ReachPick(n)
      PROVE  \A k \in 1..Len(stack') :
               /\ stack'[k].node \in reachable'
               /\ \A l \in 1..Len(stack') : k < l => stack'[k].node # stack'[l].node
  <2>1. /\ stack' = IF n \in reachable THEN <<>> ELSE <<Frame(n)>>
        /\ n \in reachable'
    BY <1>1 DEF ReachPick
  <2>2. Len(stack') \in {0, 1} /\ (Len(stack') = 1 => stack'[1].node = n)
    BY <2>1 DEF Frame
  <2> QED
    BY <2>1, <2>2
<1>2. CASE ReachDescend
  <2>1. /\ pass = "reach" /\ MoreCallees /\ Searching /\ reachable' = reachable \cup {Callee}
        /\ stack' = IF Callee \in reachable THEN Advanced ELSE Append(Advanced, Frame(Callee))
    BY <1>2 DEF ReachDescend, MoreCallees
  <2>2. PICK L \in Nat : L = Len(stack)
    BY <2>1, TopTyped
  <2>3. /\ Len(Advanced) = L /\ Advanced \in Seq(Frames)
        /\ \A k \in 1..L : Advanced[k].node = stack[k].node
    BY <2>1, <2>2, AdvancedTyped
  <2>4. \A k \in 1..L : /\ stack[k].node \in reachable
                        /\ \A l \in 1..L : k < l => stack[k].node # stack[l].node
    BY <2>1, <2>2 DEF DepthInv
  <2>5. CASE Callee \in reachable
    BY <2>1, <2>3, <2>4, <2>5
  <2>6. CASE Callee \notin reachable
    <3>1. Frame(Callee) \in Frames /\ Frame(Callee).node = Callee
      BY <2>1, CalleeTyped DEF Frame, Frames
    <3>2. /\ Len(stack') = L + 1 /\ stack'[L + 1].node = Callee
          /\ \A k \in 1..L : stack'[k].node = stack[k].node
      BY <2>1, <2>3, <2>6, <3>1
    <3>3. \A k \in 1..(L + 1) : k \in 1..L \/ k = L + 1
      BY <2>2
    <3>4. ASSUME NEW k \in 1..(L + 1)
          PROVE  /\ stack'[k].node \in reachable'
                 /\ \A l \in 1..(L + 1) : k < l => stack'[k].node # stack'[l].node
      <4>1. CASE k = L + 1
        BY <2>1, <2>2, <3>2, <4>1
      <4>2. CASE k \in 1..L
        <5>1. stack'[k].node \in reachable /\ stack'[k].node # Callee
          BY <2>4, <2>6, <3>2, <4>2
        <5>2. \A l \in 1..L : k < l => stack'[k].node # stack'[l].node
          BY <2>4, <3>2, <4>2
        <5> QED
          BY <2>1, <3>2, <3>3, <5>1, <5>2
      <4> QED
        BY <3>3, <4>1, <4>2
    <3> QED
      BY <3>2, <3>4
  <2> QED
    BY <2>5, <2>6
<1>3. CASE ReachFinish
  <2>1. pass = "reach" /\ Searching /\ reachable' = reachable /\ stack' = Popped
    BY <1>3 DEF ReachFinish, NoMore
  <2>2. /\ Len(stack') = Len(stack) - 1 /\ Len(stack) \in Nat
        /\ \A k \in 1..Len(stack') : stack'[k] = stack[k]
    BY <2>1, PoppedTyped, TopTyped
  <2> QED
    BY <2>1, <2>2 DEF DepthInv
<1>4. CASE FlagsDone
  BY <1>4 DEF FlagsDone, Searching
<1>5. CASE UNCHANGED vars
  BY <1>5 DEF vars, DepthInv
<1>6. CASE \/ \E n \in Nodes : FlagsPick(n) \/ CyclesPick(n)
           \/ FlagsDescend \/ FlagsFinish \/ ReachDone
           \/ CyclesDescend \/ CyclesFinish \/ CyclesDone
  <2>1. pass' # "reach"
    BY <1>6 DEF FlagsPick, CyclesPick, FlagsDescend, FlagsFinish, ReachDone, CyclesDescend,
                CyclesFinish, CyclesDone
  <2> QED
    BY <2>1
<1> QED
  BY <1>1, <1>2, <1>3, <1>4, <1>5, <1>6 DEF Next, Step, Built

\* No search of recursive functions goes deeper than there are functions: the node it
\* goes into is in no frame.
THEOREM TypesAndDepth == Spec => []TypeOK
<1>1. Init => DepthInv
  BY DEF Init, SearchInit, DepthInv
<1>2. ASSUME Typed, LostInv, DepthInv, CyclesInv
      PROVE  TypeOK
  <2>1. \A k, l \in 1..Len(stack) : k < l => stack[k].node # stack[l].node
    <3>1. CASE pass = "flags"
      BY <1>2, <3>1 DEF LostInv
    <3>2. CASE pass = "reach"
      BY <1>2, <3>2 DEF DepthInv
    <3>3. CASE pass = "cycles"
      <4>1. TarjanInv
        BY <1>2, <3>3 DEF CyclesInv
      <4>2. ASSUME NEW k \in 1..Len(stack), NEW l \in 1..Len(stack), k < l
            PROVE  stack[k].node # stack[l].node
        <5>1. index[stack[k].node] < index[stack[l].node] /\ index[stack[k].node] \in Nat
          BY <4>1, <4>2 DEF TarjanInv, TarjanTyped, PathOfCalls
        <5> QED
          BY <5>1
      <4> QED
        BY <4>2
    <3>4. CASE pass = "done"
      BY <1>2, <3>4 DEF CyclesInv
    <3> QED
      BY <1>2, <3>1, <3>2, <3>3, <3>4 DEF Typed
  <2>2. Len(stack) <= Cardinality(Nodes)
    BY <1>2, <2>1, DepthBounded
  <2>3. /\ index \in [Nodes -> Nat] /\ low \in [Nodes -> Nat] /\ onStack \subseteq Nodes
        /\ nodeStack \in Seq(Nodes) /\ sccs \subseteq SUBSET Nodes
    <3>1. CASE pass \in {"flags", "reach"}
      <4>1. /\ index \in [Nodes -> Nat] /\ low \in [Nodes -> Nat]
            /\ onStack = {} /\ nodeStack = <<>> /\ sccs = {}
        BY <1>2, <3>1 DEF CyclesInv
      <4>2. <<>> \in Seq(Nodes)
        OBVIOUS
      <4> QED
        BY <4>1, <4>2
    <3>2. CASE pass \in {"cycles", "done"}
      BY <1>2, <3>2 DEF CyclesInv, TarjanInv, TarjanTyped
    <3> QED
      BY <1>2, <3>1, <3>2 DEF Typed
  <2>4. visited \subseteq Nodes
    BY <1>2 DEF LostInv
  <2> QED
    BY <1>2, <2>2, <2>3, <2>4 DEF TypeOK, Typed
<1> QED
  BY <1>1, <1>2, InitTyped, NextTyped, InitLost, NextLost, NextDepth, InitCycles, NextCycles,
     PTL DEF Spec

-----------------------------------------------------------------------------
(* BuildRight: the graph that passes 1 and 2 make *)

IDOf(x)   == FunctionID(unit[x[1]].name, Fn(x))
Passed(x) == x[1] < at.contract \/ (x[1] = at.contract /\ x[2] < at.function)
PassedAll == {x \in All : Passed(x)}
IDs       == {IDOf(x) : x \in All}
Here      == <<at.contract, at.function>>

\* The builder is past the j-th call of x.
PastCall(x, j) == Passed(x) \/ (x = Here /\ j < at.call)

Places == [contract : Nat \ {0}, function : Nat \ {0}, call : Nat \ {0}]

GraphTyped ==
  /\ callees \in [Nodes -> Seq(Nodes)]
  /\ marked \subseteq Nodes /\ entries \subseteq Nodes /\ external \subseteq Nodes

BuildTyped ==
  /\ unit \in Units
  /\ phase \in {"nodes", "calls", "passes", "report"}
  /\ at \in Places /\ (AtFunction \/ (at.function = 1 /\ at.call = 1))
  /\ declared \in Seq(IDs)
  /\ GraphTyped

\* Pass 1 adds a node for each function it is past ...
NodesInv ==
  /\ Len(declared) = Cardinality(PassedAll)
  /\ \A x \in PassedAll : \E i \in 1..Len(declared) : declared[i] = IDOf(x)
  /\ callees = [n \in Nodes |-> <<>>] /\ external = {}

\* What a call that is walked must have made
Made(x, c) ==
  /\ (c.form = "name" /\ c.name \notin Builtins /\ Meant(x[1], c.name) # NoNode) =>
       Calls(Of(x), Meant(x[1], c.name)) \/ Ambiguous(x[1], c.name)
  /\ Leaves(c) => Of(x) \in external

EdgesInv ==
  /\ Len(declared) <= Cardinality(All)
  /\ \A x \in All : \E i \in 1..Len(declared) : declared[i] = IDOf(x)
  /\ \A x \in All : \A j \in 1..Len(Fn(x).calls) : \A c \in {Fn(x).calls[j]} :
       PastCall(x, j) /\ c.walked /\ ~Lost(x) => Made(x, c)
  /\ \A m, n \in Nodes : Calls(m, n) =>
       \E x \in All : Of(x) = m /\ ~Lost(x) /\ \E c \in Walked(x) : MayMean(x[1], c, n)
  /\ \A n \in external : \E x \in All : Of(x) = n /\ ~Lost(x) /\ \E c \in Walked(x) : Leaves(c)

SearchesInv == Typed /\ FlagsSound /\ ReachInv /\ LostInv /\ CyclesInv

BuildInv ==
  /\ BuildTyped
  /\ phase = "nodes" => NodesInv
  /\ phase # "nodes" => EdgesInv
  /\ phase \in {"nodes", "calls"} => SearchInit
  /\ phase \in {"passes", "report"} => at.contract > Len(unit) /\ SearchesInv
  /\ phase = "report" =>
       /\ pass = "done"
       /\ cycleFindings = SecurityRelevantCycles
       /\ matrix = [n \in InMap |-> TransitiveCallees(n)]

-----------------------------------------------------------------------------
\* A set of natural numbers that is not empty has a least one.
LEMMA LeastOf ==
  ASSUME NEW T, T \subseteq Nat, T # {}
  PROVE  \E x \in T : \A y \in T : x <= y
<1> DEFINE Less == {p \in Nat \X Nat : p[1] < p[2]}
<1>1. OpToRel(<, Nat) = Less
  BY DEF OpToRel
<1>2. IsWellFoundedOn(Less, Nat)
  BY <1>1, NatLessThanWellFounded
<1>3. PICK x \in T : \A y \in T : ~(<<y, x>> \in Less)
  <2> HIDE DEF Less
  <2> QED
    BY <1>2, WFMin
<1>4. ASSUME NEW y \in T PROVE x <= y
  <2>1. x \in Nat /\ y \in Nat
    OBVIOUS
  <2>2. ~(y < x)
    BY <1>3, <2>1
  <2> QED
    BY <2>1, <2>2
<1> QED
  BY <1>4

\* Induction over the natural numbers, for a set instead of a predicate.
LEMMA NatSetInduction ==
  ASSUME NEW T, 0 \in T, \A n \in Nat : n \in T => n + 1 \in T
  PROVE  Nat \subseteq T
<1> SUFFICES ASSUME ~(Nat \subseteq T) PROVE FALSE
  OBVIOUS
<1>1. PICK x \in Nat \ T : \A y \in Nat \ T : x <= y
  BY LeastOf
<1>2. x # 0
  BY <1>1
<1>3. x - 1 \in Nat /\ x - 1 \in T
  BY <1>1, <1>2
<1> QED
  BY <1>1, <1>2, <1>3

\* What the assumption says of a unit and its functions
LEMMA UnitTyped ==
  ASSUME unit \in Units
  PROVE  /\ Len(unit) \in Nat
         /\ \A k \in 1..Len(unit) : unit[k] \in SourceContracts /\ Len(unit[k].functions) \in Nat
         /\ \A x \in All : /\ x[1] \in 1..Len(unit) /\ x[2] \in 1..Len(unit[x[1]].functions)
                           /\ x = <<x[1], x[2]>>
                           /\ Fn(x) \in SourceFunctions
                           /\ Len(Fn(x).calls) \in Nat
                           /\ \A j \in 1..Len(Fn(x).calls) : Fn(x).calls[j] \in SourceCalls
         /\ \A k \in 1..Len(unit) : \A i \in 1..Len(unit[k].functions) : <<k, i>> \in All
         /\ 1..Cardinality(All) \subseteq Nodes
<1>1. unit \in Seq(SourceContracts) /\ 1..Cardinality(All) \subseteq Nodes
  BY UnitsAssumption DEF All
<1>2. Len(unit) \in Nat /\ \A k \in 1..Len(unit) : unit[k] \in SourceContracts /\ unit[k].functions \in Seq(SourceFunctions)
  <2>1. Len(unit) \in Nat /\ \A k \in 1..Len(unit) : unit[k] \in SourceContracts
    BY <1>1
  <2>2. ASSUME NEW c \in SourceContracts
        PROVE  c.functions \in Seq(SourceFunctions)
    BY DEF SourceContracts
  <2> QED
    BY <2>1, <2>2
<1>3. \A k \in 1..Len(unit) :
        /\ Len(unit[k].functions) \in Nat
        /\ \A i \in 1..Len(unit[k].functions) : unit[k].functions[i] \in SourceFunctions
  BY <1>2
<1>4. ASSUME NEW x \in All
      PROVE  /\ x[1] \in 1..Len(unit) /\ x[2] \in 1..Len(unit[x[1]].functions)
             /\ x = <<x[1], x[2]>>
             /\ Fn(x) \in SourceFunctions
  <2>1. PICK k \in 1..Len(unit) : \E i \in 1..Len(unit[k].functions) : x = <<k, i>>
    BY DEF All, FunctionsOf
  <2>2. x[1] = k /\ x[2] \in 1..Len(unit[k].functions) /\ x = <<x[1], x[2]>>
    BY <2>1
  <2> QED
    BY <1>3, <2>1, <2>2 DEF Fn
<1>5. ASSUME NEW f \in SourceFunctions
      PROVE  Len(f.calls) \in Nat /\ \A j \in 1..Len(f.calls) : f.calls[j] \in SourceCalls
  <2>1. f.calls \in Seq(SourceCalls)
    BY DEF SourceFunctions
  <2> QED
    BY <2>1
<1>6. \A k \in 1..Len(unit) : \A i \in 1..Len(unit[k].functions) : <<k, i>> \in All
  BY DEF All, FunctionsOf
<1> QED
  BY <1>1, <1>2, <1>3, <1>4, <1>5, <1>6

\* A unit has finitely many functions.
LEMMA OwnFinite ==
  ASSUME NEW k, NEW n \in Nat
  PROVE  IsFiniteSet({<<k, i>> : i \in 1..n})
<1>1. [i \in 1..n |-> <<k, i>>] \in Surjection(1..n, {<<k, i>> : i \in 1..n})
  BY DEF Surjection
<1>2. IsFiniteSet(1..n)
  BY FS_Interval
<1> QED
  BY <1>1, <1>2, FS_Surjection

LEMMA AllFinite ==
  ASSUME unit \in Units
  PROVE  IsFiniteSet(All)
<1> DEFINE Own(k) == {<<k, i>> : i \in 1..Len(unit[k].functions)}
           Owns   == {Own(k) : k \in 1..Len(unit)}
<1>1. \A k \in 1..Len(unit) : IsFiniteSet(Own(k))
  BY UnitTyped, OwnFinite
<1>2. All = UNION Owns
  BY DEF All, FunctionsOf
<1> HIDE DEF Own
<1>3. [k \in 1..Len(unit) |-> Own(k)] \in Surjection(1..Len(unit), Owns)
  BY DEF Surjection
<1>4. IsFiniteSet(1..Len(unit))
  <2>1. Len(unit) \in Nat
    BY UnitTyped
  <2> QED
    BY <2>1, FS_Interval
<1>5. IsFiniteSet(Owns)
  BY <1>3, <1>4, FS_Surjection
<1> QED
  BY <1>1, <1>2, <1>5, FS_UNION

\* A node of cg.Nodes is the last one declared with the id, if there is one.
LEMMA NodeIs ==
  ASSUME declared \in Seq(IDs), NEW id
  PROVE  /\ Node(id) \in 0..Len(declared)
         /\ Node(id) # NoNode => declared[Node(id)] = id /\ Node(id) \in InMap
         /\ (\E i \in 1..Len(declared) : declared[i] = id) => Node(id) # NoNode
<1> DEFINE S == {i \in 1..Len(declared) : declared[i] = id} \cup {NoNode}
<1>1. PICK L \in Nat : L = Len(declared)
  BY LenProperties
<1>2. S \subseteq 0..L /\ 0 \in S
  BY <1>1 DEF NoNode
<1>3. IsFiniteSet(S)
  <2>1. IsFiniteSet(0..L)
    BY FS_Interval
  <2> QED
    BY <1>2, <2>1, FS_Subset
<1>4. \E x \in S : \A y \in S : x >= y
  <2> HIDE DEF S
  <2> DEFINE T == {n \in Nat : \A y \in S : n >= y}
  <2>1. L \in T
    BY <1>2
  <2>2. PICK n \in T : \A y \in T : n <= y
    BY <2>1, LeastOf
  <2>3. CASE n = 0
    BY <1>2, <2>2, <2>3
  <2>4. CASE n # 0
    <3>1. n - 1 \in Nat /\ n - 1 \notin T
      BY <2>2, <2>4
    <3>2. PICK y \in S : ~(n - 1 >= y)
      BY <3>1
    <3>3. y \in 0..L /\ n >= y
      BY <1>2, <2>2
    <3>4. y = n
      BY <2>2, <3>2, <3>3
    <3> QED
      BY <2>2, <3>4
  <2> QED
    BY <2>3, <2>4
<1>5. Node(id) \in S /\ \A y \in S : Node(id) >= y
  BY <1>4 DEF Node, Max
<1>6. Node(id) # NoNode => Node(id) \in 1..Len(declared) /\ declared[Node(id)] = id
  BY <1>5
<1>7. Node(id) # NoNode => Node(id) \in InMap
  BY <1>6 DEF InMap
<1>8. ASSUME NEW i \in 1..Len(declared), declared[i] = id
      PROVE  Node(id) # NoNode
  <2>1. i \in S /\ i > 0
    BY <1>1, <1>8
  <2>2. Node(id) >= i /\ Node(id) \in 0..L
    BY <1>2, <1>5, <2>1
  <2> HIDE DEF S
  <2> QED
    BY <1>1, <2>1, <2>2 DEF NoNode
<1> QED
  BY <1>1, <1>2, <1>5, <1>6, <1>7, <1>8

\* The source stays as it is, and so do the functions and their ids.
LEMMA SameUnit ==
  ASSUME unit' = unit
  PROVE  /\ All' = All /\ IDs' = IDs
         /\ \A x : Fn(x)' = Fn(x) /\ IDOf(x)' = IDOf(x) /\ (Lost(x)' <=> Lost(x)) /\ Walked(x)' = Walked(x)
<1>1. All' = All
  BY DEF All, FunctionsOf
<1>2. \A x : Fn(x)' = Fn(x)
  BY DEF Fn
<1>3. \A x : IDOf(x)' = IDOf(x)
  BY <1>2 DEF IDOf
<1>4. IDs' = IDs
  BY <1>1, <1>3 DEF IDs
<1>5. \A x : Lost(x)' <=> Lost(x)
  BY <1>2 DEF Lost
<1>6. \A x : Walked(x)' = Walked(x)
  BY <1>2 DEF Walked
<1> QED
  BY <1>1, <1>2, <1>3, <1>4, <1>5, <1>6

\* The place after a function: one function more is passed.
LEMMA NextPlace ==
  ASSUME BuildTyped, AtFunction, at' = NextFunction, unit' = unit
  PROVE  /\ at' \in Places /\ at'.call = 1 /\ (AtFunction' \/ at'.function = 1)
         /\ Here \in All /\ ~Passed(Here)
         /\ \A x \in All : Passed(x)' <=> Passed(x) \/ x = Here
         /\ PassedAll' = PassedAll \cup {Here}
<1>1. /\ at \in Places /\ at.contract \in 1..Len(unit) /\ Len(unit) \in Nat
      /\ at.function \in 1..Len(unit[at.contract].functions)
      /\ Len(unit[at.contract].functions) \in Nat
  BY UnitTyped DEF BuildTyped, Places, AtFunction, Contract
<1>2. Here \in All
  BY <1>1, UnitTyped DEF Here, BuildTyped
<1>3. Here[1] = at.contract /\ Here[2] = at.function
  BY DEF Here
<1>4. ~Passed(Here)
  BY <1>1, <1>3 DEF Passed
<1>5. /\ at'.call = 1 /\ at' \in Places
      /\ at.function < Len(unit[at.contract].functions) =>
           at'.contract = at.contract /\ at'.function = at.function + 1
      /\ at.function = Len(unit[at.contract].functions) =>
           at'.contract = at.contract + 1 /\ at'.function = 1
  <2>1. CASE at.function < Len(unit[at.contract].functions)
    <3>1. at' = [at EXCEPT !.function = @ + 1, !.call = 1]
      BY <2>1 DEF NextFunction, Contract
    <3>2. at' = [contract |-> at.contract, function |-> at.function + 1, call |-> 1]
      BY <1>1, <3>1 DEF Places
    <3>3. at'.contract = at.contract /\ at'.function = at.function + 1 /\ at'.call = 1
      BY <3>2
    <3>4. at.contract \in Nat \ {0} /\ at.function + 1 \in Nat \ {0} /\ 1 \in Nat \ {0}
      BY <1>1 DEF Places
    <3>5. at' \in Places
      BY <3>2, <3>4 DEF Places
    <3> QED
      BY <1>1, <2>1, <3>3, <3>5
  <2>2. CASE ~(at.function < Len(unit[at.contract].functions))
    <3>1. at' = [contract |-> at.contract + 1, function |-> 1, call |-> 1]
      BY <2>2 DEF NextFunction, Contract
    <3> QED
      BY <1>1, <2>2, <3>1 DEF Places
  <2> QED
    BY <2>1, <2>2
<1>8. AtFunction' \/ at'.function = 1
  <2>1. CASE at.function < Len(unit[at.contract].functions)
    <3>1. at'.contract = at.contract /\ at'.function = at.function + 1
      BY <1>5, <2>1
    <3> QED
      BY <1>1, <2>1, <3>1 DEF AtFunction, Contract
  <2>2. CASE at.function = Len(unit[at.contract].functions)
    BY <1>5, <2>2
  <2> QED
    BY <1>1, <2>1, <2>2
<1>6. ASSUME NEW x \in All
      PROVE  Passed(x)' <=> Passed(x) \/ x = Here
  <2>1. /\ x[1] \in 1..Len(unit) /\ x[2] \in 1..Len(unit[x[1]].functions)
        /\ x = <<x[1], x[2]>>
    BY UnitTyped DEF BuildTyped
  <2>2. x = Here <=> x[1] = at.contract /\ x[2] = at.function
    BY <1>3, <2>1 DEF Here
  <2> QED
    BY <1>1, <1>5, <2>1, <2>2 DEF Passed, Places
<1>7. PassedAll' = PassedAll \cup {Here}
  BY <1>2, <1>6, SameUnit DEF PassedAll
<1> QED
  BY <1>2, <1>4, <1>5, <1>6, <1>7, <1>8

\* The place after a contract without functions: none more is passed.
LEMMA SkipPlace ==
  ASSUME BuildTyped, SkipContract
  PROVE  /\ at' \in Places /\ at'.function = 1 /\ at'.call = 1
         /\ \A x \in All : Passed(x)' <=> Passed(x)
         /\ PassedAll' = PassedAll
<1>1. /\ at \in Places /\ at.contract \in 1..Len(unit) /\ Len(unit) \in Nat
      /\ Len(unit[at.contract].functions) = 0
      /\ at' = [at EXCEPT !.contract = @ + 1] /\ unit' = unit
  BY UnitTyped DEF BuildTyped, Places, SkipContract, Contract
<1>2. at.function = 1 /\ at.call = 1
  BY <1>1 DEF BuildTyped, AtFunction, Contract, Places
<1>3. at' = [contract |-> at.contract + 1, function |-> 1, call |-> 1]
  BY <1>1, <1>2 DEF Places
<1>4. /\ at' \in Places /\ at'.call = 1 /\ at'.function = 1
      /\ at'.contract = at.contract + 1
  BY <1>1, <1>3 DEF Places
<1>5. ASSUME NEW x \in All
      PROVE  Passed(x)' <=> Passed(x)
  <2>1. /\ x[1] \in 1..Len(unit) /\ x[2] \in 1..Len(unit[x[1]].functions)
        /\ Len(unit[x[1]].functions) \in Nat
    BY UnitTyped DEF BuildTyped
  <2>2. x[1] # at.contract
    BY <1>1, <2>1
  <2>3. x[1] \in Nat /\ x[2] \in Nat \ {0} /\ at.contract \in Nat
    BY <1>1, <2>1 DEF Places
  <2> QED
    BY <1>2, <1>4, <2>2, <2>3 DEF Passed
<1> QED
  BY <1>4, <1>5, <1>1, SameUnit DEF PassedAll

LEMMA SameNodes ==
  ASSUME unit' = unit, declared' = declared
  PROVE  /\ InMap' = InMap
         /\ \A id : Node(id)' = Node(id)
         /\ \A x : Of(x)' = Of(x)
         /\ \A name : CalledSo(name)' = CalledSo(name)
         /\ \A k, name : Meant(k, name)' = Meant(k, name) /\ (Ambiguous(k, name)' <=> Ambiguous(k, name))
         /\ \A c : Leaves(c)' <=> Leaves(c)
         /\ \A k, c, n : MayMean(k, c, n)' <=> MayMean(k, c, n)
<1>1. \A id : Node(id)' = Node(id)
  BY DEF Node
<1>2. InMap' = InMap
  BY <1>1 DEF InMap
<1>3. \A x : Of(x)' = Of(x)
  BY DEF Of, Node, FunctionID, Fn
<1>4. \A name : CalledSo(name)' = CalledSo(name)
  BY <1>2 DEF CalledSo
<1>5. \A k, name : Meant(k, name)' = Meant(k, name)
  <2>1. \A k : Line(k)' = Line(k)
    BY DEF Line
  <2>2. \A c, name : Node(Named(c, name))' = Node(Named(c, name))
    BY DEF Node, Named
  <2>3. \A k, name : Having(k, name)' = Having(k, name)
    BY <2>1, <2>2 DEF Having
  <2> QED
    BY <2>1, <2>2, <2>3 DEF Meant, Named, Node
<1>6. \A k, name : Ambiguous(k, name)' <=> Ambiguous(k, name)
  BY <1>1, <1>4, <1>5 DEF Ambiguous, Named
<1>7. \A c : Leaves(c)' <=> Leaves(c)
  BY <1>1 DEF Leaves, Named
<1>8. \A k, c, n : MayMean(k, c, n)' <=> MayMean(k, c, n)
  BY <1>1, <1>4, <1>5, <1>6 DEF MayMean, Named
<1> QED
  BY <1>1, <1>2, <1>3, <1>4, <1>5, <1>6, <1>7, <1>8

LEMMA LineIs ==
  ASSUME NEW X, NEW e \in X, NEW s \in Seq(X)
  PROVE  Len(<<e>> \o s) \in Nat \ {0} /\ (<<e>> \o s)[1] = e
<1>1. <<e>> \in Seq(X) /\ Len(<<e>>) = 1 /\ <<e>>[1] = e
  OBVIOUS
<1>2. /\ Len(<<e>> \o s) = Len(<<e>>) + Len(s)
      /\ \A i \in 1..Len(<<e>>) + Len(s) : (<<e>> \o s)[i] =
           IF i <= Len(<<e>>) THEN <<e>>[i] ELSE s[i - Len(<<e>>)]
  BY <1>1, ConcatProperties
<1>3. Len(s) \in Nat
  OBVIOUS
<1> QED
  BY <1>1, <1>2, <1>3

\* A node of that id is a function of that name.
LEMMA NamedIs ==
  ASSUME declared \in Seq(IDs), NEW c, NEW name
  PROVE  Node(Named(c, name)) # NoNode => Node(Named(c, name)) \in CalledSo(name)
<1> SUFFICES ASSUME Node(Named(c, name)) # NoNode
             PROVE  Node(Named(c, name)) \in CalledSo(name)
  OBVIOUS
<1> DEFINE i == Node(Named(c, name))
<1>1. i \in InMap /\ declared[i] = Named(c, name)
  BY NodeIs DEF IDs
<1>2. declared[i][2] = name /\ declared[i][3] = FALSE
  BY <1>1 DEF Named
<1> QED
  BY <1>1, <1>2 DEF CalledSo

\* The contract's own function of the name is meant, if it has one, and in any
\* case a function of the name.
LEMMA MeantIs ==
  ASSUME BuildTyped, NEW k \in 1..Len(unit), NEW name
  PROVE  /\ Meant(k, name) # NoNode => Meant(k, name) \in CalledSo(name)
         /\ Node(Named(unit[k].name, name)) # NoNode => Meant(k, name) = Node(Named(unit[k].name, name))
<1> DEFINE one == Min(Having(k, name))
<1>1. unit[k] \in SourceContracts
  BY UnitTyped DEF BuildTyped
<1>2. unit[k].bases \in Seq(STRING) /\ unit[k].name \in STRING
  BY <1>1, Zenon DEF SourceContracts
<1>3. Len(Line(k)) \in Nat \ {0} /\ Line(k)[1] = unit[k].name
  BY <1>2, LineIs DEF Line
<1>4. Having(k, name) \subseteq Nat
  BY <1>3 DEF Having
<1>5. ASSUME Having(k, name) # {}
      PROVE  one \in Having(k, name) /\ \A l \in Having(k, name) : one <= l
  <2>1. \E j \in Having(k, name) : \A l \in Having(k, name) : j <= l
    BY <1>4, <1>5, LeastOf
  <2> QED
    BY <2>1 DEF Min
<1> HIDE DEF one
<1>6. ASSUME Meant(k, name) # NoNode
      PROVE  Meant(k, name) \in CalledSo(name)
  <2>1. Meant(k, name) = Node(Named(Line(k)[one], name))
    BY <1>6 DEF Meant, one
  <2> QED
    BY <1>6, <2>1, NamedIs DEF BuildTyped
<1>7. ASSUME Node(Named(unit[k].name, name)) # NoNode
      PROVE  Meant(k, name) = Node(Named(unit[k].name, name))
  <2>1. 1 \in Having(k, name)
    BY <1>3, <1>7 DEF Having
  <2>2. one \in 1..Len(Line(k)) /\ one <= 1
    BY <1>5, <2>1 DEF Having
  <2>3. one = 1
    BY <1>3, <2>2
  <2> QED
    BY <1>3, <2>1, <2>3 DEF Meant, one
<1> QED
  BY <1>6, <1>7

-----------------------------------------------------------------------------
\* The function the builder is in, and the node its calls are given
LEMMA CurrentIs ==
  ASSUME BuildTyped, EdgesInv, AtFunction
  PROVE  /\ Here \in All /\ Here[1] = at.contract /\ FunctionAt = Fn(Here)
         /\ Here[1] \in 1..Len(unit)
         /\ Contract.name = unit[Here[1]].name
         /\ Current = IF Lost(Here) THEN NoNode ELSE Of(Here)
         /\ Of(Here) # NoNode /\ Of(Here) \in Nodes
         /\ InMap \subseteq Nodes
<1>1. /\ at \in Places /\ at.contract \in 1..Len(unit) /\ Len(unit) \in Nat
      /\ at.function \in 1..Len(unit[at.contract].functions)
  BY UnitTyped DEF BuildTyped, Places, AtFunction, Contract
<1>2. Here \in All
  BY <1>1, UnitTyped DEF Here, BuildTyped
<1>3. Here[1] = at.contract /\ Here[2] = at.function
  BY DEF Here
<1>4. FunctionAt = Fn(Here) /\ Contract.name = unit[Here[1]].name
  BY <1>3 DEF FunctionAt, Contract, Fn
<1>5. Current = IF Lost(Here) THEN NoNode ELSE Of(Here)
  BY <1>4, Zenon DEF Current, Lost, Of
<1>6. 1..Len(declared) \subseteq Nodes
  <2>1. /\ Len(declared) \in Nat /\ Len(declared) <= Cardinality(All)
        /\ 1..Cardinality(All) \subseteq Nodes /\ Cardinality(All) \in Nat
    BY AllFinite, FS_CardinalityType, UnitTyped DEF BuildTyped, EdgesInv
  <2> QED
    BY <2>1
<1>7. Of(Here) # NoNode /\ Of(Here) \in 0..Len(declared)
  <2>1. Of(Here) = Node(IDOf(Here))
    BY DEF Of, IDOf
  <2>2. \E i \in 1..Len(declared) : declared[i] = IDOf(Here)
    BY <1>2 DEF EdgesInv
  <2> QED
    BY <2>1, <2>2, NodeIs DEF BuildTyped
<1>8. Of(Here) \in Nodes
  <2>1. Len(declared) \in Nat
    BY DEF BuildTyped
  <2> QED
    BY <1>6, <1>7, <2>1 DEF NoNode
<1> QED
  BY <1>1, <1>2, <1>3, <1>4, <1>5, <1>6, <1>7, <1>8 DEF InMap

\* AddCallSite makes the edge to the callee, if caller and callee are nodes, and no other.
LEMMA SiteIs ==
  ASSUME BuildTyped, EdgesInv, AtFunction, NEW callee, callee = NoNode \/ callee \in InMap,
         Site(callee)
  PROVE  /\ callees' \in [Nodes -> Seq(Nodes)] /\ marked' \subseteq Nodes
         /\ \A m, n \in Nodes :
              Calls(m, n)' <=>
                Calls(m, n) \/ (~Lost(Here) /\ callee # NoNode /\ m = Of(Here) /\ n = callee)
<1>1. /\ Current = IF Lost(Here) THEN NoNode ELSE Of(Here)
      /\ Of(Here) # NoNode /\ Of(Here) \in Nodes /\ InMap \subseteq Nodes
  BY CurrentIs
<1>2. callees \in [Nodes -> Seq(Nodes)] /\ marked \subseteq Nodes
  BY DEF BuildTyped, GraphTyped
<1>3. CASE Lost(Here) \/ callee = NoNode
  <2>1. callees' = callees /\ marked' \subseteq Nodes
    BY <1>1, <1>2, <1>3 DEF Site
  <2> QED
    BY <1>2, <1>3, <2>1 DEF Calls
<1>4. CASE ~Lost(Here) /\ callee # NoNode
  <2>1. callee \in Nodes /\ Current = Of(Here)
    BY <1>1, <1>4
  <2>2. marked' = marked /\ callees' = [callees EXCEPT ![Of(Here)] = Append(callees[Of(Here)], callee)]
    BY <1>1, <1>4, <2>1 DEF Site
  <2>3. callees[Of(Here)] \in Seq(Nodes)
    BY <1>1, <1>2
  <2>4. callees' \in [Nodes -> Seq(Nodes)]
    BY <1>1, <1>2, <2>1, <2>2, <2>3
  <2>5. ASSUME NEW m \in Nodes, NEW n \in Nodes
        PROVE  Calls(m, n)' <=> Calls(m, n) \/ (m = Of(Here) /\ n = callee)
    <3>1. CASE m # Of(Here)
      BY <1>2, <2>2, <3>1 DEF Calls
    <3>2. CASE m = Of(Here)
      <4>1. callees'[m] = Append(callees[m], callee) /\ callees[m] \in Seq(Nodes)
        BY <1>2, <2>2, <2>3, <3>2
      <4>2. /\ Len(callees'[m]) = Len(callees[m]) + 1 /\ Len(callees[m]) \in Nat
            /\ \A i \in 1..Len(callees[m]) : callees'[m][i] = callees[m][i]
            /\ callees'[m][Len(callees[m]) + 1] = callee
        BY <2>1, <4>1
      <4> QED
        BY <3>2, <4>2 DEF Calls
    <3> QED
      BY <3>1, <3>2
  <2> QED
    BY <1>2, <1>4, <2>2, <2>4, <2>5
<1> QED
  BY <1>3, <1>4

\* The functions have nodes, and what a call means is one.
LEMMA OfIsNode ==
  ASSUME BuildTyped, EdgesInv
  PROVE  /\ 1..Len(declared) \subseteq Nodes
         /\ \A x \in All : Of(x) \in Nodes /\ Of(x) # NoNode /\ Of(x) \in InMap
<1>1. Len(declared) \in Nat /\ 1..Len(declared) \subseteq Nodes
  <2>1. /\ Len(declared) \in Nat /\ Len(declared) <= Cardinality(All)
        /\ 1..Cardinality(All) \subseteq Nodes /\ Cardinality(All) \in Nat
    BY AllFinite, FS_CardinalityType, UnitTyped DEF BuildTyped, EdgesInv
  <2> QED
    BY <2>1
<1>2. ASSUME NEW x \in All
      PROVE  Of(x) \in Nodes /\ Of(x) # NoNode /\ Of(x) \in InMap
  <2>1. Of(x) = Node(IDOf(x))
    BY DEF Of, IDOf
  <2>2. \E i \in 1..Len(declared) : declared[i] = IDOf(x)
    BY DEF EdgesInv
  <2>3. Of(x) # NoNode /\ Of(x) \in InMap
    BY <2>1, <2>2, NodeIs DEF BuildTyped
  <2> QED
    BY <1>1, <2>3 DEF InMap
<1> QED
  BY <1>1, <1>2

LEMMA MeantIsNode ==
  ASSUME BuildTyped, EdgesInv, NEW x \in All, NEW name
  PROVE  Meant(x[1], name) # NoNode => Meant(x[1], name) \in Nodes
<1>1. x[1] \in 1..Len(unit)
  BY UnitTyped DEF BuildTyped
<1> QED
  BY <1>1, MeantIs, OfIsNode DEF CalledSo, InMap

\* What the step that collects the call c of x leaves behind
CallMade(x, c) ==
  /\ GraphTyped'
  /\ \A m, n \in Nodes : Calls(m, n) => Calls(m, n)'
  /\ external \subseteq external'
  /\ c.walked /\ ~Lost(x) => Made(x, c)'
  /\ \A m, n \in Nodes : Calls(m, n)' =>
       Calls(m, n) \/ (c.walked /\ ~Lost(x) /\ m = Of(x) /\ MayMean(x[1], c, n))
  /\ \A n \in external' :
       n \in external \/ (c.walked /\ ~Lost(x) /\ n = Of(x) /\ Leaves(c))

Collecting(x, c) ==
  /\ BuildTyped /\ EdgesInv /\ AtFunction /\ x = Here /\ c = Call /\ c.walked
  /\ unit' = unit /\ declared' = declared /\ entries' = entries

\* What is made of a call, in the state that is left behind
LEMMA MadeIs ==
  ASSUME unit' = unit, declared' = declared, NEW x, NEW c
  PROVE  Made(x, c)' <=>
           /\ (c.form = "name" /\ c.name \notin Builtins /\ Meant(x[1], c.name) # NoNode) =>
                (\E i \in 1..Len(callees'[Of(x)]) : callees'[Of(x)][i] = Meant(x[1], c.name))
                \/ Ambiguous(x[1], c.name)
           /\ Leaves(c) => Of(x) \in external'
<1>1. /\ Of(x)' = Of(x) /\ Meant(x[1], c.name)' = Meant(x[1], c.name)
      /\ (Ambiguous(x[1], c.name)' <=> Ambiguous(x[1], c.name)) /\ (Leaves(c)' <=> Leaves(c))
  BY SameNodes
<1> QED
  BY <1>1 DEF Made, Calls

LEMMA ExternalSiteMade ==
  ASSUME NEW x, NEW c, Collecting(x, c), ExternalSite, Leaves(c), c.form # "name"
  PROVE  CallMade(x, c)
<1>1. BuildTyped /\ EdgesInv /\ AtFunction /\ x = Here /\ c.walked /\ unit' = unit
      /\ declared' = declared /\ entries' = entries
  BY DEF Collecting
<1>2. /\ callees' \in [Nodes -> Seq(Nodes)] /\ marked' \subseteq Nodes
      /\ \A m, n \in Nodes : Calls(m, n)' <=> Calls(m, n)
  <2>1. Site(NoNode)
    BY DEF ExternalSite
  <2> QED
    BY <1>1, <2>1, SiteIs
<1>3. external' = IF Lost(x) THEN external ELSE external \cup {Of(x)}
  BY <1>1, CurrentIs DEF ExternalSite
<1>4. GraphTyped'
  BY <1>1, <1>2, <1>3, CurrentIs DEF GraphTyped, BuildTyped
<1>5. ~Lost(x) => Made(x, c)'
  BY <1>1, <1>3, MadeIs
<1> QED
  BY <1>1, <1>2, <1>3, <1>4, <1>5 DEF CallMade

LEMMA IdentifierCallMade ==
  ASSUME NEW x, NEW c, Collecting(x, c), IdentifierCall
  PROVE  CallMade(x, c)
<1>1. /\ BuildTyped /\ EdgesInv /\ AtFunction /\ x = Here /\ c = Call /\ c.walked
      /\ unit' = unit /\ declared' = declared /\ entries' = entries /\ external' = external
      /\ c.form = "name"
  BY DEF Collecting, IdentifierCall
<1>2. ~Leaves(c)
  BY <1>1 DEF Leaves
<1>3. x[1] \in 1..Len(unit) /\ Contract.name = unit[x[1]].name /\ declared \in Seq(IDs)
  BY <1>1, CurrentIs DEF BuildTyped
<1>4. CASE c.name \in Builtins
  <2>1. callees' = callees /\ marked' = marked
    BY <1>1, <1>4 DEF IdentifierCall
  <2>2. \A m, n : Calls(m, n)' <=> Calls(m, n)
    BY <2>1, SameCalls
  <2>3. Made(x, c)'
    BY <1>1, <1>2, <1>4, MadeIs
  <2> QED
    BY <1>1, <2>1, <2>2, <2>3 DEF CallMade, GraphTyped, BuildTyped
<1>5. CASE c.name \notin Builtins
  <2>1. PICK callee \in Resolved(Contract.name, c.name) : Site(callee)
    BY <1>1, <1>5 DEF IdentifierCall
  <2> DEFINE own == Node(Named(unit[x[1]].name, c.name))
  <2>2. /\ own # NoNode => callee = own /\ callee \in CalledSo(c.name)
        /\ own = NoNode /\ CalledSo(c.name) # {} => callee \in CalledSo(c.name)
        /\ own = NoNode /\ CalledSo(c.name) = {} => callee = NoNode
    BY <1>3, <2>1, NamedIs DEF Resolved
  <2>3. callee = NoNode \/ callee \in InMap
    BY <2>2 DEF CalledSo
  <2>4. /\ callees' \in [Nodes -> Seq(Nodes)] /\ marked' \subseteq Nodes
        /\ \A m, n \in Nodes :
             Calls(m, n)' <=> Calls(m, n) \/ (~Lost(x) /\ callee # NoNode /\ m = Of(x) /\ n = callee)
    BY <1>1, <2>1, <2>3, SiteIs
  <2>5. /\ Meant(x[1], c.name) # NoNode => Meant(x[1], c.name) \in CalledSo(c.name)
        /\ own # NoNode => Meant(x[1], c.name) = own
    BY <1>1, <1>3, MeantIs
  <2>6. Ambiguous(x[1], c.name) <=> own = NoNode /\ CalledSo(c.name) \ {Meant(x[1], c.name)} # {}
    BY DEF Ambiguous
  <2>7. callee # NoNode => MayMean(x[1], c, callee)
    BY <1>1, <2>2, <2>5, <2>6 DEF MayMean
  <2>8. NoNode \notin CalledSo(c.name)
    <3>1. declared \in Seq(IDs) /\ Len(declared) \in Nat
      BY <1>3
    <3> QED
      BY <3>1 DEF CalledSo, InMap, NoNode
  <2>9. Meant(x[1], c.name) # NoNode => callee = Meant(x[1], c.name) \/ Ambiguous(x[1], c.name)
    BY <2>2, <2>5, <2>6
  <2>10. Of(x) \in Nodes /\ InMap \subseteq Nodes
    BY <1>1, CurrentIs
  <2>11. ~Lost(x) => Made(x, c)'
    <3> SUFFICES ASSUME ~Lost(x), Meant(x[1], c.name) # NoNode, ~Ambiguous(x[1], c.name)
                 PROVE  \E i \in 1..Len(callees'[Of(x)]) : callees'[Of(x)][i] = Meant(x[1], c.name)
      BY <1>1, <1>2, MadeIs
    <3>1. callee = Meant(x[1], c.name) /\ callee # NoNode /\ callee \in Nodes
      BY <2>3, <2>9, <2>10
    <3>2. PICK o \in Nodes : o = Of(x)
      BY <1>1, <2>10
    <3>3. Calls(o, callee)'
      BY <2>4, <3>1, <3>2
    <3> QED
      BY <3>1, <3>2, <3>3 DEF Calls
  <2>12. GraphTyped'
    BY <1>1, <2>4 DEF GraphTyped, BuildTyped
  <2> HIDE DEF own
  <2> QED
    BY <1>1, <2>4, <2>7, <2>11, <2>12 DEF CallMade
<1> QED
  BY <1>4, <1>5

LEMMA MemberAccessCallMade ==
  ASSUME NEW x, NEW c, Collecting(x, c), MemberAccessCall
  PROVE  CallMade(x, c)
<1>1. /\ BuildTyped /\ EdgesInv /\ AtFunction /\ x = Here /\ c = Call /\ c.walked
      /\ unit' = unit /\ declared' = declared /\ entries' = entries
      /\ c.form = "member" /\ c.form # "name" /\ c.form # "lowLevel"
  BY DEF Collecting, MemberAccessCall
<1> DEFINE callee == Node(Named(c.object, c.name))
<1>2. CASE c.object \in Builtins
  <2>1. callees' = callees /\ marked' = marked /\ external' = external
    BY <1>1, <1>2 DEF MemberAccessCall
  <2>2. \A m, n : Calls(m, n)' <=> Calls(m, n)
    BY <2>1, SameCalls
  <2>3. ~Leaves(c)
    BY <1>1, <1>2 DEF Leaves
  <2>4. Made(x, c)'
    BY <1>1, <2>3, MadeIs
  <2> QED
    BY <1>1, <2>1, <2>2, <2>4 DEF CallMade, GraphTyped, BuildTyped
<1>3. CASE c.object \notin Builtins /\ callee # NoNode
  <2>1. Site(callee) /\ external' = external
    BY <1>1, <1>3 DEF MemberAccessCall
  <2>2. callee \in InMap
    BY <1>1, <1>3, NodeIs DEF BuildTyped
  <2> HIDE DEF callee
  <2>3. /\ callees' \in [Nodes -> Seq(Nodes)] /\ marked' \subseteq Nodes
        /\ \A m, n \in Nodes :
             Calls(m, n)' <=> Calls(m, n) \/ (~Lost(x) /\ callee # NoNode /\ m = Of(x) /\ n = callee)
    BY <1>1, <2>1, <2>2, SiteIs
  <2>4. ~Leaves(c) /\ MayMean(x[1], c, callee)
    BY <1>1, <1>3 DEF Leaves, MayMean, callee
  <2>5. Made(x, c)'
    BY <1>1, <2>4, MadeIs
  <2>6. GraphTyped'
    BY <1>1, <2>1, <2>3 DEF GraphTyped, BuildTyped
  <2> QED
    BY <1>1, <2>1, <2>3, <2>4, <2>5, <2>6 DEF CallMade
<1>4. CASE c.object \notin Builtins /\ callee = NoNode
  <2>1. ExternalSite
    BY <1>1, <1>4 DEF MemberAccessCall
  <2>2. Leaves(c)
    BY <1>1, <1>4 DEF Leaves
  <2> QED
    BY <1>1, <2>1, <2>2, ExternalSiteMade
<1> QED
  BY <1>2, <1>3, <1>4

LEMMA CollectCallMade ==
  ASSUME BuildTyped, EdgesInv, CollectCall, NEW x, NEW c, x = Here, c = Call
  PROVE  CallMade(x, c)
<1>1. x = Here
  OBVIOUS
<1>2. c = Call
  OBVIOUS
<1>3. AtFunction /\ unit' = unit /\ declared' = declared /\ entries' = entries
  BY DEF CollectCall
<1>4. CASE c.walked
  <2>1. Collecting(x, c)
    BY <1>1, <1>2, <1>3, <1>4 DEF Collecting
  <2>2. IdentifierCall \/ LowLevelCall \/ MemberAccessCall \/ UnseenCall
    BY <1>2, <1>4 DEF CollectCall
  <2>3. CASE LowLevelCall
    <3>1. ExternalSite /\ c.form = "lowLevel" /\ c.form # "name"
      BY <1>2, <2>3 DEF LowLevelCall
    <3>2. Leaves(c)
      BY <3>1 DEF Leaves
    <3> QED
      BY <1>1, <1>2, <2>1, <3>1, <3>2, ExternalSiteMade
  <2>4. CASE UnseenCall
    <3>1. /\ callees' = callees /\ marked' = marked /\ external' = external
          /\ c.form # "name" /\ c.form # "lowLevel" /\ c.form # "member"
      BY <1>2, <2>4 DEF UnseenCall
    <3>2. \A m, n : Calls(m, n)' <=> Calls(m, n)
      BY <3>1, SameCalls
    <3>3. Made(x, c)'
      <4>1. ~Leaves(c)
        BY <3>1 DEF Leaves
      <4> QED
        BY <1>3, <3>1, <4>1, MadeIs
    <3> QED
      BY <1>1, <1>2, <1>3, <3>1, <3>2, <3>3 DEF CallMade, GraphTyped, BuildTyped
  <2> QED
    BY <1>1, <1>2, <2>1, <2>2, <2>3, <2>4, IdentifierCallMade, MemberAccessCallMade
<1>5. CASE ~c.walked
  <2>1. callees' = callees /\ marked' = marked /\ external' = external
    BY <1>2, <1>5 DEF CollectCall
  <2>2. \A m, n : Calls(m, n)' <=> Calls(m, n)
    BY <2>1, SameCalls
  <2>3. GraphTyped'
    BY <1>3, <2>1 DEF GraphTyped, BuildTyped
  <2> QED
    BY <1>1, <1>2, <1>5, <2>1, <2>2, <2>3 DEF CallMade
<1> QED
  BY <1>4, <1>5

\* What is right of the edges stays so when a call is collected.
LEMMA CollectCallEdges ==
  ASSUME BuildTyped, EdgesInv, CollectCall
  PROVE  EdgesInv'
<1>1. PICK h : h = Here
  OBVIOUS
<1>2. PICK d : d = Call
  OBVIOUS
<1>3. /\ CallMade(h, d) /\ unit' = unit /\ declared' = declared /\ AtFunction
      /\ at.call \in 1..Len(FunctionAt.calls) /\ at' = [at EXCEPT !.call = @ + 1] /\ at \in Places
  <2>1. CallMade(h, d) /\ at.call <= Len(FunctionAt.calls)
    BY <1>1, <1>2, CollectCallMade DEF CollectCall
  <2>2. h \in All /\ FunctionAt = Fn(h) /\ at.call \in Nat \ {0}
    BY <1>1, CurrentIs DEF BuildTyped, Places, CollectCall
  <2>3. Len(FunctionAt.calls) \in Nat
    BY <2>2, UnitTyped DEF BuildTyped
  <2> QED
    BY <1>1, <1>2, <2>1, <2>2, <2>3 DEF CollectCall, BuildTyped
<1>4. /\ h \in All /\ FunctionAt = Fn(h) /\ d = Fn(h).calls[at.call]
      /\ Of(h) \in Nodes
  BY <1>1, <1>2, <1>3, CurrentIs DEF Call
<1>5. d.walked => d \in Walked(h)
  BY <1>3, <1>4 DEF Walked
<1>6. /\ Here' = h /\ at'.call = at.call + 1 /\ at.call \in Nat
      /\ \A x : Passed(x)' <=> Passed(x)
  <2>1. at' = [contract |-> at.contract, function |-> at.function, call |-> at.call + 1]
    BY <1>3 DEF Places
  <2>2. /\ at'.contract = at.contract /\ at'.function = at.function
        /\ at'.call = at.call + 1
    BY <2>1
  <2> QED
    BY <1>1, <1>3, <2>2 DEF Here, Passed, Places
<1>7. /\ All' = All
      /\ \A x : /\ Of(x)' = Of(x) /\ Fn(x)' = Fn(x) /\ (Lost(x)' <=> Lost(x))
                /\ Walked(x)' = Walked(x) /\ IDOf(x)' = IDOf(x)
      /\ \A k, c, n : MayMean(k, c, n)' <=> MayMean(k, c, n)
      /\ \A c : Leaves(c)' <=> Leaves(c)
  BY <1>3, SameUnit, SameNodes
<1>8. ASSUME NEW x \in All, NEW c, Made(x, c), ~Lost(x)
      PROVE  Made(x, c)'
  <2>1. PICK o \in Nodes : o = Of(x)
    BY OfIsNode
  <2>2. PICK n : n = Meant(x[1], c.name)
    OBVIOUS
  <2>3. n # NoNode => n \in Nodes
    BY <2>2, MeantIsNode
  <2>4. Calls(o, n) /\ n # NoNode => Calls(o, n)'
    BY <1>3, <2>3 DEF CallMade
  <2> QED
    BY <1>3, <1>8, <2>1, <2>2, <2>4, MadeIs DEF Made, CallMade, Calls
<1>9. ASSUME NEW x \in All, NEW j \in 1..Len(Fn(x).calls), NEW c, c = Fn(x).calls[j],
             PastCall(x, j)', c.walked, ~Lost(x)
      PROVE  Made(x, c)'
  <2>1. CASE PastCall(x, j)
    <3>1. Made(x, c)
      BY <1>9, <2>1 DEF EdgesInv
    <3> QED
      BY <1>8, <1>9, <3>1
  <2>2. CASE ~PastCall(x, j)
    <3>1. x = h /\ j = at.call
      BY <1>1, <1>6, <1>9, <2>2 DEF PastCall
    <3>2. c = d
      BY <1>4, <1>9, <3>1
    <3> QED
      BY <1>3, <1>9, <3>1, <3>2 DEF CallMade
  <2> QED
    BY <2>1, <2>2
<1>10. ASSUME NEW m \in Nodes, NEW n \in Nodes, Calls(m, n)'
       PROVE  \E x \in All : Of(x) = m /\ ~Lost(x) /\ \E c \in Walked(x) : MayMean(x[1], c, n)
  <2>1. CASE Calls(m, n)
    BY <2>1 DEF EdgesInv
  <2>2. CASE ~Calls(m, n)
    <3>1. d.walked /\ ~Lost(h) /\ m = Of(h) /\ MayMean(h[1], d, n)
      BY <1>3, <1>10, <2>2 DEF CallMade
    <3> QED
      BY <1>4, <1>5, <3>1
  <2> QED
    BY <2>1, <2>2
<1>11. ASSUME NEW n \in external'
       PROVE  \E x \in All : Of(x) = n /\ ~Lost(x) /\ \E c \in Walked(x) : Leaves(c)
  <2>1. CASE n \in external
    BY <2>1 DEF EdgesInv
  <2>2. CASE n \notin external
    BY <1>3, <1>4, <1>5, <1>11, <2>2 DEF CallMade
  <2> QED
    BY <2>1, <2>2
<1>12. Len(declared)' <= Cardinality(All)' /\ \A x \in All' : \E i \in 1..Len(declared)' : declared'[i] = IDOf(x)'
  BY <1>3, <1>7 DEF EdgesInv
<1>13. \A x \in All' : \A j \in 1..Len(Fn(x)'.calls) : \A c \in {Fn(x)'.calls[j]} :
        PastCall(x, j)' /\ c.walked /\ ~Lost(x)' => Made(x, c)'
  BY <1>7, <1>9
<1>14. \A m, n \in Nodes : Calls(m, n)' =>
         \E x \in All' : Of(x)' = m /\ ~Lost(x)' /\ \E c \in Walked(x)' : MayMean(x[1], c, n)'
  BY <1>7, <1>10
<1>15. \A n \in external' : \E x \in All' : Of(x)' = n /\ ~Lost(x)' /\ \E c \in Walked(x)' : Leaves(c)'
  BY <1>7, <1>11
<1> QED
  BY <1>12, <1>13, <1>14, <1>15 DEF EdgesInv

-----------------------------------------------------------------------------
\* The searches' invariants hold before any of them has begun.
LEMMA SearchStarts ==
  ASSUME GraphTyped, SearchInit
  PROVE  SearchesInv
<1>1. Typed
  BY DEF GraphTyped, SearchInit, Typed
<1>2. FlagsSound /\ ReachInv /\ LostInv /\ CyclesInv
  BY DEF SearchInit, FlagsSound, ReachInv, LostInv, CyclesInv
<1> QED
  BY <1>1, <1>2 DEF SearchesInv

LEMMA SearchesNext == SearchesInv /\ [Next]_vars => SearchesInv'
BY NextTyped, NextSound, NextReach, NextLost, NextCycles DEF SearchesInv

\* Edges, ids and places as they are: what holds of them goes on holding.
LEMMA EdgesFixed ==
  ASSUME EdgesInv, UNCHANGED <<unit, declared, callees, external>>,
         \A x \in All : \A j \in 1..Len(Fn(x).calls) : PastCall(x, j)' => PastCall(x, j)
  PROVE  EdgesInv'
<1>1. unit' = unit /\ declared' = declared /\ callees' = callees /\ external' = external
  OBVIOUS
<1>2. /\ All' = All
      /\ \A x : /\ Of(x)' = Of(x) /\ Fn(x)' = Fn(x) /\ (Lost(x)' <=> Lost(x))
                /\ Walked(x)' = Walked(x) /\ IDOf(x)' = IDOf(x)
      /\ \A k, c, n : MayMean(k, c, n)' <=> MayMean(k, c, n)
      /\ \A c : Leaves(c)' <=> Leaves(c)
      /\ \A m, n : Calls(m, n)' <=> Calls(m, n)
  BY <1>1, SameUnit, SameNodes, SameCalls
<1>3. ASSUME NEW x, NEW c, Made(x, c)
      PROVE  Made(x, c)'
  BY <1>1, <1>3, MadeIs DEF Made, Calls
<1>4. Len(declared)' <= Cardinality(All)' /\ \A x \in All' : \E i \in 1..Len(declared)' : declared'[i] = IDOf(x)'
  BY <1>1, <1>2 DEF EdgesInv
<1>5. \A x \in All' : \A j \in 1..Len(Fn(x)'.calls) : \A c \in {Fn(x)'.calls[j]} :
        PastCall(x, j)' /\ c.walked /\ ~Lost(x)' => Made(x, c)'
  BY <1>2, <1>3 DEF EdgesInv
<1>6. \A m, n \in Nodes : Calls(m, n)' =>
         \E x \in All' : Of(x)' = m /\ ~Lost(x)' /\ \E c \in Walked(x)' : MayMean(x[1], c, n)'
  BY <1>2 DEF EdgesInv
<1>7. \A n \in external' : \E x \in All' : Of(x)' = n /\ ~Lost(x)' /\ \E c \in Walked(x)' : Leaves(c)'
  BY <1>1, <1>2 DEF EdgesInv
<1> QED
  BY <1>4, <1>5, <1>6, <1>7 DEF EdgesInv

LEMMA SameCallees ==
  ASSUME callees' = callees
  PROVE  \A n : TransitiveCallees(n)' = TransitiveCallees(n)
<1>1. \A n : CalleesOf(n)' = CalleesOf(n)
  BY DEF CalleesOf
<1>2. \A n : Visited(n)' = Visited(n)
  BY DEF Visited, Visit, CalleesOf
<1> QED
  BY <1>1, <1>2 DEF TransitiveCallees

LEMMA InitBuild == BuildInit => BuildInv
<1> SUFFICES ASSUME BuildInit
             PROVE  BuildInv
  OBVIOUS
<1>1. /\ unit \in Units /\ declared = <<>> /\ external = {} /\ phase = "nodes"
      /\ at = [contract |-> 1, function |-> 1, call |-> 1]
      /\ callees = [n \in Nodes |-> <<>>] /\ marked = {} /\ entries = {} /\ SearchInit
  BY DEF BuildInit
<1>2. at \in Places /\ at.contract = 1 /\ at.function = 1 /\ at.call = 1
  BY <1>1 DEF Places
<1>3. BuildTyped
  <2>1. declared \in Seq(IDs)
    BY <1>1
  <2>2. callees \in [Nodes -> Seq(Nodes)]
    BY <1>1
  <2> QED
    BY <1>1, <1>2, <2>1, <2>2 DEF BuildTyped, GraphTyped
<1>4. PassedAll = {}
  <2>1. ASSUME NEW x \in All PROVE ~Passed(x)
    BY <1>1, <1>2, UnitTyped DEF Passed
  <2> QED
    BY <2>1 DEF PassedAll
<1>5. NodesInv
  <2>1. Len(declared) = 0
    BY <1>1
  <2> QED
    BY <1>1, <1>4, <2>1, FS_EmptySet DEF NodesInv
<1> QED
  BY <1>1, <1>3, <1>5 DEF BuildInv

\* Pass 1 declares one more node.
LEMMA CollectNodeInv ==
  ASSUME BuildInv, CollectNode, UNCHANGED <<pass, loop, stack, visited, flag, reachable, tarjanVars>>
  PROVE  BuildInv'
<1>1. /\ phase = "nodes" /\ phase' = "nodes" /\ AtFunction /\ at' = NextFunction
      /\ unit' = unit /\ external' = external /\ callees' = callees /\ marked' = marked
      /\ declared' = Append(declared, FunctionID(Contract.name, FunctionAt))
      /\ entries' \subseteq entries \cup {Len(declared')}
  BY DEF CollectNode
<1>2. BuildTyped /\ NodesInv /\ SearchInit
  BY <1>1 DEF BuildInv
<1>3. /\ at' \in Places /\ at'.call = 1 /\ (AtFunction' \/ at'.function = 1)
      /\ Here \in All /\ ~Passed(Here) /\ PassedAll' = PassedAll \cup {Here}
  BY <1>1, <1>2, NextPlace
<1>4. FunctionID(Contract.name, FunctionAt) = IDOf(Here)
  BY DEF IDOf, Fn, Here, Contract, FunctionAt
<1>5. All' = All /\ IDs' = IDs /\ \A x : IDOf(x)' = IDOf(x)
  BY <1>1, SameUnit
<1>6. declared \in Seq(IDs) /\ IDOf(Here) \in IDs
  BY <1>2, <1>3 DEF BuildTyped, IDs
<1>7. /\ declared' \in Seq(IDs) /\ Len(declared') = Len(declared) + 1 /\ Len(declared) \in Nat
      /\ \A i \in 1..Len(declared) : declared'[i] = declared[i]
      /\ declared'[Len(declared) + 1] = IDOf(Here)
  BY <1>1, <1>4, <1>6
<1>8. /\ PassedAll \subseteq All /\ IsFiniteSet(PassedAll) /\ Here \notin PassedAll
      /\ PassedAll' \subseteq All /\ IsFiniteSet(All)
  <2>1. IsFiniteSet(All) /\ PassedAll \subseteq All
    BY <1>2, AllFinite DEF BuildTyped, PassedAll
  <2>2. IsFiniteSet(PassedAll)
    BY <2>1, FS_Subset
  <2> QED
    BY <1>3, <2>1, <2>2 DEF PassedAll
<1>9. Len(declared') = Cardinality(PassedAll')
  <2>1. Cardinality(PassedAll \cup {Here}) = Cardinality(PassedAll) + 1
    BY <1>8, FS_AddElement
  <2> QED
    BY <1>2, <1>3, <1>7, <2>1 DEF NodesInv
<1>10. Len(declared') \in Nodes
  <2>1. Cardinality(PassedAll') <= Cardinality(All) /\ Cardinality(All) \in Nat
    BY <1>8, FS_Subset, FS_CardinalityType
  <2>2. 1..Cardinality(All) \subseteq Nodes
    BY <1>2, UnitTyped DEF BuildTyped
  <2> QED
    BY <1>7, <1>9, <2>1, <2>2
<1>11. \A x \in PassedAll' : \E i \in 1..Len(declared') : declared'[i] = IDOf(x)'
  <2> SUFFICES ASSUME NEW x \in PassedAll'
               PROVE  \E i \in 1..Len(declared') : declared'[i] = IDOf(x)
    BY <1>5
  <2>1. CASE x \in PassedAll
    <3>1. PICK i \in 1..Len(declared) : declared[i] = IDOf(x)
      BY <1>2, <2>1 DEF NodesInv
    <3>2. i \in 1..Len(declared') /\ declared'[i] = IDOf(x)
      BY <1>7, <3>1
    <3> QED
      BY <3>2
  <2>2. CASE x = Here
    <3>1. Len(declared) + 1 \in 1..Len(declared')
      BY <1>7
    <3> QED
      BY <1>7, <2>2, <3>1
  <2> QED
    BY <1>3, <2>1, <2>2
<1>12. NodesInv'
  BY <1>1, <1>2, <1>9, <1>11 DEF NodesInv
<1>13. BuildTyped'
  BY <1>1, <1>2, <1>3, <1>5, <1>7, <1>10 DEF BuildTyped, GraphTyped
<1>14. SearchInit'
  BY <1>2 DEF SearchInit, tarjanVars
<1> QED
  BY <1>1, <1>12, <1>13, <1>14 DEF BuildInv

LEMMA SkipContractInv ==
  ASSUME BuildInv, SkipContract, UNCHANGED <<pass, loop, stack, visited, flag, reachable, tarjanVars>>
  PROVE  BuildInv'
<1>1. /\ phase \in {"nodes", "calls"} /\ phase' = phase
      /\ unit' = unit /\ declared' = declared /\ external' = external
      /\ callees' = callees /\ marked' = marked /\ entries' = entries
  BY DEF SkipContract, graphVars
<1>2. BuildTyped /\ SearchInit
  BY <1>1 DEF BuildInv
<1>3. /\ at' \in Places /\ at'.function = 1 /\ at'.call = 1
      /\ \A x \in All : Passed(x)' <=> Passed(x)
      /\ PassedAll' = PassedAll
  BY <1>2, SkipPlace
<1>4. All' = All /\ IDs' = IDs /\ \A x : IDOf(x)' = IDOf(x)
  BY <1>1, SameUnit
<1>5. BuildTyped'
  BY <1>1, <1>2, <1>3, <1>4 DEF BuildTyped, GraphTyped
<1>6. SearchInit'
  BY <1>2 DEF SearchInit, tarjanVars
<1>7. CASE phase = "nodes"
  <2>1. NodesInv'
    BY <1>1, <1>3, <1>4, <1>7 DEF BuildInv, NodesInv
  <2> QED
    BY <1>1, <1>5, <1>6, <1>7, <2>1 DEF BuildInv
<1>8. CASE phase = "calls"
  <2>1. EdgesInv
    BY <1>8 DEF BuildInv
  <2>2. \A x \in All : \A j \in 1..Len(Fn(x).calls) : PastCall(x, j)' => PastCall(x, j)
    BY <1>3 DEF PastCall
  <2>3. EdgesInv'
    BY <1>1, <2>1, <2>2, EdgesFixed
  <2> QED
    BY <1>1, <1>5, <1>6, <1>8, <2>3 DEF BuildInv
<1> QED
  BY <1>1, <1>7, <1>8

LEMMA NodesCollectedInv ==
  ASSUME BuildInv, NodesCollected, UNCHANGED <<pass, loop, stack, visited, flag, reachable, tarjanVars>>
  PROVE  BuildInv'
<1>1. /\ phase = "nodes" /\ phase' = "calls" /\ at.contract > Len(unit)
      /\ at' = [contract |-> 1, function |-> 1, call |-> 1]
      /\ unit' = unit /\ declared' = declared /\ external' = external
      /\ callees' = callees /\ marked' = marked /\ entries' = entries
  BY DEF NodesCollected, graphVars
<1>2. BuildTyped /\ SearchInit /\ NodesInv
  BY <1>1 DEF BuildInv
<1>3. at' \in Places /\ at'.contract = 1 /\ at'.function = 1 /\ at'.call = 1
  BY <1>1 DEF Places
<1>4. All' = All /\ IDs' = IDs /\ \A x : IDOf(x)' = IDOf(x) /\ Fn(x)' = Fn(x)
  BY <1>1, SameUnit
<1>5. BuildTyped'
  BY <1>1, <1>2, <1>3, <1>4 DEF BuildTyped, GraphTyped
<1>6. SearchInit'
  BY <1>2 DEF SearchInit, tarjanVars
<1>7. PassedAll = All
  <2>1. ASSUME NEW x \in All PROVE Passed(x)
    <3>1. x[1] \in 1..Len(unit) /\ Len(unit) \in Nat /\ at.contract \in Nat
      BY <1>2, UnitTyped DEF BuildTyped, Places
    <3> QED
      BY <1>1, <3>1 DEF Passed
  <2> QED
    BY <2>1 DEF PassedAll
<1>8. /\ Len(declared) = Cardinality(All) /\ Len(declared) \in Nat
      /\ \A x \in All : \E i \in 1..Len(declared) : declared[i] = IDOf(x)
  BY <1>2, <1>7 DEF NodesInv, BuildTyped
<1>9. ASSUME NEW x \in All, NEW j \in 1..Len(Fn(x).calls)
      PROVE  ~PastCall(x, j)'
  <2>1. x[1] \in Nat \ {0} /\ x[2] \in Nat \ {0} /\ Len(Fn(x).calls) \in Nat
    BY <1>2, UnitTyped DEF BuildTyped
  <2> QED
    BY <1>3, <2>1 DEF PastCall, Passed
<1>10. \A m, n \in Nodes : ~Calls(m, n)'
  <2>1. \A m \in Nodes : callees'[m] = <<>>
    BY <1>1, <1>2 DEF NodesInv
  <2> QED
    BY <2>1 DEF Calls
<1>11. external' = {}
  BY <1>1, <1>2 DEF NodesInv
<1>12. EdgesInv'
  BY <1>1, <1>4, <1>8, <1>9, <1>10, <1>11 DEF EdgesInv
<1> QED
  BY <1>1, <1>5, <1>6, <1>12 DEF BuildInv

LEMMA CollectCallInv ==
  ASSUME BuildInv, CollectCall, UNCHANGED <<pass, loop, stack, visited, flag, reachable, tarjanVars>>
  PROVE  BuildInv'
<1>1. /\ phase = "calls" /\ phase' = "calls" /\ AtFunction
      /\ at' = [at EXCEPT !.call = @ + 1]
      /\ unit' = unit /\ declared' = declared /\ entries' = entries
  BY DEF CollectCall
<1>2. BuildTyped /\ EdgesInv /\ SearchInit
  BY <1>1 DEF BuildInv
<1>3. at' \in Places /\ at'.contract = at.contract /\ at'.function = at.function
  <2>1. at' = [contract |-> at.contract, function |-> at.function, call |-> at.call + 1]
    BY <1>1, <1>2 DEF BuildTyped, Places
  <2>2. /\ at.contract \in Nat \ {0} /\ at.function \in Nat \ {0} /\ at.call + 1 \in Nat \ {0}
    BY <1>2 DEF BuildTyped, Places
  <2> QED
    BY <2>1, <2>2 DEF Places
<1>4. AtFunction'
  BY <1>1, <1>3 DEF AtFunction, Contract
<1>5. GraphTyped'
  <2>1. PICK x, c : x = Here /\ c = Call
    OBVIOUS
  <2>2. CallMade(x, c)
    BY <1>2, <2>1, CollectCallMade
  <2> QED
    BY <2>2 DEF CallMade
<1>6. BuildTyped'
  BY <1>1, <1>2, <1>3, <1>4, <1>5, SameUnit DEF BuildTyped
<1>7. SearchInit'
  BY <1>2 DEF SearchInit, tarjanVars
<1>8. EdgesInv'
  BY <1>2, CollectCallEdges
<1> QED
  BY <1>1, <1>6, <1>7, <1>8 DEF BuildInv

LEMMA LeaveFunctionInv ==
  ASSUME BuildInv, LeaveFunction, UNCHANGED <<pass, loop, stack, visited, flag, reachable, tarjanVars>>
  PROVE  BuildInv'
<1>1. /\ phase = "calls" /\ phase' = "calls" /\ AtFunction /\ at' = NextFunction
      /\ at.call > Len(FunctionAt.calls)
      /\ unit' = unit /\ declared' = declared /\ external' = external
      /\ callees' = callees /\ marked' = marked /\ entries' = entries
  BY DEF LeaveFunction, graphVars
<1>2. BuildTyped /\ EdgesInv /\ SearchInit
  BY <1>1 DEF BuildInv
<1>3. /\ at' \in Places /\ at'.call = 1 /\ (AtFunction' \/ at'.function = 1)
      /\ Here \in All
      /\ \A x \in All : Passed(x)' <=> Passed(x) \/ x = Here
  BY <1>1, <1>2, NextPlace
<1>4. All' = All /\ IDs' = IDs
  BY <1>1, SameUnit
<1>5. BuildTyped'
  BY <1>1, <1>2, <1>3, <1>4 DEF BuildTyped, GraphTyped
<1>6. SearchInit'
  BY <1>2 DEF SearchInit, tarjanVars
<1>7. ASSUME NEW x \in All, NEW j \in 1..Len(Fn(x).calls), PastCall(x, j)'
      PROVE  PastCall(x, j)
  <2>1. Len(Fn(x).calls) \in Nat /\ at.call \in Nat
    BY <1>2, UnitTyped DEF BuildTyped, Places
  <2>2. Passed(x)'
    BY <1>3, <1>7 DEF PastCall
  <2>3. CASE x = Here
    <3>1. FunctionAt = Fn(x)
      BY <1>1, <1>2, <2>3, CurrentIs
    <3>2. j < at.call
      BY <1>1, <2>1, <3>1
    <3> QED
      BY <2>3, <3>2 DEF PastCall
  <2> QED
    BY <1>3, <2>2, <2>3 DEF PastCall
<1>8. EdgesInv'
  BY <1>1, <1>2, <1>7, EdgesFixed
<1> QED
  BY <1>1, <1>5, <1>6, <1>8 DEF BuildInv

LEMMA CallsCollectedInv ==
  ASSUME BuildInv, CallsCollected, UNCHANGED <<pass, loop, stack, visited, flag, reachable, tarjanVars>>
  PROVE  BuildInv'
<1>1. /\ phase = "calls" /\ phase' = "passes" /\ at.contract > Len(unit) /\ at' = at
      /\ unit' = unit /\ declared' = declared /\ external' = external
      /\ callees' = callees /\ marked' = marked /\ entries' = entries
  BY DEF CallsCollected, graphVars
<1>2. BuildTyped /\ EdgesInv /\ SearchInit
  BY <1>1 DEF BuildInv
<1>3. BuildTyped'
  BY <1>1, <1>2, SameUnit DEF BuildTyped, GraphTyped, AtFunction, Contract
<1>4. SearchInit'
  BY <1>2 DEF SearchInit, tarjanVars
<1>5. SearchesInv'
  <2>1. SearchesInv
    BY <1>2, SearchStarts DEF BuildTyped
  <2>2. UNCHANGED vars
    BY <1>1 DEF vars, tarjanVars
  <2> QED
    BY <2>1, <2>2, SearchesNext
<1>6. \A x \in All : \A j \in 1..Len(Fn(x).calls) : PastCall(x, j)' => PastCall(x, j)
  BY <1>1 DEF PastCall, Passed, Here
<1>7. EdgesInv'
  BY <1>1, <1>2, <1>6, EdgesFixed
<1> QED
  BY <1>1, <1>3, <1>5, <1>7 DEF BuildInv

\* A step of the searches, or none
LEMMA SearchStepInv ==
  ASSUME BuildInv, [Next]_vars, UNCHANGED buildVars, phase = "passes" \/ UNCHANGED vars
  PROVE  BuildInv'
<1>1. /\ phase' = phase /\ at' = at /\ unit' = unit /\ declared' = declared /\ external' = external
      /\ cycleFindings' = cycleFindings /\ matrix' = matrix
      /\ callees' = callees /\ marked' = marked /\ entries' = entries
  BY GraphFixed DEF buildVars
<1>2. BuildTyped
  BY DEF BuildInv
<1>3. BuildTyped'
  BY <1>1, <1>2, SameUnit DEF BuildTyped, GraphTyped, AtFunction, Contract
<1>4. phase = "nodes" => NodesInv'
  <2>1. PassedAll' = PassedAll /\ \A x : IDOf(x)' = IDOf(x)
    BY <1>1, SameUnit DEF PassedAll, Passed
  <2> QED
    BY <1>1, <2>1 DEF BuildInv, NodesInv
<1>5. phase # "nodes" => EdgesInv'
  <2>1. \A x \in All : \A j \in 1..Len(Fn(x).calls) : PastCall(x, j)' => PastCall(x, j)
    BY <1>1 DEF PastCall, Passed, Here
  <2> QED
    BY <1>1, <2>1, EdgesFixed DEF BuildInv
<1>6. phase \in {"nodes", "calls"} => SearchInit'
  BY DEF BuildInv, SearchInit, vars
<1>7. phase \in {"passes", "report"} => SearchesInv'
  BY SearchesNext DEF BuildInv
<1>8. ASSUME phase = "report"
      PROVE  /\ pass' = "done"
             /\ cycleFindings' = SecurityRelevantCycles'
             /\ matrix' = [n \in InMap' |-> TransitiveCallees(n)']
  <2>1. UNCHANGED vars
    BY <1>8
  <2>2. SecurityRelevantCycles' = SecurityRelevantCycles /\ InMap' = InMap /\ pass' = pass
    BY <1>1, <2>1, SameNodes DEF SecurityRelevantCycles, vars
  <2>3. \A n : TransitiveCallees(n)' = TransitiveCallees(n)
    BY <1>1, SameCallees
  <2> QED
    BY <1>1, <1>8, <2>2, <2>3 DEF BuildInv
<1> QED
  BY <1>1, <1>3, <1>4, <1>5, <1>6, <1>7, <1>8 DEF BuildInv

LEMMA ReportInv ==
  ASSUME BuildInv, Report
  PROVE  BuildInv'
<1>1. /\ phase = "passes" /\ phase' = "report" /\ pass = "done" /\ UNCHANGED vars
      /\ at' = at /\ unit' = unit /\ declared' = declared /\ external' = external
      /\ cycleFindings' = SecurityRelevantCycles
      /\ matrix' = [n \in InMap |-> TransitiveCallees(n)]
  BY DEF Report
<1>2. /\ pass' = pass /\ callees' = callees /\ marked' = marked /\ entries' = entries /\ sccs' = sccs
  BY <1>1 DEF vars
<1>3. BuildTyped /\ EdgesInv /\ SearchesInv /\ at.contract > Len(unit)
  BY <1>1 DEF BuildInv
<1>4. BuildTyped'
  BY <1>1, <1>2, <1>3, SameUnit DEF BuildTyped, GraphTyped, AtFunction, Contract
<1>5. EdgesInv'
  <2>1. \A x \in All : \A j \in 1..Len(Fn(x).calls) : PastCall(x, j)' => PastCall(x, j)
    BY <1>1 DEF PastCall, Passed, Here
  <2> QED
    BY <1>1, <1>2, <1>3, <2>1, EdgesFixed
<1>6. SearchesInv'
  BY <1>1, <1>3, SearchesNext
<1>7. SecurityRelevantCycles' = SecurityRelevantCycles /\ InMap' = InMap
  BY <1>1, <1>2, SameNodes DEF SecurityRelevantCycles
<1>8. \A n : TransitiveCallees(n)' = TransitiveCallees(n)
  BY <1>2, SameCallees
<1> QED
  BY <1>1, <1>2, <1>3, <1>4, <1>5, <1>6, <1>7, <1>8 DEF BuildInv

LEMMA NextBuild == BuildInv /\ [BuildNext]_allVars => BuildInv'
<1> SUFFICES ASSUME BuildInv, [BuildNext]_allVars
             PROVE  BuildInv'
  OBVIOUS
<1>1. CASE Collect /\ UNCHANGED <<pass, loop, stack, visited, flag, reachable, tarjanVars>>
  BY <1>1, CollectNodeInv, SkipContractInv, NodesCollectedInv, CollectCallInv, LeaveFunctionInv,
     CallsCollectedInv DEF Collect
<1>2. CASE phase = "passes" /\ Step /\ UNCHANGED buildVars
  <2>1. Next
    BY <1>2 DEF Next
  <2> QED
    BY <1>2, <2>1, SearchStepInv
<1>3. CASE Report
  BY <1>3, ReportInv
<1>4. CASE UNCHANGED allVars
  <2>1. UNCHANGED vars /\ UNCHANGED buildVars
    BY <1>4 DEF allVars
  <2> QED
    BY <2>1, SearchStepInv
<1> QED
  BY <1>1, <1>2, <1>3, <1>4 DEF BuildNext

\* The builder's invariant holds in every state of Build, whatever the source unit and
\* whatever the order of Go's map.
THEOREM BuildKeeps == BuildSpec => []BuildInv
BY InitBuild, NextBuild, PTL DEF BuildSpec

-----------------------------------------------------------------------------
(* The queries *)

Visits   == [open : SUBSET Nodes, seen : SUBSET Nodes]
Start(n) == [open |-> {n}, seen |-> {}]

\* What has been visited from n after k visits, and what is still to be
VisitRight(s, n, k) ==
  /\ s \in Visits
  /\ s.open \cap s.seen = {}
  /\ n \in s.open \cup s.seen
  /\ s.open \cup s.seen \subseteq Reached({n})
  /\ \A m \in s.seen : CalleesOf(m) \subseteq s.open \cup s.seen
  /\ s.open = {} \/ Cardinality(s.seen) = k

LEMMA CalleesAre ==
  ASSUME callees \in [Nodes -> Seq(Nodes)], NEW m \in Nodes
  PROVE  CalleesOf(m) \subseteq Nodes /\ \A k : k \in CalleesOf(m) <=> Calls(m, k)
<1>1. callees[m] \in Seq(Nodes)
  OBVIOUS
<1>2. \A i \in 1..Len(callees[m]) : callees[m][i] \in Nodes
  BY <1>1
<1> QED
  BY <1>2 DEF CalleesOf, Calls

LEMMA VisitStep ==
  ASSUME callees \in [Nodes -> Seq(Nodes)], NEW n \in Nodes, NEW k \in Nat, NEW s, VisitRight(s, n, k)
  PROVE  VisitRight(Visit(s), n, k + 1)
<1>1. CASE s.open = {}
  <2>1. Visit(s) = s
    BY <1>1 DEF Visit
  <2> QED
    BY <1>1, <2>1 DEF VisitRight
<1>2. CASE s.open # {}
  <2> DEFINE m == CHOOSE x \in s.open : TRUE
             ahead == (s.open \cup CalleesOf(m)) \ (s.seen \cup {m})
             seen == s.seen \cup {m}
  <2>1. m \in s.open /\ m \in Nodes /\ m \notin s.seen
    BY <1>2 DEF VisitRight, Visits
  <2>2. Visit(s) = [open |-> ahead, seen |-> seen]
    BY <1>2 DEF Visit
  <2> HIDE DEF m
  <2>3. CalleesOf(m) \subseteq Nodes /\ CalleesOf(m) \subseteq Reached({n})
    <3>1. m \in Reached({n})
      BY <2>1 DEF VisitRight
    <3> QED
      BY <2>1, <3>1, CalleesAre, ReachedClosed
  <2>4. ahead \in SUBSET Nodes /\ seen \in SUBSET Nodes
    BY <2>1, <2>3 DEF VisitRight, Visits
  <2>5. /\ ahead \cap seen = {} /\ n \in ahead \cup seen
        /\ ahead \cup seen \subseteq Reached({n})
        /\ \A x \in seen : CalleesOf(x) \subseteq ahead \cup seen
    BY <2>1, <2>3 DEF VisitRight
  <2>6. Cardinality(seen) = k + 1
    <3>1. s.seen \subseteq Nodes /\ Cardinality(s.seen) = k
      BY <1>2 DEF VisitRight, Visits
    <3>2. IsFiniteSet(s.seen)
      BY <3>1, FS_Subset, GraphsAssumption
    <3> QED
      BY <2>1, <3>1, <3>2, FS_AddElement
  <2> HIDE DEF ahead, seen
  <2>7. Visit(s) \in Visits /\ Visit(s).open = ahead /\ Visit(s).seen = seen
    BY <2>2, <2>4 DEF Visits
  <2> QED
    BY <2>5, <2>6, <2>7 DEF VisitRight
<1> QED
  BY <1>1, <1>2

\* Any number of visits can be made one after the other.
LEMMA VisitsMade ==
  ASSUME callees \in [Nodes -> Seq(Nodes)], NEW n \in Nodes, NEW N \in Nat
  PROVE  \E g \in [0..N -> Visits] : g[0] = Start(n) /\ \A i \in 1..N : g[i] = Visit(g[i - 1])
<1> DEFINE Run(g, m) == /\ g \in [0..m -> Visits] /\ g[0] = Start(n)
                        /\ \A i \in 1..m : g[i] = Visit(g[i - 1])
                        /\ VisitRight(g[m], n, m)
           T == {m \in Nat : \E g : Run(g, m)}
<1>1. 0 \in T
  <2>1. VisitRight(Start(n), n, 0)
    <3>1. Start(n) \in Visits /\ Start(n).open = {n} /\ Start(n).seen = {}
      BY DEF Start, Visits
    <3>2. {n} \subseteq Reached({n})
      BY ReachedStart
    <3>3. Cardinality(Start(n).seen) = 0
      BY <3>1, FS_EmptySet
    <3> QED
      BY <3>1, <3>2, <3>3 DEF VisitRight
  <2>2. [i \in 0..0 |-> Start(n)] \in [0..0 -> Visits]
    BY <2>1 DEF VisitRight
  <2>3. Run([i \in 0..0 |-> Start(n)], 0)
    BY <2>1, <2>2
  <2> QED
    BY <2>3
<1>2. ASSUME NEW m \in Nat, m \in T
      PROVE  m + 1 \in T
  <2>1. PICK g : Run(g, m)
    BY <1>2
  <2>2. VisitRight(Visit(g[m]), n, m + 1)
    BY <2>1, VisitStep
  <2> DEFINE h == [i \in 0..(m + 1) |-> IF i = m + 1 THEN Visit(g[m]) ELSE g[i]]
  <2>3. h \in [0..(m + 1) -> Visits]
    BY <2>1, <2>2 DEF VisitRight
  <2>4. h[0] = Start(n) /\ (\A i \in 1..(m + 1) : h[i] = Visit(h[i - 1])) /\ h[m + 1] = Visit(g[m])
    BY <2>1
  <2>5. Run(h, m + 1)
    <3> HIDE DEF h
    <3> QED
      BY <2>2, <2>3, <2>4
  <2> HIDE DEF h, Run
  <2> QED
    BY <2>5
<1>3. N \in T
  <2> HIDE DEF T
  <2> QED
    BY <1>1, <1>2, NatSetInduction
<1> QED
  BY <1>3

\* A visit of each node that is reached, and of no other.
LEMMA VisitedIs ==
  ASSUME callees \in [Nodes -> Seq(Nodes)], NEW n \in Nodes
  PROVE  Visited(n) = Reached({n})
<1> DEFINE N == Cardinality(Nodes)
           body(g, i) == IF i = 0 THEN [open |-> {n}, seen |-> {}] ELSE Visit(g[i - 1])
           Eq(g) == g = [i \in 0..N |-> body(g, i)]
           K == CHOOSE g : Eq(g)
<1>1. N \in Nat
  BY FS_CardinalityType, GraphsAssumption
<1>2. PICK g \in [0..N -> Visits] : g[0] = Start(n) /\ \A i \in 1..N : g[i] = Visit(g[i - 1])
  <2> HIDE DEF N
  <2> QED
    BY <1>1, VisitsMade
<1>3. Eq(g)
  <2> HIDE DEF N
  <2>1. \A i \in 0..N : g[i] = body(g, i)
    <3>1. \A i \in 0..N : i = 0 \/ i \in 1..N
      BY <1>1
    <3> QED
      BY <1>2, <3>1 DEF Start
  <2> HIDE DEF body
  <2> QED
    BY <1>2, <2>1
<1>4. Eq(K)
  <2> HIDE DEF Eq
  <2> QED
    BY <1>3
<1>5. Visited(n) = K[N].seen
  BY DEF Visited
<1>6. K[0] = Start(n) /\ \A i \in 1..N : K[i] = Visit(K[i - 1])
  <2> HIDE DEF K, N
  <2>1. \A i \in 0..N : K[i] = body(K, i)
    <3> HIDE DEF body
    <3> QED
      BY <1>4
  <2>2. K[0] = Start(n)
    <3>1. 0 \in 0..N /\ body(K, 0) = Start(n)
      BY <1>1 DEF Start
    <3> HIDE DEF body
    <3> QED
      BY <2>1, <3>1
  <2>3. ASSUME NEW i \in 1..N
        PROVE  K[i] = Visit(K[i - 1])
    <3>1. i \in 0..N /\ i # 0
      BY <1>1
    <3>2. body(K, i) = Visit(K[i - 1])
      BY <3>1
    <3> HIDE DEF body
    <3> QED
      BY <2>1, <3>1, <3>2
  <2> QED
    BY <2>2, <2>3
<1> HIDE DEF K, N
<1>7. VisitRight(K[N], n, N)
  <2> DEFINE T == {m \in Nat : m <= N => VisitRight(K[m], n, m)}
  <2>1. 0 \in T
    <3>1. Start(n) \in Visits /\ Start(n).open = {n} /\ Start(n).seen = {}
      BY DEF Start, Visits
    <3>2. {n} \subseteq Reached({n})
      BY ReachedStart
    <3>3. Cardinality(Start(n).seen) = 0
      BY <3>1, FS_EmptySet
    <3> QED
      BY <1>6, <3>1, <3>2, <3>3 DEF VisitRight
  <2>2. ASSUME NEW m \in Nat, m \in T
        PROVE  m + 1 \in T
    <3> SUFFICES ASSUME m + 1 <= N
                 PROVE  VisitRight(K[m + 1], n, m + 1)
      OBVIOUS
    <3>1. VisitRight(K[m], n, m) /\ K[m + 1] = Visit(K[m])
      BY <1>1, <1>6, <2>2
    <3> QED
      BY <3>1, VisitStep
  <2>3. N \in T
    <3> HIDE DEF T
    <3> QED
      BY <1>1, <2>1, <2>2, NatSetInduction
  <2> QED
    BY <1>1, <2>3
<1>8. PICK ahead, seen : ahead = K[N].open /\ seen = K[N].seen
  OBVIOUS
<1>9. /\ ahead \subseteq Nodes /\ seen \subseteq Nodes /\ ahead \cap seen = {}
      /\ n \in ahead \cup seen /\ seen \subseteq Reached({n})
      /\ \A m \in seen : CalleesOf(m) \subseteq ahead \cup seen
      /\ ahead = {} \/ Cardinality(seen) = N
  BY <1>7, <1>8 DEF VisitRight, Visits
<1>10. ahead = {}
  <2>1. Cardinality(seen) = N => seen = Nodes
    BY <1>9, FS_Subset, GraphsAssumption DEF N
  <2> QED
    BY <1>9, <2>1
<1>11. Closed(seen)
  <2> SUFFICES ASSUME NEW m \in Nodes, NEW k \in Nodes, m \in seen, Calls(m, k)
               PROVE  k \in seen
    BY DEF Closed
  <2> QED
    BY <1>9, <1>10, CalleesAre
<1>12. Reached({n}) \subseteq seen
  <2>1. {n} \in SUBSET Nodes /\ seen \in SUBSET Nodes /\ {n} \subseteq seen
    BY <1>9, <1>10
  <2> QED
    BY <1>11, <2>1, ReachedLeast
<1> QED
  BY <1>5, <1>8, <1>9, <1>12

\* What a function's calls lead to, from what is visited
LEMMA TransitiveCalleesAre ==
  ASSUME callees \in [Nodes -> Seq(Nodes)], NEW n \in Nodes
  PROVE  TransitiveCallees(n) = Reached(CalleesOf(n))
<1>1. PICK V : V = Reached({n})
  OBVIOUS
<1>2. PICK R : R = Reached(CalleesOf(n))
  OBVIOUS
<1>3. PICK U : U = UNION {CalleesOf(m) : m \in V}
  OBVIOUS
<1>4. TransitiveCallees(n) = U
  BY <1>1, <1>3, VisitedIs DEF TransitiveCallees
<1>5. CalleesOf(n) \subseteq Nodes /\ V \subseteq Nodes /\ R \subseteq Nodes /\ n \in V
  BY <1>1, <1>2, CalleesAre, ReachedStart DEF Reached
<1>6. CalleesOf(n) \subseteq R /\ \A m \in R : CalleesOf(m) \subseteq R
  BY <1>2, <1>5, CalleesAre, ReachedStart, ReachedClosed
<1>7. \A m \in V : CalleesOf(m) \subseteq V
  BY <1>1, <1>5, CalleesAre, ReachedClosed
<1>8. V \subseteq R \cup {n}
  <2>1. Closed(R \cup {n})
    <3> SUFFICES ASSUME NEW m \in Nodes, NEW k \in Nodes, m \in R \cup {n}, Calls(m, k)
                 PROVE  k \in R \cup {n}
      BY DEF Closed
    <3> QED
      BY <1>6, CalleesAre
  <2> QED
    BY <1>1, <1>5, <2>1, ReachedLeast
<1>9. U \subseteq R
  BY <1>3, <1>6, <1>8
<1>10. R \subseteq U
  <2>1. U \subseteq Nodes /\ CalleesOf(n) \subseteq U
    BY <1>3, <1>5, CalleesAre
  <2>2. Closed(U)
    <3> SUFFICES ASSUME NEW m \in Nodes, NEW k \in Nodes, m \in U, Calls(m, k)
                 PROVE  k \in U
      BY DEF Closed
    <3>1. m \in V
      BY <1>3, <1>7
    <3>2. k \in CalleesOf(m)
      BY CalleesAre
    <3> QED
      BY <1>3, <3>1, <3>2
  <2> QED
    BY <1>2, <1>5, <2>1, <2>2, ReachedLeast
<1> QED
  BY <1>2, <1>4, <1>9, <1>10

LEMMA QueriesAnswer ==
  ASSUME BuildInv
  PROVE  QueriesRight
<1> SUFFICES ASSUME phase = "report"
             PROVE  /\ \A n \in external : (\E m \in Nodes : m # n /\ Together(m, n))
                                              <=> (\E c \in cycleFindings : n \in c)
                    /\ \A n \in InMap : matrix[n] = Reached(CalleesOf(n))
  BY DEF QueriesRight
<1>1. /\ BuildTyped /\ EdgesInv /\ SearchesInv /\ pass = "done"
      /\ cycleFindings = SecurityRelevantCycles
      /\ matrix = [n \in InMap |-> TransitiveCallees(n)]
  BY DEF BuildInv
<1>2. callees \in [Nodes -> Seq(Nodes)] /\ external \subseteq Nodes
  BY <1>1 DEF BuildTyped, GraphTyped
<1>3. InMap \subseteq Nodes
  BY <1>1, OfIsNode DEF InMap
<1>4. \A n \in InMap : matrix[n] = Reached(CalleesOf(n))
  BY <1>1, <1>2, <1>3, TransitiveCalleesAre
<1>5. sccs = {{m \in Nodes : Together(m, n)} : n \in Nodes}
  BY <1>1, CyclesExact DEF SearchesInv, ComponentsExact
<1>6. ASSUME NEW n \in external, NEW m \in Nodes, m # n, Together(m, n)
      PROVE  \E c \in cycleFindings : n \in c
  <2>1. PICK c : c = {x \in Nodes : Together(x, n)}
    OBVIOUS
  <2>2. n \in Nodes /\ n \in c /\ m \in c /\ c \subseteq Nodes
    BY <1>2, <1>6, <2>1, ReachedStart DEF Together
  <2>3. c \in sccs
    BY <1>5, <2>1, <2>2
  <2>4. Cardinality(c) > 1
    <3>1. IsFiniteSet(c)
      BY <2>2, FS_Subset, GraphsAssumption
    <3>2. Cardinality(c) \in Nat /\ Cardinality(c) # 0 /\ Cardinality(c) # 1
      BY <1>6, <2>2, <3>1, FS_CardinalityType, FS_EmptySet, FS_Singleton
    <3> QED
      BY <3>2
  <2> QED
    BY <1>1, <2>2, <2>3, <2>4 DEF SecurityRelevantCycles
<1>7. ASSUME NEW n \in external, NEW c \in cycleFindings, n \in c
      PROVE  \E m \in Nodes : m # n /\ Together(m, n)
  <2>1. c \in sccs /\ Cardinality(c) > 1
    BY <1>1 DEF SecurityRelevantCycles
  <2>2. PICK o \in Nodes : c = {x \in Nodes : Together(x, o)}
    BY <1>5, <2>1
  <2>3. PICK m \in c : m # n
    <3>1. c # {n}
      BY <2>1, FS_Singleton
    <3> QED
      BY <1>7, <3>1
  <2>4. m \in Nodes /\ n \in Nodes /\ Together(m, o) /\ Together(n, o)
    BY <1>7, <2>2, <2>3
  <2>5. Together(m, n)
    BY <2>4, ReachedOn DEF Together
  <2> QED
    BY <2>3, <2>4, <2>5
<1> QED
  BY <1>4, <1>6, <1>7

LEMMA CallsAreRight ==
  ASSUME BuildInv
  PROVE  CallsRight
<1> SUFFICES ASSUME phase = "report"
             PROVE  CallsRight
  BY DEF CallsRight
<1>1. BuildTyped /\ EdgesInv /\ at.contract > Len(unit)
  BY DEF BuildInv
<1>2. ASSUME NEW x \in All, NEW c \in Walked(x), ~Lost(x)
      PROVE  Made(x, c)
  <2>1. PICK j \in 1..Len(Fn(x).calls) : c = Fn(x).calls[j] /\ c.walked
    BY DEF Walked
  <2>2. Passed(x)
    <3>1. x[1] \in 1..Len(unit) /\ Len(unit) \in Nat /\ at.contract \in Nat
      BY <1>1, UnitTyped DEF BuildTyped, Places
    <3> QED
      BY <1>1, <3>1 DEF Passed
  <2> QED
    BY <1>1, <1>2, <2>1, <2>2 DEF EdgesInv, PastCall
<1>3. \A x \in All : \A c \in Walked(x) :
         ~Lost(x) =>
           /\ (c.form = "name" /\ c.name \notin Builtins /\ Meant(x[1], c.name) # NoNode) =>
                Calls(Of(x), Meant(x[1], c.name)) \/ Ambiguous(x[1], c.name)
           /\ Leaves(c) => Of(x) \in external
  BY <1>2 DEF Made
<1> QED
  BY <1>1, <1>3 DEF CallsRight, EdgesInv

\* After passes 1 and 2 the graph has the calls of the source: each call that the walk
\* goes to has the edge or the mark it means, but for the calls of fallback and receive
\* functions and for ambiguous inherited names, and there is no other; and the cycles
\* and the matrix that the pipeline reports are what the edges say.
THEOREM BuildIsRight == BuildSpec => []BuildRight
<1>1. BuildInv => BuildRight
  BY QueriesAnswer, CallsAreRight DEF BuildRight
<1> QED
  BY <1>1, BuildKeeps, PTL

\* On the graph of any source unit, the flags, the marking and the components are right.
THEOREM SearchesOfBuildAreRight == BuildSpec => [](FlagsRight /\ ReachableExact /\ ComponentsRight)
<1>1. BuildInv => SearchesInv
  BY SearchStarts DEF BuildInv, BuildTyped
<1>2. SearchesInv => FlagsRight /\ ReachableExact /\ ComponentsRight
  <2>1. SearchesInv => ReachableExact
    BY DEF SearchesInv, ReachInv, ReachableExact
  <2> QED
    BY <2>1, LostOnlyInRecursion, CyclesClosed, CyclesExact
       DEF SearchesInv, FlagsRight, ComponentsRight
<1> QED
  BY <1>1, <1>2, BuildKeeps, PTL

-----------------------------------------------------------------------------
(* Suppression: what the tables mean after some lines *)

\* Line a opened a block of id that is still open after line n.
StillOpen(s, a, n, id) ==
  /\ a \in 1..n
  /\ Opens(s, a, id)
  /\ \A k \in 1..n : a < k => ~Turns(s, k, id)

\* The block of id that starts at a and ends at b.
Block(s, a, b, id) ==
  /\ a < b
  /\ Opens(s, a, id)
  /\ Closes(s, b, id)
  /\ \A k \in Nat : a < k /\ k < b => ~Turns(s, k, id)

OpenRight ==
  \A id \in Ids, a \in 1..MaxLine :
    open[id] = a <=> StillOpen(source, a, lineNum, id)

\* The blocks of the lines read, all of them ended.
EndedRight ==
  \A r \in Ranges :
    r \in ranges <=> r.end \in 1..lineNum /\ Block(source, r.start, r.end, r.id)

\* The same once the file has ended, and the blocks it left open.
RangesRight ==
  \A r \in Ranges :
    r \in ranges <=> \/ r.end \in 1..lineNum /\ Block(source, r.start, r.end, r.id)
                     \/ r.end = 0 /\ StillOpen(source, r.start, lineNum, r.id)

NextRight ==
  \A l \in Nat, id \in Ids :
    [line |-> l, id |-> id] \in nextLine
      <=> \E n \in 1..lineNum : l = n + 1 /\ NextNames(source, n, id)

Parsing ==
  pc = "parse" =>
    /\ source \in Contents
    /\ lineNum <= Len(source)
    /\ 1..lineNum \subseteq Visible(source)
    /\ OpenRight /\ EndedRight /\ NextRight

Parsed ==
  pc \in {"filter", "done"} /\ source # Unread =>
    /\ Visible(source) = 1..lineNum
    /\ RangesRight /\ NextRight

\* A file that could not be read has no directives.
NoDirectives ==
  pc \in {"filter", "done"} /\ source = Unread => nextLine = {} /\ ranges = {}

Parser == TablesOK /\ Parsing /\ Parsed /\ NoDirectives

-----------------------------------------------------------------------------
(* Lines and their directives *)

LEMMA SourceTyped ==
  ASSUME NEW s \in Contents
  PROVE  /\ s \in Seq(Lines)
         /\ Len(s) \in Nat /\ Len(s) <= MaxLine
         /\ s # Unread
BY SourcesAssumption DEF Contents

LEMMA LineTyped ==
  ASSUME NEW s \in Contents, NEW n \in 1..Len(s)
  PROVE  /\ RuleIDs(s[n].words) \subseteq Ids
         /\ BlockIDs(s[n].words) \subseteq Ids
<1>1. s[n] \in Lines
  BY SourceTyped
<1>2. s[n].words \in Seq(Words)
  BY <1>1 DEF Lines
<1>3. ToSet(s[n].words) \subseteq Words
  BY <1>2 DEF ToSet
<1>4. RuleIDs(s[n].words) \subseteq Ids
  BY <1>3 DEF RuleIDs, Words, Ids
<1>5. BlockIDs(s[n].words) \subseteq Ids
  BY <1>4 DEF BlockIDs, Ids
<1>6. QED
  BY <1>4, <1>5

\* One more line leaves a block open or opens it.
LEMMA StillOpenStep ==
  ASSUME NEW s, NEW id, NEW m \in Nat, NEW a \in Nat
  PROVE  StillOpen(s, a, m + 1, id)
           <=> \/ a = m + 1 /\ Opens(s, m + 1, id)
               \/ StillOpen(s, a, m, id) /\ ~Turns(s, m + 1, id)
<1>1. Opens(s, a, id) => Turns(s, a, id)
  BY DEF Turns
<1>2. 1..(m + 1) = 1..m \cup {m + 1}
  OBVIOUS
<1>3. CASE a = m + 1
  <2>1. ~StillOpen(s, a, m, id)
    BY <1>3 DEF StillOpen
  <2>2. StillOpen(s, a, m + 1, id) <=> Opens(s, m + 1, id)
    BY <1>3 DEF StillOpen
  <2>3. QED
    BY <1>3, <2>1, <2>2
<1>4. CASE a # m + 1
  BY <1>2, <1>4 DEF StillOpen
<1>5. QED
  BY <1>3, <1>4

\* The next line ends a block if it says so and the block is open.
LEMMA BlockEnds ==
  ASSUME NEW s, NEW id, NEW m \in Nat, NEW a \in Nat \ {0}
  PROVE  Block(s, a, m + 1, id) <=> Closes(s, m + 1, id) /\ StillOpen(s, a, m, id)
<1>1. a < m + 1 <=> a \in 1..m
  OBVIOUS
<1>2. (\A k \in Nat : a < k /\ k < m + 1 => ~Turns(s, k, id))
        <=> (\A k \in 1..m : a < k => ~Turns(s, k, id))
  <2>1. \A k \in Nat : a < k /\ k < m + 1 <=> k \in 1..m /\ a < k
    OBVIOUS
  <2>2. QED
    BY <2>1
<1>3. QED
  BY <1>1, <1>2 DEF Block, StillOpen

\* The line about to be read.
LEMMA NextLineTyped ==
  ASSUME TablesOK, Parsing, HasLine
  PROVE  /\ source \in Contents
         /\ lineNum \in Nat
         /\ lineNum + 1 \in 1..Len(source)
         /\ lineNum + 1 \in 1..MaxLine
         /\ lineNum + 1 \in Visible(source)
         /\ 1..(lineNum + 1) \subseteq Visible(source)
         /\ RuleIDs(source[lineNum + 1].words) \subseteq Ids
         /\ BlockIDs(source[lineNum + 1].words) \subseteq Ids
<1> DEFINE n == lineNum + 1
<1>1. source \in Contents /\ lineNum \in Nat /\ lineNum < Len(source)
  BY DEF TablesOK, Parsing, HasLine
<1>2. n \in 1..Len(source) /\ n \in 1..MaxLine
  BY <1>1, SourceTyped, BoundsAssumption
<1>3. source[n].kind # "long"
  BY DEF HasLine
<1>4. \A k \in 1..lineNum : source[k].kind # "long"
  <2>1. 1..lineNum \subseteq Visible(source)
    BY DEF Parsing, HasLine
  <2>2. \A k \in 1..lineNum : k \in 1..k
    BY <1>1
  <2>3. QED
    BY <2>1, <2>2 DEF Visible
<1>5. \A k \in 1..n : source[k].kind # "long"
  <2>1. 1..n = 1..lineNum \cup {n}
    BY <1>1
  <2>2. QED
    BY <2>1, <1>3, <1>4
<1>6. 1..n \subseteq Visible(source)
  <2>1. \A k \in 1..n : k \in 1..Len(source) /\ 1..k \subseteq 1..n
    BY <1>1, <1>2, SourceTyped
  <2>2. QED
    BY <2>1, <1>5 DEF Visible
<1>7. n \in 1..n
  BY <1>1
<1>8. QED
  BY <1>1, <1>2, <1>6, <1>7, LineTyped

-----------------------------------------------------------------------------
(* Types *)

LEMMA TypesInit == SuppressionInit => TablesOK
<1> SUFFICES ASSUME SuppressionInit PROVE TablesOK
  OBVIOUS
<1>1. disk \in Contents
  BY DEF SuppressionInit, Contents
<1>2. lineNum \in 0..MaxLine /\ scans \in 0..MaxScans /\ events \in 0..MaxEvents
  BY BoundsAssumption DEF SuppressionInit
<1>3. open \in [Ids -> 0..MaxLine]
  BY BoundsAssumption DEF SuppressionInit, NoBlocks
<1>4. QED
  BY <1>1, <1>2, <1>3 DEF SuppressionInit, TablesOK

\* Where a start and an end are noted, they are lines.
LEMMA EndsTyped ==
  ASSUME TablesOK, Parsing, HasLine
  PROVE  {[id |-> i, start |-> open[i], end |-> lineNum + 1] : i \in Ended(lineNum + 1)}
           \subseteq Ranges
<1> SUFFICES ASSUME NEW i \in Ended(lineNum + 1)
             PROVE  [id |-> i, start |-> open[i], end |-> lineNum + 1] \in Ranges
  OBVIOUS
<1>1. i \in Ids /\ open[i] # 0
  BY NextLineTyped DEF Ended
<1>2. open[i] \in 1..MaxLine
  BY <1>1, BoundsAssumption DEF TablesOK
<1>3. lineNum + 1 \in 0..MaxLine
  BY NextLineTyped
<1>4. QED
  BY <1>1, <1>2, <1>3 DEF Ranges

LEMMA RestTyped ==
  ASSUME TablesOK
  PROVE  {[id |-> i, start |-> open[i], end |-> 0] : i \in {j \in Ids : open[j] # 0}}
           \subseteq Ranges
<1> SUFFICES ASSUME NEW i \in Ids, open[i] # 0
             PROVE  [id |-> i, start |-> open[i], end |-> 0] \in Ranges
  OBVIOUS
<1>1. open[i] \in 1..MaxLine /\ 0 \in 0..MaxLine
  BY BoundsAssumption DEF TablesOK
<1>2. QED
  BY <1>1 DEF Ranges

LEMMA FilterTyped == FindingsOf(analysed) \subseteq Findings
BY DEF FindingsOf

LEMMA TypesStep == TablesOK /\ Parsing /\ [SuppressionNext]_suppressionVars => TablesOK'
<1> SUFFICES ASSUME TablesOK, Parsing, [SuppressionNext]_suppressionVars PROVE TablesOK'
  OBVIOUS
<1> USE DEF world, parser
<1>1. CASE Analyze
  BY <1>1 DEF Analyze, TablesOK
<1>2. CASE NewEngine
  BY <1>2 DEF NewEngine, TablesOK
<1>3. CASE ReadSource
  <2>1. 0 \in 0..MaxLine /\ NoBlocks \in [Ids -> 0..MaxLine]
    BY BoundsAssumption DEF NoBlocks
  <2>2. QED
    BY <1>3, <2>1 DEF ReadSource, TablesOK
<1>4. CASE NextLineDirective
  <2>1. HasLine
    BY <1>4 DEF NextLineDirective
  <2>2. {[line |-> lineNum + 2, id |-> i] : i \in RuleIDs(source[lineNum + 1].words)}
          \subseteq NextLines
    BY <2>1, NextLineTyped, BoundsAssumption DEF NextLines
  <2>3. lineNum + 1 \in 0..MaxLine /\ lineNum + 1 + 1 = lineNum + 2
    BY <2>1, NextLineTyped
  <2>4. nextLine' \subseteq NextLines
    BY <1>4, <2>2, <2>3 DEF NextLineDirective, TablesOK
  <2>5. QED
    BY <1>4, <2>3, <2>4 DEF NextLineDirective, TablesOK
<1>5. CASE DisableDirective
  <2>1. lineNum + 1 \in 0..MaxLine
    BY <1>5, NextLineTyped DEF DisableDirective
  <2>2. open' \in [Ids -> 0..MaxLine]
    BY <1>5, <2>1 DEF DisableDirective, Opened, TablesOK
  <2>3. QED
    BY <1>5, <2>1, <2>2 DEF DisableDirective, TablesOK
<1>6. CASE EnableDirective
  <2>1. HasLine
    BY <1>6 DEF EnableDirective
  <2>2. lineNum + 1 \in 0..MaxLine /\ 0 \in 0..MaxLine
    BY <2>1, NextLineTyped, BoundsAssumption
  <2>3. open' \in [Ids -> 0..MaxLine]
    BY <1>6, <2>2 DEF EnableDirective, TablesOK
  <2>4. ranges' \subseteq Ranges
    BY <1>6, <2>1, EndsTyped DEF EnableDirective, TablesOK
  <2>5. QED
    BY <1>6, <2>2, <2>3, <2>4 DEF EnableDirective, TablesOK
<1>7. CASE OtherLine
  <2>1. lineNum + 1 \in 0..MaxLine
    BY <1>7, NextLineTyped DEF OtherLine
  <2>2. QED
    BY <1>7, <2>1 DEF OtherLine, TablesOK
<1>8. CASE EndOfSource
  <2>1. NoBlocks \in [Ids -> 0..MaxLine]
    BY BoundsAssumption DEF NoBlocks
  <2>2. ranges' \subseteq Ranges
    BY <1>8, RestTyped DEF EndOfSource, TablesOK
  <2>3. QED
    BY <1>8, <2>1, <2>2 DEF EndOfSource, TablesOK
<1>9. CASE Filter
  <2>1. kept' \subseteq Findings
    BY <1>9, FilterTyped DEF Filter
  <2>2. QED
    BY <1>9, <2>1 DEF Filter, TablesOK
<1>10. CASE NextScan
  <2>1. scans + 1 \in 0..MaxScans
    BY <1>10, BoundsAssumption DEF NextScan, TablesOK
  <2>2. QED
    BY <1>10, <2>1 DEF NextScan, TablesOK
<1>11. CASE Write
  <2>1. events + 1 \in 0..MaxEvents
    BY <1>11, BoundsAssumption DEF Write, TablesOK
  <2>2. disk' \in Contents
    BY <1>11 DEF Write, Contents
  <2>3. QED
    BY <1>11, <2>1, <2>2 DEF Write, TablesOK
<1>12. CASE Tick
  <2>1. events + 1 \in 0..MaxEvents
    BY <1>12, BoundsAssumption DEF Tick, TablesOK
  <2>2. QED
    BY <1>12, <2>1 DEF Tick, TablesOK
<1>13. CASE UNCHANGED suppressionVars
  BY <1>13 DEF suppressionVars, TablesOK
<1>14. QED
  BY <1>1, <1>2, <1>3, <1>4, <1>5, <1>6, <1>7, <1>8, <1>9, <1>10, <1>11, <1>12,
     <1>13 DEF SuppressionNext

-----------------------------------------------------------------------------
(* The parser, one line at a time *)

\* What the tables mean after line n of s.
OpenAt(o, s, n) ==
  \A id \in Ids, a \in 1..MaxLine : o[id] = a <=> StillOpen(s, a, n, id)
EndedAt(rs, s, n) ==
  \A r \in Ranges : r \in rs <=> r.end \in 1..n /\ Block(s, r.start, r.end, r.id)
NextAt(ls, s, n) ==
  \A l \in Nat, id \in Ids :
    [line |-> l, id |-> id] \in ls <=> \E k \in 1..n : l = k + 1 /\ NextNames(s, k, id)

\* Each table moves on to line n if it takes in what the line says.
LEMMA OpenMoves ==
  ASSUME NEW s, NEW n \in Nat, NEW o, NEW p, OpenAt(o, s, n),
         \A id \in Ids, a \in 1..MaxLine :
           p[id] = a <=> \/ a = n + 1 /\ Opens(s, n + 1, id)
                         \/ o[id] = a /\ ~Turns(s, n + 1, id)
  PROVE  OpenAt(p, s, n + 1)
<1> SUFFICES ASSUME NEW id \in Ids, NEW a \in 1..MaxLine
             PROVE  p[id] = a <=> StillOpen(s, a, n + 1, id)
  BY DEF OpenAt
<1>1. a \in Nat
  BY BoundsAssumption
<1>2. QED
  BY <1>1, StillOpenStep DEF OpenAt

LEMMA EndedMoves ==
  ASSUME NEW s, NEW n \in Nat, NEW o, NEW rs, NEW qs, OpenAt(o, s, n), EndedAt(rs, s, n),
         \A r \in Ranges :
           r \in qs <=> \/ r \in rs
                        \/ r.end = n + 1 /\ Closes(s, n + 1, r.id) /\ o[r.id] = r.start
  PROVE  EndedAt(qs, s, n + 1)
<1> SUFFICES ASSUME NEW r \in Ranges
             PROVE  r \in qs <=> r.end \in 1..(n + 1) /\ Block(s, r.start, r.end, r.id)
  BY DEF EndedAt
<1>1. r.start \in 1..MaxLine /\ r.start \in Nat \ {0} /\ r.id \in Ids
  BY BoundsAssumption DEF Ranges
<1>2. CASE r.end = n + 1
  <2>1. r \notin rs
    <3>1. r.end \notin 1..n
      BY <1>2
    <3>2. QED
      BY <3>1 DEF EndedAt
  <2>2. r \in qs <=> Closes(s, n + 1, r.id) /\ StillOpen(s, r.start, n, r.id)
    BY <1>1, <1>2, <2>1 DEF OpenAt
  <2>3. r.end \in 1..(n + 1)
    BY <1>2
  <2>4. QED
    BY <1>1, <1>2, <2>2, <2>3, BlockEnds
<1>3. CASE r.end # n + 1
  <2>1. r.end \in 1..n <=> r.end \in 1..(n + 1)
    BY <1>3 DEF Ranges
  <2>2. QED
    BY <1>3, <2>1 DEF EndedAt
<1>4. QED
  BY <1>2, <1>3

LEMMA NextMoves ==
  ASSUME NEW s, NEW n \in Nat, NEW ls, NEW ks, NextAt(ls, s, n),
         \A l \in Nat, id \in Ids :
           [line |-> l, id |-> id] \in ks
             <=> \/ [line |-> l, id |-> id] \in ls
                 \/ l = n + 2 /\ NextNames(s, n + 1, id)
  PROVE  NextAt(ks, s, n + 1)
<1> SUFFICES ASSUME NEW l \in Nat, NEW id \in Ids
             PROVE  [line |-> l, id |-> id] \in ks
                      <=> \E k \in 1..(n + 1) : l = k + 1 /\ NextNames(s, k, id)
  BY DEF NextAt
<1>1. 1..(n + 1) = 1..n \cup {n + 1}
  OBVIOUS
<1>2. n + 2 = (n + 1) + 1
  OBVIOUS
<1>3. QED
  BY <1>1, <1>2 DEF NextAt

LEMMA ParsingNow ==
  ASSUME Parsing, pc = "parse"
  PROVE  /\ OpenAt(open, source, lineNum)
         /\ EndedAt(ranges, source, lineNum)
         /\ NextAt(nextLine, source, lineNum)
BY DEF Parsing, OpenRight, EndedRight, NextRight, OpenAt, EndedAt, NextAt

\* A line read: Parsing holds again if its three tables do.
LEMMA LineRead ==
  ASSUME TablesOK, Parsing, HasLine, pc' = pc, source' = source, lineNum' = lineNum + 1,
         OpenAt(open', source, lineNum + 1),
         EndedAt(ranges', source, lineNum + 1),
         NextAt(nextLine', source, lineNum + 1)
  PROVE  Parsing'
<1>1. source \in Contents /\ lineNum + 1 <= Len(source) /\ 1..(lineNum + 1) \subseteq Visible(source)
  BY NextLineTyped, SourceTyped
<1>2. OpenRight' /\ EndedRight' /\ NextRight'
  BY DEF OpenRight, EndedRight, NextRight, OpenAt, EndedAt, NextAt
<1>3. Visible(source)' = Visible(source)
  BY DEF Visible
<1>4. QED
  BY <1>1, <1>2, <1>3 DEF Parsing

\* A line is one directive at most.
LEMMA OneKind ==
  ASSUME NEW s, NEW n, NEW id
  PROVE  /\ SaysNext(s, n) => ~Turns(s, n, id)
         /\ Opens(s, n, id) => ~Closes(s, n, id) /\ ~NextNames(s, n, id)
         /\ Closes(s, n, id) => ~NextNames(s, n, id)
BY DEF SaysNext, SaysDisable, SaysEnable, Turns, Opens, Closes, NextNames

LEMMA NextLineKeeps ==
  ASSUME TablesOK, Parsing, NextLineDirective PROVE Parsing'
<1> DEFINE n == lineNum + 1
<1>1. HasLine /\ pc = "parse" /\ SaysNext(source, n)
  BY DEF NextLineDirective, HasLine
<1>2. lineNum \in Nat
  BY DEF TablesOK
<1>3. \A id \in Ids : ~Opens(source, n, id) /\ ~Closes(source, n, id) /\ ~Turns(source, n, id)
  BY <1>1, OneKind DEF Turns
<1>4. OpenAt(open, source, n)
  <2>1. \A id \in Ids, a \in 1..MaxLine :
          open[id] = a <=> \/ a = n /\ Opens(source, n, id)
                           \/ open[id] = a /\ ~Turns(source, n, id)
    BY <1>3
  <2>2. QED
    BY <2>1, <1>1, <1>2, ParsingNow, OpenMoves
<1>5. EndedAt(ranges, source, n)
  <2>1. \A r \in Ranges : ~Closes(source, n, r.id)
    BY <1>3 DEF Ranges
  <2>2. QED
    BY <2>1, <1>1, <1>2, ParsingNow, EndedMoves
<1>6. NextAt(nextLine', source, n)
  <2>1. nextLine' = nextLine \cup {[line |-> n + 1, id |-> i] : i \in RuleIDs(source[n].words)}
    BY DEF NextLineDirective
  <2>2. \A l \in Nat, id \in Ids :
          [line |-> l, id |-> id] \in nextLine'
            <=> \/ [line |-> l, id |-> id] \in nextLine
                \/ l = n + 1 /\ id \in RuleIDs(source[n].words)
    BY <2>1
  <2>3. n + 1 = lineNum + 2
    BY <1>2
  <2>4. \A l \in Nat, id \in Ids :
          [line |-> l, id |-> id] \in nextLine'
            <=> \/ [line |-> l, id |-> id] \in nextLine
                \/ l = lineNum + 2 /\ NextNames(source, lineNum + 1, id)
    BY <2>2, <2>3, <1>1 DEF NextNames
  <2>5. QED
    BY <2>4, <1>1, <1>2, ParsingNow, NextMoves
<1>7. QED
  BY <1>1, <1>4, <1>5, <1>6, LineRead DEF NextLineDirective
LEMMA DisableKeeps ==
  ASSUME TablesOK, Parsing, DisableDirective PROVE Parsing'
<1> DEFINE n == lineNum + 1
<1>1. HasLine /\ pc = "parse" /\ SaysDisable(source, n)
  BY DEF DisableDirective, HasLine
<1>2. lineNum \in Nat
  BY DEF TablesOK
<1>3. \A id \in Ids :
        /\ Opens(source, n, id) <=> id \in BlockIDs(source[n].words)
        /\ Turns(source, n, id) <=> Opens(source, n, id)
        /\ ~Closes(source, n, id) /\ ~NextNames(source, n, id)
  BY <1>1 DEF SaysNext, SaysDisable, SaysEnable, Turns, Opens, Closes, NextNames
<1>4. OpenAt(open', source, n)
  <2>1. \A id \in Ids : open'[id] = IF Opens(source, n, id) THEN n ELSE open[id]
    BY <1>3 DEF DisableDirective, Opened
  <2>2. \A id \in Ids, a \in 1..MaxLine :
          open'[id] = a <=> \/ a = n /\ Opens(source, n, id)
                            \/ open[id] = a /\ ~Turns(source, n, id)
    BY <2>1, <1>3
  <2>3. QED
    BY <2>2, <1>1, <1>2, ParsingNow, OpenMoves
<1>5. EndedAt(ranges', source, n)
  <2>1. \A r \in Ranges : ~Closes(source, n, r.id)
    BY <1>3 DEF Ranges
  <2>2. ranges' = ranges
    BY DEF DisableDirective
  <2>3. QED
    BY <2>1, <2>2, <1>1, <1>2, ParsingNow, EndedMoves
<1>6. NextAt(nextLine', source, n)
  <2>1. nextLine' = nextLine
    BY DEF DisableDirective
  <2>2. QED
    BY <2>1, <1>1, <1>2, <1>3, ParsingNow, NextMoves
<1>7. QED
  BY <1>1, <1>4, <1>5, <1>6, LineRead DEF DisableDirective

LEMMA EnableKeeps ==
  ASSUME TablesOK, Parsing, EnableDirective PROVE Parsing'
<1> DEFINE n == lineNum + 1
<1>1. HasLine /\ pc = "parse" /\ SaysEnable(source, n)
  BY DEF EnableDirective, HasLine
<1>2. lineNum \in Nat
  BY DEF TablesOK
<1>3. \A id \in Ids :
        /\ Closes(source, n, id) <=> id \in BlockIDs(source[n].words)
        /\ Turns(source, n, id) <=> Closes(source, n, id)
        /\ ~Opens(source, n, id) /\ ~NextNames(source, n, id)
  BY <1>1 DEF SaysNext, SaysDisable, SaysEnable, Turns, Opens, Closes, NextNames
<1>4. \A id \in Ids : id \in Ended(n) <=> Closes(source, n, id) /\ open[id] # 0
  BY <1>3 DEF Ended
<1>5. OpenAt(open', source, n)
  <2>1. \A id \in Ids : open'[id] = IF id \in Ended(n) THEN 0 ELSE open[id]
    BY DEF EnableDirective
  <2>2. \A id \in Ids, a \in 1..MaxLine :
          open'[id] = a <=> \/ a = n /\ Opens(source, n, id)
                            \/ open[id] = a /\ ~Turns(source, n, id)
    BY <2>1, <1>3, <1>4, BoundsAssumption
  <2>3. QED
    BY <2>2, <1>1, <1>2, ParsingNow, OpenMoves
<1>6. EndedAt(ranges', source, n)
  <2>1. ranges' = ranges \cup {[id |-> i, start |-> open[i], end |-> n] : i \in Ended(n)}
    BY DEF EnableDirective
  <2>2. ASSUME NEW r \in Ranges
        PROVE  r \in ranges' <=> \/ r \in ranges
                                 \/ r.end = n /\ Closes(source, n, r.id) /\ open[r.id] = r.start
    <3>1. r.id \in Ids /\ r.start # 0
      BY BoundsAssumption DEF Ranges
    <3>2. \A i : r = [id |-> i, start |-> open[i], end |-> n]
                   <=> r.id = i /\ r.start = open[i] /\ r.end = n
      BY DEF Ranges
    <3>3. r \in {[id |-> i, start |-> open[i], end |-> n] : i \in Ended(n)}
            <=> r.end = n /\ r.id \in Ended(n) /\ open[r.id] = r.start
      BY <3>2
    <3>4. r.id \in Ended(n) /\ open[r.id] = r.start
            <=> Closes(source, n, r.id) /\ open[r.id] = r.start
      BY <3>1, <1>4
    <3>5. QED
      BY <2>1, <3>3, <3>4
  <2>3. QED
    BY <2>2, <1>1, <1>2, ParsingNow, EndedMoves
<1>7. NextAt(nextLine', source, n)
  <2>1. nextLine' = nextLine
    BY DEF EnableDirective
  <2>2. QED
    BY <2>1, <1>1, <1>2, <1>3, ParsingNow, NextMoves
<1>8. QED
  BY <1>1, <1>5, <1>6, <1>7, LineRead DEF EnableDirective

LEMMA OtherKeeps ==
  ASSUME TablesOK, Parsing, OtherLine PROVE Parsing'
<1> DEFINE n == lineNum + 1
<1>1. HasLine /\ pc = "parse" /\ lineNum \in Nat
  BY DEF OtherLine, HasLine, TablesOK
<1>2. \A id \in Ids :
        ~Opens(source, n, id) /\ ~Closes(source, n, id) /\ ~NextNames(source, n, id)
          /\ ~Turns(source, n, id)
  BY DEF OtherLine, Opens, Closes, NextNames, Turns
<1>3. OpenAt(open, source, n)
  BY <1>1, <1>2, ParsingNow, OpenMoves
<1>4. EndedAt(ranges, source, n)
  <2>1. \A r \in Ranges : ~Closes(source, n, r.id)
    BY <1>2 DEF Ranges
  <2>2. QED
    BY <2>1, <1>1, ParsingNow, EndedMoves
<1>5. NextAt(nextLine, source, n)
  BY <1>1, <1>2, ParsingNow, NextMoves
<1>6. QED
  BY <1>1, <1>3, <1>4, <1>5, LineRead DEF OtherLine

\* The file ends, or an over-long line ends the reading of it.
LEMMA EndKeeps ==
  ASSUME TablesOK, Parsing, EndOfSource PROVE Parsed'
<1>1. pc = "parse" /\ ~HasLine /\ source' = source /\ lineNum' = lineNum /\ nextLine' = nextLine
  BY DEF EndOfSource
<1>2. /\ source \in Contents /\ lineNum \in Nat /\ lineNum <= Len(source)
      /\ 1..lineNum \subseteq Visible(source)
  BY <1>1 DEF Parsing, TablesOK
<1>3. Visible(source) = 1..lineNum
  <2>1. ASSUME NEW k \in Visible(source) PROVE k \in 1..lineNum
    <3>1. k \in 1..Len(source) /\ \A j \in 1..k : source[j].kind # "long"
      BY DEF Visible
    <3>2. Len(source) \in Nat
      BY <1>2, SourceTyped
    <3>3. CASE lineNum < Len(source)
      <4>1. source[lineNum + 1].kind = "long"
        BY <1>1, <3>3 DEF HasLine
      <4>2. lineNum + 1 \notin 1..k
        BY <3>1, <4>1
      <4>3. QED
        BY <1>2, <3>1, <3>2, <4>2
    <3>4. CASE lineNum = Len(source)
      BY <3>1, <3>4
    <3>5. QED
      BY <1>2, <3>2, <3>3, <3>4
  <2>2. QED
    BY <1>2, <2>1
<1>4. RangesRight'
  <2> DEFINE rest == {[id |-> i, start |-> open[i], end |-> 0] : i \in {j \in Ids : open[j] # 0}}
  <2>1. ranges' = ranges \cup rest
    BY DEF EndOfSource
  <2>2. ASSUME NEW r \in Ranges
        PROVE  r \in ranges' <=> \/ r.end \in 1..lineNum /\ Block(source, r.start, r.end, r.id)
                                 \/ r.end = 0 /\ StillOpen(source, r.start, lineNum, r.id)
    <3>1. r.id \in Ids /\ r.start \in 1..MaxLine /\ r.start # 0
      BY BoundsAssumption DEF Ranges
    <3>2. \A i : r = [id |-> i, start |-> open[i], end |-> 0]
                   <=> r.id = i /\ r.start = open[i] /\ r.end = 0
      BY DEF Ranges
    <3>3. r \in rest <=> r.end = 0 /\ open[r.id] = r.start
      BY <3>1, <3>2
    <3>4. open[r.id] = r.start <=> StillOpen(source, r.start, lineNum, r.id)
      BY <1>1, <3>1, ParsingNow DEF OpenAt
    <3>5. r \in ranges <=> r.end \in 1..lineNum /\ Block(source, r.start, r.end, r.id)
      BY <1>1, ParsingNow DEF EndedAt
    <3>6. QED
      BY <2>1, <3>3, <3>4, <3>5
  <2>3. QED
    BY <1>1, <2>2 DEF RangesRight
<1>5. NextRight'
  BY <1>1 DEF Parsing, NextRight
<1>6. QED
  BY <1>1, <1>3, <1>4, <1>5 DEF Parsed, Visible

\* The reading of the file begins with empty tables.
LEMMA ReadKeeps ==
  ASSUME TablesOK, ReadSource PROVE Parsing' /\ Parsed' /\ NoDirectives'
<1>1. lineNum' = 0 /\ open' = NoBlocks /\ nextLine' = {} /\ ranges' = {}
  BY DEF ReadSource
<1>2. CASE source' = disk /\ pc' = "parse"
  <2>1. source' \in Contents /\ Len(source') \in Nat
    BY <1>2, SourceTyped DEF TablesOK
  <2>2. 1..0 = {}
    OBVIOUS
  <2>3. OpenRight'
    <3>1. \A id \in Ids, a \in 1..MaxLine : NoBlocks[id] # a
      BY BoundsAssumption DEF NoBlocks
    <3>2. QED
      BY <1>1, <2>2, <3>1 DEF OpenRight, StillOpen
  <2>4. EndedRight' /\ NextRight'
    BY <1>1, <2>2 DEF EndedRight, NextRight
  <2>5. QED
    BY <1>1, <1>2, <2>1, <2>2, <2>3, <2>4 DEF Parsing, Parsed, NoDirectives
<1>3. CASE source' = Unread /\ pc' = "filter"
  BY <1>1, <1>3 DEF Parsing, Parsed, NoDirectives
<1>4. QED
  BY <1>2, <1>3 DEF ReadSource

\* Everything else leaves the parser alone.
LEMMA ParserUntouched ==
  ASSUME Parsing, Parsed, NoDirectives, UNCHANGED <<source, parser>>,
         \/ pc' = pc
         \/ pc' \in {"analyze", "engine", "read"}
         \/ pc = "filter" /\ pc' = "done"
  PROVE  Parsing' /\ Parsed' /\ NoDirectives'
<1>1. UNCHANGED <<source, lineNum, open, nextLine, ranges>>
  BY DEF parser
<1>2. QED
  BY <1>1 DEF Parsing, Parsed, NoDirectives, OpenRight, EndedRight, RangesRight,
              NextRight, Visible

LEMMA ParserInit == SuppressionInit => Parsing /\ Parsed /\ NoDirectives
BY DEF SuppressionInit, Parsing, Parsed, NoDirectives

LEMMA ParserStep == Parser /\ [SuppressionNext]_suppressionVars => Parser'
<1> SUFFICES ASSUME Parser, [SuppressionNext]_suppressionVars PROVE Parser'
  OBVIOUS
<1> USE DEF Parser
<1>1. TablesOK'
  BY TypesStep
<1>2. CASE NextLineDirective
  <2>1. Parsing'
    BY <1>2, NextLineKeeps
  <2>2. pc' = "parse"
    BY <1>2 DEF NextLineDirective, HasLine
  <2>3. QED
    BY <1>1, <2>1, <2>2 DEF Parsed, NoDirectives
<1>3. CASE DisableDirective
  <2>1. Parsing'
    BY <1>3, DisableKeeps
  <2>2. pc' = "parse"
    BY <1>3 DEF DisableDirective, HasLine
  <2>3. QED
    BY <1>1, <2>1, <2>2 DEF Parsed, NoDirectives
<1>4. CASE EnableDirective
  <2>1. Parsing'
    BY <1>4, EnableKeeps
  <2>2. pc' = "parse"
    BY <1>4 DEF EnableDirective, HasLine
  <2>3. QED
    BY <1>1, <2>1, <2>2 DEF Parsed, NoDirectives
<1>5. CASE OtherLine
  <2>1. Parsing'
    BY <1>5, OtherKeeps
  <2>2. pc' = "parse"
    BY <1>5 DEF OtherLine, HasLine
  <2>3. QED
    BY <1>1, <2>1, <2>2 DEF Parsed, NoDirectives
<1>6. CASE EndOfSource
  <2>1. Parsed'
    BY <1>6, EndKeeps
  <2>2. pc' = "filter" /\ source' = source /\ source # Unread
    BY <1>6, SourceTyped DEF EndOfSource, Parsing
  <2>3. QED
    BY <1>1, <2>1, <2>2 DEF Parsing, NoDirectives
<1>7. CASE ReadSource
  BY <1>1, <1>7, ReadKeeps
<1>8. CASE Analyze
  BY <1>1, <1>8, ParserUntouched DEF Analyze
<1>9. CASE NewEngine
  BY <1>1, <1>9, ParserUntouched DEF NewEngine
<1>10. CASE Filter
  BY <1>1, <1>10, ParserUntouched DEF Filter
<1>11. CASE NextScan
  BY <1>1, <1>11, ParserUntouched DEF NextScan
<1>12. CASE Write
  BY <1>1, <1>12, ParserUntouched DEF Write
<1>13. CASE Tick
  BY <1>1, <1>13, ParserUntouched DEF Tick
<1>14. CASE UNCHANGED suppressionVars
  BY <1>1, <1>14, ParserUntouched DEF suppressionVars
<1>15. QED
  BY <1>2, <1>3, <1>4, <1>5, <1>6, <1>7, <1>8, <1>9, <1>10, <1>11, <1>12, <1>13,
     <1>14 DEF SuppressionNext
-----------------------------------------------------------------------------
(* The directives *)

\* The ranges of an id hold the lines of its blocks.
LEMMA RangesCover ==
  ASSUME TablesOK, source \in Contents, Visible(source) = 1..lineNum, RangesRight,
         NEW id \in Ids, NEW l \in 1..MaxLine
  PROVE  (\E r \in ranges : r.id = id /\ InRange(r, l))
           <=> (\E a \in 1..MaxLine : InBlock(source, a, l, id))
<1>1. lineNum \in Nat /\ lineNum <= MaxLine /\ MaxLine \in Nat /\ l \in Nat
  BY BoundsAssumption DEF TablesOK
<1>2. \A a \in 1..MaxLine :
        StillOpen(source, a, lineNum, id)
          <=> a \in 1..lineNum /\ Opens(source, a, id) /\ Quiet(source, a, MaxLine + 1, id)
  BY <1>1 DEF StillOpen, Quiet
<1>3. \A a \in 1..MaxLine, b \in 1..lineNum :
        Block(source, a, b, id)
          <=> a < b /\ Opens(source, a, id) /\ Closes(source, b, id) /\ Quiet(source, a, b, id)
  <2> SUFFICES ASSUME NEW a \in 1..MaxLine, NEW b \in 1..lineNum
               PROVE  (\A k \in Nat : a < k /\ k < b => ~Turns(source, k, id))
                        <=> Quiet(source, a, b, id)
    BY DEF Block
  <2>1. \A k \in Nat : a < k /\ k < b <=> k \in 1..lineNum /\ a < k /\ k < b
    BY <1>1
  <2>2. QED
    BY <1>1, <2>1 DEF Quiet
<1>4. ASSUME NEW r \in ranges, r.id = id, InRange(r, l)
      PROVE  \E a \in 1..MaxLine : InBlock(source, a, l, id)
  <2>1. r \in Ranges /\ r.start \in 1..MaxLine /\ r.start <= l
    BY <1>4 DEF TablesOK, Ranges, InRange
  <2>2. CASE r.end = 0 /\ StillOpen(source, r.start, lineNum, id)
    BY <1>2, <2>1, <2>2 DEF InBlock
  <2>3. CASE r.end \in 1..lineNum /\ Block(source, r.start, r.end, id)
    <3>1. r.end # 0 /\ l <= r.end
      BY <1>1, <1>4, <2>3 DEF InRange
    <3>2. r.start \in 1..lineNum
      BY <1>1, <2>1, <2>3 DEF Block
    <3>3. QED
      BY <1>3, <2>1, <2>3, <3>1, <3>2 DEF InBlock
  <2>4. QED
    BY <1>4, <2>1, <2>2, <2>3 DEF RangesRight
<1>5. ASSUME NEW a \in 1..MaxLine, InBlock(source, a, l, id)
      PROVE  \E r \in ranges : r.id = id /\ InRange(r, l)
  <2>1. a \in 1..lineNum /\ a <= l /\ Opens(source, a, id)
    BY <1>5 DEF InBlock
  <2>2. CASE Quiet(source, a, MaxLine + 1, id)
    <3> DEFINE r == [id |-> id, start |-> a, end |-> 0]
    <3>1. r \in Ranges
      BY <1>1 DEF Ranges
    <3>2. r \in ranges
      BY <1>2, <2>1, <2>2, <3>1 DEF RangesRight
    <3>3. InRange(r, l)
      BY <2>1 DEF InRange
    <3>4. QED
      BY <3>2, <3>3
  <2>3. CASE \E b \in 1..lineNum : /\ a < b /\ l <= b
                                   /\ Closes(source, b, id) /\ Quiet(source, a, b, id)
    <3>1. PICK b \in 1..lineNum : /\ a < b /\ l <= b
                                  /\ Closes(source, b, id) /\ Quiet(source, a, b, id)
      BY <2>3
    <3> DEFINE r == [id |-> id, start |-> a, end |-> b]
    <3>2. r \in Ranges
      BY <1>1 DEF Ranges
    <3>3. r \in ranges
      BY <1>3, <2>1, <3>1, <3>2 DEF RangesRight
    <3>4. InRange(r, l)
      BY <2>1, <3>1 DEF InRange
    <3>5. QED
      BY <3>3, <3>4
  <2>4. QED
    BY <1>5, <2>2, <2>3 DEF InBlock
<1>6. QED
  BY <1>4, <1>5

LEMMA Exact == Parser => DirectivesExact
<1> SUFFICES ASSUME Parser, pc \in {"filter", "done"}, source # Unread,
                    NEW rule \in Rules, NEW l \in 1..MaxLine
             PROVE  Directed(rule, l) <=> Covered(source, rule, l)
  BY DEF DirectivesExact
<1>1. /\ TablesOK /\ source \in Contents
      /\ Visible(source) = 1..lineNum /\ RangesRight /\ NextRight
  BY DEF Parser, TablesOK, Parsed
<1>2. {rule, Star} \subseteq Ids /\ l \in Nat
  BY BoundsAssumption DEF Ids
<1>3. \A id \in {rule, Star} :
        (\E r \in ranges : r.id = id /\ InRange(r, l))
          <=> (\E a \in 1..MaxLine : InBlock(source, a, l, id))
  BY <1>1, <1>2, RangesCover
<1>4. \A id \in {rule, Star} :
        [line |-> l, id |-> id] \in nextLine
          <=> \E n \in Visible(source) : l = n + 1 /\ NextNames(source, n, id)
  BY <1>1, <1>2 DEF NextRight
<1>5. QED
  BY <1>3, <1>4 DEF Directed, Covered

-----------------------------------------------------------------------------
(* What is hidden, and what stays reported *)

\* An ignore entry is for this finding, its expiry aside.
IsFor(e, f) ==
  /\ e.rule \in {f.rule, Star}
  /\ Unnamed \in {e.function, f.function} \/ e.function = f.function

ClockRight == started <= now

WarnedRight ==
  pc \in {"read", "parse", "filter", "done"} =>
    warned = {e \in Ignores : HasExpired(e, started)}

KeptRight ==
  pc = "done" =>
    kept = {f \in FindingsOf(analysed) : ~Directed(f.rule, f.line) /\ ~Ignored(f)}

\* What the previous scan reported, its directives did not cover, and every
\* ignore entry for it had expired.
BeforeRight ==
  \A f \in before.kept :
    /\ before.source # Unread => ~Covered(before.source, f.rule, f.line)
    /\ \A e \in Ignores : IsFor(e, f) => HasExpired(e, started)

History == ClockRight /\ WarnedRight /\ KeptRight /\ BeforeRight

LEMMA HistoryInit == SuppressionInit => History
BY DEF SuppressionInit, History, ClockRight, WarnedRight, KeptRight, BeforeRight

\* An entry that has expired stays so.
LEMMA StaysExpired ==
  ASSUME NEW e \in Ignores, NEW t \in Nat, NEW u \in Nat, t <= u, HasExpired(e, t)
  PROVE  HasExpired(e, u)
<1>1. e.expiry \in Nat
  BY IgnoresAssumption DEF HasExpired, Entries
<1>2. QED
  BY <1>1 DEF HasExpired

LEMMA HistoryStep == Parser /\ History /\ [SuppressionNext]_suppressionVars => History'
<1> SUFFICES ASSUME Parser, History, [SuppressionNext]_suppressionVars PROVE History'
  OBVIOUS
<1>1. TablesOK /\ now \in Nat /\ started \in Nat
  BY DEF Parser, TablesOK
<1> USE DEF History, world, parser
<1>2. ASSUME UNCHANGED <<started, before>> PROVE BeforeRight'
  BY <1>2 DEF BeforeRight
<1>3. CASE NewEngine
  <2>1. started' = now /\ started <= now /\ now' = now /\ before' = before
    BY <1>3 DEF NewEngine, ClockRight
  <2>2. BeforeRight'
    BY <1>1, <2>1, StaysExpired DEF BeforeRight
  <2>3. WarnedRight' /\ KeptRight' /\ ClockRight'
    BY <1>1, <1>3 DEF NewEngine, WarnedRight, KeptRight, ClockRight
  <2>4. QED
    BY <2>2, <2>3
<1>4. CASE Filter
  <2>1. KeptRight'
    BY <1>4 DEF Filter, KeptRight, Directed, Ignored, Applies
  <2>2. QED
    BY <1>2, <1>4, <2>1 DEF Filter, ClockRight, WarnedRight
<1>5. CASE NextScan
  <2>1. before' = [source |-> source, kept |-> kept] /\ started' = started /\ pc = "done"
    BY <1>5 DEF NextScan
  <2>2. ASSUME NEW f \in kept
        PROVE  /\ source # Unread => ~Covered(source, f.rule, f.line)
               /\ \A e \in Ignores : IsFor(e, f) => HasExpired(e, started)
    <3>1. f \in FindingsOf(analysed) /\ ~Directed(f.rule, f.line) /\ ~Ignored(f)
      BY <2>1, <2>2 DEF KeptRight
    <3>2. f.rule \in Rules /\ f.line \in 1..MaxLine
      BY <3>1 DEF FindingsOf, Findings
    <3>3. source # Unread => ~Covered(source, f.rule, f.line)
      BY <2>1, <3>1, <3>2, Exact DEF DirectivesExact
    <3>4. QED
      BY <3>1, <3>3 DEF Ignored, Applies, IsFor
  <2>3. BeforeRight'
    BY <2>1, <2>2 DEF BeforeRight
  <2>4. QED
    BY <1>5, <2>3 DEF NextScan, ClockRight, WarnedRight, KeptRight
<1>6. CASE Analyze \/ ReadSource
  BY <1>2, <1>6 DEF Analyze, ReadSource, ClockRight, WarnedRight, KeptRight
<1>7. CASE NextLineDirective \/ DisableDirective
  BY <1>2, <1>7 DEF NextLineDirective, DisableDirective, HasLine, ClockRight,
                    WarnedRight, KeptRight
<1>8. CASE EnableDirective \/ OtherLine \/ EndOfSource
  BY <1>2, <1>8 DEF EnableDirective, OtherLine, EndOfSource, HasLine, ClockRight,
                    WarnedRight, KeptRight
<1>9. CASE Write \/ UNCHANGED suppressionVars
  BY <1>2, <1>9 DEF Write, suppressionVars, ClockRight, WarnedRight, KeptRight, Directed, Ignored,
                    Applies
<1>10. CASE Tick
  <2>1. now' = now + 1 /\ started' = started
    BY <1>10 DEF Tick
  <2>2. QED
    BY <1>1, <1>2, <1>10, <2>1 DEF Tick, ClockRight, WarnedRight, KeptRight, Directed,
                                   Ignored, Applies
<1>11. QED
  BY <1>3, <1>4, <1>5, <1>6, <1>7, <1>8, <1>9, <1>10 DEF SuppressionNext

LEMMA Reasons == Parser /\ History => HiddenForAReason
<1> SUFFICES ASSUME Parser, History, pc = "done", source \in {analysed, Unread},
                    NEW f \in FindingsOf(analysed) \ kept
             PROVE  \/ source # Unread /\ Covered(analysed, f.rule, f.line)
                    \/ \E e \in Ignores \ warned :
                         /\ e.rule \in {f.rule, Star}
                         /\ f.function # Unnamed /\ e.function # Unnamed
                              => e.function = f.function
  BY DEF HiddenForAReason
<1>1. Directed(f.rule, f.line) \/ Ignored(f)
  BY DEF History, KeptRight
<1>2. f.rule \in Rules /\ f.line \in 1..MaxLine
  BY DEF FindingsOf, Findings
<1>3. CASE Directed(f.rule, f.line)
  <2>1. source # Unread
    BY <1>3 DEF Parser, NoDirectives, Directed
  <2>2. QED
    BY <1>2, <1>3, <2>1, Exact DEF DirectivesExact
<1>4. CASE Ignored(f)
  BY <1>4 DEF Ignored, Applies, History, WarnedRight
<1>5. QED
  BY <1>1, <1>3, <1>4

LEMMA Stays ==
  Parser /\ History /\ [SuppressionNext]_suppressionVars =>
    (pc = "filter" /\ pc' = "done" /\ source = before.source /\ source = analysed =>
       before.kept \cap FindingsOf(analysed) \subseteq kept')
<1> SUFFICES ASSUME Parser, History, [SuppressionNext]_suppressionVars, pc = "filter", pc' = "done",
                    source = before.source, source = analysed,
                    NEW f \in before.kept \cap FindingsOf(analysed)
             PROVE  f \in kept'
  OBVIOUS
<1>1. analysed \in Contents /\ source # Unread
  BY SourceTyped DEF Parser, TablesOK
<1>2. f.rule \in Rules /\ f.line \in 1..MaxLine
  BY DEF FindingsOf, Findings
<1>3. ~Directed(f.rule, f.line)
  BY <1>1, <1>2, Exact DEF DirectivesExact, History, BeforeRight
<1>4. ~Ignored(f)
  BY DEF History, BeforeRight, Ignored, Applies, IsFor
<1>5. Filter
  BY DEF SuppressionNext, suppressionVars, Analyze, NewEngine, ReadSource, NextLineDirective, DisableDirective,
         EnableDirective, OtherLine, HasLine, EndOfSource, NextScan, Write, Tick
<1>6. QED
  BY <1>3, <1>4, <1>5 DEF Filter

-----------------------------------------------------------------------------
(* The theorems *)

LEMMA Inductive == SuppressionSpec => [](Parser /\ History)
<1>1. SuppressionInit => Parser /\ History
  BY TypesInit, ParserInit, HistoryInit DEF Parser
<1>2. Parser /\ History /\ [SuppressionNext]_suppressionVars => (Parser /\ History)'
  BY ParserStep, HistoryStep
<1>3. QED
  BY <1>1, <1>2, PTL DEF SuppressionSpec

\* Every line the parser notes is a line, every id one of the rules' or "*":
\* no block that was never started is ended.
THEOREM TablesTyped == SuppressionSpec => []TablesOK
<1>1. Parser => TablesOK
  BY DEF Parser
<1>2. QED
  BY <1>1, Inductive, PTL

\* Parse and IsSuppressed suppress, of every file, exactly the lines that its
\* directives cover.
THEOREM ParserIsExact == SuppressionSpec => []DirectivesExact
<1>1. QED
  BY Exact, Inductive, PTL

\* FilterResults hides a finding of an unedited file for a directive of that
\* file or for an ignore entry that has not expired.
THEOREM NothingHiddenUnasked == SuppressionSpec => []HiddenForAReason
<1>1. QED
  BY Reasons, Inductive, PTL

\* What a scan reports, the next scan of the same content reports, whatever
\* time has passed.
THEOREM ReportsStay == SuppressionSpec => ReportedStays
<1>1. Parser /\ History /\ [SuppressionNext]_suppressionVars =>
        [pc = "filter" /\ pc' = "done" /\ source = before.source /\ source = analysed =>
           before.kept \cap FindingsOf(analysed) \subseteq kept']_suppressionVars
  BY Stays
<1>2. QED
  BY <1>1, Inductive, PTL DEF SuppressionSpec, ReportedStays
=============================================================================
