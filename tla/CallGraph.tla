----------------------------- MODULE CallGraph -----------------------------
(***************************************************************************)
(* Passes 3 and 4 of internal/callgraph/builder.go over a finished call    *)
(* graph: the depth-first propagation of the transitive flags, the marking *)
(* of what entry points reach, and Tarjan's strongly connected components, *)
(* with the cycles internal/callgraph/traversal.go looks at.               *)
(*                                                                         *)
(* The graph is any graph: the resolved callees of every node in source    *)
(* order, and the nodes that make the transitive flag true by themselves.  *)
(* The flag is TransitiveExternalCall; TransitiveStateWrite is computed    *)
(* alike, from a HasStateWrite that nothing sets.  Go iterates over the    *)
(* node map in any order, so that each pass starts its searches from the   *)
(* nodes in any order.                                                     *)
(*                                                                         *)
(* A recursive call of computeNodeProperties, markReachable or tarjanDFS   *)
(* is a frame on a stack: the node, and the callee its loop is at.         *)
(***************************************************************************)
EXTENDS Naturals, Sequences, FiniteSets

CONSTANTS Nodes,    \* the functions and modifiers
          Graphs,   \* the call graphs: the resolved callees of every node
          Marks,    \* the sets of functions that may make external calls
          EntrySets \* the sets of functions that may be EntryPoints

ASSUME GraphsAssumption ==
  /\ IsFiniteSet(Nodes)
  /\ Graphs \subseteq [Nodes -> Seq(Nodes)]
  /\ Marks \subseteq SUBSET Nodes
  /\ EntrySets \subseteq SUBSET Nodes

VARIABLES
  callees,   \* the resolved callees of each node
  marked,    \* the nodes with HasExternalCall or an unresolved call
  entries,   \* EntryPoints
  pass,      \* "flags", "reach", "cycles" or "done"
  loop,      \* the nodes the pass's outer loop has still to visit
  stack,     \* the frames of the recursion, innermost last
  visited,   \* the nodes the pass is through with, or has begun
  flag,      \* the transitive flag
  reachable, \* IsReachableFromExternal
  index, low, onStack, nodeStack,  \* tarjanState; index 0 is "none yet"
  sccs       \* the components found, as sets

graphVars  == <<callees, marked, entries>>
tarjanVars == <<index, low, onStack, nodeStack, sccs>>
vars == <<callees, marked, entries, pass, loop, stack, visited, flag,
          reachable, index, low, onStack, nodeStack, sccs>>

Frames == [node : Nodes, next : Nat \ {0}]

\* The types of the state; the recursion is never deeper than there are functions
\* (Go's stack does not overflow on recursive contracts).
TypeOK ==
  /\ callees \in [Nodes -> Seq(Nodes)]
  /\ marked \subseteq Nodes
  /\ entries \subseteq Nodes
  /\ pass \in {"flags", "reach", "cycles", "done"}
  /\ loop \subseteq Nodes
  /\ stack \in Seq(Frames) /\ Len(stack) <= Cardinality(Nodes)
  /\ visited \subseteq Nodes
  /\ flag \in [Nodes -> BOOLEAN]
  /\ reachable \subseteq Nodes
  /\ index \in [Nodes -> Nat]
  /\ low \in [Nodes -> Nat]
  /\ onStack \subseteq Nodes
  /\ nodeStack \in Seq(Nodes)
  /\ sccs \subseteq SUBSET Nodes

\* No search has begun.
SearchInit ==
  /\ pass = "flags"
  /\ loop = Nodes
  /\ stack = <<>>
  /\ visited = {}
  /\ flag = [n \in Nodes |-> FALSE]
  /\ reachable = {}
  /\ index = [n \in Nodes |-> 0]
  /\ low = [n \in Nodes |-> 0]
  /\ onStack = {}
  /\ nodeStack = <<>>
  /\ sccs = {}

Init ==
  /\ callees \in Graphs
  /\ marked \in Marks
  /\ entries \in EntrySets
  /\ SearchInit

-----------------------------------------------------------------------------
(* The recursion's stack. *)

Frame(n)   == [node |-> n, next |-> 1]
Top        == stack[Len(stack)]
Caller     == stack[Len(stack) - 1]
Popped     == SubSeq(stack, 1, Len(stack) - 1)
Advanced   == [stack EXCEPT ![Len(stack)].next = @ + 1]
InStack(n) == \E i \in 1..Len(stack) : stack[i].node = n

Searching  == stack # <<>>
MoreCallees == Searching /\ Top.next <= Len(callees[Top.node])
NoMore      == Searching /\ Top.next > Len(callees[Top.node])
Callee      == callees[Top.node][Top.next]

-----------------------------------------------------------------------------
(* computeTransitiveProperties, first loop: computeNodeProperties *)

FlagsPick(n) ==
  /\ pass = "flags"
  /\ ~Searching
  /\ n \in loop
  /\ loop' = loop \ {n}
  /\ stack' = IF n \in visited THEN <<>> ELSE <<Frame(n)>>
  /\ UNCHANGED <<graphVars, pass, visited, flag, reachable, tarjanVars>>

\* A callee that is done, or further down the stack, is not descended into.
FlagsDescend ==
  /\ pass = "flags"
  /\ MoreCallees
  /\ stack' = IF Callee \in visited \/ InStack(Callee) THEN Advanced
              ELSE Append(Advanced, Frame(Callee))
  /\ UNCHANGED <<graphVars, pass, loop, visited, flag, reachable, tarjanVars>>

\* A slip in the second loop: the flag taken from any node already done.
InheritedAny(n) ==
  n \in marked \/ \E m \in visited : flag[m]

\* The second loop: a callee still on the stack has its flag at FALSE yet.
Inherited(n) ==
  n \in marked \/ \E i \in 1..Len(callees[n]) : flag[callees[n][i]]

FlagsFinish ==
  /\ pass = "flags"
  /\ NoMore
  /\ flag' = [flag EXCEPT ![Top.node] = Inherited(Top.node)]
  /\ visited' = visited \cup {Top.node}
  /\ stack' = Popped
  /\ UNCHANGED <<graphVars, pass, loop, reachable, tarjanVars>>

FlagsDone ==
  /\ pass = "flags"
  /\ ~Searching
  /\ loop = {}
  /\ pass' = "reach"
  /\ loop' = entries
  /\ UNCHANGED <<graphVars, stack, visited, flag, reachable, tarjanVars>>

-----------------------------------------------------------------------------
(* computeTransitiveProperties, second loop: markReachable *)

ReachPick(n) ==
  /\ pass = "reach"
  /\ ~Searching
  /\ n \in loop
  /\ loop' = loop \ {n}
  /\ stack' = IF n \in reachable THEN <<>> ELSE <<Frame(n)>>
  /\ reachable' = reachable \cup {n}
  /\ UNCHANGED <<graphVars, pass, visited, flag, tarjanVars>>

\* A slip: marking the callee without descending.
ReachDescendFlat ==
  /\ pass = "reach"
  /\ MoreCallees
  /\ stack' = Advanced
  /\ reachable' = reachable \cup {Callee}
  /\ UNCHANGED <<graphVars, pass, loop, visited, flag, tarjanVars>>

ReachDescend ==
  /\ pass = "reach"
  /\ MoreCallees
  /\ stack' = IF Callee \in reachable THEN Advanced
              ELSE Append(Advanced, Frame(Callee))
  /\ reachable' = reachable \cup {Callee}
  /\ UNCHANGED <<graphVars, pass, loop, visited, flag, tarjanVars>>

ReachFinish ==
  /\ pass = "reach"
  /\ NoMore
  /\ stack' = Popped
  /\ UNCHANGED <<graphVars, pass, loop, visited, flag, reachable, tarjanVars>>

ReachDone ==
  /\ pass = "reach"
  /\ ~Searching
  /\ loop = {}
  /\ pass' = "cycles"
  /\ loop' = Nodes
  /\ UNCHANGED <<graphVars, stack, visited, flag, reachable, tarjanVars>>

-----------------------------------------------------------------------------
(* detectCycles: tarjanDFS *)

Least(i, j) == IF i < j THEN i ELSE j

\* tarjanDFS begins: index, lowlink and both stacks; frames is the recursion.
Begin(n, frames) ==
  LET counter == Cardinality({m \in Nodes : index[m] # 0}) + 1 IN
  /\ index' = [index EXCEPT ![n] = counter]
  /\ low' = [low EXCEPT ![n] = counter]
  /\ nodeStack' = Append(nodeStack, n)
  /\ onStack' = onStack \cup {n}
  /\ stack' = Append(frames, Frame(n))
  /\ UNCHANGED sccs

CyclesPick(n) ==
  /\ pass = "cycles"
  /\ ~Searching
  /\ n \in loop
  /\ loop' = loop \ {n}
  /\ IF index[n] = 0 THEN Begin(n, stack)
     ELSE UNCHANGED <<stack, tarjanVars>>
  /\ UNCHANGED <<graphVars, pass, visited, flag, reachable>>

\* A slip: an edge to a finished component taken for a back edge.
CyclesDescendAnywhere ==
  /\ pass = "cycles"
  /\ MoreCallees
  /\ IF index[Callee] = 0 THEN Begin(Callee, Advanced)
     ELSE /\ low' = [low EXCEPT ![Top.node] = Least(@, index[Callee])]
          /\ stack' = Advanced
          /\ UNCHANGED <<index, onStack, nodeStack, sccs>>
  /\ UNCHANGED <<graphVars, pass, loop, visited, flag, reachable>>

CyclesDescend ==
  /\ pass = "cycles"
  /\ MoreCallees
  /\ IF index[Callee] = 0 THEN Begin(Callee, Advanced)
     ELSE /\ low' = IF Callee \in onStack
                    THEN [low EXCEPT ![Top.node] = Least(@, index[Callee])] ELSE low
          /\ stack' = Advanced
          /\ UNCHANGED <<index, onStack, nodeStack, sccs>>
  /\ UNCHANGED <<graphVars, pass, loop, visited, flag, reachable>>

\* The nodes on nodeStack from n upwards.
PositionOf(n) == CHOOSE i \in 1..Len(nodeStack) : nodeStack[i] = n
Component(n)  == {nodeStack[i] : i \in PositionOf(n)..Len(nodeStack)}

\* A component's first node reaches nothing that was begun earlier.
IsRoot(n) == low[n] = index[n]

\* The component, if the node is its root; then the caller's lowlink.
CyclesFinish ==
  /\ pass = "cycles"
  /\ NoMore
  /\ LET n == Top.node IN
     /\ IF IsRoot(n)
        THEN /\ sccs' = sccs \cup {Component(n)}
             /\ onStack' = onStack \ Component(n)
             /\ nodeStack' = SubSeq(nodeStack, 1, PositionOf(n) - 1)
        ELSE UNCHANGED <<sccs, onStack, nodeStack>>
     /\ low' = IF Len(stack) = 1 THEN low
               ELSE [low EXCEPT ![Caller.node] = Least(@, low[n])]
  /\ stack' = Popped
  /\ UNCHANGED <<graphVars, pass, loop, visited, flag, reachable, index>>

CyclesDone ==
  /\ pass = "cycles"
  /\ ~Searching
  /\ loop = {}
  /\ pass' = "done"
  /\ UNCHANGED <<graphVars, loop, stack, visited, flag, reachable, tarjanVars>>

-----------------------------------------------------------------------------
Step ==
  \/ \E n \in Nodes : FlagsPick(n) \/ ReachPick(n) \/ CyclesPick(n)
  \/ FlagsDescend \/ FlagsFinish \/ FlagsDone
  \/ ReachDescend \/ ReachFinish \/ ReachDone
  \/ CyclesDescend \/ CyclesFinish \/ CyclesDone

Built == pass = "done" /\ UNCHANGED vars

Next == Step \/ Built

Spec == Init /\ [][Next]_vars

-----------------------------------------------------------------------------
(* Properties, against definitions of what the passes compute. *)

Calls(m, n) == \E i \in 1..Len(callees[m]) : callees[m][i] = n

\* The nodes that calls lead to from the nodes of S, S included: what is in
\* every set that contains S and is closed under calls.
Closed(S)  == \A m, n \in Nodes : m \in S /\ Calls(m, n) => n \in S
Reached(S) == {n \in Nodes : \A T \in SUBSET Nodes : S \subseteq T /\ Closed(T) => n \in T}

Together(m, n) == m \in Reached({n}) /\ n \in Reached({m})

\* No false alarm: a set flag means that calls lead from the function to one
\* that makes an external call (or writes state) itself.
FlagsSound ==
  \A n \in Nodes : flag[n] => Reached({n}) \cap marked # {}

\* The functions whose flag is certain: those marked themselves, and the callers
\* of one of these, unless caller and callee call each other.
Certain ==
  {n \in Nodes : \A T \in SUBSET Nodes :
     /\ marked \subseteq T
     /\ \A m, k \in Nodes : Calls(m, k) /\ k \in T => m \in T \/ (m # k /\ Together(m, k))
     => n \in T}

\* Each node is computed once, from callees that may still be open, so that the
\* flag may be missing within recursion and at the callers of recursion.  But it
\* is lost nowhere else: it always passes along a call between functions that do
\* not call each other, whatever the order of the searches.
FlagsLostInRecursionOnly ==
  pass = "done" => \A n \in Certain : flag[n]

\* A transitive flag is what the calls say, but for what recursion loses.
FlagsRight == FlagsSound /\ FlagsLostInRecursionOnly

\* The marking ends with exactly what entry points reach.
ReachableExact ==
  pass = "done" => reachable = Reached(entries)

\* Tarjan's components are the classes of functions that reach each other,
\* whatever order the map is iterated in.
ComponentsExact ==
  pass = "done" =>
    sccs = {{m \in Nodes : Together(m, n)} : n \in Nodes}

\* Components are finished callees first: at any time during the search, what a
\* finished component calls is finished too, and none of it is open any more.
ComponentsClosed == Closed(UNION sccs) /\ (UNION sccs) \cap onStack = {}

\* Tarjan's search finds the classes of mutual recursion, callees first.
ComponentsRight == ComponentsExact /\ ComponentsClosed
=============================================================================
