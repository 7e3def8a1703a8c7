------------------------- MODULE CrossContractTaint -------------------------
(***************************************************************************)
(* internal/intercontract: what InterContractPipeline.Analyze does with    *)
(* the graph.  CrossContractTaintEngine follows the edges from every entry *)
(* point, MaxDepth deep, and records a flow at each unresolved call it     *)
(* meets beyond a contract boundary; CrossContractDetector looks for paths *)
(* of external calls that come back, MaxCycleDepth deep, and for external  *)
(* calls without access control to functions that lead to a state write.   *)
(*                                                                         *)
(* A path's crossings are a Go slice: append writes into the backing array *)
(* that the path shares with its siblings if there is room, and a flow     *)
(* gets a copy.  The label of a flow is msg.sender's, the highest, in      *)
(* every state of the code, and is left out, as are the detectors for      *)
(* oracles (a list of names) and for delegatecall edges (Build makes none).*)
(***************************************************************************)
EXTENDS CrossContractGraph

CONSTANTS Anonymous,     \* the name of functions without one
          MaxDepth,      \* 10 in the code
          MaxCycleDepth  \* 8 in the code

ASSUME DepthAssumption == MaxDepth \in Nat /\ MaxCycleDepth \in Nat

VARIABLES
  stage,    \* "graph", "taint", "cycles", then "done"
  pending,  \* the entry points still to start from
  stack,    \* the open calls of propagateFromNode or findReentrancyCycles
  heap,     \* the backing arrays of crossings, each as long as its capacity
  flows,    \* the flows: sink, kind, and the slice of crossings
  cycles,   \* the reentrancy cycles: sequences of nodes
  unguarded \* the unprotected calls: caller and callee

searchVars == <<stage, pending, stack, heap, flows, cycles, unguarded>>
vars == <<graphVars, searchVars>>

-----------------------------------------------------------------------------
(* Slices *)

NilSlice == [array |-> 0, len |-> 0]
Unset    == [from |-> "", to |-> "", via |-> ""]

Contents(s) == [k \in 1..s.len |-> heap[s.array][k]]

HasRoom(s) == s.array # 0 /\ s.len < Len(heap[s.array])

\* append, which doubles the capacity when there is no room
Appended(s, c) ==
  IF HasRoom(s)
  THEN [slice |-> [s EXCEPT !.len = @ + 1],
        heap  |-> [heap EXCEPT ![s.array][s.len + 1] = c]]
  ELSE LET capacity == IF s.len = 0 THEN 1 ELSE 2 * s.len IN
       [slice |-> [array |-> Len(heap) + 1, len |-> s.len + 1],
        heap  |-> Append(heap, [k \in 1..capacity |->
                    IF k <= s.len THEN heap[s.array][k]
                    ELSE IF k = s.len + 1 THEN c ELSE Unset])]

\* A slip: the flow keeps the path's slice.
Shared(s) == [slice |-> s, heap |-> heap]

\* make and copy
Copied(s) ==
  [slice |-> [array |-> Len(heap) + 1, len |-> s.len], heap |-> Append(heap, Contents(s))]

-----------------------------------------------------------------------------
(* The searches' stack *)

\* findFunction: the first file with a contract of that name, and the name as it is written.
Found(n) ==
  /\ n[2] # Anonymous
  /\ \E f \in Files :
       /\ \E i \in 1..Len(project[f]) : Id(<<f, i>>) = n
       /\ \A g \in Files : g < f => \A i \in 1..Len(project[g]) : Id(<<g, i>>)[1] # n[1]

Frame(n, s) == [node |-> n, next |-> 1, slice |-> s]
Top      == stack[Len(stack)]
Popped   == SubSeq(stack, 1, Len(stack) - 1)
Moved    == [stack EXCEPT ![Len(stack)].next = @ + 1]
AtEdge   == stack # <<>> /\ Top.next <= Len(callees[Top.node])
AtEnd    == stack # <<>> /\ Top.next > Len(callees[Top.node])
Edge     == callees[Top.node][Top.next]
Crosses  == Edge.kind \in Leaving /\ Edge.callee[1] # Top.node[1]
Crossing == [from |-> Top.node[1], to |-> Edge.callee[1], via |-> Top.node[2]]

\* The entry point's pointer is to the node that is in the graph.
Live(p) == nodes[Id(p)][1] = p[1] /\ nodes[Id(p)][2] = p[2]

-----------------------------------------------------------------------------
(* Analyze *)

Init ==
  /\ GraphInit
  /\ stage = "graph"
  /\ pending = <<>> /\ stack = <<>> /\ heap = <<>>
  /\ flows = {} /\ cycles = {} /\ unguarded = {}

BuildGraph ==
  /\ stage = "graph"
  /\ GraphNext
  /\ UNCHANGED searchVars

GraphReady ==
  /\ stage = "graph" /\ pass = "built"
  /\ stage' = "taint"
  /\ pending' = entries
  /\ UNCHANGED <<graphVars, stack, heap, flows, cycles, unguarded>>

\* A node that was overwritten has no edges, and a function that is not found is not
\* looked into.
TaintEntry ==
  /\ stage = "taint" /\ stack = <<>> /\ pending # <<>>
  /\ stack' = IF Live(Head(pending)) /\ Found(Id(Head(pending)))
              THEN <<Frame(Id(Head(pending)), NilSlice)>> ELSE <<>>
  /\ pending' = Tail(pending)
  /\ UNCHANGED <<graphVars, stage, heap, flows, cycles, unguarded>>

\* processCalleeEdge: the crossing is appended before the depth is looked at.
TaintEdge ==
  /\ stage = "taint" /\ AtEdge
  /\ LET passed == IF Found(Edge.callee) /\ Crosses THEN Appended(Top.slice, Crossing)
                   ELSE [slice |-> Top.slice, heap |-> heap]
     IN /\ heap' = passed.heap
        /\ stack' = IF Found(Edge.callee) /\ Len(stack) <= MaxDepth
                    THEN Append(Moved, Frame(Edge.callee, passed.slice)) ELSE Moved
  /\ UNCHANGED <<graphVars, stage, pending, flows, cycles, unguarded>>

SinkOf(kind) == IF kind = "delegatecall" THEN "delegatecall" ELSE "external-call"

\* The unresolved calls of the node, of any kind, when the path has crossed a boundary.
TaintReturn ==
  /\ stage = "taint" /\ AtEnd
  /\ LET sinks == {SinkOf(u.kind) : u \in {v \in unresolved : v.caller = Top.node}} IN
       IF Top.slice.len = 0 \/ sinks = {}
       THEN UNCHANGED <<flows, heap>>
       ELSE /\ flows' = flows \cup {[sink |-> Top.node, kind |-> k,
                                     crossings |-> Copied(Top.slice).slice] : k \in sinks}
            /\ heap' = Copied(Top.slice).heap
  /\ stack' = Popped
  /\ UNCHANGED <<graphVars, stage, pending, cycles, unguarded>>

TaintDone ==
  /\ stage = "taint" /\ stack = <<>> /\ pending = <<>>
  /\ stage' = "cycles"
  /\ pending' = entries
  /\ UNCHANGED <<graphVars, stack, heap, flows, cycles, unguarded>>

CycleEntry ==
  /\ stage = "cycles" /\ stack = <<>> /\ pending # <<>>
  /\ stack' = IF Live(Head(pending)) /\ Id(Head(pending)) \in toExternal
              THEN <<Frame(Id(Head(pending)), NilSlice)>> ELSE <<>>
  /\ pending' = Tail(pending)
  /\ UNCHANGED <<graphVars, stage, heap, flows, cycles, unguarded>>

Path == [k \in 1..Len(stack) |-> stack[k].node]

\* visited: the path, without the node the search started from.
Visited(n) == \E k \in 2..Len(stack) : stack[k].node = n

CycleEdge ==
  /\ stage = "cycles" /\ AtEdge
  /\ IF Edge.kind \notin Leaving
     THEN stack' = Moved /\ UNCHANGED cycles
     ELSE IF Visited(Edge.callee) \/ Edge.callee[1] = Top.node[1]
     THEN stack' = Moved /\ cycles' = cycles \cup {Append(Path, Edge.callee)}
     ELSE /\ stack' = IF Len(stack) <= MaxCycleDepth
                      THEN Append(Moved, Frame(Edge.callee, NilSlice)) ELSE Moved
          /\ UNCHANGED cycles
  /\ UNCHANGED <<graphVars, stage, pending, heap, flows, unguarded>>

CycleReturn ==
  /\ stage = "cycles" /\ AtEnd
  /\ stack' = Popped
  /\ UNCHANGED <<graphVars, stage, pending, heap, flows, cycles, unguarded>>

\* detectUnprotectedExternalCalls
DetectUnprotected ==
  /\ stage = "cycles" /\ stack = <<>> /\ pending = <<>>
  /\ unguarded' =
       UNION {{<<n, callees[n][k].callee>> :
                 k \in {j \in 1..Len(callees[n]) :
                          /\ callees[n][j].kind \in Leaving
                          /\ callees[n][j].callee \in Writers \cup toWrite}} :
              n \in {m \in external : Def(nodes[m]).public /\ ~Def(nodes[m]).guarded}}
  /\ stage' = "done"
  /\ UNCHANGED <<graphVars, pending, stack, heap, flows, cycles>>

Next ==
  \/ BuildGraph
  \/ GraphReady
  \/ TaintEntry
  \/ TaintEdge
  \/ TaintReturn
  \/ TaintDone
  \/ CycleEntry
  \/ CycleEdge
  \/ CycleReturn
  \/ DetectUnprotected

\* One goroutine runs the pipeline.
Spec == Init /\ [][Next]_vars /\ WF_vars(Next)

-----------------------------------------------------------------------------
(* Reference: paths as sets of sequences *)

LiveEntries == {Id(entries[k]) : k \in {j \in 1..Len(entries) : Live(entries[j])}}

EdgesOf(n) == {callees[n][k] : k \in 1..Len(callees[n])}

\* Along an edge: where it leads, and the boundary it crosses, if it does
Onward(w, e) ==
  <<e.callee, IF e.kind \in Leaving /\ e.callee[1] # w[1][1]
              THEN Append(w[2], [from |-> w[1][1], to |-> e.callee[1], via |-> w[1][2]])
              ELSE w[2]>>

Roots == {<<n, <<>>>> : n \in {m \in LiveEntries : Found(m)}}

\* Where a path of at most MaxDepth edges can be, and the boundaries it crossed.
Walks ==
  LET after[k \in 0..MaxDepth] ==
        IF k = 0 THEN Roots
        ELSE UNION {{Onward(w, e) : e \in {d \in EdgesOf(w[1]) : Found(d.callee)}} : w \in after[k - 1]}
  IN UNION {after[k] : k \in 0..MaxDepth}

CallsOut(m, n) == \E e \in EdgesOf(m) : e.callee = n /\ e.kind \in Leaving

\* An external call back into the path, or into the caller's own contract.
Returns(w) ==
  LET last == Len(w) IN
    \/ w[last][1] = w[last - 1][1]
    \/ \E k \in 2..(last - 1) : w[k] = w[last]

Longer(S) ==
  {Append(x[1], x[2]) : x \in {y \in S \X Ids : CallsOut(y[1][Len(y[1])], y[2])}}

\* The paths of external calls from n that return at their last call, not before.
ReturningPaths(n) ==
  LET open[k \in 1..(MaxCycleDepth + 1)] ==
        IF k = 1 THEN {<<n>>} ELSE {w \in Longer(open[k - 1]) : ~Returns(w)}
  IN {w \in UNION {Longer(open[k]) : k \in 1..(MaxCycleDepth + 1)} : Returns(w)}

-----------------------------------------------------------------------------
(* Properties *)

\* The types of the state; neither recursion is deeper than its bound.
TypeOK ==
  /\ GraphTypeOK
  /\ stage \in {"graph", "taint", "cycles", "done"}
  /\ Len(stack) <= 1 + (IF stage = "taint" THEN MaxDepth ELSE MaxCycleDepth)
  /\ \A k \in 1..Len(stack) :
       /\ stack[k].node \in Nodes
       /\ stack[k].slice.array \in 0..Len(heap)
  /\ \A f \in flows : f.sink \in Nodes /\ f.crossings.array \in 1..Len(heap)
  /\ unguarded \subseteq Nodes \X Nodes

\* The flows are those of the paths from the entry points that end in an unresolved call
\* beyond a boundary, each with the boundaries its own path crossed: none is missed, and
\* none is overwritten by a path that shares its beginning.
FlowsExact ==
  stage = "done" =>
    {[sink |-> f.sink, kind |-> f.kind, crossings |-> Contents(f.crossings)] : f \in flows} =
    UNION {{[sink |-> w[1], kind |-> SinkOf(u.kind), crossings |-> w[2]] :
              u \in {v \in unresolved : v.caller = w[1]}} :
           w \in {x \in Walks : x[2] # <<>>}}

\* The cycles reported are the paths of external calls, from an entry point that leads to
\* an external call, that return; an unprotected call is one to a function that is, or
\* leads to, a state write, by a public function that any caller may call.
FindingsExact ==
  stage = "done" =>
    LET closed == ClosedSets IN
    /\ cycles = UNION {ReturningPaths(n) :
                         n \in {m \in LiveEntries : Below(closed, m) \cap external # {}}}
    /\ unguarded = {x \in Nodes \X Nodes :
                      /\ Def(nodes[x[1]]).public /\ ~Def(nodes[x[1]]).guarded
                      /\ CallsOut(x[1], x[2])
                      /\ ({x[2]} \cup Below(closed, x[2])) \cap Writers # {}}

\* What the pipeline reports is what the paths of the graph say, flows, cycles and calls.
ReportsExact == FlowsExact /\ FindingsExact

\* The pipeline ends on every project: its loop over the flags comes to rest, and
\* recursive contracts do not hold it.
PipelineEnds == <>(stage = "done")
=============================================================================
