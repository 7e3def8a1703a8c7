------------------------- MODULE CrossContractGraph -------------------------
(***************************************************************************)
(* internal/intercontract: CrossContractGraphBuilder.Build makes one graph *)
(* of the functions of all files of a project and computes which functions *)
(* lead to an external call or to a state write.                           *)
(*                                                                         *)
(* A node is named by its contract and its function, so that overloads,    *)
(* the functions without a name, and contracts of one name in two files    *)
(* share a node: the last one added is it, while EntryPoints keeps a       *)
(* pointer to each.  The files are a Go map, met in any order in each of   *)
(* the two passes.  A call is resolved by the function's name alone.       *)
(***************************************************************************)
EXTENDS Naturals, Sequences, FiniteSets

CONSTANTS Files,     \* the source files: 1..n in the order they are collected
          Ids,       \* <<contract, function>>
          NoNode,    \* a name that is no node's
          Projects   \* the projects looked at: the functions of each file

Kinds   == {"internal", "external", "low-level", "delegatecall"}
Defs    == [id : Ids, public : BOOLEAN, writes : BOOLEAN, guarded : BOOLEAN,
            calls : Seq([kind : Kinds, name : STRING])]
Edges   == [callee : Ids, kind : Kinds]
Leaving == Kinds \ {"internal"}  \* CrossCallKind.IsExternal

ASSUME ProjectsAssumption ==
  \A p \in Projects, f \in Files : p[f] \in Seq(Defs)
ASSUME IdsAssumption == IsFiniteSet(Ids) /\ NoNode \notin Files \X Nat

VARIABLES
  project,
  pass,        \* "nodes", "edges", "flags", then "built"
  todo,        \* the files this pass has still to go through
  queue,       \* what is left of the file at hand: <<f, i>> or <<f, i, call>>
  nodes,       \* the definition behind each node: <<f, i>>
  entries,     \* EntryPoints
  callees,     \* the edges of each node
  unresolved,  \* UnresolvedCalls
  external,    \* the nodes with HasExternalCall
  left,        \* the nodes left in this sweep of ComputeTransitiveFlags
  changed,
  toExternal,  \* the nodes with TransitiveExternalCall
  toWrite      \* the nodes with TransitiveStateWrite

graphVars == <<project, pass, todo, queue, nodes, entries, callees, unresolved,
               external, left, changed, toExternal, toWrite>>

Def(p)   == project[p[1]][p[2]]
Id(p)    == Def(p).id
Nodes    == {n \in Ids : nodes[n] # NoNode}
Writers  == {n \in Nodes : Def(nodes[n]).writes}
Callees(n) == {callees[n][k].callee : k \in 1..Len(callees[n])}

GraphTypeOK ==
  /\ pass \in {"nodes", "edges", "flags", "built"}
  /\ todo \subseteq Files
  /\ \A n \in Nodes : nodes[n][1] \in Files /\ Id(nodes[n]) = n
  /\ \A k \in 1..Len(entries) : Def(entries[k]).public
  /\ callees \in [Ids -> Seq(Edges)]
  /\ \A n \in Ids : Callees(n) \subseteq Nodes /\ (Callees(n) # {} => n \in Nodes)
  /\ unresolved \subseteq [caller : Ids, kind : Kinds]
  /\ external \cup left \cup toExternal \cup toWrite \subseteq Nodes
  /\ changed \in BOOLEAN

GraphInit ==
  /\ project \in Projects
  /\ pass = "nodes"
  /\ todo = Files
  /\ queue = <<>>
  /\ nodes = [n \in Ids |-> NoNode]
  /\ entries = <<>>
  /\ callees = [n \in Ids |-> <<>>]
  /\ unresolved = {} /\ external = {}
  /\ left = {} /\ changed = TRUE
  /\ toExternal = {} /\ toWrite = {}

-----------------------------------------------------------------------------
(* The two passes over the project *)

OpenFile(f) ==
  /\ pass \in {"nodes", "edges"}
  /\ queue = <<>>
  /\ f \in todo
  /\ todo' = todo \ {f}
  /\ queue' = [i \in 1..Len(project[f]) |-> <<f, i, 1>>]
  /\ UNCHANGED <<project, pass, nodes, entries, callees, unresolved, external,
                 left, changed, toExternal, toWrite>>

AddNode ==
  /\ pass = "nodes"
  /\ queue # <<>>
  /\ LET p == <<Head(queue)[1], Head(queue)[2]>> IN
       /\ nodes' = [nodes EXCEPT ![Id(p)] = p]
       /\ entries' = IF Def(p).public THEN Append(entries, p) ELSE entries
  /\ queue' = Tail(queue)
  /\ UNCHANGED <<project, pass, todo, callees, unresolved, external,
                 left, changed, toExternal, toWrite>>

NodesDone ==
  /\ pass = "nodes" /\ queue = <<>> /\ todo = {}
  /\ pass' = "edges"
  /\ todo' = Files
  /\ UNCHANGED <<project, queue, nodes, entries, callees, unresolved, external,
                 left, changed, toExternal, toWrite>>

\* resolveCallTargets: the functions of that name, in other contracts the public ones.
Matches(contract, name) ==
  {p \in UNION {{f} \X (1..Len(project[f])) : f \in Files} :
     Id(p)[2] = name /\ (Id(p)[1] = contract \/ Def(p).public)}

Targets(contract, name) == {n \in Ids : \E p \in Matches(contract, name) : Id(p) = n}

\* The orders in which they are met: the files in any order, each from its beginning.
Ranks == {r \in [Files -> 1..Cardinality(Files)] : \A f, g \in Files : r[f] = r[g] => f = g}

MetBefore(P, rank, n, m) ==
  \E p \in P : /\ Id(p) = n
               /\ \A q \in P : Id(q) = m => \/ rank[p[1]] < rank[q[1]]
                                            \/ p[1] = q[1] /\ p[2] < q[2]

Orders(contract, name) ==
  LET T == Targets(contract, name) IN
  {s \in [1..Cardinality(T) -> T] : \E rank \in Ranks : \A i, j \in DOMAIN s :
     i < j => MetBefore(Matches(contract, name), rank, s[i], s[j])}

Caller  == Id(Head(queue))
NextCall == Def(Head(queue)).calls[Head(queue)[3]]

\* The calls of the function at hand are done.
NoCall ==
  /\ pass = "edges"
  /\ queue # <<>>
  /\ Head(queue)[3] > Len(Def(Head(queue)).calls)
  /\ queue' = Tail(queue)
  /\ UNCHANGED <<project, pass, todo, nodes, entries, callees, unresolved, external,
                 left, changed, toExternal, toWrite>>

\* One call: edges to all its targets (overloads count once), or an unresolved call.
AddCall ==
  /\ pass = "edges"
  /\ queue # <<>>
  /\ Head(queue)[3] <= Len(Def(Head(queue)).calls)
  /\ IF NextCall.kind \in {"low-level", "delegatecall"} \/ Targets(Caller[1], NextCall.name) = {}
     THEN /\ unresolved' = unresolved \cup {[caller |-> Caller, kind |-> NextCall.kind]}
          /\ UNCHANGED callees
     ELSE /\ \E order \in Orders(Caller[1], NextCall.name) :
               callees' = [callees EXCEPT ![Caller] =
                 @ \o [k \in 1..Len(order) |-> [callee |-> order[k], kind |-> NextCall.kind]]]
          /\ UNCHANGED unresolved
  /\ external' = external \cup (IF NextCall.kind \in Leaving THEN {Caller} ELSE {})
  /\ queue' = << <<Head(queue)[1], Head(queue)[2], Head(queue)[3] + 1>> >> \o Tail(queue)
  /\ UNCHANGED <<project, pass, todo, nodes, entries, left, changed, toExternal, toWrite>>

EdgesDone ==
  /\ pass = "edges" /\ queue = <<>> /\ todo = {}
  /\ pass' = "flags"
  /\ UNCHANGED <<project, todo, queue, nodes, entries, callees, unresolved, external,
                 left, changed, toExternal, toWrite>>

-----------------------------------------------------------------------------
(* ComputeTransitiveFlags *)

NextSweep ==
  /\ pass = "flags" /\ left = {} /\ changed
  /\ left' = Nodes
  /\ changed' = FALSE
  /\ UNCHANGED <<project, pass, todo, queue, nodes, entries, callees, unresolved,
                 external, toExternal, toWrite>>

Gains(n, flagged) == IF Callees(n) \cap flagged # {} THEN {n} ELSE {}

\* A slip: only what the callees do themselves is looked at.
SweepDirect(n) ==
  /\ pass = "flags" /\ n \in left
  /\ toExternal' = toExternal \cup Gains(n, external)
  /\ toWrite' = toWrite \cup Gains(n, Writers)
  /\ changed' = (changed \/ toExternal' # toExternal \/ toWrite' # toWrite)
  /\ left' = left \ {n}
  /\ UNCHANGED <<project, pass, todo, queue, nodes, entries, callees, unresolved, external>>

\* A slip: a flag that is set counts as a change each time.
SweepRestless(n) ==
  /\ pass = "flags" /\ n \in left
  /\ toExternal' = toExternal \cup Gains(n, external \cup toExternal)
  /\ toWrite' = toWrite \cup Gains(n, Writers \cup toWrite)
  /\ changed' = (changed \/ n \in toExternal' \/ n \in toWrite')
  /\ left' = left \ {n}
  /\ UNCHANGED <<project, pass, todo, queue, nodes, entries, callees, unresolved, external>>

\* One node of a sweep, in the order of the map.
Sweep(n) ==
  /\ pass = "flags" /\ n \in left
  /\ toExternal' = toExternal \cup Gains(n, external \cup toExternal)
  /\ toWrite' = toWrite \cup Gains(n, Writers \cup toWrite)
  /\ changed' = (changed \/ toExternal' # toExternal \/ toWrite' # toWrite)
  /\ left' = left \ {n}
  /\ UNCHANGED <<project, pass, todo, queue, nodes, entries, callees, unresolved, external>>

AtRest == pass = "flags" /\ left = {} /\ ~changed

FlagsDone ==
  /\ AtRest
  /\ pass' = "built"
  /\ UNCHANGED <<project, todo, queue, nodes, entries, callees, unresolved, external,
                 left, changed, toExternal, toWrite>>

GraphNext ==
  \/ \E f \in Files : OpenFile(f)
  \/ AddNode
  \/ NodesDone
  \/ NoCall
  \/ AddCall
  \/ EdgesDone
  \/ NextSweep
  \/ \E n \in Ids : Sweep(n)
  \/ FlagsDone

GraphSpec == GraphInit /\ [][GraphNext]_graphVars

-----------------------------------------------------------------------------
(* Properties *)

\* What n leads to by one call or more: in every set that has n's callees and is closed.
ClosedSets == {S \in SUBSET Ids : \A m \in S : Callees(m) \subseteq S}
Below(closed, n) == {g \in Ids : \A S \in closed : Callees(n) \subseteq S => g \in S}

\* Whatever order the maps give and whatever cycles the calls have, when the sweeps come
\* to rest a flag is set on exactly the functions that lead to an external call, or to a
\* state write.
FlagsExact ==
  AtRest =>
    LET closed == ClosedSets IN
      /\ toExternal = {n \in Nodes : Below(closed, n) \cap external # {}}
      /\ toWrite = {n \in Nodes : Below(closed, n) \cap Writers # {}}
=============================================================================
