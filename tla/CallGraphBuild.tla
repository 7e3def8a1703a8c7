--------------------------- MODULE CallGraphBuild ---------------------------
(***************************************************************************)
(* The whole of callgraph.Build: the walk of the AST that collects the     *)
(* functions (pass 1) and their calls (pass 2), then the passes of module  *)
(* CallGraph over the graph it made, then what the pipeline takes from it. *)
(*                                                                         *)
(* A call is known by the form of its expression, the only thing           *)
(* processFunctionCall looks at, and by the names in it.  A function's     *)
(* calls are those of its body in the order of the walk; a call at a place *)
(* walkForCalls does not go to (the body of a while, an unchecked block,   *)
(* an index, the function expression of another call) is not "walked".     *)
(***************************************************************************)
EXTENDS CallGraph, FiniteSetsExt

CONSTANTS Units,      \* the source units
          Builtins    \* the names of isBuiltin and isBuiltinObject

Forms == {"name",       \* f(x)
          "member",     \* x.f(y), x a name
          "lowLevel",   \* e.call(d), e.delegatecall(d), e.transfer(v)
          "options",    \* e.call{value: v}(d), x.f{value: v}(y): a FunctionCallOptions
          "cast"}       \* I(a).f(x), a[i].f(x): a member of something else than a name

Kinds == {"function", "constructor", "fallback", "receive", "modifier"}

SourceCalls     == [form : Forms, object : STRING, name : STRING, walked : BOOLEAN]
SourceFunctions == [name : STRING, kind : Kinds, visibility : STRING, calls : Seq(SourceCalls)]
SourceContracts == [name : STRING, bases : Seq(STRING), functions : Seq(SourceFunctions)]

\* The functions of a unit, each as its contract's number and its own
FunctionsOf(u) == UNION {{<<k, i>> : i \in 1..Len(u[k].functions)} : k \in 1..Len(u)}

\* A node is the number of its function in the unit.
ASSUME UnitsAssumption ==
  /\ Units \subseteq Seq(SourceContracts)
  /\ \A u \in Units :
       /\ 1..Cardinality(FunctionsOf(u)) \subseteq Nodes
       /\ \A x \in FunctionsOf(u) :
            LET f == u[x[1]].functions[x[2]]
            IN f.kind \in {"constructor", "fallback", "receive"} <=> f.name = ""

VARIABLES
  unit,      \* the contracts: their names, bases and functions
  declared,  \* the FunctionIDs of the nodes of pass 1
  at,        \* the contract, function and call the builder is at
  phase,     \* "nodes", "calls", "passes" or "report"
  external,  \* HasExternalCall
  cycleFindings, matrix   \* SecurityRelevantCycles, ReachabilityMatrix

buildVars == <<unit, declared, at, phase, external, cycleFindings, matrix>>
allVars   == <<vars, buildVars>>

-----------------------------------------------------------------------------
(* Pass 1 *)

Contract     == unit[at.contract]
FunctionAt   == Contract.functions[at.function]
AtFunction   == at.contract <= Len(unit) /\ at.function <= Len(Contract.functions)
NextFunction == IF at.function < Len(Contract.functions)
                THEN [at EXCEPT !.function = @ + 1, !.call = 1]
                ELSE [contract |-> at.contract + 1, function |-> 1, call |-> 1]

FunctionID(c, f) == <<c, IF f.name = "" THEN f.kind ELSE f.name, f.kind = "modifier">>
Named(c, name)   == <<c, name, FALSE>>

\* cg.Nodes: of two nodes of an id the map has the later; 0 is "no such node"
NoNode   == 0
Node(id) == Max({i \in 1..Len(declared) : declared[i] = id} \cup {NoNode})
InMap    == {i \in 1..Len(declared) : Node(declared[i]) = i}

\* AddNode.  The node an overload takes the place of stays an entry point.
CollectNode ==
  /\ phase = "nodes" /\ AtFunction
  /\ declared' = Append(declared, FunctionID(Contract.name, FunctionAt))
  /\ entries' = IF FunctionAt.visibility \in {"public", "external"} /\ FunctionAt.kind # "modifier"
                THEN entries \cup {Len(declared')} ELSE entries
  /\ at' = NextFunction
  /\ UNCHANGED <<unit, phase, external, cycleFindings, matrix, callees, marked>>

\* A contract without functions is passed over.
SkipContract ==
  /\ phase \in {"nodes", "calls"} /\ at.contract <= Len(unit) /\ Contract.functions = <<>>
  /\ at' = [at EXCEPT !.contract = @ + 1]
  /\ UNCHANGED <<unit, declared, phase, external, cycleFindings, matrix, graphVars>>

NodesCollected ==
  /\ phase = "nodes" /\ at.contract > Len(unit)
  /\ phase' = "calls"
  /\ at' = [contract |-> 1, function |-> 1, call |-> 1]
  /\ UNCHANGED <<unit, declared, external, cycleFindings, matrix, graphVars>>

-----------------------------------------------------------------------------
(* Pass 2 *)

\* The node of currentFunction: only the constructor is renamed as in pass 1.
Current ==
  IF FunctionAt.kind \in {"fallback", "receive"} THEN NoNode
  ELSE Node(FunctionID(Contract.name, FunctionAt))

Call == FunctionAt.calls[at.call]

CalledSo(name) == {i \in InMap : declared[i][2] = name /\ ~declared[i][3]}

\* A bug to catch: a function of the name anywhere comes before the contract's own.
AnyOfName(c, name) == IF CalledSo(name) = {} THEN {NoNode} ELSE CalledSo(name)

\* processIdentifierCall: the contract's own, else, by resolveInheritedFunction,
\* the first of that name Go's map gives, of whatever contract.
Resolved(c, name) ==
  IF Node(Named(c, name)) # NoNode THEN {Node(Named(c, name))}
  ELSE IF CalledSo(name) # {} THEN CalledSo(name) ELSE {NoNode}

\* AddCallSite.  A call site of no node is only in the list of all.
Site(callee) ==
  IF Current = NoNode THEN UNCHANGED <<callees, marked>>
  ELSE IF callee = NoNode THEN marked' = marked \cup {Current} /\ UNCHANGED callees
  ELSE callees' = [callees EXCEPT ![Current] = Append(@, callee)] /\ UNCHANGED marked

\* The end of processMemberAccessCall, and recordLowLevelExternalCall
ExternalSite ==
  /\ Site(NoNode)
  /\ external' = IF Current = NoNode THEN external ELSE external \cup {Current}

LowLevelCall == Call.form = "lowLevel" /\ ExternalSite

IdentifierCall ==
  /\ Call.form = "name"
  /\ IF Call.name \in Builtins THEN UNCHANGED <<callees, marked>>
     ELSE \E callee \in Resolved(Contract.name, Call.name) : Site(callee)
  /\ UNCHANGED external

\* The object is taken for a contract or library of that name; else the call is external.
MemberAccessCall ==
  /\ Call.form = "member"
  /\ LET callee == Node(Named(Call.object, Call.name))
     IN IF Call.object \in Builtins THEN UNCHANGED <<callees, marked, external>>
        ELSE IF callee # NoNode THEN Site(callee) /\ UNCHANGED external
        ELSE ExternalSite

\* processFunctionCall passes over every other expression.
UnseenCall ==
  /\ Call.form \in {"options", "cast"}
  /\ UNCHANGED <<callees, marked, external>>

CollectCall ==
  /\ phase = "calls" /\ AtFunction /\ at.call <= Len(FunctionAt.calls)
  /\ IF Call.walked THEN IdentifierCall \/ LowLevelCall \/ MemberAccessCall \/ UnseenCall
     ELSE UNCHANGED <<callees, marked, external>>
  /\ at' = [at EXCEPT !.call = @ + 1]
  /\ UNCHANGED <<unit, declared, phase, cycleFindings, matrix, entries>>

LeaveFunction ==
  /\ phase = "calls" /\ AtFunction /\ at.call > Len(FunctionAt.calls)
  /\ at' = NextFunction
  /\ UNCHANGED <<unit, declared, phase, external, cycleFindings, matrix, graphVars>>

CallsCollected ==
  /\ phase = "calls" /\ at.contract > Len(unit)
  /\ phase' = "passes"
  /\ UNCHANGED <<unit, declared, at, external, cycleFindings, matrix, graphVars>>

\* A number that is no node of the map stays without edges or marks, which no
\* pass of CallGraph tells from an absent one.
Collect == CollectNode \/ SkipContract \/ NodesCollected \/ CollectCall \/ LeaveFunction \/ CallsCollected

-----------------------------------------------------------------------------
(* What the pipeline takes from the graph (traversal.go, graph.go) *)

CalleesOf(n) == {callees[n][i] : i \in 1..Len(callees[n])}

\* A call of transitiveCalleesHelper for one of the nodes it was called for
Visit(s) ==
  IF s.open = {} THEN s
  ELSE LET n == CHOOSE x \in s.open : TRUE
       IN [open |-> (s.open \cup CalleesOf(n)) \ (s.seen \cup {n}), seen |-> s.seen \cup {n}]

\* No node is visited twice, so that there are at most as many calls as nodes.
Visited(n) ==
  LET after[i \in 0..Cardinality(Nodes)] ==
        IF i = 0 THEN [open |-> {n}, seen |-> {}] ELSE Visit(after[i - 1])
  IN after[Cardinality(Nodes)].seen

\* transitiveCalleesHelper: the callees of every node it visits
TransitiveCallees(n) == UNION {CalleesOf(m) : m \in Visited(n)}

\* Of the cycles, the components of two nodes or more.
SecurityRelevantCycles == {c \in sccs : Cardinality(c) > 1 /\ c \cap external # {}}

Report ==
  /\ phase = "passes" /\ pass = "done"
  /\ phase' = "report"
  /\ cycleFindings' = SecurityRelevantCycles
  /\ matrix' = [n \in InMap |-> TransitiveCallees(n)]
  /\ UNCHANGED <<unit, declared, at, external, vars>>

-----------------------------------------------------------------------------

BuildInit ==
  /\ unit \in Units
  /\ declared = <<>> /\ external = {} /\ cycleFindings = {}
  /\ at = [contract |-> 1, function |-> 1, call |-> 1]
  /\ phase = "nodes"
  /\ matrix = [n \in {} |-> {}]
  /\ callees = [n \in Nodes |-> <<>>] /\ marked = {} /\ entries = {}
  /\ SearchInit

BuildNext ==
  \/ Collect /\ UNCHANGED <<pass, loop, stack, visited, flag, reachable, tarjanVars>>
  \/ phase = "passes" /\ Step /\ UNCHANGED buildVars
  \/ Report
  \/ phase = "report" /\ UNCHANGED allVars

BuildSpec == BuildInit /\ [][BuildNext]_allVars

-----------------------------------------------------------------------------
(* Properties, against what Solidity means by the calls *)

All     == FunctionsOf(unit)
Fn(x)   == unit[x[1]].functions[x[2]]
Of(x)   == Node(FunctionID(unit[x[1]].name, Fn(x)))
Lost(x) == Fn(x).kind \in {"fallback", "receive"}

\* The nearest function of the name in the contract and its bases, most derived first.
Line(k)         == <<unit[k].name>> \o unit[k].bases
Having(k, name) == {j \in 1..Len(Line(k)) : Node(Named(Line(k)[j], name)) # NoNode}
Meant(k, name)  ==
  IF Having(k, name) = {} THEN NoNode ELSE Node(Named(Line(k)[Min(Having(k, name))], name))

\* An inherited name that some other contract has, too
Ambiguous(k, name) ==
  Node(Named(unit[k].name, name)) = NoNode /\ CalledSo(name) \ {Meant(k, name)} # {}

Walked(x) == {Fn(x).calls[j] : j \in {l \in 1..Len(Fn(x).calls) : Fn(x).calls[l].walked}}

\* Calls that leave the contract as far as their form tells
Leaves(c) == \/ c.form = "lowLevel"
             \/ /\ c.form = "member" /\ c.object \notin Builtins
                /\ Node(Named(c.object, c.name)) = NoNode

\* A call by name in contract k may make an edge to the node, by its form.
MayMean(k, c, n) ==
  \/ c.form = "name" /\ n \in CalledSo(c.name) /\ (n = Meant(k, c.name) \/ Ambiguous(k, c.name))
  \/ c.form = "member" /\ n = Node(Named(c.object, c.name))

(* What the walk makes of the calls it goes to.  A call by name has its edge *)
(* to the function it means, unless it is in a fallback or receive function, *)
(* whose calls get a caller that is no node (builder.go:117-121), or means   *)
(* an inherited function while another contract has one of the name          *)
(* (builder.go:355).  There is no other edge.  A function that calls an      *)
(* address or an object is marked as one with an external call, and only     *)
(* such a function; overloads share one node, which has the calls of all.    *)
CallsRight ==
  phase = "report" =>
    /\ \A x \in All : \A c \in Walked(x) :
         ~Lost(x) =>
           /\ (c.form = "name" /\ c.name \notin Builtins /\ Meant(x[1], c.name) # NoNode) =>
                Calls(Of(x), Meant(x[1], c.name)) \/ Ambiguous(x[1], c.name)
           /\ Leaves(c) => Of(x) \in external
    /\ \A m, n \in Nodes : Calls(m, n) =>
         \E x \in All : Of(x) = m /\ ~Lost(x) /\ \E c \in Walked(x) : MayMean(x[1], c, n)
    /\ \A n \in external : \E x \in All : Of(x) = n /\ ~Lost(x) /\ \E c \in Walked(x) : Leaves(c)

\* The pipeline's report: a function with an external call is in a reported cycle
\* if and only if it and another function call each other; and the matrix has
\* for each function what its calls lead to, itself only if they come back.
QueriesRight ==
  phase = "report" =>
    /\ \A n \in external : (\E m \in Nodes : m # n /\ Together(m, n))
                             <=> (\E c \in cycleFindings : n \in c)
    /\ \A n \in InMap : matrix[n] = Reached(CalleesOf(n))

\* The graph has the calls of the source, and the queries answer from the graph.
BuildRight == CallsRight /\ QueriesRight
=============================================================================
