---------------------------- MODULE Inheritance ----------------------------
(***************************************************************************)
(* internal/inheritancegraph above its parser, and the detector that asks  *)
(* it where an override drops its parent's access control.                 *)
(*                                                                         *)
(* Builder.BuildFromFiles makes a node of every declaration, in the order  *)
(* of the files, then links the parents, file by file in the order Go's    *)
(* map gives them.  OverrideTracker takes for the chain of a function its  *)
(* definitions in the contract and in its ancestors, breadth first, and    *)
(* compares each with the next, whether or not the one inherits from the   *)
(* other.  FindAllRegressions goes through the chains in the order of two  *)
(* maps and keeps one report for a contract and signature.                 *)
(* override_removes_restriction.go answers the same question without the   *)
(* graph, from one file and the names of the modifiers.                    *)
(***************************************************************************)
EXTENDS Naturals, Sequences, FiniteSets

CONSTANTS
  Projects,    \* the projects looked at
  WellKnown,   \* ClassifyByName: the category of the modifiers that have one by their name
  LooksLike,   \* the names looksLikeAccessControl takes for access control
  AccessMods   \* the names in the pattern accessMods

Categories == {"access-control", "reentrancy-guard", "pause-check", "initializer-once", "timelock", "unknown"}

\* What bodyClassifier finds on a line of a modifier's body; "other" is nothing.
Checks == {"msg.sender==", "msg.sender!=", "hasRole(msg.sender)", "mapping[msg.sender]",
           "reentrancy-check", "reentrancy-lock", "pause-state", "initialized-flag", "timestamp-check"}

(* A project is a sequence of files.  A file has the files its imports      *)
(* resolve to and its declarations, each with the names after "is", its     *)
(* functions in the order of the file, and the bodies of the modifiers it   *)
(* declares, a line being the checks the classifier finds on it.            *)
ASSUME ProjectsAssumption ==
  /\ \A n \in DOMAIN WellKnown : WellKnown[n] \in Categories
  /\ \A p \in Projects : \A k \in 1..Len(p) :
       /\ \A i \in 1..Len(p[k].imports) : p[k].imports[i] \in 1..Len(p)
       /\ \A i, j \in 1..Len(p[k].decls) : p[k].decls[i].name = p[k].decls[j].name => i = j
       /\ \A i \in 1..Len(p[k].decls) :
            LET d == p[k].decls[i]
            IN /\ d.interface \in BOOLEAN
               /\ \A m \in DOMAIN d.modifiers : \A l \in 1..Len(d.modifiers[m]) :
                    d.modifiers[m][l] \subseteq Checks
               /\ \A j \in 1..Len(d.functions) :
                    LET f == d.functions[j]
                    IN f.override \in BOOLEAN /\ f.view \in BOOLEAN /\ IsFiniteSet(f.mods)

VARIABLES
  project,
  parsed,     \* how many files pass 1 has been through
  nodes,      \* the contracts in the order they were added: <<file, declaration>>
  linked,     \* the files pass 2 has been through
  parents,    \* ContractNode.Parents
  visited,    \* the chains FindAllRegressions has been through
  reports,    \* its result
  findings    \* of Analyze, for the files it was called with

vars == <<project, parsed, nodes, linked, parents, visited, reports, findings>>

-----------------------------------------------------------------------------
(* Nodes *)

Dcl(n)  == project[n[1]].decls[n[2]]
Nodes   == {nodes[i] : i \in 1..Len(nodes)}
NoNode  == <<0, 0>>

\* The first of some nodes, in the order they were added.
FirstNode(some) ==
  LET hits == {i \in 1..Len(nodes) : nodes[i] \in some}
  IN IF hits = {} THEN NoNode ELSE nodes[CHOOSE i \in hits : \A j \in hits : i <= j]

\* node.Functions is keyed by name; the last one of a name stays.
Defines(n, name) == \E i \in 1..Len(Dcl(n).functions) : Dcl(n).functions[i].name = name
Function(n, name) ==
  LET fs == Dcl(n).functions
      of == {i \in 1..Len(fs) : fs[i].name = name}
  IN fs[CHOOSE i \in of : \A j \in of : j <= i]

\* EnrichFunctions: the canonical signature, and so the selector
Canonical(f) == <<f.name, f.params>>

-----------------------------------------------------------------------------
(* Builder.BuildFromFiles *)

\* Pass 1.  A file that cannot be read is left out.
ParseFile ==
  /\ parsed < Len(project)
  /\ parsed' = parsed + 1
  /\ \/ nodes' = nodes \o [i \in 1..Len(project[parsed + 1].decls) |-> <<parsed + 1, i>>]
     \/ UNCHANGED nodes
  /\ UNCHANGED <<project, linked, parents, visited, reports, findings>>

Called(name)      == {n \in Nodes : Dcl(n).name = name}
CalledIn(k, name) == {n \in Called(name) : n[1] = k}

\* A bug to catch: the imports are not asked.
ResolveByName(name, k) ==
  LET here == FirstNode(CalledIn(k, name))
  IN IF here # NoNode THEN here ELSE FirstNode(Called(name))

\* resolveParent: the file itself, the files it imports in their order, any file.
ResolveParent(name, k) ==
  LET Named(file) == FirstNode(CalledIn(file, name))
      imports     == project[k].imports
      hits        == {i \in 1..Len(imports) : Named(imports[i]) # NoNode}
  IN IF Named(k) # NoNode THEN Named(k)
     ELSE IF hits # {} THEN Named(imports[CHOOSE i \in hits : \A j \in hits : i <= j])
     ELSE FirstNode(Called(name))

Files == {n[1] : n \in Nodes}

\* Pass 2, one file of the map: the parents that resolve, in the order written.
LinkFile(k) ==
  /\ parsed = Len(project) /\ k \in Files \ linked
  /\ linked' = linked \cup {k}
  /\ parents' = [n \in DOMAIN parents \cup {x \in Nodes : x[1] = k} |->
       IF n[1] # k THEN parents[n]
       ELSE SelectSeq([i \in 1..Len(Dcl(n).parents) |-> ResolveParent(Dcl(n).parents[i], k)],
                      LAMBDA p : p # NoNode)]
  /\ UNCHANGED <<project, parsed, nodes, visited, reports, findings>>

Built == parsed = Len(project) /\ linked = Files

-----------------------------------------------------------------------------
(* query.go *)

\* GetAncestors: breadth first, each once.
RECURSIVE Bfs(_, _)
Bfs(queue, result) ==
  IF queue = <<>> THEN result
  ELSE IF \E i \in 1..Len(result) : result[i] = Head(queue) THEN Bfs(Tail(queue), result)
  ELSE Bfs(Tail(queue) \o parents[Head(queue)], Append(result, Head(queue)))

GetAncestors(n) == Bfs(parents[n], <<>>)

SameSignature(n, name, as) ==
  SelectSeq(as, LAMBDA a : Defines(a, name) /\ Canonical(Function(a, name)) = Canonical(Function(n, name)))

\* FindFunctionInAncestors, of a function the contract has
FindFunctionInAncestors(n, name) ==
  LET as == SameSignature(n, name, GetAncestors(n)) IN IF as = <<>> THEN NoNode ELSE as[1]

\* FunctionNode.HasAccessControl: by the names alone.
HasAccessControl(f) == f.mods \cap LooksLike # {}

\* Graph.OverrideDroppedAccessControl
OverrideDropped(n, name) ==
  /\ Function(n, name).override /\ ~HasAccessControl(Function(n, name))
  /\ LET a == FindFunctionInAncestors(n, name)
     IN a # NoNode /\ HasAccessControl(Function(a, name))

-----------------------------------------------------------------------------
(* ModifierResolver and OverrideTracker *)

\* classify and deriveCategory: whatever their order, the first in rank of the
\* checks of all lines decides.
Ranked ==
  << <<"access-control", {"msg.sender==", "msg.sender!=", "hasRole(msg.sender)", "mapping[msg.sender]"}>>,
     <<"reentrancy-guard", {"reentrancy-check", "reentrancy-lock"}>>,
     <<"pause-check", {"pause-state"}>>,
     <<"initializer-once", {"initialized-flag"}>>,
     <<"timelock", {"timestamp-check"}>> >>

Classify(body) ==
  LET checks == UNION {body[l] : l \in 1..Len(body)}
      hits   == {i \in 1..Len(Ranked) : Ranked[i][2] \cap checks # {}}
  IN IF hits = {} THEN "unknown" ELSE Ranked[CHOOSE i \in hits : \A j \in hits : i <= j][1]

\* EnrichModifiers: the body decides, though the name be a well-known one.
CategoryOf(m, n) == Classify(Dcl(n).modifiers[m])

ByName(m) == IF m \in DOMAIN WellKnown THEN WellKnown[m] ELSE "unknown"

FirstDeclared(m, ns) ==
  LET having == SelectSeq(ns, LAMBDA n : m \in DOMAIN Dcl(n).modifiers)
  IN IF having = <<>> THEN ByName(m) ELSE CategoryOf(m, having[1])

\* ModifierResolver.Resolve, and resolveInAncestors, which leaves the contract out
Resolve(m, n)            == FirstDeclared(m, <<n>> \o GetAncestors(n))
ResolveInAncestors(m, n) == FirstDeclared(m, GetAncestors(n))

\* GetChain: the contract's own definition and those with its selector above it
GetChain(n, name) == <<n>> \o SameSignature(n, name, GetAncestors(n))

\* diffModifiers
Removed(name, link, parent) == Function(parent, name).mods \ Function(link, name).mods
Added(name, link, parent)   == Function(link, name).mods \ Function(parent, name).mods

\* computeDelta: SecurityDelta.AccessControlRemoved
AccessControlRemoved(name, link, parent) ==
  /\ \E m \in Removed(name, link, parent) : Resolve(m, parent) = "access-control"
  /\ ~\E m \in Added(name, link, parent) : Resolve(m, link) = "access-control"

\* The modifiers FirstAccessControlRegression may name
DroppedDefs(name, link, parent) ==
  {m \in Removed(name, link, parent) : ResolveInAncestors(m, link) = "access-control"}

\* FirstAccessControlRegression: a place in the chain, 0 for none
FirstRegression(chain, name) ==
  LET hits == {i \in 1..(Len(chain) - 1) : /\ AccessControlRemoved(name, chain[i], chain[i + 1])
                                           /\ DroppedDefs(name, chain[i], chain[i + 1]) # {}}
  IN IF hits = {} THEN 0 ELSE CHOOSE i \in hits : \A j \in hits : i <= j

\* BuildIndex keeps the chains of more than one link.
Names  == UNION {{Dcl(n).functions[i].name : i \in 1..Len(Dcl(n).functions)} : n \in Nodes}
Chains == {x \in Nodes \X Names : Defines(x[1], x[2]) /\ Len(GetChain(x[1], x[2])) > 1}

\* regressionKey
RegressionKey(link, name) == <<link, Canonical(Function(link, name))>>

\* FindAllRegressions, the next chain.  Which modifier is named is left to the
\* order of a map, too.
VisitChain(n, name) ==
  /\ Built /\ <<n, name>> \in Chains \ visited
  /\ visited' = visited \cup {<<n, name>>}
  /\ LET chain == GetChain(n, name)
         i     == FirstRegression(chain, name)
     IN IF i = 0 THEN UNCHANGED reports
        ELSE IF \E r \in reports : r.key = RegressionKey(chain[i], name) THEN UNCHANGED reports
        ELSE \E m \in DroppedDefs(name, chain[i], chain[i + 1]) :
               reports' = reports \cup {[key |-> RegressionKey(chain[i], name), link |-> chain[i],
                                         name |-> name, chain |-> n, dropped |-> m]}
  /\ UNCHANGED <<project, parsed, nodes, linked, parents, findings>>

-----------------------------------------------------------------------------
(* OverrideRemovesRestrictionDetector.Analyze: one file, by names *)

InFile(k, name) ==
  LET of == {i \in 1..Len(project[k].decls) : project[k].decls[i].name = name}
  IN IF of = {} THEN NoNode ELSE <<k, CHOOSE i \in of : TRUE>>

\* findFunction: the first of the name with as many parameters, 0 for none
FindFunction(n, f) ==
  LET fs == Dcl(n).functions
      of == {i \in 1..Len(fs) : fs[i].name = f.name /\ Len(fs[i].params) = Len(f.params)}
  IN IF of = {} THEN 0 ELSE CHOOSE i \in of : \A j \in of : i <= j

\* A bug to catch: the bases of a base are not searched.
RECURSIVE FindInBases(_, _, _, _)
FindInBases(k, names, f, seen) ==
  IF names = <<>> THEN NoNode
  ELSE LET n == InFile(k, Head(names))
       IN IF n = NoNode THEN FindInBases(k, Tail(names), f, seen)
          ELSE IF FindFunction(n, f) # 0 THEN n
          ELSE FindInBases(k, Tail(names), f, seen)

\* findInParentChain: depth first over the names still to be searched; an
\* interface is not looked into and hides what is above it.
RECURSIVE FindInParentChain(_, _, _, _)
FindInParentChain(k, names, f, seen) ==
  IF names = <<>> THEN NoNode
  ELSE LET n == InFile(k, Head(names))
       IN IF Head(names) \in seen THEN FindInParentChain(k, Tail(names), f, seen)
          ELSE IF n = NoNode THEN FindInParentChain(k, Tail(names), f, seen)
          ELSE IF Dcl(n).interface THEN FindInParentChain(k, Tail(names), f, seen)
          ELSE IF FindFunction(n, f) # 0 THEN n
          ELSE FindInParentChain(k, Dcl(n).parents \o Tail(names), f, seen \cup {Head(names)})

\* hasAccessRestriction
HasAccessRestriction(f) == f.mods \cap AccessMods # {}

\* What Analyze reports of one function: the bases whose restriction is gone
DroppedBases(n, f) ==
  LET Found(b) == FindInParentChain(n[1], <<Dcl(n).parents[b]>>, f, {})
  IN {Found(b) : b \in {x \in 1..Len(Dcl(n).parents) :
        /\ Found(x) # NoNode
        /\ HasAccessRestriction(Dcl(Found(x)).functions[FindFunction(Found(x), f)])}}

AnalyzeFile(k) ==
  /\ Built /\ \A x \in findings : x.file # k
  /\ LET Reported(n, f) == f.override /\ ~f.view /\ ~HasAccessRestriction(f) /\ DroppedBases(n, f) # {}
         OfContract(n)  == {<<n, Canonical(Dcl(n).functions[j])>> :
                              j \in {x \in 1..Len(Dcl(n).functions) : Reported(n, Dcl(n).functions[x])}}
         children       == {<<k, i>> : i \in {x \in 1..Len(project[k].decls) : ~project[k].decls[x].interface}}
     IN findings' = findings \cup {[file |-> k, keys |-> UNION {OfContract(n) : n \in children}]}
  /\ UNCHANGED <<project, parsed, nodes, linked, parents, visited, reports>>

-----------------------------------------------------------------------------

Init ==
  /\ project \in Projects
  /\ parsed = 0 /\ nodes = <<>> /\ linked = {}
  /\ parents = [n \in {} |-> <<>>]
  /\ visited = {} /\ reports = {} /\ findings = {}

Next ==
  \/ ParseFile
  \/ \E k \in 1..Len(project) : LinkFile(k)
  \/ \E n \in Nodes : \E name \in Names : VisitChain(n, name)
  \/ \E k \in 1..Len(project) : AnalyzeFile(k)

Spec == Init /\ [][Next]_vars

-----------------------------------------------------------------------------
(* What Solidity means by the project, for the sources it gives a meaning to *)

Declared == {<<k, i>> : k \in 1..Len(project), i \in 1..4} \cap
            UNION {{<<k, i>> : i \in 1..Len(project[k].decls)} : k \in 1..Len(project)}

\* The declarations a name may stand for in a file
InScope(name, k) ==
  LET files == {k} \cup {project[k].imports[i] : i \in 1..Len(project[k].imports)}
  IN {n \in Declared : n[1] \in files /\ Dcl(n).name = name}

\* The contracts above a contract, nearest first
RECURSIVE Above(_)
Above(n) ==
  IF Dcl(n).parents = <<>> THEN <<>>
  ELSE LET p == CHOOSE x \in InScope(Dcl(n).parents[1], n[1]) : TRUE IN <<p>> \o Above(p)

\* Every name after "is" stands for one declaration; no contract has two
\* parents, no overloads, and no modifier of a contract above it.
Straight ==
  \A n \in Declared :
    /\ Len(Dcl(n).parents) <= 1
    /\ \A i \in 1..Len(Dcl(n).parents) : Cardinality(InScope(Dcl(n).parents[i], n[1])) = 1
    /\ \A i, j \in 1..Len(Dcl(n).functions) :
         Dcl(n).functions[i].name = Dcl(n).functions[j].name => i = j
NoneRedeclared ==
  \A n \in Declared : \A i \in 1..Len(Above(n)) :
    DOMAIN Dcl(n).modifiers \cap DOMAIN Dcl(Above(n)[i]).modifiers = {}

AllRead == Cardinality(Nodes) = Cardinality(Declared)
Done    == Built /\ visited = Chains

\* Some line of the body looks at the sender, whatever the others do.
LooksAtSender(m, n) ==
  \E l \in 1..Len(Dcl(n).modifiers[m]) : \E c \in Dcl(n).modifiers[m][l] :
    c \notin {"reentrancy-check", "reentrancy-lock", "pause-state", "initialized-flag", "timestamp-check"}

\* Does the modifier, where it stands, say who may call?
Restricts(m, n) ==
  LET line == <<n>> \o Above(n)
      in   == {i \in 1..Len(line) : m \in DOMAIN Dcl(line[i]).modifiers}
  IN IF in = {} THEN ByName(m) = "access-control"
     ELSE \A i \in in : LooksAtSender(m, line[i])

\* The contracts above with the function of that signature, nearest first
Overridden(n, f) ==
  SelectSeq(Above(n), LAMBDA a : \E i \in 1..Len(Dcl(a).functions) :
                                   Canonical(Dcl(a).functions[i]) = Canonical(f))
ModsOf(n, sig) == UNION {Dcl(n).functions[i].mods :
                           i \in {x \in 1..Len(Dcl(n).functions) : Canonical(Dcl(n).functions[x]) = sig}}

\* The override lost a restriction and brought none of its own.
Loosens(n, f) ==
  /\ Overridden(n, f) # <<>>
  /\ LET p == Overridden(n, f)[1]
         before == ModsOf(p, Canonical(f))
     IN /\ \E m \in before \ f.mods : Restricts(m, p) /\ m \notin DOMAIN Dcl(n).modifiers
        /\ ~\E m \in f.mods \ before : Restricts(m, n)

Overrides == UNION {{<<n, Dcl(n).functions[i]>> : i \in 1..Len(Dcl(n).functions)} : n \in Declared}

(* FindAllRegressions "returns ... every place a function override drops     *)
(* access control" (override_tracker.go:326-327): where every contract has   *)
(* one parent, the places it reports are the overrides that lose a           *)
(* restriction the nearest definition above had and bring none, each once,   *)
(* whatever the order of the files and of the chains - although only the     *)
(* first of a chain is taken and a place found before is skipped.            *)
RegressionsExact ==
  (Done /\ AllRead /\ Straight /\ NoneRedeclared) =>
    {r.key : r \in reports} = {<<x[1], Canonical(x[2])>> : x \in {y \in Overrides : Loosens(y[1], y[2])}}

\* The three ways to ask agree only where every modifier is one all three know.
Conventional ==
  /\ \A n \in Declared : \A m \in DOMAIN Dcl(n).modifiers :
       LooksAtSender(m, n) /\ m \in AccessMods
  /\ \A x \in Overrides : /\ \A m \in x[2].mods : m \in AccessMods \cap LooksLike /\ ByName(m) = "access-control"
                          /\ Cardinality(x[2].mods) <= 1
                          /\ ~x[2].view
                          /\ x[2].override = (Overridden(x[1], x[2]) # <<>>)

(* Three parts of the code answer whether an override drops its parent's     *)
(* access control: the index of chains, Graph.OverrideDroppedAccessControl,  *)
(* and the detector's own Analyze.  In one file with single parents and no   *)
(* modifiers but the conventional ones they give the same answer for every   *)
(* function.                                                                 *)
OpinionsAgree ==
  (Done /\ AllRead /\ Straight /\ NoneRedeclared /\ Conventional /\ Len(project) = 1) =>
    \A x \in findings :
      /\ x.keys = {r.key : r \in reports}
      /\ x.keys = {<<y[1], Canonical(y[2])>> : y \in {z \in Overrides : OverrideDropped(z[1], z[2].name)}}
=============================================================================
