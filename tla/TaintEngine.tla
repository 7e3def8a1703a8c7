---------------------------- MODULE TaintEngine ----------------------------
(***************************************************************************)
(* internal/taint: Engine.Analyze over a symbol table.  A walk seeds the   *)
(* symbols that are taint sources, a worklist spreads taint from symbol to *)
(* symbol, and a second walk looks for tainted arguments of sinks.         *)
(*                                                                         *)
(* Whether a symbol taints another is decided on the uses in the table, by *)
(* one of three relations: "plain" of NewEngine, "ordered" by the index of *)
(* the top-level statement (NewEngineWithOrder), "indexed" by the path of  *)
(* the statement (NewEngineOrdered).  The last takes functions of one name *)
(* for one another: resolved is the function IndexBuilder found for each.  *)
(*                                                                         *)
(* The worklist is served in any order here, in the order of arrival in    *)
(* the code; chains are values (an append into shared memory writes what   *)
(* is there already, up to chains longer than any table here gives rise    *)
(* to).                                                                    *)
(***************************************************************************)
EXTENDS SymbolTable

CONSTANT Modes
ASSUME ModesAssumption == Modes \subseteq {"plain", "ordered", "indexed"}

VARIABLES
  mode,
  resolved,  \* for each function the one whose scope its statements are indexed under
  currentFn, \* the function name of the walk; it outlives the function
  tainted,   \* the keys of taintMap
  worklist,
  turn, queue, visited, \* the search from one symbol of the worklist
  sources,   \* TaintedValue.Sources: <<symbol, label>>
  chains,    \* TaintedValue.PropagationChain: <<symbol, sequence of symbols>>
  flows

engineVars == <<mode, resolved, currentFn, tainted, worklist, turn, queue, visited,
                sources, chains, flows>>
vars == <<tableVars, engineVars>>

-----------------------------------------------------------------------------
(* Does a write of candidate receive taint from a read of src? *)

Index(u) == [in |-> resolved[<<u.at[1], u.at[2]>>], path |-> StmtAt(u.at).path]

\* Conditions are not indexed, modifiers neither.
HasIndex(u) == <<u.at[1], u.at[2]>> \in Functions /\ StmtAt(u.at).kind # "test"

\* StatementIndex.Before: lexicographic, a branch before the other one.
LexBefore(p, q) ==
  \/ \E k \in 1..Len(p) : /\ k <= Len(q) /\ p[k] < q[k]
                          /\ \A l \in 1..k - 1 : p[l] = q[l]
  \/ Len(p) < Len(q) /\ \A l \in 1..Len(p) : p[l] = q[l]
Before(a, b)      == a.in = b.in /\ LexBefore(a.path, b.path)
SameOrAfter(a, b) == ~Before(a, b)

\* StatementOrderDB knows a node only under the function it is really in.
HasOrder(u) == u.scope = <<u.at[1], u.at[2]>> /\ u.scope \in Functions

PlainUse(w, r) == w.scope = r.scope

OrderedUse(w, r) ==
  /\ w.scope = r.scope
  /\ HasOrder(w) /\ HasOrder(r) => StmtAt(w.at).path[1] >= StmtAt(r.at).path[1]

ComesAfter(w, r) ==
  CASE HasIndex(w) /\ HasIndex(r)  -> Index(w).in = Index(r).in /\ SameOrAfter(Index(w), Index(r))
    [] HasIndex(w) /\ ~HasIndex(r) -> Index(w).in = r.scope
    [] ~HasIndex(w) /\ HasIndex(r) -> w.scope = Index(r).in
    [] OTHER                       -> w.scope = r.scope \/ InFunction(w) = InFunction(r)

\* rhsContainsSrc: not whether it does, but whether src is read there or earlier.
RhsContains(w, src) ==
  \E r \in Reads(src) :
    IF HasIndex(w)
    THEN HasIndex(r) /\ Index(w).in = Index(r).in
         /\ (Index(w).path[1] = Index(r).path[1] \/ SameOrAfter(Index(w), Index(r)))
    ELSE InFunction(r) = InFunction(w)

IndexedUse(w, r, src) ==
  InFunction(w) = InFunction(r) /\ ComesAfter(w, r) /\ RhsContains(w, src)

\* isTaintedByFull, isTaintedByOrdered, IsTaintedBy
Taints(src, candidate) ==
  /\ candidate # src
  /\ \E w \in Writes(candidate), r \in Reads(src) :
       CASE mode = "plain"   -> PlainUse(w, r)
         [] mode = "ordered" -> OrderedUse(w, r)
         [] mode = "indexed" -> IndexedUse(w, r, src)

OneStep(S) == {v \in AllSymbols : \E s \in S : Taints(s, v)}

-----------------------------------------------------------------------------
(* seedSources *)

EngineInit ==
  /\ mode \in Modes
  /\ resolved = <<>>
  /\ currentFn = NoName
  /\ turn = NoSym /\ queue = {} /\ visited = {}
  /\ tainted = {} /\ worklist = {} /\ sources = {} /\ chains = {} /\ flows = {}

\* BuildWithIndex: findFunctionScope takes the first function of the name a map gives it.
StartEngine ==
  /\ pass = "built"
  /\ resolved' \in {g \in [Functions -> Functions] :
                      \A f \in Functions : Member(g[f]).name = Member(f).name}
  /\ pass' = "seed"
  /\ at' = First
  /\ UNCHANGED <<unit, scope, called, uses, flagged, stored, storedReads, reentrant>>
  /\ UNCHANGED <<mode, currentFn, tainted, worklist, turn, queue, visited, sources, chains, flows>>

WalkHead ==
  /\ currentFn' = IF at[2] # 0 /\ at[3] = 0 /\ Member(at).function THEN Member(at).name ELSE currentFn
  /\ at' = Next3(at)

\* findSymbolByName: the first symbol of the name declared in a function of that name, or
\* the first of all as long as the walk has met no function.
Sooner(s, t) == \/ s.in[1] < t.in[1]
                \/ s.in[1] = t.in[1] /\ s.in[2] < t.in[2]
                \/ s.in[1] = t.in[1] /\ s.in[2] = t.in[2] /\ s.in[3] < t.in[3]
Named(x) == {s \in AllSymbols : /\ s.name = x
                                /\ \/ currentFn = NoName
                                   \/ /\ s.in[2] # 0 /\ <<s.in[1], s.in[2]>> \in Functions
                                      /\ Member(s.in).name = currentFn}
FindByName(x) == {s \in Named(x) : \A t \in Named(x) \ {s} : Sooner(s, t)}

\* taintSymbol for all symbols of S with one label and no chain.
Seed(S, label) ==
  /\ tainted' = tainted \cup S
  /\ worklist' = worklist \cup (S \ tainted)
  /\ sources' = sources \cup (S \X {label})
  /\ chains' = chains \cup {<<s, <<>> >> : s \in S \ tainted}

SeedHead ==
  /\ pass = "seed" /\ ~AtEnd /\ at[3] = 0
  /\ WalkHead
  /\ IF at[2] # 0 /\ Member(at).function /\ Member(at).public
     THEN Seed(AllSymbols \cap {Param(at[1], at[2], x) : x \in Member(at).params}, "calldata")
     ELSE UNCHANGED <<tainted, worklist, sources, chains>>
  /\ UNCHANGED <<unit, pass, scope, called, uses, flagged, stored, storedReads, reentrant>>
  /\ UNCHANGED <<mode, resolved, turn, queue, visited, flows>>

\* detectSourceExpression finds one.
HasSource(s) == s.source \in Labels \ {"derived", "none"}

\* Parameters and declared variables are found by their id, assigned ones by their name only.
SeedStatement ==
  /\ pass = "seed" /\ ~AtEnd /\ at[3] # 0
  /\ LET s == StmtAt(at) IN
       \/ HasSource(s) /\ s.kind = "declare" /\ Seed(AllSymbols \cap {Local(at)}, s.source)
       \/ HasSource(s) /\ s.kind = "assign" /\ Seed(FindByName(s.target), s.source)
       \/ /\ ~(HasSource(s) /\ s.kind \in {"declare", "assign"})
          /\ UNCHANGED <<tainted, worklist, sources, chains>>
  /\ at' = Next3(at)
  /\ UNCHANGED <<unit, pass, scope, called, uses, flagged, stored, storedReads, reentrant>>
  /\ UNCHANGED <<mode, resolved, currentFn, turn, queue, visited, flows>>

SeedsDone ==
  /\ pass = "seed" /\ AtEnd
  /\ pass' = "propagate"
  /\ UNCHANGED <<unit, at, scope, called, uses, flagged, stored, storedReads, reentrant>>
  /\ UNCHANGED engineVars

-----------------------------------------------------------------------------
(* propagate, OrderedPropagator.Propagate *)

ChainOf(v) == (CHOOSE c \in chains : c[1] = v)[2]

\* Bugs to catch: only sources are served; the symbol that taints is left out of the chain.
DeriveOnce(src, S, left) ==
  LET new == S \ tainted IN
    /\ tainted' = tainted \cup new
    /\ worklist' = left
    /\ sources' = sources \cup (new \X {"derived"})
    /\ chains' = chains \cup (new \X {Append(ChainOf(src), src)})

DeriveShort(src, S, left) ==
  LET new == S \ tainted IN
    /\ tainted' = tainted \cup new
    /\ worklist' = left \cup new
    /\ sources' = sources \cup (new \X {"derived"})
    /\ chains' = chains \cup (new \X {IF ChainOf(src) = <<>> THEN <<src>> ELSE ChainOf(src)})

\* taintSymbolWithChain for the symbols of S that are not tainted yet.
Derive(src, S, left) ==
  LET new == S \ tainted IN
    /\ tainted' = tainted \cup new
    /\ worklist' = left \cup new
    /\ sources' = sources \cup (new \X {"derived"})
    /\ chains' = chains \cup (new \X {Append(ChainOf(src), src)})

Propagate(src) ==
  /\ pass = "propagate" /\ mode # "indexed"
  /\ src \in worklist
  /\ Derive(src, OneStep({src}), worklist \ {src})
  /\ UNCHANGED <<tableVars, mode, resolved, currentFn, turn, queue, visited, flows>>

\* IsTaintedByTransitive(src), a breadth-first search of its own.
BeginSearch(src) ==
  /\ pass = "propagate" /\ mode = "indexed" /\ turn = NoSym
  /\ src \in worklist
  /\ worklist' = worklist \ {src}
  /\ turn' = src
  /\ queue' = {src}
  /\ visited' = {}
  /\ UNCHANGED <<tableVars, mode, resolved, currentFn, tainted, sources, chains, flows>>

Search(s) ==
  /\ turn # NoSym
  /\ s \in queue
  /\ visited' = visited \cup {s}
  /\ queue' = (queue \ {s}) \cup (OneStep({s}) \ visited')
  /\ UNCHANGED <<tableVars, mode, resolved, currentFn, turn, tainted, worklist, sources, chains, flows>>

SearchDone ==
  /\ turn # NoSym /\ queue = {}
  /\ Derive(turn, visited \ {turn}, worklist)
  /\ turn' = NoSym
  /\ UNCHANGED <<tableVars, mode, resolved, currentFn, queue, visited, flows>>

PropagateDone ==
  /\ pass = "propagate" /\ worklist = {} /\ turn = NoSym
  /\ pass' = "sinks"
  /\ at' = First
  /\ currentFn' = NoName
  /\ UNCHANGED <<unit, scope, called, uses, flagged, stored, storedReads, reentrant>>
  /\ UNCHANGED <<mode, resolved, tainted, worklist, sources, chains, turn, queue, visited, flows>>

-----------------------------------------------------------------------------
(* checkSinks *)

Priority(label) ==
  CASE label = "msg.sender" -> 6 [] label = "msg.value" -> 5 [] label = "tx.origin" -> 4
    [] label = "calldata" -> 3 [] label = "msg.data" -> 2 [] label = "block.timestamp" -> 1
    [] OTHER -> 0
LabelsOf(v)    == {p[2] : p \in {q \in sources : q[1] = v}}
HighestRisk(v) == CHOOSE l \in LabelsOf(v) : \A k \in LabelsOf(v) : Priority(k) <= Priority(l)

\* The tainted identifiers a sink takes, each with the kind of its flow.  The receiver of a
\* call stands for its value.
Taken(s) ==
  IF s.options THEN {} ELSE
  {<<Means(at, x), s.sink>> : x \in s.args}
    \cup (IF s.receiver = NoName THEN {} ELSE
          {<<Means(at, s.receiver),
             IF s.sink = "external-call" THEN "eth-transfer" ELSE s.sink>>})

SinkHead ==
  /\ pass = "sinks" /\ ~AtEnd /\ at[3] = 0
  /\ WalkHead
  /\ UNCHANGED <<unit, pass, scope, called, uses, flagged, stored, storedReads, reentrant>>
  /\ UNCHANGED <<mode, resolved, tainted, worklist, sources, chains, turn, queue, visited, flows>>

SinkStatement ==
  /\ pass = "sinks" /\ ~AtEnd /\ at[3] # 0
  /\ LET s == StmtAt(at)
         Flow(v, label, chain, kind) ==
           [label |-> label, chain |-> chain, kind |-> kind, at |-> at, fn |-> currentFn, sym |-> v] IN
       flows' = flows
         \cup {Flow(t[1], HighestRisk(t[1]), Append(ChainOf(t[1]), t[1]), t[2]) :
                 t \in {y \in Taken(s) : s.sink # "none" /\ y[1] \in tainted}}
         \cup (IF s.sink # "none" /\ HasSource(s) /\ s.kind = "call" /\ ~s.options
               THEN {Flow(NoSym, s.source, <<>>, s.sink)} ELSE {})
  /\ at' = Next3(at)
  /\ UNCHANGED <<unit, pass, scope, called, uses, flagged, stored, storedReads, reentrant>>
  /\ UNCHANGED <<mode, resolved, currentFn, tainted, worklist, sources, chains, turn, queue, visited>>

AnalyzeDone ==
  /\ pass = "sinks" /\ AtEnd
  /\ pass' = "done"
  /\ UNCHANGED <<unit, at, scope, called, uses, flagged, stored, storedReads, reentrant, engineVars>>

Build == TableNext /\ UNCHANGED engineVars

Init == TableInit /\ EngineInit
Next == \/ Build \/ StartEngine
        \/ SeedHead \/ SeedStatement \/ SeedsDone
        \/ \E s \in worklist : Propagate(s) \/ BeginSearch(s)
        \/ \E s \in queue : Search(s)
        \/ SearchDone \/ PropagateDone
        \/ SinkHead \/ SinkStatement \/ AnalyzeDone
Spec == Init /\ [][Next]_vars

-----------------------------------------------------------------------------
EngineTypeOK ==
  /\ mode \in Modes
  /\ tainted \subseteq AllSymbols
  /\ worklist \subseteq tainted
  /\ sources \subseteq AllSymbols \X Labels
  /\ \A c \in chains : c[1] \in tainted /\ c[2] \in Seq(tainted)
  /\ turn \in tainted \cup {NoSym} /\ queue \cup visited \subseteq AllSymbols
TypeOK == TableTypeOK /\ EngineTypeOK

Seeds   == {s \in AllSymbols : \E p \in sources : p[1] = s /\ p[2] # "derived"}
Settled == pass = "sinks" /\ at = First /\ currentFn = NoName

Closed(T) == OneStep(T) \subseteq T

\* The worklist ends, whatever its order and in every mode, with the smallest set that has
\* all sources and that the relation between symbols does not lead out of.
TaintIsLeastFixpoint ==
  Settled => /\ Seeds \subseteq tainted
             /\ Closed(tainted)
             /\ \A T \in SUBSET (tainted \ Seeds) : Closed(Seeds \cup T) => tainted = Seeds \cup T

\* A chain begins at a source and every symbol of it leads to the next one: in one step, or
\* in the indexed mode over symbols that a search passed by; so what a report prints is a
\* way that taint can take.
ChainsAreDerivations ==
  Settled =>
    \A c \in chains : LET path == Append(c[2], c[1]) IN
      /\ path[1] \in Seeds
      /\ \A k \in 1..Len(path) - 1 :
           IF mode # "indexed" THEN Taints(path[k], path[k + 1])
           ELSE \A T \in SUBSET (tainted \ {path[k], path[k + 1]}) : ~Closed(T \cup {path[k]})
=============================================================================
