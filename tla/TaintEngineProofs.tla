-------------------------- MODULE TaintEngineProofs --------------------------
(***************************************************************************)
(* For every source unit, every mode and every order of the worklist: when *)
(* propagation ends, the tainted symbols are the least set that has the    *)
(* sources and is closed under the relation between symbols.               *)
(*                                                                         *)
(* Nothing too much (Within): whatever is tainted is in every closed set   *)
(* that has the sources.  Nothing too little (Served): a tainted symbol    *)
(* that is neither on the worklist nor being searched from has tainted     *)
(* what it taints.  In the indexed mode the search from one symbol is a    *)
(* fixpoint of its own (Searched).                                         *)
(*                                                                         *)
(* Every chain in taintMap is a way that taint takes (ChainInv), and what  *)
(* the walk before has put into the symbol table is what its detectors are *)
(* held to (TableInv): the walk is in the contract's first function from   *)
(* there on, it has seen a call or not, and every use it has passed is     *)
(* kept where that function's scope says.                                  *)
(***************************************************************************)
EXTENDS TaintEngine, WellFoundedInduction, TLAPS

Before0 == {"resolve", "readers", "stored", "built"}

Typed ==
  /\ tainted \subseteq AllSymbols
  /\ worklist \subseteq tainted
  /\ queue \cup visited \subseteq AllSymbols
  /\ \A p \in sources : p[1] \in tainted

Idle ==
  /\ pass \in Before0 => tainted = {} /\ sources = {}
  /\ pass # "propagate" => turn = NoSym
  /\ pass \in {"sinks", "done"} => worklist = {}

Served == \A s \in tainted : s \in worklist \/ s = turn \/ OneStep({s}) \subseteq tainted

Searched ==
  IF turn = NoSym THEN queue = {}
  ELSE /\ turn \in tainted
       /\ turn \in visited \cup queue
       /\ \A s \in visited : OneStep({s}) \subseteq visited \cup queue

Within ==
  \A T \in SUBSET AllSymbols : Seeds \subseteq T /\ Closed(T) =>
    /\ tainted \subseteq T
    /\ turn # NoSym => visited \cup queue \subseteq T

IInv == Typed /\ Idle /\ Served /\ Searched /\ Within

-----------------------------------------------------------------------------
(* The relation is a constant once the table is built. *)

Frame == UNCHANGED <<unit, uses, mode, resolved>>

LEMMA NoSymNotDeclared == NoSym \notin AllSymbols
<1>1. ASSUME NEW p \in (1..Len(unit)) \X Names  PROVE StateVar(p[1], p[2]) # NoSym
  <2>1. PICK c \in 1..Len(unit), x \in Names : p = <<c, x>>  OBVIOUS
  <2>2. c # 0  OBVIOUS
  <2>. QED  BY <2>1, <2>2 DEF StateVar, NoSym
<1>2. ASSUME NEW f \in Functions, NEW x  PROVE Param(f[1], f[2], x) # NoSym
  <2>1. f[1] # 0  BY <1>2 DEF Functions
  <2>. QED  BY <2>1 DEF Param, NoSym
<1>3. ASSUME NEW p \in Positions  PROVE Local(p) # NoSym
  <2>1. p[1] # 0  BY <1>3 DEF Positions
  <2>. QED  BY <2>1 DEF Local, NoSym
<1>. QED  BY <1>1, <1>2, <1>3, Zenon DEF AllSymbols

LEMMA SymbolsFixed == ASSUME unit' = unit PROVE AllSymbols' = AllSymbols
BY DEF AllSymbols, StateVar, Param, Local, Positions, Functions, Member, StmtAt

LEMMA RelationFixed ==
  ASSUME Frame, NEW s, NEW v
  PROVE  Taints(s, v)' <=> Taints(s, v)
<1>1. unit' = unit /\ uses' = uses /\ mode' = mode /\ resolved' = resolved  BY DEF Frame
<1>. QED
  BY <1>1 DEF Taints, Writes, Reads, PlainUse, OrderedUse, IndexedUse, HasOrder, HasIndex, Index,
     ComesAfter, RhsContains, InFunction, SameOrAfter, Before, LexBefore, Functions, Member, StmtAt

LEMMA StepFixed == ASSUME Frame, NEW S PROVE OneStep(S)' = OneStep(S)
BY SymbolsFixed, RelationFixed DEF OneStep, Frame

LEMMA Union == ASSUME NEW S PROVE OneStep(S) = UNION {OneStep({s}) : s \in S}
BY DEF OneStep

-----------------------------------------------------------------------------
(* Steps that leave the engine's sets alone *)

SetsFixed == UNCHANGED <<tainted, worklist, turn, queue, visited, sources>>

LEMMA Still ==
  ASSUME IInv, Frame, SetsFixed, Idle'
  PROVE  IInv'
<1>1. AllSymbols' = AllSymbols  BY SymbolsFixed DEF Frame
<1>2. Seeds' = Seeds  BY <1>1 DEF Seeds, SetsFixed
<1>3. Typed'  BY <1>1 DEF IInv, Typed, SetsFixed
<1>4. Served'
  <2>1. ASSUME NEW s \in tainted PROVE s \in worklist \/ s = turn \/ OneStep({s})' \subseteq tainted
    <3>1. OneStep({s})' = OneStep({s})  BY StepFixed
    <3>. QED  BY <2>1, <3>1 DEF IInv, Served
  <2>. QED  BY <2>1 DEF Served, SetsFixed
<1>5. Searched'
  <2>1. ASSUME turn # NoSym, NEW s \in visited PROVE OneStep({s})' \subseteq visited \cup queue
    <3>1. OneStep({s})' = OneStep({s})  BY StepFixed
    <3>. QED  BY <2>1, <3>1 DEF IInv, Searched
  <2>. QED  BY <2>1 DEF Searched, SetsFixed, IInv
<1>6. Within'
  <2>1. ASSUME NEW T \in SUBSET AllSymbols, Seeds \subseteq T, Closed(T)'
        PROVE  tainted \subseteq T /\ (turn # NoSym => visited \cup queue \subseteq T)
    <3>1. OneStep(T)' = OneStep(T)  BY StepFixed
    <3>. QED  BY <2>1, <3>1 DEF IInv, Within, Closed
  <2>. QED  BY <1>1, <1>2, <2>1 DEF Within, SetsFixed
<1>. QED  BY <1>3, <1>4, <1>5, <1>6 DEF IInv

\* While the table is built, and when the relation gets its constant, nothing is tainted.
LEMMA Empty ==
  ASSUME IInv, pass \in Before0, unit' = unit, SetsFixed, Idle'
  PROVE  IInv'
<1>1. AllSymbols' = AllSymbols  BY SymbolsFixed
<1>2. tainted = {} /\ sources = {} /\ worklist = {} /\ turn = NoSym /\ queue = {}
  BY DEF IInv, Idle, Typed, Before0, Searched
<1>. QED  BY <1>1, <1>2 DEF IInv, Typed, Served, Searched, Within, SetsFixed

LEMMA InitInv == Init => IInv
BY DEF Init, TableInit, EngineInit, IInv, Typed, Idle, Served, Searched, Within, Before0

LEMMA BuildInv == ASSUME IInv, Build PROVE IInv'
<1>1. pass \in Before0 /\ pass' \in Before0 /\ unit' = unit /\ SetsFixed
  BY DEF Build, TableNext, EnterContract, EnterMember, Statement, BuildDone, TrackStorage,
         DetectReentrancy, Before0, SetsFixed, engineVars
<1>2. Idle'  BY <1>1 DEF IInv, Idle, SetsFixed, Before0
<1>. QED  BY <1>1, <1>2, Empty

LEMMA StartInv == ASSUME IInv, StartEngine PROVE IInv'
<1>1. pass \in Before0 /\ pass' = "seed" /\ unit' = unit /\ SetsFixed
  BY DEF StartEngine, Before0, SetsFixed
<1>2. Idle'  BY <1>1 DEF IInv, Idle, SetsFixed, Before0
<1>. QED  BY <1>1, <1>2, Empty

LEMMA StillInv ==
  ASSUME IInv, SeedsDone \/ PropagateDone \/ SinkHead \/ SinkStatement \/ AnalyzeDone
  PROVE  IInv'
<1>1. Frame /\ SetsFixed
  BY DEF SeedsDone, PropagateDone, SinkHead, SinkStatement, AnalyzeDone, Frame, SetsFixed, engineVars
<1>2. Idle'
  <2>1. CASE SeedsDone  BY <2>1 DEF SeedsDone, IInv, Idle, Before0, engineVars
  <2>2. CASE PropagateDone  BY <2>2 DEF PropagateDone, IInv, Idle, Before0
  <2>3. CASE SinkHead  BY <2>3 DEF SinkHead, IInv, Idle, Before0
  <2>4. CASE SinkStatement  BY <2>4 DEF SinkStatement, IInv, Idle, Before0
  <2>5. CASE AnalyzeDone  BY <2>5 DEF AnalyzeDone, IInv, Idle, Before0, engineVars
  <2>. QED  BY <2>1, <2>2, <2>3, <2>4, <2>5
<1>. QED  BY <1>1, <1>2, Still

-----------------------------------------------------------------------------
(* Sources *)

LEMMA SeedInv ==
  ASSUME IInv, pass = "seed", pass' = pass, Frame, UNCHANGED <<turn, queue, visited>>,
         NEW S \in SUBSET AllSymbols, NEW label, label # "derived", Seed(S, label)
  PROVE  IInv'
<1>1. AllSymbols' = AllSymbols  BY SymbolsFixed DEF Frame
<1>2. /\ tainted' = tainted \cup S
      /\ worklist' = worklist \cup (S \ tainted)
      /\ sources' = sources \cup (S \X {label})
      /\ turn = NoSym /\ turn' = NoSym /\ queue' = queue /\ visited' = visited
  BY DEF Seed, IInv, Idle
<1>3. Seeds \cup S \subseteq Seeds'
  <2>1. ASSUME NEW s \in Seeds PROVE s \in Seeds'
    <3>1. PICK p \in sources : p[1] = s /\ p[2] # "derived"  BY <2>1 DEF Seeds
    <3>2. p \in sources'  BY <1>2, <3>1
    <3>. QED  BY <1>1, <2>1, <3>1, <3>2 DEF Seeds
  <2>2. ASSUME NEW s \in S PROVE s \in Seeds'
    <3>1. <<s, label>> \in sources'  BY <1>2, <2>2
    <3>2. <<s, label>>[1] = s /\ <<s, label>>[2] # "derived"  OBVIOUS
    <3>. QED  BY <1>1, <2>2, <3>1, <3>2 DEF Seeds
  <2>. QED  BY <2>1, <2>2
<1>4. Typed'
  <2>1. ASSUME NEW p \in sources' PROVE p[1] \in tainted'
    <3>1. p \in sources \/ p \in S \X {label}  BY <1>2, <2>1
    <3>. QED  BY <1>2, <3>1 DEF IInv, Typed
  <2>. QED  BY <1>1, <1>2, <2>1 DEF IInv, Typed
<1>5. Idle'  BY <1>2 DEF Idle, Before0
<1>6. Served'
  <2>1. ASSUME NEW s \in tainted' PROVE s \in worklist' \/ OneStep({s})' \subseteq tainted'
    <3>1. OneStep({s})' = OneStep({s})  BY StepFixed
    <3>2. CASE s \in tainted
      <4>1. s \in worklist \/ s = NoSym \/ OneStep({s}) \subseteq tainted  BY <3>2, <1>2 DEF IInv, Served
      <4>2. s # NoSym  BY <3>2, NoSymNotDeclared DEF IInv, Typed
      <4>. QED  BY <1>2, <3>1, <4>1, <4>2
    <3>3. CASE s \notin tainted  BY <1>2, <2>1, <3>3
    <3>. QED  BY <3>2, <3>3
  <2>. QED  BY <2>1 DEF Served
<1>7. Searched'  BY <1>2 DEF IInv, Searched
<1>8. Within'
  <2>1. ASSUME NEW T \in SUBSET AllSymbols, Seeds' \subseteq T, Closed(T)'
        PROVE  tainted' \subseteq T
    <3>1. OneStep(T)' = OneStep(T)  BY StepFixed
    <3>2. tainted \subseteq T  BY <1>3, <2>1, <3>1 DEF IInv, Within, Closed
    <3>. QED  BY <1>2, <1>3, <2>1, <3>2
  <2>. QED  BY <1>1, <1>2, <2>1 DEF Within
<1>. QED  BY <1>4, <1>5, <1>6, <1>7, <1>8 DEF IInv

LEMMA SeedHeadInv == ASSUME IInv, SeedHead PROVE IInv'
<1>1. pass = "seed" /\ pass' = pass /\ Frame /\ UNCHANGED <<turn, queue, visited>>
  BY DEF SeedHead, Frame
<1>2. CASE UNCHANGED <<tainted, worklist, sources, chains>>
  <2>1. SetsFixed /\ Idle'  BY <1>1, <1>2 DEF SetsFixed, IInv, Idle, Before0
  <2>. QED  BY <1>1, <2>1, Still
<1>3. CASE Seed(AllSymbols \cap {Param(at[1], at[2], x) : x \in Member(at).params}, "calldata")
  <2>1. AllSymbols \cap {Param(at[1], at[2], x) : x \in Member(at).params} \in SUBSET AllSymbols
    OBVIOUS
  <2>. QED  BY <1>1, <1>3, <2>1, SeedInv
<1>. QED  BY <1>2, <1>3 DEF SeedHead

LEMMA SeedStatementInv == ASSUME IInv, SeedStatement PROVE IInv'
<1>1. pass = "seed" /\ pass' = pass /\ Frame /\ UNCHANGED <<turn, queue, visited>>
  BY DEF SeedStatement, Frame
<1>2. CASE UNCHANGED <<tainted, worklist, sources, chains>>
  <2>1. SetsFixed /\ Idle'  BY <1>1, <1>2 DEF SetsFixed, IInv, Idle, Before0
  <2>. QED  BY <1>1, <2>1, Still
<1>3. CASE HasSource(StmtAt(at)) /\ Seed(AllSymbols \cap {Local(at)}, StmtAt(at).source)
  <2>1. AllSymbols \cap {Local(at)} \in SUBSET AllSymbols /\ StmtAt(at).source # "derived"
    BY <1>3 DEF HasSource
  <2>. QED  BY <1>1, <1>3, <2>1, SeedInv
<1>4. CASE HasSource(StmtAt(at)) /\ Seed(FindByName(StmtAt(at).target), StmtAt(at).source)
  <2>1. FindByName(StmtAt(at).target) \in SUBSET AllSymbols /\ StmtAt(at).source # "derived"
    BY <1>4 DEF HasSource, FindByName, Named
  <2>. QED  BY <1>1, <1>4, <2>1, SeedInv
<1>. QED  BY <1>2, <1>3, <1>4 DEF SeedStatement

-----------------------------------------------------------------------------
(* The worklist *)

\* What taintSymbolWithChain adds is derived, so the sources stay the same.
LEMMA DeriveFacts ==
  ASSUME IInv, Frame, NEW src, NEW S \in SUBSET AllSymbols, NEW left, Derive(src, S, left)
  PROVE  /\ tainted' = tainted \cup S
         /\ worklist' = left \cup (S \ tainted)
         /\ Seeds' = Seeds
         /\ \A p \in sources' : p[1] \in tainted'
<1>1. AllSymbols' = AllSymbols  BY SymbolsFixed DEF Frame
<1>2. sources' = sources \cup ((S \ tainted) \X {"derived"}) /\ tainted' = tainted \cup S
      /\ worklist' = left \cup (S \ tainted)
  BY DEF Derive
<1>3. ASSUME NEW p \in sources' PROVE p \in sources \/ (p[1] \in S /\ p[2] = "derived")
  BY <1>2, <1>3
<1>4. Seeds' = Seeds
  <2>1. sources \subseteq sources'  BY <1>2
  <2>. QED  BY <1>1, <1>3, <2>1 DEF Seeds
<1>. QED  BY <1>2, <1>3, <1>4 DEF IInv, Typed

LEMMA PropagateInv == ASSUME IInv, NEW src, Propagate(src) PROVE IInv'
<1>1. Frame /\ AllSymbols' = AllSymbols  BY SymbolsFixed DEF Propagate, Frame, tableVars
<1>2. /\ pass = "propagate" /\ pass' = pass /\ src \in worklist
      /\ turn' = turn /\ queue' = queue /\ visited' = visited
      /\ Derive(src, OneStep({src}), worklist \ {src})
  BY DEF Propagate, tableVars
<1>3. OneStep({src}) \in SUBSET AllSymbols  BY DEF OneStep
<1>4. /\ tainted' = tainted \cup OneStep({src})
      /\ worklist' = (worklist \ {src}) \cup (OneStep({src}) \ tainted)
      /\ Seeds' = Seeds
      /\ \A p \in sources' : p[1] \in tainted'
  BY <1>1, <1>2, <1>3, DeriveFacts
<1>5. src \in tainted  BY <1>2 DEF IInv, Typed
<1>6. Typed'  BY <1>1, <1>2, <1>3, <1>4 DEF IInv, Typed
<1>7. Idle'  BY <1>2 DEF Idle, Before0
<1>8. Served'
  <2>1. ASSUME NEW s \in tainted' PROVE s \in worklist' \/ s = turn' \/ OneStep({s})' \subseteq tainted'
    <3>1. OneStep({s})' = OneStep({s})  BY <1>1, StepFixed
    <3>2. CASE s = src  BY <1>4, <3>1, <3>2
    <3>3. CASE s # src /\ s \in tainted  BY <1>2, <1>4, <3>1, <3>3 DEF IInv, Served
    <3>4. CASE s \notin tainted  BY <1>4, <2>1, <3>4
    <3>. QED  BY <3>2, <3>3, <3>4
  <2>. QED  BY <2>1 DEF Served
<1>9. Searched'
  <2>1. ASSUME turn # NoSym, NEW s \in visited PROVE OneStep({s})' \subseteq visited \cup queue
    <3>1. OneStep({s})' = OneStep({s})  BY <1>1, StepFixed
    <3>. QED  BY <2>1, <3>1 DEF IInv, Searched
  <2>. QED  BY <1>2, <1>4, <2>1 DEF Searched, IInv
<1>10. Within'
  <2>1. ASSUME NEW T \in SUBSET AllSymbols, Seeds \subseteq T, Closed(T)'
        PROVE  tainted' \subseteq T /\ (turn # NoSym => visited \cup queue \subseteq T)
    <3>1. OneStep(T)' = OneStep(T)  BY <1>1, StepFixed
    <3>2. tainted \subseteq T /\ (turn # NoSym => visited \cup queue \subseteq T)
      BY <2>1, <3>1 DEF IInv, Within, Closed
    <3>3. OneStep({src}) \subseteq OneStep(T)  BY <1>5, <3>2 DEF OneStep
    <3>. QED  BY <1>4, <2>1, <3>1, <3>2, <3>3 DEF Closed
  <2>. QED  BY <1>1, <1>2, <1>4, <2>1 DEF Within
<1>. QED  BY <1>6, <1>7, <1>8, <1>9, <1>10 DEF IInv

LEMMA BeginSearchInv == ASSUME IInv, NEW src, BeginSearch(src) PROVE IInv'
<1>1. Frame /\ AllSymbols' = AllSymbols  BY SymbolsFixed DEF BeginSearch, Frame, tableVars
<1>2. /\ pass = "propagate" /\ pass' = pass /\ src \in worklist /\ turn = NoSym
      /\ worklist' = worklist \ {src} /\ turn' = src /\ queue' = {src} /\ visited' = {}
      /\ tainted' = tainted /\ sources' = sources
  BY DEF BeginSearch, tableVars
<1>3. src \in tainted /\ src \in AllSymbols /\ src # NoSym
  BY <1>2, NoSymNotDeclared DEF IInv, Typed
<1>4. Seeds' = Seeds  BY <1>1, <1>2 DEF Seeds
<1>5. Typed'  BY <1>1, <1>2, <1>3 DEF IInv, Typed
<1>6. Idle'  BY <1>2 DEF Idle, Before0
<1>7. Served'
  <2>1. ASSUME NEW s \in tainted PROVE s \in worklist' \/ s = src \/ OneStep({s})' \subseteq tainted
    <3>1. OneStep({s})' = OneStep({s})  BY <1>1, StepFixed
    <3>2. s # NoSym  BY <2>1, NoSymNotDeclared DEF IInv, Typed
    <3>. QED  BY <1>2, <2>1, <3>1, <3>2 DEF IInv, Served
  <2>. QED  BY <1>2, <2>1 DEF Served
<1>8. Searched'  BY <1>2, <1>3 DEF Searched
<1>9. Within'
  <2>1. ASSUME NEW T \in SUBSET AllSymbols, Seeds \subseteq T, Closed(T)'
        PROVE  tainted \subseteq T
    <3>1. OneStep(T)' = OneStep(T)  BY <1>1, StepFixed
    <3>. QED  BY <2>1, <3>1 DEF IInv, Within, Closed
  <2>. QED  BY <1>1, <1>2, <1>3, <1>4, <2>1 DEF Within
<1>. QED  BY <1>5, <1>6, <1>7, <1>8, <1>9 DEF IInv

LEMMA SearchInv == ASSUME IInv, NEW s \in queue, Search(s) PROVE IInv'
<1>1. Frame /\ AllSymbols' = AllSymbols  BY SymbolsFixed DEF Search, Frame, tableVars
<1>2. /\ turn # NoSym /\ pass' = pass /\ turn' = turn
      /\ visited' = visited \cup {s}
      /\ queue' = (queue \ {s}) \cup (OneStep({s}) \ visited')
      /\ worklist' = worklist /\ tainted' = tainted /\ sources' = sources
  BY DEF Search, tableVars
<1>3. Seeds' = Seeds  BY <1>1, <1>2 DEF Seeds
<1>4. Typed'
  <2>1. OneStep({s}) \subseteq AllSymbols  BY DEF OneStep
  <2>. QED  BY <1>1, <1>2, <2>1 DEF IInv, Typed
<1>5. Idle'  BY <1>2 DEF IInv, Idle, Before0
<1>6. Served'
  <2>1. ASSUME NEW x \in tainted PROVE x \in worklist \/ x = turn \/ OneStep({x})' \subseteq tainted
    <3>1. OneStep({x})' = OneStep({x})  BY <1>1, StepFixed
    <3>. QED  BY <2>1, <3>1 DEF IInv, Served
  <2>. QED  BY <1>2, <2>1 DEF Served
<1>7. Searched'
  <2>1. ASSUME NEW x \in visited' PROVE OneStep({x})' \subseteq visited' \cup queue'
    <3>1. OneStep({x})' = OneStep({x})  BY <1>1, StepFixed
    <3>2. CASE x \in visited
      <4>1. OneStep({x}) \subseteq visited \cup queue  BY <1>2, <3>2 DEF IInv, Searched
      <4>. QED  BY <1>2, <3>1, <4>1
    <3>3. CASE x = s  BY <1>2, <3>1, <3>3
    <3>. QED  BY <1>2, <2>1, <3>2, <3>3
  <2>2. turn \in tainted /\ turn \in visited' \cup queue'  BY <1>2 DEF IInv, Searched
  <2>. QED  BY <1>2, <2>1, <2>2 DEF Searched
<1>8. Within'
  <2>1. ASSUME NEW T \in SUBSET AllSymbols, Seeds \subseteq T, Closed(T)'
        PROVE  tainted \subseteq T /\ visited' \cup queue' \subseteq T
    <3>1. OneStep(T)' = OneStep(T)  BY <1>1, StepFixed
    <3>2. tainted \subseteq T /\ visited \cup queue \subseteq T
      BY <1>2, <2>1, <3>1 DEF IInv, Within, Closed
    <3>3. OneStep({s}) \subseteq OneStep(T)  BY <3>2 DEF OneStep
    <3>. QED  BY <1>2, <2>1, <3>1, <3>2, <3>3 DEF Closed
  <2>. QED  BY <1>1, <1>2, <1>3, <2>1 DEF Within
<1>. QED  BY <1>4, <1>5, <1>6, <1>7, <1>8 DEF IInv

LEMMA SearchDoneInv == ASSUME IInv, SearchDone PROVE IInv'
<1>1. Frame /\ AllSymbols' = AllSymbols  BY SymbolsFixed DEF SearchDone, Frame, tableVars
<1>2. /\ turn # NoSym /\ queue = {} /\ pass' = pass /\ turn' = NoSym
      /\ queue' = queue /\ visited' = visited
      /\ Derive(turn, visited \ {turn}, worklist)
  BY DEF SearchDone, tableVars
<1>3. visited \ {turn} \in SUBSET AllSymbols  BY DEF IInv, Typed
<1>4. /\ tainted' = tainted \cup (visited \ {turn})
      /\ worklist' = worklist \cup ((visited \ {turn}) \ tainted)
      /\ Seeds' = Seeds
      /\ \A p \in sources' : p[1] \in tainted'
  BY <1>1, <1>2, <1>3, DeriveFacts
<1>5. /\ turn \in tainted /\ turn \in visited
      /\ \A s \in visited : OneStep({s}) \subseteq visited
  BY <1>2 DEF IInv, Searched
<1>6. visited \subseteq tainted'  BY <1>4, <1>5
<1>7. Typed'  BY <1>1, <1>2, <1>3, <1>4 DEF IInv, Typed
<1>8. Idle'  BY <1>2 DEF IInv, Idle, Before0
<1>9. Served'
  <2>1. ASSUME NEW s \in tainted' PROVE s \in worklist' \/ OneStep({s})' \subseteq tainted'
    <3>1. OneStep({s})' = OneStep({s})  BY <1>1, StepFixed
    <3>2. CASE s \in visited  BY <1>5, <1>6, <3>1, <3>2
    <3>3. CASE s \notin visited
      <4>1. s \in tainted /\ s # turn  BY <1>4, <1>5, <2>1, <3>3
      <4>. QED  BY <1>4, <3>1, <4>1 DEF IInv, Served
    <3>. QED  BY <3>2, <3>3
  <2>. QED  BY <2>1 DEF Served
<1>10. Searched'  BY <1>2 DEF Searched
<1>11. Within'
  <2>1. ASSUME NEW T \in SUBSET AllSymbols, Seeds \subseteq T, Closed(T)'
        PROVE  tainted' \subseteq T
    <3>1. OneStep(T)' = OneStep(T)  BY <1>1, StepFixed
    <3>2. tainted \subseteq T /\ visited \subseteq T
      BY <1>2, <2>1, <3>1 DEF IInv, Within, Closed
    <3>. QED  BY <1>4, <3>2
  <2>. QED  BY <1>1, <1>2, <1>4, <2>1 DEF Within
<1>. QED  BY <1>7, <1>8, <1>9, <1>10, <1>11 DEF IInv

-----------------------------------------------------------------------------
LEMMA StepInv == ASSUME IInv, [Next]_vars PROVE IInv'
<1>1. CASE Build  BY <1>1, BuildInv
<1>2. CASE StartEngine  BY <1>2, StartInv
<1>3. CASE SeedHead  BY <1>3, SeedHeadInv
<1>4. CASE SeedStatement  BY <1>4, SeedStatementInv
<1>5. CASE SeedsDone \/ PropagateDone \/ SinkHead \/ SinkStatement \/ AnalyzeDone
  BY <1>5, StillInv
<1>6. ASSUME NEW s \in worklist, Propagate(s) \/ BeginSearch(s) PROVE IInv'
  BY <1>6, PropagateInv, BeginSearchInv
<1>7. ASSUME NEW s \in queue, Search(s) PROVE IInv'  BY <1>7, SearchInv
<1>8. CASE SearchDone  BY <1>8, SearchDoneInv
<1>9. CASE UNCHANGED vars
  <2>1. Frame /\ SetsFixed /\ pass' = pass
    BY <1>9 DEF vars, tableVars, engineVars, Frame, SetsFixed
  <2>2. Idle'  BY <2>1 DEF IInv, Idle, SetsFixed
  <2>. QED  BY <2>1, <2>2, Still
<1>. QED  BY <1>1, <1>2, <1>3, <1>4, <1>5, <1>6, <1>7, <1>8, <1>9 DEF Next

\* The loop invariant of propagate: IInv holds in every state, whatever the unit, the mode
\* and the order in which the worklist is served.
THEOREM LoopInvariant == Spec => []IInv
<1>1. Init => IInv  BY InitInv
<1>2. IInv /\ [Next]_vars => IInv'  BY StepInv
<1>. QED  BY <1>1, <1>2, PTL DEF Spec

\* When Engine.Analyze goes from propagate to checkSinks, taintMap holds the least set that
\* has the sources and that the relation does not lead out of.
THEOREM WorklistIsExact == Spec => []TaintIsLeastFixpoint
<1>1. ASSUME IInv, Settled PROVE TaintIsLeastFixpoint
  <2>1. worklist = {} /\ turn = NoSym /\ tainted \subseteq AllSymbols
    BY <1>1 DEF Settled, IInv, Idle, Typed
  <2>2. Seeds \subseteq tainted  BY <1>1 DEF Seeds, IInv, Typed
  <2>3. Closed(tainted)
    <3>1. ASSUME NEW s \in tainted PROVE OneStep({s}) \subseteq tainted
      BY <1>1, <2>1, <3>1, NoSymNotDeclared DEF IInv, Served
    <3>2. OneStep(tainted) = UNION {OneStep({s}) : s \in tainted}  BY Union
    <3>. QED  BY <3>1, <3>2 DEF Closed
  <2>4. ASSUME NEW T \in SUBSET (tainted \ Seeds), Closed(Seeds \cup T)
        PROVE  tainted = Seeds \cup T
    <3>1. Seeds \cup T \in SUBSET AllSymbols  BY <2>1, <2>2
    <3>2. Seeds \subseteq Seeds \cup T  OBVIOUS
    <3>3. tainted \subseteq Seeds \cup T  BY <1>1, <2>4, <3>1, <3>2 DEF IInv, Within
    <3>. QED  BY <2>2, <3>3
  <2>. QED  BY <2>2, <2>3, <2>4 DEF TaintIsLeastFixpoint
<1>2. IInv => TaintIsLeastFixpoint  BY <1>1 DEF TaintIsLeastFixpoint
<1>. QED  BY <1>2, LoopInvariant, PTL
-----------------------------------------------------------------------------
(* Chains *)

\* Taint of a gets to b: in one step, or in the indexed mode in as many as a search takes.
Leads(a, b) ==
  /\ a # b
  /\ IF mode # "indexed" THEN Taints(a, b)
     ELSE \A T \in SUBSET AllSymbols : a \in T /\ Closed(T) => b \in T

Derivation(path) ==
  /\ path \in Seq(AllSymbols) /\ Len(path) > 0
  /\ path[1] \in Seeds
  /\ \A k \in 1..Len(path) - 1 : Leads(path[k], path[k + 1])

\* What a search has met is what its symbol leads to.
SearchWithin ==
  turn # NoSym =>
    /\ mode = "indexed"
    /\ \A T \in SUBSET AllSymbols : turn \in T /\ Closed(T) => visited \cup queue \subseteq T

ChainInv ==
  /\ pass \in Before0 => chains = {}
  /\ \A c \in chains : /\ c[1] \in AllSymbols /\ c[2] \in Seq(AllSymbols)
                       /\ Derivation(Append(c[2], c[1]))
  /\ \A v \in tainted : \E c \in chains : c[1] = v
  /\ SearchWithin

LEMMA ClosedFixed == ASSUME Frame, NEW T PROVE Closed(T)' <=> Closed(T)
BY StepFixed DEF Closed

LEMMA LeadsFixed == ASSUME Frame, NEW a, NEW b PROVE Leads(a, b)' <=> Leads(a, b)
<1>1. mode' = mode /\ AllSymbols' = AllSymbols  BY SymbolsFixed DEF Frame
<1>2. Taints(a, b)' <=> Taints(a, b)  BY RelationFixed
<1>3. ASSUME NEW T PROVE Closed(T)' <=> Closed(T)  BY ClosedFixed
<1>. QED  BY <1>1, <1>2, <1>3 DEF Leads

LEMMA DerivationStays ==
  ASSUME Frame, Seeds \subseteq Seeds', NEW path, Derivation(path)
  PROVE  Derivation(path)'
<1>1. AllSymbols' = AllSymbols  BY SymbolsFixed DEF Frame
<1>2. ASSUME NEW k \in 1..Len(path) - 1 PROVE Leads(path[k], path[k + 1])'
  <2>1. Leads(path[k], path[k + 1])  BY DEF Derivation
  <2>. QED  BY <2>1, LeadsFixed
<1>. QED  BY <1>1, <1>2 DEF Derivation

LEMMA DerivationGrows ==
  ASSUME NEW path, Derivation(path), NEW v \in AllSymbols, Leads(path[Len(path)], v)
  PROVE  Derivation(Append(path, v))
<1>. DEFINE longer == Append(path, v)
<1>1. path \in Seq(AllSymbols) /\ Len(path) \in Nat /\ Len(path) > 0  BY DEF Derivation
<1>2. /\ longer \in Seq(AllSymbols) /\ Len(longer) = Len(path) + 1
      /\ longer[Len(path) + 1] = v
      /\ \A k \in 1..Len(path) : longer[k] = path[k]
  BY <1>1
<1>3. longer[1] \in Seeds  BY <1>1, <1>2 DEF Derivation
<1>4. ASSUME NEW k \in 1..Len(longer) - 1 PROVE Leads(longer[k], longer[k + 1])
  <2>1. CASE k = Len(path)
    <3>1. longer[k] = path[Len(path)] /\ longer[k + 1] = v  BY <1>1, <1>2, <2>1
    <3>. QED  BY <3>1
  <2>2. CASE k # Len(path)
    <3>1. k \in 1..Len(path) - 1 /\ k + 1 \in 1..Len(path)  BY <1>1, <1>2, <1>4, <2>2
    <3>2. longer[k] = path[k] /\ longer[k + 1] = path[k + 1]  BY <1>2, <3>1
    <3>. QED  BY <3>1, <3>2 DEF Derivation
  <2>. QED  BY <2>1, <2>2
<1>. QED  BY <1>1, <1>2, <1>3, <1>4 DEF Derivation

\* Steps that leave the chains alone.
LEMMA ChainsStill ==
  ASSUME IInv, ChainInv, Frame, Seeds \subseteq Seeds', UNCHANGED <<chains, tainted>>,
         pass' \in Before0 => pass \in Before0, SearchWithin'
  PROVE  ChainInv'
<1>1. AllSymbols' = AllSymbols  BY SymbolsFixed DEF Frame
<1>2. ASSUME NEW c \in chains
      PROVE  /\ c[1] \in AllSymbols /\ c[2] \in Seq(AllSymbols)
             /\ Derivation(Append(c[2], c[1]))'
  BY DerivationStays DEF ChainInv
<1>3. \A c \in chains' : /\ c[1] \in AllSymbols' /\ c[2] \in Seq(AllSymbols')
                         /\ Derivation(Append(c[2], c[1]))'
  BY <1>1, <1>2
<1>. QED  BY <1>3 DEF ChainInv

LEMMA SearchStill ==
  ASSUME ChainInv, Frame, UNCHANGED <<turn, visited, queue>>
  PROVE  SearchWithin'
<1>1. AllSymbols' = AllSymbols /\ mode' = mode  BY SymbolsFixed DEF Frame
<1>. QED  BY <1>1, ClosedFixed DEF SearchWithin, ChainInv

\* Before the engine runs there are no chains and there is no search.
LEMMA NoChains ==
  ASSUME IInv, ChainInv, pass \in Before0, unit' = unit, SetsFixed, chains' = chains
  PROVE  ChainInv'
<1>1. chains = {} /\ tainted = {} /\ turn = NoSym  BY DEF ChainInv, IInv, Idle, Before0
<1>. QED  BY <1>1 DEF ChainInv, SearchWithin, SetsFixed

LEMMA SeedChains ==
  ASSUME IInv, ChainInv, pass = "seed", pass' = pass, Frame, UNCHANGED <<turn, queue, visited>>,
         NEW S \in SUBSET AllSymbols, NEW label, label # "derived", Seed(S, label)
  PROVE  ChainInv'
<1>1. AllSymbols' = AllSymbols  BY SymbolsFixed DEF Frame
<1>2. /\ tainted' = tainted \cup S
      /\ sources' = sources \cup (S \X {label})
      /\ chains' = chains \cup {<<s, <<>> >> : s \in S \ tainted}
  BY DEF Seed
<1>3. Seeds \subseteq Seeds'
  <2>1. sources \subseteq sources'  BY <1>2
  <2>. QED  BY <1>1, <2>1 DEF Seeds
<1>4. ASSUME NEW s \in S PROVE s \in Seeds'
  <2>1. <<s, label>> \in sources' /\ <<s, label>>[1] = s /\ <<s, label>>[2] # "derived"
    BY <1>2, <1>4
  <2>. QED  BY <1>1, <1>4, <2>1 DEF Seeds
<1>5. ASSUME NEW c \in chains'
      PROVE  /\ c[1] \in AllSymbols' /\ c[2] \in Seq(AllSymbols')
             /\ Derivation(Append(c[2], c[1]))'
  <2>1. CASE c \in chains
    <3>1. c[1] \in AllSymbols /\ c[2] \in Seq(AllSymbols) /\ Derivation(Append(c[2], c[1]))
      BY <2>1 DEF ChainInv
    <3>. QED  BY <1>1, <1>3, <3>1, DerivationStays
  <2>2. CASE c \notin chains
    <3>1. PICK s \in S \ tainted : c = <<s, <<>> >>  BY <1>2, <1>5, <2>2
    <3>2. c[1] = s /\ c[2] = <<>> /\ s \in AllSymbols' /\ s \in Seeds'  BY <1>1, <1>4, <3>1
    <3>3. Append(<<>>, s) = <<s>> /\ <<>> \in Seq(AllSymbols') /\ <<s>> \in Seq(AllSymbols')
      BY <3>2
    <3>4. Derivation(Append(<<>>, s))'  BY <3>2, <3>3 DEF Derivation
    <3>. QED  BY <3>2, <3>3, <3>4
  <2>. QED  BY <2>1, <2>2
<1>6. ASSUME NEW v \in tainted' PROVE \E c \in chains' : c[1] = v
  <2>1. CASE v \in tainted  BY <1>2, <2>1 DEF ChainInv
  <2>2. CASE v \notin tainted
    <3>1. <<v, <<>> >> \in chains' /\ <<v, <<>> >>[1] = v  BY <1>2, <1>6, <2>2
    <3>. QED  BY <3>1
  <2>. QED  BY <2>1, <2>2
<1>7. SearchWithin'  BY SearchStill
<1>. QED  BY <1>5, <1>6, <1>7 DEF ChainInv, Before0

LEMMA DeriveChains ==
  ASSUME IInv, ChainInv, pass = "propagate", pass' = pass, Frame, NEW src \in tainted,
         NEW S \in SUBSET AllSymbols, NEW left, Derive(src, S, left),
         \A v \in S : Leads(src, v), SearchWithin'
  PROVE  ChainInv'
<1>1. AllSymbols' = AllSymbols  BY SymbolsFixed DEF Frame
<1>2. tainted' = tainted \cup S /\ Seeds' = Seeds  BY DeriveFacts
<1>3. chains' = chains \cup ((S \ tainted) \X {Append(ChainOf(src), src)})  BY DEF Derive
<1>4. ChainOf(src) \in Seq(AllSymbols) /\ Derivation(Append(ChainOf(src), src))
  <2>1. \E c \in chains : c[1] = src  BY DEF ChainInv
  <2>2. PICK c \in chains : c[1] = src /\ ChainOf(src) = c[2]  BY <2>1 DEF ChainOf
  <2>. QED  BY <2>2 DEF ChainInv
<1>5. src \in AllSymbols  BY DEF IInv, Typed
<1>. DEFINE path == Append(ChainOf(src), src)
<1>6. path \in Seq(AllSymbols) /\ path[Len(path)] = src  BY <1>4, <1>5
<1>7. ASSUME NEW c \in chains'
      PROVE  /\ c[1] \in AllSymbols' /\ c[2] \in Seq(AllSymbols')
             /\ Derivation(Append(c[2], c[1]))'
  <2>1. CASE c \in chains
    <3>1. c[1] \in AllSymbols /\ c[2] \in Seq(AllSymbols) /\ Derivation(Append(c[2], c[1]))
      BY <2>1 DEF ChainInv
    <3>. QED  BY <1>1, <1>2, <3>1, DerivationStays
  <2>2. CASE c \notin chains
    <3>1. PICK v \in S \ tainted, p \in {path} : c = <<v, p>>  BY <1>3, <1>7, <2>2
    <3>2. c[1] = v /\ c[2] = p /\ p = path /\ v \in AllSymbols /\ Leads(src, v)  BY <3>1
    <3>3. Derivation(Append(p, v))  BY <1>4, <1>6, <3>2, DerivationGrows
    <3>4. Derivation(Append(p, v))'  BY <1>2, <3>3, DerivationStays
    <3>. QED  BY <1>1, <1>6, <3>2, <3>4
  <2>. QED  BY <2>1, <2>2
<1>8. ASSUME NEW v \in tainted' PROVE \E c \in chains' : c[1] = v
  <2>1. CASE v \in tainted  BY <1>3, <2>1 DEF ChainInv
  <2>2. CASE v \notin tainted
    <3>1. <<v, path>> \in chains' /\ <<v, path>>[1] = v  BY <1>2, <1>3, <1>8, <2>2
    <3>. QED  BY <3>1
  <2>. QED  BY <2>1, <2>2
<1>. QED  BY <1>7, <1>8 DEF ChainInv, Before0

LEMMA ChainStep == ASSUME IInv, ChainInv, [Next]_vars PROVE ChainInv'
<1>1. CASE Build
  <2>1. pass \in Before0 /\ unit' = unit /\ SetsFixed /\ chains' = chains
    BY <1>1 DEF Build, TableNext, EnterContract, EnterMember, Statement, BuildDone, TrackStorage,
           DetectReentrancy, Before0, SetsFixed, engineVars
  <2>. QED  BY <2>1, NoChains
<1>2. CASE StartEngine
  <2>1. pass \in Before0 /\ unit' = unit /\ SetsFixed /\ chains' = chains
    BY <1>2 DEF StartEngine, Before0, SetsFixed
  <2>. QED  BY <2>1, NoChains
<1>3. CASE SeedHead
  <2>1. pass = "seed" /\ pass' = pass /\ Frame /\ UNCHANGED <<turn, queue, visited>>
        /\ sources \subseteq sources'
    BY <1>3 DEF SeedHead, Frame, Seed
  <2>2. CASE UNCHANGED <<tainted, worklist, sources, chains>>
    <3>1. Seeds' = Seeds  BY <2>1, <2>2, SymbolsFixed DEF Seeds, Frame
    <3>. QED  BY <2>1, <2>2, <3>1, ChainsStill, SearchStill
  <2>3. CASE Seed(AllSymbols \cap {Param(at[1], at[2], x) : x \in Member(at).params}, "calldata")
    <3>1. AllSymbols \cap {Param(at[1], at[2], x) : x \in Member(at).params} \in SUBSET AllSymbols
      OBVIOUS
    <3>. QED  BY <2>1, <2>3, <3>1, SeedChains
  <2>. QED  BY <1>3, <2>2, <2>3 DEF SeedHead
<1>4. CASE SeedStatement
  <2>1. pass = "seed" /\ pass' = pass /\ Frame /\ UNCHANGED <<turn, queue, visited>>
    BY <1>4 DEF SeedStatement, Frame
  <2>2. CASE UNCHANGED <<tainted, worklist, sources, chains>>
    <3>1. Seeds' = Seeds  BY <2>1, <2>2, SymbolsFixed DEF Seeds, Frame
    <3>. QED  BY <2>1, <2>2, <3>1, ChainsStill, SearchStill
  <2>3. CASE HasSource(StmtAt(at)) /\ Seed(AllSymbols \cap {Local(at)}, StmtAt(at).source)
    <3>1. AllSymbols \cap {Local(at)} \in SUBSET AllSymbols /\ StmtAt(at).source # "derived"
      BY <2>3 DEF HasSource
    <3>. QED  BY <2>1, <2>3, <3>1, SeedChains
  <2>4. CASE HasSource(StmtAt(at)) /\ Seed(FindByName(StmtAt(at).target), StmtAt(at).source)
    <3>1. FindByName(StmtAt(at).target) \in SUBSET AllSymbols /\ StmtAt(at).source # "derived"
      BY <2>4 DEF HasSource, FindByName, Named
    <3>. QED  BY <2>1, <2>4, <3>1, SeedChains
  <2>. QED  BY <1>4, <2>2, <2>3, <2>4 DEF SeedStatement
<1>5. CASE SeedsDone \/ PropagateDone \/ SinkHead \/ SinkStatement \/ AnalyzeDone \/ UNCHANGED vars
  <2>1. Frame /\ SetsFixed /\ chains' = chains /\ (pass' \in Before0 => pass \in Before0)
    BY <1>5 DEF SeedsDone, PropagateDone, SinkHead, SinkStatement, AnalyzeDone, Frame, SetsFixed,
           engineVars, vars, tableVars, Before0
  <2>2. Seeds' = Seeds  BY <2>1, SymbolsFixed DEF Seeds, SetsFixed, Frame
  <2>. QED  BY <2>1, <2>2, ChainsStill, SearchStill DEF SetsFixed
<1>6. ASSUME NEW s \in worklist, Propagate(s) PROVE ChainInv'
  <2>1. Frame /\ pass = "propagate" /\ pass' = pass /\ mode # "indexed"
        /\ Derive(s, OneStep({s}), worklist \ {s}) /\ UNCHANGED <<turn, visited, queue>>
    BY <1>6 DEF Propagate, Frame, tableVars
  <2>2. s \in tainted /\ OneStep({s}) \in SUBSET AllSymbols  BY DEF IInv, Typed, OneStep
  <2>3. \A v \in OneStep({s}) : Leads(s, v)  BY <2>1 DEF OneStep, Leads, Taints
  <2>. QED  BY <2>1, <2>2, <2>3, SearchStill, DeriveChains
<1>7. ASSUME NEW s \in worklist, BeginSearch(s) PROVE ChainInv'
  <2>1. Frame /\ pass' = pass /\ mode = "indexed" /\ tainted' = tainted /\ chains' = chains
        /\ sources' = sources /\ turn' = s /\ queue' = {s} /\ visited' = {}
    BY <1>7 DEF BeginSearch, Frame, tableVars
  <2>2. Seeds' = Seeds  BY <2>1, SymbolsFixed DEF Seeds, Frame
  <2>3. SearchWithin'  BY <2>1 DEF SearchWithin, Frame
  <2>. QED  BY <2>1, <2>2, <2>3, ChainsStill
<1>8. ASSUME NEW s \in queue, Search(s) PROVE ChainInv'
  <2>1. /\ Frame /\ pass' = pass /\ tainted' = tainted /\ chains' = chains
        /\ sources' = sources /\ turn' = turn /\ turn # NoSym
        /\ visited' = visited \cup {s}
        /\ queue' = (queue \ {s}) \cup (OneStep({s}) \ visited')
    BY <1>8 DEF Search, Frame, tableVars
  <2>2. Seeds' = Seeds  BY <2>1, SymbolsFixed DEF Seeds, Frame
  <2>3. SearchWithin'
    <3>1. mode = "indexed" /\ mode' = mode /\ AllSymbols' = AllSymbols
      BY <2>1, SymbolsFixed DEF ChainInv, SearchWithin, Frame
    <3>2. ASSUME NEW T \in SUBSET AllSymbols, turn \in T, Closed(T)'
          PROVE  visited' \cup queue' \subseteq T
      <4>1. Closed(T)  BY <2>1, <3>2, ClosedFixed
      <4>2. visited \cup queue \subseteq T  BY <2>1, <3>2, <4>1 DEF ChainInv, SearchWithin
      <4>3. OneStep({s}) \subseteq OneStep(T)  BY <1>8, <4>2 DEF OneStep
      <4>. QED  BY <1>8, <2>1, <4>1, <4>2, <4>3 DEF Closed
    <3>. QED  BY <2>1, <3>1, <3>2 DEF SearchWithin
  <2>. QED  BY <2>1, <2>2, <2>3, ChainsStill
<1>9. CASE SearchDone
  <2>1. /\ Frame /\ pass' = pass /\ turn # NoSym /\ turn' = NoSym
        /\ Derive(turn, visited \ {turn}, worklist)
    BY <1>9 DEF SearchDone, Frame, tableVars
  <2>2. turn \in tainted /\ visited \ {turn} \in SUBSET AllSymbols /\ pass = "propagate"
    BY <2>1 DEF IInv, Typed, Searched, Idle
  <2>3. \A v \in visited \ {turn} : Leads(turn, v)
    BY <2>1 DEF ChainInv, SearchWithin, Leads
  <2>4. SearchWithin'  BY <2>1 DEF SearchWithin
  <2>. QED  BY <2>1, <2>2, <2>3, <2>4, DeriveChains
<1>. QED  BY <1>1, <1>2, <1>3, <1>4, <1>5, <1>6, <1>7, <1>8, <1>9 DEF Next

\* The PropagationChain of every TaintedValue is a way that taint takes: it starts at a
\* source, and each symbol taints the next one, or in OrderedPropagator is what a search
\* from it arrives at.
THEOREM ChainsDerive == Spec => []ChainsAreDerivations
<1>1. Init => ChainInv
  BY DEF Init, TableInit, EngineInit, ChainInv, SearchWithin
<1>2. IInv /\ ChainInv /\ [Next]_vars => ChainInv'  BY ChainStep
<1>3. ASSUME IInv, ChainInv PROVE ChainsAreDerivations
  <2>1. ASSUME NEW c \in chains
        PROVE  LET path == Append(c[2], c[1]) IN
          /\ path[1] \in Seeds
          /\ \A k \in 1..Len(path) - 1 :
               IF mode # "indexed" THEN Taints(path[k], path[k + 1])
               ELSE \A T \in SUBSET (tainted \ {path[k], path[k + 1]}) : ~Closed(T \cup {path[k]})
    <3>. DEFINE path == Append(c[2], c[1])
    <3>1. Derivation(path)  BY <1>3, <2>1 DEF ChainInv
    <3>. HIDE DEF path
    <3>2. ASSUME NEW k \in 1..Len(path) - 1, mode = "indexed",
                 NEW T \in SUBSET (tainted \ {path[k], path[k + 1]}), Closed(T \cup {path[k]})
          PROVE  FALSE
      <4>1. Leads(path[k], path[k + 1])  BY <3>1 DEF Derivation
      <4>2. path[k] \in AllSymbols
        <5>1. path \in Seq(AllSymbols) /\ k \in 1..Len(path)  BY <3>1, <3>2 DEF Derivation
        <5>. QED  BY <5>1
      <4>3. T \cup {path[k]} \in SUBSET AllSymbols  BY <1>3, <3>2, <4>2 DEF IInv, Typed
      <4>4. path[k + 1] \in T \cup {path[k]}  BY <3>2, <4>1, <4>3 DEF Leads
      <4>5. path[k + 1] # path[k]  BY <4>1 DEF Leads
      <4>. QED  BY <3>2, <4>4, <4>5
    <3>3. ASSUME NEW k \in 1..Len(path) - 1, mode # "indexed" PROVE Taints(path[k], path[k + 1])
      BY <3>1, <3>3 DEF Derivation, Leads
    <3>4. path[1] \in Seeds  BY <3>1 DEF Derivation
    <3>5. \A k \in 1..Len(path) - 1 :
            IF mode # "indexed" THEN Taints(path[k], path[k + 1])
            ELSE \A T \in SUBSET (tainted \ {path[k], path[k + 1]}) : ~Closed(T \cup {path[k]})
      BY <3>2, <3>3
    <3>. QED  BY <3>4, <3>5 DEF path
  <2>. QED  BY <2>1 DEF ChainsAreDerivations
<1>. QED  BY <1>1, <1>2, <1>3, LoopInvariant, PTL DEF Spec
-----------------------------------------------------------------------------
(* The table: what pass 2 of Build leaves, and what the detectors make of it *)

IsFirst(c, m) ==
  LET own == {k \in 1..Len(unit[c].members) : unit[c].members[k].function} IN
    m \in own /\ \A k \in own : m <= k

Passed(p) == p[1] < at[1] \/ Precedes(p, at)

\* A call that the write at p comes after, in the functions the walk takes for function m.
CallBefore(m, p) ==
  \E q \in Positions : q[1] = p[1] /\ m <= q[2] /\ PlainCall(StmtAt(q)) /\ Precedes(q, p)

InText == ~AtEnd /\ at[2] # 0

Placed ==
  /\ at \in Nat \X Nat \X Nat /\ at[1] >= 1
  /\ ~AtEnd => /\ at[2] <= Len(unit[at[1]].members)
               /\ at[2] = 0 => at[3] = 0
               /\ at[2] # 0 => at[3] <= Len(Member(at).body)

\* The walk is in the contract's first function once it has met that.
InFirst ==
  /\ scope \in Nat \X Nat
  /\ InText =>
       /\ scope[1] = at[1]
       /\ scope[2] = 0 => \A k \in 1..Len(unit[at[1]].members) :
                            unit[at[1]].members[k].function => k > at[2] \/ (k = at[2] /\ at[3] = 0)
       /\ scope[2] # 0 => IsFirst(at[1], scope[2]) /\ scope[2] <= at[2]

CallsSeen ==
  InText /\ scope[2] # 0 =>
    /\ called => CallBefore(scope[2], at)
    /\ \A i \in 1..at[3] - 1 : PlainCall(Member(at).body[i]) => called

WriteRight(u) ==
  /\ u.at \in Positions /\ Assigns(u.at)
  /\ u.scope = <<u.at[1], u.scope[2]>> /\ u.sym = Lookup(u.scope, Target(u.at)) /\ u.sym # NoSym
  /\ u.scope[2] # 0 => IsFirst(u.at[1], u.scope[2]) /\ u.scope[2] <= u.at[2]
  /\ u.after /\ u.scope[2] # 0 => CallBefore(u.scope[2], u.at)
  /\ u.after /\ IsStateVar(u.sym) => u.sym \in flagged

WritesRight == \A u \in uses : u.how = "write" => WriteRight(u)

\* The write at p is among the uses, under the contract's first function m.
Kept(p, m) ==
  LET sym == Lookup(<<p[1], m>>, Target(p)) IN
    sym # NoSym =>
      \E u \in uses : /\ u.how = "write" /\ u.at = p /\ u.scope = <<p[1], m>> /\ u.sym = sym
                      /\ (\E i \in 1..p[3] - 1 : PlainCall(Member(p).body[i])) => u.after

WritesKept ==
  \A p \in Positions : Passed(p) /\ Assigns(p) /\ Member(p).function =>
    \E m \in 1..p[2] : IsFirst(p[1], m) /\ Kept(p, m)

ReadersRight ==
  /\ pass # "resolve" => AtEnd
  /\ pass = "stored" =>
       /\ stored = {v.name : v \in {w \in AllSymbols : IsStateVar(w) /\
                                      \E u \in Writes(w) : Reachable(InFunction(u))}}
       /\ storedReads = {u \in uses : u.how = "read" /\ IsStateVar(u.sym) /\ u.sym.name \in stored}
  /\ pass = "built" =>
       reentrant = {r \in [var : flagged, in : Functions] :
                      /\ \E u \in Writes(r.var) : u.after /\ u.scope = r.in
                      /\ ~unit[r.in[1]].guard /\ ~HasModifier(r.in)}

TableInv ==
  /\ unit \in Units
  /\ pass \in Before0 => /\ Placed /\ InFirst /\ CallsSeen
                         /\ WritesRight /\ WritesKept /\ ReadersRight

-----------------------------------------------------------------------------
(* Types of the program's text *)

LEMMA ElementOf == ASSUME NEW S, NEW s \in Seq(S), NEW i \in 1..Len(s) PROVE s[i] \in S
OBVIOUS

LEMMA TextTypes ==
  ASSUME unit \in Units
  PROVE  /\ unit \in Seq(Contracts) /\ Len(unit) \in Nat
         /\ \A c \in 1..Len(unit) :
              /\ unit[c].members \in Seq(Members) /\ Len(unit[c].members) \in Nat
              /\ unit[c].vars \subseteq Names
              /\ unit[c].base \in Nat /\ unit[c].base < c
              /\ \A m \in 1..Len(unit[c].members) :
                   /\ unit[c].members[m].function \in BOOLEAN
                   /\ unit[c].members[m].params \subseteq Names
                   /\ unit[c].members[m].body \in Seq(Statements)
                   /\ Len(unit[c].members[m].body) \in Nat
                   /\ \A i \in 1..Len(unit[c].members[m].body) :
                        unit[c].members[m].body[i].kind \in Kinds
<1>1. unit \in Seq(Contracts)  BY UnitsAssumption
<1>2. ASSUME NEW c \in 1..Len(unit)
      PROVE  /\ unit[c].members \in Seq(Members) /\ unit[c].vars \subseteq Names
             /\ unit[c].base \in Nat /\ unit[c].base < c
  <2>1. unit[c] \in Contracts  BY <1>1, <1>2
  <2>2. unit[c].base < c  BY <1>2, UnitsAssumption
  <2>. QED  BY <2>1, <2>2 DEF Contracts
<1>3. ASSUME NEW c \in 1..Len(unit), NEW m \in 1..Len(unit[c].members)
      PROVE  /\ unit[c].members[m].function \in BOOLEAN
             /\ unit[c].members[m].params \subseteq Names
             /\ unit[c].members[m].body \in Seq(Statements)
  <2>1. unit[c].members[m] \in Members  BY <1>2, <1>3
  <2>. QED  BY <2>1 DEF Members
<1>4. ASSUME NEW c \in 1..Len(unit), NEW m \in 1..Len(unit[c].members),
             NEW i \in 1..Len(unit[c].members[m].body)
      PROVE  unit[c].members[m].body[i].kind \in Kinds
  <2>1. unit[c].members[m].body[i] \in Statements  BY ONLY <1>3, <1>4, ElementOf
  <2>. QED  BY <2>1 DEF Statements
<1>5. \A c \in 1..Len(unit) : Len(unit[c].members) \in Nat  BY <1>2
<1>6. \A c \in 1..Len(unit) : \A m \in 1..Len(unit[c].members) :
        Len(unit[c].members[m].body) \in Nat
  BY <1>3
<1>7. Len(unit) \in Nat  BY <1>1
<1>. QED  BY <1>1, <1>2, <1>3, <1>4, <1>5, <1>6, <1>7, Zenon

LEMMA PositionIs ==
  ASSUME NEW p
  PROVE  p \in Positions <=>
           \E c \in 1..Len(unit) : \E m \in 1..Len(unit[c].members) :
             \E i \in 1..Len(unit[c].members[m].body) : p = <<c, m, i>>
<1>. DEFINE Body(c, m) == {<<c, m, i>> : i \in 1..Len(unit[c].members[m].body)}
<1>1. Positions = UNION {UNION {Body(c, m) : m \in 1..Len(unit[c].members)} : c \in 1..Len(unit)}
  BY DEF Positions
<1>2. p \in Positions <=> \E c \in 1..Len(unit) : p \in UNION {Body(c, m) : m \in 1..Len(unit[c].members)}
  <2>. HIDE DEF Body
  <2>. QED  BY <1>1
<1>3. ASSUME NEW c
      PROVE  p \in UNION {Body(c, m) : m \in 1..Len(unit[c].members)}
               <=> \E m \in 1..Len(unit[c].members) : p \in Body(c, m)
  <2>. HIDE DEF Body
  <2>. QED  OBVIOUS
<1>4. ASSUME NEW c, NEW m
      PROVE  p \in Body(c, m) <=> \E i \in 1..Len(unit[c].members[m].body) : p = <<c, m, i>>
  OBVIOUS
<1>. HIDE DEF Body
<1>. QED  BY <1>2, <1>3, <1>4, Zenon

LEMMA PositionParts ==
  ASSUME unit \in Units, NEW p \in Positions
  PROVE  /\ p = <<p[1], p[2], p[3]>>
         /\ p[1] \in 1..Len(unit) /\ p[1] \in Nat /\ p[1] # 0
         /\ p[2] \in 1..Len(unit[p[1]].members) /\ p[2] \in Nat /\ p[2] # 0
         /\ p[3] \in 1..Len(Member(p).body) /\ p[3] \in Nat /\ p[3] # 0
<1>1. PICK c \in 1..Len(unit) : \E m \in 1..Len(unit[c].members) :
        \E i \in 1..Len(unit[c].members[m].body) : p = <<c, m, i>>
  BY ONLY p \in Positions, PositionIs
<1>2. PICK m \in 1..Len(unit[c].members) : \E i \in 1..Len(unit[c].members[m].body) : p = <<c, m, i>>
  BY <1>1
<1>3. PICK i \in 1..Len(unit[c].members[m].body) : p = <<c, m, i>>  BY <1>2
<1>. QED  BY <1>3 DEF Member

LEMMA FunctionIs ==
  ASSUME NEW f
  PROVE  f \in Functions <=>
           \E c \in 1..Len(unit) : \E m \in 1..Len(unit[c].members) :
             f = <<c, m>> /\ unit[c].members[m].function
BY DEF Functions

LEMMA FirstIs ==
  ASSUME unit \in Units, NEW c \in 1..Len(unit), NEW m, IsFirst(c, m)
  PROVE  FirstFunction(c) = m /\ m \in 1..Len(unit[c].members) /\ <<c, m>> \in Functions
<1>. DEFINE own == {k \in 1..Len(unit[c].members) : unit[c].members[k].function}
<1>1. m \in own /\ \A k \in own : m <= k  BY DEF IsFirst
<1>2. own \subseteq Nat  OBVIOUS
<1>3. FirstFunction(c) = CHOOSE n \in own : \A k \in own : n <= k
  BY <1>1 DEF FirstFunction
<1>4. ASSUME NEW n \in own, \A k \in own : n <= k PROVE n = m
  <2>1. n <= m /\ m <= n  BY <1>1, <1>4
  <2>2. n \in Nat /\ m \in Nat  BY <1>1, <1>2
  <2>. QED  BY ONLY <2>1, <2>2
<1>5. FirstFunction(c) = m
  <2>. HIDE DEF own
  <2>. QED  BY <1>1, <1>3, <1>4
<1>6. <<c, m>> \in Functions  BY <1>1 DEF Functions
<1>. QED  BY <1>1, <1>5, <1>6

-----------------------------------------------------------------------------
(* A step of the walk *)

LEMMA TextFixed ==
  ASSUME unit' = unit
  PROVE  /\ Positions' = Positions /\ Functions' = Functions /\ AllSymbols' = AllSymbols
         /\ \A p : Member(p)' = Member(p) /\ StmtAt(p)' = StmtAt(p)
         /\ \A p : (Assigns(p)' <=> Assigns(p)) /\ Target(p)' = Target(p)
         /\ \A s, x : Lookup(s, x)' = Lookup(s, x)
         /\ \A c, m : IsFirst(c, m)' <=> IsFirst(c, m)
         /\ \A m, p : CallBefore(m, p)' <=> CallBefore(m, p)
<1>1. Positions' = Positions /\ Functions' = Functions
  BY DEF Positions, Functions
<1>2. AllSymbols' = AllSymbols  BY SymbolsFixed
<1>3. \A p : Member(p)' = Member(p) /\ StmtAt(p)' = StmtAt(p)  BY DEF Member, StmtAt
<1>4. \A p : (Assigns(p)' <=> Assigns(p)) /\ Target(p)' = Target(p)  BY DEF Assigns, Target, Member, StmtAt
<1>5. \A s, x : Lookup(s, x)' = Lookup(s, x)  BY DEF Lookup, Member
<1>6. \A c, m : IsFirst(c, m)' <=> IsFirst(c, m)  BY DEF IsFirst
<1>7. \A m, p : CallBefore(m, p)' <=> CallBefore(m, p)
  BY <1>1, <1>3 DEF CallBefore
<1>. QED  BY <1>1, <1>2, <1>3, <1>4, <1>5, <1>6, <1>7

LEMMA WriteStays ==
  ASSUME unit' = unit, flagged \subseteq flagged', NEW u, WriteRight(u)
  PROVE  WriteRight(u)'
BY TextFixed DEF WriteRight

LEMMA KeptStays ==
  ASSUME unit' = unit, uses \subseteq uses', NEW p, NEW m, Kept(p, m)
  PROVE  Kept(p, m)'
<1>1. Lookup(<<p[1], m>>, Target(p))' = Lookup(<<p[1], m>>, Target(p)) /\ Member(p)' = Member(p)
  BY TextFixed
<1>. QED  BY <1>1 DEF Kept

LEMMA NextIs ==
  ASSUME unit \in Units, Placed, ~AtEnd
  PROVE  \/ at[2] # 0 /\ at[3] < Len(Member(at).body) /\ Next3(at) = <<at[1], at[2], at[3] + 1>>
         \/ at[2] < Len(unit[at[1]].members) /\ Next3(at) = <<at[1], at[2] + 1, 0>>
            /\ (at[2] # 0 => at[3] = Len(Member(at).body))
         \/ at[2] = Len(unit[at[1]].members) /\ Next3(at) = <<at[1] + 1, 0, 0>>
            /\ (at[2] # 0 => at[3] = Len(Member(at).body))
<1>1. at[1] \in 1..Len(unit) /\ at[2] \in Nat /\ at[3] \in Nat /\ Len(unit[at[1]].members) \in Nat
  BY TextTypes DEF Placed, AtEnd
<1>2. at[2] # 0 => Len(Member(at).body) \in Nat  BY <1>1, TextTypes DEF Placed, Member
<1>. QED  BY <1>1, <1>2 DEF Next3, Placed

LEMMA NextPlaced ==
  ASSUME unit \in Units, Placed, ~AtEnd, unit' = unit, at' = Next3(at)
  PROVE  Placed'
<1>1. at[1] \in 1..Len(unit) /\ at[2] \in Nat /\ at[3] \in Nat
  BY TextTypes DEF Placed, AtEnd
<1>2. \A c \in 1..Len(unit) : Len(unit[c].members) \in Nat
        /\ \A m \in 1..Len(unit[c].members) : Len(unit[c].members[m].body) \in Nat
  BY TextTypes
<1>3. CASE at[2] # 0 /\ at[3] < Len(Member(at).body) /\ at' = <<at[1], at[2], at[3] + 1>>
  BY <1>1, <1>2, <1>3 DEF Placed, AtEnd, Member
<1>4. CASE at[2] < Len(unit[at[1]].members) /\ at' = <<at[1], at[2] + 1, 0>>
  <2>1. PICK c \in 1..Len(unit), n \in Nat : c = at[1] /\ n = at[2] + 1 /\ n \in 1..Len(unit[c].members)
    BY <1>1, <1>2, <1>4
  <2>2. at' = <<c, n, 0>> /\ Len(unit[c].members[n].body) \in Nat  BY <1>2, <1>4, <2>1
  <2>3. at'[1] = c /\ at'[2] = n /\ at'[3] = 0 /\ c \in Nat /\ c >= 1  BY <2>2
  <2>4. Member(at)' = unit[c].members[n]  BY <2>3 DEF Member
  <2>. QED  BY <2>1, <2>2, <2>3, <2>4 DEF Placed, AtEnd
<1>5. CASE at' = <<at[1] + 1, 0, 0>>
  BY <1>1, <1>2, <1>5 DEF Placed, AtEnd, Member
<1>. QED  BY <1>3, <1>4, <1>5, NextIs

\* The step passes the position it is at and no other.
LEMMA NextPasses ==
  ASSUME unit \in Units, Placed, ~AtEnd, unit' = unit, at' = Next3(at), NEW p \in Positions,
         Passed(p)'
  PROVE  Passed(p) \/ (p = at /\ at[2] # 0 /\ at[3] # 0)
<1>1. PICK c \in 1..Len(unit), m \in Nat \ {0}, i \in Nat \ {0} :
        /\ p = <<c, m, i>> /\ m <= Len(unit[c].members) /\ i <= Len(Member(p).body)
  BY PositionParts
<1>2. PICK d \in Nat, n \in Nat, j \in Nat : at = <<d, n, j>>  BY DEF Placed
<1>3. p[1] = c /\ p[2] = m /\ p[3] = i /\ at[1] = d /\ at[2] = n /\ at[3] = j  BY <1>1, <1>2
<1>4. c \in Nat  OBVIOUS
<1>5. CASE at' = <<at[1], at[2], at[3] + 1>> /\ at[2] # 0
  <2>1. at'[1] = d /\ at'[2] = n /\ at'[3] = j + 1 /\ n # 0  BY <1>3, <1>5
  <2>2. c < d \/ (c = d /\ (m < n \/ (m = n /\ i < j + 1)))
    BY <1>3, <2>1 DEF Passed, Precedes
  <2>3. c < d \/ (c = d /\ (m < n \/ (m = n /\ i < j))) \/ (c = d /\ m = n /\ i = j)
    BY ONLY <2>2, <1>2, <1>1, <1>4
  <2>. QED  BY <1>1, <1>2, <1>3, <2>1, <2>3 DEF Passed, Precedes
<1>6. CASE at' = <<at[1], at[2] + 1, 0>> /\ (at[2] # 0 => at[3] = Len(Member(at).body))
  <2>1. at'[1] = d /\ at'[2] = n + 1 /\ at'[3] = 0  BY <1>3, <1>6
  <2>2. c < d \/ (c = d /\ (m < n + 1 \/ (m = n + 1 /\ i < 0)))
    BY <1>3, <2>1 DEF Passed, Precedes
  <2>3. c = d /\ m = n => Member(at) = Member(p)  BY <1>3 DEF Member
  <2>4. c = d /\ m = n => i <= j  BY <1>1, <1>3, <1>6, <2>3
  <2>5. c < d \/ (c = d /\ (m < n \/ (m = n /\ i < j))) \/ (c = d /\ m = n /\ i = j)
    BY ONLY <2>2, <2>4, <1>2, <1>1, <1>4
  <2>. QED  BY <1>1, <1>2, <1>3, <2>5 DEF Passed, Precedes
<1>7. CASE at' = <<at[1] + 1, 0, 0>> /\ at[2] = Len(unit[at[1]].members)
           /\ (at[2] # 0 => at[3] = Len(Member(at).body))
  <2>1. at'[1] = d + 1 /\ at'[2] = 0 /\ at'[3] = 0  BY <1>3, <1>7
  <2>2. c < d + 1 \/ (c = d + 1 /\ (m < 0 \/ (m = 0 /\ i < 0)))
    BY <1>3, <2>1 DEF Passed, Precedes
  <2>3. c = d /\ m = n => Member(at) = Member(p)  BY <1>3 DEF Member
  <2>4. c = d /\ m = n => i <= j  BY <1>1, <1>3, <1>7, <2>3
  <2>5. c = d => m <= n  BY <1>1, <1>3, <1>7
  <2>6. c < d \/ (c = d /\ (m < n \/ (m = n /\ i < j))) \/ (c = d /\ m = n /\ i = j)
    BY ONLY <2>2, <2>4, <2>5, <1>2, <1>1, <1>4
  <2>. QED  BY <1>1, <1>2, <1>3, <2>6 DEF Passed, Precedes
<1>. QED  BY <1>5, <1>6, <1>7, NextIs

LEMMA PrecedesGrows ==
  ASSUME unit \in Units, Placed, ~AtEnd, NEW q \in Positions, Next3(at)[1] = at[1]
  PROVE  /\ Precedes(q, at) => Precedes(q, Next3(at))
         /\ at[3] # 0 => Precedes(at, Next3(at))
<1>1. PICK d \in Nat, n \in Nat, j \in Nat : at = <<d, n, j>>  BY DEF Placed
<1>2. q[1] \in Nat /\ q[2] \in Nat /\ q[3] \in Nat  BY PositionParts
<1>3. CASE Next3(at) = <<at[1], at[2], at[3] + 1>>
  BY <1>1, <1>2, <1>3 DEF Precedes
<1>4. CASE Next3(at) = <<at[1], at[2] + 1, 0>>
  BY <1>1, <1>2, <1>4 DEF Precedes
<1>5. CASE Next3(at) = <<at[1] + 1, 0, 0>>
  BY <1>1, <1>5
<1>. QED  BY <1>3, <1>4, <1>5, NextIs

LEMMA CallsGrow ==
  ASSUME unit \in Units, Placed, ~AtEnd, NEW m, CallBefore(m, at), Next3(at)[1] = at[1]
  PROVE  CallBefore(m, Next3(at))
<1>1. PICK q \in Positions : q[1] = at[1] /\ m <= q[2] /\ PlainCall(StmtAt(q)) /\ Precedes(q, at)
  BY DEF CallBefore
<1>2. Precedes(q, Next3(at))  BY <1>1, PrecedesGrows
<1>. QED  BY <1>1, <1>2 DEF CallBefore

\* Heads are no uses.
LEMMA HeadKeeps ==
  ASSUME unit \in Units, Placed, ~AtEnd, at[2] = 0 \/ at[3] = 0, WritesRight, WritesKept,
         unit' = unit, uses' = uses, flagged' = flagged, at' = Next3(at)
  PROVE  WritesRight' /\ WritesKept'
<1>1. WritesRight'  BY WriteStays DEF WritesRight
<1>2. ASSUME NEW p \in Positions, Passed(p)', Assigns(p), Member(p).function
      PROVE  \E m \in 1..p[2] : IsFirst(p[1], m)' /\ Kept(p, m)'
  <2>1. Passed(p)  BY <1>2, NextPasses
  <2>2. PICK m \in 1..p[2] : IsFirst(p[1], m) /\ Kept(p, m)  BY <1>2, <2>1 DEF WritesKept
  <2>. QED  BY <2>2, TextFixed, KeptStays
<1>3. \A p \in Positions' : Passed(p)' /\ Assigns(p)' /\ Member(p)'.function =>
        \E m \in 1..p[2] : IsFirst(p[1], m)' /\ Kept(p, m)'
  BY <1>2, TextFixed
<1>. QED  BY <1>1, <1>3 DEF WritesKept

LEMMA EnterContractInv ==
  ASSUME unit \in Units, Placed, WritesRight, WritesKept, EnterContract
  PROVE  (Placed /\ InFirst /\ CallsSeen /\ WritesRight /\ WritesKept)'
<1>1. /\ ~AtEnd /\ at[2] = 0 /\ scope' = <<at[1], 0>> /\ at' = Next3(at)
      /\ unit' = unit /\ uses' = uses /\ flagged' = flagged
  BY DEF EnterContract
<1>2. Placed'  BY <1>1, NextPlaced
<1>3. InFirst'
  <2>1. at[1] \in Nat /\ at[2] \in Nat /\ at[3] \in Nat  BY DEF Placed
  <2>2. scope'[1] = at[1] /\ scope'[2] = 0 /\ scope' \in Nat \X Nat  BY <1>1, <2>1
  <2>3. CASE Next3(at) = <<at[1], at[2] + 1, 0>>  BY <1>1, <2>1, <2>2, <2>3 DEF InFirst, InText
  <2>4. CASE Next3(at) = <<at[1] + 1, 0, 0>>  BY <1>1, <2>1, <2>2, <2>4 DEF InFirst, InText
  <2>. QED  BY <1>1, <2>3, <2>4, NextIs
<1>4. CallsSeen'  BY <1>1 DEF CallsSeen
<1>. QED  BY <1>1, <1>2, <1>3, <1>4, HeadKeeps

LEMMA EnterMemberInv ==
  ASSUME unit \in Units, Placed, InFirst, CallsSeen, WritesRight, WritesKept, EnterMember
  PROVE  (Placed /\ InFirst /\ CallsSeen /\ WritesRight /\ WritesKept)'
<1>1. /\ ~AtEnd /\ at[2] # 0 /\ at[3] = 0 /\ at' = Next3(at)
      /\ unit' = unit /\ uses' = uses /\ flagged' = flagged
  BY DEF EnterMember
<1>2. PICK a \in Nat, b \in Nat : /\ at = <<a, b, 0>> /\ at[1] = a /\ at[2] = b /\ at[3] = 0
                                  /\ b # 0 /\ b <= Len(unit[a].members) /\ a \in 1..Len(unit)
  BY <1>1, TextTypes DEF Placed, AtEnd
<1>3. Placed'  BY <1>1, NextPlaced
<1>4. InText /\ InText' => at'[1] = a /\ at'[2] \in {b, b + 1} /\ at'[3] \in {0, 1}
                           /\ (at'[2] = b => at'[3] = 1) /\ (at'[3] = 1 => at'[2] = b)
  BY <1>1, <1>2, NextIs DEF InText
<1>5. InText  BY <1>1 DEF InText
<1>6. Len(unit[a].members) \in Nat /\ b \in 1..Len(unit[a].members)  BY <1>2, TextTypes
<1>7. CASE scope[2] = 0 /\ Member(at).function
  <2>1. scope' = <<a, b>> /\ called' = FALSE /\ scope'[1] = a /\ scope'[2] = b
    BY <1>2, <1>7 DEF EnterMember
  <2>2. unit[a].members[b].function  BY <1>2, <1>7 DEF Member
  <2>3. \A k \in 1..Len(unit[a].members) : unit[a].members[k].function => b <= k
    BY <1>2, <1>5, <1>6, <1>7 DEF InFirst
  <2>4. IsFirst(a, b)  BY <1>6, <2>2, <2>3 DEF IsFirst
  <2>5. IsFirst(a, b)'  BY <1>1, <2>4, TextFixed
  <2>6. InFirst'  BY <1>2, <1>4, <1>5, <2>1, <2>5 DEF InFirst
  <2>7. CallsSeen'  BY <1>4, <1>5, <2>1 DEF CallsSeen
  <2>. QED  BY <1>1, <1>3, <2>6, <2>7, HeadKeeps
<1>8. CASE ~(scope[2] = 0 /\ Member(at).function)
  <2>1. scope' = scope /\ called' = called  BY <1>8 DEF EnterMember
  <2>2. InFirst'
    <3>1. ASSUME InText', scope[2] = 0, NEW k \in 1..Len(unit[a].members), unit[a].members[k].function
          PROVE  k > at'[2] \/ (k = at'[2] /\ at'[3] = 0)
      <4>1. k > b \/ k = b  BY <1>2, <1>5, <3>1 DEF InFirst
      <4>2. k # b  BY <1>2, <1>8, <3>1 DEF Member
      <4>. QED  BY <1>2, <1>4, <1>5, <3>1, <4>1, <4>2
    <3>2. ASSUME InText', scope[2] # 0 PROVE IsFirst(a, scope[2])' /\ scope[2] <= at'[2]
      <4>1. IsFirst(a, scope[2]) /\ scope[2] <= b /\ scope[2] \in Nat
        BY <1>2, <1>5, <3>2 DEF InFirst
      <4>2. IsFirst(a, scope[2])'  BY <1>1, <2>1, <4>1, TextFixed DEF IsFirst
      <4>. QED  BY <1>2, <1>4, <1>5, <3>2, <4>1, <4>2
    <3>3. scope[1] = a /\ scope \in Nat \X Nat  BY <1>2, <1>5 DEF InFirst
    <3>. QED  BY <1>1, <1>2, <1>4, <1>5, <2>1, <3>1, <3>2, <3>3 DEF InFirst
  <2>3. CallsSeen'
    <3>1. ASSUME InText', scope[2] # 0, called PROVE CallBefore(scope[2], at)'
      <4>1. CallBefore(scope[2], at)  BY <1>5, <3>1 DEF CallsSeen
      <4>2. CallBefore(scope[2], Next3(at))  BY <1>1, <1>2, <1>4, <1>5, <3>1, <4>1, CallsGrow
      <4>3. CallBefore(scope[2], at')  BY <1>1, <4>2
      <4>. QED  BY <1>1, <2>1, <4>3, TextFixed DEF CallBefore
    <3>. QED  BY <1>4, <1>5, <2>1, <3>1 DEF CallsSeen
  <2>. QED  BY <1>1, <1>3, <2>2, <2>3, HeadKeeps
<1>. QED  BY <1>7, <1>8

LEMMA StatementInv ==
  ASSUME unit \in Units, Placed, InFirst, CallsSeen, WritesRight, WritesKept, Statement
  PROVE  (Placed /\ InFirst /\ CallsSeen /\ WritesRight /\ WritesKept)'
<1>. DEFINE s == StmtAt(at)
            sym == Lookup(scope, s.target)
            after == called \/ SeesCall(s)
<1>1. /\ ~AtEnd /\ at[3] # 0 /\ at' = Next3(at)
      /\ unit' = unit /\ scope' = scope /\ called' = after
      /\ uses' = uses \cup {Use(v, "write", after) : v \in Written(s)}
                      \cup {Use(v, "read", after) : v \in Read(s)}
      /\ flagged' = flagged \cup {v \in Written(s) : IsStateVar(v) /\ after}
  BY DEF Statement
<1>2. PICK a \in 1..Len(unit), b \in Nat, j \in Nat :
        /\ at = <<a, b, j>> /\ at[1] = a /\ at[2] = b /\ at[3] = j
        /\ b # 0 /\ b <= Len(unit[a].members) /\ j # 0 /\ j <= Len(Member(at).body)
  BY <1>1, TextTypes DEF Placed, AtEnd
<1>3. /\ b \in 1..Len(unit[a].members) /\ Member(at) = unit[a].members[b]
      /\ Len(Member(at).body) \in Nat /\ j \in 1..Len(Member(at).body)
      /\ s = Member(at).body[j]
  BY <1>2, TextTypes DEF Member, StmtAt
<1>4. at \in Positions  BY <1>2, <1>3, PositionIs
<1>5. s.kind \in Kinds  BY <1>3, TextTypes
<1>6. InText /\ scope = <<a, scope[2]>> /\ scope[2] \in Nat
  BY <1>1, <1>2 DEF InText, InFirst
<1>7. Placed'  BY <1>1, NextPlaced
<1>8. InText' => /\ at'[1] = a /\ at'[2] \in {b, b + 1} /\ at'[3] \in {0, j + 1}
                 /\ (at'[3] # 0 => at'[2] = b)
  BY <1>1, <1>2, NextIs DEF InText
<1>9. scope[2] = 0 => \A k \in 1..Len(unit[a].members) : unit[a].members[k].function => k > b
  BY <1>2, <1>6 DEF InFirst
<1>10. scope[2] # 0 => IsFirst(a, scope[2]) /\ scope[2] <= b
  BY <1>2, <1>6 DEF InFirst
<1>11. InFirst'
  <2>1. ASSUME InText', scope[2] = 0, NEW k \in 1..Len(unit[a].members), unit[a].members[k].function
        PROVE  k > at'[2] \/ (k = at'[2] /\ at'[3] = 0)
    <3>1. k > b /\ k \in Nat  BY <1>9, <2>1
    <3>. QED  BY <1>2, <1>8, <2>1, <3>1
  <2>2. ASSUME InText', scope[2] # 0 PROVE IsFirst(a, scope[2])' /\ scope[2] <= at'[2]
    <3>1. IsFirst(a, scope[2])'  BY <1>1, <1>10, <2>2, TextFixed DEF IsFirst
    <3>. QED  BY <1>2, <1>6, <1>8, <1>10, <2>2, <3>1
  <2>3. scope' \in Nat \X Nat /\ scope'[1] = a  BY <1>1, <1>6
  <2>. QED  BY <1>1, <1>8, <2>1, <2>2, <2>3 DEF InFirst
<1>12. CallsSeen'
  <2>1. ASSUME InText', scope[2] # 0, after PROVE CallBefore(scope[2], at)'
    <3>1. Next3(at)[1] = at[1]  BY <1>1, <1>2, <1>8, <2>1
    <3>2. CASE called
      <4>1. CallBefore(scope[2], at)  BY <1>6, <2>1, <3>2 DEF CallsSeen
      <4>2. CallBefore(scope[2], Next3(at))  BY <1>1, <3>1, <4>1, CallsGrow
      <4>. QED  BY <1>1, <4>2, TextFixed DEF CallBefore
    <3>3. CASE SeesCall(s)
      <4>1. PlainCall(s)  BY <3>3 DEF SeesCall, PlainCall
      <4>2. Precedes(at, Next3(at))  BY <1>1, <1>4, <3>1, PrecedesGrows
      <4>3. CallBefore(scope[2], Next3(at))
        BY <1>2, <1>4, <1>10, <2>1, <3>1, <4>1, <4>2 DEF CallBefore
      <4>. QED  BY <1>1, <4>3, TextFixed DEF CallBefore
    <3>. QED  BY <2>1, <3>2, <3>3
  <2>2. ASSUME InText', scope[2] # 0, NEW i \in 1..at'[3] - 1, PlainCall(Member(at)'.body[i])
        PROVE  after
    <3>1. at'[3] = j + 1 /\ at'[2] = b /\ at'[1] = a  BY <1>2, <1>8, <2>2
    <3>2. Member(at)' = Member(at)  BY <1>1, <1>3, <3>1 DEF Member
    <3>3. i \in 1..j - 1 \/ i = j  BY <1>2, <2>2, <3>1
    <3>4. CASE i \in 1..j - 1  BY <1>2, <1>6, <2>2, <3>2, <3>4 DEF CallsSeen
    <3>5. CASE i = j
      <4>1. PlainCall(s)  BY <1>3, <2>2, <3>2, <3>5
      <4>2. SeesCall(s)  BY <1>5, <4>1 DEF SeesCall, PlainCall, Kinds
      <4>. QED  BY <4>2
    <3>. QED  BY <3>3, <3>4, <3>5
  <2>. QED  BY <1>1, <2>1, <2>2 DEF CallsSeen
<1>13. WritesRight'
  <2>1. ASSUME NEW u \in uses', u.how = "write" PROVE WriteRight(u)'
    <3>1. CASE u \in uses
      <4>1. WriteRight(u)  BY <2>1, <3>1 DEF WritesRight
      <4>. QED  BY <1>1, <4>1, WriteStays
    <3>2. CASE u \in {Use(v, "write", after) : v \in Written(s)}
      <4>1. PICK v \in Written(s) : u = Use(v, "write", after)  BY <3>2
      <4>2. s.kind = "assign" /\ v = sym /\ sym # NoSym  BY <4>1 DEF Written
      <4>3. u.at = at /\ u.scope = scope /\ u.sym = sym /\ u.after = after  BY <4>1, <4>2 DEF Use
      <4>4. after => called  BY <4>2 DEF SeesCall
      <4>5. Assigns(at) /\ Target(at) = s.target  BY <4>2 DEF Assigns, Target
      <4>6. after /\ scope[2] # 0 => CallBefore(scope[2], at)  BY <1>6, <4>4 DEF CallsSeen
      <4>7. after /\ IsStateVar(sym) => sym \in flagged'  BY <1>1, <4>1, <4>2
      <4>. HIDE DEF s, sym, after
      <4>8. /\ Assigns(at) /\ scope = <<at[1], scope[2]>> /\ sym # NoSym
            /\ sym = Lookup(scope, Target(at))
            /\ scope[2] # 0 => IsFirst(at[1], scope[2]) /\ scope[2] <= at[2]
        BY <1>1, <1>2, <1>4, <1>6, <1>10, <4>2, <4>5, TextFixed DEF sym
      <4>9. PICK q, z, f : q = at /\ z = scope /\ f = flagged'  OBVIOUS
      <4>10. /\ q \in Positions' /\ Assigns(q)' /\ z = <<q[1], z[2]>>
             /\ u.sym = Lookup(z, Target(q))' /\ u.sym # NoSym
             /\ z[2] # 0 => IsFirst(q[1], z[2])' /\ z[2] <= q[2]
             /\ u.after /\ z[2] # 0 => CallBefore(z[2], q)'
             /\ u.after /\ IsStateVar(u.sym) => u.sym \in flagged'
             /\ u.at = q /\ u.scope = z
        <5>1. Lookup(z, Target(q))' = Lookup(z, Target(q))
          <6>1. Target(q)' = Target(q)  BY <1>1, TextFixed
          <6>. QED  BY <1>1, <6>1, TextFixed
        <5>2. (Assigns(q)' <=> Assigns(q)) /\ Positions' = Positions
              /\ (IsFirst(q[1], z[2])' <=> IsFirst(q[1], z[2]))
              /\ (CallBefore(z[2], q)' <=> CallBefore(z[2], q))
          BY <1>1, TextFixed
        <5>. QED  BY <1>4, <4>3, <4>6, <4>7, <4>8, <4>9, <5>1, <5>2
      <4>. QED  BY <4>10 DEF WriteRight
    <3>3. u \notin {Use(v, "read", after) : v \in Read(s)}  BY <2>1 DEF Use
    <3>. QED  BY <1>1, <2>1, <3>1, <3>2, <3>3
  <2>. QED  BY <2>1 DEF WritesRight
<1>14. WritesKept'
  <2>1. ASSUME NEW p \in Positions, Passed(p)', Assigns(p), Member(p).function
        PROVE  \E m \in 1..p[2] : IsFirst(p[1], m)' /\ Kept(p, m)'
    <3>1. CASE Passed(p)
      <4>1. PICK m \in 1..p[2] : IsFirst(p[1], m) /\ Kept(p, m)  BY <2>1, <3>1 DEF WritesKept
      <4>2. uses \subseteq uses'  BY <1>1
      <4>. QED  BY <1>1, <4>1, <4>2, TextFixed, KeptStays
    <3>2. CASE p = at
      <4>1. scope[2] # 0
        <5>1. unit[a].members[b].function  BY <1>3, <2>1, <3>2
        <5>. QED  BY <1>2, <1>3, <1>9, <5>1
      <4>2. scope[2] \in 1..p[2] /\ IsFirst(p[1], scope[2])  BY <1>2, <1>6, <1>10, <3>2, <4>1
      <4>3. PICK m : m = scope[2]  OBVIOUS
      <4>4. Kept(p, m)'
        <5>1. Lookup(<<p[1], m>>, Target(p))' = sym /\ Member(p)' = Member(p)
          <6>1. <<p[1], m>> = scope /\ Target(p) = s.target  BY <1>2, <1>6, <3>2, <4>3 DEF Target
          <6>2. Target(p)' = Target(p) /\ Member(p)' = Member(p)  BY <1>1, TextFixed
          <6>. QED  BY <1>1, <6>1, <6>2, TextFixed
        <5>2. ASSUME sym # NoSym
              PROVE  \E u \in uses' : /\ u.how = "write" /\ u.at = p /\ u.scope = <<p[1], m>> /\ u.sym = sym
                                      /\ (\E i \in 1..p[3] - 1 : PlainCall(Member(p).body[i])) => u.after
          <6>1. sym \in Written(s)  BY <2>1, <3>2, <5>2 DEF Written, Assigns
          <6>2. Use(sym, "write", after) \in uses'  BY <1>1, <6>1
          <6>3. (\E i \in 1..p[3] - 1 : PlainCall(Member(p).body[i])) => after
            BY <1>2, <1>6, <3>2, <4>1 DEF CallsSeen
          <6>4. <<p[1], m>> = scope  BY <1>2, <1>6, <3>2, <4>3
          <6>. WITNESS Use(sym, "write", after) \in uses'
          <6>. QED  BY <3>2, <6>3, <6>4 DEF Use
        <5>. QED  BY <5>1, <5>2 DEF Kept
      <4>. QED  BY <1>1, <4>2, <4>3, <4>4, TextFixed
    <3>. QED  BY <1>1, <2>1, <3>1, <3>2, NextPasses
  <2>2. \A p \in Positions' : Passed(p)' /\ Assigns(p)' /\ Member(p)'.function =>
          \E m \in 1..p[2] : IsFirst(p[1], m)' /\ Kept(p, m)'
    BY <1>1, <2>1, TextFixed
  <2>. QED  BY <2>2 DEF WritesKept
<1>. QED  BY <1>7, <1>11, <1>12, <1>13, <1>14

\* The walk is over, and what it has found stays.
LEMMA WalkOver ==
  ASSUME Placed, InFirst, CallsSeen, WritesRight, WritesKept,
         UNCHANGED <<unit, at, scope, called, uses, flagged>>
  PROVE  (Placed /\ InFirst /\ CallsSeen /\ WritesRight /\ WritesKept)'
<1>1. Placed'  BY DEF Placed, AtEnd, Member
<1>2. InFirst'  BY DEF InFirst, InText, AtEnd, IsFirst
<1>3. CallsSeen'
  <2>1. CallBefore(scope[2], at)' <=> CallBefore(scope[2], at)  BY TextFixed DEF CallBefore
  <2>. QED  BY <2>1 DEF CallsSeen, InText, AtEnd, Member
<1>4. WritesRight'  BY WriteStays DEF WritesRight
<1>5. ASSUME NEW p \in Positions, Passed(p), Assigns(p), Member(p).function
      PROVE  \E m \in 1..p[2] : IsFirst(p[1], m)' /\ Kept(p, m)'
  <2>1. PICK m \in 1..p[2] : IsFirst(p[1], m) /\ Kept(p, m)  BY <1>5 DEF WritesKept
  <2>. QED  BY <2>1, TextFixed, KeptStays
<1>6. \A p \in Positions' : Passed(p)' /\ Assigns(p)' /\ Member(p)'.function =>
        \E m \in 1..p[2] : IsFirst(p[1], m)' /\ Kept(p, m)'
  BY <1>5, TextFixed DEF Passed, Precedes
<1>. QED  BY <1>1, <1>2, <1>3, <1>4, <1>6 DEF WritesKept

LEMMA TableInit0 == Init => TableInv
<1>1. ASSUME Init PROVE TableInv
  <2>1. /\ unit \in Units /\ pass = "resolve" /\ at = <<1, 0, 0>> /\ scope = <<0, 0>> /\ uses = {}
    BY <1>1 DEF Init, TableInit, First
  <2>2. Placed
    <3>1. at[1] = 1 /\ at[2] = 0 /\ at[3] = 0  BY <2>1
    <3>2. ~AtEnd => Len(unit[1].members) \in Nat  BY <2>1, <3>1, TextTypes DEF AtEnd
    <3>. QED  BY <2>1, <3>1, <3>2 DEF Placed
  <2>3. InFirst /\ CallsSeen  BY <2>1 DEF InFirst, CallsSeen, InText
  <2>4. ASSUME NEW p \in Positions PROVE ~Passed(p)
    BY <2>1, PositionParts DEF Passed, Precedes
  <2>. QED  BY <2>1, <2>2, <2>3, <2>4 DEF TableInv, WritesRight, WritesKept, ReadersRight
<1>. QED  BY <1>1

LEMMA TableStep == ASSUME IInv, TableInv, [Next]_vars PROVE TableInv'
<1>. DEFINE Walk == Placed /\ InFirst /\ CallsSeen /\ WritesRight /\ WritesKept
<1>1. CASE EnterContract \/ EnterMember \/ Statement
  <2>1. pass = "resolve" /\ pass' = "resolve" /\ unit' = unit
    BY <1>1 DEF EnterContract, EnterMember, Statement
  <2>2. unit \in Units /\ Walk  BY <2>1 DEF TableInv, Before0
  <2>3. Walk'  BY <1>1, <2>2, EnterContractInv, EnterMemberInv, StatementInv
  <2>4. ReadersRight'  BY <2>1 DEF ReadersRight
  <2>. QED  BY <2>1, <2>2, <2>3, <2>4 DEF TableInv
<1>2. CASE BuildDone \/ TrackStorage \/ DetectReentrancy
  <2>1. /\ pass \in Before0 /\ UNCHANGED <<unit, at, scope, called, uses, flagged>>
        /\ pass' # "resolve"
    BY <1>2 DEF BuildDone, TrackStorage, DetectReentrancy, Before0
  <2>2. Walk /\ unit \in Units /\ ReadersRight  BY <2>1 DEF TableInv
  <2>3. Walk'  BY <2>1, <2>2, WalkOver
  <2>4. AtEnd  BY <1>2, <2>2 DEF BuildDone, TrackStorage, DetectReentrancy, ReadersRight
  <2>5. AtEnd'  BY <2>1, <2>4 DEF AtEnd
  <2>6. ReadersRight'
    <3>1. CASE BuildDone  BY <2>5, <3>1 DEF BuildDone, ReadersRight
    <3>2. CASE TrackStorage
      <4>1. AllSymbols' = AllSymbols  BY <2>1, SymbolsFixed
      <4>2. \A w, u : IsStateVar(w)' = IsStateVar(w) /\ (Reachable(InFunction(u))' <=> Reachable(InFunction(u)))
        BY <2>1 DEF IsStateVar, Reachable, InFunction, Functions, Member
      <4>3. \A w : Writes(w)' = Writes(w)  BY <2>1 DEF Writes
      <4>. QED  BY <2>1, <2>5, <3>2, <4>1, <4>2, <4>3 DEF TrackStorage, ReadersRight
    <3>3. CASE DetectReentrancy
      <4>1. Functions' = Functions /\ (\A f : HasModifier(f)' <=> HasModifier(f)) /\ \A w : Writes(w)' = Writes(w)
        BY <2>1 DEF HasModifier, Functions, Member, Writes
      <4>. QED  BY <2>1, <2>5, <3>3, <4>1 DEF DetectReentrancy, ReadersRight
    <3>. QED  BY <1>2, <3>1, <3>2, <3>3
  <2>. QED  BY <2>1, <2>2, <2>3, <2>6 DEF TableInv
<1>3. CASE \/ StartEngine \/ SeedHead \/ SeedStatement \/ SeedsDone \/ PropagateDone \/ SinkHead
           \/ SinkStatement \/ AnalyzeDone
  <2>1. unit' = unit /\ pass' \notin Before0
    BY <1>3 DEF StartEngine, SeedHead, SeedStatement, SeedsDone, PropagateDone, SinkHead,
           SinkStatement, AnalyzeDone, Before0
  <2>. QED  BY <2>1 DEF TableInv, Before0
<1>4. CASE (\E s \in worklist : Propagate(s) \/ BeginSearch(s)) \/ (\E s \in queue : Search(s)) \/ SearchDone
  <2>1. unit' = unit /\ pass' = pass /\ pass \notin Before0
    BY <1>4 DEF Propagate, BeginSearch, Search, SearchDone, tableVars, IInv, Idle, Before0
  <2>. QED  BY <2>1 DEF TableInv, Before0
<1>5. CASE UNCHANGED vars
  <2>1. /\ UNCHANGED <<unit, at, scope, called, uses, flagged>>
        /\ UNCHANGED <<pass, stored, storedReads, reentrant>>
    BY <1>5 DEF vars, tableVars
  <2>2. unit \in Units /\ (pass \in Before0 => Walk /\ ReadersRight)  BY DEF TableInv
  <2>3. pass \in Before0 => Walk'  BY <2>1, <2>2, WalkOver
  <2>4. pass \in Before0 => ReadersRight'
    <3>1. AllSymbols' = AllSymbols /\ Functions' = Functions  BY <2>1, TextFixed
    <3>2. \A w, u : IsStateVar(w)' = IsStateVar(w) /\ (Reachable(InFunction(u))' <=> Reachable(InFunction(u)))
      BY <2>1 DEF IsStateVar, Reachable, InFunction, Functions, Member
    <3>3. (\A f : HasModifier(f)' <=> HasModifier(f)) /\ \A w : Writes(w)' = Writes(w)
      BY <2>1 DEF HasModifier, Functions, Member, Writes
    <3>. QED  BY <2>1, <2>2, <3>1, <3>2, <3>3 DEF ReadersRight, AtEnd
  <2>. QED  BY <2>1, <2>2, <2>3, <2>4 DEF TableInv
<1>. QED  BY <1>1, <1>2, <1>3, <1>4, <1>5 DEF Next, Build, TableNext

-----------------------------------------------------------------------------
(* What the detectors say *)

\* A set of numbers below n that is not empty has a greatest one.
LEMMA GreatestElement ==
  ASSUME NEW n \in Nat, NEW T \in SUBSET (0..n), T # {}
  PROVE  \E x \in T : \A y \in T : y <= x
<1>. DEFINE Less == {p \in Nat \X Nat : p[1] < p[2]}
            U == {k \in Nat : n - k \in T}
<1>1. IsWellFoundedOn(Less, Nat)
  <2>1. OpToRel(<, Nat) = Less  BY DEF OpToRel
  <2>. QED  BY <2>1, NatLessThanWellFounded
<1>2. U \subseteq Nat /\ U # {}
  <2>1. PICK x \in T : TRUE  OBVIOUS
  <2>2. n - x \in Nat /\ n - (n - x) = x  OBVIOUS
  <2>. QED  BY <2>1, <2>2
<1>3. PICK k \in U : \A l \in U : <<l, k>> \notin Less
  <2>. HIDE DEF Less, U
  <2>. QED  BY <1>1, <1>2, WFMin
<1>4. n - k \in T  BY <1>3
<1>5. ASSUME NEW y \in T PROVE y <= n - k
  <2>1. n - y \in U  BY <1>5
  <2>2. ~(n - y < k)  BY <1>3, <2>1
  <2>. QED  BY <1>3, <1>5, <2>2
<1>. QED  BY <1>4, <1>5

\* A name that means the contract's own variable is one of its variables, and means it.
LEMMA OwnVariable ==
  ASSUME unit \in Units, NEW p \in Positions, NEW x, Means(p, x).in = <<p[1], 0, 0>>
  PROVE  /\ x \in unit[p[1]].vars /\ Means(p, x) = StateVar(p[1], x)
         /\ x \notin Member(p).params
<1>1. PICK c \in 1..Len(unit), m \in Nat : p[1] = c /\ p[2] = m
  BY PositionParts
<1>3. p[1] = c /\ p[2] = m /\ m # 0 /\ c # 0 /\ c \in Nat /\ p[3] \in Nat  BY <1>1, PositionParts
<1>4. LocalsAt(p, x) = {}
  <2>1. SUFFICES ASSUME LocalsAt(p, x) # {} PROVE FALSE  OBVIOUS
  <2>. DEFINE T == {k \in 0..p[3] : <<p[1], p[2], k>> \in LocalsAt(p, x)}
  <2>2. \A q \in LocalsAt(p, x) : q = <<p[1], p[2], q[3]>> /\ q[3] \in 0..p[3]
    BY <1>3 DEF LocalsAt
  <2>3. T # {} /\ T \in SUBSET (0..p[3])  BY <2>1, <2>2
  <2>4. PICK k \in T : \A l \in T : l <= k
    <3>. HIDE DEF T
    <3>. QED  BY <1>3, <2>3, GreatestElement
  <2>5. \A r \in LocalsAt(p, x) : r[3] <= k  BY <2>2, <2>4
  <2>6. <<p[1], p[2], k>> \in LocalsAt(p, x) /\ <<p[1], p[2], k>>[3] = k  BY <2>4
  <2>7. PICK q \in LocalsAt(p, x) : Means(p, x) = Local(q)
    <3>1. \E q \in LocalsAt(p, x) : \A r \in LocalsAt(p, x) : r[3] <= q[3]  BY <2>5, <2>6
    <3>. QED  BY <2>1, <3>1 DEF Means
  <2>8. q[2] = p[2]  BY <2>2
  <2>9. q = <<p[1], 0, 0>>  BY <2>7 DEF Local
  <2>. QED  BY <1>3, <2>8, <2>9
<1>5. x \notin Member(p).params
  <2>1. x \in Member(p).params => Means(p, x).in = <<p[1], p[2], 0>>  BY <1>4 DEF Means, Param
  <2>2. <<p[1], p[2], 0>> # <<p[1], 0, 0>>  BY <1>3
  <2>. QED  BY <2>1, <2>2
<1>6. Means(p, x) = DefinedIn(c, x)  BY <1>3, <1>4, <1>5 DEF Means
<1>7. unit[c].base # c  BY <1>3, TextTypes
<1>8. x \in unit[c].vars
  <2>1. x \notin unit[c].vars => DefinedIn(c, x).in = <<unit[c].base, 0, 0>> \/ DefinedIn(c, x).in = <<0, 0, 0>>
    BY DEF DefinedIn, StateVar, NoSym
  <2>. QED  BY <1>3, <1>6, <1>7, <2>1
<1>. QED  BY <1>3, <1>5, <1>6, <1>8 DEF DefinedIn

\* Every write that is attributed is among the uses when the walk is over.
LEMMA Attribution ==
  ASSUME TableInv, pass \in Before0, pass # "resolve", NEW p \in Positions,
         Assigns(p), Member(p).function, Attributed(p)
  PROVE  LET f == <<p[1], FirstFunction(p[1])>>
             v == StateVar(p[1], Target(p)) IN
           /\ v = Means(p, Target(p)) /\ v \in AllSymbols /\ IsStateVar(v) /\ f \in Functions
           /\ \E u \in Writes(v) : /\ u.scope = f /\ WriteRight(u)
                                   /\ (\E i \in 1..p[3] - 1 : PlainCall(Member(p).body[i])) => u.after
<1>. DEFINE c == p[1]
            x == Target(p)
            f == <<c, FirstFunction(c)>>
            v == StateVar(c, x)
<1>1. unit \in Units /\ Placed /\ WritesRight /\ WritesKept /\ AtEnd
  BY DEF TableInv, ReadersRight
<1>2. c \in 1..Len(unit) /\ c \in Nat /\ c # 0  BY <1>1, PositionParts
<1>3. x \in unit[c].vars /\ Means(p, x) = v /\ x \notin Member(p).params
  BY <1>1, OwnVariable DEF Attributed
<1>4. x \in Names  BY <1>1, <1>2, <1>3, TextTypes
<1>5. v \in AllSymbols
  <2>1. <<c, x>> \in {q \in (1..Len(unit)) \X Names : q[2] \in unit[q[1]].vars}
    BY <1>2, <1>3, <1>4
  <2>2. v = StateVar(<<c, x>>[1], <<c, x>>[2])  OBVIOUS
  <2>. QED  BY <2>1, <2>2 DEF AllSymbols
<1>6. v # NoSym /\ v.in = <<c, 0, 0>> /\ v.name = x  BY <1>2 DEF StateVar, NoSym
<1>7. IsStateVar(v)  BY <1>6 DEF IsStateVar
<1>8. Passed(p)
  <2>1. c < at[1]  BY <1>1, <1>2, TextTypes DEF Placed, AtEnd
  <2>. QED  BY <2>1 DEF Passed
<1>9. PICK m \in 1..p[2] : IsFirst(c, m) /\ Kept(p, m)  BY <1>1, <1>8 DEF WritesKept
<1>10. FirstFunction(c) = m /\ f \in Functions  BY <1>1, <1>2, <1>9, FirstIs
<1>11. Lookup(f, x) = v
  <2>1. f[1] = c /\ f[2] = m /\ m # 0  BY <1>9, <1>10
  <2>2. x \notin Member(f).params
    <3>1. CASE p[2] = m  BY <1>3, <2>1, <3>1 DEF Member
    <3>2. CASE p[2] # m  BY <1>10, <2>1, <3>2 DEF Attributed
    <3>. QED  BY <3>1, <3>2
  <2>. QED  BY <1>3, <2>1, <2>2 DEF Lookup
<1>12. PICK u \in uses : /\ u.how = "write" /\ u.scope = f /\ u.sym = v
                         /\ (\E i \in 1..p[3] - 1 : PlainCall(Member(p).body[i])) => u.after
  BY <1>6, <1>9, <1>10, <1>11 DEF Kept
<1>13. u \in Writes(v) /\ WriteRight(u)  BY <1>1, <1>12 DEF Writes, WritesRight
<1>. QED  BY <1>3, <1>5, <1>7, <1>10, <1>12, <1>13

LEMMA Missed == ASSUME TableInv PROVE ReentrancyMissedForAReason
<1>1. SUFFICES ASSUME pass = "built", NEW p \in Positions, NEW i \in 1..p[3] - 1,
                      Assigns(p), Member(p).function, Attributed(p),
                      PlainCall(Member(p).body[i]),
                      ~unit[p[1]].guard, ~HasModifier(<<p[1], FirstFunction(p[1])>>)
               PROVE  [var |-> Means(p, Target(p)), in |-> <<p[1], FirstFunction(p[1])>>] \in reentrant
  BY DEF ReentrancyMissedForAReason
<1>. DEFINE f == <<p[1], FirstFunction(p[1])>>
            v == StateVar(p[1], Target(p))
            r == [var |-> v, in |-> f]
<1>2. pass \in Before0 /\ pass # "resolve"  BY <1>1 DEF Before0
<1>3. /\ v = Means(p, Target(p)) /\ IsStateVar(v) /\ f \in Functions
      /\ \E u \in Writes(v) : u.scope = f /\ WriteRight(u) /\ u.after
  BY <1>1, <1>2, Attribution
<1>4. PICK u \in Writes(v) : u.scope = f /\ WriteRight(u) /\ u.after  BY <1>3
<1>5. v \in flagged  BY <1>3, <1>4 DEF WriteRight, Writes
<1>6. reentrant = {q \in [var : flagged, in : Functions] :
                      /\ \E w \in Writes(q.var) : w.after /\ w.scope = q.in
                      /\ ~unit[q.in[1]].guard /\ ~HasModifier(q.in)}
  BY <1>1, <1>2 DEF TableInv, ReadersRight
<1>7. r.var = v /\ r.in = f /\ r \in [var : flagged, in : Functions] /\ r.in[1] = p[1]
  BY <1>3, <1>5
<1>8. (\E w \in Writes(r.var) : w.after /\ w.scope = r.in) /\ ~unit[r.in[1]].guard /\ ~HasModifier(r.in)
  BY <1>1, <1>4, <1>7
<1>9. r \in reentrant
  <2>. HIDE DEF r
  <2>. QED  BY <1>6, <1>7, <1>8
<1>. QED  BY <1>3, <1>9

LEMMA LookupName ==
  ASSUME NEW s, NEW x, Lookup(s, x) # NoSym
  PROVE  Lookup(s, x).name = x
BY DEF Lookup, Param, StateVar

LEMMA Reported == ASSUME TableInv PROVE ReentrancyReportedForAReason
<1>1. SUFFICES ASSUME pass = "built", NEW r \in reentrant
               PROVE  /\ r.in[2] = FirstFunction(r.in[1])
                      /\ \E p, q \in Positions :
                           /\ p[1] = r.in[1] /\ r.in[2] <= p[2]
                           /\ PlainCall(StmtAt(p)) /\ Precedes(p, q)
                           /\ Assigns(q) /\ Target(q) = r.var.name
  BY DEF ReentrancyReportedForAReason
<1>2. unit \in Units /\ WritesRight /\ ReadersRight  BY <1>1 DEF TableInv, Before0
<1>3. r.in \in Functions /\ \E u \in Writes(r.var) : u.after /\ u.scope = r.in
  BY <1>1, <1>2 DEF ReadersRight
<1>4. PICK u \in Writes(r.var) : u.after /\ u.scope = r.in  BY <1>3
<1>5. WriteRight(u) /\ u.sym = r.var  BY <1>2, <1>4 DEF Writes, WritesRight
<1>6. PICK c \in 1..Len(unit), m \in Nat : r.in = <<c, m>> /\ m # 0
  <2>1. PICK c \in 1..Len(unit) : \E m \in 1..Len(unit[c].members) : r.in = <<c, m>>
    BY <1>3, FunctionIs
  <2>2. PICK m \in 1..Len(unit[c].members) : r.in = <<c, m>>  BY <2>1
  <2>3. m \in Nat /\ m # 0  OBVIOUS
  <2>. QED  BY <2>2, <2>3
<1>7. u.at \in Positions /\ u.at[1] = c /\ u.scope[2] = m /\ IsFirst(c, m) /\ CallBefore(m, u.at)
  BY <1>4, <1>5, <1>6 DEF WriteRight
<1>8. FirstFunction(c) = m  BY <1>2, <1>7, FirstIs
<1>9. PICK q \in Positions : q[1] = c /\ m <= q[2] /\ PlainCall(StmtAt(q)) /\ Precedes(q, u.at)
  BY <1>7 DEF CallBefore
<1>10. Assigns(u.at) /\ Target(u.at) = r.var.name  BY <1>5, LookupName DEF WriteRight
<1>. QED  BY <1>6, <1>7, <1>8, <1>9, <1>10

LEMMA StorageTainted == ASSUME TableInv PROVE StorageTaintForAReason
<1>1. SUFFICES ASSUME pass = "stored"
               PROVE
    /\ \A p \in Positions : \A u \in uses :
         /\ Assigns(p) /\ Member(p).function /\ Attributed(p)
         /\ Reachable(Member(<<p[1], FirstFunction(p[1])>>).name)
         /\ u.how = "read" /\ IsStateVar(u.sym) /\ u.sym.name = Target(p)
         => u \in storedReads
    /\ \A u \in storedReads : \E p \in Positions :
         /\ Assigns(p) /\ Target(p) = u.sym.name
         /\ FirstFunction(p[1]) \in 1..p[2]
         /\ Reachable(Member(<<p[1], FirstFunction(p[1])>>).name)
  BY DEF StorageTaintForAReason
<1>2. unit \in Units /\ WritesRight /\ ReadersRight /\ pass \in Before0 /\ pass # "resolve"
  BY <1>1 DEF TableInv, Before0
<1>3. /\ stored = {v.name : v \in {w \in AllSymbols : IsStateVar(w) /\
                                      \E u \in Writes(w) : Reachable(InFunction(u))}}
      /\ storedReads = {u \in uses : u.how = "read" /\ IsStateVar(u.sym) /\ u.sym.name \in stored}
  BY <1>1, <1>2 DEF ReadersRight
<1>4. ASSUME NEW p \in Positions, NEW u \in uses, Assigns(p), Member(p).function, Attributed(p),
             Reachable(Member(<<p[1], FirstFunction(p[1])>>).name),
             u.how = "read", IsStateVar(u.sym), u.sym.name = Target(p)
      PROVE  u \in storedReads
  <2>. DEFINE f == <<p[1], FirstFunction(p[1])>>
              v == StateVar(p[1], Target(p))
  <2>1. /\ v \in AllSymbols /\ IsStateVar(v) /\ f \in Functions
        /\ \E w \in Writes(v) : w.scope = f
    BY <1>2, <1>4, Attribution
  <2>2. PICK w \in Writes(v) : w.scope = f  BY <2>1
  <2>3. f[2] # 0
    <3>1. \E c \in 1..Len(unit) : \E m \in 1..Len(unit[c].members) : f = <<c, m>>
      BY <2>1, FunctionIs
    <3>. QED  BY <3>1
  <2>4. InFunction(w) = Member(f).name  BY <2>2, <2>3 DEF InFunction
  <2>5. v.name = Target(p)  BY DEF StateVar
  <2>6. Target(p) \in stored  BY <1>3, <1>4, <2>1, <2>2, <2>4, <2>5
  <2>. QED  BY <1>3, <1>4, <2>6
<1>5. ASSUME NEW u \in storedReads
      PROVE  \E p \in Positions : /\ Assigns(p) /\ Target(p) = u.sym.name
                                  /\ FirstFunction(p[1]) \in 1..p[2]
                                  /\ Reachable(Member(<<p[1], FirstFunction(p[1])>>).name)
  <2>1. u.sym.name \in stored  BY <1>3, <1>5
  <2>2. PICK v \in AllSymbols : v.name = u.sym.name /\ \E w \in Writes(v) : Reachable(InFunction(w))
    BY <1>3, <2>1
  <2>3. PICK w \in Writes(v) : Reachable(InFunction(w))  BY <2>2
  <2>4. WriteRight(w) /\ w.sym = v  BY <1>2, <2>3 DEF Writes, WritesRight
  <2>5. w.scope[2] # 0 /\ InFunction(w) = Member(w.scope).name
    BY <2>3 DEF Reachable, InFunction
  <2>6. PICK p \in Positions : p = w.at /\ Assigns(p) /\ Target(p) = v.name
    BY <2>4, LookupName DEF WriteRight
  <2>7. IsFirst(p[1], w.scope[2]) /\ w.scope[2] <= p[2] /\ w.scope = <<p[1], w.scope[2]>>
    BY <2>4, <2>5, <2>6 DEF WriteRight
  <2>8. p[1] \in 1..Len(unit) /\ p[2] \in Nat  BY <1>2, PositionParts
  <2>9. FirstFunction(p[1]) = w.scope[2] /\ w.scope[2] \in 1..Len(unit[p[1]].members)
    BY <1>2, <2>7, <2>8, FirstIs
  <2>10. FirstFunction(p[1]) \in 1..p[2]
    <3>1. PICK n \in Nat : n = w.scope[2] /\ 1 <= n  BY <2>9
    <3>. QED  BY <2>7, <2>8, <2>9, <3>1
  <2>11. <<p[1], FirstFunction(p[1])>> = w.scope  BY <2>7, <2>9
  <2>12. Reachable(Member(<<p[1], FirstFunction(p[1])>>).name)  BY <2>3, <2>5, <2>11
  <2>13. Target(p) = u.sym.name  BY <2>2, <2>6
  <2>. QED  BY <2>6, <2>10, <2>12, <2>13
<1>. QED  BY <1>4, <1>5

LEMMA LostAreShadowed == ASSUME TableInv PROVE LostWritesAreShadowed
<1>1. SUFFICES ASSUME pass = "built", NEW u \in uses, u.how = "write",
                      Means(u.at, Target(u.at)).in = <<u.at[1], 0, 0>>, ~IsStateVar(u.sym)
               PROVE  u.sym \in Shadowing
  BY DEF LostWritesAreShadowed
<1>2. unit \in Units /\ WriteRight(u)  BY <1>1 DEF TableInv, Before0, WritesRight
<1>. DEFINE c == u.at[1]
            x == Target(u.at)
            s == u.scope
<1>3. u.at \in Positions /\ s = <<c, s[2]>> /\ u.sym = Lookup(s, x) /\ u.sym # NoSym
  BY <1>2 DEF WriteRight
<1>4. x \in unit[c].vars /\ c \in 1..Len(unit)  BY <1>1, <1>2, <1>3, OwnVariable, PositionParts
<1>5. s[1] = c  BY <1>3
<1>6. s[2] # 0 /\ x \in Member(s).params
  <2>1. Lookup(s, x) = StateVar(c, x) => FALSE
    <3>1. StateVar(c, x).in = <<c, 0, 0>>  BY DEF StateVar
    <3>. QED  BY <1>1, <1>3, <3>1 DEF IsStateVar
  <2>2. ~(s[2] # 0 /\ x \in Member(s).params) => Lookup(s, x) = StateVar(c, x)
    BY <1>4, <1>5 DEF Lookup
  <2>. QED  BY <2>1, <2>2
<1>7. u.sym = Param(s[1], s[2], x)  BY <1>3, <1>6 DEF Lookup
<1>8. s \in Functions
  <2>1. IsFirst(c, s[2])  BY <1>2, <1>6 DEF WriteRight
  <2>2. <<c, s[2]>> \in Functions  BY <1>2, <1>4, <2>1, FirstIs
  <2>. QED  BY <1>3, <2>2
<1>9. u.sym \in AllSymbols  BY <1>6, <1>7, <1>8 DEF AllSymbols
<1>10. u.sym.name = x /\ u.sym.in[1] = c  BY <1>5, <1>7 DEF Param
<1>. QED  BY <1>1, <1>4, <1>9, <1>10 DEF Shadowing

\* What Build's second pass records of a unit, and what the reentrancy, storage taint and
\* shadowing detectors read from it, is missed or reported for one of the reasons of
\* DetectionsForAReason: a call it does not look for, a parameter or a guard of the first
\* function; and every report stems from a call and a later assignment from that function on.
THEOREM DetectionsExplained == Spec => []DetectionsForAReason
<1>1. Init => TableInv  BY TableInit0
<1>2. IInv /\ TableInv /\ [Next]_vars => TableInv'  BY TableStep
<1>3. TableInv => DetectionsForAReason
  BY Missed, Reported, StorageTainted, LostAreShadowed DEF DetectionsForAReason, ReentrancyForAReason
<1>. QED  BY <1>1, <1>2, <1>3, LoopInvariant, PTL DEF Spec
=============================================================================
