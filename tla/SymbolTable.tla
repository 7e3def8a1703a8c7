---------------------------- MODULE SymbolTable ----------------------------
(***************************************************************************)
(* internal/symboltable: Build declares the symbols of a source unit in    *)
(* nested scopes (pass 1) and then walks the unit again to attach every    *)
(* use to a symbol (pass 2).  Its readers are the storage taint tracker    *)
(* and the detectors for shadowing and for writes after an external call.  *)
(*                                                                         *)
(* Pass 2 keeps the scope it is in, whether that scope has made a call,    *)
(* and nothing else.  It enters a function by looking for its name among   *)
(* the children of the scope it is in, and never leaves one: the second    *)
(* function of a contract is looked for among the blocks of the first, is  *)
(* not found, and its uses go to the first.  Right sides of assignments    *)
(* are not visited.                                                        *)
(*                                                                         *)
(* A position is <<contract, member, statement>>; member 0 is the contract *)
(* itself and statement 0 the head of a member.  A scope is <<contract,    *)
(* member>>.  A body lists its statements in the order of the walk, each   *)
(* with its path: the index in the body, then branch and index of every    *)
(* block it is in.                                                         *)
(***************************************************************************)
EXTENDS Naturals, Sequences, FiniteSets

CONSTANTS
  Names,     \* of variables
  NoName,    \* no assigned variable, no receiver
  FunNames,  \* of functions and modifiers
  Units      \* the source units looked at

Kinds     == {"declare", "assign", "call", "test", "return"}
SinkKinds == {"external-call", "eth-transfer", "delegatecall", "selfdestruct",
              "access-control", "none"}
Labels    == {"calldata", "msg.sender", "msg.value", "tx.origin", "block.timestamp",
              "block.number", "derived", "none"}

Statements == [kind : Kinds, path : Seq(Nat), target : Names \cup {NoName},
               reads : SUBSET Names,         \* the identifiers below it, left of "=" apart
               calls : BOOLEAN,              \* it is, or its right side is, an external call
               options : BOOLEAN,            \* of the form e.call{value: v}(...)
               source : Labels \ {"derived"}, \* its right side or an argument is a taint source
               sink : SinkKinds, args : SUBSET Names, receiver : Names \cup {NoName}]
Members    == [function : BOOLEAN, name : FunNames, public : BOOLEAN, reachable : BOOLEAN,
               guarded : BOOLEAN, params : SUBSET Names, body : Seq(Statements)]
Contracts  == [vars : SUBSET Names, base : Nat, guard : BOOLEAN, members : Seq(Members)]

ASSUME UnitsAssumption ==
  /\ IsFiniteSet(Names) /\ NoName \notin Names
  /\ Units \subseteq Seq(Contracts)
  /\ \A u \in Units : \A c \in 1..Len(u) :
       u[c].base < c /\ (u[c].base # 0 => u[u[c].base].base = 0)

VARIABLES
  unit,
  pass,      \* "resolve", "readers", and what comes after
  at,        \* the position the walk is at
  scope,     \* referenceVisitor.currentScope
  called,    \* externalCallIdx >= 0
  uses,      \* Symbol.Reads and Symbol.Writes of all symbols
  flagged,   \* the symbols with WrittenAfterExternalCall
  stored,    \* the names StorageTaintTracker holds tainted
  storedReads,
  reentrant  \* the reports of the reentrancy detector on this table

tableVars == <<unit, pass, at, scope, called, uses, flagged, stored, storedReads, reentrant>>

-----------------------------------------------------------------------------
(* Pass 1: what is declared where *)

Member(p)   == unit[p[1]].members[p[2]]
StmtAt(p)   == Member(p).body[p[3]]
Positions   == UNION {UNION {{<<c, m, i>> : i \in 1..Len(unit[c].members[m].body)} :
                              m \in 1..Len(unit[c].members)} : c \in 1..Len(unit)}
Functions   == UNION {{<<c, m>> : m \in {k \in 1..Len(unit[c].members) :
                                           unit[c].members[k].function}} : c \in 1..Len(unit)}

\* A symbol: where it is declared, and its name.
StateVar(c, x) == [in |-> <<c, 0, 0>>, name |-> x]
Param(c, m, x) == [in |-> <<c, m, 0>>, name |-> x]
Local(p)       == [in |-> p, name |-> StmtAt(p).target]
NoSym          == [in |-> <<0, 0, 0>>, name |-> NoName]
IsStateVar(s)  == s.in[2] = 0 /\ s # NoSym

AllSymbols ==
  {StateVar(p[1], p[2]) : p \in {q \in (1..Len(unit)) \X Names : q[2] \in unit[q[1]].vars}}
  \cup (UNION {{Param(f[1], f[2], x) : x \in Member(f).params} : f \in Functions})
  \cup {Local(p) : p \in {q \in Positions : StmtAt(q).kind = "declare"}}

\* Scope.Lookup from a function's scope or a contract's.  Blocks are below: locals are not met.
Lookup(s, x) ==
  CASE s[2] # 0 /\ x \in Member(s).params -> Param(s[1], s[2], x)
    [] (s[2] = 0 \/ x \notin Member(s).params) /\ x \in unit[s[1]].vars -> StateVar(s[1], x)
    [] OTHER -> NoSym

-----------------------------------------------------------------------------
(* What a name means, by Solidity's scoping; solc's referencedDeclaration. *)

Encloses(outer, inner) ==
  /\ Len(outer) <= Len(inner)
  /\ \A k \in 1..Len(outer) - 1 : outer[k] = inner[k]

LocalsAt(p, x) ==
  {<<p[1], p[2], j>> : j \in {k \in 1..p[3] - 1 :
     LET s == Member(p).body[k] IN
       s.kind = "declare" /\ s.target = x /\ Encloses(s.path, StmtAt(p).path)}}

DefinedIn(c, x) ==
  IF x \in unit[c].vars THEN StateVar(c, x)
  ELSE IF unit[c].base # 0 /\ x \in unit[unit[c].base].vars THEN StateVar(unit[c].base, x)
  ELSE NoSym

Means(p, x) ==
  IF LocalsAt(p, x) # {}
  THEN Local(CHOOSE q \in LocalsAt(p, x) : \A r \in LocalsAt(p, x) : r[3] <= q[3])
  ELSE IF x \in Member(p).params THEN Param(p[1], p[2], x) ELSE DefinedIn(p[1], x)

-----------------------------------------------------------------------------
(* Pass 2 *)

\* LookupByID finds what is declared in the scope or above it, else the name is looked up.
Resolve(s, p, x) ==
  LET meant == Means(p, x) IN
    IF meant.in \in {<<s[1], s[2], 0>>, <<s[1], 0, 0>>} THEN meant ELSE Lookup(s, x)

Use(sym, how, after) == [sym |-> sym, how |-> how, scope |-> scope, at |-> at, after |-> after]

First == <<1, 0, 0>>
Next3(p) ==
  CASE p[2] # 0 /\ p[3] < Len(Member(p).body) -> <<p[1], p[2], p[3] + 1>>
    [] (p[2] = 0 \/ p[3] = Len(Member(p).body)) /\ p[2] < Len(unit[p[1]].members) ->
         <<p[1], p[2] + 1, 0>>
    [] OTHER -> <<p[1] + 1, 0, 0>>
AtEnd == at[1] > Len(unit)

TableInit ==
  /\ unit \in Units
  /\ pass = "resolve"
  /\ at = First
  /\ scope = <<0, 0>>
  /\ called = TRUE   \* the zero value of externalCallIdx is not below zero
  /\ uses = {} /\ flagged = {}
  /\ stored = {} /\ storedReads = {} /\ reentrant = {}

EnterContract ==
  /\ pass = "resolve" /\ ~AtEnd /\ at[2] = 0
  /\ scope' = <<at[1], 0>>
  /\ at' = Next3(at)
  /\ UNCHANGED <<unit, pass, called, uses, flagged, stored, storedReads, reentrant>>

\* findFunctionScope: only from the contract's own scope are functions among the children.
EnterMember ==
  /\ pass = "resolve" /\ ~AtEnd /\ at[2] # 0 /\ at[3] = 0
  /\ IF scope[2] = 0 /\ Member(at).function
     THEN scope' = <<at[1], at[2]>> /\ called' = FALSE
     ELSE UNCHANGED <<scope, called>>
  /\ at' = Next3(at)
  /\ UNCHANGED <<unit, pass, uses, flagged, stored, storedReads, reentrant>>

\* A bug to catch: declarations are not looked into.
SeesStatementCall(s) == s.calls /\ ~s.options /\ s.kind = "call"

\* isExternalCall: a call that is the statement or what a declared variable is set to; one
\* with options is a FunctionCallOptions node, in which nothing is looked for.
SeesCall(s) == s.calls /\ ~s.options /\ s.kind \in {"declare", "call"}

Written(s) ==
  IF s.kind = "assign" /\ Lookup(scope, s.target) # NoSym THEN {Lookup(scope, s.target)} ELSE {}

Read(s) ==
  IF s.kind = "assign" THEN {}
  ELSE {Resolve(scope, at, x) : x \in s.reads} \ {NoSym}

Statement ==
  /\ pass = "resolve" /\ ~AtEnd /\ at[3] # 0
  /\ LET s == StmtAt(at)
         after == called \/ SeesCall(s) IN
       /\ called' = after
       /\ uses' = uses \cup {Use(v, "write", after) : v \in Written(s)}
                       \cup {Use(v, "read", after) : v \in Read(s)}
       /\ flagged' = flagged \cup {v \in Written(s) : IsStateVar(v) /\ after}
  /\ at' = Next3(at)
  /\ UNCHANGED <<unit, pass, scope, stored, storedReads, reentrant>>

BuildDone ==
  /\ pass = "resolve" /\ AtEnd
  /\ pass' = "readers"
  /\ UNCHANGED <<unit, at, scope, called, uses, flagged, stored, storedReads, reentrant>>

-----------------------------------------------------------------------------
(* The readers of the table *)

Writes(v) == {u \in uses : u.sym = v /\ u.how = "write"}
Reads(v)  == {u \in uses : u.sym = v /\ u.how = "read"}

InFunction(u) == IF u.scope[2] = 0 THEN NoName ELSE Member(u.scope).name

\* resolveFunction: some function of that name, of any contract, can be reached from outside;
\* none for a use outside of functions or in one without a name.
Reachable(name) ==
  name # NoName /\ \E f \in Functions : /\ Member(f).name = name
                                        /\ Member(f).public \/ Member(f).reachable

\* SeedFromSymbolTable and PropagateToReads; taint is kept by the variable's name.
TrackStorage ==
  /\ pass = "readers"
  /\ stored' = {v.name : v \in {w \in AllSymbols : IsStateVar(w) /\
                                  \E u \in Writes(w) : Reachable(InFunction(u))}}
  /\ storedReads' = {u \in uses : u.how = "read" /\ IsStateVar(u.sym) /\ u.sym.name \in stored'}
  /\ pass' = "stored"
  /\ UNCHANGED <<unit, at, scope, called, uses, flagged, reentrant>>

HasModifier(f) == \E g \in Functions :
  g[1] = f[1] /\ Member(g).name = Member(f).name /\ Member(g).guarded

\* ReentrancySymbolTableDetector: where a flagged variable is written after a call.
DetectReentrancy ==
  /\ pass = "stored"
  /\ reentrant' = {r \in [var : flagged, in : Functions] :
                     /\ \E u \in Writes(r.var) : u.after /\ u.scope = r.in
                     /\ ~unit[r.in[1]].guard /\ ~HasModifier(r.in)}
  /\ pass' = "built"
  /\ UNCHANGED <<unit, at, scope, called, uses, flagged, stored, storedReads>>

\* ShadowingDetector: a parameter or a local whose name is a state variable of its contract.
Shadowing == {s \in AllSymbols : ~IsStateVar(s) /\ s.name \in unit[s.in[1]].vars}

TableNext == EnterContract \/ EnterMember \/ Statement \/ BuildDone
             \/ TrackStorage \/ DetectReentrancy

-----------------------------------------------------------------------------
(* What the table tells, stated over the program's text.  All of it at the *)
(* one moment the table and its first readers are done.                    *)

TableTypeOK ==
  /\ scope \in Functions \cup ((0..Len(unit)) \X {0})
  /\ flagged \subseteq {s \in AllSymbols : IsStateVar(s)}
  /\ \A u \in uses : u.sym \in AllSymbols /\ u.at \in Positions /\ u.how \in {"read", "write"}
  /\ stored \subseteq Names /\ storedReads \subseteq uses

FirstFunction(c) ==
  LET own == {m \in 1..Len(unit[c].members) : unit[c].members[m].function} IN
    IF own = {} THEN 0 ELSE CHOOSE m \in own : \A k \in own : m <= k

PlainCall(s) == s.calls /\ ~s.options /\ s.kind \notin {"assign", "test", "return"}
Assigns(p) == StmtAt(p).kind = "assign"
Target(p)  == StmtAt(p).target

\* The write goes where it belongs: not to a parameter of the contract's first function,
\* and the variable is the contract's own, not its base's.
Attributed(p) == LET first == <<p[1], FirstFunction(p[1])>> IN
  /\ Means(p, Target(p)).in = <<p[1], 0, 0>>
  /\ p[2] # first[2] => Target(p) \notin Member(first).params

\* A write to a contract's own variable that follows a call in an unguarded function is
\* reported.  It is missed where the call is assigned or has options, where a parameter of
\* the contract's FIRST function has the variable's name, and where that function is guarded.
ReentrancyMissedForAReason ==
  pass = "built" =>
    \A p \in Positions : \A i \in 1..p[3] - 1 :
      LET first == <<p[1], FirstFunction(p[1])>> IN
        /\ Assigns(p) /\ Member(p).function /\ Attributed(p)
        /\ PlainCall(Member(p).body[i])
        /\ ~unit[p[1]].guard /\ ~HasModifier(first)
        => [var |-> Means(p, Target(p)), in |-> first] \in reentrant

Precedes(p, q) == p[1] = q[1] /\ (p[2] < q[2] \/ (p[2] = q[2] /\ p[3] < q[3]))

\* A report names the contract's first function, and somewhere from that function on a call
\* is followed by an assignment to the name, though the two may be in different functions
\* and the assigned name be another function's local variable.
ReentrancyReportedForAReason ==
  pass = "built" =>
    \A r \in reentrant :
      /\ r.in[2] = FirstFunction(r.in[1])
      /\ \E p, q \in Positions :
           /\ p[1] = r.in[1] /\ r.in[2] <= p[2]
           /\ PlainCall(StmtAt(p)) /\ Precedes(p, q)
           /\ Assigns(q) /\ Target(q) = r.var.name

\* The detector's report is right up to the wrong attribution of later functions.
ReentrancyForAReason == ReentrancyMissedForAReason /\ ReentrancyReportedForAReason

\* What an entry point writes and is read anywhere in the unit is reported as a stored
\* tainted read, if the contract's first function is named like one that can be reached;
\* and what is reported was written by a contract with such a first function.
StorageTaintForAReason ==
  pass \in {"stored"} =>
    /\ \A p \in Positions : \A u \in uses :
         /\ Assigns(p) /\ Member(p).function /\ Attributed(p)
         /\ Reachable(Member(<<p[1], FirstFunction(p[1])>>).name)
         /\ u.how = "read" /\ IsStateVar(u.sym) /\ u.sym.name = Target(p)
         => u \in storedReads
    /\ \A u \in storedReads : \E p \in Positions :
         /\ Assigns(p) /\ Target(p) = u.sym.name
         /\ FirstFunction(p[1]) \in 1..p[2]
         /\ Reachable(Member(<<p[1], FirstFunction(p[1])>>).name)

\* A write of the contract's own variable that the table gives to something else goes to a
\* parameter the shadowing detector warns of, though that may be another function's.
LostWritesAreShadowed ==
  pass = "built" =>
    \A u \in uses :
      /\ u.how = "write"
      /\ Means(u.at, Target(u.at)).in = <<u.at[1], 0, 0>>
      => IsStateVar(u.sym) \/ u.sym \in Shadowing

\* What the symbol table makes the detectors miss or report has one of these reasons.
DetectionsForAReason == ReentrancyForAReason /\ StorageTaintForAReason /\ LostWritesAreShadowed
=============================================================================
