-------------------------- MODULE SourceDetectors --------------------------
(***************************************************************************)
(* The detectors of a file at work: those of LineDetectors, and two that   *)
(* rest on PathTracker.  ReentrancyDetectorV2 takes the ordered operations *)
(* of the StateTracker when the project's graph was built                  *)
(* (AnalyzeWithGraph), the extracted functions when it was not (Analyze);  *)
(* AccessControlDetector takes the extracted blocks.                       *)
(*                                                                         *)
(* A finding names the function and a line of the file, and is checked     *)
(* against the file itself: a call that comes before a write in one        *)
(* function, a write of the owner that no check comes with.                *)
(***************************************************************************)
EXTENDS LineDetectors

CONSTANT Critical   \* names of sensitive functions (criticalFunctionNames)

VARIABLES
  withGraph,   \* Graph.Size() # 0
  findings,
  scanned

detectorVars == <<parseVars, withGraph, findings, scanned>>

-----------------------------------------------------------------------------
(* What the graph's functions are: parseFunction, and Functions of a node *)

\* collectSignature: the lines from the head to the first "{", twelve at most.
SignatureLines(head) ==
  {i \in head..Len(file) : i < head + 12 /\ \A j \in head..(i - 1) : Opens(file[j]) = 0}

MarksOf(head)   == UNION {file[i].marks : i \in SignatureLines(head)}
Internal(head)  ==
  LET said == {file[i].visibility : i \in SignatureLines(head)}
  IN "internal" \in said /\ "external" \notin said

\* A bug to catch: the first overload stays.
FirstFunctions(c) ==
  {f \in {c.items[i] : i \in 1..Len(c.items)} :
     /\ f.kind = "function"
     /\ \A i \in 1..Len(c.items) : c.items[i].kind = "function" /\ c.items[i].name = f.name
                                     => c.items[i].lines[1] >= f.lines[1]}

\* node.Functions is keyed by name: the last overload stays.
NodeFunctions(c) ==
  {f \in {c.items[i] : i \in 1..Len(c.items)} :
     /\ f.kind = "function"
     /\ \A i \in 1..Len(c.items) : c.items[i].kind = "function" /\ c.items[i].name = f.name
                                     => c.items[i].lines[1] <= f.lines[1]}

-----------------------------------------------------------------------------
(* StateTracker.Analyze and FindCEIViolations *)

\* The declaration a write is known by.
KnownBy(l) == CASE l.kind = "write" -> "variable"
                [] l.kind \in {"set", "reset"} -> "lockVariable"
                [] OTHER -> NoName

\* extractExternalCalls and extractWrites
ExternalCall(l)  == l.kind \in Calls
Writes(l, known) == KnownBy(l) \in known

\* A line with a call is that call and nothing else.
Ops(f, c) ==
  [i \in 1..Len(f.lines) |->
     LET l == file[f.lines[i]]
     IN CASE ExternalCall(l)   -> "EXTERNAL_CALL"
          [] Writes(l, c.vars) -> "WRITE"
          [] OTHER             -> NoName]

\* Of the violations only the first is reported: its call's place in the body.
Violations(ops) ==
  {v \in (1..Len(ops)) \X (1..Len(ops)) :
     v[1] < v[2] /\ ops[v[1]] = "EXTERNAL_CALL" /\ ops[v[2]] = "WRITE"}
FirstCall(ops) == CHOOSE i \in 1..Len(ops) :
                    /\ \E j \in 1..Len(ops) : <<i, j>> \in Violations(ops)
                    /\ \A v \in Violations(ops) : i <= v[1]

-----------------------------------------------------------------------------
(* ReentrancyDetectorV2 *)

Underscored == {"_g"}   \* the names with "_" in front

NodeHasGuard(f) ==
  \/ "nonReentrant" \in MarksOf(f.lines[1])
  \/ HasReentrancyGuard(LinesOf(f.lines), file)

\* AnalyzeWithGraph.  Line i of a body is taken for line head + i of the file.
GraphReentrancy ==
  UNION {LET c == contracts[k]
         IN {[rule |-> "reentrancy", name |-> f.name,
              line |-> f.lines[1] + FirstCall(Ops(f, c)), of |-> f.lines] :
               f \in {g \in NodeFunctions(c) :
                        /\ ~Internal(g.lines[1]) /\ g.name \notin Underscored
                        /\ ~NodeHasGuard(g)
                        /\ Violations(Ops(g, c)) # {}}} : k \in 1..Len(contracts)}

\* Analyze.  byName has the last block of a name.
ByName(name) ==
  LET same == {i \in 1..Len(functions) : functions[i].name = name}
  IN IF same = {} THEN NoBlock ELSE functions[CHOOSE i \in same : \A j \in same : j <= i]

Interaction(l) ==
  \/ l.kind \in Calls
  \/ l.kind = "invoke" /\ \E n \in 1..Len(ByName(l.name).lines) : file[ByName(l.name).lines[n]].kind \in Calls

\* The modifiers are read off the head, and off any later line that leaves the
\* braces balanced.
HasGuard(b) ==
  \/ \E i \in 1..Len(b.lines) : /\ i = 1 \/ Depth(LinesOf(b.lines), i) = 0
                                /\ "nonReentrant" \in file[b.lines[i]].marks
  \/ HasReentrancyGuard(Stripped(LinesOf(b.lines)), file)

WritesAfter(b) ==
  {j \in 1..Len(b.lines) : /\ KnownBy(file[b.lines[j]]) # NoName
                           /\ \E i \in 1..(j - 1) : Interaction(file[b.lines[i]])}

LegacyReentrancy ==
  {[rule |-> "reentrancy", name |-> b.name,
    line |-> b.lines[CHOOSE j \in WritesAfter(b) : \A k \in WritesAfter(b) : j <= k], of |-> b.lines] :
     b \in {functions[i] : i \in {n \in 1..Len(functions) :
              ~HasGuard(functions[n]) /\ WritesAfter(functions[n]) # {}}}}

-----------------------------------------------------------------------------
(* AccessControlDetector.Analyze: the first check in the way that applies.  *)

\* isInterfaceOrAbstractSignature: it ends in ";".
BodylessSignature(head) == head.kind = "declaration"

\* isFunctionSafeFromAC: by its visibility, its name or one of safeAccessModifiers,
\* and nonReentrant is one of those.
SafeFromAC(head) == head.visibility = "internal" \/ head.name \in Underscored \/ head.marks # {}

\* isFunctionInlineProtected: a check of the sender, in the first fifteen lines.
InlineProtected(b) == \E i \in 1..Len(b.lines) : i <= 15 /\ file[b.lines[i]].kind = "ownerCheck"

HasManualInitializerGuard(b) == "initCheck" \in KindsIn(b.lines)

Exempt(b) ==
  LET head == file[b.lines[1]]
  IN \/ head.visibility = "internal"
     \/ HasAccessControlGuard(Stripped(LinesOf(b.lines)))
     \/ BodylessSignature(head)
     \/ SafeFromAC(head)
     \/ b.name = "initialize" /\ HasManualInitializerGuard(b)
     \/ InlineProtected(b)

\* accessControlPatterns: a check or a modifier's name anywhere in the block's text,
\* and "Ownable" within any word.
HasControl(b) ==
  \E i \in 1..Len(b.lines) : LET l == file[b.lines[i]]
                             IN l.kind \in {"ownerCheck", "ownableInit"} \/ "onlyOwner" \in l.marks

\* criticalFunctionNames and criticalStateVarPatterns
Sensitive(b) ==
  \/ b.name \in Critical
  \/ \E k \in 1..Len(b.lines) : file[b.lines[k]].kind = "write"

AccessControl ==
  {[rule |-> "access-control", name |-> b.name, line |-> b.lines[1], of |-> b.lines] :
     b \in {parts[i] : i \in {n \in 1..Len(parts) :
              ~Exempt(parts[n]) /\ ~HasControl(parts[n]) /\ Sensitive(parts[n])}}}

-----------------------------------------------------------------------------

DetectorsInit == ParseInit /\ withGraph = FALSE /\ findings = {} /\ scanned = FALSE

WriteLine == ~scanned /\ ReadLine /\ UNCHANGED <<withGraph, findings, scanned>>

Scan ==
  /\ ~scanned /\ scopes = <<>> /\ file # <<>>
  /\ withGraph' \in BOOLEAN
  /\ findings' = (IF withGraph' /\ contracts # <<>> THEN GraphReentrancy ELSE LegacyReentrancy)
                   \cup AccessControl \cup LineFindings
  /\ scanned' = TRUE
  /\ UNCHANGED parseVars

DetectorsNext == WriteLine \/ Scan
DetectorsSpec == DetectorsInit /\ [][DetectorsNext]_detectorVars

-----------------------------------------------------------------------------
(* Properties *)

LineKinds(f) == {file[f.lines[i]].kind : i \in 1..Len(f.lines)}
AllMarks(f)  == UNION {file[f.lines[i]].marks : i \in 1..Len(f.lines)}

\* The line of a function's first "{"
Brace(f) == First({n \in Members(f.lines) : Opens(file[n]) = 1})

Before(n, kinds) == \E m \in 1..(n - 1) : file[m].kind \in kinds

\* A write after a call, in the function's own lines and to a variable of known.
CallThenWrite(f, known) ==
  \E i, j \in 1..Len(f.lines) : /\ i < j
                                /\ file[f.lines[i]].kind \in Calls
                                /\ KnownBy(file[f.lines[j]]) \in known

\* An unguarded function that writes its contract's state after an external call
\* is reported, once the graph was built, unless its name starts with "_", a
\* later overload took its place, its head takes three lines, a function without
\* a body or a contract on one line comes before it, or its contract's head is
\* laid out on several lines: then nothing in the file says that it was not
\* looked at (the fallback of reentrancy_v2.go:62-74 is for files without any
\* contract).
MissedForAReason ==
  scanned /\ withGraph =>
    \A k \in 1..Len(source) : \A n \in 1..Len(source[k].items) :
      LET f == source[k].items[n]
      IN /\ f.kind = "function" /\ file[f.lines[1]].visibility # "internal"
         /\ CallThenWrite(f, source[k].vars)
         /\ "check" \notin LineKinds(f) /\ "nonReentrant" \notin AllMarks(f)
         => \/ \E r \in findings : r.rule = "reentrancy" /\ r.name = f.name /\ r.of = f.lines
            \/ f.name \in Underscored
            \/ \E m \in (f.lines[1] + 1)..Len(file) :
                 file[m].kind \in FunctionLines /\ file[m].name = f.name
            \/ "attributes" \in LineKinds(f)
            \/ Before(f.lines[1], {"declaration", "emptyContract"})
            \/ \E v \in 1..Len(file) : file[v].kind \in {"variable", "lockVariable"} /\ Before(v, {"declaration"})
            \/ file[source[k].line].kind = "bareContract"

\* Line n is a write in the function, after a call.
Later(f, n) == \E i, j \in 1..Len(f.lines) : /\ i < j /\ f.lines[j] = n
                                              /\ KnownBy(file[n]) # NoName
                                              /\ Interaction(file[f.lines[i]])

\* What is reported as reentrancy is a function that writes after a call and is
\* not guarded, or a function without a body that was given the lines below it.
\* With the graph no function is reported that has a check of the lock anywhere
\* in its first GuardScanDepth lines; without it, none whose check comes before
\* any write and call and that far below the "{".  Without it the line is that
\* of a write in the function.
ReportedForAReason ==
  scanned => \A r \in {x \in findings : x.rule = "reentrancy"} :
    LET f == CHOOSE g \in Functions(source) : g.lines[1] = r.of[1]
    IN IF withGraph
       THEN \/ file[r.of[1]].kind = "declaration"
            \/ /\ r.of = f.lines /\ "nonReentrant" \notin AllMarks(f)
               /\ CallThenWrite(f, {"variable", "lockVariable"})
               /\ \A i \in 1..Len(f.lines) : file[f.lines[i]].kind = "check" => i > GuardScanDepth
       ELSE \/ Has({"declaration"})
            \/ /\ r.of = Whole(f).lines /\ "nonReentrant" \notin AllMarks(f) /\ Later(f, r.line)
               /\ \A i \in 1..Len(f.lines) : file[f.lines[i]].kind = "check" =>
                    \/ f.lines[i] > Brace(f) + GuardScanDepth
                    \/ \E j \in 1..(i - 1) : IsStateWriteOrCall(file[f.lines[j]])

\* The reentrancy detector misses nothing and reports nothing without one of these reasons.
ReentrancyForAReason == MissedForAReason /\ ReportedForAReason

\* What passes for a check of the sender: a call of __Ownable_init, too, and in
\* initialize that of the flag.
Controls(f) == {"ownerCheck", "ownableInit"} \cup (IF f.name = "initialize" THEN {"initCheck"} ELSE {})

\* An external function that writes the owner, or is sensitive by its name, and
\* has no check of the sender is reported, and one that has is not; unless its
\* head takes more than a line, or it is on one line: then the block taken for
\* it is two lines, or its own and the whole function below it.
AccessControlForAReason ==
  scanned =>
    /\ \A f \in Functions(source) :
         \/ file[f.lines[1]].visibility = "internal" \/ f.name \in Underscored
         \/ (LineKinds(f) \cap Controls(f) = {} /\ AllMarks(f) = {} /\ (f.name \in Critical \/ "write" \in LineKinds(f)))
            <=> (\E r \in findings : r.rule = "access-control" /\ r.line = f.lines[1] /\ r.name = f.name)
         \/ LineKinds(f) \cap {"attributes", "oneLiner"} # {}
         \/ file[f.lines[1]].kind = "signature" /\ file[f.lines[1] + 1].kind = "comment"
         \/ Before(f.lines[1], {"declaration", "oneLiner"})
    /\ \A r \in findings : r.rule = "access-control" =>
         \E f \in Functions(source) : f.lines[1] = r.line /\ f.name = r.name

\* Both detectors account for the functions they report and leave out.
FunctionsForAReason == ReentrancyForAReason /\ AccessControlForAReason

Found(rule, n) == \E r \in findings : r.rule = rule /\ r.line = n

\* The lines below the call on line n, in the same function, that look at a result
\* of that name, or of a longer one.
ChecksBelow(f, n, name) ==
  {m \in Members(f.lines) : m > n /\ (IsZero(file[m], name) \/ Requires(file[m], name))}

\* A "}" between its assembly block's first line and line m
AssemblyLost(m) ==
  \E z \in 1..(m - 1) : Closes(file[z]) = 1 /\ \A a \in z..m : file[a].kind # "assembly"

\* A call is reported for its result if and only if the function looks at neither
\* that result again nor one whose name begins with its name, or only ten lines or
\* more below, or in assembly after a nested block; but a call whose result goes nowhere passes for checked when
\* another's was declared in the three lines above it and is looked at below.
\* Calls in constructors and modifiers are never looked at.
ResultsForAReason ==
  scanned =>
    /\ \A f \in Functions(source) : \A n \in Members(f.lines) :
         /\ file[n].kind = "result" =>
              (Found("unchecked-call", n)
               <=> \A m \in ChecksBelow(f, n, file[n].name) :
                     m - n >= 10 \/ (file[m].kind = "isZero" /\ AssemblyLost(m)))
         /\ file[n].kind = "call" =>
              \/ Found("unchecked-call", n)
              \/ \E d \in Members(f.lines) : /\ file[d].kind = "result" /\ d < n /\ n - d <= 3
                                             /\ ChecksBelow(f, n, file[d].name) # {}
    /\ \A r \in findings : r.rule = "unchecked-call" =>
         \/ \E f \in Functions(source) : r.line \in Members(f.lines)
         \/ Before(r.line, {"declaration"})

GuardLines(f)   == {n \in Members(f.lines) : SafeGuard(file[n])}
SaysInternal(f) == \E n \in Members(f.lines) : file[n].visibility = "internal"

\* A guard more than InitWindow lines below the "{", and after a write or a call of
\* the function's outermost block or more than GuardScanDepth lines below: too far
\* down to be seen, though it works.
TooFar(f, g) ==
  /\ g > Brace(f) + InitWindow
  /\ \/ file[g].kind # "initCheck"
     \/ g > Brace(f) + GuardScanDepth
     \/ \E w \in (Brace(f) + 1)..(g - 1) :
          /\ IsStateWriteOrCall(file[w])
          /\ Depth(LinesOf(FromTo(Brace(f) + 1, w)), w - Brace(f)) = 0

\* An external initialize is reported if and only if nothing in it guards against
\* a second call, or what does is too far down; a guard inside a branch counts.
\* An internal one is reported only if its head says so below its first line.
InitializersForAReason ==
  \A f \in {g \in Functions(source) : g.name = "initialize"} :
    \/ Before(f.lines[1], {"declaration"})
    \/ IF SaysInternal(f)
       THEN Found("reinitializable-init", f.lines[1]) => file[f.lines[1]].kind = "signature"
       ELSE Found("reinitializable-init", f.lines[1]) <=> \A g \in GuardLines(f) : TooFar(f, g)

\* A constructor's lines: to the first line where its braces are closed.
ConstructorLines(n) ==
  LET ends == {m \in n..Len(file) : /\ Depth(LinesOf(FromTo(n, m)), m - n + 1) = 0
                                    /\ \E i \in n..m : Opens(file[i]) = 1}
  IN FromTo(n, First(ends))

\* A constructor that writes is reported in a file with any sign of upgradeable
\* contracts, in another contract too, and in no other file; one whose head takes
\* three lines never is.
ConstructorsForAReason ==
  \A n \in {m \in 1..Len(file) : file[m].kind \in {"constructor", "constructorHead"}} :
    Found("constructor-in-upgradeable", n)
      <=> /\ Has({"upgradeable", "base", "gap", "ownableInit"})
          /\ KindsIn(ConstructorLines(n)) \cap {"write", "set", "reset", "ownableInit"} # {}
          /\ file[n].kind = "constructor" \/ file[n + 1].kind = "brace"

\* The lines of the k-th contract, and what follows it.
Text(k) == FromTo(source[k].line, IF k < Len(source) THEN source[k + 1].line - 1 ELSE Len(file))

\* An upgradeable contract with variables and no gap is reported and no other is,
\* but one whose header goes on in a second line never is; a contract that
\* inherits OwnableUpgradeable and never sets the owner is reported however its
\* header is laid out, unless a comment stands above the base.
ContractsForAReason ==
  \A k \in 1..Len(source) :
    LET kinds == KindsIn(Text(k))
        n     == source[k].line
        bases == {m \in Members(Text(k)) : file[m].kind \in {"upgradeable", "base"}}
        named(names) == \E m \in Members(Text(k)) : file[m].kind \in FunctionLines /\ file[m].name \in names
    IN /\ Found("storage-gap-missing", n)
            <=> /\ bases # {} \/ "ownableInit" \in kinds \/ named({"initialize"})
                /\ source[k].vars # {} /\ "gap" \notin kinds
                /\ file[n].kind = "bareContract" => file[n + 1].kind = "brace"
       /\ Found("uninitialized-ownable", n)
            <=> /\ \E m \in bases : m = n \/ file[m - 1].kind # "comment"
                /\ "ownableInit" \notin kinds /\ ~named({"transferOwnership"})

\* What the detectors of upgradeable contracts miss and report wrongly has these
\* reasons.
UpgradesForAReason ==
  scanned => InitializersForAReason /\ ConstructorsForAReason /\ ContractsForAReason

=============================================================================
