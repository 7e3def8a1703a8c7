--------------------------- MODULE LineDetectors ---------------------------
(***************************************************************************)
(* The detectors that look through a window of lines: UncheckedCall for    *)
(* the check of a call's result among the lines below it, Reinitializable- *)
(* Init for a guard among the first lines of an initialize(), and three    *)
(* that look through a constructor's or a contract's lines: Constructor-   *)
(* InUpgradeable, StorageGapMissing and UninitializedOwnable.              *)
(*                                                                         *)
(* Each cuts its blocks out of the file itself, with the extractors of     *)
(* ContractParser or with a count of braces of its own (BlockFrom), and    *)
(* what it says is compared with the contracts, functions and constructors *)
(* of the language.  A line is what its detector's patterns make of it;    *)
(* severities and texts are left out.                                      *)
(***************************************************************************)
EXTENDS PathTracker

CONSTANT InitWindow   \* isProtected: the lines looked at below the first "{", 8

ASSUME InitWindowAssumption == InitWindow \in Nat

LineFinding(rule, name, lines) == [rule |-> rule, name |-> name, line |-> lines[1], of |-> lines]

LinesOf(ns)   == [i \in 1..Len(ns) |-> file[ns[i]]]
FromTo(n, m)  == [i \in 1..(m - n + 1) |-> n + i - 1]
KindsIn(ns)   == {file[ns[i]].kind : i \in 1..Len(ns)}
First(ns)     == CHOOSE n \in ns : \A m \in ns : n <= m

-----------------------------------------------------------------------------
(* UncheckedCallDetectorV2: a call's result is looked for by its name.      *)

LookBack  == 3    \* extractMultilineAssignedBool
LookAhead == 10   \* isVarChecked

\* The name on the call's own line, else the first one declared in the lines just
\* above, whichever call that was the result of.
VarName(ls, i) ==
  LET above == {j \in 1..(i - 1) : i - j <= LookBack /\ ls[j].kind = "result"}
  IN IF ls[i].kind = "result" THEN ls[i].name
     ELSE IF above = {} THEN NoName ELSE ls[First(above)].name

\* The first line with a "}" ends an assembly block, a nested block's included.
InAssembly(ls, i, j) ==
  \E a \in (i + 1)..j : ls[a].kind = "assembly" /\ \A m \in a..(j - 1) : Closes(ls[m]) = 0

\* requireVarRe has no word boundary after the name: a longer one passes for it.
LongerNames == {<<"ok", "okTo">>}
Requires(l, name) == l.kind = "resultCheck" /\ (l.name = name \/ <<name, l.name>> \in LongerNames)
IsZero(l, name)   == l.kind = "isZero" /\ l.name = name

\* A bug to catch: one line more.
CheckedBeyond(ls, i) ==
  \E j \in (i + 1)..Len(ls) :
    /\ j - i <= LookAhead
    /\ IF InAssembly(ls, i, j) THEN IsZero(ls[j], VarName(ls, i)) ELSE Requires(ls[j], VarName(ls, i))

IsVarChecked(ls, i) ==
  \E j \in (i + 1)..Len(ls) :
    /\ j - i < LookAhead
    /\ IF InAssembly(ls, i, j) THEN IsZero(ls[j], VarName(ls, i)) ELSE Requires(ls[j], VarName(ls, i))

Unchecked(b) ==
  {i \in 1..Len(b.lines) : /\ file[b.lines[i]].kind \in Calls
                           /\ ~(VarName(LinesOf(b.lines), i) # NoName /\ IsVarChecked(LinesOf(b.lines), i))}

UncheckedCalls ==
  UNION {{LineFinding("unchecked-call", functions[n].name, <<functions[n].lines[i]>>) :
            i \in Unchecked(functions[n])} : n \in 1..Len(functions)}

-----------------------------------------------------------------------------
(* ReinitializableInitDetector *)

SafeGuard(l) == l.kind \in {"initCheck", "disable"} \/ l.marks \cap {"onlyOwner", "initializer"} # {}

\* A bug to catch: only the modifiers of the head count.
IsProtectedByHead(ls) ==
  LET head == First({i \in 1..Len(ls) : Opens(ls[i]) = 1})
  IN \E i \in 1..head : SafeGuard(ls[i])

\* The head, the window, and the guard zone of PathTracker.
IsProtected(ls) ==
  LET head == First({i \in 1..Len(ls) : Opens(ls[i]) = 1})
  IN \/ \E i \in 1..Len(ls) : i <= head + InitWindow /\ SafeGuard(ls[i])
     \/ EarlyGuards(Stripped(ls), "initialized") # {}

\* The visibility is that of the first line alone.
Reinitializable ==
  {LineFinding("reinitializable-init", "initialize", b.lines) :
     b \in {functions[n] : n \in {m \in 1..Len(functions) :
              /\ functions[m].name = "initialize"
              /\ file[functions[m].lines[1]].visibility # "internal"
              /\ ~IsProtected(LinesOf(functions[m].lines))}}}

-----------------------------------------------------------------------------
(* The blocks of extractConstructors and extractContractBlocks: a block ends *)
(* with its first line if that opens and closes, and else with the first     *)
(* line below it at which no brace is open.                                  *)

BlockFrom(n) ==
  LET ends == {m \in n..Len(file) : /\ Depth(LinesOf(FromTo(n, m)), m - n + 1) <= 0
                                    /\ m > n \/ Opens(file[n]) = 1}
  IN FromTo(n, First(ends))

\* ConstructorInUpgradeableDetector: one sign anywhere makes the file upgradeable.
UpgradeableSigns == {"upgradeable", "base", "gap", "ownableInit"}

\* classifyBody: criticalPatterns and stateWritePatterns
ConstructorWrites == {"write", "set", "reset", "ownableInit"}

ConstructorInUpgradeable ==
  {LineFinding("constructor-in-upgradeable", NoName, BlockFrom(n)) :
     n \in {m \in 1..Len(file) : /\ file[m].kind \in {"constructor", "constructorHead"}
                                 /\ \E i \in 1..Len(file) : file[i].kind \in UpgradeableSigns
                                 /\ KindsIn(BlockFrom(m)) \cap ConstructorWrites # {}}}

\* StorageGapMissingDetector: the signs of a contract are in its own block.
UpgradeableBlock(ns) ==
  \/ KindsIn(ns) \cap {"upgradeable", "base", "ownableInit"} # {}
  \/ \E i \in 1..Len(ns) : file[ns[i]].kind \in FunctionLines /\ file[ns[i]].name = "initialize"

\* collectStateVars: one brace deep
StateVars(ns) ==
  {i \in 1..Len(ns) : /\ file[ns[i]].kind \in {"variable", "lockVariable"}
                      /\ i > 1 /\ Depth(LinesOf(ns), i - 1) = 1}

StorageGapMissing ==
  {LineFinding("storage-gap-missing", NoName, BlockFrom(n)) :
     n \in {m \in 1..Len(file) : /\ file[m].kind \in ContractLines
                                 /\ UpgradeableBlock(BlockFrom(m))
                                 /\ "gap" \notin KindsIn(BlockFrom(m))
                                 /\ StateVars(BlockFrom(m)) # {}}}

\* UninitializedOwnableDetector, on blocks cut as extractContracts cuts them: the
\* header is joined to one line, in which a comment hides the base that follows it.
InheritsOwnable(ns) ==
  \/ file[ns[1]].kind = "upgradeable"
  \/ \E i \in 2..Len(ns) : file[ns[i]].kind = "base" /\ file[ns[i - 1]].kind # "comment"

\* A function of that name is taken for a call of it.
OwnershipInitialized(ns) ==
  \/ "ownableInit" \in KindsIn(ns)
  \/ \E i \in 1..Len(ns) : file[ns[i]].kind \in FunctionLines /\ file[ns[i]].name = "transferOwnership"

UninitializedOwnable ==
  {LineFinding("uninitialized-ownable", NoName, blocks[k]) :
     k \in {j \in 1..Len(blocks) : InheritsOwnable(blocks[j]) /\ ~OwnershipInitialized(blocks[j])}}

\* What the five find in a finished file.
LineFindings ==
  UncheckedCalls \cup Reinitializable \cup ConstructorInUpgradeable \cup StorageGapMissing
    \cup UninitializedOwnable
=============================================================================
