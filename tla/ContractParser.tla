--------------------------- MODULE ContractParser ---------------------------
(***************************************************************************)
(* Who reads a Solidity file line by line: the parser of the inheritance   *)
(* graph (inheritancegraph/parser.go) and the extractors of the detectors, *)
(* extractFunctions (function_block.go), extractFunctionBlocks             *)
(* (helpers.go) and extractContracts (override_removes_restriction.go).    *)
(* All match a line against                                                *)
(* patterns and count its braces; they differ in when a function begins,   *)
(* in what ends it and in whether a comment is one of its lines.           *)
(*                                                                         *)
(* The file is written a line at a time.  A line is known by its kind: the *)
(* pattern it matches, its braces, and what the detectors look for in it.  *)
(* The grammar of the language (Fits, Follow) says which line may come     *)
(* next and to which contract and function it really belongs; what the     *)
(* readers make of it is compared with that.                               *)
(***************************************************************************)
EXTENDS Integers, Sequences, FiniteSets

CONSTANT Styles   \* how a file may be written: its length, the kinds of lines, the heads
                  \* of functions, the names of call results

ContractLines == {"contract",        \* contract A {
                  "upgradeable",     \* contract A is OwnableUpgradeable {
                  "emptyContract",   \* contract A {}
                  "bareContract"}    \* contract A is
FunctionLines == {"function",        \* function f() external {
                  "oneLiner",        \* function f() external { ... }
                  "declaration",     \* function f() external;
                  "signature"}       \* function f(uint a)
Statements    == {"write",           \* owner = o;
                  "call",            \* a.call{value: v}("");
                  "result",          \* (bool ok, ) = a.call{value: v}("");
                  "resultCheck",     \* require(ok);
                  "assembly",        \* assembly {
                  "isZero",          \* if iszero(ok) { revert(0, 0) }
                  "invoke",          \* f();
                  "check",           \* require(!_locked);
                  "set",             \* _locked = true;
                  "reset",           \* _locked = false;
                  "ownerCheck",      \* require(msg.sender == owner);
                  "initCheck",       \* require(!initialized);
                  "ownableInit",     \* __Ownable_init();
                  "disable",         \* _disableInitializers();
                  "other"}           \* emit E();
OtherLines    == {"import", "comment",
                  "parents",         \* B, C     below "contract A is"
                  "base",            \* OwnableUpgradeable     there, too
                  "attributes",      \* external onlyOwner     below a signature
                  "brace",           \* {
                  "constructor",     \* constructor() {
                  "constructorHead", \* constructor()
                  "constructorMark", \* initializer     below a constructorHead
                  "modifier",        \* modifier m() {
                  "bareModifier",    \* modifier m {
                  "variable",        \* address owner;
                  "lockVariable",    \* bool _locked;
                  "gap",             \* uint256[50] private __gap;
                  "yulBlock",        \* if lt(n, 1) {     in assembly
                  "block",           \* if (c) {
                  "else",            \* } else {
                  "close"}           \* }
Kinds == ContractLines \cup FunctionLines \cup Statements \cup OtherLines

Calls   == {"call", "result"}
Opening == Calls \cup {"contract", "upgradeable", "emptyContract", "function", "oneLiner", "brace",
                       "constructor", "modifier", "bareModifier", "block", "else", "assembly",
                       "yulBlock", "isZero"}
Closing == Calls \cup {"emptyContract", "oneLiner", "else", "close", "isZero"}
Named   == {"result", "resultCheck", "isZero"}   \* the lines that name a call's result

NoName == "none"

\* name and what a head or an attributes line says; the others say nothing
Marks == {"onlyOwner", "nonReentrant", "initializer"}
Lines == [kind : Kinds, name : STRING, visibility : {"external", "internal", "none"},
          marks : SUBSET Marks]

ASSUME StylesAssumption ==
  \A s \in Styles : /\ s.length \in Nat
                    /\ s.kinds \subseteq Kinds
                    /\ \A h \in s.heads : [h EXCEPT !.name = "x"] \in
                         [name : {"x"}, visibility : {"external", "internal"}, marks : SUBSET Marks]
                    /\ NoName \notin s.results

VARIABLES
  style,
  file,            \* the lines so far
  scopes, source,  \* what is open, and the contracts, by the language
  contracts,       \* parseResult.contracts
  imports,         \* parseResult.imports
  current,         \* currentContract # nil: it is the last of contracts
  contractDepth,
  unit, unitDepth, \* currentFunc or currentModifier, functionDepth or modifierDepth
  cut, cutDepth, functions,   \* current, depth and blocks of extractFunctions
  part, partDepth, parts,     \* and of extractFunctionBlocks
  header, gathered, gatheredDepth, blocks   \* headerLines, current, depth, blocks of extractContracts

grammarVars == <<style, file, scopes, source>>
parserVars  == <<contracts, imports, current, contractDepth, unit, unitDepth>>
cutVars     == <<cut, cutDepth, functions>>
partVars    == <<part, partDepth, parts>>
gatherVars  == <<header, gathered, gatheredDepth, blocks>>
parseVars   == <<grammarVars, parserVars, cutVars, partVars, gatherVars>>

-----------------------------------------------------------------------------
(* Lines *)

Opens(l)  == IF l.kind \in Opening THEN 1 ELSE 0
Closes(l) == IF l.kind \in Closing THEN 1 ELSE 0
Delta(l)  == Opens(l) - Closes(l)

Here == Len(file) + 1    \* the number of the line being read

Plain(k)   == [kind |-> k, name |-> NoName, visibility |-> "none", marks |-> {}]
Headed(k, h) == [kind |-> k, name |-> h.name, visibility |-> h.visibility, marks |-> h.marks]

\* The lines of a style.  A signature says its name only; attributes all but the name.
LineChoices(s) ==
  {Plain(k) : k \in s.kinds \ (FunctionLines \cup Named \cup {"attributes", "invoke"})}
    \cup {[Plain(k) EXCEPT !.name = r] : k \in s.kinds \cap Named, r \in s.results}
    \cup {Headed(k, h) : k \in s.kinds \cap (FunctionLines \ {"signature"}), h \in s.heads}
    \cup {[Plain(k) EXCEPT !.name = h.name] : k \in s.kinds \cap {"signature", "invoke"}, h \in s.heads}
    \cup {[Headed(k, h) EXCEPT !.name = NoName] : k \in s.kinds \cap {"attributes"}, h \in s.heads}

-----------------------------------------------------------------------------
(* The language *)

Top(s)    == IF s = <<>> THEN "file" ELSE s[Len(s)]
Pop(s)    == SubSeq(s, 1, Len(s) - 1)

\* The results in reach of the next line: a function declares a name once.
Bodies   == FunctionLines \cup {"constructor", "constructorHead", "modifier", "bareModifier"}
Declared == {file[i].name : i \in {j \in 1..Len(file) :
               file[j].kind = "result" /\ \A k \in j..Len(file) : file[k].kind \notin Bodies}}

Fits(l) ==
  CASE Top(scopes) = "file"      -> l.kind \in ContractLines \cup {"import", "comment"}
    [] Top(scopes) = "header"    -> l.kind \in {"parents", "base", "brace", "comment"}
    [] Top(scopes) = "signature" -> l.kind \in {"attributes", "brace", "comment"}
    [] Top(scopes) = "constructorHead" -> l.kind \in {"constructorMark", "brace", "comment"}
    [] Top(scopes) = "contract"  -> l.kind \in Bodies \cup {"variable", "lockVariable", "gap", "close", "comment"}
    [] Top(scopes) = "assembly"  -> \/ l.kind \in {"yulBlock", "close", "comment"}
                                    \/ l.kind = "isZero" /\ l.name \in Declared
    [] OTHER -> \/ l.kind \in (Statements \ Named) \cup {"block", "close", "comment"}
                \/ l.kind = "result" /\ l.name \notin Declared
                \/ l.kind = "resultCheck" /\ l.name \in Declared
                \/ l.kind = "else" /\ Top(scopes) = "block"

\* The scopes after the line.
Scoped(l) ==
  CASE l.kind \in {"contract", "function", "constructor", "constructorHead", "block", "signature",
                   "assembly"} -> Append(scopes, l.kind)
    [] l.kind = "upgradeable" -> Append(scopes, "contract")
    [] l.kind = "yulBlock" -> Append(scopes, "assembly")
    [] l.kind \in {"modifier", "bareModifier"} -> Append(scopes, "modifier")
    [] l.kind = "bareContract" -> Append(scopes, "header")
    [] l.kind = "brace" -> Append(Pop(scopes), CASE Top(scopes) = "header"          -> "contract"
                                                 [] Top(scopes) = "constructorHead" -> "constructor"
                                                 [] OTHER                           -> "function")
    [] l.kind = "close" -> Pop(scopes)
    [] OTHER -> scopes

\* What becomes of the contracts: a function or modifier with a body is one from
\* its head to the line that closes it.
Item(k, l)   == [kind |-> k, name |-> l.name, lines |-> <<Here>>]
Sourced(l) ==
  LET last      == Len(source)
      Begin(k)  == [source EXCEPT ![last].items = Append(@, Item(k, l))]
      Continued == [source EXCEPT ![last].items[Len(source[last].items)].lines = Append(@, Here)]
      InItem    == \E i \in 1..Len(scopes) : scopes[i] \in {"function", "signature", "modifier"}
  IN CASE l.kind \in ContractLines -> Append(source, [line |-> Here, items |-> <<>>, vars |-> {}])
       [] l.kind \in FunctionLines \ {"declaration"} -> Begin("function")
       [] l.kind \in {"modifier", "bareModifier"} -> Begin("modifier")
       [] l.kind \in {"variable", "lockVariable"} ->
            [source EXCEPT ![last].vars = @ \cup {l.kind}]
       [] l.kind # "comment" /\ InItem -> Continued
       [] OTHER -> source

Follow(l) == scopes' = Scoped(l) /\ source' = Sourced(l)

-----------------------------------------------------------------------------
(* fileParser.parse *)

NoUnit == [kind |-> NoName, name |-> NoName, lines |-> <<>>]

Decl == [line |-> Here, items |-> <<>>, vars |-> {}]

CommentSkipped(l) == l.kind = "comment" /\ UNCHANGED parserVars

OutsideLine(l) ==
  /\ l.kind \notin ContractLines \cup {"comment"}
  /\ ~current
  /\ imports' = IF l.kind = "import" THEN imports \cup {Here} ELSE imports
  /\ UNCHANGED <<contracts, current, contractDepth, unit, unitDepth>>

\* Of a contract's own line the opening brace counts, and only that.
ContractBegins(l) ==
  /\ l.kind \in ContractLines /\ ~current
  /\ contracts' = Append(contracts, Decl)
  /\ current' = TRUE
  /\ contractDepth' = Opens(l)
  /\ UNCHANGED <<imports, unit, unitDepth>>

UnitKind(l) == IF l.kind \in FunctionLines THEN "function" ELSE "modifier"

Finished(u) == [contracts EXCEPT ![Len(contracts)].items = Append(@, u)]

UnitBegins(l) ==
  /\ l.kind \in FunctionLines \cup {"modifier"}
  /\ current /\ unit = NoUnit /\ contractDepth = 1
  /\ LET u == Item(UnitKind(l), l)
     IN IF Delta(l) <= 0 /\ Opens(l) > 0
        THEN contracts' = Finished(u) /\ UNCHANGED <<unit, unitDepth>>
        ELSE unit' = u /\ unitDepth' = Delta(l) /\ UNCHANGED contracts
  /\ contractDepth' = contractDepth + Delta(l)
  /\ UNCHANGED <<imports, current>>

\* A bug to catch: the braces inside a function are its own business.
UnitKeepsBraces(l) ==
  /\ l.kind # "comment"
  /\ current /\ unit # NoUnit
  /\ LET u == [unit EXCEPT !.lines = Append(@, Here)]
     IN IF unitDepth + Delta(l) <= 0
        THEN contracts' = Finished(u) /\ unit' = NoUnit /\ unitDepth' = 0
        ELSE unit' = u /\ unitDepth' = unitDepth + Delta(l) /\ UNCHANGED contracts
  /\ UNCHANGED <<contractDepth, imports, current>>

UnitContinues(l) ==
  /\ l.kind # "comment"
  /\ current /\ unit # NoUnit
  /\ LET u == [unit EXCEPT !.lines = Append(@, Here)]
     IN IF unitDepth + Delta(l) <= 0
        THEN contracts' = Finished(u) /\ unit' = NoUnit /\ unitDepth' = 0
        ELSE unit' = u /\ unitDepth' = unitDepth + Delta(l) /\ UNCHANGED contracts
  /\ contractDepth' = contractDepth + Delta(l)
  /\ UNCHANGED <<imports, current>>

\* Only here is the end of a contract looked for.
ScopeLine(l) ==
  /\ l.kind # "comment"
  /\ current /\ unit = NoUnit
  /\ ~(contractDepth = 1 /\ l.kind \in FunctionLines \cup {"modifier"})
  /\ contracts' = IF contractDepth = 1 /\ l.kind \in {"variable", "lockVariable"}
                  THEN [contracts EXCEPT ![Len(contracts)].vars = @ \cup {l.kind}]
                  ELSE contracts
  /\ IF contractDepth + Delta(l) <= 0
     THEN current' = FALSE /\ contractDepth' = 0
     ELSE contractDepth' = contractDepth + Delta(l) /\ UNCHANGED current
  /\ UNCHANGED <<imports, unit, unitDepth>>

Parse(l) == \/ CommentSkipped(l)
            \/ OutsideLine(l)
            \/ ContractBegins(l)
            \/ UnitBegins(l)
            \/ UnitContinues(l)
            \/ ScopeLine(l)

-----------------------------------------------------------------------------
(* extractFunctions: a block lasts until the braces balance and there were some. *)

NoBlock == [name |-> NoName, lines |-> <<>>]

HasBrace(ls) == \E i \in 1..Len(ls) : IF ls[i] = Here THEN FALSE ELSE Opens(file[ls[i]]) = 1

\* What extractFunctions knows after a line: the open block, its braces, the blocks.
NoCut == [open |-> NoBlock, depth |-> 0, done |-> <<>>]

Cut(st, l, n) ==
  IF st.open = NoBlock /\ l.kind \notin FunctionLines THEN st
  ELSE LET block == IF st.open = NoBlock THEN [name |-> l.name, lines |-> <<n>>]
                    ELSE [st.open EXCEPT !.lines = Append(@, n)]
           depth == st.depth + Delta(l)
       IN IF depth = 0 /\ (Opens(l) = 1 \/ HasBrace(block.lines))
          THEN [open |-> NoBlock, depth |-> 0, done |-> Append(st.done, block)]
          ELSE [st EXCEPT !.open = block, !.depth = depth]

CutLine(l) ==
  LET st == Cut([open |-> cut, depth |-> cutDepth, done |-> functions], l, Here)
  IN cut' = st.open /\ cutDepth' = st.depth /\ functions' = st.done

(* extractContracts of the override detector.  A contract's line and the ones *)
(* after it are its header until a "{"; then its lines last until the braces  *)
(* balance.  Its functions are those extractFunctions finds in its own lines. *)
GatherContract(l) ==
  IF gathered # <<>>
  THEN LET depth == gatheredDepth + Delta(l)
       IN /\ gathered'      = IF depth <= 0 THEN <<>> ELSE Append(gathered, Here)
          /\ gatheredDepth' = IF depth <= 0 THEN 0 ELSE depth
          /\ blocks'        = IF depth <= 0 THEN Append(blocks, Append(gathered, Here)) ELSE blocks
          /\ UNCHANGED header
  ELSE IF header = <<>> /\ l.kind \notin ContractLines THEN UNCHANGED gatherVars
  ELSE IF Opens(l) = 0 THEN header' = Append(header, Here) /\ UNCHANGED <<gathered, gatheredDepth, blocks>>
  ELSE \* no earlier line of the header has a brace
       /\ header' = <<>>
       /\ gathered'      = IF Delta(l) <= 0 THEN <<>> ELSE Append(header, Here)
       /\ gatheredDepth' = IF Delta(l) <= 0 THEN 0 ELSE Delta(l)
       /\ blocks'        = IF Delta(l) <= 0 THEN Append(blocks, Append(header, Here)) ELSE blocks

\* extractContractFunctions, of a finished contract
ContractFunctions(block) ==
  LET after[i \in 0..Len(block)] ==
        IF i = 0 THEN NoCut
        ELSE CHOOSE st \in {Cut(before, file[block[i]], block[i]) : before \in {after[i - 1]}} : TRUE
  IN after[Len(block)].done

(* extractFunctionBlocks: until they balance after the first line. *)
CutPart(l) ==
  IF part = NoBlock /\ l.kind \notin FunctionLines THEN UNCHANGED partVars
  ELSE LET block == IF part = NoBlock THEN [name |-> l.name, lines |-> <<Here>>]
                    ELSE [part EXCEPT !.lines = Append(@, Here)]
           depth == (IF part = NoBlock THEN 0 ELSE partDepth) + Delta(l)
       IN IF depth = 0 /\ Len(block.lines) > 1
          THEN parts' = Append(parts, block) /\ part' = NoBlock /\ partDepth' = 0
          ELSE part' = block /\ partDepth' = depth /\ UNCHANGED parts

-----------------------------------------------------------------------------

ParseInit ==
  /\ style \in Styles
  /\ file = <<>> /\ scopes = <<>> /\ source = <<>>
  /\ contracts = <<>> /\ imports = {} /\ current = FALSE /\ contractDepth = 0
  /\ unit = NoUnit /\ unitDepth = 0
  /\ cut = NoBlock /\ cutDepth = 0 /\ functions = <<>>
  /\ part = NoBlock /\ partDepth = 0 /\ parts = <<>>
  /\ header = <<>> /\ gathered = <<>> /\ gatheredDepth = 0 /\ blocks = <<>>

\* One more line; a style's length bounds the file, and what is open can still be closed.
ReadLine ==
  \E l \in LineChoices(style) :
    /\ Fits(l)
    /\ Len(file) + 1 + Len(Scoped(l)) <= style.length
    /\ file' = Append(file, l)
    /\ Follow(l) /\ Parse(l) /\ CutLine(l) /\ CutPart(l) /\ GatherContract(l)
    /\ UNCHANGED style

-----------------------------------------------------------------------------
(* What the readers make of it *)

Has(kinds) == \E i \in 1..Len(file) : file[i].kind \in kinds

\* The braces open by the language.
Braces == Cardinality({i \in 1..Len(scopes) : scopes[i] \notin {"header", "signature", "constructorHead"}})

\* The parser never loses count: while a contract is open, contractDepth is the
\* number of braces open in the file (parser.go:201-264, where every branch that
\* takes a line adds its braces), and one more if the contract's own line also
\* closed it, of which only the opening brace is counted (parser.go:183-188).  So
\* a contract that is left open or closed early is so for what ends it, never
\* for a miscount.
DepthIsTrue ==
  current => contractDepth = Braces + (IF file[contracts[Len(contracts)].line].kind = "emptyContract"
                                       THEN 1 ELSE 0)

Functions(s) == UNION {{s[k].items[i] : i \in {j \in 1..Len(s[k].items) : s[k].items[j].kind = "function"}} :
                         k \in 1..Len(s)}

\* The comments in a function are lines of it for the extractors.
Whole(f) == [name |-> f.name, lines |-> [i \in 1..(f.lines[Len(f.lines)] - f.lines[1] + 1) |-> f.lines[1] + i - 1]]

AfterSignature == \E i \in 1..(Len(file) - 1) : file[i].kind = "signature" /\ file[i + 1].kind = "comment"

Members(s) == {s[i] : i \in 1..Len(s)}

\* Each reader sees a finished file as it is, unless the file is laid out in one
\* of the ways that reader does not know.  For the graph's parser: a function
\* without a body, a head of three lines or more, a contract whose line does not
\* end in its "{" or also closes it, a modifier without parentheses.  For
\* extractFunctions: a function without a body, and only that.  For
\* extractFunctionBlocks: that, a function on one line, and a head whose second
\* line leaves the braces balanced.  extractContracts sees every contract however
\* it is laid out, and a function without a body hides functions of its own
\* contract only.
ReadersAgree ==
  scopes = <<>> =>
    /\ ~Has({"declaration", "attributes", "emptyContract", "bareContract", "bareModifier"}) =>
         /\ contracts = source
         /\ imports = {i \in 1..Len(file) : file[i].kind = "import"}
         /\ ~current
    /\ ~Has({"declaration"}) => Members(functions) = {Whole(f) : f \in Functions(source)}
    /\ ~Has({"declaration", "oneLiner", "attributes"}) /\ ~AfterSignature =>
         Members(parts) = {Whole(f) : f \in Functions(source)}
    /\ Len(blocks) = Len(source)
    /\ \A k \in 1..Len(source) :
         /\ blocks[k][1] = source[k].line
         /\ (\A i \in 1..Len(blocks[k]) : file[blocks[k][i]].kind # "declaration") =>
              Members(ContractFunctions(blocks[k])) = {Whole(f) : f \in Functions(<<source[k]>>)}

\* The graph's parser keeps its count, and the four readers see the file as it is but
\* for these layouts.
ReadingIsRight == DepthIsTrue /\ ReadersAgree
=============================================================================
