---------------------------- MODULE DetectorProofs ----------------------------
(***************************************************************************)
(* What the detectors of SourceDetectors find in the files that the        *)
(* readers of ReadingAndGateProofs read, for every style of files, those   *)
(* a reader goes wrong in included.                                        *)
(*                                                                         *)
(* The detectors look at lines and at the depth of the braces, their       *)
(* properties speak of contracts and functions.  So there is an invariant  *)
(* for what a place in the file says of the grammar: the depth (DepthInv), *)
(* the kinds of line (PlaceInv), the assembly blocks (AssemblyInv), a      *)
(* contract's text (TextInv, OrderInv) and a function's (ItemInv).         *)
(* CoverInv is what holds of extractFunctions in any file: its blocks are  *)
(* disjoint, every function that has a body ends one, and a block begins   *)
(* before its function only after one without a body.  On these rest       *)
(* UpgradesForAReason and ResultsForAReason, once a file is scanned        *)
(* (ScanInv).                                                              *)
(*                                                                         *)
(* FunctionsForAReason needs the other two readers in any file, too.       *)
(* PartCoverInv: which functions are blocks of extractFunctionBlocks.      *)
(* UnitInv and KeptInv: what a function of the graph's parser can be, and  *)
(* which functions and variables it keeps; EmptyInv and SyncInv: where it  *)
(* is compared with the grammar.  LinesInv, StartInv, UniqueInv and        *)
(* HeadInv: a function's lines, in order, and the one on which it begins.  *)
(* FoundInv is what a scan found.                                          *)
(***************************************************************************)
EXTENDS ReadingAndGateProofs

-----------------------------------------------------------------------------
(* PathTracker: braces counted from anywhere *)

\* The braces open after one more line
LEMMA DepthNext ==
  ASSUME NEW f, NEW n \in Nat
  PROVE  /\ Depth(f, n) \in Int /\ Depth(f, n + 1) = Depth(f, n) + Delta(f[n + 1])
         /\ Depth(f, 0) = 0
<1> DEFINE Up(m)   == {j \in 1..m : Opens(f[j]) = 1}
           Down(m) == {j \in 1..m : Closes(f[j]) = 1}
<1>1. \A m \in Nat : /\ IsFiniteSet(Up(m)) /\ IsFiniteSet(Down(m))
                     /\ Cardinality(Up(m)) \in Nat /\ Cardinality(Down(m)) \in Nat
  <2> TAKE m \in Nat
  <2>1. IsFiniteSet(1..m)
    BY FS_Interval
  <2>2. Up(m) \subseteq 1..m /\ Down(m) \subseteq 1..m
    OBVIOUS
  <2> HIDE DEF Up, Down
  <2> QED BY <2>1, <2>2, FS_Subset, FS_CardinalityType
<1>2. /\ Up(n + 1) = IF Opens(f[n + 1]) = 1 THEN Up(n) \cup {n + 1} ELSE Up(n)
      /\ Down(n + 1) = IF Closes(f[n + 1]) = 1 THEN Down(n) \cup {n + 1} ELSE Down(n)
      /\ n + 1 \notin Up(n) /\ n + 1 \notin Down(n)
  OBVIOUS
<1>3. \A m : Depth(f, m) = Cardinality(Up(m)) - Cardinality(Down(m))
  BY DEF Depth
<1>4. Up(0) = {} /\ Down(0) = {}
  OBVIOUS
<1> HIDE DEF Up, Down
<1>0. ASSUME NEW S, IsFiniteSet(S), n + 1 \notin S
      PROVE  Cardinality(S \cup {n + 1}) = Cardinality(S) + 1
  BY <1>0, FS_AddElement
<1>5. Cardinality(Up(n + 1)) = Cardinality(Up(n)) + Opens(f[n + 1])
  <2>1. CASE Opens(f[n + 1]) = 1
    BY <1>0, <1>1, <1>2, <2>1
  <2>2. CASE Opens(f[n + 1]) = 0
    BY <1>1, <1>2, <2>2
  <2> QED BY <2>1, <2>2, BracesOf
<1>6. Cardinality(Down(n + 1)) = Cardinality(Down(n)) + Closes(f[n + 1])
  <2>1. CASE Closes(f[n + 1]) = 1
    BY <1>0, <1>1, <1>2, <2>1
  <2>2. CASE Closes(f[n + 1]) = 0
    BY <1>1, <1>2, <2>2
  <2> QED BY <2>1, <2>2, BracesOf
<1>7. Depth(f, 0) = 0
  BY <1>3, <1>4, FS_EmptySet
<1>8. Opens(f[n + 1]) \in {0, 1} /\ Closes(f[n + 1]) \in {0, 1} /\ Delta(f[n + 1]) = Opens(f[n + 1]) - Closes(f[n + 1])
  BY BracesOf
<1>9. Depth(f, n) \in Int /\ Depth(f, n + 1) = Depth(f, n) + Delta(f[n + 1])
  BY <1>1, <1>3, <1>5, <1>6, <1>8
<1> QED BY <1>7, <1>9

\* The braces open depend on the lines so far.
LEMMA DepthSame ==
  ASSUME NEW f, NEW g, NEW n \in Nat, \A i \in 1..n : g[i] = f[i]
  PROVE  \A i \in 0..n : Depth(g, i) = Depth(f, i)
<1> SUFFICES ASSUME NEW i \in 0..n PROVE Depth(g, i) = Depth(f, i)
  OBVIOUS
<1>1. \A j \in 1..i : g[j] = f[j]
  OBVIOUS
<1>2. /\ {j \in 1..i : Opens(g[j]) = 1} = {j \in 1..i : Opens(f[j]) = 1}
      /\ {j \in 1..i : Closes(g[j]) = 1} = {j \in 1..i : Closes(f[j]) = 1}
  BY <1>1
<1> QED BY <1>2 DEF Depth

\* g are n lines of f after line a: the braces open in it are those opened and not closed there.
IsPart(g, f, a, n) == \A i \in 1..n : g[i] = f[a + i]
CountsPart(g, f, a, n) == \A i \in 0..n : Depth(g, i) = Depth(f, a + i) - Depth(f, a)

\* Braces counted within a part are those of the whole, less those before it.
LEMMA DepthWithin ==
  ASSUME NEW f, NEW g, NEW a \in Nat, NEW n \in Nat, IsPart(g, f, a, n)
  PROVE  CountsPart(g, f, a, n)
<1> USE DEF IsPart, CountsPart
<1> DEFINE T == {i \in Nat : i <= n => Depth(g, i) = Depth(f, a + i) - Depth(f, a)}
<1>1. \A m \in Nat : Depth(f, m) \in Int /\ Depth(f, m + 1) = Depth(f, m) + Delta(f[m + 1]) /\ Delta(f[m + 1]) \in Int
  BY DepthNext, BracesOf
<1>2. \A m \in Nat : Depth(g, m + 1) = Depth(g, m) + Delta(g[m + 1])
  BY DepthNext
<1>3. 0 \in T
  BY <1>1, DepthNext
<1>4. ASSUME NEW i \in T, i \in Nat PROVE i + 1 \in T
  <2>1. CASE i + 1 <= n
    <3>1. Depth(g, i) = Depth(f, a + i) - Depth(f, a) /\ g[i + 1] = f[a + (i + 1)] /\ a + i \in Nat /\ a + (i + 1) = (a + i) + 1
      BY <2>1
    <3>2. Depth(g, i + 1) = Depth(f, a + (i + 1)) - Depth(f, a)
      BY <1>1, <1>2, <1>4, <3>1
    <3> QED BY <3>2
  <2>2. CASE ~(i + 1 <= n)
    BY <2>2
  <2> QED BY <2>1, <2>2
<1>5. Nat \subseteq T
  <2> HIDE DEF T
  <2> QED BY <1>3, <1>4, NaturalInduction
<1> QED BY <1>5

\* Lines a to e of the file, their numbers and their depths
LEMMA PartOf ==
  ASSUME NEW a \in Nat, NEW e \in Nat, a >= 1, a <= e
  PROVE  /\ Len(LinesOf(FromTo(a, e))) = e - a + 1
         /\ \A i \in 1..(e - a + 1) : LinesOf(FromTo(a, e))[i] = file[a + i - 1]
         /\ \A i \in 0..(e - a + 1) :
              Depth(LinesOf(FromTo(a, e)), i) = Depth(file, a + i - 1) - Depth(file, a - 1)
<1> DEFINE s == FromTo(a, e)
           m == e - a + 1
<1>1. m \in Nat /\ Len(s) = m /\ \A i \in 1..m : s[i] = a + i - 1
  BY FromToIs
<1> HIDE DEF s
<1>2. LinesOf(s) = [i \in 1..m |-> file[s[i]]]
  BY <1>1 DEF LinesOf
<1>3. Len(LinesOf(s)) = m
  BY <1>1, <1>2
<1>4. \A i \in 1..m : LinesOf(s)[i] = file[a + i - 1]
  BY <1>1, <1>2
<1>5. \A i \in 1..m : LinesOf(s)[i] = file[(a - 1) + i]
  <2>1. \A i \in 1..m : a + i - 1 = (a - 1) + i
    OBVIOUS
  <2> QED BY <1>4, <2>1
<1>6. \A i \in 0..m : Depth(LinesOf(s), i) = Depth(file, (a - 1) + i) - Depth(file, a - 1)
  <2> DEFINE g == LinesOf(s)
             c == a - 1
  <2>1. c \in Nat /\ \A i \in 1..m : g[i] = file[c + i]
    BY <1>5
  <2> HIDE DEF c, g, m
  <2>2. CountsPart(g, file, c, m)
    BY <1>1, <2>1, DepthWithin DEF IsPart
  <2> QED BY <2>2 DEF c, g, CountsPart
<1>7. \A i \in 0..m : (a - 1) + i = a + i - 1
  OBVIOUS
<1>8. \A i \in 0..m : Depth(LinesOf(s), i) = Depth(file, a + i - 1) - Depth(file, a - 1)
  BY <1>6, <1>7
<1> QED BY <1>3, <1>4, <1>8 DEF s

\* The first of a set of lines
LEMMA FirstIs ==
  ASSUME NEW S, S \subseteq Nat
  PROVE  /\ \A x \in S : (\A y \in S : x <= y) => First(S) = x
         /\ S # {} => First(S) \in S /\ \A y \in S : First(S) <= y
<1>1. ASSUME NEW x \in S, \A y \in S : x <= y PROVE First(S) = x
  <2>1. \A z \in S : (\A y \in S : z <= y) => z = x
    BY <1>1
  <2> QED BY <1>1, <2>1 DEF First
<1>2. S # {} => \E x \in S : \A y \in S : x <= y
  BY LeastElement
<1> QED BY <1>1, <1>2

\* What can be said of a line of a file by its kind: only heads have a visibility and
\* marks, and a call's result has a name.
LEMMA LineSays ==
  ASSUME style \in Styles, NEW l \in LineChoices(style)
  PROVE  /\ l.kind \notin {"function", "oneLiner", "declaration", "attributes"} =>
              l.visibility = "none" /\ l.marks = {}
         /\ l.kind = "result" => l.name # NoName
<1>1. PICK s : s = style
  OBVIOUS
<1>2. NoName \notin s.results
  BY <1>1, StylesAssumption
<1>3. CASE \E k \in s.kinds \ (FunctionLines \cup Named \cup {"attributes", "invoke"}) : l = Plain(k)
  BY <1>3 DEF Plain, Named, FunctionLines
<1>4. CASE \E k \in s.kinds \cap Named, r \in s.results : l = [Plain(k) EXCEPT !.name = r]
  <2>1. PICK k \in s.kinds \cap Named, r \in s.results : l = [Plain(k) EXCEPT !.name = r]
    BY <1>4
  <2>2. l.name = r /\ l.visibility = "none" /\ l.marks = {} /\ l.kind = k
    BY <2>1 DEF Plain
  <2> QED BY <1>2, <2>1, <2>2
<1>5. CASE \E k \in s.kinds \cap (FunctionLines \ {"signature"}), h \in s.heads : l = Headed(k, h)
  BY <1>5 DEF Headed, FunctionLines
<1>6. CASE \E k \in s.kinds \cap {"signature", "invoke"}, h \in s.heads : l = [Plain(k) EXCEPT !.name = h.name]
  BY <1>6 DEF Plain
<1>7. CASE \E k \in s.kinds \cap {"attributes"}, h \in s.heads : l = [Headed(k, h) EXCEPT !.name = NoName]
  BY <1>7 DEF Headed
<1> QED BY <1>1, <1>3, <1>4, <1>5, <1>6, <1>7 DEF LineChoices

-----------------------------------------------------------------------------
(* Where in the file a line stands *)

\* The braces open before a line say where it stands, and the last line is where the scopes say.
DepthInv == Depth(file, Len(file)) = Level /\ \A n \in 0..Len(file) : Depth(file, n) \in Nat

HeadLines == {"parents", "base", "comment"}

PlaceInv ==
  \A m \in 1..Len(file) :
    /\ file[m].kind \in ContractLines => Depth(file, m - 1) = 0
    /\ file[m].kind \in FunctionLines \cup {"constructor", "constructorHead", "variable", "lockVariable"}
         => Depth(file, m - 1) = 1
    /\ file[m].kind = "constructorHead" =>
         IF m = Len(file) THEN Second = "constructorHead"
                          ELSE file[m + 1].kind \in {"constructorMark", "comment", "brace"}
    /\ file[m].kind = "bareContract" =>
         IF m = Len(file) THEN InHeader ELSE file[m + 1].kind \in HeadLines \cup {"brace"}

\* The assembly block that begins on line a is open after line n.
AssemblyOpen(f, a, n) == f[a].kind = "assembly" /\ \A x \in a..n : Closes(f[x]) = 0

\* No check of a result stands in one.
AssemblyInv ==
  /\ \A a \in 1..Len(file) : AssemblyOpen(file, a, Len(file)) => Top(scopes) = "assembly"
  /\ \A m \in 1..Len(file) : file[m].kind = "resultCheck" =>
       \A a \in 1..(m - 1) : ~AssemblyOpen(file, a, m - 1)

\* A line keeps the depths those of the scopes.
LEMMA DepthStep ==
  ASSUME Grammar, DepthInv, NEW l, Reads(l)
  PROVE  /\ DepthInv'
         /\ \A n \in 0..Len(file) : Depth(file', n) = Depth(file, n)
         /\ Depth(file', Len(file) + 1) = Level'
<1>1. /\ Len(file) \in Nat /\ Len(file') = Len(file) + 1
      /\ (\A i \in 1..Len(file) : file'[i] = file[i]) /\ file'[Len(file) + 1] = l
  BY FileIs DEF Grammar
<1>2. \A n \in 0..Len(file) : Depth(file', n) = Depth(file, n)
  BY <1>1, DepthSame
<1>3. Level' = Level + Delta(l) /\ Level' \in Nat
  BY GrammarStep, LevelUpAfter DEF Grammar
<1>4. Depth(file', Len(file) + 1) = Level'
  <2> DEFINE g == file'
             n == Len(file)
  <2>1. n \in Nat /\ g[n + 1] = l /\ Depth(g, n) = Level
    BY <1>1, <1>2 DEF DepthInv
  <2> HIDE DEF g, n
  <2>2. Depth(g, n + 1) = Depth(g, n) + Delta(g[n + 1])
    BY <2>1, DepthNext
  <2> QED BY <1>3, <2>1, <2>2 DEF g, n
<1>5. DepthInv' = (Depth(file', Len(file')) = Level' /\ \A n \in 0..Len(file') : Depth(file', n) \in Nat)
  BY DEF DepthInv, Depth, Opens, Closes
<1>6. DepthInv'
  BY <1>1, <1>2, <1>3, <1>4, <1>5 DEF DepthInv
<1> QED BY <1>2, <1>4, <1>6

\* A line keeps those before it in place, and has its own.
LEMMA PlaceStep ==
  ASSUME Grammar, DepthInv, PlaceInv, NEW l, Reads(l)
  PROVE  PlaceInv'
<1>0. PICK n : n = Len(file)
  OBVIOUS
<1>1. /\ n \in Nat /\ Len(file') = n + 1
      /\ (\A i \in 1..n : file'[i] = file[i]) /\ file'[n + 1] = l
  BY <1>0, FileIs DEF Grammar
<1>2. \A m \in 0..n : Depth(file', m) = Depth(file, m)
  BY <1>0, DepthStep
<1>3. Typed /\ Shape /\ Moves(l) /\ Fits(l)
  BY GrammarStep DEF Grammar, Reads
<1>4. /\ Depth(file, n) = Level
      /\ scopes = <<>> => Level = 0
      /\ InContract => Level = 1
  BY <1>0, <1>3, LevelIs DEF DepthInv
<1>5. /\ InHeader => scopes # <<>> /\ ~InContract /\ ~InBody /\ Second \notin {"signature", "constructorHead"}
      /\ Second = "constructorHead" => scopes # <<>> /\ ~InContract /\ ~InBody /\ ~InHeader
      /\ InContract \/ InBody \/ Second \in {"signature", "constructorHead"} => scopes # <<>>
  BY <1>3, TopIs DEF InHeader, InContract, InBody, Second, NoName
<1>6. PlaceInv' = \A m \in 1..Len(file') :
        /\ file'[m].kind \in ContractLines => Depth(file', m - 1) = 0
        /\ file'[m].kind \in FunctionLines \cup {"constructor", "constructorHead", "variable", "lockVariable"}
             => Depth(file', m - 1) = 1
        /\ file'[m].kind = "constructorHead" =>
             IF m = Len(file') THEN Second' = "constructorHead"
                               ELSE file'[m + 1].kind \in {"constructorMark", "comment", "brace"}
        /\ file'[m].kind = "bareContract" =>
             IF m = Len(file') THEN InHeader' ELSE file'[m + 1].kind \in HeadLines \cup {"brace"}
  BY DEF PlaceInv, Depth, Opens, Closes
<1>7. /\ l.kind \in ContractLines => scopes = <<>>
      /\ l.kind \in FunctionLines \cup {"constructor", "constructorHead", "variable", "lockVariable"} => InContract
      /\ l.kind = "constructorHead" => Second' = "constructorHead"
      /\ l.kind = "bareContract" => InHeader'
      /\ Second = "constructorHead" => l.kind \in {"constructorMark", "comment", "brace"}
      /\ InHeader => l.kind \in HeadLines \cup {"brace"}
  <2>1. /\ l.kind \in ContractLines => scopes = <<>>
        /\ l.kind \in FunctionLines \cup {"constructor", "constructorHead", "variable", "lockVariable"} => InContract
    BY <1>3, FitsIs DEF ContractLines, FunctionLines, Bodies, Statements
  <2>2. /\ Second = "constructorHead" => l.kind \in {"constructorMark", "comment", "brace"}
        /\ InHeader => l.kind \in HeadLines \cup {"brace"}
    BY <1>3, <1>5, FitsIs DEF HeadLines
  <2>3. l.kind = "constructorHead" => Second' = "constructorHead"
    BY <1>3, <2>1 DEF Moves, CommentLine, ImportLine, ContractLine, HeaderLine, HeaderBrace,
         Attributes, FunctionBrace, MarkLine, ConstructorBrace, ItemLine, OneLineItem,
         ConstructorLine, VariableLine, MemberLine, ContractEnd, BodyLine, BlockBegins, BlockEnds,
         BodyEnds, Statements, ContractLines, Lands
  <2>4. l.kind = "bareContract" => InHeader'
    BY <1>3, <2>1 DEF Moves, CommentLine, ImportLine, ContractLine, HeaderLine, HeaderBrace,
         Attributes, FunctionBrace, MarkLine, ConstructorBrace, ItemLine, OneLineItem,
         ConstructorLine, VariableLine, MemberLine, ContractEnd, BodyLine, BlockBegins, BlockEnds,
         BodyEnds, Statements, ContractLines, Lands, InHeader
  <2> QED BY <2>1, <2>2, <2>3, <2>4
<1> SUFFICES ASSUME NEW m \in 1..(n + 1)
             PROVE  /\ file'[m].kind \in ContractLines => Depth(file', m - 1) = 0
                    /\ file'[m].kind \in FunctionLines \cup {"constructor", "constructorHead", "variable", "lockVariable"}
                         => Depth(file', m - 1) = 1
                    /\ file'[m].kind = "constructorHead" =>
                         IF m = n + 1 THEN Second' = "constructorHead"
                                      ELSE file'[m + 1].kind \in {"constructorMark", "comment", "brace"}
                    /\ file'[m].kind = "bareContract" =>
                         IF m = n + 1 THEN InHeader' ELSE file'[m + 1].kind \in HeadLines \cup {"brace"}
  BY <1>1, <1>6
<1>8. CASE m = n + 1
  <2>1. file'[m] = l /\ Depth(file', m - 1) = Level
    BY <1>1, <1>2, <1>4, <1>8
  <2> QED BY <1>4, <1>7, <1>8, <2>1
<1>9. CASE m \in 1..n
  <2>1. file'[m] = file[m] /\ Depth(file', m - 1) = Depth(file, m - 1) /\ m # n + 1
    BY <1>1, <1>2, <1>9
  <2>2. file'[m + 1] = IF m = n THEN l ELSE file[m + 1]
    BY <1>1, <1>9
  <2> QED BY <1>0, <1>7, <1>9, <2>1, <2>2 DEF PlaceInv
<1> QED BY <1>1, <1>8, <1>9

\* A line keeps assembly blocks free of checks of results.
LEMMA AssemblyStep ==
  ASSUME Grammar, AssemblyInv, NEW l, Reads(l)
  PROVE  AssemblyInv'
<1>0. PICK n : n = Len(file)
  OBVIOUS
<1>1. /\ n \in Nat /\ Len(file') = n + 1
      /\ (\A i \in 1..n : file'[i] = file[i]) /\ file'[n + 1] = l
  BY <1>0, FileIs DEF Grammar
<1>2. \A a \in 1..n, m \in 0..n : AssemblyOpen(file', a, m) <=> AssemblyOpen(file, a, m)
  BY <1>1 DEF AssemblyOpen
<1>3. Typed /\ Shape /\ Fits(l) /\ scopes' = Scoped(l)
  BY DEF Grammar, Reads, Follow
<1>4. \A s, x : s \in Seq(ScopeKinds) /\ x \in ScopeKinds => Top(Append(s, x)) = x
  <2> SUFFICES ASSUME NEW s \in Seq(ScopeKinds), NEW x \in ScopeKinds PROVE Top(Append(s, x)) = x
    OBVIOUS
  <2>1. Len(Append(s, x)) = Len(s) + 1 /\ Append(s, x)[Len(s) + 1] = x /\ Append(s, x) # <<>>
    BY AppendProperties
  <2> QED BY <2>1 DEF Top
<1>5. "assembly" \in ScopeKinds
  BY DEF ScopeKinds
<1>6. Top(scopes') = "assembly" \/ ~(l.kind = "assembly" \/ (Top(scopes) = "assembly" /\ Closes(l) = 0))
  <2>1. CASE l.kind = "assembly"
    BY <1>3, <1>4, <1>5, <2>1, ScopedIs DEF Typed
  <2>2. CASE Top(scopes) = "assembly" /\ Closes(l) = 0
    <3>1. l.kind \in {"yulBlock", "close", "comment", "isZero"}
      BY <1>3, <2>2 DEF Fits
    <3>2. l.kind \in {"yulBlock", "comment"}
      BY <2>2, <3>1 DEF Closes, Closing
    <3>3. scopes' = scopes \/ scopes' = Append(scopes, "assembly")
      BY <1>3, <3>2, ScopedIs
    <3> QED BY <1>3, <1>4, <1>5, <2>2, <3>3 DEF Typed
  <2> QED BY <2>1, <2>2
<1>7. l.kind = "resultCheck" => Top(scopes) # "assembly"
  BY <1>3 DEF Fits
<1>8. AssemblyInv' =
        (/\ \A a \in 1..Len(file') : AssemblyOpen(file', a, Len(file')) => Top(scopes') = "assembly"
         /\ \A m \in 1..Len(file') : file'[m].kind = "resultCheck" =>
              \A a \in 1..(m - 1) : ~AssemblyOpen(file', a, m - 1))
  BY DEF AssemblyInv, AssemblyOpen, Closes, Top
<1>9. ASSUME NEW a \in 1..(n + 1), AssemblyOpen(file', a, n + 1)
      PROVE  Top(scopes') = "assembly"
  <2>1. CASE a = n + 1
    BY <1>1, <1>6, <1>9, <2>1 DEF AssemblyOpen
  <2>2. CASE a \in 1..n
    <3>1. AssemblyOpen(file', a, n) /\ Closes(l) = 0
      BY <1>1, <1>9, <2>2 DEF AssemblyOpen
    <3>2. Top(scopes) = "assembly"
      BY <1>0, <1>1, <1>2, <2>2, <3>1 DEF AssemblyInv
    <3> QED BY <1>6, <3>1, <3>2
  <2> QED BY <1>1, <2>1, <2>2
<1>10. ASSUME NEW m \in 1..(n + 1), file'[m].kind = "resultCheck", NEW a \in 1..(m - 1)
       PROVE  ~AssemblyOpen(file', a, m - 1)
  <2>1. a \in 1..n /\ m - 1 \in 0..n
    BY <1>1, <1>10
  <2>2. CASE m = n + 1
    BY <1>0, <1>1, <1>2, <1>7, <1>10, <2>1, <2>2 DEF AssemblyInv
  <2>3. CASE m \in 1..n
    BY <1>0, <1>1, <1>2, <1>10, <2>1, <2>3 DEF AssemblyInv
  <2> QED BY <1>1, <2>2, <2>3
<1> QED BY <1>1, <1>8, <1>9, <1>10

-----------------------------------------------------------------------------
(* The text of a contract *)

Variables == {"variable", "lockVariable"}

\* In line m the header of the contract that began on line n goes on.
InHead(f, n, m) == f[n].kind = "bareContract" /\ \A j \in (n + 1)..m : f[j].kind \in HeadLines

\* Lines c.line to e are contract c, and no other's.
ContractRun(f, c, e) ==
  /\ c.line \in 1..e
  /\ f[c.line].kind \in ContractLines /\ Depth(f, c.line - 1) = 0
  /\ \A m \in (c.line + 1)..e : f[m].kind \notin ContractLines
  /\ c.vars = {f[m].kind : m \in c.line..e} \cap Variables

\* It is not over before line e.
StaysOpen(f, n, e) == \A m \in n..e : Depth(f, m) >= 1 \/ InHead(f, n, m)

\* b are the lines of contract c, from its first to the one that closes it.
FinishedRun(f, c, b) ==
  /\ b[Len(b)] \in 1..Len(f) /\ b = FromTo(c.line, b[Len(b)])
  /\ ContractRun(f, c, b[Len(b)])
  /\ Depth(f, b[Len(b)]) = 0 /\ StaysOpen(f, c.line, b[Len(b)] - 1)

TextInv ==
  /\ \A k \in 1..Len(blocks) : FinishedRun(file, source[k], blocks[k])
  /\ \A k \in 1..Len(blocks), m \in 1..Len(file) :
       /\ m > blocks[k][Len(blocks[k])]
       /\ k < Len(source) => m < source[k + 1].line
       => file[m].kind \in {"import", "comment"}
  /\ scopes # <<>> =>
       \A k : k = Len(source) =>
         /\ ContractRun(file, source[k], Len(file))
         /\ Taken = FromTo(source[k].line, Len(file))
         /\ StaysOpen(file, source[k].line, Len(file))
         /\ InHeader => InHead(file, source[k].line, Len(file))

\* What a line does to the contracts, their first lines and variables
LEMMA SourceStep ==
  ASSUME Grammar, NEW l, Reads(l)
  PROVE  /\ scopes # <<>> =>
              /\ source # <<>> /\ Len(source') = Len(source) /\ l.kind \notin ContractLines
              /\ \A k \in 1..Len(source) :
                   /\ k # Len(source) => source'[k] = source[k]
                   /\ source'[k].line = source[k].line
                   /\ k = Len(source) => source'[k].vars = source[k].vars \cup ({l.kind} \cap Variables)
         /\ scopes = <<>> /\ l.kind \in ContractLines =>
              /\ Len(source') = Len(source) + 1
              /\ \A k \in 1..Len(source) : source'[k] = source[k]
              /\ \A k : k = Len(source) + 1 => source'[k].line = Here /\ source'[k].vars = {}
         /\ scopes = <<>> /\ l.kind \notin ContractLines =>
              source' = source /\ l.kind \in {"import", "comment"} /\ scopes' = <<>>
<1>1. /\ Typed /\ Shape /\ Moves(l) /\ l \in LineChoices(style) /\ l.kind \in Kinds
      /\ Len(file) \in Nat
      /\ Outside(l) \/ Begins(l) \/ IsOne(l) \/ Continues(l) \/ Ends(l)
      /\ scopes # <<>> => source # <<>>
  BY GrammarStep, FileIs DEF Grammar
<1>2. /\ InContract \/ InUnit => scopes # <<>>
      /\ Second \in {"signature", "constructorHead"} \/ InHeader \/ InBody => scopes # <<>>
  BY <1>1, TopIs DEF InContract, InUnit, InBody, InHeader, Second, NoName
<1>3. scopes = <<>> => l.kind \in ContractLines \cup {"import", "comment"}
  BY <1>1, <1>2, FitsIs DEF Reads
<1>4. scopes # <<>> => l.kind \notin ContractLines
  BY <1>1, FitsIs DEF Reads, ContractLines, Bodies, FunctionLines, Statements, InHeader
<1>5. scopes = <<>> /\ l.kind \notin ContractLines => source' = source /\ scopes' = <<>>
  <2> HAVE scopes = <<>> /\ l.kind \notin ContractLines
  <2>1. l.kind \in {"import", "comment"}
    BY <1>3
  <2>2. Outside(l)
    BY <1>1, <1>2 DEF Begins, IsOne, Continues, Ends
  <2> QED BY <1>2, <2>1, <2>2 DEF Outside, ContractLine, VariableLine
<1>6. scopes = <<>> /\ l.kind \in ContractLines =>
              /\ Len(source') = Len(source) + 1
              /\ \A k \in 1..Len(source) : source'[k] = source[k]
              /\ \A k : k = Len(source) + 1 => source'[k].line = Here /\ source'[k].vars = {}
  <2> HAVE scopes = <<>> /\ l.kind \in ContractLines
  <2>1. Outside(l)
    BY <1>1, <1>2 DEF Begins, IsOne, Continues, Ends
  <2>2. source' = Append(source, [line |-> Here, items |-> <<>>, vars |-> {}])
    BY <1>2, <2>1 DEF Outside, ContractLine, VariableLine, ContractLines
  <2> QED BY <1>1, <2>2, NewContractIs
<1>7. ASSUME scopes # <<>>
      PROVE  /\ source # <<>> /\ Len(source') = Len(source)
             /\ \A k \in 1..Len(source) :
                   /\ k # Len(source) => source'[k] = source[k]
                   /\ source'[k].line = source[k].line
                   /\ k = Len(source) => source'[k].vars = source[k].vars \cup ({l.kind} \cap Variables)
  <2>1. CASE source' = source /\ l.kind \notin Variables
    BY <1>1, <1>7, <2>1
  <2>2. CASE source' = Begun(l) /\ l.kind \notin Variables
    BY <1>1, <1>7, <2>2, BegunIs
  <2>3. CASE source' = Grown /\ LastContract.items # <<>> /\ l.kind \notin Variables
    BY <1>1, <1>7, <2>3, GrownIs
  <2>4. CASE source' = WithVariable(l) /\ l.kind \in Variables
    <3>1. \A k \in 1..Len(source) : /\ k # Len(source) => source'[k] = source[k]
                                    /\ source'[k].line = source[k].line
      BY <1>1, <1>7, <2>4, WithVariableIs
    <3>2. \A k : k = Len(source) => source'[k].vars = source[k].vars \cup {l.kind}
      <4>1. Len(source) \in 1..Len(source) /\ source \in Seq(Contracts)
        BY <1>1, <1>7, LastIs DEF Typed
      <4>2. source[Len(source)] \in Contracts
        <5> HIDE DEF Contracts
        <5> QED BY <4>1
      <4> QED BY <2>4, <4>1, <4>2 DEF WithVariable, Contracts
    <3>3. Len(source') = Len(source)
      BY <1>1, <1>7, <2>4, WithVariableIs
    <3> QED BY <1>1, <1>7, <2>4, <3>1, <3>2, <3>3
  <2>5. Outside(l) => \/ source' = source /\ l.kind \notin Variables
                      \/ source' = WithVariable(l) /\ l.kind \in Variables
    BY <1>4, <1>7 DEF Outside, ContractLine, VariableLine, Variables
  <2>6. Begins(l) \/ IsOne(l) => source' = Begun(l) /\ l.kind \notin Variables
    BY DEF Begins, IsOne, Variables
  <2>7. Continues(l) \/ Ends(l) =>
          (source' = source \/ (source' = Grown /\ LastContract.items # <<>>)) /\ l.kind \notin Variables
    <3>1. InUnit => LastContract.items # <<>>
      BY DEF Grammar, OpenInv
    <3> QED BY <3>1 DEF Continues, Ends, Variables
  <2> QED BY <1>1, <2>1, <2>2, <2>3, <2>4, <2>5, <2>6, <2>7
<1> QED BY <1>3, <1>4, <1>5, <1>6, <1>7

\* h is f with a line more.
OneMore(h, f) == Len(f) \in Nat /\ Len(h) = Len(f) + 1 /\ \A i \in 1..Len(f) : h[i] = f[i]

\* What was read of a contract stays ...
LEMMA RunStays ==
  ASSUME NEW f, NEW h, OneMore(h, f), NEW e \in 1..Len(f)
  PROVE  /\ \A c : ContractRun(f, c, e) => ContractRun(h, c, e)
         /\ \A n \in 1..Len(f) : StaysOpen(f, n, e) => StaysOpen(h, n, e)
         /\ \A n \in 1..Len(f) : InHead(f, n, e) => InHead(h, n, e)
         /\ Depth(h, e) = Depth(f, e)
<1>1. \A i \in 0..Len(f) : Depth(h, i) = Depth(f, i)
  BY DepthSame DEF OneMore
<1>2. \A i \in 1..Len(f) : h[i] = f[i]
  BY DEF OneMore
<1>3. Len(f) \in Nat
  BY DEF OneMore
<1>4. ASSUME NEW c, ContractRun(f, c, e) PROVE ContractRun(h, c, e)
  <2>1. c.line \in 1..e /\ c.line \in 1..Len(f) /\ c.line - 1 \in 0..Len(f)
    BY <1>3, <1>4 DEF ContractRun
  <2>2. {h[m].kind : m \in c.line..e} = {f[m].kind : m \in c.line..e}
    BY <1>2, <1>3, <2>1
  <2>3. \A m \in (c.line + 1)..e : m \in 1..Len(f)
    BY <1>3, <2>1
  <2> QED BY <1>1, <1>2, <1>4, <2>1, <2>2, <2>3 DEF ContractRun
<1>5. ASSUME NEW n \in 1..Len(f), NEW m \in n..e, InHead(f, n, m) PROVE InHead(h, n, m)
  BY <1>2, <1>3, <1>5 DEF InHead
<1>6. ASSUME NEW n \in 1..Len(f), StaysOpen(f, n, e) PROVE StaysOpen(h, n, e)
  BY <1>1, <1>3, <1>5, <1>6 DEF StaysOpen
<1>7. ASSUME NEW n \in 1..Len(f), InHead(f, n, e) PROVE InHead(h, n, e)
  BY <1>2, <1>3, <1>7 DEF InHead
<1> QED BY <1>1, <1>3, <1>4, <1>6, <1>7

\* ... and of one that is over all.
LEMMA FinishedStays ==
  ASSUME NEW f, NEW h, OneMore(h, f), NEW c, NEW b, FinishedRun(f, c, b), NEW d, d.line = c.line, d.vars = c.vars
  PROVE  FinishedRun(h, d, b)
<1> DEFINE e == b[Len(b)]
<1>1. /\ e \in 1..Len(f) /\ b = FromTo(c.line, e) /\ ContractRun(f, c, e)
      /\ Depth(f, e) = 0 /\ StaysOpen(f, c.line, e - 1) /\ c.line \in 1..e
  BY DEF FinishedRun, ContractRun
<1>2. Len(f) \in Nat /\ Len(h) = Len(f) + 1 /\ e \in 1..Len(h) /\ c.line \in 1..Len(f)
  BY <1>1 DEF OneMore
<1> HIDE DEF e
<1>3. ContractRun(h, c, e) /\ Depth(h, e) = 0
  BY <1>1, RunStays
<1>4. ContractRun(h, d, e)
  BY <1>3 DEF ContractRun
<1>5. StaysOpen(h, c.line, e - 1)
  <2>1. CASE e = 1
    BY <1>1, <1>2, <2>1 DEF StaysOpen
  <2>2. CASE e # 1
    <3>1. e - 1 \in 1..Len(f)
      BY <1>1, <1>2, <2>2
    <3> QED BY <1>1, <1>2, <3>1, RunStays
  <2> QED BY <2>1, <2>2
<1> QED BY <1>1, <1>2, <1>3, <1>4, <1>5 DEF FinishedRun, e

\* A contract with a line more
LEMMA RunGrows ==
  ASSUME NEW f, NEW h, OneMore(h, f), NEW c, ContractRun(f, c, Len(f)),
         h[Len(f) + 1].kind \notin ContractLines, NEW d, d.line = c.line,
         d.vars = c.vars \cup ({h[Len(f) + 1].kind} \cap Variables)
  PROVE  ContractRun(h, d, Len(f) + 1)
<1> DEFINE n == Len(f)
<1>1. n \in Nat /\ (\A i \in 1..n : h[i] = f[i]) /\ c.line \in 1..n
  BY DEF OneMore, ContractRun
<1>2. ContractRun(h, c, n)
  <2>1. n \in 1..n
    BY <1>1
  <2> QED BY <2>1, RunStays
<1> HIDE DEF n
<1>3. {h[m].kind : m \in c.line..(n + 1)} = {h[m].kind : m \in c.line..n} \cup {h[n + 1].kind}
  <2>1. c.line..(n + 1) = (c.line..n) \cup {n + 1}
    BY <1>1
  <2> QED BY <2>1
<1>4. d.vars = {h[m].kind : m \in c.line..(n + 1)} \cap Variables
  BY <1>2, <1>3 DEF ContractRun, n
<1>5. \A m \in (c.line + 1)..(n + 1) : h[m].kind \notin ContractLines
  <2> TAKE m \in (c.line + 1)..(n + 1)
  <2>1. m = n + 1 \/ m \in (c.line + 1)..n
    BY <1>1
  <2> QED BY <1>2, <2>1 DEF ContractRun, n
<1> QED BY <1>1, <1>2, <1>4, <1>5 DEF ContractRun, n

\* Where the next line leaves the contract
LEMMA OpenAfter ==
  ASSUME Grammar, NEW l, Reads(l)
  PROVE  /\ scopes' = <<>> => Level' = 0
         /\ scopes' # <<>> /\ ~InHeader' => Level' >= 1
         /\ InHeader' => \/ InHeader /\ l.kind \in HeadLines
                         \/ scopes = <<>> /\ l.kind = "bareContract"
<1>1. Typed /\ Shape /\ Typed' /\ Shape' /\ Moves(l)
  BY GrammarStep DEF Grammar
<1>2. (scopes' = <<>> => ~InHeader') /\ (InHeader => scopes # <<>> /\ Second = NoName)
  BY <1>1, TopIs, EmptySeq DEF InHeader, Second, NoName
<1>3. InHeader' => InHeader \/ l.kind = "bareContract"
  BY <1>1, HeaderFrom
<1>4. l.kind = "bareContract" => scopes = <<>>
  BY <1>1, FitsIs DEF Reads, Bodies, FunctionLines, Statements
<1>5. InHeader /\ InHeader' => l.kind \in HeadLines
  <2> HAVE InHeader /\ InHeader'
  <2>1. l.kind \in {"comment", "parents", "base", "brace"}
    BY <1>1, <1>2, FitsIs DEF Reads, InHeader, InContract, InBody, NoName
  <2>2. l.kind # "brace"
    <3> SUFFICES ASSUME l.kind = "brace" PROVE FALSE
      OBVIOUS
    <3>1. HeaderBrace(l)
      BY <1>1, <1>2 DEF Moves, CommentLine, ImportLine, ContractLine, HeaderLine, HeaderBrace,
           Attributes, FunctionBrace, MarkLine, ConstructorBrace, ItemLine, OneLineItem,
           ConstructorLine, VariableLine, MemberLine, ContractEnd, BodyLine, BlockBegins,
           BlockEnds, BodyEnds, Statements, ContractLines, NoName
    <3> QED BY <3>1 DEF HeaderBrace, Lands, InHeader
  <2> QED BY <2>1, <2>2 DEF HeadLines
<1>6. (scopes' = <<>> => Level' = 0) /\ (scopes' # <<>> /\ ~InHeader' => Level' >= 1)
  BY <1>1, <1>2, LevelUpAfter
<1> QED BY <1>3, <1>4, <1>5, <1>6

\* A line keeps what is known of the contracts' texts.
LEMMA TextStep ==
  ASSUME Grammar, GatherInv, DepthInv, TextInv, NEW l, Reads(l), GatherContract(l)
  PROVE  TextInv'
<1>0. PICK n, h, s, t, b : n = Len(file) /\ h = file' /\ s = source /\ t = source' /\ b = blocks
  OBVIOUS
<1>1. /\ n \in Nat /\ Here = n + 1 /\ Len(h) = n + 1 /\ (\A i \in 1..n : h[i] = file[i]) /\ h[n + 1] = l
      /\ OneMore(h, file)
  BY <1>0, FileIs DEF Grammar, OneMore
<1>2. /\ \A i \in 0..n : Depth(h, i) = Depth(file, i)
      /\ Depth(h, n) = Level /\ Depth(h, n + 1) = Level'
      /\ scopes = <<>> => Level = 0
  BY <1>0, <1>1, DepthStep, LevelIs DEF DepthInv, Grammar
<1>3. /\ scopes' = <<>> => Level' = 0
      /\ scopes' # <<>> /\ ~InHeader' => Level' >= 1
      /\ InHeader' => \/ InHeader /\ l.kind \in HeadLines
                      \/ scopes = <<>> /\ l.kind = "bareContract"
  BY OpenAfter
<1>4. /\ Len(s) \in Nat /\ b \in Seq(Seq(1..n)) /\ Len(b) \in Nat
      /\ Len(b) = IF scopes = <<>> THEN Len(s) ELSE Len(s) - 1
      /\ scopes = <<>> => Taken = <<>>
  <2>1. scopes = <<>> => ~InHeader
    BY EmptySeq DEF InHeader
  <2> QED BY <1>0, <2>1, LenProperties DEF GatherInv, Taken, Grammar, Typed
<1>5. /\ ~Taking(l) => scopes = <<>> /\ scopes' = <<>> /\ blocks' = b
      /\ Taking(l) /\ scopes' # <<>> => Taken' = Append(Taken, n + 1) /\ blocks' = b
      /\ Taking(l) /\ scopes' = <<>> => blocks' = Append(b, Append(Taken, n + 1))
  BY <1>0, <1>1, GatherMoves
<1>6. /\ scopes # <<>> =>
           /\ Len(t) = Len(s) /\ Len(s) # 0 /\ l.kind \notin ContractLines
           /\ \A k \in 1..Len(s) :
                /\ k # Len(s) => t[k] = s[k]
                /\ t[k].line = s[k].line
                /\ k = Len(s) => t[k].vars = s[k].vars \cup ({l.kind} \cap Variables)
      /\ scopes = <<>> /\ l.kind \in ContractLines =>
           /\ Len(t) = Len(s) + 1 /\ \A k \in 1..Len(s) : t[k] = s[k]
           /\ \A k : k = Len(s) + 1 => t[k].line = n + 1 /\ t[k].vars = {}
      /\ scopes = <<>> /\ l.kind \notin ContractLines =>
           t = s /\ l.kind \in {"import", "comment"} /\ scopes' = <<>>
  BY <1>0, <1>1, SourceStep, EmptySeq
<1>7. /\ \A k \in 1..Len(b) : FinishedRun(file, s[k], b[k])
      /\ \A k \in 1..Len(b), m \in 1..n :
           m > b[k][Len(b[k])] /\ (k < Len(s) => m < s[k + 1].line) => file[m].kind \in {"import", "comment"}
      /\ scopes # <<>> => /\ ContractRun(file, s[Len(s)], n)
                          /\ Taken = FromTo(s[Len(s)].line, n)
                          /\ StaysOpen(file, s[Len(s)].line, n)
                          /\ InHeader => InHead(file, s[Len(s)].line, n)
  BY <1>0 DEF TextInv
<1>8. TextInv' =
        (/\ \A k \in 1..Len(blocks') : FinishedRun(h, t[k], blocks'[k])
         /\ \A k \in 1..Len(blocks'), m \in 1..Len(h) :
              /\ m > blocks'[k][Len(blocks'[k])]
              /\ k < Len(t) => m < t[k + 1].line
              => h[m].kind \in {"import", "comment"}
         /\ scopes' # <<>> =>
              \A k : k = Len(t) =>
                /\ ContractRun(h, t[k], Len(h))
                /\ Taken' = FromTo(t[k].line, Len(h))
                /\ StaysOpen(h, t[k].line, Len(h))
                /\ InHeader' => InHead(h, t[k].line, Len(h)))
  BY <1>0 DEF TextInv, FinishedRun, ContractRun, StaysOpen, InHead, Depth, Opens, Closes, FromTo
\* The contracts that are finished already
<1>9. ASSUME NEW k \in 1..Len(b)
      PROVE  /\ k \in 1..Len(s) /\ t[k].line = s[k].line /\ t[k].vars = s[k].vars
             /\ FinishedRun(h, t[k], b[k])
             /\ b[k][Len(b[k])] \in 1..n /\ s[k].line \in 1..n
  <2>1. k \in 1..Len(s) /\ t[k].line = s[k].line /\ t[k].vars = s[k].vars
    <3>1. CASE scopes = <<>>
      BY <1>4, <1>6, <3>1
    <3>2. CASE scopes # <<>>
      BY <1>4, <1>6, <3>2
    <3> QED BY <3>1, <3>2
  <2>2. FinishedRun(file, s[k], b[k])
    BY <1>7
  <2>3. FinishedRun(h, t[k], b[k])
    BY <1>1, <2>1, <2>2, FinishedStays
  <2>4. b[k][Len(b[k])] \in 1..n /\ s[k].line \in 1..b[k][Len(b[k])]
    BY <1>0, <2>2 DEF FinishedRun, ContractRun
  <2> QED BY <1>1, <2>1, <2>3, <2>4
<1>10. ASSUME NEW k \in 1..Len(b), NEW m \in 1..(n + 1), m > b[k][Len(b[k])], k < Len(t) => m < t[k + 1].line
       PROVE  h[m].kind \in {"import", "comment"}
  <2>1. CASE k < Len(s)
    <3>1. k + 1 \in 1..Len(s) /\ k < Len(t) /\ t[k + 1].line = s[k + 1].line
      <4>1. CASE scopes = <<>>
        BY <1>4, <1>6, <2>1, <4>1
      <4>2. CASE scopes # <<>>
        BY <1>4, <1>6, <2>1, <4>2
      <4> QED BY <4>1, <4>2
    <3>2. s[k + 1].line \in 1..n
      <4>1. CASE k + 1 \in 1..Len(b)
        BY <1>9, <4>1
      <4>2. CASE k + 1 \notin 1..Len(b)
        <5>1. scopes # <<>> /\ k + 1 = Len(s)
          BY <1>4, <2>1, <4>2
        <5> QED BY <1>7, <5>1 DEF ContractRun
      <4> QED BY <4>1, <4>2
    <3>3. m < s[k + 1].line /\ m \in 1..n
      BY <1>1, <1>10, <3>1, <3>2
    <3> QED BY <1>1, <1>7, <1>10, <3>3
  <2>2. CASE ~(k < Len(s))
    <3>1. scopes = <<>> /\ k = Len(s)
      BY <1>4, <2>2
    <3>2. CASE l.kind \in ContractLines
      <4>1. k < Len(t) /\ t[k + 1].line = n + 1
        BY <1>4, <1>6, <3>1, <3>2
      <4>2. m \in 1..n
        BY <1>1, <1>10, <4>1
      <4> QED BY <1>1, <1>7, <1>10, <3>1, <4>2
    <3>3. CASE l.kind \notin ContractLines
      <4>1. m \in 1..n \/ m = n + 1
        BY <1>1
      <4> QED BY <1>1, <1>6, <1>7, <1>10, <3>1, <3>3, <4>1
    <3> QED BY <3>2, <3>3
  <2> QED BY <2>1, <2>2
\* The contract the line belongs to
<1>11. ASSUME Taking(l)
       PROVE  LET c == t[Len(t)]
              IN /\ ContractRun(h, c, n + 1) /\ Append(Taken, n + 1) = FromTo(c.line, n + 1)
                 /\ StaysOpen(h, c.line, n)
                 /\ InHeader' => InHead(h, c.line, n + 1)
                 /\ c.line \in 1..(n + 1)
                 /\ Len(t) = Len(b) + 1
  <2> DEFINE c == t[Len(t)]
  <2>1. CASE scopes = <<>>
    <3>1. l.kind \in ContractLines /\ Len(t) = Len(s) + 1 /\ c.line = n + 1 /\ c.vars = {} /\ Len(t) = Len(b) + 1
      BY <1>4, <1>6, <1>11, <2>1 DEF Taking
    <3> HIDE DEF c
    <3>2. FromTo(n + 1, n + 1) = <<n + 1>>
      <4>1. PICK x : x = n + 1
        OBVIOUS
      <4>3. x - x + 1 = 1
        BY <1>1, <4>1
      <4>4. FromTo(x, x) = [i \in 1..1 |-> x + i - 1] /\ \A i \in 1..1 : x + i - 1 = x
        BY <1>1, <4>1, <4>3 DEF FromTo
      <4>5. [i \in 1..1 |-> x + i - 1] = [i \in 1..1 |-> x]
        BY <4>4
      <4>6. [i \in 1..1 |-> x] = <<x>>
        OBVIOUS
      <4> QED BY <4>1, <4>4, <4>5, <4>6
    <3>3. Append(Taken, n + 1) = FromTo(c.line, n + 1)
      <4>1. Append(<<>>, n + 1) = <<n + 1>>
        OBVIOUS
      <4> QED BY <1>4, <2>1, <3>1, <3>2, <4>1
    <3>4. ContractRun(h, c, n + 1)
      <4>1. {h[m].kind : m \in (n + 1)..(n + 1)} = {l.kind}
        BY <1>1
      <4>2. l.kind \notin Variables
        BY <3>1 DEF ContractLines, Variables
      <4>3. (n + 1) - 1 = n /\ n + 1 \in 1..(n + 1) /\ ((n + 1) + 1)..(n + 1) = {}
        BY <1>1
      <4>4. c.vars = {h[m].kind : m \in c.line..(n + 1)} \cap Variables
        BY <3>1, <4>1, <4>2
      <4> QED BY <1>1, <1>2, <2>1, <3>1, <4>3, <4>4 DEF ContractRun
    <3>5. StaysOpen(h, c.line, n)
      BY <1>1, <3>1 DEF StaysOpen
    <3>6. InHeader' => InHead(h, c.line, n + 1)
      <4>1. InHeader' => l.kind = "bareContract"
        BY <1>3, <2>1, EmptySeq DEF InHeader
      <4> QED BY <1>1, <3>1, <4>1 DEF InHead
    <3> QED BY <1>1, <3>1, <3>3, <3>4, <3>5, <3>6 DEF c
  <2>2. CASE scopes # <<>>
    <3>1. PICK d : d = s[Len(s)]
      OBVIOUS
    <3>2. /\ Len(t) = Len(s) /\ Len(s) \in 1..Len(s) /\ l.kind \notin ContractLines /\ Len(t) = Len(b) + 1
          /\ c.line = d.line /\ c.vars = d.vars \cup ({l.kind} \cap Variables)
      BY <1>4, <1>6, <2>2, <3>1
    <3> HIDE DEF c
    <3>3. /\ ContractRun(file, d, n) /\ Taken = FromTo(d.line, n) /\ StaysOpen(file, d.line, n)
          /\ InHeader => InHead(file, d.line, n)
      BY <1>7, <2>2, <3>1
    <3>4. d.line \in 1..n /\ n \in 1..n
      BY <1>1, <3>3 DEF ContractRun
    <3>5. ContractRun(h, c, n + 1)
      BY <1>0, <1>1, <3>2, <3>3, RunGrows
    <3>6. Append(Taken, n + 1) = FromTo(c.line, n + 1)
      <4>1. PICK a : a = d.line
        OBVIOUS
      <4>2. a \in Nat /\ a >= 1 /\ a <= n /\ n \in Nat
        BY <1>1, <3>4, <4>1
      <4>3. Append(FromTo(a, n), n + 1) = FromTo(a, n + 1)
        BY <4>2, FromToIs
      <4> QED BY <3>2, <3>3, <4>1, <4>3
    <3>7. StaysOpen(h, c.line, n) /\ (InHeader => InHead(h, c.line, n))
      BY <1>0, <1>1, <3>2, <3>3, <3>4, RunStays
    <3>8. InHeader' => InHead(h, c.line, n + 1)
      <4> HAVE InHeader'
      <4>1. InHead(h, c.line, n) /\ l.kind \in HeadLines
        BY <1>3, <2>2, <3>7
      <4> QED BY <1>1, <3>2, <3>4, <4>1 DEF InHead
    <3>9. c.line \in 1..(n + 1)
      BY <1>1, <3>2, <3>4
    <3> QED BY <3>2, <3>5, <3>6, <3>7, <3>8, <3>9 DEF c
  <2> QED BY <2>1, <2>2
<1>12. CASE ~Taking(l)
  <2>1. blocks' = b /\ scopes' = <<>>
    BY <1>5, <1>12
  <2> QED BY <1>1, <1>8, <1>9, <1>10, <2>1
<1>13. CASE Taking(l) /\ scopes' # <<>>
  <2>1. blocks' = b /\ Taken' = Append(Taken, n + 1)
    BY <1>5, <1>13
  <2>2. PICK c : c = t[Len(t)]
    OBVIOUS
  <2>3. /\ ContractRun(h, c, n + 1) /\ Taken' = FromTo(c.line, n + 1)
        /\ StaysOpen(h, c.line, n) /\ (InHeader' => InHead(h, c.line, n + 1)) /\ c.line \in 1..(n + 1)
    BY <1>11, <1>13, <2>1, <2>2
  <2>4. StaysOpen(h, c.line, n + 1)
    <3> SUFFICES ASSUME NEW m \in c.line..(n + 1) PROVE Depth(h, m) >= 1 \/ InHead(h, c.line, m)
      BY DEF StaysOpen
    <3>1. CASE m = n + 1
      BY <1>2, <1>3, <1>13, <2>3, <3>1
    <3>2. CASE m # n + 1
      <4>1. m \in c.line..n
        BY <1>1, <2>3, <3>2
      <4> QED BY <2>3, <4>1 DEF StaysOpen
    <3> QED BY <3>1, <3>2
  <2> QED BY <1>1, <1>8, <1>9, <1>10, <2>1, <2>2, <2>3, <2>4
<1>14. CASE Taking(l) /\ scopes' = <<>>
  <2>1. PICK c, x : c = t[Len(t)] /\ x = Append(Taken, n + 1)
    OBVIOUS
  <2>2. /\ ContractRun(h, c, n + 1) /\ x = FromTo(c.line, n + 1)
        /\ StaysOpen(h, c.line, n) /\ c.line \in 1..(n + 1) /\ Len(t) = Len(b) + 1
    BY <1>11, <1>14, <2>1
  <2>3. x[Len(x)] = n + 1
    <3>1. c.line \in Nat /\ n + 1 \in Nat /\ c.line >= 1 /\ c.line <= n + 1
      BY <1>1, <2>2
    <3>2. Len(x) = (n + 1) - c.line + 1 /\ \A i \in 1..((n + 1) - c.line + 1) : x[i] = c.line + i - 1
      <4>1. PICK y, z : y = c.line /\ z = n + 1
        OBVIOUS
      <4>2. Len(FromTo(y, z)) = z - y + 1 /\ \A i \in 1..(z - y + 1) : FromTo(y, z)[i] = y + i - 1
        <5>1. y \in Nat /\ z \in Nat /\ y >= 1 /\ y <= z
          BY <3>1, <4>1
        <5> QED BY <5>1, FromToIs
      <4> QED BY <2>2, <4>1, <4>2
    <3>3. (n + 1) - c.line + 1 \in 1..((n + 1) - c.line + 1) /\ c.line + ((n + 1) - c.line + 1) - 1 = n + 1
      BY <3>1
    <3> QED BY <3>2, <3>3
  <2>4. FinishedRun(h, c, x)
    <3>1. (n + 1) - 1 = n /\ n + 1 \in 1..Len(h)
      BY <1>1
    <3>2. Depth(h, n + 1) = 0
      BY <1>2, <1>3, <1>14
    <3> QED BY <2>2, <2>3, <3>1, <3>2 DEF FinishedRun
  <2>5. /\ blocks' = Append(b, x) /\ Len(blocks') = Len(b) + 1
        /\ \A k \in 1..Len(b) : blocks'[k] = b[k]
        /\ blocks'[Len(b) + 1] = x
    <3>1. blocks' = Append(b, x)
      BY <1>5, <1>14, <2>1
    <3>2. b \in Seq(Seq(1..n)) => b \in Seq(Seq(1..n) \cup {x})
      <4>1. Seq(1..n) \subseteq Seq(1..n) \cup {x}
        OBVIOUS
      <4> QED BY <4>1, SeqMonotonic
    <3>3. x \in Seq(1..n) \cup {x}
      OBVIOUS
    <3> DEFINE X == Seq(1..n) \cup {x}
    <3>4. b \in Seq(X) /\ x \in X
      BY <1>4, <3>2, <3>3
    <3> HIDE DEF X
    <3> QED BY <3>1, <3>4, AppendProperties
  <2>6. \A k \in 1..(Len(b) + 1) : k \in 1..Len(b) \/ k = Len(b) + 1
    BY <1>4
  <2>7. ASSUME NEW k \in 1..(Len(b) + 1) PROVE FinishedRun(h, t[k], blocks'[k])
    <3>1. CASE k \in 1..Len(b)
      BY <1>9, <2>5, <3>1
    <3>2. CASE k = Len(b) + 1
      BY <2>1, <2>2, <2>4, <2>5, <3>2
    <3> QED BY <2>6, <3>1, <3>2
  <2>8. ASSUME NEW k \in 1..(Len(b) + 1), NEW m \in 1..(n + 1), m > blocks'[k][Len(blocks'[k])],
               k < Len(t) => m < t[k + 1].line
        PROVE  h[m].kind \in {"import", "comment"}
    <3>1. CASE k \in 1..Len(b)
      BY <1>10, <2>5, <2>8, <3>1
    <3>2. CASE k = Len(b) + 1
      <4>1. m > n + 1
        BY <2>3, <2>5, <2>8, <3>2
      <4> QED BY <1>1, <4>1
    <3> QED BY <2>6, <3>1, <3>2
  <2> QED BY <1>1, <1>8, <1>14, <2>5, <2>7, <2>8
<1> QED BY <1>12, <1>13, <1>14

-----------------------------------------------------------------------------
(* What the five detectors of LineDetectors find, line by line *)

Finds(rule, n) == \E r \in LineFindings : r.rule = rule /\ r.line = n

\* Which findings a detector by lines has on a line, from the detectors' definitions.
LEMMA FoundAre ==
  ASSUME NEW n
  PROVE  /\ Finds("unchecked-call", n) <=>
              \E j \in 1..Len(functions) : \E i \in Unchecked(functions[j]) : functions[j].lines[i] = n
         /\ Finds("reinitializable-init", n) <=>
              \E j \in 1..Len(functions) :
                /\ functions[j].name = "initialize" /\ file[functions[j].lines[1]].visibility # "internal"
                /\ ~IsProtected(LinesOf(functions[j].lines)) /\ functions[j].lines[1] = n
         /\ Finds("constructor-in-upgradeable", n) <=>
              \E m \in 1..Len(file) :
                /\ file[m].kind \in {"constructor", "constructorHead"} /\ Has(UpgradeableSigns)
                /\ KindsIn(BlockFrom(m)) \cap ConstructorWrites # {} /\ BlockFrom(m)[1] = n
         /\ Finds("storage-gap-missing", n) <=>
              \E m \in 1..Len(file) :
                /\ file[m].kind \in ContractLines /\ UpgradeableBlock(BlockFrom(m))
                /\ "gap" \notin KindsIn(BlockFrom(m)) /\ StateVars(BlockFrom(m)) # {} /\ BlockFrom(m)[1] = n
         /\ Finds("uninitialized-ownable", n) <=>
              \E j \in 1..Len(blocks) :
                InheritsOwnable(blocks[j]) /\ ~OwnershipInitialized(blocks[j]) /\ blocks[j][1] = n
<1>1. \A rule, name, ls : LineFinding(rule, name, ls).rule = rule /\ LineFinding(rule, name, ls).line = ls[1]
  BY DEF LineFinding
<1>2. /\ \A r \in UncheckedCalls : r.rule = "unchecked-call"
      /\ \A r \in Reinitializable : r.rule = "reinitializable-init"
      /\ \A r \in ConstructorInUpgradeable : r.rule = "constructor-in-upgradeable"
      /\ \A r \in StorageGapMissing : r.rule = "storage-gap-missing"
      /\ \A r \in UninitializedOwnable : r.rule = "uninitialized-ownable"
  <2>1. \A r \in UncheckedCalls : r.rule = "unchecked-call"
    <3> TAKE r \in UncheckedCalls
    <3>1. \E name, ls : r = LineFinding("unchecked-call", name, ls)
      BY DEF UncheckedCalls
    <3> QED BY <1>1, <3>1
  <2>2. \A r \in Reinitializable : r.rule = "reinitializable-init"
    BY <1>1 DEF Reinitializable
  <2>3. \A r \in ConstructorInUpgradeable : r.rule = "constructor-in-upgradeable"
    BY <1>1 DEF ConstructorInUpgradeable
  <2>4. \A r \in StorageGapMissing : r.rule = "storage-gap-missing"
    BY <1>1 DEF StorageGapMissing
  <2>5. \A r \in UninitializedOwnable : r.rule = "uninitialized-ownable"
    BY <1>1 DEF UninitializedOwnable
  <2> QED BY <2>1, <2>2, <2>3, <2>4, <2>5
<1>3. /\ Finds("unchecked-call", n) <=> \E r \in UncheckedCalls : r.line = n
      /\ Finds("reinitializable-init", n) <=> \E r \in Reinitializable : r.line = n
      /\ Finds("constructor-in-upgradeable", n) <=> \E r \in ConstructorInUpgradeable : r.line = n
      /\ Finds("storage-gap-missing", n) <=> \E r \in StorageGapMissing : r.line = n
      /\ Finds("uninitialized-ownable", n) <=> \E r \in UninitializedOwnable : r.line = n
  BY <1>2 DEF Finds, LineFindings
<1>4. (\E r \in UncheckedCalls : r.line = n) <=>
        \E j \in 1..Len(functions) : \E i \in Unchecked(functions[j]) : functions[j].lines[i] = n
  <2>1. \A j, i : LineFinding("unchecked-call", functions[j].name, <<functions[j].lines[i]>>).line = functions[j].lines[i]
    BY <1>1
  <2>2. UncheckedCalls = UNION {{LineFinding("unchecked-call", functions[j].name, <<functions[j].lines[i]>>) :
                                   i \in Unchecked(functions[j])} : j \in 1..Len(functions)}
    BY DEF UncheckedCalls
  <2> DEFINE F(j, i) == LineFinding("unchecked-call", functions[j].name, <<functions[j].lines[i]>>)
  <2>3. UncheckedCalls = UNION {{F(j, i) : i \in Unchecked(functions[j])} : j \in 1..Len(functions)}
    BY <2>2
  <2>4. \A j, i : F(j, i).line = functions[j].lines[i]
    BY <2>1
  <2> HIDE DEF F
  <2>5. \A r : r \in UncheckedCalls <=> \E j \in 1..Len(functions) : \E i \in Unchecked(functions[j]) : r = F(j, i)
    BY <2>3
  <2> QED BY <2>4, <2>5
<1>5. (\E r \in Reinitializable : r.line = n) <=>
              \E j \in 1..Len(functions) :
                /\ functions[j].name = "initialize" /\ file[functions[j].lines[1]].visibility # "internal"
                /\ ~IsProtected(LinesOf(functions[j].lines)) /\ functions[j].lines[1] = n
  <2> DEFINE S == {j \in 1..Len(functions) : /\ functions[j].name = "initialize"
                                             /\ file[functions[j].lines[1]].visibility # "internal"
                                             /\ ~IsProtected(LinesOf(functions[j].lines))}
             F(b) == LineFinding("reinitializable-init", "initialize", b.lines)
  <2>1. Reinitializable = {F(b) : b \in {functions[j] : j \in S}}
    BY DEF Reinitializable
  <2>2. \A b : F(b).line = b.lines[1]
    BY <1>1
  <2>3. (\E r \in Reinitializable : r.line = n) <=> \E j \in S : functions[j].lines[1] = n
    <3> HIDE DEF F, S
    <3> QED BY <2>1, <2>2
  <2> QED BY <2>3
<1>6. (\E r \in ConstructorInUpgradeable : r.line = n) <=>
              \E m \in 1..Len(file) :
                /\ file[m].kind \in {"constructor", "constructorHead"} /\ Has(UpgradeableSigns)
                /\ KindsIn(BlockFrom(m)) \cap ConstructorWrites # {} /\ BlockFrom(m)[1] = n
  BY <1>1 DEF ConstructorInUpgradeable, Has
<1>7. (\E r \in StorageGapMissing : r.line = n) <=>
              \E m \in 1..Len(file) :
                /\ file[m].kind \in ContractLines /\ UpgradeableBlock(BlockFrom(m))
                /\ "gap" \notin KindsIn(BlockFrom(m)) /\ StateVars(BlockFrom(m)) # {} /\ BlockFrom(m)[1] = n
  BY <1>1 DEF StorageGapMissing
<1>8. (\E r \in UninitializedOwnable : r.line = n) <=>
              \E j \in 1..Len(blocks) :
                InheritsOwnable(blocks[j]) /\ ~OwnershipInitialized(blocks[j]) /\ blocks[j][1] = n
  BY <1>1 DEF UninitializedOwnable
<1> QED BY <1>3, <1>4, <1>5, <1>6, <1>7, <1>8

-----------------------------------------------------------------------------
(* The blocks of extractConstructors and extractContractBlocks *)

\* The lines where a block from line n may end, by the braces open in the file
EndsFrom(n) == {m \in n..Len(file) : Depth(file, m) <= Depth(file, n - 1) /\ (m > n \/ Opens(file[n]) = 1)}

\* A block from a line ends at the first line where its braces close.
LEMMA BlockFromIs ==
  ASSUME Typed, NEW n \in 1..Len(file), NEW e \in EndsFrom(n), \A m \in EndsFrom(n) : e <= m
  PROVE  BlockFrom(n) = FromTo(n, e) /\ BlockFrom(n)[1] = n /\ e \in n..Len(file)
<1>1. Len(file) \in Nat
  BY LenProperties DEF Typed
<1>2. \A m \in n..Len(file) : Depth(LinesOf(FromTo(n, m)), m - n + 1) = Depth(file, m) - Depth(file, n - 1)
  <2> TAKE m \in n..Len(file)
  <2>1. m \in Nat /\ n >= 1 /\ n <= m /\ m - n + 1 \in 0..(m - n + 1) /\ n + (m - n + 1) - 1 = m
    BY <1>1
  <2>2. Depth(LinesOf(FromTo(n, m)), m - n + 1) = Depth(file, n + (m - n + 1) - 1) - Depth(file, n - 1)
    BY <2>1, PartOf
  <2> QED BY <2>1, <2>2
<1>3. \A m \in n..Len(file) : Depth(file, m) \in Int
  BY <1>1, DepthNext
<1>4. Depth(file, n - 1) \in Int
  BY <1>1, DepthNext
<1>5. EndsFrom(n) = {m \in n..Len(file) : Depth(LinesOf(FromTo(n, m)), m - n + 1) <= 0 /\ (m > n \/ Opens(file[n]) = 1)}
  BY <1>2, <1>3, <1>4 DEF EndsFrom
<1>6. e \in n..Len(file) /\ EndsFrom(n) \subseteq Nat
  BY <1>1 DEF EndsFrom
<1>7. First(EndsFrom(n)) = e
  BY <1>6, FirstIs
<1>8. BlockFrom(n) = FromTo(n, e)
  BY <1>5, <1>7 DEF BlockFrom
<1>9. FromTo(n, e)[1] = n
  BY <1>1, <1>6, FromToIs
<1> QED BY <1>6, <1>8, <1>9

-----------------------------------------------------------------------------
(* Constructors *)

\* A line's braces, as a step of the depth
LEMMA DepthMoves ==
  ASSUME Typed
  PROVE  /\ Len(file) \in Nat
         /\ \A m \in 0..Len(file) : Depth(file, m) \in Int
         /\ \A m \in 1..Len(file) : Depth(file, m) = Depth(file, m - 1) + Opens(file[m]) - Closes(file[m])
         /\ \A m : Opens(file[m]) \in {0, 1} /\ Closes(file[m]) \in {0, 1}
<1>1. Len(file) \in Nat
  BY LenProperties DEF Typed
<1>2. ASSUME NEW m \in 1..Len(file)
      PROVE  Depth(file, m) = Depth(file, m - 1) + Opens(file[m]) - Closes(file[m])
  <2>1. PICK x : x = m - 1
    OBVIOUS
  <2>2. x \in Nat /\ x + 1 = m
    BY <1>1, <2>1
  <2>3. Depth(file, x + 1) = Depth(file, x) + Delta(file[x + 1]) /\ Depth(file, x) \in Int
    BY <2>2, DepthNext
  <2> QED BY <2>1, <2>2, <2>3, BracesOf
<1>3. \A m \in 0..Len(file) : Depth(file, m) \in Int
  BY <1>1, DepthNext
<1> QED BY <1>1, <1>2, <1>3, BracesOf

\* extractConstructors cuts a constructor where it ends, unless the "{" is not on its
\* first two lines: then it takes two lines of the head.
LEMMA ConstructorBlocks ==
  ASSUME Grammar, DepthInv, PlaceInv, scopes = <<>>,
         NEW n \in 1..Len(file), file[n].kind \in {"constructor", "constructorHead"}
  PROVE  /\ BlockFrom(n)[1] = n
         /\ IF file[n].kind = "constructor" \/ file[n + 1].kind = "brace"
            THEN BlockFrom(n) = ConstructorLines(n)
            ELSE KindsIn(BlockFrom(n)) \cap ConstructorWrites = {}
<1> DEFINE N == Len(file)
           D(m) == Depth(file, m)
           E == EndsFrom(n)
<1>1. /\ N \in Nat /\ (\A m \in 0..N : D(m) \in Int)
      /\ \A m \in 1..N : D(m) = D(m - 1) + Opens(file[m]) - Closes(file[m])
      /\ \A m : Opens(file[m]) \in {0, 1} /\ Closes(file[m]) \in {0, 1}
  BY DepthMoves DEF Grammar
<1>2. Second = NoName /\ D(N) = 0 /\ D(n - 1) = 1
  <2>1. Level = 0
    BY LevelIs DEF Grammar
  <2>2. Second = NoName
    BY EmptySeq DEF Second
  <2> QED BY <2>1, <2>2 DEF DepthInv, PlaceInv
<1>3. /\ file[n].kind = "constructor" => Opens(file[n]) = 1 /\ Closes(file[n]) = 0
      /\ file[n].kind = "constructorHead" => Opens(file[n]) = 0 /\ Closes(file[n]) = 0
  BY BracesOf
<1>4. n # N
  <2>1. CASE file[n].kind = "constructor"
    <3>1. D(n) = 2
      BY <1>1, <1>2, <1>3, <2>1
    <3> QED BY <1>2, <3>1
  <2>2. CASE file[n].kind = "constructorHead"
    BY <1>2, <2>2 DEF PlaceInv, NoName
  <2> QED BY <2>1, <2>2
<1>5. n + 1 \in 1..N /\ n \in 1..N /\ N > n
  BY <1>1, <1>4
<1>6. file[n].kind = "constructorHead" => file[n + 1].kind \in {"constructorMark", "comment", "brace"}
  BY <1>4 DEF PlaceInv
<1>7. E \subseteq Nat /\ N \in E
  BY <1>1, <1>2, <1>5 DEF EndsFrom
<1>8. PICK e \in E : \A m \in E : e <= m
  BY <1>7, LeastElement
<1>9. BlockFrom(n) = FromTo(n, e) /\ BlockFrom(n)[1] = n /\ e \in n..N
  BY <1>8, BlockFromIs DEF Grammar
<1>10. \A m : m \in E <=> m \in n..N /\ D(m) <= 1 /\ (m > n \/ Opens(file[n]) = 1)
  BY <1>2 DEF EndsFrom
<1>11. CASE file[n].kind = "constructorHead" /\ file[n + 1].kind # "brace"
  <2>1. Opens(file[n]) = 0 /\ D(n) = 1 /\ D(n + 1) = 1
    <3>1. D(n) = 1
      BY <1>1, <1>2, <1>3, <1>11
    <3>2. Opens(file[n + 1]) = 0 /\ Closes(file[n + 1]) = 0
      BY <1>6, <1>11, BracesOf
    <3> HIDE DEF D
    <3>3. D(n + 1) = D(n) + 0 - 0
      <4>1. (n + 1) - 1 = n
        BY <1>5
      <4>2. D(n + 1) = D((n + 1) - 1) + Opens(file[n + 1]) - Closes(file[n + 1])
        BY <1>1, <1>5
      <4> QED BY <3>2, <4>1, <4>2
    <3> QED BY <1>3, <1>11, <3>1, <3>3
  <2>2. n + 1 \in E /\ n \notin E
    <3> HIDE DEF E, D
    <3>1. n + 1 \in n..N /\ n + 1 > n /\ ~(n > n)
      BY <1>1, <1>5
    <3>2. D(n + 1) <= 1
      BY <2>1
    <3> HIDE DEF N
    <3>3. n + 1 \in E
      BY <1>10, <3>1, <3>2
    <3>4. n \notin E
      BY <1>10, <2>1, <3>1
    <3> QED BY <3>3, <3>4
  <2>3. e = n + 1
    <3> HIDE DEF E, D
    <3> QED BY <1>1, <1>8, <1>9, <2>2
  <2>4. \A i \in 1..Len(FromTo(n, n + 1)) : FromTo(n, n + 1)[i] \in {n, n + 1}
    <3>1. PICK x : x = n + 1
      OBVIOUS
    <3>2. x \in Nat /\ n \in Nat /\ n >= 1 /\ n <= x /\ x = n + 1
      BY <1>5, <3>1
    <3>3. Len(FromTo(n, x)) = x - n + 1 /\ \A i \in 1..(x - n + 1) : FromTo(n, x)[i] = n + i - 1
      BY <3>2, FromToIs
    <3>4. \A i \in 1..(x - n + 1) : n + i - 1 \in {n, x}
      BY <3>2
    <3> QED BY <3>1, <3>3, <3>4
  <2>5. KindsIn(BlockFrom(n)) \subseteq {file[n].kind, file[n + 1].kind}
    BY <1>9, <2>3, <2>4 DEF KindsIn
  <2> QED BY <1>6, <1>9, <1>11, <2>5 DEF ConstructorWrites
<1>12. CASE file[n].kind = "constructor" \/ file[n + 1].kind = "brace"
  <2>1. PICK o : o = IF file[n].kind = "constructor" THEN n ELSE n + 1
    OBVIOUS
  <2>2. o \in n..N /\ D(o) = 2 /\ Opens(file[o]) = 1 /\ (o = n => Opens(file[n]) = 1) /\ (o # n => Opens(file[n]) = 0 /\ o = n + 1)
    <3>1. CASE file[n].kind = "constructor"
      BY <1>1, <1>2, <1>3, <2>1, <3>1
    <3>2. CASE file[n].kind # "constructor"
      <4>1. o = n + 1 /\ D(n) = 1
        BY <1>1, <1>2, <1>3, <2>1, <3>2
      <4>2. Opens(file[n + 1]) = 1 /\ Closes(file[n + 1]) = 0
        BY <1>12, <3>2, BracesOf
      <4> HIDE DEF D
      <4>3. D(n + 1) = D(n) + 1 - 0
        <5>1. (n + 1) - 1 = n
          BY <1>5
        <5>2. D(n + 1) = D((n + 1) - 1) + Opens(file[n + 1]) - Closes(file[n + 1])
          BY <1>1, <1>5
        <5> QED BY <4>2, <5>1, <5>2
      <4> QED BY <1>3, <1>5, <3>2, <4>1, <4>2, <4>3
    <3> QED BY <3>1, <3>2
  <2>3. e > o
    <3> HIDE DEF E, D
    <3>1. e \in E /\ e \in n..N /\ D(e) <= 1 /\ (e > n \/ Opens(file[n]) = 1)
      BY <1>8, <1>10
    <3> QED BY <1>1, <2>2, <3>1
  <2>4. D(e) = 1
    <3> HIDE DEF E, D
    <3>1. e - 1 \in n..N /\ e - 1 \notin E /\ e \in 1..N
      BY <1>1, <1>8, <1>9, <2>2, <2>3
    <3>2. e - 1 > n \/ Opens(file[n]) = 1
      BY <1>1, <1>9, <2>2, <2>3
    <3>3. ~(D(e - 1) <= 1)
      BY <1>10, <3>1, <3>2
    <3>4. D(e - 1) \in Int /\ D(e) \in Int /\ D(e) = D(e - 1) + Opens(file[e]) - Closes(file[e]) /\ D(e) <= 1
      BY <1>1, <1>8, <1>10, <3>1
    <3> QED BY <1>1, <3>3, <3>4
  <2> DEFINE C == {m \in n..N : /\ Depth(LinesOf(FromTo(n, m)), m - n + 1) = 0
                                /\ \E i \in n..m : Opens(file[i]) = 1}
  <2>5. \A m \in n..N : Depth(LinesOf(FromTo(n, m)), m - n + 1) = D(m) - 1
    <3> TAKE m \in n..N
    <3>1. m \in Nat /\ n >= 1 /\ n <= m /\ m - n + 1 \in 0..(m - n + 1) /\ n + (m - n + 1) - 1 = m
      BY <1>1
    <3>2. Depth(LinesOf(FromTo(n, m)), m - n + 1) = Depth(file, n + (m - n + 1) - 1) - Depth(file, n - 1)
      BY <3>1, PartOf
    <3> QED BY <1>2, <3>1, <3>2
  <2>6. \A m : m \in C <=> m \in n..N /\ D(m) = 1 /\ \E i \in n..m : Opens(file[i]) = 1
    <3>1. \A m \in n..N : D(m) \in Int
      BY <1>1
    <3> HIDE DEF D
    <3> QED BY <2>5, <3>1
  <2>7. C \subseteq E
    <3> SUFFICES ASSUME NEW m \in C PROVE m \in E
      OBVIOUS
    <3> HIDE DEF C, E, D
    <3>1. m \in n..N /\ D(m) = 1 /\ \E i \in n..m : Opens(file[i]) = 1
      BY <2>6
    <3>2. m > n \/ Opens(file[n]) = 1
      BY <3>1
    <3> QED BY <1>10, <3>1, <3>2
  <2>8. e \in C
    <3> HIDE DEF C, E, D
    <3>1. o \in n..e
      BY <1>1, <1>9, <2>2, <2>3
    <3> QED BY <1>9, <2>2, <2>4, <2>6, <3>1
  <2>9. First(C) = e
    <3> HIDE DEF C, E
    <3> QED BY <1>7, <1>8, <2>7, <2>8, FirstIs
  <2>10. ConstructorLines(n) = FromTo(n, First(C))
    BY DEF ConstructorLines
  <2> QED BY <1>9, <1>12, <2>9, <2>10
<1> QED BY <1>9, <1>11, <1>12

\* What ConstructorInUpgradeable finds
LEMMA ConstructorsFound ==
  ASSUME Grammar, DepthInv, PlaceInv, scopes = <<>>,
         NEW n \in 1..Len(file), file[n].kind \in {"constructor", "constructorHead"}
  PROVE  Finds("constructor-in-upgradeable", n)
           <=> /\ Has({"upgradeable", "base", "gap", "ownableInit"})
               /\ KindsIn(ConstructorLines(n)) \cap {"write", "set", "reset", "ownableInit"} # {}
               /\ file[n].kind = "constructor" \/ file[n + 1].kind = "brace"
<1>1. Finds("constructor-in-upgradeable", n) <=>
        Has(UpgradeableSigns) /\ KindsIn(BlockFrom(n)) \cap ConstructorWrites # {}
  <2>1. \A m \in 1..Len(file) : file[m].kind \in {"constructor", "constructorHead"} => BlockFrom(m)[1] = m
    BY ConstructorBlocks
  <2> QED BY <2>1, FoundAre
<1> QED BY <1>1, ConstructorBlocks DEF UpgradeableSigns, ConstructorWrites

-----------------------------------------------------------------------------
(* Contracts *)

\* Contracts are in the order of the file.
OrderInv ==
  /\ \A k \in 1..Len(source) : source[k].line \in 1..Len(file)
  /\ \A j, k \in 1..Len(source) : j < k => source[j].line < source[k].line

\* The contracts stay in the order of their lines.
LEMMA ContractOrderStep ==
  ASSUME Grammar, OrderInv, NEW l, Reads(l)
  PROVE  OrderInv'
<1>0. PICK n, s, t : n = Len(file) /\ s = source /\ t = source'
  OBVIOUS
<1>1. n \in Nat /\ Len(file') = n + 1 /\ Here = n + 1 /\ Len(s) \in Nat
  BY <1>0, FileIs, LenProperties DEF Grammar, Typed
<1>2. OrderInv' = (/\ \A k \in 1..Len(t) : t[k].line \in 1..Len(file')
                   /\ \A j, k \in 1..Len(t) : j < k => t[j].line < t[k].line)
  BY <1>0 DEF OrderInv
<1>3. /\ \A k \in 1..Len(s) : s[k].line \in 1..n
      /\ \A j, k \in 1..Len(s) : j < k => s[j].line < s[k].line
  BY <1>0 DEF OrderInv
<1>4. CASE Len(t) = Len(s) /\ \A k \in 1..Len(s) : t[k].line = s[k].line
  BY <1>1, <1>2, <1>3, <1>4
<1>5. CASE /\ Len(t) = Len(s) + 1 /\ (\A k \in 1..Len(s) : t[k].line = s[k].line)
           /\ t[Len(s) + 1].line = n + 1
  <2>1. \A k \in 1..Len(t) : k \in 1..Len(s) \/ k = Len(s) + 1
    BY <1>1, <1>5
  <2>2. \A k \in 1..Len(t) : t[k].line \in 1..(n + 1)
    BY <1>1, <1>3, <1>5, <2>1
  <2>3. ASSUME NEW j \in 1..Len(t), NEW k \in 1..Len(t), j < k PROVE t[j].line < t[k].line
    <3>1. j \in 1..Len(s)
      BY <1>1, <1>5, <2>3
    <3>2. CASE k \in 1..Len(s)
      BY <1>3, <1>5, <2>3, <3>1, <3>2
    <3>3. CASE k = Len(s) + 1
      <4>1. s[j].line \in 1..n /\ t[j].line = s[j].line /\ t[k].line = n + 1
        BY <1>3, <1>5, <3>1, <3>3
      <4> QED BY <1>1, <4>1
    <3> QED BY <2>1, <3>2, <3>3
  <2> QED BY <1>1, <1>2, <2>2, <2>3
<1>6. scopes # <<>> => Len(t) = Len(s) /\ \A k \in 1..Len(s) : t[k].line = s[k].line
  BY <1>0, SourceStep
<1>7. scopes = <<>> /\ l.kind \notin ContractLines => Len(t) = Len(s) /\ \A k \in 1..Len(s) : t[k].line = s[k].line
  BY <1>0, SourceStep
<1>8. scopes = <<>> /\ l.kind \in ContractLines =>
        /\ Len(t) = Len(s) + 1 /\ (\A k \in 1..Len(s) : t[k].line = s[k].line)
        /\ t[Len(s) + 1].line = n + 1
  BY <1>0, <1>1, SourceStep
<1>9. CASE scopes # <<>>
  BY <1>4, <1>6, <1>9
<1>10. CASE scopes = <<>> /\ l.kind \notin ContractLines
  BY <1>4, <1>7, <1>10
<1>11. CASE scopes = <<>> /\ l.kind \in ContractLines
  BY <1>5, <1>8, <1>11
<1> QED
  BY <1>9, <1>10, <1>11

\* The lines of a contract, and those of the file that belong to none
LEMMA ContractText ==
  ASSUME Grammar, GatherInv, OrderInv, TextInv, scopes = <<>>, NEW k \in 1..Len(source)
  PROVE  LET n == source[k].line
             b == blocks[k]
         IN \E e \in n..Len(file) :
              /\ n \in 1..Len(file) /\ Len(file) \in Nat /\ Len(blocks) = Len(source)
              /\ b = FromTo(n, e) /\ FinishedRun(file, source[k], b) /\ b[Len(b)] = e
              /\ Members(Text(k)) \subseteq 1..Len(file)
              /\ n..e \subseteq Members(Text(k))
              /\ \A m \in Members(Text(k)) : m \in n..e \/ (m > e /\ file[m].kind \in {"import", "comment"})
              /\ n + 1 \in 1..Len(file) /\ file[n + 1].kind \notin ContractLines => n + 1 \in Members(Text(k))
<1>0. PICK n, b, N : n = source[k].line /\ b = blocks[k] /\ N = Len(file)
  OBVIOUS
<1>1. N \in Nat /\ Len(source) \in Nat /\ Len(blocks) = Len(source)
  BY <1>0, LenProperties DEF Grammar, Typed, GatherInv
<1>2. PICK e : e = b[Len(b)]
  OBVIOUS
<1>3. FinishedRun(file, source[k], b)
  BY <1>0, <1>1 DEF TextInv
<1>4. e \in 1..N /\ b = FromTo(n, e) /\ n \in 1..e /\ \A m \in (n + 1)..e : file[m].kind \notin ContractLines
  BY <1>0, <1>2, <1>3 DEF FinishedRun, ContractRun
<1>5. PICK t : t = IF k < Len(source) THEN source[k + 1].line - 1 ELSE N
  OBVIOUS
<1>6. t \in e..N /\ (k < Len(source) => file[source[k + 1].line].kind \in ContractLines /\ source[k + 1].line = t + 1)
  <2>1. CASE k < Len(source)
    <3>1. k + 1 \in 1..Len(source) /\ k < k + 1
      BY <1>1, <2>1
    <3>2. source[k + 1].line \in 1..N /\ n < source[k + 1].line
      BY <1>0, <3>1 DEF OrderInv
    <3>3. file[source[k + 1].line].kind \in ContractLines
      <4>1. FinishedRun(file, source[k + 1], blocks[k + 1])
        BY <1>1, <3>1 DEF TextInv
      <4> QED BY <4>1 DEF FinishedRun, ContractRun
    <3>4. source[k + 1].line \notin (n + 1)..e
      BY <1>4, <3>3
    <3> QED BY <1>1, <1>4, <1>5, <2>1, <3>2, <3>3, <3>4
  <2>2. CASE ~(k < Len(source))
    BY <1>1, <1>4, <1>5, <2>2
  <2> QED BY <2>1, <2>2
<1>7. Text(k) = FromTo(n, t)
  BY <1>0, <1>5 DEF Text
<1>8. Members(Text(k)) = n..t
  <2>1. n \in Nat /\ t \in Nat /\ n >= 1 /\ n <= t
    BY <1>1, <1>4, <1>6
  <2>2. /\ Len(FromTo(n, t)) = t - n + 1 /\ (\A i \in 1..(t - n + 1) : FromTo(n, t)[i] = n + i - 1)
        /\ \A x \in n..t : \E i \in 1..Len(FromTo(n, t)) : FromTo(n, t)[i] = x
    BY <2>1, FromToIs
  <2>3. \A i \in 1..(t - n + 1) : n + i - 1 \in n..t
    BY <2>1
  <2>4. Members(Text(k)) = {FromTo(n, t)[i] : i \in 1..Len(FromTo(n, t))}
    BY <1>7 DEF Members
  <2>5. ASSUME NEW x \in n..t PROVE x \in Members(Text(k))
    BY <2>2, <2>4
  <2>6. ASSUME NEW x \in Members(Text(k)) PROVE x \in n..t
    BY <2>2, <2>3, <2>4
  <2> QED BY <2>5, <2>6
<1>9. \A m \in n..t : m \in n..e \/ (m > e /\ file[m].kind \in {"import", "comment"})
  <2> SUFFICES ASSUME NEW m \in n..t, ~(m \in n..e) PROVE m > e /\ file[m].kind \in {"import", "comment"}
    OBVIOUS
  <2>1. m > e /\ m \in 1..N /\ (k < Len(source) => m < source[k + 1].line)
    BY <1>1, <1>4, <1>6
  <2> QED BY <1>0, <1>1, <1>2, <2>1 DEF TextInv
<1>10. n + 1 \in 1..N /\ file[n + 1].kind \notin ContractLines => n + 1 \in n..t
  <2>1. CASE k < Len(source)
    BY <1>1, <1>4, <1>6, <2>1
  <2>2. CASE ~(k < Len(source))
    BY <1>1, <1>4, <1>5, <2>2
  <2> QED BY <2>1, <2>2
<1>11. n..e \subseteq n..t /\ n..t \subseteq 1..N /\ e \in n..N /\ n \in 1..N
  BY <1>1, <1>4, <1>6
<1> QED BY <1>0, <1>1, <1>2, <1>3, <1>4, <1>8, <1>9, <1>10, <1>11

\* The kinds in the lines from n to e
LEMMA KindsAre ==
  ASSUME Len(file) \in Nat, NEW n \in 1..Len(file), NEW e \in n..Len(file)
  PROVE  /\ KindsIn(FromTo(n, e)) = {file[m].kind : m \in n..e}
         /\ Len(FromTo(n, e)) = e - n + 1
         /\ \A m \in n..e : m - n + 1 \in 1..Len(FromTo(n, e)) /\ FromTo(n, e)[m - n + 1] = m
         /\ \A i \in 1..Len(FromTo(n, e)) : FromTo(n, e)[i] = n + i - 1 /\ n + i - 1 \in n..e
<1> DEFINE s == FromTo(n, e)
<1>1. n \in Nat /\ e \in Nat /\ n >= 1 /\ n <= e
  OBVIOUS
<1>2. /\ Len(s) = e - n + 1 /\ (\A i \in 1..(e - n + 1) : s[i] = n + i - 1)
  BY <1>1, FromToIs
<1> HIDE DEF s
<1>3. \A m \in n..e : m - n + 1 \in 1..Len(s) /\ n + (m - n + 1) - 1 = m
  BY <1>1, <1>2
<1>4. \A m \in n..e : s[m - n + 1] = m
  BY <1>2, <1>3
<1>5. \A i \in 1..Len(s) : s[i] = n + i - 1 /\ n + i - 1 \in n..e
  BY <1>1, <1>2
<1>6. KindsIn(s) = {file[s[i]].kind : i \in 1..Len(s)}
  BY DEF KindsIn
<1>7. ASSUME NEW m \in n..e PROVE file[m].kind \in KindsIn(s)
  BY <1>3, <1>4, <1>6
<1>8. ASSUME NEW x \in KindsIn(s) PROVE \E m \in n..e : x = file[m].kind
  BY <1>5, <1>6
<1>9. KindsIn(s) = {file[m].kind : m \in n..e}
  BY <1>7, <1>8
<1> QED BY <1>2, <1>3, <1>4, <1>5, <1>9 DEF s

\* extractContractBlocks cuts a contract where it ends, unless its header goes on in a
\* second line: then it takes two lines of the header.
LEMMA ContractBlocks ==
  ASSUME Grammar, GatherInv, DepthInv, PlaceInv, OrderInv, TextInv, scopes = <<>>, NEW k \in 1..Len(source)
  PROVE  LET n == source[k].line
         IN IF file[n].kind = "bareContract" /\ file[n + 1].kind # "brace"
            THEN n + 1 \in 1..Len(file) /\ BlockFrom(n) = FromTo(n, n + 1) /\ file[n + 1].kind \in HeadLines
            ELSE BlockFrom(n) = blocks[k]
<1>0. PICK n, N : n = source[k].line /\ N = Len(file)
  OBVIOUS
<1> DEFINE D(m) == Depth(file, m)
<1>1. PICK e \in n..N :
        /\ n \in 1..N /\ N \in Nat
        /\ blocks[k] = FromTo(n, e) /\ FinishedRun(file, source[k], blocks[k]) /\ blocks[k][Len(blocks[k])] = e
        /\ \A m \in Members(Text(k)) : m \in n..e \/ (m > e /\ file[m].kind \in {"import", "comment"})
        /\ n + 1 \in 1..N /\ file[n + 1].kind \notin ContractLines => n + 1 \in Members(Text(k))
  BY <1>0, ContractText
<1>2. /\ (\A m \in 0..N : D(m) \in Int)
      /\ \A m \in 1..N : D(m) = D(m - 1) + Opens(file[m]) - Closes(file[m])
      /\ \A m : Opens(file[m]) \in {0, 1} /\ Closes(file[m]) \in {0, 1}
  BY <1>0, DepthMoves DEF Grammar
<1>3. /\ file[n].kind \in ContractLines /\ D(n - 1) = 0 /\ D(e) = 0 /\ StaysOpen(file, n, e - 1)
  BY <1>0, <1>1 DEF FinishedRun, ContractRun
<1>4. \A m : m \in EndsFrom(n) <=> m \in n..N /\ D(m) <= 0 /\ (m > n \/ Opens(file[n]) = 1)
  BY <1>0, <1>3 DEF EndsFrom
<1>5. /\ file[n].kind = "bareContract" => Opens(file[n]) = 0 /\ Closes(file[n]) = 0
      /\ file[n].kind # "bareContract" => Opens(file[n]) = 1
  BY <1>3, BracesOf DEF ContractLines
<1>6. file[n].kind = "bareContract" => n + 1 \in 1..N /\ file[n + 1].kind \in HeadLines \cup {"brace"}
  <2> HAVE file[n].kind = "bareContract"
  <2>1. ~InHeader
    BY EmptySeq DEF InHeader
  <2>2. n # N /\ file[n + 1].kind \in HeadLines \cup {"brace"}
    BY <1>0, <1>1, <2>1 DEF PlaceInv
  <2> QED BY <1>1, <2>2
<1>7. CASE file[n].kind = "bareContract" /\ file[n + 1].kind # "brace"
  <2>1. n + 1 \in 1..N /\ file[n + 1].kind \in HeadLines
    BY <1>6, <1>7
  <2>2. Opens(file[n + 1]) = 0 /\ Closes(file[n + 1]) = 0
    BY <2>1, BracesOf DEF HeadLines
  <2>3. D(n) = 0 /\ D(n + 1) = 0
    <3>1. (n + 1) - 1 = n
      BY <1>1
    <3>2. D(n + 1) = D((n + 1) - 1) + Opens(file[n + 1]) - Closes(file[n + 1])
      BY <1>2, <2>1
    <3>3. D(n) = D(n - 1) + Opens(file[n]) - Closes(file[n])
      BY <1>1, <1>2
    <3> HIDE DEF D
    <3> QED BY <1>3, <1>5, <1>7, <2>2, <3>1, <3>2, <3>3
  <2>4. n + 1 \in n..N /\ n + 1 > n /\ ~(n > n)
    BY <1>1, <2>1
  <2> HIDE DEF D
  <2>5. n + 1 \in EndsFrom(n)
    BY <1>4, <2>3, <2>4
  <2>6. \A m \in EndsFrom(n) : n + 1 <= m
    <3> TAKE m \in EndsFrom(n)
    <3>1. m \in n..N /\ m # n
      BY <1>4, <1>5, <1>7, <2>4
    <3> QED BY <1>1, <3>1
  <2>7. BlockFrom(n) = FromTo(n, n + 1)
    BY <1>0, <1>1, <2>5, <2>6, BlockFromIs DEF Grammar
  <2> QED BY <1>0, <1>7, <2>1, <2>7
<1>8. CASE ~(file[n].kind = "bareContract" /\ file[n + 1].kind # "brace")
  <2>1. e > n \/ Opens(file[n]) = 1
    <3>1. CASE file[n].kind = "bareContract"
      <4>1. file[n + 1].kind = "brace" /\ n + 1 \in 1..N
        BY <1>6, <1>8, <3>1
      <4>2. n + 1 \in Members(Text(k))
        BY <1>1, <4>1 DEF ContractLines
      <4>3. n + 1 \in n..e
        BY <1>1, <4>1, <4>2
      <4> QED BY <1>1, <4>3
    <3>2. CASE file[n].kind # "bareContract"
      BY <1>5, <3>2
    <3> QED BY <3>1, <3>2
  <2>2. e \in EndsFrom(n)
    <3> HIDE DEF D
    <3> QED BY <1>1, <1>3, <1>4, <2>1
  <2>3. ASSUME NEW m \in EndsFrom(n) PROVE e <= m
    <3>1. m \in n..N /\ D(m) <= 0 /\ (m > n \/ Opens(file[n]) = 1)
      BY <1>4, <2>3
    <3>2. SUFFICES ASSUME ~(e <= m) PROVE FALSE
      OBVIOUS
    <3>3. m \in n..(e - 1) /\ D(m) \in Int
      BY <1>1, <1>2, <3>1, <3>2
    <3>4. ~(D(m) >= 1)
      <4> HIDE DEF D
      <4> QED BY <3>1, <3>3
    <3>5. InHead(file, n, m)
      BY <1>3, <3>3, <3>4 DEF StaysOpen
    <3>6. file[n].kind = "bareContract" /\ m > n
      BY <1>5, <3>1, <3>5 DEF InHead
    <3>7. n + 1 \in (n + 1)..m /\ file[n + 1].kind = "brace"
      BY <1>1, <1>8, <3>3, <3>6
    <3>8. file[n + 1].kind \in HeadLines
      BY <3>5, <3>7 DEF InHead
    <3> QED BY <3>7, <3>8 DEF HeadLines
  <2>4. BlockFrom(n) = FromTo(n, e)
    BY <1>0, <1>1, <2>2, <2>3, BlockFromIs DEF Grammar
  <2> QED BY <1>0, <1>1, <1>8, <2>4
<1> QED BY <1>7, <1>8

\* What StorageGapMissing and UninitializedOwnable find
LEMMA ContractsFound ==
  ASSUME Grammar, GatherInv, DepthInv, PlaceInv, OrderInv, TextInv, scopes = <<>>
  PROVE  \A k \in 1..Len(source) :
           LET kinds == KindsIn(Text(k))
               n     == source[k].line
               bases == {m \in Members(Text(k)) : file[m].kind \in {"upgradeable", "base"}}
               named(names) == \E m \in Members(Text(k)) : file[m].kind \in FunctionLines /\ file[m].name \in names
           IN /\ Finds("storage-gap-missing", n)
                   <=> /\ bases # {} \/ "ownableInit" \in kinds \/ named({"initialize"})
                       /\ source[k].vars # {} /\ "gap" \notin kinds
                       /\ file[n].kind = "bareContract" => file[n + 1].kind = "brace"
              /\ Finds("uninitialized-ownable", n)
                   <=> /\ \E m \in bases : m = n \/ file[m - 1].kind # "comment"
                       /\ "ownableInit" \notin kinds /\ ~named({"transferOwnership"})
<1> TAKE k \in 1..Len(source)
<1>0. PICK n, N, T, b : n = source[k].line /\ N = Len(file) /\ T = Members(Text(k)) /\ b = blocks[k]
  OBVIOUS
<1>1. PICK e \in n..N :
        /\ n \in 1..N /\ N \in Nat
        /\ b = FromTo(n, e) /\ FinishedRun(file, source[k], b) /\ b[Len(b)] = e
        /\ Len(blocks) = Len(source)
        /\ T \subseteq 1..N /\ n..e \subseteq T
        /\ \A m \in T : m \in n..e \/ (m > e /\ file[m].kind \in {"import", "comment"})
  BY <1>0, ContractText
<1>2. /\ file[n].kind \in ContractLines /\ Depth(file, n - 1) = 0
      /\ \A m \in (n + 1)..e : file[m].kind \notin ContractLines
      /\ source[k].vars = {file[m].kind : m \in n..e} \cap Variables
  BY <1>0, <1>1 DEF FinishedRun, ContractRun
<1>3. /\ KindsIn(b) = {file[m].kind : m \in n..e} /\ Len(b) = e - n + 1
      /\ \A m \in n..e : m - n + 1 \in 1..Len(b) /\ b[m - n + 1] = m
      /\ \A i \in 1..Len(b) : b[i] = n + i - 1 /\ n + i - 1 \in n..e
  <2>1. Len(file) \in Nat /\ n \in 1..Len(file) /\ e \in n..Len(file) /\ b = FromTo(n, e)
    BY <1>0, <1>1
  <2> QED BY <2>1, KindsAre
<1>4. KindsIn(Text(k)) = {file[m].kind : m \in T}
  BY <1>0 DEF KindsIn, Members
<1>5. \A x : x \notin {"import", "comment"} => (x \in KindsIn(Text(k)) <=> x \in KindsIn(b))
  BY <1>1, <1>3, <1>4
<1>6. \A names : (\E m \in T : file[m].kind \in FunctionLines /\ file[m].name \in names)
                   <=> \E i \in 1..Len(b) : file[b[i]].kind \in FunctionLines /\ file[b[i]].name \in names
  <2> TAKE names
  <2>1. ASSUME NEW m \in T, file[m].kind \in FunctionLines, file[m].name \in names
        PROVE  \E i \in 1..Len(b) : file[b[i]].kind \in FunctionLines /\ file[b[i]].name \in names
    <3>1. m \in n..e
      BY <1>1, <2>1 DEF FunctionLines
    <3>2. m - n + 1 \in 1..Len(b) /\ b[m - n + 1] = m
      BY <1>3, <3>1
    <3> QED BY <2>1, <3>2
  <2>2. ASSUME NEW i \in 1..Len(b), file[b[i]].kind \in FunctionLines, file[b[i]].name \in names
        PROVE  \E m \in T : file[m].kind \in FunctionLines /\ file[m].name \in names
    <3>1. b[i] \in T
      BY <1>1, <1>3
    <3> QED BY <2>2, <3>1
  <2> QED BY <2>1, <2>2
<1>7. {m \in T : file[m].kind \in {"upgradeable", "base"}} = {m \in n..e : file[m].kind \in {"upgradeable", "base"}}
  BY <1>1
<1>8. Finds("storage-gap-missing", n)
        <=> /\ UpgradeableBlock(BlockFrom(n)) /\ "gap" \notin KindsIn(BlockFrom(n))
            /\ StateVars(BlockFrom(n)) # {}
  <2>1. ASSUME NEW m \in 1..N, file[m].kind \in ContractLines PROVE BlockFrom(m)[1] = m
    <3>1. Depth(file, m - 1) = 0 /\ Depth(file, N) = 0
      <4>1. Level = 0
        BY LevelIs DEF Grammar
      <4> QED BY <1>0, <2>1, <4>1 DEF PlaceInv, DepthInv
    <3>2. m # N \/ Opens(file[m]) = 1
      <4>1. ~InHeader
        BY EmptySeq DEF InHeader
      <4>2. file[m].kind # "bareContract" => Opens(file[m]) = 1
        BY <2>1, BracesOf DEF ContractLines
      <4> QED BY <1>0, <2>1, <4>1, <4>2 DEF PlaceInv
    <3>3. N \in EndsFrom(m)
      <4>1. N \in m..N /\ (N > m \/ Opens(file[m]) = 1)
        BY <1>1, <3>2
      <4> QED BY <1>0, <3>1, <4>1 DEF EndsFrom
    <3>4. EndsFrom(m) \subseteq Nat
      BY <1>0, <1>1 DEF EndsFrom
    <3>5. PICK x \in EndsFrom(m) : \A y \in EndsFrom(m) : x <= y
      BY <3>3, <3>4, LeastElement
    <3> QED BY <1>0, <3>5, BlockFromIs DEF Grammar
  <2> QED BY <1>0, <1>1, <1>2, <2>1, FoundAre
<1>9. Finds("storage-gap-missing", n)
        <=> /\ {m \in T : file[m].kind \in {"upgradeable", "base"}} # {} \/ "ownableInit" \in KindsIn(Text(k))
                 \/ \E m \in T : file[m].kind \in FunctionLines /\ file[m].name \in {"initialize"}
            /\ source[k].vars # {} /\ "gap" \notin KindsIn(Text(k))
            /\ file[n].kind = "bareContract" => file[n + 1].kind = "brace"
  <2>1. CASE file[n].kind = "bareContract" /\ file[n + 1].kind # "brace"
    <3>1. n + 1 \in 1..N /\ BlockFrom(n) = FromTo(n, n + 1) /\ file[n + 1].kind \in HeadLines
      BY <1>0, <2>1, ContractBlocks
    <3>2. \A i \in 1..Len(FromTo(n, n + 1)) : FromTo(n, n + 1)[i] \in {n, n + 1}
      <4>1. n + 1 \in n..Len(file) /\ n \in 1..Len(file) /\ Len(file) \in Nat
        BY <1>0, <1>1, <3>1
      <4>2. \A i \in 1..Len(FromTo(n, n + 1)) : FromTo(n, n + 1)[i] \in n..(n + 1)
        <5>1. PICK x : x = n + 1
          OBVIOUS
        <5>2. \A i \in 1..Len(FromTo(n, x)) : FromTo(n, x)[i] = n + i - 1 /\ n + i - 1 \in n..x
          BY <4>1, <5>1, KindsAre
        <5> QED BY <5>1, <5>2
      <4> QED BY <4>1, <4>2
    <3>3. StateVars(BlockFrom(n)) = {}
      BY <2>1, <3>1, <3>2 DEF StateVars, HeadLines
    <3> QED BY <1>8, <2>1, <3>3
  <2>2. CASE ~(file[n].kind = "bareContract" /\ file[n + 1].kind # "brace")
    <3>1. BlockFrom(n) = b
      BY <1>0, <2>2, ContractBlocks
    <3>2. StateVars(b) # {} <=> source[k].vars # {}
      <4>1. ASSUME NEW i \in 1..Len(b), file[b[i]].kind \in Variables
            PROVE  i > 1 /\ Depth(LinesOf(b), i - 1) = 1
        <5>1. b[i] \in n..e /\ b[i] = n + i - 1 /\ i \in 1..(e - n + 1) /\ b[i] \in 1..N /\ b[i] # n
          <6>1. b[i] \in n..e /\ b[i] = n + i - 1 /\ i \in 1..(e - n + 1)
            BY <1>3, <4>1
          <6>2. b[i] \in 1..N
            BY <1>1, <6>1
          <6>3. b[i] # n
            BY <1>2, <4>1 DEF ContractLines, Variables
          <6> QED BY <6>1, <6>2, <6>3
        <5>2. Depth(file, b[i] - 1) = 1
          BY <1>0, <4>1, <5>1 DEF PlaceInv, Variables
        <5>3. n \in Nat /\ e \in Nat /\ n >= 1 /\ n <= e /\ i - 1 \in 0..(e - n + 1) /\ n + (i - 1) - 1 = b[i] - 1 /\ i > 1
          <6>1. PICK x : x = b[i]
            OBVIOUS
          <6>2. x = n + i - 1 /\ x # n /\ n \in 1..N /\ e \in n..N /\ N \in Nat /\ i \in 1..(e - n + 1)
            BY <1>1, <5>1, <6>1
          <6>3. n \in Nat /\ e \in Nat /\ n >= 1 /\ n <= e /\ i - 1 \in 0..(e - n + 1) /\ n + (i - 1) - 1 = x - 1 /\ i > 1
            BY <6>2
          <6> QED BY <6>1, <6>3
        <5>4. Depth(LinesOf(b), i - 1) = Depth(file, b[i] - 1) - Depth(file, n - 1)
          <6>1. Depth(LinesOf(FromTo(n, e)), i - 1) = Depth(file, n + (i - 1) - 1) - Depth(file, n - 1)
            BY <5>3, PartOf
          <6> QED BY <1>1, <5>3, <6>1
        <5> QED BY <1>2, <5>2, <5>3, <5>4
      <4>2. StateVars(b) = {i \in 1..Len(b) : file[b[i]].kind \in Variables}
        BY <4>1 DEF StateVars, Variables
      <4> QED BY <1>2, <1>3, <4>2
    <3>3. UpgradeableBlock(b) <=>
            \/ {m \in T : file[m].kind \in {"upgradeable", "base"}} # {} \/ "ownableInit" \in KindsIn(Text(k))
            \/ \E m \in T : file[m].kind \in FunctionLines /\ file[m].name \in {"initialize"}
      <4>1. UpgradeableBlock(b) <=>
              \/ KindsIn(b) \cap {"upgradeable", "base", "ownableInit"} # {}
              \/ \E i \in 1..Len(b) : file[b[i]].kind \in FunctionLines /\ file[b[i]].name \in {"initialize"}
        BY DEF UpgradeableBlock
      <4>2. KindsIn(b) \cap {"upgradeable", "base", "ownableInit"} # {} <=>
              {m \in n..e : file[m].kind \in {"upgradeable", "base"}} # {} \/ "ownableInit" \in KindsIn(b)
        <5>1. KindsIn(b) \cap {"upgradeable", "base", "ownableInit"} # {} <=>
                "upgradeable" \in KindsIn(b) \/ "base" \in KindsIn(b) \/ "ownableInit" \in KindsIn(b)
          OBVIOUS
        <5>2. {m \in n..e : file[m].kind \in {"upgradeable", "base"}} # {} <=>
                \E m \in n..e : file[m].kind = "upgradeable" \/ file[m].kind = "base"
          OBVIOUS
        <5>3. \A x : x \in KindsIn(b) <=> \E m \in n..e : file[m].kind = x
          BY <1>3
        <5> QED BY <5>1, <5>2, <5>3
      <4>3. "ownableInit" \in KindsIn(b) <=> "ownableInit" \in KindsIn(Text(k))
        BY <1>5
      <4> QED BY <1>6, <1>7, <4>1, <4>2, <4>3
    <3> QED BY <1>5, <1>8, <2>2, <3>1, <3>2, <3>3
  <2> QED BY <2>1, <2>2
<1>10. Finds("uninitialized-ownable", n) <=> InheritsOwnable(b) /\ ~OwnershipInitialized(b)
  <2>1. \A j \in 1..Len(blocks) : blocks[j][1] = n => j = k
    <3> SUFFICES ASSUME NEW j \in 1..Len(blocks), blocks[j][1] = n, j # k PROVE FALSE
      OBVIOUS
    <3>1. j \in 1..Len(source) /\ source[j].line = n /\ source[k].line = n
      BY <1>0, <1>1 DEF GatherInv
    <3>2. j < k \/ k < j
      BY <1>1
    <3>3. source[j].line < source[k].line \/ source[k].line < source[j].line
      BY <3>1, <3>2 DEF OrderInv
    <3> QED BY <1>1, <3>1, <3>3
  <2>2. k \in 1..Len(blocks) /\ b[1] = n
    BY <1>0, <1>1 DEF GatherInv
  <2> QED BY <1>0, <2>1, <2>2, FoundAre
<1>11. InheritsOwnable(b) <=>
         \E m \in {x \in T : file[x].kind \in {"upgradeable", "base"}} : m = n \/ file[m - 1].kind # "comment"
  <2>1. 1 \in 1..Len(b) /\ b[1] = n
    BY <1>1, <1>3
  <2>2. ASSUME NEW m \in n..e, file[m].kind \in {"upgradeable", "base"}, m = n \/ file[m - 1].kind # "comment"
        PROVE  InheritsOwnable(b)
    <3>1. CASE m = n
      BY <1>2, <2>1, <2>2, <3>1 DEF InheritsOwnable, ContractLines
    <3>2. CASE m # n
      <4>1. m \in (n + 1)..e /\ m - n + 1 \in 2..Len(b) /\ (m - n + 1) - 1 = (m - 1) - n + 1 /\ m - 1 \in n..e
        BY <1>1, <1>3, <3>2
      <4>2. file[m].kind = "base"
        BY <1>2, <2>2, <4>1 DEF ContractLines
      <4>3. b[m - n + 1] = m /\ b[(m - n + 1) - 1] = m - 1
        BY <1>3, <4>1
      <4> QED BY <2>2, <3>2, <4>1, <4>2, <4>3 DEF InheritsOwnable
    <3> QED BY <3>1, <3>2
  <2>3. ASSUME InheritsOwnable(b)
        PROVE  \E m \in n..e : file[m].kind \in {"upgradeable", "base"} /\ (m = n \/ file[m - 1].kind # "comment")
    <3>1. CASE file[b[1]].kind = "upgradeable"
      BY <1>1, <2>1, <3>1
    <3>2. CASE file[b[1]].kind # "upgradeable"
      <4>1. PICK i \in 2..Len(b) : file[b[i]].kind = "base" /\ file[b[i - 1]].kind # "comment"
        BY <2>3, <3>2 DEF InheritsOwnable
      <4>2. i \in 1..Len(b) /\ i - 1 \in 1..Len(b)
        BY <1>1, <1>3, <4>1
      <4>3. b[i] \in n..e /\ b[i] = n + i - 1 /\ b[i - 1] = n + (i - 1) - 1
        BY <1>3, <4>2
      <4>4. b[i - 1] = b[i] - 1
        BY <1>1, <4>1, <4>3
      <4> QED BY <4>1, <4>3, <4>4
    <3> QED BY <3>1, <3>2
  <2> QED BY <1>7, <2>2, <2>3
<1>12. OwnershipInitialized(b) <=>
         \/ "ownableInit" \in KindsIn(Text(k))
         \/ \E m \in T : file[m].kind \in FunctionLines /\ file[m].name \in {"transferOwnership"}
  <2>1. OwnershipInitialized(b) <=>
          \/ "ownableInit" \in KindsIn(b)
          \/ \E i \in 1..Len(b) : file[b[i]].kind \in FunctionLines /\ file[b[i]].name \in {"transferOwnership"}
    BY DEF OwnershipInitialized
  <2>2. "ownableInit" \in KindsIn(b) <=> "ownableInit" \in KindsIn(Text(k))
    BY <1>5
  <2> QED BY <1>6, <2>1, <2>2
<1> QED BY <1>0, <1>9, <1>10, <1>11, <1>12

-----------------------------------------------------------------------------
(* The functions of the language, from head to end *)

\* Item x is a function that is complete.
IsDoneIn(x, k) ==
  /\ k \in 1..Len(source)
  /\ \E j \in 1..Len(source[k].items) :
       /\ x = source[k].items[j] /\ x.kind = "function"
       /\ InUnit /\ k = Len(source) => j # Len(source[k].items)

IsDone(x) == \E k \in 1..Len(source) : IsDoneIn(x, k)

\* What a line completes: itself, or the function it closes.
LEMMA DoneInStep ==
  ASSUME Grammar, NEW l, Reads(l), NEW x, NEW k, IsDoneIn(x, k)'
  PROVE  \/ IsDoneIn(x, k)
         \/ /\ k = Len(source)
            /\ \/ IsOne(l) /\ x = Item("function", l)
               \/ InFunction /\ Ends(l) /\ x = Longer(OpenItem)
<1>0. PICK s, t, m : s = source /\ t = source' /\ m = Len(source)
  OBVIOUS
<1>1. /\ Typed /\ Shape /\ Moves(l) /\ l \in LineChoices(style)
      /\ Len(file) \in Nat
      /\ Outside(l) \/ Begins(l) \/ IsOne(l) \/ Continues(l) \/ Ends(l)
      /\ scopes # <<>> => source # <<>>
      /\ OpenInv /\ m \in Nat /\ l.kind \in Kinds
  BY <1>0, GrammarStep, FileIs, LenProperties DEF Grammar, Typed
<1>a. /\ k \in 1..Len(t)
      /\ \E i \in 1..Len(t[k].items) : /\ x = t[k].items[i] /\ x.kind = "function"
                                       /\ InUnit' /\ k = Len(t) => i # Len(t[k].items)
  BY <1>0 DEF IsDoneIn
<1>2. PICK j \in 1..Len(t[k].items) :
        /\ x = t[k].items[j] /\ x.kind = "function"
        /\ InUnit' /\ k = Len(t) => j # Len(t[k].items)
  BY <1>a
<1>3. InContract \/ InUnit => scopes # <<>> /\ source # <<>>
  BY <1>1, TopIs DEF InContract, InUnit, Second, NoName
<1>4. k \in 1..m => \A y \in 1..Len(s[k].items) :
        x = s[k].items[y] /\ ~(InUnit /\ k = m /\ y = Len(s[k].items)) => IsDoneIn(x, k)
  BY <1>0, <1>a, <1>2 DEF IsDoneIn
<1>5. CASE Outside(l)
  <2>1. ~InUnit /\ ~InUnit'
    BY <1>5 DEF Outside
  <2>2. CASE ContractLine(l)
    <3>1. Len(t) = m + 1 /\ (\A i \in 1..m : t[i] = s[i]) /\ Len(t[m + 1].items) = 0
      <4> DEFINE c == [line |-> Here, items |-> <<>>, vars |-> {}]
      <4>1. Len(source') = Len(source) + 1 /\ (\A i \in 1..Len(source) : source'[i] = source[i]) /\ source'[Len(source) + 1] = c
        BY <1>1, <2>2, NewContractIs DEF ContractLine
      <4>2. Len(c.items) = 0
        BY EmptySeq
      <4> HIDE DEF c
      <4> QED BY <1>0, <4>1, <4>2
    <3>2. k \in 1..m \/ k = m + 1
      BY <1>1, <1>a, <3>1
    <3>3. k \in 1..m
      BY <1>a, <1>2, <3>1, <3>2
    <3> QED BY <1>a, <1>2, <1>4, <2>1, <3>1, <3>3
  <2>3. CASE VariableLine(l)
    <3>1. source # <<>> /\ source' = WithVariable(l)
      BY <1>3, <2>3 DEF VariableLine
    <3>2. Len(t) = m /\ \A i \in 1..m : t[i].items = s[i].items
      BY <1>0, <1>1, <3>1, WithVariableIs
    <3> QED BY <1>a, <1>2, <1>4, <2>1, <3>2
  <2>4. CASE source' = source
    BY <1>0, <1>a, <1>2, <1>4, <2>1, <2>4
  <2> QED BY <1>5, <2>2, <2>3, <2>4 DEF Outside
<1>6. CASE Begins(l) \/ IsOne(l)
  <2>1. source # <<>> /\ source' = Begun(l) /\ ~InUnit
    BY <1>3, <1>6 DEF Begins, IsOne
  <2> DEFINE its == LastContract.items
             z   == Item(UnitKind(l), l)
  <2>2. /\ Len(t) = m /\ m \in 1..m /\ \A i \in 1..m : i # m => t[i] = s[i]
    BY <1>0, <1>1, <2>1, BegunIs, LastIs
  <2>3. /\ t[m].items = Append(its, z) /\ its = s[m].items /\ its \in Seq(Items) /\ z \in Items
    <3>1. source'[Len(source)].items = Append(its, z) /\ its \in Seq(Items) /\ z \in Items
      BY <1>1, <2>1, BegunIs, LastIs, ItemType
    <3> HIDE DEF z
    <3> QED BY <1>0, <3>1 DEF LastContract
  <2> HIDE DEF its, z
  <2>4. Len(t[m].items) = Len(its) + 1 /\ Len(its) \in Nat /\ t[m].items[Len(its) + 1] = z /\ \A i \in 1..Len(its) : t[m].items[i] = its[i]
    BY <2>3, AppendProperties, LenProperties
  <2>5. CASE k # m
    BY <1>a, <1>2, <1>4, <2>1, <2>2, <2>5
  <2>6. CASE k = m /\ j # Len(its) + 1
    <3>1. j \in 1..Len(its)
      BY <1>a, <1>2, <2>4, <2>6
    <3>2. x = s[m].items[j] /\ j \in 1..Len(s[m].items)
      BY <1>a, <1>2, <2>3, <2>4, <2>6, <3>1
    <3> QED BY <1>4, <2>1, <2>2, <2>6, <3>2
  <2>7. CASE k = m /\ j = Len(its) + 1
    <3>1. ~InUnit'
      BY <1>0, <1>a, <1>2, <2>2, <2>4, <2>7
    <3>2. IsOne(l)
      BY <1>6, <3>1 DEF Begins, InUnit
    <3>3. UnitKind(l) = "function"
      BY <3>2 DEF IsOne, UnitKind, FunctionLines
    <3> QED BY <1>0, <1>a, <1>2, <2>4, <2>7, <3>2, <3>3 DEF z
  <2> QED BY <2>5, <2>6, <2>7
<1>7. CASE Continues(l) \/ Ends(l)
  <2>1. InUnit /\ source # <<>> /\ LastContract.items # <<>>
    BY <1>1, <1>3, <1>7 DEF Continues, Ends, OpenInv
  <2>2. CASE Continues(l) /\ source' = source
    <3>1. InUnit'
      BY <2>2 DEF Continues, InUnit
    <3> QED BY <1>0, <1>a, <1>2, <1>4, <2>2, <3>1
  <2>3. CASE source' = Grown
    <3>1. /\ Len(t) = m /\ m \in 1..m /\ \A i \in 1..m : i # m => t[i] = s[i]
      BY <1>0, <1>1, <2>1, <2>3, GrownIs, LastIs
    <3>2. /\ Len(t[m].items) = Len(s[m].items) /\ OpenItem = s[m].items[Len(s[m].items)] /\ OpenItem \in Items
          /\ \A i \in 1..Len(s[m].items) : t[m].items[i] = IF i = Len(s[m].items) THEN Longer(OpenItem) ELSE s[m].items[i]
      <4>1. /\ Len(source'[Len(source)].items) = Len(LastContract.items)
            /\ \A i \in 1..Len(LastContract.items) :
                 source'[Len(source)].items[i] = IF i = Len(LastContract.items) THEN Longer(LastItem(LastContract)) ELSE LastContract.items[i]
        <5>1. Len(source) \in 1..Len(source)
          BY <1>1, <2>1, LastIs
        <5> QED BY <1>1, <2>1, <2>3, <5>1, GrownIs DEF LastContract
      <4>2. OpenItem = LastItem(LastContract) /\ OpenItem \in Items /\ LastContract = s[m]
        BY <1>0, <1>1, <2>1, LastIs DEF OpenItem, LastContract
      <4> QED BY <1>0, <4>1, <4>2 DEF LastItem
    <3>3. CASE k # m
      BY <1>a, <1>2, <1>4, <3>1, <3>3
    <3>4. CASE k = m /\ j # Len(s[m].items)
      BY <1>a, <1>2, <1>4, <3>1, <3>2, <3>4
    <3>5. CASE k = m /\ j = Len(s[m].items)
      <4>1. x = Longer(OpenItem)
        BY <1>a, <1>2, <3>2, <3>5
      <4>2. ~InUnit'
        BY <1>a, <1>2, <3>1, <3>2, <3>5
      <4>3. Ends(l)
        BY <1>7, <2>1, <4>2 DEF Continues, InUnit
      <4>4. OpenItem.kind = "function"
        BY <1>1, <1>a, <1>2, <3>2, <4>1, LongerIs
      <4>5. InFunction
        BY <1>1, <2>1, <4>4 DEF OpenInv
      <4> QED BY <1>0, <3>5, <4>1, <4>3, <4>5
    <3> QED BY <3>3, <3>4, <3>5
  <2> QED BY <1>7, <2>2, <2>3 DEF Continues, Ends
<1> QED BY <1>1, <1>5, <1>6, <1>7

\* A function that is done was done before, or this line is or ends it.
LEMMA DoneItemStep ==
  ASSUME Grammar, NEW l, Reads(l), NEW x, IsDone(x)'
  PROVE  \/ IsDone(x)
         \/ IsOne(l) /\ x = Item("function", l)
         \/ InFunction /\ Ends(l) /\ x = Longer(OpenItem)
<1>1. PICK k : IsDoneIn(x, k)'
  BY DEF IsDone, IsDoneIn
<1>2. IsDoneIn(x, k) => IsDone(x)
  BY DEF IsDone, IsDoneIn
<1> QED BY <1>1, <1>2, DoneInStep

\* What a line does to the open function
LEMMA OpenMoves ==
  ASSUME Grammar, NEW l, Reads(l)
  PROVE  /\ InFunction' /\ ~InFunction =>
              /\ Begins(l) /\ l.kind \in {"function", "signature"} /\ Second' = l.kind
              /\ OpenItem' = Item("function", l) /\ Level = 1 /\ Level' = 1 + Opens(l)
         /\ InFunction' /\ InFunction =>
              /\ OpenItem \in Items
              /\ OpenItem' = IF l.kind = "comment" THEN OpenItem ELSE Longer(OpenItem)
              /\ l.kind \notin Bodies \cup ContractLines
              /\ l.kind = "attributes" => Second = "signature"
              /\ Second' = "signature" => Second = "signature" /\ l.kind \in {"attributes", "comment"}
              /\ Second = "signature" /\ Second' = "function" => l.kind = "brace"
              /\ Second' = "function" => Level' >= 2
         /\ InFunction /\ ~InFunction' =>
              Ends(l) /\ Second = "function" /\ l.kind = "close" /\ Level' = 1 /\ OpenItem \in Items
         /\ IsOne(l) => ~InFunction /\ ~InFunction' /\ Level = 1 /\ Level' = 1 /\ Opens(l) = 1
         /\ ~InFunction /\ ~InFunction' /\ l.kind # "declaration" => l.kind \notin {"function", "signature"}
         /\ l.kind = "oneLiner" => IsOne(l)
         /\ l.kind = "declaration" => ~InFunction /\ ~InFunction' /\ Level = 1 /\ Level' = 1 /\ Opens(l) = 0
<1>1. /\ Typed /\ Shape /\ Typed' /\ Shape' /\ Moves(l) /\ l \in LineChoices(style) /\ OpenInv
      /\ Level' = Level + Delta(l) /\ Level \in Nat
      /\ Outside(l) \/ Begins(l) \/ IsOne(l) \/ Continues(l) \/ Ends(l)
      /\ scopes # <<>> => source # <<>>
  BY GrammarStep, FileIs, LevelIs DEF Grammar
<1>2. /\ InFunction => InUnit
      /\ InFunction' => InUnit'
      /\ InFunction' <=> Second' \in {"function", "signature"}
      /\ InUnit' <=> Second' \in {"function", "signature", "modifier"}
  BY DEF InFunction, InUnit
<1>3. /\ InContract \/ InUnit => scopes # <<>> /\ source # <<>>
      /\ InContract => Level = 1 /\ Second = NoName
  <2>1. InContract => scopes # <<>> /\ Second = NoName
    BY <1>1, TopIs DEF InContract, Second, NoName
  <2>2. InContract => ~InHeader
    BY DEF InContract, InHeader
  <2>3. InContract => Level = 1
    BY <1>1, <2>1, <2>2, LevelIs DEF InContract, Level, NoName
  <2>4. InUnit => scopes # <<>>
    BY <1>1, TopIs DEF InUnit, Second, NoName
  <2> QED BY <1>1, <2>1, <2>3, <2>4
<1>4. /\ Second' \in {"function", "modifier"} => Level' >= 2
      /\ l.kind = "attributes" => Second = "signature"
      /\ l.kind \in FunctionLines => InContract
  <2>1. l.kind = "attributes" => Second = "signature"
    BY <1>1, FitsIs DEF Reads, Bodies, FunctionLines, ContractLines, Statements
  <2>2. l.kind \in FunctionLines => InContract
    BY <1>1, FitsIs DEF Reads, FunctionLines, ContractLines, Statements
  <2> QED BY <1>1, <2>1, <2>2, LevelUpAfter
<1>5. ASSUME InFunction', ~InFunction
      PROVE  /\ Begins(l) /\ l.kind \in {"function", "signature"} /\ Second' = l.kind
             /\ OpenItem' = Item("function", l) /\ Level = 1 /\ Level' = 1 + Opens(l)
  <2>1. Begins(l)
    BY <1>1, <1>2, <1>5 DEF Outside, IsOne, Continues, Ends, InFunction, InUnit
  <2>2. l.kind \in {"function", "signature"} /\ Second' = l.kind
    BY <1>2, <1>5, <2>1 DEF Begins
  <2>3. source # <<>> /\ source' = Begun(l) /\ Level = 1
    BY <1>3, <2>1 DEF Begins
  <2>4. UnitKind(l) = "function"
    BY <2>2 DEF UnitKind, FunctionLines
  <2>5. OpenItem' = Item("function", l)
    <3>1. OpenItem' = Item(UnitKind(l), l)
      BY <1>1, <2>3, OpenBegun
    <3> QED BY <2>4, <3>1
  <2>6. Closes(l) = 0 /\ Opens(l) \in {0, 1} /\ Delta(l) = Opens(l) - Closes(l)
    BY <2>2, BracesOf
  <2> QED BY <1>1, <2>1, <2>2, <2>3, <2>5, <2>6
<1>6. ASSUME InFunction', InFunction
      PROVE  /\ OpenItem \in Items
             /\ OpenItem' = IF l.kind = "comment" THEN OpenItem ELSE Longer(OpenItem)
             /\ l.kind \notin Bodies \cup ContractLines
             /\ l.kind = "attributes" => Second = "signature"
             /\ Second' = "signature" => Second = "signature" /\ l.kind \in {"attributes", "comment"}
             /\ Second = "signature" /\ Second' = "function" => l.kind = "brace"
             /\ Second' = "function" => Level' >= 2
  <2>1. Continues(l)
    BY <1>1, <1>2, <1>6 DEF Outside, Begins, IsOne, Ends
  <2>2. source # <<>> /\ LastContract.items # <<>>
    BY <1>1, <1>2, <1>3, <1>6 DEF OpenInv
  <2>3. OpenItem \in Items
    BY <1>1, <2>2, LastIs DEF OpenItem
  <2>4. OpenItem' = IF l.kind = "comment" THEN OpenItem ELSE Longer(OpenItem)
    <3>1. CASE l.kind = "comment"
      BY <2>1, <3>1 DEF Continues, OpenItem, LastItem, LastContract
    <3>2. CASE l.kind # "comment"
      BY <1>1, <2>1, <2>2, <3>2, OpenGrown DEF Continues
    <3> QED BY <3>1, <3>2
  <2>5. /\ Second' = "signature" => Second = "signature" /\ l.kind \in {"attributes", "comment"}
        /\ Second = "signature" /\ Second' = "function" => l.kind = "brace"
        /\ l.kind \notin Bodies \cup ContractLines
    BY <2>1 DEF Continues
  <2> QED BY <1>4, <2>3, <2>4, <2>5
<1>7. ASSUME InFunction, ~InFunction'
      PROVE  Ends(l) /\ Second = "function" /\ l.kind = "close" /\ Level' = 1 /\ OpenItem \in Items
  <2>1. Ends(l)
    BY <1>1, <1>2, <1>7 DEF Outside, Begins, IsOne, Continues, InFunction
  <2>2. Second = "function" /\ l.kind = "close" /\ Level = 2
    BY <1>7, <2>1 DEF Ends, InFunction
  <2>3. Delta(l) = Opens(l) - Closes(l) /\ Opens(l) = 0 /\ Closes(l) = 1
    BY <2>2, BracesOf
  <2>4. OpenItem \in Items
    BY <1>1, <1>2, <1>3, <1>7, LastIs DEF OpenItem, OpenInv
  <2> QED BY <1>1, <2>1, <2>2, <2>3, <2>4
<1>8. IsOne(l) => ~InFunction /\ ~InFunction' /\ Level = 1 /\ Level' = 1 /\ Opens(l) = 1
  <2> HAVE IsOne(l)
  <2>1. ~InFunction /\ ~InFunction' /\ Level = 1 /\ l.kind = "oneLiner"
    BY <1>2, <1>3 DEF IsOne
  <2>2. Delta(l) = Opens(l) - Closes(l) /\ Opens(l) = 1 /\ Closes(l) = 1
    BY <2>1, BracesOf
  <2> QED BY <1>1, <2>1, <2>2
<1>9. l.kind = "oneLiner" => IsOne(l)
  BY <1>1, <1>3, <1>4 DEF FunctionLines, Outside, Begins, Continues, Ends, Bodies
<1>10. ~InFunction /\ ~InFunction' /\ l.kind # "declaration" => l.kind \notin {"function", "signature"}
  <2> SUFFICES ASSUME ~InFunction', l.kind \in {"function", "signature"} PROVE FALSE
    OBVIOUS
  <2>1. Begins(l)
    BY <1>1 DEF Outside, IsOne, Continues, Ends, Bodies, FunctionLines
  <2>2. Second' = l.kind
    BY <2>1 DEF Begins
  <2> QED BY <1>2, <2>2
<1>11. l.kind = "declaration" => ~InFunction /\ ~InFunction' /\ Level = 1 /\ Level' = 1 /\ Opens(l) = 0
  <2> HAVE l.kind = "declaration"
  <2>1. InContract
    BY <1>4 DEF FunctionLines
  <2>2. Outside(l)
    BY <1>1, <1>3, <2>1 DEF Begins, IsOne, Continues, Ends, Bodies, FunctionLines
  <2>3. ~InFunction /\ ~InFunction'
    BY <1>2, <2>2 DEF Outside
  <2>4. Delta(l) = Opens(l) - Closes(l) /\ Opens(l) = 0 /\ Closes(l) = 0
    BY BracesOf
  <2> QED BY <1>1, <1>3, <2>1, <2>3, <2>4
<1> QED BY <1>5, <1>6, <1>7, <1>8, <1>9, <1>10, <1>11

\* Lines u.lines[1] to e of file f are function u, but for the comments.
ItemRun(f, u, e) ==
  /\ u.lines[1] \in 1..e /\ u.name = f[u.lines[1]].name
  /\ f[u.lines[1]].kind \in {"function", "oneLiner", "signature"}
  /\ Members(u.lines) = {m \in u.lines[1]..e : f[m].kind # "comment"}
  /\ \A m \in (u.lines[1] + 1)..e :
       /\ f[m].kind \notin Bodies \cup ContractLines
       /\ f[m].kind = "attributes" => f[u.lines[1]].kind = "signature"

\* The body of the function that begins on line a opens on line b.
BodyOpens(f, a, b) ==
  /\ Opens(f[b]) = 1 /\ \A m \in a..(b - 1) : Opens(f[m]) = 0
  /\ \A m \in (a + 1)..b : f[m].kind \in {"attributes", "comment", "brace"}

\* Function u is complete, and ends on line e.
WholeRun(f, u, e) ==
  /\ e \in 1..Len(f) /\ ItemRun(f, u, e) /\ Depth(f, e) = 1
  /\ \E b \in u.lines[1]..e :
       /\ BodyOpens(f, u.lines[1], b) /\ (\A m \in b..(e - 1) : Depth(f, m) >= 2)
       /\ e = b \/ f[e].kind = "close"

ItemInv ==
  /\ \A x : IsDone(x) => WholeRun(file, x, x.lines[Len(x.lines)])
  /\ InFunction =>
       /\ ItemRun(file, OpenItem, Len(file))
       /\ Second = "signature" =>
            /\ file[OpenItem.lines[1]].kind = "signature"
            /\ \A m \in (OpenItem.lines[1] + 1)..Len(file) : file[m].kind \in {"attributes", "comment"}
       /\ Second = "function" =>
            \E b \in OpenItem.lines[1]..Len(file) :
              BodyOpens(file, OpenItem.lines[1], b) /\ \A m \in b..Len(file) : Depth(file, m) >= 2

\* What was read of a function stays.
LEMMA ItemStays ==
  ASSUME NEW f, NEW h, OneMore(h, f), NEW u, NEW e \in 1..Len(f)
  PROVE  /\ ItemRun(f, u, e) => ItemRun(h, u, e)
         /\ \A a \in 1..e, b \in 1..e : BodyOpens(f, a, b) => BodyOpens(h, a, b)
         /\ WholeRun(f, u, e) => WholeRun(h, u, e)
<1>1. Len(f) \in Nat /\ Len(h) = Len(f) + 1 /\ \A m \in 1..Len(f) : h[m] = f[m]
  BY DEF OneMore
<1>2. \A m \in 1..e : h[m] = f[m]
  BY <1>1
<1>3. \A m \in 0..Len(f) : Depth(h, m) = Depth(f, m)
  BY DepthSame DEF OneMore
<1>4. ASSUME ItemRun(f, u, e) PROVE ItemRun(h, u, e)
  <2>1. u.lines[1] \in 1..e /\ \A m \in u.lines[1]..e : m \in 1..e
    BY <1>4 DEF ItemRun
  <2>2. {m \in u.lines[1]..e : f[m].kind # "comment"} = {m \in u.lines[1]..e : h[m].kind # "comment"}
    BY <1>2, <2>1
  <2>3. \A m \in (u.lines[1] + 1)..e : h[m] = f[m]
    BY <1>2, <2>1
  <2> QED BY <1>2, <1>4, <2>1, <2>2, <2>3 DEF ItemRun
<1>5. ASSUME NEW a \in 1..e, NEW b \in 1..e, BodyOpens(f, a, b) PROVE BodyOpens(h, a, b)
  BY <1>2, <1>5 DEF BodyOpens
<1>6. ASSUME WholeRun(f, u, e) PROVE WholeRun(h, u, e)
  <2>1. /\ ItemRun(f, u, e) /\ Depth(f, e) = 1
    BY <1>6 DEF WholeRun
  <2>2. PICK b \in u.lines[1]..e :
          /\ BodyOpens(f, u.lines[1], b) /\ (\A m \in b..(e - 1) : Depth(f, m) >= 2)
          /\ e = b \/ f[e].kind = "close"
    BY <1>6 DEF WholeRun
  <2>3. u.lines[1] \in 1..e /\ b \in 1..e /\ e \in 0..Len(f) /\ e \in 1..Len(h)
    BY <1>1, <2>1, <2>2 DEF ItemRun
  <2>4. ItemRun(h, u, e) /\ BodyOpens(h, u.lines[1], b) /\ Depth(h, e) = 1
    BY <1>3, <1>4, <1>5, <2>1, <2>2, <2>3
  <2>5. \A m \in b..(e - 1) : Depth(h, m) >= 2
    <3> TAKE m \in b..(e - 1)
    <3>1. m \in 0..Len(f)
      BY <1>1, <2>3
    <3> QED BY <1>3, <2>2, <3>1
  <2> QED BY <1>2, <2>2, <2>3, <2>4, <2>5 DEF WholeRun
<1> QED BY <1>4, <1>5, <1>6

\* A function with a line more
LEMMA ItemGrows ==
  ASSUME NEW f, NEW h, OneMore(h, f), NEW u, ItemRun(f, u, Len(f)),
         h[Len(f) + 1].kind \notin Bodies \cup ContractLines,
         h[Len(f) + 1].kind = "attributes" => f[u.lines[1]].kind = "signature",
         NEW v, v.lines[1] = u.lines[1], v.name = u.name,
         Members(v.lines) = Members(u.lines) \cup (IF h[Len(f) + 1].kind = "comment" THEN {} ELSE {Len(f) + 1})
  PROVE  ItemRun(h, v, Len(f) + 1)
<1>0. PICK n, a : n = Len(f) /\ a = u.lines[1]
  OBVIOUS
<1>1. n \in Nat /\ a \in 1..n /\ n \in 1..n /\ \A m \in 1..n : h[m] = f[m]
  BY <1>0 DEF OneMore, ItemRun
<1>2. ItemRun(h, u, n)
  BY <1>0, <1>1, ItemStays
<1>3. \A m : m \in a..(n + 1) <=> m \in a..n \/ m = n + 1
  BY <1>1
<1>4. {m \in a..(n + 1) : h[m].kind # "comment"}
        = {m \in a..n : h[m].kind # "comment"} \cup (IF h[n + 1].kind = "comment" THEN {} ELSE {n + 1})
  BY <1>3
<1>5. Members(v.lines) = {m \in a..(n + 1) : h[m].kind # "comment"}
  BY <1>0, <1>2, <1>4 DEF ItemRun
<1>6. \A m : m \in (a + 1)..(n + 1) <=> m \in (a + 1)..n \/ m = n + 1
  BY <1>1
<1>7. \A m \in (a + 1)..(n + 1) : /\ h[m].kind \notin Bodies \cup ContractLines
                                  /\ h[m].kind = "attributes" => h[a].kind = "signature"
  BY <1>0, <1>1, <1>2, <1>6 DEF ItemRun
<1>8. a \in 1..(n + 1)
  BY <1>1
<1> QED BY <1>0, <1>2, <1>5, <1>7, <1>8 DEF ItemRun

\* The lines of a function with one more
LEMMA LongerLines ==
  ASSUME Typed, NEW u \in Items
  PROVE  Members(Longer(u).lines) = Members(u.lines) \cup {Here}
<1>1. /\ Longer(u).lines = Append(u.lines, Here) /\ u.lines \in Seq(Nat)
      /\ Here \in Nat
  <2>1. u.lines \in Seq(Nat)
    BY DEF Items
  <2>2. Here \in Nat
    BY LenProperties DEF Typed, Here
  <2> QED BY <2>1, <2>2, LongerIs
<1>2. PICK s, t, n : s = u.lines /\ t = Longer(u).lines /\ n = Len(u.lines)
  OBVIOUS
<1>3. n \in Nat /\ Len(t) = n + 1 /\ (\A i \in 1..n : t[i] = s[i]) /\ t[n + 1] = Here
  BY <1>1, <1>2, AppendProperties, LenProperties
<1>4. \A i : i \in 1..(n + 1) <=> i \in 1..n \/ i = n + 1
  BY <1>3
<1>5. Members(t) = {t[i] : i \in 1..(n + 1)} /\ Members(s) = {s[i] : i \in 1..n}
  BY <1>2, <1>3 DEF Members
<1>6. Members(t) = Members(s) \cup {Here}
  BY <1>3, <1>4, <1>5
<1> QED BY <1>2, <1>6

\* A line keeps what is known of the functions.
LEMMA ItemStep ==
  ASSUME Grammar, DepthInv, ItemInv, NEW l, Reads(l)
  PROVE  ItemInv'
<1>0. PICK n, h, u, v : n = Len(file) /\ h = file' /\ u = OpenItem /\ v = OpenItem'
  OBVIOUS
<1>1. /\ n \in Nat /\ Here = n + 1 /\ Len(h) = n + 1 /\ (\A i \in 1..n : h[i] = file[i]) /\ h[n + 1] = l
      /\ OneMore(h, file) /\ Typed /\ n + 1 \in 1..Len(h)
  BY <1>0, FileIs DEF Grammar, OneMore
<1>2. /\ \A i \in 0..n : Depth(h, i) = Depth(file, i)
      /\ Depth(h, n + 1) = Level'
  BY <1>0, <1>1, DepthStep
<1>3. /\ InFunction' /\ ~InFunction =>
           /\ Begins(l) /\ l.kind \in {"function", "signature"} /\ Second' = l.kind
           /\ v = Item("function", l) /\ Level = 1 /\ Level' = 1 + Opens(l)
      /\ InFunction' /\ InFunction =>
           /\ u \in Items
           /\ v = IF l.kind = "comment" THEN u ELSE Longer(u)
           /\ l.kind \notin Bodies \cup ContractLines
           /\ l.kind = "attributes" => Second = "signature"
           /\ Second' = "signature" => Second = "signature" /\ l.kind \in {"attributes", "comment"}
           /\ Second = "signature" /\ Second' = "function" => l.kind = "brace"
           /\ Second' = "function" => Level' >= 2
      /\ InFunction /\ ~InFunction' =>
           Ends(l) /\ Second = "function" /\ l.kind = "close" /\ Level' = 1 /\ u \in Items
      /\ IsOne(l) => ~InFunction /\ ~InFunction' /\ Level = 1 /\ Level' = 1 /\ Opens(l) = 1
  BY <1>0, OpenMoves
<1>4. /\ InFunction => Second \in {"function", "signature"} /\ InUnit
      /\ InFunction' => Second' \in {"function", "signature"}
      /\ Ends(l) => ~InFunction'
  BY DEF InFunction, InUnit, Ends
<1>5. InFunction =>
        /\ ItemRun(file, u, n) /\ u.lines[1] \in 1..n
        /\ Second = "signature" =>
             /\ file[u.lines[1]].kind = "signature"
             /\ \A m \in (u.lines[1] + 1)..n : file[m].kind \in {"attributes", "comment"}
             /\ \A i \in u.lines[1]..n : Opens(file[i]) = 0
        /\ Second = "function" =>
             \E b \in u.lines[1]..n : BodyOpens(file, u.lines[1], b) /\ \A m \in b..n : Depth(file, m) >= 2
  BY <1>0, <1>4 DEF ItemInv, Grammar, OpenInv
<1>6. Members(<<n + 1>>) = {n + 1} /\ <<n + 1>>[1] = n + 1 /\ Len(<<n + 1>>) = 1
  BY <1>1 DEF Members
<1>7. Item("function", l).lines = <<n + 1>> /\ Item("function", l).name = l.name
  BY <1>1 DEF Item
\* A function that begins
<1>8. ASSUME l.kind \in {"function", "oneLiner", "signature"}
      PROVE  ItemRun(h, Item("function", l), n + 1)
  <2>1. PICK x : x = Item("function", l)
    OBVIOUS
  <2>2. x.lines[1] = n + 1 /\ x.name = l.name /\ Members(x.lines) = {n + 1}
    BY <1>6, <1>7, <2>1
  <2>3. {m \in (n + 1)..(n + 1) : h[m].kind # "comment"} = {n + 1}
    BY <1>1, <1>8
  <2>4. (n + 1) + 1..(n + 1) = {} /\ n + 1 \in 1..(n + 1)
    BY <1>1
  <2> QED BY <1>1, <1>8, <2>1, <2>2, <2>3, <2>4 DEF ItemRun
\* A function that goes on
<1>9. ASSUME InFunction, u \in Items, l.kind \notin Bodies \cup ContractLines, l.kind = "attributes" => Second = "signature",
             NEW x, x = IF l.kind = "comment" THEN u ELSE Longer(u)
      PROVE  ItemRun(h, x, n + 1) /\ x.lines[1] = u.lines[1]
  <2>1. x.lines[1] = u.lines[1] /\ x.name = u.name
    BY <1>1, <1>9, LongerIs
  <2>2. Members(x.lines) = Members(u.lines) \cup (IF l.kind = "comment" THEN {} ELSE {n + 1})
    BY <1>1, <1>9, LongerLines
  <2>3. ItemRun(file, u, Len(file)) /\ h[Len(file) + 1] = l /\ (l.kind = "attributes" => file[u.lines[1]].kind = "signature")
    BY <1>0, <1>1, <1>5, <1>9
  <2>4. ItemRun(h, x, Len(file) + 1)
    <3>1. Members(x.lines) = Members(u.lines) \cup (IF h[Len(file) + 1].kind = "comment" THEN {} ELSE {Len(file) + 1})
      BY <1>0, <2>2, <2>3
    <3> QED BY <1>1, <1>9, <2>1, <2>3, <3>1, ItemGrows
  <2> QED BY <1>0, <2>1, <2>4
<1>10. ASSUME NEW x, IsDone(x)' PROVE WholeRun(h, x, x.lines[Len(x.lines)])
  <2>1. CASE IsDone(x)
    <3>1. PICK e : e = x.lines[Len(x.lines)]
      OBVIOUS
    <3>2. WholeRun(file, x, e) /\ e \in 1..Len(file)
      BY <2>1, <3>1 DEF ItemInv, WholeRun
    <3>3. WholeRun(h, x, e)
      BY <1>1, <3>2, ItemStays
    <3> QED BY <3>1, <3>3
  <2>2. CASE IsOne(l) /\ x = Item("function", l)
    <3>1. l.kind = "oneLiner" /\ Level' = 1 /\ Opens(l) = 1
      BY <1>3, <2>2 DEF IsOne
    <3>2. x.lines[1] = n + 1 /\ x.lines[Len(x.lines)] = n + 1
      BY <1>6, <1>7, <2>2
    <3>3. ItemRun(h, x, n + 1) /\ Depth(h, n + 1) = 1
      BY <1>2, <1>8, <2>2, <3>1
    <3>4. BodyOpens(h, n + 1, n + 1) /\ (\A m \in (n + 1)..((n + 1) - 1) : Depth(h, m) >= 2) /\ n + 1 \in (n + 1)..(n + 1)
      BY <1>1, <3>1 DEF BodyOpens
    <3> QED BY <1>1, <3>2, <3>3, <3>4 DEF WholeRun
  <2>3. CASE InFunction /\ Ends(l) /\ x = Longer(OpenItem)
    <3>1. ~InFunction' /\ Second = "function" /\ l.kind = "close" /\ Level' = 1 /\ u \in Items /\ x = Longer(u)
      BY <1>0, <1>3, <1>4, <2>3
    <3>2. ItemRun(h, x, n + 1) /\ x.lines[1] = u.lines[1]
      <4>1. l.kind \notin Bodies \cup ContractLines /\ l.kind # "attributes" /\ l.kind # "comment"
        BY <3>1 DEF Bodies, ContractLines, FunctionLines
      <4> QED BY <1>9, <2>3, <3>1, <4>1
    <3>3. PICK b \in u.lines[1]..n : BodyOpens(file, u.lines[1], b) /\ \A m \in b..n : Depth(file, m) >= 2
      BY <1>5, <2>3, <3>1
    <3>4. x.lines[Len(x.lines)] = n + 1
      BY <1>1, <3>1, LongerIs
    <3>5. u.lines[1] \in 1..n /\ b \in 1..n /\ n \in 1..Len(file)
      BY <1>0, <1>1, <1>5, <2>3, <3>3
    <3>6. BodyOpens(h, u.lines[1], b)
      <4>1. \A i \in 1..n, j \in 1..n : BodyOpens(file, i, j) => BodyOpens(h, i, j)
        BY <1>0, <1>1, <3>5, ItemStays
      <4> QED BY <3>3, <3>5, <4>1
    <3>7. \A m \in b..((n + 1) - 1) : Depth(h, m) >= 2
      <4> TAKE m \in b..((n + 1) - 1)
      <4>1. m \in b..n /\ m \in 0..n
        BY <1>1, <3>5
      <4> QED BY <1>2, <3>3, <4>1
    <3>8. b \in u.lines[1]..(n + 1)
      BY <1>1, <3>3, <3>5
    <3>9. h[n + 1].kind = "close" /\ Depth(h, n + 1) = 1
      BY <1>1, <1>2, <3>1
    <3> QED BY <1>1, <3>2, <3>4, <3>6, <3>7, <3>8, <3>9 DEF WholeRun
  <2> QED BY <1>10, <2>1, <2>2, <2>3, DoneItemStep
<1>11. ASSUME InFunction'
       PROVE  /\ ItemRun(h, v, n + 1)
              /\ Second' = "signature" =>
                   /\ h[v.lines[1]].kind = "signature"
                   /\ \A m \in (v.lines[1] + 1)..(n + 1) : h[m].kind \in {"attributes", "comment"}
              /\ Second' = "function" =>
                   \E b \in v.lines[1]..(n + 1) :
                     BodyOpens(h, v.lines[1], b) /\ \A m \in b..(n + 1) : Depth(h, m) >= 2
  <2>1. CASE ~InFunction
    <3>1. l.kind \in {"function", "signature"} /\ Second' = l.kind /\ v = Item("function", l) /\ Level' = 1 + Opens(l)
      BY <1>3, <1>11, <2>1
    <3>2. ItemRun(h, v, n + 1) /\ v.lines[1] = n + 1
      BY <1>6, <1>7, <1>8, <3>1
    <3>3. Second' = "signature" => h[n + 1].kind = "signature" /\ \A m \in ((n + 1) + 1)..(n + 1) : h[m].kind \in {"attributes", "comment"}
      BY <1>1, <3>1
    <3>4. Second' = "function" => BodyOpens(h, n + 1, n + 1) /\ \A m \in (n + 1)..(n + 1) : Depth(h, m) >= 2
      <4> HAVE Second' = "function"
      <4>1. Opens(l) = 1 /\ Depth(h, n + 1) = 2
        BY <1>2, <3>1, BracesOf
      <4> QED BY <1>1, <4>1 DEF BodyOpens
    <3>5. n + 1 \in (n + 1)..(n + 1)
      BY <1>1
    <3> QED BY <3>2, <3>3, <3>4, <3>5
  <2>2. CASE InFunction
    <3>1. ItemRun(h, v, n + 1) /\ v.lines[1] = u.lines[1] /\ u.lines[1] \in 1..n
      BY <1>3, <1>5, <1>9, <1>11, <2>2
    <3>2. PICK a : a = u.lines[1]
      OBVIOUS
    <3>3. a \in 1..n /\ v.lines[1] = a /\ h[a] = file[a]
      BY <1>1, <3>1, <3>2
    <3>4. Second = "signature" /\ l.kind \in {"attributes", "comment", "brace"} =>
            /\ h[a].kind = "signature"
            /\ \A m \in (a + 1)..n : h[m].kind \in {"attributes", "comment"}
            /\ \A m \in a..n : Opens(h[m]) = 0
      BY <1>1, <1>5, <2>2, <3>2, <3>3
    <3>5. Second' = "signature" =>
            /\ h[a].kind = "signature"
            /\ \A m \in (a + 1)..(n + 1) : h[m].kind \in {"attributes", "comment"}
      <4> HAVE Second' = "signature"
      <4>1. Second = "signature" /\ l.kind \in {"attributes", "comment"}
        BY <1>3, <1>11, <2>2
      <4>2. \A m \in (a + 1)..(n + 1) : m \in (a + 1)..n \/ m = n + 1
        BY <1>1, <3>3
      <4> QED BY <1>1, <3>4, <4>1, <4>2
    <3>6. Second' = "function" =>
            \E b \in a..(n + 1) : BodyOpens(h, a, b) /\ \A m \in b..(n + 1) : Depth(h, m) >= 2
      <4> HAVE Second' = "function"
      <4>1. Depth(h, n + 1) >= 2
        BY <1>2, <1>3, <1>11, <2>2
      <4>2. CASE Second = "signature"
        <5>1. l.kind = "brace"
          BY <1>3, <1>11, <2>2, <4>2
        <5>2. Opens(h[n + 1]) = 1 /\ h[n + 1].kind = "brace"
          BY <1>1, <5>1, BracesOf
        <5>3. \A m \in a..((n + 1) - 1) : m \in a..n
          BY <1>1, <3>3
        <5>4. \A m \in (a + 1)..(n + 1) : m \in (a + 1)..n \/ m = n + 1
          BY <1>1, <3>3
        <5>5. BodyOpens(h, a, n + 1)
          BY <3>4, <4>2, <5>1, <5>2, <5>3, <5>4 DEF BodyOpens
        <5>6. n + 1 \in a..(n + 1) /\ \A m \in (n + 1)..(n + 1) : m = n + 1
          BY <1>1, <3>3
        <5> QED BY <4>1, <5>5, <5>6
      <4>3. CASE Second = "function"
        <5>1. PICK b \in a..n : BodyOpens(file, a, b) /\ \A m \in b..n : Depth(file, m) >= 2
          BY <1>5, <2>2, <3>2, <4>3
        <5>2. b \in 1..n /\ b \in a..(n + 1) /\ n \in 1..Len(file) /\ \A m \in b..(n + 1) : m \in b..n \/ m = n + 1
          BY <1>0, <1>1, <3>3
        <5>3. BodyOpens(h, a, b)
          BY <1>0, <1>1, <3>3, <5>1, <5>2, ItemStays
        <5>4. \A m \in b..n : Depth(h, m) >= 2
          <6> TAKE m \in b..n
          <6>1. m \in 0..n
            BY <1>1, <5>2
          <6> QED BY <1>2, <5>1, <6>1
        <5> QED BY <4>1, <5>2, <5>3, <5>4
      <4> QED BY <1>4, <2>2, <4>2, <4>3
    <3> QED BY <3>1, <3>2, <3>5, <3>6
  <2> QED BY <2>1, <2>2
<1>12. ItemInv' =
        (/\ \A x : IsDone(x)' => WholeRun(h, x, x.lines[Len(x.lines)])
         /\ InFunction' =>
              /\ ItemRun(h, v, Len(h))
              /\ Second' = "signature" =>
                   /\ h[v.lines[1]].kind = "signature"
                   /\ \A m \in (v.lines[1] + 1)..Len(h) : h[m].kind \in {"attributes", "comment"}
              /\ Second' = "function" =>
                   \E b \in v.lines[1]..Len(h) :
                     BodyOpens(h, v.lines[1], b) /\ \A m \in b..Len(h) : Depth(h, m) >= 2)
  BY <1>0 DEF ItemInv, WholeRun, ItemRun, BodyOpens, Members, Depth, Opens, Closes
<1> QED BY <1>1, <1>10, <1>11, <1>12

-----------------------------------------------------------------------------
(* extractFunctions in any file, one with functions without a body, too *)

FirstLine(b) == b.lines[1]
LastLine(b)  == b.lines[Len(b.lines)]

\* Block b begins at a function line, and has all lines to line e.
SpanOf(f, b, e) ==
  /\ b = [name |-> b.name, lines |-> b.lines]
  /\ FirstLine(b) \in 1..e /\ b.lines = FromTo(FirstLine(b), e)
  /\ b.name = f[FirstLine(b)].name /\ f[FirstLine(b)].kind \in FunctionLines

\* A block that begins on line s is that of the function on line a, or of one without
\* a body above it, with no opening line between them.
Leads(f, s, a) ==
  /\ s \in 1..a /\ \A m \in s..(a - 1) : Opens(f[m]) = 0
  /\ s = a \/ f[s].kind = "declaration"

Covers(f, b, u) == LastLine(b) = u.lines[Len(u.lines)] /\ Leads(f, FirstLine(b), u.lines[1])

\* The blocks follow each other, each function that is complete is the end of one, and
\* a block is more than its function only if it begins at one without a body.
CoverInv ==
  /\ functions \in Seq(Members(functions))
  /\ \A j \in 1..Len(functions) :
       /\ LastLine(functions[j]) \in 1..Len(file)
       /\ SpanOf(file, functions[j], LastLine(functions[j]))
       /\ file[FirstLine(functions[j])].kind = "declaration" \/ functions[j] \in DoneAll
  /\ \A i, j \in 1..Len(functions) : i < j => LastLine(functions[i]) < FirstLine(functions[j])
  /\ \A x : IsDone(x) => \E j \in 1..Len(functions) : Covers(file, functions[j], x)
  /\ cut = NoBlock => ~InFunction /\ cutDepth = 0
  /\ cut # NoBlock =>
       /\ SpanOf(file, cut, Len(file)) /\ cutDepth = Level - 1
       /\ Level = 1 => \A m \in FirstLine(cut)..Len(file) : Opens(file[m]) = 0
       /\ \A j \in 1..Len(functions) : LastLine(functions[j]) < FirstLine(cut)
       /\ IF InFunction THEN Leads(file, FirstLine(cut), OpenItem.lines[1])
          ELSE file[FirstLine(cut)].kind = "declaration"

\* The block that a line goes to when block o is open
NextBlock(o, l) == IF o = NoBlock THEN [name |-> l.name, lines |-> <<Here>>]
                   ELSE [o EXCEPT !.lines = Append(@, Here)]

CutBlock(l) == NextBlock(cut, l)

\* What a line does to the block that extractFunctions has open.
LEMMA CutMoves ==
  ASSUME NEW l, CutLine(l)
  PROVE  IF cut = NoBlock /\ l.kind \notin FunctionLines THEN UNCHANGED cutVars
         ELSE IF cutDepth + Delta(l) = 0 /\ (Opens(l) = 1 \/ HasBrace(CutBlock(l).lines))
              THEN cut' = NoBlock /\ cutDepth' = 0 /\ functions' = Append(functions, CutBlock(l))
              ELSE cut' = CutBlock(l) /\ cutDepth' = cutDepth + Delta(l) /\ functions' = functions
<1> DEFINE st    == [open |-> cut, depth |-> cutDepth, done |-> functions]
           block == CutBlock(l)
           depth == cutDepth + Delta(l)
           Stop  == [open |-> NoBlock, depth |-> 0, done |-> Append(functions, block)]
           Go    == [st EXCEPT !.open = block, !.depth = depth]
           new   == Cut(st, l, Here)
<1>1. st.open = cut /\ st.depth = cutDepth /\ st.done = functions
  OBVIOUS
<1>2. Go.open = block /\ Go.depth = depth /\ Go.done = functions
  OBVIOUS
<1>3. Stop.open = NoBlock /\ Stop.depth = 0 /\ Stop.done = Append(functions, block)
  OBVIOUS
<1>4. new = IF cut = NoBlock /\ l.kind \notin FunctionLines THEN st
            ELSE IF depth = 0 /\ (Opens(l) = 1 \/ HasBrace(block.lines)) THEN Stop ELSE Go
  <2>1. block = IF st.open = NoBlock THEN [name |-> l.name, lines |-> <<Here>>] ELSE [st.open EXCEPT !.lines = Append(@, Here)]
    BY <1>1 DEF CutBlock, NextBlock
  <2> QED BY <1>1, <2>1 DEF Cut
<1>5. cut' = new.open /\ cutDepth' = new.depth /\ functions' = new.done
  BY DEF CutLine
<1> HIDE DEF st, block, depth, Stop, Go, new
<1>6. cut = NoBlock /\ l.kind \notin FunctionLines => cut' = cut /\ cutDepth' = cutDepth /\ functions' = functions
  BY <1>1, <1>4, <1>5
<1>7. ~(cut = NoBlock /\ l.kind \notin FunctionLines) =>
        IF depth = 0 /\ (Opens(l) = 1 \/ HasBrace(block.lines))
        THEN cut' = NoBlock /\ cutDepth' = 0 /\ functions' = Append(functions, block)
        ELSE cut' = block /\ cutDepth' = depth /\ functions' = functions
  BY <1>2, <1>3, <1>4, <1>5
<1> QED BY <1>6, <1>7 DEF block, depth, cutVars

\* Whether an open block has a line with a "{"
LEMMA HasBraceIs ==
  ASSUME Len(file) \in Nat, NEW s \in 1..(Len(file) + 1)
  PROVE  HasBrace(FromTo(s, Len(file) + 1)) <=> \E i \in s..Len(file) : Opens(file[i]) = 1
<1>1. PICK n, t : n = Len(file) /\ t = FromTo(s, n + 1)
  OBVIOUS
<1>2. n \in Nat /\ s \in Nat /\ s >= 1 /\ s <= n + 1 /\ n + 1 \in Nat /\ Here = n + 1
  BY <1>1 DEF Here
<1>3. /\ Len(t) = (n + 1) - s + 1 /\ (\A i \in 1..((n + 1) - s + 1) : t[i] = s + i - 1)
      /\ \A x \in s..(n + 1) : \E i \in 1..Len(t) : t[i] = x
  <2>1. PICK m : m = n + 1
    OBVIOUS
  <2>2. m \in Nat /\ s \in Nat /\ s >= 1 /\ s <= m /\ t = FromTo(s, m)
    BY <1>1, <1>2, <2>1
  <2>3. /\ Len(FromTo(s, m)) = m - s + 1 /\ (\A i \in 1..(m - s + 1) : FromTo(s, m)[i] = s + i - 1)
        /\ \A x \in s..m : \E i \in 1..Len(FromTo(s, m)) : FromTo(s, m)[i] = x
    <3>1. m \in Nat /\ s \in Nat /\ s >= 1 /\ s <= m
      BY <2>2
    <3> QED BY <3>1, FromToIs
  <2> QED BY <2>1, <2>2, <2>3
<1>4. \A i \in 1..Len(t) : t[i] \in s..(n + 1)
  <2> TAKE i \in 1..Len(t)
  <2>1. i \in 1..((n + 1) - s + 1) /\ t[i] = s + i - 1
    BY <1>3
  <2> QED BY <1>2, <2>1
<1>5. \A x : x \in s..(n + 1) /\ x # n + 1 <=> x \in s..n
  BY <1>2
<1>6. HasBrace(t) <=> \E i \in 1..Len(t) : t[i] # n + 1 /\ Opens(file[t[i]]) = 1
  BY <1>2 DEF HasBrace
<1>7. (\E i \in 1..Len(t) : t[i] # n + 1 /\ Opens(file[t[i]]) = 1) <=> \E i \in s..n : Opens(file[i]) = 1
  BY <1>3, <1>4, <1>5
<1> QED BY <1>1, <1>6, <1>7

\* The block a line goes to has that line as its last.
LEMMA NextBlockIs ==
  ASSUME Grammar, NEW l, Reads(l), NEW o, l.kind \in FunctionLines \/ o # NoBlock,
         o # NoBlock => SpanOf(file, o, Len(file))
  PROVE  /\ SpanOf(file', NextBlock(o, l), Here)
         /\ FirstLine(NextBlock(o, l)) = IF o = NoBlock THEN Here ELSE FirstLine(o)
         /\ LastLine(NextBlock(o, l)) = Here /\ NextBlock(o, l) # NoBlock
<1>0. PICK n, h, b : n = Len(file) /\ h = file' /\ b = NextBlock(o, l)
  OBVIOUS
<1>1. /\ n \in Nat /\ Here = n + 1 /\ Len(h) = n + 1 /\ (\A i \in 1..n : h[i] = file[i]) /\ h[n + 1] = l
  BY <1>0, FileIs DEF Grammar
<1>2. PICK s : s = IF o = NoBlock THEN n + 1 ELSE FirstLine(o)
  OBVIOUS
<1>3. s \in 1..(n + 1)
  BY <1>0, <1>1, <1>2 DEF SpanOf
<1>4. /\ b = [name |-> b.name, lines |-> b.lines] /\ b.lines = FromTo(s, n + 1)
      /\ b.name = h[s].name /\ h[s].kind \in FunctionLines
  <2>1. CASE o = NoBlock
    <3>1. b = [name |-> l.name, lines |-> <<n + 1>>] /\ s = n + 1
      BY <1>0, <1>1, <1>2, <2>1 DEF NextBlock
    <3>2. FromTo(n + 1, n + 1) = <<n + 1>>
      <4>1. (n + 1) - (n + 1) + 1 = 1
        BY <1>1
      <4>2. FromTo(n + 1, n + 1) = [i \in 1..1 |-> (n + 1) + i - 1]
        BY <4>1 DEF FromTo
      <4>3. \A i \in 1..1 : (n + 1) + i - 1 = n + 1
        BY <1>1
      <4>4. [i \in 1..1 |-> (n + 1) + i - 1] = <<n + 1>>
        BY <1>1, <4>3
      <4> QED BY <4>2, <4>4
    <3> QED BY <1>1, <2>1, <3>1, <3>2
  <2>2. CASE o # NoBlock
    <3>1. /\ o = [name |-> o.name, lines |-> o.lines] /\ s = FirstLine(o) /\ o.lines = FromTo(s, n)
          /\ s \in 1..n /\ o.name = file[s].name /\ file[s].kind \in FunctionLines
      BY <1>0, <1>2, <2>2 DEF SpanOf
    <3>2. b = [o EXCEPT !.lines = Append(o.lines, n + 1)]
      BY <1>0, <1>1, <2>2 DEF NextBlock
    <3>3. b = [name |-> o.name, lines |-> Append(o.lines, n + 1)]
      <4>1. PICK nm, t : nm = o.name /\ t = o.lines
        OBVIOUS
      <4>2. o = [name |-> nm, lines |-> t]
        BY <3>1, <4>1
      <4> QED BY <3>2, <4>1, <4>2, BlockRecord
    <3>4. Append(FromTo(s, n), n + 1) = FromTo(s, n + 1)
      <4>1. n \in Nat /\ s \in Nat /\ s >= 1 /\ s <= n
        BY <1>1, <3>1
      <4> QED BY <4>1, FromToIs
    <3>5. h[s] = file[s]
      BY <1>1, <3>1
    <3> QED BY <3>1, <3>3, <3>4, <3>5
  <2> QED BY <2>1, <2>2
<1>5. b.lines[1] = s /\ b.lines[Len(b.lines)] = n + 1 /\ b.lines # <<>>
  <2>1. n + 1 \in Nat /\ s \in Nat /\ s >= 1 /\ s <= n + 1
    BY <1>1, <1>3
  <2>2. /\ FromTo(s, n + 1)[1] = s /\ Len(FromTo(s, n + 1)) = (n + 1) - s + 1 /\ FromTo(s, n + 1) # <<>>
        /\ \A i \in 1..((n + 1) - s + 1) : FromTo(s, n + 1)[i] = s + i - 1
    BY <2>1, FromToIs
  <2>3. (n + 1) - s + 1 \in 1..((n + 1) - s + 1) /\ s + ((n + 1) - s + 1) - 1 = n + 1
    BY <2>1
  <2> QED BY <1>4, <2>2, <2>3
<1>6. b # NoBlock
  <2>1. NoBlock.lines = <<>>
    BY DEF NoBlock
  <2> QED BY <1>5, <2>1
<1> QED BY <1>0, <1>1, <1>2, <1>3, <1>4, <1>5, <1>6 DEF SpanOf, FirstLine, LastLine

\* The open block with this line added is the run of lines up to it.
LEMMA CutBlockIs ==
  ASSUME Grammar, NEW l, Reads(l), l.kind \in FunctionLines \/ cut # NoBlock,
         cut # NoBlock => SpanOf(file, cut, Len(file))
  PROVE  /\ SpanOf(file', CutBlock(l), Here)
         /\ FirstLine(CutBlock(l)) = IF cut = NoBlock THEN Here ELSE FirstLine(cut)
         /\ LastLine(CutBlock(l)) = Here /\ CutBlock(l) # NoBlock
         /\ HasBrace(CutBlock(l).lines) <=> \E i \in FirstLine(CutBlock(l))..Len(file) : Opens(file[i]) = 1
<1>0. PICK n, b, s : n = Len(file) /\ b = CutBlock(l) /\ s = FirstLine(b)
  OBVIOUS
<1>1. n \in Nat /\ Here = n + 1
  BY <1>0, FileIs DEF Grammar
<1>2. /\ SpanOf(file', b, n + 1) /\ LastLine(b) = n + 1 /\ b # NoBlock
      /\ s = IF cut = NoBlock THEN n + 1 ELSE FirstLine(cut)
  BY <1>0, <1>1, NextBlockIs DEF CutBlock
<1>3. s \in 1..(n + 1) /\ b.lines = FromTo(s, n + 1)
  BY <1>0, <1>2 DEF SpanOf
<1>4. HasBrace(b.lines) <=> \E i \in s..n : Opens(file[i]) = 1
  BY <1>0, <1>1, <1>3, HasBraceIs
<1> QED BY <1>0, <1>1, <1>2, <1>4

\* What was read of a block stays.
LEMMA SpanStays ==
  ASSUME NEW f, NEW h, OneMore(h, f), NEW e \in 1..Len(f)
  PROVE  /\ \A b : SpanOf(f, b, e) => SpanOf(h, b, e) /\ h[FirstLine(b)] = f[FirstLine(b)]
         /\ \A s : Leads(f, s, e) => Leads(h, s, e)
<1>1. Len(f) \in Nat /\ \A m \in 1..Len(f) : h[m] = f[m]
  BY DEF OneMore
<1>2. ASSUME NEW b, SpanOf(f, b, e) PROVE SpanOf(h, b, e) /\ h[FirstLine(b)] = f[FirstLine(b)]
  <2>1. FirstLine(b) \in 1..Len(f)
    BY <1>1, <1>2 DEF SpanOf
  <2> QED BY <1>1, <1>2, <2>1 DEF SpanOf
<1>3. ASSUME NEW s, Leads(f, s, e) PROVE Leads(h, s, e)
  <2>1. s \in 1..e /\ \A m \in s..e : m \in 1..Len(f)
    BY <1>1, <1>3 DEF Leads
  <2>2. \A m \in s..(e - 1) : h[m] = f[m]
    BY <1>1, <2>1
  <2> QED BY <1>1, <1>3, <2>1, <2>2 DEF Leads
<1> QED BY <1>2, <1>3

\* What the block of a line is, if it is closed there and if it is not
LEMMA CutCases ==
  ASSUME Grammar, DepthInv, ItemInv, CoverInv, NEW l, Reads(l), l.kind \in FunctionLines \/ cut # NoBlock
  PROVE  LET b == CutBlock(l)
             s == FirstLine(b)
         IN /\ cutDepth + Delta(l) = Level' - 1
            /\ \A x : IsDone(x)' => IsDone(x) \/ Covers(file', b, x)
            /\ IF Level' = 1 /\ (Opens(l) = 1 \/ \E i \in s..Len(file) : Opens(file[i]) = 1)
               THEN ~InFunction' /\ (file'[s].kind = "declaration" \/ b \in DoneAll')
               ELSE /\ \A x : IsDone(x)' => IsDone(x)
                    /\ IF InFunction' THEN Leads(file', s, OpenItem'.lines[1]) ELSE file'[s].kind = "declaration"
                    /\ Level' = 1 => \A m \in s..Here : Opens(file'[m]) = 0
<1>0. PICK n, h, b, s, u : n = Len(file) /\ h = file' /\ b = CutBlock(l) /\ s = FirstLine(b) /\ u = OpenItem
  OBVIOUS
<1>1. /\ n \in Nat /\ Here = n + 1 /\ Len(h) = n + 1 /\ (\A i \in 1..n : h[i] = file[i]) /\ h[n + 1] = l
      /\ OneMore(h, file) /\ Typed /\ Level \in Nat /\ Level' = Level + Delta(l)
      /\ Opens(l) \in {0, 1} /\ \A m : Opens(m) \in {0, 1}
  <2>1. Level \in Nat /\ Level' = Level + Delta(l) /\ Typed
    BY GrammarStep, LevelIs DEF Grammar
  <2> QED BY <1>0, <2>1, FileIs, BracesOf DEF OneMore
<1>2. /\ InFunction' /\ ~InFunction =>
           /\ l.kind \in {"function", "signature"} /\ Second' = l.kind
           /\ OpenItem' = Item("function", l) /\ Level = 1 /\ Level' = 1 + Opens(l)
      /\ InFunction' /\ InFunction =>
           /\ u \in Items
           /\ OpenItem' = IF l.kind = "comment" THEN u ELSE Longer(u)
           /\ l.kind \notin Bodies \cup ContractLines
           /\ Second' = "signature" => Second = "signature" /\ l.kind \in {"attributes", "comment"}
           /\ Second' = "function" => Level' >= 2
      /\ InFunction /\ ~InFunction' =>
           Ends(l) /\ Second = "function" /\ l.kind = "close" /\ Level' = 1 /\ u \in Items
      /\ IsOne(l) => ~InFunction /\ ~InFunction' /\ Level = 1 /\ Level' = 1 /\ Opens(l) = 1
      /\ ~InFunction /\ ~InFunction' /\ l.kind # "declaration" => l.kind \notin {"function", "signature"}
      /\ l.kind = "oneLiner" => IsOne(l)
      /\ l.kind = "declaration" => ~InFunction /\ ~InFunction' /\ Level = 1 /\ Level' = 1 /\ Opens(l) = 0
  BY <1>0, OpenMoves
<1>3. l.kind \in FunctionLines => ~InFunction /\ Level = 1
  BY <1>2 DEF FunctionLines, Bodies
<1>4. /\ InFunction => Second \in {"function", "signature"} /\ InUnit
      /\ InFunction' => Second' \in {"function", "signature"}
      /\ Ends(l) => ~InFunction'
  BY DEF InFunction, InUnit, Ends
<1>5. InFunction =>
        /\ ItemRun(file, u, n) /\ u.lines[1] \in 1..n
        /\ Second = "signature" => \A i \in u.lines[1]..n : Opens(file[i]) = 0
        /\ Second = "function" => \E i \in u.lines[1]..n : Opens(file[i]) = 1
  BY <1>0, <1>4 DEF ItemInv, Grammar, OpenInv
<1>6. /\ cut = NoBlock => ~InFunction /\ cutDepth = 0
      /\ cut # NoBlock =>
           /\ SpanOf(file, cut, n) /\ cutDepth = Level - 1
           /\ Level = 1 => \A m \in FirstLine(cut)..n : Opens(file[m]) = 0
           /\ IF InFunction THEN Leads(file, FirstLine(cut), u.lines[1])
              ELSE file[FirstLine(cut)].kind = "declaration"
  BY <1>0 DEF CoverInv
<1>7. /\ SpanOf(h, b, n + 1) /\ s = IF cut = NoBlock THEN n + 1 ELSE FirstLine(cut)
      /\ LastLine(b) = n + 1
  BY <1>0, <1>1, <1>6, CutBlockIs
<1>8. s \in 1..(n + 1) /\ (cut # NoBlock => s \in 1..n)
  BY <1>0, <1>1, <1>6, <1>7 DEF SpanOf
<1>9. cutDepth + Delta(l) = Level' - 1
  <2>1. Delta(l) \in Int
    BY <1>1, BracesOf
  <2> QED BY <1>1, <1>3, <1>6, <2>1
<1>10. \A i \in s..n : h[i] = file[i] /\ Opens(h[i]) = Opens(file[i])
  BY <1>1, <1>8
\* Where a function of a line or of some ends
<1>11. /\ InFunction => Leads(h, s, u.lines[1])
       /\ ~InFunction /\ Level = 1 => Leads(h, s, n + 1)
  <2>1. ASSUME InFunction PROVE Leads(h, s, u.lines[1])
    <3>1. Leads(file, s, u.lines[1]) /\ u.lines[1] \in 1..Len(file)
      BY <1>0, <1>5, <1>6, <1>7, <2>1
    <3> QED BY <1>1, <3>1, SpanStays
  <2>2. ASSUME ~InFunction, Level = 1 PROVE Leads(h, s, n + 1)
    <3>1. \A m \in s..((n + 1) - 1) : m \in s..n
      BY <1>1
    <3>2. CASE cut = NoBlock
      <4>1. s = n + 1 /\ s..n = {}
        BY <1>1, <1>7, <3>2
      <4> QED BY <1>8, <3>1, <4>1 DEF Leads
    <3>3. CASE cut # NoBlock
      <4>1. h[s].kind = "declaration" /\ \A m \in s..n : Opens(h[m]) = 0
        BY <1>1, <1>6, <1>7, <1>8, <1>10, <2>2, <3>3
      <4> QED BY <1>8, <3>1, <4>1 DEF Leads
    <3> QED BY <3>2, <3>3
  <2> QED BY <2>1, <2>2
<1>12. ASSUME NEW x, IsDone(x)'
       PROVE  IsDone(x) \/ (IsOne(l) /\ Covers(h, b, x)) \/ (InFunction /\ ~InFunction' /\ Covers(h, b, x))
  <2>1. CASE IsOne(l) /\ x = Item("function", l)
    <3>1. x.lines = <<n + 1>> /\ <<n + 1>>[1] = n + 1 /\ Len(<<n + 1>>) = 1
      BY <1>1, <2>1 DEF Item
    <3>2. Leads(h, s, n + 1)
      BY <1>2, <1>11, <2>1
    <3> QED BY <1>0, <1>7, <2>1, <3>1, <3>2 DEF Covers
  <2>2. CASE InFunction /\ Ends(l) /\ x = Longer(OpenItem)
    <3>1. ~InFunction' /\ u \in Items /\ x = Longer(u)
      BY <1>0, <1>2, <1>4, <2>2
    <3>2. x.lines[1] = u.lines[1] /\ x.lines[Len(x.lines)] = n + 1
      BY <1>1, <3>1, LongerIs
    <3> QED BY <1>0, <1>7, <1>11, <2>2, <3>1, <3>2 DEF Covers
  <2> QED BY <1>12, <2>1, <2>2, DoneItemStep
<1> DEFINE C == Level' = 1 /\ (Opens(l) = 1 \/ \E i \in s..n : Opens(file[i]) = 1)
<1>13. ASSUME C PROVE ~InFunction'
  <2> SUFFICES ASSUME InFunction' PROVE FALSE
    OBVIOUS
  <2>1. CASE ~InFunction
    <3>1. Opens(l) = 0 /\ Level = 1
      BY <1>1, <1>2, <1>13, <2>1
    <3>2. Leads(h, s, n + 1)
      BY <1>11, <2>1, <3>1
    <3>3. \A m \in s..((n + 1) - 1) : Opens(h[m]) = 0
      BY <3>2 DEF Leads
    <3>4. \A m \in s..n : Opens(file[m]) = 0
      BY <1>1, <1>10, <3>3
    <3> QED BY <1>13, <3>1, <3>4
  <2>2. CASE InFunction
    <3>1. Second = "signature" /\ l.kind \in {"attributes", "comment"}
      BY <1>1, <1>2, <1>4, <1>13, <2>2
    <3>2. Opens(l) = 0
      BY <3>1, BracesOf
    <3>3. \A m \in s..n : Opens(file[m]) = 0
      <4>1. Leads(h, s, u.lines[1]) /\ u.lines[1] \in 1..n /\ \A i \in u.lines[1]..n : Opens(file[i]) = 0
        BY <1>5, <1>11, <2>2, <3>1
      <4>2. \A m \in s..n : m \in s..(u.lines[1] - 1) \/ m \in u.lines[1]..n
        BY <1>1, <1>8, <4>1
      <4> QED BY <1>10, <4>1, <4>2 DEF Leads
    <3> QED BY <1>13, <3>2, <3>3
  <2> QED BY <2>1, <2>2
<1>14. ASSUME C, h[s].kind # "declaration" PROVE b \in DoneAll'
  <2>1. DoneAll' = DoneAll \cup News(l) /\ ~InFunction'
    BY <1>13, <1>14, AllDoneStep
  <2>2. b = [name |-> h[s].name, lines |-> FromTo(s, n + 1)] /\ h[s].kind \in FunctionLines
    <3>1. b = [name |-> b.name, lines |-> b.lines] /\ b.lines = FromTo(s, n + 1) /\ b.name = h[s].name /\ h[s].kind \in FunctionLines
      BY <1>0, <1>7 DEF SpanOf
    <3> QED BY <3>1
  <2>3. CASE cut = NoBlock
    <3>1. s = n + 1 /\ h[s] = l /\ l.kind \in FunctionLines /\ l.kind # "declaration"
      BY <1>1, <1>7, <1>14, <2>2, <2>3
    <3>2. l.kind = "oneLiner"
      BY <1>2, <1>3, <2>1, <3>1 DEF FunctionLines
    <3>3. News(l) = {[name |-> l.name, lines |-> <<n + 1>>]}
      BY <1>1, <3>2 DEF News
    <3>4. FromTo(n + 1, n + 1) = <<n + 1>>
      <4>1. (n + 1) - (n + 1) + 1 = 1
        BY <1>1
      <4>2. FromTo(n + 1, n + 1) = [i \in 1..1 |-> (n + 1) + i - 1]
        BY <4>1 DEF FromTo
      <4>3. \A i \in 1..1 : (n + 1) + i - 1 = n + 1
        BY <1>1
      <4>4. [i \in 1..1 |-> (n + 1) + i - 1] = <<n + 1>>
        BY <1>1, <4>3
      <4> QED BY <4>2, <4>4
    <3> QED BY <2>1, <2>2, <3>1, <3>3, <3>4
  <2>4. CASE cut # NoBlock
    <3>1. InFunction
      BY <1>1, <1>6, <1>7, <1>8, <1>14, <2>4
    <3>2. s = u.lines[1] /\ s \in 1..n
      BY <1>8, <1>11, <1>14, <2>4, <3>1 DEF Leads
    <3>3. Ends(l) /\ l.kind = "close"
      BY <1>2, <2>1, <3>1
    <3>4. News(l) = {[name |-> u.name, lines |-> FromTo(u.lines[1], n + 1)]}
      BY <1>0, <1>1, <3>1, <3>3 DEF News
    <3>5. u.name = h[s].name
      BY <1>1, <1>5, <3>1, <3>2 DEF ItemRun
    <3> QED BY <2>1, <2>2, <3>2, <3>4, <3>5
  <2> QED BY <2>3, <2>4
<1>15. ASSUME ~C, NEW x, IsDone(x)' PROVE IsDone(x)
  <2>1. ~IsOne(l)
    BY <1>2, <1>15
  <2>2. ~(InFunction /\ ~InFunction')
    <3> SUFFICES ASSUME InFunction, ~InFunction' PROVE FALSE
      OBVIOUS
    <3>1. Level' = 1 /\ Second = "function"
      BY <1>2
    <3>2. PICK i \in u.lines[1]..n : Opens(file[i]) = 1
      BY <1>5, <3>1
    <3>3. i \in s..n
      <4>1. s \in 1..u.lines[1] /\ u.lines[1] \in 1..n
        BY <1>5, <1>11 DEF Leads
      <4> QED BY <1>1, <3>2, <4>1
    <3> QED BY <1>15, <3>1, <3>2, <3>3
  <2> QED BY <1>12, <1>15, <2>1, <2>2
<1>16. ASSUME ~C PROVE IF InFunction' THEN Leads(h, s, OpenItem'.lines[1]) ELSE h[s].kind = "declaration"
  <2>1. CASE InFunction' /\ InFunction
    <3>1. OpenItem'.lines[1] = u.lines[1]
      BY <1>1, <1>2, <2>1, LongerIs
    <3> QED BY <1>11, <2>1, <3>1
  <2>2. CASE InFunction' /\ ~InFunction
    <3>1. OpenItem'.lines = <<n + 1>> /\ <<n + 1>>[1] = n + 1 /\ Level = 1
      BY <1>1, <1>2, <2>2 DEF Item
    <3> QED BY <1>11, <2>2, <3>1
  <2>3. CASE ~InFunction' /\ InFunction
    <3>1. Level' = 1 /\ Second = "function"
      BY <1>2, <2>3
    <3>2. PICK i \in u.lines[1]..n : Opens(file[i]) = 1
      BY <1>5, <2>3, <3>1
    <3>3. i \in s..n
      <4>1. s \in 1..u.lines[1] /\ u.lines[1] \in 1..n
        BY <1>5, <1>11, <2>3 DEF Leads
      <4> QED BY <1>1, <3>2, <4>1
    <3> QED BY <1>16, <3>1, <3>2, <3>3
  <2>4. CASE ~InFunction' /\ ~InFunction
    <3>1. CASE cut # NoBlock
      BY <1>1, <1>6, <1>7, <1>8, <2>4, <3>1
    <3>2. CASE cut = NoBlock
      <4>1. l.kind \in FunctionLines /\ l.kind # "oneLiner"
        BY <1>2, <1>16, <3>2
      <4>2. l.kind = "declaration"
        BY <1>2, <2>4, <4>1 DEF FunctionLines
      <4> QED BY <1>1, <1>7, <2>4, <3>2, <4>2
    <3> QED BY <3>1, <3>2
  <2> QED BY <2>1, <2>2, <2>3, <2>4
<1>17. ASSUME ~C, Level' = 1 PROVE \A m \in s..(n + 1) : Opens(h[m]) = 0
  <2>1. Opens(h[n + 1]) = 0
    BY <1>1, <1>17
  <2>2. \A m \in s..n : Opens(h[m]) = 0
    BY <1>1, <1>10, <1>17
  <2>3. \A m \in s..(n + 1) : m \in s..n \/ m = n + 1
    BY <1>1, <1>8
  <2> QED BY <2>1, <2>2, <2>3
<1>18. \A x : IsDone(x)' => IsDone(x) \/ Covers(h, b, x)
  BY <1>12
<1>19. IF C THEN ~InFunction' /\ (h[s].kind = "declaration" \/ b \in DoneAll')
       ELSE /\ \A x : IsDone(x)' => IsDone(x)
            /\ IF InFunction' THEN Leads(h, s, OpenItem'.lines[1]) ELSE h[s].kind = "declaration"
            /\ Level' = 1 => \A m \in s..(n + 1) : Opens(h[m]) = 0
  <2>1. CASE C
    <3> HIDE DEF C
    <3> QED BY <1>13, <1>14, <2>1
  <2>2. CASE ~C
    <3> HIDE DEF C
    <3> QED BY <1>15, <1>16, <1>17, <2>2
  <2> QED BY <2>1, <2>2
<1> QED BY <1>0, <1>1, <1>9, <1>18, <1>19

\* A block covers a function still when a line more is read.
LEMMA CoversStay ==
  ASSUME NEW f, NEW h, OneMore(h, f), NEW b, NEW x, WholeRun(f, x, x.lines[Len(x.lines)]), Covers(f, b, x)
  PROVE  Covers(h, b, x)
<1>1. Len(f) \in Nat /\ x.lines[Len(x.lines)] \in 1..Len(f) /\ x.lines[1] \in 1..x.lines[Len(x.lines)]
  BY DEF OneMore, WholeRun, ItemRun
<1>2. PICK e, a : e = x.lines[Len(x.lines)] /\ a = x.lines[1]
  OBVIOUS
<1>3. a \in 1..Len(f)
  BY <1>1, <1>2
<1>4. Leads(f, FirstLine(b), a)
  BY <1>2 DEF Covers
<1>5. Leads(h, FirstLine(b), a)
  BY <1>3, <1>4, SpanStays
<1> QED BY <1>2, <1>5 DEF Covers

\* The blocks found so far stay what they are.
LEMMA BlocksStay ==
  ASSUME Grammar, ItemInv, CoverInv, NEW l, Reads(l)
  PROVE  /\ \A j \in 1..Len(functions) :
              /\ LastLine(functions[j]) \in 1..Len(file')
              /\ LastLine(functions[j]) <= Len(file)
              /\ SpanOf(file', functions[j], LastLine(functions[j]))
              /\ file'[FirstLine(functions[j])].kind = "declaration" \/ functions[j] \in DoneAll'
         /\ \A x : IsDone(x) => \E j \in 1..Len(functions) : Covers(file', functions[j], x)
<1>0. PICK n, h : n = Len(file) /\ h = file'
  OBVIOUS
<1>1. n \in Nat /\ Len(h) = n + 1 /\ OneMore(h, file)
  BY <1>0, FileIs DEF Grammar, OneMore
<1>2. DoneAll \subseteq DoneAll'
  BY AllDoneStep
<1>3. ASSUME NEW j \in 1..Len(functions)
      PROVE  /\ LastLine(functions[j]) \in 1..(n + 1) /\ LastLine(functions[j]) <= n
             /\ SpanOf(h, functions[j], LastLine(functions[j]))
             /\ h[FirstLine(functions[j])].kind = "declaration" \/ functions[j] \in DoneAll'
  <2>1. PICK b, e : b = functions[j] /\ e = LastLine(b)
    OBVIOUS
  <2>2. e \in 1..n /\ SpanOf(file, b, e) /\ (file[FirstLine(b)].kind = "declaration" \/ b \in DoneAll)
    BY <1>0, <2>1 DEF CoverInv
  <2>3. SpanOf(h, b, e) /\ h[FirstLine(b)] = file[FirstLine(b)]
    BY <1>0, <1>1, <2>2, SpanStays
  <2> QED BY <1>1, <1>2, <2>1, <2>2, <2>3
<1>4. ASSUME NEW x, IsDone(x) PROVE \E j \in 1..Len(functions) : Covers(h, functions[j], x)
  <2>1. PICK j \in 1..Len(functions) : Covers(file, functions[j], x)
    BY <1>4 DEF CoverInv
  <2>2. WholeRun(file, x, x.lines[Len(x.lines)])
    BY <1>4 DEF ItemInv
  <2> QED BY <1>1, <2>1, <2>2, CoversStay
<1> QED BY <1>0, <1>1, <1>3, <1>4

\* What holds of the blocks of extractFunctions in any file survives a line.
LEMMA CoverStep ==
  ASSUME Grammar, DepthInv, ItemInv, CoverInv, NEW l, Reads(l), CutLine(l)
  PROVE  CoverInv'
<1>0. PICK n, h, fs : n = Len(file) /\ h = file' /\ fs = functions
  OBVIOUS
<1>1. /\ n \in Nat /\ Here = n + 1 /\ Len(h) = n + 1 /\ Typed /\ Level \in Nat
      /\ fs \in Seq(Members(fs)) /\ Len(fs) \in Nat
  <2>1. fs \in Seq(Members(fs))
    BY <1>0 DEF CoverInv
  <2> QED BY <1>0, <2>1, FileIs, LevelIs, LenProperties DEF Grammar
<1>2. /\ \A j \in 1..Len(fs) :
           /\ LastLine(fs[j]) \in 1..(n + 1) /\ LastLine(fs[j]) <= n
           /\ SpanOf(h, fs[j], LastLine(fs[j]))
           /\ h[FirstLine(fs[j])].kind = "declaration" \/ fs[j] \in DoneAll'
      /\ \A x : IsDone(x) => \E j \in 1..Len(fs) : Covers(h, fs[j], x)
  BY <1>0, <1>1, BlocksStay
<1>3. \A i, j \in 1..Len(fs) : i < j => LastLine(fs[i]) < FirstLine(fs[j])
  BY <1>0 DEF CoverInv
<1>4. CASE cut = NoBlock /\ l.kind \notin FunctionLines
  <2>1. functions' = fs /\ cut' = NoBlock /\ cutDepth' = 0 /\ ~InFunction
    BY <1>0, <1>4, CutMoves DEF cutVars, CoverInv
  <2>2. ~IsOne(l)
    BY <1>4 DEF IsOne, FunctionLines
  <2>3. ~InFunction'
    <3> SUFFICES ASSUME InFunction' PROVE FALSE
      OBVIOUS
    <3>1. l.kind \in {"function", "signature"}
      BY <2>1, OpenMoves
    <3> QED BY <1>4, <3>1 DEF FunctionLines
  <2>4. \A x : IsDone(x)' => IsDone(x)
    BY <2>1, <2>2, DoneItemStep
  <2>5. \A x : IsDone(x)' => \E j \in 1..Len(fs) : Covers(h, fs[j], x)
    BY <1>2, <2>4
  <2> QED BY <1>0, <1>1, <1>2, <1>3, <2>1, <2>3, <2>5 DEF CoverInv
<1>5. CASE ~(cut = NoBlock /\ l.kind \notin FunctionLines)
  <2>0. PICK b, s : b = CutBlock(l) /\ s = FirstLine(b)
    OBVIOUS
  <2>1. l.kind \in FunctionLines \/ cut # NoBlock
    BY <1>5
  <2>2. cut # NoBlock => SpanOf(file, cut, n) /\ \A j \in 1..Len(fs) : LastLine(fs[j]) < FirstLine(cut)
    BY <1>0 DEF CoverInv
  <2>3. /\ SpanOf(h, b, n + 1) /\ s = (IF cut = NoBlock THEN n + 1 ELSE FirstLine(cut))
        /\ LastLine(b) = n + 1 /\ b # NoBlock
        /\ HasBrace(b.lines) <=> \E i \in s..n : Opens(file[i]) = 1
    BY <1>0, <1>1, <2>0, <2>1, <2>2, CutBlockIs
  <2>4. \A j \in 1..Len(fs) : LastLine(fs[j]) < s
    <3>1. CASE cut = NoBlock
      <4> SUFFICES ASSUME NEW j \in 1..Len(fs) PROVE LastLine(fs[j]) < s
        OBVIOUS
      <4>1. LastLine(fs[j]) \in 1..(n + 1) /\ LastLine(fs[j]) <= n /\ s = n + 1
        BY <1>2, <2>3, <3>1
      <4> QED BY <1>1, <4>1
    <3>2. CASE cut # NoBlock
      BY <2>2, <2>3, <3>2
    <3> QED BY <3>1, <3>2
  <2> DEFINE C == Level' = 1 /\ (Opens(l) = 1 \/ \E i \in s..n : Opens(file[i]) = 1)
  <2>5. /\ cutDepth + Delta(l) = Level' - 1
        /\ \A x : IsDone(x)' => IsDone(x) \/ Covers(h, b, x)
        /\ IF C
           THEN ~InFunction' /\ (h[s].kind = "declaration" \/ b \in DoneAll')
           ELSE /\ \A x : IsDone(x)' => IsDone(x)
                /\ IF InFunction' THEN Leads(h, s, OpenItem'.lines[1]) ELSE h[s].kind = "declaration"
                /\ Level' = 1 => \A m \in s..(n + 1) : Opens(h[m]) = 0
    BY <1>0, <1>1, <2>0, <2>1, CutCases
  <2>6. Level' \in Nat
    BY GrammarStep, LevelUpAfter DEF Grammar
  <2>7. IF C THEN cut' = NoBlock /\ cutDepth' = 0 /\ functions' = Append(fs, b)
        ELSE cut' = b /\ cutDepth' = Level' - 1 /\ functions' = fs
    <3>1. IF cutDepth + Delta(l) = 0 /\ (Opens(l) = 1 \/ HasBrace(b.lines))
          THEN cut' = NoBlock /\ cutDepth' = 0 /\ functions' = Append(fs, b)
          ELSE cut' = b /\ cutDepth' = cutDepth + Delta(l) /\ functions' = fs
      BY <1>0, <1>5, <2>0, CutMoves
    <3>2. cutDepth + Delta(l) = 0 <=> Level' = 1
      BY <2>5, <2>6
    <3>3. C <=> cutDepth + Delta(l) = 0 /\ (Opens(l) = 1 \/ HasBrace(b.lines))
      BY <2>3, <3>2
    <3> HIDE DEF C
    <3> QED BY <2>5, <3>1, <3>3
  <2> HIDE DEF C
  <2>8. CASE C
    <3>1. PICK gs, k : gs = functions' /\ k = Len(fs)
      OBVIOUS
    <3>2. /\ gs = Append(fs, b) /\ gs \in Seq(Members(gs)) /\ k \in Nat /\ Len(gs) = k + 1
          /\ (\A j \in 1..k : gs[j] = fs[j]) /\ gs[k + 1] = b
      <4>1. gs = Append(fs, b)
        BY <2>7, <2>8, <3>1
      <4>2. gs \in Seq(Members(gs))
        BY <1>1, <4>1, MembersAppend
      <4>3. fs \in Seq(Members(fs) \cup {b}) /\ b \in Members(fs) \cup {b}
        BY <1>1, SeqMonotonic
      <4>4. Len(gs) = Len(fs) + 1 /\ (\A j \in 1..Len(fs) : gs[j] = fs[j]) /\ gs[Len(fs) + 1] = b
        <5> DEFINE S == Members(fs) \cup {b}
        <5> HIDE DEF S
        <5> QED BY <4>1, <4>3, AppendProperties DEF S
      <4> QED BY <1>1, <3>1, <4>1, <4>2, <4>4
    <3>3. \A j \in 1..(k + 1) : j \in 1..k \/ j = k + 1
      BY <3>2
    <3>4. \A j \in 1..(k + 1) :
            /\ LastLine(gs[j]) \in 1..(n + 1)
            /\ SpanOf(h, gs[j], LastLine(gs[j]))
            /\ h[FirstLine(gs[j])].kind = "declaration" \/ gs[j] \in DoneAll'
      <4> SUFFICES ASSUME NEW j \in 1..(k + 1)
                   PROVE /\ LastLine(gs[j]) \in 1..(n + 1)
                         /\ SpanOf(h, gs[j], LastLine(gs[j]))
                         /\ h[FirstLine(gs[j])].kind = "declaration" \/ gs[j] \in DoneAll'
        OBVIOUS
      <4>1. CASE j \in 1..k
        BY <1>2, <3>1, <3>2, <4>1
      <4>2. CASE j = k + 1
        <5>1. gs[j] = b /\ n + 1 \in 1..(n + 1)
          BY <1>1, <3>2, <4>2
        <5> QED BY <2>0, <2>3, <2>5, <2>8, <5>1
      <4> QED BY <3>3, <4>1, <4>2
    <3>5. \A i, j \in 1..(k + 1) : i < j => LastLine(gs[i]) < FirstLine(gs[j])
      <4> SUFFICES ASSUME NEW i \in 1..(k + 1), NEW j \in 1..(k + 1), i < j
                   PROVE LastLine(gs[i]) < FirstLine(gs[j])
        OBVIOUS
      <4>1. i \in 1..k
        BY <3>2
      <4>2. CASE j \in 1..k
        BY <1>3, <3>1, <3>2, <4>1, <4>2
      <4>3. CASE j = k + 1
        BY <2>0, <2>4, <3>1, <3>2, <4>1, <4>3
      <4> QED BY <3>3, <4>2, <4>3
    <3>6. \A x : IsDone(x)' => \E j \in 1..(k + 1) : Covers(h, gs[j], x)
      <4> SUFFICES ASSUME NEW x, IsDone(x)' PROVE \E j \in 1..(k + 1) : Covers(h, gs[j], x)
        OBVIOUS
      <4>1. CASE IsDone(x)
        <5>1. PICK j \in 1..k : Covers(h, fs[j], x)
          BY <1>2, <3>1, <4>1
        <5>2. j \in 1..(k + 1) /\ gs[j] = fs[j]
          BY <3>2, <5>1
        <5> QED BY <5>1, <5>2
      <4>2. CASE Covers(h, b, x)
        <5>1. k + 1 \in 1..(k + 1)
          BY <3>2
        <5> QED BY <3>2, <4>2, <5>1
      <4> QED BY <2>5, <4>1, <4>2
    <3>7. ~InFunction' /\ cut' = NoBlock /\ cutDepth' = 0
      BY <2>5, <2>7, <2>8
    <3> QED BY <1>0, <1>1, <3>1, <3>2, <3>4, <3>5, <3>6, <3>7 DEF CoverInv
  <2>9. CASE ~C
    <3>1. functions' = fs /\ cut' = b /\ cutDepth' = Level' - 1
      BY <2>7, <2>9
    <3>2. \A x : IsDone(x)' => \E j \in 1..Len(fs) : Covers(h, fs[j], x)
      BY <1>2, <2>5, <2>9
    <3>3. /\ Level' = 1 => \A m \in s..(n + 1) : Opens(h[m]) = 0
          /\ IF InFunction' THEN Leads(h, s, OpenItem'.lines[1]) ELSE h[s].kind = "declaration"
      BY <2>5, <2>9
    <3> QED BY <1>0, <1>1, <1>2, <1>3, <2>0, <2>3, <2>4, <3>1, <3>2, <3>3 DEF CoverInv
  <2> QED BY <2>8, <2>9
<1> QED BY <1>4, <1>5

-----------------------------------------------------------------------------
(* ReinitializableInitDetector and the guards of a function *)

\* Function x is lines a to e, and its body opens on line b.
LaidOut(x, a, b, e) ==
  /\ x.lines[1] = a /\ x.lines[Len(x.lines)] = e
  /\ a \in Nat /\ b \in Nat /\ e \in Nat /\ 1 <= a /\ a <= b /\ b <= e /\ e <= Len(file)
  /\ ItemRun(file, x, e) /\ BodyOpens(file, a, b)
  /\ Depth(file, a - 1) = 1 /\ Depth(file, e) = 1
  /\ \A m \in a..(e - 1) : Depth(file, m) \in Nat /\ (m >= b => Depth(file, m) >= 2)
  /\ e = b \/ file[e].kind = "close"

\* A function with a body has a first line, a line with its brace and a last line.
LEMMA Layout ==
  ASSUME Grammar, DepthInv, PlaceInv, ItemInv, NEW x, IsDone(x)
  PROVE  \E a, b, e : LaidOut(x, a, b, e)
<1>1. PICK a, e, n : a = x.lines[1] /\ e = x.lines[Len(x.lines)] /\ n = Len(file)
  OBVIOUS
<1>2. n \in Nat
  BY <1>1, LenProperties DEF Grammar, Typed
<1>3. WholeRun(file, x, e)
  BY <1>1 DEF ItemInv
<1>4. /\ e \in 1..n /\ ItemRun(file, x, e) /\ Depth(file, e) = 1
      /\ a \in 1..e /\ file[a].kind \in {"function", "oneLiner", "signature"}
  BY <1>1, <1>3 DEF WholeRun, ItemRun
<1>5. PICK b \in a..e :
        /\ BodyOpens(file, a, b) /\ (\A m \in b..(e - 1) : Depth(file, m) >= 2)
        /\ e = b \/ file[e].kind = "close"
  BY <1>1, <1>3 DEF WholeRun
<1>6. Depth(file, a - 1) = 1
  <2>1. a \in 1..Len(file) /\ file[a].kind \in FunctionLines
    BY <1>1, <1>2, <1>4 DEF FunctionLines
  <2> QED BY <2>1 DEF PlaceInv
<1>7. \A m \in a..(e - 1) : Depth(file, m) \in Nat /\ (m >= b => Depth(file, m) >= 2)
  <2> TAKE m \in a..(e - 1)
  <2>1. m \in 0..Len(file)
    BY <1>1, <1>2, <1>4
  <2>2. Depth(file, m) \in Nat
    BY <2>1 DEF DepthInv
  <2>3. m >= b => m \in b..(e - 1)
    BY <1>2, <1>4, <1>5
  <2> QED BY <1>5, <2>2, <2>3
<1>8. a \in Nat /\ b \in Nat /\ e \in Nat /\ 1 <= a /\ a <= b /\ b <= e /\ e <= n
  BY <1>2, <1>4, <1>5
<1> QED BY <1>1, <1>4, <1>5, <1>6, <1>7, <1>8 DEF LaidOut

\* The line of its first "{"
LEMMA BraceIs ==
  ASSUME NEW x, NEW a, NEW b, NEW e, LaidOut(x, a, b, e)
  PROVE  Brace(x) = b
<1>1. /\ a \in Nat /\ b \in Nat /\ e \in Nat /\ 1 <= a /\ a <= b /\ b <= e
      /\ Members(x.lines) = {m \in a..e : file[m].kind # "comment"}
      /\ Opens(file[b]) = 1 /\ \A m \in a..(b - 1) : Opens(file[m]) = 0
  BY DEF LaidOut, ItemRun, BodyOpens
<1>2. file[b].kind # "comment"
  BY <1>1, BracesOf
<1> DEFINE S == {n \in Members(x.lines) : Opens(file[n]) = 1}
<1>3. S \subseteq Nat /\ b \in S
  BY <1>1, <1>2
<1>4. \A y \in S : b <= y
  <2> SUFFICES ASSUME NEW y \in S, ~(b <= y) PROVE FALSE
    OBVIOUS
  <2>1. y \in a..(b - 1)
    BY <1>1
  <2> QED BY <1>1, <2>1
<1>5. First(S) = b
  <2> HIDE DEF S
  <2> QED BY <1>3, <1>4, FirstIs
<1> QED BY <1>5 DEF Brace

\* functionBodyForPathTracking on all of its lines, ls: those between the braces, or all
\* of them if there are none.
BodySeen(ls, a, b, e) ==
  /\ First({i \in 1..Len(ls) : Opens(ls[i]) = 1}) = b - a + 1
  /\ e = b => Len(Stripped(ls)) = 1 /\ Stripped(ls)[1] = Plain("other")
  /\ e = b + 1 => Stripped(ls) = ls
  /\ e > b + 1 => /\ Len(Stripped(ls)) = e - b - 1
                  /\ \A i \in 1..(e - b - 1) : Stripped(ls)[i] = file[b + i]

\* What the detectors see of the body of a function so laid out.
LEMMA BodyIs ==
  ASSUME NEW x, NEW a, NEW b, NEW e, LaidOut(x, a, b, e)
  PROVE  BodySeen(LinesOf(FromTo(a, e)), a, b, e)
<1>0. PICK ls : ls = LinesOf(FromTo(a, e))
  OBVIOUS
<1>1. /\ a \in Nat /\ b \in Nat /\ e \in Nat /\ a >= 1 /\ a <= b /\ b <= e /\ a <= e
      /\ Opens(file[b]) = 1 /\ (\A m \in a..(b - 1) : Opens(file[m]) = 0)
      /\ Depth(file, a - 1) = 1 /\ Depth(file, e) = 1
      /\ (\A m \in a..(e - 1) : Depth(file, m) \in Nat /\ (m >= b => Depth(file, m) >= 2))
      /\ e = b \/ file[e].kind = "close"
  BY DEF LaidOut, BodyOpens
<1>2. PICK n, k : n = e - a + 1 /\ k = b - a + 1
  OBVIOUS
<1>3. /\ Len(ls) = n /\ (\A i \in 1..n : ls[i] = file[a + i - 1])
      /\ \A i \in 0..n : Depth(ls, i) = Depth(file, a + i - 1) - Depth(file, a - 1)
  <2>1. /\ Len(ls) = e - a + 1 /\ (\A i \in 1..(e - a + 1) : ls[i] = file[a + i - 1])
        /\ \A i \in 0..(e - a + 1) : Depth(ls, i) = Depth(file, a + i - 1) - Depth(file, a - 1)
    BY <1>0, <1>1, PartOf
  <2> QED BY <1>2, <2>1
<1>4. n \in Nat /\ k \in Nat /\ 1 <= k /\ k <= n /\ a + k - 1 = b /\ a + n - 1 = e /\ (k = n <=> e = b)
  BY <1>1, <1>2
<1>a. ls[k] = file[b] /\ ls[n] = file[e]
  <2>1. k \in 1..n /\ n \in 1..n
    BY <1>4
  <2>2. ls[k] = file[a + k - 1] /\ ls[n] = file[a + n - 1]
    BY <1>3, <2>1
  <2> QED BY <1>4, <2>2
<1>5. Opens(ls[k]) = 1 /\ \A i \in 1..(k - 1) : Opens(ls[i]) = 0
  <2>1. \A i \in 1..(k - 1) : i \in 1..n /\ a + i - 1 \in a..(b - 1)
    BY <1>1, <1>2, <1>4
  <2> QED BY <1>1, <1>3, <1>a, <2>1
<1>6. \A i \in k..n : Depth(ls, i) <= 0 <=> i = n
  <2> SUFFICES ASSUME NEW i \in k..n PROVE Depth(ls, i) <= 0 <=> i = n
    OBVIOUS
  <2>1. Depth(ls, i) = Depth(file, a + i - 1) - 1
    BY <1>1, <1>3, <1>4
  <2>2. CASE i = n
    BY <1>1, <1>4, <2>1, <2>2
  <2>3. CASE i # n
    <3>1. a + i - 1 \in a..(e - 1) /\ a + i - 1 >= b
      BY <1>1, <1>2, <1>4, <2>3
    <3>2. Depth(file, a + i - 1) \in Nat /\ Depth(file, a + i - 1) >= 2
      BY <1>1, <3>1
    <3> QED BY <2>1, <2>3, <3>2
  <2> QED BY <2>2, <2>3
<1> DEFINE opening  == {i \in 1..Len(ls) : Opens(ls[i]) = 1}
           first    == CHOOSE i \in opening : \A j \in opening : i <= j
           closings == {i \in first..Len(ls) : Depth(ls, i) <= 0}
           last     == IF closings = {} THEN Len(ls)
                       ELSE CHOOSE i \in closings : \A j \in closings : i <= j
           body     == IF last = first THEN <<Plain("other")>>
                       ELSE SubSeq(ls, first + 1, IF closings # {} /\ ls[last].kind = "close"
                                                  THEN last - 1 ELSE last)
<1>7. opening \subseteq Nat /\ k \in opening /\ \A i \in opening : k <= i
  <2>1. \A i \in opening : k <= i
    <3> SUFFICES ASSUME NEW i \in opening, ~(k <= i) PROVE FALSE
      OBVIOUS
    <3>1. i \in 1..(k - 1)
      BY <1>3, <1>4
    <3> QED BY <1>5, <3>1
  <2> QED BY <1>3, <1>4, <1>5, <2>1
<1>8. First(opening) = k /\ first = k
  <2>1. First(opening) = k
    <3> HIDE DEF opening
    <3> QED BY <1>7, FirstIs
  <2> QED BY <2>1 DEF First
<1>9. closings = {n}
  <2>1. closings = {i \in k..n : Depth(ls, i) <= 0}
    BY <1>3, <1>8
  <2>2. n \in k..n
    BY <1>4
  <2> HIDE DEF closings
  <2> QED BY <1>6, <2>1, <2>2
<1>10. last = n
  <2> HIDE DEF closings
  <2>1. closings # {} /\ \E i \in closings : \A j \in closings : i <= j
    BY <1>4, <1>9
  <2> QED BY <1>9, <2>1
<1>11. body = IF k = n THEN <<Plain("other")>> ELSE SubSeq(ls, k + 1, n - 1)
  <2>1. k # n => ls[n].kind = "close"
    BY <1>1, <1>4, <1>a
  <2> HIDE DEF closings, last, first
  <2> QED BY <1>8, <1>9, <1>10, <2>1
<1>b. First({i \in 1..Len(ls) : Opens(ls[i]) = 1}) = b - a + 1
  BY <1>2, <1>8
<1>12. Stripped(ls) = IF opening = {} \/ body = <<>> THEN ls ELSE body
  BY DEF Stripped
<1> HIDE DEF opening, first, closings, last, body
<1>13. opening # {}
  BY <1>7
<1>14. k + 1 = b - a + 2 /\ n - 1 = e - a /\ (n = k + 1 <=> e = b + 1) /\ (n > k + 1 <=> e > b + 1) /\ n - k = e - b
  BY <1>1, <1>2
<1>15. ASSUME e = b PROVE BodySeen(ls, a, b, e)
  <2>1. body = <<Plain("other")>> /\ <<Plain("other")>> # <<>>
    BY <1>4, <1>11, <1>15
  <2>2. Stripped(ls) = <<Plain("other")>>
    BY <1>12, <1>13, <2>1
  <2>3. Len(Stripped(ls)) = 1 /\ Stripped(ls)[1] = Plain("other")
    BY <2>2
  <2>4. e # b + 1 /\ ~(e > b + 1)
    BY <1>1, <1>15
  <2> QED BY <1>b, <2>3, <2>4 DEF BodySeen
<1>16. ASSUME e = b + 1 PROVE BodySeen(ls, a, b, e)
  <2>1. k + 1 \in Int /\ n - 1 \in Int /\ n - 1 < k + 1 /\ k # n
    BY <1>1, <1>4, <1>14, <1>16
  <2>2. body = <<>>
    BY <1>11, <2>1, SubSeqEmpty
  <2>3. Stripped(ls) = ls
    BY <1>12, <2>2
  <2>4. e # b /\ ~(e > b + 1)
    BY <1>1, <1>16
  <2> QED BY <1>b, <2>3, <2>4 DEF BodySeen
<1>17. ASSUME e > b + 1 PROVE BodySeen(ls, a, b, e)
  <2>1. PICK s, p, q : s = SubSeq(ls, k + 1, n - 1) /\ p = k + 1 /\ q = n - 1
    OBVIOUS
  <2>2. p \in Int /\ q \in Int /\ p <= q /\ q - p + 1 = e - b - 1 /\ e - b - 1 \in Nat /\ e - b - 1 >= 1 /\ n # k
    <3>1. p \in Int /\ q \in Int /\ p <= q
      BY <1>4, <1>14, <1>17, <2>1
    <3>2. q - p + 1 = n - k - 1
      BY <1>4, <2>1
    <3>3. e - b - 1 \in Nat /\ e - b - 1 >= 1
      BY <1>1, <1>17
    <3> QED BY <1>4, <1>14, <1>17, <3>1, <3>2, <3>3
  <2>3. Len(s) = q - p + 1 /\ \A i \in 1..(q - p + 1) : s[i] = ls[p + i - 1]
    <3> DEFINE S == {ls[i] : i \in p..q}
    <3>1. \A i \in p..q : ls[i] \in S
      OBVIOUS
    <3> HIDE DEF S
    <3>2. /\ Len(SubSeq(ls, p, q)) = IF p <= q THEN q - p + 1 ELSE 0
          /\ \A i \in 1 .. q - p + 1 : SubSeq(ls, p, q)[i] = ls[p + i - 1]
      BY <2>2, <3>1, SubSeqProperties
    <3> QED BY <2>1, <2>2, <3>2
  <2>4. \A i \in 1..(e - b - 1) : s[i] = file[b + i]
    <3> TAKE i \in 1..(e - b - 1)
    <3>1. s[i] = ls[p + i - 1] /\ p + i - 1 \in 1..n /\ a + (p + i - 1) - 1 = b + i
      BY <1>1, <1>2, <1>4, <2>1, <2>2, <2>3
    <3> QED BY <1>3, <3>1
  <2>5. s # <<>>
    BY <2>2, <2>3, EmptySeq
  <2>6. Stripped(ls) = s
    BY <1>11, <1>12, <1>13, <2>1, <2>2, <2>5
  <2>7. e # b /\ e # b + 1
    BY <1>1, <1>17
  <2>8. Len(Stripped(ls)) = e - b - 1 /\ \A i \in 1..(e - b - 1) : Stripped(ls)[i] = file[b + i]
    BY <2>2, <2>3, <2>4, <2>6
  <2> QED BY <1>b, <2>7, <2>8 DEF BodySeen
<1>18. e = b \/ e = b + 1 \/ e > b + 1
  BY <1>1
<1>19. BodySeen(ls, a, b, e)
  BY <1>15, <1>16, <1>17, <1>18
<1> QED BY <1>0, <1>19

\* A write or a call of the outermost block between the "{" on line b and line g
PastAt(b, g) == \E w \in (b + 1)..(g - 1) : IsStateWriteOrCall(file[w]) /\ Depth(file, w) = Depth(file, b)

\* TooFar counts the braces from the "{" on.
LEMMA PastAtIs ==
  ASSUME NEW b \in Nat, NEW g \in Nat, \A m \in b..g : Depth(file, m) \in Int
  PROVE  PastAt(b, g) <=> \E w \in (b + 1)..(g - 1) :
           /\ IsStateWriteOrCall(file[w])
           /\ Depth(LinesOf(FromTo(b + 1, w)), w - b) = 0
<1> SUFFICES ASSUME NEW w \in (b + 1)..(g - 1)
             PROVE  Depth(file, w) = Depth(file, b) <=> Depth(LinesOf(FromTo(b + 1, w)), w - b) = 0
  BY DEF PastAt
<1>1. PICK c, d : c = b + 1 /\ d = w - b
  OBVIOUS
<1>2. c \in Nat /\ w \in Nat /\ c >= 1 /\ c <= w /\ d \in 0..(w - c + 1) /\ c + d - 1 = w /\ c - 1 = b /\ w \in b..g /\ b \in b..g
  BY <1>1
<1>3. Depth(LinesOf(FromTo(c, w)), d) = Depth(file, c + d - 1) - Depth(file, c - 1)
  BY <1>2, PartOf
<1> QED BY <1>1, <1>2, <1>3

\* What the guard zone is searched for
LEMMA MatchIs ==
  \A l : /\ MatchGuard(l) = "initialized" <=> l.kind = "initCheck"
         /\ MatchGuard(l) = "reentrancy" <=> l.kind = "check"
BY DEF MatchGuard, NoName

\* The guard zone of a function: what it finds is a check of the flag, or of the lock.
LEMMA EarlyIs ==
  ASSUME NEW x, NEW a, NEW b, NEW e, LaidOut(x, a, b, e),
         NEW guard, NEW kind, kind \in {"check", "initCheck"}, \A l : MatchGuard(l) = guard <=> l.kind = kind
  PROVE  EarlyGuards(Stripped(LinesOf(FromTo(a, e))), guard) # {}
           <=> \E g \in (b + 1)..(e - 1) : /\ file[g].kind = kind /\ g <= b + GuardScanDepth
                                           /\ ~PastAt(b, g)
<1>0. PICK ls : ls = LinesOf(FromTo(a, e))
  OBVIOUS
<1>1. /\ a \in Nat /\ b \in Nat /\ e \in Nat /\ a >= 1 /\ a <= b /\ b <= e /\ a <= e
      /\ file[a].kind \in {"function", "oneLiner", "signature"}
      /\ \A m \in (a + 1)..b : file[m].kind \in {"attributes", "comment", "brace"}
      /\ e = b \/ file[e].kind = "close"
  BY DEF LaidOut, BodyOpens, ItemRun
<1>2. /\ \A l : MatchGuard(l) = guard <=> l.kind = kind
      /\ kind \notin {"function", "oneLiner", "signature", "attributes", "comment", "brace", "close", "other"}
  OBVIOUS
<1>3. \A s : EarlyGuards(s, guard) # {}
             <=> \E i \in 1..Len(s) : i <= GuardScanDepth /\ s[i].kind = kind /\ ~PastGuards(s, i)
  BY <1>2 DEF EarlyGuards
<1>b. /\ e = b => Len(Stripped(ls)) = 1 /\ Stripped(ls)[1] = Plain("other")
      /\ e = b + 1 => Stripped(ls) = ls
      /\ e > b + 1 => /\ Len(Stripped(ls)) = e - b - 1
                      /\ \A i \in 1..(e - b - 1) : Stripped(ls)[i] = file[b + i]
  <2>1. BodySeen(ls, a, b, e)
    BY <1>0, BodyIs
  <2> QED BY <2>1 DEF BodySeen
<1>4. CASE e = b
  <2>1. Len(Stripped(ls)) = 1 /\ Stripped(ls)[1].kind = "other"
    BY <1>b, <1>4 DEF Plain
  <2>3. ~\E i \in 1..Len(Stripped(ls)) : Stripped(ls)[i].kind = kind
    BY <1>2, <2>1
  <2>4. (b + 1)..(e - 1) = {}
    BY <1>1, <1>4
  <2> QED BY <1>0, <1>3, <2>3, <2>4
<1>5. CASE e = b + 1
  <2>1. Stripped(ls) = ls
    BY <1>b, <1>1, <1>5
  <2>2. Len(ls) = e - a + 1 /\ \A i \in 1..(e - a + 1) : ls[i] = file[a + i - 1]
    BY <1>0, <1>1, PartOf
  <2>3. ~\E i \in 1..Len(ls) : ls[i].kind = kind
    <3> SUFFICES ASSUME NEW i \in 1..(e - a + 1), file[a + i - 1].kind = kind PROVE FALSE
      BY <2>2
    <3>1. a + i - 1 = a \/ a + i - 1 \in (a + 1)..b \/ a + i - 1 = e
      BY <1>1, <1>5
    <3>2. file[e].kind = "close"
      BY <1>1, <1>5
    <3> QED BY <1>1, <1>2, <3>1, <3>2
  <2>4. (b + 1)..(e - 1) = {}
    BY <1>1, <1>5
  <2> QED BY <1>0, <1>3, <2>1, <2>3, <2>4
<1>6. CASE e > b + 1
  <2>1. PICK s, k : s = Stripped(ls) /\ k = e - b - 1
    OBVIOUS
  <2>2. Stripped(ls) = s /\ Len(s) = k /\ (\A i \in 1..k : s[i] = file[b + i]) /\ k \in Nat
    <3>1. k \in Nat
      BY <1>1, <1>6, <2>1
    <3> QED BY <1>6, <1>b, <2>1, <3>1
  <2>3. \A i \in 0..k : Depth(s, i) = Depth(file, b + i) - Depth(file, b)
    <3>1. CountsPart(s, file, b, k)
      BY <1>1, <2>2, DepthWithin DEF IsPart
    <3> QED BY <3>1 DEF CountsPart
  <2>4. \A m \in Nat : Depth(file, m) \in Int
    BY DepthNext
  <2>5. \A l : l.kind = kind => ~IsStateWriteOrCall(l)
    BY DEF IsStateWriteOrCall, Calls
  <2>6. ASSUME NEW i \in 1..k, file[b + i].kind = kind
        PROVE  PastGuards(s, i) <=> PastAt(b, b + i)
    <3>1. ASSUME NEW j \in 1..i, Depth(s, j) = 0, IsStateWriteOrCall(s[j]) PROVE PastAt(b, b + i)
      <4>1. j \in 1..k /\ j \in 0..k /\ s[j] = file[b + j] /\ b + j \in Nat
        BY <1>1, <2>2, <3>1
      <4>2. Depth(file, b + j) = Depth(file, b)
        BY <1>1, <2>3, <2>4, <3>1, <4>1
      <4>3. j # i
        BY <2>5, <2>6, <3>1, <4>1
      <4>4. b + j \in (b + 1)..((b + i) - 1)
        BY <1>1, <4>3
      <4> QED BY <3>1, <4>1, <4>2, <4>4 DEF PastAt
    <3>2. ASSUME NEW w \in (b + 1)..((b + i) - 1), IsStateWriteOrCall(file[w]), Depth(file, w) = Depth(file, b)
          PROVE  PastGuards(s, i)
      <4>1. PICK j : j = w - b
        OBVIOUS
      <4>2. j \in 1..i /\ j \in 1..k /\ j \in 0..k /\ b + j = w
        BY <1>1, <2>2, <4>1
      <4>3. s[j] = file[w] /\ Depth(s, j) = 0
        <5>1. s[j] = file[b + j] /\ Depth(s, j) = Depth(file, b + j) - Depth(file, b)
          BY <2>2, <2>3, <4>2
        <5>2. Depth(file, b) \in Int
          BY <1>1, <2>4
        <5> QED BY <3>2, <4>2, <5>1, <5>2
      <4> QED BY <3>2, <4>2, <4>3 DEF PastGuards
    <3> QED BY <3>1, <3>2 DEF PastGuards, PastAt
  <2>7. GuardScanDepth \in Nat
    BY ScanDepthAssumption
  <2>8. ASSUME NEW i \in 1..k, i <= GuardScanDepth, s[i].kind = kind, ~PastGuards(s, i)
        PROVE  \E g \in (b + 1)..(e - 1) : file[g].kind = kind /\ g <= b + GuardScanDepth /\ ~PastAt(b, g)
    <3>1. b + i \in (b + 1)..(e - 1) /\ b + i <= b + GuardScanDepth
      BY <1>1, <2>1, <2>7, <2>8
    <3> QED BY <2>2, <2>6, <2>8, <3>1
  <2>9. ASSUME NEW g \in (b + 1)..(e - 1), file[g].kind = kind, g <= b + GuardScanDepth, ~PastAt(b, g)
        PROVE  \E i \in 1..k : i <= GuardScanDepth /\ s[i].kind = kind /\ ~PastGuards(s, i)
    <3>1. PICK i : i = g - b
      OBVIOUS
    <3>2. i \in 1..k /\ i <= GuardScanDepth /\ b + i = g
      BY <1>1, <2>1, <2>7, <2>9, <3>1
    <3> QED BY <2>2, <2>6, <2>9, <3>2
  <2> QED BY <1>0, <1>3, <2>2, <2>8, <2>9
<1>7. e = b \/ e = b + 1 \/ e > b + 1
  BY <1>1
<1> QED BY <1>4, <1>5, <1>6, <1>7

\* isProtected sees a guard of the function that is not too far down, and only such.
LEMMA ProtectedIs ==
  ASSUME Typed, NEW x, NEW a, NEW b, NEW e, LaidOut(x, a, b, e)
  PROVE  IsProtected(LinesOf(FromTo(a, e))) <=> \E g \in GuardLines(x) : ~TooFar(x, g)
<1>0. PICK ls, n : ls = LinesOf(FromTo(a, e)) /\ n = e - a + 1
  OBVIOUS
<1>1. /\ a \in Nat /\ b \in Nat /\ e \in Nat /\ a >= 1 /\ a <= b /\ b <= e /\ a <= e /\ e <= Len(file)
      /\ file[a].kind \in {"function", "oneLiner", "signature"}
      /\ \A m \in (a + 1)..b : file[m].kind \in {"attributes", "comment", "brace"}
      /\ e = b \/ file[e].kind = "close"
      /\ Members(x.lines) = {m \in a..e : file[m].kind # "comment"}
  BY DEF LaidOut, BodyOpens, ItemRun
<1>2. Len(ls) = n /\ (\A i \in 1..n : ls[i] = file[a + i - 1]) /\ n \in Nat
  <2>1. a \in Nat /\ e \in Nat /\ a >= 1 /\ a <= e
    BY <1>1
  <2>2. Len(ls) = e - a + 1 /\ \A i \in 1..(e - a + 1) : ls[i] = file[a + i - 1]
    BY <1>0, <2>1, PartOf
  <2> QED BY <1>0, <2>1, <2>2
<1>3. First({i \in 1..Len(ls) : Opens(ls[i]) = 1}) = b - a + 1
  <2>1. BodySeen(ls, a, b, e)
    BY <1>0, BodyIs
  <2> QED BY <2>1 DEF BodySeen
<1>4. Brace(x) = b
  BY BraceIs
<1>5. InitWindow \in Nat
  BY InitWindowAssumption
<1>6. \A g \in a..e : SafeGuard(file[g]) => file[g].kind # "comment"
  <2> SUFFICES ASSUME NEW g \in a..e, file[g].kind = "comment" PROVE ~SafeGuard(file[g])
    OBVIOUS
  <2>1. Len(file) \in Nat /\ file \in [1..Len(file) -> LineChoices(style)] /\ style \in Styles
    BY LenProperties DEF Typed
  <2>2. g \in 1..Len(file)
    BY <1>1, <2>1
  <2>3. file[g] \in LineChoices(style)
    BY <2>1, <2>2
  <2>4. file[g].marks = {}
    <3> PICK l : l = file[g]
      OBVIOUS
    <3>1. l \in LineChoices(style) /\ l.kind = "comment"
      BY <2>3
    <3> QED BY <2>1, <3>1, LineSays
  <2> QED BY <2>4 DEF SafeGuard
<1>7. GuardLines(x) = {g \in a..e : SafeGuard(file[g])}
  BY <1>1, <1>6 DEF GuardLines
<1>8. IsProtected(ls) <=> \/ \E g \in a..e : g <= b + InitWindow /\ SafeGuard(file[g])
                          \/ \E g \in (b + 1)..(e - 1) :
                               file[g].kind = "initCheck" /\ g <= b + GuardScanDepth /\ ~PastAt(b, g)
  <2>1. IsProtected(ls) <=> \/ \E i \in 1..Len(ls) : i <= (b - a + 1) + InitWindow /\ SafeGuard(ls[i])
                            \/ EarlyGuards(Stripped(ls), "initialized") # {}
    BY <1>3 DEF IsProtected
  <2>2. (\E i \in 1..Len(ls) : i <= (b - a + 1) + InitWindow /\ SafeGuard(ls[i]))
          <=> \E g \in a..e : g <= b + InitWindow /\ SafeGuard(file[g])
    <3>1. ASSUME NEW i \in 1..n, i <= (b - a + 1) + InitWindow, SafeGuard(ls[i])
          PROVE  \E g \in a..e : g <= b + InitWindow /\ SafeGuard(file[g])
      <4>1. a + i - 1 \in a..e /\ a + i - 1 <= b + InitWindow
        <5>1. i \in Nat /\ i >= 1 /\ i <= e - a + 1 /\ i <= (b - a + 1) + InitWindow
          BY <1>0, <1>2, <3>1
        <5>2. a \in Nat /\ b \in Nat /\ e \in Nat
          BY <1>1
        <5> QED BY <1>5, <5>1, <5>2
      <4> QED BY <1>2, <3>1, <4>1
    <3>2. ASSUME NEW g \in a..e, g <= b + InitWindow, SafeGuard(file[g])
          PROVE  \E i \in 1..n : i <= (b - a + 1) + InitWindow /\ SafeGuard(ls[i])
      <4>1. PICK i : i = g - a + 1
        OBVIOUS
      <4>2. i \in 1..n /\ i <= (b - a + 1) + InitWindow /\ a + i - 1 = g
        BY <1>0, <1>1, <1>5, <3>2, <4>1
      <4> QED BY <1>2, <3>2, <4>2
    <3> QED BY <1>2, <3>1, <3>2
  <2>3. EarlyGuards(Stripped(ls), "initialized") # {}
          <=> \E g \in (b + 1)..(e - 1) : file[g].kind = "initCheck" /\ g <= b + GuardScanDepth /\ ~PastAt(b, g)
    <3>1. \A l : MatchGuard(l) = "initialized" <=> l.kind = "initCheck"
      BY MatchIs
    <3> QED BY <1>0, <3>1, EarlyIs
  <2> QED BY <2>1, <2>2, <2>3
<1>9. ASSUME NEW g \in a..e
      PROVE  ~TooFar(x, g) <=> \/ g <= b + InitWindow
                               \/ file[g].kind = "initCheck" /\ g <= b + GuardScanDepth /\ ~PastAt(b, g)
  <2>1. \A m \in b..g : Depth(file, m) \in Int
    <3> TAKE m \in b..g
    <3>1. m \in Nat
      BY <1>1
    <3> QED BY <3>1, DepthNext
  <2>2. g \in Nat
    BY <1>1
  <2>3. PastAt(b, g) <=> \E w \in (b + 1)..(g - 1) :
           /\ IsStateWriteOrCall(file[w])
           /\ Depth(LinesOf(FromTo(b + 1, w)), w - b) = 0
    BY <1>1, <2>1, <2>2, PastAtIs
  <2>4. TooFar(x, g) <=> /\ g > b + InitWindow
                         /\ file[g].kind # "initCheck" \/ g > b + GuardScanDepth \/ PastAt(b, g)
    BY <1>4, <2>3 DEF TooFar
  <2> QED BY <1>1, <1>5, <2>2, <2>4, ScanDepthAssumption
<1>10. \A g \in a..e : file[g].kind = "initCheck" => g \in (b + 1)..(e - 1) /\ SafeGuard(file[g])
  <2> SUFFICES ASSUME NEW g \in a..e, file[g].kind = "initCheck" PROVE g \in (b + 1)..(e - 1) /\ SafeGuard(file[g])
    OBVIOUS
  <2>1. SafeGuard(file[g])
    BY DEF SafeGuard
  <2>2. g # a /\ ~(g \in (a + 1)..b) /\ (g = e => e = b)
    BY <1>1
  <2>3. g \in (b + 1)..(e - 1)
    BY <1>1, <2>2
  <2> QED BY <2>1, <2>3
<1>11. \A g \in (b + 1)..(e - 1) : g \in a..e
  BY <1>1
<1> QED BY <1>0, <1>7, <1>8, <1>9, <1>10, <1>11

\* Between contracts the functions are those that are complete.
LEMMA DoneFunctions ==
  ASSUME scopes = <<>>
  PROVE  ~InUnit /\ \A x : x \in Functions(source) <=> IsDone(x)
<1>1. ~InUnit
  BY EmptySeq DEF InUnit, Second, NoName
<1>2. \A x : x \in Functions(source)
              <=> \E k \in 1..Len(source) : \E j \in 1..Len(source[k].items) :
                    x = source[k].items[j] /\ source[k].items[j].kind = "function"
  BY DEF Functions
<1> QED BY <1>1, <1>2 DEF IsDone, IsDoneIn

\* Blocks do not meet.
LEMMA BlocksApart ==
  ASSUME CoverInv, Len(file) \in Nat,
         NEW i \in 1..Len(functions), NEW j \in 1..Len(functions),
         FirstLine(functions[i]) <= LastLine(functions[j]), FirstLine(functions[j]) <= LastLine(functions[i])
  PROVE  i = j
<1>1. \A k \in 1..Len(functions) : LastLine(functions[k]) \in Nat /\ FirstLine(functions[k]) \in Nat
  <2> SUFFICES ASSUME NEW k \in 1..Len(functions)
               PROVE  LastLine(functions[k]) \in Nat /\ FirstLine(functions[k]) \in Nat
    OBVIOUS
  <2>1. PICK c, n : c = functions[k] /\ n = LastLine(c)
    OBVIOUS
  <2>2. n \in 1..Len(file) /\ SpanOf(file, c, n)
    BY <2>1 DEF CoverInv
  <2>3. FirstLine(c) \in 1..n
    BY <2>2 DEF SpanOf
  <2> QED BY <2>1, <2>2, <2>3
<1>2. ~(LastLine(functions[i]) < FirstLine(functions[j])) /\ ~(LastLine(functions[j]) < FirstLine(functions[i]))
  BY <1>1
<1>3. ~(i < j) /\ ~(j < i)
  BY <1>2 DEF CoverInv
<1>4. Len(functions) \in Nat
  BY LenProperties DEF CoverInv
<1> QED BY <1>3, <1>4

\* Block j is lines s to e.
IsBlock(j, s, e) ==
  /\ j \in 1..Len(functions)
  /\ functions[j].lines = FromTo(s, e) /\ functions[j].name = file[s].name
  /\ FirstLine(functions[j]) = s /\ LastLine(functions[j]) = e
  /\ s \in Nat /\ 1 <= s

\* The block of a function begins at it, or at one without a body above it.
LEMMA CoveringBlock ==
  ASSUME Grammar, CoverInv, NEW x, IsDone(x), NEW a, NEW b, NEW e, LaidOut(x, a, b, e)
  PROVE  \E j, s : IsBlock(j, s, e) /\ Leads(file, s, a)
<1>1. PICK j \in 1..Len(functions) : Covers(file, functions[j], x)
  BY DEF CoverInv
<1>2. PICK c, s, k : c = functions[j] /\ s = FirstLine(c) /\ k = LastLine(c)
  OBVIOUS
<1>3. k \in 1..Len(file) /\ SpanOf(file, c, k)
  BY <1>2 DEF CoverInv
<1>4. x.lines[1] = a /\ x.lines[Len(x.lines)] = e
  BY DEF LaidOut
<1>5. k = e /\ Leads(file, s, a)
  BY <1>1, <1>2, <1>4 DEF Covers
<1>6. s \in 1..e /\ c.lines = FromTo(s, e) /\ c.name = file[s].name
  BY <1>2, <1>3, <1>5 DEF SpanOf
<1>7. IsBlock(j, s, e)
  BY <1>2, <1>5, <1>6 DEF IsBlock
<1> QED BY <1>5, <1>7

-----------------------------------------------------------------------------
(* InitializersForAReason *)

\* The block of an initialize that begins at its head is its own, and isProtected of its
\* lines decides.
LEMMA InitializerFound ==
  ASSUME Grammar, DepthInv, CoverInv, NEW x, IsDone(x), x.name = "initialize",
         NEW a, NEW b, NEW e, LaidOut(x, a, b, e), ~Before(a, {"declaration"})
  PROVE  Finds("reinitializable-init", a) <=> /\ file[a].visibility # "internal"
                                              /\ ~IsProtected(LinesOf(FromTo(a, e)))
<1>1. PICK j, s : IsBlock(j, s, e) /\ Leads(file, s, a)
  BY CoveringBlock
<1>2. Len(file) \in Nat /\ a \in Nat /\ e \in Nat /\ 1 <= a /\ a <= e /\ x.name = file[a].name
  <2>1. Len(file) \in Nat
    BY LenProperties DEF Grammar, Typed
  <2>2. a \in Nat /\ b \in Nat /\ e \in Nat /\ 1 <= a /\ a <= b /\ b <= e /\ x.name = file[a].name
    BY DEF LaidOut, ItemRun
  <2> QED BY <2>1, <2>2
<1>3. s = a
  <2> SUFFICES ASSUME s # a PROVE FALSE
    OBVIOUS
  <2>1. s \in 1..a /\ file[s].kind = "declaration"
    BY <1>1 DEF Leads
  <2>2. s \in 1..(a - 1)
    BY <1>2, <2>1
  <2> QED BY <2>1, <2>2 DEF Before
<1>4. /\ j \in 1..Len(functions) /\ functions[j].lines = FromTo(a, e) /\ functions[j].name = "initialize"
      /\ functions[j].lines[1] = a /\ LastLine(functions[j]) = e /\ FirstLine(functions[j]) = a
  BY <1>1, <1>2, <1>3 DEF IsBlock, FirstLine
<1>5. \A i \in 1..Len(functions) : functions[i].lines[1] = a => i = j
  <2> SUFFICES ASSUME NEW i \in 1..Len(functions), functions[i].lines[1] = a PROVE i = j
    OBVIOUS
  <2>1. PICK c, n : c = functions[i] /\ n = LastLine(c)
    OBVIOUS
  <2>2. n \in 1..Len(file) /\ SpanOf(file, c, n) /\ FirstLine(c) = a
    BY <2>1 DEF CoverInv, FirstLine
  <2>3. a <= n
    BY <1>2, <2>2 DEF SpanOf
  <2>4. FirstLine(functions[i]) <= LastLine(functions[j]) /\ FirstLine(functions[j]) <= LastLine(functions[i])
    BY <1>2, <1>4, <2>1, <2>2, <2>3
  <2> QED BY <1>2, <1>4, <2>4, BlocksApart
<1> QED BY <1>4, <1>5, FoundAre

\* With Finds for Found, between contracts
LEMMA InitializersFound ==
  ASSUME Grammar, DepthInv, PlaceInv, ItemInv, CoverInv, scopes = <<>>,
         NEW f \in Functions(source), f.name = "initialize", ~Before(f.lines[1], {"declaration"})
  PROVE  IF SaysInternal(f)
         THEN Finds("reinitializable-init", f.lines[1]) => file[f.lines[1]].kind = "signature"
         ELSE Finds("reinitializable-init", f.lines[1]) <=> \A g \in GuardLines(f) : TooFar(f, g)
<1>1. IsDone(f)
  BY DoneFunctions
<1>2. PICK a, b, e : LaidOut(f, a, b, e)
  BY <1>1, Layout
<1>3. /\ f.lines[1] = a /\ a \in Nat /\ b \in Nat /\ e \in Nat /\ 1 <= a /\ a <= b /\ b <= e /\ e <= Len(file)
      /\ ItemRun(file, f, e)
  BY <1>2 DEF LaidOut
<1>4. Finds("reinitializable-init", a) <=> /\ file[a].visibility # "internal"
                                           /\ ~IsProtected(LinesOf(FromTo(a, e)))
  BY <1>1, <1>2, <1>3, InitializerFound
<1>5. Typed
  BY DEF Grammar
<1>6. IsProtected(LinesOf(FromTo(a, e))) <=> \E g \in GuardLines(f) : ~TooFar(f, g)
  BY <1>2, <1>5, ProtectedIs
<1>7. /\ Members(f.lines) = {m \in a..e : file[m].kind # "comment"}
      /\ file[a].kind \in {"function", "oneLiner", "signature"}
      /\ \A m \in (a + 1)..e : /\ file[m].kind \notin Bodies \cup ContractLines
                               /\ file[m].kind = "attributes" => file[a].kind = "signature"
  BY <1>3 DEF ItemRun
<1>8. CASE SaysInternal(f)
  <2> SUFFICES ASSUME Finds("reinitializable-init", a) PROVE file[a].kind = "signature"
    BY <1>3, <1>8
  <2>1. PICK n \in Members(f.lines) : file[n].visibility = "internal"
    BY <1>8 DEF SaysInternal
  <2>2. n \in a..e /\ n # a
    BY <1>4, <1>7, <2>1
  <2>3. n \in (a + 1)..e /\ n \in 1..Len(file)
    <3>1. Len(file) \in Nat
      BY <1>5, LenProperties DEF Typed
    <3> QED BY <1>3, <2>2, <3>1
  <2>4. file[n].kind \in {"function", "oneLiner", "declaration", "attributes"}
    <3>1. PICK l : l = file[n]
      OBVIOUS
    <3>2. l \in LineChoices(style) /\ style \in Styles
      <4>1. file \in [1..Len(file) -> LineChoices(style)] /\ style \in Styles
        BY <1>5, LenProperties DEF Typed
      <4> QED BY <2>3, <3>1, <4>1
    <3> QED BY <2>1, <3>1, <3>2, LineSays
  <2>5. file[n].kind = "attributes"
    BY <1>7, <2>3, <2>4 DEF Bodies, FunctionLines
  <2> QED BY <1>7, <2>3, <2>5
<1>9. CASE ~SaysInternal(f)
  <2>1. file[a].visibility # "internal"
    <3>1. a \in Members(f.lines)
      BY <1>3, <1>7
    <3> QED BY <1>9, <3>1 DEF SaysInternal
  <2> QED BY <1>3, <1>4, <1>6, <1>9, <2>1
<1> QED BY <1>8, <1>9

-----------------------------------------------------------------------------
(* All of them, and the scan *)

\* What every line preserves of where lines, contracts, functions and blocks stand
StandingInv ==
  DepthInv /\ PlaceInv /\ AssemblyInv /\ OrderInv /\ TextInv /\ ItemInv /\ CoverInv

\* The description of the file holds of the empty one,
LEMMA StandingInit == ParseInit => StandingInv
<1> SUFFICES ASSUME ParseInit PROVE StandingInv
  OBVIOUS
<1>1. Len(scopes) = 0 /\ Len(file) = 0 /\ Len(source) = 0 /\ Len(blocks) = 0 /\ Len(functions) = 0 /\ 1..0 = {} /\ 0..0 = {0}
  BY EmptySeq DEF ParseInit
<1>2. ~InHeader /\ Second = NoName /\ ~InUnit /\ ~InFunction /\ Level = 0 /\ scopes = <<>>
  BY <1>1 DEF InHeader, Second, InUnit, InFunction, Level, NoName, ParseInit
<1>3. DepthInv
  <2>1. Depth(file, 0) = 0
    BY DepthNext
  <2> QED BY <1>1, <1>2, <2>1 DEF DepthInv
<1>4. PlaceInv /\ AssemblyInv /\ OrderInv
  BY <1>1 DEF PlaceInv, AssemblyInv, OrderInv
<1>5. TextInv
  BY <1>1, <1>2 DEF TextInv
<1>6. \A x : ~IsDone(x)
  BY <1>1 DEF IsDone, IsDoneIn
<1>7. ItemInv
  BY <1>2, <1>6 DEF ItemInv
<1>8. CoverInv
  <2>1. functions = <<>> /\ cut = NoBlock /\ cutDepth = 0
    BY DEF ParseInit
  <2>2. functions \in Seq(Members(functions))
    BY <2>1, EmptySeq
  <2> QED BY <1>1, <1>2, <1>6, <2>1, <2>2 DEF CoverInv
<1> QED BY <1>3, <1>4, <1>5, <1>7, <1>8 DEF StandingInv

\* of a file that is one line longer
LEMMA StandingStep == ReadingInv /\ StandingInv /\ ReadLine => StandingInv'
<1> SUFFICES ASSUME ReadingInv, StandingInv, ReadLine PROVE StandingInv'
  OBVIOUS
<1>1. Grammar /\ GatherInv
  BY DEF ReadingInv
<1>2. DepthInv /\ PlaceInv /\ AssemblyInv /\ OrderInv /\ TextInv /\ ItemInv /\ CoverInv
  BY DEF StandingInv
<1>3. PICK l \in LineChoices(style) :
        /\ Fits(l) /\ file' = Append(file, l) /\ UNCHANGED style
        /\ Follow(l) /\ Parse(l) /\ CutLine(l) /\ CutPart(l) /\ GatherContract(l)
  BY DEF ReadLine
<1>4. Reads(l)
  BY <1>3 DEF Reads
<1>5. DepthInv' /\ PlaceInv' /\ AssemblyInv' /\ OrderInv'
  BY <1>1, <1>2, <1>4, DepthStep, PlaceStep, AssemblyStep, ContractOrderStep
<1>6. TextInv'
  BY <1>1, <1>2, <1>3, <1>4, TextStep
<1>7. ItemInv' /\ CoverInv'
  BY <1>1, <1>2, <1>3, <1>4, ItemStep, CoverStep
<1> QED BY <1>5, <1>6, <1>7 DEF StandingInv

\* and of a file that stays as it is.
LEMMA StandingKept == StandingInv /\ UNCHANGED parseVars => StandingInv'
<1> SUFFICES ASSUME StandingInv, UNCHANGED parseVars PROVE StandingInv'
  OBVIOUS
<1>1. /\ UNCHANGED <<style, file, scopes, source>>
      /\ UNCHANGED <<cut, cutDepth, functions>>
      /\ UNCHANGED <<header, gathered, gatheredDepth, blocks>>
  BY DEF parseVars, grammarVars, cutVars, gatherVars
<1>2. DepthInv /\ PlaceInv /\ AssemblyInv /\ OrderInv /\ TextInv /\ ItemInv /\ CoverInv
  BY DEF StandingInv
<1>3. InHeader' = InHeader /\ Second' = Second /\ InUnit' = InUnit /\ InFunction' = InFunction /\ Level' = Level
      /\ Taken' = Taken
  BY <1>1 DEF InHeader, Second, InUnit, InFunction, Level, Taken
<1>4. OpenItem' = OpenItem /\ DoneAll' = DoneAll
  <2>1. \A k : DoneOf(k)' = DoneOf(k)
    BY <1>1, <1>3 DEF DoneOf
  <2> QED BY <1>1, <2>1 DEF OpenItem, LastItem, LastContract, DoneAll
<1>5. \A x : IsDone(x)' <=> IsDone(x)
  BY <1>1, <1>3 DEF IsDone, IsDoneIn
<1>6. DepthInv' /\ PlaceInv' /\ AssemblyInv' /\ OrderInv'
  BY <1>1, <1>2, <1>3 DEF DepthInv, PlaceInv, AssemblyInv, OrderInv
<1>7. TextInv'
  BY <1>1, <1>2, <1>3 DEF TextInv
<1>8. ItemInv'
  BY <1>1, <1>2, <1>3, <1>4, <1>5 DEF ItemInv
<1>9. CoverInv'
  BY <1>1, <1>2, <1>3, <1>4, <1>5 DEF CoverInv
<1> QED BY <1>6, <1>7, <1>8, <1>9 DEF StandingInv

\* A file is scanned once, between contracts, and LineFindings are what is found but for
\* what the two detectors on top of them find.
ScanInv ==
  scanned => /\ scopes = <<>>
             /\ LineFindings \subseteq findings
             /\ \A r \in findings : r \in LineFindings \/ r.rule \in {"reentrancy", "access-control"}

\* What is found by lines changes only with the file.
LEMMA FindingsKept == UNCHANGED parseVars => LineFindings' = LineFindings
<1> SUFFICES ASSUME UNCHANGED parseVars PROVE LineFindings' = LineFindings
  OBVIOUS
<1>1. UNCHANGED <<file, functions, blocks>>
  BY DEF parseVars, grammarVars, cutVars, gatherVars
<1>2. Reinitializable' = Reinitializable
  BY <1>1 DEF Reinitializable, LinesOf
<1>3. UncheckedCalls' = UncheckedCalls
  BY <1>1 DEF UncheckedCalls, Unchecked, LinesOf
<1>4. ConstructorInUpgradeable' = ConstructorInUpgradeable
  BY <1>1 DEF ConstructorInUpgradeable, BlockFrom, KindsIn, LinesOf
<1>5. StorageGapMissing' = StorageGapMissing
  BY <1>1 DEF StorageGapMissing, BlockFrom, KindsIn, LinesOf, UpgradeableBlock, StateVars
<1>6. UninitializedOwnable' = UninitializedOwnable
  BY <1>1 DEF UninitializedOwnable, InheritsOwnable, OwnershipInitialized, KindsIn
<1> QED BY <1>2, <1>3, <1>4, <1>5, <1>6 DEF LineFindings

\* The rules of the two detectors
LEMMA OtherRules ==
  /\ \A r \in GraphReentrancy \cup LegacyReentrancy : r.rule = "reentrancy"
  /\ \A r \in AccessControl : r.rule = "access-control"
<1>1. \A r \in GraphReentrancy : r.rule = "reentrancy"
  BY DEF GraphReentrancy
<1>2. \A r \in LegacyReentrancy : r.rule = "reentrancy"
  BY DEF LegacyReentrancy
<1>3. \A r \in AccessControl : r.rule = "access-control"
  BY DEF AccessControl
<1> QED BY <1>1, <1>2, <1>3

\* Every step keeps a scanned file's findings those of its lines.
LEMMA ScanStep == ScanInv /\ [DetectorsNext]_detectorVars => ScanInv'
<1> SUFFICES ASSUME ScanInv, [DetectorsNext]_detectorVars PROVE ScanInv'
  OBVIOUS
<1>1. CASE WriteLine
  <2>1. scanned' = FALSE
    BY <1>1 DEF WriteLine
  <2> QED BY <2>1 DEF ScanInv
<1>2. CASE Scan
  <2>1. /\ scopes = <<>> /\ UNCHANGED parseVars
        /\ findings' = (IF withGraph' /\ contracts # <<>> THEN GraphReentrancy ELSE LegacyReentrancy)
                         \cup AccessControl \cup LineFindings
    BY <1>2 DEF Scan
  <2>2. scopes' = <<>> /\ LineFindings' = LineFindings
    BY <2>1, FindingsKept DEF parseVars, grammarVars
  <2>3. LineFindings \subseteq findings'
    BY <2>1
  <2>4. \A r \in findings' : r \in LineFindings \/ r.rule \in {"reentrancy", "access-control"}
    BY <2>1, OtherRules
  <2> QED BY <2>2, <2>3, <2>4 DEF ScanInv
<1>3. CASE UNCHANGED detectorVars
  <2>1. UNCHANGED parseVars /\ findings' = findings /\ scanned' = scanned
    BY <1>3 DEF detectorVars
  <2>2. scopes' = scopes /\ LineFindings' = LineFindings
    BY <2>1, FindingsKept DEF parseVars, grammarVars
  <2> QED BY <2>1, <2>2 DEF ScanInv
<1> QED BY <1>1, <1>2, <1>3 DEF DetectorsNext

\* The detectors' invariant
DetectorInv == ReadingInv /\ StandingInv /\ ScanInv

\* The detectors' invariant holds at the start
LEMMA DetectorInvInit == DetectorsInit => DetectorInv
BY ReadingInit, StandingInit DEF DetectorsInit, DetectorInv, ScanInv

\* and every step keeps it.
LEMMA DetectorInvStep == DetectorInv /\ [DetectorsNext]_detectorVars => DetectorInv'
<1> SUFFICES ASSUME DetectorInv, [DetectorsNext]_detectorVars PROVE DetectorInv'
  OBVIOUS
<1>1. ReadLine \/ UNCHANGED parseVars
  BY DEF DetectorsNext, WriteLine, Scan, detectorVars
<1>2. ReadingInv /\ StandingInv /\ ScanInv
  BY DEF DetectorInv
<1>3. ReadingInv' /\ StandingInv'
  BY <1>1, <1>2, ReadingStep, ReadingKept, StandingStep, StandingKept
<1> QED BY <1>2, <1>3, ScanStep DEF DetectorInv

\* Of a scanned file
LEMMA FoundIsFinds ==
  ASSUME ScanInv, scanned, NEW rule, NEW n, rule \notin {"reentrancy", "access-control"}
  PROVE  Found(rule, n) <=> Finds(rule, n)
BY DEF ScanInv, Found, Finds

\* It implies what is said of initializers, constructors and contracts
LEMMA UpgradesSaid == DetectorInv => UpgradesForAReason
<1> SUFFICES ASSUME DetectorInv, scanned PROVE InitializersForAReason /\ ConstructorsForAReason /\ ContractsForAReason
  BY DEF UpgradesForAReason
<1>1. ScanInv /\ scopes = <<>> /\ Grammar /\ GatherInv
      /\ DepthInv /\ PlaceInv /\ OrderInv /\ TextInv /\ ItemInv /\ CoverInv
  BY DEF DetectorInv, ScanInv, ReadingInv, StandingInv
<1>2. InitializersForAReason
  <2> SUFFICES ASSUME NEW f \in Functions(source), f.name = "initialize", ~Before(f.lines[1], {"declaration"})
               PROVE  IF SaysInternal(f)
                      THEN Found("reinitializable-init", f.lines[1]) => file[f.lines[1]].kind = "signature"
                      ELSE Found("reinitializable-init", f.lines[1]) <=> \A g \in GuardLines(f) : TooFar(f, g)
    BY DEF InitializersForAReason
  <2>1. \A n : Found("reinitializable-init", n) <=> Finds("reinitializable-init", n)
    BY <1>1, FoundIsFinds
  <2> QED BY <1>1, <2>1, InitializersFound
<1>3. ConstructorsForAReason
  <2>1. \A n : Found("constructor-in-upgradeable", n) <=> Finds("constructor-in-upgradeable", n)
    BY <1>1, FoundIsFinds
  <2> QED BY <1>1, <2>1, ConstructorsFound DEF ConstructorsForAReason
<1>4. ContractsForAReason
  <2>1. \A n : /\ Found("storage-gap-missing", n) <=> Finds("storage-gap-missing", n)
               /\ Found("uninitialized-ownable", n) <=> Finds("uninitialized-ownable", n)
    BY <1>1, FoundIsFinds
  <2> QED BY <1>1, <2>1, ContractsFound DEF ContractsForAReason
<1> QED BY <1>2, <1>3, <1>4

\* For every style of files: what the detectors of upgradeable contracts report of an
\* initialize, a constructor or a contract, and what they do not, has the reasons
\* that UpgradesForAReason names.
THEOREM UpgradesExplained == DetectorsSpec => []UpgradesForAReason
BY DetectorInvInit, DetectorInvStep, UpgradesSaid, PTL DEF DetectorsSpec

-----------------------------------------------------------------------------
(* ResultsForAReason *)

\* Between lines n and m an assembly block begins and no line after that has a "}".
WithinAssembly(n, m) == \E x \in (n + 1)..m : AssemblyOpen(file, x, m - 1)

\* Line m looks at the result v of the call on line n.
LooksAt(n, m, v) == IF WithinAssembly(n, m) THEN IsZero(file[m], v) ELSE Requires(file[m], v)

\* The name the result of the call on line n is known by, in lines from s on
NamedAt(s, n, v) ==
  IF file[n].kind = "result" THEN v = file[n].name
  ELSE \/ v = NoName
       \/ \E d \in s..(n - 1) : file[d].kind = "result" /\ n - d <= 3 /\ v = file[d].name

\* isVarChecked, by the lines of the file
LEMMA WindowIs ==
  ASSUME NEW s \in Nat, NEW e \in Nat, s >= 1, s <= e, NEW n \in s..e, NEW ls, ls = LinesOf(FromTo(s, e))
  PROVE  /\ NamedAt(s, n, VarName(ls, n - s + 1))
         /\ IsVarChecked(ls, n - s + 1)
              <=> \E m \in (n + 1)..e : m - n < 10 /\ LooksAt(n, m, VarName(ls, n - s + 1))
<1>0. PICK i, k, v : i = n - s + 1 /\ k = e - s + 1 /\ v = VarName(ls, i)
  OBVIOUS
<1>1. Len(ls) = k /\ (\A j \in 1..k : ls[j] = file[s + j - 1])
  BY <1>0, PartOf
<1>2. k \in Nat /\ i \in 1..k /\ s + i - 1 = n /\ n \in Nat /\ e - s + 1 = k /\ s - 1 \in Nat
  BY <1>0
<1>3. \A m \in s..e : m - s + 1 \in 1..k /\ ls[m - s + 1] = file[m]
  <2> TAKE m \in s..e
  <2>1. m - s + 1 \in 1..k /\ s + (m - s + 1) - 1 = m
    BY <1>2
  <2> QED BY <1>1, <2>1
<1>4. NamedAt(s, n, v)
  <2> DEFINE above == {j \in 1..(i - 1) : i - j <= LookBack /\ ls[j].kind = "result"}
  <2>1. v = IF ls[i].kind = "result" THEN ls[i].name ELSE IF above = {} THEN NoName ELSE ls[First(above)].name
    BY <1>0 DEF VarName
  <2>2. ls[i] = file[n]
    BY <1>1, <1>2
  <2>3. ASSUME above # {}
        PROVE  \E d \in s..(n - 1) : file[d].kind = "result" /\ n - d <= 3 /\ ls[First(above)].name = file[d].name
    <3>1. First(above) \in above
      <4>1. above \subseteq Nat
        OBVIOUS
      <4> HIDE DEF above
      <4> QED BY <2>3, <4>1, FirstIs
    <3>2. PICK j : j = First(above)
      OBVIOUS
    <3>3. j \in 1..(i - 1) /\ i - j <= 3 /\ ls[j].kind = "result"
      BY <3>1, <3>2 DEF LookBack
    <3>4. PICK d : d = s + j - 1
      OBVIOUS
    <3>5. d \in s..(n - 1) /\ n - d <= 3 /\ j \in 1..k
      BY <1>2, <3>3, <3>4
    <3>6. ls[j] = file[d]
      BY <1>1, <3>4, <3>5
    <3> QED BY <3>2, <3>3, <3>5, <3>6
  <2> HIDE DEF above
  <2> QED BY <2>1, <2>2, <2>3 DEF NamedAt
<1>5. \A m \in (n + 1)..e : InAssembly(ls, i, m - s + 1) <=> WithinAssembly(n, m)
  <2> SUFFICES ASSUME NEW m \in (n + 1)..e PROVE InAssembly(ls, i, m - s + 1) <=> WithinAssembly(n, m)
    OBVIOUS
  <2>1. PICK j : j = m - s + 1
    OBVIOUS
  <2>2. j \in 1..k /\ s + j - 1 = m /\ m \in Nat /\ i < j
    BY <1>2, <2>1
  <2>3. ASSUME NEW y \in (i + 1)..j, NEW x, x = s + y - 1
        PROVE  /\ x \in (n + 1)..m
               /\ (ls[y].kind = "assembly" /\ \A z \in y..(j - 1) : Closes(ls[z]) = 0)
                    <=> AssemblyOpen(file, x, m - 1)
    <3>1. x \in (n + 1)..m /\ y \in 1..k /\ x \in Nat
      BY <1>2, <2>2, <2>3
    <3>2. ls[y] = file[x]
      BY <1>1, <2>3, <3>1
    <3>3. ASSUME NEW z \in y..(j - 1) PROVE s + z - 1 \in x..(m - 1) /\ ls[z] = file[s + z - 1]
      <4>1. z \in 1..k
        BY <1>2, <2>2, <3>1
      <4> QED BY <1>1, <1>2, <2>2, <2>3, <4>1
    <3>4. ASSUME NEW w \in x..(m - 1) PROVE \E z \in y..(j - 1) : s + z - 1 = w
      <4>1. PICK z : z = w - s + 1
        OBVIOUS
      <4>2. z \in y..(j - 1) /\ s + z - 1 = w
        BY <1>2, <2>2, <2>3, <4>1
      <4> QED BY <4>2
    <3>5. (\A z \in y..(j - 1) : Closes(ls[z]) = 0) <=> \A w \in x..(m - 1) : Closes(file[w]) = 0
      <4>1. ASSUME \A z \in y..(j - 1) : Closes(ls[z]) = 0, NEW w \in x..(m - 1)
            PROVE  Closes(file[w]) = 0
        <5>1. PICK z \in y..(j - 1) : s + z - 1 = w
          BY <3>4
        <5>2. Closes(ls[z]) = 0 /\ ls[z] = file[w]
          BY <3>3, <4>1, <5>1
        <5> QED BY <5>2
      <4>2. ASSUME \A w \in x..(m - 1) : Closes(file[w]) = 0, NEW z \in y..(j - 1)
            PROVE  Closes(ls[z]) = 0
        <5>1. Closes(file[s + z - 1]) = 0 /\ ls[z] = file[s + z - 1]
          BY <3>3, <4>2
        <5> QED BY <5>1
      <4> QED BY <4>1, <4>2
    <3> QED BY <3>1, <3>2, <3>5 DEF AssemblyOpen
  <2>4. \A x \in (n + 1)..m : \E y \in (i + 1)..j : x = s + y - 1
    <3> TAKE x \in (n + 1)..m
    <3>1. PICK y : y = x - s + 1
      OBVIOUS
    <3>2. y \in (i + 1)..j /\ x = s + y - 1
      BY <1>2, <2>2, <3>1
    <3> QED BY <3>2
  <2>5. InAssembly(ls, i, j) <=> \E y \in (i + 1)..j : ls[y].kind = "assembly" /\ \A z \in y..(j - 1) : Closes(ls[z]) = 0
    BY DEF InAssembly
  <2>6. InAssembly(ls, i, j) <=> WithinAssembly(n, m)
    BY <2>3, <2>4, <2>5 DEF WithinAssembly
  <2> QED BY <2>1, <2>6
<1>6. IsVarChecked(ls, i) <=> \E j \in (i + 1)..k : j - i < 10 /\ IF InAssembly(ls, i, j) THEN IsZero(ls[j], v) ELSE Requires(ls[j], v)
  BY <1>0, <1>1 DEF IsVarChecked, LookAhead
<1>7. ASSUME NEW m \in (n + 1)..e, NEW j, j = m - s + 1
      PROVE  /\ j \in (i + 1)..k /\ (j - i < 10 <=> m - n < 10)
             /\ (IF InAssembly(ls, i, j) THEN IsZero(ls[j], v) ELSE Requires(ls[j], v)) <=> LooksAt(n, m, v)
  <2>1. m \in s..e /\ j \in (i + 1)..k /\ (j - i < 10 <=> m - n < 10)
    BY <1>0, <1>2, <1>7
  <2>2. ls[j] = file[m]
    BY <1>3, <1>7, <2>1
  <2> QED BY <1>5, <1>7, <2>1, <2>2 DEF LooksAt
<1>8. \A j \in (i + 1)..k : \E m \in (n + 1)..e : j = m - s + 1
  <2> TAKE j \in (i + 1)..k
  <2>1. PICK m : m = s + j - 1
    OBVIOUS
  <2>2. m \in (n + 1)..e /\ j = m - s + 1
    BY <1>2, <2>1
  <2> QED BY <2>2
<1>9. IsVarChecked(ls, i) <=> \E m \in (n + 1)..e : m - n < 10 /\ LooksAt(n, m, v)
  BY <1>6, <1>7, <1>8
<1> QED BY <1>0, <1>4, <1>9

\* A nonzero test below a call is in assembly from there unless a "}" came between.
LEMMA AssemblyIs ==
  ASSUME NEW n \in Nat, NEW m \in Nat, n >= 1, n < m, Closes(file[n]) = 1
  PROVE  WithinAssembly(n, m) <=> ~AssemblyLost(m)
<1>1. ASSUME WithinAssembly(n, m) PROVE ~AssemblyLost(m)
  <2>1. PICK x \in (n + 1)..m : file[x].kind = "assembly" /\ \A z \in x..(m - 1) : Closes(file[z]) = 0
    BY <1>1 DEF WithinAssembly, AssemblyOpen
  <2> SUFFICES ASSUME NEW z \in 1..(m - 1), Closes(file[z]) = 1, \A y \in z..m : file[y].kind # "assembly"
               PROVE  FALSE
    BY DEF AssemblyLost
  <2>2. ~(x \in z..m) /\ ~(z \in x..(m - 1))
    BY <2>1
  <2> QED BY <2>1, <2>2
<1>2. ASSUME ~AssemblyLost(m) PROVE WithinAssembly(n, m)
  <2> DEFINE A == {x \in n..m : file[x].kind = "assembly"}
             S == {m - x : x \in A}
  <2>1. n \in 1..(m - 1) /\ Closes(file[n]) # 0
    OBVIOUS
  <2>2. PICK y \in n..m : file[y].kind = "assembly"
    BY <1>2, <2>1 DEF AssemblyLost
  <2>3. PICK x \in A : \A w \in A : w <= x
    <3>1. S \subseteq Nat /\ m - y \in S
      BY <2>2
    <3>2. PICK t \in S : \A u \in S : t <= u
      <4> HIDE DEF S
      <4> QED BY <3>1, LeastElement
    <3>3. PICK x \in A : t = m - x
      OBVIOUS
    <3>4. \A w \in A : m - w \in S /\ w \in Nat
      OBVIOUS
    <3>5. \A w \in A : w <= x
      <4> TAKE w \in A
      <4>1. t <= m - w /\ w \in Nat /\ x \in Nat
        <5> HIDE DEF S, A
        <5> QED BY <3>2, <3>4
      <4> HIDE DEF S, A
      <4> QED BY <3>3, <4>1
    <3> QED BY <3>5
  <2>4. x \in n..m /\ file[x].kind = "assembly" /\ Closes(file[x]) = 0
    BY BracesOf
  <2>5. x # n
    BY <2>1, <2>4
  <2>6. ASSUME NEW z \in x..(m - 1), Closes(file[z]) # 0 PROVE FALSE
    <3>1. z \in 1..(m - 1) /\ Closes(file[z]) = 1
      BY <2>4, <2>6, BracesOf
    <3>2. PICK w \in z..m : file[w].kind = "assembly"
      BY <1>2, <3>1 DEF AssemblyLost
    <3>3. w \in A
      BY <2>4, <3>2
    <3>4. w = x /\ z = x
      BY <2>3, <2>4, <3>2, <3>3
    <3> QED BY <2>4, <2>6, <3>4
  <2>7. x \in (n + 1)..m
    BY <2>4, <2>5
  <2> QED BY <2>4, <2>6, <2>7 DEF WithinAssembly, AssemblyOpen
<1> QED BY <1>1, <1>2

\* What is found of the line of a block
LEMMA UncheckedAt ==
  ASSUME Grammar, CoverInv, NEW j, NEW s, NEW e, IsBlock(j, s, e), NEW n \in s..e
  PROVE  /\ e \in Nat /\ s <= e /\ e <= Len(file)
         /\ Finds("unchecked-call", n)
              <=> /\ file[n].kind \in Calls
                  /\ ~(/\ VarName(LinesOf(FromTo(s, e)), n - s + 1) # NoName
                       /\ IsVarChecked(LinesOf(FromTo(s, e)), n - s + 1))
<1>1. /\ j \in 1..Len(functions) /\ functions[j].lines = FromTo(s, e)
      /\ FirstLine(functions[j]) = s /\ LastLine(functions[j]) = e /\ s \in Nat /\ 1 <= s
  BY DEF IsBlock
<1>2. Len(file) \in Nat
  BY LenProperties DEF Grammar, Typed
<1>3. \A i \in 1..Len(functions) :
        /\ LastLine(functions[i]) \in 1..Len(file)
        /\ FirstLine(functions[i]) \in 1..LastLine(functions[i])
        /\ functions[i].lines = FromTo(FirstLine(functions[i]), LastLine(functions[i]))
  BY DEF CoverInv, SpanOf
<1>4. e \in Nat /\ s <= e /\ e <= Len(file)
  BY <1>1, <1>2, <1>3
<1>5. \A i \in 1..Len(functions) : \A y \in 1..Len(functions[i].lines) :
        functions[i].lines[y] = n => i = j /\ y = n - s + 1
  <2> SUFFICES ASSUME NEW i \in 1..Len(functions), NEW y \in 1..Len(functions[i].lines), functions[i].lines[y] = n
               PROVE  i = j /\ y = n - s + 1
    OBVIOUS
  <2>1. PICK p, q : p = FirstLine(functions[i]) /\ q = LastLine(functions[i])
    OBVIOUS
  <2>2. p \in Nat /\ q \in Nat /\ p >= 1 /\ p <= q /\ functions[i].lines = FromTo(p, q)
    <3>1. q \in 1..Len(file) /\ p \in 1..q /\ functions[i].lines = FromTo(p, q)
      BY <1>3, <2>1
    <3> QED BY <1>2, <3>1
  <2>3. Len(FromTo(p, q)) = q - p + 1 /\ \A x \in 1..(q - p + 1) : FromTo(p, q)[x] = p + x - 1
    BY <2>2, FromToIs
  <2>4. y \in 1..(q - p + 1) /\ p + y - 1 = n
    BY <2>2, <2>3
  <2>5. p <= e /\ s <= q
    BY <1>1, <1>4, <2>2, <2>4
  <2>6. i = j
    BY <1>1, <1>2, <2>1, <2>5, BlocksApart
  <2>7. p = s
    BY <1>1, <2>1, <2>6
  <2> QED BY <1>1, <2>4, <2>6, <2>7
<1>6. n - s + 1 \in 1..Len(functions[j].lines) /\ functions[j].lines[n - s + 1] = n
  <2>1. s \in Nat /\ e \in Nat /\ s >= 1 /\ s <= e
    BY <1>1, <1>4
  <2>2. Len(FromTo(s, e)) = e - s + 1 /\ \A x \in 1..(e - s + 1) : FromTo(s, e)[x] = s + x - 1
    BY <2>1, FromToIs
  <2>3. n - s + 1 \in 1..(e - s + 1) /\ s + (n - s + 1) - 1 = n
    BY <2>1
  <2> QED BY <1>1, <2>2, <2>3
<1>7. Finds("unchecked-call", n) <=> n - s + 1 \in Unchecked(functions[j])
  <2>1. Finds("unchecked-call", n) <=> \E i \in 1..Len(functions) : \E y \in Unchecked(functions[i]) : functions[i].lines[y] = n
    BY FoundAre
  <2>2. \A i : Unchecked(functions[i]) \subseteq 1..Len(functions[i].lines)
    BY DEF Unchecked
  <2> QED BY <1>1, <1>5, <1>6, <2>1, <2>2
<1>8. n - s + 1 \in Unchecked(functions[j])
        <=> /\ file[n].kind \in Calls
            /\ ~(/\ VarName(LinesOf(FromTo(s, e)), n - s + 1) # NoName
                 /\ IsVarChecked(LinesOf(FromTo(s, e)), n - s + 1))
  BY <1>1, <1>6 DEF Unchecked
<1> QED BY <1>4, <1>7, <1>8

\* The block of a function and its lines
LEMMA FunctionBlock ==
  ASSUME Grammar, DepthInv, PlaceInv, ItemInv, CoverInv, scopes = <<>>, NEW f \in Functions(source)
  PROVE  \E j, s, a, e : /\ IsBlock(j, s, e) /\ Leads(file, s, a)
                         /\ a \in Nat /\ s <= a /\ a <= e
                         /\ Members(f.lines) = {m \in a..e : file[m].kind # "comment"}
<1>1. IsDone(f)
  BY DoneFunctions
<1>2. PICK a, b, e : LaidOut(f, a, b, e)
  BY <1>1, Layout
<1>3. PICK j, s : IsBlock(j, s, e) /\ Leads(file, s, a)
  BY <1>1, <1>2, CoveringBlock
<1>4. a \in Nat /\ a <= e /\ Members(f.lines) = {m \in a..e : file[m].kind # "comment"}
  BY <1>2 DEF LaidOut, ItemRun
<1>5. s <= a
  BY <1>3 DEF Leads
<1> QED BY <1>3, <1>4, <1>5

\* A call of a function: what isVarChecked finds is a line of the function that looks at
\* the result, and the name is the call's own or that of a result just above in the function.
LEMMA ResultsFound ==
  ASSUME Grammar, DepthInv, PlaceInv, ItemInv, CoverInv, AssemblyInv, scopes = <<>>,
         NEW f \in Functions(source), NEW n \in Members(f.lines)
  PROVE  /\ file[n].kind = "result" =>
              (Finds("unchecked-call", n)
               <=> \A m \in ChecksBelow(f, n, file[n].name) :
                     m - n >= 10 \/ (file[m].kind = "isZero" /\ AssemblyLost(m)))
         /\ file[n].kind = "call" =>
              \/ Finds("unchecked-call", n)
              \/ \E d \in Members(f.lines) : /\ file[d].kind = "result" /\ d < n /\ n - d <= 3
                                             /\ ChecksBelow(f, n, file[d].name) # {}
<1>1. PICK j, s, a, e : /\ IsBlock(j, s, e) /\ Leads(file, s, a)
                        /\ a \in Nat /\ s <= a /\ a <= e
                        /\ Members(f.lines) = {m \in a..e : file[m].kind # "comment"}
  BY FunctionBlock
<1>2. n \in s..e /\ n \in a..e /\ s \in Nat /\ 1 <= s
  BY <1>1 DEF IsBlock
<1>3. /\ e \in Nat /\ s <= e /\ e <= Len(file)
      /\ Finds("unchecked-call", n)
           <=> /\ file[n].kind \in Calls
               /\ ~(/\ VarName(LinesOf(FromTo(s, e)), n - s + 1) # NoName
                    /\ IsVarChecked(LinesOf(FromTo(s, e)), n - s + 1))
  BY <1>1, <1>2, UncheckedAt
<1>4. PICK v : v = VarName(LinesOf(FromTo(s, e)), n - s + 1)
  OBVIOUS
<1>5. /\ NamedAt(s, n, v)
      /\ IsVarChecked(LinesOf(FromTo(s, e)), n - s + 1) <=> \E m \in (n + 1)..e : m - n < 10 /\ LooksAt(n, m, v)
  BY <1>2, <1>3, <1>4, WindowIs
<1>6. \A l : /\ IsZero(l, v) => l.kind = "isZero"
             /\ Requires(l, v) => l.kind = "resultCheck"
  BY DEF IsZero, Requires
<1>7. ChecksBelow(f, n, v) = {m \in (n + 1)..e : IsZero(file[m], v) \/ Requires(file[m], v)}
  <2>1. \A m : m \in Members(f.lines) /\ m > n <=> m \in (n + 1)..e /\ file[m].kind # "comment"
    BY <1>1, <1>2, <1>3
  <2>2. \A m : IsZero(file[m], v) \/ Requires(file[m], v) => file[m].kind # "comment"
    BY <1>6
  <2> QED BY <2>1, <2>2 DEF ChecksBelow
<1>8. \A m \in (n + 1)..e : LooksAt(n, m, v) => m \in ChecksBelow(f, n, v)
  BY <1>7 DEF LooksAt
<1>9. CASE file[n].kind = "result"
  <2>1. v = file[n].name
    BY <1>5, <1>9 DEF NamedAt
  <2>2. v # NoName
    <3>1. PICK l : l = file[n]
      OBVIOUS
    <3>2. n \in 1..Len(file) /\ style \in Styles
      <4>1. Len(file) \in Nat /\ style \in Styles
        BY LenProperties DEF Grammar, Typed
      <4> QED BY <1>2, <1>3, <4>1
    <3>3. l \in LineChoices(style) /\ style \in Styles
      <4>1. file \in [1..Len(file) -> LineChoices(style)]
        BY LenProperties DEF Grammar, Typed
      <4> QED BY <3>1, <3>2, <4>1
    <3>4. l.kind = "result" => l.name # NoName
      BY <3>3, LineSays
    <3> QED BY <1>9, <2>1, <3>1, <3>4
  <2>3. Closes(file[n]) = 1
    BY <1>9 DEF Closes, Closing, Calls
  <2>4. ASSUME NEW m \in (n + 1)..e
        PROVE  LooksAt(n, m, v) <=> m \in ChecksBelow(f, n, v) /\ ~(file[m].kind = "isZero" /\ AssemblyLost(m))
    <3>1. n \in Nat /\ m \in Nat /\ n >= 1 /\ n < m
      BY <1>2, <1>3
    <3>2. WithinAssembly(n, m) <=> ~AssemblyLost(m)
      BY <2>3, <3>1, AssemblyIs
    <3>3. ASSUME file[m].kind = "resultCheck" PROVE ~WithinAssembly(n, m)
      <4> SUFFICES ASSUME NEW x \in (n + 1)..m, AssemblyOpen(file, x, m - 1) PROVE FALSE
        BY DEF WithinAssembly
      <4>1. x # m
        BY <3>3 DEF AssemblyOpen
      <4>2. m \in 1..Len(file) /\ x \in 1..(m - 1)
        <5>1. Len(file) \in Nat
          BY LenProperties DEF Grammar, Typed
        <5> QED BY <1>3, <3>1, <4>1, <5>1
      <4> QED BY <3>3, <4>2 DEF AssemblyInv
    <3> QED BY <1>6, <1>7, <3>2, <3>3 DEF LooksAt
  <2>5. \A m \in (n + 1)..e : m - n < 10 <=> ~(m - n >= 10)
    BY <1>2, <1>3
  <2>6. ChecksBelow(f, n, v) \subseteq (n + 1)..e
    BY <1>7
  <2>7. (\E m \in (n + 1)..e : m - n < 10 /\ LooksAt(n, m, v))
          <=> ~\A m \in ChecksBelow(f, n, v) : m - n >= 10 \/ (file[m].kind = "isZero" /\ AssemblyLost(m))
    BY <2>4, <2>5, <2>6
  <2>8. Finds("unchecked-call", n) <=> ~\E m \in (n + 1)..e : m - n < 10 /\ LooksAt(n, m, v)
    BY <1>3, <1>4, <1>5, <1>9, <2>2 DEF Calls
  <2> QED BY <1>9, <2>1, <2>7, <2>8
<1>10. CASE file[n].kind = "call"
  <2> SUFFICES ASSUME ~Finds("unchecked-call", n)
               PROVE  \E d \in Members(f.lines) : /\ file[d].kind = "result" /\ d < n /\ n - d <= 3
                                                  /\ ChecksBelow(f, n, file[d].name) # {}
    BY <1>10
  <2>1. v # NoName /\ \E m \in (n + 1)..e : m - n < 10 /\ LooksAt(n, m, v)
    BY <1>3, <1>4, <1>5, <1>10 DEF Calls
  <2>2. ChecksBelow(f, n, v) # {}
    BY <1>8, <2>1
  <2>3. PICK d \in s..(n - 1) : file[d].kind = "result" /\ n - d <= 3 /\ v = file[d].name
    BY <1>5, <1>10, <2>1 DEF NamedAt
  <2>4. Opens(file[d]) = 1
    BY <2>3 DEF Opens, Opening, Calls
  <2>5. ~(d \in s..(a - 1))
    BY <1>1, <2>4 DEF Leads
  <2>6. d \in a..e /\ d < n
    BY <1>1, <1>2, <1>3, <2>5
  <2>7. d \in Members(f.lines)
    BY <1>1, <2>3, <2>6
  <2> QED BY <2>2, <2>3, <2>6, <2>7
<1> QED BY <1>9, <1>10

\* A call that is found is one of a function, or of what follows one without a body.
LEMMA CallsAreIn ==
  ASSUME Grammar, DepthInv, PlaceInv, ItemInv, CoverInv, scopes = <<>>, NEW n, Finds("unchecked-call", n)
  PROVE  (\E f \in Functions(source) : n \in Members(f.lines)) \/ Before(n, {"declaration"})
<1>1. PICK j \in 1..Len(functions) : \E i \in Unchecked(functions[j]) : functions[j].lines[i] = n
  BY FoundAre
<1>2. PICK i \in 1..Len(functions[j].lines) : functions[j].lines[i] = n /\ file[n].kind \in Calls
  BY <1>1 DEF Unchecked
<1>3. PICK c, s, e : c = functions[j] /\ s = FirstLine(c) /\ e = LastLine(c)
  OBVIOUS
<1>4. Len(file) \in Nat
  BY LenProperties DEF Grammar, Typed
<1>5. e \in 1..Len(file) /\ SpanOf(file, c, e) /\ (file[s].kind = "declaration" \/ c \in DoneAll)
  BY <1>3 DEF CoverInv
<1>6. s \in 1..e /\ c.lines = FromTo(s, e) /\ file[s].kind \in FunctionLines
  BY <1>3, <1>5 DEF SpanOf
<1>7. n \in s..e /\ n # s
  <2>1. s \in Nat /\ e \in Nat /\ s >= 1 /\ s <= e
    BY <1>4, <1>5, <1>6
  <2>2. Len(FromTo(s, e)) = e - s + 1 /\ \A x \in 1..(e - s + 1) : FromTo(s, e)[x] = s + x - 1
    BY <2>1, FromToIs
  <2>3. i \in 1..(e - s + 1) /\ n = s + i - 1
    BY <1>2, <1>3, <1>6, <2>2
  <2>4. n \in s..e
    BY <2>1, <2>3
  <2>5. n # s
    BY <1>2, <1>6 DEF Calls, FunctionLines
  <2> QED BY <2>4, <2>5
<1>8. CASE file[s].kind = "declaration"
  <2>1. s \in 1..(n - 1)
    BY <1>4, <1>5, <1>6, <1>7
  <2> QED BY <1>8, <2>1 DEF Before
<1>9. CASE c \in DoneAll
  <2>1. PICK f \in Functions(source) : c = Whole(f)
    BY <1>9, DoneFunctions, DoneAllIs
  <2>2. PICK a, b, z : LaidOut(f, a, b, z)
    BY Layout, DoneFunctions
  <2>3. /\ f.lines[1] = a /\ f.lines[Len(f.lines)] = z /\ a \in Nat /\ z \in Nat /\ 1 <= a /\ a <= z
        /\ Members(f.lines) = {m \in a..z : file[m].kind # "comment"}
    <3>1. a \in Nat /\ b \in Nat /\ z \in Nat /\ 1 <= a /\ a <= b /\ b <= z
      BY <2>2 DEF LaidOut
    <3> QED BY <2>2, <3>1 DEF LaidOut, ItemRun
  <2>4. c.lines = [k \in 1..(z - a + 1) |-> a + k - 1]
    BY <2>1, <2>3 DEF Whole
  <2>5. i \in 1..(z - a + 1) /\ n = a + i - 1
    <3>1. Len(c.lines) = z - a + 1
      BY <2>3, <2>4
    <3> QED BY <1>2, <1>3, <2>4, <3>1
  <2>6. n \in a..z /\ file[n].kind # "comment"
    BY <1>2, <2>3, <2>5 DEF Calls
  <2> QED BY <2>3, <2>6
<1> QED BY <1>5, <1>8, <1>9

\* and what is said of the results of calls.
LEMMA ResultsSaid == DetectorInv => ResultsForAReason
<1> SUFFICES ASSUME DetectorInv, scanned PROVE ResultsForAReason
  BY DEF ResultsForAReason
<1>1. ScanInv /\ scopes = <<>> /\ Grammar /\ DepthInv /\ PlaceInv /\ ItemInv /\ CoverInv /\ AssemblyInv
  BY DEF DetectorInv, ScanInv, ReadingInv, StandingInv
<1>2. \A n : Found("unchecked-call", n) <=> Finds("unchecked-call", n)
  BY <1>1, FoundIsFinds
<1>3. \A f \in Functions(source) : \A n \in Members(f.lines) :
         /\ file[n].kind = "result" =>
              (Found("unchecked-call", n)
               <=> \A m \in ChecksBelow(f, n, file[n].name) :
                     m - n >= 10 \/ (file[m].kind = "isZero" /\ AssemblyLost(m)))
         /\ file[n].kind = "call" =>
              \/ Found("unchecked-call", n)
              \/ \E d \in Members(f.lines) : /\ file[d].kind = "result" /\ d < n /\ n - d <= 3
                                             /\ ChecksBelow(f, n, file[d].name) # {}
  BY <1>1, <1>2, ResultsFound
<1>4. \A r \in findings : r.rule = "unchecked-call" =>
         \/ \E f \in Functions(source) : r.line \in Members(f.lines)
         \/ Before(r.line, {"declaration"})
  <2> SUFFICES ASSUME NEW r \in findings, r.rule = "unchecked-call"
               PROVE  \/ \E f \in Functions(source) : r.line \in Members(f.lines)
                      \/ Before(r.line, {"declaration"})
    OBVIOUS
  <2>1. Finds("unchecked-call", r.line)
    BY <1>2 DEF Found
  <2> QED BY <1>1, <2>1, CallsAreIn
<1> QED BY <1>3, <1>4 DEF ResultsForAReason

\* For every style of files: a call is reported for its result if and only if the function
\* does not look at it again, with the exceptions that ResultsForAReason names.
THEOREM ResultsExplained == DetectorsSpec => []ResultsForAReason
BY DetectorInvInit, DetectorInvStep, ResultsSaid, PTL DEF DetectorsSpec

-----------------------------------------------------------------------------
(* extractFunctionBlocks: the blocks of the functions it sees as they are *)

\* Lines a to e are laid out the way it knows: not on one line, and nothing between a
\* signature and its "{".
PlainHead(f, a, e) ==
  /\ \A m \in a..e : f[m].kind \notin {"attributes", "oneLiner"}
  /\ f[a].kind = "signature" /\ a < e => f[a + 1].kind # "comment"

\* Nothing above line a leaves a block open that has none.
Unhidden(f, a) == \A m \in 1..(a - 1) : f[m].kind \notin {"declaration", "oneLiner"}

\* Block b is that of function x.
Matches(b, x) == FirstLine(b) = FirstLine(x) /\ LastLine(b) = LastLine(x)

\* extractFunctionBlocks in any file: its blocks are disjoint, and every complete function
\* laid out as it knows, below none that hides others, is one of them.
PartCoverInv ==
  /\ parts \in Seq(Members(parts))
  /\ \A j \in 1..Len(parts) :
       /\ LastLine(parts[j]) \in 1..Len(file)
       /\ SpanOf(file, parts[j], LastLine(parts[j]))
  /\ \A i, j \in 1..Len(parts) : i < j => LastLine(parts[i]) < FirstLine(parts[j])
  /\ \A x : IsDone(x) /\ PlainHead(file, FirstLine(x), LastLine(x)) /\ Unhidden(file, FirstLine(x)) =>
       \E j \in 1..Len(parts) : Matches(parts[j], x)
  /\ part # NoBlock => /\ SpanOf(file, part, Len(file))
                       /\ \A j \in 1..Len(parts) : LastLine(parts[j]) < FirstLine(part)
  /\ InFunction /\ Unhidden(file, FirstLine(OpenItem)) =>
       IF part = NoBlock THEN ~PlainHead(file, FirstLine(OpenItem), Len(file))
       ELSE FirstLine(part) = FirstLine(OpenItem) /\ partDepth = Level - 1
  /\ ~InFunction /\ Unhidden(file, Len(file) + 1) => part = NoBlock

\* The block line l is added to, and the braces open in it
PartBlock(l) == NextBlock(part, l)
PartDepth(l) == (IF part = NoBlock THEN 0 ELSE partDepth) + Delta(l)

\* What extractFunctionBlocks does with a line
LEMMA PartMoves ==
  ASSUME NEW l, CutPart(l)
  PROVE  IF part = NoBlock /\ l.kind \notin FunctionLines THEN UNCHANGED partVars
         ELSE IF PartDepth(l) = 0 /\ Len(PartBlock(l).lines) > 1
              THEN part' = NoBlock /\ partDepth' = 0 /\ parts' = Append(parts, PartBlock(l))
              ELSE part' = PartBlock(l) /\ partDepth' = PartDepth(l) /\ parts' = parts
BY DEF CutPart, PartBlock, PartDepth, NextBlock

\* A line more says nothing of the layout of what is above it.
LEMMA PlainStays ==
  ASSUME NEW f, NEW h, OneMore(h, f)
  PROVE  /\ \A a, e \in 1..Len(f) : PlainHead(h, a, e) <=> PlainHead(f, a, e)
         /\ \A a \in 1..Len(f) : PlainHead(h, a, Len(f) + 1) => PlainHead(f, a, Len(f))
         /\ \A a \in 1..(Len(f) + 1) : Unhidden(h, a) <=> Unhidden(f, a)
<1>0. PICK n : n = Len(f)
  OBVIOUS
<1>1. n \in Nat /\ \A m \in 1..n : h[m] = f[m]
  BY <1>0 DEF OneMore
<1>2. \A a, e \in 1..n : PlainHead(h, a, e) <=> PlainHead(f, a, e)
  <2> SUFFICES ASSUME NEW a \in 1..n, NEW e \in 1..n PROVE PlainHead(h, a, e) <=> PlainHead(f, a, e)
    OBVIOUS
  <2>1. \A m \in a..e : h[m] = f[m]
    BY <1>1
  <2>2. h[a] = f[a] /\ (a < e => h[a + 1] = f[a + 1])
    <3>1. a < e => a + 1 \in 1..n
      BY <1>1
    <3> QED BY <1>1, <3>1
  <2> QED BY <2>1, <2>2 DEF PlainHead
<1>3. \A a \in 1..n : PlainHead(h, a, n + 1) => PlainHead(f, a, n)
  <2> SUFFICES ASSUME NEW a \in 1..n, PlainHead(h, a, n + 1) PROVE PlainHead(f, a, n)
    OBVIOUS
  <2>1. \A m \in a..n : h[m] = f[m] /\ m \in a..(n + 1)
    BY <1>1
  <2>2. h[a] = f[a] /\ (a < n => h[a + 1] = f[a + 1] /\ a < n + 1)
    <3>1. a < n => a + 1 \in 1..n /\ a < n + 1
      BY <1>1
    <3> QED BY <1>1, <3>1
  <2> QED BY <2>1, <2>2 DEF PlainHead
<1>4. \A a \in 1..(n + 1) : Unhidden(h, a) <=> Unhidden(f, a)
  <2> SUFFICES ASSUME NEW a \in 1..(n + 1) PROVE Unhidden(h, a) <=> Unhidden(f, a)
    OBVIOUS
  <2>1. \A m \in 1..(a - 1) : h[m] = f[m]
    BY <1>1
  <2> QED BY <2>1 DEF Unhidden
<1> QED BY <1>0, <1>2, <1>3, <1>4

\* Where the open function's block is after a line that goes on with it or ends it
LEMMA PartGoesOn ==
  ASSUME Grammar, ItemInv, PartCoverInv, NEW l, Reads(l), InFunction, Unhidden(file, FirstLine(OpenItem)),
         PlainHead(file', FirstLine(OpenItem), Len(file) + 1)
  PROVE  /\ part # NoBlock /\ FirstLine(part) = FirstLine(OpenItem) /\ PartDepth(l) = Level' - 1
         /\ InFunction' => Level' >= 2
<1>0. PICK n, h, a : n = Len(file) /\ h = file' /\ a = FirstLine(OpenItem)
  OBVIOUS
<1>1. /\ n \in Nat /\ Here = n + 1 /\ Len(h) = n + 1 /\ (\A i \in 1..n : h[i] = file[i]) /\ h[n + 1] = l
      /\ OneMore(h, file) /\ Level \in Nat /\ Level' = Level + Delta(l) /\ Level' \in Nat
  <2>1. Level \in Nat /\ Level' = Level + Delta(l) /\ Level' \in Nat
    BY GrammarStep, LevelIs, LevelUpAfter DEF Grammar
  <2> QED BY <1>0, <2>1, FileIs DEF OneMore, Grammar
<1>2. ItemRun(file, OpenItem, n) /\ a \in 1..n
  BY <1>0 DEF ItemInv, ItemRun, FirstLine
<1>3. PlainHead(file, a, n)
  BY <1>0, <1>1, <1>2, PlainStays
<1>4. part # NoBlock /\ FirstLine(part) = a /\ partDepth = Level - 1
  BY <1>0, <1>3 DEF PartCoverInv
<1>5. PartDepth(l) = Level' - 1
  <2>1. Delta(l) \in Int
    BY BracesOf
  <2> QED BY <1>1, <1>4, <2>1 DEF PartDepth
<1>6. ASSUME InFunction' PROVE Level' >= 2
  <2>1. Second' = "signature" \/ Second' = "function"
    BY <1>6 DEF InFunction
  <2>2. CASE Second' = "function"
    BY <1>6, <2>2, OpenMoves
  <2>3. CASE Second' = "signature"
    <3>1. Second = "signature" /\ l.kind \in {"attributes", "comment"}
      BY <1>6, <2>3, OpenMoves
    <3>2. file[a].kind = "signature" /\ \A m \in (a + 1)..n : file[m].kind \in {"attributes", "comment"}
      BY <1>0, <3>1 DEF ItemInv, FirstLine
    <3>3. l.kind = "comment"
      <4>1. n + 1 \in a..(n + 1)
        BY <1>1, <1>2
      <4>2. h[n + 1].kind # "attributes"
        BY <1>0, <4>1 DEF PlainHead
      <4> QED BY <1>1, <3>1, <4>2
    <3>4. h[a].kind = "signature" /\ a < n + 1 /\ h[a + 1].kind # "comment"
      <4>1. h[a].kind = "signature" /\ a < n + 1
        BY <1>1, <1>2, <3>2
      <4> QED BY <1>0, <4>1 DEF PlainHead
    <3>5. CASE a = n
      BY <1>1, <3>3, <3>4, <3>5
    <3>6. CASE a # n
      <4>1. a + 1 \in (a + 1)..n /\ a + 1 \in a..n /\ a + 1 \in 1..n
        BY <1>1, <1>2, <3>6
      <4>2. file[a + 1].kind = "attributes"
        BY <1>1, <3>2, <3>4, <4>1
      <4> QED BY <1>3, <4>1, <4>2 DEF PlainHead
    <3> QED BY <3>5, <3>6
  <2> QED BY <2>1, <2>2, <2>3
<1> QED BY <1>0, <1>4, <1>5, <1>6

\* Every line preserves this.
LEMMA PartCoverStep ==
  ASSUME Grammar, ItemInv, PartCoverInv, NEW l, Reads(l), CutPart(l)
  PROVE  PartCoverInv'
<1>0. PICK n, h, ps, b : n = Len(file) /\ h = file' /\ ps = parts /\ b = PartBlock(l)
  OBVIOUS
<1>1. /\ n \in Nat /\ Here = n + 1 /\ Len(h) = n + 1 /\ (\A i \in 1..n : h[i] = file[i]) /\ h[n + 1] = l
      /\ OneMore(h, file) /\ Level \in Nat /\ Level' = Level + Delta(l) /\ Level' \in Nat
      /\ ps \in Seq(Members(ps)) /\ Len(ps) \in Nat
  <2>1. Level \in Nat /\ Level' = Level + Delta(l) /\ Level' \in Nat
    BY GrammarStep, LevelIs, LevelUpAfter DEF Grammar
  <2>2. ps \in Seq(Members(ps))
    BY <1>0 DEF PartCoverInv
  <2> QED BY <1>0, <2>1, <2>2, FileIs, LenProperties DEF OneMore, Grammar
<1>2. /\ part # NoBlock => SpanOf(file, part, n) /\ \A j \in 1..Len(ps) : LastLine(ps[j]) < FirstLine(part)
      /\ ~InFunction /\ Unhidden(file, n + 1) => part = NoBlock
      /\ \A i, j \in 1..Len(ps) : i < j => LastLine(ps[i]) < FirstLine(ps[j])
  BY <1>0 DEF PartCoverInv
<1>3. \A j \in 1..Len(ps) : /\ LastLine(ps[j]) \in 1..(n + 1) /\ LastLine(ps[j]) <= n
                            /\ SpanOf(h, ps[j], LastLine(ps[j]))
  <2> SUFFICES ASSUME NEW j \in 1..Len(ps)
               PROVE  /\ LastLine(ps[j]) \in 1..(n + 1) /\ LastLine(ps[j]) <= n
                      /\ SpanOf(h, ps[j], LastLine(ps[j]))
    OBVIOUS
  <2>1. LastLine(ps[j]) \in 1..n /\ SpanOf(file, ps[j], LastLine(ps[j]))
    BY <1>0 DEF PartCoverInv
  <2> QED BY <1>0, <1>1, <2>1, SpanStays
\* The open function, before the line and after it
<1>4. InFunction => FirstLine(OpenItem) \in 1..n
  BY <1>0 DEF ItemInv, ItemRun, FirstLine
<1>5. /\ InFunction' /\ InFunction => FirstLine(OpenItem') = FirstLine(OpenItem)
      /\ InFunction' /\ ~InFunction => /\ l.kind \in {"function", "signature"} /\ FirstLine(OpenItem') = n + 1
                                       /\ Level = 1
  <2>1. ASSUME InFunction', InFunction PROVE FirstLine(OpenItem') = FirstLine(OpenItem)
    <3>1. OpenItem \in Items /\ (OpenItem' = OpenItem \/ OpenItem' = Longer(OpenItem))
      BY <2>1, OpenMoves
    <3> QED BY <3>1, LongerIs DEF FirstLine, Grammar
  <2>2. ASSUME InFunction', ~InFunction
        PROVE l.kind \in {"function", "signature"} /\ FirstLine(OpenItem') = n + 1 /\ Level = 1
    <3>1. l.kind \in {"function", "signature"} /\ OpenItem' = Item("function", l) /\ Level = 1
      BY <2>2, OpenMoves
    <3>2. <<n + 1>>[1] = n + 1
      OBVIOUS
    <3> QED BY <1>1, <3>1, <3>2 DEF FirstLine, Item
  <2> QED BY <2>1, <2>2
<1>6. ASSUME InFunction, Unhidden(h, FirstLine(OpenItem)), PlainHead(h, FirstLine(OpenItem), n + 1)
      PROVE  /\ part # NoBlock /\ FirstLine(part) = FirstLine(OpenItem) /\ PartDepth(l) = Level' - 1
             /\ InFunction' => Level' >= 2
  <2>1. FirstLine(OpenItem) \in 1..(n + 1)
    BY <1>1, <1>4, <1>6
  <2>2. Unhidden(file, FirstLine(OpenItem))
    BY <1>0, <1>1, <1>6, <2>1, PlainStays
  <2> QED BY <1>0, <1>6, <2>2, PartGoesOn
<1>7. ASSUME InFunction, Unhidden(h, FirstLine(OpenItem)), part # NoBlock
      PROVE  FirstLine(part) = FirstLine(OpenItem) /\ PartDepth(l) = Level' - 1
  <2>1. FirstLine(OpenItem) \in 1..(n + 1)
    BY <1>1, <1>4, <1>7
  <2>2. Unhidden(file, FirstLine(OpenItem))
    BY <1>0, <1>1, <1>7, <2>1, PlainStays
  <2>3. FirstLine(part) = FirstLine(OpenItem) /\ partDepth = Level - 1
    BY <1>7, <2>2 DEF PartCoverInv
  <2>4. Delta(l) \in Int
    BY BracesOf
  <2> QED BY <1>1, <1>7, <2>3, <2>4 DEF PartDepth
<1>8. ASSUME ~InFunction, Unhidden(h, n + 1) PROVE part = NoBlock
  <2>1. n + 1 \in 1..(n + 1)
    BY <1>1
  <2>2. Unhidden(file, n + 1)
    BY <1>0, <1>1, <1>8, <2>1, PlainStays
  <2> QED BY <1>2, <1>8, <2>2
\* Every line above
<1>9. \A i \in 1..n : Unhidden(h, n + 2) => Unhidden(h, i) /\ Unhidden(h, n + 1)
  BY <1>1 DEF Unhidden
\* The functions that are complete after the line
<1>10. ASSUME NEW x, IsDone(x)', PlainHead(h, FirstLine(x), LastLine(x)), Unhidden(h, FirstLine(x))
       PROVE  \/ \E j \in 1..Len(ps) : Matches(ps[j], x)
              \/ /\ InFunction /\ ~InFunction' /\ part # NoBlock /\ PartDepth(l) = 0
                 /\ FirstLine(part) = FirstLine(x) /\ LastLine(x) = n + 1
  <2>1. CASE IsDone(x)
    <3>1. LastLine(x) \in 1..n /\ FirstLine(x) \in 1..n
      <4>1. WholeRun(file, x, LastLine(x))
        BY <2>1 DEF ItemInv, LastLine
      <4>2. LastLine(x) \in 1..n /\ FirstLine(x) \in 1..LastLine(x)
        BY <1>0, <4>1 DEF WholeRun, ItemRun, FirstLine
      <4> QED BY <1>1, <4>2
    <3>2. FirstLine(x) \in 1..(n + 1)
      BY <1>1, <3>1
    <3>3. PlainHead(file, FirstLine(x), LastLine(x)) /\ Unhidden(file, FirstLine(x))
      BY <1>0, <1>1, <1>10, <3>1, <3>2, PlainStays
    <3> QED BY <1>0, <2>1, <3>3 DEF PartCoverInv
  <2>2. CASE IsOne(l) /\ x = Item("function", l)
    <3>1. x.lines = <<n + 1>> /\ <<n + 1>>[1] = n + 1 /\ Len(<<n + 1>>) = 1
      BY <1>1, <2>2 DEF Item
    <3>2. FirstLine(x) = n + 1 /\ LastLine(x) = n + 1 /\ n + 1 \in (n + 1)..(n + 1)
      BY <1>1, <3>1 DEF FirstLine, LastLine
    <3>3. h[n + 1].kind # "oneLiner"
      BY <1>10, <3>2 DEF PlainHead
    <3> QED BY <1>1, <2>2, <3>3 DEF IsOne
  <2>3. CASE InFunction /\ Ends(l) /\ x = Longer(OpenItem)
    <3>1. ~InFunction' /\ OpenItem \in Items /\ Level' = 1
      <4>1. ~InFunction'
        BY <2>3 DEF Ends, InFunction, InUnit
      <4> QED BY <2>3, <4>1, OpenMoves
    <3>2. FirstLine(x) = FirstLine(OpenItem) /\ LastLine(x) = n + 1
      BY <1>1, <2>3, <3>1, LongerIs DEF FirstLine, LastLine, Grammar
    <3> QED BY <1>6, <1>10, <2>3, <3>1, <3>2
  <2> QED BY <1>10, <2>1, <2>2, <2>3, DoneItemStep
<1>11. CASE part = NoBlock /\ l.kind \notin FunctionLines
  <2>1. parts' = ps /\ part' = NoBlock
    BY <1>0, <1>11, PartMoves DEF partVars
  <2>2. \A x : IsDone(x)' /\ PlainHead(h, FirstLine(x), LastLine(x)) /\ Unhidden(h, FirstLine(x)) =>
          \E j \in 1..Len(ps) : Matches(ps[j], x)
    BY <1>10, <1>11
  <2>3. InFunction' /\ Unhidden(h, FirstLine(OpenItem')) => ~PlainHead(h, FirstLine(OpenItem'), n + 1)
    <3> SUFFICES ASSUME InFunction', Unhidden(h, FirstLine(OpenItem')), PlainHead(h, FirstLine(OpenItem'), n + 1)
                 PROVE  FALSE
      OBVIOUS
    <3>1. InFunction
      BY <1>5, <1>11 DEF FunctionLines
    <3> QED BY <1>5, <1>6, <1>11, <3>1
  <2> QED BY <1>0, <1>1, <1>2, <1>3, <2>1, <2>2, <2>3 DEF PartCoverInv
<1>12. CASE ~(part = NoBlock /\ l.kind \notin FunctionLines)
  <2>1. /\ SpanOf(h, b, n + 1) /\ LastLine(b) = n + 1 /\ b # NoBlock
        /\ FirstLine(b) = IF part = NoBlock THEN n + 1 ELSE FirstLine(part)
    BY <1>0, <1>1, <1>2, <1>12, NextBlockIs DEF PartBlock
  <2>2. Len(b.lines) > 1 <=> part # NoBlock
    <3>1. FirstLine(b) \in 1..(n + 1) /\ b.lines = FromTo(FirstLine(b), n + 1)
      BY <2>1 DEF SpanOf
    <3>2. Len(b.lines) = (n + 1) - FirstLine(b) + 1
      <4>1. PICK s, e : s = FirstLine(b) /\ e = n + 1
        OBVIOUS
      <4>2. s \in Nat /\ e \in Nat /\ s >= 1 /\ s <= e
        BY <1>1, <3>1, <4>1
      <4>3. Len(FromTo(s, e)) = e - s + 1
        BY <4>2, FromToIs
      <4> QED BY <3>1, <4>1, <4>3
    <3>3. part # NoBlock => FirstLine(b) \in 1..n
      BY <1>2, <2>1 DEF SpanOf
    <3> QED BY <1>1, <2>1, <3>1, <3>2, <3>3
  <2>3. \A j \in 1..Len(ps) : LastLine(ps[j]) < FirstLine(b)
    <3> SUFFICES ASSUME NEW j \in 1..Len(ps) PROVE LastLine(ps[j]) < FirstLine(b)
      OBVIOUS
    <3>1. LastLine(ps[j]) \in 1..(n + 1) /\ LastLine(ps[j]) <= n
      BY <1>3
    <3> QED BY <1>1, <1>2, <2>1, <3>1
  <2> DEFINE C == PartDepth(l) = 0 /\ part # NoBlock
  <2>4. IF C THEN part' = NoBlock /\ parts' = Append(ps, b)
        ELSE part' = b /\ partDepth' = PartDepth(l) /\ parts' = ps
    BY <1>0, <1>12, <2>2, PartMoves
  <2>5. CASE C
    <3>1. PICK gs, k : gs = parts' /\ k = Len(ps)
      OBVIOUS
    <3>2. /\ gs = Append(ps, b) /\ gs \in Seq(Members(gs)) /\ k \in Nat /\ Len(gs) = k + 1
          /\ (\A j \in 1..k : gs[j] = ps[j]) /\ gs[k + 1] = b
      <4>1. gs = Append(ps, b)
        BY <2>4, <2>5, <3>1
      <4>2. gs \in Seq(Members(gs))
        BY <1>1, <4>1, MembersAppend
      <4>3. ps \in Seq(Members(ps) \cup {b}) /\ b \in Members(ps) \cup {b}
        BY <1>1, SeqMonotonic
      <4>4. Len(gs) = Len(ps) + 1 /\ (\A j \in 1..Len(ps) : gs[j] = ps[j]) /\ gs[Len(ps) + 1] = b
        <5> DEFINE S == Members(ps) \cup {b}
        <5> HIDE DEF S
        <5> QED BY <4>1, <4>3, AppendProperties DEF S
      <4> QED BY <1>1, <3>1, <4>1, <4>2, <4>4
    <3>3. \A j \in 1..(k + 1) : j \in 1..k \/ j = k + 1
      BY <3>2
    <3>4. \A j \in 1..(k + 1) : LastLine(gs[j]) \in 1..(n + 1) /\ SpanOf(h, gs[j], LastLine(gs[j]))
      <4> SUFFICES ASSUME NEW j \in 1..(k + 1)
                   PROVE LastLine(gs[j]) \in 1..(n + 1) /\ SpanOf(h, gs[j], LastLine(gs[j]))
        OBVIOUS
      <4>1. CASE j \in 1..k
        BY <1>3, <3>1, <3>2, <4>1
      <4>2. CASE j = k + 1
        <5>1. gs[j] = b /\ n + 1 \in 1..(n + 1)
          BY <1>1, <3>2, <4>2
        <5> QED BY <2>1, <5>1
      <4> QED BY <3>3, <4>1, <4>2
    <3>5. \A i, j \in 1..(k + 1) : i < j => LastLine(gs[i]) < FirstLine(gs[j])
      <4> SUFFICES ASSUME NEW i \in 1..(k + 1), NEW j \in 1..(k + 1), i < j
                   PROVE LastLine(gs[i]) < FirstLine(gs[j])
        OBVIOUS
      <4>1. i \in 1..k
        BY <3>2
      <4>2. CASE j \in 1..k
        BY <1>2, <3>1, <3>2, <4>1, <4>2
      <4>3. CASE j = k + 1
        BY <2>3, <3>1, <3>2, <4>1, <4>3
      <4> QED BY <3>3, <4>2, <4>3
    <3>6. \A x : IsDone(x)' /\ PlainHead(h, FirstLine(x), LastLine(x)) /\ Unhidden(h, FirstLine(x)) =>
            \E j \in 1..(k + 1) : Matches(gs[j], x)
      <4> SUFFICES ASSUME NEW x, IsDone(x)', PlainHead(h, FirstLine(x), LastLine(x)), Unhidden(h, FirstLine(x))
                   PROVE \E j \in 1..(k + 1) : Matches(gs[j], x)
        OBVIOUS
      <4>1. CASE \E j \in 1..Len(ps) : Matches(ps[j], x)
        <5>1. PICK j \in 1..k : Matches(ps[j], x)
          BY <3>1, <4>1
        <5>2. j \in 1..(k + 1) /\ gs[j] = ps[j]
          BY <3>2, <5>1
        <5> QED BY <5>1, <5>2
      <4>2. CASE FirstLine(part) = FirstLine(x) /\ LastLine(x) = n + 1
        <5>1. k + 1 \in 1..(k + 1)
          BY <3>2
        <5>2. Matches(b, x)
          BY <2>1, <2>5, <4>2 DEF Matches
        <5> QED BY <3>2, <5>1, <5>2
      <4> QED BY <1>10, <4>1, <4>2
    <3>7. InFunction' /\ Unhidden(h, FirstLine(OpenItem')) => ~PlainHead(h, FirstLine(OpenItem'), n + 1)
      <4> SUFFICES ASSUME InFunction', Unhidden(h, FirstLine(OpenItem')), PlainHead(h, FirstLine(OpenItem'), n + 1)
                   PROVE  FALSE
        OBVIOUS
      <4>1. InFunction
        BY <1>5, <1>8, <2>5
      <4>2. PartDepth(l) = Level' - 1 /\ Level' >= 2
        BY <1>5, <1>6, <4>1
      <4> QED BY <1>1, <2>5, <4>2
    <3> HIDE DEF C
    <3> QED BY <1>0, <1>1, <2>4, <2>5, <3>1, <3>2, <3>4, <3>5, <3>6, <3>7 DEF PartCoverInv
  <2>6. CASE ~C
    <3>1. parts' = ps /\ part' = b /\ partDepth' = PartDepth(l)
      BY <2>4, <2>6
    <3>2. \A x : IsDone(x)' /\ PlainHead(h, FirstLine(x), LastLine(x)) /\ Unhidden(h, FirstLine(x)) =>
            \E j \in 1..Len(ps) : Matches(ps[j], x)
      BY <1>10, <2>6
    <3>3. InFunction' /\ Unhidden(h, FirstLine(OpenItem')) =>
            FirstLine(b) = FirstLine(OpenItem') /\ PartDepth(l) = Level' - 1
      <4> SUFFICES ASSUME InFunction', Unhidden(h, FirstLine(OpenItem'))
                   PROVE FirstLine(b) = FirstLine(OpenItem') /\ PartDepth(l) = Level' - 1
        OBVIOUS
      <4>1. CASE InFunction
        <5>1. l.kind \notin FunctionLines
          <6>1. l.kind \notin Bodies
            BY <1>12, <4>1, OpenMoves
          <6> QED BY <6>1 DEF Bodies
        <5>2. part # NoBlock
          BY <1>12, <5>1
        <5> QED BY <1>5, <1>7, <2>1, <4>1, <5>2
      <4>2. CASE ~InFunction
        <5>1. FirstLine(OpenItem') = n + 1 /\ Level = 1 /\ part = NoBlock
          BY <1>5, <1>8, <4>2
        <5>2. Delta(l) \in Int
          BY BracesOf
        <5>3. PartDepth(l) = Level' - 1
          BY <1>1, <5>1, <5>2 DEF PartDepth
        <5> QED BY <2>1, <5>1, <5>3
      <4> QED BY <4>1, <4>2
    <3>4. ~(~InFunction' /\ Unhidden(h, n + 2))
      <4> SUFFICES ASSUME ~InFunction', Unhidden(h, n + 2) PROVE FALSE
        OBVIOUS
      <4>1. l.kind \notin {"declaration", "oneLiner"}
        <5>1. n + 1 \in 1..((n + 2) - 1)
          BY <1>1
        <5> QED BY <1>1, <5>1 DEF Unhidden
      <4>2. CASE ~InFunction
        <5>1. Unhidden(h, n + 1)
          BY <1>1 DEF Unhidden
        <5>2. l.kind \in FunctionLines
          BY <1>8, <1>12, <4>2, <5>1
        <5>3. l.kind \in {"function", "signature"}
          BY <4>1, <5>2 DEF FunctionLines
        <5> QED BY <4>1, <4>2, <5>3, OpenMoves
      <4>3. CASE InFunction
        <5>1. Level' = 1 /\ l.kind = "close"
          BY <4>3, OpenMoves
        <5>2. Unhidden(h, FirstLine(OpenItem))
          BY <1>4, <1>9, <4>3
        <5>3. part # NoBlock
          BY <1>12, <5>1 DEF FunctionLines
        <5>4. PartDepth(l) = 0
          BY <1>7, <4>3, <5>1, <5>2, <5>3
        <5> QED BY <2>6, <5>3, <5>4
      <4> QED BY <4>2, <4>3
    <3>5. Len(h) + 1 = n + 2
      BY <1>1
    <3> HIDE DEF C
    <3> QED BY <1>0, <1>1, <1>2, <1>3, <2>1, <2>3, <3>1, <3>2, <3>3, <3>4, <3>5 DEF PartCoverInv
  <2> QED BY <2>5, <2>6
<1> QED BY <1>11, <1>12

-----------------------------------------------------------------------------
(* The functions that are complete stay so, and every head begins one *)

\* A complete function stays complete, in its contract.
LEMMA DoneStays ==
  ASSUME Grammar, NEW l, Reads(l), NEW x, NEW k, IsDoneIn(x, k)
  PROVE  IsDoneIn(x, k)'
<1>0. PICK s, t, m : s = source /\ t = source' /\ m = Len(source)
  OBVIOUS
<1>1. /\ Typed /\ Shape /\ l \in LineChoices(style)
      /\ Len(file) \in Nat
      /\ Outside(l) \/ Begins(l) \/ IsOne(l) \/ Continues(l) \/ Ends(l)
      /\ scopes # <<>> => source # <<>>
      /\ OpenInv /\ m \in Nat /\ l.kind \in Kinds
  BY <1>0, GrammarStep, FileIs, LenProperties DEF Grammar, Typed
<1>2. PICK j \in 1..Len(s[k].items) : /\ x = s[k].items[j] /\ x.kind = "function"
                                      /\ InUnit /\ k = m => j # Len(s[k].items)
  BY <1>0 DEF IsDoneIn
<1>3. k \in 1..m /\ (InContract \/ InUnit => scopes # <<>> /\ source # <<>>)
  BY <1>0, <1>1, TopIs DEF InContract, InUnit, Second, NoName, IsDoneIn
<1>4. ASSUME Len(t) >= m, Len(t) \in Nat, j \in 1..Len(t[k].items), x = t[k].items[j],
             InUnit' /\ k = Len(t) => j # Len(t[k].items)
      PROVE  IsDoneIn(x, k)'
  <2>1. k \in 1..Len(t)
    BY <1>1, <1>3, <1>4
  <2> QED BY <1>0, <1>2, <1>4, <2>1 DEF IsDoneIn
<1>5. CASE Outside(l)
  <2>1. ~InUnit /\ ~InUnit'
    BY <1>5 DEF Outside
  <2>2. CASE ContractLine(l)
    <3>1. Len(source') = Len(source) + 1 /\ (\A i \in 1..Len(source) : source'[i] = source[i])
      BY <1>1, <2>2, NewContractIs DEF ContractLine
    <3>2. Len(t) = m + 1 /\ t[k] = s[k]
      BY <1>0, <1>3, <3>1
    <3> QED BY <1>1, <1>2, <1>4, <2>1, <3>2
  <2>3. CASE VariableLine(l)
    <3>1. source # <<>> /\ source' = WithVariable(l)
      BY <1>3, <2>3 DEF VariableLine
    <3>2. Len(t) = m /\ t[k].items = s[k].items
      BY <1>0, <1>1, <1>3, <3>1, WithVariableIs
    <3> QED BY <1>1, <1>2, <1>4, <2>1, <3>2
  <2>4. CASE source' = source
    BY <1>0, <1>1, <1>2, <1>4, <2>1, <2>4
  <2> QED BY <1>5, <2>2, <2>3, <2>4 DEF Outside
<1>6. CASE Begins(l) \/ IsOne(l)
  <2>1. source # <<>> /\ source' = Begun(l) /\ ~InUnit
    BY <1>3, <1>6 DEF Begins, IsOne
  <2> DEFINE its == LastContract.items
             z   == Item(UnitKind(l), l)
  <2>2. /\ Len(t) = m /\ m \in 1..m /\ (k # m => t[k] = s[k])
    BY <1>0, <1>1, <1>3, <2>1, BegunIs, LastIs
  <2>3. /\ t[m].items = Append(its, z) /\ its = s[m].items /\ its \in Seq(Items) /\ z \in Items
    <3>1. source'[Len(source)].items = Append(its, z) /\ its \in Seq(Items) /\ z \in Items
      BY <1>1, <2>1, BegunIs, LastIs, ItemType
    <3> HIDE DEF z
    <3> QED BY <1>0, <3>1 DEF LastContract
  <2> HIDE DEF its, z
  <2>4. Len(t[m].items) = Len(its) + 1 /\ Len(its) \in Nat /\ \A i \in 1..Len(its) : t[m].items[i] = its[i]
    BY <2>3, AppendProperties, LenProperties
  <2>5. CASE k # m
    BY <1>1, <1>2, <1>4, <2>2, <2>5
  <2>6. CASE k = m
    <3>1. j \in 1..Len(its) /\ j \in 1..Len(t[k].items) /\ j # Len(t[k].items) /\ x = t[k].items[j]
      BY <1>2, <2>3, <2>4, <2>6
    <3> QED BY <1>1, <1>4, <2>2, <3>1
  <2> QED BY <2>5, <2>6
<1>7. CASE Continues(l) \/ Ends(l)
  <2>1. InUnit /\ source # <<>> /\ LastContract.items # <<>>
    BY <1>1, <1>3, <1>7 DEF Continues, Ends, OpenInv
  <2>2. CASE Continues(l) /\ source' = source
    BY <1>0, <1>1, <1>2, <1>4, <2>1, <2>2
  <2>3. CASE source' = Grown
    <3>1. /\ Len(t) = m /\ m \in 1..m /\ (k # m => t[k] = s[k])
      BY <1>0, <1>1, <1>3, <2>1, <2>3, GrownIs, LastIs
    <3>2. /\ Len(t[m].items) = Len(s[m].items)
          /\ \A i \in 1..Len(s[m].items) : i # Len(s[m].items) => t[m].items[i] = s[m].items[i]
      <4>1. /\ Len(source'[Len(source)].items) = Len(LastContract.items)
            /\ \A i \in 1..Len(LastContract.items) :
                 source'[Len(source)].items[i] = IF i = Len(LastContract.items) THEN Longer(LastItem(LastContract)) ELSE LastContract.items[i]
        <5>1. Len(source) \in 1..Len(source)
          BY <1>1, <2>1, LastIs
        <5> QED BY <1>1, <2>1, <2>3, <5>1, GrownIs DEF LastContract
      <4> QED BY <1>0, <4>1 DEF LastContract
    <3>3. CASE k # m
      BY <1>1, <1>2, <1>4, <3>1, <3>3
    <3>4. CASE k = m
      BY <1>1, <1>2, <1>4, <2>1, <3>1, <3>2, <3>4
    <3> QED BY <3>3, <3>4
  <2> QED BY <1>7, <2>2, <2>3 DEF Continues, Ends
<1> QED BY <1>1, <1>5, <1>6, <1>7

\* A function that ends is complete.
LEMMA DoneNow ==
  ASSUME Grammar, NEW l, Reads(l), NEW x, NEW k, k = Len(source),
         \/ IsOne(l) /\ x = Item("function", l)
         \/ InFunction /\ ~InFunction' /\ x = Longer(OpenItem)
  PROVE  IsDoneIn(x, k)'
<1>0. PICK s, t : s = source /\ t = source'
  OBVIOUS
<1>1. /\ Typed /\ Shape /\ l \in LineChoices(style) /\ Len(file) \in Nat
      /\ scopes # <<>> => source # <<>>
      /\ OpenInv /\ k \in Nat
  BY <1>0, FileIs, LenProperties DEF Grammar, Typed
<1>2. InContract \/ InFunction => scopes # <<>> /\ source # <<>>
  BY <1>1, TopIs DEF InContract, InFunction, Second, NoName
<1>3. ASSUME Len(t) = k, k \in 1..k, ~InUnit', x.kind = "function", NEW j \in 1..Len(t[k].items), x = t[k].items[j]
      PROVE  IsDoneIn(x, k)'
  BY <1>0, <1>3 DEF IsDoneIn
<1>4. CASE IsOne(l) /\ x = Item("function", l)
  <2>1. source # <<>> /\ source' = Begun(l) /\ ~InUnit' /\ l.kind = "oneLiner"
    BY <1>2, <1>4 DEF IsOne
  <2>2. UnitKind(l) = "function"
    BY <2>1 DEF UnitKind, FunctionLines
  <2> DEFINE its == LastContract.items
  <2>3. /\ Len(t) = k /\ k \in 1..k /\ t[k].items = Append(its, x) /\ its \in Seq(Items) /\ x \in Items
        /\ x.kind = "function"
    BY <1>0, <1>1, <1>4, <2>1, <2>2, BegunIs, LastIs, ItemType
  <2> HIDE DEF its
  <2>4. Len(t[k].items) = Len(its) + 1 /\ Len(its) \in Nat /\ t[k].items[Len(its) + 1] = x
    BY <2>3, AppendProperties, LenProperties
  <2>5. Len(its) + 1 \in 1..Len(t[k].items)
    BY <2>4
  <2> QED BY <1>3, <2>1, <2>3, <2>4, <2>5
<1>5. CASE InFunction /\ ~InFunction' /\ x = Longer(OpenItem)
  <2>1. InUnit /\ source # <<>> /\ LastContract.items # <<>> /\ Ends(l) /\ ~InUnit' /\ source' = Grown
    <3>1. Ends(l)
      BY <1>5, OpenMoves
    <3> QED BY <1>1, <1>2, <1>5, <3>1 DEF Ends, OpenInv, InUnit
  <2>2. OpenItem.kind = "function" /\ OpenItem \in Items
    BY <1>1, <1>5, <2>1, LastIs DEF OpenInv, OpenItem
  <2> DEFINE j == Len(LastContract.items)
  <2>3. /\ Len(t) = k /\ k \in 1..k
        /\ Len(t[k].items) = j /\ j \in 1..j
        /\ t[k].items[j] = x
    <3>1. Len(source) \in 1..Len(source) /\ Len(LastContract.items) \in 1..Len(LastContract.items)
      BY <1>1, <2>1, LastIs
    <3>2. /\ Len(source') = Len(source) /\ Len(source'[Len(source)].items) = Len(LastContract.items)
          /\ source'[Len(source)].items[Len(LastContract.items)] = Longer(LastItem(LastContract))
      BY <1>1, <2>1, <3>1, GrownIs DEF LastContract
    <3> QED BY <1>0, <1>5, <3>1, <3>2 DEF OpenItem
  <2>4. x.kind = "function"
    BY <1>1, <1>5, <2>2, LongerIs
  <2> QED BY <1>3, <2>1, <2>3, <2>4
<1> QED BY <1>4, <1>5

\* The functions that are complete after a line
LEMMA DoneKept ==
  ASSUME Grammar, NEW l, Reads(l), NEW x,
         \/ IsDone(x)
         \/ IsOne(l) /\ x = Item("function", l)
         \/ InFunction /\ ~InFunction' /\ x = Longer(OpenItem)
  PROVE  IsDone(x)'
<1>1. ASSUME NEW k, IsDoneIn(x, k)' PROVE IsDone(x)'
  BY <1>1 DEF IsDone, IsDoneIn
<1>2. CASE IsDone(x)
  <2>1. PICK k : IsDoneIn(x, k)
    BY <1>2 DEF IsDone
  <2> QED BY <1>1, <2>1, DoneStays
<1>3. CASE ~IsDone(x)
  <2>1. PICK k : k = Len(source)
    OBVIOUS
  <2>2. IsDoneIn(x, k)'
    BY <1>3, <2>1, DoneNow
  <2> QED BY <1>1, <2>2
<1> QED BY <1>2, <1>3

\* A head with a body begins a function that is complete or the one that is open.
StartInv ==
  \A m \in 1..Len(file) : file[m].kind \in {"function", "oneLiner", "signature"} =>
    \/ \E x : IsDone(x) /\ x.lines[1] = m
    \/ InFunction /\ OpenItem.lines[1] = m

\* Every line preserves this.
LEMMA StartStep ==
  ASSUME Grammar, ItemInv, StartInv, NEW l, Reads(l)
  PROVE  StartInv'
<1>0. PICK n, h, u, v : n = Len(file) /\ h = file' /\ u = OpenItem /\ v = OpenItem'
  OBVIOUS
<1>1. /\ Typed /\ n \in Nat /\ Here = n + 1 /\ Len(h) = n + 1 /\ (\A i \in 1..n : h[i] = file[i]) /\ h[n + 1] = l
  BY <1>0, FileIs DEF Grammar
<1>2. InFunction => u \in Items /\ Longer(u).lines[1] = u.lines[1]
  <2>1. InFunction => u \in Items
    BY <1>0, OpenMoves
  <2> QED BY <1>1, <2>1, LongerIs
<1>3. Item("function", l).lines[1] = n + 1
  BY <1>1 DEF Item
<1>4. \A m \in 1..(n + 1) : h[m].kind \in {"function", "oneLiner", "signature"} =>
        (\E x : IsDone(x)' /\ x.lines[1] = m) \/ (InFunction' /\ v.lines[1] = m)
  <2> SUFFICES ASSUME NEW m \in 1..(n + 1), h[m].kind \in {"function", "oneLiner", "signature"}
               PROVE  (\E x : IsDone(x)' /\ x.lines[1] = m) \/ (InFunction' /\ v.lines[1] = m)
    OBVIOUS
  <2>1. CASE m \in 1..n
    <3>1. (\E x : IsDone(x) /\ x.lines[1] = m) \/ (InFunction /\ u.lines[1] = m)
      BY <1>0, <1>1, <2>1 DEF StartInv
    <3>2. CASE \E x : IsDone(x) /\ x.lines[1] = m
      <4>1. PICK x : IsDone(x) /\ x.lines[1] = m
        BY <3>2
      <4>2. IsDone(x)'
        BY <4>1, DoneKept
      <4> QED BY <4>1, <4>2
    <3>3. CASE InFunction /\ u.lines[1] = m /\ InFunction'
      <4>1. v = u \/ v = Longer(u)
        BY <1>0, <3>3, OpenMoves
      <4> QED BY <1>2, <3>3, <4>1
    <3>4. CASE InFunction /\ u.lines[1] = m /\ ~InFunction'
      <4>1. PICK x : x = Longer(OpenItem)
        OBVIOUS
      <4>2. IsDone(x)'
        BY <3>4, <4>1, DoneKept
      <4> QED BY <1>0, <1>2, <3>4, <4>1, <4>2
    <3> QED BY <3>1, <3>2, <3>3, <3>4
  <2>2. CASE m = n + 1
    <3>1. CASE l.kind = "oneLiner"
      <4>1. PICK x : x = Item("function", l)
        OBVIOUS
      <4>2. IsDone(x)'
        BY <3>1, <4>1, OpenMoves, DoneKept
      <4> QED BY <1>3, <2>2, <4>1, <4>2
    <3>2. CASE l.kind \in {"function", "signature"}
      <4>1. l.kind \in Bodies /\ l.kind # "close" /\ l.kind # "declaration"
        BY <3>2 DEF Bodies, FunctionLines
      <4>2. InFunction' /\ ~InFunction
        BY <3>2, <4>1, OpenMoves
      <4>3. v = Item("function", l)
        BY <1>0, <4>2, OpenMoves
      <4> QED BY <1>3, <2>2, <4>2, <4>3
    <3> QED BY <1>1, <2>2, <3>1, <3>2
  <2> QED BY <1>1, <2>1, <2>2
<1> QED BY <1>0, <1>1, <1>4 DEF StartInv

-----------------------------------------------------------------------------
(* AccessControlForAReason *)

\* The lines from a to e
LEMMA SpanLines ==
  ASSUME NEW a \in Nat, NEW e \in Nat, a >= 1, a <= e
  PROVE  /\ Len(FromTo(a, e)) = e - a + 1 /\ FromTo(a, e)[1] = a
         /\ \A i \in 1..(e - a + 1) : FromTo(a, e)[i] = a + i - 1
         /\ \A m \in a..e : \E i \in 1..Len(FromTo(a, e)) : FromTo(a, e)[i] = m
         /\ \A i \in 1..Len(FromTo(a, e)) : FromTo(a, e)[i] \in a..e
<1>1. /\ Len(FromTo(a, e)) = e - a + 1 /\ FromTo(a, e)[1] = a
      /\ \A i \in 1..(e - a + 1) : FromTo(a, e)[i] = a + i - 1
  BY FromToIs
<1>2. \A m \in a..e : \E i \in 1..Len(FromTo(a, e)) : FromTo(a, e)[i] = m
  BY FromToIs
<1>3. \A i \in 1..Len(FromTo(a, e)) : FromTo(a, e)[i] \in a..e
  <2> TAKE i \in 1..Len(FromTo(a, e))
  <2>1. i \in 1..(e - a + 1) /\ FromTo(a, e)[i] = a + i - 1
    BY <1>1
  <2> QED BY <2>1
<1> QED BY <1>1, <1>2, <1>3

\* What the lines of a function, and the block taken for it, say
LEMMA LinesSay ==
  ASSUME Typed, NEW x, NEW a, NEW b, NEW e, LaidOut(x, a, b, e)
  PROVE  /\ \A k : k # "comment" => (k \in LineKinds(x) <=> \E m \in a..e : file[m].kind = k)
         /\ \A k : k \in KindsIn(FromTo(a, e)) <=> \E m \in a..e : file[m].kind = k
         /\ (\A m \in a..e : file[m].kind # "attributes") => AllMarks(x) = file[a].marks
         /\ AllMarks(x) = {} => file[a].marks = {}
         /\ \A m \in a..e : file[m].kind # "attributes" /\ m # a => file[m].marks = {}
         /\ \A m \in (a + 1)..e : file[m].kind \notin Bodies
         /\ FromTo(a, e)[1] = a
         /\ \A m \in a..e : \E i \in 1..Len(FromTo(a, e)) : FromTo(a, e)[i] = m
         /\ \A i \in 1..Len(FromTo(a, e)) : FromTo(a, e)[i] \in a..e
<1>1. /\ a \in Nat /\ b \in Nat /\ e \in Nat /\ 1 <= a /\ a <= b /\ b <= e /\ e <= Len(file)
      /\ Members(x.lines) = {m \in a..e : file[m].kind # "comment"}
      /\ (\A m \in (a + 1)..e : file[m].kind \notin Bodies)
      /\ file[a].kind \in {"function", "oneLiner", "signature"}
  BY DEF LaidOut, ItemRun
<1>2. /\ \A i \in 1..Len(x.lines) : x.lines[i] \in Members(x.lines)
      /\ \A m \in Members(x.lines) : \E i \in 1..Len(x.lines) : x.lines[i] = m
  BY DEF Members
<1>3. \A k : k # "comment" => (k \in LineKinds(x) <=> \E m \in a..e : file[m].kind = k)
  <2> SUFFICES ASSUME NEW k, k # "comment" PROVE k \in LineKinds(x) <=> \E m \in a..e : file[m].kind = k
    OBVIOUS
  <2>1. ASSUME k \in LineKinds(x) PROVE \E m \in a..e : file[m].kind = k
    <3>1. PICK i \in 1..Len(x.lines) : file[x.lines[i]].kind = k
      BY <2>1 DEF LineKinds
    <3> QED BY <1>1, <1>2, <3>1
  <2>2. ASSUME NEW m \in a..e, file[m].kind = k PROVE k \in LineKinds(x)
    <3>1. PICK i \in 1..Len(x.lines) : x.lines[i] = m
      BY <1>1, <1>2, <2>2
    <3> QED BY <2>2, <3>1 DEF LineKinds
  <2> QED BY <2>1, <2>2
<1>a. /\ FromTo(a, e)[1] = a
      /\ \A m \in a..e : \E i \in 1..Len(FromTo(a, e)) : FromTo(a, e)[i] = m
      /\ \A i \in 1..Len(FromTo(a, e)) : FromTo(a, e)[i] \in a..e
  <2>1. a >= 1 /\ a <= e /\ a \in Nat /\ e \in Nat
    BY <1>1
  <2>2. Len(FromTo(a, e)) = e - a + 1 /\ \A z \in 1..(e - a + 1) : FromTo(a, e)[z] = a + z - 1
    BY <2>1, SpanLines
  <2>3. FromTo(a, e)[1] = a
    BY <2>1, <2>2
  <2>4. ASSUME NEW m \in a..e PROVE \E i \in 1..Len(FromTo(a, e)) : FromTo(a, e)[i] = m
    <3>1. m - a + 1 \in 1..(e - a + 1) /\ a + (m - a + 1) - 1 = m
      BY <2>1
    <3> QED BY <2>2, <3>1
  <2>5. ASSUME NEW i \in 1..Len(FromTo(a, e)) PROVE FromTo(a, e)[i] \in a..e
    BY <2>1, <2>2
  <2> QED BY <2>3, <2>4, <2>5
<1>4. \A k : k \in KindsIn(FromTo(a, e)) <=> \E m \in a..e : file[m].kind = k
  BY <1>a DEF KindsIn
<1>5. \A m \in a..e : file[m].kind # "attributes" /\ m # a => file[m].marks = {}
  <2> SUFFICES ASSUME NEW m \in a..e, file[m].kind # "attributes", m # a PROVE file[m].marks = {}
    OBVIOUS
  <2>1. m \in (a + 1)..e /\ m \in 1..Len(file)
    BY <1>1
  <2>2. file[m].kind \notin Bodies /\ file[m] \in LineChoices(style) /\ style \in Styles
    BY <1>1, <2>1 DEF Typed
  <2> QED BY <2>2, LineSays DEF Bodies, FunctionLines
<1>6. a \in Members(x.lines) /\ a \in a..e
  BY <1>1
<1>7. \A m \in Members(x.lines) : file[m].marks \subseteq AllMarks(x)
  BY <1>2 DEF AllMarks
<1>8. ASSUME \A m \in a..e : file[m].kind # "attributes" PROVE AllMarks(x) = file[a].marks
  <2>1. \A i \in 1..Len(x.lines) : file[x.lines[i]].marks = {} \/ x.lines[i] = a
    BY <1>1, <1>2, <1>5, <1>8
  <2> QED BY <1>6, <1>7, <2>1 DEF AllMarks
<1> QED BY <1>1, <1>3, <1>4, <1>5, <1>6, <1>7, <1>8, <1>a

\* An access-control guard that the path tracker finds in a function is a line of it.
LEMMA GuardIsLine ==
  ASSUME Typed, NEW x, NEW a, NEW b, NEW e, LaidOut(x, a, b, e),
         HasAccessControlGuard(Stripped(LinesOf(FromTo(a, e))))
  PROVE  \E m \in a..e : file[m].kind = "ownerCheck"
<1> DEFINE ls == LinesOf(FromTo(a, e))
<1>1. /\ a \in Nat /\ b \in Nat /\ e \in Nat /\ 1 <= a /\ a <= b /\ b <= e /\ e <= Len(file)
      /\ Len(ls) = e - a + 1 /\ \A i \in 1..(e - a + 1) : ls[i] = file[a + i - 1]
  <2>1. a \in Nat /\ b \in Nat /\ e \in Nat /\ 1 <= a /\ a <= b /\ b <= e /\ e <= Len(file)
    BY DEF LaidOut
  <2>2. a <= e
    BY <2>1
  <2> QED BY <2>1, <2>2, PartOf
<1>2. /\ e = b => Len(Stripped(ls)) = 1 /\ Stripped(ls)[1] = Plain("other")
      /\ e = b + 1 => Stripped(ls) = ls
      /\ e > b + 1 => /\ Len(Stripped(ls)) = e - b - 1
                      /\ \A i \in 1..(e - b - 1) : Stripped(ls)[i] = file[b + i]
  <2>1. BodySeen(ls, a, b, e)
    BY BodyIs
  <2> HIDE DEF ls
  <2> QED BY <2>1 DEF BodySeen
<1>a. a \in Nat /\ b \in Nat /\ e \in Nat /\ a <= b /\ b <= e
  BY <1>1
<1>3. PICK i \in 1..Len(Stripped(ls)) : MatchGuard(Stripped(ls)[i]) = "access-control"
  BY DEF HasAccessControlGuard, EarlyGuards
<1> HIDE DEF ls
<1>4. Stripped(ls)[i].kind = "ownerCheck"
  BY <1>3 DEF MatchGuard, NoName
<1>5. CASE e = b
  <2>1. Plain("other").kind = "other"
    BY DEF Plain
  <2>2. Len(Stripped(ls)) = 1 /\ Stripped(ls)[1] = Plain("other")
    BY <1>2, <1>5
  <2>3. i = 1
    BY <1>3, <2>2
  <2> QED BY <1>4, <2>1, <2>2, <2>3
<1>6. CASE e = b + 1
  <2>1. i \in 1..(e - a + 1) /\ ls[i].kind = "ownerCheck"
    BY <1>1, <1>2, <1>3, <1>4, <1>6
  <2>2. file[a + i - 1].kind = "ownerCheck"
    BY <1>1, <2>1
  <2>3. a + i - 1 \in a..e
    BY <1>a, <2>1
  <2> QED BY <2>2, <2>3
<1>7. CASE e > b + 1
  <2>1. i \in 1..(e - b - 1) /\ file[b + i].kind = "ownerCheck"
    <3>1. Len(Stripped(ls)) = e - b - 1 /\ \A z \in 1..(e - b - 1) : Stripped(ls)[z] = file[b + z]
      BY <1>2, <1>7
    <3>2. i \in 1..(e - b - 1)
      BY <1>3, <3>1
    <3> QED BY <1>4, <3>1, <3>2
  <2>2. b + i \in a..e
    BY <1>a, <2>1
  <2> QED BY <2>1, <2>2
<1> QED BY <1>1, <1>5, <1>6, <1>7

\* The block of a function on lines a to e
BlockOf(x, a, e) == [name |-> x.name, lines |-> FromTo(a, e)]

\* The detector's checks of a function's own block are those of the property.
LEMMA AccessIs ==
  ASSUME Typed, NEW x, NEW a, NEW b, NEW e, LaidOut(x, a, b, e),
         "attributes" \notin KindsIn(FromTo(a, e)),
         file[a].visibility # "internal", x.name \notin Underscored
  PROVE  ~Exempt(BlockOf(x, a, e)) /\ ~HasControl(BlockOf(x, a, e)) /\ Sensitive(BlockOf(x, a, e))
           <=> /\ LineKinds(x) \cap Controls(x) = {} /\ AllMarks(x) = {}
               /\ x.name \in Critical \/ "write" \in LineKinds(x)
<1> DEFINE K(k) == \E m \in a..e : file[m].kind = k
<1>1. /\ a \in Nat /\ e \in Nat /\ 1 <= a /\ a <= e /\ e <= Len(file)
      /\ x.name = file[a].name /\ file[a].kind \in {"function", "oneLiner", "signature"}
  <2>1. a \in Nat /\ b \in Nat /\ e \in Nat /\ 1 <= a /\ a <= b /\ b <= e /\ e <= Len(file)
    BY DEF LaidOut
  <2>2. x.name = file[a].name /\ file[a].kind \in {"function", "oneLiner", "signature"}
    BY DEF LaidOut, ItemRun
  <2> QED BY <2>1, <2>2
<1>2. BlockOf(x, a, e).name = x.name /\ BlockOf(x, a, e).lines = FromTo(a, e)
  BY DEF BlockOf
<1>3. /\ \A k : k # "comment" => (k \in LineKinds(x) <=> K(k))
      /\ \A k : k \in KindsIn(FromTo(a, e)) <=> K(k)
      /\ AllMarks(x) = file[a].marks
      /\ \A m \in a..e : m # a => file[m].marks = {}
  <2>1. \A m \in a..e : file[m].kind # "attributes"
    BY LinesSay
  <2> QED BY <2>1, LinesSay
<1>4. /\ FromTo(a, e)[1] = a
      /\ \A m \in a..e : \E i \in 1..Len(FromTo(a, e)) : FromTo(a, e)[i] = m
  BY LinesSay
<1>5. \A i \in 1..Len(FromTo(a, e)) : FromTo(a, e)[i] \in a..e
  BY LinesSay
<1>6. Sensitive(BlockOf(x, a, e)) <=> x.name \in Critical \/ "write" \in LineKinds(x)
  <2>1. Sensitive(BlockOf(x, a, e)) <=> x.name \in Critical \/ "write" \in KindsIn(FromTo(a, e))
    BY <1>2 DEF Sensitive, KindsIn
  <2>2. "write" \in KindsIn(FromTo(a, e)) <=> "write" \in LineKinds(x)
    BY <1>3
  <2> QED BY <2>1, <2>2
<1>7. HasControl(BlockOf(x, a, e)) <=> K("ownerCheck") \/ K("ownableInit") \/ "onlyOwner" \in AllMarks(x)
  <2>1. HasControl(BlockOf(x, a, e)) <=> \E m \in a..e : file[m].kind \in {"ownerCheck", "ownableInit"} \/ "onlyOwner" \in file[m].marks
    BY <1>2, <1>4, <1>5 DEF HasControl
  <2>2. (\E m \in a..e : "onlyOwner" \in file[m].marks) <=> "onlyOwner" \in file[a].marks
    <3>1. a \in a..e
      BY <1>1
    <3> QED BY <1>3, <3>1
  <2> QED BY <1>3, <2>1, <2>2
<1>8. /\ Exempt(BlockOf(x, a, e)) => K("ownerCheck") \/ AllMarks(x) # {} \/ (x.name = "initialize" /\ K("initCheck"))
      /\ AllMarks(x) # {} \/ (x.name = "initialize" /\ K("initCheck")) => Exempt(BlockOf(x, a, e))
  <2>1. HasAccessControlGuard(Stripped(LinesOf(BlockOf(x, a, e).lines))) => K("ownerCheck")
    BY <1>2, GuardIsLine
  <2>2. ~BodylessSignature(file[BlockOf(x, a, e).lines[1]]) /\ file[BlockOf(x, a, e).lines[1]] = file[a]
    BY <1>1, <1>2, <1>4 DEF BodylessSignature
  <2>3. SafeFromAC(file[a]) <=> AllMarks(x) # {}
    BY <1>1, <1>3 DEF SafeFromAC
  <2>4. HasManualInitializerGuard(BlockOf(x, a, e)) <=> K("initCheck")
    BY <1>2, <1>3 DEF HasManualInitializerGuard
  <2>5. InlineProtected(BlockOf(x, a, e)) => K("ownerCheck")
    BY <1>2, <1>5 DEF InlineProtected
  <2> HIDE DEF K
  <2> QED BY <1>2, <2>1, <2>2, <2>3, <2>4, <2>5 DEF Exempt
<1>9. LineKinds(x) \cap Controls(x) = {}
        <=> ~K("ownerCheck") /\ ~K("ownableInit") /\ ~(x.name = "initialize" /\ K("initCheck"))
  <2>1. /\ "ownerCheck" \in LineKinds(x) <=> K("ownerCheck")
        /\ "ownableInit" \in LineKinds(x) <=> K("ownableInit")
        /\ "initCheck" \in LineKinds(x) <=> K("initCheck")
    BY <1>3
  <2> HIDE DEF K
  <2> QED BY <2>1 DEF Controls
<1> HIDE DEF K
<1> QED BY <1>6, <1>7, <1>8, <1>9

\* What AccessControlDetector finds comes of a block.
LEMMA AccessFinds ==
  ASSUME NEW r
  PROVE  r \in AccessControl <=>
           \E j \in 1..Len(parts) : /\ ~Exempt(parts[j]) /\ ~HasControl(parts[j]) /\ Sensitive(parts[j])
                                    /\ r = [rule |-> "access-control", name |-> parts[j].name,
                                            line |-> parts[j].lines[1], of |-> parts[j].lines]
BY DEF AccessControl

\* The blocks of extractFunctionBlocks do not meet.
LEMMA PartsApart ==
  ASSUME PartCoverInv, Len(file) \in Nat, NEW i \in 1..Len(parts), NEW j \in 1..Len(parts),
         FirstLine(parts[i]) = FirstLine(parts[j])
  PROVE  i = j
<1>1. /\ i < j => LastLine(parts[i]) < FirstLine(parts[j])
      /\ j < i => LastLine(parts[j]) < FirstLine(parts[i])
  BY DEF PartCoverInv
<1>2. \A k \in 1..Len(parts) : FirstLine(parts[k]) \in 1..LastLine(parts[k]) /\ LastLine(parts[k]) \in 1..Len(file)
  BY DEF PartCoverInv, SpanOf
<1>3. i \in Int /\ j \in Int
  BY DEF PartCoverInv
<1> QED BY <1>1, <1>2, <1>3

\* A function that is laid out the way extractFunctionBlocks knows is reported if and only
\* if it needs a check of the sender and has none.
LEMMA AccessFound ==
  ASSUME Grammar, DepthInv, PlaceInv, ItemInv, PartCoverInv, NEW f, IsDone(f),
         file[f.lines[1]].visibility # "internal", f.name \notin Underscored,
         LineKinds(f) \cap {"attributes", "oneLiner"} = {},
         ~(file[f.lines[1]].kind = "signature" /\ file[f.lines[1] + 1].kind = "comment"),
         ~Before(f.lines[1], {"declaration", "oneLiner"})
  PROVE  (LineKinds(f) \cap Controls(f) = {} /\ AllMarks(f) = {} /\ (f.name \in Critical \/ "write" \in LineKinds(f)))
           <=> (\E r \in AccessControl : r.line = f.lines[1] /\ r.name = f.name)
<1>0. Typed /\ Len(file) \in Nat
  BY LenProperties DEF Grammar, Typed
<1>1. PICK a, b, e : LaidOut(f, a, b, e)
  BY Layout
<1>2. /\ f.lines[1] = a /\ f.lines[Len(f.lines)] = e /\ a \in Nat /\ e \in Nat /\ f.name = file[a].name
  BY <1>1 DEF LaidOut, ItemRun
<1>3. /\ \A k : k # "comment" => (k \in LineKinds(f) <=> \E m \in a..e : file[m].kind = k)
      /\ \A k : k \in KindsIn(FromTo(a, e)) <=> \E m \in a..e : file[m].kind = k
  BY <1>0, <1>1, LinesSay
<1>4. "attributes" \notin KindsIn(FromTo(a, e)) /\ \A m \in a..e : file[m].kind \notin {"attributes", "oneLiner"}
  BY <1>3
<1>5. PlainHead(file, a, e) /\ Unhidden(file, a)
  <2>1. PlainHead(file, a, e)
    BY <1>2, <1>4 DEF PlainHead
  <2>2. Unhidden(file, a)
    BY <1>2 DEF Unhidden, Before
  <2> QED BY <2>1, <2>2
<1>6. PICK j \in 1..Len(parts) : Matches(parts[j], f)
  BY <1>2, <1>5 DEF PartCoverInv, FirstLine, LastLine
<1>7. FirstLine(parts[j]) = a /\ LastLine(parts[j]) = e
  BY <1>2, <1>6 DEF Matches, FirstLine, LastLine
<1>8. parts[j] = BlockOf(f, a, e)
  <2>1. SpanOf(file, parts[j], LastLine(parts[j]))
    BY DEF PartCoverInv
  <2> QED BY <1>2, <1>7, <2>1 DEF SpanOf, BlockOf
<1>9. parts[j].lines[1] = a /\ parts[j].name = f.name
  BY <1>7, <1>8 DEF FirstLine, BlockOf
<1>10. (\E r \in AccessControl : r.line = a /\ r.name = f.name)
         <=> ~Exempt(parts[j]) /\ ~HasControl(parts[j]) /\ Sensitive(parts[j])
  <2>1. ASSUME NEW r \in AccessControl, r.line = a
        PROVE  ~Exempt(parts[j]) /\ ~HasControl(parts[j]) /\ Sensitive(parts[j])
    <3>1. PICK i \in 1..Len(parts) : /\ ~Exempt(parts[i]) /\ ~HasControl(parts[i]) /\ Sensitive(parts[i])
                                     /\ r.line = parts[i].lines[1]
      BY AccessFinds
    <3>2. FirstLine(parts[i]) = FirstLine(parts[j])
      BY <1>7, <2>1, <3>1 DEF FirstLine
    <3> QED BY <1>0, <3>1, <3>2, PartsApart
  <2>2. ASSUME ~Exempt(parts[j]), ~HasControl(parts[j]), Sensitive(parts[j])
        PROVE  \E r \in AccessControl : r.line = a /\ r.name = f.name
    <3> DEFINE r == [rule |-> "access-control", name |-> parts[j].name,
                     line |-> parts[j].lines[1], of |-> parts[j].lines]
    <3>1. r \in AccessControl
      BY <2>2, AccessFinds
    <3>2. r.line = a /\ r.name = f.name
      BY <1>9
    <3> QED BY <3>1, <3>2
  <2> QED BY <2>1, <2>2
<1>11. ~Exempt(BlockOf(f, a, e)) /\ ~HasControl(BlockOf(f, a, e)) /\ Sensitive(BlockOf(f, a, e))
           <=> /\ LineKinds(f) \cap Controls(f) = {} /\ AllMarks(f) = {}
               /\ f.name \in Critical \/ "write" \in LineKinds(f)
  BY <1>0, <1>1, <1>2, <1>4, AccessIs
<1> QED BY <1>2, <1>8, <1>10, <1>11

\* What is reported is a function.
LEMMA AccessOfFunction ==
  ASSUME Grammar, ItemInv, StartInv, PartCoverInv, scopes = <<>>, NEW r \in AccessControl
  PROVE  \E f \in Functions(source) : f.lines[1] = r.line /\ f.name = r.name
<1>1. PICK j \in 1..Len(parts) : ~Exempt(parts[j]) /\ r.line = parts[j].lines[1] /\ r.name = parts[j].name
  BY AccessFinds
<1>2. PICK m : m = parts[j].lines[1]
  OBVIOUS
<1>3. m \in 1..Len(file) /\ parts[j].name = file[m].name /\ file[m].kind \in FunctionLines
  <2>1. SpanOf(file, parts[j], LastLine(parts[j])) /\ LastLine(parts[j]) \in 1..Len(file)
    BY DEF PartCoverInv
  <2> QED BY <1>2, <2>1 DEF SpanOf, FirstLine
<1>4. file[m].kind # "declaration"
  BY <1>1, <1>2 DEF Exempt, BodylessSignature
<1>5. file[m].kind \in {"function", "oneLiner", "signature"}
  BY <1>3, <1>4 DEF FunctionLines
<1>6. ~InFunction /\ \A x : x \in Functions(source) <=> IsDone(x)
  BY DoneFunctions DEF InUnit, InFunction
<1>7. PICK x : IsDone(x) /\ x.lines[1] = m
  BY <1>3, <1>5, <1>6 DEF StartInv
<1>8. x.name = file[m].name
  BY <1>7 DEF ItemInv, WholeRun, ItemRun
<1> QED BY <1>1, <1>2, <1>3, <1>6, <1>7, <1>8

-----------------------------------------------------------------------------
(* The lines of a function *)

\* Lines ns of file f
LinesAt(f, ns) == [i \in 1..Len(ns) |-> f[ns[i]]]

\* The lines of function u are in the order of the file, and the braces open in them are
\* those open in the file, but for the contract's.
InOrder(f, u) ==
  /\ \A i, j \in 1..Len(u.lines) : i < j => u.lines[i] < u.lines[j]
  /\ \A i \in 1..Len(u.lines) : u.lines[i] \in 1..Len(f)
  /\ \A i \in 1..Len(u.lines) : Depth(LinesAt(f, u.lines), i) = Depth(f, u.lines[i]) - 1

\* A longer file leaves an item's lines as they were.
LEMMA InOrderStays ==
  ASSUME NEW f, NEW h, OneMore(h, f), NEW u, InOrder(f, u), Len(u.lines) \in Nat
  PROVE  InOrder(h, u) /\ \A i \in 1..Len(u.lines) : Depth(h, u.lines[i]) = Depth(f, u.lines[i])
<1>0. PICK s, c, n : s = u.lines /\ c = Len(u.lines) /\ n = Len(f)
  OBVIOUS
<1>1. /\ c \in Nat /\ n \in Nat /\ Len(h) = n + 1 /\ (\A i \in 1..n : h[i] = f[i])
      /\ (\A i, j \in 1..c : i < j => s[i] < s[j]) /\ (\A i \in 1..c : s[i] \in 1..n)
      /\ \A i \in 1..c : Depth(LinesAt(f, s), i) = Depth(f, s[i]) - 1
  BY <1>0 DEF OneMore, InOrder
<1>2. \A i \in 0..n : Depth(h, i) = Depth(f, i)
  BY <1>1, DepthSame
<1>3. LinesAt(h, s) = LinesAt(f, s)
  <2>1. \A i \in 1..Len(s) : h[s[i]] = f[s[i]]
    BY <1>0, <1>1
  <2> QED BY <2>1 DEF LinesAt
<1>4. \A i \in 1..c : s[i] \in 0..n /\ s[i] \in 1..Len(h)
  BY <1>1
<1>5. \A i \in 1..c : Depth(h, s[i]) = Depth(f, s[i])
  BY <1>2, <1>4
<1>6. \A i \in 1..c : Depth(LinesAt(h, s), i) = Depth(h, s[i]) - 1
  BY <1>1, <1>3, <1>5
<1> QED BY <1>0, <1>1, <1>4, <1>5, <1>6 DEF InOrder

\* One more line of an item keeps their order and their braces.
LEMMA InOrderGrows ==
  ASSUME NEW f, NEW h, OneMore(h, f), NEW u, InOrder(f, u), u.lines \in Seq(Nat), u.lines # <<>>,
         Depth(f, LastLine(u)) = Depth(f, Len(f)),
         NEW v, v.lines = Append(u.lines, Len(f) + 1)
  PROVE  InOrder(h, v) /\ Depth(h, LastLine(v)) = Depth(h, Len(f) + 1)
<1>0. PICK s, t, c, n : s = u.lines /\ t = v.lines /\ c = Len(u.lines) /\ n = Len(f)
  OBVIOUS
<1>1. /\ c \in Nat /\ c >= 1 /\ Len(t) = c + 1 /\ t[c + 1] = n + 1 /\ \A i \in 1..c : t[i] = s[i]
  BY <1>0, AppendProperties, LenProperties, EmptySeq
<1>2. /\ n \in Nat /\ Len(h) = n + 1 /\ (\A i \in 1..n : h[i] = f[i])
      /\ (\A i, j \in 1..c : i < j => s[i] < s[j]) /\ (\A i \in 1..c : s[i] \in 1..n)
      /\ (\A i \in 1..c : Depth(LinesAt(h, s), i) = Depth(h, s[i]) - 1)
      /\ Depth(f, s[c]) = Depth(f, n) /\ Depth(h, s[c]) = Depth(f, s[c])
  <2>0. Len(u.lines) \in Nat
    BY <1>0, <1>1
  <2>1. InOrder(h, u) /\ \A i \in 1..c : Depth(h, s[i]) = Depth(f, s[i])
    <3>1. InOrder(h, u) /\ \A i \in 1..Len(u.lines) : Depth(h, u.lines[i]) = Depth(f, u.lines[i])
      BY <2>0, InOrderStays
    <3> QED BY <1>0, <3>1
  <2>2. c \in 1..c
    BY <1>1
  <2> QED BY <1>0, <2>1, <2>2 DEF OneMore, InOrder, LastLine
<1>3. Depth(h, n) = Depth(f, n)
  <2>1. n \in 0..n
    BY <1>2
  <2> QED BY <1>2, <2>1, DepthSame
<1>4. \A i \in 0..c : Depth(LinesAt(h, t), i) = Depth(LinesAt(h, s), i)
  <2>1. \A i \in 1..c : LinesAt(h, t)[i] = LinesAt(h, s)[i]
    <3> TAKE i \in 1..c
    <3>1. i \in 1..Len(t) /\ i \in 1..Len(s) /\ t[i] = s[i]
      BY <1>0, <1>1
    <3> QED BY <3>1 DEF LinesAt
  <2> QED BY <1>1, <2>1, DepthSame
<1>5. LinesAt(h, t)[c + 1] = h[n + 1]
  <2>1. c + 1 \in 1..Len(t)
    BY <1>1
  <2> QED BY <1>1, <2>1 DEF LinesAt
<1>6. Depth(LinesAt(h, t), c + 1) = Depth(h, n + 1) - 1
  <2>1. /\ Depth(LinesAt(h, t), c + 1) = Depth(LinesAt(h, t), c) + Delta(h[n + 1])
        /\ Depth(h, n + 1) = Depth(h, n) + Delta(h[n + 1])
        /\ Depth(h, n) \in Int
    <3>1. n \in Nat /\ Depth(h, n + 1) = Depth(h, n) + Delta(h[n + 1]) /\ Depth(h, n) \in Int
      BY <1>1, <1>2, DepthNext
    <3>2. Depth(LinesAt(h, t), c + 1) = Depth(LinesAt(h, t), c) + Delta(LinesAt(h, t)[c + 1])
      <4>1. c \in Nat
        BY <1>1
      <4> QED BY <4>1, DepthNext
    <3> QED BY <1>5, <3>1, <3>2
  <2>2. c \in 0..c /\ c \in 1..c
    BY <1>1
  <2>3. Depth(LinesAt(h, t), c) = Depth(h, n) - 1
    BY <1>2, <1>3, <1>4, <2>2
  <2>4. Delta(h[n + 1]) \in Int
    BY BracesOf
  <2> QED BY <2>1, <2>3, <2>4
<1>7. \A i \in 1..(c + 1) : i \in 1..c \/ i = c + 1
  BY <1>1
<1>8. \A i \in 1..c : i \in 0..c
  BY <1>1
<1>9. \A i \in 1..(c + 1) : Depth(LinesAt(h, t), i) = Depth(h, t[i]) - 1
  BY <1>1, <1>2, <1>4, <1>6, <1>7, <1>8
<1>10. \A i \in 1..(c + 1) : t[i] \in 1..Len(h)
  <2> TAKE i \in 1..(c + 1)
  <2>1. CASE i \in 1..c
    <3>1. t[i] \in 1..n
      BY <1>1, <1>2, <2>1
    <3> QED BY <1>2, <3>1
  <2>2. CASE i = c + 1
    BY <1>1, <1>2, <2>2
  <2> QED BY <1>7, <2>1, <2>2
<1>11. \A i, j \in 1..(c + 1) : i < j => t[i] < t[j]
  <2> TAKE i, j \in 1..(c + 1)
  <2> HAVE i < j
  <2>1. i \in 1..c
    BY <1>1
  <2>2. CASE j \in 1..c
    BY <1>1, <1>2, <2>1, <2>2
  <2>3. CASE j = c + 1
    BY <1>1, <1>2, <2>1, <2>3
  <2> QED BY <1>7, <2>2, <2>3
<1> QED BY <1>0, <1>1, <1>9, <1>10, <1>11 DEF InOrder, LastLine

\* An item of one line is in order.
LEMMA InOrderOne ==
  ASSUME NEW f, NEW h, OneMore(h, f), Depth(f, Len(f)) = 1, NEW v, v.lines = <<Len(f) + 1>>
  PROVE  InOrder(h, v) /\ Depth(h, LastLine(v)) = Depth(h, Len(f) + 1)
<1>0. PICK t, n : t = v.lines /\ n = Len(f)
  OBVIOUS
<1>1. Len(t) = 1 /\ t[1] = n + 1 /\ n \in Nat /\ Len(h) = n + 1 /\ \A i \in 1..n : h[i] = f[i]
  BY <1>0 DEF OneMore
<1>2. LinesAt(h, t)[1] = h[n + 1]
  BY <1>1 DEF LinesAt
<1>3. Depth(h, n) = 1
  <2>1. n \in 0..n
    BY <1>1
  <2> QED BY <1>0, <1>1, <2>1, DepthSame
<1>4. /\ Depth(h, n + 1) = Depth(h, n) + Delta(h[n + 1])
      /\ Depth(LinesAt(h, t), 0) = 0 /\ Depth(LinesAt(h, t), 0 + 1) = Depth(LinesAt(h, t), 0) + Delta(LinesAt(h, t)[0 + 1])
  BY <1>1, DepthNext
<1>5. Delta(h[n + 1]) \in Int
  BY BracesOf
<1>6. Depth(LinesAt(h, t), 1) = Depth(h, n + 1) - 1
  BY <1>2, <1>3, <1>4, <1>5
<1>7. \A i \in 1..1 : i = 1
  OBVIOUS
<1> QED BY <1>0, <1>1, <1>6, <1>7 DEF InOrder, LastLine

\* The items' lines are in the file's order, and the braces counted in them are the file's.
LinesInv ==
  /\ \A x : IsDone(x) => InOrder(file, x) /\ x \in Items
  /\ InFunction => InOrder(file, OpenItem) /\ Depth(file, LastLine(OpenItem)) = Depth(file, Len(file))

\* Every line preserves this.
LEMMA LinesStep ==
  ASSUME Grammar, DepthInv, LinesInv, NEW l, Reads(l)
  PROVE  LinesInv'
<1>0. PICK n, h, u, v : n = Len(file) /\ h = file' /\ u = OpenItem /\ v = OpenItem'
  OBVIOUS
<1>1. /\ Typed /\ n \in Nat /\ Here = n + 1 /\ Len(h) = n + 1 /\ (\A i \in 1..n : h[i] = file[i]) /\ h[n + 1] = l
      /\ OneMore(h, file) /\ l \in LineChoices(style) /\ Items' = Items
      /\ Depth(h, n) = Depth(file, n) /\ Depth(file, n) = Level
  <2>1. /\ Typed /\ n \in Nat /\ Here = n + 1 /\ Len(h) = n + 1 /\ (\A i \in 1..n : h[i] = file[i]) /\ h[n + 1] = l
        /\ l \in LineChoices(style) /\ Items' = Items
    BY <1>0, FileIs, TypedStep DEF Grammar
  <2>2. n \in 0..Len(file)
    BY <1>0, <2>1
  <2> QED BY <1>0, <2>1, <2>2, DepthStep DEF OneMore, DepthInv
<1>2. \A x \in Items : x.lines \in Seq(Nat) /\ x.lines # <<>> /\ Len(x.lines) \in Nat
  BY LenProperties DEF Items
<1>3. InFunction => /\ u \in Items /\ Longer(u) \in Items /\ Longer(u).lines = Append(u.lines, n + 1)
                    /\ InOrder(file, u) /\ Depth(file, LastLine(u)) = Depth(file, n)
  <2>1. InFunction => u \in Items
    BY <1>0, OpenMoves
  <2> QED BY <1>0, <1>1, <2>1, LongerIs DEF LinesInv
<1>4. ASSUME l.kind \in FunctionLines PROVE Item("function", l) \in Items /\ Item("function", l).lines = <<n + 1>>
  BY <1>1, <1>4, ItemType DEF UnitKind
<1>5. ASSUME NEW x, IsDone(x)' PROVE InOrder(h, x) /\ x \in Items
  <2>1. CASE IsDone(x)
    BY <1>1, <1>2, <2>1, InOrderStays DEF LinesInv
  <2>2. CASE IsOne(l) /\ x = Item("function", l)
    <3>1. Depth(file, n) = 1 /\ l.kind \in FunctionLines
      BY <1>1, <2>2, OpenMoves DEF IsOne, FunctionLines
    <3>2. x \in Items /\ x.lines = <<n + 1>>
      BY <1>4, <2>2, <3>1
    <3> QED BY <1>0, <1>1, <3>1, <3>2, InOrderOne
  <2>3. CASE InFunction /\ x = Longer(OpenItem)
    <3>1. x \in Items /\ x.lines = Append(u.lines, n + 1)
      BY <1>0, <1>3, <2>3
    <3> QED BY <1>0, <1>1, <1>2, <1>3, <2>3, <3>1, InOrderGrows
  <2> QED BY <1>5, <2>1, <2>2, <2>3, DoneItemStep
<1>6. ASSUME InFunction' PROVE InOrder(h, v) /\ Depth(h, LastLine(v)) = Depth(h, n + 1)
  <2>1. CASE ~InFunction
    <3>1. v = Item("function", l) /\ Depth(file, n) = 1 /\ l.kind \in FunctionLines
      BY <1>0, <1>1, <1>6, <2>1, OpenMoves DEF FunctionLines
    <3>2. v.lines = <<n + 1>>
      BY <1>4, <3>1
    <3> QED BY <1>0, <1>1, <3>1, <3>2, InOrderOne
  <2>2. CASE InFunction /\ l.kind = "comment"
    <3>1. v = u
      BY <1>0, <1>6, <2>2, OpenMoves
    <3>2. Len(u.lines) \in 1..Len(u.lines) /\ Len(u.lines) \in Nat
      <4>1. u.lines # <<>> /\ u.lines \in Seq(Nat)
        BY <1>2, <1>3, <2>2
      <4> QED BY <4>1, LenProperties, EmptySeq
    <3>3. InOrder(h, u) /\ Depth(h, LastLine(u)) = Depth(file, LastLine(u))
      BY <1>1, <1>3, <2>2, <3>2, InOrderStays DEF LastLine
    <3>4. Depth(h, n + 1) = Depth(h, n) + Delta(l) /\ Depth(h, n) \in Int
      BY <1>1, DepthNext
    <3>5. Delta(l) = 0
      BY <2>2, BracesOf
    <3> QED BY <1>1, <1>3, <2>2, <3>1, <3>3, <3>4, <3>5
  <2>3. CASE InFunction /\ l.kind # "comment"
    <3>1. v = Longer(u)
      BY <1>0, <1>6, <2>3, OpenMoves
    <3>2. v.lines = Append(u.lines, n + 1)
      BY <1>3, <2>3, <3>1
    <3> QED BY <1>0, <1>1, <1>2, <1>3, <2>3, <3>2, InOrderGrows
  <2> QED BY <2>1, <2>2, <2>3
<1> QED BY <1>0, <1>1, <1>5, <1>6 DEF LinesInv

\* No two functions begin on one line.
UniqueInv ==
  /\ \A x, y : IsDone(x) /\ IsDone(y) /\ x.lines[1] = y.lines[1] => x = y
  /\ InFunction => \A x : IsDone(x) => x.lines[1] # OpenItem.lines[1]

\* Every line preserves this.
LEMMA UniqueStep ==
  ASSUME Grammar, ItemInv, UniqueInv, NEW l, Reads(l)
  PROVE  UniqueInv'
<1>0. PICK n, u, v : n = Len(file) /\ u = OpenItem /\ v = OpenItem'
  OBVIOUS
<1>1. Typed /\ n \in Nat /\ Here = n + 1
  BY <1>0, FileIs DEF Grammar
<1>2. InFunction => u.lines[1] \in 1..n /\ Longer(u).lines[1] = u.lines[1]
  <2>1. InFunction => u \in Items /\ u.lines[1] \in 1..n
    BY <1>0, OpenMoves DEF ItemInv, ItemRun
  <2> QED BY <1>1, <2>1, LongerIs
<1>3. Item("function", l).lines[1] = n + 1
  BY <1>1 DEF Item
<1>4. \A x : IsDone(x) => x.lines[1] \in 1..n
  <2> TAKE x
  <2>1. IsDone(x) => x.lines[1] \in 1..x.lines[Len(x.lines)] /\ x.lines[Len(x.lines)] \in 1..n
    BY <1>0 DEF ItemInv, WholeRun, ItemRun
  <2> QED BY <1>1, <2>1
<1>5. \A x : IsDone(x)' => \/ IsDone(x)
                           \/ IsOne(l) /\ ~InFunction /\ x = Item("function", l)
                           \/ InFunction /\ ~InFunction' /\ x = Longer(u)
  <2> TAKE x
  <2>1. Ends(l) => ~InFunction'
    BY DEF Ends, InUnit, InFunction
  <2>2. IsOne(l) => ~InFunction
    BY OpenMoves
  <2> QED BY <1>0, <2>1, <2>2, DoneItemStep
<1>6. ASSUME NEW x, IsDone(x)', NEW y, IsDone(y)', x.lines[1] = y.lines[1]
      PROVE  x = y
  <2>1. CASE IsDone(x) /\ IsDone(y)
    BY <1>6, <2>1 DEF UniqueInv
  <2>2. CASE ~(IsDone(x) /\ IsDone(y)) /\ InFunction
    <3>1. /\ IsDone(x) \/ x = Longer(u)
          /\ IsDone(y) \/ y = Longer(u)
      BY <1>5, <1>6, <2>2
    <3>2. \A z : IsDone(z) => z.lines[1] # u.lines[1]
      BY <1>0, <2>2 DEF UniqueInv
    <3> QED BY <1>2, <1>6, <2>2, <3>1, <3>2
  <2>3. CASE ~(IsDone(x) /\ IsDone(y)) /\ ~InFunction
    <3>1. /\ IsDone(x) \/ x = Item("function", l)
          /\ IsDone(y) \/ y = Item("function", l)
      BY <1>5, <1>6, <2>3
    <3>2. \A z : IsDone(z) => z.lines[1] # n + 1
      BY <1>1, <1>4
    <3> QED BY <1>3, <1>6, <2>3, <3>1, <3>2
  <2> QED BY <2>1, <2>2, <2>3
<1>7. ASSUME InFunction', NEW x, IsDone(x)' PROVE x.lines[1] # v.lines[1]
  <2>1. IsDone(x)
    <3>1. IsOne(l) => ~InFunction'
      BY OpenMoves
    <3> QED BY <1>5, <1>7, <3>1
  <2>2. CASE ~InFunction
    <3>1. v.lines[1] = n + 1
      BY <1>0, <1>3, <1>7, <2>2, OpenMoves
    <3>2. x.lines[1] \in 1..n
      BY <1>4, <2>1
    <3> QED BY <1>1, <3>1, <3>2
  <2>3. CASE InFunction
    <3>1. v.lines[1] = u.lines[1]
      BY <1>0, <1>2, <1>7, <2>3, OpenMoves
    <3> QED BY <1>0, <2>1, <2>3, <3>1 DEF UniqueInv
  <2> QED BY <2>2, <2>3
<1> QED BY <1>0, <1>6, <1>7 DEF UniqueInv

\* Where attributes stand, and heads in their contracts
HeadInv ==
  /\ \A m \in 1..Len(file) : file[m].kind = "attributes" => Depth(file, m) = 1
  /\ \A k, x : IsDoneIn(x, k) => source[k].line < x.lines[1]
  /\ InFunction => \A k : k = Len(source) => source[k].line < OpenItem.lines[1]

\* Every line preserves this.
LEMMA HeadStep ==
  ASSUME Grammar, DepthInv, ItemInv, OrderInv, HeadInv, NEW l, Reads(l)
  PROVE  HeadInv'
<1>0. PICK n, h, u, v, s, t : n = Len(file) /\ h = file' /\ u = OpenItem /\ v = OpenItem' /\ s = source /\ t = source'
  OBVIOUS
<1>1. /\ Typed /\ Shape /\ n \in Nat /\ Here = n + 1 /\ Len(h) = n + 1 /\ (\A i \in 1..n : h[i] = file[i]) /\ h[n + 1] = l
      /\ \A m \in 0..n : Depth(h, m) = Depth(file, m)
      /\ Depth(h, n + 1) = Level'
  <2>1. /\ \A m \in 0..n : Depth(h, m) = Depth(file, m)
        /\ Depth(h, n + 1) = Level'
    BY <1>0, DepthStep
  <2> QED BY <1>0, <2>1, FileIs DEF Grammar
<1>2. InFunction => Longer(u).lines[1] = u.lines[1]
  <2>1. InFunction => u \in Items
    BY <1>0, OpenMoves
  <2> QED BY <1>1, <2>1, LongerIs
<1>3. Item("function", l).lines[1] = n + 1
  BY <1>1 DEF Item
<1>4. \A k \in 1..Len(s) : t[k].line = s[k].line /\ s[k].line \in 1..n
  BY <1>0, SourceStep DEF OrderInv
<1>5. ASSUME NEW m \in 1..(n + 1), h[m].kind = "attributes" PROVE Depth(h, m) = 1
  <2>1. CASE m \in 1..n
    BY <1>0, <1>1, <1>5, <2>1 DEF HeadInv
  <2>2. CASE m = n + 1
    <3>1. l.kind = "attributes"
      BY <1>1, <1>5, <2>2
    <3>2. Second = "signature" /\ Level' = Level + Delta(l)
      BY <1>1, <3>1, FitsIs, GrammarStep DEF Reads, ContractLines, Bodies, FunctionLines, Statements
    <3>3. Level = 1 /\ Delta(l) = 0
      BY <1>1, <3>1, <3>2, LevelIs, BracesOf
    <3> QED BY <1>1, <2>2, <3>2, <3>3
  <2> QED BY <1>1, <2>1, <2>2
<1>6. ASSUME InFunction \/ InContract PROVE Len(t) = Len(s) /\ Len(s) \in 1..Len(s)
  <2>1. scopes # <<>>
    BY <1>1, <1>6, TopIs DEF InFunction, InContract, Second, NoName
  <2>2. source # <<>> /\ Len(source') = Len(source)
    BY <2>1, SourceStep
  <2> QED BY <1>0, <1>1, <2>2, LastIs
<1>7. ASSUME NEW k, NEW x, IsDoneIn(x, k)' PROVE t[k].line < x.lines[1]
  <2>1. CASE IsDoneIn(x, k)
    <3>1. k \in 1..Len(s) /\ s[k].line < x.lines[1]
      BY <1>0, <2>1 DEF HeadInv, IsDoneIn
    <3> QED BY <1>4, <3>1
  <2>2. CASE k = Len(s) /\ IsOne(l) /\ x = Item("function", l)
    <3>1. k \in 1..Len(s)
      BY <1>6, <2>2 DEF IsOne
    <3> QED BY <1>1, <1>3, <1>4, <2>2, <3>1
  <2>3. CASE k = Len(s) /\ InFunction /\ x = Longer(u)
    <3>1. k \in 1..Len(s)
      BY <1>6, <2>3
    <3>2. s[k].line < u.lines[1]
      BY <1>0, <2>3 DEF HeadInv
    <3> QED BY <1>2, <1>4, <2>3, <3>1, <3>2
  <2> QED BY <1>0, <1>7, <2>1, <2>2, <2>3, DoneInStep
<1>8. ASSUME InFunction', NEW k, k = Len(t) PROVE t[k].line < v.lines[1]
  <2>1. CASE ~InFunction
    <3>1. v = Item("function", l) /\ Begins(l)
      BY <1>0, <1>8, <2>1, OpenMoves
    <3>2. k \in 1..Len(s)
      BY <1>6, <1>8, <3>1 DEF Begins
    <3> QED BY <1>1, <1>3, <1>4, <3>1, <3>2
  <2>2. CASE InFunction
    <3>1. v.lines[1] = u.lines[1]
      BY <1>0, <1>2, <1>8, <2>2, OpenMoves
    <3>2. k \in 1..Len(s) /\ k = Len(s)
      BY <1>6, <1>8, <2>2
    <3>3. s[k].line < u.lines[1]
      BY <1>0, <2>2, <3>2 DEF HeadInv
    <3> QED BY <1>4, <3>1, <3>2, <3>3
  <2> QED BY <2>1, <2>2
<1> QED BY <1>0, <1>1, <1>5, <1>7, <1>8 DEF HeadInv

-----------------------------------------------------------------------------
(* The graph's parser in any file *)

\* The unit a line ends, if it ends one, or goes on with
WithLine(l) == IF unit = NoUnit THEN Item(UnitKind(l), l) ELSE Longer(unit)

\* What the parser does with a line: ends a function or modifier, goes on with one, or neither
UnitEnds(l) ==
  /\ current /\ current' /\ contracts' = Finished(WithLine(l)) /\ unit' = NoUnit
  /\ \/ unit = NoUnit /\ l.kind = "oneLiner"
     \/ unit # NoUnit /\ l.kind # "comment" /\ unitDepth + Delta(l) <= 0
UnitGoesOn(l) ==
  /\ current /\ current' /\ contracts' = contracts /\ unit' = WithLine(l)
  /\ \/ unit = NoUnit /\ l.kind \in {"function", "declaration", "signature", "modifier"} /\ unitDepth' = Delta(l)
     \/ unit # NoUnit /\ l.kind # "comment" /\ ~(unitDepth + Delta(l) <= 0) /\ unitDepth' = unitDepth + Delta(l)
NoUnitLine(l) ==
  /\ unit' = unit /\ unitDepth' = unitDepth
  /\ \/ l.kind = "comment" /\ contracts' = contracts /\ current' = current
     \/ ~current /\ l.kind \in ContractLines /\ contracts' = Append(contracts, Decl) /\ current'
     \/ ~current /\ l.kind \notin ContractLines /\ contracts' = contracts /\ ~current'
     \/ /\ current /\ unit = NoUnit
        /\ ~(contractDepth = 1 /\ l.kind \in FunctionLines \cup {"modifier"})
        /\ contracts' = IF contractDepth = 1 /\ l.kind \in Variables
                        THEN [contracts EXCEPT ![Len(contracts)].vars = @ \cup {l.kind}]
                        ELSE contracts
        /\ current' <=> ~(contractDepth + Delta(l) <= 0)

\* Every line does one of the three.
LEMMA ParseMoves ==
  ASSUME CountInv, Typed, NEW l, Reads(l), Parse(l)
  PROVE  UnitEnds(l) \/ UnitGoesOn(l) \/ NoUnitLine(l)
<1>1. CASE CommentSkipped(l)
  BY <1>1 DEF CommentSkipped, NoUnitLine, parserVars
<1>2. CASE OutsideLine(l)
  BY <1>2 DEF OutsideLine, NoUnitLine
<1>3. CASE ContractBegins(l)
  BY <1>3 DEF ContractBegins, NoUnitLine
<1>4. CASE UnitBegins(l)
  <2>1. current /\ current' /\ unit = NoUnit /\ l.kind \in FunctionLines \cup {"modifier"}
    BY <1>4 DEF UnitBegins
  <2> DEFINE u == Item(UnitKind(l), l)
  <2>2. WithLine(l) = u
    BY <2>1 DEF WithLine
  <2> HIDE DEF u
  <2>3. IF Delta(l) <= 0 /\ Opens(l) > 0
        THEN contracts' = Finished(u) /\ UNCHANGED <<unit, unitDepth>>
        ELSE unit' = u /\ unitDepth' = Delta(l) /\ UNCHANGED contracts
    BY <1>4 DEF UnitBegins, u
  <2>4. CASE l.kind = "oneLiner"
    <3>1. Opens(l) = 1 /\ Closes(l) = 1 /\ Delta(l) = 0
      BY <2>4, BracesOf
    <3>2. contracts' = Finished(u) /\ unit' = NoUnit
      BY <2>1, <2>3, <3>1
    <3> QED BY <2>1, <2>2, <2>4, <3>2 DEF UnitEnds
  <2>5. CASE l.kind # "oneLiner"
    <3>1. l.kind \in {"function", "declaration", "signature", "modifier"}
      BY <2>1, <2>5 DEF FunctionLines
    <3>2. ~(Delta(l) <= 0 /\ Opens(l) > 0)
      BY <3>1, BracesOf
    <3> QED BY <2>1, <2>2, <2>3, <3>1, <3>2 DEF UnitGoesOn
  <2> QED BY <2>4, <2>5
<1>5. CASE UnitContinues(l)
  <2>1. current /\ current' /\ unit # NoUnit /\ l.kind # "comment"
    BY <1>5 DEF UnitContinues
  <2> DEFINE u == [unit EXCEPT !.lines = Append(@, Here)]
  <2>2. WithLine(l) = u
    BY <2>1 DEF WithLine, Longer
  <2> HIDE DEF u
  <2>3. IF unitDepth + Delta(l) <= 0
        THEN contracts' = Finished(u) /\ unit' = NoUnit /\ unitDepth' = 0
        ELSE unit' = u /\ unitDepth' = unitDepth + Delta(l) /\ UNCHANGED contracts
    BY <1>5 DEF UnitContinues, u
  <2> QED BY <2>1, <2>2, <2>3 DEF UnitEnds, UnitGoesOn
<1>6. CASE ScopeLine(l)
  <2>1. /\ current /\ unit = NoUnit /\ unit' = unit /\ unitDepth' = unitDepth
        /\ ~(contractDepth = 1 /\ l.kind \in FunctionLines \cup {"modifier"})
        /\ contracts' = IF contractDepth = 1 /\ l.kind \in Variables
                        THEN [contracts EXCEPT ![Len(contracts)].vars = @ \cup {l.kind}]
                        ELSE contracts
    BY <1>6 DEF ScopeLine, Variables
  <2>2. current' <=> ~(contractDepth + Delta(l) <= 0)
    BY <2>1, <1>6 DEF ScopeLine
  <2> QED BY <2>1, <2>2 DEF NoUnitLine
<1> QED BY <1>1, <1>2, <1>3, <1>4, <1>5, <1>6 DEF Parse

\* The last contract with variables added
LEMMA VarsAdded ==
  ASSUME NEW s \in Seq(Contracts), s # <<>>, NEW vs \in SUBSET Kinds
  PROVE  \A k \in 1..Len(s) : [s EXCEPT ![Len(s)].vars = @ \cup vs][k].vars
                                = s[k].vars \cup (IF k = Len(s) THEN vs ELSE {})
<1> DEFINE m == Len(s)
           c == [s[m] EXCEPT !.vars = @ \cup vs]
<1>1. m \in Nat /\ m # 0
  BY EmptySeq, LenProperties
<1>2. m \in 1..m
  BY <1>1
<1>3. s[m] \in Contracts
  BY <1>1, <1>2, ElementOfSeq
<1>4. c \in Contracts /\ c.vars = s[m].vars \cup vs
  BY <1>3 DEF Contracts
<1>5. \A k \in 1..m : [s EXCEPT ![m] = c][k] = IF k = m THEN c ELSE s[k]
  <2> HIDE DEF c
  <2> QED BY <1>1, <1>2, <1>4, ExceptSeq
<1>6. [s EXCEPT ![Len(s)].vars = @ \cup vs] = [s EXCEPT ![m] = c]
  OBVIOUS
<1> HIDE DEF c
<1> QED BY <1>4, <1>5, <1>6

\* The contracts only grow.
LEMMA ContractsGrow ==
  ASSUME CountInv, Typed, NEW l, Reads(l), Parse(l)
  PROVE  /\ Len(contracts) \in Nat
         /\ Len(contracts') = Len(contracts) + (IF ~current /\ l.kind \in ContractLines THEN 1 ELSE 0)
         /\ \A k \in 1..Len(contracts) : /\ contracts[k].vars \subseteq contracts'[k].vars
                                         /\ contracts'[k].vars \subseteq contracts[k].vars \cup Variables
         /\ \A k \in 1..Len(contracts) : \A i \in 1..Len(contracts[k].items) :
              i \in 1..Len(contracts'[k].items) /\ contracts'[k].items[i] = contracts[k].items[i]
         /\ \A k \in 1..Len(contracts') : k \in 1..Len(contracts) \/ contracts'[k] = Decl
         /\ \A k \in 1..Len(contracts) : \A i \in 1..Len(contracts'[k].items) :
              \/ i \in 1..Len(contracts[k].items) /\ contracts'[k].items[i] = contracts[k].items[i]
              \/ UnitEnds(l) /\ contracts'[k].items[i] = WithLine(l)
         /\ UnitEnds(l) => /\ contracts # <<>> /\ Len(contracts) \in 1..Len(contracts)
                           /\ \A k : k = Len(contracts) =>
                                \E i \in 1..Len(contracts'[k].items) : contracts'[k].items[i] = WithLine(l)
<1>0. PICK s, t, m : s = contracts /\ t = contracts' /\ m = Len(contracts)
  OBVIOUS
<1>1. s \in Seq(Contracts) /\ m \in Nat /\ (current => s # <<>> /\ m \in 1..m) /\ l.kind \in Kinds /\ l \in LineChoices(style)
  <2>1. current => contracts # <<>>
    BY DEF CountInv
  <2>2. contracts \in Seq(Contracts)
    BY DEF CountInv
  <2> QED BY <1>0, <2>1, <2>2, LenProperties, EmptySeq, FileIs
<1>2. CASE UnitEnds(l)
  <2> DEFINE w == WithLine(l)
             its == contracts[m].items
  <2>2. current /\ contracts' = Finished(w)
    BY <1>2 DEF UnitEnds
  <2>3. w \in Items
    <3>1. unit \in Items \cup {NoUnit}
      BY DEF CountInv
    <3> QED BY <1>1, <3>1, ItemType, LongerIs DEF WithLine
  <2> HIDE DEF w
  <2>4. /\ Len(t) = m /\ its \in Seq(Items) /\ t[m].items = Append(its, w)
        /\ \A k \in 1..m : (k # m => t[k] = s[k]) /\ t[k].vars = s[k].vars
    <3> HIDE DEF its
    <3> QED BY <1>0, <1>1, <2>2, <2>3, FinishedIs DEF its
  <2> HIDE DEF its
  <2>5. /\ Len(its) \in Nat /\ Len(t[m].items) = Len(its) + 1 /\ t[m].items[Len(its) + 1] = w
        /\ \A i \in 1..Len(its) : t[m].items[i] = its[i]
    BY <2>3, <2>4, AppendProperties, LenProperties
  <2>6. \A k \in 1..m : \A i \in 1..Len(s[k].items) : i \in 1..Len(t[k].items) /\ t[k].items[i] = s[k].items[i]
    <3> TAKE k \in 1..m
    <3> TAKE i \in 1..Len(s[k].items)
    <3>1. CASE k # m
      BY <2>4, <3>1
    <3>2. CASE k = m
      <4>1. i \in 1..Len(its) /\ s[k].items = its
        BY <1>0, <3>2 DEF its
      <4> QED BY <2>5, <3>2, <4>1
    <3> QED BY <3>1, <3>2
  <2>7. \A k \in 1..m : \A i \in 1..Len(t[k].items) :
           (i \in 1..Len(s[k].items) /\ t[k].items[i] = s[k].items[i]) \/ t[k].items[i] = w
    <3> TAKE k \in 1..m
    <3> TAKE i \in 1..Len(t[k].items)
    <3>1. CASE k # m
      BY <2>4, <3>1
    <3>2. CASE k = m
      <4>1. s[k].items = its /\ (i \in 1..Len(its) \/ i = Len(its) + 1)
        BY <1>0, <2>5, <3>2 DEF its
      <4> QED BY <2>5, <3>2, <4>1
    <3> QED BY <3>1, <3>2
  <2>8. Len(its) + 1 \in 1..Len(t[m].items)
    BY <2>5
  <2>9. WithLine(l) = w
    BY DEF w
  <2>10. s # <<>> /\ m \in 1..m /\ m = Len(s) /\ m \in Nat
    BY <1>0, <1>1, <2>2
  <2>11. Len(t) = m + (IF ~current /\ l.kind \in ContractLines THEN 1 ELSE 0)
    BY <2>2, <2>4, <2>10
  <2>12. \A k \in 1..m : s[k].vars \subseteq t[k].vars /\ t[k].vars \subseteq s[k].vars \cup Variables
    BY <2>4
  <2>13. \A k \in 1..Len(t) : k \in 1..m
    BY <2>4
  <2>14. \E i \in 1..Len(t[m].items) : t[m].items[i] = w
    BY <2>5, <2>8
  <2>15. \A k : k = m => \E i \in 1..Len(t[k].items) : t[k].items[i] = w
    BY <2>14
  <2> HIDE <1>1
  <2> QED BY <1>0, <1>2, <2>6, <2>7, <2>9, <2>10, <2>11, <2>12, <2>13, <2>15
<1>3. CASE ~UnitEnds(l) /\ t = s /\ ~(~current /\ l.kind \in ContractLines)
  <2>1. Len(s) \in Nat /\ Len(s) = m /\ Len(t) = m
    BY <1>0, <1>1, <1>3
  <2>2. \A k \in 1..m : t[k] = s[k]
    BY <1>3
  <2>3. /\ \A k \in 1..m : s[k].vars \subseteq t[k].vars /\ t[k].vars \subseteq s[k].vars \cup Variables
        /\ \A k \in 1..m : \A i \in 1..Len(s[k].items) : i \in 1..Len(t[k].items) /\ t[k].items[i] = s[k].items[i]
        /\ \A k \in 1..m : \A i \in 1..Len(t[k].items) : i \in 1..Len(s[k].items) /\ t[k].items[i] = s[k].items[i]
    BY <2>2
  <2>4. Len(t) = m + (IF ~current /\ l.kind \in ContractLines THEN 1 ELSE 0)
    BY <1>3, <2>1
  <2>5. ~UnitEnds(l)
    BY <1>3
  <2>6. \A k \in 1..Len(t) : k \in 1..m \/ t[k] = Decl
    BY <2>1
  <2> HIDE <1>3
  <2> QED BY <1>0, <2>1, <2>3, <2>4, <2>5, <2>6
<1>4. CASE ~UnitEnds(l) /\ NoUnitLine(l) /\ t # s
  <2>1. CASE ~current /\ l.kind \in ContractLines /\ contracts' = Append(contracts, Decl)
    <3>1. Decl \in Contracts
      <4>1. Len(file) \in Nat
        BY LenProperties DEF Typed
      <4> QED BY <4>1, EmptySeq DEF Decl, Contracts, Here
    <3>2. Len(t) = m + 1 /\ t[m + 1] = Decl /\ \A k \in 1..m : t[k] = s[k]
      <4> HIDE DEF Decl
      <4> QED BY <1>0, <1>1, <2>1, <3>1, AppendProperties
    <3>3. \A k \in 1..(m + 1) : k \in 1..m \/ k = m + 1
      BY <1>1
    <3> QED BY <1>0, <1>1, <1>4, <2>1, <3>2, <3>3
  <2>2. CASE current /\ l.kind \in Variables /\ t = [s EXCEPT ![m].vars = @ \cup {l.kind}]
    <3>1. {l.kind} \in SUBSET Kinds
      BY <1>1
    <3>2. Len(t) = m /\ \A k \in 1..m : t[k].items = s[k].items
      BY <1>0, <1>1, <2>2, <3>1, VarsChanged
    <3>3. \A k \in 1..m : t[k].vars = s[k].vars \cup (IF k = m THEN {l.kind} ELSE {})
      BY <1>0, <1>1, <2>2, <3>1, VarsAdded
    <3>4. \A k \in 1..m : s[k].vars \subseteq t[k].vars /\ t[k].vars \subseteq s[k].vars \cup Variables
      BY <2>2, <3>3
    <3> QED BY <1>0, <1>1, <1>4, <2>2, <3>2, <3>4
  <2> QED BY <1>0, <1>4, <2>1, <2>2 DEF NoUnitLine
<1>5. UnitGoesOn(l) => t = s /\ current
  BY <1>0 DEF UnitGoesOn
<1>6. NoUnitLine(l) /\ t = s => ~(~current /\ l.kind \in ContractLines)
  <2> SUFFICES ASSUME NoUnitLine(l), t = s, ~current, l.kind \in ContractLines PROVE FALSE
    OBVIOUS
  <2>1. l.kind # "comment"
    BY DEF ContractLines
  <2>2. contracts' = Append(contracts, Decl)
    BY <2>1 DEF NoUnitLine
  <2>3. Len(Append(contracts, Decl)) = Len(contracts) + 1
    <3>1. Decl \in Contracts
      <4>1. Len(file) \in Nat
        BY LenProperties DEF Typed
      <4> QED BY <4>1, EmptySeq DEF Decl, Contracts, Here
    <3> HIDE DEF Decl
    <3> QED BY <1>0, <1>1, <3>1, AppendProperties
  <2> QED BY <1>0, <1>1, <2>2, <2>3
<1> QED BY <1>2, <1>3, <1>4, <1>5, <1>6, ParseMoves

\* The functions the parser of the graph finds, in any file: a function of the file,
\* the first two lines of one whose head takes three, or one without a body and
\* what comes below it.
HeadOf(f, u) == /\ u.lines[1] \in 1..Len(f) /\ f[u.lines[1]].kind \in FunctionLines
                /\ u.name = f[u.lines[1]].name
NoAttributes(f, u) == \A i \in 1..Len(u.lines) : u.lines[i] \in 1..Len(f) /\ f[u.lines[i]].kind # "attributes"
TwoLines(f, u) == /\ Len(u.lines) = 2 /\ u.lines[2] \in 1..Len(f)
                  /\ f[u.lines[1]].kind = "signature" /\ f[u.lines[2]].kind = "attributes"

\* x is an item of the parser's k-th contract.
IsParsed(x, k) == k \in 1..Len(contracts) /\ \E i \in 1..Len(contracts[k].items) : x = contracts[k].items[i]

\* What a function of the parser's is
ParsedAs(u) ==
  HeadOf(file, u) /\ (file[u.lines[1]].kind = "declaration" \/ TwoLines(file, u) \/ (IsDone(u) /\ NoAttributes(file, u)))

\* In any file the parser's functions are such, and the open one becomes one.
UnitInv ==
  /\ \A k \in 1..Len(contracts) : contracts[k].vars \subseteq Variables
  /\ \A k, x : IsParsed(x, k) /\ x.kind = "function" => ParsedAs(x)
  /\ unit # NoUnit => current
  /\ unit # NoUnit /\ unit.kind = "function" =>
       /\ HeadOf(file, unit)
       /\ \/ file[unit.lines[1]].kind = "declaration"
          \/ /\ InFunction /\ unit = OpenItem /\ unitDepth = Level - 1 /\ NoAttributes(file, unit)
             /\ Second = "signature" => Len(unit.lines) = 1

\* What a line was is what it is in a longer file.
LEMMA HeadStays ==
  ASSUME NEW f, NEW h, OneMore(h, f), NEW u
  PROVE  /\ HeadOf(f, u) => HeadOf(h, u) /\ h[u.lines[1]] = f[u.lines[1]]
         /\ NoAttributes(f, u) => NoAttributes(h, u)
         /\ HeadOf(f, u) /\ TwoLines(f, u) => TwoLines(h, u)
<1>1. Len(f) \in Nat /\ Len(h) = Len(f) + 1 /\ \A i \in 1..Len(f) : h[i] = f[i] /\ i \in 1..Len(h)
  BY DEF OneMore
<1>2. HeadOf(f, u) => HeadOf(h, u) /\ h[u.lines[1]] = f[u.lines[1]]
  BY <1>1 DEF HeadOf
<1>3. NoAttributes(f, u) => NoAttributes(h, u)
  BY <1>1 DEF NoAttributes
<1>4. HeadOf(f, u) /\ TwoLines(f, u) => TwoLines(h, u)
  BY <1>1, <1>2 DEF TwoLines
<1> QED BY <1>2, <1>3, <1>4

\* A unit with one more line
LEMMA HeadGrows ==
  ASSUME NEW f, NEW h, OneMore(h, f), NEW u, NEW v, Len(u.lines) \in Nat, Len(u.lines) >= 1,
         v.lines = Append(u.lines, Len(f) + 1), u.lines \in Seq(Nat), v.name = u.name
  PROVE  /\ HeadOf(f, u) => HeadOf(h, v) /\ h[v.lines[1]] = f[u.lines[1]]
         /\ NoAttributes(f, u) /\ h[Len(f) + 1].kind # "attributes" => NoAttributes(h, v)
         /\ HeadOf(f, u) /\ Len(u.lines) = 1 /\ f[u.lines[1]].kind = "signature" =>
              (h[Len(f) + 1].kind = "attributes" => TwoLines(h, v))
<1>0. PICK m, n : m = Len(f) /\ n = Len(u.lines)
  OBVIOUS
<1>1. m \in Nat /\ Len(h) = m + 1 /\ \A i \in 1..m : h[i] = f[i] /\ i \in 1..Len(h)
  BY <1>0 DEF OneMore
<1>2. m + 1 \in 1..Len(h)
  BY <1>1
<1>3. /\ n \in Nat /\ n >= 1 /\ Len(v.lines) = n + 1 /\ v.lines[n + 1] = m + 1
      /\ \A i \in 1..n : v.lines[i] = u.lines[i]
  BY <1>0, <1>1, AppendProperties
<1>4. v.lines[1] = u.lines[1]
  BY <1>3
<1>5. HeadOf(f, u) => HeadOf(h, v) /\ h[v.lines[1]] = f[u.lines[1]]
  BY <1>0, <1>1, <1>4 DEF HeadOf
<1>6. NoAttributes(f, u) /\ h[m + 1].kind # "attributes" => NoAttributes(h, v)
  <2> SUFFICES ASSUME NoAttributes(f, u), h[m + 1].kind # "attributes", NEW i \in 1..(n + 1)
               PROVE  v.lines[i] \in 1..Len(h) /\ h[v.lines[i]].kind # "attributes"
    BY <1>0, <1>3 DEF NoAttributes
  <2>1. CASE i = n + 1
    BY <1>2, <1>3, <2>1
  <2>2. CASE i \in 1..n
    BY <1>0, <1>1, <1>3, <2>2 DEF NoAttributes
  <2> QED BY <1>3, <2>1, <2>2
<1>7. HeadOf(f, u) /\ n = 1 /\ f[u.lines[1]].kind = "signature" /\ h[m + 1].kind = "attributes" => TwoLines(h, v)
  BY <1>0, <1>2, <1>3, <1>5 DEF TwoLines
<1> QED BY <1>0, <1>5, <1>6, <1>7

\* A unit that begins here
LEMMA HeadBegins ==
  ASSUME NEW f, NEW h, OneMore(h, f), NEW v, v.lines = <<Len(f) + 1>>, v.name = h[Len(f) + 1].name,
         h[Len(f) + 1].kind \in FunctionLines
  PROVE  HeadOf(h, v) /\ h[v.lines[1]] = h[Len(f) + 1] /\ NoAttributes(h, v) /\ Len(v.lines) = 1
<1>1. Len(f) \in Nat /\ Len(h) = Len(f) + 1
  BY DEF OneMore
<1>2. v.lines[1] = Len(f) + 1 /\ Len(v.lines) = 1 /\ Len(f) + 1 \in 1..Len(h)
  BY <1>1
<1>3. h[Len(f) + 1].kind # "attributes"
  BY DEF FunctionLines
<1> QED BY <1>1, <1>2, <1>3 DEF HeadOf, NoAttributes

\* A line's kind tells what it can do to the function that is open.
LEMMA UnitStep ==
  ASSUME Grammar, ItemInv, CountInv, UnitInv, NEW l, Reads(l), Parse(l)
  PROVE  UnitInv'
<1>0. Typed /\ Shape /\ Level' = Level + Delta(l) /\ Level \in Nat
  BY GrammarStep, LevelIs DEF Grammar
<1>1. OneMore(file', file) /\ Here = Len(file) + 1 /\ file'[Len(file) + 1] = l /\ l \in LineChoices(style)
  BY <1>0, FileIs DEF OneMore
<1>2. unit \in Items \cup {NoUnit}
  BY DEF CountInv
<1>3. /\ unit = NoUnit => WithLine(l) = Item(UnitKind(l), l)
      /\ unit # NoUnit => /\ WithLine(l) = Longer(unit) /\ unit \in Items
                          /\ WithLine(l).kind = unit.kind /\ WithLine(l).name = unit.name
                          /\ WithLine(l).lines = Append(unit.lines, Len(file) + 1)
                          /\ Len(unit.lines) \in Nat /\ Len(unit.lines) >= 1 /\ unit.lines \in Seq(Nat)
  <2>1. unit \in Items => unit.lines \in Seq(Nat)
    BY DEF Items
  <2>2. unit = NoUnit => WithLine(l) = Item(UnitKind(l), l)
    BY DEF WithLine
  <2>3. unit # NoUnit => WithLine(l) = Longer(unit) /\ unit \in Items
    BY <1>2 DEF WithLine
  <2> QED BY <1>0, <1>1, <2>1, <2>2, <2>3, LongerIs
<1>4. unit = NoUnit => /\ WithLine(l).kind = UnitKind(l) /\ WithLine(l).name = l.name
                       /\ WithLine(l).lines = <<Len(file) + 1>>
  BY <1>0, <1>1, <1>3, ItemType
<1>5. /\ unit # NoUnit /\ HeadOf(file, unit) =>
           HeadOf(file', WithLine(l)) /\ file'[WithLine(l).lines[1]] = file[unit.lines[1]]
      /\ unit # NoUnit /\ NoAttributes(file, unit) /\ l.kind # "attributes" => NoAttributes(file', WithLine(l))
      /\ unit # NoUnit /\ HeadOf(file, unit) /\ Len(unit.lines) = 1 /\ file[unit.lines[1]].kind = "signature" =>
           (l.kind = "attributes" => TwoLines(file', WithLine(l)))
  <2>1. CASE unit # NoUnit
    BY <1>1, <1>3, <2>1, HeadGrows
  <2> QED BY <2>1
<1>6. unit = NoUnit /\ l.kind \in FunctionLines =>
        /\ HeadOf(file', WithLine(l)) /\ file'[WithLine(l).lines[1]] = l
        /\ NoAttributes(file', WithLine(l)) /\ Len(WithLine(l).lines) = 1
  BY <1>1, <1>4, HeadBegins
<1>7. UnitEnds(l) \/ UnitGoesOn(l) \/ NoUnitLine(l)
  BY <1>0, ParseMoves
<1>8. \A k \in 1..Len(contracts') : contracts'[k].vars \subseteq Variables
  <2>1. \A k \in 1..Len(contracts) : contracts'[k].vars \subseteq contracts[k].vars \cup Variables
    BY <1>0, ContractsGrow
  <2>2. \A k \in 1..Len(contracts) : contracts[k].vars \subseteq Variables
    BY DEF UnitInv
  <2>3. \A k \in 1..Len(contracts') : k \in 1..Len(contracts) \/ contracts'[k] = Decl
    BY <1>0, ContractsGrow
  <2>4. Decl.vars = {}
    BY DEF Decl
  <2> QED BY <2>1, <2>2, <2>3, <2>4
<1>9. ASSUME NEW k, NEW x, IsParsed(x, k)'
      PROVE  IsParsed(x, k) \/ (UnitEnds(l) /\ x = WithLine(l))
  <2>1. /\ \A j \in 1..Len(contracts') : j \in 1..Len(contracts) \/ contracts'[j] = Decl
        /\ \A j \in 1..Len(contracts) : \A i \in 1..Len(contracts'[j].items) :
              \/ i \in 1..Len(contracts[j].items) /\ contracts'[j].items[i] = contracts[j].items[i]
              \/ UnitEnds(l) /\ contracts'[j].items[i] = WithLine(l)
    BY <1>0, ContractsGrow
  <2>2. k \in 1..Len(contracts') /\ \E i \in 1..Len(contracts'[k].items) : x = contracts'[k].items[i]
    BY <1>9 DEF IsParsed
  <2>3. Len(Decl.items) = 0
    BY DEF Decl
  <2>4. PICK i \in 1..Len(contracts'[k].items) : x = contracts'[k].items[i]
    BY <2>2
  <2>5. contracts'[k] # Decl
    BY <2>3, <2>4
  <2> QED BY <2>1, <2>2, <2>4, <2>5 DEF IsParsed
<1>10. ASSUME UnitEnds(l), WithLine(l).kind = "function"
       PROVE  \A x : x = WithLine(l) => ParsedAs(x)'
  <2> SUFFICES ASSUME NEW x, x = WithLine(l) PROVE ParsedAs(x)'
    OBVIOUS
  <2>0. x = WithLine(l)
    OBVIOUS
  <2>1. /\ HeadOf(file', x) /\ file'[x.lines[1]].kind = "declaration" => ParsedAs(x)'
        /\ HeadOf(file', x) /\ TwoLines(file', x) => ParsedAs(x)'
        /\ HeadOf(file', x) /\ IsDone(x)' /\ NoAttributes(file', x) => ParsedAs(x)'
    BY DEF ParsedAs
  <2>2. CASE unit = NoUnit
    <3>1. l.kind = "oneLiner"
      BY <1>10, <2>2 DEF UnitEnds
    <3>2. HeadOf(file', x) /\ NoAttributes(file', x)
      BY <1>6, <2>2, <3>1, <2>0 DEF FunctionLines
    <3>3. IsOne(l) /\ x = Item("function", l)
      <4>1. UnitKind(l) = "function"
        BY <3>1 DEF UnitKind, FunctionLines
      <4> QED BY <1>3, <2>2, <3>1, <4>1, <2>0, OpenMoves
    <3>4. IsDone(x)'
      BY <3>3, DoneKept
    <3> QED BY <2>1, <3>2, <3>4
  <2>3. CASE unit # NoUnit
    <3>1. l.kind # "comment" /\ unitDepth + Delta(l) <= 0 /\ unit.kind = "function"
      BY <1>3, <1>10, <2>3 DEF UnitEnds
    <3>2. HeadOf(file, unit) /\ HeadOf(file', x) /\ file'[x.lines[1]] = file[unit.lines[1]]
      BY <1>5, <2>0, <2>3, <3>1 DEF UnitInv
    <3>3. CASE file[unit.lines[1]].kind = "declaration"
      BY <2>1, <3>2, <3>3
    <3>4. CASE file[unit.lines[1]].kind # "declaration"
      <4>1. /\ InFunction /\ unit = OpenItem /\ unitDepth = Level - 1 /\ NoAttributes(file, unit)
            /\ Second = "signature" => Len(unit.lines) = 1
        BY <2>3, <3>1, <3>4 DEF UnitInv
      <4>2. CASE InFunction'
        <5>1. Second' = "signature" /\ Second = "signature" /\ l.kind = "attributes"
          <6>1. Level' <= 1
            BY <1>0, <3>1, <4>1, BracesOf
          <6>2. ~(Second' = "function")
            BY <1>0, <4>1, <4>2, <6>1, OpenMoves
          <6> QED BY <3>1, <4>1, <4>2, <6>2, OpenMoves DEF InFunction
        <5>2. file[unit.lines[1]].kind = "signature" /\ Len(unit.lines) = 1
          BY <4>1, <5>1 DEF ItemInv
        <5>3. TwoLines(file', x)
          BY <1>5, <2>0, <2>3, <3>2, <5>1, <5>2
        <5> QED BY <2>1, <3>2, <5>3
      <4>3. CASE ~InFunction'
        <5>1. l.kind = "close"
          BY <4>1, <4>3, OpenMoves
        <5>2. NoAttributes(file', x)
          BY <1>5, <2>0, <2>3, <4>1, <5>1
        <5>3. IsDone(x)'
          BY <1>3, <2>0, <2>3, <4>1, <4>3, DoneKept
        <5> QED BY <2>1, <3>2, <5>2, <5>3
      <4> QED BY <4>2, <4>3
    <3> QED BY <3>3, <3>4
  <2> QED BY <2>2, <2>3
<1>11. ASSUME NEW k, NEW x, IsParsed(x, k), x.kind = "function"
       PROVE  ParsedAs(x)'
  <2>1. ParsedAs(x)
    BY <1>11 DEF UnitInv
  <2>2. /\ HeadOf(file', x) /\ file'[x.lines[1]] = file[x.lines[1]]
        /\ TwoLines(file, x) => TwoLines(file', x)
        /\ NoAttributes(file, x) => NoAttributes(file', x)
    BY <1>1, <2>1, HeadStays DEF ParsedAs
  <2>3. IsDone(x) => IsDone(x)'
    BY DoneKept
  <2> QED BY <2>1, <2>2, <2>3 DEF ParsedAs
<1>12. \A k, x : IsParsed(x, k)' /\ x.kind = "function" => ParsedAs(x)'
  BY <1>9, <1>10, <1>11
<1>13. unit' # NoUnit => current'
  BY <1>7 DEF UnitEnds, UnitGoesOn, NoUnitLine, UnitInv
<1>14. ASSUME unit' # NoUnit, unit'.kind = "function"
       PROVE  /\ HeadOf(file', unit')
              /\ \/ file'[unit'.lines[1]].kind = "declaration"
                 \/ /\ InFunction' /\ unit' = OpenItem' /\ unitDepth' = Level' - 1 /\ NoAttributes(file', unit')
                    /\ Second' = "signature" => Len(unit'.lines) = 1
  <2> SUFFICES ASSUME NEW x, x = unit'
               PROVE  /\ HeadOf(file', x)
                      /\ \/ file'[x.lines[1]].kind = "declaration"
                         \/ /\ InFunction' /\ x = OpenItem' /\ unitDepth' = Level' - 1 /\ NoAttributes(file', x)
                            /\ Second' = "signature" => Len(x.lines) = 1
    OBVIOUS
  <2>0. x = unit' /\ x # NoUnit /\ x.kind = "function" /\ ~UnitEnds(l)
    BY <1>14 DEF UnitEnds
  <2>1. CASE unit = NoUnit
    <3>1. l.kind \in {"function", "declaration", "signature"} /\ unitDepth' = Delta(l) /\ x = WithLine(l)
      <4>1. UnitGoesOn(l)
        BY <1>7, <2>0, <2>1 DEF NoUnitLine
      <4>2. l.kind \in {"function", "declaration", "signature", "modifier"} /\ unitDepth' = Delta(l) /\ x = WithLine(l)
        BY <2>0, <2>1, <4>1 DEF UnitGoesOn
      <4>3. UnitKind(l) = "function"
        BY <1>4, <2>0, <2>1, <4>2
      <4> QED BY <4>2, <4>3 DEF UnitKind, FunctionLines
    <3>2. HeadOf(file', x) /\ file'[x.lines[1]] = l /\ NoAttributes(file', x) /\ Len(x.lines) = 1
      BY <1>6, <2>1, <3>1 DEF FunctionLines
    <3>3. CASE l.kind = "declaration"
      BY <3>2, <3>3
    <3>4. CASE l.kind # "declaration"
      <4>1. l.kind \in {"function", "signature"} /\ l.kind \in Bodies
        BY <3>1, <3>4 DEF Bodies, FunctionLines
      <4>2. ~InFunction
        <5>1. InFunction /\ InFunction' => l.kind \notin Bodies
          BY OpenMoves
        <5>2. InFunction /\ ~InFunction' => l.kind = "close"
          BY OpenMoves
        <5> QED BY <4>1, <5>1, <5>2
      <4>3. InFunction'
        BY <4>1, <4>2, OpenMoves
      <4>4. OpenItem' = Item("function", l) /\ Level' = 1 + Opens(l)
        BY <4>2, <4>3, OpenMoves
      <4>5. x = Item("function", l)
        <5>1. UnitKind(l) = "function"
          BY <4>1 DEF UnitKind, FunctionLines
        <5> QED BY <1>3, <2>1, <3>1, <5>1
      <4>6. unitDepth' = Level' - 1
        BY <3>1, <4>1, <4>4, BracesOf
      <4> QED BY <3>2, <4>3, <4>4, <4>5, <4>6
    <3> QED BY <3>3, <3>4
  <2>2. CASE unit # NoUnit /\ UnitGoesOn(l)
    <3>1. /\ l.kind # "comment" /\ ~(unitDepth + Delta(l) <= 0) /\ unitDepth' = unitDepth + Delta(l)
          /\ x = WithLine(l) /\ unit.kind = "function"
      BY <1>3, <2>0, <2>2 DEF UnitGoesOn
    <3>2. HeadOf(file, unit) /\ HeadOf(file', x) /\ file'[x.lines[1]] = file[unit.lines[1]]
      BY <1>5, <2>2, <3>1 DEF UnitInv
    <3>3. CASE file[unit.lines[1]].kind = "declaration"
      BY <3>2, <3>3
    <3>4. CASE file[unit.lines[1]].kind # "declaration"
      <4>1. InFunction /\ unit = OpenItem /\ unitDepth = Level - 1 /\ NoAttributes(file, unit)
        BY <2>2, <3>1, <3>4 DEF UnitInv
      <4>2. Level' >= 2 /\ unitDepth' = Level' - 1
        BY <1>0, <3>1, <4>1, BracesOf
      <4>3. InFunction'
        BY <4>1, <4>2, OpenMoves
      <4>4. l.kind # "attributes"
        <5>1. l.kind = "attributes" => Second = "signature" /\ Delta(l) = 0
          BY <4>1, <4>3, OpenMoves, BracesOf
        <5>2. Second = "signature" => Level = 1
          BY <1>0, LevelIs
        <5> QED BY <1>0, <4>2, <5>1, <5>2
      <4>5. Second' # "signature"
        BY <3>1, <4>1, <4>3, <4>4, OpenMoves
      <4>6. NoAttributes(file', x)
        BY <1>5, <2>2, <3>1, <4>1, <4>4
      <4>7. x = OpenItem'
        BY <1>3, <2>2, <3>1, <4>1, <4>3, OpenMoves
      <4> QED BY <3>2, <4>2, <4>3, <4>5, <4>6, <4>7
    <3> QED BY <3>3, <3>4
  <2>3. CASE unit # NoUnit /\ NoUnitLine(l)
    <3>1. current
      BY <2>3 DEF UnitInv
    <3>2. l.kind = "comment" /\ x = unit /\ unitDepth' = unitDepth
      BY <2>0, <2>3, <3>1 DEF NoUnitLine
    <3>3. HeadOf(file, unit) /\ HeadOf(file', x) /\ file'[x.lines[1]] = file[unit.lines[1]]
      BY <1>1, <2>0, <2>3, <3>2, HeadStays DEF UnitInv
    <3>4. CASE file[unit.lines[1]].kind = "declaration"
      BY <3>3, <3>4
    <3>5. CASE file[unit.lines[1]].kind # "declaration"
      <4>1. /\ InFunction /\ unit = OpenItem /\ unitDepth = Level - 1 /\ NoAttributes(file, unit)
            /\ Second = "signature" => Len(unit.lines) = 1
        BY <2>0, <2>3, <3>2, <3>5 DEF UnitInv
      <4>2. InFunction'
        BY <3>2, <4>1, OpenMoves
      <4>3. OpenItem' = OpenItem /\ (Second' = "signature" => Second = "signature")
        BY <3>2, <4>1, <4>2, OpenMoves
      <4>4. Level' = Level
        BY <1>0, <3>2, BracesOf
      <4>5. NoAttributes(file', x)
        BY <1>1, <3>2, <4>1, HeadStays
      <4> QED BY <3>2, <3>3, <4>1, <4>2, <4>3, <4>4, <4>5
    <3> QED BY <3>4, <3>5
  <2> QED BY <1>7, <2>0, <2>1, <2>2, <2>3
<1> QED BY <1>8, <1>12, <1>13, <1>14 DEF UnitInv

\* Where the parser found no contract there is none, and no function.
EmptyInv ==
  /\ Len(contracts) = 0 => Len(source) = 0
  /\ Len(source) = 0 => \A m \in 1..Len(file) : file[m].kind \in {"import", "comment"}

\* Every line preserves this.
LEMMA EmptyStep ==
  ASSUME Grammar, CountInv, EmptyInv, NEW l, Reads(l), Parse(l)
  PROVE  EmptyInv'
<1>0. Typed /\ Len(source) \in Nat /\ (scopes # <<>> => source # <<>>) /\ (source = <<>> <=> Len(source) = 0)
  BY LenProperties, EmptySeq DEF Grammar, Typed
<1>1. /\ Len(file) \in Nat /\ Len(file') = Len(file) + 1 /\ file'[Len(file) + 1] = l
      /\ \A i \in 1..Len(file) : file'[i] = file[i]
  BY <1>0, FileIs
<1>2. /\ Len(contracts) \in Nat
      /\ Len(contracts') = Len(contracts) + (IF ~current /\ l.kind \in ContractLines THEN 1 ELSE 0)
  BY <1>0, ContractsGrow
<1>3. current => Len(contracts) # 0
  BY <1>2, EmptySeq DEF CountInv
<1>4. CASE scopes # <<>>
  <2>1. Len(source') = Len(source) /\ Len(source) # 0
    BY <1>0, <1>4, SourceStep
  <2> QED BY <1>2, <2>1 DEF EmptyInv
<1>5. CASE scopes = <<>> /\ l.kind \in ContractLines
  <2>1. Len(source') = Len(source) + 1
    BY <1>5, SourceStep
  <2>2. Len(contracts') # 0
    BY <1>2, <1>3, <1>5
  <2> QED BY <1>0, <2>1, <2>2 DEF EmptyInv
<1>6. CASE scopes = <<>> /\ l.kind \notin ContractLines
  <2>1. source' = source /\ l.kind \in {"import", "comment"}
    BY <1>6, SourceStep
  <2>2. Len(contracts') = 0 => Len(source') = 0
    BY <1>2, <2>1 DEF EmptyInv
  <2>3. Len(source') = 0 => \A m \in 1..Len(file') : file'[m].kind \in {"import", "comment"}
    BY <1>1, <2>1 DEF EmptyInv
  <2> QED BY <2>2, <2>3 DEF EmptyInv
<1> QED BY <1>4, <1>5, <1>6

\* A comment leaves everything open as it was.
LEMMA CommentStays ==
  ASSUME NEW l, Moves(l), l.kind = "comment"
  PROVE  scopes' = scopes /\ source' = source
<1>1. l.kind \notin Statements \cup ContractLines
  BY DEF Statements, ContractLines
<1> QED BY <1>1 DEF Moves, CommentLine, ImportLine, ContractLine, HeaderLine, HeaderBrace, Attributes, FunctionBrace,
                    MarkLine, ConstructorBrace, ItemLine, OneLineItem, ConstructorLine, VariableLine, MemberLine,
                    ContractEnd, BodyLine, BlockBegins, BlockEnds, BodyEnds, Stays

\* In a file without functions that have no body and without contracts on one line,
\* the parser is in the contract, and in the function, that the line is in.
Regular == ~Has({"declaration", "emptyContract"})

SyncInv == Regular =>
  /\ Len(contracts) = Len(source)
  /\ current => scopes # <<>>
  /\ scopes # <<>> => \A k : k = Len(source) /\ file[source[k].line].kind # "bareContract" => current
  /\ ~InUnit => unit = NoUnit
  /\ InUnit /\ unit # NoUnit => unitDepth = Level - 1
  /\ InFunction /\ current /\ NoAttributes(file, OpenItem) => unit = OpenItem

\* Every line preserves this.
LEMMA SyncStep ==
  ASSUME Grammar, CountInv, OrderInv, TextInv, LinesInv, UnitInv, SyncInv, NEW l, Reads(l), Parse(l)
  PROVE  SyncInv'
<1> SUFFICES ASSUME Regular'
             PROVE  /\ Len(contracts') = Len(source')
                    /\ current' => scopes' # <<>>
                    /\ scopes' # <<>> => \A k : k = Len(source') /\ file'[source'[k].line].kind # "bareContract" => current'
                    /\ ~InUnit' => unit' = NoUnit
                    /\ InUnit' /\ unit' # NoUnit => unitDepth' = Level' - 1
                    /\ InFunction' /\ current' /\ NoAttributes(file', OpenItem') => unit' = OpenItem'
  BY DEF SyncInv
<1>1. /\ Typed /\ Shape /\ Typed' /\ Shape' /\ Moves(l) /\ Level' = Level + Delta(l) /\ Level \in Nat
      /\ Outside(l) \/ Begins(l) \/ IsOne(l) \/ Continues(l) \/ Ends(l)
  <2>1. Typed /\ Shape
    BY DEF Grammar
  <2> QED BY <2>1, GrammarStep, LevelIs DEF Grammar
<1>2. Regular /\ l.kind \notin {"declaration", "emptyContract"}
  BY <1>1, HasStep DEF Regular
<1>3. /\ Len(contracts) = Len(source)
      /\ current => scopes # <<>>
      /\ scopes # <<>> => \A k : k = Len(source) /\ file[source[k].line].kind # "bareContract" => current
      /\ ~InUnit => unit = NoUnit
      /\ InUnit /\ unit # NoUnit => unitDepth = Level - 1
      /\ InFunction /\ current /\ NoAttributes(file, OpenItem) => unit = OpenItem
  BY <1>2 DEF SyncInv
<1>4. current => contractDepth = Level
  <2> SUFFICES ASSUME current PROVE contractDepth = Level
    OBVIOUS
  <2>1. PICK n : n = contracts[Len(contracts)].line
    OBVIOUS
  <2>2. n \in 1..Len(file) /\ contractDepth = Level + (IF file[n].kind = "emptyContract" THEN 1 ELSE 0)
    BY <2>1 DEF CountInv
  <2>3. file[n].kind # "emptyContract"
    BY <1>2, <2>2 DEF Regular, Has
  <2> QED BY <1>1, <2>2, <2>3
<1>5. UnitEnds(l) \/ UnitGoesOn(l) \/ NoUnitLine(l)
  BY <1>1, ParseMoves
<1>6. /\ Level' \in Nat
      /\ ~InHeader' => (Level' = 0 <=> scopes' = <<>>)
      /\ InHeader' => scopes' # <<>>
  BY <1>1, LevelUpAfter DEF InHeader
<1>7. l.kind \in ContractLines => /\ scopes = <<>> /\ ~current /\ scopes' # <<>> /\ ~InUnit /\ ~InUnit'
                                  /\ current' /\ unit' = NoUnit
  <2> SUFFICES ASSUME l.kind \in ContractLines PROVE scopes = <<>> /\ ~current /\ scopes' # <<>> /\ ~InUnit /\ ~InUnit'
                                  /\ current' /\ unit' = NoUnit
    OBVIOUS
  <2>1. scopes = <<>>
    BY SourceStep
  <2>2. ~current
    BY <1>3, <2>1
  <2>3. ContractLine(l)
    BY <1>1, <2>1 DEF Outside, Begins, IsOne, Continues, Ends, InUnit, InContract, Second, VariableLine, ContractLines
  <2>4. Len(scopes') = 1
    BY <1>2, <2>3 DEF ContractLine, Lands
  <2>5. scopes' # <<>>
    BY <2>4
  <2>6. ~InUnit /\ ~InUnit'
    BY <2>1, <2>3 DEF InUnit, Second, ContractLine, Lands, NoName
  <2>7. l.kind # "comment"
    BY DEF ContractLines
  <2>8. NoUnitLine(l) /\ unit = NoUnit
    BY <1>3, <1>5, <2>2, <2>6 DEF UnitEnds, UnitGoesOn
  <2> QED BY <2>1, <2>2, <2>5, <2>6, <2>7, <2>8 DEF NoUnitLine
<1>8. Len(contracts') = Len(source')
  <2>1. Len(contracts') = Len(contracts) + (IF ~current /\ l.kind \in ContractLines THEN 1 ELSE 0)
    BY <1>1, ContractsGrow
  <2>2. Len(source') = Len(source) + (IF l.kind \in ContractLines THEN 1 ELSE 0)
    <3>1. Len(source) \in Nat
      BY <1>1, LenProperties DEF Typed
    <3> QED BY <1>7, <3>1, SourceStep
  <2> QED BY <1>3, <1>7, <2>1, <2>2
<1>9. l.kind \in ContractLines \/ current' => current \/ l.kind \in ContractLines
  BY <1>5 DEF UnitEnds, UnitGoesOn, NoUnitLine
<1>10. unit # NoUnit => current /\ InUnit
  BY <1>3 DEF UnitInv
<1>11. l.kind \in {"function", "signature", "oneLiner", "modifier"} => ~InUnit /\ InContract /\ scopes' # <<>>
  BY <1>1 DEF Outside, Begins, IsOne, Continues, Ends, Bodies, FunctionLines
<1>12. current' => scopes' # <<>>
  <2> SUFFICES ASSUME current', l.kind \notin ContractLines PROVE scopes' # <<>>
    BY <1>7
  <2>1. current /\ scopes # <<>>
    BY <1>3, <1>9
  <2>2. CASE unit # NoUnit
    <3>1. InUnit
      BY <1>10, <2>2
    <3> QED BY <1>1, <3>1 DEF Outside, Begins, IsOne, Continues, Ends
  <2>3. CASE l.kind \in {"function", "signature", "oneLiner", "modifier"}
    BY <1>11, <2>3
  <2>4. CASE l.kind = "comment"
    BY <1>1, <2>1, <2>4, CommentStays
  <2>5. CASE unit = NoUnit /\ l.kind \notin {"function", "signature", "oneLiner", "modifier", "comment"}
    <3>1. NoUnitLine(l) /\ contractDepth = Level
      BY <1>2, <1>4, <1>5, <2>1, <2>5 DEF UnitEnds, UnitGoesOn
    <3>2. ~(Level + Delta(l) <= 0)
      BY <2>1, <2>5, <3>1 DEF NoUnitLine
    <3> QED BY <1>1, <1>6, <3>2
  <2> QED BY <2>2, <2>3, <2>4, <2>5
<1>13. scopes' # <<>> => \A k : k = Len(source') /\ file'[source'[k].line].kind # "bareContract" => current'
  <2> SUFFICES ASSUME scopes' # <<>>, l.kind \notin ContractLines, NEW k, k = Len(source'),
                      file'[source'[k].line].kind # "bareContract"
               PROVE  current'
    BY <1>7
  <2>1. scopes # <<>>
    BY SourceStep
  <2>2. k = Len(source) /\ source'[k].line = source[k].line /\ k \in 1..Len(source)
    BY <1>1, <2>1, SourceStep, LastIs
  <2>3. source[k].line \in 1..Len(file) /\ file'[source[k].line] = file[source[k].line]
    BY <1>1, <2>2, FileIs DEF OrderInv
  <2>4. current
    BY <1>3, <2>1, <2>2, <2>3
  <2>5. ~InHeader'
    <3>1. InHeader' => InHeader
      <4>1. l.kind # "bareContract"
        BY DEF ContractLines
      <4> QED BY <1>1, <4>1, HeaderFrom
    <3>2. InHeader => file[source[k].line].kind = "bareContract"
      BY <2>1, <2>2 DEF TextInv, InHead
    <3> QED BY <2>2, <2>3, <3>1, <3>2
  <2>6. ~(Level + Delta(l) <= 0)
    BY <1>1, <1>6, <2>5
  <2> QED BY <1>4, <1>5, <2>4, <2>6 DEF UnitEnds, UnitGoesOn, NoUnitLine
<1>14. ~InUnit' => unit' = NoUnit
  <2> SUFFICES ASSUME ~InUnit', unit' # NoUnit PROVE FALSE
    OBVIOUS
  <2>1. Outside(l) \/ IsOne(l) \/ Ends(l)
    BY <1>1 DEF Begins, Continues, InUnit
  <2>2. CASE Outside(l) \/ IsOne(l)
    <3>1. unit = NoUnit /\ l.kind \notin {"function", "declaration", "signature", "modifier"}
      BY <1>2, <1>3, <2>2 DEF Outside, IsOne
    <3> QED BY <1>5, <3>1 DEF UnitEnds, UnitGoesOn, NoUnitLine
  <2>3. CASE Ends(l)
    <3>1. InUnit /\ l.kind = "close" /\ Level = 2 /\ Delta(l) = 0 - 1
      BY <2>3, BracesOf DEF Ends
    <3>2. unit = NoUnit => unit' = NoUnit
      BY <1>5, <3>1 DEF UnitEnds, UnitGoesOn, NoUnitLine
    <3>3. unit # NoUnit => unitDepth + Delta(l) = 0 /\ current
      BY <1>3, <1>10, <3>1
    <3> QED BY <1>5, <3>1, <3>2, <3>3 DEF UnitEnds, UnitGoesOn, NoUnitLine
  <2> QED BY <2>1, <2>2, <2>3
<1>15. InUnit' /\ unit' # NoUnit => unitDepth' = Level' - 1
  <2> SUFFICES ASSUME InUnit', unit' # NoUnit PROVE unitDepth' = Level' - 1
    OBVIOUS
  <2>1. Begins(l) \/ Continues(l)
    BY <1>1 DEF Outside, IsOne, Ends
  <2>2. Delta(l) \in Int
    BY BracesOf
  <2>3. CASE Begins(l)
    <3>1. unit = NoUnit /\ Level = 1
      BY <1>1, <1>3, <2>3, LevelIs DEF Begins
    <3>2. unitDepth' = Delta(l)
      BY <1>5, <3>1 DEF UnitEnds, UnitGoesOn, NoUnitLine
    <3> QED BY <1>1, <2>2, <3>1, <3>2
  <2>4. CASE Continues(l)
    <3>1. InUnit /\ l.kind \notin Bodies
      BY <2>4 DEF Continues
    <3>2. unit # NoUnit
      BY <1>5, <3>1 DEF UnitEnds, UnitGoesOn, NoUnitLine, Bodies, FunctionLines
    <3>3. unitDepth = Level - 1 /\ current
      BY <1>3, <1>10, <3>1, <3>2
    <3>4. CASE UnitGoesOn(l)
      BY <1>1, <2>2, <3>2, <3>3, <3>4 DEF UnitGoesOn
    <3>5. CASE NoUnitLine(l)
      <4>1. l.kind = "comment" /\ unitDepth' = unitDepth
        BY <3>2, <3>3, <3>5 DEF NoUnitLine
      <4>2. Delta(l) = 0
        BY <4>1, BracesOf
      <4> QED BY <1>1, <3>3, <4>1, <4>2
    <3> QED BY <1>5, <3>4, <3>5 DEF UnitEnds
  <2> QED BY <2>1, <2>3, <2>4
<1>16. InFunction' /\ current' /\ NoAttributes(file', OpenItem') => unit' = OpenItem'
  <2> SUFFICES ASSUME InFunction', current', NoAttributes(file', OpenItem') PROVE unit' = OpenItem'
    OBVIOUS
  <2>0. PICK h, it : h = file' /\ it = OpenItem'
    OBVIOUS
  <2>1. current
    <3>1. l.kind \notin ContractLines
      BY <1>7 DEF InFunction, InUnit
    <3> QED BY <1>9, <3>1
  <2>2. CASE ~InFunction
    <3>1. Begins(l) /\ l.kind \in {"function", "signature"} /\ it = Item("function", l) /\ Level = 1
      BY <2>0, <2>2, OpenMoves
    <3>2. unit = NoUnit /\ contractDepth = 1
      BY <1>3, <1>4, <2>1, <3>1 DEF Begins
    <3>3. UnitGoesOn(l)
      BY <1>5, <2>1, <3>1, <3>2 DEF UnitEnds, NoUnitLine, FunctionLines
    <3>4. unit' = Item(UnitKind(l), l)
      BY <3>2, <3>3 DEF UnitGoesOn, WithLine
    <3>5. UnitKind(l) = "function"
      BY <3>1 DEF UnitKind, FunctionLines
    <3> QED BY <2>0, <3>1, <3>4, <3>5
  <2>3. CASE InFunction
    <3>1. OpenItem \in Items /\ it = IF l.kind = "comment" THEN OpenItem ELSE Longer(OpenItem)
      BY <2>0, <2>3, OpenMoves
    <3>2. OneMore(h, file) /\ Here = Len(file) + 1 /\ h[Len(file) + 1] = l
      BY <1>1, <2>0, FileIs DEF OneMore
    <3>3. /\ Len(OpenItem.lines) \in Nat /\ Longer(OpenItem).lines = Append(OpenItem.lines, Here)
          /\ Len(Longer(OpenItem).lines) = Len(OpenItem.lines) + 1
          /\ Longer(OpenItem).lines[Len(OpenItem.lines) + 1] = Here
          /\ \A i \in 1..Len(OpenItem.lines) : Longer(OpenItem).lines[i] = OpenItem.lines[i]
      <4>1. OpenItem.lines \in Seq(Nat) /\ Here \in Nat
        BY <1>1, <3>1, <3>2, FileIs DEF Items
      <4>2. /\ Len(OpenItem.lines) \in Nat /\ Longer(OpenItem).lines = Append(OpenItem.lines, Here)
            /\ Len(Longer(OpenItem).lines) = Len(OpenItem.lines) + 1
            /\ Longer(OpenItem).lines[Len(OpenItem.lines) + 1] = Here
        BY <1>1, <3>1, LongerIs
      <4>3. \A i \in 1..Len(OpenItem.lines) : Append(OpenItem.lines, Here)[i] = OpenItem.lines[i]
        BY <4>1, AppendProperties
      <4> QED BY <4>2, <4>3
    <3>4. NoAttributes(h, it)
      BY <2>0
    <3>5. NoAttributes(file, OpenItem)
      <4> SUFFICES ASSUME NEW i \in 1..Len(OpenItem.lines)
                   PROVE  OpenItem.lines[i] \in 1..Len(file) /\ file[OpenItem.lines[i]].kind # "attributes"
        BY DEF NoAttributes
      <4>1. OpenItem.lines[i] \in 1..Len(file)
        BY <2>3 DEF LinesInv, InOrder
      <4>2. i \in 1..Len(it.lines) /\ it.lines[i] = OpenItem.lines[i]
        BY <3>1, <3>3
      <4> QED BY <3>2, <3>4, <4>1, <4>2 DEF NoAttributes, OneMore
    <3>6. unit = OpenItem /\ unit # NoUnit
      <4>1. unit = OpenItem
        BY <1>3, <2>1, <2>3, <3>5
      <4>2. NoUnit \notin Items
        BY DEF NoUnit, Items, NoName
      <4> QED BY <3>1, <4>1, <4>2
    <3>7. CASE l.kind = "comment"
      BY <1>5, <2>0, <3>1, <3>6, <3>7 DEF UnitEnds, UnitGoesOn, NoUnitLine
    <3>8. CASE l.kind # "comment"
      <4>1. l.kind # "attributes"
        <5>1. Len(OpenItem.lines) + 1 \in 1..Len(it.lines) /\ it.lines[Len(OpenItem.lines) + 1] = Len(file) + 1
          BY <3>1, <3>2, <3>3, <3>8
        <5> QED BY <3>2, <3>4, <5>1 DEF NoAttributes
      <4>2. Level' >= 2
        BY <2>3, <3>8, <4>1, OpenMoves DEF InFunction
      <4>3. ~(unitDepth + Delta(l) <= 0)
        <5>1. unitDepth = Level - 1
          BY <1>3, <2>3, <3>6 DEF InFunction, InUnit
        <5> QED BY <1>1, <4>2, <5>1, BracesOf
      <4>4. UnitGoesOn(l)
        BY <1>5, <2>1, <3>6, <3>8, <4>3 DEF UnitEnds, NoUnitLine
      <4> QED BY <2>0, <3>1, <3>6, <3>8, <4>4 DEF UnitGoesOn, WithLine
    <3> QED BY <3>7, <3>8
  <2> QED BY <2>2, <2>3
<1> QED BY <1>8, <1>12, <1>13, <1>14, <1>15, <1>16

-----------------------------------------------------------------------------
(* What the graph's parser keeps *)

\* What comes before a line stays.
LEMMA BeforeStays ==
  ASSUME NEW f, NEW h, OneMore(h, f), NEW n \in 1..(Len(f) + 1), NEW K
  PROVE  (\E m \in 1..(n - 1) : h[m].kind \in K) <=> (\E m \in 1..(n - 1) : f[m].kind \in K)
<1>1. \A m \in 1..(n - 1) : h[m] = f[m]
  BY DEF OneMore
<1> QED BY <1>1

\* A line leaves what is above it as it was,
LEMMA BeforeIs ==
  ASSUME Grammar, NEW l, Reads(l), NEW n \in 1..(Len(file) + 1), NEW K
  PROVE  Before(n, K)' <=> Before(n, K)
<1>1. OneMore(file', file)
  BY FileIs DEF Grammar, OneMore
<1>2. PICK h : h = file'
  OBVIOUS
<1>3. (\E m \in 1..(n - 1) : h[m].kind \in K) <=> (\E m \in 1..(n - 1) : file[m].kind \in K)
  BY <1>1, <1>2, BeforeStays
<1> QED BY <1>2, <1>3 DEF Before

\* and above the next line is the whole file.
LEMMA BeforeHere ==
  ASSUME Grammar, NEW K
  PROVE  Before(Len(file) + 1, K) <=> Has(K)
<1>1. Len(file) \in Nat
  BY LenProperties DEF Grammar, Typed
<1>2. Len(file) + 1 - 1 = Len(file)
  BY <1>1
<1> QED BY <1>2 DEF Before, Has

\* The parser keeps the functions that end and the variables, unless what comes before
\* has thrown it off.
Off == {"declaration", "emptyContract"}

KeepsFunctions(k) ==
  \A x : IsDoneIn(x, k) /\ NoAttributes(file, x) /\ ~Before(x.lines[1], Off) => IsParsed(x, k)
VariablesClear == \A v \in 1..Len(file) : file[v].kind \in Variables => ~Before(v, {"declaration"})
KeepsVariables(k) ==
  ~Before(source[k].line, Off) /\ VariablesClear
    => k \in 1..Len(contracts) /\ source[k].vars \subseteq contracts[k].vars

\* It does so for every contract whose head is on one line.
KeptInv == \A k \in 1..Len(source) : file[source[k].line].kind # "bareContract" =>
             KeepsFunctions(k) /\ KeepsVariables(k)

\* The parser keeps what it has.
LEMMA ParsedStays ==
  ASSUME CountInv, Typed, NEW l, Reads(l), Parse(l), NEW x, NEW k, IsParsed(x, k)
  PROVE  IsParsed(x, k)'
<1>1. k \in 1..Len(contracts) /\ \E i \in 1..Len(contracts[k].items) : x = contracts[k].items[i]
  BY DEF IsParsed
<1>2. PICK i \in 1..Len(contracts[k].items) : x = contracts[k].items[i]
  BY <1>1
<1>3. i \in 1..Len(contracts'[k].items) /\ contracts'[k].items[i] = x
  BY <1>1, <1>2, ContractsGrow
<1>4. k \in 1..Len(contracts')
  <2>1. Len(contracts) \in Nat /\ (Len(contracts') = Len(contracts) \/ Len(contracts') = Len(contracts) + 1)
    BY ContractsGrow
  <2> QED BY <1>1, <2>1
<1> QED BY <1>3, <1>4 DEF IsParsed

\* The function that ends is kept.
LEMMA EndKept ==
  ASSUME Grammar, ItemInv, CountInv, LinesInv, SyncInv, NEW l, Reads(l), Parse(l),
         NEW x, NEW k, k = Len(source), file[source[k].line].kind # "bareContract",
         \/ IsOne(l) /\ x = Item("function", l)
         \/ InFunction /\ Ends(l) /\ x = Longer(OpenItem),
         NoAttributes(file', x), ~Before(x.lines[1], Off)'
  PROVE  IsParsed(x, k)'
<1>0. /\ Typed /\ Shape /\ Level \in Nat /\ OneMore(file', file) /\ Here = Len(file) + 1 /\ Len(file) \in Nat
      /\ l \in LineChoices(style)
  BY FileIs, LevelIs DEF Grammar, OneMore
<1>1. Regular /\ x.lines[1] \in 1..(Len(file) + 1)
  <2>1. CASE IsOne(l) /\ x = Item("function", l)
    <3>1. x.lines[1] = Len(file) + 1
      BY <1>0, <2>1 DEF Item
    <3>2. ~Before(Len(file) + 1, Off)
      <4>1. Len(file) + 1 \in 1..(Len(file) + 1)
        BY <1>0
      <4>2. PICK n : n = Len(file) + 1
        OBVIOUS
      <4>3. Before(n, Off)' <=> Before(n, Off)
        BY <4>1, <4>2, BeforeIs
      <4>4. ~Before(n, Off)'
        BY <3>1, <4>2 DEF Before
      <4> QED BY <4>2, <4>3, <4>4
    <3> QED BY <1>0, <3>1, <3>2, BeforeHere DEF Regular, Off
  <2>2. CASE InFunction /\ Ends(l) /\ x = Longer(OpenItem)
    <3>1. PICK a : a = OpenItem.lines[1]
      OBVIOUS
    <3>2. x.lines[1] = a
      <4>1. OpenItem \in Items
        <5>1. ~InFunction'
          BY <2>2 DEF Ends, InFunction, InUnit
        <5> QED BY <2>2, <5>1, OpenMoves
      <4> QED BY <1>0, <2>2, <3>1, <4>1, LongerIs
    <3>3. ItemRun(file, OpenItem, Len(file))
      BY <2>2 DEF ItemInv
    <3>4. /\ a \in 1..Len(file) /\ file[a].kind \in {"function", "oneLiner", "signature"}
          /\ \A m \in (a + 1)..Len(file) : file[m].kind \notin Bodies \cup ContractLines
      BY <3>1, <3>3 DEF ItemRun
    <3>5. ~Before(a, Off)
      <4>1. a \in 1..(Len(file) + 1)
        BY <1>0, <3>4
      <4>2. ~Before(a, Off)'
        BY <3>2 DEF Before
      <4> QED BY <4>1, <4>2, BeforeIs
    <3>6. Off \subseteq Bodies \cup ContractLines
      BY DEF Off, Bodies, ContractLines, FunctionLines
    <3>7. \A m \in 1..Len(file) : file[m].kind \notin Off
      <4> SUFFICES ASSUME NEW m \in 1..Len(file) PROVE file[m].kind \notin Off
        OBVIOUS
      <4>1. m \in 1..(a - 1) \/ m = a \/ m \in (a + 1)..Len(file)
        BY <1>0, <3>4
      <4> QED BY <3>4, <3>5, <3>6, <4>1 DEF Before, Off
    <3> QED BY <1>0, <3>2, <3>4, <3>7 DEF Regular, Has, Off
  <2> QED BY <2>1, <2>2
<1>2. /\ Len(contracts) = k
      /\ ~InUnit => unit = NoUnit
      /\ InUnit /\ unit # NoUnit => unitDepth = Level - 1
      /\ InFunction /\ current /\ NoAttributes(file, OpenItem) => unit = OpenItem
      /\ scopes # <<>> => current
  BY <1>1 DEF SyncInv
<1>3. current => contractDepth = Level
  <2> SUFFICES ASSUME current PROVE contractDepth = Level
    OBVIOUS
  <2>1. PICK n : n = contracts[Len(contracts)].line
    OBVIOUS
  <2>2. n \in 1..Len(file) /\ contractDepth = Level + (IF file[n].kind = "emptyContract" THEN 1 ELSE 0)
    BY <2>1 DEF CountInv
  <2>3. file[n].kind # "emptyContract"
    BY <1>1, <2>2 DEF Regular, Has
  <2> QED BY <1>0, <2>2, <2>3
<1>4. UnitEnds(l) \/ UnitGoesOn(l) \/ NoUnitLine(l)
  BY <1>0, ParseMoves
<1>5. UnitEnds(l) /\ WithLine(l) = x
  <2>1. CASE IsOne(l) /\ x = Item("function", l)
    <3>1. InContract /\ ~InUnit /\ l.kind = "oneLiner"
      BY <2>1 DEF IsOne
    <3>2. scopes # <<>> /\ Level = 1
      BY <1>0, <3>1, TopIs, LevelIs DEF InContract
    <3>3. current /\ unit = NoUnit /\ contractDepth = 1
      BY <1>2, <1>3, <3>1, <3>2
    <3>4. UnitEnds(l)
      BY <1>4, <3>1, <3>3 DEF UnitGoesOn, NoUnitLine, FunctionLines
    <3>5. UnitKind(l) = "function"
      BY <3>1 DEF UnitKind, FunctionLines
    <3> QED BY <2>1, <3>3, <3>4, <3>5 DEF WithLine
  <2>2. CASE InFunction /\ Ends(l) /\ x = Longer(OpenItem)
    <3>1. l.kind = "close" /\ Level = 2 /\ Delta(l) = 0 - 1 /\ InUnit
      BY <2>2, BracesOf DEF Ends
    <3>2. scopes # <<>>
      <4>1. Len(scopes) # 0
        BY <1>0, <3>1, LevelIs
      <4> QED BY <1>0, <4>1, TopIs
    <3>3. OpenItem \in Items
      <4>1. ~InFunction'
        BY <2>2 DEF Ends, InFunction, InUnit
      <4> QED BY <2>2, <4>1, OpenMoves
    <3>4. NoAttributes(file, OpenItem)
      <4> SUFFICES ASSUME NEW i \in 1..Len(OpenItem.lines)
                   PROVE  OpenItem.lines[i] \in 1..Len(file) /\ file[OpenItem.lines[i]].kind # "attributes"
        BY DEF NoAttributes
      <4>1. OpenItem.lines[i] \in 1..Len(file)
        BY <2>2 DEF LinesInv, InOrder
      <4>2. i \in 1..Len(x.lines) /\ x.lines[i] = OpenItem.lines[i]
        <5>1. OpenItem.lines \in Seq(Nat) /\ Here \in Nat
          BY <1>0, <3>3 DEF Items
        <5>2. /\ Len(x.lines) = Len(OpenItem.lines) + 1 /\ x.lines = Append(OpenItem.lines, Here)
              /\ Len(OpenItem.lines) \in Nat
          BY <1>0, <2>2, <3>3, LongerIs
        <5> QED BY <5>1, <5>2, AppendProperties
      <4>3. file'[x.lines[i]].kind # "attributes"
        BY <4>2 DEF NoAttributes
      <4> QED BY <1>0, <4>1, <4>2, <4>3 DEF OneMore
    <3>5. current /\ unit = OpenItem /\ unit # NoUnit
      <4>1. NoUnit \notin Items
        BY DEF NoUnit, Items, NoName
      <4> QED BY <1>2, <2>2, <3>2, <3>3, <3>4, <4>1
    <3>6. unitDepth + Delta(l) = 0
      BY <1>2, <3>1, <3>5
    <3>7. UnitEnds(l)
      BY <1>4, <3>1, <3>5, <3>6 DEF UnitGoesOn, NoUnitLine
    <3> QED BY <2>2, <3>5, <3>7 DEF WithLine
  <2> QED BY <2>1, <2>2
<1>6. /\ Len(contracts) \in 1..Len(contracts)
      /\ \E i \in 1..Len(contracts'[k].items) : contracts'[k].items[i] = x
      /\ Len(contracts') = Len(contracts)
  <2>1. ~(~current /\ l.kind \in ContractLines)
    BY <1>5 DEF UnitEnds
  <2> QED BY <1>0, <1>2, <1>5, <2>1, ContractsGrow
<1> QED BY <1>2, <1>6 DEF IsParsed

\* The parser has the functions that are complete after a line,
LEMMA FunctionsKept ==
  ASSUME Grammar, ItemInv, CountInv, OrderInv, LinesInv, SyncInv, KeptInv, NEW l, Reads(l), Parse(l),
         NEW x, NEW k, k \in 1..Len(source'), file'[source'[k].line].kind # "bareContract",
         IsDoneIn(x, k)', NoAttributes(file', x), ~Before(x.lines[1], Off)'
  PROVE  IsParsed(x, k)'
<1>0. OneMore(file', file) /\ Typed /\ Len(file) \in Nat
  BY FileIs DEF Grammar, OneMore
<1>1. k \in 1..Len(source) => source'[k].line = source[k].line /\ file'[source[k].line] = file[source[k].line]
  <2> SUFFICES ASSUME k \in 1..Len(source)
               PROVE  source'[k].line = source[k].line /\ file'[source[k].line] = file[source[k].line]
    OBVIOUS
  <2>1. source'[k].line = source[k].line
    BY SourceStep
  <2>2. source[k].line \in 1..Len(file)
    BY DEF OrderInv
  <2> QED BY <1>0, <2>1, <2>2 DEF OneMore
<1>2. CASE IsDoneIn(x, k)
  <2>1. k \in 1..Len(source) /\ IsDone(x)
    BY <1>2 DEF IsDoneIn, IsDone
  <2>2. file[source[k].line].kind # "bareContract"
    BY <1>1, <2>1
  <2>3. NoAttributes(file, x)
    BY <1>0, <2>1 DEF NoAttributes, LinesInv, InOrder, OneMore
  <2>4. ~Before(x.lines[1], Off)
    <3>1. PICK a : a = x.lines[1]
      OBVIOUS
    <3>2. a \in 1..Len(file)
      BY <2>1, <3>1 DEF ItemInv, WholeRun, ItemRun
    <3>3. a \in 1..(Len(file) + 1)
      BY <1>0, <3>2
    <3>4. ~Before(a, Off)'
      BY <3>1 DEF Before
    <3> QED BY <3>1, <3>3, <3>4, BeforeIs
  <2>5. IsParsed(x, k)
    BY <1>2, <2>1, <2>2, <2>3, <2>4 DEF KeptInv, KeepsFunctions
  <2> QED BY <1>0, <2>5, ParsedStays
<1>3. CASE ~IsDoneIn(x, k)
  <2>1. /\ k = Len(source)
        /\ \/ IsOne(l) /\ x = Item("function", l)
           \/ InFunction /\ Ends(l) /\ x = Longer(OpenItem)
    BY <1>3, DoneInStep
  <2>2. scopes # <<>>
    BY <2>1, TopIs DEF IsOne, Ends, InContract, InUnit, Second, Grammar, NoName
  <2>3. k \in 1..Len(source)
    BY <1>0, <2>1, <2>2, LastIs DEF Grammar
  <2>4. file[source[k].line].kind # "bareContract"
    BY <1>1, <2>3
  <2> QED BY <2>1, <2>4, EndKept
<1> QED BY <1>2, <1>3

\* A variable is kept.
LEMMA VariableKept ==
  ASSUME Grammar, DepthInv, CountInv, OrderInv, TextInv, SyncInv, NEW l, Reads(l), Parse(l),
         scopes # <<>>, l.kind \in Variables, NEW k, k = Len(source),
         file[source[k].line].kind # "bareContract", ~Before(source[k].line, Off), ~Has({"declaration"})
  PROVE  k \in 1..Len(contracts) /\ l.kind \in contracts'[k].vars
<1>0. /\ Typed /\ Shape /\ Level \in Nat /\ Len(file) \in Nat /\ l.kind \in Kinds /\ Moves(l)
      /\ k \in 1..Len(source)
  BY FileIs, LevelIs, GrammarStep, LastIs DEF Grammar
<1>1. Regular
  <2>1. PICK n : n = source[k].line
    OBVIOUS
  <2>2. /\ n \in 1..Len(file) /\ Depth(file, n - 1) = 0
        /\ \A m \in (n + 1)..Len(file) : file[m].kind \notin ContractLines
        /\ Depth(file, n) >= 1
    <3>1. ContractRun(file, source[k], Len(file)) /\ StaysOpen(file, n, Len(file))
      BY <2>1 DEF TextInv
    <3>2. n \in 1..Len(file) /\ file[n].kind # "bareContract"
      BY <2>1, <3>1 DEF ContractRun
    <3> QED BY <1>0, <2>1, <3>1, <3>2 DEF ContractRun, StaysOpen, InHead
  <2>3. file[n].kind # "emptyContract"
    <3>1. Depth(file, n) = Depth(file, n - 1) + Opens(file[n]) - Closes(file[n])
      BY <1>0, <2>2, DepthMoves
    <3> QED BY <2>2, <3>1, BracesOf
  <2>4. \A m \in 1..Len(file) : file[m].kind \notin Off
    <3> SUFFICES ASSUME NEW m \in 1..Len(file) PROVE file[m].kind \notin Off
      OBVIOUS
    <3>1. m \in 1..(n - 1) \/ m = n \/ m \in (n + 1)..Len(file)
      BY <1>0, <2>2
    <3>2. file[m].kind # "declaration"
      BY DEF Has
    <3>3. m \in 1..(n - 1) => file[m].kind \notin Off
      BY <2>1 DEF Before
    <3>4. "emptyContract" \in ContractLines
      BY DEF ContractLines
    <3> QED BY <2>2, <2>3, <3>1, <3>2, <3>3, <3>4 DEF Off
  <2> QED BY <2>4 DEF Regular, Has, Off
<1>2. Len(contracts) = k /\ current /\ (~InUnit => unit = NoUnit)
  BY <1>1 DEF SyncInv
<1>3. VariableLine(l)
  <2>1. l.kind \notin Statements \cup ContractLines \cup Bodies
    BY DEF Variables, Statements, ContractLines, Bodies, FunctionLines
  <2> QED BY <1>0, <2>1 DEF Moves, CommentLine, ImportLine, ContractLine, HeaderLine, HeaderBrace, Attributes,
               FunctionBrace, MarkLine, ConstructorBrace, ItemLine, OneLineItem, ConstructorLine, MemberLine,
               ContractEnd, BodyLine, BlockBegins, BlockEnds, BodyEnds, Variables
<1>4. ~InUnit /\ Level = 1
  <2>1. InContract
    BY <1>3 DEF VariableLine
  <2> QED BY <1>0, <2>1, LevelIs DEF InContract, InUnit, Second, NoName
<1>5. contractDepth = 1
  <2>1. PICK n : n = contracts[Len(contracts)].line
    OBVIOUS
  <2>2. n \in 1..Len(file) /\ contractDepth = Level + (IF file[n].kind = "emptyContract" THEN 1 ELSE 0)
    BY <1>2, <2>1 DEF CountInv
  <2>3. file[n].kind # "emptyContract"
    BY <1>1, <2>2 DEF Regular, Has
  <2> QED BY <1>4, <2>2, <2>3
<1>6. contracts' = [contracts EXCEPT ![Len(contracts)].vars = @ \cup {l.kind}]
  <2>1. UnitEnds(l) \/ UnitGoesOn(l) \/ NoUnitLine(l)
    BY <1>0, ParseMoves
  <2>2. unit = NoUnit /\ l.kind \notin {"oneLiner", "function", "declaration", "signature", "modifier", "comment"}
    BY <1>2, <1>4 DEF Variables
  <2> QED BY <1>2, <1>5, <2>1, <2>2 DEF UnitEnds, UnitGoesOn, NoUnitLine
<1>7. contracts \in Seq(Contracts) /\ contracts # <<>> /\ {l.kind} \in SUBSET Kinds
  BY <1>0, <1>2 DEF CountInv
<1>8. k \in 1..Len(contracts)
  BY <1>0, <1>2
<1>9. contracts'[k].vars = contracts[k].vars \cup (IF k = Len(contracts) THEN {l.kind} ELSE {})
  BY <1>6, <1>7, <1>8, VarsAdded
<1> QED BY <1>2, <1>8, <1>9

\* and the variables.
LEMMA VariablesKept ==
  ASSUME Grammar, DepthInv, CountInv, OrderInv, TextInv, SyncInv, KeptInv, NEW l, Reads(l), Parse(l),
         NEW k, k \in 1..Len(source'), file'[source'[k].line].kind # "bareContract",
         \A m \in 1..(source'[k].line - 1) : file'[m].kind \notin Off, VariablesClear'
  PROVE  k \in 1..Len(contracts') /\ source'[k].vars \subseteq contracts'[k].vars
<1>0. /\ OneMore(file', file) /\ Typed /\ Len(file) \in Nat /\ file'[Len(file) + 1] = l
      /\ Len(source) \in Nat /\ Len(contracts) \in Nat
      /\ Len(contracts') = Len(contracts) + (IF ~current /\ l.kind \in ContractLines THEN 1 ELSE 0)
      /\ \A j \in 1..Len(contracts) : contracts[j].vars \subseteq contracts'[j].vars
  <2>1. Typed
    BY DEF Grammar
  <2>2. Len(source) \in Nat
    BY <2>1, LenProperties DEF Typed
  <2> QED BY <2>1, <2>2, FileIs, ContractsGrow DEF OneMore
<1>1. PICK n : n = source'[k].line
  OBVIOUS
<1>2. ~Before(n, Off)'
  BY <1>1 DEF Before
<1>3. CASE k \in 1..Len(source)
  <2>1. source[k].line = n
    BY <1>1, <1>3, SourceStep
  <2>2. n \in 1..Len(file)
    BY <1>3, <2>1 DEF OrderInv
  <2>3. ~Before(n, Off)
    <3>1. n \in 1..(Len(file) + 1)
      BY <1>0, <2>2
    <3> QED BY <1>2, <3>1, BeforeIs
  <2>4. file[n].kind # "bareContract"
    BY <1>0, <1>1, <2>2 DEF OneMore
  <2>5. VariablesClear
    <3> SUFFICES ASSUME NEW v \in 1..Len(file), file[v].kind \in Variables PROVE ~Before(v, {"declaration"})
      BY DEF VariablesClear
    <3>1. v \in 1..Len(file') /\ file'[v].kind \in Variables /\ v \in 1..(Len(file) + 1)
      BY <1>0 DEF OneMore
    <3>2. ~Before(v, {"declaration"})'
      <4>1. \A w \in 1..Len(file') : file'[w].kind \in Variables => ~(\E m \in 1..(w - 1) : file'[m].kind \in {"declaration"})
        BY DEF VariablesClear, Before
      <4> QED BY <3>1, <4>1 DEF Before
    <3> QED BY <3>1, <3>2, BeforeIs
  <2>6. k \in 1..Len(contracts) /\ source[k].vars \subseteq contracts[k].vars
    BY <1>3, <2>1, <2>3, <2>4, <2>5 DEF KeptInv, KeepsVariables
  <2>7. k \in 1..Len(contracts')
    BY <1>0, <2>6
  <2>8. CASE source'[k].vars \subseteq source[k].vars
    BY <1>0, <2>6, <2>7, <2>8
  <2>9. CASE ~(source'[k].vars \subseteq source[k].vars)
    <3>1. /\ scopes # <<>> /\ k = Len(source) /\ l.kind \in Variables
          /\ source'[k].vars = source[k].vars \cup {l.kind}
      BY <1>3, <2>9, SourceStep
    <3>2. ~Has({"declaration"})
      <4>1. Len(file) + 1 \in 1..Len(file')
        BY <1>0 DEF OneMore
      <4>2. \A w \in 1..Len(file') : file'[w].kind \in Variables => ~(\E m \in 1..(w - 1) : file'[m].kind \in {"declaration"})
        BY DEF VariablesClear, Before
      <4>3. ~(\E m \in 1..Len(file) : file'[m].kind \in {"declaration"})
        BY <1>0, <3>1, <4>1, <4>2
      <4> QED BY <1>0, <4>3 DEF Has, OneMore
    <3>3. l.kind \in contracts'[k].vars
      BY <2>1, <2>3, <2>4, <3>1, <3>2, VariableKept
    <3> QED BY <1>0, <2>6, <2>7, <3>1, <3>3
  <2> QED BY <2>8, <2>9
<1>4. CASE k \notin 1..Len(source)
  <2>1. scopes = <<>> /\ l.kind \in ContractLines /\ k = Len(source) + 1
    BY <1>0, <1>4, SourceStep
  <2>2. source'[k].vars = {} /\ n = Len(file) + 1
    BY <1>0, <1>1, <2>1, SourceStep, FileIs
  <2>3. Regular
    <3>1. n \in 1..(Len(file) + 1)
      BY <1>0, <2>2
    <3>2. ~Before(n, Off)
      BY <1>2, <3>1, BeforeIs
    <3> QED BY <2>2, <3>2, BeforeHere DEF Regular, Off
  <2>4. Len(contracts) = Len(source) /\ ~current
    BY <2>1, <2>3 DEF SyncInv
  <2> QED BY <1>0, <2>1, <2>2, <2>4
<1> QED BY <1>3, <1>4

\* Every line preserves this.
LEMMA KeptStep ==
  ASSUME Grammar, DepthInv, ItemInv, CountInv, OrderInv, TextInv, LinesInv, SyncInv, KeptInv, NEW l, Reads(l), Parse(l)
  PROVE  KeptInv'
<1> SUFFICES ASSUME NEW k, k \in 1..Len(source'), file'[source'[k].line].kind # "bareContract"
             PROVE  KeepsFunctions(k)' /\ KeepsVariables(k)'
  BY DEF KeptInv
<1>1. KeepsFunctions(k)'
  BY FunctionsKept DEF KeepsFunctions
<1>2. KeepsVariables(k)'
  BY VariablesKept DEF KeepsVariables, Before
<1> QED BY <1>1, <1>2

-----------------------------------------------------------------------------
(* ReentrancyForAReason: with the graph *)

\* What the graph's scan reports
GraphReports(f, c) ==
  /\ f \in NodeFunctions(c) /\ ~Internal(f.lines[1]) /\ f.name \notin Underscored
  /\ ~NodeHasGuard(f) /\ Violations(Ops(f, c)) # {}

\* The scan with the graph, function by function
LEMMA GraphFinds ==
  ASSUME NEW r
  PROVE  r \in GraphReentrancy <=>
           \E k \in 1..Len(contracts) : \E f : /\ GraphReports(f, contracts[k])
             /\ r = [rule |-> "reentrancy", name |-> f.name,
                     line |-> f.lines[1] + FirstCall(Ops(f, contracts[k])), of |-> f.lines]
<1> DEFINE R(f, c)    == [rule |-> "reentrancy", name |-> f.name,
                          line |-> f.lines[1] + FirstCall(Ops(f, c)), of |-> f.lines]
           Passed(c)  == {g \in NodeFunctions(c) : /\ ~Internal(g.lines[1]) /\ g.name \notin Underscored
                                                   /\ ~NodeHasGuard(g) /\ Violations(Ops(g, c)) # {}}
           S(c)       == {R(f, c) : f \in Passed(c)}
<1>1. GraphReentrancy = UNION {S(contracts[k]) : k \in 1..Len(contracts)}
  BY DEF GraphReentrancy
<1>2. \A c, f : f \in Passed(c) <=> GraphReports(f, c)
  BY DEF GraphReports
<1>3. \A c : r \in S(c) <=> \E f : f \in Passed(c) /\ r = R(f, c)
  OBVIOUS
<1> HIDE DEF Passed, S
<1>4. r \in GraphReentrancy <=> \E k \in 1..Len(contracts) : r \in S(contracts[k])
  BY <1>1
<1> QED BY <1>2, <1>3, <1>4

\* The lines of a head that says all on its first line
LEMMA HeadSays ==
  ASSUME Typed, NEW x, NEW a, NEW b, NEW e, LaidOut(x, a, b, e), \A m \in a..e : file[m].kind # "attributes"
  PROVE  /\ file[a].visibility # "internal" => ~Internal(a)
         /\ MarksOf(a) \subseteq file[a].marks
<1>1. /\ a \in Nat /\ b \in Nat /\ e \in Nat /\ 1 <= a /\ a <= b /\ b <= e /\ e <= Len(file)
      /\ Opens(file[b]) = 1 /\ \A m \in (a + 1)..b : file[m].kind \in {"attributes", "comment", "brace"}
  BY DEF LaidOut, BodyOpens
<1>2. Len(file) \in Nat /\ style \in Styles /\ \A m \in 1..Len(file) : file[m] \in LineChoices(style)
  BY LenProperties, ElementOfSeq DEF Typed
<1>3. SignatureLines(a) \subseteq a..b
  <2> SUFFICES ASSUME NEW i \in SignatureLines(a) PROVE i \in a..b
    OBVIOUS
  <2>1. i \in a..Len(file) /\ \A j \in a..(i - 1) : Opens(file[j]) = 0
    BY DEF SignatureLines
  <2>2. ~(b <= i - 1)
    BY <1>1, <1>2, <2>1
  <2> QED BY <1>1, <1>2, <2>1, <2>2
<1>4. \A m \in (a + 1)..b : file[m].visibility = "none" /\ file[m].marks = {}
  <2> TAKE m \in (a + 1)..b
  <2>1. m \in a..e /\ m \in 1..Len(file)
    BY <1>1, <1>2
  <2>2. file[m].kind \in {"comment", "brace"} /\ file[m] \in LineChoices(style)
    BY <1>1, <1>2, <2>1
  <2> QED BY <1>2, <2>2, LineSays
<1>5. \A i \in SignatureLines(a) : i = a \/ i \in (a + 1)..b
  BY <1>1, <1>3
<1>6. file[a].visibility # "internal" => ~Internal(a)
  BY <1>4, <1>5 DEF Internal
<1>7. MarksOf(a) \subseteq file[a].marks
  BY <1>4, <1>5 DEF MarksOf
<1> QED BY <1>6, <1>7

\* Without a check of the lock there is no guard.
LEMMA NoCheckNoGuard ==
  ASSUME NEW ls, \A i \in 1..Len(ls) : ls[i].kind # "check"
  PROVE  ~HasReentrancyGuard(ls, file)
<1>1. \A l : MatchGuard(l) = "reentrancy" => l.kind = "check"
  BY DEF MatchGuard, NoName
<1>2. EarlyGuards(ls, "reentrancy") = {}
  BY <1>1 DEF EarlyGuards
<1>3. ~HasMutex(ls, file)
  BY DEF HasMutex
<1> QED BY <1>2, <1>3 DEF HasReentrancyGuard

\* A write of a variable the parser knows is one for it.
LEMMA ViolationSeen ==
  ASSUME NEW f, Len(f.lines) \in Nat, NEW c, c.vars \subseteq Variables, CallThenWrite(f, c.vars)
  PROVE  Violations(Ops(f, c)) # {}
<1>1. PICK i, j \in 1..Len(f.lines) : /\ i < j /\ file[f.lines[i]].kind \in Calls
                                      /\ KnownBy(file[f.lines[j]]) \in c.vars
  BY DEF CallThenWrite
<1>2. PICK ops : ops = Ops(f, c)
  OBVIOUS
<1>3. ops[i] = "EXTERNAL_CALL"
  <2>1. ~Writes(file[f.lines[i]], c.vars)
    BY <1>1 DEF Writes, KnownBy, Variables, Calls, NoName
  <2> QED BY <1>1, <1>2, <2>1 DEF Ops, ExternalCall
<1>4. file[f.lines[j]].kind \notin Calls
  BY <1>1 DEF KnownBy, Variables, Calls, NoName
<1>5. ops[j] = "WRITE"
  BY <1>1, <1>2, <1>4 DEF Ops, ExternalCall, Writes
<1>6. i \in 1..Len(ops) /\ j \in 1..Len(ops)
  <2> SUFFICES Len(ops) = Len(f.lines)
    BY <1>1
  <2>1. PICK n : n = Len(f.lines)
    OBVIOUS
  <2> QED BY <1>2, <2>1 DEF Ops
<1>7. <<i, j>> \in Violations(ops)
  BY <1>1, <1>3, <1>5, <1>6 DEF Violations
<1> QED BY <1>2, <1>7

\* An unguarded function that writes after a call is reported by the graph's scan.
LEMMA GraphMissesNone ==
  ASSUME Grammar, DepthInv, PlaceInv, ItemInv, LinesInv, HeadInv, UnitInv, KeptInv, scopes = <<>>,
         NEW k \in 1..Len(source), NEW f, IsDoneIn(f, k), file[f.lines[1]].visibility # "internal",
         CallThenWrite(f, source[k].vars),
         "check" \notin LineKinds(f), "nonReentrant" \notin AllMarks(f), f.name \notin Underscored,
         \A m \in (f.lines[1] + 1)..Len(file) : ~(file[m].kind \in FunctionLines /\ file[m].name = f.name),
         "attributes" \notin LineKinds(f), ~Before(f.lines[1], Off), VariablesClear,
         file[source[k].line].kind # "bareContract"
  PROVE  contracts # <<>> /\ \E r \in GraphReentrancy : r.name = f.name /\ r.of = f.lines
<1>1. Typed /\ IsDone(f) /\ Len(file) \in Nat
  BY LenProperties DEF Grammar, Typed, IsDone, IsDoneIn
<1>2. PICK a, b, e : LaidOut(f, a, b, e)
  BY <1>1, Layout
<1>3. f.lines[1] = a /\ a \in Nat /\ a \in 1..Len(file)
  BY <1>1, <1>2 DEF LaidOut
<1>4. /\ \A m \in a..e : file[m].kind # "attributes"
      /\ AllMarks(f) = file[a].marks
  <2>1. \A kk : kk # "comment" => (kk \in LineKinds(f) <=> \E m \in a..e : file[m].kind = kk)
    BY <1>1, <1>2, LinesSay
  <2>2. \A m \in a..e : file[m].kind # "attributes"
    BY <2>1
  <2> QED BY <1>1, <1>2, <2>2, LinesSay
<1>5. \A i \in 1..Len(f.lines) : file[f.lines[i]].kind \in LineKinds(f) /\ f.lines[i] \in 1..Len(file)
  BY <1>1 DEF LineKinds, LinesInv, InOrder
<1>6. NoAttributes(file, f)
  BY <1>5 DEF NoAttributes
<1>7. IsParsed(f, k) /\ k \in 1..Len(contracts)
  <2>1. IsParsed(f, k)
    BY <1>6 DEF KeptInv, KeepsFunctions
  <2> QED BY <2>1 DEF IsParsed
<1>8. source[k].vars \subseteq contracts[k].vars /\ contracts[k].vars \subseteq Variables
  <2>1. ~Before(source[k].line, Off)
    <3>1. source[k].line < a
      BY <1>3 DEF HeadInv
    <3>2. PICK n : n = source[k].line
      OBVIOUS
    <3>3. n \in Nat
      <4>1. source[k] \in Contracts
        BY <1>1, ElementOfSeq DEF Typed
      <4> QED BY <3>2, <4>1 DEF Contracts
    <3>4. \A m \in 1..(n - 1) : m \in 1..(a - 1)
      BY <1>3, <3>1, <3>2, <3>3
    <3> QED BY <1>3, <3>2, <3>4 DEF Before
  <2>2. source[k].vars \subseteq contracts[k].vars
    BY <2>1 DEF KeptInv, KeepsVariables
  <2> QED BY <1>7, <2>2 DEF UnitInv
<1>9. PICK c : c = contracts[k]
  OBVIOUS
<1>10. f \in NodeFunctions(c)
  <2>1. PICK n \in 1..Len(c.items) : f = c.items[n]
    BY <1>7, <1>9 DEF IsParsed
  <2>2. f.kind = "function"
    BY DEF IsDoneIn
  <2>3. ASSUME NEW i \in 1..Len(c.items), c.items[i].kind = "function", c.items[i].name = f.name
        PROVE  c.items[i].lines[1] <= f.lines[1]
    <3>1. PICK g : g = c.items[i]
      OBVIOUS
    <3>2. IsParsed(g, k) /\ g.kind = "function"
      BY <1>7, <1>9, <2>3, <3>1 DEF IsParsed
    <3>3. HeadOf(file, g)
      BY <3>2 DEF UnitInv, ParsedAs
    <3>4. PICK h : h = g.lines[1]
      OBVIOUS
    <3>5. h \in 1..Len(file) /\ file[h].kind \in FunctionLines /\ file[h].name = f.name
      BY <2>3, <3>1, <3>3, <3>4 DEF HeadOf
    <3>6. h \notin (a + 1)..Len(file)
      BY <1>3, <3>5
    <3>7. h <= a
      BY <1>1, <1>3, <3>5, <3>6
    <3> QED BY <1>3, <3>1, <3>4, <3>7
  <2> QED BY <2>1, <2>2, <2>3 DEF NodeFunctions
<1>11. ~Internal(f.lines[1])
  BY <1>1, <1>2, <1>3, <1>4, HeadSays
<1>12. ~NodeHasGuard(f)
  <2>1. MarksOf(a) \subseteq file[a].marks
    BY <1>1, <1>2, <1>4, HeadSays
  <2>2. ~HasReentrancyGuard(LinesOf(f.lines), file)
    <3>1. PICK ls, n : ls = LinesOf(f.lines) /\ n = Len(f.lines)
      OBVIOUS
    <3>2. Len(ls) = n /\ \A i \in 1..n : ls[i] = file[f.lines[i]]
      <4>1. n \in Nat
        BY <1>1, <3>1, LenProperties DEF LinesInv, Items
      <4> QED BY <3>1, <4>1 DEF LinesOf
    <3>3. \A i \in 1..Len(ls) : ls[i].kind # "check"
      BY <1>5, <3>1, <3>2
    <3> QED BY <3>1, <3>3, NoCheckNoGuard
  <2> QED BY <1>3, <1>4, <2>1, <2>2 DEF NodeHasGuard
<1>13. Violations(Ops(f, c)) # {}
  <2>1. CallThenWrite(f, c.vars)
    BY <1>8, <1>9 DEF CallThenWrite
  <2>2. Len(f.lines) \in Nat
    BY <1>1, LenProperties DEF LinesInv, Items
  <2> QED BY <1>8, <1>9, <2>1, <2>2, ViolationSeen
<1>14. GraphReports(f, contracts[k])
  BY <1>9, <1>10, <1>11, <1>12, <1>13 DEF GraphReports
<1>15. contracts # <<>>
  BY <1>7
<1>16. PICK r : r = [rule |-> "reentrancy", name |-> f.name,
                     line |-> f.lines[1] + FirstCall(Ops(f, contracts[k])), of |-> f.lines]
  OBVIOUS
<1>17. r \in GraphReentrancy
  BY <1>7, <1>14, <1>16, GraphFinds
<1>18. r.name = f.name /\ r.of = f.lines
  BY <1>16
<1> QED BY <1>15, <1>17, <1>18

\* A function is known by its first line.
LEMMA ChosenIs ==
  ASSUME UniqueInv, scopes = <<>>, NEW x, IsDone(x), NEW a, x.lines[1] = a
  PROVE  (CHOOSE g \in Functions(source) : g.lines[1] = a) = x
<1>1. x \in Functions(source)
  BY DoneFunctions
<1>2. \A g \in Functions(source) : g.lines[1] = a => g = x
  BY DoneFunctions DEF UniqueInv
<1> QED BY <1>1, <1>2

\* No write or call of a function's own lines is where the function began.
LEMMA NeverPast ==
  ASSUME Grammar, DepthInv, PlaceInv, ItemInv, LinesInv, NEW x, IsDone(x), NEW i \in 1..Len(x.lines)
  PROVE  ~PastGuards(LinesOf(x.lines), i)
<1>1. PICK a, b, e : LaidOut(x, a, b, e)
  BY Layout
<1>2. /\ a \in Nat /\ b \in Nat /\ e \in Nat /\ 1 <= a /\ a <= b /\ b <= e /\ e <= Len(file)
      /\ file[a].kind \in {"function", "oneLiner", "signature"}
      /\ \A m \in (a + 1)..b : file[m].kind \in {"attributes", "comment", "brace"}
      /\ \A m \in a..(e - 1) : Depth(file, m) \in Nat /\ (m >= b => Depth(file, m) >= 2)
      /\ e = b \/ file[e].kind = "close"
      /\ \A m \in Members(x.lines) : m \in a..e
  <2>1. /\ x.lines[1] = a /\ ItemRun(file, x, e) /\ BodyOpens(file, a, b)
        /\ a \in Nat /\ b \in Nat /\ e \in Nat /\ 1 <= a /\ a <= b /\ b <= e /\ e <= Len(file)
        /\ \A m \in a..(e - 1) : Depth(file, m) \in Nat /\ (m >= b => Depth(file, m) >= 2)
        /\ e = b \/ file[e].kind = "close"
    BY <1>1 DEF LaidOut
  <2> QED BY <2>1 DEF BodyOpens, ItemRun
<1>3. PICK ns, n : ns = x.lines /\ n = Len(x.lines)
  OBVIOUS
<1>4. n \in Nat
  BY <1>3, LenProperties DEF LinesInv, Items
<1>5. \A j \in 1..n : /\ ns[j] \in a..e /\ LinesOf(ns)[j] = file[ns[j]]
                      /\ Depth(LinesOf(ns), j) = Depth(file, ns[j]) - 1
  <2>1. \A j \in 1..n : ns[j] \in a..e
    BY <1>2, <1>3 DEF Members
  <2>2. \A j \in 1..n : LinesOf(ns)[j] = file[ns[j]]
    BY <1>3 DEF LinesOf
  <2>3. \A j \in 1..n : Depth(LinesAt(file, ns), j) = Depth(file, ns[j]) - 1
    BY <1>3 DEF LinesInv, InOrder
  <2>4. LinesAt(file, ns) = LinesOf(ns)
    BY DEF LinesAt, LinesOf
  <2> QED BY <2>1, <2>2, <2>3, <2>4
<1>6. SUFFICES ASSUME NEW j \in 1..n, Depth(LinesOf(ns), j) = 0, IsStateWriteOrCall(file[ns[j]]) PROVE FALSE
  <2>1. \A j \in 1..i : j \in 1..n
    BY <1>3, <1>4
  <2> QED BY <1>3, <1>5, <2>1 DEF PastGuards
<1>7. PICK m : m = ns[j]
  OBVIOUS
<1>8. m \in a..e /\ 0 = Depth(file, m) - 1 /\ IsStateWriteOrCall(file[m])
  BY <1>5, <1>6, <1>7
<1>9. file[m].kind \notin {"function", "oneLiner", "signature", "attributes", "comment", "brace", "close"}
  BY <1>8 DEF IsStateWriteOrCall, Calls
<1>10. m # a /\ m \notin (a + 1)..b /\ ~(m = e /\ file[e].kind = "close")
  BY <1>2, <1>9
<1>11. m \in a..(e - 1) /\ m >= b
  BY <1>2, <1>8, <1>10
<1> QED BY <1>2, <1>8, <1>11

\* What the graph's scan reports
LEMMA GraphReason ==
  ASSUME Grammar, CountInv, DepthInv, PlaceInv, ItemInv, LinesInv, UnitInv, scopes = <<>>, NEW r \in GraphReentrancy
  PROVE  \/ file[r.of[1]].kind = "declaration"
         \/ \E f : /\ IsDone(f) /\ r.of = f.lines /\ "nonReentrant" \notin AllMarks(f)
                   /\ CallThenWrite(f, {"variable", "lockVariable"})
                   /\ \A i \in 1..Len(f.lines) : file[f.lines[i]].kind = "check" => i > GuardScanDepth
<1>0. Typed /\ Len(file) \in Nat
  BY LenProperties DEF Grammar, Typed
<1>a. PICK k \in 1..Len(contracts) : \E f : GraphReports(f, contracts[k]) /\ r.of = f.lines
  <2>1. PICK k \in 1..Len(contracts) : \E f :
             /\ GraphReports(f, contracts[k])
             /\ r = [rule |-> "reentrancy", name |-> f.name,
                     line |-> f.lines[1] + FirstCall(Ops(f, contracts[k])), of |-> f.lines]
    BY GraphFinds
  <2> QED BY <2>1
<1>1. PICK f : GraphReports(f, contracts[k]) /\ r.of = f.lines
  BY <1>a
<1>2. PICK c : c = contracts[k]
  OBVIOUS
<1>b. Len(f.lines) \in Nat
  <2>1. c \in Contracts
    BY <1>2, ElementOfSeq DEF CountInv
  <2>2. PICK n \in 1..Len(c.items) : f = c.items[n]
    BY <1>1, <1>2 DEF GraphReports, NodeFunctions
  <2>3. f \in Items
    BY <2>1, <2>2, ElementOfSeq DEF Contracts
  <2> QED BY <2>3, LenProperties DEF Items
<1>3. c.vars \subseteq Variables /\ ParsedAs(f)
  <2>1. IsParsed(f, k) /\ f.kind = "function"
    BY <1>1 DEF GraphReports, NodeFunctions, IsParsed
  <2> QED BY <1>1, <1>2, <2>1 DEF UnitInv
<1>4. PICK i, j \in 1..Len(f.lines) : /\ i < j /\ file[f.lines[i]].kind \in Calls
                                      /\ KnownBy(file[f.lines[j]]) \in c.vars
  <2>1. PICK ops : ops = Ops(f, c)
    OBVIOUS
  <2>2. \E v \in (1..Len(ops)) \X (1..Len(ops)) : v[1] < v[2] /\ ops[v[1]] = "EXTERNAL_CALL" /\ ops[v[2]] = "WRITE"
    BY <1>1, <1>2, <2>1 DEF GraphReports, Violations
  <2>3. PICK i, j \in 1..Len(ops) : i < j /\ ops[i] = "EXTERNAL_CALL" /\ ops[j] = "WRITE"
    BY <2>2
  <2>4. Len(ops) = Len(f.lines)
    BY <1>b, <2>1 DEF Ops
  <2>7. i \in 1..Len(f.lines) /\ j \in 1..Len(f.lines)
    BY <2>3, <2>4
  <2>8. ExternalCall(file[f.lines[i]])
    BY <2>1, <2>3, <2>7 DEF Ops, NoName
  <2>9. Writes(file[f.lines[j]], c.vars)
    BY <2>1, <2>3, <2>7 DEF Ops, NoName
  <2> QED BY <2>3, <2>7, <2>8, <2>9 DEF ExternalCall, Writes
<1>5. CASE TwoLines(file, f)
  <2>1. i = 1 /\ file[f.lines[1]].kind = "signature"
    BY <1>4, <1>5 DEF TwoLines
  <2> QED BY <1>4, <2>1 DEF Calls
<1>6. CASE IsDone(f) /\ NoAttributes(file, f)
  <2>1. PICK a, b, e : LaidOut(f, a, b, e)
    BY <1>6, Layout
  <2>2. f.lines[1] = a /\ a \in Nat /\ a \in 1..Len(file)
    BY <1>0, <2>1 DEF LaidOut
  <2>3. AllMarks(f) = file[a].marks
    <3>1. \A kk : kk # "comment" => (kk \in LineKinds(f) <=> \E m \in a..e : file[m].kind = kk)
      BY <1>0, <2>1, LinesSay
    <3>2. "attributes" \notin LineKinds(f)
      BY <1>6 DEF LineKinds, NoAttributes
    <3>3. \A m \in a..e : file[m].kind # "attributes"
      BY <3>1, <3>2
    <3> QED BY <1>0, <2>1, <3>3, LinesSay
  <2>4. "nonReentrant" \notin AllMarks(f)
    <3>1. a \in SignatureLines(a)
      BY <1>0, <2>2 DEF SignatureLines
    <3>2. "nonReentrant" \notin MarksOf(a)
      BY <1>1, <2>2 DEF GraphReports, NodeHasGuard
    <3> QED BY <2>3, <3>1, <3>2 DEF MarksOf
  <2>5. CallThenWrite(f, {"variable", "lockVariable"})
    BY <1>3, <1>4 DEF CallThenWrite, Variables
  <2>6. ASSUME NEW n \in 1..Len(f.lines), file[f.lines[n]].kind = "check" PROVE n > GuardScanDepth
    <3>1. ~PastGuards(LinesOf(f.lines), n)
      BY <1>6, NeverPast
    <3>2. PICK ls : ls = LinesOf(f.lines)
      OBVIOUS
    <3>3. EarlyGuards(ls, "reentrancy") = {}
      BY <1>1, <3>2 DEF GraphReports, NodeHasGuard, HasReentrancyGuard
    <3>4. n \in 1..Len(ls) /\ ls[n].kind = "check"
      <4>1. Len(f.lines) \in Nat
        BY <1>6, LenProperties DEF LinesInv, Items
      <4> QED BY <2>6, <3>2, <4>1 DEF LinesOf
    <3>5. MatchGuard(ls[n]) = "reentrancy"
      BY <3>4 DEF MatchGuard
    <3>6. ~(n <= GuardScanDepth)
      BY <3>1, <3>2, <3>3, <3>4, <3>5 DEF EarlyGuards
    <3> QED BY <3>6, ScanDepthAssumption
  <2> QED BY <1>1, <1>6, <2>4, <2>5, <2>6
<1> QED BY <1>1, <1>3, <1>5, <1>6 DEF ParsedAs

-----------------------------------------------------------------------------
(* ReentrancyForAReason: without it *)

\* The scan without the graph, block by block
LEMMA LegacyFinds ==
  ASSUME NEW r \in LegacyReentrancy
  PROVE  \E j \in 1..Len(functions) :
           /\ ~HasGuard(functions[j]) /\ WritesAfter(functions[j]) # {}
           /\ r.of = functions[j].lines /\ r.name = functions[j].name
           /\ r.line = functions[j].lines[First(WritesAfter(functions[j]))]
<1>1. PICK b \in {functions[i] : i \in {n \in 1..Len(functions) :
                    ~HasGuard(functions[n]) /\ WritesAfter(functions[n]) # {}}} :
        r = [rule |-> "reentrancy", name |-> b.name,
             line |-> b.lines[CHOOSE j \in WritesAfter(b) : \A k \in WritesAfter(b) : j <= k], of |-> b.lines]
  BY DEF LegacyReentrancy
<1>2. PICK j \in 1..Len(functions) : b = functions[j] /\ ~HasGuard(functions[j]) /\ WritesAfter(functions[j]) # {}
  OBVIOUS
<1>3. r.line = b.lines[First(WritesAfter(b))]
  BY <1>1 DEF First
<1> QED BY <1>1, <1>2, <1>3

\* Without functions that have no body, every block is a function.
LEMMA BlockIsWhole ==
  ASSUME CoverInv, scopes = <<>>, ~Has({"declaration"}), NEW j \in 1..Len(functions)
  PROVE  \E x : IsDone(x) /\ functions[j] = Whole(x)
<1>1. /\ LastLine(functions[j]) \in 1..Len(file)
      /\ FirstLine(functions[j]) \in 1..LastLine(functions[j])
      /\ file[FirstLine(functions[j])].kind = "declaration" \/ functions[j] \in DoneAll
  BY DEF CoverInv, SpanOf
<1>2. FirstLine(functions[j]) \in 1..Len(file)
  BY <1>1
<1>3. functions[j] \in DoneAll
  BY <1>1, <1>2 DEF Has
<1>4. ~InUnit
  BY DoneFunctions
<1>5. PICK k \in 1..Len(source) : functions[j] \in DoneOf(k)
  BY <1>3 DEF DoneAll
<1>6. functions[j] \in Complete(source[k], Len(source[k].items))
  BY <1>4, <1>5 DEF DoneOf
<1>7. PICK i \in 1..Len(source[k].items) : source[k].items[i].kind = "function" /\ functions[j] = Whole(source[k].items[i])
  BY <1>6 DEF Complete
<1>8. IsDone(source[k].items[i])
  BY <1>4, <1>7 DEF IsDone, IsDoneIn
<1> QED BY <1>7, <1>8

\* nonReentrant on any line of a function's head is seen.
LEMMA MarksSeen ==
  ASSUME Typed, HeadInv, NEW x, NEW a, NEW b, NEW e, LaidOut(x, a, b, e),
         NEW c, c.lines = FromTo(a, e), ~HasGuard(c)
  PROVE  "nonReentrant" \notin AllMarks(x)
<1>1. /\ a \in Nat /\ e \in Nat /\ 1 <= a /\ a <= e /\ e <= Len(file) /\ Len(file) \in Nat
      /\ Depth(file, a - 1) = 1
      /\ \A i \in 1..Len(x.lines) : x.lines[i] \in a..e
  <2>1. /\ a \in Nat /\ b \in Nat /\ e \in Nat /\ 1 <= a /\ a <= b /\ b <= e /\ e <= Len(file)
        /\ Depth(file, a - 1) = 1
        /\ ItemRun(file, x, e) /\ x.lines[1] = a
    BY DEF LaidOut
  <2>2. \A i \in 1..Len(x.lines) : x.lines[i] \in a..e
    BY <2>1 DEF ItemRun, Members
  <2>3. Len(file) \in Nat
    BY LenProperties DEF Typed
  <2> QED BY <2>1, <2>2, <2>3
<1>2. SUFFICES ASSUME NEW n \in 1..Len(x.lines), "nonReentrant" \in file[x.lines[n]].marks PROVE FALSE
  BY DEF AllMarks
<1>3. PICK m : m = x.lines[n]
  OBVIOUS
<1>4. m \in a..e /\ "nonReentrant" \in file[m].marks
  BY <1>1, <1>2, <1>3
<1>5. m = a \/ file[m].kind = "attributes"
  <2>1. \A z \in a..e : file[z].kind # "attributes" /\ z # a => file[z].marks = {}
    BY LinesSay
  <2> QED BY <1>4, <2>1
<1>6. PICK i : i = m - a + 1
  OBVIOUS
<1>7. i \in 1..(e - a + 1) /\ m = a + i - 1 /\ m \in 1..Len(file)
  BY <1>1, <1>4, <1>6
<1>8. Len(c.lines) = e - a + 1 /\ c.lines[i] = m
  <2>1. Len(FromTo(a, e)) = e - a + 1 /\ \A z \in 1..(e - a + 1) : FromTo(a, e)[z] = a + z - 1
    BY <1>1, SpanLines
  <2> QED BY <1>7, <2>1
<1>9. i = 1 \/ Depth(LinesOf(c.lines), i) = 0
  <2>1. CASE m = a
    BY <1>1, <1>6, <2>1
  <2>2. CASE file[m].kind = "attributes"
    <3>1. Depth(file, m) = 1
      BY <1>7, <2>2 DEF HeadInv
    <3>2. Depth(LinesOf(FromTo(a, e)), i) = Depth(file, a + i - 1) - Depth(file, a - 1)
      <4>1. i \in 0..(e - a + 1)
        BY <1>7
      <4> QED BY <1>1, <4>1, PartOf
    <3> QED BY <1>1, <1>7, <3>1, <3>2
  <2> QED BY <1>5, <2>1, <2>2
<1>10. i \in 1..Len(c.lines)
  BY <1>7, <1>8
<1> QED BY <1>4, <1>8, <1>9, <1>10 DEF HasGuard

\* The lines of a function that are no comments are its own, in their order.
LEMMA OwnLines ==
  ASSUME LinesInv, NEW x, IsDone(x), NEW a, NEW b, NEW e, LaidOut(x, a, b, e)
  PROVE  /\ Len(x.lines) \in Nat
         /\ \A m \in a..e : file[m].kind # "comment" => \E i \in 1..Len(x.lines) : x.lines[i] = m
         /\ \A i \in 1..Len(x.lines) : x.lines[i] \in a..e
         /\ \A i, j \in 1..Len(x.lines) : x.lines[i] < x.lines[j] => i < j
<1>1. x.lines[1] = a /\ ItemRun(file, x, e) /\ a \in Nat /\ e \in Nat
  BY DEF LaidOut
<1>2. Len(x.lines) \in Nat
  BY LenProperties DEF LinesInv, Items
<1>3. Members(x.lines) = {m \in a..e : file[m].kind # "comment"}
  BY <1>1 DEF ItemRun
<1>4. \A m \in a..e : file[m].kind # "comment" => \E i \in 1..Len(x.lines) : x.lines[i] = m
  BY <1>3 DEF Members
<1>5. \A i \in 1..Len(x.lines) : x.lines[i] \in a..e
  BY <1>3 DEF Members
<1>6. ASSUME NEW i \in 1..Len(x.lines), NEW j \in 1..Len(x.lines), x.lines[i] < x.lines[j] PROVE i < j
  <2>1. x.lines[i] \in Nat /\ x.lines[j] \in Nat
    BY <1>1, <1>5
  <2>2. j < i => x.lines[j] < x.lines[i]
    BY DEF LinesInv, InOrder
  <2>3. i # j
    BY <1>6, <2>1
  <2>4. ~(j < i)
    BY <1>6, <2>1, <2>2
  <2> QED BY <1>2, <2>3, <2>4
<1> QED BY <1>2, <1>4, <1>5, <1>6

\* A write after a call among a block's lines is one among the function's.
LEMMA WriteIsLater ==
  ASSUME LinesInv, NEW x, IsDone(x), NEW a, NEW b, NEW e, LaidOut(x, a, b, e),
         NEW c, c.lines = FromTo(a, e), NEW j \in WritesAfter(c)
  PROVE  Later(x, c.lines[j])
<1>1. a \in Nat /\ e \in Nat /\ 1 <= a /\ a <= e
  BY DEF LaidOut
<1>2. /\ Len(c.lines) = e - a + 1
      /\ \A z \in 1..(e - a + 1) : c.lines[z] = a + z - 1
  <2>1. Len(FromTo(a, e)) = e - a + 1 /\ \A z \in 1..(e - a + 1) : FromTo(a, e)[z] = a + z - 1
    BY <1>1, SpanLines
  <2> QED BY <2>1
<1>3. PICK i \in 1..(j - 1) : Interaction(file[c.lines[i]])
  BY DEF WritesAfter
<1>4. j \in 1..Len(c.lines) /\ KnownBy(file[c.lines[j]]) # NoName
  BY DEF WritesAfter
<1>5. PICK m, n : m = c.lines[i] /\ n = c.lines[j]
  <2>1. PICK m : m = c.lines[i]
    OBVIOUS
  <2>2. PICK n : n = c.lines[j]
    OBVIOUS
  <2> QED BY <2>1, <2>2
<1>6. m \in a..e /\ n \in a..e /\ m < n
  <2>1. j \in 1..(e - a + 1) /\ i \in 1..(e - a + 1) /\ i < j
    BY <1>1, <1>2, <1>3, <1>4
  <2>2. m = a + i - 1 /\ n = a + j - 1
    BY <1>2, <1>5, <2>1
  <2> QED BY <1>1, <2>1, <2>2
<1>7. file[m].kind # "comment" /\ file[n].kind # "comment"
  BY <1>3, <1>4, <1>5 DEF Interaction, Calls, KnownBy, NoName
<1>8. PICK p, q \in 1..Len(x.lines) : x.lines[p] = m /\ x.lines[q] = n
  BY <1>6, <1>7, OwnLines
<1>9. p < q
  BY <1>6, <1>8, OwnLines
<1> QED BY <1>3, <1>4, <1>5, <1>8, <1>9 DEF Later

\* Which checks of the lock count
LEMMA LockChecked ==
  ASSUME NEW x, NEW a, NEW b, NEW e, LaidOut(x, a, b, e)
  PROVE  EarlyGuards(Stripped(LinesOf(FromTo(a, e))), "reentrancy") # {}
           <=> \E g \in (b + 1)..(e - 1) : file[g].kind = "check" /\ g <= b + GuardScanDepth /\ ~PastAt(b, g)
<1>1. \A l : MatchGuard(l) = "reentrancy" <=> l.kind = "check"
  BY MatchIs
<1> QED BY <1>1, EarlyIs

\* A check of the lock that does not count is too far down, or something is above it.
LEMMA ChecksMissed ==
  ASSUME Typed, LinesInv, NEW x, IsDone(x), NEW a, NEW b, NEW e, LaidOut(x, a, b, e),
         NEW c, c.lines = FromTo(a, e), ~HasGuard(c),
         NEW i \in 1..Len(x.lines), file[x.lines[i]].kind = "check"
  PROVE  \/ x.lines[i] > Brace(x) + GuardScanDepth
         \/ \E j \in 1..(i - 1) : IsStateWriteOrCall(file[x.lines[j]])
<1>1. /\ a \in Nat /\ b \in Nat /\ e \in Nat /\ a <= b /\ b <= e
      /\ file[a].kind \in {"function", "oneLiner", "signature"}
      /\ \A m \in (a + 1)..b : file[m].kind \in {"attributes", "comment", "brace"}
      /\ e = b \/ file[e].kind = "close"
  BY DEF LaidOut, BodyOpens, ItemRun
<1>2. Brace(x) = b
  BY BraceIs
<1>3. EarlyGuards(Stripped(LinesOf(FromTo(a, e))), "reentrancy") = {}
  BY DEF HasGuard, HasReentrancyGuard
<1>4. ~\E g \in (b + 1)..(e - 1) : file[g].kind = "check" /\ g <= b + GuardScanDepth /\ ~PastAt(b, g)
  <2>1. EarlyGuards(Stripped(LinesOf(FromTo(a, e))), "reentrancy") # {}
          <=> \E g \in (b + 1)..(e - 1) : file[g].kind = "check" /\ g <= b + GuardScanDepth /\ ~PastAt(b, g)
    BY LockChecked
  <2> QED BY <1>3, <2>1
<1>5. PICK g : g = x.lines[i]
  OBVIOUS
<1>6. g \in a..e /\ file[g].kind = "check"
  BY <1>5, OwnLines
<1>7. g \in (b + 1)..(e - 1)
  <2>1. g # a /\ g \notin (a + 1)..b /\ ~(g = e /\ file[e].kind = "close")
    BY <1>1, <1>6
  <2> QED BY <1>1, <1>6, <2>1
<1>8. CASE ~(g <= b + GuardScanDepth)
  BY <1>1, <1>2, <1>5, <1>7, <1>8, ScanDepthAssumption
<1>9. CASE PastAt(b, g)
  <2>1. PICK w \in (b + 1)..(g - 1) : IsStateWriteOrCall(file[w])
    BY <1>9 DEF PastAt
  <2>2. file[w].kind # "comment" /\ w \in a..e /\ w < g
    BY <1>1, <1>7, <2>1 DEF IsStateWriteOrCall, Calls
  <2>3. PICK j \in 1..Len(x.lines) : x.lines[j] = w
    BY <2>2, OwnLines
  <2>4. j < i
    BY <1>5, <2>2, <2>3, OwnLines
  <2>5. j \in 1..(i - 1)
    BY <2>4
  <2> QED BY <2>1, <2>3, <2>5
<1> QED BY <1>4, <1>6, <1>7, <1>8, <1>9

\* What is reported without the graph
LEMMA LegacyReason ==
  ASSUME Grammar, DepthInv, PlaceInv, ItemInv, CoverInv, LinesInv, HeadInv, scopes = <<>>,
         ~Has({"declaration"}), NEW r \in LegacyReentrancy
  PROVE  \E f : /\ IsDone(f) /\ r.of[1] = f.lines[1]
                /\ r.of = Whole(f).lines /\ "nonReentrant" \notin AllMarks(f) /\ Later(f, r.line)
                /\ \A i \in 1..Len(f.lines) : file[f.lines[i]].kind = "check" =>
                     \/ f.lines[i] > Brace(f) + GuardScanDepth
                     \/ \E j \in 1..(i - 1) : IsStateWriteOrCall(file[f.lines[j]])
<1>0. Typed
  BY DEF Grammar
<1>1. PICK j \in 1..Len(functions) :
           /\ ~HasGuard(functions[j]) /\ WritesAfter(functions[j]) # {}
           /\ r.of = functions[j].lines
           /\ r.line = functions[j].lines[First(WritesAfter(functions[j]))]
  BY LegacyFinds
<1>2. PICK f : IsDone(f) /\ functions[j] = Whole(f)
  BY BlockIsWhole
<1>3. PICK a, b, e : LaidOut(f, a, b, e)
  BY <1>2, Layout
<1>4. f.lines[1] = a /\ f.lines[Len(f.lines)] = e /\ a \in Nat /\ e \in Nat /\ 1 <= a /\ a <= e
  BY <1>3 DEF LaidOut
<1>5. PICK c : c = functions[j]
  OBVIOUS
<1>6. c.lines = FromTo(a, e) /\ c.lines[1] = a
  <2>1. c.lines = FromTo(a, e)
    BY <1>2, <1>4, <1>5 DEF Whole, FromTo
  <2>2. FromTo(a, e)[1] = a
    BY <1>4, SpanLines
  <2> QED BY <2>1, <2>2
<1>7. First(WritesAfter(c)) \in WritesAfter(c)
  <2>1. WritesAfter(c) \subseteq Nat
    BY DEF WritesAfter
  <2> QED BY <1>1, <1>5, <2>1, FirstIs
<1>8. Later(f, r.line)
  BY <1>1, <1>2, <1>3, <1>5, <1>6, <1>7, WriteIsLater
<1>9. "nonReentrant" \notin AllMarks(f)
  BY <1>0, <1>1, <1>3, <1>5, <1>6, MarksSeen
<1>10. ASSUME NEW i \in 1..Len(f.lines), file[f.lines[i]].kind = "check"
       PROVE  \/ f.lines[i] > Brace(f) + GuardScanDepth
              \/ \E k \in 1..(i - 1) : IsStateWriteOrCall(file[f.lines[k]])
  BY <1>0, <1>1, <1>2, <1>3, <1>5, <1>6, <1>10, ChecksMissed
<1> QED BY <1>1, <1>2, <1>4, <1>5, <1>6, <1>8, <1>9, <1>10

\* Without a contract there is nothing to report.
LEMMA NothingReported ==
  ASSUME CoverInv, EmptyInv, contracts = <<>>
  PROVE  LegacyReentrancy = {}
<1>1. Len(contracts) = 0
  BY EmptySeq
<1>2. \A m \in 1..Len(file) : file[m].kind \in {"import", "comment"}
  BY <1>1 DEF EmptyInv
<1>3. ASSUME NEW j \in 1..Len(functions) PROVE FALSE
  <2>1. /\ LastLine(functions[j]) \in 1..Len(file)
        /\ FirstLine(functions[j]) \in 1..LastLine(functions[j])
        /\ file[FirstLine(functions[j])].kind \in FunctionLines
    BY DEF CoverInv, SpanOf
  <2>2. FirstLine(functions[j]) \in 1..Len(file)
    BY <2>1
  <2> QED BY <1>2, <2>1, <2>2 DEF FunctionLines
<1>4. ~\E j \in 1..Len(functions) : TRUE
  BY <1>3
<1> QED BY <1>4, LegacyFinds

-----------------------------------------------------------------------------
(* FunctionsForAReason *)

\* What every line preserves of how the functions end up with the readers
RestInv ==
  PartCoverInv /\ StartInv /\ LinesInv /\ UniqueInv /\ HeadInv /\ UnitInv /\ EmptyInv /\ SyncInv /\ KeptInv

\* A file without lines is so.
LEMMA RestInit == ParseInit => RestInv
<1> SUFFICES ASSUME ParseInit PROVE RestInv
  OBVIOUS
<1>1. /\ Len(scopes) = 0 /\ Len(file) = 0 /\ Len(source) = 0 /\ Len(contracts) = 0 /\ Len(parts) = 0 /\ 1..0 = {}
      /\ scopes = <<>> /\ parts = <<>> /\ part = NoBlock /\ unit = NoUnit /\ ~current
  BY EmptySeq DEF ParseInit
<1>2. ~InUnit /\ ~InFunction
  BY <1>1 DEF Second, InUnit, InFunction, NoName
<1>3. \A x : ~IsDone(x)
  BY <1>1 DEF IsDone, IsDoneIn
<1>4. \A x, k : ~IsDoneIn(x, k) /\ ~IsParsed(x, k)
  BY <1>1 DEF IsDoneIn, IsParsed
<1>5. PartCoverInv
  <2>1. parts \in Seq(Members(parts))
    BY <1>1, EmptySeq
  <2> QED BY <1>1, <1>2, <1>3, <2>1 DEF PartCoverInv
<1>6. StartInv /\ LinesInv /\ UniqueInv
  BY <1>1, <1>2, <1>3 DEF StartInv, LinesInv, UniqueInv
<1>7. HeadInv
  BY <1>1, <1>2, <1>4 DEF HeadInv
<1>8. UnitInv
  BY <1>1, <1>4 DEF UnitInv
<1>9. EmptyInv
  BY <1>1 DEF EmptyInv
<1>10. SyncInv
  BY <1>1, <1>2 DEF SyncInv
<1>11. KeptInv
  BY <1>1 DEF KeptInv
<1> QED BY <1>5, <1>6, <1>7, <1>8, <1>9, <1>10, <1>11 DEF RestInv

\* Every line preserves all of it,
LEMMA RestStep == ReadingInv /\ StandingInv /\ RestInv /\ ReadLine => RestInv'
<1> SUFFICES ASSUME ReadingInv, StandingInv, RestInv, ReadLine PROVE RestInv'
  OBVIOUS
<1>1. Grammar /\ CountInv
  BY DEF ReadingInv
<1>2. DepthInv /\ PlaceInv /\ OrderInv /\ TextInv /\ ItemInv
  BY DEF StandingInv
<1>3. PartCoverInv /\ StartInv /\ LinesInv /\ UniqueInv /\ HeadInv /\ UnitInv /\ EmptyInv /\ SyncInv /\ KeptInv
  BY DEF RestInv
<1>4. PICK l \in LineChoices(style) :
        /\ Fits(l) /\ file' = Append(file, l) /\ UNCHANGED style
        /\ Follow(l) /\ Parse(l) /\ CutLine(l) /\ CutPart(l) /\ GatherContract(l)
  BY DEF ReadLine
<1>5. Reads(l) /\ Parse(l) /\ CutPart(l)
  BY <1>4 DEF Reads
<1>6. PartCoverInv'
  BY <1>1, <1>2, <1>3, <1>5, PartCoverStep
<1>7. StartInv' /\ LinesInv' /\ UniqueInv'
  BY <1>1, <1>2, <1>3, <1>5, StartStep, LinesStep, UniqueStep
<1>8. HeadInv'
  BY <1>1, <1>2, <1>3, <1>5, HeadStep
<1>9. UnitInv' /\ EmptyInv'
  BY <1>1, <1>2, <1>3, <1>5, UnitStep, EmptyStep
<1>10. SyncInv'
  BY <1>1, <1>2, <1>3, <1>5, SyncStep
<1>11. KeptInv'
  BY <1>1, <1>2, <1>3, <1>5, KeptStep
<1> QED BY <1>6, <1>7, <1>8, <1>9, <1>10, <1>11 DEF RestInv

\* and so does the scan.
LEMMA RestKept == RestInv /\ UNCHANGED parseVars => RestInv'
<1> SUFFICES ASSUME RestInv, UNCHANGED parseVars PROVE RestInv'
  OBVIOUS
<1>1. /\ UNCHANGED <<style, file, scopes, source>>
      /\ UNCHANGED <<contracts, imports, current, contractDepth, unit, unitDepth>>
      /\ UNCHANGED <<part, partDepth, parts>>
  BY DEF parseVars, grammarVars, parserVars, partVars
<1>2. PartCoverInv /\ StartInv /\ LinesInv /\ UniqueInv /\ HeadInv /\ UnitInv /\ EmptyInv /\ SyncInv /\ KeptInv
  BY DEF RestInv
<1>3. /\ Second' = Second /\ InUnit' = InUnit /\ InFunction' = InFunction /\ Level' = Level
      /\ OpenItem' = OpenItem /\ Names' = Names
  BY <1>1 DEF InHeader, Second, InUnit, InFunction, Level, OpenItem, LastItem, LastContract, Names
<1>4. Items' = Items
  BY <1>3 DEF Items
<1>5. \A x, k : (IsDoneIn(x, k)' <=> IsDoneIn(x, k)) /\ (IsParsed(x, k)' <=> IsParsed(x, k))
  BY <1>1, <1>3 DEF IsDoneIn, IsParsed
<1>6. \A x : IsDone(x)' <=> IsDone(x)
  BY <1>1, <1>5 DEF IsDone
<1>7. \A n, K : Before(n, K)' <=> Before(n, K)
  BY <1>1 DEF Before
<1>8. PartCoverInv'
  BY <1>1, <1>2, <1>3, <1>6 DEF PartCoverInv
<1>9. StartInv' /\ UniqueInv'
  BY <1>1, <1>2, <1>3, <1>6 DEF StartInv, UniqueInv
<1>10. LinesInv'
  BY <1>1, <1>2, <1>3, <1>4, <1>6 DEF LinesInv
<1>11. HeadInv'
  BY <1>1, <1>2, <1>3, <1>5 DEF HeadInv
<1>12. UnitInv'
  <2>1. \A x : ParsedAs(x)' <=> ParsedAs(x)
    BY <1>1, <1>6 DEF ParsedAs
  <2> QED BY <1>1, <1>2, <1>3, <1>5, <2>1 DEF UnitInv
<1>13. EmptyInv'
  BY <1>1, <1>2 DEF EmptyInv
<1>14. SyncInv'
  <2>1. Regular' <=> Regular
    BY <1>1 DEF Regular, Has
  <2> QED BY <1>1, <1>2, <1>3, <2>1 DEF SyncInv
<1>15. KeptInv'
  <2>1. VariablesClear' <=> VariablesClear
    BY <1>1, <1>7 DEF VariablesClear
  <2>2. \A k : KeepsFunctions(k)' <=> KeepsFunctions(k)
    BY <1>1, <1>5, <1>7 DEF KeepsFunctions
  <2>3. \A k : KeepsVariables(k)' <=> KeepsVariables(k)
    BY <1>1, <1>7, <2>1 DEF KeepsVariables
  <2> QED BY <1>1, <1>2, <2>2, <2>3 DEF KeptInv
<1> QED BY <1>8, <1>9, <1>10, <1>11, <1>12, <1>13, <1>14, <1>15 DEF RestInv

\* What the two detectors found is what they find in the scanned file.
FoundInv ==
  scanned =>
    \A r : /\ r \in findings /\ r.rule = "access-control" <=> r \in AccessControl
           /\ r \in findings /\ r.rule = "reentrancy"
                <=> r \in (IF withGraph /\ contracts # <<>> THEN GraphReentrancy ELSE LegacyReentrancy)

\* The rules of the others
LEMMA LineRules == \A r \in LineFindings : r.rule \notin {"reentrancy", "access-control"}
<1>1. \A r \in UncheckedCalls : r.rule = "unchecked-call"
  BY DEF UncheckedCalls, LineFinding
<1>2. \A r \in Reinitializable : r.rule = "reinitializable-init"
  BY DEF Reinitializable, LineFinding
<1>3. \A r \in ConstructorInUpgradeable : r.rule = "constructor-in-upgradeable"
  BY DEF ConstructorInUpgradeable, LineFinding
<1>4. \A r \in StorageGapMissing : r.rule = "storage-gap-missing"
  BY DEF StorageGapMissing, LineFinding
<1>5. \A r \in UninitializedOwnable : r.rule = "uninitialized-ownable"
  BY DEF UninitializedOwnable, LineFinding
<1> QED BY <1>1, <1>2, <1>3, <1>4, <1>5 DEF LineFindings

\* They find the same as long as the readers' state stays.
LEMMA ReasonsKept ==
  UNCHANGED parseVars => /\ AccessControl' = AccessControl
                         /\ GraphReentrancy' = GraphReentrancy /\ LegacyReentrancy' = LegacyReentrancy
<1> SUFFICES ASSUME UNCHANGED parseVars
             PROVE  /\ AccessControl' = AccessControl
                    /\ GraphReentrancy' = GraphReentrancy /\ LegacyReentrancy' = LegacyReentrancy
  OBVIOUS
<1>1. UNCHANGED <<file, functions, parts, contracts>>
  BY DEF parseVars, grammarVars, parserVars, cutVars, partVars
<1>2. AccessControl' = AccessControl
  BY <1>1 DEF AccessControl, Exempt, HasControl, Sensitive, LinesOf, KindsIn, HasManualInitializerGuard, InlineProtected
<1>3. GraphReentrancy' = GraphReentrancy
  <2>1. /\ \A f : NodeHasGuard(f)' <=> NodeHasGuard(f)
        /\ \A h : Internal(h)' <=> Internal(h)
        /\ \A c : NodeFunctions(c)' = NodeFunctions(c)
        /\ \A f, c : Ops(f, c)' = Ops(f, c)
    BY <1>1 DEF NodeHasGuard, MarksOf, Internal, SignatureLines, LinesOf, NodeFunctions, Ops
  <2> DEFINE Told(k) == {[rule |-> "reentrancy", name |-> f.name,
                          line |-> f.lines[1] + FirstCall(Ops(f, contracts[k])), of |-> f.lines] :
                            f \in {g \in NodeFunctions(contracts[k]) :
                                      /\ ~Internal(g.lines[1]) /\ g.name \notin Underscored
                                      /\ ~NodeHasGuard(g)
                                      /\ Violations(Ops(g, contracts[k])) # {}}}
  <2>2. GraphReentrancy = UNION {Told(k) : k \in 1..Len(contracts)}
    BY DEF GraphReentrancy
  <2>3. GraphReentrancy' = UNION {Told(k)' : k \in 1..Len(contracts')}
    BY DEF GraphReentrancy
  <2>4. ASSUME NEW k PROVE Told(k)' = Told(k)
    <3>1. PICK c : c = contracts[k]
      OBVIOUS
    <3>2. contracts[k] = c /\ contracts'[k] = c
      BY <1>1, <3>1
    <3> QED BY <2>1, <3>2
  <2> HIDE DEF Told
  <2>5. \A k : Told(k)' = Told(k)
    BY <2>4
  <2> QED BY <1>1, <2>2, <2>3, <2>5
<1>4. LegacyReentrancy' = LegacyReentrancy
  <2>1. \A n : ByName(n)' = ByName(n)
    BY <1>1 DEF ByName
  <2>2. \A l : Interaction(l)' <=> Interaction(l)
    BY <1>1, <2>1 DEF Interaction
  <2>3. /\ \A b : HasGuard(b)' <=> HasGuard(b)
        /\ \A b : WritesAfter(b)' = WritesAfter(b)
    BY <1>1, <2>2 DEF HasGuard, WritesAfter, LinesOf
  <2> QED BY <1>1, <2>3 DEF LegacyReentrancy
<1> QED BY <1>2, <1>3, <1>4

\* Every step preserves this.
LEMMA FoundStep == FoundInv /\ [DetectorsNext]_detectorVars => FoundInv'
<1> SUFFICES ASSUME FoundInv, [DetectorsNext]_detectorVars PROVE FoundInv'
  OBVIOUS
<1>1. CASE WriteLine
  <2>1. scanned' = FALSE
    BY <1>1 DEF WriteLine
  <2> QED BY <2>1 DEF FoundInv
<1>2. CASE Scan
  <2>1. PICK R : R = IF withGraph' /\ contracts # <<>> THEN GraphReentrancy ELSE LegacyReentrancy
    OBVIOUS
  <2>2. UNCHANGED parseVars /\ findings' = R \cup AccessControl \cup LineFindings
    BY <1>2, <2>1 DEF Scan
  <2>3. /\ \A r \in R : r.rule = "reentrancy"
        /\ \A r \in AccessControl : r.rule = "access-control"
        /\ \A r \in LineFindings : r.rule \notin {"reentrancy", "access-control"}
    BY <2>1, OtherRules, LineRules
  <2>4. \A r : /\ r \in findings' /\ r.rule = "access-control" <=> r \in AccessControl
               /\ r \in findings' /\ r.rule = "reentrancy" <=> r \in R
    BY <2>2, <2>3
  <2>5. /\ AccessControl' = AccessControl
        /\ R = IF withGraph' /\ contracts' # <<>> THEN GraphReentrancy' ELSE LegacyReentrancy'
    <3>1. contracts' = contracts
      BY <2>2 DEF parseVars, parserVars
    <3> QED BY <2>1, <2>2, <3>1, ReasonsKept
  <2> QED BY <2>4, <2>5 DEF FoundInv
<1>3. CASE UNCHANGED detectorVars
  <2>1. UNCHANGED parseVars /\ findings' = findings /\ scanned' = scanned /\ withGraph' = withGraph
    BY <1>3 DEF detectorVars
  <2>2. contracts' = contracts
    BY <2>1 DEF parseVars, parserVars
  <2> QED BY <2>1, <2>2, ReasonsKept DEF FoundInv
<1> QED BY <1>1, <1>2, <1>3 DEF DetectorsNext

\* The invariant the two detectors need
FunctionInv == DetectorInv /\ RestInv /\ FoundInv

\* The scan starts in a state of the invariant,
LEMMA FunctionInvInit == DetectorsInit => FunctionInv
BY DetectorInvInit, RestInit DEF DetectorsInit, FunctionInv, FoundInv

\* and every step stays in it.
LEMMA FunctionInvStep == FunctionInv /\ [DetectorsNext]_detectorVars => FunctionInv'
<1> SUFFICES ASSUME FunctionInv, [DetectorsNext]_detectorVars PROVE FunctionInv'
  OBVIOUS
<1>1. ReadLine \/ UNCHANGED parseVars
  BY DEF DetectorsNext, WriteLine, Scan, detectorVars
<1>2. DetectorInv /\ ReadingInv /\ StandingInv /\ RestInv /\ FoundInv
  BY DEF FunctionInv, DetectorInv
<1>3. DetectorInv' /\ FoundInv'
  BY <1>2, DetectorInvStep, FoundStep
<1>4. RestInv'
  BY <1>1, <1>2, RestStep, RestKept
<1> QED BY <1>3, <1>4 DEF FunctionInv

\* In these states the first property holds of what is not reported,
LEMMA MissesSaid == FunctionInv => MissedForAReason
<1> SUFFICES ASSUME FunctionInv, scanned, withGraph,
                    NEW k \in 1..Len(source), NEW n \in 1..Len(source[k].items), NEW f, f = source[k].items[n],
                    f.kind = "function", file[f.lines[1]].visibility # "internal",
                    CallThenWrite(f, source[k].vars),
                    "check" \notin LineKinds(f), "nonReentrant" \notin AllMarks(f),
                    f.name \notin Underscored,
                    ~\E m \in (f.lines[1] + 1)..Len(file) : file[m].kind \in FunctionLines /\ file[m].name = f.name,
                    "attributes" \notin LineKinds(f),
                    ~Before(f.lines[1], {"declaration", "emptyContract"}),
                    ~\E v \in 1..Len(file) : file[v].kind \in {"variable", "lockVariable"} /\ Before(v, {"declaration"}),
                    file[source[k].line].kind # "bareContract"
             PROVE  \E r \in findings : r.rule = "reentrancy" /\ r.name = f.name /\ r.of = f.lines
  BY DEF MissedForAReason
<1>1. /\ Grammar /\ DepthInv /\ PlaceInv /\ ItemInv /\ LinesInv /\ HeadInv /\ UnitInv /\ KeptInv /\ FoundInv
      /\ scopes = <<>>
  BY DEF FunctionInv, DetectorInv, ScanInv, ReadingInv, StandingInv, RestInv
<1>2. IsDoneIn(f, k)
  <2>1. ~InUnit
    BY <1>1, DoneFunctions
  <2> QED BY <2>1 DEF IsDoneIn
<1>3. VariablesClear /\ ~Before(f.lines[1], Off)
  BY DEF VariablesClear, Off, Variables
<1>4. \A m \in (f.lines[1] + 1)..Len(file) : ~(file[m].kind \in FunctionLines /\ file[m].name = f.name)
  OBVIOUS
<1>5. contracts # <<>> /\ \E r \in GraphReentrancy : r.name = f.name /\ r.of = f.lines
  BY <1>1, <1>2, <1>3, <1>4, GraphMissesNone
<1>6. \A r \in GraphReentrancy : r \in findings /\ r.rule = "reentrancy"
  BY <1>1, <1>5 DEF FoundInv
<1> QED BY <1>5, <1>6

\* the second of what is,
LEMMA ReportsSaid == FunctionInv => ReportedForAReason
<1> SUFFICES ASSUME FunctionInv, scanned, NEW r \in findings, r.rule = "reentrancy"
             PROVE  LET f == CHOOSE g \in Functions(source) : g.lines[1] = r.of[1]
                    IN IF withGraph
                       THEN \/ file[r.of[1]].kind = "declaration"
                            \/ /\ r.of = f.lines /\ "nonReentrant" \notin AllMarks(f)
                               /\ CallThenWrite(f, {"variable", "lockVariable"})
                               /\ \A i \in 1..Len(f.lines) : file[f.lines[i]].kind = "check" => i > GuardScanDepth
                       ELSE \/ Has({"declaration"})
                            \/ /\ r.of = Whole(f).lines /\ "nonReentrant" \notin AllMarks(f) /\ Later(f, r.line)
                               /\ \A i \in 1..Len(f.lines) : file[f.lines[i]].kind = "check" =>
                                    \/ f.lines[i] > Brace(f) + GuardScanDepth
                                    \/ \E j \in 1..(i - 1) : IsStateWriteOrCall(file[f.lines[j]])
  BY DEF ReportedForAReason
<1>1. /\ Grammar /\ CountInv /\ DepthInv /\ PlaceInv /\ ItemInv /\ CoverInv
      /\ LinesInv /\ HeadInv /\ UnitInv /\ UniqueInv /\ EmptyInv /\ FoundInv /\ scopes = <<>>
  BY DEF FunctionInv, DetectorInv, ScanInv, ReadingInv, StandingInv, RestInv
<1>2. PICK f : f = CHOOSE g \in Functions(source) : g.lines[1] = r.of[1]
  OBVIOUS
<1>3. \A x : IsDone(x) /\ x.lines[1] = r.of[1] => x = f
  <2> SUFFICES ASSUME NEW x, IsDone(x), x.lines[1] = r.of[1] PROVE x = f
    OBVIOUS
  <2> QED BY <1>1, <1>2, ChosenIs
<1>4. ASSUME r \in GraphReentrancy, ~(file[r.of[1]].kind = "declaration")
      PROVE  /\ r.of = f.lines /\ "nonReentrant" \notin AllMarks(f)
             /\ CallThenWrite(f, {"variable", "lockVariable"})
             /\ \A i \in 1..Len(f.lines) : file[f.lines[i]].kind = "check" => i > GuardScanDepth
  <2>1. PICK x : /\ IsDone(x) /\ r.of = x.lines /\ "nonReentrant" \notin AllMarks(x)
                 /\ CallThenWrite(x, {"variable", "lockVariable"})
                 /\ \A i \in 1..Len(x.lines) : file[x.lines[i]].kind = "check" => i > GuardScanDepth
    BY <1>1, <1>4, GraphReason
  <2>2. x = f
    BY <1>3, <2>1
  <2> QED BY <2>1, <2>2
<1>5. ASSUME r \in LegacyReentrancy, ~Has({"declaration"})
      PROVE  /\ r.of = Whole(f).lines /\ "nonReentrant" \notin AllMarks(f) /\ Later(f, r.line)
             /\ \A i \in 1..Len(f.lines) : file[f.lines[i]].kind = "check" =>
                  \/ f.lines[i] > Brace(f) + GuardScanDepth
                  \/ \E j \in 1..(i - 1) : IsStateWriteOrCall(file[f.lines[j]])
  <2>1. PICK x : /\ IsDone(x) /\ r.of[1] = x.lines[1]
                 /\ r.of = Whole(x).lines /\ "nonReentrant" \notin AllMarks(x) /\ Later(x, r.line)
                 /\ \A i \in 1..Len(x.lines) : file[x.lines[i]].kind = "check" =>
                      \/ x.lines[i] > Brace(x) + GuardScanDepth
                      \/ \E j \in 1..(i - 1) : IsStateWriteOrCall(file[x.lines[j]])
    BY <1>1, <1>5, LegacyReason
  <2>2. x = f
    BY <1>3, <2>1
  <2> QED BY <2>1, <2>2
<1>6. r \in (IF withGraph /\ contracts # <<>> THEN GraphReentrancy ELSE LegacyReentrancy)
  BY <1>1 DEF FoundInv
<1>7. contracts = <<>> => r \notin LegacyReentrancy
  BY <1>1, NothingReported
<1>8. withGraph => r \in GraphReentrancy
  BY <1>6, <1>7
<1>9. ~withGraph => r \in LegacyReentrancy
  BY <1>6
<1> QED BY <1>2, <1>4, <1>5, <1>8, <1>9

\* and the third of the sender's checks.
LEMMA AccessSaid == FunctionInv => AccessControlForAReason
<1> SUFFICES ASSUME FunctionInv, scanned
             PROVE  /\ \A f \in Functions(source) :
                         \/ file[f.lines[1]].visibility = "internal" \/ f.name \in Underscored
                         \/ (/\ LineKinds(f) \cap Controls(f) = {} /\ AllMarks(f) = {}
                             /\ f.name \in Critical \/ "write" \in LineKinds(f))
                            <=> (\E r \in findings : r.rule = "access-control" /\ r.line = f.lines[1] /\ r.name = f.name)
                         \/ LineKinds(f) \cap {"attributes", "oneLiner"} # {}
                         \/ file[f.lines[1]].kind = "signature" /\ file[f.lines[1] + 1].kind = "comment"
                         \/ Before(f.lines[1], {"declaration", "oneLiner"})
                    /\ \A r \in findings : r.rule = "access-control" =>
                         \E f \in Functions(source) : f.lines[1] = r.line /\ f.name = r.name
  BY DEF AccessControlForAReason
<1>1. /\ Grammar /\ DepthInv /\ PlaceInv /\ ItemInv /\ PartCoverInv /\ StartInv /\ FoundInv /\ scopes = <<>>
  BY DEF FunctionInv, DetectorInv, ScanInv, ReadingInv, StandingInv, RestInv
<1>2. \A r : r \in findings /\ r.rule = "access-control" <=> r \in AccessControl
  BY <1>1 DEF FoundInv
<1>3. ASSUME NEW f \in Functions(source),
             ~(file[f.lines[1]].visibility = "internal"), f.name \notin Underscored,
             ~(LineKinds(f) \cap {"attributes", "oneLiner"} # {}),
             ~(file[f.lines[1]].kind = "signature" /\ file[f.lines[1] + 1].kind = "comment"),
             ~Before(f.lines[1], {"declaration", "oneLiner"})
      PROVE  (LineKinds(f) \cap Controls(f) = {} /\ AllMarks(f) = {} /\ (f.name \in Critical \/ "write" \in LineKinds(f)))
             <=> (\E r \in findings : r.rule = "access-control" /\ r.line = f.lines[1] /\ r.name = f.name)
  <2>1. IsDone(f)
    BY <1>1, DoneFunctions
  <2>2. (LineKinds(f) \cap Controls(f) = {} /\ AllMarks(f) = {} /\ (f.name \in Critical \/ "write" \in LineKinds(f)))
           <=> (\E r \in AccessControl : r.line = f.lines[1] /\ r.name = f.name)
    BY <1>1, <1>3, <2>1, AccessFound
  <2> QED BY <1>2, <2>2
<1>4. ASSUME NEW r \in findings, r.rule = "access-control"
      PROVE  \E f \in Functions(source) : f.lines[1] = r.line /\ f.name = r.name
  BY <1>1, <1>2, <1>4, AccessOfFunction
<1> QED BY <1>3, <1>4

\* For every style of files: what the reentrancy and the access-control detector report
\* of a function, and what they do not, has the reasons that FunctionsForAReason names.
THEOREM FunctionsExplained == DetectorsSpec => []FunctionsForAReason
<1>1. FunctionInv => FunctionsForAReason
  BY MissesSaid, ReportsSaid, AccessSaid DEF FunctionsForAReason, ReentrancyForAReason
<1> QED BY <1>1, FunctionInvInit, FunctionInvStep, PTL DEF DetectorsSpec
=============================================================================
