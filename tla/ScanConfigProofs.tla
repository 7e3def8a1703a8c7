-------------------------- MODULE ScanConfigProofs ---------------------------
(***************************************************************************)
(* Proofs about the configuration of a scan, for every file whatever its   *)
(* lines and their number, every set of flags, project and finding.        *)
(*                                                                         *)
(* What a file says is defined by all its lines at once; the parser reads  *)
(* one at a time.  The lemmas of the first part say how each definition    *)
(* changes when a line is added; LinesInv, that the variables of the       *)
(* parser are where the lines read so far leave it, is then inductive line *)
(* by line.  FlagsInv carries the settings through the stages of the scan. *)
(***************************************************************************)
EXTENDS ScanConfig, FiniteSetTheorems, SequenceTheorems, WellFoundedInduction, TLAPS

(***************************************************************************)
(* The last and the k-th of a set of lines.                                *)
(***************************************************************************)

\* A set of natural numbers that is not empty has a least one.
LEMMA LeastElement ==
  ASSUME NEW T, T \subseteq Nat, T # {}
  PROVE  \E x \in T : \A y \in T : x <= y
<1> DEFINE Less == {p \in Nat \X Nat : p[1] < p[2]}
<1>1. OpToRel(<, Nat) = Less
  BY DEF OpToRel
<1>2. IsWellFoundedOn(Less, Nat)
  BY <1>1, NatLessThanWellFounded
<1>3. PICK x \in T : \A y \in T : ~(<<y, x>> \in Less)
  <2> HIDE DEF Less
  <2> QED
    BY <1>2, WFMin
<1>4. ASSUME NEW y \in T PROVE x <= y
  <2>1. x \in Nat /\ y \in Nat
    OBVIOUS
  <2>2. ~(y < x)
    BY <1>3, <2>1
  <2> QED
    BY <2>1, <2>2
<1> QED
  BY <1>4

\* Induction over the natural numbers, for a set instead of a predicate.
LEMMA InductionOnNat ==
  ASSUME NEW T, 0 \in T, \A n \in Nat : n \in T => n + 1 \in T
  PROVE  Nat \subseteq T
<1> SUFFICES ASSUME ~(Nat \subseteq T) PROVE FALSE
  OBVIOUS
<1>1. PICK x \in Nat \ T : \A y \in Nat \ T : x <= y
  BY LeastElement
<1>2. x # 0
  BY <1>1
<1>3. x - 1 \in Nat /\ x - 1 \in T
  BY <1>1, <1>2
<1> QED
  BY <1>1, <1>2, <1>3

\* The latest of the lines in a set is in it, and no line of it is later.
LEMMA LatestIsLast ==
  ASSUME NEW n \in Nat, NEW S \in SUBSET (1..n), S # {}
  PROVE  Latest(S) \in S /\ \A j \in S : j <= Latest(S)
<1> DEFINE B == {b \in Nat : \A j \in S : j <= b}
<1>1. B \subseteq Nat /\ n \in B
  OBVIOUS
<1>2. PICK b \in B : \A y \in B : b <= y
  <2> HIDE DEF B
  <2> QED
    BY <1>1, LeastElement
<1>3. b \in S
  <2> SUFFICES ASSUME b \notin S PROVE FALSE
    OBVIOUS
  <2>1. PICK j \in S : TRUE
    OBVIOUS
  <2>2. b \in Nat /\ j \in Nat /\ j >= 1 /\ j <= b
    BY <2>1
  <2>3. b - 1 \in Nat
    BY <2>2
  <2>4. ASSUME NEW i \in S PROVE i <= b - 1
    <3>1. i \in Nat /\ i <= b /\ i # b
      OBVIOUS
    <3> QED
      BY <2>2, <3>1
  <2>5. b - 1 \in B
    BY <2>3, <2>4
  <2> QED
    BY <1>2, <2>2, <2>5
<1>4. \A j \in S : j <= b
  OBVIOUS
<1>5. Latest(S) = CHOOSE i \in S : \A j \in S : j <= i
  BY DEF Latest
<1> QED
  BY <1>3, <1>4, <1>5

\* A line of a set after which it has none is the latest.
LEMMA LatestIs ==
  ASSUME NEW n \in Nat, NEW S \in SUBSET (1..n), NEW x \in S, \A j \in S : j <= x
  PROVE  Latest(S) = x
<1>1. Latest(S) \in S /\ \A j \in S : j <= Latest(S)
  BY LatestIsLast
<1>2. \A i \in S : i \in Nat
  OBVIOUS
<1>3. Latest(S) \in Nat /\ x \in Nat
  BY <1>1, <1>2
<1>4. Latest(S) <= x /\ x <= Latest(S)
  BY <1>1
<1> QED
  BY <1>3, <1>4

LEMMA LatestOfMore ==
  ASSUME NEW n \in Nat, NEW I \in SUBSET (1..n)
  PROVE  Latest(I \cup {n + 1}) = n + 1
<1>0. I \cup {n + 1} \in SUBSET (1..(n + 1))
  OBVIOUS
<1>1. PICK S \in SUBSET (1..(n + 1)) : S = I \cup {n + 1}
  BY <1>0
<1>2. n + 1 \in Nat /\ n + 1 \in S /\ \A j \in S : j <= n + 1
  BY <1>1
<1> QED
  BY <1>1, <1>2, LatestIs

LEMMA LatestOfNone == Latest({}) = 0
BY DEF Latest

\* Every place of a set of lines is that of one of them.
LEMMA NthExists ==
  ASSUME NEW n \in Nat, NEW I \in SUBSET (1..n), NEW k \in 1..Cardinality(I)
  PROVE  \E i \in I : Cardinality({j \in I : j <= i}) = k
<1> DEFINE T == {m \in Nat : \A J \in SUBSET (1..m) : \A p \in 1..Cardinality(J) :
                   \E i \in J : Cardinality({j \in J : j <= i}) = p}
<1>1. 0 \in T
  <2> SUFFICES ASSUME NEW J \in SUBSET (1..0), NEW p \in 1..Cardinality(J) PROVE FALSE
    OBVIOUS
  <2>1. J = {}
    OBVIOUS
  <2> QED
    BY <2>1, FS_EmptySet
<1>2. ASSUME NEW m \in Nat, m \in T PROVE m + 1 \in T
  <2> SUFFICES ASSUME NEW J \in SUBSET (1..(m + 1)), NEW p \in 1..Cardinality(J)
               PROVE  \E i \in J : Cardinality({j \in J : j <= i}) = p
    OBVIOUS
  <2>0. \A q \in SUBSET (1..m) : \A r \in 1..Cardinality(q) :
          \E i \in q : Cardinality({j \in q : j <= i}) = r
    BY <1>2
  <2> HIDE DEF T
  <2>1. CASE m + 1 \notin J
    <3>1. J \in SUBSET (1..m)
      BY <2>1
    <3> QED
      BY <2>0, <3>1
  <2>2. CASE m + 1 \in J
    <3>1. PICK K \in SUBSET (1..m) : K = J \ {m + 1}
      <4>1. J \ {m + 1} \in SUBSET (1..m)
        OBVIOUS
      <4> QED
        BY <4>1
    <3>2. IsFiniteSet(K) /\ Cardinality(K) \in Nat
      <4>1. IsFiniteSet(1..m)
        BY FS_Interval
      <4> QED
        BY <4>1, FS_Subset, FS_CardinalityType
    <3>3. J = K \cup {m + 1} /\ m + 1 \notin K
      BY <2>2, <3>1
    <3>4. Cardinality(J) = Cardinality(K) + 1
      BY <3>2, <3>3, FS_AddElement
    <3>5. CASE p <= Cardinality(K)
      <4>1. p \in 1..Cardinality(K)
        BY <3>2, <3>4, <3>5
      <4>2. PICK i \in K : Cardinality({j \in K : j <= i}) = p
        BY <2>0, <4>1
      <4>3. {j \in J : j <= i} = {j \in K : j <= i}
        BY <3>3
      <4> QED
        BY <3>3, <4>2, <4>3
    <3>6. CASE p = Cardinality(K) + 1
      <4>0. \A j \in J : j <= m + 1
        OBVIOUS
      <4>1. {j \in J : j <= m + 1} = J
        BY <4>0
      <4> QED
        BY <2>2, <3>4, <3>6, <4>1
    <3> QED
      BY <3>2, <3>4, <3>5, <3>6
  <2> QED
    BY <2>1, <2>2
<1>3. n \in T
  <2> HIDE DEF T
  <2> QED
    BY <1>1, <1>2, InductionOnNat
<1> QED
  BY <1>3

LEMMA NthIsThere ==
  ASSUME NEW n \in Nat, NEW I \in SUBSET (1..n), NEW k \in 1..Cardinality(I)
  PROVE  Nth(I, k) \in I
BY NthExists DEF Nth

\* The latest of the lines is the last of the enumeration.
LEMMA NthIsLast ==
  ASSUME NEW n \in Nat, NEW I \in SUBSET (1..n), NEW k \in 1..Cardinality(I)
  PROVE  Nth(I, k) = Latest(I) <=> k = Cardinality(I)
<1>0. IsFiniteSet(1..n)
  BY FS_Interval
<1>1. IsFiniteSet(I) /\ Cardinality(I) \in Nat
  BY <1>0, FS_Subset, FS_CardinalityType
<1>2. I # {}
  BY FS_EmptySet
<1>3. PICK x \in I : x = Latest(I) /\ \A j \in I : j <= x
  BY <1>2, LatestIsLast
<1>4. PICK i \in I : i = Nth(I, k) /\ Cardinality({j \in I : j <= i}) = k
  <2>1. \E i \in I : Cardinality({j \in I : j <= i}) = k
    BY NthExists
  <2>2. Nth(I, k) \in I /\ Cardinality({j \in I : j <= Nth(I, k)}) = k
    BY ONLY <2>1 DEF Nth
  <2> QED
    BY <2>2
<1>5. ASSUME i = x PROVE k = Cardinality(I)
  <2>1. {j \in I : j <= i} = I
    BY <1>3, <1>5
  <2> QED
    BY <1>4, <2>1
<1>6. ASSUME i # x PROVE k # Cardinality(I)
  <2>0. i \in Nat /\ x \in Nat
    OBVIOUS
  <2>1. ~(x <= i)
    BY <1>3, <1>6, <2>0
  <2>2. {j \in I : j <= i} \subseteq I \ {x}
    BY <2>1
  <2>3. IsFiniteSet(I \ {x}) /\ Cardinality(I \ {x}) = Cardinality(I) - 1
    BY <1>1, FS_RemoveElement
  <2>4. Cardinality({j \in I : j <= i}) <= Cardinality(I \ {x})
    BY <2>2, <2>3, FS_Subset
  <2> QED
    BY <1>1, <1>4, <2>3, <2>4
<1> QED
  BY <1>3, <1>4, <1>5, <1>6

LEMMA LinesFinite ==
  ASSUME NEW n \in Nat, NEW I \in SUBSET (1..n)
  PROVE  IsFiniteSet(I) /\ Cardinality(I) \in Nat
<1>1. IsFiniteSet(1..n)
  BY FS_Interval
<1> QED
  BY <1>1, FS_Subset, FS_CardinalityType

\* A line after the others is the last of the enumeration and leaves it as it was.
LEMMA NthOfMore ==
  ASSUME NEW n \in Nat, NEW I \in SUBSET (1..n)
  PROVE  /\ Cardinality(I \cup {n + 1}) = Cardinality(I) + 1
         /\ Nth(I \cup {n + 1}, Cardinality(I) + 1) = n + 1
         /\ \A k \in 1..Cardinality(I) : Nth(I \cup {n + 1}, k) = Nth(I, k)
<1> DEFINE M == I \cup {n + 1}
           Upto(i) == {j \in M : j <= i}
<1>1. IsFiniteSet(I) /\ Cardinality(I) \in Nat /\ n + 1 \notin I
  BY LinesFinite
<1>2. Cardinality(M) = Cardinality(I) + 1
  BY <1>1, FS_AddElement
<1>3. Cardinality(Upto(n + 1)) = Cardinality(I) + 1
  <2>0. \A j \in M : j <= n + 1
    OBVIOUS
  <2>1. Upto(n + 1) = M
    BY <2>0
  <2> QED
    BY <1>2, <2>1
<1>4. ASSUME NEW i \in I
      PROVE  /\ Upto(i) = {j \in I : j <= i}
             /\ Cardinality(Upto(i)) <= Cardinality(I) /\ Cardinality(Upto(i)) \in Nat
  <2>1. Upto(i) = {j \in I : j <= i}
    BY <1>1
  <2>2. Upto(i) \subseteq I
    BY <2>1
  <2> QED
    BY <1>1, <2>1, <2>2, FS_Subset, FS_CardinalityType
<1>5. Nth(M, Cardinality(I) + 1) = n + 1
  <2>1. \A i \in M : Cardinality(Upto(i)) = Cardinality(I) + 1 <=> i = n + 1
    <3>1. ASSUME NEW i \in I PROVE Cardinality(Upto(i)) # Cardinality(I) + 1
      BY <1>1, <1>4
    <3> QED
      BY <1>1, <1>3, <3>1
  <2> HIDE DEF Upto
  <2>2. n + 1 \in M /\ Cardinality(Upto(n + 1)) = Cardinality(I) + 1
    BY <1>3
  <2>3. Nth(M, Cardinality(I) + 1) = CHOOSE i \in M : Cardinality(Upto(i)) = Cardinality(I) + 1
    BY DEF Nth, Upto
  <2> QED
    BY <2>1, <2>2, <2>3
<1>6. ASSUME NEW k \in 1..Cardinality(I)
      PROVE  Nth(M, k) = Nth(I, k)
  <2>1. \A i : (i \in M /\ Cardinality({j \in M : j <= i}) = k)
               <=> (i \in I /\ Cardinality({j \in I : j <= i}) = k)
    <3>1. Cardinality({j \in M : j <= n + 1}) # k
      BY <1>1, <1>3
    <3>2. \A i \in I : {j \in M : j <= i} = {j \in I : j <= i}
      BY <1>4
    <3> QED
      BY <3>1, <3>2
  <2> QED
    BY <2>1 DEF Nth
<1> QED
  BY <1>2, <1>5, <1>6

(***************************************************************************)
(* A file and the same file with one more line.                            *)
(***************************************************************************)

\* g is the file f, of n lines, and the line l.
Grown(f, l, g, n) ==
  /\ n \in Nat /\ n = Len(f) /\ Len(g) = n + 1
  /\ f \in Seq(Lines) /\ g \in Seq(Lines) /\ l \in Lines
  /\ g[n + 1] = l
  /\ \A i \in 1..n : g[i] = f[i] /\ f[i] \in Lines

LEMMA GrownByOne ==
  ASSUME NEW f \in Seq(Lines), NEW l \in Lines
  PROVE  Grown(f, l, Append(f, l), Len(f))
<1>1. /\ Len(f) \in Nat /\ Len(Append(f, l)) = Len(f) + 1
      /\ Append(f, l) \in Seq(Lines)
      /\ Append(f, l)[Len(f) + 1] = l
      /\ \A i \in 1..Len(f) : Append(f, l)[i] = f[i]
  BY AppendProperties, LenProperties
<1>2. \A i \in 1..Len(f) : f[i] \in Lines
  BY ElementOfSeq
<1> QED
  BY <1>1, <1>2 DEF Grown

\* The section a line belongs to is settled by the lines up to it.
LEMMA Tops ==
  ASSUME NEW f, NEW l, NEW g, NEW n, Grown(f, l, g, n)
  PROVE  /\ \A i \in 0..n : Top(g, i) = Top(f, i) /\ Top(f, i) \in 0..i
         /\ Top(f, n) # 0 => f[Top(f, n)].indent = 0
         /\ Top(g, n + 1) = IF l.indent = 0 THEN n + 1 ELSE Top(f, n)
<1>0. n \in Nat /\ g[n + 1] = l /\ \A i \in 1..n : g[i] = f[i]
  BY DEF Grown
<1>1. ASSUME NEW i \in 0..n
      PROVE  Top(g, i) = Top(f, i) /\ Top(f, i) \in 0..i
             /\ (Top(f, i) # 0 => f[Top(f, i)].indent = 0)
  <2> DEFINE S == {j \in 1..i : f[j].indent = 0}
  <2>1. {j \in 1..i : g[j].indent = 0} = S
    BY <1>0
  <2>2. i \in Nat /\ S \in SUBSET (1..i)
    BY <1>0
  <2>2a. Top(f, i) = Latest(S) /\ Top(g, i) = Latest(S)
    BY <2>1 DEF Top
  <2>2b. \A j \in S : j \in 0..i /\ f[j].indent = 0
    BY <2>2
  <2> HIDE DEF S
  <2>3. CASE S = {}
    <3>1. Latest(S) = 0 /\ 0 \in 0..i
      BY <2>2, <2>3, LatestOfNone
    <3> QED
      BY <2>2a, <3>1
  <2>4. CASE S # {}
    <3>1. Latest(S) \in S
      BY ONLY <2>2, <2>4, LatestIsLast
    <3> QED
      BY <2>2a, <2>2b, <3>1
  <2> QED
    BY <2>3, <2>4
<1>2. CASE l.indent = 0
  <2> DEFINE S == {j \in 1..(n + 1) : g[j].indent = 0}
  <2>1. n + 1 \in Nat /\ S \in SUBSET (1..(n + 1)) /\ n + 1 \in S /\ \A j \in S : j <= n + 1
    BY <1>0, <1>2
  <2> HIDE DEF S
  <2>2. Latest(S) = n + 1
    BY ONLY <2>1, LatestIs
  <2>3. n \in 0..n
    BY <1>0
  <2> QED
    BY <1>1, <1>2, <2>2, <2>3 DEF Top, S
<1>3. CASE l.indent # 0
  <2>1. {j \in 1..(n + 1) : g[j].indent = 0} = {j \in 1..n : f[j].indent = 0}
    BY <1>0, <1>3
  <2>2. n \in 0..n
    BY <1>0
  <2> QED
    BY <1>1, <1>3, <2>1, <2>2 DEF Top
<1> QED
  BY <1>0, <1>1, <1>2, <1>3

\* The section the file is in after its last line
SectionOf(f) == IF Top(f, Len(f)) = 0 THEN None ELSE KeyOf(f[Top(f, Len(f))])

\* An indented line belongs to the section the file was in.
LEMMA Sections ==
  ASSUME NEW f, NEW l, NEW g, NEW n, Grown(f, l, g, n)
  PROVE  /\ SectionOf(g) = IF l.indent = 0 THEN KeyOf(l) ELSE SectionOf(f)
         /\ \A s : s # None =>
              /\ InSection(f, s) \in SUBSET (1..n)
              /\ InSection(g, s) = IF l.indent # 0 /\ SectionOf(f) = s
                                   THEN InSection(f, s) \cup {n + 1} ELSE InSection(f, s)
<1>0. /\ n \in Nat /\ n = Len(f) /\ Len(g) = n + 1 /\ g[n + 1] = l
      /\ \A i \in 1..n : g[i] = f[i]
  BY DEF Grown
<1>1. /\ \A i \in 0..n : Top(g, i) = Top(f, i) /\ Top(f, i) \in 0..i
      /\ Top(g, n + 1) = IF l.indent = 0 THEN n + 1 ELSE Top(f, n)
  BY Tops
<1>2. n \in 0..n /\ Top(f, n) \in 0..n
  BY <1>0, <1>1
<1>3. Top(f, n) # 0 => g[Top(f, n)] = f[Top(f, n)]
  BY <1>0, <1>2
<1>4. SectionOf(g) = IF l.indent = 0 THEN KeyOf(l) ELSE SectionOf(f)
  BY <1>0, <1>1, <1>3 DEF SectionOf
<1>5. ASSUME NEW s, s # None
      PROVE  /\ InSection(f, s) \in SUBSET (1..n)
             /\ InSection(g, s) = IF l.indent # 0 /\ SectionOf(f) = s
                                  THEN InSection(f, s) \cup {n + 1} ELSE InSection(f, s)
  <2>1. InSection(f, s) \in SUBSET (1..n)
    BY <1>0 DEF InSection
  <2>2. ASSUME NEW i \in 1..n PROVE i \in InSection(g, s) <=> i \in InSection(f, s)
    <3>1. i \in 0..n /\ i \in 1..(n + 1)
      BY <1>0
    <3>2. g[i] = f[i] /\ Top(g, i) = Top(f, i) /\ Top(f, i) \in 0..i
      BY <1>0, <1>1, <3>1
    <3>3. Top(f, i) # 0 => g[Top(f, i)] = f[Top(f, i)]
      <4>1. Top(f, i) # 0 => Top(f, i) \in 1..n
        BY <1>0, <3>2
      <4> QED
        BY <1>0, <4>1
    <3> QED
      BY <1>0, <3>1, <3>2, <3>3 DEF InSection
  <2>3. n + 1 \in InSection(g, s) <=> l.indent # 0 /\ SectionOf(f) = s
    <3>1. n + 1 \in 1..(n + 1)
      BY <1>0
    <3> QED
      BY <1>0, <1>1, <1>3, <1>5, <3>1 DEF InSection, SectionOf
  <2>4. InSection(g, s) \in SUBSET (1..(n + 1))
    BY <1>0 DEF InSection
  <2>5. n + 1 \notin InSection(f, s) /\ \A i \in 1..(n + 1) : i \in 1..n \/ i = n + 1
    BY <1>0, <2>1
  <2> QED
    BY <2>1, <2>2, <2>3, <2>4, <2>5
<1> QED
  BY <1>4, <1>5

\* What a line says that is the last of its kind, and what is said when another is added
LEMMA Values ==
  ASSUME NEW f, NEW l, NEW g, NEW n, Grown(f, l, g, n), NEW I \in SUBSET (1..n), NEW default
  PROVE  /\ ValueOf(g, I, default) = ValueOf(f, I, default)
         /\ ValueOf(g, I \cup {n + 1}, default) = l.value
<1>0. n \in Nat /\ g[n + 1] = l /\ \A i \in 1..n : g[i] = f[i]
  BY DEF Grown
<1>1. I # {} => Latest(I) \in 1..n
  BY <1>0, LatestIsLast
<1>2. Latest(I \cup {n + 1}) = n + 1
  BY <1>0, LatestOfMore
<1> QED
  BY <1>0, <1>1, <1>2 DEF ValueOf

Texts == {TextOf(l) : l \in Lines}

\* The items a set of lines lists
LEMMA ItemsOfMore ==
  ASSUME NEW f, NEW l, NEW g, NEW n, Grown(f, l, g, n), NEW I \in SUBSET (1..n)
  PROVE  /\ Items(f, I) \in Seq(Texts)
         /\ Items(g, I) = Items(f, I)
         /\ Items(g, I \cup {n + 1}) = Append(Items(f, I), TextOf(l))
<1>0. /\ n \in Nat /\ g[n + 1] = l /\ l \in Lines
      /\ \A i \in 1..n : g[i] = f[i] /\ f[i] \in Lines
  BY DEF Grown
<1>1. PICK c \in Nat : c = Cardinality(I)
  BY <1>0, LinesFinite
<1>2. \A k \in 1..c : Nth(I, k) \in 1..n
  BY <1>0, <1>1, NthIsThere
<1>3. Items(f, I) \in [1..c -> Texts] /\ Items(g, I) = Items(f, I)
  BY <1>0, <1>1, <1>2 DEF Items, Texts
<1>4. Items(f, I) \in Seq(Texts) /\ Len(Items(f, I)) = c
  BY <1>1, <1>3, SeqDef, LenProperties
<1>5. /\ Cardinality(I \cup {n + 1}) = c + 1 /\ Nth(I \cup {n + 1}, c + 1) = n + 1
      /\ \A k \in 1..c : Nth(I \cup {n + 1}, k) = Nth(I, k)
  BY <1>0, <1>1, NthOfMore
<1>6. Items(g, I \cup {n + 1}) = [k \in 1..(c + 1) |-> TextOf(g[Nth(I \cup {n + 1}, k)])]
  BY <1>5 DEF Items
<1>7. Append(Items(f, I), TextOf(l))
      = [k \in 1..(c + 1) |-> IF k = c + 1 THEN TextOf(l) ELSE Items(f, I)[k]]
  <2>1. TextOf(l) \in Texts
    BY <1>0 DEF Texts
  <2>2. PICK A : A = Append(Items(f, I), TextOf(l))
    OBVIOUS
  <2>3. /\ A \in Seq(Texts) /\ Len(A) = c + 1 /\ A[c + 1] = TextOf(l)
        /\ \A k \in 1..c : A[k] = Items(f, I)[k]
    BY <1>4, <2>1, <2>2, AppendProperties
  <2>4. A = [k \in 1..(c + 1) |-> A[k]]
    BY ONLY <2>3, LenProperties
  <2>5. \A k \in 1..(c + 1) : k = c + 1 \/ k \in 1..c
    BY <1>1
  <2>6. \A k \in 1..(c + 1) : A[k] = IF k = c + 1 THEN TextOf(l) ELSE Items(f, I)[k]
    BY ONLY <2>3, <2>5
  <2> QED
    BY ONLY <2>2, <2>4, <2>6
<1>8. ASSUME NEW k \in 1..(c + 1)
      PROVE  TextOf(g[Nth(I \cup {n + 1}, k)]) = IF k = c + 1 THEN TextOf(l) ELSE Items(f, I)[k]
  <2>1. CASE k = c + 1
    BY <1>0, <1>5, <2>1
  <2>2. CASE k # c + 1
    <3>1. k \in 1..c
      BY <1>1, <2>2
    <3> QED
      BY <1>0, <1>1, <1>2, <1>5, <2>2, <3>1 DEF Items
  <2> QED
    BY <2>1, <2>2
<1> QED
  BY <1>3, <1>4, <1>6, <1>7, <1>8

LEMMA SectionNames ==
  /\ "scan" # None /\ "detectors" # None /\ "rules" # None /\ "exclude" # None /\ "ignore" # None
  /\ "enable" # None /\ "disable" # None /\ "override" # None
BY DEF None

\* A scalar is what the last line for it says.
LEMMA ScalarOfMore ==
  ASSUME NEW f, NEW l, NEW g, NEW n, Grown(f, l, g, n), NEW s, s # None, NEW key, NEW default
  PROVE  Scalar(g, s, key, default) =
           IF l.indent # 0 /\ SectionOf(f) = s /\ KeyOf(l) = key
           THEN l.value ELSE Scalar(f, s, key, default)
<1> DEFINE A == {i \in InSection(f, s) : KeyOf(f[i]) = key}
           B == {i \in InSection(g, s) : KeyOf(g[i]) = key}
<1>0. n \in Nat /\ g[n + 1] = l /\ \A i \in 1..n : g[i] = f[i]
  BY DEF Grown
<1>1. /\ InSection(f, s) \in SUBSET (1..n)
      /\ InSection(g, s) = IF l.indent # 0 /\ SectionOf(f) = s
                           THEN InSection(f, s) \cup {n + 1} ELSE InSection(f, s)
  BY Sections
<1>2. A \in SUBSET (1..n)
  BY <1>1
<1>3. B = IF l.indent # 0 /\ SectionOf(f) = s /\ KeyOf(l) = key THEN A \cup {n + 1} ELSE A
  BY <1>0, <1>1
<1>4. /\ ValueOf(g, A, default) = ValueOf(f, A, default)
      /\ ValueOf(g, A \cup {n + 1}, default) = l.value
  <2> HIDE DEF A
  <2> QED
    BY <1>2, Values
<1>5. Scalar(f, s, key, default) = ValueOf(f, A, default)
      /\ Scalar(g, s, key, default) = ValueOf(g, B, default)
  BY DEF Scalar
<1> QED
  <2> HIDE DEF A, B
  <2> QED
    BY ONLY <1>3, <1>4, <1>5

\* The line of indentation 2 that the next one is under, and the list it begins
Heading(f)     == Latest({j \in Top(f, Len(f))..Len(f) : j > 0 /\ f[j].indent = 2})
HeadingName(f) == IF Heading(f) # 0 /\ f[Heading(f)].value = None
                  THEN KeyOf(f[Heading(f)]) ELSE None

\* What a line is under does not change when lines are added.
LEMMA Headings ==
  ASSUME NEW f, NEW l, NEW g, NEW n, Grown(f, l, g, n)
  PROVE  /\ \A i \in 1..n : Under(g, i, 2) = Under(f, i, 2) /\ Under(f, i, 2) \in 0..n
         /\ l.indent # 0 => Under(g, n + 1, 2) = Heading(f)
         /\ Heading(f) \in 0..n
         /\ HeadingName(g) = IF l.indent = 2 THEN (IF l.value = None THEN KeyOf(l) ELSE None)
                             ELSE IF l.indent = 0 THEN None ELSE HeadingName(f)
<1>0. /\ n \in Nat /\ n = Len(f) /\ Len(g) = n + 1 /\ g[n + 1] = l
      /\ \A i \in 1..n : g[i] = f[i]
  BY DEF Grown
<1>1. /\ \A i \in 0..n : Top(g, i) = Top(f, i) /\ Top(f, i) \in 0..i
      /\ Top(g, n + 1) = IF l.indent = 0 THEN n + 1 ELSE Top(f, n)
  BY Tops
<1>2. \A S \in SUBSET (1..n) : Latest(S) \in 0..n
  <2>1. ASSUME NEW S \in SUBSET (1..n) PROVE Latest(S) \in 0..n
    <3>1. CASE S = {}
      BY <1>0, <3>1, LatestOfNone
    <3>2. CASE S # {}
      <4>1. Latest(S) \in 1..n
        BY <1>0, <3>2, LatestIsLast
      <4> QED
        BY <1>0, <4>1
    <3> QED
      BY <3>1, <3>2
  <2> QED
    BY <2>1
<1>3. ASSUME NEW i \in 1..n
      PROVE  Under(g, i, 2) = Under(f, i, 2) /\ Under(f, i, 2) \in 0..n
  <2>1. i \in 0..n
    BY <1>0
  <2>2. Top(g, i) = Top(f, i) /\ Top(f, i) \in 0..i
    BY <1>1, <2>1
  <2>3. {j \in Top(g, i)..(i - 1) : j > 0 /\ g[j].indent = 2}
        = {j \in Top(f, i)..(i - 1) : j > 0 /\ f[j].indent = 2}
    <3>1. \A j \in Top(f, i)..(i - 1) : j > 0 => g[j] = f[j]
      BY <1>0, <2>2
    <3> QED
      BY <2>2, <3>1
  <2>4. {j \in Top(f, i)..(i - 1) : j > 0 /\ f[j].indent = 2} \in SUBSET (1..n)
    BY <1>0, <2>2
  <2> QED
    BY <1>2, <2>3, <2>4 DEF Under
<1> DEFINE H == {j \in Top(f, n)..n : j > 0 /\ f[j].indent = 2}
<1>4. n \in 0..n /\ Top(f, n) \in 0..n
  BY <1>0, <1>1
<1>5. H \in SUBSET (1..n) /\ Heading(f) = Latest(H) /\ Heading(f) \in 0..n
  <2>1. H \in SUBSET (1..n)
    BY <1>0, <1>4
  <2>2. Heading(f) = Latest(H)
    BY <1>0 DEF Heading
  <2> QED
    BY <1>2, <2>1, <2>2
<1>6. \A j \in H : j \in 1..n /\ g[j] = f[j]
  BY <1>0, <1>5
<1>7. ASSUME l.indent # 0 PROVE Under(g, n + 1, 2) = Heading(f)
  <2>1. (n + 1) - 1 = n /\ Top(g, n + 1) = Top(f, n)
    BY <1>0, <1>1, <1>7
  <2>2. {j \in Top(f, n)..n : j > 0 /\ g[j].indent = 2} = H
    <3>1. \A j \in Top(f, n)..n : j > 0 => g[j] = f[j]
      BY <1>0, <1>4
    <3> QED
      BY <3>1
  <2> QED
    BY <1>5, <2>1, <2>2 DEF Under
<1> DEFINE K == {j \in Top(g, n + 1)..(n + 1) : j > 0 /\ g[j].indent = 2}
<1>8. Heading(g) = Latest(K)
  BY <1>0 DEF Heading
<1>9. Heading(g) = IF l.indent = 2 THEN n + 1 ELSE IF l.indent = 0 THEN 0 ELSE Heading(f)
  <2>1. CASE l.indent = 0
    <3>1. K = {}
      <4>1. \A j \in (n + 1)..(n + 1) : j = n + 1
        BY <1>0
      <4>2. Top(g, n + 1) = n + 1 /\ g[n + 1].indent # 2
        BY <1>0, <1>1, <2>1
      <4> QED
        BY ONLY <4>1, <4>2
    <3>2. Heading(g) = 0
      <4> HIDE DEF K
      <4> QED
        BY <1>8, <3>1, LatestOfNone
    <3> QED
      BY ONLY <2>1, <3>2
  <2>2. CASE l.indent # 0
    <3>1. \A j \in Top(f, n)..(n + 1) : j \in Top(f, n)..n \/ j = n + 1
      BY <1>0, <1>4
    <3>2. \A j \in Top(f, n)..n : j \in Top(f, n)..(n + 1) /\ (j > 0 => g[j] = f[j])
      BY <1>0, <1>4
    <3>2a. n + 1 \in Top(f, n)..(n + 1) /\ n + 1 > 0
      BY <1>0, <1>4
    <3>3. K = IF l.indent = 2 THEN H \cup {n + 1} ELSE H
      BY <1>0, <1>1, <2>2, <3>1, <3>2, <3>2a
    <3>4. Latest(H \cup {n + 1}) = n + 1
      <4>1. /\ n + 1 \in Nat /\ H \cup {n + 1} \in SUBSET (1..(n + 1)) /\ n + 1 \in H \cup {n + 1}
            /\ \A j \in H \cup {n + 1} : j <= n + 1
        <5>1. \A j \in H : j \in 1..(n + 1) /\ j <= n + 1
          <6> HIDE DEF H
          <6> QED
            BY <1>0, <1>6
        <5> HIDE DEF H
        <5> QED
          BY ONLY <1>0, <5>1
      <4> QED
        BY ONLY <4>1, LatestIs
    <3> QED
      <4> HIDE DEF H, K
      <4> QED
        BY <1>5, <1>8, <2>2, <3>3, <3>4
  <2> QED
    BY <2>1, <2>2
<1>10. Heading(f) # 0 => g[Heading(f)] = f[Heading(f)]
  BY <1>0, <1>5
<1>11. HeadingName(g) = IF l.indent = 2 THEN (IF l.value = None THEN KeyOf(l) ELSE None)
                        ELSE IF l.indent = 0 THEN None ELSE HeadingName(f)
  <2> HIDE DEF H, K
  <2> QED
    BY <1>0, <1>9, <1>10 DEF HeadingName
<1> QED
  <2> HIDE DEF H, K
  <2> QED
    BY <1>3, <1>5, <1>7, <1>11

\* The items of a list, and the patterns that are excluded
LEMMA ListOfMore ==
  ASSUME NEW f, NEW l, NEW g, NEW n, Grown(f, l, g, n), NEW name, name # None
  PROVE  /\ Items(f, ListLines(f, name)) \in Seq(Texts)
         /\ Items(g, ListLines(g, name)) =
              IF /\ l.indent = 4 /\ l.item /\ SectionOf(f) = "detectors" /\ HeadingName(f) = name
              THEN Append(Items(f, ListLines(f, name)), TextOf(l))
              ELSE Items(f, ListLines(f, name))
<1>0. /\ n \in Nat /\ g[n + 1] = l /\ \A i \in 1..n : g[i] = f[i]
  BY DEF Grown
<1>1. /\ InSection(f, "detectors") \in SUBSET (1..n)
      /\ InSection(g, "detectors") = IF l.indent # 0 /\ SectionOf(f) = "detectors"
                           THEN InSection(f, "detectors") \cup {n + 1} ELSE InSection(f, "detectors")
  BY SectionNames, Sections
<1>2. /\ \A i \in 1..n : Under(g, i, 2) = Under(f, i, 2) /\ Under(f, i, 2) \in 0..n
      /\ l.indent # 0 => Under(g, n + 1, 2) = Heading(f)
      /\ Heading(f) \in 0..n
  BY Headings
<1>3. ListLines(f, name) \in SUBSET (1..n)
  BY <1>1 DEF ListLines
<1>4. ASSUME NEW i \in InSection(f, "detectors")
      PROVE  i \in ListLines(g, name) <=> i \in ListLines(f, name)
  <2>1. i \in 1..n /\ i \in InSection(g, "detectors")
    BY <1>1
  <2>2. g[i] = f[i] /\ Under(g, i, 2) = Under(f, i, 2)
        /\ (Under(f, i, 2) # 0 => g[Under(f, i, 2)] = f[Under(f, i, 2)])
    <3>1. Under(f, i, 2) # 0 => Under(f, i, 2) \in 1..n
      BY <1>0, <1>2, <2>1
    <3> QED
      BY <1>0, <1>2, <2>1, <3>1
  <2> QED
    BY <2>1, <2>2 DEF ListLines
<1>5. ListLines(g, name) = IF l.indent = 4 /\ l.item /\ SectionOf(f) = "detectors" /\ HeadingName(f) = name
                           THEN ListLines(f, name) \cup {n + 1} ELSE ListLines(f, name)
  <2>1. Heading(f) # 0 => g[Heading(f)] = f[Heading(f)]
    BY <1>0, <1>2
  <2>2. n + 1 \in ListLines(g, name)
        <=> n + 1 \in InSection(g, "detectors") /\ l.indent = 4 /\ l.item /\ HeadingName(f) = name
    <3>1. n + 1 \in InSection(g, "detectors") => l.indent # 0
      BY <1>0, <1>1
    <3> QED
      BY <1>0, <1>2, <2>1, <3>1 DEF ListLines, HeadingName
  <2>3. n + 1 \in InSection(g, "detectors") <=> l.indent # 0 /\ SectionOf(f) = "detectors"
    BY <1>0, <1>1
  <2>4. ListLines(g, name) \subseteq InSection(g, "detectors")
        /\ ListLines(f, name) \subseteq InSection(f, "detectors")
    BY DEF ListLines
  <2>5. l.indent = 4 => l.indent # 0
    OBVIOUS
  <2> QED
    BY <1>1, <1>4, <2>2, <2>3, <2>4, <2>5
<1>6. /\ Items(f, ListLines(f, name)) \in Seq(Texts)
      /\ Items(g, ListLines(f, name)) = Items(f, ListLines(f, name))
      /\ Items(g, ListLines(f, name) \cup {n + 1}) = Append(Items(f, ListLines(f, name)), TextOf(l))
  BY <1>3, ItemsOfMore
<1> QED
  BY ONLY <1>5, <1>6

LEMMA ExcludesOfMore ==
  ASSUME NEW f, NEW l, NEW g, NEW n, Grown(f, l, g, n)
  PROVE  /\ Items(f, ExcludeLines(f)) \in Seq(Texts)
         /\ Items(g, ExcludeLines(g)) =
              IF l.indent = 2 /\ l.item /\ SectionOf(f) = "exclude"
              THEN Append(Items(f, ExcludeLines(f)), TextOf(l)) ELSE Items(f, ExcludeLines(f))
<1>0. /\ n \in Nat /\ g[n + 1] = l /\ \A i \in 1..n : g[i] = f[i]
  BY DEF Grown
<1>1. /\ InSection(f, "exclude") \in SUBSET (1..n)
      /\ InSection(g, "exclude") = IF l.indent # 0 /\ SectionOf(f) = "exclude"
                           THEN InSection(f, "exclude") \cup {n + 1} ELSE InSection(f, "exclude")
  BY SectionNames, Sections
<1>2. ExcludeLines(f) \in SUBSET (1..n)
  BY <1>1 DEF ExcludeLines
<1>3. ExcludeLines(g) = IF l.indent = 2 /\ l.item /\ SectionOf(f) = "exclude"
                        THEN ExcludeLines(f) \cup {n + 1} ELSE ExcludeLines(f)
  BY <1>0, <1>1 DEF ExcludeLines
<1>4. /\ Items(f, ExcludeLines(f)) \in Seq(Texts)
      /\ Items(g, ExcludeLines(f)) = Items(f, ExcludeLines(f))
      /\ Items(g, ExcludeLines(f) \cup {n + 1}) = Append(Items(f, ExcludeLines(f)), TextOf(l))
  BY <1>2, ItemsOfMore
<1> QED
  BY ONLY <1>3, <1>4

\* The line l after the file f begins the override of a rule.
BeginsRule(f, l) ==
  SectionOf(f) = "rules" /\ l.indent = 4 /\ l.key # NoColon /\ l.value = None

RuleNames(f) == {KeyOf(f[i]) : i \in RuleLines(f)}

LEMMA RuleLinesOfMore ==
  ASSUME NEW f, NEW l, NEW g, NEW n, Grown(f, l, g, n)
  PROVE  /\ RuleLines(f) \in SUBSET (1..n)
         /\ RuleLines(g) = IF BeginsRule(f, l) THEN RuleLines(f) \cup {n + 1} ELSE RuleLines(f)
         /\ RuleNames(g) = IF BeginsRule(f, l) THEN RuleNames(f) \cup {KeyOf(l)} ELSE RuleNames(f)
<1>0. /\ n \in Nat /\ g[n + 1] = l /\ \A i \in 1..n : g[i] = f[i]
  BY DEF Grown
<1>1. /\ InSection(f, "rules") \in SUBSET (1..n)
      /\ InSection(g, "rules") = IF l.indent # 0 /\ SectionOf(f) = "rules"
                                 THEN InSection(f, "rules") \cup {n + 1} ELSE InSection(f, "rules")
  BY SectionNames, Sections
<1>2. RuleLines(f) \in SUBSET (1..n)
  BY <1>1 DEF RuleLines
<1>3. RuleLines(g) = IF BeginsRule(f, l) THEN RuleLines(f) \cup {n + 1} ELSE RuleLines(f)
  BY <1>0, <1>1 DEF RuleLines, BeginsRule
<1>4. \A i \in RuleLines(f) : g[i] = f[i]
  BY <1>0, <1>2
<1>5. CASE BeginsRule(f, l)
  <2>1. {KeyOf(g[i]) : i \in RuleLines(f) \cup {n + 1}}
        = {KeyOf(f[i]) : i \in RuleLines(f)} \cup {KeyOf(l)}
    BY ONLY <1>0, <1>4
  <2> QED
    BY <1>2, <1>3, <1>5, <2>1 DEF RuleNames
<1>6. CASE ~BeginsRule(f, l)
  <2>1. {KeyOf(g[i]) : i \in RuleLines(f)} = {KeyOf(f[i]) : i \in RuleLines(f)}
    BY ONLY <1>4
  <2> QED
    BY <1>2, <1>3, <1>6, <2>1 DEF RuleNames
<1> QED
  BY <1>5, <1>6

\* The last line that names the rule
Naming(f, r) == {i \in RuleLines(f) : KeyOf(f[i]) = r}

LEMMA NamingOfMore ==
  ASSUME NEW f, NEW l, NEW g, NEW n, Grown(f, l, g, n), NEW r
  PROVE  /\ Naming(f, r) \in SUBSET (1..n)
         /\ Naming(g, r) = IF BeginsRule(f, l) /\ KeyOf(l) = r THEN Naming(f, r) \cup {n + 1}
                           ELSE Naming(f, r)
         /\ r \in RuleNames(f) => Latest(Naming(f, r)) \in Naming(f, r)
         /\ BeginsRule(f, l) /\ KeyOf(l) = r => Latest(Naming(g, r)) = n + 1
<1>0. /\ n \in Nat /\ g[n + 1] = l /\ \A i \in 1..n : g[i] = f[i]
  BY DEF Grown
<1>1. /\ RuleLines(f) \in SUBSET (1..n)
      /\ RuleLines(g) = IF BeginsRule(f, l) THEN RuleLines(f) \cup {n + 1} ELSE RuleLines(f)
  BY RuleLinesOfMore
<1>2. Naming(f, r) \in SUBSET (1..n)
  BY <1>1 DEF Naming
<1>3. Naming(g, r) = IF BeginsRule(f, l) /\ KeyOf(l) = r THEN Naming(f, r) \cup {n + 1}
                     ELSE Naming(f, r)
  BY <1>0, <1>1 DEF Naming
<1>4. r \in RuleNames(f) => Naming(f, r) # {}
  BY DEF RuleNames, Naming
<1>5. Naming(f, r) # {} => Latest(Naming(f, r)) \in Naming(f, r)
  BY ONLY <1>0, <1>2, LatestIsLast
<1>6. Latest(Naming(f, r) \cup {n + 1}) = n + 1
  BY ONLY <1>0, <1>2, LatestOfMore
<1> QED
  BY ONLY <1>2, <1>3, <1>4, <1>5, <1>6

\* The lines of an override are those under the last line that names its rule.
LEMMA OverridingOfMore ==
  ASSUME NEW f, NEW l, NEW g, NEW n, Grown(f, l, g, n), NEW r, NEW key
  PROVE  /\ BeginsRule(f, l) /\ KeyOf(l) = r => Overriding(g, r, key) = {}
         /\ r \in RuleNames(f) /\ ~(BeginsRule(f, l) /\ KeyOf(l) = r) =>
              /\ Overriding(f, r, key) \in SUBSET (1..n)
              /\ Overriding(g, r, key) =
                   IF /\ SectionOf(f) = "rules" /\ l.indent = 6 /\ KeyOf(l) = key
                      /\ Top(f, n) = Top(f, Latest(Naming(f, r)))
                      /\ Latest(RuleLines(f)) = Latest(Naming(f, r))
                   THEN Overriding(f, r, key) \cup {n + 1} ELSE Overriding(f, r, key)
<1>0. /\ n \in Nat /\ g[n + 1] = l /\ \A i \in 1..n : g[i] = f[i]
  BY DEF Grown
<1>1. /\ InSection(f, "rules") \in SUBSET (1..n)
      /\ InSection(g, "rules") = IF l.indent # 0 /\ SectionOf(f) = "rules"
                                 THEN InSection(f, "rules") \cup {n + 1} ELSE InSection(f, "rules")
  BY SectionNames, Sections
<1>2. /\ RuleLines(f) \in SUBSET (1..n)
      /\ RuleLines(g) = IF BeginsRule(f, l) THEN RuleLines(f) \cup {n + 1} ELSE RuleLines(f)
  BY RuleLinesOfMore
<1>3. /\ \A i \in 0..n : Top(g, i) = Top(f, i) /\ Top(f, i) \in 0..i
      /\ Top(g, n + 1) = IF l.indent = 0 THEN n + 1 ELSE Top(f, n)
  BY Tops
<1>4. /\ Naming(f, r) \in SUBSET (1..n)
      /\ Naming(g, r) = IF BeginsRule(f, l) /\ KeyOf(l) = r THEN Naming(f, r) \cup {n + 1}
                        ELSE Naming(f, r)
      /\ r \in RuleNames(f) => Latest(Naming(f, r)) \in Naming(f, r)
      /\ BeginsRule(f, l) /\ KeyOf(l) = r => Latest(Naming(g, r)) = n + 1
  BY NamingOfMore
<1> DEFINE Above(h, i) == {j \in RuleLines(h) : j < i}
<1>5. \A h : Overriding(h, r, key) =
               {i \in InSection(h, "rules") :
                  /\ h[i].indent = 6 /\ KeyOf(h[i]) = key /\ Top(h, i) = Top(h, Latest(Naming(h, r)))
                  /\ Latest(Above(h, i)) = Latest(Naming(h, r))}
  BY DEF Overriding, Naming
<1>6. \A i \in 1..n : Above(g, i) = Above(f, i)
  BY <1>0, <1>2
<1>7. ~BeginsRule(f, l) => Above(g, n + 1) = RuleLines(f)
  BY <1>0, <1>2
<1>8. ASSUME BeginsRule(f, l), KeyOf(l) = r
      PROVE  Overriding(g, r, key) = {}
  <2>1. \A i \in 1..n : Latest(Above(g, i)) # n + 1
    <3>1. ASSUME NEW i \in 1..n PROVE Latest(Above(f, i)) # n + 1
      <4>1. Above(f, i) \in SUBSET (1..n)
        BY <1>2
      <4> HIDE DEF Above
      <4>2. CASE Above(f, i) # {}
        <5>1. Latest(Above(f, i)) \in 1..n
          BY ONLY <1>0, <4>1, <4>2, LatestIsLast
        <5> QED
          BY ONLY <1>0, <5>1
      <4>3. CASE Above(f, i) = {}
        <5>1. Latest(Above(f, i)) = 0
          BY ONLY <4>3, LatestOfNone
        <5> QED
          BY ONLY <1>0, <5>1
      <4> QED
        BY <4>2, <4>3
    <3> HIDE DEF Above
    <3> QED
      BY <1>6, <3>1
  <2>2. InSection(g, "rules") \subseteq 1..n \cup {n + 1} /\ l.indent = 4
    BY <1>1, <1>8 DEF BeginsRule
  <2>3. ASSUME NEW i \in Overriding(g, r, key) PROVE FALSE
    <3> HIDE DEF Above
    <3>1. i \in InSection(g, "rules") /\ g[i].indent = 6 /\ Latest(Above(g, i)) = n + 1
      BY <1>4, <1>5, <1>8, <2>3
    <3> QED
      BY <1>0, <2>1, <2>2, <3>1
  <2> QED
    BY <2>3
<1>9. ASSUME r \in RuleNames(f), ~(BeginsRule(f, l) /\ KeyOf(l) = r)
      PROVE  /\ Overriding(f, r, key) \in SUBSET (1..n)
             /\ Overriding(g, r, key) =
                   IF /\ SectionOf(f) = "rules" /\ l.indent = 6 /\ KeyOf(l) = key
                      /\ Top(f, n) = Top(f, Latest(Naming(f, r)))
                      /\ Latest(RuleLines(f)) = Latest(Naming(f, r))
                   THEN Overriding(f, r, key) \cup {n + 1} ELSE Overriding(f, r, key)
  <2> HIDE DEF Above
  <2>1. PICK last \in 1..n : last = Latest(Naming(f, r)) /\ last = Latest(Naming(g, r))
    BY <1>4, <1>9
  <2>2. last \in 0..n /\ n \in 0..n
    BY <1>0
  <2>3. Top(g, last) = Top(f, last)
    BY <1>3, <2>2
  <2>4. Overriding(f, r, key) \in SUBSET (1..n)
    BY <1>1, <1>5
  <2>5. ASSUME NEW i \in 1..n
        PROVE  i \in Overriding(g, r, key) <=> i \in Overriding(f, r, key)
    <3>1. i \in 0..n
      BY <1>0
    <3>2. g[i] = f[i] /\ Top(g, i) = Top(f, i) /\ Above(g, i) = Above(f, i)
      BY <1>0, <1>3, <1>6, <3>1
    <3>3. i \in InSection(g, "rules") <=> i \in InSection(f, "rules")
      BY <1>0, <1>1
    <3>4. \A h : i \in Overriding(h, r, key) <=>
                  /\ i \in InSection(h, "rules")
                  /\ h[i].indent = 6 /\ KeyOf(h[i]) = key
                  /\ Top(h, i) = Top(h, Latest(Naming(h, r)))
                  /\ Latest(Above(h, i)) = Latest(Naming(h, r))
      BY ONLY <1>5
    <3> QED
      BY ONLY <2>1, <2>3, <3>2, <3>3, <3>4
  <2>6. n + 1 \in Overriding(g, r, key)
        <=> /\ SectionOf(f) = "rules" /\ l.indent = 6 /\ KeyOf(l) = key
            /\ Top(f, n) = Top(f, last) /\ Latest(RuleLines(f)) = last
    <3>1. n + 1 \in InSection(g, "rules") <=> l.indent # 0 /\ SectionOf(f) = "rules"
      BY <1>0, <1>1
    <3>2. l.indent = 6 => l.indent # 0 /\ ~BeginsRule(f, l)
      BY DEF BeginsRule
    <3>3. l.indent = 6 => Top(g, n + 1) = Top(f, n) /\ Above(g, n + 1) = RuleLines(f)
      BY <1>3, <1>7, <3>2
    <3> QED
      BY <1>0, <1>5, <2>1, <2>3, <3>1, <3>2, <3>3
  <2>7. Overriding(g, r, key) \subseteq 1..n \cup {n + 1} /\ n + 1 \notin 1..n
    <3>1. InSection(g, "rules") \subseteq 1..n \cup {n + 1}
      BY <1>1
    <3>2. Overriding(g, r, key) \subseteq InSection(g, "rules")
      BY <1>5
    <3> QED
      BY <1>0, <3>1, <3>2
  <2> QED
    BY ONLY <2>1, <2>4, <2>5, <2>6, <2>7
<1> QED
  BY <1>8, <1>9

\* What is said of a rule when a line is added: nothing when it is named anew,
\* what the line says when it is one of the override's, else what was said.
LEMMA OverrideOfMore ==
  ASSUME NEW f, NEW l, NEW g, NEW n, Grown(f, l, g, n), NEW r
  PROVE  /\ BeginsRule(f, l) /\ KeyOf(l) = r => OverrideOf(g, r) = NoOverride
         /\ r \in RuleNames(f) /\ ~(BeginsRule(f, l) /\ KeyOf(l) = r) =>
              OverrideOf(g, r) =
                IF /\ SectionOf(f) = "rules" /\ l.indent = 6
                   /\ Top(f, n) = Top(f, Latest(Naming(f, r)))
                   /\ Latest(RuleLines(f)) = Latest(Naming(f, r))
                THEN [severity   |-> IF KeyOf(l) = "severity" THEN l.value ELSE OverrideOf(f, r).severity,
                      confidence |-> IF KeyOf(l) = "confidence" THEN l.value
                                     ELSE OverrideOf(f, r).confidence]
                ELSE OverrideOf(f, r)
<1>1. ASSUME BeginsRule(f, l), KeyOf(l) = r
      PROVE  OverrideOf(g, r) = NoOverride
  <2>1. Overriding(g, r, "severity") = {} /\ Overriding(g, r, "confidence") = {}
    BY <1>1, OverridingOfMore
  <2> QED
    BY <2>1 DEF OverrideOf, ValueOf, NoOverride
<1>2. ASSUME r \in RuleNames(f), ~(BeginsRule(f, l) /\ KeyOf(l) = r)
      PROVE  OverrideOf(g, r) =
                IF /\ SectionOf(f) = "rules" /\ l.indent = 6
                   /\ Top(f, n) = Top(f, Latest(Naming(f, r)))
                   /\ Latest(RuleLines(f)) = Latest(Naming(f, r))
                THEN [severity   |-> IF KeyOf(l) = "severity" THEN l.value ELSE OverrideOf(f, r).severity,
                      confidence |-> IF KeyOf(l) = "confidence" THEN l.value
                                     ELSE OverrideOf(f, r).confidence]
                ELSE OverrideOf(f, r)
  <2> DEFINE Under6 == /\ SectionOf(f) = "rules" /\ l.indent = 6
                       /\ Top(f, n) = Top(f, Latest(Naming(f, r)))
                       /\ Latest(RuleLines(f)) = Latest(Naming(f, r))
  <2>1. ASSUME NEW key
        PROVE  ValueOf(g, Overriding(g, r, key), None)
               = IF Under6 /\ KeyOf(l) = key THEN l.value ELSE ValueOf(f, Overriding(f, r, key), None)
    <3>1. /\ Overriding(f, r, key) \in SUBSET (1..n)
          /\ Overriding(g, r, key) = IF Under6 /\ KeyOf(l) = key
                                     THEN Overriding(f, r, key) \cup {n + 1} ELSE Overriding(f, r, key)
      BY <1>2, OverridingOfMore
    <3>2. /\ ValueOf(g, Overriding(f, r, key), None) = ValueOf(f, Overriding(f, r, key), None)
          /\ ValueOf(g, Overriding(f, r, key) \cup {n + 1}, None) = l.value
      BY <3>1, Values
    <3> HIDE DEF Under6
    <3> QED
      BY ONLY <3>1, <3>2
  <2> HIDE DEF Under6
  <2>2. OverrideOf(g, r) = IF Under6
          THEN [severity   |-> IF KeyOf(l) = "severity" THEN l.value ELSE OverrideOf(f, r).severity,
                confidence |-> IF KeyOf(l) = "confidence" THEN l.value ELSE OverrideOf(f, r).confidence]
          ELSE OverrideOf(f, r)
    BY <2>1 DEF OverrideOf
  <2> QED
    BY <2>2 DEF Under6
<1> QED
  BY <1>1, <1>2

\* The line l after the file f begins an entry of the ignore list.
BeginsEntry(f, l) == SectionOf(f) = "ignore" /\ l.indent = 2 /\ l.item

LEMMA EntriesOfMore ==
  ASSUME NEW f, NEW l, NEW g, NEW n, Grown(f, l, g, n)
  PROVE  /\ Entries(f) \in SUBSET (1..n)
         /\ Entries(g) = IF BeginsEntry(f, l) THEN Entries(f) \cup {n + 1} ELSE Entries(f)
<1>0. /\ n \in Nat /\ g[n + 1] = l /\ \A i \in 1..n : g[i] = f[i]
  BY DEF Grown
<1>1. /\ InSection(f, "ignore") \in SUBSET (1..n)
      /\ InSection(g, "ignore") = IF l.indent # 0 /\ SectionOf(f) = "ignore"
                                  THEN InSection(f, "ignore") \cup {n + 1} ELSE InSection(f, "ignore")
  BY SectionNames, Sections
<1>2. Entries(f) \in SUBSET (1..n)
  BY <1>1 DEF Entries
<1>3. Entries(g) = IF BeginsEntry(f, l) THEN Entries(f) \cup {n + 1} ELSE Entries(f)
  BY <1>0, <1>1 DEF Entries, BeginsEntry
<1> QED
  BY <1>2, <1>3

\* The next line describes the entry e.
Describes(f, l, n, e) ==
  /\ SectionOf(f) = "ignore" /\ l.indent = 4
  /\ Top(f, n) = Top(f, e) /\ Latest(Entries(f)) = e

\* An entry is described by its own line and by those under it, to the next entry.
LEMMA DescribingOfMore ==
  ASSUME NEW f, NEW l, NEW g, NEW n, Grown(f, l, g, n), NEW key, NEW e
  PROVE  /\ BeginsEntry(f, l) => Describing(g, n + 1, key) = {i \in {n + 1} : l.key = key}
         /\ e \in Entries(f) =>
              /\ Describing(f, e, key) \in SUBSET (1..n)
              /\ Describing(g, e, key) =
                   IF Describes(f, l, n, e) /\ KeyOf(l) = key
                   THEN Describing(f, e, key) \cup {n + 1} ELSE Describing(f, e, key)
<1>0. /\ n \in Nat /\ g[n + 1] = l /\ \A i \in 1..n : g[i] = f[i]
  BY DEF Grown
<1>1. /\ InSection(f, "ignore") \in SUBSET (1..n)
      /\ InSection(g, "ignore") = IF l.indent # 0 /\ SectionOf(f) = "ignore"
                                  THEN InSection(f, "ignore") \cup {n + 1} ELSE InSection(f, "ignore")
  BY SectionNames, Sections
<1>2. /\ Entries(f) \in SUBSET (1..n)
      /\ Entries(g) = IF BeginsEntry(f, l) THEN Entries(f) \cup {n + 1} ELSE Entries(f)
  BY EntriesOfMore
<1>3. /\ \A i \in 0..n : Top(g, i) = Top(f, i) /\ Top(f, i) \in 0..i
      /\ Top(g, n + 1) = IF l.indent = 0 THEN n + 1 ELSE Top(f, n)
  BY Tops
<1> DEFINE Before(h, i) == {j \in Entries(h) : j < i}
<1>4. \A h, d, i : i \in Describing(h, d, key) <=>
        /\ i \in InSection(h, "ignore")
        /\ \/ i = d /\ h[i].key = key
           \/ /\ h[i].indent = 4 /\ KeyOf(h[i]) = key /\ Top(h, i) = Top(h, d)
              /\ Latest(Before(h, i)) = d
  BY DEF Describing
<1>5. \A i \in 1..n : Before(g, i) = Before(f, i)
  BY <1>0, <1>2
<1>6. ~BeginsEntry(f, l) => Before(g, n + 1) = Entries(f)
  BY <1>0, <1>2
<1>7. ASSUME NEW i \in 1..n PROVE Latest(Before(g, i)) # n + 1
  <2>1. Before(f, i) \in SUBSET (1..n)
    BY <1>2
  <2>2. Before(g, i) = Before(f, i)
    BY <1>5
  <2> HIDE DEF Before
  <2>3. CASE Before(f, i) # {}
    <3>1. Latest(Before(f, i)) \in 1..n
      BY ONLY <1>0, <2>1, <2>3, LatestIsLast
    <3> QED
      BY ONLY <1>0, <2>2, <3>1
  <2>4. CASE Before(f, i) = {}
    <3>1. Latest(Before(f, i)) = 0
      BY ONLY <2>4, LatestOfNone
    <3> QED
      BY ONLY <1>0, <2>2, <3>1
  <2> QED
    BY <2>3, <2>4
<1> HIDE DEF Before
<1>8. ASSUME BeginsEntry(f, l)
      PROVE  Describing(g, n + 1, key) = {i \in {n + 1} : l.key = key}
  <2>1. l.indent = 2 /\ SectionOf(f) = "ignore"
    BY <1>8 DEF BeginsEntry
  <2>2. /\ n + 1 \in InSection(g, "ignore")
        /\ \A i \in InSection(g, "ignore") : i \in 1..n \/ i = n + 1
    BY <1>1, <2>1
  <2>3. n + 1 \in Describing(g, n + 1, key) <=> l.key = key
    BY <1>0, <1>4, <2>1, <2>2
  <2>4. ASSUME NEW i \in Describing(g, n + 1, key) PROVE i = n + 1
    <3>1. /\ i \in InSection(g, "ignore")
          /\ i = n + 1 \/ Latest(Before(g, i)) = n + 1
      BY <1>4
    <3> QED
      BY <1>7, <2>2, <3>1
  <2> QED
    BY <2>3, <2>4
<1>9. ASSUME e \in Entries(f)
      PROVE  /\ Describing(f, e, key) \in SUBSET (1..n)
             /\ Describing(g, e, key) =
                   IF Describes(f, l, n, e) /\ KeyOf(l) = key
                   THEN Describing(f, e, key) \cup {n + 1} ELSE Describing(f, e, key)
  <2>1. e \in 1..n /\ e # n + 1 /\ e \in 0..n /\ n \in 0..n
    BY <1>0, <1>2, <1>9
  <2>2. Top(g, e) = Top(f, e)
    BY <1>3, <2>1
  <2>3. Describing(f, e, key) \in SUBSET (1..n)
    BY <1>1, <1>4
  <2>4. ASSUME NEW i \in 1..n
        PROVE  i \in Describing(g, e, key) <=> i \in Describing(f, e, key)
    <3>1. i \in 0..n
      BY <1>0
    <3>2. g[i] = f[i] /\ Top(g, i) = Top(f, i) /\ Before(g, i) = Before(f, i)
      BY <1>0, <1>3, <1>5, <3>1
    <3>3. i \in InSection(g, "ignore") <=> i \in InSection(f, "ignore")
      BY <1>0, <1>1
    <3> QED
      BY ONLY <1>4, <2>2, <3>2, <3>3
  <2>5. n + 1 \in Describing(g, e, key) <=> Describes(f, l, n, e) /\ KeyOf(l) = key
    <3>1. n + 1 \in InSection(g, "ignore") <=> l.indent # 0 /\ SectionOf(f) = "ignore"
      BY <1>0, <1>1
    <3>2. l.indent = 4 => l.indent # 0 /\ ~BeginsEntry(f, l)
      BY DEF BeginsEntry
    <3>3. l.indent = 4 => Top(g, n + 1) = Top(f, n) /\ Before(g, n + 1) = Entries(f)
      BY <1>3, <1>6, <3>2
    <3>4. n + 1 \in Describing(g, e, key) <=>
            /\ n + 1 \in InSection(g, "ignore")
            /\ l.indent = 4 /\ KeyOf(l) = key /\ Top(g, n + 1) = Top(f, e)
            /\ Latest(Before(g, n + 1)) = e
      BY ONLY <1>0, <1>4, <2>1, <2>2
    <3> QED
      BY ONLY <3>1, <3>2, <3>3, <3>4 DEF Describes
  <2>6. \A i \in Describing(g, e, key) : i \in 1..n \/ i = n + 1
    <3>1. \A i \in InSection(g, "ignore") : i \in 1..n \/ i = n + 1
      BY <1>1
    <3> QED
      BY ONLY <1>4, <3>1
  <2>7. n + 1 \notin Describing(f, e, key)
    BY <1>0, <2>3
  <2> QED
    BY ONLY <2>3, <2>4, <2>5, <2>6, <2>7
<1> QED
  BY <1>8, <1>9

NoEntry == [rule |-> None, file |-> None]

\* The line, the dash it may have in its key
Dashed(l) == [l EXCEPT !.key = KeyOf(l)]

\* What is said of an entry when a line is added
LEMMA EntryOfMore ==
  ASSUME NEW f, NEW l, NEW g, NEW n, Grown(f, l, g, n), NEW e
  PROVE  /\ BeginsEntry(f, l) => EntryOf(g, n + 1) = WithIgnore(NoEntry, l)
         /\ e \in Entries(f) =>
              EntryOf(g, e) = IF Describes(f, l, n, e)
                              THEN WithIgnore(EntryOf(f, e), Dashed(l))
                              ELSE EntryOf(f, e)
<1>0. n \in Nat /\ g[n + 1] = l /\ l \in Lines
  BY DEF Grown
<1>1. ASSUME BeginsEntry(f, l)
      PROVE  EntryOf(g, n + 1) = WithIgnore(NoEntry, l)
  <2>1. ASSUME NEW key
        PROVE  ValueOf(g, Describing(g, n + 1, key), None) = IF l.key = key THEN l.value ELSE None
    <3>1. Describing(g, n + 1, key) = {i \in {n + 1} : l.key = key}
      BY <1>1, DescribingOfMore
    <3>2. ValueOf(g, {} \cup {n + 1}, None) = l.value
      <4>1. PICK I \in SUBSET (1..n) : I = {}
        OBVIOUS
      <4>2. ValueOf(g, I \cup {n + 1}, None) = l.value
        BY Values
      <4> QED
        BY ONLY <4>1, <4>2
    <3>3. {} \cup {n + 1} = {n + 1} /\ ValueOf(g, {}, None) = None
      BY DEF ValueOf
    <3> QED
      BY ONLY <3>1, <3>2, <3>3
  <2>2. EntryOf(g, n + 1) = [rule |-> IF l.key = "rule" THEN l.value ELSE None,
                             file |-> IF l.key = "file" THEN l.value ELSE None]
    BY <2>1 DEF EntryOf
  <2> QED
    BY ONLY <2>2 DEF WithIgnore, NoEntry
<1>2. ASSUME e \in Entries(f)
      PROVE  EntryOf(g, e) = IF Describes(f, l, n, e)
                             THEN WithIgnore(EntryOf(f, e), Dashed(l))
                             ELSE EntryOf(f, e)
  <2>1. ASSUME NEW key
        PROVE  ValueOf(g, Describing(g, e, key), None)
               = IF Describes(f, l, n, e) /\ KeyOf(l) = key THEN l.value
                 ELSE ValueOf(f, Describing(f, e, key), None)
    <3>1. /\ Describing(f, e, key) \in SUBSET (1..n)
          /\ Describing(g, e, key) = IF Describes(f, l, n, e) /\ KeyOf(l) = key
                                     THEN Describing(f, e, key) \cup {n + 1} ELSE Describing(f, e, key)
      BY <1>2, DescribingOfMore
    <3>2. /\ ValueOf(g, Describing(f, e, key), None) = ValueOf(f, Describing(f, e, key), None)
          /\ ValueOf(g, Describing(f, e, key) \cup {n + 1}, None) = l.value
      BY <3>1, Values
    <3> QED
      BY ONLY <3>1, <3>2
  <2>2. EntryOf(g, e) =
          IF Describes(f, l, n, e)
          THEN [rule |-> IF KeyOf(l) = "rule" THEN l.value ELSE EntryOf(f, e).rule,
                file |-> IF KeyOf(l) = "file" THEN l.value ELSE EntryOf(f, e).file]
          ELSE EntryOf(f, e)
    BY <2>1 DEF EntryOf
  <2>3. Dashed(l).key = KeyOf(l) /\ Dashed(l).value = l.value
    BY <1>0, LinesAssumption DEF Dashed
  <2>4. PICK k : k = KeyOf(l)
    OBVIOUS
  <2>5. PICK v : v = Dashed(l)
    OBVIOUS
  <2>6. WithIgnore(EntryOf(f, e), v)
          = [rule |-> IF k = "rule" THEN l.value ELSE EntryOf(f, e).rule,
             file |-> IF k = "file" THEN l.value ELSE EntryOf(f, e).file]
    <3>1. v.key = k /\ v.value = l.value
      BY <2>3, <2>4, <2>5
    <3> QED
      BY ONLY <3>1 DEF WithIgnore, EntryOf
  <2> QED
    BY ONLY <2>2, <2>4, <2>5, <2>6
<1> QED
  BY <1>1, <1>2

EntryList(f) == [k \in 1..Cardinality(Entries(f)) |-> EntryOf(f, Nth(Entries(f), k))]

\* The ignore list when a line is added: one entry more, or the last one with one
\* more value, or as it was
LEMMA EntryListOfMore ==
  ASSUME NEW f, NEW l, NEW g, NEW n, Grown(f, l, g, n)
  PROVE  /\ Cardinality(Entries(f)) \in Nat
         /\ Entries(f) # {} <=> Cardinality(Entries(f)) # 0
         /\ BeginsEntry(f, l) =>
              EntryList(g) = [k \in 1..(Cardinality(Entries(f)) + 1) |->
                                IF k = Cardinality(Entries(f)) + 1 THEN WithIgnore(NoEntry, l)
                                ELSE EntryList(f)[k]]
         /\ ~BeginsEntry(f, l) =>
              EntryList(g) = [k \in 1..Cardinality(Entries(f)) |->
                                IF /\ k = Cardinality(Entries(f))
                                   /\ Describes(f, l, n, Latest(Entries(f)))
                                THEN WithIgnore(EntryList(f)[k], Dashed(l))
                                ELSE EntryList(f)[k]]
<1>0. n \in Nat
  BY DEF Grown
<1>1. /\ Entries(f) \in SUBSET (1..n)
      /\ Entries(g) = IF BeginsEntry(f, l) THEN Entries(f) \cup {n + 1} ELSE Entries(f)
  BY EntriesOfMore
<1>2. PICK c \in Nat : c = Cardinality(Entries(f)) /\ IsFiniteSet(Entries(f))
  BY <1>0, <1>1, LinesFinite
<1>3. Entries(f) # {} <=> c # 0
  BY <1>2, FS_EmptySet
<1>4. \A k \in 1..c : Nth(Entries(f), k) \in Entries(f)
  BY <1>0, <1>1, <1>2, NthIsThere
<1>5. \A k \in 1..c : EntryList(f)[k] = EntryOf(f, Nth(Entries(f), k))
  BY <1>2 DEF EntryList
<1>5a. /\ BeginsEntry(f, l) => EntryOf(g, n + 1) = WithIgnore(NoEntry, l)
       /\ \A e \in Entries(f) :
            EntryOf(g, e) = IF Describes(f, l, n, e)
                            THEN WithIgnore(EntryOf(f, e), Dashed(l))
                            ELSE EntryOf(f, e)
  <2>1. \A e : BeginsEntry(f, l) => EntryOf(g, n + 1) = WithIgnore(NoEntry, l)
    BY EntryOfMore
  <2>2. ASSUME NEW e \in Entries(f)
        PROVE  EntryOf(g, e) = IF Describes(f, l, n, e)
                               THEN WithIgnore(EntryOf(f, e), Dashed(l))
                               ELSE EntryOf(f, e)
    BY EntryOfMore
  <2> QED
    BY <2>1, <2>2
<1>6. ASSUME BeginsEntry(f, l)
      PROVE  EntryList(g) = [k \in 1..(c + 1) |->
                                IF k = c + 1 THEN WithIgnore(NoEntry, l) ELSE EntryList(f)[k]]
  <2>1. /\ Cardinality(Entries(g)) = c + 1 /\ Nth(Entries(g), c + 1) = n + 1
        /\ \A k \in 1..c : Nth(Entries(g), k) = Nth(Entries(f), k)
    <3>1. PICK I \in SUBSET (1..n) : I = Entries(f)
      BY <1>1
    <3>2. Entries(g) = I \cup {n + 1}
      BY <1>1, <1>6, <3>1
    <3>3. /\ Cardinality(I \cup {n + 1}) = Cardinality(I) + 1
          /\ Nth(I \cup {n + 1}, Cardinality(I) + 1) = n + 1
          /\ \A k \in 1..Cardinality(I) : Nth(I \cup {n + 1}, k) = Nth(I, k)
      BY <1>0, NthOfMore
    <3> QED
      BY ONLY <1>2, <3>1, <3>2, <3>3
  <2>2. EntryOf(g, n + 1) = WithIgnore(NoEntry, l)
    BY ONLY <1>5a, <1>6
  <2>3. \A e \in Entries(f) : EntryOf(g, e) = EntryOf(f, e)
    <3>1. \A e \in Entries(f) : ~Describes(f, l, n, e)
      BY <1>6 DEF BeginsEntry, Describes
    <3> QED
      BY ONLY <1>5a, <3>1
  <2>4. EntryList(g) = [k \in 1..(c + 1) |-> EntryOf(g, Nth(Entries(g), k))]
    BY <2>1 DEF EntryList
  <2>5. ASSUME NEW k \in 1..(c + 1)
        PROVE  EntryOf(g, Nth(Entries(g), k)) = IF k = c + 1 THEN WithIgnore(NoEntry, l)
                                                ELSE EntryList(f)[k]
    <3>1. CASE k = c + 1
      BY <2>1, <2>2, <3>1
    <3>2. CASE k # c + 1
      <4>1. k \in 1..c
        BY <1>2, <3>2
      <4> QED
        BY ONLY <1>4, <1>5, <2>1, <2>3, <3>2, <4>1
    <3> QED
      BY <3>1, <3>2
  <2> QED
    BY ONLY <2>4, <2>5
<1>7. ASSUME ~BeginsEntry(f, l)
      PROVE  EntryList(g) = [k \in 1..c |->
                                IF k = c /\ Describes(f, l, n, Latest(Entries(f)))
                                THEN WithIgnore(EntryList(f)[k], Dashed(l))
                                ELSE EntryList(f)[k]]
  <2>1. EntryList(g) = [k \in 1..c |-> EntryOf(g, Nth(Entries(f), k))]
    BY <1>1, <1>2, <1>7 DEF EntryList
  <2>2. ASSUME NEW k \in 1..c
        PROVE  EntryOf(g, Nth(Entries(f), k)) =
                 IF k = c /\ Describes(f, l, n, Latest(Entries(f)))
                 THEN WithIgnore(EntryList(f)[k], Dashed(l))
                 ELSE EntryList(f)[k]
    <3>1. PICK e \in Entries(f) : e = Nth(Entries(f), k)
      BY <1>4
    <3>2. e = Latest(Entries(f)) <=> k = c
      BY <1>0, <1>1, <1>2, <3>1, NthIsLast
    <3>3. EntryOf(g, e) = IF Describes(f, l, n, e)
                          THEN WithIgnore(EntryOf(f, e), Dashed(l))
                          ELSE EntryOf(f, e)
      BY ONLY <1>5a, <3>1
    <3>4. Describes(f, l, n, e) <=> k = c /\ Describes(f, l, n, Latest(Entries(f)))
      BY <3>2 DEF Describes
    <3>5. EntryList(f)[k] = EntryOf(f, e)
      BY <1>5, <3>1
    <3> QED
      BY ONLY <3>1, <3>3, <3>4, <3>5
  <2> QED
    BY ONLY <2>1, <2>2
<1> QED
  BY <1>2, <1>3, <1>6, <1>7

(***************************************************************************)
(* The parser: its variables are where the lines read so far leave it.     *)
(***************************************************************************)

\* In the section rules, an override that is open is that of the last rule named.
OverrideOpen(f, rule) ==
  /\ Latest(RuleLines(f)) \in RuleLines(f)
  /\ Top(f, Latest(RuleLines(f))) = Top(f, Len(f))
  /\ rule = KeyOf(f[Latest(RuleLines(f))])

\* In the section ignore, an entry is open if the section has one.
EntryOpen(f, open) ==
  IF open THEN Entries(f) # {} /\ Top(f, Latest(Entries(f))) = Top(f, Len(f))
  ELSE \A e \in Entries(f) : Top(f, e) # Top(f, Len(f))

CfgIsRecord ==
  cfg = [severity |-> cfg.severity, failOn |-> cfg.failOn, workers |-> cfg.workers,
         format |-> cfg.format, enable |-> cfg.enable, disable |-> cfg.disable,
         overrides |-> cfg.overrides, exclude |-> cfg.exclude, ignore |-> cfg.ignore]

LinesMeant ==
  /\ cfg.severity = Scalar(read, "scan", "severity", "low")
  /\ cfg.failOn   = Scalar(read, "scan", "fail_on", "medium")
  /\ cfg.enable   = Items(read, ListLines(read, "enable"))
  /\ cfg.disable  = Items(read, ListLines(read, "disable"))
  /\ cfg.exclude  = Items(read, ExcludeLines(read))
  /\ DOMAIN cfg.overrides = RuleNames(read)
  /\ \A r \in RuleNames(read) : cfg.overrides[r] = OverrideOf(read, r)
  /\ cfg.ignore   = EntryList(read)

ParserPlaced ==
  /\ section = SectionOf(read)
  /\ section = "detectors" => subsection = HeadingName(read)
  /\ section = "rules" /\ override # None => OverrideOpen(read, override)
  /\ section = "ignore" => EntryOpen(read, ignoring)

LinesInv == read \in Seq(Lines) /\ LinesMeant /\ ParserPlaced

\* What a further line says, in the sections of scalars and lists
LEMMA ListsNext ==
  ASSUME LinesInv, NEW l \in Lines, NEW g, g = Append(read, l)
  PROVE  /\ SectionOf(g) = IF l.indent = 0 THEN KeyOf(l) ELSE section
         /\ Scalar(g, "scan", "severity", "low") =
              IF l.indent # 0 /\ section = "scan" /\ KeyOf(l) = "severity" THEN l.value ELSE cfg.severity
         /\ Scalar(g, "scan", "fail_on", "medium") =
              IF l.indent # 0 /\ section = "scan" /\ KeyOf(l) = "fail_on" THEN l.value ELSE cfg.failOn
         /\ Items(g, ListLines(g, "enable")) =
              IF l.indent = 4 /\ l.item /\ section = "detectors" /\ subsection = "enable"
              THEN Append(cfg.enable, TextOf(l)) ELSE cfg.enable
         /\ Items(g, ListLines(g, "disable")) =
              IF l.indent = 4 /\ l.item /\ section = "detectors" /\ subsection = "disable"
              THEN Append(cfg.disable, TextOf(l)) ELSE cfg.disable
         /\ Items(g, ExcludeLines(g)) =
              IF l.indent = 2 /\ l.item /\ section = "exclude"
              THEN Append(cfg.exclude, TextOf(l)) ELSE cfg.exclude
         /\ HeadingName(g) = IF l.indent = 2 THEN (IF l.value = None THEN KeyOf(l) ELSE None)
                             ELSE IF l.indent = 0 THEN None ELSE HeadingName(read)
<1>1. PICK n : Grown(read, l, g, n)
  BY GrownByOne DEF LinesInv
<1>2. section = SectionOf(read) /\ (section = "detectors" => subsection = HeadingName(read))
  BY DEF LinesInv, ParserPlaced
<1>3. SectionOf(g) = IF l.indent = 0 THEN KeyOf(l) ELSE section
  BY <1>1, <1>2, Sections
<1>4. \A key, default : Scalar(g, "scan", key, default) =
        IF l.indent # 0 /\ section = "scan" /\ KeyOf(l) = key THEN l.value
        ELSE Scalar(read, "scan", key, default)
  BY <1>1, <1>2, SectionNames, ScalarOfMore
<1>5. \A name : name # None =>
        Items(g, ListLines(g, name)) =
              IF l.indent = 4 /\ l.item /\ section = "detectors" /\ subsection = name
              THEN Append(Items(read, ListLines(read, name)), TextOf(l))
              ELSE Items(read, ListLines(read, name))
  <2> SUFFICES ASSUME NEW name, name # None
      PROVE Items(g, ListLines(g, name)) =
              IF l.indent = 4 /\ l.item /\ section = "detectors" /\ subsection = name
              THEN Append(Items(read, ListLines(read, name)), TextOf(l))
              ELSE Items(read, ListLines(read, name))
    OBVIOUS
  <2>1. Items(g, ListLines(g, name)) =
              IF /\ l.indent = 4 /\ l.item /\ SectionOf(read) = "detectors" /\ HeadingName(read) = name
              THEN Append(Items(read, ListLines(read, name)), TextOf(l))
              ELSE Items(read, ListLines(read, name))
    BY <1>1, ListOfMore
  <2> QED
    BY ONLY <1>2, <2>1
<1>6. Items(g, ExcludeLines(g)) =
              IF l.indent = 2 /\ l.item /\ section = "exclude"
              THEN Append(Items(read, ExcludeLines(read)), TextOf(l)) ELSE Items(read, ExcludeLines(read))
  BY <1>1, <1>2, ExcludesOfMore
<1>7. HeadingName(g) = IF l.indent = 2 THEN (IF l.value = None THEN KeyOf(l) ELSE None)
                       ELSE IF l.indent = 0 THEN None ELSE HeadingName(read)
  BY <1>1, Headings
<1>8. LinesMeant
  BY DEF LinesInv
<1> QED
  BY ONLY <1>3, <1>4, <1>5, <1>6, <1>7, <1>8, SectionNames DEF LinesMeant

\* ... in the section rules, where a line of an override needs one that is open
LEMMA RulesNext ==
  ASSUME LinesInv, NEW l \in Lines, NEW g, g = Append(read, l),
         section = "rules" /\ l.indent = 6 => override # None
  PROVE  /\ BeginsRule(read, l)
              <=> section = "rules" /\ l.indent = 4 /\ l.key # NoColon /\ l.value = None
         /\ RuleNames(g) = IF BeginsRule(read, l) THEN DOMAIN cfg.overrides \cup {KeyOf(l)}
                           ELSE DOMAIN cfg.overrides
         /\ \A r \in RuleNames(g) : OverrideOf(g, r) =
              IF BeginsRule(read, l) /\ KeyOf(l) = r THEN NoOverride
              ELSE IF section = "rules" /\ l.indent = 6 /\ override = r
              THEN [severity   |-> IF KeyOf(l) = "severity" THEN l.value ELSE cfg.overrides[r].severity,
                    confidence |-> IF KeyOf(l) = "confidence" THEN l.value
                                   ELSE cfg.overrides[r].confidence]
              ELSE cfg.overrides[r]
         /\ section = "rules" /\ l.indent = 6 => override \in DOMAIN cfg.overrides
         /\ BeginsRule(read, l) => OverrideOpen(g, KeyOf(l))
         /\ section = "rules" /\ l.indent # 0 /\ ~BeginsRule(read, l) /\ override # None
              => OverrideOpen(g, override)
<1>1. PICK n : Grown(read, l, g, n)
  BY GrownByOne DEF LinesInv
<1>2. n \in Nat /\ n = Len(read) /\ Len(g) = n + 1 /\ g[n + 1] = l
      /\ \A i \in 1..n : g[i] = read[i]
  BY <1>1 DEF Grown
<1>3. section = SectionOf(read) /\ (section = "rules" /\ override # None => OverrideOpen(read, override))
  BY DEF LinesInv, ParserPlaced
<1>4. DOMAIN cfg.overrides = RuleNames(read)
      /\ \A r \in RuleNames(read) : cfg.overrides[r] = OverrideOf(read, r)
  BY DEF LinesInv, LinesMeant
<1>5. BeginsRule(read, l)
              <=> section = "rules" /\ l.indent = 4 /\ l.key # NoColon /\ l.value = None
  BY <1>3 DEF BeginsRule
<1>6. /\ RuleLines(read) \in SUBSET (1..n)
      /\ RuleLines(g) = IF BeginsRule(read, l) THEN RuleLines(read) \cup {n + 1} ELSE RuleLines(read)
      /\ RuleNames(g) = IF BeginsRule(read, l) THEN RuleNames(read) \cup {KeyOf(l)} ELSE RuleNames(read)
  BY <1>1, RuleLinesOfMore
<1>7. /\ \A i \in 0..n : Top(g, i) = Top(read, i)
      /\ Top(g, n + 1) = IF l.indent = 0 THEN n + 1 ELSE Top(read, n)
  BY <1>1, Tops
<1>8. ASSUME section = "rules", override # None
      PROVE  /\ override \in RuleNames(read)
             /\ \A r \in RuleNames(read) :
                  override = r <=> /\ Top(read, n) = Top(read, Latest(Naming(read, r)))
                                   /\ Latest(RuleLines(read)) = Latest(Naming(read, r))
  <2>1. PICK last \in RuleLines(read) : /\ last = Latest(RuleLines(read))
                                        /\ Top(read, last) = Top(read, n)
                                        /\ override = KeyOf(read[last])
    BY <1>2, <1>3, <1>8 DEF OverrideOpen
  <2>2. override \in RuleNames(read)
    BY <2>1 DEF RuleNames
  <2>3. ASSUME NEW r \in RuleNames(read)
        PROVE  override = r <=> /\ Top(read, n) = Top(read, Latest(Naming(read, r)))
                                /\ Latest(RuleLines(read)) = Latest(Naming(read, r))
    <3>1. Latest(Naming(read, r)) \in Naming(read, r) /\ Naming(read, r) \in SUBSET (1..n)
      BY <1>1, NamingOfMore
    <3>2. ASSUME override = r PROVE Latest(Naming(read, r)) = last
      <4>1. last \in Naming(read, r)
        BY <2>1, <3>2 DEF Naming
      <4>2. \A j \in RuleLines(read) : j <= last
        BY <1>2, <1>6, <2>1, LatestIsLast
      <4>3. \A j \in Naming(read, r) : j <= last
        BY <4>2 DEF Naming
      <4> QED
        BY ONLY <1>2, <3>1, <4>1, <4>3, LatestIs
    <3>3. ASSUME Latest(Naming(read, r)) = last PROVE override = r
      BY <2>1, <3>1, <3>3 DEF Naming
    <3> QED
      BY <2>1, <3>2, <3>3
  <2> QED
    BY <2>2, <2>3
<1>9. ASSUME NEW r \in RuleNames(g)
      PROVE  OverrideOf(g, r) =
              IF BeginsRule(read, l) /\ KeyOf(l) = r THEN NoOverride
              ELSE IF section = "rules" /\ l.indent = 6 /\ override = r
              THEN [severity   |-> IF KeyOf(l) = "severity" THEN l.value ELSE cfg.overrides[r].severity,
                    confidence |-> IF KeyOf(l) = "confidence" THEN l.value
                                   ELSE cfg.overrides[r].confidence]
              ELSE cfg.overrides[r]
  <2>1. CASE BeginsRule(read, l) /\ KeyOf(l) = r
    BY <1>1, <2>1, OverrideOfMore
  <2>2. CASE ~(BeginsRule(read, l) /\ KeyOf(l) = r)
    <3>1. r \in RuleNames(read)
      BY <1>6, <2>2
    <3>2. OverrideOf(g, r) =
                IF /\ SectionOf(read) = "rules" /\ l.indent = 6
                   /\ Top(read, n) = Top(read, Latest(Naming(read, r)))
                   /\ Latest(RuleLines(read)) = Latest(Naming(read, r))
                THEN [severity   |-> IF KeyOf(l) = "severity" THEN l.value ELSE OverrideOf(read, r).severity,
                      confidence |-> IF KeyOf(l) = "confidence" THEN l.value
                                     ELSE OverrideOf(read, r).confidence]
                ELSE OverrideOf(read, r)
      BY <1>1, <2>2, <3>1, OverrideOfMore
    <3>3. section = "rules" /\ l.indent = 6 =>
            (override = r <=> /\ Top(read, n) = Top(read, Latest(Naming(read, r)))
                              /\ Latest(RuleLines(read)) = Latest(Naming(read, r)))
      BY <1>8, <3>1
    <3>4. OverrideOf(read, r) = cfg.overrides[r] /\ SectionOf(read) = section
      BY <1>3, <1>4, <3>1
    <3> QED
      BY ONLY <2>2, <3>2, <3>3, <3>4
  <2> QED
    BY <2>1, <2>2
<1>10. ASSUME BeginsRule(read, l)
       PROVE  OverrideOpen(g, KeyOf(l))
  <2>1. RuleLines(g) = RuleLines(read) \cup {n + 1} /\ Latest(RuleLines(g)) = n + 1
    BY <1>2, <1>6, <1>10, LatestOfMore
  <2> QED
    BY <1>2, <1>10, <2>1 DEF OverrideOpen
<1>11. ASSUME section = "rules", l.indent # 0, ~BeginsRule(read, l), override # None
       PROVE  OverrideOpen(g, override)
  <2>1. PICK last \in RuleLines(read) : /\ last = Latest(RuleLines(read))
                                        /\ Top(read, last) = Top(read, n)
                                        /\ override = KeyOf(read[last])
    BY <1>2, <1>3, <1>11 DEF OverrideOpen
  <2>2. last \in 1..n /\ last \in 0..n /\ RuleLines(g) = RuleLines(read)
    BY <1>2, <1>6, <1>11, <2>1
  <2>3. Top(g, last) = Top(read, last) /\ Top(g, n + 1) = Top(read, n) /\ g[last] = read[last]
    BY <1>2, <1>7, <1>11, <2>2
  <2> QED
    BY <1>2, <1>11, <2>1, <2>2, <2>3 DEF OverrideOpen
<1> QED
  BY <1>4, <1>5, <1>6, <1>8, <1>9, <1>10, <1>11

\* The list s with the line l told to its n-th entry
LastChanged(s, n, l) == [s EXCEPT ![n] = WithIgnore(@, Dashed(l))]

\* ... in the section ignore
LEMMA EntriesNext ==
  ASSUME LinesInv, NEW l \in Lines, NEW g, g = Append(read, l)
  PROVE  /\ Len(cfg.ignore) \in Nat
         /\ cfg.ignore = [k \in 1..Len(cfg.ignore) |-> cfg.ignore[k]]
         /\ BeginsEntry(read, l) <=> section = "ignore" /\ l.indent = 2 /\ l.item
         /\ BeginsEntry(read, l) =>
              EntryList(g) = [k \in 1..(Len(cfg.ignore) + 1) |->
                                IF k = Len(cfg.ignore) + 1 THEN WithIgnore(NoEntry, l) ELSE cfg.ignore[k]]
         /\ section = "ignore" /\ l.indent = 4 /\ ignoring =>
              /\ Len(cfg.ignore) \in DOMAIN cfg.ignore
              /\ EntryList(g) = LastChanged(cfg.ignore, Len(cfg.ignore), l)
         /\ ~BeginsEntry(read, l) /\ ~(section = "ignore" /\ l.indent = 4 /\ ignoring) =>
              EntryList(g) = cfg.ignore
         /\ BeginsEntry(read, l) => EntryOpen(g, TRUE)
         /\ section = "ignore" /\ l.indent # 0 /\ ~BeginsEntry(read, l) => EntryOpen(g, ignoring)
         /\ l.indent = 0 => EntryOpen(g, FALSE)
<1>1. PICK n : Grown(read, l, g, n)
  BY GrownByOne DEF LinesInv
<1>2. n \in Nat /\ n = Len(read) /\ Len(g) = n + 1 /\ g[n + 1] = l
      /\ \A i \in 1..n : g[i] = read[i]
  BY <1>1 DEF Grown
<1>3. section = SectionOf(read) /\ (section = "ignore" => EntryOpen(read, ignoring))
  BY DEF LinesInv, ParserPlaced
<1>4. cfg.ignore = EntryList(read)
  BY DEF LinesInv, LinesMeant
<1>5. BeginsEntry(read, l) <=> section = "ignore" /\ l.indent = 2 /\ l.item
  BY <1>3 DEF BeginsEntry
<1>6. /\ Entries(read) \in SUBSET (1..n)
      /\ Entries(g) = IF BeginsEntry(read, l) THEN Entries(read) \cup {n + 1} ELSE Entries(read)
  BY <1>1, EntriesOfMore
<1>7. /\ \A i \in 0..n : Top(g, i) = Top(read, i) /\ Top(read, i) \in 0..i
      /\ Top(g, n + 1) = IF l.indent = 0 THEN n + 1 ELSE Top(read, n)
  BY <1>1, Tops
<1>8. PICK c : c = Cardinality(Entries(read))
  OBVIOUS
<1>9. /\ c \in Nat /\ (Entries(read) # {} <=> c # 0)
      /\ BeginsEntry(read, l) =>
           EntryList(g) = [k \in 1..(c + 1) |->
                             IF k = c + 1 THEN WithIgnore(NoEntry, l) ELSE EntryList(read)[k]]
      /\ ~BeginsEntry(read, l) =>
           EntryList(g) = [k \in 1..c |->
                             IF k = c /\ Describes(read, l, n, Latest(Entries(read)))
                             THEN WithIgnore(EntryList(read)[k], Dashed(l))
                             ELSE EntryList(read)[k]]
  BY <1>1, <1>8, EntryListOfMore
<1>10. EntryList(read) = [k \in 1..c |-> EntryList(read)[k]]
  BY <1>8 DEF EntryList
<1>11. Len(cfg.ignore) = c /\ DOMAIN cfg.ignore = 1..c
  <2>1. PICK s : s = EntryList(read) /\ s = [k \in 1..c |-> s[k]]
    BY <1>10
  <2>2. DOMAIN s = 1..c
    BY ONLY <2>1
  <2>3. Len(s) = c
    BY ONLY <2>1, <1>9
  <2> QED
    BY <1>4, <2>1, <2>2, <2>3
<1>12. Entries(read) # {} => Latest(Entries(read)) \in Entries(read)
  BY <1>2, <1>6, LatestIsLast
<1>13. section = "ignore" /\ l.indent = 4 =>
         /\ ignoring => c # 0 /\ Describes(read, l, n, Latest(Entries(read)))
         /\ ~ignoring /\ c # 0 => ~Describes(read, l, n, Latest(Entries(read)))
  BY <1>2, <1>3, <1>9, <1>12 DEF EntryOpen, Describes
<1>14. ASSUME section = "ignore", l.indent = 4, ignoring
       PROVE  /\ c \in 1..c
              /\ EntryList(g) = LastChanged(cfg.ignore, c, l)
  <2>1. ~BeginsEntry(read, l) /\ c \in 1..c
    BY <1>5, <1>9, <1>13, <1>14
  <2>2. EntryList(g) = [k \in 1..c |-> IF k = c THEN WithIgnore(EntryList(read)[k], Dashed(l))
                                       ELSE EntryList(read)[k]]
    BY <1>9, <1>13, <1>14, <2>1
  <2>3. PICK s : s = EntryList(read) /\ s = [k \in 1..c |-> s[k]]
    BY <1>10
  <2>4. LastChanged(s, c, l)
        = [k \in 1..c |-> IF k = c THEN WithIgnore(s[k], Dashed(l)) ELSE s[k]]
    BY ONLY <2>1, <2>3 DEF LastChanged
  <2> QED
    BY ONLY <1>4, <2>1, <2>2, <2>3, <2>4
<1>15. ASSUME ~BeginsEntry(read, l), ~(section = "ignore" /\ l.indent = 4 /\ ignoring)
       PROVE  EntryList(g) = cfg.ignore
  <2>1. c # 0 => ~Describes(read, l, n, Latest(Entries(read)))
    BY <1>3, <1>13, <1>15 DEF Describes
  <2>2. \A k \in 1..c : ~(k = c /\ Describes(read, l, n, Latest(Entries(read))))
    BY <1>9, <2>1
  <2>3. EntryList(g) = [k \in 1..c |-> EntryList(read)[k]]
    BY ONLY <1>9, <1>15, <2>2
  <2> QED
    BY ONLY <1>4, <1>10, <2>3
<1>16. ASSUME BeginsEntry(read, l)
       PROVE  EntryOpen(g, TRUE)
  <2>1. Entries(g) = Entries(read) \cup {n + 1} /\ Latest(Entries(g)) = n + 1
    BY <1>2, <1>6, <1>16, LatestOfMore
  <2> QED
    BY <1>2, <2>1 DEF EntryOpen
<1>17. ASSUME section = "ignore", l.indent # 0, ~BeginsEntry(read, l)
       PROVE  EntryOpen(g, ignoring)
  <2>1. Entries(g) = Entries(read) /\ Top(g, n + 1) = Top(read, n)
    BY <1>6, <1>7, <1>17
  <2>2. \A e \in Entries(read) : Top(g, e) = Top(read, e)
    BY <1>2, <1>6, <1>7
  <2> QED
    BY <1>2, <1>3, <1>12, <1>17, <2>1, <2>2 DEF EntryOpen
<1>18. ASSUME l.indent = 0
       PROVE  EntryOpen(g, FALSE)
  <2>1. Entries(g) = Entries(read) /\ Top(g, n + 1) = n + 1
    BY <1>5, <1>6, <1>7, <1>18
  <2>2. \A e \in Entries(read) : e \in 0..n /\ Top(g, e) = Top(read, e) /\ Top(read, e) \in 0..e
    BY <1>2, <1>6, <1>7
  <2>3. \A e \in Entries(read) : Top(g, e) # n + 1
    BY <1>2, <2>2
  <2> QED
    BY <1>2, <2>1, <2>3 DEF EntryOpen
<1> QED
  BY <1>4, <1>5, <1>9, <1>10, <1>11, <1>14, <1>15, <1>16, <1>17, <1>18

\* What reading the line l must do to the variables of the parser
RuleBegun(l)  == section = "rules" /\ l.indent = 4 /\ l.key # NoColon /\ l.value = None
EntryBegun(l) == section = "ignore" /\ l.indent = 2 /\ l.item

ScalarsFollow(l) ==
  /\ cfg'.severity = IF l.indent # 0 /\ section = "scan" /\ KeyOf(l) = "severity"
                     THEN l.value ELSE cfg.severity
  /\ cfg'.failOn = IF l.indent # 0 /\ section = "scan" /\ KeyOf(l) = "fail_on"
                   THEN l.value ELSE cfg.failOn
  /\ cfg'.enable = IF l.indent = 4 /\ l.item /\ section = "detectors" /\ subsection = "enable"
                   THEN Append(cfg.enable, TextOf(l)) ELSE cfg.enable
  /\ cfg'.disable = IF l.indent = 4 /\ l.item /\ section = "detectors" /\ subsection = "disable"
                    THEN Append(cfg.disable, TextOf(l)) ELSE cfg.disable
  /\ cfg'.exclude = IF l.indent = 2 /\ l.item /\ section = "exclude"
                    THEN Append(cfg.exclude, TextOf(l)) ELSE cfg.exclude

OverridesFollow(l) ==
  /\ section = "rules" /\ l.indent = 6 => override # None
  /\ DOMAIN cfg'.overrides = IF RuleBegun(l) THEN DOMAIN cfg.overrides \cup {KeyOf(l)}
                             ELSE DOMAIN cfg.overrides
  /\ \A r \in DOMAIN cfg'.overrides :
       cfg'.overrides[r] =
         IF RuleBegun(l) /\ KeyOf(l) = r THEN NoOverride
         ELSE IF section = "rules" /\ l.indent = 6 /\ override = r
         THEN [severity   |-> IF KeyOf(l) = "severity" THEN l.value ELSE cfg.overrides[r].severity,
               confidence |-> IF KeyOf(l) = "confidence" THEN l.value
                              ELSE cfg.overrides[r].confidence]
         ELSE cfg.overrides[r]

IgnoreFollows(l) ==
  /\ EntryBegun(l) => cfg'.ignore = Append(cfg.ignore, WithIgnore(NoEntry, l))
  /\ section = "ignore" /\ l.indent = 4 /\ ignoring =>
       cfg'.ignore = LastChanged(cfg.ignore, Len(cfg.ignore), l)
  /\ ~EntryBegun(l) /\ ~(section = "ignore" /\ l.indent = 4 /\ ignoring) =>
       cfg'.ignore = cfg.ignore

PlaceFollows(l) ==
  /\ section' = IF l.indent = 0 THEN KeyOf(l) ELSE section
  /\ section' = "detectors" =>
       subsection' = IF l.indent = 2 THEN (IF l.value = None THEN KeyOf(l) ELSE None)
                     ELSE IF l.indent = 0 THEN None ELSE subsection
  /\ section' = "rules" /\ override' # None =>
       \/ RuleBegun(l) /\ override' = KeyOf(l)
       \/ section = "rules" /\ l.indent # 0 /\ ~RuleBegun(l) /\ override' = override
  /\ section' = "ignore" =>
       \/ l.indent = 0 /\ ~ignoring'
       \/ EntryBegun(l) /\ ignoring'
       \/ section = "ignore" /\ l.indent # 0 /\ ~EntryBegun(l) /\ (ignoring' <=> ignoring)

\* Then they are where one line more leaves them.
LEMMA FollowsInv ==
  ASSUME LinesInv, NEW l \in Lines, read' = Append(read, l),
         ScalarsFollow(l), OverridesFollow(l), IgnoreFollows(l), PlaceFollows(l)
  PROVE  LinesInv'
<1>1. PICK g : g = read' /\ g = Append(read, l)
  OBVIOUS
<1>2. g \in Seq(Lines)
  BY <1>1, AppendProperties DEF LinesInv
<1>3. /\ SectionOf(g) = section'
      /\ Scalar(g, "scan", "severity", "low") = cfg'.severity
      /\ Scalar(g, "scan", "fail_on", "medium") = cfg'.failOn
      /\ Items(g, ListLines(g, "enable")) = cfg'.enable
      /\ Items(g, ListLines(g, "disable")) = cfg'.disable
      /\ Items(g, ExcludeLines(g)) = cfg'.exclude
  <2>1. /\ SectionOf(g) = IF l.indent = 0 THEN KeyOf(l) ELSE section
        /\ Scalar(g, "scan", "severity", "low") =
              IF l.indent # 0 /\ section = "scan" /\ KeyOf(l) = "severity" THEN l.value ELSE cfg.severity
        /\ Scalar(g, "scan", "fail_on", "medium") =
              IF l.indent # 0 /\ section = "scan" /\ KeyOf(l) = "fail_on" THEN l.value ELSE cfg.failOn
        /\ Items(g, ListLines(g, "enable")) =
              IF l.indent = 4 /\ l.item /\ section = "detectors" /\ subsection = "enable"
              THEN Append(cfg.enable, TextOf(l)) ELSE cfg.enable
        /\ Items(g, ListLines(g, "disable")) =
              IF l.indent = 4 /\ l.item /\ section = "detectors" /\ subsection = "disable"
              THEN Append(cfg.disable, TextOf(l)) ELSE cfg.disable
        /\ Items(g, ExcludeLines(g)) =
              IF l.indent = 2 /\ l.item /\ section = "exclude"
              THEN Append(cfg.exclude, TextOf(l)) ELSE cfg.exclude
    BY <1>1, ListsNext
  <2> QED
    BY ONLY <2>1, ScalarsFollow(l), PlaceFollows(l) DEF ScalarsFollow, PlaceFollows
<1>4. section' = "detectors" => subsection' = HeadingName(g)
  <2>1. HeadingName(g) = IF l.indent = 2 THEN (IF l.value = None THEN KeyOf(l) ELSE None)
                         ELSE IF l.indent = 0 THEN None ELSE HeadingName(read)
    BY <1>1, ListsNext
  <2>2. section = "detectors" => subsection = HeadingName(read)
    BY DEF LinesInv, ParserPlaced
  <2> QED
    BY ONLY <2>1, <2>2, PlaceFollows(l) DEF PlaceFollows
<1>5. /\ BeginsRule(read, l) <=> RuleBegun(l)
      /\ RuleNames(g) = IF BeginsRule(read, l) THEN DOMAIN cfg.overrides \cup {KeyOf(l)}
                        ELSE DOMAIN cfg.overrides
      /\ \A r \in RuleNames(g) : OverrideOf(g, r) =
              IF BeginsRule(read, l) /\ KeyOf(l) = r THEN NoOverride
              ELSE IF section = "rules" /\ l.indent = 6 /\ override = r
              THEN [severity   |-> IF KeyOf(l) = "severity" THEN l.value ELSE cfg.overrides[r].severity,
                    confidence |-> IF KeyOf(l) = "confidence" THEN l.value
                                   ELSE cfg.overrides[r].confidence]
              ELSE cfg.overrides[r]
      /\ BeginsRule(read, l) => OverrideOpen(g, KeyOf(l))
      /\ section = "rules" /\ l.indent # 0 /\ ~BeginsRule(read, l) /\ override # None
              => OverrideOpen(g, override)
  <2>1. section = "rules" /\ l.indent = 6 => override # None
    BY DEF OverridesFollow
  <2> QED
    BY <1>1, <2>1, RulesNext DEF RuleBegun
<1>6. DOMAIN cfg'.overrides = RuleNames(g)
  BY ONLY <1>5, OverridesFollow(l) DEF OverridesFollow
<1>7. \A r \in RuleNames(g) : cfg'.overrides[r] = OverrideOf(g, r)
  BY ONLY <1>5, <1>6, OverridesFollow(l) DEF OverridesFollow
<1>8. section' = "rules" /\ override' # None => OverrideOpen(g, override')
  BY ONLY <1>5, PlaceFollows(l) DEF PlaceFollows
<1>9. PICK m : m = Len(cfg.ignore)
  OBVIOUS
<1>10. /\ m \in Nat
       /\ cfg.ignore = [k \in 1..m |-> cfg.ignore[k]]
       /\ BeginsEntry(read, l) <=> EntryBegun(l)
       /\ BeginsEntry(read, l) =>
            EntryList(g) = [k \in 1..(m + 1) |-> IF k = m + 1 THEN WithIgnore(NoEntry, l) ELSE cfg.ignore[k]]
       /\ section = "ignore" /\ l.indent = 4 /\ ignoring =>
            EntryList(g) = LastChanged(cfg.ignore, m, l)
       /\ ~BeginsEntry(read, l) /\ ~(section = "ignore" /\ l.indent = 4 /\ ignoring) =>
            EntryList(g) = cfg.ignore
       /\ BeginsEntry(read, l) => EntryOpen(g, TRUE)
       /\ section = "ignore" /\ l.indent # 0 /\ ~BeginsEntry(read, l) => EntryOpen(g, ignoring)
       /\ l.indent = 0 => EntryOpen(g, FALSE)
  BY <1>1, <1>9, EntriesNext DEF EntryBegun
<1>11. cfg'.ignore = EntryList(g)
  <2>1. CASE EntryBegun(l)
    <3>1. PICK s : s = cfg.ignore /\ s = [k \in 1..m |-> s[k]]
      BY <1>10
    <3>2. PICK e : e = WithIgnore(NoEntry, l)
      OBVIOUS
    <3>3. Append(s, e) = [k \in 1..(m + 1) |-> IF k = m + 1 THEN e ELSE s[k]]
      <4> DEFINE X == {s[k] : k \in 1..m} \cup {e}
      <4>1. s \in [1..m -> X]
        BY ONLY <3>1
      <4>2. s \in Seq(X) /\ Len(s) = m /\ e \in X
        <5> HIDE DEF X
        <5>1. s \in Seq(X)
          BY ONLY <1>10, <4>1, SeqDef
        <5>2. Len(s) = m
          BY ONLY <1>10, <4>1, <5>1, LenProperties
        <5> QED
          BY <5>1, <5>2 DEF X
      <4> HIDE DEF X
      <4>3. PICK A : A = Append(s, e)
        OBVIOUS
      <4>4. /\ A \in Seq(X) /\ Len(A) = m + 1 /\ A[m + 1] = e
            /\ \A k \in 1..m : A[k] = s[k]
        BY <4>2, <4>3, AppendProperties
      <4>5. A = [k \in 1..(m + 1) |-> A[k]]
        BY ONLY <4>4, LenProperties
      <4>6. \A k \in 1..(m + 1) : k = m + 1 \/ k \in 1..m
        BY <1>10
      <4> QED
        BY ONLY <4>3, <4>4, <4>5, <4>6
    <3>4. EntryList(g) = [k \in 1..(m + 1) |-> IF k = m + 1 THEN e ELSE s[k]]
      BY ONLY <1>10, <2>1, <3>1, <3>2
    <3>5. cfg'.ignore = Append(s, e)
      BY ONLY <2>1, <3>1, <3>2, IgnoreFollows(l) DEF IgnoreFollows
    <3> QED
      BY ONLY <3>3, <3>4, <3>5
  <2>2. CASE ~EntryBegun(l) /\ ~(section = "ignore" /\ l.indent = 4 /\ ignoring)
    BY ONLY <1>10, <2>2, IgnoreFollows(l) DEF IgnoreFollows
  <2>3. CASE section = "ignore" /\ l.indent = 4 /\ ignoring
    BY ONLY <1>9, <1>10, <2>3, IgnoreFollows(l) DEF IgnoreFollows
  <2> QED
    BY <2>1, <2>2, <2>3
<1>12. section' = "ignore" => EntryOpen(g, ignoring')
  BY ONLY <1>10, PlaceFollows(l) DEF PlaceFollows, EntryOpen
<1>13. LinesMeant'
  BY ONLY <1>1, <1>3, <1>6, <1>7, <1>11 DEF LinesMeant
<1>14. ParserPlaced'
  BY ONLY <1>1, <1>3, <1>4, <1>8, <1>12 DEF ParserPlaced
<1> QED
  BY ONLY <1>1, <1>2, <1>13, <1>14 DEF LinesInv

(***************************************************************************)
(* The lines of each section do to the parser what they must.              *)
(***************************************************************************)

Follows(l) == ScalarsFollow(l) /\ OverridesFollow(l) /\ IgnoreFollows(l) /\ PlaceFollows(l)

ConfigOf(sev, fail, work, form, en, dis, over, ex, ign) ==
  [severity |-> sev, failOn |-> fail, workers |-> work, format |-> form, enable |-> en,
   disable |-> dis, overrides |-> over, exclude |-> ex, ignore |-> ign]

\* An assignment to a field leaves the others.
LEMMA Assigned ==
  ASSUME CfgIsRecord, NEW v
  PROVE  /\ cfg = ConfigOf(cfg.severity, cfg.failOn, cfg.workers, cfg.format, cfg.enable,
                           cfg.disable, cfg.overrides, cfg.exclude, cfg.ignore)
         /\ [cfg EXCEPT !.severity = v] =
              ConfigOf(v, cfg.failOn, cfg.workers, cfg.format, cfg.enable,
                       cfg.disable, cfg.overrides, cfg.exclude, cfg.ignore)
         /\ [cfg EXCEPT !.failOn = v] =
              ConfigOf(cfg.severity, v, cfg.workers, cfg.format, cfg.enable,
                       cfg.disable, cfg.overrides, cfg.exclude, cfg.ignore)
         /\ [cfg EXCEPT !.workers = v] =
              ConfigOf(cfg.severity, cfg.failOn, v, cfg.format, cfg.enable,
                       cfg.disable, cfg.overrides, cfg.exclude, cfg.ignore)
         /\ [cfg EXCEPT !.format = v] =
              ConfigOf(cfg.severity, cfg.failOn, cfg.workers, v, cfg.enable,
                       cfg.disable, cfg.overrides, cfg.exclude, cfg.ignore)
         /\ [cfg EXCEPT !.enable = v] =
              ConfigOf(cfg.severity, cfg.failOn, cfg.workers, cfg.format, v,
                       cfg.disable, cfg.overrides, cfg.exclude, cfg.ignore)
         /\ [cfg EXCEPT !.disable = v] =
              ConfigOf(cfg.severity, cfg.failOn, cfg.workers, cfg.format, cfg.enable,
                       v, cfg.overrides, cfg.exclude, cfg.ignore)
         /\ [cfg EXCEPT !.overrides = v] =
              ConfigOf(cfg.severity, cfg.failOn, cfg.workers, cfg.format, cfg.enable,
                       cfg.disable, v, cfg.exclude, cfg.ignore)
         /\ [cfg EXCEPT !.exclude = v] =
              ConfigOf(cfg.severity, cfg.failOn, cfg.workers, cfg.format, cfg.enable,
                       cfg.disable, cfg.overrides, v, cfg.ignore)
         /\ [cfg EXCEPT !.ignore = v] =
              ConfigOf(cfg.severity, cfg.failOn, cfg.workers, cfg.format, cfg.enable,
                       cfg.disable, cfg.overrides, cfg.exclude, v)
<1>1. PICK sev, fail, work, form, en, dis, over, ex, ign :
        cfg = [severity |-> sev, failOn |-> fail, workers |-> work, format |-> form, enable |-> en,
               disable |-> dis, overrides |-> over, exclude |-> ex, ignore |-> ign]
  BY DEF CfgIsRecord
<1> QED
  BY ONLY <1>1 DEF ConfigOf

LEMMA FieldsOf ==
  ASSUME NEW sev, NEW fail, NEW work, NEW form, NEW en, NEW dis, NEW over, NEW ex, NEW ign,
         cfg' = ConfigOf(sev, fail, work, form, en, dis, over, ex, ign)
  PROVE  /\ CfgIsRecord'
         /\ cfg'.severity = sev /\ cfg'.failOn = fail /\ cfg'.enable = en /\ cfg'.disable = dis
         /\ cfg'.overrides = over /\ cfg'.exclude = ex /\ cfg'.ignore = ign
BY DEF ConfigOf, CfgIsRecord

\* A line that changes nothing in the configuration
LEMMA NothingSaid ==
  ASSUME NEW l, CfgIsRecord, cfg' = cfg,
         l.indent = 0 \/ section # "scan" \/ KeyOf(l) \notin {"severity", "fail_on"},
         ~(l.indent = 4 /\ l.item /\ section = "detectors" /\ subsection \in {"enable", "disable"}),
         ~(l.indent = 2 /\ l.item /\ section = "exclude"),
         ~RuleBegun(l), ~(section = "rules" /\ l.indent = 6),
         ~EntryBegun(l), ~(section = "ignore" /\ l.indent = 4 /\ ignoring)
  PROVE  CfgIsRecord' /\ ScalarsFollow(l) /\ OverridesFollow(l) /\ IgnoreFollows(l)
<1>1. CfgIsRecord'
  BY DEF CfgIsRecord
<1>2. ScalarsFollow(l)
  BY DEF ScalarsFollow
<1>3. OverridesFollow(l)
  BY DEF OverridesFollow
<1>4. IgnoreFollows(l)
  BY DEF IgnoreFollows
<1> QED
  BY <1>1, <1>2, <1>3, <1>4

LEMMA TopLevelFollows ==
  ASSUME CfgIsRecord, NEW l, l = Line, TopLevel, stage' # "error"
  PROVE  Follows(l) /\ CfgIsRecord' /\ stage' = stage
<1>1. /\ l.indent = 0 /\ cfg' = cfg /\ stage' = stage
      /\ section' = KeyOf(l) /\ subsection' = None /\ ignoring' = FALSE /\ override' = None
  BY DEF TopLevel, Fails, Reads
<1>2. CfgIsRecord' /\ ScalarsFollow(l) /\ OverridesFollow(l) /\ IgnoreFollows(l)
  BY <1>1, NothingSaid DEF RuleBegun, EntryBegun
<1>3. PlaceFollows(l)
  BY <1>1 DEF PlaceFollows
<1> QED
  BY <1>1, <1>2, <1>3 DEF Follows

LEMMA ScanLineFollows ==
  ASSUME CfgIsRecord, NEW l, l = Line, ScanLine, stage' # "error"
  PROVE  Follows(l) /\ CfgIsRecord' /\ stage' = stage
<1>1. /\ section = "scan" /\ l.indent # 0 /\ stage' = stage /\ UNCHANGED parserVars
      /\ \/ KeyOf(l) = "severity" /\ cfg' = [cfg EXCEPT !.severity = l.value]
         \/ KeyOf(l) = "fail_on" /\ cfg' = [cfg EXCEPT !.failOn = l.value]
         \/ KeyOf(l) = "workers" /\ cfg' = [cfg EXCEPT !.workers = l.value]
  <2>1. section = "scan" /\ l.indent # 0
    BY DEF ScanLine, In
  <2>2. ~Fails
    BY DEF Fails
  <2>3. \/ KeyOf(l) = "severity" /\ Set([cfg EXCEPT !.severity = l.value])
        \/ KeyOf(l) = "fail_on" /\ Set([cfg EXCEPT !.failOn = l.value])
        \/ KeyOf(l) = "workers" /\ Set([cfg EXCEPT !.workers = l.value])
    BY <2>2, Zenon DEF ScanLine
  <2> QED
    BY <2>1, <2>3 DEF Set, Reads
<1>2. /\ CfgIsRecord'
      /\ cfg'.severity = IF KeyOf(l) = "severity" THEN l.value ELSE cfg.severity
      /\ cfg'.failOn = IF KeyOf(l) = "fail_on" THEN l.value ELSE cfg.failOn
      /\ cfg'.enable = cfg.enable /\ cfg'.disable = cfg.disable /\ cfg'.overrides = cfg.overrides
      /\ cfg'.exclude = cfg.exclude /\ cfg'.ignore = cfg.ignore
  <2>1. CASE KeyOf(l) = "severity" /\ cfg' = [cfg EXCEPT !.severity = l.value]
    <3>1. cfg' = ConfigOf(l.value, cfg.failOn, cfg.workers, cfg.format, cfg.enable,
                          cfg.disable, cfg.overrides, cfg.exclude, cfg.ignore)
      BY <2>1, Assigned
    <3> QED
      BY ONLY <2>1, <3>1, FieldsOf
  <2>2. CASE KeyOf(l) = "fail_on" /\ cfg' = [cfg EXCEPT !.failOn = l.value]
    <3>1. cfg' = ConfigOf(cfg.severity, l.value, cfg.workers, cfg.format, cfg.enable,
                          cfg.disable, cfg.overrides, cfg.exclude, cfg.ignore)
      BY <2>2, Assigned
    <3> QED
      BY ONLY <2>2, <3>1, FieldsOf
  <2>3. CASE KeyOf(l) = "workers" /\ cfg' = [cfg EXCEPT !.workers = l.value]
    <3>1. cfg' = ConfigOf(cfg.severity, cfg.failOn, l.value, cfg.format, cfg.enable,
                          cfg.disable, cfg.overrides, cfg.exclude, cfg.ignore)
      BY <2>3, Assigned
    <3> QED
      BY ONLY <2>3, <3>1, FieldsOf
  <2> QED
    BY ONLY <1>1, <2>1, <2>2, <2>3
<1>3. ScalarsFollow(l)
  BY ONLY <1>1, <1>2 DEF ScalarsFollow
<1>4. OverridesFollow(l)
  BY ONLY <1>1, <1>2 DEF OverridesFollow, RuleBegun
<1>5. IgnoreFollows(l)
  BY ONLY <1>1, <1>2 DEF IgnoreFollows, EntryBegun
<1>6. PlaceFollows(l)
  BY ONLY <1>1 DEF PlaceFollows, parserVars
<1> QED
  BY <1>1, <1>2, <1>3, <1>4, <1>5, <1>6 DEF Follows

LEMMA OutputLineFollows ==
  ASSUME CfgIsRecord, NEW l, l = Line, OutputLine, stage' # "error"
  PROVE  Follows(l) /\ CfgIsRecord' /\ stage' = stage
<1>1. /\ section = "output" /\ l.indent # 0 /\ stage' = stage /\ UNCHANGED parserVars
      /\ cfg' = [cfg EXCEPT !.format = l.value]
  BY DEF OutputLine, In, Fails, Set, Reads
<1>2. cfg' = ConfigOf(cfg.severity, cfg.failOn, cfg.workers, l.value, cfg.enable,
                      cfg.disable, cfg.overrides, cfg.exclude, cfg.ignore)
  BY <1>1, Assigned
<1>3. /\ CfgIsRecord'
      /\ cfg'.severity = cfg.severity /\ cfg'.failOn = cfg.failOn
      /\ cfg'.enable = cfg.enable /\ cfg'.disable = cfg.disable /\ cfg'.overrides = cfg.overrides
      /\ cfg'.exclude = cfg.exclude /\ cfg'.ignore = cfg.ignore
  BY ONLY <1>2, FieldsOf
<1>4. ScalarsFollow(l)
  BY ONLY <1>1, <1>3 DEF ScalarsFollow
<1>5. OverridesFollow(l)
  BY ONLY <1>1, <1>3 DEF OverridesFollow, RuleBegun
<1>6. IgnoreFollows(l)
  BY ONLY <1>1, <1>3 DEF IgnoreFollows, EntryBegun
<1>7. PlaceFollows(l)
  BY ONLY <1>1 DEF PlaceFollows, parserVars
<1> QED
  BY <1>1, <1>3, <1>4, <1>5, <1>6, <1>7 DEF Follows

LEMMA DetectorsLineFollows ==
  ASSUME CfgIsRecord, NEW l, l = Line, DetectorsLine, stage' # "error"
  PROVE  Follows(l) /\ CfgIsRecord' /\ stage' = stage
<1>1. section = "detectors" /\ l.indent # 0
  BY DEF DetectorsLine, In
<1>2. ~Fails
  BY DEF Fails
<1>3. \/ /\ l.indent = 2 /\ cfg' = cfg /\ stage' = stage
         /\ subsection' = IF l.value = None THEN KeyOf(l) ELSE None
         /\ UNCHANGED <<section, ignoring, override>>
      \/ /\ l.indent = 4 /\ l.item /\ subsection = "enable"
         /\ cfg' = [cfg EXCEPT !.enable = Append(cfg.enable, TextOf(l))]
         /\ stage' = stage /\ UNCHANGED parserVars
      \/ /\ l.indent = 4 /\ l.item /\ subsection = "disable"
         /\ cfg' = [cfg EXCEPT !.disable = Append(cfg.disable, TextOf(l))]
         /\ stage' = stage /\ UNCHANGED parserVars
      \/ /\ l.indent # 2 /\ ~(l.indent = 4 /\ l.item)
         /\ cfg' = cfg /\ stage' = stage /\ UNCHANGED parserVars
  BY <1>2 DEF DetectorsLine, Set, Same, Reads
<1>4. /\ CfgIsRecord'
      /\ cfg'.severity = cfg.severity /\ cfg'.failOn = cfg.failOn
      /\ cfg'.enable = IF l.indent = 4 /\ l.item /\ subsection = "enable"
                       THEN Append(cfg.enable, TextOf(l)) ELSE cfg.enable
      /\ cfg'.disable = IF l.indent = 4 /\ l.item /\ subsection = "disable"
                        THEN Append(cfg.disable, TextOf(l)) ELSE cfg.disable
      /\ cfg'.overrides = cfg.overrides /\ cfg'.exclude = cfg.exclude /\ cfg'.ignore = cfg.ignore
  <2>1. CASE /\ l.indent = 4 /\ l.item /\ subsection = "enable"
             /\ cfg' = [cfg EXCEPT !.enable = Append(cfg.enable, TextOf(l))]
    <3>1. PICK s : s = Append(cfg.enable, TextOf(l))
      OBVIOUS
    <3>2. cfg' = ConfigOf(cfg.severity, cfg.failOn, cfg.workers, cfg.format, s,
                          cfg.disable, cfg.overrides, cfg.exclude, cfg.ignore)
      BY <2>1, <3>1, Assigned
    <3> QED
      BY ONLY <2>1, <3>1, <3>2, FieldsOf
  <2>2. CASE /\ l.indent = 4 /\ l.item /\ subsection = "disable"
             /\ cfg' = [cfg EXCEPT !.disable = Append(cfg.disable, TextOf(l))]
    <3>1. PICK s : s = Append(cfg.disable, TextOf(l))
      OBVIOUS
    <3>2. cfg' = ConfigOf(cfg.severity, cfg.failOn, cfg.workers, cfg.format, cfg.enable,
                          s, cfg.overrides, cfg.exclude, cfg.ignore)
      BY <2>2, <3>1, Assigned
    <3> QED
      BY ONLY <2>2, <3>1, <3>2, FieldsOf
  <2>3. CASE cfg' = cfg /\ ~(l.indent = 4 /\ l.item)
    BY ONLY <2>3, CfgIsRecord DEF CfgIsRecord
  <2> QED
    BY ONLY <1>3, <2>1, <2>2, <2>3
<1>5. ScalarsFollow(l)
  BY ONLY <1>1, <1>4 DEF ScalarsFollow
<1>6. OverridesFollow(l)
  BY ONLY <1>1, <1>4 DEF OverridesFollow, RuleBegun
<1>7. IgnoreFollows(l)
  BY ONLY <1>1, <1>4 DEF IgnoreFollows, EntryBegun
<1>8. PlaceFollows(l)
  BY ONLY <1>1, <1>3 DEF PlaceFollows, parserVars
<1> QED
  BY <1>3, <1>4, <1>5, <1>6, <1>7, <1>8 DEF Follows

LEMMA ExcludeLineFollows ==
  ASSUME CfgIsRecord, NEW l, l = Line, ExcludeLine, stage' # "error"
  PROVE  Follows(l) /\ CfgIsRecord' /\ stage' = stage
<1>1. /\ section = "exclude" /\ l.indent # 0 /\ stage' = stage /\ UNCHANGED parserVars
      /\ \/ /\ l.indent = 2 /\ l.item
            /\ cfg' = [cfg EXCEPT !.exclude = Append(cfg.exclude, TextOf(l))]
         \/ ~(l.indent = 2 /\ l.item) /\ cfg' = cfg
  BY DEF ExcludeLine, In, Set, Same, Reads
<1>2. /\ CfgIsRecord'
      /\ cfg'.severity = cfg.severity /\ cfg'.failOn = cfg.failOn
      /\ cfg'.enable = cfg.enable /\ cfg'.disable = cfg.disable /\ cfg'.overrides = cfg.overrides
      /\ cfg'.exclude = IF l.indent = 2 /\ l.item
                        THEN Append(cfg.exclude, TextOf(l)) ELSE cfg.exclude
      /\ cfg'.ignore = cfg.ignore
  <2>1. CASE /\ l.indent = 2 /\ l.item
             /\ cfg' = [cfg EXCEPT !.exclude = Append(cfg.exclude, TextOf(l))]
    <3>1. PICK s : s = Append(cfg.exclude, TextOf(l))
      OBVIOUS
    <3>2. cfg' = ConfigOf(cfg.severity, cfg.failOn, cfg.workers, cfg.format, cfg.enable,
                          cfg.disable, cfg.overrides, s, cfg.ignore)
      BY <2>1, <3>1, Assigned
    <3> QED
      BY ONLY <2>1, <3>1, <3>2, FieldsOf
  <2>2. CASE cfg' = cfg /\ ~(l.indent = 2 /\ l.item)
    BY ONLY <2>2, CfgIsRecord DEF CfgIsRecord
  <2> QED
    BY ONLY <1>1, <2>1, <2>2
<1>3. ScalarsFollow(l)
  BY ONLY <1>1, <1>2 DEF ScalarsFollow
<1>4. OverridesFollow(l)
  BY ONLY <1>1, <1>2 DEF OverridesFollow, RuleBegun
<1>5. IgnoreFollows(l)
  BY ONLY <1>1, <1>2 DEF IgnoreFollows, EntryBegun
<1>6. PlaceFollows(l)
  BY ONLY <1>1 DEF PlaceFollows, parserVars
<1> QED
  BY <1>1, <1>2, <1>3, <1>4, <1>5, <1>6 DEF Follows

\* The fields of an ignore entry are set on the last one.
LEMMA IgnoreLineFollows ==
  ASSUME CfgIsRecord, NEW l, l = Line, IgnoreLine, stage' # "error"
  PROVE  Follows(l) /\ CfgIsRecord' /\ stage' = stage
<1>1. section = "ignore" /\ l.indent # 0
  BY DEF IgnoreLine, In
<1>2. ~Fails
  BY DEF Fails
<1>3. \/ /\ EntryBegun(l)
         /\ cfg' = [cfg EXCEPT !.ignore = Append(cfg.ignore, WithIgnore(NoEntry, l))]
         /\ ignoring' /\ stage' = stage /\ UNCHANGED <<section, subsection, override>>
      \/ /\ ~EntryBegun(l) /\ l.indent = 4 /\ ignoring
         /\ cfg' = [cfg EXCEPT !.ignore = LastChanged(cfg.ignore, Len(cfg.ignore), l)]
         /\ stage' = stage /\ UNCHANGED parserVars
      \/ /\ ~EntryBegun(l) /\ ~(l.indent = 4 /\ ignoring) /\ cfg' = cfg
         /\ stage' = stage /\ UNCHANGED parserVars
  <2>1. CASE l.indent = 2 /\ l.item /\ l.key # NoColon
    BY <1>1, <2>1 DEF IgnoreLine, EntryBegun, NoEntry, Reads
  <2>2. CASE l.indent = 2 /\ l.item /\ l.key = NoColon
    BY <1>2, <2>2 DEF IgnoreLine
  <2>3. CASE l.indent = 4 /\ ignoring
    <3>1. /\ ~(Line.indent = 2 /\ Line.item /\ Line.key # NoColon)
          /\ ~(Line.indent = 2 /\ Line.item /\ Line.key = NoColon)
          /\ Line.indent = 4 /\ ignoring
      BY <2>3
    <3>2. Line.key # NoColon
      BY ONLY <1>2, <3>1, IgnoreLine DEF IgnoreLine
    <3>3. Set([cfg EXCEPT !.ignore[Len(cfg.ignore)] = WithIgnore(@, Dashed(Line))])
      BY ONLY <3>1, <3>2, IgnoreLine, Zenon DEF IgnoreLine, Dashed
    <3>4. Set([cfg EXCEPT !.ignore = LastChanged(cfg.ignore, Len(cfg.ignore), Line)])
      BY ONLY <3>3, Zenon DEF LastChanged
    <3>5. ~EntryBegun(l)
      BY <2>3 DEF EntryBegun
    <3> QED
      BY <2>3, <3>4, <3>5, Zenon DEF Set, Reads
  <2>4. CASE ~(l.indent = 2 /\ l.item) /\ ~(l.indent = 4 /\ ignoring)
    BY <2>4 DEF IgnoreLine, EntryBegun, Same, Set, Reads
  <2> QED
    BY <2>1, <2>2, <2>3, <2>4
<1>4. /\ CfgIsRecord'
      /\ cfg'.severity = cfg.severity /\ cfg'.failOn = cfg.failOn
      /\ cfg'.enable = cfg.enable /\ cfg'.disable = cfg.disable /\ cfg'.overrides = cfg.overrides
      /\ cfg'.exclude = cfg.exclude
      /\ cfg'.ignore = IF EntryBegun(l) THEN Append(cfg.ignore, WithIgnore(NoEntry, l))
                       ELSE IF l.indent = 4 /\ ignoring
                       THEN LastChanged(cfg.ignore, Len(cfg.ignore), l)
                       ELSE cfg.ignore
  <2>1. ASSUME NEW s, cfg' = [cfg EXCEPT !.ignore = s]
        PROVE  /\ CfgIsRecord'
               /\ cfg'.severity = cfg.severity /\ cfg'.failOn = cfg.failOn
               /\ cfg'.enable = cfg.enable /\ cfg'.disable = cfg.disable
               /\ cfg'.overrides = cfg.overrides /\ cfg'.exclude = cfg.exclude /\ cfg'.ignore = s
    <3>1. cfg' = ConfigOf(cfg.severity, cfg.failOn, cfg.workers, cfg.format, cfg.enable,
                          cfg.disable, cfg.overrides, cfg.exclude, s)
      BY <2>1, Assigned
    <3> QED
      BY ONLY <3>1, FieldsOf
  <2>2. CASE /\ EntryBegun(l)
             /\ cfg' = [cfg EXCEPT !.ignore = Append(cfg.ignore, WithIgnore(NoEntry, l))]
    BY ONLY <2>1, <2>2, Zenon
  <2>3. CASE /\ ~EntryBegun(l) /\ l.indent = 4 /\ ignoring
             /\ cfg' = [cfg EXCEPT !.ignore = LastChanged(cfg.ignore, Len(cfg.ignore), l)]
    BY ONLY <2>1, <2>3, Zenon
  <2>4. CASE ~EntryBegun(l) /\ ~(l.indent = 4 /\ ignoring) /\ cfg' = cfg
    BY ONLY <2>4, CfgIsRecord DEF CfgIsRecord
  <2> QED
    BY ONLY <1>3, <2>2, <2>3, <2>4, Zenon
<1>5. ScalarsFollow(l)
  BY ONLY <1>1, <1>4 DEF ScalarsFollow
<1>6. OverridesFollow(l)
  BY ONLY <1>1, <1>4 DEF OverridesFollow, RuleBegun
<1>7. IgnoreFollows(l)
  BY ONLY <1>1, <1>4 DEF IgnoreFollows, EntryBegun
<1>8. PlaceFollows(l)
  BY ONLY <1>1, <1>3 DEF PlaceFollows, parserVars, EntryBegun
<1> QED
  BY ONLY <1>3, <1>4, <1>5, <1>6, <1>7, <1>8 DEF Follows

\* A field of an override is set on the rule named last.
LEMMA RulesLineFollows ==
  ASSUME LinesInv, CfgIsRecord, NEW l \in Lines, l = Line, read' = Append(read, l),
         RulesLine, stage' # "error"
  PROVE  Follows(l) /\ CfgIsRecord' /\ stage' = stage
<1>1. section = "rules" /\ l.indent # 0
  BY DEF RulesLine, In
<1>2. ~Fails
  BY DEF Fails
<1> DEFINE Changed(r, o) == [x \in DOMAIN cfg.overrides \cup {r} |-> IF x = r THEN o ELSE cfg.overrides[x]]
           o6 == [cfg.overrides[override] EXCEPT ![KeyOf(l)] = l.value]
<1>3. \/ /\ l.indent = 2 /\ cfg' = cfg
         /\ stage' = stage /\ UNCHANGED <<section, ignoring, override>>
      \/ /\ RuleBegun(l) /\ override' = KeyOf(l)
         /\ cfg' = Overridden(KeyOf(l), NoOverride)
         /\ stage' = stage /\ UNCHANGED <<section, subsection, ignoring>>
      \/ /\ l.indent = 6 /\ KeyOf(l) \in {"severity", "confidence"} /\ override # None
         /\ cfg' = Overridden(override, o6)
         /\ stage' = stage /\ UNCHANGED parserVars
      \/ /\ l.indent # 2 /\ ~RuleBegun(l) /\ l.indent # 6 /\ cfg' = cfg
         /\ stage' = stage /\ UNCHANGED parserVars
  <2>1. CASE l.indent = 2
    BY <1>2, <2>1 DEF RulesLine, Reads
  <2>2. CASE l.indent # 2 /\ subsection # "override"
    BY <1>2, <2>2 DEF RulesLine
  <2>3. CASE l.indent # 2 /\ subsection = "override" /\ RuleBegun(l)
    <3>1. Line.indent = 4 /\ Line.indent # 2 /\ Line.key # NoColon /\ Line.value = None
      BY <2>3 DEF RuleBegun
    <3>2. override' = KeyOf(Line) /\ cfg' = Overridden(KeyOf(Line), NoOverride)
          /\ Reads /\ UNCHANGED <<section, subsection, ignoring>>
      BY ONLY <2>3, <3>1, RulesLine DEF RulesLine
    <3> QED
      BY <2>3, <3>2, Zenon DEF Reads
  <2>4. CASE subsection = "override" /\ l.indent = 6
    <3>1. /\ Line.indent # 2 /\ Line.indent # 4 /\ Line.indent = 6 /\ l.indent # 4
      BY <2>4
    <3>2. /\ KeyOf(Line) \in {"severity", "confidence"} /\ override # None
          /\ Set(Overridden(override, [cfg.overrides[override] EXCEPT ![KeyOf(Line)] = Line.value]))
      BY ONLY <1>2, <2>4, <3>1, RulesLine, Zenon DEF RulesLine
    <3> QED
      BY <2>4, <3>1, <3>2, Zenon DEF Set, Reads, RuleBegun
  <2>5. CASE /\ l.indent # 2 /\ subsection = "override" /\ ~RuleBegun(l) /\ l.indent # 6
    BY <1>1, <2>5 DEF RulesLine, RuleBegun, Same, Set, Reads
  <2> QED
    BY <2>1, <2>2, <2>3, <2>4, <2>5
<1>4. ASSUME NEW r, NEW o, cfg' = Overridden(r, o)
      PROVE  /\ CfgIsRecord'
             /\ cfg'.severity = cfg.severity /\ cfg'.failOn = cfg.failOn
             /\ cfg'.enable = cfg.enable /\ cfg'.disable = cfg.disable
             /\ cfg'.exclude = cfg.exclude /\ cfg'.ignore = cfg.ignore
             /\ DOMAIN cfg'.overrides = DOMAIN cfg.overrides \cup {r}
             /\ \A x \in DOMAIN cfg.overrides \cup {r} :
                  cfg'.overrides[x] = IF x = r THEN o ELSE cfg.overrides[x]
  <2>1. PICK s : s = Changed(r, o)
    OBVIOUS
  <2>2. cfg' = [cfg EXCEPT !.overrides = s]
    BY <1>4, <2>1, Zenon DEF Overridden
  <2>3. cfg' = ConfigOf(cfg.severity, cfg.failOn, cfg.workers, cfg.format, cfg.enable,
                        cfg.disable, s, cfg.exclude, cfg.ignore)
    BY <2>2, Assigned
  <2>4. /\ CfgIsRecord'
        /\ cfg'.severity = cfg.severity /\ cfg'.failOn = cfg.failOn
        /\ cfg'.enable = cfg.enable /\ cfg'.disable = cfg.disable
        /\ cfg'.exclude = cfg.exclude /\ cfg'.ignore = cfg.ignore /\ cfg'.overrides = s
    BY ONLY <2>3, FieldsOf
  <2>5. /\ DOMAIN s = DOMAIN cfg.overrides \cup {r}
        /\ \A x \in DOMAIN cfg.overrides \cup {r} : s[x] = IF x = r THEN o ELSE cfg.overrides[x]
    BY ONLY <2>1
  <2> QED
    BY ONLY <2>4, <2>5
<1>5. /\ CfgIsRecord'
      /\ cfg'.severity = cfg.severity /\ cfg'.failOn = cfg.failOn
      /\ cfg'.enable = cfg.enable /\ cfg'.disable = cfg.disable
      /\ cfg'.exclude = cfg.exclude /\ cfg'.ignore = cfg.ignore
  <2>1. cfg' = cfg => CfgIsRecord'
    BY DEF CfgIsRecord
  <2> QED
    BY ONLY <1>3, <1>4, <2>1, Zenon
<1>6. OverridesFollow(l)
  <2>1. CASE /\ RuleBegun(l) /\ cfg' = Overridden(KeyOf(l), NoOverride)
    <3>1. /\ DOMAIN cfg'.overrides = DOMAIN cfg.overrides \cup {KeyOf(l)}
          /\ \A x \in DOMAIN cfg.overrides \cup {KeyOf(l)} :
               cfg'.overrides[x] = IF x = KeyOf(l) THEN NoOverride ELSE cfg.overrides[x]
      BY <1>4, <2>1
    <3>2. ~(l.indent = 6)
      BY <2>1 DEF RuleBegun
    <3> QED
      BY ONLY <2>1, <3>1, <3>2 DEF OverridesFollow
  <2>2. CASE /\ l.indent = 6 /\ KeyOf(l) \in {"severity", "confidence"} /\ override # None
             /\ cfg' = Overridden(override, o6)
    <3>1. PICK g : g = Append(read, l)
      OBVIOUS
    <3>2. override \in DOMAIN cfg.overrides
      BY ONLY <1>1, <2>2, <3>1, RulesNext, LinesInv, l \in Lines
    <3>3. PICK sev, conf : cfg.overrides[override] = [severity |-> sev, confidence |-> conf]
      BY <3>2 DEF LinesInv, LinesMeant, OverrideOf
    <3>4. o6 = [severity   |-> IF KeyOf(l) = "severity" THEN l.value ELSE sev,
                confidence |-> IF KeyOf(l) = "confidence" THEN l.value ELSE conf]
      <4>1. PICK key, v, rec : key = KeyOf(l) /\ v = l.value /\ rec = cfg.overrides[override]
        OBVIOUS
      <4>2. [rec EXCEPT ![key] = v] = [severity   |-> IF key = "severity" THEN v ELSE sev,
                                       confidence |-> IF key = "confidence" THEN v ELSE conf]
        <5>1. CASE key = "severity"
          BY ONLY <3>3, <4>1, <5>1
        <5>2. CASE key = "confidence"
          BY ONLY <3>3, <4>1, <5>2
        <5> QED
          BY ONLY <2>2, <4>1, <5>1, <5>2
      <4> QED
        BY ONLY <4>1, <4>2, Zenon
    <3>5. PICK o : o = o6
      OBVIOUS
    <3> HIDE DEF o6
    <3>6. /\ DOMAIN cfg'.overrides = DOMAIN cfg.overrides \cup {override}
          /\ \A x \in DOMAIN cfg.overrides \cup {override} :
               cfg'.overrides[x] = IF x = override THEN o ELSE cfg.overrides[x]
      <4>1. cfg' = Overridden(override, o)
        BY ONLY <2>2, <3>5
      <4> QED
        BY ONLY <1>4, <4>1
    <3>7. DOMAIN cfg.overrides \cup {override} = DOMAIN cfg.overrides
      BY <3>2
    <3>8. ~RuleBegun(l)
      BY <2>2 DEF RuleBegun
    <3>9. o = [severity   |-> IF KeyOf(l) = "severity" THEN l.value ELSE cfg.overrides[override].severity,
               confidence |-> IF KeyOf(l) = "confidence" THEN l.value
                              ELSE cfg.overrides[override].confidence]
      BY ONLY <3>3, <3>4, <3>5
    <3> QED
      BY ONLY <1>1, <2>2, <3>6, <3>7, <3>8, <3>9 DEF OverridesFollow
  <2>3. CASE ~RuleBegun(l) /\ l.indent # 6 /\ cfg' = cfg
    BY ONLY <2>3 DEF OverridesFollow
  <2>4. l.indent = 2 => ~RuleBegun(l) /\ l.indent # 6
    BY DEF RuleBegun
  <2> HIDE DEF o6
  <2> QED
    BY ONLY <1>3, <2>1, <2>2, <2>3, <2>4, Zenon
<1>7. ScalarsFollow(l)
  BY ONLY <1>1, <1>5 DEF ScalarsFollow
<1>8. IgnoreFollows(l)
  BY ONLY <1>1, <1>5 DEF IgnoreFollows, EntryBegun
<1>9. PlaceFollows(l)
  <2>1. l.indent \in {2, 6} => ~RuleBegun(l)
    BY DEF RuleBegun
  <2>2. section' = section /\ (\/ RuleBegun(l) /\ override' = KeyOf(l)
                               \/ ~RuleBegun(l) /\ override' = override)
    BY ONLY <1>3, <2>1 DEF parserVars
  <2> QED
    BY ONLY <1>1, <2>2 DEF PlaceFollows
<1> QED
  BY ONLY <1>3, <1>5, <1>6, <1>7, <1>8, <1>9 DEF Follows

\* Every line that is read without an error
LEMMA ReadLineFollows ==
  ASSUME LinesInv, CfgIsRecord, ReadLine, stage' # "error"
  PROVE  LinesInv' /\ CfgIsRecord' /\ stage' = "read"
<1>1. PICK l \in Lines : read' = Append(read, l)
  BY DEF ReadLine
<1>2. l = Line
  <2>1. PICK n : Grown(read, l, Append(read, l), n)
    BY GrownByOne DEF LinesInv
  <2>2. Len(read') = n + 1 /\ read'[n + 1] = l
    BY <1>1, <2>1 DEF Grown
  <2> QED
    BY <2>2 DEF Line, Last
<1>3. ~UnknownSection
  BY DEF UnknownSection, Fails
<1>4. Follows(l) /\ CfgIsRecord' /\ stage' = stage
  <2>1. CASE TopLevel
    BY <1>2, <2>1, TopLevelFollows
  <2>2. CASE ScanLine
    BY <1>2, <2>2, ScanLineFollows
  <2>3. CASE OutputLine
    BY <1>2, <2>3, OutputLineFollows
  <2>4. CASE DetectorsLine
    BY <1>2, <2>4, DetectorsLineFollows
  <2>5. CASE RulesLine
    BY <1>1, <1>2, <2>5, RulesLineFollows
  <2>6. CASE ExcludeLine
    BY <1>2, <2>6, ExcludeLineFollows
  <2>7. CASE IgnoreLine
    BY <1>2, <2>7, IgnoreLineFollows
  <2> QED
    BY ONLY <1>3, <2>1, <2>2, <2>3, <2>4, <2>5, <2>6, <2>7, ReadLine DEF ReadLine
<1>5. LinesInv'
  BY <1>1, <1>4, FollowsInv DEF Follows
<1> QED
  BY <1>4, <1>5 DEF ReadLine

(***************************************************************************)
(* A file that is accepted means what its lines say.                       *)
(***************************************************************************)

ReadingInv == stage \in {"find", "read", "validated"} => LinesInv /\ CfgIsRecord

LEMMA ReadingInit == Init => ReadingInv
<1> SUFFICES ASSUME Init PROVE LinesInv /\ CfgIsRecord
  BY DEF ReadingInv
<1>1. read = <<>> /\ Len(read) = 0 /\ read \in Seq(Lines)
  BY DEF Init
<1>2. \A s : InSection(read, s) = {}
  BY <1>1 DEF InSection
<1>3. /\ RuleLines(read) = {} /\ Entries(read) = {} /\ ExcludeLines(read) = {}
      /\ \A name : ListLines(read, name) = {}
  BY <1>2 DEF RuleLines, Entries, ExcludeLines, ListLines
<1>4. Items(read, {}) = <<>> /\ EntryList(read) = <<>>
  <2>1. Cardinality({}) = 0
    BY FS_EmptySet
  <2>2. \A F : [k \in 1..0 |-> F] = <<>>
    OBVIOUS
  <2>3. Items(read, {}) = <<>>
    BY <2>1 DEF Items
  <2>4. EntryList(read) = <<>>
    BY <1>3, <2>1 DEF EntryList
  <2> QED
    BY <2>3, <2>4
<1>5. \A key, default : Scalar(read, "scan", key, default) = default
  BY <1>2 DEF Scalar, ValueOf
<1>6. cfg = Defaults
  BY DEF Init
<1>7. LinesMeant
  <2>1. RuleNames(read) = {}
    BY <1>3 DEF RuleNames
  <2> QED
    BY <1>3, <1>4, <1>5, <1>6, <2>1 DEF LinesMeant, Defaults
<1>8. ParserPlaced
  <2>1. Top(read, 0) = 0
    BY LatestOfNone DEF Top
  <2>2. SectionOf(read) = None
    BY <1>1, <2>1 DEF SectionOf
  <2>3. section = None
    BY DEF Init
  <2>4. None # "detectors" /\ None # "rules" /\ None # "ignore"
    BY ONLY DEF None
  <2> QED
    BY ONLY <2>2, <2>3, <2>4 DEF ParserPlaced
<1>9. CfgIsRecord
  BY <1>6 DEF CfgIsRecord, Defaults
<1> QED
  BY <1>1, <1>7, <1>8, <1>9 DEF LinesInv

LEMMA ReadingNext == ReadingInv /\ [Next]_vars => ReadingInv'
<1> SUFFICES ASSUME ReadingInv, [Next]_vars, stage' \in {"find", "read", "validated"}
             PROVE  LinesInv' /\ CfgIsRecord'
  BY DEF ReadingInv
<1>0. ASSUME LinesInv, CfgIsRecord, UNCHANGED <<read, parserVars, cfg>>
      PROVE  LinesInv' /\ CfgIsRecord'
  BY <1>0 DEF LinesInv, LinesMeant, ParserPlaced, CfgIsRecord, parserVars
<1>1. CASE FindConfig
  BY <1>0, <1>1 DEF FindConfig, ReadingInv
<1>2. CASE ReadLine
  <2>1. LinesInv /\ CfgIsRecord /\ stage' # "error"
    BY <1>2 DEF ReadLine, ReadingInv
  <2> QED
    BY <1>2, <2>1, ReadLineFollows
<1>3. CASE EndOfFile
  BY <1>0, <1>3 DEF EndOfFile, ReadingInv
<1>4. CASE UNCHANGED vars
  BY <1>0, <1>4 DEF vars, ReadingInv
<1>5. ~SetUp /\ ~Collect /\ ~Analyze /\ ~Report
  BY DEF SetUp, Collect, Analyze, Report
<1> QED
  BY <1>1, <1>2, <1>3, <1>4, <1>5 DEF Next, Over

LEMMA ReadingAlways == Spec => []ReadingInv
<1> QED
  BY ReadingInit, ReadingNext, PTL DEF Spec

\* Whatever lines a file has and however many, and whatever sections, lists, rules and
\* entries they repeat, empty or interrupt: if the file is accepted, the configuration
\* is what the lines say, each under the heading it is written under (loader.go:87-240).
THEOREM ConfigMeansIt == Spec => []ConfigMeansItsLines
<1>1. ReadingInv => ConfigMeansItsLines
  <2> SUFFICES ASSUME LinesMeant PROVE ConfigMeansItsLines
    BY DEF ReadingInv, LinesInv, ConfigMeansItsLines
  <2> QED
    BY DEF LinesMeant, ConfigMeansItsLines, RuleNames, EntryList
<1> QED
  BY <1>1, ReadingAlways, PTL

(***************************************************************************)
(* From the configuration to the report.                                   *)
(***************************************************************************)

IsList(s) == Len(s) \in Nat /\ DOMAIN s = 1..Len(s)

LEMMA ItemsAreLists ==
  ASSUME read \in Seq(Lines), NEW name
  PROVE  IsList(Items(read, ListLines(read, name)))
<1>1. PICK n \in Nat : n = Len(read)
  BY LenProperties
<1>2. ListLines(read, name) \in SUBSET (1..n)
  BY <1>1 DEF ListLines, InSection
<1>3. PICK c \in Nat : c = Cardinality(ListLines(read, name))
  BY <1>2, LinesFinite
<1>4. PICK s : s = Items(read, ListLines(read, name))
  OBVIOUS
<1>5. s = [k \in 1..c |-> TextOf(read[Nth(ListLines(read, name), k)])]
  BY <1>3, <1>4 DEF Items
<1>6. Len(s) = c /\ DOMAIN s = 1..c
  BY ONLY <1>5, c \in Nat
<1> QED
  BY <1>4, <1>6 DEF IsList

\* A finding with the override o
Marked(f, o) == [f EXCEPT !.severity = IF o.severity # None THEN Level[o.severity] ELSE @,
                          !.confidence = IF o.confidence # None THEN o.confidence ELSE @]

\* What the stages after the reading leave for the next
Chosen(t) == IF t.file THEN {t.path}
             ELSE IF t.incremental THEN CollectSmartContractFiles(t)
             ELSE CollectSolFiles(t)

Found == {i \in Issues : /\ i.path \in collected /\ i.detector \in Running
                         /\ i.severity >= Level[settings.min]}
Shown == {Override(f) : f \in {g \in Found : ~Excluded(FromRoot(target, g.path))}}

FlagsInv ==
  /\ stage \in {"set", "collected", "analyzed", "reported"} =>
       IsList(cfg.enable) /\ IsList(cfg.disable) /\ settings = ApplyConfigDefaults(flags)
  /\ stage \in {"collected", "analyzed", "reported"} =>
       target \in Targets /\ collected = Chosen(target)
  /\ stage = "analyzed" => findings = Found
  /\ stage = "reported" =>
       /\ findings = Shown
       /\ (exit = 1) <=> \E f \in findings : f.severity >= Level[settings.failOn]

LEMMA FlagsNext == ReadingInv /\ FlagsInv /\ [Next]_vars => FlagsInv'
<1> SUFFICES ASSUME ReadingInv, FlagsInv, [Next]_vars
             PROVE  FlagsInv'
  OBVIOUS
<1>1. ASSUME stage' \in {"find", "read", "validated", "error"}
      PROVE  FlagsInv'
  BY <1>1 DEF FlagsInv
<1>2. CASE FindConfig \/ ReadLine \/ EndOfFile
  <2>1. stage' \in {"find", "read", "validated", "error"}
    <3>1. CASE FindConfig
      BY <3>1 DEF FindConfig
    <3>2. CASE EndOfFile
      BY <3>2 DEF EndOfFile
    <3>3. CASE ReadLine
      BY <3>3, ReadLineFollows DEF ReadLine, ReadingInv
    <3> QED
      BY <1>2, <3>1, <3>2, <3>3
  <2> QED
    BY <1>1, <2>1
<1>3. CASE SetUp
  <2>1. stage = "validated" /\ cfg' = cfg /\ stage' \in {"set", "error"}
        /\ settings' = ApplyConfigDefaults(flags')
    BY <1>3 DEF SetUp
  <2>2. IsList(cfg.enable) /\ IsList(cfg.disable)
    BY <2>1, ItemsAreLists DEF ReadingInv, LinesInv, LinesMeant
  <2>3. settings' = ApplyConfigDefaults(flags)'
    BY ONLY <2>1 DEF ApplyConfigDefaults, Configured
  <2> QED
    BY ONLY <2>1, <2>2, <2>3 DEF FlagsInv, IsList
<1>4. CASE Collect
  <2>1. /\ stage = "set" /\ stage' = "collected" /\ target' \in Targets
        /\ UNCHANGED <<cfg, flags, settings>>
    BY <1>4 DEF Collect
  <2>2. collected' = Chosen(target)'
    BY <1>4 DEF Collect, Chosen, CollectSmartContractFiles, CollectSolFiles, Below, SkipDefault,
                SkipDefaultSmartContractPath, Excluded, FromRoot, Root
  <2>3. IsList(cfg.enable)' /\ IsList(cfg.disable)' /\ settings' = ApplyConfigDefaults(flags)'
    BY <2>1 DEF FlagsInv, IsList, ApplyConfigDefaults, Configured
  <2> QED
    BY ONLY <2>1, <2>2, <2>3 DEF FlagsInv
<1>5. ASSUME UNCHANGED <<cfg, flags, target, settings, collected>>, stage \in {"collected", "analyzed", "reported"}
      PROVE  /\ IsList(cfg.enable)' /\ IsList(cfg.disable)' /\ settings' = ApplyConfigDefaults(flags)'
             /\ target' \in Targets /\ collected' = Chosen(target)' /\ Found' = Found /\ Shown' = Shown
  <2>1. IsList(cfg.enable)' /\ IsList(cfg.disable)' /\ settings' = ApplyConfigDefaults(flags)'
    BY <1>5 DEF FlagsInv, IsList, ApplyConfigDefaults, Configured
  <2>2. target' \in Targets /\ collected' = Chosen(target)'
    BY <1>5 DEF FlagsInv, Chosen, CollectSmartContractFiles, CollectSolFiles, Below, SkipDefault,
                SkipDefaultSmartContractPath, Excluded, FromRoot, Root
  <2>3. Found' = Found
    BY <1>5 DEF Found, Running
  <2>4. \A f : Override(f)' = Override(f)
    <3>1. \A f : OverrideFor(f)' = OverrideFor(f)
      BY <1>5 DEF OverrideFor
    <3>2. \A f : Override(f) = Marked(f, OverrideFor(f)) /\ Override(f)' = Marked(f, OverrideFor(f)')
      BY Zenon DEF Override, Marked
    <3> QED
      BY ONLY <3>1, <3>2
  <2>5. \A p : Excluded(FromRoot(target, p))' <=> Excluded(FromRoot(target, p))
    BY <1>5 DEF Excluded, FromRoot, Root
  <2>6. Shown' = Shown
    BY ONLY <2>3, <2>4, <2>5 DEF Shown
  <2> QED
    BY <2>1, <2>2, <2>3, <2>6
<1>6. CASE Analyze
  <2>1. /\ stage = "collected" /\ stage' = "analyzed" /\ findings' = Found
        /\ UNCHANGED <<cfg, flags, target, settings, collected>>
    BY <1>6 DEF Analyze, Found
  <2> QED
    BY ONLY <1>5, <2>1 DEF FlagsInv
<1>7. CASE Report
  <2>1. /\ stage = "analyzed" /\ stage' = "reported" /\ findings = Found
        /\ UNCHANGED <<cfg, flags, target, settings, collected>>
        /\ findings' = Shown
        /\ exit' = IF \E f \in findings' : f.severity >= Level[settings.failOn] THEN 1 ELSE 0
    <3>1. findings = Found
      BY <1>7 DEF Report, FlagsInv
    <3> QED
      BY ONLY <1>7, <3>1 DEF Report, Shown
  <2>2. findings' = Shown'
    BY ONLY <1>5, <2>1
  <2>3. (exit' = 1) <=> \E f \in findings' : f.severity >= Level[settings'.failOn]
    BY ONLY <2>1
  <2> QED
    BY ONLY <1>5, <2>1, <2>2, <2>3 DEF FlagsInv
<1>8. CASE UNCHANGED vars
  <2>1. UNCHANGED <<stage, cfg, flags, target, settings, collected, findings, exit>>
    BY <1>8 DEF vars
  <2>2. CASE stage \in {"collected", "analyzed", "reported"}
    BY ONLY <1>5, <2>1, <2>2, FlagsInv DEF FlagsInv
  <2>3. CASE stage \notin {"collected", "analyzed", "reported"}
    BY ONLY <2>1, <2>3, FlagsInv DEF FlagsInv, IsList, ApplyConfigDefaults, Configured
  <2> QED
    BY ONLY <2>2, <2>3
<1> QED
  BY <1>2, <1>3, <1>4, <1>6, <1>7, <1>8 DEF Next, Over

LEMMA FlagsAlways == Spec => []FlagsInv
<1>1. Init => FlagsInv
  BY DEF Init, FlagsInv
<1> QED
  BY <1>1, FlagsNext, ReadingAlways, PTL DEF Spec

\* Whatever the lists and the flags: --detectors, with names, is the last word; without
\* it a disabled detector rests unless the file leaves none, a default one rests only if
\* a list says so, and an experimental one runs only if a list names it or
\* --experimental is given (main.go:116-125, 652-664).
THEOREM DetectorsConfigured == Spec => []DetectorsAsConfigured
<1>1. FlagsInv => DetectorsAsConfigured
  <2> SUFFICES ASSUME FlagsInv, stage \in {"set", "reported"}
               PROVE  IF flags.onlyGiven /\ flags.only # {} THEN Running = flags.only
                      ELSE /\ \A d \in Range(cfg.disable) : d \in Running =>
                                (NoneLeft \/ flags.onlyGiven) /\ Default \subseteq Running
                           /\ \A d \in Default \ Running :
                                /\ ~flags.onlyGiven
                                /\ d \in Range(cfg.disable)
                                   \/ (cfg.enable # <<>> /\ d \notin Range(cfg.enable))
                           /\ \A d \in Experimental \cap Running :
                                flags.experimental \/ d \in Range(cfg.enable)
    BY DEF DetectorsAsConfigured
  <2>1. settings.only = IF flags.onlyGiven THEN flags.only ELSE Configured
    BY DEF FlagsInv, ApplyConfigDefaults
  <2>2. PICK on, off : on = Range(cfg.enable) /\ off = Range(cfg.disable)
    OBVIOUS
  <2>3. cfg.disable = <<>> => off = {}
    BY ONLY <2>2 DEF Range
  <2>4. Configured = IF cfg.enable # <<>> THEN {d \in on : d # None /\ d \notin off}
                     ELSE IF cfg.disable = <<>> THEN {} ELSE {d \in Default : d \notin off}
    <3>1. \A d : (\E i \in 1..Len(cfg.disable) : cfg.disable[i] = d) <=> d \in off
      BY <2>2 DEF FlagsInv, IsList, Range
    <3> QED
      BY ONLY <2>2, <3>1 DEF Configured
  <2>5. NoneLeft <=> (IF cfg.enable # <<>> THEN on \ {None} ELSE Default) \subseteq off
    BY <2>2 DEF NoneLeft
  <2>6. settings.only = {} => Running = IF flags.experimental THEN Default \cup Experimental ELSE Default
    BY DEF Running, All
  <2>7. settings.only # {} => Running = settings.only
    BY DEF Running
  <2>8. CASE flags.onlyGiven /\ flags.only # {}
    BY ONLY <2>1, <2>7, <2>8
  <2>9. CASE flags.onlyGiven /\ flags.only = {}
    BY ONLY <2>1, <2>6, <2>9, DetectorsAssumption DEF DetectorsAssumption
  <2>10. CASE ~flags.onlyGiven /\ Configured # {}
    <3>1. Running = Configured
      BY ONLY <2>1, <2>7, <2>10
    <3>2. CASE cfg.enable # <<>>
      BY ONLY <2>2, <2>4, <2>10, <3>1, <3>2, DetectorsAssumption DEF DetectorsAssumption
    <3>3. CASE cfg.enable = <<>>
      BY ONLY <2>2, <2>4, <2>10, <3>1, <3>3, DetectorsAssumption DEF DetectorsAssumption
    <3> QED
      BY <3>2, <3>3
  <2>11. CASE ~flags.onlyGiven /\ Configured = {}
    <3>1. Running = IF flags.experimental THEN Default \cup Experimental ELSE Default
      BY ONLY <2>1, <2>6, <2>11
    <3>2. NoneLeft \/ off = {}
      BY ONLY <2>3, <2>4, <2>5, <2>11
    <3> QED
      BY ONLY <2>2, <2>11, <3>1, <3>2, DetectorsAssumption DEF DetectorsAssumption
  <2> QED
    BY <2>8, <2>9, <2>10, <2>11
<1> QED
  BY <1>1, FlagsAlways, PTL

\* Nothing is below a file but itself.
LEMMA BelowFile ==
  ASSUME NEW t \in Targets, t.file, NEW p \in Sources
  PROVE  IsPrefix(t.path, p) <=> p = t.path
<1>1. IsPrefix(p, p)
  BY SourcesAssumption, LenProperties DEF IsPrefix, SourcesAssumption
<1> QED
  BY <1>1, TargetsAssumption DEF TargetsAssumption

\* Whatever is found, whatever the target and the configuration: the report is what the
\* running detectors found at --min-severity or above in the files of the target that
\* are not excluded, with the overrides, and the exit code is that of what it shows
\* (main.go:267-268, 358-363, 680-762).
THEOREM ReportFollows == Spec => []ReportFollowsConfig
<1>1. FlagsInv => ReportFollowsConfig
  <2> SUFFICES ASSUME FlagsInv, stage = "reported"
               PROVE  /\ findings = {Override(i) : i \in {j \in Issues :
                           /\ IsPrefix(target.path, j.path)
                           /\ ~Excluded(FromRoot(target, j.path))
                           /\ target.file \/ ~SkipDefault(target, j.path)
                           /\ j.detector \in Running
                           /\ j.severity >= Level[Given(flags.min, cfg.severity)]}}
                      /\ (exit = 1) <=> \E f \in findings :
                           f.severity >= Level[Given(flags.failOn, cfg.failOn)]
    BY DEF ReportFollowsConfig
  <2>1. /\ target \in Targets /\ collected = Chosen(target) /\ findings = Shown
        /\ (exit = 1) <=> \E f \in findings : f.severity >= Level[settings.failOn]
    BY DEF FlagsInv
  <2>2. settings.min = Given(flags.min, cfg.severity) /\ settings.failOn = Given(flags.failOn, cfg.failOn)
    BY DEF FlagsInv, ApplyConfigDefaults
  <2>3. ASSUME NEW j \in Issues
        PROVE  j.path \in collected /\ ~Excluded(FromRoot(target, j.path)) <=>
                 /\ IsPrefix(target.path, j.path)
                 /\ ~Excluded(FromRoot(target, j.path))
                 /\ target.file \/ ~SkipDefault(target, j.path)
    <3>1. PICK p \in Sources : p = j.path
      BY IssuesAssumption DEF IssuesAssumption
    <3>2. CASE target.file
      <4>1. collected = {target.path}
        BY <2>1, <3>2 DEF Chosen
      <4> QED
        BY ONLY <2>1, <3>1, <3>2, <4>1, BelowFile
    <3>3. CASE ~target.file
      <4>1. collected = IF target.incremental THEN CollectSmartContractFiles(target)
                        ELSE CollectSolFiles(target)
        BY <2>1, <3>3 DEF Chosen
      <4>2. p \in CollectSolFiles(target) <=>
              IsPrefix(target.path, p) /\ ~SkipDefault(target, p) /\ ~Excluded(FromRoot(target, p))
        BY <3>1 DEF CollectSolFiles, Below
      <4>3. p \in CollectSmartContractFiles(target) <=>
              IsPrefix(target.path, p) /\ ~SkipDefault(target, p)
        BY <3>1 DEF CollectSmartContractFiles, Below, SkipDefaultSmartContractPath
      <4> QED
        BY ONLY <3>1, <3>3, <4>1, <4>2, <4>3
    <3> QED
      BY <3>2, <3>3
  <2> DEFINE S == {j \in Issues : /\ IsPrefix(target.path, j.path)
                                  /\ ~Excluded(FromRoot(target, j.path))
                                  /\ target.file \/ ~SkipDefault(target, j.path)
                                  /\ j.detector \in Running
                                  /\ j.severity >= Level[Given(flags.min, cfg.severity)]}
  <2>4. {g \in Found : ~Excluded(FromRoot(target, g.path))} = S
    <3>1. \A j \in Issues : j \in Found <=>
            j.path \in collected /\ j.detector \in Running
            /\ j.severity >= Level[Given(flags.min, cfg.severity)]
      BY ONLY <2>2 DEF Found
    <3>2. Found \subseteq Issues
      BY DEF Found
    <3> QED
      BY ONLY <2>3, <3>1, <3>2
  <2> HIDE DEF S
  <2>5. findings = {Override(i) : i \in S}
    BY ONLY <2>1, <2>4 DEF Shown
  <2> QED
    BY ONLY <2>1, <2>2, <2>5 DEF S
<1> QED
  BY <1>1, FlagsAlways, PTL
=============================================================================
