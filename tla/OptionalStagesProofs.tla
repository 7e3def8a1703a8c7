------------------------ MODULE OptionalStagesProofs -------------------------
(***************************************************************************)
(* Proofs about the optional stages of a scan, for any list of addresses,  *)
(* rate, project, options and outcome of the tools.  ChainInv is inductive *)
(* for the on-chain stage.  StagesInv adds FormalInv, for the runner of the *)
(* formal stage, and what a killed process leaves in the directory.        *)
(*                                                                         *)
(* First, what the recursive functions of Selections compute, for every    *)
(* sequence.  A lemma here takes no predicate: induction is over sets,     *)
(* from the fact that a set of numbers that is not empty has a least       *)
(* element.  A recursive function is a CHOOSE; that one exists is shown by *)
(* building its run step by step, that there is one only by induction, and *)
(* what it computes by induction over the sequence.                        *)
(***************************************************************************)
EXTENDS OptionalStages, FiniteSetTheorems, SequenceTheorems,
        WellFoundedInduction, TLAPS

\* A set of natural numbers that is not empty has a least one.
LEMMA LeastElement ==
  ASSUME NEW T, T \subseteq Nat, T # {}
  PROVE  \E x \in T : \A y \in T : x <= y
<1> DEFINE Less == {p \in Nat \X Nat : p[1] < p[2]}
<1>1. OpToRel(<, Nat) = Less
  BY DEF OpToRel
<1>2. IsWellFoundedOn(Less, Nat)
  BY <1>1, NatLessThanWellFounded
<1>3. PICK x \in T : \A y \in T : ~(<<y, x>> \in Less)
  <2> HIDE DEF Less
  <2> QED BY <1>2, WFMin
<1>4. ASSUME NEW y \in T PROVE x <= y
  <2>1. x \in Nat /\ y \in Nat
    OBVIOUS
  <2>2. ~(y < x)
    BY <1>3, <2>1
  <2> QED BY <2>1, <2>2
<1> QED BY <1>4

\* Induction over the natural numbers, for a set instead of a predicate.
LEMMA NaturalInduction ==
  ASSUME NEW T, 0 \in T, \A n \in Nat : n \in T => n + 1 \in T
  PROVE  Nat \subseteq T
<1> SUFFICES ASSUME ~(Nat \subseteq T) PROVE FALSE
  OBVIOUS
<1>1. PICK x \in Nat \ T : \A y \in Nat \ T : x <= y
  BY LeastElement
<1>2. x # 0
  BY <1>1
<1>3. x - 1 \in Nat /\ x - 1 \in T
  BY <1>1, <1>2
<1> QED BY <1>1, <1>2, <1>3

\* Induction over sequences, for a set of them: one that has the empty
\* sequence and is closed under Append has every sequence.
LEMMA SequenceInduction ==
  ASSUME NEW X, NEW T, <<>> \in T,
         \A s \in Seq(X), e \in X : s \in T => Append(s, e) \in T
  PROVE  Seq(X) \subseteq T
<1> DEFINE N == {n \in Nat : \A s \in Seq(X) : Len(s) = n => s \in T}
<1>1. 0 \in N
  BY EmptySeq
<1>2. ASSUME NEW n \in Nat, n \in N PROVE n + 1 \in N
  <2> SUFFICES ASSUME NEW s \in Seq(X), Len(s) = n + 1 PROVE s \in T
    OBVIOUS
  <2>1. PICK t \in Seq(X), e \in X : s = Append(t, e)
    BY SequenceEmptyOrAppend, EmptySeq
  <2>2. Len(t) = n
    BY <2>1, AppendProperties
  <2> QED BY <1>2, <2>1, <2>2
<1>3. Nat \subseteq N
  <2> HIDE DEF N
  <2> QED BY <1>1, <1>2, NaturalInduction
<1>4. \A s \in Seq(X) : Len(s) \in N
  BY <1>3, LenProperties
<1> QED BY <1>4

(***************************************************************************)
(* Recursion over 0..n.                                                    *)
(***************************************************************************)
IsFunctionOn(f, D) == f = [x \in D |-> f[x]]
StepsOn(F, n, X) == F \in [1..n -> [X -> X]]
RunOf(g, F, n, b, X) ==
  g \in [0..n -> X] /\ g[0] = b /\ \A i \in 1..n : g[i] = F[i][g[i - 1]]

\* Applying n functions one after the other to a first value has a run.
LEMMA Iterated ==
  ASSUME NEW X, NEW b \in X, NEW n \in Nat, NEW F, StepsOn(F, n, X)
  PROVE  \E g : RunOf(g, F, n, b, X)
<1> DEFINE T == {m \in Nat : m <= n => \E g : RunOf(g, F, m, b, X)}
<1>1. 0 \in T
  <2>1. RunOf([i \in 0..0 |-> b], F, 0, b, X)
    BY DEF RunOf
  <2> QED BY <2>1
<1>2. ASSUME NEW m \in Nat, m \in T PROVE m + 1 \in T
  <2> SUFFICES ASSUME m + 1 <= n PROVE \E g : RunOf(g, F, m + 1, b, X)
    OBVIOUS
  <2>1. PICK g : RunOf(g, F, m, b, X)
    BY <1>2
  <2> DEFINE h == [i \in 0..(m + 1) |-> IF i = m + 1 THEN F[m + 1][g[m]] ELSE g[i]]
  <2>2. F[m + 1] \in [X -> X] /\ g[m] \in X
    BY <2>1 DEF StepsOn, RunOf
  <2>3. h \in [0..(m + 1) -> X]
    BY <2>1, <2>2 DEF RunOf
  <2>4. h[0] = b /\ \A i \in 1..(m + 1) : h[i] = F[i][h[i - 1]]
    BY <2>1 DEF RunOf
  <2>5. RunOf(h, F, m + 1, b, X)
    BY <2>3, <2>4 DEF RunOf
  <2> QED BY <2>5
<1>3. n \in T
  <2> HIDE DEF T
  <2> QED BY <1>1, <1>2, NaturalInduction
<1> QED BY <1>3

\* Functions with one domain and the same values are the same.
LEMMA SameFunction ==
  ASSUME NEW D, NEW f, NEW g, IsFunctionOn(f, D), IsFunctionOn(g, D),
         \A x \in D : f[x] = g[x]
  PROVE  f = g
BY DEF IsFunctionOn

\* There is at most one run: two that start alike and step alike agree.
LEMMA SameRun ==
  ASSUME NEW n \in Nat, NEW g, NEW h,
         IsFunctionOn(g, 0..n), IsFunctionOn(h, 0..n),
         g[0] = h[0],
         \A i \in 1..n : g[i - 1] = h[i - 1] => g[i] = h[i]
  PROVE  g = h
<1> DEFINE T == {i \in Nat : i <= n => g[i] = h[i]}
<1>1. 0 \in T
  OBVIOUS
<1>2. ASSUME NEW i \in Nat, i \in T PROVE i + 1 \in T
  <2> SUFFICES ASSUME i + 1 <= n PROVE g[i + 1] = h[i + 1]
    OBVIOUS
  <2>1. i + 1 \in 1..n /\ (i + 1) - 1 = i /\ g[i] = h[i]
    BY <1>2
  <2> QED BY <2>1
<1>3. Nat \subseteq T
  <2> HIDE DEF T
  <2> QED BY <1>1, <1>2, NaturalInduction
<1>4. \A i \in 0..n : g[i] = h[i]
  BY <1>3
<1> QED BY <1>4, SameFunction

(***************************************************************************)
(* Kept.                                                                   *)
(***************************************************************************)
KeptRun(g, s, S) ==
  /\ g[0] = <<>>
  /\ \A i \in 1..Len(s) :
       g[i] = IF s[i] \in S THEN Append(g[i - 1], s[i]) ELSE g[i - 1]

\* The run behind Kept, which appends the elements that are in S one by one.
LEMMA KeptEquation ==
  ASSUME NEW X, NEW s \in Seq(X), NEW S
  PROVE  \E g \in [0..Len(s) -> Seq(X)] : KeptRun(g, s, S) /\ Kept(s, S) = g[Len(s)]
<1> DEFINE n == Len(s)
           F == [i \in 1..n |-> [t \in Seq(X) |-> IF s[i] \in S THEN Append(t, s[i]) ELSE t]]
           body(g, i) == IF i = 0 THEN <<>>
                         ELSE IF s[i] \in S THEN Append(g[i - 1], s[i]) ELSE g[i - 1]
           Eq(g) == g = [i \in 0..n |-> body(g, i)]
           K == CHOOSE g : Eq(g)
<1>1. n \in Nat /\ \A i \in 1..n : s[i] \in X /\ i - 1 \in 0..n /\ i \in 0..n /\ i # 0
  BY LenProperties
<1>2. StepsOn(F, n, Seq(X))
  BY <1>1 DEF StepsOn
<1>3. PICK g : RunOf(g, F, n, <<>>, Seq(X))
  <2>1. <<>> \in Seq(X)
    BY EmptySeq
  <2> HIDE DEF n, F
  <2> QED BY <1>1, <1>2, <2>1, Iterated
<1>4. g \in [0..n -> Seq(X)] /\ g[0] = <<>> /\ \A i \in 1..n : g[i] = body(g, i)
  <2>1. g \in [0..n -> Seq(X)] /\ g[0] = <<>> /\ \A i \in 1..n : g[i] = F[i][g[i - 1]]
    <3> HIDE DEF n, F
    <3> QED BY <1>3 DEF RunOf
  <2>2. \A i \in 1..n : g[i - 1] \in Seq(X)
    <3> HIDE DEF n, F
    <3> QED BY <1>1, <2>1
  <2> QED BY <1>1, <2>1, <2>2
<1>5. IsFunctionOn(g, 0..n)
  BY <1>4 DEF IsFunctionOn
<1>6. Eq(g)
  <2> DEFINE h == [i \in 0..n |-> body(g, i)]
  <2>1. IsFunctionOn(h, 0..n)
    BY DEF IsFunctionOn
  <2>2. ASSUME NEW i \in 0..n PROVE g[i] = h[i]
    <3>1. i = 0 \/ i \in 1..n
      BY <1>1
    <3>2. h[i] = body(g, i)
      OBVIOUS
    <3>3. CASE i = 0
      BY <3>2, <3>3, <1>4
    <3>4. CASE i \in 1..n
      <4> HIDE DEF body
      <4> QED BY <3>2, <3>4, <1>4
    <3> QED BY <3>1, <3>3, <3>4
  <2>3. g = h
    <3> HIDE DEF h
    <3> QED BY <1>5, <2>1, <2>2, SameFunction
  <2> QED BY <2>3
<1>7. Eq(K)
  <2> HIDE DEF Eq
  <2> QED BY <1>6
<1>8. K = g
  <2> HIDE DEF K
  <2>1. IsFunctionOn(K, 0..n) /\ \A i \in 0..n : K[i] = body(K, i)
    BY <1>7 DEF IsFunctionOn
  <2>2. K[0] = g[0]
    BY <1>1, <1>4, <2>1
  <2>3. ASSUME NEW i \in 1..n, K[i - 1] = g[i - 1] PROVE K[i] = g[i]
    <3>1. K[i] = body(K, i) /\ g[i] = body(g, i)
      BY <1>1, <1>4, <2>1
    <3> QED BY <2>3, <3>1
  <2> HIDE DEF n
  <2> QED BY <1>1, <1>5, <2>1, <2>2, <2>3, SameRun
<1>9. Kept(s, S) = K[n]
  <2>1. KeptOf(s, S) = K[n]
    BY DEF KeptOf
  <2>2. {KeptOf(t, T) : t \in {s}, T \in {S}} = {KeptOf(s, S)}
    OBVIOUS
  <2> HIDE DEF K, n
  <2> QED BY <2>1, <2>2 DEF Kept
<1>10. KeptRun(g, s, S)
  BY <1>1, <1>4 DEF KeptRun
<1> QED BY <1>4, <1>8, <1>9, <1>10

\* Of an empty sequence nothing is kept.
LEMMA KeptEmpty ==
  ASSUME NEW S
  PROVE  Kept(<<>>, S) = <<>>
<1>1. <<>> \in Seq({}) /\ Len(<<>>) = 0
  BY EmptySeq
<1>2. PICK g : KeptRun(g, <<>>, S) /\ Kept(<<>>, S) = g[0]
  BY <1>1, KeptEquation
<1> QED BY <1>2 DEF KeptRun

\* Kept of a sequence with one more element.
LEMMA KeptAppend ==
  ASSUME NEW X, NEW s \in Seq(X), NEW e \in X, NEW S
  PROVE  /\ Kept(s, S) \in Seq(X)
         /\ Kept(Append(s, e), S) = IF e \in S THEN Append(Kept(s, S), e) ELSE Kept(s, S)
<1> DEFINE n == Len(s)
           t == Append(s, e)
<1>1. n \in Nat /\ t \in Seq(X) /\ Len(t) = n + 1 /\ t[n + 1] = e
      /\ \A i \in 1..n : t[i] = s[i]
  BY LenProperties, AppendProperties
<1>2. PICK g \in [0..n -> Seq(X)] : KeptRun(g, s, S) /\ Kept(s, S) = g[n]
  BY KeptEquation
<1>3. PICK h \in [0..(n + 1) -> Seq(X)] : KeptRun(h, t, S) /\ Kept(t, S) = h[n + 1]
  <2>1. \E h \in [0..Len(t) -> Seq(X)] : KeptRun(h, t, S) /\ Kept(t, S) = h[Len(t)]
    <3> HIDE DEF t
    <3> QED BY <1>1, KeptEquation
  <2> HIDE DEF t, n
  <2> QED BY <1>1, <2>1
<1> DEFINE T == {i \in Nat : i <= n => g[i] = h[i]}
<1>4. 0 \in T
  BY <1>2, <1>3 DEF KeptRun
<1>5. ASSUME NEW i \in Nat, i \in T PROVE i + 1 \in T
  <2> SUFFICES ASSUME i + 1 <= n PROVE g[i + 1] = h[i + 1]
    OBVIOUS
  <2> HIDE DEF t, n
  <2>0. n \in Nat /\ i \in Nat /\ i + 1 <= n
    BY <1>1
  <2>0a. i + 1 \in 1..n /\ i + 1 \in 1..(n + 1) /\ (i + 1) - 1 = i /\ i <= n
    BY ONLY <2>0
  <2>0b. i <= n => g[i] = h[i]
    BY ONLY <1>5
  <2>1. i + 1 \in 1..n /\ i + 1 \in 1..(n + 1) /\ (i + 1) - 1 = i /\ g[i] = h[i]
    BY ONLY <2>0a, <2>0b
  <2>2. g[i + 1] = IF s[i + 1] \in S THEN Append(g[i], s[i + 1]) ELSE g[i]
    BY <1>2, <2>1 DEF KeptRun, n
  <2>3. h[i + 1] = IF t[i + 1] \in S THEN Append(h[i], t[i + 1]) ELSE h[i]
    BY <1>1, <1>3, <2>1 DEF KeptRun
  <2> QED BY <1>1, <2>1, <2>2, <2>3
<1>6. Nat \subseteq T
  <2> HIDE DEF T
  <2> QED BY <1>4, <1>5, NaturalInduction
<1> HIDE DEF t, n
<1>7. g[n] = h[n]
  BY <1>1, <1>6
<1>8. h[n + 1] = IF e \in S THEN Append(h[n], e) ELSE h[n]
  <2>1. n + 1 \in 1..(n + 1) /\ (n + 1) - 1 = n
    BY <1>1
  <2> QED BY <1>1, <1>3, <2>1 DEF KeptRun
<1> QED BY <1>1, <1>2, <1>3, <1>7, <1>8 DEF t

\* Kept depends on S only at the elements of the sequence.
LEMMA KeptSame ==
  ASSUME NEW X, NEW s \in Seq(X), NEW S, NEW T,
         \A i \in 1..Len(s) : s[i] \in S <=> s[i] \in T
  PROVE  Kept(s, S) = Kept(s, T)
<1> DEFINE Z == {r \in Seq(X) : (\A i \in 1..Len(r) : r[i] \in S <=> r[i] \in T)
                                  => Kept(r, S) = Kept(r, T)}
<1>1. <<>> \in Z
  BY KeptEmpty, EmptySeq
<1>2. ASSUME NEW r \in Seq(X), NEW e \in X, r \in Z PROVE Append(r, e) \in Z
  <2>1. Append(r, e) \in Seq(X) /\ Len(Append(r, e)) = Len(r) + 1
        /\ Append(r, e)[Len(r) + 1] = e /\ Len(r) \in Nat
        /\ \A i \in 1..Len(r) : Append(r, e)[i] = r[i]
    BY AppendProperties, LenProperties
  <2> SUFFICES ASSUME \A i \in 1..Len(Append(r, e)) : Append(r, e)[i] \in S <=> Append(r, e)[i] \in T
               PROVE  Kept(Append(r, e), S) = Kept(Append(r, e), T)
    BY <2>1
  <2>2. \A i \in 1..Len(r) : i \in 1..Len(Append(r, e))
    BY <2>1
  <2>3. Kept(r, S) = Kept(r, T)
    BY <1>2, <2>1, <2>2
  <2>4. e \in S <=> e \in T
    BY <2>1
  <2>5. Kept(Append(r, e), S) = IF e \in S THEN Append(Kept(r, S), e) ELSE Kept(r, S)
    BY KeptAppend
  <2>6. Kept(Append(r, e), T) = IF e \in T THEN Append(Kept(r, T), e) ELSE Kept(r, T)
    BY KeptAppend
  <2> QED BY <2>3, <2>4, <2>5, <2>6
<1>3. Seq(X) \subseteq Z
  <2> HIDE DEF Z
  <2> QED BY <1>1, <1>2, SequenceInduction
<1> QED BY <1>3

Positions(s, S) == {i \in 1..Len(s) : s[i] \in S}

\* There are at most as many positions as the sequence is long.
LEMMA PositionsFinite ==
  ASSUME NEW X, NEW s \in Seq(X), NEW S
  PROVE  /\ IsFiniteSet(Positions(s, S))
         /\ Cardinality(Positions(s, S)) \in Nat
         /\ Cardinality(Positions(s, S)) <= Len(s)
<1>1. Len(s) \in Nat /\ Positions(s, S) \subseteq 1..Len(s)
  BY LenProperties DEF Positions
<1>2. IsFiniteSet(1..Len(s)) /\ Cardinality(1..Len(s)) = Len(s)
  <2>1. ASSUME NEW n \in Nat PROVE IsFiniteSet(1..n) /\ Cardinality(1..n) = n
    BY FS_Interval
  <2> QED BY <1>1, <2>1
<1>3. IsFiniteSet(Positions(s, S)) /\ Cardinality(Positions(s, S)) <= Len(s)
  BY <1>1, <1>2, FS_Subset
<1> QED BY <1>3, FS_CardinalityType

\* The positions in a sequence with one more element.
LEMMA PositionsAppend ==
  ASSUME NEW X, NEW s \in Seq(X), NEW e \in X, NEW S
  PROVE  /\ Positions(Append(s, e), S) = Positions(s, S) \cup (IF e \in S THEN {Len(s) + 1} ELSE {})
         /\ Cardinality(Positions(Append(s, e), S))
              = Cardinality(Positions(s, S)) + (IF e \in S THEN 1 ELSE 0)
<1>1. Append(s, e) \in Seq(X) /\ Len(Append(s, e)) = Len(s) + 1
      /\ Append(s, e)[Len(s) + 1] = e /\ Len(s) \in Nat
      /\ \A i \in 1..Len(s) : Append(s, e)[i] = s[i]
  BY AppendProperties, LenProperties
<1>4. IsFiniteSet(Positions(s, S)) /\ Cardinality(Positions(s, S)) \in Nat
  BY PositionsFinite
<1>6. Positions(Append(s, e), S) = Positions(s, S) \cup (IF e \in S THEN {Len(s) + 1} ELSE {})
  BY <1>1 DEF Positions
<1>7. Cardinality(Positions(s, S) \cup {Len(s) + 1}) = Cardinality(Positions(s, S)) + 1
  <2>1. Len(s) + 1 \notin Positions(s, S)
    BY <1>1 DEF Positions
  <2> QED BY <1>4, <2>1, FS_AddElement
<1>8. Cardinality(Positions(Append(s, e), S))
        = Cardinality(Positions(s, S)) + (IF e \in S THEN 1 ELSE 0)
  <2>1. CASE e \in S
    BY <1>6, <1>7, <2>1
  <2>2. CASE e \notin S
    <3>1. Positions(Append(s, e), S) = Positions(s, S)
      BY <1>6, <2>2
    <3> QED BY <1>4, <2>2, <3>1
  <2> QED BY <2>1, <2>2
<1> QED BY <1>6, <1>8

\* What Kept gives: as many elements as there are positions of S, all of them
\* in S and in s, and none of these left out.
LEMMA KeptElements ==
  ASSUME NEW X, NEW s \in Seq(X), NEW S
  PROVE  /\ Kept(s, S) \in Seq(X)
         /\ Len(Kept(s, S)) = Cardinality(Positions(s, S))
         /\ Len(Kept(s, S)) <= Len(s)
         /\ \A i \in 1..Len(Kept(s, S)) : Kept(s, S)[i] \in S
         /\ \A x : (\E i \in 1..Len(Kept(s, S)) : Kept(s, S)[i] = x)
                     <=> x \in S /\ \E i \in 1..Len(s) : s[i] = x
<1> DEFINE A(x, r) == \E i \in 1..Len(r) : r[i] = x
           P(r) == /\ Kept(r, S) \in Seq(X)
                   /\ Len(Kept(r, S)) = Cardinality(Positions(r, S))
                   /\ \A x : A(x, Kept(r, S)) <=> x \in S /\ A(x, r)
           Z == {r \in Seq(X) : P(r)}
<1>1. ASSUME NEW r \in Seq(X), NEW e \in X
      PROVE  /\ Append(r, e) \in Seq(X) /\ Len(r) \in Nat /\ Len(Append(r, e)) = Len(r) + 1
             /\ \A x : A(x, Append(r, e)) <=> A(x, r) \/ x = e
  <2>1. Append(r, e) \in Seq(X) /\ Len(Append(r, e)) = Len(r) + 1
        /\ Append(r, e)[Len(r) + 1] = e /\ Len(r) \in Nat
        /\ \A i \in 1..Len(r) : Append(r, e)[i] = r[i]
    BY AppendProperties, LenProperties
  <2> QED BY <2>1
<1>2. <<>> \in Z
  <2>1. Kept(<<>>, S) = <<>> /\ <<>> \in Seq(X) /\ Len(<<>>) = 0
    BY KeptEmpty, EmptySeq
  <2>2. Positions(<<>>, S) = {}
    BY <2>1 DEF Positions
  <2>3. Cardinality(Positions(<<>>, S)) = 0
    BY <2>2, FS_EmptySet
  <2>4. P(<<>>)
    <3> HIDE DEF A
    <3>1. \A x : ~A(x, <<>>)
      BY <2>1 DEF A
    <3> QED BY <2>1, <2>3, <3>1
  <2> QED BY <2>1, <2>4
<1>3. ASSUME NEW r \in Seq(X), NEW e \in X, r \in Z PROVE Append(r, e) \in Z
  <2>1. P(r)
    BY <1>3
  <2>2. Append(r, e) \in Seq(X) /\ Kept(r, S) \in Seq(X)
    BY <1>1, <2>1
  <2>3. Kept(Append(r, e), S) = IF e \in S THEN Append(Kept(r, S), e) ELSE Kept(r, S)
    BY KeptAppend
  <2>4. CASE e \in S
    <3>1. Kept(Append(r, e), S) = Append(Kept(r, S), e)
      BY <2>3, <2>4
    <3>2. Append(Kept(r, S), e) \in Seq(X) /\ Len(Append(Kept(r, S), e)) = Len(Kept(r, S)) + 1
          /\ \A x : A(x, Append(Kept(r, S), e)) <=> A(x, Kept(r, S)) \/ x = e
      <4> HIDE DEF A
      <4> QED BY <2>2, <1>1
    <3>3. Cardinality(Positions(Append(r, e), S)) = Cardinality(Positions(r, S)) + 1
      BY <2>4, PositionsAppend
    <3>4. \A x : A(x, Append(r, e)) <=> A(x, r) \/ x = e
      <4> HIDE DEF A
      <4> QED BY <1>1
    <3> HIDE DEF A
    <3> QED BY <2>1, <2>2, <2>4, <3>1, <3>2, <3>3, <3>4
  <2>5. CASE e \notin S
    <3>1. Kept(Append(r, e), S) = Kept(r, S)
      BY <2>3, <2>5
    <3>2. Cardinality(Positions(Append(r, e), S)) = Cardinality(Positions(r, S))
      BY <2>5, PositionsAppend, PositionsFinite
    <3>4. \A x : A(x, Append(r, e)) <=> A(x, r) \/ x = e
      <4> HIDE DEF A
      <4> QED BY <1>1
    <3> HIDE DEF A
    <3> QED BY <2>1, <2>2, <2>5, <3>1, <3>2, <3>4
  <2> QED BY <2>4, <2>5
<1>4. Seq(X) \subseteq Z
  <2> HIDE DEF Z
  <2> QED BY <1>2, <1>3, SequenceInduction
<1>5. P(s)
  BY <1>4
<1>6. Cardinality(Positions(s, S)) <= Len(s)
  BY PositionsFinite
<1>7. \A i \in 1..Len(Kept(s, S)) : Kept(s, S)[i] \in S
  BY <1>5
<1> QED BY <1>5, <1>6, <1>7

\* The same, under one name.
SelectedFrom(X, s, S) ==
  /\ Kept(s, S) \in Seq(X)
  /\ Len(Kept(s, S)) = Cardinality(Positions(s, S))
  /\ Len(Kept(s, S)) <= Len(s)
  /\ \A i \in 1..Len(Kept(s, S)) : Kept(s, S)[i] \in S
  /\ \A x : (\E i \in 1..Len(Kept(s, S)) : Kept(s, S)[i] = x)
              <=> x \in S /\ \E i \in 1..Len(s) : s[i] = x

\* And what a reader of Kept needs, for one sequence and one set.
LEMMA KeptIsSelected ==
  ASSUME NEW X, NEW s \in Seq(X), NEW S
  PROVE  SelectedFrom(X, s, S)
BY KeptElements DEF SelectedFrom

(***************************************************************************)
(* Joined.                                                                 *)
(***************************************************************************)
JoinedRun(g, ss) ==
  g[0] = <<>> /\ \A i \in 1..Len(ss) : g[i] = g[i - 1] \o ss[i]

\* The run behind Joined, which appends the sequences one by one.
LEMMA JoinedEquation ==
  ASSUME NEW X, NEW ss \in Seq(Seq(X))
  PROVE  \E g \in [0..Len(ss) -> Seq(X)] : JoinedRun(g, ss) /\ Joined(ss) = g[Len(ss)]
<1> DEFINE n == Len(ss)
           F == [i \in 1..n |-> [t \in Seq(X) |-> t \o ss[i]]]
           body(g, i) == IF i = 0 THEN <<>> ELSE g[i - 1] \o ss[i]
           Eq(g) == g = [i \in 0..n |-> body(g, i)]
           J == CHOOSE g : Eq(g)
<1>1. n \in Nat /\ \A i \in 1..n : ss[i] \in Seq(X) /\ i - 1 \in 0..n /\ i \in 0..n /\ i # 0
  BY LenProperties
<1>2. StepsOn(F, n, Seq(X))
  <2>1. ASSUME NEW i \in 1..n, NEW t \in Seq(X) PROVE t \o ss[i] \in Seq(X)
    BY <1>1, ConcatProperties
  <2> QED BY <2>1 DEF StepsOn
<1>3. PICK g : RunOf(g, F, n, <<>>, Seq(X))
  <2>1. <<>> \in Seq(X)
    BY EmptySeq
  <2> HIDE DEF n, F
  <2> QED BY <1>1, <1>2, <2>1, Iterated
<1>4. g \in [0..n -> Seq(X)] /\ g[0] = <<>> /\ \A i \in 1..n : g[i] = body(g, i)
  <2>1. g \in [0..n -> Seq(X)] /\ g[0] = <<>> /\ \A i \in 1..n : g[i] = F[i][g[i - 1]]
    <3> HIDE DEF n, F
    <3> QED BY <1>3 DEF RunOf
  <2>2. \A i \in 1..n : g[i - 1] \in Seq(X)
    <3> HIDE DEF n, F
    <3> QED BY <1>1, <2>1
  <2> QED BY <1>1, <2>1, <2>2
<1>5. IsFunctionOn(g, 0..n)
  BY <1>4 DEF IsFunctionOn
<1>6. Eq(g)
  <2> DEFINE h == [i \in 0..n |-> body(g, i)]
  <2>1. IsFunctionOn(h, 0..n)
    BY DEF IsFunctionOn
  <2>2. ASSUME NEW i \in 0..n PROVE g[i] = h[i]
    <3>1. i = 0 \/ i \in 1..n
      BY <1>1
    <3>2. h[i] = body(g, i)
      OBVIOUS
    <3>3. CASE i = 0
      BY <3>2, <3>3, <1>4
    <3>4. CASE i \in 1..n
      <4> HIDE DEF body
      <4> QED BY <3>2, <3>4, <1>4
    <3> QED BY <3>1, <3>3, <3>4
  <2>3. g = h
    <3> HIDE DEF h
    <3> QED BY <1>5, <2>1, <2>2, SameFunction
  <2> QED BY <2>3
<1>7. Eq(J)
  <2> HIDE DEF Eq
  <2> QED BY <1>6
<1>8. J = g
  <2> HIDE DEF J
  <2>1. IsFunctionOn(J, 0..n) /\ \A i \in 0..n : J[i] = body(J, i)
    BY <1>7 DEF IsFunctionOn
  <2>2. J[0] = g[0]
    BY <1>1, <1>4, <2>1
  <2>3. ASSUME NEW i \in 1..n, J[i - 1] = g[i - 1] PROVE J[i] = g[i]
    <3>1. J[i] = body(J, i) /\ g[i] = body(g, i)
      BY <1>1, <1>4, <2>1
    <3> QED BY <2>3, <3>1
  <2> HIDE DEF n
  <2> QED BY <1>1, <1>5, <2>1, <2>2, <2>3, SameRun
<1>9. Joined(ss) = J[n]
  BY DEF Joined
<1>10. JoinedRun(g, ss)
  BY <1>1, <1>4 DEF JoinedRun
<1> QED BY <1>4, <1>8, <1>9, <1>10

\* The elements of a Joined sequence are those of its parts.
LEMMA JoinedElements ==
  ASSUME NEW X, NEW ss \in Seq(Seq(X))
  PROVE  /\ Joined(ss) \in Seq(X)
         /\ \A k \in 1..Len(Joined(ss)) :
              \E i \in 1..Len(ss) : \E j \in 1..Len(ss[i]) : Joined(ss)[k] = ss[i][j]
<1> DEFINE n == Len(ss)
<1>1. n \in Nat /\ \A i \in 1..n : ss[i] \in Seq(X)
  BY LenProperties
<1>2. PICK g \in [0..n -> Seq(X)] : JoinedRun(g, ss) /\ Joined(ss) = g[n]
  BY JoinedEquation
<1> DEFINE Of(x) == \E i \in 1..n : \E j \in 1..Len(ss[i]) : x = ss[i][j]
           T == {m \in Nat : m <= n => \A k \in 1..Len(g[m]) : Of(g[m][k])}
<1>3. 0 \in T
  <2>1. g[0] = <<>> /\ Len(<<>>) = 0
    BY <1>2, EmptySeq DEF JoinedRun
  <2> QED BY <2>1
<1>4. ASSUME NEW m \in Nat, m \in T PROVE m + 1 \in T
  <2> SUFFICES ASSUME m + 1 <= n, NEW k \in 1..Len(g[m + 1]) PROVE Of(g[m + 1][k])
    <3> HIDE DEF Of, n
    <3> QED OBVIOUS
  <2> HIDE DEF n
  <2>1. m + 1 \in 1..n /\ m \in 0..n /\ (m + 1) - 1 = m
    BY <1>1
  <2>2. g[m + 1] = g[m] \o ss[m + 1]
    BY <1>2, <2>1 DEF JoinedRun, n
  <2>3. g[m] \in Seq(X) /\ ss[m + 1] \in Seq(X)
    BY <1>1, <1>2, <2>1
  <2>4. Len(g[m]) \in Nat /\ Len(ss[m + 1]) \in Nat
    BY <2>3, LenProperties
  <2>5. /\ Len(g[m + 1]) = Len(g[m]) + Len(ss[m + 1])
        /\ g[m + 1][k] = IF k <= Len(g[m]) THEN g[m][k] ELSE ss[m + 1][k - Len(g[m])]
    BY <2>2, <2>3, ConcatProperties
  <2>6. CASE k <= Len(g[m])
    <3>1. k \in 1..Len(g[m])
      BY <2>4, <2>5, <2>6
    <3>2. Of(g[m][k])
      <4> HIDE DEF Of
      <4> QED BY <1>4, <2>1, <3>1
    <3> QED BY <2>5, <2>6, <3>2
  <2>7. CASE ~(k <= Len(g[m]))
    <3>1. k \in 1..(Len(g[m]) + Len(ss[m + 1]))
      <4>1. Len(g[m + 1]) = Len(g[m]) + Len(ss[m + 1])
        BY <2>5
      <4> QED BY <4>1
    <3>2. ASSUME NEW a \in Nat, NEW b \in Nat, NEW c \in 1..(a + b), ~(c <= a)
          PROVE  c - a \in 1..b
      BY <3>2
    <3>4. k - Len(g[m]) \in 1..Len(ss[m + 1])
      BY <2>4, <2>7, <3>1, <3>2
    <3>3. g[m + 1][k] = ss[m + 1][k - Len(g[m])]
      BY <2>5, <2>7
    <3> QED BY <2>1, <3>3, <3>4
  <2> QED BY <2>6, <2>7
<1>5. n \in T
  <2> HIDE DEF T
  <2> QED BY <1>1, <1>3, <1>4, NaturalInduction
<1> QED BY <1>1, <1>2, <1>5

(***************************************************************************)
(* The on-chain stage.                                                     *)
(***************************************************************************)
ChainFindings == [address : Address, kind : Kinds, severity : 0..4]
Results == [address : Address, findings : Seq(ChainFindings)]

ChainTypeOK ==
  /\ chain \in [Address -> Contracts]
  /\ addresses \in Seq(Address)
  /\ tokens \in 0..Rps
  /\ recent \in [1..Rps -> Nat]
  /\ at \in 1..(Len(addresses) + 1)
  /\ call \in 1..5
  /\ io \in {"idle", "sent"}
  /\ contract \in [verified : BOOLEAN, text : SUBSET Range(Patterns)]
  /\ answers \in Seq(Results)
  /\ all \in Seq(Seq(ChainFindings))

Rate == \A i \in 1..Rps : tokens + recent[i] <= Rps + i - 1

LostBefore == \A l \in lost : \E i \in 1..at, c \in 1..4 :
                l = <<i, Calls[c]>> /\ (i = at => c < call)
Fetched ==
  /\ io = "sent" => ~OnChainDone /\ call <= 4
  /\ ~OnChainDone =>
       /\ call > 1 => Given(at) /\ contract.text = chain[Here].text
       /\ call > 2 => contract.verified = (chain[Here].verified /\ <<at, "getsourcecode">> \notin lost)

GivenSet == {i \in 1..(at - 1) : Given(i)}
GivenList == Kept([i \in 1..(at - 1) |-> i], GivenSet)
AnswerRight(k, i) ==
  /\ answers[k].address = addresses[i]
  /\ \A p \in Range(Patterns) :
       Has(k, p) <=> p \in chain[addresses[i]].text /\ PatternSeverity[p] # Info
  /\ Has(k, "unverified-contract") <=>
       ~chain[addresses[i]].verified \/ <<i, "getsourcecode">> \in lost
  /\ {f \in Range(all[k]) : f.kind # "known-exploited-contract"}
       \subseteq Range(answers[k].findings)
Answered ==
  /\ Len(answers) = Len(GivenList) /\ Len(all) = Len(answers)
  /\ \A k \in 1..Len(answers) : AnswerRight(k, GivenList[k])

ChainInv == ChainTypeOK /\ Rate /\ LostBefore /\ Fetched /\ Answered

ChainStep == (\E list \in Seq(Address) : ChainReset(list)) \/ OnChainNext \/ Tick \/ UNCHANGED chainVars

\* Every step of the stages is one of the on-chain stage, a tick, the start
\* of a scan or nothing at all for the on-chain stage.
LEMMA NextIsChainStep == ASSUME [Next]_vars PROVE ChainStep
<1>1. <<>> \in Seq(Address)
  BY EmptySeq
<1>2. CASE Begin
  BY <1>2, AddressesAssumption DEF Begin, ChainStep
<1>3. CASE OnChainStage
  BY <1>3 DEF OnChainStage, ChainStep
<1>4. CASE Ticking
  BY <1>4 DEF Ticking, ChainStep
<1>5. CASE ToFormal
  BY <1>1, <1>5 DEF ToFormal, ChainStep
<1>6. CASE FormalStage
  BY <1>6 DEF FormalStage, ChainStep
<1>7. CASE Finish
  BY <1>7 DEF Finish, ChainStep
<1>8. CASE Kill
  BY <1>1, <1>8 DEF Kill, ChainStep
<1>9. CASE UNCHANGED vars
  BY <1>9 DEF vars, ChainStep
<1> QED BY <1>2, <1>3, <1>4, <1>5, <1>6, <1>7, <1>8, <1>9 DEF Next

Upto(n) == [i \in 1..n |-> i]

\* The sequence of the first numbers, which the answers are counted with.
LEMMA UptoSeq ==
  ASSUME NEW n \in Nat
  PROVE  Upto(n) \in Seq(Nat) /\ Len(Upto(n)) = n /\ \A i \in 1..n : Upto(n)[i] = i
BY DEF Upto

\* What is kept of the first m numbers, from what is kept of the first m - 1.
LEMMA UptoNext ==
  ASSUME NEW m \in Nat, m > 0, NEW T
  PROVE  Kept(Upto(m), T) = IF m \in T THEN Append(Kept(Upto(m - 1), T), m)
                                       ELSE Kept(Upto(m - 1), T)
<1> DEFINE s == Upto(m - 1)
           t == Upto(m)
           X == Nat
<1>1. s \in Seq(X) /\ Len(s) = m - 1 /\ (\A i \in 1..(m - 1) : s[i] = i) /\ m \in X
      /\ t \in Seq(X) /\ Len(t) = m /\ (\A i \in 1..m : t[i] = i)
  BY UptoSeq
<1> HIDE DEF s, t, X
<1>2. t = Append(s, m)
  <2>1. /\ Append(s, m) \in Seq(X) /\ Len(Append(s, m)) = (m - 1) + 1
        /\ \A i \in 1..(m - 1) : Append(s, m)[i] = s[i]
        /\ Append(s, m)[(m - 1) + 1] = m
    BY <1>1, AppendProperties
  <2>2. \A i \in 1..m : i \in 1..(m - 1) \/ i = (m - 1) + 1
    OBVIOUS
  <2>3. \A i \in 1..m : Append(s, m)[i] = i
    BY <1>1, <2>1, <2>2
  <2> QED BY <1>1, <2>1, <2>3, SeqEqual
<1>3. Kept(Append(s, m), T) = IF m \in T THEN Append(Kept(s, T), m) ELSE Kept(s, T)
  BY ONLY <1>1, KeptAppend
<1> QED BY <1>2, <1>3 DEF s, t

\* ChainInv, action by action: at the start,
LEMMA InitChain == ASSUME Init PROVE ChainInv
<1>1. PICK w \in Worlds : ChainIdle(<<>>, w)
  BY DEF Init
<1> USE DEF ChainIdle
<1>2. chain \in [Address -> Contracts]
  BY <1>1, WorldsAssumption
<1>3. <<>> \in Seq(Address) /\ Len(<<>>) = 0 /\ <<>> \in Seq(Results)
      /\ <<>> \in Seq(Seq(ChainFindings))
  BY EmptySeq
<1>4. ChainTypeOK
  BY <1>1, <1>2, <1>3, RpsAssumption DEF ChainTypeOK, NoContract
<1>5. Rate
  BY <1>1, RpsAssumption DEF Rate
<1>6. LostBefore /\ Fetched
  BY <1>1, <1>3 DEF LostBefore, Fetched, OnChainDone
<1>7. Answered
  <2>1. at - 1 = 0
    BY <1>1
  <2>2. [i \in 1..(at - 1) |-> i] = <<>>
    BY <2>1
  <2>3. GivenList = <<>>
    BY <2>2, KeptEmpty DEF GivenList
  <2> QED BY <1>1, <1>3, <2>3 DEF Answered
<1> QED BY <1>4, <1>5, <1>6, <1>7 DEF ChainInv

\* when a scan begins with a list of addresses,
LEMMA ResetChain ==
  ASSUME ChainInv, NEW list \in Seq(Address), ChainReset(list) PROVE ChainInv'
<1>1. /\ chain' = chain /\ addresses' = list
      /\ tokens' = Rps /\ recent' = [i \in 1..Rps |-> 0]
      /\ at' = 1 /\ call' = 1 /\ io' = "idle" /\ contract' = NoContract
      /\ answers' = <<>> /\ all' = <<>> /\ lost' = {}
  BY DEF ChainReset
<1>0. addresses' = list /\ at' = 1 /\ call' = 1 /\ io' = "idle"
  BY <1>1
<1>2. chain' \in [Address -> Contracts]
  BY <1>1 DEF ChainInv, ChainTypeOK
<1>3. list \in Seq(Address) /\ Len(list) \in Nat /\ Len(<<>>) = 0 /\ <<>> \in Seq(Results)
      /\ <<>> \in Seq(Seq(ChainFindings))
  BY EmptySeq, LenProperties
<1>4. ChainTypeOK'
  <2>1. at' \in 1..(Len(addresses') + 1)
    BY ONLY <1>0, <1>3
  <2>2. tokens' \in 0..Rps /\ recent' \in [1..Rps -> Nat]
    BY <1>1, RpsAssumption
  <2>3. contract' \in [verified : BOOLEAN, text : SUBSET Range(Patterns)]
    BY <1>1 DEF NoContract
  <2>4. addresses' \in Seq(Address) /\ call' \in 1..5 /\ io' \in {"idle", "sent"}
    BY ONLY <1>0, <1>3
  <2>5. answers' \in Seq(Results) /\ all' \in Seq(Seq(ChainFindings))
    BY <1>1, <1>3
  <2> QED BY <1>2, <2>1, <2>2, <2>3, <2>4, <2>5 DEF ChainTypeOK
<1>5. Rate'
  BY <1>1, RpsAssumption DEF Rate
<1>6. LostBefore' /\ Fetched'
  BY <1>1, <1>3 DEF LostBefore, Fetched, OnChainDone
<1>7. Answered'
  <2>1. at' - 1 = 0
    BY <1>1
  <2>2. [i \in 1..(at' - 1) |-> i] = <<>>
    BY <2>1
  <2>3. GivenList' = <<>>
    BY <2>2, KeptEmpty DEF GivenList
  <2> QED BY <1>1, <1>3, <2>3 DEF Answered
<1> QED BY <1>4, <1>5, <1>6, <1>7 DEF ChainInv

\* when the stage does nothing,
LEMMA SameChain == ASSUME ChainInv, UNCHANGED chainVars PROVE ChainInv'
<1> USE DEF chainVars
<1>1. ChainTypeOK' /\ Rate' /\ LostBefore'
  BY DEF ChainInv, ChainTypeOK, Rate, LostBefore
<1>2. Fetched'
  BY DEF ChainInv, Fetched, OnChainDone, Given, Here
<1>3. GivenList' = GivenList
  BY DEF GivenList, GivenSet, Given
<1>4. Answered'
  BY <1>3 DEF ChainInv, Answered, AnswerRight, Has
<1> QED BY <1>1, <1>2, <1>4 DEF ChainInv

\* when the limiter adds a token: the calls of the last window move on,
LEMMA TickChain == ASSUME ChainInv, Tick PROVE ChainInv'
<1> USE DEF Tick
<1>1. ChainTypeOK'
  BY RpsAssumption DEF ChainInv, ChainTypeOK, Filled
<1>2. Rate'
  <2> SUFFICES ASSUME NEW i \in 1..Rps PROVE tokens' + recent'[i] <= Rps + i - 1
    BY DEF Rate
  <2>1. tokens \in Nat /\ Rps \in Nat /\ tokens' \in Nat /\ tokens' <= tokens + 1 /\ tokens' <= Rps
    BY RpsAssumption DEF ChainInv, ChainTypeOK, Filled
  <2>2. CASE i = 1
    BY <2>1, <2>2
  <2>3. CASE i # 1
    <3>1. i - 1 \in 1..Rps
      BY <2>1, <2>3
    <3>2. tokens + recent[i - 1] <= Rps + (i - 1) - 1 /\ recent[i - 1] \in Nat
      BY <3>1 DEF ChainInv, ChainTypeOK, Rate
    <3>3. recent'[i] = recent[i - 1]
      BY <2>3
    <3> QED BY <2>1, <3>2, <3>3
  <2> QED BY <2>2, <2>3
<1>3. LostBefore'
  BY DEF ChainInv, LostBefore
<1>4. Fetched'
  BY DEF ChainInv, Fetched, OnChainDone, Given, Here
<1>5. GivenList' = GivenList
  BY DEF GivenList, GivenSet, Given
<1>6. Answered'
  BY <1>5 DEF ChainInv, Answered, AnswerRight, Has
<1> QED BY <1>1, <1>2, <1>3, <1>4, <1>6 DEF ChainInv

\* when a call takes a token and is sent,
LEMMA SendChain == ASSUME ChainInv, Send PROVE ChainInv'
<1> USE DEF Send, CanSend
<1>1. ChainTypeOK'
  BY RpsAssumption DEF ChainInv, ChainTypeOK
<1>2. Rate'
  BY RpsAssumption DEF ChainInv, ChainTypeOK, Rate
<1>3. LostBefore'
  BY DEF ChainInv, LostBefore
<1>4. Fetched'
  BY DEF ChainInv, Fetched, OnChainDone, Given, Here, Calls
<1>5. GivenList' = GivenList
  BY DEF GivenList, GivenSet, Given
<1>6. Answered'
  BY <1>5 DEF ChainInv, Answered, AnswerRight, Has
<1> QED BY <1>1, <1>2, <1>3, <1>4, <1>6 DEF ChainInv

\* What a change of lost and at does to the answers that are there.
LEMMA GivenAndAnswered ==
  ASSUME ChainInv, ~OnChainDone,
         UNCHANGED <<chain, addresses>>,
         at' \in {at, at + 1},
         lost \subseteq lost', \A l \in lost' \ lost : l[1] = at
  PROVE  /\ at' = at => GivenList' = GivenList
         /\ at' = at + 1 => \A i : i = at =>
              GivenList' = IF Given(i)' THEN Append(GivenList, i) ELSE GivenList
<1>1. at \in Nat /\ at > 0
  BY DEF ChainInv, ChainTypeOK
<1>2. \A i \in 1..(at - 1) : Given(i)' <=> Given(i)
  <2> SUFFICES ASSUME NEW i \in 1..(at - 1) PROVE Given(i)' <=> Given(i)
    OBVIOUS
  <2>1. i # at
    BY <1>1
  <2>2. <<i, "eth_getCode">> \in lost' <=> <<i, "eth_getCode">> \in lost
    BY <2>1
  <2> QED BY <2>2 DEF Given
<1>3. ASSUME at' = at PROVE GivenList' = GivenList
  <2>1. GivenSet' = GivenSet
    BY <1>2, <1>3 DEF GivenSet
  <2> QED BY <1>3, <2>1 DEF GivenList
<1>4. ASSUME at' = at + 1, NEW m, m = at
      PROVE  GivenList' = IF Given(m)' THEN Append(GivenList, m) ELSE GivenList
  <2> DEFINE n == m - 1
             S == GivenSet
             T == GivenSet'
  <2>1. n \in Nat /\ m \in Nat /\ m = n + 1 /\ at' - 1 = m /\ at - 1 = n
    BY <1>1, <1>4
  <2>2. S = {i \in 1..n : Given(i)} /\ T = {i \in 1..m : Given(i)'}
    BY <2>1 DEF GivenSet
  <2>3. \A i \in 1..n : i \in S <=> i \in T
    BY <1>2, <2>1, <2>2
  <2>4. m \in T <=> Given(m)'
    BY <2>1, <2>2
  <2>5. GivenList = Kept(Upto(n), S) /\ GivenList' = Kept(Upto(m), T)
    BY <2>1 DEF GivenList, Upto
  <2> HIDE DEF n, S, T
  <2>6. Kept(Upto(n), S) = Kept(Upto(n), T)
    <3>1. Upto(n) \in Seq(Nat) /\ Len(Upto(n)) = n /\ \A i \in 1..n : Upto(n)[i] = i
      BY <2>1, UptoSeq
    <3> QED BY ONLY <2>1, <2>3, <3>1, KeptSame
  <2>7. Kept(Upto(m), T) = IF m \in T THEN Append(Kept(Upto(m - 1), T), m) ELSE Kept(Upto(m - 1), T)
    <3>1. m \in Nat /\ m > 0
      BY <2>1
    <3> QED BY ONLY <3>1, UptoNext
  <2>8. m - 1 = n
    BY <2>1
  <2> QED BY <2>4, <2>5, <2>6, <2>7, <2>8
<1> QED BY <1>3, <1>4

\* GivenList holds addresses before the current one that were given a source.
LEMMA GivenElements ==
  ASSUME at \in Nat, at > 0
  PROVE  GivenList \in Seq(Nat) /\ \A k \in 1..Len(GivenList) : GivenList[k] \in 1..(at - 1) /\ Given(GivenList[k])
<1> DEFINE s == [i \in 1..(at - 1) |-> i]
<1>1. s \in Seq(Nat)
  OBVIOUS
<1>2. Kept(s, GivenSet) \in Seq(Nat) /\ \A k \in 1..Len(Kept(s, GivenSet)) : Kept(s, GivenSet)[k] \in GivenSet
  <2> HIDE DEF s
  <2> QED BY <1>1, KeptElements
<1> QED BY <1>2 DEF GivenList, GivenSet

\* when the answer to a call comes or is lost,
LEMMA ReplyChain == ASSUME ChainInv, NEW ok \in BOOLEAN, Reply(ok) PROVE ChainInv'
<1> DEFINE now == <<at, Calls[call]>>
<1>1. ~OnChainDone /\ io = "sent" /\ io' = "idle" /\ lost' = (IF ok THEN lost ELSE lost \cup {now})
      /\ UNCHANGED <<chain, addresses, tokens, recent, answers, all, stats>>
  BY DEF Reply
<1>2. /\ call \in 1..4 /\ call \in Nat /\ at \in Nat /\ at > 0 /\ at <= Len(addresses) /\ Len(addresses) \in Nat
      /\ Here \in Address /\ chain[Here] \in Contracts
  <2>1. Len(addresses) \in Nat /\ addresses \in Seq(Address)
    BY LenProperties DEF ChainInv, ChainTypeOK
  <2>2. at \in 1..Len(addresses)
    BY <1>1, <2>1 DEF ChainInv, ChainTypeOK, OnChainDone
  <2>3. Here \in Address
    BY <2>1, <2>2, ElementOfSeq DEF Here
  <2>4. call \in 1..4
    BY <1>1 DEF ChainInv, ChainTypeOK, Fetched
  <2> QED BY <2>1, <2>2, <2>3, <2>4 DEF ChainInv, ChainTypeOK
<1>3. \/ /\ call = 1 /\ ok /\ chain[Here].code
         /\ call' = 2 /\ at' = at /\ contract' = [contract EXCEPT !.text = chain[Here].text]
      \/ /\ call = 1 /\ ~(ok /\ chain[Here].code)
         /\ call' = 1 /\ at' = at + 1 /\ contract' = NoContract
      \/ /\ call = 2 /\ call' = 3 /\ at' = at
         /\ contract' = [contract EXCEPT !.verified = ok /\ chain[Here].verified]
      \/ /\ call \in {3, 4} /\ call' = call + 1 /\ at' = at /\ contract' = contract
  BY <1>2 DEF Reply, ReplyCode, ReplySource, ReplyDetail, NextAddress, Calls
<1>4. ChainTypeOK'
  <2>1. contract' \in [verified : BOOLEAN, text : SUBSET Range(Patterns)]
    <3>1. contract \in [verified : BOOLEAN, text : SUBSET Range(Patterns)]
      BY DEF ChainInv, ChainTypeOK
    <3>2. chain[Here].text \in SUBSET Range(Patterns) /\ chain[Here].verified \in BOOLEAN
      BY <1>2 DEF Contracts
    <3>3. NoContract \in [verified : BOOLEAN, text : SUBSET Range(Patterns)]
      BY DEF NoContract
    <3>4. [contract EXCEPT !.text = chain[Here].text] \in [verified : BOOLEAN, text : SUBSET Range(Patterns)]
      BY <3>1, <3>2
    <3>5. (ok /\ chain[Here].verified) \in BOOLEAN
      BY <3>2
    <3>6. [contract EXCEPT !.verified = ok /\ chain[Here].verified]
             \in [verified : BOOLEAN, text : SUBSET Range(Patterns)]
      BY <3>1, <3>5
    <3> QED BY <1>3, <3>1, <3>3, <3>4, <3>6
  <2>2. call' \in 1..5 /\ at' \in 1..(Len(addresses) + 1)
    BY <1>2, <1>3
  <2> QED BY <1>1, <2>1, <2>2 DEF ChainInv, ChainTypeOK
<1>5. Rate'
  BY <1>1 DEF ChainInv, Rate
<1>6. LostBefore'
  <2> SUFFICES ASSUME NEW l \in lost'
               PROVE  \E i \in 1..at', c \in 1..4 : l = <<i, Calls[c]>> /\ (i = at' => c < call')
    BY DEF LostBefore
  <2>1. at' \in Nat /\ at' >= at /\ (at' = at => call' = call + 1)
    BY <1>2, <1>3
  <2>2. CASE l \in lost
    <3>1. PICK i \in 1..at, c \in 1..4 : l = <<i, Calls[c]>> /\ (i = at => c < call)
      BY <2>2 DEF ChainInv, LostBefore
    <3>2. i \in 1..at' /\ (i = at' => c < call')
      BY <1>2, <1>3, <2>1, <3>1
    <3> QED BY <3>1, <3>2
  <2>3. CASE l = now
    <3>1. at \in 1..at' /\ (at = at' => call < call')
      BY <1>2, <1>3, <2>1
    <3> QED BY <1>2, <2>3, <3>1
  <2> QED BY <1>1, <2>2, <2>3
<1>7. \A c \in 1..4 : c # call /\ <<at, Calls[c]>> \notin lost => <<at, Calls[c]>> \notin lost'
  BY <1>1, <1>2 DEF Calls
<1>8. \A c \in 1..4 : c >= call => <<at, Calls[c]>> \notin lost
  BY <1>2 DEF ChainInv, LostBefore, Calls
<1>9. \A i \in Nat : <<i, "eth_getCode">> = <<i, Calls[1]>> /\ <<i, "getsourcecode">> = <<i, Calls[2]>>
  BY DEF Calls
<1>10. Fetched'
  <2> SUFFICES ASSUME ~OnChainDone'
        PROVE  /\ call' > 1 => Given(at)' /\ contract'.text = chain'[Here'].text
               /\ call' > 2 => contract'.verified = (chain'[Here'].verified /\ <<at', "getsourcecode">> \notin lost')
    BY <1>1 DEF Fetched
  <2>1. CASE at' = at + 1
    BY <1>2, <1>3, <2>1
  <2>2. CASE at' = at
    <3>1. Here' = Here /\ chain' = chain
      BY <1>1, <2>2 DEF Here
    <3>2. CASE call = 1
      <4>1. call' = 2 /\ ok /\ chain[Here].code /\ contract'.text = chain[Here].text
        BY <1>2, <1>3, <2>2, <3>2 DEF ChainInv, ChainTypeOK
      <4>2. <<at, "eth_getCode">> \notin lost'
        BY <1>1, <1>8, <1>2, <1>9, <3>2, <4>1
      <4>3. Given(at)'
        BY <1>1, <2>2, <4>1, <4>2 DEF Given, Here
      <4> QED BY <3>1, <4>1, <4>3
    <3>3. CASE call # 1
      <4>1. call > 1 /\ Given(at) /\ contract.text = chain[Here].text
        BY <1>1, <1>2, <3>3 DEF ChainInv, Fetched
      <4>2. <<at, "eth_getCode">> \notin lost'
        BY <1>2, <1>7, <1>9, <4>1 DEF Given
      <4>3. Given(at)'
        BY <1>1, <2>2, <4>1, <4>2 DEF Given
      <4>4. contract'.text = contract.text
        BY <1>2, <1>3, <2>2, <3>3 DEF ChainInv, ChainTypeOK
      <4>5. CASE call = 2
        <5>1. contract'.verified = (ok /\ chain[Here].verified)
          BY <1>2, <1>3, <4>5 DEF ChainInv, ChainTypeOK
        <5>2. <<at, "getsourcecode">> \notin lost' <=> ok
          BY <1>1, <1>2, <1>8, <1>9, <4>5
        <5> QED BY <2>2, <3>1, <4>1, <4>3, <4>4, <5>1, <5>2
      <4>6. CASE call > 2
        <5>1. contract' = contract
          BY <1>2, <1>3, <4>6
        <5>2. contract.verified = (chain[Here].verified /\ <<at, "getsourcecode">> \notin lost)
          BY <1>1, <4>6 DEF ChainInv, Fetched
        <5>3. <<at, "getsourcecode">> \in lost' <=> <<at, "getsourcecode">> \in lost
          BY <1>1, <1>2, <1>7, <1>9, <4>6
        <5> QED BY <2>2, <3>1, <4>1, <4>3, <5>1, <5>2, <5>3
      <4> QED BY <1>2, <3>3, <4>5, <4>6
    <3> QED BY <3>2, <3>3
  <2> QED BY <1>3, <2>1, <2>2
<1>11. GivenList' = GivenList
  <2>1. at' \in {at, at + 1} /\ lost \subseteq lost' /\ \A l \in lost' \ lost : l[1] = at
    BY <1>1, <1>3
  <2>2. ASSUME at' = at + 1, NEW i, i = at PROVE ~Given(i)'
    <3>1. call = 1 /\ ~(ok /\ chain[Here].code)
      BY <1>2, <1>3, <2>2
    <3>2. ~ok => <<at, "eth_getCode">> \in lost'
      BY <1>1, <1>2, <1>9, <3>1
    <3>3. ok => ~chain[addresses[i]].code
      BY <2>2, <3>1 DEF Here
    <3> QED BY <1>1, <2>2, <3>2, <3>3 DEF Given
  <2>3. CASE at' = at
    BY <1>1, <2>1, <2>3, GivenAndAnswered
  <2>4. CASE at' = at + 1
    <3>1. \A i : i = at => GivenList' = IF Given(i)' THEN Append(GivenList, i) ELSE GivenList
      BY <1>1, <2>1, <2>4, GivenAndAnswered
    <3> QED BY <2>2, <2>4, <3>1
  <2> QED BY <2>1, <2>3, <2>4
<1>12. Answered'
  <2> SUFFICES ASSUME NEW k \in 1..Len(answers) PROVE AnswerRight(k, GivenList[k])'
    BY <1>1, <1>11 DEF ChainInv, Answered
  <2>1. AnswerRight(k, GivenList[k]) /\ Len(answers) = Len(GivenList)
    BY DEF ChainInv, Answered
  <2>2. GivenList[k] \in 1..(at - 1)
    BY <1>2, <2>1, GivenElements
  <2> DEFINE i == GivenList[k]
  <2>3. i # at /\ GivenList'[k] = i
    BY <1>2, <1>11, <2>2
  <2> HIDE DEF i
  <2>4. <<i, "getsourcecode">> \in lost' <=> <<i, "getsourcecode">> \in lost
    BY <1>1, <2>3
  <2>5. AnswerRight(k, i)
    BY <2>1 DEF i
  <2>6. /\ answers'[k].address = addresses'[i]
        /\ \A p \in Range(Patterns) :
             Has(k, p)' <=> p \in chain'[addresses'[i]].text /\ PatternSeverity[p] # Info
        /\ Has(k, "unverified-contract")' <=>
             ~chain'[addresses'[i]].verified \/ <<i, "getsourcecode">> \in lost'
        /\ {f \in Range(all'[k]) : f.kind # "known-exploited-contract"}
             \subseteq Range(answers'[k].findings)
    BY <1>1, <2>4, <2>5 DEF AnswerRight, Has
  <2> QED BY <2>3, <2>6 DEF AnswerRight
<1> QED BY <1>4, <1>5, <1>6, <1>10, <1>12 DEF ChainInv

\* What AnalyzeContract says of a contract, from what was fetched.
LEMMA FindingsRight ==
  ASSUME contract \in [verified : BOOLEAN, text : SUBSET Range(Patterns)], Here \in Address
  PROVE  /\ StaticFindings \in Seq(ChainFindings)
         /\ \A p \in Range(Patterns) :
              (\E f \in Range(StaticFindings) : f.kind = p)
                <=> p \in contract.text /\ PatternSeverity[p] # Info
         /\ (\E f \in Range(StaticFindings) : f.kind = "unverified-contract") <=> ~contract.verified
<1> DEFINE D == {p \in Range(Patterns) : Dangerous(p)}
           L == Kept(Patterns, D)
           P == [i \in DOMAIN L |-> ChainFinding(L[i], PatternSeverity[L[i]])]
           one == IF contract.verified THEN ChainFinding("bytecode-mismatch", Critical)
                                       ELSE ChainFinding("unverified-contract", High)
<1>1. Patterns \in Seq(Range(Patterns)) /\ Range(Patterns) = {Patterns[i] : i \in 1..Len(Patterns)}
  BY PatternsAssumption, LenProperties DEF Range
<1>2. /\ L \in Seq(Range(Patterns))
      /\ \A i \in 1..Len(L) : L[i] \in D
      /\ \A x : (\E i \in 1..Len(L) : L[i] = x) <=> x \in D /\ \E i \in 1..Len(Patterns) : Patterns[i] = x
  <2> DEFINE X == Range(Patterns)
  <2>1. Patterns \in Seq(X)
    BY <1>1
  <2> HIDE DEF D, X
  <2>2. /\ Kept(Patterns, D) \in Seq(X)
        /\ \A i \in 1..Len(Kept(Patterns, D)) : Kept(Patterns, D)[i] \in D
        /\ \A x : (\E i \in 1..Len(Kept(Patterns, D)) : Kept(Patterns, D)[i] = x)
                    <=> x \in D /\ \E i \in 1..Len(Patterns) : Patterns[i] = x
    <3>1. SelectedFrom(X, Patterns, D)
      BY ONLY <2>1, KeptIsSelected
    <3> QED BY ONLY <3>1 DEF SelectedFrom
  <2>3. L = Kept(Patterns, D)
    OBVIOUS
  <2> HIDE DEF L
  <2>4. L \in Seq(X) /\ \A i \in 1..Len(L) : L[i] \in D
    BY ONLY <2>2, <2>3
  <2>5. \A x : (\E i \in 1..Len(L) : L[i] = x) <=> x \in D /\ \E i \in 1..Len(Patterns) : Patterns[i] = x
    BY ONLY <2>2, <2>3
  <2> QED BY ONLY <2>4, <2>5 DEF X
<1>3. \A x : (\E i \in 1..Len(L) : L[i] = x) <=> x \in D
  <2>1. \A x \in D : \E i \in 1..Len(Patterns) : Patterns[i] = x
    BY <1>1
  <2> HIDE DEF D, L
  <2> QED BY <1>2, <2>1
<1>4. Len(L) \in Nat /\ DOMAIN L = 1..Len(L)
  BY <1>2, LenProperties
<1>5. P \in Seq(ChainFindings) /\ Len(P) = Len(L)
  <2>1. ASSUME NEW i \in 1..Len(L) PROVE ChainFinding(L[i], PatternSeverity[L[i]]) \in ChainFindings
    <3>1. L[i] \in Range(Patterns) /\ L[i] \in Kinds
      <4> HIDE DEF L
      <4> QED BY <1>1, <1>2 DEF Kinds
    <3>2. PatternSeverity[L[i]] \in 0..4
      BY <3>1, SeverityAssumption
    <3> HIDE DEF L
    <3> QED BY <3>1, <3>2 DEF ChainFinding, ChainFindings
  <2> HIDE DEF L
  <2> QED BY <1>4, <2>1
<1>6. one \in ChainFindings
  <2>1. ASSUME NEW k \in Kinds, NEW v \in 0..4 PROVE ChainFinding(k, v) \in ChainFindings
    BY DEF ChainFinding, ChainFindings
  <2>2. High \in 0..4 /\ Critical \in 0..4
        /\ "bytecode-mismatch" \in Kinds /\ "unverified-contract" \in Kinds
    BY DEF High, Critical, Kinds, OwnKinds
  <2>3. ChainFinding("bytecode-mismatch", Critical) \in ChainFindings
    BY <2>1, <2>2
  <2>4. ChainFinding("unverified-contract", High) \in ChainFindings
    BY <2>1, <2>2
  <2> QED BY <2>3, <2>4
<1>7. PatternFindings = P
  BY DEF PatternFindings
<1> HIDE DEF P, one, L
<1>8. StaticFindings = <<one>> \o P
  BY <1>7 DEF StaticFindings, one
<1>9. <<one>> \in Seq(ChainFindings) /\ Len(<<one>>) = 1 /\ <<one>>[1] = one
  BY <1>6
<1>10. /\ StaticFindings \in Seq(ChainFindings) /\ Len(StaticFindings) = 1 + Len(P)
       /\ \A i \in 1..(1 + Len(P)) : StaticFindings[i] = IF i <= 1 THEN <<one>>[i] ELSE P[i - 1]
  BY <1>5, <1>8, <1>9, ConcatProperties
<1>11. \A f : f \in Range(StaticFindings) <=> f = one \/ \E i \in 1..Len(L) : f = P[i]
  <2>1. DOMAIN StaticFindings = 1..(1 + Len(L))
    BY <1>5, <1>10, LenProperties
  <2>2. StaticFindings[1] = one
    BY <1>4, <1>5, <1>9, <1>10
  <2>3. \A i \in 1..Len(L) : i + 1 \in 1..(1 + Len(L)) /\ StaticFindings[i + 1] = P[i]
    BY <1>4, <1>5, <1>10
  <2>4. \A j \in 1..(1 + Len(L)) : j = 1 \/ (j - 1 \in 1..Len(L) /\ j = (j - 1) + 1)
    BY <1>4
  <2>5. 1 \in 1..(1 + Len(L))
    BY <1>4
  <2>6. \A f : f \in Range(StaticFindings) <=> \E j \in 1..(1 + Len(L)) : f = StaticFindings[j]
    BY <2>1 DEF Range
  <2>7. ASSUME NEW j \in 1..(1 + Len(L))
        PROVE  StaticFindings[j] = one \/ \E i \in 1..Len(L) : StaticFindings[j] = P[i]
    BY <2>2, <2>3, <2>4
  <2> QED BY <2>2, <2>3, <2>5, <2>6, <2>7
<1>12. \A i \in 1..Len(L) : P[i].kind = L[i]
  BY <1>4 DEF P, ChainFinding
<1>13. one.kind = (IF contract.verified THEN "bytecode-mismatch" ELSE "unverified-contract")
  BY DEF one, ChainFinding
<1>14. one.kind \notin Range(Patterns) /\ "unverified-contract" \notin Range(Patterns)
  BY <1>13, PatternsAssumption DEF OwnKinds
<1>15. \A k : (\E f \in Range(StaticFindings) : f.kind = k)
                <=> one.kind = k \/ \E i \in 1..Len(L) : L[i] = k
  BY <1>11, <1>12
<1>16. \A k : (\E f \in Range(StaticFindings) : f.kind = k) <=> one.kind = k \/ k \in D
  BY <1>3, <1>15
<1>17. \A p \in Range(Patterns) : p \in D <=> p \in contract.text /\ PatternSeverity[p] # Info
  BY DEF Dangerous
<1>18. "unverified-contract" \notin D
  BY <1>14
<1> HIDE DEF D
<1> QED BY <1>10, <1>13, <1>14, <1>16, <1>17, <1>18

\* Counted and Exploits: nothing but findings of the answer, and the known
\* exploits.
LEMMA CountedRight ==
  ASSUME StaticFindings \in Seq(ChainFindings), Here \in Address
  PROVE  /\ Counted \o Exploits \in Seq(ChainFindings)
         /\ {f \in Range(Counted \o Exploits) : f.kind # "known-exploited-contract"}
              \subseteq Range(StaticFindings)
<1> DEFINE S == {f \in Range(StaticFindings) : f.severity >= MinSeverity}
<1>1. Counted \in Seq(ChainFindings) /\ \A i \in 1..Len(Counted) : Counted[i] \in S
  <2>1. Counted = Kept(StaticFindings, S)
    BY DEF Counted
  <2> HIDE DEF S
  <2> QED BY <2>1, KeptElements
<1>2. Exploits \in Seq(ChainFindings) /\ \A i \in 1..Len(Exploits) : Exploits[i].kind = "known-exploited-contract"
  <2>1. ChainFinding("known-exploited-contract", Critical) \in ChainFindings
    BY DEF ChainFinding, ChainFindings, Critical, Kinds, OwnKinds
  <2>2. ChainFinding("known-exploited-contract", Critical).kind = "known-exploited-contract"
    BY DEF ChainFinding
  <2>3. CASE chain[Here].exploited
    <3>1. Exploits = <<ChainFinding("known-exploited-contract", Critical)>>
      BY <2>3 DEF Exploits
    <3> QED BY <2>1, <2>2, <3>1
  <2>4. CASE ~chain[Here].exploited
    <3>1. Exploits = <<>>
      BY <2>4 DEF Exploits
    <3> QED BY <3>1
  <2> QED BY <2>3, <2>4
<1>3. Counted \o Exploits \in Seq(ChainFindings)
  BY <1>1, <1>2, ConcatProperties
<1>4. Range(Counted \o Exploits) = Range(Counted) \cup Range(Exploits)
  BY <1>1, <1>2, RangeConcatenation
<1>5. Range(Counted) \subseteq S
  BY <1>1, RangeEquality
<1>6. \A f \in Range(Exploits) : f.kind = "known-exploited-contract"
  BY <1>2, RangeEquality
<1> QED BY <1>3, <1>4, <1>5, <1>6

\* and when the result of an address is put together.
LEMMA AssembleChain == ASSUME ChainInv, Assemble PROVE ChainInv'
<1> DEFINE new == [address |-> Here, findings |-> StaticFindings]
           sum == Counted \o Exploits
<1>1. /\ ~OnChainDone /\ call > 4 /\ answers' = Append(answers, new) /\ all' = Append(all, sum)
      /\ at' = at + 1 /\ call' = 1 /\ contract' = NoContract
      /\ UNCHANGED <<chain, addresses, tokens, recent, io, lost>>
  BY DEF Assemble, NextAddress, Calls
<1>2. /\ call = 5 /\ at \in Nat /\ at > 0 /\ at <= Len(addresses) /\ Len(addresses) \in Nat
      /\ Here \in Address /\ chain[Here] \in Contracts
  <2>1. Len(addresses) \in Nat /\ addresses \in Seq(Address)
    BY LenProperties DEF ChainInv, ChainTypeOK
  <2>2. at \in 1..Len(addresses)
    BY <1>1, <2>1 DEF ChainInv, ChainTypeOK, OnChainDone
  <2>3. Here \in Address
    BY <2>1, <2>2, ElementOfSeq DEF Here
  <2>4. call = 5
    BY <1>1 DEF ChainInv, ChainTypeOK
  <2> QED BY <2>1, <2>2, <2>3, <2>4 DEF ChainInv, ChainTypeOK
<1>3. /\ Given(at) /\ contract.text = chain[Here].text
      /\ contract.verified = (chain[Here].verified /\ <<at, "getsourcecode">> \notin lost)
  BY <1>1, <1>2 DEF ChainInv, Fetched
<1>4. contract \in [verified : BOOLEAN, text : SUBSET Range(Patterns)]
      /\ answers \in Seq(Results) /\ all \in Seq(Seq(ChainFindings))
  BY DEF ChainInv, ChainTypeOK
<1>5. StaticFindings \in Seq(ChainFindings) /\ sum \in Seq(ChainFindings) /\ new \in Results
  BY <1>2, <1>4, FindingsRight, CountedRight DEF Results
<1> HIDE DEF new, sum
<1>6. /\ answers' \in Seq(Results) /\ Len(answers') = Len(answers) + 1 /\ Len(answers) \in Nat
      /\ answers'[Len(answers) + 1] = new
      /\ \A k \in 1..Len(answers) : answers'[k] = answers[k]
  BY <1>1, <1>4, <1>5, AppendProperties, LenProperties
<1>7. /\ all' \in Seq(Seq(ChainFindings)) /\ Len(all') = Len(all) + 1
      /\ all'[Len(all) + 1] = sum
      /\ \A k \in 1..Len(all) : all'[k] = all[k]
  BY <1>1, <1>4, <1>5, AppendProperties, LenProperties
<1>8. ChainTypeOK'
  <2>1. contract' \in [verified : BOOLEAN, text : SUBSET Range(Patterns)]
    BY <1>1 DEF NoContract
  <2>2. call' \in 1..5 /\ at' \in 1..(Len(addresses) + 1)
    BY <1>1, <1>2
  <2> QED BY <1>1, <1>6, <1>7, <2>1, <2>2 DEF ChainInv, ChainTypeOK
<1>9. Rate'
  BY <1>1 DEF ChainInv, Rate
<1>10. LostBefore'
  <2> SUFFICES ASSUME NEW l \in lost
               PROVE  \E i \in 1..at', c \in 1..4 : l = <<i, Calls[c]>> /\ (i = at' => c < call')
    BY <1>1 DEF LostBefore
  <2>1. PICK i \in 1..at, c \in 1..4 : l = <<i, Calls[c]>> /\ (i = at => c < call)
    BY DEF ChainInv, LostBefore
  <2>2. i \in 1..at' /\ i # at'
    BY <1>1, <1>2, <2>1
  <2> QED BY <2>1, <2>2
<1>11. Fetched'
  <2>1. io = "idle"
    BY <1>2 DEF ChainInv, ChainTypeOK, Fetched
  <2> QED BY <1>1, <2>1 DEF Fetched
<1>12. GivenList' = Append(GivenList, at)
  <2>1. \A i : i = at => GivenList' = IF Given(i)' THEN Append(GivenList, i) ELSE GivenList
    BY <1>1, GivenAndAnswered
  <2>2. ASSUME NEW i, i = at PROVE Given(i)'
    BY <1>1, <1>3, <2>2 DEF Given
  <2> QED BY <2>1, <2>2
<1>13. /\ GivenList \in Seq(Nat) /\ Len(GivenList) = Len(answers) /\ Len(all) = Len(answers)
       /\ \A k \in 1..Len(answers) : GivenList[k] \in 1..(at - 1) /\ AnswerRight(k, GivenList[k])
  BY <1>2, GivenElements DEF ChainInv, Answered
<1>14. /\ Len(GivenList') = Len(answers) + 1
       /\ GivenList'[Len(answers) + 1] = at
       /\ \A k \in 1..Len(answers) : GivenList'[k] = GivenList[k]
  <2> DEFINE X == Nat
             m == at
  <2>1. GivenList \in Seq(X) /\ m \in X
    BY <1>2, <1>13
  <2> HIDE DEF X, m
  <2>2. /\ Len(Append(GivenList, m)) = Len(GivenList) + 1
        /\ \A k \in 1..Len(GivenList) : Append(GivenList, m)[k] = GivenList[k]
        /\ Append(GivenList, m)[Len(GivenList) + 1] = m
    BY <2>1, AppendProperties
  <2> QED BY <1>12, <1>13, <2>2 DEF m
<1>15. ASSUME NEW k \in 1..Len(answers) PROVE AnswerRight(k, GivenList[k])'
  <2> DEFINE i == GivenList[k]
  <2>1. AnswerRight(k, i) /\ GivenList'[k] = i
    BY <1>13, <1>14
  <2> HIDE DEF i
  <2>2. answers'[k] = answers[k] /\ all'[k] = all[k] /\ chain' = chain /\ addresses' = addresses /\ lost' = lost
    BY <1>1, <1>6, <1>7, <1>13
  <2>3. /\ answers'[k].address = addresses'[i]
        /\ \A p \in Range(Patterns) :
             Has(k, p)' <=> p \in chain'[addresses'[i]].text /\ PatternSeverity[p] # Info
        /\ Has(k, "unverified-contract")' <=>
             ~chain'[addresses'[i]].verified \/ <<i, "getsourcecode">> \in lost'
        /\ {f \in Range(all'[k]) : f.kind # "known-exploited-contract"}
             \subseteq Range(answers'[k].findings)
    BY <2>1, <2>2 DEF AnswerRight, Has
  <2> QED BY <2>1, <2>3 DEF AnswerRight
<1>16. ASSUME NEW k, k = Len(answers) + 1 PROVE AnswerRight(k, GivenList[k])'
  <2> DEFINE i == at
  <2>1. GivenList'[k] = i /\ answers'[k] = new /\ all'[k] = sum
        /\ chain' = chain /\ addresses' = addresses /\ lost' = lost
    BY <1>1, <1>6, <1>7, <1>13, <1>14, <1>16
  <2>2. addresses[i] = Here /\ new.findings = StaticFindings /\ new.address = Here
    BY DEF Here, new
  <2>3. \A kind : Has(k, kind)' <=> \E f \in Range(StaticFindings) : f.kind = kind
    BY <2>1, <2>2 DEF Has
  <2>4. \A p \in Range(Patterns) :
          (\E f \in Range(StaticFindings) : f.kind = p) <=> p \in contract.text /\ PatternSeverity[p] # Info
    BY <1>2, <1>4, FindingsRight
  <2>5. (\E f \in Range(StaticFindings) : f.kind = "unverified-contract") <=> ~contract.verified
    BY <1>2, <1>4, FindingsRight
  <2>6. {f \in Range(sum) : f.kind # "known-exploited-contract"} \subseteq Range(StaticFindings)
    BY <1>2, <1>5, CountedRight DEF sum
  <2> HIDE DEF i
  <2>7. /\ answers'[k].address = addresses'[i]
        /\ \A p \in Range(Patterns) :
             Has(k, p)' <=> p \in chain'[addresses'[i]].text /\ PatternSeverity[p] # Info
        /\ Has(k, "unverified-contract")' <=>
             ~chain'[addresses'[i]].verified \/ <<i, "getsourcecode">> \in lost'
        /\ {f \in Range(all'[k]) : f.kind # "known-exploited-contract"}
             \subseteq Range(answers'[k].findings)
    BY <1>3, <2>1, <2>2, <2>3, <2>4, <2>5, <2>6 DEF i
  <2> QED BY <2>1, <2>7 DEF AnswerRight
<1>17. Answered'
  <2>1. \A k \in 1..Len(answers') : k \in 1..Len(answers) \/ k = Len(answers) + 1
    BY <1>6
  <2> QED BY <1>6, <1>7, <1>13, <1>14, <1>15, <1>16, <2>1 DEF Answered
<1> QED BY <1>8, <1>9, <1>10, <1>11, <1>17 DEF ChainInv

\* The inductive invariant of the on-chain stage.
LEMMA ChainInvariant == Spec => []ChainInv
<1>1. Init => ChainInv
  BY InitChain
<1>2. ChainInv /\ [Next]_vars => ChainInv'
  <2> SUFFICES ASSUME ChainInv, [Next]_vars PROVE ChainInv'
    OBVIOUS
  <2>1. ChainStep
    BY NextIsChainStep
  <2> QED BY <2>1, ResetChain, SameChain, TickChain, SendChain, ReplyChain, AssembleChain
        DEF ChainStep, OnChainNext
<1> QED BY <1>1, <1>2, PTL DEF Spec

\* However the ticks and the calls of the pipeline interleave, the explorer
\* is sent fewer than 2 * Rps calls in the time of Rps ticks (the token
\* bucket of rate_limiter.go starts full and is refilled one at a time).
THEOREM RateIsBounded == Spec => []RateBounded
<1>1. ChainInv => RateBounded
  <2> SUFFICES ASSUME ChainInv PROVE recent[Rps] <= 2 * Rps - 1
    BY DEF RateBounded
  <2>1. Rps \in Nat /\ Rps \in 1..Rps /\ tokens \in Nat /\ recent[Rps] \in Nat
    BY RpsAssumption DEF ChainInv, ChainTypeOK
  <2>2. tokens + recent[Rps] <= Rps + Rps - 1
    BY <2>1 DEF ChainInv, Rate
  <2> QED BY <2>1, <2>2
<1> QED BY <1>1, ChainInvariant, PTL

\* The results OnChainPipeline.Scan gives are those of the addresses whose
\* basic calls answered, in order, and each says what the contract has.
THEOREM AnswersAreRight == Spec => []AnswersRight
<1>1. ChainInv => AnswersRight
  <2> SUFFICES ASSUME ChainInv PROVE AnswersRight
    OBVIOUS
  <2>1. DOMAIN answers = 1..Len(answers)
    BY LenProperties DEF ChainInv, ChainTypeOK
  <2> QED BY <2>1 DEF ChainInv, Answered, AnswerRight, AnswersRight, GivenList, GivenSet
<1> QED BY <1>1, ChainInvariant, PTL

(***************************************************************************)
(* What the pure functions of the formal stage compute.                    *)
(***************************************************************************)
\* sortByPriority exchanges findings and adds none.
LEMMA ExchangeType ==
  ASSUME NEW X, NEW s \in Seq(X), NEW i \in 1..Len(s), NEW j \in 1..Len(s)
  PROVE  Exchange(s, i, j) \in Seq(X) /\ Len(Exchange(s, i, j)) = Len(s)
<1> DEFINE a == [s EXCEPT ![i] = s[j]]
           b == [a EXCEPT ![j] = s[i]]
<1>1. s[i] \in X /\ s[j] \in X
  BY ElementOfSeq
<1>2. a \in Seq(X) /\ Len(a) = Len(s)
  BY <1>1, ExceptSeq
<1>3. b \in Seq(X) /\ Len(b) = Len(s)
  <2> HIDE DEF a
  <2> QED BY <1>1, <1>2, ExceptSeq
<1>4. Swap(s, i, j) = b
  BY DEF Swap
<1> QED BY <1>3, <1>4 DEF Exchange

\* The counter of sortByPriority's two loops gives places of the sequence.
LEMMA Places ==
  ASSUME NEW n \in Nat, NEW k \in 1..(n * n)
  PROVE  ((k - 1) \div n) + 1 \in 1..n /\ ((k - 1) % n) + 1 \in 1..n
<1>1. n > 0
  <2>1. CASE n = 0
    BY <2>1
  <2> QED BY <2>1
<1>2. k \in Nat /\ k >= 1 /\ k <= n * n
  OBVIOUS
<1> DEFINE q == (k - 1) \div n
           r == (k - 1) % n
<1>3. q \in Nat /\ r \in Nat /\ r < n /\ k - 1 = q * n + r
  <2>1. k - 1 \in Nat
    BY <1>2
  <2> QED BY <1>1, <2>1
<1> HIDE DEF q, r
<1>4. q < n
  <2> SUFFICES ASSUME n <= q PROVE FALSE
    BY <1>3
  <2>3. q - n \in Nat /\ q = n + (q - n)
    BY <1>3
  <2>1. PICK c \in Nat : q = n + c
    BY <2>3
  <2>2. q * n = n * n + c * n /\ c * n \in Nat
    BY <2>1
  <2> QED BY <1>2, <1>3, <2>2
<1> QED BY <1>3, <1>4 DEF q, r

\* sortByPriority gives as many findings, of the same kind.
LEMMA SortType ==
  ASSUME NEW X, NEW s \in Seq(X)
  PROVE  SortByPriority(s) \in Seq(X)
<1> DEFINE n == Len(s)
           N == n * n
           Y == {t \in Seq(X) : Len(t) = n}
           a(k) == ((k - 1) \div n) + 1
           b(k) == ((k - 1) % n) + 1
           F == [k \in 1..N |-> [t \in Y |-> Exchange(t, a(k), b(k))]]
           body(g, k) == IF k = 0 THEN s
                         ELSE CHOOSE t \in {Exchange(r, a(k), b(k)) : r \in {g[k - 1]}} : TRUE
           Eq(g) == g = [k \in 0..N |-> body(g, k)]
           K == CHOOSE g : Eq(g)
<1>1. n \in Nat /\ N \in Nat /\ s \in Y /\ 0 \in 0..N
      /\ \A k \in 1..N : k - 1 \in 0..N /\ k \in 0..N /\ k # 0
  BY LenProperties
<1>2. ASSUME NEW k \in 1..N, NEW t \in Y PROVE Exchange(t, a(k), b(k)) \in Y
  <2>1. a(k) \in 1..n /\ b(k) \in 1..n
    BY <1>1, Places
  <2> HIDE DEF a, b
  <2> QED BY <2>1, ExchangeType
<1>3. ASSUME NEW g, NEW k \in 1..N PROVE body(g, k) = Exchange(g[k - 1], a(k), b(k))
  <2> HIDE DEF a, b
  <2>1. {Exchange(r, a(k), b(k)) : r \in {g[k - 1]}} = {Exchange(g[k - 1], a(k), b(k))}
    OBVIOUS
  <2>2. k # 0
    BY <1>1
  <2> QED BY <2>1, <2>2
<1> HIDE DEF a, b
<1>4. StepsOn(F, N, Y)
  <2> HIDE DEF N, Y
  <2> QED BY <1>2 DEF StepsOn
<1>5. PICK g : RunOf(g, F, N, s, Y)
  <2> HIDE DEF n, F, N, Y
  <2> QED BY <1>1, <1>4, Iterated
<1>6. g \in [0..N -> Y] /\ g[0] = s /\ \A k \in 1..N : g[k] = body(g, k)
  <2>1. g \in [0..N -> Y] /\ g[0] = s /\ \A k \in 1..N : g[k] = F[k][g[k - 1]]
    <3> HIDE DEF n, F, N, Y
    <3> QED BY <1>5 DEF RunOf
  <2> HIDE DEF N, Y, body
  <2>2. \A k \in 1..N : g[k - 1] \in Y
    BY <1>1, <2>1
  <2>3. \A k \in 1..N : F[k][g[k - 1]] = Exchange(g[k - 1], a(k), b(k))
    BY <2>2
  <2> QED BY <1>3, <2>1, <2>3
<1>7. Eq(g)
  <2> DEFINE h == [k \in 0..N |-> body(g, k)]
  <2>1. IsFunctionOn(h, 0..N) /\ IsFunctionOn(g, 0..N)
    <3> HIDE DEF N, Y
    <3> QED BY <1>6 DEF IsFunctionOn
  <2>2. ASSUME NEW k \in 0..N PROVE g[k] = h[k]
    <3>1. k = 0 \/ k \in 1..N
      BY <1>1
    <3>2. h[k] = body(g, k)
      OBVIOUS
    <3>3. CASE k = 0
      BY <3>2, <3>3, <1>6
    <3>4. CASE k \in 1..N
      <4> HIDE DEF body
      <4> QED BY <3>2, <3>4, <1>6
    <3> QED BY <3>1, <3>3, <3>4
  <2> HIDE DEF h
  <2> QED BY <2>1, <2>2, SameFunction DEF h
<1>8. Eq(K)
  <2> HIDE DEF Eq
  <2> QED BY <1>7
<1>9. K[0] = s /\ \A k \in 1..N : K[k] = Exchange(K[k - 1], a(k), b(k))
  <2> HIDE DEF K
  <2>1. \A k \in 0..N : K[k] = body(K, k)
    <3> HIDE DEF body
    <3> QED BY <1>8
  <2>2. body(K, 0) = s
    OBVIOUS
  <2> HIDE DEF body, N
  <2> QED BY <1>1, <1>3, <2>1, <2>2
<1> HIDE DEF K
<1> DEFINE T == {m \in Nat : m <= N => K[m] \in Y}
<1> HIDE DEF N, Y
<1>10. 0 \in T
  BY <1>1, <1>9
<1>11. ASSUME NEW m \in Nat, m \in T PROVE m + 1 \in T
  <2> SUFFICES ASSUME m + 1 <= N PROVE K[m + 1] \in Y
    OBVIOUS
  <2>1. m + 1 \in 1..N /\ (m + 1) - 1 = m /\ K[m] \in Y
    BY <1>1, <1>11
  <2>2. K[m + 1] = Exchange(K[m], a(m + 1), b(m + 1))
    BY <1>9, <2>1
  <2> QED BY <1>2, <2>1, <2>2
<1>12. N \in T
  <2> HIDE DEF T
  <2> QED BY <1>1, <1>10, <1>11, NaturalInduction
<1>13. SortByPriority(s) = K[N]
  BY DEF SortByPriority, K, N, a, b
<1> QED BY <1>1, <1>12, <1>13 DEF Y

\* Generate gives findings of the same kind.
LEMMA GenerateType ==
  ASSUME NEW X, NEW s \in Seq(X)
  PROVE  Generate(s) \in Seq(X)
<1> DEFINE r == SortByPriority(s)
           S == {f \in Range(r) : HasTarget(f)}
<1>1. r \in Seq(X)
  BY SortType
<1>2. Generate(s) = Kept(r, S)
  BY DEF Generate
<1> HIDE DEF r, S
<1> QED BY <1>1, <1>2, KeptElements

\* The findings of one priority.
Level(X, p) == {x \in X : PriorityOf(x) = p}
Ranked(X) == \A x \in X : PriorityOf(x) \in 1..4

\* Every finding has one of the four priorities.
LEMMA FindingsRanked == Ranked(Findings)
BY DEF Ranked, Findings, PriorityOf

\* What is kept of one priority does not depend on the other findings.
LEMMA LevelOfRange ==
  ASSUME NEW X, NEW s \in Seq(X), NEW p
  PROVE  Kept(s, {x \in Range(s) : PriorityOf(x) = p}) = Kept(s, Level(X, p))
<1> DEFINE S == {x \in Range(s) : PriorityOf(x) = p}
           T == Level(X, p)
<1>1. \A i \in 1..Len(s) : s[i] \in S <=> s[i] \in T
  BY LenProperties DEF Range, Level
<1> HIDE DEF S, T
<1> QED BY <1>1, KeptSame DEF S, T

\* Every finding is of one of four priorities.
LEMMA FourLevels ==
  ASSUME NEW X, Ranked(X), NEW s \in Seq(X)
  PROVE  Len(Kept(s, Level(X, 1))) + Len(Kept(s, Level(X, 2)))
           + Len(Kept(s, Level(X, 3))) + Len(Kept(s, Level(X, 4))) = Len(s)
<1> DEFINE K(r, p) == Kept(r, Level(X, p))
           Sum(r) == Len(K(r, 1)) + Len(K(r, 2)) + Len(K(r, 3)) + Len(K(r, 4))
           Z == {r \in Seq(X) : Sum(r) = Len(r)}
<1>1. <<>> \in Z
  <2>1. \A p : K(<<>>, p) = <<>>
    BY KeptEmpty
  <2>2. Len(<<>>) = 0 /\ <<>> \in Seq(X)
    BY EmptySeq
  <2> HIDE DEF K
  <2> QED BY <2>1, <2>2
<1>2. ASSUME NEW r \in Seq(X), NEW e \in X, r \in Z PROVE Append(r, e) \in Z
  <2>1. Append(r, e) \in Seq(X) /\ Len(Append(r, e)) = Len(r) + 1 /\ Len(r) \in Nat
    BY AppendProperties, LenProperties
  <2>2. ASSUME NEW p
        PROVE  Len(K(r, p)) \in Nat /\
               Len(K(Append(r, e), p)) = Len(K(r, p)) + (IF PriorityOf(e) = p THEN 1 ELSE 0)
    <3>1. K(r, p) \in Seq(X) /\ K(Append(r, e), p) = IF e \in Level(X, p) THEN Append(K(r, p), e) ELSE K(r, p)
      BY KeptAppend
    <3>2. e \in Level(X, p) <=> PriorityOf(e) = p
      BY DEF Level
    <3>3. Len(Append(K(r, p), e)) = Len(K(r, p)) + 1 /\ Len(K(r, p)) \in Nat
      BY <3>1, AppendProperties, LenProperties
    <3> QED BY <3>1, <3>2, <3>3
  <2>3. PriorityOf(e) \in 1..4
    BY DEF Ranked
  <2>4. Sum(r) = Len(r)
    BY <1>2
  <2> HIDE DEF K
  <2>5. Sum(Append(r, e)) = Sum(r) + 1
    <3>1. ASSUME NEW p
          PROVE  \E n \in Nat : Len(K(r, p)) = n /\
                   Len(K(Append(r, e), p)) = n + (IF PriorityOf(e) = p THEN 1 ELSE 0)
      BY ONLY <2>2
    <3>2. PICK n1 : n1 \in Nat /\ Len(K(r, 1)) = n1 /\
            Len(K(Append(r, e), 1)) = n1 + (IF PriorityOf(e) = 1 THEN 1 ELSE 0)
      BY ONLY <3>1
    <3>3. PICK n2 : n2 \in Nat /\ Len(K(r, 2)) = n2 /\
            Len(K(Append(r, e), 2)) = n2 + (IF PriorityOf(e) = 2 THEN 1 ELSE 0)
      BY ONLY <3>1
    <3>4. PICK n3 : n3 \in Nat /\ Len(K(r, 3)) = n3 /\
            Len(K(Append(r, e), 3)) = n3 + (IF PriorityOf(e) = 3 THEN 1 ELSE 0)
      BY ONLY <3>1
    <3>5. PICK n4 : n4 \in Nat /\ Len(K(r, 4)) = n4 /\
            Len(K(Append(r, e), 4)) = n4 + (IF PriorityOf(e) = 4 THEN 1 ELSE 0)
      BY ONLY <3>1
    <3> DEFINE d(p) == IF PriorityOf(e) = p THEN 1 ELSE 0
    <3>6. d(1) + d(2) + d(3) + d(4) = 1
      BY ONLY <2>3
    <3>7. Sum(r) = n1 + n2 + n3 + n4
      BY ONLY <3>2, <3>3, <3>4, <3>5
    <3>8. Sum(Append(r, e)) = (n1 + d(1)) + (n2 + d(2)) + (n3 + d(3)) + (n4 + d(4))
      BY ONLY <3>2, <3>3, <3>4, <3>5
    <3>9. PICK d1, d2, d3, d4 :
            /\ d1 \in Nat /\ d2 \in Nat /\ d3 \in Nat /\ d4 \in Nat
            /\ d1 = d(1) /\ d2 = d(2) /\ d3 = d(3) /\ d4 = d(4)
      OBVIOUS
    <3>10. d1 + d2 + d3 + d4 = 1
      BY ONLY <3>6, <3>9
    <3>11. Sum(Append(r, e)) = (n1 + d1) + (n2 + d2) + (n3 + d3) + (n4 + d4)
      BY ONLY <3>8, <3>9
    <3>12. n1 \in Nat /\ n2 \in Nat /\ n3 \in Nat /\ n4 \in Nat
      BY ONLY <3>2, <3>3, <3>4, <3>5
    <3>13. (n1 + d1) + (n2 + d2) + (n3 + d3) + (n4 + d4) = (n1 + n2 + n3 + n4) + 1
      BY ONLY <3>9, <3>10, <3>12
    <3> HIDE DEF Sum
    <3> QED BY ONLY <3>7, <3>11, <3>13
  <2> QED BY <2>1, <2>4, <2>5
<1>3. Seq(X) \subseteq Z
  <2> HIDE DEF Z
  <2> QED BY <1>1, <1>2, SequenceInduction
<1> QED BY <1>3

\* Two sequences, and four, one after the other.
Among(x, s) == \E j \in 1..Len(s) : x = s[j]

\* The elements of two sequences, one after the other.
LEMMA TwoInARow ==
  ASSUME NEW X, NEW u \in Seq(X), NEW v \in Seq(X)
  PROVE  /\ u \o v \in Seq(X) /\ Len(u \o v) = Len(u) + Len(v)
         /\ Len(u) \in Nat /\ Len(v) \in Nat
         /\ \A i \in 1..Len(u) : (u \o v)[i] = u[i]
         /\ \A i \in 1..Len(u \o v) : i > Len(u) => Among((u \o v)[i], v)
<1>1. /\ u \o v \in Seq(X) /\ Len(u \o v) = Len(u) + Len(v)
      /\ Len(u) \in Nat /\ Len(v) \in Nat
      /\ \A i \in 1..Len(u) + Len(v) : (u \o v)[i] = IF i <= Len(u) THEN u[i] ELSE v[i - Len(u)]
  BY ConcatProperties, LenProperties
<1>2. ASSUME NEW i \in 1..Len(u \o v), i > Len(u) PROVE Among((u \o v)[i], v)
  <2>1. i - Len(u) \in 1..Len(v) /\ (u \o v)[i] = v[i - Len(u)]
    BY <1>1, <1>2
  <2> QED BY <2>1 DEF Among
<1> QED BY <1>1, <1>2

InARow(B, X, s, t, u, v) ==
  /\ B \in Seq(X) /\ Len(B) = Len(s) + Len(t) + Len(u) + Len(v)
  /\ \A i \in 1..Len(B) :
       /\ i <= Len(s) => Among(B[i], s)
       /\ Len(s) < i /\ i <= Len(s) + Len(t) => Among(B[i], t)
       /\ Len(s) + Len(t) < i /\ i <= Len(s) + Len(t) + Len(u) => Among(B[i], u)
       /\ Len(s) + Len(t) + Len(u) < i => Among(B[i], v)

\* And of four.
LEMMA FourInARow ==
  ASSUME NEW X, NEW s \in Seq(X), NEW t \in Seq(X), NEW u \in Seq(X), NEW v \in Seq(X)
  PROVE  InARow(s \o t \o u \o v, X, s, t, u, v)
<1> DEFINE C == s \o t
           D == C \o u
           B == D \o v
<1>1. /\ C \in Seq(X) /\ Len(C) = Len(s) + Len(t) /\ Len(s) \in Nat /\ Len(t) \in Nat
      /\ \A i \in 1..Len(s) : C[i] = s[i]
      /\ \A i \in 1..Len(C) : i > Len(s) => Among(C[i], t)
  BY TwoInARow
<1> HIDE DEF C
<1>2. /\ D \in Seq(X) /\ Len(D) = Len(C) + Len(u) /\ Len(u) \in Nat
      /\ \A i \in 1..Len(C) : D[i] = C[i]
      /\ \A i \in 1..Len(D) : i > Len(C) => Among(D[i], u)
  BY <1>1, TwoInARow
<1> HIDE DEF D
<1>3. /\ B \in Seq(X) /\ Len(B) = Len(D) + Len(v) /\ Len(v) \in Nat
      /\ \A i \in 1..Len(D) : B[i] = D[i]
      /\ \A i \in 1..Len(B) : i > Len(D) => Among(B[i], v)
  BY <1>2, TwoInARow
<1> HIDE DEF B
<1>4. ASSUME NEW i \in 1..Len(B)
      PROVE  /\ i <= Len(s) => Among(B[i], s)
             /\ Len(s) < i /\ i <= Len(C) => Among(B[i], t)
             /\ Len(C) < i /\ i <= Len(D) => Among(B[i], u)
             /\ Len(D) < i => Among(B[i], v)
  <2>1. CASE i <= Len(s)
    <3>1. i \in 1..Len(s) /\ i \in 1..Len(C) /\ i \in 1..Len(D)
      BY <1>1, <1>2, <2>1
    <3>2. B[i] = s[i]
      BY <1>1, <1>2, <1>3, <3>1
    <3> QED BY <1>1, <1>2, <2>1, <3>1, <3>2 DEF Among
  <2>2. CASE Len(s) < i /\ i <= Len(C)
    <3>1. i \in 1..Len(C) /\ i \in 1..Len(D)
      BY <1>1, <1>2, <2>2
    <3>2. B[i] = C[i]
      BY <1>2, <1>3, <3>1
    <3> QED BY <1>1, <1>2, <2>2, <3>1, <3>2
  <2>3. CASE Len(C) < i /\ i <= Len(D)
    <3>1. i \in 1..Len(D)
      BY <1>1, <1>2, <2>3
    <3> QED BY <1>1, <1>2, <1>3, <2>3, <3>1
  <2>4. CASE Len(D) < i
    BY <1>1, <1>2, <1>3, <2>4
  <2>5. i \in Int /\ Len(s) \in Int /\ Len(C) \in Int /\ Len(D) \in Int
    BY <1>1, <1>2, <1>3
  <2> QED BY <2>1, <2>2, <2>3, <2>4, <2>5
<1>5. B = s \o t \o u \o v
  BY DEF B, C, D
<1>6. InARow(B, X, s, t, u, v)
  BY <1>1, <1>2, <1>3, <1>4 DEF InARow
<1> QED BY <1>5, <1>6

\* ByPriority is a sequence in which the most severe come first: those of
\* priority p are one after the other, and all after them are less severe.
Interval(s, p, lo, n) ==
  /\ lo + n <= Len(s)
  /\ \A i \in (lo + 1)..(lo + n) : PriorityOf(s[i]) = p
  /\ \A i \in 1..Len(s) : PriorityOf(s[i]) < p => i > lo + n

\* ByPriority has the same findings, and each priority is an interval of it.
LEMMA ByPriorityOrder ==
  ASSUME NEW X, Ranked(X), NEW s \in Seq(X)
  PROVE  /\ ByPriority(s) \in Seq(X) /\ Len(ByPriority(s)) = Len(s)
         /\ \A i \in 1..Len(ByPriority(s)) : \E j \in 1..Len(s) : ByPriority(s)[i] = s[j]
         /\ \A p \in 1..4 : \E lo \in Nat :
              Interval(ByPriority(s), p, lo, Cardinality(Positions(s, Level(X, p))))
<1> DEFINE A(p) == Kept(s, Level(X, p))
           a(p) == Len(A(p))
           c(p) == Cardinality(Positions(s, Level(X, p)))
           B == ByPriority(s)
<1>1. ASSUME NEW p
      PROVE  /\ A(p) \in Seq(X) /\ a(p) \in Nat /\ a(p) = c(p)
             /\ \A i \in 1..a(p) : PriorityOf(A(p)[i]) = p /\ \E j \in 1..Len(s) : A(p)[i] = s[j]
  <2>1. /\ A(p) \in Seq(X) /\ a(p) = c(p)
        /\ \A i \in 1..a(p) : A(p)[i] \in Level(X, p)
        /\ \A x : (\E i \in 1..a(p) : A(p)[i] = x) <=> x \in Level(X, p) /\ \E i \in 1..Len(s) : s[i] = x
    <3> DEFINE S == Level(X, p)
    <3> HIDE DEF S
    <3>1. /\ Kept(s, S) \in Seq(X) /\ Len(Kept(s, S)) = Cardinality(Positions(s, S))
          /\ \A i \in 1..Len(Kept(s, S)) : Kept(s, S)[i] \in S
          /\ \A x : (\E i \in 1..Len(Kept(s, S)) : Kept(s, S)[i] = x) <=> x \in S /\ \E i \in 1..Len(s) : s[i] = x
      <4>1. s \in Seq(X)
        OBVIOUS
      <4>2. SelectedFrom(X, s, S)
        BY ONLY <4>1, KeptIsSelected
      <4> QED BY ONLY <4>2 DEF SelectedFrom
    <3> QED BY <3>1 DEF S
  <2>2. a(p) \in Nat
    BY <2>1, LenProperties
  <2>3. \A i \in 1..a(p) : PriorityOf(A(p)[i]) = p
    BY <2>1 DEF Level
  <2>4. \A i \in 1..a(p) : \E j \in 1..Len(s) : A(p)[i] = s[j]
    <3> HIDE DEF A
    <3> QED BY <2>1
  <2> QED BY <2>1, <2>2, <2>3, <2>4
<1>2. B = A(4) \o A(3) \o A(2) \o A(1)
  BY LevelOfRange DEF ByPriority
<1>3. a(1) + a(2) + a(3) + a(4) = Len(s)
  BY FourLevels
<1> HIDE DEF A, B, c
<1>4. /\ B \in Seq(X) /\ Len(B) = a(4) + a(3) + a(2) + a(1)
      /\ \A i \in 1..Len(B) :
           /\ i <= a(4) => Among(B[i], A(4))
           /\ a(4) < i /\ i <= a(4) + a(3) => Among(B[i], A(3))
           /\ a(4) + a(3) < i /\ i <= a(4) + a(3) + a(2) => Among(B[i], A(2))
           /\ a(4) + a(3) + a(2) < i => Among(B[i], A(1))
  <2>1. A(1) \in Seq(X) /\ A(2) \in Seq(X) /\ A(3) \in Seq(X) /\ A(4) \in Seq(X)
    BY <1>1
  <2>2. InARow(B, X, A(4), A(3), A(2), A(1))
    BY <1>2, <2>1, FourInARow
  <2> QED BY <2>2 DEF InARow
<1>5. ASSUME NEW p, NEW x, Among(x, A(p)) PROVE PriorityOf(x) = p /\ \E j \in 1..Len(s) : x = s[j]
  BY <1>1, <1>5 DEF Among
<1>6. a(1) \in Nat /\ a(2) \in Nat /\ a(3) \in Nat /\ a(4) \in Nat
  BY <1>1
<1> HIDE DEF a
<1>7. PICK n1 \in Nat, n2 \in Nat, n3 \in Nat, n4 \in Nat :
        n1 = a(1) /\ n2 = a(2) /\ n3 = a(3) /\ n4 = a(4)
  BY <1>6
<1> DEFINE l2 == n4 + n3
           l1 == n4 + n3 + n2
<1>9. Len(B) = n4 + n3 + n2 + n1
  BY <1>4, <1>7
<1>8. ASSUME NEW i \in 1..Len(B)
      PROVE  /\ i <= n4 => PriorityOf(B[i]) = 4
             /\ n4 < i /\ i <= l2 => PriorityOf(B[i]) = 3
             /\ l2 < i /\ i <= l1 => PriorityOf(B[i]) = 2
             /\ l1 < i => PriorityOf(B[i]) = 1
             /\ \E j \in 1..Len(s) : B[i] = s[j]
  <2>1. /\ i <= n4 => Among(B[i], A(4))
        /\ n4 < i /\ i <= l2 => Among(B[i], A(3))
        /\ l2 < i /\ i <= l1 => Among(B[i], A(2))
        /\ l1 < i => Among(B[i], A(1))
    BY <1>4, <1>7
  <2>2. i \in Int /\ n4 \in Int /\ l2 \in Int /\ l1 \in Int
    BY <1>9
  <2>3. i <= n4 \/ (n4 < i /\ i <= l2) \/ (l2 < i /\ i <= l1) \/ l1 < i
    BY <2>2
  <2> HIDE DEF l2, l1
  <2> QED BY <1>5, <2>1, <2>3
<1>10. /\ Interval(B, 4, 0, n4) /\ Interval(B, 3, n4, n3)
       /\ Interval(B, 2, l2, n2) /\ Interval(B, 1, l1, n1)
  <2>1. Interval(B, 4, 0, n4)
    BY <1>8, <1>9 DEF Interval
  <2>2. Interval(B, 3, n4, n3)
    BY <1>8, <1>9 DEF Interval
  <2>3. Interval(B, 2, l2, n2)
    BY <1>8, <1>9 DEF Interval
  <2>4. Interval(B, 1, l1, n1)
    BY <1>8, <1>9 DEF Interval
  <2> QED BY <2>1, <2>2, <2>3, <2>4
<1>11. ASSUME NEW p \in 1..4 PROVE \E lo \in Nat : Interval(B, p, lo, c(p))
  <2>1. a(p) = c(p)
    BY <1>1 DEF a
  <2>2. 0 \in Nat /\ n4 \in Nat /\ l2 \in Nat /\ l1 \in Nat
    OBVIOUS
  <2> HIDE DEF l1, l2
  <2>3. \E lo \in Nat : Interval(B, p, lo, a(p))
    BY <1>7, <1>10, <2>2
  <2> QED BY <2>1, <2>3
<1>12. Len(B) = Len(s)
  BY <1>3, <1>7, <1>9
<1>13. \A i \in 1..Len(B) : \E j \in 1..Len(s) : B[i] = s[j]
  BY <1>8
<1> QED BY <1>4, <1>11, <1>12, <1>13 DEF B, c

\* The first n elements of a sequence, or all of them.
LEMMA FirstOfPart ==
  ASSUME NEW X, NEW s \in Seq(X), NEW n \in Nat
  PROVE  /\ FirstOf(s, n) \in Seq(X)
         /\ Len(FirstOf(s, n)) = IF Len(s) < n THEN Len(s) ELSE n
         /\ Len(FirstOf(s, n)) \in Nat /\ Len(FirstOf(s, n)) <= Len(s)
         /\ \A i \in 1..Len(FirstOf(s, n)) : FirstOf(s, n)[i] = s[i]
<1> DEFINE m == IF Len(s) < n THEN Len(s) ELSE n
<1>1. m \in Nat /\ m <= Len(s) /\ Len(s) \in Nat /\ \A i \in 1..m : s[i] \in X
  BY LenProperties
<1>2. FirstOf(s, n) = SubSeq(s, 1, m)
  BY DEF FirstOf
<1> HIDE DEF m
<1>3. /\ SubSeq(s, 1, m) \in Seq(X) /\ Len(SubSeq(s, 1, m)) = (IF 1 <= m THEN m - 1 + 1 ELSE 0)
      /\ \A i \in 1..(m - 1 + 1) : SubSeq(s, 1, m)[i] = s[1 + i - 1]
  BY <1>1, SubSeqProperties
<1>4. Len(SubSeq(s, 1, m)) = m
  BY <1>1, <1>3
<1> QED BY <1>1, <1>2, <1>3, <1>4 DEF m

\* What filterTargets selects of ts, as MostSevereChosen says it.
MostSevere(ts, sel) ==
  LET eligible == Kept(ts, {t \in Range(ts) : PriorityOf(t) >= opts.min})
      Count(s, p) == Cardinality({i \in DOMAIN s : PriorityOf(s[i]) = p})
  IN /\ Len(sel) = IF Len(eligible) < opts.max THEN Len(eligible) ELSE opts.max
     /\ Range(sel) \subseteq Range(eligible)
     /\ \A p \in 1..4 : Count(sel, p) < Count(eligible, p) =>
          \A i \in DOMAIN sel : PriorityOf(sel[i]) >= p

\* filterTargets keeps the most severe of the eligible targets.
LEMMA SelectionRight ==
  ASSUME NEW ts \in Seq(Findings), opts.max \in Nat
  PROVE  FilterTargets(ts) \in Seq(Findings) /\ MostSevere(ts, FilterTargets(ts))
<1> DEFINE S == {t \in Range(ts) : PriorityOf(t) >= opts.min}
           e == Kept(ts, S)
           B == ByPriority(e)
           m == opts.max
           sel == FirstOf(B, m)
           Count(s, p) == Cardinality({i \in DOMAIN s : PriorityOf(s[i]) = p})
           X == Findings
<1>1. FilterTargets(ts) = sel /\ m \in Nat
  BY DEF FilterTargets
<1>2. e \in Seq(X)
  <2> HIDE DEF S, X
  <2> QED BY KeptElements DEF X
<1>3. Ranked(X)
  BY FindingsRanked
<1> HIDE DEF X, e
<1>4. /\ B \in Seq(X) /\ Len(B) = Len(e)
      /\ \A i \in 1..Len(B) : \E j \in 1..Len(e) : B[i] = e[j]
      /\ \A p \in 1..4 : \E lo \in Nat : Interval(B, p, lo, Cardinality(Positions(e, Level(X, p))))
  BY <1>2, <1>3, ByPriorityOrder
<1> HIDE DEF B, m
<1>5. /\ sel \in Seq(X) /\ Len(sel) = (IF Len(B) < m THEN Len(B) ELSE m)
      /\ Len(sel) \in Nat /\ Len(sel) <= Len(B)
      /\ \A i \in 1..Len(sel) : sel[i] = B[i]
  BY <1>1, <1>4, FirstOfPart
<1> HIDE DEF sel
<1>6. DOMAIN sel = 1..Len(sel) /\ DOMAIN e = 1..Len(e) /\ Len(e) \in Nat
  BY <1>2, <1>5, LenProperties
<1>7. Range(sel) \subseteq Range(e)
  <2> SUFFICES ASSUME NEW i \in 1..Len(sel) PROVE \E j \in 1..Len(e) : sel[i] = e[j]
    BY <1>6 DEF Range
  <2>1. i \in 1..Len(B)
    BY <1>4, <1>5, <1>6
  <2> QED BY <1>4, <1>5, <2>1
<1>8. ASSUME NEW p \in 1..4, Count(sel, p) < Count(e, p), NEW k \in DOMAIN sel
      PROVE  PriorityOf(sel[k]) >= p
  <2>1. Count(e, p) = Cardinality(Positions(e, Level(X, p)))
    <3>1. {i \in DOMAIN e : PriorityOf(e[i]) = p} = Positions(e, Level(X, p))
      BY <1>2, <1>6, ElementOfSeq DEF Positions, Level
    <3> QED BY <3>1
  <2>2. Count(e, p) \in Nat
    BY <1>2, <2>1, PositionsFinite
  <2>3. PICK n \in Nat : n = Count(e, p)
    BY <2>2
  <2>4. PICK lo \in Nat : Interval(B, p, lo, n)
    BY <1>4, <2>1, <2>3
  <2>5. PriorityOf(sel[k]) \in 1..4
    BY <1>3, <1>5, <1>6, ElementOfSeq DEF Ranked
  <2> SUFFICES ASSUME PriorityOf(sel[k]) < p PROVE FALSE
    BY <2>5
  <2>6. k > lo + n /\ k \in 1..Len(sel) /\ k \in Nat
    <3>2. k \in 1..Len(sel) /\ Len(B) \in Nat
      BY <1>4, <1>6, <1>8
    <3>3. k \in 1..Len(B) /\ sel[k] = B[k]
      BY <1>5, <3>2
    <3>1. k \in 1..Len(B) /\ PriorityOf(B[k]) < p
      BY <3>3
    <3> QED BY <1>6, <2>4, <3>1 DEF Interval
  <2> DEFINE I == (lo + 1)..(lo + n)
             J == {i \in DOMAIN sel : PriorityOf(sel[i]) = p}
  <2>7. I \subseteq J
    <3> SUFFICES ASSUME NEW i \in I PROVE i \in J
      OBVIOUS
    <3>1. i \in 1..Len(sel)
      BY <1>5, <2>6
    <3>2. PriorityOf(B[i]) = p
      BY <2>4 DEF Interval
    <3> QED BY <1>5, <1>6, <3>1, <3>2
  <2>8. IsFiniteSet(J)
    <3>1. J \subseteq 1..Len(sel)
      BY <1>6
    <3>2. IsFiniteSet(1..Len(sel))
      BY <1>5, FS_Interval
    <3> QED BY <3>1, <3>2, FS_Subset
  <2>9. Cardinality(I) = n
    <3>1. ASSUME NEW a \in Int, NEW b \in Int, a <= b + 1
          PROVE  Cardinality(a..b) = b - a + 1
      BY <3>1, FS_Interval
    <3>2. (lo + 1) \in Int /\ (lo + n) \in Int /\ lo + 1 <= lo + n + 1
      OBVIOUS
    <3>3. Cardinality(I) = (lo + n) - (lo + 1) + 1
      BY <3>1, <3>2
    <3> QED BY <3>3
  <2>10. Cardinality(I) <= Cardinality(J) /\ Cardinality(J) \in Nat
    BY <2>7, <2>8, FS_Subset, FS_CardinalityType
  <2> QED BY <1>8, <2>3, <2>9, <2>10
<1>9. MostSevere(ts, sel)
  <2>1. Len(sel) = IF Len(e) < opts.max THEN Len(e) ELSE opts.max
    BY <1>4, <1>5 DEF m
  <2> QED BY <1>7, <1>8, <2>1 DEF MostSevere, e
<1> QED BY <1>1, <1>5, <1>9 DEF X

(***************************************************************************)
(* The formal stage, and the stages together.                              *)
(***************************************************************************)
Statuses == {"violation", "safe", "error", "timeout"}
Outputs == [tool : Tools, target : Findings, status : Statuses]

FormalTypeOK ==
  /\ opts \in Options
  /\ targets \in Seq(Findings) /\ selected \in Seq(Findings)
  /\ turn \in (Nat \ {0}) \X (Nat \ {0})
  /\ outputs \in Seq(Outputs)
  /\ seen \in Seq(Outcomes \cup {"refused"})
  /\ testFile \in Files \cup {NoFile}

Started ==
  /\ phase # "idle" => Len(opts.tools) > 0
  /\ phase \in {"idle", "check", "scripts", "select"} => turn = <<1, 1>>
  /\ phase \in {"idle", "check", "scripts", "echidna scripts", "select"} =>
       selected = <<>> /\ outputs = <<>> /\ seen = <<>> /\ confirmed = <<>>

Turns ==
  phase \in {"run", "tool"} =>
    /\ turn[1] <= Len(selected) + 1 /\ turn[2] <= Len(opts.tools)
    /\ turn[1] = Len(selected) + 1 => turn[2] = 1
    /\ phase = "tool" => turn[1] <= Len(selected)
    /\ Len(outputs) = (turn[1] - 1) * Len(opts.tools) + (turn[2] - 1)

OutputRight(k) ==
  /\ outputs[k].target = selected[Slot(k)[1]]
  /\ outputs[k].tool = opts.tools[Slot(k)[2]]
  /\ (outputs[k].status = "violation") <=> (seen[k] = "falsified")
  /\ outputs[k].status = "safe" =>
       seen[k] = "passed" \/ (outputs[k].tool = "echidna" /\ seen[k] = "broken")
OutputsRight ==
  Len(seen) = Len(outputs) /\ \A k \in 1..Len(outputs) : OutputRight(k)

AllDone ==
  phase = "done" =>
    /\ Len(outputs) = Len(selected) * Len(opts.tools)
    /\ Len(confirmed) = Cardinality({k \in DOMAIN seen : seen[k] = "falsified"})

Chosen == phase \in {"run", "tool"} => MostSevere(targets, selected)

Clean ==
  /\ phase \notin {"tool", "echidna scripts"} => testFile = NoFile
  /\ phase = "echidna scripts" /\ turn[1] > Len(targets) => testFile = NoFile

FormalInv == FormalTypeOK /\ Started /\ Turns /\ OutputsRight /\ AllDone /\ Chosen /\ Clean

FormalStep ==
  \/ \E o \in OptionSet, fs \in Seq(Findings) : StartFormal(o, fs)
  \/ FormalReset
  \/ FormalNext(OnDisk)
  \/ UNCHANGED formalVars

\* Nothing was falsified when nothing was run.
LEMMA NothingFalsified == Cardinality({k \in DOMAIN <<>> : <<>>[k] = "falsified"}) = 0
<1>1. {k \in DOMAIN <<>> : <<>>[k] = "falsified"} = {}
  OBVIOUS
<1> QED BY <1>1, FS_EmptySet

\* With no targets selected and no answers the answers are right.
LEMMA NothingYet ==
  ASSUME FormalTypeOK, selected = <<>>, outputs = <<>>, seen = <<>>, confirmed = <<>>
  PROVE  OutputsRight /\ AllDone
<1>1. Len(<<>>) = 0 /\ Len(opts.tools) \in Nat
  <2>1. opts.tools \in Seq(Tools)
    BY DEF FormalTypeOK, Options
  <2> QED BY <2>1, EmptySeq, LenProperties
<1>2. OutputsRight
  BY <1>1 DEF OutputsRight
<1>3. AllDone
  BY <1>1, NothingFalsified DEF AllDone
<1> QED BY <1>2, <1>3

\* FormalInv, action by action: at the start,
LEMMA InitFormal == ASSUME Init PROVE FormalInv
<1>1. FormalIdle
  BY DEF Init
<1>2. FormalTypeOK
  <2>1. <<>> \in Seq(Tools) /\ <<>> \in Seq(Findings) /\ <<>> \in Seq(Outputs)
        /\ <<>> \in Seq(Outcomes \cup {"refused"})
    BY EmptySeq
  <2>2. NoOptions \in Options
    BY <2>1 DEF NoOptions, Options
  <2> QED BY <1>1, <2>1, <2>2 DEF FormalIdle, FormalTypeOK
<1>3. OutputsRight /\ AllDone
  BY <1>1, <1>2, NothingYet DEF FormalIdle
<1> QED BY <1>1, <1>2, <1>3 DEF FormalIdle, FormalInv, Started, Turns, Chosen, Clean

\* when the process ends or is killed,
LEMMA ResetFormal == ASSUME FormalReset PROVE FormalInv'
<1>1. FormalTypeOK'
  <2>1. <<>> \in Seq(Tools) /\ <<>> \in Seq(Findings) /\ <<>> \in Seq(Outputs)
        /\ <<>> \in Seq(Outcomes \cup {"refused"})
    BY EmptySeq
  <2>2. NoOptions \in Options
    BY <2>1 DEF NoOptions, Options
  <2> QED BY <2>1, <2>2 DEF FormalReset, FormalTypeOK
<1>2. OutputsRight' /\ AllDone'
  <2>1. Len(<<>>) = 0
    BY EmptySeq
  <2> QED BY <2>1 DEF FormalReset, OutputsRight, AllDone
<1> QED BY <1>1, <1>2 DEF FormalReset, FormalInv, Started, Turns, Chosen, Clean

\* when the stage does nothing,
LEMMA SameFormal == ASSUME FormalInv, UNCHANGED formalVars PROVE FormalInv'
<1> USE DEF formalVars
<1>1. FormalTypeOK' /\ Started' /\ Turns' /\ Clean'
  BY DEF FormalInv, FormalTypeOK, Started, Turns, Clean
<1>2. OutputsRight' /\ AllDone'
  BY DEF FormalInv, OutputsRight, OutputRight, AllDone, Slot
<1>3. Chosen'
  BY DEF FormalInv, Chosen, MostSevere
<1> QED BY <1>1, <1>2, <1>3 DEF FormalInv

\* Steps that leave the targets, the answers and the options alone.
LEMMA QuietStep ==
  ASSUME FormalInv, UNCHANGED <<opts, targets, selected, outputs, seen, confirmed>>,
         phase' # "done", phase' # "idle", phase # "idle"
  PROVE  /\ OutputsRight' /\ AllDone'
         /\ phase' \in {"run", "tool"} /\ phase \in {"run", "tool"} => Chosen'
<1>1. OutputsRight' /\ AllDone'
  BY DEF FormalInv, OutputsRight, OutputRight, AllDone, Slot
<1>2. ASSUME phase \in {"run", "tool"} PROVE Chosen'
  BY <1>2 DEF FormalInv, Chosen, MostSevere
<1> QED BY <1>1, <1>2

\* Default tools and a default maximum are filled in.
LEMMA NormalizeType ==
  ASSUME NEW o \in Options PROVE Normalize(o) \in Options /\ Len(Normalize(o).tools) > 0
<1>1. o.tools \in Seq(Tools) /\ o.max \in Nat
  BY DEF Options
<1>2. <<"echidna", "manticore">> \in Seq(Tools) /\ Len(<<"echidna", "manticore">>) = 2
  BY DEF Tools
<1> DEFINE ts == IF o.tools = <<>> THEN <<"echidna", "manticore">> ELSE o.tools
           mx == IF o.max = 0 THEN 5 ELSE o.max
<1>3. ts \in Seq(Tools) /\ Len(ts) > 0 /\ mx \in Nat
  <2>1. o.tools # <<>> => Len(o.tools) > 0
    BY <1>1, EmptySeq
  <2> QED BY <1>1, <1>2, <2>1
<1>4. Normalize(o) = [o EXCEPT !.tools = ts, !.max = mx]
  BY DEF Normalize
<1> HIDE DEF ts, mx
<1> QED BY <1>3, <1>4 DEF Options

\* when the runner is given the findings of a scan,
LEMMA StartStep ==
  ASSUME FormalInv, NEW o \in OptionSet, NEW fs \in Seq(Findings), StartFormal(o, fs)
  PROVE  FormalInv'
<1>1. Generate(fs) \in Seq(Findings)
  BY GenerateType
<1>2. o \in Options
  BY OptionsAssumption
<1>3. Normalize(o) \in Options /\ Len(Normalize(o).tools) > 0
  BY <1>2, NormalizeType
<1>4. /\ phase = "idle" /\ opts' = Normalize(o) /\ targets' = Generate(fs)
      /\ phase' \in {"done", "check"}
      /\ UNCHANGED <<selected, usable, turn, outputs, testFile, scripts, confirmed, seen>>
  BY DEF StartFormal
<1>5. /\ turn = <<1, 1>> /\ selected = <<>> /\ outputs = <<>> /\ seen = <<>> /\ confirmed = <<>>
      /\ testFile = NoFile
  BY <1>4 DEF FormalInv, Started, Clean
<1>6. FormalTypeOK'
  BY <1>1, <1>3, <1>4 DEF FormalInv, FormalTypeOK
<1>7. OutputsRight' /\ AllDone'
  <2>1. Len(<<>>) = 0 /\ Len(opts'.tools) \in Nat
    <3>1. opts'.tools \in Seq(Tools)
      BY <1>6 DEF FormalTypeOK, Options
    <3> QED BY <3>1, EmptySeq, LenProperties
  <2>2. OutputsRight'
    BY <1>4, <1>5, <2>1 DEF OutputsRight
  <2>3. AllDone'
    BY <1>4, <1>5, <2>1, NothingFalsified DEF AllDone
  <2> QED BY <2>2, <2>3
<1> QED BY <1>3, <1>4, <1>5, <1>6, <1>7 DEF FormalInv, Started, Turns, Chosen, Clean

\* when the tools were looked for,
LEMMA CheckStep == ASSUME FormalInv, CheckTools PROVE FormalInv'
<1>1. /\ phase = "check" /\ phase' \in {"scripts", "select"}
      /\ UNCHANGED <<opts, targets, selected, usable, turn, outputs, testFile, scripts, confirmed, seen>>
  BY DEF CheckTools
<1>2. FormalTypeOK' /\ Started' /\ Turns' /\ Chosen' /\ Clean'
  BY <1>1 DEF FormalInv, FormalTypeOK, Started, Turns, Chosen, Clean
<1>3. OutputsRight' /\ AllDone'
  BY <1>1, QuietStep
<1> QED BY <1>2, <1>3 DEF FormalInv

\* when the Manticore scripts were written,
LEMMA ManticoreStep == ASSUME FormalInv, ManticoreScripts PROVE FormalInv'
<1>1. /\ phase = "scripts" /\ phase' = "echidna scripts" /\ turn' = <<1, 1>>
      /\ UNCHANGED <<opts, targets, selected, usable, outputs, testFile, confirmed, seen>>
  BY DEF ManticoreScripts
<1>2. FormalTypeOK' /\ Started' /\ Turns' /\ Chosen' /\ Clean'
  BY <1>1 DEF FormalInv, FormalTypeOK, Started, Turns, Chosen, Clean
<1>3. OutputsRight' /\ AllDone'
  BY <1>1, QuietStep
<1> QED BY <1>2, <1>3 DEF FormalInv

\* when the script of a target was prepared,
LEMMA PrepareStep == ASSUME FormalInv, PrepareScript(OnDisk) PROVE FormalInv'
<1>1. /\ phase = "echidna scripts" /\ testFile = NoFile
      /\ UNCHANGED <<opts, phase, targets, selected, usable, outputs, scripts, confirmed, seen>>
  BY DEF PrepareScript, Scripting
<1>10. turn[1] <= Len(targets)
  BY DEF PrepareScript, Scripting
<1>11. \/ testFile' = targets[turn[1]].file /\ turn' = turn
       \/ testFile' = testFile /\ turn' = <<turn[1] + 1, 1>>
  BY DEF PrepareScript
<1>2. turn[1] \in Nat /\ turn[1] >= 1 /\ Len(targets) \in Nat /\ targets \in Seq(Findings)
  BY LenProperties DEF FormalInv, FormalTypeOK
<1>3. targets[turn[1]] \in Findings
  <2>1. turn[1] \in 1..Len(targets)
    BY <1>2, <1>10
  <2> QED BY <1>2, <2>1, ElementOfSeq
<1>9. turn' \in (Nat \ {0}) \X (Nat \ {0}) 
  <2>1. turn \in (Nat \ {0}) \X (Nat \ {0})
    BY DEF FormalInv, FormalTypeOK
  <2>2. <<turn[1] + 1, 1>> \in (Nat \ {0}) \X (Nat \ {0})
    BY <1>2
  <2> QED BY <1>11, <2>1, <2>2
<1>4. targets[turn[1]].file \in Files \cup {NoFile}
  BY <1>3 DEF Findings
<1>5. FormalTypeOK'
  <2>1. testFile' \in Files \cup {NoFile}
    BY <1>1, <1>4, <1>11
  <2> QED BY <1>1, <1>9, <2>1 DEF FormalInv, FormalTypeOK
<1>6. Started' /\ Turns' /\ Chosen'
  BY <1>1 DEF FormalInv, Started, Turns, Chosen
<1>7. Clean'
  <2>1. CASE testFile' = testFile
    BY <1>1, <2>1 DEF Clean
  <2>2. CASE turn' = turn
    <3>2. turn' = turn /\ targets' = targets /\ phase' = "echidna scripts"
      BY <1>1, <2>2
    <3>3. ~(turn[1] > Len(targets))
      BY <1>2, <1>10
    <3>1. ~(turn'[1] > Len(targets')) /\ phase' = "echidna scripts"
      BY <3>2, <3>3
    <3> QED BY <3>1 DEF Clean
  <2> QED BY <1>11, <2>1, <2>2
<1>8. OutputsRight' /\ AllDone'
  BY <1>1, QuietStep
<1> QED BY <1>5, <1>6, <1>7, <1>8 DEF FormalInv

\* when the Echidna test of a target was written and removed again,
LEMMA EchidnaStep == ASSUME FormalInv, EchidnaScript PROVE FormalInv'
<1>1. /\ phase = "echidna scripts" /\ testFile' = NoFile /\ turn' = <<turn[1] + 1, 1>>
      /\ UNCHANGED <<opts, phase, targets, selected, usable, outputs, confirmed, seen>>
  BY DEF EchidnaScript, Scripting
<1>2. turn[1] \in Nat
  BY DEF FormalInv, FormalTypeOK
<1>3. FormalTypeOK' /\ Started' /\ Turns' /\ Chosen' /\ Clean'
  <2>1. turn' \in (Nat \ {0}) \X (Nat \ {0})
    <3>1. <<turn[1] + 1, 1>> \in (Nat \ {0}) \X (Nat \ {0})
      BY <1>2
    <3> QED BY <1>1, <3>1
  <2>2. FormalTypeOK'
    BY <1>1, <2>1 DEF FormalInv, FormalTypeOK
  <2>3. Started' /\ Turns' /\ Chosen' /\ Clean'
    BY <1>1 DEF FormalInv, Started, Turns, Chosen, Clean
  <2> QED BY <2>2, <2>3
<1>4. OutputsRight' /\ AllDone'
  BY <1>1, QuietStep
<1> QED BY <1>3, <1>4 DEF FormalInv

\* when the last script was written,
LEMMA ScriptsDoneStep == ASSUME FormalInv, ScriptsDone PROVE FormalInv'
<1>1. /\ phase = "echidna scripts" /\ turn[1] > Len(targets) /\ phase' = "done"
      /\ UNCHANGED <<opts, targets, selected, usable, turn, outputs, testFile, scripts, confirmed, seen>>
  BY DEF ScriptsDone
<1>2. FormalTypeOK' /\ Started' /\ Turns' /\ Chosen' /\ Clean'
  BY <1>1 DEF FormalInv, FormalTypeOK, Started, Turns, Chosen, Clean
<1>3. selected = <<>> /\ outputs = <<>> /\ seen = <<>> /\ confirmed = <<>>
  BY <1>1 DEF FormalInv, Started
<1>4. OutputsRight' /\ AllDone'
  <2>1. Len(<<>>) = 0 /\ Len(opts.tools) \in Nat
    <3>1. opts.tools \in Seq(Tools)
      BY DEF FormalInv, FormalTypeOK, Options
    <3> QED BY <3>1, EmptySeq, LenProperties
  <2>4. outputs' = <<>> /\ seen' = <<>> /\ selected' = <<>> /\ confirmed' = <<>> /\ opts' = opts
    BY <1>1, <1>3
  <2>2. OutputsRight'
    BY <2>1, <2>4 DEF OutputsRight
  <2>3. AllDone'
    BY <2>1, <2>4, NothingFalsified DEF AllDone
  <2> QED BY <2>2, <2>3
<1> QED BY <1>2, <1>4 DEF FormalInv

\* when the targets to run were selected,
LEMMA SelectStep == ASSUME FormalInv, SelectTargets PROVE FormalInv'
<1>1. /\ phase = "select" /\ phase' = "run" /\ selected' = FilterTargets(targets)
      /\ UNCHANGED <<opts, targets, turn, outputs, testFile, scripts, confirmed, seen>>
  BY DEF SelectTargets
<1>2. targets \in Seq(Findings) /\ opts.max \in Nat /\ opts.tools \in Seq(Tools)
  BY DEF FormalInv, FormalTypeOK, Options
<1>3. FilterTargets(targets) \in Seq(Findings) /\ MostSevere(targets, FilterTargets(targets))
  BY <1>2, SelectionRight
<1>4. FormalTypeOK' /\ Started' /\ Clean'
  BY <1>1, <1>3 DEF FormalInv, FormalTypeOK, Started, Clean
<1>5. Chosen'
  BY <1>1, <1>3 DEF Chosen, MostSevere
<1>6. turn = <<1, 1>> /\ outputs = <<>> /\ seen = <<>> /\ Len(opts.tools) > 0
  BY <1>1 DEF FormalInv, Started
<1>7. Len(<<>>) = 0 /\ Len(opts.tools) \in Nat /\ Len(selected') \in Nat
  BY <1>1, <1>2, <1>3, EmptySeq, LenProperties
<1>8. Turns'
  <2>1. turn'[1] = 1 /\ turn'[2] = 1 /\ opts' = opts /\ Len(outputs') = 0 /\ phase' = "run"
    BY <1>1, <1>6, <1>7
  <2> QED BY <1>6, <1>7, <2>1 DEF Turns
<1>9. OutputsRight' /\ AllDone'
  BY <1>1, <1>6, <1>7 DEF OutputsRight, AllDone
<1> QED BY <1>4, <1>5, <1>8, <1>9 DEF FormalInv


\* Division with a remainder.
LEMMA Divided ==
  ASSUME NEW L \in Nat, L > 0, NEW a \in Nat, NEW b \in Nat, b < L
  PROVE  (a * L + b) \div L = a /\ (a * L + b) % L = b
OBVIOUS

\* The place an answer has in the list is that of its target and its tool.
LEMMA AnswerGiven ==
  ASSUME FormalInv, NEW st \in Statuses, NEW o \in Outcomes \cup {"refused"},
         phase \in {"run", "tool"}, turn[1] <= Len(selected), phase' = "run",
         Answer(st), seen' = Append(seen, o), testFile' = NoFile,
         UNCHANGED <<opts, targets, selected, confirmed>>,
         st = "violation" <=> o = "falsified",
         st = "safe" => o = "passed" \/ (Tool = "echidna" /\ o = "broken")
  PROVE  FormalInv'
<1> DEFINE L == Len(opts.tools)
           t1 == turn[1]
           t2 == turn[2]
           new == [tool |-> Tool, target |-> Target, status |-> st]
           k == Len(outputs)
<1>1. /\ opts.tools \in Seq(Tools) /\ selected \in Seq(Findings) /\ outputs \in Seq(Outputs)
      /\ seen \in Seq(Outcomes \cup {"refused"}) /\ targets \in Seq(Findings)
      /\ turn \in (Nat \ {0}) \X (Nat \ {0})
  BY DEF FormalInv, FormalTypeOK, Options
<1>2. /\ L \in Nat /\ Len(selected) \in Nat /\ k \in Nat /\ L > 0
      /\ t1 \in Nat /\ t2 \in Nat /\ t1 >= 1 /\ t2 >= 1
  <2>1. L \in Nat /\ Len(selected) \in Nat /\ k \in Nat
    BY <1>1, LenProperties
  <2>2. L > 0
    BY DEF FormalInv, Started
  <2>3. t1 \in Nat /\ t2 \in Nat /\ t1 >= 1 /\ t2 >= 1
    BY <1>1
  <2> QED BY <2>1, <2>2, <2>3
<1>3. t1 <= Len(selected) /\ t2 <= L /\ k = (t1 - 1) * L + (t2 - 1) /\ Len(seen) = k
  BY DEF FormalInv, Turns, OutputsRight
<1>4. Target \in Findings /\ Tool \in Tools
  <2>1. t1 \in 1..Len(selected) /\ t2 \in 1..L
    BY <1>2, <1>3
  <2> QED BY <1>1, <2>1, ElementOfSeq DEF Target, Tool
<1>5. new \in Outputs
  BY <1>4 DEF Outputs
<1>6. outputs' = Append(outputs, new) /\ turn' = (IF t2 < L THEN <<t1, t2 + 1>> ELSE <<t1 + 1, 1>>)
  BY DEF Answer, NextTurn
<1> HIDE DEF new
<1>7. /\ outputs' \in Seq(Outputs) /\ Len(outputs') = k + 1 /\ outputs'[k + 1] = new
      /\ \A i \in 1..k : outputs'[i] = outputs[i]
  BY <1>1, <1>5, <1>6, AppendProperties
<1>8. /\ seen' \in Seq(Outcomes \cup {"refused"}) /\ Len(seen') = k + 1 /\ seen'[k + 1] = o
      /\ \A i \in 1..k : seen'[i] = seen[i]
  <2> DEFINE X == Outcomes \cup {"refused"}
  <2>1. seen \in Seq(X) /\ o \in X
    BY <1>1
  <2> HIDE DEF X
  <2>2. /\ Append(seen, o) \in Seq(X) /\ Len(Append(seen, o)) = Len(seen) + 1
        /\ \A i \in 1..Len(seen) : Append(seen, o)[i] = seen[i]
        /\ Append(seen, o)[Len(seen) + 1] = o
    BY <2>1, AppendProperties
  <2> QED BY <1>3, <2>2 DEF X
<1>9. /\ turn' \in (Nat \ {0}) \X (Nat \ {0})
      /\ turn'[1] = (IF t2 < L THEN t1 ELSE t1 + 1)
      /\ turn'[2] = (IF t2 < L THEN t2 + 1 ELSE 1)
  <2>1. CASE t2 < L
    <3>1. turn' = <<t1, t2 + 1>>
      BY <1>6, <2>1
    <3> HIDE DEF t1, t2
    <3> QED BY <1>2, <2>1, <3>1
  <2>2. CASE ~(t2 < L)
    <3>1. turn' = <<t1 + 1, 1>>
      BY <1>6, <2>2
    <3> HIDE DEF t1, t2
    <3> QED BY <1>2, <2>2, <3>1
  <2> QED BY <2>1, <2>2
<1>10. FormalTypeOK'
  BY <1>7, <1>8, <1>9 DEF FormalInv, FormalTypeOK
<1>11. Started' /\ Clean'
  BY <1>2 DEF Started, Clean
<1>12. Chosen'
  BY DEF FormalInv, Chosen, MostSevere
<1>13. AllDone'
  BY DEF AllDone
<1>14. Turns'
  <2> HIDE DEF t1, t2, L, k
  <2>1. CASE t2 < L
    <3>1. turn'[1] = t1 /\ turn'[2] = t2 + 1
      BY <1>9, <2>1
    <3>2. Len(outputs') = (t1 - 1) * L + ((t2 + 1) - 1)
      <4>1. (t1 - 1) * L \in Nat
        BY <1>2
      <4> QED BY <1>2, <1>3, <1>7, <4>1
    <3>3. t1 <= Len(selected) + 1 /\ t2 + 1 <= L /\ t1 # Len(selected) + 1
      BY <1>2, <1>3, <2>1
    <3> QED BY <3>1, <3>2, <3>3 DEF Turns, L
  <2>2. CASE ~(t2 < L)
    <3>1. turn'[1] = t1 + 1 /\ turn'[2] = 1 /\ t2 = L
      BY <1>2, <1>3, <1>9, <2>2
    <3>2. Len(outputs') = ((t1 + 1) - 1) * L + (1 - 1)
      <4>1. (t1 - 1) * L + L = t1 * L /\ (t1 - 1) * L \in Nat /\ t1 * L \in Nat
        BY <1>2
      <4>2. Len(outputs') = (t1 - 1) * L + (L - 1) + 1
        BY <1>3, <1>7, <3>1
      <4>3. (t1 + 1) - 1 = t1
        BY <1>2
      <4> QED BY <1>2, <4>1, <4>2, <4>3
    <3>3. t1 + 1 <= Len(selected) + 1 /\ 1 <= L
      BY <1>2, <1>3
    <3> QED BY <3>1, <3>2, <3>3 DEF Turns, L
  <2> QED BY <2>1, <2>2
<1>15. OutputsRight'
  <2>1. ASSUME NEW i \in 1..k PROVE OutputRight(i)'
    <3>1. OutputRight(i)
      BY DEF FormalInv, OutputsRight
    <3>2. outputs'[i] = outputs[i] /\ seen'[i] = seen[i] /\ opts' = opts /\ selected' = selected
      BY <1>7, <1>8
    <3> QED BY <3>1, <3>2 DEF OutputRight, Slot
  <2>2. ASSUME NEW i, i = k + 1 PROVE OutputRight(i)'
    <3>1. i - 1 = (t1 - 1) * L + (t2 - 1)
      BY <1>2, <1>3, <2>2
    <3>2. (i - 1) \div L = t1 - 1 /\ (i - 1) % L = t2 - 1
      <4>1. t1 - 1 \in Nat /\ t2 - 1 \in Nat /\ t2 - 1 < L
        BY <1>2, <1>3
      <4>2. PICK a \in Nat, b \in Nat : a = t1 - 1 /\ b = t2 - 1
        BY <4>1
      <4> HIDE DEF t1, t2, L, k
      <4>3. (a * L + b) \div L = a /\ (a * L + b) % L = b
        BY <1>2, <4>1, <4>2, Divided
      <4> QED BY <3>1, <4>2, <4>3
    <3>3. Slot(i)[1] = t1 /\ Slot(i)[2] = t2
      BY <1>2, <3>2 DEF Slot
    <3>4. outputs'[i] = new /\ seen'[i] = o /\ opts' = opts /\ selected' = selected
      BY <1>7, <1>8, <2>2
    <3>5. new.target = selected[t1] /\ new.tool = opts.tools[t2] /\ new.status = st /\ new.tool = Tool
      BY DEF new, Target, Tool
    <3>6. Slot(i)' = Slot(i)
      BY <3>4 DEF Slot
    <3> HIDE DEF t1, t2
    <3> QED BY <3>3, <3>4, <3>5, <3>6 DEF OutputRight
  <2>3. \A i \in 1..(k + 1) : i \in 1..k \/ i = k + 1
    BY <1>2
  <2> HIDE DEF k
  <2> QED BY <1>7, <1>8, <2>1, <2>2, <2>3 DEF OutputsRight
<1> QED BY <1>10, <1>11, <1>12, <1>13, <1>14, <1>15 DEF FormalInv

\* when a tool could not be run on a target,
LEMMA RefuseStep == ASSUME FormalInv, RefuseTool(OnDisk) PROVE FormalInv'
<1>1. /\ phase = "run" /\ turn[1] <= Len(selected) /\ phase' = phase /\ testFile' = testFile
      /\ Answer("error") /\ seen' = Append(seen, "refused")
      /\ UNCHANGED <<opts, targets, selected, confirmed>>
  BY DEF RefuseTool, Turning
<1>2. testFile = NoFile
  BY <1>1 DEF FormalInv, Clean
<1>3. "error" \in Statuses /\ "refused" \in Outcomes \cup {"refused"}
  BY DEF Statuses
<1> QED BY <1>1, <1>2, <1>3, AnswerGiven

\* when a tool was started,
LEMMA StartToolStep == ASSUME FormalInv, StartTool(OnDisk) PROVE FormalInv'
<1>1. /\ phase = "run" /\ turn[1] <= Len(selected) /\ phase' = "tool"
      /\ testFile' = IF Tool = "echidna" THEN Target.file ELSE testFile
      /\ UNCHANGED <<opts, targets, selected, usable, turn, outputs, scripts, confirmed, seen>>
  BY DEF StartTool, Turning
<1>2. Target \in Findings
  <2>1. selected \in Seq(Findings) /\ turn[1] \in Nat /\ turn[1] >= 1
    BY DEF FormalInv, FormalTypeOK
  <2>2. turn[1] \in 1..Len(selected)
    BY <1>1, <2>1, LenProperties
  <2> QED BY <2>1, <2>2, ElementOfSeq DEF Target
<1>3. testFile' \in Files \cup {NoFile}
  <2>1. Target.file \in Files \cup {NoFile} /\ testFile \in Files \cup {NoFile}
    BY <1>2 DEF Findings, FormalInv, FormalTypeOK
  <2> QED BY <1>1, <2>1
<1>4. FormalTypeOK' /\ Started' /\ Clean'
  BY <1>1, <1>3 DEF FormalInv, FormalTypeOK, Started, Clean
<1>5. Turns'
  BY <1>1 DEF FormalInv, Turns
<1>6. OutputsRight' /\ AllDone' /\ Chosen'
  BY <1>1, QuietStep
<1> QED BY <1>4, <1>5, <1>6 DEF FormalInv

\* when it ended, with whatever outcome,
LEMMA EndToolStep == ASSUME FormalInv, EndTool PROVE FormalInv'
<1>1. /\ phase = "tool" /\ phase' = "run"
      /\ UNCHANGED <<opts, targets, selected, confirmed>>
  BY DEF EndTool
<1>2. turn[1] <= Len(selected)
  BY <1>1 DEF FormalInv, Turns
<1>3. PICK o \in Outcomes : Answer(StatusOf(Tool, o)) /\ seen' = Append(seen, o) /\ testFile' = NoFile
  BY DEF EndTool, Removed
<1> DEFINE st == StatusOf(Tool, o)
<1>4. /\ st \in Statuses
      /\ st = "violation" <=> o = "falsified"
      /\ st = "safe" => o = "passed" \/ (Tool = "echidna" /\ o = "broken")
  BY DEF StatusOf, EchidnaStatus, ManticoreStatus, Outcomes, Statuses
<1> HIDE DEF st
<1>5. o \in Outcomes \cup {"refused"}
  OBVIOUS
<1> QED BY <1>1, <1>2, <1>3, <1>4, <1>5, AnswerGiven DEF st

\* and when the violations were counted at the end.
LEMMA ConfirmStep == ASSUME FormalInv, Confirm PROVE FormalInv'
<1> DEFINE S == {r \in Range(outputs) : Violated(r)}
<1>1. /\ phase = "run" /\ turn[1] > Len(selected) /\ phase' = "done"
      /\ confirmed' = Kept(outputs, S)
      /\ UNCHANGED <<opts, targets, selected, usable, turn, outputs, testFile, scripts, seen>>
  BY DEF Confirm
<1>2. /\ outputs \in Seq(Outputs) /\ Len(outputs) \in Nat /\ DOMAIN outputs = 1..Len(outputs)
      /\ seen \in Seq(Outcomes \cup {"refused"}) /\ DOMAIN seen = 1..Len(seen)
      /\ Len(seen) = Len(outputs) /\ Len(selected) \in Nat /\ Len(opts.tools) \in Nat
  <2>1. /\ outputs \in Seq(Outputs) /\ seen \in Seq(Outcomes \cup {"refused"})
        /\ opts.tools \in Seq(Tools) /\ selected \in Seq(Findings)
    BY DEF FormalInv, FormalTypeOK, Options
  <2>2. Len(seen) = Len(outputs)
    BY DEF FormalInv, OutputsRight
  <2> QED BY <2>1, <2>2, LenProperties
<1>3. FormalTypeOK' /\ Started' /\ Turns' /\ Chosen' /\ Clean'
  BY <1>1 DEF FormalInv, FormalTypeOK, Started, Turns, Chosen, Clean
<1>4. OutputsRight'
  BY <1>1 DEF FormalInv, OutputsRight, OutputRight, Slot
<1>5. Len(confirmed') = Cardinality({k \in DOMAIN seen : seen[k] = "falsified"})
  <2>1. Positions(outputs, S) = {k \in DOMAIN seen : seen[k] = "falsified"}
    <3>1. \A k \in 1..Len(outputs) : outputs[k] \in S <=> seen[k] = "falsified"
      <4>1. \A k \in 1..Len(outputs) : outputs[k] \in Range(outputs)
        BY <1>2 DEF Range
      <4>2. \A k \in 1..Len(outputs) : outputs[k].status = "violation" <=> seen[k] = "falsified"
        BY DEF FormalInv, OutputsRight, OutputRight
      <4> QED BY <4>1, <4>2 DEF Violated
    <3> HIDE DEF S
    <3> QED BY <1>2, <3>1 DEF Positions
  <2>2. Len(Kept(outputs, S)) = Cardinality(Positions(outputs, S))
    <3> HIDE DEF S
    <3> QED BY <1>2, KeptElements
  <2> QED BY <1>1, <2>1, <2>2
<1>6. Len(outputs) = Len(selected) * Len(opts.tools)
  <2>1. turn[1] = Len(selected) + 1 /\ turn[2] = 1
        /\ Len(outputs) = (turn[1] - 1) * Len(opts.tools) + (turn[2] - 1)
    <3>1. turn[1] <= Len(selected) + 1 /\ turn[1] \in Nat
      BY <1>1 DEF FormalInv, Turns, FormalTypeOK
    <3>2. turn[1] = Len(selected) + 1
      BY <1>1, <1>2, <3>1
    <3> QED BY <1>1, <3>2 DEF FormalInv, Turns
  <2>2. (turn[1] - 1) = Len(selected) /\ turn[2] - 1 = 0
    BY <1>2, <2>1
  <2>3. Len(selected) * Len(opts.tools) \in Nat
    BY <1>2
  <2> QED BY <2>1, <2>2, <2>3
<1>7. AllDone'
  BY <1>1, <1>5, <1>6 DEF AllDone
<1> QED BY <1>3, <1>4, <1>7 DEF FormalInv

(***************************************************************************)
(* The stages.                                                             *)
(***************************************************************************)
\* A function from 1..n is a sequence.
LEMMA FunctionSeq ==
  ASSUME NEW X, NEW n \in Nat, NEW f, f = [i \in 1..n |-> f[i]], \A i \in 1..n : f[i] \in X
  PROVE  f \in Seq(X) /\ Len(f) = n
OBVIOUS

Kills == {NoFile} \cup [of : Sources, copy : {0}]
StageTypeOK ==
  /\ project \in Projects /\ project \in Seq(Findings)
  /\ found \in Seq(Findings)
  /\ left \in Seq(Kills)
FoundRight ==
  \A k \in 1..Len(found) : found[k].file # NoFile /\ found[k].file.copy # 0 =>
    left[found[k].file.copy] = Original(found[k].file)

StagesInv == ChainInv /\ FormalInv /\ StageTypeOK /\ FoundRight

\* At the start nothing was found and nothing was left behind.
LEMMA InitStages == ASSUME Init PROVE StageTypeOK /\ FoundRight
<1>1. project \in Projects /\ found = <<>> /\ left = <<>>
  BY DEF Init
<1>2. project \in Seq(Findings)
  BY <1>1, ProjectsAssumption
<1>3. Len(<<>>) = 0 /\ <<>> \in Seq(Findings) /\ <<>> \in Seq(Kills)
  BY EmptySeq
<1> QED BY <1>1, <1>2, <1>3 DEF StageTypeOK, FoundRight

\* What a scan finds in a test file left behind by a killed process.
LEMMA CopiesRight ==
  ASSUME StageTypeOK, NEW k \in 1..Len(left)
  PROVE  /\ CopyOf(k) \in Seq(Findings)
         /\ \A i \in 1..Len(CopyOf(k)) :
              CopyOf(k)[i].file.copy = k /\ left[k] = Original(CopyOf(k)[i].file)
<1> DEFINE S == {f \in Range(project) : left[k] # NoFile /\ f.file.of = left[k].of}
           of == Kept(project, S)
<1>1. project \in Seq(Findings) /\ left \in Seq(Kills) /\ Len(left) \in Nat /\ left[k] \in Kills /\ k \in Nat
  BY LenProperties, ElementOfSeq DEF StageTypeOK
<1>2. /\ of \in Seq(Findings) /\ Len(of) \in Nat /\ DOMAIN of = 1..Len(of)
      /\ \A i \in 1..Len(of) : of[i] \in S
  <2> HIDE DEF S
  <2> QED BY <1>1, KeptElements, LenProperties
<1>3. ASSUME NEW i \in 1..Len(of)
      PROVE  /\ of[i] \in Findings /\ of[i].file \in Files
             /\ left[k] = [of |-> of[i].file.of, copy |-> 0]
  <2>1. of[i] \in S
    BY <1>2
  <2>2. PICK j \in 1..Len(project) : of[i] = project[j]
    BY <1>1, <2>1, LenProperties DEF Range
  <2>3. project[j] \in Findings /\ project[j].file \in Files
    <3>1. project[j] \in Findings
      BY <1>1, ElementOfSeq
    <3>2. \A n \in DOMAIN project : project[n].file \in Files
      BY ProjectsAssumption DEF StageTypeOK
    <3>3. j \in DOMAIN project
      BY <1>1, LenProperties
    <3> QED BY <3>1, <3>2, <3>3
  <2>4. left[k] # NoFile /\ of[i].file.of = left[k].of
    BY <2>1
  <2>5. left[k] \in [of : Sources, copy : {0}]
    BY <1>1, <2>4 DEF Kills
  <2>6. left[k] = [of |-> left[k].of, copy |-> 0]
    BY <2>5
  <2> QED BY <2>2, <2>3, <2>4, <2>6
<1> DEFINE c == [i \in 1..Len(of) |-> [of[i] EXCEPT !.file = [of |-> @.of, copy |-> k]]]
<1>4. CopyOf(k) = c
  BY <1>2 DEF CopyOf
<1> HIDE DEF of
<1>5. ASSUME NEW i \in 1..Len(of)
      PROVE  /\ c[i] \in Findings /\ c[i].file.copy = k /\ left[k] = Original(c[i].file)
  <2>1. of[i] \in Findings /\ of[i].file \in Files
    BY <1>3
  <2>2. [of |-> of[i].file.of, copy |-> k] \in Files
    BY <1>1, <2>1 DEF Files
  <2>3. c[i] = [of[i] EXCEPT !.file = [of |-> of[i].file.of, copy |-> k]]
    BY <2>1 DEF Findings
  <2>4. c[i] \in Findings /\ c[i].file = [of |-> of[i].file.of, copy |-> k]
    BY <2>1, <2>2, <2>3 DEF Findings
  <2> QED BY <1>3, <2>4 DEF Original
<1>6. c \in Seq(Findings) /\ Len(c) = Len(of)
  <2>1. c = [i \in 1..Len(of) |-> c[i]]
    OBVIOUS
  <2> HIDE DEF c
  <2> QED BY <1>2, <1>5, <2>1, FunctionSeq
<1> HIDE DEF c
<1> QED BY <1>4, <1>5, <1>6

\* A scan finds only files that are there: the project's and those left.
LEMMA ScanRight ==
  ASSUME StageTypeOK
  PROVE  /\ ScanProject \in Seq(Findings)
         /\ \A i \in 1..Len(ScanProject) :
              ScanProject[i].file # NoFile /\ ScanProject[i].file.copy # 0 =>
                left[ScanProject[i].file.copy] = Original(ScanProject[i].file)
<1> DEFINE ss == [k \in DOMAIN left |-> CopyOf(k)]
           J == Joined(ss)
<1>1. Len(left) \in Nat /\ DOMAIN left = 1..Len(left) /\ project \in Seq(Findings)
  BY LenProperties DEF StageTypeOK
<1>2. ss \in Seq(Seq(Findings)) /\ Len(ss) = Len(left) /\ \A k \in 1..Len(left) : ss[k] = CopyOf(k)
  <2>1. \A k \in 1..Len(left) : CopyOf(k) \in Seq(Findings)
    BY CopiesRight
  <2> QED BY <1>1, <2>1
<1> HIDE DEF ss
<1>3. J \in Seq(Findings) /\ \A k \in 1..Len(J) :
        \E i \in 1..Len(ss) : \E j \in 1..Len(ss[i]) : J[k] = ss[i][j]
  BY <1>2, JoinedElements
<1> HIDE DEF J
<1> DEFINE Good(f) == f.file # NoFile /\ f.file.copy # 0 => left[f.file.copy] = Original(f.file)
<1>4. \A k \in 1..Len(J) : Good(J[k])
  <2> SUFFICES ASSUME NEW k \in 1..Len(J) PROVE Good(J[k])
    OBVIOUS
  <2>1. PICK i \in 1..Len(ss) : \E j \in 1..Len(ss[i]) : J[k] = ss[i][j]
    BY <1>3
  <2>2. i \in 1..Len(left) /\ ss[i] = CopyOf(i)
    BY <1>2
  <2>3. PICK j \in 1..Len(CopyOf(i)) : J[k] = CopyOf(i)[j]
    BY <2>1, <2>2
  <2>4. CopyOf(i)[j].file.copy = i /\ left[i] = Original(CopyOf(i)[j].file)
    BY <2>2, CopiesRight
  <2> QED BY <2>3, <2>4
<1>5. \A k \in 1..Len(project) : Good(project[k])
  <2>1. \A k \in DOMAIN project : project[k].file.copy = 0
    BY ProjectsAssumption DEF StageTypeOK
  <2>2. DOMAIN project = 1..Len(project)
    BY <1>1, LenProperties
  <2> QED BY <2>1, <2>2
<1> HIDE DEF Good
<1>6. ScanProject = project \o J
  BY DEF ScanProject, J, ss
<1>7. /\ ScanProject \in Seq(Findings)
      /\ Len(ScanProject) = Len(project) + Len(J) /\ Len(project) \in Nat
      /\ \A i \in 1..Len(project) : ScanProject[i] = project[i]
      /\ \A i \in 1..Len(ScanProject) : i > Len(project) => Among(ScanProject[i], J)
  BY <1>1, <1>3, <1>6, TwoInARow
<1>8. \A i \in 1..Len(ScanProject) : Good(ScanProject[i])
  <2> SUFFICES ASSUME NEW i \in 1..Len(ScanProject) PROVE Good(ScanProject[i])
    OBVIOUS
  <2>1. CASE i > Len(project)
    BY <1>4, <1>7, <2>1 DEF Among
  <2>2. CASE ~(i > Len(project))
    <3>1. i \in 1..Len(project)
      BY <1>7, <2>2
    <3> QED BY <1>5, <1>7, <3>1
  <2> QED BY <2>1, <2>2
<1> QED BY <1>7, <1>8 DEF Good

\* The findings ToAnalysisResults makes of the on-chain results.
LEMMA OnChainFindingsType ==
  ASSUME ChainInv
  PROVE  OnChainFindings \in Seq(ChainFindings)
<1> DEFINE ss == [i \in DOMAIN answers |-> answers[i].findings]
<1>1. answers \in Seq(Results) /\ Len(answers) \in Nat /\ DOMAIN answers = 1..Len(answers)
  BY LenProperties DEF ChainInv, ChainTypeOK
<1>2. \A i \in 1..Len(answers) : answers[i].findings \in Seq(ChainFindings)
  <2>1. \A i \in 1..Len(answers) : answers[i] \in Results
    BY <1>1, ElementOfSeq
  <2> QED BY <2>1 DEF Results
<1>3. ss \in Seq(Seq(ChainFindings))
  <2> DEFINE Y == Seq(ChainFindings)
  <2> HIDE DEF Y
  <2>1. \A i \in 1..Len(answers) : answers[i].findings \in Y
    BY <1>2 DEF Y
  <2>2. ss \in Seq(Y)
    BY <1>1, <2>1
  <2> QED BY <2>2 DEF Y
<1> HIDE DEF ss
<1> QED BY <1>3, JoinedElements DEF OnChainFindings, ss

\* And what the formal stage is given, on-chain findings included.
LEMMA CollectedRight ==
  ASSUME ChainInv, StageTypeOK, FoundRight
  PROVE  /\ Collected \in Seq(Findings)
         /\ \A i \in 1..Len(Collected) :
              Collected[i].file # NoFile /\ Collected[i].file.copy # 0 =>
                left[Collected[i].file.copy] = Original(Collected[i].file)
<1> DEFINE C == OnChainFindings
           A == [i \in DOMAIN C |-> AsFinding(C[i])]
<1>1. C \in Seq(ChainFindings) /\ Len(C) \in Nat /\ DOMAIN C = 1..Len(C) /\ found \in Seq(Findings)
  <2> HIDE DEF C
  <2>1. C \in Seq(ChainFindings)
    BY OnChainFindingsType DEF C
  <2> QED BY <2>1, LenProperties DEF StageTypeOK
<1> HIDE DEF C
<1>2. ASSUME NEW i \in 1..Len(C) PROVE AsFinding(C[i]) \in Findings /\ AsFinding(C[i]).file = NoFile
  <2>1. C[i] \in ChainFindings
    BY <1>1, ElementOfSeq
  <2>2. C[i].kind \in Detectors /\ C[i].severity \in 0..4
    BY <2>1, DetectorsAssumption DEF ChainFindings
  <2> QED BY <2>2 DEF AsFinding, Findings
<1>3. A \in Seq(Findings) /\ Len(A) = Len(C) /\ \A i \in 1..Len(C) : A[i].file = NoFile
  BY <1>1, <1>2
<1>4. Collected = found \o A
  BY DEF Collected, A, C
<1> HIDE DEF A
<1>5. /\ found \o A \in Seq(Findings)
      /\ Len(found \o A) = Len(found) + Len(A) /\ Len(found) \in Nat
      /\ \A i \in 1..Len(found) : (found \o A)[i] = found[i]
      /\ \A i \in 1..Len(found \o A) : i > Len(found) => Among((found \o A)[i], A)
  BY <1>1, <1>3, TwoInARow
<1>6. ASSUME NEW i \in 1..Len(Collected),
             Collected[i].file # NoFile, Collected[i].file.copy # 0
      PROVE  left[Collected[i].file.copy] = Original(Collected[i].file)
  <2>1. CASE i > Len(found)
    <3>1. Collected[i].file = NoFile
      BY <1>3, <1>4, <1>5, <2>1 DEF Among
    <3> QED BY <1>6, <3>1
  <2>2. CASE ~(i > Len(found))
    <3>1. i \in 1..Len(found)
      BY <1>4, <1>5, <2>2
    <3>2. Collected[i] = found[i]
      BY <1>4, <1>5, <3>1
    <3> QED BY <1>6, <3>1, <3>2 DEF FoundRight
  <2> QED BY <2>1, <2>2
<1> QED BY <1>4, <1>5, <1>6

\* FoundRight, action by action: when a scan begins,
LEMMA BeginStages ==
  ASSUME StageTypeOK, Begin PROVE StageTypeOK' /\ FoundRight' /\ UNCHANGED formalVars
<1>1. found' = ScanProject /\ UNCHANGED <<formalVars, project, left>>
  BY DEF Begin
<1>2. /\ ScanProject \in Seq(Findings)
      /\ \A i \in 1..Len(ScanProject) :
           ScanProject[i].file # NoFile /\ ScanProject[i].file.copy # 0 =>
             left[ScanProject[i].file.copy] = Original(ScanProject[i].file)
  BY ScanRight
<1> QED BY <1>1, <1>2 DEF StageTypeOK, FoundRight, Original

\* when the formal stage begins with what was collected,
LEMMA ToFormalStages ==
  ASSUME StagesInv, ToFormal PROVE StageTypeOK' /\ FoundRight' /\ FormalStep
<1>1. /\ found' = Collected /\ UNCHANGED <<project, report, left, scans>>
      /\ (\E o \in OptionSet : StartFormal(o, Collected)) \/ UNCHANGED formalVars
  BY DEF ToFormal
<1>2. /\ Collected \in Seq(Findings)
      /\ \A i \in 1..Len(Collected) :
           Collected[i].file # NoFile /\ Collected[i].file.copy # 0 =>
             left[Collected[i].file.copy] = Original(Collected[i].file)
  BY CollectedRight DEF StagesInv
<1>3. StageTypeOK' /\ FoundRight'
  BY <1>1, <1>2 DEF StagesInv, StageTypeOK, FoundRight, Original
<1>4. FormalStep
  <2> HIDE DEF FormalStep
  <2>1. ASSUME NEW o \in OptionSet, StartFormal(o, Collected) PROVE FormalStep
    BY <1>2, <2>1 DEF FormalStep
  <2>2. ASSUME UNCHANGED formalVars PROVE FormalStep
    BY <2>2 DEF FormalStep
  <2> QED BY <1>1, <2>1, <2>2
<1> QED BY <1>3, <1>4

\* when the process is killed, and leaves the test file of that moment,
LEMMA KillStages ==
  ASSUME StagesInv, Kill PROVE StageTypeOK' /\ FoundRight' /\ FormalReset
<1> DEFINE it == IF testFile = NoFile THEN NoFile ELSE Original(testFile)
<1>1. left' = Append(left, it) /\ found' = <<>> /\ FormalReset /\ UNCHANGED <<project, scans>>
  BY DEF Kill
<1>2. it \in Kills
  <2>1. testFile \in Files \cup {NoFile}
    BY DEF StagesInv, FormalInv, FormalTypeOK
  <2>2. testFile \in Files => Original(testFile) \in [of : Sources, copy : {0}]
    BY DEF Files, Original
  <2> QED BY <2>1, <2>2 DEF Kills
<1> HIDE DEF it
<1>3. left' \in Seq(Kills)
  BY <1>1, <1>2, AppendProperties DEF StagesInv, StageTypeOK
<1>4. Len(<<>>) = 0 /\ <<>> \in Seq(Findings)
  BY EmptySeq
<1> QED BY <1>1, <1>3, <1>4 DEF StagesInv, StageTypeOK, FoundRight

\* and at every step.
LEMMA NextStages ==
  ASSUME StagesInv, [Next]_vars PROVE StageTypeOK' /\ FoundRight' /\ FormalStep
<1>1. StageTypeOK /\ FoundRight
  BY DEF StagesInv
<1>2. CASE Begin
  BY <1>1, <1>2, BeginStages DEF FormalStep
<1>3. ASSUME UNCHANGED <<project, found, left>> PROVE StageTypeOK' /\ FoundRight'
  BY <1>1, <1>3 DEF StageTypeOK, FoundRight, Original
<1>4. CASE OnChainStage
  BY <1>3, <1>4 DEF OnChainStage, stageVars, FormalStep
<1>5. CASE Ticking
  BY <1>3, <1>5 DEF Ticking, stageVars, FormalStep
<1>6. CASE ToFormal
  BY <1>6, ToFormalStages
<1>7. CASE FormalStage
  BY <1>3, <1>7 DEF FormalStage, stageVars, FormalStep
<1>8. CASE Finish
  <2>1. found' = <<>> /\ FormalReset /\ UNCHANGED <<project, left>>
    BY <1>8 DEF Finish
  <2>2. Len(<<>>) = 0 /\ <<>> \in Seq(Findings)
    BY EmptySeq
  <2>3. StageTypeOK' /\ FoundRight'
    BY <1>1, <2>1, <2>2 DEF StageTypeOK, FoundRight
  <2> QED BY <2>1, <2>3 DEF FormalStep
<1>9. CASE Kill
  BY <1>9, KillStages DEF FormalStep
<1>10. CASE UNCHANGED vars
  BY <1>3, <1>10 DEF vars, stageVars, FormalStep
<1> QED BY <1>2, <1>4, <1>5, <1>6, <1>7, <1>8, <1>9, <1>10 DEF Next

\* Every step of the stages keeps FormalInv.
LEMMA NextFormal == ASSUME FormalInv, FormalStep PROVE FormalInv'
<1>1. CASE \E o \in OptionSet, fs \in Seq(Findings) : StartFormal(o, fs)
  BY <1>1, StartStep
<1>2. CASE FormalReset
  BY <1>2, ResetFormal
<1>3. CASE FormalNext(OnDisk)
  BY <1>3, CheckStep, ManticoreStep, PrepareStep, EchidnaStep, ScriptsDoneStep, SelectStep,
     RefuseStep, StartToolStep, EndToolStep, ConfirmStep DEF FormalNext
<1>4. CASE UNCHANGED formalVars
  BY <1>4, SameFormal
<1> QED BY <1>1, <1>2, <1>3, <1>4 DEF FormalStep

\* The inductive invariant of the stages.
LEMMA StagesInvariant == Spec => []StagesInv
<1>1. Init => StagesInv
  BY InitChain, InitFormal, InitStages DEF StagesInv
<1>2. ChainInv /\ ChainInv' /\ StagesInv /\ [Next]_vars => StagesInv'
  <2> SUFFICES ASSUME ChainInv', StagesInv, [Next]_vars PROVE StagesInv'
    OBVIOUS
  <2>1. StageTypeOK' /\ FoundRight' /\ FormalStep
    BY NextStages
  <2>2. FormalInv'
    BY <2>1, NextFormal DEF StagesInv
  <2> QED BY <2>1, <2>2 DEF StagesInv
<1> QED BY <1>1, <1>2, ChainInvariant, PTL DEF Spec

\* The targets the runner selects are the most severe of the eligible ones, and
\* the answers are those of the tools: a violation is one a tool falsified,
\* and "safe" is said only of what passed (or what a broken Echidna printed).
THEOREM ResultsAreRight == Spec => []ResultsRight
<1>1. StagesInv => ResultsRight
  <2> SUFFICES ASSUME StagesInv PROVE ResultsRight
    OBVIOUS
  <2>1. MostSevereChosen
    BY DEF StagesInv, FormalInv, Chosen, MostSevere, MostSevereChosen
  <2>2. DOMAIN outputs = 1..Len(outputs)
    BY LenProperties DEF StagesInv, FormalInv, FormalTypeOK
  <2>3. AnsweredRight
    BY <2>2 DEF StagesInv, FormalInv, OutputsRight, OutputRight, AllDone, AnsweredRight
  <2> QED BY <2>1, <2>3 DEF ResultsRight
<1> QED BY <1>1, StagesInvariant, PTL

\* Outside a run of Echidna there is no test file in the directory but those a
\* killed process left, and a scan finds no others (runEchidna removes its
\* file with a defer, which a kill does not run).
THEOREM DirectoryStaysClean == Spec => []DirectoryClean
<1>1. StagesInv => DirectoryClean
  <2> SUFFICES ASSUME StagesInv PROVE DirectoryClean
    OBVIOUS
  <2>1. DOMAIN found = 1..Len(found)
    BY LenProperties DEF StagesInv, StageTypeOK
  <2> QED BY <2>1 DEF StagesInv, FormalInv, Clean, FoundRight, DirectoryClean
<1> QED BY <1>1, StagesInvariant, PTL
==============================================================================
