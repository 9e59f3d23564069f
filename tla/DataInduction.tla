--------------------------- MODULE DataInduction ---------------------------
(***************************************************************************)
(* Induction over numbers, sequences and recursive functions in the form   *)
(* the proofs of the other modules cite: about sets and functions instead  *)
(* of operators.                                                           *)
(***************************************************************************)
EXTENDS Naturals, Sequences, FiniteSets, FiniteSetTheorems, WellFoundedInduction, TLAPS

\* A non-empty set of naturals has a least element.
LEMMA LeastNatural ==
    ASSUME NEW D \in SUBSET Nat, D # {}
    PROVE  \E d \in D : \A y \in D : d <= y
<1>1. PICK d \in D : \A y \in D : ~(<<y, d>> \in OpToRel(<, Nat))
  BY WFMin, NatLessThanWellFounded
<1>2. ASSUME NEW y \in D, y < d
      PROVE  FALSE
  <2>1. <<y, d>> \in Nat \X Nat /\ <<y, d>>[1] < <<y, d>>[2]
    BY <1>2
  <2>2. <<y, d>> \in OpToRel(<, Nat)
    BY <2>1, Zenon DEF OpToRel
  <2>3. QED
    BY <1>1, <2>2
<1>3. QED
  BY <1>2

\* A finite set of naturals has a largest element.
LEMMA LargestNatural ==
    ASSUME NEW S \in SUBSET Nat, IsFiniteSet(S), S # {}
    PROVE  \E n \in S : \A m \in S : m <= n
<1> DEFINE Top(T) == \E n \in T : \A m \in T : m <= n
           D == {d \in Nat : \E T \in SUBSET Nat : /\ IsFiniteSet(T) /\ T # {}
                                                   /\ Cardinality(T) = d /\ ~Top(T)}
<1>1. SUFFICES ASSUME ~Top(S)
               PROVE  FALSE
  OBVIOUS
<1>2. Cardinality(S) \in D
  BY <1>1, FS_CardinalityType
<1>3. PICK d \in D : \A y \in D : d <= y
  BY <1>2, LeastNatural
<1>4. PICK T \in SUBSET Nat : IsFiniteSet(T) /\ T # {} /\ Cardinality(T) = d /\ ~Top(T)
  BY <1>3
<1>5. PICK x \in T : TRUE
  BY <1>4
<1> DEFINE R == T \ {x}
<1>6. IsFiniteSet(R) /\ Cardinality(R) = d - 1 /\ R \in SUBSET Nat
  BY <1>4, <1>5, FS_RemoveElement
<1>7. d - 1 \in Nat
  BY <1>6, FS_CardinalityType
<1>8. d - 1 \notin D
  BY <1>3, <1>7
<1>9. R = {} \/ Top(R)
  BY <1>6, <1>7, <1>8
<1>10. CASE R = {}
  BY <1>4, <1>5, <1>10
<1>11. CASE Top(R)
  <2>1. PICK y \in R : \A m \in R : m <= y
    BY <1>11
  <2>2. x \in Nat /\ y \in Nat /\ \A m \in T : m = x \/ m \in R
    BY <1>5, <1>6
  <2>3. CASE x <= y
    BY <1>4, <2>1, <2>2, <2>3
  <2>4. CASE ~(x <= y)
    <3>1. \A m \in T : m <= x
      BY <1>4, <2>1, <2>2, <2>4
    <3>2. QED
      BY <1>4, <1>5, <3>1
  <2>5. QED
    BY <2>3, <2>4
<1>12. QED
  BY <1>9, <1>10, <1>11

\* The values of a function on a finite set are finitely many.
LEMMA FiniteImage ==
    ASSUME NEW S, IsFiniteSet(S), NEW f, f = [x \in S |-> f[x]]
    PROVE  IsFiniteSet({f[x] : x \in S})
<1> DEFINE T == {f[x] : x \in S}
<1>1. f \in Surjection(S, T)
  BY DEF Surjection
<1>2. QED
  BY <1>1, FS_Surjection

\* What the empty sequence has and every appended element keeps, all have.
LEMMA SeqInduction ==
    ASSUME NEW S, NEW G, <<>> \in G,
           \A s \in Seq(S), e \in S : s \in G => Append(s, e) \in G
    PROVE  \A s \in Seq(S) : s \in G
<1> SUFFICES ASSUME NEW s \in Seq(S), s \notin G
             PROVE  FALSE
  OBVIOUS
<1> DEFINE D == {d \in Nat : \E t \in Seq(S) : Len(t) = d /\ t \notin G}
<1>1. Len(s) \in D
  OBVIOUS
<1>2. PICK d \in D : \A y \in D : d <= y
  BY <1>1, LeastNatural
<1>3. PICK t \in Seq(S) : Len(t) = d /\ t \notin G
  BY <1>2
<1>4. d # 0
  BY <1>3
<1> DEFINE r == SubSeq(t, 1, d - 1)
<1>5. d \in Nat /\ d - 1 \in Nat /\ d - 1 < d /\ d \in 1 .. Len(t)
  BY <1>2, <1>3, <1>4
<1>6. r \in Seq(S) /\ Len(r) = d - 1 /\ t[d] \in S /\ t = Append(r, t[d])
  BY <1>3, <1>5
<1> HIDE DEF r
<1>7. d - 1 \notin D
  BY <1>2, <1>5
<1>8. r \in G
  BY <1>5, <1>6, <1>7
<1>9. QED
  BY <1>3, <1>6, <1>8

\* A recursion along positions has a solution, and it stays in V.
LEMMA RecursionExists ==
    ASSUME NEW V, NEW base \in V, NEW n \in Nat, NEW h \in [1 .. n -> [V -> V]]
    PROVE  \E f \in [0 .. n -> V] : /\ f[0] = base
                                    /\ \A k \in 1 .. n : f[k] = h[k][f[k - 1]]
<1> DEFINE Solves(f, m) == f[0] = base /\ \A k \in 1 .. m : f[k] = h[k][f[k - 1]]
           D == {d \in Nat : d <= n /\ ~\E f \in [0 .. d -> V] : Solves(f, d)}
<1>1. SUFFICES ASSUME D # {}
               PROVE  FALSE
  <2>1. SUFFICES n \notin D
    OBVIOUS
  <2> HIDE DEF D
  <2>2. QED
    BY <1>1
<1>2. PICK d \in D : \A y \in D : d <= y
  BY <1>1, LeastNatural
<1>3. d # 0
  <2> DEFINE g == [k \in 0 .. 0 |-> base]
  <2>1. g \in [0 .. 0 -> V] /\ Solves(g, 0)
    OBVIOUS
  <2>2. QED
    BY <1>2, <2>1
<1>4. d \in 1 .. n /\ d - 1 \in Nat /\ d - 1 \notin D
  BY <1>2, <1>3
<1>5. PICK f \in [0 .. d - 1 -> V] : Solves(f, d - 1)
  BY <1>4
<1> DEFINE v == h[d][f[d - 1]]
           g == [k \in 0 .. d |-> IF k = d THEN v ELSE f[k]]
<1>6. f[d - 1] \in V /\ v \in V
  BY <1>4, <1>5
<1>7. v = h[d][f[d - 1]]
  OBVIOUS
<1> HIDE DEF v
<1>8. /\ g \in [0 .. d -> V] /\ g[0] = base /\ g[d] = v
      /\ \A k \in 0 .. d - 1 : g[k] = f[k]
  BY <1>4, <1>5, <1>6
<1> HIDE DEF g
<1>9. ASSUME NEW k \in 1 .. d
      PROVE  g[k] = h[k][g[k - 1]]
  <2>1. CASE k = d
    <3>1. g[d - 1] = f[d - 1]
      BY <1>4, <1>8
    <3>2. QED
      BY <1>7, <1>8, <2>1, <3>1
  <2>2. CASE k # d
    BY <1>4, <1>5, <1>8, <2>2
  <2>3. QED
    BY <2>1, <2>2
<1>10. QED
  BY <1>2, <1>8, <1>9

\* The same with the step functions and the solution named, which is the form
\* the provers can match.
StepsOn(V, n) == [1 .. n -> [V -> V]]

SolvedBy(f, V, base, n, h) ==
    f \in [0 .. n -> V] /\ f[0] = base /\ \A k \in 1 .. n : f[k] = h[k][f[k - 1]]

\* A recursion over 0 .. n whose steps stay in V has a solution in V.
LEMMA Recursion ==
    ASSUME NEW V, NEW base \in V, NEW n \in Nat, NEW h \in StepsOn(V, n)
    PROVE  \E f : SolvedBy(f, V, base, n, h)
<1>1. h \in [1 .. n -> [V -> V]]
  BY DEF StepsOn
<1>2. \E f \in [0 .. n -> V] : f[0] = base /\ \A k \in 1 .. n : f[k] = h[k][f[k - 1]]
  BY <1>1, RecursionExists
<1>3. QED
  BY <1>2 DEF SolvedBy

\* ... and only one.
LEMMA RecursionUnique ==
    ASSUME NEW n \in Nat, NEW f, NEW g, f[0] = g[0],
           \A k \in 1 .. n : f[k - 1] = g[k - 1] => f[k] = g[k]
    PROVE  \A k \in 0 .. n : f[k] = g[k]
<1> DEFINE D == {d \in Nat : d <= n /\ f[d] # g[d]}
<1>1. SUFFICES ASSUME D # {}
               PROVE  FALSE
  OBVIOUS
<1>2. PICK d \in D : \A y \in D : d <= y
  BY <1>1, LeastNatural
<1>3. d \in 1 .. n /\ d - 1 \in Nat /\ d - 1 <= n /\ d - 1 \notin D
  BY <1>2
<1>4. QED
  BY <1>2, <1>3

\* Recursion along parents: position k takes its value from an earlier one.
Parents(n) == {p \in [1 .. n -> Nat] : \A k \in 1 .. n : p[k] < k}

ParentSolved(f, V, base, n, p, h) ==
    f \in [0 .. n -> V] /\ f[0] = base /\ \A k \in 1 .. n : f[k] = h[k][f[p[k]]]

\* A recursion along parents whose steps stay in V has a solution in V.
LEMMA ParentRecursion ==
    ASSUME NEW V, NEW base \in V, NEW n \in Nat, NEW p \in Parents(n), NEW h \in StepsOn(V, n)
    PROVE  \E f : ParentSolved(f, V, base, n, p, h)
<1> DEFINE Solves(f, m) == f[0] = base /\ \A k \in 1 .. m : f[k] = h[k][f[p[k]]]
           D == {d \in Nat : d <= n /\ ~\E f \in [0 .. d -> V] : Solves(f, d)}
<1>0. /\ h \in [1 .. n -> [V -> V]]
      /\ \A k \in 1 .. n : p[k] \in Nat /\ p[k] < k
  BY DEF StepsOn, Parents
<1>1. SUFFICES ASSUME D # {}
               PROVE  FALSE
  <2>1. n \notin D => \E f \in [0 .. n -> V] : Solves(f, n)
    OBVIOUS
  <2> HIDE DEF D
  <2>2. ASSUME NEW f \in [0 .. n -> V], Solves(f, n)
        PROVE  ParentSolved(f, V, base, n, p, h)
    BY <2>2 DEF ParentSolved
  <2> HIDE DEF Solves
  <2>3. QED
    BY <1>1, <2>1, <2>2
<1>2. PICK d \in D : \A y \in D : d <= y
  BY <1>1, LeastNatural
<1>3. d # 0
  <2> DEFINE g == [k \in 0 .. 0 |-> base]
  <2>1. g \in [0 .. 0 -> V] /\ Solves(g, 0)
    OBVIOUS
  <2>2. ~\E f \in [0 .. d -> V] : Solves(f, d)
    BY <1>2
  <2> HIDE DEF g, Solves, D
  <2>3. QED
    BY <2>1, <2>2
<1>4. d \in 1 .. n /\ d - 1 \in Nat /\ d - 1 \notin D
  BY <1>2, <1>3
<1>5. PICK f \in [0 .. d - 1 -> V] : Solves(f, d - 1)
  BY <1>4
<1> DEFINE v == h[d][f[p[d]]]
           g == [k \in 0 .. d |-> IF k = d THEN v ELSE f[k]]
<1>6. \A k \in 1 .. d : k \in 1 .. n /\ p[k] \in 0 .. d - 1
  BY <1>0, <1>4
<1>7. f[p[d]] \in V /\ v \in V
  BY <1>0, <1>4, <1>5, <1>6
<1>8. v = h[d][f[p[d]]]
  OBVIOUS
<1> HIDE DEF v
<1>9. /\ g \in [0 .. d -> V] /\ g[0] = base /\ g[d] = v
      /\ \A k \in 0 .. d - 1 : g[k] = f[k]
  BY <1>4, <1>5, <1>7
<1> HIDE DEF g
<1>10. ASSUME NEW k \in 1 .. d
       PROVE  g[k] = h[k][g[p[k]]]
  <2>1. g[p[k]] = f[p[k]]
    BY <1>6, <1>9
  <2>2. CASE k = d
    BY <1>8, <1>9, <2>1, <2>2
  <2>3. CASE k # d
    <3>1. k \in 1 .. d - 1 /\ k \in 0 .. d - 1
      BY <1>4, <2>3
    <3>2. QED
      BY <1>5, <1>9, <2>1, <3>1
  <2>4. QED
    BY <2>2, <2>3
<1>11. QED
  BY <1>2, <1>9, <1>10

\* ... and only one.
LEMMA ParentUnique ==
    ASSUME NEW n \in Nat, NEW p \in Parents(n), NEW f, NEW g, f[0] = g[0],
           \A k \in 1 .. n : f[p[k]] = g[p[k]] => f[k] = g[k]
    PROVE  \A k \in 0 .. n : f[k] = g[k]
<1> DEFINE D == {d \in Nat : d <= n /\ f[d] # g[d]}
<1>1. SUFFICES ASSUME D # {}
               PROVE  FALSE
  OBVIOUS
<1>2. PICK d \in D : \A y \in D : d <= y
  BY <1>1, LeastNatural
<1>3. d \in 1 .. n
  BY <1>2
<1>4. p[d] \in Nat /\ p[d] < d
  BY <1>3 DEF Parents
<1>5. p[d] <= n /\ p[d] \notin D
  BY <1>2, <1>3, <1>4
<1>6. QED
  BY <1>2, <1>3, <1>4, <1>5
=============================================================================
