---------------------------- MODULE NaturalFacts ----------------------------
(***************************************************************************)
(* The least-number principle for a set of naturals, and what follows from *)
(* it: the greatest number of a bounded set, and induction over a set.     *)
(* The library states them for an operator, which no prover can supply;    *)
(* a set it can.  And triples, which do not descend for ever.              *)
(***************************************************************************)
EXTENDS Naturals, WellFoundedInduction, TLAPS

\* A nonempty set of naturals has a least element.
LEMMA LeastNatural ==
  ASSUME NEW T \in SUBSET Nat, T # {}
  PROVE  \E x \in T : \A y \in T : x <= y
<1> DEFINE R == OpToRel(<, Nat)
<1>1. IsWellFoundedOn(R, Nat)
  BY NatLessThanWellFounded
<1>2. PICK x \in T : \A y \in T : <<y, x>> \notin R
  BY <1>1, WFMin, Zenon
<1>3. \A y \in T : ~(y < x)
  BY <1>2 DEF OpToRel
<1> HIDE DEF R
<1> QED
  BY <1>3, SMT

\* A nonempty bounded set of naturals has a greatest element.
LEMMA GreatestNatural ==
  ASSUME NEW T \in SUBSET Nat, T # {}, NEW n \in Nat, \A x \in T : x <= n
  PROVE  \E x \in T : \A y \in T : y <= x
<1> DEFINE S == {m \in Nat : \A x \in T : x <= m}
<1>1. S \in SUBSET Nat /\ n \in S
  OBVIOUS
<1>2. PICK m \in S : \A k \in S : m <= k
  BY <1>1, LeastNatural
<1>3. m \in T
  <2>1. CASE m = 0
    <3>1. PICK x : x \in T
      OBVIOUS
    <3>2. x \in Nat /\ x <= 0
      BY <1>2, <2>1, <3>1
    <3> QED
      BY <2>1, <3>1, <3>2
  <2>2. CASE m # 0 /\ m \notin T
    <3>1. m - 1 \in Nat /\ \A x \in T : x <= m - 1
      BY <1>2, <2>2
    <3> QED
      BY <1>2, <3>1
  <2> QED
    BY <2>1, <2>2
<1> QED
  BY <1>2, <1>3

\* Induction: a set of naturals that holds 0 and every successor of its
\* elements holds them all.
LEMMA InductiveSet ==
  ASSUME NEW S, 0 \in S, \A n \in Nat : n \in S => n + 1 \in S
  PROVE  Nat \subseteq S
<1> DEFINE T == Nat \ S
<1>1. SUFFICES ASSUME T # {} PROVE FALSE
  OBVIOUS
<1>2. PICK m \in T : \A k \in T : m <= k
  BY <1>1, LeastNatural
<1>3. m - 1 \in Nat /\ m - 1 \in S
  BY <1>2
<1> QED
  BY <1>2, <1>3
-----------------------------------------------------------------------------
\* Triples of naturals in lexicographic order: what is left to do, coarsest
\* first.
Triple == Nat \X (Nat \X Nat)

LexLess(a, b) ==
  \/ a[1] < b[1]
  \/ a[1] = b[1] /\ a[2][1] < b[2][1]
  \/ a[1] = b[1] /\ a[2][1] = b[2][1] /\ a[2][2] < b[2][2]

\* They do not descend for ever.
LEMMA NoDescent ==
  ~\E f \in [Nat -> Triple] : \A n \in Nat : LexLess(f[n + 1], f[n])
<1> DEFINE less == OpToRel(<, Nat)
           inner == LexPairOrdering(less, less, Nat, Nat)
           outer == LexPairOrdering(less, inner, Nat, Nat \X Nat)
<1>1. IsWellFoundedOn(less, Nat)
  BY NatLessThanWellFounded
<1>2. \A m, n \in Nat : m < n => <<m, n>> \in less
  BY DEF OpToRel
<1> HIDE DEF less
<1>3. IsWellFoundedOn(inner, Nat \X Nat)
  BY <1>1, WFLexPairOrdering
<1>4. \A x, y \in Nat \X Nat :
        x[1] < y[1] \/ (x[1] = y[1] /\ x[2] < y[2]) => <<x, y>> \in inner
  BY <1>2 DEF LexPairOrdering
<1> HIDE DEF inner
<1>5. IsWellFoundedOn(outer, Triple)
  BY <1>1, <1>3, WFLexPairOrdering DEF Triple
<1>6. \A a, b \in Triple :
        (a[1] < b[1] \/ (a[1] = b[1] /\ <<a[2], b[2]>> \in inner))
          => <<a, b>> \in outer
  BY <1>2 DEF LexPairOrdering, Triple
<1> HIDE DEF outer
<1>7. ASSUME NEW a \in Triple, NEW b \in Triple, LexLess(a, b)
      PROVE  <<a, b>> \in outer
  <2>1. a[2] \in Nat \X Nat /\ b[2] \in Nat \X Nat
    BY DEF Triple
  <2> QED
    BY <1>4, <1>6, <1>7, <2>1 DEF LexLess
<1>8. ASSUME NEW f \in [Nat -> Triple],
             \A n \in Nat : LexLess(f[n + 1], f[n])
      PROVE  FALSE
  <2>1. \A n \in Nat : <<f[n + 1], f[n]>> \in outer
    BY <1>7, <1>8
  <2> QED
    BY <1>5, <2>1 DEF IsWellFoundedOn
<1> QED
  BY <1>8
=============================================================================
