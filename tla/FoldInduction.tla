----------------------------- MODULE FoldInduction -----------------------------
(***************************************************************************)
(* Induction on what FoldLeft computes: folding a sequence passes through  *)
(* the values that folding its prefixes gives.  A module that folds with   *)
(* an operator of its own instantiates this one with it.                   *)
(***************************************************************************)
EXTENDS Integers, Sequences, SequencesExt, FiniteSetTheorems, TLAPS

CONSTANT Op(_, _)    \* what was accumulated, the next element

(* Induction over the naturals, stated of a set: the library's induction    *)
(* theorems take an operator, the minimum of a well-founded set does not.   *)
LEMMA NatInductionOnSets ==
    ASSUME NEW S, 0 \in S, \A n \in Nat : n \in S => n + 1 \in S
    PROVE  Nat \subseteq S
<1> DEFINE rest == Nat \ S
           less == OpToRel(<, Nat)
<1> SUFFICES ASSUME rest # {} PROVE FALSE
  OBVIOUS
<1>1. IsWellFoundedOn(less, Nat)
  BY NatLessThanWellFounded
<1>2. \A i, j \in Nat : <<i, j>> \in less <=> i < j
  BY DEF OpToRel
<1>3. rest \subseteq Nat
  OBVIOUS
<1> HIDE DEF less, rest
<1>4. \E x \in rest : \A y \in rest : ~ (<<y, x>> \in less)
  BY <1>1, <1>3, WFMin
<1>5. PICK x \in rest : \A y \in rest : ~ (y < x)
  BY <1>2, <1>3, <1>4
<1>6. x \in Nat /\ x # 0
  BY DEF rest
<1>7. x - 1 \in S
  BY <1>5, <1>6 DEF rest
<1> QED
  BY <1>6, <1>7 DEF rest
-----------------------------------------------------------------------------
(* The function FoldLeft folds with, on the sets of indices of a sequence.  *)
Iterates(run, D, q, base) ==
    run = [s \in SUBSET D |->
             IF s = {} THEN base ELSE Op(run[s \ {Max(s)}], q[Max(s)])]

LEMMA Unfolded ==
    ASSUME NEW q, NEW base
    PROVE  FoldLeft(Op, base, q) =
             (CHOOSE run : Iterates(run, DOMAIN q, q, base))[DOMAIN q]
BY DEF FoldLeft, MapThenFoldSet, Iterates

LEMMA MaxOfInterval ==
    ASSUME NEW n \in Nat, NEW s \in SUBSET (1..(n+1)), n + 1 \in s
    PROVE  Max(s) = n + 1
<1>1. \A y \in s : n + 1 >= y
  OBVIOUS
<1>2. \E x \in s : \A y \in s : x >= y
  BY <1>1
<1>3. Max(s) \in s /\ \A y \in s : Max(s) >= y
  BY <1>2 DEF Max
<1> DEFINE m == Max(s)
<1> HIDE DEF m
<1>4. m \in s /\ \A y \in s : m >= y
  BY <1>3 DEF m
<1>5. m \in 1..(n+1) /\ m >= n + 1
  BY <1>4
<1>6. m = n + 1
  BY <1>5
<1> QED
  BY <1>6 DEF m

(* The function for a longer interval extends that for a shorter one.       *)
LEMMA RunExists ==
    ASSUME NEW q, NEW base
    PROVE  \A n \in Nat : \E run : Iterates(run, 1..n, q, base)
<1> DEFINE S == {n \in Nat : \E run : Iterates(run, 1..n, q, base)}
<1>1. 0 \in S
  <2> DEFINE run == [s \in {{}} |-> base]
  <2>1. SUBSET (1..0) = {{}}
    OBVIOUS
  <2>2. run = [s \in SUBSET (1..0) |->
                 IF s = {} THEN base ELSE Op(run[s \ {Max(s)}], q[Max(s)])]
    BY <2>1
  <2> HIDE DEF run
  <2>3. Iterates(run, 1..0, q, base)
    BY <2>2 DEF Iterates
  <2> QED
    BY <2>3
<1>2. ASSUME NEW n \in Nat, n \in S PROVE n + 1 \in S
  <2>1. PICK run : Iterates(run, 1..n, q, base)
    BY <1>2
  <2> DEFINE next == [s \in SUBSET (1..(n+1)) |->
                        IF n + 1 \in s THEN Op(run[s \ {n+1}], q[n+1]) ELSE run[s]]
             Def(s) == IF s = {} THEN base ELSE Op(next[s \ {Max(s)}], q[Max(s)])
  <2>2. ASSUME NEW s \in SUBSET (1..(n+1)), n + 1 \in s PROVE next[s] = Def(s)
    <3>1. Max(s) = n + 1
      BY <2>2, MaxOfInterval
    <3>2. s \ {n+1} \in SUBSET (1..(n+1)) /\ n + 1 \notin s \ {n+1}
      OBVIOUS
    <3>3. next[s \ {n+1}] = run[s \ {n+1}]
      BY <3>2
    <3>4. next[s] = Op(run[s \ {n+1}], q[n+1])
      BY <2>2
    <3>5. s # {}
      BY <2>2
    <3> HIDE DEF next
    <3> QED
      BY <3>1, <3>3, <3>4, <3>5
  <2>3. ASSUME NEW s \in SUBSET (1..(n+1)), n + 1 \notin s PROVE next[s] = Def(s)
    <3>1. s \in SUBSET (1..n)
      BY <2>3
    <3>2. run[s] = IF s = {} THEN base ELSE Op(run[s \ {Max(s)}], q[Max(s)])
      BY <2>1, <3>1 DEF Iterates
    <3>3. s \ {Max(s)} \in SUBSET (1..(n+1)) /\ n + 1 \notin s \ {Max(s)}
      BY <2>3
    <3>4. next[s \ {Max(s)}] = run[s \ {Max(s)}]
      BY <3>3
    <3>5. next[s] = run[s]
      BY <2>3
    <3> HIDE DEF next
    <3> QED
      BY <3>2, <3>4, <3>5
  <2>4. next = [s \in SUBSET (1..(n+1)) |-> Def(s)]
    <3>1. next = [s \in SUBSET (1..(n+1)) |-> next[s]]
      OBVIOUS
    <3> HIDE DEF next, Def
    <3> QED
      BY <2>2, <2>3, <3>1
  <2> HIDE DEF next
  <2>5. Iterates(next, 1..(n+1), q, base)
    BY <2>4 DEF Iterates
  <2> QED
    BY <2>5
<1>3. \A n \in Nat : n \in S => n + 1 \in S
  BY <1>2
<1> HIDE DEF S
<1>4. Nat \subseteq S
  BY <1>1, <1>3, NatInductionOnSets
<1> QED
  BY <1>4 DEF S
-----------------------------------------------------------------------------
(* The values folding the prefixes of a sequence gives.                     *)
IsPath(v, q, base) ==
    /\ v[0] = base
    /\ \A k \in 1..Len(q) : v[k] = Op(v[k-1], q[k])

(* A fold follows a path.                                                   *)
LEMMA PathExists ==
    ASSUME NEW S, NEW q \in Seq(S), NEW base
    PROVE  \E v : IsPath(v, q, base) /\ FoldLeft(Op, base, q) = v[Len(q)]
<1> DEFINE run == CHOOSE r : Iterates(r, DOMAIN q, q, base)
           v == [k \in 0..Len(q) |-> run[1..k]]
<1>1. DOMAIN q = 1..Len(q) /\ Len(q) \in Nat
  OBVIOUS
<1>2. Iterates(run, 1..Len(q), q, base)
  BY <1>1, RunExists
<1>3. FoldLeft(Op, base, q) = run[1..Len(q)]
  BY <1>1, Unfolded
<1> HIDE DEF run
<1>4. run[{}] = base
  BY <1>2 DEF Iterates
<1>5. v[0] = base
  <2>1. 1..0 = {}
    OBVIOUS
  <2> QED
    BY <1>1, <1>4, <2>1
<1>6. ASSUME NEW k \in 1..Len(q) PROVE v[k] = Op(v[k-1], q[k])
  <2> DEFINE s == 1..k
  <2>1. s \in SUBSET (1..Len(q)) /\ s # {} /\ s \ {k} = 1..(k-1)
    <3>1. k \in Nat /\ 1 <= k /\ k <= Len(q)
      BY <1>1
    <3>2. s \in SUBSET (1..Len(q)) /\ k \in s
      BY <1>1, <3>1
    <3>3. s \ {k} = 1..(k-1)
      BY <3>1
    <3> QED
      BY <3>2, <3>3
  <2>2. Max(s) = k
    <3>1. k - 1 \in Nat /\ (k - 1) + 1 = k
      BY <1>1
    <3>2. s \in SUBSET (1..((k-1)+1)) /\ (k - 1) + 1 \in s
      BY <3>1
    <3> HIDE DEF s
    <3> QED
      BY <3>1, <3>2, MaxOfInterval
  <2>3. run[s] = Op(run[s \ {k}], q[k])
    BY <1>2, <2>1, <2>2 DEF Iterates
  <2>4. v[k] = run[1..k] /\ v[k-1] = run[1..(k-1)]
    BY <1>1
  <2> HIDE DEF v
  <2> QED
    BY <2>1, <2>3, <2>4
<1>7. v[Len(q)] = run[1..Len(q)]
  BY <1>1
<1> HIDE DEF v
<1> QED
  BY <1>3, <1>5, <1>6, <1>7 DEF IsPath

(* It follows the only one.                                                 *)
LEMMA FoldFollows ==
    ASSUME NEW S, NEW q \in Seq(S), NEW base, NEW v, IsPath(v, q, base)
    PROVE  FoldLeft(Op, base, q) = v[Len(q)]
<1>1. PICK w : IsPath(w, q, base) /\ FoldLeft(Op, base, q) = w[Len(q)]
  BY PathExists
<1> DEFINE agree == {k \in Nat : k <= Len(q) => v[k] = w[k]}
<1>2. 0 \in agree
  BY <1>1 DEF IsPath
<1>3. \A n \in Nat : n \in agree => n + 1 \in agree
  <2> SUFFICES ASSUME NEW n \in Nat, n \in agree, n + 1 <= Len(q)
               PROVE  v[n+1] = w[n+1]
    OBVIOUS
  <2>1. n + 1 \in 1..Len(q) /\ (n + 1) - 1 = n /\ v[n] = w[n]
    OBVIOUS
  <2> QED
    BY <1>1, <2>1 DEF IsPath
<1> HIDE DEF agree
<1>4. Nat \subseteq agree
  BY <1>2, <1>3, NatInductionOnSets
<1>5. Len(q) \in Nat
  OBVIOUS
<1> QED
  BY <1>1, <1>4, <1>5 DEF agree

(* What every element preserves, the fold preserves.                        *)
LEMMA FoldStays ==
    ASSUME NEW S, NEW q \in Seq(S), NEW T, NEW base \in T,
           \A t \in T, e \in S : Op(t, e) \in T
    PROVE  FoldLeft(Op, base, q) \in T
<1>1. PICK v : IsPath(v, q, base) /\ FoldLeft(Op, base, q) = v[Len(q)]
  BY PathExists
<1> DEFINE kept == {k \in Nat : k <= Len(q) => v[k] \in T}
<1>2. 0 \in kept
  BY <1>1 DEF IsPath
<1>3. \A n \in Nat : n \in kept => n + 1 \in kept
  <2> SUFFICES ASSUME NEW n \in Nat, n \in kept, n + 1 <= Len(q)
               PROVE  v[n+1] \in T
    OBVIOUS
  <2>1. n + 1 \in 1..Len(q) /\ (n + 1) - 1 = n /\ v[n] \in T /\ q[n+1] \in S
    OBVIOUS
  <2> QED
    BY <1>1, <2>1 DEF IsPath
<1> HIDE DEF kept
<1>4. Nat \subseteq kept
  BY <1>2, <1>3, NatInductionOnSets
<1>5. Len(q) \in Nat
  OBVIOUS
<1> QED
  BY <1>1, <1>4, <1>5 DEF kept

LEMMA FoldNothing ==
    ASSUME NEW base
    PROVE  FoldLeft(Op, base, <<>>) = base
<1> DEFINE v == [k \in {0} |-> base]
<1>1. IsPath(v, <<>>, base) /\ v[Len(<<>>)] = base /\ <<>> \in Seq({})
  BY DEF IsPath
<1> HIDE DEF v
<1> QED
  BY <1>1, FoldFollows

(* Folding two sequences in turn is folding the one they make together.     *)
LEMMA FoldBoth ==
    ASSUME NEW S, NEW a \in Seq(S), NEW b \in Seq(S), NEW base
    PROVE  FoldLeft(Op, base, a \o b) = FoldLeft(Op, FoldLeft(Op, base, a), b)
<1> DEFINE middle == FoldLeft(Op, base, a)
<1>1. PICK v : IsPath(v, a, base) /\ middle = v[Len(a)]
  BY PathExists
<1> HIDE DEF middle
<1>2. PICK w : IsPath(w, b, middle) /\ FoldLeft(Op, middle, b) = w[Len(b)]
  BY PathExists
<1> DEFINE m == Len(a)
           n == Len(b)
           both == [k \in 0..(m + n) |-> IF k <= m THEN v[k] ELSE w[k - m]]
<1>3. m \in Nat /\ n \in Nat /\ a \o b \in Seq(S) /\ Len(a \o b) = m + n
  OBVIOUS
<1>4. \A k \in 1..(m + n) : (a \o b)[k] = IF k <= m THEN a[k] ELSE b[k - m]
  OBVIOUS
<1>5. v[0] = base /\ \A k \in 1..m : v[k] = Op(v[k-1], a[k])
  BY <1>1 DEF IsPath
<1>6. w[0] = v[m] /\ \A k \in 1..n : w[k] = Op(w[k-1], b[k])
  BY <1>1, <1>2 DEF IsPath
<1> HIDE DEF m, n
<1>7. both[0] = base
  BY <1>3, <1>5
<1>8. ASSUME NEW k \in 1..(m + n) PROVE both[k] = Op(both[k-1], (a \o b)[k])
  <2>1. CASE k <= m
    <3>1. both[k] = v[k] /\ both[k-1] = v[k-1] /\ k \in 1..m
      BY <1>3, <2>1
    <3> HIDE DEF both
    <3> QED
      BY <1>4, <1>5, <2>1, <3>1
  <2>2. CASE k > m
    <3>1. both[k] = w[k-m] /\ k - m \in 1..n /\ (a \o b)[k] = b[k-m]
      BY <1>3, <1>4, <2>2
    <3>2. both[k-1] = w[(k-m)-1]
      <4>1. CASE k = m + 1
        <5>1. k - 1 = m /\ (k - m) - 1 = 0 /\ both[m] = v[m]
          <6>1. m \in 0..(m + n) /\ m <= m
            BY <1>3
          <6> QED
            BY <1>3, <4>1, <6>1
        <5> HIDE DEF both
        <5> QED
          BY <1>6, <5>1
      <4>2. CASE k # m + 1
        <5>1. (k - 1) - m = (k - m) - 1 /\ ~(k - 1 <= m) /\ k - 1 \in 0..(m+n)
          BY <1>3, <2>2, <4>2
        <5> QED
          BY <5>1
      <4> QED
        BY <4>1, <4>2
    <3>3. w[k-m] = Op(w[(k-m)-1], b[k-m])
      BY <1>6, <3>1
    <3> HIDE DEF both
    <3> QED
      BY <3>1, <3>2, <3>3
  <2> QED
    BY <1>3, <2>1, <2>2
<1>9. both[m + n] = w[n]
  <2>1. CASE n = 0
    <3>1. m + n = m /\ both[m] = v[m]
      BY <1>3, <2>1
    <3> HIDE DEF both
    <3> QED
      BY <1>6, <2>1, <3>1
  <2>2. CASE n # 0
    <3>1. (m + n) - m = n /\ ~(m + n <= m) /\ m + n \in 0..(m+n)
      BY <1>3, <2>2
    <3> QED
      BY <3>1
  <2> QED
    BY <2>1, <2>2
<1> HIDE DEF both
<1>10. IsPath(both, a \o b, base)
  BY <1>3, <1>7, <1>8 DEF IsPath
<1>11. FoldLeft(Op, base, a \o b) = both[m + n]
  BY <1>3, <1>10, FoldFollows
<1> QED
  BY <1>2, <1>9, <1>11 DEF middle, n

LEMMA FoldOne ==
    ASSUME NEW base, NEW e
    PROVE  FoldLeft(Op, base, <<e>>) = Op(base, e)
<1> DEFINE v == [k \in {0, 1} |-> IF k = 0 THEN base ELSE Op(base, e)]
<1>1. /\ IsPath(v, <<e>>, base) /\ v[Len(<<e>>)] = Op(base, e)
      /\ <<e>> \in Seq({e})
  BY DEF IsPath
<1> HIDE DEF v
<1> QED
  BY <1>1, FoldFollows
=============================================================================
