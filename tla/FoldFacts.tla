----------------------------- MODULE FoldFacts ------------------------------
(***************************************************************************)
(* What FoldLeft computes, for every operator and every sequence: the last *)
(* value of a trace that begins with the base and takes one element after  *)
(* the other.  A module that folds with an operator instantiates this one  *)
(* with it.  The induction is over the lengths, as a set of numbers that   *)
(* has no smallest exception (WFMin).                                      *)
(***************************************************************************)
EXTENDS Integers, Sequences, SequencesExt, WellFoundedInduction, TLAPS

CONSTANTS Op(_, _), Good(_)

\* A set that has 0 and with every number the next one has all of them.
LEMMA NatSet ==
    ASSUME NEW T, 0 \in T, \A n \in Nat : n \in T => n + 1 \in T
    PROVE  Nat \subseteq T
<1> DEFINE R == OpToRel(<, Nat)
<1>1. IsWellFoundedOn(R, Nat)
  BY NatLessThanWellFounded
<1>2. \A x, y \in Nat : x < y => <<x, y>> \in R
  BY DEF OpToRel
<1> HIDE DEF R
<1> SUFFICES ASSUME Nat \ T # {} PROVE FALSE
  OBVIOUS
<1>3. PICK x \in Nat \ T : \A y \in Nat \ T : ~(<<y, x>> \in R)
  BY <1>1, WFMin, Zenon
<1>4. x # 0 /\ x \in Nat
  BY <1>3
<1>5. x - 1 \in Nat /\ x - 1 < x
  BY <1>4
<1>6. x - 1 \in T
  BY <1>2, <1>3, <1>5
<1>7. QED
  BY <1>3, <1>5, <1>6

\* The function over the sets of places that FoldLeft chooses.
IsFold(it, base, seq, n) ==
    it = [s \in SUBSET (1 .. n) |->
            IF s = {} THEN base ELSE Op(it[s \ {Max(s)}], seq[Max(s)])]

LEMMA MaxLemma ==
    ASSUME NEW n \in Nat, NEW s \in SUBSET (1 .. n + 1), n + 1 \in s
    PROVE  Max(s) = n + 1 /\ s \ {n + 1} \in SUBSET (1 .. n)
<1>1. n + 1 \in s /\ \A y \in s : n + 1 >= y
  OBVIOUS
<1>2. \A x \in s : (\A y \in s : x >= y) => x = n + 1
  OBVIOUS
<1>3. Max(s) = n + 1
  BY <1>1, <1>2, Zenon DEF Max
<1>4. s \ {n + 1} \in SUBSET (1 .. n)
  OBVIOUS
<1>5. QED
  BY <1>3, <1>4

\* There is such a function.
LEMMA FoldExists ==
    ASSUME NEW base, NEW seq, NEW n \in Nat
    PROVE  \E it : IsFold(it, base, seq, n)
<1> DEFINE T == {k \in Nat : \E it : IsFold(it, base, seq, k)}
<1>1. 0 \in T
  <2> DEFINE it == [s \in SUBSET (1 .. 0) |-> base]
  <2>1. \A s \in SUBSET (1 .. 0) : s = {}
    OBVIOUS
  <2>2. IsFold(it, base, seq, 0)
    BY <2>1 DEF IsFold
  <2>3. QED
    BY <2>2
<1>2. ASSUME NEW k \in Nat, k \in T
      PROVE  k + 1 \in T
  <2>1. PICK it : IsFold(it, base, seq, k)
    BY <1>2
  <2> DEFINE more == [s \in SUBSET (1 .. k + 1) |->
                        IF k + 1 \in s THEN Op(it[s \ {k + 1}], seq[k + 1]) ELSE it[s]]
             Body(s) == IF s = {} THEN base ELSE Op(more[s \ {Max(s)}], seq[Max(s)])
  <2>2. ASSUME NEW s \in SUBSET (1 .. k + 1)
        PROVE  more[s] = Body(s)
    <3>1. CASE k + 1 \in s
      <4>1. Max(s) = k + 1 /\ s \ {k + 1} \in SUBSET (1 .. k)
        BY <3>1, MaxLemma
      <4>2. more[s \ {k + 1}] = it[s \ {k + 1}]
        BY <4>1
      <4>3. more[s] = Op(it[s \ {k + 1}], seq[k + 1])
        BY <3>1
      <4>4. QED
        BY <3>1, <4>1, <4>2, <4>3
    <3>2. CASE k + 1 \notin s
      <4>1. s \in SUBSET (1 .. k)
        BY <3>2
      <4>2. k + 1 \notin s \ {Max(s)} /\ s \ {Max(s)} \in SUBSET (1 .. k + 1)
        BY <3>2
      <4>3. more[s] = it[s] /\ more[s \ {Max(s)}] = it[s \ {Max(s)}]
        BY <3>2, <4>2
      <4>4. it[s] = IF s = {} THEN base ELSE Op(it[s \ {Max(s)}], seq[Max(s)])
        BY <2>1, <4>1 DEF IsFold
      <4>5. QED
        BY <4>3, <4>4
    <3>3. QED
      BY <3>1, <3>2
  <2>3. more = [s \in SUBSET (1 .. k + 1) |-> Body(s)]
    <3>1. more = [s \in SUBSET (1 .. k + 1) |-> more[s]]
      OBVIOUS
    <3> HIDE DEF more, Body
    <3>2. QED
      BY <2>2, <3>1
  <2>4. IsFold(more, base, seq, k + 1)
    BY <2>3 DEF IsFold
  <2>5. QED
    BY <2>4
<1>3. Nat \subseteq T
  <2> HIDE DEF T
  <2>1. QED
    BY <1>1, <1>2, NatSet
<1>4. QED
  BY <1>3

\* h[k] is the value after the first k elements.
Trace(h, base, seq, n) ==
    /\ DOMAIN h = 0 .. n /\ h[0] = base
    /\ \A k \in 1 .. n : h[k] = Op(h[k - 1], seq[k])

\* From it, the value after the first k elements.
LEMMA FoldPrefix ==
    ASSUME NEW base, NEW seq, NEW n \in Nat, NEW it, IsFold(it, base, seq, n)
    PROVE  Trace([k \in 0 .. n |-> it[1 .. k]], base, seq, n)
<1>1. it[1 .. 0] = base
  <2>1. 1 .. 0 = {}
    OBVIOUS
  <2>2. QED
    BY <2>1 DEF IsFold
<1>2. ASSUME NEW k \in 1 .. n
      PROVE  it[1 .. k] = Op(it[1 .. (k - 1)], seq[k])
  <2>1. 1 .. k \in SUBSET (1 .. n) /\ 1 .. k # {} /\ (1 .. k) \ {k} = 1 .. (k - 1)
    OBVIOUS
  <2>2. Max(1 .. k) = k
    <3>1. k - 1 \in Nat /\ (k - 1) + 1 = k
      OBVIOUS
    <3>2. k \in 1 .. k /\ 1 .. k \in SUBSET (1 .. (k - 1) + 1)
      OBVIOUS
    <3>3. QED
      BY <3>1, <3>2, MaxLemma
  <2>3. it[1 .. k] = Op(it[(1 .. k) \ {Max(1 .. k)}], seq[Max(1 .. k)])
    BY <2>1 DEF IsFold
  <2>4. QED
    BY <2>1, <2>2, <2>3
<1>3. QED
  BY <1>1, <1>2 DEF Trace

\* FoldLeft takes one element after the other.
LEMMA FoldTrace ==
    ASSUME NEW base, NEW n \in Nat, NEW seq, DOMAIN seq = 1 .. n
    PROVE  \E h : Trace(h, base, seq, n) /\ h[n] = FoldLeft(Op, base, seq)
<1> DEFINE it == CHOOSE it : IsFold(it, base, seq, n)
           h == [k \in 0 .. n |-> it[1 .. k]]
<1>1. IsFold(it, base, seq, n)
  BY FoldExists
<1>2. FoldLeft(Op, base, seq) = it[1 .. n]
  BY Zenon DEF FoldLeft, MapThenFoldSet, IsFold
<1> HIDE DEF it
<1>3. Trace(h, base, seq, n)
  BY <1>1, FoldPrefix
<1>4. QED
  BY <1>2, <1>3

\* What every step keeps, the fold has.
LEMMA FoldKeeps ==
    ASSUME NEW base, NEW n \in Nat, NEW seq, DOMAIN seq = 1 .. n, Good(base),
           \A x : \A k \in 1 .. n : Good(x) => Good(Op(x, seq[k]))
    PROVE  Good(FoldLeft(Op, base, seq))
<1>1. PICK h : Trace(h, base, seq, n) /\ h[n] = FoldLeft(Op, base, seq)
  BY FoldTrace
<1> DEFINE T == {k \in Nat : k <= n => Good(h[k])}
<1>2. 0 \in T
  BY <1>1 DEF Trace
<1>3. ASSUME NEW k \in Nat, k \in T
      PROVE  k + 1 \in T
  <2>1. CASE k + 1 <= n
    <3>1. k + 1 \in 1 .. n /\ (k + 1) - 1 = k /\ Good(h[k])
      BY <1>3, <2>1
    <3>2. h[k + 1] = Op(h[k], seq[k + 1])
      BY <1>1, <3>1 DEF Trace
    <3>3. QED
      BY <3>1, <3>2
  <2>2. QED
    BY <2>1
<1>4. Nat \subseteq T
  <2> HIDE DEF T
  <2>1. QED
    BY <1>2, <1>3, NatSet
<1>5. QED
  BY <1>1, <1>4
=============================================================================
