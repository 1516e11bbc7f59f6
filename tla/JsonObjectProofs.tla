-------------------------- MODULE JsonObjectProofs --------------------------
(***************************************************************************)
(* Proof that reference counting is sound: for any number of objects of    *)
(* any types, any member names, hash function, sizes and bounds, every     *)
(* count is exact, an object is alive as long as it can be reached and no  *)
(* longer, and a change finds its container and its slot where they were   *)
(* when the old value has been released.                                   *)
(*                                                                         *)
(* The argument: let Own(id) be the sequence of what object id refers to.  *)
(* Apart from the types, the invariant Sound says that the counts are      *)
(* exact, that a dead object refers to nothing, and that the graph of Own  *)
(* has no cycle; in such a graph every live object is reached, for the     *)
(* live objects that are not would have, each of them, a holder among      *)
(* them.  For the change that waits it says that its container can be      *)
(* reached from the client, and not from the value to be stored.  The      *)
(* lemmas on graphs and counts say what one new, one removed, one counted  *)
(* and one freed reference do to such a graph; those on one object, which  *)
(* of these a table or an array does when it is changed.                   *)
(***************************************************************************)
EXTENDS JsonTableProofs, JsonObject

-----------------------------------------------------------------------------
(***************************************************************************)
(* Counting.  How often x is in a sequence.                                *)
(***************************************************************************)
At(s, x) == {i \in DOMAIN s : s[i] = x}
Occ(s, x) == Cardinality(At(s, x))
One(b) == IF b THEN 1 ELSE 0

\* It is a natural number, and 0 if x is nowhere in the sequence.
LEMMA OccType ==
    ASSUME NEW S, NEW s \in Seq(S), NEW x
    PROVE  /\ IsFiniteSet(At(s, x)) /\ Occ(s, x) \in Nat
           /\ Occ(s, x) = 0 <=> \A i \in DOMAIN s : s[i] # x
<1>1. DOMAIN s = 1 .. Len(s) /\ Len(s) \in Nat
  OBVIOUS
<1>2. IsFiniteSet(1 .. Len(s))
  BY <1>1, FS_Interval
<1>3. At(s, x) \in SUBSET (1 .. Len(s))
  BY <1>1 DEF At
<1>4. IsFiniteSet(At(s, x))
  BY <1>2, <1>3, FS_Subset
<1>5. Occ(s, x) \in Nat
  BY <1>4, FS_CardinalityType DEF Occ
<1>6. Occ(s, x) = 0 <=> At(s, x) = {}
  BY <1>4, FS_EmptySet DEF Occ
<1>7. At(s, x) = {} <=> \A i \in DOMAIN s : s[i] # x
  BY DEF At
<1> QED BY <1>4, <1>5, <1>6, <1>7

\* A place that comes to hold v.
Fills(s, t, x, v, i) ==
    i \notin At(s, x) /\ At(t, x) = IF v = x THEN At(s, x) \cup {i} ELSE At(s, x)
LEMMA OccAdd ==
    ASSUME NEW S, NEW s \in Seq(S), NEW t, NEW x, NEW v, NEW i, Fills(s, t, x, v, i)
    PROVE  Occ(t, x) = Occ(s, x) + One(v = x)
<1>1. IsFiniteSet(At(s, x)) /\ Cardinality(At(s, x)) \in Nat
  BY OccType DEF Occ
<1>2. Cardinality(At(s, x) \cup {i}) = Cardinality(At(s, x)) + 1
  BY <1>1, FS_AddElement DEF Fills
<1> QED BY <1>1, <1>2 DEF Occ, One, Fills

\* One after the other, two sequences hold what both hold.
LEMMA OccConcat ==
    ASSUME NEW S, NEW s \in Seq(S), NEW t \in Seq(S), NEW x
    PROVE  Occ(s \o t, x) = Occ(s, x) + Occ(t, x)
<1> DEFINE m == Len(s)
           n == Len(t)
           r == s \o t
           B == {j \in m + 1 .. m + n : r[j] = x}
           f == [i \in At(t, x) |-> m + i]
<1>1. /\ m \in Nat /\ n \in Nat /\ DOMAIN s = 1 .. m /\ DOMAIN t = 1 .. n
  OBVIOUS
<1>2. /\ r \in Seq(S) /\ Len(r) = m + n
      /\ \A i \in 1 .. m + n : r[i] = IF i <= m THEN s[i] ELSE t[i - m]
  BY ConcatProperties
<1>3. DOMAIN r = 1 .. m + n
  BY <1>2
<1> HIDE DEF r, m, n
<1>4. At(r, x) = At(s, x) \cup B
  <2>1. ASSUME NEW i \in 1 .. m + n PROVE i \in At(r, x) <=> i \in At(s, x) \cup B
    <3>1. CASE i <= m
      BY <1>1, <1>2, <1>3, <3>1 DEF At
    <3>2. CASE i > m
      BY <1>1, <1>2, <1>3, <3>2 DEF At
    <3> QED BY <1>1, <3>1, <3>2
  <2>2. At(r, x) \subseteq 1 .. m + n /\ At(s, x) \cup B \subseteq 1 .. m + n
    BY <1>1, <1>3 DEF At
  <2> QED BY <2>1, <2>2
<1>5. At(s, x) \cap B = {}
  BY <1>1 DEF At
<1>6. f \in Bijection(At(t, x), B)
  <2>1. ASSUME NEW i \in At(t, x) PROVE f[i] \in B
    <3>1. i \in 1 .. n /\ t[i] = x
      BY <1>1 DEF At
    <3>2. m + i \in m + 1 .. m + n /\ m + i \in 1 .. m + n /\ ~(m + i <= m) /\ (m + i) - m = i
      BY <1>1, <3>1
    <3>3. r[m + i] = x
      BY <1>2, <3>1, <3>2
    <3> QED BY <3>2, <3>3
  <2>2. \A a, b \in At(t, x) : f[a] = f[b] => a = b
    <3> SUFFICES ASSUME NEW a \in At(t, x), NEW b \in At(t, x), m + a = m + b PROVE a = b
      OBVIOUS
    <3>1. a \in 1 .. n /\ b \in 1 .. n
      BY <1>1 DEF At
    <3> QED BY <1>1, <3>1
  <2>3. ASSUME NEW j \in B PROVE \E i \in At(t, x) : f[i] = j
    <3>1. /\ j \in 1 .. m + n /\ ~(j <= m) /\ j - m \in 1 .. n /\ m + (j - m) = j /\ r[j] = x
      BY <1>1
    <3>2. t[j - m] = x
      BY <1>2, <3>1
    <3>3. j - m \in At(t, x)
      BY <1>1, <3>1, <3>2 DEF At
    <3> QED BY <3>1, <3>3
  <2>4. f \in [At(t, x) -> B]
    BY <2>1
  <2> HIDE DEF f, B
  <2> QED BY <2>2, <2>3, <2>4 DEF Bijection, Injection, Surjection, IsInjective
<1>7. IsFiniteSet(At(t, x)) /\ IsFiniteSet(At(s, x)) /\ Occ(s, x) \in Nat /\ Occ(t, x) \in Nat
  BY OccType
<1>8. IsFiniteSet(B) /\ Cardinality(B) = Occ(t, x)
  BY <1>6, <1>7, FS_Bijection DEF ExistsBijection, Occ
<1> HIDE DEF B
<1>9. Cardinality(At(s, x) \cup B) = Occ(s, x) + Occ(t, x) - Cardinality({})
  BY <1>5, <1>7, <1>8, FS_Union DEF Occ
<1>10. Cardinality({}) = 0
  BY FS_EmptySet
<1> QED BY <1>4, <1>7, <1>9, <1>10 DEF Occ, r

\* A sequence of one element.
LEMMA OccSingle ==
    ASSUME NEW y, NEW x PROVE Occ(<<y>>, x) = One(y = x)
<1>1. At(<<y>>, x) = IF y = x THEN {1} ELSE {}
  BY DEF At
<1>2. Cardinality({1}) = 1 /\ Cardinality({}) = 0
  BY FS_Singleton, FS_EmptySet
<1> QED BY <1>1, <1>2 DEF Occ, One

\* The empty sequence.
LEMMA OccEmpty ==
    ASSUME NEW x PROVE Occ(<<>>, x) = 0
<1>1. At(<<>>, x) = {}
  BY DEF At
<1> QED BY <1>1, FS_EmptySet DEF Occ

\* The head is counted, and then the rest.
LEMMA OccTail ==
    ASSUME NEW S, NEW s \in Seq(S), s # <<>>, NEW x
    PROVE  Occ(s, x) = Occ(Tail(s), x) + One(Head(s) = x) /\ Occ(Tail(s), x) \in Nat
<1>1. Head(s) \in S /\ Tail(s) \in Seq(S) /\ <<Head(s)>> \in Seq(S)
  OBVIOUS
<1>2. s = <<Head(s)>> \o Tail(s)
  OBVIOUS
<1>3. Occ(<<Head(s)>> \o Tail(s), x) = Occ(<<Head(s)>>, x) + Occ(Tail(s), x)
  BY <1>1, OccConcat
<1>4. Occ(<<Head(s)>>, x) = One(Head(s) = x)
  BY OccSingle
<1>5. Occ(Tail(s), x) \in Nat
  BY <1>1, OccType
<1>6. One(Head(s) = x) \in Nat
  BY DEF One
<1>7. Occ(s, x) = Occ(<<Head(s)>>, x) + Occ(Tail(s), x)
  BY <1>2, <1>3, Zenon
<1> QED BY <1>4, <1>5, <1>6, <1>7

\* An element is taken out.
Without(s, i, r) == \A j \in 1 .. Len(s) - 1 : r[j] = IF j < i THEN s[j] ELSE s[j + 1]
\* What is left without element i, which was v.
LEMMA OccRemove ==
    ASSUME NEW S, NEW s \in Seq(S), NEW i \in 1 .. Len(s), NEW x, s[i] # x,
           NEW r \in Seq(S), Len(r) = Len(s) - 1,
           Without(s, i, r)
    PROVE  Occ(r, x) = Occ(s, x)
<1> DEFINE l == Len(s)
           Old(j) == IF j < i THEN j ELSE j + 1
           f == [j \in At(r, x) |-> Old(j)]
<1>1. l \in Nat /\ DOMAIN s = 1 .. l /\ i \in 1 .. l
  OBVIOUS
<1>2. r \in Seq(S) /\ Len(r) = l - 1 /\ \A j \in 1 .. l - 1 : r[j] = s[Old(j)]
  BY DEF Without
<1>3. DOMAIN r = 1 .. l - 1
  BY <1>2
<1> HIDE DEF l
<1>4. f \in [At(r, x) -> At(s, x)]
  <2>1. ASSUME NEW j \in At(r, x) PROVE Old(j) \in At(s, x)
    <3>1. j \in 1 .. l - 1 /\ r[j] = x
      BY <1>3 DEF At
    <3>2. Old(j) \in 1 .. l /\ s[Old(j)] = x
      BY <1>1, <1>2, <3>1
    <3> QED BY <1>1, <3>2 DEF At
  <2> QED BY <2>1
<1>5. \A a, b \in At(r, x) : f[a] = f[b] => a = b
  <2> SUFFICES ASSUME NEW a \in At(r, x), NEW b \in At(r, x), Old(a) = Old(b) PROVE a = b
    OBVIOUS
  <2>1. a \in 1 .. l - 1 /\ b \in 1 .. l - 1
    BY <1>3 DEF At
  <2> QED BY <1>1, <2>1
<1>6. ASSUME NEW j \in At(s, x) PROVE \E a \in At(r, x) : f[a] = j
  <2>1. j \in 1 .. l /\ s[j] = x /\ j # i
    BY <1>1 DEF At, l
  <2> DEFINE a == IF j < i THEN j ELSE j - 1
  <2>2. a \in 1 .. l - 1 /\ Old(a) = j
    BY <1>1, <2>1
  <2> HIDE DEF a
  <2>3. r[a] = x
    BY <1>2, <2>1, <2>2
  <2>4. a \in At(r, x)
    BY <1>3, <2>2, <2>3 DEF At
  <2> QED BY <2>2, <2>4
<1> HIDE DEF f
<1>7. f \in Bijection(At(r, x), At(s, x))
  BY <1>4, <1>5, <1>6 DEF Bijection, Injection, Surjection, IsInjective
<1>8. IsFiniteSet(At(r, x))
  BY <1>2, OccType
<1> QED BY <1>7, <1>8, FS_Bijection DEF ExistsBijection, Occ

-----------------------------------------------------------------------------
(***************************************************************************)
(* Graphs of references.  O says for every object what it refers to, in    *)
(* order; S is a set of objects.                                           *)
(***************************************************************************)
Things == Ids \cup {NULL}
Refer(O, p, id) == \E i \in DOMAIN O[p] : O[p][i] = id
ClosedIn(O, S) == \A p \in S, id \in Ids : Refer(O, p, id) => id \in S
From(O, S) == {id \in Ids : \A T \in SUBSET Ids : S \subseteq T /\ ClosedIn(O, T) => id \in T}

\* No cycle: every set of objects has one that no object of the set refers to.
Acyclic(O) == \A T \in SUBSET Ids : T # {} => \E o \in T : \A p \in T : ~Refer(O, p, o)

Graph(O) == \A p \in Ids : O[p] \in Seq(Things)
PlacesIn(O, x) == UNION {{c} \X At(O[c], x) : c \in Ids}

\* The graph but for what object c refers to.
SameBut(O, N, c) == \A p \in Ids \ {c} : N[p] = O[p]

\* The objects are finitely many numbers from 1.
LEMMA IdsFinite == IsFiniteSet(Ids) /\ Ids \subseteq Nat \ {0} /\ NULL \notin Ids
<1>1. Ids = 1 .. Len(TypeOf) /\ Len(TypeOf) \in Nat
  BY TypeOfAssumption DEF Ids
<1>2. IsFiniteSet(1 .. Len(TypeOf))
  BY <1>1, FS_Interval
<1>3. Ids \subseteq Nat \ {0} /\ NULL \notin Ids
  BY <1>1 DEF NULL
<1> QED BY <1>1, <1>2, <1>3

\* The places of references to an object are finitely many; none if none refers
\* to it.
LEMMA PlacesType ==
    ASSUME NEW O, Graph(O), NEW x
    PROVE  /\ IsFiniteSet(PlacesIn(O, x)) /\ Cardinality(PlacesIn(O, x)) \in Nat
           /\ Cardinality(PlacesIn(O, x)) = 0 <=> \A p \in Ids : ~Refer(O, p, x)
<1>1. IsFiniteSet({{c} \X At(O[c], x) : c \in Ids})
  <2> DEFINE Z == {{c} \X At(O[c], x) : c \in Ids}
             f == [c \in Ids |-> {c} \X At(O[c], x)]
  <2>1. f \in Surjection(Ids, Z)
    BY DEF Surjection
  <2> HIDE DEF Z, f
  <2>2. IsFiniteSet(Z)
    BY <2>1, IdsFinite, FS_Surjection
  <2> QED BY <2>2 DEF Z
<1>2. ASSUME NEW c \in Ids PROVE IsFiniteSet({c} \X At(O[c], x))
  BY OccType, FS_Singleton, FS_Product DEF Graph
<1>3. IsFiniteSet(PlacesIn(O, x))
  BY <1>1, <1>2, FS_UNION DEF PlacesIn
<1>4. Cardinality(PlacesIn(O, x)) \in Nat
  BY <1>3, FS_CardinalityType
<1>5. Cardinality(PlacesIn(O, x)) = 0 <=> PlacesIn(O, x) = {}
  BY <1>3, FS_EmptySet
<1>6. PlacesIn(O, x) = {} <=> \A p \in Ids : At(O[p], x) = {}
  <2>1. ASSUME NEW z \in PlacesIn(O, x) PROVE \E p \in Ids : At(O[p], x) # {}
    <3>1. PICK p \in Ids : z \in {p} \X At(O[p], x)
      BY <2>1 DEF PlacesIn
    <3> QED BY <3>1
  <2>2. ASSUME NEW p \in Ids, NEW i \in At(O[p], x) PROVE PlacesIn(O, x) # {}
    <3>1. <<p, i>> \in {p} \X At(O[p], x)
      BY <2>2
    <3> HIDE DEF At
    <3>2. <<p, i>> \in PlacesIn(O, x)
      BY <3>1 DEF PlacesIn
    <3> QED BY <3>2
  <2> QED BY <2>1, <2>2
<1>7. \A p \in Ids : At(O[p], x) = {} <=> ~Refer(O, p, x)
  BY DEF At, Refer
<1> QED BY <1>3, <1>4, <1>5, <1>6, <1>7

\* The places of one object and those of the others.
Elsewhere(O, c, x) == UNION {{d} \X At(O[d], x) : d \in Ids \ {c}}

\* They are those in c and those elsewhere.
LEMMA PlacesSplit ==
    ASSUME NEW O, Graph(O), NEW c \in Ids, NEW x
    PROVE  /\ Cardinality(Elsewhere(O, c, x)) \in Nat
           /\ Cardinality(PlacesIn(O, x)) = Occ(O[c], x) + Cardinality(Elsewhere(O, c, x))
<1> DEFINE R == Elsewhere(O, c, x)
           C == {c} \X At(O[c], x)
<1>1. PlacesIn(O, x) = C \cup R
  BY DEF PlacesIn, Elsewhere
<1>2. C \cap R = {}
  BY DEF Elsewhere
<1>3. IsFiniteSet(PlacesIn(O, x))
  BY PlacesType
<1>4. R \in SUBSET PlacesIn(O, x) /\ C \in SUBSET PlacesIn(O, x)
  BY <1>1
<1>5. IsFiniteSet(R) /\ IsFiniteSet(C)
  BY <1>3, <1>4, FS_Subset
<1>6. IsFiniteSet(At(O[c], x)) /\ Occ(O[c], x) \in Nat /\ Cardinality({c}) = 1 /\ IsFiniteSet({c})
  BY OccType, FS_Singleton DEF Graph
<1>7. Cardinality(C) = 1 * Occ(O[c], x)
  BY <1>6, FS_Product DEF Occ
<1> HIDE DEF C, R
<1>8. Cardinality(C \cup R) = Cardinality(C) + Cardinality(R) - Cardinality({})
  BY <1>2, <1>5, FS_Union
<1>9. Cardinality({}) = 0 /\ Cardinality(R) \in Nat
  BY <1>5, FS_EmptySet, FS_CardinalityType
<1>10. Cardinality(PlacesIn(O, x)) = Occ(O[c], x) + Cardinality(R)
  BY <1>1, <1>6, <1>7, <1>8, <1>9
<1> QED BY <1>5, <1>9, <1>10 DEF R

\* When c alone changes, so does the number of its places alone.
LEMMA PlacesChange ==
    ASSUME NEW O, NEW N, Graph(O), Graph(N), NEW c \in Ids, SameBut(O, N, c), NEW x
    PROVE  Cardinality(PlacesIn(N, x)) + Occ(O[c], x) = Cardinality(PlacesIn(O, x)) + Occ(N[c], x)
<1> DEFINE R == Elsewhere(O, c, x)
           Q == Elsewhere(N, c, x)
<1>1. Cardinality(R) \in Nat /\ Cardinality(PlacesIn(O, x)) = Occ(O[c], x) + Cardinality(R)
  BY PlacesSplit
<1>2. Cardinality(PlacesIn(N, x)) = Occ(N[c], x) + Cardinality(Q)
  BY PlacesSplit
<1>3. R = Q
  BY DEF SameBut, At, Elsewhere
<1>4. Occ(O[c], x) \in Nat /\ Occ(N[c], x) \in Nat
  BY OccType DEF Graph
<1> HIDE DEF R, Q
<1> QED BY <1>1, <1>2, <1>3, <1>4

-----------------------------------------------------------------------------
\* What leads from S to an object.
LEMMA FromClosed ==
    ASSUME NEW O, NEW S
    PROVE  ClosedIn(O, From(O, S)) /\ (S \subseteq Ids => S \subseteq From(O, S))
BY DEF ClosedIn, From

LEMMA FromMonotone ==
    ASSUME NEW O, NEW S, NEW T, S \subseteq T
    PROVE  From(O, S) \subseteq From(O, T)
BY DEF From

\* Fewer references lead to fewer objects.
LEMMA FromShrinks ==
    ASSUME NEW O, NEW N, NEW S, \A p, id \in Ids : Refer(N, p, id) => Refer(O, p, id)
    PROVE  From(N, S) \subseteq From(O, S)
<1>1. \A T \in SUBSET Ids : ClosedIn(O, T) => ClosedIn(N, T)
  BY DEF ClosedIn
<1> QED BY <1>1 DEF From

\* What c refers to is not on the way to c.
LEMMA FromOthers ==
    ASSUME NEW O, NEW N, NEW c \in Ids, SameBut(O, N, c), NEW S, c \in From(O, S)
    PROVE  c \in From(N, S)
<1>1. ASSUME NEW T \in SUBSET Ids, S \subseteq T, ClosedIn(N, T), c \notin T PROVE FALSE
  <2>1. ClosedIn(O, T)
    BY <1>1 DEF ClosedIn, SameBut, Refer
  <2> QED BY <1>1, <2>1 DEF From
<1> QED BY <1>1 DEF From

\* Nor does an object without references and without a place in S matter.
LEMMA FromWithout ==
    ASSUME NEW O, NEW N, NEW f \in Ids, SameBut(O, N, f), NEW S, S \subseteq Ids, f \notin S,
           \A p \in Ids : ~Refer(O, p, f), NEW c \in From(O, S)
    PROVE  c \in From(N, S) /\ c # f
<1>1. ASSUME NEW T \in SUBSET Ids, S \subseteq T, ClosedIn(N, T) PROVE c \in T \ {f}
  <2>1. T \ {f} \in SUBSET Ids /\ S \subseteq T \ {f}
    BY <1>1
  <2>2. ASSUME NEW p \in T \ {f}, NEW id \in Ids, Refer(O, p, id) PROVE id \in T \ {f}
    <3>1. N[p] = O[p] /\ p \in Ids
      BY <2>2 DEF SameBut
    <3>2. Refer(N, p, id)
      BY <2>2, <3>1 DEF Refer
    <3> QED BY <1>1, <2>2, <3>1, <3>2 DEF ClosedIn
  <2>3. ClosedIn(O, T \ {f})
    BY <2>2 DEF ClosedIn
  <2> DEFINE U == T \ {f}
  <2> HIDE DEF U
  <2>4. c \in U
    BY <2>1, <2>3 DEF From, U
  <2> QED BY <2>4 DEF U
<1>2. c \in From(N, S)
  BY <1>1 DEF From
<1>3. ClosedIn(N, Ids)
  BY DEF ClosedIn
<1> QED BY <1>1, <1>2, <1>3

\* N has no references that are not in O, but for one from c to v.
AddsOnly(O, N, c, v) ==
    \A p, id \in Ids : Refer(N, p, id) => Refer(O, p, id) \/ (p = c /\ id = v)

\* A reference from c to v makes no cycle if nothing leads from v to c.
LEMMA AcyclicAdd ==
    ASSUME NEW O, NEW N, Acyclic(O), NEW c \in Ids, NEW v, c \notin From(O, {v}),
           AddsOnly(O, N, c, v)
    PROVE  Acyclic(N)
<1> DEFINE V == From(O, {v})
<1>1. SUFFICES ASSUME NEW T \in SUBSET Ids, T # {}
               PROVE  \E o \in T : \A p \in T : ~Refer(N, p, o)
  BY DEF Acyclic
<1>2. CASE c \in T /\ v \in Ids
  <2>1. ClosedIn(O, V) /\ v \in V
    BY <1>2, FromClosed
  <2> HIDE DEF V
  <2>2. T \ V \in SUBSET Ids /\ c \in T \ V
    BY <1>2 DEF V
  <2>3. PICK o \in T \ V : \A p \in T \ V : ~Refer(O, p, o)
    BY <2>2 DEF Acyclic
  <2>4. ASSUME NEW p \in T, Refer(N, p, o) PROVE FALSE
    <3>1. p \in Ids /\ o \in Ids /\ o # v
      BY <2>1
    <3>2. Refer(O, p, o)
      BY <2>4, <3>1 DEF AddsOnly
    <3>3. p \in V
      BY <2>3, <3>2
    <3>4. o \in V
      BY <2>1, <3>1, <3>2, <3>3 DEF ClosedIn
    <3> QED BY <3>4
  <2> QED BY <2>3, <2>4
<1>3. CASE ~(c \in T /\ v \in Ids)
  <2>1. PICK o \in T : \A p \in T : ~Refer(O, p, o)
    BY <1>1 DEF Acyclic
  <2> QED BY <1>1, <1>3, <2>1 DEF AddsOnly
<1> QED BY <1>2, <1>3

\* Fewer references make no cycle.
LEMMA AcyclicShrinks ==
    ASSUME NEW O, NEW N, Acyclic(O), \A p, id \in Ids : Refer(N, p, id) => Refer(O, p, id)
    PROVE  Acyclic(N)
BY DEF Acyclic

-----------------------------------------------------------------------------
(***************************************************************************)
(* Counts.  R says for every object its count, M the references of the     *)
(* client, P those still to be put.                                        *)
(***************************************************************************)
Counted1(O, R, M, P, id) ==
    R[id] = M[id] + Cardinality(PlacesIn(O, id)) + Occ(P, id)
GraphOk(O, R, M, P) ==
    /\ Graph(O) /\ P \in Seq(Things)
    /\ \A id \in Ids : R[id] \in Nat /\ M[id] \in Nat /\ Counted1(O, R, M, P, id)
    /\ \A p, id \in Ids : R[p] = 0 => ~Refer(O, p, id)
    /\ Acyclic(O)
Roots(M, P) == {id \in Ids : M[id] > 0} \cup {id \in Ids : \E i \in DOMAIN P : P[i] = id}

\* The right counts keep alive what the roots lead to, and nothing else.
LEMMA AliveLemma ==
    ASSUME NEW O, NEW R, NEW M, NEW P, GraphOk(O, R, M, P)
    PROVE  {id \in Ids : R[id] > 0} = From(O, Roots(M, P))
<1> DEFINE L == {id \in Ids : R[id] > 0}
           S == Roots(M, P)
<1>1. ASSUME NEW id \in Ids
      PROVE  /\ R[id] \in Nat /\ M[id] \in Nat
             /\ R[id] > 0 <=> (id \in S \/ \E p \in Ids : Refer(O, p, id))
  <2>1. /\ R[id] \in Nat /\ M[id] \in Nat
        /\ R[id] = M[id] + Cardinality(PlacesIn(O, id)) + Occ(P, id)
    BY DEF GraphOk, Counted1
  <2>2. /\ Cardinality(PlacesIn(O, id)) \in Nat
        /\ Cardinality(PlacesIn(O, id)) = 0 <=> \A p \in Ids : ~Refer(O, p, id)
    BY PlacesType DEF GraphOk
  <2>3. Occ(P, id) \in Nat /\ (Occ(P, id) = 0 <=> \A i \in DOMAIN P : P[i] # id)
    BY OccType DEF GraphOk
  <2>4. id \in S <=> M[id] > 0 \/ Occ(P, id) # 0
    BY <2>3 DEF Roots
  <2> HIDE DEF S
  <2>5. (id \in S \/ \E p \in Ids : Refer(O, p, id))
        <=> M[id] > 0 \/ Occ(P, id) # 0 \/ Cardinality(PlacesIn(O, id)) # 0
    BY <2>2, <2>4
  <2>6. R[id] > 0 <=> M[id] > 0 \/ Occ(P, id) # 0 \/ Cardinality(PlacesIn(O, id)) # 0
    BY <2>1, <2>2, <2>3
  <2> QED BY <2>1, <2>5, <2>6
<1>2. S \subseteq Ids
  BY DEF Roots
<1> HIDE DEF S
<1>3. ClosedIn(O, L) /\ S \subseteq L /\ L \in SUBSET Ids
  BY <1>1, <1>2 DEF ClosedIn
<1>4. From(O, S) \subseteq L
  BY <1>3 DEF From
<1> DEFINE T == L \ From(O, S)
<1>5. ASSUME T # {} PROVE FALSE
  <2>1. PICK o \in T : \A p \in T : ~Refer(O, p, o)
    BY <1>5 DEF GraphOk, Acyclic
  <2>2. o \in Ids /\ R[o] > 0 /\ o \notin From(O, S)
    BY <2>1
  <2>3. ClosedIn(O, From(O, S)) /\ S \subseteq From(O, S)
    BY <1>2, FromClosed
  <2>4. PICK p \in Ids : Refer(O, p, o)
    BY <1>1, <2>2, <2>3
  <2>5. R[p] > 0
    BY <1>1, <2>2, <2>4 DEF GraphOk
  <2>6. p \in From(O, S)
    BY <2>1, <2>4, <2>5
  <2> QED BY <2>2, <2>3, <2>4, <2>6 DEF ClosedIn
<1> QED BY <1>4, <1>5 DEF S

-----------------------------------------------------------------------------
\* Counts R and references M before, Q and L after; D is what c refers to.
Sums(R, M, P, D, Q, L, U, E) ==
    \A x \in Ids :
       /\ Q[x] \in Nat /\ L[x] \in Nat
       /\ Q[x] + M[x] + Occ(D, x) + Occ(P, x) = R[x] + L[x] + Occ(E, x) + Occ(U, x)

\* A step that changes what c refers to and the counts, references and puts,
\* so that the sums stay equal.
LEMMA GraphStep ==
    ASSUME NEW O, NEW R, NEW M, NEW P, GraphOk(O, R, M, P),
           NEW N, NEW Q, NEW L, NEW U, NEW c \in Ids, SameBut(O, N, c), N[c] \in Seq(Things),
           Acyclic(N), U \in Seq(Things), Sums(R, M, P, O[c], Q, L, U, N[c]),
           \A p, x \in Ids : Q[p] = 0 => ~Refer(N, p, x)
    PROVE  GraphOk(N, Q, L, U)
<1>1. Graph(N)
  BY DEF GraphOk, Graph, SameBut
<1>2. ASSUME NEW x \in Ids PROVE Counted1(N, Q, L, U, x)
  <2>1. /\ Q[x] \in Nat /\ L[x] \in Nat
        /\ Q[x] + M[x] + Occ(O[c], x) + Occ(P, x) = R[x] + L[x] + Occ(N[c], x) + Occ(U, x)
    BY DEF Sums
  <2>2. /\ R[x] \in Nat /\ M[x] \in Nat
        /\ R[x] = M[x] + Cardinality(PlacesIn(O, x)) + Occ(P, x)
    BY DEF GraphOk, Counted1
  <2>3. Cardinality(PlacesIn(N, x)) + Occ(O[c], x) = Cardinality(PlacesIn(O, x)) + Occ(N[c], x)
    BY <1>1, PlacesChange DEF GraphOk
  <2>4. Cardinality(PlacesIn(N, x)) \in Nat /\ Cardinality(PlacesIn(O, x)) \in Nat
    BY <1>1, PlacesType DEF GraphOk
  <2>5. Occ(O[c], x) \in Nat /\ Occ(N[c], x) \in Nat /\ Occ(P, x) \in Nat /\ Occ(U, x) \in Nat
    BY <1>1, OccType DEF GraphOk, Graph
  <2> DEFINE q == Q[x]
             r == R[x]
             l == L[x]
             m == M[x]
             a == Cardinality(PlacesIn(O, x))
             b == Cardinality(PlacesIn(N, x))
             d == Occ(O[c], x)
             e == Occ(N[c], x)
             p == Occ(P, x)
             u == Occ(U, x)
  <2>6. q + m + d + p = r + l + e + u /\ r = m + a + p /\ b + d = a + e
    BY <2>1, <2>2, <2>3
  <2>7. /\ q \in Nat /\ r \in Nat /\ l \in Nat /\ m \in Nat /\ a \in Nat /\ b \in Nat
        /\ d \in Nat /\ e \in Nat /\ p \in Nat /\ u \in Nat
    BY <2>1, <2>2, <2>4, <2>5
  <2> SUFFICES q = l + b + u
    BY DEF Counted1
  <2> HIDE DEF q, r, l, m, a, b, d, e, p, u
  <2> QED BY <2>6, <2>7
<1> QED BY <1>1, <1>2, Zenon DEF GraphOk, Sums

\* t has one place more than s, and v is in it.
Gain(s, t, v) == \A x \in Ids : Occ(t, x) = Occ(s, x) + One(v = x)

\* With v in its new place, c refers to v and to what it did.
LEMMA GainRefers ==
    ASSUME NEW O, NEW N, NEW c \in Ids, SameBut(O, N, c), O[c] \in Seq(Things), N[c] \in Seq(Things),
           NEW v, Gain(O[c], N[c], v), NEW p \in Ids, NEW x \in Ids
    PROVE  /\ Refer(O, p, x) => Refer(N, p, x)
           /\ Refer(N, p, x) => Refer(O, p, x) \/ (p = c /\ x = v)
<1>1. CASE p # c
  BY <1>1 DEF SameBut, Refer
<1>2. CASE p = c
  <2>1. /\ Occ(O[c], x) \in Nat /\ (Occ(O[c], x) = 0 <=> \A i \in DOMAIN O[c] : O[c][i] # x)
        /\ Occ(N[c], x) \in Nat /\ (Occ(N[c], x) = 0 <=> \A i \in DOMAIN N[c] : N[c][i] # x)
    BY OccType
  <2>2. Occ(N[c], x) = IF v = x THEN Occ(O[c], x) + 1 ELSE Occ(O[c], x)
    BY <2>1 DEF Gain, One
  <2>3. (Occ(O[c], x) = 0 <=> ~Refer(O, c, x)) /\ (Occ(N[c], x) = 0 <=> ~Refer(N, c, x))
    BY <2>1 DEF Refer
  <2> QED BY <1>2, <2>1, <2>2, <2>3
<1> QED BY <1>1, <1>2

\* The client gives v to c.
LEMMA GiveStep ==
    ASSUME NEW O, NEW R, NEW M, NEW P, GraphOk(O, R, M, P),
           NEW N, NEW L, NEW c \in Ids, SameBut(O, N, c), N[c] \in Seq(Things), R[c] > 0,
           NEW v \in Things, Gain(O[c], N[c], v),
           v # NULL => M[v] > 0 /\ c \notin From(O, {v}),
           \A x \in Ids : L[x] = IF x = v THEN M[x] - 1 ELSE M[x]
    PROVE  GraphOk(N, R, L, P)
<1>1. Graph(O) /\ O[c] \in Seq(Things) /\ Acyclic(O) /\ P \in Seq(Things)
  BY DEF GraphOk, Graph
<1>2. \A p, x \in Ids : Refer(N, p, x) => Refer(O, p, x) \/ (p = c /\ x = v)
  BY <1>1, GainRefers
<1>3. Acyclic(N)
  <2>1. CASE v = NULL
    <3>1. \A p, x \in Ids : Refer(N, p, x) => Refer(O, p, x)
      <4>1. \A x \in Ids : x # v
        BY <2>1, IdsFinite
      <4> QED BY <1>2, <4>1
    <3> QED BY <1>1, <3>1, AcyclicShrinks
  <2>2. CASE v # NULL
    <3>1. c \notin From(O, {v}) /\ AddsOnly(O, N, c, v)
      BY <1>2, <2>2 DEF AddsOnly
    <3> QED BY <1>1, <3>1, AcyclicAdd
  <2> QED BY <2>1, <2>2
<1>4. ASSUME NEW x \in Ids
      PROVE  /\ R[x] \in Nat /\ L[x] \in Nat
             /\ R[x] + M[x] + Occ(O[c], x) + Occ(P, x) = R[x] + L[x] + Occ(N[c], x) + Occ(P, x)
  <2>1. R[x] \in Nat /\ M[x] \in Nat /\ Occ(O[c], x) \in Nat /\ Occ(P, x) \in Nat
    BY <1>1, OccType DEF GraphOk
  <2>2. Occ(N[c], x) = IF v = x THEN Occ(O[c], x) + 1 ELSE Occ(O[c], x)
    BY <2>1 DEF Gain, One
  <2>3. v = x => M[x] > 0
    BY IdsFinite
  <2> DEFINE r == R[x]
             l == L[x]
             m == M[x]
             d == Occ(O[c], x)
             e == Occ(N[c], x)
             p == Occ(P, x)
  <2>4. /\ l = IF x = v THEN m - 1 ELSE m
        /\ e = IF v = x THEN d + 1 ELSE d
        /\ v = x => m > 0
    BY <2>2, <2>3
  <2>5. r \in Nat /\ m \in Nat /\ d \in Nat /\ p \in Nat
    BY <2>1
  <2> SUFFICES r \in Nat /\ l \in Nat /\ r + m + d + p = r + l + e + p
    OBVIOUS
  <2> HIDE DEF r, l, m, d, e, p
  <2> QED BY <2>4, <2>5
<1>5. \A p, x \in Ids : R[p] = 0 => ~Refer(N, p, x)
  <2> SUFFICES ASSUME NEW p \in Ids, NEW x \in Ids, R[p] = 0 PROVE ~Refer(N, p, x)
    OBVIOUS
  <2>1. p # c /\ ~Refer(O, p, x)
    BY DEF GraphOk
  <2> QED BY <1>2, <2>1
<1>6. Sums(R, M, P, O[c], R, L, P, N[c])
  BY <1>4 DEF Sums
<1> QED BY <1>1, <1>3, <1>5, <1>6, GraphStep

\* c gives up a place: what is in it is to be put.
LEMMA TakeStep ==
    ASSUME NEW O, NEW R, NEW M, GraphOk(O, R, M, <<>>),
           NEW N, NEW c \in Ids, SameBut(O, N, c), N[c] \in Seq(Things),
           NEW old \in Things, Gain(N[c], O[c], old)
    PROVE  /\ GraphOk(N, R, M, <<old>>)
           /\ \A p, x \in Ids : Refer(N, p, x) => Refer(O, p, x)
<1>1. Graph(O) /\ O[c] \in Seq(Things) /\ Acyclic(O) /\ <<old>> \in Seq(Things)
  BY DEF GraphOk, Graph
<1>2. \A p, x \in Ids : Refer(N, p, x) => Refer(O, p, x)
  <2>1. SameBut(N, O, c)
    BY DEF SameBut
  <2> QED BY <1>1, <2>1, GainRefers
<1>3. Acyclic(N)
  BY <1>1, <1>2, AcyclicShrinks
<1>4. ASSUME NEW x \in Ids
      PROVE  /\ R[x] \in Nat /\ M[x] \in Nat
             /\ R[x] + M[x] + Occ(O[c], x) + Occ(<<>>, x) = R[x] + M[x] + Occ(N[c], x) + Occ(<<old>>, x)
  <2>1. R[x] \in Nat /\ M[x] \in Nat /\ Occ(N[c], x) \in Nat
    BY <1>1, OccType DEF GraphOk
  <2>2. Occ(O[c], x) = Occ(N[c], x) + One(old = x) /\ One(old = x) \in Nat
    BY DEF Gain, One
  <2>3. Occ(<<old>>, x) = One(old = x) /\ Occ(<<>>, x) = 0
    BY OccSingle, OccEmpty
  <2> HIDE DEF Occ, One
  <2> QED BY <2>1, <2>2, <2>3
<1>5. \A p, x \in Ids : R[p] = 0 => ~Refer(N, p, x)
  BY <1>2 DEF GraphOk
<1>6. Sums(R, M, <<>>, O[c], R, M, <<old>>, N[c])
  BY <1>4 DEF Sums
<1>7. GraphOk(N, R, M, <<old>>)
  BY <1>1, <1>3, <1>5, <1>6, GraphStep
<1> QED BY <1>2, <1>7

\* The sums are kept, and no count of an object that lives becomes zero.
Counts(R, M, P, Q, L, U) ==
    \A x \in Ids :
       /\ Q[x] \in Nat /\ L[x] \in Nat /\ (R[x] > 0 => Q[x] > 0)
       /\ Q[x] + M[x] + Occ(P, x) = R[x] + L[x] + Occ(U, x)

\* An object whose count changes, with what the client holds and the puts.
LEMMA CountStep ==
    ASSUME NEW O, NEW R, NEW M, NEW P, GraphOk(O, R, M, P),
           NEW Q, NEW L, NEW U, U \in Seq(Things),
           Counts(R, M, P, Q, L, U)
    PROVE  GraphOk(O, Q, L, U)
<1>5. CASE Ids = {}
  BY <1>5 DEF GraphOk, Graph, Acyclic
<1>6. SUFFICES ASSUME NEW id \in Ids PROVE GraphOk(O, Q, L, U)
  BY <1>5
<1>1. Graph(O) /\ O[id] \in Seq(Things) /\ Acyclic(O) /\ P \in Seq(Things) /\ SameBut(O, O, id)
  BY DEF GraphOk, Graph, SameBut
<1>2. ASSUME NEW x \in Ids
      PROVE  /\ Q[x] \in Nat /\ L[x] \in Nat
             /\ Q[x] + M[x] + Occ(O[id], x) + Occ(P, x) = R[x] + L[x] + Occ(O[id], x) + Occ(U, x)
  <2>1. /\ R[x] \in Nat /\ M[x] \in Nat /\ Occ(O[id], x) \in Nat /\ Occ(P, x) \in Nat
        /\ Occ(U, x) \in Nat
    BY <1>1, OccType DEF GraphOk
  <2>2. Q[x] \in Nat /\ L[x] \in Nat /\ Q[x] + M[x] + Occ(P, x) = R[x] + L[x] + Occ(U, x)
    BY DEF Counts
  <2> DEFINE q == Q[x]
             r == R[x]
             l == L[x]
             m == M[x]
             d == Occ(O[id], x)
             p == Occ(P, x)
             u == Occ(U, x)
  <2>3. /\ r \in Nat /\ m \in Nat /\ d \in Nat /\ p \in Nat /\ u \in Nat /\ q \in Nat /\ l \in Nat
        /\ q + m + p = r + l + u
    BY <2>1, <2>2
  <2> SUFFICES q \in Nat /\ l \in Nat /\ q + m + d + p = r + l + d + u
    OBVIOUS
  <2> HIDE DEF q, r, l, m, d, p, u
  <2> QED BY <2>3
<1>3. \A p, x \in Ids : Q[p] = 0 => ~Refer(O, p, x)
  <2> SUFFICES ASSUME NEW p \in Ids, NEW x \in Ids, Q[p] = 0 PROVE ~Refer(O, p, x)
    OBVIOUS
  <2>1. R[p] \in Nat /\ ~(R[p] > 0)
    BY DEF GraphOk, Counts
  <2>2. R[p] = 0
    BY <2>1
  <2> QED BY <2>2 DEF GraphOk
<1>4. Sums(R, M, P, O[id], Q, L, U, O[id])
  BY <1>2 DEF Sums
<1> QED BY <1>1, <1>3, <1>4, GraphStep

\* The last reference to an object is put, and what it held is to be put.
LEMMA FreeStep ==
    ASSUME NEW O, NEW R, NEW M, NEW P, GraphOk(O, R, M, P), P # <<>>,
           NEW f \in Ids, f = Head(P), R[f] = 1,
           NEW N, SameBut(O, N, f), N[f] = <<>>,
           NEW Q, \A x \in Ids : Q[x] = IF x = f THEN 0 ELSE R[x]
    PROVE  /\ GraphOk(N, Q, M, O[f] \o Tail(P))
           /\ M[f] = 0 /\ \A p \in Ids : ~Refer(O, p, f)
           /\ \A p, x \in Ids : Refer(N, p, x) => Refer(O, p, x)
<1>1. Graph(O) /\ O[f] \in Seq(Things) /\ Acyclic(O) /\ P \in Seq(Things) /\ Tail(P) \in Seq(Things)
  BY DEF GraphOk, Graph
<1>2. \A x \in Ids : Occ(P, x) = Occ(Tail(P), x) + One(f = x) /\ Occ(Tail(P), x) \in Nat
  BY <1>1, OccTail
<1>3. M[f] = 0 /\ \A p \in Ids : ~Refer(O, p, f)
  <2>1. R[f] = M[f] + Cardinality(PlacesIn(O, f)) + Occ(P, f) /\ M[f] \in Nat
    BY DEF GraphOk, Counted1
  <2>2. /\ Cardinality(PlacesIn(O, f)) \in Nat
        /\ Cardinality(PlacesIn(O, f)) = 0 <=> \A p \in Ids : ~Refer(O, p, f)
    BY <1>1, PlacesType
  <2>3. Occ(P, f) = Occ(Tail(P), f) + 1 /\ Occ(Tail(P), f) \in Nat
    BY <1>2 DEF One
  <2>4. M[f] = 0 /\ Cardinality(PlacesIn(O, f)) = 0
    BY <2>1, <2>2, <2>3
  <2> QED BY <2>2, <2>4
<1>4. \A p, x \in Ids : Refer(N, p, x) => Refer(O, p, x)
  <2> SUFFICES ASSUME NEW p \in Ids, NEW x \in Ids, Refer(N, p, x) PROVE Refer(O, p, x)
    OBVIOUS
  <2>1. p # f
    BY DEF Refer
  <2> QED BY <2>1 DEF Refer, SameBut
<1>5. Acyclic(N)
  BY <1>1, <1>4, AcyclicShrinks
<1>6. O[f] \o Tail(P) \in Seq(Things) /\ <<>> \in Seq(Things)
  BY <1>1, ConcatProperties
<1>7. ASSUME NEW x \in Ids
      PROVE  /\ Q[x] \in Nat /\ M[x] \in Nat
             /\ Q[x] + M[x] + Occ(O[f], x) + Occ(P, x)
                = R[x] + M[x] + Occ(N[f], x) + Occ(O[f] \o Tail(P), x)
  <2>1. R[x] \in Nat /\ M[x] \in Nat /\ Occ(O[f], x) \in Nat /\ Occ(Tail(P), x) \in Nat
    BY <1>1, OccType DEF GraphOk
  <2>2. Occ(O[f] \o Tail(P), x) = Occ(O[f], x) + Occ(Tail(P), x)
    <3> DEFINE a == O[f]
               b == Tail(P)
    <3>1. a \in Seq(Things) /\ b \in Seq(Things)
      BY <1>1
    <3> HIDE DEF a, b
    <3>2. Occ(a \o b, x) = Occ(a, x) + Occ(b, x)
      BY <3>1, OccConcat
    <3> QED BY <3>2, Zenon DEF a, b
  <2>3. Occ(N[f], x) = 0
    BY OccEmpty, Zenon
  <2> DEFINE q == Q[x]
             r == R[x]
             m == M[x]
             o == Occ(O[f] \o Tail(P), x)
             d == Occ(O[f], x)
             e == Occ(N[f], x)
             t == Occ(Tail(P), x)
             p == Occ(P, x)
  <2>4. /\ r \in Nat /\ m \in Nat /\ d \in Nat /\ t \in Nat /\ e = 0
        /\ p = IF f = x THEN t + 1 ELSE t
    BY <1>2, <2>1, <2>3 DEF One
  <2>5. o = d + t
    BY <2>2, Zenon
  <2>6. q = (IF f = x THEN 0 ELSE r) /\ (f = x => r = 1)
    OBVIOUS
  <2> SUFFICES q \in Nat /\ m \in Nat /\ q + m + d + p = r + m + e + o
    BY Zenon
  <2> HIDE DEF q, r, m, o, d, e, t, p
  <2> QED BY <2>4, <2>5, <2>6
<1>8. \A p, x \in Ids : Q[p] = 0 => ~Refer(N, p, x)
  <2> SUFFICES ASSUME NEW p \in Ids, NEW x \in Ids, Q[p] = 0, Refer(N, p, x) PROVE FALSE
    OBVIOUS
  <2>1. p # f
    BY DEF Refer
  <2>2. R[p] = 0
    BY <2>1
  <2> QED BY <1>4, <2>2 DEF GraphOk
<1> DEFINE U == O[f] \o Tail(P)
<1> HIDE DEF U
<1>9. Sums(R, M, P, O[f], Q, M, U, N[f])
  BY <1>7 DEF Sums, U
<1>10. U \in Seq(Things) /\ N[f] \in Seq(Things)
  BY <1>6 DEF U
<1>11. GraphOk(N, Q, M, U)
  BY <1>1, <1>5, <1>8, <1>9, <1>10, GraphStep
<1> QED BY <1>3, <1>4, <1>11 DEF U

-----------------------------------------------------------------------------
(***************************************************************************)
(* One object o of type ty, and what it refers to when the slots in B are  *)
(* being changed.                                                          *)
(***************************************************************************)
SlotsOf(o, ty) == IF ty = "object" THEN o.tab.list ELSE [i \in 1 .. o.arr.length |-> i - 1]
ValOf(o, ty, n) == IF ty = "object" THEN o.tab.table[n].v ELSE o.arr.array[n]
Mask(o, ty, B) ==
    [i \in DOMAIN SlotsOf(o, ty) |-> IF SlotsOf(o, ty)[i] \in B THEN NULL
                                     ELSE ValOf(o, ty, SlotsOf(o, ty)[i])]

Types == {"object", "array", "leaf"}
ArrOk(a) ==
    /\ DOMAIN a = {"size", "length", "array"}
    /\ a.size \in Nat \ {0} /\ a.length \in 0 .. a.size
    /\ a.array \in [0 .. a.size - 1 -> Things]
    /\ \A i \in a.length .. a.size - 1 : a.array[i] = NULL
ObjOk(o, ty) ==
    /\ DOMAIN o = {"ref", "tab", "arr"}
    /\ o.ref > 0 /\ ty = "object" => TableOk(o.tab)
    /\ o.ref > 0 /\ ty = "array" => ArrOk(o.arr)
    /\ ~(o.ref > 0 /\ ty \in {"object", "array"}) => DOMAIN SlotsOf(o, ty) = {}
    /\ \A i \in DOMAIN SlotsOf(o, ty) : ValOf(o, ty, SlotsOf(o, ty)[i]) \in Things

\* What the slots of an object hold are things.
LEMMA ViewLemma ==
    ASSUME NEW o, NEW ty, ObjOk(o, ty)
    PROVE  /\ \E n \in Nat : DOMAIN SlotsOf(o, ty) = 1 .. n
           /\ \A i, j \in DOMAIN SlotsOf(o, ty) : SlotsOf(o, ty)[i] = SlotsOf(o, ty)[j] => i = j
<1>1. CASE o.ref > 0 /\ ty = "object"
  <2>1. SlotsOf(o, ty) = o.tab.list /\ TableOk(o.tab)
    BY <1>1 DEF SlotsOf, ObjOk
  <2>2. o.tab.count \in Nat /\ DOMAIN o.tab.list = 1 .. o.tab.count /\ Len(o.tab.list) = o.tab.count
    BY <2>1, ListLemma
  <2>3. \A i, j \in 1 .. o.tab.count : o.tab.list[i] = o.tab.list[j] => i = j
    BY <2>1, <2>2 DEF TableOk, Once
  <2> QED BY <2>1, <2>2, <2>3
<1>2. CASE o.ref > 0 /\ ty = "array"
  <2>1. SlotsOf(o, ty) = [i \in 1 .. o.arr.length |-> i - 1] /\ o.arr.length \in Nat
    BY <1>2 DEF SlotsOf, ObjOk, ArrOk
  <2> DEFINE l == o.arr.length
  <2>2. l \in Nat
    BY <2>1
  <2> HIDE DEF l
  <2>3. \A i, j \in 1 .. l : i - 1 = j - 1 => i = j
    BY <2>2
  <2> QED BY <2>1, <2>2, <2>3 DEF l
<1>3. CASE ~(o.ref > 0 /\ ty \in {"object", "array"})
  <2>1. DOMAIN SlotsOf(o, ty) = {} /\ 1 .. 0 = {}
    BY <1>3 DEF ObjOk
  <2> QED BY <2>1
<1> QED BY <1>1, <1>2, <1>3

\* So are they when some of the slots are masked.
LEMMA MaskType ==
    ASSUME NEW o, NEW ty, ObjOk(o, ty), NEW B
    PROVE  /\ Mask(o, ty, B) \in Seq(Things) /\ DOMAIN Mask(o, ty, B) = DOMAIN SlotsOf(o, ty)
           /\ \A i \in DOMAIN SlotsOf(o, ty) :
                 Mask(o, ty, B)[i] = IF SlotsOf(o, ty)[i] \in B THEN NULL
                                     ELSE ValOf(o, ty, SlotsOf(o, ty)[i])
<1> DEFINE D == DOMAIN SlotsOf(o, ty)
           s == SlotsOf(o, ty)
           V(n) == ValOf(o, ty, n)
<1>1. PICK n \in Nat : D = 1 .. n
  BY ViewLemma
<1>2. \A i \in D : V(s[i]) \in Things
  BY DEF ObjOk
<1>3. Mask(o, ty, B) = [i \in D |-> IF s[i] \in B THEN NULL ELSE V(s[i])]
  BY DEF Mask
<1>4. NULL \in Things
  BY DEF Things
<1> HIDE DEF D, s, V
<1>5. [i \in D |-> IF s[i] \in B THEN NULL ELSE V(s[i])] \in Seq(Things)
  BY <1>1, <1>2, <1>4
<1>6. Mask(o, ty, B) \in Seq(Things)
  BY <1>3, <1>5
<1>7. DOMAIN Mask(o, ty, B) = D
  BY <1>3
<1>8. \A i \in D : Mask(o, ty, B)[i] = IF s[i] \in B THEN NULL ELSE V(s[i])
  BY <1>3
<1> QED BY <1>6, <1>7, <1>8 DEF D, s, V

\* The masked place is one less.
LEMMA MaskOne ==
    ASSUME NEW o, NEW ty, ObjOk(o, ty), NEW i \in DOMAIN SlotsOf(o, ty), NEW n, n = SlotsOf(o, ty)[i]
    PROVE  /\ Gain(Mask(o, ty, {n}), Mask(o, ty, {}), ValOf(o, ty, n)) /\ ValOf(o, ty, n) \in Things
<1> DEFINE D == DOMAIN SlotsOf(o, ty)
           s == SlotsOf(o, ty)
           V(m) == ValOf(o, ty, m)
           A == Mask(o, ty, {n})
           B == Mask(o, ty, {})
<1>1. A \in Seq(Things) /\ DOMAIN A = D /\ \A j \in D : A[j] = IF s[j] = n THEN NULL ELSE V(s[j])
  BY MaskType
<1>2. DOMAIN B = D /\ \A j \in D : B[j] = V(s[j])
  BY MaskType
<1>3. i \in D /\ s[i] = n /\ \A j \in D : s[j] = n => j = i
  BY ViewLemma
<1>4. V(n) \in Things
  BY DEF ObjOk
<1> HIDE DEF D, s, V, A, B
<1>5. ASSUME NEW x \in Ids PROVE Occ(B, x) = Occ(A, x) + One(V(n) = x)
  <2>1. x # NULL
    BY IdsFinite
  <2>2. i \notin At(A, x)
    BY <1>1, <1>3, <2>1 DEF At
  <2>3. At(B, x) = IF V(n) = x THEN At(A, x) \cup {i} ELSE At(A, x)
    BY <1>1, <1>2, <1>3, <2>1 DEF At
  <2> DEFINE w == V(n)
  <2>4. A \in Seq(Things) /\ At(B, x) = IF w = x THEN At(A, x) \cup {i} ELSE At(A, x)
    BY <1>1, <2>3
  <2> HIDE DEF w
  <2>6. Fills(A, B, x, w, i)
    BY <2>2, <2>4 DEF Fills
  <2>5. Occ(B, x) = Occ(A, x) + One(w = x)
    BY <2>4, <2>6, OccAdd
  <2> QED BY <2>5 DEF w
<1> QED BY <1>4, <1>5 DEF Gain, A, B, V

\* A slot that is not there masks nothing.
LEMMA MaskNone ==
    ASSUME NEW o, NEW ty, ObjOk(o, ty), NEW n, \A i \in DOMAIN SlotsOf(o, ty) : SlotsOf(o, ty)[i] # n
    PROVE  Mask(o, ty, {n}) = Mask(o, ty, {}) /\ Gain(Mask(o, ty, {n}), Mask(o, ty, {}), NULL)
<1>1. Mask(o, ty, {n}) = Mask(o, ty, {})
  BY DEF Mask
<1>2. ASSUME NEW x \in Ids PROVE Occ(Mask(o, ty, {}), x) = Occ(Mask(o, ty, {}), x) + One(NULL = x)
  <2>1. One(NULL = x) = 0
    BY IdsFinite DEF One
  <2>2. Occ(Mask(o, ty, {}), x) \in Nat
    BY MaskType, OccType
  <2> QED BY <2>1, <2>2
<1> QED BY <1>1, <1>2 DEF Gain

\* A sequence in which a masked place is filled, and one with a place more.
LEMMA GainAt ==
    ASSUME NEW s \in Seq(Things), NEW t \in Seq(Things), NEW v, NEW i \in DOMAIN t, t[i] = v,
           i \in DOMAIN s => s[i] = NULL,
           \A j \in DOMAIN s : j \in DOMAIN t /\ (j # i => t[j] = s[j]),
           \A j \in DOMAIN t : j \notin DOMAIN s /\ j # i => t[j] = NULL
    PROVE  Gain(s, t, v)
<1>1. ASSUME NEW x \in Ids PROVE Occ(t, x) = Occ(s, x) + One(v = x)
  <2>1. x # NULL
    BY IdsFinite
  <2>2. i \notin At(s, x)
    BY <2>1 DEF At
  <2>3. ASSUME NEW j \in At(t, x) PROVE j \in At(s, x) \/ (j = i /\ v = x)
    BY <2>1 DEF At
  <2>4. ASSUME NEW j \in At(s, x) PROVE j \in At(t, x)
    BY <2>2 DEF At
  <2>5. v = x => i \in At(t, x)
    BY DEF At
  <2>6. v # x => i \notin At(t, x)
    BY DEF At
  <2>7. At(t, x) = IF v = x THEN At(s, x) \cup {i} ELSE At(s, x)
    BY <2>3, <2>4, <2>5, <2>6
  <2>8. Fills(s, t, x, v, i)
    BY <2>2, <2>7 DEF Fills
  <2> QED BY <2>8, OccAdd
<1> QED BY <1>1 DEF Gain

\* The same for the entries of a table, with slot n masked.
LEMMA MaskEntry ==
    ASSUME NEW o, ObjOk(o, "object"), NEW n
    PROVE  /\ Mask(o, "object", {n}) \in Seq(Things)
           /\ DOMAIN Mask(o, "object", {n}) = DOMAIN o.tab.list
           /\ \A j \in DOMAIN o.tab.list :
                 Mask(o, "object", {n})[j] = IF o.tab.list[j] = n THEN NULL ELSE Entries(o.tab)[j].v
<1>1. SlotsOf(o, "object") = o.tab.list
  BY DEF SlotsOf
<1>2. \A j \in DOMAIN o.tab.list : ValOf(o, "object", o.tab.list[j]) = Entries(o.tab)[j].v
  BY DEF ValOf, Entries
<1> DEFINE F == {n}
<1>3. \A j : j \in F <=> j = n
  OBVIOUS
<1> HIDE DEF F
<1>4. /\ Mask(o, "object", F) \in Seq(Things)
      /\ DOMAIN Mask(o, "object", F) = DOMAIN o.tab.list
      /\ \A j \in DOMAIN o.tab.list :
            Mask(o, "object", F)[j] = IF o.tab.list[j] \in F THEN NULL ELSE Entries(o.tab)[j].v
  BY <1>1, <1>2, MaskType
<1>5. \A j \in DOMAIN o.tab.list :
            Mask(o, "object", F)[j] = IF o.tab.list[j] = n THEN NULL ELSE Entries(o.tab)[j].v
  BY <1>3, <1>4
<1> QED BY <1>4, <1>5 DEF F

\* And with none.
LEMMA MaskEntries ==
    ASSUME NEW o, ObjOk(o, "object")
    PROVE  /\ \A j \in DOMAIN o.tab.list : Entries(o.tab)[j].v \in Things
           /\ Mask(o, "object", {}) \in Seq(Things)
           /\ DOMAIN Mask(o, "object", {}) = DOMAIN o.tab.list
           /\ \A j \in DOMAIN o.tab.list : Mask(o, "object", {})[j] = Entries(o.tab)[j].v
           /\ \A i, j \in DOMAIN o.tab.list : o.tab.list[i] = o.tab.list[j] => i = j
<1>1. SlotsOf(o, "object") = o.tab.list
  BY DEF SlotsOf
<1>2. \A j \in DOMAIN o.tab.list : ValOf(o, "object", o.tab.list[j]) = Entries(o.tab)[j].v
  BY DEF ValOf, Entries
<1>3. \A j \in DOMAIN o.tab.list : Entries(o.tab)[j].v \in Things
  BY <1>1, <1>2 DEF ObjOk
<1> DEFINE E == {}
<1>4. \A j : j \notin E
  OBVIOUS
<1> HIDE DEF E
<1>5. /\ Mask(o, "object", E) \in Seq(Things)
      /\ DOMAIN Mask(o, "object", E) = DOMAIN o.tab.list
      /\ \A j \in DOMAIN o.tab.list : Mask(o, "object", E)[j] = Entries(o.tab)[j].v
  BY <1>1, <1>2, <1>4, MaskType
<1>6. \A i, j \in DOMAIN o.tab.list : o.tab.list[i] = o.tab.list[j] => i = j
  BY <1>1, ViewLemma
<1> QED BY <1>3, <1>5, <1>6 DEF E

\* An object of type "object" whose table is right.
LEMMA ObjOkObject ==
    ASSUME NEW u, DOMAIN u = {"ref", "tab", "arr"}, u.ref > 0, TableOk(u.tab),
           \A j \in DOMAIN u.tab.list : Entries(u.tab)[j].v \in Things
    PROVE  ObjOk(u, "object")
<1>1. SlotsOf(u, "object") = u.tab.list
  BY DEF SlotsOf
<1>2. \A j \in DOMAIN u.tab.list : ValOf(u, "object", u.tab.list[j]) = Entries(u.tab)[j].v
  BY DEF ValOf, Entries
<1> QED BY <1>1, <1>2 DEF ObjOk

\* The value of an entry is changed.
LEMMA ValueObj ==
    ASSUME NEW o, ObjOk(o, "object"), o.ref > 0, NEW i \in DOMAIN o.tab.list, NEW v \in Things,
           Things \subseteq Pointers,
           NEW u, DOMAIN u = DOMAIN o, u.ref = o.ref, u.arr = o.arr,
           u.tab = [o.tab EXCEPT !.table[o.tab.list[i]].v = v]
    PROVE  /\ ObjOk(u, "object")
           /\ Gain(Mask(o, "object", {o.tab.list[i]}), Mask(u, "object", {}), v)
<1> DEFINE t == o.tab
           w == u.tab
           n == t.list[i]
<1>1. TableOk(t)
  BY DEF ObjOk
<1>2. t.count \in Nat /\ DOMAIN t.list = 1 .. t.count
  BY <1>1, ListLemma
<1>3. v \in Pointers
  OBVIOUS
<1>4. /\ TableOk(w) /\ w.count = t.count
      /\ w.list = t.list /\ Entries(w) = Changed(Entries(t), i, v)
  BY <1>1, <1>2, <1>3, ChangeLemma
<1>8. \A j \in DOMAIN t.list : Entries(w)[j].v = IF j = i THEN v ELSE Entries(t)[j].v
  <2>1. DOMAIN Entries(t) = DOMAIN t.list
    BY DEF Entries
  <2> QED BY <1>4, <2>1 DEF Changed
<1> DEFINE A == Mask(o, "object", {n})
           B == Mask(u, "object", {})
<1>11. /\ A \in Seq(Things) /\ DOMAIN A = DOMAIN t.list
       /\ \A j \in DOMAIN t.list : A[j] = IF t.list[j] = n THEN NULL ELSE Entries(t)[j].v
       /\ \A j \in DOMAIN t.list : Entries(t)[j].v \in Things
       /\ \A j \in DOMAIN t.list : t.list[j] = n => j = i
  BY MaskEntry, MaskEntries
<1>9. DOMAIN u = {"ref", "tab", "arr"} /\ u.ref > 0
  BY DEF ObjOk
<1> HIDE DEF n, t, w, A, B
<1>10. ObjOk(u, "object")
  BY <1>4, <1>8, <1>9, <1>11, ObjOkObject DEF w
<1>12. /\ B \in Seq(Things) /\ DOMAIN B = DOMAIN t.list
       /\ \A j \in DOMAIN t.list : B[j] = Entries(w)[j].v
  BY <1>4, <1>10, MaskEntries DEF w, B
<1>14. Gain(A, B, v)
  <2>1. i \in DOMAIN B /\ i \in DOMAIN A /\ B[i] = v
    BY <1>8, <1>11, <1>12 DEF t
  <2>2. A[i] = NULL
    BY <1>11, <2>1 DEF n
  <2>3. \A j \in DOMAIN A : j \in DOMAIN B /\ (j # i => B[j] = A[j])
    BY <1>8, <1>11, <1>12
  <2> QED BY <1>11, <1>12, <2>1, <2>2, <2>3, GainAt
<1> QED BY <1>10, <1>14 DEF A, B, n, t

\* A new name comes with its value.
LEMMA InsertObj ==
    ASSUME NEW o, ObjOk(o, "object"), o.ref > 0, NEW k \in EntryNames, k \notin NamesOf(o.tab),
           NEW v \in Things, Things \subseteq Pointers,
           NEW u, DOMAIN u = DOMAIN o, u.ref = o.ref, u.arr = o.arr,
           u.tab = lh_table_insert(o.tab, k, v)
    PROVE  /\ ObjOk(u, "object")
           /\ Gain(Mask(o, "object", {}), Mask(u, "object", {}), v)
<1> DEFINE t == o.tab
           w == u.tab
           e == [k |-> k, v |-> v]
           c == t.count
<1>1. TableOk(t)
  BY DEF ObjOk
<1>2. c \in Nat /\ DOMAIN t.list = 1 .. c
  BY <1>1, ListLemma
<1>3. v \in Pointers /\ e \in Pair /\ e.v = v
  BY DEF Pair
<1>4. TableOk(w) /\ Entries(w) = Append(Entries(t), e)
  BY <1>1, <1>3, InsertLemma
<1>5. Entries(t) \in Seq(Pair) /\ Len(Entries(t)) = c /\ Len(Entries(w)) = w.count
  BY <1>1, <1>4, EntriesLemma
<1>6. DOMAIN w.list = 1 .. w.count
  BY <1>4, ListLemma
<1> HIDE DEF e, t, w, c
<1>7. w.count = c + 1 /\ Entries(w)[c + 1] = e /\ \A j \in 1 .. c : Entries(w)[j] = Entries(t)[j]
  BY <1>2, <1>3, <1>4, <1>5
<1> DEFINE A == Mask(o, "object", {})
           B == Mask(u, "object", {})
<1>14. /\ A \in Seq(Things) /\ DOMAIN A = 1 .. c
       /\ \A j \in 1 .. c : A[j] = Entries(t)[j].v
       /\ \A j \in 1 .. c : Entries(t)[j].v \in Things
  BY <1>2, MaskEntries DEF t
<1>12. \A j \in DOMAIN w.list : Entries(w)[j].v \in Things
  BY <1>2, <1>3, <1>6, <1>7, <1>14
<1>11. DOMAIN u = {"ref", "tab", "arr"} /\ u.ref > 0
  BY DEF ObjOk
<1> HIDE DEF A, B
<1>13. ObjOk(u, "object")
  BY <1>4, <1>11, <1>12, ObjOkObject DEF w
<1>15. /\ B \in Seq(Things) /\ DOMAIN B = 1 .. c + 1
       /\ \A j \in 1 .. c + 1 : B[j] = Entries(w)[j].v
  BY <1>6, <1>7, <1>13, MaskEntries DEF w, B
<1>16. Gain(A, B, v)
  <2> DEFINE i == c + 1
  <2>1. i \in DOMAIN B /\ i \notin DOMAIN A /\ B[i] = v
    BY <1>2, <1>3, <1>7, <1>14, <1>15
  <2>2. \A j \in DOMAIN A : j \in DOMAIN B /\ (j # i => B[j] = A[j])
    BY <1>2, <1>7, <1>14, <1>15
  <2>3. \A j \in DOMAIN B : j \notin DOMAIN A /\ j # i => B[j] = NULL
    BY <1>2, <1>14, <1>15
  <2> HIDE DEF i
  <2> QED BY <1>14, <1>15, <2>1, <2>2, <2>3, GainAt
<1> QED BY <1>13, <1>16 DEF A, B

\* An entry is deleted.
LEMMA DeleteObj ==
    ASSUME NEW o, ObjOk(o, "object"), o.ref > 0, NEW i \in DOMAIN o.tab.list,
           NEW u, DOMAIN u = DOMAIN o, u.ref = o.ref, u.arr = o.arr,
           u.tab = lh_table_delete_entry(o.tab, o.tab.list[i])
    PROVE  /\ ObjOk(u, "object")
           /\ Gain(Mask(o, "object", {o.tab.list[i]}), Mask(u, "object", {}), NULL)
<1> DEFINE t == o.tab
           w == u.tab
           n == t.list[i]
           c == t.count
           Old(j) == IF j < i THEN j ELSE j + 1
<1>1. TableOk(t)
  BY DEF ObjOk
<1>2. c \in Nat /\ DOMAIN t.list = 1 .. c /\ i \in 1 .. c /\ Len(t.list) = c
  BY <1>1, ListLemma
<1>3. /\ TableOk(w) /\ w.count = c - 1 /\ Entries(w) = RemoveAt(Entries(t), i)
  BY <1>1, <1>2, DeleteLemma
<1>4. Entries(t) \in Seq(Pair) /\ Len(Entries(t)) = c
  BY <1>1, EntriesLemma
<1>5. DOMAIN w.list = 1 .. c - 1
  BY <1>3, ListLemma
<1> DEFINE A == Mask(o, "object", {n})
           B == Mask(u, "object", {})
<1>18. /\ A \in Seq(Things) /\ DOMAIN A = DOMAIN t.list
       /\ \A j \in DOMAIN t.list : A[j] = IF t.list[j] = n THEN NULL ELSE Entries(t)[j].v
  BY MaskEntry
<1> HIDE DEF t, w, n, c, A
<1>6. \A j \in 1 .. c - 1 : Entries(w)[j] = Entries(t)[Old(j)]
  <2>1. \A j \in 1 .. c - 1 : RemoveAt(Entries(t), i)[j] = IF j < i THEN Entries(t)[j] ELSE Entries(t)[j + 1]
    <3> DEFINE E == Entries(t)
    <3>1. E \in Seq(Pair) /\ Len(E) = c /\ i \in 1 .. Len(E)
      BY <1>2, <1>4
    <3> HIDE DEF E
    <3>2. \A j \in 1 .. Len(E) - 1 : RemoveAt(E, i)[j] = IF j < i THEN E[j] ELSE E[j + 1]
      BY <3>1, RemoveLemma
    <3> QED BY <3>1, <3>2 DEF E
  <2> QED BY <1>3, <2>1
<1>11. \A j \in 1 .. c - 1 : Old(j) \in 1 .. c /\ Old(j) # i
  BY <1>2
<1> HIDE DEF Old
<1>19. /\ \A j \in DOMAIN t.list : Entries(t)[j].v \in Things
       /\ \A j, k \in DOMAIN t.list : t.list[j] = t.list[k] => j = k
  BY MaskEntries DEF t
<1>13. /\ A \in Seq(Things) /\ DOMAIN A = 1 .. c
       /\ \A j \in 1 .. c : A[j] = IF t.list[j] = n THEN NULL ELSE Entries(t)[j].v
       /\ \A j \in 1 .. c : Entries(t)[j].v \in Things
       /\ \A j, k \in 1 .. c : t.list[j] = t.list[k] => j = k
  BY <1>2, <1>18, <1>19
<1>15. \A j \in 1 .. c : t.list[j] = n <=> j = i
  BY <1>2, <1>13 DEF n
<1>9. DOMAIN u = {"ref", "tab", "arr"} /\ u.ref > 0
  BY DEF ObjOk
<1> HIDE DEF A, B
<1>10. \A j \in DOMAIN w.list : Entries(w)[j].v \in Things
  BY <1>5, <1>6, <1>11, <1>13
<1>12. ObjOk(u, "object")
  BY <1>3, <1>9, <1>10, ObjOkObject DEF w
<1>14. /\ B \in Seq(Things) /\ DOMAIN B = 1 .. c - 1
       /\ \A j \in 1 .. c - 1 : B[j] = Entries(w)[j].v
  BY <1>5, <1>12, MaskEntries DEF w, B
<1>16. \A j \in 1 .. c - 1 : B[j] = A[Old(j)]
  BY <1>6, <1>11, <1>13, <1>14, <1>15
<1>17. ASSUME NEW x \in Ids PROVE Occ(B, x) = Occ(A, x) + One(NULL = x)
  <2>1. x # NULL
    BY IdsFinite
  <2>2. A[i] # x
    BY <1>2, <1>13, <1>15, <2>1
  <2>3. Len(A) = c /\ i \in 1 .. Len(A) /\ Len(B) = Len(A) - 1
    BY <1>2, <1>13, <1>14
  <2>4. \A j \in 1 .. Len(A) - 1 : B[j] = IF j < i THEN A[j] ELSE A[j + 1]
    BY <1>16, <2>3 DEF Old
  <2>5. Without(A, i, B)
    BY <2>4 DEF Without
  <2>8. Occ(B, x) = Occ(A, x)
    BY <1>13, <1>14, <2>2, <2>3, <2>5, OccRemove
  <2>6. Occ(A, x) \in Nat /\ One(NULL = x) = 0
    BY <1>13, <2>1, OccType DEF One
  <2> QED BY <2>6, <2>8
<1> QED BY <1>12, <1>17 DEF Gain, A, B, n, t

-----------------------------------------------------------------------------
\* An object of type "array" whose array is right.
LEMMA ObjOkArray ==
    ASSUME NEW u, DOMAIN u = {"ref", "tab", "arr"}, u.ref > 0, ArrOk(u.arr)
    PROVE  ObjOk(u, "array")
<1> DEFINE l == u.arr.length
           a == u.arr.array
           z == u.arr.size
<1>1. l \in Nat /\ z \in Nat /\ l <= z /\ \A j \in 0 .. z - 1 : a[j] \in Things
  BY DEF ArrOk
<1>2. SlotsOf(u, "array") = [i \in 1 .. l |-> i - 1]
  BY DEF SlotsOf
<1>3. \A n : ValOf(u, "array", n) = a[n]
  BY DEF ValOf
<1> HIDE DEF l, a, z
<1>4. \A i \in 1 .. l : i - 1 \in 0 .. z - 1
  BY <1>1
<1>5. \A i \in DOMAIN SlotsOf(u, "array") : ValOf(u, "array", SlotsOf(u, "array")[i]) \in Things
  BY <1>1, <1>2, <1>3, <1>4
<1> QED BY <1>5 DEF ObjOk

\* What an array refers to, with element n masked.
LEMMA MaskElement ==
    ASSUME NEW o, ObjOk(o, "array"), o.ref > 0, NEW n
    PROVE  /\ Mask(o, "array", {n}) \in Seq(Things)
           /\ DOMAIN Mask(o, "array", {n}) = 1 .. o.arr.length
           /\ \A j \in 1 .. o.arr.length :
                 Mask(o, "array", {n})[j] = IF j - 1 = n THEN NULL ELSE o.arr.array[j - 1]
<1>1. SlotsOf(o, "array") = [i \in 1 .. o.arr.length |-> i - 1]
  BY DEF SlotsOf
<1>2. \A j : ValOf(o, "array", j) = o.arr.array[j]
  BY DEF ValOf
<1> DEFINE F == {n}
<1>3. \A j : j \in F <=> j = n
  OBVIOUS
<1> HIDE DEF F
<1>4. /\ Mask(o, "array", F) \in Seq(Things)
      /\ DOMAIN Mask(o, "array", F) = DOMAIN SlotsOf(o, "array")
      /\ \A i \in DOMAIN SlotsOf(o, "array") :
                 Mask(o, "array", F)[i] = IF SlotsOf(o, "array")[i] \in F THEN NULL
                                     ELSE ValOf(o, "array", SlotsOf(o, "array")[i])
  BY MaskType
<1>5. \A j \in 1 .. o.arr.length :
            Mask(o, "array", F)[j] = IF j - 1 = n THEN NULL ELSE o.arr.array[j - 1]
  BY <1>1, <1>2, <1>3, <1>4
<1>6. DOMAIN SlotsOf(o, "array") = 1 .. o.arr.length
  BY <1>1
<1> QED BY <1>4, <1>5, <1>6 DEF F

\* And with none.
LEMMA MaskElements ==
    ASSUME NEW o, ObjOk(o, "array"), o.ref > 0
    PROVE  /\ Mask(o, "array", {}) \in Seq(Things)
           /\ DOMAIN Mask(o, "array", {}) = 1 .. o.arr.length
           /\ \A j \in 1 .. o.arr.length : Mask(o, "array", {})[j] = o.arr.array[j - 1]
<1>1. SlotsOf(o, "array") = [i \in 1 .. o.arr.length |-> i - 1]
  BY DEF SlotsOf
<1>2. \A j : ValOf(o, "array", j) = o.arr.array[j]
  BY DEF ValOf
<1> DEFINE F == {}
<1>3. \A j : j \notin F
  OBVIOUS
<1> HIDE DEF F
<1>4. /\ Mask(o, "array", F) \in Seq(Things)
      /\ DOMAIN Mask(o, "array", F) = DOMAIN SlotsOf(o, "array")
      /\ \A i \in DOMAIN SlotsOf(o, "array") :
                 Mask(o, "array", F)[i] = ValOf(o, "array", SlotsOf(o, "array")[i])
  BY <1>3, MaskType
<1>5. \A j \in 1 .. o.arr.length : Mask(o, "array", F)[j] = o.arr.array[j - 1]
  BY <1>1, <1>2, <1>4
<1>6. DOMAIN SlotsOf(o, "array") = 1 .. o.arr.length
  BY <1>1
<1> QED BY <1>4, <1>5, <1>6 DEF F

\* The array grows to have element idx.
LEMMA ExpandLemma ==
    ASSUME NEW a, ArrOk(a), NEW idx \in Nat, NEW b, b = array_list_expand_internal(a, idx + 1)
    PROVE  /\ ArrOk(b) /\ b.length = a.length /\ b.size \in Nat /\ idx < b.size
           /\ \A j \in 0 .. a.length - 1 : b.array[j] = a.array[j]
<1> DEFINE z == a.size
           l == a.length
           f == a.array
           g == b.array
           y == IF 2 * z < idx + 1 THEN idx + 1 ELSE 2 * z
<1>1. /\ z \in Nat \ {0} /\ l \in 0 .. z /\ f \in [0 .. z - 1 -> Things]
      /\ \A i \in l .. z - 1 : f[i] = NULL
  BY DEF ArrOk
<1>2. CASE idx + 1 < z
  <2>1. b = a
    BY <1>2 DEF array_list_expand_internal
  <2> QED BY <1>1, <1>2, <2>1
<1>3. CASE ~(idx + 1 < z)
  <2>1. b = [a EXCEPT !.size = y, !.array = [i \in 0 .. y - 1 |-> IF i < z THEN f[i] ELSE NULL]]
    BY <1>3 DEF array_list_expand_internal
  <2>2. DOMAIN a = {"size", "length", "array"}
    BY DEF ArrOk
  <2>3. /\ DOMAIN b = {"size", "length", "array"} /\ b.size = y /\ b.length = l
        /\ b.array = [i \in 0 .. y - 1 |-> IF i < z THEN f[i] ELSE NULL]
    BY <2>1, <2>2
  <2>4. y \in Nat \ {0} /\ y >= z /\ idx < y
    BY <1>1, <1>3
  <2>5. NULL \in Things
    BY DEF Things
  <2> HIDE DEF z, l, f, y
  <2>6. \A i \in 0 .. y - 1 : (i < z => i \in 0 .. z - 1)
    BY <1>1, <2>4
  <2>7. /\ g \in [0 .. y - 1 -> Things]
        /\ \A i \in 0 .. y - 1 : g[i] = IF i < z THEN f[i] ELSE NULL
    BY <1>1, <2>3, <2>5, <2>6
  <2> HIDE DEF g
  <2>8. \A i \in l .. y - 1 : g[i] = NULL
    BY <1>1, <2>4, <2>7
  <2>9. \A i \in 0 .. l - 1 : g[i] = f[i]
    BY <1>1, <2>4, <2>7
  <2>10. l \in 0 .. y
    BY <1>1, <2>4
  <2>11. ArrOk(b)
    BY <2>3, <2>4, <2>7, <2>8, <2>10 DEF ArrOk, g
  <2> QED BY <2>3, <2>4, <2>9, <2>11 DEF g, f, l
<1> QED BY <1>2, <1>3

\* The array of o has grown: it refers to what it did.
LEMMA ExpandObj ==
    ASSUME NEW o, ObjOk(o, "array"), o.ref > 0, NEW idx \in Nat,
           NEW u, DOMAIN u = DOMAIN o, u.ref = o.ref,
           u.arr = array_list_expand_internal(o.arr, idx + 1)
    PROVE  /\ ObjOk(u, "array") /\ idx < u.arr.size /\ u.arr.array[idx] \in Things
           /\ Gain(Mask(u, "array", {idx}), Mask(o, "array", {}), u.arr.array[idx])
<1> DEFINE a == o.arr
           b == u.arr
           l == o.arr.length
           old == u.arr.array[idx]
           A == Mask(o, "array", {})
           B == Mask(u, "array", {})
           C == Mask(u, "array", {idx})
<1>1. ArrOk(a) /\ DOMAIN u = {"ref", "tab", "arr"} /\ u.ref > 0
  BY DEF ObjOk
<1>2. /\ ArrOk(b) /\ b.length = l /\ b.size \in Nat /\ idx < b.size
      /\ \A j \in 0 .. l - 1 : b.array[j] = a.array[j]
  <2> DEFINE i == idx
  <2>1. i \in Nat /\ b = array_list_expand_internal(a, i + 1)
    OBVIOUS
  <2> HIDE DEF a, b, i
  <2>2. /\ ArrOk(b) /\ b.length = a.length /\ b.size \in Nat /\ i < b.size
        /\ \A j \in 0 .. a.length - 1 : b.array[j] = a.array[j]
    BY <1>1, <2>1, ExpandLemma
  <2> QED BY <2>2 DEF a, i
<1>3. ObjOk(u, "array")
  BY <1>1, <1>2, ObjOkArray
<1>4. old \in Things /\ (idx >= l => old = NULL) /\ l \in Nat
  <2> DEFINE z == b.size
             g == b.array
  <2>1. /\ l \in 0 .. z /\ g \in [0 .. z - 1 -> Things] /\ z \in Nat /\ idx < z
        /\ \A i \in l .. z - 1 : g[i] = NULL
    BY <1>2 DEF ArrOk
  <2> HIDE DEF g, z, l
  <2>2. g[idx] \in Things /\ (idx >= l => g[idx] = NULL) /\ l \in Nat
    BY <2>1
  <2> QED BY <2>2 DEF g
<1>5. /\ A \in Seq(Things) /\ DOMAIN A = 1 .. l
      /\ \A j \in 1 .. l : A[j] = a.array[j - 1]
  BY MaskElements
<1>6. /\ B \in Seq(Things) /\ DOMAIN B = 1 .. l
      /\ \A j \in 1 .. l : B[j] = b.array[j - 1]
  BY <1>1, <1>2, <1>3, MaskElements
<1>7. A = B
  <2> HIDE DEF A, B, a, b, l
  <2>1. \A j \in 1 .. l : j - 1 \in 0 .. l - 1
    BY <1>4
  <2>2. \A j \in 1 .. l : A[j] = B[j]
    BY <1>2, <1>5, <1>6, <2>1
  <2>3. Len(A) = l /\ Len(B) = l
    BY <1>4, <1>5, <1>6
  <2> QED BY <1>5, <1>6, <2>2, <2>3, SeqEqual
<1>8. SlotsOf(u, "array") = [i \in 1 .. l |-> i - 1]
  BY <1>2 DEF SlotsOf
<1>9. CASE idx < l
  <2>1. idx + 1 \in DOMAIN SlotsOf(u, "array") /\ idx = SlotsOf(u, "array")[idx + 1]
    BY <1>4, <1>8, <1>9
  <2>2. ValOf(u, "array", idx) = old
    BY DEF ValOf
  <2>3. Gain(C, B, ValOf(u, "array", idx))
    BY <1>3, <2>1, MaskOne
  <2> QED BY <1>2, <1>3, <1>4, <1>7, <2>2, <2>3
<1>10. CASE ~(idx < l)
  <2>1. \A i \in DOMAIN SlotsOf(u, "array") : SlotsOf(u, "array")[i] # idx
    BY <1>4, <1>8, <1>10
  <2>2. Gain(C, B, NULL)
    BY <1>3, <2>1, MaskNone
  <2> QED BY <1>2, <1>3, <1>4, <1>7, <1>10, <2>2
<1> QED BY <1>9, <1>10

\* Element idx is written.
LEMMA ElementObj ==
    ASSUME NEW o, ObjOk(o, "array"), o.ref > 0, NEW idx \in Nat, idx < o.arr.size, NEW v \in Things,
           NEW u, DOMAIN u = DOMAIN o, u.ref = o.ref, u.arr = PutElement(o.arr, idx, v)
    PROVE  /\ ObjOk(u, "array")
           /\ Gain(Mask(o, "array", {idx}), Mask(u, "array", {}), v)
<1> DEFINE a == o.arr
           b == u.arr
           z == a.size
           l == a.length
           f == a.array
           g == b.array
           h == IF l <= idx THEN idx + 1 ELSE l
<1>1. ArrOk(a) /\ DOMAIN u = {"ref", "tab", "arr"} /\ u.ref > 0
  BY DEF ObjOk
<1>2. /\ z \in Nat \ {0} /\ l \in 0 .. z /\ f \in [0 .. z - 1 -> Things] /\ idx < z
      /\ \A i \in l .. z - 1 : f[i] = NULL
  BY <1>1 DEF ArrOk
<1>3. /\ DOMAIN b = {"size", "length", "array"} /\ b.size = z /\ b.length = h
      /\ g = [f EXCEPT ![idx] = v]
  BY <1>1 DEF ArrOk, PutElement
<1>4. h \in 0 .. z /\ idx < h /\ l <= h /\ \A i \in l .. h - 1 : i \in l .. z - 1
  BY <1>2
<1>5. g \in [0 .. z - 1 -> Things] /\ \A i \in 0 .. z - 1 : g[i] = IF i = idx THEN v ELSE f[i]
  <2> HIDE DEF g, f, z
  <2> QED BY <1>2, <1>3
<1>6. ArrOk(b)
  <2> HIDE DEF g, f, z, h, l
  <2>1. \A i \in h .. z - 1 : i \in l .. z - 1 /\ i # idx /\ i \in 0 .. z - 1
    BY <1>2, <1>4
  <2>2. \A i \in h .. z - 1 : g[i] = NULL
    BY <1>2, <1>5, <2>1
  <2> QED BY <1>2, <1>3, <1>4, <1>5, <2>2 DEF ArrOk, g
<1>7. ObjOk(u, "array")
  BY <1>1, <1>6, ObjOkArray
<1> DEFINE A == Mask(o, "array", {idx})
           B == Mask(u, "array", {})
<1>8. /\ A \in Seq(Things) /\ DOMAIN A = 1 .. l
      /\ \A j \in 1 .. l : A[j] = IF j - 1 = idx THEN NULL ELSE f[j - 1]
  BY MaskElement
<1>9. /\ B \in Seq(Things) /\ DOMAIN B = 1 .. h
      /\ \A j \in 1 .. h : B[j] = g[j - 1]
  BY <1>1, <1>3, <1>7, MaskElements
<1>10. Gain(A, B, v)
  <2> DEFINE i == idx + 1
  <2> HIDE DEF A, B, g, f, z, h, l
  <2>1. i \in DOMAIN B /\ i - 1 = idx /\ idx \in 0 .. z - 1
    BY <1>2, <1>4, <1>9
  <2>2. B[i] = v
    BY <1>5, <1>9, <2>1
  <2>3. i \in DOMAIN A => A[i] = NULL
    BY <1>8, <2>1
  <2>4. \A j \in DOMAIN A : j \in DOMAIN B /\ (j # i => B[j] = A[j])
    <3>1. \A j \in 1 .. l : j \in 1 .. h /\ j - 1 \in 0 .. z - 1 /\ (j # i => j - 1 # idx)
      BY <1>2, <1>4
    <3> HIDE DEF i
    <3> QED BY <1>5, <1>8, <1>9, <3>1
  <2>5. \A j \in DOMAIN B : j \notin DOMAIN A /\ j # i => B[j] = NULL
    <3>1. \A j \in 1 .. h : j \notin 1 .. l /\ j # i => j - 1 \in l .. z - 1 /\ j - 1 # idx /\ j - 1 \in 0 .. z - 1
      BY <1>2, <1>4
    <3> HIDE DEF i
    <3> QED BY <1>2, <1>5, <1>8, <1>9, <3>1
  <2> HIDE DEF i
  <2> QED BY <1>8, <1>9, <2>1, <2>2, <2>3, <2>4, <2>5, GainAt
<1> QED BY <1>7, <1>10

\* An object that refers to nothing: a new one, or what is left of one.
Bare(o, ty) == DOMAIN o = {"ref", "tab", "arr"} /\ o.tab.list = <<>> /\ o.arr.length = 0

\* It is right, and masked or not refers to nothing.
LEMMA BareObj ==
    ASSUME NEW o, NEW ty, Bare(o, ty)
    PROVE  /\ DOMAIN SlotsOf(o, ty) = {} /\ \A B : Mask(o, ty, B) = <<>>
           /\ (o.ref > 0 /\ ty = "object" => TableOk(o.tab))
              /\ (o.ref > 0 /\ ty = "array" => ArrOk(o.arr)) => ObjOk(o, ty)
<1>1. DOMAIN SlotsOf(o, ty) = {}
  <2>1. DOMAIN o.tab.list = {} /\ 1 .. o.arr.length = {}
    BY DEF Bare
  <2> QED BY <2>1 DEF SlotsOf
<1>2. ASSUME NEW B PROVE Mask(o, ty, B) = <<>>
  BY <1>1 DEF Mask
<1> QED BY <1>1, <1>2 DEF ObjOk, Bare

\* What json_object_new returns.
LEMMA NewObj ==
    ASSUME NEW ty,
           NEW o, o = [ref |-> 1,
                       tab |-> IF ty = "object" THEN lh_table_new(HashEntries) ELSE Gone.tab,
                       arr |-> IF ty = "array" THEN array_list_new ELSE Gone.arr]
    PROVE  Bare(o, ty) /\ ObjOk(o, ty)
<1>1. /\ lh_table_new(HashEntries).list = <<>> /\ TableOk(lh_table_new(HashEntries))
  <2>1. HashEntries \in Nat \ {0}
    BY StoreAssumption
  <2>2. TableOk(lh_table_new(HashEntries))
    BY <2>1, NewTable
  <2> QED BY <2>2 DEF lh_table_new
<1>2. Gone.tab.list = <<>> /\ Gone.arr.length = 0
  BY DEF Gone, lh_table_new, array_list_new
<1>3. array_list_new.length = 0 /\ ArrOk(array_list_new)
  <2>1. ArraySize \in Nat \ {0} /\ NULL \in Things
    BY StoreAssumption DEF Things
  <2> QED BY <2>1 DEF array_list_new, ArrOk
<1>4. /\ DOMAIN o = {"ref", "tab", "arr"}
      /\ o.tab = IF ty = "object" THEN lh_table_new(HashEntries) ELSE Gone.tab
      /\ o.arr = IF ty = "array" THEN array_list_new ELSE Gone.arr
  OBVIOUS
<1>5. Bare(o, ty)
  BY <1>1, <1>2, <1>3, <1>4 DEF Bare
<1>6. (ty = "object" => TableOk(o.tab)) /\ (ty = "array" => ArrOk(o.arr))
  BY <1>1, <1>3, <1>4
<1> QED BY <1>5, <1>6, BareObj

\* What json_object_put leaves.
LEMMA GoneObj ==
    ASSUME NEW ty PROVE Bare(Gone, ty) /\ Gone.ref = 0 /\ ObjOk(Gone, ty)
<1>1. Bare(Gone, ty)
  BY DEF Bare, Gone, lh_table_new, array_list_new
<1>2. Gone.ref = 0
  BY DEF Gone
<1>3. ~(Gone.ref > 0)
  BY <1>2
<1> QED BY <1>1, <1>2, <1>3, BareObj

-----------------------------------------------------------------------------
(***************************************************************************)
(* The heap h while change d waits: who refers to what, and the counts.    *)
(***************************************************************************)
Masked(p, d) == IF p = d.c THEN {d.slot} ELSE {}
Own(h, d) == [p \in Ids |-> Mask(h[p], TypeOf[p], Masked(p, d))]
Ref(h) == [p \in Ids |-> h[p].ref]
Hand(m) == {id \in Ids : m[id] > 0}

HeapOk(h) == DOMAIN h = Ids /\ \A p \in Ids : ObjOk(h[p], TypeOf[p])
\* What the change needs: its slot, its container and its value.
SlotOk(h, d) ==
    \/ /\ d.op \in {"value", "delete"} /\ TypeOf[d.c] = "object"
       /\ \E i \in DOMAIN h[d.c].tab.list : h[d.c].tab.list[i] = d.slot
       /\ d.op = "delete" => d.v = NULL
    \/ /\ d.op = "element" /\ TypeOf[d.c] = "array"
       /\ d.slot \in Nat /\ d.slot < h[d.c].arr.size
DueOk(h, m, d) ==
    \/ d = NoChange
    \/ /\ d.c \in Ids /\ d.c \in From(Own(h, d), Hand(m))
       /\ d.v \in Things /\ (d.v # NULL => m[d.v] > 0 /\ d.c \notin From(Own(h, d), {d.v}))
       /\ SlotOk(h, d)
Sound(h, m, ps, d) ==
    HeapOk(h) /\ m \in [Ids -> Nat] /\ GraphOk(Own(h, d), Ref(h), m, ps) /\ DueOk(h, m, d)

ObjInv == Sound(jheap, jmine, jputs, jdue)

\* The heap and the objects it holds.
LEMMA TypesOk ==
    /\ \A p \in Ids : TypeOf[p] \in Types
    /\ Things \subseteq Pointers
<1>1. TypeOf \in Seq({"object", "array", "leaf"}) /\ Ids \subseteq Pointers /\ NULL \in Pointers
  BY TypeOfAssumption, StoreAssumption
<1>2. \A p \in Ids : TypeOf[p] \in Types
  BY <1>1 DEF Ids, Types
<1>3. Things \subseteq Pointers
  BY <1>1 DEF Things
<1> QED BY <1>2, <1>3

\* The definitions of the model in these terms.
LEMMA ViewsAgree ==
    /\ \A p \in Ids : Owned(p) = Own(jheap, jdue)[p]
    /\ \A p \in Ids : Held(p) = Mask(jheap[p], TypeOf[p], {})
    /\ \A S : Reach(S) = From(Own(jheap, jdue), S)
    /\ Mine = Hand(jmine)
    /\ \A x : Places(x) = PlacesIn(Own(jheap, jdue), x)
<1>1. \A p : Slots(p) = SlotsOf(jheap[p], TypeOf[p])
  BY DEF Slots, SlotsOf
<1>2. \A p, n : ValueAt(p, n) = ValOf(jheap[p], TypeOf[p], n)
  BY DEF ValueAt, ValOf
<1>3. ASSUME NEW p \in Ids PROVE Held(p) = Mask(jheap[p], TypeOf[p], {})
  BY <1>1, <1>2 DEF Held, Mask
<1>4. ASSUME NEW p \in Ids PROVE Owned(p) = Own(jheap, jdue)[p]
  <2>1. Own(jheap, jdue)[p] = Mask(jheap[p], TypeOf[p], Masked(p, jdue))
    BY DEF Own
  <2> DEFINE s == SlotsOf(jheap[p], TypeOf[p])
             V(n) == ValOf(jheap[p], TypeOf[p], n)
  <2>2. Owned(p) = [i \in DOMAIN s |-> IF p = jdue.c /\ s[i] = jdue.slot THEN NULL ELSE V(s[i])]
    BY <1>1, <1>2 DEF Owned, Held
  <2>3. Mask(jheap[p], TypeOf[p], Masked(p, jdue))
        = [i \in DOMAIN s |-> IF s[i] \in Masked(p, jdue) THEN NULL ELSE V(s[i])]
    BY DEF Mask
  <2>4. \A n : n \in Masked(p, jdue) <=> p = jdue.c /\ n = jdue.slot
    BY DEF Masked
  <2> HIDE DEF s, V
  <2> QED BY <2>1, <2>2, <2>3, <2>4
<1>5. \A p \in Ids : \A id : Refers(p, id) <=> Refer(Own(jheap, jdue), p, id)
  BY <1>4 DEF Refers, Refer
<1>6. \A T \in SUBSET Ids : Closed(T) <=> ClosedIn(Own(jheap, jdue), T)
  BY <1>5 DEF Closed, ClosedIn
<1>7. \A S : Reach(S) = From(Own(jheap, jdue), S)
  BY <1>6 DEF Reach, From
<1>8. \A x : Places(x) = PlacesIn(Own(jheap, jdue), x)
  BY <1>4 DEF Places, PlacesIn, At
<1>9. Mine = Hand(jmine)
  BY DEF Mine, Hand
<1> QED BY <1>3, <1>4, <1>7, <1>8, <1>9

\* What the client can use is alive.
LEMMA AliveUsable ==
    ASSUME NEW h, NEW m, NEW ps, NEW d, Sound(h, m, ps, d)
    PROVE  /\ \A p \in Ids : h[p].ref \in Nat /\ m[p] \in Nat
           /\ \A p \in From(Own(h, d), Hand(m)) : p \in Ids /\ h[p].ref > 0
           /\ \A p \in Ids : h[p].ref = 0 => m[p] = 0
<1>1. GraphOk(Own(h, d), Ref(h), m, ps)
  BY DEF Sound
<1>2. \A p \in Ids : Ref(h)[p] = h[p].ref
  BY DEF Ref
<1>3. \A p \in Ids : h[p].ref \in Nat /\ m[p] \in Nat
  BY <1>1, <1>2 DEF GraphOk
<1>4. {id \in Ids : Ref(h)[id] > 0} = From(Own(h, d), Roots(m, ps))
  BY <1>1, AliveLemma
<1>5. Hand(m) \subseteq Roots(m, ps)
  BY DEF Hand, Roots
<1>6. From(Own(h, d), Hand(m)) \subseteq From(Own(h, d), Roots(m, ps))
  BY <1>5, FromMonotone
<1>7. \A p \in From(Own(h, d), Hand(m)) : p \in Ids /\ h[p].ref > 0
  BY <1>2, <1>4, <1>6
<1>8. ASSUME NEW p \in Ids, h[p].ref = 0 PROVE m[p] = 0
  <2>1. m[p] > 0 => p \in Hand(m) /\ Hand(m) \subseteq Ids
    BY DEF Hand
  <2>2. Hand(m) \subseteq Ids => Hand(m) \subseteq From(Own(h, d), Hand(m))
    BY FromClosed
  <2>3. ~(m[p] > 0)
    BY <1>7, <1>8, <2>1, <2>2
  <2> QED BY <1>3, <2>3
<1> QED BY <1>3, <1>7, <1>8

\* The heaps h and g differ in what object c refers to.
Differs(h, g, c) ==
    /\ DOMAIN g = DOMAIN h /\ \A p \in Ids \ {c} : g[p] = h[p]
    /\ ObjOk(g[c], TypeOf[c]) /\ g[c].ref = h[c].ref

\* No change waits, or one of c.
ChangesIn(d, c) == d.c \in {c, NULL}

\* The counts and what others refer to are as they were.
LEMMA ChangeOne ==
    ASSUME NEW h, HeapOk(h), NEW c \in Ids, NEW g, Differs(h, g, c),
           NEW d, NEW e, ChangesIn(d, c), ChangesIn(e, c)
    PROVE  /\ HeapOk(g) /\ Ref(g) = Ref(h) /\ SameBut(Own(h, d), Own(g, e), c)
           /\ Own(h, d)[c] = Mask(h[c], TypeOf[c], Masked(c, d))
           /\ Own(g, e)[c] = Mask(g[c], TypeOf[c], Masked(c, e))
           /\ Own(g, e)[c] \in Seq(Things)
<1>1. HeapOk(g)
  BY DEF HeapOk, Differs
<1>2. Ref(g) = Ref(h)
  <2>1. \A p \in Ids : g[p].ref = h[p].ref
    BY DEF Differs
  <2> QED BY <2>1 DEF Ref
<1>3. SameBut(Own(h, d), Own(g, e), c)
  <2>1. ASSUME NEW p \in Ids \ {c} PROVE Masked(p, d) = Masked(p, e) /\ g[p] = h[p]
    <3>1. p # NULL /\ p # c
      BY IdsFinite
    <3> QED BY <3>1 DEF Masked, Differs, ChangesIn
  <2> QED BY <2>1 DEF SameBut, Own
<1>4. /\ Own(h, d)[c] = Mask(h[c], TypeOf[c], Masked(c, d))
      /\ Own(g, e)[c] = Mask(g[c], TypeOf[c], Masked(c, e))
  BY DEF Own
<1>5. Mask(g[c], TypeOf[c], Masked(c, e)) \in Seq(Things)
  BY MaskType DEF Differs
<1> QED BY <1>1, <1>2, <1>3, <1>4, <1>5

\* The client gives v to c, which then refers to it, and no change waits.
LEMMA GiveSound ==
    ASSUME NEW h, NEW m, NEW d, Sound(h, m, <<>>, d), NEW c \in Ids, ChangesIn(d, c),
           NEW g, Differs(h, g, c), h[c].ref > 0,
           NEW v \in Things,
           Gain(Mask(h[c], TypeOf[c], Masked(c, d)), Mask(g[c], TypeOf[c], {}), v),
           v # NULL => m[v] > 0 /\ c \notin From(Own(h, d), {v}),
           NEW n, n = IF v = NULL THEN m ELSE [m EXCEPT ![v] = @ - 1]
    PROVE  Sound(g, n, <<>>, NoChange)
<1> DEFINE O == Own(h, d)
           N == Own(g, NoChange)
           R == Ref(h)
<1>1. HeapOk(h) /\ m \in [Ids -> Nat] /\ GraphOk(O, R, m, <<>>)
  BY DEF Sound
<1>2. ChangesIn(NoChange, c) /\ Masked(c, NoChange) = {}
  BY IdsFinite DEF NoChange, Masked, ChangesIn
<1>3. /\ HeapOk(g) /\ Ref(g) = R /\ SameBut(O, N, c) /\ N[c] \in Seq(Things)
      /\ O[c] = Mask(h[c], TypeOf[c], Masked(c, d))
      /\ N[c] = Mask(g[c], TypeOf[c], Masked(c, NoChange))
  <2> DEFINE y == NoChange
  <2>1. ChangesIn(y, c) /\ HeapOk(h)
    BY <1>1, <1>2
  <2> HIDE DEF y
  <2>2. /\ HeapOk(g) /\ Ref(g) = Ref(h) /\ SameBut(Own(h, d), Own(g, y), c)
        /\ Own(h, d)[c] = Mask(h[c], TypeOf[c], Masked(c, d))
        /\ Own(g, y)[c] = Mask(g[c], TypeOf[c], Masked(c, y))
        /\ Own(g, y)[c] \in Seq(Things)
    BY <2>1, ChangeOne
  <2> QED BY <2>2 DEF y
<1>4. R[c] > 0
  BY DEF Ref
<1>5. Gain(O[c], N[c], v)
  BY <1>2, <1>3
<1>6. n \in [Ids -> Nat] /\ \A x \in Ids : n[x] = IF x = v THEN m[x] - 1 ELSE m[x]
  <2>1. CASE v = NULL
    <3>1. \A x \in Ids : x # v
      BY <2>1, IdsFinite
    <3> QED BY <1>1, <2>1, <3>1
  <2>2. CASE v # NULL
    <3>1. v \in Ids /\ m[v] > 0 /\ n = [m EXCEPT ![v] = @ - 1]
      BY <2>2 DEF Things
    <3> QED BY <1>1, <3>1
  <2> QED BY <2>1, <2>2
<1>7. v # NULL => m[v] > 0 /\ c \notin From(O, {v})
  OBVIOUS
<1> HIDE DEF O, N, R
<1>8. GraphOk(N, R, n, <<>>)
  BY <1>1, <1>3, <1>4, <1>5, <1>6, <1>7, GiveStep
<1>9. DueOk(g, n, NoChange)
  BY DEF DueOk
<1> QED BY <1>3, <1>6, <1>8, <1>9 DEF Sound, N

\* c gives up slot e.slot, what was in it is to be put, and change e waits.
LEMMA TakeSound ==
    ASSUME NEW h, NEW m, Sound(h, m, <<>>, NoChange), NEW c \in Ids,
           NEW g, Differs(h, g, c),
           NEW e, e.c = c, NEW old \in Things,
           Gain(Mask(g[c], TypeOf[c], {e.slot}), Mask(h[c], TypeOf[c], {}), old),
           c \in From(Own(h, NoChange), Hand(m)), e.v \in Things,
           e.v # NULL => m[e.v] > 0 /\ c \notin From(Own(h, NoChange), {e.v}),
           SlotOk(g, e)
    PROVE  Sound(g, m, <<old>>, e)
<1> DEFINE O == Own(h, NoChange)
           N == Own(g, e)
           R == Ref(h)
<1>1. HeapOk(h) /\ m \in [Ids -> Nat] /\ GraphOk(O, R, m, <<>>)
  BY DEF Sound
<1>2. ChangesIn(NoChange, c) /\ ChangesIn(e, c) /\ Masked(c, NoChange) = {} /\ Masked(c, e) = {e.slot}
  BY IdsFinite DEF NoChange, Masked, ChangesIn
<1>3. /\ HeapOk(g) /\ Ref(g) = R /\ SameBut(O, N, c) /\ N[c] \in Seq(Things)
      /\ O[c] = Mask(h[c], TypeOf[c], Masked(c, NoChange))
      /\ N[c] = Mask(g[c], TypeOf[c], Masked(c, e))
  <2> DEFINE y == NoChange
  <2>1. ChangesIn(y, c) /\ ChangesIn(e, c) /\ HeapOk(h)
    BY <1>1, <1>2
  <2> HIDE DEF y
  <2>2. /\ HeapOk(g) /\ Ref(g) = Ref(h) /\ SameBut(Own(h, y), Own(g, e), c)
        /\ Own(h, y)[c] = Mask(h[c], TypeOf[c], Masked(c, y))
        /\ Own(g, e)[c] = Mask(g[c], TypeOf[c], Masked(c, e))
        /\ Own(g, e)[c] \in Seq(Things)
    BY <2>1, ChangeOne
  <2> QED BY <2>2 DEF y
<1>4. Gain(N[c], O[c], old)
  BY <1>2, <1>3
<1>5. c \in From(O, Hand(m)) /\ (e.v # NULL => m[e.v] > 0 /\ c \notin From(O, {e.v}))
  OBVIOUS
<1> HIDE DEF O, N, R
<1>6. GraphOk(N, R, m, <<old>>) /\ \A p, x \in Ids : Refer(N, p, x) => Refer(O, p, x)
  BY <1>1, <1>3, <1>4, TakeStep
<1>7. c \in From(N, Hand(m))
  BY <1>3, <1>5, FromOthers
<1>8. From(N, {e.v}) \subseteq From(O, {e.v})
  BY <1>6, FromShrinks
<1>9. DueOk(g, m, e)
  BY <1>5, <1>7, <1>8 DEF DueOk, N
<1> QED BY <1>1, <1>3, <1>6, <1>9 DEF Sound, N

\* Counts, references and puts change, and who refers to what does not.
SameSlots(h, g, d) == d.c \in Ids => (g[d.c].tab = h[d.c].tab /\ g[d.c].arr = h[d.c].arr)

\* The step keeps the invariant if the sums stay equal.
LEMMA CountSound ==
    ASSUME NEW h, NEW m, NEW ps, NEW d, Sound(h, m, ps, d),
           NEW g, HeapOk(g), Own(g, d) = Own(h, d), SameSlots(h, g, d),
           NEW n \in [Ids -> Nat], n = m \/ d = NoChange, NEW us \in Seq(Things),
           Counts(Ref(h), m, ps, Ref(g), n, us)
    PROVE  Sound(g, n, us, d)
<1> DEFINE O == Own(h, d)
           R == Ref(h)
           Q == Ref(g)
<1>1. GraphOk(O, R, m, ps) /\ Counts(R, m, ps, Q, n, us) /\ Own(g, d) = O
  BY DEF Sound
<1> HIDE DEF O, R, Q
<1>2. GraphOk(O, Q, n, us)
  BY <1>1, CountStep
<1>3. DueOk(g, n, d)
  <2>1. CASE d = NoChange
    BY <2>1 DEF DueOk
  <2>2. CASE d # NoChange
    <3>1. n = m /\ DueOk(h, m, d) /\ g[d.c].tab = h[d.c].tab /\ g[d.c].arr = h[d.c].arr
      BY <2>2 DEF Sound, SameSlots, DueOk
    <3>2. SlotOk(g, d)
      BY <2>2, <3>1 DEF DueOk, SlotOk
    <3> QED BY <2>2, <3>1, <3>2 DEF DueOk
  <2> QED BY <2>1, <2>2
<1> QED BY <1>1, <1>2, <1>3 DEF Sound, Q

\* The count of one object changes from more than zero to more than zero.
Recounted(h, g, id, r) == g = [h EXCEPT ![id].ref = r]

\* Such a change touches no slot and frees nothing.
LEMMA RefChange ==
    ASSUME NEW h, HeapOk(h), NEW id \in Ids, h[id].ref > 0, NEW r \in Nat, r > 0,
           NEW g, Recounted(h, g, id, r), NEW d
    PROVE  /\ HeapOk(g) /\ Own(g, d) = Own(h, d) /\ SameSlots(h, g, d)
           /\ \A x \in Ids : Ref(g)[x] = IF x = id THEN r ELSE Ref(h)[x]
<1> DEFINE o == h[id]
           u == [o EXCEPT !.ref = r]
           ty == TypeOf[id]
<1>1. ObjOk(o, ty) /\ DOMAIN h = Ids
  BY DEF HeapOk
<1>2. g = [h EXCEPT ![id] = u]
  BY DEF Recounted
<1>3. DOMAIN o = {"ref", "tab", "arr"} /\ o.ref > 0
  BY <1>1 DEF ObjOk
<1>4. DOMAIN u = {"ref", "tab", "arr"} /\ u.ref = r /\ u.tab = o.tab /\ u.arr = o.arr
  BY <1>3
<1> HIDE DEF u
<1>5. SlotsOf(u, ty) = SlotsOf(o, ty)
  BY <1>4 DEF SlotsOf
<1>6. \A n : ValOf(u, ty, n) = ValOf(o, ty, n)
  BY <1>4 DEF ValOf
<1>7. ObjOk(u, ty)
  BY <1>1, <1>3, <1>4, <1>5, <1>6 DEF ObjOk
<1>8. \A B : Mask(u, ty, B) = Mask(o, ty, B)
  BY <1>5, <1>6 DEF Mask
<1>9. DOMAIN g = Ids /\ \A p \in Ids : g[p] = IF p = id THEN u ELSE h[p]
  BY <1>1, <1>2
<1>10. HeapOk(g)
  BY <1>7, <1>9 DEF HeapOk
<1>11. Own(g, d) = Own(h, d)
  BY <1>8, <1>9 DEF Own
<1>12. SameSlots(h, g, d)
  <2>1. d.c \in Ids => g[d.c].tab = h[d.c].tab /\ g[d.c].arr = h[d.c].arr
    BY <1>4, <1>9
  <2> QED BY <2>1 DEF SameSlots
<1>13. \A x \in Ids : Ref(g)[x] = IF x = id THEN r ELSE Ref(h)[x]
  BY <1>4, <1>9 DEF Ref
<1> QED BY <1>10, <1>11, <1>12, <1>13

-----------------------------------------------------------------------------
\* Between calls nothing is to be put and no change waits.
LEMMA IdleMeans == ObjInv /\ Idle => jputs = <<>> /\ jdue = NoChange /\ Sound(jheap, jmine, <<>>, NoChange)
<1> SUFFICES ASSUME ObjInv, Idle PROVE jputs = <<>> /\ jdue = NoChange /\ Sound(jheap, jmine, <<>>, NoChange)
  OBVIOUS
<1>1. jputs = <<>> /\ jdue.op = "none"
  BY DEF Idle
<1>2. Sound(jheap, jmine, jputs, jdue)
  BY DEF ObjInv
<1>3. jdue = NoChange
  BY <1>1, <1>2 DEF Sound, DueOk, SlotOk
<1> QED BY <1>1, <1>2, <1>3, Zenon

\* The client gives up a reference.
LEMMA HandPut ==
    ASSUME ObjInv, NEW id \in Ids, ClientPut(id)
    PROVE  ObjInv'
<1> DEFINE h == jheap
           m == jmine
           n == jmine'
           R == Ref(h)
           U == <<id>>
<1>1. /\ jputs = <<>> /\ jdue = NoChange /\ Sound(h, m, <<>>, jdue)
  BY IdleMeans DEF ClientPut
<1>2. m \in [Ids -> Nat] /\ HeapOk(h) /\ m[id] > 0
  BY <1>1 DEF Sound, ClientPut
<1>3. n = [m EXCEPT ![id] = @ - 1] /\ jputs' = U /\ jheap' = h /\ jdue' = jdue
  BY DEF ClientPut
<1>4. \A x \in Ids : R[x] \in Nat
  BY <1>1, AliveUsable DEF Ref
<1> HIDE DEF h, m, n, R
<1>5. n \in [Ids -> Nat] /\ \A x \in Ids : n[x] = IF id = x THEN m[x] - 1 ELSE m[x]
  BY <1>2, <1>3
<1>6. U \in Seq(Things)
  BY DEF Things
<1>7. \A x \in Ids : Occ(U, x) = One(id = x) /\ Occ(<<>>, x) = 0
  BY OccSingle, OccEmpty
<1> HIDE DEF U
<1>8. ASSUME NEW x \in Ids
      PROVE R[x] \in Nat /\ n[x] \in Nat /\ R[x] + m[x] + Occ(<<>>, x) = R[x] + n[x] + Occ(U, x)
  <2> DEFINE a == R[x]
             b == m[x]
             e == n[x]
             o == Occ(<<>>, x)
             w == Occ(U, x)
  <2>1. a \in Nat /\ b \in Nat /\ e \in Nat /\ o = 0 /\ w = (IF id = x THEN 1 ELSE 0)
        /\ e = IF id = x THEN b - 1 ELSE b
    BY <1>2, <1>4, <1>5, <1>7 DEF One
  <2> SUFFICES a \in Nat /\ e \in Nat /\ a + b + o = a + e + w
    OBVIOUS
  <2> HIDE DEF a, b, e, o, w
  <2> QED BY <2>1
<1>9. Counts(R, m, <<>>, R, n, U)
  BY <1>8 DEF Counts
<1>10. SameSlots(h, h, jdue)
  BY DEF SameSlots
<1> DEFINE d == jdue
<1>11. Sound(h, m, <<>>, d) /\ (n = m \/ d = NoChange) /\ SameSlots(h, h, d)
  BY <1>1, <1>10
<1> HIDE DEF d
<1>12. Sound(h, n, U, d)
  BY <1>2, <1>5, <1>6, <1>9, <1>11, CountSound DEF R
<1> QED BY <1>3, <1>12 DEF ObjInv, h, n, d

\* The client takes a reference more.
LEMMA HandGet ==
    ASSUME ObjInv, NEW id \in Ids, json_object_get(id)
    PROVE  ObjInv'
<1> DEFINE h == jheap
           g == jheap'
           m == jmine
           n == jmine'
           R == Ref(h)
           Q == Ref(g)
           E == jputs
           d == jdue
<1>1. jputs = <<>> /\ d = NoChange /\ Sound(h, m, E, d)
  BY IdleMeans DEF json_object_get
<1>2. m \in [Ids -> Nat] /\ HeapOk(h)
  BY <1>1 DEF Sound
<1>3. id \in From(Own(h, d), Hand(m))
  BY ViewsAgree DEF json_object_get, Usable
<1>4. h[id].ref > 0 /\ (\A x \in Ids : h[x].ref \in Nat)
  BY <1>1, <1>3, AliveUsable
<1>5. n = [m EXCEPT ![id] = @ + 1] /\ g = [h EXCEPT ![id].ref = h[id].ref + 1]
      /\ jputs' = E /\ jdue' = d
  BY DEF json_object_get
<1>6. \A x \in Ids : R[x] \in Nat /\ R[id] = h[id].ref
  BY <1>4 DEF Ref
<1> DEFINE r == h[id].ref + 1
<1>13. r \in Nat /\ r > 0 /\ Recounted(h, g, id, r)
  BY <1>4, <1>5 DEF Recounted
<1> HIDE DEF h, g, m, n, E, d
<1>7. /\ HeapOk(g) /\ Own(g, d) = Own(h, d) /\ SameSlots(h, g, d)
      /\ \A x \in Ids : Q[x] = IF x = id THEN r ELSE R[x]
  <2> HIDE DEF r
  <2> QED BY <1>2, <1>4, <1>13, RefChange
<1>8. n \in [Ids -> Nat] /\ \A x \in Ids : n[x] = IF id = x THEN m[x] + 1 ELSE m[x]
  BY <1>2, <1>5
<1>9. E \in Seq(Things) /\ \A x \in Ids : Occ(E, x) = 0
  BY <1>1, OccEmpty DEF E
<1>10. ASSUME NEW x \in Ids
      PROVE /\ Q[x] \in Nat /\ n[x] \in Nat /\ (R[x] > 0 => Q[x] > 0)
            /\ Q[x] + m[x] + Occ(E, x) = R[x] + n[x] + Occ(E, x)
  <2> DEFINE a == R[x]
             b == m[x]
             e == n[x]
             q == Q[x]
             o == Occ(E, x)
  <2>1. /\ a \in Nat /\ b \in Nat /\ o = 0
        /\ e = (IF id = x THEN b + 1 ELSE b)
        /\ q = IF id = x THEN a + 1 ELSE a
    BY <1>2, <1>6, <1>7, <1>8, <1>9
  <2> SUFFICES q \in Nat /\ e \in Nat /\ (a > 0 => q > 0) /\ q + b + o = a + e + o
    OBVIOUS
  <2> HIDE DEF a, b, e, q, o
  <2> QED BY <2>1
<1>11. Counts(R, m, E, Q, n, E)
  BY <1>10 DEF Counts
<1>12. Sound(g, n, E, d)
  BY <1>1, <1>7, <1>8, <1>9, <1>11, CountSound DEF R, Q
<1> QED BY <1>5, <1>12 DEF ObjInv, g, n, E, d

\* The client has a new object.
LEMMA HandNew ==
    ASSUME ObjInv, NEW id \in Ids, json_object_new(id)
    PROVE  ObjInv'
<1> DEFINE h == jheap
           g == jheap'
           m == jmine
           n == jmine'
           R == Ref(h)
           Q == Ref(g)
           E == jputs
           d == jdue
           u == jheap'[id]
           ty == TypeOf[id]
<1>1. jputs = <<>> /\ d = NoChange /\ Sound(h, m, E, d) /\ d.c \notin Ids
  BY IdleMeans, IdsFinite DEF json_object_new, NoChange
<1>2. m \in [Ids -> Nat] /\ HeapOk(h) /\ DOMAIN h = Ids /\ ObjOk(h[id], ty)
  BY <1>1 DEF Sound, HeapOk
<1>3. h[id].ref \in Nat /\ ~(h[id].ref > 0) /\ (\A x \in Ids : h[x].ref \in Nat)
      /\ (h[id].ref = 0 => m[id] = 0)
  BY <1>1, AliveUsable DEF json_object_new, Live
<1>4. h[id].ref = 0 /\ m[id] = 0
  BY <1>3
<1>5. u = [ref |-> 1,
           tab |-> IF ty = "object" THEN lh_table_new(HashEntries) ELSE Gone.tab,
           arr |-> IF ty = "array" THEN array_list_new ELSE Gone.arr]
  BY <1>2 DEF json_object_new
<1>6. /\ DOMAIN g = Ids /\ \A p \in Ids \ {id} : g[p] = h[p]
      /\ n = [m EXCEPT ![id] = 1] /\ jputs' = E /\ jdue' = d
  BY <1>2 DEF json_object_new
<1>7. u.ref = 1 /\ Bare(u, ty) /\ ObjOk(u, ty)
  BY <1>5, NewObj
<1>8. \A B : Mask(u, ty, B) = <<>>
  BY <1>7, BareObj
<1>9. \A B : Mask(h[id], ty, B) = <<>>
  <2>1. DOMAIN SlotsOf(h[id], ty) = {}
    BY <1>2, <1>3 DEF ObjOk
  <2> QED BY <2>1 DEF Mask
<1> HIDE DEF h, g, m, n, E, d, u, ty
<1>10. HeapOk(g)
  BY <1>2, <1>6, <1>7 DEF HeapOk, u, g, ty
<1>11. Own(g, d) = Own(h, d)
  BY <1>6, <1>8, <1>9 DEF Own, u, g, ty
<1>12. SameSlots(h, g, d)
  BY <1>1 DEF SameSlots
<1>13. \A x \in Ids : Q[x] = (IF x = id THEN 1 ELSE R[x]) /\ R[x] \in Nat /\ R[id] = 0
  BY <1>3, <1>4, <1>6, <1>7 DEF Ref, u, g
<1>14. n \in [Ids -> Nat] /\ \A x \in Ids : n[x] = IF id = x THEN 1 ELSE m[x]
  BY <1>2, <1>6
<1>15. E \in Seq(Things) /\ \A x \in Ids : Occ(E, x) = 0
  BY <1>1, OccEmpty DEF E
<1>16. ASSUME NEW x \in Ids
      PROVE /\ Q[x] \in Nat /\ n[x] \in Nat /\ (R[x] > 0 => Q[x] > 0)
            /\ Q[x] + m[x] + Occ(E, x) = R[x] + n[x] + Occ(E, x)
  <2> DEFINE a == R[x]
             b == m[x]
             e == n[x]
             q == Q[x]
             o == Occ(E, x)
  <2>1. /\ a \in Nat /\ b \in Nat /\ o = 0
        /\ e = (IF id = x THEN 1 ELSE b) /\ (id = x => a = 0 /\ b = 0)
        /\ q = IF id = x THEN 1 ELSE a
    BY <1>2, <1>4, <1>13, <1>14, <1>15
  <2> SUFFICES q \in Nat /\ e \in Nat /\ (a > 0 => q > 0) /\ q + b + o = a + e + o
    OBVIOUS
  <2> HIDE DEF a, b, e, q, o
  <2> QED BY <2>1
<1>17. Counts(R, m, E, Q, n, E)
  BY <1>16 DEF Counts
<1>18. Sound(g, n, E, d)
  BY <1>1, <1>10, <1>11, <1>12, <1>14, <1>15, <1>17, CountSound DEF R, Q
<1> QED BY <1>6, <1>18 DEF ObjInv, g, n, E, d

\* A put of NULL, or of a reference that is not the last.
LEMMA PutCounts ==
    ASSUME NEW h, NEW m, NEW ps, NEW d, Sound(h, m, ps, d), ps # <<>>, NEW g,
           \/ Head(ps) = NULL /\ g = h
           \/ Head(ps) # NULL /\ h[Head(ps)].ref # 1 /\ g = [h EXCEPT ![Head(ps)].ref = @ - 1]
    PROVE  Sound(g, m, Tail(ps), d)
<1> DEFINE R == Ref(h)
           Q == Ref(g)
           U == Tail(ps)
           id == Head(ps)
<1>1. /\ HeapOk(h) /\ m \in [Ids -> Nat] /\ GraphOk(Own(h, d), R, m, ps)
  BY DEF Sound
<1>2. ps \in Seq(Things) /\ id \in Things /\ U \in Seq(Things)
  BY <1>1 DEF GraphOk
<1>3. \A x \in Ids : Occ(ps, x) = Occ(U, x) + One(id = x) /\ Occ(U, x) \in Nat
  BY <1>2, OccTail
<1>4. \A x \in Ids : h[x].ref \in Nat /\ R[x] = h[x].ref
  BY AliveUsable DEF Ref
<1> HIDE DEF U
<1>5. CASE id = NULL
  <2>1. g = h /\ Q = R
    BY <1>5
  <2>2. \A x \in Ids : id # x
    BY <1>5, IdsFinite
  <2>3. ASSUME NEW x \in Ids
        PROVE R[x] \in Nat /\ m[x] \in Nat /\ R[x] + m[x] + Occ(ps, x) = R[x] + m[x] + Occ(U, x)
    <3>1. Occ(ps, x) = Occ(U, x)
      BY <1>3, <2>2 DEF One
    <3> QED BY <1>1, <1>4, <3>1
  <2>4. Counts(R, m, ps, Q, m, U)
    BY <2>1, <2>3 DEF Counts
  <2>5. SameSlots(h, g, d) /\ HeapOk(g) /\ Own(g, d) = Own(h, d)
    BY <1>1, <2>1 DEF SameSlots
  <2>6. Sound(g, m, U, d)
    BY <1>1, <1>2, <2>4, <2>5, CountSound
  <2> QED BY <2>6 DEF U
<1>6. CASE id # NULL
  <2>1. id \in Ids /\ R[id] # 1
    BY <1>2, <1>4, <1>6 DEF Things
  <2>2. R[id] = m[id] + Cardinality(PlacesIn(Own(h, d), id)) + Occ(ps, id)
    BY <1>1, <2>1 DEF GraphOk, Counted1
  <2>3. Cardinality(PlacesIn(Own(h, d), id)) \in Nat /\ m[id] \in Nat
    BY <1>1, <2>1, PlacesType DEF GraphOk
  <2>4. Occ(ps, id) = Occ(U, id) + 1 /\ Occ(U, id) \in Nat
    BY <1>3, <2>1 DEF One
  <2> DEFINE r == h[id].ref - 1
  <2>5. r \in Nat /\ r > 0 /\ h[id].ref > 0
    <3> DEFINE a == R[id]
               b == m[id]
               e == Cardinality(PlacesIn(Own(h, d), id))
               o == Occ(ps, id)
               w == Occ(U, id)
    <3>1. /\ a = b + e + o /\ a # 1 /\ b \in Nat /\ e \in Nat /\ o = w + 1 /\ w \in Nat
      BY <2>1, <2>2, <2>3, <2>4
    <3> HIDE DEF a, b, e, o, w
    <3>2. a > 1 /\ a \in Nat
      BY <3>1
    <3>3. a = h[id].ref
      BY <1>4, <2>1 DEF a
    <3> QED BY <3>2, <3>3
  <2>6. Recounted(h, g, id, r)
    BY <1>6 DEF Recounted
  <2> HIDE DEF id
  <2>7. /\ HeapOk(g) /\ Own(g, d) = Own(h, d) /\ SameSlots(h, g, d)
        /\ \A x \in Ids : Q[x] = IF x = id THEN r ELSE R[x]
    <3> HIDE DEF r
    <3> QED BY <1>1, <2>1, <2>5, <2>6, RefChange
  <2>8. ASSUME NEW x \in Ids
        PROVE /\ Q[x] \in Nat /\ m[x] \in Nat /\ (R[x] > 0 => Q[x] > 0)
              /\ Q[x] + m[x] + Occ(ps, x) = R[x] + m[x] + Occ(U, x)
    <3> DEFINE a == R[x]
               b == m[x]
               q == Q[x]
               o == Occ(ps, x)
               w == Occ(U, x)
    <3>1. /\ a \in Nat /\ b \in Nat /\ w \in Nat /\ o = w + (IF id = x THEN 1 ELSE 0)
          /\ q = (IF id = x THEN a - 1 ELSE a) /\ (id = x => a - 1 > 0)
      BY <1>1, <1>3, <1>4, <2>5, <2>7 DEF One
    <3> SUFFICES q \in Nat /\ b \in Nat /\ (a > 0 => q > 0) /\ q + b + o = a + b + w
      OBVIOUS
    <3> HIDE DEF a, b, q, o, w
    <3> QED BY <3>1
  <2>9. Counts(R, m, ps, Q, m, U)
    BY <2>8 DEF Counts
  <2>10. Sound(g, m, U, d)
    BY <1>1, <1>2, <2>7, <2>9, CountSound
  <2> QED BY <2>10 DEF U
<1> QED BY <1>5, <1>6

\* The last reference: the object goes, and what it held is to be put.  It is
\* not the container of the change that waits.
LEMMA PutFrees ==
    ASSUME NEW h, NEW m, NEW ps, NEW d, Sound(h, m, ps, d), ps # <<>>,
           NEW f \in Ids, f = Head(ps), h[f].ref = 1, NEW g, g = [h EXCEPT ![f] = Gone]
    PROVE  Sound(g, m, Mask(h[f], TypeOf[f], {}) \o Tail(ps), d)
<1> DEFINE O == Own(h, d)
           N == Own(g, d)
           R == Ref(h)
           Q == Ref(g)
           U == Mask(h[f], TypeOf[f], {}) \o Tail(ps)
<1>1. /\ HeapOk(h) /\ DOMAIN h = Ids /\ m \in [Ids -> Nat] /\ GraphOk(O, R, m, ps)
  BY DEF Sound, HeapOk
<1>2. /\ DOMAIN g = Ids /\ g[f] = Gone /\ \A p \in Ids \ {f} : g[p] = h[p]
  BY <1>1
<1>3. SameBut(O, N, f) /\ N[f] = <<>>
  <2>1. \A B : Mask(Gone, TypeOf[f], B) = <<>>
    BY GoneObj, BareObj
  <2>2. N[f] = Mask(Gone, TypeOf[f], Masked(f, d))
    BY <1>2 DEF Own
  <2>3. SameBut(O, N, f)
    BY <1>2 DEF SameBut, Own
  <2> QED BY <2>1, <2>2, <2>3
<1>4. R[f] = 1 /\ \A x \in Ids : Q[x] = IF x = f THEN 0 ELSE R[x]
  BY <1>2, GoneObj DEF Ref
<1>5. HeapOk(g)
  <2>1. ObjOk(Gone, TypeOf[f])
    BY GoneObj
  <2> QED BY <1>1, <1>2, <2>1 DEF HeapOk
<1> HIDE DEF O, N, R, Q
<1>6. /\ GraphOk(N, Q, m, O[f] \o Tail(ps))
      /\ m[f] = 0 /\ \A p \in Ids : ~Refer(O, p, f)
      /\ \A p, x \in Ids : Refer(N, p, x) => Refer(O, p, x)
  BY <1>1, <1>3, <1>4, FreeStep
<1>7. CASE d = NoChange
  <2>1. f # d.c
    BY <1>7, IdsFinite DEF NoChange
  <2>2. O[f] = Mask(h[f], TypeOf[f], {})
    BY <2>1 DEF O, Own, Masked
  <2>3. DueOk(g, m, d)
    BY <1>7 DEF DueOk
  <2> QED BY <1>1, <1>5, <1>6, <2>2, <2>3 DEF Sound, N, Q
<1>8. CASE d # NoChange
  <2> DEFINE c == d.c
  <2>1. /\ c \in Ids /\ c \in From(O, Hand(m)) /\ d.v \in Things
        /\ (d.v # NULL => m[d.v] > 0 /\ c \notin From(O, {d.v})) /\ SlotOk(h, d)
    BY <1>8 DEF Sound, DueOk, O
  <2>2. Hand(m) \subseteq Ids /\ f \notin Hand(m)
    BY <1>6 DEF Hand
  <2>3. c \in From(N, Hand(m)) /\ c # f
    <3> HIDE DEF c
    <3> QED BY <1>3, <1>6, <2>1, <2>2, FromWithout
  <2>4. From(N, {d.v}) \subseteq From(O, {d.v})
    BY <1>6, FromShrinks
  <2>5. g[d.c] = h[d.c]
    BY <1>2, <2>1, <2>3
  <2>6. SlotOk(g, d)
    BY <2>1, <2>5 DEF SlotOk
  <2>7. DueOk(g, m, d)
    BY <2>1, <2>3, <2>4, <2>6 DEF DueOk, N
  <2>8. O[f] = Mask(h[f], TypeOf[f], {})
    BY <2>3 DEF O, Own, Masked
  <2> QED BY <1>1, <1>5, <1>6, <2>7, <2>8 DEF Sound, N, Q
<1> QED BY <1>7, <1>8

\* json_object_put keeps the invariant.
LEMMA PutInv == ObjInv /\ json_object_put => ObjInv'
<1> SUFFICES ASSUME ObjInv, json_object_put PROVE ObjInv'
  OBVIOUS
<1> DEFINE h == jheap
           g == jheap'
           m == jmine
           ps == jputs
           d == jdue
           id == Head(jputs)
<1>1. Sound(h, m, ps, d) /\ ps # <<>> /\ jmine' = m /\ jdue' = d
  BY DEF ObjInv, json_object_put
<1>2. \/ id = NULL /\ jputs' = Tail(ps) /\ g = h
      \/ id # NULL /\ h[id].ref # 1 /\ g = [h EXCEPT ![id].ref = @ - 1] /\ jputs' = Tail(ps)
      \/ id # NULL /\ h[id].ref = 1 /\ g = [h EXCEPT ![id] = Gone] /\ jputs' = Held(id) \o Tail(ps)
  BY DEF json_object_put
<1>3. CASE \/ id = NULL /\ g = h
           \/ id # NULL /\ h[id].ref # 1 /\ g = [h EXCEPT ![id].ref = @ - 1]
  <2>1. jputs' = Tail(ps)
    BY <1>2, <1>3
  <2> HIDE DEF h, g, m, d
  <2>2. Sound(g, m, Tail(ps), d)
    BY <1>1, <1>3, PutCounts
  <2> QED BY <1>1, <2>1, <2>2 DEF ObjInv, g
<1>4. CASE id # NULL /\ h[id].ref = 1 /\ g = [h EXCEPT ![id] = Gone] /\ jputs' = Held(id) \o Tail(ps)
  <2>1. id \in Ids
    <3>1. ps \in Seq(Things)
      BY <1>1 DEF Sound, GraphOk
    <3>2. id \in Things
      BY <1>1, <3>1
    <3> QED BY <1>4, <3>2 DEF Things
  <2>2. Held(id) = Mask(h[id], TypeOf[id], {})
    BY <2>1, ViewsAgree
  <2> DEFINE U == Mask(h[id], TypeOf[id], {}) \o Tail(ps)
  <2>3. jputs' = U
    BY <1>4, <2>2
  <2> HIDE DEF h, g, m, d
  <2>4. Sound(g, m, U, d)
    BY <1>1, <1>4, <2>1, PutFrees
  <2> HIDE DEF U
  <2> QED BY <1>1, <2>3, <2>4 DEF ObjInv, g
<1> QED BY <1>2, <1>3, <1>4

\* What the client may store, and where.
LEMMA MayStoreMeans ==
    ASSUME NEW c \in Ids, NEW v, MayStore(c, v)
    PROVE  /\ c \in From(Own(jheap, jdue), Hand(jmine))
           /\ v # NULL => jmine[v] > 0 /\ c \notin From(Own(jheap, jdue), {v})
BY ViewsAgree, Zenon DEF MayStore, Usable

\* What a lookup finds is on the list.
LEMMA LookupMeans ==
    ASSUME NEW t, TableOk(t), NEW k \in EntryNames, NEW n, n = lh_table_lookup_entry(t, k)
    PROVE  /\ n = -1 => k \notin NamesOf(t)
           /\ n # -1 => \E i \in DOMAIN t.list : t.list[i] = n
<1>1. IF k \in NamesOf(t) THEN \E i \in 1 .. t.count : t.list[i] = n /\ Entries(t)[i].k = k
                          ELSE n = -1
  BY LookupLemma
<1>2. DOMAIN t.list = 1 .. t.count /\ \A i \in 1 .. t.count : t.list[i] \in Nat
  <2>1. t.list \in Seq(Steps(t)) /\ t.size \in Nat
    BY DEF TableOk, Shape
  <2>2. Steps(t) \subseteq Nat
    BY <2>1 DEF Steps
  <2>3. DOMAIN t.list = 1 .. t.count
    BY ListLemma
  <2> DEFINE l == t.list
             S == Steps(t)
  <2>4. l \in Seq(S)
    BY <2>1
  <2> HIDE DEF l, S
  <2>5. \A i \in DOMAIN l : l[i] \in S
    BY <2>4
  <2>6. \A i \in DOMAIN t.list : t.list[i] \in Nat
    BY <2>2, <2>5 DEF l, S
  <2> QED BY <2>3, <2>6
<1>3. -1 \notin Nat
  OBVIOUS
<1> QED BY <1>1, <1>2, <1>3

\* The value of entry i is to be put, and its place will be changed.
LEMMA TakeEntry ==
    ASSUME ObjInv, Idle, NEW c \in Ids, TypeOf[c] = "object", NEW n, NEW i \in DOMAIN jheap[c].tab.list,
           jheap[c].tab.list[i] = n, NEW op \in {"value", "delete"}, NEW v \in Things,
           op = "delete" => v = NULL,
           c \in From(Own(jheap, jdue), Hand(jmine)),
           v # NULL => jmine[v] > 0 /\ c \notin From(Own(jheap, jdue), {v}),
           PutThen(ValueAt(c, n), op, c, n, v), UNCHANGED jheap
    PROVE  ObjInv'
<1> DEFINE h == jheap
           m == jmine
           e == [op |-> op, c |-> c, slot |-> n, v |-> v]
           old == ValueAt(c, n)
           ty == TypeOf[c]
<1>1. jdue = NoChange /\ Sound(h, m, <<>>, NoChange)
  BY IdleMeans
<1>2. jheap' = h /\ jmine' = m /\ jputs' = <<old>> /\ jdue' = e
  BY DEF PutThen
<1>3. e.c = c /\ e.slot = n /\ e.v = v /\ e.op = op
  OBVIOUS
<1>4. ObjOk(h[c], ty)
  BY <1>1 DEF Sound, HeapOk
<1>5. Gain(Mask(h[c], ty, {n}), Mask(h[c], ty, {}), old) /\ old \in Things
  <2>1. i \in DOMAIN SlotsOf(h[c], ty) /\ n = SlotsOf(h[c], ty)[i]
    BY DEF SlotsOf
  <2>2. ValOf(h[c], ty, n) = old
    BY DEF ValOf, ValueAt
  <2> HIDE DEF h, ty, old
  <2>3. Gain(Mask(h[c], ty, {n}), Mask(h[c], ty, {}), ValOf(h[c], ty, n)) /\ ValOf(h[c], ty, n) \in Things
    BY <1>4, <2>1, MaskOne
  <2> QED BY <2>2, <2>3
<1>6. Differs(h, h, c)
  BY <1>4 DEF Differs
<1>7. SlotOk(h, e)
  BY <1>3 DEF SlotOk
<1>8. Own(jheap, jdue) = Own(h, NoChange)
  BY <1>1
<1> HIDE DEF h, m, e, old
<1>9. c \in From(Own(h, NoChange), Hand(m)) /\ (e.v # NULL => m[e.v] > 0 /\ c \notin From(Own(h, NoChange), {e.v}))
  BY <1>3, <1>8 DEF h, m
<1>10. Gain(Mask(h[c], TypeOf[c], {e.slot}), Mask(h[c], TypeOf[c], {}), old)
  BY <1>3, <1>5
<1>11. Sound(h, m, <<old>>, e)
  BY <1>1, <1>3, <1>5, <1>6, <1>7, <1>9, <1>10, TakeSound
<1> QED BY <1>2, <1>11 DEF ObjInv

\* json_object_object_add keeps it.
LEMMA ObjectAdd ==
    ASSUME ObjInv, NEW c \in Ids, NEW k \in MemberNames, NEW v \in Things, json_object_object_add(c, k, v)
    PROVE  ObjInv'
<1> DEFINE n == lh_table_lookup_entry(jheap[c].tab, k)
<1>1. Idle /\ TypeOf[c] = "object" /\ MayStore(c, v) /\ k \in EntryNames
  BY TypeOfAssumption DEF json_object_object_add
<1>2. /\ c \in From(Own(jheap, jdue), Hand(jmine))
      /\ v # NULL => jmine[v] > 0 /\ c \notin From(Own(jheap, jdue), {v})
  BY <1>1, MayStoreMeans
<1>3. jputs = <<>> /\ jdue = NoChange /\ Sound(jheap, jmine, <<>>, NoChange)
  BY <1>1, IdleMeans
<1>4. jheap[c].ref > 0 /\ ObjOk(jheap[c], "object") /\ TableOk(jheap[c].tab)
  <2>1. \A p \in From(Own(jheap, jdue), Hand(jmine)) : p \in Ids /\ jheap[p].ref > 0
    BY AliveUsable DEF ObjInv
  <2>2. ObjOk(jheap[c], TypeOf[c])
    BY <1>3 DEF Sound, HeapOk
  <2> QED BY <1>1, <1>2, <2>1, <2>2 DEF ObjOk
<1>5. /\ n = -1 => k \notin NamesOf(jheap[c].tab)
      /\ n # -1 => \E i \in DOMAIN jheap[c].tab.list : jheap[c].tab.list[i] = n
  BY <1>1, <1>4, LookupMeans
<1>6. \/ n = -1 /\ jheap' = [jheap EXCEPT ![c].tab = lh_table_insert(@, k, v)]
         /\ Given(v) /\ UNCHANGED <<jputs, jdue>>
      \/ n # -1 /\ PutThen(ValueAt(c, n), "value", c, n, v) /\ UNCHANGED jheap
  BY DEF json_object_object_add
<1>7. CASE n # -1 /\ PutThen(ValueAt(c, n), "value", c, n, v) /\ UNCHANGED jheap
  <2>1. PICK i \in DOMAIN jheap[c].tab.list : jheap[c].tab.list[i] = n
    BY <1>5, <1>7
  <2> DEFINE op == "value"
  <2>2. op \in {"value", "delete"} /\ (op = "delete" => v = NULL) /\ PutThen(ValueAt(c, n), op, c, n, v)
    BY <1>7
  <2> HIDE DEF op, n
  <2> QED BY <1>1, <1>2, <1>7, <2>1, <2>2, TakeEntry
<1>8. CASE n = -1 /\ jheap' = [jheap EXCEPT ![c].tab = lh_table_insert(@, k, v)]
           /\ Given(v) /\ UNCHANGED <<jputs, jdue>>
  <2> DEFINE h == jheap
             g == jheap'
             o == jheap[c]
             u == jheap'[c]
             m == jmine
             q == jmine'
             d == NoChange
  <2>1. DOMAIN h = Ids /\ DOMAIN o = {"ref", "tab", "arr"}
    BY <1>3, <1>4 DEF Sound, HeapOk, ObjOk
  <2>2. /\ DOMAIN g = DOMAIN h /\ \A p \in Ids \ {c} : g[p] = h[p]
        /\ u = [o EXCEPT !.tab = lh_table_insert(@, k, v)]
    BY <1>8, <2>1
  <2>3. DOMAIN u = DOMAIN o /\ u.ref = o.ref /\ u.arr = o.arr /\ u.tab = lh_table_insert(o.tab, k, v)
    BY <2>1, <2>2
  <2> HIDE DEF u, o
  <2>4. /\ ObjOk(u, "object") /\ Gain(Mask(o, "object", {}), Mask(u, "object", {}), v)
    BY <1>1, <1>4, <1>5, <1>8, <2>3, TypesOk, InsertObj DEF o
  <2>5. Differs(h, g, c) /\ h[c].ref > 0
    BY <1>1, <1>4, <2>2, <2>3, <2>4 DEF Differs, o, u
  <2>6. Masked(c, NoChange) = {} /\ ChangesIn(NoChange, c)
    BY IdsFinite DEF Masked, NoChange, ChangesIn
  <2>7. q = IF v = NULL THEN m ELSE [m EXCEPT ![v] = @ - 1]
    BY <1>8 DEF Given
  <2>8. Gain(Mask(h[c], TypeOf[c], Masked(c, d)), Mask(g[c], TypeOf[c], {}), v)
    BY <1>1, <2>4, <2>6 DEF o, u
  <2>9. Sound(h, m, <<>>, d) /\ ChangesIn(d, c) /\ (v # NULL => m[v] > 0 /\ c \notin From(Own(h, d), {v}))
    BY <1>2, <1>3, <2>6
  <2>10. jputs' = <<>> /\ jdue' = NoChange
    BY <1>3, <1>8
  <2> HIDE DEF h, g, m, q, d
  <2>11. Sound(g, q, <<>>, NoChange)
    BY <2>5, <2>7, <2>8, <2>9, GiveSound
  <2> QED BY <2>10, <2>11 DEF ObjInv, g, q
<1> QED BY <1>6, <1>7, <1>8

\* json_object_object_del keeps it.
LEMMA ObjectDel ==
    ASSUME ObjInv, NEW c \in Ids, NEW k \in MemberNames, json_object_object_del(c, k)
    PROVE  ObjInv'
<1> DEFINE n == lh_table_lookup_entry(jheap[c].tab, k)
<1>1. Idle /\ TypeOf[c] = "object" /\ c \in Usable /\ k \in EntryNames
  BY TypeOfAssumption DEF json_object_object_del
<1>2. c \in From(Own(jheap, jdue), Hand(jmine))
  BY <1>1, ViewsAgree DEF Usable
<1>3. jputs = <<>> /\ jdue = NoChange /\ Sound(jheap, jmine, <<>>, NoChange)
  BY <1>1, IdleMeans
<1>4. TableOk(jheap[c].tab)
  <2>1. \A p \in From(Own(jheap, jdue), Hand(jmine)) : p \in Ids /\ jheap[p].ref > 0
    BY AliveUsable DEF ObjInv
  <2>2. ObjOk(jheap[c], TypeOf[c])
    BY <1>3 DEF Sound, HeapOk
  <2> QED BY <1>1, <1>2, <2>1, <2>2 DEF ObjOk
<1>5. n # -1 /\ PutThen(ValueAt(c, n), "delete", c, n, NULL) /\ UNCHANGED jheap
  BY DEF json_object_object_del
<1>6. PICK i \in DOMAIN jheap[c].tab.list : jheap[c].tab.list[i] = n
  BY <1>1, <1>4, <1>5, LookupMeans
<1> DEFINE op == "delete"
           v == NULL
<1>7. /\ op \in {"value", "delete"} /\ (op = "delete" => v = NULL) /\ v \in Things
      /\ PutThen(ValueAt(c, n), op, c, n, v)
      /\ (v # NULL => jmine[v] > 0 /\ c \notin From(Own(jheap, jdue), {v}))
  BY <1>5 DEF Things
<1> HIDE DEF op, n, v
<1> QED BY <1>1, <1>2, <1>5, <1>6, <1>7, TakeEntry

\* json_object_array_put_idx keeps it.
LEMMA ArrayPut ==
    ASSUME ObjInv, NEW c \in Ids, NEW idx \in Nat, NEW v \in Things, json_object_array_put_idx(c, idx, v)
    PROVE  ObjInv'
<1> DEFINE h == jheap
           g == jheap'
           o == jheap[c]
           u == jheap'[c]
           m == jmine
           arr == array_list_expand_internal(jheap[c].arr, idx + 1)
           old == arr.array[idx]
           e == [op |-> "element", c |-> c, slot |-> idx, v |-> v]
<1>1. Idle /\ TypeOf[c] = "array" /\ MayStore(c, v)
  BY DEF json_object_array_put_idx
<1>2. /\ c \in From(Own(jheap, jdue), Hand(jmine))
      /\ v # NULL => jmine[v] > 0 /\ c \notin From(Own(jheap, jdue), {v})
  BY <1>1, MayStoreMeans
<1>3. jputs = <<>> /\ jdue = NoChange /\ Sound(jheap, jmine, <<>>, NoChange)
  BY <1>1, IdleMeans
<1>4. o.ref > 0 /\ ObjOk(o, "array") /\ DOMAIN h = Ids /\ DOMAIN o = {"ref", "tab", "arr"}
  <2>1. \A p \in From(Own(jheap, jdue), Hand(jmine)) : p \in Ids /\ jheap[p].ref > 0
    BY AliveUsable DEF ObjInv
  <2>2. ObjOk(jheap[c], TypeOf[c]) /\ DOMAIN h = Ids
    BY <1>3 DEF Sound, HeapOk
  <2> QED BY <1>1, <1>2, <2>1, <2>2 DEF ObjOk
<1>18. CASE idx + 1 >= jheap[c].arr.size /\ UNCHANGED objVars
  BY <1>18 DEF objVars, ObjInv
<1>5. SUFFICES ASSUME PutThen(old, "element", c, idx, v), g = [h EXCEPT ![c].arr = arr]
               PROVE  ObjInv'
  BY <1>18 DEF json_object_array_put_idx
<1>6. jputs' = <<old>> /\ jdue' = e /\ jmine' = m
  BY <1>5 DEF PutThen
<1>7. /\ DOMAIN g = DOMAIN h /\ \A p \in Ids \ {c} : g[p] = h[p]
      /\ u = [o EXCEPT !.arr = arr]
  BY <1>4, <1>5
<1>8. DOMAIN u = DOMAIN o /\ u.ref = o.ref /\ u.arr = arr
  BY <1>4, <1>7
<1>9. u.arr = array_list_expand_internal(o.arr, idx + 1)
  BY <1>8
<1>10. old = u.arr.array[idx]
  BY <1>8
<1> HIDE DEF u, o, old, arr
<1>11. /\ ObjOk(u, "array") /\ idx < u.arr.size /\ u.arr.array[idx] \in Things
       /\ Gain(Mask(u, "array", {idx}), Mask(o, "array", {}), u.arr.array[idx])
  BY <1>4, <1>8, <1>9, ExpandObj
<1>12. Differs(h, g, c)
  BY <1>1, <1>7, <1>8, <1>11 DEF Differs, o, u
<1>13. e.c = c /\ e.slot = idx /\ e.v = v /\ e.op = "element"
  OBVIOUS
<1>14. SlotOk(g, e)
  BY <1>1, <1>11, <1>13 DEF SlotOk, u
<1>15. Gain(Mask(g[c], TypeOf[c], {e.slot}), Mask(h[c], TypeOf[c], {}), old) /\ old \in Things
  BY <1>1, <1>10, <1>11, <1>13 DEF u, o
<1> HIDE DEF e
<1>16. c \in From(Own(h, NoChange), Hand(m)) /\ e.v \in Things
       /\ (e.v # NULL => m[e.v] > 0 /\ c \notin From(Own(h, NoChange), {e.v}))
  BY <1>2, <1>3, <1>13
<1> HIDE DEF h, g, m
<1>17. Sound(g, m, <<old>>, e)
  BY <1>3, <1>12, <1>13, <1>14, <1>15, <1>16, TakeSound DEF h, m
<1> QED BY <1>6, <1>17 DEF ObjInv, g, m

\* The change that waited keeps it.
LEMMA ChangeInv == ObjInv /\ Change => ObjInv'
<1> SUFFICES ASSUME ObjInv, Change PROVE ObjInv'
  OBVIOUS
<1> DEFINE h == jheap
           g == jheap'
           m == jmine
           q == jmine'
           d == jdue
           c == jdue.c
           n == jdue.slot
           v == jdue.v
           o == jheap[c]
           u == jheap'[c]
           ty == TypeOf[c]
<1>1. jputs = <<>> /\ d.op # "none" /\ jputs' = <<>> /\ jdue' = NoChange
      /\ q = IF v = NULL THEN m ELSE [m EXCEPT ![v] = @ - 1]
  BY DEF Change, Given
<1>2. Sound(h, m, <<>>, d)
  BY <1>1, Zenon DEF ObjInv
<1>3. /\ c \in Ids /\ c \in From(Own(h, d), Hand(m)) /\ v \in Things
      /\ (v # NULL => m[v] > 0 /\ c \notin From(Own(h, d), {v})) /\ SlotOk(h, d)
  <2>1. d # NoChange
    BY <1>1 DEF NoChange
  <2> QED BY <1>2, <2>1 DEF Sound, DueOk
<1>4. o.ref > 0 /\ ObjOk(o, ty) /\ DOMAIN h = Ids /\ DOMAIN o = {"ref", "tab", "arr"}
  <2>1. \A p \in From(Own(h, d), Hand(m)) : p \in Ids /\ h[p].ref > 0
    BY <1>2, AliveUsable
  <2>2. ObjOk(jheap[c], TypeOf[c]) /\ DOMAIN h = Ids
    BY <1>2, <1>3 DEF Sound, HeapOk
  <2> QED BY <1>3, <2>1, <2>2 DEF ObjOk
<1>5. \/ d.op = "value" /\ g = [h EXCEPT ![c].tab.table[n].v = v]
      \/ d.op = "delete" /\ g = [h EXCEPT ![c].tab = lh_table_delete_entry(@, n)]
      \/ d.op = "element" /\ g = [h EXCEPT ![c].arr = PutElement(@, n, v)]
  BY DEF Change
<1>6. ChangesIn(d, c) /\ Masked(c, d) = {n}
  BY DEF ChangesIn, Masked
<1>7. ASSUME DOMAIN g = DOMAIN h, \A p \in Ids \ {c} : g[p] = h[p], ObjOk(u, ty), u.ref = o.ref,
             Gain(Mask(o, ty, {n}), Mask(u, ty, {}), v)
      PROVE  ObjInv'
  <2>1. Differs(h, g, c) /\ h[c].ref > 0
    BY <1>4, <1>7 DEF Differs
  <2>2. Gain(Mask(h[c], TypeOf[c], Masked(c, d)), Mask(g[c], TypeOf[c], {}), v)
    BY <1>6, <1>7
  <2> HIDE DEF h, g, m, q, d, c, v
  <2>3. Sound(g, q, <<>>, NoChange)
    BY <1>1, <1>2, <1>3, <1>6, <2>1, <2>2, GiveSound
  <2> QED BY <1>1, <2>3 DEF ObjInv, g, q
<1>8. CASE d.op = "value" /\ g = [h EXCEPT ![c].tab.table[n].v = v]
  <2>1. ty = "object" /\ \E i \in DOMAIN o.tab.list : o.tab.list[i] = n
    BY <1>3, <1>8 DEF SlotOk
  <2>2. PICK i \in DOMAIN o.tab.list : o.tab.list[i] = n
    BY <2>1
  <2>3. /\ DOMAIN g = DOMAIN h /\ \A p \in Ids \ {c} : g[p] = h[p]
        /\ u = [o EXCEPT !.tab = [o.tab EXCEPT !.table[n].v = v]]
    BY <1>3, <1>4, <1>8
  <2>4. DOMAIN u = DOMAIN o /\ u.ref = o.ref /\ u.arr = o.arr /\ u.tab = [o.tab EXCEPT !.table[n].v = v]
    BY <1>4, <2>3
  <2> HIDE DEF u, o, ty, v, n
  <2>5. u.tab = [o.tab EXCEPT !.table[o.tab.list[i]].v = v]
    BY <2>2, <2>4
  <2>6. ObjOk(u, "object") /\ Gain(Mask(o, "object", {o.tab.list[i]}), Mask(u, "object", {}), v)
    BY <1>3, <1>4, <2>1, <2>4, <2>5, TypesOk, ValueObj
  <2> QED BY <1>7, <2>1, <2>2, <2>3, <2>4, <2>6
<1>9. CASE d.op = "delete" /\ g = [h EXCEPT ![c].tab = lh_table_delete_entry(@, n)]
  <2>1. ty = "object" /\ (\E i \in DOMAIN o.tab.list : o.tab.list[i] = n) /\ v = NULL
    BY <1>3, <1>9 DEF SlotOk
  <2>2. PICK i \in DOMAIN o.tab.list : o.tab.list[i] = n
    BY <2>1
  <2>3. /\ DOMAIN g = DOMAIN h /\ \A p \in Ids \ {c} : g[p] = h[p]
        /\ u = [o EXCEPT !.tab = lh_table_delete_entry(@, n)]
    BY <1>3, <1>4, <1>9
  <2>4. DOMAIN u = DOMAIN o /\ u.ref = o.ref /\ u.arr = o.arr /\ u.tab = lh_table_delete_entry(o.tab, n)
    BY <1>4, <2>3
  <2> HIDE DEF u, o, ty, v, n
  <2>5. u.tab = lh_table_delete_entry(o.tab, o.tab.list[i])
    BY <2>2, <2>4
  <2>6. ObjOk(u, "object") /\ Gain(Mask(o, "object", {o.tab.list[i]}), Mask(u, "object", {}), NULL)
    BY <1>3, <1>4, <2>1, <2>4, <2>5, DeleteObj
  <2> QED BY <1>7, <2>1, <2>2, <2>3, <2>4, <2>6
<1>10. CASE d.op = "element" /\ g = [h EXCEPT ![c].arr = PutElement(@, n, v)]
  <2>1. ty = "array" /\ n \in Nat /\ n < o.arr.size
    BY <1>3, <1>10 DEF SlotOk
  <2>3. /\ DOMAIN g = DOMAIN h /\ \A p \in Ids \ {c} : g[p] = h[p]
        /\ u = [o EXCEPT !.arr = PutElement(@, n, v)]
    BY <1>3, <1>4, <1>10
  <2>4. DOMAIN u = DOMAIN o /\ u.ref = o.ref /\ u.arr = PutElement(o.arr, n, v)
    BY <1>4, <2>3
  <2> HIDE DEF u, o, ty, v, n
  <2>6. ObjOk(u, "array") /\ Gain(Mask(o, "array", {n}), Mask(u, "array", {}), v)
    BY <1>3, <1>4, <2>1, <2>4, ElementObj
  <2> QED BY <1>7, <2>1, <2>3, <2>4, <2>6
<1> QED BY <1>5, <1>8, <1>9, <1>10

\* No object is alive at the start.
LEMMA ObjInitInv == ObjInit => ObjInv
<1> SUFFICES ASSUME ObjInit PROVE ObjInv
  OBVIOUS
<1> DEFINE O == Own(jheap, jdue)
           R == Ref(jheap)
           m == jmine
           E == jputs
<1>1. /\ DOMAIN jheap = Ids /\ \A p \in Ids : jheap[p] = Gone
      /\ m = [id \in Ids |-> 0] /\ E = <<>> /\ jdue = NoChange
  BY DEF ObjInit
<1>2. HeapOk(jheap)
  BY <1>1, GoneObj DEF HeapOk
<1>3. \A p \in Ids : O[p] = <<>> /\ R[p] = 0
  <2>1. \A p \in Ids : \A B : Mask(Gone, TypeOf[p], B) = <<>>
    BY GoneObj, BareObj
  <2> QED BY <1>1, <2>1, GoneObj DEF Own, Ref
<1> HIDE DEF O, R
<1>4. Graph(O) /\ (\A p \in Ids : \A x : ~Refer(O, p, x))
  <2>1. <<>> \in Seq(Things) /\ DOMAIN <<>> = {}
    OBVIOUS
  <2>2. \A p \in Ids : O[p] \in Seq(Things) /\ DOMAIN O[p] = {}
    BY <1>3, <2>1
  <2> QED BY <2>2 DEF Graph, Refer
<1>5. Acyclic(O)
  BY <1>4 DEF Acyclic
<1>6. ASSUME NEW x \in Ids PROVE R[x] \in Nat /\ m[x] \in Nat /\ Counted1(O, R, m, E, x)
  <2>1. Cardinality(PlacesIn(O, x)) = 0
    BY <1>4, PlacesType
  <2>2. Occ(E, x) = 0
    BY <1>1, OccEmpty
  <2>3. R[x] = 0 /\ m[x] = 0
    BY <1>1, <1>3
  <2> QED BY <2>1, <2>2, <2>3 DEF Counted1
<1>7. E \in Seq(Things) /\ m \in [Ids -> Nat]
  BY <1>1
<1>8. GraphOk(O, R, m, E)
  BY <1>4, <1>5, <1>6, <1>7 DEF GraphOk
<1>9. DueOk(jheap, m, jdue)
  BY <1>1 DEF DueOk
<1> QED BY <1>2, <1>7, <1>8, <1>9 DEF ObjInv, Sound, O, R

\* Every step keeps the invariant.
LEMMA ObjNextInv == ObjInv /\ [ObjNext]_objVars => ObjInv'
<1> SUFFICES ASSUME ObjInv, [ObjNext]_objVars PROVE ObjInv'
  OBVIOUS
<1>1. CASE json_object_put
  BY <1>1, PutInv
<1>2. CASE Change
  BY <1>2, ChangeInv
<1>3. CASE \E id \in Ids : json_object_new(id) \/ json_object_get(id) \/ ClientPut(id)
  BY <1>3, HandNew, HandGet, HandPut
<1>4. CASE \E c \in Ids, k \in MemberNames : json_object_object_del(c, k)
  BY <1>4, ObjectDel
<1>5. ASSUME NEW c \in Ids, NEW v \in Ids \cup {NULL}, NEW k \in MemberNames, json_object_object_add(c, k, v)
      PROVE  ObjInv'
  BY <1>5, ObjectAdd DEF Things
<1>6. ASSUME NEW c \in Ids, NEW v \in Ids \cup {NULL}, NEW idx \in 0 .. MaxLen - 1,
             json_object_array_put_idx(c, idx, v)
      PROVE  ObjInv'
  <2>1. idx \in Nat /\ v \in Things
    BY TypeOfAssumption DEF Things
  <2> QED BY <1>6, <2>1, ArrayPut
<1>7. CASE UNCHANGED objVars
  BY <1>7 DEF objVars, ObjInv
<1> QED BY <1>1, <1>2, <1>3, <1>4, <1>5, <1>6, <1>7 DEF ObjNext

\* So it always holds.
LEMMA ObjInvariant == ObjSpec => []ObjInv
BY ObjInitInv, ObjNextInv, PTL DEF ObjSpec

\* And it says what the counts promise.
LEMMA ObjInvSound == ObjInv => ReferencesSound
<1> SUFFICES ASSUME ObjInv PROVE ReferencesSound
  OBVIOUS
<1> DEFINE h == jheap
           m == jmine
           ps == jputs
           d == jdue
           O == Own(h, d)
           R == Ref(h)
<1>1. Sound(h, m, ps, d) /\ GraphOk(O, R, m, ps) /\ \A x \in Ids : R[x] = h[x].ref
  BY DEF ObjInv, Sound, Ref
<1>2. AliveIffReachable
  <2>1. {id \in Ids : R[id] > 0} = From(O, Roots(m, ps))
    BY <1>1, AliveLemma
  <2>2. {id \in Ids : Live(id)} = {id \in Ids : R[id] > 0}
    BY <1>1 DEF Live
  <2>3. Mine \cup {id \in Ids : \E i \in DOMAIN jputs : jputs[i] = id} = Roots(m, ps)
    BY DEF Mine, Roots
  <2>4. Reach(Roots(m, ps)) = From(O, Roots(m, ps))
    BY ViewsAgree
  <2> HIDE DEF O, R
  <2> QED BY <2>1, <2>2, <2>3, <2>4 DEF AliveIffReachable
<1>3. CountsExact
  <2>1. ASSUME NEW id \in Ids
        PROVE jheap[id].ref = jmine[id] + Cardinality(Places(id))
                              + Cardinality({i \in DOMAIN jputs : jputs[i] = id})
    <3>1. R[id] = m[id] + Cardinality(PlacesIn(O, id)) + Occ(ps, id)
      BY <1>1 DEF GraphOk, Counted1
    <3>2. Places(id) = PlacesIn(O, id)
      BY ViewsAgree
    <3>3. Occ(ps, id) = Cardinality({i \in DOMAIN jputs : jputs[i] = id})
      BY DEF Occ, At
    <3>4. R[id] = jheap[id].ref
      BY <1>1
    <3> HIDE DEF R, O
    <3> QED BY <3>1, <3>2, <3>3, <3>4
  <2> QED BY <2>1 DEF CountsExact
<1>4. ChangeLands
  <2> SUFFICES ASSUME d.op # "none"
               PROVE  /\ Live(d.c)
                      /\ d.op \in {"value", "delete"} =>
                            \E i \in DOMAIN Slots(d.c) : Slots(d.c)[i] = d.slot
                      /\ d.op = "element" => d.slot < h[d.c].arr.size
                      /\ d.v # NULL => m[d.v] > 0
    BY DEF ChangeLands
  <2>1. d # NoChange
    BY DEF NoChange
  <2>2. /\ d.c \in From(O, Hand(m)) /\ (d.v # NULL => m[d.v] > 0) /\ SlotOk(h, d)
    BY <1>1, <2>1 DEF Sound, DueOk
  <2>3. Live(d.c)
    BY <1>1, <2>2, AliveUsable DEF Live
  <2>4. d.op \in {"value", "delete"} => \E i \in DOMAIN Slots(d.c) : Slots(d.c)[i] = d.slot
    BY <2>2 DEF SlotOk, Slots
  <2>5. d.op = "element" => d.slot < h[d.c].arr.size
    BY <2>2 DEF SlotOk
  <2> QED BY <2>2, <2>3, <2>4, <2>5
<1> QED BY <1>2, <1>3, <1>4 DEF ReferencesSound

\* Reference counting is right: whatever the client shares, replaces and
\* deletes, every count is the number of references there are, exactly the
\* objects that something still leads to are alive, and a change finds its
\* container, its slot and its value when the release in its middle is over.
THEOREM ReferencesAlwaysSound == ObjSpec => []ReferencesSound
BY ObjInvariant, ObjInvSound, PTL
=============================================================================
