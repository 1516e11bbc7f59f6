-------------------------- MODULE JsonTableProofs --------------------------
(***************************************************************************)
(* Proofs about JsonTable, for every set of names, every hash function and *)
(* every initial size of the table: probing, the places of the entries,    *)
(* the move to a larger table, the list, and the walks along it.           *)
(***************************************************************************)
EXTENDS JsonTable, SequenceTheorems, FiniteSetTheorems, TLAPS

\* Moving the entries to a new table is a fold over the list of them.
Moving == INSTANCE FoldFacts WITH Op <- MoveEntry, Good <- Used

-----------------------------------------------------------------------------
(***************************************************************************)
(* Probing.  The steps from the hash of a name come to every slot once.    *)
(***************************************************************************)
\* A set of numbers has a least one.
LEMMA LeastNumber ==
    ASSUME NEW S, S \subseteq Nat, S # {}
    PROVE  \E n \in S : \A m \in S : n <= m
<1> SUFFICES ASSUME \A n \in S : \E m \in S : m < n
             PROVE  FALSE
  OBVIOUS
<1> DEFINE T == {k \in Nat : \A j \in 0 .. k : j \notin S}
<1>1. 0 \in T
  OBVIOUS
<1>2. \A k \in Nat : k \in T => k + 1 \in T
  OBVIOUS
<1>3. Nat \subseteq T
  <2> HIDE DEF T
  <2> QED BY <1>1, <1>2, Moving!NatSet
<1>4. PICK n : n \in S
  OBVIOUS
<1>5. n \in T /\ n \in Nat
  BY <1>3, <1>4
<1> QED BY <1>4, <1>5

\* The remainder of a sum, for a summand below the divisor.
LEMMA Quotient ==
    ASSUME NEW h \in Nat, NEW m \in Nat \ {0}, NEW q \in Nat, NEW r \in 0 .. m - 1, h = q * m + r
    PROVE  h % m = r
OBVIOUS

LEMMA Around ==
    ASSUME NEW h \in Nat, NEW m \in Nat \ {0}, NEW i \in 0 .. m - 1
    PROVE  (h + i) % m = IF (h % m) + i < m THEN (h % m) + i ELSE (h % m) + i - m
<1>1. h % m \in 0 .. m - 1 /\ h \div m \in Nat
  OBVIOUS
<1>2. PICK q \in Nat, r \in 0 .. m - 1 : h = q * m + r /\ r = h % m
  <2>1. h = (h \div m) * m + (h % m)
    OBVIOUS
  <2> QED BY <1>1, <2>1
<1>3. CASE r + i < m
  <2>1. h + i = q * m + (r + i) /\ r + i \in 0 .. m - 1 /\ h + i \in Nat
    BY <1>2, <1>3
  <2> QED BY <1>2, <1>3, <2>1, Quotient
<1>4. CASE ~(r + i < m)
  <2>1. /\ h + i = (q + 1) * m + (r + i - m) /\ r + i - m \in 0 .. m - 1
        /\ h + i \in Nat /\ q + 1 \in Nat
    BY <1>2, <1>4
  <2> QED BY <1>2, <1>4, <2>1, Quotient
<1> QED BY <1>3, <1>4

\* Probing for a name stays in the table and comes to every slot.
LEMMA ProbeLemma ==
    ASSUME NEW t, t.size \in Nat \ {0}, NEW k \in EntryNames
    PROVE  /\ \A i \in Steps(t) : ProbeAt(t, k, i) \in Steps(t)
           /\ \A n \in Steps(t) : \E i \in Steps(t) : ProbeAt(t, k, i) = n
<1> DEFINE h == HashOf[k]
           m == t.size
           r == h % m
<1>1. h \in Nat /\ m \in Nat \ {0} /\ r \in 0 .. m - 1 /\ Steps(t) = 0 .. m - 1
  BY StoreAssumption DEF Steps
<1>2. \A i \in 0 .. m - 1 : ProbeAt(t, k, i) = IF r + i < m THEN r + i ELSE r + i - m
  <2> TAKE i \in 0 .. m - 1
  <2>1. ProbeAt(t, k, i) = (h + i) % m
    BY DEF ProbeAt
  <2> HIDE DEF h, m
  <2> QED BY <1>1, <2>1, Around
<1> HIDE DEF h, m, r
<1>3. ASSUME NEW n \in 0 .. m - 1
      PROVE  \E i \in 0 .. m - 1 : ProbeAt(t, k, i) = n
  <2>1. CASE n >= r
    <3>1. n - r \in 0 .. m - 1 /\ r + (n - r) = n
      BY <1>1, <2>1
    <3> QED BY <1>1, <1>2, <3>1
  <2>2. CASE n < r
    <3> DEFINE i == n - r + m
    <3>1. i \in 0 .. m - 1 /\ ~(r + i < m) /\ r + i - m = n
      BY <1>1, <2>2
    <3> HIDE DEF i
    <3> QED BY <1>2, <3>1
  <2> QED BY <1>1, <2>1, <2>2
<1>4. \A i \in 0 .. m - 1 : ProbeAt(t, k, i) \in 0 .. m - 1
  BY <1>1, <1>2
<1> QED BY <1>1, <1>3, <1>4

-----------------------------------------------------------------------------
(***************************************************************************)
(* What every operation keeps of a table.                                  *)
(***************************************************************************)
Pair == [k : EntryNames, v : Pointers]
Slot == Pair \cup {LH_EMPTY, LH_FREED}

Shape(t) ==
    /\ DOMAIN t = {"size", "table", "list", "count", "resizes"}
    /\ t.size \in Nat \ {0} /\ t.resizes \in Nat
    /\ t.table \in [Steps(t) -> Slot]
    /\ t.list \in Seq(Steps(t))
    /\ t.count = Len(t.list) /\ t.count <= t.size

\* The list holds the slots in use, each with a name of its own.
Listed(t) == \A n \in Steps(t) : Used(t.table[n]) <=> \E i \in 1 .. Len(t.list) : t.list[i] = n
Once(t) == \A i, j \in 1 .. Len(t.list) : t.table[t.list[i]].k = t.table[t.list[j]].k => i = j

\* Probing for k comes to slot n before it comes to an empty one.
Reached(t, k, n) ==
    \E s \in Steps(t) :
       /\ ProbeAt(t, k, s) = n
       /\ \A g \in 0 .. s - 1 : t.table[ProbeAt(t, k, g)] # LH_EMPTY
Found(t) == \A i \in 1 .. Len(t.list) : Reached(t, t.table[t.list[i]].k, t.list[i])

TableOk(t) == Shape(t) /\ Listed(t) /\ Once(t) /\ Found(t)

LEMMA SlotLemma ==
    ASSUME NEW e \in Slot
    PROVE  /\ Used(e) <=> e.k \in EntryNames
           /\ Used(e) => e \in Pair
BY StoreAssumption DEF Slot, Pair, Used, LH_EMPTY, LH_FREED

LEMMA IntervalLemma ==
    ASSUME NEW n \in Nat
    PROVE  /\ IsFiniteSet(1 .. n) /\ Cardinality(1 .. n) = n
           /\ Cardinality(0 .. n - 1) = n
<1>1. \A a, b \in Int : /\ IsFiniteSet(a .. b)
                         /\ Cardinality(a .. b) = IF a > b THEN 0 ELSE b - a + 1
  BY FS_Interval
<1>2. 1 \in Int /\ 0 \in Int /\ n \in Int /\ n - 1 \in Int
  OBVIOUS
<1>3. Cardinality(1 .. n) = (IF 1 > n THEN 0 ELSE n - 1 + 1) /\ IsFiniteSet(1 .. n)
  BY <1>1, <1>2
<1>4. Cardinality(0 .. n - 1) = IF 0 > n - 1 THEN 0 ELSE n - 1 - 0 + 1
  BY <1>1, <1>2
<1> QED BY <1>2, <1>3, <1>4

LEMMA ListLemma ==
    ASSUME NEW t, TableOk(t)
    PROVE  /\ t.count \in Nat /\ t.list \in Seq(Steps(t))
           /\ Len(t.list) = t.count /\ DOMAIN t.list = 1 .. t.count
           /\ \A i \in 1 .. t.count : /\ t.list[i] \in Steps(t)
                                    /\ Used(t.table[t.list[i]])
                                    /\ t.table[t.list[i]] \in Pair
<1>1. t.count \in Nat /\ t.list \in Seq(Steps(t)) /\ Len(t.list) = t.count
  BY DEF TableOk, Shape
<1>2. DOMAIN t.list = 1 .. t.count /\ \A i \in 1 .. t.count : t.list[i] \in Steps(t)
  BY <1>1
<1>3. ASSUME NEW i \in 1 .. t.count
      PROVE  Used(t.table[t.list[i]]) /\ t.table[t.list[i]] \in Pair
  <2>1. Used(t.table[t.list[i]]) /\ t.table[t.list[i]] \in Slot
    BY <1>1, <1>2 DEF TableOk, Shape, Listed
  <2> QED BY <2>1, SlotLemma
<1> QED BY <1>1, <1>2, <1>3

\* With fewer entries than slots there is a slot to put one.
LEMMA RoomLemma ==
    ASSUME NEW t, Shape(t), Listed(t), t.count < t.size
    PROVE  \E n \in Steps(t) : ~Used(t.table[n])
<1> SUFFICES ASSUME \A n \in Steps(t) : Used(t.table[n])
             PROVE  FALSE
  OBVIOUS
<1> DEFINE S == Steps(t)
           l == Len(t.list)
<1>1. l \in Nat /\ t.size \in Nat /\ l < t.size /\ t.list \in [1 .. l -> S]
  BY DEF Shape
<1>2. \A n \in S : \E i \in 1 .. l : t.list[i] = n
  BY DEF Listed
<1>3. t.list \in Surjection(1 .. l, S)
  BY <1>1, <1>2 DEF Surjection
<1>4. IsFiniteSet(1 .. l) /\ Cardinality(1 .. l) = l /\ Cardinality(S) = t.size
  <2>1. IsFiniteSet(1 .. l) /\ Cardinality(1 .. l) = l
    BY <1>1, IntervalLemma
  <2>2. Cardinality(0 .. t.size - 1) = t.size
    BY <1>1, IntervalLemma
  <2> QED BY <2>1, <2>2 DEF Steps
<1>5. Cardinality(S) <= Cardinality(1 .. l)
  BY <1>3, <1>4, FS_Surjection
<1> QED BY <1>1, <1>4, <1>5

-----------------------------------------------------------------------------
(***************************************************************************)
(* An entry is put into the table.                                         *)
(***************************************************************************)
LEMMA FreeSlot ==
    ASSUME NEW t, Shape(t), Listed(t), t.count < t.size, NEW k \in EntryNames
    PROVE  \E j \in Steps(t) : /\ ~Used(t.table[ProbeAt(t, k, j)])
                               /\ \A g \in 0 .. j - 1 : Used(t.table[ProbeAt(t, k, g)])
<1> DEFINE S == {j \in Steps(t) : ~Used(t.table[ProbeAt(t, k, j)])}
<1>1. t.size \in Nat \ {0}
  BY DEF Shape
<1>2. S # {}
  BY <1>1, RoomLemma, ProbeLemma
<1>3. S \subseteq Nat
  BY <1>1 DEF Steps
<1>4. PICK j \in S : \A i \in S : j <= i
  <2> HIDE DEF S
  <2> QED BY <1>2, <1>3, LeastNumber
<1>5. j \in Steps(t) /\ ~Used(t.table[ProbeAt(t, k, j)])
  OBVIOUS
<1>6. ASSUME NEW g \in 0 .. j - 1 PROVE Used(t.table[ProbeAt(t, k, g)])
  <2>1. g \in Steps(t) /\ ~(j <= g)
    BY <1>1, <1>5 DEF Steps
  <2> QED BY <1>4, <2>1
<1> QED BY <1>5, <1>6

\* u is t with the entry e in slot n, which was not in use.
Placed(t, u, n, e) ==
    /\ n \in Steps(t) /\ ~Used(t.table[n]) /\ Reached(u, e.k, n)
    /\ DOMAIN u = DOMAIN t /\ u.size = t.size /\ u.resizes = t.resizes
    /\ u.count = t.count + 1
    /\ u.table = [t.table EXCEPT ![n] = e]
    /\ u.list = Append(t.list, n)

LEMMA PlaceIs ==
    ASSUME NEW t, Shape(t), Listed(t), t.count < t.size, NEW k \in EntryNames, NEW v \in Pointers
    PROVE  \E n : Placed(t, PlaceEntry(t, k, v), n, [k |-> k, v |-> v])
<1> DEFINE Free(j) == /\ ~Used(t.table[ProbeAt(t, k, j)])
                      /\ \A g \in 0 .. j - 1 : Used(t.table[ProbeAt(t, k, g)])
           i == CHOOSE j \in Steps(t) : Free(j)
           n == ProbeAt(t, k, i)
           e == [k |-> k, v |-> v]
           u == PlaceEntry(t, k, v)
<1>1. i \in Steps(t) /\ Free(i)
  <2>1. \E j \in Steps(t) : Free(j)
    BY FreeSlot
  <2> HIDE DEF Free
  <2> QED BY <2>1
<1>2. u = [t EXCEPT !.table[n] = e, !.list = Append(@, n), !.count = @ + 1]
  BY DEF PlaceEntry
<1> HIDE DEF i, u
<1>3. n \in Steps(t) /\ t.size \in Nat \ {0}
  BY <1>1, ProbeLemma DEF Shape
<1>4. /\ DOMAIN u = DOMAIN t /\ u.size = t.size /\ u.resizes = t.resizes
      /\ u.count = t.count + 1
      /\ u.table = [t.table EXCEPT ![n] = e]
      /\ u.list = Append(t.list, n)
  BY <1>2 DEF Shape
<1>5. Reached(u, k, n)
  <2>1. \A j : ProbeAt(u, k, j) = ProbeAt(t, k, j)
    BY <1>4 DEF ProbeAt
  <2>2. Steps(u) = Steps(t)
    BY <1>4 DEF Steps
  <2>3. ASSUME NEW g \in 0 .. i - 1 PROVE u.table[ProbeAt(t, k, g)] # LH_EMPTY
    <3>1. g \in Steps(t) /\ Used(t.table[ProbeAt(t, k, g)])
      BY <1>1, <1>3 DEF Steps
    <3>2. ProbeAt(t, k, g) \in Steps(t)
      BY <1>3, <3>1, ProbeLemma
    <3>3. ProbeAt(t, k, g) # n
      BY <1>1, <3>1
    <3>4. u.table[ProbeAt(t, k, g)] = t.table[ProbeAt(t, k, g)]
      BY <1>4, <3>2, <3>3 DEF Shape
    <3> QED BY <3>1, <3>4 DEF Used
  <2> QED BY <1>1, <2>1, <2>2, <2>3 DEF Reached
<1>6. e.k = k
  OBVIOUS
<1> HIDE DEF n, e
<1>7. Placed(t, u, n, e)
  BY <1>1, <1>3, <1>4, <1>5, <1>6 DEF Placed, n
<1> QED BY <1>7 DEF u, e

\* The slots that were in use keep their entries, and are still reached.
LEMMA PlaceKeeps ==
    ASSUME NEW t, TableOk(t), t.count < t.size, NEW k \in EntryNames, NEW v \in Pointers,
           k \notin NamesOf(t), NEW n, NEW u, Placed(t, u, n, [k |-> k, v |-> v])
    PROVE  /\ TableOk(u) /\ u.size = t.size /\ u.count = t.count + 1 /\ u.resizes = t.resizes
           /\ Entries(u) = Append(Entries(t), [k |-> k, v |-> v])
           /\ \A m \in Steps(t) : Used(t.table[m]) => u.table[m] = t.table[m]
<1> DEFINE e == [k |-> k, v |-> v]
           l == Len(t.list)
           T == t.list
<1>1. /\ n \in Steps(t) /\ ~Used(t.table[n]) /\ Reached(u, k, n)
      /\ DOMAIN u = DOMAIN t /\ u.size = t.size /\ u.resizes = t.resizes
      /\ u.count = t.count + 1
      /\ u.table = [t.table EXCEPT ![n] = e]
      /\ u.list = Append(T, n)
  BY DEF Placed
<1>2. l \in Nat /\ T \in Seq(Steps(t)) /\ t.table \in [Steps(t) -> Slot] /\ t.size \in Nat \ {0}
      /\ t.count = l /\ \A i \in 1 .. l : T[i] \in Steps(t)
  BY DEF TableOk, Shape
<1>3. /\ u.list \in Seq(Steps(t)) /\ Len(u.list) = l + 1 /\ u.list[l + 1] = n
      /\ \A i \in 1 .. l : u.list[i] = T[i]
  BY <1>1, <1>2, AppendProperties
<1>4. Steps(u) = Steps(t)
  BY <1>1 DEF Steps
<1>5. /\ u.table[n] = e /\ \A m \in Steps(t) : m # n => u.table[m] = t.table[m]
      /\ u.table \in [Steps(t) -> Slot]
  <2>1. e \in Slot
    BY DEF Slot, Pair
  <2> QED BY <1>1, <1>2, <2>1
<1>6. \A i \in 1 .. l : Used(t.table[T[i]]) /\ T[i] # n /\ u.table[T[i]] = t.table[T[i]]
  <2> TAKE i \in 1 .. l
  <2>1. Used(t.table[T[i]])
    BY <1>2 DEF TableOk, Listed
  <2> QED BY <1>1, <1>2, <1>5, <2>1
<1>7. Used(e)
  <2>1. e \in Slot /\ e.k \in EntryNames
    BY DEF Slot, Pair
  <2> QED BY <2>1, SlotLemma
<1>8. Shape(u)
  BY <1>1, <1>2, <1>3, <1>4, <1>5 DEF TableOk, Shape
<1>9. Listed(u)
  <2> SUFFICES ASSUME NEW m \in Steps(t)
               PROVE  Used(u.table[m]) <=> \E i \in 1 .. l + 1 : u.list[i] = m
    BY <1>3, <1>4 DEF Listed
  <2>1. CASE m = n
    BY <1>2, <1>3, <1>5, <1>7, <2>1
  <2>2. CASE m # n
    <3>1. Used(u.table[m]) <=> \E i \in 1 .. l : T[i] = m
      BY <1>5, <2>2 DEF TableOk, Listed
    <3>2. (\E i \in 1 .. l : T[i] = m) => \E i \in 1 .. l + 1 : u.list[i] = m
      BY <1>2, <1>3
    <3>3. (\E i \in 1 .. l + 1 : u.list[i] = m) => \E i \in 1 .. l : T[i] = m
      <4> SUFFICES ASSUME NEW i \in 1 .. l + 1, u.list[i] = m
                   PROVE  \E j \in 1 .. l : T[j] = m
        OBVIOUS
      <4>1. i # l + 1
        BY <1>3, <2>2
      <4>2. i \in 1 .. l
        BY <1>2, <4>1
      <4> QED BY <1>3, <4>2
    <3> QED BY <3>1, <3>2, <3>3
  <2> QED BY <2>1, <2>2
<1>10. Once(u)
  <2>1. \A i \in 1 .. l : t.table[T[i]].k # k
    BY <1>2 DEF NamesOf, Entries
  <2>2. \A i \in 1 .. l : u.table[u.list[i]].k = t.table[T[i]].k
    BY <1>3, <1>6
  <2>3. u.table[u.list[l + 1]].k = k
    BY <1>3, <1>5
  <2>4. \A i, j \in 1 .. l : t.table[T[i]].k = t.table[T[j]].k => i = j
    BY DEF TableOk, Once
  <2>5. \A i \in 1 .. l + 1 : i \in 1 .. l \/ i = l + 1
    BY <1>2
  <2> QED BY <1>3, <2>1, <2>2, <2>3, <2>4, <2>5 DEF Once
<1>11. Found(u)
  <2>1. \A q : \A j : ProbeAt(u, q, j) = ProbeAt(t, q, j)
    BY <1>1 DEF ProbeAt
  <2>2. ASSUME NEW i \in 1 .. l PROVE Reached(u, t.table[T[i]].k, T[i])
    <3> DEFINE q == t.table[T[i]].k
    <3>1. q \in EntryNames
      BY <1>2, <1>6, SlotLemma
    <3>2. PICK s \in Steps(t) : /\ ProbeAt(t, q, s) = T[i]
                                /\ \A g \in 0 .. s - 1 : t.table[ProbeAt(t, q, g)] # LH_EMPTY
      BY DEF TableOk, Found, Reached
    <3> HIDE DEF q
    <3>3. ASSUME NEW g \in 0 .. s - 1 PROVE u.table[ProbeAt(t, q, g)] # LH_EMPTY
      <4>1. g \in Steps(t)
        BY <1>2, <3>2 DEF Steps
      <4>2. ProbeAt(t, q, g) \in Steps(t)
        BY <1>2, <3>1, <4>1, ProbeLemma
      <4>3. u.table[n] # LH_EMPTY
        BY <1>5, <1>7 DEF Used
      <4> QED BY <1>5, <3>2, <4>2, <4>3
    <3>4. Reached(u, q, T[i])
      BY <1>4, <2>1, <3>2, <3>3 DEF Reached
    <3> QED BY <3>4 DEF q
  <2>3. \A i \in 1 .. l + 1 : i \in 1 .. l \/ i = l + 1
    BY <1>2
  <2>4. ASSUME NEW i \in 1 .. l + 1 PROVE Reached(u, u.table[u.list[i]].k, u.list[i])
    <3>1. CASE i \in 1 .. l
      BY <1>3, <1>6, <2>2, <3>1
    <3>2. CASE i = l + 1
      BY <1>1, <1>3, <1>5, <3>2
    <3> QED BY <2>3, <3>1, <3>2
  <2> QED BY <1>3, <2>4 DEF Found
<1>12. Entries(u) = Append(Entries(t), e)
  <2> DEFINE E == Entries(t)
             A == Entries(u)
  <2>1. E = [i \in 1 .. l |-> t.table[T[i]]] /\ A = [i \in 1 .. l + 1 |-> u.table[u.list[i]]]
    BY <1>2, <1>3 DEF Entries
  <2>2. E \in Seq(Slot) /\ Len(E) = l /\ e \in Slot
    BY <1>2, <2>1 DEF Slot, Pair
  <2> HIDE DEF E, A, e
  <2>3. /\ Append(E, e) \in Seq(Slot) /\ Len(Append(E, e)) = l + 1
        /\ \A i \in 1 .. l : Append(E, e)[i] = E[i]
        /\ Append(E, e)[l + 1] = e
    BY <2>2, AppendProperties
  <2>4. ASSUME NEW i \in 1 .. l + 1 PROVE A[i] = Append(E, e)[i]
    <3>1. CASE i \in 1 .. l
      BY <1>3, <1>6, <2>1, <2>3, <3>1
    <3>2. CASE i = l + 1
      BY <1>3, <1>5, <2>1, <2>3, <3>2
    <3>3. i \in 1 .. l \/ i = l + 1
      BY <1>2
    <3> QED BY <3>1, <3>2, <3>3
  <2>5. A \in Seq(Slot) /\ Len(A) = l + 1
    <3>1. \A i \in 1 .. l + 1 : u.list[i] \in Steps(t)
      BY <1>3
    <3>2. A \in [1 .. l + 1 -> Slot] /\ l + 1 \in Nat
      BY <1>2, <1>5, <2>1, <3>1
    <3> QED BY <3>2
  <2>6. A = Append(E, e)
    BY <2>3, <2>4, <2>5, SeqEqual
  <2> QED BY <2>6 DEF A, E
<1>13. \A m \in Steps(t) : Used(t.table[m]) => u.table[m] = t.table[m]
  BY <1>1, <1>5
<1> QED BY <1>1, <1>8, <1>9, <1>10, <1>11, <1>12, <1>13 DEF TableOk

-----------------------------------------------------------------------------
(***************************************************************************)
(* A new table, and the move to a larger one.                              *)
(***************************************************************************)
LEMMA NewTable ==
    ASSUME NEW size \in Nat \ {0}
    PROVE  /\ TableOk(lh_table_new(size)) /\ Entries(lh_table_new(size)) = <<>>
           /\ lh_table_new(size).size = size /\ lh_table_new(size).count = 0
           /\ lh_table_new(size).resizes = 0
<1> DEFINE t == lh_table_new(size)
<1>1. /\ DOMAIN t = {"size", "table", "list", "count", "resizes"}
      /\ t.size = size /\ t.table = [n \in 0 .. size - 1 |-> LH_EMPTY] /\ t.list = <<>>
      /\ t.count = 0 /\ t.resizes = 0
  BY DEF lh_table_new
<1> HIDE DEF t
<1>2. Steps(t) = 0 .. size - 1 /\ \A n \in Steps(t) : ~Used(t.table[n])
  BY <1>1 DEF Steps, Used
<1>3. t.table \in [Steps(t) -> Slot] /\ t.list \in Seq(Steps(t)) /\ Len(t.list) = 0
  BY <1>1, <1>2 DEF Slot
<1>4. Shape(t)
  BY <1>1, <1>3 DEF Shape
<1>5. \A i \in 1 .. Len(t.list) : FALSE
  BY <1>3
<1>6. TableOk(t)
  BY <1>2, <1>4, <1>5 DEF TableOk, Listed, Once, Found
<1>7. Entries(t) = <<>>
  BY <1>1, <1>3 DEF Entries
<1> QED BY <1>1, <1>6, <1>7 DEF t

\* The number of moves plays no part in it.
LEMMA Counted ==
    ASSUME NEW t, TableOk(t), NEW u, DOMAIN u = DOMAIN t, u.size = t.size,
           u.table = t.table, u.list = t.list, u.count = t.count, u.resizes \in Nat
    PROVE  TableOk(u) /\ Entries(u) = Entries(t)
<1>2. Steps(u) = Steps(t) /\ \A k, i : ProbeAt(u, k, i) = ProbeAt(t, k, i)
  BY DEF Steps, ProbeAt
<1>3. Shape(u)
  BY <1>2 DEF TableOk, Shape
<1>4. Listed(u) /\ Once(u)
  BY <1>2 DEF TableOk, Listed, Once
<1>5. Found(u)
  BY <1>2 DEF TableOk, Found, Reached
<1>6. Entries(u) = Entries(t)
  BY DEF Entries
<1> QED BY <1>3, <1>4, <1>5, <1>6 DEF TableOk

\* The entries have names of their own.
LEMMA EntriesLemma ==
    ASSUME NEW t, TableOk(t)
    PROVE  /\ Entries(t) \in Seq(Pair) /\ Len(Entries(t)) = t.count
           /\ \A i, j \in 1 .. t.count : Entries(t)[i].k = Entries(t)[j].k => i = j
<1> DEFINE l == Len(t.list)
<1>1. l \in Nat /\ t.count = l /\ \A i \in 1 .. l : t.list[i] \in Steps(t)
  BY DEF TableOk, Shape
<1>2. Entries(t) = [i \in 1 .. l |-> t.table[t.list[i]]]
  BY DEF TableOk, Shape, Entries
<1>3. \A i \in 1 .. l : t.table[t.list[i]] \in Pair
  <2> TAKE i \in 1 .. l
  <2>1. Used(t.table[t.list[i]]) /\ t.table[t.list[i]] \in Slot
    BY <1>1 DEF TableOk, Shape, Listed
  <2> QED BY <2>1, SlotLemma
<1>4. Entries(t) \in Seq(Pair) /\ Len(Entries(t)) = l
  <2>1. Entries(t) \in [1 .. l -> Pair]
    BY <1>2, <1>3
  <2> QED BY <1>1, <2>1
<1>5. \A i, j \in 1 .. l : Entries(t)[i].k = Entries(t)[j].k => i = j
  BY <1>2 DEF TableOk, Once
<1> HIDE DEF l
<1> QED BY <1>1, <1>4, <1>5

\* All entries move, in their order.
LEMMA ResizeLemma ==
    ASSUME NEW t, TableOk(t), NEW s \in Nat \ {0}, t.count < s
    PROVE  LET u == lh_table_resize(t, s)
           IN  /\ TableOk(u) /\ Entries(u) = Entries(t) /\ u.size = s /\ u.count = t.count
               /\ u.resizes = t.resizes + 1
<1> DEFINE E == Entries(t)
           l == t.count
           base == lh_table_new(s)
           F == FoldLeft(MoveEntry, base, E)
           Ready(x, j) == /\ TableOk(x) /\ x.size = s /\ x.count = j
                          /\ \A i \in 1 .. j : Entries(x)[i] = E[i]
<1>1. /\ E \in Seq(Pair) /\ Len(E) = l /\ l \in Nat /\ DOMAIN E = 1 .. l
      /\ \A i, j \in 1 .. l : E[i].k = E[j].k => i = j
      /\ l < s
  <2>1. l \in Nat
    BY DEF TableOk, Shape
  <2>2. /\ E \in Seq(Pair) /\ Len(E) = l
        /\ \A i, j \in 1 .. l : E[i].k = E[j].k => i = j
    BY EntriesLemma
  <2> HIDE DEF E
  <2> QED BY <2>1, <2>2
<1>2. Moving!FoldLeft(MoveEntry, base, E) = F
  BY DEF Moving!FoldLeft, Moving!MapThenFoldSet, Moving!Max, FoldLeft, MapThenFoldSet, Max
<1> HIDE DEF E, l, base, F
<1>a. PICK h : Moving!Trace(h, base, E, l) /\ h[l] = Moving!FoldLeft(MoveEntry, base, E)
  BY <1>1, Moving!FoldTrace
<1>3. h[0] = base /\ \A j \in 1 .. l : h[j] = MoveEntry(h[j - 1], E[j])
  BY <1>a DEF Moving!Trace
<1>4. Ready(h[0], 0)
  BY <1>3, NewTable DEF base
<1>5. ASSUME NEW j \in Nat, j + 1 <= l, Ready(h[j], j)
      PROVE  Ready(h[j + 1], j + 1)
  <2> DEFINE x == h[j]
             y == h[j + 1]
             k == E[j + 1].k
             v == E[j + 1].v
  <2>1. j + 1 \in 1 .. l /\ (j + 1) - 1 = j
    BY <1>1, <1>5
  <2>2. y = PlaceEntry(x, k, v)
    BY <1>3, <2>1 DEF MoveEntry
  <2>3. k \in EntryNames /\ v \in Pointers /\ E[j + 1] = [k |-> k, v |-> v]
    <3>1. E[j + 1] \in Pair
      BY <1>1, <2>1
    <3> QED BY <3>1 DEF Pair
  <2>4. TableOk(x) /\ x.size = s /\ x.count = j /\ \A i \in 1 .. j : Entries(x)[i] = E[i]
    BY <1>5
  <2> HIDE DEF x, y, k, v
  <2>5. x.count < x.size /\ Len(x.list) = j /\ DOMAIN x.list = 1 .. j
    <3>1. Len(x.list) = j /\ DOMAIN x.list = 1 .. j
      BY <2>4, ListLemma
    <3> QED BY <1>1, <1>5, <2>4, <3>1
  <2>6. k \notin NamesOf(x)
    <3> SUFFICES ASSUME NEW i \in 1 .. j, Entries(x)[i].k = k PROVE FALSE
      BY <2>5 DEF NamesOf
    <3>1. E[i].k = E[j + 1].k
      BY <2>4 DEF k
    <3>2. i \in 1 .. l /\ i # j + 1
      BY <1>1, <2>1
    <3> QED BY <1>1, <2>1, <3>1, <3>2
  <2>7. PICK n : Placed(x, y, n, [k |-> k, v |-> v])
    BY <2>2, <2>3, <2>4, <2>5, PlaceIs DEF TableOk
  <2>8. /\ TableOk(y) /\ y.size = s /\ y.count = j + 1
        /\ Entries(y) = Append(Entries(x), E[j + 1])
    BY <2>3, <2>4, <2>5, <2>6, <2>7, PlaceKeeps
  <2>9. Entries(x) \in Seq(Pair) /\ Len(Entries(x)) = j
    BY <2>4, EntriesLemma
  <2>10. E[j + 1] \in Pair
    BY <1>1, <2>1
  <2>11. /\ \A i \in 1 .. j : Append(Entries(x), E[j + 1])[i] = Entries(x)[i]
         /\ Append(Entries(x), E[j + 1])[j + 1] = E[j + 1]
    BY <2>9, <2>10, AppendProperties
  <2>12. ASSUME NEW i \in 1 .. j + 1 PROVE Entries(y)[i] = E[i]
    <3>1. i \in 1 .. j \/ i = j + 1
      OBVIOUS
    <3> QED BY <2>4, <2>8, <2>11, <3>1
  <2> QED BY <2>8, <2>12 DEF y
<1>6. Ready(h[l], l)
  <2> DEFINE T == {j \in Nat : j <= l => Ready(h[j], j)}
  <2> HIDE DEF Ready
  <2>1. 0 \in T
    BY <1>4
  <2>2. ASSUME NEW j \in Nat, j \in T PROVE j + 1 \in T
    BY <1>1, <1>5, <2>2
  <2>3. Nat \subseteq T
    <3> HIDE DEF T
    <3> QED BY <2>1, <2>2, Moving!NatSet
  <2> QED BY <1>1, <2>3
<1>7. TableOk(F) /\ F.size = s /\ F.count = l /\ \A i \in 1 .. l : Entries(F)[i] = E[i]
  BY <1>2, <1>a, <1>6
<1>8. Entries(F) = E
  <2>1. Entries(F) \in Seq(Pair) /\ Len(Entries(F)) = l
    BY <1>7, EntriesLemma
  <2> QED BY <1>1, <1>7, <2>1, SeqEqual
<1>9. lh_table_resize(t, s) = [F EXCEPT !.count = t.count, !.resizes = t.resizes + 1]
  BY DEF lh_table_resize, F, base, E
<1>10. t.resizes + 1 \in Nat
  BY DEF TableOk, Shape
<1>11. lh_table_resize(t, s) = [F EXCEPT !.count = F.count, !.resizes = t.resizes + 1]
  BY <1>7, <1>9 DEF l
<1> DEFINE u == lh_table_resize(t, s)
<1>12. /\ TableOk(u) /\ Entries(u) = Entries(F) /\ u.size = F.size /\ u.count = F.count
       /\ u.resizes = t.resizes + 1
  <2>1. /\ DOMAIN u = DOMAIN F /\ u.size = F.size /\ u.table = F.table /\ u.list = F.list
        /\ u.count = F.count /\ u.resizes = t.resizes + 1
    BY <1>7, <1>11 DEF TableOk, Shape
  <2> HIDE DEF u
  <2> QED BY <1>7, <1>10, <2>1, Counted
<1> HIDE DEF u
<1> QED BY <1>7, <1>8, <1>12 DEF E, l, u

-----------------------------------------------------------------------------
(***************************************************************************)
(* Entries are found, changed and deleted.                                 *)
(***************************************************************************)
\* An entry is found by its name; what is found is on the list.
LEMMA LookupLemma ==
    ASSUME NEW t, TableOk(t), NEW k \in EntryNames
    PROVE  LET n == lh_table_lookup_entry(t, k)
           IN  IF k \in NamesOf(t)
               THEN \E i \in 1 .. t.count : t.list[i] = n /\ Entries(t)[i].k = k
               ELSE n = -1
<1> DEFINE n == lh_table_lookup_entry(t, k)
           hits == {i \in Steps(t) : /\ t.table[ProbeAt(t, k, i)].k = k
                                     /\ \A g \in 0 .. i - 1 : t.table[ProbeAt(t, k, g)] # LH_EMPTY}
           first == CHOOSE i \in hits : \A j \in hits : i <= j
<1>1. n = IF hits = {} THEN -1 ELSE ProbeAt(t, k, first)
  BY DEF lh_table_lookup_entry
<1>2. t.size \in Nat \ {0} /\ t.table \in [Steps(t) -> Slot]
  BY DEF TableOk, Shape
<1>3. NamesOf(t) = {Entries(t)[i].k : i \in 1 .. t.count}
      /\ \A i \in 1 .. t.count : Entries(t)[i] = t.table[t.list[i]]
  BY ListLemma DEF NamesOf, Entries
<1>4. ASSUME NEW i \in hits
      PROVE  \E j \in 1 .. t.count : t.list[j] = ProbeAt(t, k, i) /\ Entries(t)[j].k = k
  <2> DEFINE p == ProbeAt(t, k, i)
  <2>1. i \in Steps(t) /\ t.table[p].k = k
    OBVIOUS
  <2>2. p \in Steps(t)
    BY <1>2, <2>1, ProbeLemma
  <2> HIDE DEF p
  <2>3. Used(t.table[p])
    BY <1>2, <2>1, <2>2, SlotLemma
  <2>4. PICK j \in 1 .. t.count : t.list[j] = p
    BY <2>2, <2>3, ListLemma DEF TableOk, Listed
  <2> QED BY <1>3, <2>1, <2>4 DEF p
<1>5. CASE k \in NamesOf(t)
  <2>1. PICK i \in 1 .. t.count : Entries(t)[i].k = k
    BY <1>3, <1>5
  <2>2. Reached(t, k, t.list[i])
    BY <1>3, <2>1, ListLemma DEF TableOk, Found
  <2>3. t.table[t.list[i]].k = k
    BY <1>3, <2>1
  <2>4. hits # {}
    BY <2>2, <2>3 DEF Reached
  <2>5. hits \subseteq Nat
    BY <1>2 DEF Steps
  <2>6. first \in hits
    <3> HIDE DEF hits
    <3>1. \E a \in hits : \A b \in hits : a <= b
      BY <2>4, <2>5, LeastNumber
    <3> QED BY <3>1
  <2>7. n = ProbeAt(t, k, first)
    BY <1>1, <2>4
  <2> HIDE DEF n, hits, first
  <2>8. \E j \in 1 .. t.count : t.list[j] = n /\ Entries(t)[j].k = k
    BY <1>4, <2>6, <2>7
  <2> QED BY <1>5, <2>8 DEF n
<1>6. CASE k \notin NamesOf(t)
  <2>1. hits = {}
    <3> HIDE DEF hits
    <3> QED BY <1>3, <1>4, <1>6
  <2>2. n = -1
    BY <1>1, <2>1
  <2> HIDE DEF n
  <2> QED BY <1>6, <2>2 DEF n
<1> QED BY <1>5, <1>6

\* What is left of a sequence.
LEMMA RemoveLemma ==
    ASSUME NEW S, NEW s \in Seq(S), NEW i \in 1 .. Len(s)
    PROVE  /\ RemoveAt(s, i) \in Seq(S) /\ Len(RemoveAt(s, i)) = Len(s) - 1
           /\ \A j \in 1 .. Len(s) - 1 : RemoveAt(s, i)[j] = IF j < i THEN s[j] ELSE s[j + 1]
<1> DEFINE a == SubSeq(s, 1, i - 1)
           b == SubSeq(s, i + 1, Len(s))
           l == Len(s)
<1>1. l \in Nat /\ \A j \in 1 .. l : s[j] \in S
  OBVIOUS
<1>2. 1 \in Int /\ i - 1 \in Int /\ \A j \in 1 .. i - 1 : s[j] \in S
  BY <1>1
<1>3. i + 1 \in Int /\ l \in Int /\ \A j \in i + 1 .. l : s[j] \in S
  BY <1>1
<1>4. /\ a \in Seq(S) /\ Len(a) = (IF 1 <= i - 1 THEN i - 1 - 1 + 1 ELSE 0)
      /\ \A j \in 1 .. i - 1 - 1 + 1 : a[j] = s[1 + j - 1]
  BY <1>2, SubSeqProperties
<1>5. /\ b \in Seq(S) /\ Len(b) = (IF i + 1 <= l THEN l - (i + 1) + 1 ELSE 0)
      /\ \A j \in 1 .. l - (i + 1) + 1 : b[j] = s[(i + 1) + j - 1]
  BY <1>3, SubSeqProperties
<1>6. RemoveAt(s, i) = a \o b
  BY DEF RemoveAt
<1> HIDE DEF a, b
<1>7. /\ a \o b \in Seq(S) /\ Len(a \o b) = Len(a) + Len(b)
      /\ \A j \in 1 .. Len(a) + Len(b) : (a \o b)[j] = IF j <= Len(a) THEN a[j] ELSE b[j - Len(a)]
  BY <1>4, <1>5, ConcatProperties
<1>8. Len(a) = i - 1 /\ Len(b) = l - i
  BY <1>1, <1>4, <1>5
<1> DEFINE r == RemoveAt(s, i)
<1>9. /\ r \in Seq(S) /\ Len(r) = l - 1
      /\ \A j \in 1 .. l - 1 : r[j] = IF j <= i - 1 THEN a[j] ELSE b[j - (i - 1)]
  BY <1>1, <1>6, <1>7, <1>8
<1> HIDE DEF r
<1>10. ASSUME NEW j \in 1 .. l - 1 PROVE r[j] = IF j < i THEN s[j] ELSE s[j + 1]
  <2>1. CASE j < i
    <3>1. r[j] = a[j]
      BY <1>9, <2>1
    <3>2. a[j] = s[1 + j - 1] /\ 1 + j - 1 = j
      BY <1>4, <2>1
    <3> QED BY <2>1, <3>1, <3>2
  <2>2. CASE ~(j < i)
    <3> DEFINE m == j - (i - 1)
    <3>1. r[j] = b[m] /\ m \in 1 .. l - (i + 1) + 1 /\ (i + 1) + m - 1 = j + 1
      BY <1>1, <1>9, <2>2
    <3>2. b[m] = s[(i + 1) + m - 1]
      BY <1>5, <3>1
    <3> QED BY <2>2, <3>1, <3>2
  <2> QED BY <2>1, <2>2
<1> QED BY <1>9, <1>10 DEF r

\* A deleted entry leaves a tombstone, so that probing goes on past it.
LEMMA DeleteLemma ==
    ASSUME NEW t, TableOk(t), NEW i \in 1 .. t.count, NEW u,
           u = lh_table_delete_entry(t, t.list[i])
    PROVE  /\ TableOk(u) /\ u.size = t.size /\ u.resizes = t.resizes /\ u.count = t.count - 1
           /\ u.list = RemoveAt(t.list, i) /\ Entries(u) = RemoveAt(Entries(t), i)
           /\ \A m \in Steps(t) : m # t.list[i] => u.table[m] = t.table[m]
<1> DEFINE T == t.list
           l == t.count
           n == T[i]
           R == RemoveAt(T, i)
           Old(j) == IF j < i THEN j ELSE j + 1
<1>1. /\ l \in Nat /\ T \in Seq(Steps(t)) /\ Len(T) = l /\ DOMAIN T = 1 .. l
      /\ n \in Steps(t) /\ Used(t.table[n])
  BY ListLemma
<1>2. \A p, q \in 1 .. l : T[p] = T[q] => p = q
  BY ListLemma DEF TableOk, Once
<1>3. Unlink(T, n) = R
  <2>1. (CHOOSE j \in DOMAIN T : T[j] = n) = i
    BY <1>1, <1>2
  <2> QED BY <2>1 DEF Unlink
<1>4. /\ R \in Seq(Steps(t)) /\ Len(R) = l - 1
      /\ \A j \in 1 .. l - 1 : R[j] = T[Old(j)] /\ Old(j) \in 1 .. l /\ Old(j) # i
  <2>1. i \in 1 .. Len(T)
    BY <1>1
  <2>2. /\ R \in Seq(Steps(t)) /\ Len(R) = l - 1
        /\ \A j \in 1 .. l - 1 : R[j] = IF j < i THEN T[j] ELSE T[j + 1]
    BY <1>1, <2>1, RemoveLemma
  <2> QED BY <1>1, <2>2
<1>5. \A p \in 1 .. l : p # i => \E j \in 1 .. l - 1 : p = Old(j)
  <2> SUFFICES ASSUME NEW p \in 1 .. l, p # i PROVE \E j \in 1 .. l - 1 : p = Old(j)
    OBVIOUS
  <2>1. CASE p < i
    BY <1>1, <2>1
  <2>2. CASE p > i
    <3>1. p - 1 \in 1 .. l - 1 /\ p = Old(p - 1)
      BY <1>1, <2>2
    <3> QED BY <3>1
  <2> QED BY <1>1, <2>1, <2>2
<1>6. \A p, q \in 1 .. l - 1 : Old(p) = Old(q) => p = q
  BY <1>1
<1>7. /\ DOMAIN u = DOMAIN t /\ u.size = t.size /\ u.resizes = t.resizes /\ u.count = l - 1
      /\ u.table = [t.table EXCEPT ![n] = LH_FREED] /\ u.list = R
  BY <1>3 DEF lh_table_delete_entry, TableOk, Shape
<1> HIDE DEF n, R, Old
<1>8. t.size \in Nat \ {0} /\ t.table \in [Steps(t) -> Slot] /\ l <= t.size /\ t.resizes \in Nat
      /\ DOMAIN t = {"size", "table", "list", "count", "resizes"}
  BY DEF TableOk, Shape
<1>9. Steps(u) = Steps(t) /\ \A k, j : ProbeAt(u, k, j) = ProbeAt(t, k, j)
  BY <1>7 DEF Steps, ProbeAt
<1>10. /\ u.table \in [Steps(t) -> Slot] /\ u.table[n] = LH_FREED
       /\ \A m \in Steps(t) : m # n => u.table[m] = t.table[m]
  BY <1>1, <1>7, <1>8 DEF Slot
<1>11. Shape(u)
  <2>1. l - 1 \in Nat /\ l - 1 <= u.size
    BY <1>1, <1>7, <1>8
  <2> QED BY <1>4, <1>7, <1>8, <1>9, <1>10, <2>1 DEF Shape
<1>12. \A j \in 1 .. l - 1 : /\ R[j] \in Steps(t) /\ R[j] # n
                            /\ u.table[R[j]] = t.table[T[Old(j)]]
  <2> TAKE j \in 1 .. l - 1
  <2>1. R[j] = T[Old(j)] /\ Old(j) \in 1 .. l /\ Old(j) # i
    BY <1>4
  <2>2. R[j] # n
    BY <1>2, <2>1 DEF n
  <2>3. R[j] \in Steps(t)
    BY <2>1, ListLemma
  <2> QED BY <1>10, <2>1, <2>2, <2>3
<1>13. Listed(u)
  <2> SUFFICES ASSUME NEW m \in Steps(t)
               PROVE  Used(u.table[m]) <=> \E j \in 1 .. l - 1 : R[j] = m
    BY <1>4, <1>7, <1>9 DEF Listed
  <2>1. CASE m = n
    <3>1. ~Used(u.table[m])
      BY <1>10, <2>1 DEF Used
    <3> QED BY <1>12, <2>1, <3>1
  <2>2. CASE m # n
    <3>1. Used(u.table[m]) <=> \E p \in 1 .. l : T[p] = m
      BY <1>1, <1>10, <2>2 DEF TableOk, Listed
    <3>2. \A p \in 1 .. l : T[p] = m => p # i
      BY <2>2 DEF n
    <3> QED BY <1>4, <1>5, <3>1, <3>2
  <2> QED BY <2>1, <2>2
<1>14. Once(u)
  <2>1. \A p, q \in 1 .. l : t.table[T[p]].k = t.table[T[q]].k => p = q
    BY <1>1 DEF TableOk, Once
  <2>2. ASSUME NEW p \in 1 .. l - 1, NEW q \in 1 .. l - 1, u.table[R[p]].k = u.table[R[q]].k
        PROVE  Old(p) = Old(q)
    <3>1. Old(p) \in 1 .. l /\ Old(q) \in 1 .. l
      BY <1>4
    <3>2. t.table[T[Old(p)]].k = t.table[T[Old(q)]].k
      BY <1>12, <2>2
    <3> QED BY <2>1, <3>1, <3>2
  <2> QED BY <1>4, <1>6, <1>7, <2>2 DEF Once
<1>15. Found(u)
  <2> SUFFICES ASSUME NEW j \in 1 .. l - 1
               PROVE  Reached(u, u.table[R[j]].k, R[j])
    BY <1>4, <1>7 DEF Found
  <2> DEFINE p == Old(j)
             k == t.table[T[p]].k
  <2>1. p \in 1 .. l /\ R[j] = T[p] /\ u.table[R[j]].k = k
    BY <1>4, <1>12
  <2>2. k \in EntryNames
    BY <2>1, ListLemma DEF Pair
  <2> HIDE DEF p
  <2>3. PICK s \in Steps(t) : /\ ProbeAt(t, k, s) = T[p]
                              /\ \A g \in 0 .. s - 1 : t.table[ProbeAt(t, k, g)] # LH_EMPTY
    BY <1>1, <2>1 DEF TableOk, Found, Reached
  <2> HIDE DEF k
  <2>4. ASSUME NEW g \in 0 .. s - 1 PROVE u.table[ProbeAt(t, k, g)] # LH_EMPTY
    <3>1. g \in Steps(t)
      BY <1>8, <2>3 DEF Steps
    <3>2. ProbeAt(t, k, g) \in Steps(t)
      BY <1>8, <2>2, <3>1, ProbeLemma
    <3>3. LH_FREED # LH_EMPTY
      BY DEF LH_FREED, LH_EMPTY
    <3> QED BY <1>10, <2>3, <3>2, <3>3
  <2> QED BY <1>9, <2>1, <2>3, <2>4 DEF Reached
<1>16. Entries(u) = RemoveAt(Entries(t), i)
  <2> DEFINE E == Entries(t)
             A == Entries(u)
             B == RemoveAt(E, i)
  <2>1. TableOk(u)
    BY <1>11, <1>13, <1>14, <1>15 DEF TableOk
  <2>2. A \in Seq(Pair) /\ Len(A) = l - 1
    BY <1>7, <2>1, EntriesLemma
  <2>3. E \in Seq(Pair) /\ Len(E) = l
    BY EntriesLemma
  <2>4. \A j \in 1 .. l : E[j] = t.table[T[j]]
    BY <1>1 DEF Entries
  <2>5. \A j \in 1 .. l - 1 : A[j] = u.table[R[j]]
    BY <1>4, <1>7 DEF Entries
  <2> HIDE DEF E, A
  <2>6. /\ B \in Seq(Pair) /\ Len(B) = l - 1
        /\ \A j \in 1 .. l - 1 : B[j] = IF j < i THEN E[j] ELSE E[j + 1]
    BY <2>3, RemoveLemma
  <2> HIDE DEF B
  <2>7. \A j \in 1 .. l - 1 : A[j] = B[j]
    BY <1>4, <1>12, <2>4, <2>5, <2>6 DEF Old
  <2>8. A = B
    BY <2>2, <2>6, <2>7, SeqEqual
  <2> QED BY <2>8 DEF A, B, E
<1> QED BY <1>7, <1>10, <1>11, <1>13, <1>14, <1>15, <1>16 DEF TableOk, n, R

\* The pairs of q with v as the value of the i-th.
Changed(q, i, v) == [j \in DOMAIN q |-> IF j = i THEN [k |-> q[i].k, v |-> v] ELSE q[j]]

\* A value is changed where its entry stands.
LEMMA ChangeLemma ==
    ASSUME NEW t, TableOk(t), NEW i \in 1 .. t.count, NEW v \in Pointers, NEW u,
           u = [t EXCEPT !.table[t.list[i]].v = v]
    PROVE  /\ TableOk(u) /\ u.size = t.size /\ u.resizes = t.resizes /\ u.count = t.count
           /\ u.list = t.list /\ Entries(u) = Changed(Entries(t), i, v)
           /\ \A m \in Steps(t) : u.table[m].k = t.table[m].k
<1> DEFINE n == t.list[i]
           e == t.table[n]
           d == [k |-> e.k, v |-> v]
<1>1. /\ t.count \in Nat /\ DOMAIN t.list = 1 .. t.count /\ n \in Steps(t) /\ Used(e) /\ e \in Pair
      /\ Len(t.list) = t.count
  BY ListLemma
<1>2. [e EXCEPT !.v = v] = d /\ d \in Pair
  BY <1>1 DEF Pair
<1>3. t.size \in Nat \ {0} /\ t.table \in [Steps(t) -> Slot]
  BY DEF TableOk, Shape
<1>4. /\ DOMAIN u = DOMAIN t /\ u.size = t.size /\ u.resizes = t.resizes /\ u.count = t.count
      /\ u.list = t.list /\ u.table = [t.table EXCEPT ![n] = [e EXCEPT !.v = v]]
  BY DEF TableOk, Shape
<1>5. Used(d) /\ d.k = e.k /\ d \in Slot
  <2>1. d \in Slot /\ d.k \in EntryNames /\ d.k = e.k
    BY <1>1, <1>2 DEF Slot, Pair
  <2> QED BY <2>1, SlotLemma
<1>6. u.table = [t.table EXCEPT ![n] = d]
  BY <1>2, <1>4
<1> HIDE DEF d
<1>7. /\ u.table \in [Steps(t) -> Slot] /\ u.table[n] = d
      /\ \A m \in Steps(t) : m # n => u.table[m] = t.table[m]
  BY <1>1, <1>3, <1>5, <1>6
<1> HIDE DEF n, e
<1>8. \A m \in Steps(t) : /\ u.table[m].k = t.table[m].k
                          /\ Used(u.table[m]) <=> Used(t.table[m])
                          /\ u.table[m] = LH_EMPTY => t.table[m] = LH_EMPTY
  <2> TAKE m \in Steps(t)
  <2>1. CASE m = n
    BY <1>1, <1>5, <1>7, <2>1 DEF e, Used
  <2>2. CASE m # n
    BY <1>7, <2>2
  <2> QED BY <2>1, <2>2
<1>9. Steps(u) = Steps(t) /\ \A k, j : ProbeAt(u, k, j) = ProbeAt(t, k, j)
  BY <1>4 DEF Steps, ProbeAt
<1>10. Shape(u)
  BY <1>4, <1>7, <1>9 DEF TableOk, Shape
<1>11. \A j \in 1 .. t.count : t.list[j] \in Steps(t) /\ t.table[t.list[j]].k \in EntryNames
  BY ListLemma DEF Pair
<1>12. Listed(u)
  BY <1>4, <1>8, <1>9 DEF TableOk, Listed
<1>13. Once(u)
  <2>1. \A p, q \in 1 .. t.count : t.table[t.list[p]].k = t.table[t.list[q]].k => p = q
    BY <1>1 DEF TableOk, Once
  <2>2. \A p \in 1 .. t.count : u.table[t.list[p]].k = t.table[t.list[p]].k
    BY <1>8, <1>11
  <2>3. Len(u.list) = t.count /\ u.list = t.list
    BY <1>1, <1>4
  <2> QED BY <2>1, <2>2, <2>3 DEF Once
<1>14. Found(u)
  <2> SUFFICES ASSUME NEW j \in 1 .. t.count
               PROVE  Reached(u, u.table[t.list[j]].k, t.list[j])
    BY <1>1, <1>4 DEF Found
  <2> DEFINE k == t.table[t.list[j]].k
  <2>1. k \in EntryNames /\ u.table[t.list[j]].k = k
    BY <1>8, <1>11
  <2>2. PICK s \in Steps(t) : /\ ProbeAt(t, k, s) = t.list[j]
                              /\ \A g \in 0 .. s - 1 : t.table[ProbeAt(t, k, g)] # LH_EMPTY
    BY <1>1 DEF TableOk, Found, Reached
  <2> HIDE DEF k
  <2>3. ASSUME NEW g \in 0 .. s - 1 PROVE u.table[ProbeAt(t, k, g)] # LH_EMPTY
    <3>1. g \in Steps(t)
      BY <1>3, <2>2 DEF Steps
    <3>2. ProbeAt(t, k, g) \in Steps(t)
      BY <1>3, <2>1, <3>1, ProbeLemma
    <3> QED BY <1>8, <2>2, <3>2
  <2> QED BY <1>9, <2>1, <2>2, <2>3 DEF Reached
<1>15. Entries(u) = Changed(Entries(t), i, v)
  <2>1. \A j \in 1 .. t.count : t.list[j] = n => j = i
    BY <1>1 DEF TableOk, Once, n
  <2>2. Entries(t) = [j \in 1 .. t.count |-> t.table[t.list[j]]]
    BY <1>1 DEF Entries
  <2>3. Entries(u) = [j \in 1 .. t.count |-> u.table[t.list[j]]]
    BY <1>1, <1>4 DEF Entries
  <2>4. \A j \in 1 .. t.count : u.table[t.list[j]] = IF j = i THEN d ELSE t.table[t.list[j]]
    BY <1>7, <1>11, <2>1 DEF n
  <2>5. d = [k |-> Entries(t)[i].k, v |-> v]
    BY <2>2 DEF d, e, n
  <2>6. Changed(Entries(t), i, v) = [j \in 1 .. t.count |-> IF j = i THEN d ELSE t.table[t.list[j]]]
    BY <2>2, <2>5 DEF Changed
  <2> QED BY <2>3, <2>4, <2>6
<1> QED BY <1>4, <1>8, <1>10, <1>12, <1>13, <1>14, <1>15 DEF TableOk

\* A new name comes last, in a larger table if it must.
LEMMA InsertLemma ==
    ASSUME NEW t, TableOk(t), NEW k \in EntryNames, k \notin NamesOf(t), NEW v \in Pointers, NEW u,
           u = lh_table_insert(t, k, v)
    PROVE  /\ TableOk(u) /\ Entries(u) = Append(Entries(t), [k |-> k, v |-> v])
           /\ u.resizes = t.resizes =>
                 /\ u.size = t.size /\ u.count = t.count + 1
                 /\ \E n \in Steps(t) : u.list = Append(t.list, n)
                 /\ \A m \in Steps(t) : Used(t.table[m]) => u.table[m] = t.table[m]
<1>1. t.count \in Nat /\ t.size \in Nat \ {0} /\ t.count <= t.size /\ t.resizes \in Nat
  BY ListLemma DEF TableOk, Shape
<1> DEFINE w == IF t.count * 100 >= t.size * 66 THEN lh_table_resize(t, 2 * t.size) ELSE t
<1>2. u = PlaceEntry(w, k, v)
  BY DEF lh_table_insert
<1>3. /\ TableOk(w) /\ Entries(w) = Entries(t) /\ w.count = t.count /\ w.count < w.size
      /\ w = t \/ w.resizes = t.resizes + 1
  <2>1. CASE t.count * 100 >= t.size * 66
    <3> DEFINE s == 2 * t.size
    <3>1. s \in Nat \ {0} /\ t.count < s /\ w = lh_table_resize(t, s)
      BY <1>1, <2>1
    <3> HIDE DEF s, w
    <3>2. /\ TableOk(w) /\ Entries(w) = Entries(t) /\ w.size = s /\ w.count = t.count
          /\ w.resizes = t.resizes + 1
      BY <3>1, ResizeLemma
    <3> QED BY <3>1, <3>2
  <2>2. CASE ~(t.count * 100 >= t.size * 66)
    <3>1. t.count < t.size /\ w = t
      BY <1>1, <2>2
    <3> QED BY <3>1
  <2> QED BY <2>1, <2>2
<1> HIDE DEF w
<1>4. k \notin NamesOf(w)
  <2>1. DOMAIN w.list = DOMAIN t.list
    BY <1>3, ListLemma
  <2> QED BY <1>3, <2>1 DEF NamesOf
<1>5. PICK n : Placed(w, u, n, [k |-> k, v |-> v])
  BY <1>2, <1>3, PlaceIs DEF TableOk
<1>6. /\ TableOk(u) /\ u.size = w.size /\ u.count = w.count + 1 /\ u.resizes = w.resizes
      /\ Entries(u) = Append(Entries(w), [k |-> k, v |-> v])
      /\ \A m \in Steps(w) : Used(w.table[m]) => u.table[m] = w.table[m]
  BY <1>3, <1>4, <1>5, PlaceKeeps
<1>7. n \in Steps(w) /\ u.list = Append(w.list, n)
  BY <1>5 DEF Placed
<1>8. ASSUME u.resizes = t.resizes PROVE w = t
  BY <1>1, <1>3, <1>6, <1>8
<1> QED BY <1>3, <1>6, <1>7, <1>8

\* The table after json_object_object_add and after json_object_object_del.
StoredAt(t, u, i, k, v) ==
    /\ i \in 1 .. t.count /\ Entries(t)[i].k = k
    /\ u.resizes = t.resizes /\ u.size = t.size /\ u.count = t.count /\ u.list = t.list
    /\ Entries(u) = Changed(Entries(t), i, v)
    /\ \A m \in Steps(t) : u.table[m].k = t.table[m].k
StoredNew(t, u, k, v) ==
    /\ k \notin NamesOf(t)
    /\ Entries(u) = Append(Entries(t), [k |-> k, v |-> v])
    /\ u.resizes = t.resizes =>
          /\ u.size = t.size /\ u.count = t.count + 1
          /\ \E n \in Steps(t) : u.list = Append(t.list, n)
          /\ \A m \in Steps(t) : Used(t.table[m]) => u.table[m] = t.table[m]

LEMMA StoreLemma ==
    ASSUME NEW t, TableOk(t), NEW k \in EntryNames, NEW v \in Pointers, NEW u,
           u = StoreEntry(t, k, v)
    PROVE  TableOk(u) /\ (StoredNew(t, u, k, v) \/ \E i : StoredAt(t, u, i, k, v))
<1> DEFINE n == lh_table_lookup_entry(t, k)
<1>1. u = IF n = -1 THEN lh_table_insert(t, k, v) ELSE [t EXCEPT !.table[n].v = v]
  BY DEF StoreEntry
<1>2. IF k \in NamesOf(t)
      THEN \E i \in 1 .. t.count : t.list[i] = n /\ Entries(t)[i].k = k
      ELSE n = -1
  BY LookupLemma
<1> HIDE DEF n
<1>3. CASE k \in NamesOf(t)
  <2>1. PICK i \in 1 .. t.count : t.list[i] = n /\ Entries(t)[i].k = k
    BY <1>2, <1>3
  <2>2. n # -1
    <3>1. n \in Steps(t) /\ t.size \in Nat
      BY <2>1, ListLemma DEF TableOk, Shape
    <3> QED BY <3>1 DEF Steps
  <2>3. u = [t EXCEPT !.table[t.list[i]].v = v]
    BY <1>1, <2>1, <2>2
  <2>4. /\ TableOk(u) /\ u.size = t.size /\ u.resizes = t.resizes /\ u.count = t.count
        /\ u.list = t.list /\ Entries(u) = Changed(Entries(t), i, v)
        /\ \A m \in Steps(t) : u.table[m].k = t.table[m].k
    BY <2>3, ChangeLemma
  <2>5. StoredAt(t, u, i, k, v)
    BY <2>1, <2>4 DEF StoredAt
  <2> QED BY <2>4, <2>5
<1>4. CASE k \notin NamesOf(t)
  <2>1. u = lh_table_insert(t, k, v)
    BY <1>1, <1>2, <1>4
  <2> QED BY <1>4, <2>1, InsertLemma DEF StoredNew
<1> QED BY <1>3, <1>4

LEMMA NamesLemma ==
    ASSUME NEW t, TableOk(t)
    PROVE  /\ NamesOf(t) = {Entries(t)[i].k : i \in 1 .. t.count}
           /\ \A i \in 1 .. t.count : Entries(t)[i].k = t.table[t.list[i]].k
<1>1. DOMAIN t.list = 1 .. t.count
  BY ListLemma
<1> QED BY <1>1 DEF NamesOf, Entries

\* The order of the names.
Before(t, a, b) == \E i, j \in 1 .. t.count : i < j /\ Entries(t)[i].k = a /\ Entries(t)[j].k = b

LEMMA OrderLemma ==
    ASSUME NEW t, TableOk(t)
    PROVE  \A i, j \in 1 .. t.count : Before(t, Entries(t)[i].k, Entries(t)[j].k) <=> i < j
<1>1. \A i, j \in 1 .. t.count : Entries(t)[i].k = Entries(t)[j].k => i = j
  BY EntriesLemma
<1> QED BY <1>1 DEF Before

\* Changing a value leaves names and order as they are; a new name comes after
\* the others; a deleted one leaves the others in order.
LEMMA ChangedOrder ==
    ASSUME NEW t, TableOk(t), NEW u, TableOk(u), NEW i, NEW k, NEW v, StoredAt(t, u, i, k, v)
    PROVE  NamesOf(u) = NamesOf(t) /\ \A a, b : Before(u, a, b) <=> Before(t, a, b)
<1>1. u.count = t.count /\ Entries(u) = Changed(Entries(t), i, v)
  BY DEF StoredAt
<1>2. DOMAIN Entries(t) = 1 .. t.count
  BY ListLemma DEF Entries
<1>3. \A j \in 1 .. t.count : Entries(u)[j].k = Entries(t)[j].k
  BY <1>1, <1>2 DEF Changed
<1>4. NamesOf(u) = {Entries(u)[j].k : j \in 1 .. t.count}
  BY <1>1, NamesLemma
<1>5. NamesOf(u) = NamesOf(t)
  BY <1>3, <1>4, NamesLemma
<1> QED BY <1>1, <1>3, <1>5 DEF Before

LEMMA AppendedOrder ==
    ASSUME NEW t, TableOk(t), NEW u, TableOk(u), u.count = t.count + 1,
           NEW e \in Pair, Entries(u) = Append(Entries(t), e), e.k \notin NamesOf(t)
    PROVE  /\ NamesOf(t) \subseteq NamesOf(u)
           /\ \A a, b \in NamesOf(t) : Before(u, a, b) <=> Before(t, a, b)
<1> DEFINE l == t.count
<1>1. l \in Nat /\ Entries(t) \in Seq(Pair) /\ Len(Entries(t)) = l
  BY ListLemma, EntriesLemma
<1>2. /\ \A j \in 1 .. l : Entries(u)[j] = Entries(t)[j]
      /\ Entries(u)[l + 1] = e
  BY <1>1, AppendProperties
<1>3. /\ NamesOf(u) = {Entries(u)[j].k : j \in 1 .. l + 1}
      /\ NamesOf(t) = {Entries(t)[j].k : j \in 1 .. l}
  <2>1. NamesOf(u) = {Entries(u)[j].k : j \in 1 .. u.count}
    BY NamesLemma
  <2>2. NamesOf(t) = {Entries(t)[j].k : j \in 1 .. t.count}
    BY NamesLemma
  <2>3. u.count = l + 1
    OBVIOUS
  <2> QED BY <2>1, <2>2, <2>3
<1> HIDE DEF l
<1>4. 1 .. l \subseteq 1 .. l + 1 /\ \A j \in 1 .. l + 1 : j \in 1 .. l \/ j = l + 1
  BY <1>1
<1>5. ASSUME NEW a \in NamesOf(t), NEW b \in NamesOf(t), Before(u, a, b)
      PROVE  Before(t, a, b)
  <2>1. PICK p, q \in 1 .. l + 1 : p < q /\ Entries(u)[p].k = a /\ Entries(u)[q].k = b
    BY <1>5 DEF Before, l
  <2>2. p # l + 1 /\ q # l + 1
    BY <1>2, <2>1
  <2>3. p \in 1 .. l /\ q \in 1 .. l
    BY <1>4, <2>2
  <2> QED BY <1>2, <2>1, <2>3 DEF Before, l
<1>6. ASSUME NEW a, NEW b, Before(t, a, b)
      PROVE  Before(u, a, b)
  <2>1. PICK p, q \in 1 .. l : p < q /\ Entries(t)[p].k = a /\ Entries(t)[q].k = b
    BY <1>6 DEF Before, l
  <2>2. p \in 1 .. u.count /\ q \in 1 .. u.count
    BY <1>4 DEF l
  <2> QED BY <1>2, <2>1, <2>2 DEF Before
<1> QED BY <1>2, <1>3, <1>4, <1>5, <1>6

LEMMA RemovedOrder ==
    ASSUME NEW t, TableOk(t), NEW u, TableOk(u), u.count = t.count - 1,
           NEW i \in 1 .. t.count, Entries(u) = RemoveAt(Entries(t), i)
    PROVE  /\ NamesOf(t) \ {Entries(t)[i].k} \subseteq NamesOf(u)
           /\ \A a, b : a # Entries(t)[i].k /\ b # Entries(t)[i].k =>
                           (Before(u, a, b) <=> Before(t, a, b))
<1> DEFINE l == t.count
           E == Entries(t)
           A == Entries(u)
           New(p) == IF p < i THEN p ELSE p - 1
           Old(p) == IF p < i THEN p ELSE p + 1
<1>1. l \in Nat /\ E \in Seq(Pair) /\ Len(E) = l
  BY ListLemma, EntriesLemma
<1>2. \A p \in 1 .. l - 1 : A[p] = E[Old(p)]
  <2>1. i \in 1 .. Len(E)
    BY <1>1
  <2>2. \A p \in 1 .. Len(E) - 1 : RemoveAt(E, i)[p] = IF p < i THEN E[p] ELSE E[p + 1]
    BY <1>1, <2>1, RemoveLemma
  <2>3. A = RemoveAt(E, i)
    OBVIOUS
  <2> HIDE DEF A, E
  <2> QED BY <1>1, <2>2, <2>3
<1>3. \A p \in 1 .. l : p # i => New(p) \in 1 .. l - 1 /\ Old(New(p)) = p
  BY <1>1
<1>4. \A p \in 1 .. l - 1 : Old(p) \in 1 .. l /\ Old(p) # i
  BY <1>1
<1>5. /\ \A p, q \in 1 .. l : p < q /\ p # i /\ q # i => New(p) < New(q)
      /\ \A p, q \in 1 .. l - 1 : p < q => Old(p) < Old(q)
  BY <1>1
<1>6. NamesOf(u) = {A[p].k : p \in 1 .. l - 1} /\ NamesOf(t) = {E[p].k : p \in 1 .. l}
  <2>1. l - 1 = u.count
    OBVIOUS
  <2> HIDE DEF l
  <2> QED BY <2>1, NamesLemma DEF l
<1>7. u.count = l - 1
  OBVIOUS
<1> HIDE DEF New, Old
<1>8. ASSUME NEW a, NEW b, Before(u, a, b) PROVE Before(t, a, b)
  <2>1. PICK p, q \in 1 .. l - 1 : p < q /\ A[p].k = a /\ A[q].k = b
    BY <1>7, <1>8 DEF Before
  <2> QED BY <1>2, <1>4, <1>5, <2>1 DEF Before
<1>9. ASSUME NEW a, NEW b, a # E[i].k, b # E[i].k, Before(t, a, b) PROVE Before(u, a, b)
  <2>1. PICK p, q \in 1 .. l : p < q /\ E[p].k = a /\ E[q].k = b
    BY <1>9 DEF Before
  <2>2. p # i /\ q # i
    BY <1>9, <2>1
  <2>3. /\ New(p) \in 1 .. l - 1 /\ New(q) \in 1 .. l - 1 /\ New(p) < New(q)
        /\ A[New(p)] = E[p] /\ A[New(q)] = E[q]
    BY <1>2, <1>3, <1>5, <2>1, <2>2
  <2> QED BY <1>7, <2>1, <2>3 DEF Before
<1>10. ASSUME NEW a \in NamesOf(t), a # E[i].k PROVE a \in NamesOf(u)
  <2>1. PICK p \in 1 .. l : E[p].k = a
    BY <1>6
  <2>2. p # i
    BY <1>10, <2>1
  <2> QED BY <1>2, <1>3, <1>6, <2>1, <2>2
<1> QED BY <1>8, <1>9, <1>10

-----------------------------------------------------------------------------
(***************************************************************************)
(* Walking.  The cursor of a walk is the slot that the client holds: the   *)
(* one it is at for an iterator, the saved next one for the loop.  Of the  *)
(* names that have been there all the time those that the walk is past     *)
(* have been seen, and no other.                                           *)
(***************************************************************************)
OnList(t, n) == \E p \in 1 .. t.count : t.list[p] = n

Walk == [kind : {"none", "iter", "foreach"}, at : Int, next : Int, seen : Seq(EntryNames),
         present : SUBSET EntryNames, lost : BOOLEAN]
Past(t, w, a) ==
    \/ w.at = NoEntry
    \/ w.kind = "iter" /\ (a = t.table[w.at].k \/ Before(t, a, t.table[w.at].k))
    \/ w.kind = "foreach" /\ (w.next = NoEntry \/ Before(t, a, t.table[w.next].k))
Was(w, a) == \E i \in 1 .. Len(w.seen) : w.seen[i] = a
SeenOnce(w) == \A i, j \in 1 .. Len(w.seen) : w.seen[i] = w.seen[j] => i = j
SeenInOrder(t, w) ==
    \A i, j \in 1 .. Len(w.seen) :
       /\ w.seen[i] \in w.present /\ w.seen[j] \in w.present
       /\ Before(t, w.seen[i], w.seen[j])
       => i < j
WalkOk(t, w) ==
    /\ w \in Walk /\ w.present \subseteq NamesOf(t)
    /\ w.kind = "iter" /\ w.at # NoEntry => OnList(t, w.at)
    /\ w.kind = "foreach" /\ w.at # NoEntry /\ w.next # NoEntry => OnList(t, w.next)
    /\ \A a \in w.present : Was(w, a) <=> Past(t, w, a)
    /\ SeenOnce(w) /\ SeenInOrder(t, w)

\* A change of the table that keeps the names in K, their slots and their
\* order keeps a walk whose cursor is on one of them.
LEMMA WalkKept ==
    ASSUME NEW t, NEW u, NEW w, WalkOk(t, w), NEW K, K \subseteq NamesOf(u),
           \A a, b \in K : Before(u, a, b) <=> Before(t, a, b),
           \A n : OnList(t, n) /\ t.table[n].k \in K => OnList(u, n) /\ u.table[n].k = t.table[n].k,
           w.kind = "iter" /\ w.at # NoEntry => t.table[w.at].k \in K,
           w.kind = "foreach" /\ w.at # NoEntry /\ w.next # NoEntry => t.table[w.next].k \in K,
           NEW x \in Walk, x.kind = w.kind, x.at = w.at, x.next = w.next, x.seen = w.seen,
           x.present \subseteq w.present, x.present \subseteq K
    PROVE  WalkOk(u, x)
<1>1. x.kind = "iter" /\ x.at # NoEntry =>
         /\ OnList(u, x.at) /\ u.table[x.at].k = t.table[x.at].k /\ t.table[x.at].k \in K
  BY DEF WalkOk
<1>2. x.kind = "foreach" /\ x.at # NoEntry /\ x.next # NoEntry =>
         /\ OnList(u, x.next) /\ u.table[x.next].k = t.table[x.next].k /\ t.table[x.next].k \in K
  BY DEF WalkOk
<1>3. ASSUME NEW a \in x.present PROVE Past(u, x, a) <=> Past(t, w, a)
  <2>1. a \in K
    OBVIOUS
  <2>2. x.kind = "iter" /\ x.at # NoEntry =>
           (Before(u, a, u.table[x.at].k) <=> Before(t, a, t.table[x.at].k))
    BY <1>1, <2>1
  <2>3. x.kind = "foreach" /\ x.at # NoEntry /\ x.next # NoEntry =>
           (Before(u, a, u.table[x.next].k) <=> Before(t, a, t.table[x.next].k))
    BY <1>2, <2>1
  <2> QED BY <1>1, <2>2, <2>3 DEF Past
<1>4. \A a \in x.present : Was(x, a) <=> Past(u, x, a)
  <2>1. \A a \in w.present : Was(w, a) <=> Past(t, w, a)
    BY DEF WalkOk
  <2> QED BY <1>3, <2>1 DEF Was
<1>5. SeenOnce(x)
  BY DEF WalkOk, SeenOnce
<1>6. SeenInOrder(u, x)
  BY DEF WalkOk, SeenInOrder
<1>7. x.present \subseteq NamesOf(u)
  OBVIOUS
<1> QED BY <1>1, <1>2, <1>4, <1>5, <1>6, <1>7 DEF WalkOk

\* What comes after the p-th entry of the list; a name is at or before the
\* p-th entry if it is before the next one, or if there is no next one.
LEMMA NextLemma ==
    ASSUME NEW t, TableOk(t), NEW p \in 1 .. t.count
    PROVE  /\ NextOf(t, t.list[p]) = IF p < t.count THEN t.list[p + 1] ELSE NoEntry
           /\ p < t.count => t.list[p + 1] # NoEntry
           /\ t.list[p] # NoEntry
           /\ \A a \in NamesOf(t) :
                 (a = Entries(t)[p].k \/ Before(t, a, Entries(t)[p].k))
                 <=> (p < t.count => Before(t, a, Entries(t)[p + 1].k))
<1> DEFINE l == t.count
           T == t.list
<1>1. l \in Nat /\ Len(T) = l /\ (\A i \in 1 .. l : T[i] \in Steps(t)) /\ t.size \in Nat
  BY ListLemma DEF TableOk, Shape
<1>2. \A i \in 1 .. l : T[i] # NoEntry
  BY <1>1 DEF Steps, NoEntry
<1>3. \A i, j \in 1 .. l : T[i] = T[j] => i = j
  BY <1>1 DEF TableOk, Once
<1>4. p < l => p + 1 \in 1 .. l /\ p \in 1 .. l - 1
  BY <1>1
<1>5. NextOf(t, T[p]) = IF p < l THEN T[p + 1] ELSE NoEntry
  <2>1. NextOf(t, T[p]) = IF \E i \in 1 .. l - 1 : T[i] = T[p]
                          THEN T[1 + CHOOSE i \in 1 .. l - 1 : T[i] = T[p]] ELSE NoEntry
    BY <1>1 DEF NextOf
  <2>2. \A i \in 1 .. l - 1 : i \in 1 .. l
    BY <1>1
  <2>3. \A i \in 1 .. l - 1 : T[i] = T[p] <=> i = p
    BY <1>3, <2>2
  <2> HIDE DEF T, l
  <2>4. CASE p < l
    <3> DEFINE c == CHOOSE i \in 1 .. l - 1 : T[i] = T[p]
    <3>1. p \in 1 .. l - 1
      BY <1>4, <2>4
    <3>2. c \in 1 .. l - 1 /\ T[c] = T[p]
      BY <3>1
    <3>3. c = p
      BY <2>3, <3>2
    <3> HIDE DEF c
    <3>4. NextOf(t, T[p]) = T[1 + c]
      BY <2>1, <3>1 DEF c
    <3>5. 1 + c = p + 1
      BY <3>3, <1>1
    <3> QED BY <2>4, <3>4, <3>5
  <2>5. CASE ~(p < l)
    <3>1. ~(\E i \in 1 .. l - 1 : T[i] = T[p])
      BY <1>1, <2>3, <2>5
    <3> QED BY <2>1, <2>5, <3>1
  <2> QED BY <2>4, <2>5
<1>6. ASSUME NEW a \in NamesOf(t)
      PROVE  (a = Entries(t)[p].k \/ Before(t, a, Entries(t)[p].k))
             <=> (p < l => Before(t, a, Entries(t)[p + 1].k))
  <2>1. PICK i \in 1 .. l : Entries(t)[i].k = a
    BY NamesLemma
  <2>2. Before(t, a, Entries(t)[p].k) <=> i < p
    BY <2>1, OrderLemma
  <2>3. a = Entries(t)[p].k <=> i = p
    BY <2>1, EntriesLemma
  <2>4. p < l => (Before(t, a, Entries(t)[p + 1].k) <=> i < p + 1)
    BY <1>4, <2>1, OrderLemma
  <2> HIDE DEF l
  <2> QED BY <1>1, <2>2, <2>3, <2>4
<1> QED BY <1>2, <1>4, <1>5, <1>6

\* A walk that has seen the names before entry n goes on rightly with n.
LEMMA VisitLemma ==
    ASSUME NEW t, TableOk(t), NEW w \in Walk, w.kind # "none", w.present \subseteq NamesOf(t),
           SeenOnce(w), SeenInOrder(t, w), NEW n, n = NoEntry \/ OnList(t, n),
           \A a \in w.present : Was(w, a) <=> (n = NoEntry \/ Before(t, a, t.table[n].k))
    PROVE  WalkOk(t, Visit(w, t, n))
<1> DEFINE x == Visit(w, t, n)
           s == w.seen
           l == Len(s)
<1> SUFFICES WalkOk(t, x)
  OBVIOUS
<1>1. CASE n = NoEntry
  <2>1. x = [w EXCEPT !.at = NoEntry, !.next = NoEntry]
    BY <1>1 DEF Visit
  <2>2. x \in Walk /\ x.at = NoEntry /\ x.seen = w.seen /\ x.present = w.present
    <3>1. NoEntry \in Int
      BY DEF NoEntry
    <3> HIDE DEF x
    <3> QED BY <2>1, <3>1 DEF Walk
  <2>3. \A a \in w.present : Was(w, a)
    BY <1>1
  <2> HIDE DEF x
  <2>4. \A a \in x.present : Was(x, a) <=> Past(t, x, a)
    BY <2>2, <2>3 DEF Was, Past
  <2>5. SeenOnce(x) /\ SeenInOrder(t, x)
    BY <2>2 DEF SeenOnce, SeenInOrder
  <2> QED BY <2>2, <2>4, <2>5 DEF WalkOk
<1>2. CASE n # NoEntry
  <2> DEFINE b == t.table[n].k
             m == NextOf(t, n)
  <2>1. PICK p \in 1 .. t.count : t.list[p] = n
    BY <1>2 DEF OnList
  <2>2. /\ Entries(t)[p].k = b /\ b \in EntryNames /\ n \in Int
    <3>1. Entries(t)[p].k = b
      BY <2>1, NamesLemma
    <3>2. n \in Steps(t) /\ t.table[n] \in Pair /\ t.size \in Nat
      BY <2>1, ListLemma DEF TableOk, Shape
    <3> QED BY <3>1, <3>2 DEF Pair, Steps
  <2>3. /\ m = IF p < t.count THEN t.list[p + 1] ELSE NoEntry
        /\ p < t.count => t.list[p + 1] # NoEntry
        /\ \A a \in NamesOf(t) : (a = b \/ Before(t, a, b))
                                 <=> (p < t.count => Before(t, a, Entries(t)[p + 1].k))
    BY <2>1, <2>2, NextLemma
  <2>4. m # NoEntry => OnList(t, m) /\ t.table[m].k = Entries(t)[p + 1].k /\ m \in Int
    <3>1. SUFFICES ASSUME m # NoEntry
                   PROVE  OnList(t, m) /\ t.table[m].k = Entries(t)[p + 1].k /\ m \in Int
      OBVIOUS
    <3>2. p < t.count /\ m = t.list[p + 1]
      BY <2>3, <3>1
    <3>3. p + 1 \in 1 .. t.count
      BY <3>2, ListLemma
    <3>4. Entries(t)[p + 1].k = t.table[t.list[p + 1]].k
      BY <3>3, NamesLemma
    <3>5. t.list[p + 1] \in Steps(t) /\ t.size \in Nat
      BY <3>3, ListLemma DEF TableOk, Shape
    <3>6. m \in Int
      BY <3>2, <3>5 DEF Steps
    <3> HIDE DEF m
    <3> QED BY <3>2, <3>3, <3>4, <3>6 DEF OnList
  <2>5. \A a \in NamesOf(t) : (a = b \/ Before(t, a, b)) <=> (m = NoEntry \/ Before(t, a, t.table[m].k))
    BY <2>3, <2>4
  <2> HIDE DEF m
  <2>6. m \in Int
    BY <2>4 DEF NoEntry
  <2>7. x = [w EXCEPT !.at = n, !.seen = IF b \in w.present THEN Append(s, b) ELSE s,
                      !.next = IF w.kind = "foreach" THEN m ELSE NoEntry]
    BY <1>2 DEF Visit, m
  <2>8. /\ x \in Walk /\ x.kind = w.kind /\ x.at = n /\ x.present = w.present
        /\ x.seen = IF b \in w.present THEN Append(s, b) ELSE s
        /\ x.next = IF w.kind = "foreach" THEN m ELSE NoEntry
    <3>1. (IF b \in w.present THEN Append(s, b) ELSE s) \in Seq(EntryNames)
      BY <2>2 DEF Walk
    <3>2. (IF w.kind = "foreach" THEN m ELSE NoEntry) \in Int
      BY <2>6 DEF NoEntry
    <3> HIDE DEF x, s, b
    <3> QED BY <2>2, <2>7, <3>1, <3>2 DEF Walk, s
  <2> HIDE DEF x
  <2>9. l \in Nat /\ s \in Seq(EntryNames)
    BY DEF Walk
  <2>10. \A a \in x.present : Past(t, x, a) <=> (a = b \/ Before(t, a, b))
    <3>1. ASSUME NEW a \in x.present PROVE Past(t, x, a) <=> (a = b \/ Before(t, a, b))
      <4>1. a \in NamesOf(t)
        BY <2>8
      <4>2. w.kind = "iter" \/ w.kind = "foreach"
        BY DEF Walk
      <4> HIDE DEF b
      <4>3. CASE w.kind = "iter"
        BY <1>2, <2>8, <4>3 DEF Past, b
      <4>4. CASE w.kind = "foreach"
        BY <1>2, <2>5, <2>8, <4>1, <4>4 DEF Past
      <4> QED BY <4>2, <4>3, <4>4
    <3> QED BY <3>1
  <2>11. x.kind = "iter" /\ x.at # NoEntry => OnList(t, x.at)
    BY <1>2, <2>8
  <2>12. x.kind = "foreach" /\ x.at # NoEntry /\ x.next # NoEntry => OnList(t, x.next)
    BY <2>4, <2>8
  <2>13. \A a \in w.present : Was(w, a) <=> Before(t, a, b)
    BY <1>2
  <2>14. ~Before(t, b, b)
    <3>1. Before(t, b, b) <=> p < p
      BY <2>2, OrderLemma
    <3> QED BY <3>1, <2>9
  <2> HIDE DEF b
  <2>15. CASE b \notin w.present
    <3>1. x.seen = w.seen
      BY <2>8, <2>15
    <3>2. \A a \in x.present : Was(x, a) <=> Past(t, x, a)
      <4>1. \A a \in w.present : a # b
        BY <2>15
      <4> QED BY <2>8, <2>10, <2>13, <3>1, <4>1 DEF Was
    <3>3. SeenOnce(x) /\ SeenInOrder(t, x)
      BY <2>8, <3>1 DEF SeenOnce, SeenInOrder
    <3> QED BY <2>8, <2>11, <2>12, <3>2, <3>3 DEF WalkOk
  <2>16. CASE b \in w.present
    <3>1. /\ x.seen = Append(s, b) /\ Len(x.seen) = l + 1 /\ x.seen[l + 1] = b
          /\ \A i \in 1 .. l : x.seen[i] = s[i]
      BY <2>2, <2>8, <2>9, <2>16, AppendProperties
    <3> HIDE DEF l, s
    <3>2. \A i \in 1 .. l + 1 : i \in 1 .. l \/ i = l + 1
      BY <2>9
    <3>3. 1 .. l \subseteq 1 .. l + 1 /\ l + 1 \in 1 .. l + 1
      BY <2>9
    <3>4. \A i \in 1 .. l : s[i] # b
      BY <2>13, <2>14, <2>16 DEF Was, l, s
    <3>5. \A a \in x.present : Was(x, a) <=> Past(t, x, a)
      <4>1. \A a : Was(x, a) <=> (Was(w, a) \/ a = b)
        BY <3>1, <3>2, <3>3 DEF Was, l, s
      <4> QED BY <2>8, <2>10, <2>13, <4>1
    <3>6. SeenOnce(x)
      <4>1. \A i, j \in 1 .. l : s[i] = s[j] => i = j
        BY DEF SeenOnce, l, s
      <4> QED BY <3>1, <3>2, <3>4, <4>1 DEF SeenOnce
    <3>7. SeenInOrder(t, x)
      <4>1. SUFFICES ASSUME NEW i \in 1 .. l + 1, NEW j \in 1 .. l + 1,
                            x.seen[i] \in x.present, x.seen[j] \in x.present,
                            Before(t, x.seen[i], x.seen[j])
                     PROVE  i < j
        BY <3>1 DEF SeenInOrder
      <4>2. CASE i \in 1 .. l /\ j \in 1 .. l
        <5>1. s[i] \in w.present /\ s[j] \in w.present /\ Before(t, s[i], s[j])
          BY <2>8, <3>1, <4>1, <4>2
        <5> QED BY <4>2, <5>1 DEF SeenInOrder, l, s
      <4>3. CASE j = l + 1 /\ i \in 1 .. l
        BY <2>9, <4>3
      <4>4. CASE i = l + 1
        <5>1. Before(t, b, x.seen[j])
          BY <3>1, <4>1, <4>4
        <5>2. j # l + 1
          BY <2>14, <3>1, <5>1
        <5>3. x.seen[j] = s[j] /\ s[j] \in w.present /\ Before(t, s[j], b)
          BY <2>8, <2>13, <3>1, <3>2, <4>1, <5>2 DEF Was, l, s
        <5>4. PICK q \in 1 .. t.count : Entries(t)[q].k = s[j]
          BY <5>3, NamesLemma
        <5>5. (Before(t, b, s[j]) <=> p < q) /\ (Before(t, s[j], b) <=> q < p)
          BY <2>2, <5>4, OrderLemma
        <5>6. p \in Int /\ q \in Int
          BY ListLemma
        <5> QED BY <5>1, <5>3, <5>5, <5>6
      <4> QED BY <3>2, <4>2, <4>3, <4>4
    <3> QED BY <2>8, <2>11, <2>12, <3>5, <3>6, <3>7 DEF WalkOk
  <2> QED BY <2>15, <2>16
<1> QED BY <1>1, <1>2

GoodInv == TableOk(jtab) /\ WalkOk(jtab, jit)

LEMMA NoWalkOk ==
    ASSUME NEW t PROVE WalkOk(t, NoWalk)
<1>1. /\ NoWalk.kind = "none" /\ NoWalk.at = NoEntry /\ NoWalk.seen = <<>> /\ NoWalk.present = {}
      /\ NoWalk \in Walk
  BY DEF NoWalk, Walk, NoEntry
<1> QED BY <1>1 DEF WalkOk, SeenOnce, SeenInOrder

LEMMA AddInv ==
    ASSUME GoodInv, NEW k \in EntryNames, NEW v \in TableValues, TabAdd(k, v)
    PROVE  GoodInv'
<1> DEFINE t == jtab
           u == jtab'
<1>1. TableOk(t) /\ WalkOk(t, jit) /\ jit \in Walk
  BY DEF GoodInv, WalkOk
<1>2. TableOk(u) /\ (StoredNew(t, u, k, v) \/ \E i : StoredAt(t, u, i, k, v))
  BY <1>1, StoreLemma, TableAssumption DEF TabAdd
<1>3. jit' = IF u.resizes # t.resizes THEN NoWalk ELSE jit
  BY DEF TabAdd
<1>4. jit.kind = "iter" /\ jit.at # NoEntry => OnList(t, jit.at)
  BY <1>1 DEF WalkOk
<1>5. jit.kind = "foreach" /\ jit.at # NoEntry /\ jit.next # NoEntry => OnList(t, jit.next)
  BY <1>1 DEF WalkOk
<1>6. \A n : OnList(t, n) => n \in Steps(t) /\ Used(t.table[n]) /\ t.table[n].k \in NamesOf(t)
  <2>1. ASSUME NEW n, OnList(t, n)
        PROVE  n \in Steps(t) /\ Used(t.table[n]) /\ t.table[n].k \in NamesOf(t)
    <3>1. PICK p \in 1 .. t.count : t.list[p] = n
      BY <2>1 DEF OnList
    <3>2. n \in Steps(t) /\ Used(t.table[n])
      BY <1>1, <3>1, ListLemma
    <3>3. t.table[n].k \in NamesOf(t)
      BY <1>1, <3>1, NamesLemma
    <3> QED BY <3>2, <3>3
  <2> QED BY <2>1
<1>7. jit.present \subseteq NamesOf(t)
  BY <1>1 DEF WalkOk
<1> SUFFICES WalkOk(u, jit')
  BY <1>2 DEF GoodInv
<1> HIDE DEF t, u
<1>8. CASE u.resizes # t.resizes
  BY <1>3, <1>8, NoWalkOk
<1>9. CASE u.resizes = t.resizes
  <2>1. jit' = jit
    BY <1>3, <1>9
  <2> SUFFICES WalkOk(u, jit)
    BY <2>1
  <2>2. CASE StoredNew(t, u, k, v)
    <3>1. /\ u.count = t.count + 1
          /\ \A m \in Steps(t) : Used(t.table[m]) => u.table[m] = t.table[m]
          /\ Entries(u) = Append(Entries(t), [k |-> k, v |-> v]) /\ k \notin NamesOf(t)
      BY <1>9, <2>2 DEF StoredNew
    <3>2. PICK m \in Steps(t) : u.list = Append(t.list, m)
      BY <1>9, <2>2 DEF StoredNew
    <3>3. \A a, b \in NamesOf(t) : Before(u, a, b) <=> Before(t, a, b)
      <4>1. [k |-> k, v |-> v] \in Pair /\ [k |-> k, v |-> v].k \notin NamesOf(t)
        BY <3>1, TableAssumption DEF Pair
      <4> QED BY <1>1, <1>2, <3>1, <4>1, AppendedOrder
    <3>4. NamesOf(t) \subseteq NamesOf(u)
      <4>1. [k |-> k, v |-> v] \in Pair /\ [k |-> k, v |-> v].k \notin NamesOf(t)
        BY <3>1, TableAssumption DEF Pair
      <4> QED BY <1>1, <1>2, <3>1, <4>1, AppendedOrder
    <3>5. ASSUME NEW n, OnList(t, n) PROVE OnList(u, n) /\ u.table[n].k = t.table[n].k
      <4>1. PICK p \in 1 .. t.count : t.list[p] = n
        BY <3>5 DEF OnList
      <4>2. t.list \in Seq(Steps(t)) /\ Len(t.list) = t.count /\ t.count \in Nat
        BY <1>1, ListLemma
      <4>3. u.list[p] = n
        BY <3>2, <4>1, <4>2, AppendProperties
      <4>4. p \in 1 .. u.count
        BY <3>1, <4>2
      <4>5. u.table[n] = t.table[n]
        BY <1>6, <3>1, <3>5
      <4> QED BY <4>3, <4>4, <4>5 DEF OnList
    <3> QED BY <1>1, <1>4, <1>5, <1>6, <1>7, <3>3, <3>4, <3>5, WalkKept
  <2>3. CASE \E i : StoredAt(t, u, i, k, v)
    <3>1. PICK i : StoredAt(t, u, i, k, v)
      BY <2>3
    <3>2. NamesOf(u) = NamesOf(t) /\ \A a, b : Before(u, a, b) <=> Before(t, a, b)
      BY <1>1, <1>2, <3>1, ChangedOrder
    <3>3. u.count = t.count /\ u.list = t.list /\ \A m \in Steps(t) : u.table[m].k = t.table[m].k
      BY <3>1 DEF StoredAt
    <3>4. ASSUME NEW n, OnList(t, n) PROVE OnList(u, n) /\ u.table[n].k = t.table[n].k
      BY <1>6, <3>3, <3>4 DEF OnList
    <3> QED BY <1>1, <1>4, <1>5, <1>6, <1>7, <3>2, <3>4, WalkKept
  <2> QED BY <1>2, <2>2, <2>3
<1> QED BY <1>8, <1>9

LEMMA DelInv ==
    ASSUME GoodInv, NEW k \in EntryNames, TabDel(k), ~jit'.lost
    PROVE  GoodInv'
<1> DEFINE t == jtab
           u == jtab'
           x == jit'
           n == lh_table_lookup_entry(t, k)
<1>1. TableOk(t) /\ WalkOk(t, jit) /\ jit \in Walk
  BY DEF GoodInv, WalkOk
<1>2. /\ n = -1 \/ jit.kind # "iter" \/ n # jit.at
      /\ u = IF n = -1 THEN t ELSE lh_table_delete_entry(t, n)
      /\ x = [jit EXCEPT !.present = @ \ {k},
                         !.lost = @ \/ (n # -1 /\ jit.kind = "foreach" /\ n = jit.next)]
  BY DEF TabDel
<1>3. IF k \in NamesOf(t)
      THEN \E i \in 1 .. t.count : t.list[i] = n /\ Entries(t)[i].k = k
      ELSE n = -1
  BY <1>1, LookupLemma
<1>4. /\ x \in Walk /\ x.kind = jit.kind /\ x.at = jit.at /\ x.next = jit.next
      /\ x.seen = jit.seen /\ x.present = jit.present \ {k}
      /\ n = -1 \/ jit.kind # "foreach" \/ n # jit.next
  BY <1>1, <1>2 DEF Walk
<1>5. jit.kind = "iter" /\ jit.at # NoEntry => OnList(t, jit.at)
  BY <1>1 DEF WalkOk
<1>6. jit.kind = "foreach" /\ jit.at # NoEntry /\ jit.next # NoEntry => OnList(t, jit.next)
  BY <1>1 DEF WalkOk
<1>7. \A c : OnList(t, c) => t.table[c].k \in NamesOf(t)
  BY <1>1, NamesLemma DEF OnList
<1>8. jit.present \subseteq NamesOf(t)
  BY <1>1 DEF WalkOk
<1> SUFFICES TableOk(u) /\ WalkOk(u, x)
  BY DEF GoodInv
<1> HIDE DEF t, u, x, n
<1>9. CASE k \notin NamesOf(t)
  <2>1. u = t
    BY <1>2, <1>3, <1>9
  <2>2. x.present \subseteq jit.present /\ x.present \subseteq NamesOf(t)
    BY <1>4, <1>8
  <2>3. WalkOk(t, x)
    BY <1>1, <1>4, <1>5, <1>6, <1>7, <2>2, WalkKept
  <2> QED BY <1>1, <2>1, <2>3
<1>10. CASE k \in NamesOf(t)
  <2>1. PICK i \in 1 .. t.count : t.list[i] = n /\ Entries(t)[i].k = k
    BY <1>3, <1>10
  <2>2. t.list \in Seq(Steps(t)) /\ Len(t.list) = t.count /\ t.count \in Nat /\ n \in Steps(t)
    BY <1>1, <2>1, ListLemma
  <2>3. n # -1 /\ n # NoEntry
    <3>1. t.size \in Nat
      BY <1>1 DEF TableOk, Shape
    <3> QED BY <2>2, <3>1 DEF Steps, NoEntry
  <2>4. u = lh_table_delete_entry(t, t.list[i])
    BY <1>2, <2>1, <2>3
  <2>5. /\ TableOk(u) /\ u.count = t.count - 1
        /\ u.list = RemoveAt(t.list, i) /\ Entries(u) = RemoveAt(Entries(t), i)
        /\ \A m \in Steps(t) : m # t.list[i] => u.table[m] = t.table[m]
    BY <1>1, <2>4, DeleteLemma
  <2>6. /\ NamesOf(t) \ {k} \subseteq NamesOf(u)
        /\ \A a, b : a # k /\ b # k => (Before(u, a, b) <=> Before(t, a, b))
    BY <1>1, <2>1, <2>5, RemovedOrder
  <2>7. ASSUME NEW c, OnList(t, c), t.table[c].k \in NamesOf(t) \ {k}
        PROVE  OnList(u, c) /\ u.table[c].k = t.table[c].k
    <3>1. PICK p \in 1 .. t.count : t.list[p] = c
      BY <2>7 DEF OnList
    <3>2. t.table[n].k = k
      BY <1>1, <2>1, NamesLemma
    <3>3. p # i /\ c # n
      BY <2>1, <2>7, <3>1, <3>2
    <3>4. c \in Steps(t)
      BY <1>1, <3>1, ListLemma
    <3>5. u.table[c] = t.table[c]
      BY <2>1, <2>5, <3>3, <3>4
    <3>6. \A j \in 1 .. Len(t.list) - 1 : u.list[j] = IF j < i THEN t.list[j] ELSE t.list[j + 1]
      <4>1. i \in 1 .. Len(t.list)
        BY <2>2
      <4> QED BY <2>2, <2>5, <4>1, RemoveLemma
    <3>7. CASE p < i
      <4>1. p \in 1 .. t.count - 1 /\ p \in 1 .. Len(t.list) - 1
        BY <2>2, <3>7
      <4>2. u.list[p] = c
        BY <3>1, <3>6, <3>7, <4>1
      <4> QED BY <2>5, <3>5, <4>1, <4>2 DEF OnList
    <3>8. CASE p > i
      <4>1. p - 1 \in 1 .. t.count - 1 /\ p - 1 \in 1 .. Len(t.list) - 1
            /\ ~(p - 1 < i) /\ (p - 1) + 1 = p
        BY <2>2, <3>8
      <4>2. u.list[p - 1] = c
        BY <3>1, <3>6, <4>1
      <4> QED BY <2>5, <3>5, <4>1, <4>2 DEF OnList
    <3>9. p < i \/ p > i
      BY <2>2, <3>3
    <3> QED BY <3>7, <3>8, <3>9
  <2>8. \A c : OnList(t, c) /\ c # n => t.table[c].k # k
    <3>1. ASSUME NEW c, OnList(t, c), t.table[c].k = k PROVE c = n
      <4>1. PICK p \in 1 .. t.count : t.list[p] = c
        BY <3>1 DEF OnList
      <4>2. Entries(t)[p].k = k
        BY <1>1, <3>1, <4>1, NamesLemma
      <4> QED BY <1>1, <2>1, <4>1, <4>2, EntriesLemma
    <3> QED BY <3>1
  <2>9. jit.kind = "iter" /\ jit.at # NoEntry => t.table[jit.at].k \in NamesOf(t) \ {k}
    BY <1>2, <1>5, <1>7, <2>3, <2>8
  <2>10. jit.kind = "foreach" /\ jit.at # NoEntry /\ jit.next # NoEntry =>
            t.table[jit.next].k \in NamesOf(t) \ {k}
    BY <1>4, <1>6, <1>7, <2>3, <2>8
  <2>11. x.present \subseteq jit.present /\ x.present \subseteq NamesOf(t) \ {k}
    BY <1>4, <1>8
  <2> DEFINE K == NamesOf(t) \ {k}
  <2>12. \A a, b \in K : Before(u, a, b) <=> Before(t, a, b)
    BY <2>6
  <2>13. \A c : OnList(t, c) /\ t.table[c].k \in K => OnList(u, c) /\ u.table[c].k = t.table[c].k
    BY <2>7
  <2> HIDE DEF K
  <2>14. WalkOk(u, x)
    BY <1>1, <1>4, <2>6, <2>9, <2>10, <2>11, <2>12, <2>13, WalkKept DEF K
  <2> QED BY <2>5, <2>14
<1> QED BY <1>9, <1>10

LEMMA BeginInv ==
    ASSUME TableOk(jtab), NEW kind \in {"iter", "foreach"}, Begin(kind)
    PROVE  GoodInv'
<1> DEFINE t == jtab
           w == [NoWalk EXCEPT !.kind = kind, !.present = NamesOf(t)]
           n == IF t.list = <<>> THEN NoEntry ELSE t.list[1]
<1>1. TableOk(t)
  OBVIOUS
<1>2. jit' = Visit(w, t, n) /\ jtab' = t
  BY DEF Begin
<1>3. NamesOf(t) \subseteq EntryNames
  BY <1>1, NamesLemma, EntriesLemma, ListLemma DEF Pair
<1>4. w \in Walk /\ w.kind = kind /\ w.present = NamesOf(t) /\ w.seen = <<>>
  <2>1. NoWalk \in Walk /\ NoWalk.seen = <<>>
    BY DEF NoWalk, Walk, NoEntry
  <2>2. NamesOf(t) \in SUBSET EntryNames /\ kind \in {"none", "iter", "foreach"}
    BY <1>3
  <2> HIDE DEF t
  <2> QED BY <2>1, <2>2 DEF Walk
<1>5. t.count \in Nat /\ t.list \in Seq(Steps(t)) /\ Len(t.list) = t.count
  BY <1>1, ListLemma
<1>6. n = NoEntry \/ OnList(t, n)
  <2>1. CASE t.list = <<>>
    BY <2>1
  <2>2. CASE t.list # <<>>
    <3>1. 1 \in 1 .. t.count
      BY <1>5, <2>2
    <3> QED BY <2>2, <3>1 DEF OnList
  <2> QED BY <2>1, <2>2
<1>7. ASSUME NEW a \in NamesOf(t) PROVE ~(n = NoEntry \/ Before(t, a, t.table[n].k))
  <2>1. PICK q \in 1 .. t.count : Entries(t)[q].k = a
    BY <1>1, NamesLemma
  <2>2. 1 \in 1 .. t.count /\ t.list # <<>>
    BY <1>5, <2>1
  <2>3. n = t.list[1] /\ Entries(t)[1].k = t.table[n].k
    BY <1>1, <2>2, NamesLemma
  <2>4. n # NoEntry
    <3>1. n \in Steps(t) /\ t.size \in Nat
      BY <1>1, <2>2, <2>3, ListLemma DEF TableOk, Shape
    <3> QED BY <3>1 DEF Steps, NoEntry
  <2>5. Before(t, a, t.table[n].k) <=> q < 1
    <3>1. Before(t, Entries(t)[q].k, Entries(t)[1].k) <=> q < 1
      BY <1>1, <2>1, <2>2, OrderLemma
    <3> HIDE DEF n
    <3> QED BY <2>1, <2>3, <3>1
  <2> HIDE DEF n
  <2>6. ~(q < 1)
    BY <2>1
  <2> QED BY <2>4, <2>5, <2>6
<1> HIDE DEF w, n, t
<1>8. SeenOnce(w) /\ SeenInOrder(t, w) /\ \A a : ~Was(w, a)
  BY <1>4 DEF SeenOnce, SeenInOrder, Was
<1>9. WalkOk(t, Visit(w, t, n))
  <2>1. w.kind # "none"
    BY <1>4
  <2>2. \A a \in w.present : Was(w, a) <=> (n = NoEntry \/ Before(t, a, t.table[n].k))
    BY <1>4, <1>7, <1>8
  <2> QED BY <1>1, <1>4, <1>6, <1>8, <2>1, <2>2, VisitLemma
<1> QED BY <1>1, <1>2, <1>9 DEF GoodInv

LEMMA IterNextInv == GoodInv /\ json_object_iter_next => GoodInv'
<1> SUFFICES ASSUME GoodInv, json_object_iter_next PROVE GoodInv'
  OBVIOUS
<1> DEFINE t == jtab
           w == jit
           n == NextOf(t, w.at)
<1>1. TableOk(t) /\ WalkOk(t, w) /\ w.kind = "iter" /\ w.at # NoEntry
  BY DEF GoodInv, json_object_iter_next
<1>2. jit' = Visit(w, t, n) /\ jtab' = t
  BY DEF json_object_iter_next
<1>3. PICK p \in 1 .. t.count : t.list[p] = w.at
  BY <1>1 DEF WalkOk, OnList
<1>4. /\ n = IF p < t.count THEN t.list[p + 1] ELSE NoEntry
      /\ p < t.count => t.list[p + 1] # NoEntry
      /\ \A a \in NamesOf(t) :
            (a = Entries(t)[p].k \/ Before(t, a, Entries(t)[p].k))
            <=> (p < t.count => Before(t, a, Entries(t)[p + 1].k))
  BY <1>1, <1>3, NextLemma
<1>5. p < t.count => p + 1 \in 1 .. t.count
  BY <1>1, ListLemma
<1>6. n = NoEntry \/ OnList(t, n)
  BY <1>4, <1>5 DEF OnList
<1>7. Entries(t)[p].k = t.table[w.at].k
  BY <1>1, <1>3, NamesLemma
<1>8. n # NoEntry => Entries(t)[p + 1].k = t.table[n].k
  BY <1>1, <1>4, <1>5, NamesLemma
<1>9. \A a \in w.present : Was(w, a) <=> (a = t.table[w.at].k \/ Before(t, a, t.table[w.at].k))
  BY <1>1 DEF WalkOk, Past
<1>10. w.present \subseteq NamesOf(t) /\ w \in Walk /\ SeenOnce(w) /\ SeenInOrder(t, w)
  BY <1>1 DEF WalkOk
<1> HIDE DEF t, w, n
<1>11. \A a \in w.present : Was(w, a) <=> (n = NoEntry \/ Before(t, a, t.table[n].k))
  <2>1. ASSUME NEW a \in w.present
        PROVE  Was(w, a) <=> (n = NoEntry \/ Before(t, a, t.table[n].k))
    <3>1. Was(w, a) <=> (p < t.count => Before(t, a, Entries(t)[p + 1].k))
      BY <1>4, <1>7, <1>9, <1>10
    <3>2. n = NoEntry <=> ~(p < t.count)
      BY <1>4
    <3> QED BY <1>8, <3>1, <3>2
  <2> QED BY <2>1
<1>12. w.kind # "none"
  BY <1>1
<1>13. WalkOk(t, Visit(w, t, n))
  BY <1>1, <1>6, <1>10, <1>11, <1>12, VisitLemma
<1> QED BY <1>1, <1>2, <1>13 DEF GoodInv, t

LEMMA ForeachNextInv == GoodInv /\ ForeachNext => GoodInv'
<1> SUFFICES ASSUME GoodInv, ForeachNext PROVE GoodInv'
  OBVIOUS
<1> DEFINE t == jtab
           w == jit
           n == w.next
<1>1. TableOk(t) /\ WalkOk(t, w) /\ w.kind = "foreach" /\ w.at # NoEntry
  BY DEF GoodInv, ForeachNext
<1>2. jit' = Visit(w, t, n) /\ jtab' = t
  BY DEF ForeachNext
<1>3. n = NoEntry \/ OnList(t, n)
  BY <1>1 DEF WalkOk
<1>4. \A a \in w.present : Was(w, a) <=> (n = NoEntry \/ Before(t, a, t.table[n].k))
  BY <1>1 DEF WalkOk, Past
<1>5. w.present \subseteq NamesOf(t) /\ w \in Walk /\ SeenOnce(w) /\ SeenInOrder(t, w)
  BY <1>1 DEF WalkOk
<1>6. w.kind # "none"
  BY <1>1
<1> HIDE DEF t, w, n
<1>7. WalkOk(t, Visit(w, t, n))
  BY <1>1, <1>3, <1>4, <1>5, <1>6, VisitLemma
<1> QED BY <1>1, <1>2, <1>7 DEF GoodInv, t

\* A step of a walk, from any slot, keeps what the walk is about.
LEMMA VisitWalk ==
    ASSUME NEW t, TableOk(t), NEW w \in Walk, NEW n \in Int
    PROVE  /\ Visit(w, t, n) \in Walk /\ Visit(w, t, n).present = w.present
           /\ Visit(w, t, n).lost = w.lost
<1>1. NoEntry \in Int
  BY DEF NoEntry
<1>2. NextOf(t, n) \in Int
  <2> DEFINE c == CHOOSE i \in 1 .. Len(t.list) - 1 : t.list[i] = n
  <2>1. /\ Len(t.list) = t.count /\ t.count \in Nat /\ t.size \in Nat
        /\ \A i \in 1 .. t.count : t.list[i] \in Steps(t)
    BY ListLemma DEF TableOk, Shape
  <2>2. CASE \E i \in 1 .. Len(t.list) - 1 : t.list[i] = n
    <3>1. c \in 1 .. Len(t.list) - 1
      BY <2>2
    <3> HIDE DEF c
    <3>2. 1 + c \in 1 .. t.count
      BY <2>1, <3>1
    <3>3. t.list[1 + c] \in Int
      BY <2>1, <3>2 DEF Steps
    <3> QED BY <2>2, <3>3 DEF NextOf, c
  <2>3. CASE ~ \E i \in 1 .. Len(t.list) - 1 : t.list[i] = n
    BY <1>1, <2>3 DEF NextOf
  <2> QED BY <2>2, <2>3
<1>3. CASE n = NoEntry
  BY <1>1, <1>3 DEF Visit, Walk
<1>4. CASE n # NoEntry
  <2> DEFINE seen == IF t.table[n].k \in w.present THEN Append(w.seen, t.table[n].k) ELSE w.seen
             next == IF w.kind = "foreach" THEN NextOf(t, n) ELSE NoEntry
  <2>1. Visit(w, t, n) = [w EXCEPT !.at = n, !.seen = seen, !.next = next]
    BY <1>4 DEF Visit
  <2>2. seen \in Seq(EntryNames)
    <3>1. w.seen \in Seq(EntryNames) /\ w.present \subseteq EntryNames
      BY DEF Walk
    <3>2. \A a \in EntryNames : Append(w.seen, a) \in Seq(EntryNames)
      BY <3>1, AppendProperties
    <3> QED BY <3>1, <3>2
  <2>3. next \in Int
    BY <1>1, <1>2
  <2> HIDE DEF seen, next
  <2> QED BY <2>1, <2>2, <2>3 DEF Walk
<1> QED BY <1>3, <1>4

\* Holds of every walk, also of one whose saved entry was deleted.
WalkTyped == TableOk(jtab) /\ jit \in Walk /\ jit.present \subseteq NamesOf(jtab)
TableInv == WalkTyped /\ (~jit.lost => WalkOk(jtab, jit))

\* A new table without a walk.
LEMMA TabInitInv == TabInit => TableInv
<1> SUFFICES ASSUME TabInit PROVE TableInv
  OBVIOUS
<1>1. jtab = lh_table_new(HashEntries) /\ jit = NoWalk
  BY DEF TabInit
<1>2. TableOk(jtab)
  BY <1>1, NewTable, StoreAssumption
<1>3. WalkOk(jtab, jit)
  BY <1>1, NoWalkOk
<1> QED BY <1>2, <1>3 DEF TableInv, WalkTyped, WalkOk

\* Every operation keeps the table in order and what the walk is about
\* (json_object_object_add, json_object_object_del, the two loops).
LEMMA TypedStep == WalkTyped /\ TabNext => WalkTyped'
<1> SUFFICES ASSUME WalkTyped, TabNext PROVE WalkTyped'
  OBVIOUS
<1> DEFINE t == jtab
           u == jtab'
<1>1. TableOk(t) /\ jit \in Walk /\ jit.present \subseteq NamesOf(t) /\ jit.present \subseteq EntryNames
  BY DEF WalkTyped, Walk
<1>2. NoWalk \in Walk /\ NoWalk.present = {}
  BY DEF NoWalk, Walk, NoEntry
<1>3. ASSUME NEW k \in EntryNames, NEW v \in TableValues, TabAdd(k, v) PROVE WalkTyped'
  <2>1. TableOk(u) /\ (StoredNew(t, u, k, v) \/ \E i : StoredAt(t, u, i, k, v))
    BY <1>1, <1>3, StoreLemma, TableAssumption DEF TabAdd
  <2>2. jit' = IF u.resizes # t.resizes THEN NoWalk ELSE jit
    BY <1>3 DEF TabAdd
  <2>3. CASE u.resizes # t.resizes
    BY <1>2, <2>1, <2>2, <2>3 DEF WalkTyped
  <2>4. CASE u.resizes = t.resizes
    <3> HIDE DEF t, u
    <3>1. NamesOf(t) \subseteq NamesOf(u)
      <4>1. CASE StoredNew(t, u, k, v)
        <5>1. /\ u.count = t.count + 1 /\ k \notin NamesOf(t)
              /\ Entries(u) = Append(Entries(t), [k |-> k, v |-> v])
          BY <2>4, <4>1 DEF StoredNew
        <5>2. [k |-> k, v |-> v] \in Pair /\ [k |-> k, v |-> v].k \notin NamesOf(t)
          BY <5>1, TableAssumption DEF Pair
        <5> QED BY <1>1, <2>1, <5>1, <5>2, AppendedOrder
      <4>2. CASE \E i : StoredAt(t, u, i, k, v)
        BY <1>1, <2>1, <4>2, ChangedOrder
      <4> QED BY <2>1, <4>1, <4>2
    <3> QED BY <1>1, <2>1, <2>2, <2>4, <3>1 DEF WalkTyped, t, u
  <2> QED BY <2>3, <2>4
<1>4. ASSUME NEW k \in EntryNames, TabDel(k) PROVE WalkTyped'
  <2> DEFINE n == lh_table_lookup_entry(t, k)
             gone == n # -1 /\ jit.kind = "foreach" /\ n = jit.next
  <2>1. /\ u = IF n = -1 THEN t ELSE lh_table_delete_entry(t, n)
        /\ jit' = [jit EXCEPT !.present = @ \ {k}, !.lost = @ \/ gone]
    BY <1>4 DEF TabDel
  <2>2. IF k \in NamesOf(t)
        THEN \E i \in 1 .. t.count : t.list[i] = n /\ Entries(t)[i].k = k
        ELSE n = -1
    BY <1>1, LookupLemma
  <2> HIDE DEF n, gone, t, u
  <2>3. jit' \in Walk /\ jit'.present = jit.present \ {k}
    <3>1. (jit.lost \/ gone) \in BOOLEAN
      OBVIOUS
    <3> QED BY <1>1, <2>1, <3>1 DEF Walk
  <2>4. CASE n = -1
    BY <1>1, <2>1, <2>3, <2>4 DEF WalkTyped, t, u
  <2>5. CASE n # -1
    <3>1. PICK i \in 1 .. t.count : t.list[i] = n /\ Entries(t)[i].k = k
      BY <2>2, <2>5
    <3>2. u = lh_table_delete_entry(t, t.list[i])
      BY <2>1, <2>5, <3>1
    <3>3. TableOk(u) /\ u.count = t.count - 1 /\ Entries(u) = RemoveAt(Entries(t), i)
      BY <1>1, <3>2, DeleteLemma
    <3>4. NamesOf(t) \ {k} \subseteq NamesOf(u)
      BY <1>1, <3>1, <3>3, RemovedOrder
    <3> QED BY <1>1, <2>3, <3>3, <3>4 DEF WalkTyped, t, u
  <2> QED BY <2>4, <2>5
<1>5. ASSUME NEW kind \in {"iter", "foreach"}, Begin(kind) PROVE WalkTyped'
  BY <1>1, <1>5, BeginInv DEF GoodInv, WalkOk, WalkTyped
<1>6. ASSUME NEW n \in Int, jit' = Visit(jit, t, n), jtab' = t PROVE WalkTyped'
  BY <1>1, <1>6, VisitWalk DEF WalkTyped
<1>7. CASE json_object_iter_next
  <2>1. /\ jit' = Visit(jit, t, NextOf(t, jit.at)) /\ jtab' = t /\ jit.kind = "iter"
    BY <1>7 DEF json_object_iter_next
  <2>2. NextOf(t, jit.at) \in Int
    <3>1. jit.at \in Int /\ NoEntry \in Int
      BY <1>1 DEF Walk, NoEntry
    <3>2. Visit([jit EXCEPT !.kind = "foreach"], t, jit.at) \in Walk
      <4>1. [jit EXCEPT !.kind = "foreach"] \in Walk
        BY <1>1 DEF Walk
      <4> QED BY <1>1, <3>1, <4>1, VisitWalk
    <3>3. jit.at # NoEntry
      BY <1>7 DEF json_object_iter_next
    <3>4. Visit([jit EXCEPT !.kind = "foreach"], t, jit.at).next = NextOf(t, jit.at)
      BY <1>1, <3>3 DEF Visit, Walk
    <3> QED BY <3>2, <3>4 DEF Walk
  <2> QED BY <1>6, <2>1, <2>2
<1>8. CASE ForeachNext
  <2>1. jit' = Visit(jit, t, jit.next) /\ jtab' = t /\ jit.next \in Int
    BY <1>1, <1>8 DEF ForeachNext, Walk
  <2> QED BY <1>6, <2>1
<1> QED BY <1>3, <1>4, <1>5, <1>7, <1>8 DEF TabNext

\* Every operation keeps what is needed to walk, and a loop that lost its
\* saved entry is lost until it has ended.
LEMMA TabNextInv == TableInv /\ [TabNext]_tabVars => TableInv'
<1> SUFFICES ASSUME TableInv, [TabNext]_tabVars PROVE TableInv'
  OBVIOUS
<1>1. WalkTyped /\ TableOk(jtab) /\ jit \in Walk /\ (~jit.lost => GoodInv)
  BY DEF TableInv, WalkTyped, GoodInv
<1>2. CASE TabNext
  <2>1. WalkTyped'
    BY <1>1, <1>2, TypedStep
  <2>2. SUFFICES ASSUME ~jit'.lost PROVE WalkOk(jtab', jit')
    BY <2>1 DEF TableInv
  <2>3. ASSUME NEW k \in EntryNames, NEW v \in TableValues, TabAdd(k, v)
        PROVE  WalkOk(jtab', jit')
    <3>1. jit' = NoWalk \/ jit' = jit
      BY <2>3 DEF TabAdd
    <3> QED BY <1>1, <2>2, <2>3, <3>1, NoWalkOk, AddInv DEF GoodInv
  <2>4. ASSUME NEW k \in EntryNames, TabDel(k) PROVE WalkOk(jtab', jit')
    <3> DEFINE n == lh_table_lookup_entry(jtab, k)
               gone == n # -1 /\ jit.kind = "foreach" /\ n = jit.next
    <3>1. jit' = [jit EXCEPT !.present = @ \ {k}, !.lost = @ \/ gone]
      BY <2>4 DEF TabDel
    <3> HIDE DEF gone
    <3>2. jit'.lost = (jit.lost \/ gone)
      BY <1>1, <3>1 DEF Walk
    <3>3. ~jit.lost
      BY <2>2, <3>2
    <3> QED BY <1>1, <2>2, <2>4, <3>3, DelInv DEF GoodInv
  <2>5. ASSUME NEW kind \in {"iter", "foreach"}, Begin(kind) PROVE WalkOk(jtab', jit')
    BY <1>1, <2>5, BeginInv DEF GoodInv
  <2>6. CASE json_object_iter_next
    <3>1. jit' = Visit(jit, jtab, NextOf(jtab, jit.at))
      BY <2>6 DEF json_object_iter_next
    <3>2. ~jit.lost
      BY <1>1, <2>2, <3>1 DEF Visit, Walk
    <3> QED BY <1>1, <2>6, <3>2, IterNextInv DEF GoodInv
  <2>7. CASE ForeachNext
    <3>1. jit' = Visit(jit, jtab, jit.next)
      BY <2>7 DEF ForeachNext
    <3>2. ~jit.lost
      BY <1>1, <2>2, <3>1 DEF Visit, Walk
    <3> QED BY <1>1, <2>7, <3>2, ForeachNextInv DEF GoodInv
  <2> QED BY <1>2, <2>3, <2>4, <2>5, <2>6, <2>7 DEF TabNext
<1>3. CASE UNCHANGED tabVars
  BY <1>3 DEF tabVars, TableInv, WalkTyped
<1> QED BY <1>2, <1>3

LEMMA TableInvariant == TabSpec => []TableInv
BY TabInitInv, TabNextInv, PTL DEF TabSpec

-----------------------------------------------------------------------------
LEMMA TableInvSound == TableInv => TableSound
<1> SUFFICES ASSUME TableInv PROVE TableSound
  OBVIOUS
<1> DEFINE t == jtab
           w == jit
<1>1. TableOk(t) /\ w \in Walk /\ (~w.lost => WalkOk(t, w))
  BY DEF TableInv, WalkTyped
<1>2. LookupExact
  <2>1. SUFFICES ASSUME NEW k \in EntryNames
                 PROVE  LET n == lh_table_lookup_entry(t, k)
                        IN  IF k \in NamesOf(t)
                            THEN \E i \in DOMAIN t.list : t.list[i] = n /\ t.table[n].k = k
                            ELSE n = -1
    BY DEF LookupExact
  <2> DEFINE n == lh_table_lookup_entry(t, k)
  <2>2. IF k \in NamesOf(t)
        THEN \E i \in 1 .. t.count : t.list[i] = n /\ Entries(t)[i].k = k
        ELSE n = -1
    BY <1>1, LookupLemma
  <2> HIDE DEF n
  <2>3. /\ DOMAIN t.list = 1 .. t.count
        /\ \A i \in 1 .. t.count : Entries(t)[i].k = t.table[t.list[i]].k
    BY <1>1, ListLemma, NamesLemma
  <2>4. IF k \in NamesOf(t)
        THEN \E i \in DOMAIN t.list : t.list[i] = n /\ t.table[n].k = k
        ELSE n = -1
    BY <2>2, <2>3
  <2> QED BY <2>4 DEF n
<1>3. WalkComplete
  <2>1. SUFFICES ASSUME w.kind # "none", w.at = NoEntry, ~w.lost
                 PROVE  /\ \A k \in w.present : \E i \in DOMAIN w.seen : Shown(k) = {i}
                        /\ \A p, q \in DOMAIN t.list :
                              \A i \in Shown(Entries(t)[p].k), j \in Shown(Entries(t)[q].k) :
                                 p < q /\ {w.seen[i], w.seen[j]} \subseteq w.present => i < j
    BY DEF WalkComplete
  <2>2. DOMAIN w.seen = 1 .. Len(w.seen)
    BY <1>1 DEF Walk
  <2> WalkOk(t, w)
    BY <1>1, <2>1
  <2>3. ASSUME NEW k \in w.present PROVE \E i \in DOMAIN w.seen : Shown(k) = {i}
    <3>1. Was(w, k)
      BY <1>1, <2>1 DEF WalkOk, Past
    <3>2. PICK i \in 1 .. Len(w.seen) : w.seen[i] = k
      BY <3>1 DEF Was
    <3>3. \A j \in 1 .. Len(w.seen) : w.seen[j] = k <=> j = i
      BY <1>1, <3>2 DEF WalkOk, SeenOnce
    <3>4. Shown(k) = {i}
      BY <2>2, <3>3 DEF Shown
    <3> QED BY <2>2, <3>4
  <2>4. ASSUME NEW p \in DOMAIN t.list, NEW q \in DOMAIN t.list,
               NEW i \in Shown(Entries(t)[p].k), NEW j \in Shown(Entries(t)[q].k),
               p < q, {w.seen[i], w.seen[j]} \subseteq w.present
        PROVE  i < j
    <3>1. p \in 1 .. t.count /\ q \in 1 .. t.count
      BY <1>1, ListLemma
    <3>2. Before(t, Entries(t)[p].k, Entries(t)[q].k)
      BY <1>1, <2>4, <3>1, OrderLemma
    <3>3. /\ i \in 1 .. Len(w.seen) /\ w.seen[i] = Entries(t)[p].k
          /\ j \in 1 .. Len(w.seen) /\ w.seen[j] = Entries(t)[q].k
      BY <2>2 DEF Shown
    <3> QED BY <1>1, <2>4, <3>2, <3>3 DEF WalkOk, SeenInOrder
  <2> QED BY <2>3, <2>4
<1> QED BY <1>2, <1>3 DEF TableSound

\* Whatever was stored, deleted and moved before, json_object_object_get_ex
\* finds the names that are there and no other (LookupExact), and a walk with
\* either kind of loop shows the names that stay there once each and in order
\* (WalkComplete), unless the body of a loop deleted the entry that the loop had
\* saved as its next one.
THEOREM TableAlwaysSound == TabSpec => []TableSound
BY TableInvariant, TableInvSound, PTL

-----------------------------------------------------------------------------
LEMMA MapStep == TableInv /\ [TabNext]_tabVars => [Map!MapNext]_(Entries(jtab))
<1> SUFFICES ASSUME TableInv, [TabNext]_tabVars, Entries(jtab') # Entries(jtab) PROVE Map!MapNext
  OBVIOUS
<1> DEFINE t == jtab
           u == jtab'
           E == Entries(t)
           F == Entries(u)
<1>1. TableOk(t)
  BY DEF TableInv, WalkTyped
<1>2. t.count \in Nat /\ E \in Seq(Pair) /\ DOMAIN E = 1 .. t.count /\ Len(E) = t.count
  BY <1>1, ListLemma, EntriesLemma
<1>3. \A k : Map!Place(k) = {i \in 1 .. t.count : E[i].k = k}
  BY <1>2 DEF Map!Place
<1>4. \A k : k \in NamesOf(t) <=> Map!Place(k) # {}
  <2>1. NamesOf(t) = {E[i].k : i \in 1 .. t.count}
    BY <1>1, NamesLemma
  <2> HIDE DEF E, t
  <2> QED BY <1>3, <2>1
<1>5. ASSUME NEW k \in EntryNames, NEW v \in TableValues, TabAdd(k, v) PROVE Map!StorePair(k, v)
  <2> DEFINE e == [k |-> k, v |-> v]
  <2>1. StoredNew(t, u, k, v) \/ \E i : StoredAt(t, u, i, k, v)
    BY <1>1, <1>5, StoreLemma, TableAssumption DEF TabAdd
  <2> HIDE DEF E, F
  <2>2. CASE StoredNew(t, u, k, v)
    <3>1. F = Append(E, e) /\ Map!Place(k) = {}
      BY <1>4, <2>2 DEF StoredNew, E, F
    <3> QED BY <3>1 DEF Map!StorePair, E, F
  <2>3. CASE \E i : StoredAt(t, u, i, k, v)
    <3>1. PICK i : StoredAt(t, u, i, k, v)
      BY <2>3
    <3>2. i \in 1 .. t.count /\ E[i].k = k /\ F = Changed(E, i, v)
      BY <3>1 DEF StoredAt, E, F
    <3>3. \A j \in 1 .. t.count : j \in Map!Place(k) <=> j = i
      BY <1>1, <1>3, <3>2, EntriesLemma DEF E
    <3>4. [j \in DOMAIN E |-> IF j = i THEN [k |-> E[i].k, v |-> v] ELSE E[j]]
          = [j \in DOMAIN E |-> IF j \in Map!Place(k) THEN e ELSE E[j]]
      BY <1>2, <3>2, <3>3
    <3>5. F = [j \in DOMAIN E |-> IF j \in Map!Place(k) THEN e ELSE E[j]]
      BY <3>2, <3>4 DEF Changed
    <3>6. Map!Place(k) # {}
      BY <3>2, <3>3
    <3> QED BY <3>5, <3>6 DEF Map!StorePair, E, F
  <2> QED BY <2>1, <2>2, <2>3
<1>6. ASSUME NEW k \in EntryNames, TabDel(k) PROVE Map!RemovePair(k)
  <2> DEFINE n == lh_table_lookup_entry(t, k)
  <2>1. u = IF n = -1 THEN t ELSE lh_table_delete_entry(t, n)
    BY <1>6 DEF TabDel
  <2>2. IF k \in NamesOf(t)
        THEN \E i \in 1 .. t.count : t.list[i] = n /\ E[i].k = k
        ELSE n = -1
    BY <1>1, LookupLemma
  <2> HIDE DEF n
  <2>3. n # -1
    BY <2>1
  <2>4. PICK i \in 1 .. t.count : t.list[i] = n /\ E[i].k = k
    BY <2>2, <2>3
  <2>5. u = lh_table_delete_entry(t, t.list[i])
    BY <2>1, <2>3, <2>4
  <2>6. F = RemoveAt(E, i)
    BY <1>1, <2>5, DeleteLemma
  <2>7. i \in Map!Place(k)
    BY <1>3, <2>4
  <2> QED BY <2>6, <2>7 DEF Map!RemovePair, Map!RemoveAt, RemoveAt
<1>7. CASE TabNext
  <2>1. CASE \E k \in EntryNames, v \in TableValues : TabAdd(k, v)
    BY <1>5, <2>1 DEF Map!MapNext
  <2>2. CASE \E k \in EntryNames : TabDel(k)
    BY <1>6, <2>2 DEF Map!MapNext
  <2>3. CASE u = t
    BY <2>3
  <2>4. \/ \E k \in EntryNames, v \in TableValues : TabAdd(k, v)
        \/ \E k \in EntryNames : TabDel(k)
        \/ u = t
    BY <1>7 DEF TabNext, Begin, json_object_iter_next, ForeachNext
  <2> QED BY <2>1, <2>2, <2>3, <2>4
<1>8. CASE UNCHANGED tabVars
  BY <1>8 DEF tabVars
<1> QED BY <1>7, <1>8

\* The entries of the table, in the order of its list, are the ordered map of
\* JsonMap: every json_object_object_add stores a pair, every
\* json_object_object_del removes one or finds none, resizing and walks change
\* nothing.
THEOREM TableIsMap == TabSpec => ImplementsMap
<1>1. TabInit => Map!MapInit
  BY NewTable, StoreAssumption DEF TabInit, Map!MapInit
<1> QED BY <1>1, TableInvariant, MapStep, PTL DEF TabSpec, ImplementsMap, Map!MapSpec
=============================================================================
