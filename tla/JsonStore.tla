----------------------------- MODULE JsonStore -----------------------------
(* json-c: the two containers of JSON values.  An lh_table (linkhash.c) is a  *)
(* hash table with linear probing whose entries are also on a list in the     *)
(* order of their insertion; the entry of a deleted name stays as a tombstone.*)
(* An array_list (arraylist.c) is a growing array of pointers.                *)
EXTENDS Integers, Sequences, SequencesExt

CONSTANTS
  HashEntries,       \* JSON_OBJECT_DEF_HASH_ENTRIES
  ArraySize,         \* ARRAY_LIST_DEFAULT_SIZE
  EntryNames,             \* names of members
  Pointers,          \* what a table or an array can refer to
  HashOf             \* lh_char_hash: a number for every name
NULL == 0
ASSUME StoreAssumption ==
  /\ HashEntries \in Nat \ {0} /\ ArraySize \in Nat \ {0}
  /\ HashOf \in [EntryNames -> Nat] /\ EntryNames \cap {"EMPTY", "FREED"} = {}
  /\ NULL \in Pointers

LH_EMPTY == [k |-> "EMPTY", v |-> NULL]
LH_FREED == [k |-> "FREED", v |-> NULL]

\* list: the slots in use, from head to tail.
lh_table_new(size) ==
  [size |-> size, table |-> [n \in 0..size - 1 |-> LH_EMPTY], list |-> <<>>, count |-> 0,
   resizes |-> 0]
Used(e) == e \notin {LH_EMPTY, LH_FREED}
\* The slot that the i-th step of probing for k looks at.
ProbeAt(t, k, i) == (HashOf[k] + i) % t.size
Steps(t) == 0..t.size - 1

\* The end of lh_table_insert: the first slot that is empty or freed.
PlaceEntry(t, k, v) ==
  LET i == CHOOSE j \in Steps(t) : /\ ~Used(t.table[ProbeAt(t, k, j)])
                                   /\ \A g \in 0..j - 1 : Used(t.table[ProbeAt(t, k, g)])
      n == ProbeAt(t, k, i)
  IN  [t EXCEPT !.table[n] = [k |-> k, v |-> v], !.list = Append(@, n), !.count = @ + 1]
\* Walks the slots instead of the list, and loses the order.
Bug_lh_table_resize(t, new_size) ==
  LET new_t == FoldLeft(LAMBDA nt, n : IF Used(t.table[n])
                                       THEN PlaceEntry(nt, t.table[n].k, t.table[n].v) ELSE nt,
                        lh_table_new(new_size), [i \in 1..t.size |-> i - 1])
  IN  [new_t EXCEPT !.count = t.count, !.resizes = t.resizes + 1]
\* The entries move to a new table in list order; tombstones stay behind.
Entries(t) == [i \in DOMAIN t.list |-> t.table[t.list[i]]]
MoveEntry(new_t, e) == PlaceEntry(new_t, e.k, e.v)
lh_table_resize(t, new_size) ==
  [FoldLeft(MoveEntry, lh_table_new(new_size), Entries(t))
     EXCEPT !.count = t.count, !.resizes = t.resizes + 1]

\* LH_LOAD_FACTOR is 0.66.
lh_table_insert(t, k, v) ==
  PlaceEntry(IF t.count * 100 >= t.size * 66 THEN lh_table_resize(t, 2 * t.size) ELSE t, k, v)

\* Probing stops at an empty slot, passes tombstones, and sees no slot twice.
\* The slot of k, or -1.
lh_table_lookup_entry(t, k) ==
  LET hits == {i \in Steps(t) : /\ t.table[ProbeAt(t, k, i)].k = k
                                /\ \A g \in 0..i - 1 : t.table[ProbeAt(t, k, g)] # LH_EMPTY}
  IN  IF hits = {} THEN -1
      ELSE ProbeAt(t, k, CHOOSE i \in hits : \A j \in hits : i <= j)

\* Takes slot n off the list: its neighbours are linked to each other.
Unlink(list, n) == RemoveAt(list, CHOOSE i \in DOMAIN list : list[i] = n)
\* Empties the slot, so that names that were probed past it are lost.
Bug_lh_table_delete_entry(t, n) ==
  [t EXCEPT !.table[n] = LH_EMPTY, !.count = @ - 1, !.list = Unlink(@, n)]
lh_table_delete_entry(t, n) ==
  [t EXCEPT !.table[n] = LH_FREED, !.count = @ - 1, !.list = Unlink(@, n)]

\* The table side of json_object_object_add: the entry of a name that is there
\* already gets the new value.
StoreEntry(t, k, v) ==
  LET n == lh_table_lookup_entry(t, k)
  IN  IF n = -1 THEN lh_table_insert(t, k, v) ELSE [t EXCEPT !.table[n].v = v]
-----------------------------------------------------------------------------
array_list_new == [size |-> ArraySize, length |-> 0, array |-> [i \in 0..ArraySize - 1 |-> NULL]]

array_list_expand_internal(arr, max) ==
  LET new_size == IF 2 * arr.size < max THEN max ELSE 2 * arr.size
  IN  IF max < arr.size THEN arr
      ELSE [arr EXCEPT !.size = new_size,
                       !.array = [i \in 0..new_size - 1 |-> IF i < arr.size THEN @[i] ELSE NULL]]
\* The end of array_list_put_idx, in an array that is large enough.
PutElement(arr, idx, data) ==
  [arr EXCEPT !.array[idx] = data, !.length = IF @ <= idx THEN idx + 1 ELSE @]
=============================================================================
