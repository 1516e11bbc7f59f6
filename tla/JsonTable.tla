----------------------------- MODULE JsonTable -----------------------------
(* json-c: the table of one JSON object under json_object_object_add and      *)
(* json_object_object_del, and a client that walks through it while it does   *)
(* so, with json_object_iter_next (json_object_iterator.c) or with the loop   *)
(* json_object_object_foreach (json_object.h), which fetches the next entry   *)
(* before its body runs.                                                      *)
EXTENDS JsonStore, FiniteSets

CONSTANT TableValues \* the values that are stored
ASSUME TableAssumption == TableValues \subseteq Pointers

VARIABLES
  jtab,              \* struct lh_table
  jit                \* the walk: kind ("none", "iter", "foreach"), slot at, saved slot
                     \* next, names present since it began, those of them seen,
                     \* and lost: a history, the saved entry has been deleted
tabVars == <<jtab, jit>>

NoEntry == -1            \* a NULL entry pointer
NoWalk == [kind |-> "none", at |-> NoEntry, next |-> NoEntry, seen |-> <<>>, present |-> {},
           lost |-> FALSE]
NamesOf(t) == {Entries(t)[i].k : i \in DOMAIN t.list}
NextOf(t, n) ==
  IF \E i \in 1..Len(t.list) - 1 : t.list[i] = n
  THEN t.list[1 + CHOOSE i \in 1..Len(t.list) - 1 : t.list[i] = n] ELSE NoEntry
Visit(w, t, n) ==
  IF n = NoEntry THEN [w EXCEPT !.at = NoEntry, !.next = NoEntry]
  ELSE [w EXCEPT !.at = n,
                 !.seen = IF t.table[n].k \in w.present THEN Append(@, t.table[n].k) ELSE @,
                 !.next = IF w.kind = "foreach" THEN NextOf(t, n) ELSE NoEntry]

TabInit == jtab = lh_table_new(HashEntries) /\ jit = NoWalk

\* A new name may move the table, and every pointer into it is lost; the
\* client then gives up its walk.
TabAdd(k, v) ==
  /\ jtab' = StoreEntry(jtab, k, v)
  /\ jit' = IF jtab'.resizes # jtab.resizes THEN NoWalk ELSE jit

\* json_object_object_del.  Deleting the pair of an iterator invalidates the
\* iterator (json_object_iterator.h:79), and a client does not.  The loop may
\* delete anything, also the entry that it has saved as its next one; that
\* entry is freed then and has no successor.
TabDel(k) ==
  LET n == lh_table_lookup_entry(jtab, k)
  IN  /\ n = -1 \/ jit.kind # "iter" \/ n # jit.at
      /\ jtab' = IF n = -1 THEN jtab ELSE lh_table_delete_entry(jtab, n)
      /\ jit' = [jit EXCEPT !.present = @ \ {k},
                            !.lost = @ \/ (n # -1 /\ jit.kind = "foreach" /\ n = jit.next)]

\* json_object_iter_begin, or the start of the loop: the head of the list.
Begin(kind) ==
  /\ jit.at = NoEntry
  /\ jit' = Visit([NoWalk EXCEPT !.kind = kind, !.present = NamesOf(jtab)], jtab,
                  IF jtab.list = <<>> THEN NoEntry ELSE jtab.list[1])
  /\ UNCHANGED jtab

json_object_iter_next ==
  /\ jit.kind = "iter" /\ jit.at # NoEntry
  /\ jit' = Visit(jit, jtab, NextOf(jtab, jit.at))
  /\ UNCHANGED jtab
ForeachNext ==
  /\ jit.kind = "foreach" /\ jit.at # NoEntry
  /\ jit' = Visit(jit, jtab, jit.next)
  /\ UNCHANGED jtab

TabNext ==
  \/ \E k \in EntryNames, v \in TableValues : TabAdd(k, v)
  \/ \E k \in EntryNames : TabDel(k)
  \/ \E kind \in {"iter", "foreach"} : Begin(kind)
  \/ json_object_iter_next
  \/ ForeachNext
TabSpec == TabInit /\ [][TabNext]_tabVars
-----------------------------------------------------------------------------
Map == INSTANCE JsonMap WITH pairs <- Entries(jtab), MapKeys <- EntryNames, MapValues <- TableValues
\* Through insertions, collisions, tombstones that are filled again and moves
\* to a larger table, the list of entries is the ordered map of module JsonMap
\* (json_object.c: "the existing key remains valid").
ImplementsMap == Map!MapSpec

\* A lookup finds exactly the names on the list, however the slots between the
\* hash of a name and its entry were filled, deleted and filled again.
LookupExact ==
  \A k \in EntryNames :
    LET n == lh_table_lookup_entry(jtab, k)
    IN  IF k \in NamesOf(jtab)
        THEN \E i \in DOMAIN jtab.list : jtab.list[i] = n /\ jtab.table[n].k = k
        ELSE n = -1

\* A walk that has come to its end has shown every name that was there all the
\* time exactly once and in order, although the client changed values, deleted
\* names and added names on the way.  Out of it are loops in which the client
\* deleted the entry that the loop had saved as its next one: they end there
\* (see ForeachShowsAll).
Shown(k) == {i \in DOMAIN jit.seen : jit.seen[i] = k}
WalkComplete ==
  (jit.kind # "none" /\ jit.at = NoEntry /\ ~jit.lost) =>
    /\ \A k \in jit.present : \E i \in DOMAIN jit.seen : Shown(k) = {i}
    /\ \A p, q \in DOMAIN jtab.list :
          \A i \in Shown(Entries(jtab)[p].k), j \in Shown(Entries(jtab)[q].k) :
             p < q /\ {jit.seen[i], jit.seen[j]} \subseteq jit.present => i < j

\* The table can be searched and walked through: both of the above.
TableSound == LookupExact /\ WalkComplete

\* A loop that has come to its end has shown every name that was there all the
\* time, whatever its body deleted: "Deleting an existing key, or replacing an
\* existing key with a new value IS allowed" (json_object.h:336-337).
ForeachShowsAll ==
  (jit.kind = "foreach" /\ jit.at = NoEntry) => \A k \in jit.present : Shown(k) # {}
=============================================================================
