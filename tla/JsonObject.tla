----------------------------- MODULE JsonObject -----------------------------
(* json-c: objects that refer to each other and their reference counts        *)
(* (json_object.c).  Releasing an object releases what it holds, so a call of *)
(* json_object_put is a cascade of such calls; each of them is one step here, *)
(* and the client waits for the last.  A value is replaced or deleted in the  *)
(* middle of a change of its container: first it is put, then its place is    *)
(* written.  The client keeps to the rules of json_object.h: it uses an       *)
(* object while it holds a reference or can reach it from one, hands one of   *)
(* its references to the container it stores a value in, and makes no cycle.  *)
EXTENDS JsonStore, FiniteSets

CONSTANTS
  TypeOf,            \* the objects, by number from 1: "object", "array" or "leaf"
  MemberNames,       \* bound: names of members the client uses
  MaxRefs,           \* bound: references the client holds to one object
  MaxLen             \* bound: length of an array
Ids == DOMAIN TypeOf
ASSUME TypeOfAssumption ==
  /\ TypeOf \in Seq({"object", "array", "leaf"}) /\ Ids \subseteq Pointers
  /\ MemberNames \subseteq EntryNames
  /\ MaxRefs \in Nat /\ MaxLen \in Nat

VARIABLES
  jheap,             \* struct json_object, of every object
  jmine,             \* references held by the client
  jputs,             \* references that the release in progress still has to put
  jdue               \* the change that waits for it: of slot `slot` in container c
objVars == <<jheap, jmine, jputs, jdue>>

Gone == [ref |-> 0, tab |-> lh_table_new(0), arr |-> [array_list_new EXCEPT !.size = 0]]
NoChange == [op |-> "none", c |-> NULL, slot |-> 0, v |-> NULL]
Idle == jputs = <<>> /\ jdue.op = "none"

Live(id) == jheap[id].ref > 0
\* The slots of a container in the order in which it lets go, and what they hold.
Slots(id) == IF TypeOf[id] = "object" THEN jheap[id].tab.list
             ELSE [i \in 1..jheap[id].arr.length |-> i - 1]
ValueAt(id, n) == IF TypeOf[id] = "object" THEN jheap[id].tab.table[n].v ELSE jheap[id].arr.array[n]
Held(id) == [i \in DOMAIN Slots(id) |-> ValueAt(id, Slots(id)[i])]
\* The reference in a slot that is being changed is not the container's any more.
Owned(id) == [i \in DOMAIN Slots(id) |-> IF id = jdue.c /\ Slots(id)[i] = jdue.slot
                                         THEN NULL ELSE Held(id)[i]]

Refers(p, id) == \E i \in DOMAIN Owned(p) : Owned(p)[i] = id
Closed(S) == \A p \in S, id \in Ids : Refers(p, id) => id \in S
Reach(S) == {id \in Ids : \A T \in SUBSET Ids : S \subseteq T /\ Closed(T) => id \in T}
Mine == {id \in Ids : jmine[id] > 0}
Usable == Reach(Mine)

ObjInit ==
  /\ jheap = [id \in Ids |-> Gone]
  /\ jmine = [id \in Ids |-> 0]
  /\ jputs = <<>>
  /\ jdue = NoChange

\* Mutant: frees the container alone.
Bug_json_object_put ==
  /\ jputs # <<>>
  /\ jputs' = Tail(jputs)
  /\ LET id == Head(jputs)
     IN  jheap' = IF id = NULL THEN jheap
                  ELSE IF jheap[id].ref # 1 THEN [jheap EXCEPT ![id].ref = @ - 1]
                  ELSE [jheap EXCEPT ![id] = Gone]
  /\ UNCHANGED <<jmine, jdue>>
\* One call of json_object_put, with the _delete of the object's type:
\* lh_table_free and array_list_free put what is inside.  The memory goes after
\* the last of it, but the count is 0 from the start.
json_object_put ==
  /\ jputs # <<>>
  /\ LET id == Head(jputs)
     IN  \/ /\ id = NULL
            /\ jputs' = Tail(jputs)
            /\ UNCHANGED jheap
         \/ /\ id # NULL /\ jheap[id].ref # 1
            /\ jheap' = [jheap EXCEPT ![id].ref = @ - 1]
            /\ jputs' = Tail(jputs)
         \/ /\ id # NULL /\ jheap[id].ref = 1
            /\ jheap' = [jheap EXCEPT ![id] = Gone]
            /\ jputs' = Held(id) \o Tail(jputs)
  /\ UNCHANGED <<jmine, jdue>>

\* json_object_new_object, _new_array and the leaf constructors: an address
\* may be used again.
json_object_new(id) ==
  /\ Idle /\ ~Live(id)
  /\ jheap' = [jheap EXCEPT ![id] =
       [ref |-> 1,
        tab |-> IF TypeOf[id] = "object" THEN lh_table_new(HashEntries) ELSE Gone.tab,
        arr |-> IF TypeOf[id] = "array" THEN array_list_new ELSE Gone.arr]]
  /\ jmine' = [jmine EXCEPT ![id] = 1]
  /\ UNCHANGED <<jputs, jdue>>

\* Also for what json_object_object_get and json_object_array_get_idx return
\* without a reference.
json_object_get(id) ==
  /\ Idle /\ id \in Usable /\ jmine[id] < MaxRefs
  /\ jheap' = [jheap EXCEPT ![id].ref = @ + 1]
  /\ jmine' = [jmine EXCEPT ![id] = @ + 1]
  /\ UNCHANGED <<jputs, jdue>>

ClientPut(id) ==
  /\ Idle /\ jmine[id] > 0
  /\ jputs' = <<id>>
  /\ jmine' = [jmine EXCEPT ![id] = @ - 1]
  /\ UNCHANGED <<jheap, jdue>>

\* The client may store v in c: it gives up a reference to v.
MayStore(c, v) == c \in Usable /\ (v # NULL => jmine[v] > 0 /\ c \notin Reach({v}))
Given(v) == jmine' = IF v = NULL THEN jmine ELSE [jmine EXCEPT ![v] = @ - 1]

\* Puts old and has the rest of the change wait for it.
PutThen(old, op, c, n, v) ==
  /\ jputs' = <<old>>
  /\ jdue' = [op |-> op, c |-> c, slot |-> n, v |-> v]
  /\ UNCHANGED jmine

\* A new name gets an entry; the entry of a name that is there already gets the
\* new value.
json_object_object_add(c, k, v) ==
  LET n == lh_table_lookup_entry(jheap[c].tab, k)
  IN  /\ Idle /\ TypeOf[c] = "object" /\ MayStore(c, v)
      /\ \/ /\ n = -1
            /\ jheap' = [jheap EXCEPT ![c].tab = lh_table_insert(@, k, v)]
            /\ Given(v)
            /\ UNCHANGED <<jputs, jdue>>
         \/ /\ n # -1
            /\ PutThen(ValueAt(c, n), "value", c, n, v)
            /\ UNCHANGED jheap

\* free_fn puts the value while the entry is still in the table.  A name that is
\* not there changes nothing.
json_object_object_del(c, k) ==
  LET n == lh_table_lookup_entry(jheap[c].tab, k)
  IN  /\ Idle /\ TypeOf[c] = "object" /\ c \in Usable /\ n # -1
      /\ PutThen(ValueAt(c, n), "delete", c, n, NULL)
      /\ UNCHANGED jheap

\* json_object_array_add is json_object_array_put_idx at the length.  When the
\* array cannot grow, -1 is returned and the reference stays with the client.
json_object_array_put_idx(c, idx, v) ==
  LET arr == array_list_expand_internal(jheap[c].arr, idx + 1)
  IN  /\ Idle /\ TypeOf[c] = "array" /\ MayStore(c, v)
      /\ \/ /\ PutThen(arr.array[idx], "element", c, idx, v)
            /\ jheap' = [jheap EXCEPT ![c].arr = arr]
         \/ idx + 1 >= jheap[c].arr.size /\ UNCHANGED objVars

\* The old value has been put: its place is written.
Change ==
  /\ jputs = <<>> /\ jdue.op # "none"
  /\ LET c == jdue.c
         n == jdue.slot
         v == jdue.v
     IN  /\ \/ /\ jdue.op = "value"
               /\ jheap' = [jheap EXCEPT ![c].tab.table[n].v = v]
            \/ /\ jdue.op = "delete"
               /\ jheap' = [jheap EXCEPT ![c].tab = lh_table_delete_entry(@, n)]
            \/ /\ jdue.op = "element"
               /\ jheap' = [jheap EXCEPT ![c].arr = PutElement(@, n, v)]
         /\ Given(v)
  /\ jdue' = NoChange
  /\ UNCHANGED jputs

ObjNext ==
  \/ json_object_put
  \/ Change
  \/ \E id \in Ids : json_object_new(id) \/ json_object_get(id) \/ ClientPut(id)
  \/ \E c \in Ids, k \in MemberNames : json_object_object_del(c, k)
  \/ \E c \in Ids, v \in Ids \cup {NULL} :
       \/ \E k \in MemberNames : json_object_object_add(c, k, v)
       \/ \E idx \in 0..MaxLen - 1 : json_object_array_put_idx(c, idx, v)
ObjSpec == ObjInit /\ [][ObjNext]_objVars
-----------------------------------------------------------------------------
\* An object is alive exactly as long as the client, or a reference that is
\* still to be put, leads to it: nothing is freed that can still be used, and
\* nothing is left behind, however values are shared, replaced and deleted.
AliveIffReachable ==
  {id \in Ids : Live(id)} = Reach(Mine \cup {id \in Ids : \E i \in DOMAIN jputs : jputs[i] = id})

\* Every reference count is what the client holds plus one for every place in
\* a container and for every put that is still to come, so that a put by one
\* holder never takes what another holds.
Places(id) == UNION {{c} \X {i \in DOMAIN Owned(c) : Owned(c)[i] = id} : c \in Ids}
CountsExact ==
  \A id \in Ids :
    jheap[id].ref = jmine[id] + Cardinality(Places(id))
                              + Cardinality({i \in DOMAIN jputs : jputs[i] = id})

\* The container that is being changed, the slot in it, and the new value are
\* still there when the old value and all that it held are gone.
ChangeLands ==
  jdue.op # "none" =>
    /\ Live(jdue.c)
    /\ jdue.op \in {"value", "delete"} => \E i \in DOMAIN Slots(jdue.c) : Slots(jdue.c)[i] = jdue.slot
    /\ jdue.op = "element" => jdue.slot < jheap[jdue.c].arr.size
    /\ jdue.v # NULL => jmine[jdue.v] > 0

\* The counts are right and decide what lives, and no change is left hanging.
ReferencesSound == AliveIffReachable /\ CountsExact /\ ChangeLands
=============================================================================
