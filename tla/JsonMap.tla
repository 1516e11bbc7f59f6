------------------------------ MODULE JsonMap ------------------------------
(* What the table of a JSON object promises: a map from names to values that  *)
(* remembers the order in which the names came.  A name that is stored again  *)
(* keeps its place; a name that is removed and stored again comes last.       *)
EXTENDS Sequences, Naturals, SequencesExt

CONSTANTS MapKeys, MapValues
VARIABLE pairs     \* sequence of [k, v]

Place(k) == {i \in DOMAIN pairs : pairs[i].k = k}
StorePair(k, v) ==
  pairs' = IF Place(k) = {} THEN Append(pairs, [k |-> k, v |-> v])
           ELSE [i \in DOMAIN pairs |-> IF i \in Place(k) THEN [k |-> k, v |-> v] ELSE pairs[i]]
RemovePair(k) == \E i \in Place(k) : pairs' = RemoveAt(pairs, i)

MapInit == pairs = <<>>
\* Storing the value that is there already is no step.
MapNext ==
  /\ pairs' # pairs
  /\ \E k \in MapKeys : RemovePair(k) \/ \E v \in MapValues : StorePair(k, v)
MapSpec == MapInit /\ [][MapNext]_pairs
=============================================================================
