---------------------------- MODULE MCRmnetData ----------------------------
(***************************************************************************)
(* Instances of RmnetData for TLC.  A name's length is 15 (the longest     *)
(* that fits), 16 or 17.                                                   *)
(***************************************************************************)
EXTENDS RmnetData

CONSTANTS a, n16, n17

OneName == {a}
BoundaryNames == {a, n16, n17}
Lengths == [n \in Names |-> CASE n = n16 -> 16 [] n = n17 -> 17 [] OTHER -> 15]

BoundaryEps == {-2, 31}

=============================================================================
