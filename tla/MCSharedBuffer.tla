--------------------------- MODULE MCSharedBuffer ---------------------------
(***************************************************************************)
(* SharedBuffer for TLC: three VCs, two of which share a private pool of   *)
(* one slot, over a buffer of four slots, under all four policies.         *)
(***************************************************************************)
EXTENDS SharedBuffer, TLC

CONSTANTS v1, v2, v3, pa, pb

Unset == -1
MCPoolOf == v1 :> pa @@ v2 :> pa @@ v3 :> pb
MCPrivateSize == pa :> 1 @@ pb :> 1
AllPolicies == {"shared", "limited", "dynamic", "shifting"}
Symmetry == Permutations(Senders) \cup Permutations({v1, v2})

=============================================================================
