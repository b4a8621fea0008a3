------------------------------- MODULE MCCosim -------------------------------
(***************************************************************************)
(* Instances of Cosim for TLC: two nodes whose writers use different VCs.  *)
(***************************************************************************)
EXTENDS Cosim, TLC

OwnVC == [n \in 0 .. 1 |-> n]

\* Both nodes send to node 1, node 1 also to node 0.
Crossing == (0 :> {1}) @@ (1 :> {0, 1})

\* One node, which sends to itself on VC 0.
FirstVC == [n \in 0 .. 0 |-> 0]
Itself == [n \in 0 .. 0 |-> {0}]

=============================================================================
