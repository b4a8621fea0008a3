---------------------------- MODULE MCCreditLink ----------------------------
(***************************************************************************)
(* Instances of CreditLink for TLC.  VCs and Senders are interchangeable,  *)
(* which the safety runs use as a symmetry; the liveness run does not.     *)
(***************************************************************************)
EXTENDS CreditLink, TLC

Unset == -1

Symmetry == Permutations(VCs) \cup Permutations(Senders)

=============================================================================
