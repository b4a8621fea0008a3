-------------------------------- MODULE Totals --------------------------------
(***************************************************************************)
(* The sum of a function into the naturals.  A value n at x is seen as the *)
(* n slots <<x, 1>> .. <<x, n>>, so that the sum is a cardinality.         *)
(***************************************************************************)
EXTENDS Integers, FiniteSets

Slots(f) == UNION {{x} \X (1 .. f[x]) : x \in DOMAIN f}

Total(f) == Cardinality(Slots(f))

\* W as a function: one at its members.
Ones(S, W) == [x \in S |-> IF x \in W THEN 1 ELSE 0]

=============================================================================
