---------------------------- MODULE FlatArbiters ----------------------------
(***************************************************************************)
(* The selection and update rules of BookSim's round-robin and matrix      *)
(* arbiters over inputs 0 .. n - 1.  The state of an arbiter is what       *)
(* survives Clear: a pointer, or for the matrix arbiter who beats whom.    *)
(* Requests are a function from the requesting inputs to their priorities. *)
(***************************************************************************)
EXTENDS Integers, FiniteSets, FiniteSetsExt

None == -1
Upto(n) == 0 .. n - 1

\* Definitions marked "slip" are wrong on purpose: each is a plausible error in
\* the definition that follows it, kept to show that a property notices it.

\* How many places input i is behind the pointer.
Behind(i, pointer, n) == (i - pointer + n) % n

Supersedes(i, j, reqs, pointer, n) ==
  \/ reqs[i] > reqs[j]
  \/ reqs[i] = reqs[j] /\ Behind(i, pointer, n) < Behind(j, pointer, n)

\* AddRequest keeps the best request so far, so that Arbitrate returns the one
\* that supersedes all others; the scan of PriorityArbiter finds the same one.
RoundRobinWinner(n, pointer, reqs) ==
  IF DOMAIN reqs = {} THEN None
  ELSE CHOOSE i \in DOMAIN reqs :
         \A j \in DOMAIN reqs \ {i} : Supersedes(i, j, reqs, pointer, n)

Beats(i, j, matrix, reqs) ==
  \/ reqs[i] = reqs[j] /\ matrix[<<i, j>>]
  \/ reqs[i] > reqs[j]

\* A single request wins without a look at the matrix.
MatrixWinner(matrix, reqs) ==
  LET unbeaten == {i \in DOMAIN reqs : \A j \in DOMAIN reqs : ~Beats(j, i, matrix, reqs)}
  IN IF Cardinality(DOMAIN reqs) = 1 THEN CHOOSE i \in DOMAIN reqs : TRUE
     ELSE IF unbeaten = {} THEN None ELSE Min(unbeaten)

\* The matrix says of any two inputs which beats the other, and is transitive.
IsStrictOrder(matrix, n) ==
  \A i, j \in Upto(n) :
    /\ ~matrix[<<i, i>>]
    /\ i # j => (matrix[<<i, j>>] <=> ~matrix[<<j, i>>])
    /\ \A k \in Upto(n) : matrix[<<i, j>>] /\ matrix[<<j, k>>] => matrix[<<i, k>>]

FlatNew(type, n) ==
  IF type = "matrix" THEN [p \in Upto(n) \X Upto(n) |-> p[2] < p[1]] ELSE 0

FlatWinner(type, n, prio, reqs) ==
  IF type = "matrix" THEN MatrixWinner(prio, reqs) ELSE RoundRobinWinner(n, prio, reqs)

\* slip: the winner keeps its row and only loses its column.
MatrixUpdatedRowless(matrix, won) ==
  [p \in DOMAIN matrix |-> IF p[2] = won /\ p[1] # won THEN TRUE ELSE matrix[p]]

\* The winner beats nobody and is beaten by everybody else.
MatrixUpdated(matrix, won) ==
  [p \in DOMAIN matrix |->
     IF p[1] # p[2] /\ won \in {p[1], p[2]} THEN p[2] = won ELSE matrix[p]]

FlatUpdated(type, n, prio, won) ==
  IF won = None THEN prio
  ELSE IF type = "matrix" THEN MatrixUpdated(prio, won) ELSE (won + 1) % n

=============================================================================
