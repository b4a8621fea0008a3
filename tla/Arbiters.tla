------------------------------ MODULE Arbiters ------------------------------
(***************************************************************************)
(* The arbiters of BookSim.  An arbiter collects requests (AddRequest),    *)
(* picks one (Arbitrate), and moves its priorities past the winner only if *)
(* the caller used the grant (UpdateState); Clear drops the requests.      *)
(*                                                                         *)
(* The state of an arbiter is what survives Clear: a pointer for the       *)
(* round-robin and the priority arbiter, who beats whom for the matrix     *)
(* arbiter, and the states of its parts for the tree arbiter.  Requests    *)
(* are a function from the requesting inputs to their priorities.          *)
(***************************************************************************)
EXTENDS FlatArbiters

CONSTANTS
  Size,       \* inputs of the arbiter
  Groups,     \* groups of a tree arbiter, "tree(groups,type)"
  Kinds,      \* arbiter types
  Priorities  \* priorities a request may have

ArbiterAssumption ==
  /\ Size \in Nat \ {0}
  /\ Groups \in 1 .. Size /\ Size % Groups = 0
  /\ Kinds \subseteq {"round_robin", "matrix", "priority", "tree_round_robin", "tree_matrix"}
  /\ IsFiniteSet(Priorities) /\ Priorities \subseteq Int

GroupSize == Size \div Groups

-----------------------------------------------------------------------------
(* TreeArbiter: one arbiter per group of neighbouring inputs, and a global *)
(* arbiter among the winners of the groups.                                *)

IsTree(kind) == kind \in {"tree_round_robin", "tree_matrix"}
PartType(kind) == IF kind = "tree_matrix" THEN "matrix" ELSE "round_robin"

NewArbiter(kind) ==
  IF IsTree(kind)
  THEN [group |-> [g \in Upto(Groups) |-> FlatNew(PartType(kind), GroupSize)],
        global |-> FlatNew(PartType(kind), Groups)]
  ELSE FlatNew(kind, Size)

\* The requests of group g, numbered within the group.
GroupRequests(reqs, g) ==
  LET within == {i \in DOMAIN reqs : i \div GroupSize = g}
  IN [k \in {i % GroupSize : i \in within} |-> reqs[g * GroupSize + k]]

GroupWinner(kind, arb, reqs, g) ==
  FlatWinner(PartType(kind), GroupSize, arb.group[g], GroupRequests(reqs, g))

\* slip: every group bids with the same priority.
GlobalRequestsFlat(kind, arb, reqs) ==
  [g \in {i \div GroupSize : i \in DOMAIN reqs} |-> 0]

\* A group bids with the priority of its winner.
GlobalRequests(kind, arb, reqs) ==
  [g \in {i \div GroupSize : i \in DOMAIN reqs} |->
     GroupRequests(reqs, g)[GroupWinner(kind, arb, reqs, g)]]

TreeGroup(kind, arb, reqs) ==
  FlatWinner(PartType(kind), Groups, arb.global, GlobalRequests(kind, arb, reqs))

TreeWinner(kind, arb, reqs) ==
  IF DOMAIN reqs = {} THEN None
  ELSE LET g == TreeGroup(kind, arb, reqs)
       IN g * GroupSize + GroupWinner(kind, arb, reqs, g)

\* slip: moves the arbiters of all groups, not the winner's alone.
TreeUpdatedEverywhere(kind, arb, won) ==
  IF won = None THEN arb
  ELSE [group |-> [g \in Upto(Groups) |->
                     FlatUpdated(PartType(kind), GroupSize, arb.group[g], won % GroupSize)],
        global |-> FlatUpdated(PartType(kind), Groups, arb.global, won \div GroupSize)]

\* Only the group that won, and the global arbiter, move on.
TreeUpdated(kind, arb, won) ==
  IF won = None THEN arb
  ELSE LET g == won \div GroupSize
       IN [group |-> [arb.group EXCEPT ![g] =
                        FlatUpdated(PartType(kind), GroupSize, @, won % GroupSize)],
           global |-> FlatUpdated(PartType(kind), Groups, arb.global, g)]

Winner(kind, arb, reqs) ==
  IF IsTree(kind) THEN TreeWinner(kind, arb, reqs) ELSE FlatWinner(kind, Size, arb, reqs)

Updated(kind, arb, won) ==
  IF IsTree(kind) THEN TreeUpdated(kind, arb, won) ELSE FlatUpdated(kind, Size, arb, won)

-----------------------------------------------------------------------------
VARIABLES
  kind,      \* the type of the arbiter
  arb,       \* what it keeps between rounds
  reqs,      \* the requests of this round
  selected,  \* Arbiter::_selected
  wait       \* history: rounds in a row an input of the highest priority lost

vars == <<kind, arb, reqs, selected, wait>>

Init ==
  /\ kind \in Kinds
  /\ arb = NewArbiter(kind)
  /\ reqs = [i \in {} |-> 0]
  /\ selected = None
  /\ wait = [i \in Upto(Size) |-> 0]

Tops(rs) == {i \in DOMAIN rs : \A j \in DOMAIN rs : rs[j] <= rs[i]}

AddRequest(i, pri) ==
  /\ selected = None
  /\ i \notin DOMAIN reqs
  /\ reqs' = [j \in DOMAIN reqs \cup {i} |-> IF j = i THEN pri ELSE reqs[j]]
  /\ UNCHANGED <<kind, arb, selected, wait>>

\* Arbiter::Arbitrate; PriorityArbiter moves its pointer at once.
Arbitrate ==
  /\ selected = None
  /\ DOMAIN reqs # {}
  /\ selected' = Winner(kind, arb, reqs)
  /\ arb' = IF kind = "priority" THEN Updated(kind, arb, selected') ELSE arb
  /\ UNCHANGED <<kind, reqs, wait>>

\* The caller used the grant, or had no use for it, and clears the requests.
Clear(used) ==
  /\ selected # None
  /\ kind = "priority" => used
  /\ arb' = IF used /\ kind # "priority" THEN Updated(kind, arb, selected) ELSE arb
  /\ reqs' = [i \in {} |-> 0]
  /\ selected' = None
  /\ wait' = [i \in Upto(Size) |->
                IF i \notin Tops(reqs) \/ (used /\ i = selected) THEN 0
                ELSE IF used THEN wait[i] + 1 ELSE wait[i]]
  /\ UNCHANGED kind

Next ==
  \/ \E i \in Upto(Size), pri \in Priorities : AddRequest(i, pri)
  \/ Arbitrate
  \/ \E used \in BOOLEAN : Clear(used)

Spec == Init /\ [][Next]_vars

-----------------------------------------------------------------------------
\* A round with requests has a winner, and no request has a higher priority than
\* the winner's (the assertion at the end of Arbiter::Arbitrate, and what the
\* class comments call priority): in a tree this takes the priorities of the
\* groups' winners, in a matrix that some request is unbeaten.
WinnerIsTop ==
  /\ DOMAIN reqs # {} => Winner(kind, arb, reqs) \in Tops(reqs)
  /\ selected # None => selected \in Tops(reqs)

\* The matrix of a matrix arbiter is a strict total order after any sequence of
\* rounds; otherwise MatrixArbiter::Arbitrate finds no unbeaten request.
MatrixIsOrder ==
  CASE kind = "matrix" -> IsStrictOrder(arb, Size)
    [] kind = "tree_matrix" ->
         /\ IsStrictOrder(arb.global, Groups)
         /\ \A g \in Upto(Groups) : IsStrictOrder(arb.group[g], GroupSize)
    [] OTHER -> TRUE

\* What a grant of an arbiter promises.
GrantsAsPromised == WinnerIsTop /\ MatrixIsOrder

\* An input that keeps requesting with the highest priority is served before any
\* other input is served Size times: rounds whose grant is used (UpdateState) move
\* the priorities on, in a tree also those inside the groups that lost.
NoStarvation == \A i \in Upto(Size) : wait[i] < Size

=============================================================================
