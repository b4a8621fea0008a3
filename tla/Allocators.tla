----------------------------- MODULE Allocators -----------------------------
(***************************************************************************)
(* The switch and VC allocators of BookSim.  In every cycle a router       *)
(* clears the allocator, adds requests, each a pair of an input and an     *)
(* output with a priority at either end, and asks for an allocation: a     *)
(* matching between inputs and outputs.                                    *)
(*                                                                         *)
(* Every algorithm is an operator from the pointers it keeps and the       *)
(* requests of the cycle to the set of its possible results, one element   *)
(* unless it draws random numbers.  A result holds _inmatch and _outmatch, *)
(* which the algorithms write separately, and the new pointers.            *)
(***************************************************************************)
EXTENDS FlatArbiters, SequencesExt

CONSTANTS
  Ins, Outs,   \* numbers of inputs and outputs
  Algs,        \* allocator types
  Iters,       \* alloc_iters, of islip, pim and select
  ArbType,     \* arb_type, of the separable allocators
  InPris, OutPris,  \* priorities at the inputs and at the outputs
  WaitBound    \* a request that stays is served within so many cycles

AllocatorAssumption ==
  /\ Ins \in Nat \ {0} /\ Outs \in Nat \ {0} /\ Iters \in Nat \ {0}
  /\ Algs \subseteq {"islip", "select", "pim", "loa", "max_size", "wavefront", "rr_wavefront",
                     "separable_input_first", "separable_output_first"}
  /\ ArbType \in {"round_robin", "matrix"}
  /\ InPris \subseteq Int /\ OutPris \subseteq Int
  /\ WaitBound \in Nat

I == Upto(Ins)
O == Upto(Outs)
Square == Max({Ins, Outs})

NoMatch == [in |-> [i \in I |-> None], out |-> [o \in O |-> None]]

\* The requests of an input, or of an output, with the priority that it sees.
OfInput(reqs, i) == [o \in {o \in O : <<i, o>> \in DOMAIN reqs} |-> reqs[<<i, o>>].in]
OfOutput(reqs, o) == [i \in {i \in I : <<i, o>> \in DOMAIN reqs} |-> reqs[<<i, o>>].out]
Only(f, S) == [x \in DOMAIN f \cap S |-> f[x]]
Flat(f) == [x \in DOMAIN f |-> 0]

-----------------------------------------------------------------------------
(* iSLIP and SelAlloc: outputs grant, inputs accept, pointers move past an  *)
(* accepted grant of the first iteration.  SelAlloc looks at priorities,    *)
(* and declares its grants outside the loop over the iterations.            *)

Free(match) == {x \in DOMAIN match : match[x] = None}

Grants(alg, reqs, ptr, s) ==
  [o \in O |->
     LET asked == Only(OfOutput(reqs, o), Free(s.in))
         best  == RoundRobinWinner(Ins, ptr.out[o], IF alg = "islip" THEN Flat(asked) ELSE asked)
     IN IF s.out[o] = None /\ best # None THEN best
        ELSE IF alg = "islip" THEN None ELSE s.grants[o]]

Accepts(alg, reqs, ptr, grants) ==
  [i \in I |->
     LET given == Only(OfInput(reqs, i), {o \in O : grants[o] = i})
     IN RoundRobinWinner(Outs, ptr.in[i], IF alg = "islip" THEN Flat(given) ELSE given)]

AcceptedBy(accepted, o) == {i \in I : accepted[i] = o}

SlipPtr(ptr, accepted, iter) ==
  IF iter > 0 THEN ptr ELSE
  [ptr EXCEPT !.in  = [i \in I |-> IF accepted[i] = None THEN @[i] ELSE (accepted[i] + 1) % Outs],
              !.out = [o \in O |-> IF AcceptedBy(accepted, o) = {} THEN @[o]
                                   ELSE (Max(AcceptedBy(accepted, o)) + 1) % Ins]]

SlipRound(alg, reqs, s, iter) ==
  LET grants   == Grants(alg, reqs, s.ptr, s)
      accepted == Accepts(alg, reqs, s.ptr, grants)
  IN [in     |-> [i \in I |-> IF accepted[i] = None THEN s.in[i] ELSE accepted[i]],
      out    |-> [o \in O |-> IF AcceptedBy(accepted, o) = {} THEN s.out[o]
                              ELSE Max(AcceptedBy(accepted, o))],
      ptr    |-> SlipPtr(s.ptr, accepted, iter),
      grants |-> grants]

SlipStart(ptr) ==
  [in |-> NoMatch.in, out |-> NoMatch.out, ptr |-> ptr, grants |-> [o \in O |-> None]]

Slip(alg, reqs, ptr) ==
  LET after[k \in 0 .. Iters] ==
        IF k = 0 THEN SlipStart(ptr) ELSE SlipRound(alg, reqs, after[k - 1], k - 1)
      end == after[Iters]
  IN [in |-> end.in, out |-> end.out, ptr |-> end.ptr]

-----------------------------------------------------------------------------
(* PIM: the same two phases with random choices and no pointers.           *)

PimGrants(reqs, s) ==
  {g \in [O -> I \cup {None}] :
     \A o \in O : LET asked == DOMAIN OfOutput(reqs, o) \cap Free(s.in)
                  IN IF s.out[o] # None \/ asked = {} THEN g[o] = None ELSE g[o] \in asked}

PimAccepts(grants) ==
  {a \in [I -> O \cup {None}] :
     \A i \in I : LET given == {o \in O : grants[o] = i}
                  IN IF given = {} THEN a[i] = None ELSE a[i] \in given}

PimRound(reqs, s) ==
  {[s EXCEPT !.in  = [i \in I |-> IF a[i] = None THEN @[i] ELSE a[i]],
             !.out = [o \in O |-> IF \E i \in I : a[i] = o THEN CHOOSE i \in I : a[i] = o ELSE @[o]]] :
     a \in UNION {PimAccepts(g) : g \in PimGrants(reqs, s)}}

Pim(reqs, ptr) ==
  LET after[k \in 0 .. Iters] ==
        IF k = 0 THEN {[in |-> NoMatch.in, out |-> NoMatch.out, ptr |-> ptr]}
        ELSE UNION {PimRound(reqs, s) : s \in after[k - 1]}
  IN after[Iters]

-----------------------------------------------------------------------------
(* LOA: an input asks for the requested output with the fewest requests,   *)
(* an output grants one of the inputs that ask for it.                     *)

LoaAsks(reqs, ptr) ==
  [i \in I |-> RoundRobinWinner(Outs, ptr.in[i],
                 [o \in DOMAIN OfInput(reqs, i) |-> -Cardinality(DOMAIN OfOutput(reqs, o))])]

Loa(reqs, ptr) ==
  LET asks   == LoaAsks(reqs, ptr)
      grants == [o \in O |-> RoundRobinWinner(Ins, ptr.out[o],
                                              [i \in {i \in I : asks[i] = o} |-> 0])]
      won(i) == asks[i] # None /\ grants[asks[i]] = i
  IN [in  |-> [i \in I |-> IF won(i) THEN asks[i] ELSE None],
      out |-> grants,
      ptr |-> [ptr EXCEPT
                 !.in  = [i \in I |-> IF won(i) THEN (@[i] + 1) % Outs ELSE @[i]],
                 !.out = [o \in O |-> IF grants[o] # None THEN (@[o] + 1) % Ins ELSE @[o]]]]

-----------------------------------------------------------------------------
(* Wavefront: the requests are granted in one order, of priorities first   *)
(* and of diagonals from _pri on next.                                     *)

Diagonal(r, first) == (r[1] + r[2] - first + Square) % Square

\* slip: the priority at the input comes first.
EarlierByInput(q, r, reqs, first) ==
  \/ reqs[q].in > reqs[r].in
  \/ /\ reqs[q].in = reqs[r].in
     /\ \/ reqs[q].out > reqs[r].out
        \/ /\ reqs[q].out = reqs[r].out
           /\ \/ Diagonal(q, first) < Diagonal(r, first)
              \/ Diagonal(q, first) = Diagonal(r, first) /\ q[2] < r[2]

Earlier(q, r, reqs, first) ==
  \/ reqs[q].out > reqs[r].out
  \/ /\ reqs[q].out = reqs[r].out
     /\ \/ reqs[q].in > reqs[r].in
        \/ /\ reqs[q].in = reqs[r].in
           /\ \/ Diagonal(q, first) < Diagonal(r, first)
              \/ Diagonal(q, first) = Diagonal(r, first) /\ q[2] < r[2]

\* slip: a grant does not look whether the output is taken.
OpenAtInput(m, reqs) == {r \in DOMAIN reqs : m.in[r[1]] = None}

Open(m, reqs) == {r \in DOMAIN reqs : m.in[r[1]] = None /\ m.out[r[2]] = None}

Foremost(rs, reqs, first) == CHOOSE r \in rs : \A q \in rs \ {r} : Earlier(r, q, reqs, first)

\* The grants in their order: the first request, then the first that is still open.
WavefrontGrant(m, reqs, first) ==
  IF Open(m, reqs) = {} THEN m
  ELSE LET r == Foremost(Open(m, reqs), reqs, first)
       IN [in |-> [m.in EXCEPT ![r[1]] = r[2]], out |-> [m.out EXCEPT ![r[2]] = r[1]]]

WavefrontMatch(reqs, first) ==
  LET after[k \in 0 .. Ins] ==
        IF k = 0 THEN NoMatch ELSE WavefrontGrant(after[k - 1], reqs, first)
  IN after[Ins]

\* With _skip_diags the next search starts behind the diagonal of the first grant.
NextDiagonal(alg, reqs, first) ==
  LET granted == Foremost(DOMAIN reqs, reqs, first)
  IN ((IF alg = "rr_wavefront" THEN granted[1] + granted[2] ELSE first) + 1) % Square

\* A single request is granted without the search, with the same result; the
\* stale count and priorities that RemoveRequest leaves have no effect either.
Wavefront(alg, reqs, ptr) ==
  LET match == WavefrontMatch(reqs, ptr.diag)
  IN [in |-> match.in, out |-> match.out,
      ptr |-> IF DOMAIN reqs = {} THEN ptr ELSE [ptr EXCEPT !.diag = NextDiagonal(alg, reqs, @)]]

-----------------------------------------------------------------------------
(* MaxSizeMatch: breadth-first search for a shortest augmenting path.      *)

\* _from has a place for every output, but assign(_inputs, -1) resets and keeps
\* only the first _inputs of them; the others still read as the initial 0.
FreshFrom == [o \in O |-> IF o < Ins THEN None ELSE 0]

\* slip: a matched output is a dead end.
VisitFreeOnly(b, m, reqs, i, j) ==
  IF b.end = None /\ <<i, j>> \in DOMAIN reqs /\ b.from[j] = None /\ m.out[j] = None
  THEN [b EXCEPT !.from[j] = i, !.end = j]
  ELSE b

\* Look along the edge from input i to output j, until a free output is found.
Visit(b, m, reqs, i, j) ==
  IF b.end = None /\ <<i, j>> \in DOMAIN reqs /\ m.in[i] # j /\ b.from[j] = None
  THEN [from |-> [b.from EXCEPT ![j] = i],
        next |-> IF m.out[j] = None THEN b.next ELSE Append(b.next, m.out[j]),
        end  |-> IF m.out[j] = None THEN j ELSE None]
  ELSE b

Level(b, m, reqs) ==
  FoldLeft(LAMBDA c, i : FoldLeft(LAMBDA d, j : Visit(d, m, reqs, i, j - 1), c, [j \in 1 .. Outs |-> j]),
           [b EXCEPT !.next = <<>>], b.next)

Search(m, reqs, first) ==
  LET start == [from |-> FreshFrom, end |-> None,
                next |-> SelectSeq([k \in 1 .. Ins |-> (k - 1 + first) % Ins],
                                   LAMBDA i : m.in[i] = None)]
  IN FoldLeft(LAMBDA b, k : IF b.end = None THEN Level(b, m, reqs) ELSE b,
              start, [k \in 1 .. Ins |-> k])

\* Turn the edges of the path that ends at output j.
Flip(m, from, end) ==
  LET turn(s, k) ==
        IF s.j = None THEN s
        ELSE LET i == from[s.j]
             IN [in |-> [s.in EXCEPT ![i] = s.j], out |-> [s.out EXCEPT ![s.j] = i], j |-> s.in[i]]
      done == FoldLeft(turn, [in |-> m.in, out |-> m.out, j |-> end], [k \in 1 .. Ins |-> k])
  IN [in |-> done.in, out |-> done.out]

MaxSize(reqs, ptr) ==
  LET augment(m, k) == LET b == Search(m, reqs, ptr.diag)
                       IN IF b.end = None THEN m ELSE Flip(m, b.from, b.end)
      match == FoldLeft(augment, NoMatch, [k \in 1 .. Ins |-> k])
  IN [in |-> match.in, out |-> match.out, ptr |-> [ptr EXCEPT !.diag = (@ + 1) % Ins]]

-----------------------------------------------------------------------------
(* Separable allocators: an arbiter per input and one per output, run one  *)
(* side after the other; only arbiters whose grant counts move on.         *)

\* slip: the arbiters of the first side move on with every grant they give.
MovedAlways(arbs, n, picks, wins) == [x \in DOMAIN arbs |-> FlatUpdated(ArbType, n, arbs[x], picks[x])]

Moved(arbs, n, picks, wins) ==
  [x \in DOMAIN arbs |->
     FlatUpdated(ArbType, n, arbs[x], IF picks[x] # None /\ wins[picks[x]] = x THEN picks[x] ELSE None)]

SeparableInputFirst(reqs, ptr) ==
  LET picks == [i \in I |-> FlatWinner(ArbType, Outs, ptr.in[i], OfInput(reqs, i))]
      wins  == [o \in O |-> FlatWinner(ArbType, Ins, ptr.out[o],
                                       Only(OfOutput(reqs, o), {i \in I : picks[i] = o}))]
  IN [in  |-> [i \in I |-> IF picks[i] # None /\ wins[picks[i]] = i THEN picks[i] ELSE None],
      out |-> wins,
      ptr |-> [ptr EXCEPT !.in = Moved(@, Outs, picks, wins), !.out = Moved(@, Ins, wins, picks)]]

SeparableOutputFirst(reqs, ptr) ==
  LET picks == [o \in O |-> FlatWinner(ArbType, Ins, ptr.out[o], OfOutput(reqs, o))]
      wins  == [i \in I |-> FlatWinner(ArbType, Outs, ptr.in[i],
                                       Only(OfInput(reqs, i), {o \in O : picks[o] = i}))]
  IN [in  |-> wins,
      out |-> [o \in O |-> IF picks[o] # None /\ wins[picks[o]] = o THEN picks[o] ELSE None],
      ptr |-> [ptr EXCEPT !.in = Moved(@, Outs, wins, picks), !.out = Moved(@, Ins, picks, wins)]]

-----------------------------------------------------------------------------
Results(a, reqs, ptr) ==
  CASE a \in {"islip", "select"}           -> {Slip(a, reqs, ptr)}
    [] a = "pim"                           -> Pim(reqs, ptr)
    [] a = "loa"                           -> {Loa(reqs, ptr)}
    [] a \in {"wavefront", "rr_wavefront"} -> {Wavefront(a, reqs, ptr)}
    [] a = "max_size"                      -> {MaxSize(reqs, ptr)}
    [] a = "separable_input_first"         -> {SeparableInputFirst(reqs, ptr)}
    [] a = "separable_output_first"        -> {SeparableOutputFirst(reqs, ptr)}

NewPtr(a) ==
  LET type == IF a \in {"separable_input_first", "separable_output_first"} THEN ArbType ELSE "pointer"
  IN [in |-> [i \in I |-> FlatNew(type, Outs)], out |-> [o \in O |-> FlatNew(type, Ins)], diag |-> 0]

VARIABLES
  alg,     \* the type of the allocator
  ptr,     \* pointers and arbiters: in and out per port, diag for _pri and _prio
  reqs,    \* the requests of the cycle
  inmatch, outmatch,
  phase,   \* "adding" or "allocated"
  left,    \* history: the requests the last cycle left, if Watched was among them
  wait     \* history: cycles in a row Watched was not served, no request being withdrawn,
           \* up to WaitBound + 1

vars == <<alg, ptr, reqs, inmatch, outmatch, phase, left, wait>>

Init ==
  /\ alg \in Algs
  /\ ptr = NewPtr(alg)
  /\ reqs = [r \in {} |-> 0]
  /\ inmatch = NoMatch.in /\ outmatch = NoMatch.out
  /\ phase = "adding"
  /\ left = {} /\ wait = 0

\* The pair that NoStarvation watches, the one farthest from the initial pointers.
Watched == <<Ins - 1, Outs - 1>>

\* Algorithms that serve every pair that stays requested, and those that serve every
\* input: "start at next input to ensure fairness" (maxsize.cpp:94).
FairToPairs == {"islip", "select", "wavefront", "rr_wavefront",
                "separable_input_first", "separable_output_first"}
FairToInputs == {"max_size"}

Unserved(rest, matched) ==
  \/ alg \in FairToPairs /\ Watched \in rest
  \/ alg \in FairToInputs /\ matched[Watched[1]] = None /\ \E o \in O : <<Watched[1], o>> \in rest

AddRequest(i, o, inPri, outPri) ==
  /\ phase = "adding"
  /\ <<i, o>> \notin DOMAIN reqs
  /\ reqs' = [r \in DOMAIN reqs \cup {<<i, o>>} |->
                IF r = <<i, o>> THEN [in |-> inPri, out |-> outPri] ELSE reqs[r]]
  /\ UNCHANGED <<alg, ptr, inmatch, outmatch, phase, left, wait>>

\* IQRouter::_SWAllocAddReq: RemoveRequest and AddRequest for a higher priority.
ReplaceRequest(i, o, inPri, outPri) ==
  /\ phase = "adding"
  /\ <<i, o>> \in DOMAIN reqs
  /\ inPri > reqs[<<i, o>>].in
  /\ reqs' = [reqs EXCEPT ![<<i, o>>] = [in |-> inPri, out |-> outPri]]
  /\ UNCHANGED <<alg, ptr, inmatch, outmatch, phase, left, wait>>

Allocate ==
  /\ phase = "adding"
  /\ \E result \in Results(alg, reqs, ptr) :
       /\ inmatch' = result.in
       /\ outmatch' = result.out
       /\ ptr' = result.ptr
  /\ LET rest == {r \in DOMAIN reqs : inmatch'[r[1]] # r[2]}
     IN /\ left' = IF Unserved(rest, inmatch') THEN rest ELSE {}
        /\ wait' = IF left' = {} THEN 0
                   ELSE IF left \subseteq DOMAIN reqs THEN Min({wait, WaitBound}) + 1 ELSE 1
  /\ phase' = "allocated"
  /\ UNCHANGED <<alg, reqs>>

Clear ==
  /\ phase = "allocated"
  /\ reqs' = [r \in {} |-> 0]
  /\ inmatch' = NoMatch.in /\ outmatch' = NoMatch.out
  /\ phase' = "adding"
  /\ UNCHANGED <<alg, ptr, left, wait>>

Next ==
  \/ \E i \in I, o \in O, inPri \in InPris, outPri \in OutPris :
       AddRequest(i, o, inPri, outPri) \/ ReplaceRequest(i, o, inPri, outPri)
  \/ Allocate
  \/ Clear

Spec == Init /\ [][Next]_vars

-----------------------------------------------------------------------------
Matched == {r \in I \X O : inmatch[r[1]] = r[2]}

\* An allocation is a matching among the requests, and its two halves agree:
\* IQRouter forwards a flit by OutputAssigned and frees ports by InputAssigned.
MatchingConsistent ==
  /\ Matched = {r \in I \X O : outmatch[r[2]] = r[1]}
  /\ Matched \subseteq DOMAIN reqs

\* Whenever something is requested something is granted, whatever the pointers.
SomeGrant == DOMAIN reqs # {} => Matched # {}

\* The algorithms that leave no requested pair with both ends free: the searches, and
\* grant and accept repeated as often as there are ports.
Maximal ==
  {"wavefront", "rr_wavefront", "max_size"}
    \cup IF Iters >= Min({Ins, Outs}) THEN {"islip", "select", "pim"} ELSE {}

NoneLeftOver ==
  alg \in Maximal => \A r \in DOMAIN reqs : inmatch[r[1]] # None \/ outmatch[r[2]] # None

IsMatching(m) == \A q, r \in m : q # r => q[1] # r[1] /\ q[2] # r[2]

\* "O(N^3) maximum-size matching algorithm" (maxsize.cpp:91).
MaximumSize ==
  alg = "max_size" =>
    \A m \in SUBSET DOMAIN reqs : IsMatching(m) => Cardinality(m) <= Cardinality(Matched)

\* Wavefront refuses a request only for one at the same input or output whose
\* priorities, that at the output first, are no lower.
PrioritiesHonoured ==
  alg \in {"wavefront", "rr_wavefront"} =>
    \A r \in DOMAIN reqs \ Matched :
      \E q \in Matched :
        /\ q[1] = r[1] \/ q[2] = r[2]
        /\ \/ reqs[q].out > reqs[r].out
           \/ reqs[q].out = reqs[r].out /\ reqs[q].in >= reqs[r].in

\* The grants are as many and as good as the algorithm makes them.
GoodAllocation ==
  phase = "allocated" => SomeGrant /\ NoneLeftOver /\ MaximumSize /\ PrioritiesHonoured

\* What the grants of an allocator promise.
GrantsAsPromised == MatchingConsistent /\ GoodAllocation

\* While no unserved request is withdrawn, a pair (an input, for max_size) is served
\* within WaitBound cycles, whatever is requested besides: pointers move only past
\* allocations that were made.
NoStarvation == wait <= WaitBound

=============================================================================
