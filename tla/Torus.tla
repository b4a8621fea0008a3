------------------------------- MODULE Torus --------------------------------
(***************************************************************************)
(* The routing functions of BookSim's tori.                                *)
(***************************************************************************)
EXTENDS KNCube

CONSTANT
  Algs      \* routing functions

TorusAssumption ==
  /\ KNCubeAssumption
  /\ Algs \subseteq {"dim_order_torus", "dim_order_ni_torus", "dim_order_bal_torus",
                     "valiant_torus", "valiant_ni_torus", "min_adapt_torus", "chaos_torus"}

-----------------------------------------------------------------------------
(* dor_next_torus                                                          *)

\* slip: no way is taken when both are as long.
ShortestStrict(cur, dest, d) ==
  LET dist2 == K - 2 * ((Digit(dest, d) - Digit(cur, d) + K) % K)
  IN {out \in {Right(d), Left(d)} : IF out = Right(d) THEN dist2 > 0 ELSE dist2 < 0}

\* The ways round the ring of a dimension that are not longer than the other.
Shortest(cur, dest, d) ==
  LET dist2 == K - 2 * ((Digit(dest, d) - Digit(cur, d) + K) % K)
  IN {out \in {Right(d), Left(d)} : IF out = Right(d) THEN dist2 >= 0 ELSE dist2 <= 0}

\* slip: every packet starts in the first part.
DatelineNone(cur, dest, out) == {0}

\* One dateline, between the last node of a ring and the first.
Dateline(cur, dest, out) == {IF Digit(cur, DimOf(out)) > Digit(dest, DimOf(out)) THEN 1 ELSE 0}

\* Two datelines: one that forces part 1, and one in the middle that forces part 0.
Balanced(cur, dest, out) ==
  LET a == Digit(cur, DimOf(out))  b == Digit(dest, DimOf(out))
      middle == (K - 1) \div 2
      right  == out = Right(DimOf(out))
  IN CASE IF right THEN a > b ELSE a < b -> {1}
       [] ~(IF right THEN a > b ELSE a < b)
            /\ IF right THEN a <= middle /\ b > middle ELSE a > middle /\ b <= middle -> {0}
       [] OTHER -> {0, 1}

\* The part of the VCs is not written where a packet goes straight on or is ejected.
Unwritten == -1

DorTorus(cur, dest, in, Parts(_, _, _)) ==
  IF cur = dest THEN {[out |-> Local, part |-> Unwritten]}
  ELSE LET d == Min(Unmatched(cur, dest))
       IN IF DimOf(in) = d THEN {[out |-> Opposite(in), part |-> Unwritten]}
          ELSE UNION {{[out |-> out, part |-> part] : part \in Parts(cur, dest, out)} :
                        out \in Shortest(cur, dest, d)}

-----------------------------------------------------------------------------
(* Routing functions                                                       *)

Half(o, part) == IF part = 0 THEN LowerHalf(o) ELSE UpperHalf(o)

\* The part is kept in the packet for the hops that do not write it.
DimOrder(p, Parts(_, _, _)) ==
  {LET ph == IF hop.part = Unwritten THEN p.ph ELSE hop.part
       o  == [Whole(p, hop.out) EXCEPT !.ph = ph]
   IN IF p.at = p.dest THEN o ELSE Half(o, ph) : hop \in DorTorus(p.at, p.dest, p.in, Parts)}

DimOrderTorus(p)    == DimOrder(p, Dateline)
DimOrderBalTorus(p) == DimOrder(p, Balanced)

DimOrderNiTorus(p) ==
  {LET o == Whole(p, hop.out) IN IF p.at = p.dest THEN o ELSE Part(o, p.dest, K^N) :
     hop \in DorTorus(p.at, p.dest, p.in, Dateline)}

\* ring_part is a local variable: where dor_next_torus does not write it, it holds what
\* was on the stack.  Other values than 0 and 1 fail the assertion.
RingParts(hop) == IF hop.part = Unwritten THEN {0, 1} ELSE {hop.part}

\* A half for the ring; from that half of a half, rounded down twice, is cut for the phase.
Quarter(o, part, phase) ==
  LET half == Half(o, part)
      cut  == ((o.hi - o.lo + 1) \div 2) \div 2
  IN IF phase = 0 THEN [half EXCEPT !.hi = @ - cut] ELSE [half EXCEPT !.lo = @ + cut]

\* The packets as they leave the injection port, with the intermediate node drawn.
Drawn(p) == IF p.in = Local THEN {[p EXCEPT !.intm = i] : i \in Nodes} ELSE {p}
Phase(p) == IF p.in = Local THEN 0 ELSE p.ph \div 2

ValiantHops(q, o, phase, target, in) ==
  UNION {{LET w == [o EXCEPT !.out = hop.out, !.ph = 2 * phase + part, !.intm = q.intm]
          IN IF q.at = q.dest THEN w ELSE Quarter(w, part, phase) : part \in RingParts(hop)} :
            hop \in DorTorus(q.at, target, in, Dateline)}

\* At the intermediate node the second phase starts as if the packet were injected.
ValiantTorus(p) ==
  UNION {LET arrived == Phase(q) = 0 /\ q.at = q.intm
             phase   == IF arrived THEN 1 ELSE Phase(q)
         IN ValiantHops(q, Whole(q, Local), phase, IF phase = 0 THEN q.intm ELSE q.dest,
                        IF arrived THEN Local ELSE q.in) : q \in Drawn(p)}

\* Here it is ph, not phase, that says where the packet is going.
ValiantNiTorus(p) ==
  UNION {LET arrived == q.ph = 0 /\ q.at = q.intm
             o       == Whole(q, Local)
         IN ValiantHops(q, IF q.at = q.dest THEN o ELSE Part(o, q.dest, K^N), Phase(q),
                        IF q.ph = 0 /\ ~arrived THEN q.intm ELSE q.dest,
                        IF arrived THEN Local ELSE q.in) : q \in Drawn(p)}

\* Dimension order on the first two VCs, a productive output on the fourth, unless the
\* packet is on one of the first two.
MinAdaptTorus(p) ==
  LET whole    == Whole(p, Local)
      adaptive == (IF p.in = Local THEN Hi(p) ELSE p.vc) > Lo(p) + 1
      hops     == DorTorus(p.at, p.dest, IF adaptive THEN Local ELSE p.in, Dateline)
      escape   == {LET ph == IF hop.part = Unwritten THEN p.ph ELSE hop.part
                       vc == IF ph = 0 THEN Lo(p) ELSE Lo(p) + 1
                   IN [whole EXCEPT !.out = hop.out, !.lo = vc, !.hi = vc, !.ph = ph] : hop \in hops}
      others   == {[whole EXCEPT !.out = IF Right(d) \in Shortest(p.at, p.dest, d)
                                            /\ Left(d) \notin Shortest(p.at, p.dest, d)
                                         THEN Right(d) ELSE Left(d),
                                 !.lo = Lo(p) + 3, !.hi = Lo(p) + 3, !.pri = 1, !.ph = e.ph] :
                     d \in Unmatched(p.at, p.dest), e \in escape}
  IN escape \cup (IF adaptive THEN others ELSE {}) \cup (IF p.at = p.dest THEN {whole} ELSE {})

ChaosTorus(p) ==
  {[Whole(p, out) EXCEPT !.lo = 0, !.hi = 0] :
     out \in IF p.at = p.dest THEN {Local}
             ELSE UNION {Shortest(p.at, p.dest, d) : d \in Unmatched(p.at, p.dest)}}

-----------------------------------------------------------------------------
Route(p) ==
  CASE p.alg = "dim_order_torus"     -> DimOrderTorus(p)
    [] p.alg = "dim_order_ni_torus"  -> DimOrderNiTorus(p)
    [] p.alg = "dim_order_bal_torus" -> DimOrderBalTorus(p)
    [] p.alg = "valiant_torus"       -> ValiantTorus(p)
    [] p.alg = "valiant_ni_torus"    -> ValiantNiTorus(p)
    [] p.alg = "min_adapt_torus"     -> MinAdaptTorus(p)
    [] p.alg = "chaos_torus"         -> ChaosTorus(p)

InjectVcs(h) ==
  CASE h.alg = "valiant_ni_torus" ->
         LET o == Part([lo |-> Lo(h), hi |-> Hi(h)], h.dest, K^N) IN o.lo .. o.hi
    [] h.alg = "chaos_torus" -> {0}
    [] OTHER -> Lo(h) .. Hi(h)

\* The channels between two routers; every hop leaves fewer to where the packet is heading,
\* which for valiant_torus is its intermediate node first.
Distance(a, b) ==
  Cardinality({e \in Dims \X (1 .. K - 1) :
                 LET right == (Digit(b, e[1]) - Digit(a, e[1]) + K) % K
                 IN e[2] <= right /\ e[2] <= K - right})
Target(p) == IF p.alg = "valiant_torus" /\ p.ph \div 2 = 0 THEN p.intm ELSE p.dest
Nearer(p, q) == Distance(q.at, Target(q)) < Distance(p.at, Target(q))

\* With Valiant's algorithm the second phase is reached before the packet is ejected.
WholeWay(p) == p.alg = "valiant_torus" => p.ph \div 2 = 1

Starts(net) == Packets(net, Algs, FaultSets, Attach, InjectVcs)

=============================================================================
