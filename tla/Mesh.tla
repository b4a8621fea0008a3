-------------------------------- MODULE Mesh --------------------------------
(***************************************************************************)
(* The routing functions of BookSim's meshes.                              *)
(***************************************************************************)
EXTENDS KNCube

CONSTANT
  Algs      \* routing functions

MeshAssumption ==
  /\ KNCubeAssumption
  /\ Algs \subseteq {"dim_order_mesh", "dim_order_ni_mesh", "dim_order_pni_mesh", "xy_yx_mesh",
                     "adaptive_xy_yx_mesh", "romm_mesh", "romm_ni_mesh", "valiant_mesh",
                     "min_adapt_mesh", "planar_adapt_mesh", "chaos_mesh",
                     "directed_valiant_mesh", "four_sided_mesh", "diamond_mesh"}

-----------------------------------------------------------------------------
(* Meshes                                                                  *)

DimOrderMesh(p) == {Whole(p, DorMesh(p.at, p.dest, FALSE))}

DimOrderNiMesh(p) ==
  LET o == Whole(p, DorMesh(p.at, p.dest, FALSE))
  IN {IF p.at = p.dest THEN o ELSE Part(o, p.dest, K^N)}

DimOrderPniMesh(p) ==
  LET o == Whole(p, DorMesh(p.at, p.dest, FALSE))
  IN {IF p.at = p.dest THEN o ELSE Part(o, Digit(p.dest, DimOf(o.out)), K)}

\* The order of the dimensions is chosen at the source, at random or by the credits
\* in use, and afterwards read off the VC.
XyYxMesh(p) ==
  LET xy == LowerHalf(Whole(p, DorMesh(p.at, p.dest, FALSE)))
      yx == UpperHalf(Whole(p, DorMesh(p.at, p.dest, TRUE)))
  IN CASE p.at = p.dest  -> {Whole(p, Local)}
       [] p.in = Local   -> {xy, yx}
       [] p.vc < Lo(p) + ClassVcs(p) \div 2 -> {xy}
       [] OTHER          -> {yx}

AdaptiveXyYxMesh(p) == XyYxMesh(p)

\* rand_min_intr_mesh: a random node in the quadrant between source and destination.
Between(a, b) == IF a <= b THEN a .. b ELSE b .. a
MinimalIntermediates(src, dest) ==
  {x \in Nodes : \A d \in Dims : Digit(x, d) \in Between(Digit(src, d), Digit(dest, d))}

\* The phase of a packet is set at the source and when it is at the intermediate node.
Phased(p, intms) ==
  LET phase0 == IF p.in = Local THEN {[p EXCEPT !.ph = 0, !.intm = i] : i \in intms} ELSE {p}
  IN {IF q.ph = 0 /\ q.at = q.intm THEN [q EXCEPT !.ph = 1] ELSE q : q \in phase0}

Target(p) == IF p.ph = 0 THEN p.intm ELSE p.dest

\* At the destination router VCs are not separated by phase.
TwoPhase(p, intms) ==
  {LET o == Whole(q, DorMesh(q.at, Target(q), FALSE))
   IN CASE q.at = q.dest -> o
        [] q.ph = 0      -> LowerHalf(o)
        [] OTHER         -> UpperHalf(o) : q \in Phased(p, intms)}

RommMesh(p)    == TwoPhase(p, MinimalIntermediates(p.src, p.dest))
ValiantMesh(p) == TwoPhase(p, Nodes)

RommNiMesh(p) ==
  {LET o == Whole(q, DorMesh(q.at, Target(q), FALSE))
   IN IF q.at = q.dest THEN o ELSE Part(o, q.dest, K^N) :
     q \in Phased(p, MinimalIntermediates(p.src, p.dest))}

\* slip: a packet may leave the escape VC again.
MinAdaptMeshLeaving(p) ==
  IF p.at = p.dest THEN {Whole(p, Local)}
  ELSE {[Whole(p, DorMesh(p.at, p.dest, FALSE)) EXCEPT !.hi = Lo(p)]}
         \cup {[Whole(p, Toward(p.at, p.dest, d)) EXCEPT !.lo = Lo(p) + 1, !.pri = 1] :
                 d \in Unmatched(p.at, p.dest)}

\* Dimension order on the escape VC; any productive output on the others, but not for
\* a packet that is on the escape VC already.
MinAdaptMesh(p) ==
  LET escape   == [Whole(p, DorMesh(p.at, p.dest, FALSE)) EXCEPT !.hi = Lo(p)]
      adaptive == {[Whole(p, Toward(p.at, p.dest, d)) EXCEPT !.lo = Lo(p) + 1, !.pri = 1] :
                     d \in Unmatched(p.at, p.dest)}
  IN CASE p.at = p.dest                    -> {Whole(p, Local)}
       [] p.in # Local /\ p.vc = Lo(p)     -> {escape}
       [] OTHER                            -> {escape} \cup adaptive

ChaosMesh(p) ==
  {[Whole(p, out) EXCEPT !.lo = 0, !.hi = 0] :
     out \in IF p.at = p.dest THEN {Local}
             ELSE {Toward(p.at, p.dest, d) : d \in Unmatched(p.at, p.dest)}}

-----------------------------------------------------------------------------
(* planar_adapt_mesh: the VCs of a class are three groups; the packet is   *)
(* routed in the plane of its first unmatched dimension and the next one.  *)

PlanarVcs(p) == ClassVcs(p) \div 3

\* The plane, except that a packet misrouted out of the last plane stays in it.
Plane(p) ==
  Min({d \in Unmatched(p.at, p.dest) :
         ~(DimOf(p.in) = 0 /\ d = 0 /\ p.vc < Lo(p) + 2 * PlanarVcs(p))})

PlanarAdaptMesh(p) ==
  LET n      == Plane(p)
      m      == (n + 1) % N
      first  == Toward(p.at, p.dest, n)
      ok(c)  == <<p.at, c>> \notin p.faults
      fault  == ~ok(first)
      lower  == Lo(p) + IF first = Right(n) THEN 0 ELSE PlanarVcs(p)
      \* The digit after the last is 0 at either node.
      want   == IF n + 1 \notin Unmatched(p.at, p.dest) THEN {} ELSE {Toward(p.at, p.dest, m)}
      \* No turning back, unless the first dimension is faulty: then on with the misroute.
      second == CASE want # {p.in} -> want
                  [] fault         -> {Opposite(p.in)}
                  [] OTHER         -> {}
      digit  == Digit(p.at, n + 1)
      misroute == CASE digit = 0     -> {Right(m)}
                    [] digit = K - 1 -> {Left(m)}
                    [] OTHER         -> {IF c = p.in THEN Opposite(c) ELSE c : c \in {Right(m), Left(m)}}
      beside == IF second # {} \/ ~fault THEN second
                ELSE {IF ok(c) \/ digit \in {0, K - 1} THEN c ELSE Opposite(c) : c \in misroute}
  IN IF p.at = p.dest THEN {Whole(p, Local)}
     ELSE {[Whole(p, c) EXCEPT !.lo = Lo(p) + 2 * PlanarVcs(p)] : c \in {c \in {first} : ok(c)}}
            \cup {[Whole(p, c) EXCEPT !.lo = lower, !.hi = lower + PlanarVcs(p) - 1] :
                    c \in {c \in beside : ok(c)}}

-----------------------------------------------------------------------------
(* Three functions for a mesh of eight by eight, with the nodes that send  *)
(* and receive on its sides: two phases by way of a chosen node.           *)

Row(x) == x % 8
Col(x) == x \div 8
At(row, col) == row + 8 * col
Dist(a, b) == IF a < b THEN b - a ELSE a - b

DirectedIntermediates(src, dest) ==
  CASE Dist(src, dest) < 4 -> Between(src, dest)
    [] Dist(src, dest) \in 4 .. 7 ->
         {At(row, col) : row \in Between(Row(src), Row(dest)),
                         col \in IF src < 8 THEN {0, 1} ELSE {6, 7}}
    [] OTHER -> {At(Row(src), col) : col \in 1 .. 6}

DirectedValiantMesh(p) == TwoPhase(p, DirectedIntermediates(p.src, p.dest))

OnSide(x) == x \in {0, 7}

FourSidedIntermediate(src, dest) ==
  CASE OnSide(Row(src)) /\ OnSide(Row(dest)) ->
         At(CASE Dist(Col(src), Col(dest)) <= 3 -> Row(dest)
              [] Row(src) = 0 -> 2
              [] OTHER -> 5,
            Col(dest))
    [] ~(OnSide(Row(src)) /\ OnSide(Row(dest))) /\ OnSide(Col(src)) /\ OnSide(Col(dest)) ->
         At(Row(src), CASE Dist(Row(src), Row(dest)) <= 3 -> Col(src)
                        [] Row(src) = 0 -> 2
                        [] OTHER -> 5)
    [] OTHER -> IF OnSide(Row(src)) THEN At(Row(dest), Col(src)) ELSE At(Row(src), Col(dest))

FourSidedMesh(p) == TwoPhase(p, {FourSidedIntermediate(p.src, p.dest)})

\* The four corners of the mesh are outside of the diamond.
OutsideDiamond(row, col) ==
  \/ row < 3 /\ col < 3 /\ row + col < 3
  \/ row < 3 /\ col > 4 /\ Dist(row, col) > 4
  \/ row > 4 /\ col > 4 /\ row + col > 11
  \/ row > 4 /\ col < 3 /\ Dist(row, col) > 4

DiamondIntermediate(src, dest) ==
  IF OutsideDiamond(Row(src), Col(dest)) THEN At(Row(dest), Col(src)) ELSE At(Row(src), Col(dest))

DiamondMesh(p) == TwoPhase(p, {DiamondIntermediate(p.src, p.dest)})

-----------------------------------------------------------------------------
Route(p) ==
  CASE p.alg = "dim_order_mesh"        -> DimOrderMesh(p)
    [] p.alg = "dim_order_ni_mesh"     -> DimOrderNiMesh(p)
    [] p.alg = "dim_order_pni_mesh"    -> DimOrderPniMesh(p)
    [] p.alg = "xy_yx_mesh"            -> XyYxMesh(p)
    [] p.alg = "adaptive_xy_yx_mesh"   -> AdaptiveXyYxMesh(p)
    [] p.alg = "romm_mesh"             -> RommMesh(p)
    [] p.alg = "romm_ni_mesh"          -> RommNiMesh(p)
    [] p.alg = "valiant_mesh"          -> ValiantMesh(p)
    [] p.alg = "min_adapt_mesh"        -> MinAdaptMesh(p)
    [] p.alg = "planar_adapt_mesh"     -> PlanarAdaptMesh(p)
    [] p.alg = "chaos_mesh"            -> ChaosMesh(p)
    [] p.alg = "directed_valiant_mesh" -> DirectedValiantMesh(p)
    [] p.alg = "four_sided_mesh"       -> FourSidedMesh(p)
    [] p.alg = "diamond_mesh"          -> DiamondMesh(p)

\* The VCs a routing function offers at injection.
InjectVcs(h) ==
  CASE h.alg \in {"dim_order_ni_mesh", "romm_ni_mesh"} ->
         LET o == Part([lo |-> Lo(h), hi |-> Hi(h)], h.dest, K^N) IN o.lo .. o.hi
    [] h.alg = "dim_order_pni_mesh" ->
         LET o == Part([lo |-> Lo(h), hi |-> Hi(h)], Digit(h.dest, 0), K) IN o.lo .. o.hi
    [] h.alg = "chaos_mesh" -> {0}
    [] OTHER -> Lo(h) .. Hi(h)

\* The channels between two routers; every hop leaves fewer to where the packet is heading.
Distance(a, b) ==
  Cardinality({e \in Dims \X (1 .. K - 1) :
                 LET x == Digit(a, e[1]) y == Digit(b, e[1])
                 IN e[2] \in (x + 1 .. y) \cup (y + 1 .. x)})
Nearer(p, q) == Distance(q.at, Target(q)) < Distance(p.at, Target(q))

Starts(net) == Packets(net, Algs, FaultSets, Attach, InjectVcs)

=============================================================================
