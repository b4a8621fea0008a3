------------------------------ MODULE FlatFly -------------------------------
(***************************************************************************)
(* BookSim's flattened butterfly: in every dimension each router has a     *)
(* channel to each other, and C nodes, arranged in a square.               *)
(***************************************************************************)
EXTENDS VcClasses, FiniteSetsExt

CONSTANTS
  K, N,     \* routers per dimension, dimensions
  XCount,   \* "x" and "y": routers in a row and in a column of the floor plan
  XRouter,  \* "xr" and "yr": nodes of a router in a row and in a column
  Algs      \* routing functions

\* _ComputeSize asserts that the square is C nodes; that the floor plan is of K^N routers
\* is left to the configuration.
C == XRouter * XRouter

FlatFlyAssumption ==
  /\ VcClassesAssumption
  /\ K \in Nat \ {0, 1} /\ N \in 1 .. 4
  /\ XCount * XCount = K^N
  /\ Ends \subseteq 0 .. C * K^N - 1
  /\ Algs \subseteq {"ran_min", "xyyx", "adaptive_xyyx", "valiant", "ugal", "ugal_xyyx", "ugal_pni"}
  /\ "ugal_pni" \in Algs => K = C

Routers == 0 .. K^N - 1
Dims    == 0 .. N - 1
Digit(x, d) == (x \div K^d) % K

-----------------------------------------------------------------------------
(* FlatFlyOnChip::_BuildNet                                                *)

\* The node channels of a router, in the order in which they are added.
NodeOf(router, port) ==
  (XCount * XRouter) * (XRouter * (router \div XCount) + port \div XRouter)
    + XRouter * (router % XCount) + (port % XRouter)

EjectsTo(router, port) == IF port < C THEN NodeOf(router, port) ELSE -1

\* The router that is the cnt-th of a router's line in a dimension.
Other(router, d, cnt) == router + (cnt - Digit(router, d)) * K^d

\* The number of the channel to it.
Channel(router, d, cnt) ==
  (K - 1) * N * router + (K - 1) * d + (IF router < Other(router, d, cnt) THEN cnt - 1 ELSE cnt)

\* Output ports and input ports are numbered in the order in which the channels are added:
\* the former by dimension and router, the latter by the router they come from.
OutLine(router, port) ==
  LET d == (port - C) \div (K - 1)
      i == (port - C) % (K - 1)
  IN <<d, IF i < Digit(router, d) THEN i ELSE i + 1>>

Number[router \in Routers, port \in C .. C + (K - 1) * N - 1] ==
  LET line == OutLine(router, port) IN Channel(router, line[1], line[2])

Adjacent(a, b) == Cardinality({d \in Dims : Digit(a, d) # Digit(b, d)}) = 1

InPort(router, from) == C + Cardinality({a \in Routers : a < from /\ Adjacent(a, router)})

Behind[router \in Routers, port \in C .. C + (K - 1) * N - 1] ==
  LET from == CHOOSE from \in Dims \X (0 .. K - 1) :
                /\ Other(router, from[1], from[2]) # router
                /\ Channel(router, from[1], from[2]) = Number[router, port]
      to   == Other(router, from[1], from[2])
  IN <<to, InPort(to, router)>>
Link(router, port) == Behind[router, port]

Channels == Routers \X (C .. C + (K - 1) * N - 1)

Attach(node) == CHOOSE end \in Routers \X (0 .. C - 1) : NodeOf(end[1], end[2]) = node

-----------------------------------------------------------------------------
(* Routing functions                                                       *)

\* flatfly_transformation: nodes as if those of router 0 came first, then those of router
\* 1, and so on; the router and the port of a node by that number.
Horizontal(node) == node % (XCount * XRouter)
Vertical(node)   == node \div (XCount * XRouter)
Transformed(node) ==
  (((Vertical(node) \div XRouter) * XCount + (Horizontal(node) \div XRouter)) * C)
    + XRouter * (Vertical(node) % XRouter) + (Horizontal(node) % XRouter)
RouterOf(node) == Transformed(node) \div C
PortOf(node)   == Transformed(node) % C

Unmatched(a, b) == {d \in Dims : Digit(a, d) # Digit(b, d)}

PortAlong(cur, to, d) ==
  C + (K - 1) * d + (IF Digit(to, d) > Digit(cur, d) THEN Digit(to, d) - 1 ELSE Digit(to, d))

\* flatfly_outport and flatfly_outport_yx, to another router.
PortTo(cur, to, xThenY) ==
  LET dims == Unmatched(cur, to) IN PortAlong(cur, to, IF xThenY THEN Min(dims) ELSE Max(dims))

Injected(p) == p.in < C
Arrived(p)  == RouterOf(p.dest) = p.at
Eject(p)    == Whole(p, PortOf(p.dest))

RanMin(p) == {IF Arrived(p) THEN Eject(p) ELSE Whole(p, PortTo(p.at, RouterOf(p.dest), TRUE))}

\* The half of the class that is for the orders of the dimensions, and the order read off
\* the VC: at the first router it is drawn, or chosen by the credits.
XThenY(p) == IF Injected(p) THEN BOOLEAN ELSE {p.vc < Lo(p) + ClassVcs(p) \div 2}
Ordered(p, to, xThenY) ==
  LET o == Whole(p, PortTo(p.at, to, xThenY)) IN IF xThenY THEN LowerHalf(o) ELSE UpperHalf(o)

XyYx(p) ==
  IF Arrived(p) THEN {Eject(p)} ELSE {Ordered(p, RouterOf(p.dest), xThenY) : xThenY \in XThenY(p)}

\* By the credits in use the first router may choose either order.
AdaptiveXyYx(p) == XyYx(p)

\* In the intermediate node only its router is ever looked at.
ValiantPhased(p) ==
  LET drawn == IF Injected(p) THEN {[p EXCEPT !.ph = 0, !.intm = r] : r \in Routers} ELSE {p}
  IN {[q EXCEPT !.ph = IF q.intm = q.at \/ Arrived(q) THEN 1 ELSE @] : q \in drawn}

Valiant(p) ==
  {CASE Arrived(q) -> Eject(q)
     [] ~Arrived(q) /\ q.ph = 0 -> LowerHalf(Whole(q, PortTo(q.at, q.intm, TRUE)))
     [] ~Arrived(q) /\ q.ph = 1 -> UpperHalf(Whole(q, PortTo(q.at, RouterOf(q.dest), TRUE))) :
     q \in ValiantPhased(p)}

-----------------------------------------------------------------------------
(* UGAL: a packet goes to its destination directly (phase 2) or by way of  *)
(* an intermediate router (phase 1), as the credits have it.               *)

\* find_ran_intm
RanIntm(src, dest) == {r \in Routers : Unmatched(src, r) \subseteq Unmatched(src, dest)}

\* The intermediate routers that the packet may be sent by: only by another port, for that
\* way is no shorter.  At the router itself, which the product of the credits does not
\* rule out, for it overflows, the packet has been there.
Options(p, xThenY) ==
  LET dest == RouterOf(p.dest)
  IN {r \in RanIntm(RouterOf(p.src), dest) :
        r # p.at => PortTo(p.at, r, xThenY) # PortTo(p.at, dest, xThenY)}

UgalPhased(p, xThenY) ==
  CASE Injected(p) /\ Arrived(p) -> {[p EXCEPT !.ph = 0]}
    [] Injected(p) /\ ~Arrived(p) ->
         {[p EXCEPT !.ph = 2]} \cup
         {[p EXCEPT !.ph = IF r = p.at THEN 2 ELSE 1, !.intm = r] : r \in Options(p, xThenY)}
    [] ~Injected(p) -> {[p EXCEPT !.ph = IF @ = 1 /\ p.intm = p.at THEN 2 ELSE @]}

Target(p) == IF p.ph = 1 THEN p.intm ELSE RouterOf(p.dest)

\* slip: the phases share the VCs.
ForPhaseAny(p, o, vcs) == o
ForPhase(p, o, vcs) == IF p.ph = 1 THEN [o EXCEPT !.hi = @ - vcs] ELSE [o EXCEPT !.lo = @ + vcs]

\* A packet that leaves, for the intermediate router may be that of its destination too,
\* does so on any VC; for others each half is for a phase, or for an order of the
\* dimensions, and each quarter for a phase.
Ugal(p) ==
  {IF Target(q) = q.at THEN Eject(q)
   ELSE ForPhase(q, Whole(q, PortTo(q.at, Target(q), TRUE)), ClassVcs(q) \div 2) :
     q \in UgalPhased(p, TRUE)}

UgalXyYx(p) ==
  UNION {{IF Target(q) = q.at THEN Eject(q)
          ELSE ForPhase(q, Ordered(q, Target(q), xThenY), (ClassVcs(q) \div 2) \div 2) :
            q \in UgalPhased(p, xThenY)} : xThenY \in XThenY(p)}

\* Partially non-interfering: the VCs of a half are apart by what the next dimension of the
\* destination asks for, after the last one the node.
NextCoord(p, dim) == IF dim = N THEN PortOf(p.dest) ELSE Digit(RouterOf(p.dest), dim)

UgalPni(p) ==
  {IF o.out < C THEN o ELSE Part(o, NextCoord(p, (o.out - C) \div (K - 1) + 1), K) : o \in Ugal(p)}

Route(p) ==
  CASE p.alg = "ran_min"                   -> RanMin(p)
    [] p.alg = "xyyx"                      -> XyYx(p)
    [] p.alg = "adaptive_xyyx"             -> AdaptiveXyYx(p)
    [] p.alg = "valiant"                   -> Valiant(p)
    [] p.alg = "ugal"                      -> Ugal(p)
    [] p.alg = "ugal_xyyx"                 -> UgalXyYx(p)
    [] p.alg = "ugal_pni"                  -> UgalPni(p)

\* A packet is offered the whole class to be injected on, or its part by the coordinate in
\* the first dimension.
InjectVcs(h) ==
  LET o == IF h.alg # "ugal_pni" THEN [lo |-> Lo(h), hi |-> Hi(h)]
           ELSE Part([lo |-> Lo(h), hi |-> Hi(h)], NextCoord(h, 0), K)
  IN o.lo .. o.hi

\* One channel matches one dimension for good, of the router that the packet is bound for
\* when it leaves.
Nearer(p, q) ==
  LET goal == IF q.intm >= 0 /\ q.ph = (IF p.alg = "valiant" THEN 0 ELSE 1) THEN q.intm ELSE RouterOf(p.dest)
  IN Cardinality(Unmatched(q.at, goal)) < Cardinality(Unmatched(p.at, goal))

Starts(net) == Packets(net, Algs, {{}}, Attach, InjectVcs)

=============================================================================
