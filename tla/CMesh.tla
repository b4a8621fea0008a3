------------------------------- MODULE CMesh --------------------------------
(***************************************************************************)
(* BookSim's concentrated mesh: four nodes to a router, two by two, and    *)
(* express channels between the routers of each side of the mesh, on the   *)
(* ports that would lead off it.                                           *)
(***************************************************************************)
EXTENDS VcClasses

CONSTANTS
  K,        \* routers per dimension
  Algs      \* routing functions

CMeshAssumption ==
  /\ VcClassesAssumption
  /\ K \in Nat \ {0, 1} /\ K % 2 = 0
  /\ Ends \subseteq 0 .. 4 * K * K - 1
  /\ Algs \subseteq {"dor_cmesh", "dor_no_express_cmesh", "xy_yx_cmesh", "xy_yx_no_express_cmesh"}

Routers == 0 .. K * K - 1
X(router) == router % K
Y(router) == router \div K

\* The node ports come first.
C    == 4
PosX == C
NegX == C + 1
PosY == C + 2
NegY == C + 3

-----------------------------------------------------------------------------
(* CMesh::_BuildNet                                                        *)

\* The router at the other end of an express channel, along a side.
Across(z) == IF z < K \div 2 THEN z + K \div 2 ELSE z - K \div 2

Channel(x, y, port) == K * y + x + (port - C) * K * K

OutChannel(router, port) == Channel(X(router), Y(router), port)

InChannel(router, port) ==
  LET x == X(router)  y == Y(router)
  IN CASE port = PosX -> IF x = K - 1 THEN Channel(x, Across(y), PosX) ELSE Channel(x + 1, y, NegX)
       [] port = NegX -> IF x = 0     THEN Channel(x, Across(y), NegX) ELSE Channel(x - 1, y, PosX)
       [] port = PosY -> IF y = K - 1 THEN Channel(Across(x), y, PosY) ELSE Channel(x, y + 1, NegY)
       [] port = NegY -> IF y = 0     THEN Channel(Across(x), y, NegY) ELSE Channel(x, y - 1, PosY)

Link(router, port) ==
  CHOOSE end \in Routers \X (PosX .. NegY) : InChannel(end[1], end[2]) = OutChannel(router, port)

Channels == Routers \X (PosX .. NegY)

\* The node channels of a router, in the order in which they are added.
NodeOf(router, port) == (2 * K) * (2 * Y(router) + port \div 2) + 2 * X(router) + (port % 2)

EjectsTo(router, port) == IF port < C THEN NodeOf(router, port) ELSE -1

Attach(node) == CHOOSE end \in Routers \X (0 .. C - 1) : NodeOf(end[1], end[2]) = node

-----------------------------------------------------------------------------
(* Routing functions                                                       *)

NodeToRouter(node) == ((node \div (2 * K)) \div 2) * K + (node % (2 * K)) \div 2

NodeToPort(node) == 2 * ((node \div (2 * K)) % 2) + (node % 2)

Dist(a, b) == IF a < b THEN b - a ELSE a - b

\* In one dimension: along a side by the express channels, if they are not Short.
AlongX(cur, dest, short) ==
  LET far == Dist(X(cur), X(dest)) > short
  IN CASE far /\ Y(cur) = 0     -> NegY
       [] far /\ Y(cur) = K - 1 -> PosY
       [] OTHER                 -> IF X(cur) < X(dest) THEN PosX ELSE NegX
AlongY(cur, dest, short) ==
  LET far == Dist(Y(cur), Y(dest)) > short
  IN CASE far /\ X(cur) = 0     -> NegX
       [] far /\ X(cur) = K - 1 -> PosX
       [] OTHER                 -> IF Y(cur) < Y(dest) THEN PosY ELSE NegY

XThenY(cur, dest, short) ==
  IF X(cur) # X(dest) THEN AlongX(cur, dest, short) ELSE AlongY(cur, dest, short)
YThenX(cur, dest, short) ==
  IF Y(cur) # Y(dest) THEN AlongY(cur, dest, short) ELSE AlongX(cur, dest, short)

\* Distances that are not worth an express channel: cmesh_next, cmesh_xy and cmesh_yx.
NextShort == K \div 2 - 1
XyYxShort == 1
NoExpress == K

Eject(p) == {Whole(p, NodeToPort(p.dest))}

DorCMesh(p, short) ==
  LET dest == NodeToRouter(p.dest)
  IN IF p.at = dest THEN Eject(p) ELSE {Whole(p, XThenY(p.at, dest, short))}

\* The order of the dimensions is drawn at the first router and read off the VC after.
XyYxCMesh(p, short) ==
  LET dest == NodeToRouter(p.dest)
      xy   == LowerHalf(Whole(p, XThenY(p.at, dest, short)))
      yx   == UpperHalf(Whole(p, YThenX(p.at, dest, short)))
  IN CASE p.at = dest -> Eject(p)
       [] p.at # dest /\ p.in < C -> {xy, yx}
       [] OTHER -> IF p.vc < Lo(p) + ClassVcs(p) \div 2 THEN {xy} ELSE {yx}

\* Without the channels along the edges.
DorNoExpressCMesh(p)  == DorCMesh(p, NoExpress)
XyYxNoExpressCMesh(p) == XyYxCMesh(p, NoExpress)

Route(p) ==
  CASE p.alg = "dor_cmesh"              -> DorCMesh(p, NextShort)
    [] p.alg = "dor_no_express_cmesh"   -> DorNoExpressCMesh(p)
    [] p.alg = "xy_yx_cmesh"            -> XyYxCMesh(p, XyYxShort)
    [] p.alg = "xy_yx_no_express_cmesh" -> XyYxNoExpressCMesh(p)

\* Every hop leaves less to the destination's router: an express channel leads neither past
\* it nor the other way.
Distance(a, b) == Dist(X(a), X(b)) + Dist(Y(a), Y(b))
Nearer(p, q) == LET dest == NodeToRouter(p.dest) IN Distance(q.at, dest) < Distance(p.at, dest)

Starts(net) == Packets(net, Algs, {{}}, Attach, LAMBDA h : Lo(h) .. Hi(h))

=============================================================================
