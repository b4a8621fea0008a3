------------------------------- MODULE Trees --------------------------------
(***************************************************************************)
(* BookSim's networks of stages: the k-ary n-fly, the quad tree, the tree4 *)
(* and the fat tree, and their routing functions.  Routers are numbered    *)
(* 256 * level + position, as the quad tree does; in the trees level 0 is  *)
(* the top, and the nodes are below the last.  In the fly they send to the *)
(* first stage and receive from the last.                                  *)
(***************************************************************************)
EXTENDS VcClasses

CONSTANTS
  Topology, \* "fly", "qtree", "tree4" or "fattree"
  K, N,     \* degree, levels
  Algs      \* routing functions

TreesAssumption ==
  /\ VcClassesAssumption
  /\ Topology \in {"fly", "qtree", "tree4", "fattree"}
  /\ K \in Nat \ {0, 1} /\ N \in Nat \ {0, 1}
  /\ Topology \in {"qtree", "tree4"} => K = 4 /\ N = 3
  /\ Ends \subseteq 0 .. K^N - 1
  /\ Algs \subseteq {"dest_tag_fly", "qtree_nca", "tree4_nca", "tree4_anca", "fattree_nca", "fattree_anca"}

Bottom == N - 1
Level(router) == router \div 256
Pos(router)   == router % 256

\* Routers of a level.
Width(h) ==
  CASE Topology = "qtree" -> K^h
    [] Topology = "tree4" -> (4 \div 2^h) * K^h
    [] OTHER              -> K^(N - 1)

\* Ports below K lead down, the others up; the fly has only the former.
UpPorts(h) ==
  CASE Topology = "fly" \/ h = 0            -> {}
    [] Topology = "qtree"                   -> {K}
    [] Topology = "tree4" /\ h = Bottom     -> {K, K + 1}
    [] OTHER                                -> K .. 2 * K - 1
DownPorts(h) == IF Topology = "tree4" /\ h = 0 THEN 0 .. 2 * K - 1 ELSE 0 .. K - 1
Ports(h) == DownPorts(h) \cup UpPorts(h)

-----------------------------------------------------------------------------
(* The channels, each by whatever _BuildNet counts them with.              *)

\* KNFly: the first digit of the address and the digit of the stage change places.
FlyOut(h, pos, port) == <<h, pos * K + port>>
FlyIn(h, pos, port) ==
  LET shift == K^(N - h - 1)
      zero  == (pos \div shift) % K
  IN <<h - 1, (pos - zero * shift + port * shift) * K + zero>>

\* QTree: a channel up and one down for every router, position and port of a child.
QTreeOut(h, pos, port) ==
  IF port = K THEN <<"in", h - 1, pos \div K, pos % K>> ELSE <<"out", h, pos, port>>
QTreeIn(h, pos, port) ==
  IF port = K THEN <<"out", h - 1, pos \div K, pos % K>> ELSE <<"in", h, pos, port>>

\* Tree4: the middle routers have half the bottom routers below them and all the top
\* ones above.
Tree4Out(h, pos, port) ==
  CASE port \in DownPorts(h)       -> <<"down", h, pos, port>>
    [] port \in UpPorts(h) /\ h = 1 -> <<"up", 0, port - K, pos>>
    [] OTHER                       -> <<"up", 1, 2 * (pos \div K) + port - K, pos % K>>
Tree4In(h, pos, port) ==
  CASE port \in DownPorts(h)       -> <<"up", h, pos, port>>
    [] port \in UpPorts(h) /\ h = 1 -> <<"down", 0, port - K, pos>>
    [] OTHER                       -> <<"down", 1, 2 * (pos \div K) + port - K, pos % K>>

\* FatTree: interleaved by neighbourhood, branch and router.
Interleaved(pos, port, neighborhood) ==
  LET branch == neighborhood \div K
      within == pos % neighborhood
  IN (pos \div neighborhood) * neighborhood * K + port * branch * K
       + (within % branch) * K + within \div branch
FatTreeOut(h, pos, port) ==
  IF port < K THEN <<"down", h, pos * K + port>> ELSE <<"up", h, pos * K + port - K>>
FatTreeIn(h, pos, port) ==
  IF port < K THEN <<"up", h + 1, Interleaved(pos, port, K^(N - 1 - h))>>
  ELSE <<"down", h - 1, Interleaved(pos, port - K, K^(N - h))>>

OutChannel(h, pos, port) ==
  CASE Topology = "fly"     -> FlyOut(h, pos, port)
    [] Topology = "qtree"   -> QTreeOut(h, pos, port)
    [] Topology = "tree4"   -> Tree4Out(h, pos, port)
    [] Topology = "fattree" -> FatTreeOut(h, pos, port)
InChannel(h, pos, port) ==
  CASE Topology = "fly"     -> FlyIn(h, pos, port)
    [] Topology = "qtree"   -> QTreeIn(h, pos, port)
    [] Topology = "tree4"   -> Tree4In(h, pos, port)
    [] Topology = "fattree" -> FatTreeIn(h, pos, port)

\* Where the channel of an output port ends.
Link(router, port) ==
  LET h    == Level(router)
      next == IF port \in DownPorts(h) THEN h + 1 ELSE h - 1
      ends == {<<pos, in>> : pos \in 0 .. Width(next) - 1,
                             in \in IF next > h /\ Topology # "fly" THEN UpPorts(next) ELSE DownPorts(next)}
      end  == CHOOSE e \in ends : InChannel(next, e[1], e[2]) = OutChannel(h, Pos(router), port)
  IN <<256 * next + end[1], end[2]>>

Channels ==
  UNION {{<<256 * h + pos, port>> : pos \in 0 .. Width(h) - 1,
                                    port \in IF h = Bottom THEN UpPorts(h) ELSE Ports(h)} : h \in 0 .. Bottom}

EjectsTo(router, port) ==
  IF Level(router) = Bottom /\ port < K THEN Pos(router) * K + port ELSE -1

Attach(node) == <<256 * (IF Topology = "fly" THEN 0 ELSE Bottom) + node \div K, node % K>>

-----------------------------------------------------------------------------
(* Routing functions.  No way is chosen but on the way up, at random or by *)
(* the credits in use.                                                     *)

\* The digit of the destination for the stage.
DestTagFly(p) == {Whole(p, (p.dest \div K^(Bottom - Level(p.at))) % K)}

QTreeNca(p) ==
  LET dest == p.dest \div K^(Bottom - Level(p.at))
  IN {Whole(p, IF Pos(p.at) = dest \div K THEN dest % K ELSE K)}

\* Either of two routers below the top leads to the destination.
Tree4(p) ==
  LET h == Level(p.at)  pos == Pos(p.at)
  IN CASE h = 0 -> {2 * (p.dest \div 16), 2 * (p.dest \div 16) + 1}
       [] h = 1 -> IF p.dest \div 16 = pos \div 2 THEN {(p.dest \div 4) % 4} ELSE K .. 2 * K - 1
       [] OTHER -> IF p.dest \div 4 = pos THEN {p.dest % 4} ELSE {K, K + 1}
Tree4Nca(p) == {Whole(p, out) : out \in Tree4(p)}

\* slip: the neighbourhood of the level below.
FatTreeNcaBelow(p) ==
  LET h            == Level(p.at)
      coverage     == K^(N - h)
      neighborhood == Pos(p.at) \div K^(N - h)
      below        == p.dest - neighborhood * coverage
  IN {Whole(p, out) : out \in IF below \in 0 .. coverage - 1
                              THEN {IF h = Bottom THEN p.dest % K ELSE below \div K^(N - h - 1)}
                              ELSE K .. 2 * K - 1}

\* Down as soon as the destination is among the nodes that the router covers.
FatTreeNca(p) ==
  LET h            == Level(p.at)
      coverage     == K^(N - h)
      neighborhood == Pos(p.at) \div K^(N - h - 1)
      below        == p.dest - neighborhood * coverage
  IN {Whole(p, out) : out \in IF below \in 0 .. coverage - 1
                              THEN {IF h = Bottom THEN p.dest % K ELSE below \div K^(N - h - 1)}
                              ELSE K .. 2 * K - 1}

\* The better of two ports drawn at random: any.
FatTreeAnca(p) == FatTreeNca(p)

Route(p) ==
  CASE p.alg = "dest_tag_fly"                   -> DestTagFly(p)
    [] p.alg = "qtree_nca"                      -> QTreeNca(p)
    [] p.alg \in {"tree4_nca", "tree4_anca"}     -> Tree4Nca(p)
    [] p.alg = "fattree_nca"                    -> FatTreeNca(p)
    [] p.alg = "fattree_anca"                   -> FatTreeAnca(p)

\* What fattree_nca asserts of the input a packet came by: what came down never goes up.
Nearer(p, q) == Level(q.at) < Level(p.at) => p.in \in DownPorts(Level(p.at))

Starts(net) == Packets(net, Algs, {{}}, Attach, LAMBDA h : Lo(h) .. Hi(h))

=============================================================================
