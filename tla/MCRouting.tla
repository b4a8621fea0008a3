----------------------------- MODULE MCRouting ------------------------------
(***************************************************************************)
(* The networks in which packets are followed, and those in which they     *)
(* wait for each other: small ones of every topology, with every routing   *)
(* function of it; and the networks that small files list (AnyNet), with   *)
(* their tables.  README.md says what is left out, and why.                *)
(***************************************************************************)
EXTENDS Routing, FiniteSetsExt

VARIABLES step, head, nodeList, named, routers, attached, links, start, dist, prev, rlist, table   \* as in AnyNet

fileVars == <<step, head, nodeList, named, routers, attached, links, start, dist, prev, rlist, table>>

MeshEnds == {0, 1, 2, 3, 4, 5, 6, 7, 8}
Sides    == 0 .. 7 \cup 56 .. 63
SideAlgs == {"directed_valiant_mesh", "four_sided_mesh", "diamond_mesh"}
FourTree == {0, 3, 6, 17, 30, 45, 48, 63}
FlatAlgs == {"ran_min", "xyyx", "adaptive_xyyx", "valiant", "ugal", "ugal_xyyx"}
CMeshAlgs == {"dor_cmesh", "dor_no_express_cmesh", "xy_yx_cmesh", "xy_yx_no_express_cmesh"}

\* Packets of the class that has the upper half of the VCs.
Mesh3 == INSTANCE Mesh WITH K <- 3, N <- 2, Vcs <- 6, Types <- {"reply"}, LinkFailures <- 0,
  Ends <- MeshEnds,
  Algs <- {"dim_order_mesh", "dim_order_pni_mesh", "xy_yx_mesh", "adaptive_xy_yx_mesh", "romm_mesh",
           "valiant_mesh", "min_adapt_mesh", "planar_adapt_mesh", "chaos_mesh"}
Mesh8 == INSTANCE Mesh WITH K <- 8, N <- 2, Vcs <- 4, Types <- {"reply"}, LinkFailures <- 0,
  Ends <- Sides, Algs <- SideAlgs
Torus4 == INSTANCE Torus WITH K <- 4, N <- 2, Vcs <- 8, Types <- {"reply"}, LinkFailures <- 0,
  Ends <- {0, 1, 2, 7, 10, 15},
  Algs <- {"dim_order_torus", "dim_order_bal_torus", "valiant_torus", "min_adapt_torus", "chaos_torus"}
FatTree == INSTANCE Trees WITH Topology <- "fattree", K <- 2, N <- 3, Vcs <- 4, Types <- {"reply"},
  Ends <- 0 .. 7, Algs <- {"fattree_nca", "fattree_anca"}
Tree4 == INSTANCE Trees WITH Topology <- "tree4", K <- 4, N <- 3, Vcs <- 2, Types <- {"reply"},
  Ends <- FourTree, Algs <- {"tree4_nca", "tree4_anca"}
QTree == INSTANCE Trees WITH Topology <- "qtree", K <- 4, N <- 3, Vcs <- 4, Types <- {"reply"},
  Ends <- FourTree, Algs <- {"qtree_nca"}
Fly == INSTANCE Trees WITH Topology <- "fly", K <- 3, N <- 3, Vcs <- 4, Types <- {"reply"},
  Ends <- {0, 1, 5, 9, 13, 20, 26}, Algs <- {"dest_tag_fly"}
CMesh4 == INSTANCE CMesh WITH K <- 4, Vcs <- 4, Types <- {"reply"},
  Ends <- {0, 3, 7, 10, 21, 28, 34, 39, 45, 56, 59, 63}, Algs <- CMeshAlgs
FlatFly3 == INSTANCE FlatFly WITH K <- 3, N <- 2, XCount <- 3, XRouter <- 2, Vcs <- 8, Types <- {"reply"},
  Ends <- {0, 3, 7, 16, 20, 35}, Algs <- FlatAlgs
FlatFly4 == INSTANCE FlatFly WITH K <- 4, N <- 2, XCount <- 4, XRouter <- 2, Vcs <- 16, Types <- {"reply"},
  Ends <- {0, 9, 18, 37, 54, 63}, Algs <- {"ugal_pni"}
DragonFly2 == INSTANCE DragonFly WITH P <- 2, Vcs <- 3, Types <- {"any"},
  Ends <- {0, 5, 11, 40, 71}, Algs <- {"min", "ugal"}

\* Packets of one class, on as few VCs as the routing functions need for no deadlock.
MeshFaults == INSTANCE Mesh WITH K <- 4, N <- 2, Vcs <- 3, Types <- {"any"}, LinkFailures <- 1,
  Ends <- 0 .. 15, Algs <- {"planar_adapt_mesh"}
MeshWaits == INSTANCE Mesh WITH K <- 3, N <- 2, Vcs <- 10, Types <- {"any"}, LinkFailures <- 0,
  Ends <- MeshEnds,
  Algs <- {"dim_order_mesh", "dim_order_ni_mesh", "dim_order_pni_mesh", "xy_yx_mesh",
           "adaptive_xy_yx_mesh", "romm_mesh", "romm_ni_mesh", "min_adapt_mesh", "planar_adapt_mesh"}
TorusWaits == INSTANCE Torus WITH K <- 4, N <- 2, Vcs <- 4, Types <- {"any"}, LinkFailures <- 0,
  Ends <- 0 .. 15, Algs <- {"dim_order_torus", "dim_order_bal_torus", "min_adapt_torus"}
RingWaits == INSTANCE Torus WITH K <- 7, N <- 1, Vcs <- 8, Types <- {"any"}, LinkFailures <- 0,
  Ends <- 0 .. 6,
  Algs <- {"dim_order_torus", "dim_order_ni_torus", "dim_order_bal_torus", "min_adapt_torus"}
FatTreeWaits == INSTANCE Trees WITH Topology <- "fattree", K <- 2, N <- 3, Vcs <- 2, Types <- {"any"},
  Ends <- 0 .. 7, Algs <- {"fattree_nca", "fattree_anca"}
Tree4Waits == INSTANCE Trees WITH Topology <- "tree4", K <- 4, N <- 3, Vcs <- 2, Types <- {"any"},
  Ends <- FourTree, Algs <- {"tree4_nca"}
CMeshWaits == INSTANCE CMesh WITH K <- 4, Vcs <- 2, Types <- {"any"},
  Ends <- {0, 2, 4, 6, 16, 18, 20, 22, 32, 34, 36, 38, 48, 50, 52, 54}, Algs <- CMeshAlgs
FlatFlyWaits == INSTANCE FlatFly WITH K <- 3, N <- 2, XCount <- 3, XRouter <- 1, Vcs <- 4, Types <- {"any"},
  Ends <- 0 .. 8, Algs <- FlatAlgs
FlatFlyPniWaits == INSTANCE FlatFly WITH K <- 4, N <- 2, XCount <- 4, XRouter <- 2, Vcs <- 8, Types <- {"any"},
  Ends <- {0, 2, 16, 18, 37, 54}, Algs <- {"ugal_pni"}
DragonFlyWaits == INSTANCE DragonFly WITH P <- 2, Vcs <- 2, Types <- {"any"},
  Ends <- {0, 3, 5, 9, 14, 17, 21, 26, 30, 38, 44, 52, 59, 63, 71}, Algs <- {"min"}

\* Files with latencies in routers' lines.
File == INSTANCE AnyNetTables WITH MaxRouters <- 3, MaxNodes <- 1, Weights <- {3}, NodeWeights <- {},
  Heads <- {"router", "node"}

ASSUME NetworksAssumption ==
  /\ Mesh3!MeshAssumption /\ Mesh8!MeshAssumption /\ MeshFaults!MeshAssumption /\ MeshWaits!MeshAssumption
  /\ Torus4!TorusAssumption /\ TorusWaits!TorusAssumption /\ RingWaits!TorusAssumption
  /\ FatTree!TreesAssumption /\ Tree4!TreesAssumption /\ QTree!TreesAssumption /\ Fly!TreesAssumption
  /\ FatTreeWaits!TreesAssumption /\ Tree4Waits!TreesAssumption
  /\ CMesh4!CMeshAssumption /\ CMeshWaits!CMeshAssumption
  /\ FlatFly3!FlatFlyAssumption /\ FlatFly4!FlatFlyAssumption
  /\ FlatFlyWaits!FlatFlyAssumption /\ FlatFlyPniWaits!FlatFlyAssumption
  /\ DragonFly2!DragonFlyAssumption /\ DragonFlyWaits!DragonFlyAssumption
  /\ File!AnyNetAssumption

-----------------------------------------------------------------------------
(* A case for each.                                                        *)

MCOutputSet(p) ==
  CASE p.net = "mesh3"             -> Mesh3!Route(p)
    [] p.net = "mesh8"             -> Mesh8!Route(p)
    [] p.net = "mesh_faults"       -> MeshFaults!Route(p)
    [] p.net = "torus4"            -> Torus4!Route(p)
    [] p.net = "fattree"           -> FatTree!Route(p)
    [] p.net = "tree4"             -> Tree4!Route(p)
    [] p.net = "qtree"             -> QTree!Route(p)
    [] p.net = "fly"               -> Fly!Route(p)
    [] p.net = "cmesh4"            -> CMesh4!Route(p)
    [] p.net = "flatfly3"          -> FlatFly3!Route(p)
    [] p.net = "flatfly4"          -> FlatFly4!Route(p)
    [] p.net = "dragonfly2"        -> DragonFly2!Route(p)
    [] p.net = "mesh_waits"        -> MeshWaits!Route(p)
    [] p.net = "torus_waits"       -> TorusWaits!Route(p)
    [] p.net = "ring_waits"        -> RingWaits!Route(p)
    [] p.net = "fattree_waits"     -> FatTreeWaits!Route(p)
    [] p.net = "tree4_waits"       -> Tree4Waits!Route(p)
    [] p.net = "cmesh_waits"       -> CMeshWaits!Route(p)
    [] p.net = "flatfly_waits"     -> FlatFlyWaits!Route(p)
    [] p.net = "flatfly_pni_waits" -> FlatFlyPniWaits!Route(p)
    [] p.net = "dragonfly_waits"   -> DragonFlyWaits!Route(p)

\* The channels of each network, once and for all.
Table(channels, Behind(_, _)) ==
  [r \in {c[1] : c \in channels} |->
     [port \in {c[2] : c \in {c \in channels : c[1] = r}} |-> Behind(r, port)] @@ <<>>] @@ <<>>
Links ==
  [mesh3 |-> Table(Mesh3!Channels, Mesh3!Link),
   mesh8 |-> Table(Mesh8!Channels, Mesh8!Link),
   mesh_faults |-> Table(MeshFaults!Channels, MeshFaults!Link),
   torus4 |-> Table(Torus4!Channels, Torus4!Link),
   fattree |-> Table(FatTree!Channels, FatTree!Link),
   tree4 |-> Table(Tree4!Channels, Tree4!Link),
   qtree |-> Table(QTree!Channels, QTree!Link),
   fly |-> Table(Fly!Channels, Fly!Link),
   cmesh4 |-> Table(CMesh4!Channels, CMesh4!Link),
   flatfly3 |-> Table(FlatFly3!Channels, FlatFly3!Link),
   flatfly4 |-> Table(FlatFly4!Channels, FlatFly4!Link),
   dragonfly2 |-> Table(DragonFly2!Channels, DragonFly2!Link),
   mesh_waits |-> Table(MeshWaits!Channels, MeshWaits!Link),
   torus_waits |-> Table(TorusWaits!Channels, TorusWaits!Link),
   ring_waits |-> Table(RingWaits!Channels, RingWaits!Link),
   fattree_waits |-> Table(FatTreeWaits!Channels, FatTreeWaits!Link),
   tree4_waits |-> Table(Tree4Waits!Channels, Tree4Waits!Link),
   cmesh_waits |-> Table(CMeshWaits!Channels, CMeshWaits!Link),
   flatfly_waits |-> Table(FlatFlyWaits!Channels, FlatFlyWaits!Link),
   flatfly_pni_waits |-> Table(FlatFlyPniWaits!Channels, FlatFlyPniWaits!Link),
   dragonfly_waits |-> Table(DragonFlyWaits!Channels, DragonFlyWaits!Link)]
MCNextInput(net, router, port) == Links[net][router][port]

MCNodeBehind(net, router, port) ==
  CASE net = "mesh3"             -> Mesh3!EjectsTo(router, port)
    [] net = "mesh8"             -> Mesh8!EjectsTo(router, port)
    [] net = "mesh_faults"       -> MeshFaults!EjectsTo(router, port)
    [] net = "torus4"            -> Torus4!EjectsTo(router, port)
    [] net = "fattree"           -> FatTree!EjectsTo(router, port)
    [] net = "tree4"             -> Tree4!EjectsTo(router, port)
    [] net = "qtree"             -> QTree!EjectsTo(router, port)
    [] net = "fly"               -> Fly!EjectsTo(router, port)
    [] net = "cmesh4"            -> CMesh4!EjectsTo(router, port)
    [] net = "flatfly3"          -> FlatFly3!EjectsTo(router, port)
    [] net = "flatfly4"          -> FlatFly4!EjectsTo(router, port)
    [] net = "dragonfly2"        -> DragonFly2!EjectsTo(router, port)
    [] net = "mesh_waits"        -> MeshWaits!EjectsTo(router, port)
    [] net = "torus_waits"       -> TorusWaits!EjectsTo(router, port)
    [] net = "ring_waits"        -> RingWaits!EjectsTo(router, port)
    [] net = "fattree_waits"     -> FatTreeWaits!EjectsTo(router, port)
    [] net = "tree4_waits"       -> Tree4Waits!EjectsTo(router, port)
    [] net = "cmesh_waits"       -> CMeshWaits!EjectsTo(router, port)
    [] net = "flatfly_waits"     -> FlatFlyWaits!EjectsTo(router, port)
    [] net = "flatfly_pni_waits" -> FlatFlyPniWaits!EjectsTo(router, port)
    [] net = "dragonfly_waits"   -> DragonFlyWaits!EjectsTo(router, port)

\* The longest way, ejection included.
MCMaxHops(net) ==
  CASE net \in {"fly"} -> 3
    [] net \in {"fattree", "tree4", "qtree", "flatfly3", "flatfly4", "fattree_waits", "tree4_waits", "flatfly_waits", "flatfly_pni_waits"} -> 5
    [] net \in {"cmesh4", "dragonfly2", "cmesh_waits", "dragonfly_waits"} -> 7
    [] net \in {"mesh_faults"} -> 8
    [] net \in {"mesh3", "torus4", "mesh_waits", "torus_waits", "ring_waits"} -> 9
    [] net \in {"mesh8"} -> 17

MCWalked ==
  {"mesh3", "mesh8", "mesh_faults", "torus4", "fattree", "tree4", "qtree",
   "fly", "cmesh4", "flatfly3", "flatfly4", "dragonfly2"}
MCEntering(net) ==
  CASE net = "mesh3"        -> Mesh3!Starts(net)
    [] net = "mesh8"        -> Mesh8!Starts(net)
    [] net = "mesh_faults"  -> MeshFaults!Starts(net)
    [] net = "torus4"       -> Torus4!Starts(net)
    [] net = "fattree"      -> FatTree!Starts(net)
    [] net = "tree4"        -> Tree4!Starts(net)
    [] net = "qtree"        -> QTree!Starts(net)
    [] net = "fly"          -> Fly!Starts(net)
    [] net = "cmesh4"       -> CMesh4!Starts(net)
    [] net = "flatfly3"     -> FlatFly3!Starts(net)
    [] net = "flatfly4"     -> FlatFly4!Starts(net)
    [] net = "dragonfly2"   -> DragonFly2!Starts(net)

Blockable ==
       Mesh8!Starts("mesh8")
  \cup MeshFaults!Starts("mesh_faults")
  \cup MeshWaits!Starts("mesh_waits")
  \cup TorusWaits!Starts("torus_waits")
  \cup RingWaits!Starts("ring_waits")
  \cup FatTreeWaits!Starts("fattree_waits")
  \cup Tree4Waits!Starts("tree4_waits")
  \cup CMeshWaits!Starts("cmesh_waits")
  \cup FlatFlyWaits!Starts("flatfly_waits")
  \cup FlatFlyPniWaits!Starts("flatfly_pni_waits")
  \cup DragonFlyWaits!Starts("dragonfly_waits")

\* The waiting in each network, worked out once.
MCBlocked == {Network(p) : p \in Blockable}
WaitingTable == FoldSet(LAMBDA n, all : all @@ (n :> Waits(n[1], {p \in Blockable : Network(p) = n})), <<>>, MCBlocked)
MCWaiting(n) == WaitingTable[n]

-----------------------------------------------------------------------------
(* A packet, a chain of packets, or a file.                                *)

NoFile ==
  /\ step = "none" /\ head = <<>> /\ nodeList = <<>> /\ named = <<>> /\ routers = <<>> /\ attached = <<>>
  /\ links = <<>> /\ start = <<>> /\ dist = <<>> /\ prev = <<>> /\ rlist = <<>> /\ table = <<>>
NoPacket == pkt = None /\ hops = 0 /\ network = None /\ first = None /\ last = None

NetworksInit ==
  \/ Init /\ NoFile
  \/ File!Init /\ NoPacket

NetworksNext ==
  \/ step = "none" /\ Next /\ UNCHANGED fileVars
  \/ step # "none" /\ File!Next /\ UNCHANGED vars

NetworksSpec == NetworksInit /\ [][NetworksNext]_<<vars, fileVars>> /\ WF_vars(Hop)

-----------------------------------------------------------------------------
(* What routing is for.                                                    *)

\* Whether the head is on a VC of the packet's class.
InClass(p) ==
  CASE p.net = "mesh3"       -> Mesh3!InClass(p)
    [] p.net = "mesh8"       -> Mesh8!InClass(p)
    [] p.net = "mesh_faults" -> MeshFaults!InClass(p)
    [] p.net = "torus4"      -> Torus4!InClass(p)
    [] p.net = "fattree"     -> FatTree!InClass(p)
    [] p.net = "tree4"       -> Tree4!InClass(p)
    [] p.net = "qtree"       -> QTree!InClass(p)
    [] p.net = "fly"         -> Fly!InClass(p)
    [] p.net = "cmesh4"      -> CMesh4!InClass(p)
    [] p.net = "flatfly3"    -> FlatFly3!InClass(p)
    [] p.net = "flatfly4"    -> FlatFly4!InClass(p)
    [] p.net = "dragonfly2"  -> DragonFly2!InClass(p)

\* Whether a hop brought the packet on, as its topology has it.  A faulty channel may send
\* a packet back, ugal_pni is ugal on fewer VCs, and the fly has one way only.
Nearer(p, q) ==
  CASE p.net = "mesh3"       -> Mesh3!Nearer(p, q)
    [] p.net = "mesh8"       -> Mesh8!Nearer(p, q)
    [] p.net = "torus4"      -> Torus4!Nearer(p, q)
    [] p.net = "fattree"     -> FatTree!Nearer(p, q)
    [] p.net = "tree4"       -> Tree4!Nearer(p, q)
    [] p.net = "cmesh4"      -> CMesh4!Nearer(p, q)
    [] p.net = "flatfly3"    -> FlatFly3!Nearer(p, q)
    [] p.net = "dragonfly2"  -> DragonFly2!Nearer(p, q)
    [] OTHER                 -> TRUE

\* Whether the way was what it has to be in an ejected packet.
WholeWay(p, channels) ==
  CASE p.net = "torus4"     -> Torus4!WholeWay(p)
    [] p.net = "dragonfly2" -> DragonFly2!WholeWay(p, channels)
    [] OTHER                -> TRUE

\* A packet leaves the network at its destination and nowhere else, by way of the node that
\* was chosen for it, after no more hops than the distance on such a way; before, it is
\* always on a VC of its class, every routing function's first assertion (only the chaos
\* router's functions know no classes).
Delivered ==
  Walking =>
    /\ hops <= MaxHops(pkt.net)
    /\ IF pkt.at = Ejected THEN pkt.in = pkt.dest /\ WholeWay(pkt, hops)
       ELSE pkt.alg \notin {"chaos_mesh", "chaos_torus"} => InClass(pkt)

\* Every hop brings a packet nearer to the node it is heading for: in a torus also where a
\* router sends it straight on, in a concentrated mesh by the express channels too, in a
\* tree never up after down, in a dragonfly on VCs that only ascend.
Productive == [][Walking /\ pkt'.at # Ejected => Nearer(pkt, pkt')]_pkt

\* Every packet is ejected in the end, whichever nodes, orders and outputs are drawn.
EventuallyEjected == Walking ~> (pkt # None /\ pkt.at = Ejected)

\* No packet waits, through any number of others, for the VC that it holds itself: with one
\* routing function for all packets no network deadlocks.
NoCyclicWait == first # None => last # first

\* The routing tables of a network that a file lists lead every packet to its node, on a way
\* that is minimal (examples/anynet/README).
TablesMinimal == step # "none" => File!TablesMinimal

=============================================================================
