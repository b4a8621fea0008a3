------------------------------- MODULE KNCube -------------------------------
(***************************************************************************)
(* BookSim's k-ary n-cubes: meshes and tori, their channels, and their     *)
(* routing functions.  Node and router numbers agree; the input and output *)
(* ports 2d and 2d + 1 of a router lead right and left in dimension d, and *)
(* port 2N to the node.                                                    *)
(***************************************************************************)
EXTENDS VcClasses, FiniteSetsExt

CONSTANTS
  K, N,         \* routers per dimension, dimensions
  LinkFailures  \* 0 or 1 (InsertRandomFaults)

KNCubeAssumption ==
  /\ VcClassesAssumption
  /\ K \in Nat \ {0, 1} /\ N \in Nat \ {0}
  /\ LinkFailures \in {0, 1}
  /\ Ends \subseteq 0 .. K^N - 1

Nodes == 0 .. K^N - 1
Dims  == 0 .. N - 1
Local == 2 * N

Right(d) == 2 * d
Left(d)  == 2 * d + 1
Digit(x, d) == (x \div K^d) % K
DimOf(port) == port \div 2
Opposite(port) == IF port % 2 = 0 THEN port + 1 ELSE port - 1

-----------------------------------------------------------------------------
(* The network: KNCube::_BuildNet.                                         *)

LeftNode(node, d)  == IF Digit(node, d) = 0 THEN node + (K - 1) * K^d ELSE node - K^d
RightNode(node, d) == IF Digit(node, d) = K - 1 THEN node - (K - 1) * K^d ELSE node + K^d

LeftChannel(node, d)  == 2 * N * node + 2 * d + 1
RightChannel(node, d) == 2 * N * node + 2 * d

\* The channel on an output port, and the one on an input port.
OutChannel(node, port) ==
  IF port = Right(DimOf(port)) THEN RightChannel(node, DimOf(port)) ELSE LeftChannel(node, DimOf(port))
InChannel(node, port) ==
  IF port = Right(DimOf(port)) THEN LeftChannel(RightNode(node, DimOf(port)), DimOf(port))
  ELSE RightChannel(LeftNode(node, DimOf(port)), DimOf(port))

\* The router and input port behind an output port, by the number of the channel.
Link(node, port) ==
  LET d == DimOf(port)
  IN CHOOSE to \in {LeftNode(node, d), RightNode(node, d)} \X {Right(d), Left(d)} :
       InChannel(to[1], to[2]) = OutChannel(node, port)

Channels == {<<node, port>> : node \in Nodes, port \in 0 .. Local - 1}

EjectsTo(node, port) == IF port = Local THEN node ELSE -1

\* InsertRandomFaults: an output 0 or N, for (n + c) % 2*_n, of a router off the edge
\* whose neighbour to the right is on the edge, for chan % 1 is never 1.
OnEdge(node) == \E d \in Dims : Digit(node, d) \in {0, K - 1}
FaultSets ==
  IF LinkFailures = 0 THEN {{}}
  ELSE {{f} : f \in {f \in Nodes \X {0, N} :
                       ~OnEdge(f[1]) /\ OnEdge(RightNode(f[1], DimOf(f[2])))}}

-----------------------------------------------------------------------------
(* What the routing functions of meshes and tori share.                    *)

Unmatched(cur, dest) == {d \in Dims : Digit(cur, d) # Digit(dest, d)}

\* slip: by the numbers of the nodes.
TowardByNode(cur, dest, d) == IF cur < dest THEN Right(d) ELSE Left(d)
Toward(cur, dest, d) == IF Digit(cur, d) < Digit(dest, d) THEN Right(d) ELSE Left(d)

\* dor_next_mesh
DorMesh(cur, dest, descending) ==
  IF cur = dest THEN Local
  ELSE Toward(cur, dest, IF descending THEN Max(Unmatched(cur, dest)) ELSE Min(Unmatched(cur, dest)))

\* A node is attached to the router of its number.
Attach(node) == <<node, Local>>

=============================================================================
