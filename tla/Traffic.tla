------------------------------ MODULE Traffic -------------------------------
(***************************************************************************)
(* BookSim's synthetic traffic: where a node's packets are bound for.  A   *)
(* pattern is asked node by node; here the node a packet came to sends the *)
(* next one.                                                               *)
(***************************************************************************)
EXTENDS Integers, FiniteSets, SequencesExt

CONSTANTS
  Patterns,   \* the patterns that are run
  Sizes,      \* numbers of nodes
  K, N, XR,   \* "k", "n" and "xr" of the topology
  Draws,      \* "randperm": bound on what is drawn, sequences of RandomInt(15)
  InjectionNodes, \* "custom": config "injection_nodes", all when there are none
  Excluded,   \* "background": nodes that nothing is sent to
  Hotspots,   \* "hotspot": sequences of nodes
  Rates       \* and of their rates

BitPatterns   == {"bitcomp", "transpose", "bitrev", "shuffle"}
DigitPatterns == {"tornado", "neighbor"}
PermPatterns  == BitPatterns \cup DigitPatterns \cup {"stress", "randperm"}

TrafficAssumption ==
  /\ Sizes \subseteq Nat \ {0}
  /\ \A draws \in Draws : ToSet(draws) = 0 .. 15
  /\ \A f \in Hotspots : Len(f) > 0

Powers == {2^i : i \in 0 .. 10}
Log2(size) == CHOOSE i \in 0 .. 10 : 2^i = size
Width == XR * K

\* What the constructors demand of the number of nodes, and the patterns made for a
\* topology of it.
Accepts(pat, sz) ==
  CASE pat \in {"bitcomp", "bitrev", "shuffle"} -> sz \in Powers
    [] pat = "transpose"     -> sz \in Powers /\ Log2(sz) % 2 = 0
    [] pat \in DigitPatterns -> sz = Width^N
    [] pat = "badperm_yarc"  -> sz = Width^2
    [] pat = "bad_dragon"    -> sz = (2 * K * K) * (2 * K * K + 1)
    [] pat \in {"stress", "randperm", "taper64"} -> sz = 64
    [] pat = "custom"        -> InjectionNodes \subseteq 0 .. sz - 1
    [] pat = "asymmetric"    -> sz % 2 = 0
    [] pat = "background"    -> Excluded \subseteq 0 .. sz - 1 /\ Excluded # 0 .. sz - 1
    [] pat = "hotspot"       -> \A f \in Hotspots : ToSet(f) \subseteq 0 .. sz - 1
    [] pat \in {"uniform", "diagonal"} -> TRUE

VARIABLES
  pattern, size,
  perm,      \* "randperm": the table
  spots,     \* "hotspot": the hot spots and their rates
  origin,    \* history: the first node that sends, when the pattern is a permutation
  at,        \* the node that the last packet came to
  visited    \* history: the nodes that have sent since it did, of such a pattern

vars == <<pattern, size, perm, spots, origin, at, visited>>

Nodes == 0 .. size - 1

-----------------------------------------------------------------------------
(* PermPatterns of bits and of digits                                      *)

BitComp(s) == (-1 - s) % size

\* slip: the two parts of the number are not halves.
TransposeUneven(s) ==
  LET high == 2^(Log2(size) \div 2 + 1) IN (s \div high) + ((s * (size \div high)) % size)
Transpose(s) == LET half == 2^(Log2(size) \div 2) IN (s \div half) + ((s * half) % size)

BitRev(s) ==
  FoldLeft(LAMBDA result, i : 2 * result + ((s \div 2^(i - 1)) % 2), 0, [i \in 1 .. Log2(size) |-> i])

Shuffle(s) == ((2 * s) % size) + (IF 2 * s >= size THEN 1 ELSE 0)

\* Every digit moved up, around.
MovedUp(s, by) ==
  FoldLeft(LAMBDA result, d : result + Width^d * ((((s \div Width^d) % Width) + by) % Width),
           0, [d \in 1 .. N |-> d - 1])

Tornado(s)  == MovedUp(s, (Width + 1) \div 2 - 1)
Neighbor(s) == MovedUp(s, 1)

-----------------------------------------------------------------------------
(* Patterns made for the first and last row of an 8 x 8 mesh.             *)

\* The opposite half of the opposite row; other nodes send to themselves.
Stress(s) ==
  LET Swapped(x) == IF x < 4 THEN x + 4 ELSE x - 4
  IN CASE s < 8   -> 56 + Swapped(s)
       [] s >= 56 -> Swapped(s - 56)
       [] OTHER   -> s

SideNodes == (0 .. 7) \cup (56 .. 63)
SideNode(place) == IF place < 8 THEN place ELSE place + 48
Place(s)        == IF s < 8 THEN s ELSE s - 48

\* One node after the other gets the next place drawn that is not taken; nodes not on the
\* rows have none.
Table(draws) ==
  LET places == FoldLeft(LAMBDA taken, r : IF Contains(taken, r) THEN taken ELSE Append(taken, r), <<>>, draws)
  IN [s \in SideNodes |-> SideNode(places[Place(s) + 1])]
Perms == {Table(draws) : draws \in Draws}

Custom == IF InjectionNodes = {} THEN Nodes ELSE InjectionNodes

-----------------------------------------------------------------------------
(* Random patterns: the nodes that may be drawn                            *)

Background == Nodes \ Excluded

Diagonal(s) == {(s + 1) % size, s}

Asymmetric(s) == LET half == size \div 2 IN {s % half, (s % half) + half}

Taper64(s) == {(64 + s + 8 * row + col) % 64 : row \in -1 .. 1, col \in -1 .. 1} \cup Nodes

\* Any node of the next group.
BadPermDFly(s) ==
  LET group == 2 * K * K IN {(x + (s \div group + 1) * group) % size : x \in 0 .. group - 1}

\* A column of as many nodes as the row of the source.
BadPermYarc(s) == {x * Width + (s \div Width) : x \in 0 .. Width - 1}

\* The hot spot that a number below the sum of the rates falls to: what is left of it
\* after the rates of those before.
RateSum(upTo) == FoldLeft(LAMBDA sum, i : sum + spots.rates[i], 0, [i \in 1 .. upTo |-> i])
\* slip: one number too many is drawn.
MaxValAndOne == RateSum(Len(spots.nodes))
MaxVal == RateSum(Len(spots.nodes)) - 1

\* The assertion after the loop.
LastLeft(pct) ==
  LET last == Len(spots.nodes)
  IN pct >= RateSum(last - 1) => spots.rates[last] > pct - RateSum(last - 1)

HotSpot ==
  LET last == Len(spots.nodes)
  IN IF last = 1 THEN {spots.nodes[1]}
     ELSE {spots.nodes[CHOOSE i \in 1 .. last :
                         /\ RateSum(i) > pct \/ i = last
                         /\ \A j \in 1 .. i - 1 : RateSum(j) <= pct] : pct \in 0 .. MaxVal}

Dest(s) ==
  CASE pattern = "bitcomp"   -> {BitComp(s)}
    [] pattern = "transpose" -> {Transpose(s)}
    [] pattern = "bitrev"    -> {BitRev(s)}
    [] pattern = "shuffle"   -> {Shuffle(s)}
    [] pattern = "tornado"   -> {Tornado(s)}
    [] pattern = "neighbor"  -> {Neighbor(s)}
    [] pattern = "stress"    -> {Stress(s)}
    [] pattern = "randperm"  -> {perm[s]}
    [] pattern = "custom"    -> Custom
    [] pattern = "uniform"   -> Nodes
    [] pattern = "background" -> Background
    [] pattern = "diagonal"  -> Diagonal(s)
    [] pattern = "asymmetric" -> Asymmetric(s)
    [] pattern = "taper64"   -> Taper64(s)
    [] pattern = "bad_dragon" -> BadPermDFly(s)
    [] pattern = "badperm_yarc" -> BadPermYarc(s)
    [] pattern = "hotspot"   -> HotSpot

-----------------------------------------------------------------------------
\* Nodes that may send by a pattern: those that are not on the rows have no destination in a
\* table drawn for the rows, and must not be among those that inject.
Sources == IF pattern = "randperm" THEN SideNodes ELSE Nodes

Init ==
  /\ pattern \in Patterns /\ size \in {n \in Sizes : Accepts(pattern, n)}
  /\ perm \in IF pattern = "randperm" THEN Perms ELSE {<<>>}
  /\ spots \in IF pattern # "hotspot" THEN {<<>>}
               ELSE {[nodes |-> f, rates |-> r] : f \in Hotspots, r \in Rates}
  /\ pattern = "hotspot" => Len(spots.nodes) = Len(spots.rates) /\ RateSum(Len(spots.rates)) > 0
  /\ at \in Sources /\ visited = {}
  /\ origin = IF pattern \in PermPatterns THEN at ELSE -1

Send ==
  /\ at' \in Dest(at)
  /\ visited' = IF pattern \notin PermPatterns THEN {} ELSE {at} \cup IF at = origin THEN {} ELSE visited
  /\ UNCHANGED <<pattern, size, perm, spots, origin>>

Spec == Init /\ [][Send]_vars

-----------------------------------------------------------------------------
\* Packets are bound for nodes of the network, and by a pattern for the sides for nodes that
\* inject too (dest asserts that it knows the source).  By a permutation no two nodes send to
\* the same one, so that a node gets a packet a second time only when the first sender does;
\* complement, transposition, reversal and stress are between pairs of nodes.  The number
\* drawn for a hot spot falls to one (dest asserts it).
DestinationsRight ==
  /\ at \in Sources
  /\ at \in visited => at = origin
  /\ pattern \in {"bitcomp", "transpose", "bitrev", "stress"} => Cardinality(visited) <= 2
  /\ pattern = "hotspot" => \A pct \in 0 .. MaxVal : LastLeft(pct)

=============================================================================
