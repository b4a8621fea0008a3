---------------------------- MODULE AnyNetTables ----------------------------
(***************************************************************************)
(* What the routing tables of an "anynet" are for.                         *)
(***************************************************************************)
EXTENDS AnyNet, SequencesExt

\* Ways through the network: sequences of routers, each with a channel to the next.
Ways ==
  {w \in UNION {[1 .. n -> routers] : n \in 1 .. Cardinality(routers)} :
     \A i \in 1 .. Len(w) - 1 : <<w[i], w[i + 1]>> \in DOMAIN links}
Latency(w) == FoldLeft(LAMBDA sum, i : sum + links[<<w[i], w[i + 1]>>], 0, [i \in 1 .. Len(w) - 1 |-> i])
Shortest(from, to) ==
  LET all == {Latency(w) : w \in {w \in Ways : w[1] = from /\ w[Len(w)] = to}}
  IN CHOOSE least \in all : \A other \in all : least <= other

\* Where a packet goes from a router by the tables, until it is at its node's router.
TableWay(from, node) ==
  LET onward(w, i) == LET next == table[<<w[Len(w)], node>>] IN IF next = None THEN w ELSE Append(w, next)
  IN FoldLeft(onward, <<from>>, [i \in 1 .. Cardinality(routers) |-> i])

-----------------------------------------------------------------------------
\* While a table is worked out, a router that has been settled is never reached on a
\* shorter way after, whatever the latencies are, each way by itself; and the tables of
\* different routers together lead every packet to its node, on a way that is minimal
\* (examples/anynet/README).
TablesMinimal ==
  /\ step = "routing" => \A i \in routers \ rlist : dist[i] = Shortest(start, i)
  /\ step = "done" =>
       \A r \in routers, node \in DOMAIN nodeList :
         LET w == TableWay(r, node)
         IN w[Len(w)] = nodeList[node] /\ Latency(w) = Shortest(r, nodeList[node])

=============================================================================
