------------------------------- MODULE AnyNet -------------------------------
(***************************************************************************)
(* BookSim's "anynet": a network read from a file that lists the           *)
(* connections of its routers and nodes, in which packets go by tables     *)
(* that the network works out once, from each router by shortest paths.    *)
(*                                                                         *)
(* A line of the file names a router or a node, its head, and then the     *)
(* routers and nodes that it is connected to, with or without a latency.   *)
(***************************************************************************)
EXTENDS Integers, FiniteSets, Functions

CONSTANTS
  MaxRouters,  \* routers that a file may name: 0 .. MaxRouters - 1
  MaxNodes,    \* nodes that it may name
  Weights,     \* latencies that it may give behind a router or node in a router's line,
  NodeWeights, \* and those in a node's line
  Heads        \* what lines begin with: a subset of {"router", "node"}

AnyNetAssumption ==
  /\ MaxRouters \in Nat \ {0} /\ MaxNodes \in Nat \ {0}
  /\ Weights \subseteq Nat \ {0} /\ NodeWeights \subseteq Nat \ {0}
  /\ Heads \subseteq {"router", "node"}

NodeIds == 0 .. MaxNodes - 1
Ids(type) == IF type = "router" THEN 0 .. MaxRouters - 1 ELSE NodeIds

None == -1
Unspecified == 1    \* the latency of a connection that has none in the file
Infinity == 1000    \* numeric_limits<int>::max()

VARIABLES
  step,      \* "reading", "routing", "done"
  head,      \* the head of the line being read
  nodeList,  \* node -> its router
  named,     \* history: the routers that the file names
  routers,   \* the routers known (the keys of both parts of router_list)
  attached,  \* router_list[NODE]: <<router, node>> -> latency
  links,     \* router_list[ROUTER]: <<router, router>> -> latency
  start,     \* r_start
  dist, prev, rlist,
  table      \* <<router, node>> -> the router to go to, or None for the node itself

fileVars  == <<head, nodeList, named, routers, attached, links>>
routeVars == <<start, dist, prev, rlist, table>>
vars == <<step, fileVars, routeVars>>

Empty == <<>>
With(f, x, y) == [z \in DOMAIN f \cup {x} |-> IF z = x THEN y ELSE f[z]]

Init ==
  /\ step = "reading" /\ head = <<"none", None>>
  /\ nodeList = Empty /\ named = {} /\ routers = {} /\ attached = Empty /\ links = Empty
  /\ start = None /\ dist = Empty /\ prev = Empty /\ rlist = {} /\ table = Empty

-----------------------------------------------------------------------------
(* readFile: a line after the other, entry by entry.                       *)

\* Router structures are made for the number of the head, whatever the head is.
ReadHead ==
  /\ step = "reading"
  /\ \E type \in Heads : \E id \in Ids(type) :
       /\ head' = <<type, id>>
       /\ routers' = routers \cup {id}
       /\ named' = IF type = "router" THEN named \cup {id} ELSE named
  /\ UNCHANGED <<step, nodeList, attached, links, routeVars>>

\* A node has one router: anything else fails an assertion.
MayAttach(node, router) == node \in DOMAIN nodeList => nodeList[node] = router

\* A connection of two routers is there both ways, the latency only this way.
ReadRouter ==
  /\ step = "reading" /\ head[1] = "router"
  /\ \E id \in Ids("router") \ {head[2]}, w \in Weights \cup {Unspecified} :
       LET back == <<id, head[2]>>
       IN /\ routers' = routers \cup {id} /\ named' = named \cup {id}
          /\ links' = With(IF back \in DOMAIN links THEN links ELSE With(links, back, Unspecified),
                           <<head[2], id>>, w)
  /\ UNCHANGED <<step, head, nodeList, attached, routeVars>>

ReadNode ==
  /\ step = "reading" /\ head[1] = "router"
  /\ \E id \in NodeIds, w \in Weights \cup {Unspecified} :
       /\ MayAttach(id, head[2])
       /\ nodeList' = With(nodeList, id, head[2])
       /\ attached' = With(attached, <<head[2], id>>, w)
  /\ UNCHANGED <<step, head, named, routers, links, routeVars>>

\* A node's latency is entered as if the node were the router and the router the node.
ReadRouterOfNode ==
  /\ step = "reading" /\ head[1] = "node"
  /\ \E id \in Ids("router"), w \in NodeWeights \cup {None} :
       LET own == With(attached, <<id, head[2]>>, Unspecified)
       IN /\ MayAttach(head[2], id)
          /\ routers' = routers \cup {id} /\ named' = named \cup {id}
          /\ nodeList' = With(nodeList, head[2], id)
          /\ attached' = IF w = None THEN own ELSE With(own, <<head[2], id>>, w)
  /\ UNCHANGED <<step, head, links, routeVars>>

-----------------------------------------------------------------------------
(* buildRoutingTable                                                       *)

\* route, to begin with.
Begin(r) ==
  /\ start' = r
  /\ dist' = [i \in routers |-> IF i = r THEN 0 ELSE Infinity]
  /\ prev' = [i \in routers |-> None]
  /\ rlist' = routers

\* The numbers of the nodes begin with 0 and leave none out, by an assertion, and those
\* of the routers, for they are the places of a vector.
Sequential(ids) == ids = 0 .. Cardinality(ids) - 1

\* The file that a user gives joins all the routers that it names by connections, and a
\* node that begins a line has the number of one of them, for it gets a router structure.
Joined ==
  /\ routers = named
  /\ \A part \in SUBSET named :
       part # {} /\ part # named => {l \in DOMAIN links : (l[1] \in part) # (l[2] \in part)} # {}

EndOfFile ==
  /\ step = "reading"
  /\ Sequential(named) /\ Sequential(routers) /\ Sequential(DOMAIN nodeList)
  /\ named # {} /\ Joined
  /\ step' = "routing"
  /\ Begin(0)
  /\ UNCHANGED <<fileVars, table>>

\* The first of the routers that are nearest, of those that can be reached.
Nearest ==
  LET near == {r \in rlist : dist[r] < Infinity /\ \A other \in rlist : dist[r] <= dist[other]}
  IN {r \in near : \A other \in near : r <= other}

\* slip: channels are counted, not their latencies.
SettleByHops ==
  /\ step = "routing" /\ rlist # {}
  /\ \E cand \in Nearest :
       LET nearer == {i \in routers : <<cand, i>> \in DOMAIN links /\ dist[cand] + 1 < dist[i]}
       IN /\ rlist' = rlist \ {cand}
          /\ dist' = [i \in routers |-> IF i \in nearer THEN dist[cand] + 1 ELSE dist[i]]
          /\ prev' = [i \in routers |-> IF i \in nearer THEN cand ELSE prev[i]]
  /\ UNCHANGED <<step, fileVars, start, table>>
\* One round of the loop.  When no router that is left can be reached, it is -1 that is
\* erased, and the program goes round for ever: here no step is left then.
Settle ==
  /\ step = "routing" /\ rlist # {}
  /\ \E cand \in Nearest :
       LET nearer == {i \in routers : <<cand, i>> \in DOMAIN links
                                      /\ dist[cand] + links[<<cand, i>>] < dist[i]}
       IN /\ rlist' = rlist \ {cand}
          /\ dist' = [i \in routers |-> IF i \in nearer THEN dist[cand] + links[<<cand, i>>] ELSE dist[i]]
          /\ prev' = [i \in routers |-> IF i \in nearer THEN cand ELSE prev[i]]
  /\ UNCHANGED <<step, fileVars, start, table>>

\* The first router on the way to another.
FirstOnWay(i) ==
  LET back[n \in routers] == IF prev[n] = start THEN n ELSE back[prev[n]]
  IN back[i]

Entries ==
  [e \in {<<start, a[2]>> : a \in DOMAIN attached} |->
     LET i == CHOOSE i \in routers : <<i, e[2]>> \in DOMAIN attached
     IN IF i = start THEN None ELSE FirstOnWay(i)]

Tabulate ==
  /\ step = "routing" /\ rlist = {}
  /\ table' = [e \in DOMAIN table \cup DOMAIN Entries |->
                 IF e \in DOMAIN Entries THEN Entries[e] ELSE table[e]]
  /\ IF start + 1 \in routers THEN Begin(start + 1) /\ UNCHANGED step
     ELSE step' = "done" /\ UNCHANGED <<start, dist, prev, rlist>>
  /\ UNCHANGED fileVars

Done == step = "done" /\ UNCHANGED vars

Read == ReadHead \/ ReadRouter \/ ReadNode \/ ReadRouterOfNode
Next == Read \/ EndOfFile \/ Settle \/ Tabulate \/ Done

\* The program goes on with a loop that it has begun.
Spec == Init /\ [][Next]_vars /\ WF_vars(Settle \/ Tabulate)

=============================================================================
