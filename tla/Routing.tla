------------------------------- MODULE Routing ------------------------------
(***************************************************************************)
(* Packets on their way through BookSim's networks, for every choice that  *)
(* routing function and router may make: the whole way of one packet, and  *)
(* the chains in which blocked packets wait for each other.                *)
(***************************************************************************)
EXTENDS RouteMoves

CONSTANTS
  Walked,      \* the networks in which packets are followed
  Entering(_),   \* packets at their source routers in such a network
  Blocked,     \* the networks whose waiting is looked at
  Waiting(_)   \* the waiting in such a network (Waits)

VARIABLES
  pkt,      \* the packet followed
  hops,     \* history: how many channels it has passed, counted as far as MaxHops + 1
  network,  \* or the network looked at,
  first,    \* the input VC where a chain begins
  last      \* and the one where it has come to

walkVars  == <<pkt, hops>>
chainVars == <<network, first, last>>
vars == <<walkVars, chainVars>>

None == <<>>

Walking == pkt # None

InitWalk ==
  /\ pkt \in UNION {Entering(net) : net \in Walked} /\ hops = 0
  /\ network = None /\ first = None /\ last = None

InitChain ==
  /\ pkt = None /\ hops = 0
  /\ network \in Blocked /\ first = None /\ last = None

Init == InitWalk \/ InitChain

Hop ==
  /\ Walking /\ pkt.at # Ejected
  /\ \E o \in OutputSet(pkt) : \E vc \in o.lo .. o.hi : pkt' = Moved(pkt, o, vc)
  /\ hops' = IF hops > MaxHops(pkt.net) THEN hops ELSE hops + 1
  /\ UNCHANGED chainVars

\* A packet waits for the packet in an input VC, which waits for the packet in another.
Begin(waiting) ==
  /\ first = None
  /\ first' \in waiting.wanted
  /\ last' \in waiting.next[first']
  /\ UNCHANGED <<walkVars, network>>

Extend(waiting) ==
  /\ first # None
  /\ last' \in waiting.next[last]
  /\ UNCHANGED <<walkVars, network, first>>

Next ==
  \/ Hop
  \/ ~Walking /\ \E waiting \in {Waiting(network)} : Begin(waiting) \/ Extend(waiting)

\* A head that has an output VC free for it takes it in the end.
Spec == Init /\ [][Next]_vars /\ WF_vars(Hop)

=============================================================================
