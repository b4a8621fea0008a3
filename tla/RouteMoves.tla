----------------------------- MODULE RouteMoves -----------------------------
(***************************************************************************)
(* The hops of a packet's head through a network, and the waiting of       *)
(* packets for each other that comes of them.                              *)
(*                                                                         *)
(* A topology says how its channels are connected and what its routing     *)
(* functions offer; a router (IQRouter) gives a head any VC of any range   *)
(* in its output set.  A packet is a record with at least the fields       *)
(*   net         the network it is in                                      *)
(*   src, dest   its source and destination node                           *)
(*   at, in, vc  the router, input port and VC its head is in; at is       *)
(*               Ejected after ejection, and in is the node                *)
(*   ph, intm    what routing functions keep in the flit                   *)
(***************************************************************************)
EXTENDS Integers, FiniteSets, SequencesExt, TLC

CONSTANTS
  OutputSet(_),        \* the output set of a packet: records [out, lo, hi, pri, ph, intm]
  NextInput(_, _, _),  \* the router and input port behind an output port of a router
  NodeBehind(_, _, _), \* the node behind it, or Nowhere
  MaxHops(_)         \* every packet of a network is ejected after so many hops

Nowhere == -1
Ejected == -1

Beyond(net, router, port) ==
  IF NodeBehind(net, router, port) = Nowhere THEN NextInput(net, router, port)
  ELSE <<Ejected, NodeBehind(net, router, port)>>

Entered(p, place, o, vc) ==
  [p EXCEPT !.at = place[1], !.in = place[2], !.vc = vc, !.ph = o.ph, !.intm = o.intm]

Moved(p, o, vc) == Entered(p, Beyond(p.net, p.at, o.out), o, vc)

MovesBy(p, outputs) == UNION {{Moved(p, o, vc) : vc \in o.lo .. o.hi} : o \in outputs}

-----------------------------------------------------------------------------
(* Who waits for whom.  A packet that is blocked holds the input VC its    *)
(* head is in and waits for one at the next router; the packet in there    *)
(* holds, or waits for, whatever it may take next.  If no chain of such    *)
(* steps leads back to a VC that is waited for, some packet can always     *)
(* move: the network cannot deadlock.  A packet that finds the outputs of  *)
(* higher priority taken can still wait for those of the lowest, the       *)
(* escape channels, so a chain begins with one of these.                   *)

Held(p) == <<p.at, p.in, p.vc>>

Escapes(outputs) == {o \in outputs : \A other \in outputs : o.pri <= other.pri}

Staying(packets) == {q \in packets : q.at # Ejected}
HeldBy(packets)  == {Held(q) : q \in Staying(packets)}

\* Packets that share a network are routed by the same function.
Network(p) == <<p.net, p.alg, p.faults>>

\* What a packet may do next, given its output set.
Chance(p, outputs) ==
  [held |-> Held(p), moves |-> MovesBy(p, outputs), escapes |-> HeldBy(MovesBy(p, Escapes(outputs)))]

\* All packets that come to be in the network with those injected, generation by
\* generation: packets seen, the last ones of them, the input VCs that packets wait for, and
\* with each input VC held the ones a packet in it may take next.  Behind its first
\* router nobody asks where a packet is from.
Grown(s, chances) ==
  LET onward == {[q EXCEPT !.src = Nowhere] : q \in Staying(UNION {c.moves : c \in chances})}
  IN [seen   |-> s.seen \cup onward,
      last   |-> onward \ s.seen,
      wanted |-> s.wanted \cup UNION {c.escapes : c \in chances},
      steps  |-> s.steps \cup {<<c.held, HeldBy(c.moves)>> : c \in chances}]
Generations(net, injected) ==
  FoldLeft(LAMBDA s, k : Grown(s, {Chance(p, OutputSet(p)) : p \in s.last}),
           [seen |-> injected, last |-> injected, wanted |-> {}, steps |-> {}],
           [k \in 1 .. MaxHops(net) |-> k])

\* Whom the packet in an input VC can wait for.
WaitsOf(g) ==
  [wanted |-> g.wanted,
   next   |-> [held \in {s[1] : s \in g.steps} |-> UNION {s[2] : s \in {s \in g.steps : s[1] = held}}] @@ <<>>]
Waits(net, injected) == WaitsOf(Generations(net, injected))

=============================================================================
