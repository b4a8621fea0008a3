----------------------------- MODULE DragonFly ------------------------------
(***************************************************************************)
(* BookSim's dragonfly: groups of 2P routers, each with P nodes; in a      *)
(* group all routers have channels to each other, and every group has one  *)
(* to each other group.                                                    *)
(***************************************************************************)
EXTENDS VcClasses

CONSTANTS
  P,        \* "k": nodes of a router, and its channels to other groups
  Algs      \* routing functions

A == 2 * P       \* routers in a group
G == A * P + 1   \* groups

DragonFlyAssumption ==
  /\ VcClassesAssumption
  /\ P \in Nat \ {0}
  /\ Ends \subseteq 0 .. P * A * G - 1
  /\ Algs \subseteq {"min", "ugal"}
  /\ Vcs \in {2, 3}
  /\ "ugal" \in Algs => Vcs = 3

Routers == 0 .. A * G - 1
Group(router) == router \div A
RouterOf(node) == node \div P

\* Output ports: nodes, the other routers of the group, other groups.
FirstLocal  == P
FirstGlobal == P + A - 1
Wires       == A - 1 + P

-----------------------------------------------------------------------------
(* DragonFlyNew::_BuildNet                                                 *)

OutChannel(router, port) == Wires * router + port - P

\* The channel on an input port, from another router of the group or from another group.
InChannel(router, port) ==
  LET grp == Group(router)
      id  == router % A
      cnt == IF port < FirstGlobal THEN port - FirstLocal ELSE port - FirstGlobal
      far == id * P + cnt
  IN IF port < FirstGlobal
     THEN IF cnt < id THEN Wires * (grp * A + cnt) + id - 1 ELSE Wires * (grp * A + cnt + 1) + id
     ELSE IF grp > far THEN far * Wires * A + (Wires - P) * ((grp - 1) \div P) + Wires - P + grp - 1
          ELSE (far + 1) * Wires * A + (Wires - P) * (grp \div P) + Wires - P + grp

Out[router \in Routers, port \in P .. P + Wires - 1] == OutChannel(router, port)
Behind[channel \in 0 .. Wires * A * G - 1] ==
  CHOOSE end \in Routers \X (P .. P + Wires - 1) : InChannel(end[1], end[2]) = channel
Link(router, port) == Behind[Out[router, port]]

Channels == Routers \X (P .. P + Wires - 1)

EjectsTo(router, port) == IF port < P THEN P * router + port ELSE -1
Attach(node) == <<RouterOf(node), node % P>>

-----------------------------------------------------------------------------
(* Routing functions                                                       *)

\* The number, in its group, of the channel to another group, and the router it is at.
GlobalTo(grp, other) == IF grp > other THEN other ELSE other - 1
Gateway(grp, other)  == grp * A + GlobalTo(grp, other) \div P

\* dragonfly_port, to another router.
LocalPort(from, to) == FirstLocal + (to % A) - (IF from < to THEN 1 ELSE 0)
PortTo(from, to) ==
  LET via == IF Group(from) = Group(to) THEN to ELSE Gateway(Group(from), Group(to))
  IN IF via # from THEN LocalPort(from, via) ELSE FirstGlobal + (GlobalTo(Group(from), Group(to)) % P)

\* dragonflynew_hopcnt, between routers.
HopCnt(from, to) ==
  IF Group(from) = Group(to) THEN IF from = to THEN 0 ELSE 1
  ELSE 1 + (IF Gateway(Group(from), Group(to)) = from THEN 0 ELSE 1)
         + (IF Gateway(Group(to), Group(from)) = to THEN 0 ELSE 1)

Injected(p) == p.in < P

\* An output on the VC of the packet's phase.
OnVcOfPhase(p, out) == [out |-> out, lo |-> p.ph, hi |-> p.ph, pri |-> 0, ph |-> p.ph, intm |-> p.intm]

Toward(p, to) == IF p.at = to THEN p.dest % P ELSE PortTo(p.at, to)

\* A packet changes to VC 1 with the group.  It does not start there if it stays in its
\* group, for the destination's group is not yet known where that is asked.
MinDragonFly(p) ==
  LET out == Toward(p, RouterOf(p.dest))
      q   == [p EXCEPT !.ph = IF out >= FirstGlobal THEN 1 ELSE IF Injected(p) THEN 0 ELSE @]
  IN {OnVcOfPhase(q, out)}

\* Phase 0 is the way to an intermediate router, 1 that to the destination's group, and 2
\* that in it.  The credits can only be for the intermediate router when it is by another
\* port.
Chosen(p) ==
  LET dest == RouterOf(p.dest)
  IN IF Group(dest) = Group(p.at) THEN {[p EXCEPT !.ph = 2]}
     ELSE {[p EXCEPT !.ph = 1, !.intm = r] : r \in Routers} \cup
          {[p EXCEPT !.ph = 0, !.intm = r] :
             r \in {r \in Routers : Group(r) # Group(p.at) /\ PortTo(p.at, r) # PortTo(p.at, dest)}}

Passed(p) == IF p.ph = 0 /\ p.at = p.intm THEN [p EXCEPT !.ph = 1] ELSE p

Crossed(p, out) == IF p.ph = 1 /\ out >= FirstGlobal THEN [p EXCEPT !.ph = 2] ELSE p

Ugal(p) ==
  LET goal(q) == IF q.ph = 0 THEN q.intm ELSE RouterOf(q.dest)
      output(q) == LET out == Toward(q, goal(q)) IN OnVcOfPhase(Crossed(q, out), out)
  IN {output(Passed(q)) : q \in IF Injected(p) THEN Chosen(p) ELSE {p}}

Route(p) == IF p.alg = "min" THEN MinDragonFly(p) ELSE Ugal(p)

\* A packet goes from group to group on a VC of its own for each time, and never back to a
\* VC it has used up.
Nearer(p, q) ==
  /\ p.in >= P => q.vc >= p.vc
  /\ p.in >= FirstGlobal /\ q.in >= FirstGlobal => q.vc > p.vc

\* dragonflynew_hopcnt counts the channels that a packet on the direct way does pass.
WholeWay(p, channels) == p.alg = "min" => channels = HopCnt(RouterOf(p.src), RouterOf(p.dest)) + 1

Starts(net) == Packets(net, Algs, {{}}, Attach, LAMBDA h : 0 .. Vcs - 1)

=============================================================================
