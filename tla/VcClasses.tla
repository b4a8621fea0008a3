----------------------------- MODULE VcClasses ------------------------------
(***************************************************************************)
(* What BookSim's routing functions share: the classes of VCs that the     *)
(* types of packets use, and the cutting of a class into parts, by which   *)
(* most of them keep a network from deadlock.                              *)
(***************************************************************************)
EXTENDS Integers, FiniteSets

CONSTANTS
  Vcs,    \* gNumVCs
  Types,  \* flit types: "any", "request", "reply"
  Ends    \* nodes that send and receive

VcClassesAssumption ==
  /\ Vcs \in Nat \ {0}
  /\ Types \subseteq {"any", "request", "reply"}
  /\ Ends \subseteq Nat

\* The VCs of the packet's class (InitializeRoutingMap, default partition).
Lo(p) == IF p.type = "reply" THEN Vcs \div 2 ELSE 0
Hi(p) == IF p.type = "request" THEN Vcs \div 2 - 1 ELSE Vcs - 1
ClassVcs(p) == Hi(p) - Lo(p) + 1
InClass(p) == p.vc \in Lo(p) .. Hi(p)

\* An output with the range of the packet's class (AddRange), and a range cut in a lower
\* and an upper half, or in equal parts.

\* slip: not in the packet's class.
WholeOfAll(p, out) == [out |-> out, lo |-> 0, hi |-> Vcs - 1, pri |-> 0, ph |-> p.ph, intm |-> p.intm]
Whole(p, out)      == [out |-> out, lo |-> Lo(p), hi |-> Hi(p), pri |-> 0, ph |-> p.ph, intm |-> p.intm]

LowerHalf(o)      == [o EXCEPT !.hi = @ - (o.hi - o.lo + 1) \div 2]

UpperHalf(o)       == [o EXCEPT !.lo = @ + (o.hi - o.lo + 1) \div 2]

Part(o, n, parts) ==
  LET per == (o.hi - o.lo + 1) \div parts
  IN [o EXCEPT !.lo = o.lo + n * per, !.hi = o.lo + n * per + per - 1]

\* The packets as the injection channels deliver them to the routers of their sources,
\* on any VC that the routing function offers for that.
Packets(net, algs, faultSets, Attach(_), InjectVcs(_)) ==
  LET heads == [net : {net}, alg : algs, type : Types, src : Ends, dest : Ends, faults : faultSets, vc : 0 .. Vcs - 1]
  IN {[net |-> h.net, alg |-> h.alg, type |-> h.type, src |-> h.src, dest |-> h.dest, faults |-> h.faults,
       at |-> Attach(h.src)[1], in |-> Attach(h.src)[2], vc |-> h.vc, ph |-> -1, intm |-> -1] :
        h \in {h \in heads : h.vc \in InjectVcs(h)}}

=============================================================================
