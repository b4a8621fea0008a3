----------------------------- MODULE MCTraffic ------------------------------
(***************************************************************************)
(* The traffic manager of two terminals, with a configuration for every    *)
(* kind of simulation and for every choice that the injection ports make;  *)
(* and the traffic patterns, which are for more terminals than two.        *)
(***************************************************************************)
EXTENDS Integers

CONSTANTS VcBufSize, Batches, BatchSize, MaxOutstanding, MaxLive,
          Patterns, Sizes, K, N, XR, InjectionNodes, Excluded

VARIABLES
  part,                                                                  \* which of them it is
  config, stage, simState, count, packet, node, inFlight, port, net,     \* as in TrafficManager
  pattern, size, perm, spots, origin, at, visited                        \* as in Traffic

managerVars == <<config, stage, simState, count, packet, node, inFlight, port, net>>
patternVars == <<pattern, size, perm, spots, origin, at, visited>>
vars == <<part, managerVars, patternVars>>

Nodes == {0, 1}
Types == {"any", "read_request", "write_request", "read_reply", "write_reply"}
All(s)  == [t \in Types |-> s]
Other   == [n \in Nodes |-> Nodes \ {n}]

Plain ==
  [kind |-> "latency", sims |-> 1, samples |-> 2, classes |-> 1, vcs |-> 1, subnets |-> 1, rw |-> FALSE,
   pri |-> <<0>>, size |-> All({1}), sub |-> All({0}), sources |-> {0}, dests |-> Other,
   hold |-> FALSE, tailCredit |-> FALSE, queuing |-> TRUE, lag |-> 1]

TwoSizes == [Plain EXCEPT !.sources = Nodes, !.size = All({1, 2})]
\* Two simulations, the first until its third converging period.
Converging == [Plain EXCEPT !.sims = 2, !.samples = 5, !.dests = [n \in Nodes |-> Nodes]]
TwoSubnets ==
  [Plain EXCEPT !.subnets = 2, !.sub = All({0, 1}), !.size = All({2}), !.tailCredit = TRUE, !.queuing = FALSE, !.lag = 0]
Classes2 == [Plain EXCEPT !.lag = 0, !.samples = 1, !.classes = 2, !.pri = <<0, 0>>, !.vcs = 2, !.size = All({2}), !.tailCredit = TRUE]
Priorities == [Classes2 EXCEPT !.hold = TRUE, !.pri = <<0, 1>>, !.tailCredit = FALSE, !.kind = "throughput"]
ReadsWrites ==
  [Plain EXCEPT !.rw = TRUE, !.lag = 0, !.samples = 1, !.vcs = 2,
                !.size = [All({1}) EXCEPT !["write_request"] = {2}, !["read_reply"] = {2}]]
OnSubnets == [ReadsWrites EXCEPT !.subnets = 2, !.kind = "throughput",
                                 !.sub = [t \in Types |-> IF t \in {"read_reply", "write_reply"} THEN {1} ELSE {0}]]
Batch        == [Plain EXCEPT !.kind = "batch", !.sources = Nodes]
ReadWriteBatch == [ReadsWrites EXCEPT !.kind = "batch", !.sources = Nodes, !.size = All({1})]

MCConfigs ==
  {Plain, TwoSizes, Converging, TwoSubnets, Classes2, Priorities, ReadsWrites, OnSubnets, Batch, ReadWriteBatch}

Manager == INSTANCE TrafficManager WITH Configs <- MCConfigs

\* Places of 16 in an irregular order, each drawn twice before the next.
Order(shift, step) == [j \in 1 .. 32 |-> LET k == (j - 1) \div 2 IN (shift + step * ((k * (k + 1)) \div 2)) % 16]

Pattern == INSTANCE Traffic WITH
  Draws    <- {Order(shift, step) : shift \in {0, 3, 6}, step \in {1, 3, 5}},
  Hotspots <- {<<5>>, <<0, 3>>, <<2, 7, 4>>},
  Rates    <- {<<1>>, <<0, 2>>, <<3, 1>>, <<2, 0, 1>>, <<1, 1, 0>>}

ASSUME Manager!TrafficManagerAssumption /\ Pattern!TrafficAssumption

NoPattern ==
  /\ pattern = <<>> /\ size = <<>> /\ perm = <<>> /\ spots = <<>>
  /\ origin = <<>> /\ at = <<>> /\ visited = <<>>
NoManager ==
  /\ config = <<>> /\ stage = <<>> /\ simState = <<>> /\ count = <<>> /\ packet = <<>>
  /\ node = <<>> /\ inFlight = <<>> /\ port = <<>> /\ net = <<>>

Init ==
  \/ part = "manager" /\ Manager!Init /\ NoPattern
  \/ part = "pattern" /\ Pattern!Init /\ NoManager

Next ==
  /\ \/ part = "manager" /\ Manager!Next /\ UNCHANGED patternVars
     \/ part = "pattern" /\ Pattern!Send /\ UNCHANGED managerVars
  /\ UNCHANGED part

Spec == Init /\ [][Next]_vars

-----------------------------------------------------------------------------
\* The books are right, at any time of any simulation: what is in flight and what is
\* measured of it, the heads retired before their tails, the requests outstanding.
BooksRight == part = "manager" => Manager!BooksRight

\* Packets keep together on their VCs and within the buffers' credits.
PacketsWhole == part = "manager" => Manager!PacketsWhole

\* No injection port is wedged.
NothingWedged == part = "manager" => Manager!NothingWedged

\* A simulation leaves nothing behind.
CleanStart ==
  [][part = "manager" /\ stage = "emptying" /\ stage' # "emptying" => Manager!Clean']_vars

\* Every pattern keeps to the network, and a permutation is one.
DestinationsRight == part = "pattern" => Pattern!DestinationsRight

=============================================================================
