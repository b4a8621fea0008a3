# Formal model of hnocsim

`hnocsim` simulates embedded networks-on-chip for FPGAs. It consists of BookSim, a
cycle-accurate network simulator in C++ with a new traffic manager (`sim_type = fes2`), and
SystemVerilog designs that run in an RTL simulator; the two are joined by a socket, and the
*fabric port* (a set of RTL modules) connects a design to a network node. This directory
holds TLA+ models of the parts in which state is kept on two sides, model-checked with TLC,
and proofs about the core of them checked with TLAPS.

1. [Inventory](#1-inventory)
2. [Modules and their correspondence to the code](#2-modules-and-their-correspondence-to-the-code)
3. [Runs](#3-runs)
4. [Fairness](#4-fairness)
5. [Proofs](#5-proofs)
6. [Two disagreements with the code](#6-two-disagreements-with-the-code)
7. [What is not modelled, and the plan](#7-what-is-not-modelled-and-the-plan)

## 1. Inventory

Paths are under `src/`. "Correct when" is what the properties of a module have to say.

**Credit-controlled link** (`booksim/buffer_state.*`, `buffer.*`, `vc.*`, `channel.hpp`,
`credit.*`). The sender of a link keeps a `BufferState`: who uses each virtual channel (VC),
whether the tail was sent, how many flits are not credited yet, and the slots of a buffer
policy. The receiver keeps a `Buffer` of VCs; flits and credits travel on two channels of
any latency. Operations: `TakeBuffer`, `SendingFlit`, `ProcessCredit`, `AddFlit`,
`RemoveFlit`; policies private, shared, limited, dynamic, shifting, and two with feedback.
Hard: the two sides only agree modulo what is in the channels; a VC changes hands while
flits and credits of its last user are still under way. Correct when credits are conserved,
no buffer overflows although each policy checks one VC, packets on a VC are never mixed, and
every VC is freed in the end.

**Input-queued router** (`booksim/routers/iq_router.cpp`). Per input VC a state (idle,
routing, vc_alloc, active), four deques of input VCs that wait for a stage of the pipeline,
tables of held switch connections, the `BufferState` of every output, flits in the crossbar,
and a flag that lets an idle router sleep. One cycle runs all Evaluate halves, then all
Update halves. Hard: decisions are taken in Evaluate and used in Update after other stages
have changed what they were based on; an input VC is handed from deque to deque in some
fifteen places; speculation, piggybacked allocation and connection holding overlap. Correct
when no VC is lost or listed twice, no grant is stale when used, and packets leave whole.

**Co-simulation, BookSim side** (`booksim/fes2_interface.*`, `fes2_trafficmanager.*`).
Request and reply buffers, one-place credit mailboxes in both directions, partial packets,
VC occupancies of this step and the last. `_Step` reads the network, serves requests until a
STEP_REQ, answers it, and only then works. **RTL side** (`booksim/rtl_interface.sv`,
`booksim_interface.cpp`): packet and flit counters, `dest_table`, `data_set` with the data of
flits in the network, and a clock edge of inject, send credits, receive credits, eject, step.
Hard: the RTL is one step ahead; credits are inferred from differences of occupancies; a VC
chosen in one program is asserted free in the other; the RTL may end at any edge. Correct
when credits are counted once in each direction, BookSim can always send what it is given,
and flits meet their data again.

**Fabric port** (`fabric_port/fabric_port_in`, `fabric_port_out`, `translators`).
`noc_writer` counts credits and reads a FIFO, `noc_reader` arbitrates between VC FIFOs at
packet boundaries, `afifo` and `afifo_elastic` cross clocks, `tdm` and `demux` convert widths;
packetizers and translators are combinational or generated. Hard: registered flags that lag,
depths configured in three places. A **software fabric port**
(`booksim/fabric_sw_interface.cpp`) does the same work in C++.

**Allocators and arbiters** (`booksim/allocators`, `booksim/arbiters`). An arbiter keeps a
pointer or a matrix from round to round, an allocator the pointers of its arbiters; in every
cycle requests are added and a matching is asked for. Hard: the two arrays of a matching are
written apart; pointers may move only for grants that were accepted; scratch arrays survive
from one search to the next. Correct when the grants are a matching of the requests, as large
as the algorithm claims, and who goes on asking is served.

**Topologies and routing** (`booksim/networks`, `routefunc.cpp`). Channels are wired by index
arithmetic, routing functions compute ports by arithmetic of their own, and cut the VCs of a
class into parts by phase and dateline; `anynet` reads a file and works out tables. Hard:
deadlock is prevented by an order of VCs that exists nowhere in the code. Correct when every
packet is ejected at its destination by a way of the right length, and no chain of blocked
packets closes.

**Stock traffic managers** (`trafficmanager.cpp`, `batchtrafficmanager.cpp`, `traffic.cpp`,
`injection.cpp`). Queues of flits per source and class, injection ports with a `BufferState`
and the last VC used, maps of the flits in flight, measured and retired, and a run of warm-up,
measurement, drain and emptying, simulation after simulation. Hard: five tables count the same
flits; what one simulation leaves behind the next begins with. Correct when the tables agree,
packets leave whole, no port is wedged, and a simulation begins clean.

**Event-driven and chaos router** (`routers/event_router.cpp`, `chaos_router.cpp`). The first
turns flits into events and counts those that wait for credits; the second moves whole packets
between frames and multi-queues. Hard: a count stands for flits that are somewhere else; a
queue gives one flit per cycle and must never run empty. Correct when no error call is reached,
every flit and credit is known once, and packets are not entered by others.

**The rest.** Statistics, power, configuration; the socket (`booksim/netstream`); example
designs, largely generated or third-party; drawing, papers, emulation. See section 7.

**Interaction.** A design offers flits to `noc_writer`; `rtl_interface` gives each an
identifier and passes it through the socket to `FeS2Interface`; `FeS2TrafficManager` sends it
through a `BufferState` into the network of `IQRouter`s joined by links. At the destination a
flit is ejected to the RTL, `noc_reader` stores it, and forwards it to the design. Credits
take the same way back. Every arrow is either a function call or one of the two kinds of
queue modelled here: link channels, and socket requests handled one at a time.

`PROJECT.json` lists the hazards of this code at their lines with the properties that cover
them.

## 2. Modules and their correspondence to the code

`PROJECT.json`, "map", gives the lines of each definition. Variables keep the names of the
code without the underscore where possible. Definitions whose comment starts with "slip" are
wrong on purpose: each is a plausible error in the definition that follows it, and is listed
under "mutants" with the property that notices it.

| Module | Models | State and actions |
|---|---|---|
| `PacketFifo` | what a VC promises | per lane a queue and the open packet; Open, Put, Get |
| `CreditLink` | one link, private policy | `BufferState`, sender, channel, `Buffer`, credits; PrivateTake, PrivateSend, AddFlit, RemoveFlit, ProcessCredit(S) |
| `SharedBuffer` | the same link, shared policies | extends `CreditLink` with pools, shared slots, reservations, active VCs and the limit per VC |
| `IQRouter` | one router | one action per handler of `_InternalStep`, in its order |
| `Cosim` | both programs, several nodes | one action per loop of the clock edge, SimRead and SimWork for the halves of `_Step` |
| `FlatArbiters`, `Arbiters` | the arbiters | what survives `Clear`; AddRequest, Arbitrate, Clear (with or without `UpdateState`) |
| `Allocators` | the allocators | pointers and the requests of a cycle; AddRequest, Allocate, Clear. An algorithm is an operator to the set of its possible results |
| `VcClasses`, `KNCube`, `Mesh`, `Torus`, `CMesh`, `FlatFly`, `DragonFly`, `Trees` | topologies and their routing functions | channels as `_BuildNet` wires them, routing functions as operators to output sets |
| `RouteMoves`, `Routing` | packets in any of them | Hop for the head of a packet; Begin and Extend for chains of packets that wait |
| `AnyNet`, `AnyNetTables` | networks listed in a file | reading line by line, then the search for shortest ways, step by step |
| `TrafficManager` | `TrafficManager` and `BatchTrafficManager` | `_Step` as one action, and an action for every turn of the simulation |
| `Traffic` | the traffic patterns | the set of destinations a pattern may draw; Send goes on from the node a packet came to |
| `EventRouter`, `ChaosRouter` | the two other routers | a cycle is one action, between external neighbours |
| `Totals` | sums over VCs | the sum of a function as the cardinality of its slots |
| `CreditLinkProofs` | proofs about `CreditLink`: counts, totals, packets, refinement | |
| `SharedBufferProofs` | proofs about sums and `SharedBuffer` | |
| `CosimProofs` | proofs about `Cosim` | |
| `IQRouterProofs` | proofs about `IQRouter` | |
| `FlatArbiterTheorems`, `ArbiterProofs` | what a round-robin or matrix arbiter guarantees; proofs about `Arbiters` | |
| `AllocatorProofs` | proofs about `Allocators` | |
| `ChaosRouterProofs` | proofs about `ChaosRouter` | |
| `MC*` | instances for TLC; `MCRouting`, `MCAllocators`, `MCTraffic` and `MCRouters` put several instances side by side; one is chosen in the initial state and the others stay as they begin | |

**CreditLink.** A channel carries one flit per cycle for all VCs; nothing compares flits of
different VCs, so it is projected on the VCs, each a queue with arbitrary delay. A Credit
message carries a *set* of VCs, so ProcessCredit takes a set; two credits of one VC are never
in one message, as in the code. A sender is an input VC of the upstream router or a node of
the traffic manager. `occupancy` and `bufOccupancy`, the totals the code checks, are kept
apart from the per-VC counts: that they agree is a property.
`PacketFifo` is its abstract specification: `Fifo == INSTANCE PacketFifo WITH` maps the
downstream buffer followed by the channel to one queue, and the active sender of a VC to the
open packet. BufSizeOption = 0 is excluded: there the constructors disagree
(`buffer_state.cpp:91` and `:544`).

**SharedBuffer.** `_reserved_slots`, `_private_buf_occupancy` and `_shared_buf_occupancy` are
updated as the loops of `SendingFlit`, `FreeSlotFor` and `ProcessFreeSlot` leave them; a loop
that frees slots one by one is a count (`SharedAmong`). The policy is chosen in the initial
state, so one run covers the four.

**IQRouter.** `cfg` holds the options that change the pipeline: speculation, piggybacked VC
allocation, holding, and the three delays. A deque entry is `[due, out]`: `due` is -1 before
the stage was evaluated, else the cycles to go (the code stores an absolute time). An
allocator is any choice that gives an output VC to one input VC, an input and an output of
the switch once: every algorithm of `allocators/` is such a choice, and the properties hold
for any. Then the order in a deque matters only in so far as entries with a time stand before
those without, so a deque is kept by input VC, the entries of each in their order. The
neighbours are senders that respect their credits and receivers that return them; both are what
`CreditLink` guarantees. `RouterAssumption` says that the sizes are numbers, that None is
neither a port, a VC nor a packet of a neighbour, and, as the constructor demands, that the
allocation delays are not zero and piggybacked allocation is speculative (`iq_router.cpp:67`,
`:104`). Pushing a VC with a
new flit to the hold deque (`iq_router.cpp:411`) never happens in the runs, because a hold is
cancelled when its buffer empties; the branch is modelled all the same.

**Cosim.** A request that the RTL repeats for each node and VC in a loop is one action, as the
loop runs between two requests of another kind, and BookSim changes nothing else meanwhile.
The queues such a loop fills or empties as a whole are kept by node: nothing depends on the
order of flits of different nodes in them.
SimWork may run before, between or after actions of the RTL that need no answer (Queue); all
others wait for `simPc = "serve"`. The network is abstract: flits of a packet stay in order,
an ejection VC carries one packet at a time, one flit per node and step is ejected, credits
come back later. This is what links of `CreditLink` and routers of `IQRouter` provide, and it
is the external part of the module (`MayEject`, `Arrivals`, `Occupied`). `CosimAssumption`
states that the depths configured in three places fit together.

**Routing.** A packet is a head with its place, VC, phase and intermediate node; a router gives
it any VC of any range in its output set, which is what `IQRouter` does. Random draws (an
intermediate node, an order of dimensions, one of several outputs) are choices. `Waits` relates
an input VC to those that a packet in it may wait for, the escape channels first: a chain of
such steps that comes back to its beginning would be a deadlock. `AnyNet` has its own state, as
its tables are worked out by a loop over changing arrays.

**Allocators.** A cycle is requests, `Allocate`, `Clear`. `wait` is a history variable: how long
the one that waits longest has done so, as long as no unserved request is withdrawn.

**TrafficManager.** The networks are external: a lane per injection VC that keeps flits in order,
delivers and returns credits at any time. Priorities only by class, and times only relative to
each other. `lag` bounds how far a source's clock (`_qtime`) is known to be behind the present.

**EventRouter, ChaosRouter.** The neighbours are external. Those before the event router are
routers of its kind: without `vct` they have a credit for every flit and send the next head on a
VC when the tail's credit is back; with `vct` a credit is for a packet of any length, and it is
the head's that passes the VC on (`event_router.cpp:489`). `CreditTrip` is how many cycles after
the flit the next head comes at the earliest. With the delays that the configuration has by
default it is 5: a credit is on its channel for 2 cycles, the crossbar pipeline takes 1, the flit
is on its channel for 2. (A traffic manager before the router sends no more than that when
`wait_for_tail_credit` is set; when it is not, the next head comes behind the tail, which the
router refuses.) `errors` has every call of `Error()` in the code that is modelled, and after one
the program is over (`Exited`). Those of the chaos router go on with a packet they have begun:
that the router then does so too (`Unbroken`) is half of an assume-guarantee argument, since its
neighbours are routers of the same kind. Its crossbar pipeline has no depth, as with
`st_prepare_delay` and `st_final_delay` 0; with the default of 1 a flit reaches the output frame
a cycle later, and an output counts as available to the next packet while the last flit of a
packet is still in the pipeline.

## 3. Runs

Every bound is a CONSTANT named "bound" in its module. All runs but the two in section 6 pass.

| Run | Instance | Shows |
|---|---|---|
| `credit_link` | 2 VCs, 2 senders, `buf_size` 5 (2 slots per VC, one left over), packets of up to 3 flits, 4 packets | types, `CreditConservation`, `VcWithinPrivateSlots`, `NoOverflow`, `SoleSender`, `PacketsContiguous`; the link implements `PacketFifo` |
| `credit_link_tail` | 2 VCs, 2 senders, 2 slots per VC, `wait_for_tail_credit`, `vc_busy_when_full`, 3 packets | a VC carries one packet at a time (`TailCreditSeparatesPackets`), and every held VC is freed (`HeldVcIsFreed`) |
| `shared_buffer` | 3 VCs, two in one pool of 1 slot, one in another, 4 slots in all, 2 senders, 3 packets, 4 policies | `SlotAccounting`, `SharedNoOverflow`, `BegunPacketKeepsSlot`, `ActiveVcsCounted` |
| `iq_router` | 2 inputs, 1 output, 2 VCs, buffers of 2, packets of 1 or 2 flits, 2 packets buffered, 4 pipelines | `NothingForgotten`, `OwnersAgree`, `RouterCreditsAccounted`, `GrantsStillHold`, `PacketsStayWhole`; no deadlock |
| `cosim` | 2 nodes with writers on different VCs, 2 credits, 2 packets, 3 flits, the RTL may quit | `NothingOverwritten`, `InjectionAdmitted`, `CreditsAccounted`, `DataFound`, `PacketsArriveWhole` |
| `cosim_live` | 1 node that sends to itself, a packet of up to 4 flits over 2 credits | `EveryPacketDelivered`; no deadlock |
| `allocators` | an arbiter of 4 inputs, in a tree 2 groups of 2, 2 priorities; allocators of 3 inputs and 2 outputs without priorities, of 2 and 2 with two of them | of the arbiters `GrantsAsPromised` (the winner has top priority; a matrix stays a total order) and `NoStarvation`; of the allocators `AllocationsAsPromised` (a matching of the requests told alike by both arrays; maximal, maximum or by priority where claimed; a bound on waiting where claimed) |
| `routing` | a network of each topology and every routing function of it, 9 to 64 nodes; files of 3 routers and 1 node | `Delivered`, `Productive`, `EventuallyEjected`, `NoCyclicWait`, `TablesMinimal` |
| `traffic` | 2 terminals in ten configurations, 2 packets alive; 17 patterns on 4 to 72 nodes | `BooksRight`, `PacketsWhole`, `NothingWedged`, `CleanStart`, `DestinationsRight` |
| `routers` | event router with 2 inputs and outputs or with 2 VCs, with and without cut-through, 2 slots per VC, packets of 1 to 3; and with cut-through alone, 4 slots and packets of 1 and 4; chaos router with 3 ports, 2 of them busy, 2 queues, packets of 2 flits | `EventsAccounted`, `BuffersAsStated`, `Unbroken`; no deadlock |
| `iq_delay`, `cosim_quit` | see section 6 | |

Why the bounds are enough. In the link runs a packet is longer than its VC's slots, so it
fills the VC and waits for its own credits; there are more packets than VCs, so each VC
changes hands with flits and credits of its last user under way, and both senders compete.
`buf_size` 5 exercises the rounding. In `shared_buffer` the pools and the shared slots can all
run out, and a reservation is taken, used and given back. In `iq_router` two inputs compete
for one output and its VCs, two VCs of one input compete for the input, a packet follows
another in the same VC, and a flit waits for a credit in every state; as the bound counts
packets in the buffers only, packets pass the router without end. Each of the pipelines is one
the repository's configurations or the router's options build; `hold` without speculation and
with piggybacking covers both ways a hold is set up. In `cosim` the destinations cross, both
nodes eject at node 1 on either VC, and credits return in every order the mailboxes permit. In
`cosim_live` the packet is longer than the writer's credits, so that it needs them back from
the far end. Symmetry is declared on the interchangeable sets of the safety runs only.

In `allocators` a request may come, stay, be replaced or go in every cycle, so every state of
the pointers is met with every set of requests; an output more or less than the inputs shows
arrays that are mixed up, and 3 inputs that one side wins twice. In `routing` the networks are
the smallest with all the cases a function tells apart: a radix of 3 or 4 has middles and ends,
8 has sides that `directed_valiant_mesh` and its kin need, a ring of 7 has a dateline that
balanced routing crosses both ways, a fat tree of 3 levels has a level that is neither top nor
bottom. VCs are as few as the function cuts in parts, which is where deadlock would appear.
`MaxHops` is exact: it is the length of the longest way. In `traffic` two terminals are enough
for the books, since a port, a source and the maps of a class know no other terminal than the
one a packet is bound for; the configurations are one for each way through `_Inject`, `_Step`
and `_SingleSim`. The patterns are functions of node numbers, and the sizes are a power of two,
of four, a square, and one number that is neither; the patterns whose tables the source has for an
8 x 8 mesh run on 64 nodes, `randperm` with nine sequences of draws, each of which draws every
place twice. In `routers` the event router has packets within the limits of cut-through
(`crossing`), longer than the slots of a VC (`lanes`), and longer than `CreditTrip`
(`overtaking`); a longer `CreditTrip` only takes behaviours away. Two inputs contend for each
output and, in the chaos router, for the multi-queues; both queues fill, so that a packet is sent
to an output that is not its own. What other numbers of ports and flits may bring is covered by
the theorems about `ChaosRouter`, whose invariant was checked with 2 and 3 ports, 1 and 2 queues,
and packets of 2 and 3 flits.

Settings are left out of these runs where TLC shows that the code does not do what the property
says; each is written here so that nobody takes the runs for more than they are:

* `allocators`: `select` with two iterations may accept a grant for an output that was matched
  in the first (`selalloc.cpp:62`); `max_size` with more outputs than inputs does not clear a
  whole array and misses augmenting ways (`maxsize.cpp:115`). `loa` can starve a request, and
  `max_size` is fair to inputs but not to pairs (`maxsize.cpp:94`); `islip` and
  `separable_input_first` serve a request within the bound only if other unserved requests are
  not withdrawn, hence the history `wait`.
* `routing`: `xy_yx_mesh` with an odd number of VCs (`routefunc.cpp:509`); waiting in
  `valiant_mesh`, which cuts no VCs at the destination router, also in the phase in which it
  only passes it (`:1317`), in `valiant_torus`, whose `ring_part` may be read uninitialised
  (`:1734`), and in `ugal` of the dragonfly, which uses VC 0 on both sides of a global channel
  (`dragonfly.cpp:471`, `:570`); `valiant_ni_torus`, which writes an old phase back
  (`routefunc.cpp:1816`); `cmesh` with 8 routers per side, where an express channel overshoots
  (`cmesh.cpp:358`); files in which routers are not joined, on which the search never ends
  (`anynet.cpp:271`), and latencies in the lines of nodes, which are entered as if node and
  router were swapped (`:409`).
* `shared_buffer`: the shifting policy in buffers so small that its own assertion fails, which
  `ShiftingAssumption` excludes.
* `traffic`: priorities with `wait_for_tail_credit` and two classes, where a head keeps a VC that
  another takes (`trafficmanager.cpp:1111`); `hold_switch_for_packet` with two subnetworks, which
  meets an assertion. The drain may end while recorded replies are still to be generated
  (`:1330`), and outside batches every *test* for a packet counts a request (`:829`); the
  properties are stated so as not to depend on either.
* `routers`: the event router at an output to a terminal keeps a VC for a packet that is gone
  (`event_router.cpp:494`), so `Terminals` is empty. With `vct` it does call `Error()` for packets
  that are too long: "input buffers are assumed to be expressed in units of maximum size packets"
  (`event_router.cpp:50`), but `Buffer` has `num_vcs * vc_buf_size` places for flits, and a packet
  with more flits than `vc_buf_size` can overflow it ("Flit buffer overflow", `buffer.cpp:68`); and
  as the head's credit passes a VC on, the next head may come while a packet with more flits than
  `CreditTrip` is still leaving ("Received head flit at non-idle VC", `event_router.cpp:350`).
  `EventsAccounted` states these two limits, and that there is no other error: the run has packets
  beyond each of them, and TLC reaches both errors when it is asked for them. A `buf_size` set
  below `num_vcs * vc_buf_size` is not modelled. The chaos router with packets of any other
  length than `vc_buf_size`, or of one flit.

Where `CHECK_DEADLOCK FALSE` is set the system does stop: all packets of the bound were sent,
the RTL has quit, the packet followed was ejected, or the last simulation is over.

Every property of a passing run has a mutant in `PROJECT.json`: with that one definition
changed TLC finds the property violated in the same configuration. Examples: using a VC that
has credit instead of one that is free (`IsAvailable`), dropping the credit check of a
speculative grant (`StillGranted`), freeing a VC with any credit after the tail
(`ReleasedBy`), comparing occupancies without the flit sent (`ReturnsCredit`).

## 4. Fairness

`CreditLink!Fairness`: each component of the simulation is stepped in every cycle, so a flit
on a channel arrives and a buffered flit is forwarded (weak fairness of the receiving side of
each VC), a credit under way arrives, and a sender with a flit and a credit is served (the
arbiters of the router rotate). Nothing makes a sender start a packet.

`NetworksSpec`: weak fairness of `Hop`, a head that has an output VC offered takes one in the
end. That is what `NoCyclicWait` and the fairness of links and arbiters give a router.

`Cosim!Fairness`: weak fairness of `Next`, both programs run on. Strong fairness is
what has to be assumed of the parts that are not in this module: a design finishes a packet
it began whenever its writer can read (two credits, `noc_writer.sv:98`), a reader forwards
what it holds, the network ejects a packet that can be ejected and returns the credits of
VCs in use. Strong and not weak, because each can only happen in one phase of the cycle. No
fairness is assumed of the design starting packets, and none of BookSim beyond stepping.

## 5. Proofs

All theorems hold for every value of the constants that the named assumptions of their modules
allow: any finite sets of VCs and pools, any senders, sizes, depths and options, any number of
nodes, and packets of any number and length.

| Theorem | Statement |
|---|---|
| `CreditLinkProofs!TypeCorrect` | `Spec => []TypeOK` |
| `CreditLinkProofs!CreditsConserved` | `Spec => []CreditConservation` |
| `CreditLinkProofs!PrivateSlotsRespected` | `Spec => []VcWithinPrivateSlots` |
| `CreditLinkProofs!OneSenderPerVc` | `Spec => []SoleSender` |
| `CreditLinkProofs!TotalsNeverOverflow` | `Spec => []NoOverflow` |
| `CreditLinkProofs!PacketsNeverInterleave` | `Spec => []PacketsContiguous` |
| `CreditLinkProofs!OnePacketPerVc` | `Spec => []TailCreditSeparatesPackets` |
| `CreditLinkProofs!LinkIsPacketFifo` | `Spec => ImplementsPacketFifo`, the refinement |
| `SharedBufferProofs!SlotsAreAccounted` | `SharedSpec => []SlotAccounting` |
| `SharedBufferProofs!SharedBufferNeverOverflows` | `SharedSpec => []SharedNoOverflow` |
| `SharedBufferProofs!BegunPacketsGoOn` | `SharedSpec => []BegunPacketKeepsSlot` |
| `SharedBufferProofs!ActiveVcsAreCounted` | `SharedSpec => []ActiveVcsCounted` |
| `SharedBufferProofs!SharedLinkIsSound` | `SharedSpec => [](CreditConservation /\ SoleSender /\ PacketsContiguous)` |
| `CosimProofs!CreditsAreAccounted` | `Spec => []CreditsAccounted` |
| `CosimProofs!NothingIsOverwritten` | `Spec => []NothingOverwritten` |
| `CosimProofs!InjectionIsAdmitted` | `Spec => []InjectionAdmitted` |
| `CosimProofs!PacketsDoArriveWhole` | `Spec => []PacketsArriveWhole` |
| `CosimProofs!DataIsFound` | `Spec /\ [][RoomForAll]_vars => []DataFound` |
| `IQRouterProofs!ListedAlways` | `Spec => []NothingForgotten` |
| `IQRouterProofs!CreditsAlways` | `Spec => []RouterCreditsAccounted` |
| `IQRouterProofs!OwnersAlways` | `Spec => []OwnersAgree` |
| `IQRouterProofs!GrantsAlways` | `Spec => []GrantsStillHold` |
| `IQRouterProofs!PacketsAlways` | `Spec => []PacketsStayWhole` |
| `ArbiterProofs!ArbitersGrantAsPromised` | `Spec => []GrantsAsPromised` |
| `ArbiterProofs!ArbitersStarveNobody` | `Spec => []NoStarvation` |
| `AllocatorProofs!AllocatorsGrantAsPromised` | `Spec => [](Provable(alg) => GrantsAsPromised)` |
| `ChaosRouterProofs!ChaosBuffersAsStated` | `Spec => []BuffersAsStated` |
| `ChaosRouterProofs!ChaosPacketsGoOn` | `Spec => Unbroken` |

**The link.** The proofs are about `LinkNext`, the operations of the link without a policy's
guard, wherever they do not need that guard; what is proved of it holds for `SharedBuffer` too.

*Conservation and slots.* `CreditConservation` is inductive with `TypeOK`. The lemmas
`CountsAfter...` say what each action does to the four counts of a VC, so that the rest is
arithmetic. `VcWithinPrivateSlots` needs in addition that the sender's own count is at most
`VcBufSize`, which PrivateSend keeps; with conservation the buffer holds no more.

*Totals.* `NoOverflow` is about sums over VCs that the code keeps in a counter of its own. The
invariant `TotalsInv` sees a count per VC as the set of slots `<<v, 1>> .. <<v, n>>`, and says
that each total is the cardinality of that set; sending adds one element, a Credit message for
S removes `Cardinality(S)` of them. `SlotsFit` (the division rounds down) and a free slot
in one VC then leave the total below `Size`. `SharedBufferProofs` has the same for any function
(`Total`): sums are monotone, and add up over a function and over a partition.

*Packets.* `PacketsContiguous` looks at one end of the channel only. The invariant `PacketInv`
adds that every flit on the channel follows the one before it (`Chained`) and that what the
last one leaves expected is the packet of the VC's present sender, or nothing if it has sent
no flit (`SenderContinues`); `SoleSender` makes the sender unique.

*One packet per VC.* `TailCreditSeparatesPackets` needs, in `TailInv`, that a VC nobody holds
has a count of zero: with `wait_for_tail_credit` only the credit that empties it frees it, and
conservation turns that into an empty channel and buffer.

*Refinement.* `FifoInv` has what the mapped initial states and steps need: packet identifiers
in use are younger than `nextPid`, each VC has one sender. Then TakeBuffer is Open, SendingFlit
is Put (`SendPuts`: the buffer followed by the channel gets one more flit, and there was room
by conservation), RemoveFlit is Get, and the arrival of a flit and of a credit change neither
the joined queue nor the open packet (`LooksTheSame`).

**The shared buffer.** What the policy counts is seen by no single VC, so `SharedInv` states
all of it at once: a pool holds the flits and the reservations of its VCs (`PoolsAgree`); the
shared slots are what pools hold beyond their sizes; the shared slots are never more than
there are; a slot is reserved exactly for a VC whose packet has begun and of which nothing is
stored (`BegunIsReserved`, `ReservedIsHeld`); the active VCs are the senders with a VC. A
credit message frees slots of several VCs and pools one by one in the code; `SharedAmong`
counts those that were shared, and the sum over pools moves by the sum of these
(`TotalOfParts`, `TotalAdds`). That no flit or reservation exceeds the buffer is then
`SharedSize` plus the sizes of the pools. `ShiftingAssumption` is the assertion of the
shifting policy.

**The co-simulation.** `OneStep`, that is `CLOCK_SPEEDUP = 1`, is a hypothesis of every theorem:
it is the default of `rtl_interface`, no file of the repository overrides it, and with more
steps per cycle a port may get two flits in one cycle. `CosimInv` is the conjunction of

* `Turns` and `Mail`: which program may be where, and in which phases each mailbox, reply queue
  and reading register may be full. The programs overlap: BookSim works while the RTL is in its
  next cycle up to its first request;
* `Lanes`: a node has at most one flit in each of the two queues, on its writer's VC; heads and
  tails alternate along writer, RTL queue, BookSim queue and the state of the VC. This gives
  that the VC of a head is free, without any assumption about the network;
* `VcsKnown`, `PidsOnce`: a packet is of one node, and BookSim has learnt its VC when a body
  flit comes;
* `Counts`: the two occupancies that a credit is inferred from differ as the phase says;
* `CreditsAccounted` itself, with the cardinality of the flits of a VC in a queue (`CountOn`);
* `Order`: the flit identifiers of a packet ascend along reply, reading register, network,
  BookSim queue and RTL queue, identifiers of different packets are different, and `data_set`
  has entries for flits on their way only;
* `PortsInOrder`: what the network, the register, the reply and the reader each take for the
  packet that holds an ejection VC are one chain.

Each part has a lemma per action that disturbs it. A credit that is taken out of a mailbox, put
there by inference, or overtaken by a flit is one case of `WriterWork`. `DataIsFound` has in
addition that every flit has its entry (`Found`), and assumes what rtl_interface assumes: the
loop that stores the flits of a cycle finds a free entry for each (`RoomForAll`); the code drops
the data without a word when it does not (a hazard of its own).

**The router.** `UnitDelays`, that is `vc_alloc_delay = sw_alloc_delay = 1`, is a hypothesis of
every theorem: all configurations of the repository have it, and `iq_delay` (section 6) shows that
the code itself does not handle another value. The routing delay, speculation, piggybacking,
holding, the numbers of ports, VCs and slots, and the grants of the allocators are arbitrary.
`IInv` is the conjunction of

* `EachListed`, `StateFits`: with these delays a VC stands at most once in a deque (`Lists`), and
  whether it does follows from its state, its buffer and the hold of its input;
* `Stamps`: which entries are new and which are due in each phase. This is what makes the order of
  the handlers matter: an Update half meets the entries its Evaluate half stamped, and perhaps
  new ones, never others;
* `VcGrantsFit`, `HoldGrantsFit`, `SwGrantsFit`: a grant as a promise about the state of the router
  that every handler between the grant and its use keeps. The promise of a speculative grant of
  the switch changes while it waits: first that the VC allocator has answered with an output VC
  that has a credit, after `_VCAllocUpdate` that the VC has that output VC. The hard case is
  `_SWHoldUpdate`, which sends flits and cancels holds between the two: it does not touch an
  input or output that was granted, since those are not held;
* `VcOwners`, `HeldPairs`, `HeldSends`: the parts of `OwnersAgree`;
* `CrossbarFits`, `AtMostTwo`: an output has at most one flit of the last cycle and one of this
  cycle on its way, so that what the neighbour will wait for can be said without recursion
  (`AfterAll`);
* `InOrder`, `SentInOrder`: the flits of a VC follow each other, and what the neighbour waits for
  after those on their way is the next flit of the output VC's user (`Expected`);
* `StaysAwake`: while a router has seen nothing to do, the deques of the stages that have reported
  are empty, or a flit was sent, which keeps it awake at the end of the cycle.

`_SWHoldUpdate` and `_SWAllocUpdate` share what `Send` does; `SendEffect`, `SendInOrder`,
`SendStates`, `SendLists` and `Crossings` say once what it changes and keeps, for any set of VCs
that are `Sendable`, and the step of each handler is then about its deques and holds. There is
one lemma per action (`...Step`), one step in it per part of the invariant.

**The arbiters.** `FlatArbiterTheorems` is about one arbiter of any number of inputs: its pointer
or matrix puts the inputs in a strict order (`Ahead`); the winner, which `Arbitrate` finds by a
walk over the requests, is before every other request; `UpdateState` puts the winner behind all
and keeps the others in order. `ArbiterInv` of `ArbiterProofs` is the conjunction of

* `Shape`: the state of every kind is what its constructor and updates build, each matrix an order;
* `Choice`: the input selected in this round is a request with top priority and, but for the
  priority arbiter, the winner;
* `Patience`: an input has lost no more often in succession than its *slack*, the number of
  inputs it is preferred to. A round it loses adds one to `wait` and takes one from the slack. In
  a tree the slack has two digits, places in the group above groups: an input may lose in its
  group, which then went first among the groups, or its group may lose. That the two digits count
  to less than `Size` is the whole reason why a tree starves nobody, and uses that `UpdateState`
  moves the group's arbiter only when the group has won (`TreeUpdated`).

**The allocators.** An allocator that works in rounds adds pairs to a matching. `Augmented` says
what one round has to do for the matching to stay one (`Agree`) and to be worth one more port
(`Progress`: after k rounds, k inputs are served or no requested pair is free at both ends);
`ProgressPays` turns that into `Maximal` and `SomeGrant` after enough rounds. The rounds
of `islip`, `pim`, `loa`, `wavefront` and of the separable allocators are each shown to be such
rounds, from what `FlatArbiterTheorems` says of their arbiters; `wavefront` also keeps that what
was passed over lost to a request at the same port that is no worse (`PrioritiesHonoured`). The
rounds are recursive functions of the number of the round: `Iteration` proves that they have the
values they should, by the least number for which they would not (`NatSetInduction`), as the
library's induction theorems cannot be instantiated. `Provable` leaves out two cases. `select`
with several iterations breaks the promise (section 3), so the theorem is about one iteration,
which is what every configuration has. For `max_size` the promise is that no larger matching
exists (`MaximumSize`), which is Berge's theorem about augmenting ways, and its search is a fold.

**The chaos router.** A *book* describes a buffer by two numbers, how many flits of the last
packet have come in and how many of the first have gone: with the state they give the length and
every flit (`Book`). `ChaosInv` says that each input, multi-queue and output has its book
(`InputsRight`, `QueuesRight`, `OutputsRight`), and that the numbers of one buffer are those of the
next: what has gone from an input has come to the multi-queue or crossed to the output it is
matched with (`QueueLinks`, `OutputLinks`), and each is matched with one only. For inputs the two
numbers are those the neighbours keep (`coming`, `freed`); for queues and outputs some numbers
exist. A step of the router changes the numbers of every buffer at once, and the proof follows the
order of the code: flits come in and credits arrive, an input or queue is matched
(`_NextInterestingChannel`), buffers advance to outputs and queues, outputs send. As every buffer
that has begun is shown to have a flit whenever the next one takes it, and room whenever one comes,
no call of `Error` is reached, and a packet goes on every cycle: `Unbroken` is the router's half of
the assumption that it makes about its neighbours (section 2).

All invariants were checked by TLC before they were proved, on the instances of section 3 or
smaller ones.

**Only model-checked.**

* Liveness (`HeldVcIsFreed`, `EveryPacketDelivered`, `EventuallyEjected`) and deadlock freedom:
  fairness and ENABLED are out of the prover's reach.
* `max_size`, and the waiting bounds of the allocators (`NoStarvation` of `Allocators`): the first
  as said above; the second depends on how the arbiters of two phases block each other, and holds
  only for the allocators and the histories that `wait` describes.
* `Delivered`, `Productive`, `NoCyclicWait`, `TablesMinimal`: routing is a statement about a finite
  network at a time. Its tables, ranges and `Waits` are computed, and `TablesMinimal` would need an
  induction over ways.
* `BooksRight`, `PacketsWhole`, `NothingWedged`, `CleanStart`, `DestinationsRight` of the traffic
  managers, and `EventsAccounted` of the event router (with `RecycledAfterTail`): their steps are
  folds over sets and sequences with functions as arguments, inductions over data for which the
  installed provers have no rule.
* Allocation delays above 1 in the router, `CLOCK_SPEEDUP` above 1 in the co-simulation.

## 6. Two disagreements with the code

Two runs are expected to end in a violation; each checks a statement of the source.

* `cosim_quit`: `EnqueueCreditFromNoc` asserts that the mailbox is empty, "we must read the
  credits every cycle or this assertion fails" (`fes2_interface.cpp:301`). After QUIT no
  request is served any more, but `_SingleSim` steps to the end of the sample period
  (`fes2_trafficmanager.cpp:1034`): two credits of one VC in that time fail the assertion. The
  invariant of the `cosim` run is therefore stated for the time the RTL runs.
* `iq_delay`: with `vc_alloc_delay = 2`, accepted by the constructor, an entry without a time
  stands behind one that is due, and `assert(time >= 0)` (`iq_router.cpp:789`) fails: the
  first two loops of `_VCAllocEvaluate` stop at the first entry that has a time. With the
  delay of 1 that every configuration uses no entry outlives its cycle, so `iq_router` is
  checked with that.

## 7. What is not modelled, and the plan

1. *Done:* the link with its policies, the input-queued router, the co-simulation, allocators and
   arbiters, topologies and routing, the stock traffic managers and traffic, the two other
   routers; the theorems of section 5.
2. Proofs about `EventRouter`, with its queues as functions and its loops as recursive functions of
   a number, as in `AllocatorProofs`: that every flit and credit is known once (`EventsAccounted`).
3. `AsyncFifo` (Gray-coded pointers read in the other clock domain; the elastic overflow slot,
   `afifo.sv:54`), with a bounded FIFO as its abstract specification; `NocReader` (the
   arbitration FSM of `noc_reader.sv:138` with its lagging flags): no flit lost, packets
   forwarded whole, one credit per flit.
4. `FabricSwitch`: the software port's queues, credits and four-flit demultiplexer
   (`fabric_sw_interface.cpp`).
5. The reset of the RTL while BookSim is ending (an action of `Cosim`), `CLOCK_SPEEDUP` above 1,
   the feedback policies of `SharedBuffer`.

Parts of the modelled files are left out. `BufferState`: the two feedback policies, which limit
slots by measured round-trip times. `IQRouter`: speedups, output buffers, NOQ, priorities, more
than one class. `FeS2TrafficManager`: statistics, retirement books, injection by BookSim itself;
its latency fail-safe (`fes2_trafficmanager.cpp:1106`) cannot end a simulation, since this manager
is only built for `sim_type = fes2` (`trafficmanager.cpp:52`) and the fail-safe is for
"latency". Routing: `limited_adapt_mesh` and its replacement, channel latencies, the random
choice of faulty channels (any place is tried). Traffic: statistics, watch lists, traces, NOQ;
an injection process is any answer for the nodes it knows (an on-off process takes its initial
state from the wrong parameter, `injection.cpp:125`, which changes rates only). Event router:
the route lookahead, which takes the first output.

Left out for good: statistics (floating point), power estimates, configuration parsing, the
socket's bytes, packetizers and translators (wiring, generated encoders), the example designs,
drawing, papers and emulation.
