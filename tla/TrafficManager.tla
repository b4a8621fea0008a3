--------------------------- MODULE TrafficManager ---------------------------
(***************************************************************************)
(* BookSim's own traffic manager: the sources' queues, the injection ports *)
(* with their upstream state of the network's first buffers, the book-     *)
(* keeping of flits in flight, and the run of a simulation: warm-up,       *)
(* measurement, drain, emptying, the next simulation; or batch after batch.*)
(*                                                                         *)
(* _Step is one action.  The networks are external: a lane keeps the flits *)
(* of an injection VC in order, and delivers and returns credits when it   *)
(* likes.  Times are only compared, so they are kept relative: qtime to    *)
(* the present, or, from the drain on, to its beginning.                   *)
(***************************************************************************)
EXTENDS Integers, FiniteSets, SequencesExt

CONSTANTS
  Nodes,           \* terminals
  VcBufSize,       \* config "vc_buf_size"
  Configs,         \* configurations, see ConfigType
  Batches,         \* config "batch_count"
  BatchSize,       \* config "batch_size"
  MaxOutstanding,  \* config "max_outstanding_requests", 0 for any number
  MaxLive          \* bound: packets alive at a time

Requests == {"read_request", "write_request"}
Replies  == {"read_reply", "write_reply"}
Types    == {"any"} \cup Requests \cup Replies

ConfigType ==
  [kind : {"latency", "throughput", "batch"},   \* config "sim_type"
   sims : Nat,           \* config "sim_count"
   samples : Nat,        \* config "max_samples"
   classes : Nat \ {0},
   vcs : Nat \ {0},      \* config "num_vcs"
   subnets : Nat \ {0},
   rw : BOOLEAN,         \* config "use_read_write"
   pri : Seq(Nat),       \* config "class_priority", of class c at c + 1
   size : [Types -> SUBSET (Nat \ {0})],
   sub : [Types -> SUBSET Nat],
   sources : SUBSET Nodes,   \* config "injection_nodes"
   dests : [Nodes -> SUBSET Nodes],   \* where the traffic pattern may send a node's packets
   hold : BOOLEAN,       \* config "hold_switch_for_packet"
   tailCredit : BOOLEAN, \* config "wait_for_tail_credit"
   queuing : BOOLEAN,    \* config "include_queuing"
   lag : Nat]            \* bound: cycles that a source's queue is known to be behind

\* With two subnets and hold_switch_for_packet the held flit is not looked at for its subnet.
TrafficManagerAssumption ==
  /\ VcBufSize \in Nat \ {0}
  /\ Configs \subseteq ConfigType
  /\ \A g \in Configs : /\ Len(g.pri) = g.classes
                        /\ \A t \in Types : g.sub[t] \subseteq 0 .. g.subnets - 1
                        /\ g.hold => g.subnets = 1
  /\ {Batches, MaxOutstanding, MaxLive} \subseteq Nat /\ BatchSize \in Nat \ {0}

NoVc == -1
NoClass == -1
Pids == 1 .. MaxLive

VARIABLES
  config,    \* what is simulated
  stage,     \* where Run and _SingleSim are: "sampling", "draining", "emptying"; or
             \* "injecting", "collecting" a batch; or "done", "unstable"
  simState,  \* _sim_state
  count,     \* sim, phases, converged, batch: their counters
  packet,    \* the packets alive: what their flits have in common
  node,      \* per source: _partial_packets, _qtime, _qdrained, _repliesPending,
             \* _requestsOutstanding, _packet_seq_no (in batches)
  inFlight,  \* per class: _total_in_flight_flits, _measured_in_flight_flits, _retired_packets
  port,      \* per source and subnet: _buf_states, _last_class, _last_vc
  net        \* external: the flits in each lane

vars == <<config, stage, simState, count, packet, node, inFlight, port, net>>

Classes == 0 .. config.classes - 1
Subnets == 0 .. config.subnets - 1
VCs     == 0 .. config.vcs - 1
Lanes   == Subnets \X Nodes \X VCs   \* the way of an injection VC through its network

-----------------------------------------------------------------------------
(* Injection                                                               *)

\* A flit is a record [pid, seq, vc].
Id(f)     == <<f.pid, f.seq>>
Common(f) == packet[f.pid]
IsHead(f) == f.seq = 1
IsTail(f) == f.seq = Common(f).size

None == <<>>

\* Source after source and class after class work on a record of these three.
Books == [packet |-> packet, node |-> node, inFlight |-> inFlight]

\* A reply that is pending keeps the place of its packet.
Alive(x) == {p \in Pids : x.packet[p] # None}
Pending(x) == FoldFunctionOnSet(LAMBDA n, sum : sum + Len(n.replies), 0, x.node, Nodes)
Room(x) == Cardinality(Alive(x)) + Pending(x) < MaxLive
NewPid(x) == CHOOSE p \in Pids \ Alive(x) : \A q \in Pids \ Alive(x) : p <= q

BatchAllows(n) ==
  n.issued < BatchSize /\ (MaxOutstanding <= 0 \/ n.outstanding < MaxOutstanding)

\* What an injection process may say of a source.
InjectionTest(n) == IF n \in config.sources THEN BOOLEAN ELSE {FALSE}

\* _IssuePacket, where no reply is pending: a type of packet, or none.  Of a batch the next
\* packet is issued as soon as it is allowed.
Issued(x, n) ==
  LET kinds == IF config.rw THEN Requests ELSE {"any"}
      tests == IF config.kind = "batch" THEN {BatchAllows(x.node[n])} ELSE InjectionTest(n)
  IN (IF TRUE \in tests THEN kinds ELSE {}) \cup (IF FALSE \in tests THEN {"none"} ELSE {})

\* _GeneratePacket
Enqueued(x, p) ==
  LET pid == NewPid(x)
      ids == {<<pid, i>> : i \in 1 .. p.size}
  IN [x EXCEPT !.packet[pid] = p,
               !.node[p.src].partial[p.cl] = [i \in 1 .. p.size |-> [pid |-> pid, seq |-> i, vc |-> NoVc]],
               !.inFlight.total[p.cl] = @ \cup ids,
               !.inFlight.measured[p.cl] = IF p.record THEN @ \cup ids ELSE @]

\* What happens to a new packet: any of its sizes and subnetworks.
Generated(x, p) ==
  {Enqueued(x, [p EXCEPT !.sub = place[1], !.size = place[2]]) : place \in config.sub[p.type] \X config.size[p.type]}

\* Times at which the queue may generate its next packet, and the queue after that.
Until      == IF simState = "draining" THEN 1 ELSE 0
Past(q)    == IF simState = "draining" /\ q >= 1 THEN 1 ELSE q + 1
\* Whether a packet of that time is measured.
Measured(early) == simState = "running" \/ (simState = "draining" /\ early)

New(n, c, type, dest, record) ==
  [type |-> type, cl |-> c, src |-> n, dest |-> dest, record |-> record, sub |-> 0, size |-> 0]

\* The oldest pending reply, which takes up the measuring of its request.
Answer(x, n, c) ==
  LET r == Head(x.node[n].replies)
  IN Generated([x EXCEPT !.node[n].replies = Tail(@), !.node[n].issued = IF config.kind = "batch" /\ @ < BatchSize THEN @ + 1 ELSE @],
               New(n, c, IF r.type = "read_request" THEN "read_reply" ELSE "write_reply", r.source,
                   Measured(r.early) \/ r.record))

Ask(x, n, c) ==
  UNION {UNION {UNION {
    Generated([x EXCEPT !.node[n].qtime[c] = Past(q),
                        !.node[n].outstanding = IF config.rw \/ config.kind = "batch" THEN @ + 1 ELSE @,
                        !.node[n].issued = IF config.kind = "batch" THEN @ + 1 ELSE @],
              New(n, c, type, dest, Measured(config.queuing /\ q < 0))) :
    q \in IF config.kind = "batch" THEN {x.node[n].qtime[c]} ELSE x.node[n].qtime[c] .. Until} :
    dest \in config.dests[n]} :
    type \in Issued(x, n) \ {"none"}}

Pass(x, n, c) ==
  IF "none" \in Issued(x, n) \/ ~Room(x) THEN {[x EXCEPT !.node[n].qtime[c] = 1]} ELSE {}

Drained(x, n, c) ==
  IF simState = "draining" /\ x.node[n].qtime[c] > 0 THEN [x EXCEPT !.node[n].qdrained[c] = TRUE] ELSE x

\* _Inject, for one source and class.
InjectAt(x, n, c) ==
  IF x.node[n].partial[c] # <<>> THEN {x}
  ELSE {Drained(y, n, c) : y \in
          IF x.node[n].replies # <<>> THEN Answer(x, n, c)
          ELSE Pass(x, n, c) \cup IF Room(x) THEN Ask(x, n, c) ELSE {}}

Sources == SetToSeq(Nodes)
Filled ==
  FoldLeft(LAMBDA xs, n :
             FoldLeft(LAMBDA ys, c : UNION {InjectAt(y, n, c) : y \in ys}, xs, [c \in 1 .. config.classes |-> c - 1]),
           {Books}, Sources)
Injected == IF stage = "emptying" THEN {Books} ELSE Filled

-----------------------------------------------------------------------------
(* The injection ports                                                     *)

Full(p, vc) == p.occupancy[vc] >= VcBufSize

\* The VCs that the routing function has for the type of a packet (InitializeRoutingMap).
FirstVc(type) == IF type \in Replies THEN config.vcs \div 2 ELSE 0
LastVc(type)  == IF type \in Requests THEN config.vcs \div 2 - 1 ELSE config.vcs - 1

\* The first VC after the class's last that is free and not full; none but the first of
\* the range is looked at while the last is not of the range.
VcFor(p, type, c) ==
  LET first == FirstVc(type)
      size  == LastVc(type) - first + 1
      last  == p.lastVc[c]
      Try(i) == IF last < first \/ last > LastVc(type) THEN first ELSE first + ((last - first + i) % size)
      good  == {i \in 1 .. size : ~p.taken[Try(i)] /\ ~Full(p, Try(i))}
  IN IF good = {} THEN NoVc ELSE Try(CHOOSE i \in good : \A j \in good : i <= j)

\* A head looks for a VC once and keeps the one it has found, sent or not.
Chosen(p, f, of) == IF IsHead(f) /\ f.vc = NoVc THEN VcFor(p, of.type, of.cl) ELSE f.vc

Pri(c) == config.pri[c + 1]

\* One turn of the loop over the classes: the class to send, and the heads' VCs.
Consider(pick, p, x, queue, s, c) ==
  IF \/ queue[c] = <<>>
     \/ x.packet[Head(queue[c]).pid].sub # s
     \/ pick.class # NoClass /\ Pri(pick.class) >= Pri(c)
  THEN pick
  ELSE LET vc == Chosen(p, Head(queue[c]), x.packet[Head(queue[c]).pid])
       IN [vcs   |-> [pick.vcs EXCEPT ![c] = vc],
           class |-> IF vc # NoVc /\ ~Full(p, vc) THEN c ELSE pick.class]

Holds(p, queue) ==
  /\ config.hold /\ queue[p.lastClass] # <<>>
  /\ ~IsHead(Head(queue[p.lastClass])) /\ ~Full(p, Head(queue[p.lastClass]).vc)

Picked(p, x, queue, s) ==
  LET limit == config.classes - IF Holds(p, queue) THEN 1 ELSE 0
  IN FoldLeft(LAMBDA pick, i : Consider(pick, p, x, queue, s, (p.lastClass + i) % config.classes),
              [class |-> IF Holds(p, queue) THEN p.lastClass ELSE NoClass,
               vcs   |-> [c \in Classes |-> IF queue[c] = <<>> THEN NoVc ELSE Head(queue[c]).vc]],
              [i \in 1 .. limit |-> i])

\* BufferState::TakeBuffer, SendingFlit and ProcessCredit.
\* slip: a VC can be had by two packets.
TookFree(p, c, vc) == [p EXCEPT !.tailSent[vc] = FALSE, !.lastVc[c] = vc]
Took(p, c, vc)     == [p EXCEPT !.taken[vc] = TRUE, !.tailSent[vc] = FALSE, !.lastVc[c] = vc]

\* slip: a tail credit is waited for in any case.
SendsFlitKept(p, c, vc, tail) ==
  [p EXCEPT !.lastClass = c, !.occupancy[vc] = @ + 1, !.tailSent[vc] = @ \/ tail]

SendsFlit(p, c, vc, tail) ==
  [p EXCEPT !.lastClass = c, !.occupancy[vc] = @ + 1, !.tailSent[vc] = @ \/ tail,
            !.taken[vc] = @ /\ ~(tail /\ ~config.tailCredit)]

Credited(p, vc) ==
  [p EXCEPT !.occupancy[vc] = @ - 1,
            !.taken[vc] = @ /\ ~(config.tailCredit /\ p.occupancy[vc] = 1 /\ p.tailSent[vc])]

PortAfter(p, pick, x, queue) ==
  IF pick.class = NoClass THEN p
  ELSE LET c  == pick.class
           f  == Head(queue[c])
       IN SendsFlit(IF IsHead(f) THEN Took(p, c, pick.vcs[c]) ELSE p, c, pick.vcs[c], f.seq = x.packet[f.pid].size)

\* A queue with the VC of its first flit, and without the flit, whose VC is passed back.
WithVc(queue, vc) == IF queue = <<>> THEN queue ELSE [queue EXCEPT ![1].vc = vc]
Behind(queue, vc) == WithVc(Tail(queue), vc)

-----------------------------------------------------------------------------
(* Retirement                                                              *)

\* _RetireFlit: a reply is due for a request; the requester has it back for a reply.
Answered(ns, of) ==
  CASE of.type \in Requests ->
         [ns EXCEPT ![of.dest].replies =
            Append(@, [source |-> of.src, type |-> of.type, record |-> of.record, early |-> simState # "draining"])]
    [] of.type \in Replies -> [ns EXCEPT ![of.dest].outstanding = @ - 1]
    [] of.type = "any"     -> [ns EXCEPT ![of.src].outstanding = IF config.kind = "batch" THEN @ - 1 ELSE @]

\* slip: the head is not kept for the tail.
RetiredPacketsNever(heads, f) == heads
RetiredPackets(heads, f) ==
  IF IsTail(f) THEN heads \ {f.pid} ELSE IF IsHead(f) THEN heads \cup {f.pid} ELSE heads

Retire(x, f) ==
  LET of == Common(f)
  IN [packet   |-> IF IsTail(f) THEN [x.packet EXCEPT ![f.pid] = None] ELSE x.packet,
      node     |-> IF IsTail(f) THEN Answered(x.node, of) ELSE x.node,
      inFlight |-> [x.inFlight EXCEPT !.total[of.cl] = @ \ {Id(f)},
                                      !.measured[of.cl] = IF of.record THEN @ \ {Id(f)} ELSE @,
                                      !.retired[of.cl] = RetiredPackets(@, f)]]

-----------------------------------------------------------------------------
(* _Step                                                                   *)

Oldest(l) == Head(net[l[1]][l[2]][l[3]])

\* A node reads at most one flit from a subnetwork in a step, and a credit of some VCs.
Arrivals == {ls \in SUBSET {l \in Lanes : net[l[1]][l[2]][l[3]] # <<>>} :
               \A a, b \in ls : a[1] = b[1] /\ Common(Oldest(a)).dest = Common(Oldest(b)).dest => a = b}
CreditsBack == SUBSET {l \in Lanes : port[l[2]][l[1]].occupancy[l[3]] > 0}

CreditedPort(n, s, back) ==
  FoldLeft(LAMBDA p, vc : IF <<s, n, vc>> \in back THEN Credited(p, vc) ELSE p, port[n][s], SetToSeq(VCs))

\* Time goes by for the queues; in the drain their times are relative to its beginning.
Aged(n) ==
  IF simState = "draining" THEN n
  ELSE [n EXCEPT !.qtime = [c \in Classes |-> IF @[c] - 1 < -config.lag THEN -config.lag ELSE @[c] - 1]]

StepWith(x, back, arrivals) ==
  LET queue(n)       == x.node[n].partial
      credited(n, s) == CreditedPort(n, s, back)
      pick == [n \in Nodes |-> [s \in Subnets |-> Picked(credited(n, s), x, queue(n), s)]]
      sent(n, c) ==   \* what is left of a queue
        LET q == queue(n)[c]
            p == pick[n][x.packet[Head(q).pid].sub]
        IN IF q = <<>> THEN q ELSE IF p.class = c THEN Behind(q, p.vcs[c]) ELSE WithVc(q, p.vcs[c])
      left == [x EXCEPT !.node = [n \in Nodes |-> [@[n] EXCEPT !.partial = [c \in Classes |-> sent(n, c)]]]]
      done == FoldLeft(LAMBDA y, l : Retire(y, Oldest(l)), left, SetToSeq(arrivals))
      entering(n, s, v) ==
        LET c == pick[n][s].class
        IN IF c # NoClass /\ pick[n][s].vcs[c] = v THEN <<[Head(queue(n)[c]) EXCEPT !.vc = v]>> ELSE <<>>
      staying(n, s, v) == IF <<s, n, v>> \in arrivals THEN Tail(net[s][n][v]) ELSE net[s][n][v]
  IN /\ port' = [n \in Nodes |-> [s \in Subnets |-> PortAfter(credited(n, s), pick[n][s], x, queue(n))]]
     /\ net' = [s \in Subnets |-> [n \in Nodes |-> [v \in VCs |-> staying(n, s, v) \o entering(n, s, v)]]]
     /\ packet' = done.packet
     /\ node' = [n \in Nodes |-> Aged(done.node[n])]
     /\ inFlight' = done.inFlight
     /\ UNCHANGED <<config, stage, simState, count>>

-----------------------------------------------------------------------------
(* Run, _SingleSim and the batches                                         *)

FlitsLeft == \E c \in Classes : inFlight.total[c] # {}

\* Credit::OutStanding: a credit is on its way, or will be, for every slot in use.
CreditsLeft == \E l \in Lanes : port[l[2]][l[1]].occupancy[l[3]] > 0

\* _PacketsOutstanding
PacketsOutstanding ==
  \E c \in Classes : inFlight.measured[c] # {} \/ \E n \in Nodes : ~node[n].qdrained[c]

BatchComplete == \A n \in Nodes : node[n].issued >= BatchSize

\* slip: the next simulation does not wait for the credits.
EmptyOfFlits == ~FlitsLeft
Empty == ~FlitsLeft /\ ~CreditsLeft

\* Whether the loop the program is in steps on.
Stepping ==
  CASE stage = "sampling"   -> TRUE
    [] stage = "draining"   -> PacketsOutstanding
    [] stage = "emptying"   -> ~Empty
    [] stage = "injecting"  -> ~BatchComplete
    [] stage = "collecting" -> FlitsLeft
    [] stage \in {"done", "unstable"} -> FALSE

Step == Stepping /\ \E x \in Injected, back \in CreditsBack, arrivals \in Arrivals : StepWith(x, back, arrivals)

Enters(newStage, newState) == stage' = newStage /\ simState' = newState

StoppedStepping == UNCHANGED <<config, packet, node, inFlight, port, net>>

\* The end of a sample period: too much latency, or how much has changed since the last.
EndPeriod ==
  /\ stage = "sampling"
  /\ StoppedStepping
  /\ \/ /\ config.kind = "latency"
        /\ Enters("unstable", "draining") /\ UNCHANGED count
     \/ \E settled \in BOOLEAN :
          LET state     == IF simState = "warming_up" /\ settled THEN "running" ELSE simState
              converged == CASE simState = "warming_up" -> 0
                             [] simState = "running"    -> IF settled THEN count.converged + 1 ELSE 0
              goesOn    == count.phases + 1 < config.samples /\ (state # "running" \/ converged < 3)
          IN /\ count' = [count EXCEPT !.phases = @ + 1, !.converged = converged]
             /\ CASE goesOn -> Enters("sampling", state)
                  [] ~goesOn /\ state = "running" ->
                       Enters(IF config.kind = "latency" THEN "draining" ELSE "emptying", "draining")
                  [] ~goesOn /\ state # "running" -> Enters("unstable", state)

EndDrain ==
  /\ stage = "draining" /\ ~PacketsOutstanding
  /\ Enters("emptying", simState)
  /\ StoppedStepping /\ UNCHANGED count

\* Too much latency in the drain.
AbortDrain ==
  /\ stage = "draining"
  /\ Enters("unstable", "warming_up")
  /\ StoppedStepping /\ UNCHANGED count

BatchInjected ==
  /\ stage = "injecting" /\ ~Stepping
  /\ Enters("collecting", simState)
  /\ StoppedStepping /\ UNCHANGED count

BatchReceived ==
  /\ stage = "collecting" /\ ~FlitsLeft
  /\ count' = [count EXCEPT !.batch = @ + 1]
  /\ IF count.batch + 1 < Batches
     THEN /\ Enters("injecting", "running")
          /\ node' = [n \in Nodes |-> [node[n] EXCEPT !.issued = 0]]
     ELSE Enters("emptying", "draining") /\ UNCHANGED node
  /\ UNCHANGED <<config, packet, inFlight, port, net>>

\* How a simulation begins for a source: nothing is due any more from the one before.
Begun(n) ==
  [n EXCEPT !.qtime = [c \in Classes |-> 0], !.qdrained = [c \in Classes |-> FALSE],
            !.replies = <<>>, !.outstanding = 0, !.issued = 0]

Counters(sim) == [sim |-> sim, phases |-> 0, converged |-> 0, batch |-> 0]

Begin(kind) ==
  Enters(IF kind = "batch" THEN "injecting" ELSE "sampling", IF kind = "batch" THEN "running" ELSE "warming_up")

EndSim ==
  /\ stage = "emptying" /\ Empty
  /\ IF count.sim < config.sims
     THEN /\ Begin(config.kind)
          /\ count' = Counters(count.sim + 1)
          /\ node' = [n \in Nodes |-> Begun(node[n])]
     ELSE Enters("done", simState) /\ UNCHANGED <<count, node>>
  /\ UNCHANGED <<config, packet, inFlight, port, net>>

Init ==
  /\ config \in Configs
  /\ stage = IF config.kind = "batch" THEN "injecting" ELSE "sampling"
  /\ simState = IF config.kind = "batch" THEN "running" ELSE "warming_up"
  /\ count = Counters(1)
  /\ packet = [p \in Pids |-> None]
  /\ node = [n \in Nodes |->
               [partial |-> [c \in Classes |-> <<>>], qtime |-> [c \in Classes |-> 0],
                qdrained |-> [c \in Classes |-> FALSE], replies |-> <<>>, outstanding |-> 0, issued |-> 0]]
  /\ inFlight = [total |-> [c \in Classes |-> {}], measured |-> [c \in Classes |-> {}],
                 retired |-> [c \in Classes |-> {}]]
  /\ port = [n \in Nodes |-> [s \in Subnets |->
               [taken |-> [v \in VCs |-> FALSE], tailSent |-> [v \in VCs |-> FALSE],
                occupancy |-> [v \in VCs |-> 0], lastClass |-> 0, lastVc |-> [c \in Classes |-> NoVc]]]]
  /\ net = [s \in Subnets |-> [n \in Nodes |-> [v \in VCs |-> <<>>]]]

Next == Step \/ EndPeriod \/ EndDrain \/ AbortDrain \/ BatchInjected \/ BatchReceived \/ EndSim

Spec == Init /\ [][Next]_vars

-----------------------------------------------------------------------------
(* What the traffic manager is for                                         *)

Queued  == UNION {UNION {ToSet(node[n].partial[c]) : c \in Classes} : n \in Nodes}
Sent    == UNION {ToSet(net[l[1]][l[2]][l[3]]) : l \in Lanes}

\* The books are right: a flit is counted as in flight, and as measured, from its generation
\* to its retirement, a retired head is kept exactly as long as its tail is to come, and a
\* source has as many requests outstanding as there are requests and replies on their way.
InFlight == Queued \cup Sent
Flying   == {f.pid : f \in InFlight}
DueTo(n) ==
  Cardinality({p \in Flying : IF packet[p].type \in Replies THEN packet[p].dest = n ELSE packet[p].src = n})
  + FoldFunctionOnSet(LAMBDA m, sum : sum + Len(SelectSeq(m.replies, LAMBDA r : r.source = n)), 0, node, Nodes)
BooksRight ==
  /\ \A c \in Classes :
       LET of == {f \in InFlight : Common(f).cl = c}
       IN /\ inFlight.total[c] = {Id(f) : f \in of}
          /\ inFlight.measured[c] = {Id(f) : f \in {f \in of : Common(f).record}}
          /\ inFlight.retired[c] = {f.pid : f \in of} \ {f.pid : f \in {f \in of : IsHead(f)}}
  /\ (config.rw \/ config.kind = "batch") => \A n \in Nodes : node[n].outstanding = DueTo(n)

\* A VC carries one packet after the other, and no more flits than its buffer takes.
PacketsWhole ==
  \A l \in Lanes :
    LET lane == net[l[1]][l[2]][l[3]]
    IN /\ \A i \in 1 .. Len(lane) - 1 :
            IF IsTail(lane[i]) THEN IsHead(lane[i + 1]) ELSE Id(lane[i + 1]) = <<lane[i].pid, lane[i].seq + 1>>
       /\ port[l[2]][l[1]].occupancy[l[3]] \in 0 .. VcBufSize

\* A simulation ends with an empty network, all VCs free and all credits at home.
Clean == InFlight = {} /\ \A l \in Lanes : ~port[l[2]][l[1]].taken[l[3]] /\ port[l[2]][l[1]].occupancy[l[3]] = 0
CleanStart == [][stage = "emptying" /\ stage' # "emptying" => Clean']_vars

\* Nothing is wedged: when the network is empty and every credit is back, a source that has
\* flits sends one into each subnetwork that they are for.
NothingWedged ==
  Sent = {} /\ ~CreditsLeft =>
    \A n \in Nodes, s \in Subnets :
      (\E c \in Classes : node[n].partial[c] # <<>> /\ Common(Head(node[n].partial[c])).sub = s)
        => Picked(port[n][s], Books, node[n].partial, s).class # NoClass

=============================================================================
