-------------------------------- MODULE Cosim -------------------------------
(***************************************************************************)
(* The co-simulation of RTL designs with BookSim.  The Verilog module      *)
(* rtl_interface calls BookSim over a socket, one request and one reply at *)
(* a time: in every clock cycle it injects flits, hands over the credits   *)
(* of the readers, collects those for the writers, ejects flits and then   *)
(* asks for a step.  BookSim (FeS2TrafficManager::_Step) reads its network *)
(* first, then serves requests until it is asked to step, answers that     *)
(* request, and only then does the work of the step, so that the RTL runs  *)
(* ahead of it until its next request.                                     *)
(*                                                                         *)
(* A request per node and VC that is repeated in a loop is one action: the *)
(* loop runs between two requests of another kind.  The queues that such a *)
(* loop fills or empties as a whole are kept by node: the order of flits   *)
(* of different nodes in them makes no difference.  The network is what    *)
(* CreditLink promises of its links: it keeps the flits of a packet in     *)
(* order and a VC for one packet at a time, ejects one flit per node and   *)
(* step, and returns each credit later, one per VC and step.               *)
(*                                                                         *)
(* Definitions marked "slip" are wrong on purpose: each is a plausible     *)
(* error in the definition that follows it, kept to show that a property   *)
(* notices it.                                                             *)
(***************************************************************************)
EXTENDS Integers, Sequences, FiniteSets

CONSTANTS
  N,            \* nodes of the network
  NumVCs,       \* virtual channels, "NUM_VC" and "num_vcs"
  AssignedVC,   \* ASSIGNED_VC of the noc_writer of each node
  DestsOf,      \* nodes that the design at each node sends to
  WriterDepth,  \* credits noc_writer starts with (10 in the code)
  VcBufSize,    \* config "vc_buf_size": BookSim's buffers, and its idea of a reader's
  ReaderDepth,  \* DEPTH_PER_VC of noc_reader
  ClockSpeedup, \* CLOCK_SPEEDUP: network steps per RTL cycle
  Storage,      \* entries of data_set, 2**STORAGE
  None,         \* NULL, no packet
  MayQuit,      \* whether the RTL simulation may end
  SamplePeriod, \* config "sample_period": steps between two looks at _sim_state
  MaxPackets,   \* bound: packets ever sent
  MaxFlits,     \* bound: flits of the longest packet
  MaxSent       \* bound: flits ever sent

\* noc_writer and fabric_port_out are built with depths that fit vc_buf_size.
ASSUME CosimAssumption ==
  /\ N \in Nat \ {0} /\ NumVCs \in Nat \ {0}
  /\ AssignedVC \in [0 .. N - 1 -> 0 .. NumVCs - 1]
  /\ DestsOf \in [0 .. N - 1 -> SUBSET (0 .. N - 1)]
  /\ WriterDepth \in 1 .. VcBufSize
  /\ VcBufSize \in 1 .. ReaderDepth
  /\ ClockSpeedup \in Nat \ {0}
  /\ MayQuit \in BOOLEAN
  /\ SamplePeriod \in Nat \ {0}
  /\ MaxPackets \in Nat

Nodes == 0 .. N - 1
VCs == 0 .. NumVCs - 1
Ports == Nodes \X VCs
Pids == 0 .. MaxPackets - 1

\* What rtl_interface keeps of a packet that is being sent, and a flit.
Packet == [pid : Nat, dest : Nodes, sent : Nat]
Flit == [pid : Nat, fid : Nat, src : Nodes, dest : Nodes, vc : VCs,
         head : BOOLEAN, tail : BOOLEAN]

ASSUME NoneAssumption == None \notin VCs /\ None \notin Packet /\ None \notin Flit

VARIABLES
  \* rtl_interface and the modules it connects
  pc,             \* where the clock edge is
  stepsLeft,      \* steps still to ask for in nextCycle
  writerCredits,  \* noc_writer's credit_count
  current,        \* packet each writer is sending, with its dest_table entry
  nextPid, nextFid,
  flitQueue,      \* flit_queue of booksim_interface.cpp, by node
  dataSet,        \* data_set: flits in the network
  readerOpen,     \* packet each reader VC is in the middle of
  held,           \* flits in each VC FIFO of noc_reader
  \* FeS2TrafficManager and FeS2Interface
  simPc,          \* "read", "serve" or "work", "end" when _SingleSim returns
  simDone,        \* _sim_state = done
  leftover,       \* when done: steps left in the sample period
  partial,        \* _request_buffer_flit and _partial_packets of each node
  inUse,          \* _buf_states: VC held
  occ, prevOcc,   \* OccupancyFor, _buffer_occupancy
  packetVc,       \* _current_packet_vc
  creditUp,       \* _credits_from_noc_to_rtl
  creditDown,     \* _credits_from_rtl_to_noc
  arrived,        \* flits[subnet]: read from the network in this step
  reply,          \* _reply_buffer_flit, by destination
  \* the network
  net,            \* flits of each packet, in order
  ejectCredits,   \* credits of each ejection VC
  ejectOpen       \* packet that holds each ejection VC

writerVars == <<writerCredits, current, nextPid, nextFid, flitQueue>>
readerVars == <<readerOpen, held>>
rtlVars == <<pc, stepsLeft, writerVars, dataSet, readerVars>>
sourceVars == <<partial, inUse, occ, prevOcc, packetVc>>
mailVars == <<creditUp, creditDown>>
netVars == <<net, ejectCredits, ejectOpen>>
simVars == <<simPc, simDone, leftover, sourceVars, mailVars, arrived, reply, netVars>>
vars == <<rtlVars, simVars>>

Init ==
  /\ pc = "queue" /\ stepsLeft = 0
  /\ writerCredits = [p \in Ports |-> WriterDepth]
  /\ current = [n \in Nodes |-> None]
  /\ nextPid = 0 /\ nextFid = 0
  /\ flitQueue = [n \in Nodes |-> <<>>] /\ dataSet = {}
  /\ readerOpen = [p \in Ports |-> None]
  /\ held = [p \in Ports |-> 0]
  /\ simPc = "read" /\ simDone = FALSE /\ leftover = 0
  /\ partial = [n \in Nodes |-> <<>>]
  /\ inUse = [p \in Ports |-> FALSE]
  /\ occ = [p \in Ports |-> 0] /\ prevOcc = [p \in Ports |-> 0]
  /\ packetVc = [k \in Pids |-> None]
  /\ creditUp = [p \in Ports |-> FALSE] /\ creditDown = [p \in Ports |-> FALSE]
  /\ arrived = [n \in Nodes |-> None]
  /\ reply = [n \in Nodes |-> <<>>]
  /\ net = [k \in Pids |-> <<>>]
  /\ ejectCredits = [p \in Ports |-> VcBufSize]
  /\ ejectOpen = [p \in Ports |-> None]

-----------------------------------------------------------------------------
(* The RTL side of a clock cycle.                                          *)

\* What the designs may put on the input of a node in a cycle: the next flit of
\* the packet begun, or the first of one to dest; it is the tail if last.
Offers == [dest : Nodes, last : BOOLEAN]

\* The nodes with a valid offer, and those of them that begin a packet.
Offering(d) == {n \in Nodes : d[n] # None}
Beginning(d) == {n \in Offering(d) : current[n] = None}

\* The loop runs over the nodes in ascending order.
Before(S, n) == Cardinality({m \in S : m < n})

\* The packet that the flit offered at node n belongs to.
PacketOf(d, n) ==
  IF current[n] = None
  THEN [pid |-> nextPid + Before(Beginning(d), n), dest |-> d[n].dest, sent |-> 0]
  ELSE current[n]

\* The flit queued for node n: what queueFlit puts in the request.
FlitOf(d, n) ==
  [pid |-> PacketOf(d, n).pid, fid |-> nextFid + Before(Offering(d), n), src |-> n,
   dest |-> PacketOf(d, n).dest, vc |-> AssignedVC[n],
   head |-> current[n] = None, tail |-> d[n].last]

\* The nodes whose flit finds a free entry of data_set.
Storing(d) == {n \in Offering(d) : Cardinality(dataSet) + Before(Offering(d), n) < Storage}

\* The first loop: a flit is queued for every node n with a valid offer d[n].  Its
\* writer has a credit: noc_writer stops reading at a count of one, when the flit
\* it read in the cycle before may still take the last credit.
Queue(d) ==
  /\ pc = "queue"
  /\ \A n \in Offering(d) : /\ writerCredits[<<n, AssignedVC[n]>>] > 0
                            /\ PacketOf(d, n).dest \in DestsOf[n]
                            /\ PacketOf(d, n).sent + 1 = MaxFlits => d[n].last
  /\ nextPid + Cardinality(Beginning(d)) <= MaxPackets
  /\ nextFid + Cardinality(Offering(d)) <= MaxSent
  /\ pc' = "inject"
  /\ writerCredits' = [p \in Ports |-> IF p[1] \in Offering(d) /\ p[2] = AssignedVC[p[1]]
                                       THEN writerCredits[p] - 1 ELSE writerCredits[p]]
  /\ current' = [n \in Nodes |-> IF n \notin Offering(d) THEN current[n]
                                 ELSE IF d[n].last THEN None
                                 ELSE [PacketOf(d, n) EXCEPT !.sent = @ + 1]]
  /\ nextPid' = nextPid + Cardinality(Beginning(d))
  /\ nextFid' = nextFid + Cardinality(Offering(d))
  /\ flitQueue' = [n \in Nodes |-> IF n \in Offering(d) THEN Append(flitQueue[n], FlitOf(d, n))
                                   ELSE flitQueue[n]]
  /\ dataSet' = dataSet \cup {FlitOf(d, n) : n \in Storing(d)}
  /\ UNCHANGED <<stepsLeft, readerVars, simVars>>

\* BookSim answers requests only inside FeS2Interface::Step.
Serving == simPc = "serve"

\* The flits node n has to send.  _Inject, in the next step, makes them flits of the
\* network with the identifiers, the VC and the head and tail marks of the RTL.
RequestBuffer(n) == partial[n] \o flitQueue[n]

\* inject(): every queued flit.
Inject ==
  /\ pc = "inject" /\ Serving
  /\ pc' = "give"
  /\ flitQueue' = [n \in Nodes |-> <<>>]
  /\ partial' = [n \in Nodes |-> RequestBuffer(n)]
  /\ UNCHANGED <<stepsLeft, writerCredits, current, nextPid, nextFid, dataSet, readerVars,
                 simPc, simDone, leftover, inUse, occ, prevOcc, packetVc, mailVars, arrived, reply, netVars>>

Holding == {p \in Ports : held[p] > 0}

\* CREDITS_DOWN_REQ: the mailbox of port p when the ports of S got a credit.
PutDown(p, S) == creditDown[p] \/ p \in S

\* send_credit for every port: the readers forward a flit from each FIFO of S.
GiveCredits(S) ==
  /\ pc = "give" /\ Serving
  /\ S \subseteq Holding
  /\ pc' = "take"
  /\ held' = [p \in Ports |-> IF p \in S THEN held[p] - 1 ELSE held[p]]
  /\ creditDown' = [p \in Ports |-> PutDown(p, S)]
  /\ UNCHANGED <<stepsLeft, writerVars, dataSet, readerOpen,
                 simPc, simDone, leftover, sourceVars, creditUp, arrived, reply, netVars>>

\* slip: a credit that is reported stays in the mailbox.
StaysUp(p) == creditUp[p]

\* DequeueCreditFromNoc clears the flag it reports: nothing stays.
Stays(p) == FALSE

\* CREDITS_UP_REQ: what the writer of port p is told.
TakenUp(p) == IF creditUp[p] THEN 1 ELSE 0

\* receive_credit for every port: the request takes the credit away.
TakeCredits ==
  /\ pc = "take" /\ Serving
  /\ pc' = "eject"
  /\ writerCredits' = [p \in Ports |-> writerCredits[p] + TakenUp(p)]
  /\ creditUp' = [p \in Ports |-> Stays(p)]
  /\ UNCHANGED <<stepsLeft, current, nextPid, nextFid, flitQueue, dataSet, readerVars,
                 simPc, simDone, leftover, sourceVars, creditDown, arrived, reply, netVars>>

\* slip: one port in each cycle.
OnePort == [n \in Nodes |-> IF \E m \in Nodes : m < n /\ reply[m] # <<>> THEN <<>> ELSE reply[n]]

\* The replies the eject loop takes: until none is left.
Ejected == reply

\* EJECT_REQ_FLIT: the replies that stay in the queue.
Remaining == [n \in Nodes |-> SubSeq(reply[n], Len(Ejected[n]) + 1, Len(reply[n]))]

\* slip: the VC is that of the data kept by the RTL, the one of injection.
FlitOutOnOwnVc(n) ==
  IF Ejected[n] = <<>> THEN None
  ELSE LET f == Ejected[n][Len(Ejected[n])] IN [f EXCEPT !.vc = AssignedVC[f.src]]

\* What o_flit_out[n] holds after the eject loop: the last reply for the node,
\* on the VC the network chose.
FlitOut(n) == IF Ejected[n] = <<>> THEN None ELSE Ejected[n][Len(Ejected[n])]

\* slip: data_set searched for the packet.
MatchesPacket(e, f) == e.pid = f.pid

\* The data_set entry of a reply.
Matches(e, f) == e.fid = f.fid

\* The eject loop.  A reply is looked up in data_set; the flit leaves by the port
\* recorded there.
EjectAll ==
  LET On(p) == FlitOut(p[1]) # None /\ FlitOut(p[1]).vc = p[2]
  IN /\ pc = "eject" /\ Serving
     /\ pc' = "step" /\ stepsLeft' = ClockSpeedup
     /\ reply' = Remaining
     /\ dataSet' = {e \in dataSet : \A n \in Nodes : \A i \in 1 .. Len(Ejected[n]) :
                                     ~Matches(e, Ejected[n][i])}
     /\ held' = [p \in Ports |-> IF On(p) THEN held[p] + 1 ELSE held[p]]
     /\ readerOpen' = [p \in Ports |->
                         IF ~On(p) THEN readerOpen[p]
                         ELSE IF FlitOut(p[1]).tail THEN None ELSE FlitOut(p[1]).pid]
     /\ UNCHANGED <<writerVars, simPc, simDone, leftover, sourceVars, mailVars, arrived, netVars>>

\* STEP_REQ: BookSim answers first and works afterwards.
RequestStep ==
  /\ pc = "step" /\ Serving
  /\ stepsLeft' = stepsLeft - 1
  /\ pc' = IF stepsLeft = 1 THEN "queue" ELSE "step"
  /\ simPc' = "work"
  /\ UNCHANGED <<writerVars, dataSet, readerVars,
                 simDone, leftover, sourceVars, mailVars, arrived, reply, netVars>>

\* exitSocket: BookSim stops serving, but not in the middle of a sample period.
Quit ==
  /\ MayQuit
  /\ pc = "queue" /\ Serving
  /\ pc' = "off"
  /\ simPc' = "work" /\ simDone' = TRUE
  /\ leftover' \in 0 .. SamplePeriod - 1
  /\ UNCHANGED <<stepsLeft, writerVars, dataSet, readerVars,
                 sourceVars, mailVars, arrived, reply, netVars>>

-----------------------------------------------------------------------------
(* The BookSim side: _Step before and after FeS2Interface::Step.           *)

\* The packet and VC on which node n may eject a flit.
MayEject(n, k, v) ==
  /\ net[k] # <<>> /\ Head(net[k]).dest = n
  /\ ejectCredits[<<n, v>>] > 0
  /\ ejectOpen[<<n, v>>] = IF Head(net[k]).head THEN None ELSE k

Occupied == {p \in Ports : occ[p] > 0}

\* ReadFlit and ReadCredit of every node: node n ejects as a[n] says, <<packet,
\* VC>>, and the VCs of C get a credit back.
SimRead(a, C) ==
  /\ simPc = "read"
  /\ \A n \in Nodes : a[n] # None => MayEject(n, a[n][1], a[n][2])
  /\ C \subseteq Occupied
  /\ arrived' = [n \in Nodes |-> IF a[n] = None THEN None
                                 ELSE [Head(net[a[n][1]]) EXCEPT !.vc = a[n][2]]]
  /\ net' = [k \in Pids |-> IF \E n \in Nodes : a[n] # None /\ a[n][1] = k
                            THEN Tail(net[k]) ELSE net[k]]
  /\ ejectCredits' = [p \in Ports |->
                        IF a[p[1]] # None /\ a[p[1]][2] = p[2] THEN ejectCredits[p] - 1 ELSE ejectCredits[p]]
  /\ ejectOpen' = [p \in Ports |->
                     IF a[p[1]] # None /\ a[p[1]][2] = p[2]
                     THEN (IF Head(net[a[p[1]][1]]).tail THEN None ELSE a[p[1]][1])
                     ELSE ejectOpen[p]]
  /\ occ' = [p \in Ports |-> IF p \in C THEN occ[p] - 1 ELSE occ[p]]
  /\ simPc' = IF simDone THEN "work" ELSE "serve"
  /\ UNCHANGED <<rtlVars, simDone, leftover, partial, inUse, prevOcc, packetVc, mailVars, reply>>

\* The VC of the flit in front: the one the RTL chose for a head, the one
\* recorded for the packet otherwise.
FrontVc(n) ==
  IF Head(partial[n]).head THEN Head(partial[n]).vc ELSE packetVc[Head(partial[n]).pid]

Sends(n) == partial[n] # <<>> /\ occ[<<n, FrontVc(n)>>] < VcBufSize

\* The node, if any, that sends a flit of packet k.
Sources(k) == {n \in Nodes : Sends(n) /\ Head(partial[n]).pid = k}

SendsOn(p) == Sends(p[1]) /\ FrontVc(p[1]) = p[2]

\* slip: the credit is not noticed in a step that also sends on the VC.
ReturnsIfLower(p) ==
  (IF SendsOn(p) THEN occ[p] + 1 ELSE occ[p]) < prevOcc[p]

\* slip: nor is it distinguished from a step without one.
ReturnsIfNotHigher(p) ==
  (IF SendsOn(p) THEN occ[p] + 1 ELSE occ[p]) <= prevOcc[p]

\* A credit came back if the VC's count fell, or stayed although a flit was sent.
ReturnsCredit(p) ==
  LET now == IF SendsOn(p) THEN occ[p] + 1 ELSE occ[p]
  IN now < prevOcc[p] \/ (SendsOn(p) /\ now = prevOcc[p])

\* slip: the ejection credit is returned with the flit, as TrafficManager does.
FreedAtOnce(p) ==
  creditDown[p] \/ (arrived[p[1]] # None /\ arrived[p[1]].vc = p[2])

\* slip: the credits of a node are written only if its last VC has one.
FreedByLastVC(p) == creditDown[p] /\ creditDown[<<p[1], NumVCs - 1>>]

\* DequeueCreditFromRtl: the network gets a credit only from the reader.
Freed(p) == creditDown[p]

\* _RetireFlit for every flit read: one reply each, with the RTL's identifiers.
Replies == [n \in Nodes |-> IF arrived[n] = None THEN reply[n] ELSE Append(reply[n], arrived[n])]

\* _SingleSim, which runs whole sample periods of steps while _sim_state is not
\* done; the sim_type is "fes2", so that no latency ends it earlier.
AfterStep == IF simDone /\ leftover = 0 THEN "end" ELSE "read"

SimWork ==
  /\ simPc = "work"
  /\ partial' = [n \in Nodes |-> IF Sends(n) THEN Tail(partial[n]) ELSE partial[n]]
  /\ inUse' = [p \in Ports |-> IF SendsOn(p) THEN ~Head(partial[p[1]]).tail ELSE inUse[p]]
  /\ occ' = [p \in Ports |-> IF SendsOn(p) THEN occ[p] + 1 ELSE occ[p]]
  /\ prevOcc' = occ'
  /\ packetVc' = [k \in Pids |-> IF packetVc[k] = None /\ Sources(k) # {}
                                 THEN FrontVc(CHOOSE n \in Sources(k) : TRUE) ELSE packetVc[k]]
  /\ net' = [k \in Pids |-> IF Sources(k) # {}
                            THEN Append(net[k], Head(partial[CHOOSE n \in Sources(k) : TRUE]))
                            ELSE net[k]]
  /\ creditUp' = [p \in Ports |-> creditUp[p] \/ ReturnsCredit(p)]
  /\ ejectCredits' = [p \in Ports |-> IF Freed(p) THEN ejectCredits[p] + 1 ELSE ejectCredits[p]]
  /\ creditDown' = [p \in Ports |-> FALSE]
  /\ reply' = Replies
  /\ arrived' = [n \in Nodes |-> None]
  /\ simPc' = AfterStep
  /\ leftover' = IF simDone /\ leftover > 0 THEN leftover - 1 ELSE leftover
  /\ UNCHANGED <<rtlVars, simDone, ejectOpen>>

Arrivals == [Nodes -> (Pids \X VCs) \cup {None}]

Next ==
  \/ \E d \in [Nodes -> Offers \cup {None}] : Queue(d)
  \/ Inject
  \/ \E S \in SUBSET Holding : GiveCredits(S)
  \/ TakeCredits
  \/ EjectAll
  \/ RequestStep
  \/ Quit
  \/ \E a \in Arrivals, C \in SUBSET Occupied : SimRead(a, C)
  \/ SimWork

Spec == Init /\ [][Next]_vars

\* Both programs run on; a design completes the packets it began, when its writer
\* has the two credits that make it read, and its readers forward what they hold;
\* the network delivers and returns credits.
Fairness ==
  /\ WF_vars(Next)
  /\ \A n \in Nodes :
       SF_vars(/\ current[n] # None /\ writerCredits[<<n, AssignedVC[n]>>] > 1
               /\ \E d \in [Nodes -> Offers \cup {None}] : d[n] # None /\ Queue(d))
  /\ \A p \in Ports :
       /\ SF_vars(\E S \in SUBSET Holding : p \in S /\ GiveCredits(S))
       /\ SF_vars(\E a \in Arrivals, C \in SUBSET Occupied : p \in C /\ SimRead(a, C))
  /\ \A k \in Pids :
       SF_vars(\E a \in Arrivals, C \in SUBSET Occupied :
                 /\ \E n \in Nodes : a[n] # None /\ a[n][1] = k
                 /\ SimRead(a, C))

FairSpec == Spec /\ Fairness

-----------------------------------------------------------------------------
\* Nothing overwrites what the other side has not taken.  The mailboxes of credits are empty
\* when a credit is put there: the assertions of EnqueueCreditFromNoc and EnqueueCreditFromRtl,
\* "we must read the credits every cycle", never fail while the RTL runs.  Two replies never
\* meet in one o_flit_out.
NothingOverwritten ==
  /\ simPc = "work" /\ ~simDone => \A p \in Ports : ~(creditUp[p] /\ ReturnsCredit(p))
  /\ pc = "give" /\ Serving => \A p \in Ports : ~creditDown[p]
  /\ pc = "eject" => \A n \in Nodes : Len(reply[n]) <= 1

\* What the RTL injects BookSim can send in the same step: the VC the RTL chose
\* for a head is neither held nor full (the assertions of _Step), the VC of the
\* packet is known and not full for the rest, and no flit is left for the next step.
InjectionAdmitted ==
  /\ simPc = "work" => \A n \in Nodes :
       partial[n] # <<>> =>
         LET v == FrontVc(n)
         IN /\ v \in VCs
            /\ Head(partial[n]).head => ~inUse[<<n, v>>]
            /\ occ[<<n, v>>] < VcBufSize
  /\ simPc = "read" => \A n \in Nodes : partial[n] = <<>>

\* The flits of a queue that are on VC v.
CountOn(q, v) == Cardinality({i \in 1 .. Len(q) : q[i].vc = v})

\* The writer's count and the credits BookSim has not given back make up what the
\* writer started with: a credit is neither lost nor invented between the two
\* programs, whichever of them is ahead, until the RTL ends.
WriterCredits(p) ==
  writerCredits[p] + CountOn(flitQueue[p[1]], p[2]) + CountOn(partial[p[1]], p[2])
    + prevOcc[p] + TakenUp(p)

\* The network's ejection credits and the flits between network and reader make
\* up vc_buf_size, so that a reader built for vc_buf_size flits never overflows.
EjectCredits(p) ==
  LET arriving == IF arrived[p[1]] # None /\ arrived[p[1]].vc = p[2] THEN 1 ELSE 0
  IN ejectCredits[p] + arriving + CountOn(reply[p[1]], p[2]) + held[p] + (IF creditDown[p] THEN 1 ELSE 0)

\* Credits are conserved in both directions.
CreditsAccounted ==
  \A p \in Ports : (~simDone => WriterCredits(p) = WriterDepth) /\ EjectCredits(p) = VcBufSize

InBookSim ==
  LET In(q) == {q[i] : i \in 1 .. Len(q)}
  IN (UNION {In(net[k]) : k \in Pids})
       \cup (UNION {In(partial[n]) \cup In(reply[n]) : n \in Nodes})
       \cup ({arrived[n] : n \in Nodes} \ {None})

\* Every flit BookSim has will find its data: data_set holds an entry for it,
\* with the destination the network takes it to.
DataFound ==
  \A f \in InBookSim : \E e \in dataSet : e.fid = f.fid /\ e.pid = f.pid /\ e.dest = f.dest

\* A reader sees the flits of a packet in order and on one VC, with no flit of
\* another packet between them on that VC.
PacketsArriveWhole ==
  pc = "eject" => \A n \in Nodes :
    LET f == FlitOut(n)
    IN f # None =>
         /\ readerOpen[<<n, f.vc>>] = IF f.head THEN None ELSE f.pid
         /\ \A e \in dataSet : e.pid = f.pid => f.fid <= e.fid

\* EnqueueCreditFromNoc's comment, of the whole run: no credit is put into a
\* mailbox that still holds one.
CreditsReadEveryCycle ==
  simPc = "work" => \A p \in Ports : ~(creditUp[p] /\ ReturnsCredit(p))

Finished(k) ==
  /\ \A n \in Nodes : current[n] = None \/ current[n].pid # k
  /\ \A e \in dataSet : e.pid # k

\* Every packet that a design begins is delivered to its last flit: its writer
\* gets the credits it needs, whatever else is in the network.
EveryPacketDelivered ==
  \A k \in Pids : nextPid > k ~> (nextPid > k /\ Finished(k))

=============================================================================
