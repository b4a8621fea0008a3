----------------------------- MODULE CosimProofs -----------------------------
(***************************************************************************)
(* Proofs about Cosim for every number of nodes and VCs, every depth of    *)
(* the buffers and any traffic.  The designs take one network step per     *)
(* clock cycle, as CLOCK_SPEEDUP has it in rtl_interface: OneStep.         *)
(***************************************************************************)
EXTENDS Cosim, FiniteSetTheorems, TLAPS

OneStep == ClockSpeedup = 1

-----------------------------------------------------------------------------
(* The inductive invariant.                                                *)

TypeOK ==
  /\ pc \in {"queue", "inject", "give", "take", "eject", "step", "off"}
  /\ simPc \in {"read", "serve", "work", "end"}
  /\ stepsLeft \in Int /\ simDone \in BOOLEAN
  /\ writerCredits \in [Ports -> Nat] /\ held \in [Ports -> Nat]
  /\ occ \in [Ports -> Nat] /\ prevOcc \in [Ports -> Nat] /\ ejectCredits \in [Ports -> Nat]
  /\ inUse \in [Ports -> BOOLEAN]
  /\ creditUp \in [Ports -> BOOLEAN] /\ creditDown \in [Ports -> BOOLEAN]
  /\ current \in [Nodes -> Packet \cup {None}] /\ nextPid \in Nat /\ nextFid \in Nat
  /\ flitQueue \in [Nodes -> Seq(Flit)] /\ partial \in [Nodes -> Seq(Flit)]
  /\ reply \in [Nodes -> Seq(Flit)] /\ net \in [Pids -> Seq(Flit)]
  /\ arrived \in [Nodes -> Flit \cup {None}]
  /\ packetVc \in [Pids -> VCs \cup {None}]

\* Which program is where: BookSim serves from the RTL's first request of a cycle
\* to its last, and only the RTL's exit ends that.
Turns ==
  /\ pc = "step" => stepsLeft = 1
  /\ pc \in {"give", "take", "eject", "step"} => simPc = "serve"
  /\ simDone <=> pc = "off"
  /\ simPc = "serve" => ~simDone
  /\ simPc = "end" => simDone

\* A mailbox or queue is filled in one phase and emptied before the next filling.
Mail ==
  /\ \A p \in Ports :
       /\ creditUp[p] /\ ~simDone =>
            simPc \in {"read", "serve"} /\ pc \in {"queue", "inject", "give", "take"}
       /\ creditDown[p] => simPc = "work" \/ pc \in {"take", "eject", "step"}
  /\ \A n \in Nodes :
       /\ reply[n] # <<>> /\ ~simDone =>
            /\ simPc \in {"read", "serve"}
            /\ pc \in {"queue", "inject", "give", "take", "eject"}
            /\ Len(reply[n]) = 1
       /\ arrived[n] # None => simPc \in {"serve", "work"}

\* BookSim's count of a VC and the one of the step before.
Counts ==
  \A p \in Ports : IF simPc \in {"serve", "work"}
                   THEN occ[p] <= prevOcc[p] /\ prevOcc[p] <= occ[p] + 1
                   ELSE occ[p] = prevOcc[p]

\* Whether the VC of node n is in a packet: now, after the flit BookSim has to
\* send, and after the flit the RTL has queued.
Open(n) == inUse[<<n, AssignedVC[n]>>]
AfterPartial(n) == IF partial[n] = <<>> THEN Open(n) ELSE ~partial[n][1].tail
AfterQueue(n) == IF flitQueue[n] = <<>> THEN AfterPartial(n) ELSE ~flitQueue[n][1].tail

\* At most one flit of a node is under way in each program, on the VC of its
\* writer; heads and tails alternate all the way from BookSim to the writer.
Lane(n) ==
  /\ flitQueue[n] # <<>> =>
       /\ pc = "inject" /\ Len(flitQueue[n]) = 1
       /\ flitQueue[n][1].vc = AssignedVC[n]
       /\ (flitQueue[n][1].head <=> ~AfterPartial(n))
  /\ partial[n] # <<>> =>
       /\ ~simDone
       /\ simPc = "work" \/ pc \in {"give", "take", "eject", "step"}
       /\ Len(partial[n]) = 1
       /\ partial[n][1].vc = AssignedVC[n]
       /\ (partial[n][1].head <=> ~Open(n))
  /\ (current[n] # None <=> AfterQueue(n))

Lanes == \A n \in Nodes : Lane(n)

\* BookSim knows the VC of packet k, or learns it from the flit node n has to send.
Known(n, k) ==
  packetVc[k] = AssignedVC[n] \/ (partial[n] # <<>> /\ partial[n][1].pid = k)

\* The VC of a packet is known when a later flit of the packet needs it.
VcsKnown ==
  \A n \in Nodes :
    /\ partial[n] # <<>> =>
         \/ packetVc[partial[n][1].pid] = AssignedVC[n]
         \/ partial[n][1].head /\ packetVc[partial[n][1].pid] = None
    /\ flitQueue[n] # <<>> =>
         \/ Known(n, flitQueue[n][1].pid)
         \/ flitQueue[n][1].head /\ packetVc[flitQueue[n][1].pid] = None
    /\ current[n] # None =>
         \/ Known(n, current[n].pid)
         \/ flitQueue[n] # <<>> /\ flitQueue[n][1].pid = current[n].pid

\* Node n is at work on packet k.
At(n, k) ==
  \/ current[n] # None /\ current[n].pid = k
  \/ flitQueue[n] # <<>> /\ flitQueue[n][1].pid = k
  \/ partial[n] # <<>> /\ partial[n][1].pid = k

\* A packet is of one node, and new identifiers are unused.
PidsOnce ==
  /\ nextPid <= MaxPackets
  /\ \A n \in Nodes, k \in Nat : At(n, k) => k < nextPid
  /\ \A m, n \in Nodes, k \in Nat : At(m, k) /\ At(n, k) => m = n
  /\ \A k \in Pids : packetVc[k] # None => k < nextPid

-----------------------------------------------------------------------------
(* Ports, queues and the flits that are queued.                            *)

LEMMA PortParts ==
  ASSUME NEW p \in Ports
  PROVE  p[1] \in Nodes /\ p[2] \in VCs /\ p = <<p[1], p[2]>>
  BY DEF Ports

LEMMA LanePort ==
  ASSUME NEW n \in Nodes
  PROVE  AssignedVC[n] \in VCs /\ <<n, AssignedVC[n]>> \in Ports
  BY CosimAssumption DEF Ports, Nodes, VCs

LEMMA EmptyQueue ==
  ASSUME NEW T, NEW q \in Seq(T)
  PROVE  Len(q) \in Nat /\ (Len(q) = 0 <=> q = <<>>)
  OBVIOUS

LEMMA EmptyBefore ==
  ASSUME NEW q \in Seq(Flit)
  PROVE  <<>> \o q = q
  OBVIOUS

\* Nothing is left of a queue that is taken as a whole.
LEMMA NothingLeft ==
  ASSUME NEW q \in Seq(Flit)
  PROVE  SubSeq(q, Len(q) + 1, Len(q)) = <<>>
<1>1. Len(q) \in Nat
  OBVIOUS
<1>2. SubSeq(q, Len(q) + 1, Len(q)) = [i \in 1 .. (1 + Len(q) - (Len(q) + 1)) |-> q[(Len(q) + 1) + i - 1]]
  BY <1>1, SMT
<1> QED BY <1>1, <1>2

\* A queue with one flit.
LEMMA Single ==
  ASSUME NEW q \in Seq(Flit), Len(q) = 1
  PROVE  /\ q # <<>> /\ q[1] \in Flit
         /\ Head(q) = q[1] /\ Tail(q) = <<>>
<1>1. q # <<>> /\ q[1] \in Flit /\ Head(q) = q[1]
  OBVIOUS
<1>2. Tail(q) \in Seq(Flit) /\ Len(Tail(q)) = 0
  BY <1>1
<1>3. Tail(q) = <<>>
  BY <1>2, EmptyQueue
<1> QED BY <1>1, <1>3

LEMMA Shorter ==
  ASSUME NEW q \in Seq(Flit), q # <<>>
  PROVE  Head(q) \in Flit /\ Tail(q) \in Seq(Flit) /\ Len(q) \in Nat \ {0}
  OBVIOUS

\* Numbers are given to the nodes of S in ascending order.
LEMMA Numbered ==
  ASSUME NEW S \in SUBSET Nodes
  PROVE  /\ Cardinality(S) \in Nat
         /\ \A n \in Nodes : Before(S, n) \in Nat
         /\ \A n \in S : Before(S, n) < Cardinality(S)
         /\ \A m \in S, n \in S : m < n => Before(S, m) < Before(S, n)
<1>1. IsFiniteSet(S)
  <2>1. N - 1 \in Int
    BY CosimAssumption
  <2>2. IsFiniteSet(Nodes)
    BY <2>1, FS_Interval DEF Nodes
  <2> QED BY <2>2, FS_Subset
<1>2. \A n \in Nodes : IsFiniteSet({m \in S : m < n}) /\ Cardinality({m \in S : m < n}) \in Nat
  <2> SUFFICES ASSUME NEW n \in Nodes
               PROVE  IsFiniteSet({m \in S : m < n}) /\ Cardinality({m \in S : m < n}) \in Nat
    OBVIOUS
  <2>1. {m \in S : m < n} \subseteq S
    OBVIOUS
  <2> QED BY <1>1, <2>1, FS_Subset, FS_CardinalityType
<1>3. ASSUME NEW T \in SUBSET S, NEW x \in S, x \notin T
      PROVE  Cardinality(T) < Cardinality(S)
  <2>1. /\ IsFiniteSet(T) /\ Cardinality(T) <= Cardinality(S)
        /\ Cardinality(T) = Cardinality(S) => S = T
    BY <1>1, FS_Subset
  <2>2. Cardinality(T) \in Nat /\ Cardinality(S) \in Nat
    BY <1>1, <2>1, FS_CardinalityType
  <2> QED BY <1>3, <2>1, <2>2
<1>4. \A n \in S : Before(S, n) < Cardinality(S)
  <2> SUFFICES ASSUME NEW n \in S PROVE Before(S, n) < Cardinality(S)
    OBVIOUS
  <2>1. {m \in S : m < n} \subseteq S /\ n \notin {m \in S : m < n}
    BY DEF Nodes
  <2> QED BY <1>3, <2>1 DEF Before
<1>5. \A m \in S, n \in S : m < n => Before(S, m) < Before(S, n)
  <2> SUFFICES ASSUME NEW m \in S, NEW n \in S, m < n PROVE Before(S, m) < Before(S, n)
    OBVIOUS
  <2> DEFINE A == {i \in S : i < m}
             B == {i \in S : i < n}
  <2>1. A \subseteq B /\ m \in B /\ m \notin A
    <3>1. \A i \in S : i \in Int
      BY CosimAssumption DEF Nodes
    <3> QED BY <3>1
  <2>2. IsFiniteSet(B) /\ Cardinality(A) \in Nat /\ Cardinality(B) \in Nat
    BY <1>2
  <2>3. Cardinality(A) <= Cardinality(B) /\ (Cardinality(A) = Cardinality(B) => B = A)
    <3> HIDE DEF A, B
    <3> QED BY <2>1, <2>2, FS_Subset
  <2>4. Cardinality(A) < Cardinality(B)
    <3> HIDE DEF A, B
    <3> QED BY <2>1, <2>2, <2>3
  <2> QED BY <2>4 DEF Before
<1> QED BY <1>1, <1>2, <1>4, <1>5, FS_CardinalityType DEF Before

\* What the loop over the nodes makes of an offer.
LEMMA QueuedTypes ==
  ASSUME TypeOK, NEW d \in [Nodes -> Offers \cup {None}], NEW n \in Offering(d)
  PROVE  /\ n \in Nodes /\ d[n] \in Offers /\ d[n].last \in BOOLEAN
         /\ PacketOf(d, n) \in Packet
         /\ FlitOf(d, n) \in Flit
<1>1. n \in Nodes /\ d[n] \in Offers /\ d[n].dest \in Nodes /\ d[n].last \in BOOLEAN
  BY DEF Offering, Offers
<1>2. Before(Beginning(d), n) \in Nat /\ Before(Offering(d), n) \in Nat
  <2>1. Beginning(d) \in SUBSET Nodes /\ Offering(d) \in SUBSET Nodes
    BY DEF Beginning, Offering
  <2> QED BY <1>1, <2>1, Numbered
<1>3. PacketOf(d, n) \in Packet
  BY <1>1, <1>2, CosimAssumption DEF PacketOf, Packet, TypeOK
<1>4. PacketOf(d, n).pid \in Nat /\ PacketOf(d, n).dest \in Nodes
  BY <1>3 DEF Packet
<1>5. AssignedVC[n] \in VCs
  BY <1>1, LanePort
<1>6. nextFid \in Nat /\ nextFid + Before(Offering(d), n) \in Nat
  <2>1. nextFid \in Nat
    BY DEF TypeOK
  <2> QED BY <1>2, <2>1
<1>7. FlitOf(d, n) \in Flit
  BY <1>1, <1>4, <1>5, <1>6 DEF FlitOf, Flit
<1> QED BY <1>1, <1>3, <1>7

-----------------------------------------------------------------------------
(* Types.                                                                  *)

LEMMA TypeInit == ASSUME Init PROVE TypeOK
<1>1. VcBufSize \in Nat /\ WriterDepth \in Nat
  BY CosimAssumption
<1>2. <<>> \in Seq(Flit)
  OBVIOUS
<1>3. /\ flitQueue \in [Nodes -> Seq(Flit)] /\ partial \in [Nodes -> Seq(Flit)]
      /\ reply \in [Nodes -> Seq(Flit)] /\ net \in [Pids -> Seq(Flit)]
  BY <1>2 DEF Init
<1>4. /\ writerCredits \in [Ports -> Nat] /\ held \in [Ports -> Nat]
      /\ occ \in [Ports -> Nat] /\ prevOcc \in [Ports -> Nat] /\ ejectCredits \in [Ports -> Nat]
  BY <1>1 DEF Init
<1>5. /\ inUse \in [Ports -> BOOLEAN]
      /\ creditUp \in [Ports -> BOOLEAN] /\ creditDown \in [Ports -> BOOLEAN]
      /\ current \in [Nodes -> Packet \cup {None}] /\ arrived \in [Nodes -> Flit \cup {None}]
      /\ packetVc \in [Pids -> VCs \cup {None}]
  BY DEF Init
<1>6. stepsLeft \in Int /\ nextPid \in Nat /\ nextFid \in Nat
  BY DEF Init
<1>7. pc = "queue" /\ simPc = "read" /\ simDone \in BOOLEAN
  BY DEF Init
<1> QED BY <1>3, <1>4, <1>5, <1>6, <1>7 DEF TypeOK

LEMMA TypeQueue ==
  ASSUME TypeOK, NEW d \in [Nodes -> Offers \cup {None}], Queue(d)
  PROVE  TypeOK'
<1>1. writerCredits' \in [Ports -> Nat]
  <2> SUFFICES ASSUME NEW p \in Ports
               PROVE  (IF p[1] \in Offering(d) /\ p[2] = AssignedVC[p[1]]
                       THEN writerCredits[p] - 1 ELSE writerCredits[p]) \in Nat
    BY DEF Queue
  <2>1. writerCredits[p] \in Nat
    BY DEF TypeOK
  <2>2. p[1] \in Offering(d) /\ p[2] = AssignedVC[p[1]] => writerCredits[p] > 0
    BY PortParts DEF Queue
  <2> QED BY <2>1, <2>2
<1>2. current' \in [Nodes -> Packet \cup {None}]
  <2> SUFFICES ASSUME NEW n \in Nodes, n \in Offering(d)
               PROVE  [PacketOf(d, n) EXCEPT !.sent = @ + 1] \in Packet
    BY DEF Queue, TypeOK
  <2>1. PacketOf(d, n) \in Packet
    BY QueuedTypes
  <2> QED BY <2>1 DEF Packet
<1>3. nextPid' \in Nat /\ nextFid' \in Nat
  <2>1. Beginning(d) \in SUBSET Nodes /\ Offering(d) \in SUBSET Nodes
    BY DEF Beginning, Offering
  <2>2. Cardinality(Beginning(d)) \in Nat /\ Cardinality(Offering(d)) \in Nat
    BY <2>1, Numbered
  <2>3. nextPid \in Nat /\ nextFid \in Nat
    BY DEF TypeOK
  <2> QED BY <2>2, <2>3 DEF Queue
<1>4. flitQueue' \in [Nodes -> Seq(Flit)]
  <2> SUFFICES ASSUME NEW n \in Nodes
               PROVE  (IF n \in Offering(d) THEN Append(flitQueue[n], FlitOf(d, n))
                       ELSE flitQueue[n]) \in Seq(Flit)
    BY DEF Queue
  <2>1. flitQueue[n] \in Seq(Flit)
    BY DEF TypeOK
  <2>2. n \in Offering(d) => FlitOf(d, n) \in Flit
    BY QueuedTypes
  <2> QED BY <2>1, <2>2
<1>5. pc' = "inject" /\ UNCHANGED <<stepsLeft, readerVars, simVars>>
  BY DEF Queue
<1> QED BY <1>1, <1>2, <1>3, <1>4, <1>5
        DEF TypeOK, readerVars, simVars, sourceVars, mailVars, netVars

LEMMA AllTaken == ASSUME TypeOK PROVE Remaining = [n \in Nodes |-> <<>>]
<1>1. \A n \in Nodes : reply[n] \in Seq(Flit)
  BY DEF TypeOK
<1>2. \A n \in Nodes : SubSeq(reply[n], Len(reply[n]) + 1, Len(reply[n])) = <<>>
  BY <1>1, NothingLeft
<1> QED BY <1>2 DEF Remaining, Ejected

\* The loops over requests and the exit.
LEMMA TypeRequests ==
  ASSUME TypeOK,
         \/ Inject \/ TakeCredits \/ EjectAll \/ RequestStep \/ Quit
         \/ \E S \in SUBSET Holding : GiveCredits(S)
  PROVE  TypeOK'
<1>1. CASE Inject
  <2>1. partial' \in [Nodes -> Seq(Flit)]
    <3> SUFFICES ASSUME NEW n \in Nodes PROVE RequestBuffer(n) \in Seq(Flit)
      BY <1>1 DEF Inject
    <3>1. partial[n] \in Seq(Flit) /\ flitQueue[n] \in Seq(Flit)
      BY DEF TypeOK
    <3> QED BY <3>1 DEF RequestBuffer
  <2>2. flitQueue' \in [Nodes -> Seq(Flit)]
    BY <1>1 DEF Inject
  <2> QED BY <1>1, <2>1, <2>2
          DEF Inject, TypeOK, readerVars, mailVars, netVars
<1>2. CASE TakeCredits
  <2>1. writerCredits' \in [Ports -> Nat]
    BY <1>2 DEF TakeCredits, TakenUp, TypeOK
  <2>2. creditUp' \in [Ports -> BOOLEAN]
    BY <1>2 DEF TakeCredits, Stays
  <2> QED BY <1>2, <2>1, <2>2
          DEF TakeCredits, TypeOK, readerVars, sourceVars, netVars
<1>3. CASE EjectAll
  <2>1. held' \in [Ports -> Nat]
    BY <1>3 DEF EjectAll, TypeOK
  <2>2. reply' \in [Nodes -> Seq(Flit)]
    <3>1. reply' = [n \in Nodes |-> <<>>]
      BY <1>3, AllTaken DEF EjectAll
    <3>2. <<>> \in Seq(Flit)
      OBVIOUS
    <3> QED BY <3>1, <3>2
  <2>3. stepsLeft' \in Int
    BY <1>3, CosimAssumption DEF EjectAll
  <2> QED BY <1>3, <2>1, <2>2, <2>3
          DEF EjectAll, TypeOK, writerVars, sourceVars, mailVars, netVars
<1>4. CASE RequestStep
  <2> QED BY <1>4
          DEF RequestStep, TypeOK, writerVars, readerVars, sourceVars, mailVars, netVars
<1>5. CASE Quit
  <2> QED BY <1>5
          DEF Quit, TypeOK, writerVars, readerVars, sourceVars, mailVars, netVars
<1>6. ASSUME NEW S \in SUBSET Holding, GiveCredits(S) PROVE TypeOK'
  <2>1. held' \in [Ports -> Nat]
    <3> SUFFICES ASSUME NEW p \in Ports
                 PROVE  (IF p \in S THEN held[p] - 1 ELSE held[p]) \in Nat
      BY <1>6 DEF GiveCredits
    <3>1. held[p] \in Nat
      BY DEF TypeOK
    <3>2. p \in S => held[p] > 0
      BY DEF Holding
    <3> QED BY <3>1, <3>2
  <2>2. creditDown' \in [Ports -> BOOLEAN]
    <3>1. \A p \in Ports : creditDown[p] \in BOOLEAN
      BY DEF TypeOK
    <3>2. \A p \in Ports : PutDown(p, S) \in BOOLEAN
      BY <3>1 DEF PutDown
    <3> QED BY <1>6, <3>2 DEF GiveCredits
  <2> QED BY <1>6, <2>1, <2>2
          DEF GiveCredits, TypeOK, writerVars, sourceVars, netVars
<1> QED BY <1>1, <1>2, <1>3, <1>4, <1>5, <1>6

\* A flit that the network ejects.
LEMMA Ejecting ==
  ASSUME TypeOK, NEW a \in Arrivals, NEW C \in SUBSET Occupied, SimRead(a, C),
         NEW n \in Nodes, a[n] # None
  PROVE  /\ a[n][1] \in Pids /\ a[n][2] \in VCs
         /\ ejectCredits[<<n, a[n][2]>>] > 0
         /\ net[a[n][1]] \in Seq(Flit) /\ net[a[n][1]] # <<>>
         /\ Head(net[a[n][1]]) \in Flit
         /\ arrived'[n] \in Flit /\ arrived'[n].vc = a[n][2]
<1>1. a[n] \in Pids \X VCs
  BY DEF Arrivals
<1>2. a[n][1] \in Pids /\ a[n][2] \in VCs
  BY <1>1
<1>3. MayEject(n, a[n][1], a[n][2])
  BY DEF SimRead
<1>4. net[a[n][1]] \in Seq(Flit) /\ net[a[n][1]] # <<>>
  BY <1>2, <1>3 DEF MayEject, TypeOK
<1>5. Head(net[a[n][1]]) \in Flit
  BY <1>4, Shorter
<1>6. arrived'[n] = [Head(net[a[n][1]]) EXCEPT !.vc = a[n][2]]
  BY DEF SimRead
<1>7. arrived'[n] \in Flit /\ arrived'[n].vc = a[n][2]
  <2> DEFINE f == Head(net[a[n][1]])
             v == a[n][2]
  <2> HIDE DEF f, v
  <2>1. f \in Flit /\ v \in VCs /\ arrived'[n] = [f EXCEPT !.vc = v]
    BY <1>2, <1>5, <1>6 DEF f, v
  <2>2. arrived'[n] \in Flit /\ arrived'[n].vc = v
    BY <2>1 DEF Flit
  <2> QED BY <2>2 DEF v
<1> QED BY <1>2, <1>3, <1>4, <1>5, <1>7 DEF MayEject

LEMMA TypeRead ==
  ASSUME TypeOK, NEW a \in Arrivals, NEW C \in SUBSET Occupied, SimRead(a, C)
  PROVE  TypeOK'
<1>1. arrived' \in [Nodes -> Flit \cup {None}]
  <2>1. DOMAIN arrived' = Nodes /\ arrived' = [n \in Nodes |-> arrived'[n]]
    BY DEF SimRead
  <2>2. \A n \in Nodes : arrived'[n] \in Flit \cup {None}
    <3> SUFFICES ASSUME NEW n \in Nodes, a[n] = None PROVE arrived'[n] = None
      BY Ejecting
    <3> QED BY DEF SimRead
  <2> QED BY <2>1, <2>2
<1>2. net' \in [Pids -> Seq(Flit)]
  <2> SUFFICES ASSUME NEW k \in Pids
               PROVE  (IF \E n \in Nodes : a[n] # None /\ a[n][1] = k
                       THEN Tail(net[k]) ELSE net[k]) \in Seq(Flit)
    BY DEF SimRead
  <2>1. net[k] \in Seq(Flit)
    BY DEF TypeOK
  <2>2. (\E n \in Nodes : a[n] # None /\ a[n][1] = k) => net[k] # <<>>
    BY Ejecting
  <2> QED BY <2>1, <2>2, Shorter
<1>3. ejectCredits' \in [Ports -> Nat]
  <2> SUFFICES ASSUME NEW p \in Ports
               PROVE  (IF a[p[1]] # None /\ a[p[1]][2] = p[2]
                       THEN ejectCredits[p] - 1 ELSE ejectCredits[p]) \in Nat
    BY DEF SimRead
  <2>1. ejectCredits[p] \in Nat
    BY DEF TypeOK
  <2>2. a[p[1]] # None /\ a[p[1]][2] = p[2] => ejectCredits[p] > 0
    BY PortParts, Ejecting
  <2> QED BY <2>1, <2>2
<1>4. occ' \in [Ports -> Nat]
  <2> SUFFICES ASSUME NEW p \in Ports
               PROVE  (IF p \in C THEN occ[p] - 1 ELSE occ[p]) \in Nat
    BY DEF SimRead
  <2>1. occ[p] \in Nat /\ (p \in C => occ[p] > 0)
    BY DEF TypeOK, Occupied
  <2> QED BY <2>1
<1>5. simPc' \in {"read", "serve", "work", "end"}
  BY DEF SimRead
<1>6. UNCHANGED <<rtlVars, simDone, partial, inUse, prevOcc, packetVc, mailVars, reply>>
  BY DEF SimRead
<1> QED BY <1>1, <1>2, <1>3, <1>4, <1>5, <1>6
        DEF TypeOK, rtlVars, writerVars, readerVars, mailVars

\* The nodes that send.
LEMMA Sending ==
  ASSUME TypeOK, NEW n \in Nodes, Sends(n)
  PROVE  partial[n] # <<>> /\ Head(partial[n]) \in Flit /\ Tail(partial[n]) \in Seq(Flit)
  BY Shorter DEF Sends, TypeOK

LEMMA TypeWork == ASSUME TypeOK, SimWork PROVE TypeOK'
<1>1. partial' \in [Nodes -> Seq(Flit)]
  <2>1. \A n \in Nodes : partial[n] \in Seq(Flit) /\ (Sends(n) => Tail(partial[n]) \in Seq(Flit))
    BY Sending DEF TypeOK
  <2> QED BY <2>1 DEF SimWork
<1>2. inUse' \in [Ports -> BOOLEAN]
  <2>1. \A p \in Ports : inUse[p] \in BOOLEAN
    BY DEF TypeOK
  <2> QED BY <2>1 DEF SimWork
<1>3. occ' \in [Ports -> Nat] /\ prevOcc' \in [Ports -> Nat]
  <2>1. \A p \in Ports : occ[p] \in Nat
    BY DEF TypeOK
  <2> QED BY <2>1 DEF SimWork
<1>4. \A k \in Pids : Sources(k) # {} =>
        /\ (CHOOSE n \in Sources(k) : TRUE) \in Nodes
        /\ Sends(CHOOSE n \in Sources(k) : TRUE)
        /\ Head(partial[CHOOSE n \in Sources(k) : TRUE]).pid = k
  BY DEF Sources
<1>5. packetVc' \in [Pids -> VCs \cup {None}]
  <2>1. ASSUME NEW k \in Pids, NEW n \in Nodes, Sends(n), Head(partial[n]).pid = k
        PROVE  FrontVc(n) \in VCs \cup {None}
    <3>1. Head(partial[n]).vc \in VCs
      BY <2>1, Sending DEF Flit
    <3>2. packetVc[Head(partial[n]).pid] \in VCs \cup {None}
      BY <2>1 DEF TypeOK
    <3> QED BY <3>1, <3>2 DEF FrontVc
  <2>2. \A k \in Pids : packetVc[k] \in VCs \cup {None}
    BY DEF TypeOK
  <2>3. \A k \in Pids : Sources(k) # {} => FrontVc(CHOOSE n \in Sources(k) : TRUE) \in VCs \cup {None}
    BY <1>4, <2>1
  <2> QED BY <2>2, <2>3 DEF SimWork
<1>6. net' \in [Pids -> Seq(Flit)]
  <2>1. \A k \in Pids : Sources(k) # {} =>
          Append(net[k], Head(partial[CHOOSE n \in Sources(k) : TRUE])) \in Seq(Flit)
    <3> SUFFICES ASSUME NEW k \in Pids, Sources(k) # {}
                 PROVE  Append(net[k], Head(partial[CHOOSE n \in Sources(k) : TRUE])) \in Seq(Flit)
      OBVIOUS
    <3>1. Head(partial[CHOOSE n \in Sources(k) : TRUE]) \in Flit
      BY <1>4, Sending
    <3>2. net[k] \in Seq(Flit)
      BY DEF TypeOK
    <3> QED BY <3>1, <3>2
  <2>2. \A k \in Pids : net[k] \in Seq(Flit)
    BY DEF TypeOK
  <2> QED BY <2>1, <2>2 DEF SimWork
<1>7. reply' \in [Nodes -> Seq(Flit)]
  <2>1. \A n \in Nodes : /\ reply[n] \in Seq(Flit)
                         /\ arrived[n] # None => Append(reply[n], arrived[n]) \in Seq(Flit)
    BY DEF TypeOK
  <2> QED BY <2>1 DEF SimWork, Replies
<1>8. creditUp' \in [Ports -> BOOLEAN] /\ creditDown' \in [Ports -> BOOLEAN]
  <2>1. \A p \in Ports : creditUp[p] \in BOOLEAN
    BY DEF TypeOK
  <2>2. \A p \in Ports : (creditUp[p] \/ ReturnsCredit(p)) \in BOOLEAN
    BY <2>1
  <2> QED BY <2>2 DEF SimWork
<1>9. ejectCredits' \in [Ports -> Nat]
  <2>1. \A p \in Ports : ejectCredits[p] \in Nat
    BY DEF TypeOK
  <2> QED BY <2>1 DEF SimWork
<1>10. arrived' \in [Nodes -> Flit \cup {None}]
  BY DEF SimWork
<1>11. simPc' \in {"read", "serve", "work", "end"}
  BY DEF SimWork, AfterStep
<1>12. UNCHANGED <<rtlVars, simDone>>
  BY DEF SimWork
<1> QED BY <1>1, <1>2, <1>3, <1>5, <1>6, <1>7, <1>8, <1>9, <1>10, <1>11, <1>12
        DEF TypeOK, rtlVars, writerVars, readerVars

LEMMA TypeStep == ASSUME TypeOK, [Next]_vars PROVE TypeOK'
<1>1. CASE UNCHANGED vars
  BY <1>1 DEF TypeOK, vars, rtlVars, writerVars, readerVars, simVars, sourceVars, mailVars, netVars
<1> QED BY <1>1, TypeQueue, TypeRequests, TypeRead, TypeWork DEF Next

-----------------------------------------------------------------------------
(* Turns and mailboxes.                                                    *)

LEMMA TurnsStep == ASSUME OneStep, TypeOK, Turns, [Next]_vars PROVE Turns'
<1> USE DEF Turns
<1>1. ASSUME NEW d, Queue(d) PROVE Turns'
  BY <1>1 DEF Queue, simVars
<1>2. CASE Inject
  BY <1>2 DEF Inject, Serving
<1>3. ASSUME NEW S, GiveCredits(S) PROVE Turns'
  BY <1>3 DEF GiveCredits, Serving
<1>4. CASE TakeCredits
  BY <1>4 DEF TakeCredits, Serving
<1>5. CASE EjectAll
  BY <1>5 DEF EjectAll, Serving, OneStep
<1>6. CASE RequestStep
  BY <1>6 DEF RequestStep, Serving
<1>7. CASE Quit
  BY <1>7 DEF Quit, Serving
<1>8. ASSUME NEW a, NEW C, SimRead(a, C) PROVE Turns'
  BY <1>8 DEF SimRead, rtlVars, TypeOK
<1>9. CASE SimWork
  BY <1>9 DEF SimWork, AfterStep, rtlVars, TypeOK
<1>10. CASE UNCHANGED vars
  BY <1>10 DEF vars, rtlVars, simVars
<1> QED BY <1>1, <1>2, <1>3, <1>4, <1>5, <1>6, <1>7, <1>8, <1>9, <1>10 DEF Next

LEMMA MailStep == ASSUME TypeOK, Turns, Mail, [Next]_vars PROVE Mail'
<1> USE DEF Mail
<1>1. ASSUME NEW d, Queue(d) PROVE Mail'
  BY <1>1 DEF Queue, simVars, mailVars, Turns
<1>2. CASE Inject
  BY <1>2 DEF Inject, Serving, mailVars, Turns
<1>3. ASSUME NEW S \in SUBSET Holding, GiveCredits(S) PROVE Mail'
  <2>1. /\ pc = "give" /\ pc' = "take" /\ simPc = "serve"
        /\ UNCHANGED <<simPc, simDone, creditUp, arrived, reply>>
        /\ creditDown' = [p \in Ports |-> PutDown(p, S)]
    BY <1>3 DEF GiveCredits, Serving
  <2> QED BY <2>1
<1>4. CASE TakeCredits
  <2>1. /\ pc = "take" /\ pc' = "eject" /\ simPc = "serve"
        /\ UNCHANGED <<simPc, simDone, creditDown, arrived, reply>>
        /\ creditUp' = [p \in Ports |-> FALSE]
    BY <1>4 DEF TakeCredits, Serving, Stays
  <2> QED BY <2>1
<1>5. CASE EjectAll
  <2>1. /\ pc = "eject" /\ pc' = "step" /\ simPc = "serve"
        /\ UNCHANGED <<simPc, simDone, creditDown, creditUp, arrived>>
        /\ reply' = [n \in Nodes |-> <<>>]
    BY <1>5, AllTaken DEF EjectAll, Serving, mailVars
  <2> QED BY <2>1 DEF Turns
<1>6. CASE RequestStep
  BY <1>6 DEF RequestStep, Serving, mailVars, Turns
<1>7. CASE Quit
  BY <1>7 DEF Quit, Serving, mailVars, Turns
<1>8. ASSUME NEW a \in Arrivals, NEW C \in SUBSET Occupied, SimRead(a, C) PROVE Mail'
  <2>1. /\ simPc = "read" /\ simPc' = IF simDone THEN "work" ELSE "serve"
        /\ UNCHANGED <<pc, simDone, creditDown, creditUp, reply>>
    BY <1>8 DEF SimRead, rtlVars, mailVars
  <2> QED BY <2>1
<1>9. CASE SimWork
  <2>1. /\ simPc = "work"
        /\ ~simDone => simPc' = "read"
        /\ UNCHANGED <<pc, simDone>>
        /\ creditDown' = [p \in Ports |-> FALSE]
        /\ arrived' = [n \in Nodes |-> None]
        /\ reply' = [n \in Nodes |-> IF arrived[n] = None THEN reply[n] ELSE Append(reply[n], arrived[n])]
    BY <1>9 DEF SimWork, AfterStep, rtlVars, Replies
  <2>2. ~simDone => pc \in {"queue", "inject"}
    BY <2>1 DEF Turns, TypeOK
  <2>3. \A n \in Nodes : reply'[n] # <<>> /\ ~simDone => Len(reply'[n]) = 1
    <3> SUFFICES ASSUME NEW n \in Nodes, ~simDone, arrived[n] # None
                 PROVE  Len(reply'[n]) = 1
      BY <2>1
    <3>1. reply[n] = <<>> /\ arrived[n] \in Flit
      BY <2>1 DEF TypeOK
    <3>2. reply'[n] = Append(<<>>, arrived[n])
      BY <2>1, <3>1
    <3> QED BY <3>1, <3>2
  <2> QED BY <2>1, <2>2, <2>3
<1>10. CASE UNCHANGED vars
  BY <1>10 DEF vars, rtlVars, simVars, mailVars
<1> QED BY <1>1, <1>2, <1>3, <1>4, <1>5, <1>6, <1>7, <1>8, <1>9, <1>10 DEF Next

-----------------------------------------------------------------------------
(* The flits of a node, from its writer to the network.                    *)

LEMMA CountEmpty == \A v \in VCs : CountOn(<<>>, v) = 0
<1> SUFFICES ASSUME NEW v \in VCs PROVE CountOn(<<>>, v) = 0
  OBVIOUS
<1>1. {i \in 1 .. Len(<<>>) : (<<>>)[i].vc = v} = {}
  OBVIOUS
<1> QED BY <1>1, FS_EmptySet DEF CountOn

LEMMA CountAppend ==
  ASSUME NEW q \in Seq(Flit), NEW f \in Flit, NEW v \in VCs
  PROVE  /\ CountOn(q, v) \in Nat
         /\ CountOn(Append(q, f), v) = CountOn(q, v) + (IF f.vc = v THEN 1 ELSE 0)
<1> DEFINE A == {i \in 1 .. Len(q) : q[i].vc = v}
           B == {i \in 1 .. Len(Append(q, f)) : Append(q, f)[i].vc = v}
<1>1. /\ Len(q) \in Nat /\ Len(Append(q, f)) = Len(q) + 1
      /\ Append(q, f)[Len(q) + 1] = f
      /\ \A i \in 1 .. Len(q) : Append(q, f)[i] = q[i]
  OBVIOUS
<1>2. IsFiniteSet(A) /\ Cardinality(A) \in Nat
  <2>1. IsFiniteSet(1 .. Len(q))
    BY <1>1, FS_Interval
  <2>2. A \subseteq 1 .. Len(q)
    OBVIOUS
  <2> QED BY <2>1, <2>2, FS_Subset, FS_CardinalityType
<1>3. B = IF f.vc = v THEN A \cup {Len(q) + 1} ELSE A
  BY <1>1
<1>4. Len(q) + 1 \notin A
  BY <1>1
<1>5. Cardinality(A \cup {Len(q) + 1}) = Cardinality(A) + 1
  BY <1>2, <1>4, FS_AddElement
<1>6. CountOn(q, v) = Cardinality(A) /\ CountOn(Append(q, f), v) = Cardinality(B)
  BY DEF CountOn
<1> HIDE DEF A, B
<1> QED BY <1>2, <1>3, <1>5, <1>6

LEMMA CountOne ==
  ASSUME NEW q \in Seq(Flit), Len(q) = 1, NEW v \in VCs
  PROVE  CountOn(q, v) = IF q[1].vc = v THEN 1 ELSE 0
<1>1. q[1] \in Flit /\ q = Append(<<>>, q[1]) /\ <<>> \in Seq(Flit)
  OBVIOUS
<1>2. CountOn(Append(<<>>, q[1]), v) = CountOn(<<>>, v) + (IF q[1].vc = v THEN 1 ELSE 0)
  BY <1>1, CountAppend
<1> QED BY <1>1, <1>2, CountEmpty

LEMMA CountTypes ==
  ASSUME TypeOK, NEW p \in Ports
  PROVE  /\ CountOn(flitQueue[p[1]], p[2]) \in Nat
         /\ CountOn(partial[p[1]], p[2]) \in Nat
         /\ CountOn(reply[p[1]], p[2]) \in Nat
         /\ TakenUp(p) \in {0, 1}
<1>1. /\ p[1] \in Nodes /\ p[2] \in VCs
      /\ flitQueue[p[1]] \in Seq(Flit) /\ partial[p[1]] \in Seq(Flit) /\ reply[p[1]] \in Seq(Flit)
  BY PortParts DEF TypeOK
<1>2. \A q \in Seq(Flit) : CountOn(q, p[2]) \in Nat
  <2> SUFFICES ASSUME NEW q \in Seq(Flit) PROVE CountOn(q, p[2]) \in Nat
    OBVIOUS
  <2>1. IsFiniteSet(1 .. Len(q))
    BY FS_Interval
  <2>2. {i \in 1 .. Len(q) : q[i].vc = p[2]} \subseteq 1 .. Len(q)
    OBVIOUS
  <2> QED BY <2>1, <2>2, FS_Subset, FS_CardinalityType DEF CountOn
<1> QED BY <1>1, <1>2 DEF TakenUp

\* BookSim can send what a node injected: the VC is known, and the writer's credit
\* stands for a slot in its buffer.
LEMMA FrontIsSent ==
  ASSUME TypeOK, Counts, Lanes, VcsKnown, CreditsAccounted, simPc = "work",
         NEW n \in Nodes, partial[n] # <<>>
  PROVE  /\ FrontVc(n) = AssignedVC[n]
         /\ occ[<<n, AssignedVC[n]>>] < VcBufSize
         /\ Sends(n)
         /\ Head(partial[n]) = partial[n][1] /\ Tail(partial[n]) = <<>>
         /\ Head(partial[n]).head => ~inUse[<<n, AssignedVC[n]>>]
<1> DEFINE p == <<n, AssignedVC[n]>>
<1>1. p \in Ports /\ p[1] = n /\ p[2] = AssignedVC[n] /\ AssignedVC[n] \in VCs
  BY LanePort
<1>2. ~simDone /\ Len(partial[n]) = 1 /\ partial[n] \in Seq(Flit)
  BY DEF Lanes, Lane, TypeOK
<1>3. Head(partial[n]) = partial[n][1] /\ Tail(partial[n]) = <<>>
  BY <1>2, Single
<1>4. FrontVc(n) = AssignedVC[n]
  BY <1>3 DEF FrontVc, Lanes, Lane, VcsKnown
<1>5. occ[p] < VcBufSize
  <2> HIDE DEF p
  <2>1. CountOn(partial[p[1]], p[2]) = 1
    BY <1>1, <1>2, CountOne DEF Lanes, Lane
  <2>2. writerCredits[p] + CountOn(flitQueue[p[1]], p[2]) + CountOn(partial[p[1]], p[2])
          + prevOcc[p] + TakenUp(p) = WriterDepth
    BY <1>1, <1>2 DEF CreditsAccounted, WriterCredits
  <2>3. /\ writerCredits[p] \in Nat /\ prevOcc[p] \in Nat /\ occ[p] \in Nat
        /\ CountOn(flitQueue[p[1]], p[2]) \in Nat /\ TakenUp(p) \in {0, 1}
    BY <1>1, CountTypes DEF TypeOK
  <2>4. occ[p] <= prevOcc[p]
    BY <1>1 DEF Counts
  <2>5. WriterDepth \in Nat /\ VcBufSize \in Nat /\ WriterDepth <= VcBufSize
    BY CosimAssumption
  <2> HIDE DEF Counts
  <2> QED BY <2>1, <2>2, <2>3, <2>4, <2>5
<1>6. Sends(n)
  BY <1>4, <1>5 DEF Sends
<1> QED BY <1>3, <1>4, <1>5, <1>6 DEF Lanes, Lane, Open

\* What SimWork does to the VC of a node and to the flit it has to send.
LEMMA WorkEffect ==
  ASSUME TypeOK, Counts, Lanes, VcsKnown, CreditsAccounted, SimWork
  PROVE  /\ \A n \in Nodes :
              /\ Sends(n) <=> partial[n] # <<>>
              /\ partial'[n] = <<>>
              /\ Open(n)' <=> AfterPartial(n)
         /\ \A p \in Ports : SendsOn(p) <=> partial[p[1]] # <<>> /\ p[2] = AssignedVC[p[1]]
<1>1. simPc = "work"
  BY DEF SimWork
<1>2. \A n \in Nodes : Sends(n) <=> partial[n] # <<>>
  BY <1>1, FrontIsSent DEF Sends
<1>3. \A p \in Ports : SendsOn(p) <=> partial[p[1]] # <<>> /\ p[2] = AssignedVC[p[1]]
  <2> SUFFICES ASSUME NEW p \in Ports
               PROVE  SendsOn(p) <=> partial[p[1]] # <<>> /\ p[2] = AssignedVC[p[1]]
    OBVIOUS
  <2>1. p[1] \in Nodes
    BY PortParts
  <2>2. partial[p[1]] # <<>> => FrontVc(p[1]) = AssignedVC[p[1]]
    BY <1>1, <2>1, FrontIsSent
  <2> QED BY <1>2, <2>1, <2>2 DEF SendsOn
<1>4. ASSUME NEW n \in Nodes
      PROVE  partial'[n] = <<>> /\ (Open(n)' <=> AfterPartial(n))
  <2> DEFINE p == <<n, AssignedVC[n]>>
  <2>1. p \in Ports /\ p[1] = n /\ p[2] = AssignedVC[n]
    BY LanePort
  <2>2. partial'[n] = IF Sends(n) THEN Tail(partial[n]) ELSE partial[n]
    BY DEF SimWork
  <2>3. partial'[n] = <<>>
    BY <1>1, <1>2, <2>2, FrontIsSent
  <2>4. inUse'[p] = IF SendsOn(p) THEN ~Head(partial[p[1]]).tail ELSE inUse[p]
    BY <2>1 DEF SimWork
  <2>5. partial[n] # <<>> => inUse'[p] = ~partial[n][1].tail
    BY <1>1, <1>3, <2>1, <2>4, FrontIsSent
  <2>6. partial[n] = <<>> => inUse'[p] = inUse[p]
    BY <1>3, <2>1, <2>4
  <2> QED BY <2>3, <2>5, <2>6 DEF Open, AfterPartial
<1> QED BY <1>2, <1>3, <1>4

LEMMA LaneQueue ==
  ASSUME TypeOK, Turns, Lanes, NEW d \in [Nodes -> Offers \cup {None}], Queue(d), NEW n \in Nodes
  PROVE  Lane(n)'
<1>1. /\ flitQueue[n] = <<>> /\ pc = "queue" /\ pc' = "inject"
      /\ UNCHANGED <<simPc, simDone, inUse, partial>>
  BY DEF Lanes, Lane, Queue, simVars, sourceVars
<1>2. /\ Open(n)' <=> Open(n)
      /\ AfterPartial(n)' <=> AfterPartial(n)
  BY <1>1 DEF Open, AfterPartial
<1>3. ~(n \in Offering(d)) => flitQueue'[n] = flitQueue[n] /\ current'[n] = current[n]
  BY DEF Queue
<1>4. ASSUME n \in Offering(d)
      PROVE  /\ flitQueue'[n] # <<>> /\ Len(flitQueue'[n]) = 1
             /\ flitQueue'[n][1] = FlitOf(d, n)
             /\ current'[n] # None <=> ~d[n].last
  <2>1. flitQueue'[n] = Append(<<>>, FlitOf(d, n)) /\ FlitOf(d, n) \in Flit
    BY <1>1, <1>4, QueuedTypes DEF Queue
  <2>2. [PacketOf(d, n) EXCEPT !.sent = @ + 1] \in Packet /\ d[n].last \in BOOLEAN
    BY <1>4, QueuedTypes DEF Packet
  <2>3. current'[n] = IF d[n].last THEN None ELSE [PacketOf(d, n) EXCEPT !.sent = @ + 1]
    BY <1>4 DEF Queue
  <2>4. current'[n] # None <=> ~d[n].last
    BY <2>2, <2>3, NoneAssumption
  <2> QED BY <2>1, <2>4
<1>5. /\ FlitOf(d, n).vc = AssignedVC[n]
      /\ FlitOf(d, n).head <=> current[n] = None
      /\ FlitOf(d, n).tail <=> d[n].last
  BY DEF FlitOf
<1>6. current[n] # None <=> AfterPartial(n)
  BY <1>1 DEF Lanes, Lane, AfterQueue
<1>7. CASE n \in Offering(d)
  <2>1. AfterQueue(n)' <=> ~d[n].last
    BY <1>4, <1>5, <1>7 DEF AfterQueue
  <2> QED BY <1>1, <1>2, <1>4, <1>5, <1>6, <1>7, <2>1 DEF Lane, Lanes
<1>8. CASE n \notin Offering(d)
  BY <1>1, <1>2, <1>3, <1>8 DEF Lane, Lanes, AfterQueue
<1> QED BY <1>7, <1>8

LEMMA LaneInject ==
  ASSUME TypeOK, Turns, Lanes, Inject, NEW n \in Nodes
  PROVE  Lane(n)'
<1>1. /\ pc = "inject" /\ pc' = "give" /\ simPc = "serve"
      /\ UNCHANGED <<simPc, simDone, inUse, current>>
      /\ flitQueue'[n] = <<>> /\ partial'[n] = partial[n] \o flitQueue[n]
  BY DEF Inject, Serving, RequestBuffer
<1>2. partial[n] = <<>> /\ ~simDone
  BY <1>1 DEF Lanes, Lane, Turns
<1>3. partial'[n] = flitQueue[n]
  BY <1>1, <1>2 DEF TypeOK
<1>4. /\ Open(n)' <=> Open(n)
      /\ AfterPartial(n) <=> Open(n)
  BY <1>1, <1>2 DEF Open, AfterPartial
<1>5. AfterQueue(n)' <=> AfterQueue(n)
  BY <1>1, <1>2, <1>3, <1>4 DEF AfterQueue, AfterPartial
<1> QED BY <1>1, <1>2, <1>3, <1>4, <1>5 DEF Lane, Lanes

\* Steps that leave the flits of the nodes alone.
LEMMA LaneUntouched ==
  ASSUME Turns, Lanes, UNCHANGED <<flitQueue, partial, inUse, current>>, NEW n \in Nodes,
         flitQueue[n] # <<>> => pc' = pc,
         partial[n] # <<>> => ~simDone' /\ (simPc' = "work" \/ pc' \in {"give", "take", "eject", "step"})
  PROVE  Lane(n)'
<1>1. /\ Open(n)' <=> Open(n)
      /\ AfterPartial(n)' <=> AfterPartial(n)
      /\ AfterQueue(n)' <=> AfterQueue(n)
  BY DEF Open, AfterPartial, AfterQueue
<1> QED BY <1>1 DEF Lane, Lanes

LEMMA LaneWork ==
  ASSUME TypeOK, Turns, Counts, Lanes, VcsKnown, CreditsAccounted, SimWork, NEW n \in Nodes
  PROVE  Lane(n)'
<1>1. partial'[n] = <<>> /\ (Open(n)' <=> AfterPartial(n))
  BY WorkEffect
<1>2. UNCHANGED <<pc, flitQueue, current, simDone>>
  BY DEF SimWork, rtlVars, writerVars
<1>3. AfterPartial(n)' <=> AfterPartial(n)
  BY <1>1 DEF AfterPartial
<1>4. AfterQueue(n)' <=> AfterQueue(n)
  BY <1>2, <1>3 DEF AfterQueue
<1> QED BY <1>1, <1>2, <1>3, <1>4 DEF Lane, Lanes

LEMMA LanesStep ==
  ASSUME TypeOK, Turns, Counts, Lanes, VcsKnown, CreditsAccounted, [Next]_vars
  PROVE  Lanes'
<1> SUFFICES ASSUME NEW n \in Nodes PROVE Lane(n)'
  BY DEF Lanes
<1>1. ASSUME NEW d \in [Nodes -> Offers \cup {None}], Queue(d) PROVE Lane(n)'
  BY <1>1, LaneQueue
<1>2. CASE Inject
  BY <1>2, LaneInject
<1>3. ASSUME NEW S \in SUBSET Holding, GiveCredits(S) PROVE Lane(n)'
  <2>1. /\ UNCHANGED <<flitQueue, partial, inUse, current, simDone, simPc>>
        /\ pc = "give" /\ pc' = "take" /\ ~simDone
    BY <1>3 DEF GiveCredits, writerVars, sourceVars, Turns
  <2>2. flitQueue[n] = <<>>
    BY <2>1 DEF Lanes, Lane
  <2> QED BY <2>1, <2>2, LaneUntouched
<1>4. CASE TakeCredits
  <2>1. /\ UNCHANGED <<flitQueue, partial, inUse, current, simDone, simPc>>
        /\ pc = "take" /\ pc' = "eject" /\ ~simDone
    BY <1>4 DEF TakeCredits, sourceVars, Turns
  <2>2. flitQueue[n] = <<>>
    BY <2>1 DEF Lanes, Lane
  <2> QED BY <2>1, <2>2, LaneUntouched
<1>5. CASE EjectAll
  <2>1. /\ UNCHANGED <<flitQueue, partial, inUse, current, simDone, simPc>>
        /\ pc = "eject" /\ pc' = "step" /\ ~simDone
    BY <1>5 DEF EjectAll, writerVars, sourceVars, Turns
  <2>2. flitQueue[n] = <<>>
    BY <2>1 DEF Lanes, Lane
  <2> QED BY <2>1, <2>2, LaneUntouched
<1>6. CASE RequestStep
  <2>1. /\ UNCHANGED <<flitQueue, partial, inUse, current, simDone>>
        /\ pc = "step" /\ simPc' = "work" /\ ~simDone
    BY <1>6 DEF RequestStep, writerVars, sourceVars, Turns
  <2>2. flitQueue[n] = <<>>
    BY <2>1 DEF Lanes, Lane
  <2> QED BY <2>1, <2>2, LaneUntouched
<1>7. CASE Quit
  <2>1. /\ UNCHANGED <<flitQueue, partial, inUse, current>>
        /\ pc = "queue" /\ simPc = "serve"
    BY <1>7 DEF Quit, Serving, writerVars, sourceVars
  <2>2. flitQueue[n] = <<>> /\ partial[n] = <<>>
    BY <2>1 DEF Lanes, Lane
  <2> QED BY <2>1, <2>2, LaneUntouched
<1>8. ASSUME NEW a, NEW C, SimRead(a, C) PROVE Lane(n)'
  <2>1. /\ UNCHANGED <<flitQueue, partial, inUse, current, simDone, pc>>
        /\ simPc = "read"
    BY <1>8 DEF SimRead, rtlVars, writerVars
  <2>2. partial[n] = <<>>
    BY <2>1 DEF Lanes, Lane, Turns
  <2> QED BY <2>1, <2>2, LaneUntouched
<1>9. CASE SimWork
  BY <1>9, LaneWork
<1>10. CASE UNCHANGED vars
  <2>1. UNCHANGED <<flitQueue, partial, inUse, current, simDone, simPc, pc>>
    BY <1>10 DEF vars, rtlVars, writerVars, simVars, sourceVars
  <2> QED BY <2>1, LaneUntouched DEF Lanes, Lane
<1> QED BY <1>1, <1>2, <1>3, <1>4, <1>5, <1>6, <1>7, <1>8, <1>9, <1>10 DEF Next

-----------------------------------------------------------------------------
(* BookSim's count of each VC.                                             *)

LEMMA CountsStep ==
  ASSUME TypeOK, Turns, Counts, [Next]_vars
  PROVE  Counts'
<1> USE DEF Counts
<1>1. CASE SimWork
  <2>1. /\ \A p \in Ports : prevOcc'[p] = occ'[p]
        /\ simPc' \in {"read", "end"}
    BY <1>1 DEF SimWork, AfterStep
  <2> QED BY <2>1
<1>2. ASSUME NEW a, NEW C \in SUBSET Occupied, SimRead(a, C) PROVE Counts'
  <2> SUFFICES ASSUME NEW p \in Ports
               PROVE  occ'[p] <= prevOcc'[p] /\ prevOcc'[p] <= occ'[p] + 1 /\ simPc' \in {"serve", "work"}
    OBVIOUS
  <2>1. /\ simPc = "read" /\ simPc' \in {"serve", "work"} /\ prevOcc' = prevOcc
        /\ occ'[p] = IF p \in C THEN occ[p] - 1 ELSE occ[p]
    BY <1>2 DEF SimRead
  <2>2. occ[p] \in Nat /\ occ[p] = prevOcc[p]
    BY <2>1 DEF TypeOK
  <2> QED BY <2>1, <2>2
<1>3. ASSUME UNCHANGED <<occ, prevOcc>>,
             simPc' = simPc \/ (simPc = "serve" /\ simPc' = "work")
      PROVE  Counts'
  BY <1>3
<1>4. ASSUME NEW d, Queue(d) PROVE Counts'
  BY <1>3, <1>4 DEF Queue, simVars, sourceVars
<1>5. CASE Inject
  BY <1>3, <1>5 DEF Inject
<1>6. ASSUME NEW S, GiveCredits(S) PROVE Counts'
  BY <1>3, <1>6 DEF GiveCredits, sourceVars
<1>7. CASE TakeCredits
  BY <1>3, <1>7 DEF TakeCredits, sourceVars
<1>8. CASE EjectAll
  BY <1>3, <1>8 DEF EjectAll, sourceVars
<1>9. CASE RequestStep
  BY <1>3, <1>9 DEF RequestStep, Serving, sourceVars
<1>10. CASE Quit
  BY <1>3, <1>10 DEF Quit, Serving, sourceVars
<1>11. CASE UNCHANGED vars
  BY <1>3, <1>11 DEF vars, simVars, sourceVars
<1> QED BY <1>1, <1>2, <1>4, <1>5, <1>6, <1>7, <1>8, <1>9, <1>10, <1>11 DEF Next

-----------------------------------------------------------------------------
(* Credits from BookSim to the writers.                                    *)

WriterOK == ~simDone => \A p \in Ports : WriterCredits(p) = WriterDepth

LEMMA WriterUntouched ==
  ASSUME WriterOK, UNCHANGED <<writerCredits, flitQueue, partial, prevOcc, creditUp>>,
         simDone' \/ simDone' = simDone
  PROVE  WriterOK'
  BY DEF WriterOK, WriterCredits, TakenUp, CountOn

LEMMA WriterQueue ==
  ASSUME TypeOK, WriterOK, NEW d \in [Nodes -> Offers \cup {None}], Queue(d)
  PROVE  WriterOK'
<1> SUFFICES ASSUME ~simDone, NEW p \in Ports PROVE WriterCredits(p)' = WriterDepth
  BY DEF WriterOK, Queue, simVars
<1> DEFINE n == p[1]
           v == p[2]
           on == n \in Offering(d) /\ v = AssignedVC[n]
<1>1. n \in Nodes /\ v \in VCs
  BY PortParts
<1>2. writerCredits'[p] = IF on THEN writerCredits[p] - 1 ELSE writerCredits[p]
  BY DEF Queue
<1>3. CountOn(flitQueue'[n], v) = CountOn(flitQueue[n], v) + (IF on THEN 1 ELSE 0)
  <2>1. CASE n \in Offering(d)
    <3>1. FlitOf(d, n) \in Flit /\ flitQueue[n] \in Seq(Flit) /\ FlitOf(d, n).vc = AssignedVC[n]
      BY <1>1, <2>1, QueuedTypes DEF TypeOK, FlitOf
    <3>2. flitQueue'[n] = Append(flitQueue[n], FlitOf(d, n))
      BY <1>1, <2>1 DEF Queue
    <3>3. CountOn(Append(flitQueue[n], FlitOf(d, n)), v)
            = CountOn(flitQueue[n], v) + (IF FlitOf(d, n).vc = v THEN 1 ELSE 0)
      BY <1>1, <3>1, CountAppend
    <3> QED BY <2>1, <3>1, <3>2, <3>3
  <2>2. CASE n \notin Offering(d)
    <3>1. flitQueue'[n] = flitQueue[n]
      BY <1>1, <2>2 DEF Queue
    <3>2. CountOn(flitQueue[n], v) \in Nat
      BY CountTypes
    <3> QED BY <2>2, <3>1, <3>2
  <2> QED BY <2>1, <2>2
<1>4. UNCHANGED <<partial, prevOcc, creditUp>>
  BY DEF Queue, simVars, sourceVars, mailVars
<1>5. WriterCredits(p)' = writerCredits'[p] + CountOn(flitQueue'[n], v) + CountOn(partial[n], v)
                            + prevOcc[p] + TakenUp(p)
  BY <1>4 DEF WriterCredits, TakenUp, CountOn
<1>6. WriterCredits(p) = writerCredits[p] + CountOn(flitQueue[n], v) + CountOn(partial[n], v)
                           + prevOcc[p] + TakenUp(p)
  BY DEF WriterCredits
<1>7. /\ writerCredits[p] \in Nat /\ prevOcc[p] \in Nat
      /\ CountOn(flitQueue[n], v) \in Nat /\ CountOn(partial[n], v) \in Nat /\ TakenUp(p) \in {0, 1}
  BY CountTypes DEF TypeOK
<1>8. WriterCredits(p) = WriterDepth
  BY DEF WriterOK
<1> HIDE DEF on, n, v
<1> QED BY <1>2, <1>3, <1>5, <1>6, <1>7, <1>8

LEMMA WriterInject ==
  ASSUME TypeOK, Turns, Lanes, WriterOK, Inject
  PROVE  WriterOK'
<1> SUFFICES ASSUME ~simDone, NEW p \in Ports PROVE WriterCredits(p)' = WriterDepth
  BY DEF WriterOK, Inject
<1>1. p[1] \in Nodes /\ p[2] \in VCs
  BY PortParts
<1>2. /\ partial[p[1]] = <<>> /\ flitQueue[p[1]] \in Seq(Flit)
      /\ partial'[p[1]] = flitQueue[p[1]] /\ flitQueue'[p[1]] = <<>>
  <2>1. partial[p[1]] = <<>>
    BY <1>1 DEF Inject, Serving, Lanes, Lane
  <2>2. flitQueue[p[1]] \in Seq(Flit)
    BY <1>1 DEF TypeOK
  <2>3. partial'[p[1]] = partial[p[1]] \o flitQueue[p[1]] /\ flitQueue'[p[1]] = <<>>
    BY <1>1 DEF Inject, RequestBuffer
  <2> QED BY <2>1, <2>2, <2>3
<1>3. UNCHANGED <<writerCredits, prevOcc, creditUp>>
  BY DEF Inject, mailVars
<1>4. WriterCredits(p)' = writerCredits[p] + CountOn(<<>>, p[2]) + CountOn(flitQueue[p[1]], p[2])
                            + prevOcc[p] + TakenUp(p)
  BY <1>2, <1>3 DEF WriterCredits, TakenUp, CountOn
<1>5. WriterCredits(p) = writerCredits[p] + CountOn(flitQueue[p[1]], p[2]) + CountOn(<<>>, p[2])
                           + prevOcc[p] + TakenUp(p)
  BY <1>2 DEF WriterCredits
<1>6. /\ writerCredits[p] \in Nat /\ CountOn(flitQueue[p[1]], p[2]) \in Nat
      /\ CountOn(<<>>, p[2]) = 0
  BY <1>1, CountTypes, CountEmpty DEF TypeOK
<1>7. WriterCredits(p) = WriterDepth
  BY DEF WriterOK
<1> QED BY <1>4, <1>5, <1>6, <1>7

LEMMA WriterTake ==
  ASSUME TypeOK, WriterOK, TakeCredits
  PROVE  WriterOK'
<1> SUFFICES ASSUME ~simDone, NEW p \in Ports PROVE WriterCredits(p)' = WriterDepth
  BY DEF WriterOK, TakeCredits
<1>1. /\ writerCredits'[p] = writerCredits[p] + TakenUp(p)
      /\ creditUp'[p] = FALSE
      /\ UNCHANGED <<flitQueue, partial, prevOcc>>
  BY DEF TakeCredits, Stays, sourceVars
<1>2. WriterCredits(p)' = writerCredits[p] + TakenUp(p) + CountOn(flitQueue[p[1]], p[2])
                            + CountOn(partial[p[1]], p[2]) + prevOcc[p] + 0
  BY <1>1 DEF WriterCredits, TakenUp, CountOn
<1>3. WriterCredits(p) = writerCredits[p] + CountOn(flitQueue[p[1]], p[2])
                           + CountOn(partial[p[1]], p[2]) + prevOcc[p] + TakenUp(p)
  BY DEF WriterCredits
<1>4. /\ writerCredits[p] \in Nat /\ prevOcc[p] \in Nat
      /\ CountOn(flitQueue[p[1]], p[2]) \in Nat /\ CountOn(partial[p[1]], p[2]) \in Nat
      /\ TakenUp(p) \in {0, 1}
  BY CountTypes DEF TypeOK
<1>5. WriterCredits(p) = WriterDepth
  BY DEF WriterOK
<1> QED BY <1>2, <1>3, <1>4, <1>5

\* The credit inferred from two counts is the one that came back.
LEMMA InferredCredit ==
  ASSUME TypeOK, Counts, simPc = "work", NEW p \in Ports
  PROVE  ReturnsCredit(p) <=> occ[p] < prevOcc[p]
<1>1. occ[p] \in Nat /\ prevOcc[p] \in Nat /\ occ[p] <= prevOcc[p] /\ prevOcc[p] <= occ[p] + 1
  BY DEF TypeOK, Counts
<1> QED BY <1>1 DEF ReturnsCredit

LEMMA WriterWork ==
  ASSUME TypeOK, Turns, Mail, Counts, Lanes, VcsKnown, CreditsAccounted, WriterOK, SimWork
  PROVE  WriterOK'
<1> SUFFICES ASSUME ~simDone, NEW p \in Ports PROVE WriterCredits(p)' = WriterDepth
  BY DEF WriterOK, SimWork
<1> DEFINE sends == IF SendsOn(p) THEN 1 ELSE 0
<1>1. p[1] \in Nodes /\ p[2] \in VCs /\ simPc = "work"
  BY PortParts DEF SimWork
<1>2. /\ UNCHANGED <<writerCredits, flitQueue>>
      /\ prevOcc'[p] = occ[p] + sends
      /\ creditUp'[p] = (creditUp[p] \/ ReturnsCredit(p))
      /\ partial'[p[1]] = <<>>
  <2>1. UNCHANGED <<writerCredits, flitQueue>>
    BY DEF SimWork, rtlVars, writerVars
  <2>2. occ'[p] = IF SendsOn(p) THEN occ[p] + 1 ELSE occ[p]
    BY DEF SimWork
  <2>3. occ[p] \in Nat
    BY DEF TypeOK
  <2>4. prevOcc'[p] = occ'[p] /\ creditUp'[p] = (creditUp[p] \/ ReturnsCredit(p))
    BY DEF SimWork
  <2>5. partial'[p[1]] = <<>>
    BY <1>1, WorkEffect
  <2> QED BY <2>1, <2>2, <2>3, <2>4, <2>5
<1>3. ~creditUp[p]
  BY <1>1 DEF Mail
<1>4. CountOn(partial[p[1]], p[2]) = sends
  <2>1. CASE partial[p[1]] = <<>>
    <3>1. ~SendsOn(p)
      BY <2>1, WorkEffect
    <3> QED BY <1>1, <2>1, <3>1, CountEmpty
  <2>2. CASE partial[p[1]] # <<>>
    <3>1. SendsOn(p) <=> p[2] = AssignedVC[p[1]]
      BY <2>2, WorkEffect
    <3>2. /\ partial[p[1]] \in Seq(Flit) /\ Len(partial[p[1]]) = 1
          /\ partial[p[1]][1].vc = AssignedVC[p[1]]
      BY <1>1, <2>2 DEF TypeOK, Lanes, Lane
    <3>3. CountOn(partial[p[1]], p[2]) = IF partial[p[1]][1].vc = p[2] THEN 1 ELSE 0
      BY <1>1, <3>2, CountOne
    <3> QED BY <3>1, <3>2, <3>3
  <2> QED BY <2>1, <2>2
<1>5. ReturnsCredit(p) <=> occ[p] < prevOcc[p]
  BY <1>1, InferredCredit
<1>6. TakenUp(p) = 0 /\ TakenUp(p)' = IF occ[p] < prevOcc[p] THEN 1 ELSE 0
  BY <1>2, <1>3, <1>5 DEF TakenUp
<1>7. WriterCredits(p)' = writerCredits[p] + CountOn(flitQueue[p[1]], p[2]) + CountOn(<<>>, p[2])
                            + (occ[p] + sends) + TakenUp(p)'
  BY <1>2 DEF WriterCredits, CountOn
<1>8. WriterCredits(p) = writerCredits[p] + CountOn(flitQueue[p[1]], p[2])
                           + CountOn(partial[p[1]], p[2]) + prevOcc[p] + TakenUp(p)
  BY DEF WriterCredits
<1>9. /\ writerCredits[p] \in Nat /\ CountOn(flitQueue[p[1]], p[2]) \in Nat
      /\ CountOn(<<>>, p[2]) = 0
      /\ occ[p] \in Nat /\ prevOcc[p] \in Nat /\ occ[p] <= prevOcc[p] /\ prevOcc[p] <= occ[p] + 1
  BY <1>1, CountTypes, CountEmpty DEF TypeOK, Counts
<1>10. WriterCredits(p) = WriterDepth /\ sends \in {0, 1}
  BY DEF WriterOK
<1> HIDE DEF sends
<1>11. writerCredits[p] + CountOn(flitQueue[p[1]], p[2]) + sends + prevOcc[p] = WriterDepth
  BY <1>4, <1>6, <1>8, <1>9, <1>10
<1>12. WriterCredits(p)' = writerCredits[p] + CountOn(flitQueue[p[1]], p[2]) + (occ[p] + sends)
                             + TakenUp(p)'
  <2>1. TakenUp(p)' \in Nat
    BY <1>6
  <2> QED BY <1>7, <1>9, <1>10, <2>1
<1>13. CASE occ[p] < prevOcc[p]
  <2>1. TakenUp(p)' = 1 /\ prevOcc[p] = occ[p] + 1
    BY <1>6, <1>9, <1>13
  <2> QED BY <1>9, <1>10, <1>11, <1>12, <2>1
<1>14. CASE ~(occ[p] < prevOcc[p])
  <2>1. TakenUp(p)' = 0 /\ prevOcc[p] = occ[p]
    BY <1>6, <1>9, <1>14
  <2> QED BY <1>9, <1>10, <1>11, <1>12, <2>1
<1> QED BY <1>13, <1>14

LEMMA WriterStep ==
  ASSUME TypeOK, Turns, Mail, Counts, Lanes, VcsKnown, CreditsAccounted, [Next]_vars
  PROVE  WriterOK'
<1>0. WriterOK
  BY DEF CreditsAccounted, WriterOK
<1>1. ASSUME NEW S, GiveCredits(S) PROVE WriterOK'
  BY <1>0, <1>1, WriterUntouched DEF GiveCredits, writerVars, sourceVars
<1>2. CASE EjectAll
  BY <1>0, <1>2, WriterUntouched DEF EjectAll, writerVars, sourceVars, mailVars
<1>3. CASE RequestStep
  BY <1>0, <1>3, WriterUntouched DEF RequestStep, writerVars, sourceVars, mailVars
<1>4. CASE Quit
  BY <1>0, <1>4, WriterUntouched DEF Quit, writerVars, sourceVars, mailVars
<1>5. ASSUME NEW a, NEW C, SimRead(a, C) PROVE WriterOK'
  BY <1>0, <1>5, WriterUntouched DEF SimRead, rtlVars, writerVars, mailVars
<1>6. CASE UNCHANGED vars
  BY <1>0, <1>6, WriterUntouched DEF vars, rtlVars, writerVars, simVars, sourceVars, mailVars
<1> QED BY <1>0, <1>1, <1>2, <1>3, <1>4, <1>5, <1>6,
           WriterQueue, WriterInject, WriterTake, WriterWork DEF Next

-----------------------------------------------------------------------------
(* Credits from the readers to the network.                                *)

EjectOK == \A p \in Ports : EjectCredits(p) = VcBufSize

\* A flit read from the network and not yet put into a reply, and a credit given
\* and not yet taken.
Arriving(p) == IF arrived[p[1]] # None /\ arrived[p[1]].vc = p[2] THEN 1 ELSE 0
Given(p) == IF creditDown[p] THEN 1 ELSE 0

LEMMA EjectSum ==
  ASSUME TypeOK, NEW p \in Ports
  PROVE  /\ EjectCredits(p) = ejectCredits[p] + Arriving(p) + CountOn(reply[p[1]], p[2]) + held[p] + Given(p)
         /\ ejectCredits[p] \in Nat /\ held[p] \in Nat /\ CountOn(reply[p[1]], p[2]) \in Nat
         /\ Arriving(p) \in {0, 1} /\ Given(p) \in {0, 1}
  BY CountTypes DEF EjectCredits, Arriving, Given, TypeOK

LEMMA EjectUntouched ==
  ASSUME EjectOK, UNCHANGED <<ejectCredits, arrived, reply, held, creditDown>>
  PROVE  EjectOK'
  BY DEF EjectOK, EjectCredits, CountOn

LEMMA EjectGive ==
  ASSUME TypeOK, TypeOK', Turns, Mail, EjectOK, NEW S \in SUBSET Holding, GiveCredits(S)
  PROVE  EjectOK'
<1> SUFFICES ASSUME NEW p \in Ports PROVE EjectCredits(p)' = VcBufSize
  BY DEF EjectOK
<1>1. /\ pc = "give" /\ simPc = "serve"
      /\ held'[p] = IF p \in S THEN held[p] - 1 ELSE held[p]
      /\ creditDown'[p] = (creditDown[p] \/ p \in S)
      /\ UNCHANGED <<ejectCredits, arrived, reply>>
  BY DEF GiveCredits, Serving, netVars, PutDown
<1>2. ~creditDown[p]
  BY <1>1 DEF Mail
<1>3. Given(p) = 0 /\ Given(p)' = IF p \in S THEN 1 ELSE 0
  BY <1>1, <1>2 DEF Given
<1>4. Arriving(p)' = Arriving(p) /\ CountOn(reply[p[1]], p[2])' = CountOn(reply[p[1]], p[2])
  BY <1>1 DEF Arriving, CountOn
<1>5. /\ EjectCredits(p) = ejectCredits[p] + Arriving(p) + CountOn(reply[p[1]], p[2]) + held[p] + Given(p)
      /\ ejectCredits[p] \in Nat /\ held[p] \in Nat /\ CountOn(reply[p[1]], p[2]) \in Nat
      /\ Arriving(p) \in {0, 1}
  BY EjectSum
<1>6. EjectCredits(p)' = ejectCredits[p] + Arriving(p) + CountOn(reply[p[1]], p[2]) + held'[p] + Given(p)'
  <2>1. EjectCredits(p)' = ejectCredits'[p] + Arriving(p)' + CountOn(reply[p[1]], p[2])' + held'[p] + Given(p)'
    BY DEF EjectCredits, Arriving, Given
  <2> QED BY <1>1, <1>4, <2>1
<1>7. EjectCredits(p) = VcBufSize
  BY DEF EjectOK
<1>8. CASE p \in S
  <2>1. held'[p] = held[p] - 1 /\ Given(p)' = 1
    BY <1>1, <1>3, <1>8
  <2> QED BY <1>3, <1>5, <1>6, <1>7, <2>1
<1>9. CASE p \notin S
  <2>1. held'[p] = held[p] /\ Given(p)' = 0
    BY <1>1, <1>3, <1>9
  <2> QED BY <1>3, <1>5, <1>6, <1>7, <2>1
<1> QED BY <1>8, <1>9

\* While the RTL runs, the eject loop takes the one reply a node has.
LEMMA OneReply ==
  ASSUME TypeOK, Turns, Mail, pc = "eject", NEW n \in Nodes
  PROVE  \/ reply[n] = <<>> /\ FlitOut(n) = None
         \/ /\ Len(reply[n]) = 1 /\ reply[n] \in Seq(Flit)
            /\ FlitOut(n) = reply[n][1] /\ FlitOut(n) # None
<1>1. CASE reply[n] = <<>>
  BY <1>1 DEF FlitOut, Ejected
<1>2. CASE reply[n] # <<>>
  <2>1. Len(reply[n]) = 1 /\ reply[n] \in Seq(Flit)
    BY <1>2 DEF Mail, Turns, TypeOK
  <2>2. FlitOut(n) = reply[n][1] /\ reply[n][1] \in Flit
    BY <1>2, <2>1 DEF FlitOut, Ejected
  <2> QED BY <2>1, <2>2, NoneAssumption
<1> QED BY <1>1, <1>2

LEMMA EjectLoop ==
  ASSUME TypeOK, TypeOK', Turns, Mail, EjectOK, EjectAll
  PROVE  EjectOK'
<1> SUFFICES ASSUME NEW p \in Ports PROVE EjectCredits(p)' = VcBufSize
  BY DEF EjectOK
<1> DEFINE on == FlitOut(p[1]) # None /\ FlitOut(p[1]).vc = p[2]
<1>1. /\ p[1] \in Nodes /\ p[2] \in VCs /\ pc = "eject"
      /\ held'[p] = IF on THEN held[p] + 1 ELSE held[p]
      /\ UNCHANGED <<ejectCredits, arrived, creditDown>>
  BY PortParts DEF EjectAll, mailVars, netVars
<1>2. reply'[p[1]] = <<>>
  BY <1>1, AllTaken DEF EjectAll
<1>3. CountOn(reply[p[1]], p[2]) = IF on THEN 1 ELSE 0
  BY <1>1, OneReply, CountEmpty, CountOne
<1>4. CountOn(reply[p[1]], p[2])' = 0
  <2>1. CountOn(reply[p[1]], p[2])' = CountOn(<<>>, p[2])
    BY <1>2 DEF CountOn
  <2> QED BY <1>1, <2>1, CountEmpty
<1>5. Arriving(p)' = Arriving(p) /\ Given(p)' = Given(p)
  BY <1>1 DEF Arriving, Given
<1>6. /\ EjectCredits(p) = ejectCredits[p] + Arriving(p) + CountOn(reply[p[1]], p[2]) + held[p] + Given(p)
      /\ ejectCredits[p] \in Nat /\ held[p] \in Nat
      /\ Arriving(p) \in {0, 1} /\ Given(p) \in {0, 1}
  BY EjectSum
<1>7. EjectCredits(p)' = ejectCredits[p] + Arriving(p) + 0 + held'[p] + Given(p)
  <2>1. EjectCredits(p)' = ejectCredits'[p] + Arriving(p)' + CountOn(reply[p[1]], p[2])' + held'[p] + Given(p)'
    BY DEF EjectCredits, Arriving, Given
  <2> QED BY <1>1, <1>4, <1>5, <2>1
<1>8. EjectCredits(p) = VcBufSize
  BY DEF EjectOK
<1> HIDE DEF on
<1>9. CASE on
  <2>1. held'[p] = held[p] + 1 /\ CountOn(reply[p[1]], p[2]) = 1
    BY <1>1, <1>3, <1>9
  <2> QED BY <1>6, <1>7, <1>8, <2>1
<1>10. CASE ~on
  <2>1. held'[p] = held[p] /\ CountOn(reply[p[1]], p[2]) = 0
    BY <1>1, <1>3, <1>10
  <2> QED BY <1>6, <1>7, <1>8, <2>1
<1> QED BY <1>9, <1>10

LEMMA EjectRead ==
  ASSUME TypeOK, TypeOK', Mail, EjectOK, NEW a \in Arrivals, NEW C \in SUBSET Occupied, SimRead(a, C)
  PROVE  EjectOK'
<1> SUFFICES ASSUME NEW p \in Ports PROVE EjectCredits(p)' = VcBufSize
  BY DEF EjectOK
<1> DEFINE on == a[p[1]] # None /\ a[p[1]][2] = p[2]
<1>1. /\ p[1] \in Nodes /\ simPc = "read"
      /\ ejectCredits'[p] = IF on THEN ejectCredits[p] - 1 ELSE ejectCredits[p]
      /\ UNCHANGED <<held, reply, creditDown>>
  BY PortParts DEF SimRead, rtlVars, readerVars, mailVars
<1>2. arrived[p[1]] = None
  BY <1>1 DEF Mail
<1>3. Arriving(p) = 0 /\ Arriving(p)' = IF on THEN 1 ELSE 0
  <2>1. a[p[1]] = None => arrived'[p[1]] = None
    BY <1>1 DEF SimRead
  <2>2. a[p[1]] # None => arrived'[p[1]] # None /\ arrived'[p[1]].vc = a[p[1]][2]
    BY <1>1, Ejecting, NoneAssumption
  <2> QED BY <1>2, <2>1, <2>2 DEF Arriving
<1>4. Given(p)' = Given(p) /\ CountOn(reply[p[1]], p[2])' = CountOn(reply[p[1]], p[2])
  BY <1>1 DEF Given, CountOn
<1>5. /\ EjectCredits(p) = ejectCredits[p] + Arriving(p) + CountOn(reply[p[1]], p[2]) + held[p] + Given(p)
      /\ ejectCredits[p] \in Nat /\ held[p] \in Nat /\ CountOn(reply[p[1]], p[2]) \in Nat
      /\ Given(p) \in {0, 1}
  BY EjectSum
<1>6. EjectCredits(p)' = ejectCredits'[p] + Arriving(p)' + CountOn(reply[p[1]], p[2]) + held[p] + Given(p)
  <2>1. EjectCredits(p)' = ejectCredits'[p] + Arriving(p)' + CountOn(reply[p[1]], p[2])' + held'[p] + Given(p)'
    BY DEF EjectCredits, Arriving, Given
  <2> QED BY <1>1, <1>4, <2>1
<1>7. EjectCredits(p) = VcBufSize
  BY DEF EjectOK
<1> HIDE DEF on
<1>8. CASE on
  <2>1. ejectCredits'[p] = ejectCredits[p] - 1 /\ Arriving(p)' = 1
    BY <1>1, <1>3, <1>8
  <2> QED BY <1>3, <1>5, <1>6, <1>7, <2>1
<1>9. CASE ~on
  <2>1. ejectCredits'[p] = ejectCredits[p] /\ Arriving(p)' = 0
    BY <1>1, <1>3, <1>9
  <2> QED BY <1>3, <1>5, <1>6, <1>7, <2>1
<1> QED BY <1>8, <1>9

LEMMA EjectWork ==
  ASSUME TypeOK, TypeOK', EjectOK, SimWork
  PROVE  EjectOK'
<1> SUFFICES ASSUME NEW p \in Ports PROVE EjectCredits(p)' = VcBufSize
  BY DEF EjectOK
<1>1. p[1] \in Nodes /\ p[2] \in VCs
  BY PortParts
<1>2. /\ ejectCredits'[p] = IF creditDown[p] THEN ejectCredits[p] + 1 ELSE ejectCredits[p]
      /\ ~creditDown'[p] /\ arrived'[p[1]] = None /\ held' = held
      /\ reply'[p[1]] = IF arrived[p[1]] = None THEN reply[p[1]] ELSE Append(reply[p[1]], arrived[p[1]])
  BY <1>1 DEF SimWork, Freed, Replies, rtlVars, readerVars
<1>3. CountOn(reply'[p[1]], p[2]) = CountOn(reply[p[1]], p[2]) + Arriving(p)
  <2>1. CASE arrived[p[1]] = None
    <3>1. CountOn(reply[p[1]], p[2]) \in Nat
      BY EjectSum
    <3> QED BY <1>2, <2>1, <3>1 DEF Arriving
  <2>2. CASE arrived[p[1]] # None
    <3>1. arrived[p[1]] \in Flit /\ reply[p[1]] \in Seq(Flit)
      BY <1>1, <2>2 DEF TypeOK
    <3>2. CountOn(Append(reply[p[1]], arrived[p[1]]), p[2])
            = CountOn(reply[p[1]], p[2]) + (IF arrived[p[1]].vc = p[2] THEN 1 ELSE 0)
      BY <1>1, <3>1, CountAppend
    <3> QED BY <1>2, <2>2, <3>2 DEF Arriving
  <2> QED BY <2>1, <2>2
<1>4. Arriving(p)' = 0 /\ Given(p)' = 0
  BY <1>2 DEF Arriving, Given
<1>5. /\ EjectCredits(p) = ejectCredits[p] + Arriving(p) + CountOn(reply[p[1]], p[2]) + held[p] + Given(p)
      /\ ejectCredits[p] \in Nat /\ held[p] \in Nat /\ CountOn(reply[p[1]], p[2]) \in Nat
      /\ Arriving(p) \in {0, 1}
  BY EjectSum
<1>6. EjectCredits(p)' = ejectCredits'[p] + 0 + (CountOn(reply[p[1]], p[2]) + Arriving(p)) + held[p] + 0
  <2>1. EjectCredits(p)' = ejectCredits'[p] + Arriving(p)' + CountOn(reply'[p[1]], p[2]) + held'[p] + Given(p)'
    BY DEF EjectCredits, Arriving, Given, CountOn
  <2> QED BY <1>2, <1>3, <1>4, <2>1
<1>7. EjectCredits(p) = VcBufSize
  BY DEF EjectOK
<1>8. ejectCredits'[p] = ejectCredits[p] + Given(p) /\ Given(p) \in {0, 1}
  BY <1>2, <1>5 DEF Given
<1> QED BY <1>5, <1>6, <1>7, <1>8

LEMMA EjectStep ==
  ASSUME TypeOK, TypeOK', Turns, Mail, CreditsAccounted, [Next]_vars
  PROVE  EjectOK'
<1>0. EjectOK
  BY DEF CreditsAccounted, EjectOK
<1>1. ASSUME NEW d, Queue(d) PROVE EjectOK'
  BY <1>0, <1>1, EjectUntouched DEF Queue, readerVars, simVars, mailVars, netVars
<1>2. CASE Inject
  BY <1>0, <1>2, EjectUntouched DEF Inject, readerVars, mailVars, netVars
<1>3. CASE TakeCredits
  BY <1>0, <1>3, EjectUntouched DEF TakeCredits, readerVars, netVars
<1>4. CASE RequestStep
  BY <1>0, <1>4, EjectUntouched DEF RequestStep, readerVars, mailVars, netVars
<1>5. CASE Quit
  BY <1>0, <1>5, EjectUntouched DEF Quit, readerVars, mailVars, netVars
<1>6. CASE UNCHANGED vars
  BY <1>0, <1>6, EjectUntouched DEF vars, rtlVars, readerVars, simVars, mailVars, netVars
<1> QED BY <1>0, <1>1, <1>2, <1>3, <1>4, <1>5, <1>6,
           EjectGive, EjectLoop, EjectRead, EjectWork DEF Next

-----------------------------------------------------------------------------
(* Packets and the nodes they are of.                                      *)

LEMMA PidsUntouched ==
  ASSUME PidsOnce, nextPid' = nextPid, packetVc' = packetVc,
         \A n \in Nodes, k \in Nat : At(n, k)' => At(n, k)
  PROVE  PidsOnce'
<1>1. \A n \in Nodes, k \in Nat : At(n, k)' => k < nextPid'
  BY DEF PidsOnce
<1>2. \A m, n \in Nodes, k \in Nat : At(m, k)' /\ At(n, k)' => m = n
  <2> HIDE DEF At
  <2> QED BY DEF PidsOnce
<1>3. nextPid' <= MaxPackets /\ \A k \in Pids : packetVc'[k] # None => k < nextPid'
  BY DEF PidsOnce
<1> HIDE DEF At
<1> QED BY <1>1, <1>2, <1>3 DEF PidsOnce

\* The packet of the flit offered at n: the one begun there, or a new one.
LEMMA OfferedPacket ==
  ASSUME TypeOK, PidsOnce, NEW d \in [Nodes -> Offers \cup {None}], Queue(d), NEW n \in Offering(d)
  PROVE  /\ current[n] # None => PacketOf(d, n).pid = current[n].pid
         /\ current[n] = None => /\ n \in Beginning(d)
                                 /\ PacketOf(d, n).pid = nextPid + Before(Beginning(d), n)
                                 /\ PacketOf(d, n).pid >= nextPid /\ PacketOf(d, n).pid < nextPid'
                                 /\ PacketOf(d, n).pid \in Pids
<1>1. current[n] # None => PacketOf(d, n).pid = current[n].pid
  BY DEF PacketOf
<1>2. ASSUME current[n] = None
      PROVE  /\ n \in Beginning(d)
             /\ PacketOf(d, n).pid = nextPid + Before(Beginning(d), n)
  BY <1>2 DEF PacketOf, Beginning
<1>3. ASSUME current[n] = None
      PROVE  nextPid + Before(Beginning(d), n) \in nextPid .. nextPid' - 1 /\ nextPid' <= MaxPackets
  <2>1. Beginning(d) \in SUBSET Nodes
    BY DEF Beginning, Offering
  <2>2. /\ Cardinality(Beginning(d)) \in Nat /\ Before(Beginning(d), n) \in Nat
        /\ Before(Beginning(d), n) < Cardinality(Beginning(d))
    BY <1>2, <1>3, <2>1, Numbered
  <2>3. /\ nextPid \in Nat /\ nextPid' = nextPid + Cardinality(Beginning(d))
        /\ nextPid' <= MaxPackets
    BY DEF TypeOK, Queue
  <2> QED BY <2>2, <2>3
<1>4. nextPid \in Nat /\ MaxPackets \in Nat /\ nextPid' \in Int
  <2>1. Beginning(d) \in SUBSET Nodes
    BY DEF Beginning, Offering
  <2>2. Cardinality(Beginning(d)) \in Nat
    BY <2>1, Numbered
  <2> QED BY <2>2, CosimAssumption DEF TypeOK, Queue
<1> QED BY <1>1, <1>2, <1>3, <1>4 DEF Pids

\* What a node is at work on when the loop over the nodes has queued its flit.
LEMMA AtQueue ==
  ASSUME TypeOK, Lanes, PidsOnce, NEW d \in [Nodes -> Offers \cup {None}], Queue(d),
         NEW n \in Nodes, NEW k \in Nat, At(n, k)'
  PROVE  \/ At(n, k)
         \/ n \in Beginning(d) /\ k = nextPid + Before(Beginning(d), n)
<1>1. flitQueue[n] = <<>> /\ partial' = partial
  BY DEF Lanes, Lane, Queue, simVars, sourceVars
<1>2. CASE n \notin Offering(d)
  BY <1>1, <1>2 DEF At, Queue
<1>3. CASE n \in Offering(d)
  <2>1. flitQueue'[n] = Append(<<>>, FlitOf(d, n)) /\ FlitOf(d, n) \in Flit /\ PacketOf(d, n) \in Packet
    BY <1>1, <1>3, QueuedTypes DEF Queue
  <2>2. flitQueue'[n][1] = FlitOf(d, n) /\ FlitOf(d, n).pid = PacketOf(d, n).pid
    BY <2>1 DEF FlitOf
  <2>3. current'[n] # None => current'[n] = [PacketOf(d, n) EXCEPT !.sent = @ + 1]
    BY <1>3 DEF Queue
  <2>4. current'[n] # None => current'[n].pid = PacketOf(d, n).pid
    BY <2>1, <2>3 DEF Packet
  <2>5. k = PacketOf(d, n).pid \/ (partial[n] # <<>> /\ partial[n][1].pid = k)
    BY <1>1, <2>2, <2>4 DEF At
  <2>6. CASE k = PacketOf(d, n).pid
    BY <1>3, <2>6, OfferedPacket DEF At
  <2> QED BY <2>5, <2>6 DEF At
<1> QED BY <1>2, <1>3

LEMMA PidsQueue ==
  ASSUME TypeOK, Lanes, PidsOnce, NEW d \in [Nodes -> Offers \cup {None}], Queue(d)
  PROVE  PidsOnce'
<1> DEFINE B == Beginning(d)
           New(n, k) == n \in B /\ k = nextPid + Before(B, n)
<1>1. B \in SUBSET Nodes
  BY DEF Beginning, Offering
<1>2. /\ Cardinality(B) \in Nat
      /\ \A n \in B : Before(B, n) \in Nat /\ Before(B, n) < Cardinality(B)
      /\ \A m, n \in B : m < n => Before(B, m) < Before(B, n)
  BY <1>1, Numbered
<1>3. nextPid \in Nat /\ nextPid' = nextPid + Cardinality(B) /\ nextPid' <= MaxPackets /\ packetVc' = packetVc
  BY DEF TypeOK, Queue, simVars, sourceVars
<1>4. \A n \in Nodes, k \in Nat : At(n, k)' => At(n, k) \/ New(n, k)
  BY AtQueue
<1>5. \A n \in Nodes, k \in Nat : At(n, k) => k < nextPid
  BY DEF PidsOnce
<1> HIDE DEF B
<1>6. \A n \in Nodes, k \in Nat : New(n, k) => k >= nextPid /\ k < nextPid'
  BY <1>2, <1>3
<1>7. \A m, n \in Nodes, k \in Nat : New(m, k) /\ New(n, k) => m = n
  <2> SUFFICES ASSUME NEW m \in Nodes, NEW n \in Nodes, NEW k \in Nat, New(m, k), New(n, k)
               PROVE  m = n
    OBVIOUS
  <2>1. m \in Int /\ n \in Int
    BY CosimAssumption DEF Nodes
  <2>2. Before(B, m) = Before(B, n)
    BY <1>2, <1>3
  <2>3. ~(m < n) /\ ~(n < m)
    BY <1>2, <2>2
  <2> QED BY <2>1, <2>3
<1> HIDE DEF New
<1>8. \A n \in Nodes, k \in Nat : At(n, k)' => k < nextPid'
  <2> SUFFICES ASSUME NEW n \in Nodes, NEW k \in Nat, At(n, k)' PROVE k < nextPid'
    OBVIOUS
  <2>1. At(n, k) \/ New(n, k)
    BY <1>4
  <2> HIDE DEF At
  <2> QED BY <1>2, <1>3, <1>5, <1>6, <2>1
<1>9. \A m, n \in Nodes, k \in Nat : At(m, k)' /\ At(n, k)' => m = n
  <2> SUFFICES ASSUME NEW m \in Nodes, NEW n \in Nodes, NEW k \in Nat, At(m, k)', At(n, k)'
               PROVE  m = n
    BY DEF At
  <2>1. (At(m, k) \/ New(m, k)) /\ (At(n, k) \/ New(n, k))
    BY <1>4
  <2>2. At(m, k) /\ At(n, k) => m = n
    <3> HIDE DEF At
    <3> QED BY DEF PidsOnce
  <2>3. ~(At(m, k) /\ New(n, k)) /\ ~(New(m, k) /\ At(n, k))
    <3> HIDE DEF At
    <3> QED BY <1>3, <1>5, <1>6
  <2> QED BY <1>7, <2>1, <2>2, <2>3
<1>10. \A k \in Pids : packetVc'[k] # None => k < nextPid'
  <2> SUFFICES ASSUME NEW k \in Pids, packetVc[k] # None PROVE k < nextPid'
    BY <1>3
  <2>1. k < nextPid /\ k \in Int
    BY CosimAssumption DEF PidsOnce, Pids
  <2> QED BY <1>2, <1>3, <2>1
<1> HIDE DEF At
<1> QED BY <1>3, <1>8, <1>9, <1>10 DEF PidsOnce

\* A flit that BookSim sends is of a packet of its node.
LEMMA SourceIsAt ==
  ASSUME TypeOK, Counts, Lanes, VcsKnown, CreditsAccounted, simPc = "work",
         NEW k \in Pids, NEW n \in Sources(k)
  PROVE  n \in Nodes /\ At(n, k) /\ partial[n] # <<>> /\ partial[n][1].pid = k
         /\ FrontVc(n) = AssignedVC[n]
<1>1. n \in Nodes /\ Sends(n) /\ Head(partial[n]).pid = k
  BY DEF Sources
<1>2. partial[n] # <<>>
  BY <1>1 DEF Sends
<1>3. Head(partial[n]) = partial[n][1] /\ FrontVc(n) = AssignedVC[n]
  BY <1>1, <1>2, FrontIsSent
<1> QED BY <1>1, <1>2, <1>3 DEF At

LEMMA PidsWork ==
  ASSUME TypeOK, Counts, Lanes, VcsKnown, PidsOnce, CreditsAccounted, SimWork
  PROVE  PidsOnce'
<1>1. UNCHANGED <<nextPid, current, flitQueue>> /\ simPc = "work"
  BY DEF SimWork, rtlVars, writerVars
<1>2. \A n \in Nodes : partial'[n] = <<>>
  BY WorkEffect
<1>3. \A n \in Nodes, k \in Nat : At(n, k)' => At(n, k)
  BY <1>1, <1>2 DEF At
<1>4. \A k \in Pids : packetVc'[k] # None => k < nextPid
  <2> SUFFICES ASSUME NEW k \in Pids, packetVc'[k] # None, packetVc[k] = None PROVE k < nextPid
    BY DEF PidsOnce
  <2>1. Sources(k) # {}
    BY DEF SimWork
  <2>2. PICK n \in Sources(k) : TRUE
    BY <2>1
  <2>3. n \in Nodes /\ At(n, k)
    BY <1>1, SourceIsAt
  <2>4. k \in Nat
    BY CosimAssumption DEF Pids
  <2> HIDE DEF At
  <2> QED BY <2>3, <2>4 DEF PidsOnce
<1>5. \A n \in Nodes, k \in Nat : At(n, k)' => k < nextPid'
  BY <1>1, <1>3 DEF PidsOnce
<1>6. \A m, n \in Nodes, k \in Nat : At(m, k)' /\ At(n, k)' => m = n
  <2> HIDE DEF At
  <2> QED BY <1>3 DEF PidsOnce
<1>7. nextPid' <= MaxPackets
  BY <1>1 DEF PidsOnce
<1> HIDE DEF At
<1> QED BY <1>1, <1>4, <1>5, <1>6, <1>7 DEF PidsOnce

LEMMA PidsInject ==
  ASSUME TypeOK, Lanes, Turns, PidsOnce, Inject
  PROVE  PidsOnce'
<1>1. /\ UNCHANGED <<nextPid, current, packetVc>>
      /\ \A n \in Nodes : partial'[n] = flitQueue[n] /\ flitQueue'[n] = <<>>
  <2>1. \A n \in Nodes : partial[n] = <<>> /\ flitQueue[n] \in Seq(Flit)
    BY DEF Inject, Serving, Lanes, Lane, TypeOK
  <2>2. \A n \in Nodes : partial'[n] = partial[n] \o flitQueue[n] /\ flitQueue'[n] = <<>>
    BY DEF Inject, RequestBuffer
  <2>3. \A n \in Nodes : partial'[n] = flitQueue[n]
    <3> SUFFICES ASSUME NEW n \in Nodes PROVE partial'[n] = flitQueue[n]
      OBVIOUS
    <3>1. partial'[n] = <<>> \o flitQueue[n]
      BY <2>1, <2>2
    <3> QED BY <2>1, <3>1, EmptyBefore
  <2> QED BY <2>2, <2>3 DEF Inject
<1>2. \A n \in Nodes, k \in Nat : At(n, k)' => At(n, k)
  BY <1>1 DEF At
<1> QED BY <1>1, <1>2, PidsUntouched

LEMMA PidsStep ==
  ASSUME TypeOK, Turns, Counts, Lanes, VcsKnown, PidsOnce, CreditsAccounted, [Next]_vars
  PROVE  PidsOnce'
<1>1. ASSUME UNCHANGED <<nextPid, packetVc, current, flitQueue, partial>> PROVE PidsOnce'
  <2>1. \A n \in Nodes, k \in Nat : At(n, k)' => At(n, k)
    BY <1>1 DEF At
  <2> QED BY <1>1, <2>1, PidsUntouched
<1>2. ASSUME NEW S, GiveCredits(S) PROVE PidsOnce'
  BY <1>1, <1>2 DEF GiveCredits, writerVars, sourceVars
<1>3. CASE TakeCredits
  BY <1>1, <1>3 DEF TakeCredits, sourceVars
<1>4. CASE EjectAll
  BY <1>1, <1>4 DEF EjectAll, writerVars, sourceVars
<1>5. CASE RequestStep
  BY <1>1, <1>5 DEF RequestStep, writerVars, sourceVars
<1>6. CASE Quit
  BY <1>1, <1>6 DEF Quit, writerVars, sourceVars
<1>7. ASSUME NEW a, NEW C, SimRead(a, C) PROVE PidsOnce'
  BY <1>1, <1>7 DEF SimRead, rtlVars, writerVars
<1>8. CASE UNCHANGED vars
  BY <1>1, <1>8 DEF vars, rtlVars, writerVars, simVars, sourceVars
<1> QED BY <1>2, <1>3, <1>4, <1>5, <1>6, <1>7, <1>8, PidsQueue, PidsInject, PidsWork DEF Next

-----------------------------------------------------------------------------
(* The VC of each packet.                                                  *)

LEMMA VcsQueue ==
  ASSUME TypeOK, Turns, Lanes, VcsKnown, PidsOnce, NEW d \in [Nodes -> Offers \cup {None}], Queue(d)
  PROVE  VcsKnown'
<1>1. UNCHANGED <<partial, packetVc>>
  BY DEF Queue, simVars, sourceVars
<1> SUFFICES ASSUME NEW n \in Nodes
             PROVE  /\ flitQueue'[n] # <<>> =>
                         \/ Known(n, flitQueue'[n][1].pid)
                         \/ flitQueue'[n][1].head /\ packetVc[flitQueue'[n][1].pid] = None
                    /\ current'[n] # None =>
                         \/ Known(n, current'[n].pid)
                         \/ flitQueue'[n] # <<>> /\ flitQueue'[n][1].pid = current'[n].pid
  BY <1>1 DEF VcsKnown, Known
<1>2. flitQueue[n] = <<>>
  BY DEF Lanes, Lane, Queue
<1>3. CASE n \notin Offering(d)
  BY <1>2, <1>3 DEF Queue, VcsKnown
<1>4. CASE n \in Offering(d)
  <2>1. flitQueue'[n] = Append(<<>>, FlitOf(d, n)) /\ FlitOf(d, n) \in Flit /\ PacketOf(d, n) \in Packet
    BY <1>2, <1>4, QueuedTypes DEF Queue
  <2>2. /\ flitQueue'[n] # <<>> /\ flitQueue'[n][1] = FlitOf(d, n)
        /\ FlitOf(d, n).pid = PacketOf(d, n).pid
        /\ FlitOf(d, n).head <=> current[n] = None
    <3>1. flitQueue'[n] # <<>> /\ flitQueue'[n][1] = FlitOf(d, n)
      BY <2>1
    <3>2. /\ FlitOf(d, n).pid = PacketOf(d, n).pid
          /\ FlitOf(d, n).head <=> current[n] = None
      BY DEF FlitOf
    <3> QED BY <3>1, <3>2
  <2>3. current'[n] # None => current'[n] = [PacketOf(d, n) EXCEPT !.sent = @ + 1]
    BY <1>4 DEF Queue
  <2>4. current'[n] # None => current'[n].pid = PacketOf(d, n).pid
    BY <2>1, <2>3 DEF Packet
  <2>5. current[n] = None => packetVc[PacketOf(d, n).pid] = None
    <3> SUFFICES ASSUME current[n] = None PROVE packetVc[PacketOf(d, n).pid] = None
      OBVIOUS
    <3> DEFINE k == PacketOf(d, n).pid
    <3>1. k \in Pids /\ k >= nextPid
      BY <1>4, OfferedPacket
    <3>2. k \in Int /\ nextPid \in Int
      BY <3>1, CosimAssumption DEF Pids, TypeOK
    <3> HIDE DEF k
    <3>3. packetVc[k] = None
      BY <3>1, <3>2 DEF PidsOnce
    <3> QED BY <3>3 DEF k
  <2>6. current[n] # None => Known(n, PacketOf(d, n).pid)
    BY <1>2, <1>4, OfferedPacket DEF VcsKnown
  <2> QED BY <2>2, <2>4, <2>5, <2>6
<1> QED BY <1>3, <1>4

LEMMA VcsInject ==
  ASSUME TypeOK, Lanes, VcsKnown, Inject
  PROVE  VcsKnown'
<1>1. UNCHANGED <<current, packetVc>>
  BY DEF Inject
<1> SUFFICES ASSUME NEW n \in Nodes
             PROVE  /\ flitQueue'[n] = <<>>
                    /\ partial'[n] # <<>> =>
                         \/ packetVc[partial'[n][1].pid] = AssignedVC[n]
                         \/ partial'[n][1].head /\ packetVc[partial'[n][1].pid] = None
                    /\ current[n] # None => Known(n, current[n].pid)'
  BY <1>1 DEF VcsKnown, Known
<1>2. partial[n] = <<>> /\ flitQueue[n] \in Seq(Flit)
  BY DEF Inject, Serving, Lanes, Lane, TypeOK
<1>3. flitQueue'[n] = <<>> /\ partial'[n] = flitQueue[n]
  <2>1. flitQueue'[n] = <<>> /\ partial'[n] = <<>> \o flitQueue[n]
    BY <1>2 DEF Inject, RequestBuffer
  <2> QED BY <1>2, <2>1, EmptyBefore
<1> QED BY <1>1, <1>2, <1>3 DEF VcsKnown, Known

LEMMA VcsWork ==
  ASSUME TypeOK, Counts, Lanes, VcsKnown, PidsOnce, CreditsAccounted, SimWork
  PROVE  VcsKnown'
<1>1. UNCHANGED <<current, flitQueue>> /\ simPc = "work"
  BY DEF SimWork, rtlVars, writerVars
<1>2. \A n \in Nodes : partial'[n] = <<>>
  BY WorkEffect
<1>3. ASSUME NEW n \in Nodes, NEW k \in Nat, At(n, k)
      PROVE  k \in Pids
  <2>1. k < nextPid /\ nextPid <= MaxPackets /\ nextPid \in Nat /\ MaxPackets \in Nat
    BY <1>3, CosimAssumption DEF PidsOnce, TypeOK
  <2> QED BY <2>1 DEF Pids
<1>4. ASSUME NEW n \in Nodes, NEW k \in Nat, At(n, k), Known(n, k)
      PROVE  packetVc'[k] = AssignedVC[n]
  <2>1. k \in Pids
    BY <1>3, <1>4
  <2>2. packetVc'[k] = IF packetVc[k] = None /\ Sources(k) # {}
                       THEN FrontVc(CHOOSE m \in Sources(k) : TRUE) ELSE packetVc[k]
    BY <2>1 DEF SimWork
  <2>3. CASE packetVc[k] = AssignedVC[n]
    BY <2>2, <2>3, LanePort, NoneAssumption
  <2>4. CASE packetVc[k] # AssignedVC[n]
    <3>1. partial[n] # <<>> /\ partial[n][1].pid = k /\ packetVc[k] = None
      BY <1>4, <2>4 DEF Known, VcsKnown
    <3>2. Sends(n) /\ Head(partial[n]) = partial[n][1] /\ FrontVc(n) = AssignedVC[n]
      BY <1>1, <3>1, FrontIsSent
    <3>3. n \in Sources(k)
      BY <3>1, <3>2 DEF Sources
    <3>4. \A m \in Sources(k) : m = n
      <4> SUFFICES ASSUME NEW m \in Sources(k) PROVE m = n
        OBVIOUS
      <4>1. m \in Nodes /\ At(m, k)
        BY <1>1, <2>1, SourceIsAt
      <4> HIDE DEF At
      <4> QED BY <1>4, <4>1 DEF PidsOnce
    <3>5. (CHOOSE m \in Sources(k) : TRUE) = n
      BY <3>3, <3>4
    <3> QED BY <2>2, <3>1, <3>2, <3>3, <3>5
  <2> QED BY <2>3, <2>4
<1>5. ASSUME NEW n \in Nodes, NEW k \in Nat, At(n, k), ~Known(n, k), packetVc[k] = None
      PROVE  packetVc'[k] = None
  <2>1. k \in Pids
    BY <1>3, <1>5
  <2>2. Sources(k) = {}
    <3> SUFFICES ASSUME NEW m \in Sources(k) PROVE FALSE
      OBVIOUS
    <3>1. m \in Nodes /\ At(m, k) /\ partial[m] # <<>> /\ partial[m][1].pid = k
      BY <1>1, <2>1, SourceIsAt
    <3>2. m = n
      <4> HIDE DEF At
      <4> QED BY <1>5, <3>1 DEF PidsOnce
    <3> QED BY <1>5, <3>1, <3>2 DEF Known
  <2> QED BY <1>5, <2>1, <2>2 DEF SimWork
<1> SUFFICES ASSUME NEW n \in Nodes
             PROVE  /\ flitQueue[n] # <<>> =>
                         \/ packetVc'[flitQueue[n][1].pid] = AssignedVC[n]
                         \/ flitQueue[n][1].head /\ packetVc'[flitQueue[n][1].pid] = None
                    /\ current[n] # None =>
                         \/ packetVc'[current[n].pid] = AssignedVC[n]
                         \/ flitQueue[n] # <<>> /\ flitQueue[n][1].pid = current[n].pid
  BY <1>1, <1>2 DEF VcsKnown, Known
<1>6. flitQueue[n] # <<>> => flitQueue[n][1].pid \in Nat /\ At(n, flitQueue[n][1].pid)
  <2>1. flitQueue[n] \in Seq(Flit)
    BY DEF TypeOK
  <2>2. flitQueue[n] # <<>> => flitQueue[n][1] \in Flit
    BY <2>1
  <2> QED BY <2>2 DEF At, Flit
<1>7. current[n] # None => current[n].pid \in Nat /\ At(n, current[n].pid)
  BY DEF TypeOK, Packet, At
<1>8. flitQueue[n] # <<>> =>
         \/ Known(n, flitQueue[n][1].pid)
         \/ flitQueue[n][1].head /\ packetVc[flitQueue[n][1].pid] = None
  BY DEF VcsKnown
<1>9. current[n] # None =>
         \/ Known(n, current[n].pid)
         \/ flitQueue[n] # <<>> /\ flitQueue[n][1].pid = current[n].pid
  BY DEF VcsKnown
<1> HIDE DEF Known, At
<1> QED BY <1>4, <1>5, <1>6, <1>7, <1>8, <1>9

LEMMA VcsStep ==
  ASSUME TypeOK, Turns, Counts, Lanes, VcsKnown, PidsOnce, CreditsAccounted, [Next]_vars
  PROVE  VcsKnown'
<1>1. ASSUME UNCHANGED <<packetVc, current, flitQueue, partial>> PROVE VcsKnown'
  BY <1>1 DEF VcsKnown, Known
<1>2. ASSUME NEW S, GiveCredits(S) PROVE VcsKnown'
  BY <1>1, <1>2 DEF GiveCredits, writerVars, sourceVars
<1>3. CASE TakeCredits
  BY <1>1, <1>3 DEF TakeCredits, sourceVars
<1>4. CASE EjectAll
  BY <1>1, <1>4 DEF EjectAll, writerVars, sourceVars
<1>5. CASE RequestStep
  BY <1>1, <1>5 DEF RequestStep, writerVars, sourceVars
<1>6. CASE Quit
  BY <1>1, <1>6 DEF Quit, writerVars, sourceVars
<1>7. ASSUME NEW a, NEW C, SimRead(a, C) PROVE VcsKnown'
  BY <1>1, <1>7 DEF SimRead, rtlVars, writerVars
<1>8. CASE UNCHANGED vars
  BY <1>1, <1>8 DEF vars, rtlVars, writerVars, simVars, sourceVars
<1> QED BY <1>2, <1>3, <1>4, <1>5, <1>6, <1>7, <1>8, VcsQueue, VcsInject, VcsWork DEF Next

-----------------------------------------------------------------------------
(* The order of the flits of a packet, and the VCs on which they arrive.   *)

\* The identifiers of the flits of packet k in each place, from the reader to the
\* writer.
FidsOf(q) == {q[i].fid : i \in 1 .. Len(q)}
Replied(k) == {reply[n][1].fid : n \in {m \in Nodes : reply[m] # <<>> /\ reply[m][1].pid = k}}
Read(k) == {arrived[n].fid : n \in {m \in Nodes : arrived[m] # None /\ arrived[m].pid = k}}
InNet(k) == FidsOf(net[k])
ToSend(k) == {partial[n][1].fid : n \in {m \in Nodes : partial[m] # <<>> /\ partial[m][1].pid = k}}
Queued(k) == {flitQueue[n][1].fid : n \in {m \in Nodes : flitQueue[m] # <<>> /\ flitQueue[m][1].pid = k}}
InFlight(k) == Replied(k) \cup Read(k) \cup InNet(k) \cup ToSend(k) \cup Queued(k)

Below(S, T) == \A i \in S, j \in T : i < j
OneOf(S) == \A i, j \in S : i = j
Ascending(q) == \A i, j \in 1 .. Len(q) : i < j => q[i].fid < q[j].fid

\* A packet's flits are one behind the other.
Ordered(k) ==
  /\ OneOf(Replied(k)) /\ OneOf(Read(k)) /\ Ascending(net[k])
  /\ Below(Replied(k), Read(k)) /\ Below(Replied(k), InNet(k))
  /\ Below(Replied(k), ToSend(k)) /\ Below(Replied(k), Queued(k))
  /\ Below(Read(k), InNet(k)) /\ Below(Read(k), ToSend(k)) /\ Below(Read(k), Queued(k))
  /\ Below(InNet(k), ToSend(k)) /\ Below(InNet(k), Queued(k))
  /\ Below(ToSend(k), Queued(k))

\* Flits are numbered as they are queued, and the network has them by packet.
Numbers(k) ==
  /\ Ordered(k)
  /\ \A i \in InFlight(k) : i < nextFid
  /\ \A i \in 1 .. Len(net[k]) : net[k][i].pid = k

\* data_set has only flits that are on their way.
Data == \A e \in dataSet : e.pid \in Pids /\ e.fid \in InFlight(e.pid)

\* No two flits have the same number, not even of different packets.
Apart == \A k, l \in Pids : k # l => InFlight(k) \cap InFlight(l) = {}

Order == ~simDone => Data /\ Apart /\ \A k \in Pids : Numbers(k)

LEMMA FidsTail ==
  ASSUME NEW q \in Seq(Flit), q # <<>>, Ascending(q)
  PROVE  /\ FidsOf(q) = {q[1].fid} \cup FidsOf(Tail(q))
         /\ Below({q[1].fid}, FidsOf(Tail(q)))
         /\ Ascending(Tail(q))
<1>1. /\ Len(q) \in Nat /\ Len(q) > 0 /\ Len(Tail(q)) = Len(q) - 1
      /\ \A i \in 1 .. Len(q) - 1 : Tail(q)[i] = q[i + 1]
  OBVIOUS
<1>2. \A i \in 1 .. Len(q) : i = 1 \/ (i - 1 \in 1 .. Len(q) - 1 /\ q[i] = Tail(q)[i - 1])
  BY <1>1
<1>3. FidsOf(q) = {q[1].fid} \cup FidsOf(Tail(q))
  <2>1. ASSUME NEW x \in FidsOf(q) PROVE x \in {q[1].fid} \cup FidsOf(Tail(q))
    <3>1. PICK i \in 1 .. Len(q) : x = q[i].fid
      BY DEF FidsOf
    <3> QED BY <1>1, <1>2, <3>1 DEF FidsOf
  <2>2. ASSUME NEW x \in FidsOf(Tail(q)) PROVE x \in FidsOf(q)
    <3>1. PICK i \in 1 .. Len(q) - 1 : x = Tail(q)[i].fid
      BY <1>1 DEF FidsOf
    <3>2. i + 1 \in 1 .. Len(q) /\ x = q[i + 1].fid
      BY <1>1, <3>1
    <3> QED BY <3>2 DEF FidsOf
  <2>3. q[1].fid \in FidsOf(q)
    BY <1>1 DEF FidsOf
  <2> QED BY <2>1, <2>2, <2>3
<1>4. Below({q[1].fid}, FidsOf(Tail(q)))
  <2> SUFFICES ASSUME NEW i \in 1 .. Len(q) - 1 PROVE q[1].fid < Tail(q)[i].fid
    BY <1>1 DEF Below, FidsOf
  <2>1. 1 \in 1 .. Len(q) /\ i + 1 \in 1 .. Len(q) /\ 1 < i + 1
    BY <1>1
  <2> QED BY <1>1, <2>1 DEF Ascending
<1>5. Ascending(Tail(q))
  <2> SUFFICES ASSUME NEW i \in 1 .. Len(q) - 1, NEW j \in 1 .. Len(q) - 1, i < j
               PROVE  Tail(q)[i].fid < Tail(q)[j].fid
    BY <1>1 DEF Ascending
  <2>1. i + 1 \in 1 .. Len(q) /\ j + 1 \in 1 .. Len(q) /\ i + 1 < j + 1
    BY <1>1
  <2> QED BY <1>1, <2>1 DEF Ascending
<1> QED BY <1>3, <1>4, <1>5

LEMMA FidsAppend ==
  ASSUME NEW q \in Seq(Flit), NEW f \in Flit, Ascending(q), Below(FidsOf(q), {f.fid})
  PROVE  /\ FidsOf(Append(q, f)) = FidsOf(q) \cup {f.fid}
         /\ Ascending(Append(q, f))
<1>1. /\ Len(q) \in Nat /\ Len(Append(q, f)) = Len(q) + 1
      /\ Append(q, f)[Len(q) + 1] = f
      /\ \A i \in 1 .. Len(q) : Append(q, f)[i] = q[i]
  OBVIOUS
<1>2. \A i \in 1 .. Len(q) + 1 : i = Len(q) + 1 \/ i \in 1 .. Len(q)
  BY <1>1
<1>3. FidsOf(Append(q, f)) = FidsOf(q) \cup {f.fid}
  <2>1. ASSUME NEW x \in FidsOf(Append(q, f)) PROVE x \in FidsOf(q) \cup {f.fid}
    <3>1. PICK i \in 1 .. Len(q) + 1 : x = Append(q, f)[i].fid
      BY <1>1 DEF FidsOf
    <3> QED BY <1>1, <1>2, <3>1 DEF FidsOf
  <2>2. ASSUME NEW x \in FidsOf(q) PROVE x \in FidsOf(Append(q, f))
    <3>1. PICK i \in 1 .. Len(q) : x = q[i].fid
      BY DEF FidsOf
    <3>2. i \in 1 .. Len(Append(q, f)) /\ x = Append(q, f)[i].fid
      BY <1>1, <3>1
    <3> QED BY <3>2 DEF FidsOf
  <2>3. f.fid \in FidsOf(Append(q, f))
    <3>1. Len(q) + 1 \in 1 .. Len(Append(q, f))
      BY <1>1
    <3> QED BY <1>1, <3>1 DEF FidsOf
  <2> QED BY <2>1, <2>2, <2>3
<1>4. Ascending(Append(q, f))
  <2> SUFFICES ASSUME NEW i \in 1 .. Len(q) + 1, NEW j \in 1 .. Len(q) + 1, i < j
               PROVE  Append(q, f)[i].fid < Append(q, f)[j].fid
    BY <1>1 DEF Ascending
  <2>1. i \in 1 .. Len(q)
    BY <1>1
  <2>2. CASE j = Len(q) + 1
    BY <1>1, <2>1, <2>2 DEF Below, FidsOf
  <2>3. CASE j \in 1 .. Len(q)
    BY <1>1, <2>1, <2>3 DEF Ascending
  <2> QED BY <1>2, <2>2, <2>3
<1> QED BY <1>3, <1>4

LEMMA FidTypes ==
  ASSUME TypeOK, NEW k \in Pids
  PROVE  \A i \in InFlight(k) : i \in Int
<1>1. \A i \in InNet(k) : i \in Int
  <2> SUFFICES ASSUME NEW i \in 1 .. Len(net[k]) PROVE net[k][i].fid \in Int
    BY DEF InNet, FidsOf
  <2>1. net[k] \in Seq(Flit)
    BY DEF TypeOK
  <2>2. net[k][i] \in Flit
    BY <2>1
  <2> QED BY <2>2 DEF Flit
<1>2. \A n \in Nodes : arrived[n] # None => arrived[n].fid \in Int
  BY DEF TypeOK, Flit
<1>3. \A q \in Seq(Flit) : q # <<>> => q[1].fid \in Int
  <2> SUFFICES ASSUME NEW q \in Seq(Flit), q # <<>> PROVE q[1].fid \in Int
    OBVIOUS
  <2>1. q[1] \in Flit
    OBVIOUS
  <2> QED BY <2>1 DEF Flit
<1>4. \A n \in Nodes : /\ reply[n] # <<>> => reply[n][1].fid \in Int
                       /\ partial[n] # <<>> => partial[n][1].fid \in Int
                       /\ flitQueue[n] # <<>> => flitQueue[n][1].fid \in Int
  BY <1>3 DEF TypeOK
<1>5. /\ \A i \in Replied(k) : i \in Int
      /\ \A i \in Read(k) : i \in Int
      /\ \A i \in ToSend(k) : i \in Int
      /\ \A i \in Queued(k) : i \in Int
  BY <1>2, <1>4 DEF Replied, Read, ToSend, Queued
<1> QED BY <1>1, <1>5 DEF InFlight

LEMMA OrderUntouched ==
  ASSUME Order, simDone' \/ simDone' = simDone,
         UNCHANGED <<reply, arrived, net, partial, flitQueue, nextFid, dataSet>>
  PROVE  Order'
<1>1. \A k : /\ Replied(k)' = Replied(k) /\ Read(k)' = Read(k) /\ InNet(k)' = InNet(k)
             /\ ToSend(k)' = ToSend(k) /\ Queued(k)' = Queued(k)
  BY DEF Replied, Read, InNet, ToSend, Queued, FidsOf
<1>2. \A k : InFlight(k)' = InFlight(k)
  BY <1>1 DEF InFlight
<1>3. \A k : Ordered(k) => Ordered(k)'
  BY <1>1 DEF Ordered, Ascending, OneOf, Below
<1>4. \A k : Numbers(k) => Numbers(k)'
  BY <1>2, <1>3 DEF Numbers
<1>5. (Data => Data') /\ (Apart => Apart')
  BY <1>2 DEF Data, Apart
<1> QED BY <1>4, <1>5 DEF Order

\* A packet that a node is at work on is one of those the bound allows.
LEMMA AtPids ==
  ASSUME TypeOK, PidsOnce, NEW n \in Nodes, NEW k \in Nat, At(n, k)
  PROVE  k \in Pids
<1>1. k < nextPid /\ nextPid <= MaxPackets /\ nextPid \in Nat /\ MaxPackets \in Nat
  BY CosimAssumption DEF PidsOnce, TypeOK
<1> QED BY <1>1 DEF Pids

LEMMA OrderQueue ==
  ASSUME TypeOK, Lanes, PidsOnce, Order, NEW d \in [Nodes -> Offers \cup {None}], Queue(d)
  PROVE  Order'
<1> SUFFICES ASSUME ~simDone PROVE Data' /\ Apart' /\ \A k \in Pids : Numbers(k)'
  BY DEF Order, Queue, simVars
<1>1. /\ UNCHANGED <<reply, arrived, net, partial>>
      /\ \A n \in Nodes : flitQueue[n] = <<>>
  BY DEF Queue, simVars, sourceVars, netVars, Lanes, Lane
<1>2. \A n \in Nodes : n \notin Offering(d) => flitQueue'[n] = <<>>
  BY <1>1 DEF Queue
<1>3. ASSUME NEW n \in Offering(d)
      PROVE  /\ n \in Nodes /\ flitQueue'[n] # <<>> /\ flitQueue'[n][1] = FlitOf(d, n)
             /\ FlitOf(d, n).pid \in Pids
             /\ FlitOf(d, n).fid \in Nat /\ FlitOf(d, n).fid >= nextFid /\ FlitOf(d, n).fid < nextFid'
  <2>1. n \in Nodes /\ flitQueue'[n] = Append(<<>>, FlitOf(d, n)) /\ FlitOf(d, n) \in Flit
    BY <1>1, QueuedTypes DEF Queue, Offering
  <2>2. flitQueue'[n] # <<>> /\ flitQueue'[n][1] = FlitOf(d, n)
    BY <2>1
  <2>3. FlitOf(d, n).pid = PacketOf(d, n).pid /\ FlitOf(d, n).fid = nextFid + Before(Offering(d), n)
    BY DEF FlitOf
  <2>4. PacketOf(d, n).pid \in Pids
    <3>1. CASE current[n] = None
      BY <3>1, OfferedPacket
    <3>2. CASE current[n] # None
      <4>1. current[n].pid \in Nat /\ At(n, current[n].pid) /\ PacketOf(d, n).pid = current[n].pid
        BY <2>1, <3>2, OfferedPacket DEF TypeOK, Packet, At
      <4> QED BY <2>1, <4>1, AtPids
    <3> QED BY <3>1, <3>2
  <2>5. Offering(d) \in SUBSET Nodes
    BY DEF Offering
  <2>6. /\ Cardinality(Offering(d)) \in Nat /\ Before(Offering(d), n) \in Nat
        /\ Before(Offering(d), n) < Cardinality(Offering(d))
    BY <2>1, <2>5, Numbered
  <2>7. nextFid \in Nat /\ nextFid' = nextFid + Cardinality(Offering(d))
    BY DEF TypeOK, Queue
  <2>8. /\ FlitOf(d, n).fid \in Nat /\ FlitOf(d, n).fid >= nextFid
        /\ FlitOf(d, n).fid < nextFid'
    BY <2>3, <2>6, <2>7
  <2> QED BY <2>1, <2>2, <2>3, <2>4, <2>8
<1>4. nextFid \in Nat /\ nextFid' \in Nat /\ nextFid <= nextFid'
  <2>1. Offering(d) \in SUBSET Nodes
    BY DEF Offering
  <2>2. Cardinality(Offering(d)) \in Nat
    BY <2>1, Numbered
  <2> QED BY <2>2 DEF TypeOK, Queue
<1>5. ASSUME NEW k
      PROVE  /\ Replied(k)' = Replied(k) /\ Read(k)' = Read(k) /\ InNet(k)' = InNet(k)
             /\ ToSend(k)' = ToSend(k) /\ Queued(k) = {}
  BY <1>1 DEF Replied, Read, InNet, ToSend, Queued, FidsOf
<1>6. ASSUME NEW k, NEW i \in Queued(k)'
      PROVE  i \in Nat /\ i >= nextFid /\ i < nextFid'
  <2>1. PICK n \in Nodes : flitQueue'[n] # <<>> /\ i = flitQueue'[n][1].fid
    BY DEF Queued
  <2> QED BY <1>2, <1>3, <2>1
<1>7. ASSUME NEW k \in Pids PROVE Numbers(k)'
  <2>1. Ordered(k) /\ (\A i \in InFlight(k) : i < nextFid) /\ (\A i \in 1 .. Len(net[k]) : net[k][i].pid = k)
    BY DEF Order, Numbers
  <2>2. \A i \in InFlight(k) : i \in Int
    BY FidTypes
  <2>3. \A S : S \subseteq InFlight(k) => Below(S, Queued(k)')
    BY <1>4, <1>6, <2>1, <2>2 DEF Below
  <2>4. Ordered(k)'
    <3>1. Ascending(net[k])'
      BY <1>1, <2>1 DEF Ordered, Ascending
    <3>2. /\ OneOf(Replied(k)') /\ OneOf(Read(k)')
          /\ Below(Replied(k)', Read(k)') /\ Below(Replied(k)', InNet(k)') /\ Below(Replied(k)', ToSend(k)')
          /\ Below(Read(k)', InNet(k)') /\ Below(Read(k)', ToSend(k)') /\ Below(InNet(k)', ToSend(k)')
      BY <1>5, <2>1 DEF Ordered
    <3>3. /\ Below(Replied(k)', Queued(k)') /\ Below(Read(k)', Queued(k)')
          /\ Below(InNet(k)', Queued(k)') /\ Below(ToSend(k)', Queued(k)')
      BY <1>5, <2>3 DEF InFlight
    <3> QED BY <3>1, <3>2, <3>3 DEF Ordered, OneOf, Below
  <2>5. \A i \in InFlight(k)' : i < nextFid'
    BY <1>4, <1>5, <1>6, <2>1, <2>2 DEF InFlight
  <2> QED BY <1>1, <2>1, <2>4, <2>5 DEF Numbers
<1>8. Data'
  <2> SUFFICES ASSUME NEW e \in dataSet' PROVE e.pid \in Pids /\ e.fid \in InFlight(e.pid)'
    BY DEF Data
  <2>1. CASE e \in dataSet
    BY <1>5, <2>1 DEF InFlight, Order, Data
  <2>2. CASE e \notin dataSet
    <3>1. PICK n \in Offering(d) : e = FlitOf(d, n)
      BY <2>2 DEF Queue, Storing
    <3>2. e.fid \in Queued(e.pid)' /\ e.pid \in Pids
      BY <1>3, <3>1 DEF Queued
    <3> QED BY <3>2 DEF InFlight
  <2> QED BY <2>1, <2>2
<1>9. Apart'
  <2> SUFFICES ASSUME NEW k \in Pids, NEW l \in Pids, k # l,
                      NEW i \in InFlight(k)', i \in InFlight(l)'
               PROVE  FALSE
    BY DEF Apart
  <2>1. (i \in InFlight(k) \/ i \in Queued(k)') /\ (i \in InFlight(l) \/ i \in Queued(l)')
    BY <1>5 DEF InFlight
  <2>2. ~(i \in InFlight(k) /\ i \in InFlight(l))
    BY DEF Order, Apart
  <2>3. /\ i \in InFlight(k) \/ i \in InFlight(l) => i < nextFid
        /\ i \in Queued(k)' \/ i \in Queued(l)' => i >= nextFid /\ i \in Nat
    BY <1>6 DEF Order, Numbers
  <2>4. i \in Queued(k)' /\ i \in Queued(l)'
    BY <1>4, <2>1, <2>2, <2>3
  <2>5. PICK m \in Nodes : flitQueue'[m] # <<>> /\ flitQueue'[m][1].pid = k /\ i = flitQueue'[m][1].fid
    BY <2>4 DEF Queued
  <2>6. PICK n \in Nodes : flitQueue'[n] # <<>> /\ flitQueue'[n][1].pid = l /\ i = flitQueue'[n][1].fid
    BY <2>4 DEF Queued
  <2>7. m \in Offering(d) /\ n \in Offering(d) /\ m # n
    BY <1>2, <2>5, <2>6
  <2>8. Before(Offering(d), m) = Before(Offering(d), n)
    <3>1. /\ i = nextFid + Before(Offering(d), m)
          /\ i = nextFid + Before(Offering(d), n)
      <4>1. i = FlitOf(d, m).fid /\ i = FlitOf(d, n).fid
        BY <1>3, <2>5, <2>6, <2>7
      <4> QED BY <4>1 DEF FlitOf
    <3>2. Before(Offering(d), m) \in Nat /\ Before(Offering(d), n) \in Nat
      <4>1. Offering(d) \in SUBSET Nodes
        BY DEF Offering
      <4> QED BY <4>1, Numbered
    <3> QED BY <1>4, <3>1, <3>2
  <2>9. ~(m < n) /\ ~(n < m)
    <3>1. Offering(d) \in SUBSET Nodes
      BY DEF Offering
    <3>2. Before(Offering(d), m) \in Nat /\ Before(Offering(d), n) \in Nat
      BY <3>1, Numbered
    <3>3. /\ m < n => Before(Offering(d), m) < Before(Offering(d), n)
          /\ n < m => Before(Offering(d), n) < Before(Offering(d), m)
      BY <2>7, <3>1, Numbered
    <3> QED BY <2>8, <3>2, <3>3
  <2>10. m \in Int /\ n \in Int
    BY CosimAssumption DEF Nodes
  <2> QED BY <2>7, <2>9, <2>10
<1> QED BY <1>7, <1>8, <1>9

LEMMA OrderInject ==
  ASSUME TypeOK, Lanes, Order, Inject
  PROVE  Order'
<1> SUFFICES ASSUME ~simDone PROVE Data' /\ Apart' /\ \A k \in Pids : Numbers(k)'
  BY DEF Order, Inject
<1>1. UNCHANGED <<reply, arrived, net, nextFid, dataSet>>
  BY DEF Inject, netVars
<1>2. \A n \in Nodes : partial[n] = <<>> /\ partial'[n] = flitQueue[n] /\ flitQueue'[n] = <<>>
  <2> SUFFICES ASSUME NEW n \in Nodes
               PROVE  partial[n] = <<>> /\ partial'[n] = flitQueue[n] /\ flitQueue'[n] = <<>>
    OBVIOUS
  <2>1. partial[n] = <<>> /\ flitQueue[n] \in Seq(Flit)
    BY DEF Inject, Serving, Lanes, Lane, TypeOK
  <2>2. flitQueue'[n] = <<>> /\ partial'[n] = <<>> \o flitQueue[n]
    BY <2>1 DEF Inject, RequestBuffer
  <2> QED BY <2>1, <2>2, EmptyBefore
<1>3. ASSUME NEW k
      PROVE  /\ Replied(k)' = Replied(k) /\ Read(k)' = Read(k) /\ InNet(k)' = InNet(k)
             /\ ToSend(k)' = Queued(k) /\ ToSend(k) = {} /\ Queued(k)' = {}
  BY <1>1, <1>2 DEF Replied, Read, InNet, ToSend, Queued, FidsOf
<1>4. ASSUME NEW k PROVE InFlight(k)' = InFlight(k)
  BY <1>3 DEF InFlight
<1>5. ASSUME NEW k \in Pids PROVE Numbers(k)'
  <2>1. Numbers(k)
    BY DEF Order
  <2>2. Ascending(net[k])' /\ \A i \in 1 .. Len(net'[k]) : net'[k][i].pid = k
    BY <1>1, <2>1 DEF Numbers, Ordered, Ascending
  <2>3. Ordered(k)'
    BY <1>3, <2>1, <2>2 DEF Numbers, Ordered, OneOf, Below
  <2> QED BY <1>1, <1>4, <2>1, <2>2, <2>3 DEF Numbers
<1>6. Data' /\ Apart'
  BY <1>1, <1>4 DEF Order, Data, Apart
<1> QED BY <1>5, <1>6

\* The flit of packet k that node n ejects is the first of the packet.
LEMMA OrderRead ==
  ASSUME TypeOK, Mail, Order, NEW a \in Arrivals, NEW C \in SUBSET Occupied, SimRead(a, C)
  PROVE  Order'
<1> SUFFICES ASSUME ~simDone PROVE Data' /\ Apart' /\ \A k \in Pids : Numbers(k)'
  BY DEF Order, SimRead
<1>1. /\ UNCHANGED <<reply, partial, flitQueue, nextFid, dataSet>>
      /\ simPc = "read"
  BY DEF SimRead, rtlVars, writerVars
<1>2. \A n \in Nodes : arrived[n] = None
  BY <1>1 DEF Mail
<1>3. ASSUME NEW k
      PROVE  /\ Replied(k)' = Replied(k) /\ Read(k) = {}
             /\ ToSend(k)' = ToSend(k) /\ Queued(k)' = Queued(k)
  BY <1>1, <1>2 DEF Replied, Read, ToSend, Queued
<1>4. ASSUME NEW n \in Nodes
      PROVE  /\ a[n] = None => arrived'[n] = None
             /\ a[n] # None => /\ a[n][1] \in Pids /\ net[a[n][1]] \in Seq(Flit) /\ net[a[n][1]] # <<>>
                               /\ arrived'[n] # None
                               /\ arrived'[n].pid = net[a[n][1]][1].pid
                               /\ arrived'[n].fid = net[a[n][1]][1].fid
                               /\ net[a[n][1]][1].pid = a[n][1]
                               /\ net[a[n][1]][1].dest = n
  <2>1. a[n] = None => arrived'[n] = None
    BY DEF SimRead
  <2>2. ASSUME a[n] # None
        PROVE  /\ a[n][1] \in Pids /\ net[a[n][1]] \in Seq(Flit) /\ net[a[n][1]] # <<>>
               /\ arrived'[n] # None
               /\ arrived'[n].pid = net[a[n][1]][1].pid
               /\ arrived'[n].fid = net[a[n][1]][1].fid
               /\ net[a[n][1]][1].pid = a[n][1]
               /\ net[a[n][1]][1].dest = n
    <3>1. /\ a[n][1] \in Pids /\ net[a[n][1]] \in Seq(Flit) /\ net[a[n][1]] # <<>>
          /\ Head(net[a[n][1]]) \in Flit /\ arrived'[n] \in Flit
      BY <2>2, Ejecting
    <3>2. PICK q \in Seq(Flit) : q = net[a[n][1]] /\ q # <<>>
      BY <3>1
    <3>3. Head(q) = q[1] /\ Head(q) \in Flit /\ Len(q) \in Nat /\ Len(q) > 0
      BY <3>2
    <3>4. arrived'[n] = [Head(q) EXCEPT !.vc = a[n][2]]
      BY <2>2, <3>2 DEF SimRead
    <3>5. arrived'[n].pid = q[1].pid /\ arrived'[n].fid = q[1].fid
      BY <3>3, <3>4 DEF Flit
    <3>6. q[1].pid = a[n][1]
      <4>1. \A i \in 1 .. Len(q) : q[i].pid = a[n][1]
        BY <3>1, <3>2 DEF Order, Numbers
      <4>2. 1 \in 1 .. Len(q)
        BY <3>3
      <4> QED BY <4>1, <4>2
    <3>7. q[1].dest = n
      BY <2>2, <3>2, <3>3 DEF SimRead, MayEject
    <3> QED BY <3>1, <3>2, <3>5, <3>6, <3>7, NoneAssumption
  <2> QED BY <2>1, <2>2
<1>5. ASSUME NEW k \in Pids PROVE Numbers(k)' /\ InFlight(k)' = InFlight(k)
  <2>1. /\ Numbers(k) /\ Ordered(k) /\ Ascending(net[k])
        /\ \A i \in 1 .. Len(net[k]) : net[k][i].pid = k
    BY DEF Order, Numbers, Ordered
  <2>2. CASE \A n \in Nodes : a[n] # None => a[n][1] # k
    <3>1. net'[k] = net[k]
      BY <2>2 DEF SimRead
    <3>2. Read(k)' = {}
      BY <1>4, <2>2 DEF Read
    <3>3. InNet(k)' = InNet(k) /\ Ascending(net[k])'
      BY <2>1, <3>1 DEF InNet, Ascending, FidsOf
    <3>4. Ordered(k)'
      BY <1>3, <2>1, <3>2, <3>3 DEF Ordered, OneOf, Below
    <3>5. InFlight(k)' = InFlight(k)
      BY <1>3, <3>2, <3>3 DEF InFlight
    <3> QED BY <1>1, <2>1, <3>1, <3>4, <3>5 DEF Numbers
  <2>3. CASE \E n \in Nodes : a[n] # None /\ a[n][1] = k
    <3>1. PICK n \in Nodes : a[n] # None /\ a[n][1] = k
      BY <2>3
    <3>2. net[k] \in Seq(Flit) /\ net[k] # <<>> /\ net[k][1].dest = n /\ net[k][1].pid = k
      BY <1>4, <3>1
    <3>3. \A m \in Nodes : arrived'[m] # None /\ arrived'[m].pid = k => m = n
      BY <1>4, <3>2
    <3>4. Read(k)' = {net[k][1].fid}
      <4>1. arrived'[n] # None /\ arrived'[n].pid = k /\ arrived'[n].fid = net[k][1].fid
        BY <1>4, <3>1, <3>2
      <4> QED BY <3>3, <4>1 DEF Read
    <3>5. net'[k] = Tail(net[k])
      BY <3>1 DEF SimRead
    <3>6. PICK q \in Seq(Flit) : q = net[k] /\ q # <<>> /\ Ascending(q)
      BY <2>1, <3>2
    <3>7. /\ FidsOf(q) = {q[1].fid} \cup FidsOf(Tail(q))
          /\ Below({q[1].fid}, FidsOf(Tail(q)))
          /\ Ascending(Tail(q))
      BY <3>6, FidsTail
    <3>8. /\ InNet(k) = Read(k)' \cup InNet(k)' /\ Below(Read(k)', InNet(k)') /\ Ascending(net'[k])
      <4>1. InNet(k)' = FidsOf(Tail(q))
        BY <3>5, <3>6 DEF InNet, FidsOf
      <4> QED BY <3>4, <3>5, <3>6, <3>7, <4>1 DEF InNet
    <3>9. Ordered(k)'
      <4>1. OneOf(Read(k)') /\ OneOf(Replied(k)')
        BY <1>3, <2>1, <3>4 DEF OneOf, Ordered
      <4>2. /\ Below(Replied(k)', Read(k)') /\ Below(Replied(k)', InNet(k)')
            /\ Below(Replied(k)', ToSend(k)') /\ Below(Replied(k)', Queued(k)')
        BY <1>3, <2>1, <3>8 DEF Below, Ordered
      <4>3. /\ Below(Read(k)', ToSend(k)') /\ Below(Read(k)', Queued(k)')
            /\ Below(InNet(k)', ToSend(k)') /\ Below(InNet(k)', Queued(k)')
            /\ Below(ToSend(k)', Queued(k)')
        BY <1>3, <2>1, <3>8 DEF Below, Ordered
      <4> QED BY <3>8, <4>1, <4>2, <4>3 DEF Ordered, OneOf, Below, Ascending
    <3>10. InFlight(k)' = InFlight(k)
      BY <1>3, <3>8 DEF InFlight
    <3>11. \A i \in 1 .. Len(net'[k]) : net'[k][i].pid = k
      <4>1. /\ Len(q) \in Nat /\ Len(q) > 0 /\ Len(Tail(q)) = Len(q) - 1
            /\ \A i \in 1 .. Len(q) - 1 : Tail(q)[i] = q[i + 1] /\ i + 1 \in 1 .. Len(q)
        BY <3>6
      <4>2. \A i \in 1 .. Len(q) : q[i].pid = k
        BY <2>1, <3>6
      <4>3. \A i \in 1 .. Len(Tail(q)) : Tail(q)[i].pid = k
        BY <4>1, <4>2
      <4> QED BY <3>5, <3>6, <4>3
    <3> QED BY <1>1, <2>1, <3>9, <3>10, <3>11 DEF Numbers
  <2> QED BY <2>2, <2>3
<1>6. Data' /\ Apart'
  BY <1>1, <1>5 DEF Order, Data, Apart
<1> QED BY <1>5, <1>6

LEMMA OrderWork ==
  ASSUME TypeOK, Turns, Mail, Counts, Lanes, VcsKnown, PidsOnce, CreditsAccounted, Order, SimWork
  PROVE  Order'
<1> SUFFICES ASSUME ~simDone PROVE Data' /\ Apart' /\ \A k \in Pids : Numbers(k)'
  BY DEF Order, SimWork
<1>1. UNCHANGED <<flitQueue, nextFid, dataSet>> /\ simPc = "work"
  BY DEF SimWork, rtlVars, writerVars
<1>2. \A n \in Nodes : partial'[n] = <<>> /\ arrived'[n] = None /\ reply[n] = <<>>
  BY <1>1, WorkEffect DEF SimWork, Mail
<1>3. ASSUME NEW n \in Nodes
      PROVE  /\ arrived[n] = None => reply'[n] = <<>>
             /\ arrived[n] # None => reply'[n] # <<>> /\ reply'[n][1] = arrived[n]
  <2>1. reply'[n] = IF arrived[n] = None THEN reply[n] ELSE Append(reply[n], arrived[n])
    BY DEF SimWork, Replies
  <2>2. reply'[n] = IF arrived[n] = None THEN <<>> ELSE Append(<<>>, arrived[n])
    BY <1>2, <2>1
  <2>3. CASE arrived[n] # None
    <3>1. arrived[n] \in Flit /\ reply'[n] = Append(<<>>, arrived[n])
      BY <2>2, <2>3 DEF TypeOK
    <3> QED BY <2>3, <3>1
  <2> QED BY <2>2, <2>3
<1>4. ASSUME NEW k
      PROVE  /\ Replied(k) = {} /\ Replied(k)' = Read(k) /\ Read(k)' = {}
             /\ ToSend(k)' = {} /\ Queued(k)' = Queued(k)
  <2>1. Replied(k) = {} /\ Read(k)' = {} /\ ToSend(k)' = {} /\ Queued(k)' = Queued(k)
    BY <1>1, <1>2 DEF Replied, Read, ToSend, Queued
  <2>2. \A n \in Nodes : /\ (reply'[n] # <<>> /\ reply'[n][1].pid = k) <=> (arrived[n] # None /\ arrived[n].pid = k)
                         /\ reply'[n] # <<>> => reply'[n][1].fid = arrived[n].fid
    BY <1>3
  <2>3. Replied(k)' = Read(k)
    BY <2>2 DEF Replied, Read
  <2> QED BY <2>1, <2>3
<1>5. ASSUME NEW k \in Pids
      PROVE  /\ InNet(k)' = InNet(k) \cup ToSend(k)
             /\ Ascending(net'[k])
             /\ \A i \in 1 .. Len(net'[k]) : net'[k][i].pid = k
  <2>1. /\ Ordered(k) /\ Ascending(net[k])
        /\ \A i \in 1 .. Len(net[k]) : net[k][i].pid = k
    BY DEF Order, Numbers, Ordered
  <2>2. CASE Sources(k) = {}
    <3>1. net'[k] = net[k]
      BY <2>2 DEF SimWork
    <3>2. ToSend(k) = {}
      <4> SUFFICES ASSUME NEW n \in Nodes, partial[n] # <<>>, partial[n][1].pid = k PROVE FALSE
        BY DEF ToSend
      <4>1. Sends(n) /\ Head(partial[n]) = partial[n][1]
        BY <1>1, FrontIsSent
      <4> QED BY <2>2, <4>1 DEF Sources
    <3> QED BY <2>1, <3>1, <3>2 DEF InNet, FidsOf
  <2>3. CASE Sources(k) # {}
    <3>1. PICK n \in Sources(k) : n = CHOOSE m \in Sources(k) : TRUE
      BY <2>3
    <3>2. n \in Nodes /\ At(n, k) /\ partial[n] # <<>> /\ partial[n][1].pid = k
      BY <1>1, SourceIsAt
    <3>3. Head(partial[n]) = partial[n][1] /\ Head(partial[n]) \in Flit
      BY <1>1, <3>2, FrontIsSent, Shorter DEF TypeOK
    <3>4. net'[k] = Append(net[k], partial[n][1])
      BY <2>3, <3>1, <3>3 DEF SimWork
    <3>5. \A m \in Nodes : partial[m] # <<>> /\ partial[m][1].pid = k => m = n
      <4> SUFFICES ASSUME NEW m \in Nodes, partial[m] # <<>>, partial[m][1].pid = k PROVE m = n
        OBVIOUS
      <4>1. At(m, k) /\ k \in Nat
        BY CosimAssumption DEF At, Pids
      <4> HIDE DEF At
      <4> QED BY <3>2, <4>1 DEF PidsOnce
    <3>6. ToSend(k) = {partial[n][1].fid}
      BY <3>2, <3>5 DEF ToSend
    <3>7. PICK q \in Seq(Flit), f \in Flit : q = net[k] /\ f = partial[n][1]
      BY <3>3 DEF TypeOK
    <3>8. Ascending(q) /\ Below(FidsOf(q), {f.fid})
      BY <2>1, <3>6, <3>7 DEF Ordered, InNet
    <3>9. FidsOf(Append(q, f)) = FidsOf(q) \cup {f.fid} /\ Ascending(Append(q, f))
      BY <3>8, FidsAppend
    <3>10. \A i \in 1 .. Len(Append(q, f)) : Append(q, f)[i].pid = k
      <4>1. /\ Len(q) \in Nat /\ Len(Append(q, f)) = Len(q) + 1
            /\ Append(q, f)[Len(q) + 1] = f
            /\ \A i \in 1 .. Len(q) : Append(q, f)[i] = q[i]
        OBVIOUS
      <4>2. \A i \in 1 .. Len(q) : q[i].pid = k
        BY <2>1, <3>7
      <4>3. f.pid = k
        BY <3>2, <3>7
      <4> QED BY <4>1, <4>2, <4>3
    <3>11. InNet(k)' = FidsOf(Append(q, f)) /\ InNet(k) = FidsOf(q)
      BY <3>4, <3>7 DEF InNet, FidsOf
    <3> QED BY <3>4, <3>6, <3>7, <3>9, <3>10, <3>11
  <2> QED BY <2>2, <2>3
<1>6. ASSUME NEW k \in Pids PROVE InFlight(k)' = InFlight(k)
  BY <1>4, <1>5 DEF InFlight
<1>7. ASSUME NEW k \in Pids PROVE Numbers(k)'
  <2>1. Numbers(k) /\ Ordered(k)
    BY DEF Order, Numbers
  <2>2. Ordered(k)'
    <3>1. OneOf(Read(k)') /\ OneOf(Replied(k)')
      BY <1>4, <2>1 DEF OneOf, Ordered
    <3>2. /\ Below(Replied(k)', Read(k)') /\ Below(Replied(k)', InNet(k)')
          /\ Below(Replied(k)', ToSend(k)') /\ Below(Replied(k)', Queued(k)')
      BY <1>4, <1>5, <2>1 DEF Below, Ordered
    <3>3. /\ Below(Read(k)', InNet(k)') /\ Below(Read(k)', ToSend(k)') /\ Below(Read(k)', Queued(k)')
          /\ Below(InNet(k)', ToSend(k)') /\ Below(InNet(k)', Queued(k)')
          /\ Below(ToSend(k)', Queued(k)')
      BY <1>4, <1>5, <2>1 DEF Below, Ordered
    <3> QED BY <1>5, <3>1, <3>2, <3>3 DEF Ordered, OneOf, Below, Ascending
  <2> QED BY <1>1, <1>5, <1>6, <2>1, <2>2 DEF Numbers
<1>8. Data' /\ Apart'
  BY <1>1, <1>6 DEF Order, Data, Apart
<1> QED BY <1>7, <1>8

LEMMA OrderEject ==
  ASSUME TypeOK, Turns, Mail, Order, EjectAll
  PROVE  Order'
<1> SUFFICES ASSUME ~simDone PROVE Data' /\ Apart' /\ \A k \in Pids : Numbers(k)'
  BY DEF Order, EjectAll
<1>1. UNCHANGED <<arrived, net, partial, flitQueue, nextFid>> /\ pc = "eject"
  BY DEF EjectAll, writerVars, sourceVars, netVars
<1>2. \A n \in Nodes : reply'[n] = <<>>
  BY AllTaken DEF EjectAll
<1>3. ASSUME NEW k
      PROVE  /\ Replied(k)' = {} /\ Read(k)' = Read(k) /\ InNet(k)' = InNet(k)
             /\ ToSend(k)' = ToSend(k) /\ Queued(k)' = Queued(k)
  BY <1>1, <1>2 DEF Replied, Read, InNet, ToSend, Queued, FidsOf
<1>4. ASSUME NEW k \in Pids PROVE Numbers(k)'
  <2>1. Numbers(k) /\ Ordered(k)
    BY DEF Order, Numbers
  <2>2. Ordered(k)'
    BY <1>1, <1>3, <2>1 DEF Ordered, OneOf, Below, Ascending
  <2>3. \A i \in InFlight(k)' : i < nextFid'
    BY <1>1, <1>3, <2>1 DEF Numbers, InFlight
  <2> QED BY <1>1, <2>1, <2>2, <2>3 DEF Numbers
<1>5. Data'
  <2> SUFFICES ASSUME NEW e \in dataSet' PROVE e.pid \in Pids /\ e.fid \in InFlight(e.pid)'
    BY DEF Data
  <2>1. /\ e \in dataSet
        /\ \A n \in Nodes : \A i \in 1 .. Len(reply[n]) : e.fid # reply[n][i].fid
    BY DEF EjectAll, Ejected, Matches
  <2>2. e.pid \in Pids /\ e.fid \in InFlight(e.pid)
    BY <2>1 DEF Order, Data
  <2>3. e.fid \notin Replied(e.pid)
    <3> SUFFICES ASSUME NEW n \in Nodes, reply[n] # <<>>, e.fid = reply[n][1].fid PROVE FALSE
      BY DEF Replied
    <3>1. Len(reply[n]) = 1
      BY <1>1, OneReply
    <3> QED BY <2>1, <3>1
  <2> QED BY <1>3, <2>2, <2>3 DEF InFlight
<1>6. Apart'
  <2>1. \A k : InFlight(k)' \subseteq InFlight(k)
    BY <1>3 DEF InFlight
  <2> QED BY <2>1 DEF Order, Apart
<1> QED BY <1>4, <1>5, <1>6

LEMMA OrderStep ==
  ASSUME TypeOK, Turns, Mail, Counts, Lanes, VcsKnown, PidsOnce, CreditsAccounted, Order, [Next]_vars
  PROVE  Order'
<1>1. ASSUME NEW S, GiveCredits(S) PROVE Order'
  BY <1>1, OrderUntouched DEF GiveCredits, writerVars, sourceVars, netVars
<1>2. CASE TakeCredits
  BY <1>2, OrderUntouched DEF TakeCredits, sourceVars, netVars
<1>3. CASE RequestStep
  BY <1>3, OrderUntouched DEF RequestStep, writerVars, sourceVars, netVars
<1>4. CASE Quit
  BY <1>4, OrderUntouched DEF Quit, writerVars, sourceVars, netVars
<1>5. CASE UNCHANGED vars
  BY <1>5, OrderUntouched DEF vars, rtlVars, writerVars, simVars, sourceVars, netVars
<1> QED BY <1>1, <1>2, <1>3, <1>4, <1>5,
           OrderQueue, OrderInject, OrderRead, OrderWork, OrderEject DEF Next

-----------------------------------------------------------------------------
(* The packets on each port, from the network to the reader.               *)

\* The packet that holds a port before flit f, and after it.
Holder(f) == IF f.head THEN None ELSE f.pid
HeldAfter(f) == IF f.tail THEN None ELSE f.pid

RepliedOn(p) == reply[p[1]] # <<>> /\ reply[p[1]][1].vc = p[2]
ReadOn(p) == arrived[p[1]] # None /\ arrived[p[1]].vc = p[2]
AfterReply(p) == IF RepliedOn(p) THEN HeldAfter(reply[p[1]][1]) ELSE readerOpen[p]
AfterRead(p) == IF ReadOn(p) THEN HeldAfter(arrived[p[1]]) ELSE AfterReply(p)

\* One packet after the other, from the network's count to the reader's.
PortInOrder(p) ==
  /\ RepliedOn(p) => readerOpen[p] = Holder(reply[p[1]][1])
  /\ ReadOn(p) => AfterReply(p) = Holder(arrived[p[1]])
  /\ ejectOpen[p] = AfterRead(p)

PortsInOrder == ~simDone => \A p \in Ports : PortInOrder(p)

LEMMA PortsUntouched ==
  ASSUME PortsInOrder, simDone' \/ simDone' = simDone,
         UNCHANGED <<reply, arrived, readerOpen, ejectOpen>>
  PROVE  PortsInOrder'
  BY DEF PortsInOrder, PortInOrder, RepliedOn, ReadOn, AfterReply, AfterRead, Holder, HeldAfter

LEMMA PortsRead ==
  ASSUME TypeOK, Mail, Order, PortsInOrder, NEW a \in Arrivals, NEW C \in SUBSET Occupied, SimRead(a, C)
  PROVE  PortsInOrder'
<1> SUFFICES ASSUME ~simDone, NEW p \in Ports PROVE PortInOrder(p)'
  BY DEF PortsInOrder, SimRead
<1> DEFINE n == p[1]
<1>1. /\ n \in Nodes /\ p[2] \in VCs /\ p = <<n, p[2]>> /\ simPc = "read"
      /\ UNCHANGED <<reply, readerOpen>>
  BY PortParts DEF SimRead, rtlVars, readerVars
<1>2. ~ReadOn(p)
  BY <1>1 DEF Mail, ReadOn
<1>3. /\ RepliedOn(p)' <=> RepliedOn(p)
      /\ AfterReply(p)' = AfterReply(p)
      /\ RepliedOn(p) => readerOpen[p] = Holder(reply[n][1])
      /\ ejectOpen[p] = AfterReply(p)
  BY <1>1, <1>2 DEF RepliedOn, AfterReply, HeldAfter, PortsInOrder, PortInOrder, AfterRead
<1>4. RepliedOn(p)' => readerOpen'[p] = Holder(reply'[n][1])
  BY <1>1, <1>3
<1>5. CASE a[n] # None /\ a[n][2] = p[2]
  <2>1. PICK f \in Flit : f = Head(net[a[n][1]])
    BY <1>1, <1>5, Ejecting
  <2>2. arrived'[n] \in Flit /\ arrived'[n].vc = p[2]
    BY <1>1, <1>5, Ejecting
  <2>3. arrived'[n] = [f EXCEPT !.vc = a[n][2]]
    BY <1>1, <2>1, <1>5 DEF SimRead
  <2>4. arrived'[n].head = f.head /\ arrived'[n].tail = f.tail /\ arrived'[n].pid = f.pid
    BY <2>3 DEF Flit
  <2>5. f.pid = a[n][1]
    <3>1. a[n][1] \in Pids /\ net[a[n][1]] \in Seq(Flit) /\ net[a[n][1]] # <<>>
      BY <1>1, <1>5, Ejecting
    <3>2. PICK q \in Seq(Flit) : q = net[a[n][1]] /\ q # <<>>
      BY <3>1
    <3>3. \A i \in 1 .. Len(q) : q[i].pid = a[n][1]
      BY <3>1, <3>2 DEF Order, Numbers
    <3>4. Head(q) = q[1] /\ 1 \in 1 .. Len(q)
      BY <3>2
    <3> QED BY <2>1, <3>2, <3>3, <3>4
  <2>6. ejectOpen[p] = IF f.head THEN None ELSE a[n][1]
    BY <1>1, <1>5, <2>1 DEF SimRead, MayEject
  <2>7. ejectOpen'[p] = IF f.tail THEN None ELSE a[n][1]
    BY <1>5, <2>1 DEF SimRead
  <2>8. ReadOn(p)'
    BY <2>2, NoneAssumption DEF ReadOn
  <2>9. AfterReply(p)' = Holder(arrived'[n])
    BY <1>3, <2>4, <2>5, <2>6 DEF Holder
  <2>10. ejectOpen'[p] = AfterRead(p)'
    BY <2>4, <2>5, <2>7, <2>8 DEF AfterRead, HeldAfter
  <2> QED BY <1>4, <2>9, <2>10 DEF PortInOrder, Holder
<1>6. CASE ~(a[n] # None /\ a[n][2] = p[2])
  <2>1. ~ReadOn(p)'
    <3>1. a[n] = None => arrived'[n] = None
      BY <1>1 DEF SimRead
    <3>2. a[n] # None => arrived'[n].vc = a[n][2]
      BY <1>1, Ejecting
    <3> QED BY <1>6, <3>1, <3>2 DEF ReadOn
  <2>2. ejectOpen'[p] = ejectOpen[p]
    BY <1>6 DEF SimRead
  <2>3. ejectOpen'[p] = AfterRead(p)'
    BY <1>3, <2>1, <2>2 DEF AfterRead
  <2> QED BY <1>4, <2>1, <2>3 DEF PortInOrder, Holder
<1> QED BY <1>5, <1>6

LEMMA PortsWork ==
  ASSUME TypeOK, Mail, PortsInOrder, SimWork
  PROVE  PortsInOrder'
<1> SUFFICES ASSUME ~simDone, NEW p \in Ports PROVE PortInOrder(p)'
  BY DEF PortsInOrder, SimWork
<1> DEFINE n == p[1]
<1>1. n \in Nodes /\ UNCHANGED <<readerOpen, ejectOpen>> /\ simPc = "work"
  BY PortParts DEF SimWork, rtlVars, readerVars
<1>2. reply[n] = <<>> /\ arrived'[n] = None
  BY <1>1 DEF Mail, SimWork
<1>3. /\ arrived[n] = None => reply'[n] = <<>>
      /\ arrived[n] # None => reply'[n] # <<>> /\ reply'[n][1] = arrived[n]
  <2>1. reply'[n] = IF arrived[n] = None THEN reply[n] ELSE Append(reply[n], arrived[n])
    BY <1>1 DEF SimWork, Replies
  <2>2. CASE arrived[n] # None
    <3>1. arrived[n] \in Flit /\ reply'[n] = Append(<<>>, arrived[n])
      BY <1>1, <1>2, <2>1, <2>2 DEF TypeOK
    <3> QED BY <2>2, <3>1
  <2> QED BY <1>2, <2>1, <2>2
<1>4. ~RepliedOn(p) /\ ~ReadOn(p)' /\ AfterReply(p) = readerOpen[p]
  BY <1>2 DEF RepliedOn, ReadOn, AfterReply
<1>5. RepliedOn(p)' <=> ReadOn(p)
  BY <1>3 DEF RepliedOn, ReadOn
<1>6. /\ ReadOn(p) => readerOpen[p] = Holder(arrived[n])
      /\ ejectOpen[p] = IF ReadOn(p) THEN HeldAfter(arrived[n]) ELSE readerOpen[p]
  BY <1>4 DEF PortsInOrder, PortInOrder, AfterRead
<1>7. RepliedOn(p)' => readerOpen'[p] = Holder(reply'[n][1])
  BY <1>1, <1>3, <1>5, <1>6 DEF ReadOn
<1>8. ejectOpen'[p] = AfterRead(p)'
  <2>1. AfterRead(p)' = IF RepliedOn(p)' THEN HeldAfter(reply'[n][1]) ELSE readerOpen'[p]
    BY <1>4 DEF AfterRead, AfterReply, HeldAfter
  <2> QED BY <1>1, <1>3, <1>5, <1>6, <2>1 DEF ReadOn
<1> QED BY <1>4, <1>7, <1>8 DEF PortInOrder, Holder

LEMMA PortsEject ==
  ASSUME TypeOK, Turns, Mail, PortsInOrder, EjectAll
  PROVE  PortsInOrder'
<1> SUFFICES ASSUME ~simDone, NEW p \in Ports PROVE PortInOrder(p)'
  BY DEF PortsInOrder, EjectAll
<1> DEFINE n == p[1]
<1>1. n \in Nodes /\ UNCHANGED <<arrived, ejectOpen>> /\ pc = "eject"
  BY PortParts DEF EjectAll, netVars
<1>2. reply'[n] = <<>>
  BY <1>1, AllTaken DEF EjectAll
<1>3. FlitOut(n) # None /\ FlitOut(n).vc = p[2] <=> RepliedOn(p)
  BY <1>1, OneReply DEF RepliedOn
<1>4. RepliedOn(p) => FlitOut(n) = reply[n][1]
  BY <1>1, OneReply DEF RepliedOn
<1>5. readerOpen'[p] = AfterReply(p)
  BY <1>3, <1>4 DEF EjectAll, AfterReply, HeldAfter
<1>6. ~RepliedOn(p)' /\ AfterReply(p)' = AfterReply(p)
  BY <1>2, <1>5 DEF RepliedOn, AfterReply
<1>7. ReadOn(p)' <=> ReadOn(p)
  BY <1>1 DEF ReadOn
<1>8. AfterRead(p)' = AfterRead(p)
  BY <1>1, <1>6, <1>7 DEF AfterRead, HeldAfter
<1> QED BY <1>1, <1>6, <1>7, <1>8 DEF PortsInOrder, PortInOrder, Holder

LEMMA PortsStep ==
  ASSUME TypeOK, Turns, Mail, Order, PortsInOrder, [Next]_vars
  PROVE  PortsInOrder'
<1>1. ASSUME NEW d, Queue(d) PROVE PortsInOrder'
  BY <1>1, PortsUntouched DEF Queue, readerVars, simVars, netVars
<1>2. CASE Inject
  BY <1>2, PortsUntouched DEF Inject, readerVars, netVars
<1>3. ASSUME NEW S, GiveCredits(S) PROVE PortsInOrder'
  BY <1>3, PortsUntouched DEF GiveCredits, netVars
<1>4. CASE TakeCredits
  BY <1>4, PortsUntouched DEF TakeCredits, readerVars, netVars
<1>5. CASE RequestStep
  BY <1>5, PortsUntouched DEF RequestStep, readerVars, netVars
<1>6. CASE Quit
  BY <1>6, PortsUntouched DEF Quit, readerVars, netVars
<1>7. CASE UNCHANGED vars
  BY <1>7, PortsUntouched DEF vars, rtlVars, readerVars, simVars, netVars
<1> QED BY <1>1, <1>2, <1>3, <1>4, <1>5, <1>6, <1>7, PortsRead, PortsWork, PortsEject DEF Next

-----------------------------------------------------------------------------
(* The entries of data_set.                                                *)

\* The loop that stores a queued flit finds a free entry for it.
RoomForAll ==
  \A d \in [Nodes -> Offers \cup {None}] : Queue(d) => Storing(d) = Offering(d)

HasData(f) ==
  f.pid \in Pids /\ \E e \in dataSet : e.fid = f.fid /\ e.pid = f.pid /\ e.dest = f.dest

In(q) == {q[i] : i \in 1 .. Len(q)}

Found ==
  /\ \A n \in Nodes : /\ \A f \in In(flitQueue[n]) : HasData(f)
                      /\ \A f \in In(partial[n]) : HasData(f)
                      /\ \A f \in In(reply[n]) : HasData(f)
                      /\ arrived[n] # None => HasData(arrived[n])
  /\ \A k \in Pids : \A f \in In(net[k]) : HasData(f)

LEMMA InAppend ==
  ASSUME NEW q \in Seq(Flit), NEW f \in Flit
  PROVE  In(Append(q, f)) = In(q) \cup {f}
<1>1. /\ Len(q) \in Nat /\ Len(Append(q, f)) = Len(q) + 1
      /\ Append(q, f)[Len(q) + 1] = f
      /\ \A i \in 1 .. Len(q) : Append(q, f)[i] = q[i]
  OBVIOUS
<1>2. ASSUME NEW x \in In(Append(q, f)) PROVE x \in In(q) \cup {f}
  <2>1. PICK i \in 1 .. Len(q) + 1 : x = Append(q, f)[i]
    BY <1>1 DEF In
  <2>2. i = Len(q) + 1 \/ i \in 1 .. Len(q)
    BY <1>1
  <2> QED BY <1>1, <2>1, <2>2 DEF In
<1>3. ASSUME NEW x \in In(q) PROVE x \in In(Append(q, f))
  <2>1. PICK i \in 1 .. Len(q) : x = q[i]
    BY DEF In
  <2>2. i \in 1 .. Len(Append(q, f)) /\ x = Append(q, f)[i]
    BY <1>1, <2>1
  <2> QED BY <2>2 DEF In
<1>4. f \in In(Append(q, f))
  <2>1. Len(q) + 1 \in 1 .. Len(Append(q, f))
    BY <1>1
  <2> QED BY <1>1, <2>1 DEF In
<1> QED BY <1>2, <1>3, <1>4

LEMMA InTail ==
  ASSUME NEW q \in Seq(Flit), q # <<>>
  PROVE  Head(q) \in In(q) /\ In(Tail(q)) \subseteq In(q)
<1>1. /\ Len(q) \in Nat /\ Len(q) > 0 /\ Len(Tail(q)) = Len(q) - 1
      /\ \A i \in 1 .. Len(q) - 1 : Tail(q)[i] = q[i + 1]
      /\ Head(q) = q[1]
  OBVIOUS
<1>2. Head(q) \in In(q)
  <2>1. 1 \in 1 .. Len(q)
    BY <1>1
  <2> QED BY <1>1, <2>1 DEF In
<1>3. ASSUME NEW x \in In(Tail(q)) PROVE x \in In(q)
  <2>1. PICK i \in 1 .. Len(q) - 1 : x = Tail(q)[i]
    BY <1>1 DEF In
  <2>2. i + 1 \in 1 .. Len(q) /\ x = q[i + 1]
    BY <1>1, <2>1
  <2> QED BY <2>2 DEF In
<1> QED BY <1>2, <1>3

LEMMA FoundUntouched ==
  ASSUME Found, UNCHANGED <<flitQueue, partial, reply, arrived, net, dataSet>>
  PROVE  Found'
<1>1. \A f : HasData(f) => HasData(f)'
  BY DEF HasData
<1>2. /\ \A n : /\ In(flitQueue[n])' = In(flitQueue[n]) /\ In(partial[n])' = In(partial[n])
                /\ In(reply[n])' = In(reply[n])
      /\ \A k : In(net[k])' = In(net[k])
  BY DEF In
<1> QED BY <1>1, <1>2 DEF Found, HasData

LEMMA FoundQueue ==
  ASSUME TypeOK, Lanes, PidsOnce, Found, RoomForAll,
         NEW d \in [Nodes -> Offers \cup {None}], Queue(d)
  PROVE  Found'
<1>1. UNCHANGED <<partial, reply, arrived, net>> /\ dataSet \subseteq dataSet'
  BY DEF Queue, simVars, sourceVars, netVars
<1>2. \A f : HasData(f) => f.pid \in Pids /\ \E e \in dataSet' : e.fid = f.fid /\ e.pid = f.pid /\ e.dest = f.dest
  BY <1>1 DEF HasData
<1>3. ASSUME NEW n \in Nodes, NEW f \in In(flitQueue'[n])
      PROVE  f.pid \in Pids /\ \E e \in dataSet' : e.fid = f.fid /\ e.pid = f.pid /\ e.dest = f.dest
  <2>1. flitQueue[n] = <<>>
    BY DEF Queue, Lanes, Lane
  <2>2. CASE n \in Offering(d)
    <3>1. flitQueue'[n] = Append(<<>>, FlitOf(d, n)) /\ FlitOf(d, n) \in Flit
      BY <2>1, <2>2, QueuedTypes DEF Queue
    <3>2. f = FlitOf(d, n)
      <4>1. Len(flitQueue'[n]) = 1 /\ flitQueue'[n][1] = FlitOf(d, n)
        BY <3>1
      <4> QED BY <4>1 DEF In
    <3>3. FlitOf(d, n) \in dataSet'
      BY <2>2 DEF RoomForAll, Queue
    <3>4. FlitOf(d, n).pid \in Pids
      <4>1. FlitOf(d, n).pid = PacketOf(d, n).pid
        BY DEF FlitOf
      <4>2. CASE current[n] = None
        BY <2>2, <4>1, <4>2, OfferedPacket
      <4>3. CASE current[n] # None
        <5>1. /\ current[n].pid \in Nat /\ At(n, current[n].pid)
              /\ PacketOf(d, n).pid = current[n].pid
          BY <2>2, <4>3, OfferedPacket DEF TypeOK, Packet, At
        <5> QED BY <4>1, <5>1, AtPids
      <4> QED BY <4>2, <4>3
    <3> QED BY <3>2, <3>3, <3>4
  <2>3. CASE n \notin Offering(d)
    <3>1. flitQueue'[n] = flitQueue[n]
      BY <2>3 DEF Queue
    <3>2. f \in In(flitQueue[n])
      BY <3>1 DEF In
    <3>3. HasData(f)
      BY <3>2 DEF Found
    <3> QED BY <1>2, <3>3
  <2> QED BY <2>2, <2>3
<1>4. /\ \A n : In(partial[n])' = In(partial[n]) /\ In(reply[n])' = In(reply[n])
      /\ \A k : In(net[k])' = In(net[k])
      /\ \A n : In(flitQueue[n])' = In(flitQueue'[n])
  BY <1>1 DEF In
<1> QED BY <1>1, <1>2, <1>3, <1>4 DEF Found, HasData

LEMMA FoundInject ==
  ASSUME TypeOK, Lanes, Found, Inject
  PROVE  Found'
<1>1. UNCHANGED <<reply, arrived, net, dataSet>>
  BY DEF Inject, netVars
<1>2. \A n \in Nodes : partial'[n] = flitQueue[n] /\ flitQueue'[n] = <<>>
  <2> SUFFICES ASSUME NEW n \in Nodes PROVE partial'[n] = flitQueue[n] /\ flitQueue'[n] = <<>>
    OBVIOUS
  <2>1. partial[n] = <<>> /\ flitQueue[n] \in Seq(Flit)
    BY DEF Inject, Serving, Lanes, Lane, TypeOK
  <2>2. flitQueue'[n] = <<>> /\ partial'[n] = <<>> \o flitQueue[n]
    BY <2>1 DEF Inject, RequestBuffer
  <2> QED BY <2>1, <2>2, EmptyBefore
<1>3. \A f : HasData(f) => HasData(f)'
  BY <1>1 DEF HasData
<1>4. /\ \A n \in Nodes : In(partial[n])' = In(flitQueue[n]) /\ In(flitQueue[n])' = {}
      /\ \A n : In(reply[n])' = In(reply[n])
      /\ \A k : In(net[k])' = In(net[k])
  BY <1>1, <1>2 DEF In
<1> QED BY <1>1, <1>3, <1>4 DEF Found, HasData

LEMMA FoundRead ==
  ASSUME TypeOK, Found, NEW a \in Arrivals, NEW C \in SUBSET Occupied, SimRead(a, C)
  PROVE  Found'
<1>1. UNCHANGED <<reply, partial, flitQueue, dataSet>>
  BY DEF SimRead, rtlVars, writerVars
<1>2. \A f : HasData(f) => f.pid \in Pids /\ \E e \in dataSet : e.fid = f.fid /\ e.pid = f.pid /\ e.dest = f.dest
  BY DEF HasData
<1>3. ASSUME NEW n \in Nodes, arrived'[n] # None
      PROVE  arrived'[n].pid \in Pids /\ \E e \in dataSet : e.fid = arrived'[n].fid /\ e.pid = arrived'[n].pid /\ e.dest = arrived'[n].dest
  <2>1. a[n] # None
    BY <1>3 DEF SimRead
  <2>2. a[n][1] \in Pids /\ net[a[n][1]] \in Seq(Flit) /\ net[a[n][1]] # <<>>
    BY <2>1, Ejecting
  <2>3. PICK f \in Flit : f = Head(net[a[n][1]])
    BY <2>1, Ejecting
  <2>4. HasData(f)
    BY <2>2, <2>3, InTail DEF Found
  <2>5. arrived'[n] = [f EXCEPT !.vc = a[n][2]]
    BY <2>1, <2>3 DEF SimRead
  <2>6. arrived'[n].pid = f.pid /\ arrived'[n].fid = f.fid /\ arrived'[n].dest = f.dest
    BY <2>5 DEF Flit
  <2> QED BY <1>2, <2>4, <2>6
<1>4. ASSUME NEW k \in Pids PROVE In(net'[k]) \subseteq In(net[k])
  <2>1. CASE \E n \in Nodes : a[n] # None /\ a[n][1] = k
    <3>1. net[k] \in Seq(Flit) /\ net[k] # <<>> /\ net'[k] = Tail(net[k])
      BY <2>1, Ejecting DEF SimRead
    <3> QED BY <3>1, InTail
  <2>2. CASE ~\E n \in Nodes : a[n] # None /\ a[n][1] = k
    <3>1. net'[k] = net[k]
      BY <2>2 DEF SimRead
    <3> QED BY <3>1
  <2> QED BY <2>1, <2>2
<1>5. /\ \A n : /\ In(partial[n])' = In(partial[n]) /\ In(reply[n])' = In(reply[n])
                /\ In(flitQueue[n])' = In(flitQueue[n])
      /\ \A k : In(net[k])' = In(net'[k])
  BY <1>1 DEF In
<1> QED BY <1>1, <1>2, <1>3, <1>4, <1>5 DEF Found, HasData

LEMMA FoundWork ==
  ASSUME TypeOK, Found, SimWork
  PROVE  Found'
<1>1. UNCHANGED <<flitQueue, dataSet>> /\ \A n \in Nodes : arrived'[n] = None
  BY DEF SimWork, rtlVars, writerVars
<1>2. \A f : HasData(f) => HasData(f)'
  BY <1>1 DEF HasData
<1>3. ASSUME NEW n \in Nodes PROVE In(partial'[n]) \subseteq In(partial[n])
  <2>1. CASE Sends(n)
    <3>1. partial[n] \in Seq(Flit) /\ partial[n] # <<>> /\ partial'[n] = Tail(partial[n])
      BY <2>1 DEF SimWork, Sends, TypeOK
    <3> QED BY <3>1, InTail
  <2>2. CASE ~Sends(n)
    <3>1. partial'[n] = partial[n]
      BY <2>2 DEF SimWork
    <3> QED BY <3>1
  <2> QED BY <2>1, <2>2
<1>4. ASSUME NEW n \in Nodes
      PROVE  In(reply'[n]) \subseteq In(reply[n]) \cup {arrived[n]}
             /\ (arrived[n] = None => reply'[n] = reply[n])
  <2>1. reply'[n] = IF arrived[n] = None THEN reply[n] ELSE Append(reply[n], arrived[n])
    BY DEF SimWork, Replies
  <2>2. CASE arrived[n] # None
    <3>1. reply[n] \in Seq(Flit) /\ arrived[n] \in Flit
      BY <2>2 DEF TypeOK
    <3> QED BY <2>1, <2>2, <3>1, InAppend
  <2>3. CASE arrived[n] = None
    BY <2>1, <2>3
  <2> QED BY <2>2, <2>3
<1>5. ASSUME NEW k \in Pids, NEW f \in In(net'[k]) PROVE HasData(f)
  <2>1. CASE Sources(k) = {}
    <3>1. net'[k] = net[k]
      BY <2>1 DEF SimWork
    <3> QED BY <1>5, <3>1 DEF Found
  <2>2. CASE Sources(k) # {}
    <3>1. PICK n \in Sources(k) : n = CHOOSE m \in Sources(k) : TRUE
      BY <2>2
    <3>2. n \in Nodes /\ Sends(n)
      BY DEF Sources
    <3>3. partial[n] \in Seq(Flit) /\ partial[n] # <<>>
      BY <3>2 DEF Sends, TypeOK
    <3>4. Head(partial[n]) \in Flit /\ Head(partial[n]) \in In(partial[n])
      BY <3>3, InTail, Shorter
    <3>5. net'[k] = Append(net[k], Head(partial[n])) /\ net[k] \in Seq(Flit)
      BY <2>2, <3>1 DEF SimWork, TypeOK
    <3>6. f \in In(net[k]) \cup {Head(partial[n])}
      BY <1>5, <3>4, <3>5, InAppend
    <3> QED BY <3>2, <3>4, <3>6 DEF Found
  <2> QED BY <2>1, <2>2
<1>6. ASSUME NEW n \in Nodes
      PROVE  /\ \A f \in In(flitQueue[n])' : HasData(f)'
             /\ \A f \in In(partial[n])' : HasData(f)'
             /\ \A f \in In(reply[n])' : HasData(f)'
  <2>1. /\ \A f \in In(flitQueue[n]) : HasData(f)
        /\ \A f \in In(partial[n]) : HasData(f)
        /\ \A f \in In(reply[n]) : HasData(f)
        /\ arrived[n] # None => HasData(arrived[n])
    BY DEF Found
  <2>2. /\ In(flitQueue[n])' = In(flitQueue[n])
        /\ In(partial[n])' = In(partial'[n]) /\ In(reply[n])' = In(reply'[n])
    BY <1>1 DEF In
  <2>3. \A f \in In(reply'[n]) : HasData(f)
    BY <1>4, <2>1
  <2>4. \A f \in In(partial'[n]) : HasData(f)
    BY <1>3, <2>1
  <2> QED BY <1>2, <2>1, <2>2, <2>3, <2>4
<1>7. \A k \in Pids : \A f \in In(net[k])' : HasData(f)'
  <2>1. \A k : In(net[k])' = In(net'[k])
    BY DEF In
  <2> QED BY <1>2, <1>5, <2>1
<1>8. \A n \in Nodes : arrived'[n] = None
  BY <1>1
<1> QED BY <1>6, <1>7, <1>8 DEF Found

\* The entry of a flit that has not been replied stays: no other flit has its number.
LEMMA FoundEject ==
  ASSUME TypeOK, Turns, Mail, Lanes, PidsOnce, Order, Found, EjectAll
  PROVE  Found'
<1>1. /\ UNCHANGED <<flitQueue, partial, arrived, net>>
      /\ pc = "eject" /\ ~simDone
      /\ \A n \in Nodes : reply'[n] = <<>> /\ flitQueue[n] = <<>>
  BY AllTaken DEF EjectAll, writerVars, sourceVars, netVars, Turns, Lanes, Lane
<1>2. ASSUME NEW f, HasData(f),
             f.fid \in Read(f.pid) \cup InNet(f.pid) \cup ToSend(f.pid) \cup Queued(f.pid)
      PROVE  HasData(f)'
  <2>1. PICK e \in dataSet : f.pid \in Pids /\ e.fid = f.fid /\ e.pid = f.pid /\ e.dest = f.dest
    BY <1>2 DEF HasData
  <2>2. ASSUME NEW n \in Nodes, NEW i \in 1 .. Len(reply[n]), e.fid = reply[n][i].fid PROVE FALSE
    <3>1. reply[n] # <<>> /\ reply[n] \in Seq(Flit) /\ Len(reply[n]) = 1
      <4>1. reply[n] = <<>> \/ (Len(reply[n]) = 1 /\ reply[n] \in Seq(Flit))
        BY <1>1, OneReply
      <4>2. reply[n] = <<>> => 1 .. Len(reply[n]) = {}
        OBVIOUS
      <4> QED BY <2>2, <4>1, <4>2
    <3>2. PICK g : g = reply[n][1] /\ e.fid = g.fid
      BY <2>2, <3>1
    <3>3. g \in In(reply[n])
      BY <3>1, <3>2 DEF In
    <3>4. g.pid \in Pids
      BY <3>3 DEF Found, HasData
    <3>5. g.fid \in Replied(g.pid)
      BY <3>1, <3>2 DEF Replied
    <3>6. g.fid \in InFlight(g.pid) /\ g.fid \in InFlight(f.pid)
      BY <1>2, <2>1, <3>2, <3>5 DEF InFlight
    <3>7. g.pid = f.pid
      BY <1>1, <2>1, <3>4, <3>6 DEF Order, Apart
    <3>8. Ordered(f.pid) /\ f.fid \in Int
      BY <1>1, <2>1, <3>2, <3>6, FidTypes DEF Order, Numbers
    <3>9. f.fid < f.fid
      BY <1>2, <2>1, <3>2, <3>5, <3>7, <3>8 DEF Ordered, Below
    <3> QED BY <3>8, <3>9
  <2>3. e \in dataSet'
    BY <2>2 DEF EjectAll, Ejected, Matches
  <2> QED BY <2>1, <2>3 DEF HasData
<1>3. ASSUME NEW n \in Nodes, NEW f \in In(partial[n]) PROVE HasData(f)'
  <2>1. partial[n] # <<>> /\ Len(partial[n]) = 1 /\ f = partial[n][1]
    <3>1. partial[n] # <<>>
      BY <1>3 DEF In
    <3>2. Len(partial[n]) = 1
      BY <3>1 DEF Lanes, Lane
    <3> QED BY <1>3, <3>1, <3>2 DEF In
  <2>2. f.fid \in ToSend(f.pid) /\ HasData(f)
    BY <1>3, <2>1 DEF ToSend, Found
  <2> QED BY <1>2, <2>2
<1>4. \A n \in Nodes : (arrived[n] # None => HasData(arrived[n]))'
  <2> SUFFICES ASSUME NEW n \in Nodes, arrived[n] # None PROVE HasData(arrived[n])'
    BY <1>1
  <2>1. PICK f : f = arrived[n]
    OBVIOUS
  <2>2. f.fid \in Read(f.pid) /\ HasData(f)
    BY <2>1 DEF Read, Found
  <2>3. HasData(f)'
    BY <1>2, <2>2
  <2> QED BY <1>1, <2>1, <2>3 DEF HasData
<1>5. ASSUME NEW k \in Pids, NEW f \in In(net[k]) PROVE HasData(f)'
  <2>1. PICK i \in 1 .. Len(net[k]) : f = net[k][i]
    BY DEF In
  <2>2. f.pid = k
    BY <1>1, <2>1 DEF Order, Numbers
  <2>3. f.fid \in InNet(f.pid) /\ HasData(f)
    BY <2>1, <2>2 DEF InNet, FidsOf, Found
  <2> QED BY <1>2, <2>3
<1>6. ASSUME NEW n \in Nodes
      PROVE  /\ \A f \in In(flitQueue[n])' : HasData(f)'
             /\ \A f \in In(partial[n])' : HasData(f)'
             /\ \A f \in In(reply[n])' : HasData(f)'
  <2>1. In(flitQueue[n])' = {} /\ In(reply[n])' = {} /\ In(partial[n])' = In(partial[n])
    BY <1>1 DEF In
  <2> QED BY <1>3, <2>1
<1>7. \A k \in Pids : \A f \in In(net[k])' : HasData(f)'
  <2>1. \A k : In(net[k])' = In(net[k])
    BY <1>1 DEF In
  <2> QED BY <1>5, <2>1
<1> QED BY <1>4, <1>1, <1>6, <1>7 DEF Found

LEMMA FoundStep ==
  ASSUME TypeOK, Turns, Mail, Lanes, PidsOnce, Order, Found, [Next]_vars, [RoomForAll]_vars
  PROVE  Found'
<1>1. ASSUME NEW S, GiveCredits(S) PROVE Found'
  BY <1>1, FoundUntouched DEF GiveCredits, writerVars, sourceVars, netVars
<1>2. CASE TakeCredits
  BY <1>2, FoundUntouched DEF TakeCredits, sourceVars, netVars
<1>3. CASE RequestStep
  BY <1>3, FoundUntouched DEF RequestStep, writerVars, sourceVars, netVars
<1>4. CASE Quit
  BY <1>4, FoundUntouched DEF Quit, writerVars, sourceVars, netVars
<1>5. CASE UNCHANGED vars
  BY <1>5, FoundUntouched DEF vars, rtlVars, writerVars, simVars, sourceVars, netVars
<1>6. ASSUME NEW d \in [Nodes -> Offers \cup {None}], Queue(d) PROVE Found'
  <2>1. CASE UNCHANGED vars
    BY <1>5, <2>1
  <2>2. CASE RoomForAll
    BY <1>6, <2>2, FoundQueue
  <2> QED BY <2>1, <2>2
<1> QED BY <1>1, <1>2, <1>3, <1>4, <1>5, <1>6,
           FoundInject, FoundRead, FoundWork, FoundEject DEF Next

-----------------------------------------------------------------------------
(* The theorems.                                                           *)

\* The whole inductive invariant.
CosimInv ==
  /\ TypeOK /\ Turns /\ Mail /\ Counts
  /\ Lanes /\ VcsKnown /\ PidsOnce
  /\ Order /\ PortsInOrder
  /\ CreditsAccounted

LEMMA CosimInit == ASSUME Init PROVE CosimInv
<1>1. TypeOK
  BY TypeInit
<1>2. /\ pc = "queue" /\ simPc = "read" /\ simDone = FALSE
      /\ nextPid = 0
      /\ \A n \in Nodes : /\ flitQueue[n] = <<>> /\ partial[n] = <<>> /\ reply[n] = <<>>
                          /\ current[n] = None /\ arrived[n] = None
      /\ \A p \in Ports : /\ occ[p] = 0 /\ prevOcc[p] = 0 /\ inUse[p] = FALSE
                          /\ creditUp[p] = FALSE /\ creditDown[p] = FALSE /\ held[p] = 0
                          /\ writerCredits[p] = WriterDepth /\ ejectCredits[p] = VcBufSize
      /\ \A k \in Pids : packetVc[k] = None
  BY DEF Init
<1>3. Turns /\ Mail
  BY <1>2 DEF Turns, Mail
<1>4. Counts
  BY <1>2 DEF Counts
<1>5. Lanes
  <2> SUFFICES ASSUME NEW n \in Nodes PROVE Lane(n)
    BY DEF Lanes
  <2>1. ~Open(n)
    BY <1>2, LanePort DEF Open
  <2> QED BY <1>2, <2>1 DEF Lane, AfterQueue, AfterPartial
<1>6. VcsKnown
  BY <1>2 DEF VcsKnown
<1>7. PidsOnce
  BY <1>2, CosimAssumption DEF PidsOnce, At
<1>8. CreditsAccounted
  <2> SUFFICES ASSUME NEW p \in Ports
               PROVE  WriterCredits(p) = WriterDepth /\ EjectCredits(p) = VcBufSize
    BY DEF CreditsAccounted
  <2>1. p[1] \in Nodes /\ p[2] \in VCs /\ WriterDepth \in Nat /\ VcBufSize \in Nat
    BY PortParts, CosimAssumption
  <2>2. CountOn(<<>>, p[2]) = 0
    BY <2>1, CountEmpty
  <2>3. WriterCredits(p) = WriterDepth + 0 + 0 + 0 + 0
    BY <1>2, <2>1, <2>2 DEF WriterCredits, TakenUp
  <2>4. EjectCredits(p) = VcBufSize + 0 + 0 + 0 + 0
    BY <1>2, <2>1, <2>2 DEF EjectCredits
  <2> QED BY <2>1, <2>3, <2>4
<1>9. Order
  <2>1. dataSet = {} /\ \A k \in Pids : net[k] = <<>>
    BY DEF Init
  <2>2. ASSUME NEW k \in Pids PROVE Numbers(k)
    <3>1. Replied(k) = {} /\ Read(k) = {} /\ ToSend(k) = {} /\ Queued(k) = {}
      BY <1>2 DEF Replied, Read, ToSend, Queued
    <3>2. InNet(k) = {} /\ Ascending(net[k]) /\ \A i \in 1 .. Len(net[k]) : net[k][i].pid = k
      BY <2>1 DEF InNet, FidsOf, Ascending
    <3> QED BY <3>1, <3>2 DEF Numbers, Ordered, InFlight, OneOf, Below
  <2>3. Apart
    <3>1. \A k \in Pids : InFlight(k) = {}
      <4> SUFFICES ASSUME NEW k \in Pids PROVE InFlight(k) = {}
        OBVIOUS
      <4>1. Replied(k) = {} /\ Read(k) = {} /\ ToSend(k) = {} /\ Queued(k) = {} /\ InNet(k) = {}
        BY <1>2, <2>1 DEF Replied, Read, ToSend, Queued, InNet, FidsOf
      <4> QED BY <4>1 DEF InFlight
    <3> QED BY <3>1 DEF Apart
  <2> QED BY <2>1, <2>2, <2>3 DEF Order, Data
<1>10. PortsInOrder
  <2> SUFFICES ASSUME NEW p \in Ports PROVE PortInOrder(p)
    BY DEF PortsInOrder
  <2>1. p[1] \in Nodes /\ readerOpen[p] = None /\ ejectOpen[p] = None
    BY PortParts DEF Init
  <2> QED BY <1>2, <2>1 DEF PortInOrder, RepliedOn, ReadOn, AfterReply, AfterRead
<1> QED BY <1>1, <1>3, <1>4, <1>5, <1>6, <1>7, <1>8, <1>9, <1>10 DEF CosimInv

LEMMA CosimStep == ASSUME OneStep, CosimInv, [Next]_vars PROVE CosimInv'
<1>1. /\ TypeOK /\ Turns /\ Mail /\ Counts /\ Lanes /\ VcsKnown /\ PidsOnce
      /\ Order /\ PortsInOrder /\ CreditsAccounted
  BY DEF CosimInv
<1>2. TypeOK' /\ Turns' /\ Mail' /\ Counts'
  BY <1>1, TypeStep, TurnsStep, MailStep, CountsStep
<1>3. Lanes' /\ VcsKnown' /\ PidsOnce'
  BY <1>1, LanesStep, VcsStep, PidsStep
<1>4. WriterOK' /\ EjectOK'
  BY <1>1, <1>2, WriterStep, EjectStep
<1>5. CreditsAccounted'
  BY <1>4 DEF WriterOK, EjectOK, CreditsAccounted
<1>6. Order' /\ PortsInOrder'
  BY <1>1, OrderStep, PortsStep
<1> QED BY <1>2, <1>3, <1>5, <1>6 DEF CosimInv

LEMMA CosimInvariant == ASSUME OneStep PROVE Spec => []CosimInv
<1>1. Init => CosimInv
  BY CosimInit
<1>2. CosimInv /\ [Next]_vars => CosimInv'
  BY CosimStep
<1> QED BY <1>1, <1>2, PTL DEF Spec

\* Credits are conserved between the two programs, in both directions: none that a
\* writer or a reader needs is lost by the mailboxes, by the inference of a credit
\* from two counts, or by BookSim running ahead or behind.
THEOREM CreditsAreAccounted == ASSUME OneStep PROVE Spec => []CreditsAccounted
<1>1. CosimInv => CreditsAccounted
  BY DEF CosimInv
<1> QED BY <1>1, CosimInvariant, PTL

\* "We must read the credits every cycle": the assertions of both mailboxes of
\* credits never fail while the RTL runs, and no flit replaces another in o_flit_out.
THEOREM NothingIsOverwritten == ASSUME OneStep PROVE Spec => []NothingOverwritten
<1>1. CosimInv => NothingOverwritten
  <2> SUFFICES ASSUME TypeOK, Turns, Mail PROVE NothingOverwritten
    BY DEF CosimInv
  <2>1. simPc = "work" /\ ~simDone => \A p \in Ports : ~creditUp[p]
    BY DEF Mail
  <2>2. pc = "give" /\ Serving => \A p \in Ports : ~creditDown[p]
    BY DEF Mail, Serving
  <2>3. pc = "eject" => \A n \in Nodes : Len(reply[n]) <= 1
    <3> SUFFICES ASSUME pc = "eject", NEW n \in Nodes PROVE Len(reply[n]) <= 1
      OBVIOUS
    <3>1. (reply[n] = <<>> \/ Len(reply[n]) = 1) /\ reply[n] \in Seq(Flit)
      BY OneReply DEF TypeOK
    <3>2. Len(reply[n]) \in {0, 1}
      BY <3>1, EmptyQueue
    <3>3. \A l \in {0, 1} : l <= 1
      OBVIOUS
    <3> QED BY <3>2, <3>3
  <2> QED BY <2>1, <2>2, <2>3 DEF NothingOverwritten
<1> QED BY <1>1, CosimInvariant, PTL

\* What the RTL injects BookSim sends in the same step: the writer's credits and the
\* packets it keeps apart are enough for the assertions of _Step.
THEOREM InjectionIsAdmitted == ASSUME OneStep PROVE Spec => []InjectionAdmitted
<1>1. CosimInv => InjectionAdmitted
  <2> SUFFICES ASSUME CosimInv PROVE InjectionAdmitted
    OBVIOUS
  <2>1. TypeOK /\ Turns /\ Counts /\ Lanes /\ VcsKnown /\ CreditsAccounted
    BY DEF CosimInv
  <2>2. ASSUME simPc = "work", NEW n \in Nodes, partial[n] # <<>>
        PROVE  /\ FrontVc(n) \in VCs
               /\ Head(partial[n]).head => ~inUse[<<n, FrontVc(n)>>]
               /\ occ[<<n, FrontVc(n)>>] < VcBufSize
    BY <2>1, <2>2, FrontIsSent, LanePort
  <2>3. simPc = "read" => \A n \in Nodes : partial[n] = <<>>
    BY <2>1 DEF Lanes, Lane, Turns
  <2> QED BY <2>2, <2>3 DEF InjectionAdmitted
<1> QED BY <1>1, CosimInvariant, PTL

\* A reader sees each packet whole: in order, on one VC, and with no flit of another
\* packet between its flits, and the entries that data_set still has for it are those
\* of the flits to come.
THEOREM PacketsDoArriveWhole == ASSUME OneStep PROVE Spec => []PacketsArriveWhole
<1>1. CosimInv => PacketsArriveWhole
  <2> SUFFICES ASSUME CosimInv, pc = "eject", NEW n \in Nodes, FlitOut(n) # None
               PROVE  /\ readerOpen[<<n, FlitOut(n).vc>>] = Holder(FlitOut(n))
                      /\ \A e \in dataSet : e.pid = FlitOut(n).pid => FlitOut(n).fid <= e.fid
    BY DEF PacketsArriveWhole, Holder
  <2>1. TypeOK /\ Turns /\ Mail /\ Order /\ PortsInOrder /\ ~simDone
    BY DEF CosimInv, Turns
  <2>2. PICK f : f = FlitOut(n)
    OBVIOUS
  <2>3. reply[n] \in Seq(Flit) /\ Len(reply[n]) = 1 /\ f = reply[n][1]
    BY <2>1, <2>2, OneReply
  <2>4. reply[n] # <<>> /\ f \in Flit
    BY <2>3, Single
  <2>5. readerOpen[<<n, f.vc>>] = Holder(f)
    <3>1. <<n, f.vc>> \in Ports
      BY <2>4 DEF Ports, Flit
    <3> QED BY <2>1, <2>3, <2>4, <3>1 DEF PortsInOrder, PortInOrder, RepliedOn
  <2>6. ASSUME NEW e \in dataSet, e.pid = f.pid PROVE f.fid <= e.fid
    <3>1. PICK k \in Pids : k = e.pid /\ e.fid \in InFlight(k)
      BY <2>1 DEF Order, Data
    <3>2. f.fid \in Replied(k) /\ f.fid \in InFlight(k)
      BY <2>3, <2>4, <2>6, <3>1 DEF Replied, InFlight
    <3>3. e.fid \in Int /\ f.fid \in Int
      BY <2>1, <3>1, <3>2, FidTypes
    <3>4. Ordered(k)
      BY <2>1 DEF Order, Numbers
    <3>5. f.fid = e.fid \/ f.fid < e.fid
      BY <3>1, <3>2, <3>4 DEF Ordered, InFlight, OneOf, Below
    <3> QED BY <3>3, <3>5
  <2> QED BY <2>2, <2>5, <2>6
<1> QED BY <1>1, CosimInvariant, PTL

\* As long as data_set has room for what is queued, every flit that BookSim has will
\* find its entry, with the destination that the network takes it to: the search by
\* flit identifier alone never takes the entry of another flit.
THEOREM DataIsFound == ASSUME OneStep PROVE Spec /\ [][RoomForAll]_vars => []DataFound
<1>1. Init => Found
  <2> SUFFICES ASSUME Init PROVE Found
    OBVIOUS
  <2>1. /\ \A n \in Nodes : flitQueue[n] = <<>> /\ partial[n] = <<>> /\ reply[n] = <<>> /\ arrived[n] = None
        /\ \A k \in Pids : net[k] = <<>>
    BY DEF Init
  <2>2. In(<<>>) = {}
    BY DEF In
  <2> QED BY <2>1, <2>2 DEF Found
<1>2. CosimInv /\ Found /\ [Next]_vars /\ [RoomForAll]_vars => Found'
  BY FoundStep DEF CosimInv
<1>3. Found => DataFound
  <2> SUFFICES ASSUME Found, NEW f \in InBookSim
               PROVE  \E e \in dataSet : e.fid = f.fid /\ e.pid = f.pid /\ e.dest = f.dest
    BY DEF DataFound
  <2>1. \/ \E k \in Pids : f \in In(net[k])
        \/ \E n \in Nodes : f \in In(partial[n]) \/ f \in In(reply[n]) \/ (arrived[n] # None /\ f = arrived[n])
    BY DEF InBookSim, In
  <2>2. HasData(f)
    BY <2>1 DEF Found
  <2> QED BY <2>2 DEF HasData
<1> QED BY <1>1, <1>2, <1>3, CosimInvariant, PTL DEF Spec

=============================================================================
