-------------------------- MODULE CreditLinkProofs --------------------------
(***************************************************************************)
(* Proofs about CreditLink for every number of VCs and senders, every      *)
(* buffer size and both settings of wait_for_tail_credit: its counts and   *)
(* credits, its totals, the order of its packets, and that it implements   *)
(* PacketFifo.                                                             *)
(***************************************************************************)
EXTENDS CreditLink, FiniteSetTheorems, TLAPS

USE DEF NoPid

\* Facts about the sequences used as channels and buffers.
LEMMA HeadTail ==
  ASSUME NEW T, NEW q \in Seq(T), q # <<>>
  PROVE  /\ Head(q) \in T
         /\ Tail(q) \in Seq(T)
         /\ Len(q) \in Nat \ {0}
         /\ Len(Tail(q)) = Len(q) - 1
         /\ Head(q) = q[1]
         /\ \A i \in 1 .. Len(q) - 1 : Tail(q)[i] = q[i + 1]
  OBVIOUS

LEMMA Appended ==
  ASSUME NEW T, NEW q \in Seq(T), NEW e \in T
  PROVE  /\ Append(q, e) \in Seq(T)
         /\ Append(q, e) # <<>>
         /\ Len(Append(q, e)) = Len(q) + 1
         /\ Len(q) \in Nat
         /\ Append(q, e)[Len(q) + 1] = e
         /\ \A i \in 1 .. Len(q) : Append(q, e)[i] = q[i]
  OBVIOUS

\* What a link does when nothing is known of the policy: the same operations, without the
\* guards by which a policy holds a flit or a packet back.
LinkNext ==
  \/ \E s \in Senders, v \in VCs : TakeBuffer(s, v)
  \/ \E s \in Senders, last \in BOOLEAN : SendingFlit(s, last)
  \/ \E v \in VCs : AddFlit(v)
  \/ \E v \in VCs : RemoveFlit(v)
  \/ \E S \in SUBSET VCs : ProcessCredit(S)

LEMMA NextIsLinkStep == [Next]_vars => [LinkNext]_vars
  BY DEF Next, LinkNext, PrivateTake, PrivateSend

-----------------------------------------------------------------------------
(* Types.                                                                  *)

LEMMA TypeInit == ASSUME Init PROVE TypeOK
  BY LinkAssumption DEF Init, TypeOK

\* The flit that SendingFlit puts on the channel.
LEMMA SentFlit ==
  ASSUME TypeOK, NEW s \in Senders, NEW last \in BOOLEAN, outVC[s] # None
  PROVE  /\ outVC[s] \in VCs
         /\ [pid |-> pid[s], head |-> sent[s] = 0, tail |-> last] \in Flit
  BY DEF TypeOK, Flit

LEMMA TypeStep == ASSUME TypeOK, [LinkNext]_vars PROVE TypeOK'
<1> USE DEF TypeOK
<1>1. ASSUME NEW s \in Senders, NEW v \in VCs, TakeBuffer(s, v) PROVE TypeOK'
  BY <1>1, LinkAssumption DEF TakeBuffer, sinkVars
<1>2. ASSUME NEW s \in Senders, NEW last \in BOOLEAN, SendingFlit(s, last) PROVE TypeOK'
  <2> DEFINE f == [pid |-> pid[s], head |-> sent[s] = 0, tail |-> last]
  <2>1. outVC[s] \in VCs /\ f \in Flit
    BY <1>2, SentFlit DEF SendingFlit
  <2>2. channel' = [channel EXCEPT ![outVC[s]] = Append(@, f)]
    BY <1>2 DEF SendingFlit
  <2>3. channel' \in [VCs -> Seq(Flit)]
    BY <2>1, <2>2, Appended
  <2>4. /\ UNCHANGED <<pid, nextPid, buffer, bufOccupancy, expectedPid, credits>>
        /\ inUseBy' \in [VCs -> Senders \cup {None}]
        /\ tailSent' \in [VCs -> BOOLEAN]
        /\ vcOccupancy' \in [VCs -> Int]
        /\ occupancy' \in Int
        /\ outVC' \in [Senders -> VCs \cup {None}]
        /\ \A r \in Senders : outVC'[r] # None => outVC[r] # None
        /\ sent' \in [Senders -> Nat]
    BY <1>2, <2>1 DEF SendingFlit, sinkVars
  <2> QED BY <2>3, <2>4
<1>3. ASSUME NEW v \in VCs, AddFlit(v) PROVE TypeOK'
  <2>1. Head(channel[v]) \in Flit /\ Tail(channel[v]) \in Seq(Flit)
    BY <1>3, HeadTail DEF AddFlit
  <2>2. channel' \in [VCs -> Seq(Flit)]
    BY <1>3, <2>1 DEF AddFlit
  <2>3. buffer' \in [VCs -> Seq(Flit)]
    BY <1>3, <2>1, Appended DEF AddFlit
  <2>4. NextExpectedPid(expectedPid[v], Head(channel[v])) \in Nat \cup {NoPid}
    BY <2>1 DEF NextExpectedPid, Flit
  <2> QED BY <1>3, <2>2, <2>3, <2>4 DEF AddFlit, stateVars, senderVars
<1>4. ASSUME NEW v \in VCs, RemoveFlit(v) PROVE TypeOK'
  <2>1. buffer' \in [VCs -> Seq(Flit)]
    BY <1>4, HeadTail DEF RemoveFlit
  <2> QED BY <1>4, <2>1 DEF RemoveFlit, stateVars, senderVars
<1>5. ASSUME NEW S \in SUBSET VCs, ProcessCredit(S) PROVE TypeOK'
  <2>1. Cardinality(S) \in Nat
    BY LinkAssumption, FS_Subset, FS_CardinalityType
  <2>2. credits' \in [VCs -> Nat]
    BY <1>5 DEF ProcessCredit
  <2>3. occupancy' \in Int
    BY <1>5, <2>1 DEF ProcessCredit
  <2> QED BY <1>5, <2>2, <2>3 DEF ProcessCredit, senderVars, sinkVars
<1>6. CASE UNCHANGED vars
  BY <1>6 DEF vars, stateVars, senderVars, sinkVars
<1> QED BY <1>1, <1>2, <1>3, <1>4, <1>5, <1>6 DEF LinkNext

\* Every variable keeps its type; in particular no credit count or sequence of
\* flits leaves its domain, whatever the sizes of the link.
THEOREM TypeCorrect == Spec => []TypeOK
<1>1. Init => TypeOK
  BY TypeInit
<1>2. TypeOK /\ [Next]_vars => TypeOK'
  BY NextIsLinkStep, TypeStep
<1> QED BY <1>1, <1>2, PTL DEF Spec

-----------------------------------------------------------------------------
(* Credits.                                                                *)

\* Names for the lengths, so that the arithmetic steps do not see sequences.
Underway(v) == Len(channel[v])
Stored(v) == Len(buffer[v])

LEMMA Counts ==
  ASSUME TypeOK, NEW v \in VCs
  PROVE  /\ channel[v] \in Seq(Flit) /\ Underway(v) \in Nat
         /\ buffer[v] \in Seq(Flit) /\ Stored(v) \in Nat
         /\ credits[v] \in Nat
         /\ vcOccupancy[v] \in Int
<1>1. channel[v] \in Seq(Flit) /\ buffer[v] \in Seq(Flit)
  BY DEF TypeOK
<1> QED BY <1>1 DEF TypeOK, Underway, Stored

\* What each action does to the four counts of a VC.
LEMMA CountsAfterSend ==
  ASSUME TypeOK, NEW s \in Senders, NEW last \in BOOLEAN, SendingFlit(s, last), NEW v \in VCs
  PROVE  /\ Stored(v)' = Stored(v) /\ credits'[v] = credits[v]
         /\ v = outVC[s] => Underway(v)' = Underway(v) + 1 /\ vcOccupancy'[v] = vcOccupancy[v] + 1
         /\ v # outVC[s] => Underway(v)' = Underway(v) /\ vcOccupancy'[v] = vcOccupancy[v]
<1> DEFINE f == [pid |-> pid[s], head |-> sent[s] = 0, tail |-> last]
<1>1. outVC[s] \in VCs /\ f \in Flit
  BY SentFlit DEF SendingFlit
<1>2. /\ channel' = [channel EXCEPT ![outVC[s]] = Append(@, f)]
      /\ vcOccupancy' = [vcOccupancy EXCEPT ![outVC[s]] = @ + 1]
      /\ UNCHANGED <<buffer, credits>>
  BY DEF SendingFlit, sinkVars
<1>3. Len(Append(channel[outVC[s]], f)) = Len(channel[outVC[s]]) + 1
  BY <1>1, Counts, Appended
<1> HIDE DEF f
<1> QED BY <1>2, <1>3 DEF TypeOK, Underway, Stored

LEMMA CountsAfterAdd ==
  ASSUME TypeOK, NEW w \in VCs, AddFlit(w), NEW v \in VCs
  PROVE  /\ credits'[v] = credits[v] /\ vcOccupancy'[v] = vcOccupancy[v]
         /\ v = w => Underway(v)' = Underway(v) - 1 /\ Stored(v)' = Stored(v) + 1
         /\ v # w => Underway(v)' = Underway(v) /\ Stored(v)' = Stored(v)
<1>1. /\ Len(Tail(channel[w])) = Len(channel[w]) - 1
      /\ Head(channel[w]) \in Flit
  BY HeadTail, Counts DEF AddFlit
<1>2. Len(Append(buffer[w], Head(channel[w]))) = Len(buffer[w]) + 1
  BY <1>1, Appended, Counts
<1> QED BY <1>1, <1>2 DEF AddFlit, stateVars, TypeOK, Underway, Stored

LEMMA CountsAfterRemove ==
  ASSUME TypeOK, NEW w \in VCs, RemoveFlit(w), NEW v \in VCs
  PROVE  /\ Underway(v)' = Underway(v) /\ vcOccupancy'[v] = vcOccupancy[v]
         /\ v = w => Stored(v)' = Stored(v) - 1 /\ credits'[v] = credits[v] + 1
         /\ v # w => Stored(v)' = Stored(v) /\ credits'[v] = credits[v]
<1>1. Len(Tail(buffer[w])) = Len(buffer[w]) - 1
  BY HeadTail, Counts DEF RemoveFlit
<1> QED BY <1>1 DEF RemoveFlit, stateVars, TypeOK, Underway, Stored

LEMMA CountsAfterCredit ==
  ASSUME TypeOK, NEW S \in SUBSET VCs, ProcessCredit(S), NEW v \in VCs
  PROVE  /\ Underway(v)' = Underway(v) /\ Stored(v)' = Stored(v)
         /\ v \in S => credits'[v] = credits[v] - 1 /\ vcOccupancy'[v] = vcOccupancy[v] - 1
         /\ v \notin S => credits'[v] = credits[v] /\ vcOccupancy'[v] = vcOccupancy[v]
  BY DEF ProcessCredit, sinkVars, Underway, Stored

LEMMA ConservationNamed ==
  CreditConservation <=>
    \A v \in VCs : vcOccupancy[v] = Underway(v) + Stored(v) + credits[v]
  BY DEF CreditConservation, Underway, Stored

LEMMA ConservationStep ==
  ASSUME TypeOK, CreditConservation, [LinkNext]_vars
  PROVE  CreditConservation'
<1> SUFFICES ASSUME NEW v \in VCs
             PROVE  (vcOccupancy[v] = Underway(v) + Stored(v) + credits[v])'
  BY DEF CreditConservation, Underway, Stored
<1>1. vcOccupancy[v] = Underway(v) + Stored(v) + credits[v]
  BY ConservationNamed
<1>2. ASSUME NEW s \in Senders, NEW w \in VCs, TakeBuffer(s, w)
      PROVE  (vcOccupancy[v] = Underway(v) + Stored(v) + credits[v])'
  BY <1>1, <1>2 DEF TakeBuffer, sinkVars, Underway, Stored
<1>3. ASSUME NEW s \in Senders, NEW last \in BOOLEAN, SendingFlit(s, last)
      PROVE  (vcOccupancy[v] = Underway(v) + Stored(v) + credits[v])'
  BY <1>1, <1>3, Counts, CountsAfterSend
<1>4. ASSUME NEW w \in VCs, AddFlit(w)
      PROVE  (vcOccupancy[v] = Underway(v) + Stored(v) + credits[v])'
  <2>1. /\ credits'[v] = credits[v] /\ vcOccupancy'[v] = vcOccupancy[v]
        /\ \/ Underway(v)' = Underway(v) - 1 /\ Stored(v)' = Stored(v) + 1
           \/ Underway(v)' = Underway(v) /\ Stored(v)' = Stored(v)
    BY <1>4, CountsAfterAdd
  <2> QED BY <1>1, <2>1, Counts
<1>5. ASSUME NEW w \in VCs, RemoveFlit(w)
      PROVE  (vcOccupancy[v] = Underway(v) + Stored(v) + credits[v])'
  <2>1. /\ Underway(v)' = Underway(v) /\ vcOccupancy'[v] = vcOccupancy[v]
        /\ \/ Stored(v)' = Stored(v) - 1 /\ credits'[v] = credits[v] + 1
           \/ Stored(v)' = Stored(v) /\ credits'[v] = credits[v]
    BY <1>5, CountsAfterRemove
  <2> QED BY <1>1, <2>1, Counts
<1>6. ASSUME NEW S \in SUBSET VCs, ProcessCredit(S)
      PROVE  (vcOccupancy[v] = Underway(v) + Stored(v) + credits[v])'
  <2>1. /\ Underway(v)' = Underway(v) /\ Stored(v)' = Stored(v)
        /\ \/ credits'[v] = credits[v] - 1 /\ vcOccupancy'[v] = vcOccupancy[v] - 1
           \/ credits'[v] = credits[v] /\ vcOccupancy'[v] = vcOccupancy[v]
    BY <1>6, CountsAfterCredit
  <2> QED BY <1>1, <2>1, Counts
<1>7. CASE UNCHANGED vars
  BY <1>1, <1>7 DEF vars, stateVars, sinkVars, Underway, Stored
<1> QED BY <1>2, <1>3, <1>4, <1>5, <1>6, <1>7 DEF LinkNext

\* No credit is lost, duplicated or returned to another VC, for every number of
\* VCs and senders: BufferState::_vc_occupancy is always the number of flits and
\* credits of the VC that are outstanding.
THEOREM CreditsConserved == Spec => []CreditConservation
<1>1. Init => TypeOK /\ CreditConservation
  BY TypeInit DEF Init, CreditConservation
<1>2. TypeOK /\ CreditConservation /\ [Next]_vars => (TypeOK /\ CreditConservation)'
  BY NextIsLinkStep, TypeStep, ConservationStep
<1> QED BY <1>1, <1>2, PTL DEF Spec

\* What the private policy's own assertion says: a VC's count is bounded.
Bounded == \A v \in VCs : vcOccupancy[v] <= VcBufSize

LEMMA BoundedStep ==
  ASSUME TypeOK, Bounded, [Next]_vars
  PROVE  Bounded'
<1> USE VcBufSizeAssumption DEF Bounded
<1>1. ASSUME NEW s \in Senders, NEW v \in VCs, PrivateTake(s, v) PROVE Bounded'
  BY <1>1 DEF PrivateTake, TakeBuffer
<1>2. ASSUME NEW s \in Senders, NEW last \in BOOLEAN, PrivateSend(s, last) PROVE Bounded'
  BY <1>2 DEF PrivateSend, SendingFlit, IsFullFor, TypeOK
<1>3. ASSUME NEW v \in VCs, AddFlit(v) \/ RemoveFlit(v) PROVE Bounded'
  BY <1>3 DEF AddFlit, RemoveFlit, stateVars
<1>4. ASSUME NEW S \in SUBSET VCs, ProcessCredit(S) PROVE Bounded'
  BY <1>4 DEF ProcessCredit, TypeOK
<1>5. CASE UNCHANGED vars
  BY <1>5 DEF vars, stateVars
<1> QED BY <1>1, <1>2, <1>3, <1>4, <1>5 DEF Next

\* The upstream check of one count bounds what the channel and the downstream
\* buffer hold of a VC together, for every buffer size.
THEOREM PrivateSlotsRespected == Spec => []VcWithinPrivateSlots
<1> DEFINE I == TypeOK /\ CreditConservation /\ Bounded
<1>1. Init => I
  BY TypeInit, VcBufSizeAssumption DEF Init, CreditConservation, Bounded
<1>2. I /\ [Next]_vars => I'
  BY NextIsLinkStep, TypeStep, ConservationStep, BoundedStep
<1>3. I => VcWithinPrivateSlots
  BY VcBufSizeAssumption DEF TypeOK, CreditConservation, Bounded, VcWithinPrivateSlots
<1> QED BY <1>1, <1>2, <1>3, PTL DEF Spec

-----------------------------------------------------------------------------
(* Ownership of a VC.                                                      *)

LEMMA SoleSenderStep ==
  ASSUME TypeOK, SoleSender, [LinkNext]_vars
  PROVE  SoleSender'
<1> USE DEF SoleSender
<1>1. ASSUME NEW s \in Senders, NEW v \in VCs, TakeBuffer(s, v) PROVE SoleSender'
  \* A VC that another input VC sends to is recorded as held, so it is not v.
  <2>1. \A r \in Senders : outVC[r] # v
    <3>1. inUseBy[v] = None /\ None \notin Senders \cup VCs
      BY <1>1, LinkAssumption DEF TakeBuffer, IsAvailableFor
    <3> QED BY <3>1
  <2> QED BY <1>1, <2>1, LinkAssumption DEF TakeBuffer, TypeOK
<1>2. ASSUME NEW s \in Senders, NEW last \in BOOLEAN, SendingFlit(s, last) PROVE SoleSender'
  \* Both senders of one VC would be its recorded holder.
  <2>1. \A r \in Senders : outVC[r] = outVC[s] => r = s
    BY <1>2 DEF SendingFlit
  <2>2. outVC[s] \in VCs
    BY <1>2, SentFlit DEF SendingFlit
  <2> QED BY <1>2, <2>1, <2>2 DEF SendingFlit, TypeOK
<1>3. ASSUME NEW v \in VCs, AddFlit(v) \/ RemoveFlit(v) PROVE SoleSender'
  BY <1>3 DEF AddFlit, RemoveFlit, stateVars, senderVars
<1>4. ASSUME NEW S \in SUBSET VCs, ProcessCredit(S) PROVE SoleSender'
  \* A credit frees only a VC whose tail has been sent, which nobody sends to.
  <2>1. \A s \in Senders : outVC[s] # None => outVC[s] \in VCs /\ ~ReleasedBy(outVC[s])
    BY DEF ReleasedBy, TypeOK
  <2> QED BY <1>4, <2>1 DEF ProcessCredit, senderVars, TypeOK
<1>5. CASE UNCHANGED vars
  BY <1>5 DEF vars, stateVars, senderVars
<1> QED BY <1>1, <1>2, <1>3, <1>4, <1>5 DEF LinkNext

\* However many input VCs compete, an output VC is fed by its recorded holder
\* only, and never after that packet's tail.
THEOREM OneSenderPerVc == Spec => []SoleSender
<1>1. Init => TypeOK /\ SoleSender
  BY TypeInit, LinkAssumption DEF Init, SoleSender
<1>2. TypeOK /\ SoleSender /\ [Next]_vars => (TypeOK /\ SoleSender)'
  BY NextIsLinkStep, TypeStep, SoleSenderStep
<1> QED BY <1>1, <1>2, PTL DEF Spec

-----------------------------------------------------------------------------
(* The totals of a link follow from the counts of its VCs: BufferState and *)
(* Buffer check only _occupancy against the size of the whole buffer, and  *)
(* the policy checks only one VC.  A count per VC is seen as a set of      *)
(* slots, <<v, 1>> .. <<v, n>>, so that a total is a cardinality.          *)

Filled(f) == {p \in VCs \X (1 .. VcBufSize) : p[2] <= f[p[1]]}

Counters == [VCs -> 0 .. VcBufSize]

LEMMA AllSlots ==
  /\ IsFiniteSet(VCs \X (1 .. VcBufSize))
  /\ Cardinality(VCs \X (1 .. VcBufSize)) = Cardinality(VCs) * VcBufSize
  /\ Cardinality(VCs) \in Nat
<1>1. IsFiniteSet(1 .. VcBufSize) /\ Cardinality(1 .. VcBufSize) = VcBufSize
  BY FS_Interval, VcBufSizeAssumption
<1> QED BY <1>1, LinkAssumption, FS_Product, FS_CardinalityType

\* The slots of all VCs fit in the buffer: the division rounds down.
LEMMA SlotsFit ==
  ASSUME VCs # {}
  PROVE  /\ Cardinality(VCs) * VcBufSize <= Size
         /\ Size \in Nat
<1> DEFINE n == Cardinality(VCs)
<1>1. n \in Nat \ {0}
  BY LinkAssumption, FS_CardinalityType, FS_EmptySet
<1>2. BufSizeOption \in Int \ {0} /\ VcBufSizeOption \in Nat \ {0}
  BY LinkAssumption
<1> HIDE DEF n
<1>3. CASE BufSizeOption < 0
  BY <1>1, <1>2, <1>3 DEF VcBufSize, Size, n
<1>4. CASE BufSizeOption > 0
  <2>1. n * (BufSizeOption \div n) <= BufSizeOption
    BY <1>1, <1>2, <1>4, Z3
  <2> QED BY <1>2, <1>4, <2>1 DEF VcBufSize, Size, n
<1> QED BY <1>2, <1>3, <1>4

LEMMA FilledFinite ==
  ASSUME NEW f \in Counters
  PROVE  /\ IsFiniteSet(Filled(f))
         /\ Cardinality(Filled(f)) \in Nat
  BY AllSlots, FS_Subset, FS_CardinalityType DEF Filled

\* A VC below its limit leaves the buffer below its size.
LEMMA RoomForOne ==
  ASSUME NEW f \in Counters, NEW v \in VCs, f[v] < VcBufSize
  PROVE  Cardinality(Filled(f)) < Size
<1> DEFINE all == VCs \X (1 .. VcBufSize)
<1>1. <<v, VcBufSize>> \in all \ Filled(f)
  BY VcBufSizeAssumption DEF Filled, Counters
<1>2. Filled(f) \in SUBSET all
  BY DEF Filled
<1>3. Cardinality(Filled(f)) < Cardinality(all)
  BY <1>1, <1>2, AllSlots, FS_Subset, FS_CardinalityType
<1> HIDE DEF all
<1>4. Cardinality(all) <= Size
  BY AllSlots, SlotsFit DEF all
<1> QED BY <1>3, <1>4, FilledFinite, AllSlots, SlotsFit, VcBufSizeAssumption DEF all

LEMMA FillOne ==
  ASSUME NEW f \in Counters, NEW v \in VCs, f[v] < VcBufSize,
         NEW g \in Counters, g[v] = f[v] + 1, \A w \in VCs \ {v} : g[w] = f[w]
  PROVE  Cardinality(Filled(g)) = Cardinality(Filled(f)) + 1
<1> DEFINE p == <<v, f[v] + 1>>
<1>1. p \notin Filled(f)
  BY DEF Filled, Counters
<1>2. Filled(g) = Filled(f) \cup {p}
  BY VcBufSizeAssumption DEF Filled, Counters
<1> HIDE DEF p
<1> QED BY <1>1, <1>2, FilledFinite, FS_AddElement

LEMMA DrainSome ==
  ASSUME NEW f \in Counters, NEW S \in SUBSET VCs, \A v \in S : f[v] > 0,
         NEW g \in Counters, \A v \in VCs : g[v] = f[v] - (IF v \in S THEN 1 ELSE 0)
  PROVE  Cardinality(Filled(g)) = Cardinality(Filled(f)) - Cardinality(S)
<1> DEFINE D == {<<v, f[v]>> : v \in S}
<1>1. IsFiniteSet(S) /\ Cardinality(S) \in Nat
  BY LinkAssumption, FS_Subset, FS_CardinalityType
<1>2. [v \in S |-> <<v, f[v]>>] \in Bijection(S, D)
  <2> DEFINE b == [v \in S |-> <<v, f[v]>>]
  <2>1. b \in [S -> D] /\ \A x, y \in S : b[x] = b[y] => x = y
    OBVIOUS
  <2>2. \A d \in D : \E x \in S : b[x] = d
    OBVIOUS
  <2> QED BY <2>1, <2>2 DEF Bijection, Injection, IsInjective, Surjection
<1>3. IsFiniteSet(D) /\ Cardinality(D) = Cardinality(S)
  BY <1>1, <1>2, FS_Bijection DEF ExistsBijection
<1>4. Filled(f) = Filled(g) \cup D /\ Filled(g) \cap D = {}
  BY VcBufSizeAssumption DEF Filled, Counters
<1>5. Cardinality(Filled(f)) = Cardinality(Filled(g)) + Cardinality(D)
  <2> HIDE DEF D
  <2>1. Cardinality(Filled(g) \cap D) = 0
    BY <1>4, FS_EmptySet
  <2>2. Cardinality(Filled(g) \cup D)
          = Cardinality(Filled(g)) + Cardinality(D) - Cardinality(Filled(g) \cap D)
    BY <1>3, FilledFinite, FS_Union
  <2> QED BY <1>1, <1>3, <1>4, <2>1, <2>2, FilledFinite
<1> QED BY <1>1, <1>3, <1>5, FilledFinite

-----------------------------------------------------------------------------
(* The totals are the sums of the counts.                                  *)

StoredCounts == [v \in VCs |-> Stored(v)]

TotalsAgree ==
  /\ occupancy = Cardinality(Filled(vcOccupancy))
  /\ bufOccupancy = Cardinality(Filled(StoredCounts))

TotalsInv == TypeOK /\ CreditConservation /\ Bounded /\ TotalsAgree

LEMMA CountsAreCounters ==
  TypeOK /\ CreditConservation /\ Bounded =>
    vcOccupancy \in Counters /\ StoredCounts \in Counters
<1> SUFFICES ASSUME TypeOK, CreditConservation, Bounded
             PROVE  vcOccupancy \in Counters /\ StoredCounts \in Counters
  OBVIOUS
<1>1. \A v \in VCs : vcOccupancy[v] \in 0 .. VcBufSize /\ Stored(v) \in 0 .. VcBufSize
  <2> TAKE v \in VCs
  <2>1. vcOccupancy[v] = Underway(v) + Stored(v) + credits[v]
    BY ConservationNamed
  <2>2. vcOccupancy[v] <= VcBufSize
    BY DEF Bounded
  <2> QED BY <2>1, <2>2, Counts, VcBufSizeAssumption
<1> QED BY <1>1 DEF TypeOK, Counters, StoredCounts

LEMMA TotalsInit == ASSUME Init PROVE TotalsInv
<1>1. TypeOK /\ CreditConservation /\ Bounded
  BY TypeInit, VcBufSizeAssumption DEF Init, CreditConservation, Bounded
<1>2. Filled(vcOccupancy) = {} /\ Filled(StoredCounts) = {}
  BY DEF Init, Filled, StoredCounts, Stored
<1> QED BY <1>1, <1>2, FS_EmptySet DEF Init, TotalsAgree, TotalsInv

LEMMA TotalsStep == ASSUME TotalsInv, [Next]_vars PROVE TotalsInv'
<1> USE DEF TotalsInv
<1>0. TypeOK' /\ CreditConservation' /\ Bounded'
  BY NextIsLinkStep, TypeStep, ConservationStep, BoundedStep
<1>1. /\ vcOccupancy \in Counters /\ vcOccupancy' \in Counters
      /\ StoredCounts \in Counters /\ StoredCounts' \in Counters
  <2>1. vcOccupancy \in Counters /\ StoredCounts \in Counters
    BY CountsAreCounters
  <2>2. (vcOccupancy \in Counters /\ StoredCounts \in Counters)'
    BY <1>0, CountsAreCounters, PTL
  <2>3. Counters' = Counters
    BY DEF Counters
  <2> QED BY <2>1, <2>2, <2>3
<1>2. ASSUME NEW s \in Senders, NEW v \in VCs, PrivateTake(s, v) PROVE TotalsAgree'
  BY <1>2 DEF PrivateTake, TakeBuffer, sinkVars, TotalsAgree, StoredCounts, Stored
<1>3. ASSUME NEW s \in Senders, NEW last \in BOOLEAN, PrivateSend(s, last) PROVE TotalsAgree'
  <2>1. outVC[s] \in VCs /\ vcOccupancy[outVC[s]] < VcBufSize
    <3>1. outVC[s] \in VCs /\ ~(vcOccupancy[outVC[s]] >= VcBufSize)
      BY <1>3, SentFlit DEF PrivateSend, IsFullFor
    <3> QED BY <3>1, Counts, VcBufSizeAssumption
  <2>2. Cardinality(Filled(vcOccupancy')) = Cardinality(Filled(vcOccupancy)) + 1
    <3>1. /\ vcOccupancy'[outVC[s]] = vcOccupancy[outVC[s]] + 1
          /\ \A w \in VCs \ {outVC[s]} : vcOccupancy'[w] = vcOccupancy[w]
      BY <1>3, <2>1, CountsAfterSend DEF PrivateSend
    <3> QED BY <1>1, <2>1, <3>1, FillOne
  <2>3. /\ occupancy' = occupancy + 1
        /\ UNCHANGED <<buffer, bufOccupancy>>
    BY <1>3 DEF PrivateSend, SendingFlit, sinkVars
  <2> QED BY <2>2, <2>3 DEF TotalsAgree, StoredCounts, Stored
<1>4. ASSUME NEW v \in VCs, AddFlit(v) PROVE TotalsAgree'
  \* The flit under way is counted upstream, so its slot is free downstream.
  <2>1. Stored(v) < VcBufSize
    <3>1. Underway(v) > 0
      BY <1>4, HeadTail, Counts DEF AddFlit, Underway
    <3>2. vcOccupancy[v] = Underway(v) + Stored(v) + credits[v] /\ vcOccupancy[v] <= VcBufSize
      BY ConservationNamed DEF Bounded
    <3> QED BY <3>1, <3>2, Counts, VcBufSizeAssumption
  <2>2. Cardinality(Filled(StoredCounts')) = Cardinality(Filled(StoredCounts)) + 1
    <3>1. /\ Stored(v)' = Stored(v) + 1
          /\ \A w \in VCs \ {v} : Stored(w)' = Stored(w)
      BY <1>4, CountsAfterAdd
    <3>2. /\ StoredCounts[v] < VcBufSize
          /\ StoredCounts'[v] = StoredCounts[v] + 1
          /\ \A w \in VCs \ {v} : StoredCounts'[w] = StoredCounts[w]
      BY <2>1, <3>1 DEF StoredCounts
    <3> QED BY <1>1, <3>2, FillOne
  <2>3. bufOccupancy' = bufOccupancy + 1 /\ UNCHANGED <<occupancy, vcOccupancy>>
    BY <1>4 DEF AddFlit, stateVars
  <2> QED BY <2>2, <2>3 DEF TotalsAgree
<1>5. ASSUME NEW v \in VCs, RemoveFlit(v) PROVE TotalsAgree'
  <2>1. Stored(v) > 0
    BY <1>5, HeadTail, Counts DEF RemoveFlit, Stored
  <2>2. Cardinality(Filled(StoredCounts')) = Cardinality(Filled(StoredCounts)) - Cardinality({v})
    <3>1. \A w \in VCs : Stored(w)' = Stored(w) - (IF w \in {v} THEN 1 ELSE 0)
      <4> TAKE w \in VCs
      <4>1. CASE w = v
        BY <1>5, <4>1, CountsAfterRemove, Counts
      <4>2. CASE w # v
        BY <1>5, <4>2, CountsAfterRemove, Counts
      <4> QED BY <4>1, <4>2
    <3>2. /\ \A w \in {v} : StoredCounts[w] > 0
          /\ \A w \in VCs : StoredCounts'[w] = StoredCounts[w] - (IF w \in {v} THEN 1 ELSE 0)
      BY <2>1, <3>1 DEF StoredCounts
    <3> QED BY <1>1, <3>2, DrainSome
  <2>3. Cardinality({v}) = 1
    BY FS_Singleton
  <2>4. bufOccupancy' = bufOccupancy - 1 /\ UNCHANGED <<occupancy, vcOccupancy>>
    BY <1>5 DEF RemoveFlit, stateVars
  <2> QED BY <2>2, <2>3, <2>4 DEF TotalsAgree
<1>6. ASSUME NEW S \in SUBSET VCs, ProcessCredit(S) PROVE TotalsAgree'
  <2>1. \A v \in S : vcOccupancy[v] > 0
    <3> TAKE v \in S
    <3>1. credits[v] > 0 /\ vcOccupancy[v] = Underway(v) + Stored(v) + credits[v]
      BY <1>6, ConservationNamed DEF ProcessCredit
    <3> QED BY <3>1, Counts
  <2>2. \A v \in VCs : vcOccupancy'[v] = vcOccupancy[v] - (IF v \in S THEN 1 ELSE 0)
    <3> TAKE v \in VCs
    <3>1. CASE v \in S
      BY <1>6, <3>1, CountsAfterCredit, Counts
    <3>2. CASE v \notin S
      BY <1>6, <3>2, CountsAfterCredit, Counts
    <3> QED BY <3>1, <3>2
  <2>3. Cardinality(Filled(vcOccupancy')) = Cardinality(Filled(vcOccupancy)) - Cardinality(S)
    BY <1>1, <2>1, <2>2, DrainSome
  <2>4. /\ occupancy' = occupancy - Cardinality(S)
        /\ UNCHANGED <<buffer, bufOccupancy>>
    BY <1>6 DEF ProcessCredit, sinkVars
  <2> QED BY <2>3, <2>4 DEF TotalsAgree, StoredCounts, Stored
<1>7. ASSUME UNCHANGED vars PROVE TotalsAgree'
  <2>1. StoredCounts' = StoredCounts
    BY <1>7 DEF vars, sinkVars, StoredCounts, Stored
  <2>2. UNCHANGED <<occupancy, vcOccupancy, bufOccupancy>>
    BY <1>7 DEF vars, stateVars, sinkVars
  <2> QED BY <2>1, <2>2 DEF TotalsAgree
<1> QED BY <1>0, <1>2, <1>3, <1>4, <1>5, <1>6, <1>7 DEF Next

\* For every number of VCs and every buffer size, also one that the VCs do not
\* divide: whenever a policy lets a VC send, BufferState::SendingFlit does not
\* report "Buffer overflow.", and a flit that arrives never finds the
\* downstream Buffer full.
THEOREM TotalsNeverOverflow == Spec => []NoOverflow
<1>1. Init => TotalsInv
  BY TotalsInit
<1>2. TotalsInv /\ [Next]_vars => TotalsInv'
  BY TotalsStep
<1>3. TotalsInv => NoOverflow
  <2> SUFFICES ASSUME TotalsInv PROVE NoOverflow
    OBVIOUS
  <2>1. vcOccupancy \in Counters /\ StoredCounts \in Counters
    BY CountsAreCounters DEF TotalsInv
  <2>2. ASSUME NEW s \in Senders, outVC[s] # None, ~IsFullFor(outVC[s])
        PROVE  occupancy < Size
    <3>1. outVC[s] \in VCs /\ vcOccupancy[outVC[s]] < VcBufSize
      BY <2>1, <2>2, VcBufSizeAssumption DEF TotalsInv, TypeOK, IsFullFor, Counters
    <3> QED BY <2>1, <3>1, RoomForOne DEF TotalsInv, TotalsAgree
  <2>3. ASSUME NEW v \in VCs, channel[v] # <<>>
        PROVE  bufOccupancy < Size
    <3>1. Underway(v) > 0
      BY <2>3, HeadTail, Counts DEF Underway, TotalsInv
    <3>2. vcOccupancy[v] = Underway(v) + Stored(v) + credits[v] /\ vcOccupancy[v] <= VcBufSize
      BY ConservationNamed DEF Bounded, TotalsInv
    <3>3. Stored(v) < VcBufSize
      BY <3>1, <3>2, Counts, VcBufSizeAssumption DEF TotalsInv
    <3>4. StoredCounts[v] < VcBufSize
      BY <3>3 DEF StoredCounts
    <3> QED BY <2>1, <3>4, RoomForOne DEF TotalsInv, TotalsAgree
  <2> QED BY <2>2, <2>3 DEF NoOverflow
<1> QED BY <1>1, <1>2, <1>3, PTL DEF Spec

-----------------------------------------------------------------------------
(* Packets are not interleaved within a VC.  Upstream the exclusive use of *)
(* a VC is decided by BufferState, downstream it is checked against the    *)
(* packet expected; the flits on the channel link one to the other, and    *)
(* the invariant follows the packet from its sender through the channel to *)
(* the expected identifier.                                                *)

\* Flit f may arrive when packet e is expected.
Follows(e, f) == IF e = NoPid THEN f.head ELSE f.pid = e /\ ~f.head

\* The packet expected after flit f.
After(f) == IF f.tail THEN NoPid ELSE f.pid

\* The packet that is expected when the i-th flit of the channel arrives.
ExpectedAt(v, i) == IF i = 1 THEN expectedPid[v] ELSE After(channel[v][i - 1])

\* Every flit on the channel follows the one before it.
Chained ==
  \A v \in VCs : \A i \in 1 .. Len(channel[v]) : Follows(ExpectedAt(v, i), channel[v][i])

\* What the last flit leaves expected is the packet of the VC's sender.
SenderContinues ==
  \A v \in VCs :
    /\ \A s \in Senders : outVC[s] = v /\ sent[s] > 0 =>
         ExpectedAt(v, Len(channel[v]) + 1) = pid[s]
    /\ (\A s \in Senders : outVC[s] = v => sent[s] = 0) =>
         ExpectedAt(v, Len(channel[v]) + 1) = NoPid

PacketInv == TypeOK /\ SoleSender /\ Chained /\ SenderContinues

LEMMA PacketInit == ASSUME Init PROVE PacketInv
<1>1. TypeOK /\ SoleSender
  BY TypeInit, LinkAssumption DEF Init, SoleSender
<1>2. \A v \in VCs : channel[v] = <<>> /\ expectedPid[v] = NoPid
  BY DEF Init
<1>3. Chained
  BY <1>2 DEF Chained
<1>4. SenderContinues
  BY <1>2, LinkAssumption DEF Init, SenderContinues, ExpectedAt
<1> QED BY <1>1, <1>3, <1>4 DEF PacketInv

\* A well-formed arrival leaves expected exactly what the flit says.
LEMMA ArrivalExpects ==
  ASSUME NEW e \in Nat \cup {NoPid}, NEW f \in Flit, Follows(e, f)
  PROVE  NextExpectedPid(e, f) = After(f)
  BY DEF Follows, NextExpectedPid, After, Flit

LEMMA PacketStep == ASSUME PacketInv, [LinkNext]_vars PROVE PacketInv'
<1> USE DEF PacketInv
<1>0. TypeOK' /\ SoleSender'
  BY TypeStep, SoleSenderStep
<1>1. ASSUME NEW s \in Senders, NEW v \in VCs, TakeBuffer(s, v)
      PROVE  Chained' /\ SenderContinues'
  <2>1. /\ UNCHANGED <<channel, expectedPid>>
        /\ outVC' = [outVC EXCEPT ![s] = v]
        /\ sent' = [sent EXCEPT ![s] = 0]
        /\ pid' = [pid EXCEPT ![s] = nextPid]
        /\ outVC[s] = None /\ inUseBy[v] = None
    BY <1>1 DEF TakeBuffer, IsAvailableFor, sinkVars
  <2>2. Chained'
    BY <2>1 DEF Chained, ExpectedAt
  <2>3. \A r \in Senders : outVC[r] # v
    <3>1. None \notin Senders \cup VCs
      BY LinkAssumption
    <3> QED BY <2>1, <3>1 DEF SoleSender
  <2>4. \A w \in VCs : ExpectedAt(w, Len(channel[w]) + 1)' = ExpectedAt(w, Len(channel[w]) + 1)
    BY <2>1 DEF ExpectedAt
  <2>5. \A r \in Senders : r # s => outVC'[r] = outVC[r] /\ sent'[r] = sent[r] /\ pid'[r] = pid[r]
    BY <2>1 DEF TypeOK
  <2>6. outVC'[s] = v /\ sent'[s] = 0
    BY <2>1 DEF TypeOK
  <2>7. outVC[s] \notin VCs
    BY <2>1, LinkAssumption
  <2>8. SenderContinues'
    <3> SUFFICES ASSUME NEW w \in VCs
                 PROVE  /\ \A r \in Senders : outVC'[r] = w /\ sent'[r] > 0 =>
                             ExpectedAt(w, Len(channel[w]) + 1)' = pid'[r]
                        /\ (\A r \in Senders : outVC'[r] = w => sent'[r] = 0) =>
                             ExpectedAt(w, Len(channel[w]) + 1)' = NoPid
      BY DEF SenderContinues
    <3>1. \A r \in Senders : outVC'[r] = w /\ sent'[r] > 0 =>
            outVC[r] = w /\ sent[r] > 0 /\ pid'[r] = pid[r]
      BY <2>5, <2>6
    <3>2. (\A r \in Senders : outVC'[r] = w => sent'[r] = 0) =>
            (\A r \in Senders : outVC[r] = w => sent[r] = 0)
      BY <2>3, <2>5, <2>7
    <3> QED BY <2>4, <3>1, <3>2 DEF SenderContinues
  <2> QED BY <2>2, <2>8
<1>2. ASSUME NEW s \in Senders, NEW last \in BOOLEAN, SendingFlit(s, last)
      PROVE  Chained' /\ SenderContinues'
  <2>1. /\ outVC[s] \in VCs /\ pid[s] \in Nat
        /\ [pid |-> pid[s], head |-> sent[s] = 0, tail |-> last] \in Flit
    BY <1>2, SentFlit DEF SendingFlit, TypeOK
  <2>v. PICK v \in VCs : v = outVC[s]
    BY <2>1
  <2>n. PICK n \in Nat : n = Len(channel[v])
    BY Counts DEF Underway
  <2>f. PICK f \in Flit : f = [pid |-> pid[s], head |-> sent[s] = 0, tail |-> last]
    BY <2>1
  <2>2. /\ channel' = [channel EXCEPT ![v] = Append(@, f)]
        /\ UNCHANGED <<expectedPid, pid>>
        /\ outVC' = IF last THEN [outVC EXCEPT ![s] = None] ELSE outVC
        /\ sent' = [sent EXCEPT ![s] = @ + 1]
    BY <1>2, <2>v, <2>f DEF SendingFlit, sinkVars
  <2>3. f.pid = pid[s] /\ f.head = (sent[s] = 0) /\ f.tail = last
    BY <2>f
  <2>4. \A r \in Senders : outVC[r] = v => r = s
    BY <2>v, LinkAssumption DEF SoleSender
  <2>5. /\ channel'[v] = Append(channel[v], f)
        /\ \A w \in VCs : w # v => channel'[w] = channel[w]
    BY <2>2 DEF TypeOK
  <2>6. /\ n \in Nat /\ Len(channel'[v]) = n + 1
        /\ channel'[v][n + 1] = f
        /\ \A i \in 1 .. n : channel'[v][i] = channel[v][i]
    BY <2>5, <2>n, Appended, Counts
  <2>7. Follows(ExpectedAt(v, n + 1), f)
    <3>1. CASE sent[s] = 0
      <4>1. ExpectedAt(v, n + 1) = NoPid
        BY <2>4, <2>n, <3>1 DEF SenderContinues
      <4> QED BY <2>3, <3>1, <4>1 DEF Follows
    <3>2. CASE sent[s] # 0
      <4>1. sent[s] > 0
        BY <3>2 DEF TypeOK
      <4>2. ExpectedAt(v, n + 1) = pid[s]
        BY <2>n, <2>v, <4>1 DEF SenderContinues
      <4>3. f.head = FALSE /\ f.pid = pid[s]
        BY <2>f, <3>2
      <4>4. pid[s] # NoPid
        BY <2>1 DEF NoPid
      <4> QED BY <4>2, <4>3, <4>4 DEF Follows
    <3> QED BY <3>1, <3>2
  <2>8. \A i \in 1 .. n + 1 : ExpectedAt(v, i)' = ExpectedAt(v, i)
    BY <2>2, <2>6 DEF ExpectedAt
  <2>9. Chained'
    <3> SUFFICES ASSUME NEW w \in VCs, NEW i \in 1 .. Len(channel'[w])
                 PROVE  Follows(ExpectedAt(w, i)', channel'[w][i])
      BY DEF Chained, Follows
    <3>1. CASE w = v
      <4>1. CASE i = n + 1
        BY <2>6, <2>7, <2>8, <3>1, <4>1
      <4>2. CASE i # n + 1
        <5>1. i \in 1 .. n
          BY <2>6, <3>1, <4>2
        <5>2. Follows(ExpectedAt(v, i), channel[v][i])
          BY <2>n, <5>1 DEF Chained
        <5> QED BY <2>6, <2>8, <3>1, <5>1, <5>2
      <4> QED BY <4>1, <4>2
    <3>2. CASE w # v
      <4>1. channel'[w] = channel[w] /\ ExpectedAt(w, i)' = ExpectedAt(w, i)
        BY <2>2, <2>5, <3>2 DEF ExpectedAt
      <4> QED BY <4>1 DEF Chained
    <3> QED BY <3>1, <3>2
  <2>10. ExpectedAt(v, Len(channel[v]) + 1)' = IF last THEN NoPid ELSE pid[s]
    BY <2>3, <2>6 DEF ExpectedAt, After
  <2>11. \A w \in VCs : w # v =>
           ExpectedAt(w, Len(channel[w]) + 1)' = ExpectedAt(w, Len(channel[w]) + 1)
    BY <2>2, <2>5 DEF ExpectedAt
  <2>12. \A r \in Senders : r # s => outVC'[r] = outVC[r] /\ sent'[r] = sent[r]
    BY <2>2 DEF TypeOK
  <2>13. /\ sent'[s] > 0
         /\ outVC'[s] = IF last THEN None ELSE v
         /\ None \notin VCs
    BY <2>2, <2>v, LinkAssumption DEF TypeOK
  <2>14. SenderContinues'
    <3> SUFFICES ASSUME NEW w \in VCs
                 PROVE  /\ \A r \in Senders : outVC'[r] = w /\ sent'[r] > 0 =>
                             ExpectedAt(w, Len(channel[w]) + 1)' = pid'[r]
                        /\ (\A r \in Senders : outVC'[r] = w => sent'[r] = 0) =>
                             ExpectedAt(w, Len(channel[w]) + 1)' = NoPid
      BY DEF SenderContinues
    <3>1. CASE w = v
      BY <2>2, <2>4, <2>10, <2>12, <2>13, <3>1
    <3>2. CASE w # v
      <4>1. \A r \in Senders : outVC'[r] = w <=> outVC[r] = w /\ r # s
        BY <2>12, <2>13, <2>v, <3>2
      <4>2. \A r \in Senders : outVC[r] = w => r # s
        BY <2>v, <3>2
      <4> QED BY <2>2, <2>11, <2>12, <3>2, <4>1, <4>2 DEF SenderContinues
    <3> QED BY <3>1, <3>2
  <2> QED BY <2>9, <2>14
<1>3. ASSUME NEW v \in VCs, AddFlit(v)
      PROVE  Chained' /\ SenderContinues'
  <2>0. channel[v] # <<>>
    BY <1>3 DEF AddFlit
  <2>1. /\ Head(channel[v]) \in Flit /\ Head(channel[v]) = channel[v][1]
        /\ Len(channel[v]) \in Nat \ {0} /\ Len(Tail(channel[v])) = Len(channel[v]) - 1
        /\ \A i \in 1 .. Len(channel[v]) - 1 : Tail(channel[v])[i] = channel[v][i + 1]
    BY <2>0, HeadTail, Counts
  <2>n. PICK n \in Nat \ {0} : n = Len(channel[v])
    BY <2>1
  <2>f. PICK f \in Flit : f = Head(channel[v])
    BY <2>1
  <2>2. /\ channel' = [channel EXCEPT ![v] = Tail(@)]
        /\ expectedPid' = [expectedPid EXCEPT ![v] = NextExpectedPid(@, f)]
        /\ UNCHANGED <<outVC, sent, pid>>
    BY <1>3, <2>f DEF AddFlit, senderVars
  <2>3. /\ Len(channel'[v]) = n - 1
        /\ \A i \in 1 .. n - 1 : channel'[v][i] = channel[v][i + 1]
        /\ \A w \in VCs : w # v => channel'[w] = channel[w] /\ expectedPid'[w] = expectedPid[w]
    BY <2>1, <2>2, <2>n DEF TypeOK
  <2>4. expectedPid'[v] = After(f)
    <3>1. Follows(expectedPid[v], f)
      BY <2>1, <2>f DEF Chained, ExpectedAt
    <3>2. expectedPid[v] \in Nat \cup {NoPid}
      BY DEF TypeOK
    <3>3. NextExpectedPid(expectedPid[v], f) = After(f)
      BY <3>1, <3>2, ArrivalExpects
    <3> QED BY <2>2, <3>3 DEF TypeOK
  <2>5. \A i \in 1 .. n : ExpectedAt(v, i)' = ExpectedAt(v, i + 1)
    <3> TAKE i \in 1 .. n
    <3>1. CASE i = 1
      BY <2>1, <2>4, <2>f, <3>1 DEF ExpectedAt
    <3>2. CASE i # 1
      <4>1. i - 1 \in 1 .. n - 1 /\ channel'[v][i - 1] = channel[v][i]
        BY <2>3, <3>2
      <4> QED BY <3>2, <4>1 DEF ExpectedAt
    <3> QED BY <3>1, <3>2
  <2>6. \A w \in VCs, i \in Nat : w # v => ExpectedAt(w, i)' = ExpectedAt(w, i)
    BY <2>3 DEF ExpectedAt
  <2>7. Chained'
    <3> SUFFICES ASSUME NEW w \in VCs, NEW i \in 1 .. Len(channel'[w])
                 PROVE  Follows(ExpectedAt(w, i)', channel'[w][i])
      BY DEF Chained, Follows
    <3>1. CASE w = v
      <4>1. i \in 1 .. n - 1 /\ i + 1 \in 1 .. n /\ i \in 1 .. n
        BY <2>3, <3>1
      <4>2. Follows(ExpectedAt(v, i + 1), channel[v][i + 1])
        BY <2>n, <4>1 DEF Chained
      <4> QED BY <2>3, <2>5, <3>1, <4>1, <4>2
    <3>2. CASE w # v
      BY <2>3, <2>6, <3>2 DEF Chained
    <3> QED BY <3>1, <3>2
  <2>8. ExpectedAt(v, Len(channel[v]) + 1)' = ExpectedAt(v, n + 1)
    <3>1. ExpectedAt(v, Len(channel[v]) + 1)' = ExpectedAt(v, n)'
      BY <2>3 DEF ExpectedAt
    <3> QED BY <2>5, <3>1
  <2>9. SenderContinues'
    <3> SUFFICES ASSUME NEW w \in VCs
                 PROVE  ExpectedAt(w, Len(channel[w]) + 1)' = ExpectedAt(w, Len(channel[w]) + 1)
      BY <2>2 DEF SenderContinues
    <3>1. CASE w = v
      BY <2>8, <2>n, <3>1
    <3>2. CASE w # v
      BY <2>3, <3>2 DEF ExpectedAt
    <3> QED BY <3>1, <3>2
  <2> QED BY <2>7, <2>9
<1>4. ASSUME \/ \E v \in VCs : RemoveFlit(v)
             \/ \E S \in SUBSET VCs : ProcessCredit(S)
             \/ UNCHANGED vars
      PROVE  Chained' /\ SenderContinues'
  <2>1. UNCHANGED <<channel, expectedPid, outVC, sent, pid>>
    BY <1>4 DEF RemoveFlit, ProcessCredit, vars, senderVars, sinkVars
  <2> QED BY <2>1 DEF Chained, SenderContinues, ExpectedAt
<1> QED BY <1>0, <1>1, <1>2, <1>3, <1>4 DEF LinkNext

LEMMA InOrderArrival == PacketInv => PacketsContiguous
<1> SUFFICES ASSUME PacketInv, NEW v \in VCs, channel[v] # <<>>
             PROVE  Follows(expectedPid[v], Head(channel[v]))
  BY DEF PacketsContiguous, Follows
<1>1. Head(channel[v]) = channel[v][1] /\ 1 \in 1 .. Len(channel[v])
  BY HeadTail, Counts DEF PacketInv
<1> QED BY <1>1 DEF PacketInv, Chained, ExpectedAt

\* For every number of VCs and competing senders, and whether or not a VC waits
\* for its tail credit: the flit that arrives next continues the packet that is
\* expected or starts a new one, so the check of VC::AddFlit never fires.
THEOREM PacketsNeverInterleave == Spec => []PacketsContiguous
<1>1. Init => PacketInv
  BY PacketInit
<1>2. PacketInv /\ [Next]_vars => PacketInv'
  BY NextIsLinkStep, PacketStep
<1>3. PacketInv => PacketsContiguous
  BY InOrderArrival
<1> QED BY <1>1, <1>2, <1>3, PTL DEF Spec

-----------------------------------------------------------------------------
(* What a link is for whoever uses it.  With wait_for_tail_credit a VC     *)
(* holds flits of one packet only; and with or without it the channel and  *)
(* the buffer of a VC together are the bounded FIFO of PacketFifo: sending *)
(* is its Put, forwarding is its Get, and the arrival of a flit and of a   *)
(* credit change nothing that its users see.                               *)

\* The flits of a VC, wherever they are.
FlitsOf(v) == {channel[v][i] : i \in 1 .. Len(channel[v])} \cup {buffer[v][i] : i \in 1 .. Len(buffer[v])}

LEMMA FlitsAfterSend ==
  ASSUME TypeOK, NEW s \in Senders, NEW last \in BOOLEAN, SendingFlit(s, last), NEW v \in VCs
  PROVE  \A f \in FlitsOf(v)' : f \in FlitsOf(v) \/ (v = outVC[s] /\ f.pid = pid[s])
<1> DEFINE f == [pid |-> pid[s], head |-> sent[s] = 0, tail |-> last]
<1>1. outVC[s] \in VCs /\ f \in Flit /\ f.pid = pid[s]
  BY SentFlit DEF SendingFlit
<1>2. /\ channel' = [channel EXCEPT ![outVC[s]] = Append(@, f)]
      /\ UNCHANGED buffer
  BY DEF SendingFlit, sinkVars
<1> HIDE DEF f
<1>3. CASE v = outVC[s]
  <2>1. channel'[v] = Append(channel[v], f)
    BY <1>2, <1>3 DEF TypeOK
  <2>2. /\ Len(channel'[v]) = Len(channel[v]) + 1 /\ Len(channel[v]) \in Nat
        /\ channel'[v][Len(channel[v]) + 1] = f
        /\ \A i \in 1 .. Len(channel[v]) : channel'[v][i] = channel[v][i]
    BY <1>1, <2>1, Appended, Counts
  <2>3. \A i \in 1 .. Len(channel'[v]) : i \in 1 .. Len(channel[v]) \/ i = Len(channel[v]) + 1
    BY <2>2
  <2> QED BY <1>1, <1>2, <1>3, <2>2, <2>3 DEF FlitsOf
<1>4. CASE v # outVC[s]
  BY <1>2, <1>4 DEF FlitsOf, TypeOK
<1> QED BY <1>3, <1>4

LEMMA FlitsAfterMove ==
  ASSUME TypeOK, NEW w \in VCs, AddFlit(w) \/ RemoveFlit(w), NEW v \in VCs
  PROVE  FlitsOf(v)' \subseteq FlitsOf(v)
<1>1. CASE AddFlit(w) /\ v = w
  <2>1. /\ channel'[v] = Tail(channel[v])
        /\ buffer'[v] = Append(buffer[v], Head(channel[v]))
        /\ channel[v] # <<>>
    BY <1>1 DEF AddFlit, TypeOK
  <2>2. /\ Head(channel[v]) \in Flit /\ Head(channel[v]) = channel[v][1]
        /\ Len(channel[v]) \in Nat \ {0} /\ Len(channel'[v]) = Len(channel[v]) - 1
        /\ \A i \in 1 .. Len(channel[v]) - 1 : channel'[v][i] = channel[v][i + 1]
    BY <2>1, HeadTail, Counts
  <2>3. /\ Len(buffer'[v]) = Len(buffer[v]) + 1 /\ Len(buffer[v]) \in Nat
        /\ buffer'[v][Len(buffer[v]) + 1] = channel[v][1]
        /\ \A i \in 1 .. Len(buffer[v]) : buffer'[v][i] = buffer[v][i]
    BY <2>1, <2>2, Appended, Counts
  <2>4. \A i \in 1 .. Len(channel'[v]) : channel'[v][i] \in FlitsOf(v)
    BY <2>2 DEF FlitsOf
  <2>5. \A i \in 1 .. Len(buffer'[v]) : buffer'[v][i] \in FlitsOf(v)
    <3> TAKE i \in 1 .. Len(buffer'[v])
    <3>1. CASE i \in 1 .. Len(buffer[v])
      BY <2>3, <3>1 DEF FlitsOf
    <3>2. CASE i = Len(buffer[v]) + 1
      BY <2>2, <2>3, <3>2 DEF FlitsOf
    <3> QED BY <2>3, <3>1, <3>2
  <2> QED BY <2>4, <2>5 DEF FlitsOf
<1>2. CASE RemoveFlit(w) /\ v = w
  <2>1. buffer'[v] = Tail(buffer[v]) /\ buffer[v] # <<>> /\ channel' = channel
    BY <1>2 DEF RemoveFlit, TypeOK
  <2>2. /\ Len(buffer[v]) \in Nat \ {0} /\ Len(buffer'[v]) = Len(buffer[v]) - 1
        /\ \A i \in 1 .. Len(buffer[v]) - 1 : buffer'[v][i] = buffer[v][i + 1]
    BY <2>1, HeadTail, Counts
  <2>3. \A i \in 1 .. Len(buffer'[v]) : buffer'[v][i] \in FlitsOf(v)
    BY <2>2 DEF FlitsOf
  <2> QED BY <2>1, <2>3 DEF FlitsOf
<1>3. CASE v # w
  BY <1>3 DEF AddFlit, RemoveFlit, FlitsOf, TypeOK
<1> QED BY <1>1, <1>2, <1>3

-----------------------------------------------------------------------------
(* One packet at a time.                                                   *)

\* An idle VC is empty; the flits of a VC are of one packet, that of its sender if it has one.
IdleIsEmpty == \A v \in VCs : inUseBy[v] = None => vcOccupancy[v] = 0
OnePacket ==
  \A v \in VCs :
    /\ \A f, g \in FlitsOf(v) : f.pid = g.pid
    /\ \A s \in Senders : outVC[s] = v => \A f \in FlitsOf(v) : f.pid = pid[s]

TailInv ==
  /\ TypeOK /\ CreditConservation /\ SoleSender
  /\ WaitForTailCredit => IdleIsEmpty /\ OnePacket

LEMMA EmptyHasNoFlits ==
  ASSUME TypeOK, CreditConservation, NEW v \in VCs, vcOccupancy[v] = 0
  PROVE  FlitsOf(v) = {} /\ credits[v] = 0
<1>1. vcOccupancy[v] = Underway(v) + Stored(v) + credits[v]
  BY ConservationNamed
<1>2. Underway(v) = 0 /\ Stored(v) = 0 /\ credits[v] = 0
  BY <1>1, Counts
<1> QED BY <1>2 DEF FlitsOf, Underway, Stored

LEMMA TailInit == ASSUME Init PROVE TailInv
<1>1. TypeOK /\ CreditConservation /\ SoleSender
  BY TypeInit, LinkAssumption DEF Init, SoleSender, CreditConservation
<1>2. \A v \in VCs : FlitsOf(v) = {} /\ vcOccupancy[v] = 0
  BY <1>1, EmptyHasNoFlits DEF Init
<1> QED BY <1>1, <1>2 DEF TailInv, IdleIsEmpty, OnePacket

LEMMA IdleIsEmptyStep ==
  ASSUME TailInv, WaitForTailCredit, [LinkNext]_vars
  PROVE  IdleIsEmpty'
<1> USE DEF TailInv, IdleIsEmpty
<1>1. ASSUME NEW s \in Senders, NEW v \in VCs, TakeBuffer(s, v) PROVE IdleIsEmpty'
  BY <1>1, LinkAssumption DEF TakeBuffer, TypeOK
<1>2. ASSUME NEW s \in Senders, NEW last \in BOOLEAN, SendingFlit(s, last) PROVE IdleIsEmpty'
  <2>1. /\ outVC[s] \in VCs /\ inUseBy[outVC[s]] = s /\ s # None
        /\ inUseBy' = inUseBy
        /\ \A w \in VCs \ {outVC[s]} : vcOccupancy'[w] = vcOccupancy[w]
    BY <1>2, SentFlit, LinkAssumption DEF SendingFlit, SoleSender, TypeOK
  <2> QED BY <2>1
<1>3. ASSUME NEW v \in VCs, AddFlit(v) \/ RemoveFlit(v) PROVE IdleIsEmpty'
  BY <1>3 DEF AddFlit, RemoveFlit, stateVars
<1>4. ASSUME NEW S \in SUBSET VCs, ProcessCredit(S) PROVE IdleIsEmpty'
  <2> SUFFICES ASSUME NEW v \in VCs, inUseBy'[v] = None PROVE vcOccupancy'[v] = 0
    OBVIOUS
  <2>1. CASE v \in S /\ ReleasedBy(v)
    BY <1>4, <2>1 DEF ProcessCredit, ReleasedBy
  <2>2. CASE ~(v \in S /\ ReleasedBy(v))
    <3>1. inUseBy[v] = None
      BY <1>4, <2>2 DEF ProcessCredit
    <3>2. vcOccupancy[v] = 0 /\ credits[v] = 0
      BY <3>1, EmptyHasNoFlits
    <3> QED BY <1>4, <3>2 DEF ProcessCredit
  <2> QED BY <2>1, <2>2
<1>5. CASE UNCHANGED vars
  BY <1>5 DEF vars, stateVars
<1> QED BY <1>1, <1>2, <1>3, <1>4, <1>5 DEF LinkNext

LEMMA OnePacketStep ==
  ASSUME TailInv, WaitForTailCredit, [LinkNext]_vars
  PROVE  OnePacket'
<1> USE DEF TailInv
<1>1. ASSUME NEW s \in Senders, NEW v \in VCs, TakeBuffer(s, v) PROVE OnePacket'
  \* The VC was idle, so nothing is in it.
  <2>1. \A w \in VCs : FlitsOf(w)' = FlitsOf(w)
    BY <1>1 DEF TakeBuffer, sinkVars, FlitsOf
  <2>2. FlitsOf(v) = {}
    BY <1>1, EmptyHasNoFlits DEF TakeBuffer, IsAvailableFor, IdleIsEmpty
  <2>3. \A r \in Senders \ {s} : outVC'[r] = outVC[r] /\ pid'[r] = pid[r]
    BY <1>1 DEF TakeBuffer, TypeOK
  <2>4. outVC'[s] = v
    BY <1>1 DEF TakeBuffer, TypeOK
  <2> QED BY <2>1, <2>2, <2>3, <2>4 DEF OnePacket
<1>2. ASSUME NEW s \in Senders, NEW last \in BOOLEAN, SendingFlit(s, last) PROVE OnePacket'
  <2>1. outVC[s] \in VCs /\ UNCHANGED pid
    BY <1>2, SentFlit DEF SendingFlit
  <2>2. \A r \in Senders, w \in VCs : outVC'[r] = w => outVC[r] = w
    BY <1>2, LinkAssumption DEF SendingFlit, TypeOK
  <2>3. ASSUME NEW w \in VCs, w = outVC[s]
        PROVE  \A f \in FlitsOf(w)' : f.pid = pid[s]
    BY <1>2, <2>1, <2>3, FlitsAfterSend DEF OnePacket
  <2>4. ASSUME NEW w \in VCs, w # outVC[s]
        PROVE  \A f \in FlitsOf(w)' : f \in FlitsOf(w)
    BY <1>2, <2>4, FlitsAfterSend
  <2>5. \A r \in Senders : outVC[r] = outVC[s] => r = s
    BY <1>2 DEF SendingFlit, SoleSender
  <2> SUFFICES ASSUME NEW w \in VCs
               PROVE  /\ \A f, g \in FlitsOf(w)' : f.pid = g.pid
                      /\ \A r \in Senders : outVC'[r] = w => \A f \in FlitsOf(w)' : f.pid = pid'[r]
    BY DEF OnePacket
  <2>6. CASE w = outVC[s]
    BY <2>1, <2>2, <2>3, <2>5, <2>6
  <2>7. CASE w # outVC[s]
    BY <2>1, <2>2, <2>4, <2>7 DEF OnePacket
  <2> QED BY <2>6, <2>7
<1>3. ASSUME NEW v \in VCs, AddFlit(v) \/ RemoveFlit(v) PROVE OnePacket'
  <2>1. \A w \in VCs : FlitsOf(w)' \subseteq FlitsOf(w)
    BY <1>3, FlitsAfterMove
  <2>2. UNCHANGED <<outVC, pid>>
    BY <1>3 DEF AddFlit, RemoveFlit, senderVars
  <2> QED BY <2>1, <2>2 DEF OnePacket
<1>4. ASSUME (\E S \in SUBSET VCs : ProcessCredit(S)) \/ UNCHANGED vars PROVE OnePacket'
  <2>1. UNCHANGED <<outVC, pid, channel, buffer>>
    BY <1>4 DEF ProcessCredit, vars, senderVars, sinkVars
  <2> QED BY <2>1 DEF OnePacket, FlitsOf
<1> QED BY <1>1, <1>2, <1>3, <1>4 DEF LinkNext

\* With wait_for_tail_credit, whatever the number of VCs and the size of the buffer, no
\* credit arrives for an idle VC (the error "Received credit for idle VC" of BufferState), and
\* no flit of a packet is on its way to a VC that still holds one of another packet.
THEOREM OnePacketPerVc == Spec => []TailCreditSeparatesPackets
<1>1. Init => TailInv
  BY TailInit
<1>2. TailInv /\ [Next]_vars => TailInv'
  <2> SUFFICES ASSUME TailInv, [LinkNext]_vars PROVE TailInv'
    BY NextIsLinkStep
  <2>1. TypeOK' /\ CreditConservation' /\ SoleSender'
    BY TypeStep, ConservationStep, SoleSenderStep DEF TailInv
  <2> QED BY <2>1, IdleIsEmptyStep, OnePacketStep DEF TailInv
<1>3. TailInv => TailCreditSeparatesPackets
  <2> SUFFICES ASSUME TailInv, WaitForTailCredit, NEW v \in VCs
               PROVE  /\ vcOccupancy[v] > 0 => inUseBy[v] # None
                      /\ \A i \in 1 .. Len(channel[v]), j \in 1 .. Len(buffer[v]) :
                           channel[v][i].pid = buffer[v][j].pid
    BY DEF TailCreditSeparatesPackets
  <2>1. vcOccupancy[v] > 0 => inUseBy[v] # None
    BY DEF TailInv, IdleIsEmpty
  <2>2. \A i \in 1 .. Len(channel[v]), j \in 1 .. Len(buffer[v]) :
          channel[v][i] \in FlitsOf(v) /\ buffer[v][j] \in FlitsOf(v)
    BY DEF FlitsOf
  <2> QED BY <2>1, <2>2 DEF TailInv, OnePacket
<1> QED BY <1>1, <1>2, <1>3, PTL DEF Spec

-----------------------------------------------------------------------------
(* The link implements PacketFifo.                                         *)

LEMMA Concatenated ==
  ASSUME NEW p \in Seq(Flit), NEW q \in Seq(Flit)
  PROVE  /\ p \o q \in Seq(Flit)
         /\ Len(p \o q) = Len(p) + Len(q)
         /\ \A e \in Flit : p \o Append(q, e) = Append(p \o q, e)
         /\ q # <<>> => Append(p, Head(q)) \o Tail(q) = p \o q
         /\ p # <<>> => p \o q # <<>> /\ Tail(p \o q) = Tail(p) \o q
         /\ \A i \in 1 .. Len(p \o q) :
              \/ i \in 1 .. Len(p) /\ (p \o q)[i] = p[i]
              \/ i - Len(p) \in 1 .. Len(q) /\ (p \o q)[i] = q[i - Len(p)]
<1>1. p \o q \in Seq(Flit) /\ Len(p \o q) = Len(p) + Len(q)
  OBVIOUS
<1>2. ASSUME NEW e \in Flit PROVE p \o Append(q, e) = Append(p \o q, e)
  OBVIOUS
<1>3. ASSUME q # <<>> PROVE Append(p, Head(q)) \o Tail(q) = p \o q
  BY <1>3
<1>4. ASSUME p # <<>> PROVE p \o q # <<>> /\ Tail(p \o q) = Tail(p) \o q
  BY <1>4
<1>5. ASSUME NEW i \in 1 .. Len(p \o q)
      PROVE  \/ i \in 1 .. Len(p) /\ (p \o q)[i] = p[i]
             \/ i - Len(p) \in 1 .. Len(q) /\ (p \o q)[i] = q[i - Len(p)]
  OBVIOUS
<1> QED BY <1>1, <1>2, <1>3, <1>4, <1>5

\* Packets are numbered as they begin.
Younger ==
  /\ \A s \in Senders : outVC[s] # None => pid[s] < nextPid
  /\ \A v \in VCs : \A f \in FlitsOf(v) : f.pid < nextPid

FifoInv == TypeOK /\ CreditConservation /\ SoleSender /\ Younger

LEMMA YoungerStep ==
  ASSUME TypeOK, Younger, [LinkNext]_vars
  PROVE  Younger'
<1> USE DEF Younger
<1>0. nextPid \in Nat /\ \A v \in VCs : \A f \in FlitsOf(v) : f \in Flit
  <2>1. \A v \in VCs : channel[v] \in Seq(Flit) /\ buffer[v] \in Seq(Flit)
    BY DEF TypeOK
  <2> QED BY <2>1 DEF FlitsOf, TypeOK
<1>1. ASSUME NEW s \in Senders, NEW v \in VCs, TakeBuffer(s, v) PROVE Younger'
  <2>1. \A w \in VCs : FlitsOf(w)' = FlitsOf(w)
    BY <1>1 DEF TakeBuffer, sinkVars, FlitsOf
  <2>2. nextPid' = nextPid + 1 /\ pid'[s] = nextPid
    BY <1>1 DEF TakeBuffer, TypeOK
  <2>3. \A r \in Senders \ {s} : outVC'[r] = outVC[r] /\ pid'[r] = pid[r]
    BY <1>1 DEF TakeBuffer, TypeOK
  <2>4. \A r \in Senders : outVC[r] # None => pid[r] \in Nat
    BY DEF TypeOK
  <2>5. \A v1 \in VCs : \A f \in FlitsOf(v1) : f.pid \in Nat
    BY <1>0 DEF Flit
  <2>6. \A r \in Senders : outVC'[r] # None => pid'[r] < nextPid'
    BY <1>0, <2>2, <2>3, <2>4
  <2>7. \A v1 \in VCs : \A f \in FlitsOf(v1)' : f.pid < nextPid'
    BY <1>0, <2>1, <2>2, <2>5
  <2> QED BY <2>6, <2>7
<1>2. ASSUME NEW s \in Senders, NEW last \in BOOLEAN, SendingFlit(s, last) PROVE Younger'
  <2>1. UNCHANGED <<pid, nextPid>> /\ \A r \in Senders : outVC'[r] # None => outVC[r] # None
    BY <1>2 DEF SendingFlit, TypeOK
  <2>2. outVC[s] # None
    BY <1>2 DEF SendingFlit
  <2>3. \A w \in VCs : \A f \in FlitsOf(w)' : f \in FlitsOf(w) \/ f.pid = pid[s]
    BY <1>2, FlitsAfterSend
  <2> QED BY <2>1, <2>2, <2>3
<1>3. ASSUME NEW v \in VCs, AddFlit(v) \/ RemoveFlit(v) PROVE Younger'
  <2>1. \A w \in VCs : FlitsOf(w)' \subseteq FlitsOf(w)
    BY <1>3, FlitsAfterMove
  <2>2. UNCHANGED <<outVC, pid, nextPid>>
    BY <1>3 DEF AddFlit, RemoveFlit, senderVars
  <2> QED BY <2>1, <2>2
<1>4. ASSUME (\E S \in SUBSET VCs : ProcessCredit(S)) \/ UNCHANGED vars PROVE Younger'
  <2>1. UNCHANGED <<outVC, pid, nextPid, channel, buffer>>
    BY <1>4 DEF ProcessCredit, vars, senderVars, sinkVars
  <2> QED BY <2>1 DEF FlitsOf
<1> QED BY <1>1, <1>2, <1>3, <1>4 DEF LinkNext

\* The variables of PacketFifo.
Queue == [v \in VCs |-> buffer[v] \o channel[v]]
OpenPid == [v \in VCs |-> IF Open(v) THEN pid[SenderOf(v)] ELSE NoPid]
Started == [v \in VCs |-> Open(v) /\ sent[SenderOf(v)] > 0]

LEMMA OnlySender ==
  ASSUME SoleSender, NEW s \in Senders, outVC[s] \in VCs
  PROVE  Open(outVC[s]) /\ SenderOf(outVC[s]) = s
<1>1. None \notin VCs
  BY LinkAssumption
<1>2. \A r \in Senders : outVC[r] = outVC[s] => r = s
  BY <1>1 DEF SoleSender
<1> QED BY <1>2 DEF Open, SenderOf

\* A VC whose sender stays the same looks the same.
LEMMA LooksTheSame ==
  ASSUME TypeOK, SoleSender, SoleSender', NEW v \in VCs,
         \A r \in Senders : (outVC[r] = v) <=> (outVC'[r] = v),
         \A r \in Senders : outVC[r] = v => pid'[r] = pid[r] /\ sent'[r] = sent[r]
  PROVE  OpenPid'[v] = OpenPid[v] /\ Started'[v] = Started[v]
<1>1. CASE \E r \in Senders : outVC[r] = v
  <2>1. PICK r \in Senders : outVC[r] = v
    BY <1>1
  <2>2. Open(v) /\ SenderOf(v) = r
    BY <2>1, OnlySender
  <2>3. (Open(v) /\ SenderOf(v) = r)'
    <3>1. outVC'[r] = v /\ v # None
      BY <2>1, LinkAssumption
    <3>2. \A q \in Senders : outVC'[q] = v => q = r
      BY <3>1 DEF SoleSender
    <3> QED BY <3>1, <3>2 DEF Open, SenderOf
  <2> QED BY <2>1, <2>2, <2>3 DEF OpenPid, Started
<1>2. CASE ~\E r \in Senders : outVC[r] = v
  BY <1>2 DEF OpenPid, Started, Open
<1> QED BY <1>1, <1>2

LEMMA FifoInit == ASSUME Init PROVE FifoInv /\ Fifo!Init
<1>1. TypeOK /\ CreditConservation /\ SoleSender
  BY TypeInit, LinkAssumption DEF Init, SoleSender, CreditConservation
<1>2. \A v \in VCs : channel[v] = <<>> /\ buffer[v] = <<>> /\ ~Open(v)
  BY LinkAssumption DEF Init, Open
<1>3. Younger
  BY <1>2 DEF Init, Younger, FlitsOf
<1>4. \A v \in VCs : buffer[v] \o channel[v] = <<>>
  BY <1>2
<1> QED BY <1>1, <1>2, <1>3, <1>4 DEF FifoInv, Fifo!Init, Fifo!Closed, NoPid

\* Getting a VC opens its lane for a packet younger than all flits in it.
LEMMA TakeOpens ==
  ASSUME FifoInv, FifoInv', NEW s \in Senders, NEW v \in VCs, TakeBuffer(s, v)
  PROVE  Fifo!Open(v, nextPid) /\ nextPid \in 0 .. MaxPackets - 1
<1> USE DEF FifoInv
<1>1. /\ UNCHANGED <<channel, buffer>>
      /\ outVC' = [outVC EXCEPT ![s] = v] /\ outVC[s] = None
      /\ pid' = [pid EXCEPT ![s] = nextPid] /\ sent' = [sent EXCEPT ![s] = 0]
      /\ inUseBy[v] = None /\ nextPid < MaxPackets
  BY DEF TakeBuffer, IsAvailableFor, sinkVars
<1>2. nextPid \in 0 .. MaxPackets - 1
  BY <1>1, LinkAssumption DEF TypeOK
<1>3. ~Open(v)
  BY <1>1, LinkAssumption DEF Open, SoleSender
<1>4. \A i \in 1 .. Len(Queue[v]) : Queue[v][i].pid < nextPid
  <2>1. buffer[v] \in Seq(Flit) /\ channel[v] \in Seq(Flit)
    BY DEF TypeOK
  <2>2. \A i \in 1 .. Len(buffer[v] \o channel[v]) : (buffer[v] \o channel[v])[i] \in FlitsOf(v)
    <3> TAKE i \in 1 .. Len(buffer[v] \o channel[v])
    <3>1. \/ i \in 1 .. Len(buffer[v]) /\ (buffer[v] \o channel[v])[i] = buffer[v][i]
          \/ /\ i - Len(buffer[v]) \in 1 .. Len(channel[v])
             /\ (buffer[v] \o channel[v])[i] = channel[v][i - Len(buffer[v])]
      BY <2>1, Concatenated
    <3> QED BY <3>1 DEF FlitsOf
  <2> QED BY <2>2 DEF Queue, Younger
<1>5. outVC'[s] = v /\ pid'[s] = nextPid /\ sent'[s] = 0
  BY <1>1 DEF TypeOK
<1>6. Open(v)' /\ SenderOf(v)' = s
  <2>1. \A r \in Senders : outVC'[r] = v => r = s
    <3>1. v # None
      BY LinkAssumption
    <3> QED BY <1>5, <3>1 DEF SoleSender
  <2> QED BY <1>5, <2>1 DEF Open, SenderOf
<1>7. \A w \in VCs \ {v} : OpenPid'[w] = OpenPid[w] /\ Started'[w] = Started[w]
  <2> TAKE w \in VCs \ {v}
  <2>1. \A r \in Senders \ {s} : outVC'[r] = outVC[r] /\ pid'[r] = pid[r] /\ sent'[r] = sent[r]
    BY <1>1 DEF TypeOK
  <2>2. outVC[s] # w /\ outVC'[s] # w
    BY <1>1, <1>5, LinkAssumption
  <2> QED BY <2>1, <2>2, LooksTheSame
<1>8. OpenPid' = [OpenPid EXCEPT ![v] = nextPid]
  <2>1. OpenPid'[v] = nextPid
    BY <1>5, <1>6 DEF OpenPid
  <2> QED BY <1>7, <2>1 DEF OpenPid
<1>9. Started' = Started /\ Queue' = Queue
  <2>1. ~Started[v]
    BY <1>3 DEF Started
  <2>2. ~Started'[v]
    <3>1. ~(sent'[SenderOf(v)'] > 0)
      BY <1>5, <1>6
    <3> QED BY <3>1 DEF Started
  <2>3. \A w \in VCs : Started'[w] \in BOOLEAN /\ Started[w] \in BOOLEAN
    BY DEF Started
  <2>4. \A w \in VCs : Started'[w] = Started[w]
    BY <1>7, <2>1, <2>2, <2>3
  <2> QED BY <1>1, <2>4 DEF Started, Queue
<1>10. OpenPid[v] = NoPid
  BY <1>3 DEF OpenPid
<1> QED BY <1>2, <1>4, <1>8, <1>9, <1>10 DEF Fifo!Open, Fifo!Closed, NoPid, Queue, OpenPid, Started

\* Sending puts the flit at the end of its lane.
LEMMA SendPuts ==
  ASSUME FifoInv, FifoInv', Bounded, NEW s \in Senders, NEW last \in BOOLEAN, PrivateSend(s, last)
  PROVE  \E l \in VCs : Fifo!Put(l, last)
<1> USE DEF FifoInv
<1>v. PICK v \in VCs : v = outVC[s]
  BY SentFlit DEF PrivateSend
<1>f. PICK f \in Flit : f = [pid |-> pid[s], head |-> sent[s] = 0, tail |-> last]
  BY SentFlit DEF PrivateSend
<1>1. /\ channel' = [channel EXCEPT ![v] = Append(@, f)]
      /\ UNCHANGED <<buffer, pid>>
      /\ outVC' = IF last THEN [outVC EXCEPT ![s] = None] ELSE outVC
      /\ sent' = [sent EXCEPT ![s] = @ + 1]
      /\ ~IsFullFor(v)
  BY <1>v, <1>f DEF PrivateSend, SendingFlit, sinkVars
<1>2. Open(v) /\ SenderOf(v) = s
  BY <1>v, OnlySender
<1>3. /\ OpenPid[v] = pid[s] /\ pid[s] \in Nat /\ sent[s] \in Nat
      /\ (sent[s] > 0 => Started[v] = TRUE) /\ (~(sent[s] > 0) => Started[v] = FALSE)
  BY <1>2, <1>v, LinkAssumption DEF OpenPid, Started, TypeOK
<1>4. f = [pid |-> OpenPid[v], head |-> ~Started[v], tail |-> last]
  <2>1. CASE sent[s] = 0
    <3>1. (sent[s] = 0) = TRUE /\ Started[v] = FALSE
      BY <1>3, <2>1
    <3>2. f = [pid |-> pid[s], head |-> TRUE, tail |-> last]
      BY <1>f, <2>1
    <3> QED BY <1>3, <3>1, <3>2
  <2>2. CASE sent[s] # 0
    <3>1. Started[v] = TRUE
      BY <1>3, <2>2
    <3>2. f = [pid |-> pid[s], head |-> FALSE, tail |-> last]
      BY <1>f, <2>2
    <3> QED BY <1>3, <3>1, <3>2
  <2> QED BY <2>1, <2>2
<1>5. buffer[v] \in Seq(Flit) /\ channel[v] \in Seq(Flit)
  BY DEF TypeOK
<1>6. Queue' = [Queue EXCEPT ![v] = Append(@, f)]
  <2>1. buffer[v] \o Append(channel[v], f) = Append(buffer[v] \o channel[v], f)
    BY <1>5, Concatenated
  <2>2. /\ channel'[v] = Append(channel[v], f)
        /\ \A w \in VCs \ {v} : channel'[w] = channel[w]
    BY <1>1 DEF TypeOK
  <2>3. /\ buffer'[v] \o channel'[v] = Append(buffer[v] \o channel[v], f)
        /\ \A w \in VCs \ {v} : buffer'[w] \o channel'[w] = buffer[w] \o channel[w]
    BY <1>1, <2>1, <2>2
  <2> QED BY <2>3 DEF Queue
<1>7. Len(Queue[v]) < VcBufSize
  <2>1. Len(Queue[v]) = Stored(v) + Underway(v)
    BY <1>5, <1>f, Concatenated DEF Queue, Stored, Underway
  <2>2. vcOccupancy[v] = Underway(v) + Stored(v) + credits[v]
    BY ConservationNamed
  <2>3. ~(vcOccupancy[v] >= VcBufSize)
    BY <1>1 DEF IsFullFor
  <2> QED BY <2>1, <2>2, <2>3, Counts, VcBufSizeAssumption
<1>8. \A w \in VCs \ {v} : OpenPid'[w] = OpenPid[w] /\ Started'[w] = Started[w]
  <2> TAKE w \in VCs \ {v}
  <2>1. \A r \in Senders \ {s} : outVC'[r] = outVC[r] /\ pid'[r] = pid[r] /\ sent'[r] = sent[r]
    BY <1>1 DEF TypeOK
  <2>2. outVC[s] # w /\ outVC'[s] # w
    BY <1>1, <1>v, LinkAssumption DEF TypeOK
  <2> QED BY <2>1, <2>2, LooksTheSame
<1>9. OpenPid'[v] = (IF last THEN NoPid ELSE OpenPid[v]) /\ Started'[v] = ~last
  <2>1. CASE last
    <3>1. \A r \in Senders : outVC'[r] # v
      <4>1. \A r \in Senders : outVC[r] = v => r = s
        BY <1>v, LinkAssumption DEF SoleSender
      <4> QED BY <1>1, <2>1, <4>1, LinkAssumption DEF TypeOK
    <3> QED BY <2>1, <3>1 DEF OpenPid, Started, Open
  <2>2. CASE ~last
    <3>0. v # None /\ sent \in [Senders -> Nat]
      BY LinkAssumption DEF TypeOK
    <3>1. outVC'[s] = v /\ v # None /\ sent'[s] > 0 /\ pid'[s] = pid[s]
      BY <1>1, <1>3, <1>v, <2>2, <3>0
    <3>2. \A r \in Senders : outVC'[r] = v => r = s
      BY <3>1 DEF SoleSender
    <3>3. Open(v)' /\ SenderOf(v)' = s
      BY <3>1, <3>2 DEF Open, SenderOf
    <3> QED BY <1>3, <2>2, <3>1, <3>3 DEF OpenPid, Started
  <2> QED BY <2>1, <2>2
<1>10. /\ OpenPid' = IF last THEN [OpenPid EXCEPT ![v] = NoPid] ELSE OpenPid
       /\ Started' = [Started EXCEPT ![v] = ~last]
  BY <1>8, <1>9 DEF OpenPid, Started
<1>11. OpenPid[v] # NoPid
  BY <1>3 DEF NoPid
<1>12. Fifo!Put(v, last)
  BY <1>4, <1>6, <1>7, <1>10, <1>11 DEF Fifo!Put, Fifo!Closed, NoPid, Queue, OpenPid, Started
<1> QED BY <1>12

\* A flit that arrives stays where it is in its lane.
LEMMA AddIsInvisible ==
  ASSUME FifoInv, FifoInv', NEW v \in VCs, AddFlit(v)
  PROVE  UNCHANGED <<Queue, OpenPid, Started>>
<1> USE DEF FifoInv
<1>1. buffer[v] \in Seq(Flit) /\ channel[v] \in Seq(Flit) /\ channel[v] # <<>>
  BY DEF TypeOK, AddFlit
<1>2. Append(buffer[v], Head(channel[v])) \o Tail(channel[v]) = buffer[v] \o channel[v]
  BY <1>1, HeadTail, Concatenated
<1>3. /\ channel' = [channel EXCEPT ![v] = Tail(@)]
      /\ buffer' = [buffer EXCEPT ![v] = Append(@, Head(channel[v]))]
      /\ UNCHANGED <<outVC, pid, sent>>
  BY DEF AddFlit, senderVars
<1>4. UNCHANGED <<OpenPid, Started>>
  BY <1>3 DEF OpenPid, Started, Open, SenderOf
<1>5. \A w \in VCs : buffer'[w] \o channel'[w] = buffer[w] \o channel[w]
  BY <1>2, <1>3 DEF TypeOK
<1> QED BY <1>4, <1>5 DEF Queue

\* Forwarding takes the first flit of the lane.
LEMMA RemoveGets ==
  ASSUME FifoInv, NEW v \in VCs, RemoveFlit(v)
  PROVE  Fifo!Get(v)
<1> USE DEF FifoInv
<1>1. buffer[v] \in Seq(Flit) /\ channel[v] \in Seq(Flit) /\ buffer[v] # <<>>
  BY DEF TypeOK, RemoveFlit
<1>2. buffer[v] \o channel[v] # <<>> /\ Tail(buffer[v] \o channel[v]) = Tail(buffer[v]) \o channel[v]
  BY <1>1, HeadTail, Concatenated
<1>3. buffer' = [buffer EXCEPT ![v] = Tail(@)] /\ UNCHANGED <<channel, outVC, pid, sent>>
  BY DEF RemoveFlit, senderVars
<1>4. UNCHANGED <<OpenPid, Started>>
  BY <1>3 DEF OpenPid, Started, Open, SenderOf
<1>5. Queue' = [Queue EXCEPT ![v] = Tail(@)] /\ Queue[v] # <<>>
  BY <1>2, <1>3 DEF Queue, TypeOK
<1> QED BY <1>4, <1>5 DEF Fifo!Get, Queue, OpenPid, Started

LEMMA FifoStep ==
  ASSUME FifoInv, FifoInv', Bounded, [Next]_vars
  PROVE  [Fifo!Next]_Fifo!vars
<1>1. ASSUME NEW s \in Senders, NEW v \in VCs, PrivateTake(s, v) PROVE Fifo!Next
  BY <1>1, TakeOpens DEF PrivateTake, Fifo!Next
<1>2. ASSUME NEW s \in Senders, NEW last \in BOOLEAN, PrivateSend(s, last) PROVE Fifo!Next
  BY <1>2, SendPuts DEF Fifo!Next
<1>3. ASSUME NEW v \in VCs, AddFlit(v) PROVE UNCHANGED Fifo!vars
  BY <1>3, AddIsInvisible DEF Fifo!vars, Queue, OpenPid, Started
<1>4. ASSUME NEW v \in VCs, RemoveFlit(v) PROVE Fifo!Next
  BY <1>4, RemoveGets DEF Fifo!Next
<1>5. ASSUME (\E S \in SUBSET VCs : ProcessCredit(S)) \/ UNCHANGED vars PROVE UNCHANGED Fifo!vars
  <2>1. UNCHANGED <<outVC, pid, sent, channel, buffer>>
    BY <1>5 DEF ProcessCredit, vars, senderVars, sinkVars
  <2> QED BY <2>1 DEF Fifo!vars, Open, SenderOf
<1> QED BY <1>1, <1>2, <1>3, <1>4, <1>5 DEF Next

\* For every number of VCs and senders and every size: seen through what is in the channel and
\* the buffer together, a link does nothing but what a lossless bounded FIFO of whole packets
\* may do, however BufferState, the channels and Buffer share the work.
THEOREM LinkIsPacketFifo == Spec => ImplementsPacketFifo
<1> DEFINE I == FifoInv /\ Bounded
<1>1. Init => I /\ Fifo!Init
  BY FifoInit, VcBufSizeAssumption DEF Init, Bounded
<1>2. I /\ [Next]_vars => I'
  <2> SUFFICES ASSUME I, [Next]_vars PROVE I'
    OBVIOUS
  <2>1. Bounded'
    BY BoundedStep DEF FifoInv
  <2>2. FifoInv'
    BY NextIsLinkStep, TypeStep, ConservationStep, SoleSenderStep, YoungerStep DEF FifoInv
  <2> QED BY <2>1, <2>2
<1>3. I /\ I' /\ [Next]_vars => [Fifo!Next]_Fifo!vars
  BY FifoStep
<1> QED BY <1>1, <1>2, <1>3, PTL DEF Spec, ImplementsPacketFifo, Fifo!Spec

=============================================================================
