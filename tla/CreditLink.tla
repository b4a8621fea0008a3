----------------------------- MODULE CreditLink -----------------------------
(***************************************************************************)
(* One router-to-router (or source-to-router) link of BookSim: the         *)
(* upstream credit accounting (BufferState with its "private" policy), the *)
(* flit channel, the downstream input buffer (Buffer and its VCs), and the *)
(* credit channel that closes the loop.                                    *)
(*                                                                         *)
(* An input VC of the upstream router is a member of Senders; what the     *)
(* code passes to TakeBuffer as the tag (input*_vcs + vc).  A channel      *)
(* carries one flit per cycle for all VCs in order; since no component     *)
(* compares flits of different VCs, it is projected on the VCs here and    *)
(* each projection keeps its own order, with an arbitrary delay.  A Credit *)
(* message carries a set of VCs.                                           *)
(***************************************************************************)
EXTENDS Integers, Sequences, FiniteSets

CONSTANTS
  VCs,                \* output virtual channels of the link
  Senders,            \* input VCs of the upstream router that compete for VCs
  None,               \* "-1": no holder, no output VC
  BufSizeOption,      \* config "buf_size"
  VcBufSizeOption,    \* config "vc_buf_size"
  WaitForTailCredit,  \* config "wait_for_tail_credit"
  VcBusyWhenFull,     \* config "vc_busy_when_full"
  MaxFlits,           \* bound: flits of the longest packet
  MaxPackets          \* bound: packets ever sent over the link

\* BufSizeOption # 0 because with 0 the constructors disagree: the policy falls
\* back to vc_buf_size while BufferState and Buffer take a size of zero.
ASSUME LinkAssumption ==
  /\ IsFiniteSet(VCs)
  /\ None \notin VCs \cup Senders
  /\ BufSizeOption \in Int \ {0}
  /\ VcBufSizeOption \in Nat \ {0}
  /\ WaitForTailCredit \in BOOLEAN
  /\ VcBusyWhenFull \in BOOLEAN
  /\ MaxFlits \in Nat \ {0}
  /\ MaxPackets \in Nat

NoPid == -1

\* Definitions marked "slip" are wrong on purpose: each is a plausible error in
\* the definition that follows it, kept to show that a property notices it.

\* slip: the division rounds up.
VcBufSizeRoundedUp == IF BufSizeOption <= 0 THEN VcBufSizeOption
                      ELSE (BufSizeOption + Cardinality(VCs) - 1) \div Cardinality(VCs)

\* The capacity the upstream policy and the downstream buffer are built with.
VcBufSize == IF BufSizeOption <= 0 THEN VcBufSizeOption
             ELSE BufSizeOption \div Cardinality(VCs)
Size == IF BufSizeOption < 0 THEN Cardinality(VCs) * VcBufSizeOption
        ELSE BufSizeOption

ASSUME VcBufSizeAssumption == VcBufSize \in Nat \ {0}

Flit == [pid : Nat, head : BOOLEAN, tail : BOOLEAN]

VARIABLES
  inUseBy,      \* BufferState::_in_use_by
  tailSent,     \* BufferState::_tail_sent
  vcOccupancy,  \* BufferState::_vc_occupancy
  occupancy,    \* BufferState::_occupancy
  outVC,        \* VC::_out_vc of each input VC in state active, else None
  pid,          \* packet at the front of each input VC
  sent,         \* flits of that packet already sent
  nextPid,      \* next packet identifier
  channel,      \* flits on the flit channel, per VC
  buffer,       \* VC::_buffer downstream, per VC
  bufOccupancy, \* Buffer::_occupancy downstream
  expectedPid,  \* VC::_expected_pid downstream
  credits       \* credits under way to the upstream side, per VC

stateVars == <<inUseBy, tailSent, vcOccupancy, occupancy>>
senderVars == <<outVC, pid, sent, nextPid>>
sinkVars == <<buffer, bufOccupancy, expectedPid>>
vars == <<stateVars, senderVars, sinkVars, channel, credits>>

Init ==
  /\ inUseBy = [v \in VCs |-> None]
  /\ tailSent = [v \in VCs |-> FALSE]
  /\ vcOccupancy = [v \in VCs |-> 0]
  /\ occupancy = 0
  /\ outVC = [s \in Senders |-> None]
  /\ pid = [s \in Senders |-> NoPid]
  /\ sent = [s \in Senders |-> 0]
  /\ nextPid = 0
  /\ channel = [v \in VCs |-> <<>>]
  /\ buffer = [v \in VCs |-> <<>>]
  /\ bufOccupancy = 0
  /\ expectedPid = [v \in VCs |-> NoPid]
  /\ credits = [v \in VCs |-> 0]

-----------------------------------------------------------------------------
(* The queries and updates of BufferState.                                 *)

\* slip: asks whether the VC has room, not whether it is held.
HasRoom(v) == vcOccupancy[v] < VcBufSize

IsAvailableFor(v) == inUseBy[v] = None

\* slip: off by one.
IsOverFullFor(v) == vcOccupancy[v] > VcBufSize

IsFullFor(v) == vcOccupancy[v] >= VcBufSize

\* VC allocation: input VC s acquires output VC v for a fresh packet.
TakeBuffer(s, v) ==
  /\ outVC[s] = None
  /\ nextPid < MaxPackets
  /\ IsAvailableFor(v)
  /\ inUseBy' = [inUseBy EXCEPT ![v] = s]
  /\ tailSent' = [tailSent EXCEPT ![v] = FALSE]
  /\ outVC' = [outVC EXCEPT ![s] = v]
  /\ pid' = [pid EXCEPT ![s] = nextPid]
  /\ sent' = [sent EXCEPT ![s] = 0]
  /\ nextPid' = nextPid + 1
  /\ UNCHANGED <<vcOccupancy, occupancy, sinkVars, channel, credits>>

\* The front flit of active input VC s leaves on its output VC.
SendingFlit(s, last) ==
  LET v == outVC[s]
  IN /\ v # None
     /\ sent[s] + 1 = MaxFlits => last
     /\ occupancy' = occupancy + 1
     /\ vcOccupancy' = [vcOccupancy EXCEPT ![v] = @ + 1]
     /\ channel' = [channel EXCEPT ![v] =
                      Append(@, [pid |-> pid[s], head |-> sent[s] = 0, tail |-> last])]
     /\ tailSent' = [tailSent EXCEPT ![v] = @ \/ last]
     /\ inUseBy' = IF last /\ ~WaitForTailCredit
                   THEN [inUseBy EXCEPT ![v] = None] ELSE inUseBy
     /\ outVC' = IF last THEN [outVC EXCEPT ![s] = None] ELSE outVC
     /\ sent' = [sent EXCEPT ![s] = @ + 1]
     /\ UNCHANGED <<pid, nextPid, sinkVars, credits>>

\* slip: a packet of one flit is forgotten.
ExpectFirstPid(e, f) ==
  IF e = NoPid THEN f.pid ELSE IF f.tail THEN NoPid ELSE e

\* VC::_expected_pid after flit f arrives while e was expected.
NextExpectedPid(e, f) ==
  IF e # NoPid THEN (IF f.pid = e /\ f.tail THEN NoPid ELSE e)
  ELSE IF f.tail THEN NoPid ELSE f.pid

\* slip: the flit overtakes those that wait.
AddFlitInFront(v) ==
  /\ channel[v] # <<>>
  /\ channel' = [channel EXCEPT ![v] = Tail(@)]
  /\ buffer' = [buffer EXCEPT ![v] = <<Head(channel[v])>> \o @]
  /\ bufOccupancy' = bufOccupancy + 1
  /\ expectedPid' = [expectedPid EXCEPT ![v] = NextExpectedPid(@, Head(channel[v]))]
  /\ UNCHANGED <<stateVars, senderVars, credits>>

\* The head of the channel reaches the downstream buffer.
AddFlit(v) ==
  /\ channel[v] # <<>>
  /\ channel' = [channel EXCEPT ![v] = Tail(@)]
  /\ buffer' = [buffer EXCEPT ![v] = Append(@, Head(channel[v]))]
  /\ bufOccupancy' = bufOccupancy + 1
  /\ expectedPid' = [expectedPid EXCEPT ![v] = NextExpectedPid(@, Head(channel[v]))]
  /\ UNCHANGED <<stateVars, senderVars, credits>>

\* slip: no credit for a tail flit.
RemoveTailUncredited(v) ==
  /\ buffer[v] # <<>>
  /\ buffer' = [buffer EXCEPT ![v] = Tail(@)]
  /\ bufOccupancy' = bufOccupancy - 1
  /\ credits' = [credits EXCEPT ![v] = IF Head(buffer[v]).tail THEN @ ELSE @ + 1]
  /\ UNCHANGED <<stateVars, senderVars, channel, expectedPid>>

\* The downstream router forwards a flit and returns its credit.
RemoveFlit(v) ==
  /\ buffer[v] # <<>>
  /\ buffer' = [buffer EXCEPT ![v] = Tail(@)]
  /\ bufOccupancy' = bufOccupancy - 1
  /\ credits' = [credits EXCEPT ![v] = @ + 1]
  /\ UNCHANGED <<stateVars, senderVars, channel, expectedPid>>

\* slip: any credit after the tail frees the VC.
ReleasedEarly(v) == WaitForTailCredit /\ tailSent[v]

\* slip: the count is looked at before this credit is taken off.
ReleasedNever(v) == WaitForTailCredit /\ vcOccupancy[v] = 0 /\ tailSent[v]

\* A returning credit frees the VC once its packet has left for good.
ReleasedBy(v) == WaitForTailCredit /\ vcOccupancy[v] = 1 /\ tailSent[v]

\* slip: the message is processed again although it has been consumed.
ProcessCreditAgain(S) ==
  /\ S # {}
  /\ \E v \in S : credits[v] > 0
  /\ credits' = [v \in VCs |-> IF v \in S THEN credits[v] - 1 ELSE credits[v]]
  /\ occupancy' = occupancy - Cardinality(S)
  /\ vcOccupancy' = [v \in VCs |-> IF v \in S THEN vcOccupancy[v] - 1 ELSE vcOccupancy[v]]
  /\ inUseBy' = [v \in VCs |-> IF v \in S /\ ReleasedBy(v) THEN None ELSE inUseBy[v]]
  /\ UNCHANGED <<tailSent, senderVars, sinkVars, channel>>

\* One Credit message, for the set S of VCs, reaches the upstream side.
ProcessCredit(S) ==
  /\ S # {}
  /\ \A v \in S : credits[v] > 0
  /\ credits' = [v \in VCs |-> IF v \in S THEN credits[v] - 1 ELSE credits[v]]
  /\ occupancy' = occupancy - Cardinality(S)
  /\ vcOccupancy' = [v \in VCs |-> IF v \in S THEN vcOccupancy[v] - 1 ELSE vcOccupancy[v]]
  /\ inUseBy' = [v \in VCs |-> IF v \in S /\ ReleasedBy(v) THEN None ELSE inUseBy[v]]
  /\ UNCHANGED <<tailSent, senderVars, sinkVars, channel>>

-----------------------------------------------------------------------------
(* The link under the private policy: a VC may hold VcBufSize flits.       *)

PrivateTake(s, v) == (VcBusyWhenFull => ~IsFullFor(v)) /\ TakeBuffer(s, v)

PrivateSend(s, last) == outVC[s] # None /\ ~IsFullFor(outVC[s]) /\ SendingFlit(s, last)

Downstream(v) == AddFlit(v) \/ RemoveFlit(v)

Next ==
  \/ \E s \in Senders, v \in VCs : PrivateTake(s, v)
  \/ \E s \in Senders, last \in BOOLEAN : PrivateSend(s, last)
  \/ \E v \in VCs : AddFlit(v)
  \/ \E v \in VCs : RemoveFlit(v)
  \/ \E S \in SUBSET VCs : ProcessCredit(S)

Spec == Init /\ [][Next]_vars

\* Every module of the simulation is stepped in every cycle, so channels move,
\* the downstream router forwards, credits return and an active input VC with a
\* credit is eventually served (its arbiters are fair).  Packets are not owed.
Fairness ==
  /\ \A v \in VCs : WF_vars(Downstream(v))
  /\ \A v \in VCs : WF_vars(\E S \in SUBSET VCs : v \in S /\ ProcessCredit(S))
  /\ \A s \in Senders : WF_vars(\E last \in BOOLEAN : PrivateSend(s, last))

FairSpec == Spec /\ Fairness

-----------------------------------------------------------------------------
(* Properties.                                                             *)

\* Every variable holds what its declaration in the source can.
TypeOK ==
  /\ inUseBy \in [VCs -> Senders \cup {None}]
  /\ tailSent \in [VCs -> BOOLEAN]
  /\ vcOccupancy \in [VCs -> Int]
  /\ occupancy \in Int
  /\ outVC \in [Senders -> VCs \cup {None}]
  /\ pid \in [Senders -> Nat \cup {NoPid}]
  /\ \A s \in Senders : outVC[s] # None => pid[s] \in Nat
  /\ sent \in [Senders -> Nat]
  /\ nextPid \in Nat
  /\ channel \in [VCs -> Seq(Flit)]
  /\ buffer \in [VCs -> Seq(Flit)]
  /\ bufOccupancy \in Int
  /\ expectedPid \in [VCs -> Nat \cup {NoPid}]
  /\ credits \in [VCs -> Nat]

\* The upstream count of a VC is exactly what is in the channel, in the
\* downstream buffer or on its way back as a credit: no credit is lost,
\* duplicated or returned to another VC (buffer_state.cpp: "Buffer occupancy
\* fell below zero for VC").
CreditConservation ==
  \A v \in VCs :
    vcOccupancy[v] = Len(channel[v]) + Len(buffer[v]) + credits[v]

\* Each VC downstream holds at most the slots the private policy gives it,
\* although its sender only ever looks at its own count.
VcWithinPrivateSlots ==
  \A v \in VCs : Len(channel[v]) + Len(buffer[v]) <= VcBufSize

\* The per-VC check of the policy protects the totals as well: a flit that may
\* be sent does not overflow the upstream count (buffer_state.cpp: "Buffer
\* overflow."), and one that arrives finds a free slot (buffer.cpp: "Flit
\* buffer overflow.").
NoOverflow ==
  /\ (\E s \in Senders : outVC[s] # None /\ ~IsFullFor(outVC[s])) => occupancy < Size
  /\ (\E v \in VCs : channel[v] # <<>>) => bufOccupancy < Size

\* A VC is fed by one input VC at a time, the one recorded as its holder, and
\* only until that packet's tail.
SoleSender ==
  \A s \in Senders : outVC[s] # None =>
    inUseBy[outVC[s]] = s /\ ~tailSent[outVC[s]]

\* Packets are not interleaved within a VC: the flit that arrives next belongs
\* to the packet the VC is receiving, or starts a new one (vc.cpp: "Received
\* flit with unexpected packet ID"; iq_router.cpp: assert(f->head)).
PacketsContiguous ==
  \A v \in VCs : channel[v] # <<>> =>
    IF expectedPid[v] = NoPid THEN Head(channel[v]).head
    ELSE /\ Head(channel[v]).pid = expectedPid[v]
         /\ ~Head(channel[v]).head

\* With wait_for_tail_credit a credit never arrives for an idle VC
\* (buffer_state.cpp: "Received credit for idle VC"), and a VC is not given to
\* a packet while flits of another one still are in it.
TailCreditSeparatesPackets ==
  WaitForTailCredit =>
    \A v \in VCs :
      /\ vcOccupancy[v] > 0 => inUseBy[v] # None
      /\ \A i \in 1 .. Len(channel[v]), j \in 1 .. Len(buffer[v]) :
           channel[v][i].pid = buffer[v][j].pid

\* The abstract packet FIFO that the link implements: what is in the channel and
\* in the downstream buffer of a VC is one queue, and a packet is open while its
\* sender is active.
SenderOf(v) == CHOOSE s \in Senders : outVC[s] = v

Open(v) == \E s \in Senders : outVC[s] = v

Fifo == INSTANCE PacketFifo WITH
          Lanes <- VCs,
          Capacity <- VcBufSize,
          Packets <- 0 .. MaxPackets - 1,
          queue <- [v \in VCs |-> buffer[v] \o channel[v]],
          open <- [v \in VCs |-> IF Open(v) THEN pid[SenderOf(v)] ELSE NoPid],
          started <- [v \in VCs |-> Open(v) /\ sent[SenderOf(v)] > 0]

\* Each VC is one lossless bounded FIFO of whole packets, whatever the channel,
\* the buffer and the credit counts do between them.
ImplementsPacketFifo == Fifo!Spec

\* Whoever holds a VC gives it back: its credits return, its packet ends, and
\* with wait_for_tail_credit the last credit frees it.
HeldVcIsFreed ==
  \A v \in VCs : inUseBy[v] # None ~> inUseBy[v] = None

=============================================================================
