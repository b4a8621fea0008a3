---------------------------- MODULE SharedBuffer ----------------------------
(***************************************************************************)
(* The link of CreditLink when the downstream buffer is shared between the *)
(* VCs: BookSim's SharedBufferPolicy and the three policies derived from   *)
(* it that bound what one VC may hold (limited, dynamic, shifting).  Each  *)
(* VC is mapped to a private pool of slots; a flit beyond its pool takes a *)
(* shared slot.  A VC whose packet has begun and whose last credit returns *)
(* keeps that slot reserved, so that the packet can always go on.          *)
(***************************************************************************)
EXTENDS CreditLink, Totals

CONSTANTS
  Pools,          \* the private pools ("private_bufs")
  PoolOf,         \* _private_buf_vc_map
  PrivateSize,    \* _private_buf_size of each pool
  MaxHeldOption,  \* config "max_held_slots", used by the limited policy
  Policies        \* the values of "buffer_policy" to be checked

ASSUME SharedAssumption ==
  /\ VCs # {}
  /\ IsFiniteSet(Pools)
  /\ PoolOf \in [VCs -> Pools]
  /\ PrivateSize \in [Pools -> Nat]
  /\ MaxHeldOption \in Nat \ {0}
  /\ Policies \subseteq {"shared", "limited", "dynamic", "shifting"}

\* SharedBufferPolicy::_shared_buf_size, asserted not to be negative.
SharedSize == Size - Total(PrivateSize)

ASSUME SharedSizeAssumption == SharedSize >= 0

VARIABLES
  policy,       \* which policy object the BufferState was built with
  privateOcc,   \* _private_buf_occupancy of each pool
  sharedOcc,    \* _shared_buf_occupancy
  reserved,     \* _reserved_slots of each VC
  activeVcs,    \* _active_vcs
  maxHeld       \* _max_held_slots

policyVars == <<policy, privateOcc, sharedOcc, reserved, activeVcs, maxHeld>>

SharedInit ==
  /\ Init
  /\ policy \in Policies
  /\ privateOcc = [i \in Pools |-> 0]
  /\ sharedOcc = 0
  /\ reserved = [v \in VCs |-> 0]
  /\ activeVcs = 0
  /\ maxHeld = IF policy = "limited" THEN MaxHeldOption ELSE Size

-----------------------------------------------------------------------------
(* Slot accounting.                                                        *)

Limits == policy # "shared"

\* slip: off by one in the shared slots.
SharedIsOverFullFor(v) ==
  \/ /\ reserved[v] = 0
     /\ privateOcc[PoolOf[v]] >= PrivateSize[PoolOf[v]]
     /\ sharedOcc > SharedSize
  \/ Limits /\ vcOccupancy[v] >= maxHeld

SharedIsFullFor(v) ==
  \/ /\ reserved[v] = 0
     /\ privateOcc[PoolOf[v]] >= PrivateSize[PoolOf[v]]
     /\ sharedOcc >= SharedSize
  \/ Limits /\ vcOccupancy[v] >= maxHeld

Least(a, b) == IF a < b THEN a ELSE b

\* slip: a pool beyond its size counts as a debt.
AvailableWithDebt(v) ==
  LET slots == reserved[v] + PrivateSize[PoolOf[v]] - privateOcc[PoolOf[v]]
               + SharedSize - sharedOcc
  IN IF Limits THEN Least(slots, maxHeld - vcOccupancy[v]) ELSE slots

SharedAvailableFor(v) ==
  LET unused == PrivateSize[PoolOf[v]] - privateOcc[PoolOf[v]]
      slots == reserved[v] + (IF unused > 0 THEN unused ELSE 0) + SharedSize - sharedOcc
  IN IF Limits THEN Least(slots, maxHeld - vcOccupancy[v]) ELSE slots

\* slip: off by one.
SharedAmongStrictly(i, n) ==
  Cardinality({k \in 1 .. n : privateOcc[i] - k > PrivateSize[i]})

\* Of n slots that pool i gives back one by one, those that were shared slots.
SharedAmong(i, n) ==
  Cardinality({k \in 1 .. n : privateOcc[i] - k >= PrivateSize[i]})

\* Halve the buffer until the halves are at least as many as the active VCs.
Halvings(a) == CHOOSE k \in 0 .. a : 2^k >= a /\ \A j \in 0 .. k - 1 : 2^j < a

\* The shifting policy asserts that a slot is left however many VCs are active,
\* which a buffer of 3 slots for 3 VCs does not meet.
ASSUME ShiftingAssumption ==
  "shifting" \in Policies => \A a \in 1 .. Cardinality(VCs) : 2^Halvings(a) \in 1 .. Size

\* _max_held_slots when a VCs are active.
HeldLimit(a) ==
  CASE policy = "dynamic" /\ a > 0 -> Size \div a
    [] policy = "shifting" /\ a > 0 -> Size \div 2^Halvings(a)
    [] OTHER -> maxHeld

\* slip: a VC that still holds flits of an earlier packet is not counted again.
TakeCountedIfEmpty(s, v) ==
  /\ VcBusyWhenFull => ~SharedIsFullFor(v)
  /\ TakeBuffer(s, v)
  /\ activeVcs' = IF Limits /\ vcOccupancy[v] = 0 THEN activeVcs + 1 ELSE activeVcs
  /\ maxHeld' = HeldLimit(activeVcs')
  /\ UNCHANGED <<policy, privateOcc, sharedOcc, reserved>>

SharedTake(s, v) ==
  /\ VcBusyWhenFull => ~SharedIsFullFor(v)
  /\ TakeBuffer(s, v)
  /\ activeVcs' = IF Limits THEN activeVcs + 1 ELSE activeVcs
  /\ maxHeld' = HeldLimit(activeVcs')
  /\ UNCHANGED <<policy, privateOcc, sharedOcc, reserved>>

\* A flit uses its VC's reserved slot, else a slot of the pool, else a shared
\* one; the tail gives back what is still reserved.
SharedSend(s, last) ==
  LET v == outVC[s]
      i == PoolOf[v]
      useReserved == reserved[v] > 0
      left == IF useReserved THEN reserved[v] - 1 ELSE 0
      freed == IF last THEN left ELSE 0
      beyond == ~useReserved /\ privateOcc[i] >= PrivateSize[i]
  IN /\ v # None
     /\ ~SharedIsFullFor(v)
     /\ SendingFlit(s, last)
     /\ reserved' = [reserved EXCEPT ![v] = left - freed]
     /\ privateOcc' = [privateOcc EXCEPT ![i] = IF useReserved THEN @ - freed ELSE @ + 1]
     /\ sharedOcc' = IF beyond THEN sharedOcc + 1 ELSE sharedOcc - SharedAmong(i, freed)
     /\ activeVcs' = IF Limits /\ last THEN activeVcs - 1 ELSE activeVcs
     /\ maxHeld' = IF last THEN HeldLimit(activeVcs') ELSE maxHeld
     /\ UNCHANGED policy

\* slip: the count is looked at before this credit is taken off.
ReservesNever(v) == inUseBy[v] # None /\ ~ReleasedBy(v) /\ vcOccupancy[v] = 0

\* slip: an idle VC keeps its last slot too.
ReservesIdle(v) == vcOccupancy[v] = 1

\* FreeSlotFor(v) reserves the returned slot when v is held and now empty.
Reserves(v) ==
  /\ inUseBy[v] # None
  /\ ~ReleasedBy(v)
  /\ vcOccupancy[v] = 1

\* The slots of pool i that a credit for S gives back.
Freed(S, i) == Cardinality({v \in S : PoolOf[v] = i /\ ~Reserves(v)})

SharedProcessCredit(S) ==
  /\ ProcessCredit(S)
  /\ reserved' = [v \in VCs |-> IF v \in S /\ Reserves(v) THEN reserved[v] + 1 ELSE reserved[v]]
  /\ privateOcc' = [i \in Pools |-> privateOcc[i] - Freed(S, i)]
  /\ sharedOcc' = sharedOcc - Total([i \in Pools |-> SharedAmong(i, Freed(S, i))])
  /\ UNCHANGED <<policy, activeVcs, maxHeld>>

SharedNext ==
  \/ \E s \in Senders, v \in VCs : SharedTake(s, v)
  \/ \E s \in Senders, last \in BOOLEAN : SharedSend(s, last)
  \/ \E v \in VCs : AddFlit(v) /\ UNCHANGED policyVars
  \/ \E v \in VCs : RemoveFlit(v) /\ UNCHANGED policyVars
  \/ \E S \in SUBSET VCs : SharedProcessCredit(S)

SharedSpec == SharedInit /\ [][SharedNext]_<<vars, policyVars>>

-----------------------------------------------------------------------------
(* Properties.                                                             *)

VcsOf(i) == {v \in VCs : PoolOf[v] = i}

\* What a pool holds beyond its size.
Beyond == [i \in Pools |-> IF privateOcc[i] > PrivateSize[i]
                            THEN privateOcc[i] - PrivateSize[i] ELSE 0]

\* A pool counts the flits and the reserved slots of its VCs, and the shared
\* slots are those the pools could not hold (buffer_state.cpp: "Private buffer
\* occupancy fell below zero", "Shared buffer occupancy fell below zero");
\* IsFullFor and AvailableFor, which compute the room for a VC from them
\* separately and which callers mix, agree.
SlotAccounting ==
  /\ \A i \in Pools :
       privateOcc[i] = Total([v \in VcsOf(i) |-> vcOccupancy[v] + reserved[v]])
  /\ sharedOcc = Total(Beyond)
  /\ \A v \in VCs : SharedIsFullFor(v) <=> SharedAvailableFor(v) <= 0

\* Flits and reservations together never exceed the buffer, so that neither
\* "Shared buffer overflow." nor "Flit buffer overflow." can be raised.
SharedNoOverflow ==
  /\ sharedOcc <= SharedSize
  /\ occupancy + Total(reserved) <= Size
  /\ (\E v \in VCs : channel[v] # <<>>) => bufOccupancy < Size

\* A packet that has begun is never shut out of an otherwise empty VC by the
\* traffic of other VCs: the reservation keeps a slot for it, and a slot is reserved
\* for nothing else than such a VC, one for each.
BegunPacketKeepsSlot ==
  /\ \A s \in Senders :
       outVC[s] # None /\ sent[s] > 0 /\ vcOccupancy[outVC[s]] = 0 => ~SharedIsFullFor(outVC[s])
  /\ \A v \in VCs : reserved[v] > 0 =>
       reserved[v] = 1 /\ inUseBy[v] # None /\ ~tailSent[v] /\ vcOccupancy[v] = 0

\* The policies that divide the buffer count exactly the VCs whose packet is
\* under way, and always leave each of them at least one slot (buffer_state.cpp:
\* assert(_max_held_slots > 0), "Number of active VCs is too large.").
ActiveVcsCounted ==
  Limits =>
    /\ activeVcs = Cardinality({s \in Senders : outVC[s] # None})
    /\ activeVcs <= Cardinality(VCs)
    /\ maxHeld > 0

=============================================================================
