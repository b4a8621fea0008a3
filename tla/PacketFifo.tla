----------------------------- MODULE PacketFifo -----------------------------
(***************************************************************************)
(* What a virtual channel promises to the packets that use it: a lossless  *)
(* bounded FIFO per lane into which one packet at a time is written, from  *)
(* its head flit to its tail flit.                                         *)
(***************************************************************************)
EXTENDS Integers, Sequences

CONSTANTS
  Lanes,     \* the virtual channels
  Capacity,  \* flits a lane holds
  Packets    \* packet identifiers, increasing with time

Closed == -1

VARIABLES
  queue,   \* flits of each lane, oldest first
  open,    \* the packet being written to each lane, or Closed
  started  \* whether that packet's head has been written

vars == <<queue, open, started>>

Init ==
  /\ queue = [l \in Lanes |-> <<>>]
  /\ open = [l \in Lanes |-> Closed]
  /\ started = [l \in Lanes |-> FALSE]

\* Packet p, younger than every flit of the lane, gets lane l.
Open(l, p) ==
  /\ open[l] = Closed
  /\ \A i \in 1 .. Len(queue[l]) : queue[l][i].pid < p
  /\ open' = [open EXCEPT ![l] = p]
  /\ UNCHANGED <<queue, started>>

\* The open packet of lane l continues: its first flit is the head, and its
\* tail closes the lane.
Put(l, tail) ==
  /\ open[l] # Closed
  /\ Len(queue[l]) < Capacity
  /\ queue' = [queue EXCEPT ![l] =
                 Append(@, [pid |-> open[l], head |-> ~started[l], tail |-> tail])]
  /\ open' = IF tail THEN [open EXCEPT ![l] = Closed] ELSE open
  /\ started' = [started EXCEPT ![l] = ~tail]

Get(l) ==
  /\ queue[l] # <<>>
  /\ queue' = [queue EXCEPT ![l] = Tail(@)]
  /\ UNCHANGED <<open, started>>

Next ==
  \/ \E l \in Lanes, p \in Packets : Open(l, p)
  \/ \E l \in Lanes, tail \in BOOLEAN : Put(l, tail)
  \/ \E l \in Lanes : Get(l)

Spec == Init /\ [][Next]_vars

=============================================================================
