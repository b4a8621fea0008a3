---------------------------- MODULE EventRouter -----------------------------
(***************************************************************************)
(* BookSim's event-driven router.  A flit that comes in leaves an arrival  *)
(* event for its output; there it becomes a transport event when there is  *)
(* a credit for it, and is only counted ("presence", or in the entry of a  *)
(* waiting packet) when there is none; a transport event moves a flit of   *)
(* its input VC, whichever is in front.  In cut-through mode (vct) only    *)
(* heads leave events, and a credit is for a packet.                       *)
(*                                                                         *)
(* _InternalStep with ReadInputs is one action.  Arbiters take any         *)
(* request.  The neighbours are external.  One before the router is of its *)
(* kind: it sends what credits allow, and the next packet on a VC when the *)
(* credit has come that passes the VC on, which with vct is the head's.    *)
(* The credits of vct count packets ("input buffers are assumed to be      *)
(* expressed in units of maximum size packets"), but Buffer counts flits   *)
(* and _active lasts to the tail, so that a packet that is too long is an  *)
(* error.  Neighbours behind keep the flits of a VC in order and give      *)
(* credits back when they like.  The crossbar pipeline and the channels    *)
(* add delays that the neighbours may have as well.                        *)
(***************************************************************************)
EXTENDS Integers, FiniteSets, SequencesExt

CONSTANTS
  Inputs, Outputs, VCs,
  VcBufSize,    \* config "vc_buf_size"
  Modes,        \* values of config "vct" that are run
  PacketSizes,
  CreditTrip,   \* cycles from a flit's leaving an input to the next one that comes for its credit
  Terminals     \* outputs at which a traffic manager, no router, takes flits

EventRouterAssumption ==
  /\ VcBufSize \in Nat \ {0} /\ Modes \subseteq BOOLEAN
  /\ PacketSizes \subseteq Nat \ {0} /\ Terminals \subseteq Outputs
  /\ CreditTrip \in Nat \ {0}

VARIABLES
  vct,
  upstream,   \* external: what is still to be sent of the packet of each input VC, and how long until the next
  buf,        \* _buf: flits of each input VC
  goal,       \* _active and the output set: where the packet of an input VC is going
  arrivals,   \* _arrival_queue
  output,     \* _output_state and _transport_queue of each output
  match,      \* _transport_match: the output that an input is held for, None when _transport_free
  downstream, \* external: the flits of each output VC that no credit has come for
  expects,    \* external: whose packet comes next on each output VC
  errors,     \* the calls of Error()
  intruders   \* history: inputs whose flit has entered another's packet

vars == <<vct, upstream, buf, goal, arrivals, output, match, downstream, expects, errors, intruders>>

None == <<>>
InputVCs == Inputs \X VCs
Goals    == Outputs \X VCs

Init ==
  /\ vct \in Modes
  /\ upstream = [iv \in InputVCs |-> [left |-> 0, wait |-> 0]]
  /\ buf = [iv \in InputVCs |-> <<>>]
  /\ goal = [iv \in InputVCs |-> None]
  /\ arrivals = [i \in Inputs |-> <<>>]
  /\ output = [o \in Outputs |->
       [vc |-> [v \in VCs |-> [credits |-> VcBufSize, presence |-> 0, owner |-> None, waiting |-> <<>>]],
        transports |-> <<>>]]
  /\ match = [i \in Inputs |-> None]
  /\ downstream = [g \in Goals |-> <<>>]
  /\ expects = [g \in Goals |-> None]
  /\ errors = {} /\ intruders = {}

-----------------------------------------------------------------------------
(* _IncomingFlits and _ArrivalRequests                                     *)

\* Flits that may come in on a VC: without vct there is a credit for each, with vct for each packet.
Incoming(iv) ==
  LET sent == upstream[iv]
  IN IF ~vct /\ Len(buf[iv]) >= VcBufSize THEN {}
     ELSE IF sent.left > 0 THEN {[head |-> FALSE, left |-> sent.left - 1, goal |-> goal[iv]]}
     ELSE IF sent.wait > 0 THEN {}
     ELSE {[head |-> TRUE, left |-> size - 1, goal |-> g] : size \in PacketSizes, g \in Goals}

\* What comes in on an input: a VC and its flit.
Offers(i) == {None} \cup UNION {{<<<<i, v>>, f>> : f \in Incoming(<<i, v>>)} : v \in VCs}

Flit(f) == [head |-> f.head, tail |-> f.left = 0]

\* The arrival event of a flit.
Arrivals(iv, f) ==
  IF vct /\ ~f.head THEN <<>> ELSE <<[head |-> f.head, from |-> iv, goal |-> f.goal]>>

\* Buffer: config "buf_size", which is by default
BufSize == Cardinality(VCs) * VcBufSize
Occupancy(i) == FoldSet(LAMBDA v, sum : sum + Len(buf[<<i, v>>]), 0, VCs)

\* What Error() says of a flit that comes in.
IncomingErrors(iv, f) ==
  (IF Occupancy(iv[1]) >= BufSize THEN {"flit buffer overflow"} ELSE {})
  \cup (IF goal[iv] # None /\ f.head THEN {"head flit at non-idle VC"} ELSE {})
  \cup (IF goal[iv] = None /\ ~f.head THEN {"non-head flit at idle VC"} ELSE {})

Asking(queue, o) == {i \in Inputs : queue[i] # <<>> /\ Head(queue[i]).goal[1] = o}

-----------------------------------------------------------------------------
(* _ArrivalArb                                                             *)

\* An output with the errors raised at it.
Transports(x, v, from) == [x EXCEPT !.transports = Append(@, [from |-> from, vc |-> v])]

SendTransport(x, v, from) ==
  IF x.vc[v].credits > 0 THEN [Transports(x, v, from) EXCEPT !.vc[v].credits = @ - 1]
  ELSE [x EXCEPT !.vc[v].presence = @ + 1]

\* The packet of the VC has gone: the next one takes over, with the flits it has already.
\* slip: its flits are not counted again.
ProcessWaitingForgetful(x, v) ==
  IF x.vc[v].waiting = <<>> THEN [x EXCEPT !.vc[v].owner = None]
  ELSE LET w == Head(x.vc[v].waiting)
       IN SendTransport([x EXCEPT !.vc[v].owner = w.from, !.vc[v].waiting = Tail(@), !.vc[v].presence = 0], v, w.from)
ProcessWaiting(x, v) ==
  IF x.vc[v].waiting = <<>> THEN [x EXCEPT !.vc[v].owner = None]
  ELSE LET w == Head(x.vc[v].waiting)
       IN SendTransport([x EXCEPT !.vc[v].owner = w.from, !.vc[v].waiting = Tail(@),
                                  !.vc[v].presence = w.presence - 1], v, w.from)

\* slip: with cut-through the credit of a packet does not pass the VC on.
CreditInKeeping(x, v, c) ==
  LET paid == [x EXCEPT !.vc[v].credits = @ + 1]
  IN CASE vct /\ ~c.head -> x
       [] vct /\ c.head   -> paid
       [] ~vct /\ c.tail  -> ProcessWaiting(paid, v)
       [] ~vct /\ ~c.tail ->
            IF x.vc[v].owner # None /\ x.vc[v].presence > 0
            THEN SendTransport([paid EXCEPT !.vc[v].presence = @ - 1], v, x.vc[v].owner) ELSE paid
CreditIn(x, v, c) ==
  LET paid == [x EXCEPT !.vc[v].credits = @ + 1]
  IN CASE vct /\ ~c.head -> x
       [] (vct /\ c.head) \/ (~vct /\ c.tail) -> ProcessWaiting(paid, v)
       [] ~vct /\ ~c.tail ->
            IF x.vc[v].owner # None /\ x.vc[v].presence > 0
            THEN SendTransport([paid EXCEPT !.vc[v].presence = @ - 1], v, x.vc[v].owner) ELSE paid

Waits(x, v, from) == {k \in DOMAIN x.vc[v].waiting : x.vc[v].waiting[k].from = from}

\* slip: a body flit is taken for one of the packet that has the VC when that is of the same
\* input VC, even if the packet that it belongs to is waiting.
ArrivedEarly(x, v, e) ==
  IF e.head THEN
    IF x.vc[v].owner = None THEN SendTransport([x EXCEPT !.vc[v].owner = e.from], v, e.from)
    ELSE [x EXCEPT !.vc[v].waiting = Append(@, [from |-> e.from, presence |-> 1])]
  ELSE IF x.vc[v].owner = e.from THEN SendTransport(x, v, e.from)
  ELSE [x EXCEPT !.vc[v].waiting[CHOOSE k \in Waits(x, v, e.from) : TRUE].presence = @ + 1]
Arrived(x, v, e) ==
  IF e.head THEN
    IF x.vc[v].owner = None THEN SendTransport([x EXCEPT !.vc[v].owner = e.from], v, e.from)
    ELSE [x EXCEPT !.vc[v].waiting = Append(@, [from |-> e.from, presence |-> 1])]
  ELSE IF Waits(x, v, e.from) = {} THEN SendTransport(x, v, e.from)
  ELSE [x EXCEPT !.vc[v].waiting[CHOOSE k \in Waits(x, v, e.from) : \A j \in Waits(x, v, e.from) : k <= j].presence = @ + 1]

\* What Error() says of a body flit that arrives at an output.
ArrivalErrors(x, v, e) ==
  IF e.head THEN {}
  ELSE (IF vct THEN {"arrival of a body flit in cut-through mode"} ELSE {})
       \cup (IF x.vc[v].owner = None THEN {"body flit at a non-busy output VC"} ELSE {})
       \cup (IF Waits(x, v, e.from) = {} /\ x.vc[v].owner # e.from THEN {"no match in IncrWaiting"} ELSE {})

CreditErrors(x, v, c) ==
  IF ~vct /\ c.tail /\ x.vc[v].owner = None THEN {"tail credit at a non-busy output VC"} ELSE {}

\* The credits that may come: a router gives one for the oldest flit of a VC; a traffic manager
\* does not mark it as one of a head or a tail.
Credits(o) ==
  {None} \cup {<<v, LET f == Head(downstream[<<o, v>>])
                    IN IF o \in Terminals THEN [head |-> FALSE, tail |-> FALSE] ELSE f>> :
                 v \in {v \in VCs : downstream[<<o, v>>] # <<>>}}

AfterCredit(o, c) == IF c = None THEN output[o] ELSE CreditIn(output[o], c[1], c[2])

-----------------------------------------------------------------------------
(* _TransportRequests and _TransportArb                                    *)

\* The outputs whose first transport event is for an input; an input held for an output has
\* no other.
Matches(outs, i) ==
  IF match[i] # None THEN {match[i]}
  ELSE {<<o>> : o \in {o \in Outputs : outs[o].transports # <<>> /\ Head(outs[o].transports).from[1] = i}}

\* The inputs that send, and for each the event: the input VC must have a flit.
Event(outs, m) == Head(outs[m[1]].transports)
Sends(bufs, outs, m) == m # None /\ bufs[Event(outs, m).from] # <<>>

TransportErrors(goals, outs, m) ==
  IF m = None THEN {}
  ELSE LET e == Event(outs, m)
       IN (IF goals[e.from] = None THEN {"non-active VC received grant"} ELSE {})
          \cup (IF goals[e.from] # None /\ goals[e.from] # <<m[1], e.vc>>
                THEN {"transport event of another output VC"} ELSE {})

-----------------------------------------------------------------------------
(* A cycle.                                                                *)

OneEach(sets) == {f \in [DOMAIN sets -> UNION {sets[x] : x \in DOMAIN sets}] : \A x \in DOMAIN sets : f[x] \in sets[x]}
OrNone(S) == IF S = {} THEN {None} ELSE S

\* A packet is whole on the output VC.
Expected(was, from, f) == IF was = None THEN f.head ELSE ~f.head /\ was = from

\* The neighbour before an input VC: the credit that passes the VC on is on its way once the head
\* (with vct) or the tail has left, and then takes a time.
PassedOn(left, flits) == IF vct THEN \A k \in DOMAIN flits : ~flits[k].head ELSE left = 0 /\ flits = <<>>
Upstream(was, came, flits) ==
  LET left == IF came = {} THEN was.left ELSE (CHOOSE f \in came : TRUE).left
      wait == IF \E f \in came : f.head THEN CreditTrip ELSE was.wait
  IN [left |-> left, wait |-> IF wait > 0 /\ PassedOn(left, flits) THEN wait - 1 ELSE wait]

\* The flit that comes in on an input VC, as a set.
Coming(offer, iv) == {offer[i][2] : i \in {i \in Inputs : offer[i] # None /\ offer[i][1] = iv}}

Won(winner) == {o \in Outputs : winner[o] # None}

\* What the transport of the matched inputs changes.
Transport(bufs, goals, outs, m, credit) ==
  LET sending  == {i \in Inputs : Sends(bufs, outs, m[i])}
      From(i)  == Event(outs, m[i]).from
      sent(i)  == Head(bufs[From(i)])
      tails    == {From(i) : i \in {i \in sending : sent(i).tail}}
      pops(o)  == \E i \in sending : m[i] = <<o>> /\ (~vct \/ sent(i).tail)
      onto(g)  == {i \in sending : m[i][1] = g[1] /\ Event(outs, m[i]).vc = g[2]}
      Behind(g) == IF credit[g[1]] # None /\ credit[g[1]][1] = g[2] THEN Tail(downstream[g]) ELSE downstream[g]
  IN /\ buf' = [iv \in InputVCs |-> IF iv \in {From(i) : i \in sending} THEN Tail(bufs[iv]) ELSE bufs[iv]]
     /\ goal' = [iv \in InputVCs |-> IF iv \in tails THEN None ELSE goals[iv]]
     /\ output' = [o \in Outputs |-> IF pops(o) THEN [outs[o] EXCEPT !.transports = Tail(@)] ELSE outs[o]]
     /\ match' = [i \in Inputs |-> IF i \notin sending THEN match[i] ELSE IF vct /\ ~sent(i).tail THEN m[i] ELSE None]
     /\ downstream' = [g \in Goals |-> Behind(g) \o SetToSeq({sent(i) : i \in onto(g)})]
     /\ expects' = [g \in Goals |-> IF onto(g) = {} THEN expects[g]
                                    ELSE LET i == CHOOSE i \in onto(g) : TRUE IN IF sent(i).tail THEN None ELSE From(i)]
     /\ intruders' = {i \in sending : ~Expected(expects[<<m[i][1], Event(outs, m[i]).vc>>], From(i), sent(i))}

\* (A set of one value has it worked out once.)
Step ==
  /\ errors = {} /\ intruders = {}
  /\ \E offer \in OneEach([i \in Inputs |-> Offers(i)]), credit \in OneEach([o \in Outputs |-> Credits(o)]) :
     \E bufs \in {[iv \in InputVCs |-> buf[iv] \o SetToSeq({Flit(f) : f \in Coming(offer, iv)})]},
        goals \in {[iv \in InputVCs |-> IF Coming(offer, iv) = {} THEN goal[iv]
                                        ELSE (CHOOSE f \in Coming(offer, iv) : TRUE).goal]},
        queue \in {[i \in Inputs |-> IF offer[i] = None THEN arrivals[i]
                                     ELSE arrivals[i] \o Arrivals(offer[i][1], offer[i][2])]},
        paid \in {[o \in Outputs |-> AfterCredit(o, credit[o])]} :
     \E winner \in OneEach([o \in Outputs |-> OrNone({<<i>> : i \in Asking(queue, o)})]) :
     \E first \in {[o \in Won(winner) |-> Head(queue[winner[o][1]])]} :
     \E outs \in {[o \in Outputs |-> IF winner[o] = None THEN paid[o] ELSE Arrived(paid[o], first[o].goal[2], first[o])]} :
     \E m \in OneEach([i \in Inputs |-> OrNone(Matches(outs, i))]) :
       /\ Transport(bufs, goals, outs, m, credit)
       /\ upstream' = [iv \in InputVCs |-> Upstream(upstream[iv], Coming(offer, iv), buf'[iv])]
       /\ arrivals' = [i \in Inputs |-> IF <<i>> \in {winner[o] : o \in Outputs} THEN Tail(queue[i]) ELSE queue[i]]
       /\ errors' =
            UNION {IncomingErrors(offer[i][1], offer[i][2]) : i \in {i \in Inputs : offer[i] # None}}
            \cup UNION {CreditErrors(output[o], credit[o][1], credit[o][2]) : o \in {o \in Outputs : credit[o] # None}}
            \cup UNION {ArrivalErrors(paid[o], first[o].goal[2], first[o]) : o \in Won(winner)}
            \cup UNION {TransportErrors(goals, outs, m[i]) : i \in Inputs}
       /\ UNCHANGED vct

\* Error() ends the program.
Exited == errors # {} /\ UNCHANGED vars

Next == Step \/ Exited

Spec == Init /\ [][Next]_vars

-----------------------------------------------------------------------------
\* Packets leave whole on their VCs, and no call of Error() is reached but the two that a packet
\* too long for cut-through meets: one that has more flits than there is room for on a VC may
\* overflow the buffer; one that takes longer to leave than the head's credit to bring the next
\* head may be met by that.  Up to these lengths, and without vct at any, there is no error.
TooLong(limit) == vct /\ \E size \in PacketSizes : size > limit
ErrorsForeseen ==
  /\ intruders = {}
  /\ errors \subseteq {"flit buffer overflow", "head flit at non-idle VC"}
  /\ "flit buffer overflow" \in errors => TooLong(VcBufSize)
  /\ "head flit at non-idle VC" \in errors => TooLong(CreditTrip)

Count(seq, Test(_)) == Len(SelectSeq(seq, Test))
Sum(S, f(_)) == FoldSet(LAMBDA x, sum : sum + f(x), 0, S)

\* Every flit that is in an input buffer (with vct every packet) is known once: by an arrival
\* event, by a transport event, or by being counted where it waits; and a credit of an output VC
\* is there, used up by a transport event, or to come back for a flit.
Known(iv) ==
  Count(arrivals[iv[1]], LAMBDA e : e.from = iv)
  + Sum(Outputs, LAMBDA o :
      Count(output[o].transports, LAMBDA e : e.from = iv)
      + Sum(VCs, LAMBDA v :
          (IF output[o].vc[v].owner = iv THEN output[o].vc[v].presence ELSE 0)
          + FoldLeft(LAMBDA sum, w : IF w.from = iv THEN sum + w.presence ELSE sum, 0, output[o].vc[v].waiting)))

Begun(g) == \E i \in Inputs : match[i] = <<g[1]>> /\ Head(output[g[1]].transports).vc = g[2]

EventsAccounted ==
  /\ \A iv \in InputVCs : Known(iv) = IF vct THEN IF goal[iv] = None THEN 0 ELSE 1 ELSE Len(buf[iv])
  /\ \A g \in Goals :
       LET x == output[g[1]]
       IN x.vc[g[2]].credits + Count(x.transports, LAMBDA e : e.vc = g[2])
            + (IF vct THEN Count(downstream[g], LAMBDA f : f.head) - IF Begun(g) THEN 1 ELSE 0
                      ELSE Len(downstream[g]))
          = VcBufSize

\* An output VC is kept for a packet until its last credit and no longer: none is busy that has
\* all its credits and waits for no further flit.
RecycledAfterTail ==
  \A g \in Goals :
    LET x == output[g[1]].vc[g[2]] IN x.owner # None => x.credits < VcBufSize \/ expects[g] # None

=============================================================================
