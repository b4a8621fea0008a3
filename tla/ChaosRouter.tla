---------------------------- MODULE ChaosRouter -----------------------------
(***************************************************************************)
(* BookSim's chaos router: packets of as many flits as a buffer holds, one *)
(* VC, as many inputs as outputs, the last for a node.  A packet goes from *)
(* its input frame to an output that it may take, or is put into a         *)
(* multi-queue and goes on from there, when all of those are full to any   *)
(* output.  A frame or queue may hold the end of one packet and the        *)
(* beginning of another, and a packet may leave it while it still comes    *)
(* in: the code relies on the flits of a packet coming one in each cycle.  *)
(*                                                                         *)
(* A cycle (ReadInputs, _InternalStep, WriteOutputs) is one action.  The   *)
(* neighbours are external: each goes on with a packet that it has begun   *)
(* to send, or to give credits for, when it can; channels add delays that  *)
(* they may have as well.  The crossbar's pipeline is of no depth          *)
(* (st_prepare_delay and st_final_delay 0): what is written to it is in    *)
(* the output frame at the end of the cycle.                               *)
(***************************************************************************)
EXTENDS Integers, FiniteSets, SequencesExt

CONSTANTS
  Ports,      \* inputs, and outputs
  Queues,     \* multi-queues: config "multi_queue_size"
  BufferSize, \* config "vc_buf_size", and the flits of a packet
  Routes,     \* what the routing function may find for a packet
  Sources     \* the inputs at which packets come in

ChaosRouterAssumption ==
  /\ Ports \in Nat \ {0} /\ Queues \in Nat \ {0}
  /\ BufferSize \in Nat \ {0, 1}
  /\ Routes \subseteq SUBSET (0 .. Ports - 1) \ {{}}
  /\ Sources \subseteq 0 .. Ports - 1

VARIABLES
  input,    \* _input_state, _input_frame, _input_output_match and _input_mq_match
  multi,    \* _multi_state, _multi_queue, _multi_match and _mq_matched
  age,      \* _mq_age: the queues that hold packets, by the age of the last one's head
  output,   \* _output_frame, _next_queue_cnt and _output_matched
  cur,      \* _cur_channel
  stalled,  \* _read_stall > 0
  broken,   \* the calls of Error()
  coming,   \* how many flits of the packet that is under way a neighbour has sent to each input,
  freed,    \* the router has given credits for at each input,
  going,    \* the router has sent on each output,
  freeing   \* and the neighbour has given credits for at each output

routerVars == <<input, multi, age, output, cur, stalled, broken>>
passing    == <<coming, freed, going, freeing>>
vars == <<routerVars, passing>>

None      == -1
Channels  == 0 .. Ports - 1
Multi     == 0 .. Queues - 1
NodePort  == Ports - 1    \* _IsInjectionChan, _IsEjectionChan

IsHead(f) == f.n = 1
IsTail(f) == f.n = BufferSize

Init ==
  /\ input = [i \in Channels |-> [state |-> "empty", frame |-> <<>>, out |-> None, mq |-> None]]
  /\ multi = [m \in Multi |-> [state |-> "empty", queue |-> <<>>, match |-> None, matched |-> FALSE]]
  /\ age = <<>>
  /\ output = [o \in Channels |-> [frame |-> <<>>, count |-> 0, matched |-> FALSE]]
  /\ cur = 0 /\ stalled = FALSE
  /\ broken = {}
  /\ coming = [i \in Channels |-> 0] /\ freed = coming
  /\ going = coming /\ freeing = coming

-----------------------------------------------------------------------------
(* ReadInputs                                                              *)

\* What may come in: <<>> or a flit.  The head carries what the routing function will find.
Incoming(i) ==
  LET flit(n, route) == <<[n |-> n, from |-> i, route |-> route]>>
  IN IF i \notin Sources \/ Len(input[i].frame) = BufferSize THEN {<<>>}
     ELSE IF coming[i] > 0 THEN {flit(coming[i] + 1, {})}
     ELSE {<<>>} \cup {flit(1, route) : route \in Routes}

\* Whether a credit may come for an output.
Credits(o) ==
  IF output[o].count = 0 THEN {FALSE} ELSE IF freeing[o] > 0 THEN {TRUE} ELSE BOOLEAN

Receive(x, f) ==
  [x EXCEPT !.frame = Append(@, f),
            !.state = CASE @ = "empty"       /\ IsHead(f) -> "filling"
                        [] @ = "filling"     /\ IsTail(f) -> "full"
                        [] @ = "leaving"     /\ IsHead(f) -> "shared"
                        [] @ = "cut_through" /\ IsTail(f) -> "leaving"
                        [] OTHER -> @]

ReceiveErrors(x, f) ==
  IF \/ x.state \in {"empty", "leaving"} /\ ~IsHead(f)
     \/ x.state \in {"filling", "cut_through"} /\ IsHead(f)
     \/ x.state = "full"
     \/ x.state = "shared" /\ (IsHead(f) \/ IsTail(f))
  THEN {"flit received in state " \o x.state} ELSE {}

-----------------------------------------------------------------------------
(* _NextInterestingChannel.  x is an input or a multi-queue.               *)

Ready(x) == x.state \in {"filling", "full"}

\* The packet begins to leave.
Leave(x) == [x EXCEPT !.state = IF @ = "full" THEN "leaving" ELSE "cut_through"]

Avail(o) == ~output[o].matched /\ output[o].frame = <<>>

\* _InputForOutput: any that prefers the output.
InputsFor(ins, o) == {i \in Channels : Ready(ins[i]) /\ o \in Head(ins[i].frame).route}

\* _MultiQueueForOutput: the oldest that prefers the output; if none does and all of them
\* hold heads, any.
QueuesFor(o) ==
  LET prefer == {m \in Multi : multi[m].match = None /\ Ready(multi[m]) /\ o \in Head(multi[m].queue).route}
      place(m) == CHOOSE k \in DOMAIN age : age[k] = m
  IN IF prefer # {} THEN {m \in prefer : \A other \in prefer : place(m) <= place(other)}
     ELSE IF o # NodePort /\ \A m \in Multi : multi[m].state \in {"full", "filling", "shared"}
          THEN {m \in Multi : Ready(multi[m])} ELSE {}

Interesting(ins, c) ==
  \/ Avail(c) /\ QueuesFor(c) \cup InputsFor(ins, c) # {}
  \/ ins[c].state = "full"

\* The first interesting channel from the current one on, or None.
Found(ins) ==
  LET turns == {k \in Channels : Interesting(ins, (cur + k) % Ports)}
  IN IF turns = {} THEN None ELSE (cur + CHOOSE k \in turns : \A j \in turns : k <= j) % Ports

\* The pairs that may be matched there: <<from a multi-queue, which queue or input>>.
Matches(ins, c) ==
  IF c = None \/ ~Avail(c) THEN {<<>>}
  ELSE IF QueuesFor(c) # {} THEN {<<TRUE, m>> : m \in QueuesFor(c)}
  ELSE IF InputsFor(ins, c) # {} THEN {<<FALSE, i>> : i \in InputsFor(ins, c)}
  ELSE {<<>>}

\* slip: a queue that is being filled is given again.
AvailQueueTwice ==
  LET free == {m \in Multi : Len(multi[m].queue) < BufferSize}
  IN IF free = {} THEN None ELSE CHOOSE m \in free : \A other \in free : m <= other
\* The multi-queue for a packet that stalls: _FindAvailMultiQueue.
AvailQueue ==
  LET free == {m \in Multi : Len(multi[m].queue) < BufferSize /\ ~multi[m].matched}
  IN IF free = {} THEN None ELSE CHOOSE m \in free : \A other \in free : m <= other

-----------------------------------------------------------------------------
(* _OutputAdvance                                                          *)

\* An input sends a flit when it is matched and has one, into a multi-queue if it is not full.
Advances(x) ==
  x.frame # <<>> /\ (x.out # None \/ (x.mq # None /\ Len(multi[x.mq].queue) < BufferSize))

Advanced(x) ==
  LET sent == [x EXCEPT !.frame = Tail(@)]
  IN IF ~IsTail(Head(x.frame)) THEN sent
     ELSE [sent EXCEPT !.state = CASE @ = "leaving" -> "empty" [] @ = "shared" -> "filling" [] OTHER -> @,
                       !.out = None, !.mq = None]

Store(x, f) ==
  [x EXCEPT !.queue = Append(@, f),
            !.matched = IF IsTail(f) THEN FALSE ELSE @,
            !.state = CASE @ = "empty"       /\ IsHead(f) -> "filling"
                        [] @ = "leaving"     /\ IsHead(f) -> "shared"
                        [] @ = "filling"     /\ IsTail(f) -> "full"
                        [] @ = "cut_through" /\ IsTail(f) -> "leaving"
                        [] OTHER -> @]

StoreErrors(x, f) ==
  IF \/ IsHead(f) /\ x.state \notin {"empty", "leaving"}
     \/ IsTail(f) /\ x.state \notin {"filling", "cut_through"}
  THEN {"flit stored in state " \o x.state} ELSE {}

Take(x) ==
  LET f == Head(x.queue)
      left == [x EXCEPT !.queue = Tail(@), !.match = IF IsTail(f) THEN None ELSE @]
  IN CASE IsHead(f) -> Leave(left)
       [] IsTail(f) -> [left EXCEPT !.state = CASE @ = "shared" -> "filling" [] @ = "leaving" -> "empty" [] OTHER -> @]
       [] OTHER -> left

TakeErrors(x) ==
  IF x.queue = <<>> THEN {"matched multi-queue is empty"}
  ELSE LET f == Head(x.queue)
       IN IF \/ IsHead(f) /\ ~Ready(x)
             \/ IsTail(f) /\ x.state \notin {"shared", "leaving"}
          THEN {"flit taken in state " \o x.state} ELSE {}

-----------------------------------------------------------------------------
(* A cycle.                                                                *)

\* _NextInterestingChannel once the match is drawn: the inputs and multi-queues, the current
\* channel, whether it stalls, and the multi-queue that its packet was given.
Matched(ins, match) ==
  LET c        == Found(ins)
      outOf    == [i \in Channels |-> IF match = <<FALSE, i>> THEN [Leave(ins[i]) EXCEPT !.out = c] ELSE ins[i]]
      routable == Ready(outOf[c]) /\ c # NodePort
      stall    == IF c = None THEN stalled ELSE routable
      at       == IF c = None THEN cur ELSE IF routable THEN c ELSE (c + 1) % Ports
      mq       == IF stall THEN AvailQueue ELSE None
  IN [input   |-> [i \in Channels |-> IF mq # None /\ i = at THEN [Leave(outOf[i]) EXCEPT !.mq = mq] ELSE outOf[i]],
      multi   |-> [m \in Multi |-> [multi[m] EXCEPT !.match = IF match = <<TRUE, m>> THEN c ELSE @,
                                                    !.matched = @ \/ m = mq]],
      out     |-> IF match = <<>> THEN None ELSE c,
      cur     |-> IF mq # None THEN (at + 1) % Ports ELSE at,
      stalled |-> stall /\ mq = None,
      errors  |-> IF mq # None /\ ~Ready(outOf[at]) THEN {"input without a packet led to a multi-queue"} ELSE {}]

\* The last flit was the n-th: how many flits of its packet have passed.
Under(n) == n % BufferSize

Senders(ins)   == {i \in Channels : Advances(ins[i])}
Into(ins, m)   == {i \in Senders(ins) : ins[i].mq = m}
Takers(queues) == {m \in Multi : queues[m].match # None /\ queues[m].queue # <<>>}

Stored(ins, queues) ==
  [m \in Multi |-> IF Into(ins, m) = {} THEN queues[m]
                   ELSE Store(queues[m], Head(ins[CHOOSE i \in Into(ins, m) : TRUE].frame))]

\* What the crossbar takes to an output.
Onto(ins, queues, o) ==
  {Head(ins[i].frame) : i \in {i \in Senders(ins) : ins[i].out = o}}
    \cup {Head(queues[m].queue) : m \in {m \in Takers(queues) : queues[m].match = o}}

\* slip: the last place of the next buffer is not used.
SendFlitSparing(x, crossing) ==
  LET frame == x.frame \o SetToSeq({[f EXCEPT !.route = {}] : f \in crossing})
      kept  == [x EXCEPT !.matched = @ /\ \A f \in crossing : ~IsTail(f)]
  IN IF frame # <<>> /\ x.count < BufferSize - 1
     THEN [out |-> [kept EXCEPT !.frame = Tail(frame), !.count = @ + 1], sent |-> Head(frame).n]
     ELSE [out |-> [kept EXCEPT !.frame = frame], sent |-> 0]
\* _SendFlits: the output, and the flit that it sends, if any.
SendFlit(x, crossing) ==
  LET frame == x.frame \o SetToSeq({[f EXCEPT !.route = {}] : f \in crossing})
      kept  == [x EXCEPT !.matched = @ /\ \A f \in crossing : ~IsTail(f)]
  IN IF frame # <<>> /\ x.count < BufferSize
     THEN [out |-> [kept EXCEPT !.frame = Tail(frame), !.count = @ + 1], sent |-> Head(frame).n]
     ELSE [out |-> [kept EXCEPT !.frame = frame], sent |-> 0]

\* What follows from what came in, once a match is made (x) and flits are stored (queues).
Moved(x, queues, credit) ==
  LET ins  == x.input
      new  == SetToSeq({m \in Multi : \E i \in Into(ins, m) : IsHead(Head(ins[i].frame))})
      sent == [o \in Channels |->
                 SendFlit([output[o] EXCEPT !.count = IF credit[o] THEN @ - 1 ELSE @, !.matched = @ \/ o = x.out],
                          Onto(ins, queues, o))]
  IN /\ input' = [i \in Channels |-> IF i \in Senders(ins) THEN Advanced(ins[i]) ELSE ins[i]]
     /\ multi' = [m \in Multi |-> IF m \in Takers(queues) THEN Take(queues[m]) ELSE queues[m]]
     /\ age' = SelectSeq(SelectSeq(age, LAMBDA m : m \notin ToSet(new)) \o new, LAMBDA m : multi'[m].queue # <<>>)
     /\ \E s \in {sent} :
          /\ output' = [o \in Channels |-> s[o].out]
          /\ going' = [o \in Channels |-> IF s[o].sent = 0 THEN going[o] ELSE Under(s[o].sent)]
     /\ freed' = [i \in Channels |-> IF i \in Senders(ins) THEN Under(Head(ins[i].frame).n) ELSE freed[i]]
     /\ cur' = x.cur /\ stalled' = x.stalled

Errors(offer, x, queues) ==
  UNION {ReceiveErrors(input[i], offer[i][1]) : i \in {i \in Channels : offer[i] # <<>>}}
  \cup x.errors
  \cup UNION {UNION {StoreErrors(x.multi[m], Head(x.input[i].frame)) : i \in Into(x.input, m)} : m \in Multi}
  \cup UNION {TakeErrors(queues[m]) : m \in {m \in Multi : queues[m].match # None}}
  \cup {"two flits on one output" : o \in {o \in Channels : Cardinality(Onto(x.input, queues, o)) > 1}}

OneEach(sets) == {f \in [DOMAIN sets -> UNION {sets[x] : x \in DOMAIN sets}] : \A x \in DOMAIN sets : f[x] \in sets[x]}

\* (A set of one value has it worked out once.)
Step ==
  /\ broken = {}
  /\ \E offer \in OneEach([i \in Channels |-> Incoming(i)]) :
       /\ coming' = [i \in Channels |-> IF offer[i] = <<>> THEN coming[i] ELSE Under(offer[i][1].n)]
       /\ \E received \in {[i \in Channels |-> IF offer[i] = <<>> THEN input[i] ELSE Receive(input[i], offer[i][1])]} :
          \E match \in Matches(received, Found(received)) :
          \E x \in {Matched(received, match)} :
          \E queues \in {Stored(x.input, x.multi)} :
            /\ \E credit \in OneEach([o \in Channels |-> Credits(o)]) :
                 /\ freeing' = [o \in Channels |-> IF credit[o] THEN Under(freeing[o] + 1) ELSE freeing[o]]
                 /\ Moved(x, queues, credit)
            /\ broken' = Errors(offer, x, queues)

Spec == Init /\ [][Step]_vars

-----------------------------------------------------------------------------
\* Error() is never called, the states of the buffers are true: they say where heads and tails
\* are (the comments on eQState), and what is matched is so with one.
Holds(state, q) ==
  LET heads == {k \in DOMAIN q : IsHead(q[k])}
      tails == {k \in DOMAIN q : IsTail(q[k])}
  IN CASE state = "empty"       -> q = <<>>
       [] state = "filling"     -> heads = {1} /\ tails = {}
       [] state = "full"        -> heads = {1} /\ tails = {BufferSize} /\ Len(q) = BufferSize
       [] state = "leaving"     -> heads = {} /\ tails = {Len(q)}
       [] state = "cut_through" -> heads = {} /\ tails = {}
       [] state = "shared"      -> \E k \in 1 .. Len(q) - 1 : tails = {k} /\ heads = {k + 1}

MatchedOnce ==
  /\ \A o \in Channels :
       Cardinality({i \in Channels : input[i].out = o}) + Cardinality({m \in Multi : multi[m].match = o})
         = IF output[o].matched THEN 1 ELSE 0
  /\ \A m \in Multi :
       Cardinality({i \in Channels : input[i].mq = m}) = IF multi[m].matched THEN 1 ELSE 0

BuffersAsStated ==
  /\ broken = {}
  /\ \A i \in Channels : Holds(input[i].state, input[i].frame)
  /\ \A m \in Multi : Holds(multi[m].state, multi[m].queue)
  /\ MatchedOnce

\* The router keeps to what it relies on: once begun, a packet comes in, is freed at the input,
\* leaves and is freed behind the output flit by flit without a pause, when the neighbours do
\* not pause unless they have to.
GoesOn(n, next) == \A c \in Channels : n[c] > 0 => next[c] = Under(n[c] + 1)

AllGoOn == GoesOn(coming, coming') /\ GoesOn(freed, freed') /\ GoesOn(going, going') /\ GoesOn(freeing, freeing')

Unbroken == [][AllGoOn]_vars

=============================================================================
