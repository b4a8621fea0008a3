------------------------- MODULE ChaosRouterProofs --------------------------
(***************************************************************************)
(* The chaos router never calls Error(), says of every buffer what it      *)
(* holds, and passes packets on without a pause, for any number of ports   *)
(* and queues and packets of any length.                                   *)
(*                                                                         *)
(* A buffer is described by how many flits of the packet at its end have   *)
(* come in and how many of the packet at its front have gone: these two    *)
(* numbers and the state give its length and its contents.  For inputs     *)
(* they are coming and freed.  A multi-queue gets what its input has sent, *)
(* and an output what its input or multi-queue has sent, so that the       *)
(* numbers of one buffer are those of the next.                            *)
(***************************************************************************)
EXTENDS ChaosRouter, FiniteSetTheorems, WellFoundedInduction, TLAPS

Flit   == [n : 1 .. BufferSize, from : Channels, route : SUBSET Channels]
Moving == {"leaving", "cut_through", "shared"}
States == {"empty", "filling", "full"} \cup Moving
Partly == 0 .. BufferSize - 1

InputState  == [state : States, frame : Seq(Flit), out : Channels \cup {None}, mq : Multi \cup {None}]
QueueState  == [state : States, queue : Seq(Flit), match : Channels \cup {None}, matched : BOOLEAN]
OutputState == [frame : Seq(Flit), count : 0 .. BufferSize, matched : BOOLEAN]

\* The number of the k-th flit of a buffer when g flits of its first packet have gone.
Number(g, k) == IF g + k <= BufferSize THEN g + k ELSE g + k - BufferSize

\* What a buffer in a state holds when g flits of the first packet have gone and c flits of
\* the last one have come.
Book(state, q, g, c) ==
  /\ q \in Seq(Flit) /\ g \in Partly /\ c \in Partly
  /\ \A k \in 1 .. Len(q) : q[k].n = Number(g, k)
  /\ \/ state = "empty"       /\ g = 0 /\ c = 0 /\ Len(q) = 0
     \/ state = "filling"     /\ g = 0 /\ c > 0 /\ Len(q) = c
     \/ state = "full"        /\ g = 0 /\ c = 0 /\ Len(q) = BufferSize
     \/ state = "leaving"     /\ c = 0 /\ Len(q) = BufferSize - g
     \/ state = "cut_through" /\ c > 0 /\ c >= g /\ Len(q) = c - g
     \/ state = "shared"      /\ c > 0 /\ c <= g /\ Len(q) = BufferSize - g + c

\* A packet has begun to leave in these states only; one that comes in behind it is shorter
\* than what has gone.
Begun(state, g)      == g > 0 <=> state \in Moving
Settled(state, g, c) == Begun(state, g) /\ (state = "shared" => c < g)

\* The numbers taken and stored of a multi-queue.
QueueBook(z, t, s) ==
  /\ Book(z.state, z.queue, t, s)
  /\ z.match # None <=> t > 0
  /\ z.matched <=> s > 0

\* k flits have crossed to an output, which has sent g of them; h credits have come.
OutputBook(y, g, h, k) ==
  /\ g \in Partly /\ h \in Partly /\ k \in 0 .. BufferSize
  /\ Len(y.frame) = k - g
  /\ \A j \in 1 .. Len(y.frame) : y.frame[j].n = g + j
  /\ y.count = g - h \/ y.count = g - h + BufferSize

\* Who sends to a queue, and who to an output.
QueueLinks(ins, queues, gone, stored) ==
  /\ \A i \in Channels : ins[i].mq # None => queues[ins[i].mq].matched /\ stored[ins[i].mq] = gone[i]
  /\ \A i, j \in Channels : ins[i].mq # None /\ ins[i].mq = ins[j].mq => i = j
  /\ \A m \in Multi : queues[m].matched => \E i \in Channels : ins[i].mq = m

OutputLinks(ins, queues, busy, gone, taken, crossed) ==
  /\ \A i \in Channels : ins[i].out # None => busy[ins[i].out] /\ crossed[ins[i].out] = gone[i]
  /\ \A m \in Multi : queues[m].match # None => busy[queues[m].match] /\ crossed[queues[m].match] = taken[m]
  /\ \A i, j \in Channels : ins[i].out # None /\ ins[i].out = ins[j].out => i = j
  /\ \A m, l \in Multi : queues[m].match # None /\ queues[m].match = queues[l].match => m = l
  /\ \A i \in Channels, m \in Multi : ins[i].out # None => ins[i].out # queues[m].match
  /\ \A o \in Channels : busy[o] => \/ \E i \in Channels : ins[i].out = o
                                    \/ \E m \in Multi : queues[m].match = o

TypeOK ==
  /\ input \in [Channels -> InputState]
  /\ multi \in [Multi -> QueueState]
  /\ output \in [Channels -> OutputState]
  /\ cur \in Channels /\ stalled \in BOOLEAN
  /\ coming \in [Channels -> Partly] /\ freed \in [Channels -> Partly]
  /\ going \in [Channels -> Partly] /\ freeing \in [Channels -> Partly]

InputsRight ==
  \A i \in Channels :
    /\ Book(input[i].state, input[i].frame, freed[i], coming[i])
    /\ Settled(input[i].state, freed[i], coming[i])
    /\ coming[i] > 0 => i \in Sources
    /\ freed[i] > 0 <=> input[i].out # None \/ input[i].mq # None
    /\ input[i].out = None \/ input[i].mq = None

QueuesRight(taken, stored) ==
  \A m \in Multi :
    QueueBook(multi[m], taken[m], stored[m]) /\ Settled(multi[m].state, taken[m], stored[m])

OutputsRight(crossed) ==
  \A o \in Channels :
    /\ OutputBook(output[o], going[o], freeing[o], crossed[o])
    /\ freeing[o] > 0 => output[o].count > 0
    /\ ~output[o].matched => crossed[o] \in {0, BufferSize}

Busy == [o \in Channels |-> output[o].matched]

ChaosInv ==
  /\ TypeOK
  /\ broken = {}
  /\ InputsRight
  /\ stalled => Ready(input[cur])
  /\ \E taken \in [Multi -> Partly], stored \in [Multi -> Partly], crossed \in [Channels -> 0 .. BufferSize] :
       /\ QueuesRight(taken, stored)
       /\ OutputsRight(crossed)
       /\ QueueLinks(input, multi, freed, stored)
       /\ OutputLinks(input, multi, Busy, freed, taken, crossed)

-----------------------------------------------------------------------------
(* Numbers, and sequences of one element.                                  *)

\* The constants.
LEMMA Sizes ==
  ASSUME ChaosRouterAssumption
  PROVE  /\ Ports \in Nat \ {0} /\ Queues \in Nat /\ BufferSize \in Nat \ {0, 1}
         /\ None \notin Channels /\ None \notin Multi /\ Channels \subseteq Nat
         /\ Routes \subseteq SUBSET Channels
  BY DEF ChaosRouterAssumption, None, Channels, Multi

\* After the last flit of a packet none is under way.
LEMMA Underway ==
  ASSUME ChaosRouterAssumption, NEW n \in 1 .. BufferSize
  PROVE  Under(n) = (IF n = BufferSize THEN 0 ELSE n) /\ Under(n) \in Partly
<1>1. BufferSize \in Nat \ {0, 1}
  BY Sizes
<1>2. BufferSize % BufferSize = 0
  BY <1>1
<1>3. n # BufferSize => n % BufferSize = n
  BY <1>1
<1> QED BY <1>1, <1>2, <1>3 DEF Under, Partly

\* No flit, or one, crosses to an output.
LEMMA SeqOfFew ==
  /\ SetToSeq({}) = <<>>
  /\ \A x : SetToSeq({x}) = <<x>>
<1>1. SetToSeq({}) = <<>>
  <2>1. Cardinality({}) = 0
    BY FS_EmptySet
  <2>2. \A f \in [1 .. 0 -> {}] : f = <<>>
    <3> TAKE f \in [1 .. 0 -> {}]
    <3>1. f = [k \in 1 .. 0 |-> f[k]] /\ 1 .. 0 = {}
      OBVIOUS
    <3>2. f \in Seq({}) /\ Len(f) = 0
      BY <3>1
    <3> QED BY <3>2
  <2>3. <<>> \in [1 .. 0 -> {}] /\ IsInjective(<<>>)
    BY DEF IsInjective
  <2> QED BY <2>1, <2>2, <2>3 DEF SetToSeq
<1>2. ASSUME NEW x PROVE SetToSeq({x}) = <<x>>
  <2>1. Cardinality({x}) = 1
    BY FS_Singleton
  <2>2. \A f \in [1 .. 1 -> {x}] : f = <<x>>
    <3> TAKE f \in [1 .. 1 -> {x}]
    <3>1. DOMAIN f = 1 .. 1 /\ f[1] = x /\ f = [k \in 1 .. 1 |-> f[k]]
      OBVIOUS
    <3> QED BY <3>1
  <2>3. <<x>> \in [1 .. 1 -> {x}] /\ IsInjective(<<x>>)
    BY DEF IsInjective
  <2> QED BY <2>1, <2>2, <2>3 DEF SetToSeq
<1> QED BY <1>1, <1>2

-----------------------------------------------------------------------------
(* Buffers.                                                                *)

\* The state of a buffer that gets a flit, and of one that a flit leaves.
Filled(state, f) ==
  CASE state = "empty"       /\ IsHead(f) -> "filling"
    [] state = "filling"     /\ IsTail(f) -> "full"
    [] state = "leaving"     /\ IsHead(f) -> "shared"
    [] state = "cut_through" /\ IsTail(f) -> "leaving"
    [] OTHER -> state

Emptied(state) == CASE state = "leaving" -> "empty" [] state = "shared" -> "filling" [] OTHER -> state

\* The first of a sequence, and the rest.
LEMMA HeadTail ==
  ASSUME NEW T, NEW q \in Seq(T), q # <<>>
  PROVE  /\ Head(q) \in T /\ Tail(q) \in Seq(T) /\ Len(q) \in Nat \ {0}
         /\ Len(Tail(q)) = Len(q) - 1 /\ Head(q) = q[1]
         /\ \A k \in 1 .. Len(q) - 1 : Tail(q)[k] = q[k + 1]
OBVIOUS

\* A flit that continues the last packet of a buffer with room for it.
LEMMA Added ==
  ASSUME ChaosRouterAssumption,
         NEW state, NEW q, NEW g, NEW c, Book(state, q, g, c), state = "shared" => c < g,
         NEW f \in Flit, f.n = c + 1, Len(q) < BufferSize
  PROVE  /\ Book(Filled(state, f), Append(q, f), g, Under(c + 1))
         /\ Filled(state, f) \in Moving <=> state \in Moving
         /\ state \in {"empty", "leaving"} <=> IsHead(f)
         /\ IsTail(f) => state \in {"filling", "cut_through"}
         /\ state # "full" /\ Under(c + 1) = IF IsTail(f) THEN 0 ELSE c + 1
<1>1. BufferSize \in Nat \ {0, 1}
  BY Sizes
<1>2. /\ q \in Seq(Flit) /\ g \in 0 .. BufferSize - 1 /\ c \in 0 .. BufferSize - 1
      /\ \A k \in 1 .. Len(q) : q[k].n = Number(g, k)
      /\ \/ state = "empty"       /\ g = 0 /\ c = 0 /\ Len(q) = 0
         \/ state = "filling"     /\ g = 0 /\ c > 0 /\ Len(q) = c
         \/ state = "full"        /\ g = 0 /\ c = 0 /\ Len(q) = BufferSize
         \/ state = "leaving"     /\ c = 0 /\ Len(q) = BufferSize - g
         \/ state = "cut_through" /\ c > 0 /\ c >= g /\ Len(q) = c - g
         \/ state = "shared"      /\ c > 0 /\ c <= g /\ Len(q) = BufferSize - g + c
  BY DEF Book, Partly
<1>3. Under(c + 1) = (IF c + 1 = BufferSize THEN 0 ELSE c + 1) /\ Under(c + 1) \in Partly
  BY <1>1, <1>2, Underway
<1>4. (IsHead(f) <=> c = 0) /\ (IsTail(f) <=> c + 1 = BufferSize)
  BY <1>1, <1>2 DEF IsHead, IsTail
<1>5. /\ Append(q, f) \in Seq(Flit) /\ Len(Append(q, f)) = Len(q) + 1 /\ Len(q) \in Nat
      /\ \A k \in 1 .. Len(q) : Append(q, f)[k] = q[k]
      /\ Append(q, f)[Len(q) + 1] = f
  BY <1>2
<1>6. Number(g, Len(q) + 1) = c + 1
  BY <1>1, <1>2 DEF Number
<1>7. \A k \in 1 .. Len(Append(q, f)) : Append(q, f)[k].n = Number(g, k)
  <2> TAKE k \in 1 .. Len(Append(q, f))
  <2>1. k \in 1 .. Len(q) \/ k = Len(q) + 1
    BY <1>5
  <2> QED BY <1>2, <1>5, <1>6, <2>1
<1>8. state # "full" /\ (state \in {"empty", "leaving"} <=> c = 0)
  BY <1>1, <1>2
<1>9. c + 1 = BufferSize => state \in {"filling", "cut_through"}
  BY <1>1, <1>2
<1>10. Filled(state, f) = IF state = "empty" THEN "filling"
                          ELSE IF state = "leaving" THEN "shared"
                          ELSE IF c + 1 # BufferSize THEN state
                          ELSE IF state = "filling" THEN "full" ELSE "leaving"
  BY <1>4, <1>8, <1>9 DEF Filled
<1> DEFINE s == Filled(state, f)
           l == Len(Append(q, f))
           d == Under(c + 1)
<1>11. \/ s = "empty"       /\ g = 0 /\ d = 0 /\ l = 0
       \/ s = "filling"     /\ g = 0 /\ d > 0 /\ l = d
       \/ s = "full"        /\ g = 0 /\ d = 0 /\ l = BufferSize
       \/ s = "leaving"     /\ d = 0 /\ l = BufferSize - g
       \/ s = "cut_through" /\ d > 0 /\ d >= g /\ l = d - g
       \/ s = "shared"      /\ d > 0 /\ d <= g /\ l = BufferSize - g + d
  BY <1>1, <1>2, <1>3, <1>5, <1>8, <1>9, <1>10
<1>12. s \in Moving <=> state \in Moving
  BY <1>2, <1>9, <1>10 DEF Moving
<1>13. Book(s, Append(q, f), g, d)
  BY <1>2, <1>3, <1>5, <1>7, <1>11 DEF Book, Partly
<1> QED BY <1>3, <1>4, <1>8, <1>9, <1>12, <1>13

\* A flit of a packet that leaves.
LEMMA Removed ==
  ASSUME ChaosRouterAssumption,
         NEW state \in Moving, NEW q, NEW g, NEW c, Book(state, q, g, c), q # <<>>,
         NEW s, s = IF g + 1 = BufferSize THEN Emptied(state) ELSE state
  PROVE  /\ Head(q) \in Flit /\ Head(q).n = g + 1
         /\ Book(s, Tail(q), Under(g + 1), c)
         /\ Settled(s, Under(g + 1), c)
         /\ Under(g + 1) = IF g + 1 = BufferSize THEN 0 ELSE g + 1
         /\ g + 1 = BufferSize => state \in {"leaving", "shared"}
<1>1. BufferSize \in Nat \ {0, 1}
  BY Sizes
<1>2. /\ q \in Seq(Flit) /\ g \in 0 .. BufferSize - 1 /\ c \in 0 .. BufferSize - 1
      /\ \A k \in 1 .. Len(q) : q[k].n = Number(g, k)
      /\ \/ state = "leaving"     /\ c = 0 /\ Len(q) = BufferSize - g
         \/ state = "cut_through" /\ c > 0 /\ c >= g /\ Len(q) = c - g
         \/ state = "shared"      /\ c > 0 /\ c <= g /\ Len(q) = BufferSize - g + c
  BY DEF Book, Partly, Moving
<1>3. Under(g + 1) = (IF g + 1 = BufferSize THEN 0 ELSE g + 1) /\ Under(g + 1) \in Partly
  BY <1>1, <1>2, Underway
<1>4. /\ Tail(q) \in Seq(Flit) /\ Len(q) \in Nat \ {0} /\ Len(Tail(q)) = Len(q) - 1
      /\ \A k \in 1 .. Len(Tail(q)) : Tail(q)[k] = q[k + 1] /\ k + 1 \in 1 .. Len(q)
      /\ Head(q) = q[1] /\ Head(q) \in Flit
  BY <1>2, HeadTail
<1>5. Head(q).n = g + 1
  BY <1>1, <1>2, <1>4 DEF Number
<1>6. g + 1 = BufferSize => state \in {"leaving", "shared"}
  BY <1>1, <1>2, <1>4
<1>7. s = IF g + 1 # BufferSize THEN state ELSE IF state = "leaving" THEN "empty" ELSE "filling"
  BY <1>6 DEF Emptied
<1> DEFINE d == Under(g + 1)
           l == Len(Tail(q))
<1>8. d = (IF g + 1 = BufferSize THEN 0 ELSE g + 1) /\ l = Len(q) - 1
  BY <1>3, <1>4
<1> HIDE DEF d, l
<1>9. \A k \in 1 .. l : q[k + 1].n = Number(d, k)
  <2> SUFFICES ASSUME NEW k \in 1 .. l PROVE q[k + 1].n = Number(d, k)
    OBVIOUS
  <2>1. k \in Nat \ {0} /\ k + 1 \in 1 .. Len(q) /\ k <= BufferSize
    BY <1>1, <1>2, <1>4, <1>8
  <2>2. q[k + 1].n = Number(g, k + 1)
    BY <1>2, <2>1
  <2>3. CASE g + 1 = BufferSize
    BY <1>1, <1>2, <1>8, <2>1, <2>2, <2>3 DEF Number
  <2>4. CASE g + 1 # BufferSize
    BY <1>1, <1>2, <1>8, <2>1, <2>2, <2>4 DEF Number
  <2> QED BY <2>3, <2>4
<1>10. \/ s = "empty"       /\ d = 0 /\ c = 0 /\ l = 0
       \/ s = "filling"     /\ d = 0 /\ c > 0 /\ l = c
       \/ s = "full"        /\ d = 0 /\ c = 0 /\ l = BufferSize
       \/ s = "leaving"     /\ c = 0 /\ l = BufferSize - d
       \/ s = "cut_through" /\ c > 0 /\ c >= d /\ l = c - d
       \/ s = "shared"      /\ c > 0 /\ c <= d /\ l = BufferSize - d + c
  <2>1. CASE state = "leaving"
    <3>1. c = 0 /\ Len(q) = BufferSize - g
      BY <1>2, <2>1
    <3> QED BY <1>1, <1>2, <1>4, <1>7, <1>8, <2>1, <3>1
  <2>2. CASE state = "cut_through"
    <3>1. c > 0 /\ c >= g /\ Len(q) = c - g
      BY <1>2, <2>2
    <3> QED BY <1>1, <1>2, <1>4, <1>7, <1>8, <2>2, <3>1
  <2>3. CASE state = "shared"
    <3>1. c > 0 /\ c <= g /\ Len(q) = BufferSize - g + c
      BY <1>2, <2>3
    <3> QED BY <1>1, <1>2, <1>4, <1>7, <1>8, <2>3, <3>1
  <2> QED BY <2>1, <2>2, <2>3 DEF Moving
<1>11. (d > 0 <=> s \in Moving) /\ (s = "shared" => c < d)
  <2>1. CASE g + 1 = BufferSize
    BY <1>1, <1>2, <1>4, <1>7, <1>8, <2>1 DEF Moving
  <2>2. CASE g + 1 # BufferSize
    BY <1>1, <1>2, <1>4, <1>7, <1>8, <2>2 DEF Moving
  <2> QED BY <2>1, <2>2
<1>12. \A k \in 1 .. l : Tail(q)[k].n = Number(d, k)
  BY <1>4, <1>9 DEF l
<1>13. Book(s, Tail(q), d, c)
  BY <1>2, <1>3, <1>4, <1>10, <1>12 DEF Book, d, l
<1> QED BY <1>3, <1>4, <1>5, <1>6, <1>11, <1>13 DEF Settled, Begun, d

\* A buffer that gets a flit, if its last packet is not whole one, has one to pass on.
Gets(state, q, c, s, r, d) ==
  \/ c = 0 /\ s = state /\ r = q /\ d = c
  \/ \E f \in Flit : f.n = c + 1 /\ Len(q) < BufferSize /\ s = Filled(state, f) /\ r = Append(q, f) /\ d = Under(c + 1)

\* There is room for the rest of a packet.
LEMMA Room ==
  ASSUME ChaosRouterAssumption, NEW state, NEW q, NEW g, NEW c, Book(state, q, g, c), Settled(state, g, c), c > 0
  PROVE  Len(q) < BufferSize
BY Sizes DEF Book, Settled, Partly

\* What a buffer holds that has got a flit, or did not have to.
LEMMA Got ==
  ASSUME ChaosRouterAssumption, NEW state, NEW q, NEW g, NEW c, Book(state, q, g, c), Settled(state, g, c),
         NEW s, NEW r, NEW d, Gets(state, q, c, s, r, d)
  PROVE  /\ Book(s, r, g, d) /\ Begun(s, g)
         /\ state \in {"filling", "full"} => s \in {"filling", "full"}
         /\ g > 0 \/ state \in {"filling", "full"} => r # <<>>
<1>1. BufferSize \in Nat \ {0, 1}
  BY Sizes
<1>2. Book(s, r, g, d) /\ (s \in Moving <=> state \in Moving)
  <2>1. CASE c = 0 /\ s = state /\ r = q /\ d = c
    BY <2>1
  <2>2. ASSUME NEW f \in Flit, f.n = c + 1, Len(q) < BufferSize,
               s = Filled(state, f), r = Append(q, f), d = Under(c + 1)
        PROVE  Book(s, r, g, d) /\ (s \in Moving <=> state \in Moving)
    <3>1. state = "shared" => c < g
      BY DEF Settled
    <3> QED BY <2>2, <3>1, Added
  <2> QED BY <2>1, <2>2 DEF Gets
<1>3. Begun(s, g)
  BY <1>2 DEF Settled, Begun
<1>4. state \in {"filling", "full"} => s \in {"filling", "full"}
  <2>1. ASSUME NEW f \in Flit, state \in {"filling", "full"}
        PROVE  Filled(state, f) \in {"filling", "full"}
    BY <2>1 DEF Filled
  <2> QED BY <2>1 DEF Gets
<1>5. g > 0 \/ state \in {"filling", "full"} => r # <<>>
  <2>1. CASE c = 0 /\ s = state /\ r = q /\ d = c
    <3>1. q = <<>> => Len(q) = 0
      OBVIOUS
    <3>2. g > 0 => state \in Moving
      BY DEF Settled, Begun, Book, Partly
    <3> QED BY <1>1, <2>1, <3>1, <3>2 DEF Book, Partly, Moving
  <2>2. ASSUME NEW f \in Flit, r = Append(q, f) PROVE r # <<>>
    BY <2>2 DEF Book
  <2> QED BY <2>1, <2>2 DEF Gets
<1> QED BY <1>2, <1>3, <1>4, <1>5

-----------------------------------------------------------------------------
(* ReadInputs.                                                             *)

\* An input that is read, and its packet's number.
Read(i, offer)  == IF offer = <<>> THEN input[i] ELSE Receive(input[i], offer[1])
Heard(i, offer) == IF offer = <<>> THEN coming[i] ELSE Under(offer[1].n)

\* A flit comes in where there is room for it, and a packet that has begun goes on.
LEMMA Offered ==
  ASSUME ChaosRouterAssumption, TypeOK, InputsRight, NEW i \in Channels, NEW offer \in Incoming(i)
  PROVE  /\ offer = <<>> => coming[i] = 0
         /\ offer # <<>> => /\ offer[1] \in Flit /\ offer[1].n = coming[i] + 1
                            /\ Len(input[i].frame) < BufferSize /\ i \in Sources
<1>1. BufferSize \in Nat \ {0, 1} /\ coming[i] \in 0 .. BufferSize - 1 /\ Routes \subseteq SUBSET Channels
  BY Sizes DEF TypeOK, Partly
<1>2. /\ Book(input[i].state, input[i].frame, freed[i], coming[i])
      /\ Settled(input[i].state, freed[i], coming[i])
      /\ coming[i] > 0 => i \in Sources
  BY DEF InputsRight
<1>3. coming[i] > 0 => Len(input[i].frame) < BufferSize
  BY <1>2, Room
<1>4. Len(input[i].frame) \in Nat /\ Len(input[i].frame) <= BufferSize
  <2>1. input[i].frame \in Seq(Flit)
    BY <1>2 DEF Book
  <2> QED BY <1>1, <1>2, <2>1 DEF Book, Partly
<1> DEFINE flit(n, route) == <<[n |-> n, from |-> i, route |-> route]>>
<1>5. CASE i \notin Sources \/ Len(input[i].frame) = BufferSize
  <2>1. offer = <<>>
    BY <1>5 DEF Incoming
  <2> QED BY <1>1, <1>2, <1>3, <1>5, <2>1
<1>6. CASE ~(i \notin Sources \/ Len(input[i].frame) = BufferSize) /\ coming[i] > 0
  <2>1. offer = flit(coming[i] + 1, {})
    BY <1>6 DEF Incoming
  <2> QED BY <1>1, <1>4, <1>6, <2>1 DEF Flit
<1>7. CASE ~(i \notin Sources \/ Len(input[i].frame) = BufferSize) /\ ~(coming[i] > 0)
  <2>1. offer = <<>> \/ \E route \in Routes : offer = flit(1, route)
    BY <1>7 DEF Incoming
  <2> QED BY <1>1, <1>4, <1>7, <2>1 DEF Flit
<1> QED BY <1>5, <1>6, <1>7

\* What an input holds once it is read.
InputRead(i, y, c) ==
  /\ y \in InputState /\ c \in Partly
  /\ Book(y.state, y.frame, freed[i], c) /\ Begun(y.state, freed[i])
  /\ y.out = input[i].out /\ y.mq = input[i].mq
  /\ Ready(input[i]) => Ready(y)
  /\ freed[i] > 0 => y.frame # <<>>
  /\ coming[i] > 0 => c = Under(coming[i] + 1)
  /\ c > 0 => i \in Sources

\* Reading keeps an input's book, and finds nothing wrong.
LEMMA Reading ==
  ASSUME ChaosRouterAssumption, TypeOK, InputsRight, NEW i \in Channels, NEW offer \in Incoming(i)
  PROVE  /\ InputRead(i, Read(i, offer), Heard(i, offer))
         /\ offer # <<>> => ReceiveErrors(input[i], offer[1]) = {}
<1>1. BufferSize \in Nat \ {0, 1} /\ coming[i] \in 0 .. BufferSize - 1 /\ input[i] \in InputState
  BY Sizes DEF TypeOK, Partly
<1>2. /\ Book(input[i].state, input[i].frame, freed[i], coming[i])
      /\ Settled(input[i].state, freed[i], coming[i])
      /\ coming[i] > 0 => i \in Sources
  BY DEF InputsRight
<1> DEFINE x == input[i]
           y == Read(i, offer)
           c == Heard(i, offer)
<1>3. offer # <<>> => /\ offer[1] \in Flit /\ offer[1].n = coming[i] + 1
                      /\ Len(x.frame) < BufferSize /\ i \in Sources
  BY Offered
<1>4. offer = <<>> => coming[i] = 0 /\ y = x /\ c = coming[i]
  BY Offered DEF Read, Heard
<1>5. offer # <<>> =>
        /\ y = [state |-> Filled(x.state, offer[1]), frame |-> Append(x.frame, offer[1]), out |-> x.out, mq |-> x.mq]
        /\ c = Under(coming[i] + 1)
  BY <1>1, <1>3 DEF Read, Heard, Receive, Filled, InputState
<1> HIDE DEF y, c
<1>6. Gets(x.state, x.frame, coming[i], y.state, y.frame, c) /\ y.out = x.out /\ y.mq = x.mq
  BY <1>1, <1>3, <1>4, <1>5 DEF Gets
<1>7. /\ Book(y.state, y.frame, freed[i], c) /\ Begun(y.state, freed[i])
      /\ x.state \in {"filling", "full"} => y.state \in {"filling", "full"}
      /\ freed[i] > 0 => y.frame # <<>>
  BY <1>2, <1>6, Got
<1>8. y \in InputState /\ c \in Partly
  <2>1. y.state \in States /\ y.frame \in Seq(Flit) /\ c \in Partly
    BY <1>7 DEF Book, States, Moving
  <2>2. y = [state |-> y.state, frame |-> y.frame, out |-> y.out, mq |-> y.mq]
    BY <1>1, <1>4, <1>5 DEF InputState
  <2> QED BY <1>1, <1>6, <2>1, <2>2 DEF InputState
<1>9. InputRead(i, y, c)
  BY <1>1, <1>2, <1>3, <1>4, <1>5, <1>6, <1>7, <1>8 DEF InputRead, Ready
<1>10. ASSUME offer # <<>> PROVE ReceiveErrors(x, offer[1]) = {}
  <2>1. x.state = "shared" => coming[i] < freed[i]
    BY <1>2 DEF Settled
  <2>2. /\ x.state \in {"empty", "leaving"} <=> IsHead(offer[1])
        /\ IsTail(offer[1]) => x.state \in {"filling", "cut_through"}
        /\ x.state # "full"
    BY <1>2, <1>3, <1>10, <2>1, Added
  <2> QED BY <2>2 DEF ReceiveErrors
<1> QED BY <1>9, <1>10 DEF y, c

-----------------------------------------------------------------------------
(* _NextInterestingChannel.                                                *)

\* A set of natural numbers has a least element.
LEMMA LeastOne ==
  ASSUME NEW T \in SUBSET Nat, T # {}
  PROVE  \E x \in T : \A y \in T : x <= y
<1> DEFINE R == OpToRel(<, Nat)
<1>1. IsWellFoundedOn(R, Nat)
  BY NatLessThanWellFounded
<1>2. \A x, y \in Nat : <<x, y>> \in R <=> x < y
  BY DEF OpToRel
<1> HIDE DEF R
<1>3. PICK x \in T : \A y \in T : ~ (<<y, x>> \in R)
  BY <1>1, WFMin
<1>4. \A y \in T : ~ (y < x)
  BY <1>2, <1>3
<1> QED BY <1>3, <1>4

\* The channel found is one, or None.
LEMMA FoundOne ==
  ASSUME ChaosRouterAssumption, cur \in Channels, NEW ins
  PROVE  Found(ins) \in Channels \cup {None}
<1> DEFINE turns == {k \in Channels : Interesting(ins, (cur + k) % Ports)}
           k == CHOOSE k \in turns : \A j \in turns : k <= j
<1>1. Found(ins) = IF turns = {} THEN None ELSE (cur + k) % Ports
  BY DEF Found
<1>2. turns \in SUBSET Nat /\ turns \subseteq Channels
  BY Sizes
<1> HIDE DEF turns
<1>3. ASSUME turns # {} PROVE k \in turns
  <2>1. \E x \in turns : \A y \in turns : x <= y
    BY <1>2, <1>3, LeastOne
  <2> QED BY <2>1
<1> HIDE DEF k
<1>4. ASSUME turns # {} PROVE (cur + k) % Ports \in Channels
  <2>1. k \in Nat /\ cur \in Nat /\ Ports \in Nat \ {0}
    BY <1>2, <1>3, <1>4, Sizes
  <2> QED BY <2>1 DEF Channels
<1> QED BY <1>1, <1>4

\* The queue for a packet that stalls has room and no other packet coming.
LEMMA AvailQueueIs ==
  ASSUME ChaosRouterAssumption
  PROVE  /\ AvailQueue \in Multi \cup {None}
         /\ AvailQueue # None => ~multi[AvailQueue].matched /\ Len(multi[AvailQueue].queue) < BufferSize
<1> DEFINE free == {m \in Multi : Len(multi[m].queue) < BufferSize /\ ~multi[m].matched}
           a == CHOOSE m \in free : \A other \in free : m <= other
<1>1. AvailQueue = IF free = {} THEN None ELSE a
  BY DEF AvailQueue
<1>2. free \in SUBSET Nat
  BY Sizes DEF Multi
<1>3. ASSUME free # {} PROVE a \in free
  <2> HIDE DEF free
  <2>1. \E x \in free : \A y \in free : x <= y
    BY <1>2, <1>3, LeastOne
  <2> QED BY <2>1
<1> QED BY <1>1, <1>3

\* A queue or an input that may be matched holds a packet that has not begun to leave.
LEMMA MatchIs ==
  ASSUME ChaosRouterAssumption, NEW ins, NEW c \in Channels \cup {None}, NEW match \in Matches(ins, c)
  PROVE  \/ match = <<>>
         \/ /\ c # None /\ Avail(c)
            /\ \/ \E m \in Multi : match = <<TRUE, m>> /\ Ready(multi[m])
               \/ \E i \in Channels : match = <<FALSE, i>> /\ Ready(ins[i])
<1>1. \A m \in QueuesFor(c) : m \in Multi /\ Ready(multi[m])
  BY DEF QueuesFor
<1>2. \A i \in InputsFor(ins, c) : i \in Channels /\ Ready(ins[i])
  BY DEF InputsFor
<1> QED BY <1>1, <1>2 DEF Matches

\* What is matched, once the match is drawn: input i or queue m to the output x.out, and the
\* input at to the multi-queue wq.  None stands for nothing.
Pairs(ins, x, i, m, at, wq) ==
  /\ i \in Channels \cup {None} /\ m \in Multi \cup {None}
  /\ at \in Channels \cup {None} /\ wq \in Multi \cup {None}
  /\ x.out \in Channels \cup {None}
  /\ x.out # None => Avail(x.out) /\ (i = None <=> m # None)
  /\ x.out = None => i = None /\ m = None
  /\ at # None <=> wq # None
  /\ at # None => at # i /\ Ready(ins[at])
  /\ i # None => Ready(ins[i])
  /\ m # None => Ready(multi[m])
  /\ wq # None => ~multi[wq].matched /\ Len(multi[wq].queue) < BufferSize

\* What that makes of the inputs and of the multi-queues.
PairedInput(y, j, i, out, at, wq) ==
  IF j = i THEN [Leave(y) EXCEPT !.out = out]
  ELSE IF j = at THEN [Leave(y) EXCEPT !.mq = wq] ELSE y
PairedQueue(z, l, m, out, wq) == [z EXCEPT !.match = IF l = m THEN out ELSE @, !.matched = @ \/ l = wq]

Paired(ins, x, i, m, at, wq) ==
  /\ Pairs(ins, x, i, m, at, wq)
  /\ x.input = [j \in Channels |-> PairedInput(ins[j], j, i, x.out, at, wq)]
  /\ x.multi = [l \in Multi |-> PairedQueue(multi[l], l, m, x.out, wq)]
  /\ x.cur \in Channels /\ x.stalled \in BOOLEAN
  /\ x.stalled => Ready(x.input[x.cur])
  /\ x.errors = {}

\* The match.
LEMMA Matching ==
  ASSUME ChaosRouterAssumption, cur \in Channels, stalled \in BOOLEAN, NEW ins,
         ins \in [Channels -> InputState], multi \in [Multi -> QueueState],
         stalled => Ready(ins[cur]), NEW match \in Matches(ins, Found(ins))
  PROVE  \E i, m, at, wq : Paired(ins, Matched(ins, match), i, m, at, wq)
<1> DEFINE c        == Found(ins)
           outOf    == [i \in Channels |-> IF match = <<FALSE, i>> THEN [Leave(ins[i]) EXCEPT !.out = c] ELSE ins[i]]
           routable == Ready(outOf[c]) /\ c # NodePort
           stall    == IF c = None THEN stalled ELSE routable
           here     == IF c = None THEN cur ELSE IF routable THEN c ELSE (c + 1) % Ports
           mq       == IF stall THEN AvailQueue ELSE None
           at       == IF mq = None THEN None ELSE here
           out      == IF match = <<>> THEN None ELSE c
           x        == Matched(ins, match)
<1>1. x = [input   |-> [j \in Channels |-> IF mq # None /\ j = here THEN [Leave(outOf[j]) EXCEPT !.mq = mq] ELSE outOf[j]],
           multi   |-> [l \in Multi |-> [multi[l] EXCEPT !.match = IF match = <<TRUE, l>> THEN c ELSE @,
                                                         !.matched = @ \/ l = mq]],
           out     |-> out,
           cur     |-> IF mq # None THEN (here + 1) % Ports ELSE here,
           stalled |-> stall /\ mq = None,
           errors  |-> IF mq # None /\ ~Ready(outOf[here]) THEN {"input without a packet led to a multi-queue"} ELSE {}]
  BY DEF Matched
<1> HIDE DEF x
<1> HIDE DEF c, outOf, routable, stall, here, mq, at, out
<1>19. /\ x.input = [j \in Channels |-> x.input[j]]
       /\ \A j \in Channels :
            x.input[j] = IF mq # None /\ j = here THEN [Leave(outOf[j]) EXCEPT !.mq = mq] ELSE outOf[j]
  BY <1>1
<1>21. /\ x.multi = [l \in Multi |-> x.multi[l]]
       /\ \A l \in Multi :
            x.multi[l] = [multi[l] EXCEPT !.match = IF match = <<TRUE, l>> THEN c ELSE @, !.matched = @ \/ l = mq]
  BY <1>1
<1>22. /\ x.out = out
       /\ x.cur = IF mq # None THEN (here + 1) % Ports ELSE here
       /\ x.stalled = (stall /\ mq = None)
       /\ x.errors = IF mq # None /\ ~Ready(outOf[here]) THEN {"input without a packet led to a multi-queue"} ELSE {}
  BY <1>1
<1> USE DEF c, outOf, routable, stall, here, mq, at, out
<1>2. c \in Channels \cup {None} /\ None \notin Channels /\ None \notin Multi /\ Ports \in Nat \ {0} /\ Channels \subseteq Nat
  BY FoundOne, Sizes
<1>3. \/ match = <<>>
      \/ /\ c # None /\ Avail(c)
         /\ \/ \E m \in Multi : match = <<TRUE, m>> /\ Ready(multi[m])
            \/ \E i \in Channels : match = <<FALSE, i>> /\ Ready(ins[i])
  BY <1>2, MatchIs
<1>4. /\ AvailQueue \in Multi \cup {None}
      /\ AvailQueue # None => ~multi[AvailQueue].matched /\ Len(multi[AvailQueue].queue) < BufferSize
  BY AvailQueueIs
<1>5. c # None => (c + 1) % Ports \in Channels
  BY <1>2 DEF Channels
<1>6. here \in Channels /\ (here + 1) % Ports \in Channels
  <2>1. here \in Channels
    BY <1>2, <1>5
  <2> HIDE DEF here
  <2> QED BY <1>2, <2>1 DEF Channels
<1>7. \A j \in Channels : ~Ready([Leave(ins[j]) EXCEPT !.out = c])
  <2> SUFFICES ASSUME NEW j \in Channels PROVE ~Ready([Leave(ins[j]) EXCEPT !.out = c])
    OBVIOUS
  <2>1. ins[j] \in InputState
    OBVIOUS
  <2>2. [Leave(ins[j]) EXCEPT !.out = c].state \in {"leaving", "cut_through"}
    BY <2>1 DEF Leave, InputState
  <2> QED BY <2>2 DEF Ready
<1>8. c = None => \A j \in Channels : outOf[j] = ins[j]
  <2>1. \A j : <<>> # <<FALSE, j>>
    OBVIOUS
  <2> HIDE DEF c
  <2> QED BY <1>3, <2>1
<1>9. stall => Ready(outOf[here])
  <2>1. CASE c = None
    BY <1>8, <2>1
  <2>2. CASE c # None
    BY <2>2
  <2> QED BY <2>1, <2>2
<1> HIDE DEF c, routable, stall, here
<1> DEFINE Drawn(i, m) == /\ i \in Channels \cup {None} /\ m \in Multi \cup {None}
                          /\ \A j \in Channels : match = <<FALSE, j>> <=> j = i
                          /\ \A l \in Multi : match = <<TRUE, l>> <=> l = m
                          /\ match = <<>> => i = None /\ m = None
                          /\ match # <<>> => c # None /\ Avail(c) /\ (i = None <=> m # None)
                          /\ i # None => Ready(ins[i])
                          /\ m # None => Ready(multi[m])
<1>10. PICK i, m : Drawn(i, m)
  <2>1. CASE match = <<>>
    <3>1. \A j \in Channels \cup Multi : match # <<FALSE, j>> /\ match # <<TRUE, j>>
      BY <2>1
    <3>2. Drawn(None, None)
      BY <1>2, <2>1, <3>1
    <3> HIDE DEF Drawn
    <3> QED BY <3>2
  <2>2. ASSUME NEW m \in Multi, match = <<TRUE, m>>, Ready(multi[m]), c # None, Avail(c)
        PROVE  \E i, k : Drawn(i, k)
    <3>1. \A l : (match = <<TRUE, l>> <=> l = m) /\ match # <<FALSE, l>> /\ match # <<>>
      BY <2>2
    <3>2. Drawn(None, m)
      BY <1>2, <2>2, <3>1
    <3> HIDE DEF Drawn
    <3> QED BY <3>2
  <2>3. ASSUME NEW i \in Channels, match = <<FALSE, i>>, Ready(ins[i]), c # None, Avail(c)
        PROVE  \E k, m : Drawn(k, m)
    <3>1. \A l : (match = <<FALSE, l>> <=> l = i) /\ match # <<TRUE, l>> /\ match # <<>>
      BY <2>3
    <3>2. Drawn(i, None)
      BY <1>2, <2>3, <3>1
    <3> HIDE DEF Drawn
    <3> QED BY <3>2
  <2> HIDE DEF Drawn
  <2> QED BY <1>3, <2>1, <2>2, <2>3
<1>11. \A j \in Channels : outOf[j] = IF j = i THEN [Leave(ins[j]) EXCEPT !.out = c] ELSE ins[j]
  BY <1>10
<1> HIDE DEF outOf
<1>12. mq # None => here # i /\ outOf[here] = ins[here]
  BY <1>6, <1>7, <1>9, <1>11
<1>13. mq \in Multi \cup {None} /\ (mq # None => ~multi[mq].matched /\ Len(multi[mq].queue) < BufferSize)
  BY <1>4
<1>14. Pairs(ins, x, i, m, at, mq)
  <2>1. x.out = out /\ out \in Channels \cup {None}
    BY <1>22, <1>2, <1>10
  <2>2. at \in Channels \cup {None} /\ (at # None <=> mq # None) /\ (at # None => at # i /\ Ready(ins[at]))
    BY <1>2, <1>6, <1>9, <1>12
  <2> HIDE DEF mq, at
  <2> QED BY <1>2, <1>10, <1>13, <2>1, <2>2 DEF Pairs
<1>15. x.input = [j \in Channels |-> PairedInput(ins[j], j, i, x.out, at, mq)]
  <2>1. \A j \in Channels :
          (IF mq # None /\ j = here THEN [Leave(outOf[j]) EXCEPT !.mq = mq] ELSE outOf[j])
            = PairedInput(ins[j], j, i, out, at, mq)
    <3> SUFFICES ASSUME NEW j \in Channels
                 PROVE  (IF mq # None /\ j = here THEN [Leave(outOf[j]) EXCEPT !.mq = mq] ELSE outOf[j])
                          = PairedInput(ins[j], j, i, out, at, mq)
      OBVIOUS
    <3>1. j = at <=> mq # None /\ j = here
      BY <1>2
    <3>2. j = i => out = c
      BY <1>2, <1>10
    <3> HIDE DEF mq, at, out
    <3> QED BY <1>11, <1>12, <3>1, <3>2 DEF PairedInput
  <2>2. x.out = out /\ x.input = [j \in Channels |-> x.input[j]]
    BY <1>19, <1>22
  <2>3. \A j \in Channels : x.input[j] = PairedInput(ins[j], j, i, out, at, mq)
    BY <1>19, <2>1
  <2> HIDE DEF mq, at, out
  <2> QED BY <2>2, <2>3
<1>16. x.multi = [l \in Multi |-> PairedQueue(multi[l], l, m, x.out, mq)]
  <2>1. \A l \in Multi :
          [multi[l] EXCEPT !.match = IF match = <<TRUE, l>> THEN c ELSE @, !.matched = @ \/ l = mq]
            = PairedQueue(multi[l], l, m, out, mq)
    BY <1>2, <1>10 DEF PairedQueue
  <2>2. x.out = out /\ x.multi = [l \in Multi |-> x.multi[l]]
    BY <1>21, <1>22
  <2>3. \A l \in Multi : x.multi[l] = PairedQueue(multi[l], l, m, out, mq)
    BY <1>21, <2>1
  <2> QED BY <2>2, <2>3
<1> HIDE DEF out, at
<1>17. x.cur \in Channels /\ x.stalled \in BOOLEAN /\ x.errors = {}
  <2>1. stall \in BOOLEAN
    BY DEF stall, routable, Ready
  <2> QED BY <1>22, <1>6, <1>9, <2>1
<1>18. x.stalled => Ready(x.input[x.cur])
  <2> HIDE DEF mq
  <2>1. ASSUME x.stalled PROVE Ready(x.input[x.cur])
    <3>1. stall /\ mq = None
      BY <1>22, <2>1
    <3>2. x.cur = here /\ x.input[here] = outOf[here]
      BY <1>6, <1>19, <1>22, <3>1
    <3> QED BY <1>9, <3>1, <3>2
  <2> QED BY <2>1
<1> HIDE DEF mq
<1>20. Paired(ins, x, i, m, at, mq)
  BY <1>14, <1>15, <1>16, <1>17, <1>18 DEF Paired
<1> QED BY <1>20 DEF x

-----------------------------------------------------------------------------
(* An input after the match, and after the flit that it sends.             *)

Bound(y) == y.out # None \/ y.mq # None

\* y is input i after the match: it sends when it is matched.
InputPaired(i, y, c) ==
  /\ y \in InputState
  /\ Book(y.state, y.frame, freed[i], c)
  /\ y.state \in Moving <=> Bound(y)
  /\ y.out = None \/ y.mq = None
  /\ Bound(y) => y.frame # <<>>
  /\ ~Bound(y) => freed[i] = 0

\* An input after the match.
LEMMA PairingInput ==
  ASSUME ChaosRouterAssumption, TypeOK, InputsRight, NEW i \in Channels,
         NEW x, NEW c, InputRead(i, x, c),
         NEW j, NEW out \in Channels \cup {None}, NEW at, NEW wq \in Multi \cup {None},
         i = j => Ready(x) /\ out # None, i = at => Ready(x) /\ wq # None /\ at # j,
         NEW y, y = PairedInput(x, i, j, out, at, wq)
  PROVE  /\ InputPaired(i, y, c)
         /\ i = j \/ i = at => freed[i] = 0
         /\ y.out = IF i = j THEN out ELSE input[i].out
         /\ y.mq = IF i = at THEN wq ELSE input[i].mq
<1>1. BufferSize \in Nat \ {0, 1} /\ None \notin Channels /\ None \notin Multi
  BY Sizes
<1>2. /\ x \in InputState /\ c \in Partly
      /\ Book(x.state, x.frame, freed[i], c) /\ Begun(x.state, freed[i])
      /\ x.out = input[i].out /\ x.mq = input[i].mq
      /\ freed[i] > 0 => x.frame # <<>>
  BY DEF InputRead
<1>3. /\ freed[i] > 0 <=> x.out # None \/ x.mq # None
      /\ x.out = None \/ x.mq = None
      /\ freed[i] \in 0 .. BufferSize - 1
  BY <1>2 DEF InputsRight, TypeOK, Partly
<1>4. CASE i # j /\ i # at
  <2>1. y = x
    BY <1>4 DEF PairedInput
  <2>2. x.state \in Moving <=> freed[i] > 0
    BY <1>2 DEF Begun
  <2> QED BY <1>2, <1>3, <1>4, <2>1, <2>2 DEF InputPaired, Bound
<1>5. CASE i = j \/ i = at
  <2>1. x.state \in {"filling", "full"} /\ freed[i] = 0 /\ x.out = None /\ x.mq = None
    BY <1>2, <1>3, <1>5 DEF Ready, Begun, Moving
  <2>2. /\ y.state = IF x.state = "full" THEN "leaving" ELSE "cut_through"
        /\ y.frame = x.frame
        /\ y.out = IF i = j THEN out ELSE input[i].out
        /\ y.mq = IF i = at THEN wq ELSE input[i].mq
        /\ y = [state |-> y.state, frame |-> y.frame, out |-> y.out, mq |-> y.mq]
    <3>1. x = [state |-> x.state, frame |-> x.frame, out |-> x.out, mq |-> x.mq]
      BY <1>2 DEF InputState
    <3>2. Leave(x) = [state |-> IF x.state = "full" THEN "leaving" ELSE "cut_through",
                      frame |-> x.frame, out |-> x.out, mq |-> x.mq]
      BY <3>1 DEF Leave
    <3> QED BY <1>2, <1>5, <3>2 DEF PairedInput
  <2>3. Book(y.state, x.frame, freed[i], c) /\ x.frame # <<>>
    <3>1. Len(x.frame) > 0
      BY <1>1, <1>2, <2>1 DEF Book, Partly
    <3> QED BY <1>1, <1>2, <2>1, <2>2, <3>1 DEF Book, Partly
  <2>4. Bound(y) /\ y.state \in Moving /\ (y.out = None \/ y.mq = None)
    BY <1>2, <1>5, <2>1, <2>2 DEF Bound, Moving
  <2>5. y \in InputState
    BY <1>2, <2>2 DEF InputState, States, Moving
  <2> QED BY <2>1, <2>2, <2>3, <2>4, <2>5 DEF InputPaired
<1> QED BY <1>4, <1>5

\* Input i when it has sent its flit, if it does: z and g are its state and number then.
InputSent(i, y, c, z, g) ==
  /\ z \in InputState /\ g \in Partly
  /\ Book(z.state, z.frame, g, c) /\ Settled(z.state, g, c)
  /\ g > 0 <=> Bound(z)
  /\ z.out = IF freed[i] + 1 = BufferSize THEN None ELSE y.out
  /\ z.mq = IF freed[i] + 1 = BufferSize THEN None ELSE y.mq
  /\ g = IF Bound(y) THEN Under(freed[i] + 1) ELSE freed[i]
  /\ Bound(y) => Head(y.frame) \in Flit /\ Head(y.frame).n = freed[i] + 1
  /\ freed[i] > 0 => g = Under(freed[i] + 1)
  /\ ~Bound(y) => z = y

\* An input sends the next flit of its packet.
LEMMA Sending ==
  ASSUME ChaosRouterAssumption, TypeOK, NEW i \in Channels, NEW y, NEW c, InputPaired(i, y, c),
         NEW z, z = IF Bound(y) THEN Advanced(y) ELSE y,
         NEW g, g = IF Bound(y) THEN Under(Head(y.frame).n) ELSE freed[i]
  PROVE  InputSent(i, y, c, z, g)
<1>1. BufferSize \in Nat \ {0, 1} /\ None \notin Channels /\ None \notin Multi
  BY Sizes
<1>2. /\ y \in InputState
      /\ Book(y.state, y.frame, freed[i], c)
      /\ y.state \in Moving <=> Bound(y)
      /\ y.out = None \/ y.mq = None
      /\ Bound(y) => y.frame # <<>>
      /\ ~Bound(y) => freed[i] = 0
  BY DEF InputPaired
<1>3. freed[i] \in 0 .. BufferSize - 1
  BY DEF TypeOK, Partly
<1>4. CASE ~Bound(y)
  <2>1. Settled(y.state, freed[i], c)
    BY <1>2, <1>3, <1>4 DEF Settled, Begun, Moving
  <2>2. y.out = None /\ y.mq = None /\ z = y /\ g = 0
    BY <1>2, <1>4 DEF Bound
  <2> QED BY <1>1, <1>2, <1>3, <1>4, <2>1, <2>2 DEF InputSent, Partly
<1>5. CASE Bound(y)
  <2> DEFINE s == IF freed[i] + 1 = BufferSize THEN Emptied(y.state) ELSE y.state
  <2>1. /\ Head(y.frame) \in Flit /\ Head(y.frame).n = freed[i] + 1
        /\ Book(s, Tail(y.frame), Under(freed[i] + 1), c)
        /\ Settled(s, Under(freed[i] + 1), c)
        /\ Under(freed[i] + 1) = IF freed[i] + 1 = BufferSize THEN 0 ELSE freed[i] + 1
    BY <1>2, <1>5, Removed
  <2>2. g = Under(freed[i] + 1) /\ (IsTail(Head(y.frame)) <=> freed[i] + 1 = BufferSize)
    BY <1>5, <2>1 DEF IsTail
  <2>3. y = [state |-> y.state, frame |-> y.frame, out |-> y.out, mq |-> y.mq]
    BY <1>2 DEF InputState
  <2>4. z = [state |-> s, frame |-> Tail(y.frame),
             out |-> IF freed[i] + 1 = BufferSize THEN None ELSE y.out,
             mq |-> IF freed[i] + 1 = BufferSize THEN None ELSE y.mq]
    BY <1>5, <2>2, <2>3 DEF Advanced, Emptied
  <2>5. s \in States /\ Tail(y.frame) \in Seq(Flit) /\ Under(freed[i] + 1) \in Partly
    BY <2>1 DEF Book, States, Moving
  <2> HIDE DEF s
  <2>6. /\ z \in InputState /\ z.state = s /\ z.frame = Tail(y.frame)
        /\ z.out = IF freed[i] + 1 = BufferSize THEN None ELSE y.out
        /\ z.mq = IF freed[i] + 1 = BufferSize THEN None ELSE y.mq
    BY <1>2, <2>4, <2>5 DEF InputState
  <2>7. g > 0 <=> Bound(z)
    BY <1>1, <1>3, <1>5, <2>1, <2>2, <2>4 DEF Bound
  <2> QED BY <1>5, <2>1, <2>2, <2>5, <2>6, <2>7 DEF InputSent
<1> QED BY <1>4, <1>5

-----------------------------------------------------------------------------
(* A multi-queue after the match, with the flit that it stores, and after  *)
(* the one that it sends.                                                  *)

\* A multi-queue that an input is matched with has room.
LEMMA QueueRoom ==
  ASSUME ChaosRouterAssumption, NEW x, NEW t, NEW s, QueueBook(x, t, s), Settled(x.state, t, s),
         x.matched \/ Len(x.queue) < BufferSize
  PROVE  Len(x.queue) < BufferSize
<1>1. x.matched => s > 0
  BY DEF QueueBook
<1> QED BY <1>1, Room DEF QueueBook

\* z is a multi-queue that has stored a flit, if one came, of which t flits have been taken.
QueueStored(y, z, t, s, d) ==
  /\ z \in QueueState /\ d \in Partly
  /\ Book(z.state, z.queue, t, d) /\ Begun(z.state, t)
  /\ z.match = y.match
  /\ z.matched <=> y.matched /\ s + 1 # BufferSize
  /\ z.matched <=> d > 0
  /\ z.match # None => z.queue # <<>> /\ (t = 0 => Ready(z))
  /\ z.match = None => t = 0
  /\ d = IF y.matched THEN Under(s + 1) ELSE s

\* A multi-queue stores the next flit of the packet that comes to it.
LEMMA Storing ==
  ASSUME ChaosRouterAssumption, NEW x \in QueueState, NEW t, NEW s, QueueBook(x, t, s), Settled(x.state, t, s),
         NEW l, NEW m, NEW out \in Channels \cup {None}, NEW wq, l = m => Ready(x) /\ out # None,
         NEW y, y = PairedQueue(x, l, m, out, wq), l = wq => Len(x.queue) < BufferSize,
         NEW z, NEW d,
         \/ ~y.matched /\ z = y /\ d = s
         \/ y.matched /\ d = Under(s + 1) /\ \E f \in Flit : f.n = s + 1 /\ z = Store(y, f)
  PROVE  QueueStored(y, z, t, s, d)
<1>1. BufferSize \in Nat \ {0, 1} /\ None \notin Channels /\ None \notin Multi
  BY Sizes
<1>2. /\ Book(x.state, x.queue, t, s)
      /\ x.match # None <=> t > 0
      /\ x.matched <=> s > 0
      /\ t \in 0 .. BufferSize - 1 /\ s \in 0 .. BufferSize - 1
  BY DEF QueueBook, Book, Partly
<1>3. /\ y \in QueueState /\ y.state = x.state /\ y.queue = x.queue
      /\ y.match = IF l = m THEN out ELSE x.match
      /\ y.matched <=> x.matched \/ l = wq
  BY DEF PairedQueue, QueueState
<1>4. y.matched => Len(x.queue) < BufferSize
  BY <1>3, QueueRoom
<1>5. Under(s + 1) = (IF s + 1 = BufferSize THEN 0 ELSE s + 1) /\ Under(s + 1) \in Partly
  BY <1>1, <1>2, Underway
<1>6. /\ Gets(y.state, y.queue, s, z.state, z.queue, d)
      /\ z.match = y.match /\ (z.matched <=> y.matched /\ s + 1 # BufferSize)
      /\ z \in QueueState
  <2>1. CASE ~y.matched /\ z = y /\ d = s
    BY <1>2, <1>3, <2>1 DEF Gets
  <2>2. ASSUME y.matched, d = Under(s + 1), NEW f \in Flit, f.n = s + 1, z = Store(y, f)
        PROVE  <1>6
    <3>1. y = [state |-> y.state, queue |-> y.queue, match |-> y.match, matched |-> y.matched]
      BY <1>3 DEF QueueState
    <3>2. z = [state |-> Filled(y.state, f), queue |-> Append(y.queue, f), match |-> y.match,
               matched |-> IF IsTail(f) THEN FALSE ELSE y.matched]
      BY <2>2, <3>1 DEF Store, Filled
    <3>3. Gets(y.state, y.queue, s, z.state, z.queue, d)
      BY <1>3, <1>4, <2>2, <3>2 DEF Gets
    <3>4. Filled(y.state, f) \in States
      BY <1>3 DEF Filled, QueueState, States, Moving
    <3>5. z \in QueueState /\ z.match = y.match
      BY <1>3, <2>2, <3>2, <3>4 DEF QueueState
    <3>6. z.matched <=> y.matched /\ s + 1 # BufferSize
      BY <2>2, <3>2 DEF IsTail
    <3> QED BY <3>3, <3>5, <3>6
  <2> QED BY <2>1, <2>2
<1>7. /\ Book(z.state, z.queue, t, d) /\ Begun(z.state, t)
      /\ x.state \in {"filling", "full"} => z.state \in {"filling", "full"}
      /\ t > 0 \/ x.state \in {"filling", "full"} => z.queue # <<>>
  BY <1>2, <1>3, <1>6, Got
<1>8. z.matched <=> d > 0
  BY <1>1, <1>2, <1>3, <1>5, <1>6
<1>9. /\ z.match # None => z.queue # <<>> /\ (t = 0 => Ready(z))
      /\ z.match = None => t = 0
  <2>1. l = m => x.state \in {"filling", "full"} /\ t = 0
    BY <1>2 DEF Ready, Settled, Begun, Moving
  <2> QED BY <1>2, <1>3, <1>6, <1>7, <2>1 DEF Ready
<1>10. d \in Partly /\ d = IF y.matched THEN Under(s + 1) ELSE s
  BY <1>2, <1>5 DEF Partly
<1> QED BY <1>6, <1>7, <1>8, <1>9, <1>10 DEF QueueStored

\* A flit is stored where one may come.
LEMMA StoredRight ==
  ASSUME ChaosRouterAssumption, NEW x, NEW t, NEW s, QueueBook(x, t, s), Settled(x.state, t, s),
         Len(x.queue) < BufferSize, NEW f \in Flit, f.n = s + 1
  PROVE  StoreErrors(x, f) = {}
<1>1. Book(x.state, x.queue, t, s) /\ (x.state = "shared" => s < t)
  BY DEF QueueBook, Settled
<1>2. /\ x.state \in {"empty", "leaving"} <=> IsHead(f)
      /\ IsTail(f) => x.state \in {"filling", "cut_through"}
  BY <1>1, Added
<1> QED BY <1>2 DEF StoreErrors

\* x is a multi-queue that has sent a flit, if it is matched, and b is its number taken.
LEMMA Taking ==
  ASSUME ChaosRouterAssumption, NEW y, NEW z, NEW t \in Partly, NEW s, NEW d, QueueStored(y, z, t, s, d),
         NEW x, x = IF z.match # None THEN Take(z) ELSE z,
         NEW b, b = IF z.match # None THEN Under(t + 1) ELSE t
  PROVE  /\ x \in QueueState /\ b \in Partly
         /\ QueueBook(x, b, d) /\ Settled(x.state, b, d)
         /\ x.match = IF t + 1 = BufferSize THEN None ELSE z.match
         /\ x.matched <=> z.matched
         /\ z.match # None => Head(z.queue) \in Flit /\ Head(z.queue).n = t + 1 /\ TakeErrors(z) = {}
<1>1. BufferSize \in Nat \ {0, 1} /\ t \in 0 .. BufferSize - 1
  BY Sizes DEF Partly
<1>2. /\ z \in QueueState /\ d \in Partly
      /\ Book(z.state, z.queue, t, d) /\ Begun(z.state, t)
      /\ z.matched <=> d > 0
      /\ z.match # None => z.queue # <<>> /\ (t = 0 => Ready(z))
      /\ z.match = None => t = 0
  BY DEF QueueStored
<1>3. CASE z.match = None
  <2>1. x = z /\ b = 0 /\ t = 0
    BY <1>2, <1>3
  <2>2. Settled(z.state, 0, d)
    BY <1>2, <2>1 DEF Settled, Begun, Moving
  <2> QED BY <1>1, <1>2, <1>3, <2>1, <2>2 DEF QueueBook, Partly
<1>4. CASE z.match # None
  <2> DEFINE left == IF t = 0 THEN IF z.state = "full" THEN "leaving" ELSE "cut_through" ELSE z.state
             k == IF t + 1 = BufferSize THEN Emptied(left) ELSE left
             f == Head(z.queue)
  <2>1. left \in Moving
    BY <1>1, <1>2, <1>4 DEF Begun, Moving
  <2>2. Book(left, z.queue, t, d)
    <3>1. CASE t = 0
      <4>1. z.state \in {"filling", "full"}
        BY <1>2, <1>4, <3>1 DEF Ready
      <4> QED BY <1>1, <1>2, <3>1, <4>1 DEF Book, Partly
    <3>2. CASE t # 0
      BY <1>2, <3>2
    <3> QED BY <3>1, <3>2
  <2> HIDE DEF left
  <2>3. /\ f \in Flit /\ f.n = t + 1
        /\ Book(k, Tail(z.queue), Under(t + 1), d)
        /\ Settled(k, Under(t + 1), d)
        /\ Under(t + 1) = IF t + 1 = BufferSize THEN 0 ELSE t + 1
        /\ t + 1 = BufferSize => left \in {"leaving", "shared"}
    BY <1>2, <1>4, <2>1, <2>2, Removed
  <2>4. (IsHead(f) <=> t = 0) /\ (IsTail(f) <=> t + 1 = BufferSize)
    BY <1>1, <2>3 DEF IsHead, IsTail
  <2>5. x = [state |-> k, queue |-> Tail(z.queue),
             match |-> IF t + 1 = BufferSize THEN None ELSE z.match, matched |-> z.matched]
    <3>1. z = [state |-> z.state, queue |-> z.queue, match |-> z.match, matched |-> z.matched]
      BY <1>2 DEF QueueState
    <3> DEFINE r == [z EXCEPT !.queue = Tail(@), !.match = IF IsTail(f) THEN None ELSE @]
    <3>2. r = [state |-> z.state, queue |-> Tail(z.queue),
               match |-> IF t + 1 = BufferSize THEN None ELSE z.match, matched |-> z.matched]
      <4>1. (IF IsTail(f) THEN None ELSE z.match) = IF t + 1 = BufferSize THEN None ELSE z.match
        BY <2>4
      <4> DEFINE n == IF IsTail(f) THEN None ELSE z.match
      <4>2. r = [z EXCEPT !.queue = Tail(@), !.match = n]
        OBVIOUS
      <4> HIDE DEF n, r
      <4>3. r = [state |-> z.state, queue |-> Tail(z.queue), match |-> n, matched |-> z.matched]
        BY <3>1, <4>2
      <4> QED BY <4>1, <4>3 DEF n
    <3>3. x = CASE IsHead(f) -> Leave(r)
                [] IsTail(f) -> [r EXCEPT !.state = CASE @ = "shared" -> "filling" [] @ = "leaving" -> "empty" [] OTHER -> @]
                [] OTHER -> r
      BY <1>4 DEF Take
    <3> HIDE DEF f, r
    <3>4. CASE t = 0
      <4>1. IsHead(f) /\ ~IsTail(f)
        BY <1>1, <2>4, <3>4
      <4>2. x = Leave(r) /\ k = IF z.state = "full" THEN "leaving" ELSE "cut_through"
        BY <1>1, <3>3, <3>4, <4>1 DEF left
      <4> QED BY <3>2, <4>2 DEF Leave
    <3>5. CASE t + 1 = BufferSize
      <4>1. ~IsHead(f) /\ IsTail(f)
        BY <1>1, <2>4, <3>5
      <4>2. x = [r EXCEPT !.state = CASE @ = "shared" -> "filling" [] @ = "leaving" -> "empty" [] OTHER -> @]
        BY <3>3, <4>1
      <4>3. k = IF z.state = "leaving" THEN "empty" ELSE IF z.state = "shared" THEN "filling" ELSE z.state
        BY <1>1, <3>5 DEF Emptied, left
      <4> HIDE DEF k
      <4> QED BY <3>2, <4>2, <4>3
    <3>6. CASE t # 0 /\ t + 1 # BufferSize
      <4>1. ~IsHead(f) /\ ~IsTail(f)
        BY <2>4, <3>6
      <4>2. x = r /\ k = z.state
        BY <3>3, <3>6, <4>1 DEF left
      <4> QED BY <3>2, <4>2
    <3> QED BY <3>4, <3>5, <3>6
  <2>6. TakeErrors(z) = {}
    <3>1. z.queue # <<>>
      BY <1>2, <1>4
    <3>2. IsHead(f) => Ready(z)
      BY <1>2, <1>4, <2>4
    <3>3. IsTail(f) => z.state \in {"shared", "leaving"}
      <4>1. t + 1 = BufferSize => t # 0
        BY <1>1
      <4> QED BY <2>3, <2>4, <4>1 DEF left
    <3> QED BY <3>1, <3>2, <3>3 DEF TakeErrors
  <2>7. k \in States /\ Tail(z.queue) \in Seq(Flit) /\ Under(t + 1) \in Partly
    BY <2>3 DEF Book, States, Moving
  <2> HIDE DEF k
  <2>8. x \in QueueState /\ x.state = k /\ x.queue = Tail(z.queue) /\ (x.matched <=> z.matched)
        /\ x.match = IF t + 1 = BufferSize THEN None ELSE z.match
    BY <1>2, <2>5, <2>7 DEF QueueState
  <2>9. x.match # None <=> Under(t + 1) > 0
    BY <1>1, <1>4, <2>3, <2>8
  <2> QED BY <1>2, <1>4, <2>3, <2>6, <2>7, <2>8, <2>9 DEF QueueBook
<1> QED BY <1>3, <1>4

-----------------------------------------------------------------------------
(* Who sends to whom.                                                      *)

\* A match, of input j or queue l with out, and of input at with queue wq.
MatchMade(ins, queues, busy, taken, stored, crossed, j, l, out, at, wq) ==
  /\ j \in Channels \cup {None} /\ l \in Multi \cup {None} /\ out \in Channels \cup {None}
  /\ at \in Channels \cup {None} /\ wq \in Multi \cup {None}
  /\ QueueLinks(input, multi, freed, stored) /\ OutputLinks(input, multi, Busy, freed, taken, crossed)
  /\ \A i \in Channels : /\ ins[i].out = IF i = j THEN out ELSE input[i].out
                         /\ ins[i].mq = IF i = at THEN wq ELSE input[i].mq
  /\ \A m \in Multi : /\ queues[m].match = IF m = l THEN out ELSE multi[m].match
                      /\ queues[m].matched <=> multi[m].matched \/ m = wq
  /\ \A o \in Channels : busy[o] <=> Busy[o] \/ o = out
  /\ out # None => ~Busy[out] /\ crossed[out] = 0 /\ (j = None <=> l # None)
  /\ out = None => j = None /\ l = None
  /\ j # None => freed[j] = 0
  /\ l # None => taken[l] = 0
  /\ \A i \in Channels : freed[i] = 0 => input[i].out = None /\ input[i].mq = None
  /\ \A m \in Multi : taken[m] = 0 => multi[m].match = None
  /\ at # None <=> wq # None
  /\ wq # None => ~multi[wq].matched /\ stored[wq] = 0 /\ freed[at] = 0

\* A match is made between what was free.
LEMMA LinksMade ==
  ASSUME ChaosRouterAssumption, TypeOK, NEW ins, NEW queues, NEW busy, NEW taken, NEW stored, NEW crossed,
         NEW j, NEW l, NEW out, NEW at, NEW wq,
         MatchMade(ins, queues, busy, taken, stored, crossed, j, l, out, at, wq)
  PROVE  /\ QueueLinks(ins, queues, freed, stored)
         /\ OutputLinks(ins, queues, busy, freed, taken, crossed)
<1> USE DEF MatchMade
<1>1. /\ None \notin Channels /\ None \notin Multi
      /\ \A i \in Channels : input[i].out \in Channels \cup {None} /\ input[i].mq \in Multi \cup {None}
      /\ \A m \in Multi : multi[m].match \in Channels \cup {None}
  BY Sizes DEF TypeOK, InputState, QueueState
<1>2. QueueLinks(ins, queues, freed, stored)
  <2>1. ASSUME NEW i \in Channels, ins[i].mq # None
        PROVE  queues[ins[i].mq].matched /\ stored[ins[i].mq] = freed[i]
    BY <1>1, <2>1 DEF QueueLinks
  <2>2. ASSUME NEW i \in Channels, NEW k \in Channels, ins[i].mq # None, ins[i].mq = ins[k].mq
        PROVE  i = k
    BY <1>1, <2>2 DEF QueueLinks
  <2>3. ASSUME NEW m \in Multi, queues[m].matched PROVE \E i \in Channels : ins[i].mq = m
    <3>1. CASE m = wq
      BY <1>1, <3>1
    <3>2. CASE m # wq
      <4>1. PICK i \in Channels : input[i].mq = m
        BY <2>3, <3>2 DEF QueueLinks
      <4>2. i # at
        BY <1>1, <4>1 DEF QueueLinks
      <4> QED BY <4>1, <4>2
    <3> QED BY <3>1, <3>2
  <2> QED BY <2>1, <2>2, <2>3 DEF QueueLinks
<1>3. OutputLinks(ins, queues, busy, freed, taken, crossed)
  <2>1. ASSUME NEW i \in Channels, ins[i].out # None
        PROVE  busy[ins[i].out] /\ crossed[ins[i].out] = freed[i]
    BY <1>1, <2>1 DEF OutputLinks
  <2>2. ASSUME NEW m \in Multi, queues[m].match # None
        PROVE  busy[queues[m].match] /\ crossed[queues[m].match] = taken[m]
    BY <1>1, <2>2 DEF OutputLinks
  <2>3. ASSUME NEW i \in Channels, NEW k \in Channels, ins[i].out # None, ins[i].out = ins[k].out
        PROVE  i = k
    BY <1>1, <2>3 DEF OutputLinks
  <2>4. ASSUME NEW m \in Multi, NEW k \in Multi, queues[m].match # None, queues[m].match = queues[k].match
        PROVE  m = k
    BY <1>1, <2>4 DEF OutputLinks
  <2>5. ASSUME NEW i \in Channels, NEW m \in Multi, ins[i].out # None PROVE ins[i].out # queues[m].match
    BY <1>1, <2>5 DEF OutputLinks
  <2>6. ASSUME NEW o \in Channels, busy[o]
        PROVE  (\E i \in Channels : ins[i].out = o) \/ (\E m \in Multi : queues[m].match = o)
    <3>1. CASE o = out
      BY <1>1, <3>1
    <3>2. CASE o # out
      <4>1. CASE \E i \in Channels : input[i].out = o
        <5>1. PICK i \in Channels : input[i].out = o
          BY <4>1
        <5>2. i # j
          BY <1>1, <2>6, <3>2, <5>1 DEF OutputLinks
        <5> QED BY <5>1, <5>2
      <4>2. CASE \E m \in Multi : multi[m].match = o
        <5>1. PICK m \in Multi : multi[m].match = o
          BY <4>2
        <5>2. m # l
          BY <1>1, <2>6, <3>2, <5>1 DEF OutputLinks
        <5> QED BY <5>1, <5>2
      <4> QED BY <2>6, <3>2, <4>1, <4>2 DEF OutputLinks
    <3> QED BY <3>1, <3>2
  <2> QED BY <2>1, <2>2, <2>3, <2>4, <2>5, <2>6 DEF OutputLinks
<1> QED BY <1>2, <1>3

\* Each that is matched has sent a flit, and each that one was sent to has got it.
FlitsPassed(ins, queues, busy, gone, taken, stored, crossed,
            ins2, queues2, busy2, gone2, taken2, stored2, crossed2) ==
  /\ \A i \in Channels : ins[i].out \in Channels \cup {None} /\ ins[i].mq \in Multi \cup {None} /\ gone[i] \in Partly
  /\ \A m \in Multi : queues[m].match \in Channels \cup {None}
  /\ QueueLinks(ins, queues, gone, stored) /\ OutputLinks(ins, queues, busy, gone, taken, crossed)
  /\ \A i \in Channels : /\ ins2[i].out = IF gone[i] + 1 = BufferSize THEN None ELSE ins[i].out
                         /\ ins2[i].mq = IF gone[i] + 1 = BufferSize THEN None ELSE ins[i].mq
                         /\ gone2[i] = IF Bound(ins[i]) THEN Under(gone[i] + 1) ELSE gone[i]
  /\ \A m \in Multi : /\ queues2[m].match = IF taken[m] + 1 = BufferSize THEN None ELSE queues[m].match
                      /\ taken2[m] = IF queues[m].match # None THEN Under(taken[m] + 1) ELSE taken[m]
                      /\ queues2[m].matched <=> queues[m].matched /\ stored[m] + 1 # BufferSize
                      /\ stored2[m] = IF queues[m].matched THEN Under(stored[m] + 1) ELSE stored[m]
  /\ \A o \in Channels : /\ busy2[o] <=> busy[o] /\ crossed[o] + 1 # BufferSize
                         /\ busy2[o] => crossed2[o] = Under(crossed[o] + 1)

\* A match goes on until the last flit has passed.
LEMMA LinksGoOn ==
  ASSUME ChaosRouterAssumption, NEW ins, NEW queues, NEW busy, NEW gone, NEW taken, NEW stored, NEW crossed,
         NEW ins2, NEW queues2, NEW busy2, NEW gone2, NEW taken2, NEW stored2, NEW crossed2,
         FlitsPassed(ins, queues, busy, gone, taken, stored, crossed,
                     ins2, queues2, busy2, gone2, taken2, stored2, crossed2)
  PROVE  /\ QueueLinks(ins2, queues2, gone2, stored2)
         /\ OutputLinks(ins2, queues2, busy2, gone2, taken2, crossed2)
<1> USE DEF FlitsPassed
<1>1. None \notin Channels /\ None \notin Multi
  BY Sizes
<1>2. QueueLinks(ins2, queues2, gone2, stored2)
  <2>1. ASSUME NEW i \in Channels, ins2[i].mq # None
        PROVE  queues2[ins2[i].mq].matched /\ stored2[ins2[i].mq] = gone2[i]
    BY <1>1, <2>1 DEF QueueLinks, Bound
  <2>2. ASSUME NEW i \in Channels, NEW k \in Channels, ins2[i].mq # None, ins2[i].mq = ins2[k].mq
        PROVE  i = k
    BY <1>1, <2>2 DEF QueueLinks
  <2>3. ASSUME NEW m \in Multi, queues2[m].matched PROVE \E i \in Channels : ins2[i].mq = m
    BY <1>1, <2>3 DEF QueueLinks
  <2> QED BY <2>1, <2>2, <2>3 DEF QueueLinks
<1>3. OutputLinks(ins2, queues2, busy2, gone2, taken2, crossed2)
  <2>1. ASSUME NEW i \in Channels, ins2[i].out # None
        PROVE  busy2[ins2[i].out] /\ crossed2[ins2[i].out] = gone2[i]
    BY <1>1, <2>1 DEF OutputLinks, Bound
  <2>2. ASSUME NEW m \in Multi, queues2[m].match # None
        PROVE  busy2[queues2[m].match] /\ crossed2[queues2[m].match] = taken2[m]
    BY <1>1, <2>2 DEF OutputLinks
  <2>3. ASSUME NEW i \in Channels, NEW k \in Channels, ins2[i].out # None, ins2[i].out = ins2[k].out
        PROVE  i = k
    BY <1>1, <2>3 DEF OutputLinks
  <2>4. ASSUME NEW m \in Multi, NEW k \in Multi, queues2[m].match # None, queues2[m].match = queues2[k].match
        PROVE  m = k
    BY <1>1, <2>4 DEF OutputLinks
  <2>5. ASSUME NEW i \in Channels, NEW m \in Multi, ins2[i].out # None PROVE ins2[i].out # queues2[m].match
    BY <1>1, <2>5 DEF OutputLinks
  <2>6. ASSUME NEW o \in Channels, busy2[o]
        PROVE  (\E i \in Channels : ins2[i].out = o) \/ (\E m \in Multi : queues2[m].match = o)
    <3>1. CASE \E i \in Channels : ins[i].out = o
      BY <1>1, <2>6, <3>1 DEF OutputLinks
    <3>2. CASE \E m \in Multi : queues[m].match = o
      BY <1>1, <2>6, <3>2 DEF OutputLinks
    <3> QED BY <2>6, <3>1, <3>2 DEF OutputLinks
  <2> QED BY <2>1, <2>2, <2>3, <2>4, <2>5, <2>6 DEF OutputLinks
<1> QED BY <1>2, <1>3

-----------------------------------------------------------------------------
(* _SendFlits.                                                             *)

\* What an output knows once it has sent a flit, if it does: g, h and k are the numbers before,
\* and x the output, b and d the numbers after, c is the number of those that have crossed.
OutputSent(g, h, k, busy, x, b, d, c) ==
  /\ x \in OutputState /\ OutputBook(x, b, d, c)
  /\ d > 0 => x.count > 0
  /\ ~x.matched => c \in {0, BufferSize}
  /\ x.matched <=> busy /\ k + 1 # BufferSize
  /\ busy /\ k + 1 # BufferSize => c = k + 1
  /\ g > 0 => b = Under(g + 1)
  /\ h > 0 => d = Under(h + 1)

\* The arithmetic of an output: n flits are in the next buffer, s says whether one is sent, and
\* a whether a credit came.
CountNow(B, g, h, n, a, s, b, d) ==
  /\ B \in Nat \ {0, 1} /\ g \in 0 .. B - 1 /\ h \in 0 .. B - 1 /\ n \in 0 .. B
  /\ n = g - h \/ n = g - h + B
  /\ h > 0 => n > 0
  /\ a \in {0, 1} /\ (n = 0 => a = 0) /\ (n > 0 /\ h > 0 => a = 1)
  /\ s \in {0, 1} /\ (s = 1 => n - a < B) /\ (g > 0 /\ n - a < B => s = 1)
  /\ b = IF s = 0 THEN g ELSE IF g + 1 = B THEN 0 ELSE g + 1
  /\ d = IF a = 0 THEN h ELSE IF h + 1 = B THEN 0 ELSE h + 1
CountNext(B, g, h, n, a, s, b, d) ==
  /\ g > 0 => s = 1
  /\ h > 0 => a = 1
  /\ n - a + s \in 0 .. B
  /\ n - a + s = b - d \/ n - a + s = b - d + B
  /\ d > 0 => n - a + s > 0
  /\ b \in 0 .. B - 1 /\ d \in 0 .. B - 1

\* The counts of an output stay those of its numbers.
LEMMA Counts ==
  ASSUME NEW B, NEW g, NEW h, NEW n, NEW a, NEW s, NEW b, NEW d, CountNow(B, g, h, n, a, s, b, d)
  PROVE  CountNext(B, g, h, n, a, s, b, d)
<1>1. /\ B \in Nat \ {0, 1} /\ g \in 0 .. B - 1 /\ h \in 0 .. B - 1 /\ n \in 0 .. B
      /\ n = g - h \/ n = g - h + B
      /\ h > 0 => n > 0
      /\ a \in {0, 1} /\ (n = 0 => a = 0) /\ (n > 0 /\ h > 0 => a = 1)
      /\ s \in {0, 1} /\ (s = 1 => n - a < B) /\ (g > 0 /\ n - a < B => s = 1)
  BY DEF CountNow
<1>2. /\ b = IF s = 0 THEN g ELSE IF g + 1 = B THEN 0 ELSE g + 1
      /\ d = IF a = 0 THEN h ELSE IF h + 1 = B THEN 0 ELSE h + 1
  BY DEF CountNow
<1>3. h > 0 => a = 1
  BY <1>1
<1>4. g > 0 => s = 1
  BY <1>1
<1>5. n - a + s \in 0 .. B
  BY <1>1
<1>6. b \in 0 .. B - 1 /\ d \in 0 .. B - 1
  BY <1>1, <1>2
<1>7. n - a + s = b - d \/ n - a + s = b - d + B
  <2>1. CASE a = 0
    BY <1>1, <1>2, <1>3, <1>4, <2>1
  <2>2. CASE a = 1
    BY <1>1, <1>2, <1>3, <1>4, <2>2
  <2> QED BY <1>1, <2>1, <2>2
<1>8. d > 0 => n - a + s > 0
  <2>1. CASE a = 0
    BY <1>1, <1>2, <1>3, <1>4, <2>1
  <2>2. CASE a = 1
    BY <1>1, <1>2, <1>3, <1>4, <2>2
  <2> QED BY <1>1, <2>1, <2>2
<1> QED BY <1>3, <1>4, <1>5, <1>6, <1>7, <1>8 DEF CountNext

\* The flits that cross, without their routes, and whether none is a tail.
Plain(crossing)  == {[f EXCEPT !.route = {}] : f \in crossing}
NoTail(crossing) == \A f \in crossing : ~IsTail(f)

\* What crosses to an output: the next flit of its packet when it is busy.
Crosses(busy, k, crossing) ==
  IF busy THEN \E f \in Flit : f.n = k + 1 /\ crossing = {f} ELSE crossing = {}

\* A sequence with one more.
LEMMA OneMore ==
  ASSUME NEW T, NEW q \in Seq(T), NEW e \in T
  PROVE  /\ q \o <<e>> \in Seq(T) /\ Len(q \o <<e>>) = Len(q) + 1
         /\ \A j \in 1 .. Len(q) : (q \o <<e>>)[j] = q[j]
         /\ (q \o <<e>>)[Len(q) + 1] = e
OBVIOUS

\* q holds the flits from g on of k that have crossed; with what crosses they are frame and l.
FrameNow(q, g, k, busy, crossing, frame, l) ==
  /\ q \in Seq(Flit) /\ g \in Nat /\ k \in Nat
  /\ Len(q) = k - g /\ \A j \in 1 .. Len(q) : q[j].n = g + j
  /\ busy \in BOOLEAN /\ Crosses(busy, k, crossing)
  /\ frame = q \o SetToSeq(Plain(crossing))
  /\ l = IF busy THEN k + 1 ELSE k
FrameNext(g, k, busy, crossing, frame, l) ==
  /\ frame \in Seq(Flit) /\ Len(frame) = l - g
  /\ \A j \in 1 .. Len(frame) : frame[j].n = g + j
  /\ NoTail(crossing) <=> ~busy \/ k + 1 # BufferSize
  /\ busy => k + 1 \in 1 .. BufferSize

\* What is in an output once a flit has crossed, if one does.
LEMMA Crossed ==
  ASSUME ChaosRouterAssumption, NEW q, NEW g, NEW k, NEW busy, NEW crossing, NEW frame, NEW l,
         FrameNow(q, g, k, busy, crossing, frame, l)
  PROVE  FrameNext(g, k, busy, crossing, frame, l)
<1> SUFFICES /\ frame \in Seq(Flit) /\ Len(frame) = l - g
             /\ \A j \in 1 .. Len(frame) : frame[j].n = g + j
             /\ NoTail(crossing) <=> ~busy \/ k + 1 # BufferSize
             /\ busy => k + 1 \in 1 .. BufferSize
  BY DEF FrameNext
<1>0. /\ q \in Seq(Flit) /\ g \in Nat /\ k \in Nat
      /\ Len(q) = k - g /\ \A j \in 1 .. Len(q) : q[j].n = g + j
      /\ busy \in BOOLEAN /\ Crosses(busy, k, crossing)
      /\ frame = q \o SetToSeq(Plain(crossing))
      /\ l = IF busy THEN k + 1 ELSE k
  BY DEF FrameNow
<1>1. CASE ~busy
  <2>1. crossing = {}
    BY <1>0, <1>1 DEF Crosses
  <2>2. Plain(crossing) = {} /\ NoTail(crossing)
    BY <2>1 DEF Plain, NoTail
  <2>3. q \o <<>> = q /\ l = k
    BY <1>0, <1>1
  <2>4. frame = q
    BY <1>0, <2>2, <2>3, SeqOfFew
  <2> QED BY <1>0, <1>1, <2>2, <2>3, <2>4
<1>2. CASE busy
  <2>1. PICK f \in Flit : f.n = k + 1 /\ crossing = {f}
    BY <1>0, <1>2 DEF Crosses
  <2> DEFINE e == [f EXCEPT !.route = {}]
  <2>2. Plain(crossing) = {e}
    BY <2>1 DEF Plain
  <2>3. e \in Flit /\ e.n = k + 1 /\ k + 1 \in 1 .. BufferSize
    BY <1>0, <2>1 DEF Flit
  <2> HIDE DEF e
  <2>4. frame = q \o <<e>> /\ l = k + 1
    BY <1>0, <1>2, <2>2, SeqOfFew
  <2>5. /\ frame \in Seq(Flit) /\ Len(frame) = Len(q) + 1
        /\ \A j \in 1 .. Len(q) : frame[j] = q[j]
        /\ frame[Len(q) + 1] = e
    <3>1. /\ q \o <<e>> \in Seq(Flit) /\ Len(q \o <<e>>) = Len(q) + 1
          /\ \A j \in 1 .. Len(q) : (q \o <<e>>)[j] = q[j]
          /\ (q \o <<e>>)[Len(q) + 1] = e
      BY <1>0, <2>3, OneMore
    <3>2. frame = q \o <<e>>
      BY <2>4
    <3> QED BY <3>1, <3>2
  <2>6. ASSUME NEW j \in 1 .. Len(frame) PROVE frame[j].n = g + j
    <3>1. j \in 1 .. Len(q) \/ j = Len(q) + 1
      BY <1>0, <2>5
    <3> QED BY <1>0, <2>3, <2>5, <3>1
  <2>7. NoTail(crossing) <=> k + 1 # BufferSize
    BY <1>0, <2>1 DEF IsTail, NoTail
  <2>8. Len(frame) = l - g
    BY <1>0, <2>4, <2>5
  <2> QED BY <1>0, <1>2, <2>3, <2>5, <2>6, <2>7, <2>8
<1> QED BY <1>0, <1>1, <1>2

\* The flit that is sent: s = 1 when one is, frame is what there is with what crosses, m whether the match stays.
SendNow(q, n, busy, crossing, frame, s, m, y, r) ==
  /\ n \in Int /\ busy \in BOOLEAN /\ s \in {0, 1} /\ m \in BOOLEAN
  /\ frame = q \o SetToSeq(Plain(crossing))
  /\ s = 1 <=> frame # <<>> /\ n < BufferSize
  /\ m <=> busy /\ NoTail(crossing)
  /\ y = [frame |-> q, count |-> n, matched |-> busy] /\ r = SendFlit(y, crossing)
SendNext(n, frame, s, m, r) ==
  r = [out |-> [frame |-> IF s = 1 THEN Tail(frame) ELSE frame, count |-> n + s, matched |-> m],
       sent |-> IF s = 1 THEN Head(frame).n ELSE 0]
\* What SendFlit gives.
LEMMA SendFlitIs ==
  ASSUME NEW q, NEW n, NEW busy, NEW crossing, NEW frame, NEW s, NEW m, NEW y, NEW r,
         SendNow(q, n, busy, crossing, frame, s, m, y, r)
  PROVE  SendNext(n, frame, s, m, r)
<1> SUFFICES SendFlit(y, crossing)
               = [out |-> [frame |-> IF s = 1 THEN Tail(frame) ELSE frame, count |-> n + s, matched |-> m],
                  sent |-> IF s = 1 THEN Head(frame).n ELSE 0]
  BY DEF SendNow, SendNext
<1>0. /\ n \in Int /\ busy \in BOOLEAN /\ s \in {0, 1} /\ m \in BOOLEAN
      /\ frame = q \o SetToSeq(Plain(crossing))
      /\ s = 1 <=> frame # <<>> /\ n < BufferSize
      /\ m <=> busy /\ NoTail(crossing)
      /\ y = [frame |-> q, count |-> n, matched |-> busy]
  BY DEF SendNow
<1> DEFINE kept == [y EXCEPT !.matched = @ /\ NoTail(crossing)]
<1>1. y.frame = q /\ y.count = n
  BY <1>0
<1>2. kept = [frame |-> q, count |-> n, matched |-> m]
  <2>1. (busy /\ NoTail(crossing)) = m
    BY <1>0
  <2> QED BY <1>0, <2>1
<1>3. SendFlit(y, crossing) =
        LET w == y.frame \o SetToSeq(Plain(crossing))
        IN IF w # <<>> /\ y.count < BufferSize
           THEN [out |-> [kept EXCEPT !.frame = Tail(w), !.count = @ + 1], sent |-> Head(w).n]
           ELSE [out |-> [kept EXCEPT !.frame = w], sent |-> 0]
  BY DEF SendFlit, Plain, NoTail
<1> HIDE DEF kept
<1>4. SendFlit(y, crossing) =
        IF s = 1 THEN [out |-> [kept EXCEPT !.frame = Tail(frame), !.count = @ + 1], sent |-> Head(frame).n]
        ELSE [out |-> [kept EXCEPT !.frame = frame], sent |-> 0]
  BY <1>0, <1>1, <1>3
<1>5. CASE s = 1
  <2> DEFINE v == [kept EXCEPT !.frame = Tail(frame), !.count = @ + 1]
  <2>1. SendFlit(y, crossing) = [out |-> v, sent |-> Head(frame).n]
    BY <1>4, <1>5
  <2>2. v = [kept EXCEPT !.frame = Tail(frame), !.count = @ + 1]
    OBVIOUS
  <2> HIDE DEF v
  <2>3. v = [frame |-> Tail(frame), count |-> n + 1, matched |-> m]
    BY <1>2, <2>2
  <2> QED BY <1>5, <2>1, <2>3
<1>6. CASE s = 0
  <2> DEFINE v == [kept EXCEPT !.frame = frame]
  <2>1. SendFlit(y, crossing) = [out |-> v, sent |-> 0]
    BY <1>4, <1>6
  <2>2. v = [kept EXCEPT !.frame = frame]
    OBVIOUS
  <2> HIDE DEF v
  <2>3. v = [frame |-> frame, count |-> n, matched |-> m]
    BY <1>2, <2>2
  <2>4. n + s = n
    BY <1>0, <1>6
  <2> QED BY <1>6, <2>1, <2>3, <2>4
<1> QED BY <1>0, <1>5, <1>6

\* An output that a credit comes for, when a = 1, and that is busy with a packet.
OutputNow(x, g, h, k, busy, a) ==
  /\ x \in OutputState /\ OutputBook(x, g, h, k)
  /\ h > 0 => x.count > 0
  /\ ~x.matched => k \in {0, BufferSize}
  /\ busy \in BOOLEAN /\ (x.matched => busy) /\ (busy /\ ~x.matched => k = 0)
  /\ a \in {0, 1} /\ (x.count = 0 => a = 0) /\ (x.count > 0 /\ h > 0 => a = 1)
SentNow(x, g, k, busy, a, frame, l, s, out) ==
  /\ l = (IF busy THEN k + 1 ELSE k) /\ (busy => k + 1 \in 1 .. BufferSize)
  /\ frame \in Seq(Flit) /\ Len(frame) = l - g /\ \A j \in 1 .. Len(frame) : frame[j].n = g + j
  /\ s \in {0, 1} /\ (s = 1 <=> frame # <<>> /\ x.count - a < BufferSize)
  /\ out = [frame |-> IF s = 1 THEN Tail(frame) ELSE frame, count |-> x.count - a + s,
            matched |-> busy /\ k + 1 # BufferSize]

\* What an output has once a flit has crossed and one has been sent.
LEMMA SendingOn ==
  ASSUME ChaosRouterAssumption, NEW x, NEW g, NEW h, NEW k, NEW busy, NEW a, OutputNow(x, g, h, k, busy, a),
         NEW frame, NEW l, NEW s, NEW out, SentNow(x, g, k, busy, a, frame, l, s, out),
         NEW b, b = IF s = 0 THEN g ELSE Under(g + 1),
         NEW d, d = IF a = 0 THEN h ELSE Under(h + 1)
  PROVE  \E c \in 0 .. BufferSize : OutputSent(g, h, k, busy, out, b, d, c)
<1> USE DEF OutputNow, SentNow
<1> DEFINE c == IF s = 1 /\ g + 1 = BufferSize THEN 0 ELSE l
           n == x.count
<1>1. BufferSize \in Nat \ {0, 1}
  BY Sizes
<1>2. /\ g \in 0 .. BufferSize - 1 /\ h \in 0 .. BufferSize - 1 /\ k \in 0 .. BufferSize
      /\ n = g - h \/ n = g - h + BufferSize
      /\ n \in 0 .. BufferSize /\ k >= g
  <2>1. Len(x.frame) \in Nat /\ Len(x.frame) = k - g
    BY DEF OutputBook, OutputState
  <2> QED BY <2>1 DEF OutputBook, Partly, OutputState
<1>3. l \in 0 .. BufferSize /\ (busy => l = k + 1) /\ (~busy => l = k)
  BY <1>2
<1>4. frame = <<>> <=> l = g
  BY <1>2, <1>3
<1>5. s = 1 => /\ Tail(frame) \in Seq(Flit) /\ Len(Tail(frame)) = l - (g + 1)
               /\ \A j \in 1 .. Len(Tail(frame)) : Tail(frame)[j].n = g + 1 + j
               /\ g + 1 <= l
  <2> SUFFICES ASSUME s = 1
               PROVE  /\ Tail(frame) \in Seq(Flit) /\ Len(Tail(frame)) = l - (g + 1)
                      /\ \A j \in 1 .. Len(Tail(frame)) : Tail(frame)[j].n = g + 1 + j
                      /\ g + 1 <= l
    OBVIOUS
  <2>1. /\ Tail(frame) \in Seq(Flit) /\ Len(frame) \in Nat \ {0}
        /\ Len(Tail(frame)) = Len(frame) - 1
        /\ \A j \in 1 .. Len(frame) - 1 : Tail(frame)[j] = frame[j + 1]
    BY HeadTail
  <2>2. Len(Tail(frame)) = l - (g + 1) /\ g + 1 <= l
    BY <1>2, <1>3, <2>1
  <2>3. ASSUME NEW j \in 1 .. Len(Tail(frame)) PROVE Tail(frame)[j].n = g + 1 + j
    <3>1. j + 1 \in 1 .. Len(frame) /\ g + (j + 1) = g + 1 + j /\ Tail(frame)[j] = frame[j + 1]
      BY <1>2, <2>1
    <3> QED BY <3>1
  <2> QED BY <2>1, <2>2, <2>3
<1>6. Under(g + 1) = IF g + 1 = BufferSize THEN 0 ELSE g + 1
  <2>1. g + 1 \in 1 .. BufferSize
    BY <1>1, <1>2
  <2> QED BY <2>1, Underway
<1>7. Under(h + 1) = IF h + 1 = BufferSize THEN 0 ELSE h + 1
  <2>1. h + 1 \in 1 .. BufferSize
    BY <1>1, <1>2
  <2> QED BY <2>1, Underway
<1> HIDE DEF n
<1>8. g > 0 /\ n - a < BufferSize => s = 1
  <2>1. g > 0 => l # g
    <3>1. CASE busy
      BY <1>2, <1>3, <3>1
    <3>2. CASE ~busy
      <4>1. l = k /\ k \in {0, BufferSize}
        BY <1>3, <3>2
      <4> QED BY <1>2, <4>1
    <3> QED BY <3>1, <3>2
  <2> QED BY <1>4, <2>1 DEF n
<1>9. CountNow(BufferSize, g, h, n, a, s, b, d)
  <2>1. /\ n = 0 => a = 0
        /\ n > 0 /\ h > 0 => a = 1
        /\ h > 0 => n > 0
        /\ s = 1 => n - a < BufferSize
    BY DEF n
  <2> QED BY <1>1, <1>2, <1>6, <1>7, <1>8, <2>1 DEF CountNow
<1>10. /\ g > 0 => s = 1
       /\ h > 0 => a = 1
       /\ n - a + s \in 0 .. BufferSize
       /\ n - a + s = b - d \/ n - a + s = b - d + BufferSize
       /\ d > 0 => n - a + s > 0
       /\ b \in 0 .. BufferSize - 1 /\ d \in 0 .. BufferSize - 1
  BY <1>9, Counts DEF CountNext
<1>11. /\ out \in OutputState
       /\ out.count = n - a + s
       /\ out.matched <=> busy /\ k + 1 # BufferSize
       /\ out.frame = IF s = 1 THEN Tail(frame) ELSE frame
  <2>1. (IF s = 1 THEN Tail(frame) ELSE frame) \in Seq(Flit)
    BY <1>5
  <2> QED BY <1>10, <2>1 DEF OutputState, n
<1>12. c \in 0 .. BufferSize
  BY <1>1, <1>3
<1>13. Len(out.frame) = c - b /\ \A j \in 1 .. Len(out.frame) : out.frame[j].n = b + j
  <2>1. CASE s = 0
    <3>1. out.frame = frame /\ b = g /\ c = l
      BY <1>11, <2>1
    <3> HIDE DEF c
    <3> QED BY <3>1
  <2>2. CASE s = 1 /\ g + 1 = BufferSize
    <3>1. b = 0 /\ c = 0 /\ out.frame = Tail(frame)
      BY <1>6, <1>11, <2>2
    <3>2. Len(Tail(frame)) = 0
      <4>1. l = g + 1
        BY <1>2, <1>3, <1>5, <2>2
      <4>2. Len(Tail(frame)) = l - (g + 1) /\ g + 1 \in Int
        BY <1>2, <1>5, <2>2
      <4> HIDE DEF c
      <4>3. \A z \in Int : z - z = 0
        OBVIOUS
      <4> QED BY <4>1, <4>2, <4>3
    <3> HIDE DEF c
    <3> QED BY <3>1, <3>2
  <2>3. CASE s = 1 /\ g + 1 # BufferSize
    <3>1. b = g + 1 /\ c = l /\ out.frame = Tail(frame)
      BY <1>6, <1>11, <2>3
    <3> HIDE DEF c
    <3> QED BY <1>5, <2>3, <3>1
  <2> QED BY <2>1, <2>2, <2>3
<1>14. OutputBook(out, b, d, c)
  BY <1>10, <1>11, <1>12, <1>13 DEF OutputBook, Partly
<1>15. ~out.matched => c \in {0, BufferSize}
  BY <1>2, <1>3, <1>11
<1>16. busy /\ k + 1 # BufferSize => c = k + 1
  BY <1>1, <1>2, <1>3, <1>5
<1>17. (g > 0 => b = Under(g + 1)) /\ (h > 0 => d = Under(h + 1))
  BY <1>10
<1> HIDE DEF c
<1>18. OutputSent(g, h, k, busy, out, b, d, c)
  BY <1>10, <1>11, <1>14, <1>15, <1>16, <1>17 DEF OutputSent
<1> QED BY <1>12, <1>18

\* The same of SendFlit itself.
LEMMA SendingFlit ==
  ASSUME ChaosRouterAssumption, NEW x, NEW g, NEW h, NEW k, NEW busy, NEW a, OutputNow(x, g, h, k, busy, a),
         NEW crossing, Crosses(busy, k, crossing),
         NEW y, y = [frame |-> x.frame, count |-> x.count - a, matched |-> busy],
         NEW r, r = SendFlit(y, crossing),
         NEW b, b = IF r.sent = 0 THEN g ELSE Under(r.sent),
         NEW d, d = IF a = 0 THEN h ELSE Under(h + 1)
  PROVE  \E c \in 0 .. BufferSize : OutputSent(g, h, k, busy, r.out, b, d, c)
<1> DEFINE q     == x.frame
           n     == x.count - a
           frame == q \o SetToSeq(Plain(crossing))
           l     == IF busy THEN k + 1 ELSE k
           s     == IF frame # <<>> /\ n < BufferSize THEN 1 ELSE 0
           m     == busy /\ k + 1 # BufferSize
           rest  == IF s = 1 THEN Tail(frame) ELSE frame
           sent  == IF s = 1 THEN Head(frame).n ELSE 0
           out   == [frame |-> rest, count |-> n + s, matched |-> m]
<1>1. /\ q \in Seq(Flit) /\ n \in Int /\ busy \in BOOLEAN
      /\ g \in Nat /\ k \in Nat /\ Len(q) = k - g
      /\ \A j \in 1 .. Len(q) : q[j].n = g + j
  BY Sizes DEF OutputNow, OutputBook, OutputState, Partly
<1>2. frame = q \o SetToSeq(Plain(crossing)) /\ l = IF busy THEN k + 1 ELSE k
  OBVIOUS
<1>3. s \in {0, 1} /\ (s = 1 <=> frame # <<>> /\ n < BufferSize)
  OBVIOUS
<1>4. m = (busy /\ k + 1 # BufferSize) /\ m \in BOOLEAN
  OBVIOUS
<1>5. y = [frame |-> q, count |-> n, matched |-> busy] /\ n = x.count - a
  OBVIOUS
<1>6. out = [frame |-> rest, count |-> n + s, matched |-> m]
  OBVIOUS
<1> HIDE DEF q, n, frame, l, s, m, out
<1>7. FrameNext(g, k, busy, crossing, frame, l)
  <2>1. FrameNow(q, g, k, busy, crossing, frame, l)
    BY <1>1, <1>2 DEF FrameNow
  <2> QED BY <2>1, Crossed
<1>8. r = [out |-> [frame |-> rest, count |-> n + s, matched |-> m], sent |-> sent]
  <2>1. m <=> busy /\ NoTail(crossing)
    BY <1>4, <1>7 DEF FrameNext
  <2>2. SendNow(q, n, busy, crossing, frame, s, m, y, r)
    BY <1>1, <1>2, <1>3, <1>4, <1>5, <2>1 DEF SendNow
  <2>3. SendNext(n, frame, s, m, r)
    BY <2>2, SendFlitIs
  <2> QED BY <2>3 DEF SendNext
<1>9. r.out = out /\ r.sent = sent
  <2> HIDE DEF rest, sent
  <2> QED BY <1>6, <1>8
<1>10. b = IF s = 0 THEN g ELSE Under(g + 1)
  <2>1. frame # <<>> => Head(frame).n = g + 1 /\ g + 1 # 0
    <3> SUFFICES ASSUME frame # <<>> PROVE Head(frame).n = g + 1 /\ g + 1 # 0
      OBVIOUS
    <3>0. frame \in Seq(Flit) /\ \A j \in 1 .. Len(frame) : frame[j].n = g + j
      BY <1>7 DEF FrameNext
    <3>1. Len(frame) \in Nat \ {0} /\ Head(frame) = frame[1]
      BY <3>0, HeadTail
    <3>2. 1 \in 1 .. Len(frame)
      BY <3>1
    <3> QED BY <1>1, <3>0, <3>1, <3>2
  <2> QED BY <1>3, <1>9, <2>1
<1>11. SentNow(x, g, k, busy, a, frame, l, s, out)
  BY <1>2, <1>3, <1>4, <1>5, <1>6, <1>7 DEF FrameNext, SentNow
<1>12. \E c \in 0 .. BufferSize : OutputSent(g, h, k, busy, out, b, d, c)
  BY <1>10, <1>11, SendingOn
<1> QED BY <1>9, <1>12

-----------------------------------------------------------------------------
(* A cycle, once the match is made.                                        *)

BusyWith(out) == [o \in Channels |-> output[o].matched \/ o = out]

\* What holds then: heard are the numbers of flits that have come in.
AfterMatch(x, heard, taken, stored, crossed) ==
  /\ \A i \in Channels : InputPaired(i, x.input[i], heard[i])
  /\ QueueLinks(x.input, x.multi, freed, stored)
  /\ OutputLinks(x.input, x.multi, BusyWith(x.out), freed, taken, crossed)
  /\ \A m \in Multi : /\ x.multi[m].matched => Len(multi[m].queue) < BufferSize
                      /\ x.multi[m].state = multi[m].state
  /\ \A o \in Channels : BusyWith(x.out)[o] /\ ~output[o].matched => crossed[o] = 0

\* The match keeps to the inputs' and queues' books, and to the links.
LEMMA MatchKeeps ==
  ASSUME ChaosRouterAssumption, TypeOK, InputsRight, NEW taken, NEW stored, NEW crossed,
         QueuesRight(taken, stored), OutputsRight(crossed),
         QueueLinks(input, multi, freed, stored), OutputLinks(input, multi, Busy, freed, taken, crossed),
         NEW ins, NEW heard, \A i \in Channels : InputRead(i, ins[i], heard[i]),
         NEW x, NEW j, NEW l, NEW at, NEW wq, Paired(ins, x, j, l, at, wq)
  PROVE  AfterMatch(x, heard, taken, stored, crossed)
<1>1. None \notin Channels /\ None \notin Multi /\ BufferSize \in Nat \ {0, 1}
  BY Sizes
<1>2. /\ j \in Channels \cup {None} /\ l \in Multi \cup {None}
      /\ at \in Channels \cup {None} /\ wq \in Multi \cup {None}
      /\ x.out \in Channels \cup {None}
      /\ x.out # None => Avail(x.out) /\ (j = None <=> l # None)
      /\ x.out = None => j = None /\ l = None
      /\ at # None <=> wq # None
      /\ at # None => at # j /\ Ready(ins[at])
      /\ j # None => Ready(ins[j])
      /\ l # None => Ready(multi[l])
      /\ wq # None => ~multi[wq].matched /\ Len(multi[wq].queue) < BufferSize
  BY DEF Paired, Pairs
<1>3. /\ \A i \in Channels : x.input[i] = PairedInput(ins[i], i, j, x.out, at, wq)
      /\ \A m \in Multi : x.multi[m] = PairedQueue(multi[m], m, l, x.out, wq)
  BY DEF Paired
<1>4. \A i \in Channels :
        /\ InputPaired(i, x.input[i], heard[i])
        /\ i = j \/ i = at => freed[i] = 0
        /\ x.input[i].out = IF i = j THEN x.out ELSE input[i].out
        /\ x.input[i].mq = IF i = at THEN wq ELSE input[i].mq
  <2> SUFFICES ASSUME NEW i \in Channels
               PROVE  /\ InputPaired(i, x.input[i], heard[i])
                      /\ i = j \/ i = at => freed[i] = 0
                      /\ x.input[i].out = IF i = j THEN x.out ELSE input[i].out
                      /\ x.input[i].mq = IF i = at THEN wq ELSE input[i].mq
    OBVIOUS
  <2>1. InputRead(i, ins[i], heard[i]) /\ x.input[i] = PairedInput(ins[i], i, j, x.out, at, wq)
    BY <1>3
  <2>2. i = j => Ready(ins[i]) /\ x.out # None
    BY <1>1, <1>2
  <2>3. i = at => Ready(ins[i]) /\ wq # None /\ at # j
    BY <1>1, <1>2
  <2> QED BY <1>2, <2>1, <2>2, <2>3, PairingInput
<1>5. \A m \in Multi : /\ QueueBook(multi[m], taken[m], stored[m]) /\ Settled(multi[m].state, taken[m], stored[m])
                       /\ multi[m] \in QueueState
  BY DEF QueuesRight, TypeOK
<1>6. \A m \in Multi : /\ x.multi[m].match = IF m = l THEN x.out ELSE multi[m].match
                       /\ x.multi[m].matched <=> multi[m].matched \/ m = wq
                       /\ x.multi[m].state = multi[m].state
  <2> SUFFICES ASSUME NEW m \in Multi
               PROVE  /\ x.multi[m].match = IF m = l THEN x.out ELSE multi[m].match
                      /\ x.multi[m].matched <=> multi[m].matched \/ m = wq
                      /\ x.multi[m].state = multi[m].state
    OBVIOUS
  <2> DEFINE z == multi[m]
             y == x.multi[m]
             out == x.out
  <2>1. /\ y = [z EXCEPT !.match = IF m = l THEN out ELSE @, !.matched = @ \/ m = wq]
        /\ z \in QueueState
    BY <1>3, <1>5 DEF PairedQueue
  <2> HIDE DEF y, z, out
  <2>2. /\ y.match = IF m = l THEN out ELSE z.match
        /\ y.matched <=> z.matched \/ m = wq
        /\ y.state = z.state
    BY <2>1 DEF QueueState
  <2> QED BY <2>2 DEF y, z, out
<1>7. \A m \in Multi : (taken[m] = 0 => multi[m].match = None) /\ (~multi[m].matched => stored[m] = 0)
  BY <1>5 DEF QueueBook, Book, Partly
<1>8. l # None => taken[l] = 0
  <2> SUFFICES ASSUME l # None PROVE taken[l] = 0
    OBVIOUS
  <2>1. l \in Multi /\ multi[l].state \in {"filling", "full"}
    BY <1>2 DEF Ready
  <2> QED BY <1>5, <2>1 DEF QueueBook, Book
<1>9. \A i \in Channels : freed[i] = 0 => input[i].out = None /\ input[i].mq = None
  BY DEF InputsRight
<1>10. x.out # None => ~output[x.out].matched /\ crossed[x.out] = 0
  <2> SUFFICES ASSUME x.out # None PROVE ~output[x.out].matched /\ crossed[x.out] = 0
    OBVIOUS
  <2>1. x.out \in Channels /\ ~output[x.out].matched /\ output[x.out].frame = <<>>
    BY <1>2 DEF Avail
  <2>2. OutputBook(output[x.out], going[x.out], freeing[x.out], crossed[x.out]) /\ crossed[x.out] \in {0, BufferSize}
    BY <2>1 DEF OutputsRight
  <2>3. Len(output[x.out].frame) = 0
    BY <2>1
  <2> QED BY <1>1, <2>1, <2>2, <2>3 DEF OutputBook, Partly
<1>11. \A o \in Channels : BusyWith(x.out)[o] <=> Busy[o] \/ o = x.out
  BY DEF BusyWith, Busy
<1>12. x.out # None => ~Busy[x.out] /\ crossed[x.out] = 0 /\ (j = None <=> l # None)
  BY <1>2, <1>10 DEF Busy
<1>13. /\ j # None => freed[j] = 0
       /\ wq # None => ~multi[wq].matched /\ stored[wq] = 0 /\ freed[at] = 0
  BY <1>2, <1>4, <1>7
<1>14. /\ QueueLinks(x.input, x.multi, freed, stored)
       /\ OutputLinks(x.input, x.multi, BusyWith(x.out), freed, taken, crossed)
  <2> DEFINE out == x.out
             p == x.input
             q == x.multi
             busy == BusyWith(out)
  <2>1. \A i \in Channels : /\ p[i].out = IF i = j THEN out ELSE input[i].out
                            /\ p[i].mq = IF i = at THEN wq ELSE input[i].mq
    BY <1>4
  <2>3. \A m \in Multi : /\ q[m].match = IF m = l THEN out ELSE multi[m].match
                         /\ q[m].matched <=> multi[m].matched \/ m = wq
    BY <1>6
  <2>4. \A o \in Channels : busy[o] <=> Busy[o] \/ o = out
    BY <1>11
  <2>5. /\ out # None => ~Busy[out] /\ crossed[out] = 0 /\ (j = None <=> l # None)
        /\ out = None => j = None /\ l = None
        /\ out \in Channels \cup {None}
    BY <1>2, <1>12
  <2> HIDE DEF out, p, q, busy
  <2>2. QueueLinks(p, q, freed, stored) /\ OutputLinks(p, q, busy, freed, taken, crossed)
    <3>1. MatchMade(p, q, busy, taken, stored, crossed, j, l, out, at, wq)
      BY <1>2, <1>7, <1>8, <1>9, <1>13, <2>1, <2>3, <2>4, <2>5 DEF MatchMade
    <3> QED BY <3>1, LinksMade
  <2> QED BY <2>2 DEF out, p, q, busy
<1>15. \A m \in Multi : x.multi[m].matched => Len(multi[m].queue) < BufferSize
  <2> SUFFICES ASSUME NEW m \in Multi, x.multi[m].matched PROVE Len(multi[m].queue) < BufferSize
    OBVIOUS
  <2>1. multi[m].matched \/ Len(multi[m].queue) < BufferSize
    BY <1>1, <1>2, <1>6
  <2> QED BY <1>5, <2>1, QueueRoom
<1>16. \A o \in Channels : BusyWith(x.out)[o] /\ ~output[o].matched => crossed[o] = 0
  BY <1>1, <1>10 DEF BusyWith
<1> QED BY <1>4, <1>6, <1>14, <1>15, <1>16 DEF AfterMatch

\* Those that send, and to which queue.
LEMMA SendersAre ==
  ASSUME ChaosRouterAssumption, NEW x, NEW heard, NEW taken, NEW stored, NEW crossed,
         AfterMatch(x, heard, taken, stored, crossed)
  PROVE  /\ Senders(x.input) = {i \in Channels : Bound(x.input[i])}
         /\ \A m \in Multi : IF x.multi[m].matched THEN \E i \in Channels : Into(x.input, m) = {i} /\ x.input[i].mq = m
                             ELSE Into(x.input, m) = {}
<1>1. \A i \in Channels : InputPaired(i, x.input[i], heard[i])
  BY DEF AfterMatch
<1>2. /\ \A i \in Channels : x.input[i].mq # None => x.multi[x.input[i].mq].matched
      /\ \A i, k \in Channels : x.input[i].mq # None /\ x.input[i].mq = x.input[k].mq => i = k
      /\ \A m \in Multi : x.multi[m].matched => \E i \in Channels : x.input[i].mq = m
  BY DEF AfterMatch, QueueLinks
<1>3. \A i \in Channels : x.input[i].mq \in Multi \cup {None} /\ (Bound(x.input[i]) => x.input[i].frame # <<>>)
  BY <1>1 DEF InputPaired, InputState
<1>4. \A i \in Channels : Advances(x.input[i]) <=> Bound(x.input[i])
  <2> SUFFICES ASSUME NEW i \in Channels PROVE Advances(x.input[i]) <=> Bound(x.input[i])
    OBVIOUS
  <2>1. x.input[i].mq # None => Len(multi[x.input[i].mq].queue) < BufferSize
    BY <1>2, <1>3 DEF AfterMatch
  <2> QED BY <1>3, <2>1 DEF Advances, Bound
<1>5. Senders(x.input) = {i \in Channels : Bound(x.input[i])}
  BY <1>4 DEF Senders
<1>6. ASSUME NEW m \in Multi
      PROVE  IF x.multi[m].matched THEN \E i \in Channels : Into(x.input, m) = {i} /\ x.input[i].mq = m
             ELSE Into(x.input, m) = {}
  <2>1. Into(x.input, m) = {i \in Channels : x.input[i].mq = m}
    BY <1>5, Sizes DEF Into, Bound
  <2>2. m # None
    BY Sizes
  <2>3. CASE x.multi[m].matched
    <3>1. PICK i \in Channels : x.input[i].mq = m
      BY <1>2, <2>3
    <3>2. Into(x.input, m) = {i}
      BY <1>2, <2>1, <2>2, <3>1
    <3> QED BY <2>3, <3>1, <3>2
  <2>4. CASE ~x.multi[m].matched
    BY <1>2, <2>1, <2>2, <2>4
  <2> QED BY <2>3, <2>4
<1> QED BY <1>5, <1>6

\* The inputs send their flits.
LEMMA InputsMove ==
  ASSUME ChaosRouterAssumption, TypeOK, NEW x, NEW heard, NEW taken, NEW stored, NEW crossed,
         AfterMatch(x, heard, taken, stored, crossed),
         NEW ins2, ins2 = [i \in Channels |-> IF i \in Senders(x.input) THEN Advanced(x.input[i]) ELSE x.input[i]],
         NEW freed2, freed2 = [i \in Channels |-> IF i \in Senders(x.input) THEN Under(Head(x.input[i].frame).n) ELSE freed[i]]
  PROVE  \A i \in Channels : InputSent(i, x.input[i], heard[i], ins2[i], freed2[i])
<1> SUFFICES ASSUME NEW i \in Channels PROVE InputSent(i, x.input[i], heard[i], ins2[i], freed2[i])
  OBVIOUS
<1> DEFINE y == x.input[i]
<1>1. i \in Senders(x.input) <=> Bound(y)
  BY SendersAre
<1>2. InputPaired(i, y, heard[i])
  BY DEF AfterMatch
<1>3. /\ ins2[i] = IF Bound(y) THEN Advanced(y) ELSE y
      /\ freed2[i] = IF Bound(y) THEN Under(Head(y.frame).n) ELSE freed[i]
  BY <1>1
<1> HIDE DEF y
<1>4. InputSent(i, y, heard[i], ins2[i], freed2[i])
  BY <1>2, <1>3, Sending
<1> QED BY <1>4 DEF y

\* What an input sends is its packet's next flit.
LEMMA HeadIs ==
  ASSUME ChaosRouterAssumption, TypeOK, NEW i \in Channels, NEW y, NEW c, InputPaired(i, y, c), Bound(y)
  PROVE  Head(y.frame) \in Flit /\ Head(y.frame).n = freed[i] + 1
<1>1. InputSent(i, y, c, IF Bound(y) THEN Advanced(y) ELSE y, IF Bound(y) THEN Under(Head(y.frame).n) ELSE freed[i])
  BY Sending
<1> QED BY <1>1 DEF InputSent

\* A multi-queue stores the flit that its input sends.
LEMMA QueueMoves ==
  ASSUME ChaosRouterAssumption, TypeOK, NEW ins, NEW x, NEW j, NEW l, NEW at, NEW wq, Paired(ins, x, j, l, at, wq),
         NEW heard, NEW taken, NEW stored, NEW crossed, QueuesRight(taken, stored),
         AfterMatch(x, heard, taken, stored, crossed), NEW queues, queues = Stored(x.input, x.multi),
         NEW m \in Multi
  PROVE  /\ QueueStored(x.multi[m], queues[m], taken[m], stored[m],
                        IF x.multi[m].matched THEN Under(stored[m] + 1) ELSE stored[m])
         /\ \A i \in Into(x.input, m) : StoreErrors(x.multi[m], Head(x.input[i].frame)) = {}
<1> DEFINE w == multi[m]
           y == x.multi[m]
           z == queues[m]
           t == taken[m]
           s == stored[m]
           d == IF x.multi[m].matched THEN Under(stored[m] + 1) ELSE stored[m]
           out == x.out
<1>1. None \notin Channels /\ None \notin Multi
  BY Sizes
<1>2. w \in QueueState /\ QueueBook(w, t, s) /\ Settled(w.state, t, s)
  BY DEF QueuesRight, TypeOK
<1>3. /\ out \in Channels \cup {None}
      /\ m = l => Ready(w) /\ out # None
      /\ m = wq => Len(w.queue) < BufferSize
  BY <1>1 DEF Paired, Pairs
<1>4. y = PairedQueue(w, m, l, out, wq)
  BY DEF Paired
<1>5. z = IF Into(x.input, m) = {} THEN y ELSE Store(y, Head(x.input[CHOOSE i \in Into(x.input, m) : TRUE].frame))
  BY DEF Stored
<1>6. IF y.matched THEN \E i \in Channels : Into(x.input, m) = {i} /\ x.input[i].mq = m
      ELSE Into(x.input, m) = {}
  BY SendersAre
<1>7. /\ y.matched => Len(w.queue) < BufferSize
      /\ y.state = w.state
  BY DEF AfterMatch
<1>8. d = IF y.matched THEN Under(s + 1) ELSE s
  OBVIOUS
<1> SUFFICES /\ QueueStored(y, z, t, s, d)
             /\ \A i \in Into(x.input, m) : StoreErrors(y, Head(x.input[i].frame)) = {}
  OBVIOUS
<1>9. ASSUME NEW i \in Channels, Into(x.input, m) = {i}, x.input[i].mq = m, y.matched
      PROVE  Head(x.input[i].frame) \in Flit /\ Head(x.input[i].frame).n = s + 1
  <2>1. stored[m] = freed[i]
    BY <1>1, <1>9 DEF AfterMatch, QueueLinks
  <2>2. InputPaired(i, x.input[i], heard[i]) /\ Bound(x.input[i])
    BY <1>1, <1>9 DEF AfterMatch, Bound
  <2>3. Head(x.input[i].frame) \in Flit /\ Head(x.input[i].frame).n = freed[i] + 1
    BY <2>2, HeadIs
  <2> QED BY <2>1, <2>3
<1> HIDE DEF w, y, z, t, s, d, out
<1>10. CASE ~y.matched
  <2>1. Into(x.input, m) = {} /\ z = y /\ d = s
    BY <1>5, <1>6, <1>8, <1>10
  <2>2. QueueStored(y, z, t, s, d)
    BY <1>2, <1>3, <1>4, <1>10, <2>1, Storing
  <2> QED BY <2>1, <2>2
<1>11. CASE y.matched
  <2>1. PICK i \in Channels : Into(x.input, m) = {i} /\ x.input[i].mq = m
    BY <1>6, <1>11
  <2> DEFINE f == Head(x.input[i].frame)
  <2>2. f \in Flit /\ f.n = s + 1
    BY <1>9, <1>11, <2>1
  <2>3. z = Store(y, f) /\ d = Under(s + 1)
    <3>1. (CHOOSE k \in Into(x.input, m) : TRUE) = i
      BY <2>1
    <3> QED BY <1>5, <1>8, <1>11, <2>1, <3>1
  <2> HIDE DEF f
  <2>4. QueueStored(y, z, t, s, d)
    BY <1>2, <1>3, <1>4, <1>11, <2>2, <2>3, Storing
  <2>5. StoreErrors(w, f) = {}
    BY <1>2, <1>7, <1>11, <2>2, StoredRight
  <2>6. StoreErrors(y, f) = {}
    BY <1>7, <2>5 DEF StoreErrors
  <2> QED BY <2>1, <2>4, <2>6 DEF f
<1> QED BY <1>10, <1>11

\* What a multi-queue sends is its packet's next flit.
LEMMA HeadTaken ==
  ASSUME ChaosRouterAssumption, NEW y, NEW z, NEW t \in Partly, NEW s, NEW d, QueueStored(y, z, t, s, d), z.match # None
  PROVE  Head(z.queue) \in Flit /\ Head(z.queue).n = t + 1 /\ TakeErrors(z) = {}
<1> DEFINE x == IF z.match # None THEN Take(z) ELSE z
           b == IF z.match # None THEN Under(t + 1) ELSE t
<1>1. x = (IF z.match # None THEN Take(z) ELSE z) /\ b = IF z.match # None THEN Under(t + 1) ELSE t
  OBVIOUS
<1> HIDE DEF x, b
<1> QED BY <1>1, Taking

\* Those that go on to an output.
LEMMA TakersAre ==
  ASSUME ChaosRouterAssumption, NEW x, NEW queues, NEW taken, NEW stored, NEW stored2,
         \A m \in Multi : QueueStored(x.multi[m], queues[m], taken[m], stored[m], stored2[m])
  PROVE  Takers(queues) = {m \in Multi : queues[m].match # None}
BY DEF Takers, QueueStored

\* What crosses to an output is the next flit of the packet that it is matched with.
LEMMA OntoIs ==
  ASSUME ChaosRouterAssumption, TypeOK, NEW x, NEW heard, NEW taken, taken \in [Multi -> Partly], NEW stored, NEW crossed,
         AfterMatch(x, heard, taken, stored, crossed),
         NEW queues, NEW stored2,
         \A m \in Multi : QueueStored(x.multi[m], queues[m], taken[m], stored[m], stored2[m]),
         NEW o \in Channels, NEW busy, busy = BusyWith(x.out)[o]
  PROVE  Crosses(busy, crossed[o], Onto(x.input, queues, o))
<1> DEFINE ins == x.input
           fromIns == {i \in Senders(ins) : ins[i].out = o}
           fromQueues == {m \in Takers(queues) : queues[m].match = o}
<1>1. o # None
  BY Sizes
<1>2. fromIns = {i \in Channels : ins[i].out = o}
  BY <1>1, SendersAre DEF Bound
<1>3. fromQueues = {m \in Multi : queues[m].match = o}
  BY <1>1, TakersAre
<1>4. Onto(ins, queues, o) = {Head(ins[i].frame) : i \in fromIns} \cup {Head(queues[m].queue) : m \in fromQueues}
  BY DEF Onto
<1> HIDE DEF fromIns, fromQueues
<1>5. \A m \in Multi : queues[m].match = x.multi[m].match
  BY DEF QueueStored
<1>6. /\ \A i \in Channels : ins[i].out = o => busy /\ crossed[o] = freed[i]
      /\ \A m \in Multi : queues[m].match = o => busy /\ crossed[o] = taken[m]
      /\ \A i, k \in Channels : ins[i].out = o /\ ins[k].out = o => i = k
      /\ \A m, l \in Multi : queues[m].match = o /\ queues[l].match = o => m = l
      /\ \A i \in Channels, m \in Multi : ~(ins[i].out = o /\ queues[m].match = o)
      /\ busy => (\E i \in Channels : ins[i].out = o) \/ (\E m \in Multi : queues[m].match = o)
  BY <1>1, <1>5 DEF AfterMatch, OutputLinks
<1>7. ASSUME NEW i \in Channels, ins[i].out = o
      PROVE  Crosses(busy, crossed[o], Onto(ins, queues, o))
  <2>1. fromIns = {i} /\ fromQueues = {}
    BY <1>2, <1>3, <1>6, <1>7
  <2>2. InputPaired(i, ins[i], heard[i]) /\ Bound(ins[i])
    BY <1>1, <1>7 DEF AfterMatch, Bound
  <2>3. Head(ins[i].frame) \in Flit /\ Head(ins[i].frame).n = freed[i] + 1
    BY <2>2, HeadIs
  <2>4. Onto(ins, queues, o) = {Head(ins[i].frame)}
    BY <1>4, <2>1
  <2>5. busy /\ crossed[o] = freed[i]
    BY <1>6, <1>7
  <2> QED BY <2>3, <2>4, <2>5 DEF Crosses
<1>8. ASSUME NEW m \in Multi, queues[m].match = o
      PROVE  Crosses(busy, crossed[o], Onto(ins, queues, o))
  <2>1. fromQueues = {m} /\ fromIns = {}
    BY <1>2, <1>3, <1>6, <1>8
  <2>2. QueueStored(x.multi[m], queues[m], taken[m], stored[m], stored2[m]) /\ taken[m] \in Partly
    OBVIOUS
  <2>3. Head(queues[m].queue) \in Flit /\ Head(queues[m].queue).n = taken[m] + 1
    BY <1>1, <1>8, <2>2, HeadTaken
  <2>4. Onto(ins, queues, o) = {Head(queues[m].queue)}
    BY <1>4, <2>1
  <2>5. busy /\ crossed[o] = taken[m]
    BY <1>6, <1>8
  <2> QED BY <2>3, <2>4, <2>5 DEF Crosses
<1>9. CASE ~busy
  <2>1. fromIns = {} /\ fromQueues = {}
    BY <1>2, <1>3, <1>6, <1>9
  <2> QED BY <1>4, <1>9, <2>1 DEF Crosses
<1> QED BY <1>6, <1>7, <1>8, <1>9

\* An output that a credit comes for, or none, and that may be matched now.
Credited(x, o, credit) == [output[o] EXCEPT !.count = IF credit THEN @ - 1 ELSE @, !.matched = @ \/ o = x.out]

\* Every output sends a flit, if it can.
LEMMA OutputMoves ==
  ASSUME ChaosRouterAssumption, TypeOK, NEW x, NEW heard, NEW taken, taken \in [Multi -> Partly], NEW stored,
         NEW crossed, OutputsRight(crossed),
         AfterMatch(x, heard, taken, stored, crossed),
         NEW queues, NEW stored2,
         \A m \in Multi : QueueStored(x.multi[m], queues[m], taken[m], stored[m], stored2[m]),
         NEW o \in Channels, NEW credit \in Credits(o),
         NEW r, r = SendFlit(Credited(x, o, credit), Onto(x.input, queues, o)),
         NEW b, b = IF r.sent = 0 THEN going[o] ELSE Under(r.sent),
         NEW d, d = IF credit THEN Under(freeing[o] + 1) ELSE freeing[o]
  PROVE  \E c \in 0 .. BufferSize :
           OutputSent(going[o], freeing[o], crossed[o], BusyWith(x.out)[o], r.out, b, d, c)
<1> DEFINE w == output[o]
           g == going[o]
           h == freeing[o]
           k == crossed[o]
           a == IF credit THEN 1 ELSE 0
           busy == BusyWith(x.out)[o]
           crossing == Onto(x.input, queues, o)
           y == Credited(x, o, credit)
<1>1. w \in OutputState
  BY DEF TypeOK
<1>2. busy = (w.matched \/ o = x.out) /\ busy \in BOOLEAN
  BY <1>1 DEF BusyWith, OutputState
<1>3. OutputBook(w, g, h, k) /\ (h > 0 => w.count > 0) /\ (~w.matched => k \in {0, BufferSize})
  BY DEF OutputsRight
<1>4. busy /\ ~w.matched => k = 0
  BY DEF AfterMatch
<1>5. credit \in BOOLEAN /\ (w.count = 0 => ~credit) /\ (w.count # 0 /\ h > 0 => credit)
  BY DEF Credits
<1>6. a \in {0, 1} /\ (w.count = 0 => a = 0) /\ (w.count > 0 /\ h > 0 => a = 1) /\ (a = 1 <=> credit)
  BY <1>1, <1>5 DEF OutputState
<1>7. Crosses(busy, k, crossing)
  <2>1. busy = BusyWith(x.out)[o]
    OBVIOUS
  <2> HIDE DEF busy
  <2> QED BY <2>1, OntoIs
<1>8. r = SendFlit(y, crossing)
  OBVIOUS
<1>9. y = [w EXCEPT !.count = IF credit THEN @ - 1 ELSE @, !.matched = @ \/ o = x.out]
  BY DEF Credited
<1> HIDE DEF w, g, h, k, busy, crossing, y
<1>10. y = [frame |-> w.frame, count |-> w.count - a, matched |-> busy]
  <2> DEFINE n == IF credit THEN w.count - 1 ELSE w.count
  <2>1. y = [w EXCEPT !.count = n, !.matched = busy]
    BY <1>2, <1>9
  <2>2. n = w.count - a
    BY <1>1 DEF OutputState
  <2>3. w = [frame |-> w.frame, count |-> w.count, matched |-> w.matched]
    BY <1>1 DEF OutputState
  <2> HIDE DEF n, a
  <2>4. y = [frame |-> w.frame, count |-> n, matched |-> busy]
    BY <2>1, <2>3
  <2> QED BY <2>2, <2>4
<1>11. OutputNow(w, g, h, k, busy, a)
  <2> HIDE DEF a
  <2> QED BY <1>1, <1>2, <1>3, <1>4, <1>6 DEF OutputNow
<1>12. d = (IF a = 0 THEN h ELSE Under(h + 1)) /\ b = IF r.sent = 0 THEN g ELSE Under(r.sent)
  BY <1>5 DEF g, h
<1> HIDE DEF a
<1>13. \E c \in 0 .. BufferSize : OutputSent(g, h, k, busy, r.out, b, d, c)
  BY <1>7, <1>8, <1>10, <1>11, <1>12, SendingFlit
<1> QED BY <1>13 DEF g, h, k, busy

-----------------------------------------------------------------------------
(* A cycle.                                                                *)

\* A cycle with what comes in, the match that is drawn and the credits that come.
Cycle(offer, ins, match, x, queues, credit) ==
  /\ \A i \in Channels : offer[i] \in Incoming(i)
  /\ coming' = [i \in Channels |-> Heard(i, offer[i])]
  /\ ins = [i \in Channels |-> Read(i, offer[i])]
  /\ match \in Matches(ins, Found(ins))
  /\ x = Matched(ins, match)
  /\ queues = Stored(x.input, x.multi)
  /\ \A o \in Channels : credit[o] \in Credits(o)
  /\ freeing' = [o \in Channels |-> IF credit[o] THEN Under(freeing[o] + 1) ELSE freeing[o]]
  /\ Moved(x, queues, credit)
  /\ broken' = Errors(offer, x, queues)

\* A step is such a cycle.
LEMMA StepIs ==
  ASSUME Step
  PROVE  \E offer, ins, match, x, queues, credit : Cycle(offer, ins, match, x, queues, credit)
<1>1. PICK offer \in OneEach([i \in Channels |-> Incoming(i)]) :
       /\ coming' = [i \in Channels |-> IF offer[i] = <<>> THEN coming[i] ELSE Under(offer[i][1].n)]
       /\ \E received \in {[i \in Channels |-> IF offer[i] = <<>> THEN input[i] ELSE Receive(input[i], offer[i][1])]} :
          \E match \in Matches(received, Found(received)) :
          \E x \in {Matched(received, match)} :
          \E queues \in {Stored(x.input, x.multi)} :
            /\ \E credit \in OneEach([o \in Channels |-> Credits(o)]) :
                 /\ freeing' = [o \in Channels |-> IF credit[o] THEN Under(freeing[o] + 1) ELSE freeing[o]]
                 /\ Moved(x, queues, credit)
            /\ broken' = Errors(offer, x, queues)
  BY DEF Step
<1> DEFINE ins == [i \in Channels |-> IF offer[i] = <<>> THEN input[i] ELSE Receive(input[i], offer[i][1])]
<1>2. PICK match \in Matches(ins, Found(ins)) :
          \E x \in {Matched(ins, match)} :
          \E queues \in {Stored(x.input, x.multi)} :
            /\ \E credit \in OneEach([o \in Channels |-> Credits(o)]) :
                 /\ freeing' = [o \in Channels |-> IF credit[o] THEN Under(freeing[o] + 1) ELSE freeing[o]]
                 /\ Moved(x, queues, credit)
            /\ broken' = Errors(offer, x, queues)
  BY <1>1
<1> DEFINE x == Matched(ins, match)
           queues == Stored(x.input, x.multi)
<1>3. PICK credit \in OneEach([o \in Channels |-> Credits(o)]) :
                 /\ freeing' = [o \in Channels |-> IF credit[o] THEN Under(freeing[o] + 1) ELSE freeing[o]]
                 /\ Moved(x, queues, credit)
  BY <1>2
<1>4. broken' = Errors(offer, x, queues)
  BY <1>2
<1>5. (\A i \in Channels : offer[i] \in Incoming(i)) /\ \A o \in Channels : credit[o] \in Credits(o)
  BY DEF OneEach
<1>6. /\ ins = [i \in Channels |-> Read(i, offer[i])]
      /\ coming' = [i \in Channels |-> Heard(i, offer[i])]
  BY <1>1 DEF Read, Heard
<1>7. x = Matched(ins, match) /\ queues = Stored(x.input, x.multi)
  OBVIOUS
<1> HIDE DEF x, queues, ins
<1>8. Cycle(offer, ins, match, x, queues, credit)
  BY <1>3, <1>4, <1>5, <1>6, <1>7 DEF Cycle
<1> QED BY <1>8

\* What the numbers are of in a state.
Books(taken, stored, crossed) ==
  /\ taken \in [Multi -> Partly] /\ stored \in [Multi -> Partly] /\ crossed \in [Channels -> 0 .. BufferSize]
  /\ QueuesRight(taken, stored)
  /\ OutputsRight(crossed)
  /\ QueueLinks(input, multi, freed, stored)
  /\ OutputLinks(input, multi, Busy, freed, taken, crossed)

\* All that the cycle does: the numbers afterwards are taken2, stored2 and crossed2.
Done(offer, ins, x, queues, taken, stored, crossed, taken2, stored2, crossed2) ==
  /\ \A i \in Channels : /\ InputRead(i, ins[i], coming'[i])
                         /\ offer[i] # <<>> => ReceiveErrors(input[i], offer[i][1]) = {}
                         /\ InputSent(i, x.input[i], coming'[i], input'[i], freed'[i])
  /\ AfterMatch(x, coming', taken, stored, crossed)
  /\ x.errors = {}
  /\ cur' \in Channels /\ stalled' \in BOOLEAN /\ (stalled' => Ready(x.input[cur']))
  /\ taken2 \in [Multi -> Partly] /\ stored2 \in [Multi -> Partly] /\ crossed2 \in [Channels -> 0 .. BufferSize]
  /\ \A m \in Multi :
       /\ QueueStored(x.multi[m], queues[m], taken[m], stored[m], stored2[m])
       /\ stored2[m] = IF x.multi[m].matched THEN Under(stored[m] + 1) ELSE stored[m]
       /\ taken2[m] = IF queues[m].match # None THEN Under(taken[m] + 1) ELSE taken[m]
       /\ multi'[m] = IF queues[m].match # None THEN Take(queues[m]) ELSE queues[m]
       /\ \A i \in Into(x.input, m) : StoreErrors(x.multi[m], Head(x.input[i].frame)) = {}
  /\ \A o \in Channels :
       /\ OutputSent(going[o], freeing[o], crossed[o], BusyWith(x.out)[o], output'[o], going'[o], freeing'[o], crossed2[o])
       /\ Crosses(BusyWith(x.out)[o], crossed[o], Onto(x.input, queues, o))

\* The parts of a cycle together.
LEMMA CycleDoes ==
  ASSUME ChaosRouterAssumption, TypeOK, InputsRight, stalled => Ready(input[cur]),
         NEW taken, NEW stored, NEW crossed, Books(taken, stored, crossed),
         NEW offer, NEW ins, NEW match, NEW x, NEW queues, NEW credit, Cycle(offer, ins, match, x, queues, credit)
  PROVE  \E taken2, stored2, crossed2 : Done(offer, ins, x, queues, taken, stored, crossed, taken2, stored2, crossed2)
<1>1. /\ taken \in [Multi -> Partly] /\ stored \in [Multi -> Partly] /\ crossed \in [Channels -> 0 .. BufferSize]
      /\ QueuesRight(taken, stored)
      /\ OutputsRight(crossed)
      /\ QueueLinks(input, multi, freed, stored)
      /\ OutputLinks(input, multi, Busy, freed, taken, crossed)
  BY DEF Books
<1>2. ASSUME NEW i \in Channels
      PROVE  /\ InputRead(i, ins[i], coming'[i])
             /\ offer[i] # <<>> => ReceiveErrors(input[i], offer[i][1]) = {}
  <2>1. offer[i] \in Incoming(i) /\ ins[i] = Read(i, offer[i]) /\ coming'[i] = Heard(i, offer[i])
    BY DEF Cycle
  <2> QED BY <2>1, Reading
<1>3. PICK j, l, at, wq : Paired(ins, x, j, l, at, wq)
  <2>1. ins \in [Channels -> InputState]
    <3>1. \A i \in Channels : ins[i] \in InputState
      BY <1>2 DEF InputRead
    <3>2. ins = [i \in Channels |-> ins[i]]
      BY DEF Cycle
    <3> QED BY <3>1, <3>2
  <2>2. cur \in Channels /\ stalled \in BOOLEAN /\ multi \in [Multi -> QueueState]
    BY DEF TypeOK
  <2>3. stalled => Ready(ins[cur])
    BY <1>2, <2>2 DEF InputRead
  <2>4. match \in Matches(ins, Found(ins)) /\ x = Matched(ins, match)
    BY DEF Cycle
  <2> QED BY <2>1, <2>2, <2>3, <2>4, Matching
<1> DEFINE heard == coming'
<1>4. AfterMatch(x, heard, taken, stored, crossed)
  <2>1. \A i \in Channels : InputRead(i, ins[i], heard[i])
    BY <1>2
  <2> HIDE DEF heard
  <2> QED BY <1>1, <1>3, <2>1, MatchKeeps
<1>5. \A i \in Channels : InputSent(i, x.input[i], heard[i], input'[i], freed'[i])
  <2>1. /\ input' = [i \in Channels |-> IF i \in Senders(x.input) THEN Advanced(x.input[i]) ELSE x.input[i]]
        /\ freed' = [i \in Channels |-> IF i \in Senders(x.input) THEN Under(Head(x.input[i].frame).n) ELSE freed[i]]
    BY DEF Cycle, Moved
  <2> HIDE DEF heard
  <2> QED BY <1>4, <2>1, InputsMove
<1> DEFINE stored2 == [m \in Multi |-> IF x.multi[m].matched THEN Under(stored[m] + 1) ELSE stored[m]]
           taken2 == [m \in Multi |-> IF queues[m].match # None THEN Under(taken[m] + 1) ELSE taken[m]]
<1>6. queues = Stored(x.input, x.multi)
  BY DEF Cycle
<1>7. ASSUME NEW m \in Multi
      PROVE  /\ QueueStored(x.multi[m], queues[m], taken[m], stored[m], stored2[m])
             /\ \A i \in Into(x.input, m) : StoreErrors(x.multi[m], Head(x.input[i].frame)) = {}
  <2>1. stored2[m] = IF x.multi[m].matched THEN Under(stored[m] + 1) ELSE stored[m]
    OBVIOUS
  <2> HIDE DEF stored2, heard
  <2> QED BY <1>1, <1>3, <1>4, <1>6, <2>1, QueueMoves
<1>8. ASSUME NEW m \in Multi
      PROVE  multi'[m] = IF queues[m].match # None THEN Take(queues[m]) ELSE queues[m]
  <2>1. multi'[m] = IF m \in Takers(queues) THEN Take(queues[m]) ELSE queues[m]
    BY DEF Cycle, Moved
  <2>2. \A k \in Multi : QueueStored(x.multi[k], queues[k], taken[k], stored[k], stored2[k])
    BY <1>7
  <2> HIDE DEF stored2
  <2>3. Takers(queues) = {k \in Multi : queues[k].match # None}
    BY <2>2, TakersAre
  <2> QED BY <2>1, <2>3
<1>9. \A m \in Multi : QueueStored(x.multi[m], queues[m], taken[m], stored[m], stored2[m])
  BY <1>7
<1>10. stored2 \in [Multi -> Partly] /\ taken2 \in [Multi -> Partly]
  <2>1. ASSUME NEW m \in Multi PROVE stored2[m] \in Partly
    BY <1>9 DEF QueueStored
  <2>2. ASSUME NEW m \in Multi PROVE taken2[m] \in Partly
    <3>1. taken[m] \in Partly /\ taken[m] + 1 \in 1 .. BufferSize
      BY <1>1, Sizes DEF Partly
    <3>2. Under(taken[m] + 1) \in Partly
      BY <3>1, Underway
    <3> QED BY <3>1, <3>2
  <2> QED BY <2>1, <2>2
<1> HIDE DEF stored2, taken2, heard
<1>11. PICK sent :
         /\ \A o \in Channels : sent[o] = SendFlit(Credited(x, o, credit[o]), Onto(x.input, queues, o))
         /\ \A o \in Channels : output'[o] = sent[o].out
         /\ \A o \in Channels : going'[o] = IF sent[o].sent = 0 THEN going[o] ELSE Under(sent[o].sent)
  <2> DEFINE f == [o \in Channels |->
                    SendFlit([output[o] EXCEPT !.count = IF credit[o] THEN @ - 1 ELSE @, !.matched = @ \/ o = x.out],
                             Onto(x.input, queues, o))]
  <2>1. PICK s \in {f} :
          /\ output' = [o \in Channels |-> s[o].out]
          /\ going' = [o \in Channels |-> IF s[o].sent = 0 THEN going[o] ELSE Under(s[o].sent)]
    BY DEF Cycle, Moved
  <2>2. \A o \in Channels : f[o] = SendFlit(Credited(x, o, credit[o]), Onto(x.input, queues, o))
    BY DEF Credited
  <2> HIDE DEF f
  <2>3. s = f
    OBVIOUS
  <2> QED BY <2>1, <2>2, <2>3
<1> DEFINE Sent(o, c) == OutputSent(going[o], freeing[o], crossed[o], BusyWith(x.out)[o], output'[o], going'[o], freeing'[o], c)
<1>12. ASSUME NEW o \in Channels
       PROVE  \E c \in 0 .. BufferSize : Sent(o, c)
  <2> DEFINE r == sent[o]
             g == credit[o]
  <2>2. /\ r = SendFlit(Credited(x, o, g), Onto(x.input, queues, o))
        /\ output'[o] = r.out /\ going'[o] = IF r.sent = 0 THEN going[o] ELSE Under(r.sent)
    BY <1>11
  <2>4. freeing'[o] = (IF g THEN Under(freeing[o] + 1) ELSE freeing[o]) /\ g \in Credits(o)
    BY DEF Cycle
  <2> HIDE DEF r, g
  <2>5. \E c \in 0 .. BufferSize :
          OutputSent(going[o], freeing[o], crossed[o], BusyWith(x.out)[o], r.out, going'[o], freeing'[o], c)
    BY <1>1, <1>4, <1>9, <2>2, <2>4, OutputMoves
  <2> QED BY <2>2, <2>5
<1>13. PICK crossed2 \in [Channels -> 0 .. BufferSize] : \A o \in Channels : Sent(o, crossed2[o])
  <2> DEFINE f == [o \in Channels |-> CHOOSE c \in 0 .. BufferSize : Sent(o, c)]
  <2> HIDE DEF Sent
  <2>1. f \in [Channels -> 0 .. BufferSize] /\ \A o \in Channels : Sent(o, f[o])
    BY <1>12
  <2> HIDE DEF f
  <2> QED BY <2>1
<1>14. \A o \in Channels : Crosses(BusyWith(x.out)[o], crossed[o], Onto(x.input, queues, o))
  BY <1>1, <1>4, <1>9, OntoIs
<1>15. x.errors = {} /\ cur' \in Channels /\ stalled' \in BOOLEAN /\ (stalled' => Ready(x.input[cur']))
  <2>1. cur' = x.cur /\ stalled' = x.stalled
    BY DEF Cycle, Moved
  <2> QED BY <1>3, <2>1 DEF Paired
<1>16. /\ \A m \in Multi : stored2[m] = IF x.multi[m].matched THEN Under(stored[m] + 1) ELSE stored[m]
       /\ \A m \in Multi : taken2[m] = IF queues[m].match # None THEN Under(taken[m] + 1) ELSE taken[m]
  BY DEF stored2, taken2
<1>17. Done(offer, ins, x, queues, taken, stored, crossed, taken2, stored2, crossed2)
  BY <1>2, <1>4, <1>5, <1>7, <1>8, <1>9, <1>10, <1>13, <1>14, <1>15, <1>16 DEF Done, heard
<1> QED BY <1>17

\* The links afterwards.
LEMMA LinksKept ==
  ASSUME ChaosRouterAssumption, TypeOK, InputsRight,
         NEW taken, NEW stored, NEW crossed, Books(taken, stored, crossed),
         NEW offer, NEW ins, NEW x, NEW queues, NEW taken2, NEW stored2, NEW crossed2,
         Done(offer, ins, x, queues, taken, stored, crossed, taken2, stored2, crossed2)
  PROVE  /\ QueueLinks(input', multi', freed', stored2)
         /\ OutputLinks(input', multi', Busy', freed', taken2, crossed2)
<1>1. BufferSize \in Nat \ {0, 1}
  BY Sizes
<1>2. ASSUME NEW i \in Channels
      PROVE  /\ x.input[i].out \in Channels \cup {None} /\ x.input[i].mq \in Multi \cup {None}
             /\ freed[i] \in Partly
             /\ input'[i].out = IF freed[i] + 1 = BufferSize THEN None ELSE x.input[i].out
             /\ input'[i].mq = IF freed[i] + 1 = BufferSize THEN None ELSE x.input[i].mq
             /\ freed'[i] = IF Bound(x.input[i]) THEN Under(freed[i] + 1) ELSE freed[i]
  <2>1. InputSent(i, x.input[i], coming'[i], input'[i], freed'[i]) /\ AfterMatch(x, coming', taken, stored, crossed)
    BY DEF Done
  <2>2. x.input[i] \in InputState /\ freed[i] \in Partly
    BY <2>1 DEF AfterMatch, InputPaired, TypeOK
  <2> QED BY <2>1, <2>2 DEF InputSent, InputState
<1>3. ASSUME NEW m \in Multi
      PROVE  /\ x.multi[m].match \in Channels \cup {None}
             /\ multi'[m].match = IF taken[m] + 1 = BufferSize THEN None ELSE x.multi[m].match
             /\ taken2[m] = IF x.multi[m].match # None THEN Under(taken[m] + 1) ELSE taken[m]
             /\ multi'[m].matched <=> x.multi[m].matched /\ stored[m] + 1 # BufferSize
             /\ stored2[m] = IF x.multi[m].matched THEN Under(stored[m] + 1) ELSE stored[m]
  <2> DEFINE y == x.multi[m]
             z == queues[m]
             w == multi'[m]
             t == taken[m]
             b == taken2[m]
             d == stored2[m]
             s == stored[m]
  <2>1. /\ QueueStored(y, z, t, s, d)
        /\ d = IF y.matched THEN Under(s + 1) ELSE s
        /\ b = IF z.match # None THEN Under(t + 1) ELSE t
        /\ w = IF z.match # None THEN Take(z) ELSE z
    BY DEF Done
  <2>2. t \in Partly
    BY DEF Books
  <2> HIDE DEF y, z, w, t, b, d, s
  <2>3. /\ w.match = IF t + 1 = BufferSize THEN None ELSE z.match
        /\ w.matched <=> z.matched
    BY <2>1, <2>2, Taking
  <2>4. z \in QueueState /\ z.match = y.match /\ (z.matched <=> y.matched /\ s + 1 # BufferSize)
    BY <2>1 DEF QueueStored
  <2>5. z.match \in Channels \cup {None}
    BY <2>4 DEF QueueState
  <2>6. /\ y.match \in Channels \cup {None}
        /\ w.match = IF t + 1 = BufferSize THEN None ELSE y.match
        /\ b = IF y.match # None THEN Under(t + 1) ELSE t
        /\ w.matched <=> y.matched /\ s + 1 # BufferSize
        /\ d = IF y.matched THEN Under(s + 1) ELSE s
    BY <2>1, <2>3, <2>4, <2>5
  <2> QED BY <2>6 DEF y, z, w, t, b, d, s
<1> DEFINE busy == BusyWith(x.out)
           busy2 == [o \in Channels |-> output'[o].matched]
<1>4. ASSUME NEW o \in Channels
      PROVE  /\ busy2[o] <=> busy[o] /\ crossed[o] + 1 # BufferSize
             /\ busy2[o] => crossed2[o] = Under(crossed[o] + 1)
  <2>1. /\ OutputSent(going[o], freeing[o], crossed[o], busy[o], output'[o], going'[o], freeing'[o], crossed2[o])
        /\ crossed2[o] \in 0 .. BufferSize
    BY DEF Done
  <2>2. crossed[o] \in 0 .. BufferSize
    BY DEF Books
  <2>3. busy2[o] <=> busy[o] /\ crossed[o] + 1 # BufferSize
    BY <2>1 DEF OutputSent
  <2>4. busy2[o] => crossed2[o] = crossed[o] + 1
    BY <2>1, <2>3 DEF OutputSent
  <2>5. ASSUME busy2[o] PROVE crossed2[o] = Under(crossed[o] + 1)
    <3>1. crossed[o] + 1 \in 1 .. BufferSize /\ crossed[o] + 1 # BufferSize
      BY <1>1, <2>1, <2>2, <2>3, <2>4, <2>5
    <3> QED BY <2>4, <2>5, <3>1, Underway
  <2> QED BY <2>3, <2>5
<1>5. /\ QueueLinks(x.input, x.multi, freed, stored)
      /\ OutputLinks(x.input, x.multi, busy, freed, taken, crossed)
  BY DEF Done, AfterMatch
<1>6. busy2 = Busy'
  BY DEF Busy
<1> DEFINE p == x.input
           q == x.multi
<1> HIDE DEF busy, busy2
<1>7. FlitsPassed(p, q, busy, freed, taken, stored, crossed,
                  input', multi', busy2, freed', taken2, stored2, crossed2)
  BY <1>2, <1>3, <1>4, <1>5 DEF FlitsPassed
<1> HIDE DEF p, q
<1>8. QueueLinks(input', multi', freed', stored2) /\ OutputLinks(input', multi', busy2, freed', taken2, crossed2)
  BY <1>7, LinksGoOn
<1> QED BY <1>6, <1>8

\* The buffers afterwards.
LEMMA BooksKept ==
  ASSUME ChaosRouterAssumption, TypeOK, InputsRight,
         NEW taken, NEW stored, NEW crossed, Books(taken, stored, crossed),
         NEW offer, NEW ins, NEW x, NEW queues, NEW taken2, NEW stored2, NEW crossed2,
         Done(offer, ins, x, queues, taken, stored, crossed, taken2, stored2, crossed2)
  PROVE  /\ \A i \in Channels :
              /\ input'[i] \in InputState /\ coming'[i] \in Partly /\ freed'[i] \in Partly
              /\ Book(input'[i].state, input'[i].frame, freed'[i], coming'[i])
              /\ Settled(input'[i].state, freed'[i], coming'[i])
              /\ coming'[i] > 0 => i \in Sources
              /\ freed'[i] > 0 <=> input'[i].out # None \/ input'[i].mq # None
              /\ input'[i].out = None \/ input'[i].mq = None
         /\ \A m \in Multi :
              /\ multi'[m] \in QueueState
              /\ QueueBook(multi'[m], taken2[m], stored2[m]) /\ Settled(multi'[m].state, taken2[m], stored2[m])
         /\ \A o \in Channels :
              /\ output'[o] \in OutputState /\ going'[o] \in Partly /\ freeing'[o] \in Partly
              /\ OutputBook(output'[o], going'[o], freeing'[o], crossed2[o])
              /\ freeing'[o] > 0 => output'[o].count > 0
              /\ ~output'[o].matched => crossed2[o] \in {0, BufferSize}
         /\ stalled' => Ready(input'[cur'])
<1>1. ASSUME NEW i \in Channels
      PROVE  /\ input'[i] \in InputState /\ coming'[i] \in Partly /\ freed'[i] \in Partly
             /\ Book(input'[i].state, input'[i].frame, freed'[i], coming'[i])
             /\ Settled(input'[i].state, freed'[i], coming'[i])
             /\ coming'[i] > 0 => i \in Sources
             /\ freed'[i] > 0 <=> input'[i].out # None \/ input'[i].mq # None
             /\ input'[i].out = None \/ input'[i].mq = None
  <2>1. /\ InputSent(i, x.input[i], coming'[i], input'[i], freed'[i])
        /\ InputRead(i, ins[i], coming'[i])
        /\ InputPaired(i, x.input[i], coming'[i])
    BY DEF Done, AfterMatch
  <2>2. input'[i].out = None \/ input'[i].mq = None
    BY <2>1 DEF InputSent, InputPaired
  <2>3. /\ input'[i] \in InputState /\ freed'[i] \in Partly
        /\ Book(input'[i].state, input'[i].frame, freed'[i], coming'[i])
        /\ Settled(input'[i].state, freed'[i], coming'[i])
        /\ freed'[i] > 0 <=> Bound(input'[i])
    BY <2>1 DEF InputSent
  <2>4. coming'[i] \in Partly /\ (coming'[i] > 0 => i \in Sources)
    BY <2>1 DEF InputRead
  <2> QED BY <2>2, <2>3, <2>4 DEF Bound
<1>2. ASSUME NEW m \in Multi
      PROVE  /\ multi'[m] \in QueueState
             /\ QueueBook(multi'[m], taken2[m], stored2[m]) /\ Settled(multi'[m].state, taken2[m], stored2[m])
  <2> DEFINE y == x.multi[m]
             z == queues[m]
             w == multi'[m]
             t == taken[m]
             b == taken2[m]
             d == stored2[m]
             s == stored[m]
  <2>1. /\ QueueStored(y, z, t, s, d)
        /\ b = IF z.match # None THEN Under(t + 1) ELSE t
        /\ w = IF z.match # None THEN Take(z) ELSE z
    BY DEF Done
  <2>2. t \in Partly
    BY DEF Books
  <2> HIDE DEF y, z, w, t, b, d, s
  <2>3. w \in QueueState /\ QueueBook(w, b, d) /\ Settled(w.state, b, d)
    BY <2>1, <2>2, Taking
  <2> QED BY <2>3 DEF w, b, d
<1>3. ASSUME NEW o \in Channels
      PROVE  /\ output'[o] \in OutputState /\ going'[o] \in Partly /\ freeing'[o] \in Partly
             /\ OutputBook(output'[o], going'[o], freeing'[o], crossed2[o])
             /\ freeing'[o] > 0 => output'[o].count > 0
             /\ ~output'[o].matched => crossed2[o] \in {0, BufferSize}
  <2>1. OutputSent(going[o], freeing[o], crossed[o], BusyWith(x.out)[o], output'[o], going'[o], freeing'[o], crossed2[o])
    BY DEF Done
  <2> QED BY <2>1 DEF OutputSent, OutputBook
<1>4. ASSUME stalled' PROVE Ready(input'[cur'])
  <2> DEFINE c == cur'
  <2>1. c \in Channels /\ Ready(x.input[c])
    BY <1>4 DEF Done
  <2>2. InputSent(c, x.input[c], coming'[c], input'[c], freed'[c]) /\ InputPaired(c, x.input[c], coming'[c])
    BY <2>1 DEF Done, AfterMatch
  <2> HIDE DEF c
  <2>3. ~Bound(x.input[c])
    BY <2>1, <2>2 DEF InputPaired, Ready, Moving
  <2>4. input'[c] = x.input[c]
    BY <2>2, <2>3 DEF InputSent
  <2>5. Ready(input'[c])
    BY <2>1, <2>4
  <2> QED BY <2>5 DEF c
<1> QED BY <1>1, <1>2, <1>3, <1>4

\* Error() is not called.
LEMMA NoErrors ==
  ASSUME ChaosRouterAssumption,
         NEW taken, NEW stored, NEW crossed, Books(taken, stored, crossed),
         NEW offer, NEW ins, NEW x, NEW queues, NEW taken2, NEW stored2, NEW crossed2,
         Done(offer, ins, x, queues, taken, stored, crossed, taken2, stored2, crossed2)
  PROVE  Errors(offer, x, queues) = {}
<1>1. UNION {ReceiveErrors(input[i], offer[i][1]) : i \in {i \in Channels : offer[i] # <<>>}} = {}
  BY DEF Done
<1>2. x.errors = {}
  BY DEF Done
<1>3. UNION {UNION {StoreErrors(x.multi[m], Head(x.input[i].frame)) : i \in Into(x.input, m)} : m \in Multi} = {}
  <2>1. \A m \in Multi : \A i \in Into(x.input, m) : StoreErrors(x.multi[m], Head(x.input[i].frame)) = {}
    BY DEF Done
  <2>2. ASSUME NEW m \in Multi
        PROVE  UNION {StoreErrors(x.multi[m], Head(x.input[i].frame)) : i \in Into(x.input, m)} = {}
    BY <2>1
  <2> QED BY <2>2
<1>4. UNION {TakeErrors(queues[m]) : m \in {m \in Multi : queues[m].match # None}} = {}
  <2> SUFFICES ASSUME NEW m \in Multi, queues[m].match # None PROVE TakeErrors(queues[m]) = {}
    OBVIOUS
  <2>1. QueueStored(x.multi[m], queues[m], taken[m], stored[m], stored2[m]) /\ taken[m] \in Partly
    BY DEF Done, Books
  <2> QED BY <2>1, HeadTaken
<1>5. {"two flits on one output" : o \in {o \in Channels : Cardinality(Onto(x.input, queues, o)) > 1}} = {}
  <2> SUFFICES ASSUME NEW o \in Channels PROVE ~(Cardinality(Onto(x.input, queues, o)) > 1)
    OBVIOUS
  <2> DEFINE crossing == Onto(x.input, queues, o)
  <2>1. Crosses(BusyWith(x.out)[o], crossed[o], crossing)
    BY DEF Done
  <2> HIDE DEF crossing
  <2>2. crossing = {} \/ \E f : crossing = {f}
    BY <2>1 DEF Crosses
  <2>3. Cardinality(crossing) = 0 \/ Cardinality(crossing) = 1
    BY <2>2, FS_EmptySet, FS_Singleton
  <2>4. ~(Cardinality(crossing) > 1)
    BY <2>3
  <2> QED BY <2>4 DEF crossing
<1> QED BY <1>1, <1>2, <1>3, <1>4, <1>5 DEF Errors

-----------------------------------------------------------------------------
(* The invariant.                                                          *)

\* At first everything is empty.
LEMMA InitHolds ==
  ASSUME ChaosRouterAssumption, Init
  PROVE  ChaosInv
<1>1. /\ BufferSize \in Nat \ {0, 1} /\ Ports \in Nat \ {0} /\ None \notin Channels /\ None \notin Multi
      /\ 0 \in Channels
  BY Sizes DEF Channels
<1>2. <<>> \in Seq(Flit) /\ Len(<<>>) = 0 /\ 0 \in Partly /\ 0 \in 0 .. BufferSize
  BY <1>1 DEF Partly
<1>3. /\ input = [i \in Channels |-> [state |-> "empty", frame |-> <<>>, out |-> None, mq |-> None]]
      /\ multi = [m \in Multi |-> [state |-> "empty", queue |-> <<>>, match |-> None, matched |-> FALSE]]
      /\ output = [o \in Channels |-> [frame |-> <<>>, count |-> 0, matched |-> FALSE]]
      /\ cur = 0 /\ stalled = FALSE /\ broken = {}
      /\ coming = [i \in Channels |-> 0] /\ freed = [i \in Channels |-> 0]
      /\ going = [i \in Channels |-> 0] /\ freeing = [i \in Channels |-> 0]
  BY DEF Init
<1>4. /\ \A i \in Channels : /\ input[i] = [state |-> "empty", frame |-> <<>>, out |-> None, mq |-> None]
                             /\ coming[i] = 0 /\ freed[i] = 0 /\ going[i] = 0 /\ freeing[i] = 0
                             /\ output[i] = [frame |-> <<>>, count |-> 0, matched |-> FALSE]
      /\ \A m \in Multi : multi[m] = [state |-> "empty", queue |-> <<>>, match |-> None, matched |-> FALSE]
  BY <1>3
<1>5. TypeOK
  <2>1. /\ input \in [Channels -> InputState] /\ multi \in [Multi -> QueueState] /\ output \in [Channels -> OutputState]
    BY <1>2, <1>3 DEF InputState, QueueState, OutputState, States
  <2>2. /\ coming \in [Channels -> Partly] /\ freed \in [Channels -> Partly]
        /\ going \in [Channels -> Partly] /\ freeing \in [Channels -> Partly]
    BY <1>2, <1>3
  <2> QED BY <1>1, <1>3, <2>1, <2>2 DEF TypeOK
<1>6. Book("empty", <<>>, 0, 0) /\ Settled("empty", 0, 0)
  BY <1>2 DEF Book, Settled, Begun, Moving
<1>7. InputsRight
  BY <1>4, <1>6 DEF InputsRight
<1> DEFINE none == [m \in Multi |-> 0]
           zero == [o \in Channels |-> 0]
<1>8. none \in [Multi -> Partly] /\ zero \in [Channels -> 0 .. BufferSize]
  BY <1>2
<1>9. (\A m \in Multi : none[m] = 0) /\ \A o \in Channels : zero[o] = 0
  OBVIOUS
<1> HIDE DEF none, zero
<1>10. QueuesRight(none, none)
  BY <1>4, <1>6, <1>9 DEF QueuesRight, QueueBook
<1>11. OutputsRight(zero)
  BY <1>2, <1>4, <1>9 DEF OutputsRight, OutputBook
<1>12. QueueLinks(input, multi, freed, none)
  BY <1>4 DEF QueueLinks
<1>13. OutputLinks(input, multi, Busy, freed, none, zero)
  BY <1>4 DEF OutputLinks, Busy
<1> QED BY <1>3, <1>5, <1>7, <1>8, <1>10, <1>11, <1>12, <1>13 DEF ChaosInv

\* A cycle keeps it, and packets go on.
LEMMA StepHolds ==
  ASSUME ChaosRouterAssumption, ChaosInv, Step
  PROVE  ChaosInv' /\ AllGoOn
<1>1. /\ TypeOK /\ InputsRight /\ (stalled => Ready(input[cur]))
      /\ \E taken, stored, crossed : Books(taken, stored, crossed)
  BY DEF ChaosInv, Books
<1>2. PICK taken, stored, crossed : Books(taken, stored, crossed)
  BY <1>1
<1>3. PICK offer, ins, match, x, queues, credit : Cycle(offer, ins, match, x, queues, credit)
  BY StepIs
<1>4. PICK taken2, stored2, crossed2 :
        Done(offer, ins, x, queues, taken, stored, crossed, taken2, stored2, crossed2)
  BY <1>1, <1>2, <1>3, CycleDoes
<1>5. broken' = {}
  BY <1>2, <1>3, <1>4, NoErrors DEF Cycle
<1>6. /\ QueueLinks(input', multi', freed', stored2)
      /\ OutputLinks(input', multi', Busy', freed', taken2, crossed2)
  BY <1>1, <1>2, <1>4, LinksKept
<1>7. /\ \A i \in Channels :
           /\ input'[i] \in InputState /\ coming'[i] \in Partly /\ freed'[i] \in Partly
           /\ Book(input'[i].state, input'[i].frame, freed'[i], coming'[i])
           /\ Settled(input'[i].state, freed'[i], coming'[i])
           /\ coming'[i] > 0 => i \in Sources
           /\ freed'[i] > 0 <=> input'[i].out # None \/ input'[i].mq # None
           /\ input'[i].out = None \/ input'[i].mq = None
      /\ \A m \in Multi :
           /\ multi'[m] \in QueueState
           /\ QueueBook(multi'[m], taken2[m], stored2[m]) /\ Settled(multi'[m].state, taken2[m], stored2[m])
      /\ \A o \in Channels :
           /\ output'[o] \in OutputState /\ going'[o] \in Partly /\ freeing'[o] \in Partly
           /\ OutputBook(output'[o], going'[o], freeing'[o], crossed2[o])
           /\ freeing'[o] > 0 => output'[o].count > 0
           /\ ~output'[o].matched => crossed2[o] \in {0, BufferSize}
      /\ stalled' => Ready(input'[cur'])
  BY <1>1, <1>2, <1>4, BooksKept
<1>8. /\ input' = [i \in Channels |-> input'[i]] /\ coming' = [i \in Channels |-> coming'[i]]
      /\ freed' = [i \in Channels |-> freed'[i]] /\ multi' = [m \in Multi |-> multi'[m]]
      /\ output' = [o \in Channels |-> output'[o]] /\ going' = [o \in Channels |-> going'[o]]
      /\ freeing' = [o \in Channels |-> freeing'[o]]
  BY <1>3 DEF Cycle, Moved
<1>9. TypeOK'
  <2>1. cur' \in Channels /\ stalled' \in BOOLEAN
    BY <1>4 DEF Done
  <2>2. input' \in [Channels -> InputState] /\ multi' \in [Multi -> QueueState] /\ output' \in [Channels -> OutputState]
    BY <1>7, <1>8
  <2>3. /\ coming' \in [Channels -> Partly] /\ freed' \in [Channels -> Partly]
        /\ going' \in [Channels -> Partly] /\ freeing' \in [Channels -> Partly]
    BY <1>7, <1>8
  <2> QED BY <2>1, <2>2, <2>3 DEF TypeOK
<1>10. InputsRight'
  BY <1>7 DEF InputsRight
<1>11. QueuesRight(taken2, stored2)' /\ OutputsRight(crossed2)'
  BY <1>7 DEF QueuesRight, OutputsRight
<1>12. /\ taken2 \in [Multi -> Partly] /\ stored2 \in [Multi -> Partly] /\ crossed2 \in [Channels -> 0 .. BufferSize]
  BY <1>4 DEF Done
<1>13. QueueLinks(input, multi, freed, stored2)' /\ OutputLinks(input, multi, Busy, freed, taken2, crossed2)'
  BY <1>6
<1>14. (stalled => Ready(input[cur]))'
  BY <1>7
<1>15. ChaosInv'
  BY <1>5, <1>9, <1>10, <1>11, <1>12, <1>13, <1>14 DEF ChaosInv
<1>16. AllGoOn
  <2>1. \A i \in Channels : coming[i] > 0 => coming'[i] = Under(coming[i] + 1)
    BY <1>4 DEF Done, InputRead
  <2>2. \A i \in Channels : freed[i] > 0 => freed'[i] = Under(freed[i] + 1)
    BY <1>4 DEF Done, InputSent
  <2>3. \A o \in Channels : /\ going[o] > 0 => going'[o] = Under(going[o] + 1)
                            /\ freeing[o] > 0 => freeing'[o] = Under(freeing[o] + 1)
    BY <1>4 DEF Done, OutputSent
  <2> QED BY <2>1, <2>2, <2>3 DEF AllGoOn, GoesOn
<1> QED BY <1>15, <1>16

-----------------------------------------------------------------------------
(* What it says of the buffers.                                            *)

\* A buffer's numbers say where its heads and tails are.
LEMMA BookHolds ==
  ASSUME ChaosRouterAssumption, NEW state, NEW q, NEW g, NEW c, Book(state, q, g, c), Settled(state, g, c)
  PROVE  Holds(state, q)
<1> DEFINE heads == {k \in DOMAIN q : IsHead(q[k])}
           tails == {k \in DOMAIN q : IsTail(q[k])}
<1>1. BufferSize \in Nat \ {0, 1} /\ g \in 0 .. BufferSize - 1 /\ c \in 0 .. BufferSize - 1
  BY Sizes DEF Book, Partly
<1>2. /\ DOMAIN q = 1 .. Len(q) /\ Len(q) \in Nat /\ q \in Seq(Flit)
      /\ \A k \in 1 .. Len(q) : q[k].n = Number(g, k)
  BY DEF Book
<1>3. /\ heads = {k \in 1 .. Len(q) : Number(g, k) = 1}
      /\ tails = {k \in 1 .. Len(q) : Number(g, k) = BufferSize}
  BY <1>2 DEF IsHead, IsTail
<1>4. Holds(state, q) =
        CASE state = "empty"       -> q = <<>>
          [] state = "filling"     -> heads = {1} /\ tails = {}
          [] state = "full"        -> heads = {1} /\ tails = {BufferSize} /\ Len(q) = BufferSize
          [] state = "leaving"     -> heads = {} /\ tails = {Len(q)}
          [] state = "cut_through" -> heads = {} /\ tails = {}
          [] state = "shared"      -> \E k \in 1 .. Len(q) - 1 : tails = {k} /\ heads = {k + 1}
  BY DEF Holds
<1>5. g > 0 <=> state \in Moving
  BY DEF Settled, Begun
<1>6. \/ state = "empty"       /\ g = 0 /\ c = 0 /\ Len(q) = 0
      \/ state = "filling"     /\ g = 0 /\ c > 0 /\ Len(q) = c
      \/ state = "full"        /\ g = 0 /\ c = 0 /\ Len(q) = BufferSize
      \/ state = "leaving"     /\ g > 0 /\ Len(q) = BufferSize - g
      \/ state = "cut_through" /\ g > 0 /\ c >= g /\ Len(q) = c - g
      \/ state = "shared"      /\ g > 0 /\ c > 0 /\ c < g /\ Len(q) = BufferSize - g + c
  BY <1>5 DEF Book, Settled, Moving
<1> HIDE DEF heads, tails
<1>7. CASE state = "empty"
  <2>1. q = <<>>
    BY <1>2, <1>6, <1>7
  <2> QED BY <1>4, <1>7, <2>1
<1>8. CASE state = "filling"
  <2>1. g = 0 /\ c > 0 /\ Len(q) = c
    BY <1>6, <1>8
  <2>2. heads = {1} /\ tails = {}
    BY <1>1, <1>3, <2>1 DEF Number
  <2> QED BY <1>4, <1>8, <2>2
<1>9. CASE state = "full"
  <2>1. g = 0 /\ Len(q) = BufferSize
    BY <1>6, <1>9
  <2>2. heads = {1} /\ tails = {BufferSize}
    BY <1>1, <1>3, <2>1 DEF Number
  <2> QED BY <1>4, <1>9, <2>1, <2>2
<1>10. CASE state = "leaving"
  <2>1. g > 0 /\ Len(q) = BufferSize - g
    BY <1>6, <1>10
  <2>2. heads = {} /\ tails = {Len(q)}
    BY <1>1, <1>3, <2>1 DEF Number
  <2> QED BY <1>4, <1>10, <2>2
<1>11. CASE state = "cut_through"
  <2>1. g > 0 /\ Len(q) = c - g
    BY <1>6, <1>11
  <2>2. heads = {} /\ tails = {}
    BY <1>1, <1>2, <1>3, <2>1 DEF Number
  <2> QED BY <1>4, <1>11, <2>2
<1>12. CASE state = "shared"
  <2>1. g > 0 /\ c > 0 /\ c < g /\ Len(q) = BufferSize - g + c
    BY <1>6, <1>12
  <2> DEFINE k == BufferSize - g
  <2>2. heads = {k + 1} /\ tails = {k}
    BY <1>1, <1>3, <2>1 DEF Number
  <2>3. k \in 1 .. Len(q) - 1
    BY <1>1, <2>1
  <2> HIDE DEF k
  <2>4. \E j \in 1 .. Len(q) - 1 : tails = {j} /\ heads = {j + 1}
    BY <2>2, <2>3
  <2> QED BY <1>4, <1>12, <2>4
<1> QED BY <1>6, <1>7, <1>8, <1>9, <1>10, <1>11, <1>12

\* A set that has one element or none.
LEMMA OneOrNone ==
  ASSUME NEW S, NEW T, NEW P \in BOOLEAN,
         \/ P /\ (\E e : S = {e}) /\ T = {}
         \/ P /\ S = {} /\ (\E e : T = {e})
         \/ ~P /\ S = {} /\ T = {}
  PROVE  Cardinality(S) + Cardinality(T) = IF P THEN 1 ELSE 0
<1>1. Cardinality({}) = 0 /\ \A e : Cardinality({e}) = 1
  BY FS_EmptySet, FS_Singleton
<1> QED BY <1>1

\* What is proved for every buffer and match.
LEMMA InvStates ==
  ASSUME ChaosRouterAssumption, ChaosInv
  PROVE  BuffersAsStated
<1>1. PICK taken, stored, crossed : Books(taken, stored, crossed)
  BY DEF ChaosInv, Books
<1>2. \A i \in Channels : Holds(input[i].state, input[i].frame)
  BY BookHolds DEF ChaosInv, InputsRight
<1>3. \A m \in Multi : Holds(multi[m].state, multi[m].queue)
  BY <1>1, BookHolds DEF Books, QueuesRight, QueueBook
<1>4. None \notin Channels /\ None \notin Multi
  BY Sizes
<1>5. ASSUME NEW o \in Channels
      PROVE  Cardinality({i \in Channels : input[i].out = o}) + Cardinality({m \in Multi : multi[m].match = o})
               = IF output[o].matched THEN 1 ELSE 0
  <2> DEFINE S == {i \in Channels : input[i].out = o}
             T == {m \in Multi : multi[m].match = o}
             P == output[o].matched
  <2>1. P \in BOOLEAN
    BY DEF ChaosInv, TypeOK, OutputState
  <2>2. /\ \A i \in Channels : input[i].out = o => P
        /\ \A m \in Multi : multi[m].match = o => P
        /\ \A i, k \in Channels : input[i].out = o /\ input[k].out = o => i = k
        /\ \A m, l \in Multi : multi[m].match = o /\ multi[l].match = o => m = l
        /\ \A i \in Channels, m \in Multi : ~(input[i].out = o /\ multi[m].match = o)
        /\ P => (\E i \in Channels : input[i].out = o) \/ (\E m \in Multi : multi[m].match = o)
    <3>1. /\ \A i \in Channels : input[i].out # None => Busy[input[i].out]
          /\ \A m \in Multi : multi[m].match # None => Busy[multi[m].match]
          /\ \A i, k \in Channels : input[i].out # None /\ input[i].out = input[k].out => i = k
          /\ \A m, l \in Multi : multi[m].match # None /\ multi[m].match = multi[l].match => m = l
          /\ \A i \in Channels, m \in Multi : input[i].out # None => input[i].out # multi[m].match
          /\ Busy[o] => (\E i \in Channels : input[i].out = o) \/ (\E m \in Multi : multi[m].match = o)
      BY <1>1 DEF Books, OutputLinks
    <3>2. (Busy[o] <=> P) /\ o # None
      BY <1>4 DEF Busy
    <3> QED BY <3>1, <3>2
  <2>3. \/ P /\ (\E e : S = {e}) /\ T = {}
        \/ P /\ S = {} /\ (\E e : T = {e})
        \/ ~P /\ S = {} /\ T = {}
    <3>1. ASSUME NEW i \in Channels, input[i].out = o PROVE P /\ S = {i} /\ T = {}
      BY <2>2, <3>1
    <3>2. ASSUME NEW m \in Multi, multi[m].match = o PROVE P /\ S = {} /\ T = {m}
      BY <2>2, <3>2
    <3>3. ASSUME ~P PROVE S = {} /\ T = {}
      BY <2>2, <3>3
    <3> HIDE DEF S, T
    <3> QED BY <2>2, <3>1, <3>2, <3>3
  <2> HIDE DEF S, T, P
  <2>4. Cardinality(S) + Cardinality(T) = IF P THEN 1 ELSE 0
    BY <2>1, <2>3, OneOrNone
  <2> QED BY <2>4 DEF S, T, P
<1>6. ASSUME NEW m \in Multi
      PROVE  Cardinality({i \in Channels : input[i].mq = m}) = IF multi[m].matched THEN 1 ELSE 0
  <2> DEFINE S == {i \in Channels : input[i].mq = m}
             P == multi[m].matched
  <2>1. P \in BOOLEAN
    BY DEF ChaosInv, TypeOK, QueueState
  <2>2. IF P THEN \E e : S = {e} ELSE S = {}
    <3>1. /\ \A i \in Channels : input[i].mq = m => P
          /\ \A i, k \in Channels : input[i].mq = m /\ input[k].mq = m => i = k
          /\ P => \E i \in Channels : input[i].mq = m
      <4>1. /\ \A i \in Channels : input[i].mq # None => multi[input[i].mq].matched
            /\ \A i, k \in Channels : input[i].mq # None /\ input[i].mq = input[k].mq => i = k
            /\ multi[m].matched => \E i \in Channels : input[i].mq = m
        BY <1>1 DEF Books, QueueLinks
      <4> QED BY <1>4, <4>1
    <3>2. ASSUME NEW i \in Channels, input[i].mq = m PROVE P /\ S = {i}
      BY <3>1, <3>2
    <3>3. ASSUME ~P PROVE S = {}
      BY <3>1, <3>3
    <3> HIDE DEF S
    <3> QED BY <3>1, <3>2, <3>3
  <2> HIDE DEF S, P
  <2>3. Cardinality(S) = IF P THEN 1 ELSE 0
    BY <2>1, <2>2, FS_EmptySet, FS_Singleton
  <2> QED BY <2>3 DEF S, P
<1>7. broken = {}
  BY DEF ChaosInv
<1> QED BY <1>2, <1>3, <1>5, <1>6, <1>7 DEF BuffersAsStated, MatchedOnce

-----------------------------------------------------------------------------
\* The invariant holds in every behaviour.
LEMMA ChaosInvariant ==
  ASSUME ChaosRouterAssumption
  PROVE  Spec => []ChaosInv
<1>1. Init => ChaosInv
  BY InitHolds
<1>2. ChaosInv /\ [Step]_vars => ChaosInv'
  <2>1. ASSUME ChaosInv, Step PROVE ChaosInv'
    BY <2>1, StepHolds
  <2>2. ASSUME ChaosInv, UNCHANGED vars PROVE ChaosInv'
    BY <2>2 DEF ChaosInv, TypeOK, InputsRight, QueuesRight, OutputsRight, Busy, vars, routerVars, passing
  <2> QED BY <2>1, <2>2
<1> QED BY <1>1, <1>2, PTL DEF Spec

\* The chaos router never calls Error(): what ReadInputs, _NextInterestingChannel and
\* _OutputAdvance take a state to say of a frame or a multi-queue is true, and every output and
\* multi-queue that is marked as matched is so with one.
THEOREM ChaosBuffersAsStated ==
  ASSUME ChaosRouterAssumption
  PROVE  Spec => []BuffersAsStated
<1>1. ChaosInv => BuffersAsStated
  BY InvStates
<1> QED BY <1>1, ChaosInvariant, PTL

\* A packet that has begun to pass goes on in every cycle: _OutputAdvance and _SendFlits send its
\* next flit, when the neighbours do not pause unless they have to.
THEOREM ChaosPacketsGoOn ==
  ASSUME ChaosRouterAssumption
  PROVE  Spec => Unbroken
<1>1. ChaosInv /\ [Step]_vars => [AllGoOn]_vars
  BY StepHolds
<1> QED BY <1>1, ChaosInvariant, PTL DEF Spec, Unbroken
=============================================================================
