--------------------------- MODULE IQRouterProofs ----------------------------
(****************************************************************************)
(* Proofs about IQRouter, for every number of ports, VCs, slots and flits.  *)
(* They assume allocators that answer in the cycle in which they are asked, *)
(* as in every configuration of the repository; with another delay the      *)
(* requests of two cycles wait in one deque, which the code does not handle *)
(* (EveryRequestStamped).                                                   *)
(*                                                                          *)
(* The argument follows the phases of a cycle.  With these delays a VC      *)
(* stands at most once in a deque, and whether it does is a matter of its   *)
(* state.  A grant is a promise about the state of the router that the      *)
(* handlers between the grant and its use must keep: the handlers that send *)
(* flits are the ones that could break it, and what they change belongs to  *)
(* the VC that sends.                                                       *)
(****************************************************************************)
EXTENDS IQRouter, TLAPS, FiniteSetTheorems

UnitDelays == \A c \in Configs : c.vcAllocDelay = 1 /\ c.swAllocDelay = 1

-----------------------------------------------------------------------------
(* The inductive invariant.                                                *)

Flit == [n : Nat, tail : BOOLEAN, out : Outputs]
Crossing == [due : {New, 0}, src : InVCs, n : Nat, tail : BOOLEAN, vc : VCs]
Entries(T) == [due : Int, out : T \cup {None}]
Lists(T) == [InVCs -> {<<>>} \cup {<<e>> : e \in Entries(T)}]
NewEntry == [due |-> New, out |-> None]

Phases ==
  {"queue", "vcalloc", "swhold", "swalloc", "route", "vcupdate", "hold", "switch", "write"}
States == {"idle", "routing", "vc_alloc", "active"}

\* What the variables hold.  A VC stands at most once in a deque.
TypeOK ==
  /\ cfg \in Configs /\ active \in BOOLEAN /\ phase \in Phases
  /\ buf \in [InVCs -> Seq(Flit)]
  /\ state \in [InVCs -> States]
  /\ outOf \in [InVCs -> OutVCs \cup {None}]
  /\ routeVcs \in Lists({}) /\ vcAllocVcs \in Lists(OutVCs)
  /\ swHoldVcs \in Lists(Outputs) /\ swAllocVcs \in Lists(Outputs)
  /\ holdVc \in [Inputs -> VCs \cup {None}] /\ holdIn \in [Inputs -> Outputs \cup {None}]
  /\ holdOut \in [Outputs -> Inputs \cup {None}]
  /\ inUse \in [OutVCs -> InVCs \cup {None}] /\ occ \in [OutVCs -> Int]
  /\ crossbar \in [Outputs -> Seq(Crossing)]
  /\ outCredits \in SUBSET InVCs
  /\ upOpen \in [InVCs -> Sending \cup {None}] /\ upOcc \in [InVCs -> Int]
  /\ downOpen \in [OutVCs -> Receiving \cup {None}] /\ downHeld \in [OutVCs -> Nat]

\* What a VC has in each state.
StateFits ==
  \A iv \in InVCs :
    /\ state[iv] = "idle" => buf[iv] = <<>> /\ upOpen[iv] = None
    /\ state[iv] \in {"routing", "vc_alloc"} => buf[iv] # <<>> /\ FrontFlit(iv).n = 0
    /\ state[iv] = "active" /\ buf[iv] = <<>> => upOpen[iv] # None
    /\ outOf[iv] # None <=> state[iv] = "active"

\* The deques a VC stands in are those of its state.
EachListed ==
  \A iv \in InVCs :
    /\ routeVcs[iv] # <<>> <=> state[iv] = "routing"
    /\ vcAllocVcs[iv] # <<>> <=> state[iv] = "vc_alloc" /\ ~cfg.piggyback
    /\ swHoldVcs[iv] # <<>> <=> CanSend(iv) /\ Holds(iv)
    /\ swAllocVcs[iv] # <<>> <=>
         (state[iv] = "vc_alloc" /\ cfg.speculative) \/ (CanSend(iv) /\ ~Holds(iv))

AllNew(list) == \A iv \in InVCs : list[iv] # <<>> => Head(list[iv]) = NewEntry
AllDue(list) == \A iv \in InVCs : list[iv] # <<>> => Head(list[iv]).due = 0
NewOrDue(list) ==
  \A iv \in InVCs : list[iv] # <<>> => Head(list[iv]) = NewEntry \/ Head(list[iv]).due = 0

\* Between the Evaluate half and the Update half of a stage its entries are due, and
\* those that joined meanwhile are new.
Stamps ==
  /\ phase \in {"queue", "vcalloc", "hold", "switch", "write"} => AllNew(vcAllocVcs)
  /\ phase \in {"swhold", "swalloc", "route"} => AllDue(vcAllocVcs)
  /\ phase = "vcupdate" => NewOrDue(vcAllocVcs)
  /\ phase \in {"queue", "vcalloc", "swhold", "switch", "write"} => AllNew(swHoldVcs)
  /\ phase \in {"swalloc", "route", "vcupdate", "hold"} => AllDue(swHoldVcs)
  /\ phase \in {"queue", "vcalloc", "swhold", "swalloc", "write"} => AllNew(swAllocVcs)
  /\ phase = "route" => AllDue(swAllocVcs)
  /\ phase \in {"vcupdate", "hold", "switch"} => NewOrDue(swAllocVcs)

Award(list, iv, x) == list[iv] # <<>> /\ Head(list[iv]).due = 0 /\ Head(list[iv]).out = x

\* What the grants promise until they are used.  An output VC is free, at the output of the
\* packet, and granted once.
VcGrantsFit ==
  phase \in {"swhold", "swalloc", "route", "vcupdate"} =>
    \A iv \in InVCs, ov \in OutVCs : Award(vcAllocVcs, iv, ov) =>
      /\ inUse[ov] = None /\ ov[1] = FrontFlit(iv).out
      /\ \A j \in InVCs : Award(vcAllocVcs, j, ov) => j = iv

\* The output VC of a held connection has a credit.
HoldGrantsFit ==
  phase \in {"swalloc", "route", "vcupdate", "hold"} =>
    \A iv \in InVCs, o \in Outputs : Award(swHoldVcs, iv, o) => occ[outOf[iv]] < BufSize

FreeVc(o) == \E v \in VCs : inUse[<<o, v>>] = None /\ occ[<<o, v>>] < BufSize

\* The VC that is granted output o may use it when its turn comes: with its output VC, or
\* the one it is granted in this cycle, or one that piggybacked allocation finds.
MayUse(iv, o) ==
  /\ state[iv] = "active" => outOf[iv][1] = o /\ occ[outOf[iv]] < BufSize
  /\ state[iv] = "vc_alloc" /\ cfg.piggyback => FrontFlit(iv).out = o /\ FreeVc(o)
  /\ state[iv] = "vc_alloc" /\ ~cfg.piggyback =>
       /\ phase \in {"route", "vcupdate"}
       /\ \E ov \in OutVCs : Award(vcAllocVcs, iv, ov) /\ ov[1] = o /\ occ[ov] < BufSize

\* An input and an output of the switch are granted once, and neither is held nor has sent
\* a flit in this cycle.
SwGrantsFit ==
  phase \in {"route", "vcupdate", "hold", "switch"} =>
    \A iv \in InVCs, o \in Outputs : Award(swAllocVcs, iv, o) =>
      /\ holdIn[iv[1]] = None /\ holdOut[o] = None
      /\ iv \notin outCredits
      /\ \A k \in 1 .. Len(crossbar[o]) : crossbar[o][k].due = 0
      /\ MayUse(iv, o)
      /\ \A j \in InVCs, x \in Outputs : Award(swAllocVcs, j, x) /\ j # iv => j[1] # iv[1] /\ x # o

\* At most one flit of the last cycle and one of this cycle are on the way to an output.
AtMostTwo ==
  \A o \in Outputs :
    /\ Len(crossbar[o]) <= 2
    /\ Len(crossbar[o]) = 2 => crossbar[o][1].due = 0 /\ crossbar[o][2].due = New
CrossbarFits ==
  phase \notin {"switch", "write"} =>
    /\ outCredits = {}
    /\ \A o \in Outputs : \A k \in 1 .. Len(crossbar[o]) : crossbar[o][k].due = 0

\* The parts of OwnersAgree.
VcOwners ==
  \A ov \in OutVCs, iv \in InVCs : inUse[ov] = iv <=> state[iv] = "active" /\ outOf[iv] = ov
HeldPairs ==
  /\ \A i \in Inputs : holdVc[i] = None <=> holdIn[i] = None
  /\ \A i \in Inputs, o \in Outputs : holdIn[i] = o <=> holdOut[o] = i
HeldSends ==
  \A iv \in InVCs : Holds(iv) => CanSend(iv) /\ outOf[iv][1] = holdIn[iv[1]]

\* The flits of a VC follow each other, and the neighbour goes on where they end.
Follows(f, n) == n = IF f.tail THEN 0 ELSE f.n + 1
UpN(iv) == IF upOpen[iv] = None THEN 0 ELSE upOpen[iv].n
InOrder ==
  \A iv \in InVCs :
    /\ \A k \in 1 .. Len(buf[iv]) - 1 : Follows(buf[iv][k], buf[iv][k + 1].n)
    /\ buf[iv] # <<>> => Follows(buf[iv][Len(buf[iv])], UpN(iv))
    /\ upOpen[iv] # None => upOpen[iv].n > 0

\* The flit that an input VC sends next, and what the neighbour must be waiting for then.
NextN(iv) == IF buf[iv] # <<>> THEN FrontFlit(iv).n ELSE UpN(iv)
Expected(ov) ==
  IF inUse[ov] = None \/ NextN(inUse[ov]) = 0 THEN None
  ELSE [src |-> inUse[ov], n |-> NextN(inUse[ov])]

\* What the neighbour waits for after flit f, and after the flits on their way to it.
After(open, f, v) ==
  IF f.vc # v THEN open ELSE IF f.tail THEN None ELSE [src |-> f.src, n |-> f.n + 1]
AfterAll(open, s, v) ==
  IF s = <<>> THEN open
  ELSE IF Len(s) = 1 THEN After(open, s[1], v) ELSE After(After(open, s[1], v), s[2], v)
Meets(open, f, v) ==
  f.vc = v => IF open = None THEN f.n = 0 ELSE f.src = open.src /\ f.n = open.n

SentInOrder ==
  \A ov \in OutVCs :
    LET s == crossbar[ov[1]]
    IN /\ AfterAll(downOpen[ov], s, ov[2]) = Expected(ov)
       /\ s # <<>> => Meets(downOpen[ov], s[1], ov[2])
       /\ Len(s) = 2 => Meets(After(downOpen[ov], s[1], ov[2]), s[2], ov[2])

Quiet == \A o \in Outputs : \A k \in 1 .. Len(crossbar[o]) : crossbar[o][k].due = 0

\* While the router has seen nothing to do, the deques of the stages that have reported are
\* empty, unless a flit was sent, which keeps the router awake at the end of the cycle.
StaysAwake ==
  ~active =>
    /\ Quiet /\ phase \in {"vcupdate", "hold", "switch", "write"} => ~Busy(routeVcs)
    /\ Quiet /\ phase \in {"hold", "switch", "write"} => ~Busy(vcAllocVcs)
    /\ Quiet /\ phase \in {"switch", "write"} => ~Busy(swHoldVcs)
    /\ Quiet /\ phase = "write" => ~Busy(swAllocVcs)
    /\ phase = "queue" =>
         /\ ~Busy(routeVcs) /\ ~Busy(vcAllocVcs) /\ ~Busy(swHoldVcs) /\ ~Busy(swAllocVcs)
         /\ \A o \in Outputs : crossbar[o] = <<>>

IInv ==
  /\ TypeOK /\ StateFits /\ EachListed /\ Stamps
  /\ VcGrantsFit /\ HoldGrantsFit /\ SwGrantsFit
  /\ CrossbarFits /\ AtMostTwo /\ RouterCreditsAccounted
  /\ VcOwners /\ HeldPairs /\ HeldSends
  /\ InOrder /\ SentInOrder /\ StaysAwake

-----------------------------------------------------------------------------
(* The operators on deques, when a VC stands in them at most once.         *)

\* The list of a VC is empty or has one entry.
LEMMA UnitList ==
  ASSUME NEW T, NEW list \in Lists(T), NEW iv \in InVCs
  PROVE  \/ list[iv] = <<>>
         \/ \E e \in Entries(T) : list[iv] = <<e>>
  BY DEF Lists

\* A VC that joins a deque has a new entry there.
LEMMA Enlisting ==
  ASSUME NEW T, NEW list \in Lists(T), NEW ivs, \A iv \in ivs : list[iv] = <<>>
  PROVE  /\ Enlisted(list, ivs) \in Lists(T)
         /\ \A iv \in InVCs :
              /\ iv \in ivs => Enlisted(list, ivs)[iv] = <<NewEntry>>
              /\ iv \notin ivs => Enlisted(list, ivs)[iv] = list[iv]
<1>1. Append(<<>>, NewEntry) = <<NewEntry>>
  OBVIOUS
<1>2. NewEntry \in Entries(T)
  BY DEF NewEntry, Entries, New
<1>3. \A iv \in InVCs : iv \in ivs => Enlisted(list, ivs)[iv] = <<NewEntry>>
  BY <1>1 DEF Enlisted, NewEntry
<1>4. \A iv \in InVCs : iv \notin ivs => Enlisted(list, ivs)[iv] = list[iv]
  BY DEF Enlisted
<1>5. DOMAIN Enlisted(list, ivs) = InVCs /\ Enlisted(list, ivs) = [iv \in InVCs |-> Enlisted(list, ivs)[iv]]
  BY DEF Enlisted
<1>6. \A iv \in InVCs : Enlisted(list, ivs)[iv] \in {<<>>} \cup {<<e>> : e \in Entries(T)}
  BY <1>2, <1>3, <1>4 DEF Lists
<1> QED
  BY <1>3, <1>4, <1>5, <1>6 DEF Lists

\* An Update half takes the entries that are due and leaves the others.
LEMMA Leaving ==
  ASSUME NEW T, NEW list \in Lists(T)
  PROVE  /\ Waiting(list) \in Lists(T)
         /\ \A iv \in InVCs :
              /\ iv \in Done(list) => Waiting(list)[iv] = <<>>
              /\ iv \notin Done(list) => Waiting(list)[iv] = list[iv]
<1>1. ASSUME NEW iv \in InVCs
      PROVE  Waiting(list)[iv] = IF iv \in Done(list) THEN <<>> ELSE list[iv]
  <2> DEFINE done == {k \in DOMAIN list[iv] : list[iv][k].due = 0}
  <2>1. Waiting(list)[iv] = SubSeq(list[iv], Cardinality(done) + 1, Len(list[iv]))
    BY DEF Waiting
  <2>2. CASE list[iv] = <<>>
    <3>1. done = {}
      BY <2>2
    <3>2. Cardinality(done) = 0
      BY <3>1, FS_EmptySet
    <3> QED
      BY <2>1, <2>2, <3>2 DEF Done
  <2>3. ASSUME NEW e \in Entries(T), list[iv] = <<e>>
        PROVE  Waiting(list)[iv] = IF iv \in Done(list) THEN <<>> ELSE list[iv]
    <3>1. DOMAIN list[iv] = {1} /\ list[iv][1] = e /\ Head(list[iv]) = e /\ list[iv] # <<>> /\ Len(list[iv]) = 1
      BY <2>3
    <3>2. CASE e.due = 0
      <4>1. done = {1}
        BY <3>1, <3>2
      <4>2. Cardinality(done) = 1
        BY <4>1, FS_Singleton
      <4> HIDE DEF done
      <4>3. SubSeq(list[iv], Cardinality(done) + 1, Len(list[iv])) = <<>>
        <5>1. Cardinality(done) + 1 = 2 /\ Len(list[iv]) = 1
          BY <3>1, <4>2
        <5>2. SubSeq(list[iv], 2, 1) = <<>>
          BY SMT
        <5> QED
          BY <5>1, <5>2
      <4>4. iv \in Done(list)
        BY <3>1, <3>2 DEF Done
      <4> QED
        BY <2>1, <4>3, <4>4
    <3>3. CASE e.due # 0
      <4>1. done = {}
        BY <3>1, <3>3
      <4>2. Cardinality(done) = 0
        BY <4>1, FS_EmptySet
      <4>3. SubSeq(list[iv], 1, 1) = [i \in 1 .. 1 |-> list[iv][i]]
        BY SMT
      <4>4. [i \in 1 .. 1 |-> list[iv][i]] = <<e>>
        BY <3>1
      <4> HIDE DEF done
      <4>5. SubSeq(list[iv], Cardinality(done) + 1, Len(list[iv])) = <<e>>
        <5>1. Cardinality(done) + 1 = 1 /\ Len(list[iv]) = 1
          BY <3>1, <4>2
        <5> QED
          BY <4>3, <4>4, <5>1
      <4>6. iv \notin Done(list)
        BY <3>1, <3>3 DEF Done
      <4> QED
        BY <2>1, <2>3, <4>5, <4>6
    <3> QED
      BY <3>2, <3>3
  <2> QED
    BY <2>2, <2>3, UnitList
<1>2. Waiting(list) = [iv \in InVCs |-> Waiting(list)[iv]]
  BY DEF Waiting
<1> QED
  BY <1>1, <1>2 DEF Lists

\* An Evaluate half that finds no time in the deque stamps every entry.
LEMMA Stamping ==
  ASSUME NEW T, NEW list \in Lists(T), NEW delay \in Nat, NEW out,
         \A iv \in Fresh(list) : out[iv] \in T \cup {None}
  PROVE  /\ Stamped(list, delay, out) \in Lists(T)
         /\ \A iv \in InVCs :
              /\ Stamped(list, delay, out)[iv] = <<>> <=> list[iv] = <<>>
              /\ iv \in Fresh(list) =>
                   /\ Head(Stamped(list, delay, out)[iv]).due = delay - 1
                   /\ Head(Stamped(list, delay, out)[iv]).out = out[iv]
<1> DEFINE entry(iv) == [due |-> delay - 1, out |-> out[iv]]
<1>1. ASSUME NEW iv \in Fresh(list)
      PROVE  Stamped(list, delay, out)[iv] = <<entry(iv)>> /\ list[iv] # <<>> /\ iv \in InVCs
  <2>1. iv \in InVCs /\ list[iv] # <<>>
    BY DEF Fresh
  <2>2. PICK e \in Entries(T) : list[iv] = <<e>>
    BY <2>1, UnitList
  <2>3. Stamped(list, delay, out)[iv] = [k \in DOMAIN list[iv] |-> entry(iv)]
    BY <2>1 DEF Stamped
  <2>4. [k \in 1 .. 1 |-> entry(iv)] = <<entry(iv)>>
    OBVIOUS
  <2>5. DOMAIN list[iv] = 1 .. 1
    BY <2>2
  <2> QED
    BY <2>1, <2>3, <2>4, <2>5
<1>2. ASSUME NEW iv \in InVCs, iv \notin Fresh(list)
      PROVE  Stamped(list, delay, out)[iv] = list[iv]
  BY <1>2 DEF Stamped
<1>3. \A iv \in Fresh(list) : entry(iv) \in Entries(T)
  BY DEF Entries
<1>4. Stamped(list, delay, out) = [iv \in InVCs |-> Stamped(list, delay, out)[iv]]
  BY DEF Stamped
<1>5. ASSUME NEW iv \in InVCs
      PROVE  Stamped(list, delay, out)[iv] \in {<<>>} \cup {<<e>> : e \in Entries(T)}
  BY <1>1, <1>2, <1>3 DEF Lists
<1>6. ASSUME NEW iv \in InVCs
      PROVE  /\ Stamped(list, delay, out)[iv] = <<>> <=> list[iv] = <<>>
             /\ iv \in Fresh(list) =>
                  /\ Head(Stamped(list, delay, out)[iv]).due = delay - 1
                  /\ Head(Stamped(list, delay, out)[iv]).out = out[iv]
  <2>1. CASE iv \in Fresh(list)
    <3>1. Stamped(list, delay, out)[iv] = <<entry(iv)>> /\ list[iv] # <<>>
      BY <1>1, <2>1
    <3>2. entry(iv).due = delay - 1 /\ entry(iv).out = out[iv]
      OBVIOUS
    <3> HIDE DEF entry
    <3>3. Head(<<entry(iv)>>) = entry(iv) /\ <<entry(iv)>> # <<>>
      OBVIOUS
    <3> QED
      BY <3>1, <3>2, <3>3
  <2>2. CASE iv \notin Fresh(list)
    BY <1>2, <2>2
  <2> QED
    BY <2>1, <2>2
<1> QED
  BY <1>4, <1>5, <1>6 DEF Lists

\* Every entry is stamped when all are new.
LEMMA AllFresh ==
  ASSUME NEW T, NEW list \in Lists(T), \A iv \in InVCs : list[iv] # <<>> => Head(list[iv]) = NewEntry
  PROVE  Fresh(list) = {iv \in InVCs : list[iv] # <<>>}
<1>1. ASSUME NEW iv \in InVCs, NEW k \in DOMAIN list[iv]
      PROVE  list[iv][k].due = New
  BY UnitList DEF NewEntry
<1> QED
  BY <1>1 DEF Fresh

\* The end of a cycle does not change entries that wait for no time.
LEMMA Ticking ==
  ASSUME NEW T, NEW list \in Lists(T)
  PROVE  /\ Tick(list) \in Lists(T)
         /\ \A iv \in InVCs :
              /\ Tick(list)[iv] = <<>> <=> list[iv] = <<>>
              /\ list[iv] # <<>> /\ Head(list[iv]) = NewEntry => Head(Tick(list)[iv]) = NewEntry
<1> DEFINE ticked(e) == [e EXCEPT !.due = IF @ > 0 THEN @ - 1 ELSE @]
<1>1. Tick(list) = [iv \in InVCs |-> [k \in DOMAIN list[iv] |-> ticked(list[iv][k])]]
  BY DEF Tick
<1>2. ASSUME NEW e \in Entries(T)
      PROVE  ticked(e) \in Entries(T) /\ (e = NewEntry => ticked(e) = e)
  BY DEF Entries, NewEntry, New
<1>3. ASSUME NEW iv \in InVCs, NEW e \in Entries(T), list[iv] = <<e>>
      PROVE  Tick(list)[iv] = <<ticked(e)>>
  <2>1. DOMAIN list[iv] = 1 .. 1 /\ list[iv][1] = e
    BY <1>3
  <2>2. Tick(list)[iv] = [k \in 1 .. 1 |-> ticked(list[iv][k])]
    BY <1>1, <2>1
  <2>3. [k \in 1 .. 1 |-> ticked(list[iv][k])] = <<ticked(e)>>
    BY <2>1
  <2> QED
    BY <2>2, <2>3
<1>4. ASSUME NEW iv \in InVCs, list[iv] = <<>>
      PROVE  Tick(list)[iv] = <<>>
  BY <1>1, <1>4
<1> HIDE DEF ticked
<1>5. ASSUME NEW iv \in InVCs
      PROVE  Tick(list)[iv] \in {<<>>} \cup {<<e>> : e \in Entries(T)}
  <2>1. CASE list[iv] = <<>>
    BY <1>4, <2>1
  <2>2. CASE \E e \in Entries(T) : list[iv] = <<e>>
    BY <1>2, <1>3, <2>2
  <2> QED
    BY <2>1, <2>2, UnitList
<1>6. ASSUME NEW iv \in InVCs
      PROVE  /\ Tick(list)[iv] = <<>> <=> list[iv] = <<>>
             /\ list[iv] # <<>> /\ Head(list[iv]) = NewEntry => Head(Tick(list)[iv]) = NewEntry
  <2>1. CASE list[iv] = <<>>
    BY <1>4, <2>1
  <2>2. CASE \E e \in Entries(T) : list[iv] = <<e>>
    <3>1. PICK e \in Entries(T) : list[iv] = <<e>>
      BY <2>2
    <3>2. Head(list[iv]) = e /\ list[iv] # <<>>
      BY <3>1
    <3>3. Tick(list)[iv] = <<ticked(e)>>
      BY <1>3, <3>1
    <3> QED
      BY <1>2, <3>2, <3>3
  <2> QED
    BY <2>1, <2>2, UnitList
<1> QED
  BY <1>1, <1>5, <1>6 DEF Lists

-----------------------------------------------------------------------------
(* The options, and which VCs an Evaluate half finds.                      *)

\* The delays and options of a router that is configured as in the repository.
LEMMA Built ==
  ASSUME UnitDelays, TypeOK
  PROVE  /\ cfg.vcAllocDelay = 1 /\ cfg.swAllocDelay = 1 /\ cfg.routingDelay \in Nat
         /\ cfg.piggyback => cfg.speculative
         /\ cfg.speculative \in BOOLEAN /\ cfg.piggyback \in BOOLEAN /\ cfg.hold \in BOOLEAN
  BY RouterAssumption DEF UnitDelays, TypeOK, Options

\* VCs are pairs of a port and a number.
LEMMA Ports ==
  /\ \A iv \in InVCs : iv[1] \in Inputs /\ iv[2] \in VCs /\ iv = <<iv[1], iv[2]>>
  /\ \A ov \in OutVCs : ov[1] \in Outputs /\ ov[2] \in VCs /\ ov = <<ov[1], ov[2]>>
  /\ \A i \in Inputs, v \in VCs : <<i, v>> \in InVCs
  /\ \A o \in Outputs, v \in VCs : <<o, v>> \in OutVCs
  BY DEF InVCs, OutVCs

\* None is no port, no VC and no packet.
LEMMA NoneIsNothing ==
  /\ None \notin Inputs /\ None \notin Outputs /\ None \notin VCs
  /\ None \notin InVCs /\ None \notin OutVCs /\ None \notin Sending /\ None \notin Receiving
  BY RouterAssumption

\* The VCs that are done, and those of them that are granted something.
LEMMA GrantedIs ==
  ASSUME NEW T, NEW list \in Lists(T), None \notin T
  PROVE  /\ Done(list) = {iv \in InVCs : list[iv] # <<>> /\ Head(list[iv]).due = 0}
         /\ Granted(list) \subseteq Done(list)
         /\ \A iv \in InVCs, x \in T : Award(list, iv, x) <=> iv \in Granted(list) /\ GrantOf(list, iv) = x
         /\ \A iv \in Granted(list) : GrantOf(list, iv) \in T
<1>1. ASSUME NEW iv \in InVCs, list[iv] # <<>>
      PROVE  Head(list[iv]).out \in T \cup {None}
  <2>1. PICK e \in Entries(T) : list[iv] = <<e>>
    BY <1>1, UnitList
  <2> QED
    BY <2>1 DEF Entries
<1> QED
  BY <1>1 DEF Done, Granted, GrantOf, Award

-----------------------------------------------------------------------------
(* The Evaluate halves give out the grants.                                *)

\* _VCAllocEvaluate grants free output VCs, each once.
LEMMA VCAllocEvaluateStep ==
  ASSUME UnitDelays, IInv, NEW g \in VcGrants, VCAllocEvaluate(g)
  PROVE  IInv'
<1> USE DEF IInv
<1>1. /\ phase = "vcalloc" /\ phase' = "swhold"
      /\ cfg' = cfg /\ active' = active /\ buf' = buf /\ state' = state /\ outOf' = outOf
      /\ inUse' = inUse /\ occ' = occ /\ crossbar' = crossbar /\ outCredits' = outCredits
      /\ routeVcs' = routeVcs /\ swHoldVcs' = swHoldVcs /\ swAllocVcs' = swAllocVcs
      /\ holdVc' = holdVc /\ holdIn' = holdIn /\ holdOut' = holdOut
      /\ upOpen' = upOpen /\ upOcc' = upOcc /\ downOpen' = downOpen /\ downHeld' = downHeld
  BY DEF VCAllocEvaluate, sendVars, holdVars, linkVars
<1> DEFINE stamped == Stamped(vcAllocVcs, 1, g)
<1>2. vcAllocVcs \in Lists(OutVCs) /\ AllNew(vcAllocVcs)
  BY <1>1 DEF TypeOK, Stamps
<1>3. Fresh(vcAllocVcs) = {iv \in InVCs : vcAllocVcs[iv] # <<>>}
  BY <1>2, AllFresh DEF AllNew
<1>4. /\ \A iv \in Fresh(vcAllocVcs) : g[iv] \in OutVCs \cup {None} /\ g[iv] \in VcRequests(iv) \cup {None}
      /\ \A a, b \in Fresh(vcAllocVcs) : a # b /\ g[a] # None => g[a] # g[b]
  BY DEF VcGrants
<1>5. /\ stamped \in Lists(OutVCs)
      /\ \A iv \in InVCs :
           /\ stamped[iv] = <<>> <=> vcAllocVcs[iv] = <<>>
           /\ iv \in Fresh(vcAllocVcs) => Head(stamped[iv]).due = 0 /\ Head(stamped[iv]).out = g[iv]
  BY <1>2, <1>4, Stamping
<1>6. vcAllocVcs' = stamped
  <2> DEFINE entries(iv) == [k \in DOMAIN stamped[iv] |->
                [stamped[iv][k] EXCEPT !.out = IF /\ cfg.vcAllocDelay > 1 /\ stamped[iv][k].due = 0
                                                  /\ stamped[iv][k].out # None
                                                  /\ ~IsAvailable(stamped[iv][k].out)
                                               THEN None ELSE @]]
  <2>1. cfg.vcAllocDelay = 1
    BY Built
  <2>2. vcAllocVcs' = [iv \in InVCs |-> entries(iv)]
    BY <2>1 DEF VCAllocEvaluate
  <2>3. ASSUME NEW iv \in InVCs
        PROVE  entries(iv) = stamped[iv]
    <3>1. CASE stamped[iv] = <<>>
      BY <3>1
    <3>2. CASE \E e \in Entries(OutVCs) : stamped[iv] = <<e>>
      <4>1. PICK e \in Entries(OutVCs) : stamped[iv] = <<e>>
        BY <3>2
      <4>2. DOMAIN stamped[iv] = 1 .. 1 /\ stamped[iv][1] = e
        BY <4>1
      <4>3. [e EXCEPT !.out = e.out] = e
        BY DEF Entries
      <4>4. entries(iv) = [k \in 1 .. 1 |-> e]
        BY <2>1, <4>2, <4>3
      <4> QED
        BY <4>1, <4>4
    <3> QED
      BY <1>5, <3>1, <3>2, UnitList
  <2> QED
    BY <1>5, <2>2, <2>3 DEF Lists
<1> HIDE DEF stamped
<1>7. \A iv \in InVCs : /\ vcAllocVcs'[iv] = <<>> <=> vcAllocVcs[iv] = <<>>
                        /\ vcAllocVcs'[iv] # <<>> => /\ iv \in Fresh(vcAllocVcs)
                                                     /\ Head(vcAllocVcs'[iv]).due = 0
                                                     /\ Head(vcAllocVcs'[iv]).out = g[iv]
  BY <1>3, <1>5, <1>6
<1>8. TypeOK'
  BY <1>1, <1>5, <1>6 DEF TypeOK, Phases
<1>9. StateFits' /\ InOrder' /\ SentInOrder' /\ RouterCreditsAccounted' /\ CrossbarFits' /\ AtMostTwo'
  BY <1>1 DEF StateFits, FrontFlit, InOrder, UpN, SentInOrder, Expected, NextN,
              RouterCreditsAccounted, CrossbarFits, AtMostTwo
<1>10. EachListed' /\ VcOwners' /\ HeldPairs' /\ HeldSends'
  BY <1>1, <1>7 DEF EachListed, CanSend, Holds, VcOwners, HeldPairs, HeldSends
<1>11. Stamps'
  BY <1>1, <1>7 DEF Stamps, AllNew, AllDue
<1>12. VcGrantsFit'
  <2>1. ASSUME NEW iv \in InVCs, NEW ov \in OutVCs, Award(vcAllocVcs, iv, ov)'
        PROVE  iv \in Fresh(vcAllocVcs) /\ ov = g[iv]
    BY <1>7, <2>1 DEF Award
  <2>2. ASSUME NEW iv \in InVCs, NEW ov \in OutVCs, Award(vcAllocVcs, iv, ov)'
        PROVE  /\ inUse[ov] = None /\ ov[1] = FrontFlit(iv).out
               /\ \A j \in InVCs : Award(vcAllocVcs, j, ov)' => j = iv
    BY <1>4, <2>1, <2>2, NoneIsNothing DEF VcRequests, IsAvailable
  <2> QED
    BY <1>1, <2>2 DEF VcGrantsFit, FrontFlit
<1>13. HoldGrantsFit' /\ SwGrantsFit'
  BY <1>1 DEF HoldGrantsFit, SwGrantsFit, Award
<1>14. StaysAwake'
  BY <1>1 DEF StaysAwake
<1> QED
  BY <1>8, <1>9, <1>10, <1>11, <1>12, <1>13, <1>14

\* _SWHoldEvaluate lets a held connection go on if its output VC has a credit.
LEMMA SWHoldEvaluateStep ==
  ASSUME UnitDelays, IInv, SWHoldEvaluate
  PROVE  IInv'
<1> USE DEF IInv
<1> DEFINE out == [iv \in Fresh(swHoldVcs) |-> IF IsFull(outOf[iv]) THEN None ELSE outOf[iv][1]]
<1>1. /\ phase = "swhold" /\ phase' = "swalloc"
      /\ swHoldVcs' = Stamped(swHoldVcs, 1, out)
      /\ cfg' = cfg /\ active' = active /\ buf' = buf /\ state' = state /\ outOf' = outOf
      /\ inUse' = inUse /\ occ' = occ /\ crossbar' = crossbar /\ outCredits' = outCredits
      /\ routeVcs' = routeVcs /\ vcAllocVcs' = vcAllocVcs /\ swAllocVcs' = swAllocVcs
      /\ holdVc' = holdVc /\ holdIn' = holdIn /\ holdOut' = holdOut
      /\ upOpen' = upOpen /\ upOcc' = upOcc /\ downOpen' = downOpen /\ downHeld' = downHeld
  BY DEF SWHoldEvaluate, sendVars, holdVars, linkVars
<1>2. swHoldVcs \in Lists(Outputs) /\ AllNew(swHoldVcs)
  BY <1>1 DEF TypeOK, Stamps
<1>3. Fresh(swHoldVcs) = {iv \in InVCs : swHoldVcs[iv] # <<>>}
  BY <1>2, AllFresh DEF AllNew
<1>4. \A iv \in Fresh(swHoldVcs) :
        /\ outOf[iv] \in OutVCs
        /\ out[iv] = IF occ[outOf[iv]] >= BufSize THEN None ELSE outOf[iv][1]
  <2>1. \A iv \in Fresh(swHoldVcs) : iv \in InVCs /\ state[iv] = "active"
    BY <1>3 DEF EachListed, CanSend
  <2> QED
    BY <2>1 DEF StateFits, TypeOK, IsFull
<1>5. \A iv \in Fresh(swHoldVcs) : out[iv] \in Outputs \cup {None}
  BY <1>4, Ports
<1> HIDE DEF out
<1>6. /\ swHoldVcs' \in Lists(Outputs)
      /\ \A iv \in InVCs :
           /\ swHoldVcs'[iv] = <<>> <=> swHoldVcs[iv] = <<>>
           /\ swHoldVcs'[iv] # <<>> =>
                /\ iv \in Fresh(swHoldVcs)
                /\ Head(swHoldVcs'[iv]).due = 0 /\ Head(swHoldVcs'[iv]).out = out[iv]
  BY <1>1, <1>2, <1>3, <1>5, Stamping
<1>7. TypeOK'
  BY <1>1, <1>6 DEF TypeOK, Phases
<1>8. StateFits' /\ InOrder' /\ SentInOrder' /\ RouterCreditsAccounted' /\ CrossbarFits' /\ AtMostTwo'
  BY <1>1 DEF StateFits, FrontFlit, InOrder, UpN, SentInOrder, Expected, NextN,
              RouterCreditsAccounted, CrossbarFits, AtMostTwo
<1>9. EachListed' /\ VcOwners' /\ HeldPairs' /\ HeldSends'
  BY <1>1, <1>6 DEF EachListed, CanSend, Holds, VcOwners, HeldPairs, HeldSends
<1>10. Stamps'
  BY <1>1, <1>6 DEF Stamps, AllNew, AllDue
<1>11. VcGrantsFit' /\ SwGrantsFit'
  BY <1>1 DEF VcGrantsFit, FrontFlit, Award, SwGrantsFit
<1>12. HoldGrantsFit'
  <2>1. ASSUME NEW iv \in InVCs, NEW o \in Outputs, Award(swHoldVcs, iv, o)'
        PROVE  occ[outOf[iv]] < BufSize
    <3>1. iv \in Fresh(swHoldVcs) /\ out[iv] = o
      BY <1>6, <2>1 DEF Award
    <3>2. occ[outOf[iv]] \in Int /\ ~(occ[outOf[iv]] >= BufSize)
      BY <1>4, <3>1, NoneIsNothing DEF TypeOK
    <3> QED
      BY <3>2, RouterAssumption
  <2> QED
    BY <1>1, <2>1 DEF HoldGrantsFit
<1>13. StaysAwake'
  BY <1>1 DEF StaysAwake
<1> QED
  BY <1>7, <1>8, <1>9, <1>10, <1>11, <1>12, <1>13

\* _SWAllocEvaluate leaves the grants whose output VC has a credit.
LEMMA SWAllocEvaluateStep ==
  ASSUME UnitDelays, IInv, NEW S \in SwGrants, SWAllocEvaluate(S)
  PROVE  IInv'
<1> USE DEF IInv
<1> DEFINE out == [iv \in Fresh(swAllocVcs) |-> IF iv \in S THEN SwOutput(iv) ELSE None]
           stamped == Stamped(swAllocVcs, 1, out)
           stale(iv, e) == /\ cfg.speculative \/ cfg.swAllocDelay > 1
                           /\ e.due = 0 /\ e.out # None /\ ~StillGranted(iv, e.out)
<1>1. /\ phase = "swalloc" /\ phase' = "route"
      /\ cfg' = cfg /\ active' = active /\ buf' = buf /\ state' = state /\ outOf' = outOf
      /\ inUse' = inUse /\ occ' = occ /\ crossbar' = crossbar /\ outCredits' = outCredits
      /\ routeVcs' = routeVcs /\ vcAllocVcs' = vcAllocVcs /\ swHoldVcs' = swHoldVcs
      /\ holdVc' = holdVc /\ holdIn' = holdIn /\ holdOut' = holdOut
      /\ upOpen' = upOpen /\ upOcc' = upOcc /\ downOpen' = downOpen /\ downHeld' = downHeld
  BY DEF SWAllocEvaluate, sendVars, holdVars, linkVars
<1>2. swAllocVcs \in Lists(Outputs) /\ AllNew(swAllocVcs)
  BY <1>1 DEF TypeOK, Stamps
<1>3. Fresh(swAllocVcs) = {iv \in InVCs : swAllocVcs[iv] # <<>>}
  BY <1>2, AllFresh DEF AllNew
<1>4. /\ S \subseteq SwRequests
      /\ \A a, b \in S : a # b => a[1] # b[1] /\ SwOutput(a) # SwOutput(b)
  BY DEF SwGrants
\* A VC that waits for the switch has an output VC or a packet at its front.
<1>5. \A iv \in Fresh(swAllocVcs) :
        /\ iv \in InVCs
        /\ \/ state[iv] = "active" /\ outOf[iv] \in OutVCs
           \/ state[iv] = "vc_alloc" /\ cfg.speculative /\ buf[iv] # <<>>
        /\ SwOutput(iv) \in Outputs
  <2> SUFFICES ASSUME NEW iv \in Fresh(swAllocVcs)
               PROVE  /\ iv \in InVCs
                      /\ \/ state[iv] = "active" /\ outOf[iv] \in OutVCs
                         \/ state[iv] = "vc_alloc" /\ cfg.speculative /\ buf[iv] # <<>>
                      /\ SwOutput(iv) \in Outputs
    OBVIOUS
  <2>1. iv \in InVCs /\ swAllocVcs[iv] # <<>>
    BY <1>3
  <2>2. CASE state[iv] = "active"
    <3>1. outOf[iv] \in OutVCs
      BY <2>1, <2>2 DEF StateFits, TypeOK
    <3> QED
      BY <2>1, <2>2, <3>1, Ports DEF SwOutput
  <2>3. CASE state[iv] # "active"
    <3>1. state[iv] = "vc_alloc" /\ cfg.speculative /\ buf[iv] # <<>>
      BY <2>1, <2>3 DEF EachListed, CanSend, StateFits
    <3>2. buf[iv] \in Seq(Flit)
      BY <2>1 DEF TypeOK
    <3>3. Head(buf[iv]) \in Flit
      BY <3>1, <3>2
    <3> QED
      BY <2>1, <2>3, <3>1, <3>3 DEF SwOutput, FrontFlit, Flit
  <2> QED
    BY <2>2, <2>3
<1>6. \A iv \in Fresh(swAllocVcs) : out[iv] \in Outputs \cup {None}
  BY <1>5
<1>7. /\ stamped \in Lists(Outputs)
      /\ \A iv \in InVCs :
           /\ stamped[iv] = <<>> <=> swAllocVcs[iv] = <<>>
           /\ iv \in Fresh(swAllocVcs) => Head(stamped[iv]).due = 0 /\ Head(stamped[iv]).out = out[iv]
  <2> HIDE DEF IInv, out
  <2>1. 1 \in Nat /\ 1 - 1 = 0 /\ swAllocVcs \in Lists(Outputs)
    BY <1>2
  <2> QED
    BY <1>6, <2>1, Stamping
<1>8. swAllocVcs' = [iv \in InVCs |-> [k \in DOMAIN stamped[iv] |->
          [stamped[iv][k] EXCEPT !.out = IF stale(iv, stamped[iv][k]) THEN None ELSE @]]]
  <2>1. cfg.swAllocDelay = 1
    BY Built
  <2> QED
    BY <2>1 DEF SWAllocEvaluate
<1> HIDE DEF stamped, stale, out
\* A grant is left, or taken back because it is stale.
<1>9. ASSUME NEW iv \in InVCs
      PROVE  /\ swAllocVcs'[iv] \in {<<>>} \cup {<<e>> : e \in Entries(Outputs)}
             /\ swAllocVcs'[iv] = <<>> <=> swAllocVcs[iv] = <<>>
             /\ swAllocVcs[iv] # <<>> =>
                  /\ Head(swAllocVcs'[iv]).due = 0
                  /\ Head(swAllocVcs'[iv]).out # None =>
                       /\ Head(swAllocVcs'[iv]).out = out[iv]
                       /\ cfg.speculative => StillGranted(iv, out[iv])
  <2>1. CASE stamped[iv] = <<>>
    <3>1. swAllocVcs'[iv] = <<>>
      BY <1>8, <2>1
    <3> QED
      BY <1>7, <2>1, <3>1
  <2>2. CASE \E e \in Entries(Outputs) : stamped[iv] = <<e>>
    <3>1. PICK e \in Entries(Outputs) : stamped[iv] = <<e>>
      BY <2>2
    <3> DEFINE kept == [e EXCEPT !.out = IF stale(iv, e) THEN None ELSE @]
    <3>2. DOMAIN stamped[iv] = 1 .. 1 /\ stamped[iv][1] = e /\ stamped[iv] # <<>> /\ Head(stamped[iv]) = e
      BY <3>1
    <3>3. swAllocVcs'[iv] = [k \in 1 .. 1 |-> [stamped[iv][k] EXCEPT !.out = IF stale(iv, stamped[iv][k]) THEN None ELSE @]]
      BY <1>8, <3>2
    <3>4. swAllocVcs'[iv] = [k \in 1 .. 1 |-> kept]
      BY <3>2, <3>3
    <3>5. /\ kept \in Entries(Outputs) /\ kept.due = e.due
          /\ kept.out # None => kept.out = e.out /\ ~stale(iv, e)
      BY DEF Entries
    <3> HIDE DEF kept
    <3>6. swAllocVcs'[iv] = <<kept>>
      BY <3>4
    <3>7. iv \in Fresh(swAllocVcs) /\ e.due = 0 /\ e.out = out[iv] /\ swAllocVcs[iv] # <<>>
      BY <1>3, <1>7, <3>2
    <3>8. Head(swAllocVcs'[iv]) = kept /\ swAllocVcs'[iv] # <<>>
      BY <3>6
    <3>9. kept.out # None /\ cfg.speculative => StillGranted(iv, out[iv])
      BY <3>5, <3>7 DEF stale
    <3> QED
      BY <3>5, <3>6, <3>7, <3>8, <3>9
  <2> QED
    BY <1>7, <2>1, <2>2, UnitList
<1>10. TypeOK'
  <2>1. swAllocVcs' \in Lists(Outputs)
    BY <1>8, <1>9 DEF Lists
  <2> QED
    BY <1>1, <2>1 DEF TypeOK, Phases
<1>11. StateFits' /\ InOrder' /\ SentInOrder' /\ RouterCreditsAccounted' /\ CrossbarFits' /\ AtMostTwo'
  BY <1>1 DEF StateFits, FrontFlit, InOrder, UpN, SentInOrder, Expected, NextN,
              RouterCreditsAccounted, CrossbarFits, AtMostTwo
<1>12. EachListed' /\ VcOwners' /\ HeldPairs' /\ HeldSends'
  BY <1>1, <1>9 DEF EachListed, CanSend, Holds, VcOwners, HeldPairs, HeldSends
<1>13. Stamps'
  BY <1>1, <1>9 DEF Stamps, AllNew, AllDue
<1>14. VcGrantsFit' /\ HoldGrantsFit'
  BY <1>1 DEF VcGrantsFit, FrontFlit, Award, HoldGrantsFit
<1>15. SwGrantsFit'
  <2>1. ASSUME NEW iv \in InVCs, NEW o \in Outputs, Award(swAllocVcs, iv, o)'
        PROVE  /\ iv \in S /\ iv \in Fresh(swAllocVcs) /\ o = SwOutput(iv)
               /\ cfg.speculative => StillGranted(iv, o)
    <3>1. swAllocVcs[iv] # <<>> /\ Head(swAllocVcs'[iv]).out = o /\ o # None
      BY <1>9, <2>1, NoneIsNothing DEF Award
    <3>2. out[iv] = o /\ (cfg.speculative => StillGranted(iv, out[iv]))
      BY <1>9, <3>1
    <3>3. iv \in Fresh(swAllocVcs)
      BY <1>3, <3>1
    <3>4. iv \in S /\ out[iv] = SwOutput(iv)
      BY <3>1, <3>2, <3>3 DEF out
    <3> QED
      BY <3>1, <3>2, <3>3, <3>4
  <2>2. ASSUME NEW iv \in InVCs, NEW o \in Outputs, Award(swAllocVcs, iv, o)'
        PROVE  /\ holdIn[iv[1]] = None /\ holdOut[o] = None
               /\ MayUse(iv, o)'
    <3>1. iv \in SwRequests /\ iv \in Fresh(swAllocVcs) /\ o = SwOutput(iv) /\ (cfg.speculative => StillGranted(iv, o))
      BY <1>4, <2>1, <2>2
    <3>2. holdIn[iv[1]] = None /\ holdOut[o] = None
      BY <3>1 DEF SwRequests
    <3>3. CASE state[iv] = "active"
      <4>1. outOf[iv] \in OutVCs /\ o = outOf[iv][1]
        BY <1>5, <3>1, <3>3 DEF SwOutput
      <4>2. ~(occ[outOf[iv]] >= BufSize) /\ occ[outOf[iv]] \in Int
        BY <3>1, <3>3, <4>1 DEF SwRequests, IsFull, TypeOK
      <4>3. occ[outOf[iv]] < BufSize
        BY <4>2, RouterAssumption
      <4> QED
        BY <1>1, <3>2, <3>3, <4>1, <4>3 DEF MayUse
    <3>4. CASE state[iv] # "active"
      <4>1. state[iv] = "vc_alloc" /\ cfg.speculative /\ o = FrontFlit(iv).out
        BY <1>5, <3>1, <3>4 DEF SwOutput
      <4>2. StillGranted(iv, o)
        BY <3>1, <4>1
      <4>3. CASE cfg.piggyback
        <5>1. PICK v \in VCs : IsAvailable(<<o, v>>) /\ ~IsFull(<<o, v>>)
          BY <3>4, <4>2, <4>3 DEF StillGranted
        <5>2. occ[<<o, v>>] \in Int
          BY Ports DEF TypeOK
        <5>3. inUse[<<o, v>>] = None /\ occ[<<o, v>>] < BufSize
          BY <5>1, <5>2, RouterAssumption DEF IsAvailable, IsFull
        <5>4. FreeVc(o)
          BY <5>3 DEF FreeVc
        <5>5. FreeVc(o)' /\ FrontFlit(iv)' = FrontFlit(iv)
          BY <1>1, <5>4 DEF FreeVc, FrontFlit
        <5> QED
          BY <1>1, <3>2, <4>1, <4>3, <5>5 DEF MayUse
      <4>4. CASE ~cfg.piggyback
        <5>1. Assigned(iv) # None /\ Assigned(iv)[1] = o /\ ~IsFull(Assigned(iv))
          BY <3>4, <4>2, <4>4 DEF StillGranted
        <5>2. vcAllocVcs[iv] # <<>>
          BY <4>1, <4>4 DEF EachListed
        <5>3. PICK e \in Entries(OutVCs) : vcAllocVcs[iv] = <<e>>
          BY <5>2, UnitList DEF TypeOK
        <5>4. DOMAIN vcAllocVcs[iv] = {1} /\ vcAllocVcs[iv][1] = e /\ Head(vcAllocVcs[iv]) = e
          BY <5>3
        <5>5. e.due = 0
          BY <1>1, <5>2, <5>4 DEF Stamps, AllDue
        <5>6. Assigned(iv) = e.out
          BY <5>4, <5>5, Built DEF Assigned
        <5>7. Award(vcAllocVcs, iv, e.out) /\ e.out \in OutVCs
          BY <5>1, <5>2, <5>4, <5>5, <5>6 DEF Award, Entries
        <5>8. occ[e.out] < BufSize /\ e.out[1] = o
          BY <5>1, <5>6, <5>7, RouterAssumption DEF IsFull, TypeOK
        <5>9. \E ov \in OutVCs : Award(vcAllocVcs', iv, ov) /\ ov[1] = o /\ occ'[ov] < BufSize
          BY <1>1, <5>7, <5>8
        <5> QED
          BY <1>1, <3>2, <4>1, <4>4, <5>9 DEF MayUse, Award
      <4> QED
        BY <4>3, <4>4
    <3> QED
      BY <3>3, <3>4
  <2>3. ASSUME NEW iv \in InVCs, NEW o \in Outputs, Award(swAllocVcs, iv, o)'
        PROVE  /\ iv \notin outCredits
               /\ \A k \in 1 .. Len(crossbar[o]) : crossbar[o][k].due = 0
               /\ \A j \in InVCs, x \in Outputs : Award(swAllocVcs, j, x)' /\ j # iv => j[1] # iv[1] /\ x # o
    <3>1. iv \notin outCredits /\ \A k \in 1 .. Len(crossbar[o]) : crossbar[o][k].due = 0
      BY <1>1 DEF CrossbarFits
    <3> HIDE DEF IInv
    <3> QED
      BY <1>4, <2>1, <2>3, <3>1
  <2> HIDE DEF IInv
  <2> QED
    BY <1>1, <2>2, <2>3 DEF SwGrantsFit
<1>16. StaysAwake'
  BY <1>1 DEF StaysAwake
<1> QED
  BY <1>10, <1>11, <1>12, <1>13, <1>14, <1>15, <1>16

-----------------------------------------------------------------------------
(* The Update halves that send nothing.                                    *)

\* Who joins a deque is granted nothing, and the grants of the others are left alone.
LEMMA Joining ==
  ASSUME NEW T, NEW list \in Lists(T), NEW ivs, \A iv \in ivs : list[iv] = <<>>
  PROVE  /\ Enlisted(list, ivs) \in Lists(T)
         /\ \A iv \in InVCs :
              /\ Enlisted(list, ivs)[iv] = <<>> <=> list[iv] = <<>> /\ iv \notin ivs
              /\ iv \in ivs => Head(Enlisted(list, ivs)[iv]) = NewEntry
              /\ iv \notin ivs => Enlisted(list, ivs)[iv] = list[iv]
              /\ \A x \in T : Award(Enlisted(list, ivs), iv, x) <=> Award(list, iv, x)
<1>1. Head(<<NewEntry>>) = NewEntry /\ <<NewEntry>> # <<>> /\ NewEntry.due # 0
  BY DEF NewEntry, New
<1> DEFINE new == Enlisted(list, ivs)
<1>2. new \in Lists(T) /\ \A iv \in InVCs : /\ iv \in ivs => new[iv] = <<NewEntry>>
                                            /\ iv \notin ivs => new[iv] = list[iv]
  BY Enlisting
<1> HIDE DEF new
<1>3. ASSUME NEW iv \in InVCs
      PROVE  /\ new[iv] = <<>> <=> list[iv] = <<>> /\ iv \notin ivs
             /\ iv \in ivs => Head(new[iv]) = NewEntry
             /\ \A x \in T : Award(new, iv, x) <=> Award(list, iv, x)
  <2>1. CASE iv \in ivs
    <3>1. new[iv] = <<NewEntry>> /\ list[iv] = <<>>
      BY <1>2, <2>1
    <3>2. new[iv] # <<>> /\ Head(new[iv]) = NewEntry
      BY <1>1, <3>1
    <3> QED
      BY <1>1, <2>1, <3>1, <3>2 DEF Award
  <2>2. CASE iv \notin ivs
    BY <1>2, <2>2 DEF Award
  <2> QED
    BY <2>1, <2>2
<1> QED
  BY <1>2, <1>3 DEF new

\* _RouteUpdate moves the VCs that have a route to the next deques.
LEMMA RouteUpdateStep ==
  ASSUME UnitDelays, IInv, RouteUpdate
  PROVE  IInv'
<1> DEFINE stamped == Stamped(routeVcs, cfg.routingDelay, [iv \in Fresh(routeVcs) |-> None])
           done == Done(stamped)
<1>1. /\ phase = "route" /\ phase' = "vcupdate"
      /\ routeVcs' = Waiting(stamped)
      /\ state' = [iv \in InVCs |-> IF iv \in done THEN "vc_alloc" ELSE state[iv]]
      /\ swAllocVcs' = IF cfg.speculative THEN Enlisted(swAllocVcs, done) ELSE swAllocVcs
      /\ vcAllocVcs' = IF cfg.piggyback THEN vcAllocVcs ELSE Enlisted(vcAllocVcs, done)
      /\ active' = (active \/ Busy(routeVcs'))
      /\ cfg' = cfg /\ buf' = buf /\ outOf' = outOf
      /\ inUse' = inUse /\ occ' = occ /\ crossbar' = crossbar /\ outCredits' = outCredits
      /\ swHoldVcs' = swHoldVcs
      /\ holdVc' = holdVc /\ holdIn' = holdIn /\ holdOut' = holdOut
      /\ upOpen' = upOpen /\ upOcc' = upOcc /\ downOpen' = downOpen /\ downHeld' = downHeld
  BY DEF RouteUpdate, holdVars, linkVars
<1>2. /\ stamped \in Lists({})
      /\ \A iv \in InVCs : stamped[iv] = <<>> <=> routeVcs[iv] = <<>>
  <2>1. routeVcs \in Lists({}) /\ cfg.routingDelay \in Nat
    BY Built DEF IInv, TypeOK
  <2> QED
    BY <2>1, Stamping
<1> HIDE DEF stamped
<1>3. /\ routeVcs' \in Lists({})
      /\ \A iv \in InVCs : /\ iv \in done => routeVcs'[iv] = <<>>
                           /\ iv \notin done => routeVcs'[iv] = stamped[iv]
  BY <1>1, <1>2, Leaving
<1>4. \A iv \in done : iv \in InVCs /\ state[iv] = "routing" /\ buf[iv] # <<>> /\ FrontFlit(iv).n = 0
  <2>1. \A iv \in done : iv \in InVCs /\ routeVcs[iv] # <<>>
    BY <1>2 DEF Done
  <2> QED
    BY <2>1 DEF IInv, EachListed, StateFits
<1>5. \A iv \in done : swAllocVcs[iv] = <<>> /\ vcAllocVcs[iv] = <<>>
  BY <1>4 DEF IInv, EachListed, CanSend
<1> HIDE DEF done
<1>6. /\ swAllocVcs' \in Lists(Outputs)
      /\ \A iv \in InVCs :
           /\ swAllocVcs'[iv] = <<>> <=> swAllocVcs[iv] = <<>> /\ ~(cfg.speculative /\ iv \in done)
           /\ cfg.speculative /\ iv \in done => Head(swAllocVcs'[iv]) = NewEntry
           /\ ~(cfg.speculative /\ iv \in done) => swAllocVcs'[iv] = swAllocVcs[iv]
           /\ \A x \in Outputs : Award(swAllocVcs', iv, x) <=> Award(swAllocVcs, iv, x)
  <2>1. swAllocVcs \in Lists(Outputs)
    BY DEF IInv, TypeOK
  <2>2. CASE cfg.speculative
    BY <1>1, <1>5, <2>1, <2>2, Joining
  <2>3. CASE ~cfg.speculative
    BY <1>1, <2>1, <2>3
  <2> QED
    BY <2>2, <2>3
<1>7. /\ vcAllocVcs' \in Lists(OutVCs)
      /\ \A iv \in InVCs :
           /\ vcAllocVcs'[iv] = <<>> <=> vcAllocVcs[iv] = <<>> /\ ~(~cfg.piggyback /\ iv \in done)
           /\ ~cfg.piggyback /\ iv \in done => Head(vcAllocVcs'[iv]) = NewEntry
           /\ ~(~cfg.piggyback /\ iv \in done) => vcAllocVcs'[iv] = vcAllocVcs[iv]
           /\ \A x \in OutVCs : Award(vcAllocVcs', iv, x) <=> Award(vcAllocVcs, iv, x)
  <2>1. vcAllocVcs \in Lists(OutVCs)
    BY DEF IInv, TypeOK
  <2>2. CASE ~cfg.piggyback
    BY <1>1, <1>5, <2>1, <2>2, Joining
  <2>3. CASE cfg.piggyback
    BY <1>1, <2>1, <2>3
  <2> QED
    BY <2>2, <2>3
<1>8. /\ \A iv \in InVCs : state'[iv] = IF iv \in done THEN "vc_alloc" ELSE state[iv]
      /\ state' \in [InVCs -> States]
      /\ \A iv \in InVCs : state'[iv] = "active" <=> state[iv] = "active"
  BY <1>1, <1>4 DEF IInv, TypeOK, States
<1>9. TypeOK'
  <2>1. active' \in BOOLEAN
    BY <1>1 DEF IInv, TypeOK, Busy
  <2> QED
    BY <1>1, <1>3, <1>6, <1>7, <1>8, <2>1 DEF IInv, TypeOK, Phases
<1>10. StateFits'
  <2>1. ASSUME NEW iv \in InVCs
        PROVE  /\ state'[iv] = "idle" => buf[iv] = <<>> /\ upOpen[iv] = None
               /\ state'[iv] \in {"routing", "vc_alloc"} => buf[iv] # <<>> /\ FrontFlit(iv).n = 0
               /\ state'[iv] = "active" /\ buf[iv] = <<>> => upOpen[iv] # None
               /\ outOf[iv] # None <=> state'[iv] = "active"
    BY <1>4, <1>8 DEF IInv, StateFits
  <2> QED
    BY <1>1, <2>1 DEF StateFits, FrontFlit
<1>11. InOrder' /\ SentInOrder' /\ RouterCreditsAccounted' /\ CrossbarFits' /\ AtMostTwo'
  BY <1>1 DEF IInv, FrontFlit, InOrder, UpN, SentInOrder, Expected, NextN, RouterCreditsAccounted, CrossbarFits, AtMostTwo
<1>12. VcOwners' /\ HeldPairs' /\ HeldSends'
  BY <1>1, <1>8 DEF IInv, VcOwners, HeldPairs, HeldSends, Holds, CanSend
<1>13. EachListed'
  <2>1. ASSUME NEW iv \in InVCs
        PROVE  /\ routeVcs'[iv] # <<>> <=> state'[iv] = "routing"
               /\ vcAllocVcs'[iv] # <<>> <=> state'[iv] = "vc_alloc" /\ ~cfg.piggyback
               /\ swHoldVcs[iv] # <<>> <=> (state'[iv] = "active" /\ buf[iv] # <<>>) /\ Holds(iv)
               /\ swAllocVcs'[iv] # <<>> <=>
                    \/ state'[iv] = "vc_alloc" /\ cfg.speculative
                    \/ (state'[iv] = "active" /\ buf[iv] # <<>>) /\ ~Holds(iv)
    <3>1. CASE iv \in done
      BY <1>3, <1>4, <1>5, <1>6, <1>7, <1>8, <3>1 DEF IInv, EachListed, CanSend
    <3>2. CASE iv \notin done
      BY <1>2, <1>3, <1>6, <1>7, <1>8, <3>2 DEF IInv, EachListed, CanSend
    <3> QED
      BY <3>1, <3>2
  <2> QED
    BY <1>1, <2>1 DEF EachListed, CanSend, Holds
<1>14. Stamps'
  <2>1. NewOrDue(vcAllocVcs')
    BY <1>1, <1>7 DEF IInv, Stamps, AllDue, NewOrDue
  <2>2. NewOrDue(swAllocVcs')
    BY <1>1, <1>6 DEF IInv, Stamps, AllDue, NewOrDue
  <2>3. AllDue(swHoldVcs')
    BY <1>1 DEF IInv, Stamps
  <2> QED
    BY <1>1, <2>1, <2>2, <2>3 DEF Stamps, NewOrDue, AllDue
<1>15. VcGrantsFit' /\ HoldGrantsFit'
  <2>1. VcGrantsFit'
    BY <1>1, <1>7 DEF IInv, VcGrantsFit, FrontFlit, Award
  <2>2. HoldGrantsFit'
    BY <1>1 DEF IInv, HoldGrantsFit, Award
  <2> QED
    BY <2>1, <2>2
<1>16. SwGrantsFit'
  <2>1. ASSUME NEW iv \in InVCs, NEW o \in Outputs, Award(swAllocVcs, iv, o)
        PROVE  MayUse(iv, o)'
    <3>1. MayUse(iv, o) /\ iv \notin done
      BY <1>1, <1>5, <2>1 DEF IInv, SwGrantsFit, Award
    <3>2. state'[iv] = state[iv]
      BY <1>8, <3>1
    <3>3. FreeVc(o)' <=> FreeVc(o)
      BY <1>1 DEF FreeVc
    <3>4. \A ov \in OutVCs : Award(vcAllocVcs, iv, ov)' <=> Award(vcAllocVcs, iv, ov)
      BY <1>7 DEF Award
    <3> QED
      BY <1>1, <3>1, <3>2, <3>3, <3>4 DEF MayUse, FrontFlit
  <2>2. \A iv \in InVCs, o \in Outputs : Award(swAllocVcs, iv, o)' <=> Award(swAllocVcs, iv, o)
    BY <1>6 DEF Award
  <2> QED
    BY <1>1, <2>1, <2>2 DEF IInv, SwGrantsFit
<1>17. StaysAwake'
  BY <1>1 DEF StaysAwake, Busy
<1> QED
  BY <1>9, <1>10, <1>11, <1>12, <1>13, <1>14, <1>15, <1>16, <1>17 DEF IInv

\* _VCAllocUpdate gives the granted output VCs away; the grants of the switch stand.
LEMMA VCAllocUpdateStep ==
  ASSUME UnitDelays, IInv, VCAllocUpdate
  PROVE  IInv'
<1> DEFINE done == Done(vcAllocVcs)
           won == Granted(vcAllocVcs)
           got == [iv \in won |-> GrantOf(vcAllocVcs, iv)]
           left == Waiting(vcAllocVcs)
<1>1. /\ phase = "vcupdate" /\ phase' = "hold"
      /\ state' = [iv \in InVCs |-> IF iv \in won THEN "active" ELSE state[iv]]
      /\ outOf' = [iv \in InVCs |-> IF iv \in won THEN got[iv] ELSE outOf[iv]]
      /\ inUse' = [ov \in OutVCs |-> IF \E iv \in won : got[iv] = ov
                                     THEN CHOOSE iv \in won : got[iv] = ov ELSE inUse[ov]]
      /\ vcAllocVcs' = Enlisted(left, done \ won)
      /\ swAllocVcs' = IF ~cfg.speculative THEN Enlisted(swAllocVcs, won) ELSE swAllocVcs
      /\ active' = (active \/ Busy(vcAllocVcs'))
      /\ cfg' = cfg /\ buf' = buf
      /\ occ' = occ /\ crossbar' = crossbar /\ outCredits' = outCredits
      /\ routeVcs' = routeVcs /\ swHoldVcs' = swHoldVcs
      /\ holdVc' = holdVc /\ holdIn' = holdIn /\ holdOut' = holdOut
      /\ upOpen' = upOpen /\ upOcc' = upOcc /\ downOpen' = downOpen /\ downHeld' = downHeld
  BY DEF VCAllocUpdate, BidsOnGrant, holdVars, linkVars
<1>2. vcAllocVcs \in Lists(OutVCs) /\ NewOrDue(vcAllocVcs)
  BY <1>1 DEF IInv, TypeOK, Stamps
<1>3. /\ done = {iv \in InVCs : vcAllocVcs[iv] # <<>> /\ Head(vcAllocVcs[iv]).due = 0}
      /\ won \subseteq done
      /\ \A iv \in InVCs, ov \in OutVCs : Award(vcAllocVcs, iv, ov) <=> iv \in won /\ got[iv] = ov
      /\ \A iv \in won : got[iv] \in OutVCs
  BY <1>2, GrantedIs, NoneIsNothing
<1>4. /\ left \in Lists(OutVCs)
      /\ \A iv \in InVCs : /\ iv \in done => left[iv] = <<>>
                           /\ iv \notin done => left[iv] = vcAllocVcs[iv]
  BY <1>2, Leaving
<1> HIDE DEF done, won, got, left
<1>5. \A iv \in done : /\ iv \in InVCs /\ state[iv] = "vc_alloc" /\ ~cfg.piggyback
                       /\ buf[iv] # <<>> /\ FrontFlit(iv).n = 0
  BY <1>3 DEF IInv, EachListed, StateFits
\* Those who won an output VC got one that nobody had, each another one.
<1>6. \A iv \in won : /\ inUse[got[iv]] = None
                      /\ \A j \in won : got[j] = got[iv] => j = iv
  BY <1>1, <1>3, <1>5 DEF IInv, VcGrantsFit
<1>7. \A iv \in won : inUse'[got[iv]] = iv
  <2> SUFFICES ASSUME NEW iv \in won PROVE inUse'[got[iv]] = iv
    OBVIOUS
  <2>1. got[iv] \in OutVCs
    BY <1>3
  <2>2. inUse'[got[iv]] = CHOOSE j \in won : got[j] = got[iv]
    BY <1>1, <2>1
  <2>3. \A j \in won : got[j] = got[iv] <=> j = iv
    BY <1>6
  <2> QED
    BY <2>2, <2>3
<1>8. \A ov \in OutVCs : (\A iv \in won : got[iv] # ov) => inUse'[ov] = inUse[ov]
  BY <1>1
<1>9. \A iv \in InVCs : /\ iv \in won => state'[iv] = "active" /\ outOf'[iv] = got[iv]
                        /\ iv \notin won => state'[iv] = state[iv] /\ outOf'[iv] = outOf[iv]
  BY <1>1
<1>10. /\ vcAllocVcs' \in Lists(OutVCs)
       /\ \A iv \in InVCs :
            /\ vcAllocVcs'[iv] = <<>> <=> vcAllocVcs[iv] = <<>> \/ iv \in won
            /\ vcAllocVcs'[iv] # <<>> => Head(vcAllocVcs'[iv]) = NewEntry
  <2>1. \A iv \in done \ won : left[iv] = <<>>
    BY <1>3, <1>4
  <2>2. /\ vcAllocVcs' \in Lists(OutVCs)
        /\ \A iv \in InVCs :
             /\ vcAllocVcs'[iv] = <<>> <=> left[iv] = <<>> /\ iv \notin done \ won
             /\ iv \in done \ won => Head(vcAllocVcs'[iv]) = NewEntry
             /\ iv \notin done \ won => vcAllocVcs'[iv] = left[iv]
    BY <1>1, <1>4, <2>1, Joining
  <2>3. \A iv \in InVCs : vcAllocVcs[iv] # <<>> /\ iv \notin done => Head(vcAllocVcs[iv]) = NewEntry
    BY <1>2, <1>3 DEF NewOrDue
  <2> QED
    BY <1>3, <1>4, <2>2, <2>3
<1>11. /\ swAllocVcs' \in Lists(Outputs)
       /\ \A iv \in InVCs :
            /\ swAllocVcs'[iv] = <<>> <=> swAllocVcs[iv] = <<>> /\ ~(~cfg.speculative /\ iv \in won)
            /\ ~cfg.speculative /\ iv \in won => Head(swAllocVcs'[iv]) = NewEntry
            /\ ~(~cfg.speculative /\ iv \in won) => swAllocVcs'[iv] = swAllocVcs[iv]
            /\ \A x \in Outputs : Award(swAllocVcs', iv, x) <=> Award(swAllocVcs, iv, x)
  <2>1. swAllocVcs \in Lists(Outputs)
    BY DEF IInv, TypeOK
  <2>2. CASE ~cfg.speculative
    <3>1. \A iv \in won : swAllocVcs[iv] = <<>>
      BY <1>3, <1>5, <2>2 DEF IInv, EachListed, CanSend
    <3> QED
      BY <1>1, <2>1, <2>2, <3>1, Joining
  <2>3. CASE cfg.speculative
    BY <1>1, <2>1, <2>3
  <2> QED
    BY <2>2, <2>3
<1>12. TypeOK'
  <2>1. active' \in BOOLEAN
    BY <1>1 DEF IInv, TypeOK, Busy
  <2>2. state' \in [InVCs -> States] /\ outOf' \in [InVCs -> OutVCs \cup {None}]
    BY <1>1, <1>3 DEF IInv, TypeOK, States
  <2>3. inUse' \in [OutVCs -> InVCs \cup {None}]
    <3>1. ASSUME NEW ov \in OutVCs
          PROVE  inUse'[ov] \in InVCs \cup {None}
      <4>1. CASE \E iv \in won : got[iv] = ov
        BY <1>3, <1>7, <4>1
      <4>2. CASE \A iv \in won : got[iv] # ov
        BY <1>8, <4>2 DEF IInv, TypeOK
      <4> QED
        BY <4>1, <4>2
    <3> QED
      BY <1>1, <3>1
  <2> QED
    BY <1>1, <1>10, <1>11, <2>1, <2>2, <2>3 DEF IInv, TypeOK, Phases
<1>13. StateFits'
  <2>1. ASSUME NEW iv \in InVCs
        PROVE  /\ state'[iv] = "idle" => buf[iv] = <<>> /\ upOpen[iv] = None
               /\ state'[iv] \in {"routing", "vc_alloc"} => buf[iv] # <<>> /\ FrontFlit(iv).n = 0
               /\ state'[iv] = "active" /\ buf[iv] = <<>> => upOpen[iv] # None
               /\ outOf'[iv] # None <=> state'[iv] = "active"
    <3>1. CASE iv \in won
      BY <1>3, <1>5, <1>9, <3>1, NoneIsNothing
    <3>2. CASE iv \notin won
      BY <1>9, <3>2 DEF IInv, StateFits
    <3> QED
      BY <3>1, <3>2
  <2> QED
    BY <1>1, <2>1 DEF StateFits, FrontFlit
<1>14. VcOwners'
  <2> SUFFICES ASSUME NEW ov \in OutVCs, NEW iv \in InVCs
               PROVE  inUse'[ov] = iv <=> state'[iv] = "active" /\ outOf'[iv] = ov
    BY DEF VcOwners
  <2>1. iv \notin won => (inUse[ov] = iv <=> state'[iv] = "active" /\ outOf'[iv] = ov)
    BY <1>9 DEF IInv, VcOwners
  <2>2. CASE \E j \in won : got[j] = ov
    BY <1>6, <1>7, <1>9, <2>1, <2>2, NoneIsNothing
  <2>3. CASE \A j \in won : got[j] # ov
    <3>1. iv \in won => inUse[ov] # iv
      BY <1>3, <1>5 DEF IInv, VcOwners
    <3> QED
      BY <1>8, <1>9, <2>1, <2>3, <3>1
  <2> QED
    BY <2>2, <2>3
\* A VC that waited for an output VC held no connection.
<1>15. \A iv \in won : ~Holds(iv)
  BY <1>3, <1>5 DEF IInv, HeldSends, CanSend
<1>16. HeldPairs' /\ HeldSends'
  <2>1. HeldPairs'
    BY <1>1 DEF IInv, HeldPairs
  <2>2. ASSUME NEW iv \in InVCs, Holds(iv)
        PROVE  state'[iv] = "active" /\ buf[iv] # <<>> /\ outOf'[iv][1] = holdIn[iv[1]]
    BY <1>9, <1>15, <2>2 DEF IInv, HeldSends, CanSend
  <2> QED
    BY <1>1, <2>1, <2>2 DEF HeldSends, Holds, CanSend
<1>17. EachListed'
  <2>1. ASSUME NEW iv \in InVCs
        PROVE  /\ routeVcs[iv] # <<>> <=> state'[iv] = "routing"
               /\ vcAllocVcs'[iv] # <<>> <=> state'[iv] = "vc_alloc" /\ ~cfg.piggyback
               /\ swHoldVcs[iv] # <<>> <=> (state'[iv] = "active" /\ buf[iv] # <<>>) /\ Holds(iv)
               /\ swAllocVcs'[iv] # <<>> <=>
                    \/ state'[iv] = "vc_alloc" /\ cfg.speculative
                    \/ (state'[iv] = "active" /\ buf[iv] # <<>>) /\ ~Holds(iv)
    <3>1. CASE iv \in won
      BY <1>3, <1>5, <1>9, <1>10, <1>11, <1>15, <3>1 DEF IInv, EachListed, CanSend
    <3>2. CASE iv \notin won
      BY <1>9, <1>10, <1>11, <3>2 DEF IInv, EachListed, CanSend
    <3> QED
      BY <3>1, <3>2
  <2> QED
    BY <1>1, <2>1 DEF EachListed, CanSend, Holds
<1>18. Stamps'
  <2>1. AllNew(vcAllocVcs')
    BY <1>10 DEF AllNew
  <2>2. NewOrDue(swAllocVcs')
    BY <1>1, <1>11 DEF IInv, Stamps, NewOrDue
  <2>3. AllDue(swHoldVcs')
    BY <1>1 DEF IInv, Stamps
  <2> QED
    BY <1>1, <2>1, <2>2, <2>3 DEF Stamps, NewOrDue, AllDue, AllNew
<1>19. VcGrantsFit' /\ HoldGrantsFit'
  <2>1. ASSUME NEW iv \in InVCs, NEW o \in Outputs, Award(swHoldVcs, iv, o)
        PROVE  occ[outOf'[iv]] < BufSize
    <3>1. iv \notin won
      BY <1>15, <2>1 DEF IInv, EachListed, Award
    <3> QED
      BY <1>1, <1>9, <2>1, <3>1 DEF IInv, HoldGrantsFit
  <2> QED
    BY <1>1, <2>1 DEF VcGrantsFit, HoldGrantsFit, Award
<1>20. SwGrantsFit'
  <2>1. ASSUME NEW iv \in InVCs, NEW o \in Outputs, Award(swAllocVcs, iv, o)
        PROVE  MayUse(iv, o)'
    <3>1. MayUse(iv, o)
      BY <1>1, <2>1 DEF IInv, SwGrantsFit
    <3>2. CASE iv \in won
      <4>1. PICK ov \in OutVCs : Award(vcAllocVcs, iv, ov) /\ ov[1] = o /\ occ[ov] < BufSize
        BY <1>3, <1>5, <3>1, <3>2 DEF MayUse
      <4>2. state'[iv] = "active" /\ outOf'[iv] = ov
        BY <1>3, <1>9, <3>2, <4>1
      <4> QED
        BY <1>1, <4>1, <4>2 DEF MayUse
    <3>3. CASE iv \notin won
      <4>1. state'[iv] = state[iv] /\ outOf'[iv] = outOf[iv]
        BY <1>9, <3>3
      <4>2. ~(state[iv] = "vc_alloc" /\ ~cfg.piggyback)
        BY <1>3, <3>1, <3>3 DEF MayUse
      <4>3. cfg.piggyback => \A ov \in OutVCs : inUse'[ov] = inUse[ov]
        BY <1>3, <1>5, <1>8
      <4>4. cfg.piggyback /\ FreeVc(o) => FreeVc(o)'
        BY <1>1, <4>3, Ports DEF FreeVc
      <4> QED
        BY <1>1, <3>1, <4>1, <4>2, <4>4 DEF MayUse, FrontFlit
    <3> QED
      BY <3>2, <3>3
  <2>2. \A iv \in InVCs, o \in Outputs : Award(swAllocVcs, iv, o)' <=> Award(swAllocVcs, iv, o)
    BY <1>11 DEF Award
  <2> QED
    BY <1>1, <2>1, <2>2 DEF IInv, SwGrantsFit
<1>21. InOrder' /\ RouterCreditsAccounted' /\ CrossbarFits' /\ AtMostTwo'
  BY <1>1 DEF IInv, InOrder, UpN, RouterCreditsAccounted, CrossbarFits, AtMostTwo
<1>22. SentInOrder'
  <2>1. ASSUME NEW ov \in OutVCs
        PROVE  Expected(ov)' = Expected(ov)
    <3>1. \A iv \in InVCs : NextN(iv)' = NextN(iv)
      BY <1>1 DEF NextN, FrontFlit, UpN
    <3>2. CASE \E iv \in won : got[iv] = ov
      <4>1. PICK iv \in won : got[iv] = ov
        BY <3>2
      <4>2. iv \in InVCs /\ NextN(iv) = 0
        BY <1>3, <1>5 DEF NextN
      <4>3. inUse'[ov] = iv /\ inUse[ov] = None
        BY <1>6, <1>7, <4>1
      <4> QED
        BY <3>1, <4>2, <4>3 DEF Expected
    <3>3. CASE \A iv \in won : got[iv] # ov
      <4>1. inUse'[ov] = inUse[ov] /\ inUse[ov] \in InVCs \cup {None}
        BY <1>8, <3>3 DEF IInv, TypeOK
      <4> QED
        BY <3>1, <4>1 DEF Expected
    <3> QED
      BY <3>2, <3>3
  <2> QED
    BY <1>1, <2>1 DEF IInv, SentInOrder
<1>23. StaysAwake'
  BY <1>1 DEF IInv, StaysAwake, Busy, Quiet
<1> QED
  BY <1>12, <1>13, <1>14, <1>16, <1>17, <1>18, <1>19, <1>20, <1>21, <1>22, <1>23 DEF IInv

-----------------------------------------------------------------------------
(* What Send changes.                                                      *)

\* The VCs of S may send on the output VCs that ov says: each on its own, or on one that
\* nobody has, which has a credit, and at an output that takes one flit.
Sendable(S, ov) ==
  /\ S \subseteq InVCs /\ ov \in [S -> OutVCs]
  /\ \A iv \in S :
       /\ buf[iv] # <<>> /\ iv \notin outCredits /\ occ[ov[iv]] < BufSize
       /\ \/ state[iv] = "active" /\ outOf[iv] = ov[iv]
          \/ state[iv] = "vc_alloc" /\ inUse[ov[iv]] = None
       /\ \A k \in 1 .. Len(crossbar[ov[iv][1]]) : crossbar[ov[iv][1]][k].due = 0
  /\ \A a, b \in S : a # b => ov[a][1] # ov[b][1]

Sent(iv, x) ==
  [due |-> New, src |-> iv, n |-> FrontFlit(iv).n, tail |-> FrontFlit(iv).tail, vc |-> x[2]]

\* The effect on a sender, on an output VC, and on an output.
LEMMA SendEffect ==
  ASSUME NEW S, NEW ov, Sendable(S, ov), Send(S, ov)
  PROVE  /\ \A iv \in InVCs : iv \notin S => buf'[iv] = buf[iv] /\ state'[iv] = state[iv] /\ outOf'[iv] = outOf[iv]
         /\ \A iv \in S :
              /\ buf'[iv] = Tail(buf[iv])
              /\ state'[iv] = IF ~FrontFlit(iv).tail THEN "active"
                              ELSE IF HasNext(iv) THEN StateOfNext ELSE "idle"
              /\ outOf'[iv] = IF FrontFlit(iv).tail THEN None ELSE ov[iv]
              /\ inUse'[ov[iv]] = IF FrontFlit(iv).tail THEN None ELSE iv
              /\ occ'[ov[iv]] = occ[ov[iv]] + 1
              /\ crossbar'[ov[iv][1]] = Append(crossbar[ov[iv][1]], Sent(iv, ov[iv]))
         /\ \A x \in OutVCs : (\A iv \in S : ov[iv] # x) => inUse'[x] = inUse[x] /\ occ'[x] = occ[x]
         /\ \A o \in Outputs : (\A iv \in S : ov[iv][1] # o) => crossbar'[o] = crossbar[o]
         /\ outCredits' = outCredits \cup S
         /\ buf' = [iv \in InVCs |-> buf'[iv]] /\ state' = [iv \in InVCs |-> state'[iv]]
         /\ outOf' = [iv \in InVCs |-> outOf'[iv]]
         /\ inUse' = [x \in OutVCs |-> inUse'[x]] /\ occ' = [x \in OutVCs |-> occ'[x]]
         /\ crossbar' = [o \in Outputs |-> crossbar'[o]]
<1>1. \A iv \in S : /\ iv \in InVCs /\ ov[iv] \in OutVCs /\ ov[iv][1] \in Outputs
                    /\ \A j \in S : ov[j][1] = ov[iv][1] => j = iv
  BY Ports DEF Sendable
<1>2. ASSUME NEW iv \in S
      PROVE  /\ (CHOOSE j \in S : ov[j] = ov[iv]) = iv
             /\ (CHOOSE j \in {j \in S : ov[j][1] = ov[iv][1]} : TRUE) = iv
  <2>1. \A j \in S : ov[j] = ov[iv] <=> j = iv
    BY <1>1
  <2>2. {j \in S : ov[j][1] = ov[iv][1]} = {iv}
    BY <1>1
  <2>3. (CHOOSE j \in {iv} : TRUE) = iv
    OBVIOUS
  <2> QED
    BY <2>1, <2>2, <2>3
<1>3. ASSUME NEW iv \in S
      PROVE  /\ buf'[iv] = Tail(buf[iv])
             /\ state'[iv] = IF ~FrontFlit(iv).tail THEN "active"
                             ELSE IF HasNext(iv) THEN StateOfNext ELSE "idle"
             /\ outOf'[iv] = IF FrontFlit(iv).tail THEN None ELSE ov[iv]
             /\ occ'[ov[iv]] = occ[ov[iv]] + 1
  BY <1>1 DEF Send
<1>4. ASSUME NEW iv \in S
      PROVE  inUse'[ov[iv]] = IF FrontFlit(iv).tail THEN None ELSE iv
  <2>1. inUse'[ov[iv]] = LET j == CHOOSE j \in S : ov[j] = ov[iv]
                         IN IF LastOnVc(FrontFlit(j)) THEN None ELSE j
    BY <1>1 DEF Send
  <2> QED
    BY <1>2, <2>1 DEF LastOnVc
<1>5. ASSUME NEW iv \in S
      PROVE  crossbar'[ov[iv][1]] = Append(crossbar[ov[iv][1]], Sent(iv, ov[iv]))
  <2>1. {j \in S : ov[j][1] = ov[iv][1]} # {}
    OBVIOUS
  <2>2. crossbar'[ov[iv][1]] =
          LET j == CHOOSE j \in {j \in S : ov[j][1] = ov[iv][1]} : TRUE
          IN Append(crossbar[ov[iv][1]], [due |-> New, src |-> j, n |-> FrontFlit(j).n,
                                          tail |-> FrontFlit(j).tail, vc |-> ov[j][2]])
    BY <1>1, <2>1 DEF Send
  <2> QED
    BY <1>2, <2>2 DEF Sent
<1>6. \A x \in OutVCs : (\A iv \in S : ov[iv] # x) => inUse'[x] = inUse[x] /\ occ'[x] = occ[x]
  BY DEF Send
<1>7. ASSUME NEW o \in Outputs, \A iv \in S : ov[iv][1] # o
      PROVE  crossbar'[o] = crossbar[o]
  <2>1. {iv \in S : ov[iv][1] = o} = {}
    BY <1>7
  <2> QED
    BY <2>1 DEF Send
<1>8. \A iv \in InVCs : iv \notin S => buf'[iv] = buf[iv] /\ state'[iv] = state[iv] /\ outOf'[iv] = outOf[iv]
  BY DEF Send
<1>9. /\ outCredits' = outCredits \cup S
      /\ buf' = [iv \in InVCs |-> buf'[iv]] /\ state' = [iv \in InVCs |-> state'[iv]]
      /\ outOf' = [iv \in InVCs |-> outOf'[iv]]
      /\ inUse' = [x \in OutVCs |-> inUse'[x]] /\ occ' = [x \in OutVCs |-> occ'[x]]
      /\ crossbar' = [o \in Outputs |-> crossbar'[o]]
  BY DEF Send
<1> QED
  BY <1>3, <1>4, <1>5, <1>6, <1>7, <1>8, <1>9

\* The buffer of a VC when its front flit has gone.
LEMMA NextFlit ==
  ASSUME NEW b \in Seq(Flit), b # <<>>
  PROVE  /\ Head(b) \in Flit /\ Head(b) = b[1] /\ Len(b) \in Nat \ {0}
         /\ Tail(b) \in Seq(Flit) /\ Len(Tail(b)) = Len(b) - 1
         /\ Tail(b) # <<>> <=> Len(b) > 1
         /\ \A k \in 1 .. Len(b) - 1 : Tail(b)[k] = b[k + 1]
         /\ Tail(b) # <<>> => Head(Tail(b)) = b[2]
<1>1. Len(b) \in Nat \ {0} /\ Head(b) = b[1] /\ b[1] \in Flit
  OBVIOUS
<1>2. Tail(b) \in Seq(Flit) /\ Len(Tail(b)) = Len(b) - 1
  OBVIOUS
<1>3. \A k \in 1 .. Len(b) - 1 : Tail(b)[k] = b[k + 1]
  OBVIOUS
<1>4. Tail(b) # <<>> <=> Len(b) > 1
  BY <1>1, <1>2
<1>5. ASSUME Tail(b) # <<>>
      PROVE  Head(Tail(b)) = b[2]
  <2>1. Head(Tail(b)) = Tail(b)[1]
    BY <1>2, <1>5
  <2> QED
    BY <1>1, <1>3, <1>4, <1>5, <2>1
<1> QED
  BY <1>1, <1>2, <1>3, <1>4, <1>5

\* The next flit of a VC follows the one that it sends.
LEMMA SendInOrder ==
  ASSUME TypeOK, InOrder, NEW S, NEW ov, Sendable(S, ov), Send(S, ov), UNCHANGED upOpen
  PROVE  /\ InOrder'
         /\ buf' \in [InVCs -> Seq(Flit)]
         /\ \A iv \in S :
              /\ FrontFlit(iv) \in Flit
              /\ Follows(FrontFlit(iv), NextN(iv)')
              /\ buf'[iv] # <<>> <=> Len(buf[iv]) > 1
         /\ \A iv \in InVCs : iv \notin S => NextN(iv)' = NextN(iv)
<1>1. /\ \A iv \in InVCs : iv \notin S => buf'[iv] = buf[iv]
      /\ \A iv \in S : buf'[iv] = Tail(buf[iv]) /\ iv \in InVCs /\ buf[iv] # <<>>
      /\ buf' = [iv \in InVCs |-> buf'[iv]] /\ upOpen' = upOpen
  BY SendEffect DEF Sendable
<1>2. buf \in [InVCs -> Seq(Flit)] /\ upOpen \in [InVCs -> Sending \cup {None}]
  BY DEF TypeOK
<1>3. ASSUME NEW iv \in InVCs
      PROVE  UpN(iv)' = UpN(iv)
  BY <1>1 DEF UpN
<1>4. ASSUME NEW iv \in S
      PROVE  /\ buf'[iv] \in Seq(Flit) /\ FrontFlit(iv) \in Flit
             /\ Follows(FrontFlit(iv), NextN(iv)')
             /\ buf'[iv] # <<>> <=> Len(buf[iv]) > 1
             /\ \A k \in 1 .. Len(buf'[iv]) - 1 : Follows(buf'[iv][k], buf'[iv][k + 1].n)
             /\ buf'[iv] # <<>> => Follows(buf'[iv][Len(buf'[iv])], UpN(iv))
  <2> DEFINE b == buf[iv]
             t == Tail(buf[iv])
  <2>1. b \in Seq(Flit) /\ b # <<>> /\ iv \in InVCs /\ buf'[iv] = t
    BY <1>1, <1>2
  <2>2. /\ Head(b) \in Flit /\ Head(b) = b[1] /\ Len(b) \in Nat \ {0}
        /\ t \in Seq(Flit) /\ Len(t) = Len(b) - 1
        /\ t # <<>> <=> Len(b) > 1
        /\ \A k \in 1 .. Len(b) - 1 : t[k] = b[k + 1]
        /\ t # <<>> => Head(t) = b[2]
    BY <2>1, NextFlit
  <2>3. /\ \A k \in 1 .. Len(b) - 1 : Follows(b[k], b[k + 1].n)
        /\ Follows(b[Len(b)], UpN(iv))
    BY <2>1 DEF InOrder
  <2> HIDE DEF b, t
  <2>4. ASSUME NEW k \in 1 .. Len(t) - 1
        PROVE  Follows(t[k], t[k + 1].n)
    <3>1. k \in 1 .. Len(b) - 1 /\ k + 1 \in 1 .. Len(b) - 1
      BY <2>2
    <3>2. t[k] = b[k + 1] /\ t[k + 1] = b[(k + 1) + 1]
      BY <2>2, <3>1
    <3> QED
      BY <2>3, <3>1, <3>2
  <2>5. ASSUME t # <<>>
        PROVE  Follows(t[Len(t)], UpN(iv))
    <3>1. Len(t) \in 1 .. Len(b) - 1 /\ Len(t) + 1 = Len(b)
      BY <2>2, <2>5
    <3>2. t[Len(t)] = b[Len(b)]
      BY <2>2, <3>1
    <3> QED
      BY <2>3, <3>2
  <2>6. NextN(iv)' = IF t # <<>> THEN Head(t).n ELSE UpN(iv)
    BY <1>3, <2>1 DEF NextN, FrontFlit
  <2>7. Follows(b[1], NextN(iv)')
    <3>1. CASE Len(b) > 1
      <4>1. 1 \in 1 .. Len(b) - 1
        BY <2>2, <3>1
      <4>2. NextN(iv)' = b[1 + 1].n
        BY <2>2, <2>6, <3>1
      <4> QED
        BY <2>3, <4>1, <4>2
    <3>2. CASE ~(Len(b) > 1)
      <4>1. Len(b) = 1 /\ t = <<>>
        BY <2>2, <3>2
      <4> QED
        BY <2>3, <2>6, <4>1
    <3> QED
      BY <3>1, <3>2
  <2> QED
    BY <2>1, <2>2, <2>4, <2>5, <2>7 DEF FrontFlit, b
<1>5. ASSUME NEW iv \in InVCs, iv \notin S
      PROVE  NextN(iv)' = NextN(iv) /\ buf'[iv] = buf[iv]
  BY <1>1, <1>3, <1>5 DEF NextN, FrontFlit
<1>6. buf' \in [InVCs -> Seq(Flit)]
  BY <1>1, <1>2, <1>4, <1>5
<1>7. ASSUME NEW iv \in InVCs
      PROVE  /\ \A k \in 1 .. Len(buf'[iv]) - 1 : Follows(buf'[iv][k], buf'[iv][k + 1].n)
             /\ buf'[iv] # <<>> => Follows(buf'[iv][Len(buf'[iv])], UpN(iv))
  <2>1. CASE iv \in S
    BY <1>4, <2>1
  <2>2. CASE iv \notin S
    BY <1>5, <2>2 DEF InOrder
  <2> QED
    BY <2>1, <2>2
<1>8. InOrder'
  <2>1. \A iv \in InVCs : upOpen'[iv] # None => upOpen'[iv].n > 0
    BY <1>1 DEF InOrder
  <2> QED
    BY <1>3, <1>7, <2>1 DEF InOrder, Follows
<1> QED
  BY <1>4, <1>5, <1>6, <1>8

\* The states of the senders, and the owners of output VCs.
LEMMA SendStates ==
  ASSUME TypeOK, StateFits, InOrder, VcOwners, NEW S, NEW ov, Sendable(S, ov), Send(S, ov),
         UNCHANGED upOpen
  PROVE  /\ state' \in [InVCs -> States] /\ outOf' \in [InVCs -> OutVCs \cup {None}]
         /\ inUse' \in [OutVCs -> InVCs \cup {None}]
         /\ StateFits' /\ VcOwners'
         /\ \A iv \in S : state'[iv] = "active" <=> ~FrontFlit(iv).tail
<1>1. /\ \A iv \in InVCs : iv \notin S => buf'[iv] = buf[iv] /\ state'[iv] = state[iv] /\ outOf'[iv] = outOf[iv]
      /\ \A iv \in S :
           /\ state'[iv] = IF ~FrontFlit(iv).tail THEN "active"
                           ELSE IF HasNext(iv) THEN StateOfNext ELSE "idle"
           /\ outOf'[iv] = IF FrontFlit(iv).tail THEN None ELSE ov[iv]
           /\ inUse'[ov[iv]] = IF FrontFlit(iv).tail THEN None ELSE iv
      /\ \A x \in OutVCs : (\A iv \in S : ov[iv] # x) => inUse'[x] = inUse[x]
      /\ state' = [iv \in InVCs |-> state'[iv]] /\ outOf' = [iv \in InVCs |-> outOf'[iv]]
      /\ inUse' = [x \in OutVCs |-> inUse'[x]]
      /\ upOpen' = upOpen
  BY SendEffect
<1>2. \A iv \in S :
        /\ iv \in InVCs /\ ov[iv] \in OutVCs /\ ov[iv] # None
        /\ \/ state[iv] = "active" /\ outOf[iv] = ov[iv]
           \/ state[iv] = "vc_alloc" /\ inUse[ov[iv]] = None
        /\ \A j \in S : ov[j] = ov[iv] => j = iv
  BY NoneIsNothing DEF Sendable
<1>3. /\ \A iv \in S : /\ FrontFlit(iv) \in Flit
                       /\ Follows(FrontFlit(iv), NextN(iv)')
                       /\ buf'[iv] # <<>> <=> Len(buf[iv]) > 1
  BY SendInOrder
<1>4. StateOfNext \in {"routing", "vc_alloc"}
  BY DEF StateOfNext
<1>5. \A iv \in S : state'[iv] = "active" <=> ~FrontFlit(iv).tail
  BY <1>1, <1>4
<1>6. state' \in [InVCs -> States] /\ outOf' \in [InVCs -> OutVCs \cup {None}]
  <2>1. ASSUME NEW iv \in InVCs
        PROVE  state'[iv] \in States /\ outOf'[iv] \in OutVCs \cup {None}
    <3>1. CASE iv \in S
      BY <1>1, <1>2, <1>4, <3>1 DEF States
    <3>2. CASE iv \notin S
      BY <1>1, <3>2 DEF TypeOK
    <3> QED
      BY <3>1, <3>2
  <2> QED
    BY <1>1, <2>1
<1>7. inUse' \in [OutVCs -> InVCs \cup {None}]
  <2>1. ASSUME NEW x \in OutVCs
        PROVE  inUse'[x] \in InVCs \cup {None}
    <3>1. CASE \E iv \in S : ov[iv] = x
      BY <1>1, <1>2, <3>1
    <3>2. CASE \A iv \in S : ov[iv] # x
      BY <1>1, <3>2 DEF TypeOK
    <3> QED
      BY <3>1, <3>2
  <2> QED
    BY <1>1, <2>1
<1>8. StateFits'
  <2>1. ASSUME NEW iv \in InVCs
        PROVE  /\ state'[iv] = "idle" => buf'[iv] = <<>> /\ upOpen[iv] = None
               /\ state'[iv] \in {"routing", "vc_alloc"} => buf'[iv] # <<>> /\ Head(buf'[iv]).n = 0
               /\ state'[iv] = "active" /\ buf'[iv] = <<>> => upOpen[iv] # None
               /\ outOf'[iv] # None <=> state'[iv] = "active"
    <3>1. CASE iv \in S
      <4>1. NextN(iv)' = IF buf'[iv] # <<>> THEN Head(buf'[iv]).n ELSE UpN(iv)
        BY <1>1 DEF NextN, FrontFlit, UpN
      <4>2. NextN(iv)' = IF FrontFlit(iv).tail THEN 0 ELSE FrontFlit(iv).n + 1
        BY <1>3, <3>1 DEF Follows
      <4>3. FrontFlit(iv).n \in Nat
        BY <1>3, <3>1 DEF Flit
      <4>4. upOpen[iv] = None <=> UpN(iv) = 0
        BY DEF UpN, InOrder
      <4>5. CASE FrontFlit(iv).tail
        <5>1. state'[iv] = IF HasNext(iv) THEN StateOfNext ELSE "idle"
          BY <1>1, <3>1, <4>5
        <5>2. HasNext(iv) <=> buf'[iv] # <<>>
          BY <1>3, <3>1, <4>5 DEF HasNext
        <5>3. NextN(iv)' = 0 /\ outOf'[iv] = None
          BY <1>1, <3>1, <4>2, <4>5
        <5>4. CASE HasNext(iv)
          BY <1>4, <4>1, <5>1, <5>2, <5>3, <5>4
        <5>5. CASE ~HasNext(iv)
          BY <4>1, <4>4, <5>1, <5>2, <5>3, <5>5
        <5> QED
          BY <5>4, <5>5
      <4>6. CASE ~FrontFlit(iv).tail
        <5>1. state'[iv] = "active" /\ outOf'[iv] # None
          BY <1>1, <1>2, <3>1, <4>6
        <5>2. NextN(iv)' # 0
          BY <4>2, <4>3, <4>6
        <5> QED
          BY <4>1, <4>4, <5>1, <5>2
      <4> QED
        BY <4>5, <4>6
    <3>2. CASE iv \notin S
      BY <1>1, <3>2 DEF StateFits, FrontFlit
    <3> QED
      BY <3>1, <3>2
  <2> QED
    BY <1>1, <2>1 DEF StateFits, FrontFlit
<1>9. VcOwners'
  <2> SUFFICES ASSUME NEW x \in OutVCs, NEW iv \in InVCs
               PROVE  inUse'[x] = iv <=> state'[iv] = "active" /\ outOf'[iv] = x
    BY DEF VcOwners
  <2>1. iv # None
    BY NoneIsNothing
  <2>2. CASE iv \in S
    <3>1. state'[iv] = "active" /\ outOf'[iv] = x <=> ~FrontFlit(iv).tail /\ x = ov[iv]
      BY <1>1, <1>5, <2>2
    <3>2. CASE x = ov[iv]
      BY <1>1, <2>1, <2>2, <3>1, <3>2
    <3>3. CASE x # ov[iv] /\ \E j \in S : ov[j] = x
      BY <1>1, <2>1, <3>1, <3>3
    <3>4. CASE \A j \in S : ov[j] # x
      <4>1. inUse'[x] = inUse[x] /\ x # ov[iv]
        BY <1>1, <2>2, <3>4
      <4>2. inUse[x] # iv
        BY <1>2, <2>2, <4>1 DEF VcOwners
      <4> QED
        BY <3>1, <4>1, <4>2
    <3> QED
      BY <3>2, <3>3, <3>4
  <2>3. CASE iv \notin S
    <3>1. state'[iv] = state[iv] /\ outOf'[iv] = outOf[iv]
      BY <1>1, <2>3
    <3>2. CASE \E j \in S : ov[j] = x
      <4>1. PICK j \in S : ov[j] = x
        BY <3>2
      <4>2. inUse'[x] # iv
        BY <1>1, <2>1, <2>3, <4>1
      <4>3. inUse[x] # iv
        BY <1>2, <2>1, <2>3, <4>1 DEF VcOwners
      <4> QED
        BY <3>1, <4>2, <4>3 DEF VcOwners
    <3>3. CASE \A j \in S : ov[j] # x
      BY <1>1, <3>1, <3>3 DEF VcOwners
    <3> QED
      BY <3>2, <3>3
  <2> QED
    BY <2>2, <2>3
<1> QED
  BY <1>5, <1>6, <1>7, <1>8, <1>9

-----------------------------------------------------------------------------
(* The flits on their way to an output.                                    *)

On(s, v) == {k \in DOMAIN s : s[k].vc = v}

\* The flits of one VC in a list are finitely many.
LEMMA OnFinite ==
  ASSUME NEW s \in Seq(Crossing), NEW v
  PROVE  IsFiniteSet(On(s, v)) /\ Cardinality(On(s, v)) \in Nat
<1>1. On(s, v) \subseteq 1 .. Len(s) /\ Len(s) \in Nat
  BY DEF On
<1>2. IsFiniteSet(1 .. Len(s))
  BY <1>1, FS_Interval
<1>3. IsFiniteSet(On(s, v))
  BY <1>1, <1>2, FS_Subset
<1> QED
  BY <1>3, FS_CardinalityType

\* One more flit counts for its own VC.
LEMMA OnAppend ==
  ASSUME NEW s \in Seq(Crossing), NEW f \in Crossing, NEW v
  PROVE  Cardinality(On(Append(s, f), v)) = Cardinality(On(s, v)) + Once(f.vc = v)
<1> DEFINE t == Append(s, f)
<1>1. /\ Len(s) \in Nat /\ DOMAIN s = 1 .. Len(s) /\ DOMAIN t = 1 .. Len(s) + 1
      /\ t[Len(s) + 1] = f /\ \A k \in 1 .. Len(s) : t[k] = s[k]
  OBVIOUS
<1> HIDE DEF t
<1>2. IsFiniteSet(On(s, v)) /\ Cardinality(On(s, v)) \in Nat
  BY OnFinite
<1>3. CASE f.vc = v
  <2>1. On(t, v) = On(s, v) \cup {Len(s) + 1} /\ Len(s) + 1 \notin On(s, v)
    BY <1>1, <1>3 DEF On
  <2>2. Cardinality(On(t, v)) = Cardinality(On(s, v)) + 1
    BY <1>2, <2>1, FS_AddElement
  <2> QED
    BY <1>3, <2>2 DEF Once, t
<1>4. CASE f.vc # v
  <2>1. On(t, v) = On(s, v)
    BY <1>1, <1>4 DEF On
  <2> QED
    BY <1>2, <1>4, <2>1 DEF Once, t
<1> QED
  BY <1>3, <1>4

\* How many flits of one VC are in a list of at most two.
LEMMA OnFew ==
  ASSUME NEW s \in Seq(Crossing), NEW v
  PROVE  /\ Len(s) = 0 => Cardinality(On(s, v)) = 0
         /\ Len(s) = 1 => Cardinality(On(s, v)) = Once(s[1].vc = v)
         /\ Len(s) = 2 => Cardinality(On(s, v)) = Once(s[1].vc = v) + Once(s[2].vc = v)
<1>1. /\ Cardinality({}) = 0 /\ Cardinality({1}) = 1 /\ Cardinality({2}) = 1
      /\ Cardinality({1, 2}) = 2
  <2>1. IsFiniteSet({1}) /\ Cardinality({1}) = 1 /\ Cardinality({2}) = 1
    BY FS_Singleton, Zenon
  <2>2. {1, 2} = {1} \cup {2} /\ 2 \notin {1}
    OBVIOUS
  <2>3. Cardinality({1} \cup {2}) = 1 + 1
    BY <2>1, <2>2, FS_AddElement
  <2>4. Cardinality({1, 2}) = 2
    <3>1. 2 = 1 + 1
      OBVIOUS
    <3> QED
      BY <2>2, <2>3, <3>1, Zenon
  <2>5. Cardinality({}) = 0
    BY FS_EmptySet
  <2> QED
    BY <2>1, <2>4, <2>5
<1>2. DOMAIN s = 1 .. Len(s)
  OBVIOUS
<1>3. CASE Len(s) = 0
  <2>1. On(s, v) = {}
    BY <1>2, <1>3 DEF On
  <2> QED
    BY <1>1, <1>3, <2>1
<1>4. CASE Len(s) = 1
  <2>1. DOMAIN s = {1}
    BY <1>2, <1>4
  <2>2. On(s, v) = IF s[1].vc = v THEN {1} ELSE {}
    BY <2>1 DEF On
  <2> QED
    BY <1>1, <1>4, <2>2 DEF Once
<1>5. CASE Len(s) = 2
  <2>1. DOMAIN s = {1, 2}
    BY <1>2, <1>5
  <2>2. On(s, v) = (IF s[1].vc = v THEN {1} ELSE {}) \cup (IF s[2].vc = v THEN {2} ELSE {})
    BY <2>1 DEF On
  <2>3. CASE s[1].vc = v /\ s[2].vc = v
    <3>1. On(s, v) = {1, 2}
      BY <2>2, <2>3
    <3> QED
      BY <1>1, <1>5, <2>3, <3>1 DEF Once
  <2>4. CASE s[1].vc = v /\ s[2].vc # v
    <3>1. On(s, v) = {1}
      BY <2>2, <2>4
    <3> QED
      BY <1>1, <1>5, <2>4, <3>1 DEF Once
  <2>5. CASE s[1].vc # v /\ s[2].vc = v
    <3>1. On(s, v) = {2}
      BY <2>2, <2>5
    <3> QED
      BY <1>1, <1>5, <2>5, <3>1 DEF Once
  <2>6. CASE s[1].vc # v /\ s[2].vc # v
    <3>1. On(s, v) = {}
      BY <2>2, <2>6
    <3> QED
      BY <1>1, <1>5, <2>6, <3>1 DEF Once
  <2> QED
    BY <2>3, <2>4, <2>5, <2>6
<1> QED
  BY <1>3, <1>4, <1>5

\* One less when the front flit leaves.
LEMMA OnTail ==
  ASSUME NEW s \in Seq(Crossing), s # <<>>, Len(s) <= 2, NEW v
  PROVE  /\ Tail(s) \in Seq(Crossing)
         /\ Cardinality(On(s, v)) = Cardinality(On(Tail(s), v)) + Once(Head(s).vc = v)
<1>1. Head(s) = s[1] /\ Tail(s) \in Seq(Crossing) /\ Len(Tail(s)) = Len(s) - 1
  OBVIOUS
<1>0. Len(s) \in Nat /\ Len(s) # 0
  OBVIOUS
<1>2. CASE Len(s) = 1
  <2>0. Len(Tail(s)) = 0
    BY <1>1, <1>2
  <2>1. Cardinality(On(Tail(s), v)) = 0
    <3>1. PICK t \in Seq(Crossing) : t = Tail(s)
      BY <1>1
    <3>2. Len(t) = 0
      BY <2>0, <3>1
    <3>3. On(t, v) = {}
      BY <3>2 DEF On
    <3>4. Cardinality(On(t, v)) = 0
      BY <3>3, FS_EmptySet
    <3> QED
      BY <3>1, <3>4
  <2>2. Cardinality(On(s, v)) = Once(s[1].vc = v)
    BY <1>2, OnFew
  <2> QED
    BY <1>1, <2>1, <2>2 DEF Once
<1>3. CASE Len(s) = 2
  <2>1. Tail(s)[1] = s[2]
    BY <1>3
  <2>4. Len(Tail(s)) = 1
    BY <1>1, <1>3
  <2>5. Cardinality(On(Tail(s), v)) = Once(Tail(s)[1].vc = v)
    <3>1. PICK t \in Seq(Crossing) : t = Tail(s)
      BY <1>1
    <3>2. Len(t) = 1
      BY <2>4, <3>1
    <3>3. Cardinality(On(t, v)) = Once(t[1].vc = v)
      BY <3>2, OnFew
    <3> QED
      BY <3>1, <3>3
  <2>2. Cardinality(On(Tail(s), v)) = Once(s[2].vc = v)
    BY <2>1, <2>5
  <2>3. Cardinality(On(s, v)) = Once(s[1].vc = v) + Once(s[2].vc = v)
    BY <1>3, OnFew
  <2> QED
    BY <1>1, <2>2, <2>3 DEF Once
<1> QED
  BY <1>0, <1>1, <1>2, <1>3

\* The crossbar and the credits, when flits are sent.
LEMMA SendCredits ==
  ASSUME TypeOK, AtMostTwo, RouterCreditsAccounted, NEW S, NEW ov, Sendable(S, ov), Send(S, ov),
         UNCHANGED <<upOcc, downHeld>>
  PROVE  /\ occ' \in [OutVCs -> Int] /\ outCredits' \in SUBSET InVCs
         /\ crossbar' \in [Outputs -> Seq(Crossing)]
         /\ AtMostTwo' /\ RouterCreditsAccounted'
<1>1. /\ \A iv \in S :
           /\ buf'[iv] = Tail(buf[iv]) /\ occ'[ov[iv]] = occ[ov[iv]] + 1
           /\ crossbar'[ov[iv][1]] = Append(crossbar[ov[iv][1]], Sent(iv, ov[iv]))
      /\ \A iv \in InVCs : iv \notin S => buf'[iv] = buf[iv]
      /\ \A x \in OutVCs : (\A iv \in S : ov[iv] # x) => occ'[x] = occ[x]
      /\ \A o \in Outputs : (\A iv \in S : ov[iv][1] # o) => crossbar'[o] = crossbar[o]
      /\ outCredits' = outCredits \cup S
      /\ occ' = [x \in OutVCs |-> occ'[x]] /\ crossbar' = [o \in Outputs |-> crossbar'[o]]
      /\ upOcc' = upOcc /\ downHeld' = downHeld
  BY SendEffect
<1>2. \A iv \in S :
        /\ iv \in InVCs /\ ov[iv] \in OutVCs /\ ov[iv][1] \in Outputs /\ ov[iv][2] \in VCs
        /\ buf[iv] # <<>> /\ iv \notin outCredits /\ occ[ov[iv]] < BufSize
        /\ \A k \in 1 .. Len(crossbar[ov[iv][1]]) : crossbar[ov[iv][1]][k].due = 0
        /\ \A j \in S : ov[j][1] = ov[iv][1] => j = iv
  BY Ports DEF Sendable
<1>3. /\ buf \in [InVCs -> Seq(Flit)] /\ occ \in [OutVCs -> Int] /\ crossbar \in [Outputs -> Seq(Crossing)]
      /\ outCredits \in SUBSET InVCs /\ downHeld \in [OutVCs -> Nat] /\ upOcc \in [InVCs -> Int]
  BY DEF TypeOK
<1>4. \A iv \in S : Sent(iv, ov[iv]) \in Crossing /\ Sent(iv, ov[iv]).vc = ov[iv][2] /\ Sent(iv, ov[iv]).due = New
  <2>1. \A iv \in S : FrontFlit(iv) \in Flit
    BY <1>2, <1>3, NextFlit DEF FrontFlit
  <2> QED
    BY <1>2, <2>1 DEF Sent, Crossing, Flit
<1>5. \A iv \in S : Len(crossbar[ov[iv][1]]) <= 1 /\ Len(crossbar[ov[iv][1]]) \in Nat
  <2> SUFFICES ASSUME NEW iv \in S
               PROVE  Len(crossbar[ov[iv][1]]) <= 1 /\ Len(crossbar[ov[iv][1]]) \in Nat
    OBVIOUS
  <2> DEFINE s == crossbar[ov[iv][1]]
  <2>1. s \in Seq(Crossing) /\ Len(s) <= 2 /\ (Len(s) = 2 => s[2].due = New) /\ \A k \in 1 .. Len(s) : s[k].due = 0
    BY <1>2, <1>3 DEF AtMostTwo
  <2> HIDE DEF s
  <2>2. Len(s) \in Nat
    BY <2>1
  <2>3. Len(s) # 2
    BY <2>1 DEF New
  <2>4. Len(s) <= 2
    BY <2>1
  <2>5. Len(s) <= 1
    <3>1. PICK n \in Nat : n = Len(s)
      BY <2>2
    <3> QED
      BY <2>3, <2>4, <3>1
  <2> QED
    BY <2>2, <2>5 DEF s
<1>6. occ' \in [OutVCs -> Int] /\ outCredits' \in SUBSET InVCs
  <2>1. ASSUME NEW x \in OutVCs
        PROVE  occ'[x] \in Int
    <3>1. occ[x] \in Int
      BY <1>3
    <3>2. occ'[x] = occ[x] \/ occ'[x] = occ[x] + 1
      BY <1>1
    <3> QED
      BY <3>1, <3>2
  <2> QED
    BY <1>1, <1>2, <1>3, <2>1
<1>7. ASSUME NEW o \in Outputs
      PROVE  /\ crossbar'[o] \in Seq(Crossing)
             /\ Len(crossbar'[o]) <= 2
             /\ Len(crossbar'[o]) = 2 => crossbar'[o][1].due = 0 /\ crossbar'[o][2].due = New
  <2>1. CASE \A iv \in S : ov[iv][1] # o
    BY <1>1, <1>3, <2>1 DEF AtMostTwo
  <2>2. ASSUME NEW iv \in S, ov[iv][1] = o
        PROVE  /\ crossbar'[o] \in Seq(Crossing)
               /\ Len(crossbar'[o]) <= 2
               /\ Len(crossbar'[o]) = 2 => crossbar'[o][1].due = 0 /\ crossbar'[o][2].due = New
    <3> DEFINE s == crossbar[o]
               f == Sent(iv, ov[iv])
    <3>1. /\ s \in Seq(Crossing) /\ f \in Crossing /\ f.due = New /\ Len(s) \in Nat /\ Len(s) <= 1
          /\ \A k \in 1 .. Len(s) : s[k].due = 0
          /\ crossbar'[o] = Append(s, f)
      BY <1>1, <1>2, <1>3, <1>4, <1>5, <2>2
    <3> HIDE DEF s, f
    <3>2. Append(s, f) \in Seq(Crossing) /\ Len(Append(s, f)) = Len(s) + 1
      BY <3>1
    <3>3. /\ Append(s, f)[Len(s) + 1] = f
          /\ \A k \in 1 .. Len(s) : Append(s, f)[k] = s[k]
      BY <3>1
    <3>4. Len(s) + 1 <= 2
      BY <3>1
    <3>5. ASSUME Len(s) + 1 = 2
          PROVE  Append(s, f)[1].due = 0 /\ Append(s, f)[2].due = New
      <4>0. PICK n \in Nat : n = Len(s)
        BY <3>1
      <4>1. Len(s) = 1
        BY <3>5, <4>0
      <4>2. Append(s, f)[1] = s[1] /\ s[1].due = 0
        BY <3>1, <3>3, <4>1
      <4>3. Append(s, f)[2] = f
        BY <3>3, <3>5
      <4> QED
        BY <3>1, <4>2, <4>3
    <3> QED
      BY <3>1, <3>2, <3>4, <3>5
  <2> QED
    BY <2>1, <2>2
<1>8. crossbar' \in [Outputs -> Seq(Crossing)] /\ AtMostTwo'
  BY <1>1, <1>7 DEF AtMostTwo
<1>9. ASSUME NEW x \in OutVCs
      PROVE  /\ occ'[x] = downHeld[x] + Cardinality(On(crossbar'[x[1]], x[2]))
             /\ occ'[x] <= BufSize
  <2>1. /\ occ[x] = downHeld[x] + Cardinality(On(crossbar[x[1]], x[2])) /\ occ[x] <= BufSize
        /\ x[1] \in Outputs /\ crossbar[x[1]] \in Seq(Crossing) /\ downHeld[x] \in Nat
    BY <1>3, Ports DEF RouterCreditsAccounted, On
  <2>2. CASE \A iv \in S : ov[iv][1] # x[1]
    BY <1>1, <2>1, <2>2
  <2>3. ASSUME NEW iv \in S, ov[iv][1] = x[1]
        PROVE  /\ occ'[x] = downHeld[x] + Cardinality(On(crossbar'[x[1]], x[2]))
               /\ occ'[x] <= BufSize
    <3> DEFINE n == Cardinality(On(crossbar[x[1]], x[2]))
               m == Cardinality(On(crossbar'[x[1]], x[2]))
    <3>1. m = n + Once(ov[iv][2] = x[2])
      <4>1. /\ crossbar'[x[1]] = Append(crossbar[x[1]], Sent(iv, ov[iv]))
            /\ Sent(iv, ov[iv]) \in Crossing /\ Sent(iv, ov[iv]).vc = ov[iv][2]
        BY <1>1, <1>4, <2>3
      <4> QED
        BY <2>1, <4>1, OnAppend
    <3>2. n \in Nat
      BY <2>1, OnFinite
    <3>3. ov[iv] = x <=> ov[iv][2] = x[2]
      BY <1>2, <2>3, Ports
    <3>4. CASE ov[iv] = x
      <4>1. occ'[x] = occ[x] + 1 /\ occ[x] < BufSize /\ occ[x] \in Int
        BY <1>1, <1>2, <1>3, <3>4
      <4>2. m = n + 1
        BY <3>1, <3>3, <3>4 DEF Once
      <4> HIDE DEF n, m
      <4>3. occ[x] = downHeld[x] + n
        BY <2>1 DEF n
      <4> QED
        BY <2>1, <3>2, <4>1, <4>2, <4>3, RouterAssumption DEF m
    <3>5. CASE ov[iv] # x
      <4>1. \A j \in S : ov[j] # x
        BY <1>2, <2>3, <3>5
      <4>2. occ'[x] = occ[x]
        BY <1>1, <4>1
      <4>3. m = n
        BY <3>1, <3>2, <3>3, <3>5 DEF Once
      <4> QED
        BY <2>1, <4>2, <4>3
    <3> QED
      BY <3>4, <3>5
  <2> QED
    BY <2>2, <2>3
<1>10. ASSUME NEW iv \in InVCs
       PROVE  upOcc[iv] = Len(buf'[iv]) + Once(iv \in outCredits')
  <2>1. upOcc[iv] = Len(buf[iv]) + Once(iv \in outCredits) /\ buf[iv] \in Seq(Flit)
    BY <1>3 DEF RouterCreditsAccounted
  <2>2. CASE iv \in S
    <3>1. Len(buf'[iv]) = Len(buf[iv]) - 1 /\ Len(buf[iv]) \in Nat
      BY <1>1, <1>2, <2>1, <2>2, NextFlit
    <3>2. Once(iv \in outCredits) = 0 /\ Once(iv \in outCredits') = 1
      BY <1>1, <1>2, <2>2 DEF Once
    <3> QED
      BY <2>1, <3>1, <3>2
  <2>3. CASE iv \notin S
    <3>1. buf'[iv] = buf[iv] /\ Once(iv \in outCredits') = Once(iv \in outCredits)
      BY <1>1, <2>3 DEF Once
    <3> QED
      BY <2>1, <3>1
  <2> QED
    BY <2>2, <2>3
<1>11. RouterCreditsAccounted'
  BY <1>1, <1>9, <1>10 DEF RouterCreditsAccounted, On
<1> QED
  BY <1>6, <1>8, <1>11

\* What the neighbour waits for after one more flit.
LEMMA AfterAppend ==
  ASSUME NEW s \in Seq(Crossing), s = <<>> \/ Len(s) = 1, NEW f \in Crossing, NEW v, NEW open
  PROVE  /\ AfterAll(open, Append(s, f), v) = After(AfterAll(open, s, v), f, v)
         /\ Append(s, f) # <<>> /\ (s = <<>> => Append(s, f)[1] = f /\ Len(Append(s, f)) = 1)
         /\ s # <<>> => Append(s, f)[1] = s[1] /\ Append(s, f)[2] = f /\ AfterAll(open, s, v) = After(open, s[1], v)
<1>1. CASE s = <<>>
  <2>1. Append(s, f) # <<>> /\ Len(Append(s, f)) = 1 /\ Append(s, f)[1] = f
    BY <1>1
  <2> QED
    BY <1>1, <2>1 DEF AfterAll
<1>2. CASE s # <<>>
  <2>1. Len(s) = 1
    BY <1>2
  <2>2. Append(s, f) # <<>> /\ Append(s, f)[2] = f
    BY <2>1
  <2>3. Append(s, f)[1] = s[1]
    <3>1. \A k \in 1 .. Len(s) : Append(s, f)[k] = s[k]
      OBVIOUS
    <3> QED
      BY <2>1, <3>1
  <2>4. Len(Append(s, f)) = 2
    BY <2>1
  <2> QED
    BY <1>2, <2>1, <2>2, <2>3, <2>4 DEF AfterAll
<1> QED
  BY <1>1, <1>2

\* A flit that is sent is the one the neighbour waits for.
LEMMA SendsExpected ==
  ASSUME TypeOK, StateFits, VcOwners, InOrder, NEW S, NEW ov, Sendable(S, ov), Send(S, ov),
         UNCHANGED upOpen, NEW iv \in S
  PROVE  LET x == ov[iv]
             f == Sent(iv, x)
         IN /\ Meets(Expected(x), f, x[2])
            /\ Expected(x)' = After(Expected(x), f, x[2])
<1> DEFINE x == ov[iv]
           f == Sent(iv, x)
<1>1. /\ iv \in InVCs /\ x \in OutVCs /\ buf[iv] # <<>>
      /\ \/ state[iv] = "active" /\ outOf[iv] = x
         \/ state[iv] = "vc_alloc" /\ inUse[x] = None
  BY DEF Sendable
<1>2. /\ f.src = iv /\ f.n = FrontFlit(iv).n /\ f.tail = FrontFlit(iv).tail /\ f.vc = x[2]
      /\ FrontFlit(iv) \in Flit
  BY SendInOrder DEF Sent
<1>3. Follows(FrontFlit(iv), NextN(iv)') /\ inUse'[x] = IF FrontFlit(iv).tail THEN None ELSE iv
  BY SendInOrder, SendEffect
<1>4. NextN(iv) = FrontFlit(iv).n
  BY <1>1 DEF NextN
<1>5. FrontFlit(iv).n \in Nat /\ FrontFlit(iv).tail \in BOOLEAN
  BY <1>2 DEF Flit
<1>6. iv # None /\ \A n \in Nat : [src |-> iv, n |-> n] # None
  BY <1>1, NoneIsNothing DEF Receiving
<1>7. Expected(x) = IF FrontFlit(iv).n = 0 THEN None ELSE [src |-> iv, n |-> FrontFlit(iv).n]
  <2>1. CASE state[iv] = "active" /\ outOf[iv] = x
    <3>1. inUse[x] = iv
      BY <1>1, <2>1 DEF VcOwners
    <3> QED
      BY <1>4, <1>6, <3>1 DEF Expected
  <2>2. CASE state[iv] = "vc_alloc" /\ inUse[x] = None
    <3>1. FrontFlit(iv).n = 0
      BY <1>1, <2>2 DEF StateFits
    <3> QED
      BY <2>2, <3>1 DEF Expected
  <2> QED
    BY <1>1, <2>1, <2>2
<1>8. Expected(x)' = IF FrontFlit(iv).tail THEN None ELSE [src |-> iv, n |-> FrontFlit(iv).n + 1]
  <2>1. CASE FrontFlit(iv).tail
    <3>1. inUse'[x] = None
      BY <1>3, <2>1
    <3> QED
      BY <2>1, <3>1 DEF Expected
  <2>2. CASE ~FrontFlit(iv).tail
    <3>1. inUse'[x] = iv /\ NextN(iv)' = FrontFlit(iv).n + 1
      BY <1>3, <2>2 DEF Follows
    <3>2. FrontFlit(iv).n + 1 # 0
      BY <1>5
    <3>3. Expected(x)' = [src |-> iv, n |-> NextN(iv)']
      BY <1>6, <3>1, <3>2 DEF Expected
    <3> QED
      BY <2>2, <3>1, <3>3
  <2> QED
    BY <2>1, <2>2
<1> HIDE DEF x, f
<1>9. Meets(Expected(x), f, x[2])
  BY <1>2, <1>5, <1>6, <1>7 DEF Meets
<1>10. After(Expected(x), f, x[2]) = IF FrontFlit(iv).tail THEN None ELSE [src |-> iv, n |-> FrontFlit(iv).n + 1]
  BY <1>2 DEF After
<1> QED
  BY <1>8, <1>9, <1>10 DEF x, f

\* The packets on an output VC stay whole when flits are sent.
LEMMA SendSentInOrder ==
  ASSUME TypeOK, StateFits, VcOwners, InOrder, SentInOrder, AtMostTwo, NEW S, NEW ov,
         Sendable(S, ov), Send(S, ov), UNCHANGED <<upOpen, downOpen>>
  PROVE  SentInOrder'
<1>1. /\ \A iv \in S : crossbar'[ov[iv][1]] = Append(crossbar[ov[iv][1]], Sent(iv, ov[iv]))
      /\ \A o \in Outputs : (\A iv \in S : ov[iv][1] # o) => crossbar'[o] = crossbar[o]
      /\ \A y \in OutVCs : (\A iv \in S : ov[iv] # y) => inUse'[y] = inUse[y]
      /\ downOpen' = downOpen
  BY SendEffect
<1>2. \A iv \in S :
        /\ iv \in InVCs /\ ov[iv] \in OutVCs /\ ov[iv][1] \in Outputs /\ ov[iv][2] \in VCs
        /\ \A k \in 1 .. Len(crossbar[ov[iv][1]]) : crossbar[ov[iv][1]][k].due = 0
        /\ \/ state[iv] = "active" /\ outOf[iv] = ov[iv]
           \/ state[iv] = "vc_alloc" /\ inUse[ov[iv]] = None
        /\ \A j \in S : ov[j][1] = ov[iv][1] => j = iv
  BY Ports DEF Sendable
\* Where nothing is sent, the same flit is expected as before.
<1>3. ASSUME NEW y \in OutVCs, \A iv \in S : ov[iv] # y
      PROVE  Expected(y)' = Expected(y)
  <2>1. inUse'[y] = inUse[y] /\ inUse[y] \in InVCs \cup {None}
    BY <1>1, <1>3 DEF TypeOK
  <2>2. CASE inUse[y] = None
    BY <2>1, <2>2 DEF Expected
  <2>3. CASE inUse[y] # None
    <3>1. PICK u \in InVCs : inUse[y] = u
      BY <2>1, <2>3
    <3>2. u \notin S
      BY <1>2, <1>3, <2>3, <3>1 DEF VcOwners
    <3>3. NextN(u)' = NextN(u)
      BY <3>2, SendInOrder
    <3> QED
      BY <2>1, <3>1, <3>3 DEF Expected
  <2> QED
    BY <2>2, <2>3
<1>4. ASSUME NEW y \in OutVCs
      PROVE  /\ AfterAll(downOpen[y], crossbar'[y[1]], y[2]) = Expected(y)'
             /\ crossbar'[y[1]] # <<>> => Meets(downOpen[y], crossbar'[y[1]][1], y[2])
             /\ Len(crossbar'[y[1]]) = 2 =>
                  Meets(After(downOpen[y], crossbar'[y[1]][1], y[2]), crossbar'[y[1]][2], y[2])
  <2> DEFINE s == crossbar[y[1]]
             open == downOpen[y]
  <2>1. /\ AfterAll(open, s, y[2]) = Expected(y)
        /\ s # <<>> => Meets(open, s[1], y[2])
        /\ Len(s) = 2 => Meets(After(open, s[1], y[2]), s[2], y[2])
    BY DEF SentInOrder
  <2>2. y[1] \in Outputs /\ s \in Seq(Crossing)
    BY Ports DEF TypeOK
  <2>3. CASE \A iv \in S : ov[iv][1] # y[1]
    <3>1. Expected(y)' = Expected(y)
      BY <1>3, <2>3
    <3>2. crossbar'[y[1]] = s
      BY <1>1, <2>2, <2>3
    <3> QED
      BY <2>1, <3>1, <3>2
  <2>4. ASSUME NEW iv \in S, ov[iv][1] = y[1]
        PROVE  /\ AfterAll(open, crossbar'[y[1]], y[2]) = Expected(y)'
               /\ crossbar'[y[1]] # <<>> => Meets(open, crossbar'[y[1]][1], y[2])
               /\ Len(crossbar'[y[1]]) = 2 => Meets(After(open, crossbar'[y[1]][1], y[2]), crossbar'[y[1]][2], y[2])
    <3> DEFINE f == Sent(iv, ov[iv])
               t == crossbar'[y[1]]
    <3>1. t = Append(s, f)
      BY <1>1, <2>4
    <3>2. s = <<>> \/ Len(s) = 1
      <4>1. Len(s) <= 2 /\ (Len(s) = 2 => s[2].due = New) /\ \A k \in 1 .. Len(s) : s[k].due = 0
        BY <1>2, <2>2, <2>4 DEF AtMostTwo
      <4>2. PICK n \in Nat : n = Len(s)
        BY <2>2
      <4>3. Len(s) # 2
        BY <4>1 DEF New
      <4>4. n <= 2 /\ n # 2
        BY <4>1, <4>2, <4>3
      <4>5. n = 0 \/ n = 1
        BY <4>4
      <4> QED
        BY <2>2, <4>2, <4>5
    <3>3. f \in Crossing /\ f.vc = ov[iv][2]
      <4>1. FrontFlit(iv) \in Flit
        BY SendInOrder
      <4> QED
        BY <1>2, <4>1 DEF Sent, Crossing, Flit
    <3>4. /\ AfterAll(open, t, y[2]) = After(AfterAll(open, s, y[2]), f, y[2])
          /\ s = <<>> => t[1] = f /\ Len(t) = 1
          /\ s # <<>> => t[1] = s[1] /\ t[2] = f /\ AfterAll(open, s, y[2]) = After(open, s[1], y[2])
      BY <2>2, <3>1, <3>2, <3>3, AfterAppend
    <3>5. /\ Meets(Expected(y), f, y[2])
          /\ Expected(y)' = After(Expected(y), f, y[2])
      <4>1. CASE ov[iv] = y
        BY <4>1, SendsExpected
      <4>2. CASE ov[iv] # y
        <5>1. f.vc # y[2]
          BY <1>2, <2>4, <3>3, <4>2, Ports
        <5>2. \A j \in S : ov[j] # y
          BY <1>2, <2>4, <4>2
        <5>3. Expected(y)' = Expected(y)
          BY <1>3, <5>2
        <5> QED
          BY <5>1, <5>3 DEF Meets, After
      <4> QED
        BY <4>1, <4>2
    <3> HIDE DEF s, open, f, t
    <3>6. AfterAll(open, t, y[2]) = Expected(y)'
      BY <2>1, <3>4, <3>5
    <3>7. CASE s = <<>>
      <4>1. AfterAll(open, s, y[2]) = open
        BY <3>7 DEF AfterAll
      <4> QED
        BY <2>1, <3>4, <3>5, <3>6, <3>7, <4>1 DEF t
    <3>8. CASE s # <<>>
      BY <2>1, <3>4, <3>5, <3>6, <3>8 DEF t
    <3> QED
      BY <3>7, <3>8
  <2> QED
    BY <2>3, <2>4
<1> QED
  BY <1>1, <1>4 DEF SentInOrder

\* What a VC that sent waits for then, and the deques it joins for its next packet.
LEMMA SendLists ==
  ASSUME UnitDelays, IInv, NEW S, NEW ov, Sendable(S, ov), Send(S, ov), UNCHANGED <<upOpen, cfg>>,
         \A iv \in S : vcAllocVcs[iv] = <<>>,
         routeVcs' = Enlisted(routeVcs, RoutesOf({iv \in S : HasNext(iv)})),
         vcAllocVcs' = Enlisted(vcAllocVcs, VcAllocsOf({iv \in S : HasNext(iv)}))
  PROVE  /\ routeVcs' \in Lists({}) /\ vcAllocVcs' \in Lists(OutVCs)
         /\ \A iv \in InVCs :
              /\ routeVcs'[iv] # <<>> <=> state'[iv] = "routing"
              /\ vcAllocVcs'[iv] # <<>> <=> state'[iv] = "vc_alloc" /\ ~cfg.piggyback
              /\ iv \notin S => /\ state'[iv] = state[iv] /\ buf'[iv] = buf[iv]
                                /\ vcAllocVcs'[iv] = vcAllocVcs[iv] /\ routeVcs'[iv] = routeVcs[iv]
         /\ \A iv \in S :
              /\ iv \in InVCs
              /\ state'[iv] = "active" /\ buf'[iv] # <<>> <=> HasMore(iv)
              /\ HasMore(iv) => state'[iv] = "active" /\ outOf'[iv] = ov[iv] /\ ~HasNext(iv)
              /\ state'[iv] = "vc_alloc" <=> HasNext(iv) /\ cfg.routingDelay = 0
         /\ AllNew(vcAllocVcs) => AllNew(vcAllocVcs')
<1> DEFINE next == {iv \in S : HasNext(iv)}
<1>1. /\ \A iv \in InVCs : iv \notin S => buf'[iv] = buf[iv] /\ state'[iv] = state[iv] /\ outOf'[iv] = outOf[iv]
      /\ \A iv \in S :
           /\ state'[iv] = IF ~FrontFlit(iv).tail THEN "active"
                           ELSE IF HasNext(iv) THEN StateOfNext ELSE "idle"
           /\ outOf'[iv] = IF FrontFlit(iv).tail THEN None ELSE ov[iv]
  BY SendEffect
<1>2. \A iv \in S : iv \in InVCs /\ state[iv] \in {"active", "vc_alloc"} /\ (buf'[iv] # <<>> <=> Len(buf[iv]) > 1)
  BY SendInOrder DEF IInv, Sendable
<1>3. cfg.routingDelay \in Nat /\ StateOfNext = IF cfg.routingDelay = 0 THEN "vc_alloc" ELSE "routing"
  BY Built DEF IInv, StateOfNext
<1>4. \A iv \in S :
        /\ state'[iv] = "active" /\ buf'[iv] # <<>> <=> HasMore(iv)
        /\ HasMore(iv) => state'[iv] = "active" /\ outOf'[iv] = ov[iv] /\ ~HasNext(iv)
        /\ state'[iv] = "vc_alloc" <=> HasNext(iv) /\ cfg.routingDelay = 0
        /\ state'[iv] = "routing" <=> HasNext(iv) /\ cfg.routingDelay # 0
  BY <1>1, <1>2, <1>3 DEF HasMore, HasNext
<1>5. \A iv \in InVCs : /\ iv \in RoutesOf(next) <=> iv \in S /\ HasNext(iv) /\ cfg.routingDelay # 0
                        /\ iv \in VcAllocsOf(next) <=> iv \in S /\ HasNext(iv) /\ cfg.routingDelay = 0 /\ ~cfg.piggyback
  BY <1>3 DEF RoutesOf, VcAllocsOf
<1>6. \A iv \in S : routeVcs[iv] = <<>> /\ vcAllocVcs[iv] = <<>>
  BY <1>2 DEF IInv, EachListed
<1>7. RoutesOf(next) \subseteq S /\ VcAllocsOf(next) \subseteq S
  BY DEF RoutesOf, VcAllocsOf
<1> HIDE DEF next
<1>8. /\ routeVcs' \in Lists({})
      /\ \A iv \in InVCs : /\ routeVcs'[iv] = <<>> <=> routeVcs[iv] = <<>> /\ iv \notin RoutesOf(next)
                           /\ iv \notin RoutesOf(next) => routeVcs'[iv] = routeVcs[iv]
  <2>1. routeVcs \in Lists({}) /\ \A iv \in RoutesOf(next) : routeVcs[iv] = <<>>
    BY <1>6, <1>7 DEF IInv, TypeOK
  <2> DEFINE joined == Enlisted(routeVcs, RoutesOf(next))
  <2>2. /\ joined \in Lists({})
        /\ \A iv \in InVCs : /\ joined[iv] = <<>> <=> routeVcs[iv] = <<>> /\ iv \notin RoutesOf(next)
                             /\ iv \in RoutesOf(next) => Head(joined[iv]) = NewEntry
                             /\ iv \notin RoutesOf(next) => joined[iv] = routeVcs[iv]
    BY <2>1, Joining
  <2>3. routeVcs' = joined
    BY DEF next
  <2> HIDE DEF joined
  <2> QED
    BY <2>2, <2>3
<1>9. /\ vcAllocVcs' \in Lists(OutVCs)
      /\ \A iv \in InVCs : /\ vcAllocVcs'[iv] = <<>> <=> vcAllocVcs[iv] = <<>> /\ iv \notin VcAllocsOf(next)
                           /\ iv \in VcAllocsOf(next) => Head(vcAllocVcs'[iv]) = NewEntry
                           /\ iv \notin VcAllocsOf(next) => vcAllocVcs'[iv] = vcAllocVcs[iv]
  <2>1. vcAllocVcs \in Lists(OutVCs) /\ \A iv \in VcAllocsOf(next) : vcAllocVcs[iv] = <<>>
    BY <1>6, <1>7 DEF IInv, TypeOK
  <2> DEFINE joined == Enlisted(vcAllocVcs, VcAllocsOf(next))
  <2>2. /\ joined \in Lists(OutVCs)
        /\ \A iv \in InVCs : /\ joined[iv] = <<>> <=> vcAllocVcs[iv] = <<>> /\ iv \notin VcAllocsOf(next)
                             /\ iv \in VcAllocsOf(next) => Head(joined[iv]) = NewEntry
                             /\ iv \notin VcAllocsOf(next) => joined[iv] = vcAllocVcs[iv]
    BY <2>1, Joining
  <2>3. vcAllocVcs' = joined
    BY DEF next
  <2> HIDE DEF joined
  <2> QED
    BY <2>2, <2>3
<1>10. AllNew(vcAllocVcs) => AllNew(vcAllocVcs')
  BY <1>9 DEF AllNew
<1>11. ASSUME NEW iv \in InVCs
       PROVE  /\ routeVcs'[iv] # <<>> <=> state'[iv] = "routing"
              /\ vcAllocVcs'[iv] # <<>> <=> state'[iv] = "vc_alloc" /\ ~cfg.piggyback
  <2>1. CASE iv \in S
    BY <1>4, <1>5, <1>6, <1>8, <1>9, <2>1
  <2>2. CASE iv \notin S
    BY <1>1, <1>5, <1>8, <1>9, <2>2 DEF IInv, EachListed
  <2> QED
    BY <2>1, <2>2
<1> QED
  BY <1>1, <1>2, <1>4, <1>5, <1>8, <1>9, <1>10, <1>11

\* An output at which every flit has crossed has not been sent one.
LEMMA QuietSends ==
  ASSUME TypeOK, NEW S, NEW ov, Sendable(S, ov), Send(S, ov), Quiet'
  PROVE  S = {} /\ Quiet
<1>1. ASSUME NEW iv \in S
      PROVE  FALSE
  <2>1. /\ ov[iv] \in OutVCs /\ ov[iv][1] \in Outputs
        /\ crossbar'[ov[iv][1]] = Append(crossbar[ov[iv][1]], Sent(iv, ov[iv]))
    BY SendEffect, Ports DEF Sendable
  <2> DEFINE s == crossbar[ov[iv][1]]
             f == Sent(iv, ov[iv])
  <2>2. s \in Seq(Crossing) /\ Len(s) \in Nat
    BY <2>1 DEF TypeOK
  <2>3. f.due # 0
    BY DEF Sent, New
  <2> HIDE DEF s, f
  <2>4. Len(Append(s, f)) = Len(s) + 1 /\ Append(s, f)[Len(s) + 1] = f
    BY <2>2
  <2>5. Len(s) + 1 \in 1 .. Len(Append(s, f))
    BY <2>2, <2>4
  <2>6. Append(s, f)[Len(s) + 1].due = 0
    <3>1. \A k \in 1 .. Len(Append(s, f)) : Append(s, f)[k].due = 0
      BY <2>1 DEF Quiet, s, f
    <3> QED
      BY <2>5, <3>1
  <2> QED
    BY <2>3, <2>4, <2>6
<1>2. S = {}
  BY <1>1
<1>3. \A o \in Outputs : crossbar'[o] = crossbar[o]
  BY <1>2, SendEffect
<1> QED
  BY <1>2, <1>3 DEF Quiet

-----------------------------------------------------------------------------
(* The Update halves that send flits.                                      *)

\* _SWHoldUpdate sends a flit on each held connection; the grants of the switch are for others.
LEMMA SWHoldUpdateStep ==
  ASSUME UnitDelays, IInv, SWHoldUpdate
  PROVE  IInv'
<1> DEFINE done == Done(swHoldVcs)
           S == Granted(swHoldVcs)
           ov == [iv \in S |-> outOf[iv]]
           next == {iv \in S : HasNext(iv)}
           kept == {iv \in S : HasMore(iv)}
           cancelled == {iv[1] : iv \in done \ kept}
           bids == (done \ S) \cup (IF BidsEarly THEN next ELSE {})
<1>1. /\ phase = "hold" /\ phase' = "switch"
      /\ Send(S, ov)
      /\ holdVc' = [i \in Inputs |-> IF i \in cancelled THEN None ELSE holdVc[i]]
      /\ holdIn' = [i \in Inputs |-> IF i \in cancelled THEN None ELSE holdIn[i]]
      /\ holdOut' = [o \in Outputs |-> IF holdOut[o] # None /\ holdOut[o] \in cancelled
                                       THEN None ELSE holdOut[o]]
      /\ routeVcs' = Enlisted(routeVcs, RoutesOf({iv \in S : HasNext(iv)}))
      /\ vcAllocVcs' = Enlisted(vcAllocVcs, VcAllocsOf({iv \in S : HasNext(iv)}))
      /\ swHoldVcs' = Enlisted(Waiting(swHoldVcs), kept)
      /\ swAllocVcs' = Enlisted(swAllocVcs, bids)
      /\ active' = (active \/ Busy(swHoldVcs'))
      /\ cfg' = cfg
      /\ upOpen' = upOpen /\ upOcc' = upOcc /\ downOpen' = downOpen /\ downHeld' = downHeld
  BY DEF SWHoldUpdate, linkVars, FreeOutput
<1>2. swHoldVcs \in Lists(Outputs) /\ AllDue(swHoldVcs)
  BY <1>1 DEF IInv, TypeOK, Stamps
<1>3. /\ done = {iv \in InVCs : swHoldVcs[iv] # <<>>}
      /\ S \subseteq done
      /\ \A iv \in S : \E o \in Outputs : Award(swHoldVcs, iv, o)
  <2>1. /\ done = {iv \in InVCs : swHoldVcs[iv] # <<>> /\ Head(swHoldVcs[iv]).due = 0}
        /\ S \subseteq done
        /\ \A iv \in InVCs, x \in Outputs : Award(swHoldVcs, iv, x) <=> iv \in S /\ GrantOf(swHoldVcs, iv) = x
        /\ \A iv \in S : GrantOf(swHoldVcs, iv) \in Outputs
    BY <1>2, GrantedIs, NoneIsNothing
  <2> QED
    BY <1>2, <2>1 DEF AllDue
\* The VCs in the deque are those that hold a connection, each its own.
<1>4. \A iv \in InVCs : iv \in done <=> Holds(iv)
  BY <1>3 DEF IInv, EachListed, HeldSends
<1>5. \A iv \in done :
        /\ iv \in InVCs /\ state[iv] = "active" /\ buf[iv] # <<>>
        /\ outOf[iv] \in OutVCs /\ outOf[iv][1] \in Outputs
        /\ outOf[iv][1] = holdIn[iv[1]] /\ holdOut[outOf[iv][1]] = iv[1]
        /\ iv[1] \in Inputs /\ holdVc[iv[1]] = iv[2]
  <2> SUFFICES ASSUME NEW iv \in done
               PROVE  /\ iv \in InVCs /\ state[iv] = "active" /\ buf[iv] # <<>>
                      /\ outOf[iv] \in OutVCs /\ outOf[iv][1] \in Outputs
                      /\ outOf[iv][1] = holdIn[iv[1]] /\ holdOut[outOf[iv][1]] = iv[1]
                      /\ iv[1] \in Inputs /\ holdVc[iv[1]] = iv[2]
    OBVIOUS
  <2>1. iv \in InVCs /\ Holds(iv)
    BY <1>3, <1>4
  <2>2. state[iv] = "active" /\ buf[iv] # <<>> /\ outOf[iv][1] = holdIn[iv[1]]
    BY <2>1 DEF IInv, HeldSends, CanSend
  <2>3. outOf[iv] \in OutVCs
    BY <2>1, <2>2 DEF IInv, StateFits, TypeOK
  <2>4. outOf[iv][1] \in Outputs /\ iv[1] \in Inputs
    BY <2>1, <2>3, Ports
  <2>5. holdOut[outOf[iv][1]] = iv[1]
    BY <2>2, <2>4 DEF IInv, HeldPairs
  <2> QED
    BY <2>1, <2>2, <2>3, <2>4, <2>5 DEF Holds
<1>6. \A a, b \in done : a # b => a[1] # b[1] /\ outOf[a][1] # outOf[b][1]
  BY <1>5, Ports
<1> HIDE DEF done, S
<1>7. Sendable(S, ov)
  <2>1. S \subseteq InVCs /\ ov \in [S -> OutVCs]
    BY <1>3, <1>5
  <2>2. \A iv \in S : occ[outOf[iv]] < BufSize
    BY <1>1, <1>3, <1>5 DEF IInv, HoldGrantsFit
  <2>3. outCredits = {} /\ \A o \in Outputs : \A k \in 1 .. Len(crossbar[o]) : crossbar[o][k].due = 0
    BY <1>1 DEF IInv, CrossbarFits
  <2> QED
    BY <1>3, <1>5, <1>6, <2>1, <2>2, <2>3 DEF Sendable
<1>8. \A iv \in S : ov[iv] = outOf[iv]
  OBVIOUS
<1> HIDE DEF ov
<1>9. /\ routeVcs' \in Lists({}) /\ vcAllocVcs' \in Lists(OutVCs)
      /\ \A iv \in InVCs :
           /\ routeVcs'[iv] # <<>> <=> state'[iv] = "routing"
           /\ vcAllocVcs'[iv] # <<>> <=> state'[iv] = "vc_alloc" /\ ~cfg.piggyback
           /\ iv \notin S => /\ state'[iv] = state[iv] /\ buf'[iv] = buf[iv]
                             /\ vcAllocVcs'[iv] = vcAllocVcs[iv] /\ routeVcs'[iv] = routeVcs[iv]
      /\ \A iv \in S :
           /\ iv \in InVCs
           /\ state'[iv] = "active" /\ buf'[iv] # <<>> <=> HasMore(iv)
           /\ HasMore(iv) => state'[iv] = "active" /\ outOf'[iv] = ov[iv] /\ ~HasNext(iv)
           /\ state'[iv] = "vc_alloc" <=> HasNext(iv) /\ cfg.routingDelay = 0
      /\ AllNew(vcAllocVcs')
  <2>1. \A iv \in S : vcAllocVcs[iv] = <<>>
    BY <1>3, <1>5 DEF IInv, EachListed
  <2>2. AllNew(vcAllocVcs)
    BY <1>1 DEF IInv, Stamps
  <2> QED
    BY <1>1, <1>7, <2>1, <2>2, SendLists
\* A connection is kept by who has more to send.
<1>10. /\ \A i \in Inputs : i \in cancelled <=> \E iv \in done \ kept : iv[1] = i
       /\ \A iv \in done : iv[1] \in cancelled <=> iv \notin kept
  BY <1>6
<1>11. \A iv \in kept : iv \in S /\ iv \in done /\ HasMore(iv)
  BY <1>3
<1>12. \A iv \in InVCs : iv \in bids <=> (iv \in done /\ iv \notin S) \/ (iv \in S /\ HasNext(iv) /\ BidsEarly)
  OBVIOUS
<1>25. \A iv \in bids : iv \in done
  BY <1>3
<1>26. \A iv \in S : iv \in kept <=> HasMore(iv)
  OBVIOUS
<1> HIDE DEF next, kept, cancelled, bids
<1>13. HeldPairs'
  <2>1. \A i \in Inputs : holdVc'[i] = None <=> holdIn'[i] = None
    BY <1>1 DEF IInv, HeldPairs
  <2>2. ASSUME NEW i \in Inputs, NEW o \in Outputs
        PROVE  holdIn'[i] = o <=> holdOut'[o] = i
    <3>1. holdIn[i] = o <=> holdOut[o] = i
      BY DEF IInv, HeldPairs
    <3>2. /\ holdIn'[i] = IF i \in cancelled THEN None ELSE holdIn[i]
          /\ holdOut'[o] = IF holdOut[o] # None /\ holdOut[o] \in cancelled THEN None ELSE holdOut[o]
      BY <1>1
    <3> QED
      BY <3>1, <3>2, NoneIsNothing
  <2> QED
    BY <2>1, <2>2 DEF HeldPairs
<1>14. \A iv \in InVCs : holdVc'[iv[1]] = iv[2] <=> iv \in kept
  <2> SUFFICES ASSUME NEW iv \in InVCs
               PROVE  holdVc'[iv[1]] = iv[2] <=> iv \in kept
    OBVIOUS
  <2>1. iv[1] \in Inputs /\ iv[2] \in VCs /\ iv[2] # None
    BY Ports, NoneIsNothing
  <2>2. holdVc'[iv[1]] = IF iv[1] \in cancelled THEN None ELSE holdVc[iv[1]]
    BY <1>1, <2>1
  <2>3. CASE iv \in done
    BY <1>5, <1>10, <2>1, <2>2, <2>3
  <2>4. CASE iv \notin done
    BY <1>4, <1>11, <2>1, <2>2, <2>4 DEF Holds
  <2> QED
    BY <2>3, <2>4
<1>15. HeldSends'
  <2>1. ASSUME NEW iv \in InVCs, iv \in kept
        PROVE  state'[iv] = "active" /\ buf'[iv] # <<>> /\ outOf'[iv][1] = holdIn'[iv[1]]
    <3>1. state'[iv] = "active" /\ buf'[iv] # <<>> /\ outOf'[iv] = outOf[iv]
      BY <1>8, <1>9, <1>11, <2>1
    <3>2. iv[1] \in Inputs /\ iv[1] \notin cancelled /\ outOf[iv][1] = holdIn[iv[1]]
      BY <1>5, <1>10, <1>11, <2>1
    <3> QED
      BY <1>1, <3>1, <3>2
  <2> QED
    BY <1>14, <2>1 DEF HeldSends, Holds, CanSend
<1>16. /\ swHoldVcs' \in Lists(Outputs)
       /\ \A iv \in InVCs : /\ swHoldVcs'[iv] # <<>> <=> iv \in kept
                            /\ swHoldVcs'[iv] # <<>> => Head(swHoldVcs'[iv]) = NewEntry
  <2> DEFINE left == Waiting(swHoldVcs)
             joined == Enlisted(left, kept)
  <2>1. left \in Lists(Outputs) /\ \A iv \in InVCs : left[iv] = <<>>
    <3>1. /\ left \in Lists(Outputs)
          /\ \A iv \in InVCs : /\ iv \in done => left[iv] = <<>>
                               /\ iv \notin done => left[iv] = swHoldVcs[iv]
      BY <1>2, Leaving DEF done
    <3> QED
      BY <1>3, <3>1
  <2> HIDE DEF left
  <2>2. \A iv \in kept : left[iv] = <<>>
    BY <1>5, <1>11, <2>1
  <2>3. /\ joined \in Lists(Outputs)
        /\ \A iv \in InVCs : /\ joined[iv] = <<>> <=> left[iv] = <<>> /\ iv \notin kept
                             /\ iv \in kept => Head(joined[iv]) = NewEntry
    BY <2>1, <2>2, Joining
  <2>4. swHoldVcs' = joined
    BY <1>1 DEF left
  <2> HIDE DEF joined
  <2> QED
    BY <2>1, <2>3, <2>4
<1>17. /\ swAllocVcs' \in Lists(Outputs)
       /\ \A iv \in InVCs :
            /\ swAllocVcs'[iv] = <<>> <=> swAllocVcs[iv] = <<>> /\ iv \notin bids
            /\ iv \in bids => Head(swAllocVcs'[iv]) = NewEntry
            /\ iv \notin bids => swAllocVcs'[iv] = swAllocVcs[iv]
            /\ \A x \in Outputs : Award(swAllocVcs', iv, x) <=> Award(swAllocVcs, iv, x)
            /\ iv \in done => swAllocVcs[iv] = <<>>
  <2> DEFINE joined == Enlisted(swAllocVcs, bids)
  <2>1. \A iv \in done : swAllocVcs[iv] = <<>>
    BY <1>4, <1>5 DEF IInv, EachListed
  <2>2. swAllocVcs \in Lists(Outputs) /\ \A iv \in bids : swAllocVcs[iv] = <<>>
    BY <1>25, <2>1 DEF IInv, TypeOK
  <2>3. /\ joined \in Lists(Outputs)
        /\ \A iv \in InVCs :
             /\ joined[iv] = <<>> <=> swAllocVcs[iv] = <<>> /\ iv \notin bids
             /\ iv \in bids => Head(joined[iv]) = NewEntry
             /\ iv \notin bids => joined[iv] = swAllocVcs[iv]
             /\ \A x \in Outputs : Award(joined, iv, x) <=> Award(swAllocVcs, iv, x)
    BY <2>2, Joining
  <2>4. swAllocVcs' = joined
    BY <1>1
  <2> HIDE DEF joined
  <2> QED
    BY <2>1, <2>3, <2>4
<1>18. InOrder' /\ SentInOrder' /\ StateFits' /\ VcOwners' /\ AtMostTwo' /\ RouterCreditsAccounted'
  BY <1>1, <1>7, SendInOrder, SendStates, SendCredits, SendSentInOrder DEF IInv
<1>19. TypeOK'
  <2>1. /\ buf' \in [InVCs -> Seq(Flit)]
        /\ state' \in [InVCs -> States] /\ outOf' \in [InVCs -> OutVCs \cup {None}]
        /\ inUse' \in [OutVCs -> InVCs \cup {None}]
        /\ occ' \in [OutVCs -> Int] /\ outCredits' \in SUBSET InVCs
        /\ crossbar' \in [Outputs -> Seq(Crossing)]
    BY <1>1, <1>7, SendInOrder, SendStates, SendCredits DEF IInv
  <2>2. /\ holdVc' \in [Inputs -> VCs \cup {None}] /\ holdIn' \in [Inputs -> Outputs \cup {None}]
        /\ holdOut' \in [Outputs -> Inputs \cup {None}]
    BY <1>1 DEF IInv, TypeOK
  <2>3. active' \in BOOLEAN
    BY <1>1 DEF IInv, TypeOK, Busy
  <2>4. /\ cfg \in Configs /\ upOpen \in [InVCs -> Sending \cup {None}] /\ upOcc \in [InVCs -> Int]
        /\ downOpen \in [OutVCs -> Receiving \cup {None}] /\ downHeld \in [OutVCs -> Nat]
    BY DEF IInv, TypeOK
  <2> QED
    BY <1>1, <1>9, <1>16, <1>17, <2>1, <2>2, <2>3, <2>4 DEF TypeOK, Phases
<1>20. EachListed'
  <2>1. ASSUME NEW iv \in InVCs
        PROVE  /\ swHoldVcs'[iv] # <<>> <=> (state'[iv] = "active" /\ buf'[iv] # <<>>) /\ holdVc'[iv[1]] = iv[2]
               /\ swAllocVcs'[iv] # <<>> <=>
                    \/ state'[iv] = "vc_alloc" /\ cfg.speculative
                    \/ (state'[iv] = "active" /\ buf'[iv] # <<>>) /\ ~(holdVc'[iv[1]] = iv[2])
    <3>1. CASE iv \in S
      BY <1>3, <1>9, <1>11, <1>12, <1>26, <1>14, <1>16, <1>17, <3>1 DEF BidsEarly
    <3>2. CASE iv \notin S
      <4>1. state'[iv] = state[iv] /\ buf'[iv] = buf[iv] /\ iv \notin kept /\ ~(holdVc'[iv[1]] = iv[2])
        BY <1>9, <1>11, <1>14, <3>2
      <4>2. CASE iv \in done
        BY <1>5, <1>12, <1>16, <1>17, <3>2, <4>1, <4>2
      <4>3. CASE iv \notin done
        <5>1. /\ swAllocVcs'[iv] # <<>> <=> swAllocVcs[iv] # <<>>
              /\ ~Holds(iv)
          BY <1>4, <1>12, <1>17, <3>2, <4>3
        <5> QED
          BY <1>16, <4>1, <5>1 DEF IInv, EachListed, CanSend
      <4> QED
        BY <4>2, <4>3
    <3> QED
      BY <3>1, <3>2
  <2> QED
    BY <1>1, <1>9, <2>1 DEF EachListed, CanSend, Holds
<1>21. Stamps'
  <2>1. NewOrDue(swAllocVcs')
    BY <1>1, <1>17 DEF IInv, Stamps, NewOrDue
  <2>2. AllNew(swHoldVcs')
    BY <1>16 DEF AllNew
  <2> QED
    BY <1>1, <1>9, <2>1, <2>2 DEF Stamps, AllNew, NewOrDue
<1>22. VcGrantsFit' /\ HoldGrantsFit' /\ CrossbarFits'
  BY <1>1 DEF VcGrantsFit, HoldGrantsFit, CrossbarFits
\* Who was granted the switch keeps it: held connections are not at its input or output.
<1>23. SwGrantsFit'
  <2>1. /\ \A o \in Outputs : (\A j \in S : ov[j][1] # o) => crossbar'[o] = crossbar[o]
        /\ \A x \in OutVCs : (\A j \in S : ov[j] # x) => inUse'[x] = inUse[x] /\ occ'[x] = occ[x]
        /\ outCredits' = outCredits \cup S
        /\ \A j \in InVCs : j \notin S => outOf'[j] = outOf[j]
    BY <1>1, <1>7, SendEffect
  <2>2. ASSUME NEW iv \in InVCs, NEW o \in Outputs, Award(swAllocVcs, iv, o)
        PROVE  /\ holdIn'[iv[1]] = None /\ holdOut'[o] = None
               /\ iv \notin outCredits'
               /\ \A k \in 1 .. Len(crossbar'[o]) : crossbar'[o][k].due = 0
               /\ MayUse(iv, o)'
    <3>1. /\ holdIn[iv[1]] = None /\ holdOut[o] = None /\ iv \notin outCredits
          /\ \A k \in 1 .. Len(crossbar[o]) : crossbar[o][k].due = 0
          /\ MayUse(iv, o)
      BY <1>1, <2>2 DEF IInv, SwGrantsFit
    <3>2. iv \notin done /\ iv \notin S /\ iv[1] \in Inputs
      BY <1>3, <1>17, <2>2, Ports DEF Award
    <3>3. \A j \in S : ov[j][1] # o
      BY <1>3, <1>5, <1>8, <3>1, NoneIsNothing
    <3>4. holdIn'[iv[1]] = None /\ holdOut'[o] = None
      BY <1>1, <3>1, <3>2
    <3>5. crossbar'[o] = crossbar[o]
      BY <2>1, <3>3
    <3>6. \A v \in VCs : inUse'[<<o, v>>] = inUse[<<o, v>>] /\ occ'[<<o, v>>] = occ[<<o, v>>]
      BY <2>1, <3>3, Ports
    <3>7. state'[iv] = state[iv] /\ buf'[iv] = buf[iv] /\ outOf'[iv] = outOf[iv]
      BY <1>9, <2>1, <3>2
    <3>8. state[iv] = "active" => outOf[iv][1] = o /\ occ'[outOf[iv]] < BufSize
      <4>1. ASSUME state[iv] = "active"
            PROVE  outOf[iv][1] = o /\ occ'[outOf[iv]] < BufSize
        <5>1. outOf[iv][1] = o /\ occ[outOf[iv]] < BufSize
          BY <3>1, <4>1 DEF MayUse
        <5>2. outOf[iv] \in OutVCs
          BY <4>1 DEF IInv, StateFits, TypeOK
        <5>3. occ'[outOf[iv]] = occ[outOf[iv]]
          BY <2>1, <3>3, <5>1, <5>2
        <5> QED
          BY <5>1, <5>3
      <4> QED
        BY <4>1
    <3>9. FreeVc(o) => FreeVc(o)'
      BY <3>6 DEF FreeVc
    <3>10. MayUse(iv, o)'
      <4>1. state[iv] = "vc_alloc" /\ cfg.piggyback => FrontFlit(iv).out = o /\ FreeVc(o)
        BY <3>1 DEF MayUse
      <4>2. ~(state[iv] = "vc_alloc" /\ ~cfg.piggyback)
        BY <1>1, <3>1 DEF MayUse
      <4> QED
        BY <1>1, <3>7, <3>8, <3>9, <4>1, <4>2 DEF MayUse, FrontFlit
    <3> QED
      BY <2>1, <3>1, <3>2, <3>4, <3>5, <3>10
  <2>3. \A iv \in InVCs, o \in Outputs : Award(swAllocVcs, iv, o)' <=> Award(swAllocVcs, iv, o)
    BY <1>17 DEF Award
  <2>4. \A iv \in InVCs, o \in Outputs : Award(swAllocVcs, iv, o) =>
          \A j \in InVCs, x \in Outputs : Award(swAllocVcs, j, x) /\ j # iv => j[1] # iv[1] /\ x # o
    BY <1>1 DEF IInv, SwGrantsFit
  <2> QED
    BY <2>2, <2>3, <2>4 DEF SwGrantsFit
<1>24. StaysAwake'
  <2>1. ASSUME ~active', Quiet'
        PROVE  ~Busy(routeVcs') /\ ~Busy(vcAllocVcs') /\ ~Busy(swHoldVcs')
    <3>1. S = {} /\ Quiet
      BY <1>1, <1>7, <2>1, QuietSends DEF IInv
    <3>2. ~active /\ ~Busy(swHoldVcs')
      BY <1>1, <2>1
    <3>3. ~Busy(routeVcs) /\ ~Busy(vcAllocVcs)
      BY <1>1, <3>1, <3>2 DEF IInv, StaysAwake
    <3>4. \A iv \in InVCs : routeVcs'[iv] = routeVcs[iv] /\ vcAllocVcs'[iv] = vcAllocVcs[iv]
      BY <1>9, <3>1
    <3> QED
      BY <3>2, <3>3, <3>4 DEF Busy
  <2> QED
    BY <1>1, <2>1 DEF StaysAwake, Busy
<1> QED
  BY <1>13, <1>15, <1>18, <1>19, <1>20, <1>21, <1>22, <1>23, <1>24 DEF IInv

\* _SWAllocUpdate sends a flit for each grant and holds connections.
LEMMA SWAllocUpdateStep ==
  ASSUME UnitDelays, IInv, NEW p \in Piggybacks(Granted(swAllocVcs)), SWAllocUpdate(p)
  PROVE  IInv'
<1> DEFINE done == Done(swAllocVcs)
           S == Granted(swAllocVcs)
           ov == [iv \in S |-> IF iv \in DOMAIN p THEN p[iv] ELSE outOf[iv]]
           next == {iv \in S : HasNext(iv)}
           more == {iv \in S : HasMore(iv)}
           holds == IF cfg.hold THEN more ELSE {}
           bids == (done \ S) \cup (more \ holds) \cup (IF BidsEarly THEN next ELSE {})
<1>1. /\ phase = "switch" /\ phase' = "write"
      /\ Send(S, ov)
      /\ holdVc' = [i \in Inputs |-> IF \E iv \in holds : iv[1] = i
                                     THEN (CHOOSE iv \in holds : iv[1] = i)[2] ELSE holdVc[i]]
      /\ holdIn' = [i \in Inputs |-> IF \E iv \in holds : iv[1] = i
                                     THEN ov[CHOOSE iv \in holds : iv[1] = i][1] ELSE holdIn[i]]
      /\ holdOut' = [o \in Outputs |-> IF \E iv \in holds : ov[iv][1] = o
                                       THEN (CHOOSE iv \in holds : ov[iv][1] = o)[1] ELSE holdOut[o]]
      /\ routeVcs' = Enlisted(routeVcs, RoutesOf({iv \in S : HasNext(iv)}))
      /\ vcAllocVcs' = Enlisted(vcAllocVcs, VcAllocsOf({iv \in S : HasNext(iv)}))
      /\ swHoldVcs' = Enlisted(swHoldVcs, holds)
      /\ swAllocVcs' = Enlisted(Waiting(swAllocVcs), bids)
      /\ active' = (active \/ Busy(swAllocVcs'))
      /\ cfg' = cfg
      /\ upOpen' = upOpen /\ upOcc' = upOcc /\ downOpen' = downOpen /\ downHeld' = downHeld
  BY DEF SWAllocUpdate, linkVars
<1>2. swAllocVcs \in Lists(Outputs) /\ NewOrDue(swAllocVcs)
  BY <1>1 DEF IInv, TypeOK, Stamps
<1>3. /\ done = {iv \in InVCs : swAllocVcs[iv] # <<>> /\ Head(swAllocVcs[iv]).due = 0}
      /\ S \subseteq done
      /\ \A iv \in S : \E o \in Outputs : Award(swAllocVcs, iv, o)
      /\ \A iv \in InVCs, o \in Outputs : Award(swAllocVcs, iv, o) => iv \in S
  BY <1>2, GrantedIs, NoneIsNothing
<1>4. /\ DOMAIN p = {iv \in S : state[iv] = "vc_alloc"}
      /\ \A iv \in DOMAIN p : /\ p[iv] \in OutVCs /\ p[iv][1] = SwOutput(iv)
                              /\ inUse[p[iv]] = None /\ ~(occ[p[iv]] >= BufSize)
  BY DEF Piggybacks, IsAvailable, IsFull
<1> HIDE DEF done, S
\* A grant leads to the output of the packet, on a VC of it that may be used.
<1>5. ASSUME NEW iv \in S, NEW o \in Outputs, Award(swAllocVcs, iv, o)
      PROVE  /\ ov[iv] \in OutVCs /\ ov[iv][1] = o
             /\ occ[ov[iv]] < BufSize
             /\ \/ state[iv] = "active" /\ outOf[iv] = ov[iv]
                \/ state[iv] = "vc_alloc" /\ cfg.piggyback /\ inUse[ov[iv]] = None
  <2>1. iv \in InVCs /\ swAllocVcs[iv] # <<>> /\ MayUse(iv, o)
    BY <1>1, <1>3, <1>5 DEF IInv, SwGrantsFit, Award
  <2>2. state[iv] = "active" \/ state[iv] = "vc_alloc"
    BY <2>1 DEF IInv, EachListed, CanSend
  <2>3. CASE state[iv] = "active"
    <3>1. iv \notin DOMAIN p /\ outOf[iv] \in OutVCs
      BY <1>4, <2>1, <2>3 DEF IInv, StateFits, TypeOK
    <3>2. ov[iv] = outOf[iv] /\ outOf[iv][1] = o /\ occ[outOf[iv]] < BufSize
      BY <2>1, <2>3, <3>1 DEF MayUse
    <3> QED
      BY <2>3, <3>1, <3>2
  <2>4. CASE state[iv] = "vc_alloc"
    <3>1. cfg.piggyback /\ FrontFlit(iv).out = o
      BY <1>1, <2>1, <2>4 DEF MayUse
    <3>2. iv \in DOMAIN p /\ SwOutput(iv) = FrontFlit(iv).out
      BY <1>4, <2>4 DEF SwOutput
    <3>3. ov[iv] = p[iv] /\ p[iv] \in OutVCs /\ p[iv][1] = o /\ inUse[p[iv]] = None /\ ~(occ[p[iv]] >= BufSize)
      BY <1>4, <3>1, <3>2
    <3>4. occ[p[iv]] \in Int
      BY <3>3 DEF IInv, TypeOK
    <3>5. occ[p[iv]] < BufSize
      BY <3>3, <3>4, RouterAssumption
    <3> QED
      BY <2>4, <3>1, <3>3, <3>5
  <2> QED
    BY <2>2, <2>3, <2>4
<1>6. \A iv \in S :
        /\ iv \in InVCs /\ iv \in done /\ swAllocVcs[iv] # <<>>
        /\ ov[iv] \in OutVCs /\ ov[iv][1] \in Outputs
        /\ occ[ov[iv]] < BufSize
        /\ \/ state[iv] = "active" /\ outOf[iv] = ov[iv]
           \/ state[iv] = "vc_alloc" /\ cfg.piggyback /\ inUse[ov[iv]] = None
        /\ iv[1] \in Inputs /\ iv[2] \in VCs
        /\ holdIn[iv[1]] = None /\ holdOut[ov[iv][1]] = None /\ holdVc[iv[1]] = None
        /\ iv \notin outCredits
        /\ \A k \in 1 .. Len(crossbar[ov[iv][1]]) : crossbar[ov[iv][1]][k].due = 0
        /\ \A j \in S : j # iv => j[1] # iv[1] /\ ov[j][1] # ov[iv][1]
  <2> SUFFICES ASSUME NEW iv \in S
               PROVE  /\ iv \in InVCs /\ iv \in done /\ swAllocVcs[iv] # <<>>
                      /\ ov[iv] \in OutVCs /\ ov[iv][1] \in Outputs
                      /\ occ[ov[iv]] < BufSize
                      /\ \/ state[iv] = "active" /\ outOf[iv] = ov[iv]
                         \/ state[iv] = "vc_alloc" /\ cfg.piggyback /\ inUse[ov[iv]] = None
                      /\ iv[1] \in Inputs /\ iv[2] \in VCs
                      /\ holdIn[iv[1]] = None /\ holdOut[ov[iv][1]] = None /\ holdVc[iv[1]] = None
                      /\ iv \notin outCredits
                      /\ \A k \in 1 .. Len(crossbar[ov[iv][1]]) : crossbar[ov[iv][1]][k].due = 0
                      /\ \A j \in S : j # iv => j[1] # iv[1] /\ ov[j][1] # ov[iv][1]
    OBVIOUS
  <2>1. PICK o \in Outputs : Award(swAllocVcs, iv, o)
    BY <1>3
  <2>2. /\ ov[iv] \in OutVCs /\ ov[iv][1] = o
        /\ occ[ov[iv]] < BufSize
        /\ \/ state[iv] = "active" /\ outOf[iv] = ov[iv]
           \/ state[iv] = "vc_alloc" /\ cfg.piggyback /\ inUse[ov[iv]] = None
    BY <1>5, <2>1
  <2>3. iv \in InVCs /\ iv \in done /\ swAllocVcs[iv] # <<>> /\ iv[1] \in Inputs /\ iv[2] \in VCs
    BY <1>3, Ports
  <2>4. /\ holdIn[iv[1]] = None /\ holdOut[o] = None /\ iv \notin outCredits
        /\ \A k \in 1 .. Len(crossbar[o]) : crossbar[o][k].due = 0
        /\ \A j \in InVCs, x \in Outputs : Award(swAllocVcs, j, x) /\ j # iv => j[1] # iv[1] /\ x # o
    BY <1>1, <2>1, <2>3 DEF IInv, SwGrantsFit
  <2>5. holdVc[iv[1]] = None
    BY <2>3, <2>4 DEF IInv, HeldPairs
  <2>6. ASSUME NEW j \in S, j # iv
        PROVE  j[1] # iv[1] /\ ov[j][1] # o
    <3>1. PICK x \in Outputs : Award(swAllocVcs, j, x)
      BY <1>3
    <3>2. ov[j][1] = x
      BY <1>5, <3>1
    <3>3. j \in InVCs
      BY <1>3
    <3> QED
      BY <2>4, <2>6, <3>1, <3>2, <3>3
  <2> HIDE DEF ov
  <2> QED
    BY <2>2, <2>3, <2>4, <2>5, <2>6
<1>7. ov \in [S -> OutVCs]
  <2>1. DOMAIN ov = S /\ ov = [iv \in S |-> ov[iv]]
    OBVIOUS
  <2> HIDE DEF ov
  <2> QED
    BY <1>6, <2>1
<1> HIDE DEF ov
<1>8. Sendable(S, ov)
  <2>1. S \subseteq InVCs
    BY <1>6
  <2>2. \A iv \in S :
          /\ buf[iv] # <<>> /\ iv \notin outCredits /\ occ[ov[iv]] < BufSize
          /\ \/ state[iv] = "active" /\ outOf[iv] = ov[iv]
             \/ state[iv] = "vc_alloc" /\ inUse[ov[iv]] = None
          /\ \A k \in 1 .. Len(crossbar[ov[iv][1]]) : crossbar[ov[iv][1]][k].due = 0
    <3>1. \A iv \in S : buf[iv] # <<>>
      BY <1>6 DEF IInv, EachListed, StateFits, CanSend
    <3> QED
      BY <1>6, <3>1
  <2>3. \A a, b \in S : a # b => ov[a][1] # ov[b][1]
    BY <1>6
  <2> QED
    BY <1>7, <2>1, <2>2, <2>3 DEF Sendable
<1>9. /\ routeVcs' \in Lists({}) /\ vcAllocVcs' \in Lists(OutVCs)
      /\ \A iv \in InVCs :
           /\ routeVcs'[iv] # <<>> <=> state'[iv] = "routing"
           /\ vcAllocVcs'[iv] # <<>> <=> state'[iv] = "vc_alloc" /\ ~cfg.piggyback
           /\ iv \notin S => /\ state'[iv] = state[iv] /\ buf'[iv] = buf[iv]
                             /\ vcAllocVcs'[iv] = vcAllocVcs[iv] /\ routeVcs'[iv] = routeVcs[iv]
      /\ \A iv \in S :
           /\ iv \in InVCs
           /\ state'[iv] = "active" /\ buf'[iv] # <<>> <=> HasMore(iv)
           /\ HasMore(iv) => state'[iv] = "active" /\ outOf'[iv] = ov[iv] /\ ~HasNext(iv)
           /\ state'[iv] = "vc_alloc" <=> HasNext(iv) /\ cfg.routingDelay = 0
      /\ AllNew(vcAllocVcs')
  <2>1. \A iv \in S : vcAllocVcs[iv] = <<>>
    BY <1>6 DEF IInv, EachListed
  <2>2. AllNew(vcAllocVcs)
    BY <1>1 DEF IInv, Stamps
  <2> QED
    BY <1>1, <1>8, <2>1, <2>2, SendLists
<1>10. \A iv \in holds : iv \in S /\ HasMore(iv) /\ cfg.hold
  OBVIOUS
<1>11. \A iv \in InVCs : iv \in bids <=> \/ iv \in done /\ iv \notin S
                                         \/ iv \in S /\ HasMore(iv) /\ iv \notin holds
                                         \/ iv \in S /\ HasNext(iv) /\ BidsEarly
  OBVIOUS
<1>12. \A iv \in bids : iv \in done
  BY <1>3
<1> HIDE DEF next, more, holds, bids
\* The new connections, each of another input and to another output.
<1>13. \A iv \in holds :
         /\ holdVc'[iv[1]] = iv[2] /\ holdIn'[iv[1]] = ov[iv][1] /\ holdOut'[ov[iv][1]] = iv[1]
  <2> SUFFICES ASSUME NEW iv \in holds
               PROVE  /\ holdVc'[iv[1]] = iv[2] /\ holdIn'[iv[1]] = ov[iv][1]
                      /\ holdOut'[ov[iv][1]] = iv[1]
    OBVIOUS
  <2>1. iv[1] \in Inputs /\ ov[iv][1] \in Outputs
    BY <1>6, <1>10
  <2>2. (\A j \in holds : j[1] = iv[1] <=> j = iv) /\ (\A j \in holds : ov[j][1] = ov[iv][1] <=> j = iv)
    BY <1>6, <1>10
  <2>3. (CHOOSE j \in holds : j[1] = iv[1]) = iv /\ (CHOOSE j \in holds : ov[j][1] = ov[iv][1]) = iv
    BY <2>2
  <2> QED
    BY <1>1, <2>1, <2>3
<1>14. /\ \A i \in Inputs : (\A iv \in holds : iv[1] # i) => holdVc'[i] = holdVc[i] /\ holdIn'[i] = holdIn[i]
       /\ \A o \in Outputs : (\A iv \in holds : ov[iv][1] # o) => holdOut'[o] = holdOut[o]
  BY <1>1
<1>15. HeldPairs'
  <2>1. ASSUME NEW i \in Inputs
        PROVE  /\ holdVc'[i] = None <=> holdIn'[i] = None
               /\ \A o \in Outputs : holdIn'[i] = o <=> holdOut'[o] = i
    <3>1. /\ holdVc[i] = None <=> holdIn[i] = None
          /\ \A o \in Outputs : holdIn[i] = o <=> holdOut[o] = i
      BY DEF IInv, HeldPairs
    <3>2. CASE \E iv \in holds : iv[1] = i
      <4>1. PICK iv \in holds : iv[1] = i
        BY <3>2
      <4>2. /\ holdVc'[i] = iv[2] /\ holdIn'[i] = ov[iv][1] /\ holdOut'[ov[iv][1]] = i
            /\ iv[2] # None /\ ov[iv][1] # None /\ holdIn[i] = None
        BY <1>6, <1>10, <1>13, <4>1, NoneIsNothing
      <4>3. ASSUME NEW o \in Outputs, o # ov[iv][1]
            PROVE  holdOut'[o] # i
        <5>1. CASE \E j \in holds : ov[j][1] = o
          <6>1. PICK j \in holds : ov[j][1] = o
            BY <5>1
          <6>2. holdOut'[o] = j[1] /\ j # iv
            BY <1>13, <4>3, <6>1
          <6> QED
            BY <1>6, <1>10, <4>1, <6>2
        <5>2. CASE \A j \in holds : ov[j][1] # o
          BY <1>14, <3>1, <4>2, <5>2, NoneIsNothing
        <5> QED
          BY <5>1, <5>2
      <4> QED
        BY <4>2, <4>3
    <3>3. CASE \A iv \in holds : iv[1] # i
      <4>1. holdVc'[i] = holdVc[i] /\ holdIn'[i] = holdIn[i]
        BY <1>14, <3>3
      <4>2. ASSUME NEW o \in Outputs
            PROVE  holdIn[i] = o <=> holdOut'[o] = i
        <5>1. CASE \E j \in holds : ov[j][1] = o
          <6>1. PICK j \in holds : ov[j][1] = o
            BY <5>1
          <6>2. holdOut'[o] = j[1] /\ j[1] # i /\ holdOut[o] = None
            BY <1>6, <1>10, <1>13, <3>3, <6>1
          <6> QED
            BY <3>1, <6>2, NoneIsNothing
        <5>2. CASE \A j \in holds : ov[j][1] # o
          BY <1>14, <3>1, <5>2
        <5> QED
          BY <5>1, <5>2
      <4> QED
        BY <3>1, <4>1, <4>2
    <3> QED
      BY <3>2, <3>3
  <2> QED
    BY <2>1 DEF HeldPairs
<1>16. /\ \A iv \in InVCs : holdVc'[iv[1]] = iv[2] <=> iv \in holds \/ Holds(iv)
       /\ \A iv \in S : ~Holds(iv)
       /\ \A iv \in InVCs : Holds(iv) => holdIn'[iv[1]] = holdIn[iv[1]]
  <2>1. \A iv \in S : holdVc[iv[1]] = None /\ iv[1] \in Inputs
    BY <1>6
  <2>2. ASSUME NEW iv \in InVCs
        PROVE  holdVc'[iv[1]] = iv[2] <=> iv \in holds \/ Holds(iv)
    <3>1. iv[1] \in Inputs /\ iv[2] \in VCs /\ iv[2] # None /\ iv = <<iv[1], iv[2]>>
      BY Ports, NoneIsNothing
    <3>2. CASE \E j \in holds : j[1] = iv[1]
      <4>1. PICK j \in holds : j[1] = iv[1]
        BY <3>2
      <4>2. j \in InVCs /\ j = <<j[1], j[2]>> /\ holdVc'[iv[1]] = j[2] /\ holdVc[iv[1]] = None
        BY <1>6, <1>10, <1>13, <4>1, Ports
      <4>3. iv \in holds => iv = j
        BY <1>6, <1>10, <4>1
      <4>4. j[2] = iv[2] => j = iv
        BY <3>1, <4>1, <4>2
      <4> QED
        BY <3>1, <4>1, <4>2, <4>3, <4>4 DEF Holds
    <3>3. CASE \A j \in holds : j[1] # iv[1]
      BY <1>14, <3>1, <3>3 DEF Holds
    <3> QED
      BY <3>2, <3>3
  <2>3. \A iv \in S : ~Holds(iv)
    BY <1>6, NoneIsNothing DEF Holds
  <2>4. ASSUME NEW iv \in InVCs, Holds(iv)
        PROVE  holdIn'[iv[1]] = holdIn[iv[1]]
    <3>1. iv[1] \in Inputs /\ holdVc[iv[1]] # None
      BY <2>4, Ports, NoneIsNothing DEF Holds
    <3>2. \A j \in holds : j[1] # iv[1]
      BY <1>10, <2>1, <3>1
    <3> QED
      BY <1>14, <3>1, <3>2
  <2> QED
    BY <2>2, <2>3, <2>4
<1>17. HeldSends'
  <2>1. ASSUME NEW iv \in InVCs, holdVc'[iv[1]] = iv[2]
        PROVE  state'[iv] = "active" /\ buf'[iv] # <<>> /\ outOf'[iv][1] = holdIn'[iv[1]]
    <3>1. CASE iv \in holds
      BY <1>9, <1>10, <1>13, <3>1
    <3>2. CASE iv \notin holds
      <4>1. Holds(iv) /\ iv \notin S
        BY <1>16, <2>1, <3>2
      <4>2. outOf'[iv] = outOf[iv] /\ state'[iv] = state[iv] /\ buf'[iv] = buf[iv]
        BY <1>1, <1>8, <4>1, SendEffect
      <4> QED
        BY <1>16, <4>1, <4>2 DEF IInv, HeldSends, CanSend
    <3> QED
      BY <3>1, <3>2
  <2> QED
    BY <2>1 DEF HeldSends, Holds, CanSend
<1>18. /\ swHoldVcs' \in Lists(Outputs)
       /\ \A iv \in InVCs : /\ swHoldVcs'[iv] # <<>> <=> swHoldVcs[iv] # <<>> \/ iv \in holds
                            /\ iv \in S => swHoldVcs[iv] = <<>>
                            /\ iv \notin holds => swHoldVcs'[iv] = swHoldVcs[iv]
                            /\ swHoldVcs'[iv] # <<>> => Head(swHoldVcs'[iv]) = NewEntry
  <2> DEFINE joined == Enlisted(swHoldVcs, holds)
  <2>1. \A iv \in S : swHoldVcs[iv] = <<>>
    BY <1>6, <1>16 DEF IInv, EachListed
  <2>2. swHoldVcs \in Lists(Outputs) /\ AllNew(swHoldVcs)
    BY <1>1 DEF IInv, TypeOK, Stamps
  <2>3. \A iv \in holds : swHoldVcs[iv] = <<>>
    BY <1>10, <2>1
  <2>4. /\ joined \in Lists(Outputs)
        /\ \A iv \in InVCs : /\ joined[iv] = <<>> <=> swHoldVcs[iv] = <<>> /\ iv \notin holds
                             /\ iv \in holds => Head(joined[iv]) = NewEntry
                             /\ iv \notin holds => joined[iv] = swHoldVcs[iv]
    BY <2>2, <2>3, Joining
  <2>5. swHoldVcs' = joined
    BY <1>1
  <2> HIDE DEF joined
  <2> QED
    BY <2>1, <2>2, <2>4, <2>5 DEF AllNew
<1>19. /\ swAllocVcs' \in Lists(Outputs)
       /\ \A iv \in InVCs : /\ swAllocVcs'[iv] # <<>> <=> (swAllocVcs[iv] # <<>> /\ iv \notin done) \/ iv \in bids
                            /\ swAllocVcs'[iv] # <<>> => Head(swAllocVcs'[iv]) = NewEntry
  <2> DEFINE left == Waiting(swAllocVcs)
             joined == Enlisted(left, bids)
  <2>1. /\ left \in Lists(Outputs)
        /\ \A iv \in InVCs : /\ iv \in done => left[iv] = <<>>
                             /\ iv \notin done => left[iv] = swAllocVcs[iv]
    BY <1>2, Leaving DEF done
  <2> HIDE DEF left
  <2>2. \A iv \in bids : left[iv] = <<>>
    BY <1>3, <1>12, <2>1
  <2>3. /\ joined \in Lists(Outputs)
        /\ \A iv \in InVCs : /\ joined[iv] = <<>> <=> left[iv] = <<>> /\ iv \notin bids
                             /\ iv \in bids => Head(joined[iv]) = NewEntry
                             /\ iv \notin bids => joined[iv] = left[iv]
    BY <2>1, <2>2, Joining
  <2>4. swAllocVcs' = joined
    BY <1>1 DEF left
  <2> HIDE DEF joined
  <2>5. \A iv \in InVCs : swAllocVcs[iv] # <<>> /\ iv \notin done => Head(swAllocVcs[iv]) = NewEntry
    BY <1>2, <1>3 DEF NewOrDue
  <2> QED
    BY <2>1, <2>3, <2>4, <2>5
<1>20. InOrder' /\ SentInOrder' /\ StateFits' /\ VcOwners' /\ AtMostTwo' /\ RouterCreditsAccounted'
  BY <1>1, <1>8, SendInOrder, SendStates, SendCredits, SendSentInOrder DEF IInv
<1>21. TypeOK'
  <2>1. /\ buf' \in [InVCs -> Seq(Flit)]
        /\ state' \in [InVCs -> States] /\ outOf' \in [InVCs -> OutVCs \cup {None}]
        /\ inUse' \in [OutVCs -> InVCs \cup {None}]
        /\ occ' \in [OutVCs -> Int] /\ outCredits' \in SUBSET InVCs
        /\ crossbar' \in [Outputs -> Seq(Crossing)]
    BY <1>1, <1>8, SendInOrder, SendStates, SendCredits DEF IInv
  <2>2. /\ holdVc' \in [Inputs -> VCs \cup {None}] /\ holdIn' \in [Inputs -> Outputs \cup {None}]
        /\ holdOut' \in [Outputs -> Inputs \cup {None}]
    <3>1. ASSUME NEW i \in Inputs
          PROVE  holdVc'[i] \in VCs \cup {None} /\ holdIn'[i] \in Outputs \cup {None}
      <4>1. CASE \E iv \in holds : iv[1] = i
        BY <1>6, <1>10, <1>13, <4>1
      <4>2. CASE \A iv \in holds : iv[1] # i
        BY <1>14, <4>2 DEF IInv, TypeOK
      <4> QED
        BY <4>1, <4>2
    <3>2. ASSUME NEW o \in Outputs
          PROVE  holdOut'[o] \in Inputs \cup {None}
      <4>1. CASE \E iv \in holds : ov[iv][1] = o
        BY <1>6, <1>10, <1>13, <4>1
      <4>2. CASE \A iv \in holds : ov[iv][1] # o
        BY <1>14, <4>2 DEF IInv, TypeOK
      <4> QED
        BY <4>1, <4>2
    <3>3. /\ holdVc' = [i \in Inputs |-> holdVc'[i]] /\ holdIn' = [i \in Inputs |-> holdIn'[i]]
          /\ holdOut' = [o \in Outputs |-> holdOut'[o]]
      BY <1>1
    <3> QED
      BY <3>1, <3>2, <3>3
  <2>3. active' \in BOOLEAN
    BY <1>1 DEF IInv, TypeOK, Busy
  <2>4. /\ cfg \in Configs /\ upOpen \in [InVCs -> Sending \cup {None}] /\ upOcc \in [InVCs -> Int]
        /\ downOpen \in [OutVCs -> Receiving \cup {None}] /\ downHeld \in [OutVCs -> Nat]
    BY DEF IInv, TypeOK
  <2> QED
    BY <1>1, <1>9, <1>18, <1>19, <2>1, <2>2, <2>3, <2>4 DEF TypeOK, Phases
<1>22. EachListed'
  <2>1. ASSUME NEW iv \in InVCs
        PROVE  /\ swHoldVcs'[iv] # <<>> <=> (state'[iv] = "active" /\ buf'[iv] # <<>>) /\ holdVc'[iv[1]] = iv[2]
               /\ swAllocVcs'[iv] # <<>> <=>
                    \/ state'[iv] = "vc_alloc" /\ cfg.speculative
                    \/ (state'[iv] = "active" /\ buf'[iv] # <<>>) /\ ~(holdVc'[iv[1]] = iv[2])
    <3>1. CASE iv \in S
      <4>1. iv \in done /\ ~Holds(iv) /\ swHoldVcs[iv] = <<>>
        BY <1>6, <1>16, <1>18, <3>1
      <4>2. holdVc'[iv[1]] = iv[2] <=> iv \in holds
        BY <1>16, <4>1
      <4>3. swAllocVcs'[iv] # <<>> <=> (HasMore(iv) /\ iv \notin holds) \/ (HasNext(iv) /\ BidsEarly)
        BY <1>11, <1>19, <3>1, <4>1
      <4> QED
        BY <1>9, <1>10, <1>18, <3>1, <4>1, <4>2, <4>3 DEF BidsEarly
    <3>2. CASE iv \notin S
      <4>1. /\ state'[iv] = state[iv] /\ buf'[iv] = buf[iv]
            /\ iv \notin holds /\ (holdVc'[iv[1]] = iv[2] <=> Holds(iv))
        BY <1>9, <1>10, <1>16, <3>2
      <4>2. swAllocVcs'[iv] # <<>> <=> swAllocVcs[iv] # <<>>
        BY <1>3, <1>11, <1>19, <3>2
      <4> QED
        BY <1>18, <4>1, <4>2 DEF IInv, EachListed, CanSend
    <3> QED
      BY <3>1, <3>2
  <2> QED
    BY <1>1, <1>9, <2>1 DEF EachListed, CanSend, Holds
<1>23. Stamps'
  <2>1. AllNew(swAllocVcs') /\ AllNew(swHoldVcs')
    BY <1>18, <1>19 DEF AllNew
  <2> QED
    BY <1>1, <1>9, <2>1 DEF Stamps, AllNew
<1>24. VcGrantsFit' /\ HoldGrantsFit' /\ SwGrantsFit' /\ CrossbarFits'
  BY <1>1 DEF VcGrantsFit, HoldGrantsFit, SwGrantsFit, CrossbarFits
<1>25. StaysAwake'
  <2>1. ASSUME ~active', Quiet'
        PROVE  ~Busy(routeVcs') /\ ~Busy(vcAllocVcs') /\ ~Busy(swHoldVcs') /\ ~Busy(swAllocVcs')
    <3>1. S = {} /\ Quiet
      BY <1>1, <1>8, <2>1, QuietSends DEF IInv
    <3>2. ~active /\ ~Busy(swAllocVcs')
      BY <1>1, <2>1
    <3>3. ~Busy(routeVcs) /\ ~Busy(vcAllocVcs) /\ ~Busy(swHoldVcs)
      BY <1>1, <3>1, <3>2 DEF IInv, StaysAwake
    <3>4. \A iv \in InVCs : /\ routeVcs'[iv] = routeVcs[iv] /\ vcAllocVcs'[iv] = vcAllocVcs[iv]
                            /\ swHoldVcs'[iv] = swHoldVcs[iv]
      BY <1>9, <1>10, <1>18, <3>1
    <3> QED
      BY <3>2, <3>3, <3>4 DEF Busy
  <2> QED
    BY <1>1, <2>1 DEF StaysAwake, Busy
<1> QED
  BY <1>15, <1>17, <1>20, <1>21, <1>22, <1>23, <1>24, <1>25 DEF IInv

-----------------------------------------------------------------------------
(* The end of the cycle.                                                   *)

Crossed(f) == [f EXCEPT !.due = 0]
Leaves(s) == s # <<>> /\ Head(s).due = 0
Behind(s) == IF Leaves(s) THEN Tail(s) ELSE s
Remaining(s) == [k \in DOMAIN Behind(s) |-> Crossed(Behind(s)[k])]

\* A flit that has crossed the switch is the same for the neighbour.
LEMMA SameFlit ==
  ASSUME NEW f \in Crossing
  PROVE  /\ Crossed(f) \in Crossing /\ Crossed(f).due = 0 /\ Crossed(f).vc = f.vc
         /\ \A open, v : After(open, Crossed(f), v) = After(open, f, v) /\ (Meets(open, Crossed(f), v) <=> Meets(open, f, v))
<1> DEFINE c == Crossed(f)
<1>1. c \in Crossing /\ c.due = 0 /\ c.src = f.src /\ c.n = f.n /\ c.tail = f.tail /\ c.vc = f.vc
  BY DEF Crossing, Crossed
<1> HIDE DEF c
<1>2. ASSUME NEW open, NEW v
      PROVE  After(open, c, v) = After(open, f, v) /\ (Meets(open, c, v) <=> Meets(open, f, v))
  BY <1>1 DEF After, Meets
<1> QED
  BY <1>1, <1>2 DEF c

\* The flits that stay in the switch are counted and come later.
LEMMA Crossings ==
  ASSUME NEW s \in Seq(Crossing), Len(s) <= 2, Len(s) = 2 => s[1].due = 0 /\ s[2].due = New
  PROVE  /\ Remaining(s) \in Seq(Crossing) /\ Len(Remaining(s)) <= 1
         /\ \A k \in 1 .. Len(Remaining(s)) : Remaining(s)[k].due = 0
         /\ Leaves(s) => /\ s # <<>> /\ Head(s) \in Crossing /\ Head(s) = s[1]
                         /\ Remaining(s) # <<>> => Len(s) = 2 /\ Remaining(s)[1] = Crossed(s[2])
         /\ ~Leaves(s) => /\ Len(s) <= 1 /\ (s # <<>> <=> Remaining(s) # <<>>)
                          /\ Remaining(s) # <<>> => Remaining(s)[1] = Crossed(s[1])
         /\ Len(s) = 2 => Remaining(s) # <<>>
         /\ Remaining(s) = <<>> => \A k \in 1 .. Len(s) : s[k].due = 0
         /\ \A v : Cardinality(On(s, v)) = IF Leaves(s) /\ Head(s).vc = v
                                           THEN Cardinality(On(Remaining(s), v)) + 1
                                           ELSE Cardinality(On(Remaining(s), v))
<1> DEFINE rest == Behind(s)
           t == Remaining(s)
           n(v) == Cardinality(On(t, v))
<1>1. Len(s) \in Nat /\ (s # <<>> <=> Len(s) # 0) /\ \A k \in 1 .. Len(s) : s[k] \in Crossing
  OBVIOUS
<1>2. s # <<>> => Head(s) = s[1] /\ Head(s) \in Crossing /\ Tail(s) \in Seq(Crossing) /\ Len(Tail(s)) = Len(s) - 1
  OBVIOUS
<1>3. rest \in Seq(Crossing)
  BY <1>2 DEF Behind, Leaves
<1>4. DOMAIN rest = 1 .. Len(rest) /\ Len(rest) \in Nat /\ \A k \in 1 .. Len(rest) : rest[k] \in Crossing
  BY <1>3
<1>5. t \in [1 .. Len(rest) -> Crossing] /\ \A k \in 1 .. Len(rest) : t[k] = Crossed(rest[k])
  BY <1>4, SameFlit DEF Remaining
<1> HIDE DEF rest, t, n
<1>6. t \in Seq(Crossing) /\ Len(t) = Len(rest) /\ DOMAIN t = 1 .. Len(rest)
  BY <1>4, <1>5
<1>7. \A v : On(t, v) = On(rest, v)
  <2>1. \A k \in 1 .. Len(rest) : t[k].vc = rest[k].vc
    BY <1>4, <1>5, SameFlit
  <2> QED
    BY <1>4, <1>6, <2>1 DEF On
<1>8. \A k \in 1 .. Len(t) : t[k].due = 0
  BY <1>4, <1>5, <1>6, SameFlit
<1>9. t # <<>> <=> Len(rest) # 0
  <2>1. \A x \in Seq(Crossing) : x # <<>> <=> Len(x) # 0
    OBVIOUS
  <2>2. t # <<>> <=> Len(t) # 0
    BY <1>6, <2>1
  <2> QED
    BY <1>6, <2>2
<1>10. CASE Leaves(s)
  <2>1. rest = Tail(s) /\ s # <<>> /\ Len(rest) = Len(s) - 1 /\ s[1].due = 0
    BY <1>2, <1>10 DEF rest, Behind, Leaves
  <2>2. ASSUME NEW v
        PROVE  Cardinality(On(s, v)) = IF Leaves(s) /\ Head(s).vc = v THEN n(v) + 1 ELSE n(v)
    <3>1. Cardinality(On(s, v)) = n(v) + Once(Head(s).vc = v)
      BY <1>7, <2>1, OnTail DEF n
    <3>2. n(v) \in Nat
      BY <1>6, OnFinite DEF n
    <3> QED
      BY <1>10, <3>1, <3>2 DEF Once
  <2>3. PICK m \in Nat : m = Len(s) /\ m # 0 /\ m <= 2 /\ Len(rest) = m - 1
    BY <1>1, <2>1
  <2>4. m = 1 \/ m = 2
    BY <2>3
  <2>5. Len(t) <= 1
    BY <1>6, <2>3
  <2>6. CASE m = 1
    <3>1. Len(rest) = 0 /\ Len(s) = 1
      BY <2>3, <2>6
    <3>2. t = <<>> /\ \A k \in 1 .. Len(s) : s[k].due = 0
      BY <1>9, <2>1, <3>1
    <3> QED
      BY <1>2, <1>6, <1>8, <1>10, <2>1, <2>2, <2>5, <3>1, <3>2 DEF t, n
  <2>7. CASE m = 2
    <3>1. Len(rest) = 1 /\ Len(s) = 2
      BY <2>3, <2>7
    <3>2. rest[1] = s[2]
      <4>1. \A x \in Seq(Crossing) : x # <<>> => \A k \in 1 .. Len(x) - 1 : Tail(x)[k] = x[k + 1]
        OBVIOUS
      <4>2. 1 \in 1 .. Len(s) - 1 /\ 1 + 1 = 2
        BY <3>1
      <4>3. Tail(s)[1] = s[1 + 1]
        BY <2>1, <4>1, <4>2
      <4> QED
        BY <2>1, <4>2, <4>3
    <3>3. t # <<>> /\ t[1] = Crossed(s[2])
      <4>1. 1 \in 1 .. Len(rest) /\ Len(rest) # 0
        <5>1. \A j \in Nat : j = 1 => 1 \in 1 .. j /\ j # 0
          OBVIOUS
        <5> QED
          BY <1>4, <3>1, <5>1
      <4>2. t[1] = Crossed(rest[1])
        BY <1>5, <4>1
      <4> QED
        BY <1>9, <3>2, <4>1, <4>2
    <3> QED
      BY <1>2, <1>6, <1>8, <1>10, <2>1, <2>2, <2>5, <3>1, <3>3 DEF t, n
  <2> QED
    BY <2>4, <2>6, <2>7
<1>11. CASE ~Leaves(s)
  <2>1. rest = s
    BY <1>11 DEF rest, Behind
  <2>2. s # <<>> => s[1].due # 0
    BY <1>2, <1>11 DEF Leaves
  <2>3. PICK m \in Nat : m = Len(s)
    BY <1>1
  <2>4. m # 2
    BY <1>1, <2>2, <2>3
  <2>5. m <= 1
    <3>1. m <= 2
      BY <2>3
    <3> QED
      BY <2>4, <3>1
  <2>6. \A v : Cardinality(On(s, v)) = n(v)
    BY <1>7, <2>1 DEF n
  <2>7. s # <<>> <=> t # <<>>
    BY <1>1, <1>9, <2>1
  <2>8. t # <<>> => t[1] = Crossed(s[1])
    <3>1. t # <<>> => 1 \in 1 .. Len(rest)
      BY <1>4, <1>9
    <3> QED
      BY <1>5, <2>1, <3>1
  <2>9. t = <<>> => \A k \in 1 .. Len(s) : s[k].due = 0
    BY <1>1, <2>7
  <2>10. Len(t) <= 1 /\ Len(s) <= 1
    BY <1>6, <2>1, <2>3, <2>5
  <2>11. Len(s) # 2
    BY <2>3, <2>4
  <2> QED
    BY <1>6, <1>8, <1>11, <2>6, <2>7, <2>8, <2>9, <2>10, <2>11 DEF t, n
<1> QED
  BY <1>10, <1>11 DEF t, n

\* At the end of a cycle flits and credits leave the router.
LEMMA WriteOutputsStep ==
  ASSUME UnitDelays, IInv, WriteOutputs
  PROVE  IInv'
<1> DEFINE leaving == {o \in Outputs : crossbar[o] # <<>> /\ Head(crossbar[o]).due = 0}
           gone(ov) == ov[1] \in leaving /\ Head(crossbar[ov[1]]).vc = ov[2]
           rest(o) == IF o \in leaving THEN Tail(crossbar[o]) ELSE crossbar[o]
           left(o) == [k \in DOMAIN rest(o) |-> Crossed(rest(o)[k])]
<1>1. /\ phase = "write" /\ phase' = "queue"
      /\ crossbar' = [o \in Outputs |-> left(o)]
      /\ downHeld' = [ov \in OutVCs |-> IF gone(ov) THEN downHeld[ov] + 1 ELSE downHeld[ov]]
      /\ downOpen' = [ov \in OutVCs |->
                        IF ~gone(ov) THEN downOpen[ov]
                        ELSE IF Head(crossbar[ov[1]]).tail THEN None
                        ELSE [src |-> Head(crossbar[ov[1]]).src, n |-> Head(crossbar[ov[1]]).n + 1]]
      /\ upOcc' = [iv \in InVCs |-> IF iv \in outCredits THEN upOcc[iv] - 1 ELSE upOcc[iv]]
      /\ outCredits' = {}
      /\ routeVcs' = Tick(routeVcs) /\ vcAllocVcs' = Tick(vcAllocVcs)
      /\ swAllocVcs' = Tick(swAllocVcs)
      /\ active' = (active \/ \E o \in Outputs : Stirs(crossbar'[o]))
      /\ cfg' = cfg /\ buf' = buf /\ state' = state /\ outOf' = outOf
      /\ inUse' = inUse /\ occ' = occ /\ swHoldVcs' = swHoldVcs
      /\ holdVc' = holdVc /\ holdIn' = holdIn /\ holdOut' = holdOut /\ upOpen' = upOpen
  BY DEF WriteOutputs, holdVars, Crossed
<1>2. \A o \in Outputs :
        /\ crossbar[o] \in Seq(Crossing) /\ Len(crossbar[o]) <= 2
        /\ Len(crossbar[o]) = 2 => crossbar[o][1].due = 0 /\ crossbar[o][2].due = New
        /\ o \in leaving <=> Leaves(crossbar[o])
        /\ crossbar'[o] = left(o)
  BY <1>1 DEF IInv, TypeOK, AtMostTwo, Leaves
\* What a flit that leaves and the one behind it are for the neighbour.
<1>3. ASSUME NEW o \in Outputs
      PROVE  /\ crossbar'[o] \in Seq(Crossing) /\ Len(crossbar'[o]) <= 1
             /\ \A k \in 1 .. Len(crossbar'[o]) : crossbar'[o][k].due = 0
             /\ o \in leaving =>
                  /\ crossbar[o] # <<>> /\ Head(crossbar[o]) \in Crossing /\ Head(crossbar[o]) = crossbar[o][1]
                  /\ crossbar'[o] # <<>> => Len(crossbar[o]) = 2 /\ crossbar'[o][1] = Crossed(crossbar[o][2])
             /\ o \notin leaving =>
                  /\ Len(crossbar[o]) <= 1 /\ (crossbar[o] # <<>> <=> crossbar'[o] # <<>>)
                  /\ crossbar'[o] # <<>> => crossbar'[o][1] = Crossed(crossbar[o][1])
             /\ Len(crossbar[o]) = 2 => crossbar'[o] # <<>>
             /\ crossbar'[o] = <<>> => \A k \in 1 .. Len(crossbar[o]) : crossbar[o][k].due = 0
             /\ \A v : Cardinality(On(crossbar[o], v)) = IF o \in leaving /\ Head(crossbar[o]).vc = v
                                                         THEN Cardinality(On(crossbar'[o], v)) + 1
                                                         ELSE Cardinality(On(crossbar'[o], v))
  <2>1. o \in leaving <=> Leaves(crossbar[o])
    BY <1>2
  <2>2. crossbar'[o] = Remaining(crossbar[o])
    BY <1>2, <2>1 DEF Remaining, Behind
  <2>3. /\ crossbar[o] \in Seq(Crossing) /\ Len(crossbar[o]) <= 2
        /\ Len(crossbar[o]) = 2 => crossbar[o][1].due = 0 /\ crossbar[o][2].due = New
    BY <1>2
  <2> HIDE DEF rest, leaving, left
  <2> QED
    BY <2>1, <2>2, <2>3, Crossings
<1> HIDE DEF leaving, rest, left
<1>4. ASSUME NEW ov \in OutVCs
      PROVE  /\ downHeld'[ov] \in Nat
             /\ downHeld'[ov] + Cardinality(On(crossbar'[ov[1]], ov[2])) = downHeld[ov] + Cardinality(On(crossbar[ov[1]], ov[2]))
             /\ downOpen'[ov] \in Receiving \cup {None}
             /\ ov[1] \in leaving => downOpen'[ov] = After(downOpen[ov], crossbar[ov[1]][1], ov[2])
             /\ ov[1] \notin leaving => downOpen'[ov] = downOpen[ov]
  <2> DEFINE f == Head(crossbar[ov[1]])
             n == Cardinality(On(crossbar[ov[1]], ov[2]))
             m == Cardinality(On(crossbar'[ov[1]], ov[2]))
  <2>1. ov[1] \in Outputs /\ downHeld[ov] \in Nat /\ downOpen[ov] \in Receiving \cup {None}
    BY Ports DEF IInv, TypeOK
  <2>2. /\ downHeld'[ov] = IF gone(ov) THEN downHeld[ov] + 1 ELSE downHeld[ov]
        /\ downOpen'[ov] = IF ~gone(ov) THEN downOpen[ov]
                           ELSE IF f.tail THEN None ELSE [src |-> f.src, n |-> f.n + 1]
    BY <1>1
  <2>3. gone(ov) <=> ov[1] \in leaving /\ f.vc = ov[2]
    OBVIOUS
  <2>4. /\ ov[1] \in leaving => n = (IF f.vc = ov[2] THEN m + 1 ELSE m) /\ f \in Crossing /\ f = crossbar[ov[1]][1]
        /\ ov[1] \notin leaving => n = m
        /\ n \in Nat /\ m \in Nat
    <3>1. crossbar'[ov[1]] \in Seq(Crossing) /\ crossbar[ov[1]] \in Seq(Crossing)
      BY <1>2, <1>3, <2>1
    <3>2. n \in Nat /\ m \in Nat
      BY <3>1, OnFinite
    <3> QED
      BY <1>3, <2>1, <3>2
  <2> HIDE DEF gone, f, n, m
  <2>5. CASE ~gone(ov)
    <3>1. n = m
      BY <2>3, <2>4, <2>5
    <3>2. ov[1] \in leaving => After(downOpen[ov], f, ov[2]) = downOpen[ov]
      BY <2>3, <2>5 DEF After
    <3> QED
      BY <2>1, <2>2, <2>4, <2>5, <3>1, <3>2 DEF n, m
  <2>6. CASE gone(ov)
    <3>1. n = m + 1
      BY <2>3, <2>4, <2>6
    <3>2. downHeld'[ov] = downHeld[ov] + 1
      BY <2>2, <2>6
    <3>3. downHeld'[ov] \in Nat /\ downHeld'[ov] + m = downHeld[ov] + n
      BY <2>1, <2>4, <3>1, <3>2
    <3>4. f.src \in InVCs /\ f.n + 1 \in Nat
      BY <2>3, <2>4, <2>6 DEF Crossing
    <3>5. downOpen'[ov] \in Receiving \cup {None}
      BY <2>2, <2>6, <3>4 DEF Receiving
    <3>6. downOpen'[ov] = After(downOpen[ov], f, ov[2])
      BY <2>2, <2>3, <2>6 DEF After
    <3> QED
      BY <2>3, <2>4, <2>6, <3>3, <3>5, <3>6 DEF n, m
  <2> QED
    BY <2>5, <2>6
<1>5. /\ routeVcs' \in Lists({}) /\ vcAllocVcs' \in Lists(OutVCs) /\ swAllocVcs' \in Lists(Outputs)
      /\ \A iv \in InVCs : /\ routeVcs'[iv] = <<>> <=> routeVcs[iv] = <<>>
                           /\ vcAllocVcs'[iv] = <<>> <=> vcAllocVcs[iv] = <<>>
                           /\ swAllocVcs'[iv] = <<>> <=> swAllocVcs[iv] = <<>>
      /\ AllNew(vcAllocVcs') /\ AllNew(swAllocVcs')
  <2>1. /\ routeVcs \in Lists({}) /\ vcAllocVcs \in Lists(OutVCs) /\ swAllocVcs \in Lists(Outputs)
        /\ AllNew(vcAllocVcs) /\ AllNew(swAllocVcs)
    BY <1>1 DEF IInv, TypeOK, Stamps
  <2>2. Tick(routeVcs) \in Lists({}) /\ \A iv \in InVCs : Tick(routeVcs)[iv] = <<>> <=> routeVcs[iv] = <<>>
    BY <2>1, Ticking
  <2>3. Tick(vcAllocVcs) \in Lists(OutVCs) /\ AllNew(Tick(vcAllocVcs))
        /\ \A iv \in InVCs : Tick(vcAllocVcs)[iv] = <<>> <=> vcAllocVcs[iv] = <<>>
    BY <2>1, Ticking DEF AllNew
  <2>4. Tick(swAllocVcs) \in Lists(Outputs) /\ AllNew(Tick(swAllocVcs))
        /\ \A iv \in InVCs : Tick(swAllocVcs)[iv] = <<>> <=> swAllocVcs[iv] = <<>>
    BY <2>1, Ticking DEF AllNew
  <2> QED
    BY <1>1, <2>2, <2>3, <2>4
<1>6. TypeOK'
  <2>1. crossbar' \in [Outputs -> Seq(Crossing)]
    BY <1>1, <1>3
  <2>2. downHeld' \in [OutVCs -> Nat] /\ downOpen' \in [OutVCs -> Receiving \cup {None}]
    <3>1. downHeld' = [ov \in OutVCs |-> downHeld'[ov]] /\ downOpen' = [ov \in OutVCs |-> downOpen'[ov]]
      BY <1>1
    <3> QED
      BY <1>4, <3>1
  <2>3. upOcc' \in [InVCs -> Int] /\ active' \in BOOLEAN
    BY <1>1 DEF IInv, TypeOK, Stirs
  <2> QED
    BY <1>1, <1>5, <2>1, <2>2, <2>3 DEF IInv, TypeOK, Phases
<1>7. StateFits' /\ InOrder' /\ VcOwners' /\ HeldPairs' /\ HeldSends'
  BY <1>1 DEF IInv, StateFits, FrontFlit, InOrder, UpN, VcOwners, HeldPairs, HeldSends, Holds, CanSend
<1>8. EachListed'
  BY <1>1, <1>5 DEF IInv, EachListed, CanSend, Holds
<1>9. Stamps'
  <2>1. AllNew(swHoldVcs')
    BY <1>1 DEF IInv, Stamps
  <2> QED
    BY <1>1, <1>5, <2>1 DEF Stamps, AllNew
<1>10. VcGrantsFit' /\ HoldGrantsFit' /\ SwGrantsFit'
  BY <1>1 DEF VcGrantsFit, HoldGrantsFit, SwGrantsFit
<1>11. CrossbarFits' /\ AtMostTwo'
  <2>1. \A o \in Outputs : /\ \A k \in 1 .. Len(crossbar'[o]) : crossbar'[o][k].due = 0
                           /\ Len(crossbar'[o]) <= 2 /\ Len(crossbar'[o]) # 2
    <3>1. ASSUME NEW o \in Outputs
          PROVE  Len(crossbar'[o]) <= 2 /\ Len(crossbar'[o]) # 2
      <4>1. PICK n \in Nat : n = Len(crossbar'[o])
        BY <1>3
      <4>2. n <= 1
        BY <1>3, <4>1
      <4>3. n <= 2 /\ n # 2
        BY <4>2
      <4> QED
        BY <4>1, <4>3
    <3> QED
      BY <1>3, <3>1
  <2> QED
    BY <1>1, <2>1 DEF CrossbarFits, AtMostTwo
<1>12. RouterCreditsAccounted'
  <2>1. ASSUME NEW ov \in OutVCs
        PROVE  /\ occ[ov] = downHeld'[ov] + Cardinality(On(crossbar'[ov[1]], ov[2]))
               /\ occ[ov] <= BufSize
    <3>1. occ[ov] = downHeld[ov] + Cardinality(On(crossbar[ov[1]], ov[2])) /\ occ[ov] <= BufSize
      BY DEF IInv, RouterCreditsAccounted, On
    <3> QED
      BY <1>4, <3>1
  <2>2. ASSUME NEW iv \in InVCs
        PROVE  upOcc'[iv] = Len(buf[iv]) + Once(iv \in outCredits')
    <3>1. upOcc[iv] = Len(buf[iv]) + Once(iv \in outCredits) /\ Once(iv \in outCredits') = 0
      BY <1>1 DEF IInv, RouterCreditsAccounted, Once
    <3>2. PICK n \in Nat : n = Len(buf[iv])
      BY DEF IInv, TypeOK
    <3>3. upOcc'[iv] = IF iv \in outCredits THEN upOcc[iv] - 1 ELSE upOcc[iv]
      BY <1>1
    <3>4. CASE iv \in outCredits
      <4>1. upOcc[iv] = n + 1
        BY <3>1, <3>2, <3>4 DEF Once
      <4>2. upOcc'[iv] = n
        BY <3>2, <3>3, <3>4, <4>1
      <4> QED
        BY <3>1, <3>2, <4>2
    <3>5. CASE iv \notin outCredits
      BY <3>1, <3>2, <3>3, <3>5 DEF Once
    <3> QED
      BY <3>4, <3>5
  <2> QED
    BY <1>1, <2>1, <2>2 DEF RouterCreditsAccounted, On
<1>13. SentInOrder'
  <2>1. ASSUME NEW ov \in OutVCs
        PROVE  Expected(ov)' = Expected(ov)
    BY <1>1 DEF Expected, NextN, FrontFlit, UpN
  <2>2. ASSUME NEW ov \in OutVCs
        PROVE  /\ AfterAll(downOpen'[ov], crossbar'[ov[1]], ov[2]) = Expected(ov)
               /\ crossbar'[ov[1]] # <<>> => Meets(downOpen'[ov], crossbar'[ov[1]][1], ov[2])
               /\ Len(crossbar'[ov[1]]) # 2
    <3> DEFINE s == crossbar[ov[1]]
               t == crossbar'[ov[1]]
               v == ov[2]
               open == downOpen[ov]
               then == downOpen'[ov]
    <3>1. /\ AfterAll(open, s, v) = Expected(ov)
          /\ s # <<>> => Meets(open, s[1], v)
          /\ Len(s) = 2 => Meets(After(open, s[1], v), s[2], v)
      BY DEF IInv, SentInOrder
    <3>2. /\ s \in Seq(Crossing) /\ t \in Seq(Crossing) /\ Len(t) <= 1
          /\ ov[1] \in leaving => s # <<>> /\ (t # <<>> => Len(s) = 2 /\ t[1] = Crossed(s[2]))
          /\ ov[1] \notin leaving => Len(s) <= 1 /\ (s # <<>> <=> t # <<>>) /\ (t # <<>> => t[1] = Crossed(s[1]))
          /\ Len(s) = 2 => t # <<>>
      BY <1>2, <1>3, Ports
    <3>3. /\ ov[1] \in leaving => then = After(open, s[1], v)
          /\ ov[1] \notin leaving => then = open
      BY <1>4
    <3>4. Len(s) <= 2
      BY <1>2, Ports
    <3> HIDE DEF s, t, v, open, then
    <3>5. \A x \in Seq(Crossing) : x # <<>> <=> Len(x) # 0
      OBVIOUS
    <3>6. PICK n \in Nat : n = Len(s)
      BY <3>2
    <3>7. PICK m \in Nat : m = Len(t)
      BY <3>2
    <3>8. m <= 1 /\ n <= 2
      BY <3>2, <3>4, <3>6, <3>7
    <3>9. t # <<>> => Len(t) = 1
      <4>1. m # 0 => m = 1
        BY <3>8
      <4> QED
        BY <3>2, <3>5, <3>7, <4>1
    <3>10. Len(t) # 2
      <4>1. m # 2
        BY <3>8
      <4> QED
        BY <3>7, <4>1
    <3>11. t # <<>> => AfterAll(then, t, v) = After(then, t[1], v)
      BY <3>9 DEF AfterAll
    <3>12. t = <<>> => AfterAll(then, t, v) = then
      BY DEF AfterAll
    <3>13. CASE ov[1] \in leaving
      <4>1. CASE t = <<>>
        <5>1. s # <<>> /\ Len(s) # 2
          BY <3>2, <3>13, <4>1
        <5>2. Len(s) = 1
          <6>1. n # 0 /\ n # 2
            BY <3>2, <3>5, <3>6, <5>1
          <6>2. n = 1
            BY <3>8, <6>1
          <6> QED
            BY <3>6, <6>2
        <5>3. AfterAll(open, s, v) = After(open, s[1], v)
          BY <5>1, <5>2 DEF AfterAll
        <5> QED
          BY <3>1, <3>3, <3>10, <3>12, <3>13, <4>1, <5>3 DEF s, t, v, open, then
      <4>2. CASE t # <<>>
        <5>1. s # <<>> /\ Len(s) = 2 /\ t[1] = Crossed(s[2])
          BY <3>2, <3>13, <4>2
        <5>2. s[2] \in Crossing
          <6>1. \A x \in Seq(Crossing) : \A k \in 1 .. Len(x) : x[k] \in Crossing
            OBVIOUS
          <6>2. 2 \in 1 .. Len(s)
            BY <5>1
          <6> QED
            BY <3>2, <6>1, <6>2
        <5>3. AfterAll(open, s, v) = After(After(open, s[1], v), s[2], v)
          BY <5>1 DEF AfterAll
        <5>4. AfterAll(then, t, v) = After(then, s[2], v) /\ (Meets(then, t[1], v) <=> Meets(then, s[2], v))
          BY <3>11, <4>2, <5>1, <5>2, SameFlit
        <5> QED
          BY <3>1, <3>3, <3>10, <3>13, <5>1, <5>3, <5>4 DEF s, t, v, open, then
      <4> QED
        BY <4>1, <4>2
    <3>14. CASE ov[1] \notin leaving
      <4>1. CASE t = <<>>
        <5>1. s = <<>>
          BY <3>2, <3>14, <4>1
        <5>2. AfterAll(open, s, v) = open
          BY <5>1 DEF AfterAll
        <5> QED
          BY <3>1, <3>3, <3>10, <3>12, <3>14, <4>1, <5>2 DEF s, t, v, open, then
      <4>2. CASE t # <<>>
        <5>1. s # <<>> /\ t[1] = Crossed(s[1]) /\ Len(s) <= 1
          BY <3>2, <3>14, <4>2
        <5>2. Len(s) = 1
          <6>1. n # 0 /\ n <= 1
            BY <3>2, <3>5, <3>6, <5>1
          <6>2. n = 1
            BY <6>1
          <6> QED
            BY <3>6, <6>2
        <5>3. s[1] \in Crossing /\ AfterAll(open, s, v) = After(open, s[1], v)
          BY <3>2, <5>1, <5>2 DEF AfterAll
        <5>4. AfterAll(then, t, v) = After(then, s[1], v) /\ (Meets(then, t[1], v) <=> Meets(then, s[1], v))
          BY <3>11, <4>2, <5>1, <5>3, SameFlit
        <5> QED
          BY <3>1, <3>3, <3>10, <3>14, <5>1, <5>3, <5>4 DEF s, t, v, open, then
      <4> QED
        BY <4>1, <4>2
    <3> QED
      BY <3>13, <3>14
  <2> QED
    BY <2>1, <2>2 DEF SentInOrder
<1>14. StaysAwake'
  <2>1. ASSUME ~active'
        PROVE  /\ ~Busy(routeVcs') /\ ~Busy(vcAllocVcs') /\ ~Busy(swHoldVcs') /\ ~Busy(swAllocVcs')
               /\ \A o \in Outputs : crossbar'[o] = <<>>
    <3>1. ~active /\ \A o \in Outputs : crossbar'[o] = <<>>
      BY <1>1, <2>1 DEF Stirs
    <3>2. Quiet
      BY <1>3, <3>1 DEF Quiet
    <3>3. ~Busy(routeVcs) /\ ~Busy(vcAllocVcs) /\ ~Busy(swHoldVcs) /\ ~Busy(swAllocVcs)
      BY <1>1, <3>1, <3>2 DEF IInv, StaysAwake
    <3> QED
      BY <1>1, <1>5, <3>1, <3>3 DEF Busy
  <2> QED
    BY <1>1, <2>1 DEF StaysAwake, Busy
<1> QED
  BY <1>6, <1>7, <1>8, <1>9, <1>10, <1>11, <1>12, <1>13, <1>14 DEF IInv

-----------------------------------------------------------------------------
(* The start of the cycle.                                                 *)

\* The buffer of a VC when a flit has come.
LEMMA LastFlit ==
  ASSUME NEW b \in Seq(Flit), NEW f \in Flit
  PROVE  /\ Append(b, f) \in Seq(Flit) /\ Append(b, f) # <<>>
         /\ Len(Append(b, f)) = Len(b) + 1 /\ Len(b) \in Nat
         /\ Append(b, f)[Len(b) + 1] = f
         /\ \A k \in 1 .. Len(b) : Append(b, f)[k] = b[k]
         /\ Head(Append(b, f)) = IF b = <<>> THEN f ELSE Head(b)
<1>1. Append(b, f) \in Seq(Flit) /\ Append(b, f) # <<>> /\ Len(Append(b, f)) = Len(b) + 1 /\ Len(b) \in Nat
  OBVIOUS
<1>2. Append(b, f)[Len(b) + 1] = f /\ \A k \in 1 .. Len(b) : Append(b, f)[k] = b[k]
  OBVIOUS
<1>3. Head(Append(b, f)) = Append(b, f)[1]
  OBVIOUS
<1>4. CASE b = <<>>
  <2>1. Len(b) = 0
    BY <1>4
  <2>2. Append(b, f)[0 + 1] = f
    BY <1>2, <2>1
  <2> QED
    BY <1>1, <1>2, <1>3, <1>4, <2>2
<1>5. CASE b # <<>>
  <2>1. 1 \in 1 .. Len(b) /\ Head(b) = b[1]
    BY <1>5
  <2>2. Append(b, f)[1] = b[1]
    BY <1>2, <2>1
  <2> QED
    BY <1>1, <1>2, <1>3, <1>5, <2>1, <2>2
<1> QED
  BY <1>4, <1>5

\* The flits of a VC stay in order when the one that the neighbour is at comes.
LEMMA ArriveInOrder ==
  ASSUME NEW b \in Seq(Flit), NEW f \in Flit, NEW n,
         \A k \in 1 .. Len(b) - 1 : Follows(b[k], b[k + 1].n),
         b # <<>> => Follows(b[Len(b)], f.n),
         Follows(f, n)
  PROVE  /\ \A k \in 1 .. Len(Append(b, f)) - 1 : Follows(Append(b, f)[k], Append(b, f)[k + 1].n)
         /\ Follows(Append(b, f)[Len(Append(b, f))], n)
<1> DEFINE t == Append(b, f)
<1>1. /\ Len(t) = Len(b) + 1 /\ Len(b) \in Nat /\ t[Len(b) + 1] = f
      /\ \A k \in 1 .. Len(b) : t[k] = b[k]
  BY LastFlit
<1> HIDE DEF t
<1>2. ASSUME NEW k \in 1 .. Len(t) - 1
      PROVE  Follows(t[k], t[k + 1].n)
  <2>1. k \in 1 .. Len(b) /\ k \in Nat
    BY <1>1
  <2>2. CASE k = Len(b)
    <3>1. t[k] = b[Len(b)] /\ t[k + 1] = f /\ b # <<>>
      BY <1>1, <2>1, <2>2
    <3> QED
      BY <3>1
  <2>3. CASE k # Len(b)
    <3>1. k \in 1 .. Len(b) - 1 /\ k + 1 \in 1 .. Len(b)
      BY <1>1, <2>1, <2>3
    <3>2. t[k] = b[k] /\ t[k + 1] = b[k + 1]
      BY <1>1, <2>1, <3>1
    <3> QED
      BY <3>1, <3>2
  <2> QED
    BY <2>2, <2>3
<1>3. Follows(t[Len(t)], n)
  BY <1>1
<1> QED
  BY <1>2, <1>3 DEF t

\* _InputQueuing takes a flit for each input and credits for output VCs.
LEMMA InputQueuingStep ==
  ASSUME UnitDelays, IInv, NEW F \in [Inputs -> Arrivals \cup {None}], NEW C \in SUBSET Credited,
         InputQueuing(F, C)
  PROVE  IInv'
<1> DEFINE got == {i \in Inputs : F[i] # None}
           at == {<<i, F[i].vc>> : i \in got}
           flit == [iv \in at |-> FlitOf(iv[1], F[iv[1]])]
           packets == {iv \in at : state[iv] = "idle"}
           fronts == {iv \in at : state[iv] = "active" /\ buf[iv] = <<>>}
           held == {iv \in fronts : holdVc[iv[1]] = iv[2]}
           bids == (IF BidsEarly THEN packets ELSE {}) \cup (fronts \ held)
<1>1. /\ phase = "queue" /\ phase' = "vcalloc" /\ active' = FALSE
      /\ buf' = [iv \in InVCs |-> IF iv \in at THEN Append(buf[iv], flit[iv]) ELSE buf[iv]]
      /\ upOcc' = [iv \in InVCs |-> IF iv \in at THEN upOcc[iv] + 1 ELSE upOcc[iv]]
      /\ upOpen' = [iv \in InVCs |->
                      IF iv \notin at THEN upOpen[iv]
                      ELSE IF flit[iv].tail THEN None
                      ELSE [n |-> flit[iv].n + 1, out |-> flit[iv].out]]
      /\ state' = [iv \in InVCs |-> IF iv \in packets THEN StateOfNext ELSE state[iv]]
      /\ routeVcs' = Enlisted(routeVcs, RoutesOf(packets))
      /\ vcAllocVcs' = Enlisted(vcAllocVcs, VcAllocsOf(packets))
      /\ swHoldVcs' = Enlisted(swHoldVcs, held)
      /\ swAllocVcs' = Enlisted(swAllocVcs, bids)
      /\ occ' = [ov \in OutVCs |-> IF ov \in C THEN occ[ov] - 1 ELSE occ[ov]]
      /\ downHeld' = [ov \in OutVCs |-> IF ov \in C THEN downHeld[ov] - 1 ELSE downHeld[ov]]
      /\ cfg' = cfg /\ outOf' = outOf /\ inUse' = inUse /\ crossbar' = crossbar
      /\ outCredits' = outCredits /\ downOpen' = downOpen
      /\ holdVc' = holdVc /\ holdIn' = holdIn /\ holdOut' = holdOut
  BY DEF InputQueuing, holdVars
\* The flit that comes is the one that the neighbour is at.
<1>2. ASSUME NEW iv \in at
      PROVE  /\ iv \in InVCs /\ flit[iv] \in Flit
             /\ flit[iv].n = UpN(iv)
  <2>1. PICK i \in got : iv = <<i, F[i].vc>>
    OBVIOUS
  <2>2. i \in Inputs /\ F[i] \in Arrivals /\ iv[1] = i
    BY <2>1
  <2>3. F[i].vc \in VCs /\ F[i].last \in BOOLEAN /\ F[i].out \in Outputs
    BY <2>2 DEF Arrivals
  <2>4. iv \in InVCs
    BY <2>1, <2>2, <2>3, Ports
  <2>5. flit[iv] = FlitOf(i, F[i])
    BY <2>2
  <2> HIDE DEF flit, at, got
  <2>6. flit[iv] = IF upOpen[iv] = None
                   THEN [n |-> 0, tail |-> F[i].last, out |-> F[i].out]
                   ELSE [n |-> upOpen[iv].n, tail |-> F[i].last, out |-> upOpen[iv].out]
    BY <2>1, <2>5 DEF FlitOf
  <2>7. upOpen[iv] # None => upOpen[iv].n \in Nat /\ upOpen[iv].out \in Outputs
    BY <2>4 DEF IInv, TypeOK, Sending
  <2>8. CASE upOpen[iv] = None
    BY <2>3, <2>4, <2>6, <2>8 DEF Flit, UpN
  <2>9. CASE upOpen[iv] # None
    BY <2>3, <2>4, <2>6, <2>7, <2>9 DEF Flit, UpN
  <2> QED
    BY <2>8, <2>9
<1>3. /\ \A iv \in packets : iv \in at /\ state[iv] = "idle"
      /\ \A iv \in fronts : iv \in at /\ state[iv] = "active" /\ buf[iv] = <<>>
      /\ \A iv \in at : /\ state[iv] = "idle" => iv \in packets
                        /\ state[iv] = "active" /\ buf[iv] = <<>> => iv \in fronts
      /\ \A iv \in InVCs : /\ iv \in held <=> iv \in fronts /\ Holds(iv)
                           /\ iv \in bids <=> (iv \in packets /\ BidsEarly) \/ (iv \in fronts /\ ~Holds(iv))
      /\ \A iv \in held : iv \in fronts
      /\ \A iv \in bids : iv \in packets \/ iv \in fronts
  BY DEF Holds
<1>4. cfg.routingDelay \in Nat /\ StateOfNext = IF cfg.routingDelay = 0 THEN "vc_alloc" ELSE "routing"
  BY Built DEF IInv, StateOfNext
<1>5. \A iv \in InVCs : /\ iv \in RoutesOf(packets) <=> iv \in packets /\ cfg.routingDelay # 0
                        /\ iv \in VcAllocsOf(packets) <=> iv \in packets /\ cfg.routingDelay = 0 /\ ~cfg.piggyback
  BY <1>4 DEF RoutesOf, VcAllocsOf
<1>6. (\A iv \in RoutesOf(packets) : iv \in packets) /\ (\A iv \in VcAllocsOf(packets) : iv \in packets)
  BY DEF RoutesOf, VcAllocsOf
<1> HIDE DEF got, at, flit, packets, fronts, held, bids
<1>7. ASSUME NEW iv \in InVCs
      PROVE  /\ iv \in at => /\ buf[iv] \in Seq(Flit)
                             /\ buf'[iv] = Append(buf[iv], flit[iv]) /\ upOcc'[iv] = upOcc[iv] + 1
                             /\ Follows(flit[iv], UpN(iv)')
                             /\ upOpen'[iv] # None => upOpen'[iv].n > 0
                             /\ upOpen'[iv] \in Sending \cup {None}
             /\ iv \notin at => /\ buf'[iv] = buf[iv] /\ upOcc'[iv] = upOcc[iv] /\ upOpen'[iv] = upOpen[iv]
                                /\ UpN(iv)' = UpN(iv)
             /\ state'[iv] = IF iv \in packets THEN StateOfNext ELSE state[iv]
  <2>1. CASE iv \in at
    <3>1. flit[iv].n \in Nat /\ flit[iv].tail \in BOOLEAN /\ flit[iv].out \in Outputs
      BY <1>2, <2>1 DEF Flit
    <3>2. upOpen'[iv] = IF flit[iv].tail THEN None ELSE [n |-> flit[iv].n + 1, out |-> flit[iv].out]
      BY <1>1, <2>1
    <3>3. buf[iv] \in Seq(Flit)
      BY DEF IInv, TypeOK
    <3>4. CASE flit[iv].tail
      <4>1. upOpen'[iv] = None
        BY <3>2, <3>4
      <4> QED
        BY <1>1, <2>1, <3>3, <3>4, <4>1 DEF Follows, UpN
    <3>5. CASE ~flit[iv].tail
      <4> DEFINE open == [n |-> flit[iv].n + 1, out |-> flit[iv].out]
      <4>1. upOpen'[iv] = open /\ open \in Sending /\ open.n = flit[iv].n + 1 /\ open.n > 0
        BY <3>1, <3>2, <3>5 DEF Sending
      <4> HIDE DEF open
      <4>2. upOpen'[iv] # None
        BY <4>1, NoneIsNothing
      <4>3. UpN(iv)' = flit[iv].n + 1
        BY <4>1, <4>2 DEF UpN
      <4> QED
        BY <1>1, <2>1, <3>3, <3>5, <4>1, <4>3 DEF Follows
    <3> QED
      BY <3>4, <3>5
  <2>2. CASE iv \notin at
    BY <1>1, <2>2 DEF UpN
  <2> QED
    BY <1>1, <2>1, <2>2
\* What a VC sends next is what it would have sent.
<1>8. ASSUME NEW iv \in InVCs
      PROVE  /\ buf'[iv] \in Seq(Flit)
             /\ NextN(iv)' = NextN(iv)
             /\ buf'[iv] # <<>> <=> buf[iv] # <<>> \/ iv \in at
             /\ buf[iv] # <<>> => FrontFlit(iv)' = FrontFlit(iv)
             /\ buf[iv] = <<>> /\ iv \in at => Head(buf'[iv]).n = UpN(iv)
  <2>1. CASE iv \in at
    <3>1. buf[iv] \in Seq(Flit) /\ flit[iv] \in Flit /\ flit[iv].n = UpN(iv) /\ buf'[iv] = Append(buf[iv], flit[iv])
      BY <1>2, <1>7, <2>1
    <3>2. /\ buf'[iv] \in Seq(Flit) /\ buf'[iv] # <<>>
          /\ Head(buf'[iv]) = IF buf[iv] = <<>> THEN flit[iv] ELSE Head(buf[iv])
      BY <3>1, LastFlit
    <3> QED
      BY <2>1, <3>1, <3>2 DEF NextN, FrontFlit
  <2>2. CASE iv \notin at
    BY <1>7, <2>2 DEF IInv, TypeOK, NextN, FrontFlit
  <2> QED
    BY <2>1, <2>2
<1>9. InOrder'
  <2>1. ASSUME NEW iv \in InVCs
        PROVE  /\ \A k \in 1 .. Len(buf'[iv]) - 1 : Follows(buf'[iv][k], buf'[iv][k + 1].n)
               /\ buf'[iv] # <<>> => Follows(buf'[iv][Len(buf'[iv])], UpN(iv)')
               /\ upOpen'[iv] # None => upOpen'[iv].n > 0
    <3>1. /\ \A k \in 1 .. Len(buf[iv]) - 1 : Follows(buf[iv][k], buf[iv][k + 1].n)
          /\ buf[iv] # <<>> => Follows(buf[iv][Len(buf[iv])], UpN(iv))
          /\ upOpen[iv] # None => upOpen[iv].n > 0
      BY DEF IInv, InOrder
    <3>2. CASE iv \in at
      <4> DEFINE b == buf[iv]
                 f == flit[iv]
                 n == UpN(iv)'
      <4>1. /\ b \in Seq(Flit) /\ f \in Flit /\ f.n = UpN(iv) /\ Follows(f, n)
            /\ buf'[iv] = Append(b, f)
        BY <1>2, <1>7, <3>2
      <4> HIDE DEF b, f, n
      <4>2. /\ \A k \in 1 .. Len(b) - 1 : Follows(b[k], b[k + 1].n)
            /\ b # <<>> => Follows(b[Len(b)], f.n)
        BY <3>1, <4>1 DEF b
      <4>3. /\ \A k \in 1 .. Len(Append(b, f)) - 1 : Follows(Append(b, f)[k], Append(b, f)[k + 1].n)
            /\ Follows(Append(b, f)[Len(Append(b, f))], n)
        BY <4>1, <4>2, ArriveInOrder
      <4> QED
        BY <1>7, <3>2, <4>1, <4>3 DEF n
    <3>3. CASE iv \notin at
      BY <1>7, <3>1, <3>3
    <3> QED
      BY <3>2, <3>3
  <2> QED
    BY <2>1 DEF InOrder, Follows
<1>10. /\ \A iv \in packets : /\ iv \in InVCs /\ iv \in at /\ state[iv] = "idle" /\ buf[iv] = <<>>
                              /\ UpN(iv) = 0 /\ outOf[iv] = None
                              /\ routeVcs[iv] = <<>> /\ vcAllocVcs[iv] = <<>>
                              /\ swHoldVcs[iv] = <<>> /\ swAllocVcs[iv] = <<>>
       /\ \A iv \in fronts : /\ iv \in InVCs /\ iv \in at /\ state[iv] = "active" /\ buf[iv] = <<>>
                             /\ routeVcs[iv] = <<>> /\ vcAllocVcs[iv] = <<>>
                             /\ swHoldVcs[iv] = <<>> /\ swAllocVcs[iv] = <<>>
  <2>1. ASSUME NEW iv \in packets
        PROVE  /\ iv \in InVCs /\ iv \in at /\ state[iv] = "idle" /\ buf[iv] = <<>>
               /\ UpN(iv) = 0 /\ outOf[iv] = None
               /\ routeVcs[iv] = <<>> /\ vcAllocVcs[iv] = <<>>
               /\ swHoldVcs[iv] = <<>> /\ swAllocVcs[iv] = <<>>
    <3>1. iv \in InVCs /\ iv \in at /\ state[iv] = "idle"
      BY <1>2, <1>3
    <3> QED
      BY <3>1 DEF IInv, StateFits, EachListed, CanSend, UpN
  <2>2. ASSUME NEW iv \in fronts
        PROVE  /\ iv \in InVCs /\ iv \in at /\ state[iv] = "active" /\ buf[iv] = <<>>
               /\ routeVcs[iv] = <<>> /\ vcAllocVcs[iv] = <<>>
               /\ swHoldVcs[iv] = <<>> /\ swAllocVcs[iv] = <<>>
    <3>1. iv \in InVCs /\ iv \in at /\ state[iv] = "active" /\ buf[iv] = <<>>
      BY <1>2, <1>3
    <3> QED
      BY <3>1 DEF IInv, EachListed, CanSend
  <2> QED
    BY <2>1, <2>2
<1>11. /\ routeVcs' \in Lists({})
       /\ \A iv \in InVCs : routeVcs'[iv] = <<>> <=> routeVcs[iv] = <<>> /\ iv \notin RoutesOf(packets)
  <2>1. routeVcs \in Lists({}) /\ \A iv \in RoutesOf(packets) : routeVcs[iv] = <<>>
    BY <1>6, <1>10 DEF IInv, TypeOK
  <2>2. /\ Enlisted(routeVcs, RoutesOf(packets)) \in Lists({})
        /\ \A iv \in InVCs : Enlisted(routeVcs, RoutesOf(packets))[iv] = <<>>
                               <=> routeVcs[iv] = <<>> /\ iv \notin RoutesOf(packets)
    BY <2>1, Joining
  <2> QED
    BY <1>1, <2>2
<1>12. /\ vcAllocVcs' \in Lists(OutVCs) /\ AllNew(vcAllocVcs')
       /\ \A iv \in InVCs : vcAllocVcs'[iv] = <<>> <=> vcAllocVcs[iv] = <<>> /\ iv \notin VcAllocsOf(packets)
  <2> DEFINE joined == Enlisted(vcAllocVcs, VcAllocsOf(packets))
  <2>1. vcAllocVcs \in Lists(OutVCs) /\ AllNew(vcAllocVcs) /\ \A iv \in VcAllocsOf(packets) : vcAllocVcs[iv] = <<>>
    BY <1>1, <1>6, <1>10 DEF IInv, TypeOK, Stamps
  <2>2. /\ joined \in Lists(OutVCs)
        /\ \A iv \in InVCs : /\ joined[iv] = <<>> <=> vcAllocVcs[iv] = <<>> /\ iv \notin VcAllocsOf(packets)
                             /\ iv \in VcAllocsOf(packets) => Head(joined[iv]) = NewEntry
                             /\ iv \notin VcAllocsOf(packets) => joined[iv] = vcAllocVcs[iv]
    BY <2>1, Joining
  <2>3. vcAllocVcs' = joined
    BY <1>1
  <2> HIDE DEF joined
  <2> QED
    BY <2>1, <2>2, <2>3 DEF AllNew
<1>13. /\ swHoldVcs' \in Lists(Outputs) /\ AllNew(swHoldVcs')
       /\ \A iv \in InVCs : swHoldVcs'[iv] = <<>> <=> swHoldVcs[iv] = <<>> /\ iv \notin held
  <2> DEFINE joined == Enlisted(swHoldVcs, held)
  <2>1. swHoldVcs \in Lists(Outputs) /\ AllNew(swHoldVcs) /\ \A iv \in held : swHoldVcs[iv] = <<>>
    BY <1>1, <1>3, <1>10 DEF IInv, TypeOK, Stamps
  <2>2. /\ joined \in Lists(Outputs)
        /\ \A iv \in InVCs : /\ joined[iv] = <<>> <=> swHoldVcs[iv] = <<>> /\ iv \notin held
                             /\ iv \in held => Head(joined[iv]) = NewEntry
                             /\ iv \notin held => joined[iv] = swHoldVcs[iv]
    BY <2>1, Joining
  <2>3. swHoldVcs' = joined
    BY <1>1
  <2> HIDE DEF joined
  <2> QED
    BY <2>1, <2>2, <2>3 DEF AllNew
<1>14. /\ swAllocVcs' \in Lists(Outputs) /\ AllNew(swAllocVcs')
       /\ \A iv \in InVCs : swAllocVcs'[iv] = <<>> <=> swAllocVcs[iv] = <<>> /\ iv \notin bids
  <2> DEFINE joined == Enlisted(swAllocVcs, bids)
  <2>1. swAllocVcs \in Lists(Outputs) /\ AllNew(swAllocVcs) /\ \A iv \in bids : swAllocVcs[iv] = <<>>
    BY <1>1, <1>3, <1>10 DEF IInv, TypeOK, Stamps
  <2>2. /\ joined \in Lists(Outputs)
        /\ \A iv \in InVCs : /\ joined[iv] = <<>> <=> swAllocVcs[iv] = <<>> /\ iv \notin bids
                             /\ iv \in bids => Head(joined[iv]) = NewEntry
                             /\ iv \notin bids => joined[iv] = swAllocVcs[iv]
    BY <2>1, Joining
  <2>3. swAllocVcs' = joined
    BY <1>1
  <2> HIDE DEF joined
  <2> QED
    BY <2>1, <2>2, <2>3 DEF AllNew
<1>15. StateOfNext \in {"routing", "vc_alloc"}
  BY DEF StateOfNext
<1>16. StateFits'
  <2>1. ASSUME NEW iv \in InVCs
        PROVE  /\ state'[iv] = "idle" => buf'[iv] = <<>> /\ upOpen'[iv] = None
               /\ state'[iv] \in {"routing", "vc_alloc"} => buf'[iv] # <<>> /\ Head(buf'[iv]).n = 0
               /\ state'[iv] = "active" /\ buf'[iv] = <<>> => upOpen'[iv] # None
               /\ outOf[iv] # None <=> state'[iv] = "active"
    <3>1. /\ state[iv] = "idle" => buf[iv] = <<>> /\ upOpen[iv] = None
          /\ state[iv] \in {"routing", "vc_alloc"} => buf[iv] # <<>> /\ Head(buf[iv]).n = 0
          /\ state[iv] = "active" /\ buf[iv] = <<>> => upOpen[iv] # None
          /\ outOf[iv] # None <=> state[iv] = "active"
      BY DEF IInv, StateFits, FrontFlit
    <3>2. CASE iv \in packets
      <4>1. state'[iv] \in {"routing", "vc_alloc"}
        BY <1>7, <1>15, <3>2
      <4>2. buf'[iv] # <<>> /\ Head(buf'[iv]).n = 0
        BY <1>8, <1>10, <3>2
      <4> QED
        BY <1>10, <3>2, <4>1, <4>2
    <3>3. CASE iv \notin packets
      <4>1. state'[iv] = state[iv]
        BY <1>7, <3>3
      <4>2. state[iv] = "idle" => iv \notin at
        BY <1>3, <3>3
      <4>3. buf[iv] # <<>> => Head(buf'[iv]) = Head(buf[iv]) /\ buf'[iv] # <<>>
        BY <1>8 DEF FrontFlit
      <4>4. iv \notin at => buf'[iv] = buf[iv] /\ upOpen'[iv] = upOpen[iv]
        BY <1>7
      <4>5. buf'[iv] = <<>> => iv \notin at
        BY <1>8
      <4> QED
        BY <3>1, <4>1, <4>2, <4>3, <4>4, <4>5
    <3> QED
      BY <3>2, <3>3
  <2> QED
    BY <1>1, <2>1 DEF StateFits, FrontFlit
<1>17. \A iv \in InVCs : /\ state'[iv] = "active" <=> state[iv] = "active"
                         /\ CanSend(iv)' <=> CanSend(iv) \/ iv \in fronts
  <2> SUFFICES ASSUME NEW iv \in InVCs
               PROVE  /\ state'[iv] = "active" <=> state[iv] = "active"
                      /\ CanSend(iv)' <=> CanSend(iv) \/ iv \in fronts
    OBVIOUS
  <2>1. state'[iv] = "active" <=> state[iv] = "active"
    BY <1>3, <1>7, <1>15
  <2> QED
    BY <1>3, <1>8, <2>1 DEF CanSend
<1>18. EachListed'
  <2>1. ASSUME NEW iv \in InVCs
        PROVE  /\ routeVcs'[iv] # <<>> <=> state'[iv] = "routing"
               /\ vcAllocVcs'[iv] # <<>> <=> state'[iv] = "vc_alloc" /\ ~cfg.piggyback
               /\ swHoldVcs'[iv] # <<>> <=> CanSend(iv)' /\ Holds(iv)
               /\ swAllocVcs'[iv] # <<>> <=>
                    (state'[iv] = "vc_alloc" /\ cfg.speculative) \/ (CanSend(iv)' /\ ~Holds(iv))
    <3>1. /\ routeVcs[iv] # <<>> <=> state[iv] = "routing"
          /\ vcAllocVcs[iv] # <<>> <=> state[iv] = "vc_alloc" /\ ~cfg.piggyback
          /\ swHoldVcs[iv] # <<>> <=> CanSend(iv) /\ Holds(iv)
          /\ swAllocVcs[iv] # <<>> <=>
               (state[iv] = "vc_alloc" /\ cfg.speculative) \/ (CanSend(iv) /\ ~Holds(iv))
      BY DEF IInv, EachListed
    <3>2. CASE iv \in packets
      <4>1. iv \notin fronts /\ ~CanSend(iv)
        BY <1>3, <3>2 DEF CanSend
      <4>2. state'[iv] = StateOfNext /\ ~CanSend(iv)'
        BY <1>7, <1>17, <3>2, <4>1
      <4> QED
        BY <1>3, <1>4, <1>5, <1>10, <1>11, <1>12, <1>13, <1>14, <3>2, <4>1, <4>2 DEF BidsEarly
    <3>3. CASE iv \notin packets
      <4>1. state'[iv] = state[iv]
        BY <1>7, <3>3
      <4>2. /\ routeVcs'[iv] = <<>> <=> routeVcs[iv] = <<>>
            /\ vcAllocVcs'[iv] = <<>> <=> vcAllocVcs[iv] = <<>>
        BY <1>5, <1>11, <1>12, <3>3
      <4> QED
        BY <1>3, <1>13, <1>14, <1>17, <3>1, <3>3, <4>1, <4>2
    <3> QED
      BY <3>2, <3>3
  <2> QED
    BY <1>1, <2>1 DEF EachListed, Holds
<1>19. \A ov \in C : ov \in OutVCs /\ downHeld[ov] > 0
  BY DEF Credited
<1>20. TypeOK'
  <2>1. buf' \in [InVCs -> Seq(Flit)]
    <3>1. buf' = [iv \in InVCs |-> buf'[iv]]
      BY <1>1
    <3> QED
      BY <1>8, <3>1
  <2>2. state' \in [InVCs -> States]
    <3>1. state' = [iv \in InVCs |-> state'[iv]]
      BY <1>1
    <3>2. \A iv \in InVCs : state'[iv] \in States
      BY <1>7, <1>15 DEF IInv, TypeOK, States
    <3> QED
      BY <3>1, <3>2
  <2>3. upOpen' \in [InVCs -> Sending \cup {None}]
    <3>1. upOpen' = [iv \in InVCs |-> upOpen'[iv]]
      BY <1>1
    <3>2. \A iv \in InVCs : upOpen'[iv] \in Sending \cup {None}
      BY <1>7 DEF IInv, TypeOK
    <3> QED
      BY <3>1, <3>2
  <2>4. upOcc' \in [InVCs -> Int] /\ occ' \in [OutVCs -> Int]
    BY <1>1 DEF IInv, TypeOK
  <2>5. downHeld' \in [OutVCs -> Nat]
    <3>1. downHeld \in [OutVCs -> Nat]
      BY DEF IInv, TypeOK
    <3> QED
      BY <1>1, <1>19, <3>1
  <2>6. /\ cfg \in Configs /\ outOf \in [InVCs -> OutVCs \cup {None}]
        /\ holdVc \in [Inputs -> VCs \cup {None}] /\ holdIn \in [Inputs -> Outputs \cup {None}]
        /\ holdOut \in [Outputs -> Inputs \cup {None}]
        /\ inUse \in [OutVCs -> InVCs \cup {None}]
        /\ crossbar \in [Outputs -> Seq(Crossing)] /\ outCredits \in SUBSET InVCs
        /\ downOpen \in [OutVCs -> Receiving \cup {None}]
    BY DEF IInv, TypeOK
  <2> QED
    BY <1>1, <1>11, <1>12, <1>13, <1>14, <2>1, <2>2, <2>3, <2>4, <2>5, <2>6 DEF TypeOK, Phases
<1>21. Stamps'
  BY <1>1, <1>12, <1>13, <1>14 DEF Stamps, AllNew
<1>22. VcGrantsFit' /\ HoldGrantsFit' /\ SwGrantsFit' /\ StaysAwake'
  BY <1>1 DEF VcGrantsFit, HoldGrantsFit, SwGrantsFit, StaysAwake
<1>23. CrossbarFits' /\ AtMostTwo' /\ VcOwners' /\ HeldPairs'
  BY <1>1, <1>17 DEF IInv, CrossbarFits, AtMostTwo, VcOwners, HeldPairs
<1>24. HeldSends'
  BY <1>1, <1>17 DEF IInv, HeldSends, Holds
<1>25. RouterCreditsAccounted'
  <2>1. ASSUME NEW ov \in OutVCs
        PROVE  /\ occ'[ov] = downHeld'[ov] + Cardinality(On(crossbar[ov[1]], ov[2]))
               /\ occ'[ov] <= BufSize
    <3> DEFINE n == Cardinality(On(crossbar[ov[1]], ov[2]))
    <3>1. occ[ov] = downHeld[ov] + n /\ occ[ov] <= BufSize
      BY DEF IInv, RouterCreditsAccounted, On
    <3>2. n \in Nat /\ downHeld[ov] \in Nat
      <4>1. crossbar[ov[1]] \in Seq(Crossing)
        BY Ports DEF IInv, TypeOK
      <4> QED
        BY <4>1, OnFinite DEF IInv, TypeOK
    <3>3. /\ occ'[ov] = IF ov \in C THEN occ[ov] - 1 ELSE occ[ov]
          /\ downHeld'[ov] = IF ov \in C THEN downHeld[ov] - 1 ELSE downHeld[ov]
      BY <1>1
    <3> HIDE DEF n
    <3>4. occ'[ov] = downHeld'[ov] + n /\ occ'[ov] <= BufSize
      BY <3>1, <3>2, <3>3, RouterAssumption
    <3> QED
      BY <3>4 DEF n
  <2>2. ASSUME NEW iv \in InVCs
        PROVE  upOcc'[iv] = Len(buf'[iv]) + Once(iv \in outCredits)
    <3>1. upOcc[iv] = Len(buf[iv]) + Once(iv \in outCredits) /\ buf[iv] \in Seq(Flit)
      BY DEF IInv, RouterCreditsAccounted, TypeOK
    <3>2. Once(iv \in outCredits) \in Nat
      BY DEF Once
    <3>3. CASE iv \in at
      <4>1. Len(buf'[iv]) = Len(buf[iv]) + 1 /\ Len(buf[iv]) \in Nat
        BY <1>2, <1>7, <3>1, <3>3, LastFlit
      <4>2. upOcc'[iv] = upOcc[iv] + 1
        BY <1>7, <3>3
      <4> QED
        BY <3>1, <3>2, <4>1, <4>2
    <3>4. CASE iv \notin at
      BY <1>7, <3>1, <3>4
    <3> QED
      BY <3>3, <3>4
  <2> QED
    BY <1>1, <2>1, <2>2 DEF RouterCreditsAccounted, On
<1>26. SentInOrder'
  <2>1. ASSUME NEW ov \in OutVCs
        PROVE  Expected(ov)' = Expected(ov)
    <3>1. inUse'[ov] = inUse[ov] /\ inUse[ov] \in InVCs \cup {None}
      BY <1>1 DEF IInv, TypeOK
    <3>2. CASE inUse[ov] = None
      BY <3>1, <3>2 DEF Expected
    <3>3. ASSUME NEW u \in InVCs, inUse[ov] = u
          PROVE  Expected(ov)' = Expected(ov)
      <4>1. NextN(u)' = NextN(u)
        BY <1>8
      <4> QED
        BY <3>1, <3>3, <4>1 DEF Expected
    <3> QED
      BY <3>1, <3>2, <3>3
  <2> QED
    BY <1>1, <2>1 DEF IInv, SentInOrder
<1> QED
  BY <1>9, <1>16, <1>18, <1>20, <1>21, <1>22, <1>23, <1>24, <1>25, <1>26 DEF IInv

-----------------------------------------------------------------------------
(* The theorems.                                                           *)

\* The router is built idle.
LEMMA Initially ==
  ASSUME Init
  PROVE  IInv
<1>1. /\ cfg \in Configs /\ active = FALSE /\ phase = "queue"
      /\ buf = [iv \in InVCs |-> <<>>] /\ state = [iv \in InVCs |-> "idle"]
      /\ outOf = [iv \in InVCs |-> None]
      /\ routeVcs = [iv \in InVCs |-> <<>>] /\ vcAllocVcs = [iv \in InVCs |-> <<>>]
      /\ swHoldVcs = [iv \in InVCs |-> <<>>] /\ swAllocVcs = [iv \in InVCs |-> <<>>]
      /\ holdVc = [i \in Inputs |-> None] /\ holdIn = [i \in Inputs |-> None]
      /\ holdOut = [o \in Outputs |-> None]
      /\ inUse = [ov \in OutVCs |-> None] /\ occ = [ov \in OutVCs |-> 0]
      /\ crossbar = [o \in Outputs |-> <<>>] /\ outCredits = {}
      /\ upOpen = [iv \in InVCs |-> None] /\ upOcc = [iv \in InVCs |-> 0]
      /\ downOpen = [ov \in OutVCs |-> None] /\ downHeld = [ov \in OutVCs |-> 0]
  BY DEF Init, NoEntries
<1>2. TypeOK
  <2>1. \A T : [iv \in InVCs |-> <<>>] \in Lists(T)
    BY DEF Lists
  <2>2. /\ <<>> \in Seq(Flit) /\ <<>> \in Seq(Crossing)
        /\ "idle" \in States /\ "queue" \in Phases
    BY DEF States, Phases
  <2>3. buf \in [InVCs -> Seq(Flit)] /\ crossbar \in [Outputs -> Seq(Crossing)]
    BY <1>1, <2>2
  <2>4. /\ routeVcs \in Lists({}) /\ vcAllocVcs \in Lists(OutVCs)
        /\ swHoldVcs \in Lists(Outputs) /\ swAllocVcs \in Lists(Outputs)
    BY <1>1, <2>1
  <2>5. /\ cfg \in Configs /\ active \in BOOLEAN /\ phase \in Phases
        /\ state \in [InVCs -> States] /\ outOf \in [InVCs -> OutVCs \cup {None}]
    BY <1>1, <2>2
  <2>6. /\ holdVc \in [Inputs -> VCs \cup {None}] /\ holdIn \in [Inputs -> Outputs \cup {None}]
        /\ holdOut \in [Outputs -> Inputs \cup {None}]
    BY <1>1
  <2>7. /\ inUse \in [OutVCs -> InVCs \cup {None}] /\ occ \in [OutVCs -> Int]
        /\ outCredits \in SUBSET InVCs
    BY <1>1
  <2>8. /\ upOpen \in [InVCs -> Sending \cup {None}] /\ upOcc \in [InVCs -> Int]
        /\ downOpen \in [OutVCs -> Receiving \cup {None}] /\ downHeld \in [OutVCs -> Nat]
    BY <1>1
  <2> QED
    BY <2>3, <2>4, <2>5, <2>6, <2>7, <2>8 DEF TypeOK
<1>3. StateFits /\ EachListed
  BY <1>1 DEF StateFits, EachListed, CanSend
<1>4. Stamps
  BY <1>1 DEF Stamps, AllNew
<1>5. VcGrantsFit /\ HoldGrantsFit /\ SwGrantsFit
  BY <1>1 DEF VcGrantsFit, HoldGrantsFit, SwGrantsFit
<1>6. CrossbarFits /\ AtMostTwo
  BY <1>1 DEF CrossbarFits, AtMostTwo
<1>7. RouterCreditsAccounted
  <2>1. ASSUME NEW ov \in OutVCs
        PROVE  Cardinality({k \in DOMAIN crossbar[ov[1]] : crossbar[ov[1]][k].vc = ov[2]}) = 0
    <3>1. {k \in DOMAIN crossbar[ov[1]] : crossbar[ov[1]][k].vc = ov[2]} = {}
      BY <1>1, Ports
    <3> QED
      BY <3>1, FS_EmptySet
  <2>2. \A iv \in InVCs : upOcc[iv] = 0 /\ Len(buf[iv]) = 0 /\ Once(iv \in outCredits) = 0
    BY <1>1 DEF Once
  <2>3. \A ov \in OutVCs : occ[ov] = 0 /\ downHeld[ov] = 0
    BY <1>1
  <2> QED
    BY <2>1, <2>2, <2>3, RouterAssumption DEF RouterCreditsAccounted
<1>8. VcOwners /\ HeldPairs /\ HeldSends
  BY <1>1, NoneIsNothing, Ports DEF VcOwners, HeldPairs, HeldSends, Holds
<1>9. InOrder
  BY <1>1 DEF InOrder
<1>10. SentInOrder
  BY <1>1, Ports DEF SentInOrder, AfterAll, Expected
<1>11. StaysAwake
  BY <1>1 DEF StaysAwake, Busy
<1> QED
  BY <1>2, <1>3, <1>4, <1>5, <1>6, <1>7, <1>8, <1>9, <1>10, <1>11 DEF IInv

\* A step that leaves every variable as it is keeps the invariant.
LEMMA Stuttering ==
  ASSUME IInv, UNCHANGED vars
  PROVE  IInv'
<1>1. /\ phase' = phase /\ cfg' = cfg /\ active' = active /\ buf' = buf /\ state' = state /\ outOf' = outOf
      /\ inUse' = inUse /\ occ' = occ /\ crossbar' = crossbar /\ outCredits' = outCredits
      /\ routeVcs' = routeVcs /\ vcAllocVcs' = vcAllocVcs /\ swHoldVcs' = swHoldVcs
      /\ swAllocVcs' = swAllocVcs
      /\ holdVc' = holdVc /\ holdIn' = holdIn /\ holdOut' = holdOut
      /\ upOpen' = upOpen /\ upOcc' = upOcc /\ downOpen' = downOpen /\ downHeld' = downHeld
  BY DEF vars, listVars, sendVars, holdVars, linkVars
<1>2. TypeOK' /\ StateFits' /\ EachListed' /\ Stamps'
  BY <1>1 DEF IInv, TypeOK, StateFits, FrontFlit, EachListed, CanSend, Holds, Stamps
<1>3. VcGrantsFit' /\ HoldGrantsFit' /\ SwGrantsFit'
  BY <1>1 DEF IInv, VcGrantsFit, HoldGrantsFit, SwGrantsFit, Award, MayUse, FreeVc, FrontFlit
<1>4. CrossbarFits' /\ AtMostTwo' /\ RouterCreditsAccounted'
  BY <1>1 DEF IInv, CrossbarFits, AtMostTwo, RouterCreditsAccounted
<1>5. VcOwners' /\ HeldPairs' /\ HeldSends'
  BY <1>1 DEF IInv, VcOwners, HeldPairs, HeldSends, CanSend, Holds
<1>6. InOrder' /\ SentInOrder' /\ StaysAwake'
  BY <1>1 DEF IInv, InOrder, UpN, SentInOrder, Expected, NextN, FrontFlit, StaysAwake, Quiet
<1> QED
  BY <1>2, <1>3, <1>4, <1>5, <1>6 DEF IInv

\* Every step of the router keeps the invariant.
LEMMA Inductive ==
  ASSUME UnitDelays, IInv, [Next]_vars
  PROVE  IInv'
<1>1. ASSUME NEW F \in [Inputs -> Arrivals \cup {None}], NEW C \in SUBSET Credited, InputQueuing(F, C)
      PROVE  IInv'
  BY <1>1, InputQueuingStep
<1>2. ASSUME NEW g \in VcGrants, VCAllocEvaluate(g)
      PROVE  IInv'
  BY <1>2, VCAllocEvaluateStep
<1>3. CASE SWHoldEvaluate
  BY <1>3, SWHoldEvaluateStep
<1>4. ASSUME NEW S \in SwGrants, SWAllocEvaluate(S)
      PROVE  IInv'
  BY <1>4, SWAllocEvaluateStep
<1>5. CASE RouteUpdate
  BY <1>5, RouteUpdateStep
<1>6. CASE VCAllocUpdate
  BY <1>6, VCAllocUpdateStep
<1>7. CASE SWHoldUpdate
  BY <1>7, SWHoldUpdateStep
<1>8. ASSUME NEW p \in Piggybacks(Granted(swAllocVcs)), SWAllocUpdate(p)
      PROVE  IInv'
  BY <1>8, SWAllocUpdateStep
<1>9. CASE WriteOutputs
  BY <1>9, WriteOutputsStep
<1>10. CASE UNCHANGED vars
  BY <1>10, Stuttering
<1> QED
  BY <1>1, <1>2, <1>3, <1>4, <1>5, <1>6, <1>7, <1>8, <1>9, <1>10 DEF Next

\* The invariant holds in every state of the router.
LEMMA Invariant ==
  ASSUME UnitDelays
  PROVE  Spec => []IInv
<1>1. Init => IInv
  BY Initially
<1>2. IInv /\ [Next]_vars => IInv'
  BY Inductive
<1> QED
  BY <1>1, <1>2, PTL DEF Spec

\* The states and the deques of every VC agree after every handler of _InternalStep, whatever
\* the allocators grant: no VC is forgotten by the stage it waits for and none stands in
\* its deque twice; and when the router has cleared _active nothing waits in it.
THEOREM ListedAlways ==
  ASSUME UnitDelays
  PROVE  Spec => []NothingForgotten
<1>1. ASSUME IInv
      PROVE  NothingForgotten
  <2> USE <1>1 DEF IInv
  <2>1. ASSUME NEW T, NEW list \in Lists(T), NEW iv \in InVCs
        PROVE  Listed(list, iv) = IF list[iv] # <<>> THEN 1 ELSE 0
    <3>1. CASE list[iv] = <<>>
      BY <3>1 DEF Listed
    <3>2. ASSUME NEW e \in Entries(T), list[iv] = <<e>>
          PROVE  Listed(list, iv) = IF list[iv] # <<>> THEN 1 ELSE 0
      BY <3>2 DEF Listed
    <3> QED
      BY <3>1, <3>2, UnitList
  <2>2. \A iv \in InVCs :
          /\ Listed(routeVcs, iv) = IF routeVcs[iv] # <<>> THEN 1 ELSE 0
          /\ Listed(vcAllocVcs, iv) = IF vcAllocVcs[iv] # <<>> THEN 1 ELSE 0
          /\ Listed(swHoldVcs, iv) = IF swHoldVcs[iv] # <<>> THEN 1 ELSE 0
          /\ Listed(swAllocVcs, iv) = IF swAllocVcs[iv] # <<>> THEN 1 ELSE 0
    BY <2>1 DEF TypeOK
  <2>3. ASSUME NEW iv \in InVCs
        PROVE  /\ Listed(routeVcs, iv) = Once(state[iv] = "routing")
               /\ Listed(vcAllocVcs, iv) = Once(state[iv] = "vc_alloc" /\ ~cfg.piggyback)
               /\ Listed(swHoldVcs, iv) = Once(CanSend(iv) /\ Holds(iv))
               /\ Listed(swAllocVcs, iv) = Once(\/ state[iv] = "vc_alloc" /\ cfg.speculative
                                                \/ CanSend(iv) /\ ~Holds(iv))
    BY <2>2 DEF EachListed, Once
  <2>4. phase = "queue" /\ ~active =>
          /\ \A list \in {routeVcs, vcAllocVcs, swHoldVcs, swAllocVcs} : ~Busy(list)
          /\ \A o \in Outputs : crossbar[o] = <<>>
    BY DEF StaysAwake
  <2> QED
    BY <2>3, <2>4 DEF NothingForgotten
<1> QED
  BY <1>1, Invariant, PTL

\* BufferState::SendingFlit and ProcessCredit, at both ends of the router: no output VC is sent
\* more flits than its neighbour's buffer takes, and no credit is lost.
THEOREM CreditsAlways ==
  ASSUME UnitDelays
  PROVE  Spec => []RouterCreditsAccounted
<1>1. IInv => RouterCreditsAccounted
  BY DEF IInv
<1> QED
  BY <1>1, Invariant, PTL

\* TakeBuffer, SetOutput and the _switch_hold_ arrays: an output VC has one user, which knows
\* it, and a held connection is known at both its ends and serves a packet that can use it.
THEOREM OwnersAlways ==
  ASSUME UnitDelays
  PROVE  Spec => []OwnersAgree
<1>1. ASSUME IInv
      PROVE  OwnersAgree
  <2> USE <1>1 DEF IInv
  <2>1. \A ov \in OutVCs, iv \in InVCs : inUse[ov] = iv <=> state[iv] = "active" /\ outOf[iv] = ov
    BY DEF VcOwners
  <2>2. /\ \A i \in Inputs : (holdVc[i] = None) = (holdIn[i] = None)
        /\ \A i \in Inputs, o \in Outputs : holdIn[i] = o <=> holdOut[o] = i
    BY DEF HeldPairs
  <2>3. ASSUME NEW i \in Inputs, holdVc[i] # None
        PROVE  CanSend(<<i, holdVc[i]>>) /\ outOf[<<i, holdVc[i]>>][1] = holdIn[i]
    <3>1. <<i, holdVc[i]>> \in InVCs /\ Holds(<<i, holdVc[i]>>)
      BY <2>3 DEF TypeOK, InVCs, Holds
    <3> QED
      BY <3>1 DEF HeldSends
  <2> QED
    BY <2>1, <2>2, <2>3 DEF OwnersAgree
<1> QED
  BY <1>1, Invariant, PTL

\* _VCAllocUpdate, and _SWAllocUpdate after two handlers that may send flits and hold the
\* switch: their assertions on what was granted never fail.
THEOREM GrantsAlways ==
  ASSUME UnitDelays
  PROVE  Spec => []GrantsStillHold
<1>1. ASSUME IInv
      PROVE  GrantsStillHold
  <2> USE <1>1 DEF IInv
  <2>1. ASSUME phase = "vcupdate", NEW a \in Granted(vcAllocVcs)
        PROVE  /\ inUse[GrantOf(vcAllocVcs, a)] = None
               /\ \A b \in Granted(vcAllocVcs) : b # a => GrantOf(vcAllocVcs, b) # GrantOf(vcAllocVcs, a)
    <3>1. \A iv \in Granted(vcAllocVcs) :
            /\ iv \in InVCs /\ GrantOf(vcAllocVcs, iv) \in OutVCs
            /\ Award(vcAllocVcs, iv, GrantOf(vcAllocVcs, iv))
      BY GrantedIs, NoneIsNothing DEF TypeOK
    <3> QED
      BY <2>1, <3>1 DEF VcGrantsFit
  <2>2. ASSUME phase = "switch", NEW iv \in Granted(swAllocVcs)
        PROVE  LET out == GrantOf(swAllocVcs, iv)
               IN /\ buf[iv] # <<>> /\ holdIn[iv[1]] = None /\ holdOut[out] = None
                  /\ IF state[iv] = "active" THEN outOf[iv][1] = out /\ occ[outOf[iv]] < BufSize
                     ELSE \E v \in VCs : cfg.piggyback /\ inUse[<<out, v>>] = None /\ occ[<<out, v>>] < BufSize
    <3>1. /\ iv \in InVCs /\ GrantOf(swAllocVcs, iv) \in Outputs
          /\ Award(swAllocVcs, iv, GrantOf(swAllocVcs, iv))
      BY GrantedIs, NoneIsNothing DEF TypeOK
    <3>2. PICK out \in Outputs : out = GrantOf(swAllocVcs, iv)
      BY <3>1
    <3>3. holdIn[iv[1]] = None /\ holdOut[out] = None /\ MayUse(iv, out)
      BY <2>2, <3>1, <3>2 DEF SwGrantsFit
    <3>4. (state[iv] = "vc_alloc" \/ CanSend(iv)) /\ swAllocVcs[iv] # <<>>
      BY <3>1 DEF EachListed, Award
    <3>5. buf[iv] # <<>>
      BY <3>1, <3>4 DEF StateFits, CanSend
    <3>6. state[iv] = "active" => outOf[iv][1] = out /\ occ[outOf[iv]] < BufSize
      BY <3>3 DEF MayUse
    <3>7. state[iv] # "active" => cfg.piggyback /\ FreeVc(out)
      BY <2>2, <3>3, <3>4 DEF MayUse, CanSend
    <3> QED
      BY <3>2, <3>3, <3>5, <3>6, <3>7 DEF FreeVc
  <2> QED
    BY <2>1, <2>2 DEF GrantsStillHold
<1> QED
  BY <1>1, Invariant, PTL

\* SendingFlit keeps an output VC until the tail has been sent, and the switch keeps the order
\* of the flits: on every output VC the neighbour receives whole packets, flit after flit.
THEOREM PacketsAlways ==
  ASSUME UnitDelays
  PROVE  Spec => []PacketsStayWhole
<1>1. ASSUME IInv
      PROVE  PacketsStayWhole
  <2> USE <1>1 DEF IInv
  <2>1. ASSUME NEW o \in Outputs, crossbar[o] # <<>>
        PROVE  LET f == Head(crossbar[o])
                   open == downOpen[<<o, f.vc>>]
               IN IF open = None THEN f.n = 0 ELSE f.src = open.src /\ f.n = open.n
    <3>1. crossbar[o] \in Seq(Crossing)
      BY DEF TypeOK
    <3>2. Head(crossbar[o]) = crossbar[o][1] /\ crossbar[o][1] \in Crossing
      BY <2>1, <3>1
    <3>3. PICK v \in VCs : v = crossbar[o][1].vc
      BY <3>2 DEF Crossing
    <3>4. <<o, v>> \in OutVCs
      BY DEF OutVCs
    <3>5. Meets(downOpen[<<o, v>>], crossbar[o][1], v)
      BY <2>1, <3>4 DEF SentInOrder
    <3> QED
      BY <3>2, <3>3, <3>5 DEF Meets
  <2> QED
    BY <2>1 DEF PacketsStayWhole
<1> QED
  BY <1>1, Invariant, PTL

=============================================================================
