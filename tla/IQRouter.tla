------------------------------- MODULE IQRouter ------------------------------
(****************************************************************************)
(* The input-queued router of BookSim, one cycle of IQRouter::_InternalStep *)
(* after another.  A packet waits in its input VC for a route, an output VC *)
(* and then, flit by flit, for the switch; each kind of waiting is a deque  *)
(* of input VCs.  Every stage has an Evaluate half, which reads the state   *)
(* the cycle began with and stamps the entry with the time it is finished,  *)
(* and an Update half, which acts when that time has come.                  *)
(*                                                                          *)
(* The allocators are any that grant an output VC to one input VC, and an   *)
(* input and an output of the switch once, so the order of a deque shows    *)
(* only in that entries with a time come before those without: a deque is   *)
(* kept by input VC, the entries of each in their order.  The neighbours    *)
(* keep their side of the credit protocol (CreditLink).                     *)
(*                                                                          *)
(* Options that are not constants have their defaults: buffer policy        *)
(* "private", every speedup 1, output_buffer_size -1, spec_check_elig and   *)
(* spec_check_cred 1, vc_busy_when_full and noq 0, one class.               *)
(*                                                                          *)
(* Definitions marked "slip" are wrong on purpose: each is a plausible error*)
(* in the definition that follows it, kept to show that a property notices. *)
(****************************************************************************)
EXTENDS Integers, Sequences, FiniteSets

CONSTANTS
  Inputs, Outputs,  \* ports
  VCs,              \* virtual channels of each port
  BufSize,          \* config "vc_buf_size"
  Configs,          \* the options the router may be built with, see Options
  None,             \* -1: nothing granted, held, or in use
  MaxFlits,         \* bound: flits of the longest packet
  MaxPackets        \* bound: packets that have not left the input buffers

Options == [speculative : BOOLEAN,    \* bid for the switch with the output VC
            piggyback : BOOLEAN,      \* no VC allocator: the switch grant brings the VC
            hold : BOOLEAN,           \* hold_switch_for_packet
            routingDelay : Nat, vcAllocDelay : Nat \ {0}, swAllocDelay : Nat \ {0}]

InVCs == Inputs \X VCs
OutVCs == Outputs \X VCs

Sending == [n : Nat, out : Outputs]    \* a packet that is being sent to the router
Receiving == [src : InVCs, n : Nat]    \* a packet that is being received from it

ASSUME RouterAssumption ==
  /\ None \notin Inputs \cup Outputs \cup VCs \cup InVCs \cup OutVCs \cup Sending \cup Receiving
  /\ BufSize \in Nat \ {0} /\ MaxFlits \in Nat \ {0} /\ MaxPackets \in Nat
  /\ \A c \in Configs : c \in Options /\ (c.piggyback => c.speculative)

New == -1  \* stamp of an entry that is not evaluated yet
NoEntries == [iv \in InVCs |-> <<>>]

VARIABLES
  cfg,         \* the options of this router
  active,      \* _active; within a cycle, the activity seen so far
  phase,       \* the part of the cycle that is next
  buf,         \* _buf: flits of each input VC
  state,       \* VC::_state
  outOf,       \* output VC of a VC in state active, else None
  routeVcs, vcAllocVcs, swHoldVcs, swAllocVcs,  \* the deques; due: cycles to go
  holdVc, holdIn, holdOut,  \* _switch_hold_vc, _switch_hold_in, _switch_hold_out
  inUse, occ,  \* _next_buf: the input VC that has an output VC, flits not credited
  crossbar,    \* flits on their way to each output
  outCredits,  \* _out_queue_credits: input VCs that sent a flit
  upOpen, upOcc,     \* upstream: packet being sent on each input VC, flits not credited
  downOpen, downHeld \* downstream: packet being received, flits not credited

listVars == <<routeVcs, vcAllocVcs, swHoldVcs, swAllocVcs>>
holdVars == <<holdVc, holdIn, holdOut>>
linkVars == <<upOpen, upOcc, downOpen, downHeld>>
sendVars == <<buf, state, outOf, inUse, occ, crossbar, outCredits>>
vars == <<cfg, active, phase, sendVars, listVars, holdVars, linkVars>>

Init ==
  /\ cfg \in Configs
  /\ active = FALSE
  /\ phase = "queue"
  /\ buf = [iv \in InVCs |-> <<>>]
  /\ state = [iv \in InVCs |-> "idle"]
  /\ outOf = [iv \in InVCs |-> None]
  /\ routeVcs = NoEntries /\ vcAllocVcs = NoEntries
  /\ swHoldVcs = NoEntries /\ swAllocVcs = NoEntries
  /\ holdVc = [i \in Inputs |-> None] /\ holdIn = [i \in Inputs |-> None]
  /\ holdOut = [o \in Outputs |-> None]
  /\ inUse = [ov \in OutVCs |-> None]
  /\ occ = [ov \in OutVCs |-> 0]
  /\ crossbar = [o \in Outputs |-> <<>>]
  /\ outCredits = {}
  /\ upOpen = [iv \in InVCs |-> None] /\ upOcc = [iv \in InVCs |-> 0]
  /\ downOpen = [ov \in OutVCs |-> None] /\ downHeld = [ov \in OutVCs |-> 0]

-----------------------------------------------------------------------------
(* The deques.                                                             *)

Enlisted(list, ivs) ==
  [iv \in InVCs |-> IF iv \in ivs THEN Append(list[iv], [due |-> New, out |-> None]) ELSE list[iv]]

\* The entries an Update half takes, with what they were granted, and those it leaves.
Done(list) == {iv \in InVCs : list[iv] # <<>> /\ Head(list[iv]).due = 0}
GrantOf(list, iv) == Head(list[iv]).out
Granted(list) == {iv \in Done(list) : GrantOf(list, iv) # None}
Waiting(list) ==
  [iv \in InVCs |->
     LET done == {k \in DOMAIN list[iv] : list[iv][k].due = 0}
     IN SubSeq(list[iv], Cardinality(done) + 1, Len(list[iv]))]

\* An Evaluate half stops at the first entry that has a time.
Fresh(list) ==
  IF \E iv \in InVCs : \E k \in DOMAIN list[iv] : list[iv][k].due # New THEN {}
  ELSE {iv \in InVCs : list[iv] # <<>>}

Stamped(list, delay, out) ==
  [iv \in InVCs |-> IF iv \in Fresh(list)
                    THEN [k \in DOMAIN list[iv] |-> [due |-> delay - 1, out |-> out[iv]]]
                    ELSE list[iv]]

Tick(list) ==
  [iv \in InVCs |-> [k \in DOMAIN list[iv] |->
     [list[iv][k] EXCEPT !.due = IF @ > 0 THEN @ - 1 ELSE @]]]

\* slip: a flit in the switch does not keep the router awake.
StirsNever(flits) == FALSE

\* What keeps the router active for another cycle: what an Update half leaves.
Busy(list) == \E iv \in InVCs : list[iv] # <<>>
Stirs(flits) == flits # <<>>

FrontFlit(iv) == Head(buf[iv])

\* BufferState, as CreditLink has it.
IsFull(ov) == occ[ov] >= BufSize

\* slip: any VC that has a credit may be allocated.
HasCredit(ov) == ~IsFull(ov)

IsAvailable(ov) == inUse[ov] = None

\* The deques a VC joins whose next packet has come to the front.
RoutesOf(ivs) == IF cfg.routingDelay > 0 THEN ivs ELSE {}
VcAllocsOf(ivs) == IF cfg.routingDelay = 0 /\ ~cfg.piggyback THEN ivs ELSE {}
BidsEarly == cfg.routingDelay = 0 /\ cfg.speculative
StateOfNext == IF cfg.routingDelay > 0 THEN "routing" ELSE "vc_alloc"

-----------------------------------------------------------------------------
(* _InputQueuing: at most one flit for each input, and credits.            *)

Arrivals == [vc : VCs, out : Outputs, last : BOOLEAN]

\* The flit of arrival a at input i: the next of the packet that the neighbour is
\* sending on the VC, or the first of one to output a.out.
FlitOf(i, a) ==
  LET iv == <<i, a.vc>>
  IN IF upOpen[iv] = None
     THEN [n |-> 0, tail |-> a.last, out |-> a.out]
     ELSE [n |-> upOpen[iv].n, tail |-> a.last, out |-> upOpen[iv].out]

\* The packets, as tails that are buffered or to come.
Packets ==
  Cardinality({x \in InVCs \X (1 .. BufSize) : x[2] \in DOMAIN buf[x[1]] /\ buf[x[1]][x[2]].tail})
    + Cardinality({iv \in InVCs : upOpen[iv] # None})

\* F: the arrival at each input; C: output VCs that get a credit.
InputQueuing(F, C) ==
  LET got == {i \in Inputs : F[i] # None}
      at == {<<i, F[i].vc>> : i \in got}
      flit == [iv \in at |-> FlitOf(iv[1], F[iv[1]])]
      packets == {iv \in at : state[iv] = "idle"}
      fronts == {iv \in at : state[iv] = "active" /\ buf[iv] = <<>>}
      held == {iv \in fronts : holdVc[iv[1]] = iv[2]}
      bids == (IF BidsEarly THEN packets ELSE {}) \cup (fronts \ held)
  IN /\ phase = "queue" /\ phase' = "vcalloc"
     /\ active \/ at # {} \/ C # {}
     /\ active' = FALSE
     /\ \A iv \in at : upOcc[iv] < BufSize /\ (flit[iv].n + 1 = MaxFlits => flit[iv].tail)
     /\ Packets + Cardinality({iv \in at : flit[iv].n = 0}) <= MaxPackets
     /\ \A ov \in C : downHeld[ov] > 0
     /\ buf' = [iv \in InVCs |-> IF iv \in at THEN Append(buf[iv], flit[iv]) ELSE buf[iv]]
     /\ upOcc' = [iv \in InVCs |-> IF iv \in at THEN upOcc[iv] + 1 ELSE upOcc[iv]]
     /\ upOpen' = [iv \in InVCs |->
                     IF iv \notin at THEN upOpen[iv]
                     ELSE IF flit[iv].tail THEN None
                     ELSE [n |-> flit[iv].n + 1, out |-> flit[iv].out]]
     /\ state' = [iv \in InVCs |-> IF iv \in packets THEN StateOfNext ELSE state[iv]]
     /\ routeVcs' = Enlisted(routeVcs, RoutesOf(packets))
     /\ vcAllocVcs' = Enlisted(vcAllocVcs, VcAllocsOf(packets))
     /\ swHoldVcs' = Enlisted(swHoldVcs, held)
     /\ swAllocVcs' = Enlisted(swAllocVcs, bids)
     /\ occ' = [ov \in OutVCs |-> IF ov \in C THEN occ[ov] - 1 ELSE occ[ov]]
     /\ downHeld' = [ov \in OutVCs |-> IF ov \in C THEN downHeld[ov] - 1 ELSE downHeld[ov]]
     /\ UNCHANGED <<cfg, outOf, inUse, crossbar, outCredits, holdVars, downOpen>>

-----------------------------------------------------------------------------
(* Allocation: the Evaluate halves.                                        *)

VcRequests(iv) == {ov \in OutVCs : ov[1] = FrontFlit(iv).out /\ IsAvailable(ov)}

VcGrants ==
  {g \in [Fresh(vcAllocVcs) -> OutVCs \cup {None}] :
     /\ \A iv \in DOMAIN g : g[iv] \in VcRequests(iv) \cup {None}
     /\ \A a, b \in DOMAIN g : a # b /\ g[a] # None => g[a] # g[b]}

\* With a delay, a grant whose output VC has been taken meanwhile is discarded.
VCAllocEvaluate(g) ==
  LET stamped == Stamped(vcAllocVcs, cfg.vcAllocDelay, g)
      Stale(e) == cfg.vcAllocDelay > 1 /\ e.due = 0 /\ e.out # None /\ ~IsAvailable(e.out)
  IN /\ phase = "vcalloc" /\ phase' = "swhold"
     /\ vcAllocVcs' = [iv \in InVCs |-> [k \in DOMAIN stamped[iv] |->
                         [stamped[iv][k] EXCEPT !.out = IF Stale(stamped[iv][k]) THEN None ELSE @]]]
     /\ UNCHANGED <<cfg, active, sendVars, routeVcs, swHoldVcs, swAllocVcs, holdVars, linkVars>>

SWHoldEvaluate ==
  /\ phase = "swhold" /\ phase' = "swalloc"
  /\ swHoldVcs' = Stamped(swHoldVcs, 1, [iv \in Fresh(swHoldVcs) |->
                           IF IsFull(outOf[iv]) THEN None ELSE outOf[iv][1]])
  /\ UNCHANGED <<cfg, active, sendVars, routeVcs, vcAllocVcs, swAllocVcs, holdVars, linkVars>>

SwOutput(iv) == IF state[iv] = "active" THEN outOf[iv][1] ELSE FrontFlit(iv).out

\* The input VCs that bid for the switch: with a credit or, before they have an
\* output VC, if one with a credit is free (spec_check_elig, spec_check_cred).
SwRequests ==
  {iv \in Fresh(swAllocVcs) :
     /\ holdIn[iv[1]] = None /\ holdOut[SwOutput(iv)] = None
     /\ IF state[iv] = "active" THEN ~IsFull(outOf[iv])
        ELSE \E v \in VCs : LET ov == <<SwOutput(iv), v>> IN IsAvailable(ov) /\ ~IsFull(ov)}

SwGrants ==
  {S \in SUBSET SwRequests :
     \A a, b \in S : a # b => a[1] # b[1] /\ SwOutput(a) # SwOutput(b)}

\* OutputAssigned of the VC allocator, for what it was asked in this cycle.
Assigned(iv) ==
  LET now == {k \in DOMAIN vcAllocVcs[iv] : vcAllocVcs[iv][k].due = cfg.vcAllocDelay - 1}
  IN IF now = {} THEN None ELSE vcAllocVcs[iv][CHOOSE k \in now : TRUE].out

\* slip: the credit of an output VC just assigned is not checked.
StillGrantedUnchecked(iv, o) ==
  /\ holdIn[iv[1]] = None /\ holdOut[o] = None
  /\ IF state[iv] = "active" THEN ~IsFull(outOf[iv])
     ELSE cfg.piggyback \/ (Assigned(iv) # None /\ Assigned(iv)[1] = o)

\* A speculative grant stands if the VC got an output VC with a credit.
StillGranted(iv, o) ==
  /\ holdIn[iv[1]] = None /\ holdOut[o] = None
  /\ IF state[iv] = "active" THEN ~IsFull(outOf[iv])
     ELSE IF cfg.piggyback
     THEN \E v \in VCs : IsAvailable(<<o, v>>) /\ ~IsFull(<<o, v>>)
     ELSE Assigned(iv) # None /\ Assigned(iv)[1] = o /\ ~IsFull(Assigned(iv))

SWAllocEvaluate(S) ==
  LET stamped == Stamped(swAllocVcs, cfg.swAllocDelay,
                         [iv \in Fresh(swAllocVcs) |-> IF iv \in S THEN SwOutput(iv) ELSE None])
      Stale(iv, e) == /\ cfg.speculative \/ cfg.swAllocDelay > 1
                      /\ e.due = 0 /\ e.out # None /\ ~StillGranted(iv, e.out)
  IN /\ phase = "swalloc" /\ phase' = "route"
     /\ swAllocVcs' = [iv \in InVCs |-> [k \in DOMAIN stamped[iv] |->
                         [stamped[iv][k] EXCEPT !.out = IF Stale(iv, stamped[iv][k]) THEN None ELSE @]]]
     /\ UNCHANGED <<cfg, active, sendVars, routeVcs, vcAllocVcs, swHoldVcs, holdVars, linkVars>>

-----------------------------------------------------------------------------
(* The Update halves.                                                      *)

\* _RouteEvaluate and _RouteUpdate.
RouteUpdate ==
  LET stamped == Stamped(routeVcs, cfg.routingDelay, [iv \in Fresh(routeVcs) |-> None])
      done == Done(stamped)
  IN /\ phase = "route" /\ phase' = "vcupdate"
     /\ routeVcs' = Waiting(stamped)
     /\ state' = [iv \in InVCs |-> IF iv \in done THEN "vc_alloc" ELSE state[iv]]
     /\ swAllocVcs' = IF cfg.speculative THEN Enlisted(swAllocVcs, done) ELSE swAllocVcs
     /\ vcAllocVcs' = IF cfg.piggyback THEN vcAllocVcs ELSE Enlisted(vcAllocVcs, done)
     /\ active' = (active \/ Busy(routeVcs'))
     /\ UNCHANGED <<cfg, buf, outOf, inUse, occ, crossbar, outCredits, swHoldVcs, holdVars, linkVars>>

\* slip: the VC bids for the switch a second time.
BidsOnGrantAlways == TRUE

\* A VC that bid with its request for an output VC is in the deque already.
BidsOnGrant == ~cfg.speculative

VCAllocUpdate ==
  LET won == Granted(vcAllocVcs)
      got == [iv \in won |-> GrantOf(vcAllocVcs, iv)]
  IN /\ phase = "vcupdate" /\ phase' = "hold"
     /\ state' = [iv \in InVCs |-> IF iv \in won THEN "active" ELSE state[iv]]
     /\ outOf' = [iv \in InVCs |-> IF iv \in won THEN got[iv] ELSE outOf[iv]]
     /\ inUse' = [ov \in OutVCs |-> IF \E iv \in won : got[iv] = ov
                                    THEN CHOOSE iv \in won : got[iv] = ov ELSE inUse[ov]]
     /\ vcAllocVcs' = Enlisted(Waiting(vcAllocVcs), Done(vcAllocVcs) \ won)
     /\ swAllocVcs' = IF BidsOnGrant THEN Enlisted(swAllocVcs, won) ELSE swAllocVcs
     /\ active' = (active \/ Busy(vcAllocVcs'))
     /\ UNCHANGED <<cfg, buf, occ, crossbar, outCredits, routeVcs, swHoldVcs, holdVars, linkVars>>

\* After the front flit of iv: flits of its packet, or those of the next one.
HasMore(iv) == ~FrontFlit(iv).tail /\ Len(buf[iv]) > 1
HasNext(iv) == FrontFlit(iv).tail /\ Len(buf[iv]) > 1

\* slip: the output VC is given up with the first flit.
LastOnVcAtHead(f) == f.n = 0

\* SendingFlit gives the output VC up with the tail.
LastOnVc(f) == f.tail

\* The VCs of S send their front flit on the output VC that ov says.
Send(S, ov) ==
  /\ buf' = [iv \in InVCs |-> IF iv \in S THEN Tail(buf[iv]) ELSE buf[iv]]
  /\ state' = [iv \in InVCs |->
                 IF iv \notin S THEN state[iv]
                 ELSE IF ~FrontFlit(iv).tail THEN "active"
                 ELSE IF HasNext(iv) THEN StateOfNext ELSE "idle"]
  /\ outOf' = [iv \in InVCs |->
                 IF iv \notin S THEN outOf[iv] ELSE IF FrontFlit(iv).tail THEN None ELSE ov[iv]]
  /\ inUse' = [x \in OutVCs |->
                 IF \E iv \in S : ov[iv] = x
                 THEN LET iv == CHOOSE j \in S : ov[j] = x
                      IN IF LastOnVc(FrontFlit(iv)) THEN None ELSE iv
                 ELSE inUse[x]]
  /\ occ' = [x \in OutVCs |-> IF \E iv \in S : ov[iv] = x THEN occ[x] + 1 ELSE occ[x]]
  /\ crossbar' = [o \in Outputs |->
                    LET sent == {iv \in S : ov[iv][1] = o}
                    IN IF sent = {} THEN crossbar[o]
                       ELSE LET iv == CHOOSE j \in sent : TRUE
                            IN Append(crossbar[o], [due |-> New, src |-> iv, n |-> FrontFlit(iv).n,
                                                    tail |-> FrontFlit(iv).tail, vc |-> ov[iv][2]])]
  /\ outCredits' = outCredits \cup S

\* slip: the output stays held.
FreeInputOnly(out) == FALSE

\* A cancelled hold frees its output with its input.
FreeOutput(out) == out # None

SWHoldUpdate ==
  LET done == Done(swHoldVcs)
      S == Granted(swHoldVcs)
      next == {iv \in S : HasNext(iv)}
      kept == {iv \in S : HasMore(iv)}
      cancelled == {iv[1] : iv \in done \ kept}
  IN /\ phase = "hold" /\ phase' = "switch"
     /\ Send(S, [iv \in S |-> outOf[iv]])
     /\ holdVc' = [i \in Inputs |-> IF i \in cancelled THEN None ELSE holdVc[i]]
     /\ holdIn' = [i \in Inputs |-> IF i \in cancelled THEN None ELSE holdIn[i]]
     /\ holdOut' = [o \in Outputs |-> IF FreeOutput(holdOut[o]) /\ holdOut[o] \in cancelled
                                      THEN None ELSE holdOut[o]]
     /\ routeVcs' = Enlisted(routeVcs, RoutesOf(next))
     /\ vcAllocVcs' = Enlisted(vcAllocVcs, VcAllocsOf(next))
     /\ swHoldVcs' = Enlisted(Waiting(swHoldVcs), kept)
     /\ swAllocVcs' = Enlisted(swAllocVcs, (done \ S) \cup (IF BidsEarly THEN next ELSE {}))
     /\ active' = (active \/ Busy(swHoldVcs'))
     /\ UNCHANGED <<cfg, linkVars>>

\* The output VCs that piggybacked allocation may give to the VCs of S.
Piggybacks(S) ==
  {p \in [{iv \in S : state[iv] = "vc_alloc"} -> OutVCs] :
     \A iv \in DOMAIN p : p[iv][1] = SwOutput(iv) /\ IsAvailable(p[iv]) /\ ~IsFull(p[iv])}

SWAllocUpdate(p) ==
  LET done == Done(swAllocVcs)
      S == Granted(swAllocVcs)
      ov == [iv \in S |-> IF iv \in DOMAIN p THEN p[iv] ELSE outOf[iv]]
      next == {iv \in S : HasNext(iv)}
      more == {iv \in S : HasMore(iv)}
      holds == IF cfg.hold THEN more ELSE {}
  IN /\ phase = "switch" /\ phase' = "write"
     /\ Send(S, ov)
     /\ holdVc' = [i \in Inputs |-> IF \E iv \in holds : iv[1] = i
                                    THEN (CHOOSE iv \in holds : iv[1] = i)[2] ELSE holdVc[i]]
     /\ holdIn' = [i \in Inputs |-> IF \E iv \in holds : iv[1] = i
                                    THEN ov[CHOOSE iv \in holds : iv[1] = i][1] ELSE holdIn[i]]
     /\ holdOut' = [o \in Outputs |-> IF \E iv \in holds : ov[iv][1] = o
                                      THEN (CHOOSE iv \in holds : ov[iv][1] = o)[1] ELSE holdOut[o]]
     /\ routeVcs' = Enlisted(routeVcs, RoutesOf(next))
     /\ vcAllocVcs' = Enlisted(vcAllocVcs, VcAllocsOf(next))
     /\ swHoldVcs' = Enlisted(swHoldVcs, holds)
     /\ swAllocVcs' = Enlisted(Waiting(swAllocVcs),
                               (done \ S) \cup (more \ holds) \cup (IF BidsEarly THEN next ELSE {}))
     /\ active' = (active \/ Busy(swAllocVcs'))
     /\ UNCHANGED <<cfg, linkVars>>

\* _SwitchEvaluate, _SwitchUpdate, _OutputQueuing and WriteOutputs: a flit takes a
\* cycle to cross the switch; credits go back.
WriteOutputs ==
  LET leaving == {o \in Outputs : crossbar[o] # <<>> /\ Head(crossbar[o]).due = 0}
      On(ov) == ov[1] \in leaving /\ Head(crossbar[ov[1]]).vc = ov[2]
      FlitOn(ov) == Head(crossbar[ov[1]])
      Rest(o) == IF o \in leaving THEN Tail(crossbar[o]) ELSE crossbar[o]
  IN /\ phase = "write" /\ phase' = "queue"
     /\ crossbar' = [o \in Outputs |-> [k \in DOMAIN Rest(o) |-> [Rest(o)[k] EXCEPT !.due = 0]]]
     /\ downHeld' = [ov \in OutVCs |-> IF On(ov) THEN downHeld[ov] + 1 ELSE downHeld[ov]]
     /\ downOpen' = [ov \in OutVCs |->
                       IF ~On(ov) THEN downOpen[ov]
                       ELSE IF FlitOn(ov).tail THEN None
                       ELSE [src |-> FlitOn(ov).src, n |-> FlitOn(ov).n + 1]]
     /\ upOcc' = [iv \in InVCs |-> IF iv \in outCredits THEN upOcc[iv] - 1 ELSE upOcc[iv]]
     /\ outCredits' = {}
     /\ routeVcs' = Tick(routeVcs) /\ vcAllocVcs' = Tick(vcAllocVcs)
     /\ swAllocVcs' = Tick(swAllocVcs)
     /\ active' = (active \/ \E o \in Outputs : Stirs(crossbar'[o]))
     /\ UNCHANGED <<cfg, buf, state, outOf, inUse, occ, swHoldVcs, holdVars, upOpen>>

Credited == {ov \in OutVCs : downHeld[ov] > 0}

Next ==
  \/ \E F \in [Inputs -> Arrivals \cup {None}], C \in SUBSET Credited : InputQueuing(F, C)
  \/ \E g \in VcGrants : VCAllocEvaluate(g)
  \/ SWHoldEvaluate
  \/ \E S \in SwGrants : SWAllocEvaluate(S)
  \/ RouteUpdate
  \/ VCAllocUpdate
  \/ SWHoldUpdate
  \/ \E p \in Piggybacks(Granted(swAllocVcs)) : SWAllocUpdate(p)
  \/ WriteOutputs

Spec == Init /\ [][Next]_vars

-----------------------------------------------------------------------------
(* Properties.                                                             *)

Listed(list, iv) == Len(list[iv])
Once(b) == IF b THEN 1 ELSE 0
Holds(iv) == holdVc[iv[1]] = iv[2]
CanSend(iv) == state[iv] = "active" /\ buf[iv] # <<>>

\* A VC that has something to do waits for it in the deques of its state, once in
\* each, between any two handlers: none is forgotten (the packet would stay in its
\* buffer for ever) or listed twice (its flits would be sent for another).  And the router
\* does not stop stepping while one waits there or a flit is in the switch, although each
\* stage reports its activity before later ones add work.
NothingForgotten ==
  /\ \A iv \in InVCs :
       /\ Listed(routeVcs, iv) = Once(state[iv] = "routing")
       /\ Listed(vcAllocVcs, iv) = Once(state[iv] = "vc_alloc" /\ ~cfg.piggyback)
       /\ Listed(swHoldVcs, iv) = Once(CanSend(iv) /\ Holds(iv))
       /\ Listed(swAllocVcs, iv) = Once(\/ state[iv] = "vc_alloc" /\ cfg.speculative
                                        \/ CanSend(iv) /\ ~Holds(iv))
  /\ phase = "queue" /\ ~active =>
       /\ \A list \in {routeVcs, vcAllocVcs, swHoldVcs, swAllocVcs} : ~Busy(list)
       /\ \A o \in Outputs : crossbar[o] = <<>>

\* Every flit sent on an output VC and not credited is in the switch or with the
\* neighbour, never more than its buffer takes; every flit received is in the
\* buffer or its credit is about to be sent.
RouterCreditsAccounted ==
  /\ \A ov \in OutVCs :
       /\ occ[ov] = downHeld[ov] + Cardinality({k \in DOMAIN crossbar[ov[1]] :
                                                  crossbar[ov[1]][k].vc = ov[2]})
       /\ occ[ov] <= BufSize
  /\ \A iv \in InVCs : upOcc[iv] = Len(buf[iv]) + Once(iv \in outCredits)

\* What records say of each other is the same.  An output VC's user and an input VC's output
\* VC: none has two users and none is kept by nobody.  A held connection joins one input to one
\* output, and serves a packet that is on that output and has a flit to send.
OwnersAgree ==
  /\ \A ov \in OutVCs, iv \in InVCs :
       inUse[ov] = iv <=> state[iv] = "active" /\ outOf[iv] = ov
  /\ \A i \in Inputs : (holdVc[i] = None) = (holdIn[i] = None)
  /\ \A i \in Inputs, o \in Outputs : holdIn[i] = o <=> holdOut[o] = i
  /\ \A i \in Inputs : holdVc[i] # None =>
       LET iv == <<i, holdVc[i]>> IN CanSend(iv) /\ outOf[iv][1] = holdIn[i]

\* What was true when a grant was made is true when it is used.  A grant of _VCAllocUpdate
\* names an output VC that nobody has, once (the assertion on IsAvailableFor, line 901).  For a
\* grant of the switch, although output VCs and held connections have been updated in between,
\* the connection is free, the VC has its output, its output VC has a credit, and piggybacked
\* allocation still finds one (assertions of lines 1881-1883, 1953, 1970).
GrantsStillHold ==
  /\ phase = "vcupdate" =>
       LET got == [iv \in Granted(vcAllocVcs) |-> GrantOf(vcAllocVcs, iv)]
       IN \A a \in DOMAIN got : inUse[got[a]] = None /\ \A b \in DOMAIN got \ {a} : got[b] # got[a]
  /\ phase = "switch" =>
       \A iv \in Granted(swAllocVcs) :
         LET out == GrantOf(swAllocVcs, iv)
         IN /\ buf[iv] # <<>> /\ holdIn[iv[1]] = None /\ holdOut[out] = None
            /\ IF state[iv] = "active" THEN outOf[iv][1] = out /\ occ[outOf[iv]] < BufSize
               ELSE \E v \in VCs : cfg.piggyback /\ inUse[<<out, v>>] = None /\ occ[<<out, v>>] < BufSize

\* The flits of an output VC leave as whole packets, in order: a packet is not
\* entered by another one before its tail.
PacketsStayWhole ==
  \A o \in Outputs : crossbar[o] # <<>> =>
    LET f == Head(crossbar[o])
        open == downOpen[<<o, f.vc>>]
    IN IF open = None THEN f.n = 0 ELSE f.src = open.src /\ f.n = open.n

\* Once the requests are evaluated, an entry without a time is behind one that is
\* not finished: the loop that looks for stale grants stops before it (the
\* assertion time >= 0 of line 789).
EveryRequestStamped ==
  phase = "swhold" =>
    LET dues == UNION {{vcAllocVcs[iv][k].due : k \in DOMAIN vcAllocVcs[iv]} : iv \in InVCs}
    IN New \in dues => \E due \in dues : due > 0

=============================================================================
