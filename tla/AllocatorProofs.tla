-------------------------- MODULE AllocatorProofs ---------------------------
(***************************************************************************)
(* What BookSim's allocators grant, for all numbers of inputs, outputs and *)
(* iterations and all priorities.  Every algorithm but one adds matched    *)
(* pairs round by round, so one lemma says how a matching grows and        *)
(* another what it is worth after as many rounds as there are ports; each  *)
(* algorithm is then shown to make such rounds.                            *)
(***************************************************************************)
EXTENDS Allocators, FlatArbiterTheorems

-----------------------------------------------------------------------------
(* Iterated steps.                                                         *)

\* A step that leads from S[k - 1] to S[k], and what repeating it n times gives.
CanRun(n, S, start, step) ==
  start \in S[0] /\ \A k \in 1 .. n : \A x \in S[k - 1] : step[k][x] \in S[k]

IsRun(f, n, S, start, step) ==
  /\ f = [k \in 0 .. n |-> f[k]]
  /\ f[0] = start
  /\ \A k \in 1 .. n : f[k - 1] \in S[k - 1] /\ f[k] = step[k][f[k - 1]]

\* Repeating such steps n times gives a run.
LEMMA Iteration ==
  ASSUME NEW n \in Nat, NEW S, NEW start, NEW step, CanRun(n, S, start, step)
  PROVE  \E f : IsRun(f, n, S, start, step)
<1> DEFINE Run(f, m) == IsRun(f, m, S, start, step)
           T == {m \in Nat : m <= n => \E f : Run(f, m)}
<1>1. 0 \in T
  <2> DEFINE f == [k \in 0 .. 0 |-> start]
  <2>1. f = [k \in 0 .. 0 |-> f[k]] /\ f[0] = start
    OBVIOUS
  <2>2. Run(f, 0)
    <3> HIDE DEF f
    <3> QED BY <2>1 DEF IsRun
  <2> QED BY <2>2
<1>2. \A m \in Nat : m \in T => m + 1 \in T
  <2> SUFFICES ASSUME NEW m \in Nat, m \in T, m + 1 <= n PROVE \E g : Run(g, m + 1)
    OBVIOUS
  <2>1. PICK f : Run(f, m)
    OBVIOUS
  <2> DEFINE g == [k \in 0 .. m + 1 |-> IF k = m + 1 THEN step[m + 1][f[m]] ELSE f[k]]
  <2>2. \A k \in 0 .. m : g[k] = f[k]
    OBVIOUS
  <2>3. g[m + 1] = step[m + 1][f[m]]
    OBVIOUS
  <2>4. g = [k \in 0 .. m + 1 |-> g[k]]
    OBVIOUS
  <2>5. f[m] \in S[m]
    <3>1. CASE m = 0
      BY <2>1, <3>1 DEF IsRun, CanRun
    <3>2. CASE m # 0
      <4>1. m \in 1 .. m /\ m \in 1 .. n
        BY <3>2
      <4>2. f[m - 1] \in S[m - 1] /\ f[m] = step[m][f[m - 1]]
        BY <2>1, <4>1 DEF IsRun
      <4> QED BY <4>1, <4>2 DEF CanRun
    <3> QED BY <3>1, <3>2
  <2>6. f[0] = start /\ \A k \in 1 .. m : f[k - 1] \in S[k - 1] /\ f[k] = step[k][f[k - 1]]
    BY <2>1 DEF IsRun
  <2> HIDE DEF g
  <2>7. \A k \in 1 .. m + 1 : g[k - 1] \in S[k - 1] /\ g[k] = step[k][g[k - 1]]
    <3> TAKE k \in 1 .. m + 1
    <3>1. CASE k = m + 1
      <4>1. k - 1 = m /\ g[m] = f[m]
        BY <2>2, <3>1
      <4> QED BY <2>3, <2>5, <3>1, <4>1
    <3>2. CASE k \in 1 .. m
      <4>1. g[k - 1] = f[k - 1] /\ g[k] = f[k]
        BY <2>2, <3>2
      <4> QED BY <2>6, <3>2, <4>1
    <3> QED BY <3>1, <3>2
  <2>8. g[0] = start
    BY <2>2, <2>6
  <2> QED BY <2>4, <2>7, <2>8 DEF IsRun
<1> HIDE DEF T
<1>3. n \in T
  BY <1>1, <1>2, NatSetInduction
<1> QED BY <1>3 DEF T

\* What the start satisfies and every step carries on holds to the end.
LEMMA IterationStays ==
  ASSUME NEW n \in Nat, NEW S, NEW f, f[0] \in S[0],
         \A k \in 1 .. n : f[k - 1] \in S[k - 1] => f[k] \in S[k]
  PROVE  \A k \in 0 .. n : f[k] \in S[k]
<1> DEFINE T == {k \in Nat : k <= n => f[k] \in S[k]}
<1>1. 0 \in T
  OBVIOUS
<1>2. \A k \in Nat : k \in T => k + 1 \in T
  <2> SUFFICES ASSUME NEW k \in Nat, k \in T, k + 1 <= n PROVE f[k + 1] \in S[k + 1]
    OBVIOUS
  <2>1. k + 1 \in 1 .. n /\ (k + 1) - 1 = k /\ f[k] \in S[k]
    OBVIOUS
  <2> QED BY <2>1
<1> HIDE DEF T
<1>3. Nat \subseteq T
  BY <1>1, <1>2, NatSetInduction
<1> QED BY <1>3 DEF T

-----------------------------------------------------------------------------
(* Winners among the requests of a port.                                   *)

\* The sizes and the ports; no port is None.
LEMMA Numbers ==
  ASSUME AllocatorAssumption
  PROVE  /\ Ins \in Nat \ {0} /\ Outs \in Nat \ {0} /\ Iters \in Nat \ {0}
         /\ I \subseteq Nat /\ O \subseteq Nat /\ None \notin I /\ None \notin O
         /\ IsFiniteSet(I) /\ Cardinality(I) = Ins
         /\ IsFiniteSet(O) /\ Cardinality(O) = Outs
<1>1. Ins \in Nat \ {0} /\ Outs \in Nat \ {0} /\ Iters \in Nat \ {0}
  BY DEF AllocatorAssumption
<1>2. I \subseteq Nat /\ O \subseteq Nat /\ None \notin I /\ None \notin O
  BY <1>1 DEF I, O, Upto, None
<1>3. IsFiniteSet(I) /\ Cardinality(I) = Ins /\ IsFiniteSet(O) /\ Cardinality(O) = Outs
  BY <1>1, UptoFinite DEF I, O
<1> QED BY <1>1, <1>2, <1>3

\* An arbiter without requests grants None, with requests one of them.
LEMMA SomeWinner ==
  ASSUME NEW n \in Nat \ {0}, NEW type, NEW prio, FlatState(type, n, prio), NEW f, Requests(n, f)
  PROVE  /\ DOMAIN f = {} => FlatWinner(type, n, prio, f) = None
         /\ DOMAIN f # {} => FlatWinner(type, n, prio, f) \in DOMAIN f
<1>1. ASSUME DOMAIN f = {} PROVE FlatWinner(type, n, prio, f) = None
  <2>1. Cardinality(DOMAIN f) # 1
    BY <1>1, FS_EmptySet
  <2> QED BY <1>1, <2>1 DEF FlatWinner, MatrixWinner, RoundRobinWinner
<1> QED BY <1>1, WinnerLeads

\* The same of the rule that islip, select and loa use without an arbiter.
LEMMA SomeRoundRobinWinner ==
  ASSUME NEW n \in Nat \ {0}, NEW p \in Upto(n), NEW f, Requests(n, f)
  PROVE  /\ DOMAIN f = {} => RoundRobinWinner(n, p, f) = None
         /\ DOMAIN f # {} => RoundRobinWinner(n, p, f) \in DOMAIN f
<1>1. FlatState("pointer", n, p)
  BY DEF FlatState
<1>2. FlatWinner("pointer", n, p, f) = RoundRobinWinner(n, p, f)
  BY DEF FlatWinner
<1> QED BY <1>1, <1>2, SomeWinner

IsRequests(rs) ==
  DOMAIN rs \subseteq I \X O /\ \A r \in DOMAIN rs : rs[r].in \in Int /\ rs[r].out \in Int

\* The requests of one port are requests that an arbiter understands.
LEMMA PortRequests ==
  ASSUME NEW rs, IsRequests(rs)
  PROVE  /\ \A i \in I : /\ Requests(Outs, OfInput(rs, i))
                         /\ DOMAIN OfInput(rs, i) = {o \in O : <<i, o>> \in DOMAIN rs}
         /\ \A o \in O : /\ Requests(Ins, OfOutput(rs, o))
                         /\ DOMAIN OfOutput(rs, o) = {i \in I : <<i, o>> \in DOMAIN rs}
  BY DEF IsRequests, Requests, OfInput, OfOutput, I, O

\* So are some of them,
LEMMA OnlyRequests ==
  ASSUME NEW n, NEW f, Requests(n, f), NEW S
  PROVE  Requests(n, Only(f, S)) /\ DOMAIN Only(f, S) = DOMAIN f \cap S
  BY DEF Requests, Only

\* the requests of an input for the outputs in S,
LEMMA SomeOfInput ==
  ASSUME NEW rs, IsRequests(rs), NEW i \in I, NEW S
  PROVE  LET f == Only(OfInput(rs, i), S)
         IN Requests(Outs, f) /\ DOMAIN f = {o \in O : <<i, o>> \in DOMAIN rs} \cap S
<1> DEFINE f == OfInput(rs, i)
<1>1. Requests(Outs, f) /\ DOMAIN f = {o \in O : <<i, o>> \in DOMAIN rs}
  BY PortRequests
<1> HIDE DEF f
<1>2. Requests(Outs, Only(f, S)) /\ DOMAIN Only(f, S) = DOMAIN f \cap S
  BY <1>1, OnlyRequests
<1> QED BY <1>1, <1>2 DEF f

\* those of an output from the inputs in S,
LEMMA SomeOfOutput ==
  ASSUME NEW rs, IsRequests(rs), NEW o \in O, NEW S
  PROVE  LET f == Only(OfOutput(rs, o), S)
         IN Requests(Ins, f) /\ DOMAIN f = {i \in I : <<i, o>> \in DOMAIN rs} \cap S
<1> DEFINE f == OfOutput(rs, o)
<1>1. Requests(Ins, f) /\ DOMAIN f = {i \in I : <<i, o>> \in DOMAIN rs}
  BY PortRequests
<1> HIDE DEF f
<1>2. Requests(Ins, Only(f, S)) /\ DOMAIN Only(f, S) = DOMAIN f \cap S
  BY <1>1, OnlyRequests
<1> QED BY <1>1, <1>2 DEF f

\* and requests whose priorities are not looked at.
LEMMA FlatRequests ==
  ASSUME NEW n, NEW f, Requests(n, f)
  PROVE  Requests(n, Flat(f)) /\ DOMAIN Flat(f) = DOMAIN f
  BY DEF Requests, Flat

-----------------------------------------------------------------------------
(* Matchings and how they grow.                                            *)

InSide  == [I -> O \cup {None}]
OutSide == [O -> I \cup {None}]

\* The two halves of an allocation agree on a matching among the requests asked.
Agree(in, out, asked) ==
  /\ in \in InSide /\ out \in OutSide
  /\ \A i \in I, o \in O : (in[i] = o <=> out[o] = i) /\ (in[i] = o => <<i, o>> \in asked)

\* No request has both ends free.
NoOpen(in, out, asked) ==
  \A i \in I, o \in O : <<i, o>> \in asked => in[i] # None \/ out[o] # None

Served(in) == {i \in I : in[i] # None}
Taken(out) == {o \in O : out[o] # None}

\* After k rounds no request is open, or k inputs and k outputs are matched.
Progress(in, out, asked, k) ==
  NoOpen(in, out, asked) \/ (Cardinality(Served(in)) >= k /\ Cardinality(Taken(out)) >= k)

\* The empty matching agrees with itself.
LEMMA StartAgrees ==
  ASSUME AllocatorAssumption, NEW asked
  PROVE  Agree(NoMatch.in, NoMatch.out, asked) /\ Progress(NoMatch.in, NoMatch.out, asked, 0)
<1>1. Agree(NoMatch.in, NoMatch.out, asked)
  BY Numbers DEF NoMatch, Agree, InSide, OutSide
<1>2. \A S \in SUBSET I : Cardinality(S) >= 0
  BY UptoFinite, Numbers DEF I
<1>3. \A S \in SUBSET O : Cardinality(S) >= 0
  BY UptoFinite, Numbers DEF O
<1> QED BY <1>1, <1>2, <1>3 DEF Progress, Served, Taken

\* A set that gains a member has one more.
LEMMA OneMore ==
  ASSUME NEW n \in Nat, NEW S \in SUBSET Upto(n), NEW T \in SUBSET Upto(n),
         S \subseteq T, NEW x \in T \ S, NEW k \in Nat, Cardinality(S) >= k
  PROVE  Cardinality(T) >= k + 1
<1>1. S # T /\ IsFiniteSet(T) /\ IsFiniteSet(S) /\ Cardinality(S) \in Nat /\ Cardinality(T) \in Nat
  BY UptoFinite
<1>2. Cardinality(S) < Cardinality(T)
  BY <1>1, FS_Subset
<1> QED BY <1>1, <1>2

\* A round of grants to free inputs by free outputs, of which those accepted are added.
LEMMA Augmented ==
  ASSUME AllocatorAssumption, NEW asked,
         NEW in, NEW out, Agree(in, out, asked), NEW k \in Nat, Progress(in, out, asked, k),
         NEW accepted \in InSide, NEW grants \in OutSide,
         \A i \in I, o \in O : accepted[i] = o => grants[o] = i,
         \A i \in I, o \in O : grants[o] = i => in[i] = None /\ out[o] = None /\ <<i, o>> \in asked,
         NoOpen(in, out, asked) \/ \E i \in I : accepted[i] # None,
         NEW in2 \in InSide, NEW out2 \in OutSide,
         \A i \in I : in2[i] = IF accepted[i] = None THEN in[i] ELSE accepted[i],
         \A o \in O : out2[o] = IF \E i \in I : accepted[i] = o THEN grants[o] ELSE out[o]
  PROVE  Agree(in2, out2, asked) /\ Progress(in2, out2, asked, k + 1)
<1>1. None \notin I /\ None \notin O
  BY Numbers
<1>2. \A i \in I, o \in O : accepted[i] = o =>
        grants[o] = i /\ in[i] = None /\ out[o] = None /\ <<i, o>> \in asked
  <2> SUFFICES ASSUME NEW i \in I, NEW o \in O, accepted[i] = o
               PROVE  grants[o] = i /\ in[i] = None /\ out[o] = None /\ <<i, o>> \in asked
    OBVIOUS
  <2>1. grants[o] = i
    OBVIOUS
  <2> QED BY <2>1
<1>3. ASSUME NEW i \in I, NEW o \in O PROVE (in2[i] = o <=> out2[o] = i) /\ (in2[i] = o => <<i, o>> \in asked)
  <2>1. (in[i] = o <=> out[o] = i) /\ (in[i] = o => <<i, o>> \in asked)
    BY DEF Agree
  <2>2. ASSUME in2[i] = o PROVE out2[o] = i /\ <<i, o>> \in asked
    <3>1. CASE accepted[i] = o
      BY <1>2, <3>1
    <3>2. CASE accepted[i] # o
      <4>1. in[i] = o /\ out[o] = i /\ <<i, o>> \in asked
        BY <2>1, <2>2, <3>2
      <4>2. \A x \in I : accepted[x] # o
        <5> SUFFICES ASSUME NEW x \in I, accepted[x] = o PROVE FALSE
          OBVIOUS
        <5>1. out[o] = None
          BY <1>2
        <5> QED BY <1>1, <4>1, <5>1
      <4> QED BY <4>1, <4>2
    <3> QED BY <3>1, <3>2
  <2>3. ASSUME out2[o] = i PROVE in2[i] = o
    <3>1. CASE \E x \in I : accepted[x] = o
      BY <1>1, <2>3, <3>1
    <3>2. CASE \A x \in I : accepted[x] # o
      <4>1. in[i] = o
        BY <2>1, <2>3, <3>2
      <4>2. accepted[i] = None
        <5>1. accepted[i] \in O \cup {None}
          BY DEF InSide
        <5>2. \A y \in O : accepted[i] # y
          BY <1>1, <1>2, <4>1
        <5> QED BY <5>1, <5>2
      <4> QED BY <4>1, <4>2
    <3> QED BY <3>1, <3>2
  <2> QED BY <2>2, <2>3
<1>4. \A i \in I : in[i] # None => in2[i] # None
  OBVIOUS
<1>5. \A o \in O : out[o] # None => out2[o] # None
  BY <1>1
<1>6. ASSUME ~NoOpen(in, out, asked) PROVE Cardinality(Served(in2)) >= k + 1 /\ Cardinality(Taken(out2)) >= k + 1
  <2>1. PICK i \in I : accepted[i] # None
    BY <1>6
  <2>2. PICK o \in O : accepted[i] = o
    BY <2>1 DEF InSide
  <2>3. in[i] = None /\ out[o] = None /\ in2[i] # None /\ out2[o] # None
    <3>1. in[i] = None /\ out[o] = None /\ grants[o] = i
      BY <1>2, <2>2
    <3>2. in2[i] = o /\ out2[o] = i
      BY <1>1, <2>2, <3>1
    <3> QED BY <1>1, <3>1, <3>2
  <2>4. i \in Served(in2) \ Served(in) /\ o \in Taken(out2) \ Taken(out)
    BY <2>3 DEF Served, Taken
  <2>5. Served(in) \subseteq Served(in2) /\ Taken(out) \subseteq Taken(out2)
    BY <1>4, <1>5 DEF Served, Taken
  <2>6. /\ Served(in) \in SUBSET Upto(Ins) /\ Served(in2) \in SUBSET Upto(Ins)
        /\ Taken(out) \in SUBSET Upto(Outs) /\ Taken(out2) \in SUBSET Upto(Outs)
    BY DEF Served, Taken, I, O
  <2>7. Cardinality(Served(in)) >= k /\ Cardinality(Taken(out)) >= k
    BY <1>6 DEF Progress
  <2> QED BY <2>4, <2>5, <2>6, <2>7, OneMore, Numbers
<1>7. NoOpen(in, out, asked) => NoOpen(in2, out2, asked)
  BY <1>4, <1>5 DEF NoOpen
<1> QED BY <1>3, <1>6, <1>7 DEF Agree, Progress

\* What has progressed has granted something, and after as many rounds as there are
\* inputs or outputs it has left nothing open.
LEMMA ProgressPays ==
  ASSUME AllocatorAssumption, NEW asked \in SUBSET (I \X O),
         NEW in, NEW out, Agree(in, out, asked), NEW k \in Nat, Progress(in, out, asked, k)
  PROVE  /\ k > 0 /\ asked # {} => \E i \in I : in[i] # None
         /\ k >= Min({Ins, Outs}) => NoOpen(in, out, asked)
<1>1. Served(in) \in SUBSET I /\ Taken(out) \in SUBSET O
  BY DEF Served, Taken
<1>2. ASSUME k > 0, asked # {} PROVE \E i \in I : in[i] # None
  <2>1. CASE NoOpen(in, out, asked)
    <3>1. PICK i \in I, o \in O : <<i, o>> \in asked
      BY <1>2
    <3>2. CASE in[i] # None
      BY <3>2
    <3>3. CASE out[o] # None
      <4>1. PICK x \in I : out[o] = x
        BY <3>3 DEF Agree, OutSide
      <4> QED BY <4>1, Numbers DEF Agree
    <3> QED BY <2>1, <3>1, <3>2, <3>3 DEF NoOpen
  <2>2. CASE Cardinality(Served(in)) >= k
    <3>1. Served(in) # {}
      BY <1>2, <2>2, FS_EmptySet
    <3> QED BY <3>1 DEF Served
  <2> QED BY <2>1, <2>2 DEF Progress
<1>3. ASSUME k >= Min({Ins, Outs}), ~NoOpen(in, out, asked) PROVE FALSE
  <2>1. Min({Ins, Outs}) = Ins \/ Min({Ins, Outs}) = Outs
    <3>1. \E x \in {Ins, Outs} : \A y \in {Ins, Outs} : x <= y
      BY Numbers
    <3> QED BY <3>1 DEF Min
  <2>2. Cardinality(Served(in)) >= k /\ Cardinality(Taken(out)) >= k
    BY <1>3 DEF Progress
  <2>3. CASE k >= Ins
    <3>1. Served(in) = I
      <4>1. Cardinality(Served(in)) \in Nat /\ Cardinality(Served(in)) >= Ins
        BY <1>1, <2>2, <2>3, Numbers, UptoFinite DEF I
      <4>2. Served(in) # I => Cardinality(Served(in)) < Ins
        <5>1. Served(in) \in SUBSET I /\ IsFiniteSet(I) /\ Cardinality(I) = Ins
          BY <1>1, Numbers
        <5> QED BY <5>1, FS_Subset, FS_CardinalityType
      <4> QED BY <4>1, <4>2, Numbers
    <3> QED BY <1>3, <3>1 DEF NoOpen, Served
  <2>4. CASE k >= Outs
    <3>1. Taken(out) = O
      <4>1. Cardinality(Taken(out)) \in Nat /\ Cardinality(Taken(out)) >= Outs
        BY <1>1, <2>2, <2>4, Numbers, UptoFinite DEF O
      <4>2. Taken(out) # O => Cardinality(Taken(out)) < Outs
        <5>1. Taken(out) \in SUBSET O /\ IsFiniteSet(O) /\ Cardinality(O) = Outs
          BY <1>1, Numbers
        <5> QED BY <5>1, FS_Subset, FS_CardinalityType
      <4> QED BY <4>1, <4>2, Numbers
    <3> QED BY <1>3, <3>1 DEF NoOpen, Taken
  <2> QED BY <1>3, <2>1, <2>3, <2>4
<1> QED BY <1>2, <1>3

-----------------------------------------------------------------------------
(* Pick on one side, grant on the other: separable allocators and LOA.     *)

\* Inputs pick outputs that they ask for, and outputs grant one of their pickers.
LEMMA PicksOfInputs ==
  ASSUME AllocatorAssumption, NEW asked \in SUBSET (I \X O),
         NEW picks \in InSide, NEW wins \in OutSide,
         \A i \in I, o \in O : picks[i] = o => <<i, o>> \in asked,
         \A i \in I, o \in O : <<i, o>> \in asked => picks[i] # None,
         \A i \in I, o \in O : wins[o] = i => picks[i] = o,
         \A i \in I, o \in O : picks[i] = o => wins[o] # None,
         NEW in \in InSide,
         \A i \in I : in[i] = IF picks[i] # None /\ wins[picks[i]] = i THEN picks[i] ELSE None
  PROVE  Agree(in, wins, asked) /\ (asked # {} => \E i \in I : in[i] # None)
<1>1. None \notin I /\ None \notin O
  BY Numbers
<1>2. ASSUME NEW i \in I, NEW o \in O PROVE (in[i] = o <=> wins[o] = i) /\ (in[i] = o => <<i, o>> \in asked)
  BY <1>1
<1>3. ASSUME asked # {} PROVE \E i \in I : in[i] # None
  <2>1. PICK i \in I, o \in O : <<i, o>> \in asked
    BY <1>3
  <2>2. PICK q \in O : picks[i] = q
    BY <2>1 DEF InSide
  <2>3. PICK w \in I : wins[q] = w
    BY <2>2 DEF OutSide
  <2>4. in[w] = q
    BY <1>2, <2>3
  <2> QED BY <1>1, <2>4
<1> QED BY <1>2, <1>3 DEF Agree

\* Outputs pick inputs that ask for them, and inputs accept one of their pickers.
LEMMA PicksOfOutputs ==
  ASSUME AllocatorAssumption, NEW asked \in SUBSET (I \X O),
         NEW picks \in OutSide, NEW wins \in InSide,
         \A i \in I, o \in O : picks[o] = i => <<i, o>> \in asked,
         \A i \in I, o \in O : <<i, o>> \in asked => picks[o] # None,
         \A i \in I, o \in O : wins[i] = o => picks[o] = i,
         \A i \in I, o \in O : picks[o] = i => wins[i] # None,
         NEW out \in OutSide,
         \A o \in O : out[o] = IF picks[o] # None /\ wins[picks[o]] = o THEN picks[o] ELSE None
  PROVE  Agree(wins, out, asked) /\ (asked # {} => \E i \in I : wins[i] # None)
<1>1. None \notin I /\ None \notin O
  BY Numbers
<1>2. ASSUME NEW i \in I, NEW o \in O PROVE (wins[i] = o <=> out[o] = i) /\ (wins[i] = o => <<i, o>> \in asked)
  BY <1>1
<1>3. ASSUME asked # {} PROVE \E i \in I : wins[i] # None
  <2>1. PICK i \in I, o \in O : <<i, o>> \in asked
    BY <1>3
  <2>2. PICK q \in I : picks[o] = q
    BY <2>1 DEF OutSide
  <2> QED BY <2>2
<1> QED BY <1>2, <1>3 DEF Agree

-----------------------------------------------------------------------------
(* Pointers.                                                               *)

States(type, n) ==
  IF type = "matrix" THEN {m \in [Upto(n) \X Upto(n) -> BOOLEAN] : IsStrictOrder(m, n)} ELSE Upto(n)

PtrType(a) ==
  IF a \in {"separable_input_first", "separable_output_first"} THEN ArbType ELSE "pointer"

Ptrs(a) == [in : [I -> States(PtrType(a), Outs)], out : [O -> States(PtrType(a), Ins)], diag : Nat]

\* States is the set of what FlatState allows.
LEMMA StatesAreFlat ==
  ASSUME NEW type, NEW n, NEW prio
  PROVE  prio \in States(type, n) <=> FlatState(type, n, prio)
  BY DEF States, FlatState

\* The algorithms without arbiters keep a pointer per port.
LEMMA PlainPtrs ==
  ASSUME NEW a, a \notin {"separable_input_first", "separable_output_first"}
  PROVE  Ptrs(a) = [in : [I -> O], out : [O -> I], diag : Nat]
  BY DEF Ptrs, PtrType, States, I, O

\* A pointer that moves on stays in range.
LEMMA NextInRange ==
  ASSUME NEW n \in Nat \ {0}, NEW x \in Upto(n)
  PROVE  (x + 1) % n \in Upto(n)
<1>1. x + 1 \in Int
  BY DEF Upto
<1> QED BY <1>1, Remainder DEF Upto

-----------------------------------------------------------------------------
(* iSLIP and SelAlloc.                                                     *)

\* What every round preserves, the result has.
LEMMA SlipRuns ==
  ASSUME NEW a, NEW rs, NEW p, Iters \in Nat, NEW S, SlipStart(p) \in S[0],
         \A k \in 1 .. Iters : \A x \in S[k - 1] : SlipRound(a, rs, x, k - 1) \in S[k]
  PROVE  \E s \in S[Iters] : Slip(a, rs, p) = [in |-> s.in, out |-> s.out, ptr |-> s.ptr]
<1> DEFINE step == [k \in 1 .. Iters |-> [x \in S[k - 1] |-> SlipRound(a, rs, x, k - 1)]]
           start == SlipStart(p)
<1>1. \A k \in 1 .. Iters : \A x \in S[k - 1] : step[k][x] = SlipRound(a, rs, x, k - 1) /\ step[k][x] \in S[k]
  OBVIOUS
<1> HIDE DEF step, start
<1>2. PICK f : IsRun(f, Iters, S, start, step)
  BY <1>1, Iteration DEF CanRun, start
<1>3. /\ f = [k \in 0 .. Iters |-> f[k]] /\ f[0] = start
      /\ \A k \in 1 .. Iters : f[k] = SlipRound(a, rs, f[k - 1], k - 1)
  BY <1>1, <1>2 DEF IsRun
<1> DEFINE value == [k \in 0 .. Iters |-> IF k = 0 THEN start ELSE SlipRound(a, rs, f[k - 1], k - 1)]
<1>4. f = value
  <2>1. \A k \in 0 .. Iters : f[k] = value[k]
    <3> TAKE k \in 0 .. Iters
    <3>1. CASE k = 0
      BY <1>3, <3>1
    <3>2. CASE k \in 1 .. Iters
      BY <1>3, <3>2
    <3> QED BY <3>1, <3>2
  <2>2. value = [k \in 0 .. Iters |-> value[k]]
    OBVIOUS
  <2> HIDE DEF value
  <2> QED BY <1>3, <2>1, <2>2
<1> DEFINE after == CHOOSE g : g = [k \in 0 .. Iters |-> IF k = 0 THEN SlipStart(p)
                                                       ELSE SlipRound(a, rs, g[k - 1], k - 1)]
<1>5. after = [k \in 0 .. Iters |-> IF k = 0 THEN SlipStart(p) ELSE SlipRound(a, rs, after[k - 1], k - 1)]
  BY <1>4 DEF start
<1>6. Slip(a, rs, p) = [in |-> after[Iters].in, out |-> after[Iters].out, ptr |-> after[Iters].ptr]
  BY DEF Slip
<1> HIDE DEF after
<1>7. /\ after[0] = SlipStart(p)
      /\ \A k \in 1 .. Iters : after[k] = SlipRound(a, rs, after[k - 1], k - 1)
  BY <1>5
<1>8. after[Iters] \in S[Iters]
  <2>1. \A k \in 1 .. Iters : after[k - 1] \in S[k - 1] => after[k] \in S[k]
    BY <1>7
  <2> QED BY <1>7, <2>1, IterationStays
<1> QED BY <1>6, <1>8

SlipStates(a, rs, k) ==
  {s \in [in : InSide, out : OutSide, ptr : Ptrs(a), grants : OutSide] :
     /\ Agree(s.in, s.out, DOMAIN rs)
     /\ Progress(s.in, s.out, DOMAIN rs, k)
     /\ k = 0 => \A o \in O : s.grants[o] = None}

\* A round matches free ports only.  SelAlloc keeps grants of earlier rounds, and does
\* so only in its first round.
LEMMA SlipRoundStays ==
  ASSUME AllocatorAssumption, NEW a \in {"islip", "select"}, a = "select" => Iters = 1,
         NEW rs, IsRequests(rs), NEW k \in 1 .. Iters, NEW s \in SlipStates(a, rs, k - 1)
  PROVE  SlipRound(a, rs, s, k - 1) \in SlipStates(a, rs, k)
<1> DEFINE asked == DOMAIN rs
           free(o) == Only(OfOutput(rs, o), Free(s.in))
           bids(o) == IF a = "islip" THEN Flat(free(o)) ELSE free(o)
           best(o) == RoundRobinWinner(Ins, s.ptr.out[o], bids(o))
           grants == Grants(a, rs, s.ptr, s)
           given(i) == Only(OfInput(rs, i), {o \in O : grants[o] = i})
           offers(i) == IF a = "islip" THEN Flat(given(i)) ELSE given(i)
           accepted == Accepts(a, rs, s.ptr, grants)
           t == SlipRound(a, rs, s, k - 1)
<1>1. /\ s.in \in InSide /\ s.out \in OutSide /\ s.grants \in OutSide
      /\ s.ptr \in [in : [I -> O], out : [O -> I], diag : Nat]
      /\ Agree(s.in, s.out, asked) /\ Progress(s.in, s.out, asked, k - 1)
      /\ a = "select" => \A o \in O : s.grants[o] = None
  <2>1. s \in [in : InSide, out : OutSide, ptr : Ptrs(a), grants : OutSide]
    BY DEF SlipStates
  <2>2. Agree(s.in, s.out, asked) /\ Progress(s.in, s.out, asked, k - 1)
    BY DEF SlipStates
  <2>3. a = "select" => \A o \in O : s.grants[o] = None
    <3> HAVE a = "select"
    <3>1. k - 1 = 0
      OBVIOUS
    <3> QED BY <3>1 DEF SlipStates
  <2>4. s.ptr \in Ptrs(a) /\ Ptrs(a) = [in : [I -> O], out : [O -> I], diag : Nat]
    BY <2>1, PlainPtrs
  <2> QED BY <2>1, <2>2, <2>3, <2>4
<1>2. /\ Ins \in Nat \ {0} /\ Outs \in Nat \ {0} /\ None \notin I /\ None \notin O
      /\ I = Upto(Ins) /\ O = Upto(Outs)
  BY Numbers DEF I, O
<1>3. ASSUME NEW o \in O
      PROVE  /\ best(o) = None => \A i \in I : <<i, o>> \in asked => s.in[i] # None
             /\ best(o) # None => best(o) \in I /\ <<best(o), o>> \in asked /\ s.in[best(o)] = None
  <2>1. Requests(Ins, free(o)) /\ DOMAIN free(o) = {i \in I : <<i, o>> \in asked} \cap Free(s.in)
    BY SomeOfOutput
  <2>2. Requests(Ins, bids(o)) /\ DOMAIN bids(o) = DOMAIN free(o)
    <3> HIDE DEF free
    <3> QED BY <2>1, FlatRequests
  <2>3. s.ptr.out[o] \in Upto(Ins)
    BY <1>1, <1>2
  <2>4. /\ DOMAIN free(o) = {} => best(o) = None
        /\ DOMAIN free(o) # {} => best(o) \in DOMAIN free(o)
    <3> HIDE DEF bids, free
    <3> QED BY <1>2, <2>2, <2>3, SomeRoundRobinWinner
  <2>5. Free(s.in) = {i \in I : s.in[i] = None}
    BY <1>1 DEF Free, InSide
  <2> HIDE DEF best, free
  <2> QED BY <1>2, <2>1, <2>4, <2>5
<1>4. \A o \in O : grants[o] = IF s.out[o] = None /\ best(o) # None THEN best(o)
                               ELSE IF a = "islip" THEN None ELSE s.grants[o]
  BY DEF Grants
<1>5. grants = [o \in O |-> grants[o]]
  BY DEF Grants
<1> HIDE DEF best, grants
<1>6. \A o \in O : grants[o] = IF s.out[o] = None /\ best(o) # None THEN best(o) ELSE None
  BY <1>1, <1>4
<1>7. grants \in OutSide
  <2>1. \A o \in O : grants[o] \in I \cup {None}
    BY <1>3, <1>6
  <2> QED BY <1>5, <2>1 DEF OutSide
<1>8. \A i \in I, o \in O : grants[o] = i => s.in[i] = None /\ s.out[o] = None /\ <<i, o>> \in asked
  BY <1>2, <1>3, <1>6
<1>9. ASSUME NEW i \in I
      PROVE  /\ \A o \in O : accepted[i] = o => grants[o] = i
             /\ \A o \in O : grants[o] = i => accepted[i] # None
             /\ accepted[i] \in O \cup {None}
  <2>1. Requests(Outs, given(i)) /\ DOMAIN given(i) = {o \in O : <<i, o>> \in asked} \cap {o \in O : grants[o] = i}
    <3> DEFINE mine == {o \in O : grants[o] = i}
    <3> HIDE DEF mine
    <3>1. LET f == Only(OfInput(rs, i), mine)
          IN Requests(Outs, f) /\ DOMAIN f = {o \in O : <<i, o>> \in asked} \cap mine
      BY SomeOfInput
    <3> QED BY <3>1 DEF mine
  <2>2. Requests(Outs, offers(i)) /\ DOMAIN offers(i) = DOMAIN given(i)
    <3> HIDE DEF given
    <3> QED BY <2>1, FlatRequests
  <2>3. s.ptr.in[i] \in Upto(Outs)
    BY <1>1, <1>2
  <2>4. accepted[i] = RoundRobinWinner(Outs, s.ptr.in[i], offers(i))
    BY DEF Accepts
  <2> HIDE DEF offers, given, accepted
  <2>5. /\ DOMAIN given(i) = {} => accepted[i] = None
        /\ DOMAIN given(i) # {} => accepted[i] \in DOMAIN given(i)
    BY <1>2, <2>2, <2>3, <2>4, SomeRoundRobinWinner
  <2> QED BY <1>2, <1>8, <2>1, <2>5
<1>10. accepted \in InSide
  <2>1. accepted = [i \in I |-> accepted[i]]
    BY DEF Accepts
  <2> HIDE DEF accepted
  <2> QED BY <1>9, <2>1 DEF InSide
<1>11. /\ t = [in |-> t.in, out |-> t.out, ptr |-> t.ptr, grants |-> t.grants]
       /\ t.in = [i \in I |-> IF accepted[i] = None THEN s.in[i] ELSE accepted[i]]
       /\ t.out = [o \in O |-> IF AcceptedBy(accepted, o) = {} THEN s.out[o] ELSE Max(AcceptedBy(accepted, o))]
       /\ t.ptr = SlipPtr(s.ptr, accepted, k - 1)
       /\ t.grants = grants
  BY DEF SlipRound, grants
<1> HIDE DEF t, accepted
<1>12. ASSUME NEW o \in O
       PROVE  /\ AcceptedBy(accepted, o) = {} <=> ~ \E i \in I : accepted[i] = o
              /\ AcceptedBy(accepted, o) # {} => Max(AcceptedBy(accepted, o)) = grants[o] /\ grants[o] \in I
  <2>1. ASSUME NEW i \in I, accepted[i] = o PROVE AcceptedBy(accepted, o) = {i} /\ grants[o] = i
    BY <1>9, <2>1 DEF AcceptedBy
  <2>2. \A i \in I : Max({i}) = i
    BY Numbers DEF Max
  <2> QED BY <2>1, <2>2 DEF AcceptedBy
<1>13. t.in \in InSide /\ \A i \in I : t.in[i] = IF accepted[i] = None THEN s.in[i] ELSE accepted[i]
  BY <1>1, <1>10, <1>11 DEF InSide
<1>14. t.out \in OutSide /\ \A o \in O : t.out[o] = IF \E i \in I : accepted[i] = o THEN grants[o] ELSE s.out[o]
  <2>1. \A o \in O : t.out[o] = IF \E i \in I : accepted[i] = o THEN grants[o] ELSE s.out[o]
    BY <1>11, <1>12
  <2>2. \A o \in O : t.out[o] \in I \cup {None}
    BY <1>1, <1>7, <2>1 DEF OutSide
  <2>3. t.out = [o \in O |-> t.out[o]]
    BY <1>11
  <2> QED BY <2>1, <2>2, <2>3 DEF OutSide
<1>15. NoOpen(s.in, s.out, asked) \/ \E i \in I : accepted[i] # None
  <2> SUFFICES ASSUME NEW i \in I, NEW o \in O, <<i, o>> \in asked, s.in[i] = None, s.out[o] = None
               PROVE  \E x \in I : accepted[x] # None
    BY DEF NoOpen
  <2>1. best(o) # None /\ best(o) \in I
    BY <1>3
  <2>2. grants[o] = best(o)
    BY <1>6, <2>1
  <2> QED BY <1>9, <2>1, <2>2
<1>16. Agree(t.in, t.out, asked) /\ Progress(t.in, t.out, asked, k)
  <2>1. k - 1 \in Nat /\ (k - 1) + 1 = k
    OBVIOUS
  <2>2. \A i \in I, o \in O : accepted[i] = o => grants[o] = i
    BY <1>9
  <2> HIDE DEF asked
  <2>3. Agree(t.in, t.out, asked) /\ Progress(t.in, t.out, asked, (k - 1) + 1)
    BY <1>1, <1>7, <1>8, <1>10, <1>13, <1>14, <1>15, <2>1, <2>2, Augmented
  <2> QED BY <2>1, <2>3
<1>17. t.ptr \in [in : [I -> O], out : [O -> I], diag : Nat]
  <2>1. CASE k - 1 > 0
    BY <1>1, <1>11, <2>1 DEF SlipPtr
  <2>2. CASE k - 1 = 0
    <3> DEFINE ins == [i \in I |-> IF accepted[i] = None THEN s.ptr.in[i] ELSE (accepted[i] + 1) % Outs]
               outs == [o \in O |-> IF AcceptedBy(accepted, o) = {} THEN s.ptr.out[o]
                                    ELSE (Max(AcceptedBy(accepted, o)) + 1) % Ins]
    <3>1. t.ptr = [s.ptr EXCEPT !.in = ins, !.out = outs]
      BY <1>11, <2>2 DEF SlipPtr
    <3>2. \A i \in I : IF accepted[i] = None THEN s.ptr.in[i] \in O ELSE (accepted[i] + 1) % Outs \in O
      BY <1>1, <1>2, <1>9, NextInRange
    <3>3. \A o \in O : IF AcceptedBy(accepted, o) = {} THEN s.ptr.out[o] \in I
                       ELSE (Max(AcceptedBy(accepted, o)) + 1) % Ins \in I
      BY <1>1, <1>2, <1>12, NextInRange
    <3>4. ins \in [I -> O] /\ outs \in [O -> I]
      BY <3>2, <3>3
    <3> HIDE DEF ins, outs
    <3> QED BY <1>1, <3>1, <3>4
  <2> QED BY <2>1, <2>2
<1>18. t \in [in : InSide, out : OutSide, ptr : Ptrs(a), grants : OutSide]
  <2>1. t.ptr \in Ptrs(a)
    BY <1>17, PlainPtrs
  <2> QED BY <1>7, <1>11, <1>13, <1>14, <2>1
<1> QED BY <1>16, <1>18 DEF SlipStates, t

\* What an allocation promises beyond the agreement of its halves.
NoWorse(q, r, rs) ==
  rs[q].out > rs[r].out \/ (rs[q].out = rs[r].out /\ rs[q].in >= rs[r].in)

Honoured(rs, in) ==
  \A r \in DOMAIN rs : in[r[1]] # r[2] =>
    \E q \in DOMAIN rs : in[q[1]] = q[2] /\ (q[1] = r[1] \/ q[2] = r[2]) /\ NoWorse(q, r, rs)

GoodResult(a, rs, res) ==
  /\ res.ptr \in Ptrs(a)
  /\ Agree(res.in, res.out, DOMAIN rs)
  /\ DOMAIN rs # {} => \E i \in I : res.in[i] # None
  /\ a \in Maximal => NoOpen(res.in, res.out, DOMAIN rs)
  /\ a \in {"wavefront", "rr_wavefront"} => Honoured(rs, res.in)

\* islip and select: as many rounds as iterations.
LEMMA SlipIsGood ==
  ASSUME AllocatorAssumption, NEW a \in {"islip", "select"}, a = "select" => Iters = 1,
         NEW rs, IsRequests(rs), NEW p \in Ptrs(a)
  PROVE  GoodResult(a, rs, Slip(a, rs, p))
<1> DEFINE S == [k \in 0 .. Iters |-> SlipStates(a, rs, k)]
           start == SlipStart(p)
<1>1. Iters \in Nat \ {0}
  BY Numbers
<1>2. start \in S[0]
  <2>1. start.in \in InSide /\ start.out \in OutSide /\ start.grants \in OutSide
    BY DEF SlipStart, NoMatch, InSide, OutSide
  <2>2. Agree(start.in, start.out, DOMAIN rs) /\ Progress(start.in, start.out, DOMAIN rs, 0)
    BY StartAgrees DEF SlipStart
  <2>3. \A o \in O : start.grants[o] = None
    BY DEF SlipStart
  <2>4. start \in [in : InSide, out : OutSide, ptr : Ptrs(a), grants : OutSide]
    BY <2>1 DEF SlipStart
  <2> HIDE DEF start
  <2> QED BY <1>1, <2>2, <2>3, <2>4 DEF SlipStates
<1>3. \A k \in 1 .. Iters : \A x \in S[k - 1] : SlipRound(a, rs, x, k - 1) \in S[k]
  <2> TAKE k \in 1 .. Iters
  <2>1. S[k - 1] = SlipStates(a, rs, k - 1) /\ S[k] = SlipStates(a, rs, k)
    <3>1. k - 1 \in 0 .. Iters /\ k \in 0 .. Iters
      BY <1>1
    <3> QED BY <3>1
  <2> HIDE DEF S
  <2> QED BY <2>1, SlipRoundStays
<1> HIDE DEF S, start
<1>4. PICK s \in S[Iters] : Slip(a, rs, p) = [in |-> s.in, out |-> s.out, ptr |-> s.ptr]
  BY <1>1, <1>2, <1>3, SlipRuns DEF start
<1>5. s \in SlipStates(a, rs, Iters)
  BY <1>1 DEF S
<1>6. s.ptr \in Ptrs(a) /\ Agree(s.in, s.out, DOMAIN rs) /\ Progress(s.in, s.out, DOMAIN rs, Iters)
  BY <1>5 DEF SlipStates
<1>7. DOMAIN rs \in SUBSET (I \X O)
  BY DEF IsRequests
<1>8. /\ DOMAIN rs # {} => \E i \in I : s.in[i] # None
      /\ Iters >= Min({Ins, Outs}) => NoOpen(s.in, s.out, DOMAIN rs)
  BY <1>1, <1>6, <1>7, ProgressPays
<1>9. a \in Maximal => Iters >= Min({Ins, Outs})
  BY DEF Maximal
<1> QED BY <1>4, <1>6, <1>8, <1>9 DEF GoodResult

-----------------------------------------------------------------------------
(* PIM.                                                                    *)

PimStates(rs, k) ==
  {s \in [in : InSide, out : OutSide, ptr : Ptrs("pim")] :
     Agree(s.in, s.out, DOMAIN rs) /\ Progress(s.in, s.out, DOMAIN rs, k)}

\* Whatever is drawn, only free ports are matched.
LEMMA PimRoundStays ==
  ASSUME AllocatorAssumption, NEW rs, IsRequests(rs), NEW k \in Nat, NEW s \in PimStates(rs, k)
  PROVE  PimRound(rs, s) \subseteq PimStates(rs, k + 1)
<1> DEFINE asked == DOMAIN rs
<1> DEFINE After(a) == [s EXCEPT !.in  = [i \in I |-> IF a[i] = None THEN @[i] ELSE a[i]],
                                !.out = [o \in O |-> IF \E i \in I : a[i] = o
                                                     THEN CHOOSE i \in I : a[i] = o ELSE @[o]]]
           accepts == UNION {PimAccepts(g) : g \in PimGrants(rs, s)}
<1>0. PimRound(rs, s) = {After(a) : a \in accepts}
  BY DEF PimRound
<1> SUFFICES ASSUME NEW g \in PimGrants(rs, s), NEW a \in PimAccepts(g), NEW t, t = After(a)
             PROVE  t \in PimStates(rs, k + 1)
  <2> HIDE DEF After
  <2> QED BY <1>0
<1>1. /\ s \in [in : InSide, out : OutSide, ptr : Ptrs("pim")]
      /\ Agree(s.in, s.out, asked) /\ Progress(s.in, s.out, asked, k)
  BY DEF PimStates
<1>2. None \notin I /\ None \notin O
  BY Numbers
<1>3. g \in OutSide /\ a \in InSide
  BY DEF PimGrants, PimAccepts, OutSide, InSide
<1>4. \A i \in I : i \in Free(s.in) <=> s.in[i] = None
  BY <1>1 DEF Free, InSide
<1>5. ASSUME NEW o \in O
      PROVE  /\ \A i \in I : g[o] = i => s.in[i] = None /\ s.out[o] = None /\ <<i, o>> \in asked
             /\ \A i \in I : <<i, o>> \in asked /\ s.in[i] = None /\ s.out[o] = None => g[o] # None
  <2> DEFINE open == DOMAIN OfOutput(rs, o) \cap Free(s.in)
  <2>1. IF s.out[o] # None \/ open = {} THEN g[o] = None ELSE g[o] \in open
    BY DEF PimGrants
  <2>2. DOMAIN OfOutput(rs, o) = {i \in I : <<i, o>> \in asked}
    BY PortRequests
  <2> QED BY <1>2, <1>4, <2>1, <2>2
<1>6. ASSUME NEW i \in I
      PROVE  /\ \A o \in O : a[i] = o => g[o] = i
             /\ \A o \in O : g[o] = i => a[i] # None
  <2> DEFINE given == {o \in O : g[o] = i}
  <2>1. IF given = {} THEN a[i] = None ELSE a[i] \in given
    BY DEF PimAccepts
  <2> QED BY <1>2, <2>1
<1>7. t.in \in InSide /\ \A i \in I : t.in[i] = IF a[i] = None THEN s.in[i] ELSE a[i]
  <2>1. t.in = [i \in I |-> IF a[i] = None THEN s.in[i] ELSE a[i]]
    BY <1>1
  <2> QED BY <1>1, <1>3, <2>1 DEF InSide
<1>8. t.out \in OutSide /\ \A o \in O : t.out[o] = IF \E i \in I : a[i] = o THEN g[o] ELSE s.out[o]
  <2>1. t.out = [o \in O |-> IF \E i \in I : a[i] = o THEN CHOOSE i \in I : a[i] = o ELSE s.out[o]]
    BY <1>1
  <2>3. ASSUME NEW o \in O PROVE t.out[o] = IF \E i \in I : a[i] = o THEN g[o] ELSE s.out[o]
    <3> DEFINE w == CHOOSE i \in I : a[i] = o
    <3>1. t.out[o] = IF \E i \in I : a[i] = o THEN w ELSE s.out[o]
      BY <2>1
    <3>2. (\E i \in I : a[i] = o) => w \in I /\ a[w] = o
      OBVIOUS
    <3> HIDE DEF w
    <3>3. (\E i \in I : a[i] = o) => g[o] = w
      BY <1>6, <3>2
    <3> QED BY <3>1, <3>3
  <2>4. \A o \in O : t.out[o] \in I \cup {None}
    BY <1>1, <1>3, <2>3 DEF OutSide
  <2>5. t.out = [o \in O |-> t.out[o]]
    BY <2>1
  <2> QED BY <2>3, <2>4, <2>5 DEF OutSide
<1>9. NoOpen(s.in, s.out, asked) \/ \E i \in I : a[i] # None
  <2> SUFFICES ASSUME NEW i \in I, NEW o \in O, <<i, o>> \in asked, s.in[i] = None, s.out[o] = None
               PROVE  \E x \in I : a[x] # None
    BY DEF NoOpen
  <2>1. PICK x \in I : g[o] = x
    BY <1>3, <1>5 DEF OutSide
  <2> QED BY <1>6, <2>1
<1>10. Agree(t.in, t.out, asked) /\ Progress(t.in, t.out, asked, k + 1)
  <2>1. \A i \in I, o \in O : a[i] = o => g[o] = i
    BY <1>6
  <2>2. \A i \in I, o \in O : g[o] = i => s.in[i] = None /\ s.out[o] = None /\ <<i, o>> \in asked
    BY <1>5
  <2> HIDE DEF asked
  <2> QED BY <1>1, <1>3, <1>7, <1>8, <1>9, <2>1, <2>2, Augmented
<1>11. t \in [in : InSide, out : OutSide, ptr : Ptrs("pim")]
  BY <1>1, <1>7, <1>8
<1> QED BY <1>10, <1>11 DEF PimStates

\* pim: every sequence of draws is such a sequence of rounds.
LEMMA PimIsGood ==
  ASSUME AllocatorAssumption, NEW rs, IsRequests(rs), NEW p \in Ptrs("pim"), NEW res \in Pim(rs, p)
  PROVE  GoodResult("pim", rs, res)
<1> DEFINE first == [in |-> NoMatch.in, out |-> NoMatch.out, ptr |-> p]
           S == [k \in 0 .. Iters |-> SUBSET PimStates(rs, k)]
           Round(X) == UNION {PimRound(rs, x) : x \in X}
           step == [k \in 1 .. Iters |-> [X \in S[k - 1] |-> Round(X)]]
           start == {first}
<1>1. Iters \in Nat \ {0}
  BY Numbers
<1>2. start \in S[0]
  <2>1. first.in \in InSide /\ first.out \in OutSide
    BY DEF NoMatch, InSide, OutSide
  <2>2. Agree(first.in, first.out, DOMAIN rs) /\ Progress(first.in, first.out, DOMAIN rs, 0)
    BY StartAgrees
  <2>3. first \in [in : InSide, out : OutSide, ptr : Ptrs("pim")]
    BY <2>1
  <2>4. first \in PimStates(rs, 0)
    <3> HIDE DEF first
    <3> QED BY <2>2, <2>3 DEF PimStates
  <2> QED BY <1>1, <2>4
<1>3. \A k \in 1 .. Iters : \A X \in S[k - 1] : step[k][X] = Round(X) /\ Round(X) \in S[k]
  <2> TAKE k \in 1 .. Iters
  <2> TAKE X \in S[k - 1]
  <2>1. k - 1 \in 0 .. Iters /\ k \in 0 .. Iters /\ k - 1 \in Nat /\ (k - 1) + 1 = k
    BY <1>1
  <2>2. X \subseteq PimStates(rs, k - 1)
    BY <2>1
  <2>3. \A x \in X : PimRound(rs, x) \subseteq PimStates(rs, k)
    <3>1. \A x \in X : PimRound(rs, x) \subseteq PimStates(rs, (k - 1) + 1)
      BY <2>1, <2>2, PimRoundStays
    <3> QED BY <2>1, <3>1
  <2>4. Round(X) \subseteq PimStates(rs, k)
    BY <2>3
  <2> HIDE DEF Round
  <2> QED BY <2>1, <2>4
<1> HIDE DEF S, step, start
<1>4. PICK f : IsRun(f, Iters, S, start, step)
  <2> HIDE DEF Round
  <2>1. CanRun(Iters, S, start, step)
    BY <1>2, <1>3 DEF CanRun
  <2> QED BY <1>1, <2>1, Iteration
<1>5. /\ f = [k \in 0 .. Iters |-> f[k]] /\ f[0] = start
      /\ \A k \in 1 .. Iters : f[k] = Round(f[k - 1])
  <2> HIDE DEF Round
  <2> QED BY <1>3, <1>4 DEF IsRun
<1> DEFINE value == [k \in 0 .. Iters |-> IF k = 0 THEN start ELSE Round(f[k - 1])]
<1>6. f = value
  <2> HIDE DEF Round
  <2>1. \A k \in 0 .. Iters : f[k] = value[k]
    <3> TAKE k \in 0 .. Iters
    <3>1. CASE k = 0
      BY <1>5, <3>1
    <3>2. CASE k \in 1 .. Iters
      BY <1>5, <3>2
    <3> QED BY <3>1, <3>2
  <2>2. value = [k \in 0 .. Iters |-> value[k]]
    OBVIOUS
  <2> HIDE DEF value
  <2> QED BY <1>5, <2>1, <2>2
<1> DEFINE after == CHOOSE g : g = [k \in 0 .. Iters |-> IF k = 0 THEN {first} ELSE Round(g[k - 1])]
<1>7. after = [k \in 0 .. Iters |-> IF k = 0 THEN {first} ELSE Round(after[k - 1])]
  <2>1. f = [k \in 0 .. Iters |-> IF k = 0 THEN {first} ELSE Round(f[k - 1])]
    BY <1>6 DEF start
  <2> HIDE DEF Round, first
  <2> QED BY <2>1
<1>8. Pim(rs, p) = after[Iters]
  BY DEF Pim
<1> HIDE DEF after
<1>9. after[0] = start /\ \A k \in 1 .. Iters : after[k] = Round(after[k - 1])
  <2> DEFINE one == {first}
  <2>1. start = one
    BY DEF start
  <2>2. 0 \in 0 .. Iters /\ \A k \in 1 .. Iters : k \in 0 .. Iters /\ k # 0
    BY <1>1
  <2>3. after = [k \in 0 .. Iters |-> IF k = 0 THEN one ELSE Round(after[k - 1])]
    BY <1>7
  <2> HIDE DEF Round, one
  <2> QED BY <2>1, <2>2, <2>3
<1>10. after[Iters] \in S[Iters]
  <2>1. \A k \in 1 .. Iters : after[k - 1] \in S[k - 1] => after[k] \in S[k]
    <3> HIDE DEF Round
    <3> QED BY <1>3, <1>9
  <2> QED BY <1>1, <1>2, <1>9, <2>1, IterationStays
<1>11. res \in PimStates(rs, Iters)
  BY <1>1, <1>8, <1>10 DEF S
<1>12. res.ptr \in Ptrs("pim") /\ Agree(res.in, res.out, DOMAIN rs) /\ Progress(res.in, res.out, DOMAIN rs, Iters)
  BY <1>11 DEF PimStates
<1>13. DOMAIN rs \in SUBSET (I \X O)
  BY DEF IsRequests
<1>14. /\ DOMAIN rs # {} => \E i \in I : res.in[i] # None
       /\ Iters >= Min({Ins, Outs}) => NoOpen(res.in, res.out, DOMAIN rs)
  BY <1>1, <1>12, <1>13, ProgressPays
<1>15. "pim" \in Maximal => Iters >= Min({Ins, Outs})
  BY DEF Maximal
<1> QED BY <1>12, <1>14, <1>15 DEF GoodResult

-----------------------------------------------------------------------------
(* LOA and the separable allocators.                                       *)

\* A winner is one of the requests, and there is one if there are requests.
LEMMA WinsSome ==
  ASSUME NEW n \in Nat \ {0}, NEW type, NEW prio \in States(type, n), NEW f, Requests(n, f),
         NEW w, w = FlatWinner(type, n, prio, f)
  PROVE  /\ w \in Upto(n) \cup {None}
         /\ \A x \in Upto(n) : w = x => x \in DOMAIN f
         /\ DOMAIN f # {} => w \in Upto(n)
<1>1. FlatState(type, n, prio) /\ DOMAIN f \subseteq Upto(n) /\ None \notin Upto(n)
  BY StatesAreFlat DEF Requests, Upto, None
<1>2. (DOMAIN f = {} => w = None) /\ (DOMAIN f # {} => w \in DOMAIN f)
  BY <1>1, SomeWinner
<1> QED BY <1>1, <1>2

\* What the arbiter of an input grants among the outputs in S.
LEMMA InputWins ==
  ASSUME AllocatorAssumption, NEW rs, IsRequests(rs), NEW i \in I, NEW S,
         NEW type, NEW prio \in States(type, Outs),
         NEW w, w = FlatWinner(type, Outs, prio, Only(OfInput(rs, i), S))
  PROVE  /\ w \in O \cup {None}
         /\ \A o \in O : w = o => <<i, o>> \in DOMAIN rs /\ o \in S
         /\ \A o \in O : <<i, o>> \in DOMAIN rs /\ o \in S => w # None
<1> DEFINE f == Only(OfInput(rs, i), S)
           asked == OfInput(rs, i)
<1>1. w = FlatWinner(type, Outs, prio, f) /\ f = Only(asked, S)
  OBVIOUS
<1>2. Requests(Outs, asked) /\ DOMAIN asked = {o \in O : <<i, o>> \in DOMAIN rs}
  BY PortRequests
<1> HIDE DEF f, asked
<1>3. DOMAIN f = {o \in O : <<i, o>> \in DOMAIN rs} \cap S /\ Requests(Outs, f)
  BY <1>1, <1>2, OnlyRequests
<1>4. Outs \in Nat \ {0} /\ None \notin O /\ O = Upto(Outs)
  BY Numbers DEF O
<1>5. /\ w \in Upto(Outs) \cup {None}
      /\ \A x \in Upto(Outs) : w = x => x \in DOMAIN f
      /\ DOMAIN f # {} => w \in Upto(Outs)
  BY <1>1, <1>3, <1>4, WinsSome
<1> QED BY <1>3, <1>4, <1>5

\* What the arbiter of an output grants among the inputs in S.
LEMMA OutputWins ==
  ASSUME AllocatorAssumption, NEW rs, IsRequests(rs), NEW o \in O, NEW S,
         NEW type, NEW prio \in States(type, Ins),
         NEW w, w = FlatWinner(type, Ins, prio, Only(OfOutput(rs, o), S))
  PROVE  /\ w \in I \cup {None}
         /\ \A i \in I : w = i => <<i, o>> \in DOMAIN rs /\ i \in S
         /\ \A i \in I : <<i, o>> \in DOMAIN rs /\ i \in S => w # None
<1> DEFINE f == Only(OfOutput(rs, o), S)
           asked == OfOutput(rs, o)
<1>1. w = FlatWinner(type, Ins, prio, f) /\ f = Only(asked, S)
  OBVIOUS
<1>2. Requests(Ins, asked) /\ DOMAIN asked = {i \in I : <<i, o>> \in DOMAIN rs}
  BY PortRequests
<1> HIDE DEF f, asked
<1>3. DOMAIN f = {i \in I : <<i, o>> \in DOMAIN rs} \cap S /\ Requests(Ins, f)
  BY <1>1, <1>2, OnlyRequests
<1>4. Ins \in Nat \ {0} /\ None \notin I /\ I = Upto(Ins)
  BY Numbers DEF I
<1>5. /\ w \in Upto(Ins) \cup {None}
      /\ \A x \in Upto(Ins) : w = x => x \in DOMAIN f
      /\ DOMAIN f # {} => w \in Upto(Ins)
  BY <1>1, <1>3, <1>4, WinsSome
<1> QED BY <1>3, <1>4, <1>5

\* loa: inputs pick, outputs grant.
LEMMA LoaIsGood ==
  ASSUME AllocatorAssumption, NEW rs, IsRequests(rs), NEW p \in Ptrs("loa")
  PROVE  GoodResult("loa", rs, Loa(rs, p))
<1> DEFINE asked == DOMAIN rs
           wish(i) == [o \in DOMAIN OfInput(rs, i) |-> -Cardinality(DOMAIN OfOutput(rs, o))]
           asks == LoaAsks(rs, p)
           bids(o) == [i \in {i \in I : asks[i] = o} |-> 0]
           grants == [o \in O |-> RoundRobinWinner(Ins, p.out[o], bids(o))]
           won(i) == asks[i] # None /\ grants[asks[i]] = i
           in == [i \in I |-> IF won(i) THEN asks[i] ELSE None]
           ins == [i \in I |-> IF won(i) THEN (p.in[i] + 1) % Outs ELSE p.in[i]]
           outs == [o \in O |-> IF grants[o] # None THEN (p.out[o] + 1) % Ins ELSE p.out[o]]
           res == Loa(rs, p)
<1>1. p \in [in : [I -> O], out : [O -> I], diag : Nat] /\ Ptrs("loa") = [in : [I -> O], out : [O -> I], diag : Nat]
  BY PlainPtrs
<1>2. /\ Ins \in Nat \ {0} /\ Outs \in Nat \ {0} /\ None \notin I /\ None \notin O
      /\ I = Upto(Ins) /\ O = Upto(Outs)
  BY Numbers DEF I, O
<1>3. /\ Upto(Ins) = States("pointer", Ins) /\ Upto(Outs) = States("pointer", Outs)
      /\ \A n, q, f : FlatWinner("pointer", n, q, f) = RoundRobinWinner(n, q, f)
  BY DEF States, FlatWinner
<1>4. ASSUME NEW i \in I
      PROVE  /\ asks[i] \in O \cup {None}
             /\ \A o \in O : asks[i] = o => <<i, o>> \in asked
             /\ \A o \in O : <<i, o>> \in asked => asks[i] # None
  <2>1. DOMAIN OfInput(rs, i) = {o \in O : <<i, o>> \in asked}
    BY PortRequests
  <2>2. \A o \in O : Cardinality(DOMAIN OfOutput(rs, o)) \in Int
    <3> TAKE o \in O
    <3>1. DOMAIN OfOutput(rs, o) = {h \in I : <<h, o>> \in asked}
      BY PortRequests
    <3>2. DOMAIN OfOutput(rs, o) \in SUBSET Upto(Ins)
      BY <1>2, <3>1
    <3> QED BY <1>2, <3>2, UptoFinite
  <2>3. DOMAIN wish(i) = DOMAIN OfInput(rs, i) /\ Requests(Outs, wish(i))
    BY <1>2, <2>1, <2>2 DEF Requests
  <2>4. asks[i] = RoundRobinWinner(Outs, p.in[i], wish(i))
    BY DEF LoaAsks
  <2>5. p.in[i] \in States("pointer", Outs)
    BY <1>1, <1>2, <1>3
  <2> HIDE DEF asks, wish
  <2>6. asks[i] = FlatWinner("pointer", Outs, p.in[i], wish(i))
    BY <1>3, <2>4
  <2>7. /\ asks[i] \in Upto(Outs) \cup {None}
        /\ \A x \in Upto(Outs) : asks[i] = x => x \in DOMAIN wish(i)
        /\ DOMAIN wish(i) # {} => asks[i] \in Upto(Outs)
    BY <1>2, <2>3, <2>5, <2>6, WinsSome
  <2> QED BY <1>2, <2>1, <2>3, <2>7
<1>5. asks = [i \in I |-> asks[i]]
  BY DEF LoaAsks
<1>6. res = [in |-> in, out |-> grants, ptr |-> [p EXCEPT !.in = ins, !.out = outs]]
  BY DEF Loa
<1> HIDE DEF asks
<1>7. ASSUME NEW o \in O
      PROVE  /\ grants[o] \in I \cup {None}
             /\ \A i \in I : grants[o] = i => asks[i] = o
             /\ \A i \in I : asks[i] = o => grants[o] # None
  <2>1. DOMAIN bids(o) = {i \in I : asks[i] = o} /\ Requests(Ins, bids(o))
    BY <1>2 DEF Requests
  <2>2. grants[o] = RoundRobinWinner(Ins, p.out[o], bids(o))
    OBVIOUS
  <2>3. p.out[o] \in States("pointer", Ins)
    BY <1>1, <1>2, <1>3
  <2> HIDE DEF bids, grants
  <2>4. grants[o] = FlatWinner("pointer", Ins, p.out[o], bids(o))
    BY <1>3, <2>2
  <2>5. /\ grants[o] \in Upto(Ins) \cup {None}
        /\ \A x \in Upto(Ins) : grants[o] = x => x \in DOMAIN bids(o)
        /\ DOMAIN bids(o) # {} => grants[o] \in Upto(Ins)
    BY <1>2, <2>1, <2>3, <2>4, WinsSome
  <2> QED BY <1>2, <2>1, <2>5
<1>8. grants = [o \in O |-> grants[o]]
  OBVIOUS
<1> HIDE DEF grants
<1>9. asks \in InSide /\ grants \in OutSide
  BY <1>4, <1>5, <1>7, <1>8 DEF InSide, OutSide
<1>10. in \in InSide /\ \A i \in I : in[i] = IF asks[i] # None /\ grants[asks[i]] = i THEN asks[i] ELSE None
  <2>1. \A i \in I : (IF won(i) THEN asks[i] ELSE None) \in O \cup {None}
    BY <1>4
  <2> QED BY <2>1 DEF InSide
<1>11. asked \in SUBSET (I \X O)
  BY DEF IsRequests
<1>12. Agree(in, grants, asked) /\ (asked # {} => \E i \in I : in[i] # None)
  <2> HIDE DEF in, asked
  <2> QED BY <1>4, <1>7, <1>9, <1>10, <1>11, PicksOfInputs
<1>13. ins \in [I -> O] /\ outs \in [O -> I]
  <2>1. \A i \in I : p.in[i] \in O /\ (p.in[i] + 1) % Outs \in O
    BY <1>1, <1>2, NextInRange
  <2>2. \A o \in O : p.out[o] \in I /\ (p.out[o] + 1) % Ins \in I
    BY <1>1, <1>2, NextInRange
  <2> QED BY <2>1, <2>2
<1> HIDE DEF ins, outs, in, res
<1>14. res.ptr \in Ptrs("loa") /\ res.in = in /\ res.out = grants
  BY <1>1, <1>6, <1>13
<1> QED BY <1>12, <1>14 DEF GoodResult, Maximal, res

\* Arbiters that move on stay arbiters.
LEMMA MovedIsState ==
  ASSUME NEW n \in Nat \ {0}, NEW S, NEW arbs \in [S -> States(ArbType, n)],
         NEW picks \in [S -> Upto(n) \cup {None}], NEW wins
  PROVE  Moved(arbs, n, picks, wins) \in [S -> States(ArbType, n)]
<1> DEFINE moved(x) == FlatUpdated(ArbType, n, arbs[x],
                                   IF picks[x] # None /\ wins[picks[x]] = x THEN picks[x] ELSE None)
<1>1. ASSUME NEW x \in S PROVE moved(x) \in States(ArbType, n)
  <2> DEFINE won == IF picks[x] # None /\ wins[picks[x]] = x THEN picks[x] ELSE None
  <2>1. won \in Upto(n) \cup {None} /\ arbs[x] \in States(ArbType, n)
    OBVIOUS
  <2> HIDE DEF won
  <2>2. FlatState(ArbType, n, arbs[x])
    BY <2>1, StatesAreFlat
  <2>3. FlatState(ArbType, n, FlatUpdated(ArbType, n, arbs[x], won))
    BY <2>1, <2>2, UpdatedIsState
  <2> QED BY <2>3, StatesAreFlat DEF won
<1>2. Moved(arbs, n, picks, wins) = [x \in S |-> moved(x)]
  BY DEF Moved
<1> HIDE DEF moved
<1> QED BY <1>1, <1>2

\* separable_input_first: inputs pick, outputs grant.
LEMMA SeparableInputFirstIsGood ==
  ASSUME AllocatorAssumption, NEW rs, IsRequests(rs), NEW p \in Ptrs("separable_input_first")
  PROVE  GoodResult("separable_input_first", rs, SeparableInputFirst(rs, p))
<1> DEFINE asked == DOMAIN rs
           picks == [i \in I |-> FlatWinner(ArbType, Outs, p.in[i], OfInput(rs, i))]
           chosen(o) == {i \in I : picks[i] = o}
           wins == [o \in O |-> FlatWinner(ArbType, Ins, p.out[o], Only(OfOutput(rs, o), chosen(o)))]
           in == [i \in I |-> IF picks[i] # None /\ wins[picks[i]] = i THEN picks[i] ELSE None]
           ins == Moved(p.in, Outs, picks, wins)
           outs == Moved(p.out, Ins, wins, picks)
           res == SeparableInputFirst(rs, p)
           ptrs == [in : [I -> States(ArbType, Outs)], out : [O -> States(ArbType, Ins)], diag : Nat]
<1>1. Ptrs("separable_input_first") = ptrs /\ p \in ptrs
  BY DEF Ptrs, PtrType
<1>2. /\ Ins \in Nat \ {0} /\ Outs \in Nat \ {0} /\ None \notin I /\ None \notin O
      /\ I = Upto(Ins) /\ O = Upto(Outs)
  BY Numbers DEF I, O
<1>3. res = [in |-> in, out |-> wins, ptr |-> [p EXCEPT !.in = ins, !.out = outs]]
  BY <1>1 DEF SeparableInputFirst
<1>4. ASSUME NEW i \in I
      PROVE  /\ picks[i] \in O \cup {None}
             /\ \A o \in O : picks[i] = o => <<i, o>> \in asked
             /\ \A o \in O : <<i, o>> \in asked => picks[i] # None
  <2> DEFINE f == OfInput(rs, i)
  <2>1. DOMAIN f = {o \in O : <<i, o>> \in asked} /\ Requests(Outs, f)
    BY PortRequests
  <2>2. picks[i] = FlatWinner(ArbType, Outs, p.in[i], f)
    OBVIOUS
  <2> HIDE DEF picks, f
  <2>3. p.in[i] \in States(ArbType, Outs)
    BY <1>1
  <2>4. /\ picks[i] \in Upto(Outs) \cup {None}
        /\ \A x \in Upto(Outs) : picks[i] = x => x \in DOMAIN f
        /\ DOMAIN f # {} => picks[i] \in Upto(Outs)
    BY <1>2, <2>1, <2>2, <2>3, WinsSome
  <2> QED BY <1>2, <2>1, <2>4
<1>5. picks = [i \in I |-> picks[i]]
  OBVIOUS
<1> HIDE DEF picks
<1>6. ASSUME NEW o \in O
      PROVE  /\ wins[o] \in I \cup {None}
             /\ \A i \in I : wins[o] = i => picks[i] = o
             /\ \A i \in I : picks[i] = o => wins[o] # None
  <2> DEFINE mine == chosen(o)
  <2>1. wins[o] = FlatWinner(ArbType, Ins, p.out[o], Only(OfOutput(rs, o), mine))
    OBVIOUS
  <2>2. \A i \in I : i \in mine <=> picks[i] = o
    OBVIOUS
  <2> HIDE DEF mine, wins
  <2>3. p.out[o] \in States(ArbType, Ins)
    BY <1>1
  <2>4. /\ wins[o] \in I \cup {None}
        /\ \A i \in I : wins[o] = i => <<i, o>> \in asked /\ i \in mine
        /\ \A i \in I : <<i, o>> \in asked /\ i \in mine => wins[o] # None
    BY <2>1, <2>3, OutputWins
  <2> QED BY <1>4, <2>2, <2>4
<1>7. wins = [o \in O |-> wins[o]]
  OBVIOUS
<1> HIDE DEF wins
<1>8. picks \in InSide /\ wins \in OutSide
  BY <1>4, <1>5, <1>6, <1>7 DEF InSide, OutSide
<1>9. in \in InSide /\ \A i \in I : in[i] = IF picks[i] # None /\ wins[picks[i]] = i THEN picks[i] ELSE None
  <2>1. \A i \in I : picks[i] \in O \cup {None}
    BY <1>4
  <2> QED BY <2>1 DEF InSide
<1>10. asked \in SUBSET (I \X O)
  BY DEF IsRequests
<1>11. Agree(in, wins, asked) /\ (asked # {} => \E i \in I : in[i] # None)
  <2> HIDE DEF in, asked
  <2> QED BY <1>4, <1>6, <1>8, <1>9, <1>10, PicksOfInputs
<1>12. ins \in [I -> States(ArbType, Outs)] /\ outs \in [O -> States(ArbType, Ins)]
  <2>1. p.in \in [I -> States(ArbType, Outs)] /\ p.out \in [O -> States(ArbType, Ins)]
    BY <1>1
  <2>2. picks \in [I -> Upto(Outs) \cup {None}] /\ wins \in [O -> Upto(Ins) \cup {None}]
    BY <1>2, <1>8 DEF InSide, OutSide
  <2> QED BY <1>2, <2>1, <2>2, MovedIsState
<1> HIDE DEF ins, outs, in, res
<1>13. res.ptr \in ptrs /\ res.in = in /\ res.out = wins
  BY <1>1, <1>3, <1>12
<1> HIDE DEF ptrs
<1> QED BY <1>1, <1>11, <1>13 DEF GoodResult, Maximal, res

\* separable_output_first: outputs pick, inputs accept.
LEMMA SeparableOutputFirstIsGood ==
  ASSUME AllocatorAssumption, NEW rs, IsRequests(rs), NEW p \in Ptrs("separable_output_first")
  PROVE  GoodResult("separable_output_first", rs, SeparableOutputFirst(rs, p))
<1> DEFINE asked == DOMAIN rs
           picks == [o \in O |-> FlatWinner(ArbType, Ins, p.out[o], OfOutput(rs, o))]
           chosen(i) == {o \in O : picks[o] = i}
           wins == [i \in I |-> FlatWinner(ArbType, Outs, p.in[i], Only(OfInput(rs, i), chosen(i)))]
           out == [o \in O |-> IF picks[o] # None /\ wins[picks[o]] = o THEN picks[o] ELSE None]
           ins == Moved(p.in, Outs, wins, picks)
           outs == Moved(p.out, Ins, picks, wins)
           res == SeparableOutputFirst(rs, p)
           ptrs == [in : [I -> States(ArbType, Outs)], out : [O -> States(ArbType, Ins)], diag : Nat]
<1>1. Ptrs("separable_output_first") = ptrs /\ p \in ptrs
  BY DEF Ptrs, PtrType
<1>2. /\ Ins \in Nat \ {0} /\ Outs \in Nat \ {0} /\ None \notin I /\ None \notin O
      /\ I = Upto(Ins) /\ O = Upto(Outs)
  BY Numbers DEF I, O
<1>3. res = [in |-> wins, out |-> out, ptr |-> [p EXCEPT !.in = ins, !.out = outs]]
  BY <1>1 DEF SeparableOutputFirst
<1>4. ASSUME NEW o \in O
      PROVE  /\ picks[o] \in I \cup {None}
             /\ \A i \in I : picks[o] = i => <<i, o>> \in asked
             /\ \A i \in I : <<i, o>> \in asked => picks[o] # None
  <2> DEFINE f == OfOutput(rs, o)
  <2>1. DOMAIN f = {i \in I : <<i, o>> \in asked} /\ Requests(Ins, f)
    BY PortRequests
  <2>2. picks[o] = FlatWinner(ArbType, Ins, p.out[o], f)
    OBVIOUS
  <2> HIDE DEF picks, f
  <2>3. p.out[o] \in States(ArbType, Ins)
    BY <1>1
  <2>4. /\ picks[o] \in Upto(Ins) \cup {None}
        /\ \A x \in Upto(Ins) : picks[o] = x => x \in DOMAIN f
        /\ DOMAIN f # {} => picks[o] \in Upto(Ins)
    BY <1>2, <2>1, <2>2, <2>3, WinsSome
  <2> QED BY <1>2, <2>1, <2>4
<1>5. picks = [o \in O |-> picks[o]]
  OBVIOUS
<1> HIDE DEF picks
<1>6. ASSUME NEW i \in I
      PROVE  /\ wins[i] \in O \cup {None}
             /\ \A o \in O : wins[i] = o => picks[o] = i
             /\ \A o \in O : picks[o] = i => wins[i] # None
  <2> DEFINE mine == chosen(i)
  <2>1. wins[i] = FlatWinner(ArbType, Outs, p.in[i], Only(OfInput(rs, i), mine))
    OBVIOUS
  <2>2. \A o \in O : o \in mine <=> picks[o] = i
    OBVIOUS
  <2> HIDE DEF mine, wins
  <2>3. p.in[i] \in States(ArbType, Outs)
    BY <1>1
  <2>4. /\ wins[i] \in O \cup {None}
        /\ \A o \in O : wins[i] = o => <<i, o>> \in asked /\ o \in mine
        /\ \A o \in O : <<i, o>> \in asked /\ o \in mine => wins[i] # None
    BY <2>1, <2>3, InputWins
  <2> QED BY <1>4, <2>2, <2>4
<1>7. wins = [i \in I |-> wins[i]]
  OBVIOUS
<1> HIDE DEF wins
<1>8. picks \in OutSide /\ wins \in InSide
  BY <1>4, <1>5, <1>6, <1>7 DEF InSide, OutSide
<1>9. out \in OutSide /\ \A o \in O : out[o] = IF picks[o] # None /\ wins[picks[o]] = o THEN picks[o] ELSE None
  <2>1. \A o \in O : picks[o] \in I \cup {None}
    BY <1>4
  <2> QED BY <2>1 DEF OutSide
<1>10. asked \in SUBSET (I \X O)
  BY DEF IsRequests
<1>11. Agree(wins, out, asked) /\ (asked # {} => \E i \in I : wins[i] # None)
  <2> HIDE DEF out, asked
  <2> QED BY <1>4, <1>6, <1>8, <1>9, <1>10, PicksOfOutputs
<1>12. ins \in [I -> States(ArbType, Outs)] /\ outs \in [O -> States(ArbType, Ins)]
  <2>1. p.in \in [I -> States(ArbType, Outs)] /\ p.out \in [O -> States(ArbType, Ins)]
    BY <1>1
  <2>2. wins \in [I -> Upto(Outs) \cup {None}] /\ picks \in [O -> Upto(Ins) \cup {None}]
    BY <1>2, <1>8 DEF InSide, OutSide
  <2> QED BY <1>2, <2>1, <2>2, MovedIsState
<1> HIDE DEF ins, outs, out, res
<1>13. res.ptr \in ptrs /\ res.in = wins /\ res.out = out
  BY <1>1, <1>3, <1>12
<1> HIDE DEF ptrs
<1> QED BY <1>1, <1>11, <1>13 DEF GoodResult, Maximal, res

-----------------------------------------------------------------------------
(* Wavefront.                                                              *)

\* The diagonals are of a square that holds all inputs and outputs.
LEMMA SquareBounds ==
  ASSUME AllocatorAssumption
  PROVE  Square \in Nat \ {0} /\ Square >= Ins /\ Square >= Outs
<1>1. Ins \in Nat \ {0} /\ Outs \in Nat \ {0}
  BY Numbers
<1>2. \E x \in {Ins, Outs} : \A y \in {Ins, Outs} : x >= y
  BY <1>1
<1>3. Square \in {Ins, Outs} /\ \A y \in {Ins, Outs} : Square >= y
  BY <1>2 DEF Square, Max
<1> QED BY <1>1, <1>3

\* Numbers with the same remainder are equal or at least n apart.
LEMMA SameRemainder ==
  ASSUME NEW n \in Nat \ {0}, NEW a \in Int, NEW b \in Int, a % n = b % n, a - b < n, b - a < n
  PROVE  a = b
<1> DEFINE k == a \div n
           l == b \div n
<1>1. k \in Int /\ a = n * k + (a % n)
  OBVIOUS
<1>2. l \in Int /\ b = n * l + (b % n)
  OBVIOUS
<1>3. (a % n) \in Int
  OBVIOUS
<1> HIDE DEF k, l
<1>4. a - b = n * (k - l)
  <2> DEFINE c == a % n
  <2>1. a = n * k + c /\ b = n * l + c /\ c \in Int
    BY <1>1, <1>2, <1>3
  <2> HIDE DEF c
  <2> QED BY <1>1, <1>2, <2>1
<1>5. \A d \in Int : d >= 1 => n * d >= n
  OBVIOUS
<1>6. n * (l - k) = b - a
  BY <1>1, <1>2, <1>4
<1>7. ~(k - l >= 1)
  BY <1>1, <1>2, <1>4, <1>5
<1>8. ~(l - k >= 1)
  BY <1>1, <1>2, <1>5, <1>6
<1>9. k = l
  BY <1>1, <1>2, <1>7, <1>8
<1> QED BY <1>1, <1>4, <1>9

\* No two requests with the same output are on the same diagonal.
LEMMA DiagonalsApart ==
  ASSUME AllocatorAssumption, NEW first \in Nat, NEW q \in I \X O, NEW r \in I \X O
  PROVE  /\ Diagonal(q, first) \in Nat
         /\ Diagonal(q, first) = Diagonal(r, first) /\ q[2] = r[2] => q = r
<1>1. Square \in Nat \ {0} /\ Square >= Ins /\ Ins \in Nat \ {0} /\ Outs \in Nat \ {0}
  BY SquareBounds, Numbers
<1>2. q[1] \in 0 .. Ins - 1 /\ r[1] \in 0 .. Ins - 1 /\ q[2] \in Nat /\ r[2] \in Nat
  BY <1>1 DEF I, O, Upto
<1>3. q = <<q[1], q[2]>> /\ r = <<r[1], r[2]>>
  OBVIOUS
<1> DEFINE a == q[1] + q[2] - first + Square
           b == r[1] + r[2] - first + Square
<1>4. a \in Int /\ b \in Int
  BY <1>1, <1>2
<1>5. q[2] = r[2] => a - b = q[1] - r[1] /\ b - a = r[1] - q[1]
  BY <1>1, <1>2
<1>6. Diagonal(q, first) = a % Square /\ Diagonal(r, first) = b % Square
  BY DEF Diagonal
<1> HIDE DEF a, b
<1>7. Diagonal(q, first) \in Nat
  BY <1>1, <1>4, <1>6, Remainder
<1>8. ASSUME Diagonal(q, first) = Diagonal(r, first), q[2] = r[2] PROVE q = r
  <2>1. a - b < Square /\ b - a < Square
    BY <1>1, <1>2, <1>5, <1>8
  <2>2. a = b
    BY <1>1, <1>4, <1>6, <1>8, <2>1, SameRemainder
  <2>3. q[1] = r[1]
    BY <1>2, <1>4, <1>5, <1>8, <2>2
  <2> QED BY <1>3, <1>8, <2>3
<1> QED BY <1>7, <1>8

\* Of any two requests one is served earlier.
LEMMA EarlierIsOrder ==
  ASSUME AllocatorAssumption, NEW rs, IsRequests(rs), NEW first \in Nat
  PROVE  /\ \A q \in DOMAIN rs : ~Earlier(q, q, rs, first)
         /\ \A q, r \in DOMAIN rs : q # r => Earlier(q, r, rs, first) \/ Earlier(r, q, rs, first)
         /\ \A q, r, s \in DOMAIN rs :
              Earlier(q, r, rs, first) /\ Earlier(r, s, rs, first) => Earlier(q, s, rs, first)
<1>1. DOMAIN rs \subseteq I \X O /\ \A r \in DOMAIN rs : rs[r].in \in Int /\ rs[r].out \in Int
  BY DEF IsRequests
<1>2. \A r \in DOMAIN rs : r[2] \in Nat
  BY <1>1, Numbers
<1>3. \A r \in DOMAIN rs : Diagonal(r, first) \in Nat
  BY <1>1, DiagonalsApart
<1>4. \A q, r \in DOMAIN rs : Diagonal(q, first) = Diagonal(r, first) /\ q[2] = r[2] => q = r
  BY <1>1, DiagonalsApart
<1>5. \A q \in DOMAIN rs : ~Earlier(q, q, rs, first)
  BY <1>1, <1>2, <1>3 DEF Earlier
<1>6. \A q, r \in DOMAIN rs : q # r => Earlier(q, r, rs, first) \/ Earlier(r, q, rs, first)
  <2> SUFFICES ASSUME NEW q \in DOMAIN rs, NEW r \in DOMAIN rs, q # r
               PROVE  Earlier(q, r, rs, first) \/ Earlier(r, q, rs, first)
    OBVIOUS
  <2>1. Diagonal(q, first) # Diagonal(r, first) \/ q[2] # r[2]
    BY <1>4
  <2> QED BY <1>1, <1>2, <1>3, <2>1 DEF Earlier
<1>7. \A q, r, s \in DOMAIN rs :
        Earlier(q, r, rs, first) /\ Earlier(r, s, rs, first) => Earlier(q, s, rs, first)
  BY <1>1, <1>2, <1>3 DEF Earlier
<1> QED BY <1>5, <1>6, <1>7

\* So that the foremost of some requests exists.
LEMMA ForemostComesFirst ==
  ASSUME AllocatorAssumption, NEW rs, IsRequests(rs), NEW first \in Nat,
         NEW S \in SUBSET DOMAIN rs, S # {}
  PROVE  /\ Foremost(S, rs, first) \in S
         /\ \A q \in S : q # Foremost(S, rs, first) => Earlier(Foremost(S, rs, first), q, rs, first)
<1> DEFINE L == [p \in S \X S |-> Earlier(p[1], p[2], rs, first)]
<1>1. IsFiniteSet(S)
  <2>1. IsFiniteSet(I \X O)
    BY Numbers, FS_Product
  <2>2. S \subseteq I \X O
    BY DEF IsRequests
  <2> QED BY <2>1, <2>2, FS_Subset
<1>2. \A q, r \in S : Earlier(q, r, rs, first) \in BOOLEAN
  BY DEF Earlier
<1>3. \A q, r \in S : L[<<q, r>>] <=> Earlier(q, r, rs, first)
  BY <1>2
<1> HIDE DEF L
<1>4. \E r \in S : \A q \in S \ {r} : L[<<r, q>>]
  <2>1. \A q \in S : ~L[<<q, q>>]
    BY <1>3, EarlierIsOrder
  <2>2. \A q, r \in S : q # r => L[<<q, r>>] \/ L[<<r, q>>]
    BY <1>3, EarlierIsOrder
  <2>3. \A q, r, s \in S : L[<<q, r>>] /\ L[<<r, s>>] => L[<<q, s>>]
    BY <1>3, EarlierIsOrder
  <2> QED BY <1>1, <2>1, <2>2, <2>3, First
<1>5. \E r \in S : \A q \in S \ {r} : Earlier(r, q, rs, first)
  BY <1>3, <1>4
<1> QED BY <1>5 DEF Foremost

\* Every request that can no longer be granted shares a port with a grant that is no worse.
Kept(rs, m) ==
  \A r \in DOMAIN rs : m.in[r[1]] # None \/ m.out[r[2]] # None =>
    \E q \in DOMAIN rs : m.in[q[1]] = q[2] /\ (q[1] = r[1] \/ q[2] = r[2]) /\ NoWorse(q, r, rs)

WaveStates(rs, k) ==
  {m \in [in : InSide, out : OutSide] :
     Agree(m.in, m.out, DOMAIN rs) /\ Progress(m.in, m.out, DOMAIN rs, k) /\ Kept(rs, m)}

\* A grant, or the lack of open requests, is progress, and is honest to all others.
LEMMA WavefrontGrantStays ==
  ASSUME AllocatorAssumption, NEW rs, IsRequests(rs), NEW first \in Nat, NEW k \in Nat,
         NEW m \in WaveStates(rs, k)
  PROVE  WavefrontGrant(m, rs, first) \in WaveStates(rs, k + 1)
<1> DEFINE asked == DOMAIN rs
<1>1. /\ m \in [in : InSide, out : OutSide]
      /\ Agree(m.in, m.out, asked) /\ Progress(m.in, m.out, asked, k) /\ Kept(rs, m)
  BY DEF WaveStates
<1>2. asked \subseteq I \X O /\ \A r \in asked : rs[r].in \in Int /\ rs[r].out \in Int
  BY DEF IsRequests
<1>3. \A r \in asked : r \in Open(m, rs) <=> m.in[r[1]] = None /\ m.out[r[2]] = None
  BY DEF Open
<1>4. None \notin I /\ None \notin O
  BY Numbers
<1>5. CASE Open(m, rs) = {}
  <2>1. WavefrontGrant(m, rs, first) = m
    BY <1>5 DEF WavefrontGrant
  <2>2. NoOpen(m.in, m.out, asked)
    BY <1>2, <1>3, <1>5 DEF NoOpen
  <2> QED BY <1>1, <2>1, <2>2 DEF WaveStates, Progress
<1>6. CASE Open(m, rs) # {}
  <2> DEFINE r == Foremost(Open(m, rs), rs, first)
             t == WavefrontGrant(m, rs, first)
  <2>1. r \in Open(m, rs) /\ \A q \in Open(m, rs) : q # r => Earlier(r, q, rs, first)
    <3>1. Open(m, rs) \in SUBSET DOMAIN rs
      BY DEF Open
    <3> QED BY <1>6, <3>1, ForemostComesFirst
  <2>2. t = [in |-> [m.in EXCEPT ![r[1]] = r[2]], out |-> [m.out EXCEPT ![r[2]] = r[1]]]
    BY <1>6 DEF WavefrontGrant
  <2> HIDE DEF r, t
  <2>3. r \in asked /\ m.in[r[1]] = None /\ m.out[r[2]] = None
    BY <1>3, <2>1 DEF Open
  <2>4. PICK i \in I, o \in O : r = <<i, o>>
    BY <1>2, <2>3
  <2>5. r[1] = i /\ r[2] = o /\ m.in[i] = None /\ m.out[o] = None /\ <<i, o>> \in asked
    BY <2>3, <2>4
  <2> DEFINE accepted == [x \in I |-> IF x = i THEN o ELSE None]
             grants == [y \in O |-> IF y = o THEN i ELSE None]
  <2>6. /\ t = [in |-> t.in, out |-> t.out]
        /\ t.in \in InSide /\ t.out \in OutSide
        /\ \A x \in I : t.in[x] = IF x = i THEN o ELSE m.in[x]
        /\ \A y \in O : t.out[y] = IF y = o THEN i ELSE m.out[y]
    BY <1>1, <2>2, <2>5 DEF InSide, OutSide
  <2>7. Agree(t.in, t.out, asked) /\ Progress(t.in, t.out, asked, k + 1)
    <3>1. /\ accepted \in InSide /\ grants \in OutSide
          /\ \A x \in I : accepted[x] = IF x = i THEN o ELSE None
          /\ \A y \in O : grants[y] = IF y = o THEN i ELSE None
      BY DEF InSide, OutSide
    <3> HIDE DEF accepted, grants, asked
    <3>2. \A x \in I, y \in O : accepted[x] = y => grants[y] = x
      BY <1>4, <3>1
    <3>3. \A x \in I, y \in O : grants[y] = x => m.in[x] = None /\ m.out[y] = None /\ <<x, y>> \in asked
      BY <1>4, <2>5, <3>1
    <3>4. \E x \in I : accepted[x] # None
      BY <1>4, <3>1
    <3>5. \A x \in I : t.in[x] = IF accepted[x] = None THEN m.in[x] ELSE accepted[x]
      BY <1>4, <2>6, <3>1
    <3>6. \A y \in O : t.out[y] = IF \E x \in I : accepted[x] = y THEN grants[y] ELSE m.out[y]
      BY <1>4, <2>6, <3>1
    <3> QED BY <1>1, <2>6, <3>1, <3>2, <3>3, <3>4, <3>5, <3>6, Augmented
  <2>8. Kept(rs, t)
    <3> SUFFICES ASSUME NEW x \in asked, t.in[x[1]] # None \/ t.out[x[2]] # None
                 PROVE  \E q \in asked : t.in[q[1]] = q[2] /\ (q[1] = x[1] \/ q[2] = x[2]) /\ NoWorse(q, x, rs)
      BY DEF Kept
    <3>1. x[1] \in I /\ x[2] \in O
      BY <1>2
    <3>2. CASE x \in Open(m, rs)
      <4>1. x[1] = i \/ x[2] = o
        BY <1>3, <2>6, <3>1, <3>2
      <4>2. NoWorse(r, x, rs)
        <5>1. rs[r].in \in Int /\ rs[r].out \in Int /\ rs[x].in \in Int /\ rs[x].out \in Int
          BY <1>2, <2>3
        <5>2. r = x \/ Earlier(r, x, rs, first)
          BY <2>1, <3>2
        <5> QED BY <5>1, <5>2 DEF NoWorse, Earlier
      <4>3. t.in[r[1]] = r[2]
        BY <2>5, <2>6
      <4> QED BY <2>3, <2>5, <4>1, <4>2, <4>3
    <3>3. CASE x \notin Open(m, rs)
      <4>1. m.in[x[1]] # None \/ m.out[x[2]] # None
        BY <1>3, <3>3
      <4>2. PICK q \in asked : m.in[q[1]] = q[2] /\ (q[1] = x[1] \/ q[2] = x[2]) /\ NoWorse(q, x, rs)
        BY <1>1, <4>1 DEF Kept
      <4>3. q[1] \in I /\ q[2] \in O
        BY <1>2
      <4>4. t.in[q[1]] = q[2]
        BY <1>4, <2>5, <2>6, <4>2, <4>3
      <4> QED BY <4>2, <4>4
    <3> QED BY <3>2, <3>3
  <2> QED BY <2>6, <2>7, <2>8 DEF WaveStates, t
<1> QED BY <1>5, <1>6

\* What every grant preserves, the match has.
LEMMA WavefrontRuns ==
  ASSUME NEW rs, NEW first, Ins \in Nat, NEW S, NoMatch \in S[0],
         \A k \in 1 .. Ins : \A m \in S[k - 1] : WavefrontGrant(m, rs, first) \in S[k]
  PROVE  WavefrontMatch(rs, first) \in S[Ins]
<1> DEFINE step == [k \in 1 .. Ins |-> [m \in S[k - 1] |-> WavefrontGrant(m, rs, first)]]
           start == NoMatch
<1>1. \A k \in 1 .. Ins : \A m \in S[k - 1] : step[k][m] = WavefrontGrant(m, rs, first) /\ step[k][m] \in S[k]
  OBVIOUS
<1> HIDE DEF step, start
<1>2. PICK f : IsRun(f, Ins, S, start, step)
  BY <1>1, Iteration DEF CanRun, start
<1>3. /\ f = [k \in 0 .. Ins |-> f[k]] /\ f[0] = start
      /\ \A k \in 1 .. Ins : f[k] = WavefrontGrant(f[k - 1], rs, first)
  BY <1>1, <1>2 DEF IsRun
<1> DEFINE value == [k \in 0 .. Ins |-> IF k = 0 THEN start ELSE WavefrontGrant(f[k - 1], rs, first)]
<1>4. f = value
  <2>1. \A k \in 0 .. Ins : f[k] = value[k]
    <3> TAKE k \in 0 .. Ins
    <3>1. CASE k = 0
      BY <1>3, <3>1
    <3>2. CASE k \in 1 .. Ins
      BY <1>3, <3>2
    <3> QED BY <3>1, <3>2
  <2>2. value = [k \in 0 .. Ins |-> value[k]]
    OBVIOUS
  <2> HIDE DEF value
  <2> QED BY <1>3, <2>1, <2>2
<1> DEFINE after == CHOOSE g : g = [k \in 0 .. Ins |-> IF k = 0 THEN NoMatch
                                                     ELSE WavefrontGrant(g[k - 1], rs, first)]
<1>5. after = [k \in 0 .. Ins |-> IF k = 0 THEN NoMatch ELSE WavefrontGrant(after[k - 1], rs, first)]
  BY <1>4 DEF start
<1>6. WavefrontMatch(rs, first) = after[Ins]
  BY DEF WavefrontMatch
<1> HIDE DEF after
<1>7. /\ after[0] = NoMatch
      /\ \A k \in 1 .. Ins : after[k] = WavefrontGrant(after[k - 1], rs, first)
  BY <1>5
<1>8. after[Ins] \in S[Ins]
  <2>1. \A k \in 1 .. Ins : after[k - 1] \in S[k - 1] => after[k] \in S[k]
    BY <1>7
  <2> QED BY <1>7, <2>1, IterationStays
<1> QED BY <1>6, <1>8

\* Both wavefront allocators: as many grants as inputs.
LEMMA WavefrontIsGood ==
  ASSUME AllocatorAssumption, NEW a \in {"wavefront", "rr_wavefront"},
         NEW rs, IsRequests(rs), NEW p \in Ptrs(a)
  PROVE  GoodResult(a, rs, Wavefront(a, rs, p))
<1> DEFINE S == [k \in 0 .. Ins |-> WaveStates(rs, k)]
           match == WavefrontMatch(rs, p.diag)
           res == Wavefront(a, rs, p)
<1>1. Ins \in Nat \ {0} /\ Outs \in Nat \ {0}
  BY Numbers
<1>2. p \in [in : [I -> O], out : [O -> I], diag : Nat] /\ Ptrs(a) = [in : [I -> O], out : [O -> I], diag : Nat]
  BY PlainPtrs
<1>3. NoMatch \in S[0]
  <2>1. NoMatch \in [in : InSide, out : OutSide]
    BY DEF NoMatch, InSide, OutSide
  <2>2. Kept(rs, NoMatch)
    BY DEF Kept, NoMatch, IsRequests
  <2> QED BY <1>1, <2>1, <2>2, StartAgrees DEF WaveStates
<1>4. \A k \in 1 .. Ins : \A m \in S[k - 1] : WavefrontGrant(m, rs, p.diag) \in S[k]
  <2> TAKE k \in 1 .. Ins
  <2>1. k - 1 \in 0 .. Ins /\ k \in 0 .. Ins /\ k - 1 \in Nat /\ (k - 1) + 1 = k
    BY <1>1
  <2>2. S[k - 1] = WaveStates(rs, k - 1) /\ S[k] = WaveStates(rs, (k - 1) + 1)
    BY <2>1
  <2> HIDE DEF S
  <2> QED BY <1>2, <2>1, <2>2, WavefrontGrantStays
<1> HIDE DEF S
<1>5. match \in S[Ins]
  BY <1>1, <1>3, <1>4, WavefrontRuns
<1>6. match \in WaveStates(rs, Ins)
  BY <1>1, <1>5 DEF S
<1>7. res.in = match.in /\ res.out = match.out /\
      res.ptr = IF DOMAIN rs = {} THEN p ELSE [p EXCEPT !.diag = NextDiagonal(a, rs, p.diag)]
  BY <1>2 DEF Wavefront
<1> HIDE DEF match, res
<1>8. /\ Agree(match.in, match.out, DOMAIN rs) /\ Progress(match.in, match.out, DOMAIN rs, Ins)
      /\ Kept(rs, match)
  BY <1>6 DEF WaveStates
<1>9. DOMAIN rs \in SUBSET (I \X O)
  BY DEF IsRequests
<1>10. Ins >= Min({Ins, Outs})
  <2>1. \E x \in {Ins, Outs} : \A y \in {Ins, Outs} : x <= y
    BY <1>1
  <2>2. \A y \in {Ins, Outs} : Min({Ins, Outs}) <= y
    BY <2>1 DEF Min
  <2> QED BY <2>2
<1>11. /\ DOMAIN rs # {} => \E i \in I : match.in[i] # None
       /\ NoOpen(match.in, match.out, DOMAIN rs)
  BY <1>1, <1>8, <1>9, <1>10, ProgressPays
<1>12. Honoured(rs, match.in)
  <2> SUFFICES ASSUME NEW r \in DOMAIN rs
               PROVE  \E q \in DOMAIN rs : /\ match.in[q[1]] = q[2] /\ (q[1] = r[1] \/ q[2] = r[2])
                                          /\ NoWorse(q, r, rs)
    BY DEF Honoured
  <2>1. match.in[r[1]] # None \/ match.out[r[2]] # None
    BY <1>9, <1>11 DEF NoOpen
  <2> QED BY <1>8, <2>1 DEF Kept
<1>13. res.ptr \in Ptrs(a)
  <2>1. CASE DOMAIN rs = {}
    BY <1>2, <1>7, <2>1
  <2>2. CASE DOMAIN rs # {}
    <3> DEFINE granted == Foremost(DOMAIN rs, rs, p.diag)
    <3>1. granted \in DOMAIN rs
      BY <1>2, <2>2, ForemostComesFirst
    <3>2. granted[1] \in Nat /\ granted[2] \in Nat
      BY <1>9, <3>1, Numbers
    <3> HIDE DEF granted
    <3> DEFINE next == (IF a = "rr_wavefront" THEN granted[1] + granted[2] ELSE p.diag) + 1
    <3>3. next \in Int
      BY <1>2, <3>2
    <3>4. NextDiagonal(a, rs, p.diag) = next % Square
      BY DEF NextDiagonal, granted
    <3> HIDE DEF next
    <3>5. NextDiagonal(a, rs, p.diag) \in Nat
      <4>1. next % Square \in 0 .. Square - 1 /\ Square \in Nat
        BY <3>3, SquareBounds, Remainder
      <4> QED BY <3>4, <4>1
    <3> QED BY <1>2, <1>7, <2>2, <3>5
  <2> QED BY <2>1, <2>2
<1> QED BY <1>7, <1>8, <1>11, <1>12, <1>13 DEF GoodResult, res

-----------------------------------------------------------------------------
(* What every allocation gives, and the theorem.                           *)

\* max_size augments along paths that a fold finds; select keeps old grants in its
\* second iteration, and all configurations leave it at one.
Provable(a) == a # "max_size" /\ (a = "select" => Iters = 1)

\* All algorithms together.
LEMMA ResultsAreGood ==
  ASSUME AllocatorAssumption, NEW a \in Algs, Provable(a),
         NEW rs, IsRequests(rs), NEW p \in Ptrs(a), NEW res \in Results(a, rs, p)
  PROVE  GoodResult(a, rs, res)
<1>1. a \in {"islip", "select", "pim", "loa", "wavefront", "rr_wavefront",
             "separable_input_first", "separable_output_first"}
  BY DEF AllocatorAssumption, Provable
<1>2. CASE a \in {"islip", "select"}
  <2>1. res = Slip(a, rs, p)
    BY <1>2 DEF Results
  <2> QED BY <1>2, <2>1, SlipIsGood DEF Provable
<1>3. CASE a = "pim"
  <2>1. res \in Pim(rs, p)
    BY <1>3 DEF Results
  <2> QED BY <1>3, <2>1, PimIsGood
<1>4. CASE a = "loa"
  <2>1. res = Loa(rs, p)
    BY <1>4 DEF Results
  <2> QED BY <1>4, <2>1, LoaIsGood
<1>5. CASE a \in {"wavefront", "rr_wavefront"}
  <2>1. res = Wavefront(a, rs, p)
    BY <1>5 DEF Results
  <2> QED BY <1>5, <2>1, WavefrontIsGood
<1>6. CASE a = "separable_input_first"
  <2>1. res = SeparableInputFirst(rs, p)
    BY <1>6 DEF Results
  <2> QED BY <1>6, <2>1, SeparableInputFirstIsGood
<1>7. CASE a = "separable_output_first"
  <2>1. res = SeparableOutputFirst(rs, p)
    BY <1>7 DEF Results
  <2> QED BY <1>7, <2>1, SeparableOutputFirstIsGood
<1> QED BY <1>1, <1>2, <1>3, <1>4, <1>5, <1>6, <1>7

AllocatorInv ==
  /\ alg \in Algs
  /\ IsRequests(reqs)
  /\ phase \in {"adding", "allocated"}
  /\ phase = "adding" => inmatch = NoMatch.in /\ outmatch = NoMatch.out
  /\ Provable(alg) =>
       /\ ptr \in Ptrs(alg)
       /\ phase = "allocated" =>
            GoodResult(alg, reqs, [in |-> inmatch, out |-> outmatch, ptr |-> ptr])

\* The constructors leave pointers and arbiters in range.
LEMMA NewPtrs ==
  ASSUME AllocatorAssumption, NEW a
  PROVE  NewPtr(a) \in Ptrs(a)
<1> DEFINE type == PtrType(a)
<1>1. FlatNew(type, Outs) \in States(type, Outs) /\ FlatNew(type, Ins) \in States(type, Ins)
  BY Numbers, NewIsState, StatesAreFlat
<1>2. NewPtr(a) = [in |-> [i \in I |-> FlatNew(type, Outs)], out |-> [o \in O |-> FlatNew(type, Ins)], diag |-> 0]
  BY DEF NewPtr, PtrType
<1>3. Ptrs(a) = [in : [I -> States(type, Outs)], out : [O -> States(type, Ins)], diag : Nat]
  BY DEF Ptrs
<1> HIDE DEF type
<1> QED BY <1>1, <1>2, <1>3

\* No requests are requests.
LEMMA NoRequests ==
  IsRequests([r \in {} |-> 0])
  BY DEF IsRequests

\* The invariant holds at the start,
LEMMA AllocatorStarts ==
  ASSUME AllocatorAssumption, Init
  PROVE  AllocatorInv
  BY NewPtrs, NoRequests DEF Init, AllocatorInv

\* every step keeps it,
LEMMA AllocatorSteps ==
  ASSUME AllocatorAssumption, AllocatorInv, [Next]_vars
  PROVE  AllocatorInv'
<1>1. ASSUME NEW i \in I, NEW o \in O, NEW inPri \in InPris, NEW outPri \in OutPris,
             AddRequest(i, o, inPri, outPri)
      PROVE  AllocatorInv'
  <2>1. inPri \in Int /\ outPri \in Int
    BY DEF AllocatorAssumption
  <2> DEFINE pri == [in |-> inPri, out |-> outPri]
             D == DOMAIN reqs \cup {<<i, o>>}
  <2>2. phase = "adding" /\ reqs' = [r \in D |-> IF r = <<i, o>> THEN pri ELSE reqs[r]]
    BY <1>1 DEF AddRequest
  <2>3. pri.in \in Int /\ pri.out \in Int
    BY <2>1
  <2>4. D \subseteq I \X O /\ \A r \in D : r # <<i, o>> => reqs[r].in \in Int /\ reqs[r].out \in Int
    BY DEF AllocatorInv, IsRequests
  <2> HIDE DEF pri, D
  <2>5. IsRequests(reqs')
    BY <2>2, <2>3, <2>4 DEF IsRequests
  <2> QED BY <1>1, <2>2, <2>5 DEF AddRequest, AllocatorInv
<1>2. ASSUME NEW i \in I, NEW o \in O, NEW inPri \in InPris, NEW outPri \in OutPris,
             ReplaceRequest(i, o, inPri, outPri)
      PROVE  AllocatorInv'
  <2>1. inPri \in Int /\ outPri \in Int
    BY DEF AllocatorAssumption
  <2> DEFINE pri == [in |-> inPri, out |-> outPri]
  <2>2. phase = "adding" /\ reqs' = [reqs EXCEPT ![<<i, o>>] = pri]
    BY <1>2 DEF ReplaceRequest
  <2>3. pri.in \in Int /\ pri.out \in Int
    BY <2>1
  <2> HIDE DEF pri
  <2>4. IsRequests(reqs')
    BY <2>2, <2>3 DEF AllocatorInv, IsRequests
  <2> QED BY <1>2, <2>2, <2>4 DEF ReplaceRequest, AllocatorInv
<1>3. ASSUME Allocate PROVE AllocatorInv'
  <2>1. phase' = "allocated" /\ alg' = alg /\ reqs' = reqs
    BY <1>3 DEF Allocate
  <2>2. PICK res \in Results(alg, reqs, ptr) : inmatch' = res.in /\ outmatch' = res.out /\ ptr' = res.ptr
    BY <1>3 DEF Allocate
  <2>3. ASSUME Provable(alg)
        PROVE  /\ ptr' \in Ptrs(alg)
               /\ GoodResult(alg, reqs, [in |-> inmatch', out |-> outmatch', ptr |-> ptr'])
    <3>1. GoodResult(alg, reqs, res)
      BY <2>2, <2>3, ResultsAreGood DEF AllocatorInv
    <3> QED BY <2>2, <3>1 DEF GoodResult
  <2>4. Provable(alg') <=> Provable(alg)
    BY <2>1
  <2> QED BY <2>1, <2>3, <2>4 DEF AllocatorInv
<1>4. ASSUME Clear PROVE AllocatorInv'
  <2>1. /\ phase' = "adding" /\ alg' = alg /\ ptr' = ptr /\ reqs' = [r \in {} |-> 0]
        /\ inmatch' = NoMatch.in /\ outmatch' = NoMatch.out
    BY <1>4 DEF Clear
  <2>2. IsRequests(reqs')
    BY <2>1, NoRequests
  <2> QED BY <2>1, <2>2 DEF AllocatorInv
<1>5. CASE UNCHANGED vars
  BY <1>5 DEF vars, AllocatorInv
<1> QED BY <1>1, <1>2, <1>3, <1>4, <1>5 DEF Next

\* and it implies the promises.
LEMMA AllocatorPromises ==
  ASSUME AllocatorAssumption, AllocatorInv, Provable(alg)
  PROVE  GrantsAsPromised
<1>1. None \notin I /\ None \notin O
  BY Numbers
<1>2. CASE phase = "adding"
  <2>1. inmatch = NoMatch.in /\ outmatch = NoMatch.out
    BY <1>2 DEF AllocatorInv
  <2>2. /\ \A r \in I \X O : inmatch[r[1]] # r[2]
        /\ \A r \in I \X O : outmatch[r[2]] # r[1]
    BY <1>1, <2>1 DEF NoMatch
  <2>3. Matched = {} /\ {r \in I \X O : outmatch[r[2]] = r[1]} = {}
    BY <2>2 DEF Matched
  <2> QED BY <1>2, <2>3 DEF GrantsAsPromised, MatchingConsistent, GoodAllocation
<1>3. CASE phase = "allocated"
  <2> DEFINE asked == DOMAIN reqs
  <2>1. /\ Agree(inmatch, outmatch, asked)
        /\ asked # {} => \E i \in I : inmatch[i] # None
        /\ alg \in Maximal => NoOpen(inmatch, outmatch, asked)
        /\ alg \in {"wavefront", "rr_wavefront"} => Honoured(reqs, inmatch)
    BY <1>3 DEF AllocatorInv, GoodResult
  <2>2. asked \subseteq I \X O
    BY DEF AllocatorInv, IsRequests
  <2>3. \A r \in I \X O : /\ inmatch[r[1]] = r[2] <=> outmatch[r[2]] = r[1]
                          /\ inmatch[r[1]] = r[2] => r \in asked
    <3> SUFFICES ASSUME NEW i \in I, NEW o \in O
                 PROVE  /\ inmatch[i] = o <=> outmatch[o] = i
                        /\ inmatch[i] = o => <<i, o>> \in asked
      OBVIOUS
    <3> QED BY <2>1 DEF Agree
  <2>4. MatchingConsistent
    BY <2>3 DEF MatchingConsistent, Matched
  <2>5. SomeGrant
    <3> SUFFICES ASSUME asked # {} PROVE Matched # {}
      BY DEF SomeGrant
    <3>1. PICK i \in I : inmatch[i] # None
      BY <2>1
    <3>2. PICK o \in O : inmatch[i] = o
      BY <2>1, <3>1 DEF Agree, InSide
    <3>3. <<i, o>> \in Matched
      BY <3>2 DEF Matched
    <3> QED BY <3>3
  <2>6. NoneLeftOver
    <3> SUFFICES ASSUME alg \in Maximal, NEW r \in asked PROVE inmatch[r[1]] # None \/ outmatch[r[2]] # None
      BY DEF NoneLeftOver
    <3>1. PICK i \in I, o \in O : r = <<i, o>>
      BY <2>2
    <3> QED BY <2>1, <3>1 DEF NoOpen
  <2>7. MaximumSize
    BY DEF MaximumSize, Provable
  <2>8. PrioritiesHonoured
    <3> SUFFICES ASSUME alg \in {"wavefront", "rr_wavefront"}, NEW r \in asked \ Matched
                 PROVE  \E q \in Matched :
                          /\ q[1] = r[1] \/ q[2] = r[2]
                          /\ \/ reqs[q].out > reqs[r].out
                             \/ reqs[q].out = reqs[r].out /\ reqs[q].in >= reqs[r].in
      BY DEF PrioritiesHonoured
    <3>1. inmatch[r[1]] # r[2]
      BY <2>2 DEF Matched
    <3>2. PICK q \in asked : inmatch[q[1]] = q[2] /\ (q[1] = r[1] \/ q[2] = r[2]) /\ NoWorse(q, r, reqs)
      BY <2>1, <3>1 DEF Honoured
    <3>3. q \in Matched
      BY <2>2, <3>2 DEF Matched
    <3> QED BY <3>2, <3>3 DEF NoWorse
  <2> QED BY <2>4, <2>5, <2>6, <2>7, <2>8 DEF GrantsAsPromised, GoodAllocation
<1> QED BY <1>2, <1>3 DEF AllocatorInv

\* Every allocator but max_size, for any numbers of inputs, outputs and iterations (one
\* for select), any arbiters and priorities: the two halves of an allocation agree on a
\* matching among the requests, something is granted when something is asked, enough
\* iterations leave no requested pair free, and wavefront refuses no request but for one
\* at the same port that is no worse.
THEOREM AllocatorsGrantAsPromised ==
  ASSUME AllocatorAssumption
  PROVE  Spec => [](Provable(alg) => GrantsAsPromised)
<1>1. Init => AllocatorInv
  BY AllocatorStarts
<1>2. AllocatorInv /\ [Next]_vars => AllocatorInv'
  BY AllocatorSteps
<1>3. AllocatorInv => (Provable(alg) => GrantsAsPromised)
  BY AllocatorPromises
<1> QED BY <1>1, <1>2, <1>3, PTL DEF Spec

=============================================================================
