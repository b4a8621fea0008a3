-------------------------- MODULE SharedBufferProofs --------------------------
(***************************************************************************)
(* Every policy that shares the buffer keeps its books, whatever the VCs,  *)
(* pools and sizes.  The operations of the link are those of CreditLink,   *)
(* so what is proved of them there holds here too; the policy adds what it *)
(* counts.                                                                 *)
(***************************************************************************)
EXTENDS SharedBuffer, CreditLinkProofs, Functions

-----------------------------------------------------------------------------
(* What the sums of Totals obey, for every finite set: they add, they are  *)
(* ordered as the functions are, the sum of ones is a cardinality, and a   *)
(* set is as large as its parts are together.                              *)

LEMMA InSlots ==
  ASSUME NEW S, NEW f \in [S -> Nat], NEW p
  PROVE  p \in Slots(f) <=> \E x \in S : \E k \in 1 .. f[x] : p = <<x, k>>
  BY DEF Slots

LEMMA OneToOne ==
  ASSUME NEW A, NEW B, NEW b \in [A -> B],
         \A x, y \in A : b[x] = b[y] => x = y,
         \A z \in B : \E x \in A : b[x] = z,
         IsFiniteSet(A)
  PROVE  IsFiniteSet(B) /\ Cardinality(B) = Cardinality(A)
<1>1. b \in Bijection(A, B)
  BY DEF Bijection, Injection, IsInjective, Surjection
<1> QED BY <1>1, FS_Bijection DEF ExistsBijection

LEMMA TotalType ==
  ASSUME NEW S, IsFiniteSet(S), NEW f \in [S -> Nat]
  PROVE  IsFiniteSet(Slots(f)) /\ Total(f) \in Nat
<1> DEFINE T == {{x} \X (1 .. f[x]) : x \in S}
           c == [x \in S |-> {x} \X (1 .. f[x])]
<1>1. c \in Surjection(S, T)
  BY DEF Surjection
<1>2. IsFiniteSet(T)
  BY <1>1, FS_Surjection
<1>3. ASSUME NEW x \in S PROVE IsFiniteSet({x} \X (1 .. f[x]))
  <2>1. IsFiniteSet({x})
    BY FS_Singleton
  <2>2. IsFiniteSet(1 .. f[x])
    BY FS_Interval
  <2> QED BY <2>1, <2>2, FS_Product
<1>4. IsFiniteSet(UNION T)
  BY <1>2, <1>3, FS_UNION
<1>5. Slots(f) = UNION T
  BY DEF Slots
<1> QED BY <1>4, <1>5, FS_CardinalityType DEF Total

LEMMA TotalZero ==
  ASSUME NEW S, NEW f \in [S -> Nat], \A x \in S : f[x] = 0
  PROVE  Total(f) = 0
<1>1. Slots(f) = {}
  BY InSlots
<1> QED BY <1>1, FS_EmptySet DEF Total

LEMMA TotalAdds ==
  ASSUME NEW S, IsFiniteSet(S), NEW f \in [S -> Nat], NEW g \in [S -> Nat], NEW h \in [S -> Nat],
         \A x \in S : h[x] = f[x] + g[x]
  PROVE  Total(h) = Total(f) + Total(g)
\* The slots of h are those of f, and those of g moved up by f.
<1> DEFINE up == [p \in Slots(g) |-> <<p[1], f[p[1]] + p[2]>>]
           U == {up[p] : p \in Slots(g)}
<1>1. \A p \in Slots(g) : p[1] \in S /\ p[2] \in 1 .. g[p[1]] /\ p = <<p[1], p[2]>>
  BY InSlots
<1>2. IsFiniteSet(U) /\ Cardinality(U) = Total(g)
  <2>1. up \in [Slots(g) -> U]
    OBVIOUS
  <2>2. ASSUME NEW p \in Slots(g), NEW q \in Slots(g), up[p] = up[q] PROVE p = q
    <3>1. p[1] = q[1] /\ f[p[1]] + p[2] = f[q[1]] + q[2]
      BY <2>2
    <3>2. f[p[1]] \in Nat /\ p[2] \in Int /\ q[2] \in Int
      BY <1>1
    <3>3. p[2] = q[2]
      <4> \A a, i, j \in Int : a + i = a + j => i = j
        OBVIOUS
      <4> f[p[1]] \in Int /\ f[p[1]] + p[2] = f[p[1]] + q[2]
        BY <3>1, <3>2
      <4> HIDE DEF up, U
      <4> QED BY <3>2, Zenon
    <3> QED BY <1>1, <3>1, <3>3
  <2>3. \A z \in U : \E p \in Slots(g) : up[p] = z
    OBVIOUS
  <2> HIDE DEF up, U
  <2> QED BY <2>1, <2>2, <2>3, OneToOne, TotalType DEF Total
<1>3. Slots(h) = Slots(f) \cup U
  <2>1. ASSUME NEW x \in S, NEW k \in 1 .. h[x] PROVE <<x, k>> \in Slots(f) \cup U
    <3>1. CASE k <= f[x]
      BY <3>1, InSlots
    <3>2. CASE k > f[x]
      <4>1. k - f[x] \in 1 .. g[x]
        BY <3>2
      <4>2. <<x, k - f[x]>> \in Slots(g)
        BY <4>1, InSlots
      <4>3. up[<<x, k - f[x]>>] = <<x, k>>
        BY <4>2
      <4> QED BY <4>2, <4>3
    <3> QED BY <3>1, <3>2
  <2>2. ASSUME NEW x \in S, NEW k \in 1 .. f[x] PROVE <<x, k>> \in Slots(h)
    <3>1. k \in 1 .. h[x]
      OBVIOUS
    <3> QED BY <3>1, InSlots
  <2>3. ASSUME NEW p \in Slots(g) PROVE up[p] \in Slots(h)
    <3>1. p[1] \in S /\ f[p[1]] + p[2] \in 1 .. h[p[1]]
      BY <1>1
    <3> QED BY <3>1, InSlots
  <2>4. Slots(h) \subseteq Slots(f) \cup U
    <3> HIDE DEF U
    <3> QED BY <2>1, InSlots
  <2>5. Slots(f) \subseteq Slots(h)
    BY <2>2, InSlots
  <2> QED BY <2>3, <2>4, <2>5
<1>4. Slots(f) \cap U = {}
  <2>1. ASSUME NEW p \in Slots(g) PROVE up[p] \notin Slots(f)
    <3>1. p[1] \in S /\ f[p[1]] \in Nat /\ p[2] \in Nat /\ p[2] > 0
      BY <1>1
    <3>2. f[p[1]] + p[2] \notin 1 .. f[p[1]]
      BY <3>1
    <3> QED BY <3>1, <3>2, InSlots
  <2> QED BY <2>1
<1>5. IsFiniteSet(Slots(f)) /\ Total(f) \in Nat /\ Total(g) \in Nat
  BY TotalType
<1> HIDE DEF U
<1>6. Cardinality(Slots(f) \cup U) = Cardinality(Slots(f)) + Cardinality(U) - 0
  BY <1>2, <1>4, <1>5, FS_Union, FS_EmptySet
<1> QED BY <1>2, <1>3, <1>5, <1>6 DEF Total

LEMMA TotalOrdered ==
  ASSUME NEW S, IsFiniteSet(S), NEW f \in [S -> Nat], NEW g \in [S -> Nat],
         \A x \in S : f[x] <= g[x]
  PROVE  Total(f) <= Total(g)
<1>1. ASSUME NEW x \in S, NEW k \in 1 .. f[x] PROVE <<x, k>> \in Slots(g)
  <2>1. k \in 1 .. g[x]
    OBVIOUS
  <2> QED BY <2>1, InSlots
<1>2. Slots(f) \in SUBSET Slots(g)
  BY <1>1, InSlots
<1> QED BY <1>2, TotalType, FS_Subset DEF Total

LEMMA TotalOfOnes ==
  ASSUME NEW S, IsFiniteSet(S), NEW W \in SUBSET S
  PROVE  /\ Ones(S, W) \in [S -> Nat]
         /\ Total(Ones(S, W)) = Cardinality(W)
<1>1. Ones(S, W) \in [S -> Nat]
  BY DEF Ones
<1>2. Slots(Ones(S, W)) = {<<x, 1>> : x \in W}
  <2>1. \A x \in S : 1 .. Ones(S, W)[x] = IF x \in W THEN {1} ELSE {}
    <3> TAKE x \in S
    <3>1. 1 .. 1 = {1} /\ 1 .. 0 = {}
      OBVIOUS
    <3>2. CASE x \in W
      BY <3>1, <3>2 DEF Ones
    <3>3. CASE x \notin W
      BY <3>1, <3>3 DEF Ones
    <3> QED BY <3>2, <3>3
  <2> QED BY <1>1, <2>1, InSlots
<1> DEFINE b == [x \in W |-> <<x, 1>>]
<1>3. IsFiniteSet(W)
  BY FS_Subset
<1>4. Cardinality({<<x, 1>> : x \in W}) = Cardinality(W)
  <2>1. b \in [W -> {<<x, 1>> : x \in W}] /\ \A x, y \in W : b[x] = b[y] => x = y
    OBVIOUS
  <2>2. \A z \in {<<x, 1>> : x \in W} : \E x \in W : b[x] = z
    OBVIOUS
  <2> HIDE DEF b
  <2> QED BY <1>3, <2>1, <2>2, OneToOne
<1> QED BY <1>1, <1>2, <1>4 DEF Total

LEMMA TotalPlusOne ==
  ASSUME NEW S, IsFiniteSet(S), NEW x \in S, NEW f \in [S -> Nat], NEW g \in [S -> Nat],
         g[x] = f[x] + 1, \A y \in S \ {x} : g[y] = f[y]
  PROVE  Total(g) = Total(f) + 1
<1> DEFINE one == Ones(S, {x})
<1>1. one \in [S -> Nat] /\ Total(one) = 1
  <2>1. {x} \in SUBSET S /\ Cardinality({x}) = 1
    BY FS_Singleton
  <2> QED BY <2>1, TotalOfOnes
<1>2. \A y \in S : g[y] = f[y] + one[y]
  BY DEF Ones
<1> HIDE DEF one
<1>3. Total(g) = Total(f) + Total(one)
  BY <1>1, <1>2, TotalAdds
<1> QED BY <1>1, <1>3

LEMMA TotalMinusOnes ==
  ASSUME NEW S, IsFiniteSet(S), NEW W \in SUBSET S, NEW f \in [S -> Nat], NEW g \in [S -> Nat],
         \A y \in S : f[y] = g[y] + (IF y \in W THEN 1 ELSE 0)
  PROVE  Total(f) = Total(g) + Cardinality(W)
<1>1. /\ Ones(S, W) \in [S -> Nat]
      /\ Total(Ones(S, W)) = Cardinality(W)
  BY TotalOfOnes
<1>2. \A y \in S : f[y] = g[y] + Ones(S, W)[y]
  BY DEF Ones
<1> HIDE DEF Ones
<1> QED BY <1>1, <1>2, TotalAdds

\* A set is as large as its parts, which m tells apart, are together.
LEMMA TotalOfParts ==
  ASSUME NEW S, NEW W, IsFiniteSet(W), NEW m \in [W -> S], NEW f \in [S -> Nat],
         \A i \in S : f[i] = Cardinality({w \in W : m[w] = i})
  PROVE  Total(f) = Cardinality(W)
<1> DEFINE Part(i) == {w \in W : m[w] = i}
<1>1. \A i \in S : IsFiniteSet(Part(i)) /\ ExistsBijection(1 .. f[i], Part(i))
  <2> TAKE i \in S
  <2>1. IsFiniteSet(Part(i))
    BY FS_Subset
  <2> QED BY <2>1, FS_CardinalityType
<1> DEFINE c == [i \in S |-> CHOOSE b : b \in Bijection(1 .. f[i], Part(i))]
<1>2. \A i \in S : c[i] \in Bijection(1 .. f[i], Part(i))
  BY <1>1 DEF ExistsBijection
<1> HIDE DEF c
<1>3. \A i \in S : /\ \A k \in 1 .. f[i] : c[i][k] \in W /\ m[c[i][k]] = i
                   /\ \A k, j \in 1 .. f[i] : c[i][k] = c[i][j] => k = j
                   /\ \A w \in W : m[w] = i => \E k \in 1 .. f[i] : c[i][k] = w
  BY <1>2 DEF Bijection, Injection, IsInjective, Surjection
<1> HIDE DEF Part
<1> DEFINE b == [p \in Slots(f) |-> c[p[1]][p[2]]]
<1>4. \A p \in Slots(f) : p[1] \in S /\ p[2] \in 1 .. f[p[1]] /\ p = <<p[1], p[2]>>
  BY InSlots
<1>5. b \in [Slots(f) -> W]
  BY <1>3, <1>4
<1>6. ASSUME NEW p \in Slots(f), NEW q \in Slots(f), b[p] = b[q] PROVE p = q
  <2>1. p[1] = q[1]
    BY <1>3, <1>4, <1>6
  <2>2. p[2] = q[2]
    BY <1>3, <1>4, <1>6, <2>1
  <2> QED BY <1>4, <2>1, <2>2
<1>7. ASSUME NEW w \in W PROVE \E p \in Slots(f) : b[p] = w
  <2>1. PICK k \in 1 .. f[m[w]] : c[m[w]][k] = w
    BY <1>3
  <2>2. <<m[w], k>> \in Slots(f)
    BY InSlots
  <2> QED BY <2>1, <2>2
<1> DEFINE back == [w \in W |-> CHOOSE p \in Slots(f) : b[p] = w]
<1>8. back \in [W -> Slots(f)] /\ \A w \in W : b[back[w]] = w
  BY <1>7
<1> HIDE DEF b, back
<1>9. /\ \A w, z \in W : back[w] = back[z] => w = z
      /\ \A p \in Slots(f) : \E w \in W : back[w] = p
  <2>1. \A w, z \in W : back[w] = back[z] => w = z
    BY <1>8
  <2>2. ASSUME NEW p \in Slots(f) PROVE \E w \in W : back[w] = p
    <3>1. b[p] \in W
      BY <1>5
    <3>2. b[back[b[p]]] = b[p] /\ back[b[p]] \in Slots(f)
      BY <1>8, <3>1
    <3>3. back[b[p]] = p
      BY <1>6, <3>2
    <3> QED BY <3>1, <3>3
  <2> QED BY <2>1, <2>2
<1> QED BY <1>8, <1>9, OneToOne DEF Total

-----------------------------------------------------------------------------
(* The policies.                                                           *)

sharedVars == <<vars, policyVars>>

LEMMA SharedIsLinkStep == [SharedNext]_sharedVars => [LinkNext]_vars
  BY DEF SharedNext, LinkNext, SharedTake, SharedSend, SharedProcessCredit, sharedVars

-----------------------------------------------------------------------------
(* What the policy counts, and how its counts hang together.               *)

PolicyTypeOK ==
  /\ policy \in Policies
  /\ privateOcc \in [Pools -> Nat]
  /\ sharedOcc \in Nat
  /\ reserved \in [VCs -> Nat]
  /\ activeVcs \in Int
  /\ maxHeld \in Int

\* Without wait_for_tail_credit the tail gives the VC back.
TailReleases == ~WaitForTailCredit => \A v \in VCs : tailSent[v] => inUseBy[v] = None

\* A slot is reserved for a VC whose packet has begun and of which nothing is stored ...
BegunIsReserved ==
  \A s \in Senders : outVC[s] # None /\ sent[s] > 0 /\ vcOccupancy[outVC[s]] = 0 =>
    reserved[outVC[s]] > 0

\* ... and for nothing else.
ReservedIsHeld ==
  \A v \in VCs : reserved[v] > 0 =>
    reserved[v] = 1 /\ inUseBy[v] # None /\ ~tailSent[v] /\ vcOccupancy[v] = 0

Uses(i) == [v \in VcsOf(i) |-> vcOccupancy[v] + reserved[v]]

PoolsAgree == \A i \in Pools : privateOcc[i] = Total(Uses(i))

SumsAgree ==
  /\ occupancy = Total(vcOccupancy)
  /\ occupancy + Total(reserved) = Total(privateOcc)
  /\ bufOccupancy = Total(StoredCounts)

Active == {s \in Senders : outVC[s] # None}

ActiveAgree == Limits => activeVcs = Cardinality(Active)

SharedInv ==
  /\ TypeOK
  /\ CreditConservation
  /\ SoleSender
  /\ PolicyTypeOK
  /\ TailReleases
  /\ BegunIsReserved
  /\ ReservedIsHeld
  /\ PoolsAgree
  /\ sharedOcc = Total(Beyond)
  /\ sharedOcc <= SharedSize
  /\ SumsAgree
  /\ ActiveAgree
  /\ maxHeld > 0

-----------------------------------------------------------------------------
(* Facts about the constants and the counts.                               *)

LEMMA Constants ==
  /\ IsFiniteSet(VCs) /\ IsFiniteSet(Pools)
  /\ PoolOf \in [VCs -> Pools] /\ PrivateSize \in [Pools -> Nat]
  /\ Total(PrivateSize) \in Nat /\ SharedSize \in Nat /\ Size \in Nat
  /\ Size = SharedSize + Total(PrivateSize)
  /\ Cardinality(VCs) \in Nat /\ Cardinality(VCs) <= Size
<1>1. IsFiniteSet(VCs) /\ IsFiniteSet(Pools) /\ VCs # {}
  BY LinkAssumption, SharedAssumption
<1>2. Total(PrivateSize) \in Nat
  BY <1>1, SharedAssumption, TotalType
<1>3. Cardinality(VCs) \in Nat /\ Size \in Nat /\ Cardinality(VCs) * VcBufSize <= Size
  BY <1>1, SlotsFit, FS_CardinalityType
<1>4. \A n \in Nat, m \in Nat \ {0} : n <= n * m
  BY Z3
<1>5. Cardinality(VCs) <= Cardinality(VCs) * VcBufSize /\ Cardinality(VCs) * VcBufSize \in Int
  BY <1>3, <1>4, VcBufSizeAssumption
<1>6. Cardinality(VCs) <= Size
  BY <1>3, <1>5
<1> QED BY <1>1, <1>2, <1>3, <1>6, SharedAssumption, SharedSizeAssumption DEF SharedSize

LEMMA CountTypes ==
  TypeOK /\ CreditConservation /\ PolicyTypeOK =>
    /\ vcOccupancy \in [VCs -> Nat]
    /\ StoredCounts \in [VCs -> Nat]
    /\ credits \in [VCs -> Nat]
    /\ Beyond \in [Pools -> Nat]
    /\ \A v \in VCs : StoredCounts[v] + Underway(v) + credits[v] = vcOccupancy[v]
<1> SUFFICES ASSUME TypeOK, CreditConservation, PolicyTypeOK
             PROVE  /\ vcOccupancy \in [VCs -> Nat]
                    /\ StoredCounts \in [VCs -> Nat]
                    /\ credits \in [VCs -> Nat]
                    /\ Beyond \in [Pools -> Nat]
                    /\ \A v \in VCs : StoredCounts[v] + Underway(v) + credits[v] = vcOccupancy[v]
  OBVIOUS
<1>1. \A v \in VCs : vcOccupancy[v] = Underway(v) + Stored(v) + credits[v]
  BY ConservationNamed
<1>2. \A v \in VCs : Underway(v) \in Nat /\ Stored(v) \in Nat /\ credits[v] \in Nat
  BY Counts
<1>3. \A v \in VCs : vcOccupancy[v] \in Nat
  BY <1>1, <1>2
<1>4. StoredCounts \in [VCs -> Nat]
  BY <1>2 DEF StoredCounts
<1>5. Beyond \in [Pools -> Nat]
  BY Constants DEF Beyond, PolicyTypeOK
<1>6. \A v \in VCs : StoredCounts[v] + Underway(v) + credits[v] = vcOccupancy[v]
  BY <1>1, <1>2 DEF StoredCounts
<1> QED BY <1>3, <1>4, <1>5, <1>6 DEF TypeOK

LEMMA UsesType ==
  ASSUME TypeOK, CreditConservation, PolicyTypeOK, NEW i \in Pools
  PROVE  IsFiniteSet(VcsOf(i)) /\ Uses(i) \in [VcsOf(i) -> Nat]
<1>1. VcsOf(i) \in SUBSET VCs
  BY DEF VcsOf
<1>2. \A v \in VCs : vcOccupancy[v] \in Nat /\ reserved[v] \in Nat
  BY CountTypes DEF PolicyTypeOK
<1> QED BY <1>1, <1>2, Constants, FS_Subset DEF Uses

\* At most one packet per VC is under way.
LEMMA ActiveFit ==
  TypeOK /\ SoleSender => IsFiniteSet(Active) /\ Cardinality(Active) <= Cardinality(VCs)
<1> SUFFICES ASSUME TypeOK, SoleSender
             PROVE  IsFiniteSet(Active) /\ Cardinality(Active) <= Cardinality(VCs)
  OBVIOUS
<1> DEFINE b == [s \in Active |-> outVC[s]]
<1>1. b \in [Active -> VCs]
  BY DEF Active, TypeOK
<1>2. \A r, s \in Active : b[r] = b[s] => r = s
  BY DEF Active, SoleSender
<1>3. b \in Injection(Active, VCs)
  BY <1>1, <1>2 DEF Injection, IsInjective
<1> QED BY <1>3, Constants, FS_Injection

LEMMA SomethingIsLeft ==
  ASSUME PolicyTypeOK, maxHeld > 0, NEW a \in Int, Limits => a <= Cardinality(VCs)
  PROVE  HeldLimit(a) \in Int /\ HeldLimit(a) > 0
<1>1. CASE policy \in {"dynamic", "shifting"} /\ a > 0
  <2>1. a \in 1 .. Cardinality(VCs) /\ a <= Size
    BY <1>1, Constants DEF Limits
  <2>2. CASE policy = "dynamic"
    <3>1. \A n \in Nat \ {0}, m \in Nat : n <= m => m \div n \in Int /\ m \div n > 0
      BY Z3
    <3>2. Size \div a \in Int /\ Size \div a > 0
      BY <2>1, <3>1, Constants
    <3> QED BY <1>1, <2>2, <3>2 DEF HeldLimit
  <2>3. CASE policy = "shifting"
    <3>1. 2^Halvings(a) \in 1 .. Size
      BY <2>1, <2>3, ShiftingAssumption DEF PolicyTypeOK
    <3>2. \A n \in Nat \ {0}, m \in Nat : n <= m => m \div n \in Int /\ m \div n > 0
      BY Z3
    <3>3. PICK h : h = 2^Halvings(a)
      OBVIOUS
    <3>4. Size \div h \in Int /\ Size \div h > 0
      BY <3>1, <3>2, <3>3, Constants
    <3> QED BY <1>1, <2>3, <3>3, <3>4 DEF HeldLimit
  <2> QED BY <1>1, <2>2, <2>3
<1>2. CASE ~(policy \in {"dynamic", "shifting"} /\ a > 0)
  BY <1>2 DEF HeldLimit, PolicyTypeOK
<1> QED BY <1>1, <1>2

-----------------------------------------------------------------------------
(* One step lemma per operation.                                           *)

\* The part of the invariant that is not inherited from the link.
PolicyInv ==
  /\ PolicyTypeOK
  /\ TailReleases
  /\ BegunIsReserved
  /\ ReservedIsHeld
  /\ PoolsAgree
  /\ sharedOcc = Total(Beyond)
  /\ sharedOcc <= SharedSize
  /\ SumsAgree
  /\ ActiveAgree
  /\ maxHeld > 0

LEMMA InvIsBoth ==
  SharedInv <=> TypeOK /\ CreditConservation /\ SoleSender /\ PolicyInv
  BY DEF SharedInv, PolicyInv

\* Nothing that the sums range over changes.
LEMMA SumsUntouched ==
  ASSUME SharedInv,
         UNCHANGED <<vcOccupancy, occupancy, buffer, bufOccupancy, privateOcc, sharedOcc, reserved>>
  PROVE  PoolsAgree' /\ (sharedOcc = Total(Beyond))' /\ (sharedOcc <= SharedSize)' /\ SumsAgree'
<1>1. Beyond' = Beyond /\ StoredCounts' = StoredCounts
  BY DEF Beyond, StoredCounts, Stored
<1>2. \A i \in Pools : Uses(i)' = Uses(i)
  BY DEF Uses
<1>3. PoolsAgree'
  BY <1>2 DEF PoolsAgree, SharedInv
<1>4. SumsAgree'
  BY <1>1 DEF SumsAgree, SharedInv
<1> QED BY <1>1, <1>3, <1>4 DEF SharedInv

LEMMA TakeKeeps ==
  ASSUME SharedInv, (TypeOK /\ SoleSender)', NEW s \in Senders, NEW v \in VCs, SharedTake(s, v)
  PROVE  PolicyInv'
<1> USE DEF SharedInv
<1>1. /\ outVC[s] = None /\ inUseBy[v] = None
      /\ inUseBy' = [inUseBy EXCEPT ![v] = s]
      /\ tailSent' = [tailSent EXCEPT ![v] = FALSE]
      /\ outVC' = [outVC EXCEPT ![s] = v]
      /\ sent' = [sent EXCEPT ![s] = 0]
      /\ UNCHANGED <<vcOccupancy, occupancy, buffer, bufOccupancy, policy, privateOcc, sharedOcc, reserved>>
      /\ activeVcs' = IF Limits THEN activeVcs + 1 ELSE activeVcs
      /\ maxHeld' = HeldLimit(activeVcs')
  BY DEF SharedTake, TakeBuffer, IsAvailableFor, sinkVars
<1>2. Limits' = Limits
  BY <1>1 DEF Limits
<1>3. ActiveAgree'
  <2> SUFFICES ASSUME Limits PROVE activeVcs' = Cardinality(Active')
    BY <1>2 DEF ActiveAgree
  <2>1. Active' = Active \cup {s} /\ s \notin Active
    BY <1>1, LinkAssumption DEF Active, TypeOK
  <2>2. IsFiniteSet(Active)
    BY ActiveFit
  <2>3. Cardinality(Active') = Cardinality(Active) + 1
    BY <2>1, <2>2, FS_AddElement
  <2> QED BY <1>1, <2>3 DEF ActiveAgree
<1>4. activeVcs' \in Int /\ (Limits => activeVcs' <= Cardinality(VCs))
  <2>1. (Cardinality(Active) <= Cardinality(VCs))'
    BY ActiveFit, PTL
  <2> QED BY <1>1, <1>2, <1>3, <2>1 DEF ActiveAgree, PolicyTypeOK
<1>5. maxHeld' \in Int /\ maxHeld' > 0
  BY <1>1, <1>4, SomethingIsLeft
<1>6. PolicyTypeOK'
  BY <1>1, <1>4, <1>5 DEF PolicyTypeOK
<1>7. TailReleases'
  BY <1>1 DEF TailReleases, TypeOK
<1>8. BegunIsReserved'
  BY <1>1 DEF BegunIsReserved, TypeOK
<1>9. ReservedIsHeld'
  BY <1>1, LinkAssumption DEF ReservedIsHeld, TypeOK
<1> QED BY <1>1, <1>3, <1>5, <1>6, <1>7, <1>8, <1>9, SumsUntouched DEF PolicyInv

\* AddFlit and RemoveFlit: the policy does not see them.
LEMMA DownstreamKeeps ==
  ASSUME SharedInv, NEW v \in VCs, AddFlit(v) \/ RemoveFlit(v), UNCHANGED policyVars
  PROVE  PolicyInv'
<1> USE DEF SharedInv
<1>1. UNCHANGED <<vcOccupancy, occupancy, inUseBy, tailSent, outVC, sent, policy, privateOcc,
                  sharedOcc, reserved, activeVcs, maxHeld>>
  BY DEF AddFlit, RemoveFlit, policyVars, stateVars, senderVars
<1>2. StoredCounts \in [VCs -> Nat]
  BY CountTypes
<1>3. StoredCounts' \in [VCs -> Nat] /\ bufOccupancy' = Total(StoredCounts')
  <2>1. CASE AddFlit(v)
    <3>1. /\ Stored(v)' = Stored(v) + 1
          /\ \A w \in VCs \ {v} : Stored(w)' = Stored(w)
      BY <2>1, CountsAfterAdd
    <3>2. /\ StoredCounts'[v] = StoredCounts[v] + 1
          /\ \A w \in VCs \ {v} : StoredCounts'[w] = StoredCounts[w]
      BY <3>1 DEF StoredCounts
    <3>3. StoredCounts' \in [VCs -> Nat]
      BY <1>2, <3>2 DEF StoredCounts
    <3>4. Total(StoredCounts') = Total(StoredCounts) + 1
      BY <1>2, <3>2, <3>3, Constants, TotalPlusOne
    <3> QED BY <2>1, <3>3, <3>4 DEF AddFlit, SumsAgree
  <2>2. CASE RemoveFlit(v)
    <3>0. Stored(v) > 0
      BY <2>2, HeadTail, Counts DEF RemoveFlit, Stored
    <3>1. /\ Stored(v)' = Stored(v) - 1
          /\ \A w \in VCs \ {v} : Stored(w)' = Stored(w)
      BY <2>2, CountsAfterRemove
    <3>2. /\ StoredCounts[v] = StoredCounts'[v] + 1
          /\ StoredCounts'[v] \in Nat
          /\ \A w \in VCs \ {v} : StoredCounts'[w] = StoredCounts[w]
      BY <3>0, <3>1, Counts DEF StoredCounts
    <3>3. StoredCounts' \in [VCs -> Nat]
      BY <1>2, <3>2 DEF StoredCounts
    <3>4. Total(StoredCounts) = Total(StoredCounts') + 1
      BY <1>2, <3>2, <3>3, Constants, TotalPlusOne
    <3>5. Total(StoredCounts') \in Nat
      BY <3>3, Constants, TotalType
    <3> QED BY <2>2, <3>3, <3>4, <3>5 DEF RemoveFlit, SumsAgree
  <2> QED BY <2>1, <2>2
<1>4. Beyond' = Beyond /\ \A i \in Pools : Uses(i)' = Uses(i)
  BY <1>1 DEF Beyond, Uses
<1>5. PoolsAgree'
  BY <1>1, <1>4 DEF PoolsAgree
<1>6. SumsAgree'
  BY <1>1, <1>3 DEF SumsAgree
<1>7. PolicyTypeOK' /\ TailReleases' /\ BegunIsReserved' /\ ReservedIsHeld' /\ ActiveAgree'
  BY <1>1 DEF PolicyTypeOK, TailReleases, BegunIsReserved, ReservedIsHeld, ActiveAgree, Limits, Active
<1> QED BY <1>1, <1>4, <1>5, <1>6, <1>7 DEF PolicyInv

\* Reservations are single, so a tail never has more than its own to give back.
LEMMA SendEffect ==
  ASSUME SharedInv, NEW s \in Senders, NEW last \in BOOLEAN, SharedSend(s, last),
         NEW v \in VCs, v = outVC[s], NEW i \in Pools, i = PoolOf[v]
  PROVE  /\ vcOccupancy' = [vcOccupancy EXCEPT ![v] = @ + 1]
         /\ occupancy' = occupancy + 1
         /\ UNCHANGED <<policy, buffer, bufOccupancy>>
         /\ \/ /\ reserved[v] = 1
               /\ reserved' = [reserved EXCEPT ![v] = 0]
               /\ UNCHANGED <<privateOcc, sharedOcc>>
            \/ /\ reserved[v] = 0
               /\ UNCHANGED reserved
               /\ privateOcc' = [privateOcc EXCEPT ![i] = @ + 1]
               /\ sharedOcc' = IF privateOcc[i] >= PrivateSize[i] THEN sharedOcc + 1 ELSE sharedOcc
               /\ privateOcc[i] >= PrivateSize[i] => sharedOcc < SharedSize
<1> USE DEF SharedInv
<1>1. reserved[v] \in {0, 1} /\ sharedOcc \in Nat /\ privateOcc[i] \in Nat /\ SharedSize \in Nat
      /\ reserved \in [VCs -> Nat] /\ privateOcc \in [Pools -> Nat] /\ PrivateSize[i] \in Nat
  BY Constants DEF ReservedIsHeld, PolicyTypeOK
<1>2. SharedAmong(i, 0) = 0
  <2>1. {k \in 1 .. 0 : privateOcc[i] - k >= PrivateSize[i]} = {}
    OBVIOUS
  <2> QED BY <2>1, FS_EmptySet DEF SharedAmong
<1>3. /\ vcOccupancy' = [vcOccupancy EXCEPT ![v] = @ + 1]
      /\ occupancy' = occupancy + 1
      /\ UNCHANGED <<policy, buffer, bufOccupancy>>
  BY DEF SharedSend, SendingFlit, sinkVars
<1>4. CASE reserved[v] = 1
  <2>1. /\ reserved' = [reserved EXCEPT ![v] = 0 - 0]
        /\ privateOcc' = [privateOcc EXCEPT ![i] = @ - 0]
        /\ sharedOcc' = sharedOcc - SharedAmong(i, 0)
    BY <1>4 DEF SharedSend
  <2>2. privateOcc' = privateOcc /\ sharedOcc' = sharedOcc /\ reserved' = [reserved EXCEPT ![v] = 0]
    BY <1>1, <1>2, <2>1
  <2> QED BY <1>3, <1>4, <2>2
<1>5. CASE reserved[v] = 0
  <2>1. /\ reserved' = [reserved EXCEPT ![v] = 0 - 0]
        /\ privateOcc' = [privateOcc EXCEPT ![i] = @ + 1]
        /\ sharedOcc' = IF privateOcc[i] >= PrivateSize[i] THEN sharedOcc + 1
                        ELSE sharedOcc - SharedAmong(i, 0)
        /\ ~SharedIsFullFor(v)
    BY <1>5 DEF SharedSend
  <2>2. reserved' = reserved /\ sharedOcc' = IF privateOcc[i] >= PrivateSize[i] THEN sharedOcc + 1 ELSE sharedOcc
    BY <1>1, <1>2, <1>5, <2>1
  <2>3. privateOcc[i] >= PrivateSize[i] => ~(sharedOcc >= SharedSize)
    BY <1>5, <2>1 DEF SharedIsFullFor
  <2> QED BY <1>1, <1>3, <1>5, <2>1, <2>2, <2>3
<1> QED BY <1>1, <1>4, <1>5

LEMMA SendSums ==
  ASSUME SharedInv, (TypeOK /\ CreditConservation /\ PolicyTypeOK)',
         NEW s \in Senders, NEW last \in BOOLEAN, SharedSend(s, last)
  PROVE  PoolsAgree' /\ (sharedOcc = Total(Beyond))' /\ (sharedOcc <= SharedSize)' /\ SumsAgree'
<1> USE DEF SharedInv
<1>1. PICK v \in VCs : v = outVC[s]
  BY SentFlit DEF SharedSend
<1>2. PICK i \in Pools : i = PoolOf[v]
  BY Constants
<1>3. /\ vcOccupancy' = [vcOccupancy EXCEPT ![v] = @ + 1]
      /\ occupancy' = occupancy + 1
      /\ UNCHANGED <<policy, buffer, bufOccupancy>>
  BY <1>1, <1>2, SendEffect
<1>4. /\ vcOccupancy \in [VCs -> Nat] /\ vcOccupancy' \in [VCs -> Nat]
      /\ Beyond \in [Pools -> Nat] /\ Beyond' \in [Pools -> Nat]
      /\ reserved \in [VCs -> Nat] /\ reserved' \in [VCs -> Nat]
      /\ privateOcc \in [Pools -> Nat] /\ privateOcc' \in [Pools -> Nat]
      /\ IsFiniteSet(VCs) /\ IsFiniteSet(Pools) /\ PrivateSize \in [Pools -> Nat]
  <2>1. (vcOccupancy \in [VCs -> Nat] /\ Beyond \in [Pools -> Nat])'
    BY CountTypes, PTL
  <2> QED BY <2>1, CountTypes, Constants DEF PolicyTypeOK
<1>5. \A j \in Pools : /\ IsFiniteSet(VcsOf(j)) /\ Uses(j) \in [VcsOf(j) -> Nat]
                       /\ Uses(j)' \in [VcsOf(j) -> Nat]
                       /\ \A w \in VcsOf(j) : w \in VCs /\ Uses(j)[w] = vcOccupancy[w] + reserved[w]
                       /\ \A w \in VcsOf(j) : Uses(j)'[w] = vcOccupancy'[w] + reserved'[w]
  BY <1>4, UsesType DEF Uses, VcsOf
<1>6. v \in VcsOf(i) /\ \A j \in Pools : v \in VcsOf(j) => j = i
  BY <1>2 DEF VcsOf
<1>7. bufOccupancy' = Total(StoredCounts') /\ occupancy' = Total(vcOccupancy')
  <2>1. StoredCounts' = StoredCounts
    BY <1>3 DEF StoredCounts, Stored
  <2>2. vcOccupancy'[v] = vcOccupancy[v] + 1 /\ \A w \in VCs \ {v} : vcOccupancy'[w] = vcOccupancy[w]
    BY <1>3, <1>4
  <2>3. Total(vcOccupancy') = Total(vcOccupancy) + 1
    BY <1>4, <2>2, TotalPlusOne
  <2> QED BY <1>3, <2>1, <2>3 DEF SumsAgree
<1>8. Total(reserved) \in Nat /\ Total(reserved') \in Nat /\ Total(privateOcc) \in Nat /\ occupancy \in Int
  BY <1>4, TotalType DEF TypeOK
<1>9. CASE /\ reserved[v] = 1
           /\ reserved' = [reserved EXCEPT ![v] = 0]
           /\ UNCHANGED <<privateOcc, sharedOcc>>
  <2>1. \A j \in Pools : Uses(j)' = Uses(j)
    <3> TAKE j \in Pools
    <3>1. \A w \in VcsOf(j) : Uses(j)'[w] = Uses(j)[w]
      BY <1>3, <1>4, <1>5, <1>9
    <3> QED BY <1>5, <3>1
  <2>2. PoolsAgree'
    BY <1>9, <2>1 DEF PoolsAgree
  <2>3. Total(reserved) = Total(reserved') + 1
    <3>1. reserved[v] = reserved'[v] + 1 /\ \A w \in VCs \ {v} : reserved[w] = reserved'[w]
      BY <1>4, <1>9
    <3>2. IsFiniteSet(VCs) /\ reserved \in [VCs -> Nat] /\ reserved' \in [VCs -> Nat]
      BY <1>4
    <3> QED BY <3>1, <3>2, TotalPlusOne
  <2>4. Beyond' = Beyond
    BY <1>9 DEF Beyond
  <2> QED BY <1>3, <1>7, <1>8, <1>9, <2>2, <2>3, <2>4 DEF SumsAgree
<1>10. CASE /\ reserved[v] = 0
            /\ UNCHANGED reserved
            /\ privateOcc' = [privateOcc EXCEPT ![i] = @ + 1]
            /\ sharedOcc' = IF privateOcc[i] >= PrivateSize[i] THEN sharedOcc + 1 ELSE sharedOcc
            /\ privateOcc[i] >= PrivateSize[i] => sharedOcc < SharedSize
  <2>1. /\ Uses(i)'[v] = Uses(i)[v] + 1
        /\ \A j \in Pools : \A w \in VcsOf(j) \ {v} : Uses(j)'[w] = Uses(j)[w]
    BY <1>3, <1>4, <1>5, <1>6, <1>10
  <2>2. Total(Uses(i)') = Total(Uses(i)) + 1
    BY <1>5, <1>6, <2>1, TotalPlusOne
  <2>3. \A j \in Pools \ {i} : Uses(j)' = Uses(j)
    <3> TAKE j \in Pools \ {i}
    <3>1. \A w \in VcsOf(j) : Uses(j)'[w] = Uses(j)[w]
      BY <1>6, <2>1
    <3> QED BY <1>5, <3>1
  <2>4. PoolsAgree'
    <3>1. privateOcc'[i] = Total(Uses(i)')
      BY <1>4, <1>10, <2>2 DEF PoolsAgree
    <3>2. \A j \in Pools \ {i} : privateOcc'[j] = Total(Uses(j)')
      BY <1>4, <1>10, <2>3 DEF PoolsAgree
    <3> QED BY <3>1, <3>2 DEF PoolsAgree
  <2>5. /\ privateOcc'[i] = privateOcc[i] + 1
        /\ \A j \in Pools \ {i} : privateOcc'[j] = privateOcc[j]
    BY <1>4, <1>10
  <2>6. Total(privateOcc') = Total(privateOcc) + 1
    BY <1>4, <2>5, TotalPlusOne
  <2>7. \A j \in Pools \ {i} : Beyond'[j] = Beyond[j]
    BY <2>5 DEF Beyond
  <2>8. sharedOcc' = Total(Beyond') /\ sharedOcc' <= SharedSize
    <3>1. CASE privateOcc[i] >= PrivateSize[i]
      <4>1. Beyond'[i] = Beyond[i] + 1
        BY <1>4, <2>5, <3>1 DEF Beyond
      <4>2. Total(Beyond') = Total(Beyond) + 1
        BY <1>4, <2>7, <4>1, TotalPlusOne
      <4> QED BY <1>10, <3>1, <4>2, Constants DEF PolicyTypeOK
    <3>2. CASE ~(privateOcc[i] >= PrivateSize[i])
      <4>1. Beyond'[i] = Beyond[i]
        BY <1>4, <2>5, <3>2 DEF Beyond
      <4>2. Beyond' = Beyond
        BY <1>4, <2>7, <4>1
      <4> QED BY <1>10, <3>2, <4>2
    <3> QED BY <3>1, <3>2
  <2>9. SumsAgree'
    BY <1>3, <1>7, <1>8, <1>10, <2>6 DEF SumsAgree
  <2> QED BY <2>4, <2>8, <2>9
<1> QED BY <1>1, <1>2, <1>9, <1>10, SendEffect

LEMMA SendKeeps ==
  ASSUME SharedInv, (TypeOK /\ CreditConservation /\ SoleSender)',
         NEW s \in Senders, NEW last \in BOOLEAN, SharedSend(s, last)
  PROVE  PolicyInv'
<1> USE DEF SharedInv
<1>1. PICK v \in VCs : v = outVC[s] /\ v # None
  BY SentFlit DEF SharedSend
<1>2. PICK i \in Pools : i = PoolOf[v]
  BY Constants
<1>3. /\ inUseBy[v] = s /\ ~tailSent[v]
      /\ \A r \in Senders : outVC[r] = v => r = s
  BY <1>1 DEF SoleSender
<1>4. /\ tailSent' = [tailSent EXCEPT ![v] = @ \/ last]
      /\ inUseBy' = IF last /\ ~WaitForTailCredit THEN [inUseBy EXCEPT ![v] = None] ELSE inUseBy
      /\ outVC' = IF last THEN [outVC EXCEPT ![s] = None] ELSE outVC
      /\ sent' = [sent EXCEPT ![s] = @ + 1]
      /\ activeVcs' = IF Limits /\ last THEN activeVcs - 1 ELSE activeVcs
      /\ maxHeld' = IF last THEN HeldLimit(activeVcs') ELSE maxHeld
  BY <1>1 DEF SharedSend, SendingFlit
<1>5. /\ vcOccupancy' = [vcOccupancy EXCEPT ![v] = @ + 1]
      /\ policy' = policy
      /\ reserved'[v] = 0 /\ \A w \in VCs \ {v} : reserved'[w] = reserved[w]
      /\ reserved' \in [VCs -> Nat] /\ privateOcc' \in [Pools -> Nat] /\ sharedOcc' \in Nat
  <2>1. /\ vcOccupancy' = [vcOccupancy EXCEPT ![v] = @ + 1]
        /\ policy' = policy
    BY <1>1, <1>2, SendEffect
  <2>2. reserved \in [VCs -> Nat] /\ privateOcc \in [Pools -> Nat] /\ sharedOcc \in Nat
    BY DEF PolicyTypeOK
  <2>3. /\ reserved'[v] = 0 /\ \A w \in VCs \ {v} : reserved'[w] = reserved[w]
        /\ reserved' \in [VCs -> Nat] /\ privateOcc' \in [Pools -> Nat] /\ sharedOcc' \in Nat
    BY <1>1, <1>2, <2>2, SendEffect
  <2> QED BY <2>1, <2>3
<1>6. Limits' = Limits
  BY <1>5 DEF Limits
<1>7. ActiveAgree'
  <2> SUFFICES ASSUME Limits PROVE activeVcs' = Cardinality(Active')
    BY <1>6 DEF ActiveAgree
  <2>1. IsFiniteSet(Active) /\ Cardinality(Active) \in Nat
    BY ActiveFit, FS_CardinalityType
  <2>2. CASE last
    <3>1. Active' = Active \ {s} /\ s \in Active
      BY <1>1, <1>4, <2>2 DEF Active, TypeOK
    <3>2. Cardinality(Active') = Cardinality(Active) - 1
      BY <2>1, <3>1, FS_RemoveElement
    <3> QED BY <1>4, <2>2, <3>2 DEF ActiveAgree
  <2>3. CASE ~last
    BY <1>4, <2>3 DEF Active, ActiveAgree
  <2> QED BY <2>2, <2>3
<1>8. activeVcs' \in Int /\ (Limits => activeVcs' <= Cardinality(VCs))
  <2>1. (Cardinality(Active) <= Cardinality(VCs))'
    BY ActiveFit, PTL
  <2> QED BY <1>4, <1>6, <1>7, <2>1 DEF ActiveAgree, PolicyTypeOK
<1>9. maxHeld' \in Int /\ maxHeld' > 0
  <2>1. HeldLimit(activeVcs') \in Int /\ HeldLimit(activeVcs') > 0
    BY <1>8, SomethingIsLeft
  <2> QED BY <1>4, <2>1 DEF PolicyTypeOK
<1>10. PolicyTypeOK'
  BY <1>5, <1>8, <1>9 DEF PolicyTypeOK
<1>11. TailReleases'
  BY <1>3, <1>4 DEF TailReleases, TypeOK
<1>12. \A r \in Senders \ {s} : outVC'[r] = outVC[r] /\ sent'[r] = sent[r] /\ outVC[r] # v
  BY <1>3, <1>4 DEF TypeOK
<1>13. vcOccupancy'[v] > 0 /\ \A w \in VCs \ {v} : vcOccupancy'[w] = vcOccupancy[w]
  <2>1. vcOccupancy[v] \in Nat
    BY CountTypes
  <2> QED BY <1>5, <2>1 DEF TypeOK
<1>14. BegunIsReserved'
  <2>1. ASSUME NEW r \in Senders, outVC'[r] # None, sent'[r] > 0, vcOccupancy'[outVC'[r]] = 0
        PROVE  reserved'[outVC'[r]] > 0
    <3>1. r # s
      <4>1. outVC'[s] \in {v, None}
        BY <1>1, <1>4 DEF TypeOK
      <4> QED BY <1>13, <2>1, <4>1
    <3>2. outVC[r] \in VCs \ {v} /\ outVC'[r] = outVC[r] /\ sent[r] > 0
      BY <1>12, <2>1, <3>1 DEF TypeOK
    <3> QED BY <1>5, <1>13, <2>1, <3>2 DEF BegunIsReserved
  <2> QED BY <2>1 DEF BegunIsReserved
<1>15. ReservedIsHeld'
  <2>1. ASSUME NEW w \in VCs, reserved'[w] > 0
        PROVE  reserved'[w] = 1 /\ inUseBy'[w] # None /\ ~tailSent'[w] /\ vcOccupancy'[w] = 0
    <3>1. w # v
      BY <1>5, <2>1
    <3>2. reserved[w] > 0 /\ reserved'[w] = reserved[w]
      BY <1>5, <2>1, <3>1
    <3>3. inUseBy'[w] = inUseBy[w] /\ tailSent'[w] = tailSent[w] /\ vcOccupancy'[w] = vcOccupancy[w]
      BY <1>4, <1>13, <3>1 DEF TypeOK
    <3> QED BY <3>2, <3>3 DEF ReservedIsHeld
  <2> QED BY <2>1 DEF ReservedIsHeld
<1>16. PoolsAgree' /\ (sharedOcc = Total(Beyond))' /\ (sharedOcc <= SharedSize)' /\ SumsAgree'
  BY <1>10, SendSums
<1> QED BY <1>7, <1>9, <1>10, <1>11, <1>14, <1>15, <1>16 DEF PolicyInv

\* What pool i gives back of its shared slots is what it holds less beyond its size.
LEMMA AmongIsDifference ==
  ASSUME NEW i \in Pools, privateOcc[i] \in Nat, PrivateSize[i] \in Nat, NEW n \in 0 .. privateOcc[i]
  PROVE  /\ SharedAmong(i, n) \in Nat
         /\ (IF privateOcc[i] > PrivateSize[i] THEN privateOcc[i] - PrivateSize[i] ELSE 0)
             = SharedAmong(i, n)
               + (IF privateOcc[i] - n > PrivateSize[i] THEN privateOcc[i] - n - PrivateSize[i] ELSE 0)
<1> DEFINE d == (IF privateOcc[i] > PrivateSize[i] THEN privateOcc[i] - PrivateSize[i] ELSE 0)
                - (IF privateOcc[i] - n > PrivateSize[i] THEN privateOcc[i] - n - PrivateSize[i] ELSE 0)
<1>1. d \in Nat
  OBVIOUS
<1>2. {k \in 1 .. n : privateOcc[i] - k >= PrivateSize[i]} = 1 .. d
  OBVIOUS
<1> HIDE DEF d
<1>3. Cardinality(1 .. d) = d
  BY <1>1, FS_Interval
<1>4. SharedAmong(i, n) = d
  BY <1>2, <1>3 DEF SharedAmong
<1> QED BY <1>1, <1>4 DEF d

LEMMA CreditSums ==
  ASSUME SharedInv, (TypeOK /\ CreditConservation)', NEW S \in SUBSET VCs, SharedProcessCredit(S)
  PROVE  /\ privateOcc' \in [Pools -> Nat] /\ sharedOcc' \in Nat /\ reserved' \in [VCs -> Nat]
         /\ PoolsAgree' /\ (sharedOcc = Total(Beyond))' /\ (sharedOcc <= SharedSize)' /\ SumsAgree'
<1> USE DEF SharedInv
<1> DEFINE R == {v \in S : Reserves(v)}
           G == {v \in S : ~Reserves(v)}
           freed == [i \in Pools |-> Freed(S, i)]
           among == [i \in Pools |-> SharedAmong(i, Freed(S, i))]
<1>1. /\ vcOccupancy \in [VCs -> Nat] /\ reserved \in [VCs -> Nat]
      /\ privateOcc \in [Pools -> Nat] /\ Beyond \in [Pools -> Nat] /\ sharedOcc \in Nat
      /\ IsFiniteSet(VCs) /\ IsFiniteSet(Pools) /\ PoolOf \in [VCs -> Pools]
      /\ PrivateSize \in [Pools -> Nat]
  BY CountTypes, Constants DEF PolicyTypeOK
<1>2. /\ \A v \in VCs : vcOccupancy'[v] = vcOccupancy[v] - (IF v \in S THEN 1 ELSE 0)
      /\ \A v \in VCs : reserved'[v] = reserved[v] + (IF v \in R THEN 1 ELSE 0)
      /\ \A i \in Pools : privateOcc'[i] = privateOcc[i] - freed[i]
      /\ occupancy' = occupancy - Cardinality(S)
      /\ sharedOcc' = sharedOcc - Total(among)
      /\ UNCHANGED <<buffer, bufOccupancy>>
  BY <1>1 DEF SharedProcessCredit, ProcessCredit, sinkVars
<1>3. \A v \in S : vcOccupancy[v] > 0
  <2> TAKE v \in S
  <2>1. credits[v] > 0 /\ vcOccupancy[v] = Underway(v) + Stored(v) + credits[v]
    BY ConservationNamed DEF SharedProcessCredit, ProcessCredit
  <2> QED BY <2>1, Counts
<1>4. reserved' \in [VCs -> Nat] /\ vcOccupancy' \in [VCs -> Nat]
  <2>1. reserved' = [v \in VCs |-> IF v \in S /\ Reserves(v) THEN reserved[v] + 1 ELSE reserved[v]]
    BY DEF SharedProcessCredit
  <2>2. vcOccupancy' = [v \in VCs |-> IF v \in S THEN vcOccupancy[v] - 1 ELSE vcOccupancy[v]]
    BY DEF SharedProcessCredit, ProcessCredit
  <2>3. reserved' \in [VCs -> Nat]
    BY <1>1, <2>1
  <2> QED BY <1>1, <1>3, <2>2, <2>3
\* Pool by pool: what is used less, is freed.
<1>5. ASSUME NEW i \in Pools
      PROVE  /\ Uses(i)' \in [VcsOf(i) -> Nat]
             /\ Freed(S, i) \in Nat
             /\ Total(Uses(i)) = Total(Uses(i)') + Freed(S, i)
  <2> DEFINE W == {v \in S : PoolOf[v] = i /\ ~Reserves(v)}
  <2>1. W \in SUBSET VcsOf(i) /\ IsFiniteSet(VcsOf(i)) /\ IsFiniteSet(W)
    <3>1. W \in SUBSET VcsOf(i) /\ VcsOf(i) \in SUBSET VCs
      BY DEF VcsOf
    <3> HIDE DEF W
    <3> QED BY <1>1, <3>1, FS_Subset
  <2>2. /\ Uses(i) \in [VcsOf(i) -> Nat] /\ Uses(i)' \in [VcsOf(i) -> Nat]
        /\ \A v \in VcsOf(i) : v \in VCs /\ PoolOf[v] = i
                                /\ Uses(i)[v] = vcOccupancy[v] + reserved[v]
                                /\ Uses(i)'[v] = vcOccupancy'[v] + reserved'[v]
    BY <1>1, <1>4 DEF Uses, VcsOf
  <2>3. \A v \in VcsOf(i) : Uses(i)[v] = Uses(i)'[v] + (IF v \in W THEN 1 ELSE 0)
    <3> TAKE v \in VcsOf(i)
    <3>1. vcOccupancy[v] \in Nat /\ reserved[v] \in Nat /\ PoolOf[v] = i
          /\ vcOccupancy'[v] \in Nat /\ reserved'[v] \in Nat
      BY <1>1, <1>4, <2>2
    <3>2. CASE v \in R
      <4>1. v \in S /\ v \notin W
        BY <3>2
      <4> QED BY <1>2, <2>2, <3>1, <3>2, <4>1
    <3>3. CASE v \in W
      <4>1. v \in S /\ v \notin R
        BY <3>3
      <4> QED BY <1>2, <2>2, <3>1, <3>3, <4>1
    <3>4. CASE v \notin R /\ v \notin W
      <4>1. v \notin S
        BY <3>1, <3>4
      <4> QED BY <1>2, <2>2, <3>1, <3>4, <4>1
    <3> QED BY <3>2, <3>3, <3>4
  <2>4. Freed(S, i) = Cardinality(W) /\ Cardinality(W) \in Nat
    BY <2>1, FS_CardinalityType DEF Freed
  <2> HIDE DEF W
  <2>5. Total(Uses(i)) = Total(Uses(i)') + Cardinality(W)
    BY <2>1, <2>2, <2>3, TotalMinusOnes
  <2> QED BY <2>2, <2>4, <2>5
<1>6. /\ freed \in [Pools -> Nat]
      /\ \A i \in Pools : privateOcc'[i] = Total(Uses(i)') /\ freed[i] \in 0 .. privateOcc[i]
  <2>1. freed \in [Pools -> Nat]
    BY <1>5
  <2>2. ASSUME NEW i \in Pools
        PROVE  privateOcc'[i] = Total(Uses(i)') /\ freed[i] \in 0 .. privateOcc[i]
    <3>1. Total(Uses(i)') \in Nat
      <4>1. VcsOf(i) \in SUBSET VCs
        BY DEF VcsOf
      <4>2. IsFiniteSet(VcsOf(i))
        BY <1>1, <4>1, FS_Subset
      <4> QED BY <1>5, <4>2, TotalType
    <3>2. privateOcc[i] = Total(Uses(i)') + freed[i] /\ freed[i] \in Nat
      BY <1>5 DEF PoolsAgree
    <3>3. privateOcc'[i] = privateOcc[i] - freed[i]
      BY <1>2
    <3> QED BY <3>1, <3>2, <3>3
  <2> QED BY <2>1, <2>2
<1>7. privateOcc' \in [Pools -> Nat] /\ PoolsAgree'
  <2>1. privateOcc' = [i \in Pools |-> privateOcc[i] - Freed(S, i)]
    BY DEF SharedProcessCredit
  <2>2. privateOcc' \in [Pools -> Nat]
    BY <1>1, <1>6, <2>1
  <2> QED BY <1>6, <2>2 DEF PoolsAgree
<1>8. /\ among \in [Pools -> Nat] /\ Beyond' \in [Pools -> Nat]
      /\ Total(Beyond) = Total(among) + Total(Beyond')
  <2>1. ASSUME NEW i \in Pools
        PROVE  among[i] \in Nat /\ Beyond[i] = among[i] + Beyond'[i]
    <3>1. Freed(S, i) \in 0 .. privateOcc[i] /\ privateOcc'[i] = privateOcc[i] - Freed(S, i)
      BY <1>2, <1>6
    <3>2. privateOcc[i] \in Nat /\ PrivateSize[i] \in Nat
      BY <1>1
    <3>3. Beyond'[i] = IF privateOcc[i] - Freed(S, i) > PrivateSize[i]
                       THEN privateOcc[i] - Freed(S, i) - PrivateSize[i] ELSE 0
      BY <3>1 DEF Beyond
    <3> QED BY <3>1, <3>2, <3>3, AmongIsDifference DEF Beyond
  <2>2. among \in [Pools -> Nat]
    BY <2>1
  <2>3. Beyond' \in [Pools -> Nat]
    BY <1>1, <1>7 DEF Beyond
  <2> HIDE DEF among
  <2> QED BY <1>1, <2>1, <2>2, <2>3, TotalAdds
<1>9. sharedOcc' = Total(Beyond') /\ sharedOcc' \in Nat /\ sharedOcc' <= SharedSize
  <2>1. Total(Beyond') \in Nat /\ Total(among) \in Nat
    <3> HIDE DEF among
    <3> QED BY <1>1, <1>8, TotalType
  <2> QED BY <1>1, <1>2, <1>8, <2>1, Constants
<1>10. Cardinality(S) = Cardinality(R) + Cardinality(G) /\ Cardinality(R) \in Nat /\ Cardinality(G) \in Nat
       /\ IsFiniteSet(G) /\ R \in SUBSET VCs
  <2>1. IsFiniteSet(S) /\ G = S \ R /\ S \cap R = R /\ R \in SUBSET VCs
    BY <1>1, FS_Subset
  <2>2. IsFiniteSet(R) /\ IsFiniteSet(G)
    <3>1. R \in SUBSET S /\ G \in SUBSET S
      OBVIOUS
    <3> QED BY <2>1, <3>1, FS_Subset
  <2> HIDE DEF R, G
  <2>3. Cardinality(S \ R) = Cardinality(S) - Cardinality(S \cap R)
    BY <2>1, FS_Difference
  <2>4. Cardinality(S) \in Nat /\ Cardinality(R) \in Nat /\ Cardinality(G) \in Nat
    BY <2>1, <2>2, FS_CardinalityType
  <2>5. Cardinality(G) = Cardinality(S) - Cardinality(R)
    BY <2>1, <2>3
  <2> QED BY <2>1, <2>2, <2>4, <2>5
<1>11. Total(vcOccupancy) = Total(vcOccupancy') + Cardinality(S)
  <2>1. \A v \in VCs : vcOccupancy[v] = vcOccupancy'[v] + (IF v \in S THEN 1 ELSE 0)
    BY <1>1, <1>2, <1>4
  <2> QED BY <1>1, <1>4, <2>1, TotalMinusOnes
<1>12. Total(reserved') = Total(reserved) + Cardinality(R)
  <2> HIDE DEF R
  <2> QED BY <1>1, <1>2, <1>4, <1>10, TotalMinusOnes
<1>13. Total(freed) = Cardinality(G)
  <2> DEFINE m == [v \in G |-> PoolOf[v]]
  <2>1. m \in [G -> Pools]
    BY <1>1
  <2>2. \A i \in Pools : freed[i] = Cardinality({v \in G : m[v] = i})
    <3> TAKE i \in Pools
    <3>1. {v \in G : m[v] = i} = {v \in S : PoolOf[v] = i /\ ~Reserves(v)}
      OBVIOUS
    <3> QED BY <3>1 DEF Freed
  <2>3. freed \in [Pools -> Nat] /\ IsFiniteSet(G)
    BY <1>6, <1>10
  <2> HIDE DEF m, freed, G
  <2> QED BY <2>1, <2>2, <2>3, TotalOfParts
<1>14. Total(privateOcc) = Total(privateOcc') + Total(freed)
  <2>1. \A i \in Pools : privateOcc[i] = privateOcc'[i] + freed[i]
    <3> TAKE i \in Pools
    <3>1. privateOcc[i] \in Nat /\ freed[i] \in Nat /\ privateOcc'[i] = privateOcc[i] - freed[i]
      BY <1>1, <1>2, <1>6
    <3> QED BY <3>1
  <2>2. /\ privateOcc \in [Pools -> Nat] /\ privateOcc' \in [Pools -> Nat] /\ freed \in [Pools -> Nat]
        /\ IsFiniteSet(Pools)
    BY <1>1, <1>6, <1>7
  <2> HIDE DEF freed
  <2> QED BY <2>1, <2>2, TotalAdds
<1>15. SumsAgree'
  <2>1. StoredCounts' = StoredCounts
    BY <1>2 DEF StoredCounts, Stored
  <2>2. /\ Total(vcOccupancy') \in Nat /\ Total(reserved) \in Nat /\ Total(privateOcc') \in Nat
        /\ Total(reserved') \in Nat
    BY <1>1, <1>4, <1>7, TotalType
  <2>3. occupancy' = Total(vcOccupancy')
    BY <1>2, <1>10, <1>11, <2>2 DEF SumsAgree
  <2>4. occupancy' + Total(reserved') = Total(privateOcc')
    BY <1>10, <1>11, <1>12, <1>13, <1>14, <2>2, <2>3 DEF SumsAgree
  <2> QED BY <1>2, <2>1, <2>3, <2>4 DEF SumsAgree
<1> QED BY <1>4, <1>7, <1>9, <1>15

LEMMA CreditKeeps ==
  ASSUME SharedInv, (TypeOK /\ CreditConservation)', NEW S \in SUBSET VCs, SharedProcessCredit(S)
  PROVE  PolicyInv'
<1> USE DEF SharedInv
<1>1. /\ \A v \in VCs : vcOccupancy'[v] = (IF v \in S THEN vcOccupancy[v] - 1 ELSE vcOccupancy[v])
      /\ \A v \in VCs : inUseBy'[v] = (IF v \in S /\ ReleasedBy(v) THEN None ELSE inUseBy[v])
      /\ \A v \in VCs : reserved'[v] = (IF v \in S /\ Reserves(v) THEN reserved[v] + 1 ELSE reserved[v])
      /\ UNCHANGED <<tailSent, outVC, sent, policy, activeVcs, maxHeld>>
  BY DEF SharedProcessCredit, ProcessCredit, senderVars
<1>2. /\ privateOcc' \in [Pools -> Nat] /\ sharedOcc' \in Nat /\ reserved' \in [VCs -> Nat]
      /\ PoolsAgree' /\ (sharedOcc = Total(Beyond))' /\ (sharedOcc <= SharedSize)' /\ SumsAgree'
  BY CreditSums
<1>3. PolicyTypeOK'
  BY <1>1, <1>2 DEF PolicyTypeOK
<1>4. ActiveAgree' /\ TailReleases'
  BY <1>1 DEF ActiveAgree, Limits, Active, TailReleases
<1>5. \A v \in VCs : vcOccupancy[v] \in Nat /\ reserved[v] \in Nat
  BY CountTypes DEF PolicyTypeOK
\* A credit comes for a VC only if something of it is outstanding.
<1>6. \A v \in S : vcOccupancy[v] > 0
  <2> TAKE v \in S
  <2>1. credits[v] > 0 /\ vcOccupancy[v] = Underway(v) + Stored(v) + credits[v]
    BY ConservationNamed DEF SharedProcessCredit, ProcessCredit
  <2> QED BY <2>1, Counts
<1>7. BegunIsReserved'
  <2>1. ASSUME NEW s \in Senders, outVC'[s] # None, sent'[s] > 0, vcOccupancy'[outVC'[s]] = 0
        PROVE  reserved'[outVC'[s]] > 0
    <3>1. PICK v \in VCs : v = outVC[s] /\ v = outVC'[s]
      BY <1>1, <2>1 DEF TypeOK
    <3>2. inUseBy[v] = s /\ ~tailSent[v] /\ s # None
      BY <1>1, <2>1, <3>1, LinkAssumption DEF SoleSender
    <3>3. CASE v \in S
      <4>1. vcOccupancy[v] = 1
        BY <1>1, <1>5, <2>1, <3>1, <3>3
      <4>2. Reserves(v)
        BY <3>2, <4>1 DEF Reserves, ReleasedBy
      <4> QED BY <1>1, <1>5, <3>1, <3>3, <4>2
    <3>4. CASE v \notin S
      <4>1. vcOccupancy[v] = 0 /\ reserved'[v] = reserved[v]
        BY <1>1, <2>1, <3>1, <3>4
      <4> QED BY <1>1, <2>1, <3>1, <4>1 DEF BegunIsReserved
    <3> QED BY <3>3, <3>4
  <2> QED BY <2>1 DEF BegunIsReserved
<1>8. ReservedIsHeld'
  <2>1. ASSUME NEW v \in VCs, reserved'[v] > 0
        PROVE  reserved'[v] = 1 /\ inUseBy'[v] # None /\ ~tailSent'[v] /\ vcOccupancy'[v] = 0
    <3>1. CASE v \in S /\ Reserves(v)
      <4>1. vcOccupancy[v] = 1 /\ inUseBy[v] # None /\ ~ReleasedBy(v)
        BY <3>1 DEF Reserves
      <4>2. reserved[v] = 0
        <5>1. ~(reserved[v] > 0)
          BY <4>1 DEF ReservedIsHeld
        <5> QED BY <1>5, <5>1
      <4>3. ~tailSent[v]
        BY <4>1, LinkAssumption DEF ReleasedBy, TailReleases
      <4> QED BY <1>1, <3>1, <4>1, <4>2, <4>3
    <3>2. CASE ~(v \in S /\ Reserves(v))
      <4>1. reserved'[v] = reserved[v]
        BY <1>1, <3>2
      <4>2. reserved[v] = 1 /\ inUseBy[v] # None /\ ~tailSent[v] /\ vcOccupancy[v] = 0
        BY <2>1, <4>1 DEF ReservedIsHeld
      <4>3. v \notin S
        <5>1. ~(vcOccupancy[v] > 0)
          BY <4>2
        <5> QED BY <1>6, <5>1
      <4> QED BY <1>1, <4>1, <4>2, <4>3
    <3> QED BY <3>1, <3>2
  <2> QED BY <2>1 DEF ReservedIsHeld
<1>9. (maxHeld > 0)'
  BY <1>1
<1> QED BY <1>2, <1>3, <1>4, <1>7, <1>8, <1>9 DEF PolicyInv

-----------------------------------------------------------------------------
(* The invariant.                                                          *)

LEMMA SharedStart == ASSUME SharedInit PROVE SharedInv
<1> USE DEF SharedInit
<1>1. TypeOK /\ CreditConservation /\ SoleSender
  BY TypeInit, LinkAssumption DEF Init, CreditConservation, SoleSender
<1>2. PolicyTypeOK /\ maxHeld > 0
  <2>1. Size > 0
    <3>1. Cardinality(VCs) # 0
      BY LinkAssumption, SharedAssumption, FS_EmptySet
    <3> QED BY <3>1, Constants
  <2> QED BY <2>1, SharedAssumption, Constants DEF PolicyTypeOK
<1>3. TailReleases /\ BegunIsReserved /\ ReservedIsHeld
  BY DEF Init, TailReleases, BegunIsReserved, ReservedIsHeld
<1>4. PoolsAgree
  <2> SUFFICES ASSUME NEW i \in Pools PROVE privateOcc[i] = Total(Uses(i))
    BY DEF PoolsAgree
  <2>1. Uses(i) \in [VcsOf(i) -> Nat] /\ \A v \in VcsOf(i) : Uses(i)[v] = 0
    BY DEF Init, Uses, VcsOf
  <2>2. Total(Uses(i)) = 0
    BY <2>1, TotalZero
  <2> QED BY <2>2
<1>5. Total(Beyond) = 0
  <2>1. Beyond \in [Pools -> Nat] /\ \A i \in Pools : Beyond[i] = 0
    BY Constants DEF Beyond
  <2> QED BY <2>1, TotalZero
<1>6. SumsAgree
  <2>1. /\ vcOccupancy \in [VCs -> Nat] /\ \A v \in VCs : vcOccupancy[v] = 0
        /\ reserved \in [VCs -> Nat] /\ \A v \in VCs : reserved[v] = 0
        /\ privateOcc \in [Pools -> Nat] /\ \A i \in Pools : privateOcc[i] = 0
        /\ StoredCounts \in [VCs -> Nat] /\ \A v \in VCs : StoredCounts[v] = 0
    BY DEF Init, StoredCounts, Stored
  <2>2. Total(vcOccupancy) = 0 /\ Total(reserved) = 0 /\ Total(privateOcc) = 0 /\ Total(StoredCounts) = 0
    BY <2>1, TotalZero
  <2> QED BY <2>2 DEF Init, SumsAgree
<1>7. ActiveAgree
  <2>1. Active = {}
    BY DEF Init, Active
  <2> QED BY <2>1, FS_EmptySet DEF ActiveAgree
<1> QED BY <1>1, <1>2, <1>3, <1>4, <1>5, <1>6, <1>7, Constants DEF SharedInv

LEMMA SharedStep == ASSUME SharedInv, [SharedNext]_sharedVars PROVE SharedInv'
<1>0. TypeOK /\ CreditConservation /\ SoleSender /\ [LinkNext]_vars
  BY SharedIsLinkStep DEF SharedInv
<1>1. TypeOK' /\ CreditConservation' /\ SoleSender'
  BY <1>0, TypeStep, ConservationStep, SoleSenderStep
<1>2. ASSUME NEW s \in Senders, NEW v \in VCs, SharedTake(s, v) PROVE PolicyInv'
  BY <1>1, <1>2, TakeKeeps
<1>3. ASSUME NEW s \in Senders, NEW last \in BOOLEAN, SharedSend(s, last) PROVE PolicyInv'
  BY <1>1, <1>3, SendKeeps
<1>4. ASSUME NEW v \in VCs, AddFlit(v) \/ RemoveFlit(v), UNCHANGED policyVars PROVE PolicyInv'
  BY <1>4, DownstreamKeeps
<1>5. ASSUME NEW S \in SUBSET VCs, SharedProcessCredit(S) PROVE PolicyInv'
  BY <1>1, <1>5, CreditKeeps
<1>6. ASSUME UNCHANGED sharedVars PROVE PolicyInv'
  <2>1. UNCHANGED <<vcOccupancy, occupancy, buffer, bufOccupancy, inUseBy, tailSent, outVC, sent,
                    policy, privateOcc, sharedOcc, reserved, activeVcs, maxHeld>>
    BY <1>6 DEF sharedVars, vars, stateVars, senderVars, sinkVars, policyVars
  <2>2. PoolsAgree' /\ (sharedOcc = Total(Beyond))' /\ (sharedOcc <= SharedSize)' /\ SumsAgree'
    BY <2>1, SumsUntouched
  <2> QED BY <2>1, <2>2 DEF SharedInv, PolicyInv, PolicyTypeOK, TailReleases, BegunIsReserved,
                            ReservedIsHeld, ActiveAgree, Limits, Active
<1>7. PolicyInv'
  BY <1>2, <1>3, <1>4, <1>5, <1>6 DEF SharedNext
<1>8. (SharedInv <=> TypeOK /\ CreditConservation /\ SoleSender /\ PolicyInv)'
  BY InvIsBoth, PTL
<1> QED BY <1>1, <1>7, <1>8

LEMMA SharedAlways == SharedSpec => []SharedInv
<1>1. SharedInit => SharedInv
  BY SharedStart
<1>2. SharedInv /\ [SharedNext]_sharedVars => SharedInv'
  BY SharedStep
<1> QED BY <1>1, <1>2, PTL DEF SharedSpec, sharedVars

-----------------------------------------------------------------------------
(* What follows from it.                                                   *)

\* For every set of VCs, mapping to pools and sizes: the pools count the flits
\* and reservations of their VCs, the shared slots what exceeds the pools, and
\* IsFullFor and AvailableFor agree under all four policies.
THEOREM SlotsAreAccounted == SharedSpec => []SlotAccounting
<1>1. SharedInv => SlotAccounting
  <2> SUFFICES ASSUME SharedInv PROVE SlotAccounting
    OBVIOUS
  <2> USE DEF SharedInv
  <2>1. \A i \in Pools :
          privateOcc[i] = Total([v \in VcsOf(i) |-> vcOccupancy[v] + reserved[v]])
    BY DEF PoolsAgree, Uses
  <2>2. ASSUME NEW v \in VCs PROVE SharedIsFullFor(v) <=> SharedAvailableFor(v) <= 0
    <3>1. PICK i \in Pools : i = PoolOf[v]
      BY Constants
    <3>2. /\ reserved[v] \in Nat /\ privateOcc[i] \in Nat /\ PrivateSize[i] \in Nat
          /\ sharedOcc \in Nat /\ SharedSize \in Nat /\ sharedOcc <= SharedSize
          /\ vcOccupancy[v] \in Int /\ maxHeld \in Int
      BY Constants DEF PolicyTypeOK, TypeOK
    <3>3. PICK unused \in Nat :
            unused = IF PrivateSize[i] - privateOcc[i] > 0 THEN PrivateSize[i] - privateOcc[i] ELSE 0
      BY <3>2
    <3>4. unused = 0 <=> privateOcc[i] >= PrivateSize[i]
      BY <3>2, <3>3
    <3>5. PICK slots \in Int : slots = reserved[v] + unused + SharedSize - sharedOcc
      BY <3>2
    <3>6. slots <= 0 <=> reserved[v] = 0 /\ privateOcc[i] >= PrivateSize[i] /\ sharedOcc >= SharedSize
      BY <3>2, <3>4, <3>5
    <3>7. SharedAvailableFor(v) = IF Limits THEN Least(slots, maxHeld - vcOccupancy[v]) ELSE slots
      BY <3>1, <3>3, <3>5 DEF SharedAvailableFor
    <3>8. SharedAvailableFor(v) <= 0 <=> slots <= 0 \/ (Limits /\ vcOccupancy[v] >= maxHeld)
      BY <3>2, <3>7 DEF Least
    <3> QED BY <3>1, <3>6, <3>8 DEF SharedIsFullFor
  <2> QED BY <2>1, <2>2 DEF SlotAccounting
<1> QED BY <1>1, SharedAlways, PTL

\* Flits and reservations of all VCs together fit in the buffer, and a flit that
\* arrives finds a free slot.
THEOREM SharedBufferNeverOverflows == SharedSpec => []SharedNoOverflow
<1>1. SharedInv => SharedNoOverflow
  <2> SUFFICES ASSUME SharedInv PROVE SharedNoOverflow
    OBVIOUS
  <2> USE DEF SharedInv
  <2>1. /\ vcOccupancy \in [VCs -> Nat] /\ reserved \in [VCs -> Nat]
        /\ privateOcc \in [Pools -> Nat] /\ Beyond \in [Pools -> Nat]
        /\ StoredCounts \in [VCs -> Nat]
        /\ IsFiniteSet(VCs) /\ IsFiniteSet(Pools) /\ PrivateSize \in [Pools -> Nat]
    BY CountTypes, Constants DEF PolicyTypeOK
  <2>2. occupancy + Total(reserved) <= Size
    <3> DEFINE room == [i \in Pools |-> PrivateSize[i] + Beyond[i]]
    <3>1. room \in [Pools -> Nat] /\ \A i \in Pools : room[i] = PrivateSize[i] + Beyond[i]
      BY <2>1
    <3>2. \A i \in Pools : privateOcc[i] <= room[i]
      BY <2>1 DEF Beyond
    <3> HIDE DEF room
    <3>3. Total(room) = Total(PrivateSize) + Total(Beyond)
      BY <2>1, <3>1, TotalAdds
    <3>4. Total(privateOcc) <= Total(room)
      BY <2>1, <3>1, <3>2, TotalOrdered
    <3>5. Total(privateOcc) \in Nat
      BY <2>1, TotalType
    <3>6. Total(room) <= Size /\ Total(room) \in Nat
      BY <3>3, Constants DEF PolicyTypeOK
    <3>7. occupancy + Total(reserved) = Total(privateOcc)
      BY DEF SumsAgree
    <3> QED BY <3>4, <3>5, <3>6, <3>7, Constants
  <2>3. ASSUME NEW v \in VCs, channel[v] # <<>> PROVE bufOccupancy < Size
    \* The flit that arrives is counted upstream and not yet downstream.
    <3> DEFINE more == [w \in VCs |-> IF w = v THEN StoredCounts[w] + 1 ELSE StoredCounts[w]]
    <3>1. Underway(v) > 0
      BY <2>3, HeadTail, Counts DEF Underway
    <3>2. \A w \in VCs : StoredCounts[w] + Underway(w) + credits[w] = vcOccupancy[w]
      BY CountTypes
    <3>3. \A w \in VCs : Underway(w) \in Nat /\ credits[w] \in Nat
      BY Counts
    <3>4. \A w \in VCs : more[w] <= vcOccupancy[w]
      BY <2>1, <3>1, <3>2, <3>3
    <3>5. /\ more \in [VCs -> Nat] /\ more[v] = StoredCounts[v] + 1
          /\ \A w \in VCs \ {v} : more[w] = StoredCounts[w]
      BY <2>1
    <3> HIDE DEF more
    <3>6. Total(more) = Total(StoredCounts) + 1
      BY <2>1, <3>5, TotalPlusOne
    <3>7. Total(more) <= Total(vcOccupancy)
      BY <2>1, <3>4, <3>5, TotalOrdered
    <3>8. Total(StoredCounts) \in Nat /\ Total(vcOccupancy) \in Nat /\ Total(reserved) \in Nat
      BY <2>1, TotalType
    <3>9. occupancy = Total(vcOccupancy) /\ bufOccupancy = Total(StoredCounts)
      BY DEF SumsAgree
    <3> QED BY <2>2, <3>6, <3>7, <3>8, <3>9, Constants
  <2> QED BY <2>2, <2>3 DEF SharedNoOverflow
<1> QED BY <1>1, SharedAlways, PTL

\* A begun packet is never shut out of an empty VC by what other VCs take, and
\* a slot is kept for nothing else.
THEOREM BegunPacketsGoOn == SharedSpec => []BegunPacketKeepsSlot
<1>1. SharedInv => BegunPacketKeepsSlot
  <2> SUFFICES ASSUME SharedInv PROVE BegunPacketKeepsSlot
    OBVIOUS
  <2> USE DEF SharedInv
  <2>1. ASSUME NEW s \in Senders, outVC[s] # None, sent[s] > 0, vcOccupancy[outVC[s]] = 0
        PROVE  ~SharedIsFullFor(outVC[s])
    <3>1. reserved[outVC[s]] # 0
      BY <2>1 DEF BegunIsReserved
    <3>2. ~(vcOccupancy[outVC[s]] >= maxHeld)
      BY <2>1 DEF PolicyTypeOK
    <3> QED BY <3>1, <3>2 DEF SharedIsFullFor
  <2> QED BY <2>1 DEF BegunPacketKeepsSlot, ReservedIsHeld
<1> QED BY <1>1, SharedAlways, PTL

\* The dividing policies count the packets under way, never more than VCs, and
\* leave each of them a slot.
THEOREM ActiveVcsAreCounted == SharedSpec => []ActiveVcsCounted
<1>1. SharedInv => ActiveVcsCounted
  BY ActiveFit DEF SharedInv, ActiveVcsCounted, ActiveAgree, Active
<1> QED BY <1>1, SharedAlways, PTL

\* What holds of the link under the private policy and does not depend on the
\* policy's guards: credits are conserved, a VC has one sender and packets are
\* not interleaved, whichever policy shares the buffer.
THEOREM SharedLinkIsSound == SharedSpec => [](CreditConservation /\ SoleSender /\ PacketsContiguous)
<1>1. SharedInit => PacketInv
  BY PacketInit DEF SharedInit
<1>2. PacketInv /\ [SharedNext]_sharedVars => PacketInv'
  BY PacketStep, SharedIsLinkStep
<1>3. SharedInv => CreditConservation /\ SoleSender
  BY DEF SharedInv
<1>4. PacketInv => PacketsContiguous
  BY InOrderArrival
<1> QED BY <1>1, <1>2, <1>3, <1>4, SharedAlways, PTL DEF SharedSpec, sharedVars

=============================================================================
