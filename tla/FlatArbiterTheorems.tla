------------------------ MODULE FlatArbiterTheorems ------------------------
(***************************************************************************)
(* What the round-robin and the matrix arbiter guarantee, for any number   *)
(* of inputs: their state orders the inputs, the winner comes before every *)
(* other request, and an input that a winner overtakes moves up.           *)
(***************************************************************************)
EXTENDS FlatArbiters, FiniteSetTheorems, WellFoundedInduction, TLAPS

-----------------------------------------------------------------------------
(* Natural numbers.                                                        *)

\* A set of natural numbers has a least element.
LEMMA LeastNat ==
  ASSUME NEW T \in SUBSET Nat, T # {}
  PROVE  \E x \in T : \A y \in T : x <= y
<1> DEFINE R == OpToRel(<, Nat)
<1>1. IsWellFoundedOn(R, Nat)
  BY NatLessThanWellFounded
<1>2. \A x, y \in Nat : <<x, y>> \in R <=> x < y
  BY DEF OpToRel
<1> HIDE DEF R
<1>3. PICK x \in T : \A y \in T : ~ (<<y, x>> \in R)
  BY <1>1, WFMin
<1>4. \A y \in T : ~ (y < x)
  BY <1>2, <1>3
<1> QED BY <1>3, <1>4

\* Induction, with the hypothesis as a set.
LEMMA NatSetInduction ==
  ASSUME NEW S, 0 \in S, \A n \in Nat : n \in S => n + 1 \in S
  PROVE  Nat \subseteq S
<1> SUFFICES ASSUME Nat \ S # {} PROVE FALSE
  OBVIOUS
<1>1. PICK x \in Nat \ S : \A y \in Nat \ S : x <= y
  BY LeastNat
<1>2. x # 0 /\ x - 1 \in Nat /\ x - 1 \notin S
  BY <1>1
<1> QED BY <1>1, <1>2

\* What remainders are.
LEMMA Remainder ==
  ASSUME NEW n \in Nat \ {0}
  PROVE  /\ \A a \in 0 .. n - 1 : a % n = a /\ (a + n) % n = a
         /\ \A a \in Int : a % n \in 0 .. n - 1
<1>1. \A a \in 0 .. n - 1 : a % n = a
  OBVIOUS
<1>2. \A a \in 0 .. n - 1 : (a + n) % n = a
  OBVIOUS
<1>3. \A a \in Int : a % n \in 0 .. n - 1
  OBVIOUS
<1> QED BY <1>1, <1>2, <1>3

\* The inputs and their sets are finite.
LEMMA UptoFinite ==
  ASSUME NEW n \in Nat
  PROVE  /\ IsFiniteSet(Upto(n)) /\ Cardinality(Upto(n)) = n
         /\ \A S \in SUBSET Upto(n) : IsFiniteSet(S) /\ Cardinality(S) \in 0 .. n
<1>1. IsFiniteSet(Upto(n)) /\ Cardinality(Upto(n)) = n
  BY FS_Interval DEF Upto
<1>2. \A S \in SUBSET Upto(n) : IsFiniteSet(S) /\ Cardinality(S) \in 0 .. n
  <2> TAKE S \in SUBSET Upto(n)
  <2>1. IsFiniteSet(S) /\ Cardinality(S) <= n
    BY <1>1, FS_Subset
  <2>2. Cardinality(S) \in Nat
    BY <2>1, FS_CardinalityType
  <2> QED BY <2>1, <2>2
<1> QED BY <1>1, <1>2

\* A strict total order on a finite set, as a function, has a first element.
LEMMA First ==
  ASSUME NEW S, IsFiniteSet(S), S # {},
         NEW L,
         \A i \in S : ~L[<<i, i>>],
         \A i, j \in S : i # j => L[<<i, j>>] \/ L[<<j, i>>],
         \A i, j, k \in S : L[<<i, j>>] /\ L[<<j, k>>] => L[<<i, k>>]
  PROVE  \E i \in S : \A j \in S \ {i} : L[<<i, j>>]
<1> DEFINE before == [i \in S |-> {j \in S : L[<<j, i>>]}]
           size == [i \in S |-> Cardinality(before[i])]
           T == {size[i] : i \in S}
<1>1. \A i \in S : IsFiniteSet(before[i]) /\ size[i] \in Nat
  <2> TAKE i \in S
  <2>1. before[i] \in SUBSET S /\ size[i] = Cardinality(before[i])
    OBVIOUS
  <2> QED BY <2>1, FS_Subset, FS_CardinalityType
<1>2. \A i, j \in S : L[<<j, i>>] => size[j] < size[i]
  <2> SUFFICES ASSUME NEW i \in S, NEW j \in S, L[<<j, i>>] PROVE size[j] < size[i]
    OBVIOUS
  <2>1. before[j] \in SUBSET before[i] /\ j \in before[i] /\ j \notin before[j]
    OBVIOUS
  <2>2. size[j] = Cardinality(before[j]) /\ size[i] = Cardinality(before[i])
    OBVIOUS
  <2> HIDE DEF before, size
  <2>3. before[j] # before[i]
    BY <2>1
  <2> QED BY <1>1, <2>1, <2>2, <2>3, FS_Subset
<1> HIDE DEF before, size
<1>3. T \in SUBSET Nat /\ T # {}
  BY <1>1
<1>4. PICK t \in T : \A u \in T : t <= u
  <2> HIDE DEF T
  <2> QED BY <1>3, LeastNat
<1>5. PICK i \in S : t = size[i]
  BY <1>4
<1>6. \A j \in S : size[i] <= size[j]
  BY <1>4, <1>5
<1>7. \A j \in S : ~L[<<j, i>>]
  BY <1>1, <1>2, <1>5, <1>6
<1> QED BY <1>5, <1>7

-----------------------------------------------------------------------------
(* The state of an arbiter and the order it stands for.                    *)

FlatState(type, n, prio) ==
  IF type = "matrix" THEN prio \in [Upto(n) \X Upto(n) -> BOOLEAN] /\ IsStrictOrder(prio, n)
  ELSE prio \in Upto(n)

Requests(n, reqs) == DOMAIN reqs \subseteq Upto(n) /\ \A i \in DOMAIN reqs : reqs[i] \in Int

\* Input i is preferred to input j.
Ahead(type, n, prio, i, j) ==
  IF type = "matrix" THEN prio[<<i, j>>] ELSE Behind(i, prio, n) < Behind(j, prio, n)

\* How many inputs are preferred less than input i.
Slack(type, n, prio, i) ==
  IF type = "matrix" THEN Cardinality({j \in Upto(n) : prio[<<i, j>>]}) ELSE n - 1 - Behind(i, prio, n)

\* Request i comes before every other one.
Leads(type, n, prio, reqs, i) ==
  /\ i \in DOMAIN reqs
  /\ \A j \in DOMAIN reqs \ {i} :
       \/ reqs[i] > reqs[j]
       \/ reqs[i] = reqs[j] /\ Ahead(type, n, prio, i, j)

\* How far an input is behind the pointer, without a remainder.
LEMMA BehindValue ==
  ASSUME NEW n \in Nat \ {0}, NEW i \in Upto(n), NEW p \in Upto(n)
  PROVE  Behind(i, p, n) = IF i >= p THEN i - p ELSE i - p + n
<1>1. CASE i >= p
  <2> DEFINE a == i - p
  <2>1. a \in 0 .. n - 1
    BY <1>1 DEF Upto
  <2> HIDE DEF a
  <2>2. (a + n) % n = a
    BY <2>1, Remainder
  <2> QED BY <1>1, <2>2 DEF Behind, a
<1>2. CASE i < p
  <2> DEFINE a == i - p + n
  <2>1. a \in 0 .. n - 1
    BY <1>2 DEF Upto
  <2> HIDE DEF a
  <2>2. a % n = a
    BY <2>1, Remainder
  <2> QED BY <1>2, <2>2 DEF Behind, a, Upto
<1> QED BY <1>1, <1>2 DEF Upto

\* A new arbiter has a state that orders its inputs.
LEMMA NewIsState ==
  ASSUME NEW n \in Nat \ {0}, NEW type
  PROVE  FlatState(type, n, FlatNew(type, n))
<1>1. CASE type = "matrix"
  <2> DEFINE m == [p \in Upto(n) \X Upto(n) |-> p[2] < p[1]]
  <2>1. m \in [Upto(n) \X Upto(n) -> BOOLEAN]
    OBVIOUS
  <2>2. \A i, j \in Upto(n) : m[<<i, j>>] <=> j < i
    OBVIOUS
  <2> HIDE DEF m
  <2>3. \A i, j, k \in Upto(n) :
          /\ ~(i < i)
          /\ i # j => (j < i <=> ~(i < j))
          /\ j < i /\ k < j => k < i
    BY DEF Upto
  <2>4. IsStrictOrder(m, n)
    BY <2>2, <2>3, Zenon DEF IsStrictOrder
  <2> QED BY <1>1, <2>1, <2>4 DEF FlatState, FlatNew, m
<1>2. CASE type # "matrix"
  BY <1>2 DEF FlatState, FlatNew, Upto
<1> QED BY <1>1, <1>2

\* Every state prefers one of any two inputs, and does so transitively.
LEMMA AheadIsOrder ==
  ASSUME NEW n \in Nat \ {0}, NEW type, NEW prio, FlatState(type, n, prio)
  PROVE  /\ \A i, j \in Upto(n) : Ahead(type, n, prio, i, j) \in BOOLEAN
         /\ \A i \in Upto(n) : ~Ahead(type, n, prio, i, i)
         /\ \A i, j \in Upto(n) : i # j => Ahead(type, n, prio, i, j) \/ Ahead(type, n, prio, j, i)
         /\ \A i, j, k \in Upto(n) :
              Ahead(type, n, prio, i, j) /\ Ahead(type, n, prio, j, k) => Ahead(type, n, prio, i, k)
<1>1. CASE type = "matrix"
  BY <1>1 DEF FlatState, IsStrictOrder, Ahead
<1>2. CASE type # "matrix"
  <2>1. prio \in Upto(n)
    BY <1>2 DEF FlatState
  <2>2. \A i \in Upto(n) : Behind(i, prio, n) = IF i >= prio THEN i - prio ELSE i - prio + n
    BY <2>1, BehindValue
  <2> QED BY <1>2, <2>1, <2>2 DEF Ahead, Upto
<1> QED BY <1>1, <1>2

-----------------------------------------------------------------------------
(* The winner.                                                             *)

\* Among any requests one comes before all others.
LEMMA SomeLeads ==
  ASSUME NEW n \in Nat \ {0}, NEW type, NEW prio, FlatState(type, n, prio),
         NEW reqs, Requests(n, reqs), DOMAIN reqs # {}
  PROVE  \E i \in DOMAIN reqs : Leads(type, n, prio, reqs, i)
<1> DEFINE S == DOMAIN reqs
           before(i, j) == \/ reqs[i] > reqs[j]
                           \/ reqs[i] = reqs[j] /\ Ahead(type, n, prio, i, j)
           L == [p \in S \X S |-> before(p[1], p[2])]
<1>1. S \in SUBSET Upto(n) /\ IsFiniteSet(S) /\ S # {}
  BY UptoFinite DEF Requests
<1>2. \A i, j \in S : before(i, j) \in BOOLEAN
  BY <1>1, AheadIsOrder
<1>3. \A i, j \in S : L[<<i, j>>] = before(i, j)
  <2> HIDE DEF before
  <2> QED BY <1>2
<1>4. \A i \in S : reqs[i] \in Int
  BY DEF Requests
<1>5. \A i \in S : ~L[<<i, i>>]
  <2>1. \A i \in S : ~before(i, i)
    BY <1>1, <1>4, AheadIsOrder
  <2> QED BY <1>3, <2>1
<1>6. \A i, j \in S : i # j => L[<<i, j>>] \/ L[<<j, i>>]
  <2>1. \A i, j \in S : i # j => before(i, j) \/ before(j, i)
    BY <1>1, <1>4, AheadIsOrder
  <2> HIDE DEF L
  <2> QED BY <1>3, <2>1
<1>7. \A i, j, k \in S : L[<<i, j>>] /\ L[<<j, k>>] => L[<<i, k>>]
  <2>1. \A i, j, k \in S : before(i, j) /\ before(j, k) => before(i, k)
    BY <1>1, <1>4, AheadIsOrder
  <2> HIDE DEF L
  <2> QED BY <1>3, <2>1
<1>8. \E i \in S : \A j \in S \ {i} : L[<<i, j>>]
  <2> HIDE DEF S, L
  <2> QED BY <1>1, <1>5, <1>6, <1>7, First, SMTT(60)
<1> QED BY <1>3, <1>8 DEF Leads

\* It is the only one.
LEMMA OneLeads ==
  ASSUME NEW n \in Nat \ {0}, NEW type, NEW prio, FlatState(type, n, prio),
         NEW reqs, Requests(n, reqs),
         NEW i \in DOMAIN reqs, Leads(type, n, prio, reqs, i),
         NEW j \in DOMAIN reqs, j # i
  PROVE  ~ (reqs[j] > reqs[i]) /\ ~ (reqs[j] = reqs[i] /\ Ahead(type, n, prio, j, i))
<1>1. i \in Upto(n) /\ j \in Upto(n) /\ reqs[i] \in Int /\ reqs[j] \in Int
  BY DEF Requests
<1>2. Ahead(type, n, prio, i, j) => ~Ahead(type, n, prio, j, i)
  BY <1>1, AheadIsOrder
<1> QED BY <1>1, <1>2 DEF Leads

\* A round with requests is won by the one that comes before all others: for the
\* matrix arbiter, some request is unbeaten and none but the winner is.
LEMMA WinnerLeads ==
  ASSUME NEW n \in Nat \ {0}, NEW type, NEW prio, FlatState(type, n, prio),
         NEW reqs, Requests(n, reqs), DOMAIN reqs # {}
  PROVE  /\ FlatWinner(type, n, prio, reqs) \in DOMAIN reqs
         /\ Leads(type, n, prio, reqs, FlatWinner(type, n, prio, reqs))
<1>1. PICK first \in DOMAIN reqs : Leads(type, n, prio, reqs, first)
  BY SomeLeads
<1>2. \A j \in DOMAIN reqs : j # first => ~Leads(type, n, prio, reqs, j)
  <2> SUFFICES ASSUME NEW j \in DOMAIN reqs, j # first, Leads(type, n, prio, reqs, j) PROVE FALSE
    OBVIOUS
  <2>1. first \in Upto(n) /\ j \in Upto(n) /\ reqs[first] \in Int /\ reqs[j] \in Int
    BY DEF Requests
  <2> QED BY <1>1, <2>1, OneLeads DEF Leads
<1>3. CASE type = "matrix"
  <2> DEFINE unbeaten == {i \in DOMAIN reqs : \A j \in DOMAIN reqs : ~Beats(j, i, prio, reqs)}
  <2>1. \A i \in DOMAIN reqs : i # first => Beats(first, i, prio, reqs)
    BY <1>1, <1>3 DEF Leads, Beats, Ahead
  <2>2. \A j \in DOMAIN reqs : ~Beats(j, first, prio, reqs)
    <3> TAKE j \in DOMAIN reqs
    <3>1. first \in Upto(n) /\ reqs[first] \in Int
      BY DEF Requests
    <3>2. CASE j = first
      BY <3>1, <3>2, <1>3 DEF Beats, FlatState, IsStrictOrder
    <3>3. CASE j # first
      BY <3>3, <1>1, <1>3, OneLeads DEF Beats, Ahead
    <3> QED BY <3>2, <3>3
  <2>3. unbeaten = {first}
    BY <2>1, <2>2
  <2>4. Min({first}) = first
    <3>1. first \in Int
      BY DEF Requests, Upto
    <3> QED BY <3>1 DEF Min
  <2>5. IsFiniteSet(DOMAIN reqs)
    BY UptoFinite DEF Requests
  <2>6. Cardinality(DOMAIN reqs) = 1 => DOMAIN reqs = {first}
    <3> HAVE Cardinality(DOMAIN reqs) = 1
    <3>1. PICK x : DOMAIN reqs = {x}
      BY <2>5, FS_Singleton
    <3> QED BY <3>1
  <2>7. MatrixWinner(prio, reqs) = first
    <3>1. CASE Cardinality(DOMAIN reqs) = 1
      BY <2>6, <3>1 DEF MatrixWinner
    <3>2. CASE Cardinality(DOMAIN reqs) # 1
      <4>1. unbeaten # {} /\ Min(unbeaten) = first
        BY <2>3, <2>4
      <4> QED BY <3>2, <4>1 DEF MatrixWinner
    <3> QED BY <3>1, <3>2
  <2> QED BY <1>1, <1>3, <2>7 DEF FlatWinner
<1>4. CASE type # "matrix"
  <2>1. \A i, j \in DOMAIN reqs : Supersedes(i, j, reqs, prio, n) <=>
                                  \/ reqs[i] > reqs[j]
                                  \/ reqs[i] = reqs[j] /\ Ahead(type, n, prio, i, j)
    BY <1>4 DEF Supersedes, Ahead
  <2>2. \A i \in DOMAIN reqs :
          (\A j \in DOMAIN reqs \ {i} : Supersedes(i, j, reqs, prio, n)) <=> Leads(type, n, prio, reqs, i)
    BY <2>1 DEF Leads
  <2>3. RoundRobinWinner(n, prio, reqs) = first
    BY <1>1, <1>2, <2>2 DEF RoundRobinWinner
  <2> QED BY <1>1, <1>4, <2>3 DEF FlatWinner
<1> QED BY <1>3, <1>4

-----------------------------------------------------------------------------
(* Moving the priorities past a winner.                                    *)

\* An input is preferred to at most all others.
LEMMA SlackRange ==
  ASSUME NEW n \in Nat \ {0}, NEW type, NEW prio, FlatState(type, n, prio), NEW i \in Upto(n)
  PROVE  Slack(type, n, prio, i) \in 0 .. n - 1
<1>1. CASE type = "matrix"
  <2> DEFINE behind == {j \in Upto(n) : prio[<<i, j>>]}
  <2>1. behind \in SUBSET Upto(n) /\ i \notin behind
    BY <1>1 DEF FlatState, IsStrictOrder
  <2> HIDE DEF behind
  <2>2. behind # Upto(n)
    BY <2>1
  <2>3. Cardinality(behind) < n /\ Cardinality(behind) \in Nat
    BY <2>1, <2>2, UptoFinite, FS_Subset
  <2>4. Slack(type, n, prio, i) = Cardinality(behind)
    BY <1>1 DEF Slack, behind
  <2> QED BY <2>3, <2>4
<1>2. CASE type # "matrix"
  <2>1. prio \in Upto(n)
    BY <1>2 DEF FlatState
  <2>2. Behind(i, prio, n) = IF i >= prio THEN i - prio ELSE i - prio + n
    BY <2>1, BehindValue
  <2> QED BY <1>2, <2>1, <2>2 DEF Slack, Upto
<1> QED BY <1>1, <1>2

\* The pointer moves past the winner and wraps.
LEMMA NextPointer ==
  ASSUME NEW n \in Nat \ {0}, NEW won \in Upto(n)
  PROVE  (won + 1) % n = IF won = n - 1 THEN 0 ELSE won + 1
<1>1. CASE won = n - 1
  <2>1. 0 \in 0 .. n - 1 /\ won + 1 = 0 + n
    BY <1>1
  <2>2. (0 + n) % n = 0
    BY <2>1, Remainder
  <2> QED BY <1>1, <2>1, <2>2
<1>2. CASE won # n - 1
  <2> DEFINE a == won + 1
  <2>1. a \in 0 .. n - 1
    BY <1>2 DEF Upto
  <2> HIDE DEF a
  <2>2. a % n = a
    BY <2>1, Remainder
  <2> QED BY <1>2, <2>2 DEF a
<1> QED BY <1>1, <1>2

\* The state after a grant is used orders the inputs, the winner last.
LEMMA UpdatedIsState ==
  ASSUME NEW n \in Nat \ {0}, NEW type, NEW prio, FlatState(type, n, prio),
         NEW won \in Upto(n) \cup {None}
  PROVE  FlatState(type, n, FlatUpdated(type, n, prio, won))
<1>1. CASE won = None
  BY <1>1 DEF FlatUpdated
<1>2. CASE won \in Upto(n) /\ type = "matrix"
  <2> DEFINE m == MatrixUpdated(prio, won)
  <2>1. prio \in [Upto(n) \X Upto(n) -> BOOLEAN] /\ IsStrictOrder(prio, n)
    BY <1>2 DEF FlatState
  <2>2. m \in [Upto(n) \X Upto(n) -> BOOLEAN]
    BY <2>1 DEF MatrixUpdated
  <2>3. \A i, j \in Upto(n) :
          /\ i = j \/ won \notin {i, j} => (m[<<i, j>>] <=> prio[<<i, j>>])
          /\ i # j /\ i = won => ~m[<<i, j>>]
          /\ i # j /\ j = won => m[<<i, j>>]
    BY <2>1 DEF MatrixUpdated
  <2> HIDE DEF m
  <2>4. IsStrictOrder(m, n)
    BY <2>1, <2>3 DEF IsStrictOrder
  <2>5. won # None
    BY <1>2 DEF None, Upto
  <2> QED BY <1>2, <2>2, <2>4, <2>5 DEF FlatState, FlatUpdated, m
<1>3. CASE won \in Upto(n) /\ type # "matrix"
  <2>1. won # None /\ (won + 1) % n \in Upto(n)
    BY <1>3, Remainder DEF None, Upto
  <2> QED BY <1>3, <2>1 DEF FlatState, FlatUpdated
<1> QED BY <1>1, <1>2, <1>3

\* An input that a winner preferred to it overtakes is preferred to one input more
\* than before.
LEMMA SlackGrows ==
  ASSUME NEW n \in Nat \ {0}, NEW type, NEW prio, FlatState(type, n, prio),
         NEW won \in Upto(n), NEW i \in Upto(n), Ahead(type, n, prio, won, i)
  PROVE  Slack(type, n, FlatUpdated(type, n, prio, won), i) >= Slack(type, n, prio, i) + 1
<1>1. won # None /\ won # i
  BY AheadIsOrder DEF None, Upto
<1>2. CASE type = "matrix"
  <2> DEFINE m == MatrixUpdated(prio, won)
             old == {j \in Upto(n) : prio[<<i, j>>]}
             new == {j \in Upto(n) : m[<<i, j>>]}
  <2>1. prio \in [Upto(n) \X Upto(n) -> BOOLEAN] /\ IsStrictOrder(prio, n)
    BY <1>2 DEF FlatState
  <2>2. \A j \in Upto(n) : m[<<i, j>>] = IF i = j THEN prio[<<i, j>>] ELSE
                                         IF j = won THEN TRUE ELSE prio[<<i, j>>]
    BY <1>1, <2>1 DEF MatrixUpdated
  <2>3. won \notin old
    BY <1>1, <1>2, <2>1 DEF IsStrictOrder, Ahead
  <2>4. old \cup {won} \in SUBSET new /\ old \in SUBSET Upto(n) /\ new \in SUBSET Upto(n)
    <3> HIDE DEF m
    <3> QED BY <1>1, <2>2
  <2>5. Slack(type, n, prio, i) = Cardinality(old)
    BY <1>2 DEF Slack
  <2>6. Slack(type, n, FlatUpdated(type, n, prio, won), i) = Cardinality(new)
    BY <1>1, <1>2 DEF Slack, FlatUpdated
  <2> HIDE DEF m, old, new
  <2>7. Cardinality(old \cup {won}) = Cardinality(old) + 1
    BY <2>3, <2>4, UptoFinite, FS_AddElement
  <2>8. Cardinality(old \cup {won}) <= Cardinality(new)
    BY <2>4, UptoFinite, FS_Subset
  <2>9. Cardinality(old) \in Nat /\ Cardinality(new) \in Nat
    BY <2>4, UptoFinite
  <2> QED BY <2>5, <2>6, <2>7, <2>8, <2>9
<1>3. CASE type # "matrix"
  <2> DEFINE p == (won + 1) % n
  <2>1. prio \in Upto(n) /\ p \in Upto(n)
    <3>1. won + 1 \in Int
      BY DEF Upto
    <3> QED BY <1>3, <3>1, Remainder DEF FlatState, Upto
  <2>2. FlatUpdated(type, n, prio, won) = p
    BY <1>1, <1>3 DEF FlatUpdated
  <2>3. p = IF won = n - 1 THEN 0 ELSE won + 1
    BY NextPointer
  <2> HIDE DEF p
  <2>4. Behind(won, prio, n) < Behind(i, prio, n)
    BY <1>3 DEF Ahead
  <2>5. /\ Behind(won, prio, n) = IF won >= prio THEN won - prio ELSE won - prio + n
        /\ Behind(i, prio, n) = IF i >= prio THEN i - prio ELSE i - prio + n
        /\ Behind(i, p, n) = IF i >= p THEN i - p ELSE i - p + n
    BY <2>1, BehindValue
  <2>6. Behind(i, p, n) < Behind(i, prio, n)
    BY <2>1, <2>3, <2>4, <2>5 DEF Upto
  <2>7. Behind(i, p, n) \in Int /\ Behind(i, prio, n) \in Int
    BY <2>1, <2>5 DEF Upto
  <2> QED BY <1>3, <2>2, <2>6, <2>7 DEF Slack
<1> QED BY <1>2, <1>3

=============================================================================
