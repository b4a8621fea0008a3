--------------------------- MODULE ArbiterProofs ----------------------------
(***************************************************************************)
(* The arbiters keep their promises for every size, every number of groups *)
(* and any sequence of rounds: the winner is a request of the highest      *)
(* priority, the matrices stay strict total orders, and nobody starves.    *)
(*                                                                         *)
(* For the last the invariant gives every input a slack: how many inputs   *)
(* it is preferred to, in a tree counted with the groups it is preferred   *)
(* to as the lower digit.  An input that keeps losing gains on the winner  *)
(* each time, so it has lost no more often than its slack says.            *)
(***************************************************************************)
EXTENDS Arbiters, FlatArbiterTheorems

GroupOf(i) == i \div GroupSize
PlaceOf(i) == i % GroupSize

ArbState(k, a) ==
  IF IsTree(k)
  THEN /\ a = [group |-> a.group, global |-> a.global]
       /\ a.group = [g \in Upto(Groups) |-> a.group[g]]
       /\ \A g \in Upto(Groups) : FlatState(PartType(k), GroupSize, a.group[g])
       /\ FlatState(PartType(k), Groups, a.global)
  ELSE FlatState(k, Size, a)

\* Input i is preferred to input j.
ArbAhead(k, a, i, j) ==
  IF IsTree(k)
  THEN IF GroupOf(i) = GroupOf(j) THEN Ahead(PartType(k), GroupSize, a.group[GroupOf(i)], PlaceOf(i), PlaceOf(j))
       ELSE Ahead(PartType(k), Groups, a.global, GroupOf(i), GroupOf(j))
  ELSE Ahead(k, Size, a, i, j)

\* How often input i can lose at most to inputs preferred to it.
ArbSlack(k, a, i) ==
  IF IsTree(k)
  THEN Slack(PartType(k), GroupSize, a.group[GroupOf(i)], PlaceOf(i)) * Groups
         + Slack(PartType(k), Groups, a.global, GroupOf(i))
  ELSE Slack(k, Size, a, i)

Shape ==
  /\ kind \in Kinds
  /\ ArbState(kind, arb)
  /\ Requests(Size, reqs)
  /\ selected \in Upto(Size) \cup {None}
  /\ wait = [i \in Upto(Size) |-> wait[i]]
  /\ \A i \in Upto(Size) : wait[i] \in Nat

\* The selected input is the winner of the round; the priority arbiter has moved on.
Choice ==
  selected # None =>
    /\ DOMAIN reqs # {}
    /\ selected \in Tops(reqs)
    /\ kind # "priority" => selected = Winner(kind, arb, reqs)

\* Nobody has lost more often than its slack; where the priorities have moved on
\* already, the round that is being counted is included.
Patience ==
  IF kind = "priority" /\ selected # None
  THEN \A i \in Upto(Size) :
         /\ wait[i] < Size
         /\ i \in Tops(reqs) \ {selected} => wait[i] + 1 <= ArbSlack(kind, arb, i)
  ELSE \A i \in Upto(Size) : wait[i] <= ArbSlack(kind, arb, i)

ArbiterInv == Shape /\ Choice /\ Patience

-----------------------------------------------------------------------------
(* Inputs by group and place.                                              *)

\* The sizes of the arbiter and of its groups.
LEMMA Sizes ==
  ASSUME ArbiterAssumption
  PROVE  /\ Size \in Nat \ {0} /\ Groups \in Nat \ {0} /\ GroupSize \in Nat \ {0}
         /\ Size = GroupSize * Groups
<1>1. Size \in Nat \ {0} /\ Groups \in Nat \ {0} /\ Size % Groups = 0
  BY DEF ArbiterAssumption
<1>2. Size = ((Size \div Groups) * Groups) + (Size % Groups) /\ Size \div Groups \in Nat
  BY <1>1
<1>3. GroupSize \in Nat /\ Size = GroupSize * Groups
  BY <1>1, <1>2 DEF GroupSize
<1>4. GroupSize # 0
  BY <1>1, <1>3
<1> QED BY <1>1, <1>3, <1>4

\* An input is given by its group and its place in it.
LEMMA InputOfGroup ==
  ASSUME ArbiterAssumption, NEW g \in Upto(Groups), NEW k \in Upto(GroupSize)
  PROVE  /\ g * GroupSize + k \in Upto(Size)
         /\ GroupOf(g * GroupSize + k) = g
         /\ PlaceOf(g * GroupSize + k) = k
<1>1. /\ Size \in Nat \ {0} /\ Groups \in Nat \ {0} /\ GroupSize \in Nat \ {0}
      /\ Size = GroupSize * Groups
  BY Sizes
<1> DEFINE n == GroupSize
<1>2. g \in 0 .. Groups - 1 /\ k \in 0 .. n - 1 /\ n \in Nat \ {0}
  BY <1>1 DEF Upto
<1> HIDE DEF n
<1>3. (g + 1) * n <= Groups * n
  BY <1>1, <1>2
<1>4. g * n + k \in 0 .. Groups * n - 1
  BY <1>1, <1>2, <1>3
<1>5. (g * n + k) \div n = g /\ (g * n + k) % n = k
  <2> DEFINE i == g * n + k
  <2>1. i \in Nat /\ g \in Nat /\ k \in Nat /\ k < n /\ i = g * n + k
    BY <1>2
  <2>2. i = ((i \div n) * n) + (i % n) /\ i \div n \in Nat /\ i % n \in 0 .. n - 1
    <3> HIDE DEF i
    <3> QED BY <1>2, <2>1
  <2> DEFINE q == i \div n
             r == i % n
  <2>3. g * n + k = q * n + r /\ q \in Nat /\ r \in 0 .. n - 1
    BY <2>1, <2>2
  <2> HIDE DEF i, q, r
  <2>4. ~(q < g)
    <3> SUFFICES ASSUME q < g PROVE FALSE
      OBVIOUS
    <3>1. (q + 1) * n <= g * n
      BY <1>2, <2>3
    <3> QED BY <1>2, <2>1, <2>3, <3>1
  <2>5. ~(g < q)
    <3> SUFFICES ASSUME g < q PROVE FALSE
      OBVIOUS
    <3>1. (g + 1) * n <= q * n
      BY <1>2, <2>3
    <3> QED BY <1>2, <2>1, <2>3, <3>1
  <2>6. q = g
    BY <2>1, <2>3, <2>4, <2>5
  <2>7. r = k
    BY <2>1, <2>3, <2>6, <1>2
  <2> QED BY <2>6, <2>7 DEF q, r, i
<1> QED BY <1>1, <1>4, <1>5 DEF GroupOf, PlaceOf, Upto, n

\* Every input is at one place of one group.
LEMMA GroupOfInput ==
  ASSUME ArbiterAssumption, NEW i \in Upto(Size)
  PROVE  /\ GroupOf(i) \in Upto(Groups) /\ PlaceOf(i) \in Upto(GroupSize)
         /\ i = GroupOf(i) * GroupSize + PlaceOf(i)
<1>1. /\ Size \in Nat \ {0} /\ Groups \in Nat \ {0} /\ GroupSize \in Nat \ {0}
      /\ Size = GroupSize * Groups
  BY Sizes
<1> DEFINE n == GroupSize
           q == i \div n
           r == i % n
<1>2. i \in Nat /\ i < n * Groups /\ n \in Nat \ {0}
  BY <1>1 DEF Upto
<1>3. i = (q * n) + r /\ q \in Nat /\ r \in 0 .. n - 1
  <2> HIDE DEF n
  <2> QED BY <1>2
<1> HIDE DEF q, r, n
<1>4. q < Groups
  <2> SUFFICES ASSUME Groups <= q PROVE FALSE
    BY <1>1, <1>3
  <2>1. Groups * n <= q * n
    BY <1>1, <1>2, <1>3
  <2> QED BY <1>1, <1>2, <1>3, <2>1
<1> QED BY <1>1, <1>3, <1>4 DEF GroupOf, PlaceOf, Upto, q, r, n

-----------------------------------------------------------------------------
(* The winner of a tree.                                                   *)

\* The requests of a group are those of its inputs.
LEMMA RequestsOfGroup ==
  ASSUME ArbiterAssumption, NEW rs, Requests(Size, rs), NEW g \in Upto(Groups)
  PROVE  LET part == GroupRequests(rs, g)
         IN /\ Requests(GroupSize, part)
            /\ \A i \in DOMAIN rs : GroupOf(i) = g => PlaceOf(i) \in DOMAIN part /\ part[PlaceOf(i)] = rs[i]
            /\ \A k \in DOMAIN part : g * GroupSize + k \in DOMAIN rs /\ part[k] = rs[g * GroupSize + k]
<1> DEFINE within == {i \in DOMAIN rs : GroupOf(i) = g}
           places == {PlaceOf(i) : i \in within}
           part == GroupRequests(rs, g)
<1>1. part = [k \in places |-> rs[g * GroupSize + k]]
  BY DEF GroupRequests, GroupOf, PlaceOf
<1>2. DOMAIN part = places /\ \A k \in places : part[k] = rs[g * GroupSize + k]
  BY <1>1
<1>3. \A i \in within : /\ i \in DOMAIN rs /\ rs[i] \in Int
                        /\ PlaceOf(i) \in Upto(GroupSize) /\ i = g * GroupSize + PlaceOf(i)
  <2> TAKE i \in within
  <2>1. i \in Upto(Size) /\ i \in DOMAIN rs /\ rs[i] \in Int /\ GroupOf(i) = g
    BY DEF Requests
  <2> QED BY <2>1, GroupOfInput
<1>4. \A i \in within : PlaceOf(i) \in DOMAIN part /\ part[PlaceOf(i)] = rs[i]
  <2> TAKE i \in within
  <2>1. PlaceOf(i) \in places
    OBVIOUS
  <2> HIDE DEF within, places, part
  <2> QED BY <1>2, <1>3, <2>1
<1>5. \A k \in places : \E i \in within : k = PlaceOf(i)
  OBVIOUS
<1> HIDE DEF places, part
<1>6. \A k \in DOMAIN part :
        /\ k \in Upto(GroupSize) /\ part[k] \in Int
        /\ g * GroupSize + k \in DOMAIN rs /\ part[k] = rs[g * GroupSize + k]
  <2> SUFFICES ASSUME NEW k \in DOMAIN part
               PROVE  /\ k \in Upto(GroupSize) /\ part[k] \in Int
                      /\ g * GroupSize + k \in DOMAIN rs /\ part[k] = rs[g * GroupSize + k]
    OBVIOUS
  <2>1. PICK i \in within : k = PlaceOf(i)
    BY <1>2, <1>5
  <2> HIDE DEF within
  <2> QED BY <1>2, <1>3, <1>4, <2>1
<1>7. Requests(GroupSize, part)
  BY <1>6 DEF Requests
<1> QED BY <1>4, <1>6, <1>7 DEF part

\* A group bids with the highest priority in it.
LEMMA BidsOfGroups ==
  ASSUME ArbiterAssumption, NEW k, IsTree(k), NEW a, ArbState(k, a), NEW rs, Requests(Size, rs)
  PROVE  LET bids == GlobalRequests(k, a, rs)
         IN /\ Requests(Groups, bids)
            /\ DOMAIN bids = {GroupOf(i) : i \in DOMAIN rs}
            /\ \A g \in DOMAIN bids :
                 LET w == GroupWinner(k, a, rs, g)
                 IN /\ w \in Upto(GroupSize)
                    /\ g * GroupSize + w \in DOMAIN rs
                    /\ bids[g] = rs[g * GroupSize + w]
                    /\ \A i \in DOMAIN rs : GroupOf(i) = g /\ PlaceOf(i) # w =>
                         \/ bids[g] > rs[i]
                         \/ /\ bids[g] = rs[i]
                            /\ Ahead(PartType(k), GroupSize, a.group[g], w, PlaceOf(i))
<1> DEFINE bids == GlobalRequests(k, a, rs)
           groups == {GroupOf(i) : i \in DOMAIN rs}
<1>1. DOMAIN bids = groups /\ \A g \in groups : bids[g] = GroupRequests(rs, g)[GroupWinner(k, a, rs, g)]
  BY DEF GlobalRequests, GroupOf
<1>2. \A i \in DOMAIN rs : GroupOf(i) \in Upto(Groups) /\ PlaceOf(i) \in Upto(GroupSize)
  BY GroupOfInput DEF Requests
<1>3. ASSUME NEW g \in groups
      PROVE  /\ g \in Upto(Groups) /\ bids[g] \in Int
             /\ GroupWinner(k, a, rs, g) \in Upto(GroupSize)
             /\ g * GroupSize + GroupWinner(k, a, rs, g) \in DOMAIN rs
             /\ bids[g] = rs[g * GroupSize + GroupWinner(k, a, rs, g)]
             /\ \A i \in DOMAIN rs : GroupOf(i) = g /\ PlaceOf(i) # GroupWinner(k, a, rs, g) =>
                  \/ bids[g] > rs[i]
                  \/ /\ bids[g] = rs[i]
                     /\ Ahead(PartType(k), GroupSize, a.group[g], GroupWinner(k, a, rs, g), PlaceOf(i))
  <2> DEFINE part == GroupRequests(rs, g)
             w == FlatWinner(PartType(k), GroupSize, a.group[g], part)
  <2>1. g \in Upto(Groups)
    BY <1>2
  <2>2. /\ Requests(GroupSize, part)
        /\ \A i \in DOMAIN rs : GroupOf(i) = g => PlaceOf(i) \in DOMAIN part /\ part[PlaceOf(i)] = rs[i]
        /\ \A x \in DOMAIN part : g * GroupSize + x \in DOMAIN rs /\ part[x] = rs[g * GroupSize + x]
    BY <2>1, RequestsOfGroup
  <2>3. DOMAIN part # {}
    BY <2>2
  <2>4. FlatState(PartType(k), GroupSize, a.group[g])
    BY <2>1 DEF ArbState
  <2>5. w \in DOMAIN part /\ Leads(PartType(k), GroupSize, a.group[g], part, w)
    <3> HIDE DEF part
    <3> QED BY <2>2, <2>3, <2>4, Sizes, WinnerLeads
  <2>6. bids[g] = part[w] /\ GroupWinner(k, a, rs, g) = w
    BY <1>1 DEF GroupWinner
  <2>7. w \in Upto(GroupSize) /\ part[w] \in Int
    <3> HIDE DEF part, w
    <3> QED BY <2>2, <2>5 DEF Requests
  <2> HIDE DEF part, w, bids, groups
  <2>8. \A i \in DOMAIN rs : GroupOf(i) = g /\ PlaceOf(i) # w =>
          \/ bids[g] > rs[i]
          \/ bids[g] = rs[i] /\ Ahead(PartType(k), GroupSize, a.group[g], w, PlaceOf(i))
    BY <2>2, <2>5, <2>6 DEF Leads
  <2> QED BY <2>1, <2>2, <2>5, <2>6, <2>7, <2>8
<1> HIDE DEF bids
<1>4. Requests(Groups, bids)
  BY <1>1, <1>3 DEF Requests
<1> QED BY <1>1, <1>3, <1>4 DEF bids

\* The winner of a round has the highest priority, and of those that share it, it is
\* preferred to all others.
LEMMA WinnerIsPreferred ==
  ASSUME ArbiterAssumption, NEW k, NEW a, ArbState(k, a),
         NEW rs, Requests(Size, rs), DOMAIN rs # {}
  PROVE  /\ Winner(k, a, rs) \in Tops(rs)
         /\ \A i \in Tops(rs) : i # Winner(k, a, rs) => ArbAhead(k, a, Winner(k, a, rs), i)
<1>1. Size \in Nat \ {0} /\ Groups \in Nat \ {0} /\ GroupSize \in Nat \ {0}
  BY Sizes
<1>2. \A i \in DOMAIN rs : i \in Upto(Size) /\ rs[i] \in Int
  BY DEF Requests
<1>3. CASE ~IsTree(k)
  <2> DEFINE w == FlatWinner(k, Size, a, rs)
  <2>1. w \in DOMAIN rs /\ Leads(k, Size, a, rs, w)
    BY <1>1, <1>3, WinnerLeads DEF ArbState
  <2>2. Winner(k, a, rs) = w
    BY <1>3 DEF Winner
  <2> HIDE DEF w
  <2>3. \A i \in DOMAIN rs : i # w => rs[w] > rs[i] \/ (rs[w] = rs[i] /\ Ahead(k, Size, a, w, i))
    BY <2>1 DEF Leads
  <2>4. w \in Tops(rs)
    BY <1>2, <2>1, <2>3 DEF Tops
  <2>5. \A i \in Tops(rs) : i # w => Ahead(k, Size, a, w, i)
    BY <1>2, <2>1, <2>3 DEF Tops
  <2> QED BY <1>3, <2>2, <2>4, <2>5 DEF ArbAhead
<1>4. CASE IsTree(k)
  <2> DEFINE bids == GlobalRequests(k, a, rs)
             g == TreeGroup(k, a, rs)
             p == GroupWinner(k, a, rs, g)
             w == g * GroupSize + p
  <2>1. /\ Requests(Groups, bids)
        /\ DOMAIN bids = {GroupOf(i) : i \in DOMAIN rs}
        /\ \A h \in DOMAIN bids :
             LET v == GroupWinner(k, a, rs, h)
             IN /\ v \in Upto(GroupSize)
                /\ h * GroupSize + v \in DOMAIN rs
                /\ bids[h] = rs[h * GroupSize + v]
                /\ \A i \in DOMAIN rs : GroupOf(i) = h /\ PlaceOf(i) # v =>
                     \/ bids[h] > rs[i]
                     \/ bids[h] = rs[i] /\ Ahead(PartType(k), GroupSize, a.group[h], v, PlaceOf(i))
    BY <1>4, BidsOfGroups
  <2>2. FlatState(PartType(k), Groups, a.global) /\ DOMAIN bids # {}
    BY <1>4, <2>1 DEF ArbState
  <2>3. g \in DOMAIN bids /\ Leads(PartType(k), Groups, a.global, bids, g)
    <3> HIDE DEF bids
    <3>1. /\ FlatWinner(PartType(k), Groups, a.global, bids) \in DOMAIN bids
          /\ Leads(PartType(k), Groups, a.global, bids, FlatWinner(PartType(k), Groups, a.global, bids))
      BY <1>1, <2>1, <2>2, WinnerLeads
    <3> QED BY <3>1 DEF TreeGroup, bids
  <2>4. Winner(k, a, rs) = w
    BY <1>4 DEF Winner, TreeWinner
  <2>5. /\ p \in Upto(GroupSize) /\ w \in DOMAIN rs /\ bids[g] = rs[w] /\ g \in Upto(Groups)
        /\ \A i \in DOMAIN rs : GroupOf(i) = g /\ PlaceOf(i) # p =>
             rs[w] > rs[i] \/ (rs[w] = rs[i] /\ Ahead(PartType(k), GroupSize, a.group[g], p, PlaceOf(i)))
    <3> HIDE DEF bids, g
    <3> QED BY <2>1, <2>3 DEF Requests
  <2>6. GroupOf(w) = g /\ PlaceOf(w) = p
    <3> HIDE DEF g, p
    <3> QED BY <2>5, InputOfGroup
  <2>7. \A i \in DOMAIN rs : /\ GroupOf(i) \in DOMAIN bids /\ bids[GroupOf(i)] \in Int
                            /\ rs[i] <= bids[GroupOf(i)]
    <3> SUFFICES ASSUME NEW i \in DOMAIN rs
                 PROVE  /\ GroupOf(i) \in DOMAIN bids /\ bids[GroupOf(i)] \in Int
                        /\ rs[i] <= bids[GroupOf(i)]
      OBVIOUS
    <3> DEFINE h == GroupOf(i)
               v == GroupWinner(k, a, rs, h)
    <3>1. h \in DOMAIN bids /\ bids[h] \in Int
      <4> HIDE DEF bids
      <4> QED BY <2>1 DEF Requests
    <3>2. PlaceOf(i) # v => bids[h] > rs[i] \/ bids[h] = rs[i]
      <4> HIDE DEF bids
      <4> QED BY <2>1, <3>1
    <3>3. bids[h] = rs[h * GroupSize + v]
      <4> HIDE DEF bids
      <4> QED BY <2>1, <3>1
    <3>4. i = h * GroupSize + PlaceOf(i)
      BY <1>2, GroupOfInput
    <3> HIDE DEF bids, h, v
    <3> QED BY <1>2, <3>1, <3>2, <3>3, <3>4 DEF h
  <2> HIDE DEF bids, g, p, w
  <2>8. \A h \in DOMAIN bids : h # g =>
          bids[g] > bids[h] \/ (bids[g] = bids[h] /\ Ahead(PartType(k), Groups, a.global, g, h))
    BY <2>3 DEF Leads
  <2>9. ASSUME NEW i \in DOMAIN rs, i # w
        PROVE  /\ rs[i] <= rs[w]
               /\ rs[i] = rs[w] => ArbAhead(k, a, w, i)
    <3>1. CASE GroupOf(i) = g
      <4>1. PlaceOf(i) # p
        BY <1>2, <2>9, <3>1, GroupOfInput DEF w
      <4> QED BY <1>2, <1>4, <2>5, <2>6, <3>1, <4>1 DEF ArbAhead
    <3>2. CASE GroupOf(i) # g
      <4>1. /\ GroupOf(i) \in DOMAIN bids /\ bids[GroupOf(i)] \in Int
            /\ rs[i] <= bids[GroupOf(i)] /\ rs[i] \in Int /\ rs[w] \in Int /\ bids[g] = rs[w]
        BY <1>2, <2>5, <2>7
      <4>2. \/ bids[g] > bids[GroupOf(i)]
            \/ bids[g] = bids[GroupOf(i)] /\ Ahead(PartType(k), Groups, a.global, g, GroupOf(i))
        BY <2>8, <3>2, <4>1
      <4> QED BY <1>4, <2>6, <3>2, <4>1, <4>2 DEF ArbAhead
    <3> QED BY <3>1, <3>2
  <2>10. w \in Tops(rs)
    BY <1>2, <2>5, <2>9 DEF Tops
  <2>11. \A i \in Tops(rs) : i # w => ArbAhead(k, a, w, i)
    BY <1>2, <2>5, <2>9 DEF Tops
  <2> QED BY <2>4, <2>10, <2>11
<1> QED BY <1>3, <1>4

-----------------------------------------------------------------------------
(* Moving the priorities past a winner.                                    *)

\* A new arbiter is in a state of its kind,
LEMMA NewArbiterIsState ==
  ASSUME ArbiterAssumption, NEW k
  PROVE  ArbState(k, NewArbiter(k))
<1>1. Size \in Nat \ {0} /\ Groups \in Nat \ {0} /\ GroupSize \in Nat \ {0}
  BY Sizes
<1>2. CASE ~IsTree(k)
  BY <1>1, <1>2, NewIsState DEF ArbState, NewArbiter
<1>3. CASE IsTree(k)
  <2> DEFINE a == NewArbiter(k)
  <2>1. a = [group |-> [g \in Upto(Groups) |-> FlatNew(PartType(k), GroupSize)],
             global |-> FlatNew(PartType(k), Groups)]
    BY <1>3 DEF NewArbiter
  <2> HIDE DEF a
  <2>2. a = [group |-> a.group, global |-> a.global] /\ a.group = [g \in Upto(Groups) |-> a.group[g]]
    BY <2>1
  <2>3. \A g \in Upto(Groups) : FlatState(PartType(k), GroupSize, a.group[g])
    BY <1>1, <2>1, NewIsState
  <2>4. FlatState(PartType(k), Groups, a.global)
    BY <1>1, <2>1, NewIsState
  <2> QED BY <1>3, <2>2, <2>3, <2>4 DEF ArbState, a
<1> QED BY <1>2, <1>3

\* The parts of a tree after an update.
LEMMA TreeParts ==
  ASSUME ArbiterAssumption, NEW k, IsTree(k), NEW a, ArbState(k, a), NEW won \in Upto(Size)
  PROVE  LET b == Updated(k, a, won)
         IN /\ b = [group |-> b.group, global |-> b.global]
            /\ b.group = [g \in Upto(Groups) |-> b.group[g]]
            /\ b.global = FlatUpdated(PartType(k), Groups, a.global, GroupOf(won))
            /\ \A g \in Upto(Groups) : b.group[g] =
                 IF g = GroupOf(won)
                 THEN FlatUpdated(PartType(k), GroupSize, a.group[g], PlaceOf(won)) ELSE a.group[g]
<1>1. won # None
  BY DEF None, Upto
<1>2. Updated(k, a, won) =
        [group |-> [a.group EXCEPT ![GroupOf(won)] =
                      FlatUpdated(PartType(k), GroupSize, @, PlaceOf(won))],
         global |-> FlatUpdated(PartType(k), Groups, a.global, GroupOf(won))]
  BY <1>1 DEF Updated, TreeUpdated, GroupOf, PlaceOf
<1>3. GroupOf(won) \in Upto(Groups)
  BY GroupOfInput
<1>4. a.group = [g \in Upto(Groups) |-> a.group[g]]
  BY DEF ArbState
<1> DEFINE b == Updated(k, a, won)
           moved == FlatUpdated(PartType(k), GroupSize, a.group[GroupOf(won)], PlaceOf(won))
<1>5. b.group = [g \in Upto(Groups) |-> IF g = GroupOf(won) THEN moved ELSE a.group[g]]
  <2> DEFINE h == GroupOf(won)
             f == a.group
  <2>1. b.group = [f EXCEPT ![h] = moved]
    BY <1>2
  <2> HIDE DEF b, h, moved, f
  <2>2. [f EXCEPT ![h] = moved] = [g \in Upto(Groups) |-> IF g = h THEN moved ELSE f[g]]
    BY <1>3, <1>4 DEF f, h
  <2> QED BY <2>1, <2>2 DEF h, f
<1>6. /\ b = [group |-> b.group, global |-> b.global]
      /\ b.global = FlatUpdated(PartType(k), Groups, a.global, GroupOf(won))
  BY <1>2
<1> HIDE DEF b
<1>7. \A g \in Upto(Groups) : b.group[g] = IF g = GroupOf(won) THEN moved ELSE a.group[g]
  BY <1>5
<1>8. b.group = [g \in Upto(Groups) |-> b.group[g]]
  <2> HIDE DEF moved
  <2> QED BY <1>5
<1> QED BY <1>6, <1>7, <1>8 DEF b

\* and stays in one when it is updated.
LEMMA UpdatedArbiterIsState ==
  ASSUME ArbiterAssumption, NEW k, NEW a, ArbState(k, a), NEW won \in Upto(Size)
  PROVE  ArbState(k, Updated(k, a, won))
<1>1. Size \in Nat \ {0} /\ Groups \in Nat \ {0} /\ GroupSize \in Nat \ {0}
  BY Sizes
<1>2. CASE ~IsTree(k)
  BY <1>1, <1>2, UpdatedIsState DEF ArbState, Updated
<1>3. CASE IsTree(k)
  <2> DEFINE b == Updated(k, a, won)
  <2>1. /\ b = [group |-> b.group, global |-> b.global]
        /\ b.group = [g \in Upto(Groups) |-> b.group[g]]
        /\ b.global = FlatUpdated(PartType(k), Groups, a.global, GroupOf(won))
        /\ \A g \in Upto(Groups) : b.group[g] =
             IF g = GroupOf(won)
             THEN FlatUpdated(PartType(k), GroupSize, a.group[g], PlaceOf(won)) ELSE a.group[g]
    BY <1>3, TreeParts
  <2>2. /\ \A g \in Upto(Groups) : FlatState(PartType(k), GroupSize, a.group[g])
        /\ FlatState(PartType(k), Groups, a.global)
    BY <1>3 DEF ArbState
  <2>3. GroupOf(won) \in Upto(Groups) /\ PlaceOf(won) \in Upto(GroupSize)
    BY GroupOfInput
  <2> HIDE DEF b
  <2>4. FlatState(PartType(k), Groups, b.global)
    BY <1>1, <2>1, <2>2, <2>3, UpdatedIsState
  <2>5. \A g \in Upto(Groups) : FlatState(PartType(k), GroupSize, b.group[g])
    BY <1>1, <2>1, <2>2, <2>3, UpdatedIsState
  <2> QED BY <1>3, <2>1, <2>4, <2>5 DEF ArbState, b
<1> QED BY <1>2, <1>3

\* The slack of an input is less than the number of inputs.
LEMMA ArbSlackRange ==
  ASSUME ArbiterAssumption, NEW k, NEW a, ArbState(k, a), NEW i \in Upto(Size)
  PROVE  ArbSlack(k, a, i) \in 0 .. Size - 1
<1>1. /\ Size \in Nat \ {0} /\ Groups \in Nat \ {0} /\ GroupSize \in Nat \ {0}
      /\ Size = GroupSize * Groups
  BY Sizes
<1>2. CASE ~IsTree(k)
  BY <1>1, <1>2, SlackRange DEF ArbState, ArbSlack
<1>3. CASE IsTree(k)
  <2> DEFINE high == Slack(PartType(k), GroupSize, a.group[GroupOf(i)], PlaceOf(i))
             low == Slack(PartType(k), Groups, a.global, GroupOf(i))
  <2>1. GroupOf(i) \in Upto(Groups) /\ PlaceOf(i) \in Upto(GroupSize)
    BY GroupOfInput
  <2>2. high \in 0 .. GroupSize - 1
    BY <1>1, <1>3, <2>1, SlackRange DEF ArbState
  <2>3. low \in 0 .. Groups - 1
    BY <1>1, <1>3, <2>1, SlackRange DEF ArbState
  <2>4. ArbSlack(k, a, i) = high * Groups + low
    BY <1>3 DEF ArbSlack
  <2> HIDE DEF high, low
  <2>5. (high + 1) * Groups <= GroupSize * Groups /\ high * Groups \in Nat
    BY <1>1, <2>2
  <2> QED BY <1>1, <2>2, <2>3, <2>4, <2>5
<1> QED BY <1>2, <1>3

\* An input that the winner was preferred to gains on it.
LEMMA ArbSlackGrows ==
  ASSUME ArbiterAssumption, NEW k, NEW a, ArbState(k, a),
         NEW won \in Upto(Size), NEW i \in Upto(Size), ArbAhead(k, a, won, i)
  PROVE  ArbSlack(k, Updated(k, a, won), i) >= ArbSlack(k, a, i) + 1
<1>1. Size \in Nat \ {0} /\ Groups \in Nat \ {0} /\ GroupSize \in Nat \ {0}
  BY Sizes
<1>2. CASE ~IsTree(k)
  BY <1>1, <1>2, SlackGrows DEF ArbState, ArbSlack, ArbAhead, Updated
<1>3. CASE IsTree(k)
  <2> DEFINE b == Updated(k, a, won)
  <2>1. /\ b = [group |-> b.group, global |-> b.global]
        /\ b.group = [x \in Upto(Groups) |-> b.group[x]]
        /\ b.global = FlatUpdated(PartType(k), Groups, a.global, GroupOf(won))
        /\ \A x \in Upto(Groups) : b.group[x] =
             IF x = GroupOf(won)
             THEN FlatUpdated(PartType(k), GroupSize, a.group[x], PlaceOf(won)) ELSE a.group[x]
    BY <1>3, TreeParts
  <2> DEFINE g == GroupOf(i)
             h == GroupOf(won)
             part(c) == Slack(PartType(k), GroupSize, c.group[g], PlaceOf(i))
             whole(c) == Slack(PartType(k), Groups, c.global, g)
  <2>2. /\ g \in Upto(Groups) /\ PlaceOf(i) \in Upto(GroupSize)
        /\ h \in Upto(Groups) /\ PlaceOf(won) \in Upto(GroupSize)
    BY GroupOfInput
  <2>3. /\ FlatState(PartType(k), GroupSize, a.group[g]) /\ FlatState(PartType(k), Groups, a.global)
        /\ FlatState(PartType(k), GroupSize, b.group[g]) /\ FlatState(PartType(k), Groups, b.global)
    BY <1>3, <2>2, UpdatedArbiterIsState DEF ArbState
  <2>4. /\ part(a) \in 0 .. GroupSize - 1 /\ whole(a) \in 0 .. Groups - 1
        /\ part(b) \in 0 .. GroupSize - 1 /\ whole(b) \in 0 .. Groups - 1
    <3> HIDE DEF b, g
    <3> QED BY <1>1, <2>2, <2>3, SlackRange
  <2>5. ArbSlack(k, a, i) = part(a) * Groups + whole(a) /\ ArbSlack(k, b, i) = part(b) * Groups + whole(b)
    BY <1>3 DEF ArbSlack
  <2>6. CASE g = h
    <3>1. part(b) >= part(a) + 1
      <4>1. Ahead(PartType(k), GroupSize, a.group[g], PlaceOf(won), PlaceOf(i))
        BY <1>3, <2>6 DEF ArbAhead
      <4>2. b.group[g] = FlatUpdated(PartType(k), GroupSize, a.group[g], PlaceOf(won))
        BY <2>1, <2>2, <2>6
      <4> HIDE DEF b
      <4> QED BY <1>1, <2>2, <2>3, <4>1, <4>2, SlackGrows
    <3> HIDE DEF b, part, whole
    <3>2. part(b) * Groups >= (part(a) + 1) * Groups
      BY <1>1, <2>4, <3>1
    <3> QED BY <1>1, <2>4, <2>5, <3>1, <3>2 DEF b
  <2>7. CASE g # h
    <3>1. whole(b) >= whole(a) + 1
      <4>1. Ahead(PartType(k), Groups, a.global, h, g)
        BY <1>3, <2>7 DEF ArbAhead
      <4> HIDE DEF b
      <4> QED BY <1>1, <2>1, <2>2, <2>3, <4>1, SlackGrows
    <3>2. part(b) = part(a)
      <4> HIDE DEF b
      <4> QED BY <2>1, <2>2, <2>7
    <3> HIDE DEF b, part, whole
    <3> QED BY <1>1, <2>4, <2>5, <3>1, <3>2 DEF b
  <2> QED BY <2>6, <2>7
<1> QED BY <1>2, <1>3

-----------------------------------------------------------------------------
(* The invariant.                                                          *)

\* The invariant holds at the start.
LEMMA InitArbiterInv == ASSUME ArbiterAssumption, Init PROVE ArbiterInv
<1>1. DOMAIN reqs = {} /\ selected = None
  BY DEF Init
<1>2. ArbState(kind, arb)
  BY NewArbiterIsState DEF Init
<1>3. wait = [i \in Upto(Size) |-> wait[i]] /\ \A i \in Upto(Size) : wait[i] = 0
  BY DEF Init
<1>4. Shape
  BY <1>1, <1>2, <1>3 DEF Shape, Init, Requests
<1>5. \A i \in Upto(Size) : ArbSlack(kind, arb, i) \in Nat
  BY <1>2, ArbSlackRange, Sizes
<1>6. Patience
  BY <1>1, <1>3, <1>5 DEF Patience
<1> QED BY <1>1, <1>4, <1>6 DEF ArbiterInv, Choice

\* A request changes nothing that the arbiter keeps.
LEMMA AddRequestKeepsInv ==
  ASSUME ArbiterAssumption, ArbiterInv, NEW i \in Upto(Size), NEW pri \in Priorities, AddRequest(i, pri)
  PROVE  ArbiterInv'
<1>1. selected = None /\ selected' = None /\ UNCHANGED <<kind, arb, wait>>
  BY DEF AddRequest
<1>2. Requests(Size, reqs')
  <2>1. reqs' = [j \in DOMAIN reqs \cup {i} |-> IF j = i THEN pri ELSE reqs[j]] /\ pri \in Int
    BY DEF AddRequest, ArbiterAssumption
  <2> QED BY <2>1 DEF ArbiterInv, Shape, Requests
<1>3. Shape'
  BY <1>1, <1>2 DEF ArbiterInv, Shape
<1>4. Choice'
  BY <1>1 DEF Choice
<1>5. Patience'
  BY <1>1 DEF ArbiterInv, Patience
<1> QED BY <1>3, <1>4, <1>5 DEF ArbiterInv

\* A round chooses a request of the highest priority that is preferred most.
LEMMA ArbitrateKeepsInv ==
  ASSUME ArbiterAssumption, ArbiterInv, Arbitrate
  PROVE  ArbiterInv'
<1> DEFINE w == Winner(kind, arb, reqs)
<1>1. selected = None /\ DOMAIN reqs # {} /\ selected' = w /\ UNCHANGED <<kind, reqs, wait>>
  BY DEF Arbitrate
<1>2. /\ ArbState(kind, arb) /\ Requests(Size, reqs)
      /\ \A i \in Upto(Size) : wait[i] \in Nat /\ wait[i] <= ArbSlack(kind, arb, i)
  BY <1>1 DEF ArbiterInv, Shape, Patience
<1>3. w \in Tops(reqs) /\ \A i \in Tops(reqs) : i # w => ArbAhead(kind, arb, w, i)
  BY <1>1, <1>2, WinnerIsPreferred
<1>4. w \in Upto(Size) /\ w # None
  BY <1>2, <1>3 DEF Tops, Requests, Upto, None
<1>5. arb' = IF kind = "priority" THEN Updated(kind, arb, w) ELSE arb
  BY <1>1 DEF Arbitrate
<1> HIDE DEF w
<1>6. ArbState(kind', arb')
  BY <1>1, <1>2, <1>4, <1>5, UpdatedArbiterIsState
<1>7. Shape'
  BY <1>1, <1>4, <1>6 DEF ArbiterInv, Shape
<1>8. Choice'
  <2>1. kind # "priority" => selected' = Winner(kind', arb', reqs')
    BY <1>1, <1>5 DEF w
  <2> QED BY <1>1, <1>3, <2>1 DEF Choice
<1>9. Patience'
  <2>1. CASE kind = "priority"
    <3>1. \A i \in Upto(Size) : ArbSlack(kind, arb, i) \in 0 .. Size - 1
      BY <1>2, ArbSlackRange
    <3>2. \A i \in Upto(Size) : wait[i] < Size
      BY <1>2, <3>1, Sizes
    <3>3. ASSUME NEW i \in Upto(Size), i \in Tops(reqs) \ {w} PROVE wait[i] + 1 <= ArbSlack(kind, arb', i)
      <4>1. ArbSlack(kind, Updated(kind, arb, w), i) >= ArbSlack(kind, arb, i) + 1
        BY <1>2, <1>3, <1>4, <3>3, ArbSlackGrows
      <4>2. ArbSlack(kind, arb', i) \in 0 .. Size - 1
        BY <1>1, <1>6, ArbSlackRange
      <4> QED BY <1>2, <1>5, <2>1, <3>1, <4>1, <4>2, Sizes
    <3> QED BY <1>1, <1>4, <2>1, <3>2, <3>3 DEF Patience
  <2>2. CASE kind # "priority"
    BY <1>1, <1>2, <1>5, <2>2 DEF Patience
  <2> QED BY <2>1, <2>2
<1> QED BY <1>7, <1>8, <1>9 DEF ArbiterInv

\* The update puts the winner last, and whoever lost gains on it.
LEMMA ClearKeepsInv ==
  ASSUME ArbiterAssumption, ArbiterInv, NEW used \in BOOLEAN, Clear(used)
  PROVE  ArbiterInv'
<1>1. selected # None /\ selected' = None /\ DOMAIN reqs' = {} /\ kind' = kind
  BY DEF Clear
<1>2. /\ ArbState(kind, arb) /\ Requests(Size, reqs) /\ selected \in Upto(Size)
      /\ DOMAIN reqs # {} /\ selected \in Tops(reqs)
      /\ kind # "priority" => selected = Winner(kind, arb, reqs)
      /\ \A i \in Upto(Size) : wait[i] \in Nat
  BY <1>1 DEF ArbiterInv, Shape, Choice
<1>3. arb' = IF used /\ kind # "priority" THEN Updated(kind, arb, selected) ELSE arb
  BY DEF Clear
<1>4. wait' = [i \in Upto(Size) |->
                 IF i \notin Tops(reqs) \/ (used /\ i = selected) THEN 0
                 ELSE IF used THEN wait[i] + 1 ELSE wait[i]]
  BY DEF Clear
<1>5. kind = "priority" => used
  BY DEF Clear
<1>6. ArbState(kind', arb')
  BY <1>1, <1>2, <1>3, UpdatedArbiterIsState
<1>7. Shape'
  <2>1. /\ wait' = [i \in Upto(Size) |-> wait'[i]]
        /\ \A i \in Upto(Size) : wait'[i] \in Nat
    BY <1>2, <1>4
  <2>2. Requests(Size, reqs')
    BY <1>1 DEF Requests
  <2> QED BY <1>1, <1>6, <2>1, <2>2 DEF ArbiterInv, Shape
<1>8. ASSUME NEW i \in Upto(Size) PROVE wait'[i] <= ArbSlack(kind, arb', i)
  <2>1. ArbSlack(kind, arb', i) \in Nat /\ ArbSlack(kind, arb, i) \in Nat
    BY <1>1, <1>2, <1>6, ArbSlackRange, Sizes
  <2>2. CASE i \notin Tops(reqs) \/ (used /\ i = selected)
    BY <1>4, <2>1, <2>2
  <2>3. CASE ~used /\ i \in Tops(reqs)
    BY <1>1, <1>3, <1>4, <1>5, <2>1, <2>3 DEF ArbiterInv, Patience
  <2>4. CASE used /\ i \in Tops(reqs) /\ i # selected
    <3>1. wait'[i] = wait[i] + 1
      BY <1>4, <2>4
    <3>2. CASE kind = "priority"
      BY <1>1, <1>3, <2>4, <3>1, <3>2 DEF ArbiterInv, Patience
    <3>3. CASE kind # "priority"
      <4>1. ArbAhead(kind, arb, selected, i)
        BY <1>2, <2>4, <3>3, WinnerIsPreferred
      <4>2. ArbSlack(kind, Updated(kind, arb, selected), i) >= ArbSlack(kind, arb, i) + 1
        BY <1>2, <4>1, ArbSlackGrows
      <4>3. wait[i] <= ArbSlack(kind, arb, i) /\ wait[i] \in Nat
        BY <1>2, <3>3 DEF ArbiterInv, Patience
      <4> QED BY <1>3, <2>1, <2>4, <3>1, <3>3, <4>2, <4>3
    <3> QED BY <3>2, <3>3
  <2> QED BY <2>2, <2>3, <2>4
<1>9. Patience'
  BY <1>1, <1>8 DEF Patience
<1> QED BY <1>1, <1>7, <1>9 DEF ArbiterInv, Choice

\* The invariant, always.
LEMMA ArbiterInvHolds == ASSUME ArbiterAssumption PROVE Spec => []ArbiterInv
<1>1. Init => ArbiterInv
  BY InitArbiterInv
<1>2. ArbiterInv /\ [Next]_vars => ArbiterInv'
  <2> SUFFICES ASSUME ArbiterInv, [Next]_vars PROVE ArbiterInv'
    OBVIOUS
  <2>1. CASE \E i \in Upto(Size), pri \in Priorities : AddRequest(i, pri)
    BY <2>1, AddRequestKeepsInv
  <2>2. CASE Arbitrate
    BY <2>2, ArbitrateKeepsInv
  <2>3. CASE \E used \in BOOLEAN : Clear(used)
    BY <2>3, ClearKeepsInv
  <2>4. CASE UNCHANGED vars
    BY <2>4 DEF vars, ArbiterInv, Shape, Choice, Patience
  <2> QED BY <2>1, <2>2, <2>3, <2>4 DEF Next
<1> QED BY <1>1, <1>2, PTL DEF Spec

\* The matrices order their inputs, and whatever is requested, the winner is a request
\* of the highest priority: Arbiter::Arbitrate never comes out without one.
THEOREM ArbitersGrantAsPromised == ASSUME ArbiterAssumption PROVE Spec => []GrantsAsPromised
<1>1. ASSUME ArbiterInv PROVE GrantsAsPromised
  <2>1. ArbState(kind, arb) /\ Requests(Size, reqs)
    BY <1>1 DEF ArbiterInv, Shape
  <2>2. DOMAIN reqs # {} => Winner(kind, arb, reqs) \in Tops(reqs)
    BY <1>1, <2>1, WinnerIsPreferred
  <2>3. selected # None => selected \in Tops(reqs)
    BY <1>1 DEF ArbiterInv, Choice
  <2>4. kind = "matrix" => IsStrictOrder(arb, Size)
    BY <2>1 DEF ArbState, IsTree, FlatState
  <2>5. kind = "tree_matrix" =>
          /\ IsStrictOrder(arb.global, Groups)
          /\ \A g \in Upto(Groups) : IsStrictOrder(arb.group[g], GroupSize)
    BY <2>1 DEF ArbState, IsTree, PartType, FlatState
  <2>6. WinnerIsTop
    BY <2>2, <2>3 DEF WinnerIsTop
  <2>7. MatrixIsOrder
    BY <2>4, <2>5 DEF MatrixIsOrder
  <2> QED BY <2>6, <2>7 DEF GrantsAsPromised
<1> QED BY <1>1, ArbiterInvHolds, PTL

\* An input that keeps requesting with the highest priority is selected before others
\* have been Size times: UpdateState moves every part of a tree the way that takes.
THEOREM ArbitersStarveNobody == ASSUME ArbiterAssumption PROVE Spec => []NoStarvation
<1>1. ASSUME ArbiterInv PROVE NoStarvation
  <2> SUFFICES ASSUME NEW i \in Upto(Size) PROVE wait[i] < Size
    BY DEF NoStarvation
  <2>1. ArbSlack(kind, arb, i) \in 0 .. Size - 1 /\ wait[i] \in Nat
    BY <1>1, ArbSlackRange DEF ArbiterInv, Shape
  <2>2. CASE kind = "priority" /\ selected # None
    BY <1>1, <2>2 DEF ArbiterInv, Patience
  <2>3. CASE ~(kind = "priority" /\ selected # None)
    BY <1>1, <2>1, <2>3, Sizes DEF ArbiterInv, Patience
  <2> QED BY <2>2, <2>3
<1> QED BY <1>1, ArbiterInvHolds, PTL

=============================================================================
