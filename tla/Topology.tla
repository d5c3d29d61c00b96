------------------------------ MODULE Topology ------------------------------
(***************************************************************************)
(* The links between the ranks and what is computed from them              *)
(* (CollectiveTopology of src/rank/topology.rs): ring orders, rail orders, *)
(* shortest transfers, groups of ranks.                                    *)
(*                                                                         *)
(* A topology is a record [world, links, rails, aggregate].  links and     *)
(* each element of rails map the linked pairs, in both orders, to a cost   *)
(* [bandwidth, latency]; aggregate maps pairs to a bandwidth.  Times are   *)
(* small integers; Never stands for the absence of a route and is where    *)
(* sums saturate.                                                          *)
(***************************************************************************)
EXTENDS Layout, Sequences, SequencesExt, FiniteSetsExt

CONSTANT ExactRingSearchMaxRanks  \* worlds up to this size are searched exhaustively

Never == 1000000

Plus(a, b) == Smaller(a + b, Never)
Times(n, a) == Smaller(n * a, Never)
Largest(S) == Max(S \cup {0})
RanksOf(t) == 0 .. t.world - 1

(* The sum of the first n values.                                           *)
Total(n, values) ==
  LET upto[k \in 0 .. n] == IF k = 0 THEN 0 ELSE upto[k - 1] + values[k] IN upto[n]

Empty(world) == [world |-> world, links |-> <<>>, rails |-> <<>>, aggregate |-> <<>>]

(* A link is entered in both orders and replaces what was there.            *)
Linked(links, a, b, cost) ==
  [p \in DOMAIN links \cup {<<a, b>>, <<b, a>>} |-> IF p \in {<<a, b>>, <<b, a>>} THEN cost ELSE links[p]]

ValidLink(t, a, b, bandwidth) == {a, b} \subseteq RanksOf(t) /\ a # b /\ bandwidth > 0

AddLink(t, a, b, cost) == [t EXCEPT !.links = Linked(@, a, b, cost)]

AddRailLink(t, rail, a, b, cost) ==
  [t EXCEPT !.rails = [i \in 1 .. Max({Len(@), rail + 1}) |->
     LET old == IF i <= Len(@) THEN @[i] ELSE <<>> IN
     IF i = rail + 1 THEN Linked(old, a, b, cost) ELSE old]]

AddAggregateLink(t, a, b, bandwidth) == [t EXCEPT !.aggregate = Linked(@, a, b, bandwidth)]

(* The links of a rail: its own, and the common ones where it has none.     *)
OnRail(t, rail) ==
  LET own == IF rail < Len(t.rails) THEN t.rails[rail + 1] ELSE <<>>
  IN [p \in DOMAIN own \cup DOMAIN t.links |-> IF p \in DOMAIN own THEN own[p] ELSE t.links[p]]

TransferTime(bytes, bandwidth) == (bytes * 1000 + bandwidth - 1) \div bandwidth
LinkTime(cost, bytes) == cost.latency + TransferTime(bytes, cost.bandwidth)

-----------------------------------------------------------------------------
(* Shortest transfers.                                                      *)

(* Mutant: the way to the current rank is not counted.                      *)
RelaxForgets(links, dist, current, next, bytes) ==
  IF <<current, next>> \in DOMAIN links
    THEN Smaller(dist[next], LinkTime(links[<<current, next>>], bytes)) ELSE dist[next]

Relax(links, dist, current, next, bytes) ==
  IF <<current, next>> \in DOMAIN links
    THEN Smaller(dist[next], Plus(dist[current], LinkTime(links[<<current, next>>], bytes)))
    ELSE dist[next]

(* One round: the nearest rank that was not visited is visited, unless it   *)
(* is the destination or cannot be reached.                                 *)
Settle(links, s, destination, bytes) ==
  LET nearest(r) == \A q \in s.open : s.dist[r] < s.dist[q] \/ (s.dist[r] = s.dist[q] /\ r <= q)
      current == CHOOSE r \in s.open : nearest(r)
      rest == s.open \ {current}
  IN IF s.open = {} THEN s
     ELSE IF s.dist[current] = Never \/ current = destination THEN s
     ELSE [open |-> rest,
           dist |-> [r \in DOMAIN s.dist |-> IF r \in rest THEN Relax(links, s.dist, current, r, bytes)
                                             ELSE s.dist[r]]]

ShortestWithin(links, allowed, source, destination, bytes) ==
  LET round[n \in Nat] ==
        IF n = 0 THEN [open |-> allowed, dist |-> [r \in allowed |-> IF r = source THEN 0 ELSE Never]]
        ELSE Settle(links, round[n - 1], destination, bytes)
  IN IF source = destination THEN 0 ELSE round[Cardinality(allowed)].dist[destination]

Shortest(t, source, destination, bytes) ==
  ShortestWithin(t.links, RanksOf(t), source, destination, bytes)

ShortestOnRail(t, source, destination, bytes, rail) ==
  ShortestWithin(OnRail(t, rail), RanksOf(t), source, destination, bytes)

-----------------------------------------------------------------------------
(* Rings.                                                                   *)

(* The order of words: at the first place where they differ b has more.     *)
LexLess(a, b) ==
  \E i \in DOMAIN b : /\ \A j \in 1 .. i - 1 : j \in DOMAIN a /\ a[j] = b[j]
                      /\ i \in DOMAIN a => a[i] < b[i]

LexMin(S) == CHOOSE a \in S : \A b \in S : a = b \/ LexLess(a, b)

Around(order, i) == order[(i % Len(order)) + 1]
Edges(order) == [i \in DOMAIN order |-> <<order[i], Around(order, i)>>]
RingEdges(order) == {{e[1], e[2]} : e \in Range(Edges(order))}

(* The same ring from 0 in the direction that comes first.                  *)
RotateToZero(order) ==
  LET i == CHOOSE i \in DOMAIN order : order[i] = 0
      up == SubSeq(order, i, Len(order)) \o SubSeq(order, 1, i - 1)
  IN LexMin({up, <<0>> \o Reverse(Tail(up))})

(* Mutant: whether the last rank is linked to the first is not looked at.   *)
ClosesNever(t, order) == TRUE

Closes(t, order) == <<Last(order), Head(order)>> \in DOMAIN t.links

(* Where a path of links can go on.                                         *)
Onward(t, order) ==
  {r \in RanksOf(t) : r \notin Range(order) /\ <<Last(order), r>> \in DOMAIN t.links}

(* Of the ranks a path can go on with, the one over the widest link.        *)
Widest(t, order) ==
  LET key(r) == LET cost == t.links[<<Last(order), r>>] IN <<-cost.bandwidth, cost.latency, r>>
  IN {r \in Onward(t, order) : \A q \in Onward(t, order) : r = q \/ LexLess(key(r), key(q))}

(* The paths of links from start over all ranks, along any links or along   *)
(* the widest.                                                              *)
Paths(t, start, widest) ==
  LET path[n \in 0 .. t.world - 1] ==
        IF n = 0 THEN {<<start>>}
        ELSE UNION {{Append(order, r) : r \in IF widest THEN Widest(t, order) ELSE Onward(t, order)} :
                      order \in path[n - 1]}
  IN path[t.world - 1]

(* collect_rings: every path from 0 that closes.                            *)
CollectRings(t) == {order \in Paths(t, 0, FALSE) : Closes(t, order) /\ order = RotateToZero(order)}

(* The search of large worlds: from a start the widest link next.           *)
Greedy(t, start) ==
  {RotateToZero(order) : order \in {order \in Paths(t, start, TRUE) : Closes(t, order)}}

Candidates(t) ==
  IF t.world <= ExactRingSearchMaxRanks THEN CollectRings(t)
  ELSE UNION {Greedy(t, start) : start \in RanksOf(t)}

(* Smaller is better: bottleneck, total bandwidth, total latency.           *)
RingScore(t, order) ==
  LET bandwidth == [i \in DOMAIN order |-> t.links[Edges(order)[i]].bandwidth]
      latency == [i \in DOMAIN order |-> t.links[Edges(order)[i]].latency]
  IN <<-Min(Range(bandwidth)), -Total(Len(order), bandwidth), Total(Len(order), latency)>>

(* How often the edges of a ring are used by the rings selected so far, the *)
(* most used first, then its score, then itself.                            *)
RingKey(t, o, selected) ==
  LET usage == [i \in DOMAIN o |->
                  Cardinality({k \in DOMAIN selected : {o[i], Around(o, i)} \in RingEdges(selected[k])})]
  IN <<Max(Range(usage)), Total(Len(o), usage)>> \o RingScore(t, o) \o o

(* select_diverse_rings: the ring whose edges were used least, then the one *)
(* with the best score, then the first.                                     *)
Pick(t, s) ==
  LET best(o) == \A q \in s.left : o = q \/ LexLess(RingKey(t, o, s.selected), RingKey(t, q, s.selected))
      ring == CHOOSE o \in s.left : best(o)
  IN IF s.left = {} THEN s ELSE [left |-> s.left \ {ring}, selected |-> Append(s.selected, ring)]

SelectDiverse(t, candidates, maximum) ==
  LET picked[n \in 0 .. maximum] ==
        IF n = 0 THEN [left |-> candidates, selected |-> <<>>] ELSE Pick(t, picked[n - 1])
  IN picked[maximum].selected

(* The empty sequence where the code returns an error: for a ring that is   *)
(* open.                                                                    *)
BestRingOrders(t, maximum) ==
  IF t.world = 1 THEN << <<0>> >>
  ELSE IF \E o \in Candidates(t) : ~(Range(Edges(o)) \subseteq DOMAIN t.links) THEN <<>>
  ELSE SelectDiverse(t, Candidates(t), maximum)

(* Mutant: the ring that is configured may come a second time.              *)
RingOrdersRepeated(t, primary, maximum) == <<primary>> \o BestRingOrders(t, maximum)

(* The configured ring first, then the other rings that differ in an edge.  *)
WithRing(orders, o) ==
  IF \E i \in DOMAIN orders : RingEdges(orders[i]) = RingEdges(o) THEN orders ELSE Append(orders, o)

RingOrdersWithPrimary(t, primary, maximum) ==
  LET best == BestRingOrders(t, maximum)
      kept[k \in 0 .. Len(best)] == IF k = 0 THEN <<primary>> ELSE WithRing(kept[k - 1], best[k])
  IN kept[Len(best)]

-----------------------------------------------------------------------------
(* Rails.                                                                   *)

PairTotal(world, value) ==
  Total(world, [a \in 1 .. world |->
    Total(world, [b \in 1 .. world |-> IF <<a - 1, b - 1>> \in DOMAIN value THEN value[<<a - 1, b - 1>>] ELSE 0])])

RailScore(t, rail) ==
  LET links == OnRail(t, rail)
      pairs == {p \in RanksOf(t) \X RanksOf(t) : p[1] < p[2] /\ p \in DOMAIN links}
      bandwidth == [p \in pairs |-> links[p].bandwidth]
      latency == [p \in pairs |-> links[p].latency]
  IN IF pairs = {} THEN <<0, 0, 0>>
     ELSE <<-Min(Range(bandwidth)), -PairTotal(t.world, bandwidth), PairTotal(t.world, latency)>>

RailKey(t, rail) == Append(RailScore(t, rail), rail)

(* The rails from the best score to the worst, of equal ones the first.     *)
PreferredRailOrder(t, rails) ==
  CHOOSE o \in [1 .. rails -> 0 .. rails - 1] :
    \A i, j \in 1 .. rails : i < j => LexLess(RailKey(t, o[i]), RailKey(t, o[j]))

(* The cap of the links two ranks share across the rails.                   *)
AggregateCap(t, bytes) ==
  Largest({TransferTime(Max({bytes[p], bytes[<<p[2], p[1]>>]}), t.aggregate[p]) :
             p \in {p \in DOMAIN t.aggregate : bytes[p] + bytes[<<p[2], p[1]>>] > 0}})

-----------------------------------------------------------------------------
(* Groups.                                                                  *)

(* The times of what has a route.                                           *)
Finite == 0 .. Never - 1

Neighbours(t, group, threshold, bytes) ==
  {p[2] : p \in {p \in DOMAIN t.links : p[1] \in group /\ LinkTime(t.links[p], bytes) <= threshold}}

(* The free ranks that links of at most a threshold connect with the first. *)
Reach(t, first, free, threshold, bytes) ==
  LET within[n \in 0 .. t.world] ==
        IF n = 0 THEN {first}
        ELSE UNION {g \cup (free \cap Neighbours(t, g, threshold, bytes)) : g \in {within[n - 1]}}
  IN within[t.world]

(* A rank that is in no group yet is the first of one.                      *)
WithDomain(t, groups, r, threshold, bytes) ==
  LET visited == UNION Range(groups)
  IN IF r \in visited THEN groups
     ELSE Append(groups, Reach(t, r, RanksOf(t) \ visited, threshold, bytes))

Domains(t, threshold, bytes) ==
  LET found[k \in 0 .. t.world] ==
        IF k = 0 THEN <<>> ELSE WithDomain(t, found[k - 1], k - 1, threshold, bytes)
  IN found[t.world]

Ascending(S) == CHOOSE o \in [1 .. Cardinality(S) -> S] : \A i, j \in DOMAIN o : i < j => o[i] < o[j]

(* The rank with the least cost to the others leads, swapped to the front.  *)
SwapToFront(sorted, leader) ==
  [i \in DOMAIN sorted |-> IF i = 1 THEN leader ELSE IF sorted[i] = leader THEN sorted[1] ELSE sorted[i]]

LeaderCost(t, group, c, bytes) ==
  FoldSet(LAMBDA r, n : Plus(n, ShortestWithin(t.links, group, c, r, bytes)), 0, group)

Leaders(t, group, bytes) ==
  {x \in {<<LeaderCost(t, group, c, bytes), c>> : c \in group} : x[1] \in Finite}

LeaderFirst(t, group, bytes) == SwapToFront(Ascending(group), LexMin(Leaders(t, group, bytes))[2])

(* The orders of 1 .. n that start with 1.                                  *)
Cycles(n) == {o \in [1 .. n -> 1 .. n] : o[1] = 1 /\ Range(o) = 1 .. n}

CycleTimes(t, ranks, o, bytes) ==
  [i \in DOMAIN o |-> Shortest(t, ranks[o[i]], ranks[Around(o, i)], bytes)]

(* Each rank is followed by the nearest of those that are left.             *)
Nearest(t, ranks, o, bytes) ==
  LET key(a, b) == <<Shortest(t, ranks[a], ranks[b], bytes), ranks[b]>>
  IN \A i, j \in 2 .. Len(o) : i < j => LexLess(key(o[i - 1], o[i]), key(o[i - 1], o[j]))

(* best_rank_cycle_order: of all cycles of the ranks the one with the least *)
(* longest transfer, then the least total; of many ranks the one that goes  *)
(* to the nearest.                                                          *)
RankCycles(t, ranks, bytes) ==
  {o \in Cycles(Len(ranks)) : /\ Range(CycleTimes(t, ranks, o, bytes)) \subseteq Finite
                              /\ Len(ranks) <= ExactRingSearchMaxRanks \/ Nearest(t, ranks, o, bytes)}

CycleKey(times, o) == <<Max(Range(times)), Total(Len(o), times)>> \o o

Arranged(groups, key) == [i \in DOMAIN groups |-> groups[key[i + 2]]]

(* The empty sequence where the code returns None.                          *)
ArrangedByLeaders(t, groups, bytes) ==
  LET ranks == [i \in DOMAIN groups |-> Head(groups[i])]
      keys == {CycleKey(CycleTimes(t, ranks, o, bytes), o) : o \in RankCycles(t, ranks, bytes)}
  IN IF keys = {} THEN <<>> ELSE Arranged(groups, LexMin(keys))

OptimizeHierarchy(t, groups, bytes) ==
  IF \E i \in DOMAIN groups : Leaders(t, groups[i], bytes) = {} THEN <<>>
  ELSE ArrangedByLeaders(t, [i \in DOMAIN groups |-> LeaderFirst(t, groups[i], bytes)], bytes)

(* The ranks that links of at most a threshold connect, for each threshold, *)
(* unless that is all of them or each on its own.                           *)
HierarchyCandidates(t, bytes) ==
  LET linked == {p \in RanksOf(t) \X RanksOf(t) : p[1] < p[2] /\ p \in DOMAIN t.links}
      thresholds == {LinkTime(t.links[p], bytes) : p \in linked}
      partitions == {d \in {Domains(t, h, bytes) : h \in thresholds} : Len(d) \in 2 .. t.world - 1}
  IN {OptimizeHierarchy(t, d, bytes) : d \in partitions} \ {<<>>}
=============================================================================
