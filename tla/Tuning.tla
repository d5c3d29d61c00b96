------------------------------- MODULE Tuning -------------------------------
(***************************************************************************)
(* The planner of the collectives (CollectiveTuning of                     *)
(* src/rank/topology.rs): a topology is entered link by link, a tuning is  *)
(* made from it and changed by builder calls, and plan chooses the         *)
(* algorithm of a call from the policy, a measured profile or the          *)
(* estimated times.                                                        *)
(*                                                                         *)
(* A fingerprint is modelled by the tuple of the values that are hashed.   *)
(* A builder call that fails drops the tuning, as `?' does in the code.    *)
(***************************************************************************)
EXTENDS Topology

CONSTANTS
  MaxRingChannels,  \* limit of the channels
  MaxP2pRails,      \* limit of the rails
  Payloads,         \* sizes asked for, in bytes
  Scenarios         \* what is entered and called: records with a topology to
                    \* start from and the sets the calls take their arguments from

LinkCosts == [bandwidth : Nat, latency : Nat]

(* A topology has a rank and its links have costs.                          *)
IsTopology(t) ==
  /\ t = [world |-> t.world, links |-> t.links, rails |-> t.rails, aggregate |-> t.aggregate]
  /\ t.world \in Nat \ {0}
  /\ \A p \in DOMAIN t.links : t.links[p] \in LinkCosts
  /\ Len(t.rails) \in Nat /\ DOMAIN t.rails = 1 .. Len(t.rails)
  /\ \A i \in DOMAIN t.rails : \A p \in DOMAIN t.rails[i] : t.rails[i][p] \in LinkCosts

ASSUME TuningAssumption ==
  /\ {MaxRingChannels, MaxP2pRails} \subseteq Nat \ {0}
  /\ Payloads \subseteq Nat \ {0}
  /\ \A c \in Scenarios :
       /\ c.policies \subseteq {"Auto", "Direct", "Ring", "Hierarchical"}
       /\ IsTopology(c.start) /\ c.costs \cup c.railCosts \subseteq LinkCosts

VARIABLES
  scene,     \* the scenario
  topology,  \* the topology that is being entered
  tuning,    \* the tuning, or Nothing
  saved,     \* the profile a benchmark stored, or Nothing
  links,     \* links entered so far
  builders   \* builder calls so far

vars == <<scene, topology, tuning, saved, links, builders>>

Nothing == [none |-> TRUE]
Kinds == {"AllReduce", "AllGather", "ReduceScatter", "AllToAll"}
PeerAlgorithm(kind) == IF kind = "AllToAll" THEN "Pairwise" ELSE "Ring"

CeilDiv(a, b) == (a + b - 1) \div b

-----------------------------------------------------------------------------
(* Estimates.                                                               *)

RailOrder(u) == IF u.railOrder # <<>> THEN u.railOrder ELSE PreferredRailOrder(u.topology, u.rails)

(* Mutant: the cap takes the place of the time of the rails.                *)
CappedInstead(rails, railTime, cap) == IF rails > 1 THEN cap ELSE railTime

Capped(rails, railTime, cap) == IF rails > 1 THEN Max({railTime, cap}) ELSE railTime

(* The time of the move <<from, to, bytes>> over its direct link.           *)
DirectTime(t, m, rail) ==
  LET on == OnRail(t, rail) IN
  IF <<m[1], m[2]>> \in DOMAIN on THEN LinkTime(on[<<m[1], m[2]>>], m[3]) ELSE Never

(* The time of one step: channel c makes the moves moves[c] on its rail,    *)
(* over direct links or over any route; channels of a rail follow each      *)
(* other, rails run side by side, and the links they share cap them.        *)
StepTime(t, railOrder, channels, moves, direct) ==
  LET rails == Smaller(Len(railOrder), channels)
      time(m, rail) == IF direct THEN DirectTime(t, m, rail)
                       ELSE ShortestOnRail(t, m[1], m[2], m[3], rail)
      slowest(c) == Largest({time(m, railOrder[(c % rails) + 1]) : m \in moves[c]})
      busy(slot) == FoldSet(LAMBDA c, n : Plus(n, slowest(c)), 0,
                            {c \in 0 .. channels - 1 : c % rails = slot})
      moved(p) == FoldSet(LAMBDA m, n : n + m[3], 0,
                          UNION {{<<m[1], m[2], m[3], c>> : m \in {m \in moves[c] : <<m[1], m[2]>> = p}} :
                                   c \in 0 .. channels - 1})
      railTime == Largest({busy(slot) : slot \in 0 .. rails - 1})
      cap == AggregateCap(t, [p \in RanksOf(t) \X RanksOf(t) |-> moved(p)])
  IN Capped(rails, railTime, cap)

Channels(wanted, bytes) == Max({Smaller(wanted, Max({bytes, 1})), 1})

(* What an estimate looks at.                                               *)
Inputs(u) ==
  [topology |-> u.topology, railOrder |-> RailOrder(u), channels |-> u.channels, ring |-> u.ring,
   rings |-> u.rings, groups |-> u.groups, bandwidth |-> u.bandwidth, latency |-> u.latency]

RingOrderForChannel(g, c) == g.rings[(c % Len(g.rings)) + 1]

(* Every channel moves its part along its ring, over direct links only.     *)
MultiRingStepTime(g, bytes) ==
  LET channels == Channels(g.channels, bytes)
      moves == [c \in 0 .. channels - 1 |->
                  {<<e[1], e[2], BalancedLength(bytes, channels, c)>> :
                     e \in Range(Edges(RingOrderForChannel(g, c)))}]
  IN StepTime(g.topology, g.railOrder, channels, moves, TRUE)

(* The ring of the leaders: position i moves bytes[i], over any route.      *)
StripedRingStepTime(g, order, bytes) ==
  LET channels == Channels(g.channels, Max(Range(bytes)))
      moves == [c \in 0 .. channels - 1 |->
                  {<<order[i], Around(order, i), BalancedLength(bytes[i], channels, c)>> :
                     i \in DOMAIN order}]
  IN StepTime(g.topology, g.railOrder, channels, moves, FALSE)

(* Step k of the exchange of all with all: position i to position i + k.    *)
PairwiseTime(g, bytes) ==
  LET n == Len(g.ring)
      channels == Channels(g.channels, bytes)
      moves(k) == [c \in 0 .. channels - 1 |->
                     {<<g.ring[i], Around(g.ring, i + k - 1), BalancedLength(bytes, channels, c)>> :
                        i \in 1 .. n}]
  IN FoldSet(LAMBDA k, s : Plus(s, StepTime(g.topology, g.railOrder, channels, moves(k), FALSE)),
             0, 1 .. n - 1)

PeerCost(g, kind, bytes) ==
  LET n == Len(g.ring)
      chunk == CeilDiv(bytes, n)
  IN CASE n <= 1 -> 0
       [] kind = "AllReduce" -> Times(2 * (n - 1), MultiRingStepTime(g, chunk))
       [] kind = "AllGather" -> Times(n - 1, MultiRingStepTime(g, bytes))
       [] kind = "ReduceScatter" -> Times(n - 1, MultiRingStepTime(g, chunk))
       [] kind = "AllToAll" -> PairwiseTime(g, chunk)

DirectCost(g, kind, bytes) ==
  LET n == Len(g.ring)
      response == CASE kind \in {"AllReduce", "AllToAll"} -> bytes
                    [] kind = "AllGather" -> bytes * n
                    [] kind = "ReduceScatter" -> CeilDiv(bytes, n)
  IN IF n <= 1 THEN 0 ELSE TransferTime(n * (bytes + response), g.bandwidth) + 2 * n * g.latency

(* Each leader serves its members one after the other; groups run side by   *)
(* side.                                                                    *)
LocalTime(g, bytes) ==
  Largest({FoldSet(LAMBDA r, n : Plus(n, Shortest(g.topology, Head(members), r, bytes)), 0, Range(Tail(members))) :
             members \in Range(g.groups)})

HierarchicalCost(g, kind, bytes) ==
  LET leaders == [i \in DOMAIN g.groups |-> Head(g.groups[i])]
      n == Len(leaders)
      world == Len(g.ring)
      shard == CeilDiv(bytes, world)
      \* what position i moves in step k: the block of the group it holds then
      block(size, shift, k) == [i \in 1 .. n |-> size * Len(Around(g.groups, i - 1 + shift - k))]
      steps(size, shift) ==
        FoldSet(LAMBDA k, s : Plus(s, StripedRingStepTime(g, leaders, block(size, shift, k))), 0, 0 .. n - 2)
      between == CASE kind = "AllReduce" ->
                        Times(2 * (n - 1), StripedRingStepTime(g, leaders, [i \in 1 .. n |-> CeilDiv(bytes, n)]))
                   [] kind = "ReduceScatter" -> steps(shard, n - 1)
                   [] kind = "AllGather" -> steps(bytes, n)
      down == CASE kind = "AllReduce" -> bytes
                [] kind = "AllGather" -> bytes * world
                [] kind = "ReduceScatter" -> shard
  IN IF g.groups = <<>> \/ kind = "AllToAll" THEN Never
     ELSE Plus(Plus(LocalTime(g, bytes), between), LocalTime(g, down))

PeerEstimate(u, kind, bytes) == PeerCost(Inputs(u), kind, bytes)
DirectEstimate(u, kind, bytes) == DirectCost(Inputs(u), kind, bytes)
HierarchicalEstimate(u, kind, bytes) == HierarchicalCost(Inputs(u), kind, bytes)

-----------------------------------------------------------------------------
(* The plan of a call.                                                      *)

Entry(u, kind, bytes) ==
  {e \in (IF u.profile = Nothing THEN {} ELSE Range(u.profile.entries)) :
     e.kind = kind /\ bytes \in e.from .. e.to}

(* Mutant: the hierarchical estimate is compared with the direct one.       *)
CheapestOfDirect(kind, direct, peer, hierarchical) ==
  IF hierarchical < direct THEN "Hierarchical"
  ELSE IF peer < direct THEN PeerAlgorithm(kind) ELSE "Direct"

(* Of equal estimates the earlier one wins.                                 *)
Cheapest(kind, direct, peer, hierarchical) ==
  IF hierarchical < Smaller(direct, peer) THEN "Hierarchical"
  ELSE IF peer < direct THEN PeerAlgorithm(kind) ELSE "Direct"

PlanFrom(u, kind, bytes, direct, peer, hierarchical, entries) ==
  LET measured == u.policy = "Auto" /\ Len(u.ring) > 1 /\ entries # {}
      entry == CHOOSE e \in entries : TRUE
      algorithm ==
        CASE Len(u.ring) <= 1 \/ u.policy = "Direct" -> "Direct"
          [] u.policy = "Ring" -> PeerAlgorithm(kind)
          [] u.policy = "Hierarchical" -> IF hierarchical < Never THEN "Hierarchical" ELSE PeerAlgorithm(kind)
          [] measured -> entry.algorithm
          [] bytes < u.threshold -> "Direct"
          [] OTHER -> Cheapest(kind, direct, peer, hierarchical)
  IN [algorithm |-> algorithm,
      measured |-> measured,
      channels |-> IF measured THEN entry.channels ELSE u.channels,
      time |-> IF measured THEN entry.time
               ELSE CASE algorithm = "Direct" -> direct
                      [] algorithm \in {"Ring", "Pairwise"} -> peer
                      [] algorithm = "Hierarchical" -> hierarchical]

Plan(u, kind, bytes) ==
  PlanFrom(u, kind, bytes, DirectEstimate(u, kind, bytes), PeerEstimate(u, kind, bytes),
           HierarchicalEstimate(u, kind, bytes), Entry(u, kind, bytes))

-----------------------------------------------------------------------------
(* Profiles.                                                                *)

(* Mutant: of the topology only the size is hashed.                         *)
FingerprintNoLinks(u) ==
  <<u.topology.world, u.rings, u.groups, u.bandwidth, u.latency, u.rails, RailOrder(u)>>

(* What topology_fingerprint hashes.                                        *)
Fingerprint(u) ==
  <<u.topology, u.rings, u.groups, u.bandwidth, u.latency, u.rails, RailOrder(u)>>

(* The versions of the profile's format and of the executed algorithms.     *)
Current == [profile |-> 2, execution |-> 6]

(* What execution_fingerprint hashes.                                       *)
ExecutionFingerprint(version, u) == <<version.execution, u.transport>>

(* Equal, or both present and within a factor of 4 of each other.           *)
Within(a, b) == IF a = 0 \/ b = 0 THEN a = b ELSE Max({a, b}) <= 4 * Smaller(a, b)
CostsMatch(f, g) ==
  /\ DOMAIN f = DOMAIN g
  /\ \A p \in DOMAIN f : Within(f[p].bandwidth, g[p].bandwidth) /\ Within(f[p].latency, g[p].latency)

ProbedTopologyMatches(t, d) ==
  /\ t.world = d.world
  /\ CostsMatch(t.links, d.links)
  /\ Len(t.rails) = Len(d.rails) /\ \A i \in DOMAIN t.rails : CostsMatch(t.rails[i], d.rails[i])
  /\ DOMAIN t.aggregate = DOMAIN d.aggregate
  /\ \A p \in DOMAIN t.aggregate : Within(t.aggregate[p], d.aggregate[p])

(* The profile was measured on this topology, or, where the topology is     *)
(* probed, on one that the probe cannot tell from it.                       *)
MeasuredHere(u, profile, probed) ==
  \/ profile.fingerprint = Fingerprint(u)
  \/ /\ probed
     /\ LET pinned == [u EXCEPT !.topology = profile.detected] IN
        /\ ProbedTopologyMatches(u.topology, profile.detected)
        /\ RailOrder(u) = RailOrder(pinned)
        /\ profile.fingerprint = Fingerprint(pinned)

ValidChannels(n) == n \in 1 .. MaxRingChannels

ValidEntry(u, e) ==
  /\ e.from <= e.to /\ e.time > 0 /\ ValidChannels(e.channels)
  /\ e.algorithm \in {"Direct", PeerAlgorithm(e.kind), "Hierarchical"}
  /\ e.algorithm = "Hierarchical" => e.kind # "AllToAll" /\ u.groups # <<>>

Overlap(e, f) == e.kind = f.kind /\ e.from <= f.to /\ f.from <= e.to

ValidProfile(u, profile, probed) ==
  /\ profile.version = Current.profile
  /\ profile.world = Len(u.ring)
  /\ MeasuredHere(u, profile, probed)
  /\ profile.execution = ExecutionFingerprint(Current, u)
  /\ profile.entries # <<>>
  /\ \A e \in Range(profile.entries) : ValidEntry(u, e)
  /\ \A i, j \in DOMAIN profile.entries : i # j => ~Overlap(profile.entries[i], profile.entries[j])

-----------------------------------------------------------------------------
(* Entering the topology.                                                   *)

Init ==
  /\ scene \in Scenarios
  /\ topology = scene.start
  /\ tuning = Nothing /\ saved = Nothing
  /\ links = 0 /\ builders = 0

Enter(t) ==
  /\ tuning = Nothing /\ links < scene.maxLinks
  /\ topology' = t /\ links' = links + 1
  /\ UNCHANGED <<scene, tuning, saved, builders>>

Pairs == {p \in RanksOf(topology) \X RanksOf(topology) : p[1] < p[2]}

EnterLink == \E p \in Pairs, c \in scene.costs :
  ValidLink(topology, p[1], p[2], c.bandwidth) /\ Enter(AddLink(topology, p[1], p[2], c))

EnterRailLink == \E rail \in 0 .. MaxP2pRails - 1, p \in Pairs, c \in scene.railCosts :
  ValidLink(topology, p[1], p[2], c.bandwidth) /\ Enter(AddRailLink(topology, rail, p[1], p[2], c))

EnterAggregateLink == \E p \in Pairs, b \in scene.aggregates :
  ValidLink(topology, p[1], p[2], b) /\ Enter(AddAggregateLink(topology, p[1], p[2], b))

-----------------------------------------------------------------------------
(* Making and changing a tuning.                                            *)

ValidRingOrder(order, world) == Len(order) = world /\ Range(order) = 0 .. world - 1

(* Groups of which each rank is in one.                                     *)
ValidGroups(groups, world) ==
  /\ Len(groups) >= 2 /\ \A i \in DOMAIN groups : groups[i] # <<>>
  /\ UNION {Range(groups[i]) : i \in DOMAIN groups} = 0 .. world - 1
  /\ \A i, j \in DOMAIN groups : \A k \in DOMAIN groups[i], l \in DOMAIN groups[j] :
       groups[i][k] = groups[j][l] => i = j /\ k = l

(* The ring that is given, or the best one, if there is one.                *)
Primaries(order) == IF order = <<>> THEN Range(BestRingOrders(topology, 1)) ELSE {order}

Made(policy, ring) ==
  [policy |-> policy, threshold |-> scene.threshold, ring |-> ring,
   rings |-> RingOrdersWithPrimary(topology, ring, MaxRingChannels),
   channels |-> 1, rails |-> 1, railOrder |-> <<>>, groups |-> <<>>, topology |-> topology,
   bandwidth |-> scene.bandwidth, latency |-> scene.latency, transport |-> "TcpHostStaged",
   profile |-> Nothing]

FromTopology ==
  /\ tuning = Nothing /\ builders < scene.maxBuilders
  /\ \E policy \in scene.policies, order \in scene.orders : \E ring \in Primaries(order) :
       /\ ValidRingOrder(ring, topology.world)
       /\ tuning' = Made(policy, ring)
  /\ builders' = builders + 1
  /\ UNCHANGED <<scene, topology, saved, links>>

(* Mutant: the profile is kept as it is.                                    *)
RevalidatedNot(u) == u

(* A builder looks at the profile again with the tuning it has made.        *)
Revalidated(u) == IF u.profile = Nothing \/ ValidProfile(u, u.profile, FALSE) THEN u ELSE Nothing

Build(u) ==
  /\ tuning # Nothing /\ builders < scene.maxBuilders
  /\ tuning' = u /\ builders' = builders + 1
  /\ UNCHANGED <<scene, topology, saved, links>>

WithDirectTransport == \E d \in scene.directs :
  Build(IF d.bandwidth # 0
          THEN Revalidated([tuning EXCEPT !.bandwidth = d.bandwidth, !.latency = d.latency]) ELSE Nothing)

WithTransport == \E transport \in scene.transports :
  Build(Revalidated([tuning EXCEPT !.transport = transport]))

WithHierarchy == \E groups \in scene.groups :
  Build(IF ValidGroups(groups, topology.world)
          THEN Revalidated([tuning EXCEPT !.groups = groups]) ELSE Nothing)

(* The candidate with the least sum of estimates, then the first.           *)
GroupsLess(g, h) ==
  \E i \in DOMAIN h : /\ \A j \in 1 .. i - 1 : j \in DOMAIN g /\ g[j] = h[j]
                      /\ i \in DOMAIN g => LexLess(g[i], h[i])

Better(u, scored) ==
  LET first(x, y) == x[1] < y[1] \/ (x[1] = y[1] /\ GroupsLess(x[2], y[2]))
  IN IF scored = {} THEN Nothing
     ELSE [u EXCEPT !.groups = (CHOOSE x \in scored : \A y \in scored : x = y \/ first(x, y))[2]]

GroupsScore(u, bytes) ==
  FoldSet(LAMBDA kind, n : Plus(n, HierarchicalEstimate(u, kind, bytes)), 0, Kinds \ {"AllToAll"})

Inferred(u, bytes) ==
  Better(u, {x \in {<<GroupsScore([u EXCEPT !.groups = g], bytes), g>> :
                       g \in HierarchyCandidates(u.topology, bytes)} : x[1] \in Finite})

WithInferredHierarchy == \E bytes \in Payloads :
  /\ tuning # Nothing
  /\ \E u \in {Inferred(tuning, bytes)} : Build(IF u = Nothing THEN Nothing ELSE Revalidated(u))

WithRingChannels == \E n \in 1 .. MaxRingChannels + 1 :
  Build(IF ValidChannels(n) THEN Revalidated([tuning EXCEPT !.channels = n]) ELSE Nothing)

ValidRailOrder(order, rails) == Len(order) = rails /\ Range(order) = 0 .. rails - 1

(* Mutant: an order of the rails that was given is not looked at again.     *)
WithP2pRailsOnly == \E rails \in 1 .. MaxP2pRails :
  Build(Revalidated([tuning EXCEPT !.rails = rails]))

WithP2pRails == \E rails \in 1 .. MaxP2pRails + 1 :
  Build(IF rails <= MaxP2pRails /\ (tuning.railOrder = <<>> \/ ValidRailOrder(tuning.railOrder, rails))
          THEN Revalidated([tuning EXCEPT !.rails = rails]) ELSE Nothing)

WithRailOrder == \E order \in scene.railOrders :
  Build(IF ValidRailOrder(order, tuning.rails)
          THEN Revalidated([tuning EXCEPT !.railOrder = order]) ELSE Nothing)

Loaded(u, probed) ==
  IF ValidProfile(u, saved, probed) THEN [u EXCEPT !.profile = saved] ELSE Nothing

WithAutotuneProfile == \E probed \in BOOLEAN :
  saved # Nothing /\ Build(Loaded(tuning, probed))

(* What the variables of the environment can say.  An order, groups or a    *)
(* number of bytes that is empty or 0 stands for a variable that is not set *)
(* or says auto; groups are given or inferred for some bytes.               *)
Settings ==
  [policy : scene.policies, channels : 1 .. MaxRingChannels, rails : 1 .. MaxP2pRails,
   railOrder : {<<>>} \cup scene.railOrders,
   groups : {<<>>} \cup scene.groups, inferred : {0} \cup Payloads,
   direct : {[bandwidth |-> scene.bandwidth, latency |-> scene.latency]} \cup scene.directs,
   transport : {"TcpHostStaged"} \cup scene.transports, profile : {"none", "given", "probed"}]

ValidSettings(e) ==
  /\ e.direct.bandwidth # 0
  /\ e.railOrder = <<>> \/ ValidRailOrder(e.railOrder, e.rails)
  /\ e.groups = <<>> \/ (e.inferred = 0 /\ ValidGroups(e.groups, topology.world))

Configured(e, made) ==
  [made EXCEPT
     !.policy = e.policy, !.channels = e.channels, !.rails = e.rails, !.railOrder = e.railOrder,
     !.groups = e.groups, !.bandwidth = e.direct.bandwidth, !.latency = e.direct.latency,
     !.transport = e.transport]

(* from_environment: everything at once; the profile comes last.            *)
FromEnvironment ==
  /\ tuning = Nothing /\ builders < scene.maxBuilders /\ scene.environment
  /\ \E order \in scene.orders : \E ring \in Primaries(order) :
     \E made \in {Made("Auto", ring)}, e \in Settings :
       /\ ValidRingOrder(ring, topology.world)
       /\ ValidSettings(e)
       /\ e.profile # "none" => saved # Nothing
       /\ \E u \in {IF e.inferred # 0 THEN Inferred(Configured(e, made), e.inferred)
                     ELSE Configured(e, made)} :
            tuning' = IF u = Nothing THEN Nothing
                      ELSE IF e.policy = "Hierarchical" /\ u.groups = <<>> THEN Nothing
                      ELSE IF e.profile # "none" THEN Loaded(u, e.profile = "probed") ELSE u
  /\ builders' = builders + 1
  /\ UNCHANGED <<scene, topology, saved, links>>

(* A benchmark, perhaps of another version of the program, stores what it   *)
(* measured with the tuning at hand.  No code reads `tuned', which records  *)
(* that tuning.                                                             *)
SaveProfile ==
  /\ tuning # Nothing /\ saved = Nothing
  /\ \E entries \in scene.entries, version \in scene.versions :
       saved' = [version |-> version.profile, world |-> Len(tuning.ring),
                 fingerprint |-> Fingerprint(tuning), detected |-> tuning.topology,
                 execution |-> ExecutionFingerprint(version, tuning), entries |-> entries,
                 tuned |-> tuning]
  /\ UNCHANGED <<scene, topology, tuning, links, builders>>

(* The program ends and starts again.                                       *)
Restart ==
  /\ tuning # Nothing /\ saved # Nothing
  /\ tuning' = Nothing
  /\ UNCHANGED <<scene, topology, saved, links, builders>>

Next ==
  \/ EnterLink \/ EnterRailLink \/ EnterAggregateLink
  \/ FromTopology \/ FromEnvironment
  \/ WithDirectTransport \/ WithTransport \/ WithHierarchy \/ WithInferredHierarchy
  \/ WithRingChannels \/ WithP2pRails \/ WithRailOrder \/ WithAutotuneProfile
  \/ SaveProfile \/ Restart

Spec == Init /\ [][Next]_vars

-----------------------------------------------------------------------------
(* A tuning is well formed whatever was called: its rings visit every rank  *)
(* once and differ in an edge, its rails are ordered without a gap, its     *)
(* groups cover the ranks; rings and channels index into them unchecked.    *)
TuningValid ==
  tuning # Nothing =>
    /\ \A o \in Range(tuning.rings) : ValidRingOrder(o, topology.world)
    /\ \A i, j \in DOMAIN tuning.rings : i # j => RingEdges(tuning.rings[i]) # RingEdges(tuning.rings[j])
    /\ ValidRailOrder(RailOrder(tuning), tuning.rails)
    /\ tuning.groups # <<>> => ValidGroups(tuning.groups, topology.world)
    /\ ValidChannels(tuning.channels)

(* The closed tours of the links, from 0.                                   *)
Tours(t) == {o \in [1 .. t.world -> RanksOf(t)] :
               o[1] = 0 /\ Range(o) = RanksOf(t) /\ Range(Edges(o)) \subseteq DOMAIN t.links}

(* The ring search returns closed tours only; for a small world it finds    *)
(* one if there is one, and none has a better score than the first.         *)
RingSearchSound ==
  tuning = Nothing =>
    \A best \in {BestRingOrders(topology, MaxRingChannels)}, tours \in {Tours(topology)} :
       /\ Range(best) \subseteq tours
       /\ topology.world <= ExactRingSearchMaxRanks /\ tours # {} =>
            best # <<>> /\ \A o \in tours : ~LexLess(RingScore(topology, o), RingScore(topology, best[1]))

(* The times of all routes without a detour.                                *)
Routes(map, ranks, from, goal, bytes) ==
  LET times[at \in ranks, allowed \in SUBSET ranks] ==
        IF at = goal THEN {0}
        ELSE UNION {{LinkTime(map[<<at, r>>], bytes) + n : n \in times[r, allowed \ {r}]} :
                      r \in {r \in allowed : <<at, r>> \in DOMAIN map}}
  IN times[from, ranks \ {from}]

(* The search for the shortest transfer finds the time of the best route,   *)
(* on every rail, and no route only where there is none.                    *)
ShortestIsShortest ==
  tuning = Nothing =>
    \A rail \in 0 .. MaxP2pRails - 1, a, b \in RanksOf(topology), bytes \in Payloads :
      ShortestOnRail(topology, a, b, bytes, rail) =
        Min(Routes(OnRail(topology, rail), RanksOf(topology), a, b, bytes) \cup {Never})

(* Inferred groups are domains of fast links: they cover the ranks, every   *)
(* member reaches its leader inside the group over links that are faster    *)
(* than every link that leaves a group.                                     *)
GroupsAreFastDomains ==
  tuning = Nothing =>
    \A bytes \in Payloads : \A groups \in HierarchyCandidates(topology, bytes) :
      LET group(r) == CHOOSE i \in DOMAIN groups : r \in Range(groups[i])
          leaving == {p \in DOMAIN topology.links : group(p[1]) # group(p[2])}
          time(p) == LinkTime(topology.links[p], bytes)
          fast == {p \in DOMAIN topology.links : \A q \in leaving : time(p) < time(q)}
      IN /\ ValidGroups(groups, topology.world)
         /\ \A i \in DOMAIN groups : \A r \in Range(groups[i]) :
              ShortestWithin([p \in fast |-> topology.links[p]], Range(groups[i]), Head(groups[i]), r, bytes) < Never

(* What the planner asks of a topology is right: its rings, its routes and  *)
(* its groups.                                                              *)
TopologySound == RingSearchSound /\ ShortestIsShortest /\ GroupsAreFastDomains

(* A plan can be carried out, and where the model chooses nothing is        *)
(* estimated to be faster.                                                  *)
PlanRuns ==
  tuning # Nothing =>
    \A kind \in Kinds, bytes \in Payloads :
      \A p \in {Plan(tuning, kind, bytes)} :
      /\ p.algorithm \in {"Direct", PeerAlgorithm(kind), "Hierarchical"}
      /\ p.algorithm = "Hierarchical" => tuning.groups # <<>> /\ kind # "AllToAll"
      /\ ValidChannels(p.channels)
      /\ tuning.policy = "Auto" /\ ~p.measured /\ bytes >= tuning.threshold =>
           p.time = Min({DirectEstimate(tuning, kind, bytes), PeerEstimate(tuning, kind, bytes),
                         HierarchicalEstimate(tuning, kind, bytes)})

(* A larger payload is never estimated to be faster, however it is cut into *)
(* channels and spread over rails.                                          *)
EstimatesGrow ==
  tuning # Nothing =>
    \A kind \in Kinds, a, b \in Payloads : a < b =>
      /\ PeerEstimate(tuning, kind, a) <= PeerEstimate(tuning, kind, b)
      /\ HierarchicalEstimate(tuning, kind, a) <= HierarchicalEstimate(tuning, kind, b)

(* Plans are the best of estimates that make sense.                         *)
PlansSound == PlanRuns /\ EstimatesGrow

(* A profile in use was measured on the hardware, rings, groups and         *)
(* transport of the tuning, whatever builder was called after it.           *)
ProfileFresh ==
  tuning # Nothing =>
    (tuning.profile # Nothing => ValidProfile(tuning, tuning.profile, TRUE))

(* The estimates of two tunings agree for every collective, payload and     *)
(* number of channels.                                                      *)
SameEstimates(u, v) ==
  \A kind \in Kinds, bytes \in Payloads, n \in 1 .. MaxRingChannels :
    LET a == [u EXCEPT !.channels = n]
        b == [v EXCEPT !.channels = n]
    IN /\ DirectEstimate(a, kind, bytes) = DirectEstimate(b, kind, bytes)
       /\ PeerEstimate(a, kind, bytes) = PeerEstimate(b, kind, bytes)
       /\ HierarchicalEstimate(a, kind, bytes) = HierarchicalEstimate(b, kind, bytes)

(* A stored profile whose fingerprint is the one of the tuning was measured *)
(* with a tuning that has the same estimates, on whatever topology and with *)
(* whatever calls that was before a restart.  A profile in use was measured *)
(* with the transport of the tuning, and with its estimates on its topology *)
(* or on one the probe cannot tell from it.  The number of channels is left *)
(* out on both sides: every measurement has its own.                        *)
FingerprintCoversEstimates ==
  tuning # Nothing /\ saved # Nothing =>
    /\ saved.fingerprint = Fingerprint(tuning) => SameEstimates(tuning, saved.tuned)
    /\ tuning.profile # Nothing =>
         /\ tuning.transport = tuning.profile.tuned.transport
         /\ \E t \in {tuning.topology, tuning.profile.tuned.topology} :
              /\ t = tuning.topology \/ ProbedTopologyMatches(tuning.topology, t)
              /\ SameEstimates([tuning EXCEPT !.topology = t], tuning.profile.tuned)
=============================================================================
