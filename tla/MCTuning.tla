------------------------------ MODULE MCTuning ------------------------------
(***************************************************************************)
(* Scenarios for the planner.                                              *)
(***************************************************************************)
EXTENDS Tuning

Cost(bandwidth, latency) == [bandwidth |-> bandwidth, latency |-> latency]
Fast == Cost(1000, 1)
Slow == Cost(250, 4)
Wide == Cost(500, 2)

Complete(world, cost(_, _)) ==
  [Empty(world) EXCEPT !.links =
     [p \in {p \in (0 .. world - 1) \X (0 .. world - 1) : p[1] # p[2]} |->
        cost(Min({p[1], p[2]}), Max({p[1], p[2]}))]]

Base ==
  [start |-> Empty(3), costs |-> {}, railCosts |-> {}, aggregates |-> {}, maxLinks |-> 0,
   maxBuilders |-> 0, policies |-> {"Auto"}, orders |-> {<<>>}, threshold |-> 2,
   bandwidth |-> 500, latency |-> 2, directs |-> {}, transports |-> {}, groups |-> {},
   railOrders |-> {}, entries |-> {}, versions |-> {Current}, environment |-> FALSE]

(* Every topology of four ranks with two kinds of links.                    *)
Links4 == [Base EXCEPT !.start = Empty(4), !.costs = {Fast, Slow}, !.maxLinks = 6]

(* Five ranks, too many for the search of all rings: any two links change.  *)
Links5 == [Base EXCEPT !.start = [Empty(5) EXCEPT !.links =
               [p \in {<<a, b>> \in (0 .. 4) \X (0 .. 4) : a # b /\ {a, b} # {1, 3}} |-> Wide]],
             !.costs = {Fast, Slow}, !.maxLinks = 2]

(* Six ranks of which two are near: more groups than cycles are searched.   *)
Ring6 == [Empty(6) EXCEPT !.links =
            [p \in {<<a, b>> \in (0 .. 5) \X (0 .. 5) : (a - b) % 6 \in {1, 5}} |->
               IF p \in {<<0, 1>>, <<1, 0>>} THEN Fast ELSE IF 3 \in {p[1], p[2]} THEN Slow ELSE Wide]]
Links6 == [Base EXCEPT !.start = Ring6, !.maxBuilders = 2]

(* Three ranks, rails with links of their own, shared links: any three      *)
(* builder calls.                                                           *)
Uniform3 == Complete(3, LAMBDA a, b : Wide)
Rails3 == [Base EXCEPT !.start = Uniform3, !.railCosts = {Fast, Slow}, !.aggregates = {250},
             !.maxLinks = 2, !.maxBuilders = 4, !.orders = {<<>>}, !.railOrders = {<<1, 0>>}]

(* Two fast pairs and groups; three ranks with every policy and an order.   *)
TwoPairs == Complete(4, LAMBDA a, b : IF {a, b} \in {{0, 1}, {2, 3}} THEN Fast ELSE Slow)
Groups4 == [Base EXCEPT !.start = TwoPairs, !.costs = {Wide}, !.maxLinks = 1, !.maxBuilders = 2,
              !.policies = {"Auto", "Hierarchical"},
              !.groups = {<< <<0, 1>>, <<2, 3>> >>, << <<1>>, <<3, 0, 2>> >>, << <<0, 1>>, <<1, 2, 3>> >>}]
OnePair == Complete(3, LAMBDA a, b : IF {a, b} = {0, 1} THEN Fast ELSE Slow)
Policies3 == [Base EXCEPT !.start = OnePair, !.maxBuilders = 3, !.orders = {<<>>, <<0, 2, 1>>, <<2, 2, 1>>},
                !.policies = {"Auto", "Direct", "Ring", "Hierarchical"},
                !.groups = {<< <<0, 1>>, <<2>> >>}, !.directs = {Cost(100, 9), Cost(0, 9)}]

(* A profile is stored, the program starts again on a changed topology,     *)
(* loads the profile and is changed.                                        *)
Measured == { << [kind |-> "AllReduce", from |-> 1, to |-> 4, algorithm |-> "Hierarchical", channels |-> 1, time |-> 5] >>,
              << [kind |-> "AllToAll", from |-> 1, to |-> 4, algorithm |-> "Pairwise", channels |-> 2, time |-> 5],
                 [kind |-> "AllToAll", from |-> 4, to |-> 8, algorithm |-> "Direct", channels |-> 1, time |-> 7] >> }
Profiles == [Base EXCEPT !.start = OnePair, !.costs = {Wide}, !.maxLinks = 1, !.maxBuilders = 3,
               !.transports = {"TcpPeer"}, !.entries = Measured,
               !.groups = {<< <<0, 1>>, <<2>> >>}]

(* The same with tunings from the environment.                              *)
Environments == [Profiles EXCEPT !.maxBuilders = 2, !.environment = TRUE]

(* The same with rails of different speeds, in an order that is given or    *)
(* not, and with a profile of another version.                              *)
SlowRail == [Uniform3 EXCEPT !.rails = <<[p \in DOMAIN Uniform3.links |-> Slow],
                                         [p \in DOMAIN Uniform3.links |-> Fast]>>]
RailProfiles == [Base EXCEPT !.start = SlowRail, !.maxBuilders = 4, !.railOrders = {<<1, 0>>},
                   !.entries = {<< [kind |-> "AllGather", from |-> 1, to |-> 4, algorithm |-> "Ring", channels |-> 2, time |-> 5] >>},
                   !.versions = {Current, [Current EXCEPT !.profile = 1], [Current EXCEPT !.execution = 5]}]

AllScenarios == {Links4, Links5, Links6, Rails3, Groups4, Policies3, Profiles, Environments, RailProfiles}
=============================================================================
