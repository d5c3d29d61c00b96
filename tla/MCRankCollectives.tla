------------------------- MODULE MCRankCollectives -------------------------
(* The jobs that TLC runs the collectives of the rank core on.              *)
EXTENDS RankCollectives, TLC

Tuning(rings, rails, groups, channels, policy) ==
  [rings |-> rings, rails |-> rails, groups |-> groups, channels |-> channels,
   policy |-> policy, threshold |-> 3, estimated |-> "Ring"]

Same(kind, length) == [kind |-> kind, length |-> length, reduction |-> "Sum", counts |-> <<>>]

Counts(counts) ==
  [kind |-> "AllToAllV", reduction |-> "None",
   length |-> PrefixOffset(counts, Cardinality(DOMAIN counts)), counts |-> counts]

Spmd(world, tuning, calls, limit) ==
  [world |-> world, faults |-> limit, tuning |-> tuning, same |-> TRUE,
   calls |-> [r \in 0 .. world - 1 |-> calls]]

Ring3 == <<0, 2, 1>>

(* Two channels on one rail; the tags of the two operations are the same.   *)
RingReduce == Spmd(3, Tuning(<<Ring3>>, <<0>>, <<>>, 2, "Ring"),
                   <<Same("AllReduce", 4), Same("AllReduce", 2)>>, 0)

(* Two rings and two rails in the order the topology prefers.               *)
RingScatter == Spmd(3, Tuning(<<Ring3, <<0, 1, 2>> >>, <<1, 0>>, <<>>, 2, "Ring"),
                    <<Same("ReduceScatter", 6), Same("AllGather", 1)>>, 0)

RingGather == Spmd(3, Tuning(<<Ring3, <<0, 1, 2>> >>, <<1, 0>>, <<>>, 2, "Ring"),
                    <<Same("AllGather", 3)>>, 0)

Pairs == Spmd(3, Tuning(<<Ring3>>, <<0>>, <<>>, 2, "Ring"), <<Same("AllToAll", 6)>>, 0)

PairsV ==
  [world |-> 2, faults |-> 1, tuning |-> Tuning(<< <<1, 0>> >>, <<0>>, <<>>, 2, "Ring"), same |-> TRUE,
   calls |-> (0 :> << Counts(0 :> 1 @@ 1 :> 3), Counts(0 :> 0 @@ 1 :> 0) >>)
          @@ (1 :> << Counts(0 :> 2 @@ 1 :> 0), Counts(0 :> 1 @@ 1 :> 1) >>)]

(* The same with a failure, on two ranks.                                   *)
RingTwo == Spmd(2, Tuning(<< <<1, 0>> >>, <<0>>, <<>>, 2, "Ring"),
                <<Same("AllReduce", 3), Same("ReduceScatter", 4), Same("ReduceScatter", 4)>>, 1)
PairsTwo == Spmd(2, Tuning(<< <<0, 1>> >>, <<0>>, <<>>, 2, "Ring"),
                 <<Same("AllToAll", 4), Same("AllToAll", 4)>>, 1)

Groups4 == << <<2, 0>>, <<1>>, <<3>> >>
Groups3 == << <<2, 1>>, <<0>> >>

GroupsReduce == Spmd(4, Tuning(<< <<0, 1, 2, 3>> >>, <<0>>, Groups4, 2, "Hierarchical"),
                     <<Same("AllReduce", 4)>>, 0)
GroupsReduceFault == Spmd(3, Tuning(<<Ring3>>, <<0, 1>>, Groups3, 1, "Hierarchical"),
                          <<Same("AllReduce", 3), Same("AllReduce", 2)>>, 1)
GroupsGather == Spmd(3, Tuning(<<Ring3>>, <<0, 1>>, Groups3, 2, "Hierarchical"),
                     <<Same("AllGather", 3)>>, 1)
GroupsScatter == Spmd(3, Tuning(<<Ring3>>, <<0, 1>>, Groups3, 2, "Hierarchical"),
                      <<Same("ReduceScatter", 6)>>, 1)

(* A small and a large call: the first is direct.                           *)
Mixed == Spmd(2, Tuning(<< <<0, 1>> >>, <<0>>, <<>>, 2, "Auto"),
              <<Same("AllReduce", 2), Same("AllReduce", 3), Same("AllGather", 3)>>, 1)

(* The ranks call with different lengths.                                   *)
Differ ==
  [Mixed EXCEPT !.same = FALSE,
                !.calls = (0 :> <<Same("AllReduce", 3)>>) @@ (1 :> <<Same("AllReduce", 4)>>)]

AllJobs == {RingReduce, RingScatter, RingGather, RingTwo, Pairs, PairsTwo, PairsV, GroupsReduce,
            GroupsReduceFault, GroupsGather, GroupsScatter, Mixed, Differ}

(* Every rank sends its own number of elements, under the default policy:   *)
(* rank 0 is below the threshold of the ring, rank 1 above it.              *)
UnevenV ==
  [world |-> 2, faults |-> 0, same |-> TRUE,
   tuning |-> [Tuning(<< <<0, 1>> >>, <<0>>, <<>>, 1, "Auto") EXCEPT !.estimated = "Pairwise"],
   calls |-> (0 :> << Counts(0 :> 1 @@ 1 :> 1) >>) @@ (1 :> << Counts(0 :> 2 @@ 1 :> 2) >>)]

UnevenJobs == {UnevenV}
=============================================================================
