---------------------------- MODULE Hierarchical ----------------------------
(***************************************************************************)
(* The hierarchical collectives (src/rank/device_collective/hierarchical): *)
(* the members of a group send to its first rank, the leader; the leaders  *)
(* run a ring of their own, in which a chunk is named by its position; and *)
(* each leader sends the result to its members.                            *)
(***************************************************************************)
EXTENDS Schedules

(* hierarchy_membership: the group of a rank, as an index of t.groups.      *)
GroupOf(t, r) == CHOOSE g \in 1 .. Len(t.groups) : \E i \in 1 .. Len(t.groups[g]) : t.groups[g][i] = r

Leaders(t) == [g \in 1 .. Len(t.groups) |-> t.groups[g][1]]

Members(t, r) == Tail(t.groups[GroupOf(t, r)])

IsLeader(t, r) == r = t.groups[GroupOf(t, r)][1]

SendValues(t, peer, tag, cells) == Send(peer, RailOfTag(t, tag), tag, cells)

ReceiveValues(t, peer, tag, cells, mode) == Receive(peer, RailOfTag(t, tag), tag, cells, mode)

(* What a member does: all it has to the leader, the result from it.        *)
MemberProgram(t, r, up, down, sent, received) ==
  LET leader == t.groups[GroupOf(t, r)][1] IN
  << Main(<< SendValues(t, leader, up, sent), ReceiveValues(t, leader, down, received, "copy") >>) >>

-----------------------------------------------------------------------------
(* The tags of the steps of the ring of the leaders.                        *)
LeaderTags(t, operation, phase, channel) ==
  [s \in 1 .. Len(t.groups) - 1 |-> HierarchyRingDataTag(operation, phase, channel, s - 1)]

LeaderAllReduceRingChannel(t, r, operation, start, size, channel) ==
  LET leaders == Leaders(t)
      position == GroupOf(t, r) - 1
      rail == CollectiveRailForChannel(t, channel)
      chunks == [i \in 1 .. Len(leaders) |->
                   Cells("buffer", start + BalancedStart(size, Len(leaders), i - 1),
                         BalancedLength(size, Len(leaders), i - 1))]
  IN Walk(leaders, position, 0, chunks, rail, LeaderTags(t, operation, 1, channel), "reduce")
     \o Walk(leaders, position, 1, chunks, rail, LeaderTags(t, operation, 2, channel), "copy")

LeaderAllReduceRing(t, r, operation, length) ==
  LET channels == EffectiveRingChannels(t.channels, length) IN
  Scope([c \in 1 .. channels |->
    LeaderAllReduceRingChannel(t, r, operation, BalancedStart(length, channels, c - 1),
                               BalancedLength(length, channels, c - 1), c - 1)])

AllReduceHierarchical(t, r, operation, length) ==
  LET buffer == Cells("buffer", 0, length)
      members == Members(t, r)
  IN IF ~IsLeader(t, r)
     THEN MemberProgram(t, r, HierarchyDataTag(operation, 0, r), HierarchyDataTag(operation, 3, r),
                        buffer, buffer)
     ELSE << Main([m \in 1 .. Len(members) |->
               ReceiveValues(t, members[m], HierarchyDataTag(operation, 0, members[m]),
                             buffer, "reduce")]),
             LeaderAllReduceRing(t, r, operation, length),
             Main(<< Move(buffer, Cells("host", 0, length)) >>
                  \o [m \in 1 .. Len(members) |->
                       SendValues(t, members[m], HierarchyDataTag(operation, 3, members[m]),
                                  Cells("host", 0, length))]) >>

-----------------------------------------------------------------------------
(* The bundles of the groups lie one after the other.                       *)
BundleLength(t, g, input_length) == Len(t.groups[g]) * input_length

BundleStart(t, g, input_length) ==
  PrefixOffset([h \in 0 .. Len(t.groups) - 1 |-> BundleLength(t, h + 1, input_length)], g - 1)

(* The part of the bundle of group g that a channel carries.                *)
GroupPiece(t, buffer, g, input_length, channels, channel) ==
  Cells(buffer, BundleStart(t, g, input_length)
                  + BalancedStart(BundleLength(t, g, input_length), channels, channel),
        BalancedLength(BundleLength(t, g, input_length), channels, channel))

LeaderAllGatherRingChannel(t, r, input_length, operation, channel, channels) ==
  Walk(Leaders(t), GroupOf(t, r) - 1, 0,
       [g \in 1 .. Len(t.groups) |-> GroupPiece(t, "bundle", g, input_length, channels, channel)],
       CollectiveRailForChannel(t, channel), LeaderTags(t, operation, 5, channel), "copy")

LeaderAllGatherRing(t, r, input_length, operation) ==
  LET channels == EffectiveRingChannels(t.channels, input_length) IN
  Scope([c \in 1 .. channels |->
    LeaderAllGatherRingChannel(t, r, input_length, operation, c - 1, channels)])

(* The position of the m-th member of group g in the bundles.               *)
MemberCells(t, buffer, g, m, input_length) ==
  Cells(buffer, BundleStart(t, g, input_length) + (m - 1) * input_length, input_length)

(* The bundles, group by group, and the places of their members by rank.    *)
Packed(t, buffer, input_length) ==
  FlattenSeq([g \in 1 .. Len(t.groups) |->
    FlattenSeq([m \in 1 .. Len(t.groups[g]) |-> MemberCells(t, buffer, g, m, input_length)])])

ByRankOf(t, buffer, input_length) ==
  FlattenSeq([g \in 1 .. Len(t.groups) |->
    FlattenSeq([m \in 1 .. Len(t.groups[g]) |->
      Cells(buffer, t.groups[g][m] * input_length, input_length)])])

(* "bundle" and "host" are buffers of the host, "output" is on the device.  *)
AllGatherHierarchical(t, r, operation, world_size, length) ==
  LET g == GroupOf(t, r)
      group == t.groups[g]
      members == Members(t, r)
      output == Cells("output", 0, world_size * length)
      host == Cells("host", 0, world_size * length)
  IN IF ~IsLeader(t, r)
     THEN MemberProgram(t, r, HierarchyDataTag(operation, 4, r), HierarchyDataTag(operation, 6, r),
                        Cells("input", 0, length), output)
     ELSE << Main([m \in 1 .. Len(group) |->
               IF m = 1 THEN Move(Cells("input", 0, length), MemberCells(t, "bundle", g, 1, length))
               ELSE ReceiveValues(t, group[m], HierarchyDataTag(operation, 4, group[m]),
                                  MemberCells(t, "bundle", g, m, length), "copy")]),
             LeaderAllGatherRing(t, r, length, operation),
             Main(<< Move(Packed(t, "bundle", length), ByRankOf(t, "host", length)) >>
                  \o [m \in 1 .. Len(members) |->
                       SendValues(t, members[m], HierarchyDataTag(operation, 6, members[m]), host)]
                  \o << Move(host, output) >>) >>

-----------------------------------------------------------------------------
LeaderReduceScatterRingChannel(t, r, operation, output_length, channel, channels) ==
  Walk(Leaders(t), GroupOf(t, r) - 1, -1,
       [g \in 1 .. Len(t.groups) |-> GroupPiece(t, "packed", g, output_length, channels, channel)],
       CollectiveRailForChannel(t, channel), LeaderTags(t, operation, 8, channel), "reduce")

LeaderReduceScatterRing(t, r, operation, output_length) ==
  LET minimum_range == Min({BundleLength(t, g, output_length) : g \in 1 .. Len(t.groups)})
      channels == EffectiveRingChannels(t.channels, minimum_range)
  IN Scope([c \in 1 .. channels |->
       LeaderReduceScatterRingChannel(t, r, operation, output_length, c - 1, channels)])

(* The leader's part, up to the ring of the leaders.                        *)
ReduceScatterGather(t, r, operation, output_length, length) ==
  LET members == Members(t, r) IN
  Main(<< Move(Cells("input", 0, length), Cells("working", 0, length)) >>
       \o [m \in 1 .. Len(members) |->
            ReceiveValues(t, members[m], HierarchyDataTag(operation, 7, members[m]),
                          Cells("working", 0, length), "reduce")]
       \o << Move(ByRankOf(t, "working", output_length), Packed(t, "packed", output_length)) >>)

(* ... and after it.                                                        *)
ReduceScatterSpread(t, r, operation, output_length) ==
  LET g == GroupOf(t, r)
      group == t.groups[g]
      bundle == BundleLength(t, g, output_length)
  IN Main(<< Move(Cells("packed", BundleStart(t, g, output_length), bundle),
                  Cells("host", 0, bundle)) >>
          \o [m \in 1 .. Len(group) - 1 |->
               SendValues(t, group[m + 1], HierarchyDataTag(operation, 9, group[m + 1]),
                          Cells("host", m * output_length, output_length))]
          \o << Move(Cells("host", 0, output_length), Cells("output", 0, output_length)) >>)

ReduceScatterHierarchical(t, r, operation, world_size, length) ==
  LET output_length == length \div world_size IN
  IF ~IsLeader(t, r)
  THEN MemberProgram(t, r, HierarchyDataTag(operation, 7, r), HierarchyDataTag(operation, 9, r),
                     Cells("input", 0, length), Cells("output", 0, output_length))
  ELSE << ReduceScatterGather(t, r, operation, output_length, length),
          LeaderReduceScatterRing(t, r, operation, output_length),
          ReduceScatterSpread(t, r, operation, output_length) >>
=============================================================================
