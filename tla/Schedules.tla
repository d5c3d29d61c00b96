----------------------------- MODULE Schedules -----------------------------
(***************************************************************************)
(* What one rank does in a peer-to-peer collective of the rank core        *)
(* (src/rank/device_collective/): the program of its threads, from the     *)
(* agreement of the ranks to the return of the call.                       *)
(*                                                                         *)
(* A program is a sequence of phases.  A phase is either the calling       *)
(* thread or a std::thread::scope with one thread for each channel, joined *)
(* at its end.  A thread is a sequence of instructions:                    *)
(*   send     read cells and send them to a peer on a rail;                *)
(*   receive  wait for the peer's message with this rail and tag, which    *)
(*            must hold as many elements as `cells' has, and copy it to    *)
(*            the cells, reduce it into them, or note it as a count;       *)
(*   move     copy cells to other cells of the same rank;                  *)
(*   layout   all_to_all_v_pairwise only: the counts are there, the rest   *)
(*            of the program is determined.                                *)
(* A cell is <<buffer, position>>.  `t' is the tuning of a rank: its rings, *)
(* its groups, its order of rails and the requested number of channels.    *)
(***************************************************************************)
EXTENDS Integers, Sequences, SequencesExt, Layout

CONSTANTS
  OperationTags,  \* operation numbers a ring tag tells apart (2^24 in the code)
  ChannelTags,    \* channel numbers a ring tag tells apart (2^8)
  StepTags        \* step numbers a ring tag tells apart (2^12)

ASSUME TagsAssumption ==
  /\ OperationTags \in Nat \ {0}
  /\ ChannelTags \in Nat \ {0}
  /\ StepTags \in Nat \ {0}

-----------------------------------------------------------------------------
(* Tags.  The hashes of the hierarchy tags are taken to have no collisions. *)

(* Mutant: the channel is not part of the tag.                              *)
RingDataTagNoChannel(operation, phase, channel, step) ==
  <<"ring", operation % OperationTags, phase % 16, 0, step % StepTags>>

RingDataTag(operation, phase, channel, step) ==
  <<"ring", operation % OperationTags, phase % 16, channel % ChannelTags, step % StepTags>>

HierarchyDataTag(operation, phase, index) == <<"hierarchy", operation, phase, index>>

HierarchyRingDataTag(operation, phase, channel, step) ==
  <<"hierarchy_ring", operation, phase, channel, step>>

-----------------------------------------------------------------------------
(* Instructions and phases.                                                 *)

Cells(buffer, start, length) == [i \in 1 .. length |-> <<buffer, start + i - 1>>]

Send(peer, rail, tag, cells) ==
  [do |-> "send", peer |-> peer, rail |-> rail, tag |-> tag, elt |-> "data", cells |-> cells]

Receive(peer, rail, tag, cells, mode) ==
  [do |-> "receive", peer |-> peer, rail |-> rail, tag |-> tag,
   elt |-> IF mode = "count" THEN "u8" ELSE "data", cells |-> cells, mode |-> mode]

Move(from, to) == [do |-> "move", from |-> from, cells |-> to]

(* exchange_ring_chunk_bytes and exchange_host_payload: send, then wait for *)
(* the message with the same tag.                                           *)
Exchange(to, from, rail, tag, out, in, mode) ==
  << Send(to, rail, tag, out), Receive(from, rail, tag, in, mode) >>

Main(instructions) == [scoped |-> FALSE, threads |-> <<instructions>>]
Scope(threads) == [scoped |-> TRUE, threads |-> threads]

-----------------------------------------------------------------------------
(* The tuning.                                                              *)

EffectiveRingChannels(requested, elements) == Min({requested, Max({elements, 1})})

RingOrderForChannel(t, channel) == t.rings[(channel % Len(t.rings)) + 1]

CollectiveRailForChannel(t, channel) == t.rails[(channel % Len(t.rails)) + 1]

(* session.send and session.receive choose the rail from the tag.           *)
RailOfTag(t, tag) == (tag[2] + tag[3] + tag[4]) % Len(t.rails)

RingPosition(ring, r) == (CHOOSE i \in 1 .. Len(ring) : ring[i] = r) - 1

At(ring, i) == ring[(i % Len(ring)) + 1]

(* Once around a ring: in each step a rank passes a chunk to the next rank  *)
(* and takes the chunk before it from the previous one.                     *)
Walk(ring, position, shift, chunks, rail, tags, mode) ==
  FlattenSeq([s \in 1 .. Len(ring) - 1 |->
    Exchange(At(ring, position + 1), At(ring, position - 1), rail, tags[s],
             At(chunks, position + shift - s + 1), At(chunks, position + shift - s), mode)])

-----------------------------------------------------------------------------
(* Rings.                                                                   *)

AllReduceRingChannel(t, r, operation, start, size, channel) ==
  LET ring == RingOrderForChannel(t, channel)
      position == RingPosition(ring, r)
      rail == CollectiveRailForChannel(t, channel)
      chunks == [i \in 1 .. Len(ring) |->
                   Cells("buffer", start + BalancedStart(size, Len(ring), ring[i]),
                         BalancedLength(size, Len(ring), ring[i]))]
      tags(phase) == [s \in 1 .. Len(ring) - 1 |-> RingDataTag(operation, phase, channel, s - 1)]
  IN Walk(ring, position, 0, chunks, rail, tags(0), "reduce")
     \o Walk(ring, position, 1, chunks, rail, tags(1), "copy")

AllReduceRing(t, r, operation, length) ==
  LET channels == EffectiveRingChannels(t.channels, length) IN
  << Scope([c \in 1 .. channels |->
       AllReduceRingChannel(t, r, operation, BalancedStart(length, channels, c - 1),
                            BalancedLength(length, channels, c - 1), c - 1)]) >>

AllGatherRingChannel(t, r, operation, input_length, start, size, channel) ==
  LET ring == RingOrderForChannel(t, channel)
      chunks == [i \in 1 .. Len(ring) |-> Cells("output", ring[i] * input_length + start, size)]
  IN Walk(ring, RingPosition(ring, r), 0, chunks, CollectiveRailForChannel(t, channel),
          [s \in 1 .. Len(ring) - 1 |-> RingDataTag(operation, 0, channel, s - 1)], "copy")

AllGatherRing(t, r, operation, length) ==
  LET channels == EffectiveRingChannels(t.channels, length) IN
  << Scope([c \in 1 .. channels |->
       AllGatherRingChannel(t, r, operation, length, BalancedStart(length, channels, c - 1),
                            BalancedLength(length, channels, c - 1), c - 1)]) >>

ReduceScatterRingChannel(t, r, operation, output_length, start, size, channel) ==
  LET ring == RingOrderForChannel(t, channel)
      chunks == [i \in 1 .. Len(ring) |-> Cells("working", ring[i] * output_length + start, size)]
  IN Walk(ring, RingPosition(ring, r), -1, chunks, CollectiveRailForChannel(t, channel),
          [s \in 1 .. Len(ring) - 1 |-> RingDataTag(operation, 0, channel, s - 1)], "reduce")
     \o << Move(Cells("working", r * output_length + start, size),
                Cells("output", start, size)) >>

ReduceScatterRing(t, r, operation, length) ==
  LET output_length == length \div Len(t.rings[1])
      channels == EffectiveRingChannels(t.channels, output_length)
  IN << Scope([c \in 1 .. channels |->
          ReduceScatterRingChannel(t, r, operation, output_length,
                                   BalancedStart(output_length, channels, c - 1),
                                   BalancedLength(output_length, channels, c - 1), c - 1)]) >>

-----------------------------------------------------------------------------
(* Pairwise exchanges: in step s with the ranks s before and s after on the *)
(* first ring.  What the threads of a step received is copied to the output *)
(* by the calling thread once they are joined.                              *)

(* One step: the channels exchange, then the calling thread copies.         *)
PairwiseStep(t, destination, source, tags, send_start, send_length, receive_start, receive_length) ==
  LET channels == Len(tags) IN
  << Scope([c \in 1 .. channels |->
       Exchange(destination, source, CollectiveRailForChannel(t, c - 1), tags[c],
                Cells("input", send_start + BalancedStart(send_length, channels, c - 1),
                      BalancedLength(send_length, channels, c - 1)),
                Cells("received", receive_start + BalancedStart(receive_length, channels, c - 1),
                      BalancedLength(receive_length, channels, c - 1)), "copy")]),
     Main(IF receive_length = 0 THEN <<>>
          ELSE << Move(Cells("received", receive_start, receive_length),
                       Cells("output", receive_start, receive_length)) >>) >>

AllToAllPairwise(t, r, operation, length) ==
  LET ring == t.rings[1]
      position == RingPosition(ring, r)
      shard == length \div Len(ring)
      channels == EffectiveRingChannels(t.channels, shard)
  IN FlattenSeq([s \in 1 .. Len(ring) - 1 |->
       LET destination == At(ring, position + s)
           source == At(ring, position - s)
       IN PairwiseStep(t, destination, source,
                       [c \in 1 .. channels |-> RingDataTag(operation, 0, c - 1, s)],
                       destination * shard, shard, source * shard, shard)])

(* The sum of the counts (a function on the ranks) before rank p.           *)
PrefixOffset(counts, p) ==
  LET upto[k \in 0 .. p] == IF k = 0 THEN 0 ELSE upto[k - 1] + counts[k - 1] IN upto[p]

(* The first part of all_to_all_v_pairwise: the ranks exchange counts.  The *)
(* count for rank d is in the cell <<"send_counts", d>>.                    *)
AllToAllVCounts(t, r, operation) ==
  LET ring == t.rings[1]
      position == RingPosition(ring, r)
      rail == CollectiveRailForChannel(t, 0)
  IN << Main(FlattenSeq([s \in 1 .. Len(ring) - 1 |->
          LET destination == At(ring, position + s)
              source == At(ring, position - s)
              tag == RingDataTag(operation, 0, 0, s)
          IN << [Send(destination, rail, tag, Cells("send_counts", destination, 1))
                   EXCEPT !.elt = "u8"],
                Receive(source, rail, tag, Cells("receive_counts", source, 1), "count") >>])
        \o << [do |-> "layout", cells |-> <<>>] >>) >>

(* The second part: the data, laid out by the counts sent and received.     *)
AllToAllVData(t, r, operation, send_counts, receive_counts) ==
  LET ring == t.rings[1]
      position == RingPosition(ring, r)
  IN << Main(IF send_counts[r] = 0 THEN <<>> ELSE
             << Move(Cells("input", PrefixOffset(send_counts, r), send_counts[r]),
                     Cells("output", PrefixOffset(receive_counts, r), send_counts[r])) >>) >>
     \o FlattenSeq([s \in 1 .. Len(ring) - 1 |->
          LET destination == At(ring, position + s)
              source == At(ring, position - s)
          IN PairwiseStep(t, destination, source,
                          [c \in 1 .. Max({t.channels, 1}) |-> RingDataTag(operation, 1, c - 1, s)],
                          PrefixOffset(send_counts, destination), send_counts[destination],
                          PrefixOffset(receive_counts, source), receive_counts[source])])
=============================================================================
