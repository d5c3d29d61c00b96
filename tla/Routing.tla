------------------------------ MODULE Routing ------------------------------
(***************************************************************************)
(* How the coordinator of the rank core turns one request of every rank    *)
(* into one response for every rank (validate_and_route and the functions  *)
(* it calls in src/rank/network.rs).  A payload is a sequence of elements; *)
(* the bytes of an element are not modelled, nor are overflows of sizes,   *)
(* which the code rejects.                                                 *)
(***************************************************************************)
EXTENDS Integers, Sequences, FiniteSets, SequencesExt

CONSTANTS
  WorldSize,       \* number of ranks
  ElementCounts,   \* element counts of the fixed-size collectives
  ShardCounts      \* counts of an all-to-all-v for one destination

ASSUME WorldSizeAssumption == WorldSize \in Nat \ {0}
ASSUME CountsAssumption == ElementCounts \subseteq Nat /\ ShardCounts \subseteq Nat

Ranks == 0 .. WorldSize - 1
AnyRank == -1        \* ANY_RANK

Gathering == {"AllGather", "AllReduce", "Gather", "Reduce"}
Sharding == {"ReduceScatter", "AllToAll"}
Rooted == {"Broadcast", "Scatter", "Gather", "Reduce"}
Control == {"Barrier", "SetTimeout"}
Opcodes == Gathering \cup Sharding \cup Rooted \cup Control \cup {"AllToAllV"}

(* What FrameHeader::validate accepts of a frame.  `counts' is the prefix   *)
(* of an all-to-all-v payload and `payload' what follows it.                *)
ValidFrame(f) ==
  /\ f.root \in Ranks \cup {AnyRank}
  /\ f.prefix => f.op = "AllToAllV"
  /\ f.elt = "None" => f.count = 0 /\ f.payload = <<>> /\ f.counts = <<>>
  /\ f.payload # <<>> => f.count = Len(f.payload)
  /\ f.prefix /\ f.counts # <<>> => f.count = Len(f.payload)
  /\ f.counts # <<>> => f.prefix /\ Len(f.counts) = WorldSize

(* Mutant: the element type and the count are not part of the descriptor.   *)
DescriptorNoCount(f) ==
  [op |-> f.op, elt |-> "None", root |-> f.root, count |-> 0, layout_hash |-> f.tag]

(* The descriptor on which all ranks must agree; the counts of an           *)
(* all-to-all-v may differ.                                                 *)
OperationDescriptor(f) ==
  [op |-> f.op, elt |-> f.elt, root |-> f.root,
   count |-> IF f.op = "AllToAllV" THEN 0 ELSE f.count,
   layout_hash |-> IF f.op = "AllToAllV" THEN 0 ELSE f.tag]

(* CollectiveAgreement::submit, called for each rank in turn, compares the  *)
(* descriptor with the one submitted first.                                 *)
AgreeAll(requests) ==
  \A r \in Ranks : OperationDescriptor(requests[r]) = OperationDescriptor(requests[0])

RankPayloadLength(f) == IF f.elt = "None" THEN 0 ELSE f.count

(* The sum of the first n counts.                                           *)
Total(counts, n) ==
  LET upto[k \in 0 .. n] == IF k = 0 THEN 0 ELSE upto[k - 1] + counts[k] IN upto[n]

(* What a rank sends to the ranks before d.                                 *)
SentBefore(f, d) == Total(f.counts, d)

CountsDecode(f) ==
  /\ f.prefix
  /\ Len(f.counts) = WorldSize
  /\ SentBefore(f, WorldSize) = f.count
  /\ Len(f.payload) = f.count

RequireAllPayloads(requests) ==
  \A r \in Ranks : Len(requests[r].payload) = RankPayloadLength(requests[0])

RequireOnlyRootPayload(requests, root) ==
  \A r \in Ranks :
    Len(requests[r].payload) = IF r = root THEN RankPayloadLength(requests[0]) ELSE 0

(* The checks made after the ranks agreed.                                  *)
Routable(requests) ==
  LET first == requests[0] IN
  /\ first.op \in Opcodes
  /\ first.op \in Control => \A r \in Ranks : requests[r].payload = <<>>
  /\ first.op = "SetTimeout" => first.elt = "None" /\ first.root = AnyRank /\ first.tag # 0
  /\ first.op \in Rooted => first.root \in Ranks
  /\ first.op \in {"Broadcast", "Scatter"} => RequireOnlyRootPayload(requests, first.root)
  /\ first.op \in Gathering \cup Sharding => RequireAllPayloads(requests)
  /\ first.op \in Sharding \cup {"Scatter"} => first.count % WorldSize = 0
  /\ first.op = "AllToAllV" =>
       first.elt # "None" /\ \A r \in Ranks : CountsDecode(requests[r])

(* Mutant: the parts are appended from the last rank down.                  *)
FromLastRank(parts) == FlattenSeq([i \in 1 .. WorldSize |-> parts[WorldSize - i]])

(* Concatenates one payload per rank, in the order of the ranks.            *)
ByRank(parts) == FlattenSeq([i \in 1 .. WorldSize |-> parts[i - 1]])

(* Mutant: shards are addressed from the end.                               *)
SliceFromEnd(payload, start, length) ==
  SubSeq(payload, Len(payload) - start - length + 1, Len(payload) - start)

Slice(payload, start, length) == SubSeq(payload, start + 1, start + length)

ConcatenatePayloads(requests) == ByRank([r \in Ranks |-> requests[r].payload])

(* The payload sent back to rank d.                                         *)
ResponsePayload(requests, d) ==
  LET first == requests[0]
      shard == first.count \div WorldSize
  IN CASE first.op \in Control -> <<>>
       [] first.op = "Broadcast" -> requests[first.root].payload
       [] first.op \in {"AllGather", "AllReduce"} -> ConcatenatePayloads(requests)
       [] first.op \in {"Gather", "Reduce"} ->
            IF d = first.root THEN ConcatenatePayloads(requests) ELSE <<>>
       [] first.op = "Scatter" -> Slice(requests[first.root].payload, d * shard, shard)
       [] first.op \in Sharding ->
            ByRank([s \in Ranks |-> Slice(requests[s].payload, d * shard, shard)])
       [] first.op = "AllToAllV" ->
            ByRank([s \in Ranks |-> Slice(requests[s].payload, SentBefore(requests[s], d),
                                          requests[s].counts[d + 1])])

(* Mutant: the header of a gathered payload keeps the count of one rank.    *)
ResponseCountOfOne(requests, d) == requests[0].count

(* The element count of the header of the response.                         *)
ResponseCount(requests, d) ==
  LET first == requests[0] IN
  CASE first.op \in Control -> 0
    [] first.op = "Broadcast" -> first.count
    [] first.op \in {"AllGather", "AllReduce"} -> first.count * WorldSize
    [] first.op \in {"Gather", "Reduce"} ->
         IF d = first.root THEN first.count * WorldSize ELSE 0
    [] first.op = "Scatter" -> first.count \div WorldSize
    [] first.op \in Sharding -> (first.count \div WorldSize) * WorldSize
    [] first.op = "AllToAllV" ->
         Total([i \in 1 .. WorldSize |-> requests[i - 1].counts[d + 1]], WorldSize)

Carries(requests, d) ==
  requests[0].op \in {"Gather", "Reduce"} => d = requests[0].root

Response(requests, d) ==
  [op |-> requests[0].op,
   elt |-> IF requests[0].op \in Control \/ ~Carries(requests, d)
           THEN "None" ELSE requests[0].elt,
   root |-> AnyRank, tag |-> 0,
   count |-> ResponseCount(requests, d),
   prefix |-> requests[0].op = "AllToAllV",
   counts |-> IF requests[0].op = "AllToAllV"
              THEN [i \in 1 .. WorldSize |-> requests[i - 1].counts[d + 1]]
              ELSE <<>>,
   payload |-> ResponsePayload(requests, d)]

(* validate_and_route succeeds.                                             *)
Accepted(requests) == AgreeAll(requests) /\ Routable(requests)

Responses(requests) == [d \in Ranks |-> Response(requests, d)]

-----------------------------------------------------------------------------
(* A reference definition: which ranks element i of rank s is meant for.    *)
Receivers(requests, s, i) ==
  LET first == requests[0]
      shard == first.count \div WorldSize
  IN CASE first.op \in {"AllGather", "AllReduce"} -> Ranks
       [] first.op \in {"Gather", "Reduce"} -> {first.root}
       [] first.op = "Broadcast" -> IF s = first.root THEN Ranks ELSE {}
       [] first.op = "Scatter" -> IF s = first.root THEN {(i - 1) \div shard} ELSE {}
       [] first.op \in Sharding -> {(i - 1) \div shard}
       [] first.op = "AllToAllV" ->
            {d \in Ranks : Cardinality({j \in 1 .. WorldSize :
                              i > SentBefore(requests[s], j)}) = d}
       [] OTHER -> {}

Before(a, b) == a[1] < b[1] \/ (a[1] = b[1] /\ a[2] < b[2])

(* The elements meant for d.                                                *)
MeantFor(requests, d) ==
  {e \in UNION {{s} \X DOMAIN requests[s].payload : s \in Ranks} :
     d \in Receivers(requests, e[1], e[2])}

(* The list of the elements of S, by sender and position.                   *)
Lists(seq, S) ==
  /\ {seq[i] : i \in DOMAIN seq} = S
  /\ \A i, j \in DOMAIN seq : i < j => Before(seq[i], seq[j])

-----------------------------------------------------------------------------
(* Element i of the payload of rank r.                                      *)
Labelled(r, length) == [i \in 1 .. length |-> <<r, i>>]

(* What the header of a request of fixed size says.                         *)
Headers == [op : Opcodes, elt : {"None", "U8"}, root : Ranks \cup {AnyRank}, tag : 0 .. 1,
            count : ElementCounts]

(* Every rank passes the same header; `full' have the payload it announces. *)
FixedRound(h, full) ==
  [r \in Ranks |-> [op |-> h.op, elt |-> h.elt, root |-> h.root, tag |-> h.tag, count |-> h.count,
                    prefix |-> FALSE, counts |-> <<>>,
                    payload |-> IF r \in full THEN Labelled(r, h.count) ELSE <<>>]]

FixedRequests == {FixedRound(h, full) : h \in Headers, full \in SUBSET Ranks}

VariableRequests ==
  {[r \in Ranks |-> [op |-> "AllToAllV", elt |-> "U8", root |-> AnyRank, tag |-> 0,
                     count |-> Total(rows[r], WorldSize), prefix |-> TRUE, counts |-> rows[r],
                     payload |-> Labelled(r, Total(rows[r], WorldSize))]] :
     rows \in [Ranks -> [1 .. WorldSize -> ShardCounts]]}

(* The rounds whose frames pass their validation when they are read.        *)
Rounds ==
  {round \in FixedRequests \cup VariableRequests :
     \A r \in Ranks : ValidFrame(round[r])}

(* The header built for a response passes the validation in Frame::new, so  *)
(* a round that was accepted is never aborted while it is answered.         *)
ResponseValid(response) ==
  /\ ValidFrame(response)
  /\ response.elt # "None" => response.count = Len(response.payload)

(* A second all-to-all-v with the counts and the data of the responses      *)
(* brings every element back to its sender: the receive counts that         *)
(* route_all_to_all_v puts before the data describe it exactly.             *)
SecondExchangeReturns(round, outcome) ==
  /\ Accepted(outcome)
  /\ \A r \in Ranks : /\ Responses(outcome)[r].payload = round[r].payload
                      /\ Responses(outcome)[r].counts = round[r].counts
=============================================================================
