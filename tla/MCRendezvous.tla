---------------------------- MODULE MCRendezvous ----------------------------
(* Programs of the ranks for the run of Rendezvous.                         *)
EXTENDS Rendezvous

(* A request whose payload has the announced length.                        *)
Request(op, root, count, tag, payload) ==
  [op |-> op, elt |-> IF count = 0 THEN "None" ELSE "U8", root |-> root, count |-> count,
   tag |-> tag, prefix |-> FALSE, counts |-> <<>>, payload |-> payload]

BarrierRequest == Request("Barrier", AnyRank, 0, 0, <<>>)
TimeoutRequest == Request("SetTimeout", AnyRank, 0, 1, <<>>)
Elements(r, n, count) == [i \in 1 .. count |-> <<r, n>>]
GatherRequest(r, n, count) == Request("AllGather", AnyRank, count, 0, Elements(r, n, count))
BroadcastRequest(r, n, count) ==
  Request("Broadcast", 0, count, 0, IF r = 0 THEN Elements(r, n, count) ELSE <<>>)

(* Different operations and counts, and one whose count cannot be divided   *)
(* among the ranks, which is refused after they agreed.                     *)
MixedRequests(r, n) ==
  {BroadcastRequest(r, n, 1)} \cup
  (IF n = 1 THEN {Request("AllToAll", AnyRank, 1, 0, Elements(r, n, 1))} ELSE {}) \cup
  (IF n = 2 /\ r = 1 THEN {BroadcastRequest(r, n, 2)} ELSE {})

(* All ranks run the same program.  With Retry = TRUE, three calls and one  *)
(* timeout it violates ReadyMeansSame, see the README.                      *)
SpmdRequests(r, n) ==
  CASE n = 1 -> {GatherRequest(r, n, 1)}
    [] n = 2 -> {TimeoutRequest}
    [] OTHER -> {BarrierRequest}

=============================================================================
