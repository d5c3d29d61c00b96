---------------------------- MODULE MCPeerMesh ----------------------------
(***************************************************************************)
(* Programs for the peer mesh.                                             *)
(***************************************************************************)
EXTENDS PeerMesh

S(peer, tag, body) == [do |-> "send", peer |-> peer, tag |-> tag, body |-> body]
R(peer, tag) == [do |-> "receive", peer |-> peer, tag |-> tag, refuses |-> {}]
Strict(peer, tag, bodies) == [R(peer, tag) EXCEPT !.refuses = bodies]
Me(tag, body) == [do |-> "self", tag |-> tag, body |-> body]

Case(ready, world, rails, threads, script, n) ==
  [ready |-> ready, world |-> world, rails |-> rails, threads |-> threads, script |-> script,
   faults |-> n]

(* Setup of three ranks, and of two ranks on two rails, with a fault.       *)
Quiet(world) == [x \in (0 .. world - 1) \X {1} |-> <<>>]
SetupThree == Case(FALSE, 3, 1, 1, Quiet(3), 0)
SetupRails == Case(FALSE, 2, 2, 1, Quiet(2), 1)

(* Two channel threads of two ranks exchange, a thread per rail; then one   *)
(* thread of each, twice, with a fault.                                     *)
Swap(r, t) == <<S(1 - r, 1, <<r, t, 1>>), R(1 - r, 1)>>
Again(r) == Swap(r, 1) \o <<S(1 - r, 1, <<r, 1, 2>>), R(1 - r, 1)>>
Channels == Case(TRUE, 2, 2, 2, [x \in {0, 1} \X {1, 2} |-> Swap(x[1], x[2])], 0)
Exchanges == Case(TRUE, 2, 1, 1, [x \in {0, 1} \X {1} |-> Again(x[1])], 1)

(* A rank sends to itself and to another, which takes from any source, out  *)
(* of the order of the tags.                                                *)
Tags == Case(TRUE, 2, 1, 1,
  (<<0, 1>> :> <<S(1, 1, "a"), S(1, 2, "b"), S(1, 1, "c")>>) @@
  (<<1, 1>> :> <<Me(1, "d"), R(AnyRank, 2), R(AnyRank, 1), R(0, 1), R(AnyRank, 1)>>), 1)

(* Two threads of a rank send on one connection, the other rank receives.   *)
TwoWriters == Case(TRUE, 2, 1, 2,
  (<<0, 1>> :> <<S(1, 1, "a")>>) @@ (<<0, 2>> :> <<S(1, 2, "b")>>) @@
  (<<1, 1>> :> <<R(0, 1), R(0, 2)>>) @@ (<<1, 2>> :> <<>>), 1)

(* A receive asks for another contract than the first message with its tag  *)
(* has, while the ranks send to each other.                                 *)
Contracts == Case(TRUE, 2, 1, 1,
  (<<0, 1>> :> <<S(1, 1, "a"), S(1, 1, "b"), R(1, 1)>>) @@
  (<<1, 1>> :> <<S(0, 1, "c"), Strict(0, 1, {"a"}), R(0, 1)>>), 0)

AllCases == {SetupThree, SetupRails, Channels, Exchanges, Tags, TwoWriters, Contracts}
=============================================================================
