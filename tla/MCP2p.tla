------------------------------- MODULE MCP2p -------------------------------
(* Programs of the threads for the runs of P2p.                             *)
EXTENDS P2p, TLC

CONSTANTS r0, r1, a0, b0, a1

Rank01 == {r0, r1}
Thread3 == {a0, b0, a1}
Rank3 == a0 :> r0 @@ b0 :> r0 @@ a1 :> r1

Op(op, rail, peer, tag, contract) ==
  [op |-> op, rail |-> rail, peer |-> peer, tag |-> tag, contract |-> contract]

Heartbeat == Op("Heartbeat", 0, AnyRank, 0, "none")

(* Two threads of one rank send to the other, whose receives name a source  *)
(* or none; one send has another contract than its receive.                 *)
MixedScript(t, n) ==
  CASE t = a0 -> {Op("Send", 0, r1, 0, "u8")} \cup
                 (IF n = 2 THEN {Op("Send", 0, r1, 1, "f32")} ELSE {})
    [] t = b0 -> IF n = 1 THEN {Op("Receive", 0, AnyRank, 0, "u8"), Op("Send", 0, r1, 0, "u8")}
                 ELSE {Heartbeat}
    [] t = a1 -> IF n = 1 THEN {Op("Receive", 0, r0, 0, "u8"), Op("Send", 0, r0, 0, "u8")}
                 ELSE {Op("Receive", 0, AnyRank, 1, "u8"), Op("Receive", 0, AnyRank, 0, "u8")}

(* Each thread of the first rank waits on a rail of its own.                *)
RailScript(t, n) ==
  CASE t = a0 -> {Op("Receive", 0, r1, 0, "u8")}
    [] t = b0 -> {Op("Receive", 1, r1, 1, "u8")}
    [] t = a1 -> {Op("Send", 0, r0, 0, "u8"), Op("Send", 1, r0, 1, "u8")}
=============================================================================
