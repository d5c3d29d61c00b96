--------------------------- MODULE MCOrchestrator ---------------------------
(* Small instances of Orchestrator.                                         *)
EXTENDS Orchestrator, TLC

CONSTANTS s1, s2, s3, p1, p2, p3

Reg(a, n, ps) == [kind |-> "register", addr |-> a, num_nodes |-> n, peers |-> ps]
AllReduce(x) == [kind |-> "AllReduce", strategy |-> x, params |-> "sum"]
Reduce(p) == [kind |-> "Reduce", strategy |-> "Tree2", params |-> "sum", root |-> p]
Broadcast(x, b) == [kind |-> "Broadcast", strategy |-> x, source |-> b]

(* Two nodes of a group of two, one with a clashing peer.                   *)
PairRegisters == {Reg("a", 2, <<p1>>), Reg("b", 2, <<p2, p3>>), Reg("b", 2, <<p1>>)}

(* Every way to agree or to disagree on a collective.                       *)
AnySpecs == {AllReduce("Tree2"), AllReduce("Tree0"), Reduce(p2), Reduce(p3), Broadcast("Tree2", TRUE),
             Broadcast("Tree2", FALSE), Broadcast("Tree0", TRUE)}

SessionSymmetry == Permutations(Sessions)
=============================================================================
