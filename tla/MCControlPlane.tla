--------------------------- MODULE MCControlPlane ---------------------------
(* Two nodes, or one node that starts again after it has ended.             *)
EXTENDS ControlPlane, TLC

CONSTANTS s1, s2, p1, p2

Reg(a, n, p) == [kind |-> "register", addr |-> a, num_nodes |-> n, peers |-> <<p>>]
Sum == [kind |-> "AllReduce", strategy |-> "Tree2", params |-> "sum"]
Cast(b) == [kind |-> "Broadcast", strategy |-> "Tree2", source |-> b]

PlaneRegisters == {Reg("a", 2, p1), Reg("b", 2, p2), Reg("a", 1, p1)}
PlaneSpecs == {Sum, Cast(TRUE)}

Program(register, specs, after) == [register |-> register, specs |-> specs, after |-> after]

(* A group of two.                                                          *)
TwoNodes ==
  s1 :> Program(Reg("a", 2, p1), {Sum}, {}) @@ s2 :> Program(Reg("b", 2, p2), {Sum}, {})

(* The second node does not agree on the collective.                        *)
Disagreeing ==
  s1 :> Program(Reg("a", 2, p1), {Sum}, {}) @@ s2 :> Program(Reg("b", 2, p2), {Cast(TRUE)}, {})

(* A group of one that is formed again, under the same address.             *)
Restarting ==
  s1 :> Program(Reg("a", 1, p1), {Sum}, {}) @@ s2 :> Program(Reg("a", 1, p1), {Sum}, {s1})

AllPlans == {TwoNodes, Disagreeing, Restarting}
=============================================================================
