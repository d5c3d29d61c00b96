------------------------------ MODULE Barrier ------------------------------
(* What SyncService promises (src/global/node/sync.rs): a node leaves a     *)
(* round only after every node of the group has entered it.                 *)
EXTENDS Naturals

CONSTANT Nodes

VARIABLES
  entered,  \* entered[n]: number of rounds node n has entered
  left      \* left[n]: number of rounds it has left

vars == <<entered, left>>

Init ==
  /\ entered = [n \in Nodes |-> 0]
  /\ left = [n \in Nodes |-> 0]

Enter(n) ==
  /\ entered[n] = left[n]
  /\ entered' = [entered EXCEPT ![n] = @ + 1]
  /\ UNCHANGED left

Leave(n) ==
  /\ left[n] < entered[n]
  /\ \A m \in Nodes : entered[m] > left[n]
  /\ left' = [left EXCEPT ![n] = @ + 1]
  /\ UNCHANGED entered

Next == \E n \in Nodes : Enter(n) \/ Leave(n)

Spec == Init /\ [][Next]_vars
=============================================================================
