---------------------------- MODULE SyncBarrier ----------------------------
(***************************************************************************)
(* The barrier between the nodes of a group that ends every global         *)
(* collective (src/global/node/sync.rs).  Each node tells every other one, *)
(* over a connection of its own, that it has reached a round, and waits    *)
(* until all have; messages overtake each other and a fast node may be     *)
(* heard in the next round before a slow one has left this one.            *)
(*                                                                         *)
(* The members are registered (a collective begins only when all are) and  *)
(* the calls of a node are serialized.  A node stops when its process      *)
(* dies, when it panics, or when its operation is cancelled, which also    *)
(* closes its listener.                                                    *)
(***************************************************************************)
EXTENDS Integers, FiniteSets

CONSTANTS
  Nodes,      \* nodes of the group
  MaxRounds,  \* bound on the rounds
  MaxFaults   \* bound on the nodes that stop and the messages that are lost

ASSUME RoundsAssumption == MaxRounds \in Nat /\ MaxFaults \in Nat

Generations == 0 .. MaxRounds - 1
SyncRequest == {r \in [to : Nodes, node : Nodes, generation : Generations] : r.to # r.node}

(* A Notified future is absent, registered as a waiter, or woken.           *)
Notified == {"none", "registered", "woken"}

VARIABLES
  generation,  \* generation[n]: rounds started by node n
  completed,   \* completed[n]: rounds completed by node n
  rounds,      \* rounds[n][g]: peers node n has heard of in round g
  pc,          \* where sync() of node n is
  tosend,      \* tosend[n]: peers sync() has still to tell
  notified,    \* notified[n]: the Notified future of sync()
  inflight,    \* requests sent and not yet handled
  handling,    \* handling[n]: handlers that recorded a peer and must notify
  stopped,     \* nodes that stopped
  faults       \* number of faults so far

vars == <<generation, completed, rounds, pc, tosend, notified, inflight,
          handling, stopped, faults>>

Init ==
  /\ generation = [n \in Nodes |-> 0]
  /\ completed = [n \in Nodes |-> 0]
  /\ rounds = [n \in Nodes |-> [g \in Generations |-> {}]]
  /\ pc = [n \in Nodes |-> "idle"]
  /\ tosend = [n \in Nodes |-> {}]
  /\ notified = [n \in Nodes |-> "none"]
  /\ inflight = {}
  /\ handling = [n \in Nodes |-> 0]
  /\ stopped = {}
  /\ faults = 0

(* The round the running sync() of node n is in.                            *)
Current(n) == generation[n] - 1

-----------------------------------------------------------------------------
(* sync().                                                                  *)

(* Mutant: a node tells itself, too.                                        *)
StartTellsSelf(n) ==
  /\ n \notin stopped
  /\ pc[n] = "idle"
  /\ generation[n] < MaxRounds
  /\ generation' = [generation EXCEPT ![n] = @ + 1]
  /\ rounds' = [rounds EXCEPT ![n][generation[n]] = @ \cup {n}]
  /\ tosend' = [tosend EXCEPT ![n] = Nodes]
  /\ pc' = [pc EXCEPT ![n] = "send"]
  /\ UNCHANGED <<completed, notified, inflight, handling, stopped, faults>>

(* Take a generation and record the node itself.                            *)
Start(n) ==
  /\ n \notin stopped
  /\ pc[n] = "idle"
  /\ generation[n] < MaxRounds
  /\ generation' = [generation EXCEPT ![n] = @ + 1]
  /\ rounds' = [rounds EXCEPT ![n][generation[n]] = @ \cup {n}]
  /\ tosend' = [tosend EXCEPT ![n] = Nodes \ {n}]
  /\ pc' = [pc EXCEPT ![n] = "send"]
  /\ UNCHANGED <<completed, notified, inflight, handling, stopped, faults>>

(* Tell the peers one after the other.                                      *)
Send(n, m) ==
  /\ n \notin stopped
  /\ pc[n] = "send"
  /\ m \in tosend[n] \ stopped
  /\ tosend' = [tosend EXCEPT ![n] = @ \ {m}]
  /\ inflight' = inflight \cup {[to |-> m, node |-> n, generation |-> Current(n)]}
  /\ UNCHANGED <<generation, completed, rounds, pc, notified, handling, stopped, faults>>

(* A node that stops takes its state and its connections with it.           *)
Halt(n) ==
  /\ n \notin stopped
  /\ stopped' = stopped \cup {n}
  /\ rounds' = [rounds EXCEPT ![n] = [g \in Generations |-> {}]]
  /\ pc' = [pc EXCEPT ![n] = "idle"]
  /\ tosend' = [tosend EXCEPT ![n] = {}]
  /\ notified' = [notified EXCEPT ![n] = "none"]
  /\ inflight' = {r \in inflight : r.to # n}
  /\ handling' = [handling EXCEPT ![n] = 0]
  /\ UNCHANGED <<generation, completed>>

(* The expect on connect panics when a peer cannot be reached.              *)
Unreachable(n) ==
  /\ pc[n] = "send"
  /\ tosend[n] \cap stopped # {}
  /\ Halt(n)
  /\ UNCHANGED faults

(* Register as a waiter (notified() and enable()) before looking.           *)
Enable(n) ==
  /\ n \notin stopped
  /\ \/ pc[n] = "send" /\ tosend[n] = {}
     \/ pc[n] = "await" /\ notified[n] = "woken"
  /\ pc' = [pc EXCEPT ![n] = "check"]
  /\ notified' = [notified EXCEPT ![n] = "registered"]
  /\ UNCHANGED <<generation, completed, rounds, tosend, inflight, handling,
                 stopped, faults>>

(* Mutant: all peers but one are enough.                                    *)
ReturnEarly(n) ==
  /\ n \notin stopped
  /\ pc[n] = "check"
  /\ Cardinality(rounds[n][Current(n)]) + 1 >= Cardinality(Nodes)
  /\ rounds' = [rounds EXCEPT ![n][Current(n)] = {}]
  /\ completed' = [completed EXCEPT ![n] = generation[n]]
  /\ pc' = [pc EXCEPT ![n] = "idle"]
  /\ notified' = [notified EXCEPT ![n] = "none"]
  /\ UNCHANGED <<generation, tosend, inflight, handling, stopped, faults>>

(* Mutant: the completed round is not removed.                              *)
ReturnKeeps(n) ==
  /\ n \notin stopped
  /\ pc[n] = "check"
  /\ rounds[n][Current(n)] = Nodes
  /\ completed' = [completed EXCEPT ![n] = generation[n]]
  /\ pc' = [pc EXCEPT ![n] = "idle"]
  /\ notified' = [notified EXCEPT ![n] = "none"]
  /\ UNCHANGED <<rounds, generation, tosend, inflight, handling, stopped, faults>>

(* The loop body under the lock: every node is there ...                    *)
Return(n) ==
  /\ n \notin stopped
  /\ pc[n] = "check"
  /\ rounds[n][Current(n)] = Nodes
  /\ rounds' = [rounds EXCEPT ![n][Current(n)] = {}]
  /\ completed' = [completed EXCEPT ![n] = generation[n]]
  /\ pc' = [pc EXCEPT ![n] = "idle"]
  /\ notified' = [notified EXCEPT ![n] = "none"]
  /\ UNCHANGED <<generation, tosend, inflight, handling, stopped, faults>>

(* Mutant: the waiter registers only after it has looked.                   *)
WaitLate(n) ==
  /\ n \notin stopped
  /\ \/ /\ pc[n] = "check"
        /\ rounds[n][Current(n)] # Nodes
        /\ notified' = [notified EXCEPT ![n] = "none"]
     \/ /\ pc[n] = "await" /\ notified[n] = "none"
        /\ notified' = [notified EXCEPT ![n] = "registered"]
  /\ pc' = [pc EXCEPT ![n] = "await"]
  /\ UNCHANGED <<generation, completed, rounds, tosend, inflight, handling,
                 stopped, faults>>

(* ... or the task waits to be notified.                                    *)
Wait(n) ==
  /\ n \notin stopped
  /\ pc[n] = "check"
  /\ rounds[n][Current(n)] # Nodes
  /\ pc' = [pc EXCEPT ![n] = "await"]
  /\ UNCHANGED <<generation, completed, rounds, tosend, notified, inflight,
                 handling, stopped, faults>>

-----------------------------------------------------------------------------
(* handle_sync_connection: record the peer under the lock, and notify once  *)
(* the lock is released.                                                    *)
Handle(r) ==
  /\ r.to \notin stopped
  /\ inflight' = inflight \ {r}
  /\ \/ /\ r.generation < completed[r.to]
        /\ UNCHANGED <<rounds, handling>>
     \/ /\ r.generation >= completed[r.to]
        /\ rounds' = [rounds EXCEPT ![r.to][r.generation] = @ \cup {r.node}]
        /\ handling' = [handling EXCEPT ![r.to] = @ + 1]
  /\ UNCHANGED <<generation, completed, pc, tosend, notified, stopped, faults>>

(* notify_waiters wakes the tasks that are registered now, and only those.  *)
Notify(n) ==
  /\ n \notin stopped
  /\ handling[n] > 0
  /\ handling' = [handling EXCEPT ![n] = @ - 1]
  /\ notified' = [notified EXCEPT ![n] = IF @ = "none" THEN @ ELSE "woken"]
  /\ UNCHANGED <<generation, completed, rounds, pc, tosend, inflight, stopped, faults>>

(* Faults: a node stops, or a connection breaks before its message is read. *)
Stop(n) ==
  /\ faults < MaxFaults
  /\ Halt(n)
  /\ faults' = faults + 1

Lose(r) ==
  /\ faults < MaxFaults
  /\ inflight' = inflight \ {r}
  /\ faults' = faults + 1
  /\ UNCHANGED <<generation, completed, rounds, pc, tosend, notified, handling, stopped>>

-----------------------------------------------------------------------------
NodeStep(n) ==
  \/ Start(n) \/ (\E m \in Nodes : Send(n, m)) \/ Unreachable(n)
  \/ Enable(n) \/ Return(n) \/ Wait(n)

HandlerStep(n) == (\E r \in inflight : r.to = n /\ Handle(r)) \/ Notify(n)

Next ==
  \/ \E n \in Nodes : NodeStep(n) \/ HandlerStep(n) \/ Stop(n)
  \/ \E r \in inflight : Lose(r)

Spec == Init /\ [][Next]_vars

(* The task of a node and its handlers run whenever they can.               *)
FairSpec == Spec /\ \A n \in Nodes : WF_vars(NodeStep(n)) /\ WF_vars(HandlerStep(n))

-----------------------------------------------------------------------------
(* Every variable has its type, and no node has to tell itself.             *)
TypeOK ==
  /\ generation \in [Nodes -> 0 .. MaxRounds]
  /\ completed \in [Nodes -> 0 .. MaxRounds]
  /\ rounds \in [Nodes -> [Generations -> SUBSET Nodes]]
  /\ pc \in [Nodes -> {"idle", "send", "check", "await"}]
  /\ tosend \in [Nodes -> SUBSET Nodes]
  /\ \A n \in Nodes : n \notin tosend[n]
  /\ notified \in [Nodes -> Notified]
  /\ inflight \subseteq SyncRequest
  /\ handling \in [Nodes -> Nat]
  /\ stopped \subseteq Nodes
  /\ faults \in 0 .. MaxFaults

(* The service implements the barrier: no node returns from sync() before   *)
(* every node has called it for the same round, whatever the order of the   *)
(* messages, and whoever stops.                                             *)
B == INSTANCE Barrier WITH entered <- generation, left <- completed
ImplementsBarrier == B!Spec

(* "removes completed state": the rounds a node keeps are its current one   *)
(* and the next, so that the map never grows and no completed round comes   *)
(* back to life through a late message.                                     *)
StateReclaimed ==
  \A n \in Nodes : \A g \in Generations :
    rounds[n][g] # {} => g \in {completed[n], completed[n] + 1}

(* "registers waiters before checking state": no wake-up is lost, and every  *)
(* sync() returns unless a node stops or a message is lost.                 *)
SyncReturns == \A n \in Nodes : pc[n] # "idle" ~> pc[n] = "idle" \/ faults > 0

-----------------------------------------------------------------------------
(* The inductive invariant: a node is counted in a round, or on the way to  *)
(* be, only after it entered the round; and a node is in the round after    *)
(* the last one it completed, or between the two.                           *)
Heard ==
  /\ \A n, m \in Nodes : \A g \in Generations : m \in rounds[n][g] => g < generation[m]
  /\ \A r \in inflight : r.generation < generation[r.node]

InRound ==
  \A n \in Nodes :
    /\ completed[n] <= generation[n] /\ generation[n] <= completed[n] + 1
    /\ n \notin stopped => (pc[n] = "idle" <=> generation[n] = completed[n])

Together == \A m, n \in Nodes : completed[m] <= generation[n]

SyncInv == TypeOK /\ Heard /\ InRound /\ Together /\ StateReclaimed
=============================================================================
