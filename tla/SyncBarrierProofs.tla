------------------------- MODULE SyncBarrierProofs -------------------------
(* Proofs about SyncBarrier: it implements Barrier, for every number of     *)
(* nodes, rounds and faults, and keeps no more than two rounds per node.    *)
EXTENDS SyncBarrier, TLAPS

(* Initially nobody has entered a round.                                    *)
LEMMA InitSync == Init => SyncInv
  BY RoundsAssumption
  DEF Init, SyncInv, TypeOK, Heard, InRound, Together, StateReclaimed, SyncRequest, Generations, Notified

(* sync() takes a generation.                                               *)
LEMMA StartKeeps ==
  ASSUME SyncInv, NEW n \in Nodes, Start(n)
  PROVE  SyncInv'
<1>1. generation[n] \in Generations /\ generation[n] = completed[n]
  BY RoundsAssumption DEF SyncInv, TypeOK, Start, InRound, Generations
<1>2. TypeOK'
  BY <1>1, RoundsAssumption DEF SyncInv, TypeOK, Start, Generations
<1>3. Heard'
  <2>1. /\ \A m \in Nodes : generation[m] \in Int /\ generation[m] <= generation'[m]
        /\ generation[n] < generation'[n]
    BY DEF SyncInv, TypeOK, Start
  <2>2. \A m \in Nodes : \A g \in Generations :
          rounds'[m][g] = IF m = n /\ g = generation[n] THEN rounds[m][g] \cup {n} ELSE rounds[m][g]
    BY <1>1 DEF SyncInv, TypeOK, Start
  <2>3. \A g \in Generations : g \in Int
    BY RoundsAssumption DEF Generations
  <2>4. \A m, l \in Nodes : \A g \in Generations : l \in rounds'[m][g] => g < generation'[l]
    <3>1. ASSUME NEW m \in Nodes, NEW l \in Nodes, NEW g \in Generations, l \in rounds'[m][g]
          PROVE  g < generation'[l]
      <4>1. generation'[l] \in Int
        BY <1>2 DEF TypeOK
      <4>2. CASE l \in rounds[m][g]
        <5>1. g < generation[l]
          BY <4>2 DEF SyncInv, Heard
        <5> QED BY <4>1, <5>1, <2>1, <2>3
      <4>3. CASE l \notin rounds[m][g]
        BY <3>1, <4>3, <2>1, <2>2
      <4> QED BY <4>2, <4>3
    <3> QED BY <3>1
  <2>5. \A r \in inflight' : r.generation < generation'[r.node]
    <3>1. inflight' = inflight /\ \A r \in inflight : r.node \in Nodes /\ r.generation \in Generations
      BY DEF Start, SyncInv, TypeOK, SyncRequest
    <3>2. \A m \in Nodes : generation'[m] \in Int
      BY <1>2 DEF TypeOK
    <3> QED BY <2>1, <2>3, <3>1, <3>2 DEF SyncInv, Heard
  <2> QED BY <2>4, <2>5 DEF Heard
<1>4. InRound' /\ Together'
  BY <1>1, RoundsAssumption DEF SyncInv, TypeOK, InRound, Together, Start
<1>5. StateReclaimed'
  BY <1>1 DEF SyncInv, TypeOK, StateReclaimed, Start
<1> QED BY <1>2, <1>3, <1>4, <1>5 DEF SyncInv

(* A peer is told of the current round.                                     *)
LEMMA SendKeeps ==
  ASSUME SyncInv, NEW n \in Nodes, NEW m \in Nodes, Send(n, m)
  PROVE  SyncInv'
<1> DEFINE r == [to |-> m, node |-> n, generation |-> Current(n)]
<1>1. r \in SyncRequest /\ r.generation < generation[r.node]
  BY RoundsAssumption DEF SyncInv, TypeOK, Send, InRound, Generations, SyncRequest, Current
<1>2. inflight' = inflight \cup {r}
  BY DEF Send
<1> HIDE DEF r
<1>3. TypeOK'
  BY <1>1, <1>2 DEF SyncInv, TypeOK, Send
<1>4. Heard'
  BY <1>1, <1>2 DEF SyncInv, Heard, Send
<1>5. InRound' /\ Together' /\ StateReclaimed'
  BY DEF SyncInv, InRound, Together, StateReclaimed, Send
<1> QED BY <1>3, <1>4, <1>5 DEF SyncInv

(* A node that stops forgets what it heard.                                 *)
LEMMA HaltKeeps ==
  ASSUME SyncInv, NEW n \in Nodes, Halt(n), faults' \in 0 .. MaxFaults
  PROVE  SyncInv'
<1>1. TypeOK'
  BY DEF SyncInv, TypeOK, Halt, Notified
<1>2. Heard'
  BY DEF SyncInv, TypeOK, Heard, Halt
<1>3. InRound' /\ Together'
  BY DEF SyncInv, TypeOK, InRound, Together, Halt
<1>4. StateReclaimed'
  BY DEF SyncInv, TypeOK, StateReclaimed, Halt
<1> QED BY <1>1, <1>2, <1>3, <1>4 DEF SyncInv

(* sync() registers as a waiter, or waits.                                  *)
LEMMA WaitKeeps ==
  ASSUME SyncInv, NEW n \in Nodes, Enable(n) \/ Wait(n)
  PROVE  SyncInv'
<1>1. TypeOK'
  BY DEF SyncInv, TypeOK, Enable, Wait, Notified
<1>2. Heard' /\ Together' /\ StateReclaimed'
  BY DEF SyncInv, Heard, Together, StateReclaimed, Enable, Wait
<1>3. InRound'
  BY DEF SyncInv, TypeOK, InRound, Enable, Wait
<1> QED BY <1>1, <1>2, <1>3 DEF SyncInv

(* sync() returns: every node has entered the round it leaves.              *)
LEMMA ReturnLeaves ==
  ASSUME SyncInv, NEW n \in Nodes, Return(n)
  PROVE  /\ generation[n] = completed[n] + 1
         /\ Current(n) \in Generations
         /\ \A m \in Nodes : completed[n] < generation[m]
<1>1. generation[n] = completed[n] + 1 /\ Current(n) = completed[n]
  <2>1. /\ generation[n] \in Int /\ completed[n] \in Int /\ generation[n] # completed[n]
        /\ completed[n] <= generation[n] /\ generation[n] <= completed[n] + 1
    BY DEF SyncInv, TypeOK, InRound, Return
  <2> QED BY <2>1 DEF Current
<1>2. Current(n) \in Generations
  BY <1>1, RoundsAssumption DEF SyncInv, TypeOK, Generations
<1>3. \A m \in Nodes : m \in rounds[n][Current(n)]
  BY DEF Return
<1> QED BY <1>1, <1>2, <1>3 DEF SyncInv, Heard

(* ... and it forgets that round.                                           *)
LEMMA ReturnPreserves ==
  ASSUME SyncInv, NEW n \in Nodes, Return(n)
  PROVE  SyncInv'
<1>1. /\ generation[n] = completed[n] + 1
      /\ Current(n) \in Generations
      /\ \A m \in Nodes : completed[n] < generation[m]
  BY ReturnLeaves
<1>2. TypeOK'
  BY <1>1 DEF SyncInv, TypeOK, Return, Notified
<1>3. Heard'
  BY <1>1 DEF SyncInv, TypeOK, Heard, Return
<1>4. InRound' /\ Together'
  BY <1>1 DEF SyncInv, TypeOK, InRound, Together, Return
<1>5. StateReclaimed'
  <2>1. ASSUME NEW m \in Nodes, NEW g \in Generations, rounds'[m][g] # {}
        PROVE  g \in {completed'[m], completed'[m] + 1}
    <3>1. CASE m # n
      BY <2>1, <3>1 DEF SyncInv, TypeOK, StateReclaimed, Return
    <3>2. CASE m = n
      <4>1. rounds[n][g] # {} /\ g # Current(n)
        BY <1>1, <2>1, <3>2 DEF SyncInv, TypeOK, Return
      <4>2. g = completed[n] + 1
        BY <1>1, <4>1 DEF SyncInv, StateReclaimed, Current, TypeOK
      <4> QED BY <1>1, <3>2, <4>2 DEF Return, SyncInv, TypeOK
    <3> QED BY <3>1, <3>2
  <2> QED BY <2>1 DEF StateReclaimed
<1> QED BY <1>2, <1>3, <1>4, <1>5 DEF SyncInv

(* A message is recorded: its sender is at most one round ahead.            *)
LEMMA HandleKeeps ==
  ASSUME SyncInv, NEW r \in inflight, Handle(r)
  PROVE  SyncInv'
<1>1. r \in SyncRequest /\ r.to \in Nodes /\ r.node \in Nodes /\ r.generation \in Generations
  BY DEF SyncInv, TypeOK, SyncRequest
<1>2. r.generation < generation[r.node]
  BY DEF SyncInv, Heard
<1>3. r.generation \in Nat
  BY <1>1, RoundsAssumption DEF Generations
<1>9. \A m \in Nodes : \A g \in Generations :
        \/ rounds'[m][g] = rounds[m][g]
        \/ /\ m = r.to /\ g = r.generation /\ completed[m] <= g
           /\ rounds'[m][g] = rounds[m][g] \cup {r.node}
  BY <1>1, <1>3 DEF SyncInv, TypeOK, Handle
<1>4. TypeOK'
  <2>1. rounds' \in [Nodes -> [Generations -> SUBSET Nodes]]
    <3>1. rounds \in [Nodes -> [Generations -> SUBSET Nodes]]
      BY DEF SyncInv, TypeOK
    <3>2. CASE UNCHANGED rounds
      BY <3>1, <3>2
    <3>3. CASE rounds' = [rounds EXCEPT ![r.to][r.generation] = @ \cup {r.node}]
      <4>1. rounds[r.to][r.generation] \cup {r.node} \in SUBSET Nodes
        BY <1>1, <3>1
      <4> QED BY <1>1, <3>1, <3>3, <4>1
    <3> QED BY <3>2, <3>3 DEF Handle
  <2>2. handling' \in [Nodes -> Nat]
    <3>1. handling \in [Nodes -> Nat]
      BY DEF SyncInv, TypeOK
    <3>2. handling' = handling \/ handling' = [handling EXCEPT ![r.to] = @ + 1]
      BY DEF Handle
    <3> QED BY <1>1, <3>1, <3>2
  <2> QED BY <2>1, <2>2 DEF SyncInv, TypeOK, Handle
<1>5. Heard'
  BY <1>2, <1>9 DEF SyncInv, Heard, Handle
<1>6. InRound' /\ Together'
  BY DEF SyncInv, InRound, Together, Handle
<1>7. r.generation <= completed[r.to] + 1
  <2>1. /\ generation[r.node] <= completed[r.node] + 1
        /\ completed[r.node] <= generation[r.to]
        /\ generation[r.to] <= completed[r.to] + 1
    BY <1>1 DEF SyncInv, InRound, Together
  <2> QED BY <1>1, <1>2, <1>3, <2>1 DEF SyncInv, TypeOK
<1>8. StateReclaimed'
  <2>1. completed' = completed /\ completed[r.to] \in Nat
    BY <1>1 DEF Handle, SyncInv, TypeOK
  <2>2. completed[r.to] <= r.generation => r.generation \in {completed[r.to], completed[r.to] + 1}
    BY <2>1, <1>3, <1>7
  <2> QED BY <2>1, <2>2, <1>9 DEF SyncInv, StateReclaimed
<1> QED BY <1>4, <1>5, <1>6, <1>8 DEF SyncInv

(* A handler notifies, a message is lost, or nothing happens.               *)
LEMMA RestKeeps ==
  ASSUME SyncInv,
         \/ \E n \in Nodes : Notify(n)
         \/ \E r \in inflight : Lose(r)
         \/ UNCHANGED vars
  PROVE  SyncInv'
<1>1. TypeOK'
  <2>1. ASSUME NEW n \in Nodes, Notify(n) PROVE TypeOK'
    <3>1. handling' \in [Nodes -> Nat]
      BY <2>1 DEF SyncInv, TypeOK, Notify
    <3>2. notified' \in [Nodes -> Notified]
      BY <2>1 DEF SyncInv, TypeOK, Notify, Notified
    <3> QED BY <2>1, <3>1, <3>2 DEF SyncInv, TypeOK, Notify
  <2>2. ASSUME NEW r \in inflight, Lose(r) PROVE TypeOK'
    BY <2>2, RoundsAssumption DEF SyncInv, TypeOK, Lose
  <2> QED BY <2>1, <2>2 DEF SyncInv, TypeOK, vars
<1>2. Heard'
  BY DEF SyncInv, Heard, Notify, Lose, vars
<1>3. InRound' /\ Together' /\ StateReclaimed'
  BY DEF SyncInv, InRound, Together, StateReclaimed, Notify, Lose, vars
<1> QED BY <1>1, <1>2, <1>3 DEF SyncInv

(* The invariant is preserved by every step.                                *)
LEMMA NextSync == SyncInv /\ [Next]_vars => SyncInv'
<1> SUFFICES ASSUME SyncInv, [Next]_vars PROVE SyncInv'
  OBVIOUS
<1>1. ASSUME NEW n \in Nodes, NodeStep(n) PROVE SyncInv'
  <2>1. CASE Start(n)
    BY <2>1, StartKeeps
  <2>2. CASE \E m \in Nodes : Send(n, m)
    BY <2>2, SendKeeps
  <2>3. CASE Unreachable(n)
    BY <2>3, HaltKeeps DEF Unreachable, SyncInv, TypeOK
  <2>4. CASE Enable(n) \/ Wait(n)
    BY <2>4, WaitKeeps
  <2>5. CASE Return(n)
    BY <2>5, ReturnPreserves
  <2> QED BY <1>1, <2>1, <2>2, <2>3, <2>4, <2>5 DEF NodeStep
<1>2. ASSUME NEW n \in Nodes, HandlerStep(n) PROVE SyncInv'
  BY <1>2, HandleKeeps, RestKeeps DEF HandlerStep
<1>3. ASSUME NEW n \in Nodes, Stop(n) PROVE SyncInv'
  <2>1. faults' \in 0 .. MaxFaults
    BY <1>3, RoundsAssumption DEF Stop, SyncInv, TypeOK
  <2> QED BY <1>3, <2>1, HaltKeeps DEF Stop
<1>4. CASE (\E r \in inflight : Lose(r)) \/ UNCHANGED vars
  BY <1>4, RestKeeps
<1> QED BY <1>1, <1>2, <1>3, <1>4 DEF Next

(* The invariant holds in every reachable state.                            *)
THEOREM SyncInvariant == Spec => []SyncInv
  BY InitSync, NextSync, PTL DEF Spec

(* sync.rs never grows: a node keeps at most its current round and the next.*)
THEOREM RoundsStayBounded == Spec => []StateReclaimed
<1>1. SyncInv => StateReclaimed
  BY DEF SyncInv
<1> QED BY <1>1, SyncInvariant, PTL

(* Every step is a step of the barrier, or changes nothing it can see.      *)
LEMMA StepsImplement == SyncInv /\ [Next]_vars => [B!Next]_(B!vars)
<1> SUFFICES ASSUME SyncInv, [Next]_vars PROVE [B!Next]_(B!vars)
  OBVIOUS
<1>1. ASSUME NEW n \in Nodes, Start(n) PROVE B!Enter(n)
  BY <1>1 DEF Start, SyncInv, InRound, B!Enter
<1>2. ASSUME NEW n \in Nodes, Return(n) PROVE B!Leave(n)
  <2>1. generation[n] = completed[n] + 1 /\ \A m \in Nodes : generation[m] > completed[n]
    BY <1>2, ReturnLeaves DEF SyncInv, TypeOK
  <2>2. completed' = [completed EXCEPT ![n] = @ + 1] /\ generation' = generation
    BY <1>2, <2>1 DEF Return, SyncInv, TypeOK
  <2> QED BY <2>1, <2>2 DEF B!Leave, SyncInv, TypeOK
<1>3. ASSUME NEW n \in Nodes, NodeStep(n)
      PROVE  B!Enter(n) \/ B!Leave(n) \/ UNCHANGED <<generation, completed>>
  BY <1>1, <1>2, <1>3 DEF NodeStep, Send, Unreachable, Halt, Enable, Wait
<1>4. ASSUME NEW n \in Nodes, HandlerStep(n) \/ Stop(n)
      PROVE  UNCHANGED <<generation, completed>>
  BY <1>4 DEF HandlerStep, Handle, Notify, Stop, Halt
<1>5. CASE (\E r \in inflight : Lose(r)) \/ UNCHANGED vars
  BY <1>5 DEF Lose, vars, B!vars
<1> QED BY <1>3, <1>4, <1>5 DEF Next, B!Next, B!vars

(* sync() is a barrier: the service implements the specification Barrier,   *)
(* in every interleaving of calls, messages and faults.                     *)
THEOREM SyncIsBarrier == Spec => ImplementsBarrier
<1>1. Init => B!Init
  BY DEF Init, B!Init
<1> QED BY <1>1, StepsImplement, SyncInvariant, PTL DEF Spec, ImplementsBarrier, B!Spec
=============================================================================
