------------------------ MODULE ControlPlaneProofs ------------------------
(* Proofs about Orchestrator and ControlPlane.  First, of the orchestrator  *)
(* alone: the membership tables stay consistent, and no collective is       *)
(* granted to members that know different groups.  Then it keeps its        *)
(* promises behind its sockets, and no node misses a collective that it was *)
(* granted.                                                                 *)
EXTENDS ControlPlane, FiniteSetTheorems, WellFoundedInduction, TLAPS

-----------------------------------------------------------------------------
(* The orchestrator.                                                        *)

(* Sequences grow by one element.                                           *)
LEMMA AppendDomain ==
  ASSUME NEW T, NEW ws \in Seq(T), NEW w \in T
  PROVE  /\ Append(ws, w) \in Seq(T)
         /\ DOMAIN Append(ws, w) = DOMAIN ws \cup {Len(ws) + 1}
         /\ Len(ws) + 1 \notin DOMAIN ws
         /\ \A i \in DOMAIN ws : Append(ws, w)[i] = ws[i]
         /\ Append(ws, w)[Len(ws) + 1] = w
         /\ Append(ws, w) # <<>>
         /\ Len(Append(ws, w)) = Len(ws) + 1
  OBVIOUS

(* A request appended to a list adds its session to those that wait.        *)
LEMMA AppendWaits ==
  ASSUME NEW T, NEW ws \in Seq(T), NEW w \in T
  PROVE  Waits(Append(ws, w)) = Waits(ws) \cup {w.session}
  BY AppendDomain DEF Waits

(* Nobody waits in an empty list.                                           *)
LEMMA EmptyWaits == Waits(<<>>) = {}
  BY DEF Waits

(* As many waiting sessions as members, each once: all members wait.        *)
LEMMA AllWait ==
  ASSUME NEW T, NEW ws \in Seq(T), NEW R,
         IsFiniteSet(R),
         \A i, j \in DOMAIN ws : ws[i].session = ws[j].session => i = j,
         Waits(ws) \subseteq R,
         Len(ws) = Cardinality(R)
  PROVE  Waits(ws) = R
<1> DEFINE f == [i \in 1..Len(ws) |-> ws[i].session]
<1>1. DOMAIN ws = 1..Len(ws)
  OBVIOUS
<1>2. f \in Injection(1..Len(ws), R)
  BY <1>1 DEF Injection, IsInjective, Waits
<1>3. Len(ws) \in Nat /\ Cardinality(1..Len(ws)) = Len(ws)
  <2>1. Len(ws) \in Nat
    OBVIOUS
  <2>2. Cardinality(1..Len(ws)) = IF 1 > Len(ws) THEN 0 ELSE Len(ws) - 1 + 1
    <3>1. 1 \in Int /\ Len(ws) \in Int
      BY <2>1
    <3> QED BY <3>1, FS_Interval
  <2> QED BY <2>1, <2>2
<1>4. f \in Surjection(1..Len(ws), R)
  BY <1>2, <1>3, FS_Injection
<1>5. ASSUME NEW t \in R PROVE t \in Waits(ws)
  <2>1. PICK i \in 1..Len(ws) : f[i] = t
    BY <1>4, <1>5 DEF Surjection
  <2>2. ws[i].session = t
    BY <2>1
  <2> QED BY <2>2, <1>1 DEF Waits
<1> QED BY <1>5

(* The steps that touch neither the tables nor the waiting requests.        *)
LEMMA GroupUnchanged ==
  ASSUME GroupInv, UNCHANGED group, issued' \in [Sessions -> Nat]
  PROVE  GroupInv'
<1>1. GroupTypeOK'
  BY DEF GroupInv, GroupTypeOK, group
<1>2. Registered' = Registered
  BY DEF group, Registered
<1>4. MembershipConsistent'
  <2>1. registered_nodes' = registered_nodes /\ nodes' = nodes
        /\ next_node_id' = next_node_id
    BY DEF group
  <2> QED BY <1>2, <2>1 DEF GroupInv, MembershipConsistent
<1>5. WaitersAreMembers'
  BY <1>2 DEF GroupInv, WaitersAreMembers, group, Waits
<1>6. FailedGroupIsQuiet'
  BY <1>2 DEF GroupInv, FailedGroupIsQuiet, group
<1>3. Announced' /\ GrantsPast' /\ NoStalePeers'
  BY <1>2 DEF GroupInv, Announced, GrantsPast, NoStalePeers, group, Members
<1> QED BY <1>1, <1>3, <1>4, <1>5, <1>6 DEF GroupInv

(* A member leaves, by Finish or by the loss of a socket.                   *)
LEMMA LeaveKeeps ==
  ASSUME GroupInv, NEW s \in Sessions, s \in Registered, Leave(s),
         issued' \in [Sessions -> Nat]
  PROVE  GroupInv'
<1> DEFINE node == registered_nodes[s]
<1>1. node \in Nat /\ node # None
  BY DEF GroupInv, GroupTypeOK, Registered, NodeId, None
<1>2. Registered' = Registered \ {s}
  BY DEF Leave, Remaining, DropWaiting, FailGroup, Registered, GroupInv, GroupTypeOK
<1>3. nodes' = {n \in nodes : n.id # node}
  BY DEF Leave, Remaining, DropWaiting, FailGroup
<1>4. GroupTypeOK'
  <2>1. /\ registered_nodes' \in [Sessions -> NodeId \cup {None}]
        /\ nodes' \subseteq Node
    BY DEF GroupInv, GroupTypeOK, Leave, Remaining, DropWaiting, FailGroup
  <2>2. /\ cur_num_nodes' \in Nat /\ next_node_id' \in Nat
        /\ failed' \in NodeId \cup {None}
    BY <1>1 DEF GroupInv, GroupTypeOK, Leave, Remaining, DropWaiting, FailGroup, NodeId
  <2>3. /\ register_requests' \in Seq([session : Sessions, request : Nat, node : NodeId])
        /\ pending_collectives' \in Seq([session : Sessions, request : Nat, spec : Specs])
    BY DEF Leave, Remaining, DropWaiting, FailGroup
  <2>4. next_transfer_id' \in Nat /\ told' \in [Sessions -> SUBSET Member]
        /\ begun' \subseteq Grant
    BY DEF GroupInv, GroupTypeOK, Leave, Remaining, DropWaiting, FailGroup
  <2> QED BY <2>1, <2>2, <2>3, <2>4 DEF GroupTypeOK
<1>5. \A t \in Registered' : registered_nodes'[t] = registered_nodes[t]
  BY <1>2 DEF Leave, Remaining, DropWaiting, FailGroup, Registered, GroupInv, GroupTypeOK
<1>6. MembershipConsistent'
  <2>1. \A t, u \in Registered' : registered_nodes'[t] = registered_nodes'[u] => t = u
    BY <1>2, <1>5 DEF GroupInv, MembershipConsistent
  <2>2. {registered_nodes'[t] : t \in Registered'} = {n.id : n \in nodes'}
    <3>1. ASSUME NEW t \in Registered' PROVE registered_nodes'[t] \in {n.id : n \in nodes'}
      <4>1. t \in Registered /\ registered_nodes[t] # node
        BY <1>2, <3>1 DEF GroupInv, MembershipConsistent
      <4>2. PICK n \in nodes : n.id = registered_nodes[t]
        BY <4>1 DEF GroupInv, MembershipConsistent
      <4> QED BY <4>1, <4>2, <1>3, <1>5, <3>1
    <3>2. ASSUME NEW n \in nodes' PROVE n.id \in {registered_nodes'[t] : t \in Registered'}
      <4>1. n \in nodes /\ n.id # node
        BY <1>3, <3>2
      <4>2. PICK t \in Registered : registered_nodes[t] = n.id
        BY <4>1 DEF GroupInv, MembershipConsistent
      <4> QED BY <4>1, <4>2, <1>2, <1>5
    <3> QED BY <3>1, <3>2
  <2>3. \A m, n \in nodes' :
           m # n => m.id # n.id /\ m.addr # n.addr /\ m.peers \cap n.peers = {}
    BY <1>3 DEF GroupInv, MembershipConsistent
  <2>4. \A n \in nodes' : n.id < next_node_id'
    <3>1. CASE Registered = {s}
      <4>1. nodes' = {}
        BY <3>1, <2>2, <1>2
      <4> QED BY <4>1
    <3>2. CASE Registered # {s}
      BY <3>2, <1>3 DEF Leave, Remaining, DropWaiting, FailGroup, GroupInv, MembershipConsistent
    <3> QED BY <3>1, <3>2
  <2> QED BY <2>1, <2>2, <2>3, <2>4 DEF MembershipConsistent
<1>7. register_requests' = <<>> /\ pending_collectives' = <<>>
  BY DEF Leave, Remaining, DropWaiting, FailGroup
<1>8. WaitersAreMembers'
  BY <1>7, EmptyWaits DEF WaitersAreMembers, Waits
<1>9. FailedGroupIsQuiet'
  <2>1. CASE Registered = {s}
    BY <2>1, <1>2, <1>7 DEF Leave, Remaining, DropWaiting, FailGroup, FailedGroupIsQuiet
  <2>2. CASE Registered # {s}
    <3>1. cur_num_nodes' = cur_num_nodes /\ cur_num_nodes # 0
      BY <2>2 DEF Leave, Remaining, DropWaiting, FailGroup, GroupInv, FailedGroupIsQuiet
    <3>2. Registered' # {}
      BY <2>2, <1>2
    <3> QED BY <3>1, <3>2, <1>7 DEF FailedGroupIsQuiet
  <2> QED BY <2>1, <2>2
<1>10. Announced'
  <2>1. CASE Registered = {s}
    BY <2>1, <1>2 DEF Announced
  <2>2. CASE Registered # {s}
    BY <2>2, <1>1 DEF Leave, Remaining, DropWaiting, FailGroup, Announced
  <2> QED BY <2>1, <2>2
<1>11. GrantsPast' /\ NoStalePeers'
  BY DEF Leave, Remaining, DropWaiting, FailGroup, GroupInv, GrantsPast, NoStalePeers
<1> QED BY <1>4, <1>6, <1>8, <1>9, <1>10, <1>11 DEF GroupInv

(* A node registers: its id, address and peers are new.                     *)
LEMMA EnrollFacts ==
  ASSUME GroupInv, NEW s \in Sessions, NEW id \in Nat, NEW r \in Registers,
         Enroll(s, id, r)
  PROVE  /\ Registered' = Registered \cup {s}
         /\ s \notin Registered
         /\ cur_num_nodes' \in Nat /\ cur_num_nodes' # 0
         /\ registered_nodes' \in [Sessions -> NodeId \cup {None}]
         /\ nodes' \subseteq Node
         /\ next_node_id' \in Nat
         /\ MembershipConsistent'
         /\ failed = None /\ failed' = None
         /\ register_requests = <<>> => Registered = {}
         /\ pending_collectives = <<>> /\ pending_collectives' = <<>>
         /\ begun' = begun /\ next_transfer_id' = next_transfer_id
<1> DEFINE new == [id |-> next_node_id, addr |-> r.addr,
                   peers |-> {r.peers[i] : i \in DOMAIN r.peers}]
<1>1. /\ r.addr \in Addresses /\ r.num_nodes \in Nat /\ r.peers \in Seq(Peers)
  BY RegistersAssumption
<1>2. /\ r.num_nodes # 0
      /\ s \notin Registered
      /\ \A n \in nodes : n.addr # r.addr
      /\ register_requests = <<>> => Registered = {}
      /\ \A n \in nodes : \A i \in DOMAIN r.peers : r.peers[i] \notin n.peers
  BY DEF Enroll, RegisterError
<1>3. next_node_id \in Nat /\ next_node_id # None
  BY DEF GroupInv, GroupTypeOK, None
<1>4. new \in Node
  <2>1. \A i \in DOMAIN r.peers : r.peers[i] \in Peers
    BY <1>1
  <2> QED BY <2>1, <1>1, <1>3 DEF Node, NodeId
<1>5. nodes' = nodes \cup {new}
  <2>1. \A n \in nodes : n.id # next_node_id
    <3>1. \A n \in nodes : n.id \in Nat /\ n.id < next_node_id
      BY DEF GroupInv, GroupTypeOK, MembershipConsistent, Node, NodeId
    <3> QED BY <3>1, <1>3
  <2> QED BY <2>1 DEF Enroll
<1>6. /\ registered_nodes' = [registered_nodes EXCEPT ![s] = next_node_id]
      /\ registered_nodes' \in [Sessions -> NodeId \cup {None}]
      /\ next_node_id' = next_node_id + 1
      /\ next_node_id' \in Nat
  BY <1>3 DEF Enroll, GroupInv, GroupTypeOK, NodeId
<1>7. Registered' = Registered \cup {s}
  BY <1>3, <1>6 DEF Registered, GroupInv, GroupTypeOK
<1>8. nodes' \subseteq Node
  BY <1>4, <1>5 DEF GroupInv, GroupTypeOK
<1>9. \A t \in Registered : registered_nodes'[t] = registered_nodes[t]
  BY <1>2, <1>6 DEF GroupInv, GroupTypeOK, Registered
<1>10. registered_nodes'[s] = next_node_id
  BY <1>6 DEF GroupInv, GroupTypeOK
<1>11. MembershipConsistent'
  <2>1. \A t \in Registered : registered_nodes[t] # next_node_id
    <3>1. ASSUME NEW t \in Registered PROVE registered_nodes[t] # next_node_id
      <4>1. PICK n \in nodes : n.id = registered_nodes[t]
        BY <3>1 DEF GroupInv, MembershipConsistent
      <4>2. n.id \in Nat /\ n.id < next_node_id
        BY DEF GroupInv, GroupTypeOK, MembershipConsistent, Node, NodeId
      <4> QED BY <4>1, <4>2, <1>3
    <3> QED BY <3>1
  <2>2. \A t, u \in Registered' : registered_nodes'[t] = registered_nodes'[u] => t = u
    BY <2>1, <1>7, <1>9, <1>10 DEF GroupInv, MembershipConsistent
  <2>3. {registered_nodes'[t] : t \in Registered'} = {n.id : n \in nodes'}
    <3>1. {registered_nodes'[t] : t \in Registered'}
            = {registered_nodes[t] : t \in Registered} \cup {next_node_id}
      BY <1>7, <1>9, <1>10
    <3>2. {n.id : n \in nodes'} = {n.id : n \in nodes} \cup {next_node_id}
      <4>1. new.id = next_node_id
        OBVIOUS
      <4> HIDE DEF new
      <4> QED BY <4>1, <1>5
    <3> QED BY <3>1, <3>2 DEF GroupInv, MembershipConsistent
  <2>4. \A n \in nodes : n.id < next_node_id /\ n.id \in Nat
    BY DEF GroupInv, GroupTypeOK, MembershipConsistent, Node, NodeId
  <2>5. \A n \in nodes : /\ n.id # new.id /\ n.addr # new.addr
                         /\ n.peers \cap new.peers = {}
    BY <1>2, <1>3, <2>4
  <2>6. \A m, n \in nodes' :
           m # n => m.id # n.id /\ m.addr # n.addr /\ m.peers \cap n.peers = {}
    <3>1. ASSUME NEW m \in nodes', NEW n \in nodes', m # n
          PROVE  m.id # n.id /\ m.addr # n.addr /\ m.peers \cap n.peers = {}
      <4>1. CASE m \in nodes /\ n \in nodes
        BY <4>1, <3>1 DEF GroupInv, MembershipConsistent
      <4>2. CASE m = new /\ n \in nodes
        <5>1. n.id # new.id /\ n.addr # new.addr /\ n.peers \cap new.peers = {}
          BY <4>2, <2>5
        <5> HIDE DEF new
        <5> QED BY <5>1, <4>2
      <4>3. CASE m \in nodes /\ n = new
        <5>1. m.id # new.id /\ m.addr # new.addr /\ m.peers \cap new.peers = {}
          BY <4>3, <2>5
        <5> HIDE DEF new
        <5> QED BY <5>1, <4>3
      <4> HIDE DEF new
      <4> QED BY <3>1, <1>5, <4>1, <4>2, <4>3
    <3> QED BY <3>1
  <2>7. \A n \in nodes' : n.id < next_node_id'
    BY <1>3, <1>5, <1>6, <2>4
  <2> QED BY <2>2, <2>3, <2>6, <2>7 DEF MembershipConsistent
<1>12. failed = None /\ failed' = None /\ cur_num_nodes' = r.num_nodes
       /\ pending_collectives' = pending_collectives
       /\ begun' = begun /\ next_transfer_id' = next_transfer_id
  BY DEF Enroll
<1>13. pending_collectives = <<>>
  <2>1. CASE register_requests = <<>>
    <3>1. Registered = {}
      BY <2>1, <1>2
    <3>2. Waits(pending_collectives) = {}
      BY <3>1 DEF GroupInv, WaitersAreMembers
    <3>3. pending_collectives \in Seq([session : Sessions, request : Nat, spec : Specs])
      BY DEF GroupInv, GroupTypeOK
    <3>4. DOMAIN pending_collectives = {}
      BY <3>2 DEF Waits
    <3> QED BY <3>3, <3>4
  <2>2. CASE register_requests # <<>>
    BY <2>2 DEF GroupInv, WaitersAreMembers
  <2> QED BY <2>1, <2>2
<1> QED BY <1>1, <1>2, <1>6, <1>7, <1>8, <1>11, <1>12, <1>13

(* A registration that others of its group are still missing for.           *)
LEMMA RegisterWaitsKeeps ==
  ASSUME GroupInv, NEW s \in Sessions, NEW id \in Nat, NEW r \in Registers,
         RegisterWaits(s, id, r), issued' \in [Sessions -> Nat]
  PROVE  GroupInv'
<1> DEFINE W == [session : Sessions, request : Nat, node : NodeId]
           w == [session |-> s, request |-> id, node |-> next_node_id]
<1>1. Enroll(s, id, r) /\ told' = told /\ register_requests' = Append(register_requests, w)
  BY DEF RegisterWaits, Enrolled
<1>2. /\ Registered' = Registered \cup {s}
      /\ s \notin Registered
      /\ cur_num_nodes' \in Nat /\ cur_num_nodes' # 0
      /\ registered_nodes' \in [Sessions -> NodeId \cup {None}]
      /\ nodes' \subseteq Node
      /\ next_node_id' \in Nat
      /\ MembershipConsistent'
      /\ failed' = None
      /\ register_requests = <<>> => Registered = {}
      /\ pending_collectives' = <<>>
      /\ begun' = begun /\ next_transfer_id' = next_transfer_id
  BY <1>1, EnrollFacts
<1>3. w \in W /\ w.session = s
  BY DEF GroupInv, GroupTypeOK, NodeId
<1>4. register_requests \in Seq(W)
  BY DEF GroupInv, GroupTypeOK
<1> HIDE DEF w, W
<1>5. register_requests' \in Seq(W) /\ register_requests' # <<>>
  BY <1>1, <1>3, <1>4, AppendDomain
<1>6. GroupTypeOK'
  <2>1. pending_collectives' \in Seq([session : Sessions, request : Nat, spec : Specs])
    BY <1>2
  <2>2. failed' \in NodeId \cup {None}
    BY <1>2
  <2> QED BY <1>1, <1>2, <1>5, <2>1, <2>2 DEF GroupInv, GroupTypeOK, W
<1>7. Waits(register_requests) = Registered
  BY <1>2, EmptyWaits DEF GroupInv, WaitersAreMembers
<1>8. WaitersAreMembers'
  <2>1. Waits(register_requests') = Registered'
    BY <1>1, <1>2, <1>3, <1>4, <1>7, AppendWaits
  <2>2. \A i, j \in DOMAIN register_requests' :
          register_requests'[i].session = register_requests'[j].session => i = j
    <3>1. DOMAIN register_requests' = DOMAIN register_requests \cup {Len(register_requests) + 1}
      BY <1>1, <1>3, <1>4, AppendDomain
    <3>2. register_requests'[Len(register_requests) + 1].session = s
      BY <1>1, <1>3, <1>4, AppendDomain
    <3>3. \A i \in DOMAIN register_requests :
             /\ register_requests'[i] = register_requests[i]
             /\ register_requests[i].session # s
      BY <1>1, <1>2, <1>3, <1>4, <1>7, AppendDomain DEF Waits
    <3>4. \A i, j \in DOMAIN register_requests :
            register_requests[i].session = register_requests[j].session => i = j
      BY DEF GroupInv, WaitersAreMembers
    <3> QED BY <3>1, <3>2, <3>3, <3>4
  <2>3. \A i, j \in DOMAIN pending_collectives' :
          pending_collectives'[i].session = pending_collectives'[j].session => i = j
    BY <1>2
  <2>4. Waits(pending_collectives') = {}
    BY <1>2, EmptyWaits
  <2> QED BY <1>2, <2>1, <2>2, <2>3, <2>4 DEF WaitersAreMembers, Waits
<1>9. FailedGroupIsQuiet'
  BY <1>2 DEF FailedGroupIsQuiet
<1>10. Announced'
  BY <1>5 DEF Announced
<1>11. GrantsPast' /\ NoStalePeers'
  BY <1>2 DEF GroupInv, GrantsPast, NoStalePeers
<1> QED BY <1>2, <1>6, <1>8, <1>9, <1>10, <1>11 DEF GroupInv

(* The last registration of the group: every session is told the nodes.     *)
LEMMA RegisterCompletesKeeps ==
  ASSUME GroupInv, NEW s \in Sessions, NEW id \in Nat, NEW r \in Registers,
         RegisterCompletes(s, id, r), issued' \in [Sessions -> Nat]
  PROVE  GroupInv'
<1> DEFINE W == [session : Sessions, request : Nat, node : NodeId]
           w == [session |-> s, request |-> id, node |-> next_node_id]
           ws == Append(register_requests, w)
<1>1. /\ Enroll(s, id, r) /\ register_requests' = <<>>
      /\ told' = [t \in Sessions |->
                   IF \E i \in DOMAIN ws : ws[i].session = t THEN Members' ELSE told[t]]
  BY DEF RegisterCompletes, Enrolled
<1>2. /\ Registered' = Registered \cup {s}
      /\ cur_num_nodes' \in Nat /\ cur_num_nodes' # 0
      /\ registered_nodes' \in [Sessions -> NodeId \cup {None}]
      /\ nodes' \subseteq Node
      /\ next_node_id' \in Nat
      /\ MembershipConsistent'
      /\ failed' = None
      /\ register_requests = <<>> => Registered = {}
      /\ pending_collectives' = <<>>
      /\ begun' = begun /\ next_transfer_id' = next_transfer_id
  BY <1>1, EnrollFacts
<1>3. w \in W /\ w.session = s
  BY DEF GroupInv, GroupTypeOK, NodeId
<1>4. register_requests \in Seq(W)
  BY DEF GroupInv, GroupTypeOK
<1>5. Waits(ws) = Registered'
  <2>1. Waits(register_requests) = Registered
    BY <1>2, EmptyWaits DEF GroupInv, WaitersAreMembers
  <2> HIDE DEF w, W
  <2> QED BY <1>2, <1>3, <1>4, <2>1, AppendWaits
<1> HIDE DEF ws, w, W
<1>6. Members' \subseteq Member
  BY <1>2 DEF Members, Member, Node
<1>7. told' \in [Sessions -> SUBSET Member]
  BY <1>1, <1>6 DEF GroupInv, GroupTypeOK
<1>8. GroupTypeOK'
  <2>1. pending_collectives' \in Seq([session : Sessions, request : Nat, spec : Specs])
        /\ register_requests' \in Seq([session : Sessions, request : Nat, node : NodeId])
    BY <1>1, <1>2
  <2>2. failed' \in NodeId \cup {None}
    BY <1>2
  <2> QED BY <1>2, <1>7, <2>1, <2>2 DEF GroupInv, GroupTypeOK
<1>9. WaitersAreMembers'
  BY <1>1, <1>2, EmptyWaits DEF WaitersAreMembers, Waits
<1>10. FailedGroupIsQuiet'
  BY <1>1, <1>2 DEF FailedGroupIsQuiet
<1>11. Announced'
  <2>1. ASSUME NEW t \in Registered' PROVE told'[t] = Members'
    <3>1. t \in Sessions
      BY <2>1 DEF Registered
    <3>2. \E i \in DOMAIN ws : ws[i].session = t
      BY <1>5, <2>1 DEF Waits
    <3> QED BY <1>1, <3>1, <3>2
  <2> QED BY <2>1 DEF Announced
<1>12. GrantsPast' /\ NoStalePeers'
  BY <1>2 DEF GroupInv, GrantsPast, NoStalePeers
<1> QED BY <1>2, <1>8, <1>9, <1>10, <1>11, <1>12 DEF GroupInv

(* A Begin that is accepted: the group is complete, and this member was not *)
(* waiting.                                                                 *)
LEMMA BeginFacts ==
  ASSUME GroupInv, NEW s \in Sessions, NEW id \in Nat,
         NEW spec \in Specs, failed = None, BeginError(s) = "ok"
  PROVE  LET ws == Begins(s, id, BeginMsg(spec))
             B == [session : Sessions, request : Nat, spec : Specs]
         IN /\ s \in Registered
            /\ register_requests = <<>>
            /\ ws \in Seq(B) /\ ws # <<>>
            /\ \A i, j \in DOMAIN ws : ws[i].session = ws[j].session => i = j
            /\ Waits(ws) \subseteq Registered
            /\ \A t \in Registered : told[t] = Members
<1> DEFINE B == [session : Sessions, request : Nat, spec : Specs]
           w == [session |-> s, request |-> id, spec |-> spec]
           ps == pending_collectives
<1>1. Begins(s, id, BeginMsg(spec)) = Append(ps, w)
  BY DEF Begins, BeginMsg
<1>2. w \in B /\ w.session = s
  OBVIOUS
<1>3. ps \in Seq(B)
  BY DEF GroupInv, GroupTypeOK
<1>4. /\ s \in Registered
      /\ register_requests = <<>>
      /\ \A i \in DOMAIN ps : ps[i].session # s
  BY DEF BeginError
<1>5. \A t \in Registered : told[t] = Members
  BY <1>4 DEF GroupInv, Announced
<1>6. Waits(ps) \subseteq Registered
      /\ \A i, j \in DOMAIN ps : ps[i].session = ps[j].session => i = j
  BY DEF GroupInv, WaitersAreMembers
<1> HIDE DEF B, w
<1>7. Append(ps, w) \in Seq(B) /\ Append(ps, w) # <<>>
  BY <1>2, <1>3, AppendDomain
<1>8. Waits(Append(ps, w)) \subseteq Registered
  BY <1>2, <1>3, <1>4, <1>6, AppendWaits
<1>9. \A i, j \in DOMAIN Append(ps, w) :
        Append(ps, w)[i].session = Append(ps, w)[j].session => i = j
  <2>1. /\ DOMAIN Append(ps, w) = DOMAIN ps \cup {Len(ps) + 1}
        /\ \A i \in DOMAIN ps : Append(ps, w)[i] = ps[i]
        /\ Append(ps, w)[Len(ps) + 1].session = s
    BY <1>2, <1>3, AppendDomain
  <2> QED BY <2>1, <1>4, <1>6
<1> QED BY <1>1, <1>4, <1>5, <1>7, <1>8, <1>9 DEF B

(* A Begin that waits for the other sessions.                               *)
LEMMA BeginWaitsKeeps ==
  ASSUME GroupInv, NEW s \in Sessions, NEW id \in Nat, NEW spec \in Specs,
         BeginWaits(s, id, BeginMsg(spec)), issued' \in [Sessions -> Nat]
  PROVE  GroupInv'
<1> DEFINE ws == Begins(s, id, BeginMsg(spec))
           B == [session : Sessions, request : Nat, spec : Specs]
<1>1. /\ failed = None /\ BeginError(s) = "ok" /\ pending_collectives' = ws
      /\ UNCHANGED <<registered_nodes, nodes, cur_num_nodes, register_requests,
                     next_transfer_id, next_node_id, failed, told, begun>>
  BY DEF BeginWaits
<1>2. /\ s \in Registered
      /\ register_requests = <<>>
      /\ ws \in Seq(B) /\ ws # <<>>
      /\ \A i, j \in DOMAIN ws : ws[i].session = ws[j].session => i = j
      /\ Waits(ws) \subseteq Registered
  BY <1>1, BeginFacts
<1> HIDE DEF ws
<1>3. GroupTypeOK'
  BY <1>1, <1>2 DEF GroupInv, GroupTypeOK
<1>4. Registered' = Registered
  BY <1>1 DEF Registered
<1>5. MembershipConsistent'
  BY <1>1, <1>4 DEF GroupInv, MembershipConsistent
<1>6. WaitersAreMembers'
  <2>1. \A i, j \in DOMAIN register_requests' :
          register_requests'[i].session = register_requests'[j].session => i = j
    BY <1>1, <1>2
  <2>2. register_requests' = <<>> /\ Waits(pending_collectives') \subseteq Registered'
    BY <1>1, <1>2, <1>4
  <2> QED BY <1>1, <1>2, <2>1, <2>2 DEF WaitersAreMembers, Waits
<1>7. FailedGroupIsQuiet'
  BY <1>1, <1>4 DEF GroupInv, FailedGroupIsQuiet
<1>8. Announced' /\ GrantsPast' /\ NoStalePeers'
  BY <1>1, <1>4 DEF GroupInv, Announced, GrantsPast, NoStalePeers, Members
<1> QED BY <1>3, <1>5, <1>6, <1>7, <1>8 DEF GroupInv

(* The last Begin empties the list of waiting requests, whatever its result.*)
LEMMA BeginLastKeeps ==
  ASSUME GroupInv, NEW s \in Sessions, NEW id \in Nat, NEW spec \in Specs,
         BeginLast(s, id, BeginMsg(spec)), issued' \in [Sessions -> Nat],
         next_transfer_id' \in Nat, begun' \subseteq Grant
  PROVE  /\ GroupTypeOK' /\ MembershipConsistent' /\ WaitersAreMembers'
         /\ FailedGroupIsQuiet' /\ Announced'
<1>1. /\ failed = None /\ BeginError(s) = "ok" /\ pending_collectives' = <<>>
      /\ UNCHANGED <<registered_nodes, nodes, cur_num_nodes, register_requests,
                     next_node_id, failed, told>>
  BY DEF BeginLast
<1>2. GroupTypeOK'
  <2>1. pending_collectives' \in Seq([session : Sessions, request : Nat, spec : Specs])
    BY <1>1
  <2> QED BY <1>1, <2>1 DEF GroupInv, GroupTypeOK
<1>3. Registered' = Registered
  BY <1>1 DEF Registered
<1>4. MembershipConsistent'
  BY <1>1, <1>3 DEF GroupInv, MembershipConsistent
<1>5. WaitersAreMembers'
  BY <1>1, <1>3, EmptyWaits DEF GroupInv, WaitersAreMembers, Waits
<1>6. FailedGroupIsQuiet' /\ Announced'
  BY <1>1, <1>3 DEF GroupInv, FailedGroupIsQuiet, Announced, Members
<1> QED BY <1>2, <1>4, <1>5, <1>6

(* The last Begin of a collective, when the specifications differ.          *)
LEMMA BeginDisagreesKeeps ==
  ASSUME GroupInv, NEW s \in Sessions, NEW id \in Nat, NEW spec \in Specs,
         BeginDisagrees(s, id, BeginMsg(spec)), issued' \in [Sessions -> Nat]
  PROVE  GroupInv'
<1>1. /\ BeginLast(s, id, BeginMsg(spec))
      /\ next_transfer_id' = next_transfer_id /\ begun' = begun
  BY DEF BeginDisagrees
<1>2. next_transfer_id' \in Nat /\ begun' \subseteq Grant
  BY <1>1 DEF GroupInv, GroupTypeOK
<1>3. GrantsPast' /\ NoStalePeers'
  BY <1>1 DEF GroupInv, GrantsPast, NoStalePeers
<1> QED BY <1>1, <1>2, <1>3, BeginLastKeeps DEF GroupInv

(* A collective is granted: every member takes part and knows the group.    *)
LEMMA BeginAgreesKeeps ==
  ASSUME GroupInv, NEW s \in Sessions, NEW id \in Nat, NEW spec \in Specs,
         BeginAgrees(s, id, BeginMsg(spec)), issued' \in [Sessions -> Nat]
  PROVE  GroupInv'
<1> DEFINE ws == Begins(s, id, BeginMsg(spec))
           B == [session : Sessions, request : Nat, spec : Specs]
           x == next_transfer_id
<1>1. /\ BeginLast(s, id, BeginMsg(spec))
      /\ x' = x + 1
  BY DEF BeginAgrees
<1>2. PICK root \in {n.id : n \in nodes} :
        begun' = begun \cup
          {[transfer |-> x, root |-> root, session |-> ws[i].session,
            node |-> registered_nodes[ws[i].session], spec |-> ws[i].spec,
            members |-> told[ws[i].session]] : i \in DOMAIN ws}
  BY DEF BeginAgrees
<1>3. /\ failed = None /\ BeginError(s) = "ok" /\ Len(ws) = Cardinality(Registered)
  BY <1>1 DEF BeginLast
<1>4. /\ ws \in Seq(B) /\ ws # <<>>
      /\ \A i, j \in DOMAIN ws : ws[i].session = ws[j].session => i = j
      /\ Waits(ws) \subseteq Registered
      /\ \A t \in Registered : told[t] = Members
  BY <1>3, BeginFacts
<1> DEFINE G(i) == [transfer |-> x, root |-> root, session |-> ws[i].session,
                    node |-> registered_nodes[ws[i].session], spec |-> ws[i].spec,
                    members |-> told[ws[i].session]]
<1>5. begun' = begun \cup {G(i) : i \in DOMAIN ws}
  BY <1>2
<1> HIDE DEF ws
<1>6. Waits(ws) = Registered
  <2>1. IsFiniteSet(Registered)
    <3>1. Registered \in SUBSET Sessions
      BY DEF Registered
    <3> QED BY <3>1, SessionsAssumption, FS_Subset
  <2> QED BY <1>3, <1>4, <2>1, AllWait
<1>7. \A i \in DOMAIN ws : /\ ws[i] \in B
                           /\ ws[i].session \in Registered
                           /\ told[ws[i].session] = Members
  <2>1. \A i \in DOMAIN ws : ws[i] \in B
    <3> HIDE DEF B
    <3> QED BY <1>4
  <2>2. \A i \in DOMAIN ws : ws[i].session \in Waits(ws)
    BY DEF Waits
  <2> QED BY <2>1, <2>2, <1>4
<1>8. \A i \in DOMAIN ws : G(i).transfer = x /\ G(i).root = root /\ G(i).members = Members
                           /\ G(i).node = registered_nodes[ws[i].session]
  BY <1>7
<1>9. \A i \in DOMAIN ws : G(i) \in Grant
  <2>1. ASSUME NEW i \in DOMAIN ws PROVE G(i) \in Grant
    <3>1. ws[i] \in B /\ ws[i].session \in Registered
      BY <1>7
    <3>2. ws[i].session \in Sessions /\ ws[i].spec \in Specs
      BY <3>1
    <3>3. registered_nodes[ws[i].session] \in NodeId
      BY <3>1 DEF Registered, GroupInv, GroupTypeOK
    <3>4. told[ws[i].session] \in SUBSET Member /\ x \in Nat
      BY <3>2 DEF GroupInv, GroupTypeOK
    <3>5. root \in NodeId
      BY DEF GroupInv, GroupTypeOK, Node
    <3> QED BY <3>2, <3>3, <3>4, <3>5 DEF Grant
  <2> QED BY <2>1
<1> HIDE DEF G
<1>10. x \in Nat /\ x' \in Nat
  BY <1>1 DEF GroupInv, GroupTypeOK
<1>11. begun' \subseteq Grant
  BY <1>5, <1>9 DEF GroupInv, GroupTypeOK
<1>12. \A g \in begun : g.transfer < x /\ g.transfer \in Nat
  BY DEF GroupInv, GroupTypeOK, GrantsPast, Grant
<1>13. GrantsPast'
  <2>1. \A g \in begun' : g.transfer < x + 1
    BY <1>5, <1>8, <1>10, <1>12
  <2> QED BY <2>1, <1>1 DEF GrantsPast
<1>14. {registered_nodes[ws[i].session] : i \in DOMAIN ws} = {n.id : n \in nodes}
  <2>1. {registered_nodes[ws[i].session] : i \in DOMAIN ws} = {registered_nodes[t] : t \in Registered}
    BY <1>6 DEF Waits
  <2> QED BY <2>1 DEF GroupInv, MembershipConsistent
<1>15. {m.id : m \in Members} = {n.id : n \in nodes}
  <2>1. ASSUME NEW n \in nodes PROVE n.id \in {m.id : m \in Members}
    <3>1. [id |-> n.id, addr |-> n.addr] \in Members
      BY DEF Members
    <3>2. [id |-> n.id, addr |-> n.addr].id = n.id
      OBVIOUS
    <3> QED BY <3>1, <3>2
  <2>2. ASSUME NEW m \in Members PROVE m.id \in {n.id : n \in nodes}
    BY DEF Members
  <2> QED BY <2>1, <2>2
<1>16. NoStalePeers'
  <2>1. ASSUME NEW a \in begun', NEW b \in begun', a.transfer = b.transfer
        PROVE  /\ a.root = b.root
               /\ a.members = b.members
               /\ {c.node : c \in {d \in begun' : d.transfer = a.transfer}} =
                    {m.id : m \in a.members}
               /\ \E m \in a.members : m.id = a.root
    <3>1. CASE a \in begun
      <4>1. a.transfer # x
        BY <3>1, <1>10, <1>12
      <4>2. b \in begun /\ {d \in begun' : d.transfer = a.transfer}
                              = {d \in begun : d.transfer = a.transfer}
        BY <4>1, <2>1, <1>5, <1>8
      <4> QED BY <2>1, <3>1, <4>2 DEF GroupInv, NoStalePeers
    <3>2. CASE a \notin begun
      <4>1. a \in {G(i) : i \in DOMAIN ws}
        BY <2>1, <3>2, <1>5
      <4>2. a.transfer = x /\ a.root = root /\ a.members = Members
        BY <4>1, <1>8
      <4>3. b \in {G(i) : i \in DOMAIN ws}
        <5>1. b.transfer = x
          BY <2>1, <4>2
        <5>2. b \notin begun
          BY <5>1, <1>10, <1>12
        <5> QED BY <2>1, <5>2, <1>5
      <4>4. b.root = root /\ b.members = Members
        BY <4>3, <1>8
      <4>5. {d \in begun' : d.transfer = x} = {G(i) : i \in DOMAIN ws}
        BY <1>5, <1>8, <1>10, <1>12
      <4>6. {c.node : c \in {G(i) : i \in DOMAIN ws}}
              = {registered_nodes[ws[i].session] : i \in DOMAIN ws}
        BY <1>8
      <4>7. \E m \in Members : m.id = root
        BY <1>15
      <4> QED BY <4>2, <4>4, <4>5, <4>6, <4>7, <1>14, <1>15
    <3> QED BY <3>1, <3>2
  <2> QED BY <2>1 DEF NoStalePeers
<1> QED BY <1>1, <1>10, <1>11, <1>13, <1>16, BeginLastKeeps DEF GroupInv

(* A session that is not registered goes away.  When nobody is registered   *)
(* the counters are reset, which they were already.                         *)
LEMMA DisconnectStrangerKeeps ==
  ASSUME GroupInv, NEW s \in Sessions, s \notin Registered, Disconnect(s)
  PROVE  GroupInv'
<1>1. /\ UNCHANGED <<registered_nodes, nodes, pending_collectives, register_requests,
                     next_transfer_id, told, begun, issued>>
      /\ IF Registered = {} THEN cur_num_nodes' = 0 /\ next_node_id' = 0 /\ failed' = None
         ELSE UNCHANGED <<cur_num_nodes, next_node_id, failed>>
  BY DEF Disconnect
<1>2. failed' = failed /\ cur_num_nodes' = cur_num_nodes
  BY <1>1 DEF GroupInv, FailedGroupIsQuiet
<1>3. next_node_id' \in Nat
  BY <1>1 DEF GroupInv, GroupTypeOK
<1>4. Registered' = Registered
  BY <1>1 DEF Registered
<1>5. GroupTypeOK'
  BY <1>1, <1>2, <1>3 DEF GroupInv, GroupTypeOK
<1>6. MembershipConsistent'
  <2>1. nodes = {} \/ next_node_id' = next_node_id
    <3>1. CASE Registered = {}
      <4>1. {n.id : n \in nodes} = {}
        BY <3>1 DEF GroupInv, MembershipConsistent
      <4> QED BY <4>1
    <3> QED BY <3>1, <1>1
  <2> QED BY <1>1, <1>4, <2>1 DEF GroupInv, MembershipConsistent
<1>7. WaitersAreMembers' /\ FailedGroupIsQuiet'
  BY <1>1, <1>2, <1>4 DEF GroupInv, WaitersAreMembers, Waits, FailedGroupIsQuiet
<1>8. Announced' /\ GrantsPast' /\ NoStalePeers'
  BY <1>1, <1>2, <1>4 DEF GroupInv, Announced, GrantsPast, NoStalePeers, Members
<1> QED BY <1>5, <1>6, <1>7, <1>8 DEF GroupInv

(* The initial state: no members, no requests, no grants.                   *)
LEMMA InitGroup == Init => GroupInv
<1> SUFFICES ASSUME Init PROVE GroupInv
  OBVIOUS
<1>1. Registered = {}
  BY DEF Init, Registered
<1>2. GroupTypeOK
  BY DEF Init, GroupTypeOK
<1>3. MembershipConsistent /\ FailedGroupIsQuiet /\ Announced /\ GrantsPast /\ NoStalePeers
  BY <1>1 DEF Init, MembershipConsistent, FailedGroupIsQuiet, Announced, GrantsPast,
              NoStalePeers
<1>4. WaitersAreMembers
  BY <1>1, EmptyWaits DEF Init, WaitersAreMembers
<1> QED BY <1>2, <1>3, <1>4 DEF GroupInv

(* Every request that process_request handles keeps the group consistent.   *)
LEMMA ProcessKeeps ==
  ASSUME GroupInv, NEW s \in Sessions, NEW id \in Nat, NEW r \in RemoteRequest,
         ProcessRequest(s, id, r), issued' \in [Sessions -> Nat]
  PROVE  GroupInv'
<1>1. r.kind = "register" => r \in Registers
  BY DEF RemoteRequest, BeginMsg, FinishMsg
<1>2. r.kind = "begin" => \E spec \in Specs : r = BeginMsg(spec)
  BY RegistersAssumption DEF RemoteRequest, FinishMsg
<1>3. CASE RefuseFailed(s, id, r) \/ RegisterRefused(s, id, r) \/ BeginRefused(s, id, r)
             \/ FinishRefused(s, id, r)
  <2>1. UNCHANGED group
    BY <1>3 DEF RefuseFailed, RegisterRefused, BeginRefused, FinishRefused, Refuse
  <2> QED BY <2>1, GroupUnchanged
<1>4. CASE RegisterWaits(s, id, r)
  BY <1>4, <1>1, RegisterWaitsKeeps DEF RegisterWaits, Enroll
<1>5. CASE RegisterCompletes(s, id, r)
  BY <1>5, <1>1, RegisterCompletesKeeps DEF RegisterCompletes, Enroll
<1>6. CASE BeginWaits(s, id, r)
  <2>1. PICK spec \in Specs : r = BeginMsg(spec)
    BY <1>6, <1>2 DEF BeginWaits
  <2> QED BY <1>6, <2>1, BeginWaitsKeeps
<1>7. CASE BeginAgrees(s, id, r)
  <2>1. PICK spec \in Specs : r = BeginMsg(spec)
    BY <1>7, <1>2 DEF BeginAgrees, BeginLast
  <2> QED BY <1>7, <2>1, BeginAgreesKeeps
<1>8. CASE BeginDisagrees(s, id, r)
  <2>1. PICK spec \in Specs : r = BeginMsg(spec)
    BY <1>8, <1>2 DEF BeginDisagrees, BeginLast
  <2> QED BY <1>8, <2>1, BeginDisagreesKeeps
<1>9. CASE Finish(s, id, r)
  BY <1>9, LeaveKeeps DEF Finish
<1> QED
  BY <1>3, <1>4, <1>5, <1>6, <1>7, <1>8, <1>9 DEF ProcessRequest

(* disconnect keeps the group consistent too.                               *)
LEMMA DisconnectKeeps ==
  ASSUME GroupInv, NEW s \in Sessions, Disconnect(s)
  PROVE  GroupInv'
<1>1. issued' \in [Sessions -> Nat]
  BY DEF Disconnect, GroupInv, GroupTypeOK
<1>2. CASE s \in Registered
  BY <1>1, <1>2, LeaveKeeps DEF Disconnect
<1>3. CASE s \notin Registered
  BY <1>3, DisconnectStrangerKeeps
<1> QED BY <1>2, <1>3

(* The invariant is preserved by every step.                                *)
LEMMA NextGroup == GroupInv /\ [Next]_vars => GroupInv'
<1> SUFFICES ASSUME GroupInv, [Next]_vars PROVE GroupInv'
  OBVIOUS
<1>1. issued \in [Sessions -> Nat]
  BY DEF GroupInv, GroupTypeOK
<1>2. CASE UNCHANGED vars
  BY <1>1, <1>2, GroupUnchanged DEF vars
<1>3. ASSUME NEW s \in Sessions, InitSession(s) \/ GetSessionResponder(s) \/ Receive(s)
      PROVE  GroupInv'
  BY <1>1, <1>3, GroupUnchanged DEF InitSession, GetSessionResponder, Receive
<1>4. ASSUME NEW s \in Sessions, Disconnect(s)
      PROVE  GroupInv'
  BY <1>4, DisconnectKeeps
<1>5. ASSUME NEW s \in Sessions, RequestAny(s)
      PROVE  GroupInv'
  <2>1. PICK r \in RemoteRequest : /\ issued' = [issued EXCEPT ![s] = @ + 1]
                                   /\ ProcessRequest(s, issued[s] + 1, r)
    BY <1>5 DEF RequestAny
  <2>2. issued[s] + 1 \in Nat /\ issued' \in [Sessions -> Nat]
    BY <1>1, <2>1
  <2> QED BY <2>1, <2>2, ProcessKeeps
<1> QED BY <1>2, <1>3, <1>4, <1>5 DEF Next

(* The inductive invariant of the orchestrator holds in every reachable     *)
(* state, whatever the sessions call and in whatever order.                 *)
THEOREM GroupInvariant == Spec => []GroupInv
  BY InitGroup, NextGroup, PTL DEF Spec

(* Registrations, finishes and lost sockets in any order leave tables that  *)
(* describe one membership (registered_nodes, node_addresses, node_peers).  *)
THEOREM MembershipStaysConsistent == Spec => []MembershipConsistent
<1>1. GroupInv => MembershipConsistent
  BY DEF GroupInv
<1> QED BY <1>1, GroupInvariant, PTL

(* Whoever waits for a response to Register or Begin is a member and waits  *)
(* once (register_requests, pending_collectives).                           *)
THEOREM WaitersStayMembers == Spec => []WaitersAreMembers
<1>1. GroupInv => WaitersAreMembers
  BY DEF GroupInv
<1> QED BY <1>1, GroupInvariant, PTL

(* disconnect and finish leave nobody waiting in a group that failed, and   *)
(* a group is over exactly when its last member left.                       *)
THEOREM FailedGroupStaysQuiet == Spec => []FailedGroupIsQuiet
<1>1. GroupInv => FailedGroupIsQuiet
  BY DEF GroupInv
<1> QED BY <1>1, GroupInvariant, PTL

(* The tables of the orchestrator, its waiting lists and its failure flag   *)
(* agree after any sequence of calls of its methods.                        *)
THEOREM GroupStaysConsistent == Spec => []GroupConsistent
<1>1. GroupInv => GroupConsistent
  BY DEF GroupInv, GroupConsistent
<1> QED BY <1>1, GroupInvariant, PTL

(* A collective is granted only to members that all know one and the same   *)
(* group, of which they are the nodes: agree_collective never uses peers    *)
(* that have left.                                                          *)
THEOREM GrantsUsePresentPeers == Spec => []NoStalePeers
<1>1. GroupInv => NoStalePeers
  BY DEF GroupInv
<1> QED BY <1>1, GroupInvariant, PTL

-----------------------------------------------------------------------------
(* What agree_collective lets pass.                                         *)

(* Requests that agree_collective accepts ask for one collective: equal     *)
(* descriptions, or broadcasts by one strategy with exactly one source.     *)
LEMMA AgreedRequests ==
  ASSUME NEW ws \in Seq([session : Sessions, request : Nat, spec : Specs]), ws # <<>>,
         AgreementError(ws) = "ok"
  PROVE  LET first == ws[1].spec IN
         /\ \A i \in DOMAIN ws : ws[i].spec.kind = first.kind
                                /\ ws[i].spec.strategy = first.strategy
         /\ first.kind # "Broadcast" => \A i \in DOMAIN ws : ws[i].spec = first
         /\ first.kind = "Broadcast" =>
              \A i, j \in DOMAIN ws : ws[i].spec.source /\ ws[j].spec.source => i = j
<1> DEFINE first == ws[1].spec
           sources == {i \in DOMAIN ws : ws[i].spec.kind = "Broadcast" /\ ws[i].spec.source}
           second == {i \in sources : \E j \in sources : j < i}
           misfits == {i \in DOMAIN ws : Misfit(first, ws[i].spec)}
<1>1. CASE first.kind # "Broadcast"
  <2>1. \A i \in DOMAIN ws : ws[i].spec = first
    BY <1>1 DEF AgreementError
  <2> QED BY <1>1, <2>1
<1>2. CASE first.kind = "Broadcast"
  <2>1. second = {}
    BY <1>2 DEF AgreementError
  <2>2. misfits = {}
    BY <1>2, <2>1 DEF AgreementError
  <2>3. \A i \in DOMAIN ws : ws[i].spec.kind = "Broadcast"
                           /\ ws[i].spec.strategy = first.strategy
    BY <2>2 DEF Misfit
  <2>4. DOMAIN ws \subseteq Nat
    OBVIOUS
  <2>5. \A i, j \in DOMAIN ws : ws[i].spec.source /\ ws[j].spec.source => i = j
    <3>1. ASSUME NEW i \in DOMAIN ws, NEW j \in DOMAIN ws,
                 ws[i].spec.source, ws[j].spec.source, i # j
          PROVE  FALSE
      <4>1. i \in sources /\ j \in sources
        BY <3>1, <2>3
      <4>2. i < j \/ j < i
        BY <3>1, <2>4
      <4> QED BY <4>1, <4>2, <2>1
    <3> QED BY <3>1
  <2> QED BY <1>2, <2>3, <2>5
<1> QED BY <1>1, <1>2

(* process_request keeps the grants of one collective in agreement: only    *)
(* the last Begin adds grants, under a transfer id that was never used.     *)
LEMMA ProcessAgrees ==
  ASSUME GroupInv, CollectivesAgree, NEW s \in Sessions, NEW id \in Nat,
         NEW r \in RemoteRequest, ProcessRequest(s, id, r)
  PROVE  CollectivesAgree'
<1>1. CASE begun' = begun
  BY <1>1 DEF CollectivesAgree
<1>2. CASE BeginAgrees(s, id, r)
  <2>1. PICK spec \in Specs : r = BeginMsg(spec)
    BY <1>2, RegistersAssumption DEF BeginAgrees, BeginLast, RemoteRequest, FinishMsg
  <2> DEFINE ws == Begins(s, id, BeginMsg(spec))
             B == [session : Sessions, request : Nat, spec : Specs]
             x == next_transfer_id
  <2>2. PICK root \in {n.id : n \in nodes} :
          /\ IsRoot(ws, root)
          /\ begun' = begun \cup
               {[transfer |-> x, root |-> root, session |-> ws[i].session,
                 node |-> registered_nodes[ws[i].session], spec |-> ws[i].spec,
                 members |-> told[ws[i].session]] : i \in DOMAIN ws}
    BY <1>2, <2>1 DEF BeginAgrees
  <2>3. AgreementError(ws) = "ok" /\ BeginError(s) = "ok" /\ failed = None
    BY <1>2, <2>1 DEF BeginAgrees, BeginLast
  <2>4. /\ ws \in Seq(B) /\ ws # <<>>
        /\ \A i, j \in DOMAIN ws : ws[i].session = ws[j].session => i = j
        /\ Waits(ws) \subseteq Registered
    BY <2>3, BeginFacts
  <2> DEFINE G(i) == [transfer |-> x, root |-> root, session |-> ws[i].session,
                      node |-> registered_nodes[ws[i].session], spec |-> ws[i].spec,
                      members |-> told[ws[i].session]]
  <2>5. begun' = begun \cup {G(i) : i \in DOMAIN ws}
    BY <2>2
  <2> HIDE DEF ws
  <2>6. /\ \A i \in DOMAIN ws : ws[i].spec.kind = ws[1].spec.kind
                               /\ ws[i].spec.strategy = ws[1].spec.strategy
        /\ ws[1].spec.kind # "Broadcast" => \A i \in DOMAIN ws : ws[i].spec = ws[1].spec
        /\ ws[1].spec.kind = "Broadcast" =>
             \A i, j \in DOMAIN ws : ws[i].spec.source /\ ws[j].spec.source => i = j
    BY <2>3, <2>4, AgreedRequests
  <2>7. \A i \in DOMAIN ws : /\ G(i).transfer = x /\ G(i).root = root
                            /\ G(i).node = registered_nodes[ws[i].session]
                            /\ G(i).spec = ws[i].spec
    OBVIOUS
  <2> HIDE DEF G
  <2>8. \A g \in begun : g.transfer < x /\ g.transfer \in Nat /\ x \in Nat
    BY DEF GroupInv, GroupTypeOK, GrantsPast, Grant
  <2>9. \A i, j \in DOMAIN ws :
          registered_nodes[ws[i].session] = registered_nodes[ws[j].session] => i = j
    <3>1. \A i \in DOMAIN ws : ws[i].session \in Registered
      BY <2>4 DEF Waits
    <3> QED BY <2>4, <3>1 DEF GroupInv, MembershipConsistent
  <2>10. ASSUME ws[1].spec.kind = "Broadcast", NEW i \in DOMAIN ws
         PROVE  ws[i].spec.source <=> registered_nodes[ws[i].session] = root
    <3>1. PICK k \in DOMAIN ws : ws[k].spec.source /\ root = registered_nodes[ws[k].session]
      BY <2>2, <2>10 DEF IsRoot
    <3>2. ws[i].spec.source => i = k
      BY <3>1, <2>6, <2>10
    <3>3. registered_nodes[ws[i].session] = root => i = k
      BY <3>1, <2>9
    <3> QED BY <3>1, <3>2, <3>3
  <2>11. ASSUME NEW a \in begun', NEW b \in begun', a.transfer = b.transfer
         PROVE  /\ a.spec.kind = b.spec.kind /\ a.spec.strategy = b.spec.strategy
                /\ a.spec.kind # "Broadcast" => a.spec = b.spec
                /\ a.spec.kind = "Broadcast" => (a.spec.source <=> a.node = a.root)
    <3>1. CASE a \in begun
      <4>1. b \in begun
        BY <3>1, <2>11, <2>5, <2>7, <2>8
      <4> QED BY <3>1, <4>1, <2>11 DEF CollectivesAgree
    <3>2. CASE a \notin begun
      <4>1. PICK i \in DOMAIN ws : a = G(i)
        BY <3>2, <2>11, <2>5
      <4>2. a.transfer = x
        BY <4>1, <2>7
      <4>3. b \notin begun
        BY <4>2, <2>11, <2>8
      <4>4. PICK j \in DOMAIN ws : b = G(j)
        BY <4>3, <2>11, <2>5
      <4>5. a.spec = ws[i].spec /\ b.spec = ws[j].spec /\ a.root = root
            /\ a.node = registered_nodes[ws[i].session]
        BY <4>1, <4>4, <2>7
      <4> QED BY <4>5, <2>6, <2>10
    <3> QED BY <3>1, <3>2
  <2> QED BY <2>11 DEF CollectivesAgree
<1>3. begun' = begun \/ BeginAgrees(s, id, r)
  BY DEF ProcessRequest, RefuseFailed, RegisterRefused, BeginRefused,
     FinishRefused, Refuse, group, RegisterWaits, RegisterCompletes, Enroll,
     BeginWaits, BeginDisagrees, Finish, Leave
<1> QED BY <1>1, <1>2, <1>3

(* Every step keeps the grants of one collective in agreement.              *)
LEMMA NextAgrees ==
  ASSUME GroupInv, CollectivesAgree, [Next]_vars
  PROVE  CollectivesAgree'
<1>1. CASE begun' = begun
  BY <1>1 DEF CollectivesAgree
<1>2. ASSUME NEW s \in Sessions, RequestAny(s)
      PROVE  CollectivesAgree'
  <2>1. PICK r \in RemoteRequest : ProcessRequest(s, issued[s] + 1, r)
    BY <1>2 DEF RequestAny
  <2>2. issued[s] + 1 \in Nat
    BY DEF GroupInv, GroupTypeOK
  <2> QED BY <2>1, <2>2, ProcessAgrees
<1>3. ASSUME NEW s \in Sessions,
             InitSession(s) \/ GetSessionResponder(s) \/ Receive(s) \/ Disconnect(s)
      PROVE  begun' = begun
  BY <1>3 DEF InitSession, GetSessionResponder, Receive, Disconnect, Leave, group
<1>4. UNCHANGED vars => begun' = begun
  BY DEF vars, group
<1> QED BY <1>1, <1>2, <1>3, <1>4 DEF Next

(* "differing operation orders fail before data transfer begins": members   *)
(* that agree_collective grants one collective asked for the same one, and  *)
(* the root of a broadcast is the only member that brought the tensor.      *)
THEOREM GrantsAgree == Spec => []CollectivesAgree
<1>1. Init => CollectivesAgree
  BY DEF Init, CollectivesAgree
<1>2. GroupInv /\ CollectivesAgree /\ [Next]_vars => CollectivesAgree'
  BY NextAgrees
<1> QED BY <1>1, <1>2, GroupInvariant, PTL DEF Spec

-----------------------------------------------------------------------------
(* Induction, in the form the provers can use: a set of counterexamples     *)
(* that is not empty has a smallest element.                                *)
LEMMA LeastElement ==
  ASSUME NEW S \in SUBSET Nat, S # {}
  PROVE  \E x \in S : \A y \in S : x <= y
<1> DEFINE R == {ss \in Nat \X Nat : ss[1] < ss[2]}
<1>1. IsWellFoundedOn(R, Nat)
  <2>1. OpToRel(<, Nat) = R
    BY DEF OpToRel
  <2> QED BY <2>1, NatLessThanWellFounded
<1>2. PICK x \in S : \A y \in S : ~(<<y, x>> \in R)
  <2> HIDE DEF R
  <2> QED BY <1>1, WFMin
<1>3. ASSUME NEW y \in S PROVE x <= y
  <2>1. y \in Nat /\ x \in Nat
    OBVIOUS
  <2>2. ~(y < x)
    BY <1>2, <2>1, Zenon
  <2> QED BY <2>1, <2>2
<1> QED BY <1>3

(* The same for the subsets of a finite set.                                *)
LEMMA LeastSubset ==
  ASSUME NEW S, IsFiniteSet(S), NEW T \in SUBSET (SUBSET S), T # {}
  PROVE  \E x \in T : \A y \in T : y \subseteq x => y = x
<1>1. IsWellFoundedOn(StrictSubsetOrdering(S), SUBSET S)
  BY FS_StrictSubsetOrderingWellFounded, FS_FiniteSubsetsOfFinite
<1>2. PICK x \in T : \A y \in T : ~(<<y, x>> \in StrictSubsetOrdering(S))
  BY <1>1, WFMin
<1>3. ASSUME NEW y \in T, y \subseteq x, y # x PROVE FALSE
  <2>1. <<y, x>> \in StrictSubsetOrdering(S)
    BY <1>3 DEF StrictSubsetOrdering
  <2> QED BY <2>1, <1>2
<1> QED BY <1>3

(* Disjoint finite sets of peers, counted node by node (num_global_peers    *)
(* after a loss), are counted once each.                                    *)
LEMMA PeerCountCounts ==
  ASSUME NEW ns, IsFiniteSet(ns), \A n \in ns : IsFiniteSet(n.peers),
         \A m, n \in ns : m # n => m.peers \cap n.peers = {}
  PROVE  /\ IsFiniteSet(UNION {n.peers : n \in ns})
         /\ PeerCount(ns) = Cardinality(UNION {n.peers : n \in ns})
<1> DEFINE U(T) == UNION {n.peers : n \in T}
           pick(T) == CHOOSE x \in T : TRUE
           Step(f) == [T \in SUBSET ns |-> IF T = {} THEN 0
                         ELSE Cardinality(pick(T).peers) + f[T \ {pick(T)}]]
<1>1. PeerCount(ns) = (CHOOSE f : f = Step(f))[ns]
  BY DEF PeerCount, MapThenSumSet, MapThenFoldSet
<1>2. \A T \in SUBSET ns : T # {} => pick(T) \in T
  OBVIOUS
<1> HIDE DEF pick
<1>3. ASSUME NEW T \in SUBSET ns, NEW x \in T
      PROVE  U(T) = x.peers \cup U(T \ {x}) /\ x.peers \cap U(T \ {x}) = {}
  <2>1. U(T) = x.peers \cup U(T \ {x})
    BY <1>3
  <2>2. \A n \in T \ {x} : x.peers \cap n.peers = {}
    BY <1>3
  <2> QED BY <2>1, <2>2
<1>4. U({}) = {}
  OBVIOUS
<1> HIDE DEF U
<1>5. \A T \in SUBSET ns : IsFiniteSet(U(T))
  <2> DEFINE Bad == {T \in SUBSET ns : ~IsFiniteSet(U(T))}
  <2>1. SUFFICES ASSUME Bad # {} PROVE FALSE
    OBVIOUS
  <2>2. PICK T \in Bad : \A y \in Bad : y \subseteq T => y = T
    <3>1. Bad \in SUBSET (SUBSET ns)
      OBVIOUS
    <3> HIDE DEF Bad
    <3> QED BY <2>1, <3>1, LeastSubset
  <2>3. T # {}
    BY <1>4, FS_EmptySet
  <2>4. PICK x \in T : TRUE
    BY <2>3
  <2>5. IsFiniteSet(U(T \ {x})) /\ IsFiniteSet(x.peers)
    BY <2>2, <2>4
  <2>6. IsFiniteSet(x.peers \cup U(T \ {x}))
    BY <2>5, FS_Union
  <2> QED BY <2>4, <2>6, <1>3
<1>6. \A T \in SUBSET ns : T # {} =>
        Cardinality(U(T)) = Cardinality(pick(T).peers) + Cardinality(U(T \ {pick(T)}))
  <2>1. SUFFICES ASSUME NEW T \in SUBSET ns, NEW x \in T
                 PROVE  Cardinality(U(T)) = Cardinality(x.peers) + Cardinality(U(T \ {x}))
    BY <1>2
  <2>2. IsFiniteSet(x.peers) /\ IsFiniteSet(U(T \ {x}))
    BY <1>5
  <2>3. U(T) = x.peers \cup U(T \ {x}) /\ x.peers \cap U(T \ {x}) = {}
    BY <1>3
  <2>4. Cardinality(x.peers) \in Nat /\ Cardinality(U(T \ {x})) \in Nat
    BY <2>2, FS_CardinalityType
  <2>5. Cardinality({}) = 0
    BY FS_EmptySet
  <2>6. Cardinality(x.peers \cup U(T \ {x})) =
           Cardinality(x.peers) + Cardinality(U(T \ {x})) - Cardinality(x.peers \cap U(T \ {x}))
    BY <2>2, FS_Union
  <2>7. Cardinality(U(T)) = Cardinality(x.peers \cup U(T \ {x}))
        /\ Cardinality(x.peers \cap U(T \ {x})) = 0
    BY <2>3, <2>5, Zenon
  <2> QED BY <2>4, <2>6, <2>7
<1> DEFINE F == [T \in SUBSET ns |-> Cardinality(U(T))]
<1>7. F = Step(F)
  <2>1. ASSUME NEW T \in SUBSET ns PROVE F[T] = Step(F)[T]
    <3>1. CASE T = {}
      BY <3>1, <1>4, FS_EmptySet
    <3>2. CASE T # {}
      BY <3>2, <1>6
    <3> QED BY <3>1, <3>2
  <2> QED BY <2>1
<1>8. PICK f : f = (CHOOSE h : h = Step(h)) /\ f = Step(f)
  <2> HIDE DEF F, Step
  <2> QED BY <1>7
<1>9. \A T \in SUBSET ns : f[T] = Cardinality(U(T))
  <2> DEFINE Bad == {T \in SUBSET ns : f[T] # Cardinality(U(T))}
  <2>1. SUFFICES ASSUME Bad # {} PROVE FALSE
    OBVIOUS
  <2>2. PICK T \in Bad : \A y \in Bad : y \subseteq T => y = T
    <3>1. Bad \in SUBSET (SUBSET ns)
      OBVIOUS
    <3> HIDE DEF Bad
    <3> QED BY <2>1, <3>1, LeastSubset
  <2>3. f[T] = IF T = {} THEN 0 ELSE Cardinality(pick(T).peers) + f[T \ {pick(T)}]
    BY <1>8
  <2>4. T # {}
    BY <2>3, <1>4, FS_EmptySet
  <2>5. T \ {pick(T)} \notin Bad /\ T \ {pick(T)} \in SUBSET ns
    BY <2>2, <2>4, <1>2
  <2> QED BY <2>3, <2>4, <2>5, <1>6
<1> QED BY <1>1, <1>5, <1>8, <1>9 DEF U

(* Response queues that keep to their capacity.                             *)
Queues == {qs \in [Sessions -> Seq(Response)] : \A s \in Sessions : Len(qs[s]) <= QueueCapacity}

Responses == [session : Sessions, request : Nat, reply : Reply]

(* try_send adds a response only where there is room.                       *)
LEMMA RespondQueues ==
  ASSUME NEW qs \in Queues, NEW r \in Responses
  PROVE  Respond(qs, r) \in Queues
<1>1. r.session \in Sessions /\ [request |-> r.request, reply |-> r.reply] \in Response
  BY DEF Responses, Response
<1> DEFINE m == [request |-> r.request, reply |-> r.reply]
           t == r.session
<1>2. qs \in [Sessions -> Seq(Response)] /\ \A s \in Sessions : Len(qs[s]) <= QueueCapacity
  BY DEF Queues
<1>3. CASE t \in sessions /\ HasRoom(qs[t])
  <2>1. Respond(qs, r) = [qs EXCEPT ![t] = Append(qs[t], m)]
    BY <1>3 DEF Respond
  <2>2. qs[t] \in Seq(Response)
    BY <1>1, <1>2
  <2>3. Append(qs[t], m) \in Seq(Response) /\ Len(Append(qs[t], m)) = Len(qs[t]) + 1
    <3>1. m \in Response
      BY <1>1
    <3> HIDE DEF m
    <3> QED BY <2>2, <3>1
  <2>4. Len(qs[t]) + 1 <= QueueCapacity
    BY <1>3, <2>2, BoundsAssumption DEF HasRoom
  <2> HIDE DEF m, t
  <2> QED BY <1>1, <1>2, <2>1, <2>3, <2>4 DEF Queues, t
<1>4. CASE ~(t \in sessions /\ HasRoom(qs[t]))
  BY <1>4 DEF Respond
<1> QED BY <1>3, <1>4

(* The responses are sent one after the other.                              *)
LEMMA RespondedSteps ==
  ASSUME NEW rs \in Seq(Responses)
  PROVE  \E f : /\ f[0] = queue
                /\ \A i \in 1 .. Len(rs) : f[i] = Respond(f[i - 1], rs[i])
                /\ Responded(rs) = f[Len(rs)]
<1> DEFINE Step(f, n) == [i \in 0 .. n |-> IF i = 0 THEN queue ELSE Respond(f[i - 1], rs[i])]
           N == Len(rs)
<1>1. N \in Nat /\ \A i \in 1 .. N : rs[i] \in Responses
  OBVIOUS
<1>2. Responded(rs) = (CHOOSE f : f = Step(f, N))[N]
  BY DEF Responded
<1> HIDE DEF N
<1>3. \A n \in 0 .. N : \E f : f = Step(f, n)
  <2> DEFINE Bad == {n \in 0 .. N : ~\E f : f = Step(f, n)}
  <2>1. SUFFICES ASSUME Bad # {} PROVE FALSE
    OBVIOUS
  <2>2. PICK n \in Bad : \A y \in Bad : n <= y
    <3>1. Bad \in SUBSET Nat
      BY <1>1
    <3> HIDE DEF Bad
    <3> QED BY <2>1, <3>1, LeastElement
  <2>3. n # 0
    <3>1. SUFFICES ASSUME n = 0 PROVE \E f : f = Step(f, 0)
      BY <2>2
    <3> DEFINE g == [i \in 0 .. 0 |-> queue]
    <3>2. g = Step(g, 0)
      OBVIOUS
    <3> HIDE DEF g
    <3> QED BY <3>2
  <2>4. n \in Nat /\ n - 1 \in 0 .. N
    BY <1>1, <2>2, <2>3
  <2>5. PICK g : g = Step(g, n - 1)
    <3>1. n - 1 \notin Bad
      BY <2>2, <2>4
    <3> QED BY <3>1, <2>4
  <2> DEFINE h == [i \in 0 .. n |-> IF i < n THEN g[i] ELSE Respond(g[n - 1], rs[n])]
  <2>6. h = Step(h, n)
    <3>1. ASSUME NEW i \in 0 .. n
          PROVE  h[i] = IF i = 0 THEN queue ELSE Respond(h[i - 1], rs[i])
      <4>1. CASE i = 0
        <5>1. g[0] = queue
          BY <2>4, <2>5
        <5> QED BY <4>1, <5>1, <2>3, <2>4
      <4>2. CASE i # 0 /\ i < n
        <5>1. g[i] = Respond(g[i - 1], rs[i])
          BY <4>2, <2>4, <2>5
        <5>2. h[i] = g[i] /\ h[i - 1] = g[i - 1]
          BY <4>2, <2>4
        <5> QED BY <4>2, <5>1, <5>2
      <4>3. CASE i = n
        <5>1. h[n] = Respond(g[n - 1], rs[n]) /\ h[n - 1] = g[n - 1]
          BY <2>3, <2>4
        <5> QED BY <4>3, <5>1, <2>3
      <4> QED BY <4>1, <4>2, <4>3, <2>4
    <3> QED BY <3>1
  <2>7. \E f : f = Step(f, n)
    <3> HIDE DEF h, Step
    <3> QED BY <2>6
  <2> QED BY <2>2, <2>7
<1>4. PICK f : f = (CHOOSE h : h = Step(h, N)) /\ f = Step(f, N)
  <2> HIDE DEF Step
  <2>1. N \in 0 .. N
    BY <1>1
  <2>2. \E h : h = Step(h, N)
    BY <2>1, <1>3
  <2> QED BY <2>2
<1>5. f[0] = queue /\ \A i \in 1 .. N : f[i] = Respond(f[i - 1], rs[i])
  <2>1. \A i \in 0 .. N : f[i] = IF i = 0 THEN queue ELSE Respond(f[i - 1], rs[i])
    <3>1. f = [i \in 0 .. N |-> IF i = 0 THEN queue ELSE Respond(f[i - 1], rs[i])]
      BY <1>4
    <3> QED BY <3>1, Zenon
  <2>2. 0 \in 0 .. N /\ \A i \in 1 .. N : i \in 0 .. N /\ i # 0
    BY <1>1
  <2> QED BY <2>1, <2>2
<1> QED BY <1>2, <1>4, <1>5 DEF N

(* Any number of responses, sent in order, leave queues within capacity.    *)
LEMMA RespondedQueues ==
  ASSUME NEW rs \in Seq(Responses), queue \in Queues
  PROVE  Responded(rs) \in Queues
<1> DEFINE N == Len(rs)
<1>1. N \in Nat /\ \A i \in 1 .. N : rs[i] \in Responses
  OBVIOUS
<1>2. PICK f : /\ f[0] = queue /\ \A i \in 1 .. N : f[i] = Respond(f[i - 1], rs[i])
               /\ Responded(rs) = f[N]
  BY RespondedSteps
<1> HIDE DEF N
<1>3. \A i \in 0 .. N : f[i] \in Queues
  <2> DEFINE Bad == {i \in 0 .. N : f[i] \notin Queues}
  <2>1. SUFFICES ASSUME Bad # {} PROVE FALSE
    OBVIOUS
  <2>2. PICK n \in Bad : \A y \in Bad : n <= y
    <3>1. Bad \in SUBSET Nat
      BY <1>1
    <3> HIDE DEF Bad
    <3> QED BY <2>1, <3>1, LeastElement
  <2>3. n # 0
    BY <1>2
  <2>4. n \in 1 .. N /\ n - 1 \in 0 .. N /\ n - 1 \notin Bad
    BY <1>1, <2>2, <2>3
  <2>5. f[n - 1] \in Queues /\ rs[n] \in Responses /\ f[n] = Respond(f[n - 1], rs[n])
    BY <1>1, <1>2, <2>4
  <2> QED BY <2>5, RespondQueues
<1> QED BY <1>1, <1>2, <1>3

(* A session that is sent nothing keeps its queue ...                       *)
LEMMA RespondedElsewhere ==
  ASSUME NEW rs \in Seq(Responses), queue \in Queues, NEW t \in Sessions,
         \A i \in DOMAIN rs : rs[i].session # t
  PROVE  Responded(rs)[t] = queue[t]
<1> DEFINE N == Len(rs)
<1>1. N \in Nat /\ \A i \in 1 .. N : rs[i] \in Responses /\ rs[i].session # t
  OBVIOUS
<1>2. PICK f : /\ f[0] = queue /\ \A i \in 1 .. N : f[i] = Respond(f[i - 1], rs[i])
               /\ Responded(rs) = f[N]
  BY RespondedSteps
<1> HIDE DEF N
<1>3. \A i \in 0 .. N : f[i] \in Queues /\ f[i][t] = queue[t]
  <2> DEFINE Bad == {i \in 0 .. N : ~(f[i] \in Queues /\ f[i][t] = queue[t])}
  <2>1. SUFFICES ASSUME Bad # {} PROVE FALSE
    OBVIOUS
  <2>2. PICK n \in Bad : \A y \in Bad : n <= y
    <3>1. Bad \in SUBSET Nat
      BY <1>1
    <3> HIDE DEF Bad
    <3> QED BY <2>1, <3>1, LeastElement
  <2>3. n # 0
    BY <1>2
  <2>4. n \in 1 .. N /\ n - 1 \in 0 .. N /\ n - 1 \notin Bad
    BY <1>1, <2>2, <2>3
  <2>5. /\ f[n - 1] \in Queues /\ f[n - 1][t] = queue[t]
        /\ rs[n] \in Responses /\ rs[n].session # t /\ f[n] = Respond(f[n - 1], rs[n])
    BY <1>1, <1>2, <2>4
  <2>6. f[n] \in Queues
    BY <2>5, RespondQueues
  <2>7. f[n][t] = f[n - 1][t]
    BY <2>5 DEF Respond, Queues
  <2> QED BY <2>2, <2>5, <2>6, <2>7
<1> QED BY <1>1, <1>2, <1>3

(* ... and one that is sent one response gets that one, or none.            *)
LEMMA RespondedOnce ==
  ASSUME NEW rs \in Seq(Responses), queue \in Queues, NEW k \in DOMAIN rs,
         \A i \in DOMAIN rs : rs[i].session = rs[k].session => i = k
  PROVE  LET t == rs[k].session IN
         Responded(rs)[t] \in
           {queue[t], Append(queue[t], [request |-> rs[k].request, reply |-> rs[k].reply])}
<1> DEFINE N == Len(rs)
           t == rs[k].session
           A == Append(queue[t], [request |-> rs[k].request, reply |-> rs[k].reply])
<1>1. /\ N \in Nat /\ k \in 1 .. N
      /\ \A i \in 1 .. N : rs[i] \in Responses /\ (rs[i].session = t => i = k)
  OBVIOUS
<1>0. t \in Sessions
  BY <1>1 DEF Responses
<1>2. PICK f : /\ f[0] = queue /\ \A i \in 1 .. N : f[i] = Respond(f[i - 1], rs[i])
               /\ Responded(rs) = f[N]
  BY RespondedSteps
<1> HIDE DEF N, t, A
<1> DEFINE Good(i) == /\ f[i] \in Queues
                      /\ i < k => f[i][t] = queue[t]
                      /\ i >= k => f[i][t] \in {queue[t], A}
<1>3. \A i \in 0 .. N : Good(i)
  <2> DEFINE Bad == {i \in 0 .. N : ~Good(i)}
  <2>1. SUFFICES ASSUME Bad # {} PROVE FALSE
    OBVIOUS
  <2>2. PICK n \in Bad : \A y \in Bad : n <= y
    <3>1. Bad \in SUBSET Nat
      BY <1>1
    <3> HIDE DEF Bad
    <3> QED BY <2>1, <3>1, LeastElement
  <2>3. n # 0
    BY <1>1, <1>2
  <2>4. n \in 1 .. N /\ n - 1 \in 0 .. N /\ n - 1 \notin Bad
    BY <1>1, <2>2, <2>3
  <2>5. /\ f[n - 1] \in Queues /\ Good(n - 1)
        /\ rs[n] \in Responses /\ f[n] = Respond(f[n - 1], rs[n])
    BY <1>1, <1>2, <2>4
  <2>6. f[n] \in Queues
    BY <2>5, RespondQueues
  <2>7. CASE n # k
    <3>1. rs[n].session # t
      BY <1>1, <2>4, <2>7
    <3>2. f[n][t] = f[n - 1][t]
      BY <2>5, <3>1 DEF Respond, Queues
    <3>3. Good(n)
      BY <1>1, <2>4, <2>5, <2>6, <2>7, <3>2
    <3> QED BY <2>2, <3>3
  <2>8. CASE n = k
    <3>1. f[n - 1][t] = queue[t] /\ rs[n].session = t
      BY <1>1, <2>4, <2>5, <2>8 DEF t
    <3>2. f[n][t] \in {queue[t], A}
      BY <1>0, <2>5, <2>8, <3>1 DEF Respond, Queues, A
    <3>3. Good(n)
      BY <1>1, <2>6, <2>8, <3>2
    <3> QED BY <2>2, <3>3
  <2> QED BY <2>7, <2>8
<1>4. N \in 0 .. N /\ N >= k
  BY <1>1
<1>5. f[N][t] \in {queue[t], A}
  BY <1>3, <1>4
<1> QED BY <1>2, <1>5 DEF t, A

(* The rows of node_peers are as few as the sessions.                       *)
LEMMA NodesFinite ==
  ASSUME GroupInv
  PROVE  IsFiniteSet(nodes)
<1> DEFINE f == [n \in nodes |-> CHOOSE s \in Registered : registered_nodes[s] = n.id]
<1>1. \A n \in nodes : f[n] \in Registered /\ registered_nodes[f[n]] = n.id
  BY DEF GroupInv, MembershipConsistent
<1>2. \A m, n \in nodes : m.id = n.id => m = n
  BY DEF GroupInv, MembershipConsistent
<1>3. f \in Injection(nodes, Registered)
  <2>1. f \in [nodes -> Registered]
    BY <1>1
  <2>2. \A m, n \in nodes : f[m] = f[n] => m = n
    BY <1>1, <1>2
  <2> HIDE DEF f
  <2> QED BY <2>1, <2>2 DEF Injection, IsInjective
<1>4. Registered \in SUBSET Sessions
  BY DEF Registered
<1>5. IsFiniteSet(Registered)
  BY <1>4, SessionsAssumption, FS_Subset
<1> HIDE DEF f
<1> QED BY <1>3, <1>5, FS_Injection

(* A list without repetitions has as many elements as entries.              *)
LEMMA DistinctPeers ==
  ASSUME NEW ps \in Seq(Peers), \A i, j \in DOMAIN ps : i # j => ps[i] # ps[j]
  PROVE  LET P == {ps[i] : i \in DOMAIN ps}
         IN IsFiniteSet(P) /\ Cardinality(P) = Len(ps)
<1> DEFINE D == 1 .. Len(ps)
           P == {ps[i] : i \in DOMAIN ps}
           f == [i \in D |-> ps[i]]
<1>1. DOMAIN ps = D /\ Len(ps) \in Nat
  OBVIOUS
<1>2. IsFiniteSet(D) /\ Cardinality(D) = Len(ps)
  <2>1. 1 \in Int /\ Len(ps) \in Int
    BY <1>1
  <2>2. IsFiniteSet(D) /\ Cardinality(D) = IF 1 > Len(ps) THEN 0 ELSE Len(ps) - 1 + 1
    BY <2>1, FS_Interval
  <2> QED BY <1>1, <2>2
<1>3. f \in Surjection(D, P) /\ f \in Injection(D, P)
  BY <1>1 DEF Surjection, Injection, IsInjective
<1> HIDE DEF f, P, D
<1>4. IsFiniteSet(P) /\ (Cardinality(P) = Cardinality(D) <=> f \in Injection(D, P))
  BY <1>2, <1>3, FS_Surjection
<1> QED BY <1>2, <1>3, <1>4 DEF P

(* A node that registers gets a row of its own, with peers nobody has.      *)
LEMMA EnrollNodes ==
  ASSUME GroupInv, NEW s \in Sessions, NEW id \in Nat, NEW r \in Registers,
         Enroll(s, id, r)
  PROVE  LET P == {r.peers[i] : i \in DOMAIN r.peers}
             new == [id |-> next_node_id, addr |-> r.addr, peers |-> P]
         IN /\ nodes' = nodes \cup {new}
            /\ \A n \in nodes : n.peers \cap P = {}
            /\ IsFiniteSet(P) /\ Cardinality(P) = Len(r.peers)
            /\ num_global_peers' = num_global_peers + Len(r.peers)
<1>1. \A n \in nodes : n.id # next_node_id
  <2>1. \A n \in nodes : n.id \in Nat /\ n.id < next_node_id
    BY DEF GroupInv, GroupTypeOK, MembershipConsistent, Node, NodeId
  <2> QED BY <2>1 DEF GroupInv, GroupTypeOK
<1>2. r.peers \in Seq(Peers)
  BY RegistersAssumption
<1>3. /\ \A i, j \in DOMAIN r.peers : i # j => r.peers[i] # r.peers[j]
      /\ \A n \in nodes : \A i \in DOMAIN r.peers : r.peers[i] \notin n.peers
  BY DEF Enroll, RegisterError
<1>4. LET P == {r.peers[i] : i \in DOMAIN r.peers}
      IN IsFiniteSet(P) /\ Cardinality(P) = Len(r.peers)
  BY <1>2, <1>3, DistinctPeers
<1> QED BY <1>1, <1>3, <1>4 DEF Enroll

(* num_global_peers grows by the peers of a node that registers.            *)
LEMMA EnrollTallies ==
  ASSUME GroupInv, PeersTallied, NEW s \in Sessions, NEW id \in Nat, NEW r \in Registers,
         Enroll(s, id, r)
  PROVE  PeersTallied'
<1> DEFINE P == {r.peers[i] : i \in DOMAIN r.peers}
           new == [id |-> next_node_id, addr |-> r.addr, peers |-> P]
           U == UNION {n.peers : n \in nodes}
<1>1. /\ nodes' = nodes \cup {new}
      /\ \A n \in nodes : n.peers \cap P = {}
      /\ IsFiniteSet(P) /\ Cardinality(P) = Len(r.peers)
      /\ num_global_peers' = num_global_peers + Len(r.peers)
  BY EnrollNodes
<1>2. new.peers = P
  OBVIOUS
<1> HIDE DEF new, P
<1>3. UNION {n.peers : n \in nodes'} = U \cup P /\ U \cap P = {}
  BY <1>1, <1>2
<1>4. IsFiniteSet(U)
  BY NodesFinite, PeerCountCounts DEF PeersTallied, GroupInv, MembershipConsistent
<1>5. Cardinality(U \cup P) = Cardinality(U) + Cardinality(P)
  <2>1. Cardinality(U \cup P) = Cardinality(U) + Cardinality(P) - Cardinality(U \cap P)
    BY <1>1, <1>4, FS_Union
  <2>2. Cardinality(U \cap P) = 0
    BY <1>3, FS_EmptySet
  <2>3. Cardinality(U) \in Nat /\ Cardinality(P) \in Nat
    BY <1>1, <1>4, FS_CardinalityType
  <2> HIDE DEF U
  <2> QED BY <2>1, <2>2, <2>3
<1>6. PeersCounted'
  BY <1>1, <1>3, <1>5 DEF PeersTallied, PeersCounted
<1>7. num_global_peers' \in Nat
  <2>1. Cardinality(P) \in Nat
    BY <1>1, FS_CardinalityType
  <2> QED BY <1>1, <2>1 DEF PeersTallied
<1>8. \A n \in nodes' : IsFiniteSet(n.peers)
  BY <1>1, <1>2 DEF PeersTallied
<1> QED BY <1>6, <1>7, <1>8 DEF PeersTallied

(* After a loss num_global_peers is counted anew from the rows that stay.   *)
LEMMA LeaveTallies ==
  ASSUME GroupInv, PeersTallied, NEW s \in Sessions, s \in Registered, Leave(s)
  PROVE  PeersTallied'
<1>1. nodes' \subseteq nodes /\ num_global_peers' = PeerCount(nodes')
  BY DEF Leave, Remaining
<1>2. IsFiniteSet(nodes')
  BY <1>1, NodesFinite, FS_Subset
<1>3. /\ \A n \in nodes' : IsFiniteSet(n.peers)
      /\ \A m, n \in nodes' : m # n => m.peers \cap n.peers = {}
  BY <1>1 DEF PeersTallied, GroupInv, MembershipConsistent
<1>4. /\ IsFiniteSet(UNION {n.peers : n \in nodes'})
      /\ PeerCount(nodes') = Cardinality(UNION {n.peers : n \in nodes'})
  BY <1>2, <1>3, PeerCountCounts
<1>5. Cardinality(UNION {n.peers : n \in nodes'}) \in Nat
  BY <1>4, FS_CardinalityType
<1> QED BY <1>1, <1>3, <1>4, <1>5 DEF PeersTallied, PeersCounted

(* Every reply the orchestrator sends is a response.                        *)
LEMMA ErrorReply ==
  ASSUME NEW e \in Errors
  PROVE  Error(e) \in Reply
  BY DEF Error, Reply

(* A reply to every session that waits is a list of responses.              *)
LEMMA ToAllResponses ==
  ASSUME NEW T, NEW ws \in Seq(T),
         \A t \in T : t.session \in Sessions /\ t.request \in Nat,
         NEW reply \in Reply
  PROVE  ToAll(ws, reply) \in Seq(Responses)
<1>1. \A i \in DOMAIN ws : ws[i] \in T
  OBVIOUS
<1>2. \A i \in DOMAIN ws :
        [session |-> ws[i].session, request |-> ws[i].request, reply |-> reply] \in Responses
  BY <1>1 DEF Responses
<1>3. DOMAIN ws = 1 .. Len(ws) /\ Len(ws) \in Nat
  OBVIOUS
<1> QED BY <1>2, <1>3 DEF ToAll

(* So is a reply to one session,                                            *)
LEMMA ToOneResponses ==
  ASSUME NEW s \in Sessions, NEW id \in Nat, NEW reply \in Reply
  PROVE  ToOne(s, id, reply) \in Seq(Responses)
<1>1. [session |-> s, request |-> id, reply |-> reply] \in Responses
  BY DEF Responses
<1> QED BY <1>1 DEF ToOne

(* and what the loss of a peer is answered with.                            *)
LEMMA LossesResponses ==
  ASSUME GroupInv
  PROVE  Losses \in Seq(Responses)
<1>1. Error("PeerLost") \in Reply
  BY ErrorReply DEF Errors
<1>2. ToAll(pending_collectives, Error("PeerLost")) \in Seq(Responses)
  <2> DEFINE B == [session : Sessions, request : Nat, spec : Specs]
  <2>1. pending_collectives \in Seq(B) /\ \A t \in B : t.session \in Sessions /\ t.request \in Nat
    BY DEF GroupInv, GroupTypeOK
  <2> HIDE DEF B
  <2> QED BY <1>1, <2>1, ToAllResponses
<1>3. ToAll(register_requests, Error("PeerLost")) \in Seq(Responses)
  <2> DEFINE W == [session : Sessions, request : Nat, node : NodeId]
  <2>1. register_requests \in Seq(W) /\ \A t \in W : t.session \in Sessions /\ t.request \in Nat
    BY DEF GroupInv, GroupTypeOK
  <2> HIDE DEF W
  <2> QED BY <1>1, <2>1, ToAllResponses
<1> QED BY <1>2, <1>3 DEF Losses

(* A refusal keeps the queues well formed.                                  *)
LEMMA RefuseQueues ==
  ASSUME QueuesOK, NEW s \in Sessions, NEW id \in Nat, NEW e \in Errors, Refuse(s, id, e)
  PROVE  queue' \in Queues
  BY ErrorReply, ToOneResponses, RespondedQueues DEF Refuse, QueuesOK, Queues

(* The last registration answers every session that waits, and its own.     *)
LEMMA RegisterResponses ==
  ASSUME GroupInv, PeersTallied, NEW s \in Sessions, NEW id \in Nat, NEW r \in Registers,
         RegisterCompletes(s, id, r)
  PROVE  \E rs \in Seq(Responses) :
           /\ queue' = Responded(rs)
           /\ DOMAIN rs = DOMAIN Enrolled(s, id)
           /\ \A i \in DOMAIN rs : /\ rs[i].session = Enrolled(s, id)[i].session
                                  /\ rs[i].reply.kind = "Register"
<1>1. Enroll(s, id, r)
  BY DEF RegisterCompletes
<1>2. PeersTallied'
  BY <1>1, EnrollTallies
<1> DEFINE W == [session : Sessions, request : Nat, node : NodeId]
           w == [session |-> s, request |-> id, node |-> next_node_id]
           ws == Enrolled(s, id)
           reply(i) == [kind |-> "Register", node |-> ws[i].node,
                        members |-> Members', devices |-> num_global_peers']
           rs == [i \in DOMAIN ws |->
                    [session |-> ws[i].session, request |-> ws[i].request, reply |-> reply(i)]]
<1>3. queue' = Responded(rs)
  BY DEF RegisterCompletes
<1>4. ws \in Seq(W)
  <2>1. w \in W /\ register_requests \in Seq(W) /\ ws = Append(register_requests, w)
    BY DEF GroupInv, GroupTypeOK, NodeId, Enrolled
  <2> HIDE DEF w, W, ws
  <2> QED BY <2>1, AppendDomain
<1> HIDE DEF ws
<1>5. Members' \subseteq Member
  BY <1>1, EnrollFacts DEF Members, Member, Node
<1>6. \A i \in DOMAIN ws : ws[i] \in W
  <2> HIDE DEF W
  <2> QED BY <1>4
<1>7. \A i \in DOMAIN ws : rs[i] \in Responses
  BY <1>2, <1>5, <1>6 DEF Responses, Reply, PeersTallied
<1>8. rs \in Seq(Responses)
  <2>1. DOMAIN ws = 1 .. Len(ws) /\ Len(ws) \in Nat
    BY <1>4
  <2>2. rs \in [1 .. Len(ws) -> Responses]
    BY <1>7, <2>1
  <2> HIDE DEF rs
  <2> QED BY <2>1, <2>2
<1>9. /\ DOMAIN rs = DOMAIN ws
      /\ \A i \in DOMAIN ws : rs[i].session = ws[i].session /\ rs[i].reply.kind = "Register"
  OBVIOUS
<1> HIDE DEF rs
<1> QED BY <1>3, <1>8, <1>9 DEF ws

(* Whatever a request is answered, the queues keep to their capacity.       *)
LEMMA RequestQueues ==
  ASSUME GroupInv, PeersTallied, QueuesOK, NEW s \in Sessions, NEW id \in Nat,
         NEW r \in RemoteRequest, ProcessRequest(s, id, r)
  PROVE  queue' \in Queues /\ PeersTallied'
<1>0. queue \in Queues
  BY DEF QueuesOK, Queues
<1>1. r.kind = "register" => r \in Registers
  BY DEF RemoteRequest, BeginMsg, FinishMsg
<1>2. r.kind = "begin" => \E spec \in Specs : r = BeginMsg(spec)
  BY RegistersAssumption DEF RemoteRequest, FinishMsg
<1>3. UNCHANGED group => PeersTallied'
  BY DEF group, PeersTallied, PeersCounted
<1>4. CASE RefuseFailed(s, id, r) \/ FinishRefused(s, id, r)
  <2>1. PICK e \in Errors : Refuse(s, id, e)
    BY <1>4 DEF RefuseFailed, FinishRefused, Errors
  <2> QED BY <2>1, <1>3, RefuseQueues DEF Refuse
<1>5. CASE RegisterRefused(s, id, r)
  <2>1. RegisterError(s, r) \in Errors
    BY <1>5 DEF RegisterRefused, RegisterError, Errors
  <2>2. Refuse(s, id, RegisterError(s, r))
    BY <1>5 DEF RegisterRefused
  <2> QED BY <2>1, <2>2, <1>3, RefuseQueues DEF Refuse
<1>6. CASE BeginRefused(s, id, r)
  <2>1. BeginError(s) \in Errors
    BY <1>6 DEF BeginRefused, BeginError, Errors
  <2>2. Refuse(s, id, BeginError(s))
    BY <1>6 DEF BeginRefused
  <2> QED BY <2>1, <2>2, <1>3, RefuseQueues DEF Refuse
<1>7. CASE RegisterWaits(s, id, r)
  <2>1. Enroll(s, id, r) /\ queue' = queue /\ r \in Registers
    BY <1>1, <1>7 DEF RegisterWaits, Enroll
  <2> QED BY <1>0, <2>1, EnrollTallies
<1>8. CASE RegisterCompletes(s, id, r)
  <2>1. Enroll(s, id, r) /\ r \in Registers
    BY <1>1, <1>8 DEF RegisterCompletes, Enroll
  <2>2. PeersTallied'
    BY <2>1, EnrollTallies
  <2>3. PICK rs \in Seq(Responses) : queue' = Responded(rs)
    BY <1>8, <2>1, RegisterResponses
  <2> QED BY <1>0, <2>2, <2>3, RespondedQueues
<1>9. CASE BeginWaits(s, id, r)
  BY <1>0, <1>9 DEF BeginWaits, PeersTallied, PeersCounted
<1>10. CASE BeginAgrees(s, id, r) \/ BeginDisagrees(s, id, r)
  <2>1. BeginLast(s, id, r)
    BY <1>10 DEF BeginAgrees, BeginDisagrees
  <2>2. PICK spec \in Specs : r = BeginMsg(spec)
    BY <2>1, <1>2 DEF BeginLast
  <2> DEFINE ws == Begins(s, id, r)
  <2>3. ws \in Seq([session : Sessions, request : Nat, spec : Specs])
    BY <2>1, <2>2, BeginFacts DEF BeginLast
  <2>4. PeersTallied'
    BY <2>1 DEF BeginLast, PeersTallied, PeersCounted
  <2>5. PICK reply \in Reply : queue' = Responded(ToAll(ws, reply))
    <3>1. CASE BeginAgrees(s, id, r)
      <4>1. PICK root \in {n.id : n \in nodes} :
              queue' = Responded(ToAll(ws, [kind |-> "Begin", root |-> root,
                                            transfer |-> next_transfer_id]))
        BY <3>1 DEF BeginAgrees
      <4>2. root \in NodeId /\ next_transfer_id \in Nat
        BY DEF GroupInv, GroupTypeOK, Node
      <4>3. [kind |-> "Begin", root |-> root, transfer |-> next_transfer_id] \in Reply
        BY <4>2 DEF Reply
      <4> QED BY <4>1, <4>3
    <3>2. CASE BeginDisagrees(s, id, r)
      <4>1. AgreementError(ws) # "ok" /\ queue' = Responded(ToAll(ws, Error(AgreementError(ws))))
        BY <3>2 DEF BeginDisagrees
      <4>2. AgreementError(ws) \in Errors
        BY <4>1 DEF AgreementError, Errors
      <4> QED BY <4>1, <4>2, ErrorReply
    <3> QED BY <1>10, <3>1, <3>2
  <2>6. ToAll(ws, reply) \in Seq(Responses)
    <3> DEFINE B == [session : Sessions, request : Nat, spec : Specs]
    <3>1. ws \in Seq(B) /\ \A t \in B : t.session \in Sessions /\ t.request \in Nat
      BY <2>3
    <3> HIDE DEF ws, B
    <3> QED BY <3>1, ToAllResponses
  <2> QED BY <1>0, <2>4, <2>5, <2>6, RespondedQueues
<1>11. CASE Finish(s, id, r)
  <2>1. s \in Registered /\ Leave(s) /\ queue' = Responded(Losses \o ToOne(s, id, FinishAck))
    BY <1>11 DEF Finish
  <2>2. FinishAck \in Reply
    BY DEF FinishAck, Reply
  <2>3. Losses \o ToOne(s, id, FinishAck) \in Seq(Responses)
    BY <2>2, LossesResponses, ToOneResponses
  <2> QED BY <1>0, <2>1, <2>3, LeaveTallies, RespondedQueues
<1> QED BY <1>4, <1>5, <1>6, <1>7, <1>8, <1>9, <1>10, <1>11 DEF ProcessRequest

(* Every step keeps the peers counted and the queues within capacity.       *)
LEMMA NextCounts ==
  ASSUME GroupInv, PeersTallied, QueuesOK, [Next]_vars
  PROVE  PeersTallied' /\ QueuesOK'
<1>0. queue \in Queues /\ <<>> \in Seq(Response) /\ Len(<<>>) <= QueueCapacity
  BY BoundsAssumption DEF QueuesOK, Queues
<1>1. UNCHANGED group => PeersTallied'
  BY DEF group, PeersTallied, PeersCounted
<1>2. CASE UNCHANGED vars
  BY <1>1, <1>2 DEF vars, QueuesOK
<1>3. ASSUME NEW s \in Sessions, InitSession(s) \/ GetSessionResponder(s)
      PROVE  PeersTallied' /\ QueuesOK'
  <2>1. UNCHANGED group /\ sessions' \subseteq Sessions /\ taken' \subseteq Sessions
    BY <1>3 DEF InitSession, GetSessionResponder, QueuesOK
  <2>2. queue' = queue \/ queue' = [queue EXCEPT ![s] = <<>>]
    BY <1>3 DEF InitSession, GetSessionResponder
  <2> QED BY <1>0, <1>1, <2>1, <2>2 DEF QueuesOK, Queues
<1>4. ASSUME NEW s \in Sessions, Receive(s)
      PROVE  PeersTallied' /\ QueuesOK'
  <2>1. /\ queue[s] # <<>> /\ queue' = [queue EXCEPT ![s] = Tail(queue[s])]
        /\ UNCHANGED <<group, sessions, taken>>
    BY <1>4 DEF Receive
  <2>2. queue[s] \in Seq(Response) /\ Len(queue[s]) <= QueueCapacity
    BY DEF QueuesOK
  <2>3. Tail(queue[s]) \in Seq(Response) /\ Len(Tail(queue[s])) <= QueueCapacity
    BY <2>1, <2>2, BoundsAssumption
  <2> QED BY <1>1, <2>1, <2>3 DEF QueuesOK
<1>5. ASSUME NEW s \in Sessions, Disconnect(s)
      PROVE  PeersTallied' /\ QueuesOK'
  <2>1. sessions' \subseteq Sessions /\ taken' \subseteq Sessions
    BY <1>5 DEF Disconnect, QueuesOK
  <2>2. PICK qs \in Queues : queue' = [qs EXCEPT ![s] = IF s \in taken THEN qs[s] ELSE <<>>]
    <3>1. CASE s \in Registered
      <4>1. Responded(Losses) \in Queues
        BY <1>0, LossesResponses, RespondedQueues
      <4>2. queue' = [Responded(Losses) EXCEPT ![s] = IF s \in taken THEN Responded(Losses)[s] ELSE <<>>]
        BY <1>5, <3>1 DEF Disconnect
      <4> QED BY <4>1, <4>2
    <3>2. CASE s \notin Registered
      BY <1>0, <1>5, <3>2 DEF Disconnect
    <3> QED BY <3>1, <3>2
  <2>3. queue' \in [Sessions -> Seq(Response)]
        /\ \A t \in Sessions : Len(queue'[t]) <= QueueCapacity
    BY <1>0, <2>2 DEF Queues
  <2>4. PeersTallied'
    <3>1. CASE s \in Registered
      BY <1>5, <3>1, LeaveTallies DEF Disconnect
    <3>2. CASE s \notin Registered
      BY <1>5, <3>2 DEF Disconnect, PeersTallied, PeersCounted
    <3> QED BY <3>1, <3>2
  <2> QED BY <2>1, <2>3, <2>4 DEF QueuesOK
<1>6. ASSUME NEW s \in Sessions, RequestAny(s)
      PROVE  PeersTallied' /\ QueuesOK'
  <2>1. PICK r \in RemoteRequest : ProcessRequest(s, issued[s] + 1, r)
    BY <1>6 DEF RequestAny
  <2>2. issued[s] + 1 \in Nat /\ UNCHANGED <<sessions, taken>>
    BY <1>6 DEF GroupInv, GroupTypeOK, RequestAny
  <2>3. queue' \in Queues /\ PeersTallied'
    BY <2>1, <2>2, RequestQueues
  <2> QED BY <2>2, <2>3 DEF QueuesOK, Queues
<1> QED BY <1>2, <1>3, <1>4, <1>5, <1>6 DEF Next

(* Nothing is queued and nobody is counted at first.                        *)
LEMMA InitCounts ==
  ASSUME Init
  PROVE  PeersTallied /\ QueuesOK
<1>1. UNION {n.peers : n \in nodes} = {} /\ num_global_peers = 0 /\ nodes = {}
  BY DEF Init
<1>2. PeersTallied
  <2>1. Cardinality({}) = 0
    BY FS_EmptySet
  <2>2. PeersCounted
    BY <1>1, <2>1, Zenon DEF PeersCounted
  <2> QED BY <1>1, <2>2 DEF PeersTallied
<1>3. QueuesOK
  BY BoundsAssumption DEF Init, QueuesOK
<1> QED BY <1>2, <1>3

(* The state keeps its shape, no response queue outgrows its capacity, and  *)
(* num_global_peers, the denominator of a mean, counts every peer of the    *)
(* members once, through registrations, finishes and lost sockets.          *)
THEOREM PeersStayCounted == Spec => []Counted
<1>1. Init => PeersTallied /\ QueuesOK
  BY InitCounts
<1>2. GroupInv /\ PeersTallied /\ QueuesOK /\ [Next]_vars => PeersTallied' /\ QueuesOK'
  BY NextCounts
<1>3. GroupInv /\ PeersTallied /\ QueuesOK => Counted
  BY DEF GroupInv, PeersTallied, Counted, TypeOK
<1> QED BY <1>1, <1>2, <1>3, GroupInvariant, PTL DEF Spec

-----------------------------------------------------------------------------
(* The sockets of the orchestrator.                                         *)

(* What a step of the orchestrator may do for a session t.                  *)
Granted(t) == {g \in begun : g.session = t}

Kept(t) ==
  /\ queue'[t] \in {queue[t], <<>>}
  /\ Held(t)' => Held(t)
  /\ Granted(t)' = Granted(t)

(* The request of t is answered, by m, which may be dropped.                *)
Told(t) ==
  /\ ~Held(t)'
  /\ \E m \in Response :
       /\ queue'[t] \in {queue[t], <<>>, Append(queue[t], m)}
       /\ \/ m.reply.kind # "Begin" /\ Granted(t)' = Granted(t)
          \/ /\ m.reply.kind = "Begin" /\ m.reply.transfer = next_transfer_id
             /\ next_transfer_id' = next_transfer_id + 1
             /\ \A g \in Granted(t)' : g \in Granted(t) \/ g.transfer = next_transfer_id

-----------------------------------------------------------------------------
(* The length of a concatenation, and one element at its end.               *)
LEMMA ConcatLen ==
  ASSUME NEW T, NEW a \in Seq(T), NEW b \in Seq(T)
  PROVE  Len(a \o b) = Len(a) + Len(b)
  OBVIOUS

(* A sequence to which a sequence of one element is appended.               *)
LEMMA ConcatOne ==
  ASSUME NEW T, NEW a \in Seq(T), NEW b \in Seq(T), Len(b) = 1
  PROVE  /\ a \o b \in Seq(T)
         /\ DOMAIN (a \o b) = DOMAIN a \cup {Len(a) + 1}
         /\ \A i \in DOMAIN a : (a \o b)[i] = a[i]
         /\ (a \o b)[Len(a) + 1] = b[1]
<1>1. a \o b \in Seq(T) /\ Len(a \o b) = Len(a) + 1
  <2>1. a \o b \in Seq(T)
    OBVIOUS
  <2>2. Len(a \o b) = Len(a) + Len(b)
    BY ConcatLen
  <2> QED BY <2>1, <2>2
<1>2. DOMAIN (a \o b) = 1 .. Len(a) + 1 /\ DOMAIN a = 1 .. Len(a) /\ Len(a) \in Nat
  BY <1>1
<1>3. \A i \in 1 .. Len(a) : (a \o b)[i] = a[i]
  OBVIOUS
<1>4. (a \o b)[Len(a) + 1] = b[1]
  OBVIOUS
<1> QED BY <1>1, <1>2, <1>3, <1>4

(* Responses to different sessions: each gets its own, or none.             *)
LEMMA SentOnce ==
  ASSUME NEW rs \in Seq(Responses), QueuesOK, NEW t \in Sessions,
         \A i, j \in DOMAIN rs : rs[i].session = rs[j].session => i = j
  PROVE  \/ /\ \A i \in DOMAIN rs : rs[i].session # t
            /\ Responded(rs)[t] = queue[t]
         \/ \E k \in DOMAIN rs : \E m \in Response :
              /\ rs[k].session = t /\ m.reply = rs[k].reply
              /\ Responded(rs)[t] \in {queue[t], Append(queue[t], m)}
<1>1. queue \in Queues
  BY DEF QueuesOK, Queues
<1>2. CASE \A i \in DOMAIN rs : rs[i].session # t
  BY <1>1, <1>2, RespondedElsewhere
<1>3. ASSUME NEW k \in DOMAIN rs, rs[k].session = t
      PROVE  \E m \in Response :
               /\ m.reply = rs[k].reply
               /\ Responded(rs)[t] \in {queue[t], Append(queue[t], m)}
  <2> DEFINE m == [request |-> rs[k].request, reply |-> rs[k].reply]
  <2>1. rs[k] \in Responses
    BY <1>3
  <2>2. m \in Response /\ m.reply = rs[k].reply
    BY <2>1 DEF Responses, Response
  <2>3. Responded(rs)[t] \in {queue[t], Append(queue[t], m)}
    BY <1>1, <1>3, RespondedOnce
  <2> QED BY <2>2, <2>3
<1> QED BY <1>2, <1>3

(* The responses of a list of waiting requests.                             *)
LEMMA ToAllFacts ==
  ASSUME NEW ws, NEW reply
  PROVE  /\ DOMAIN ToAll(ws, reply) = DOMAIN ws
         /\ \A i \in DOMAIN ws : /\ ToAll(ws, reply)[i].session = ws[i].session
                                /\ ToAll(ws, reply)[i].reply = reply
  BY DEF ToAll

(* A loss is told once to every session that waits.                         *)
LEMMA LossesFacts ==
  ASSUME GroupInv
  PROVE  /\ Losses \in Seq(Responses)
         /\ \A i, j \in DOMAIN Losses : Losses[i].session = Losses[j].session => i = j
         /\ \A i \in DOMAIN Losses : Held(Losses[i].session) /\ Losses[i].reply.kind = "Error"
<1> DEFINE e == Error("PeerLost")
           A == ToAll(pending_collectives, e)
           B == ToAll(register_requests, e)
<1>1. e.kind = "Error"
  BY DEF Error
<1> HIDE DEF e
<1>2. /\ DOMAIN A = DOMAIN pending_collectives
      /\ \A i \in DOMAIN A : A[i].session = pending_collectives[i].session /\ A[i].reply = e
      /\ DOMAIN B = DOMAIN register_requests
      /\ \A i \in DOMAIN B : B[i].session = register_requests[i].session /\ B[i].reply = e
  BY ToAllFacts
<1>3. Losses \in Seq(Responses)
  BY LossesResponses
<1>4. /\ \A i, j \in DOMAIN pending_collectives :
            pending_collectives[i].session = pending_collectives[j].session => i = j
      /\ \A i, j \in DOMAIN register_requests :
            register_requests[i].session = register_requests[j].session => i = j
      /\ pending_collectives # <<>> => register_requests = <<>>
  BY DEF GroupInv, WaitersAreMembers
<1>5. /\ \A i \in DOMAIN A : Held(A[i].session)
      /\ \A i \in DOMAIN B : Held(B[i].session)
  BY <1>2 DEF Held, Waits
<1>6. A \in Seq(Responses) /\ B \in Seq(Responses)
  <2>1. Error("PeerLost") \in Reply
    BY ErrorReply DEF Errors
  <2> DEFINE P == [session : Sessions, request : Nat, spec : Specs]
             W == [session : Sessions, request : Nat, node : NodeId]
  <2>2. /\ pending_collectives \in Seq(P) /\ register_requests \in Seq(W)
        /\ \A t \in P : t.session \in Sessions /\ t.request \in Nat
        /\ \A t \in W : t.session \in Sessions /\ t.request \in Nat
    BY DEF GroupInv, GroupTypeOK
  <2> HIDE DEF P, W
  <2> QED BY <2>1, <2>2, ToAllResponses DEF e
<1>7. Losses = A \o B
  BY DEF Losses, e
<1>8. Losses = A \/ Losses = B
  <2>1. CASE pending_collectives # <<>>
    <3>1. B = <<>>
      BY <2>1, <1>2, <1>4, <1>6
    <3> HIDE DEF A, B
    <3> QED BY <3>1, <1>6, <1>7
  <2>2. CASE pending_collectives = <<>>
    <3>1. A = <<>>
      BY <2>2, <1>2, <1>6
    <3> HIDE DEF A, B
    <3> QED BY <3>1, <1>6, <1>7
  <2> QED BY <2>1, <2>2
<1> HIDE DEF A, B
<1> QED BY <1>1, <1>2, <1>3, <1>4, <1>5, <1>8

(* process_request: the session that asks is answered or waits, and every   *)
(* other session keeps what it has unless its request is answered.          *)
LEMMA ProcessEffect ==
  ASSUME GroupInv, PeersTallied, QueuesOK, NEW s \in Sessions, NEW id \in Nat,
         NEW r \in RemoteRequest, ProcessRequest(s, id, r), ~Held(s)
  PROVE  /\ next_transfer_id' \in {next_transfer_id, next_transfer_id + 1}
         /\ \A t \in Sessions \ {s} : Kept(t) \/ (Held(t) /\ Told(t))
         /\ Told(s) \/ (queue'[s] = queue[s] /\ Granted(s)' = Granted(s))
<1>1. r.kind = "register" => r \in Registers
  BY DEF RemoteRequest, BeginMsg, FinishMsg
<1>2. r.kind = "begin" => \E spec \in Specs : r = BeginMsg(spec)
  BY RegistersAssumption DEF RemoteRequest, FinishMsg
<1> DEFINE Effect == /\ next_transfer_id' \in {next_transfer_id, next_transfer_id + 1}
                     /\ \A t \in Sessions \ {s} : Kept(t) \/ (Held(t) /\ Told(t))
                     /\ Told(s) \/ (queue'[s] = queue[s] /\ Granted(s)' = Granted(s))
<1>3. ASSUME NEW e \in Errors, Refuse(s, id, e)
      PROVE  Effect
  <2> DEFINE rs == ToOne(s, id, Error(e))
  <2>1. queue' = Responded(rs) /\ UNCHANGED group
    BY <1>3 DEF Refuse
  <2>2. rs \in Seq(Responses)
    BY ErrorReply, ToOneResponses
  <2>3. DOMAIN rs = {1} /\ rs[1].session = s /\ rs[1].reply.kind = "Error"
    BY DEF ToOne, Error
  <2> HIDE DEF rs
  <2>4. \A t \in Sessions : (Held(t)' <=> Held(t)) /\ Granted(t)' = Granted(t)
    BY <2>1 DEF group, Held, Waits, Granted
  <2>5. ASSUME NEW t \in Sessions, t # s PROVE queue'[t] = queue[t]
    BY <2>1, <2>2, <2>3, <2>5, SentOnce
  <2>6. \E m \in Response : /\ queue'[s] \in {queue[s], Append(queue[s], m)}
                            /\ m.reply.kind # "Begin"
    BY <2>1, <2>2, <2>3, SentOnce
  <2>7. Told(s)
    BY <2>4, <2>6 DEF Told
  <2> QED BY <2>1, <2>4, <2>5, <2>7 DEF Kept, group
<1>4. CASE RefuseFailed(s, id, r) \/ FinishRefused(s, id, r) \/ RegisterRefused(s, id, r)
             \/ BeginRefused(s, id, r)
  <2>1. PICK e \in Errors : Refuse(s, id, e)
    BY <1>4 DEF RefuseFailed, FinishRefused, RegisterRefused, RegisterError, BeginRefused,
                BeginError, Errors
  <2> QED BY <2>1, <1>3
<1>5. CASE RegisterWaits(s, id, r)
  <2> DEFINE W == [session : Sessions, request : Nat, node : NodeId]
             w == [session |-> s, request |-> id, node |-> next_node_id]
  <2>1. /\ queue' = queue /\ begun' = begun /\ next_transfer_id' = next_transfer_id
        /\ pending_collectives' = pending_collectives
        /\ register_requests' = Append(register_requests, w)
    BY <1>5 DEF RegisterWaits, Enroll, Enrolled
  <2>2. w \in W /\ w.session = s /\ register_requests \in Seq(W)
    BY DEF GroupInv, GroupTypeOK, NodeId
  <2> HIDE DEF w, W
  <2>3. Waits(register_requests') = Waits(register_requests) \cup {s}
    BY <2>1, <2>2, AppendWaits
  <2>4. \A t \in Sessions \ {s} : Held(t)' => Held(t)
    BY <2>1, <2>3 DEF Held
  <2> QED BY <2>1, <2>4 DEF Kept, Granted
<1>6. CASE RegisterCompletes(s, id, r)
  <2> DEFINE W == [session : Sessions, request : Nat, node : NodeId]
             w == [session |-> s, request |-> id, node |-> next_node_id]
             ws == Enrolled(s, id)
  <2>1. Enroll(s, id, r) /\ r \in Registers /\ register_requests' = <<>>
    BY <1>1, <1>6 DEF RegisterCompletes, Enroll
  <2>2. /\ s \notin Registered /\ pending_collectives' = <<>>
        /\ begun' = begun /\ next_transfer_id' = next_transfer_id
    BY <2>1, EnrollFacts
  <2>3. PICK rs \in Seq(Responses) :
          /\ queue' = Responded(rs)
          /\ DOMAIN rs = DOMAIN ws
          /\ \A i \in DOMAIN rs : rs[i].session = ws[i].session /\ rs[i].reply.kind = "Register"
    BY <1>6, <2>1, RegisterResponses
  <2>4. /\ w \in W /\ w.session = s /\ register_requests \in Seq(W)
        /\ ws = Append(register_requests, w)
    BY DEF GroupInv, GroupTypeOK, NodeId, Enrolled
  <2> HIDE DEF w, W, ws
  <2>5. /\ DOMAIN ws = DOMAIN register_requests \cup {Len(register_requests) + 1}
        /\ \A i \in DOMAIN register_requests : ws[i] = register_requests[i]
        /\ ws[Len(register_requests) + 1] = w
    BY <2>4, AppendDomain
  <2>6. \A i \in DOMAIN register_requests : register_requests[i].session # s
    BY DEF Held, Waits
  <2>7. \A i, j \in DOMAIN rs : rs[i].session = rs[j].session => i = j
    BY <2>3, <2>4, <2>5, <2>6 DEF GroupInv, WaitersAreMembers
  <2>8. \A i \in DOMAIN rs : rs[i].session = s \/ Held(rs[i].session)
    BY <2>3, <2>4, <2>5 DEF Held, Waits
  <2>9. \A t \in Sessions : ~Held(t)' /\ Granted(t)' = Granted(t)
    BY <2>1, <2>2, EmptyWaits DEF Held, Granted
  <2>10. ASSUME NEW t \in Sessions, t # s
         PROVE  Kept(t) \/ (Held(t) /\ Told(t))
    <3>1. CASE queue'[t] = queue[t]
      BY <3>1, <2>9 DEF Kept
    <3>2. CASE Held(t) /\ \E m \in Response : /\ queue'[t] \in {queue[t], Append(queue[t], m)}
                                              /\ m.reply.kind # "Begin"
      BY <3>2, <2>9 DEF Told
    <3> QED BY <3>1, <3>2, <2>3, <2>7, <2>8, <2>10, SentOnce
  <2>11. Told(s) \/ (queue'[s] = queue[s] /\ Granted(s)' = Granted(s))
    <3>1. CASE queue'[s] = queue[s]
      BY <3>1, <2>9
    <3>2. CASE \E m \in Response : /\ queue'[s] \in {queue[s], Append(queue[s], m)}
                                   /\ m.reply.kind # "Begin"
      BY <3>2, <2>9 DEF Told
    <3> QED BY <3>1, <3>2, <2>3, <2>7, SentOnce
  <2> QED BY <2>2, <2>10, <2>11
<1>7. CASE BeginWaits(s, id, r)
  <2>1. PICK spec \in Specs : r = BeginMsg(spec)
    BY <1>2, <1>7 DEF BeginWaits
  <2> DEFINE B == [session : Sessions, request : Nat, spec : Specs]
             w == [session |-> s, request |-> id, spec |-> spec]
  <2>2. /\ queue' = queue /\ begun' = begun /\ next_transfer_id' = next_transfer_id
        /\ register_requests' = register_requests
        /\ pending_collectives' = Append(pending_collectives, w)
    BY <1>7, <2>1 DEF BeginWaits, Begins, BeginMsg
  <2>3. w \in B /\ w.session = s /\ pending_collectives \in Seq(B)
    BY DEF GroupInv, GroupTypeOK
  <2> HIDE DEF w, B
  <2>4. Waits(pending_collectives') = Waits(pending_collectives) \cup {s}
    BY <2>2, <2>3, AppendWaits
  <2>5. \A t \in Sessions \ {s} : Held(t)' => Held(t)
    BY <2>2, <2>4 DEF Held
  <2> QED BY <2>2, <2>5 DEF Kept, Granted
<1>8. CASE BeginAgrees(s, id, r) \/ BeginDisagrees(s, id, r)
  <2>1. BeginLast(s, id, r)
    BY <1>8 DEF BeginAgrees, BeginDisagrees
  <2>2. PICK spec \in Specs : r = BeginMsg(spec)
    BY <2>1, <1>2 DEF BeginLast
  <2> DEFINE ws == Begins(s, id, r)
             B == [session : Sessions, request : Nat, spec : Specs]
             w == [session |-> s, request |-> id, spec |-> spec]
  <2>3. /\ ws \in Seq(B) /\ register_requests = <<>>
        /\ \A i, j \in DOMAIN ws : ws[i].session = ws[j].session => i = j
    BY <2>1, <2>2, BeginFacts DEF BeginLast
  <2>4. pending_collectives' = <<>> /\ register_requests' = <<>>
    BY <2>1, <2>3 DEF BeginLast
  <2>5. \A i \in DOMAIN ws : ws[i].session = s \/ Held(ws[i].session)
    <3>1. /\ w \in B /\ w.session = s /\ pending_collectives \in Seq(B)
          /\ ws = Append(pending_collectives, w)
      BY <2>2 DEF GroupInv, GroupTypeOK, Begins, BeginMsg
    <3> HIDE DEF w, B, ws
    <3>2. /\ DOMAIN ws = DOMAIN pending_collectives \cup {Len(pending_collectives) + 1}
          /\ \A i \in DOMAIN pending_collectives : ws[i] = pending_collectives[i]
          /\ ws[Len(pending_collectives) + 1] = w
      BY <3>1, AppendDomain
    <3> QED BY <3>1, <3>2 DEF Held, Waits
  <2>6. \A t \in Sessions : ~Held(t)'
    BY <2>4, EmptyWaits DEF Held
  <2>7. PICK reply \in Reply :
          /\ queue' = Responded(ToAll(ws, reply))
          /\ \/ /\ reply.kind # "Begin" /\ begun' = begun /\ next_transfer_id' = next_transfer_id
             \/ /\ reply.kind = "Begin" /\ reply.transfer = next_transfer_id
                /\ next_transfer_id' = next_transfer_id + 1
                /\ begun \subseteq begun'
                /\ \A g \in begun' \ begun : /\ g.transfer = next_transfer_id
                                             /\ \E i \in DOMAIN ws : g.session = ws[i].session
    <3>1. CASE BeginAgrees(s, id, r)
      <4>1. PICK root \in {n.id : n \in nodes} :
              /\ queue' = Responded(ToAll(ws, [kind |-> "Begin", root |-> root,
                                               transfer |-> next_transfer_id]))
              /\ begun' = begun \cup
                   {[transfer |-> next_transfer_id, root |-> root, session |-> ws[i].session,
                     node |-> registered_nodes[ws[i].session], spec |-> ws[i].spec,
                     members |-> told[ws[i].session]] : i \in DOMAIN ws}
        BY <3>1 DEF BeginAgrees
      <4>2. root \in NodeId /\ next_transfer_id \in Nat
        BY DEF GroupInv, GroupTypeOK, Node
      <4> DEFINE reply == [kind |-> "Begin", root |-> root, transfer |-> next_transfer_id]
      <4>3. reply \in Reply /\ reply.kind = "Begin" /\ reply.transfer = next_transfer_id
        BY <4>2 DEF Reply
      <4>4. \A g \in begun' \ begun : /\ g.transfer = next_transfer_id
                                      /\ \E i \in DOMAIN ws : g.session = ws[i].session
        <5> HIDE DEF ws
        <5> QED BY <4>1
      <4>5. begun \subseteq begun' /\ next_transfer_id' = next_transfer_id + 1
        BY <3>1, <4>1 DEF BeginAgrees
      <4> HIDE DEF ws
      <4> QED BY <4>1, <4>3, <4>4, <4>5
    <3>2. CASE BeginDisagrees(s, id, r)
      <4>1. /\ AgreementError(ws) # "ok" /\ queue' = Responded(ToAll(ws, Error(AgreementError(ws))))
            /\ UNCHANGED <<next_transfer_id, begun>>
        BY <3>2 DEF BeginDisagrees
      <4>2. AgreementError(ws) \in Errors
        BY <4>1 DEF AgreementError, Errors
      <4>3. Error(AgreementError(ws)) \in Reply /\ Error(AgreementError(ws)).kind = "Error"
        BY <4>2, ErrorReply DEF Error
      <4> QED BY <4>1, <4>3
    <3> QED BY <1>8, <3>1, <3>2
  <2> DEFINE rs == ToAll(ws, reply)
  <2>8. rs \in Seq(Responses)
    <3>1. ws \in Seq(B) /\ \A t \in B : t.session \in Sessions /\ t.request \in Nat
      BY <2>3
    <3> HIDE DEF ws, B
    <3> QED BY <3>1, ToAllResponses
  <2> HIDE DEF ws
  <2>9. DOMAIN rs = DOMAIN ws
        /\ \A i \in DOMAIN rs : rs[i].session = ws[i].session /\ rs[i].reply = reply
    BY ToAllFacts
  <2> HIDE DEF rs
  <2>10. \A i, j \in DOMAIN rs : rs[i].session = rs[j].session => i = j
    BY <2>3, <2>9
  <2>11. ASSUME NEW t \in Sessions, NEW k \in DOMAIN rs, rs[k].session = t
         PROVE  Told(t)
    <3>1. PICK m \in Response : m.reply = reply /\ queue'[t] \in {queue[t], Append(queue[t], m)}
      BY <2>7, <2>8, <2>9, <2>10, <2>11, SentOnce DEF rs
    <3>2. CASE reply.kind # "Begin" /\ begun' = begun
      <4>1. Granted(t)' = Granted(t)
        BY <3>2 DEF Granted
      <4> QED BY <3>1, <3>2, <4>1, <2>6 DEF Told
    <3>3. CASE reply.kind = "Begin"
      <4>1. \A g \in Granted(t)' : g \in Granted(t) \/ g.transfer = next_transfer_id
        BY <3>3, <2>7 DEF Granted
      <4>2. m.reply.kind = "Begin" /\ m.reply.transfer = next_transfer_id
            /\ next_transfer_id' = next_transfer_id + 1
        BY <3>1, <3>3, <2>7
      <4> QED BY <3>1, <4>1, <4>2, <2>6 DEF Told
    <3> QED BY <3>2, <3>3, <2>7
  <2>12. ASSUME NEW t \in Sessions, \A i \in DOMAIN rs : rs[i].session # t
         PROVE  queue'[t] = queue[t] /\ Granted(t)' = Granted(t)
    <3>1. queue'[t] = queue[t]
      BY <2>7, <2>8, <2>10, <2>12, SentOnce DEF rs
    <3>2. \A g \in begun' : g.session = t => g \in begun
      BY <2>7, <2>9, <2>12
    <3>3. begun \subseteq begun'
      BY <2>7
    <3> QED BY <3>1, <3>2, <3>3 DEF Granted
  <2>13. ASSUME NEW t \in Sessions, t # s PROVE Kept(t) \/ (Held(t) /\ Told(t))
    <3>1. CASE \A i \in DOMAIN rs : rs[i].session # t
      BY <3>1, <2>6, <2>12 DEF Kept
    <3>2. ASSUME NEW k \in DOMAIN rs, rs[k].session = t PROVE Held(t) /\ Told(t)
      BY <3>2, <2>5, <2>9, <2>11, <2>13
    <3> QED BY <3>1, <3>2
  <2>14. Told(s) \/ (queue'[s] = queue[s] /\ Granted(s)' = Granted(s))
    BY <2>11, <2>12
  <2> QED BY <2>7, <2>13, <2>14
<1>9. CASE Finish(s, id, r)
  <2> DEFINE B == ToOne(s, id, FinishAck)
             rs == Losses \o B
  <2>1. /\ Leave(s) /\ queue' = Responded(rs)
    BY <1>9 DEF Finish
  <2>2. /\ pending_collectives' = <<>> /\ register_requests' = <<>>
        /\ begun' = begun /\ next_transfer_id' = next_transfer_id
    BY <2>1 DEF Leave, DropWaiting
  <2>3. B \in Seq(Responses) /\ Len(B) = 1 /\ B[1].session = s /\ B[1].reply.kind = "FinishAck"
    <3>1. FinishAck \in Reply /\ FinishAck.kind = "FinishAck"
      BY DEF FinishAck, Reply
    <3> QED BY <3>1, ToOneResponses DEF ToOne
  <2> HIDE DEF B
  <2>4. /\ Losses \in Seq(Responses)
        /\ \A i, j \in DOMAIN Losses : Losses[i].session = Losses[j].session => i = j
        /\ \A i \in DOMAIN Losses : Held(Losses[i].session) /\ Losses[i].reply.kind = "Error"
    BY LossesFacts
  <2>5. /\ rs \in Seq(Responses)
        /\ DOMAIN rs = DOMAIN Losses \cup {Len(Losses) + 1}
        /\ \A i \in DOMAIN Losses : rs[i] = Losses[i]
        /\ rs[Len(Losses) + 1] = B[1]
    BY <2>3, <2>4, ConcatOne
  <2> HIDE DEF rs
  <2>6. \A i, j \in DOMAIN rs : rs[i].session = rs[j].session => i = j
    BY <2>3, <2>4, <2>5
  <2>7. \A i \in DOMAIN rs : /\ rs[i].session = s \/ Held(rs[i].session)
                             /\ rs[i].reply.kind # "Begin"
    BY <2>3, <2>4, <2>5
  <2>8. \A t \in Sessions : ~Held(t)' /\ Granted(t)' = Granted(t)
    BY <2>2, EmptyWaits DEF Held, Granted
  <2>9. ASSUME NEW t \in Sessions, t # s
        PROVE  Kept(t) \/ (Held(t) /\ Told(t))
    <3>1. CASE queue'[t] = queue[t]
      BY <3>1, <2>8 DEF Kept
    <3>2. CASE Held(t) /\ \E m \in Response : /\ queue'[t] \in {queue[t], Append(queue[t], m)}
                                              /\ m.reply.kind # "Begin"
      BY <3>2, <2>8 DEF Told
    <3> QED BY <3>1, <3>2, <2>1, <2>5, <2>6, <2>7, <2>9, SentOnce
  <2>10. Told(s) \/ (queue'[s] = queue[s] /\ Granted(s)' = Granted(s))
    <3>1. CASE queue'[s] = queue[s]
      BY <3>1, <2>8
    <3>2. CASE \E m \in Response : /\ queue'[s] \in {queue[s], Append(queue[s], m)}
                                   /\ m.reply.kind # "Begin"
      BY <3>2, <2>8 DEF Told
    <3> QED BY <3>1, <3>2, <2>1, <2>5, <2>6, <2>7, SentOnce
  <2> QED BY <2>2, <2>9, <2>10
<1> QED
  BY <1>4, <1>5, <1>6, <1>7, <1>8, <1>9 DEF ProcessRequest

(* disconnect: a session keeps what it has unless its request is answered.  *)
LEMMA DisconnectEffect ==
  ASSUME GroupInv, QueuesOK, NEW s \in Sessions, Disconnect(s)
  PROVE  /\ next_transfer_id' = next_transfer_id
         /\ \A t \in Sessions : Kept(t) \/ (Held(t) /\ Told(t))
<1>1. begun' = begun /\ next_transfer_id' = next_transfer_id
  BY DEF Disconnect, Leave
<1>2. \A t \in Sessions : Granted(t)' = Granted(t)
  BY <1>1 DEF Granted
<1>3. CASE s \notin Registered
  <2>1. /\ queue' = [queue EXCEPT ![s] = IF s \in taken THEN queue[s] ELSE <<>>]
        /\ UNCHANGED <<pending_collectives, register_requests>>
    BY <1>3 DEF Disconnect
  <2>2. \A t \in Sessions : queue'[t] \in {queue[t], <<>>}
    BY <2>1 DEF QueuesOK
  <2>3. \A t \in Sessions : Held(t)' => Held(t)
    BY <2>1 DEF Held
  <2> QED BY <1>1, <1>2, <2>2, <2>3 DEF Kept
<1>4. CASE s \in Registered
  <2> DEFINE qs == Responded(Losses)
  <2>1. /\ queue' = [qs EXCEPT ![s] = IF s \in taken THEN qs[s] ELSE <<>>]
        /\ pending_collectives' = <<>> /\ register_requests' = <<>>
    BY <1>4 DEF Disconnect, Leave, DropWaiting
  <2>2. /\ Losses \in Seq(Responses)
        /\ \A i, j \in DOMAIN Losses : Losses[i].session = Losses[j].session => i = j
        /\ \A i \in DOMAIN Losses : Held(Losses[i].session) /\ Losses[i].reply.kind = "Error"
    BY LossesFacts
  <2>3. qs \in Queues
    BY <2>2, RespondedQueues DEF QueuesOK, Queues
  <2>4. \A t \in Sessions : ~Held(t)'
    BY <2>1, EmptyWaits DEF Held
  <2>5. ASSUME NEW t \in Sessions
        PROVE  Kept(t) \/ (Held(t) /\ Told(t))
    <3>1. queue'[t] \in {qs[t], <<>>}
      <4> HIDE DEF qs
      <4> QED BY <2>1, <2>3 DEF Queues
    <3>2. CASE qs[t] = queue[t]
      BY <3>1, <3>2, <1>2, <2>4 DEF Kept
    <3>3. CASE Held(t) /\ \E m \in Response : /\ qs[t] \in {queue[t], Append(queue[t], m)}
                                              /\ m.reply.kind # "Begin"
      <4> HIDE DEF qs
      <4> QED BY <3>1, <3>3, <1>2, <2>4 DEF Told
    <3> QED BY <3>2, <3>3, <2>2, SentOnce
  <2> QED BY <1>1, <2>5
<1> QED BY <1>3, <1>4

-----------------------------------------------------------------------------
(* The types of the sockets, the workers and the calls.                     *)

(* What a node asks for is a request.                                       *)
LEMMA AsksRequests ==
  ASSUME PlaneTypeOK, NEW s \in Sessions, NEW r \in Asks(s)
  PROVE  r \in RemoteRequest /\ r.kind \in {"register", "begin", "finish"}
<1>1. plan[s].register \in Registers /\ plan[s].specs \subseteq Specs
  BY PlaneAssumption DEF PlaneTypeOK
<1>2. CASE r = plan[s].register
  BY <1>1, <1>2, RegistersAssumption DEF RemoteRequest
<1>3. CASE r = FinishMsg
  BY <1>3 DEF FinishMsg, RemoteRequest
<1>4. CASE \E spec \in plan[s].specs : r = BeginMsg(spec)
  BY <1>1, <1>4 DEF BeginMsg, RemoteRequest
<1> QED BY <1>2, <1>3, <1>4 DEF Asks

(* A session that ends keeps the types: its token is given back, its call   *)
(* is over.                                                                 *)
LEMMA EndTypes ==
  ASSUME PlaneTypeOK, NEW s \in Sessions, End(s),
         UNCHANGED <<made, executed, plan>>,
         up' = up, down' \in [Sessions -> Seq(Response)],
         call' = call \/ call' = [call EXCEPT ![s] = Idle]
  PROVE  PlaneTypeOK'
<1>1. token' \subseteq Sessions
  BY DEF End, PlaneTypeOK
<1>2. channel' \in [Sessions -> Seq(Queries)] /\ pending' \in [Sessions -> SUBSET Tickets]
  BY DEF End, PlaneTypeOK
<1>3. call' \in [Sessions -> {Idle} \cup Calls]
  BY DEF PlaneTypeOK
<1> QED BY <1>1, <1>2, <1>3 DEF PlaneTypeOK

(* The calls of a node keep the types.                                      *)
LEMMA OwnerTypes ==
  ASSUME PlaneTypeOK, NEW s \in Sessions,
         (\E r \in Asks(s) : Request(s, r)) \/ Return(s) \/ Aborted(s) \/ TimesOut(s)
  PROVE  PlaneTypeOK'
<1>1. ASSUME NEW r \in Asks(s), Request(s, r) PROVE PlaneTypeOK'
  <2> DEFINE q == [request |-> r, number |-> made'[s]]
             c == [number |-> made'[s], answer |-> NoAnswer, kind |-> r.kind]
  <2>1. /\ made' = [made EXCEPT ![s] = made[s] + 1]
        /\ call' = [call EXCEPT ![s] = c]
        /\ channel' = [channel EXCEPT ![s] = Append(channel[s], q)]
        /\ UNCHANGED <<token, pending, up, down, executed, plan>>
    BY <1>1 DEF Request, socket_vars
  <2>2. made' \in [Sessions -> Nat] /\ made'[s] \in Nat \ {0}
    BY <2>1 DEF PlaneTypeOK
  <2>3. q \in Queries /\ c \in Calls
    BY <1>1, <2>2, AsksRequests DEF Queries, Calls
  <2> HIDE DEF q, c
  <2>4. channel' \in [Sessions -> Seq(Queries)]
    BY <2>1, <2>3 DEF PlaneTypeOK
  <2>5. call' \in [Sessions -> {Idle} \cup Calls]
    BY <2>1, <2>3 DEF PlaneTypeOK
  <2> QED BY <2>1, <2>2, <2>4, <2>5 DEF PlaneTypeOK
<1>2. CASE Return(s)
  <2>1. token' \subseteq Sessions
    BY <1>2 DEF Return, Fail, PlaneTypeOK
  <2>2. executed' \in [Sessions -> Seq(Nat)]
    <3>1. CASE call[s].answer.kind = "Begin"
      <4>1. call[s].answer # NoAnswer /\ call[s] # Idle /\ call[s] \in {Idle} \cup Calls
        BY <1>2 DEF Return, Waiting, PlaneTypeOK
      <4>2. call[s].answer \in Reply
        BY <4>1 DEF Calls
      <4>3. call[s].answer.transfer \in Nat
        BY <3>1, <4>2 DEF Reply
      <4> QED BY <1>2, <3>1, <4>3 DEF Return, PlaneTypeOK
    <3>2. CASE call[s].answer.kind # "Begin"
      BY <1>2, <3>2 DEF Return, PlaneTypeOK
    <3> QED BY <3>1, <3>2
  <2>3. call' \in [Sessions -> {Idle} \cup Calls]
    BY <1>2 DEF Return, PlaneTypeOK
  <2>4. UNCHANGED <<channel, pending, up, down, made, plan>>
    BY <1>2 DEF Return, socket_vars
  <2> QED BY <2>1, <2>2, <2>3, <2>4 DEF PlaneTypeOK
<1>3. CASE Aborted(s) \/ TimesOut(s)
  <2>1. token' \subseteq Sessions /\ call' = [call EXCEPT ![s] = Idle]
        /\ UNCHANGED <<channel, pending, up, down, made, executed, plan>>
    BY <1>3 DEF Aborted, TimesOut, Fail, PlaneTypeOK, worker_vars, socket_vars
  <2>2. call' \in [Sessions -> {Idle} \cup Calls]
    BY <2>1 DEF PlaneTypeOK
  <2> QED BY <2>1, <2>2 DEF PlaneTypeOK
<1> QED BY <1>1, <1>2, <1>3

(* The worker keeps the types.                                              *)
LEMMA WorkerTypes ==
  ASSUME PlaneTypeOK, issued \in [Sessions -> Nat], NEW s \in Sessions,
         WorkerStep(s) \/ Launch(s) \/ Drop(s)
           \/ \E route \in Routes : ConnectFails(s, route) \/ Break(s, route)
  PROVE  PlaneTypeOK'
<1>1. CASE Launch(s) \/ \E route \in Routes : Connect(s, route)
  BY <1>1 DEF Launch, Connect, PlaneTypeOK, socket_vars, owner_vars
<1>2. CASE PumpFails(s) \/ StreamEnds(s) \/ Cancelled(s) \/ Drop(s)
             \/ \E route \in Routes : ConnectFails(s, route)
  <2>1. /\ End(s) /\ UNCHANGED <<made, executed, plan>> /\ up' = up /\ down' = down
        /\ call' = call \/ call' = [call EXCEPT ![s] = Idle]
    BY <1>2 DEF PumpFails, StreamEnds, Cancelled, Drop, ConnectFails, socket_vars, owner_vars
  <2>2. down' \in [Sessions -> Seq(Response)]
    BY <2>1 DEF PlaneTypeOK
  <2> QED BY <2>1, <2>2, EndTypes
<1>3. CASE Skip(s)
  <2>1. /\ channel[s] # <<>> /\ channel' = [channel EXCEPT ![s] = Tail(channel[s])]
        /\ UNCHANGED <<token, pending, up, down, call, made, executed, plan>>
    BY <1>3 DEF Skip, socket_vars, owner_vars
  <2>2. channel' \in [Sessions -> Seq(Queries)]
    BY <2>1 DEF PlaneTypeOK
  <2> QED BY <2>1, <2>2 DEF PlaneTypeOK
<1>4. CASE Pump(s)
  <2> DEFINE h == Head(channel[s])
             p == [id |-> issued'[s], number |-> h.number]
             u == [id |-> issued'[s], request |-> h.request]
  <2>1. /\ channel[s] # <<>> /\ channel' = [channel EXCEPT ![s] = Tail(channel[s])]
        /\ issued' = [issued EXCEPT ![s] = issued[s] + 1]
        /\ pending' = [pending EXCEPT ![s] = pending[s] \cup {p}]
        /\ up' \in {up, [up EXCEPT ![s] = Append(up[s], u)]}
        /\ UNCHANGED <<token, down, call, made, executed, plan>>
    BY <1>4 DEF Pump, owner_vars
  <2>2. channel[s] \in Seq(Queries)
    BY DEF PlaneTypeOK
  <2>3. h \in Queries /\ channel' \in [Sessions -> Seq(Queries)]
    BY <2>1, <2>2 DEF PlaneTypeOK
  <2>4. p \in Tickets /\ u \in Messages
    BY <2>1, <2>3 DEF Queries, Tickets, Messages
  <2> HIDE DEF p, u, h
  <2>5. pending' \in [Sessions -> SUBSET Tickets]
    BY <2>1, <2>4 DEF PlaneTypeOK
  <2>6. up' \in [Sessions -> Seq(Messages)]
    <3>1. Append(up[s], u) \in Seq(Messages)
      <4>1. up[s] \in Seq(Messages)
        BY DEF PlaneTypeOK
      <4> QED BY <2>4, <4>1
    <3> QED BY <2>1, <3>1 DEF PlaneTypeOK
  <2> QED BY <2>1, <2>3, <2>5, <2>6 DEF PlaneTypeOK
<1>5. CASE Take(s)
  <2> DEFINE h == Head(down[s])
             answered == {p \in pending[s] : p.id = h.request}
  <2>1. down[s] # <<>> /\ down' = [down EXCEPT ![s] = Tail(down[s])]
        /\ UNCHANGED <<up, made, executed, plan>>
    BY <1>5 DEF Take
  <2>2. h \in Response /\ down' \in [Sessions -> Seq(Response)]
    BY <2>1 DEF PlaneTypeOK
  <2>3. CASE answered = {}
    <3>1. End(s) /\ call' = call
      BY <1>5, <2>3 DEF Take
    <3> QED BY <2>1, <2>2, <3>1, EndTypes
  <2>4. CASE answered # {}
    <3>1. /\ pending' = [pending EXCEPT ![s] = pending[s] \ answered]
          /\ call' = IF \E p \in answered : p.number = call[s].number
                     THEN [call EXCEPT ![s].answer = h.reply] ELSE call
          /\ UNCHANGED <<token, channel>>
      BY <1>5, <2>4 DEF Take
    <3>2. pending' \in [Sessions -> SUBSET Tickets]
      BY <3>1 DEF PlaneTypeOK
    <3>3. call' \in [Sessions -> {Idle} \cup Calls]
      <4>1. CASE \E p \in answered : p.number = call[s].number
        <5>1. call[s].number # 0
          <6>1. PICK p \in answered : p.number = call[s].number
            BY <4>1
          <6>2. p \in Tickets
            BY DEF PlaneTypeOK
          <6> QED BY <6>1, <6>2 DEF Tickets
        <5>2. call[s] \in Calls
          BY <5>1 DEF PlaneTypeOK, Calls, Idle
        <5>3. h.reply \in Reply
          BY <2>2 DEF Response
        <5>4. [call[s] EXCEPT !.answer = h.reply] \in Calls
          BY <5>2, <5>3 DEF Calls
        <5> QED BY <3>1, <4>1, <5>4 DEF PlaneTypeOK
      <4>2. CASE ~\E p \in answered : p.number = call[s].number
        BY <3>1, <4>2 DEF PlaneTypeOK
      <4> QED BY <4>1, <4>2
    <3> QED BY <2>1, <2>2, <3>1, <3>2, <3>3 DEF PlaneTypeOK
  <2> QED BY <2>3, <2>4
<1>6. ASSUME NEW route \in Routes, Break(s, route) PROVE PlaneTypeOK'
  <2>1. up' \in [Sessions -> Seq(Messages)] /\ down' \in [Sessions -> Seq(Response)]
    BY <1>6 DEF Break, PlaneTypeOK
  <2> QED BY <1>6, <2>1 DEF Break, PlaneTypeOK, worker_vars, owner_vars
<1> QED BY <1>1, <1>2, <1>3, <1>4, <1>5, <1>6 DEF WorkerStep

(* The socket handlers keep the types.                                      *)
LEMMA HandlerTypes ==
  ASSUME PlaneTypeOK, QueuesOK, NEW s \in Sessions,
         RequestHandler(s) \/ ResponseHandler(s)
  PROVE  PlaneTypeOK'
<1>1. CASE RequestInit(s) \/ ResponseInit(s) \/ RequestEnds(s) \/ ResponseEnds(s)
  BY <1>1 DEF RequestInit, ResponseInit, RequestEnds, ResponseEnds, Served, HandlerDone,
              PlaneTypeOK, worker_vars, owner_vars
<1>2. CASE RequestMessage(s)
  <2>1. /\ up[s] # <<>> /\ up' = [up EXCEPT ![s] = Tail(up[s])]
        /\ UNCHANGED <<worker_vars, down, owner_vars>>
    BY <1>2 DEF RequestMessage
  <2>2. up' \in [Sessions -> Seq(Messages)]
    BY <2>1 DEF PlaneTypeOK
  <2> QED BY <2>1, <2>2 DEF PlaneTypeOK, worker_vars, owner_vars
<1>3. CASE ResponseSend(s)
  <2>1. /\ queue[s] # <<>> /\ down' \in {down, [down EXCEPT ![s] = Append(down[s], Head(queue[s]))]}
        /\ UNCHANGED <<worker_vars, up, owner_vars>>
    BY <1>3 DEF ResponseSend, Receive
  <2>2. Head(queue[s]) \in Response
    BY <2>1 DEF QueuesOK
  <2>3. down' \in [Sessions -> Seq(Response)]
    <3>1. Append(down[s], Head(queue[s])) \in Seq(Response)
      <4>1. down[s] \in Seq(Response)
        BY DEF PlaneTypeOK
      <4> QED BY <2>2, <4>1
    <3> QED BY <2>1, <3>1 DEF PlaneTypeOK
  <2> QED BY <2>1, <2>3 DEF PlaneTypeOK, worker_vars, owner_vars
<1> QED BY <1>1, <1>2, <1>3 DEF RequestHandler, ResponseHandler

-----------------------------------------------------------------------------
(* What is left of a sequence of one element.                               *)
LEMMA TailOfOne ==
  ASSUME NEW T, NEW q \in Seq(T), q # <<>>, Len(q) <= 1
  PROVE  Tail(q) = <<>> /\ q = <<Head(q)>> /\ Head(q) \in T
<1>1. Len(q) \in Nat /\ Len(q) # 0
  OBVIOUS
<1>2. Len(q) = 1
  <2>1. \A n \in Nat : n # 0 /\ n <= 1 => n = 1
    OBVIOUS
  <2> QED BY <1>1, <2>1, Zenon
<1>3. Tail(q) \in Seq(T)
  OBVIOUS
<1>4. Len(Tail(q)) = 0
  BY <1>2
<1>5. Tail(q) = <<>>
  BY <1>3, <1>4
<1>6. q = <<q[1]>> /\ Head(q) = q[1] /\ q[1] \in T
  BY <1>2
<1> QED BY <1>5, <1>6

(* A sequence of no element or of one.                                      *)
LEMMA AtMostOne ==
  ASSUME NEW q, NEW m, q = <<>> \/ q = <<m>>
  PROVE  Len(q) <= 1
  OBVIOUS

(* What happens to the requests and the responses of one session.           *)
SessionInv(t) == OneUnderWay(t) /\ GrantIsLast(t) /\ TransfersPast(t)

Unskipped(t) ==
  \A g \in Granted(t) : \A i \in DOMAIN executed[t] :
    g.transfer < executed[t][i] => \E j \in 1 .. i : executed[t][j] = g.transfer

SessionTypes(t) ==
  /\ channel[t] \in Seq(Queries) /\ up[t] \in Seq(Messages)
  /\ queue[t] \in Seq(Response) /\ down[t] \in Seq(Response)
  /\ call[t] \in {Idle} \cup Calls /\ executed[t] \in Seq(Nat)
  /\ next_transfer_id \in Nat
  /\ \A g \in Granted(t) : g.transfer \in Nat /\ g.transfer < next_transfer_id

(* The types and the bounds of one session, out of those of the plane.      *)
LEMMA SessionOfPlane ==
  ASSUME PlaneTypeOK, GroupInv, QueuesOK, NEW t \in Sessions
  PROVE  SessionTypes(t)
<1>1. \A g \in Granted(t) : g.transfer \in Nat /\ g.transfer < next_transfer_id
  BY DEF GroupInv, GroupTypeOK, GrantsPast, Grant, Granted
<1>2. next_transfer_id \in Nat
  BY DEF GroupInv, GroupTypeOK
<1> QED BY <1>1, <1>2 DEF SessionTypes, PlaneTypeOK, QueuesOK

(* A grant that was not run, and the replies on their way, for the grants   *)
(* of one session.                                                          *)
LEMMA GrantsOf ==
  ASSUME NEW t \in Sessions
  PROVE  GrantIsLast(t) <=>
           \A g \in Granted(t) : ~Ran(t, g.transfer) =>
             /\ NoRequest(t)
             /\ Waiting(t) \/ t \in token
             /\ \A a \in Replies(t) : a.kind = "Begin" /\ a.transfer = g.transfer
  BY Zenon DEF GrantIsLast, Granted

(* The replies on their way to a session.                                   *)
LEMMA RepliesTypes ==
  ASSUME NEW t \in Sessions, SessionTypes(t)
  PROVE  \A a \in Replies(t) : a.kind = "Begin" => a.transfer \in Nat
<1>1. \A a \in Reply : a.kind = "Begin" => a.transfer \in Nat
  BY DEF Reply
<1>2. \A m \in Response : m.reply \in Reply
  BY DEF Response
<1>3. call[t].answer \in Reply \cup {NoAnswer}
  BY DEF SessionTypes, Idle, Calls
<1>4. \A q \in Seq(Response) : \A i \in DOMAIN q : q[i].reply \in Reply
  BY <1>2
<1> QED BY <1>1, <1>3, <1>4 DEF SessionTypes, Replies

(* While nothing is answered and nothing is run: requests and responses of  *)
(* the session may get lost, and it may wait no longer once its token is    *)
(* cancelled.                                                               *)
LEMMA FewerReplies ==
  ASSUME NEW t \in Sessions, SessionInv(t), Unskipped(t), SessionTypes(t),
         OneUnderWay(t)', NoRequest(t) => NoRequest(t)',
         Waiting(t) \/ t \in token => Waiting(t)' \/ t \in token',
         Replies(t)' \subseteq Replies(t),
         executed'[t] = executed[t], Granted(t)' = Granted(t),
         next_transfer_id' \in {next_transfer_id, next_transfer_id + 1}
  PROVE  SessionInv(t)' /\ Unskipped(t)'
<1>1. \A x : Ran(t, x)' <=> Ran(t, x)
  BY DEF Ran
<1>2. Unskipped(t)'
  BY DEF Unskipped
<1>3. GrantIsLast(t)'
  <2>1. \A g \in Granted(t) : ~Ran(t, g.transfer) =>
             /\ NoRequest(t)
             /\ Waiting(t) \/ t \in token
             /\ \A a \in Replies(t) : a.kind = "Begin" /\ a.transfer = g.transfer
    BY GrantsOf DEF SessionInv
  <2>2. \A g \in Granted(t)' : ~Ran(t, g.transfer)' =>
             /\ NoRequest(t)'
             /\ Waiting(t)' \/ t \in token'
             /\ \A a \in Replies(t)' : a.kind = "Begin" /\ a.transfer = g.transfer
    BY <1>1, <2>1
  <2> QED BY <2>2 DEF GrantIsLast, Granted
<1>4. TransfersPast(t)'
  <2>1. \A a \in Replies(t) : a.kind = "Begin" => a.transfer < next_transfer_id
    BY DEF SessionInv, TransfersPast
  <2>2. \A a \in Replies(t)' : a.kind = "Begin" => a.transfer < next_transfer_id'
    <3>1. \A a \in Replies(t) : a.kind = "Begin" => a.transfer \in Nat
      BY RepliesTypes
    <3>2. next_transfer_id \in Nat
      BY DEF SessionTypes
    <3>3. ASSUME NEW a \in Replies(t), a.kind = "Begin" PROVE a.transfer < next_transfer_id'
      <4>1. a.transfer \in Nat /\ a.transfer < next_transfer_id
        BY <2>1, <3>1, <3>3
      <4> QED BY <3>2, <4>1
    <3> QED BY <3>3
  <2>3. \A i \in DOMAIN executed'[t] : executed'[t][i] < next_transfer_id'
    BY DEF SessionInv, TransfersPast, SessionTypes
  <2> QED BY <2>2, <2>3 DEF TransfersPast
<1> QED BY <1>2, <1>3, <1>4 DEF SessionInv

(* At most, something of the session on its way is lost.                    *)
Loses(t) ==
  /\ channel'[t] \in {channel[t], <<>>} /\ up'[t] \in {up[t], <<>>}
  /\ Kept(t) /\ down'[t] \in {down[t], <<>>}
  /\ \/ call'[t] = call[t] /\ (t \in token => t \in token')
     \/ call'[t] = Idle /\ t \in token'
  /\ executed'[t] = executed[t]

(* Requests and responses of a session get lost.                            *)
LEMMA LosesOnly ==
  ASSUME NEW t \in Sessions, SessionInv(t), Unskipped(t), SessionTypes(t), Loses(t),
         next_transfer_id' \in {next_transfer_id, next_transfer_id + 1}
  PROVE  SessionInv(t)' /\ Unskipped(t)'
<1> USE DEF Loses, Kept
<1>1. NoRequest(t) => NoRequest(t)'
  BY DEF NoRequest
<1>2. Idle.answer = NoAnswer
  BY DEF Idle
<1>3. call'[t].answer \in {call[t].answer, NoAnswer}
  BY <1>2
<1>4. NoResponse(t) => NoResponse(t)'
  BY <1>3 DEF NoResponse
<1>5. Waiting(t) \/ t \in token => Waiting(t)' \/ t \in token'
  BY DEF Waiting
<1>6. Replies(t)' \subseteq Replies(t)
  <2>1. DOMAIN << >> = {}
    OBVIOUS
  <2> QED BY <1>3, <2>1 DEF Replies
<1>7. Len(<< >>) = 0
  OBVIOUS
<1>8. OneUnderWay(t)'
  <2>1. OneUnderWay(t)
    BY DEF SessionInv
  <2>2. Len(channel'[t]) <= 1 /\ Len(up'[t]) <= 1 /\ Len(queue'[t]) <= 1 /\ Len(down'[t]) <= 1
    BY <1>7, <2>1 DEF OneUnderWay
  <2>3. /\ channel'[t] # <<>> => up'[t] = <<>> /\ ~Held(t)'
        /\ up'[t] # <<>> => ~Held(t)'
        /\ ~NoRequest(t)' => NoResponse(t)'
        /\ queue'[t] # <<>> => down'[t] = <<>> /\ call'[t].answer = NoAnswer
        /\ down'[t] # <<>> => call'[t].answer = NoAnswer
    BY <1>1, <1>3, <1>4, <2>1 DEF OneUnderWay
  <2>4. Waiting(t)' \/ t \in token' \/ (NoRequest(t)' /\ NoResponse(t)')
    BY <1>1, <1>4, <1>5, <2>1 DEF OneUnderWay
  <2> QED BY <2>2, <2>3, <2>4 DEF OneUnderWay
<1> QED BY <1>1, <1>5, <1>6, <1>8, FewerReplies

(* A request of the session is under way, so every grant of its was run.    *)
LEMMA AllRan ==
  ASSUME NEW t \in Sessions, SessionInv(t), ~NoRequest(t)
  PROVE  /\ \A g \in Granted(t) : Ran(t, g.transfer)
         /\ NoResponse(t) /\ Replies(t) = {}
         /\ Waiting(t) \/ t \in token
<1>1. NoResponse(t) /\ (Waiting(t) \/ t \in token)
  BY DEF SessionInv, OneUnderWay
<1>2. \A g \in Granted(t) : Ran(t, g.transfer)
  BY GrantsOf DEF SessionInv
<1>3. DOMAIN << >> = {}
  OBVIOUS
<1>4. Replies(t) = {}
  BY <1>1, <1>3 DEF NoResponse, Replies
<1> QED BY <1>1, <1>2, <1>4

(* The invariant of a session none of whose grants is left to run.          *)
LEMMA NothingLeft ==
  ASSUME NEW t \in Sessions, SessionTypes(t), Unskipped(t), SessionInv(t),
         \A g \in Granted(t) : Ran(t, g.transfer),
         executed'[t] = executed[t], Granted(t)' = Granted(t),
         next_transfer_id' \in {next_transfer_id, next_transfer_id + 1},
         Replies(t)' = {}, OneUnderWay(t)'
  PROVE  SessionInv(t)' /\ Unskipped(t)'
<1>1. \A x : Ran(t, x)' <=> Ran(t, x)
  BY DEF Ran
<1>2. Unskipped(t)'
  BY DEF Unskipped
<1>3. \A g \in Granted(t)' : Ran(t, g.transfer)'
  BY <1>1
<1>4. GrantIsLast(t)'
  BY <1>3 DEF GrantIsLast, Granted
<1>5. TransfersPast(t)'
  BY DEF SessionInv, TransfersPast, SessionTypes
<1> QED BY <1>2, <1>4, <1>5 DEF SessionInv

(* The request of a session is answered, or the answer is dropped: a grant  *)
(* is then the only one that its node has not run.                          *)
LEMMA Answered ==
  ASSUME NEW t \in Sessions, SessionTypes(t), SessionInv(t), Unskipped(t),
         Held(t) \/ up[t] # <<>>, Told(t), up'[t] = <<>>,
         channel'[t] = channel[t], down'[t] = down[t], call'[t] = call[t],
         token' = token, executed'[t] = executed[t],
         next_transfer_id' \in {next_transfer_id, next_transfer_id + 1}
  PROVE  SessionInv(t)' /\ Unskipped(t)'
<1>1. PICK m \in Response :
        /\ queue'[t] \in {queue[t], <<>>, Append(queue[t], m)}
        /\ \/ m.reply.kind # "Begin" /\ Granted(t)' = Granted(t)
           \/ /\ m.reply.kind = "Begin" /\ m.reply.transfer = next_transfer_id
              /\ next_transfer_id' = next_transfer_id + 1
              /\ \A g \in Granted(t)' : g \in Granted(t) \/ g.transfer = next_transfer_id
  BY DEF Told
<1>2. ~NoRequest(t) /\ channel[t] = <<>>
  BY DEF NoRequest, SessionInv, OneUnderWay
<1>3. /\ \A g \in Granted(t) : Ran(t, g.transfer)
      /\ queue[t] = <<>> /\ down[t] = <<>> /\ call[t].answer = NoAnswer
      /\ Waiting(t) \/ t \in token
  BY <1>2, AllRan DEF NoResponse
<1>4. NoRequest(t)'
  BY <1>2 DEF NoRequest, Told
<1>5. queue'[t] = <<>> \/ (queue'[t] = <<m>> /\ DOMAIN queue'[t] = {1} /\ queue'[t][1] = m)
  <2>1. Append(<<>>, m) = <<m>> /\ Len(<<m>>) = 1 /\ DOMAIN <<m>> = {1} /\ <<m>>[1] = m
    OBVIOUS
  <2> QED BY <1>1, <1>3, <2>1
<1>6. \A a \in Replies(t)' : a = m.reply
  <2>1. DOMAIN << >> = {}
    OBVIOUS
  <2> QED BY <1>3, <1>5, <2>1 DEF Replies
<1>7. OneUnderWay(t)'
  <2>1. Len(channel'[t]) <= 1 /\ Len(up'[t]) <= 1 /\ Len(queue'[t]) <= 1 /\ Len(down'[t]) <= 1
    BY <1>2, <1>3, <1>5, AtMostOne
  <2>2. Waiting(t)' \/ t \in token'
    BY <1>3 DEF Waiting
  <2> QED BY <1>2, <1>3, <1>4, <2>1, <2>2 DEF OneUnderWay
<1>8. next_transfer_id \in Nat /\ \A i \in DOMAIN executed[t] : executed[t][i] \in Nat
  BY DEF SessionTypes
<1>9. \A i \in DOMAIN executed[t] : executed[t][i] < next_transfer_id
  BY DEF SessionInv, TransfersPast
<1>10. \A g \in Granted(t)' : \/ g \in Granted(t) /\ Ran(t, g.transfer)'
                              \/ /\ g.transfer = next_transfer_id
                                 /\ m.reply.kind = "Begin" /\ m.reply.transfer = g.transfer
  BY <1>1, <1>3 DEF Ran
<1>11. GrantIsLast(t)'
  <2>1. \A g \in Granted(t)' : ~Ran(t, g.transfer)' =>
             /\ NoRequest(t)'
             /\ Waiting(t)' \/ t \in token'
             /\ \A a \in Replies(t)' : a.kind = "Begin" /\ a.transfer = g.transfer
    BY <1>3, <1>4, <1>6, <1>10 DEF Waiting
  <2> QED BY <2>1 DEF GrantIsLast, Granted
<1>12. TransfersPast(t)'
  <2>1. m.reply.kind = "Begin" => m.reply.transfer < next_transfer_id'
    BY <1>1, <1>8
  <2>2. \A i \in DOMAIN executed'[t] : executed'[t][i] < next_transfer_id'
    BY <1>8, <1>9
  <2> QED BY <1>6, <2>1, <2>2 DEF TransfersPast
<1>13. Unskipped(t)'
  <2>1. ASSUME NEW g \in Granted(t)', NEW i \in DOMAIN executed[t], g.transfer < executed[t][i]
        PROVE  \E j \in 1 .. i : executed[t][j] = g.transfer
    <3>1. g.transfer # next_transfer_id
      BY <1>8, <1>9, <2>1
    <3>2. g \in Granted(t)
      BY <1>10, <3>1
    <3> QED BY <2>1, <3>2 DEF Unskipped
  <2> QED BY <2>1 DEF Unskipped
<1> QED BY <1>7, <1>11, <1>12, <1>13 DEF SessionInv

(* The request of a session is taken and not answered yet.                  *)
LEMMA Taken ==
  ASSUME NEW t \in Sessions, SessionTypes(t), SessionInv(t), Unskipped(t),
         up[t] # <<>>, up'[t] = <<>>, queue'[t] = queue[t],
         Granted(t)' = Granted(t),
         channel'[t] = channel[t], down'[t] = down[t], call'[t] = call[t],
         token' = token, executed'[t] = executed[t],
         next_transfer_id' \in {next_transfer_id, next_transfer_id + 1}
  PROVE  SessionInv(t)' /\ Unskipped(t)'
<1>1. ~NoRequest(t) /\ channel[t] = <<>>
  BY DEF NoRequest, SessionInv, OneUnderWay
<1>2. /\ \A g \in Granted(t) : Ran(t, g.transfer)
      /\ queue[t] = <<>> /\ down[t] = <<>> /\ call[t].answer = NoAnswer
      /\ Waiting(t) \/ t \in token
  BY <1>1, AllRan DEF NoResponse
<1>3. DOMAIN << >> = {} /\ Len(<< >>) = 0
  OBVIOUS
<1>4. Replies(t)' = {}
  BY <1>2, <1>3 DEF Replies
<1>5. OneUnderWay(t)'
  BY <1>1, <1>2, <1>3 DEF OneUnderWay, NoResponse, Waiting
<1> QED BY <1>2, <1>4, <1>5, NothingLeft

(* request: a node that makes a call has run all that it was granted.       *)
LEMMA RequestSession ==
  ASSUME NEW s \in Sessions, NEW r \in Asks(s), Request(s, r), PlaneTypeOK,
         SessionTypes(s), SessionInv(s), Unskipped(s)
  PROVE  SessionInv(s)' /\ Unskipped(s)'
<1> DEFINE q == [request |-> r, number |-> made'[s]]
           c == [number |-> made'[s], answer |-> NoAnswer, kind |-> r.kind]
<1>1. /\ ~Waiting(s) /\ s \notin token
      /\ made' = [made EXCEPT ![s] = made[s] + 1]
      /\ call' = [call EXCEPT ![s] = c]
      /\ channel' = [channel EXCEPT ![s] = Append(channel[s], q)]
      /\ UNCHANGED <<vars, up, down, executed>>
  BY DEF Request, socket_vars
<1>2. NoRequest(s) /\ NoResponse(s)
  BY <1>1 DEF SessionInv, OneUnderWay
<1>3. \A g \in Granted(s) : Ran(s, g.transfer)
  BY <1>1, GrantsOf DEF SessionInv
<1>4. /\ UNCHANGED <<queue, begun, next_transfer_id, pending_collectives, register_requests>>
      /\ Granted(s)' = Granted(s)
  BY <1>1 DEF vars, group, Granted
<1>5. c.answer = NoAnswer /\ c # Idle
  <2>1. made'[s] # 0
    BY <1>1 DEF PlaneTypeOK
  <2> QED BY <2>1 DEF Idle
<1> HIDE DEF q, c
<1>6. channel'[s] = <<q>> /\ call'[s] = c
  BY <1>1, <1>2 DEF PlaneTypeOK, NoRequest
<1>7. DOMAIN << >> = {} /\ Len(<< >>) = 0 /\ Len(<<q>>) = 1
  OBVIOUS
<1>8. up'[s] = <<>> /\ queue'[s] = <<>> /\ down'[s] = <<>> /\ ~Held(s)'
  BY <1>1, <1>2, <1>4 DEF NoRequest, NoResponse, Held
<1>9. Replies(s)' = {}
  BY <1>5, <1>6, <1>7, <1>8 DEF Replies
<1>10. OneUnderWay(s)'
  <2>1. Len(channel'[s]) <= 1 /\ Len(up'[s]) <= 1 /\ Len(queue'[s]) <= 1 /\ Len(down'[s]) <= 1
    BY <1>6, <1>7, <1>8
  <2> QED BY <1>5, <1>6, <1>8, <2>1 DEF OneUnderWay, NoResponse, Waiting
<1> QED BY <1>1, <1>3, <1>4, <1>9, <1>10, NothingLeft

(* The worker writes a request, and it arrives or not.                      *)
LEMMA PumpSession ==
  ASSUME NEW s \in Sessions, Pump(s), PlaneTypeOK,
         SessionTypes(s), SessionInv(s), Unskipped(s)
  PROVE  SessionInv(s)' /\ Unskipped(s)'
<1> DEFINE u == [id |-> issued'[s], request |-> Head(channel[s]).request]
<1>1. /\ channel[s] # <<>>
      /\ channel' = [channel EXCEPT ![s] = Tail(channel[s])]
      /\ up' \in {up, [up EXCEPT ![s] = Append(up[s], u)]}
      /\ UNCHANGED <<group, queue, token, down, call, executed>>
  BY DEF Pump, owner_vars
<1> HIDE DEF u
<1>2. ~NoRequest(s) /\ up[s] = <<>> /\ ~Held(s) /\ Len(channel[s]) <= 1
  BY <1>1 DEF NoRequest, SessionInv, OneUnderWay
<1>3. /\ \A g \in Granted(s) : Ran(s, g.transfer)
      /\ queue[s] = <<>> /\ down[s] = <<>> /\ call[s].answer = NoAnswer
      /\ Waiting(s) \/ s \in token
  BY <1>2, AllRan DEF NoResponse
<1>4. /\ UNCHANGED <<begun, next_transfer_id, pending_collectives, register_requests>>
      /\ Granted(s)' = Granted(s)
  BY <1>1 DEF group, Granted
<1>5. channel'[s] = <<>>
  <2>1. channel'[s] = Tail(channel[s])
    BY <1>1 DEF PlaneTypeOK
  <2>2. channel[s] \in Seq(Queries)
    BY DEF PlaneTypeOK
  <2> QED BY <1>1, <1>2, <2>1, <2>2, TailOfOne
<1>6. up'[s] = <<>> \/ up'[s] = <<u>>
  BY <1>1, <1>2 DEF PlaneTypeOK
<1>7. DOMAIN << >> = {} /\ Len(<< >>) = 0 /\ Len(<<u>>) = 1
  OBVIOUS
<1>8. queue'[s] = <<>> /\ down'[s] = <<>> /\ ~Held(s)' /\ call'[s] = call[s]
  BY <1>1, <1>2, <1>3, <1>4 DEF Held
<1>9. Replies(s)' = {}
  BY <1>3, <1>7, <1>8 DEF Replies
<1>10. OneUnderWay(s)'
  <2>1. Len(channel'[s]) <= 1 /\ Len(up'[s]) <= 1 /\ Len(queue'[s]) <= 1 /\ Len(down'[s]) <= 1
    BY <1>5, <1>6, <1>8, AtMostOne
  <2>2. Waiting(s)' \/ s \in token'
    BY <1>1, <1>3, <1>8 DEF Waiting
  <2> QED BY <1>3, <1>5, <1>8, <2>1, <2>2 DEF OneUnderWay, NoResponse
<1> QED BY <1>1, <1>3, <1>4, <1>9, <1>10, NothingLeft

(* A response moves on, to the socket or to the call.                       *)
LEMMA ReplyMoves ==
  ASSUME NEW t \in Sessions, SessionTypes(t), SessionInv(t), Unskipped(t),
         queue[t] # <<>> \/ down[t] # <<>>,
         channel'[t] = channel[t], up'[t] = up[t],
         queue'[t] = <<>>, down'[t] = <<>> \/ (queue[t] # <<>> /\ down'[t] = queue[t]),
         call'[t] = call[t] \/ /\ queue[t] = <<>> /\ Len(down[t]) > 0
                               /\ call'[t].answer = Head(down[t]).reply /\ down'[t] = <<>>,
         UNCHANGED <<token, begun, next_transfer_id, pending_collectives, register_requests>>,
         executed'[t] = executed[t],
         Waiting(t) => Waiting(t)'
  PROVE  SessionInv(t)' /\ Unskipped(t)'
<1>1. OneUnderWay(t)
  BY DEF SessionInv
<1>2. NoRequest(t) /\ (Waiting(t) \/ t \in token) /\ call[t].answer = NoAnswer
  BY <1>1 DEF OneUnderWay, NoResponse
<1>3. NoRequest(t)' /\ (Waiting(t)' \/ t \in token') /\ Granted(t)' = Granted(t)
  BY <1>2 DEF NoRequest, Held, Granted
<1>4. DOMAIN << >> = {} /\ Len(<< >>) = 0
  OBVIOUS
<1>5. down[t] # <<>> => 1 \in DOMAIN down[t] /\ Head(down[t]) = down[t][1]
  BY DEF SessionTypes
<1>6. Replies(t)' \subseteq Replies(t)
  <2>1. CASE call'[t] = call[t]
    BY <1>4, <2>1 DEF Replies
  <2>2. CASE /\ Len(down[t]) > 0
             /\ call'[t].answer = Head(down[t]).reply /\ down'[t] = <<>>
    <3>1. Head(down[t]).reply \in Replies(t)
      BY <1>4, <1>5, <2>2 DEF Replies
    <3> QED BY <1>4, <2>2, <3>1 DEF Replies
  <2> QED BY <2>1, <2>2
<1>7. OneUnderWay(t)'
  <2>1. Len(channel'[t]) <= 1 /\ Len(up'[t]) <= 1 /\ Len(queue'[t]) <= 1 /\ Len(down'[t]) <= 1
    BY <1>1, <1>4 DEF OneUnderWay
  <2>2. down'[t] # <<>> => call'[t].answer = NoAnswer
    BY <1>2
  <2> QED BY <1>3, <2>1, <2>2 DEF OneUnderWay, NoRequest
<1> QED BY <1>2, <1>3, <1>6, <1>7, FewerReplies

(* The call returns with its answer: what was granted and not run before is *)
(* what the node runs now.                                                  *)
LEMMA ReturnSession ==
  ASSUME NEW s \in Sessions, Return(s), PlaneTypeOK,
         SessionTypes(s), SessionInv(s), Unskipped(s)
  PROVE  SessionInv(s)' /\ Unskipped(s)'
<1> DEFINE a == call[s].answer
           ex == executed[s]
<1>1. /\ Waiting(s) /\ a # NoAnswer /\ call'[s] = Idle /\ token \subseteq token'
      /\ UNCHANGED <<vars, channel, up, down>>
  BY DEF Return, Fail, PlaneTypeOK, socket_vars
<1>2. /\ UNCHANGED <<queue, begun, next_transfer_id, pending_collectives, register_requests>>
      /\ Granted(s)' = Granted(s)
  BY <1>1 DEF vars, group, Granted
<1>3. NoRequest(s) /\ queue[s] = <<>> /\ down[s] = <<>>
  BY <1>1 DEF SessionInv, OneUnderWay, NoResponse
<1>4. /\ a \in Replies(s)
      /\ a.kind = "Begin" => a.transfer < next_transfer_id /\ a.transfer \in Nat
  <2>1. a \in Replies(s)
    BY <1>1 DEF Replies
  <2> QED BY <2>1, RepliesTypes DEF SessionInv, TransfersPast
<1>5. \A g \in Granted(s) : Ran(s, g.transfer) \/ (a.kind = "Begin" /\ a.transfer = g.transfer)
  BY <1>4, GrantsOf DEF SessionInv
<1>6. ex \in Seq(Nat) /\ executed'[s] = IF a.kind = "Begin" THEN Append(ex, a.transfer) ELSE ex
  BY DEF Return, PlaneTypeOK
<1>7. /\ NoRequest(s)' /\ queue'[s] = <<>> /\ down'[s] = <<>>
      /\ call'[s].answer = NoAnswer
  BY <1>1, <1>2, <1>3 DEF NoRequest, Held, Idle
<1>8. Replies(s)' = {}
  <2>1. DOMAIN << >> = {}
    OBVIOUS
  <2> QED BY <1>7, <2>1 DEF Replies
<1>9. OneUnderWay(s)'
  <2>1. Len(channel'[s]) <= 1 /\ Len(up'[s]) <= 1 /\ Len(queue'[s]) <= 1 /\ Len(down'[s]) <= 1
    BY <1>7, AtMostOne DEF NoRequest
  <2> QED BY <1>7, <2>1 DEF OneUnderWay, NoRequest, NoResponse
<1>10. /\ \A i \in DOMAIN ex : ex[i] \in Nat /\ ex[i] < next_transfer_id
       /\ \A g \in Granted(s) : g.transfer \in Nat
       /\ \A g \in Granted(s) : \A i \in DOMAIN ex :
            g.transfer < ex[i] => \E j \in 1 .. i : ex[j] = g.transfer
  <2>1. \A i \in DOMAIN ex : ex[i] \in Nat
    BY <1>6
  <2>2. \A i \in DOMAIN ex : ex[i] < next_transfer_id
    BY DEF SessionInv, TransfersPast
  <2>3. \A g \in Granted(s) : g.transfer \in Nat
    BY DEF SessionTypes
  <2>4. \A g \in Granted(s) : \A i \in DOMAIN ex :
          g.transfer < ex[i] => \E j \in 1 .. i : ex[j] = g.transfer
    BY DEF Unskipped
  <2> QED BY <2>1, <2>2, <2>3, <2>4
<1> HIDE DEF a, ex
<1>11. CASE a.kind = "Begin"
  <2>1. /\ DOMAIN ex = 1 .. Len(ex) /\ Len(ex) \in Nat
        /\ DOMAIN executed'[s] = 1 .. Len(ex) + 1
        /\ executed'[s][Len(ex) + 1] = a.transfer
        /\ \A i \in DOMAIN ex : executed'[s][i] = ex[i]
    BY <1>4, <1>6, <1>11
  <2>2. \A g \in Granted(s) : \E i \in DOMAIN executed'[s] : executed'[s][i] = g.transfer
    <3>1. SUFFICES ASSUME NEW g \in Granted(s)
                   PROVE  \E i \in DOMAIN executed'[s] : executed'[s][i] = g.transfer
      OBVIOUS
    <3>2. CASE Ran(s, g.transfer)
      BY <2>1, <3>2 DEF Ran, ex
    <3>3. CASE a.transfer = g.transfer
      BY <2>1, <3>3
    <3> QED BY <1>5, <3>2, <3>3
  <2>3. GrantIsLast(s)'
    BY <1>2, <2>2 DEF GrantIsLast, Granted, Ran
  <2>4. TransfersPast(s)'
    <3>1. \A i \in DOMAIN executed'[s] : executed'[s][i] < next_transfer_id'
      BY <1>2, <1>4, <1>10, <1>11, <2>1
    <3> QED BY <1>8, <3>1 DEF TransfersPast
  <2>5. Unskipped(s)'
    <3>1. ASSUME NEW g \in Granted(s), NEW i \in DOMAIN executed'[s],
                 g.transfer < executed'[s][i]
          PROVE  \E j \in 1 .. i : executed'[s][j] = g.transfer
      <4>1. CASE i \in DOMAIN ex
        <5>1. PICK j \in 1 .. i : ex[j] = g.transfer
          BY <1>10, <2>1, <3>1, <4>1
        <5> QED BY <2>1, <4>1, <5>1
      <4>2. CASE i = Len(ex) + 1
        <5>1. PICK j \in DOMAIN executed'[s] : executed'[s][j] = g.transfer
          BY <2>2
        <5>2. j \in 1 .. i
          BY <2>1, <4>2, <5>1
        <5> QED BY <5>1, <5>2
      <4> QED BY <2>1, <4>1, <4>2
    <3> QED BY <1>2, <3>1 DEF Unskipped
  <2> QED BY <1>9, <2>3, <2>4, <2>5 DEF SessionInv
<1>12. CASE a.kind # "Begin"
  <2>1. executed'[s] = executed[s]
    BY <1>6, <1>12 DEF ex
  <2>2. \A g \in Granted(s) : Ran(s, g.transfer)
    BY <1>5, <1>12
  <2> QED BY <1>2, <1>8, <1>9, <2>1, <2>2, NothingLeft
<1> QED BY <1>11, <1>12

-----------------------------------------------------------------------------
(* The steps of the plane, for every session.                               *)
Sound(t) == SessionTypes(t) /\ SessionInv(t) /\ Unskipped(t)

(* The orchestrator does nothing: every session keeps what it has there.    *)
LEMMA GroupKept ==
  ASSUME UNCHANGED <<group, queue>>
  PROVE  /\ next_transfer_id' = next_transfer_id
         /\ \A t \in Sessions : Kept(t)
  BY DEF group, Kept, Held, Waits, Granted

(* The node and the worker lose something: a call is given up, a socket     *)
(* breaks, the worker ends.                                                 *)
LEMMA LossSteps ==
  ASSUME PlaneTypeOK, \A t \in Sessions : Sound(t), NEW s \in Sessions,
         \/ Launch(s) \/ Aborted(s) \/ TimesOut(s) \/ Drop(s) \/ Skip(s) \/ PumpFails(s)
         \/ StreamEnds(s) \/ Cancelled(s)
         \/ \E route \in Routes : \/ Connect(s, route) \/ ConnectFails(s, route)
                                  \/ Break(s, route)
  PROVE  \A t \in Sessions : SessionInv(t)' /\ Unskipped(t)'
<1>1. UNCHANGED <<vars, executed>>
  BY DEF Launch, Aborted, TimesOut, Drop, Skip, PumpFails, StreamEnds, Cancelled, Connect,
         ConnectFails, Break, socket_vars, owner_vars
<1>2. next_transfer_id' = next_transfer_id /\ \A t \in Sessions : Kept(t)
  BY <1>1, GroupKept DEF vars
<1>3. \A t \in Sessions : channel'[t] \in {channel[t], <<>>}
  <2>1. CASE Skip(s)
    <3>1. channel[s] # <<>> /\ channel' = [channel EXCEPT ![s] = Tail(channel[s])]
      BY <2>1 DEF Skip
    <3>2. Tail(channel[s]) = <<>>
      <4>1. channel[s] \in Seq(Queries) /\ Len(channel[s]) <= 1
        BY DEF Sound, SessionTypes, SessionInv, OneUnderWay
      <4> QED BY <3>1, <4>1, TailOfOne
    <3> QED BY <3>1, <3>2 DEF PlaneTypeOK
  <2>2. CASE ~Skip(s)
    BY <2>2 DEF Launch, Aborted, TimesOut, Drop, PumpFails, StreamEnds, Cancelled, Connect,
                ConnectFails, Break, End, worker_vars, PlaneTypeOK
  <2> QED BY <2>1, <2>2
<1>4. \A t \in Sessions : up'[t] \in {up[t], <<>>} /\ down'[t] \in {down[t], <<>>}
  BY DEF Launch, Aborted, TimesOut, Drop, Skip, PumpFails, StreamEnds, Cancelled, Connect,
         ConnectFails, Break, End, socket_vars, PlaneTypeOK
<1>5. token \subseteq token'
  BY DEF Launch, Aborted, TimesOut, Drop, Skip, PumpFails, StreamEnds, Cancelled, Connect,
         ConnectFails, Break, End, Fail, worker_vars
<1>6. call' = call \/ (s \in token' /\ call' = [call EXCEPT ![s] = Idle])
  BY DEF Launch, Aborted, TimesOut, Drop, Skip, PumpFails, StreamEnds, Cancelled, Connect,
         ConnectFails, Break, End, Fail, worker_vars, owner_vars
<1>7. \A t \in Sessions : Loses(t)
  BY <1>1, <1>2, <1>3, <1>4, <1>5, <1>6 DEF Loses, PlaneTypeOK
<1> QED BY <1>2, <1>7, LosesOnly DEF Sound

(* A step that leaves all of a session t alone but what the orchestrator    *)
(* has of it.                                                               *)
LEMMA OtherSession ==
  ASSUME NEW t \in Sessions, Sound(t), Kept(t), channel'[t] = channel[t], up'[t] = up[t],
         down'[t] = down[t], call'[t] = call[t], executed'[t] = executed[t],
         t \in token => t \in token',
         next_transfer_id' \in {next_transfer_id, next_transfer_id + 1}
  PROVE  SessionInv(t)' /\ Unskipped(t)'
<1>1. Loses(t)
  BY DEF Loses
<1> QED BY <1>1, LosesOnly DEF Sound

(* A call is made or returns, and a request is written.                     *)
LEMMA CallSteps ==
  ASSUME PlaneTypeOK, \A t \in Sessions : Sound(t), NEW s \in Sessions,
         (\E r \in Asks(s) : Request(s, r)) \/ Return(s) \/ Pump(s)
  PROVE  \A t \in Sessions : SessionInv(t)' /\ Unskipped(t)'
<1>1. SessionInv(s)' /\ Unskipped(s)'
  BY RequestSession, ReturnSession, PumpSession DEF Sound
<1>2. UNCHANGED <<group, queue, down>> /\ token \subseteq token'
  BY DEF Request, Return, Pump, Fail, vars, socket_vars
<1>3. next_transfer_id' = next_transfer_id /\ \A t \in Sessions : Kept(t)
  BY <1>2, GroupKept
<1>4. \A t \in Sessions \ {s} : /\ channel'[t] = channel[t] /\ up'[t] = up[t]
                                /\ call'[t] = call[t] /\ executed'[t] = executed[t]
  BY DEF Request, Return, Pump, socket_vars, owner_vars, PlaneTypeOK
<1>5. ASSUME NEW t \in Sessions \ {s} PROVE SessionInv(t)' /\ Unskipped(t)'
  BY <1>2, <1>3, <1>4, OtherSession
<1> QED BY <1>1, <1>5

(* The worker takes a response.                                             *)
LEMMA TakeSteps ==
  ASSUME PlaneTypeOK, \A t \in Sessions : Sound(t), NEW s \in Sessions, Take(s)
  PROVE  \A t \in Sessions : SessionInv(t)' /\ Unskipped(t)'
<1> DEFINE answered == {p \in pending[s] : p.id = Head(down[s]).request}
<1>1. /\ down[s] # <<>> /\ down' = [down EXCEPT ![s] = Tail(down[s])]
      /\ UNCHANGED <<vars, up, executed>>
  BY DEF Take
<1>2. UNCHANGED <<group, queue, begun, next_transfer_id, pending_collectives, register_requests>>
  BY <1>1 DEF vars, group
<1>3. next_transfer_id' = next_transfer_id /\ \A t \in Sessions : Kept(t)
  BY <1>2, GroupKept
<1>4. Tail(down[s]) = <<>> /\ down'[s] = <<>>
  <2>1. down[s] \in Seq(Response) /\ Len(down[s]) <= 1
    BY DEF Sound, SessionTypes, SessionInv, OneUnderWay
  <2>2. Tail(down[s]) = <<>>
    BY <1>1, <2>1, TailOfOne
  <2> QED BY <1>1, <2>2 DEF PlaneTypeOK
<1>5. \A t \in Sessions \ {s} : down'[t] = down[t]
  BY <1>1 DEF PlaneTypeOK
<1>6. CASE answered = {}
  <2>1. End(s) /\ call' = call
    BY <1>6 DEF Take
  <2>2. \A t \in Sessions : channel'[t] \in {channel[t], <<>>}
    BY <2>1 DEF End, PlaneTypeOK
  <2>3. \A t \in Sessions : Loses(t)
    BY <1>1, <1>3, <1>4, <1>5, <2>1, <2>2 DEF Loses, End
  <2> QED BY <1>3, <2>3, LosesOnly DEF Sound
<1>7. CASE answered # {}
  <2>1. /\ call' = IF \E p \in answered : p.number = call[s].number
                   THEN [call EXCEPT ![s].answer = Head(down[s]).reply] ELSE call
        /\ UNCHANGED <<token, channel>>
    BY <1>7 DEF Take
  <2>2. \A t \in Sessions \ {s} : call'[t] = call[t]
    BY <2>1 DEF PlaneTypeOK
  <2>3. ASSUME NEW t \in Sessions \ {s} PROVE SessionInv(t)' /\ Unskipped(t)'
    BY <1>1, <1>3, <1>5, <2>1, <2>2, OtherSession
  <2>4. \/ call'[s] = call[s]
        \/ call'[s].answer = Head(down[s]).reply /\ call'[s].number = call[s].number
             /\ call[s].number # 0
    <3>1. CASE \E p \in answered : p.number = call[s].number
      <4>1. call[s].number # 0
        <5>1. PICK p \in answered : p.number = call[s].number
          BY <3>1
        <5>2. p \in Tickets
          BY DEF PlaneTypeOK
        <5> QED BY <5>1, <5>2 DEF Tickets
      <4>2. call[s] \in Calls
        BY <4>1 DEF PlaneTypeOK, Idle
      <4>3. call'[s] = [call[s] EXCEPT !.answer = Head(down[s]).reply]
        BY <2>1, <3>1 DEF PlaneTypeOK
      <4> QED BY <4>1, <4>2, <4>3 DEF Calls
    <3>2. CASE ~\E p \in answered : p.number = call[s].number
      BY <2>1, <3>2
    <3> QED BY <3>1, <3>2
  <2>5. Waiting(s) => Waiting(s)'
    BY <2>4 DEF Waiting, Idle
  <2>6. queue[s] = <<>> /\ Len(down[s]) > 0
    <3>1. queue[s] = <<>>
      BY <1>1 DEF Sound, SessionInv, OneUnderWay
    <3>2. down[s] \in Seq(Response)
      BY DEF PlaneTypeOK
    <3>3. Len(down[s]) > 0
      BY <1>1, <3>2
    <3> QED BY <3>1, <3>3
  <2>7. queue'[s] = <<>>
    BY <1>2, <2>6
  <2>8. SessionInv(s)' /\ Unskipped(s)'
    BY <1>1, <1>2, <1>4, <2>1, <2>4, <2>5, <2>6, <2>7, ReplyMoves DEF Sound
  <2> QED BY <2>3, <2>8
<1> QED BY <1>6, <1>7

(* The socket handlers.                                                     *)
LEMMA HandlerSteps ==
  ASSUME PlaneTypeOK, GroupInv, PeersTallied, QueuesOK,
         \A t \in Sessions : Sound(t), NEW s \in Sessions,
         RequestHandler(s) \/ ResponseHandler(s)
  PROVE  \A t \in Sessions : SessionInv(t)' /\ Unskipped(t)'
<1>1. CASE RequestInit(s) \/ ResponseInit(s)
  <2>1. /\ UNCHANGED <<group, channel, up, down, call, executed, token>>
        /\ \A t \in Sessions : queue'[t] \in {queue[t], <<>>}
    BY <1>1 DEF RequestInit, ResponseInit, Served, InitSession, GetSessionResponder,
                worker_vars, owner_vars, QueuesOK
  <2>2. next_transfer_id' = next_transfer_id /\ \A t \in Sessions : Kept(t)
    BY <2>1 DEF group, Kept, Held, Waits, Granted
  <2> QED BY <2>1, <2>2, OtherSession
<1>2. ASSUME NEW route \in Routes, HandlerDone(s, route)
      PROVE  \A t \in Sessions : SessionInv(t)' /\ Unskipped(t)'
  <2>1. UNCHANGED <<channel, up, down, call, executed, token>>
    BY <1>2 DEF HandlerDone, worker_vars, owner_vars
  <2>2. /\ next_transfer_id' = next_transfer_id
        /\ \A t \in Sessions : Kept(t) \/ (Held(t) /\ Told(t))
    <3>1. CASE handler[s][route] = "serving"
      <4>1. Disconnect(s)
        BY <1>2, <3>1 DEF HandlerDone
      <4> QED BY <4>1, DisconnectEffect
    <3>2. CASE handler[s][route] # "serving"
      <4>1. UNCHANGED <<group, queue>>
        BY <1>2, <3>2 DEF HandlerDone, vars
      <4> QED BY <4>1, GroupKept
    <3> QED BY <3>1, <3>2
  <2>3. ASSUME NEW t \in Sessions, Held(t), Told(t) PROVE SessionInv(t)' /\ Unskipped(t)'
    <3>1. up'[t] = <<>>
      BY <2>1, <2>3 DEF Sound, SessionInv, OneUnderWay
    <3> QED BY <2>1, <2>2, <2>3, <3>1, Answered DEF Sound
  <2> QED BY <2>1, <2>2, <2>3, OtherSession
<1>3. CASE RequestEnds(s) \/ ResponseEnds(s)
  BY <1>2, <1>3 DEF RequestEnds, ResponseEnds, Routes
<1>4. CASE RequestMessage(s)
  <2> DEFINE m == Head(up[s])
  <2>1. /\ up[s] # <<>> /\ ProcessRequest(s, m.id, m.request)
        /\ up' = [up EXCEPT ![s] = Tail(up[s])]
        /\ UNCHANGED <<channel, down, call, executed, token>>
    BY <1>4 DEF RequestMessage, worker_vars, owner_vars
  <2>2. up[s] \in Seq(Messages) /\ Len(up[s]) <= 1 /\ ~Held(s)
    BY <2>1 DEF Sound, SessionTypes, SessionInv, OneUnderWay
  <2>3. m \in Messages /\ Tail(up[s]) = <<>>
    BY <2>1, <2>2, TailOfOne
  <2>4. m.id \in Nat /\ m.request \in RemoteRequest
    BY <2>3 DEF Messages
  <2> HIDE DEF m
  <2>5. /\ next_transfer_id' \in {next_transfer_id, next_transfer_id + 1}
        /\ \A t \in Sessions \ {s} : Kept(t) \/ (Held(t) /\ Told(t))
        /\ Told(s) \/ (queue'[s] = queue[s] /\ Granted(s)' = Granted(s))
    BY <2>1, <2>2, <2>4, ProcessEffect
  <2>6. up'[s] = <<>> /\ \A t \in Sessions \ {s} : up'[t] = up[t]
    BY <2>1, <2>3 DEF PlaneTypeOK
  <2>7. SessionInv(s)' /\ Unskipped(s)'
    BY <2>1, <2>5, <2>6, Answered, Taken DEF Sound
  <2>8. ASSUME NEW t \in Sessions \ {s}, Held(t), Told(t) PROVE SessionInv(t)' /\ Unskipped(t)'
    <3>1. up'[t] = <<>>
      BY <2>6, <2>8 DEF Sound, SessionInv, OneUnderWay
    <3> QED BY <2>1, <2>5, <2>8, <3>1, Answered DEF Sound
  <2>9. ASSUME NEW t \in Sessions \ {s}, Kept(t) PROVE SessionInv(t)' /\ Unskipped(t)'
    BY <2>1, <2>5, <2>6, <2>9, OtherSession
  <2> QED BY <2>5, <2>7, <2>8, <2>9
<1>5. CASE ResponseSend(s)
  <2>1. /\ queue[s] # <<>> /\ queue' = [queue EXCEPT ![s] = Tail(queue[s])]
        /\ down' \in {down, [down EXCEPT ![s] = Append(down[s], Head(queue[s]))]}
        /\ UNCHANGED <<group, channel, up, call, executed, token>>
    BY <1>5 DEF ResponseSend, Receive, worker_vars, owner_vars
  <2>2. queue[s] \in Seq(Response) /\ Len(queue[s]) <= 1 /\ down[s] = <<>>
    BY <2>1 DEF Sound, SessionTypes, SessionInv, OneUnderWay
  <2>3. Tail(queue[s]) = <<>> /\ queue[s] = <<Head(queue[s])>>
    BY <2>1, <2>2, TailOfOne
  <2>4. Append(<<>>, Head(queue[s])) = <<Head(queue[s])>>
    OBVIOUS
  <2>5. queue'[s] = <<>> /\ \A t \in Sessions \ {s} : queue'[t] = queue[t]
    BY <2>1, <2>3 DEF QueuesOK
  <2>6. /\ down'[s] = <<>> \/ down'[s] = queue[s]
        /\ \A t \in Sessions \ {s} : down'[t] = down[t]
    BY <2>1, <2>2, <2>3, <2>4 DEF PlaneTypeOK
  <2>7. UNCHANGED <<begun, next_transfer_id, pending_collectives, register_requests>>
    BY <2>1 DEF group
  <2>8. SessionInv(s)' /\ Unskipped(s)'
    BY <2>1, <2>5, <2>6, <2>7, ReplyMoves DEF Sound, Waiting
  <2>9. ASSUME NEW t \in Sessions \ {s} PROVE SessionInv(t)' /\ Unskipped(t)'
    <3>1. Kept(t)
      BY <2>5, <2>7 DEF Kept, Held, Waits, Granted
    <3> QED BY <2>1, <2>6, <2>7, <3>1, OtherSession
  <2> QED BY <2>8, <2>9
<1> QED BY <1>1, <1>3, <1>4, <1>5 DEF RequestHandler, ResponseHandler

-----------------------------------------------------------------------------
(* The orchestrator behind its sockets.                                     *)

(* What a step of the plane is for the orchestrator: one of its own, a      *)
(* request that arrived, or a request that was numbered.                    *)
LEMMA OrchestratorStep ==
  ASSUME PlaneTypeOK, GroupInv, [PlaneNext]_plane
  PROVE  \/ [Next]_vars
         \/ /\ UNCHANGED <<group, sessions, taken, queue>>
            /\ issued' \in [Sessions -> Nat]
         \/ \E s \in Sessions : \E id \in Nat : \E r \in RemoteRequest :
              /\ ProcessRequest(s, id, r)
              /\ UNCHANGED <<sessions, taken, issued>>
<1> DEFINE Step == \/ [Next]_vars
                   \/ /\ UNCHANGED <<group, sessions, taken, queue>>
                      /\ issued' \in [Sessions -> Nat]
                   \/ \E s \in Sessions : \E id \in Nat : \E r \in RemoteRequest :
                        /\ ProcessRequest(s, id, r)
                        /\ UNCHANGED <<sessions, taken, issued>>
<1>1. CASE UNCHANGED vars
  BY <1>1
<1>2. ASSUME NEW s \in Sessions, Pump(s) PROVE Step
  <2>1. UNCHANGED <<group, sessions, taken, queue>> /\ issued' \in [Sessions -> Nat]
    BY <1>2 DEF Pump, GroupInv, GroupTypeOK
  <2> QED BY <2>1
<1>3. ASSUME NEW s \in Sessions, RequestMessage(s) PROVE Step
  <2>1. up[s] # <<>> /\ up[s] \in Seq(Messages)
    BY <1>3 DEF RequestMessage, PlaneTypeOK
  <2>2. Head(up[s]) \in Messages
    BY <2>1
  <2>3. Head(up[s]).id \in Nat /\ Head(up[s]).request \in RemoteRequest
    BY <2>2 DEF Messages
  <2>4. /\ ProcessRequest(s, Head(up[s]).id, Head(up[s]).request)
        /\ UNCHANGED <<sessions, taken, issued>>
    BY <1>3 DEF RequestMessage
  <2> QED BY <2>3, <2>4
<1>4. ASSUME NEW s \in Sessions,
             InitSession(s) \/ GetSessionResponder(s) \/ Receive(s) \/ Disconnect(s)
      PROVE  Step
  BY <1>4 DEF Next
<1>5. CASE UNCHANGED plane
  BY <1>1, <1>5 DEF plane
<1>6. ASSUME NEW s \in Sessions, RequestHandler(s) \/ ResponseHandler(s)
      PROVE  Step
  <2>1. CASE RequestInit(s) \/ ResponseInit(s) \/ ResponseSend(s)
    BY <1>4, <2>1 DEF RequestInit, ResponseInit, ResponseSend
  <2>2. CASE RequestEnds(s) \/ ResponseEnds(s)
    <3>1. Disconnect(s) \/ UNCHANGED vars
      BY <2>2 DEF RequestEnds, ResponseEnds, HandlerDone
    <3> QED BY <1>1, <1>4, <3>1
  <2> QED BY <1>3, <1>6, <2>1, <2>2 DEF RequestHandler, ResponseHandler
<1>7. ASSUME NEW s \in Sessions,
             \/ Launch(s) \/ (\E r \in Asks(s) : Request(s, r)) \/ TimesOut(s) \/ Drop(s)
             \/ OwnerStep(s) \/ WorkerStep(s)
             \/ \E route \in Routes : ConnectFails(s, route) \/ Break(s, route)
      PROVE  Step
  <2>1. Pump(s) \/ UNCHANGED vars
    BY <1>7 DEF Launch, Request, TimesOut, Drop, OwnerStep, Return, Aborted, WorkerStep,
                Connect, Skip, PumpFails, Take, StreamEnds, Cancelled, ConnectFails, Break
  <2> QED BY <1>1, <1>2, <2>1
<1> QED BY <1>5, <1>6, <1>7 DEF PlaneNext

(* Every step of the plane keeps what the orchestrator promises.            *)
LEMMA PlaneGroup ==
  ASSUME PlaneTypeOK, GroupInv, PeersTallied, QueuesOK, [PlaneNext]_plane
  PROVE  GroupInv' /\ PeersTallied' /\ QueuesOK'
<1>1. CASE [Next]_vars
  BY <1>1, NextGroup, NextCounts
<1>2. CASE UNCHANGED <<group, sessions, taken, queue>> /\ issued' \in [Sessions -> Nat]
  BY <1>2, GroupUnchanged DEF group, PeersTallied, PeersCounted, QueuesOK
<1>3. ASSUME NEW s \in Sessions, NEW id \in Nat, NEW r \in RemoteRequest,
             ProcessRequest(s, id, r), UNCHANGED <<sessions, taken, issued>>
      PROVE  GroupInv' /\ PeersTallied' /\ QueuesOK'
  <2>1. issued' \in [Sessions -> Nat]
    BY <1>3 DEF GroupInv, GroupTypeOK
  <2>2. queue' \in Queues /\ PeersTallied'
    BY <1>3, RequestQueues
  <2> QED BY <1>3, <2>1, <2>2, ProcessKeeps DEF QueuesOK, Queues
<1> QED BY <1>1, <1>2, <1>3, OrchestratorStep

(* Every step of the plane keeps the grants of a collective in agreement.   *)
LEMMA PlaneAgrees ==
  ASSUME PlaneTypeOK, GroupInv, CollectivesAgree, [PlaneNext]_plane
  PROVE  CollectivesAgree'
<1>1. CASE [Next]_vars
  BY <1>1, NextAgrees
<1>2. CASE UNCHANGED group
  BY <1>2 DEF group, CollectivesAgree
<1> QED BY <1>1, <1>2, ProcessAgrees, OrchestratorStep

-----------------------------------------------------------------------------
(* The types hold at first, and nothing is under way.                       *)
LEMMA InitPlane ==
  ASSUME PlaneInit
  PROVE  PlaneInv
<1>1. GroupInv /\ PeersTallied /\ QueuesOK
  BY InitGroup, InitCounts DEF PlaneInit
<1>2. PlaneTypeOK
  BY DEF PlaneInit, PlaneTypeOK
<1>3. begun = {} /\ pending_collectives = <<>> /\ register_requests = <<>>
  BY DEF PlaneInit, Init
<1>4. ASSUME NEW t \in Sessions PROVE SessionInv(t)
  <2>1. /\ channel[t] = <<>> /\ up[t] = <<>> /\ down[t] = <<>> /\ queue[t] = <<>>
        /\ call[t] = Idle /\ executed[t] = <<>>
    BY DEF PlaneInit, Init
  <2>2. ~Held(t)
    BY <1>3, EmptyWaits DEF Held
  <2>3. call[t].answer = NoAnswer
    BY <2>1 DEF Idle
  <2>4. DOMAIN << >> = {} /\ Len(<< >>) = 0
    OBVIOUS
  <2>5. OneUnderWay(t)
    BY <2>1, <2>2, <2>3, <2>4 DEF OneUnderWay, NoRequest, NoResponse
  <2>6. GrantIsLast(t)
    BY <1>3 DEF GrantIsLast
  <2>7. TransfersPast(t)
    BY <2>1, <2>3, <2>4 DEF TransfersPast, Replies
  <2> QED BY <2>5, <2>6, <2>7 DEF SessionInv
<1>5. NothingSkipped
  BY <1>3 DEF NothingSkipped
<1> QED BY <1>1, <1>2, <1>4, <1>5 DEF PlaneInv, SessionInv

(* Every step keeps the types.                                              *)
LEMMA PlaneTypes ==
  ASSUME PlaneTypeOK, GroupInv, QueuesOK, [PlaneNext]_plane
  PROVE  PlaneTypeOK'
<1>1. CASE UNCHANGED plane
  BY <1>1 DEF plane, PlaneTypeOK, worker_vars, socket_vars, owner_vars
<1>2. issued \in [Sessions -> Nat]
  BY DEF GroupInv, GroupTypeOK
<1>3. CASE PlaneNext
  BY <1>2, <1>3, OwnerTypes, WorkerTypes, HandlerTypes DEF PlaneNext, OwnerStep
<1> QED BY <1>1, <1>3

(* Every step keeps the invariant.                                          *)
LEMMA NextPlane ==
  ASSUME PlaneInv, [PlaneNext]_plane
  PROVE  PlaneInv'
<1>1. GroupInv /\ PeersTallied /\ QueuesOK /\ PlaneTypeOK
  BY DEF PlaneInv
<1>2. GroupInv' /\ PeersTallied' /\ QueuesOK' /\ PlaneTypeOK'
  BY <1>1, PlaneGroup, PlaneTypes
<1>3. \A t \in Sessions : Sound(t)
  <2>1. \A t \in Sessions : SessionTypes(t)
    BY <1>1, SessionOfPlane
  <2>2. \A t \in Sessions : Unskipped(t)
    BY DEF PlaneInv, NothingSkipped, Unskipped, Granted
  <2> QED BY <2>1, <2>2 DEF Sound, PlaneInv, SessionInv
<1>4. \A t \in Sessions : SessionInv(t)' /\ Unskipped(t)'
  <2>1. CASE UNCHANGED plane
    <3>1. UNCHANGED <<group, queue, channel, up, down, call, executed, token>>
      BY <2>1 DEF plane, vars, worker_vars, socket_vars, owner_vars
    <3>2. next_transfer_id' = next_transfer_id /\ \A t \in Sessions : Kept(t)
      BY <3>1, GroupKept
    <3> QED BY <1>3, <3>1, <3>2, OtherSession
  <2>2. CASE PlaneNext
    <3>1. PICK s \in Sessions :
            \/ Launch(s) \/ (\E r \in Asks(s) : Request(s, r)) \/ TimesOut(s) \/ Drop(s)
            \/ OwnerStep(s) \/ WorkerStep(s) \/ RequestHandler(s) \/ ResponseHandler(s)
            \/ \E route \in Routes : ConnectFails(s, route) \/ Break(s, route)
      BY <2>2 DEF PlaneNext
    <3>2. CASE RequestHandler(s) \/ ResponseHandler(s)
      BY <1>1, <1>3, <3>2, HandlerSteps
    <3>3. CASE (\E r \in Asks(s) : Request(s, r)) \/ Return(s) \/ Pump(s)
      BY <1>1, <1>3, <3>3, CallSteps
    <3>4. CASE Take(s)
      BY <1>1, <1>3, <3>4, TakeSteps
    <3>5. CASE \/ Launch(s) \/ Aborted(s) \/ TimesOut(s) \/ Drop(s) \/ Skip(s) \/ PumpFails(s)
               \/ StreamEnds(s) \/ Cancelled(s)
               \/ \E route \in Routes : \/ Connect(s, route) \/ ConnectFails(s, route)
                                        \/ Break(s, route)
      BY <1>1, <1>3, <3>5, LossSteps
    <3> QED BY <3>1, <3>2, <3>3, <3>4, <3>5 DEF OwnerStep, WorkerStep
  <2> QED BY <2>1, <2>2
<1>5. NothingSkipped'
  <2>1. \A g \in begun' : g.session \in Sessions
    BY <1>2 DEF GroupInv, GroupTypeOK, Grant
  <2> QED BY <1>4, <2>1 DEF NothingSkipped, Unskipped, Granted
<1> QED BY <1>2, <1>4, <1>5 DEF PlaneInv, SessionInv

(* The invariant of the control plane holds in every reachable state.       *)
THEOREM PlaneInvariant == PlaneSpec => []PlaneInv
<1>1. PlaneInit => PlaneInv
  BY InitPlane
<1>2. PlaneInv /\ [PlaneNext]_plane => PlaneInv'
  BY NextPlane
<1> QED BY <1>1, <1>2, PTL DEF PlaneSpec

(* "A dropped request may already be executing remotely, so it cannot be    *)
(* ignored or replayed": whatever breaks, times out or is dropped, a node   *)
(* that runs a collective has run every one granted to it before.           *)
THEOREM NoCollectiveSkipped == PlaneSpec => []NothingSkipped
<1>1. PlaneInv => NothingSkipped
  BY DEF PlaneInv
<1> QED BY <1>1, PlaneInvariant, PTL

(* At most one request or response of a session is under way, so the queue  *)
(* of its responses never fills and try_send never drops one for that.      *)
THEOREM OneRequestUnderWay == PlaneSpec => [](\A s \in Sessions : OneUnderWay(s))
<1>1. PlaneInv => \A s \in Sessions : OneUnderWay(s)
  BY DEF PlaneInv
<1> QED BY <1>1, PlaneInvariant, PTL

(* What the orchestrator promises for any calls of its methods it promises  *)
(* behind its sockets: its tables are consistent, its peers are counted,    *)
(* and a collective is granted to present peers that agree on it.           *)
THEOREM OrchestratorBehindSockets ==
  PlaneSpec => [](GroupConsistent /\ Counted /\ NoStalePeers /\ CollectivesAgree)
<1>1. PlaneInit => CollectivesAgree
  BY DEF PlaneInit, Init, CollectivesAgree
<1>2. PlaneInv /\ CollectivesAgree /\ [PlaneNext]_plane => CollectivesAgree'
  BY PlaneAgrees DEF PlaneInv
<1>3. PlaneInv => GroupConsistent /\ Counted /\ NoStalePeers
  BY DEF PlaneInv, GroupInv, GroupConsistent, Counted, TypeOK, PeersTallied
<1> QED BY <1>1, <1>2, <1>3, PlaneInvariant, PTL DEF PlaneSpec
=============================================================================
