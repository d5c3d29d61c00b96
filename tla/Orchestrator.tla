---------------------------- MODULE Orchestrator ----------------------------
(***************************************************************************)
(* The state of the global orchestrator (src/global/orchestrator/state.rs):*)
(* it registers the nodes of a group, lets them agree on each collective   *)
(* before any tensor moves, and fails the group when a member leaves.      *)
(*                                                                         *)
(* The handlers of the sockets call it one at a time, under one lock.      *)
(* Here they call it in any order and with any request.                    *)
(***************************************************************************)
EXTENDS Integers, Sequences, FiniteSets, FiniteSetsExt

CONSTANTS
  Sessions,       \* session ids
  Addresses,      \* node addresses
  Peers,          \* peer ids
  Strategies,     \* collective strategies; "Tree0" is a tree of arity 0
  Params,         \* reduce operation, shape and dtype of a collective
  Registers,      \* the register requests clients may send
  Specs,          \* the collectives clients may begin
  QueueCapacity,  \* capacity of the response queue of a session
  MaxRequests     \* bound on the requests of a session

CollectiveSpec ==
       [kind : {"AllReduce"}, strategy : Strategies, params : Params]
  \cup [kind : {"Reduce"}, strategy : Strategies, params : Params, root : Peers]
  \cup [kind : {"Broadcast"}, strategy : Strategies, source : BOOLEAN]

ASSUME RegistersAssumption ==
  Registers \subseteq [kind : {"register"}, addr : Addresses, num_nodes : Nat,
                       peers : Seq(Peers)]

ASSUME SpecsAssumption == Specs \subseteq CollectiveSpec

ASSUME BoundsAssumption == QueueCapacity \in Nat \ {0} /\ MaxRequests \in Nat

ASSUME SessionsAssumption == IsFiniteSet(Sessions)

FinishMsg == [kind |-> "finish"]
BeginMsg(spec) == [kind |-> "begin", spec |-> spec]
RemoteRequest == Registers \cup {BeginMsg(spec) : spec \in Specs} \cup {FinishMsg}

None == -1   \* no node; also: not registered, not failed
NodeId == Nat

(* A row of node_addresses and node_peers.                                  *)
Node == [id : NodeId, addr : Addresses, peers : SUBSET Peers]

VARIABLES
  registered_nodes,     \* registered_nodes[s]: node id of session s, or None
  nodes,                \* node_addresses and node_peers
  cur_num_nodes,        \* group size of the current registration, 0 for None
  num_global_peers,
  register_requests,    \* registrations to answer, in order
  pending_collectives,  \* Begin requests to answer, in order
  next_transfer_id,
  next_node_id,
  failed,               \* the lost node, or None
  sessions,             \* sessions that exist
  taken,                \* sessions whose response receiver was handed out
  queue,                \* queue[s]: response queue of session s
  issued,               \* issued[s]: number of requests of s so far
  told,                 \* told[s]: members last announced to s (history)
  begun                 \* Begin responses granted so far (history)

group == <<registered_nodes, nodes, cur_num_nodes, num_global_peers,
           register_requests, pending_collectives, next_transfer_id,
           next_node_id, failed, told, begun>>
vars == <<group, sessions, taken, queue, issued>>

Errors == {"RegisterParamsMismatch", "DoubleRegister", "DuplicatePeer",
           "CollectiveBeforeRegister", "CollectiveParamsMismatch",
           "InvalidTreeArity", "UnknownRoot", "BroadcastMultipleTensors",
           "BroadcastNoTensor", "NotRegisteredOnFinish", "PeerLost"}

(* What a node learns about a member: its id and its address.               *)
Member == [id : NodeId, addr : Addresses]

Reply ==
       [kind : {"Register"}, node : NodeId, members : SUBSET Member, devices : Nat]
  \cup [kind : {"Begin"}, root : NodeId, transfer : Nat]
  \cup [kind : {"FinishAck"}]
  \cup [kind : {"Error"}, error : Errors]
Response == [request : Nat, reply : Reply]

Error(e) == [kind |-> "Error", error |-> e]
FinishAck == [kind |-> "FinishAck"]

Init ==
  /\ registered_nodes = [s \in Sessions |-> None]
  /\ nodes = {}
  /\ cur_num_nodes = 0
  /\ num_global_peers = 0
  /\ register_requests = <<>>
  /\ pending_collectives = <<>>
  /\ next_transfer_id = 2
  /\ next_node_id = 0
  /\ failed = None
  /\ sessions = {}
  /\ taken = {}
  /\ queue = [s \in Sessions |-> <<>>]
  /\ issued = [s \in Sessions |-> 0]
  /\ told = [s \in Sessions |-> {}]
  /\ begun = {}

Registered == {s \in Sessions : registered_nodes[s] # None}
Members == {[id |-> n.id, addr |-> n.addr] : n \in nodes}
-----------------------------------------------------------------------------
(* Responses.  try_send drops what does not fit in the queue of a session,  *)
(* and a response to a session that is gone is dropped too.                 *)

HasRoom(q) == Len(q) < QueueCapacity

(* The queues qs after the response r.                                      *)
Respond(qs, r) ==
  IF r.session \in sessions /\ HasRoom(qs[r.session])
  THEN [qs EXCEPT ![r.session] = Append(@, [request |-> r.request, reply |-> r.reply])]
  ELSE qs

(* The queues after the responses rs, in this order.                        *)
Responded(rs) ==
  LET after[i \in 0 .. Len(rs)] == IF i = 0 THEN queue ELSE Respond(after[i - 1], rs[i])
  IN after[Len(rs)]

(* The same reply to each of the waiting requests ws.                       *)
ToAll(ws, reply) ==
  [i \in DOMAIN ws |->
     [session |-> ws[i].session, request |-> ws[i].request, reply |-> reply]]

ToOne(s, request, reply) ==
  << [session |-> s, request |-> request, reply |-> reply] >>

(* init_session.                                                            *)
InitSession(s) ==
  /\ sessions' = sessions \cup {s}
  /\ taken' = IF s \in sessions THEN taken ELSE taken \ {s}
  /\ queue' = IF s \in sessions THEN queue ELSE [queue EXCEPT ![s] = <<>>]
  /\ UNCHANGED <<group, issued>>

(* get_session_responder: the receiver is handed out once.                  *)
GetSessionResponder(s) ==
  /\ s \notin sessions \/ s \notin taken
  /\ sessions' = sessions \cup {s}
  /\ taken' = taken \cup {s}
  /\ queue' = IF s \in sessions THEN queue ELSE [queue EXCEPT ![s] = <<>>]
  /\ UNCHANGED <<group, issued>>

(* The holder of the receiver takes a response, also after the session is   *)
(* gone.                                                                    *)
Receive(s) ==
  /\ s \in taken
  /\ queue[s] # <<>>
  /\ queue' = [queue EXCEPT ![s] = Tail(@)]
  /\ UNCHANGED <<group, sessions, taken, issued>>

-----------------------------------------------------------------------------
(* Membership changes.                                                      *)

(* Mutant: nodes are counted, not their peers.                              *)
PeerCountNodes(ns) == Cardinality(ns)

PeerCount(ns) == MapThenSumSet(LAMBDA n : Cardinality(n.peers), ns)

(* Mutant: the row of the node that leaves stays.                           *)
RemainingAll(node) == nodes

Remaining(node) == {n \in nodes : n.id # node}

(* Mutant: only the waiting Begin requests are dropped.                     *)
DropPending == pending_collectives' = <<>> /\ UNCHANGED register_requests

DropWaiting == pending_collectives' = <<>> /\ register_requests' = <<>>

(* Mutant: the group fails also when its last member leaves.                *)
FailAlways(s) ==
  /\ failed' = registered_nodes[s]
  /\ cur_num_nodes' = IF Registered = {s} THEN 0 ELSE cur_num_nodes
  /\ next_node_id' = IF Registered = {s} THEN 0 ELSE next_node_id

(* Mutant: the group goes on with the members that are left.                *)
Shrink(s) ==
  /\ cur_num_nodes' = cur_num_nodes - 1
  /\ next_node_id' = IF Registered = {s} THEN 0 ELSE next_node_id
  /\ failed' = None

(* The group fails, or, when s was its last member, is over: a new one may  *)
(* register.                                                                *)
FailGroup(s) ==
  \/ /\ Registered = {s}
     /\ cur_num_nodes' = 0
     /\ next_node_id' = 0
     /\ failed' = None
  \/ /\ Registered # {s}
     /\ failed' = registered_nodes[s]
     /\ UNCHANGED <<cur_num_nodes, next_node_id>>

(* A registered session leaves, by Finish or by a lost socket.              *)
Leave(s) ==
  /\ registered_nodes' = [registered_nodes EXCEPT ![s] = None]
  /\ nodes' = Remaining(registered_nodes[s])
  /\ num_global_peers' = PeerCount(nodes')
  /\ DropWaiting
  /\ FailGroup(s)
  /\ UNCHANGED <<next_transfer_id, told, begun>>

(* The responses that tell every waiting session of the loss.               *)
Losses == ToAll(pending_collectives, Error("PeerLost"))
            \o ToAll(register_requests, Error("PeerLost"))

(* disconnect.  The queue outlives the session while somebody holds its     *)
(* receiver.                                                                *)
Disconnect(s) ==
  /\ \/ /\ s \in Registered
        /\ Leave(s)
        /\ queue' = [Responded(Losses) EXCEPT ![s] = IF s \in taken THEN @ ELSE <<>>]
     \/ /\ s \notin Registered
        /\ queue' = [queue EXCEPT ![s] = IF s \in taken THEN @ ELSE <<>>]
        /\ IF Registered = {}
           THEN cur_num_nodes' = 0 /\ next_node_id' = 0 /\ failed' = None
           ELSE UNCHANGED <<cur_num_nodes, next_node_id, failed>>
        /\ UNCHANGED <<registered_nodes, nodes, num_global_peers,
                       pending_collectives, register_requests,
                       next_transfer_id, told, begun>>
  /\ sessions' = sessions \ {s}
  /\ UNCHANGED <<taken, issued>>

-----------------------------------------------------------------------------
(* process_request: request r of session s, with this id.                   *)

Refuse(s, id, error) ==
  /\ queue' = Responded(ToOne(s, id, Error(error)))
  /\ UNCHANGED group

(* In a failed group only Finish is served.                                 *)
RefuseFailed(s, id, r) ==
  /\ failed # None
  /\ r.kind # "finish"
  /\ Refuse(s, id, "PeerLost")

RegisterError(s, r) ==
  IF r.num_nodes = 0 \/ r.peers = <<>> THEN "RegisterParamsMismatch"
  ELSE IF s \in Registered \/ \E n \in nodes : n.addr = r.addr THEN "DoubleRegister"
  ELSE IF Registered # {} /\ register_requests = <<>> THEN "RegisterParamsMismatch"
  ELSE IF \/ \E i, j \in DOMAIN r.peers : i # j /\ r.peers[i] = r.peers[j]
          \/ \E n \in nodes : \E i \in DOMAIN r.peers : r.peers[i] \in n.peers
  THEN "DuplicatePeer"
  ELSE IF cur_num_nodes # 0 /\ cur_num_nodes # r.num_nodes THEN "RegisterParamsMismatch"
  ELSE "ok"

RegisterRefused(s, id, r) ==
  /\ failed = None
  /\ r.kind = "register"
  /\ RegisterError(s, r) # "ok"
  /\ Refuse(s, id, RegisterError(s, r))

(* The registration is recorded, and waits for the others ...               *)
Enroll(s, id, r) ==
  /\ failed = None
  /\ r.kind = "register"
  /\ RegisterError(s, r) = "ok"
  /\ cur_num_nodes' = r.num_nodes
  /\ num_global_peers' = num_global_peers + Len(r.peers)
  /\ next_node_id' = next_node_id + 1
  /\ registered_nodes' = [registered_nodes EXCEPT ![s] = next_node_id]
  /\ nodes' = {n \in nodes : n.id # next_node_id} \cup
                {[id |-> next_node_id, addr |-> r.addr,
                  peers |-> {r.peers[i] : i \in DOMAIN r.peers}]}
  /\ UNCHANGED <<pending_collectives, next_transfer_id, failed, begun>>

Enrolled(s, id) ==
  Append(register_requests,
         [session |-> s, request |-> id, node |-> next_node_id])

RegisterWaits(s, id, r) ==
  /\ Enroll(s, id, r)
  /\ Cardinality(Registered') # r.num_nodes
  /\ register_requests' = Enrolled(s, id)
  /\ UNCHANGED <<queue, told>>

(* ... and the last one tells all of them who the members are.              *)
RegisterCompletes(s, id, r) ==
  /\ Enroll(s, id, r)
  /\ Cardinality(Registered') = r.num_nodes
  /\ register_requests' = <<>>
  /\ LET ws == Enrolled(s, id) IN
       /\ queue' = Responded([i \in DOMAIN ws |->
                       [session |-> ws[i].session, request |-> ws[i].request,
                        reply |-> [kind |-> "Register", node |-> ws[i].node,
                                   members |-> Members',
                                   devices |-> num_global_peers']]])
       /\ told' = [t \in Sessions |->
                     IF \E i \in DOMAIN ws : ws[i].session = t THEN Members' ELSE told[t]]

BeginError(s) ==
  IF \/ s \notin Registered
     \/ register_requests # <<>>
     \/ Cardinality(Registered) # cur_num_nodes
  THEN "CollectiveBeforeRegister"
  ELSE IF \E i \in DOMAIN pending_collectives : pending_collectives[i].session = s
  THEN "CollectiveParamsMismatch"
  ELSE "ok"

BeginRefused(s, id, r) ==
  /\ failed = None
  /\ r.kind = "begin"
  /\ BeginError(s) # "ok"
  /\ Refuse(s, id, BeginError(s))

Begins(s, id, r) ==
  Append(pending_collectives,
         [session |-> s, request |-> id, spec |-> r.spec])

BeginWaits(s, id, r) ==
  /\ failed = None
  /\ r.kind = "begin"
  /\ BeginError(s) = "ok"
  /\ Len(Begins(s, id, r)) # Cardinality(Registered)
  /\ pending_collectives' = Begins(s, id, r)
  /\ UNCHANGED <<queue, registered_nodes, nodes, cur_num_nodes, num_global_peers,
                 register_requests, next_transfer_id, next_node_id, failed, told,
                 begun>>

(* Mutant: strategies are not compared.                                     *)
MisfitKind(first, spec) == spec.kind # "Broadcast"

Misfit(first, spec) == spec.kind # "Broadcast" \/ spec.strategy # first.strategy

(* agree_collective on the requests ws: an error, or "ok" ...               *)
AgreementError(ws) ==
  LET first == ws[1].spec
      sources == {i \in DOMAIN ws : ws[i].spec.kind = "Broadcast" /\ ws[i].spec.source}
      second == {i \in sources : \E j \in sources : j < i}
      misfits == {i \in DOMAIN ws : Misfit(first, ws[i].spec)}
  IN
  IF first.kind # "Broadcast"
  THEN IF \E i \in DOMAIN ws : ws[i].spec # first THEN "CollectiveParamsMismatch"
       ELSE IF first.strategy = "Tree0" THEN "InvalidTreeArity"
       ELSE IF first.kind = "Reduce" /\ ~\E n \in nodes : first.root \in n.peers
       THEN "UnknownRoot"
       ELSE "ok"
  ELSE IF first.strategy = "Tree0" THEN "InvalidTreeArity"
  ELSE IF misfits # {} /\ \A i \in second : \E j \in misfits : j <= i
  THEN "CollectiveParamsMismatch"
  ELSE IF second # {} THEN "BroadcastMultipleTensors"
  ELSE IF sources = {} THEN "BroadcastNoTensor"
  ELSE "ok"

(* ... and the root node they agree on.                                     *)
IsRoot(ws, root) ==
  LET first == ws[1].spec IN
  CASE first.kind = "AllReduce" ->
         root \in {n.id : n \in nodes} /\ \A n \in nodes : root <= n.id
    [] first.kind = "Reduce" ->
         \E n \in nodes : n.id = root /\ first.root \in n.peers
    [] first.kind = "Broadcast" ->
         \E i \in DOMAIN ws : /\ ws[i].spec.source
                              /\ root = registered_nodes[ws[i].session]

BeginLast(s, id, r) ==
  /\ failed = None
  /\ r.kind = "begin"
  /\ BeginError(s) = "ok"
  /\ Len(Begins(s, id, r)) = Cardinality(Registered)
  /\ pending_collectives' = <<>>
  /\ UNCHANGED <<registered_nodes, nodes, cur_num_nodes, num_global_peers,
                 register_requests, next_node_id, failed, told>>

(* The last Begin: every member is granted the collective ...               *)
BeginAgrees(s, id, r) ==
  /\ BeginLast(s, id, r)
  /\ AgreementError(Begins(s, id, r)) = "ok"
  /\ \E root \in {n.id : n \in nodes} :
       LET ws == Begins(s, id, r) IN
       /\ IsRoot(ws, root)
       /\ queue' = Responded(ToAll(ws, [kind |-> "Begin", root |-> root,
                                        transfer |-> next_transfer_id]))
       /\ begun' = begun \cup
            {[transfer |-> next_transfer_id, root |-> root, session |-> ws[i].session,
              node |-> registered_nodes[ws[i].session], spec |-> ws[i].spec,
              members |-> told[ws[i].session]] : i \in DOMAIN ws}
  /\ next_transfer_id' = next_transfer_id + 1

(* ... or every member is told why not.                                     *)
BeginDisagrees(s, id, r) ==
  /\ BeginLast(s, id, r)
  /\ AgreementError(Begins(s, id, r)) # "ok"
  /\ queue' = Responded(ToAll(Begins(s, id, r), Error(AgreementError(Begins(s, id, r)))))
  /\ UNCHANGED <<next_transfer_id, begun>>

FinishRefused(s, id, r) ==
  /\ r.kind = "finish"
  /\ s \notin Registered
  /\ Refuse(s, id, "NotRegisteredOnFinish")

Finish(s, id, r) ==
  /\ r.kind = "finish"
  /\ s \in Registered
  /\ Leave(s)
  /\ queue' = Responded(Losses \o ToOne(s, id, FinishAck))

ProcessRequest(s, id, r) ==
  \/ RefuseFailed(s, id, r)
  \/ RegisterRefused(s, id, r)
  \/ RegisterWaits(s, id, r)
  \/ RegisterCompletes(s, id, r)
  \/ BeginRefused(s, id, r)
  \/ BeginWaits(s, id, r)
  \/ BeginAgrees(s, id, r)
  \/ BeginDisagrees(s, id, r)
  \/ FinishRefused(s, id, r)
  \/ Finish(s, id, r)

-----------------------------------------------------------------------------
RequestAny(s) ==
  \E r \in RemoteRequest :
    /\ issued[s] < MaxRequests
    /\ issued' = [issued EXCEPT ![s] = @ + 1]
    /\ ProcessRequest(s, issued[s] + 1, r)
    /\ UNCHANGED <<sessions, taken>>

Next ==
  \E s \in Sessions :
    \/ InitSession(s) \/ GetSessionResponder(s) \/ Receive(s)
    \/ Disconnect(s) \/ RequestAny(s)

Spec == Init /\ [][Next]_vars

-----------------------------------------------------------------------------
Grant == [transfer : Nat, root : NodeId, session : Sessions, node : NodeId,
          spec : Specs, members : SUBSET Member]

GroupTypeOK ==
  /\ registered_nodes \in [Sessions -> NodeId \cup {None}]
  /\ nodes \subseteq Node
  /\ cur_num_nodes \in Nat
  /\ register_requests \in Seq([session : Sessions, request : Nat, node : NodeId])
  /\ pending_collectives \in Seq([session : Sessions, request : Nat, spec : Specs])
  /\ next_transfer_id \in Nat
  /\ next_node_id \in Nat
  /\ failed \in NodeId \cup {None}
  /\ issued \in [Sessions -> Nat]
  /\ told \in [Sessions -> SUBSET Member]
  /\ begun \subseteq Grant

(* The sessions and their response queues, none of which outgrows its       *)
(* capacity.                                                                *)
QueuesOK ==
  /\ sessions \subseteq Sessions
  /\ taken \subseteq Sessions
  /\ queue \in [Sessions -> Seq(Response)]
  /\ \A s \in Sessions : Len(queue[s]) <= QueueCapacity

(* Every variable has its type.                                             *)
TypeOK == GroupTypeOK /\ QueuesOK /\ num_global_peers \in Nat

(* The tables describe one membership: registered sessions and nodes        *)
(* correspond one to one, and no id, address or peer is used twice.         *)
MembershipConsistent ==
  /\ \A s, t \in Registered : registered_nodes[s] = registered_nodes[t] => s = t
  /\ {registered_nodes[s] : s \in Registered} = {n.id : n \in nodes}
  /\ \A m, n \in nodes :
       m # n => m.id # n.id /\ m.addr # n.addr /\ m.peers \cap n.peers = {}
  /\ \A n \in nodes : n.id < next_node_id

(* num_global_peers, the denominator of a global mean, counts every peer of *)
(* the members once.                                                        *)
PeersCounted == num_global_peers = Cardinality(UNION {n.peers : n \in nodes})

(* The sessions that wait for a response to Register or Begin are members,  *)
(* each waits once, and never in both lists; while registrations wait, they *)
(* are those of all members so far.                                         *)
Waits(ws) == {ws[i].session : i \in DOMAIN ws}
WaitersAreMembers ==
  /\ \A ws \in {register_requests, pending_collectives} :
       \A i, j \in DOMAIN ws : ws[i].session = ws[j].session => i = j
  /\ register_requests # <<>> => Waits(register_requests) = Registered
  /\ Waits(pending_collectives) \subseteq Registered
  /\ pending_collectives # <<>> => register_requests = <<>>

(* "A lost socket poisons the group": a failed group has members left and   *)
(* none of them waits; a group is over only when its last member left.      *)
FailedGroupIsQuiet ==
  /\ failed # None => /\ Registered # {}
                      /\ register_requests = <<>>
                      /\ pending_collectives = <<>>
  /\ Registered = {} <=> cur_num_nodes = 0

(* The tables, the waiting lists and the failure flag agree with each other.*)
GroupConsistent == MembershipConsistent /\ WaitersAreMembers /\ FailedGroupIsQuiet

(* The state has its shape, and the devices of the group are counted.       *)
Counted == TypeOK /\ PeersCounted

(* "late Begin messages cannot form a new operation using stale peers": the *)
(* members granted a collective were all told the same membership, the      *)
(* nodes that take part are exactly its nodes, and the root is one of them. *)
NoStalePeers ==
  \A a, b \in begun : a.transfer = b.transfer =>
    /\ a.root = b.root
    /\ a.members = b.members
    /\ {c.node : c \in {d \in begun : d.transfer = a.transfer}} =
         {m.id : m \in a.members}
    /\ \E m \in a.members : m.id = a.root

(* "differing operation orders fail before data transfer begins": members   *)
(* granted one collective asked for the same one, and the root of a         *)
(* broadcast is the only member that has the tensor.                        *)
CollectivesAgree ==
  \A a, b \in begun : a.transfer = b.transfer =>
    /\ a.spec.kind = b.spec.kind /\ a.spec.strategy = b.spec.strategy
    /\ a.spec.kind # "Broadcast" => a.spec = b.spec
    /\ a.spec.kind = "Broadcast" => (a.spec.source <=> a.node = a.root)

-----------------------------------------------------------------------------
(* The inductive invariant behind the properties above.  Once a group is    *)
(* complete and has not failed, every member was told the current members.  *)
Announced ==
  failed = None /\ register_requests = <<>> =>
    \A s \in Registered : told[s] = Members

GrantsPast == \A g \in begun : g.transfer < next_transfer_id

GroupInv ==
  /\ GroupTypeOK
  /\ MembershipConsistent
  /\ WaitersAreMembers
  /\ FailedGroupIsQuiet
  /\ Announced
  /\ GrantsPast
  /\ NoStalePeers

(* The part of it behind Counted: the sets of peers that are counted are    *)
(* finite.                                                                  *)
PeersTallied ==
  /\ num_global_peers \in Nat
  /\ PeersCounted
  /\ \A n \in nodes : IsFiniteSet(n.peers)
=============================================================================
