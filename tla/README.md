# Verification of ruCCL in TLA+

ruCCL (`src/`) is a collective-communication library in Rust. This directory
models the protocols in it, checks the models with TLC on small instances and
proves the main results with TLAPS for every value of the constants.
`PROJECT.json` maps every definition to the lines it models and lists the runs,
the mutants, the hazards and the theorems. Lines are given for the sources
under `src/src/`.

## 1. The system

| Part | Source | State it keeps | Operations |
| --- | --- | --- | --- |
| Local server and clients | `api.rs`, `local/server.rs`, `local/client.rs`, `local/*/op.rs` | configuration, peers, registration callbacks, one pending operation per kind, global client | register, all_reduce, reduce, broadcast, finish, reset |
| Local algorithms | `local/all_reduce/*`, `local/reduce/*`, `local/broadcast/*` | none | ring, tree and centralized sums over local tensors |
| Orchestrator | `global/orchestrator/state.rs` | sessions, members, waiting registrations and begins, transfer and node counters, failure | init_session, get_session_responder, process_request (Register, Begin, Finish), disconnect |
| Orchestrator sockets | `global/orchestrator/base.rs` | two sockets per session | one handler task per socket |
| Control worker of a node | `global/node/worker.rs` | pending requests, cancellation token | connect, request, close_connection |
| Global barrier | `global/node/sync.rs` | rounds heard of, generation, completed | sync, handle_sync_connection |
| Global collectives | `global/node/{base,rooted,ring,tree,centralized}.rs` | node state, operation lock | all_reduce, reduce, broadcast over the nodes |
| Rank protocol | `rank/protocol.rs` | per-rank submissions of a sequence number | submit, agreement on one descriptor |
| Rendezvous and point to point | `rank/network.rs` | connections, collective loop, router queues, pending requests | join, exchange, send, receive, abort |
| Peer mesh | `rank/peer.rs` | direct connections, inboxes, pending acknowledgements, failure | connect, send, receive, abort, drop |
| Work queue | `rank/work.rs` | submitted closures and their handles | submit, wait |
| Device and host collectives | `rank/device_collective/*`, `rank/host/*`, `rank/tags.rs`, `rank/layout.rs` | operation counter, device and host buffers | all_reduce, all_gather, reduce_scatter, all_to_all(_v) as ring, pairwise, hierarchical or direct |
| Topology and tuning | `rank/topology.rs` | links and their costs; rings, rails, groups, channels, measured profile | builders, ring search, estimates, plan, fingerprint, load of a profile |
| Transports, in-process, device tensors, torch bridge | `rank/transport.rs`, `in_process/*`, `tensor_device/*`, `torch-bridge` | - | construction, data movement |

How they interact. The threads of a process send messages through one bounded
channel to the server task of their backend and block on one-shot callback
channels. The server task handles one message at a time, to its end: a
collective over several nodes runs inside the handler of the last local call.
A node talks to the orchestrator through a control worker and two sockets, one
for requests and one for responses; the orchestrator's handlers share its state
under one lock. Before a global collective every node sends `Begin` and waits
for all the others; after it every node passes the barrier of `sync.rs`, in
which the nodes send messages to each other directly. The rank core is a second
stack, independent of the first: ranks meet at a TCP rendezvous server, agree on
each collective and exchange payloads through it (the direct algorithm), through its
point-to-point routers, or over the peer mesh. Which algorithm, rings and rails a
collective takes is the plan a tuning makes from the topology, on every rank for itself.

What is hard here: the order in which threads, sessions and nodes reach the
single-owner state (server task, orchestrator lock, router loop); peers that
leave, panic or restart between the steps of a protocol; callbacks and responses
that must be delivered exactly once; back-to-back sessions; timeouts whose late
answers still arrive; wake-ups that must not be lost; readers and writers that share
a lock over bounded sockets; threads that share buffers; tags that wrap; profiles
measured for another machine. `PROJECT.json` lists these
hazards at their lines.

## 2. Modules

| Module | Models |
| --- | --- |
| `LocalServer` | the local server task and the threads that call it |
| `LocalServerProofs` | theorems about it |
| `Orchestrator` | the state of the orchestrator, one action per method and outcome |
| `Barrier` | what the barrier promises: a node leaves a round only when all have entered it |
| `SyncBarrier` | `sync.rs`, step by step, shown to implement `Barrier` |
| `SyncBarrierProofs` | theorems about it |
| `Routing` | how the rank coordinator turns one request of every rank into one response for every rank |
| `Rendezvous` | the collective channel of the rank core: ranks, reader threads and `run_collective_loop`; extends `Routing` |
| `RendezvousProofs` | theorems about it and about `Routing` |
| `P2p` | point-to-point messages through the coordinator: threads, links, routers |
| `P2pProofs` | theorems about it |
| `ControlPlane` | the orchestrator with its socket handlers, and the control workers and calls of the nodes; extends `Orchestrator` |
| `ControlPlaneProofs` | theorems about the orchestrator, alone and behind its sockets |
| `Mailboxes` | what a point-to-point transport promises: the calls of its users, ordered queues between them, and what each receive got |
| `PeerMesh` | the direct connections of the ranks, shown to implement `Mailboxes` |
| `PeerMeshProofs` | theorems about it |
| `Layout` | how a range is cut into balanced parts |
| `Schedules`, `Hierarchical` | the programs of the ring and pairwise, and of the hierarchical collectives: sends, receives and moves of cells |
| `RankCollectives` | ranks that run these programs: agreement, channel threads, device errors, aborts; extends `Hierarchical` |
| `RankCollectivesProofs` | theorems about it and about `Layout` |
| `Topology` | links, routes, rings, rails and groups; no state |
| `Tuning` | builders, estimates, plans, profiles; extends `Topology` |
| `TuningProofs` | theorems about it |
| `MC*` | instances for TLC: programs, register requests, symmetry |

A definition whose comment begins with "Mutant:" is a plausible bug in the
definition below it. The mutants are not part of any specification; replacing
the definition by its mutant makes the property named in `PROJECT.json` fail.

### LocalServer

State: the fields of `LocalCollectiveServer`, the channel (`queue`), and for
each thread the call it is blocked in (`request`) and what its callback channel
holds (`reply`). A tensor is the call that carries it, and a result is the set of
calls it was computed from, which is what tells a correct all-reduce from one
that mixes rounds. A thread runs a `Script`: for each position the calls it may
make there. `Call`, `CallInvalid`, `CallReset`, `CallPanics` and `Return` are the
client side (`client.rs`). `ServerStep` is `process_message`, one action per
handler and outcome. The algorithms are an outcome of the last call (`Outcomes`): of
the local ones success or a panic, since their tensor operations run in the server task
and a backend panics on a slice out of range (`ring.rs:182`); of the global level also an
error or no tensor for this node, and a panic of the barrier (`sync.rs:43`). A panic
ends the server task and drops the callbacks it held, with or without some results sent
before. `SpmdProgram` and `OwnIdProgram` say which
programs two of the theorems are about; the program of `local_spmd` is one of both
(`SpmdScriptAssumption` of `MCLocalServer`).

### Orchestrator

State: the fields of `GlobalCollectiveState`; `node_addresses` and `node_peers`
are one set of rows. `queue[s]` is the bounded response channel of a session;
`Responded` loses what does not fit (`HasRoom`), as `try_send` does. The methods are called in any order and with any
request, which includes every order the two socket handlers of a session can
produce. `told` and `begun` are history: the membership last announced to a
session and the collectives granted.

### SyncBarrier

`Start`, `Send`, `Enable`, `Return` and `Wait` are the steps of `sync()` between
which other tasks run; `Handle` and `Notify` are the two halves of the handler,
because `notify_waiters` runs after the lock is released. `Unreachable` is the
`expect` on connect. `Stop` is a process that dies or an operation that is
cancelled (`base.rs:122`, which also stops the listener), `Lose` a connection that
breaks before its message is read. The members are registered in every state,
since `Begin` is granted only when all are; the calls of a node are serialized,
as the comment on `sync` demands.

### Routing

No state: the functions `validate_and_route`, `route_all_to_all_v` and the
descriptor of a frame, on one request per rank. A payload is a sequence of
labelled elements, so that a response shows which element of which rank it is made
of. The reference is stated without slices or offsets: `MeantFor` is the set of
elements the collective means for a rank and `Lists` says that a payload
lists a set in order. `MCRendezvous` compares the two for every round of
requests in a small set.

### Rendezvous

`session`, `next_sequence` and `made` are a rank's side (`exchange_with_options`,
`barrier`, `set_timeout`). `server`, `requests`, `agreed` and `active_sequence` are
the variables of `run_collective_loop`. `up` and `down` are the two directions of
each stream. The readers of all ranks share one queue in the code. A
reader may lag behind, so the queue holds any interleaving of the streams, and the model
takes the next frame of any rank (`Collect`, `RankLost`) instead. `Check` and
`Deadline` are the head of the waiting loop, `Route` the agreement and the routing,
`Answer` one write; `Stop` broadcasts the abort and shuts the streams down. A read
that times out may have consumed a part of a frame: the rest is `Torn` and the
stream is of no use any more. Nothing in the code marks the session after an error, so
whether the caller calls again is the constant `Retry`. `PublishFailure` is the
point-to-point router reporting an abort.

### P2p

A link is one rail of one rank. `Request` checks the shared failure under the
submission lock, `Enqueue` writes the frame and registers it as pending, still
under the lock: between the two the reader thread may fail all pending requests
and end. `Return`, `Expire` and `ShutExpired` end a call; `AbortRail` is one
iteration of the loop of `abort` over the rails; `DropSession` and `Crash` end a
rank. `ReaderStep` is the reader thread of a link, `RouterStep` the router of a rail
(match, queue, refuse, fail, leave) and `LeaseExpires` its heartbeat check.
`matched` is history: the pairs in the order they were matched.

### ControlPlane

Extends `Orchestrator`, whose methods the socket handlers call one at a time under
the lock. A session has a request and a response socket: `RequestInit`,
`RequestMessage`, `RequestEnds`, `ResponseInit`, `ResponseSend` and `ResponseEnds` are
its handlers (`orchestrator/base.rs`), each of which disconnects the session at its
end. `Connect`, `Pump`, `Take`, `StreamEnds` and `Cancelled` are the worker of a node
(`worker.rs`); `Request`, `Return`, `Aborted`, `TimesOut` and `Drop` are the calls of the
node with their cancellation guard. The transfer of tensors between a granted
`Begin` and the next call may take no time. A node that starts again is a new session
at the same address. Deadlines are the nondeterministic `TimesOut`.

### PeerMesh

Setup (`Dial`, `Accept`, `Ready`, `Open`), then threads that send and receive. A send is
`StartSend`, `LockSend`, `WriteSend` and the wait for the acknowledgement; the reader
of a connection queues a frame, takes the submission lock of its own side and
writes the acknowledgement (`ReadSend`, `LockAck`, `WriteAck`). A socket holds `Room`
frames, so a writer may block while it holds the lock. `SetPeerFailure` is the one way
a failure spreads. A thread uses the rail of its number, as the channel threads
of the collectives do. A frame whose element type or count is not what the receive
names is out of the inbox when the receive fails (`ReceiveMismatch`); the abort by which
the session answers this error is part of the same step.

`Mailboxes` has the calls that are left to each caller (`left`), the messages sent and not
received of every link (`queue`) and what each receive got (`received`, history). A
message enters a queue only by the send whose call it is, once, and leaves it only by a
receive that asks for it and records it, or from the end of the queue once something has
failed or a rank has left. The refinement maps the queue of a link to its frames in the
inbox of the destination followed by those in flight, `left` to `todo` and `received` to
`got`.

### Layout, Schedules, Hierarchical, RankCollectives

A program of a rank is a sequence of phases, run by the calling thread (`Main`) or
by a scope of channel threads (`Scope`); an instruction is a send, a receive or a move
of cells. A cell holds the set of inputs reduced into it, so that a result shows
which elements of which operation it is made of. A call of a peer-to-peer algorithm
takes an operation number, submits its agreement (`Begin`, `Agree`), runs and returns;
a direct call only takes part in an exchange of the coordinator. Some calls do
device work before they agree (`EarlyDevice`): an error there reaches nobody
else. Inputs are named by the operation number of their call. An error in a channel thread or in the transport aborts the session. The
transport is what `Mailboxes` promises. Tag fields are masked to `OperationTags` and
`StepTags` values, here 1, so that tags repeat at once. `WellFormedTuning` and
`WellFormedCall` are what `validate_ring_order`, `validate_hierarchy_groups` and
`plan` have ensured of a job before it runs.

### Topology, Tuning

`Topology` computes from a set of links: transfer times, shortest routes
(`Settle`), the exhaustive and the greedy ring search, diverse rings, rail order,
caps of shared links, groups and the cycle of their leaders. `Tuning` is a state machine over the API: links are
entered, a tuning is made from the topology or the environment, builders are called
in any order, a profile is saved, the program starts again on a topology that may have
changed, and loads it. A tuning from the environment may be given its ring order, rail
order, groups (or bytes to infer them for), channels, rails, direct costs, transport and
profile. A profile carries the version and the execution revision of the program that
stored it; `tuned`, which no code reads, records the tuning it was measured with, so that
what the checks accept is compared with something other than themselves. Times are small integers that saturate at `Never`. Files and
environment variables are the values parsed from them. What is refused leaves no
tuning, as the builders consume it.

## 3. Runs

| Run | Instance | Shows |
| --- | --- | --- |
| `local_spmd` | 3 threads, the same program of 6 calls, channel of 2 | an all-reduce or reduce combines one tensor per device, all of the same round; an Ok registration is recorded; every call returns |
| `local_free` | 3 threads, 7 calls, each any of up to 14, one thread with another's id | callbacks held once; pending calls agree; a collective succeeds for all of its callers or for none, panics included, unless two threads share an id |
| `local_two_sessions` | 2 threads, two sessions in a row | violated: see Findings |
| `orchestrator` | 2 sessions, 3 requests each, 7 collectives, queues of 1 | `GroupConsistent` (membership tables, waiting lists, failure flag), types and peer count (`Counted`), no stale peers; granted collectives were agreed on |
| `sync_barrier` | 2 nodes, 3 rounds, up to 2 faults | implements `Barrier`; every `sync()` returns unless a node stops or a message is lost |
| `rendezvous` | 3 ranks, 2 calls of 3 kinds, 1 timeout, 1 loss, a router failure; every opcode and root, counts 0, 1, 3, 6, every 3x3 matrix of all-to-all-v counts up to 2 | the coordinator routes as the collective means; a rank takes no response but its own; what is answered is the same operation of all; an abort names the round it interrupts; a rank that leaves or aborts releases those that wait without the deadline, and with it every call returns |
| `p2p` | 2 ranks, 3 threads, 2 calls each, one rail, heartbeats, 1 crash, timeout or expired lease, a leave | what fits is matched at once; nothing overtakes; replies reach the thread that asked, with the right tag and contract; locks, pending tables and queues agree; at most one request of a link is stranded |
| `p2p_abort` | 2 ranks, 2 rails, 1 call per thread | an abort interrupts what is pending on both rails |
| `rank_collectives` | 13 jobs of 2 to 4 ranks, up to 3 calls, 2 channels, 2 rails, 2 rings, up to 1 device error or late peer, ranks that disagree | results are those promised by the operation the ranks agreed on; channel threads keep apart; no message survives its operation; no error without a fault; every call returns |
| `peer_mesh` | 7 programs: setup of 3 ranks, of 2 rails; exchanges on one and on two rails, tags out of order, 2 writers, a message of another contract; sockets of 1 frame, up to 1 fault | implements `Mailboxes`: no message is lost before a failure, doubled or overtaken; what is acknowledged is queued; pending acknowledgements belong to calls; every rank ends |
| `tuning` | 9 scenarios of 3 to 6 ranks: every topology of 4 ranks with 2 kinds of links, worlds too large for the search of all rings and of all cycles of groups; up to 4 builders, tunings from the environment; profiles of this and of other versions over a restart on the same or another topology | rings, routes and groups against brute force; plans can be run and are the cheapest; a tuning is well formed after any builders; a profile in use passes the check it was loaded by; one with the fingerprint of the tuning was measured under the same estimates |
| `control_plane` | 2 sessions as a group of two, as two that disagree, or as one node that starts again; 2 collectives, 1 fault | no granted collective is skipped; a broken socket or an ended member releases every waiter; a session that ended stays forgotten |

Why the bounds are enough. Local: two devices and a third thread suffice for
every pair of racing calls, for a registration that exceeds `num_devices` and for
a call with another thread's id; a channel of 2 is full in some states. Two
sessions are enough for every pairwise order of the orchestrator's methods, for a
group that completes, fails, ends and is formed again; a queue of 1 makes the
loss of responses happen. Two nodes and three rounds
let one node be a round ahead of the other, with messages of two rounds on the way;
the refinement is proved for any number of nodes. In `control_plane` one fault is
enough to lose any message of either socket at any moment, and the restart needs a
second session only. Two calls per rank let
a response of one round meet the request of the next, three ranks make the answers
of a round visible between its first and its last write. In `P2p` two threads of one
rank race for a link and for a match, and the third thread is their peer. In
`peer_mesh` a socket of one frame makes every write that can block block. In
`rank_collectives` three ranks are the smallest ring in which sender and receiver
differ, four the smallest hierarchy with a group of two and other leaders; lengths are
chosen so that parts are uneven and empty; a single value per tag field is harder
than any larger one. Four ranks have three different rings, so a search can
miss one; five are above the limit of the exhaustive search. The proofs lift the
bounds for the results they cover.

Fairness. `LocalServer` assumes weak fairness of the server task and of each
thread: the server is a tokio task that runs whenever its channel is not empty
and a thread returns once its callback has a value. `SyncBarrier` assumes weak
fairness of the task of each node and of its handlers; `SyncReturns` promises
nothing after a fault, since a lost message or a stopped node does keep the others
waiting until `collective_timeout`. `Rendezvous` assumes weak fairness of the steps of the loop
and of the reads of a rank, and strong fairness of taking the events of each
rank: the loop alternates between its check and its `recv_timeout`, and the queue is
first in, first out, so an event in it is reached. `DeadlineReleasesWaiters`
assumes in addition that a round that stays open reaches its deadline. No rank is assumed to make a call. `P2p`
assumes weak fairness of routers, readers, of a thread that holds the lock or has a
reply, and of an abort that has begun. `ControlPlane` assumes weak fairness of each
task (the calls of a node, its worker, each handler) and no deadline:
`LossReleasesWaiters` is about being told. `RankCollectives` and `PeerMesh` assume
that threads run and, once something has gone wrong (`Trouble`), that a wait ends at
its deadline; without a fault no deadline is used. Nobody is assumed to fail, abort
or leave.

Properties named after a part of the state are conjunctions of what belongs
together: `Consistent`, `Counted` and `TuningValid` hold the shape of the state with the
relation the code depends on, `GroupConsistent`, `TopologySound` and `PlansSound` the
facts named in their definitions.

`CHECK_DEADLOCK FALSE` is set where the system may really stop: threads whose
calls are never matched (`local_free` and the violated run), sessions that have
used up their requests, nodes that wait for a stopped node, ranks that have made
their calls or wait for a message that nobody sends, jobs that are done.

## 4. Findings

* `local_two_sessions`. `is_ready` (`local/all_reduce/op.rs:75`) counts the peers
  registered at the moment a call joins. With two sessions in a row, a rank that is
  ahead runs an all-reduce on its own.

Violations without a run of their own. Each is seen by giving a run another
constant:

* `reset` (`server.rs:463`) keeps `callbacks_register`, although the documentation
  says registrations are forgotten: a forgotten registration is later answered Ok.
  `Script <- ResetScript` in `LocalSpmd.cfg` violates `OkMeansRegistered`.
* `validate_and_route` (`network.rs:2976`) does not compare the sequence number of a
  request with its own. A rank that calls again after a read timeout, with its
  old number, completes a round of ranks that are ahead. `Requests <- SpmdRequests`,
  `MaxCalls = 3` and `Retry = TRUE` in `Rendezvous.cfg` violate `ReadyMeansSame` and `AbortNamesRound`, which
  hold without a retry.
* `all_to_all_v` plans by the size of the caller's own buffer
  (`device_collective/all_to_all.rs:67`), although it "permits every rank to
  contribute a different number of elements" (`:216`): one side of the threshold exchanges through the coordinator, the other
  agrees on the pairwise algorithm, and both get an error. `Jobs <- UnevenJobs` in
  `RankCollectives.cfg` violates `NoErrorWithoutFault`.

The three constants are kept in the `MC` modules for this. No run of `PROJECT.json` uses
them, so each is one edit of a configuration away.

Behaviours a reader of the models will notice:

* Channels that share a rail. With more channels than rails two threads of each of
  two ranks use one connection. The reader acknowledges under the lock that a writer
  blocked on a full socket may hold (`peer.rs:754`), so all four may wait until the
  write timeout. This is the mutant `SharedRail` of `PeerMesh`.
* A call that fails before it takes its number. A reduce-scatter, an all-gather or an
  all-to-all does device work first and takes `internal_sequence` after it
  (`reduce_scatter.rs:17` and `:24`). When that work fails the rank gets an error, its
  peers wait, and nothing is aborted. If its next call is the same collective, it takes the
  number its peers wait with, agrees, and the peers return Ok with the input of that later
  call. All ranks then agree on one operation and its result is right for the inputs that
  were given to it, so `ResultsCorrect` and `NothingLeftOver`, which name inputs by
  operation number, hold (jobs `RingTwo` and `PairsTwo`); the ranks are one call apart from
  then on, until the last call of the others times out.
* EarlyLeave. A rank that drops its session makes the receives of its peers fail even
  for a frame that was acknowledged and is queued: `receive_on_rail` looks at the
  failure before it looks at the inbox (`peer.rs:396`). `PeerMesh` counts leaving with
  calls still to be made by others as a fault.
* A profile accepted because the probed topology is close enough to the measured one
  is refused by any builder called afterwards, which compares fingerprints
  exactly (`topology.rs:1433`).
* A request socket that breaks before both Inits were read is noticed by nobody: the
  call waits for `request_timeout`. `Lost` in `ControlPlane` excludes it.
* `get_ring_reduce_slice_ranges` (`local/all_reduce/ring.rs:182`, also used by
  `global/node/ring.rs:74`) cuts into slices of `ceil(size / count)` elements and
  corrects the last end only. With 5 elements and 4 tensors the ranges are 0..2, 2..4,
  4..6 and 6..5, although `size >= count` was checked; up to 3 tensors the ranges
  are right. A slice past the end is refused by the backend with a panic, which ends the server
  task: every blocked caller gets `LocalServerMissing`, and so does every later call. `ResultsForAll` and
  `CallbackHeldOnce` hold through it. The rank core cuts with `Layout`, which has no such case.
* A barrier message carries no epoch. A node that aborts closes its listener and the
  next one drops messages until it has registered, so only a message sent to
  the new listener by the old group and read after the new one formed would be counted.

Two more behaviours a reader of the model will notice, without a run of their own:
`process_reduce_message` (`server.rs:375`) looks at the registration of the root
only, so a caller that never registered can join a reduce; and the caller that
causes a mismatch is told `LocalServerMissing`, because `fail` answers only those
that had joined and its own callback is dropped (`server.rs:362`).

## 5. Proofs

All theorems hold for every value of the constants under the `ASSUME`s of the
modules, which type the constants (finite `Sessions` in `Orchestrator`; in `Tuning`
topologies of at least one rank with links that have costs) and, in
`RankCollectives`, say what has been validated of a job (`JobsAssumption`). Three
results need a hypothesis on the program and state it: `SpmdRoundsMatch`,
`OkRegistersAreRecorded` and the theorems about the rounds of `Rendezvous`. In each case the
hypothesis is what Findings shows to be necessary.

* `LocalServerProofs`. `CallbackHeldOnce` is inductive together with `TypeOK`: the
  proof follows, for each action, the callback of each thread from the place it is
  taken from to the place it is put. That at most one value is sent on a callback
  follows, since a step answers only callbacks it holds. `HeldRequests` (every message
  and every pending call is the request its thread waits in) gives
  `PendingOperationsAgree` and `ResultsReachAllCallers`. For the latter: a panic inside an
  algorithm comes before the first result is sent, and a panic between two results finds
  a second call of the same peer, which is another thread's, both blocked (`JoinedWait`).
  * `SpmdRoundsMatch` is about `SpmdProgram`: threads with ids of their own that
    register with `num_devices` equal to their number, make the same collectives with
    fitting parameters and finish once. `SpmdInv` says that there is a round `r` in
    which everyone is (`InRound`): a thread has made `r - 1` calls, all of them answered, or
    `r` and waits, and all messages and pending calls are of round `r`. With a second session this is false (`local_two_sessions`).
  * `OkRegistersAreRecorded` is about `OwnIdProgram`: nobody uses another thread's id,
    and nobody resets. `WaitersRecorded` says that a registration whose callback is
    held is recorded. A reset breaks it (Findings).
* `ControlPlaneProofs`, the orchestrator alone: the inductive invariant is `GroupInv`; `GroupStaysConsistent` is
  its part about tables, waiting lists and failure. It adds `Announced`
  (once the group is complete and has not failed, every member was told the
  current members) and `GrantsPast` (transfer ids of grants are below the
  counter) to the properties. `NoStalePeers` needs both: when the last Begin
  arrives as many requests wait as there are members, each from a different
  member, hence (by cardinality, `AllWait`) all members take part, and all were told
  the same membership. `GrantsAgree` takes the same step and the comparison of the
  requests. `PeersStayCounted` needs that the sets counted are finite
  (`PeersTallied`) and that a queue is never longer than its capacity (`QueuesOK`).
* `ControlPlaneProofs`, behind the sockets: the orchestrator's steps keep its invariants also when its
  methods are called by the socket handlers (`OrchestratorBehindSockets`).
  `PlaneInv` adds what the sockets guarantee and the orchestrator alone does not: of
  a session at most one request, response or pending call is under way (`OneUnderWay`),
  so the last grant of a session is the one its node has taken or the one
  still on its way to it (`GrantIsLast`), and transfer ids only grow
  (`TransfersPast`). `NoCollectiveSkipped` follows.
* `SyncBarrierProofs`: the inductive invariant is `SyncInv`: a node that is
  counted in a round, or whose message is on the way, has entered it (`Heard`); a
  node is in the round after its last completed one or between the two
  (`InRound`); nobody has left a round that somebody has not entered (`Together`).
  `SyncIsBarrier` maps rounds entered to `generation` and rounds left to
  `completed`.
* `RendezvousProofs`, the protocol with `Retry = FALSE`: a caller that got an error makes no
  further call. `RoundInv` numbers everything: the requests of a stream are the
  calls of its rank in order (`CallsNumbered`, `Streams`), the server collects and answers
  those of its `active_sequence` (`Collected`, `Delivered`, `AnswersAgree`, `Phases`), and
  nobody has passed a collective that another rank has not called (`Together`). From it
  `ResponsesAreOwn`, `ReadyWhenAllAgree`, `AbortsNameTheRound` and, for any
  two ranks, `RanksInLockstep`. With a retry the middle two are false (Findings).
  `RoutesEveryRound` (`RoutesAsDefined`), with or without retries, is about the computation of the responses, for
  every number of ranks, element count and matrix of counts: running sums (`Total`) are shown to exist and to
  grow, a concatenation in rank order (`ByRank`) has each rank's part at the sum of the lengths before it, so the
  slice cut for a destination is what its source meant for it, and a second
  exchange with the transposed counts gives every rank its own elements back.
* `P2pProofs`: `TypeOK` is inductive; it says, beyond types, that a link's lock is
  held by the thread about to enqueue on it (`LockHeld`) and that what is pending
  belongs to a thread that waits without a reply (`PendingOwned`). `StrandedBound`
  uses `LateInv`: once the reader of a link has ended the failure of its rank is set
  (`ReaderEnded`), so no further request passes the check, and either the link's
  lock is held and nothing is pending or at most one request is (`LateAlone`).
  `MatchedAtOnce` needs only the types: a frame that is queued was compared with
  the whole opposite queue, and a match removes the least index that fits.
  `MessagesInOrder` uses `OrderInv`: requests have the number of their submission
  (`Numbered`), a link holds them in that order, first at the router, then on the wire
  (`Pipelined`), and what is matched is below what waits with the same contract
  (`InTurn`); `NothingLeftToMatch` is part of it, since an older request that fits
  must not be waiting when a newer one arrives. `RepliesReachTheirCallers` uses `ReplyInv`:
  what is on the way or waits is the call of its thread (`CallsKnown`), and a reply
  answers it (`RepliesFit`).
* `PeerMeshProofs`: `AckInv` says that a sequence number of a link belongs to one call
  (`OwnSequence`), that a data frame carries the message of the call that waits for its
  number, and that an acknowledgement, written or about to be, is for a frame
  that is stored (`FramesFit`). `AcknowledgedIsStored` follows, and `TableMatchesCalls`
  from the types and the steps that touch the table.
  `MeshIsMailboxes` shows, step by step, that the mesh implements `Mailboxes`, with the
  frames of a link in the inbox and then its data frames on the wire as the queue:
  reading a frame leaves the queue as it is, the write of a send appends the message of
  its call and hands it over, the call returns only after that, a receive takes
  the first message with its tag out and records it, and what a closed socket or a rank that is gone
  loses is at the end of a queue. Besides `AckInv` it needs that a send is on the link of
  its call (`LinkFits`). It rests on lemmas about `Only`, the filter of the
  mapping: of a concatenation it is the concatenation (least length without it).
* `RankCollectivesProofs`: `BalancedPartsTile`, for every length and number of parts:
  the parts follow each other from 0 to the length, and every position is in exactly
  one. That a position has a part is shown with the least part that ends behind it.
  `ThreadsAlwaysApart` (`Consistent`) holds for every set of jobs that `JobsAssumption` admits, which is what
  the code has validated of a tuning and what a plan can name. `CollectiveInv`
  says of every rank that what is left of its call is either a program whose scopes keep apart
  (`PlainProgram`) or the exchange of the counts of an all-to-all-v
  (`CountsProgram`): the counts to send are in memory, and that of every other rank has
  been received or is still to be received, so the layout finds them all. A rank with a
  failed thread has a thread with nothing left (`FailuresShow`), which the exchange of counts
  never has. That the programs start apart is shown for each collective: a thread
  stays within cells it owns (`Within`), and those of two channels are disjoint, by the tiling of the buffer
  (ring all-reduce), of every slice (all-gather, reduce-scatter) or of every bundle
  (hierarchical), or because one thread runs at a time (pairwise).
* `TuningProofs`: `ProfileAlwaysFresh`: a builder looks at the profile again
  with the tuning it has made, and whether a profile is valid depends only on the
  fields in `Alike`, so the other fields may change under it. Ring channels are such a field: the
  fingerprint leaves them out on purpose (the test at `topology.rs:3185`), and an entry of a
  profile has its own. `FingerprintAlwaysCovers`: a stored profile has the fingerprint of the
  tuning it was measured with (`Stored`, kept through restarts), and the estimates are functions of
  what the fingerprint is made of and of the number of channels (`FingerprintDecides`). So a later
  tuning, on any topology, that has this fingerprint has the same estimates for every number of
  channels; one that uses a profile by its probed topology has them on the measured topology.
  The model's fingerprint is the tuple of what is hashed; collisions of the 64-bit hash are
  left out.
  `TuningAlwaysValid` is about what the searches return. `TuningInv` says that the links entered
  so far are a topology and that the tuning was made for it (`Sound`): its rings are rings that
  differ, an order of the rails that was given is one of its rails, its groups hold every rank
  once. The rest is an argument about each search. `LexLess` orders words of one length totally (`LexTotal`,
  `LexTransitive`), so a finite set with different keys has a first element and can be sorted
  (`FirstExists`, `SortedExists`): the choices of `LexMin`, `Pick` and `PreferredRailOrder`
  are defined. A path grows by ranks it has not visited, so one over all ranks visits each once
  (`PathsSimple`, exhaustive and greedy); rotating and reversing it keeps that (`RotatedRing`);
  `SelectDiverse` returns candidates only (`SelectedFrom`), and the rings kept beside the
  configured one differ from it and from each other (`PrimaryDiffers`). Groups are reached among
  the ranks that are in none yet, so they are disjoint and hold every rank (`DomainGrows`,
  `DomainsCover`); sorting, swapping the leader to the front and arranging the groups in a cycle
  lose none (`LeaderLists`, `CyclesArrange`), and one of the candidates comes first
  (`GroupsOrdered`), whatever the estimates are. Recursive functions are
  shown to exist with `IterationUpTo`, an induction on a least counterexample.

`TypeOK` of `LocalServer` and of `P2p`, `AnsweredOnce`, `UnwrapsDefined`,
`StateReclaimed`, `OneUnderWay`, `Lockstep` and the tiling are proved and not part of a
run; the other theorems state properties of the runs.

Only model-checked: liveness (`AllCallsReturn`, `SyncReturns`,
`FaultReleasesWaiters`, `DeadlineReleasesWaiters`, `AbortInterrupts`, `AllReturn`,
`LossReleasesWaiters`, `LeaverForgotten`), which the prover does not support;
`ResultsCorrect`, `NothingLeftOver` and `NoErrorWithoutFault` of `RankCollectives`, which need that the sends
and receives of all ranks' programs match link by link and in order, an induction
over the data of every schedule; `TopologySound` and `PlansSound`, which compare searches with
brute force and plans with folds over sets of estimates.

## 6. Plan and what is not modelled

Next, in this order:

1. Proofs: that the programs of `Schedules` match link by link, and with it
   `NothingLeftOver` and `ResultsCorrect`; that routes are shortest and rings the best.
2. The transfers of the global collectives, composed with `Barrier`, and the tensor
   algorithms of the local server against a reference sum.
3. The bounded and streamed broadcast and all-gather, the work queue, joining a
   rendezvous.

Not modelled: tensor arithmetic and memory, byte layouts and serialization,
parsing of environment variables and files, probing of devices, construction of
transports and communicators, statistics, the torch bridge, in-process data movement
and logging. The data service that carries tensors between nodes is not part of the
repository.
