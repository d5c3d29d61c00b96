---------------------------- MODULE LocalServer ----------------------------
(***************************************************************************)
(* The local collective server (src/local): one task per backend that owns *)
(* all registration and operation state and serves the threads of one      *)
(* process.  A thread sends a message through a bounded FIFO channel and   *)
(* blocks on a one-shot callback channel; the server handles one message   *)
(* at a time, to its end, global (inter-node) awaits included.             *)
(*                                                                         *)
(* A callback is identified with the thread blocked on it.  A tensor is    *)
(* identified with the call that carries it, and the result of a reduction *)
(* with the set of calls whose tensors it combines.                        *)
(***************************************************************************)
EXTENDS Integers, Sequences, FiniteSets

CONSTANTS
  Threads,          \* the threads of the process that use the collective API
  Peers,            \* peer ids a thread may pass
  Configs,          \* collective configurations a thread may pass
  Shapes,           \* tensor shapes
  Ops,              \* reduce operations (Sum, Mean)
  ChannelCapacity,  \* capacity of the channel from the clients to the server
  Script            \* Script[t][n]: the calls thread t may make as its n-th

NoConfig == [n |-> 0, global |-> FALSE, valid |-> FALSE]

Collectives == {"all_reduce", "reduce", "broadcast"}

(* What a caller passes: a configuration, a tensor shape and an operation,  *)
(* a root, or whether it provides the tensor to broadcast.                  *)
Request ==
       [kind : {"register"}, id : Peers, arg : Configs]
  \cup [kind : {"all_reduce"}, id : Peers, arg : [shape : Shapes, op : Ops]]
  \cup [kind : {"reduce"}, id : Peers,
        arg : [shape : Shapes, op : Ops, root : Peers]]
  \cup [kind : {"broadcast"}, id : Peers, arg : [tensor : BOOLEAN]]
  \cup [kind : {"finish"}, id : Peers, arg : {NoConfig}]
  \cup [kind : {"reset"}, id : Peers, arg : {NoConfig}]

ASSUME ConfigsAssumption ==
  Configs \subseteq [n : Nat, global : BOOLEAN, valid : BOOLEAN]

ASSUME CapacityAssumption == ChannelCapacity \in Nat \ {0}

ASSUME ScriptAssumption == Script \in [Threads -> Seq(SUBSET Request)]

VARIABLES
  alive,          \* the server task has not panicked
  queue,          \* message_rec: messages sent and not yet received
  config,         \* config of the current registration, NoConfig for None
  peers,          \* ids registered (peers never holds an id twice)
  registering,    \* callbacks_register
  devices,        \* ids with an entry in the devices map
  calls,          \* calls[k]: the calls of the pending operation k, in order
  global_client,  \* the global client exists
  issued,         \* issued[t]: number of calls thread t has made
  request,        \* request[t]: the call t is blocked in, Idle if none
  reply           \* reply[t]: content of the callback channel of that call

server == <<alive, config, peers, registering, devices, calls, global_client>>
vars == <<server, queue, issued, request, reply>>

Idle == [kind |-> "idle"]
Message == [req : Request, from : Threads, n : Nat]

Errors == {"InvalidConfig", "MultipleRegister", "RegisterParamsMismatch",
           "RegisterNotFirstOperation", "MultipleUnregister",
           "AllReduceShapeMismatch", "AllReduceOperationMismatch",
           "ReduceShapeMismatch", "ReduceOperationMismatch",
           "ReduceRootMismatch", "BroadcastMultipleTensors",
           "BroadcastNoTensor", "LocalServerMissing", "Global"}

(* A reply carries the contributions a result was computed from: which call *)
(* (n-th call of its thread) of which peer.                                 *)
Contribution == [id : Peers, n : Nat]
Reply == [tag : {"pending", "ok", "none"} \cup Errors, by : SUBSET Contribution]
Pending == [tag |-> "pending", by |-> {}]
Plain(tag) == [tag |-> tag, by |-> {}]

Init ==
  /\ alive = TRUE
  /\ queue = <<>>
  /\ config = NoConfig
  /\ peers = {}
  /\ registering = {}
  /\ devices = {}
  /\ calls = [k \in Collectives |-> <<>>]
  /\ global_client = FALSE
  /\ issued = [t \in Threads |-> 0]
  /\ request = [t \in Threads |-> Idle]
  /\ reply = [t \in Threads |-> Pending]

-----------------------------------------------------------------------------
(* Client threads.                                                          *)

(* The calls the thread's program makes next.                               *)
NextCalls(t) ==
  IF request[t] = Idle /\ issued[t] < Len(Script[t])
  THEN Script[t][issued[t] + 1] ELSE {}

(* start_operation: send the message, then wait on the callback.            *)
Call(t) ==
  \E r \in NextCalls(t) :
    /\ r.kind # "reset"
    /\ r.kind = "register" => r.arg.valid
    /\ alive
    /\ Len(queue) < ChannelCapacity
    /\ queue' = Append(queue, [req |-> r, from |-> t, n |-> issued[t] + 1])
    /\ request' = [request EXCEPT ![t] = r]
    /\ issued' = [issued EXCEPT ![t] = @ + 1]
    /\ UNCHANGED <<server, reply>>

(* start_valid_operation with an invalid configuration: nothing is sent.    *)
CallInvalid(t) ==
  \E r \in NextCalls(t) :
    /\ r.kind = "register"
    /\ ~r.arg.valid
    /\ request' = [request EXCEPT ![t] = r]
    /\ reply' = [reply EXCEPT ![t] = Plain("InvalidConfig")]
    /\ issued' = [issued EXCEPT ![t] = @ + 1]
    /\ UNCHANGED <<server, queue>>

(* reset sends its message and does not wait.                               *)
CallReset(t) ==
  \E r \in NextCalls(t) :
    /\ r.kind = "reset"
    /\ alive
    /\ Len(queue) < ChannelCapacity
    /\ queue' = Append(queue, [req |-> r, from |-> t, n |-> issued[t] + 1])
    /\ issued' = [issued EXCEPT ![t] = @ + 1]
    /\ UNCHANGED <<server, request, reply>>

(* channel.send(..).unwrap() panics once the server task is gone: the       *)
(* thread makes no further call.                                            *)
CallPanics(t) ==
  /\ ~alive
  /\ \E r \in NextCalls(t) : r.kind = "register" => r.arg.valid
  /\ issued' = [issued EXCEPT ![t] = Len(Script[t])]
  /\ UNCHANGED <<server, queue, request, reply>>

(* Mutant: the channel of the finished call is not replaced.                *)
ReturnUntyped(t) ==
  /\ reply[t] # Pending
  /\ request' = [request EXCEPT ![t] = Idle]
  /\ reply' = [reply EXCEPT ![t] = Idle]
  /\ UNCHANGED <<server, queue, issued>>

(* PendingCollectiveOperation::wait returns.                                *)
Return(t) ==
  /\ reply[t] # Pending
  /\ request' = [request EXCEPT ![t] = Idle]
  /\ reply' = [reply EXCEPT ![t] = Pending]
  /\ UNCHANGED <<server, queue, issued>>

-----------------------------------------------------------------------------
(* The server.                                                              *)

Incoming(k) == alive /\ queue # <<>> /\ Head(queue).req.kind = k

Receive(k) ==
  /\ Incoming(k)
  /\ queue' = Tail(queue)
  /\ UNCHANGED <<issued, request>>

(* callback.send: the replies of the threads in the domain of f.            *)
Answer(f) ==
  reply' = [t \in Threads |-> IF t \in DOMAIN f THEN f[t] ELSE reply[t]]

Callers(cs) == {cs[i].from : i \in DOMAIN cs}
PeersOf(cs) == {cs[i].req.id : i \in DOMAIN cs}

(* The tensors of the calls are collected in a map keyed by peer id: of two *)
(* calls with one id the later one is kept.                                 *)
Contributions(cs) ==
  {[id |-> cs[i].req.id, n |-> cs[i].n] :
     i \in {j \in DOMAIN cs : \A l \in DOMAIN cs :
                                 cs[l].req.id = cs[j].req.id => l <= j}}

RegisterError(m) ==
  CASE ~m.req.arg.valid -> "InvalidConfig"
    [] m.req.arg.valid /\ m.req.id \in peers -> "MultipleRegister"
    [] /\ m.req.arg.valid /\ m.req.id \notin peers
       /\ peers # {} /\ config # NoConfig /\ config # m.req.arg
       -> "RegisterParamsMismatch"
    [] OTHER -> "ok"

RegisterRejected ==
  /\ Receive("register")
  /\ LET m == Head(queue) IN
       /\ RegisterError(m) # "ok"
       /\ Answer([t \in {m.from} |-> Plain(RegisterError(m))])
  /\ UNCHANGED server

(* Mutant: the callbacks are iterated over, not drained.                    *)
RegisterAcceptedNoDrain ==
  /\ Receive("register")
  /\ LET m == Head(queue)
         cfg == m.req.arg
         waiting == registering \cup {m.from}
     IN
       /\ RegisterError(m) = "ok"
       /\ config' = cfg
       /\ peers' = peers \cup {m.req.id}
       /\ devices' = devices \cup {m.req.id}
       /\ global_client' = (global_client \/ cfg.global)
       /\ registering' = waiting
       /\ \/ /\ Cardinality(peers') = cfg.n
             /\ \E tag \in IF cfg.global THEN {"ok", "Global"} ELSE {"ok"} :
                  Answer([t \in waiting |-> Plain(tag)])
          \/ /\ Cardinality(peers') # cfg.n
             /\ UNCHANGED reply
  /\ UNCHANGED <<alive, calls>>

(* Mutant: the last registration is answered before its peer is recorded.   *)
RegisterAcceptedLate ==
  /\ Receive("register")
  /\ LET m == Head(queue)
         cfg == m.req.arg
         waiting == registering \cup {m.from}
         complete == Cardinality(peers \cup {m.req.id}) = cfg.n
     IN
       /\ RegisterError(m) = "ok"
       /\ config' = cfg
       /\ peers' = IF complete THEN peers ELSE peers \cup {m.req.id}
       /\ devices' = devices \cup {m.req.id}
       /\ global_client' = (global_client \/ cfg.global)
       /\ registering' = IF complete THEN {} ELSE waiting
       /\ Answer([t \in IF complete THEN waiting ELSE {} |-> Plain("ok")])
  /\ UNCHANGED <<alive, calls>>

(* The last of num_devices registrations registers the node globally, if    *)
(* configured so, and answers every waiting registration with the outcome.  *)
RegisterAccepted ==
  /\ Receive("register")
  /\ LET m == Head(queue)
         cfg == m.req.arg
         waiting == registering \cup {m.from}
     IN
       /\ RegisterError(m) = "ok"
       /\ config' = cfg
       /\ peers' = peers \cup {m.req.id}
       /\ devices' = devices \cup {m.req.id}
       /\ global_client' = (global_client \/ cfg.global)
       /\ \/ /\ Cardinality(peers') = cfg.n
             /\ registering' = {}
             /\ \E tag \in IF cfg.global THEN {"ok", "Global"} ELSE {"ok"} :
                  Answer([t \in waiting |-> Plain(tag)])
          \/ /\ Cardinality(peers') # cfg.n
             /\ registering' = waiting
             /\ UNCHANGED reply
  /\ UNCHANGED <<alive, calls>>

(* The test that admits a call to an operation.  A reduce looks at its root *)
(* only, never at the caller.                                               *)
Admitted(m) ==
  CASE m.req.kind = "all_reduce" -> m.req.id \in peers
    [] m.req.kind = "reduce" -> m.req.arg.root \in peers
    [] m.req.kind = "broadcast" -> config # NoConfig /\ m.req.id \in peers

NotAdmitted(k) ==
  /\ Receive(k)
  /\ ~Admitted(Head(queue))
  /\ Answer([t \in {Head(queue).from} |-> Plain("RegisterNotFirstOperation")])
  /\ UNCHANGED server

(* Mutant: register_call of an all-reduce does not compare the operations.  *)
JoinErrorShapeOnly(cs, m) ==
  LET arg == m.req.arg
      first == cs[1].req.arg
  IN
  CASE cs = <<>> -> "ok"
    [] cs # <<>> /\ m.req.kind \in {"all_reduce", "reduce"} ->
         IF first.shape # arg.shape THEN "AllReduceShapeMismatch" ELSE "ok"
    [] cs # <<>> /\ m.req.kind = "broadcast" ->
         IF arg.tensor /\ \E i \in DOMAIN cs : cs[i].req.arg.tensor
         THEN "BroadcastMultipleTensors" ELSE "ok"

(* register_call: the parameters of an operation are those of its first     *)
(* call; only one call of a broadcast may carry the tensor.                 *)
JoinError(cs, m) ==
  LET arg == m.req.arg
      first == cs[1].req.arg
      kind == m.req.kind
  IN
  CASE cs = <<>> -> "ok"
    [] cs # <<>> /\ kind = "all_reduce" ->
         IF first.shape # arg.shape THEN "AllReduceShapeMismatch"
         ELSE IF first.op # arg.op THEN "AllReduceOperationMismatch"
         ELSE "ok"
    [] cs # <<>> /\ kind = "reduce" ->
         IF first.shape # arg.shape THEN "ReduceShapeMismatch"
         ELSE IF first.op # arg.op THEN "ReduceOperationMismatch"
         ELSE IF first.root # arg.root THEN "ReduceRootMismatch"
         ELSE "ok"
    [] cs # <<>> /\ kind = "broadcast" ->
         IF arg.tensor /\ \E i \in DOMAIN cs : cs[i].req.arg.tensor
         THEN "BroadcastMultipleTensors" ELSE "ok"

(* Mutant: the failed operation is put back.                                *)
CallMismatchKept(k) ==
  /\ Receive(k)
  /\ LET m == Head(queue) IN
       /\ Admitted(m)
       /\ JoinError(calls[k], m) # "ok"
       /\ Answer([t \in Callers(calls[k]) \cup {m.from} |->
                    IF t = m.from THEN Plain("LocalServerMissing")
                    ELSE Plain(JoinError(calls[k], m))])
  /\ UNCHANGED server

(* A mismatching call fails the operation: the earlier callers are sent the *)
(* error, the callback of the mismatching call is dropped.                  *)
CallMismatch(k) ==
  /\ Receive(k)
  /\ LET m == Head(queue) IN
       /\ Admitted(m)
       /\ JoinError(calls[k], m) # "ok"
       /\ Answer([t \in Callers(calls[k]) \cup {m.from} |->
                    IF t = m.from THEN Plain("LocalServerMissing")
                    ELSE Plain(JoinError(calls[k], m))])
       /\ calls' = [calls EXCEPT ![k] = <<>>]
  /\ UNCHANGED <<alive, config, peers, registering, devices, global_client>>

(* The operation k with the incoming call, when that call can join it.      *)
Joins(k) == Admitted(Head(queue)) /\ JoinError(calls[k], Head(queue)) = "ok"
Joined(k) == Append(calls[k], Head(queue))

(* Mutant: the operation runs one call early.                               *)
ReadyEarly(cs) == Len(cs) + 1 >= Cardinality(peers)

(* is_ready, evaluated only when a call joins.                              *)
Ready(cs) == Len(cs) = Cardinality(peers)

(* Mutant: a call that has to wait goes back to the channel.                *)
CallRequeued(k) ==
  /\ Incoming(k)
  /\ Joins(k)
  /\ ~Ready(Joined(k))
  /\ queue' = Append(Tail(queue), Head(queue))
  /\ UNCHANGED <<server, issued, request, reply>>

CallWaits(k) ==
  /\ Receive(k)
  /\ Joins(k)
  /\ ~Ready(Joined(k))
  /\ calls' = [calls EXCEPT ![k] = Joined(k)]
  /\ UNCHANGED <<alive, config, peers, registering, devices, global_client,
                 reply>>

(* What executing the operation on the calls cs may return.  It runs in the *)
(* server task, and so do the tensor operations of the local algorithms: a  *)
(* backend that refuses one (the ring of all_reduce slices past the end of  *)
(* a short tensor) panics, as does the barrier that ends a global operation *)
(* when it cannot reach a peer.                                             *)
Outcomes(k, cs) ==
  IF global_client
  THEN {"ok", "Global", "panic"} \cup (IF k = "reduce" THEN {"none"} ELSE {})
  ELSE CASE k = "all_reduce" -> {"ok", "panic"}
         [] k = "reduce" ->
              IF cs[1].req.arg.root \in PeersOf(cs)
              THEN {"ok", "panic"} ELSE {"ReduceRootMismatch"}
         [] k = "broadcast" ->
              IF \E i \in DOMAIN cs : cs[i].req.arg.tensor
              THEN {"ok", "panic"} ELSE {"BroadcastNoTensor"}

(* Positions of cs whose caller already appears at an earlier position.     *)
Repeated(cs) ==
  {i \in DOMAIN cs : \E j \in DOMAIN cs : j < i /\ cs[j].req.id = cs[i].req.id}

(* The reply to position i of an operation that returned tag.  A reduce     *)
(* hands the tensor to the first call of the root and None to the others.   *)
ResultFor(k, cs, tag, i) ==
  IF tag # "ok" THEN Plain(tag)
  ELSE IF k = "reduce" /\ (cs[i].req.id # cs[1].req.arg.root \/ i \in Repeated(cs))
  THEN Plain("none")
  ELSE [tag |-> "ok", by |-> Contributions(cs)]

PositionOf(cs, t) == CHOOSE i \in DOMAIN cs : cs[i].from = t

(* tensors.remove(&caller).expect(..): all-reduce and broadcast panic at    *)
(* the first repeated caller.                                               *)
Panics(k, cs, tag) ==
  tag = "panic" \/ (k # "reduce" /\ tag = "ok" /\ Repeated(cs) # {})

CallExecutes(k) ==
  /\ Receive(k)
  /\ Joins(k)
  /\ Ready(Joined(k))
  /\ \E tag \in Outcomes(k, Joined(k)) :
       /\ ~Panics(k, Joined(k), tag)
       /\ Answer([t \in Callers(Joined(k)) |->
                    ResultFor(k, Joined(k), tag, PositionOf(Joined(k), t))])
  /\ calls' = [calls EXCEPT ![k] = <<>>]
  /\ UNCHANGED <<alive, config, peers, registering, devices, global_client>>

(* The panic ends the server task.  The callers before a repeated one have  *)
(* their result; the channel and the server's state are dropped, with  *)
(* every other callback they hold.                                          *)
CallPanicsServer(k) ==
  /\ Incoming(k)
  /\ Joins(k)
  /\ Ready(Joined(k))
  /\ \E tag \in Outcomes(k, Joined(k)) :
       LET cs == Joined(k)
           served == {cs[i].from : i \in {j \in DOMAIN cs :
                        tag = "ok" /\ \A r \in Repeated(cs) : j < r}}
       IN /\ Panics(k, cs, tag)
          /\ reply' = [t \in Threads |->
                         IF t \in served
                         THEN ResultFor(k, cs, "ok", PositionOf(cs, t))
                         ELSE IF request[t] # Idle /\ reply[t] = Pending
                         THEN Plain("LocalServerMissing") ELSE reply[t]]
  /\ alive' = FALSE
  /\ queue' = <<>>
  /\ config' = NoConfig
  /\ peers' = {}
  /\ registering' = {}
  /\ devices' = {}
  /\ calls' = [c \in Collectives |-> <<>>]
  /\ global_client' = FALSE
  /\ UNCHANGED <<issued, request>>

(* Mutant: the pending operations survive, though their callers are told.   *)
ResetKeepsCalls ==
  /\ Receive("reset")
  /\ peers' = {}
  /\ Answer([t \in UNION {Callers(calls[k]) : k \in Collectives} |->
               Plain("LocalServerMissing")])
  /\ UNCHANGED <<alive, config, registering, devices, calls, global_client>>

(* reset: the callbacks of the pending operations are dropped, those of the *)
(* pending registrations are not.                                           *)
Reset ==
  /\ Receive("reset")
  /\ peers' = {}
  /\ calls' = [k \in Collectives |-> <<>>]
  /\ Answer([t \in UNION {Callers(calls[k]) : k \in Collectives} |->
               Plain("LocalServerMissing")])
  /\ UNCHANGED <<alive, config, registering, devices, global_client>>

FinishRejected ==
  /\ Receive("finish")
  /\ config = NoConfig \/ Head(queue).req.id \notin peers
  /\ Answer([t \in {Head(queue).from} |->
               Plain(IF config = NoConfig THEN "RegisterNotFirstOperation"
                     ELSE "MultipleUnregister")])
  /\ UNCHANGED server

(* Mutant: the first peer to leave ends the registration.                   *)
FinishClearsConfig ==
  /\ Receive("finish")
  /\ config # NoConfig
  /\ Head(queue).req.id \in peers
  /\ peers' = peers \ {Head(queue).req.id}
  /\ config' = NoConfig
  /\ global_client' = FALSE
  /\ Answer([t \in {Head(queue).from} |-> Plain("ok")])
  /\ UNCHANGED <<alive, registering, devices, calls>>

(* finish: the last peer to leave also ends the global session.  Pending    *)
(* operations are not looked at.                                            *)
Finish ==
  /\ Receive("finish")
  /\ config # NoConfig
  /\ Head(queue).req.id \in peers
  /\ peers' = peers \ {Head(queue).req.id}
  /\ global_client' = (global_client /\ peers' # {})
  /\ Answer([t \in {Head(queue).from} |-> Plain("ok")])
  /\ UNCHANGED <<alive, config, registering, devices, calls>>

-----------------------------------------------------------------------------
ServerStep ==
  \/ RegisterRejected
  \/ RegisterAccepted
  \/ \E k \in Collectives :
       \/ NotAdmitted(k)
       \/ CallMismatch(k)
       \/ CallWaits(k)
       \/ CallExecutes(k)
       \/ CallPanicsServer(k)
  \/ Reset
  \/ FinishRejected
  \/ Finish

ThreadStep(t) ==
  Call(t) \/ CallInvalid(t) \/ CallReset(t) \/ CallPanics(t) \/ Return(t)

(* Every program ran to its end.                                            *)
Done ==
  /\ \A t \in Threads : request[t] = Idle /\ issued[t] = Len(Script[t])
  /\ queue = <<>>
  /\ UNCHANGED vars

Next == ServerStep \/ (\E t \in Threads : ThreadStep(t)) \/ Done

Spec == Init /\ [][Next]_vars

(* The server task and the threads are scheduled whenever they can run.     *)
FairSpec ==
  Spec /\ WF_vars(ServerStep) /\ \A t \in Threads : WF_vars(ThreadStep(t))

-----------------------------------------------------------------------------
(* Every variable has its type.                                             *)
TypeOK ==
  /\ alive \in BOOLEAN
  /\ queue \in Seq(Message)
  /\ config \in Configs \cup {NoConfig}
  /\ peers \subseteq Peers
  /\ registering \subseteq Threads
  /\ devices \subseteq Peers
  /\ calls \in [Collectives -> Seq(Message)]
  /\ global_client \in BOOLEAN
  /\ issued \in [Threads -> Nat]
  /\ request \in [Threads -> Request \cup {Idle}]
  /\ reply \in [Threads -> Reply]

-----------------------------------------------------------------------------
Waiting(t) == request[t] # Idle /\ reply[t] = Pending

(* The places where the server side holds the callback of thread t.         *)
Queued(t) == {i \in DOMAIN queue : queue[i].from = t /\ queue[i].req.kind # "reset"}
Joining(t, k) == {i \in DOMAIN calls[k] : calls[k][i].from = t}
Held(t) == Queued(t) # {} \/ t \in registering \/ \E k \in Collectives : Joining(t, k) # {}

HeldInOnePlace(t) ==
  /\ \A i, j \in Queued(t) : i = j
  /\ \A k \in Collectives : \A i, j \in Joining(t, k) : i = j
  /\ Queued(t) # {} => /\ t \notin registering
                      /\ \A k \in Collectives : Joining(t, k) = {}
  /\ t \in registering => \A k \in Collectives : Joining(t, k) = {}
  /\ \A k, l \in Collectives : Joining(t, k) # {} /\ Joining(t, l) # {} => k = l

(* The callback of a thread is held in exactly one place while the thread   *)
(* waits and nowhere once it is answered: in the channel, in                *)
(* callbacks_register or in one call of one pending operation.  So a waiter *)
(* is never forgotten, and never answered on behalf of an earlier call: no  *)
(* reply is left over for a thread that is not in a call.                   *)
CallbackHeldOnce ==
  \A t \in Threads :
    /\ Waiting(t) <=> Held(t)
    /\ HeldInOnePlace(t)
    /\ request[t] = Idle => reply[t] = Pending

(* The server sends at most one value on a callback: the channel holds one  *)
(* value, so a second send would block the server for ever.                 *)
AnsweredOnce ==
  [][\A t \in Threads : reply[t] # Pending => reply'[t] \in {reply[t], Pending}]_vars

(* The unwraps of the handlers hit a value: a server with peers has a       *)
(* configuration (config.as_ref().unwrap()) that passed is_valid, and a     *)
(* device for every peer (devices.get(..).unwrap()).                        *)
UnwrapsDefined ==
  /\ peers # {} => config # NoConfig /\ config.valid
  /\ peers \subseteq devices

(* The calls gathered in a pending operation agree on its parameters and at *)
(* most one of them carries the tensor of a broadcast, so that whatever is  *)
(* executed later was consistent across all its callers.                    *)
PendingCallsAgree ==
  /\ \A k \in {"all_reduce", "reduce"} : \A i, j \in DOMAIN calls[k] :
       calls[k][i].req.arg = calls[k][j].req.arg
  /\ \A i, j \in DOMAIN calls["broadcast"] :
       calls["broadcast"][i].req.arg.tensor /\ calls["broadcast"][j].req.arg.tensor
         => i = j

(* A successful register leaves the caller registered.                      *)
OkMeansRegistered ==
  [][\A t \in Threads :
       /\ request[t] # Idle /\ request[t].kind = "register"
       /\ reply[t] = Pending /\ reply'[t].tag = "ok"
       => request[t].id \in peers']_vars

(* An all-reduce, or a reduce at its root, combines one tensor of each of   *)
(* the num_devices devices, all from the same round of the SPMD program.    *)
RoundsMatch ==
  \A t \in Threads :
    /\ alive
    /\ request[t] # Idle
    /\ request[t].kind \in {"all_reduce", "reduce"}
    /\ reply[t].tag = "ok"
    => /\ Cardinality({c.id : c \in reply[t].by}) = config.n
       /\ \A c \in reply[t].by : c.n = issued[t]

(* Two threads that are both blocked in the server use one peer id.         *)
SharedIds ==
  \E t, u \in Threads : /\ t # u
                        /\ request[t] # Idle /\ request[u] # Idle
                        /\ request[t].id = request[u].id

(* A collective succeeds for all of its callers or for none of them, even   *)
(* when executing it ends the server task: the panics of the algorithms     *)
(* come before the first result is sent, and the expect on the result of a  *)
(* caller, which comes after some are sent, fails only when two threads     *)
(* blocked in the server use one peer id.                                   *)
ResultsForAll ==
  [][\A k \in Collectives :
       Incoming(k) /\ (\E t \in Callers(Joined(k)) : reply'[t].tag \in {"ok", "none"})
       => \/ SharedIds
          \/ \A t \in Callers(Joined(k)) : reply'[t].tag \in {"ok", "none"}]_vars

(* What the server side holds of a thread is the call the thread is blocked *)
(* in, and a pending operation holds calls of its own kind.                 *)
HeldRequests ==
  /\ \A i \in DOMAIN queue :
       queue[i].req.kind # "reset" => request[queue[i].from] = queue[i].req
  /\ \A k \in Collectives : \A i \in DOMAIN calls[k] :
       calls[k][i].req.kind = k /\ request[calls[k][i].from] = calls[k][i].req

(* Every call returns.                                                      *)
AllCallsReturn == \A t \in Threads : request[t] # Idle ~> request[t] = Idle

-----------------------------------------------------------------------------
(* Programs in which every thread uses a peer id of its own and nobody      *)
(* resets the server.                                                       *)
OwnIds(id) ==
  /\ id \in [Threads -> Peers] /\ \A t, u \in Threads : id[t] = id[u] => t = u
  /\ \A t \in Threads : \A n \in DOMAIN Script[t] : \A c \in Script[t][n] :
       c.id = id[t] /\ c.kind # "reset"

OwnIdProgram == \E id \in [Threads -> Peers] : OwnIds(id)

(* In such a program the ids of the threads that wait to be registered are  *)
(* recorded, and what is in the channel carries the id of its thread.       *)
WaitersRecorded(id) ==
  /\ \A i \in DOMAIN queue : queue[i].req.kind # "reset" /\ queue[i].req.id = id[queue[i].from]
  /\ \A t \in registering :
       request[t].kind = "register" /\ request[t].id = id[t] /\ id[t] \in peers

(* All threads make the n-th call to the same operation with parameters     *)
(* that fit, each with its own peer id.                                     *)
SameOperation(k, n, id) ==
  \A t, u \in Threads : \A a \in Script[t][n], b \in Script[u][n] :
    /\ a.kind = k /\ a.id = id[t]
    /\ k \in {"all_reduce", "reduce"} => a.arg = b.arg
    /\ k = "reduce" => \E v \in Threads : a.arg.root = id[v]
    /\ k = "broadcast" /\ a.arg.tensor /\ b.arg.tensor => t = u

(* An SPMD program of one session: num_devices threads, each with an id of  *)
(* its own, register, make the same collective calls and finish.            *)
Spmd(id, cfg, last) ==
  /\ IsFiniteSet(Threads) /\ last \in Nat /\ last > 1
  /\ id \in [Threads -> Peers] /\ \A t, u \in Threads : id[t] = id[u] => t = u
  /\ cfg \in Configs /\ cfg.valid /\ cfg.n = Cardinality(Threads)
  /\ \A t \in Threads :
       /\ Len(Script[t]) = last
       /\ \A c \in Script[t][1] : c.kind = "register" /\ c.id = id[t] /\ c.arg = cfg
       /\ \A c \in Script[t][last] : c.kind = "finish" /\ c.id = id[t]
  /\ \A n \in 2 .. last - 1 : \E k \in Collectives : SameOperation(k, n, id)

SpmdProgram ==
  \E id \in [Threads -> Peers], cfg \in Configs, last \in {Len(Script[t]) : t \in Threads} :
    Spmd(id, cfg, last)

(* The threads are in the r-th round: whoever has made the r-th call waits  *)
(* for it, the others have returned from the call before it.                *)
ThreadsInRound(last, r) ==
  \A t \in Threads :
    /\ issued[t] \in {r - 1, r}
    /\ issued[t] = r - 1 => ~Waiting(t)
    /\ issued[t] = r /\ r < last => Waiting(t)

(* What the server side holds are calls of the r-th round.                  *)
MessagesOfRound(r) ==
  /\ \A i \in DOMAIN queue : queue[i].n = r /\ queue[i].req \in Script[queue[i].from][r]
  /\ \A k \in Collectives : \A i \in DOMAIN calls[k] :
       calls[k][i].n = r /\ calls[k][i].req \in Script[calls[k][i].from][r]

(* Who is registered in the r-th round.                                     *)
PeersInRound(id, cfg, last, r) ==
  /\ r = 1 => /\ peers = {id[t] : t \in registering}
              /\ peers # {} => config = cfg
  /\ r > 1 => registering = {} /\ config = cfg
  /\ r > 1 /\ r < last => peers = {id[t] : t \in Threads}

InRound(id, cfg, last, r) ==
  ThreadsInRound(last, r) /\ MessagesOfRound(r) /\ PeersInRound(id, cfg, last, r)

(* The call a thread is blocked in is of its program, and an Ok reduction   *)
(* combines the tensors of this call of every thread.                       *)
RoundResults(id) ==
  \A t \in Threads : request[t] # Idle =>
    /\ issued[t] > 0 /\ request[t] \in Script[t][issued[t]]
    /\ request[t].kind \in {"all_reduce", "reduce"} /\ reply[t].tag = "ok"
         => reply[t].by = {[id |-> id[u], n |-> issued[t]] : u \in Threads}

SpmdInv(id, cfg, last) ==
  alive => RoundResults(id) /\ \E r \in 1 .. last : InRound(id, cfg, last, r)
=============================================================================
