---------------------------- MODULE ControlPlane ----------------------------
(***************************************************************************)
(* The control plane of the global level: the orchestrator (Orchestrator)  *)
(* with the two socket handlers of every session                           *)
(* (src/global/orchestrator/base.rs), and at the other end the control     *)
(* worker of every node (src/global/node/worker.rs) and the calls its node *)
(* makes (src/global/node/base.rs).                                        *)
(*                                                                         *)
(* A session stands for its node: a node that starts again has another     *)
(* session.  The transfer of the tensors between a granted Begin and the   *)
(* next call is left out: it may take no time.                             *)
(***************************************************************************)
EXTENDS Orchestrator

CONSTANTS
  Plans,        \* plans[s]: the registration of session s, the collectives it may
                \* begin and the sessions that must have ended before it starts
  MaxBegins,    \* bound on the collectives of a session
  MaxFaults     \* bound on the faults

ASSUME PlaneAssumption ==
  /\ Plans \subseteq [Sessions -> [register : Registers, specs : SUBSET Specs,
                                  after : SUBSET Sessions]]
  /\ MaxBegins \in Nat /\ MaxFaults \in Nat

Routes == {"request", "response"}

VARIABLES
  worker,     \* worker[s]: "off", "connecting", "running" or "ended"
  token,      \* sessions whose cancellation token is cancelled
  dialed,     \* dialed[s]: routes on which the worker holds a socket
  handler,    \* handler[s][route]: "none", "init", "serving" or "done"
  hello,      \* hello[s]: routes on which Init is on the way
  cut,        \* cut[s]: routes whose socket broke
  up, down,   \* up[s], down[s]: requests and responses on the way
  channel,    \* channel[s]: calls sent to the worker, with their number
  pending,    \* pending[s]: requests sent and not answered, with their call
  call,       \* call[s]: the call the node waits in, number and answer
  made,       \* made[s]: number of calls so far
  executed,   \* executed[s]: transfers of the collectives that began
  plan,       \* the plan of this run
  faults      \* number of faults so far

worker_vars == <<worker, token, dialed, channel, pending>>
socket_vars == <<handler, hello, cut, up, down>>
owner_vars == <<call, made, executed, plan>>
plane == <<vars, worker_vars, socket_vars, owner_vars, faults>>

NoAnswer == [kind |-> "none"]
Idle == [number |-> 0, answer |-> NoAnswer, kind |-> "none"]
Waiting(s) == call[s] # Idle

PlaneInit ==
  /\ Init
  /\ worker = [s \in Sessions |-> "off"] /\ token = {}
  /\ dialed = [s \in Sessions |-> {}]
  /\ handler = [s \in Sessions |-> [route \in Routes |-> "none"]]
  /\ hello = [s \in Sessions |-> {}] /\ cut = [s \in Sessions |-> {}]
  /\ up = [s \in Sessions |-> <<>>] /\ down = [s \in Sessions |-> <<>>]
  /\ channel = [s \in Sessions |-> <<>>] /\ pending = [s \in Sessions |-> {}]
  /\ call = [s \in Sessions |-> Idle] /\ made = [s \in Sessions |-> 0]
  /\ executed = [s \in Sessions |-> <<>>]
  /\ plan \in Plans
  /\ faults = 0

Fault == faults < MaxFaults /\ faults' = faults + 1

-----------------------------------------------------------------------------
(* The calls of a node.  Its local server makes one at a time.              *)

(* A node is created, with its worker, when the one before it is gone.      *)
Launch(s) ==
  /\ worker[s] = "off"
  /\ \A e \in plan[s].after : worker[e] = "ended" /\ ~Waiting(e)
  /\ worker' = [worker EXCEPT ![s] = "connecting"]
  /\ UNCHANGED <<vars, token, dialed, channel, pending, socket_vars, owner_vars, faults>>

(* What the node may ask for: it registers, begins collectives, finishes.   *)
Asks(s) ==
  IF made[s] = 0 THEN {plan[s].register}
  ELSE {FinishMsg} \cup {BeginMsg(spec) : spec \in {x \in plan[s].specs : made[s] <= MaxBegins}}

(* request: a cancelled token refuses the call at once.                     *)
Request(s, r) ==
  /\ worker[s] # "off" /\ ~Waiting(s) /\ s \notin token
  /\ made' = [made EXCEPT ![s] = @ + 1]
  /\ call' = [call EXCEPT ![s] = [number |-> made'[s], answer |-> NoAnswer, kind |-> r.kind]]
  /\ channel' = [channel EXCEPT ![s] = Append(@, [request |-> r, number |-> made'[s]])]
  /\ UNCHANGED <<vars, worker, token, dialed, pending, socket_vars, executed, plan, faults>>

(* Mutant: a call that fails does not cancel the token.                     *)
FailQuietly(s) == UNCHANGED token

(* CancelOnDrop, guarded and the aborts of register and close_connection:   *)
(* a call that does not end well ends the worker.                           *)
Fail(s) == token' = token \cup {s}

(* The call returns with the answer of the orchestrator; a node that has    *)
(* finished aborts its worker in any case.                                  *)
Return(s) ==
  /\ Waiting(s) /\ call[s].answer # NoAnswer
  /\ IF call[s].answer.kind = "Error" \/ call[s].kind = "finish" THEN Fail(s) ELSE UNCHANGED token
  /\ executed' = IF call[s].answer.kind = "Begin"
                 THEN [executed EXCEPT ![s] = Append(@, call[s].answer.transfer)] ELSE executed
  /\ call' = [call EXCEPT ![s] = Idle]
  /\ UNCHANGED <<vars, worker, dialed, channel, pending, socket_vars, made, plan, faults>>

(* The call returns because the token was cancelled meanwhile ...           *)
Aborted(s) ==
  /\ Waiting(s) /\ s \in token
  /\ call' = [call EXCEPT ![s] = Idle]
  /\ UNCHANGED <<vars, worker_vars, socket_vars, made, executed, plan, faults>>

(* ... or its time is up.                                                   *)
TimesOut(s) ==
  /\ Fault
  /\ Waiting(s)
  /\ Fail(s)
  /\ call' = [call EXCEPT ![s] = Idle]
  /\ UNCHANGED <<vars, worker, dialed, channel, pending, socket_vars, made, executed, plan>>

-----------------------------------------------------------------------------
(* The worker.                                                              *)

(* The end of start: the token is cancelled, and whoever waits for an       *)
(* answer sees that; the sockets are closed.                                *)
End(s) ==
  /\ worker' = [worker EXCEPT ![s] = "ended"]
  /\ token' = token \cup {s}
  /\ dialed' = [dialed EXCEPT ![s] = {}]
  /\ channel' = [channel EXCEPT ![s] = <<>>]
  /\ pending' = [pending EXCEPT ![s] = {}]

(* connect, on one route: an attempt succeeds and Init is sent.             *)
Connect(s, route) ==
  /\ worker[s] = "connecting" /\ route \notin dialed[s]
  /\ dialed' = [dialed EXCEPT ![s] = @ \cup {route}]
  /\ worker' = IF dialed'[s] = Routes THEN [worker EXCEPT ![s] = "running"] ELSE worker
  /\ handler' = [handler EXCEPT ![s][route] = "init"]
  /\ hello' = [hello EXCEPT ![s] = @ \cup {route}]
  /\ UNCHANGED <<vars, token, channel, pending, cut, up, down, owner_vars, faults>>

(* All attempts on a route fail, or Init is sent with an unknown outcome,   *)
(* which is never tried again.                                              *)
ConnectFails(s, route) ==
  /\ Fault
  /\ worker[s] = "connecting" /\ route \notin dialed[s]
  /\ End(s)
  /\ \/ UNCHANGED <<handler, hello>>
     \/ /\ handler' = [handler EXCEPT ![s][route] = "init"]
        /\ hello' \in {hello, [hello EXCEPT ![s] = @ \cup {route}]}
  /\ UNCHANGED <<vars, cut, up, down, owner_vars>>

(* A request is taken from the channel; one whose caller is gone is         *)
(* dropped.                                                                 *)
Deserted(s) == call[s].number # Head(channel[s]).number

Skip(s) ==
  /\ worker[s] = "running" /\ channel[s] # <<>> /\ Deserted(s)
  /\ channel' = [channel EXCEPT ![s] = Tail(@)]
  /\ UNCHANGED <<vars, worker, token, dialed, pending, socket_vars, owner_vars, faults>>

Hears(s) == handler[s]["request"] \in {"init", "serving"} /\ "request" \notin cut[s]

(* A request gets a number of its own and is written; a socket that the     *)
(* other end has closed may take it without an error.                       *)
Pump(s) ==
  /\ worker[s] = "running" /\ channel[s] # <<>> /\ ~Deserted(s)
  /\ issued' = [issued EXCEPT ![s] = @ + 1]
  /\ channel' = [channel EXCEPT ![s] = Tail(@)]
  /\ pending' = [pending EXCEPT ![s] = @ \cup {[id |-> issued'[s], number |-> Head(channel[s]).number]}]
  /\ up' = IF Hears(s)
           THEN [up EXCEPT ![s] = Append(@, [id |-> issued'[s], request |-> Head(channel[s]).request])]
           ELSE up
  /\ UNCHANGED <<group, sessions, taken, queue, worker, token, dialed, handler, hello, cut, down,
                 owner_vars, faults>>

PumpFails(s) ==
  /\ worker[s] = "running" /\ channel[s] # <<>> /\ ~Deserted(s) /\ ~Hears(s)
  /\ End(s)
  /\ UNCHANGED <<vars, socket_vars, owner_vars, faults>>

(* A response completes the request it names, if its caller still waits; a  *)
(* response to nothing that is pending ends the worker.                     *)
Take(s) ==
  /\ worker[s] = "running" /\ down[s] # <<>>
  /\ down' = [down EXCEPT ![s] = Tail(@)]
  /\ LET answered == {p \in pending[s] : p.id = Head(down[s]).request} IN
       IF answered = {} THEN End(s) /\ UNCHANGED call
       ELSE /\ pending' = [pending EXCEPT ![s] = @ \ answered]
            /\ call' = IF \E p \in answered : p.number = call[s].number
                       THEN [call EXCEPT ![s].answer = Head(down[s]).reply] ELSE call
            /\ UNCHANGED <<worker, token, dialed, channel>>
  /\ UNCHANGED <<vars, handler, hello, cut, up, made, executed, plan, faults>>

(* The response socket is closed by the other end or breaks ...             *)
StreamEnds(s) ==
  /\ worker[s] = "running"
  /\ "response" \in cut[s] \/ (handler[s]["response"] = "done" /\ down[s] = <<>>)
  /\ End(s)
  /\ UNCHANGED <<vars, socket_vars, owner_vars, faults>>

(* ... or the token was cancelled.                                          *)
Cancelled(s) ==
  /\ worker[s] \in {"connecting", "running"} /\ s \in token
  /\ End(s)
  /\ UNCHANGED <<vars, socket_vars, owner_vars, faults>>

(* The node is dropped or its process dies.                                 *)
Drop(s) ==
  /\ Fault
  /\ worker[s] \in {"connecting", "running"}
  /\ End(s)
  /\ call' = [call EXCEPT ![s] = Idle]
  /\ UNCHANGED <<vars, socket_vars, made, executed, plan>>

-----------------------------------------------------------------------------
(* The socket handlers of the orchestrator.                                 *)

(* A socket whose other end is closed has nothing left to read.             *)
Closed(s, route) ==
  \/ route \in cut[s]
  \/ route \notin dialed[s] /\ route \notin hello[s] /\ (route = "request" => up[s] = <<>>)

Served(s, route) ==
  /\ handler[s][route] = "init" /\ route \in hello[s]
  /\ handler' = [handler EXCEPT ![s][route] = "serving"]
  /\ hello' = [hello EXCEPT ![s] = @ \ {route}]
  /\ UNCHANGED <<cut, up, down, worker_vars, owner_vars, faults>>

RequestInit(s) == Served(s, "request") /\ InitSession(s)

ResponseInit(s) == Served(s, "response") /\ GetSessionResponder(s)

RequestMessage(s) ==
  /\ handler[s]["request"] = "serving" /\ up[s] # <<>>
  /\ ProcessRequest(s, Head(up[s]).id, Head(up[s]).request)
  /\ up' = [up EXCEPT ![s] = Tail(@)]
  /\ UNCHANGED <<sessions, taken, issued, worker_vars, handler, hello, cut, down, owner_vars, faults>>

ResponseSend(s) ==
  /\ handler[s]["response"] = "serving"
  /\ Receive(s)
  /\ down' = IF "response" \in cut[s] \/ "response" \notin dialed[s] THEN down
             ELSE [down EXCEPT ![s] = Append(@, Head(queue[s]))]
  /\ UNCHANGED <<worker_vars, handler, hello, cut, up, owner_vars, faults>>

(* The end of a handler: a session it has served is disconnected.           *)
HandlerDone(s, route) ==
  /\ handler' = [handler EXCEPT ![s][route] = "done"]
  /\ IF handler[s][route] = "serving" THEN Disconnect(s) ELSE UNCHANGED vars
  /\ UNCHANGED <<hello, cut, up, down, worker_vars, owner_vars, faults>>

(* Mutant: a request socket that ends is not reported.                      *)
RequestEndsQuietly(s) ==
  /\ handler[s]["request"] \in {"init", "serving"}
  /\ Closed(s, "request")
  /\ handler' = [handler EXCEPT ![s]["request"] = "done"]
  /\ UNCHANGED <<vars, hello, cut, up, down, worker_vars, owner_vars, faults>>

RequestEnds(s) ==
  /\ handler[s]["request"] \in {"init", "serving"}
  /\ Closed(s, "request")
  /\ HandlerDone(s, "request")

(* Mutant: the handler looks at its socket only.                            *)
DismissedNever(s) == FALSE

(* The sender of the responses is gone with the session.                    *)
Dismissed(s) == handler[s]["response"] = "serving" /\ s \notin sessions /\ queue[s] = <<>>

ResponseEnds(s) ==
  /\ handler[s]["response"] \in {"init", "serving"}
  /\ Closed(s, "response") \/ Dismissed(s)
  /\ HandlerDone(s, "response")

(* A connection breaks; what was on the way is lost.                        *)
Break(s, route) ==
  /\ Fault
  /\ route \in dialed[s] /\ handler[s][route] \in {"init", "serving"} /\ route \notin cut[s]
  /\ cut' = [cut EXCEPT ![s] = @ \cup {route}]
  /\ hello' = [hello EXCEPT ![s] = @ \ {route}]
  /\ up' = IF route = "request" THEN [up EXCEPT ![s] = <<>>] ELSE up
  /\ down' = IF route = "response" THEN [down EXCEPT ![s] = <<>>] ELSE down
  /\ UNCHANGED <<vars, worker_vars, handler, owner_vars>>

-----------------------------------------------------------------------------
OwnerStep(s) == Return(s) \/ Aborted(s)

WorkerStep(s) ==
  \/ \E route \in Routes : Connect(s, route)
  \/ Skip(s) \/ Pump(s) \/ PumpFails(s) \/ Take(s) \/ StreamEnds(s) \/ Cancelled(s)

RequestHandler(s) == RequestInit(s) \/ RequestMessage(s) \/ RequestEnds(s)

ResponseHandler(s) == ResponseInit(s) \/ ResponseSend(s) \/ ResponseEnds(s)

PlaneNext ==
  \E s \in Sessions :
    \/ Launch(s) \/ (\E r \in Asks(s) : Request(s, r)) \/ TimesOut(s) \/ Drop(s)
    \/ OwnerStep(s) \/ WorkerStep(s) \/ RequestHandler(s) \/ ResponseHandler(s)
    \/ \E route \in Routes : ConnectFails(s, route) \/ Break(s, route)

(* The tasks of the runtime run when they can; nobody has to make a call,   *)
(* and no deadline is needed.                                               *)
PlaneFairness ==
  \A s \in Sessions : /\ WF_plane(OwnerStep(s)) /\ WF_plane(WorkerStep(s))
                      /\ WF_plane(RequestHandler(s)) /\ WF_plane(ResponseHandler(s))

PlaneSpec == PlaneInit /\ [][PlaneNext]_plane /\ PlaneFairness

-----------------------------------------------------------------------------
(* "A dropped request may already be executing remotely, so it cannot be    *)
(* ignored or replayed": a node that runs a collective has run every one    *)
(* granted to it before, so no answer is ever missed by a call that gave up *)
(* and the members of a group run the same collectives.                     *)
NothingSkipped ==
  \A g \in begun : \A i \in DOMAIN executed[g.session] :
    g.transfer < executed[g.session][i] => \E j \in 1 .. i : executed[g.session][j] = g.transfer

(* A call is released, without its deadline, when a socket of its session   *)
(* breaks or when the worker of another member of the group has ended.  A   *)
(* request socket that breaks before both Inits were read is the exception: *)
(* the response handler learns nothing of it.                               *)
Lost(s) ==
  \/ "response" \in cut[s]
  \/ "request" \in cut[s] /\ \A route \in Routes : handler[s][route] = "serving"
  \/ \E t \in Registered : s \in Registered /\ worker[t] = "ended"

LossReleasesWaiters == \A s \in Sessions : (Waiting(s) /\ Lost(s)) ~> ~Waiting(s)

(* Once a worker has ended the orchestrator forgets its session for good,   *)
(* in whatever order its two sockets were opened and closed: neither handler *)
(* brings it back.                                                          *)
LeaverForgotten ==
  \A s \in Sessions : worker[s] = "ended" ~> [](s \notin sessions /\ s \notin Registered)

-----------------------------------------------------------------------------
(* The inductive invariant behind NothingSkipped.                           *)
Calls == [number : Nat \ {0}, answer : Reply \cup {NoAnswer},
          kind : {"register", "begin", "finish"}]
Queries == [request : RemoteRequest, number : Nat \ {0}]
Messages == [id : Nat, request : RemoteRequest]
Tickets == [id : Nat, number : Nat \ {0}]

PlaneTypeOK ==
  /\ token \subseteq Sessions
  /\ channel \in [Sessions -> Seq(Queries)]
  /\ pending \in [Sessions -> SUBSET Tickets]
  /\ up \in [Sessions -> Seq(Messages)]
  /\ down \in [Sessions -> Seq(Response)]
  /\ call \in [Sessions -> {Idle} \cup Calls]
  /\ made \in [Sessions -> Nat]
  /\ executed \in [Sessions -> Seq(Nat)]
  /\ plan \in Plans

(* The orchestrator has the request of s and has not answered it.           *)
Held(s) == s \in Waits(pending_collectives) \cup Waits(register_requests)

(* No request of s is on its way to an answer.                              *)
NoRequest(s) == channel[s] = <<>> /\ up[s] = <<>> /\ ~Held(s)
NoResponse(s) == queue[s] = <<>> /\ down[s] = <<>> /\ call[s].answer = NoAnswer

(* A session has at most one request or response under way, and while it    *)
(* has one its node waits or will make no further call.                     *)
OneUnderWay(s) ==
  /\ Len(channel[s]) <= 1 /\ Len(up[s]) <= 1 /\ Len(queue[s]) <= 1 /\ Len(down[s]) <= 1
  /\ channel[s] # <<>> => up[s] = <<>> /\ ~Held(s)
  /\ up[s] # <<>> => ~Held(s)
  /\ ~NoRequest(s) => NoResponse(s)
  /\ queue[s] # <<>> => down[s] = <<>> /\ call[s].answer = NoAnswer
  /\ down[s] # <<>> => call[s].answer = NoAnswer
  /\ Waiting(s) \/ s \in token \/ (NoRequest(s) /\ NoResponse(s))

(* The replies under way to s.                                              *)
Replies(s) == {queue[s][i].reply : i \in DOMAIN queue[s]}
         \cup {down[s][i].reply : i \in DOMAIN down[s]}
         \cup ({call[s].answer} \ {NoAnswer})

Ran(s, x) == \E i \in DOMAIN executed[s] : executed[s][i] = x

(* A grant that its node has not run is the last thing the node was or will *)
(* be answered.                                                             *)
GrantIsLast(s) ==
  \A g \in begun : g.session = s /\ ~Ran(s, g.transfer) =>
    /\ NoRequest(s)
    /\ Waiting(s) \/ s \in token
    /\ \A a \in Replies(s) : a.kind = "Begin" /\ a.transfer = g.transfer

TransfersPast(s) ==
  /\ \A a \in Replies(s) : a.kind = "Begin" => a.transfer < next_transfer_id
  /\ \A i \in DOMAIN executed[s] : executed[s][i] < next_transfer_id

PlaneInv ==
  /\ GroupInv /\ PeersTallied /\ QueuesOK
  /\ PlaneTypeOK
  /\ \A s \in Sessions : OneUnderWay(s) /\ GrantIsLast(s) /\ TransfersPast(s)
  /\ NothingSkipped
=============================================================================
