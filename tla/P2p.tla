-------------------------------- MODULE P2p --------------------------------
(***************************************************************************)
(* Point-to-point messages through the coordinator (src/rank/network.rs).  *)
(* A rank has one link per rail.  Its threads put requests on a link under *)
(* the submission lock, register them as pending and block; the reader     *)
(* thread of the link hands out the responses.  One router thread per rail *)
(* matches sends with receives, and stops the rail on the first error.     *)
(*                                                                         *)
(* As in module Rendezvous the router takes the next frame of any link.    *)
(***************************************************************************)
EXTENDS Integers, Sequences, FiniteSets, SequencesExt

CONSTANTS
  Ranks,            \* the ranks
  Rails,            \* 0 .. number of rails - 1
  Threads,          \* the threads of all ranks
  RankOf,           \* RankOf[t]: the rank of thread t
  Script(_, _),     \* Script(t, n): what thread t may call as its n-th call
  MaxCalls,         \* bound on the calls of a thread
  MaxFaults,        \* bound on crashes, timeouts and expired leases
  MayAbort,         \* ranks that may abort the session
  MayLeave,         \* ranks that may drop their session
  Heartbeats        \* whether the server was given a heartbeat timeout

ASSUME P2pAssumption ==
  /\ RankOf \in [Threads -> Ranks]
  /\ MaxCalls \in Nat /\ MaxFaults \in Nat /\ Heartbeats \in BOOLEAN
  /\ 0 \in Rails /\ Rails \subseteq Nat
  /\ MayAbort \subseteq Ranks /\ MayLeave \subseteq Ranks

Links == Ranks \X Rails      \* a P2pClient and its stream
Ops == {"Send", "Receive", "Heartbeat"}
AnyRank == "any"             \* ANY_RANK: a receive from any rank
Nobody == "nobody"           \* holds no lock

(* What a caller passes: the peer is the destination of a send and the      *)
(* source of a receive.                                                     *)
Operations ==
  [op : Ops, rail : Rails, peer : Ranks \cup {AnyRank}, tag : Nat, contract : STRING]

ASSUME ScriptAssumption ==
  /\ \A t \in Threads, n \in 1 .. MaxCalls : Script(t, n) \subseteq Operations
  /\ Nobody \notin Threads

VARIABLES
  pc,         \* pc[t]: "idle", "checked", "waiting" or "expired"
  call,       \* call[t]: the request of t, or NoCall
  calls,      \* calls[t]: number of calls made by t
  reply,      \* reply[t]: what the response channel of t holds, or NoReply
  lock,       \* lock[l]: holder of the submission lock across steps
  next,       \* next[l]: next sequence number of each opcode
  pending,    \* pending[l]: keys with the thread that waits for them
  reader,     \* reader[l]: the reader thread runs
  shut,       \* shut[l]: the rank has shut the stream down
  failure,    \* failure[r]: shared by the links of r
  aborted,    \* aborted[l]: the rank has written an abort
  status,     \* status[r]: "in" or "out"
  up, down,   \* frames on their way, per link
  sends,      \* sends[k]: unmatched sends of rail k, in order
  receives,   \* receives[k]: unmatched receives of rail k, in order
  graceful, closed,   \* per link
  router,     \* router[k]: "running", "ok" or "error"
  server_failure,
  faults,     \* faults so far
  matched     \* matched[k]: pairs of send and receive, in order (history)

threads == <<pc, call, calls, reply>>
clients == <<lock, next, pending, reader, shut, failure, aborted, status>>
routers == <<sends, receives, graceful, closed, router, server_failure, matched>>
vars == <<threads, clients, up, down, routers, faults>>

NoCall == [op |-> "none"]
NoReply == [kind |-> "none"]
Failed == [kind |-> "error"]
Eof == [op |-> "eof"]
Leave == [op |-> "Leave"]
Abort == [op |-> "Abort"]

(* A response to the request f; a receive is answered with the send `from'. *)
Response(f, from) == [op |-> f.op, seq |-> f.seq, from |-> from]

LinkOf(t) == <<RankOf[t], call[t].rail>>
Key(t) == [op |-> call[t].op, seq |-> call[t].seq, thread |-> t]

Init ==
  /\ pc = [t \in Threads |-> "idle"]
  /\ call = [t \in Threads |-> NoCall]
  /\ calls = [t \in Threads |-> 0]
  /\ reply = [t \in Threads |-> NoReply]
  /\ lock = [l \in Links |-> Nobody]
  /\ next = [l \in Links |-> [op \in Ops |-> 0]]
  /\ pending = [l \in Links |-> {}]
  /\ reader = [l \in Links |-> TRUE]
  /\ shut = [l \in Links |-> FALSE]
  /\ failure = [r \in Ranks |-> FALSE]
  /\ aborted = [l \in Links |-> FALSE]
  /\ status = [r \in Ranks |-> "in"]
  /\ up = [l \in Links |-> <<>>]
  /\ down = [l \in Links |-> <<>>]
  /\ sends = [k \in Rails |-> <<>>]
  /\ receives = [k \in Rails |-> <<>>]
  /\ graceful = [l \in Links |-> FALSE]
  /\ closed = [l \in Links |-> FALSE]
  /\ router = [k \in Rails |-> "running"]
  /\ server_failure = FALSE
  /\ faults = 0
  /\ matched = [k \in Rails |-> <<>>]

-----------------------------------------------------------------------------
(* The threads of a rank: request_with_timeout.                             *)

(* Mutant: a request is made whatever happened before.                      *)
RefusedNever(r) == FALSE

(* A failure of any link of the rank refuses its requests.                  *)
Refused(r) == failure[r]

(* Under the submission lock: the failure is checked and released, and the  *)
(* sequence number is taken.                                                *)
Request(t) ==
  /\ pc[t] = "idle"
  /\ calls[t] < MaxCalls
  /\ status[RankOf[t]] = "in"
  /\ calls' = [calls EXCEPT ![t] = @ + 1]
  /\ \E c \in Script(t, calls[t] + 1) :
       LET l == <<RankOf[t], c.rail>> IN
       /\ lock[l] = Nobody
       /\ IF Refused(RankOf[t])
          THEN UNCHANGED <<pc, call, lock, next>>
          ELSE /\ pc' = [pc EXCEPT ![t] = "checked"]
               /\ call' = [call EXCEPT ![t] =
                    [op |-> c.op, seq |-> next[l][c.op], rail |-> c.rail, source |-> RankOf[t],
                     peer |-> c.peer, tag |-> c.tag, contract |-> c.contract]]
               /\ lock' = [lock EXCEPT ![l] = t]
               /\ next' = [next EXCEPT ![l][c.op] = @ + 1]
  /\ UNCHANGED <<reply, pending, reader, shut, failure, aborted, status, up, down, routers, faults>>

(* fail_pending on link l: every pending request gets an error.             *)
Waiters(l) == {k.thread : k \in pending[l]}
FailPending(l) ==
  /\ failure' = [failure EXCEPT ![l[1]] = TRUE]
  /\ reply' = [t \in Threads |-> IF t \in Waiters(l) THEN Failed ELSE reply[t]]
  /\ pending' = [pending EXCEPT ![l] = {}]

(* Still under the lock: the request becomes pending and is written.  After *)
(* a shutdown the write fails, and so do all pending requests of the link.  *)
Enqueue(t) ==
  LET l == LinkOf(t) IN
  /\ pc[t] = "checked"
  /\ lock' = [lock EXCEPT ![l] = Nobody]
  /\ \/ /\ ~shut[l]
        /\ pc' = [pc EXCEPT ![t] = "waiting"]
        /\ pending' = [pending EXCEPT ![l] = @ \cup {Key(t)}]
        /\ up' = [up EXCEPT ![l] = Append(@, call[t])]
        /\ UNCHANGED <<call, reply, failure>>
     \/ /\ shut[l] \/ router[call[t].rail] # "running"
        /\ pc' = [pc EXCEPT ![t] = "idle"]
        /\ call' = [call EXCEPT ![t] = NoCall]
        /\ FailPending(l)
        /\ UNCHANGED up
  /\ UNCHANGED <<calls, next, reader, shut, aborted, status, down, routers, faults>>

(* The response channel has a value and the call returns it.                *)
Return(t) ==
  /\ pc[t] = "waiting"
  /\ reply[t] # NoReply
  /\ pc' = [pc EXCEPT ![t] = "idle"]
  /\ call' = [call EXCEPT ![t] = NoCall]
  /\ reply' = [reply EXCEPT ![t] = NoReply]
  /\ UNCHANGED <<calls, clients, up, down, routers, faults>>

(* Mutant: the key stays.                                                   *)
ForgetNothing(t) == pending

(* The key of a request whose time is up is removed.                        *)
Forget(t) == [pending EXCEPT ![LinkOf(t)] = @ \ {Key(t)}]

(* recv_timeout expires: the key is removed, then the stream is shut down   *)
(* under the lock.                                                          *)
Expire(t) ==
  /\ pc[t] = "waiting"
  /\ reply[t] = NoReply
  /\ faults < MaxFaults
  /\ faults' = faults + 1
  /\ pc' = [pc EXCEPT ![t] = "expired"]
  /\ pending' = Forget(t)
  /\ UNCHANGED <<call, calls, reply, lock, next, reader, shut, failure, aborted, status, up, down, routers>>

(* The stream ends in both directions.                                      *)
ShutDown(L) ==
  /\ shut' = [l \in Links |-> shut[l] \/ l \in L]
  /\ up' = [l \in Links |-> IF l \in L /\ ~shut[l] THEN Append(up[l], Eof) ELSE up[l]]
  /\ down' = [l \in Links |-> IF l \in L /\ ~shut[l] THEN Append(down[l], Eof) ELSE down[l]]

ShutExpired(t) ==
  /\ pc[t] = "expired"
  /\ lock[LinkOf(t)] = Nobody
  /\ ShutDown({LinkOf(t)})
  /\ pc' = [pc EXCEPT ![t] = "idle"]
  /\ call' = [call EXCEPT ![t] = NoCall]
  /\ reply' = [reply EXCEPT ![t] = NoReply]
  /\ UNCHANGED <<calls, lock, next, pending, reader, failure, aborted, status, routers, faults>>

(* Mutant: only the first rail is told.                                     *)
RailTurnFirst(r, k) == k = 0

(* The rails are told in their order.                                       *)
RailTurn(r, k) == \A j \in Rails : j < k => aborted[<<r, j>>]

(* TcpRankSession::abort writes to one rail after the other.                *)
AbortRail(r, k) ==
  /\ r \in MayAbort
  /\ status[r] = "in"
  /\ ~aborted[<<r, k>>]
  /\ RailTurn(r, k)
  /\ lock[<<r, k>>] = Nobody
  /\ aborted' = [aborted EXCEPT ![<<r, k>>] = TRUE]
  /\ next' = [next EXCEPT ![<<r, k>>]["Send"] = @ + 1]
  /\ up' = IF shut[<<r, k>>] THEN up ELSE [up EXCEPT ![<<r, k>>] = Append(@, Abort)]
  /\ UNCHANGED <<threads, lock, pending, reader, shut, failure, status, down, routers, faults>>

(* The session of a rank that is in no call is dropped: on each link a      *)
(* LEAVE and the end of the stream.                                         *)
DropSession(r) ==
  /\ r \in MayLeave
  /\ status[r] = "in"
  /\ \A t \in Threads : RankOf[t] = r => pc[t] = "idle"
  /\ \A k \in Rails : aborted[<<r, 0>>] => aborted[<<r, k>>]
  /\ status' = [status EXCEPT ![r] = "out"]
  /\ shut' = [l \in Links |-> shut[l] \/ l[1] = r]
  /\ up' = [l \in Links |-> IF l[1] = r /\ ~shut[l] THEN up[l] \o <<Leave, Eof>> ELSE up[l]]
  /\ reader' = [l \in Links |-> l[1] # r /\ reader[l]]
  /\ UNCHANGED <<threads, lock, next, pending, failure, aborted, down, routers, faults>>

(* The process of a rank dies.                                              *)
Crash(r) ==
  /\ status[r] = "in"
  /\ faults < MaxFaults
  /\ faults' = faults + 1
  /\ status' = [status EXCEPT ![r] = "out"]
  /\ shut' = [l \in Links |-> shut[l] \/ l[1] = r]
  /\ up' = [l \in Links |-> IF l[1] = r /\ ~shut[l] THEN Append(up[l], Eof) ELSE up[l]]
  /\ reader' = [l \in Links |-> l[1] # r /\ reader[l]]
  /\ pending' = [l \in Links |-> IF l[1] = r THEN {} ELSE pending[l]]
  /\ lock' = [l \in Links |-> IF l[1] = r THEN Nobody ELSE lock[l]]
  /\ pc' = [t \in Threads |-> IF RankOf[t] = r THEN "idle" ELSE pc[t]]
  /\ call' = [t \in Threads |-> IF RankOf[t] = r THEN NoCall ELSE call[t]]
  /\ reply' = [t \in Threads |-> IF RankOf[t] = r THEN NoReply ELSE reply[t]]
  /\ UNCHANGED <<calls, next, failure, aborted, down, routers>>

-----------------------------------------------------------------------------
(* The reader thread of a link: run_p2p_client_reader.                      *)

(* Mutant: the opcode is not part of the key.                               *)
AnswersSequence(m, key) == m.seq = key.seq

(* P2pResponseKey.                                                          *)
Answers(m, key) == m.seq = key.seq /\ m.op = key.op

(* A response for which nobody waits is dropped.                            *)
ReadReply(l) ==
  /\ reader[l]
  /\ down[l] # <<>>
  /\ Head(down[l]) \notin {Abort, Eof}
  /\ LET m == Head(down[l])
         found == {key \in pending[l] : Answers(m, key)}
     IN /\ pending' = [pending EXCEPT ![l] = @ \ found]
        /\ reply' = [t \in Threads |->
             IF \E key \in found : key.thread = t
             THEN [kind |-> "data", op |-> m.op, from |-> m.from] ELSE reply[t]]
  /\ down' = [down EXCEPT ![l] = Tail(@)]
  /\ UNCHANGED <<pc, call, calls, lock, next, reader, shut, failure, aborted, status, up, routers, faults>>

ReadEnd(l) ==
  /\ reader[l]
  /\ down[l] # <<>>
  /\ Head(down[l]) \in {Abort, Eof}
  /\ FailPending(l)
  /\ reader' = [reader EXCEPT ![l] = FALSE]
  /\ UNCHANGED <<pc, call, calls, lock, next, shut, aborted, status, up, down, routers, faults>>

-----------------------------------------------------------------------------
(* The router of a rail: run_p2p_loop and route_p2p_request.  A client      *)
(* writes LEAVE last, so the check for data after LEAVE is left out.        *)

RailOf(l) == l[2]

(* What is written to a stream that was shut down is lost.                  *)
Put(streams, l, m) == IF shut[l] THEN streams ELSE [streams EXCEPT ![l] = Append(@, m)]

Incoming(l, ops) ==
  /\ router[RailOf(l)] = "running"
  /\ up[l] # <<>>
  /\ Head(up[l]).op \in ops
  /\ up' = [up EXCEPT ![l] = Tail(@)]
  /\ UNCHANGED <<threads, clients, faults>>

(* p2p_matches *)
Matches(send, receive) ==
  /\ send.peer = receive.source
  /\ receive.peer \in {AnyRank, send.source}
  /\ send.tag = receive.tag

(* Mutant: a receive that names its source is overlooked.                   *)
QueuedReceiveFromAny(k, send) ==
  SelectInSeq(receives[k], LAMBDA v : Matches(send, v) /\ v.peer = AnyRank)

(* The oldest queued receive that matches a send, or 0.                     *)
QueuedReceive(k, send) == SelectInSeq(receives[k], LAMBDA v : Matches(send, v))

(* Mutant: the newest send of the queue is taken.                           *)
QueuedSendLast(k, receive) == SelectLastInSeq(sends[k], LAMBDA f : Matches(f, receive))

(* The oldest queued send that matches a receive, or 0.                     *)
QueuedSend(k, receive) == SelectInSeq(sends[k], LAMBDA f : Matches(f, receive))

(* deliver_p2p_receive *)
Deliver(streams, send, receive) ==
  Put(streams, <<receive.source, receive.rail>>, Response(receive, send))

Acknowledged(l, send) == Put(down, l, Response(send, NoCall))

(* The rail stops: the failure is published and every rank is told.         *)
StopRail(k, streams) ==
  /\ router' = [router EXCEPT ![k] = "error"]
  /\ server_failure' = TRUE
  /\ down' = [l \in Links |-> IF RailOf(l) = k /\ ~shut[l]
                              THEN streams[l] \o <<Abort, Eof>> ELSE streams[l]]

(* A send is acknowledged before it is matched.                             *)
RouteSend(l) ==
  LET k == RailOf(l)
      send == Head(up[l])
      i == QueuedReceive(k, send)
  IN /\ Incoming(l, {"Send"})
     /\ \/ /\ i = 0
           /\ sends' = [sends EXCEPT ![k] = Append(@, send)]
           /\ down' = Acknowledged(l, send)
           /\ UNCHANGED <<receives, matched, router, server_failure>>
        \/ /\ i # 0
           /\ send.contract = receives[k][i].contract
           /\ receives' = [receives EXCEPT ![k] = RemoveAt(@, i)]
           /\ matched' = [matched EXCEPT ![k] = Append(@, <<send, receives[k][i]>>)]
           /\ down' = Deliver(Acknowledged(l, send), send, receives[k][i])
           /\ UNCHANGED <<sends, router, server_failure>>
        \/ /\ i # 0
           /\ send.contract # receives[k][i].contract
           /\ receives' = [receives EXCEPT ![k] = RemoveAt(@, i)]
           /\ StopRail(k, Acknowledged(l, send))
           /\ UNCHANGED <<sends, matched>>
     /\ UNCHANGED <<graceful, closed>>

RouteReceive(l) ==
  LET k == RailOf(l)
      receive == Head(up[l])
      i == QueuedSend(k, receive)
  IN /\ Incoming(l, {"Receive"})
     /\ \/ /\ i = 0
           /\ receives' = [receives EXCEPT ![k] = Append(@, receive)]
           /\ UNCHANGED <<sends, matched, down, router, server_failure>>
        \/ /\ i # 0
           /\ sends[k][i].contract = receive.contract
           /\ sends' = [sends EXCEPT ![k] = RemoveAt(@, i)]
           /\ matched' = [matched EXCEPT ![k] = Append(@, <<sends[k][i], receive>>)]
           /\ down' = Deliver(down, sends[k][i], receive)
           /\ UNCHANGED <<receives, router, server_failure>>
        \/ /\ i # 0
           /\ sends[k][i].contract # receive.contract
           /\ sends' = [sends EXCEPT ![k] = RemoveAt(@, i)]
           /\ StopRail(k, down)
           /\ UNCHANGED <<receives, matched>>
     /\ UNCHANGED <<graceful, closed>>

RouteHeartbeat(l) ==
  /\ Incoming(l, {"Heartbeat"})
  /\ down' = Put(down, l, Response(Head(up[l]), NoCall))
  /\ UNCHANGED routers

RouteLeave(l) ==
  /\ Incoming(l, {"Leave"})
  /\ graceful' = [graceful EXCEPT ![l] = TRUE]
  /\ UNCHANGED <<sends, receives, closed, matched, router, server_failure, down>>

RouteAbort(l) ==
  /\ Incoming(l, {"Abort"})
  /\ StopRail(RailOf(l), down)
  /\ UNCHANGED <<sends, receives, graceful, closed, matched>>

(* The write of an acknowledgement or of a heartbeat response fails because *)
(* the rank has shut its stream down.                                       *)
WriteFails(l) ==
  /\ Incoming(l, {"Send", "Heartbeat"})
  /\ shut[l]
  /\ StopRail(RailOf(l), down)
  /\ UNCHANGED <<sends, receives, graceful, closed, matched>>

(* A delivery fails because the receiver has shut its stream down: the rank *)
(* of a queued receive, or the rank that just asked.                        *)
DeliveryFails(l) ==
  LET k == RailOf(l)
      f == Head(up[l])
      i == QueuedReceive(k, f)
      j == QueuedSend(k, f)
  IN /\ Incoming(l, {"Send", "Receive"})
     /\ \/ /\ f.op = "Send" /\ i # 0
           /\ shut[<<receives[k][i].source, k>>]
           /\ receives' = [receives EXCEPT ![k] = RemoveAt(@, i)]
           /\ StopRail(k, Acknowledged(l, f))
           /\ UNCHANGED sends
        \/ /\ f.op = "Receive" /\ j # 0
           /\ shut[l]
           /\ sends' = [sends EXCEPT ![k] = RemoveAt(@, j)]
           /\ StopRail(k, down)
           /\ UNCHANGED receives
     /\ UNCHANGED <<graceful, closed, matched>>

(* Only rail 0 watches the ranks, and only with a heartbeat timeout.        *)
Watched(k) == Heartbeats /\ k = 0

LinkClosed(l) ==
  LET k == RailOf(l)
      all == \A m \in Links : RailOf(m) = k => closed[m] \/ m = l
  IN /\ Incoming(l, {"eof"})
     /\ closed' = [closed EXCEPT ![l] = TRUE]
     /\ IF Watched(k) /\ ~graceful[l]
        THEN StopRail(k, down)
        ELSE /\ router' = [router EXCEPT ![k] = IF all THEN "ok" ELSE @]
             /\ UNCHANGED <<down, server_failure>>
     /\ UNCHANGED <<sends, receives, graceful, matched>>

(* A rank was silent for longer than the heartbeat timeout.                 *)
LeaseExpires(l) ==
  /\ router[RailOf(l)] = "running"
  /\ Watched(RailOf(l))
  /\ ~closed[l] /\ ~graceful[l]
  /\ faults < MaxFaults
  /\ faults' = faults + 1
  /\ StopRail(RailOf(l), down)
  /\ UNCHANGED <<threads, clients, up, sends, receives, graceful, closed, matched>>

-----------------------------------------------------------------------------
ThreadStep(t) == Request(t) \/ Enqueue(t) \/ Return(t) \/ Expire(t) \/ ShutExpired(t)
RankStep(r) == DropSession(r) \/ Crash(r) \/ \E k \in Rails : AbortRail(r, k)
ReaderStep(l) == ReadReply(l) \/ ReadEnd(l)
RouterStep(l) ==
  \/ RouteSend(l) \/ RouteReceive(l) \/ RouteHeartbeat(l)
  \/ RouteLeave(l) \/ RouteAbort(l) \/ WriteFails(l) \/ DeliveryFails(l)
  \/ LinkClosed(l)

Next ==
  \/ \E t \in Threads : ThreadStep(t)
  \/ \E r \in Ranks : RankStep(r)
  \/ \E l \in Links : ReaderStep(l) \/ RouterStep(l) \/ LeaseExpires(l)

Spec == Init /\ [][Next]_vars

(* Routers and readers run, and a thread goes on when it can.  No timeout,  *)
(* crash or further call is assumed.                                        *)
Fairness ==
  /\ \A t \in Threads : WF_vars(Enqueue(t)) /\ WF_vars(Return(t)) /\ WF_vars(ShutExpired(t))
  /\ \A l \in Links : WF_vars(ReaderStep(l)) /\ WF_vars(RouterStep(l))
  /\ \A l \in Links : WF_vars(AbortRail(l[1], l[2]) /\ \E k \in Rails : aborted[<<l[1], k>>])

FairSpec == Spec /\ Fairness

-----------------------------------------------------------------------------
Frames ==
  [op : Ops, seq : Nat, rail : Rails, source : Ranks,
   peer : Ranks \cup {AnyRank}, tag : Nat, contract : STRING]
Keys == [op : Ops, seq : Nat, thread : Threads]

(* The lock of a link is held across steps by the thread that is about to   *)
(* enqueue its request on the link.                                         *)
LockHeld ==
  \A l \in Links : \A t \in Threads :
    lock[l] = t <=> pc[t] = "checked" /\ LinkOf(t) = l

(* What is pending belongs to threads that wait for it without a reply.     *)
PendingOwned ==
  \A l \in Links : \A key \in pending[l] :
    /\ pc[key.thread] = "waiting" /\ reply[key.thread] = NoReply
    /\ LinkOf(key.thread) = l /\ key = Key(key.thread)

TypeOK ==
  /\ pc \in [Threads -> {"idle", "checked", "waiting", "expired"}]
  /\ call \in [Threads -> Frames \cup {NoCall}]
  /\ calls \in [Threads -> 0 .. MaxCalls]
  /\ DOMAIN reply = Threads
  /\ \A t \in Threads :
       /\ call[t] = NoCall <=> pc[t] = "idle"
       /\ call[t] # NoCall => call[t].source = RankOf[t]
       /\ reply[t] # NoReply => pc[t] = "waiting"
  /\ lock \in [Links -> Threads \cup {Nobody}]
  /\ next \in [Links -> [Ops -> Nat]]
  /\ pending \in [Links -> SUBSET Keys]
  /\ up \in [Links -> Seq(Frames \cup {Eof, Leave, Abort})]
  /\ sends \in [Rails -> Seq(Frames)] /\ receives \in [Rails -> Seq(Frames)]
  /\ LockHeld
  /\ PendingOwned

(* What can be matched is matched: no queued send fits a queued receive.    *)
NothingLeftToMatch ==
  \A k \in Rails : \A i \in DOMAIN sends[k], j \in DOMAIN receives[k] :
    ~Matches(sends[k][i], receives[k][j])

(* Messages do not overtake each other: of two sends of a rank to the same  *)
(* rank with the same tag the one submitted first is matched first, and so  *)
(* are two receives that ask for the same thing.                            *)
NoOvertaking ==
  \A k \in Rails : \A i, j \in DOMAIN matched[k] :
    LET a == matched[k][i]
        b == matched[k][j]
    IN i < j =>
         /\ a[1].source = b[1].source /\ a[1].peer = b[1].peer /\ a[1].tag = b[1].tag
              => a[1].seq < b[1].seq
         /\ a[2].source = b[2].source /\ a[2].peer = b[2].peer /\ a[2].tag = b[2].tag
              => a[2].seq < b[2].seq

(* A thread is handed the response to its own request, and a receive only a *)
(* message that was sent to it, with its tag and its contract.              *)
OwnReply ==
  \A t \in Threads :
    pc[t] = "waiting" /\ reply[t].kind = "data" =>
      /\ reply[t].op = call[t].op
      /\ call[t].op = "Receive" =>
           /\ Matches(reply[t].from, call[t])
           /\ reply[t].from.contract = call[t].contract

(* A request may become pending after the reader thread has failed all      *)
(* pending ones and ended; it then waits for its timeout.  The submission   *)
(* lock keeps this to one request per link.                                 *)
AtMostOneStranded ==
  \A l \in Links : ~reader[l] => Cardinality(pending[l]) <= 1

Stranded(t) == pc[t] = "waiting" /\ reply[t] = NoReply /\ ~reader[LinkOf(t)]

(* An abort interrupts the requests that are pending on every rail, except  *)
(* one that is stranded.                                                    *)
AbortInterrupts ==
  \A t \in Threads : \A r \in Ranks :
    (pc[t] = "waiting" /\ aborted[<<r, 0>>] /\ status[r] = "in")
      ~> (pc[t] # "waiting" \/ Stranded(t) \/ status[r] # "in")

-----------------------------------------------------------------------------
(* The inductive invariants behind NoOvertaking and OwnReply.               *)

(* The sends, or the receives, of a rail that are queued, and those that    *)
(* were matched.                                                            *)
Queue(op, k) == IF op = "Send" THEN sends[k] ELSE IF op = "Receive" THEN receives[k] ELSE <<>>
Done(op, k) ==
  IF op \in {"Send", "Receive"}
  THEN [i \in DOMAIN matched[k] |-> matched[k][i][IF op = "Send" THEN 1 ELSE 2]] ELSE <<>>
Routed(op, k) == Range(Queue(op, k)) \cup Range(Done(op, k))

(* The messages of a stream, without LEAVE, ABORT and its end, and the      *)
(* requests on their way to the router.                                     *)
Messages(s) == {f \in Range(s) : f.op \in Ops}
RequestsOn(l) == Messages(up[l])

(* A request has a number of its link that was given out, and keeps it.     *)
Numbered ==
  /\ matched \in [Rails -> Seq(Frames \X Frames)]
  /\ \A l \in Links : \A f \in RequestsOn(l) :
       f.source = l[1] /\ f.rail = l[2] /\ f.seq < next[l][f.op]
  /\ \A op \in Ops : \A k \in Rails : \A f \in Routed(op, k) :
       f.op = op /\ f.rail = k /\ f.seq < next[<<f.source, k>>][op]
  /\ \A t \in Threads : pc[t] # "idle" => call[t].seq < next[LinkOf(t)][call[t].op]

(* The requests of a link reach the router in the order of their numbers.   *)
Newer(l, op, n) == \A f \in Routed(op, l[2]) : f.source = l[1] => f.seq < n
Flows(s) ==
  \A i, j \in DOMAIN s : i < j /\ s[i].op = s[j].op /\ s[i].op \in Ops => s[i].seq < s[j].seq

Pipelined ==
  /\ \A l \in Links : Flows(up[l])
  /\ \A l \in Links : \A f \in RequestsOn(l) : Newer(l, f.op, f.seq)
  /\ \A t \in Threads : pc[t] = "checked" =>
       /\ Newer(LinkOf(t), call[t].op, call[t].seq)
       /\ \A f \in RequestsOn(LinkOf(t)) : f.op = call[t].op => f.seq < call[t].seq

(* Requests that ask for the same thing are queued and matched in order.    *)
Kin(a, b) == a.source = b.source /\ a.peer = b.peer /\ a.tag = b.tag
InOrder(p) == \A i, j \in DOMAIN p : i < j /\ Kin(p[i], p[j]) => p[i].seq < p[j].seq
Before(p, q) == \A i \in DOMAIN p, j \in DOMAIN q : Kin(p[i], q[j]) => p[i].seq < q[j].seq
Turn(p, q) == InOrder(p) /\ InOrder(q) /\ Before(p, q)
InTurn(op, k) == Turn(Done(op, k), Queue(op, k))

OrderInv ==
  /\ TypeOK /\ NothingLeftToMatch
  /\ Numbered /\ Pipelined
  /\ \A op \in Ops : \A k \in Rails : InTurn(op, k)

(* A request that has the number of a call is that call ...                 *)
SameRequest(t, f) == f.op = call[t].op /\ f.seq = call[t].seq
CallsKnown ==
  \A t \in Threads : pc[t] # "idle" =>
    /\ \A u \in Threads : pc[u] # "idle" /\ LinkOf(u) = LinkOf(t) /\ SameRequest(t, call[u])
                            => u = t
    /\ \A f \in RequestsOn(LinkOf(t)) : SameRequest(t, f) => f = call[t]
    /\ \A f \in Range(receives[call[t].rail]) :
         f.source = RankOf[t] /\ SameRequest(t, f) => f = call[t]

(* ... and a response with its number brings what the call asked for.       *)
Fits(from, c) == c.op = "Receive" => Matches(from, c) /\ from.contract = c.contract
RepliesOn(l) == Messages(down[l])
Responses == [op : Ops, seq : Nat, from : Frames \cup {NoCall}]
Replies == Seq(Responses \cup {Abort, Eof})
RepliesFit ==
  /\ down \in [Links -> Replies]
  /\ \A l \in Links : \A m \in RepliesOn(l) :
       /\ m.seq < next[l][m.op]
       /\ \A t \in Threads : pc[t] # "idle" /\ LinkOf(t) = l /\ SameRequest(t, m)
                               => Fits(m.from, call[t])

ReplyInv == OrderInv /\ CallsKnown /\ RepliesFit /\ OwnReply
=============================================================================
