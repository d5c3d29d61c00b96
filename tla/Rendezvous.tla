----------------------------- MODULE Rendezvous -----------------------------
(***************************************************************************)
(* The ordered collective channel of the rank core (src/rank/network.rs):  *)
(* every rank writes a request and blocks until its response arrives; the  *)
(* coordinator collects one request of each rank, checks that they agree,  *)
(* answers all of them and starts the next round.  It stops the session    *)
(* when a rank is lost, late or disagrees, and when the point-to-point     *)
(* router has published a failure.                                         *)
(*                                                                         *)
(* The reader threads put the frames of all ranks into one queue.  A       *)
(* thread may lag behind, so the order of that queue is any order that     *)
(* keeps the frames of a rank in sequence, and the coordinator is modelled *)
(* as taking the next frame of any rank.                                   *)
(***************************************************************************)
EXTENDS Routing

CONSTANTS
  Requests(_, _),   \* Requests(r, n): what rank r may submit in its n-th call
  MaxCalls,         \* bound on the calls of a rank
  MaxTimeouts,      \* bound on the reads that time out
  MaxLosses,        \* bound on the sessions that are dropped
  Aborts,           \* whether the point-to-point router may publish a failure
  Retry             \* whether a rank calls again after an error

ASSUME RendezvousAssumption ==
  /\ MaxCalls \in Nat /\ MaxTimeouts \in Nat /\ MaxLosses \in Nat
  /\ Aborts \in BOOLEAN /\ Retry \in BOOLEAN

VARIABLES
  session,          \* session[r]: "idle", "waiting", "failed" or "closed"
  next_sequence,    \* next_sequence[r]: TcpSessionInner::next_sequence
  made,             \* made[r]: the frames r has submitted, in order
  up,               \* up[r]: what the coordinator has not read from r
  down,             \* down[r]: what r has not read from the coordinator
  server,           \* "check", "receive", "answer" or "stopped"
  result,           \* of the loop: "running", "ok", "error", "write_error"
  requests,         \* requests[r]: frame of r in this round, or NoFrame
  written,          \* ranks that were answered in this round
  agreed,           \* CollectiveAgreement::next_sequence
  active_sequence,
  server_failure,   \* the router has published a failure
  timeouts,         \* reads that timed out so far
  returned          \* the exchanges that returned Ok (history)

client == <<session, next_sequence, made, timeouts, returned>>
loop == <<server, result, requests, written, agreed, active_sequence>>
vars == <<client, loop, up, down, server_failure>>

NoFrame == [kind |-> "none"]
Eof == [kind |-> "eof"]
Reset == [kind |-> "reset"]
Torn == [kind |-> "torn"]     \* a frame of which a part was read and lost

(* A request on the wire.  `call' is its place among the calls of the rank; *)
(* it tells requests apart and is not transmitted.                          *)
Frame(r, request) ==
  [kind |-> "frame", seq |-> next_sequence[r], call |-> Len(made[r]) + 1, req |-> request]

AbortFrame(sequence) == [kind |-> "abort", seq |-> sequence]

(* A response is known by the calls it was computed from; module Routing    *)
(* defines the payload.                                                     *)
ResponseFrame ==
  [kind |-> "response", seq |-> active_sequence, op |-> requests[0].req.op,
   of |-> [r \in Ranks |-> requests[r].call]]

Init ==
  /\ session = [r \in Ranks |-> "idle"]
  /\ next_sequence = [r \in Ranks |-> 0]
  /\ made = [r \in Ranks |-> <<>>]
  /\ up = [r \in Ranks |-> <<>>]
  /\ down = [r \in Ranks |-> <<>>]
  /\ server = "check"
  /\ result = "running"
  /\ requests = [r \in Ranks |-> NoFrame]
  /\ written = {}
  /\ agreed = 0
  /\ active_sequence = 0
  /\ server_failure = FALSE
  /\ timeouts = 0
  /\ returned = {}

-----------------------------------------------------------------------------
(* The ranks: exchange_with_options, barrier and set_timeout.               *)

(* After the coordinator has shut the streams down the frame is lost, and   *)
(* the write may report it.                                                 *)
Submit(r) ==
  /\ session[r] = "idle"
  /\ Len(made[r]) < MaxCalls
  /\ \E request \in Requests(r, Len(made[r]) + 1) :
       LET frame == Frame(r, request) IN
       /\ made' = [made EXCEPT ![r] = Append(@, frame)]
       /\ IF server = "stopped"
          THEN /\ up' = up
               /\ \/ session' = [session EXCEPT ![r] = "waiting"]
                  \/ session' = [session EXCEPT ![r] = IF Retry THEN "idle" ELSE "failed"]
          ELSE /\ up' = [up EXCEPT ![r] = Append(@, frame)]
               /\ session' = [session EXCEPT ![r] = "waiting"]
  /\ UNCHANGED <<next_sequence, timeouts, returned, loop, down, server_failure>>

(* The call returns an error.  The session is not marked: only the caller   *)
(* knows, and may call again.                                               *)
Fails(r) == session' = [session EXCEPT ![r] = IF Retry THEN "idle" ELSE "failed"]

LastCall(r) == made[r][Len(made[r])]

(* set_timeout checks the opcode before it counts the response, barrier     *)
(* after, and an exchange does not check it.                                *)
Counted(r, m) == LastCall(r).req.op = "SetTimeout" => m.op = "SetTimeout"
IsOk(r, m) == LastCall(r).req.op \in Control => m.op = LastCall(r).req.op

(* validate_response, then the checks of the caller.                        *)
ReadResponse(r) ==
  /\ session[r] = "waiting"
  /\ down[r] # <<>>
  /\ Head(down[r]).kind = "response"
  /\ down' = [down EXCEPT ![r] = Tail(@)]
  /\ LET m == Head(down[r])
         counted == m.seq = next_sequence[r] /\ Counted(r, m)
     IN /\ next_sequence' = [next_sequence EXCEPT ![r] = IF counted THEN @ + 1 ELSE @]
        /\ IF counted /\ IsOk(r, m)
           THEN /\ session' = [session EXCEPT ![r] = "idle"]
                /\ returned' = returned \cup
                     {[rank |-> r, call |-> Len(made[r]), seq |-> m.seq, of |-> m.of]}
           ELSE Fails(r) /\ UNCHANGED returned
  /\ UNCHANGED <<made, timeouts, loop, up, server_failure>>

ReadAbort(r) ==
  /\ session[r] = "waiting"
  /\ down[r] # <<>>
  /\ Head(down[r]).kind = "abort"
  /\ down' = [down EXCEPT ![r] = Tail(@)]
  /\ Fails(r)
  /\ UNCHANGED <<next_sequence, made, timeouts, returned, loop, up, server_failure>>

(* The stream has ended, or what follows is no frame any more.              *)
ReadError(r) ==
  /\ session[r] = "waiting"
  /\ down[r] # <<>>
  /\ Head(down[r]) \in {Eof, Torn}
  /\ Fails(r)
  /\ UNCHANGED <<next_sequence, made, timeouts, returned, loop, up, down, server_failure>>

(* The read times out, before the next frame or in the middle of it.        *)
ReadTimesOut(r) ==
  /\ session[r] = "waiting"
  /\ timeouts < MaxTimeouts
  /\ timeouts' = timeouts + 1
  /\ \/ down[r] = <<>> /\ down' = down
     \/ /\ down[r] # <<>>
        /\ Head(down[r]).kind \in {"response", "abort"}
        /\ down' = [down EXCEPT ![r] = <<Torn>> \o Tail(@)]
  /\ Fails(r)
  /\ UNCHANGED <<next_sequence, made, returned, loop, up, server_failure>>

(* The session is dropped, or its process dies.  The coordinator sees the   *)
(* end of the stream, or an error if data was left unread.                  *)
Close(r) ==
  /\ session[r] # "closed"
  /\ Cardinality({q \in Ranks : session[q] = "closed"}) < MaxLosses
  /\ session' = [session EXCEPT ![r] = "closed"]
  /\ \E last \in {Eof, Reset} : up' = [up EXCEPT ![r] = Append(@, last)]
  /\ down' = [down EXCEPT ![r] = <<>>]
  /\ UNCHANGED <<next_sequence, made, timeouts, returned, loop, server_failure>>

-----------------------------------------------------------------------------
(* The coordinator: run_collective_loop.                                    *)

Written(r, messages) == IF session[r] = "closed" THEN down[r] ELSE down[r] \o messages

(* Mutant: the abort names the sequence the agreement has reached.          *)
StopAtAgreed(outcome) ==
  /\ server' = "stopped"
  /\ result' = outcome
  /\ down' = [r \in Ranks |->
       Written(r, IF outcome = "ok" THEN <<Eof>> ELSE <<AbortFrame(agreed'), Eof>>)]
  /\ UNCHANGED <<requests, written, active_sequence, up, server_failure, client>>

(* Mutant: the streams are not shut down.                                   *)
StopWithoutShutdown(outcome) ==
  /\ server' = "stopped"
  /\ result' = outcome
  /\ down' = [r \in Ranks |->
       Written(r, IF outcome = "ok" THEN <<>> ELSE <<AbortFrame(active_sequence)>>)]
  /\ UNCHANGED <<requests, written, active_sequence, up, server_failure, client>>

(* The loop ends: an error is broadcast, then the streams are shut down.    *)
Stop(outcome) ==
  /\ server' = "stopped"
  /\ result' = outcome
  /\ down' = [r \in Ranks |->
       Written(r, IF outcome = "ok" THEN <<Eof>> ELSE <<AbortFrame(active_sequence), Eof>>)]
  /\ UNCHANGED <<requests, written, active_sequence, up, server_failure, client>>

Missing == {r \in Ranks : requests[r] = NoFrame}

(* Mutant: a published failure is not looked at.                            *)
CheckIgnoresFailure ==
  /\ server = "check"
  /\ Missing # {}
  /\ server' = "receive"
  /\ UNCHANGED <<agreed, result, requests, written, active_sequence, client, up, down, server_failure>>

(* The head of an iteration: a published failure ends the session.          *)
Check ==
  /\ server = "check"
  /\ Missing # {}
  /\ UNCHANGED agreed
  /\ \/ server_failure /\ Stop("error")
     \/ /\ ~server_failure
        /\ server' = "receive"
        /\ UNCHANGED <<result, requests, written, active_sequence, client, up, down, server_failure>>

(* The deadline of the round has passed.                                    *)
Deadline ==
  /\ server = "check"
  /\ Missing # {}
  /\ ~server_failure
  /\ UNCHANGED agreed
  /\ Stop("error")

(* Nothing arrived within the poll interval.                                *)
Poll ==
  /\ server = "receive"
  /\ server' = "check"
  /\ UNCHANGED <<result, requests, written, agreed, active_sequence, client, up, down, server_failure>>

Collect(r) ==
  /\ server = "receive"
  /\ up[r] # <<>>
  /\ Head(up[r]).kind = "frame"
  /\ UNCHANGED agreed
  /\ IF requests[r] = NoFrame
     THEN /\ requests' = [requests EXCEPT ![r] = Head(up[r])]
          /\ server' = "check"
          /\ up' = [up EXCEPT ![r] = Tail(@)]
          /\ UNCHANGED <<result, down, written, active_sequence, client, server_failure>>
     ELSE Stop("error")

(* Between rounds a rank may leave, and the session ends without an error.  *)
RankLost(r) ==
  /\ server = "receive"
  /\ up[r] # <<>>
  /\ Head(up[r]) \in {Eof, Reset}
  /\ UNCHANGED agreed
  /\ Stop(IF Head(up[r]) = Eof /\ Missing = Ranks THEN "ok" ELSE "error")

(* The submitted requests, as module Routing takes them.                    *)
Round == [r \in Ranks |-> requests[r].req]

Route ==
  /\ server = "check"
  /\ Missing = {}
  /\ agreed' = IF AgreeAll(Round) THEN agreed + 1 ELSE agreed
  /\ IF Accepted(Round)
     THEN /\ server' = "answer"
          /\ UNCHANGED <<result, requests, written, active_sequence, client, up, down, server_failure>>
     ELSE Stop("error")

(* Mutant: the request of the last rank stays for the next round.           *)
NextRoundKeepsLast ==
  [r \in Ranks |-> IF r = WorldSize - 1 THEN requests[r] ELSE NoFrame]

(* Mutant: the slot of the last rank is not created again.                  *)
NextRoundOneShort == [r \in 0 .. WorldSize - 2 |-> NoFrame]

NextRound == [r \in Ranks |-> NoFrame]

(* The responses are written one after the other, in the order of the       *)
(* ranks.  A write to a rank that is gone may fail or be lost.              *)
Answer(r) ==
  /\ server = "answer"
  /\ r = Cardinality(written)
  /\ UNCHANGED agreed
  /\ \/ /\ down' = [down EXCEPT ![r] = Written(r, <<ResponseFrame>>)]
        /\ IF r = WorldSize - 1
           THEN /\ server' = "check"
                /\ requests' = NextRound
                /\ written' = {}
                /\ active_sequence' = agreed
           ELSE /\ written' = written \cup {r}
                /\ UNCHANGED <<server, requests, active_sequence>>
        /\ UNCHANGED <<result, client, up, server_failure>>
     \/ session[r] = "closed" /\ Stop("write_error")

(* publish_server_failure, called by the point-to-point router.             *)
PublishFailure ==
  /\ Aborts
  /\ ~server_failure
  /\ server_failure' = TRUE
  /\ UNCHANGED <<client, loop, up, down>>

-----------------------------------------------------------------------------
RankStep(r) ==
  \/ Submit(r) \/ ReadResponse(r) \/ ReadAbort(r) \/ ReadError(r)
  \/ ReadTimesOut(r) \/ Close(r)

ServerStep ==
  \/ Check \/ Deadline \/ Poll \/ Route
  \/ \E r \in Ranks : Collect(r) \/ RankLost(r) \/ Answer(r)

Next == ServerStep \/ PublishFailure \/ \E r \in Ranks : RankStep(r)

Spec == Init /\ [][Next]_vars

(* The coordinator runs and takes the events of its queue in turn, and a    *)
(* rank reads what arrives.                                                 *)
Fairness ==
  /\ WF_vars(Check) /\ WF_vars(Poll) /\ WF_vars(Route)
  /\ \A r \in Ranks : /\ SF_vars(Collect(r) \/ RankLost(r))
                      /\ WF_vars(Answer(r))
                      /\ WF_vars(ReadResponse(r) \/ ReadAbort(r) \/ ReadError(r))

FairSpec == Spec /\ Fairness

-----------------------------------------------------------------------------
Calls == 1 .. MaxCalls
Frames ==
  [kind : {"frame"}, seq : Nat, call : Calls,
   req : UNION {Requests(r, n) : r \in Ranks, n \in Calls}]
Messages ==
       [kind : {"response"}, seq : Nat, op : Opcodes, of : [Ranks -> Calls]]
  \cup [kind : {"abort"}, seq : Nat]
  \cup {Eof, Torn}

TypeOK ==
  /\ session \in [Ranks -> {"idle", "waiting", "failed", "closed"}]
  /\ next_sequence \in [Ranks -> Nat]
  /\ made \in [Ranks -> Seq(Frames)]
  /\ up \in [Ranks -> Seq(Frames \cup {Eof, Reset})]
  /\ down \in [Ranks -> Seq(Messages)]
  /\ server \in {"check", "receive", "answer", "stopped"}
  /\ result \in {"running", "ok", "error", "write_error"}
  /\ requests \in [Ranks -> Frames \cup {NoFrame}]
  /\ written \subseteq Ranks
  /\ agreed \in Nat /\ active_sequence \in Nat
  /\ server_failure \in BOOLEAN
  /\ timeouts \in Nat
  /\ returned \subseteq [rank : Ranks, call : Calls, seq : Nat, of : [Ranks -> Calls]]

(* What a rank is given for a call was computed from that call: a response  *)
(* is never taken for the response to an earlier or a later exchange.       *)
OwnResponse == \A x \in returned : x.of[x.rank] = x.call

(* Whatever round the coordinator accepts, every rank receives exactly the  *)
(* elements meant for it, each once, in the order of their senders and      *)
(* positions, in a frame that is valid: the slices, offsets and counts      *)
(* computed by validate_and_route and route_all_to_all_v are those of the   *)
(* collective.  Routing reads no variable: it is enough to look at it in    *)
(* the initial state.                                                       *)
RoutesAsDefined ==
  Init => \A round \in Rounds : Accepted(round) =>
    \A outcome \in {Responses(round)} :
      /\ \A d \in Ranks : /\ Lists(outcome[d].payload, MeantFor(round, d))
                          /\ ResponseValid(outcome[d])
      /\ round[0].op = "AllToAllV" => SecondExchangeReturns(round, outcome)

(* The fields that must be equal; an all-to-all-v has counts of its own.    *)
SameOperation(a, b) ==
  /\ a.op = b.op /\ a.elt = b.elt /\ a.root = b.root
  /\ a.op # "AllToAllV" => a.count = b.count /\ a.tag = b.tag

(* An operation becomes ready only when every rank submitted the same       *)
(* descriptor for the same sequence (CollectiveAgreement, protocol.rs).     *)
ReadyMeansSame ==
  \A x \in returned : \A r \in Ranks :
    LET frame == made[r][x.of[r]] IN
    /\ frame.seq = x.seq
    /\ SameOperation(frame.req, made[x.rank][x.call].req)

(* The ranks advance together: nobody is more than one collective ahead.    *)
Lockstep ==
  \A r, q \in Ranks : next_sequence[r] <= next_sequence[q] + 1

(* An abort that a waiting rank reads names the collective it waits for, so *)
(* that validate_response lets the reason through.  The exception is an     *)
(* abort after some ranks were answered and the write to another failed.    *)
AbortNamesRound ==
  \A r \in Ranks :
    session[r] = "waiting" /\ down[r] # <<>> /\ Head(down[r]).kind = "abort"
      => Head(down[r]).seq = next_sequence[r] \/ result = "write_error"

(* A rank that waits in a collective is interrupted when a rank has aborted *)
(* the session over the point-to-point channel or has left it.              *)
FaultReleasesWaiters ==
  \A r \in Ranks :
    (session[r] = "waiting" /\ (server_failure \/ \E q \in Ranks : session[q] = "closed"))
      ~> session[r] # "waiting"

(* A round that stays open reaches its deadline, which then stays passed;   *)
(* a rank is released whatever the others do: they may never call, or call  *)
(* something else.                                                          *)
DeadlineReleasesWaiters ==
  SF_vars(Deadline) => \A r \in Ranks : session[r] = "waiting" ~> session[r] # "waiting"

-----------------------------------------------------------------------------
(* The inductive invariant of a session whose ranks stop calling after an   *)
(* error.                                                                   *)

(* How many calls of a rank the coordinator has taken and has answered.     *)
Taken(r) == active_sequence + (IF requests[r] = NoFrame THEN 0 ELSE 1)
Answered(r) == active_sequence + (IF r \in written THEN 1 ELSE 0)

Live(r) == session[r] \in {"idle", "waiting"}

(* The calls of a rank carry the sequences 0, 1, ..., and one may be open.  *)
CallsNumbered ==
  \A r \in Ranks :
    /\ \A i \in DOMAIN made[r] : made[r][i].seq = i - 1 /\ made[r][i].call = i
    /\ next_sequence[r] <= Len(made[r]) /\ Len(made[r]) <= next_sequence[r] + 1
    /\ session[r] = "idle" => Len(made[r]) = next_sequence[r]
    /\ session[r] = "waiting" => Len(made[r]) = next_sequence[r] + 1

(* A collected request is the call of its rank for the active sequence, and *)
(* the frames that are not read yet are the calls that follow.              *)
Collected ==
  \A r \in Ranks : requests[r] # NoFrame =>
    active_sequence < Len(made[r]) /\ requests[r] = made[r][active_sequence + 1]

Delivered ==
  server # "stopped" => \A r \in Ranks :
    /\ active_sequence <= Len(made[r])
    /\ \A i \in DOMAIN up[r] : up[r][i].kind = "frame" =>
         Taken(r) + i <= Len(made[r]) /\ up[r][i] = made[r][Taken(r) + i]
    /\ session[r] # "closed" => Taken(r) + Len(up[r]) = Len(made[r])

(* A response for sequence s was computed from the calls of all ranks for   *)
(* s, and they agree.                                                       *)
ComputedFrom(of, s) ==
  \A q \in Ranks :
    /\ of[q] = s + 1 /\ s < Len(made[q])
    /\ OperationDescriptor(made[q][s + 1].req) = OperationDescriptor(made[0][s + 1].req)

AnswersAgree ==
  /\ \A r \in Ranks : \A i \in DOMAIN down[r] :
       down[r][i].kind = "response" => ComputedFrom(down[r][i].of, down[r][i].seq)
  /\ \A x \in returned : x.call = x.seq + 1 /\ ComputedFrom(x.of, x.seq)

(* The phases of a round.                                                   *)
Phases ==
  /\ server # "stopped" => result = "running"
  /\ server \in {"check", "receive"} => agreed = active_sequence /\ written = {}
  /\ server = "answer" => /\ agreed = active_sequence + 1
                          /\ Missing = {} /\ Accepted(Round)
                          /\ \E n \in 0 .. WorldSize - 1 : written = 0 .. n - 1

(* A rank is sent one response for each sequence, and an abort for the one  *)
(* that follows.                                                            *)
Streams ==
  \A r \in Ranks : Live(r) =>
    /\ server # "stopped" => next_sequence[r] + Len(down[r]) = Answered(r)
    /\ \A j \in DOMAIN down[r] : down[r][j].kind = "abort" =>
         down[r][j].seq = next_sequence[r] + j - 1 \/ result = "write_error"

(* Nobody has passed a collective that another rank has not called.         *)
Together == \A r, q \in Ranks : next_sequence[r] <= Len(made[q])

RoundInv ==
  /\ TypeOK /\ CallsNumbered /\ Collected /\ Delivered
  /\ AnswersAgree /\ Phases /\ Streams /\ Together
=============================================================================
