------------------------------ MODULE PeerMesh ------------------------------
(***************************************************************************)
(* The direct peer mesh (src/rank/peer.rs): between every two ranks one    *)
(* TCP connection per rail, opened by the higher rank; on each side of a   *)
(* connection a reader thread and a lock for writing, the submission.      *)
(* A send writes its frame under the lock and waits for the reader of the  *)
(* peer to acknowledge it; that reader queues the frame in the inbox and   *)
(* needs the lock of its own side to write the acknowledgement.            *)
(*                                                                         *)
(* A link <<r, p, rail>> is the direction from r to p of a connection and, *)
(* as an index, r's side of it.  A socket holds at most Room frames.       *)
(***************************************************************************)
EXTENDS Integers, Sequences, FiniteSets, SequencesExt

CONSTANTS
  Cases,  \* the programs to run: records [ready, world, rails, threads, script, faults]
  Room    \* frames that fit into the socket buffers of one direction

ASSUME RoomAssumption == Room \in Nat \ {0}

(* The programs: a rank sends to others, and to itself with `self'.         *)
ASSUME CasesAssumption ==
  \A c \in Cases :
    /\ c.ready \in BOOLEAN /\ c.world \in Nat \ {0} /\ c.rails \in Nat \ {0}
    /\ c.threads \in Nat /\ c.faults \in Nat
    /\ \A x \in (0 .. c.world - 1) \X (1 .. c.threads) :
         /\ c.script[x] \in Seq(Range(c.script[x]))
         /\ \A e \in Range(c.script[x]) :
              e.do = "send" => e.peer \in (0 .. c.world - 1) \ {x[1]}

VARIABLES
  run,      \* the program that runs
  life,     \* rank -> setup, open, leaving, gone
  dialed,   \* rank -> links it has opened, in order
  backlog,  \* rank -> joins that wait for its accept
  conns,    \* sides of connections that are open
  wire,     \* link -> frames in flight
  shut,     \* sides that were shut down
  lock,     \* sides whose submission is locked
  next,     \* side -> next sequence number
  reader,   \* side -> [at, sequence] of its reader
  inbox,    \* rank -> queued frames
  pending,  \* rank -> sends that wait for an acknowledgement
  failure,  \* the ranks with a failure set
  call,     \* <<rank, thread>> -> the call in progress
  todo,     \* <<rank, thread>> -> calls left
  got,      \* <<rank, thread>> -> the frames its receives took
  faults    \* things that went wrong so far

vars == <<run, life, dialed, backlog, conns, wire, shut, lock, next, reader, inbox,
          pending, failure, call, todo, got, faults>>
setup == <<life, dialed, backlog, conns>>
sockets == <<wire, shut, lock, next, reader>>

Ranks == 0 .. run.world - 1
Rails == 0 .. run.rails - 1
Threads == Ranks \X (1 .. run.threads)
Links == {l \in Ranks \X Ranks \X Rails : l[1] # l[2]}
Reverse3(l) == <<l[2], l[1], l[3]>>
Idle == [at |-> "idle"]

(* Mutant: the channels share one rail.                                     *)
SharedRail(t) == 0

(* The rail of a thread: one thread of a rank for each rail.                *)
RailFor(t) == (t - 1) % run.rails

(* Before setup, or (ready) right after it.                                 *)
Init ==
  /\ run \in Cases
  /\ life = [r \in Ranks |-> IF run.ready THEN "open" ELSE "setup"]
  /\ dialed = [r \in Ranks |-> IF run.ready THEN r * run.rails ELSE 0]
  /\ backlog = [r \in Ranks |-> {}]
  /\ conns = IF run.ready THEN Links ELSE {}
  /\ wire = [l \in Links |-> <<>>]
  /\ shut = {}
  /\ lock = {}
  /\ next = [l \in Links |-> 0]
  /\ reader = [l \in Links |-> [at |-> IF run.ready THEN "read" ELSE "none", sequence |-> 0]]
  /\ inbox = [r \in Ranks |-> <<>>]
  /\ pending = [r \in Ranks |-> {}]
  /\ failure = {}
  /\ call = [x \in Threads |-> Idle]
  /\ todo = [x \in Threads |-> run.script[x]]
  /\ got = [x \in Threads |-> <<>>]
  /\ faults = 0

-----------------------------------------------------------------------------
(* Setup.                                                                   *)

(* What rank r dials, one after the other: every rail of every lower rank.  *)
ToDial(r) == [i \in 1 .. r * run.rails |-> <<r, (i - 1) \div run.rails, (i - 1) % run.rails>>]

Dialing(r) == life[r] = "setup" /\ dialed[r] < Len(ToDial(r))

(* connect_peer: the listener is bound, so the connection goes to its       *)
(* backlog with the JOIN, and the rank waits for READY.                     *)
Dial(r) ==
  LET l == ToDial(r)[dialed[r] + 1] IN
  /\ Dialing(r) /\ l \notin backlog[l[2]] /\ l \notin conns
  /\ life[l[2]] # "gone"
  /\ backlog' = [backlog EXCEPT ![l[2]] = @ \cup {l}]
  /\ UNCHANGED <<run, life, dialed, conns, sockets, inbox, pending, failure, call, todo, got, faults>>

(* A rank that has dialed all it has to accepts, in any order, the joins of *)
(* higher ranks, each rail once, and answers READY.                         *)
Accept(r) ==
  /\ life[r] = "setup" /\ ~Dialing(r)
  /\ \E l \in backlog[r] :
       /\ l[1] > r /\ Reverse3(l) \notin conns
       /\ backlog' = [backlog EXCEPT ![r] = @ \ {l}]
       /\ conns' = conns \cup {Reverse3(l)}
       /\ UNCHANGED <<run, life, dialed, sockets, inbox, pending, failure, call, todo, got, faults>>

(* The READY arrives.                                                       *)
Ready(r) ==
  LET l == ToDial(r)[dialed[r] + 1] IN
  /\ Dialing(r) /\ Reverse3(l) \in conns
  /\ dialed' = [dialed EXCEPT ![r] = @ + 1]
  /\ conns' = conns \cup {l}
  /\ UNCHANGED <<run, life, backlog, sockets, inbox, pending, failure, call, todo, got, faults>>

Sides(r) == {l \in Links : l[1] = r}

(* All connections are there: the readers start.                            *)
Open(r) ==
  /\ life[r] = "setup" /\ ~Dialing(r) /\ Sides(r) \subseteq conns
  /\ life' = [life EXCEPT ![r] = "open"]
  /\ reader' = [l \in Links |-> IF l[1] = r THEN [at |-> "read", sequence |-> 0] ELSE reader[l]]
  /\ UNCHANGED <<run, dialed, backlog, conns, wire, shut, lock, next, inbox, pending, failure,
                 call, todo, got, faults>>

Trouble == faults > 0

(* The process of r ends, or its session is gone: its sockets are closed and *)
(* its threads, queues and tables with them.                                *)
Gone(r) ==
  LET mine == {l \in Links : l[1] = r} IN
  /\ life' = [life EXCEPT ![r] = "gone"]
  /\ shut' = shut \cup mine
  /\ lock' = lock \ mine
  /\ reader' = [l \in Links |-> IF l \in mine THEN [at |-> "none", sequence |-> 0] ELSE reader[l]]
  /\ wire' = [l \in Links |-> IF Reverse3(l) \in mine THEN <<>> ELSE wire[l]]
  /\ inbox' = [inbox EXCEPT ![r] = <<>>]
  /\ pending' = [pending EXCEPT ![r] = {}]
  /\ call' = [x \in Threads |-> IF x[1] = r THEN Idle ELSE call[x]]
  /\ todo' = [x \in Threads |-> IF x[1] = r THEN <<>> ELSE todo[x]]
  /\ UNCHANGED <<run, dialed, backlog, conns, next, failure, got>>

(* A setup that does not get its connections gives up at its deadline, and  *)
(* its sockets are closed.                                                  *)
SetupFails(r) ==
  /\ life[r] = "setup"
  /\ Trouble
  /\ Gone(r)
  /\ UNCHANGED faults

-----------------------------------------------------------------------------
(* Sending.                                                                 *)

(* Mutant: the sends that wait stay in the table.                           *)
SetPeerFailureKeeps(r) == failure' = failure \cup {r} /\ UNCHANGED pending

(* set_peer_failure: the failure is set and the waiting sends are drained.  *)
SetPeerFailure(r) ==
  /\ failure' = failure \cup {r}
  /\ pending' = [pending EXCEPT ![r] = {}]

Closed(l) == Reverse3(l) \in shut \/ l \in shut

(* Mutant: a socket takes whatever is written.                              *)
HasRoomAlways(l) == TRUE

HasRoom(l) == Len(wire[l]) < Room
Put(l, frame) == wire' = [wire EXCEPT ![l] = Append(@, frame)]

Live(x) == life[x[1]] = "open"
Begins(x, do) ==
  /\ Live(x)
  /\ call[x] = Idle
  /\ todo[x] # <<>> /\ Head(todo[x]).do = do

LinkOf(x) == <<x[1], Head(todo[x]).peer, RailFor(x[2])>>

(* A call that fails makes the session abort the mesh before it returns.    *)
Fails(x) == call' = [call EXCEPT ![x] = [at |-> "abort", left |-> Sides(x[1])]]

Returns(x) ==
  /\ call' = [call EXCEPT ![x] = Idle]
  /\ todo' = [todo EXCEPT ![x] = Tail(@)]

(* send_on_rail up to the lock: the failure is looked at once.              *)
StartSend(x) ==
  /\ Begins(x, "send")
  /\ IF x[1] \in failure THEN Fails(x)
     ELSE call' = [call EXCEPT ![x] = [at |-> "lock", link |-> LinkOf(x)]]
  /\ UNCHANGED <<run, setup, sockets, inbox, pending, failure, todo, got, faults>>

(* A send to the rank itself goes straight to its inbox.                    *)
SendToSelf(x) ==
  /\ Begins(x, "self")
  /\ IF x[1] \in failure THEN Fails(x) /\ UNCHANGED <<todo, inbox>>
     ELSE /\ inbox' = [inbox EXCEPT ![x[1]] =
                         Append(@, [from |-> x[1], rail |-> RailFor(x[2]),
                                    tag |-> Head(todo[x]).tag, body |-> Head(todo[x]).body])]
          /\ Returns(x)
  /\ UNCHANGED <<run, setup, sockets, pending, failure, got, faults>>

LockSend(x) ==
  LET l == call[x].link IN
  /\ call[x].at = "lock" /\ l \notin lock
  /\ lock' = lock \cup {l}
  /\ next' = [next EXCEPT ![l] = @ + 1]
  /\ pending' = [pending EXCEPT ![x[1]] = @ \cup {<<l, next[l]>>}]
  /\ call' = [call EXCEPT ![x] = [at |-> "write", link |-> l, sequence |-> next[l]]]
  /\ UNCHANGED <<run, setup, wire, shut, reader, inbox, failure, todo, got, faults>>

WriteSend(x) ==
  LET l == call[x].link IN
  /\ call[x].at = "write" /\ l \notin shut /\ HasRoom(l)
  /\ Put(l, [op |-> "send", sequence |-> call[x].sequence, tag |-> Head(todo[x]).tag,
             body |-> Head(todo[x]).body])
  /\ lock' = lock \ {l}
  /\ call' = [call EXCEPT ![x].at = "wait"]
  /\ UNCHANGED <<run, setup, shut, next, reader, inbox, pending, failure, todo, got, faults>>

(* The socket is closed, or stays full until the write times out.           *)
WriteSendFails(x) ==
  LET l == call[x].link IN
  /\ call[x].at = "write"
  /\ Closed(l) \/ (~HasRoom(l) /\ Trouble)
  /\ SetPeerFailure(x[1])
  /\ lock' = lock \ {l}
  /\ Fails(x)
  /\ UNCHANGED <<run, setup, wire, shut, next, reader, inbox, todo, got, faults>>

(* The acknowledgement has come; a failure seen before it is taken wins.    *)
SendReturns(x) ==
  /\ call[x].at = "acked"
  /\ \/ Returns(x)
     \/ x[1] \in failure /\ Fails(x) /\ UNCHANGED todo
  /\ UNCHANGED <<run, setup, sockets, inbox, pending, failure, got, faults>>

(* The wait sees the failure and gives its key back.                        *)
SendSeesFailure(x) ==
  /\ call[x].at = "wait" /\ x[1] \in failure
  /\ pending' = [pending EXCEPT ![x[1]] = @ \ {<<call[x].link, call[x].sequence>>}]
  /\ Fails(x)
  /\ UNCHANGED <<run, setup, sockets, inbox, failure, todo, got, faults>>

(* No acknowledgement before the deadline.                                  *)
SendTimesOut(x) ==
  /\ call[x].at = "wait"
  /\ <<call[x].link, call[x].sequence>> \in pending[x[1]]
  /\ Trouble \/ faults < run.faults
  /\ faults' = IF Trouble THEN faults ELSE faults + 1
  /\ SetPeerFailure(x[1])
  /\ Fails(x)
  /\ UNCHANGED <<run, setup, sockets, inbox, todo, got>>

-----------------------------------------------------------------------------
(* Receiving.                                                               *)

(* receive without a source.                                                *)
AnyRank == 99

Matches(x) ==
  {i \in DOMAIN inbox[x[1]] :
     /\ inbox[x[1]][i].rail = RailFor(x[2])
     /\ inbox[x[1]][i].tag = Head(todo[x]).tag
     /\ Head(todo[x]).peer \in {inbox[x[1]][i].from, AnyRank}}

Match(S) == CHOOSE i \in S : \A j \in S : i <= j

(* The frame a receive takes, and whether its contract (element type and    *)
(* count) is not the one the receive asks for.                              *)
Letter(x) == inbox[x[1]][Match(Matches(x))]
Mismatch(x) == Letter(x).body \in Head(todo[x]).refuses

(* Mutant: the frame is copied and stays in the inbox.                      *)
TakesCopy(x) ==
  /\ Matches(x) # {} /\ UNCHANGED inbox
  /\ got' = [got EXCEPT ![x] = Append(@, Letter(x))]

Takes(x) ==
  /\ Matches(x) # {}
  /\ inbox' = [inbox EXCEPT ![x[1]] = RemoveAt(@, Match(Matches(x)))]
  /\ got' = [got EXCEPT ![x] = Append(@, Letter(x))]

(* receive_on_rail looks at the failure before it looks at the inbox.       *)
ReceiveReturns(x) ==
  /\ Begins(x, "receive")
  /\ IF x[1] \in failure THEN Fails(x) /\ UNCHANGED <<inbox, got, todo>>
     ELSE Takes(x) /\ ~Mismatch(x) /\ Returns(x)
  /\ UNCHANGED <<run, setup, sockets, pending, failure, faults>>

(* The frame is out of the inbox when its contract turns out to be another; *)
(* the receive fails, and the abort that follows sets the failure.          *)
ReceiveMismatch(x) ==
  /\ Begins(x, "receive") /\ x[1] \notin failure
  /\ Takes(x) /\ Mismatch(x)
  /\ faults' = faults + 1
  /\ SetPeerFailure(x[1])
  /\ Fails(x)
  /\ UNCHANGED <<run, setup, sockets, todo>>

ReceiveTimesOut(x) ==
  /\ Begins(x, "receive") /\ x[1] \notin failure /\ Matches(x) = {}
  /\ Trouble \/ faults < run.faults
  /\ faults' = IF Trouble THEN faults ELSE faults + 1
  /\ SetPeerFailure(x[1])
  /\ Fails(x)
  /\ UNCHANGED <<run, setup, sockets, inbox, todo, got>>

-----------------------------------------------------------------------------
(* The reader of a side.                                                    *)

Reading(l) == reader[l].at = "read" /\ life[l[1]] # "gone"
In(l) == wire[Reverse3(l)]

Popped(l) == wire' = [wire EXCEPT ![Reverse3(l)] = Tail(@)]

(* A data frame: it is queued, then it is acknowledged.                     *)
ReadSend(l) ==
  /\ Reading(l) /\ In(l) # <<>> /\ Head(In(l)).op = "send"
  /\ Popped(l)
  /\ inbox' = [inbox EXCEPT ![l[1]] =
                 Append(@, [from |-> l[2], rail |-> l[3], tag |-> Head(In(l)).tag,
                            body |-> Head(In(l)).body])]
  /\ reader' = [reader EXCEPT ![l] = [at |-> "lock", sequence |-> Head(In(l)).sequence]]
  /\ UNCHANGED <<run, setup, shut, lock, next, pending, failure, call, todo, got, faults>>

LockAck(l) ==
  /\ reader[l].at = "lock" /\ l \notin lock /\ life[l[1]] # "gone"
  /\ lock' = lock \cup {l}
  /\ reader' = [reader EXCEPT ![l].at = "write"]
  /\ UNCHANGED <<run, setup, wire, shut, next, inbox, pending, failure, call, todo, got, faults>>

WriteAck(l) ==
  /\ reader[l].at = "write" /\ life[l[1]] # "gone"
  /\ l \notin shut /\ HasRoom(l)
  /\ Put(l, [op |-> "ack", sequence |-> reader[l].sequence])
  /\ lock' = lock \ {l}
  /\ reader' = [reader EXCEPT ![l].at = "read"]
  /\ UNCHANGED <<run, setup, shut, next, inbox, pending, failure, call, todo, got, faults>>

WriteAckFails(l) ==
  /\ reader[l].at = "write" /\ life[l[1]] # "gone"
  /\ Closed(l) \/ (~HasRoom(l) /\ Trouble)
  /\ SetPeerFailure(l[1])
  /\ lock' = lock \ {l}
  /\ reader' = [reader EXCEPT ![l].at = "ended"]
  /\ UNCHANGED <<run, setup, wire, shut, next, inbox, call, todo, got, faults>>

(* Mutant: the key leaves the rail out.                                     *)
AckKeyNoRail(l, sequence) == {<<m, sequence>> : m \in {m \in Links : m[1] = l[1] /\ m[2] = l[2]}}

AckKey(l, sequence) == {<<l, sequence>>}

(* An acknowledgement wakes the send that waits for this sequence number,   *)
(* if it is still in the table.                                             *)
ReadAck(l) ==
  /\ Reading(l) /\ In(l) # <<>> /\ Head(In(l)).op = "ack"
  /\ Popped(l)
  /\ LET keys == AckKey(l, Head(In(l)).sequence) \cap pending[l[1]] IN
     /\ pending' = [pending EXCEPT ![l[1]] = @ \ keys]
     /\ call' = [x \in Threads |-> IF x[1] = l[1] /\ call[x].at = "wait"
                                      /\ <<call[x].link, call[x].sequence>> \in keys
                                   THEN [call[x] EXCEPT !.at = "acked"] ELSE call[x]]
  /\ UNCHANGED <<run, setup, shut, lock, next, reader, inbox, failure, todo, got, faults>>

(* ABORT, LEAVE, or the end of the stream; a reset may come before what is  *)
(* still to be read.  The reader ends, and what is unread is lost.          *)
ReadEnd(l) ==
  /\ Reading(l)
  /\ \/ In(l) # <<>> /\ Head(In(l)).op \in {"abort", "leave"}
     \/ Closed(l)
  /\ wire' = [wire EXCEPT ![Reverse3(l)] = <<>>]
  /\ SetPeerFailure(l[1])
  /\ reader' = [reader EXCEPT ![l].at = "ended"]
  /\ UNCHANGED <<run, setup, shut, lock, next, inbox, call, todo, got, faults>>

-----------------------------------------------------------------------------
(* Abort and leave.                                                         *)

(* Connections are walked rail by rail, and on a rail by peer.              *)
First(S) == CHOOSE l \in S : \A m \in S : l[3] < m[3] \/ (l[3] = m[3] /\ l[2] <= m[2])

(* abort has set the failure and writes ABORT on the sides, one at a time;  *)
(* an error of a side is noted and the next one tried.                      *)
AbortSide(x) ==
  /\ call[x].at = "abort" /\ call[x].left # {}
  /\ LET l == First(call[x].left) IN
       /\ l \notin lock
       /\ Closed(l) \/ HasRoom(l) \/ Trouble
       /\ IF l \notin shut /\ HasRoom(l) THEN Put(l, [op |-> "abort"]) ELSE UNCHANGED wire
       /\ call' = [call EXCEPT ![x].left = @ \ {l}]
  /\ SetPeerFailure(x[1])
  /\ UNCHANGED <<run, setup, shut, lock, next, reader, inbox, todo, got, faults>>

(* The call returns its error; the thread makes no more calls.              *)
AbortReturns(x) ==
  /\ call[x].at = "abort" /\ call[x].left = {}
  /\ call' = [call EXCEPT ![x] = Idle]
  /\ todo' = [todo EXCEPT ![x] = <<>>]
  /\ UNCHANGED <<run, setup, sockets, inbox, pending, failure, got, faults>>

(* The program calls abort.                                                 *)
UserAbort(x) ==
  /\ Live(x) /\ call[x] = Idle /\ todo[x] # <<>>
  /\ faults < run.faults
  /\ faults' = faults + 1
  /\ SetPeerFailure(x[1])
  /\ Fails(x)
  /\ UNCHANGED <<run, setup, sockets, inbox, todo, got>>

Finished(r) == \A t \in 1 .. run.threads : call[<<r, t>>] = Idle /\ todo[<<r, t>>] = <<>>

(* The session is dropped.  A program that drops it while another rank      *)
(* still has calls to make counts as a fault: see EarlyLeave in the README. *)
Leave(r) ==
  /\ life[r] = "open" /\ Finished(r)
  /\ \/ (\A p \in Ranks : life[p] = "gone" \/ Finished(p)) /\ UNCHANGED faults
     \/ Trouble /\ UNCHANGED faults
     \/ faults < run.faults /\ faults' = faults + 1
  /\ life' = [life EXCEPT ![r] = "leaving"]
  /\ UNCHANGED <<run, dialed, backlog, conns, sockets, inbox, pending, failure, call, todo, got>>

(* Drop writes LEAVE on each side and shuts it down.                        *)
LeaveSide(l) ==
  /\ life[l[1]] = "leaving" /\ Sides(l[1]) \ shut # {} /\ l = First(Sides(l[1]) \ shut)
  /\ l \notin lock
  /\ IF HasRoom(l) THEN Put(l, [op |-> "leave"]) ELSE UNCHANGED wire
  /\ shut' = shut \cup {l}
  /\ UNCHANGED <<run, setup, lock, next, reader, inbox, pending, failure, call, todo, got, faults>>

(* ... and joins the readers, which find their sockets shut.                *)
Left(r) ==
  /\ life[r] = "leaving" /\ Sides(r) \subseteq shut
  /\ \A l \in Sides(r) : reader[l].at = "ended"
  /\ Gone(r)
  /\ UNCHANGED faults

(* The process of r dies.                                                   *)
Crash(r) ==
  /\ life[r] \in {"setup", "open"} /\ faults < run.faults
  /\ faults' = faults + 1
  /\ Gone(r)

-----------------------------------------------------------------------------
Done == \A r \in Ranks : life[r] = "gone"

ThreadStep(x) ==
  \/ StartSend(x) \/ SendToSelf(x) \/ LockSend(x) \/ WriteSend(x) \/ WriteSendFails(x)
  \/ SendReturns(x) \/ SendSeesFailure(x) \/ ReceiveReturns(x) \/ ReceiveMismatch(x)
  \/ AbortSide(x) \/ AbortReturns(x)

ReaderStep(l) ==
  ReadSend(l) \/ LockAck(l) \/ WriteAck(l) \/ WriteAckFails(l) \/ ReadAck(l) \/ ReadEnd(l)

RankStep(r) == Dial(r) \/ Accept(r) \/ Ready(r) \/ Open(r) \/ Leave(r) \/ Left(r)

Deadline == (\E r \in Ranks : SetupFails(r)) \/ \E x \in Threads : SendTimesOut(x) \/ ReceiveTimesOut(x)

Next ==
  \/ \E x \in Threads : ThreadStep(x) \/ UserAbort(x)
  \/ \E l \in Links : ReaderStep(l) \/ LeaveSide(l)
  \/ \E r \in Ranks : RankStep(r) \/ Crash(r)
  \/ Deadline

(* Threads run and sockets deliver; a wait ends at its deadline, which      *)
(* matters only once something has gone wrong.                              *)
Fairness ==
  /\ WF_vars(\E r \in Ranks : RankStep(r))
  /\ WF_vars(\E x \in Threads : ThreadStep(x))
  /\ WF_vars(\E l \in Links : ReaderStep(l) \/ LeaveSide(l))
  /\ WF_vars(Trouble /\ Deadline)

Spec == Init /\ [][Next]_vars /\ Fairness

-----------------------------------------------------------------------------
(* What the programs send.                                                  *)
Entries == UNION {Range(run.script[x]) : x \in Threads}
Sent == {e \in Entries : e.do \in {"send", "self"}}
SentTags == {e.tag : e \in Sent}
SentBodies == {e.body : e \in Sent}

SendFrames == [op : {"send"}, sequence : Nat, tag : SentTags, body : SentBodies]
AckFrames == [op : {"ack"}, sequence : Nat]
Frames == SendFrames \cup AckFrames \cup [op : {"abort", "leave"}]
Letters == [from : Ranks, rail : Rails, tag : SentTags, body : SentBodies]

InSendCalls == [at : {"write", "wait", "acked"}, link : Links, sequence : Nat]
CallStates ==
  {Idle} \cup [at : {"lock"}, link : Links] \cup InSendCalls \cup [at : {"abort"}, left : SUBSET Links]

(* The shape of the state; a socket never holds more than its buffers.      *)
SetupOK ==
  /\ life \in [Ranks -> {"setup", "open", "leaving", "gone"}]
  /\ dialed \in [Ranks -> Nat] /\ \A r \in Ranks : dialed[r] <= r * run.rails
  /\ backlog \in [Ranks -> SUBSET Links] /\ conns \subseteq Links

SocketsOK ==
  /\ wire \in [Links -> Seq(Frames)] /\ \A l \in Links : Len(wire[l]) <= Room
  /\ shut \subseteq Links /\ lock \subseteq Links
  /\ next \in [Links -> Nat]
  /\ reader \in [Links -> [at : {"none", "read", "lock", "write", "ended"}, sequence : Nat]]

TablesOK ==
  /\ inbox \in [Ranks -> Seq(Letters)]
  /\ pending \in [Ranks -> SUBSET (Links \X Nat)]
  /\ failure \subseteq Ranks

CallsOK ==
  /\ call \in [Threads -> CallStates]
  /\ todo \in [Threads -> Seq(Entries)]
  /\ \A x \in Threads : Range(todo[x]) \subseteq Range(run.script[x])
  /\ got \in [Threads -> Seq(Letters)]
  /\ faults \in Nat

TypeOK == run \in Cases /\ SetupOK /\ SocketsOK /\ TablesOK /\ CallsOK

(* What the rank d has queued, and what its receives have taken.            *)
Delivered(d) == Range(inbox[d]) \cup UNION {Range(got[<<d, t>>]) : t \in 1 .. run.threads}

(* The frame of the send of x was queued by its destination.                *)
Stored(x) ==
  \E f \in Delivered(call[x].link[2]) : f.from = x[1] /\ f.body = Head(todo[x]).body

(* A send that has its acknowledgement has its frame in the inbox of the    *)
(* destination, or a receive there has taken it: send_on_rail never returns *)
(* Ok for a frame that the peer's reader has not queued.                    *)
AckedIsQueued ==
  \A x \in Threads : call[x].at = "acked" /\ life[call[x].link[2]] # "gone" => Stored(x)

(* Every entry of the table of pending acknowledgements belongs to a call   *)
(* that is still in send_on_rail: no failure, timeout or late answer leaves *)
(* an entry behind for a sequence number.                                   *)
PendingHaveCalls ==
  \A r \in Ranks : life[r] # "gone" =>
    \A key \in pending[r] : \E t \in 1 .. run.threads :
      /\ call[<<r, t>>].at \in {"write", "wait"}
      /\ key = <<call[<<r, t>>].link, call[<<r, t>>].sequence>>

(* The state has its shape and the table of pending acknowledgements has an *)
(* entry for calls in send_on_rail only.                                    *)
Consistent == TypeOK /\ PendingHaveCalls

-----------------------------------------------------------------------------
(* The inductive invariant behind AckedIsQueued.                            *)

(* x is in a send on link l with sequence number s.                         *)
InSend(x, l, s) ==
  call[x].at \in {"write", "wait"} /\ call[x].link = l /\ call[x].sequence = s

(* A call in a send uses a link of its rank and a sequence number of its    *)
(* own.                                                                     *)
OwnSequence ==
  /\ \A x \in Threads :
       /\ call[x].at \in {"lock", "write", "wait", "acked"} =>
            call[x].link[1] = x[1] /\ todo[x] # <<>> /\ Head(todo[x]).do = "send"
       /\ call[x].at \in {"write", "wait", "acked"} => call[x].sequence < next[call[x].link]
  /\ \A x, y \in Threads :
       call[y].at \in {"write", "wait"} /\ InSend(x, call[y].link, call[y].sequence) => x = y

(* Sequence number s of link l is acknowledged by rank l[2]: its send waits *)
(* and its frame is stored.                                                 *)
Acknowledges(l, s) ==
  /\ s < next[l]
  /\ \A x \in Threads : InSend(x, l, s) =>
       call[x].at = "wait" /\ (life[l[2]] # "gone" => Stored(x))

(* A data frame carries the message of the send that waits for it, and an   *)
(* acknowledgement, in flight or about to be written, follows the storing.  *)
FramesFit ==
  \A l \in Links :
    /\ \A i \in DOMAIN wire[l] : wire[l][i].op = "send" =>
         /\ wire[l][i].sequence < next[l]
         /\ \A x \in Threads : InSend(x, l, wire[l][i].sequence) =>
              call[x].at = "wait" /\ wire[l][i].body = Head(todo[x]).body
    /\ \A i \in DOMAIN wire[l] : wire[l][i].op = "ack" =>
         Acknowledges(Reverse3(l), wire[l][i].sequence)
    /\ reader[l].at \in {"lock", "write"} => Acknowledges(Reverse3(l), reader[l].sequence)

AckInv == TypeOK /\ OwnSequence /\ FramesFit /\ AckedIsQueued

-----------------------------------------------------------------------------
(* Every rank ends: setup completes or fails on every rank, every send and  *)
(* receive returns, with a result or an error, and Drop joins its readers,  *)
(* whatever rank crashes, aborts, leaves early or times out.                *)
AllReturn == <>Done

(* The elements of s that have a value in a field, in their order.          *)
Only(s, field, value) ==
  LET kept[n \in 0 .. Len(s)] ==
        IF n = 0 THEN <<>>
        ELSE IF s[n][field] = value THEN Append(kept[n - 1], s[n]) ELSE kept[n - 1]
  IN  kept[Len(s)]

(* The queue of a link: its frames in the inbox of the destination, then    *)
(* its data frames in flight.                                               *)
AllLinks == Ranks \X Ranks \X Rails
Contents(s) == [i \in DOMAIN s |-> [tag |-> s[i].tag, body |-> s[i].body]]
Queued(l) == Only(Only(inbox[l[2]], "from", l[1]), "rail", l[3])
InFlight(l) == IF l \in Links THEN Only(wire[l], "op", "send") ELSE <<>>
QueueOf(l) == Contents(Queued(l)) \o Contents(InFlight(l))
Ended == failure # {} \/ \E r \in Ranks : life[r] \in {"leaving", "gone"}

(* Where a caller is: its message is on its way, or its call is failing.    *)
StateOf(c) ==
  IF c.at \in {"wait", "acked"} THEN "handed" ELSE IF c.at = "abort" THEN "failed" ELSE "ready"

Mail == INSTANCE Mailboxes WITH
  queue <- [l \in AllLinks |-> QueueOf(l)],
  left <- todo,
  state <- [x \in Threads |-> StateOf(call[x])],
  received <- got,
  rail <- [x \in Threads |-> RailFor(x[2])],
  over <- Ended

(* The mesh implements the mailboxes: what a call of send_on_rail writes is *)
(* what is added to the queue of its link, once, before it returns; what a  *)
(* receive_on_rail gets is the first message of the queue with its tag and  *)
(* source; and no message leaves a queue otherwise, except from its end     *)
(* once a rank has failed or left.  So none is lost, doubled or overtaken.  *)
ImplementsMailboxes == Mail!Spec
=============================================================================
