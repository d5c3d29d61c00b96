-------------------------- MODULE LocalServerProofs --------------------------
(* Proofs about the local collective server for every set of threads, every *)
(* channel capacity and every program of the threads; the last two theorems *)
(* are about programs in which each thread has its own peer id.             *)
EXTENDS LocalServer, FiniteSetTheorems, TLAPS

(* What the requests of the clients carry.                                  *)
LEMMA RequestKinds ==
  ASSUME NEW r \in Request
  PROVE  /\ r.id \in Peers
         /\ r.kind = "register" => r.arg \in Configs
         /\ r.kind \in {"register", "all_reduce", "reduce", "broadcast", "finish", "reset"}
BY DEF Request

(* Replies that are replies keep the type of the table of replies.          *)
LEMMA AnswerType ==
  ASSUME TypeOK, NEW f, \A t \in DOMAIN f : f[t] \in Reply, Answer(f)
  PROVE  reply' \in [Threads -> Reply]
BY DEF TypeOK, Answer

(* A reply without a result is a reply, and not the empty one.              *)
LEMMA PlainType ==
  ASSUME NEW tag \in {"ok", "none"} \cup Errors
  PROVE  Plain(tag) \in Reply /\ Plain(tag) # Pending
BY DEF Plain, Reply, Errors, Pending

(* The message the server takes next, and the queue behind it.              *)
LEMMA HeadType ==
  ASSUME TypeOK, queue # <<>>
  PROVE  /\ Head(queue) \in Message
         /\ Tail(queue) \in Seq(Message)
         /\ Head(queue) = queue[1]
         /\ 1 \in DOMAIN queue
         /\ DOMAIN queue = 1 .. Len(queue)
         /\ DOMAIN Tail(queue) = 1 .. (Len(queue) - 1)
         /\ \A i \in DOMAIN Tail(queue) : Tail(queue)[i] = queue[i + 1]
BY DEF TypeOK

(* The tensors that the calls of a pending operation bring.                 *)
LEMMA ContributionsType ==
  ASSUME NEW cs \in Seq(Message)
  PROVE  Contributions(cs) \in SUBSET Contribution
<1>0. \A i \in DOMAIN cs : cs[i] \in Message
  OBVIOUS
<1>1. \A i \in DOMAIN cs : cs[i].req \in Request /\ cs[i].n \in Nat
  BY <1>0 DEF Message
<1>2. \A i \in DOMAIN cs : [id |-> cs[i].req.id, n |-> cs[i].n] \in Contribution
  BY <1>1, RequestKinds DEF Contribution
<1>3. QED
  BY <1>2 DEF Contributions

(* What execute answers to a caller is a reply.                             *)
LEMMA ResultType ==
  ASSUME NEW cs \in Seq(Message), NEW k, NEW tag \in {"ok", "none"} \cup Errors, NEW i
  PROVE  ResultFor(k, cs, tag, i) \in Reply /\ ResultFor(k, cs, tag, i) # Pending
BY ContributionsType, PlainType DEF ResultFor, Reply, Pending

(* The ways an operation can end.                                           *)
LEMMA OutcomesType ==
  ASSUME NEW k \in Collectives, NEW cs
  PROVE  Outcomes(k, cs) \subseteq {"ok", "none", "panic"} \cup Errors
BY DEF Outcomes, Collectives, Errors

(* What process_register and process_call refuse with is one of the errors. *)
LEMMA ErrorTypes ==
  ASSUME NEW m \in Message
  PROVE  /\ RegisterError(m) \in {"ok"} \cup Errors
         /\ m.req.kind \in Collectives => \A cs : JoinError(cs, m) \in {"ok"} \cup Errors
BY DEF RegisterError, JoinError, Errors, Collectives, Message

-----------------------------------------------------------------------------
(* No operation is pending after a reset.                                   *)
LEMMA EmptyCalls == [k \in Collectives |-> <<>>] \in [Collectives -> Seq(Message)]
<1>1. <<>> \in Seq(Message)
  OBVIOUS
<1>2. QED
  BY <1>1

(* The initial states are well typed.                                       *)
LEMMA InitType == Init => TypeOK
<1>1. Pending \in Reply
  BY DEF Pending, Reply
<1>2. <<>> \in Seq(Message)
  OBVIOUS
<1>3. SUFFICES ASSUME Init PROVE TypeOK
  OBVIOUS
<1>4. reply \in [Threads -> Reply] /\ request \in [Threads -> Request \cup {Idle}]
  BY <1>1, <1>3 DEF Init
<1>5. calls \in [Collectives -> Seq(Message)] /\ queue \in Seq(Message)
  BY <1>2, <1>3, EmptyCalls DEF Init
<1>6. QED
  BY <1>3, <1>4, <1>5 DEF Init, TypeOK

(* What a thread calls next is a request.                                   *)
LEMMA NextCallsType ==
  ASSUME TypeOK, NEW t \in Threads
  PROVE  NextCalls(t) \subseteq Request
BY ScriptAssumption DEF NextCalls, TypeOK

(* Every handler of the server keeps the types.                             *)
LEMMA ServerStepType == ASSUME TypeOK, ServerStep PROVE TypeOK'
<1> USE DEF TypeOK, server
<1>1. CASE RegisterRejected
  <2>1. Head(queue) \in Message /\ Tail(queue) \in Seq(Message)
    BY <1>1, HeadType DEF RegisterRejected, Receive, Incoming
  <2>2. Plain(RegisterError(Head(queue))) \in Reply
    BY <1>1, <2>1, ErrorTypes, PlainType DEF RegisterRejected
  <2>3. reply' \in [Threads -> Reply]
    BY <1>1, <2>2, AnswerType DEF RegisterRejected
  <2>4. QED
    BY <1>1, <2>1, <2>3 DEF RegisterRejected, Receive
<1>2. CASE RegisterAccepted
  <2>1. /\ Head(queue) \in Message /\ Tail(queue) \in Seq(Message)
        /\ Head(queue).req.id \in Peers /\ Head(queue).req.arg \in Configs
    BY <1>2, HeadType, RequestKinds DEF RegisterAccepted, Receive, Incoming, Message
  <2>2. reply' \in [Threads -> Reply]
    <3>1. CASE UNCHANGED reply
      BY <3>1
    <3>2. ASSUME NEW W, NEW tag \in {"ok", "Global"}, Answer([t \in W |-> Plain(tag)])
          PROVE  reply' \in [Threads -> Reply]
      BY <3>2, AnswerType, PlainType DEF Errors
    <3>3. QED
      BY <1>2, <3>1, <3>2 DEF RegisterAccepted
  <2>3. QED
    BY <1>2, <2>1, <2>2, ConfigsAssumption DEF RegisterAccepted, Receive, Message
<1>3. ASSUME NEW k \in Collectives, NotAdmitted(k) PROVE TypeOK'
  <2>1. Tail(queue) \in Seq(Message)
    BY <1>3, HeadType DEF NotAdmitted, Receive, Incoming
  <2>2. reply' \in [Threads -> Reply]
    BY <1>3, AnswerType, PlainType DEF NotAdmitted, Errors
  <2>3. QED
    BY <1>3, <2>1, <2>2 DEF NotAdmitted, Receive
<1>4. ASSUME NEW k \in Collectives, CallMismatch(k) PROVE TypeOK'
  <2>1. /\ Head(queue) \in Message /\ Tail(queue) \in Seq(Message)
        /\ Head(queue).req.kind = k
    BY <1>4, HeadType DEF CallMismatch, Receive, Incoming
  <2> DEFINE err == JoinError(calls[k], Head(queue))
  <2>2. Plain(err) \in Reply
    BY <1>4, <2>1, ErrorTypes, PlainType DEF CallMismatch
  <2>3. Plain("LocalServerMissing") \in Reply
    BY PlainType DEF Errors
  <2>4. reply' \in [Threads -> Reply]
    <3> HIDE DEF err
    <3>1. Answer([t \in Callers(calls[k]) \cup {Head(queue).from} |->
                    IF t = Head(queue).from THEN Plain("LocalServerMissing") ELSE Plain(err)])
      BY <1>4 DEF CallMismatch, err
    <3>2. QED
      BY <3>1, <2>2, <2>3, AnswerType
  <2>5. QED
    BY <1>4, <2>1, <2>4 DEF CallMismatch, Receive
<1>5. ASSUME NEW k \in Collectives, CallWaits(k) PROVE TypeOK'
  <2>1. Head(queue) \in Message /\ Tail(queue) \in Seq(Message)
    BY <1>5, HeadType DEF CallWaits, Receive, Incoming
  <2>2. QED
    BY <1>5, <2>1 DEF CallWaits, Receive, Joined
<1>6. ASSUME NEW k \in Collectives, CallExecutes(k) PROVE TypeOK'
  <2>1. Head(queue) \in Message /\ Tail(queue) \in Seq(Message)
    BY <1>6, HeadType DEF CallExecutes, Receive, Incoming
  <2>2. Joined(k) \in Seq(Message)
    BY <2>1 DEF Joined
  <2>3. PICK tag \in Outcomes(k, Joined(k)) :
          /\ ~Panics(k, Joined(k), tag)
          /\ Answer([t \in Callers(Joined(k)) |->
                       ResultFor(k, Joined(k), tag, PositionOf(Joined(k), t))])
    BY <1>6 DEF CallExecutes
  <2>6. tag \in {"ok", "none"} \cup Errors
    BY <2>3, OutcomesType DEF Panics
  <2>4. reply' \in [Threads -> Reply]
    BY <2>2, <2>3, <2>6, ResultType, AnswerType
  <2>5. QED
    BY <1>6, <2>1, <2>4 DEF CallExecutes, Receive
<1>7. ASSUME NEW k \in Collectives, CallPanicsServer(k) PROVE TypeOK'
  <2>1. Joined(k) \in Seq(Message)
    BY <1>7, HeadType DEF CallPanicsServer, Incoming, Joined
  <2>2. \A i : ResultFor(k, Joined(k), "ok", i) \in Reply
    BY <2>1, ResultType
  <2>3. Plain("LocalServerMissing") \in Reply
    BY PlainType DEF Errors
  <2>4. reply' \in [Threads -> Reply]
    BY <1>7, <2>2, <2>3 DEF CallPanicsServer
  <2>5. QED
    BY <1>7, <2>4, EmptyCalls DEF CallPanicsServer
<1>8. CASE Reset
  <2>1. Tail(queue) \in Seq(Message)
    BY <1>8, HeadType DEF Reset, Receive, Incoming
  <2>2. reply' \in [Threads -> Reply]
    BY <1>8, AnswerType, PlainType DEF Reset, Errors
  <2>3. QED
    BY <1>8, <2>1, <2>2, EmptyCalls DEF Reset, Receive
<1>9. CASE FinishRejected
  <2>1. Tail(queue) \in Seq(Message)
    BY <1>9, HeadType DEF FinishRejected, Receive, Incoming
  <2>2. reply' \in [Threads -> Reply]
    BY <1>9, AnswerType, PlainType DEF FinishRejected, Errors
  <2>3. QED
    BY <1>9, <2>1, <2>2 DEF FinishRejected, Receive
<1>10. CASE Finish
  <2>1. Tail(queue) \in Seq(Message)
    BY <1>10, HeadType DEF Finish, Receive, Incoming
  <2>2. reply' \in [Threads -> Reply]
    BY <1>10, AnswerType, PlainType DEF Finish
  <2>3. QED
    BY <1>10, <2>1, <2>2 DEF Finish, Receive
<1>11. QED
  BY <1>1, <1>2, <1>3, <1>4, <1>5, <1>6, <1>7, <1>8, <1>9, <1>10 DEF ServerStep

(* Every step of a client thread keeps the types.                           *)
LEMMA ThreadStepType ==
  ASSUME TypeOK, NEW t \in Threads, ThreadStep(t)
  PROVE  TypeOK'
<1>0. NextCalls(t) \subseteq Request
  BY NextCallsType
<1> USE DEF TypeOK, server
<1>1. CASE Call(t)
  <2>1. PICK r \in NextCalls(t) :
          /\ queue' = Append(queue, [req |-> r, from |-> t, n |-> issued[t] + 1])
          /\ request' = [request EXCEPT ![t] = r]
    BY <1>1 DEF Call
  <2>2. r \in Request /\ [req |-> r, from |-> t, n |-> issued[t] + 1] \in Message
    BY <1>0 DEF Message
  <2>3. queue' \in Seq(Message) /\ request' \in [Threads -> Request \cup {Idle}]
    BY <2>1, <2>2
  <2>4. QED
    BY <1>1, <2>3 DEF Call
<1>2. CASE CallInvalid(t)
  BY <1>2, <1>0, PlainType DEF CallInvalid, Errors
<1>3. CASE CallReset(t)
  <2>1. PICK r \in NextCalls(t) :
          queue' = Append(queue, [req |-> r, from |-> t, n |-> issued[t] + 1])
    BY <1>3 DEF CallReset
  <2>2. [req |-> r, from |-> t, n |-> issued[t] + 1] \in Message
    BY <1>0 DEF Message
  <2>3. queue' \in Seq(Message)
    BY <2>1, <2>2
  <2>4. QED
    BY <1>3, <2>3 DEF CallReset
<1>4. CASE CallPanics(t)
  BY <1>4, ScriptAssumption DEF CallPanics
<1>5. CASE Return(t)
  BY <1>5 DEF Return, Reply, Pending
<1>6. QED
  BY <1>1, <1>2, <1>3, <1>4, <1>5 DEF ThreadStep

(* The variables of the local server keep their types: in particular every  *)
(* reply a caller can receive is a result or an error of CollectiveError.   *)
THEOREM TypeCorrect == Spec => []TypeOK
<1>1. TypeOK /\ [Next]_vars => TypeOK'
  <2>1. CASE UNCHANGED vars
    BY <2>1 DEF TypeOK, vars, server
  <2>2. QED
    BY <2>1, ServerStepType, ThreadStepType DEF Next, Done
<1>2. QED
  BY <1>1, InitType, PTL DEF Spec

-----------------------------------------------------------------------------
(* One place per callback.  Receiving a message shifts the channel by one;  *)
(* the received callback is then held nowhere until the handler stores or   *)
(* answers it.                                                              *)
LEMMA TailQueued ==
  ASSUME TypeOK, queue # <<>>, queue' = Tail(queue), NEW t
  PROVE  \A i : i \in Queued(t)' <=> (i \in Nat \ {0} /\ i + 1 \in Queued(t))
<1>1. /\ DOMAIN queue = 1 .. Len(queue) /\ Len(queue) \in Nat
      /\ DOMAIN queue' = 1 .. (Len(queue) - 1)
      /\ \A i \in DOMAIN queue' : queue'[i] = queue[i + 1]
  BY HeadType DEF TypeOK
<1>2. QED
  BY <1>1 DEF Queued

(* The message the server takes was the only place that held its callback,  *)
(* and the other callbacks stay where they are.                             *)
LEMMA ReceiveHeld ==
  ASSUME TypeOK, CallbackHeldOnce, NEW k, k # "reset", Receive(k),
         NEW c, c = Head(queue).from
  PROVE  /\ c \in Threads
         /\ Waiting(c) /\ c \notin registering
         /\ \A l \in Collectives : Joining(c, l) = {}
         /\ Queued(c)' = {}
         /\ \A t \in Threads : t # c => /\ (Queued(t)' = {} <=> Queued(t) = {})
                                       /\ \A i, j \in Queued(t)' : i = j
<1>1. queue # <<>> /\ queue' = Tail(queue) /\ Head(queue).req.kind # "reset"
  BY DEF Receive, Incoming
<1>2. c \in Threads /\ 1 \in Queued(c)
  BY <1>1, HeadType DEF Queued, Message
<1>3. \A i \in Queued(c) : i = 1
  BY <1>2 DEF CallbackHeldOnce, HeldInOnePlace
<1>4. Queued(c)' = {}
  BY <1>1, <1>3, TailQueued
<1>5. Waiting(c) /\ c \notin registering /\ \A l \in Collectives : Joining(c, l) = {}
  BY <1>2 DEF CallbackHeldOnce, HeldInOnePlace, Held
<1>6. ASSUME NEW t \in Threads, t # c
      PROVE  /\ (Queued(t)' = {} <=> Queued(t) = {})
             /\ \A i, j \in Queued(t)' : i = j
  <2>1. \A i \in Queued(t) : i \in Nat /\ i > 1
    BY <1>1, <1>6, HeadType DEF Queued, TypeOK
  <2>2. \A i \in Queued(t) : i - 1 \in Queued(t)'
    BY <1>1, <2>1, TailQueued
  <2>3. \A i \in Queued(t)' : i \in Nat /\ i + 1 \in Queued(t)
    BY <1>1, TailQueued
  <2>4. \A i, j \in Queued(t) : i = j
    BY DEF CallbackHeldOnce, HeldInOnePlace
  <2>5. QED
    BY <2>2, <2>3, <2>4
<1>7. QED
  BY <1>2, <1>4, <1>5, <1>6

(* The threads that are answered are those that stop waiting.               *)
LEMMA AnswerWaiting ==
  ASSUME TypeOK, NEW f, \A t \in DOMAIN f : f[t] # Pending, Answer(f), request' = request
  PROVE  \A t \in Threads : Waiting(t)' <=> (Waiting(t) /\ t \notin DOMAIN f)
BY DEF TypeOK, Answer, Waiting

(* A handler that takes a message and answers the threads of DOMAIN f keeps *)
(* one place per callback if the caller is one of them, the others were     *)
(* registering or in a pending operation, their places are cleared, and     *)
(* every other thread is left alone.                                        *)
LEMMA HandlerHeld ==
  ASSUME TypeOK, CallbackHeldOnce, NEW k, k # "reset", Receive(k),
         NEW c, c = Head(queue).from,
         NEW f, \A t \in DOMAIN f : f[t] # Pending, Answer(f),
         \A t \in DOMAIN f : t \notin registering' /\ \A l \in Collectives : Joining(t, l)' = {},
         c \in DOMAIN f,
         \A t \in DOMAIN f : t # c => t \in registering \/ \E l \in Collectives : Joining(t, l) # {},
         \A t \in Threads \ DOMAIN f :
            /\ t \in registering' <=> t \in registering
            /\ \A l \in Collectives : Joining(t, l)' = Joining(t, l)
  PROVE  CallbackHeldOnce'
<1>1. \A t \in Threads : Waiting(t)' <=> (Waiting(t) /\ t \notin DOMAIN f)
  BY AnswerWaiting DEF Receive
<1>2. SUFFICES ASSUME NEW t \in Threads
               PROVE  /\ Waiting(t)' <=> Held(t)'
                      /\ HeldInOnePlace(t)'
                      /\ request'[t] = Idle => reply'[t] = Pending
  BY DEF CallbackHeldOnce
<1>3. /\ Waiting(t) <=> Held(t)
      /\ HeldInOnePlace(t)
      /\ request[t] = Idle => reply[t] = Pending
  BY DEF CallbackHeldOnce
<1>4. t \in DOMAIN f => Waiting(t)
  BY <1>3, ReceiveHeld DEF Held
<1>5. request'[t] = Idle => reply'[t] = Pending
  BY <1>3, <1>4 DEF Receive, Answer, Waiting
<1>6. (Waiting(t)' <=> Held(t)') /\ HeldInOnePlace(t)'
  <2>1. CASE t = c
    <3>1. Queued(t)' = {}
      BY <2>1, ReceiveHeld
    <3>2. QED
      BY <1>1, <2>1, <3>1 DEF Held, HeldInOnePlace
  <2>2. CASE t # c /\ t \in DOMAIN f
    <3>1. (Queued(t)' = {} <=> Queued(t) = {})
      BY <2>2, ReceiveHeld
    <3>2. QED
      BY <1>1, <1>3, <2>2, <3>1 DEF Held, HeldInOnePlace
  <2>3. CASE t # c /\ t \notin DOMAIN f
    <3>1. (Queued(t)' = {} <=> Queued(t) = {}) /\ \A i, j \in Queued(t)' : i = j
      BY <2>3, ReceiveHeld
    <3>2. QED
      BY <1>1, <1>3, <2>3, <3>1 DEF Held, HeldInOnePlace
  <2>4. QED
    BY <2>1, <2>2, <2>3
<1>7. QED
  BY <1>5, <1>6

(* A handler that stores the caller's callback in one place keeps one place *)
(* per callback.                                                            *)
LEMMA StoredHeld ==
  ASSUME TypeOK, CallbackHeldOnce, NEW k, k # "reset", Receive(k), reply' = reply,
         NEW c, c = Head(queue).from,
         \/ c \in registering' /\ \A l \in Collectives : Joining(c, l)' = {}
         \/ /\ c \notin registering'
            /\ \E l \in Collectives : \E p :
                 /\ Joining(c, l)' = {p}
                 /\ \A o \in Collectives \ {l} : Joining(c, o)' = {},
         \A t \in Threads \ {c} :
            /\ t \in registering' <=> t \in registering
            /\ \A l \in Collectives : Joining(t, l)' = Joining(t, l)
  PROVE  CallbackHeldOnce'
<1>1. SUFFICES ASSUME NEW t \in Threads
               PROVE  /\ Waiting(t)' <=> Held(t)'
                      /\ HeldInOnePlace(t)'
                      /\ request'[t] = Idle => reply'[t] = Pending
  BY DEF CallbackHeldOnce
<1>2. /\ Waiting(t) <=> Held(t)
      /\ HeldInOnePlace(t)
      /\ request[t] = Idle => reply[t] = Pending
  BY DEF CallbackHeldOnce
<1>3. Waiting(t)' <=> Waiting(t)
  BY DEF Waiting, Receive
<1>4. CASE t = c
  <2>1. Queued(t)' = {} /\ Waiting(t)
    BY <1>4, ReceiveHeld
  <2>2. QED
    BY <1>2, <1>3, <1>4, <2>1 DEF Held, HeldInOnePlace, Receive
<1>5. CASE t # c
  <2>1. (Queued(t)' = {} <=> Queued(t) = {}) /\ \A i, j \in Queued(t)' : i = j
    BY <1>5, ReceiveHeld
  <2>2. QED
    BY <1>2, <1>3, <1>5, <2>1 DEF Held, HeldInOnePlace, Receive
<1>6. QED
  BY <1>4, <1>5

(* Who is in a pending operation, when no operation changes,                *)
LEMMA JoiningUnchanged ==
  ASSUME calls' = calls, NEW t, NEW l
  PROVE  Joining(t, l)' = Joining(t, l)
BY DEF Joining

(* when one operation ends,                                                 *)
LEMMA JoiningCleared ==
  ASSUME TypeOK, NEW k \in Collectives, calls' = [calls EXCEPT ![k] = <<>>], NEW t
  PROVE  /\ Joining(t, k)' = {}
         /\ \A l \in Collectives : l # k => Joining(t, l)' = Joining(t, l)
BY DEF Joining, TypeOK

(* and in terms of the callers of the operation.                            *)
LEMMA JoiningCallers ==
  ASSUME NEW k, NEW t
  PROVE  t \in Callers(calls[k]) <=> Joining(t, k) # {}
BY DEF Joining, Callers

(* A call joins a pending operation as its last one.                        *)
LEMMA AppendedCalls ==
  ASSUME TypeOK, NEW k \in Collectives, NEW m \in Message,
         calls' = [calls EXCEPT ![k] = Append(calls[k], m)]
  PROVE  /\ DOMAIN calls'[k] = DOMAIN calls[k] \cup {Len(calls[k]) + 1}
         /\ \A i \in DOMAIN calls[k] : i # Len(calls[k]) + 1 /\ calls'[k][i] = calls[k][i]
         /\ calls'[k][Len(calls[k]) + 1] = m
         /\ \A l \in Collectives : l # k => calls'[l] = calls[l]
BY DEF TypeOK

(* Every handler of the server keeps one place per callback.                *)
LEMMA ServerStepHeld ==
  ASSUME TypeOK, CallbackHeldOnce, ServerStep
  PROVE  CallbackHeldOnce'
<1>c. PICK c : c = Head(queue).from
  OBVIOUS
<1>r. "register" # "reset" /\ "finish" # "reset" /\ \A k \in Collectives : k # "reset"
  BY DEF Collectives
<1>h. ASSUME NEW k, k # "reset", Receive(k)
      PROVE  c \in Threads /\ c \notin registering /\ \A l \in Collectives : Joining(c, l) = {}
  BY <1>c, <1>h, ReceiveHeld
<1>s. registering \subseteq Threads /\ \A t \in registering : \A l \in Collectives : Joining(t, l) = {}
  BY DEF TypeOK, CallbackHeldOnce, HeldInOnePlace
<1>p. \A tag \in {"ok", "none"} \cup Errors : Plain(tag) # Pending
  BY PlainType
<1>m. ASSUME queue # <<>> PROVE Head(queue) \in Message
  BY <1>m, HeadType
(* Answering only the caller, all places unchanged. *)
<1>o. ASSUME NEW k, k # "reset", Receive(k), UNCHANGED <<registering, calls>>,
             NEW tag \in {"ok", "none"} \cup Errors, Answer([t \in {Head(queue).from} |-> Plain(tag)])
      PROVE  CallbackHeldOnce'
  BY <1>o, <1>c, <1>h, <1>p, HandlerHeld, JoiningUnchanged
<1>1. CASE RegisterRejected
  <2>1. RegisterError(Head(queue)) \in {"ok"} \cup Errors
    BY <1>1, <1>m, ErrorTypes DEF RegisterRejected, Receive, Incoming
  <2>2. QED
    BY <1>1, <1>o, <1>r, <2>1 DEF RegisterRejected, server
<1>2. CASE RegisterAccepted
  <2>1. /\ c \in Threads /\ c \notin registering /\ \A l \in Collectives : Joining(c, l) = {}
        /\ calls' = calls /\ Receive("register")
    BY <1>2, <1>h, <1>r DEF RegisterAccepted
  <2>2. CASE registering' = {} /\ \E tag \in {"ok", "Global"} :
               Answer([t \in registering \cup {c} |-> Plain(tag)])
    BY <2>1, <2>2, <1>c, <1>p, <1>r, <1>s, HandlerHeld, JoiningUnchanged DEF Errors
  <2>3. CASE registering' = registering \cup {c} /\ reply' = reply
    BY <2>1, <2>3, <1>c, <1>r, StoredHeld, JoiningUnchanged
  <2>4. QED
    BY <1>2, <1>c, <2>2, <2>3 DEF RegisterAccepted
<1>3. ASSUME NEW k \in Collectives, NotAdmitted(k) PROVE CallbackHeldOnce'
  BY <1>3, <1>o, <1>r DEF NotAdmitted, server, Errors
(* Answering the callers of the operation and the new caller, and dropping  *)
(* the operation.                                                           *)
<1>d. ASSUME NEW k \in Collectives, Receive(k), UNCHANGED registering,
             calls' = [calls EXCEPT ![k] = <<>>], NEW f, Answer(f),
             DOMAIN f = Callers(calls[k]) \cup {c}, \A t \in DOMAIN f : f[t] # Pending
      PROVE  CallbackHeldOnce'
  <2>1. c \in Threads /\ c \notin registering /\ \A l \in Collectives : Joining(c, l) = {}
    BY <1>d, <1>h, <1>r
  <2>2. \A t \in Callers(calls[k]) : t \in Threads /\ Joining(t, k) # {}
    <3>1. \A t \in Callers(calls[k]) : Joining(t, k) # {}
      BY JoiningCallers
    <3>2. \A i \in DOMAIN calls[k] : calls[k][i] \in Message
      BY DEF TypeOK
    <3>3. QED
      BY <3>1, <3>2 DEF Callers, Message
  <2>3. \A t \in Callers(calls[k]) :
          t \notin registering /\ \A l \in Collectives : l # k => Joining(t, l) = {}
    BY <1>d, <2>2 DEF CallbackHeldOnce, HeldInOnePlace
  <2>4. \A t \in DOMAIN f : t \notin registering' /\ \A l \in Collectives : Joining(t, l)' = {}
    <3>1. TAKE t \in DOMAIN f
    <3>2. Joining(t, k)' = {} /\ \A l \in Collectives : l # k => Joining(t, l)' = Joining(t, l)
      BY <1>d, JoiningCleared
    <3>3. QED
      BY <1>d, <2>1, <2>3, <3>1, <3>2
  <2>5. \A t \in Threads \ DOMAIN f : \A l \in Collectives : Joining(t, l)' = Joining(t, l)
    <3>1. TAKE t \in Threads \ DOMAIN f
    <3>2. Joining(t, k)' = {} /\ \A l \in Collectives : l # k => Joining(t, l)' = Joining(t, l)
      BY <1>d, JoiningCleared
    <3>3. Joining(t, k) = {}
      BY <1>d, JoiningCallers
    <3>4. QED
      BY <3>2, <3>3
  <2>6. \A t \in DOMAIN f : t # c => t \in registering \/ \E l \in Collectives : Joining(t, l) # {}
    BY <1>d, <2>2
  <2>7. c \in DOMAIN f /\ k # "reset" /\ \A t \in Threads : t \in registering' <=> t \in registering
    BY <1>d, <1>r
  <2>8. QED
    BY <1>d, <1>c, <2>4, <2>5, <2>6, <2>7, HandlerHeld
<1>4. ASSUME NEW k \in Collectives, CallMismatch(k) PROVE CallbackHeldOnce'
  <2> DEFINE err == JoinError(calls[k], Head(queue))
  <2>1. err \in Errors
    BY <1>4, <1>m, ErrorTypes DEF CallMismatch, Receive, Incoming
  <2>2. \A t : (IF t = c THEN Plain("LocalServerMissing") ELSE Plain(err)) # Pending
    <3> HIDE DEF err
    <3> QED BY <2>1, <1>p DEF Errors
  <2>3. QED
    BY <1>4, <1>c, <1>d, <2>2 DEF CallMismatch
<1>5. ASSUME NEW k \in Collectives, CallWaits(k) PROVE CallbackHeldOnce'
  <2>1. Head(queue) \in Message /\ Receive(k)
    BY <1>5, <1>m DEF CallWaits, Receive, Incoming
  <2>2. c \in Threads /\ c \notin registering /\ \A l \in Collectives : Joining(c, l) = {}
    BY <2>1, <1>h, <1>r
  <2>3. /\ \A t : \A l \in Collectives : l # k \/ t # c => Joining(t, l)' = Joining(t, l)
        /\ \E p : Joining(c, k)' = {p}
    <3>1. PICK m \in Message : m = Head(queue) /\ m.from = c
      BY <1>c, <2>1
    <3>2. calls' = [calls EXCEPT ![k] = Append(calls[k], m)]
      BY <1>5, <3>1 DEF CallWaits, Joined
    <3>3. PICK p : p = Len(calls[k]) + 1
      OBVIOUS
    <3>4. /\ DOMAIN calls'[k] = DOMAIN calls[k] \cup {p}
          /\ \A i \in DOMAIN calls[k] : i # p /\ calls'[k][i] = calls[k][i]
          /\ calls'[k][p] = m
          /\ \A l \in Collectives : l # k => calls'[l] = calls[l]
      BY <3>2, <3>3, AppendedCalls
    <3>5. ASSUME NEW t, NEW l \in Collectives, l # k \/ t # c
          PROVE  Joining(t, l)' = Joining(t, l)
      BY <3>1, <3>4, <3>5 DEF Joining
    <3>6. Joining(c, k)' = {p}
      BY <2>2, <3>1, <3>4 DEF Joining
    <3>7. QED
      BY <3>5, <3>6
  <2>4. PICK p : Joining(c, k)' = {p}
    BY <2>3
  <2>5. QED
    <3>1. reply' = reply /\ registering' = registering
      BY <1>5 DEF CallWaits
    <3>2. c \notin registering' /\ \A o \in Collectives \ {k} : Joining(c, o)' = {}
      BY <2>2, <2>3, <3>1
    <3>3. \A t \in Threads \ {c} : \A l \in Collectives : Joining(t, l)' = Joining(t, l)
      BY <2>3
    <3>4. QED
      BY <1>c, <1>r, <2>1, <2>4, <3>1, <3>2, <3>3, StoredHeld
<1>6. ASSUME NEW k \in Collectives, CallExecutes(k) PROVE CallbackHeldOnce'
  <2>1. Head(queue) \in Message /\ Receive(k)
    BY <1>6, <1>m DEF CallExecutes, Receive, Incoming
  <2>2. Joined(k) \in Seq(Message)
    BY <2>1 DEF Joined, TypeOK
  <2>3. Callers(Joined(k)) = Callers(calls[k]) \cup {c}
    <3> DEFINE cs == calls[k]
    <3>1. cs \in Seq(Message)
      BY DEF TypeOK
    <3>2. /\ DOMAIN Joined(k) = DOMAIN cs \cup {Len(cs) + 1}
          /\ \A i \in DOMAIN cs : Joined(k)[i] = cs[i]
          /\ Joined(k)[Len(cs) + 1] = Head(queue)
      BY <2>1, <3>1 DEF Joined
    <3>3. QED
      BY <1>c, <3>2 DEF Callers
  <2>4. PICK tag \in Outcomes(k, Joined(k)) :
          /\ ~Panics(k, Joined(k), tag)
          /\ Answer([t \in Callers(Joined(k)) |->
                       ResultFor(k, Joined(k), tag, PositionOf(Joined(k), t))])
    BY <1>6 DEF CallExecutes
  <2>7. tag \in {"ok", "none"} \cup Errors
    BY <2>4, OutcomesType DEF Panics
  <2>5. \A i : ResultFor(k, Joined(k), tag, i) # Pending
    BY <2>2, <2>7, ResultType
  <2>6. QED
    BY <1>6, <1>d, <2>1, <2>3, <2>4, <2>5 DEF CallExecutes
<1>7. ASSUME NEW k \in Collectives, CallPanicsServer(k) PROVE CallbackHeldOnce'
  <2>1. Joined(k) \in Seq(Message)
    BY <1>7, <1>m DEF CallPanicsServer, Incoming, Joined, TypeOK
  <2>2. \A i : ResultFor(k, Joined(k), "ok", i) # Pending
    BY <2>1, ResultType
  <2>3. Plain("LocalServerMissing") # Pending
    BY <1>p DEF Errors
  <2>4. \A t \in Threads : (\E i \in DOMAIN Joined(k) : Joined(k)[i].from = t) => Waiting(t)
    <3>1. \A i \in DOMAIN Joined(k) :
            Joined(k)[i] = Head(queue) \/ (i \in DOMAIN calls[k] /\ Joined(k)[i] = calls[k][i])
      BY <1>7, <1>m DEF CallPanicsServer, Incoming, Joined, TypeOK
    <3>2. c \in Threads => 1 \in Queued(c)
      BY <1>7, <1>c, <1>r, HeadType DEF CallPanicsServer, Incoming, Queued
    <3>3. \A t \in Threads : t = c \/ Joining(t, k) # {} => Held(t)
      BY <3>2 DEF Held
    <3>4. QED
      BY <1>c, <3>1, <3>3 DEF CallbackHeldOnce, Joining
  <2>5. \A t \in Threads : ~Waiting(t)' /\ (request'[t] = Idle => reply'[t] = Pending)
    <3>1. TAKE t \in Threads
    <3>2. request' = request /\ (request[t] = Idle => reply[t] = Pending)
      BY <1>7 DEF CallPanicsServer, CallbackHeldOnce
    <3>3. reply'[t] = reply[t] \/ (Waiting(t) /\ reply'[t] # Pending)
      BY <1>7, <2>2, <2>3, <2>4 DEF CallPanicsServer, Waiting
    <3>4. Waiting(t) => reply'[t] # Pending
      BY <1>7, <2>2, <2>3 DEF CallPanicsServer, Waiting
    <3>5. QED
      BY <3>2, <3>3, <3>4 DEF Waiting
  <2>6. queue' = <<>> /\ registering' = {} /\ \A l \in Collectives : calls'[l] = <<>>
    BY <1>7 DEF CallPanicsServer
  <2>7. \A t \in Threads : Queued(t)' = {} /\ \A l \in Collectives : Joining(t, l)' = {}
    BY <2>6 DEF Queued, Joining
  <2>8. QED
    BY <2>5, <2>6, <2>7 DEF CallbackHeldOnce, Held, HeldInOnePlace
<1>8. CASE Reset
  <2> DEFINE W == UNION {Callers(calls[l]) : l \in Collectives}
  <2>1. /\ queue # <<>> /\ queue' = Tail(queue) /\ Head(queue).req.kind = "reset"
        /\ request' = request /\ registering' = registering
        /\ \A l \in Collectives : calls'[l] = <<>>
    BY <1>8 DEF Reset, Receive, Incoming
  <2>2. \A t : t \in W <=> \E l \in Collectives : Joining(t, l) # {}
    BY JoiningCallers
  <2>3. \A t \in Threads : Waiting(t)' <=> (Waiting(t) /\ t \notin W)
    BY <1>8, <1>p, <2>1, AnswerWaiting DEF Reset, Errors
  <2>4. \A t \in Threads : t \notin W => reply'[t] = reply[t]
    BY <1>8 DEF Reset, Answer
  <2>5. SUFFICES ASSUME NEW t \in Threads
                 PROVE  /\ Waiting(t)' <=> Held(t)'
                        /\ HeldInOnePlace(t)'
                        /\ request'[t] = Idle => reply'[t] = Pending
    BY DEF CallbackHeldOnce
  <2>6. /\ Waiting(t) <=> Held(t)
        /\ HeldInOnePlace(t)
        /\ request[t] = Idle => reply[t] = Pending
    BY DEF CallbackHeldOnce
  <2>7. (Queued(t)' = {} <=> Queued(t) = {}) /\ \A i, j \in Queued(t)' : i = j
    <3>1. \A i \in Queued(t) : i \in Nat /\ i > 1
      BY <2>1, HeadType DEF Queued, TypeOK
    <3>2. \A i \in Queued(t) : i - 1 \in Queued(t)'
      BY <2>1, <3>1, TailQueued
    <3>3. \A i \in Queued(t)' : i \in Nat /\ i + 1 \in Queued(t)
      BY <2>1, TailQueued
    <3>4. QED
      BY <2>6, <3>2, <3>3 DEF HeldInOnePlace
  <2>8. \A l \in Collectives : Joining(t, l)' = {}
    BY <2>1 DEF Joining
  <2> HIDE DEF W
  <2>9. request'[t] = Idle => reply'[t] = Pending
    BY <2>1, <2>2, <2>4, <2>6 DEF Held, Waiting
  <2>10. QED
    BY <2>1, <2>2, <2>3, <2>6, <2>7, <2>8, <2>9 DEF Held, HeldInOnePlace
<1>9. CASE FinishRejected
  BY <1>9, <1>o, <1>r DEF FinishRejected, server, Errors
<1>10. CASE Finish
  BY <1>10, <1>o, <1>r DEF Finish
<1>11. QED
  BY <1>1, <1>2, <1>3, <1>4, <1>5, <1>6, <1>7, <1>8, <1>9, <1>10 DEF ServerStep

(* Every step of a client thread keeps one place per callback.              *)
LEMMA ThreadStepHeld ==
  ASSUME TypeOK, CallbackHeldOnce, NEW u \in Threads, ThreadStep(u)
  PROVE  CallbackHeldOnce'
<1>1. SUFFICES ASSUME NEW t \in Threads
               PROVE  /\ Waiting(t)' <=> Held(t)'
                      /\ HeldInOnePlace(t)'
                      /\ request'[t] = Idle => reply'[t] = Pending
  BY DEF CallbackHeldOnce
<1>2. /\ Waiting(t) <=> Held(t)
      /\ HeldInOnePlace(t)
      /\ request[t] = Idle => reply[t] = Pending
  BY DEF CallbackHeldOnce
<1>3. registering' = registering /\ \A l \in Collectives : Joining(t, l)' = Joining(t, l)
  BY JoiningUnchanged
     DEF ThreadStep, Call, CallInvalid, CallReset, CallPanics, Return, server
<1>4. ASSUME NEW m \in Message, queue' = Append(queue, m)
      PROVE  /\ m.req.kind = "reset" \/ m.from # t => Queued(t)' = Queued(t)
             /\ m.req.kind # "reset" /\ m.from = t =>
                  \E p : Queued(t)' = Queued(t) \cup {p}
  <2>1. /\ DOMAIN queue' = DOMAIN queue \cup {Len(queue) + 1}
        /\ \A i \in DOMAIN queue : i # Len(queue) + 1 /\ queue'[i] = queue[i]
        /\ queue'[Len(queue) + 1] = m
    BY <1>4 DEF TypeOK
  <2>2. PICK p : p = Len(queue) + 1
    OBVIOUS
  <2>3. m.req.kind = "reset" \/ m.from # t => Queued(t)' = Queued(t)
    BY <2>1 DEF Queued
  <2>4. m.req.kind # "reset" /\ m.from = t => Queued(t)' = Queued(t) \cup {p}
    BY <2>1, <2>2 DEF Queued
  <2>5. QED
    BY <2>3, <2>4
<1>5. CASE Call(u)
  <2>1. PICK r \in NextCalls(u) :
          /\ r.kind # "reset"
          /\ queue' = Append(queue, [req |-> r, from |-> u, n |-> issued[u] + 1])
          /\ request' = [request EXCEPT ![u] = r]
          /\ reply' = reply
    BY <1>5 DEF Call
  <2>2. r \in Request /\ r # Idle /\ request[u] = Idle
    <3>1. r \in Request
      BY NextCallsType
    <3>2. request[u] = Idle
      BY <2>1 DEF NextCalls
    <3>3. r.kind # Idle.kind
      BY <3>1, RequestKinds DEF Idle
    <3>4. QED
      BY <3>1, <3>2, <3>3
  <2>3. PICK m \in Message : m = [req |-> r, from |-> u, n |-> issued[u] + 1]
    <3>1. [req |-> r, from |-> u, n |-> issued[u] + 1] \in Message
      BY <2>2 DEF Message, TypeOK
    <3>2. QED
      BY <3>1
  <2>4. m.req.kind # "reset" /\ m.from = u /\ queue' = Append(queue, m)
    BY <2>1, <2>3
  <2>5. CASE t = u
    <3>1. \E p : Queued(t)' = Queued(t) \cup {p}
      BY <1>4, <2>4, <2>5
    <3>2. ~Held(t) /\ Waiting(t)'
      BY <1>2, <2>1, <2>2, <2>5 DEF Waiting, TypeOK
    <3>3. QED
      BY <1>3, <3>1, <3>2 DEF Held, HeldInOnePlace, Waiting
  <2>6. CASE t # u
    <3>1. Queued(t)' = Queued(t)
      BY <1>4, <2>4, <2>6
    <3>2. request'[t] = request[t] /\ reply'[t] = reply[t]
      BY <2>1, <2>6 DEF TypeOK
    <3>3. QED
      BY <1>2, <1>3, <3>1, <3>2 DEF Held, HeldInOnePlace, Waiting
  <2>7. QED
    BY <2>5, <2>6
<1>6. CASE CallInvalid(u)
  <2>1. Queued(t)' = Queued(t)
    BY <1>6 DEF CallInvalid, Queued
  <2>2. PICK r \in NextCalls(u) :
          /\ request' = [request EXCEPT ![u] = r]
          /\ reply' = [reply EXCEPT ![u] = Plain("InvalidConfig")]
    BY <1>6 DEF CallInvalid
  <2>3. r # Idle /\ request[u] = Idle /\ Plain("InvalidConfig") # Pending
    <3>1. r \in Request
      BY NextCallsType
    <3>2. request[u] = Idle
      BY <2>2 DEF NextCalls
    <3>3. r.kind # Idle.kind
      BY <3>1, RequestKinds DEF Idle
    <3>4. QED
      BY <3>2, <3>3, PlainType DEF Errors
  <2>4. (Waiting(t)' <=> Waiting(t)) /\ (request'[t] = Idle => reply'[t] = Pending)
    BY <1>2, <2>2, <2>3 DEF Waiting, TypeOK
  <2>5. QED
    BY <1>2, <1>3, <2>1, <2>4 DEF Held, HeldInOnePlace
<1>7. CASE CallReset(u)
  <2>1. PICK r \in NextCalls(u) :
          /\ r.kind = "reset"
          /\ queue' = Append(queue, [req |-> r, from |-> u, n |-> issued[u] + 1])
    BY <1>7 DEF CallReset
  <2>2. PICK m \in Message : m = [req |-> r, from |-> u, n |-> issued[u] + 1]
    <3>1. r \in Request
      BY NextCallsType
    <3>2. [req |-> r, from |-> u, n |-> issued[u] + 1] \in Message
      BY <3>1 DEF Message, TypeOK
    <3>3. QED
      BY <3>2
  <2>3. Queued(t)' = Queued(t)
    BY <1>4, <2>1, <2>2
  <2>4. QED
    BY <1>2, <1>3, <1>7, <2>3 DEF CallReset, Held, HeldInOnePlace, Waiting
<1>8. CASE CallPanics(u)
  <2>1. Queued(t)' = Queued(t)
    BY <1>8 DEF CallPanics, Queued
  <2>2. QED
    BY <1>2, <1>3, <1>8, <2>1 DEF CallPanics, Held, HeldInOnePlace, Waiting
<1>9. CASE Return(u)
  <2>1. Queued(t)' = Queued(t)
    BY <1>9 DEF Return, Queued
  <2>2. (Waiting(t)' <=> Waiting(t)) /\ (request'[t] = Idle => reply'[t] = Pending)
    BY <1>2, <1>9 DEF Return, Waiting, TypeOK
  <2>3. QED
    BY <1>2, <1>3, <2>1, <2>2 DEF Held, HeldInOnePlace
<1>10. QED
  BY <1>5, <1>6, <1>7, <1>8, <1>9 DEF ThreadStep

(* Initially no callback is held and no thread waits.                       *)
LEMMA InitHeld == Init => CallbackHeldOnce
<1>1. ASSUME Init, NEW t \in Threads
      PROVE  /\ Queued(t) = {} /\ registering = {} /\ ~Waiting(t)
             /\ \A k \in Collectives : Joining(t, k) = {}
  BY <1>1 DEF Init, Queued, Joining, Waiting
<1>2. QED
  BY <1>1 DEF Init, CallbackHeldOnce, Held, HeldInOnePlace

(* Whatever the threads call and whenever they call it, the callback of a   *)
(* waiting thread is held in exactly one place of the server.               *)
THEOREM OneCallbackHolder == Spec => []CallbackHeldOnce
<1>1. TypeOK /\ CallbackHeldOnce /\ [Next]_vars => CallbackHeldOnce'
  <2>1. CASE UNCHANGED vars
    BY <2>1 DEF vars, server, CallbackHeldOnce, Held, HeldInOnePlace, Waiting, Queued, Joining
  <2>2. QED
    BY <2>1, ServerStepHeld, ThreadStepHeld DEF Next, Done
<1>2. QED
  BY <1>1, InitHeld, TypeCorrect, PTL DEF Spec

-----------------------------------------------------------------------------
(* The server answers waiting threads only. *)
LEMMA AnswersWaiting ==
  ASSUME TypeOK, CallbackHeldOnce, ServerStep, NEW t \in Threads, reply[t] # Pending
  PROVE  reply'[t] = reply[t]
<1>1. ~Held(t)
  BY DEF CallbackHeldOnce, Waiting
<1>2. t \notin registering /\ \A l \in Collectives : t \notin Callers(calls[l])
  BY <1>1, JoiningCallers DEF Held
<1>3. ASSUME NEW k, k # "reset", Incoming(k) PROVE Head(queue).from # t
  <2>1. 1 \notin Queued(t)
    BY <1>1 DEF Held
  <2>2. QED
    BY <1>3, <2>1, HeadType DEF Incoming, Queued
<1>4. CASE RegisterRejected
  BY <1>3, <1>4 DEF RegisterRejected, Receive, Answer
<1>5. CASE RegisterAccepted
  <2>1. t \notin registering \cup {Head(queue).from}
    BY <1>2, <1>3, <1>5 DEF RegisterAccepted, Receive
  <2>2. QED
    BY <1>5, <2>1 DEF RegisterAccepted, Answer
<1>6. ASSUME NEW k \in Collectives, NotAdmitted(k) PROVE reply'[t] = reply[t]
  BY <1>3, <1>6 DEF NotAdmitted, Receive, Answer, Collectives
<1>7. ASSUME NEW k \in Collectives, CallMismatch(k) PROVE reply'[t] = reply[t]
  <2>1. t \notin Callers(calls[k]) \cup {Head(queue).from}
    BY <1>2, <1>3, <1>7 DEF CallMismatch, Receive, Collectives
  <2>2. QED
    BY <1>7, <2>1 DEF CallMismatch, Answer
<1>8. ASSUME NEW k \in Collectives, CallWaits(k) PROVE reply'[t] = reply[t]
  BY <1>8 DEF CallWaits
<1>9. ASSUME NEW k \in Collectives, Incoming(k) PROVE t \notin Callers(Joined(k))
  <2>1. Head(queue).from # t /\ Head(queue) \in Message
    BY <1>3, <1>9, HeadType DEF Collectives, Incoming
  <2>2. \A i \in DOMAIN Joined(k) :
          Joined(k)[i] = Head(queue) \/ (i \in DOMAIN calls[k] /\ Joined(k)[i] = calls[k][i])
    BY <2>1 DEF Joined, TypeOK
  <2>3. QED
    BY <1>2, <2>1, <2>2 DEF Callers
<1>10. ASSUME NEW k \in Collectives, CallExecutes(k) PROVE reply'[t] = reply[t]
  BY <1>9, <1>10 DEF CallExecutes, Receive, Answer
<1>11. ASSUME NEW k \in Collectives, CallPanicsServer(k) PROVE reply'[t] = reply[t]
  <2>1. \A i \in DOMAIN Joined(k) : Joined(k)[i].from # t
    BY <1>9, <1>11 DEF CallPanicsServer, Callers
  <2>2. QED
    BY <1>11, <2>1 DEF CallPanicsServer
<1>12. CASE Reset
  <2>1. t \notin UNION {Callers(calls[l]) : l \in Collectives}
    BY <1>2
  <2>2. QED
    BY <1>12, <2>1 DEF Reset, Answer
<1>13. CASE FinishRejected
  BY <1>3, <1>13 DEF FinishRejected, Receive, Answer
<1>14. CASE Finish
  BY <1>3, <1>14 DEF Finish, Receive, Answer
<1>15. QED
  BY <1>4, <1>5, <1>6, <1>7, <1>8, <1>10, <1>11, <1>12, <1>13, <1>14 DEF ServerStep

(* No callback is sent a second value, so no send of the server blocks on a *)
(* full callback channel.                                                   *)
THEOREM AtMostOneAnswer == Spec => AnsweredOnce
<1>1. TypeOK /\ CallbackHeldOnce /\ [Next]_vars
        => [\A t \in Threads : reply[t] # Pending => reply'[t] \in {reply[t], Pending}]_vars
  <2>1. SUFFICES ASSUME TypeOK, CallbackHeldOnce, Next, NEW t \in Threads, reply[t] # Pending
                 PROVE  reply'[t] \in {reply[t], Pending}
    OBVIOUS
  <2>2. CASE ServerStep
    BY <2>1, <2>2, AnswersWaiting
  <2>3. CASE Done
    BY <2>3 DEF Done, vars
  <2>4. ASSUME NEW u \in Threads, ThreadStep(u) PROVE reply'[t] \in {reply[t], Pending}
    <3>1. CASE CallInvalid(u)
      <4>1. request[u] = Idle /\ reply[u] = Pending
        BY <2>1, <3>1 DEF CallInvalid, NextCalls, CallbackHeldOnce
      <4>2. QED
        BY <2>1, <3>1, <4>1 DEF CallInvalid, TypeOK
    <3>2. CASE Return(u)
      BY <2>1, <3>2 DEF Return, TypeOK
    <3>3. CASE Call(u) \/ CallReset(u) \/ CallPanics(u)
      BY <3>3 DEF Call, CallReset, CallPanics
    <3>4. QED
      BY <2>4, <3>1, <3>2, <3>3 DEF ThreadStep
  <2>5. QED
    BY <2>1, <2>2, <2>3, <2>4 DEF Next
<1>2. QED
  BY <1>1, TypeCorrect, OneCallbackHolder, PTL DEF Spec, AnsweredOnce

(* The handlers never unwrap a missing configuration or device.             *)
THEOREM UnwrapsHitValues == Spec => []UnwrapsDefined
<1>1. Init => UnwrapsDefined
  BY DEF Init, UnwrapsDefined
<1>2. TypeOK /\ UnwrapsDefined /\ [Next]_vars => UnwrapsDefined'
  <2>1. SUFFICES ASSUME TypeOK, UnwrapsDefined, [Next]_vars PROVE UnwrapsDefined'
    OBVIOUS
  <2>2. CASE RegisterAccepted
    <3>1. Head(queue).req.arg.valid
      BY <2>2 DEF RegisterAccepted, RegisterError
    <3>2. QED
      BY <2>1, <2>2, <3>1 DEF RegisterAccepted, UnwrapsDefined, NoConfig
  <2>3. CASE Finish
    BY <2>1, <2>3 DEF Finish, UnwrapsDefined
  <2>4. CASE Reset
    BY <2>4 DEF Reset, UnwrapsDefined
  <2>5. ASSUME NEW k \in Collectives, CallPanicsServer(k) PROVE UnwrapsDefined'
    BY <2>5 DEF CallPanicsServer, UnwrapsDefined
  <2>6. CASE UNCHANGED <<config, peers, devices>>
    BY <2>1, <2>6 DEF UnwrapsDefined
  <2>7. QED
    BY <2>1, <2>2, <2>3, <2>4, <2>5, <2>6
       DEF Next, ServerStep, ThreadStep, Done, vars, server, RegisterRejected, NotAdmitted,
           CallMismatch, CallWaits, CallExecutes, FinishRejected, Call, CallInvalid,
           CallReset, CallPanics, Return
<1>3. QED
  BY <1>1, <1>2, TypeCorrect, PTL DEF Spec

-----------------------------------------------------------------------------
(* A step of the server takes a message from the channel, or drops all of   *)
(* them, and leaves, drops or extends by that message each operation.       *)
LEMMA ServerStepCalls ==
  ASSUME TypeOK, ServerStep
  PROVE  /\ request' = request
         /\ queue' = <<>> \/ (queue # <<>> /\ queue' = Tail(queue))
         /\ \A k \in Collectives : \/ calls'[k] = calls[k] \/ calls'[k] = <<>>
                                   \/ Incoming(k) /\ Joins(k) /\ calls'[k] = Joined(k)
<1>1. CASE RegisterRejected \/ RegisterAccepted \/ FinishRejected \/ Finish
  BY <1>1 DEF RegisterRejected, RegisterAccepted, FinishRejected, Finish, Receive, Incoming, server
<1>2. ASSUME NEW k \in Collectives, NotAdmitted(k) PROVE UNCHANGED <<request, calls>>
  BY <1>2 DEF NotAdmitted, Receive, server
<1>3. ASSUME NEW k \in Collectives, CallMismatch(k) \/ CallExecutes(k)
      PROVE  request' = request /\ calls' = [calls EXCEPT ![k] = <<>>]
  BY <1>3 DEF CallMismatch, CallExecutes, Receive
<1>4. ASSUME NEW k \in Collectives, CallWaits(k)
      PROVE  request' = request /\ Joins(k) /\ calls' = [calls EXCEPT ![k] = Joined(k)]
  BY <1>4 DEF CallWaits, Receive
<1>5. ASSUME NEW k \in Collectives,
             NotAdmitted(k) \/ CallMismatch(k) \/ CallExecutes(k) \/ CallWaits(k)
      PROVE  Incoming(k) /\ queue # <<>> /\ queue' = Tail(queue)
  BY <1>5 DEF NotAdmitted, CallMismatch, CallExecutes, CallWaits, Receive, Incoming
<1>6. ASSUME NEW k \in Collectives, CallPanicsServer(k)
      PROVE  request' = request /\ queue' = <<>> /\ \A l \in Collectives : calls'[l] = <<>>
  BY <1>6 DEF CallPanicsServer
<1>7. CASE Reset
  BY <1>7 DEF Reset, Receive, Incoming
<1>8. ASSUME NEW k \in Collectives,
             NotAdmitted(k) \/ CallMismatch(k) \/ CallExecutes(k) \/ CallWaits(k)
      PROVE  /\ request' = request
             /\ queue # <<>> /\ queue' = Tail(queue)
             /\ \A l \in Collectives : \/ calls'[l] = calls[l] \/ calls'[l] = <<>>
                                       \/ Incoming(l) /\ Joins(l) /\ calls'[l] = Joined(l)
  <2>1. DOMAIN calls = Collectives
    BY DEF TypeOK
  <2> QED
    BY <1>2, <1>3, <1>4, <1>5, <1>8, <2>1
<1> QED
  BY <1>1, <1>6, <1>7, <1>8 DEF ServerStep

(* The calls of an operation that the message at the head of the channel    *)
(* has joined.                                                              *)
LEMMA JoinedElements ==
  ASSUME TypeOK, NEW k \in Collectives, queue # <<>>
  PROVE  /\ Joined(k) \in Seq(Message) /\ Len(calls[k]) \in Nat
         /\ DOMAIN calls[k] = 1 .. Len(calls[k])
         /\ DOMAIN Joined(k) = 1 .. Len(calls[k]) + 1
         /\ Joined(k)[Len(calls[k]) + 1] = Head(queue)
         /\ \A i \in 1 .. Len(calls[k]) : Joined(k)[i] = calls[k][i]
<1>1. Head(queue) \in Message /\ calls[k] \in Seq(Message)
  BY HeadType DEF TypeOK
<1> QED
  BY <1>1 DEF Joined

(* The server holds the calls its threads are blocked in.                   *)
LEMMA ServerStepRequests ==
  ASSUME TypeOK, HeldRequests, ServerStep
  PROVE  HeldRequests'
<1>1. /\ request' = request
      /\ queue' = <<>> \/ (queue # <<>> /\ queue' = Tail(queue))
      /\ \A k \in Collectives : \/ calls'[k] = calls[k] \/ calls'[k] = <<>>
                                \/ Incoming(k) /\ Joins(k) /\ calls'[k] = Joined(k)
  BY ServerStepCalls
<1>2. ASSUME NEW i \in DOMAIN queue', queue'[i].req.kind # "reset"
      PROVE  request[queue'[i].from] = queue'[i].req
  <2>1. queue # <<>> /\ queue' = Tail(queue)
    BY <1>1, <1>2
  <2>2. i + 1 \in DOMAIN queue /\ queue'[i] = queue[i + 1]
    BY <2>1, HeadType DEF TypeOK
  <2> QED
    BY <1>2, <2>2 DEF HeldRequests
<1>3. ASSUME NEW k \in Collectives, NEW i \in DOMAIN calls'[k]
      PROVE  calls'[k][i].req.kind = k /\ request[calls'[k][i].from] = calls'[k][i].req
  <2>1. CASE calls'[k] = calls[k]
    BY <2>1 DEF HeldRequests
  <2>2. CASE Incoming(k) /\ calls'[k] = Joined(k)
    <3>1. queue # <<>> /\ Head(queue).req.kind = k /\ k # "reset"
      BY <2>2 DEF Incoming, Collectives
    <3>2. 1 \in DOMAIN queue /\ Head(queue) = queue[1]
      BY <3>1, HeadType
    <3>3. request[Head(queue).from] = Head(queue).req
      BY <3>1, <3>2 DEF HeldRequests
    <3>4. i = Len(calls[k]) + 1 \/ i \in DOMAIN calls[k]
      BY <2>2, <3>1, JoinedElements
    <3> QED
      BY <2>2, <3>1, <3>3, <3>4, JoinedElements DEF HeldRequests
  <2> QED
    BY <1>1, <1>3, <2>1, <2>2
<1> QED
  BY <1>1, <1>2, <1>3 DEF HeldRequests

(* A thread calls when nothing of it is held.                               *)
LEMMA ThreadStepRequests ==
  ASSUME TypeOK, CallbackHeldOnce, HeldRequests, NEW t \in Threads, ThreadStep(t)
  PROVE  HeldRequests'
<1>1. calls' = calls
  BY DEF ThreadStep, Call, CallInvalid, CallReset, CallPanics, Return, server
<1>2. request' = request \/ (~Waiting(t) /\ \E r : request' = [request EXCEPT ![t] = r])
  BY DEF ThreadStep, Call, CallInvalid, CallReset, CallPanics, Return, NextCalls, Waiting
<1>0. \A m \in Message : m.from \in Threads
  BY DEF Message
<1>3. \A k \in Collectives : \A i \in DOMAIN calls[k] : calls[k][i].from \in Threads
  <2>1. \A k \in Collectives : calls[k] \in Seq(Message)
    BY DEF TypeOK
  <2>2. \A k \in Collectives : \A i \in DOMAIN calls[k] : calls[k][i] \in Message
    BY <2>1
  <2> QED
    BY <1>0, <2>2
<1>4. \A i \in DOMAIN queue : queue[i].from \in Threads
  <2>1. \A i \in DOMAIN queue : queue[i] \in Message
    BY DEF TypeOK
  <2> QED
    BY <1>0, <2>1
<1>5. ~Waiting(t) => /\ \A i \in DOMAIN queue : queue[i].req.kind # "reset" => queue[i].from # t
                     /\ \A k \in Collectives : \A i \in DOMAIN calls[k] : calls[k][i].from # t
  BY DEF CallbackHeldOnce, Held, Queued, Joining
<1>6. \A u \in Threads : u # t => request'[u] = request[u]
  BY <1>2 DEF TypeOK
<1>7. /\ \A i \in DOMAIN queue :
           queue[i].req.kind # "reset" => request'[queue[i].from] = queue[i].req
      /\ \A k \in Collectives : \A i \in DOMAIN calls[k] :
           calls[k][i].req.kind = k /\ request'[calls[k][i].from] = calls[k][i].req
  BY <1>2, <1>3, <1>4, <1>5, <1>6 DEF HeldRequests
<1>8. CASE queue' = queue
  BY <1>1, <1>7, <1>8 DEF HeldRequests
<1>9. CASE Call(t) \/ CallReset(t)
  <2>1. PICK r \in NextCalls(t) :
          /\ queue' = Append(queue, [req |-> r, from |-> t, n |-> issued[t] + 1])
          /\ r.kind = "reset" \/ request' = [request EXCEPT ![t] = r]
    BY <1>9 DEF Call, CallReset
  <2>2. r \in Request /\ issued[t] + 1 \in Nat
    BY NextCallsType DEF TypeOK
  <2> DEFINE m == [req |-> r, from |-> t, n |-> issued[t] + 1]
  <2>3. m \in Message /\ queue \in Seq(Message) /\ m.req = r /\ m.from = t
    BY <2>2 DEF Message, TypeOK
  <2>4. queue' = Append(queue, m)
    BY <2>1
  <2> HIDE DEF m
  <2>5. /\ DOMAIN queue = 1 .. Len(queue) /\ DOMAIN queue' = 1 .. Len(queue) + 1
        /\ queue'[Len(queue) + 1] = m /\ \A i \in DOMAIN queue : queue'[i] = queue[i]
        /\ Len(queue) \in Nat
    BY <2>3, <2>4
  <2>6. r.kind # "reset" => request'[t] = r
    BY <2>1 DEF TypeOK
  <2>7. \A i \in DOMAIN queue' :
          queue'[i].req.kind # "reset" => request'[queue'[i].from] = queue'[i].req
    <3> SUFFICES ASSUME NEW i \in DOMAIN queue', queue'[i].req.kind # "reset"
                 PROVE  request'[queue'[i].from] = queue'[i].req
      OBVIOUS
    <3>1. i \in DOMAIN queue \/ i = Len(queue) + 1
      BY <2>5
    <3> QED
      BY <3>1, <2>3, <2>5, <2>6, <1>7
  <2> QED
    BY <1>1, <1>7, <2>7 DEF HeldRequests
<1> QED
  BY <1>8, <1>9 DEF ThreadStep, CallInvalid, CallPanics, Return

(* Whatever the server holds of a thread is the call it is blocked in.      *)
LEMMA RequestsHeld == Spec => []HeldRequests
<1>1. Init => HeldRequests
  BY DEF Init, HeldRequests
<1>2. TypeOK /\ CallbackHeldOnce /\ HeldRequests /\ [Next]_vars => HeldRequests'
  <2> SUFFICES ASSUME TypeOK, CallbackHeldOnce, HeldRequests, [Next]_vars PROVE HeldRequests'
    OBVIOUS
  <2>1. CASE UNCHANGED vars
    BY <2>1 DEF vars, server, HeldRequests
  <2> QED
    BY <2>1, ServerStepRequests, ThreadStepRequests DEF Next, Done
<1> QED
  BY <1>1, <1>2, TypeCorrect, OneCallbackHolder, PTL DEF Spec

-----------------------------------------------------------------------------
(* A call that joins an all-reduce or a reduce has the parameters of its    *)
(* first call.                                                              *)
LEMMA JoinsLikeFirst ==
  ASSUME NEW cs, NEW m \in Message, NEW first \in Message, cs # <<>>, cs[1] = first,
         m.req.kind \in {"all_reduce", "reduce"}, first.req.kind = m.req.kind,
         JoinError(cs, m) = "ok"
  PROVE  m.req.arg = first.req.arg
<1>1. m.req \in Request /\ first.req \in Request
  BY DEF Message
<1>2. CASE m.req.kind = "all_reduce"
  <2>1. m.req.arg \in [shape : Shapes, op : Ops] /\ first.req.arg \in [shape : Shapes, op : Ops]
    BY <1>1, <1>2 DEF Request
  <2>2. first.req.arg.shape = m.req.arg.shape /\ first.req.arg.op = m.req.arg.op
    BY <1>2 DEF JoinError
  <2> QED
    BY <2>1, <2>2
<1>3. CASE m.req.kind = "reduce"
  <2>1. /\ m.req.arg \in [shape : Shapes, op : Ops, root : Peers]
        /\ first.req.arg \in [shape : Shapes, op : Ops, root : Peers]
    BY <1>1, <1>3 DEF Request
  <2>2. /\ first.req.arg.shape = m.req.arg.shape /\ first.req.arg.op = m.req.arg.op
        /\ first.req.arg.root = m.req.arg.root
    BY <1>3 DEF JoinError
  <2> QED
    BY <2>1, <2>2
<1> QED
  BY <1>2, <1>3

(* The calls of a pending operation agree on its parameters, whatever the   *)
(* threads call and however operations fail, are reset or are left over.    *)
THEOREM PendingOperationsAgree == Spec => []PendingCallsAgree
<1>1. Init => PendingCallsAgree
  BY DEF Init, PendingCallsAgree, Collectives
<1>2. ASSUME TypeOK, HeldRequests, PendingCallsAgree, ServerStep PROVE PendingCallsAgree'
  <2>1. \A k \in Collectives : \/ calls'[k] = calls[k] \/ calls'[k] = <<>>
                               \/ Incoming(k) /\ Joins(k) /\ calls'[k] = Joined(k)
    BY <1>2, ServerStepCalls
  <2>2. ASSUME NEW k \in Collectives, Incoming(k), Joins(k)
        PROVE  /\ queue # <<>> /\ Head(queue) \in Message /\ Head(queue).req.kind = k
               /\ JoinError(calls[k], Head(queue)) = "ok"
    BY <1>2, <2>2, HeadType DEF Incoming, Joins
  <2>3. ASSUME NEW k \in {"all_reduce", "reduce"}, NEW i \in DOMAIN calls'[k],
               NEW j \in DOMAIN calls'[k]
        PROVE  calls'[k][i].req.arg = calls'[k][j].req.arg
    <3>0. k \in Collectives
      BY DEF Collectives
    <3>1. CASE calls'[k] = calls[k]
      BY <1>2, <3>1 DEF PendingCallsAgree
    <3>2. CASE Incoming(k) /\ Joins(k) /\ calls'[k] = Joined(k)
      <4>1. /\ queue # <<>> /\ Head(queue) \in Message /\ Head(queue).req.kind = k
            /\ JoinError(calls[k], Head(queue)) = "ok"
        BY <2>2, <3>0, <3>2
      <4>2. /\ DOMAIN calls[k] = 1 .. Len(calls[k]) /\ Len(calls[k]) \in Nat
            /\ DOMAIN Joined(k) = 1 .. Len(calls[k]) + 1
            /\ Joined(k)[Len(calls[k]) + 1] = Head(queue)
            /\ \A n \in 1 .. Len(calls[k]) : Joined(k)[n] = calls[k][n]
        BY <1>2, <3>0, <4>1, JoinedElements
      <4>3. ASSUME NEW n \in DOMAIN calls[k]
            PROVE  Head(queue).req.arg = calls[k][n].req.arg
        <5>1. 1 \in DOMAIN calls[k] /\ calls[k] # <<>>
          BY <4>2
        <5>2. calls[k][1] \in Message /\ calls[k][1].req.kind = k
          BY <1>2, <3>0, <5>1 DEF TypeOK, HeldRequests
        <5>3. Head(queue).req.arg = calls[k][1].req.arg
          BY <4>1, <5>1, <5>2, JoinsLikeFirst
        <5> QED
          BY <1>2, <5>1, <5>3 DEF PendingCallsAgree
      <4>4. ASSUME NEW n \in 1 .. Len(calls[k]) + 1
            PROVE  Joined(k)[n].req.arg = Head(queue).req.arg
        <5>1. n = Len(calls[k]) + 1 \/ n \in DOMAIN calls[k]
          BY <4>2
        <5> QED
          BY <5>1, <4>2, <4>3
      <4> QED
        BY <3>2, <4>2, <4>4
    <3> QED
      BY <2>1, <2>3, <3>0, <3>1, <3>2
  <2>4. ASSUME NEW i \in DOMAIN calls'["broadcast"], NEW j \in DOMAIN calls'["broadcast"],
               calls'["broadcast"][i].req.arg.tensor, calls'["broadcast"][j].req.arg.tensor
        PROVE  i = j
    <3> DEFINE k == "broadcast"
    <3>0. k \in Collectives
      BY DEF Collectives
    <3>1. CASE calls'[k] = calls[k]
      BY <1>2, <2>4, <3>1 DEF PendingCallsAgree
    <3>2. CASE Incoming(k) /\ Joins(k) /\ calls'[k] = Joined(k)
      <4>1. /\ queue # <<>> /\ Head(queue) \in Message /\ Head(queue).req.kind = k
            /\ JoinError(calls[k], Head(queue)) = "ok"
        BY <2>2, <3>0, <3>2
      <4>2. /\ DOMAIN calls[k] = 1 .. Len(calls[k]) /\ Len(calls[k]) \in Nat
            /\ DOMAIN Joined(k) = 1 .. Len(calls[k]) + 1
            /\ Joined(k)[Len(calls[k]) + 1] = Head(queue)
            /\ \A n \in 1 .. Len(calls[k]) : Joined(k)[n] = calls[k][n]
        BY <1>2, <3>0, <4>1, JoinedElements
      <4>3. ASSUME NEW n \in DOMAIN calls[k], Head(queue).req.arg.tensor
            PROVE  ~calls[k][n].req.arg.tensor
        <5>1. calls[k] # <<>>
          BY <4>2
        <5> QED
          BY <4>1, <4>3, <5>1 DEF JoinError
      <4>4. \A n \in DOMAIN Joined(k) : n = Len(calls[k]) + 1 \/ n \in DOMAIN calls[k]
        BY <4>2
      <4>5. i \in DOMAIN Joined(k) /\ j \in DOMAIN Joined(k)
            /\ Joined(k)[i].req.arg.tensor /\ Joined(k)[j].req.arg.tensor
        BY <2>4, <3>2
      <4>6. i \in DOMAIN calls[k] /\ j \in DOMAIN calls[k] => i = j
        BY <1>2, <4>2, <4>5 DEF PendingCallsAgree
      <4> QED
        BY <4>2, <4>3, <4>4, <4>5, <4>6
    <3> QED
      BY <2>1, <2>4, <3>0, <3>1, <3>2
  <2> QED
    BY <2>3, <2>4 DEF PendingCallsAgree
<1>3. TypeOK /\ HeldRequests /\ PendingCallsAgree /\ [Next]_vars => PendingCallsAgree'
  <2> SUFFICES ASSUME TypeOK, HeldRequests, PendingCallsAgree, [Next]_vars, ~ServerStep
               PROVE  PendingCallsAgree'
    BY <1>2
  <2>1. calls' = calls
    BY DEF Next, Done, vars, server, ThreadStep, Call, CallInvalid, CallReset, CallPanics, Return
  <2> QED
    BY <2>1 DEF PendingCallsAgree
<1> QED
  BY <1>1, <1>3, TypeCorrect, RequestsHeld, PTL DEF Spec

-----------------------------------------------------------------------------
(* Two calls of an operation with one peer id come from two threads that    *)
(* are both blocked in it.                                                  *)
LEMMA RepeatedShareId ==
  ASSUME TypeOK, CallbackHeldOnce, HeldRequests, NEW k \in Collectives, Incoming(k),
         Repeated(Joined(k)) # {}
  PROVE  SharedIds
<1>1. PICK i \in DOMAIN Joined(k) : \E j \in DOMAIN Joined(k) :
        j < i /\ Joined(k)[j].req.id = Joined(k)[i].req.id
  BY DEF Repeated
<1>2. PICK j \in DOMAIN Joined(k) : j < i /\ Joined(k)[j].req.id = Joined(k)[i].req.id
  BY <1>1
<1>3. queue # <<>> /\ Head(queue).req.kind = k /\ k # "reset"
  BY DEF Incoming, Collectives
<1>4. /\ Joined(k) \in Seq(Message) /\ Len(calls[k]) \in Nat
      /\ DOMAIN calls[k] = 1 .. Len(calls[k])
      /\ DOMAIN Joined(k) = 1 .. Len(calls[k]) + 1
      /\ Joined(k)[Len(calls[k]) + 1] = Head(queue)
      /\ \A n \in 1 .. Len(calls[k]) : Joined(k)[n] = calls[k][n]
  BY <1>3, JoinedElements
<1>5. Head(queue) = queue[1] /\ 1 \in DOMAIN queue /\ Head(queue) \in Message
  BY <1>3, HeadType
<1>6. ASSUME NEW n \in DOMAIN Joined(k)
      PROVE  /\ Joined(k)[n].from \in Threads
             /\ request[Joined(k)[n].from] = Joined(k)[n].req
             /\ Joined(k)[n].req # Idle
  <2>1. Joined(k)[n] \in Message
    BY <1>4
  <2>2. n = Len(calls[k]) + 1 \/ n \in DOMAIN calls[k]
    BY <1>4
  <2>3. request[Joined(k)[n].from] = Joined(k)[n].req /\ Joined(k)[n].req.kind = k
    BY <1>3, <1>4, <1>5, <2>2 DEF HeldRequests
  <2> QED
    BY <2>1, <2>3 DEF Message, Idle, Collectives
<1>7. Joined(k)[i].from # Joined(k)[j].from
  <2>1. j \in DOMAIN calls[k] /\ Joined(k)[j] = calls[k][j]
    BY <1>2, <1>4
  <2>2. CASE i = Len(calls[k]) + 1
    <3>1. 1 \in Queued(Head(queue).from) /\ Head(queue).from \in Threads
      BY <1>3, <1>5 DEF Queued, Message
    <3>2. Joining(Head(queue).from, k) = {}
      BY <3>1 DEF CallbackHeldOnce, HeldInOnePlace
    <3> QED
      BY <2>1, <2>2, <3>2, <1>4 DEF Joining
  <2>3. CASE i \in DOMAIN calls[k]
    <3>1. \A t \in Threads : \A a, b \in Joining(t, k) : a = b
      BY DEF CallbackHeldOnce, HeldInOnePlace
    <3>2. calls[k][i].from \in Threads /\ Joined(k)[i] = calls[k][i]
      BY <1>4, <1>6, <2>3
    <3>3. i # j
      BY <1>2, <1>4
    <3> QED
      BY <2>1, <2>3, <3>1, <3>2, <3>3 DEF Joining
  <2> QED
    BY <1>4, <2>2, <2>3
<1> QED
  BY <1>2, <1>6, <1>7 DEF SharedIds

(* The callers of an operation, the incoming one included, wait.            *)
LEMMA JoinedWait ==
  ASSUME TypeOK, CallbackHeldOnce, NEW k \in Collectives, Incoming(k)
  PROVE  /\ Joined(k) \in Seq(Message)
         /\ \A t \in Callers(Joined(k)) :
              t \in Threads /\ request[t] # Idle /\ reply[t] = Pending
<1>1. queue # <<>> /\ Head(queue).req.kind = k /\ k # "reset"
  BY DEF Incoming, Collectives
<1>2. /\ Joined(k) \in Seq(Message) /\ Len(calls[k]) \in Nat
      /\ DOMAIN calls[k] = 1 .. Len(calls[k])
      /\ DOMAIN Joined(k) = 1 .. Len(calls[k]) + 1
      /\ Joined(k)[Len(calls[k]) + 1] = Head(queue)
      /\ \A n \in 1 .. Len(calls[k]) : Joined(k)[n] = calls[k][n]
  BY <1>1, JoinedElements
<1>3. Head(queue) = queue[1] /\ 1 \in DOMAIN queue /\ Head(queue) \in Message
  BY <1>1, HeadType
<1>4. ASSUME NEW n \in DOMAIN Joined(k)
      PROVE  Joined(k)[n].from \in Threads /\ Held(Joined(k)[n].from)
  <2>0. Joined(k)[n] \in Message
    BY <1>2
  <2>1. Joined(k)[n].from \in Threads
    BY <2>0 DEF Message
  <2>2. CASE n = Len(calls[k]) + 1
    <3>1. 1 \in Queued(Joined(k)[n].from)
      BY <1>1, <1>2, <1>3, <2>2 DEF Queued
    <3> QED
      BY <2>1, <3>1 DEF Held
  <2>3. CASE n \in DOMAIN calls[k]
    <3>1. n \in Joining(Joined(k)[n].from, k)
      BY <1>2, <2>3 DEF Joining
    <3> QED
      BY <2>1, <3>1 DEF Held
  <2> QED
    BY <1>2, <2>1, <2>2, <2>3
<1> QED
  BY <1>2, <1>4 DEF CallbackHeldOnce, Waiting, Callers

(* A collective succeeds for all of its callers or for none, also when the  *)
(* server task panics, unless two threads blocked in it use one peer id: a  *)
(* process whose threads have their own ids never has a collective that     *)
(* succeeded for some of them and is lost to the others.                    *)
THEOREM ResultsReachAllCallers == Spec => ResultsForAll
<1> DEFINE Success(t) == reply'[t].tag \in {"ok", "none"}
<1>1. ASSUME TypeOK, CallbackHeldOnce, HeldRequests, Next, NEW k \in Collectives, Incoming(k),
             NEW t \in Callers(Joined(k)), Success(t), ~SharedIds
      PROVE  \A u \in Callers(Joined(k)) : Success(u)
  <2> DEFINE cs == Joined(k)
  <2>1. /\ cs \in Seq(Message)
        /\ \A u \in Callers(cs) : u \in Threads /\ request[u] # Idle /\ reply[u] = Pending
    BY <1>1, JoinedWait
  <2>2. Pending.tag \notin {"ok", "none"} /\ \A e \in Errors : Plain(e).tag \notin {"ok", "none"}
    BY DEF Pending, Plain, Errors
  <2>3. reply'[t] # Pending /\ t \in Threads /\ t \in Callers(cs)
    BY <1>1, <2>1, <2>2
  <2>4. Head(queue).req.kind = k /\ k \in {"all_reduce", "reduce", "broadcast"} /\ alive
    BY <1>1 DEF Incoming, Collectives
  <2>5. ServerStep
    <3>1. ASSUME NEW u \in Threads, ThreadStep(u) PROVE FALSE
      <4>1. CASE CallInvalid(u)
        <5>1. request[u] = Idle /\ \A v \in Threads : v # u => reply'[v] = reply[v]
          BY <4>1 DEF CallInvalid, NextCalls, TypeOK
        <5> QED
          BY <2>1, <2>3, <5>1
      <4>2. CASE Return(u)
        <5>1. reply'[u] = Pending /\ \A v \in Threads : v # u => reply'[v] = reply[v]
          BY <1>1, <4>2 DEF Return, TypeOK
        <5> QED
          BY <2>1, <2>3, <5>1
      <4> QED
        BY <2>1, <2>3, <3>1, <4>1, <4>2 DEF ThreadStep, Call, CallReset, CallPanics
    <3>2. ~Done
      BY <2>1, <2>3 DEF Done, vars
    <3> QED
      BY <1>1, <3>1, <3>2 DEF Next
  <2>6. PICK l \in Collectives :
          NotAdmitted(l) \/ CallMismatch(l) \/ CallWaits(l) \/ CallExecutes(l) \/ CallPanicsServer(l)
    BY <2>4, <2>5 DEF ServerStep, RegisterRejected, RegisterAccepted, Reset, FinishRejected,
                      Finish, Receive, Incoming
  <2>7. l = k
    BY <2>4, <2>6 DEF NotAdmitted, CallMismatch, CallWaits, CallExecutes, CallPanicsServer,
                      Receive, Incoming
  <2>8. CASE NotAdmitted(k)
    <3>1. reply'[t] = reply[t] \/ reply'[t] = Plain("RegisterNotFirstOperation")
      BY <2>3, <2>8 DEF NotAdmitted, Answer
    <3> QED
      BY <1>1, <2>1, <2>2, <2>3, <3>1 DEF Errors
  <2>9. CASE CallMismatch(k)
    <3>1. Head(queue) \in Message
      BY <1>1, HeadType DEF Incoming
    <3>2. JoinError(calls[k], Head(queue)) \in Errors
      BY <2>4, <2>9, <3>1, ErrorTypes DEF CallMismatch
    <3>3. \/ reply'[t] = reply[t] \/ reply'[t] = Plain("LocalServerMissing")
          \/ reply'[t] = Plain(JoinError(calls[k], Head(queue)))
      BY <2>3, <2>9 DEF CallMismatch, Answer
    <3> QED
      BY <1>1, <2>1, <2>2, <2>3, <3>2, <3>3 DEF Errors
  <2>10. CASE CallWaits(k)
    BY <2>1, <2>3, <2>10 DEF CallWaits
  <2>11. CASE CallExecutes(k)
    <3>1. PICK tag \in Outcomes(k, cs) :
            /\ ~Panics(k, cs, tag)
            /\ Answer([u \in Callers(cs) |-> ResultFor(k, cs, tag, PositionOf(cs, u))])
      BY <2>11 DEF CallExecutes
    <3> HIDE DEF cs
    <3>2. tag \in {"ok", "none"} \cup Errors
      BY <3>1, OutcomesType DEF Panics
    <3>3. \A u \in Callers(cs) : reply'[u] = ResultFor(k, cs, tag, PositionOf(cs, u))
      BY <2>1, <3>1 DEF Answer
    <3>4. tag \notin Errors
      BY <1>1, <2>2, <2>3, <3>3 DEF ResultFor, Errors
    <3>5. \A i : ResultFor(k, cs, tag, i).tag \in {"ok", "none"}
      BY <3>2, <3>4 DEF ResultFor, Plain
    <3> QED
      BY <3>3, <3>5 DEF cs
  <2>12. CASE CallPanicsServer(k)
    <3>1. PICK tag \in Outcomes(k, cs) :
            /\ Panics(k, cs, tag)
            /\ tag # "ok" => reply' = [u \in Threads |->
                 IF request[u] # Idle /\ reply[u] = Pending
                 THEN Plain("LocalServerMissing") ELSE reply[u]]
      BY <2>12 DEF CallPanicsServer
    <3>2. Repeated(cs) = {}
      BY <1>1, RepeatedShareId
    <3>3. tag = "panic"
      BY <3>1, <3>2 DEF Panics
    <3>4. reply'[t] = Plain("LocalServerMissing")
      BY <2>1, <2>3, <3>1, <3>3
    <3> QED
      BY <1>1, <2>2, <3>4 DEF Errors
  <2> QED
    BY <2>6, <2>7, <2>8, <2>9, <2>10, <2>11, <2>12
<1>2. TypeOK /\ CallbackHeldOnce /\ HeldRequests /\ [Next]_vars
        => [\A k \in Collectives :
              Incoming(k) /\ (\E t \in Callers(Joined(k)) : reply'[t].tag \in {"ok", "none"})
              => \/ SharedIds
                 \/ \A t \in Callers(Joined(k)) : reply'[t].tag \in {"ok", "none"}]_vars
  BY <1>1
<1> QED
  BY <1>2, TypeCorrect, OneCallbackHolder, RequestsHeld, PTL DEF Spec, ResultsForAll
-----------------------------------------------------------------------------
(* A state of an alive server in the r-th round of an SPMD program, with    *)
(* what is known of every state.                                            *)
RoundState(id, cfg, last, r) ==
  /\ TypeOK /\ CallbackHeldOnce /\ HeldRequests /\ alive
  /\ r \in 1 .. last /\ RoundResults(id) /\ InRound(id, cfg, last, r)

(* The calls of a round.                                                    *)
LEMMA CallsOfRound ==
  ASSUME NEW id, NEW cfg, NEW last, Spmd(id, cfg, last), NEW r \in 1 .. last,
         NEW t \in Threads, NEW a \in Script[t][r], NEW u \in Threads, NEW b \in Script[u][r]
  PROVE  /\ a.id = id[t] /\ a.kind = b.kind /\ a.kind # "reset" /\ a.kind # "idle"
         /\ r = 1 => a.kind = "register" /\ a.arg = cfg
         /\ r = last => a.kind = "finish"
         /\ a.kind = "register" => r = 1
         /\ a.kind = "finish" => r = last
         /\ a.kind \in Collectives => r > 1 /\ r < last
         /\ r > 1 /\ r < last => a.kind \in Collectives
         /\ r > 1 /\ r < last => SameOperation(a.kind, r, id)
<1>1. last \in Nat /\ last > 1
  BY DEF Spmd
<1>2. CASE r = 1
  BY <1>1, <1>2 DEF Spmd, Collectives
<1>3. CASE r = last
  BY <1>1, <1>3 DEF Spmd, Collectives
<1>4. CASE r # 1 /\ r # last
  <2>1. r \in 2 .. last - 1
    BY <1>1, <1>4
  <2>2. PICK k \in Collectives : SameOperation(k, r, id)
    BY <2>1 DEF Spmd
  <2>3. a.kind = k /\ b.kind = k /\ a.id = id[t]
    BY <2>2 DEF SameOperation
  <2>4. SameOperation(a.kind, r, id)
    BY <2>2, <2>3
  <2>5. a.kind \notin {"reset", "idle", "register", "finish"}
    BY <2>3 DEF Collectives
  <2>6. r > 1 /\ r < last
    BY <1>1, <2>1
  <2> QED
    BY <1>4, <2>3, <2>4, <2>5, <2>6
<1> QED
  BY <1>2, <1>3, <1>4

(* A registered thread has an id of its own: as many ids as threads.        *)
LEMMA IdsCounted ==
  ASSUME NEW id, NEW cfg, NEW last, Spmd(id, cfg, last), NEW S \in SUBSET Threads
  PROVE  /\ IsFiniteSet(S) /\ Cardinality({id[t] : t \in S}) = Cardinality(S)
         /\ Cardinality({id[t] : t \in S}) = cfg.n => S = Threads
<1> DEFINE I == {id[t] : t \in S}
           f == [t \in S |-> id[t]]
<1>1. IsFiniteSet(S) /\ (Cardinality(Threads) = Cardinality(S) => Threads = S)
  BY FS_Subset DEF Spmd
<1>2. f \in Bijection(S, I)
  BY DEF Spmd, Bijection, Injection, Surjection, IsInjective
<1>3. ExistsBijection(S, I)
  BY <1>2 DEF ExistsBijection
<1>4. Cardinality(I) = Cardinality(S)
  BY <1>1, <1>3, FS_Bijection
<1> QED
  BY <1>1, <1>4 DEF Spmd

(* The message the server takes next is a call of the round.                *)
LEMMA HeadOfRound ==
  ASSUME NEW id, NEW cfg, NEW last, NEW r, Spmd(id, cfg, last),
         RoundState(id, cfg, last, r), queue # <<>>
  PROVE  /\ Head(queue) \in Message /\ Head(queue).from \in Threads
         /\ Head(queue).n = r /\ Head(queue).req \in Script[Head(queue).from][r]
         /\ Head(queue).req.kind # "reset" /\ Head(queue).req.id = id[Head(queue).from]
         /\ request[Head(queue).from] = Head(queue).req
         /\ Waiting(Head(queue).from) /\ issued[Head(queue).from] = r
         /\ Head(queue).from \notin registering
<1> USE DEF RoundState
<1>1. Head(queue) \in Message /\ Head(queue) = queue[1] /\ 1 \in DOMAIN queue
  BY HeadType
<1>2. Head(queue).from \in Threads
  BY <1>1 DEF Message
<1>3. Head(queue).n = r /\ Head(queue).req \in Script[Head(queue).from][r]
  BY <1>1 DEF InRound, MessagesOfRound
<1>4. Head(queue).req.kind # "reset" /\ Head(queue).req.id = id[Head(queue).from]
  BY <1>2, <1>3, CallsOfRound
<1>5. request[Head(queue).from] = Head(queue).req
  BY <1>1, <1>4 DEF HeldRequests
<1>6. 1 \in Queued(Head(queue).from)
  BY <1>1, <1>4 DEF Queued
<1>7. Waiting(Head(queue).from) /\ Head(queue).from \notin registering
  BY <1>2, <1>6 DEF CallbackHeldOnce, Held, HeldInOnePlace
<1>8. issued[Head(queue).from] = r
  BY <1>2, <1>7 DEF InRound, ThreadsInRound
<1> QED
  BY <1>1, <1>2, <1>3, <1>4, <1>5, <1>7, <1>8

(* A message that is taken leaves messages of the round.                    *)
LEMMA TailOfRound ==
  ASSUME TypeOK, NEW r, MessagesOfRound(r), queue # <<>>, queue' = Tail(queue)
  PROVE  \A i \in DOMAIN queue' :
           queue'[i].n = r /\ queue'[i].req \in Script[queue'[i].from][r]
<1> SUFFICES ASSUME NEW i \in DOMAIN queue'
             PROVE  queue'[i].n = r /\ queue'[i].req \in Script[queue'[i].from][r]
  OBVIOUS
<1>1. i + 1 \in DOMAIN queue /\ queue'[i] = queue[i + 1]
  BY HeadType DEF TypeOK
<1> QED
  BY <1>1 DEF MessagesOfRound

(* When every thread of the round has its answer the server holds nothing   *)
(* and the next round begins.                                               *)
LEMMA RoundEnds ==
  ASSUME NEW id, NEW cfg, NEW last, NEW r, Spmd(id, cfg, last), r \in 1 .. last, r < last,
         TypeOK', CallbackHeldOnce',
         \A t \in Threads : issued'[t] = r /\ ~Waiting(t)',
         \A i \in DOMAIN queue' : queue'[i].req.kind # "reset",
         config' = cfg, r + 1 < last => peers' = {id[t] : t \in Threads}
  PROVE  r + 1 \in 1 .. last /\ InRound(id, cfg, last, r + 1)'
<1>0. r \in Nat /\ last \in Nat /\ r >= 1
  BY DEF Spmd
<1>1. \A t \in Threads : Queued(t)' = {} /\ t \notin registering'
                         /\ \A k \in Collectives : Joining(t, k)' = {}
  BY DEF CallbackHeldOnce, Held
<1>2. registering' = {}
  BY <1>1 DEF TypeOK
<1>3. \A i \in DOMAIN queue' : FALSE
  <2> SUFFICES ASSUME NEW i \in DOMAIN queue' PROVE FALSE
    OBVIOUS
  <2>1. queue'[i] \in Message
    BY DEF TypeOK
  <2>2. queue'[i].from \in Threads
    BY <2>1 DEF Message
  <2> QED
    BY <1>1, <2>2 DEF Queued
<1>4. ASSUME NEW k \in Collectives, NEW i \in DOMAIN calls'[k] PROVE FALSE
  <2>0. calls'[k] \in Seq(Message)
    BY DEF TypeOK
  <2>1. calls'[k][i] \in Message
    BY <1>4, <2>0
  <2>2. calls'[k][i].from \in Threads
    BY <2>1 DEF Message
  <2> QED
    BY <1>1, <1>4, <2>2 DEF Joining
<1>5. MessagesOfRound(r + 1)'
  BY <1>3, <1>4 DEF MessagesOfRound
<1>6. PeersInRound(id, cfg, last, r + 1)'
  BY <1>0, <1>2 DEF PeersInRound
<1>7. ThreadsInRound(last, r + 1)'
  BY <1>0 DEF ThreadsInRound
<1> QED
  BY <1>0, <1>5, <1>6, <1>7 DEF InRound

(* A thread calls in the round it is due in, and a return changes nobody's  *)
(* round.                                                                   *)
LEMMA ThreadStepInRound ==
  ASSUME NEW id, NEW cfg, NEW last, NEW r, Spmd(id, cfg, last),
         RoundState(id, cfg, last, r), NEW t \in Threads, ThreadStep(t)
  PROVE  RoundResults(id)' /\ InRound(id, cfg, last, r)'
<1> USE DEF RoundState
<1>0. r \in Nat /\ last \in Nat /\ r >= 1 /\ r <= last
  BY DEF Spmd
<1>1. /\ issued \in [Threads -> Nat] /\ DOMAIN reply = Threads
      /\ DOMAIN request = Threads /\ queue \in Seq(Message)
  BY DEF TypeOK
<1>2. ThreadsInRound(last, r) /\ MessagesOfRound(r) /\ PeersInRound(id, cfg, last, r)
  BY DEF InRound
<1>3. PeersInRound(id, cfg, last, r)'
  BY <1>2 DEF ThreadStep, Call, CallInvalid, CallReset, CallPanics, Return, server, PeersInRound
<1>4. CASE Return(t)
  <2>1. /\ UNCHANGED <<queue, issued, calls>>
        /\ request' = [request EXCEPT ![t] = Idle] /\ reply' = [reply EXCEPT ![t] = Pending]
        /\ reply[t] # Pending
    BY <1>4 DEF Return, server
  <2>2. \A u \in Threads : Waiting(u)' <=> Waiting(u)
    BY <1>1, <2>1 DEF Waiting
  <2>3. ThreadsInRound(last, r)'
    BY <1>2, <2>1, <2>2 DEF ThreadsInRound
  <2>4. MessagesOfRound(r)'
    BY <1>2, <2>1 DEF MessagesOfRound
  <2>5. RoundResults(id)'
    BY <1>1, <2>1 DEF RoundResults
  <2> QED
    BY <1>3, <2>3, <2>4, <2>5 DEF InRound
<1>5. ASSUME NEW c \in NextCalls(t)
      PROVE  /\ request[t] = Idle /\ reply[t] = Pending /\ issued[t] = r - 1
             /\ c \in Script[t][r] /\ c.kind # "reset" /\ c # Idle
             /\ c.kind = "register" => c.arg.valid
  <2>1. request[t] = Idle /\ issued[t] < last /\ c \in Script[t][issued[t] + 1]
    BY <1>5 DEF NextCalls, Spmd
  <2>2. reply[t] = Pending
    BY <2>1 DEF CallbackHeldOnce
  <2>3. issued[t] = r - 1
    BY <1>0, <1>1, <1>2, <2>1 DEF ThreadsInRound, Waiting
  <2>4. c \in Script[t][r]
    BY <1>0, <2>1, <2>3
  <2>5. /\ c.kind # "reset" /\ c.kind # "idle" /\ (c.kind = "register" => r = 1)
        /\ (r = 1 => c.arg = cfg)
    BY <2>4, CallsOfRound
  <2> QED
    BY <2>1, <2>2, <2>3, <2>4, <2>5 DEF Idle, Spmd
<1>6. CASE Call(t)
  <2>1. PICK c \in NextCalls(t) :
          /\ queue' = Append(queue, [req |-> c, from |-> t, n |-> issued[t] + 1])
          /\ request' = [request EXCEPT ![t] = c]
          /\ issued' = [issued EXCEPT ![t] = @ + 1]
          /\ UNCHANGED <<server, reply>>
    BY <1>6 DEF Call
  <2> DEFINE m == [req |-> c, from |-> t, n |-> issued[t] + 1]
  <2>2. /\ request[t] = Idle /\ reply[t] = Pending /\ issued[t] = r - 1
        /\ c \in Script[t][r] /\ c # Idle
    BY <1>5
  <2>3. /\ m \in Message /\ m.req = c /\ m.from = t /\ m.n = r
    BY <1>0, <1>1, <2>2, NextCallsType DEF Message
  <2>4. queue' = Append(queue, m)
    BY <2>1
  <2> HIDE DEF m
  <2>5. \A i \in DOMAIN queue' : \/ queue'[i] = m
                                 \/ i \in DOMAIN queue /\ queue'[i] = queue[i]
    BY <1>1, <2>3, <2>4
  <2>6. MessagesOfRound(r)'
    BY <1>2, <2>1, <2>2, <2>3, <2>5 DEF MessagesOfRound, server
  <2>7. Waiting(t)' /\ issued'[t] = r
    BY <1>0, <1>1, <2>1, <2>2 DEF Waiting
  <2>8. \A u \in Threads \ {t} : /\ (Waiting(u)' <=> Waiting(u)) /\ issued'[u] = issued[u]
                                 /\ request'[u] = request[u] /\ reply'[u] = reply[u]
    BY <1>1, <2>1 DEF Waiting
  <2>9. ThreadsInRound(last, r)'
    BY <1>0, <1>2, <2>7, <2>8 DEF ThreadsInRound
  <2>10. RoundResults(id)'
    <3>1. request'[t] = c /\ reply'[t].tag # "ok"
      BY <1>1, <2>1, <2>2 DEF Pending
    <3> SUFFICES ASSUME NEW u \in Threads, request'[u] # Idle
                 PROVE  /\ issued'[u] > 0 /\ request'[u] \in Script[u][issued'[u]]
                        /\ request'[u].kind \in {"all_reduce", "reduce"} /\ reply'[u].tag = "ok"
                             => reply'[u].by = {[id |-> id[v], n |-> issued'[u]] : v \in Threads}
      BY DEF RoundResults
    <3>2. CASE u = t
      BY <1>0, <2>2, <2>7, <3>1, <3>2
    <3>3. CASE u # t
      BY <2>8, <3>3 DEF RoundResults
    <3> QED
      BY <3>2, <3>3
  <2> QED
    BY <1>3, <2>6, <2>9, <2>10 DEF InRound
<1>7. ~CallInvalid(t) /\ ~CallReset(t) /\ ~CallPanics(t)
  BY <1>5 DEF CallInvalid, CallReset, CallPanics
<1> QED
  BY <1>4, <1>6, <1>7 DEF ThreadStep

-----------------------------------------------------------------------------
(* The calls of a pending operation with the incoming one: calls of the     *)
(* round of threads that wait, each once.                                   *)
LEMMA JoinedOfRound ==
  ASSUME NEW id, NEW cfg, NEW last, NEW r, Spmd(id, cfg, last),
         RoundState(id, cfg, last, r), NEW k \in Collectives, Incoming(k)
  PROVE  /\ Joined(k) \in Seq(Message) /\ Len(Joined(k)) = Len(calls[k]) + 1
         /\ DOMAIN Joined(k) = 1 .. Len(Joined(k))
         /\ \A i \in DOMAIN Joined(k) :
              /\ Joined(k)[i] = Head(queue) \/ (i \in DOMAIN calls[k] /\ Joined(k)[i] = calls[k][i])
              /\ Joined(k)[i].from \in Threads /\ Joined(k)[i].n = r
              /\ Joined(k)[i].req \in Script[Joined(k)[i].from][r]
              /\ Joined(k)[i].req.id = id[Joined(k)[i].from]
         /\ \A i, j \in DOMAIN Joined(k) : Joined(k)[i].from = Joined(k)[j].from => i = j
<1> USE DEF RoundState
<1>1. queue # <<>> /\ Head(queue).req.kind = k
  BY DEF Incoming
<1>2. /\ Joined(k) \in Seq(Message) /\ Len(calls[k]) \in Nat
      /\ DOMAIN calls[k] = 1 .. Len(calls[k])
      /\ DOMAIN Joined(k) = 1 .. Len(calls[k]) + 1
      /\ Joined(k)[Len(calls[k]) + 1] = Head(queue)
      /\ \A i \in 1 .. Len(calls[k]) : Joined(k)[i] = calls[k][i]
  BY <1>1, JoinedElements
<1>3. Len(Joined(k)) = Len(calls[k]) + 1 /\ DOMAIN Joined(k) = 1 .. Len(Joined(k))
  BY <1>2
<1>4. /\ Head(queue).from \in Threads /\ Head(queue).n = r
      /\ Head(queue).req \in Script[Head(queue).from][r]
  BY <1>1, HeadOfRound
<1>5. ASSUME NEW i \in DOMAIN Joined(k)
      PROVE  /\ Joined(k)[i] = Head(queue) \/ (i \in DOMAIN calls[k] /\ Joined(k)[i] = calls[k][i])
             /\ Joined(k)[i].from \in Threads /\ Joined(k)[i].n = r
             /\ Joined(k)[i].req \in Script[Joined(k)[i].from][r]
             /\ Joined(k)[i].req.id = id[Joined(k)[i].from]
  <2>1. i = Len(calls[k]) + 1 \/ i \in DOMAIN calls[k]
    BY <1>2
  <2>2. Joined(k)[i].n = r /\ Joined(k)[i].req \in Script[Joined(k)[i].from][r]
    BY <1>2, <1>4, <2>1 DEF InRound, MessagesOfRound
  <2>3. Joined(k)[i] \in Message
    BY <1>2
  <2>4. Joined(k)[i].from \in Threads
    BY <2>3 DEF Message
  <2> QED
    BY <1>2, <2>1, <2>2, <2>4, CallsOfRound
<1>6. ASSUME NEW i \in DOMAIN Joined(k), NEW j \in DOMAIN Joined(k),
             Joined(k)[i].from = Joined(k)[j].from
      PROVE  i = j
  <2> DEFINE t == Joined(k)[i].from
  <2>1. t \in Threads
    BY <1>5
  <2>2. (i = Len(calls[k]) + 1 \/ i \in DOMAIN calls[k]) /\ (j = Len(calls[k]) + 1 \/ j \in DOMAIN calls[k])
    BY <1>2
  <2>3. \A a, b \in Joining(t, k) : a = b
    BY <2>1 DEF CallbackHeldOnce, HeldInOnePlace
  <2>4. Head(queue).from = t => Joining(t, k) = {}
    <3>1. Head(queue) = queue[1] /\ 1 \in DOMAIN queue /\ Head(queue).req.kind # "reset"
      BY <1>1, HeadType, HeadOfRound
    <3> QED
      BY <2>1, <3>1 DEF Queued, CallbackHeldOnce, HeldInOnePlace
  <2>5. i \in DOMAIN calls[k] => i \in Joining(t, k)
    BY <1>2 DEF Joining
  <2>6. j \in DOMAIN calls[k] => j \in Joining(t, k)
    BY <1>2, <1>6 DEF Joining
  <2> QED
    BY <1>2, <1>6, <2>2, <2>3, <2>4, <2>5, <2>6
<1> QED
  BY <1>2, <1>3, <1>5, <1>6

(* A collective call of the program is admitted and fits the calls that     *)
(* joined before it.                                                        *)
LEMMA RoundJoins ==
  ASSUME NEW id, NEW cfg, NEW last, NEW r, Spmd(id, cfg, last),
         RoundState(id, cfg, last, r), NEW k \in Collectives, Incoming(k)
  PROVE  /\ r > 1 /\ r < last /\ config = cfg /\ peers = {id[t] : t \in Threads}
         /\ Joins(k)
<1> USE DEF RoundState
<1> DEFINE m == Head(queue)
<1>1. queue # <<>> /\ m.req.kind = k
  BY DEF Incoming
<1>2. /\ m \in Message /\ m.from \in Threads /\ m.req \in Script[m.from][r]
      /\ m.req.id = id[m.from]
  BY <1>1, HeadOfRound
<1>3. r > 1 /\ r < last /\ SameOperation(k, r, id)
  BY <1>1, <1>2, CallsOfRound
<1>4. config = cfg /\ peers = {id[t] : t \in Threads}
  BY <1>3 DEF InRound, PeersInRound
<1>5. Admitted(m)
  <2>1. m.req.id \in peers
    BY <1>2, <1>4
  <2>2. k = "reduce" => m.req.arg.root \in peers
    BY <1>2, <1>3, <1>4 DEF SameOperation
  <2>3. config # NoConfig
    BY <1>4 DEF Spmd, NoConfig
  <2> QED
    BY <1>1, <2>1, <2>2, <2>3 DEF Admitted, Collectives
<1>6. ASSUME NEW i \in DOMAIN calls[k]
      PROVE  /\ k \in {"all_reduce", "reduce"} => calls[k][i].req.arg = m.req.arg
             /\ k = "broadcast" => ~(m.req.arg.tensor /\ calls[k][i].req.arg.tensor)
  <2>1. Joined(k)[i] = calls[k][i] /\ i \in DOMAIN Joined(k) /\ Len(calls[k]) + 1 \in DOMAIN Joined(k)
        /\ Joined(k)[Len(calls[k]) + 1] = m /\ i # Len(calls[k]) + 1
    BY <1>1, JoinedElements
  <2>2. calls[k][i].from \in Threads /\ calls[k][i].req \in Script[calls[k][i].from][r]
    BY <2>1, JoinedOfRound
  <2>3. calls[k][i].from # m.from
    BY <2>1, JoinedOfRound
  <2> QED
    BY <1>2, <1>3, <2>2, <2>3 DEF SameOperation
<1>7. JoinError(calls[k], m) = "ok"
  <2>1. CASE calls[k] = <<>>
    BY <2>1 DEF JoinError
  <2>2. CASE calls[k] # <<>>
    <3>1. 1 \in DOMAIN calls[k]
      <4>1. calls[k] \in Seq(Message)
        BY DEF TypeOK
      <4> QED
        BY <2>2, <4>1
    <3>2. CASE k = "all_reduce"
      BY <1>1, <1>6, <2>2, <3>1, <3>2 DEF JoinError
    <3>3. CASE k = "reduce"
      BY <1>1, <1>6, <2>2, <3>1, <3>3 DEF JoinError
    <3>4. CASE k = "broadcast"
      BY <1>1, <1>6, <2>2, <3>4 DEF JoinError
    <3> QED
      BY <3>2, <3>3, <3>4 DEF Collectives
  <2> QED
    BY <2>1, <2>2
<1> QED
  BY <1>3, <1>4, <1>5, <1>7 DEF Joins

(* A call that waits for the others stays a call of its round.              *)
LEMMA WaitsInRound ==
  ASSUME NEW id, NEW cfg, NEW last, NEW r, Spmd(id, cfg, last),
         RoundState(id, cfg, last, r), NEW k \in Collectives, CallWaits(k)
  PROVE  RoundResults(id)' /\ InRound(id, cfg, last, r)'
<1> USE DEF RoundState
<1>1. /\ Incoming(k) /\ queue # <<>> /\ queue' = Tail(queue)
      /\ UNCHANGED <<issued, request, reply, config, peers, registering>>
      /\ calls' = [calls EXCEPT ![k] = Joined(k)]
  BY DEF CallWaits, Receive, Incoming
<1>2. ThreadsInRound(last, r)'
  BY <1>1 DEF InRound, ThreadsInRound, Waiting
<1>3. PeersInRound(id, cfg, last, r)'
  BY <1>1 DEF InRound, PeersInRound
<1>4. RoundResults(id)'
  BY <1>1 DEF RoundResults
<1>5. MessagesOfRound(r)'
  <2>1. \A i \in DOMAIN queue' :
          queue'[i].n = r /\ queue'[i].req \in Script[queue'[i].from][r]
    BY <1>1, TailOfRound DEF InRound
  <2>2. ASSUME NEW l \in Collectives, NEW i \in DOMAIN calls'[l]
        PROVE  calls'[l][i].n = r /\ calls'[l][i].req \in Script[calls'[l][i].from][r]
    <3>1. CASE l = k
      <4>1. calls'[l] = Joined(k)
        BY <1>1, <3>1 DEF TypeOK
      <4> QED
        BY <1>1, <2>2, <4>1, JoinedOfRound
    <3>2. CASE l # k
      <4>1. calls'[l] = calls[l]
        BY <1>1, <3>2 DEF TypeOK
      <4> QED
        BY <2>2, <4>1 DEF InRound, MessagesOfRound
    <3> QED
      BY <3>1, <3>2
  <2> QED
    BY <2>1, <2>2 DEF MessagesOfRound
<1> QED
  BY <1>2, <1>3, <1>4, <1>5 DEF InRound

(* As many calls as peers: every thread takes part, once.                   *)
LEMMA ReadyMeansAll ==
  ASSUME NEW id, NEW cfg, NEW last, NEW r, Spmd(id, cfg, last),
         RoundState(id, cfg, last, r), NEW k \in Collectives, Incoming(k), Ready(Joined(k))
  PROVE  /\ Callers(Joined(k)) = Threads
         /\ Contributions(Joined(k)) = {[id |-> id[u], n |-> r] : u \in Threads}
<1> DEFINE cs == Joined(k)
           f == [i \in 1 .. Len(cs) |-> cs[i].from]
<1>1. /\ cs \in Seq(Message) /\ DOMAIN cs = 1 .. Len(cs) /\ Len(cs) \in Nat
      /\ \A i \in DOMAIN cs : cs[i].from \in Threads /\ cs[i].n = r /\ cs[i].req.id = id[cs[i].from]
      /\ \A i, j \in DOMAIN cs : cs[i].from = cs[j].from => i = j
  BY JoinedOfRound
<1> HIDE DEF cs
<1>2. f \in Injection(1 .. Len(cs), Threads)
  BY <1>1 DEF Injection, IsInjective
<1>3. Cardinality(1 .. Len(cs)) = Len(cs)
  <2>1. 1 \in Int /\ Len(cs) \in Int
    BY <1>1
  <2>2. Cardinality(1 .. Len(cs)) = IF 1 > Len(cs) THEN 0 ELSE Len(cs) - 1 + 1
    BY <2>1, FS_Interval
  <2> QED
    BY <1>1, <2>2
<1>4. Len(cs) = Cardinality(Threads)
  <2>1. peers = {id[t] : t \in Threads}
    BY RoundJoins
  <2>2. Cardinality({id[t] : t \in Threads}) = Cardinality(Threads)
    BY IdsCounted
  <2> QED
    BY <2>1, <2>2 DEF Ready, cs
<1>5. f \in Surjection(1 .. Len(cs), Threads)
  BY <1>2, <1>3, <1>4, FS_Injection DEF Spmd
<1>6. \A t \in Threads : \E i \in DOMAIN cs : cs[i].from = t
  BY <1>1, <1>5 DEF Surjection
<1>7. Callers(cs) = Threads
  BY <1>1, <1>6 DEF Callers
<1>8. \A i, j \in DOMAIN cs : cs[i].req.id = cs[j].req.id => i = j
  BY <1>1 DEF Spmd
<1>9. {j \in DOMAIN cs : \A l \in DOMAIN cs : cs[l].req.id = cs[j].req.id => l <= j} = DOMAIN cs
  BY <1>1, <1>8
<1>10. Contributions(cs) = {[id |-> cs[i].req.id, n |-> cs[i].n] : i \in DOMAIN cs}
  BY <1>9 DEF Contributions
<1>11. Contributions(cs) = {[id |-> id[u], n |-> r] : u \in Threads}
  <2>1. ASSUME NEW u \in Threads PROVE [id |-> id[u], n |-> r] \in Contributions(cs)
    BY <1>1, <1>6, <1>10
  <2>2. ASSUME NEW c \in Contributions(cs) PROVE \E u \in Threads : c = [id |-> id[u], n |-> r]
    BY <1>1, <1>10
  <2> QED
    BY <2>1, <2>2
<1> QED
  BY <1>7, <1>11 DEF cs

(* The last call of a round runs the operation with the tensors of all      *)
(* threads, and everybody has its answer.                                   *)
LEMMA ExecutesRound ==
  ASSUME NEW id, NEW cfg, NEW last, NEW r, Spmd(id, cfg, last),
         RoundState(id, cfg, last, r), TypeOK', CallbackHeldOnce',
         NEW k \in Collectives, CallExecutes(k)
  PROVE  RoundResults(id)' /\ r + 1 \in 1 .. last /\ InRound(id, cfg, last, r + 1)'
<1> USE DEF RoundState
<1>1. /\ Incoming(k) /\ queue # <<>> /\ queue' = Tail(queue) /\ Ready(Joined(k))
      /\ UNCHANGED <<issued, request, config, peers, registering>>
  BY DEF CallExecutes, Receive, Incoming
<1>2. PICK tag \in Outcomes(k, Joined(k)) :
        /\ ~Panics(k, Joined(k), tag)
        /\ Answer([t \in Callers(Joined(k)) |->
                     ResultFor(k, Joined(k), tag, PositionOf(Joined(k), t))])
  BY DEF CallExecutes
<1>3. /\ Callers(Joined(k)) = Threads
      /\ Contributions(Joined(k)) = {[id |-> id[u], n |-> r] : u \in Threads}
  BY <1>1, ReadyMeansAll
<1>4. \A t \in Threads : reply'[t] = ResultFor(k, Joined(k), tag, PositionOf(Joined(k), t))
  BY <1>2, <1>3 DEF Answer
<1>5. tag \in {"ok", "none"} \cup Errors
  BY <1>2, OutcomesType DEF Panics
<1>6. \A t \in Threads : reply'[t] # Pending
  <2>1. Joined(k) \in Seq(Message)
    BY <1>1, JoinedOfRound
  <2> QED
    BY <1>4, <1>5, <2>1, ResultType
<1>7. ASSUME NEW t \in Threads PROVE issued[t] = r
  <2>1. PICK i \in DOMAIN Joined(k) : Joined(k)[i].from = t
    BY <1>3 DEF Callers
  <2>2. Joined(k)[i] = Head(queue) \/ (i \in DOMAIN calls[k] /\ Joined(k)[i] = calls[k][i])
    BY <1>1, JoinedOfRound
  <2>3. Joined(k)[i] = Head(queue) => issued[t] = r
    BY <1>1, <2>1, HeadOfRound
  <2>4. i \in DOMAIN calls[k] /\ Joined(k)[i] = calls[k][i] => Waiting(t)
    BY <2>1 DEF Joining, CallbackHeldOnce, Held
  <2> QED
    BY <2>2, <2>3, <2>4 DEF InRound, ThreadsInRound
<1>8. RoundResults(id)'
  <2> SUFFICES ASSUME NEW t \in Threads, request'[t] # Idle
               PROVE  /\ issued'[t] > 0 /\ request'[t] \in Script[t][issued'[t]]
                      /\ reply'[t].tag = "ok"
                           => reply'[t].by = {[id |-> id[u], n |-> issued'[t]] : u \in Threads}
    BY DEF RoundResults
  <2>1. issued'[t] > 0 /\ request'[t] \in Script[t][issued'[t]] /\ issued'[t] = r
    BY <1>1, <1>7 DEF RoundResults
  <2>2. reply'[t].tag = "ok" => reply'[t].by = Contributions(Joined(k))
    BY <1>4 DEF ResultFor, Plain
  <2> QED
    BY <1>3, <2>1, <2>2
<1>9. \A i \in DOMAIN queue' : queue'[i].req.kind # "reset"
  <2> SUFFICES ASSUME NEW i \in DOMAIN queue' PROVE queue'[i].req.kind # "reset"
    OBVIOUS
  <2>1. queue'[i] \in Message /\ queue'[i].req \in Script[queue'[i].from][r]
    BY <1>1, TailOfRound DEF InRound, TypeOK
  <2> QED
    BY <2>1, CallsOfRound DEF Message
<1>10. r < last /\ config' = cfg /\ peers' = {id[t] : t \in Threads}
  BY <1>1, RoundJoins
<1>11. \A t \in Threads : issued'[t] = r /\ ~Waiting(t)'
  BY <1>1, <1>6, <1>7 DEF Waiting
<1> QED
  BY <1>8, <1>9, <1>10, <1>11, RoundEnds

(* A registration is never refused; the last one ends the first round.      *)
LEMMA RegisterInRound ==
  ASSUME NEW id, NEW cfg, NEW last, NEW r, Spmd(id, cfg, last),
         RoundState(id, cfg, last, r), TypeOK', CallbackHeldOnce',
         RegisterRejected \/ RegisterAccepted
  PROVE  /\ RoundResults(id)'
         /\ \/ InRound(id, cfg, last, r)'
            \/ r + 1 \in 1 .. last /\ InRound(id, cfg, last, r + 1)'
<1> USE DEF RoundState
<1> DEFINE m == Head(queue)
           waiting == registering \cup {m.from}
<1>1. /\ queue # <<>> /\ queue' = Tail(queue) /\ m.req.kind = "register"
      /\ UNCHANGED <<issued, request, calls>>
  BY DEF RegisterRejected, RegisterAccepted, Receive, Incoming, server
<1>2. /\ m \in Message /\ m.from \in Threads /\ m.req \in Script[m.from][r]
      /\ m.req.id = id[m.from] /\ issued[m.from] = r /\ m.from \notin registering
  BY <1>1, HeadOfRound
<1>3. r = 1 /\ m.req.arg = cfg /\ r < last
  <2>1. r = 1 /\ m.req.arg = cfg
    BY <1>1, <1>2, CallsOfRound
  <2>2. last > 1
    BY DEF Spmd
  <2> QED
    BY <2>1, <2>2
<1>4. peers = {id[t] : t \in registering} /\ (peers # {} => config = cfg) /\ registering \subseteq Threads
  BY <1>3 DEF InRound, PeersInRound, TypeOK
<1>5. RegisterError(m) = "ok"
  <2>1. m.req.id \notin peers
    BY <1>2, <1>4 DEF Spmd
  <2>2. m.req.arg.valid
    BY <1>3 DEF Spmd
  <2> QED
    BY <1>3, <1>4, <2>1, <2>2 DEF RegisterError
<1>6. RegisterAccepted
  BY <1>5 DEF RegisterRejected
<1>7. config' = cfg /\ peers' = peers \cup {m.req.id}
  BY <1>3, <1>6 DEF RegisterAccepted
<1>8. waiting \subseteq Threads /\ peers' = {id[t] : t \in waiting}
  BY <1>2, <1>4, <1>7
<1>9. \A i \in DOMAIN queue' : queue'[i].n = r /\ queue'[i].req \in Script[queue'[i].from][r]
  BY <1>1, TailOfRound DEF InRound
<1>10. \A t \in Threads : request'[t] # Idle =>
         /\ issued'[t] > 0 /\ request'[t] \in Script[t][issued'[t]] /\ request'[t].kind = "register"
  <2> SUFFICES ASSUME NEW t \in Threads, request[t] # Idle
               PROVE  issued[t] > 0 /\ request[t] \in Script[t][issued[t]] /\ request[t].kind = "register"
    BY <1>1
  <2>1. issued[t] > 0 /\ request[t] \in Script[t][issued[t]]
    BY DEF RoundResults
  <2>2. issued[t] = 1
    BY <1>3, <2>1 DEF InRound, ThreadsInRound
  <2> QED
    BY <1>3, <2>1, <2>2, CallsOfRound
<1>11. RoundResults(id)'
  BY <1>10 DEF RoundResults
<1>12. CASE Cardinality(peers') # cfg.n
  <2>1. registering' = waiting /\ reply' = reply
    BY <1>3, <1>6, <1>12 DEF RegisterAccepted
  <2>2. ThreadsInRound(last, r)'
    BY <1>1, <2>1 DEF InRound, ThreadsInRound, Waiting
  <2>3. MessagesOfRound(r)'
    BY <1>1, <1>9 DEF InRound, MessagesOfRound
  <2>4. PeersInRound(id, cfg, last, r)'
    BY <1>3, <1>7, <1>8, <2>1 DEF PeersInRound
  <2> QED
    BY <1>11, <2>2, <2>3, <2>4 DEF InRound
<1>13. CASE Cardinality(peers') = cfg.n
  <2>1. waiting = Threads
    <3> HIDE DEF waiting
    <3>1. Cardinality({id[t] : t \in waiting}) = cfg.n /\ waiting \in SUBSET Threads
      BY <1>8, <1>13
    <3> QED
      BY <3>1, IdsCounted
  <2>2. \E tag \in {"ok", "Global"} : Answer([t \in waiting |-> Plain(tag)])
    BY <1>3, <1>6, <1>13 DEF RegisterAccepted
  <2>3. \A t \in Threads : reply'[t] # Pending
    BY <2>1, <2>2 DEF Answer, Plain, Pending
  <2>4. \A t \in Threads : issued'[t] = r /\ ~Waiting(t)'
    <3> SUFFICES ASSUME NEW t \in Threads PROVE issued[t] = r /\ ~Waiting(t)'
      BY <1>1
    <3>1. t \in registering => Waiting(t)
      BY DEF CallbackHeldOnce, Held
    <3>2. t \in registering => issued[t] = r
      BY <3>1 DEF InRound, ThreadsInRound
    <3> QED
      BY <1>2, <2>1, <2>3, <3>2 DEF Waiting
  <2>5. \A i \in DOMAIN queue' : queue'[i].req.kind # "reset"
    <3> SUFFICES ASSUME NEW i \in DOMAIN queue' PROVE queue'[i].req.kind # "reset"
      OBVIOUS
    <3>1. queue'[i] \in Message /\ queue'[i].req \in Script[queue'[i].from][r]
      BY <1>9 DEF TypeOK
    <3> QED
      BY <3>1, CallsOfRound DEF Message
  <2> QED
    BY <1>3, <1>7, <1>8, <1>11, <2>1, <2>4, <2>5, RoundEnds
<1> QED
  BY <1>12, <1>13

(* The last round: threads finish, in any order.                            *)
LEMMA FinishInRound ==
  ASSUME NEW id, NEW cfg, NEW last, NEW r, Spmd(id, cfg, last),
         RoundState(id, cfg, last, r), Finish \/ FinishRejected
  PROVE  RoundResults(id)' /\ InRound(id, cfg, last, r)'
<1> USE DEF RoundState
<1> DEFINE c == Head(queue).from
<1>1. /\ queue # <<>> /\ queue' = Tail(queue) /\ Head(queue).req.kind = "finish"
      /\ UNCHANGED <<issued, request, calls, config, registering>>
      /\ \E tag \in {"ok"} \cup Errors : Answer([t \in {c} |-> Plain(tag)])
  BY DEF Finish, FinishRejected, Receive, Incoming, server, Errors
<1>2. c \in Threads /\ Head(queue).req \in Script[c][r] /\ request[c] = Head(queue).req
  BY <1>1, HeadOfRound
<1>3. r = last
  BY <1>1, <1>2, CallsOfRound
<1>4. reply'[c] # Pending /\ \A t \in Threads \ {c} : reply'[t] = reply[t]
  BY <1>1, <1>2, PlainType DEF Answer
<1>5. \A t \in Threads : Waiting(t)' => Waiting(t)
  BY <1>1, <1>4 DEF Waiting
<1>6. ThreadsInRound(last, r)'
  <2>1. r \in Nat
    OBVIOUS
  <2> QED
    BY <1>1, <1>3, <1>5, <2>1 DEF InRound, ThreadsInRound
<1>7. MessagesOfRound(r)'
  <2>1. \A i \in DOMAIN queue' : queue'[i].n = r /\ queue'[i].req \in Script[queue'[i].from][r]
    BY <1>1, TailOfRound DEF InRound
  <2> QED
    BY <1>1, <2>1 DEF InRound, MessagesOfRound
<1>8. PeersInRound(id, cfg, last, r)'
  BY <1>1, <1>3 DEF InRound, PeersInRound, Spmd
<1>9. RoundResults(id)'
  BY <1>1, <1>2, <1>4 DEF RoundResults
<1> QED
  BY <1>6, <1>7, <1>8, <1>9 DEF InRound

(* Every step of the server, unless it panics, keeps the round or ends it.  *)
LEMMA ServerStepInRound ==
  ASSUME NEW id, NEW cfg, NEW last, NEW r, Spmd(id, cfg, last),
         RoundState(id, cfg, last, r), TypeOK', CallbackHeldOnce', ServerStep, alive'
  PROVE  /\ RoundResults(id)'
         /\ \/ InRound(id, cfg, last, r)'
            \/ r + 1 \in 1 .. last /\ InRound(id, cfg, last, r + 1)'
<1>1. ~Reset
  BY HeadOfRound DEF Reset, Receive, Incoming
<1>2. ASSUME NEW k \in Collectives PROVE ~NotAdmitted(k) /\ ~CallMismatch(k) /\ ~CallPanicsServer(k)
  BY RoundJoins DEF NotAdmitted, CallMismatch, CallPanicsServer, Receive, Joins
<1>3. ASSUME NEW k \in Collectives, CallWaits(k) \/ CallExecutes(k)
      PROVE  /\ RoundResults(id)'
             /\ \/ InRound(id, cfg, last, r)'
                \/ r + 1 \in 1 .. last /\ InRound(id, cfg, last, r + 1)'
  BY <1>3, WaitsInRound, ExecutesRound
<1> QED
  BY <1>1, <1>2, <1>3, RegisterInRound, FinishInRound DEF ServerStep

(* The rounds of an SPMD program.                                           *)
LEMMA RoundsKept ==
  ASSUME NEW id, NEW cfg, NEW last, Spmd(id, cfg, last)
  PROVE  Spec => []SpmdInv(id, cfg, last)
<1>1. Init => SpmdInv(id, cfg, last)
  <2> SUFFICES ASSUME Init PROVE RoundResults(id) /\ 1 \in 1 .. last /\ InRound(id, cfg, last, 1)
    BY DEF SpmdInv
  <2>1. 1 \in 1 .. last
    BY DEF Spmd
  <2>2. \A k \in Collectives : calls[k] = <<>>
    BY DEF Init
  <2>3. MessagesOfRound(1)
    BY <2>2 DEF Init, MessagesOfRound
  <2>4. ThreadsInRound(last, 1)
    BY DEF Init, ThreadsInRound, Waiting
  <2>5. PeersInRound(id, cfg, last, 1)
    BY DEF Init, PeersInRound
  <2> QED
    BY <2>1, <2>3, <2>4, <2>5 DEF Init, RoundResults, InRound
<1>2. /\ TypeOK /\ CallbackHeldOnce /\ HeldRequests /\ SpmdInv(id, cfg, last)
      /\ TypeOK' /\ CallbackHeldOnce' /\ [Next]_vars
      => SpmdInv(id, cfg, last)'
  <2> SUFFICES ASSUME TypeOK, CallbackHeldOnce, HeldRequests, SpmdInv(id, cfg, last),
                      TypeOK', CallbackHeldOnce', [Next]_vars, alive'
               PROVE  RoundResults(id)' /\ \E r \in 1 .. last : InRound(id, cfg, last, r)'
    BY DEF SpmdInv
  <2>1. alive
    BY DEF Next, ServerStep, RegisterRejected, RegisterAccepted, NotAdmitted, CallMismatch,
           CallWaits, CallExecutes, CallPanicsServer, Reset, FinishRejected, Finish, Done, vars,
           server, ThreadStep, Call, CallInvalid, CallReset, CallPanics, Return
  <2>2. PICK r \in 1 .. last : RoundResults(id) /\ InRound(id, cfg, last, r)
    BY <2>1 DEF SpmdInv
  <2>3. RoundState(id, cfg, last, r)
    BY <2>1, <2>2 DEF RoundState
  <2>4. CASE ServerStep
    BY <2>3, <2>4, ServerStepInRound
  <2>5. CASE \E t \in Threads : ThreadStep(t)
    BY <2>3, <2>5, ThreadStepInRound
  <2>6. CASE UNCHANGED vars
    <3>1. RoundResults(id)'
      BY <2>2, <2>6 DEF RoundResults, vars
    <3>2. InRound(id, cfg, last, r)'
      BY <2>2, <2>6 DEF InRound, ThreadsInRound, MessagesOfRound, PeersInRound, Waiting, vars, server
    <3> QED
      BY <3>1, <3>2
  <2> QED
    BY <2>4, <2>5, <2>6 DEF Next, Done
<1> QED
  BY <1>1, <1>2, TypeCorrect, OneCallbackHolder, RequestsHeld, PTL DEF Spec

(* In an SPMD program of one session an all-reduce, or a reduce at its      *)
(* root, combines one tensor of each of the num_devices devices, all of     *)
(* the same round, whatever the order in which threads and server run and   *)
(* whatever the global level answers.                                       *)
THEOREM SpmdRoundsMatch == ASSUME SpmdProgram PROVE Spec => []RoundsMatch
<1>1. PICK id \in [Threads -> Peers], cfg \in Configs, last \in {Len(Script[t]) : t \in Threads} :
        Spmd(id, cfg, last)
  BY DEF SpmdProgram
<1>2. SpmdInv(id, cfg, last) => RoundsMatch
  <2> SUFFICES ASSUME SpmdInv(id, cfg, last), NEW t \in Threads, alive, request[t] # Idle,
                      request[t].kind \in {"all_reduce", "reduce"}, reply[t].tag = "ok"
               PROVE  /\ Cardinality({c.id : c \in reply[t].by}) = config.n
                      /\ \A c \in reply[t].by : c.n = issued[t]
    BY DEF RoundsMatch
  <2>1. PICK r \in 1 .. last : InRound(id, cfg, last, r)
    BY DEF SpmdInv
  <2>2. /\ issued[t] > 0 /\ request[t] \in Script[t][issued[t]]
        /\ reply[t].by = {[id |-> id[u], n |-> issued[t]] : u \in Threads}
    BY DEF SpmdInv, RoundResults
  <2>3. r > 1
    <3>1. r = 1 => issued[t] = 1
      BY <2>1, <2>2 DEF InRound, ThreadsInRound
    <3>2. 1 \in 1 .. last
      BY <1>1 DEF Spmd
    <3>3. issued[t] = 1 => request[t].kind = "register"
      BY <1>1, <2>2, <3>2, CallsOfRound
    <3> QED
      BY <2>1, <3>1, <3>3
  <2>4. config = cfg
    BY <2>1, <2>3 DEF InRound, PeersInRound
  <2>5. \A c : c \in reply[t].by <=> \E u \in Threads : c = [id |-> id[u], n |-> issued[t]]
    BY <2>2
  <2>6. {c.id : c \in reply[t].by} = {id[u] : u \in Threads}
    <3>1. ASSUME NEW u \in Threads PROVE \E c \in reply[t].by : c.id = id[u]
      <4>1. [id |-> id[u], n |-> issued[t]] \in reply[t].by
        BY <2>5
      <4> QED
        BY <4>1
    <3>2. ASSUME NEW c \in reply[t].by PROVE \E u \in Threads : c.id = id[u]
      BY <2>5
    <3> QED
      BY <3>1, <3>2
  <2>7. Cardinality({id[u] : u \in Threads}) = Cardinality(Threads)
    BY <1>1, IdsCounted
  <2>8. Cardinality({c.id : c \in reply[t].by}) = config.n
    BY <1>1, <2>4, <2>6, <2>7 DEF Spmd
  <2>9. \A c \in reply[t].by : c.n = issued[t]
    BY <2>5
  <2> QED
    BY <2>8, <2>9
<1>3. Spec => []SpmdInv(id, cfg, last)
  BY <1>1, RoundsKept
<1> QED
  BY <1>2, <1>3, PTL

-----------------------------------------------------------------------------
(* The server keeps the record of those that wait to be registered: a       *)
(* registration adds the caller with its id, a finish takes the id of the   *)
(* caller away, which is not registering.                                   *)
LEMMA ServerStepRecorded ==
  ASSUME NEW id, OwnIds(id), TypeOK, CallbackHeldOnce, HeldRequests, WaitersRecorded(id), ServerStep
  PROVE  WaitersRecorded(id)'
<1>1. request' = request /\ (queue' = <<>> \/ (queue # <<>> /\ queue' = Tail(queue)))
  BY ServerStepCalls
<1>2. ASSUME NEW i \in DOMAIN queue'
      PROVE  queue'[i].req.kind # "reset" /\ queue'[i].req.id = id[queue'[i].from]
  <2>1. queue # <<>> /\ queue' = Tail(queue)
    BY <1>1, <1>2
  <2>2. i + 1 \in DOMAIN queue /\ queue'[i] = queue[i + 1]
    BY <2>1, HeadType DEF TypeOK
  <2> QED
    BY <2>2 DEF WaitersRecorded
<1>3. ASSUME queue # <<>>
      PROVE  /\ Head(queue).req.kind # "reset" /\ Head(queue).req.id = id[Head(queue).from]
             /\ request[Head(queue).from] = Head(queue).req
             /\ Head(queue).from \in Threads /\ Head(queue).from \notin registering
  <2>1. Head(queue) = queue[1] /\ 1 \in DOMAIN queue /\ Head(queue) \in Message
    BY <1>3, HeadType
  <2>2. /\ Head(queue).req.kind # "reset" /\ Head(queue).req.id = id[Head(queue).from]
        /\ request[Head(queue).from] = Head(queue).req
    BY <2>1 DEF WaitersRecorded, HeldRequests
  <2>3. Head(queue).from \in Threads /\ 1 \in Queued(Head(queue).from)
    BY <2>1, <2>2 DEF Message, Queued
  <2> QED
    BY <2>2, <2>3 DEF CallbackHeldOnce, HeldInOnePlace
<1>4. \A t \in registering' :
        request'[t].kind = "register" /\ request'[t].id = id[t] /\ id[t] \in peers'
  <2>1. CASE RegisterAccepted
    <3>1. /\ registering' \subseteq registering \cup {Head(queue).from}
          /\ peers' = peers \cup {Head(queue).req.id}
          /\ queue # <<>> /\ Head(queue).req.kind = "register"
      BY <2>1 DEF RegisterAccepted, Receive, Incoming
    <3> QED
      BY <1>1, <1>3, <3>1 DEF WaitersRecorded
  <2>2. CASE Finish
    <3>1. /\ registering' = registering /\ peers' = peers \ {Head(queue).req.id} /\ queue # <<>>
      BY <2>2 DEF Finish, Receive, Incoming
    <3>2. registering \subseteq Threads
      BY DEF TypeOK
    <3> QED
      BY <1>1, <1>3, <3>1, <3>2 DEF WaitersRecorded, OwnIds
  <2>3. ~Reset
    BY <1>3 DEF Reset, Receive, Incoming
  <2>4. ASSUME NEW k \in Collectives, CallPanicsServer(k) PROVE registering' = {}
    BY <2>4 DEF CallPanicsServer
  <2>5. CASE UNCHANGED <<registering, peers>>
    BY <1>1, <2>5 DEF WaitersRecorded
  <2> QED
    BY <2>1, <2>2, <2>3, <2>4, <2>5
       DEF ServerStep, RegisterRejected, NotAdmitted, CallMismatch, CallWaits, CallExecutes,
           FinishRejected, server
<1> QED
  BY <1>2, <1>4 DEF WaitersRecorded

(* A thread that waits to be registered makes no call.                      *)
LEMMA ThreadStepRecorded ==
  ASSUME NEW id, OwnIds(id), TypeOK, CallbackHeldOnce, WaitersRecorded(id),
         NEW t \in Threads, ThreadStep(t)
  PROVE  WaitersRecorded(id)'
<1>1. UNCHANGED <<registering, peers>>
  BY DEF ThreadStep, Call, CallInvalid, CallReset, CallPanics, Return, server
<1>2. request' = request \/ (~Waiting(t) /\ \E r : request' = [request EXCEPT ![t] = r])
  BY DEF ThreadStep, Call, CallInvalid, CallReset, CallPanics, Return, NextCalls, Waiting
<1>3. \A u \in registering : Waiting(u) /\ u \in Threads
  BY DEF CallbackHeldOnce, Held, TypeOK
<1>4. \A u \in registering : request'[u] = request[u]
  BY <1>2, <1>3 DEF TypeOK
<1>5. \A u \in registering' :
        request'[u].kind = "register" /\ request'[u].id = id[u] /\ id[u] \in peers'
  BY <1>1, <1>4 DEF WaitersRecorded
<1>6. ASSUME NEW c \in NextCalls(t) PROVE c.id = id[t] /\ c.kind # "reset" /\ c \in Request
  <2>1. issued[t] < Len(Script[t]) /\ c \in Script[t][issued[t] + 1]
    BY <1>6 DEF NextCalls
  <2>2. issued[t] + 1 \in DOMAIN Script[t]
    BY <2>1, ScriptAssumption DEF TypeOK
  <2> QED
    BY <1>6, <2>1, <2>2, NextCallsType DEF OwnIds
<1>7. CASE queue' = queue
  BY <1>5, <1>7 DEF WaitersRecorded
<1>8. CASE Call(t) \/ CallReset(t)
  <2>1. PICK r \in NextCalls(t) : queue' = Append(queue, [req |-> r, from |-> t, n |-> issued[t] + 1])
    BY <1>8 DEF Call, CallReset
  <2> DEFINE m == [req |-> r, from |-> t, n |-> issued[t] + 1]
  <2>2. m \in Message /\ m.req.kind # "reset" /\ m.req.id = id[m.from] /\ queue \in Seq(Message)
    BY <1>6 DEF Message, TypeOK
  <2>3. queue' = Append(queue, m)
    BY <2>1
  <2> HIDE DEF m
  <2>4. \A i \in DOMAIN queue' : queue'[i] = m \/ (i \in DOMAIN queue /\ queue'[i] = queue[i])
    BY <2>2, <2>3
  <2> QED
    BY <1>5, <2>2, <2>4 DEF WaitersRecorded
<1> QED
  BY <1>7, <1>8 DEF ThreadStep, CallInvalid, CallPanics, Return

(* The callers of an operation are blocked in calls of its kind.            *)
LEMMA CallersOfKind ==
  ASSUME TypeOK, HeldRequests, NEW k \in Collectives, Incoming(k), NEW i \in DOMAIN Joined(k)
  PROVE  request[Joined(k)[i].from].kind = k
<1>1. queue # <<>> /\ Head(queue).req.kind = k /\ k # "reset"
  BY DEF Incoming, Collectives
<1>2. /\ DOMAIN calls[k] = 1 .. Len(calls[k]) /\ Len(calls[k]) \in Nat
      /\ DOMAIN Joined(k) = 1 .. Len(calls[k]) + 1
      /\ Joined(k)[Len(calls[k]) + 1] = Head(queue)
      /\ \A j \in 1 .. Len(calls[k]) : Joined(k)[j] = calls[k][j]
  BY <1>1, JoinedElements
<1>3. Head(queue) = queue[1] /\ 1 \in DOMAIN queue
  BY <1>1, HeadType
<1>4. i = Len(calls[k]) + 1 \/ i \in DOMAIN calls[k]
  BY <1>2
<1> QED
  BY <1>1, <1>2, <1>3, <1>4 DEF HeldRequests

(* Whatever the threads call, as long as each uses its own id and nobody    *)
(* resets the server, a register that returns Ok leaves its caller in the   *)
(* table of peers, also when others finish in the meantime.                 *)
THEOREM OkRegistersAreRecorded == ASSUME OwnIdProgram PROVE Spec => OkMeansRegistered
<1>0. PICK id \in [Threads -> Peers] : OwnIds(id)
  BY DEF OwnIdProgram
<1>1. Init => WaitersRecorded(id)
  BY DEF Init, WaitersRecorded
<1>2. TypeOK /\ CallbackHeldOnce /\ HeldRequests /\ WaitersRecorded(id) /\ [Next]_vars
        => WaitersRecorded(id)'
  <2> SUFFICES ASSUME TypeOK, CallbackHeldOnce, HeldRequests, WaitersRecorded(id), [Next]_vars
               PROVE  WaitersRecorded(id)'
    OBVIOUS
  <2>1. CASE UNCHANGED vars
    BY <2>1 DEF vars, server, WaitersRecorded
  <2> QED
    BY <1>0, <2>1, ServerStepRecorded, ThreadStepRecorded DEF Next, Done
<1> DEFINE Recorded(t) == /\ request[t] # Idle /\ request[t].kind = "register"
                          /\ reply[t] = Pending /\ reply'[t].tag = "ok"
                          => request[t].id \in peers'
<1>3. TypeOK /\ CallbackHeldOnce /\ HeldRequests /\ WaitersRecorded(id) /\ [Next]_vars
        => [\A t \in Threads : Recorded(t)]_vars
  <2> SUFFICES ASSUME TypeOK, CallbackHeldOnce, HeldRequests, WaitersRecorded(id), Next,
                      NEW t \in Threads, request[t] # Idle, request[t].kind = "register",
                      reply[t] = Pending, reply'[t].tag = "ok"
               PROVE  request[t].id \in peers'
    OBVIOUS
  <2>0. reply'[t] # reply[t]
    BY DEF Pending
  <2>1. ASSUME NEW tag, NEW S, Answer([u \in S |-> Plain(tag)]) PROVE t \in S /\ tag = "ok"
    <3>1. t \in S
      BY <2>0, <2>1 DEF Answer
    <3>2. reply'[t] = Plain(tag)
      BY <2>1, <3>1 DEF Answer
    <3> QED
      BY <3>1, <3>2 DEF Plain
  <2>2. ASSUME queue # <<>>, Head(queue).from = t
        PROVE  Head(queue).req = request[t]
    <3>1. Head(queue) = queue[1] /\ 1 \in DOMAIN queue
      BY <2>2, HeadType
    <3> QED
      BY <2>2, <3>1 DEF WaitersRecorded, HeldRequests
  <2>3. CASE RegisterAccepted
    <3>1. /\ queue # <<>> /\ peers' = peers \cup {Head(queue).req.id}
          /\ \/ reply' = reply
             \/ \E tag : Answer([u \in registering \cup {Head(queue).from} |-> Plain(tag)])
      BY <2>3 DEF RegisterAccepted, Receive, Incoming
    <3>2. t \in registering \cup {Head(queue).from}
      BY <2>0, <2>1, <3>1
    <3> QED
      BY <2>2, <3>1, <3>2 DEF WaitersRecorded
  <2>4. ASSUME NEW k \in Collectives, CallExecutes(k) PROVE FALSE
    <3>1. Incoming(k)
      BY <2>4 DEF CallExecutes, Receive
    <3>2. t \in Callers(Joined(k))
      BY <2>0, <2>4 DEF CallExecutes, Answer
    <3> QED
      BY <3>1, <3>2, CallersOfKind DEF Callers, Collectives
  <2>5. ASSUME NEW k \in Collectives, CallPanicsServer(k) PROVE FALSE
    <3>1. Incoming(k)
      BY <2>5 DEF CallPanicsServer
    <3>2. t \in {Joined(k)[i].from : i \in DOMAIN Joined(k)}
      BY <2>0, <2>5 DEF CallPanicsServer, Plain
    <3> QED
      BY <3>1, <3>2, CallersOfKind DEF Collectives
  <2>6. ~RegisterRejected
    BY <2>1 DEF RegisterRejected
  <2>7. ~FinishRejected
    BY <2>1 DEF FinishRejected
  <2>8. ~Finish
    BY <2>1, <2>2 DEF Finish, Receive, Incoming
  <2>9. ~Reset
    BY <2>1 DEF Reset
  <2>10. ASSUME NEW k \in Collectives PROVE ~NotAdmitted(k) /\ ~CallWaits(k) /\ ~CallMismatch(k)
    <3>1. ~NotAdmitted(k)
      BY <2>1 DEF NotAdmitted
    <3>2. ~CallWaits(k)
      BY <2>0 DEF CallWaits
    <3>3. ASSUME CallMismatch(k) PROVE FALSE
      <4>1. JoinError(calls[k], Head(queue)) # "ok"
        BY <3>3 DEF CallMismatch
      <4>2. \/ reply'[t] = Plain("LocalServerMissing")
            \/ reply'[t] = Plain(JoinError(calls[k], Head(queue)))
        BY <2>0, <3>3 DEF CallMismatch, Answer
      <4> QED
        BY <4>1, <4>2 DEF Plain
    <3> QED
      BY <3>1, <3>2, <3>3
  <2>11. ASSUME NEW u \in Threads, ThreadStep(u) PROVE FALSE
    <3>1. CASE CallInvalid(u)
      BY <2>0, <3>1 DEF CallInvalid, NextCalls, TypeOK
    <3>2. CASE Return(u)
      BY <2>0, <3>2 DEF Return, TypeOK
    <3> QED
      BY <2>0, <2>11, <3>1, <3>2 DEF ThreadStep, Call, CallReset, CallPanics
  <2>12. ~Done
    BY <2>0 DEF Done, vars
  <2> QED
    BY <2>3, <2>4, <2>5, <2>6, <2>7, <2>8, <2>9, <2>10, <2>11, <2>12 DEF Next, ServerStep
<1> QED
  BY <1>1, <1>2, <1>3, TypeCorrect, OneCallbackHolder, RequestsHeld, PTL
     DEF Spec, OkMeansRegistered
=============================================================================
