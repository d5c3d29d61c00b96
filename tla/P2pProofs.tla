----------------------------- MODULE P2pProofs -----------------------------
(* Proofs about point-to-point messages for every set of ranks, rails and   *)
(* threads and every program of the threads.                                *)
EXTENDS P2p, FiniteSetTheorems, WellFoundedInduction, TLAPS

Streams == Seq(Frames \cup {Eof, Leave, Abort})

(* What the router reads next from a rank, and the stream behind it.        *)
LEMMA HeadTail ==
  ASSUME TypeOK, NEW l \in Links, up[l] # <<>>
  PROVE  /\ Head(up[l]) \in Frames \cup {Eof, Leave, Abort}
         /\ [up EXCEPT ![l] = Tail(@)] \in [Links -> Streams]
         /\ Head(up[l]).op \in Ops => Head(up[l]) \in Frames
<1>1. up[l] \in Streams
  BY DEF TypeOK, Streams
<1>2. Head(up[l]) \in Frames \cup {Eof, Leave, Abort} /\ Tail(up[l]) \in Streams
  BY <1>1 DEF Streams
<1>3. [up EXCEPT ![l] = Tail(@)] \in [Links -> Streams]
  BY <1>2 DEF TypeOK, Streams
<1>4. Eof.op \notin Ops /\ Leave.op \notin Ops /\ Abort.op \notin Ops
  BY DEF Eof, Leave, Abort, Ops
<1> QED
  BY <1>2, <1>3, <1>4

(* Removing an element leaves a sequence of the others.                     *)
LEMMA RemoveAtElements ==
  ASSUME NEW S, NEW s \in Seq(S), NEW i \in 1 .. Len(s)
  PROVE  /\ RemoveAt(s, i) \in Seq(S)
         /\ DOMAIN RemoveAt(s, i) = 1 .. Len(s) - 1
         /\ \A j \in 1 .. Len(s) - 1 : RemoveAt(s, i)[j] = IF j < i THEN s[j] ELSE s[j + 1]
         /\ \A j \in DOMAIN RemoveAt(s, i) : \E k \in DOMAIN s : RemoveAt(s, i)[j] = s[k]
<1> DEFINE a == SubSeq(s, 1, i - 1)
           b == SubSeq(s, i + 1, Len(s))
<1>1. a \in Seq(S) /\ Len(a) = i - 1 /\ \A j \in 1 .. i - 1 : a[j] = s[j]
  OBVIOUS
<1>2. b \in Seq(S) /\ Len(b) = Len(s) - i /\ \A j \in 1 .. Len(s) - i : b[j] = s[i + j]
  OBVIOUS
<1>3. RemoveAt(s, i) = a \o b
  BY DEF RemoveAt
<1> HIDE DEF a, b
<1>4. a \o b \in Seq(S) /\ Len(a \o b) = Len(a) + Len(b)
  <2>1. a \in Seq(S) /\ b \in Seq(S)
    BY <1>1, <1>2
  <2> QED
    BY <2>1
<1>5. \A j \in 1 .. Len(a) + Len(b) :
        (a \o b)[j] = IF j <= Len(a) THEN a[j] ELSE b[j - Len(a)]
  BY <1>1, <1>2
<1>6. DOMAIN (a \o b) = 1 .. Len(s) - 1
  BY <1>1, <1>2, <1>4
<1>7. ASSUME NEW j \in 1 .. Len(s) - 1
      PROVE  (a \o b)[j] = IF j < i THEN s[j] ELSE s[j + 1]
  <2>1. j \in 1 .. Len(a) + Len(b)
    BY <1>1, <1>2
  <2>2. (a \o b)[j] = IF j <= Len(a) THEN a[j] ELSE b[j - Len(a)]
    BY <1>5, <2>1
  <2>3. CASE j <= i - 1
    <3>1. a[j] = s[j] /\ j <= Len(a) /\ j < i
      BY <2>3, <1>1
    <3> QED
      BY <2>2, <3>1
  <2>4. CASE j > i - 1
    <3>1. j - Len(a) \in 1 .. Len(s) - i /\ i + (j - Len(a)) = j + 1
      BY <2>4, <1>1
    <3>2. b[j - Len(a)] = s[j + 1]
      BY <3>1, <1>2
    <3>3. ~(j <= Len(a)) /\ ~(j < i)
      BY <2>4, <1>1
    <3> QED
      BY <2>2, <3>2, <3>3
  <2>5. j <= i - 1 \/ j > i - 1
    OBVIOUS
  <2> QED
    BY <2>3, <2>4, <2>5, Zenon
<1>8. ASSUME NEW j \in DOMAIN (a \o b)
      PROVE  \E k \in DOMAIN s : (a \o b)[j] = s[k]
  <2>1. j \in 1 .. Len(s) - 1 /\ DOMAIN s = 1 .. Len(s)
    BY <1>6
  <2>2. (a \o b)[j] = IF j < i THEN s[j] ELSE s[j + 1]
    BY <1>7, <2>1
  <2>3. j \in DOMAIN s /\ j + 1 \in DOMAIN s
    BY <2>1
  <2> QED
    BY <2>2, <2>3
<1> QED
  BY <1>3, <1>4, <1>6, <1>7, <1>8

(* A set of positions has a least element.                                  *)
LEMMA MinIn ==
  ASSUME NEW S \in SUBSET Nat, S # {}
  PROVE  Min(S) \in S /\ \A y \in S : Min(S) <= y
<1> DEFINE R == {ss \in Nat \X Nat : ss[1] < ss[2]}
<1>1. IsWellFoundedOn(R, Nat)
  <2>1. OpToRel(<, Nat) = R
    BY DEF OpToRel
  <2> QED
    BY <2>1, NatLessThanWellFounded
<1>2. PICK x \in S : \A y \in S : ~(<<y, x>> \in R)
  <2> HIDE DEF R
  <2> QED
    BY <1>1, WFMin
<1>3. ASSUME NEW y \in S PROVE x <= y
  <2>1. y \in Nat /\ x \in Nat
    OBVIOUS
  <2>2. ~(y < x)
    BY <1>2, <2>1, Zenon
  <2> QED
    BY <2>1, <2>2
<1> QED
  BY <1>3 DEF Min

(* The result of the search is a match, and 0 if there is none.             *)
LEMMA QueuedReceiveFinds ==
  ASSUME NEW k \in Rails, NEW send, receives[k] \in Seq(Frames)
  PROVE  /\ QueuedReceive(k, send) = 0 =>
              \A j \in DOMAIN receives[k] : ~Matches(send, receives[k][j])
         /\ QueuedReceive(k, send) # 0 =>
              /\ QueuedReceive(k, send) \in 1 .. Len(receives[k])
              /\ Matches(send, receives[k][QueuedReceive(k, send)])
              /\ \A j \in 1 .. Len(receives[k]) : j < QueuedReceive(k, send) => ~Matches(send, receives[k][j])
<1> DEFINE I == {i \in 1 .. Len(receives[k]) : Matches(send, receives[k][i])}
<1>1. QueuedReceive(k, send) = IF I # {} THEN Min(I) ELSE 0
  BY DEF QueuedReceive, SelectInSeq
<1>2. I \in SUBSET Nat
  OBVIOUS
<1>3. I # {} => Min(I) \in I /\ \A j \in I : Min(I) <= j
  BY <1>2, MinIn
<1>4. \A i \in 1 .. Len(receives[k]) : \A j \in 1 .. Len(receives[k]) : j < i => ~(i <= j)
  OBVIOUS
<1>5. CASE I = {}
  <2>1. QueuedReceive(k, send) = 0
    BY <1>1, <1>5
  <2> QED
    BY <1>5, <2>1
<1>6. CASE I # {}
  <2>1. QueuedReceive(k, send) = Min(I)
    BY <1>1, <1>6
  <2>2. Min(I) \in 1 .. Len(receives[k]) /\ Min(I) # 0 /\ Min(I) \in I
    BY <1>3, <1>6
  <2>3. ASSUME NEW j \in 1 .. Len(receives[k]), j < Min(I) PROVE j \notin I
    BY <1>3, <1>4, <1>6, <2>2, <2>3, Zenon
  <2> QED
    BY <2>1, <2>2, <2>3
<1> QED
  BY <1>5, <1>6

(* QueuedSend is the first queued send that matches a receive, or 0.        *)
LEMMA QueuedSendFinds ==
  ASSUME NEW k \in Rails, NEW receive, sends[k] \in Seq(Frames)
  PROVE  /\ QueuedSend(k, receive) = 0 =>
              \A j \in DOMAIN sends[k] : ~Matches(sends[k][j], receive)
         /\ QueuedSend(k, receive) # 0 =>
              /\ QueuedSend(k, receive) \in 1 .. Len(sends[k])
              /\ Matches(sends[k][QueuedSend(k, receive)], receive)
              /\ \A j \in 1 .. Len(sends[k]) : j < QueuedSend(k, receive) => ~Matches(sends[k][j], receive)
<1> DEFINE I == {i \in 1 .. Len(sends[k]) : Matches(sends[k][i], receive)}
<1>1. QueuedSend(k, receive) = IF I # {} THEN Min(I) ELSE 0
  BY DEF QueuedSend, SelectInSeq
<1>2. I \in SUBSET Nat
  OBVIOUS
<1>3. I # {} => Min(I) \in I /\ \A j \in I : Min(I) <= j
  BY <1>2, MinIn
<1>4. \A i \in 1 .. Len(sends[k]) : \A j \in 1 .. Len(sends[k]) : j < i => ~(i <= j)
  OBVIOUS
<1>5. CASE I = {}
  <2>1. QueuedSend(k, receive) = 0
    BY <1>1, <1>5
  <2> QED
    BY <1>5, <2>1
<1>6. CASE I # {}
  <2>1. QueuedSend(k, receive) = Min(I)
    BY <1>1, <1>6
  <2>2. Min(I) \in 1 .. Len(sends[k]) /\ Min(I) # 0 /\ Min(I) \in I
    BY <1>3, <1>6
  <2>3. ASSUME NEW j \in 1 .. Len(sends[k]), j < Min(I) PROVE j \notin I
    BY <1>3, <1>4, <1>6, <2>2, <2>3, Zenon
  <2> QED
    BY <2>1, <2>2, <2>3
<1> QED
  BY <1>5, <1>6

-----------------------------------------------------------------------------
(* Type correctness.                                                        *)

(* The initial states are well typed.                                       *)
LEMMA InitTypes == Init => TypeOK
<1> SUFFICES ASSUME Init PROVE TypeOK
  OBVIOUS
<1> USE DEF Init
<1>1. pc \in [Threads -> {"idle", "checked", "waiting", "expired"}]
  OBVIOUS
<1>2. call \in [Threads -> Frames \cup {NoCall}] /\ calls \in [Threads -> 0 .. MaxCalls]
  BY P2pAssumption
<1>3. lock \in [Links -> Threads \cup {Nobody}] /\ pending \in [Links -> SUBSET Keys]
  OBVIOUS
<1>4. next \in [Links -> [Ops -> Nat]]
  OBVIOUS
<1>5. up \in [Links -> Seq(Frames \cup {Eof, Leave, Abort})]
  OBVIOUS
<1>6. sends \in [Rails -> Seq(Frames)] /\ receives \in [Rails -> Seq(Frames)]
  OBVIOUS
<1>7. LockHeld
  BY ScriptAssumption DEF LockHeld
<1>8. PendingOwned
  BY DEF PendingOwned
<1> QED
  BY <1>1, <1>2, <1>3, <1>4, <1>5, <1>6, <1>7, <1>8 DEF TypeOK

(* A frame is not the absence of a call.                                    *)
LEMMA FrameIsCall == NoCall \notin Frames
BY DEF NoCall, Frames, Ops

(* The frame, the link and the key of a call in progress.                   *)
LEMMA LinkType ==
  ASSUME TypeOK, NEW t \in Threads, pc[t] # "idle"
  PROVE  call[t] \in Frames /\ LinkOf(t) \in Links /\ Key(t) \in Keys
<1>1. call[t] \in Frames
  BY DEF TypeOK
<1>2. call[t].op \in Ops /\ call[t].seq \in Nat /\ call[t].rail \in Rails
  BY <1>1 DEF Frames
<1> QED
  BY <1>1, <1>2, P2pAssumption DEF LinkOf, Links, Key, Keys

(* A call takes the lock of its link and a sequence number.                 *)
LEMMA RequestTypes ==
  ASSUME TypeOK, NEW t \in Threads, Request(t)
  PROVE  TypeOK'
<1>1. calls' \in [Threads -> 0 .. MaxCalls] /\ calls[t] + 1 \in 1 .. MaxCalls
  BY P2pAssumption DEF TypeOK, Request
<1>2. PICK c \in Script(t, calls[t] + 1) :
        LET l == <<RankOf[t], c.rail>> IN
        /\ lock[l] = Nobody
        /\ IF Refused(RankOf[t])
           THEN UNCHANGED <<pc, call, lock, next>>
           ELSE /\ pc' = [pc EXCEPT ![t] = "checked"]
                /\ call' = [call EXCEPT ![t] =
                     [op |-> c.op, seq |-> next[l][c.op], rail |-> c.rail,
                      source |-> RankOf[t],
                      peer |-> c.peer, tag |-> c.tag, contract |-> c.contract]]
                /\ lock' = [lock EXCEPT ![l] = t]
                /\ next' = [next EXCEPT ![l][c.op] = @ + 1]
  BY DEF Request
<1>3. c \in Operations
  BY <1>1, <1>2, ScriptAssumption
<1> DEFINE l == <<RankOf[t], c.rail>>
           frame == [op |-> c.op, seq |-> next[l][c.op], rail |-> c.rail,
                     source |-> RankOf[t],
                     peer |-> c.peer, tag |-> c.tag, contract |-> c.contract]
<1>4. l \in Links /\ RankOf[t] \in Ranks
  BY <1>3, P2pAssumption DEF Links, Operations
<1>5. c.op \in Ops /\ next[l][c.op] \in Nat
  BY <1>3, <1>4 DEF TypeOK, Operations
<1>6. frame \in Frames
  BY <1>3, <1>4, <1>5 DEF Frames, Operations
<1>7. frame.source = RankOf[t] /\ frame.rail = c.rail
  OBVIOUS
<1>8. CASE Refused(RankOf[t])
  <2>1. UNCHANGED <<pc, call, lock, next, pending, up, sends, receives>>
    BY <1>2, <1>8 DEF Request, routers
  <2>2. reply' = reply
    BY DEF Request
  <2> QED
    BY <1>1, <2>1, <2>2 DEF TypeOK, LockHeld, PendingOwned, LinkOf, Key
<1>9. CASE ~Refused(RankOf[t])
  <2> HIDE DEF frame, l
  <2>1. /\ pc' = [pc EXCEPT ![t] = "checked"]
        /\ call' = [call EXCEPT ![t] = frame]
        /\ lock' = [lock EXCEPT ![l] = t]
        /\ next' = [next EXCEPT ![l][c.op] = @ + 1]
        /\ lock[l] = Nobody
    BY <1>2, <1>9 DEF frame, l
  <2>2. UNCHANGED <<pending, up, sends, receives, reply>> /\ pc[t] = "idle"
    BY DEF Request, routers
  <2>3. pc' \in [Threads -> {"idle", "checked", "waiting", "expired"}]
    BY <2>1 DEF TypeOK
  <2>4. call' \in [Threads -> Frames \cup {NoCall}]
    BY <2>1, <1>6 DEF TypeOK
  <2>5. \A u \in Threads :
          /\ call'[u] = NoCall <=> pc'[u] = "idle"
          /\ call'[u] # NoCall => call'[u].source = RankOf[u]
          /\ reply'[u] # NoReply => pc'[u] = "waiting"
    BY <2>1, <2>2, <1>6, <1>7, FrameIsCall DEF TypeOK
  <2>6. lock' \in [Links -> Threads \cup {Nobody}]
    BY <2>1, <1>4 DEF TypeOK
  <2>7. next' \in [Links -> [Ops -> Nat]]
    <3>1. next[l] \in [Ops -> Nat]
      BY <1>4 DEF TypeOK
    <3>2. [next[l] EXCEPT ![c.op] = next[l][c.op] + 1] \in [Ops -> Nat]
      BY <3>1, <1>5
    <3>3. next' = [next EXCEPT ![l] = [next[l] EXCEPT ![c.op] = next[l][c.op] + 1]]
      BY <2>1
    <3> QED
      BY <3>2, <3>3 DEF TypeOK
  <2>8. LockHeld'
    <3> SUFFICES ASSUME NEW m \in Links, NEW u \in Threads
                 PROVE  lock'[m] = u <=> pc'[u] = "checked" /\ LinkOf(u)' = m
      BY DEF LockHeld
    <3>1. LinkOf(t)' = l
      BY <2>1, <1>7 DEF LinkOf, TypeOK, l
    <3>2. u # t => LinkOf(u)' = LinkOf(u) /\ pc'[u] = pc[u]
      BY <2>1 DEF LinkOf, TypeOK
    <3>3. pc'[t] = "checked"
      BY <2>1 DEF TypeOK
    <3>4. lock'[m] = IF m = l THEN t ELSE lock[m]
      BY <2>1 DEF TypeOK
    <3>5. lock[m] = u <=> pc[u] = "checked" /\ LinkOf(u) = m
      BY DEF TypeOK, LockHeld
    <3>6. u # Nobody
      BY ScriptAssumption
    <3> QED
      BY <3>1, <3>2, <3>3, <3>4, <3>5, <3>6, <2>1, <2>2
  <2>9. PendingOwned'
    <3> SUFFICES ASSUME NEW m \in Links, NEW key \in pending[m]
                 PROVE  /\ pc'[key.thread] = "waiting" /\ reply'[key.thread] = NoReply
                        /\ LinkOf(key.thread)' = m /\ key = Key(key.thread)'
      BY <2>2 DEF PendingOwned
    <3>1. /\ pc[key.thread] = "waiting" /\ LinkOf(key.thread) = m
          /\ reply[key.thread] = NoReply
          /\ key = Key(key.thread) /\ key.thread \in Threads
      BY DEF TypeOK, PendingOwned, Keys
    <3>2. key.thread # t
      BY <3>1, <2>2
    <3> QED
      BY <3>1, <3>2, <2>1, <2>2 DEF LinkOf, Key, TypeOK
  <2> QED
    BY <1>1, <2>2, <2>3, <2>4, <2>5, <2>6, <2>7, <2>8, <2>9 DEF TypeOK
<1> QED
  BY <1>8, <1>9

(* The steps other than Request, Enqueue and Expire: some threads T end     *)
(* their calls and release their locks, and nothing new becomes pending.    *)
LEMMA CallsEnd ==
  ASSUME TypeOK, NEW T \in SUBSET Threads,
         pc' \in [Threads -> {"idle", "checked", "waiting", "expired"}],
         call' \in [Threads -> Frames \cup {NoCall}],
         calls' = calls, DOMAIN reply' = Threads,
         \A u \in Threads : /\ pc'[u] = IF u \in T THEN "idle" ELSE pc[u]
                            /\ call'[u] = IF u \in T THEN NoCall ELSE call[u]
                            /\ reply'[u] # NoReply => pc'[u] = "waiting",
         lock' \in [Links -> Threads \cup {Nobody}],
         \A m \in Links : lock'[m] = IF lock[m] \in T THEN Nobody ELSE lock[m],
         pending' \in [Links -> SUBSET Keys],
         \A m \in Links : pending'[m] \subseteq pending[m],
         \A m \in Links : \A key \in pending'[m] :
           key.thread \notin T /\ reply'[key.thread] = NoReply,
         next' \in [Links -> [Ops -> Nat]],
         up' \in [Links -> Streams],
         sends' \in [Rails -> Seq(Frames)], receives' \in [Rails -> Seq(Frames)]
  PROVE  TypeOK'
<1>1. \A u \in Threads :
        /\ call'[u] = NoCall <=> pc'[u] = "idle"
        /\ call'[u] # NoCall => call'[u].source = RankOf[u]
        /\ reply'[u] # NoReply => pc'[u] = "waiting"
  BY DEF TypeOK
<1>2. \A u \in Threads : u \notin T => LinkOf(u)' = LinkOf(u) /\ Key(u)' = Key(u)
  BY DEF LinkOf, Key
<1>3. LockHeld'
  <2> SUFFICES ASSUME NEW m \in Links, NEW u \in Threads
               PROVE  lock'[m] = u <=> pc'[u] = "checked" /\ LinkOf(u)' = m
    BY DEF LockHeld
  <2>1. lock[m] = u <=> pc[u] = "checked" /\ LinkOf(u) = m
    BY DEF TypeOK, LockHeld
  <2>2. u # Nobody
    BY ScriptAssumption
  <2>3. CASE u \in T
    BY <2>1, <2>2, <2>3
  <2>4. CASE u \notin T
    <3>1. pc'[u] = pc[u] /\ LinkOf(u)' = LinkOf(u)
      BY <2>4, <1>2
    <3>2. lock'[m] = u <=> lock[m] = u
      BY <2>4, <2>2
    <3> QED
      BY <2>1, <3>1, <3>2
  <2> QED
    BY <2>3, <2>4
<1>4. PendingOwned'
  <2> SUFFICES ASSUME NEW m \in Links, NEW key \in pending'[m]
               PROVE  /\ pc'[key.thread] = "waiting" /\ reply'[key.thread] = NoReply
                      /\ LinkOf(key.thread)' = m /\ key = Key(key.thread)'
    BY DEF PendingOwned
  <2>1. key \in pending[m] /\ key.thread \notin T /\ reply'[key.thread] = NoReply
    OBVIOUS
  <2>2. key.thread \in Threads
    BY DEF Keys
  <2>3. pc[key.thread] = "waiting" /\ LinkOf(key.thread) = m /\ key = Key(key.thread)
    BY <2>1 DEF TypeOK, PendingOwned
  <2> QED
    BY <1>2, <2>1, <2>2, <2>3
<1> QED
  BY <1>1, <1>3, <1>4 DEF TypeOK, Streams

(* Steps that leave the threads alone keep the types.                       *)
LEMMA ThreadsKept ==
  ASSUME TypeOK, UNCHANGED <<pc, call, calls, reply, lock, next, pending>>,
         up' \in [Links -> Streams],
         sends' \in [Rails -> Seq(Frames)], receives' \in [Rails -> Seq(Frames)]
  PROVE  TypeOK'
<1>1. \A m \in Links : \A key \in pending[m] : reply[key.thread] = NoReply
  BY DEF TypeOK, PendingOwned
<1>2. \A u \in Threads : reply[u] # NoReply => pc[u] = "waiting"
  BY DEF TypeOK
<1> QED
  BY <1>1, <1>2, CallsEnd, {} \in SUBSET Threads DEF TypeOK

(* fail_pending answers only threads that wait on the link.                 *)
LEMMA FailPendingTypes ==
  ASSUME TypeOK, NEW l \in Links, FailPending(l)
  PROVE  /\ pending' \in [Links -> SUBSET Keys]
         /\ \A m \in Links : pending'[m] = IF m = l THEN {} ELSE pending[m]
         /\ DOMAIN reply' = Threads
         /\ \A u \in Threads : reply'[u] # NoReply => pc[u] = "waiting"
         /\ \A m \in Links : \A key \in pending'[m] : reply'[key.thread] = NoReply
<1>1. /\ pending' \in [Links -> SUBSET Keys]
      /\ \A m \in Links : pending'[m] = IF m = l THEN {} ELSE pending[m]
  BY DEF TypeOK, FailPending
<1>2. /\ DOMAIN reply' = Threads
      /\ \A u \in Threads : reply'[u] = IF u \in Waiters(l) THEN Failed ELSE reply[u]
  BY DEF FailPending
<1>3. \A u \in Waiters(l) : u \in Threads /\ pc[u] = "waiting" /\ LinkOf(u) = l
  BY DEF Waiters, TypeOK, PendingOwned, Keys
<1>4. \A u \in Threads : reply'[u] # NoReply => pc[u] = "waiting"
  BY <1>2, <1>3 DEF TypeOK
<1>5. ASSUME NEW m \in Links, NEW key \in pending'[m]
      PROVE  reply'[key.thread] = NoReply
  <2>1. key \in pending[m] /\ m # l /\ key.thread \in Threads
    BY <1>1 DEF TypeOK, Keys
  <2>2. reply[key.thread] = NoReply /\ LinkOf(key.thread) = m
    BY <2>1 DEF TypeOK, PendingOwned
  <2>3. key.thread \notin Waiters(l)
    BY <2>1, <2>2, <1>3
  <2> QED
    BY <1>2, <2>1, <2>2, <2>3
<1> QED
  BY <1>1, <1>2, <1>4, <1>5

(* A frame is written to the stream of a link.                              *)
LEMMA AppendUp ==
  ASSUME TypeOK, NEW l \in Links, NEW m \in Frames \cup {Eof, Leave, Abort}
  PROVE  /\ Append(up[l], m) \in Streams
         /\ [up EXCEPT ![l] = Append(@, m)] \in [Links -> Streams]
<1>1. up[l] \in Streams /\ Append(up[l], m) \in Streams
  BY DEF TypeOK, Streams
<1> QED
  BY <1>1 DEF TypeOK, Streams

(* A call writes its frame, or finds that it cannot.                        *)
LEMMA EnqueueTypes ==
  ASSUME TypeOK, NEW t \in Threads, Enqueue(t)
  PROVE  TypeOK'
<1> DEFINE l == LinkOf(t)
<1>1. /\ pc[t] = "checked" /\ l \in Links /\ call[t] \in Frames /\ Key(t) \in Keys
  BY LinkType DEF Enqueue
<1>2. /\ calls' = calls /\ next' = next /\ sends' = sends /\ receives' = receives
      /\ lock' = [lock EXCEPT ![l] = Nobody]
  BY DEF Enqueue, routers
<1>3. lock' \in [Links -> Threads \cup {Nobody}]
  BY <1>1, <1>2 DEF TypeOK
<1>4. \A m \in Links : lock[m] = t <=> m = l
  BY <1>1 DEF TypeOK, LockHeld
<1>5. \A m \in Links : lock'[m] = IF lock[m] \in {t} THEN Nobody ELSE lock[m]
  BY <1>2, <1>4 DEF TypeOK
<1>6. CASE /\ ~shut[l]
           /\ pc' = [pc EXCEPT ![t] = "waiting"]
           /\ pending' = [pending EXCEPT ![l] = @ \cup {Key(t)}]
           /\ up' = [up EXCEPT ![l] = Append(@, call[t])]
           /\ UNCHANGED <<call, reply, failure>>
  <2> HIDE DEF l
  <2>1. up' \in [Links -> Streams]
    BY <1>1, <1>6, AppendUp
  <2>2. pc' \in [Threads -> {"idle", "checked", "waiting", "expired"}]
    BY <1>6 DEF TypeOK
  <2>3. pending' \in [Links -> SUBSET Keys]
    BY <1>1, <1>6 DEF TypeOK
  <2>4. \A u \in Threads :
          /\ call'[u] = NoCall <=> pc'[u] = "idle"
          /\ call'[u] # NoCall => call'[u].source = RankOf[u]
          /\ reply'[u] # NoReply => pc'[u] = "waiting"
    BY <1>1, <1>6 DEF TypeOK
  <2>5. \A u \in Threads : LinkOf(u)' = LinkOf(u) /\ Key(u)' = Key(u)
    BY <1>6 DEF LinkOf, Key
  <2>6. LockHeld'
    <3> SUFFICES ASSUME NEW m \in Links, NEW u \in Threads
                 PROVE  lock'[m] = u <=> pc'[u] = "checked" /\ LinkOf(u)' = m
      BY DEF LockHeld
    <3>1. lock[m] = u <=> pc[u] = "checked" /\ LinkOf(u) = m
      BY DEF TypeOK, LockHeld
    <3>2. u # Nobody
      BY ScriptAssumption
    <3>3. pc'[u] = IF u = t THEN "waiting" ELSE pc[u]
      BY <1>6 DEF TypeOK
    <3> QED
      BY <1>5, <2>5, <3>1, <3>2, <3>3
  <2>7. PendingOwned'
    <3> SUFFICES ASSUME NEW m \in Links, NEW key \in pending'[m]
                 PROVE  /\ pc'[key.thread] = "waiting" /\ reply'[key.thread] = NoReply
                        /\ LinkOf(key.thread)' = m /\ key = Key(key.thread)'
      BY DEF PendingOwned
    <3>1. key \in pending[m] \/ (key = Key(t) /\ m = l)
      BY <1>6, <1>1 DEF TypeOK
    <3>2. key.thread \in Threads
      BY <2>3 DEF Keys
    <3>3. CASE key \in pending[m]
      <4>1. /\ pc[key.thread] = "waiting" /\ reply[key.thread] = NoReply
            /\ LinkOf(key.thread) = m /\ key = Key(key.thread)
        BY <3>3 DEF TypeOK, PendingOwned
      <4>2. key.thread # t
        BY <4>1, <1>1
      <4> QED
        BY <4>1, <4>2, <3>2, <2>5, <1>6 DEF TypeOK
    <3>4. CASE key = Key(t) /\ m = l
      <4>1. key.thread = t
        BY <3>4 DEF Key
      <4>2. pc'[t] = "waiting"
        BY <1>6 DEF TypeOK
      <4>3. reply[t] = NoReply
        BY <1>1 DEF TypeOK
      <4> QED
        BY <4>1, <4>2, <4>3, <3>4, <2>5, <1>6 DEF l
    <3> QED
      BY <3>1, <3>3, <3>4
  <2>8. /\ call' \in [Threads -> Frames \cup {NoCall}]
        /\ calls' \in [Threads -> 0 .. MaxCalls] /\ DOMAIN reply' = Threads
        /\ next' \in [Links -> [Ops -> Nat]]
        /\ sends' \in [Rails -> Seq(Frames)] /\ receives' \in [Rails -> Seq(Frames)]
    BY <1>2, <1>6 DEF TypeOK
  <2> QED
    BY <1>3, <2>1, <2>2, <2>3, <2>4, <2>6, <2>7, <2>8 DEF TypeOK, Streams
<1>7. CASE /\ pc' = [pc EXCEPT ![t] = "idle"]
           /\ call' = [call EXCEPT ![t] = NoCall]
           /\ FailPending(l)
           /\ UNCHANGED up
  <2> HIDE DEF l
  <2>1. /\ pending' \in [Links -> SUBSET Keys]
        /\ \A m \in Links : pending'[m] = IF m = l THEN {} ELSE pending[m]
        /\ DOMAIN reply' = Threads
        /\ \A u \in Threads : reply'[u] # NoReply => pc[u] = "waiting"
        /\ \A m \in Links : \A key \in pending'[m] : reply'[key.thread] = NoReply
    BY <1>1, <1>7, FailPendingTypes
  <2>2. \A m \in Links : pending'[m] \subseteq pending[m]
    BY <2>1
  <2>3. \A m \in Links : \A key \in pending'[m] : key.thread \notin {t}
    BY <2>2, <1>1 DEF TypeOK, PendingOwned
  <2>4. /\ pc' \in [Threads -> {"idle", "checked", "waiting", "expired"}]
        /\ call' \in [Threads -> Frames \cup {NoCall}]
    BY <1>7 DEF TypeOK
  <2>5. \A u \in Threads : /\ pc'[u] = IF u \in {t} THEN "idle" ELSE pc[u]
                           /\ call'[u] = IF u \in {t} THEN NoCall ELSE call[u]
    BY <1>7 DEF TypeOK
  <2>6. \A u \in Threads : reply'[u] # NoReply => pc'[u] = "waiting"
    BY <2>1, <2>5, <1>1
  <2>7. /\ up' \in [Links -> Streams] /\ next' \in [Links -> [Ops -> Nat]]
        /\ sends' \in [Rails -> Seq(Frames)] /\ receives' \in [Rails -> Seq(Frames)]
    BY <1>2, <1>7 DEF TypeOK, Streams
  <2>8. {t} \in SUBSET Threads
    OBVIOUS
  <2>9. \A u \in Threads : /\ pc'[u] = IF u \in {t} THEN "idle" ELSE pc[u]
                           /\ call'[u] = IF u \in {t} THEN NoCall ELSE call[u]
                           /\ reply'[u] # NoReply => pc'[u] = "waiting"
    BY <2>5, <2>6
  <2>10. \A m \in Links : \A key \in pending'[m] :
           key.thread \notin {t} /\ reply'[key.thread] = NoReply
    BY <2>1, <2>3
  <2>11. calls' = calls /\ DOMAIN reply' = Threads
    BY <1>2, <2>1
  <2>12. pending' \in [Links -> SUBSET Keys]
    BY <2>1
  <2> QED
    BY <1>3, <1>5, <2>2, <2>4, <2>7, <2>8, <2>9, <2>10, <2>11, <2>12, CallsEnd
<1> QED
  BY <1>6, <1>7 DEF Enqueue

(* What is pending stays answerable while the replies do not change.        *)
LEMMA PendingUnanswered ==
  ASSUME TypeOK
  PROVE  /\ \A m \in Links : \A key \in pending[m] :
              /\ key.thread \in Threads /\ pc[key.thread] = "waiting"
              /\ reply[key.thread] = NoReply /\ LinkOf(key.thread) = m
              /\ key = Key(key.thread)
         /\ \A u \in Threads : reply[u] # NoReply => pc[u] = "waiting"
BY DEF TypeOK, PendingOwned, Keys

(* One thread that waits or has expired, and whose key is not pending,      *)
(* ends its call.                                                           *)
LEMMA OneCallEnds ==
  ASSUME TypeOK, NEW t \in Threads, pc[t] \in {"waiting", "expired"},
         \A m \in Links : \A key \in pending[m] : key.thread # t,
         pc' = [pc EXCEPT ![t] = "idle"],
         call' = [call EXCEPT ![t] = NoCall],
         reply' = [u \in Threads |-> IF u = t THEN NoReply ELSE reply[u]],
         UNCHANGED <<calls, lock, next, pending, sends, receives>>,
         up' \in [Links -> Streams]
  PROVE  TypeOK'
<1>1. /\ pc' \in [Threads -> {"idle", "checked", "waiting", "expired"}]
      /\ call' \in [Threads -> Frames \cup {NoCall}]
  BY DEF TypeOK
<1>2. \A u \in Threads : /\ pc'[u] = IF u \in {t} THEN "idle" ELSE pc[u]
                         /\ call'[u] = IF u \in {t} THEN NoCall ELSE call[u]
                         /\ reply'[u] # NoReply => pc'[u] = "waiting"
  BY PendingUnanswered DEF TypeOK
<1>3. \A m \in Links : lock'[m] = IF lock[m] \in {t} THEN Nobody ELSE lock[m]
  BY DEF TypeOK, LockHeld
<1>4. \A m \in Links : \A key \in pending'[m] :
        key.thread \notin {t} /\ reply'[key.thread] = NoReply
  BY PendingUnanswered
<1>5. \A m \in Links : pending'[m] \subseteq pending[m]
  OBVIOUS
<1>6. /\ lock' \in [Links -> Threads \cup {Nobody}] /\ pending' \in [Links -> SUBSET Keys]
      /\ next' \in [Links -> [Ops -> Nat]]
      /\ sends' \in [Rails -> Seq(Frames)] /\ receives' \in [Rails -> Seq(Frames)]
  BY DEF TypeOK
<1>7. {t} \in SUBSET Threads
  OBVIOUS
<1> QED
  BY <1>1, <1>2, <1>3, <1>4, <1>5, <1>6, <1>7, CallsEnd

(* A call that has its reply returns.                                       *)
LEMMA ReturnTypes ==
  ASSUME TypeOK, NEW t \in Threads, Return(t)
  PROVE  TypeOK'
<1>1. \A m \in Links : \A key \in pending[m] : key.thread # t
  BY PendingUnanswered DEF Return
<1>2. reply' = [u \in Threads |-> IF u = t THEN NoReply ELSE reply[u]]
  BY DEF TypeOK, Return
<1>3. up' \in [Links -> Streams]
  BY DEF Return, TypeOK, Streams
<1> QED
  BY <1>1, <1>2, <1>3, OneCallEnds DEF Return, clients, routers

(* The links that are shut down get an end of stream.                       *)
LEMMA ShutDownTypes ==
  ASSUME TypeOK, NEW L, ShutDown(L)
  PROVE  up' \in [Links -> Streams]
<1>1. \A l \in Links : Append(up[l], Eof) \in Streams /\ up[l] \in Streams
  BY AppendUp DEF TypeOK, Streams
<1>2. \A l \in Links : (IF l \in L /\ ~shut[l] THEN Append(up[l], Eof) ELSE up[l]) \in Streams
  BY <1>1
<1> QED
  BY <1>2 DEF ShutDown

(* A call that expired shuts its link down.                                 *)
LEMMA ShutExpiredTypes ==
  ASSUME TypeOK, NEW t \in Threads, ShutExpired(t)
  PROVE  TypeOK'
<1>1. \A m \in Links : \A key \in pending[m] : key.thread # t
  BY PendingUnanswered DEF ShutExpired
<1>2. reply' = [u \in Threads |-> IF u = t THEN NoReply ELSE reply[u]]
  BY DEF TypeOK, ShutExpired
<1>3. up' \in [Links -> Streams]
  BY ShutDownTypes DEF ShutExpired
<1> QED
  BY <1>1, <1>2, <1>3, OneCallEnds DEF ShutExpired, routers

(* A call waits too long.                                                   *)
LEMMA ExpireTypes ==
  ASSUME TypeOK, NEW t \in Threads, Expire(t)
  PROVE  TypeOK'
<1> DEFINE l == LinkOf(t)
<1>1. pc[t] = "waiting" /\ reply[t] = NoReply /\ l \in Links
  BY LinkType DEF Expire
<1>2. /\ pc' = [pc EXCEPT ![t] = "expired"]
      /\ pending' = [pending EXCEPT ![l] = @ \ {Key(t)}]
      /\ UNCHANGED <<call, calls, reply, lock, next, up, sends, receives>>
  BY DEF Expire, Forget, routers
<1> HIDE DEF l
<1>3. /\ pc' \in [Threads -> {"idle", "checked", "waiting", "expired"}]
      /\ pending' \in [Links -> SUBSET Keys]
      /\ \A m \in Links : pending'[m] = IF m = l THEN pending[m] \ {Key(t)} ELSE pending[m]
  BY <1>1, <1>2 DEF TypeOK
<1>4. \A u \in Threads :
        /\ pc'[u] = IF u = t THEN "expired" ELSE pc[u]
        /\ LinkOf(u)' = LinkOf(u) /\ Key(u)' = Key(u)
  BY <1>2 DEF TypeOK, LinkOf, Key
<1>5. \A u \in Threads :
        /\ call'[u] = NoCall <=> pc'[u] = "idle"
        /\ call'[u] # NoCall => call'[u].source = RankOf[u]
        /\ reply'[u] # NoReply => pc'[u] = "waiting"
  BY <1>1, <1>2, <1>4 DEF TypeOK
<1>6. LockHeld'
  BY <1>1, <1>2, <1>4 DEF TypeOK, LockHeld
<1>7. PendingOwned'
  <2> SUFFICES ASSUME NEW m \in Links, NEW key \in pending'[m]
               PROVE  /\ pc'[key.thread] = "waiting" /\ reply'[key.thread] = NoReply
                      /\ LinkOf(key.thread)' = m /\ key = Key(key.thread)'
    BY DEF PendingOwned
  <2>1. key \in pending[m] /\ (m = l => key # Key(t))
    BY <1>3
  <2>2. /\ key.thread \in Threads /\ pc[key.thread] = "waiting"
        /\ reply[key.thread] = NoReply /\ LinkOf(key.thread) = m
        /\ key = Key(key.thread)
    BY <2>1, PendingUnanswered
  <2>3. key.thread # t
    BY <2>1, <2>2 DEF l
  <2> QED
    BY <2>2, <2>3, <1>2, <1>4
<1>8. /\ call' \in [Threads -> Frames \cup {NoCall}] /\ calls' \in [Threads -> 0 .. MaxCalls]
      /\ lock' \in [Links -> Threads \cup {Nobody}] /\ next' \in [Links -> [Ops -> Nat]]
      /\ up' \in [Links -> Streams] /\ DOMAIN reply' = Threads
      /\ sends' \in [Rails -> Seq(Frames)] /\ receives' \in [Rails -> Seq(Frames)]
  BY <1>2 DEF TypeOK, Streams
<1> QED
  BY <1>3, <1>5, <1>6, <1>7, <1>8 DEF TypeOK, Streams

(* A session aborts one of its rails.                                       *)
LEMMA AbortRailTypes ==
  ASSUME TypeOK, NEW l \in Links, AbortRail(l[1], l[2])
  PROVE  TypeOK'
<1>1. l = <<l[1], l[2]>>
  BY DEF Links
<1>2. /\ next' = [next EXCEPT ![l]["Send"] = @ + 1]
      /\ up' = IF shut[l] THEN up ELSE [up EXCEPT ![l] = Append(@, Abort)]
      /\ UNCHANGED <<pc, call, calls, reply, lock, pending, sends, receives>>
  BY <1>1 DEF AbortRail, threads, routers
<1>3. up' \in [Links -> Streams]
  BY <1>2, AppendUp DEF TypeOK, Streams
<1>4. next' \in [Links -> [Ops -> Nat]]
  <2>1. next[l] \in [Ops -> Nat] /\ "Send" \in Ops
    BY DEF TypeOK, Ops
  <2>2. [next[l] EXCEPT !["Send"] = next[l]["Send"] + 1] \in [Ops -> Nat]
    BY <2>1
  <2>3. next' = [next EXCEPT ![l] = [next[l] EXCEPT !["Send"] = next[l]["Send"] + 1]]
    BY <1>2
  <2> QED
    BY <2>2, <2>3 DEF TypeOK
<1>5. \A u \in Threads : /\ pc'[u] = IF u \in {} THEN "idle" ELSE pc[u]
                         /\ call'[u] = IF u \in {} THEN NoCall ELSE call[u]
                         /\ reply'[u] # NoReply => pc'[u] = "waiting"
  BY <1>2, PendingUnanswered
<1>6. \A m \in Links : lock'[m] = IF lock[m] \in {} THEN Nobody ELSE lock[m]
  BY <1>2
<1>7. \A m \in Links : \A key \in pending'[m] :
        key.thread \notin {} /\ reply'[key.thread] = NoReply
  BY <1>2, PendingUnanswered
<1>8. {} \in SUBSET Threads /\ \A m \in Links : pending'[m] \subseteq pending[m]
  BY <1>2
<1>9. /\ pc' \in [Threads -> {"idle", "checked", "waiting", "expired"}]
      /\ call' \in [Threads -> Frames \cup {NoCall}]
      /\ calls' = calls /\ DOMAIN reply' = Threads
      /\ lock' \in [Links -> Threads \cup {Nobody}] /\ pending' \in [Links -> SUBSET Keys]
      /\ sends' \in [Rails -> Seq(Frames)] /\ receives' \in [Rails -> Seq(Frames)]
  BY <1>2 DEF TypeOK
<1> QED
  BY <1>3, <1>4, <1>5, <1>6, <1>7, <1>8, <1>9, CallsEnd

(* A session is dropped.                                                    *)
LEMMA DropSessionTypes ==
  ASSUME TypeOK, NEW r \in Ranks, DropSession(r)
  PROVE  TypeOK'
<1>1. UNCHANGED <<pc, call, calls, reply, lock, next, pending, sends, receives>>
  BY DEF DropSession, threads, routers
<1>2. \A l \in Links : up[l] \in Streams /\ up[l] \o <<Leave, Eof>> \in Streams
  <2> SUFFICES ASSUME NEW l \in Links
               PROVE  up[l] \in Streams /\ up[l] \o <<Leave, Eof>> \in Streams
    OBVIOUS
  <2>1. up[l] \in Seq(Frames \cup {Eof, Leave, Abort})
    BY DEF TypeOK
  <2>2. <<Leave, Eof>> \in Seq(Frames \cup {Eof, Leave, Abort})
    OBVIOUS
  <2> QED
    BY <2>1, <2>2 DEF Streams
<1>3. up' \in [Links -> Streams]
  BY <1>2 DEF DropSession
<1>4. sends' \in [Rails -> Seq(Frames)] /\ receives' \in [Rails -> Seq(Frames)]
  BY <1>1 DEF TypeOK
<1> QED
  BY <1>1, <1>3, <1>4, ThreadsKept

(* A rank dies.                                                             *)
LEMMA CrashTypes ==
  ASSUME TypeOK, NEW r \in Ranks, Crash(r)
  PROVE  TypeOK'
<1> DEFINE T == {t \in Threads : RankOf[t] = r}
<1>1. T \in SUBSET Threads
  OBVIOUS
<1>2. /\ pc' = [t \in Threads |-> IF t \in T THEN "idle" ELSE pc[t]]
      /\ call' = [t \in Threads |-> IF t \in T THEN NoCall ELSE call[t]]
      /\ reply' = [t \in Threads |-> IF t \in T THEN NoReply ELSE reply[t]]
  BY DEF Crash
<1>3. /\ pending' = [l \in Links |-> IF l[1] = r THEN {} ELSE pending[l]]
      /\ lock' = [l \in Links |-> IF l[1] = r THEN Nobody ELSE lock[l]]
      /\ UNCHANGED <<calls, next, sends, receives>>
  BY DEF Crash, routers
<1>4. \A t \in Threads : t \in T <=> RankOf[t] = r
  OBVIOUS
<1>5. \A t \in Threads : LinkOf(t)[1] = RankOf[t]
  BY DEF LinkOf
<1> HIDE DEF T
<1>6. /\ pc' \in [Threads -> {"idle", "checked", "waiting", "expired"}]
      /\ call' \in [Threads -> Frames \cup {NoCall}] /\ DOMAIN reply' = Threads
  BY <1>2 DEF TypeOK
<1>7. \A u \in Threads : /\ pc'[u] = IF u \in T THEN "idle" ELSE pc[u]
                         /\ call'[u] = IF u \in T THEN NoCall ELSE call[u]
                         /\ reply'[u] # NoReply => pc'[u] = "waiting"
  BY <1>2, PendingUnanswered
<1>8. \A m \in Links : lock'[m] = IF lock[m] \in T THEN Nobody ELSE lock[m]
  <2> SUFFICES ASSUME NEW m \in Links
               PROVE  lock'[m] = IF lock[m] \in T THEN Nobody ELSE lock[m]
    OBVIOUS
  <2>1. lock'[m] = IF m[1] = r THEN Nobody ELSE lock[m]
    BY <1>3
  <2>2. CASE lock[m] = Nobody
    BY <2>1, <2>2
  <2>3. CASE lock[m] # Nobody
    <3>1. lock[m] \in Threads /\ LinkOf(lock[m]) = m
      BY <2>3 DEF TypeOK, LockHeld
    <3> QED
      BY <2>1, <3>1, <1>4, <1>5
  <2> QED
    BY <2>2, <2>3
<1>9. \A m \in Links : pending'[m] \subseteq pending[m]
  BY <1>3
<1>10. \A m \in Links : \A key \in pending'[m] :
         key.thread \notin T /\ reply'[key.thread] = NoReply
  <2> SUFFICES ASSUME NEW m \in Links, NEW key \in pending'[m]
               PROVE  key.thread \notin T /\ reply'[key.thread] = NoReply
    OBVIOUS
  <2>1. key \in pending[m] /\ m[1] # r
    BY <1>3
  <2>2. key.thread \in Threads /\ reply[key.thread] = NoReply /\ LinkOf(key.thread) = m
    BY <2>1, PendingUnanswered
  <2>3. key.thread \notin T
    BY <2>1, <2>2, <1>4, <1>5
  <2> QED
    BY <2>2, <2>3, <1>2
<1>11. /\ lock' \in [Links -> Threads \cup {Nobody}] /\ pending' \in [Links -> SUBSET Keys]
  BY <1>3 DEF TypeOK
<1>12. /\ next' \in [Links -> [Ops -> Nat]] /\ calls' = calls
       /\ sends' \in [Rails -> Seq(Frames)] /\ receives' \in [Rails -> Seq(Frames)]
  BY <1>3 DEF TypeOK
<1>13. up' \in [Links -> Streams]
  <2>1. \A l \in Links : up[l] \in Streams /\ Append(up[l], Eof) \in Streams
    BY AppendUp DEF TypeOK, Streams
  <2> QED
    BY <2>1 DEF Crash
<1> QED
  BY <1>1, <1>6, <1>7, <1>8, <1>9, <1>10, <1>11, <1>12, <1>13, CallsEnd

(* A reader answers requests and forgets them.                              *)
LEMMA PendingShrinks ==
  ASSUME TypeOK, NEW l \in Links, NEW found \in SUBSET pending[l],
         UNCHANGED <<pc, call, calls, lock, next, up, sends, receives>>,
         pending' = [pending EXCEPT ![l] = @ \ found],
         DOMAIN reply' = Threads,
         \A u \in Threads : (\A key \in found : key.thread # u) => reply'[u] = reply[u]
  PROVE  TypeOK'
<1>1. \A m \in Links : pending'[m] = IF m = l THEN pending[m] \ found ELSE pending[m]
  BY DEF TypeOK
<1>2. pending' \in [Links -> SUBSET Keys] /\ \A m \in Links : pending'[m] \subseteq pending[m]
  BY DEF TypeOK
<1>3. \A u \in Threads : /\ pc'[u] = IF u \in {} THEN "idle" ELSE pc[u]
                         /\ call'[u] = IF u \in {} THEN NoCall ELSE call[u]
                         /\ reply'[u] # NoReply => pc'[u] = "waiting"
  BY PendingUnanswered
<1>4. \A m \in Links : lock'[m] = IF lock[m] \in {} THEN Nobody ELSE lock[m]
  OBVIOUS
<1>5. \A m \in Links : \A key \in pending'[m] :
        key.thread \notin {} /\ reply'[key.thread] = NoReply
  <2> SUFFICES ASSUME NEW m \in Links, NEW key \in pending'[m]
               PROVE  reply'[key.thread] = NoReply
    OBVIOUS
  <2>1. key \in pending[m] /\ (m = l => key \notin found)
    BY <1>1
  <2>2. /\ key.thread \in Threads /\ reply[key.thread] = NoReply
        /\ LinkOf(key.thread) = m /\ key = Key(key.thread)
    BY <2>1, PendingUnanswered
  <2>3. \A other \in found : LinkOf(other.thread) = l /\ other = Key(other.thread)
    BY PendingUnanswered
  <2>4. \A other \in found : other.thread # key.thread
    BY <2>1, <2>2, <2>3
  <2> QED
    BY <2>2, <2>4
<1>6. /\ pc' \in [Threads -> {"idle", "checked", "waiting", "expired"}]
      /\ call' \in [Threads -> Frames \cup {NoCall}]
      /\ calls' = calls /\ {} \in SUBSET Threads
  BY DEF TypeOK
<1>7. /\ lock' \in [Links -> Threads \cup {Nobody}]
      /\ next' \in [Links -> [Ops -> Nat]] /\ up' \in [Links -> Streams]
      /\ sends' \in [Rails -> Seq(Frames)] /\ receives' \in [Rails -> Seq(Frames)]
  BY DEF TypeOK, Streams
<1> QED
  BY <1>2, <1>3, <1>4, <1>5, <1>6, <1>7, CallsEnd

(* The reader of a link reads a reply, or the end.                          *)
LEMMA ReaderTypes ==
  ASSUME TypeOK, NEW l \in Links, ReaderStep(l)
  PROVE  TypeOK'
<1>1. CASE ReadReply(l)
  <2> DEFINE m == Head(down[l])
             found == {key \in pending[l] : Answers(m, key)}
  <2>1. /\ pending' = [pending EXCEPT ![l] = @ \ found]
        /\ reply' = [t \in Threads |->
             IF \E key \in found : key.thread = t
             THEN [kind |-> "data", op |-> m.op, from |-> m.from] ELSE reply[t]]
    BY <1>1 DEF ReadReply
  <2>2. UNCHANGED <<pc, call, calls, lock, next, up, sends, receives>>
    BY <1>1 DEF ReadReply, routers
  <2>3. found \in SUBSET pending[l]
    OBVIOUS
  <2> HIDE DEF found, m
  <2>4. \A u \in Threads : (\A key \in found : key.thread # u) => reply'[u] = reply[u]
    BY <2>1
  <2>5. DOMAIN reply' = Threads
    BY <2>1
  <2> QED
    BY <2>1, <2>2, <2>3, <2>4, <2>5, PendingShrinks
<1>2. CASE ReadEnd(l)
  <2>1. UNCHANGED <<pc, call, calls, lock, next, up, sends, receives>> /\ FailPending(l)
    BY <1>2 DEF ReadEnd, routers
  <2>2. pending' = [pending EXCEPT ![l] = @ \ pending[l]]
    BY <2>1 DEF FailPending, TypeOK
  <2>3. \A u \in Threads : (\A key \in pending[l] : key.thread # u) => reply'[u] = reply[u]
    BY <2>1 DEF FailPending, Waiters
  <2>4. DOMAIN reply' = Threads /\ pending[l] \in SUBSET pending[l]
    BY <2>1 DEF FailPending
  <2> QED
    BY <2>1, <2>2, <2>3, <2>4, PendingShrinks
<1> QED
  BY <1>1, <1>2 DEF ReaderStep

(* The router matches, queues or drops a frame.                             *)
LEMMA RouterTypes ==
  ASSUME TypeOK, NEW l \in Links, RouterStep(l)
  PROVE  TypeOK'
<1> DEFINE k == RailOf(l)
           f == Head(up[l])
<1>1. k \in Rails
  BY DEF RailOf, Links
<1>2. sends[k] \in Seq(Frames) /\ receives[k] \in Seq(Frames)
  BY <1>1 DEF TypeOK
<1>3. /\ up[l] # <<>> /\ up' = [up EXCEPT ![l] = Tail(@)]
      /\ UNCHANGED <<threads, clients>>
  BY DEF RouterStep, RouteSend, RouteReceive, RouteHeartbeat, RouteLeave, RouteAbort,
         WriteFails, DeliveryFails, LinkClosed, Incoming
<1>4. up' \in [Links -> Streams]
  BY <1>3, HeadTail
<1>5. sends' \in [Rails -> Seq(Frames)] /\ receives' \in [Rails -> Seq(Frames)]
  <2>1. CASE RouteSend(l) \/ (DeliveryFails(l) /\ f.op = "Send")
    <3>1. f \in Frames
      BY <2>1, <1>3, HeadTail DEF RouteSend, DeliveryFails, Incoming, Ops
    <3>2. Append(sends[k], f) \in Seq(Frames)
      BY <3>1, <1>2
    <3>3. QueuedReceive(k, f) # 0 => RemoveAt(receives[k], QueuedReceive(k, f)) \in Seq(Frames)
      BY <1>1, <1>2, QueuedReceiveFinds, RemoveAtElements
    <3>4. \/ /\ sends' = [sends EXCEPT ![k] = Append(@, f)]
             /\ receives' = receives
          \/ /\ QueuedReceive(k, f) # 0
             /\ receives' = [receives EXCEPT ![k] = RemoveAt(@, QueuedReceive(k, f))]
             /\ sends' = sends
      BY <2>1 DEF RouteSend, DeliveryFails
    <3> QED
      BY <1>1, <3>2, <3>3, <3>4 DEF TypeOK
  <2>2. CASE RouteReceive(l) \/ (DeliveryFails(l) /\ f.op = "Receive")
    <3>1. f \in Frames
      BY <2>2, <1>3, HeadTail DEF RouteReceive, DeliveryFails, Incoming, Ops
    <3>2. Append(receives[k], f) \in Seq(Frames)
      BY <3>1, <1>2
    <3>3. QueuedSend(k, f) # 0 => RemoveAt(sends[k], QueuedSend(k, f)) \in Seq(Frames)
      BY <1>1, <1>2, QueuedSendFinds, RemoveAtElements
    <3>4. \/ /\ receives' = [receives EXCEPT ![k] = Append(@, f)]
             /\ sends' = sends
          \/ /\ QueuedSend(k, f) # 0
             /\ sends' = [sends EXCEPT ![k] = RemoveAt(@, QueuedSend(k, f))]
             /\ receives' = receives
      BY <2>2 DEF RouteReceive, DeliveryFails
    <3> QED
      BY <1>1, <3>2, <3>3, <3>4 DEF TypeOK
  <2>3. CASE \/ RouteHeartbeat(l) \/ RouteLeave(l) \/ RouteAbort(l)
             \/ WriteFails(l) \/ LinkClosed(l)
    BY <2>3 DEF TypeOK, RouteHeartbeat, RouteLeave, RouteAbort, WriteFails, LinkClosed, routers
  <2>4. DeliveryFails(l) => f.op \in {"Send", "Receive"}
    BY DEF DeliveryFails, Incoming
  <2> QED
    BY <2>1, <2>2, <2>3, <2>4 DEF RouterStep
<1> QED
  BY <1>3, <1>4, <1>5, ThreadsKept DEF threads, clients

(* The lease of a link expires.                                             *)
LEMMA LeaseTypes ==
  ASSUME TypeOK, NEW l \in Links, LeaseExpires(l)
  PROVE  TypeOK'
BY ThreadsKept DEF LeaseExpires, threads, clients, TypeOK, Streams

(* A step that changes nothing.                                             *)
LEMMA StutterTypes ==
  ASSUME TypeOK, UNCHANGED vars
  PROVE  TypeOK'
BY ThreadsKept DEF vars, threads, clients, routers, TypeOK, Streams

(* Every step keeps the types.                                              *)
LEMMA NextTypes == TypeOK /\ [Next]_vars => TypeOK'
<1> SUFFICES ASSUME TypeOK, [Next]_vars PROVE TypeOK'
  OBVIOUS
<1>1. ASSUME NEW t \in Threads, ThreadStep(t) PROVE TypeOK'
  BY <1>1, RequestTypes, EnqueueTypes, ReturnTypes, ExpireTypes, ShutExpiredTypes DEF ThreadStep
<1>2. ASSUME NEW r \in Ranks, RankStep(r) PROVE TypeOK'
  <2>1. ASSUME NEW k \in Rails, AbortRail(r, k) PROVE TypeOK'
    <3>1. <<r, k>> \in Links /\ <<r, k>>[1] = r /\ <<r, k>>[2] = k
      BY DEF Links
    <3> QED
      BY <2>1, <3>1, AbortRailTypes
  <2> QED
    BY <1>2, <2>1, DropSessionTypes, CrashTypes DEF RankStep
<1>3. ASSUME NEW l \in Links, ReaderStep(l) \/ RouterStep(l) \/ LeaseExpires(l) PROVE TypeOK'
  BY <1>3, ReaderTypes, RouterTypes, LeaseTypes
<1> QED
  BY <1>1, <1>2, <1>3, StutterTypes DEF Next

(* The requests, locks and queues keep their types and agree with each      *)
(* other: a lock is held by the thread that submits, and what is pending    *)
(* belongs to a thread that waits for it.                                   *)
THEOREM TypeCorrect == Spec => []TypeOK
<1>1. Init => TypeOK
  BY InitTypes
<1>2. TypeOK /\ [Next]_vars => TypeOK'
  BY NextTypes
<1> QED
  BY <1>1, <1>2, PTL DEF Spec

-----------------------------------------------------------------------------
(* At most one request is stranded.                                         *)

(* A reader thread ends only with a failure or with its session.            *)
ReaderEnded ==
  \A l \in Links : ~reader[l] => failure[l[1]] \/ status[l[1]] = "out"

(* What is pending without a reader is alone, and nobody is about to follow *)
(* it.                                                                      *)
LateAlone ==
  \A l \in Links : ~reader[l] =>
    \A a \in pending[l] : lock[l] = Nobody /\ \A b \in pending[l] : a = b

LateTypes ==
  /\ reader \in [Links -> BOOLEAN] /\ failure \in [Ranks -> BOOLEAN]
  /\ status \in [Ranks -> {"in", "out"}]

LateInv == TypeOK /\ LateTypes /\ ReaderEnded /\ LateAlone

(* Initially every link has its reader.                                     *)
LEMMA InitLate == Init => LateInv
<1> SUFFICES ASSUME Init PROVE LateInv
  OBVIOUS
<1>1. LateTypes /\ ReaderEnded /\ LateAlone
  BY DEF Init, LateTypes, ReaderEnded, LateAlone
<1> QED
  BY <1>1, InitTypes DEF LateInv

(* Steps that leave the readers alone, revoke no failure, and take a lock   *)
(* or add a request only while the reader runs.                             *)
LEMMA LateKept ==
  ASSUME LateInv, TypeOK', UNCHANGED <<reader, status>>,
         failure' \in [Ranks -> BOOLEAN],
         \A r \in Ranks : failure[r] => failure'[r],
         \A l \in Links : ~reader[l] =>
           /\ pending'[l] \subseteq pending[l]
           /\ lock'[l] = lock[l] \/ lock'[l] = Nobody
  PROVE  LateInv'
<1>1. LateTypes'
  BY DEF LateInv, LateTypes
<1>2. ReaderEnded'
  BY DEF LateInv, ReaderEnded, Links
<1>3. LateAlone'
  BY DEF LateInv, LateAlone
<1> QED
  BY <1>1, <1>2, <1>3 DEF LateInv

(* A call that starts leaves the pending requests alone.                    *)
LEMMA RequestLate ==
  ASSUME LateInv, TypeOK', NEW t \in Threads, Request(t)
  PROVE  LateInv'
<1>1. UNCHANGED <<reader, status, failure, pending>> /\ status[RankOf[t]] = "in"
  BY DEF Request
<1>2. failure' \in [Ranks -> BOOLEAN]
  BY <1>1 DEF LateInv, LateTypes
<1>3. ASSUME NEW l \in Links, ~reader[l]
      PROVE  lock'[l] = lock[l]
  <2>1. failure[l[1]] \/ status[l[1]] = "out"
    BY <1>3 DEF LateInv, ReaderEnded
  <2>2. CASE Refused(RankOf[t])
    BY <2>2 DEF Request
  <2>3. CASE ~Refused(RankOf[t])
    <3>1. RankOf[t] # l[1]
      BY <1>1, <2>1, <2>3 DEF Refused
    <3>2. PICK c : lock' = [lock EXCEPT ![<<RankOf[t], c.rail>>] = t]
      BY <2>3 DEF Request
    <3>3. l # <<RankOf[t], c.rail>>
      BY <3>1
    <3> QED
      BY <3>2, <3>3 DEF LateInv, TypeOK
  <2> QED
    BY <2>2, <2>3
<1> QED
  BY <1>1, <1>2, <1>3, LateKept

(* A call that comes after its reader has ended is alone, and it has the    *)
(* lock.                                                                    *)
LEMMA EnqueueLate ==
  ASSUME LateInv, TypeOK', NEW t \in Threads, Enqueue(t)
  PROVE  LateInv'
<1> DEFINE l == LinkOf(t)
<1>1. pc[t] = "checked" /\ l \in Links /\ lock[l] = t /\ TypeOK
  BY LinkType DEF Enqueue, LateInv, TypeOK, LockHeld
<1>2. /\ lock' = [lock EXCEPT ![l] = Nobody]
      /\ UNCHANGED <<reader, status>>
  BY DEF Enqueue
<1>3. \A m \in Links : lock'[m] = IF m = l THEN Nobody ELSE lock[m]
  BY <1>1, <1>2 DEF TypeOK
<1>4. CASE /\ pending' = [pending EXCEPT ![l] = @ \cup {Key(t)}]
           /\ UNCHANGED <<call, reply, failure>>
  <2> HIDE DEF l
  <2>1. \A m \in Links : pending'[m] = IF m = l THEN pending[m] \cup {Key(t)} ELSE pending[m]
    BY <1>4, <1>1 DEF TypeOK
  <2>2. LateTypes' /\ ReaderEnded'
    BY <1>2, <1>4 DEF LateInv, LateTypes, ReaderEnded
  <2>3. ~reader[l] => pending[l] = {}
    <3>1. t # Nobody
      BY ScriptAssumption
    <3> QED
      BY <1>1, <3>1 DEF LateInv, LateAlone
  <2>4. LateAlone'
    BY <1>2, <1>3, <2>1, <2>3 DEF LateInv, LateAlone
  <2> QED
    BY <2>2, <2>4 DEF LateInv
<1>5. CASE FailPending(l)
  <2> HIDE DEF l
  <2>1. failure' \in [Ranks -> BOOLEAN] /\ \A r \in Ranks : failure[r] => failure'[r]
    BY <1>5 DEF FailPending, LateInv, LateTypes
  <2>2. \A m \in Links : pending'[m] \subseteq pending[m]
    BY <1>1, <1>5, FailPendingTypes
  <2>3. \A m \in Links : ~reader[m] =>
          /\ pending'[m] \subseteq pending[m]
          /\ lock'[m] = lock[m] \/ lock'[m] = Nobody
    BY <2>2, <1>3
  <2> QED
    BY <1>2, <2>1, <2>3, LateKept
<1> QED
  BY <1>4, <1>5 DEF Enqueue

(* A reader that ends takes all pending requests with it.                   *)
LEMMA ReadEndLate ==
  ASSUME LateInv, TypeOK', NEW l \in Links, ReadEnd(l)
  PROVE  LateInv'
<1>1. TypeOK /\ FailPending(l) /\ lock' = lock /\ status' = status
      /\ reader' = [reader EXCEPT ![l] = FALSE]
  BY DEF ReadEnd, LateInv
<1>2. \A m \in Links : pending'[m] = IF m = l THEN {} ELSE pending[m]
  BY <1>1, FailPendingTypes
<1>3. failure' = [failure EXCEPT ![l[1]] = TRUE] /\ l[1] \in Ranks
  BY <1>1 DEF FailPending, Links
<1>4. \A m \in Links : reader'[m] = IF m = l THEN FALSE ELSE reader[m]
  BY <1>1 DEF LateInv, LateTypes
<1>5. \A r \in Ranks : failure'[r] = IF r = l[1] THEN TRUE ELSE failure[r]
  BY <1>3 DEF LateInv, LateTypes
<1>6. LateTypes'
  BY <1>1, <1>3 DEF LateInv, LateTypes
<1>7. ReaderEnded'
  <2> SUFFICES ASSUME NEW m \in Links, ~reader'[m]
               PROVE  failure'[m[1]] \/ status'[m[1]] = "out"
    BY DEF ReaderEnded
  <2>1. m[1] \in Ranks
    BY DEF Links
  <2> QED
    BY <1>1, <1>4, <1>5, <2>1 DEF LateInv, ReaderEnded
<1>8. LateAlone'
  BY <1>1, <1>2, <1>4 DEF LateInv, LateAlone
<1> QED
  BY <1>6, <1>7, <1>8 DEF LateInv

(* A rank that drops its session or dies leaves nothing pending.            *)
LEMMA LeaveLate ==
  ASSUME LateInv, TypeOK', NEW r \in Ranks,
         status' = [status EXCEPT ![r] = "out"], failure' = failure,
         reader' = [l \in Links |-> l[1] # r /\ reader[l]],
         \A l \in Links : IF l[1] = r THEN pending'[l] = {}
                          ELSE pending'[l] = pending[l] /\ lock'[l] = lock[l]
  PROVE  LateInv'
<1>1. LateTypes'
  BY DEF LateInv, LateTypes
<1>2. ReaderEnded'
  <2> SUFFICES ASSUME NEW m \in Links, ~reader'[m]
               PROVE  failure'[m[1]] \/ status'[m[1]] = "out"
    BY DEF ReaderEnded
  <2>1. m[1] \in Ranks
    BY DEF Links
  <2>2. CASE m[1] = r
    BY <2>2 DEF LateInv, LateTypes
  <2>3. CASE m[1] # r
    BY <2>1, <2>3 DEF LateInv, LateTypes, ReaderEnded
  <2> QED
    BY <2>2, <2>3
<1>3. LateAlone'
  BY DEF LateInv, LateAlone
<1> QED
  BY <1>1, <1>2, <1>3 DEF LateInv

(* Every step keeps the invariant.                                          *)
LEMMA NextLate == LateInv /\ [Next]_vars => LateInv'
<1> SUFFICES ASSUME LateInv, [Next]_vars PROVE LateInv'
  OBVIOUS
<1>1. TypeOK /\ TypeOK'
  BY NextTypes DEF LateInv
<1>2. failure \in [Ranks -> BOOLEAN]
  BY DEF LateInv, LateTypes
<1>3. ASSUME UNCHANGED <<reader, status, failure, pending, lock>> PROVE LateInv'
  BY <1>1, <1>2, <1>3, LateKept
<1>4. ASSUME NEW t \in Threads, ThreadStep(t) PROVE LateInv'
  <2>1. CASE Expire(t)
    <3>1. LinkOf(t) \in Links
      BY <1>1, <2>1, LinkType DEF Expire
    <3>2. \A m \in Links : pending'[m] \subseteq pending[m]
      BY <1>1, <2>1, <3>1 DEF Expire, Forget, TypeOK
    <3>3. UNCHANGED <<reader, status, failure, lock>>
      BY <2>1 DEF Expire
    <3> QED
      BY <1>1, <1>2, <3>2, <3>3, LateKept
  <2>2. CASE Return(t) \/ ShutExpired(t)
    BY <2>2, <1>3 DEF Return, ShutExpired, ShutDown, clients
  <2> QED
    BY <1>1, <1>4, <2>1, <2>2, RequestLate, EnqueueLate DEF ThreadStep
<1>5. ASSUME NEW r \in Ranks, RankStep(r) PROVE LateInv'
  <2>1. CASE DropSession(r)
    <3>1. ASSUME NEW l \in Links, l[1] = r PROVE pending[l] = {}
      <4>1. \A key \in pending[l] : /\ key.thread \in Threads /\ pc[key.thread] = "waiting"
                                    /\ LinkOf(key.thread) = l
        BY <1>1, PendingUnanswered
      <4>2. \A t \in Threads : LinkOf(t)[1] = RankOf[t]
        BY DEF LinkOf
      <4> QED
        BY <3>1, <4>1, <4>2, <2>1 DEF DropSession
    <3>2. UNCHANGED <<failure, pending, lock>>
      BY <2>1 DEF DropSession
    <3> QED
      BY <1>1, <2>1, <3>1, <3>2, LeaveLate DEF DropSession
  <2>2. CASE Crash(r)
    BY <1>1, <2>2, LeaveLate DEF Crash
  <2>3. CASE \E k \in Rails : AbortRail(r, k)
    BY <2>3, <1>3 DEF AbortRail
  <2> QED
    BY <1>5, <2>1, <2>2, <2>3 DEF RankStep
<1>6. ASSUME NEW l \in Links, ReaderStep(l) PROVE LateInv'
  <2>1. CASE ReadReply(l)
    <3>1. UNCHANGED <<reader, status, failure, lock>>
      BY <2>1 DEF ReadReply
    <3>2. \A m \in Links : pending'[m] \subseteq pending[m]
      BY <1>1, <2>1 DEF ReadReply, TypeOK
    <3> QED
      BY <1>1, <1>2, <3>1, <3>2, LateKept
  <2> QED
    BY <1>1, <1>6, <2>1, ReadEndLate DEF ReaderStep
<1>7. ASSUME NEW l \in Links, RouterStep(l) PROVE LateInv'
  BY <1>7, <1>3 DEF RouterStep, RouteSend, RouteReceive, RouteHeartbeat, RouteLeave,
                    RouteAbort, WriteFails, DeliveryFails, LinkClosed, Incoming, clients
<1>8. ASSUME NEW l \in Links, LeaseExpires(l) PROVE LateInv'
  BY <1>8, <1>3 DEF LeaseExpires, clients
<1>9. CASE UNCHANGED vars
  BY <1>9, <1>3 DEF vars, clients
<1> QED
  BY <1>4, <1>5, <1>6, <1>7, <1>8, <1>9 DEF Next

(* Pending requests that are all equal are at most one.                     *)
LEMMA LateImplies == LateInv => AtMostOneStranded
<1> SUFFICES ASSUME LateInv, NEW l \in Links, ~reader[l]
             PROVE  Cardinality(pending[l]) <= 1
  BY DEF AtMostOneStranded
<1>1. CASE pending[l] = {}
  BY <1>1, FS_EmptySet
<1>2. CASE pending[l] # {}
  <2>1. PICK key : pending[l] = {key}
    BY <1>2 DEF LateInv, LateAlone
  <2>2. Cardinality({key}) = 1
    BY FS_Singleton
  <2> QED
    BY <2>1, <2>2
<1> QED
  BY <1>1, <1>2

(* However many threads submit and however the session fails, a link never  *)
(* has more than one request that nobody will complete.                     *)
THEOREM StrandedBound == Spec => []AtMostOneStranded
<1>1. Init => LateInv
  BY InitLate
<1>2. LateInv /\ [Next]_vars => LateInv'
  BY NextLate
<1>3. LateInv => AtMostOneStranded
  BY LateImplies
<1> QED
  BY <1>1, <1>2, <1>3, PTL DEF Spec

-----------------------------------------------------------------------------
(* What can be matched is matched.                                          *)

(* A send that reaches the router takes the first receive it matches, or    *)
(* matches none.                                                            *)
LEMMA SendMatched ==
  ASSUME TypeOK, NothingLeftToMatch, NEW l \in Links,
         RouteSend(l) \/ (DeliveryFails(l) /\ Head(up[l]).op = "Send")
  PROVE  NothingLeftToMatch'
<1> DEFINE k == RailOf(l)
           f == Head(up[l])
           i == QueuedReceive(k, f)
<1>1. k \in Rails
  BY DEF RailOf, Links
<1>2. sends[k] \in Seq(Frames) /\ receives[k] \in Seq(Frames)
  BY <1>1 DEF TypeOK
<1>3. f \in Frames
  BY HeadTail DEF RouteSend, DeliveryFails, Incoming, Ops
<1>4. CASE i = 0 /\ sends' = [sends EXCEPT ![k] = Append(@, f)] /\ receives' = receives
  <2>1. \A j \in DOMAIN receives[k] : ~Matches(f, receives[k][j])
    BY <1>1, <1>2, <1>4, QueuedReceiveFinds
  <2> HIDE DEF k, f, i
  <2>2. \A m \in Rails : sends'[m] = IF m = k THEN Append(sends[k], f) ELSE sends[m]
    BY <1>1, <1>4 DEF TypeOK
  <2>3. /\ DOMAIN Append(sends[k], f) = 1 .. Len(sends[k]) + 1
        /\ \A j \in 1 .. Len(sends[k]) : Append(sends[k], f)[j] = sends[k][j]
        /\ Append(sends[k], f)[Len(sends[k]) + 1] = f
        /\ DOMAIN sends[k] = 1 .. Len(sends[k]) /\ Len(sends[k]) \in Nat
    BY <1>2, <1>3
  <2> SUFFICES ASSUME NEW m \in Rails, NEW a \in DOMAIN sends'[m], NEW b \in DOMAIN receives[m]
               PROVE  ~Matches(sends'[m][a], receives[m][b])
    BY <1>4 DEF NothingLeftToMatch, Matches
  <2>4. CASE m = k /\ a = Len(sends[k]) + 1
    BY <2>1, <2>2, <2>3, <2>4
  <2>5. CASE m = k /\ a # Len(sends[k]) + 1
    <3> DEFINE longer == Append(sends[k], f)
    <3>1. sends'[m] = longer
      BY <2>2, <2>5
    <3> HIDE DEF longer
    <3>2. a \in 1 .. Len(sends[k]) + 1
      BY <3>1, <2>3 DEF longer
    <3>3. a \in 1 .. Len(sends[k])
      BY <3>2, <2>3, <2>5
    <3>4. a \in DOMAIN sends[k] /\ sends'[m][a] = sends[k][a]
      BY <3>1, <3>3, <2>3 DEF longer
    <3> QED
      BY <2>5, <3>4 DEF NothingLeftToMatch
  <2>6. CASE m # k
    BY <2>2, <2>6 DEF NothingLeftToMatch
  <2> QED
    BY <2>4, <2>5, <2>6
<1>5. CASE i # 0 /\ receives' = [receives EXCEPT ![k] = RemoveAt(@, i)] /\ sends' = sends
  <2>1. i \in 1 .. Len(receives[k])
    BY <1>1, <1>2, <1>5, QueuedReceiveFinds
  <2> HIDE DEF k, f, i
  <2>2. \A j \in DOMAIN RemoveAt(receives[k], i) :
          \E n \in DOMAIN receives[k] : RemoveAt(receives[k], i)[j] = receives[k][n]
    BY <1>2, <2>1, RemoveAtElements
  <2>3. \A m \in Rails : receives'[m] = IF m = k THEN RemoveAt(receives[k], i) ELSE receives[m]
    BY <1>1, <1>5 DEF TypeOK
  <2> SUFFICES ASSUME NEW m \in Rails, NEW a \in DOMAIN sends[m], NEW b \in DOMAIN receives'[m]
               PROVE  ~Matches(sends[m][a], receives'[m][b])
    BY <1>5 DEF NothingLeftToMatch, Matches
  <2>4. PICK n \in DOMAIN receives[m] : receives'[m][b] = receives[m][n]
    BY <2>2, <2>3
  <2> QED
    BY <2>4 DEF NothingLeftToMatch
<1> QED
  BY <1>4, <1>5 DEF RouteSend, DeliveryFails

(* A receive takes the first send it matches, or matches none.              *)
LEMMA ReceiveMatched ==
  ASSUME TypeOK, NothingLeftToMatch, NEW l \in Links,
         RouteReceive(l) \/ (DeliveryFails(l) /\ Head(up[l]).op = "Receive")
  PROVE  NothingLeftToMatch'
<1> DEFINE k == RailOf(l)
           v == Head(up[l])
           i == QueuedSend(k, v)
<1>1. k \in Rails
  BY DEF RailOf, Links
<1>2. sends[k] \in Seq(Frames) /\ receives[k] \in Seq(Frames)
  BY <1>1 DEF TypeOK
<1>3. v \in Frames
  BY HeadTail DEF RouteReceive, DeliveryFails, Incoming, Ops
<1>4. CASE i = 0 /\ receives' = [receives EXCEPT ![k] = Append(@, v)] /\ sends' = sends
  <2>1. \A j \in DOMAIN sends[k] : ~Matches(sends[k][j], v)
    BY <1>1, <1>2, <1>4, QueuedSendFinds
  <2> HIDE DEF k, v, i
  <2>2. \A m \in Rails : receives'[m] = IF m = k THEN Append(receives[k], v) ELSE receives[m]
    BY <1>1, <1>4 DEF TypeOK
  <2>3. /\ DOMAIN Append(receives[k], v) = 1 .. Len(receives[k]) + 1
        /\ \A j \in 1 .. Len(receives[k]) : Append(receives[k], v)[j] = receives[k][j]
        /\ Append(receives[k], v)[Len(receives[k]) + 1] = v
        /\ DOMAIN receives[k] = 1 .. Len(receives[k]) /\ Len(receives[k]) \in Nat
    BY <1>2, <1>3
  <2> SUFFICES ASSUME NEW m \in Rails, NEW a \in DOMAIN sends[m], NEW b \in DOMAIN receives'[m]
               PROVE  ~Matches(sends[m][a], receives'[m][b])
    BY <1>4 DEF NothingLeftToMatch, Matches
  <2>4. CASE m = k /\ b = Len(receives[k]) + 1
    BY <2>1, <2>2, <2>3, <2>4
  <2>5. CASE m = k /\ b # Len(receives[k]) + 1
    <3> DEFINE longer == Append(receives[k], v)
    <3>1. receives'[m] = longer
      BY <2>2, <2>5
    <3> HIDE DEF longer
    <3>2. b \in 1 .. Len(receives[k]) + 1
      BY <3>1, <2>3 DEF longer
    <3>3. b \in 1 .. Len(receives[k])
      BY <3>2, <2>3, <2>5
    <3>4. b \in DOMAIN receives[k] /\ receives'[m][b] = receives[k][b]
      BY <3>1, <3>3, <2>3 DEF longer
    <3> QED
      BY <2>5, <3>4 DEF NothingLeftToMatch
  <2>6. CASE m # k
    BY <2>2, <2>6 DEF NothingLeftToMatch
  <2> QED
    BY <2>4, <2>5, <2>6
<1>5. CASE i # 0 /\ sends' = [sends EXCEPT ![k] = RemoveAt(@, i)] /\ receives' = receives
  <2>1. i \in 1 .. Len(sends[k])
    BY <1>1, <1>2, <1>5, QueuedSendFinds
  <2> HIDE DEF k, v, i
  <2>2. \A j \in DOMAIN RemoveAt(sends[k], i) :
          \E n \in DOMAIN sends[k] : RemoveAt(sends[k], i)[j] = sends[k][n]
    BY <1>2, <2>1, RemoveAtElements
  <2>3. \A m \in Rails : sends'[m] = IF m = k THEN RemoveAt(sends[k], i) ELSE sends[m]
    BY <1>1, <1>5 DEF TypeOK
  <2> SUFFICES ASSUME NEW m \in Rails, NEW a \in DOMAIN sends'[m], NEW b \in DOMAIN receives[m]
               PROVE  ~Matches(sends'[m][a], receives[m][b])
    BY <1>5 DEF NothingLeftToMatch, Matches
  <2>4. PICK n \in DOMAIN sends[m] : sends'[m][a] = sends[m][n]
    BY <2>2, <2>3
  <2> QED
    BY <2>4 DEF NothingLeftToMatch
<1> QED
  BY <1>4, <1>5 DEF RouteReceive, DeliveryFails

(* Every step leaves nothing to match.                                      *)
LEMMA NextMatched ==
  TypeOK /\ NothingLeftToMatch /\ [Next]_vars => NothingLeftToMatch'
<1> SUFFICES ASSUME TypeOK, NothingLeftToMatch, [Next]_vars PROVE NothingLeftToMatch'
  OBVIOUS
<1>1. ASSUME UNCHANGED <<sends, receives>> PROVE NothingLeftToMatch'
  BY <1>1 DEF NothingLeftToMatch, Matches
<1>2. ASSUME NEW t \in Threads, ThreadStep(t) PROVE NothingLeftToMatch'
  BY <1>1, <1>2 DEF ThreadStep, Request, Enqueue, Return, Expire, ShutExpired, routers
<1>3. ASSUME NEW r \in Ranks, RankStep(r) PROVE NothingLeftToMatch'
  BY <1>1, <1>3 DEF RankStep, DropSession, Crash, AbortRail, routers
<1>4. ASSUME NEW l \in Links, ReaderStep(l) \/ LeaseExpires(l) PROVE NothingLeftToMatch'
  BY <1>1, <1>4 DEF ReaderStep, ReadReply, ReadEnd, LeaseExpires, routers
<1>5. ASSUME NEW l \in Links, RouterStep(l) PROVE NothingLeftToMatch'
  <2>1. CASE \/ RouteHeartbeat(l) \/ RouteLeave(l) \/ RouteAbort(l)
             \/ WriteFails(l) \/ LinkClosed(l)
    BY <1>1, <2>1 DEF RouteHeartbeat, RouteLeave, RouteAbort, WriteFails, LinkClosed, routers
  <2>2. DeliveryFails(l) => Head(up[l]).op \in {"Send", "Receive"}
    BY DEF DeliveryFails, Incoming
  <2> QED
    BY <1>5, <2>1, <2>2, SendMatched, ReceiveMatched DEF RouterStep
<1>6. CASE UNCHANGED vars
  BY <1>1, <1>6 DEF vars, routers
<1> QED
  BY <1>2, <1>3, <1>4, <1>5, <1>6 DEF Next

(* A router never keeps a send and a receive that fit each other: no thread *)
(* waits for a message that has already arrived.                            *)
THEOREM MatchedAtOnce == Spec => []NothingLeftToMatch
<1>1. Init => NothingLeftToMatch
  BY DEF Init, NothingLeftToMatch
<1>2. TypeOK /\ NothingLeftToMatch /\ [Next]_vars => NothingLeftToMatch'
  BY NextMatched
<1> QED
  BY <1>1, <1>2, TypeCorrect, PTL DEF Spec
-----------------------------------------------------------------------------
(* Sequences that grow at their end, shrink by one element or lose their    *)
(* head.                                                                    *)

(* e is d with f at its end.                                                *)
Grown(d, e, f) ==
  \E n \in Nat :
    /\ DOMAIN d = 1 .. n /\ DOMAIN e = 1 .. n + 1
    /\ e[n + 1] = f /\ \A i \in 1 .. n : e[i] = d[i]

(* p is q without its i-th element.                                         *)
Shrunk(q, p, i) ==
  \E n \in Nat :
    /\ DOMAIN q = 1 .. n /\ i \in 1 .. n /\ DOMAIN p = 1 .. n - 1
    /\ \A j \in 1 .. n - 1 : p[j] = IF j < i THEN q[j] ELSE q[j + 1]

(* Appending to a sequence makes it grow.                                   *)
LEMMA AppendGrows ==
  ASSUME NEW S, NEW s \in Seq(S), NEW f \in S
  PROVE  Grown(s, Append(s, f), f)
<1>1. /\ Len(s) \in Nat /\ DOMAIN s = 1 .. Len(s)
      /\ DOMAIN Append(s, f) = 1 .. Len(s) + 1
      /\ Append(s, f)[Len(s) + 1] = f
      /\ \A i \in 1 .. Len(s) : Append(s, f)[i] = s[i]
  OBVIOUS
<1> QED
  BY <1>1, Zenon DEF Grown

(* Removing an element makes a sequence shrink.                             *)
LEMMA RemovalShrinks ==
  ASSUME NEW S, NEW s \in Seq(S), NEW i \in 1 .. Len(s)
  PROVE  Shrunk(s, RemoveAt(s, i), i)
<1>1. /\ DOMAIN RemoveAt(s, i) = 1 .. Len(s) - 1
      /\ \A j \in 1 .. Len(s) - 1 : RemoveAt(s, i)[j] = IF j < i THEN s[j] ELSE s[j + 1]
  BY RemoveAtElements
<1>2. Len(s) \in Nat /\ DOMAIN s = 1 .. Len(s)
  OBVIOUS
<1> QED
  BY <1>1, <1>2, Zenon DEF Shrunk

(* The elements of a sequence that grows are the old ones and the new one.  *)
LEMMA GrownRange ==
  ASSUME NEW d, NEW e, NEW f, Grown(d, e, f)
  PROVE  Range(e) = Range(d) \cup {f}
<1>1. PICK n \in Nat : /\ DOMAIN d = 1 .. n /\ DOMAIN e = 1 .. n + 1
                       /\ e[n + 1] = f /\ \A i \in 1 .. n : e[i] = d[i]
  BY DEF Grown
<1>2. \A i \in 1 .. n + 1 : i \in 1 .. n \/ i = n + 1
  OBVIOUS
<1>3. n + 1 \in 1 .. n + 1 /\ \A i \in 1 .. n : i \in 1 .. n + 1
  OBVIOUS
<1>4. ASSUME NEW x \in Range(e) PROVE x \in Range(d) \cup {f}
  <2>1. PICK i \in 1 .. n + 1 : x = e[i]
    BY <1>1 DEF Range
  <2> QED
    BY <1>1, <1>2, <2>1, Zenon DEF Range
<1>5. ASSUME NEW x \in Range(d) \cup {f} PROVE x \in Range(e)
  <2>1. CASE x = f
    BY <1>1, <1>3, <2>1, Zenon DEF Range
  <2>2. CASE x \in Range(d)
    <3>1. PICK i \in 1 .. n : x = d[i]
      BY <1>1, <2>2 DEF Range
    <3> QED
      BY <1>1, <1>3, <3>1, Zenon DEF Range
  <2> QED
    BY <2>1, <2>2
<1> QED
  BY <1>4, <1>5, Zenon

(* The elements of a sequence that shrinks are old ones, in their order.    *)
LEMMA ShrunkPlaces ==
  ASSUME NEW q, NEW p, NEW i, Shrunk(q, p, i)
  PROVE  /\ i \in DOMAIN q
         /\ \A j \in DOMAIN p : \E a \in DOMAIN q : a # i /\ p[j] = q[a]
         /\ \A j, k \in DOMAIN p : j < k =>
              \E a, b \in DOMAIN q : a < b /\ p[j] = q[a] /\ p[k] = q[b]
<1>1. PICK n \in Nat :
        /\ DOMAIN q = 1 .. n /\ i \in 1 .. n /\ DOMAIN p = 1 .. n - 1
        /\ \A j \in 1 .. n - 1 : p[j] = IF j < i THEN q[j] ELSE q[j + 1]
  BY DEF Shrunk
<1> DEFINE at(j) == IF j < i THEN j ELSE j + 1
<1>2. \A j \in 1 .. n - 1 : at(j) \in 1 .. n /\ at(j) # i
  BY <1>1
<1>3. \A j, k \in 1 .. n - 1 : j < k => at(j) < at(k)
  BY <1>1
<1>4. \A j \in 1 .. n - 1 : p[j] = q[at(j)]
  BY <1>1
<1> HIDE DEF at
<1> QED
  BY <1>1, <1>2, <1>3, <1>4, Zenon

(* Nothing new comes with a sequence that shrinks.                          *)
LEMMA ShrunkRange ==
  ASSUME NEW q, NEW p, NEW i, Shrunk(q, p, i)
  PROVE  Range(p) \subseteq Range(q) /\ q[i] \in Range(q)
BY ShrunkPlaces DEF Range

(* A request that is newer than its kin may be added at the end.            *)
LEMMA GrownOrder ==
  ASSUME NEW d, NEW e, NEW f, Grown(d, e, f), InOrder(d),
         \A i \in DOMAIN d : Kin(d[i], f) => d[i].seq < f.seq
  PROVE  InOrder(e)
<1>1. PICK n \in Nat : /\ DOMAIN d = 1 .. n /\ DOMAIN e = 1 .. n + 1
                       /\ e[n + 1] = f /\ \A i \in 1 .. n : e[i] = d[i]
  BY DEF Grown
<1>2. \A i, j \in 1 .. n + 1 : i < j => i \in 1 .. n /\ (j = n + 1 \/ j \in 1 .. n)
  OBVIOUS
<1> SUFFICES ASSUME NEW i \in 1 .. n + 1, NEW j \in 1 .. n + 1, i < j, Kin(e[i], e[j])
             PROVE  e[i].seq < e[j].seq
  BY <1>1 DEF InOrder
<1>3. i \in 1 .. n /\ (j = n + 1 \/ j \in 1 .. n)
  BY <1>2, Zenon
<1>4. CASE j = n + 1
  BY <1>1, <1>3, <1>4, Zenon
<1>5. CASE j \in 1 .. n
  BY <1>1, <1>3, <1>5, Zenon DEF InOrder
<1> QED
  BY <1>3, <1>4, <1>5

(* An element more than before.                                             *)
LEMMA GrownPlaces ==
  ASSUME NEW d, NEW e, NEW f, Grown(d, e, f), NEW i \in DOMAIN e
  PROVE  e[i] = f \/ \E j \in DOMAIN d : e[i] = d[j]
<1>1. PICK n \in Nat : /\ DOMAIN d = 1 .. n /\ DOMAIN e = 1 .. n + 1
                       /\ e[n + 1] = f /\ \A j \in 1 .. n : e[j] = d[j]
  BY DEF Grown
<1>2. \A j \in 1 .. n + 1 : j \in 1 .. n \/ j = n + 1
  OBVIOUS
<1> QED
  BY <1>1, <1>2, Zenon

(* Removing an element keeps the order.                                     *)
LEMMA ShrunkOrder ==
  ASSUME NEW q, NEW p, NEW i, Shrunk(q, p, i), InOrder(q)
  PROVE  InOrder(p)
<1> SUFFICES ASSUME NEW j \in DOMAIN p, NEW k \in DOMAIN p, j < k, Kin(p[j], p[k])
             PROVE  p[j].seq < p[k].seq
  BY DEF InOrder
<1>1. PICK a \in DOMAIN q, b \in DOMAIN q : a < b /\ p[j] = q[a] /\ p[k] = q[b]
  BY ShrunkPlaces
<1> QED
  BY <1>1, Zenon DEF InOrder

-----------------------------------------------------------------------------
(* The four things a router does with a request of one kind, d being what   *)
(* was matched and q what is queued.                                        *)

(* A request joins the queue.                                               *)
LEMMA TurnJoins ==
  ASSUME NEW d, NEW q, NEW p, NEW f, Turn(d, q), Grown(q, p, f),
         \A i \in DOMAIN d : Kin(d[i], f) => d[i].seq < f.seq,
         \A i \in DOMAIN q : Kin(q[i], f) => q[i].seq < f.seq
  PROVE  Turn(d, p)
<1>1. InOrder(p)
  BY GrownOrder DEF Turn
<1>2. ASSUME NEW i \in DOMAIN d, NEW j \in DOMAIN p, Kin(d[i], p[j])
      PROVE  d[i].seq < p[j].seq
  <2>1. p[j] = f \/ \E m \in DOMAIN q : p[j] = q[m]
    BY GrownPlaces
  <2> QED
    BY <1>2, <2>1, Zenon DEF Turn, Before
<1> QED
  BY <1>1, <1>2 DEF Turn, Before

(* A request is matched without having been queued: none of its kin is.     *)
LEMMA TurnPasses ==
  ASSUME NEW d, NEW q, NEW e, NEW f, Turn(d, q), Grown(d, e, f),
         \A i \in DOMAIN d : Kin(d[i], f) => d[i].seq < f.seq,
         \A i \in DOMAIN q : ~Kin(f, q[i])
  PROVE  Turn(e, q)
<1>1. InOrder(e)
  BY GrownOrder DEF Turn
<1>2. ASSUME NEW i \in DOMAIN e, NEW j \in DOMAIN q, Kin(e[i], q[j])
      PROVE  e[i].seq < q[j].seq
  <2>1. e[i] = f \/ \E m \in DOMAIN d : e[i] = d[m]
    BY GrownPlaces
  <2> QED
    BY <1>2, <2>1, Zenon DEF Turn, Before
<1> QED
  BY <1>1, <1>2 DEF Turn, Before

(* The first of its kin leaves the queue and is matched.                    *)
LEMMA TurnTakes ==
  ASSUME NEW d, NEW q, NEW e, NEW p, NEW i, Turn(d, q),
         Shrunk(q, p, i), Grown(d, e, q[i]),
         \A j \in DOMAIN q : j < i => ~Kin(q[i], q[j])
  PROVE  Turn(e, p)
<1>1. InOrder(p) /\ i \in DOMAIN q
  BY ShrunkOrder, ShrunkPlaces DEF Turn
<1>2. InOrder(e)
  BY <1>1, GrownOrder DEF Turn, Before
<1>3. PICK n \in Nat : DOMAIN q = 1 .. n
  BY DEF Shrunk
<1>4. ASSUME NEW a \in DOMAIN e, NEW b \in DOMAIN p, Kin(e[a], p[b])
      PROVE  e[a].seq < p[b].seq
  <2>1. PICK m \in DOMAIN q : m # i /\ p[b] = q[m]
    BY ShrunkPlaces
  <2>2. CASE e[a] = q[i]
    <3>1. i < m
      <4>1. ~(m < i)
        BY <1>4, <2>1, <2>2, Zenon
      <4> QED
        BY <1>1, <1>3, <2>1, <4>1
    <3> QED
      BY <1>1, <1>4, <2>1, <2>2, <3>1, Zenon DEF Turn, InOrder
  <2>3. CASE \E j \in DOMAIN d : e[a] = d[j]
    BY <1>4, <2>1, <2>3, Zenon DEF Turn, Before
  <2> QED
    BY <2>2, <2>3, GrownPlaces
<1> QED
  BY <1>1, <1>2, <1>4 DEF Turn, Before

(* A request leaves the queue without being matched.                        *)
LEMMA TurnDrops ==
  ASSUME NEW d, NEW q, NEW p, NEW i, Turn(d, q), Shrunk(q, p, i)
  PROVE  Turn(d, p)
<1>1. InOrder(p)
  BY ShrunkOrder DEF Turn
<1>2. \A j \in DOMAIN p : \E a \in DOMAIN q : p[j] = q[a]
  BY ShrunkPlaces
<1> QED
  BY <1>1, <1>2, Zenon DEF Turn, Before

-----------------------------------------------------------------------------
(* The requests of a stream.                                                *)

(* A stream goes on flowing when what is added to it is no request or is    *)
(* newer than the requests on it.                                           *)
LEMMA FlowGrows ==
  ASSUME NEW s, NEW e, NEW x, Grown(s, e, x), Flows(s),
         x.op \in Ops => \A f \in Messages(s) : f.op = x.op => f.seq < x.seq
  PROVE  /\ Flows(e)
         /\ Messages(e) = IF x.op \in Ops THEN Messages(s) \cup {x} ELSE Messages(s)
<1>1. PICK n \in Nat : /\ DOMAIN s = 1 .. n /\ DOMAIN e = 1 .. n + 1
                       /\ e[n + 1] = x /\ \A i \in 1 .. n : e[i] = s[i]
  BY DEF Grown
<1>2. \A i, j \in 1 .. n + 1 : i < j => i \in 1 .. n /\ (j = n + 1 \/ j \in 1 .. n)
  OBVIOUS
<1>3. ASSUME NEW i \in 1 .. n + 1, NEW j \in 1 .. n + 1, i < j,
             e[i].op = e[j].op, e[i].op \in Ops
      PROVE  e[i].seq < e[j].seq
  <2>1. i \in 1 .. n /\ (j = n + 1 \/ j \in 1 .. n)
    BY <1>2, <1>3, Zenon
  <2>2. CASE j = n + 1
    <3>1. e[i] \in Messages(s) /\ e[j] = x
      BY <1>1, <1>3, <2>1, <2>2, Zenon DEF Messages, Range
    <3> QED
      BY <1>3, <3>1, Zenon
  <2>3. CASE j \in 1 .. n
    BY <1>1, <1>3, <2>1, <2>3, Zenon DEF Flows
  <2> QED
    BY <2>1, <2>2, <2>3
<1>4. Flows(e)
  BY <1>1, <1>3, Zenon DEF Flows
<1>5. Range(e) = Range(s) \cup {x}
  BY GrownRange
<1> QED
  BY <1>4, <1>5 DEF Messages

(* What is no request may be added to a stream.                             *)
LEMMA FlowSignals ==
  ASSUME NEW s \in Streams, NEW x \in {Eof, Leave, Abort}, Flows(s)
  PROVE  /\ Append(s, x) \in Streams /\ Flows(Append(s, x))
         /\ Messages(Append(s, x)) = Messages(s)
<1>1. x \in Frames \cup {Eof, Leave, Abort}
  OBVIOUS
<1>2. Grown(s, Append(s, x), x) /\ Append(s, x) \in Streams
  BY <1>1, AppendGrows DEF Streams
<1>3. x.op \notin Ops
  BY DEF Eof, Leave, Abort, Ops
<1> QED
  BY <1>2, <1>3, FlowGrows

(* LEAVE and the end of the stream are added together.                      *)
LEMMA FlowLeaves ==
  ASSUME NEW s \in Streams, Flows(s)
  PROVE  Flows(s \o <<Leave, Eof>>) /\ Messages(s \o <<Leave, Eof>>) = Messages(s)
<1>1. s \o <<Leave, Eof>> = Append(Append(s, Leave), Eof)
  BY DEF Streams
<1>2. /\ Append(s, Leave) \in Streams /\ Flows(Append(s, Leave))
      /\ Messages(Append(s, Leave)) = Messages(s)
  BY FlowSignals
<1>3. /\ Flows(Append(Append(s, Leave), Eof))
      /\ Messages(Append(Append(s, Leave), Eof)) = Messages(Append(s, Leave))
  BY <1>2, FlowSignals
<1> QED
  BY <1>1, <1>2, <1>3

(* The head of a stream is older than the requests of its opcode behind it. *)
LEMMA FlowTail ==
  ASSUME NEW s \in Streams, s # <<>>, Flows(s)
  PROVE  /\ Tail(s) \in Streams /\ Flows(Tail(s)) /\ Messages(Tail(s)) \subseteq Messages(s)
         /\ Head(s) \in Range(s)
         /\ Head(s).op \in Ops => \A f \in Messages(Tail(s)) : f.op = Head(s).op => Head(s).seq < f.seq
<1> DEFINE n == Len(s)
<1>1. /\ n \in Nat /\ n >= 1 /\ DOMAIN s = 1 .. n /\ DOMAIN Tail(s) = 1 .. n - 1
      /\ Head(s) = s[1] /\ \A i \in 1 .. n - 1 : Tail(s)[i] = s[i + 1]
      /\ Tail(s) \in Streams
  BY DEF Streams
<1> HIDE DEF n
<1>2. 1 \in 1 .. n /\ \A i \in 1 .. n - 1 : i + 1 \in 1 .. n /\ 1 < i + 1
  BY <1>1
<1>3. \A i, j \in 1 .. n - 1 : i < j => i + 1 < j + 1
  BY <1>1
<1>4. Flows(Tail(s))
  BY <1>1, <1>2, <1>3, Zenon DEF Flows
<1>5. ASSUME NEW f \in Messages(Tail(s))
      PROVE  /\ f \in Messages(s)
             /\ Head(s).op \in Ops /\ f.op = Head(s).op => Head(s).seq < f.seq
  <2>1. PICK i \in 1 .. n - 1 : f = s[i + 1]
    BY <1>1 DEF Messages, Range
  <2>2. f \in Messages(s)
    BY <1>1, <1>2, <2>1, Zenon DEF Messages, Range
  <2> QED
    BY <1>1, <1>2, <2>1, <2>2, Zenon DEF Flows
<1>6. Head(s) \in Range(s)
  BY <1>1, <1>2, Zenon DEF Range
<1> QED
  BY <1>1, <1>4, <1>5, <1>6

-----------------------------------------------------------------------------
(* The requests reach the router in the order of their numbers.             *)

(* Whatever is on its way, queued, matched or called is a request.          *)
LEMMA OrderTypes ==
  ASSUME TypeOK, Numbered
  PROVE  /\ \A l \in Links : up[l] \in Streams /\ RequestsOn(l) \subseteq Frames
         /\ \A op \in Ops : \A k \in Rails : Routed(op, k) \subseteq Frames
         /\ \A t \in Threads : pc[t] # "idle" => call[t] \in Frames /\ LinkOf(t) \in Links
<1>1. ASSUME NEW l \in Links, NEW f \in RequestsOn(l) PROVE f \in Frames
  <2>1. PICK i \in DOMAIN up[l] : f = up[l][i]
    BY DEF RequestsOn, Messages, Range
  <2>2. up[l] \in Seq(Frames \cup {Eof, Leave, Abort})
    BY DEF TypeOK
  <2>3. f \in Frames \cup {Eof, Leave, Abort} /\ f.op \in Ops
    BY <2>1, <2>2 DEF RequestsOn, Messages
  <2> QED
    BY <2>3 DEF Eof, Leave, Abort, Ops
<1>2. ASSUME NEW op \in Ops, NEW k \in Rails, NEW f \in Routed(op, k) PROVE f \in Frames
  <2>1. sends[k] \in Seq(Frames) /\ receives[k] \in Seq(Frames)
    BY DEF TypeOK
  <2>2. matched[k] \in Seq(Frames \X Frames)
    BY DEF Numbered
  <2>3. CASE f \in Range(Queue(op, k))
    <3>1. Queue(op, k) \in Seq(Frames)
      BY <2>1 DEF Queue
    <3> QED
      BY <2>3, <3>1 DEF Range
  <2>4. CASE f \in Range(Done(op, k))
    <3>1. \A i \in DOMAIN matched[k] : matched[k][i][1] \in Frames /\ matched[k][i][2] \in Frames
      BY <2>2
    <3>2. DOMAIN <<>> = {}
      OBVIOUS
    <3>3. op \in {"Send", "Receive"}
      BY <2>4, <3>2, Zenon DEF Done, Range
    <3>4. Done(op, k) = [i \in DOMAIN matched[k] |-> matched[k][i][IF op = "Send" THEN 1 ELSE 2]]
      BY <3>3 DEF Done
    <3>5. PICK i \in DOMAIN matched[k] : f = matched[k][i][IF op = "Send" THEN 1 ELSE 2]
      BY <2>4, <3>4 DEF Range
    <3> QED
      BY <3>1, <3>5
  <2> QED
    BY <2>3, <2>4 DEF Routed
<1>3. \A l \in Links : up[l] \in Streams
  BY DEF TypeOK, Streams
<1> QED
  BY <1>1, <1>2, <1>3, LinkType

(* Steps that bring no request to the streams or to the router, and give no *)
(* number back.                                                             *)
LEMMA QuietOrder ==
  ASSUME TypeOK, TypeOK', Numbered, Pipelined,
         UNCHANGED <<sends, receives, matched>>,
         \A l \in Links : Flows(up'[l]) /\ Messages(up'[l]) \subseteq Messages(up[l]),
         \A l \in Links : \A op \in Ops : next[l][op] <= next'[l][op],
         \A t \in Threads :
           /\ pc'[t] # "idle" => pc[t] # "idle" /\ call'[t] = call[t]
           /\ pc'[t] = "checked" => pc[t] = "checked"
  PROVE  Numbered' /\ Pipelined'
<1>1. /\ \A l \in Links : up[l] \in Streams /\ RequestsOn(l) \subseteq Frames
      /\ \A op \in Ops : \A k \in Rails : Routed(op, k) \subseteq Frames
      /\ \A t \in Threads : pc[t] # "idle" => call[t] \in Frames /\ LinkOf(t) \in Links
  BY OrderTypes
<1>2. ASSUME NEW l \in Links, NEW op \in Ops, NEW n \in Nat, n < next[l][op]
      PROVE  n < next'[l][op]
  <2>1. next[l][op] \in Nat /\ next'[l][op] \in Nat
    BY DEF TypeOK
  <2> QED
    BY <1>2, <2>1
<1>3. \A f \in Frames : f.op \in Ops /\ f.seq \in Nat /\ f.source \in Ranks
  BY DEF Frames
<1>4. \A r \in Ranks, k \in Rails : <<r, k>> \in Links
  BY DEF Links
<1>5. \A op \in Ops : \A k \in Rails : Routed(op, k)' = Routed(op, k)
  BY DEF Routed, Queue, Done
<1>6. \A t \in Threads : pc'[t] # "idle" => LinkOf(t)' = LinkOf(t) /\ call'[t] = call[t] /\ pc[t] # "idle"
  BY DEF LinkOf
<1>7. Numbered'
  <2>1. matched' \in [Rails -> Seq(Frames \X Frames)]
    BY DEF Numbered
  <2>2. ASSUME NEW l \in Links, NEW f \in RequestsOn(l)'
        PROVE  f.source = l[1] /\ f.rail = l[2] /\ f.seq < next'[l][f.op]
    <3>1. f \in RequestsOn(l) /\ f \in Frames
      BY <1>1 DEF RequestsOn
    <3>2. f.source = l[1] /\ f.rail = l[2] /\ f.seq < next[l][f.op]
      BY <3>1 DEF Numbered
    <3> QED
      BY <3>1, <3>2, <1>2, <1>3
  <2>3. ASSUME NEW op \in Ops, NEW k \in Rails, NEW f \in Routed(op, k)'
        PROVE  f.op = op /\ f.rail = k /\ f.seq < next'[<<f.source, k>>][op]
    <3>1. f \in Routed(op, k) /\ f \in Frames
      BY <1>1, <1>5
    <3>2. f.op = op /\ f.rail = k /\ f.seq < next[<<f.source, k>>][op]
      BY <3>1 DEF Numbered
    <3> QED
      BY <3>1, <3>2, <1>2, <1>3, <1>4
  <2>4. ASSUME NEW t \in Threads, pc'[t] # "idle"
        PROVE  call'[t].seq < next'[LinkOf(t)'][call'[t].op]
    <3>1. call[t] \in Frames /\ LinkOf(t) \in Links /\ call[t].seq < next[LinkOf(t)][call[t].op]
      BY <2>4, <1>1, <1>6 DEF Numbered
    <3> QED
      BY <3>1, <2>4, <1>2, <1>3, <1>6
  <2> QED
    BY <2>1, <2>2, <2>3, <2>4 DEF Numbered
<1>8. Pipelined'
  <2>1. ASSUME NEW l \in Links, NEW op \in Ops, NEW n, Newer(l, op, n)
        PROVE  \A f \in Routed(op, l[2])' : f.source = l[1] => f.seq < n
    <3>1. l[2] \in Rails
      BY DEF Links
    <3> QED
      BY <3>1, <2>1, <1>5 DEF Newer
  <2>2. ASSUME NEW l \in Links, NEW f \in RequestsOn(l)'
        PROVE  Newer(l, f.op, f.seq)'
    <3>1. f \in RequestsOn(l) /\ f.op \in Ops
      BY <1>1, <1>3 DEF RequestsOn
    <3>2. Newer(l, f.op, f.seq)
      BY <3>1 DEF Pipelined
    <3> QED
      BY <3>1, <3>2, <2>1 DEF Newer
  <2>3. ASSUME NEW t \in Threads, pc'[t] = "checked"
        PROVE  /\ Newer(LinkOf(t), call[t].op, call[t].seq)'
               /\ \A f \in RequestsOn(LinkOf(t))' : f.op = call'[t].op => f.seq < call'[t].seq
    <3>1. /\ pc[t] = "checked" /\ LinkOf(t)' = LinkOf(t) /\ call'[t] = call[t]
          /\ call[t] \in Frames /\ LinkOf(t) \in Links
      BY <2>3, <1>1, <1>6
    <3>2. /\ Newer(LinkOf(t), call[t].op, call[t].seq)
          /\ \A f \in RequestsOn(LinkOf(t)) : f.op = call[t].op => f.seq < call[t].seq
      BY <3>1 DEF Pipelined
    <3>3. Newer(LinkOf(t), call[t].op, call[t].seq)'
      BY <3>1, <3>2, <2>1, <1>3 DEF Newer
    <3>4. RequestsOn(LinkOf(t))' \subseteq RequestsOn(LinkOf(t))
      BY <3>1 DEF RequestsOn
    <3> QED
      BY <3>1, <3>2, <3>3, <3>4
  <2> QED
    BY <2>2, <2>3 DEF Pipelined
<1> QED
  BY <1>7, <1>8

(* A request takes the next number of its opcode on its link.               *)
LEMMA RequestOrder ==
  ASSUME TypeOK, TypeOK', Numbered, Pipelined, NEW t \in Threads, Request(t)
  PROVE  Numbered' /\ Pipelined'
<1>1. /\ \A l \in Links : up[l] \in Streams /\ RequestsOn(l) \subseteq Frames
      /\ \A op \in Ops : \A k \in Rails : Routed(op, k) \subseteq Frames
      /\ \A u \in Threads : pc[u] # "idle" => call[u] \in Frames /\ LinkOf(u) \in Links
  BY OrderTypes
<1>2. pc[t] = "idle" /\ UNCHANGED <<up, sends, receives, matched>>
  BY DEF Request, routers
<1>3. PICK c \in Script(t, calls[t] + 1) :
        LET l == <<RankOf[t], c.rail>> IN
        /\ lock[l] = Nobody
        /\ IF Refused(RankOf[t])
           THEN UNCHANGED <<pc, call, lock, next>>
           ELSE /\ pc' = [pc EXCEPT ![t] = "checked"]
                /\ call' = [call EXCEPT ![t] =
                     [op |-> c.op, seq |-> next[l][c.op], rail |-> c.rail,
                      source |-> RankOf[t],
                      peer |-> c.peer, tag |-> c.tag, contract |-> c.contract]]
                /\ lock' = [lock EXCEPT ![l] = t]
                /\ next' = [next EXCEPT ![l][c.op] = @ + 1]
  BY DEF Request
<1>4. c \in Operations
  <2>1. calls[t] + 1 \in 1 .. MaxCalls
    BY P2pAssumption DEF TypeOK, Request
  <2> QED
    BY <2>1, <1>3, ScriptAssumption
<1> DEFINE l == <<RankOf[t], c.rail>>
<1>5. l \in Links /\ l[1] = RankOf[t] /\ l[2] = c.rail /\ c.op \in Ops /\ l[2] \in Rails
  BY <1>4, P2pAssumption DEF Links, Operations
<1>6. CASE Refused(RankOf[t])
  <2>1. UNCHANGED <<pc, call, next>>
    BY <1>3, <1>6
  <2>2. \A m \in Links : Flows(up[m])
    BY DEF Pipelined
  <2>3. \A m \in Links : \A op \in Ops : next[m][op] <= next'[m][op]
    BY <2>1 DEF TypeOK
  <2> QED
    BY <1>2, <2>1, <2>2, <2>3, QuietOrder
<1>7. CASE ~Refused(RankOf[t])
  <2>1. /\ pc'[t] = "checked" /\ call'[t].op = c.op /\ call'[t].seq = next[l][c.op]
        /\ call'[t].rail = c.rail
        /\ \A u \in Threads \ {t} : pc'[u] = pc[u] /\ call'[u] = call[u]
    BY <1>3, <1>7 DEF TypeOK
  <2>2. next' = [next EXCEPT ![l][c.op] = @ + 1]
    BY <1>3, <1>7
  <2> HIDE DEF l
  <2>3. \A m \in Links : \A op \in Ops :
          /\ next[m][op] \in Nat
          /\ next'[m][op] = IF m = l /\ op = c.op THEN next[m][op] + 1 ELSE next[m][op]
    BY <1>5, <2>2 DEF TypeOK
  <2>4. \A m \in Links : \A op \in Ops : \A n \in Nat : n < next[m][op] => n < next'[m][op]
    BY <2>3
  <2>5. LinkOf(t)' = l /\ \A u \in Threads \ {t} : LinkOf(u)' = LinkOf(u)
    BY <2>1 DEF LinkOf, l
  <2>6. /\ \A op \in Ops : \A k \in Rails : Routed(op, k)' = Routed(op, k)
        /\ \A m \in Links : RequestsOn(m)' = RequestsOn(m)
    BY <1>2 DEF Routed, Queue, Done, RequestsOn, Messages
  <2>7. \A f \in Frames : f.op \in Ops /\ f.seq \in Nat /\ f.source \in Ranks
    BY DEF Frames
  <2>8. Numbered'
    <3>1. matched' \in [Rails -> Seq(Frames \X Frames)]
      BY <1>2 DEF Numbered
    <3>2. \A m \in Links : \A f \in RequestsOn(m)' :
            f.source = m[1] /\ f.rail = m[2] /\ f.seq < next'[m][f.op]
      BY <1>1, <2>4, <2>6, <2>7 DEF Numbered
    <3>3. ASSUME NEW op \in Ops, NEW k \in Rails, NEW f \in Routed(op, k)'
          PROVE  f.op = op /\ f.rail = k /\ f.seq < next'[<<f.source, k>>][op]
      <4>1. f \in Routed(op, k) /\ f \in Frames
        BY <1>1, <2>6
      <4>2. <<f.source, k>> \in Links
        BY <4>1, <2>7 DEF Links
      <4> QED
        BY <4>1, <4>2, <2>4, <2>7 DEF Numbered
    <3>4. ASSUME NEW u \in Threads, pc'[u] # "idle"
          PROVE  call'[u].seq < next'[LinkOf(u)'][call'[u].op]
      <4>1. CASE u = t
        BY <4>1, <2>1, <2>3, <2>5, <1>5
      <4>2. CASE u # t
        <5>1. /\ call[u] \in Frames /\ LinkOf(u) \in Links
              /\ call[u].seq < next[LinkOf(u)][call[u].op]
          BY <3>4, <4>2, <2>1, <1>1 DEF Numbered
        <5> QED
          BY <4>2, <5>1, <2>1, <2>4, <2>5, <2>7
      <4> QED
        BY <4>1, <4>2
    <3> QED
      BY <3>1, <3>2, <3>3, <3>4 DEF Numbered
  <2>9. Pipelined'
    <3>1. \A m \in Links : Flows(up[m])'
      BY <1>2 DEF Pipelined, Flows
    <3>2. ASSUME NEW m \in Links, NEW op \in Ops, NEW n, Newer(m, op, n)
          PROVE  \A f \in Routed(op, m[2])' : f.source = m[1] => f.seq < n
      <4>1. m[2] \in Rails
        BY DEF Links
      <4> QED
        BY <4>1, <3>2, <2>6 DEF Newer
    <3>3. ASSUME NEW m \in Links, NEW f \in RequestsOn(m)' PROVE Newer(m, f.op, f.seq)'
      <4>1. f \in RequestsOn(m) /\ f.op \in Ops
        BY <1>1, <2>6, <2>7
      <4>2. Newer(m, f.op, f.seq)
        BY <4>1 DEF Pipelined
      <4> QED
        BY <4>1, <4>2, <3>2 DEF Newer
    <3>4. ASSUME NEW u \in Threads, pc'[u] = "checked"
          PROVE  /\ Newer(LinkOf(u), call[u].op, call[u].seq)'
                 /\ \A f \in RequestsOn(LinkOf(u))' : f.op = call'[u].op => f.seq < call'[u].seq
      <4>1. CASE u = t
        <5>1. Newer(l, c.op, next[l][c.op])
          <6> SUFFICES ASSUME NEW f \in Routed(c.op, l[2]), f.source = l[1]
                       PROVE  f.seq < next[l][c.op]
            BY DEF Newer
          <6>1. f.seq < next[<<f.source, l[2]>>][c.op]
            BY <1>5 DEF Numbered
          <6>2. <<f.source, l[2]>> = l
            BY <1>5 DEF l
          <6> QED
            BY <6>1, <6>2
        <5>2. \A f \in Routed(c.op, l[2])' : f.source = l[1] => f.seq < next[l][c.op]
          BY <5>1, <3>2, <1>5
        <5>3. Newer(LinkOf(u), call[u].op, call[u].seq)'
          BY <4>1, <5>2, <2>1, <2>5 DEF Newer
        <5>4. \A f \in RequestsOn(l) : f.seq < next[l][f.op]
          BY <1>5 DEF Numbered
        <5>5. RequestsOn(LinkOf(u))' = RequestsOn(l)
          BY <4>1, <2>5, <2>6, <1>5, <1>2 DEF RequestsOn, Messages
        <5> QED
          BY <4>1, <5>3, <5>4, <5>5, <2>1
      <4>2. CASE u # t
        <5>1. /\ pc[u] = "checked" /\ LinkOf(u)' = LinkOf(u) /\ call'[u] = call[u]
              /\ call[u] \in Frames /\ LinkOf(u) \in Links
          BY <3>4, <4>2, <1>1, <2>1, <2>5
        <5>2. /\ Newer(LinkOf(u), call[u].op, call[u].seq)
              /\ \A f \in RequestsOn(LinkOf(u)) : f.op = call[u].op => f.seq < call[u].seq
          BY <5>1 DEF Pipelined
        <5>3. Newer(LinkOf(u), call[u].op, call[u].seq)'
          BY <5>1, <5>2, <3>2, <2>7 DEF Newer
        <5>4. RequestsOn(LinkOf(u))' = RequestsOn(LinkOf(u))
          BY <5>1, <1>2 DEF RequestsOn, Messages
        <5> QED
          BY <5>1, <5>2, <5>3, <5>4
      <4> QED
        BY <4>1, <4>2
    <3> QED
      BY <3>1, <3>3, <3>4 DEF Pipelined
  <2> QED
    BY <2>8, <2>9
<1> QED
  BY <1>6, <1>7

(* A request that is written under the lock is the newest of its link.      *)
LEMMA EnqueueOrder ==
  ASSUME TypeOK, TypeOK', Numbered, Pipelined, NEW t \in Threads, Enqueue(t)
  PROVE  Numbered' /\ Pipelined'
<1> DEFINE l == LinkOf(t)
           c == call[t]
<1>1. /\ \A m \in Links : up[m] \in Streams /\ RequestsOn(m) \subseteq Frames
      /\ \A op \in Ops : \A k \in Rails : Routed(op, k) \subseteq Frames
      /\ \A u \in Threads : pc[u] # "idle" => call[u] \in Frames /\ LinkOf(u) \in Links
  BY OrderTypes
<1>2. /\ pc[t] = "checked" /\ UNCHANGED <<next, sends, receives, matched>>
      /\ c \in Frames /\ l \in Links /\ c.source = RankOf[t]
  BY <1>1, FrameIsCall DEF Enqueue, routers, TypeOK
<1>3. \A f \in Frames : f.op \in Ops /\ f.seq \in Nat /\ f.source \in Ranks
  BY DEF Frames
<1>4. CASE /\ pc' = [pc EXCEPT ![t] = "idle"]
           /\ call' = [call EXCEPT ![t] = NoCall]
           /\ UNCHANGED up
  <2>1. \A m \in Links : Flows(up[m])
    BY DEF Pipelined
  <2>2. \A m \in Links : \A op \in Ops : next[m][op] <= next'[m][op]
    BY <1>2 DEF TypeOK
  <2>3. \A u \in Threads :
          /\ pc'[u] # "idle" => pc[u] # "idle" /\ call'[u] = call[u]
          /\ pc'[u] = "checked" => pc[u] = "checked"
    BY <1>4 DEF TypeOK
  <2> QED
    BY <1>2, <1>4, <2>1, <2>2, <2>3, QuietOrder
<1>5. CASE /\ pc' = [pc EXCEPT ![t] = "waiting"]
           /\ up' = [up EXCEPT ![l] = Append(@, c)]
           /\ call' = call
  <2>1. /\ Newer(l, c.op, c.seq)
        /\ \A f \in RequestsOn(l) : f.op = c.op => f.seq < c.seq
    BY <1>2 DEF Pipelined
  <2>2. c.seq < next[l][c.op] /\ c.source = l[1] /\ c.rail = l[2]
    BY <1>2 DEF Numbered, LinkOf
  <2>3. ASSUME NEW u \in Threads, pc'[u] = "checked"
        PROVE  pc[u] = "checked" /\ LinkOf(u) # l
    <3>1. pc[u] = "checked" /\ u # t
      BY <1>5, <2>3 DEF TypeOK
    <3>2. lock[l] = t /\ (LinkOf(u) = l => lock[l] = u)
      BY <3>1, <1>2 DEF TypeOK, LockHeld
    <3> QED
      BY <3>1, <3>2
  <2>4. \A u \in Threads : /\ LinkOf(u)' = LinkOf(u)
                           /\ pc'[u] # "idle" => pc[u] # "idle"
    BY <1>2, <1>5 DEF LinkOf, TypeOK
  <2> HIDE DEF l, c
  <2>5. \A m \in Links : up'[m] = IF m = l THEN Append(up[l], c) ELSE up[m]
    BY <1>5, <1>2 DEF TypeOK
  <2>6. Flows(Append(up[l], c)) /\ Messages(Append(up[l], c)) = Messages(up[l]) \cup {c}
    <3>1. Grown(up[l], Append(up[l], c), c)
      BY <1>1, <1>2, AppendGrows DEF Streams
    <3>2. Flows(up[l])
      BY <1>2 DEF Pipelined
    <3> QED
      BY <1>2, <1>3, <3>1, <3>2, <2>1, FlowGrows DEF RequestsOn
  <2>7. \A m \in Links : /\ Flows(up[m])'
                         /\ RequestsOn(m)' = IF m = l THEN RequestsOn(m) \cup {c} ELSE RequestsOn(m)
    <3>1. \A m \in Links : Flows(up[m])
      BY DEF Pipelined
    <3> QED
      BY <2>5, <2>6, <3>1 DEF RequestsOn
  <2>8. \A op \in Ops : \A k \in Rails : Routed(op, k)' = Routed(op, k)
    BY <1>2 DEF Routed, Queue, Done
  <2>9. ASSUME NEW m \in Links, NEW op \in Ops, NEW n, Newer(m, op, n)
        PROVE  \A f \in Routed(op, m[2])' : f.source = m[1] => f.seq < n
    <3>1. m[2] \in Rails
      BY DEF Links
    <3> QED
      BY <3>1, <2>8, <2>9 DEF Newer
  <2>10. Numbered'
    <3>1. matched' \in [Rails -> Seq(Frames \X Frames)]
      BY <1>2 DEF Numbered
    <3>2. \A m \in Links : \A f \in RequestsOn(m)' :
            f.source = m[1] /\ f.rail = m[2] /\ f.seq < next'[m][f.op]
      BY <1>2, <2>2, <2>7 DEF Numbered
    <3>3. ASSUME NEW op \in Ops, NEW k \in Rails, NEW f \in Routed(op, k)'
          PROVE  f.op = op /\ f.rail = k /\ f.seq < next'[<<f.source, k>>][op]
      <4>1. f \in Routed(op, k)
        BY <2>8
      <4> QED
        BY <4>1, <1>2 DEF Numbered
    <3>4. \A u \in Threads : pc'[u] # "idle" => call'[u].seq < next'[LinkOf(u)'][call'[u].op]
      BY <1>2, <1>5, <2>4 DEF Numbered
    <3> QED
      BY <3>1, <3>2, <3>3, <3>4 DEF Numbered
  <2>11. Pipelined'
    <3>1. ASSUME NEW m \in Links, NEW f \in RequestsOn(m)' PROVE Newer(m, f.op, f.seq)'
      <4>1. Newer(m, f.op, f.seq) /\ f.op \in Ops
        BY <1>1, <1>2, <1>3, <2>1, <2>7 DEF Pipelined
      <4> QED
        BY <4>1, <2>9 DEF Newer
    <3>2. ASSUME NEW u \in Threads, pc'[u] = "checked"
          PROVE  /\ Newer(LinkOf(u), call[u].op, call[u].seq)'
                 /\ \A f \in RequestsOn(LinkOf(u))' : f.op = call'[u].op => f.seq < call'[u].seq
      <4>1. /\ pc[u] = "checked" /\ LinkOf(u) # l /\ LinkOf(u)' = LinkOf(u) /\ call'[u] = call[u]
            /\ call[u] \in Frames /\ LinkOf(u) \in Links
        BY <3>2, <2>3, <2>4, <1>1, <1>5
      <4>2. /\ Newer(LinkOf(u), call[u].op, call[u].seq)
            /\ \A f \in RequestsOn(LinkOf(u)) : f.op = call[u].op => f.seq < call[u].seq
        BY <4>1 DEF Pipelined
      <4>3. Newer(LinkOf(u), call[u].op, call[u].seq)'
        BY <4>1, <4>2, <2>9, <1>3 DEF Newer
      <4>4. RequestsOn(LinkOf(u))' = RequestsOn(LinkOf(u))
        BY <4>1, <2>5 DEF RequestsOn
      <4> QED
        BY <4>1, <4>2, <4>3, <4>4
    <3> QED
      BY <2>7, <3>1, <3>2 DEF Pipelined
  <2> QED
    BY <2>10, <2>11
<1> QED
  BY <1>4, <1>5 DEF Enqueue

(* A router takes the head of a stream: it is newer than what the router    *)
(* has of its link, and older than what is to come.                         *)
LEMMA RouteOrder ==
  ASSUME TypeOK, TypeOK', Numbered, Pipelined, NEW l \in Links, up[l] # <<>>,
         Head(up[l]).op \in Ops, up' = [up EXCEPT ![l] = Tail(@)],
         UNCHANGED <<pc, call, next>>,
         matched' \in [Rails -> Seq(Frames \X Frames)],
         \A op \in Ops : \A k \in Rails : \A f \in Routed(op, k)' :
           f \in Routed(op, k) \/ (f = Head(up[l]) /\ op = f.op /\ k = l[2])
  PROVE  /\ Numbered' /\ Pipelined' /\ Newer(l, Head(up[l]).op, Head(up[l]).seq)
         /\ Head(up[l]).source = l[1] /\ Head(up[l]).rail = l[2]
<1> DEFINE h == Head(up[l])
<1>1. /\ \A m \in Links : up[m] \in Streams /\ RequestsOn(m) \subseteq Frames
      /\ \A op \in Ops : \A k \in Rails : Routed(op, k) \subseteq Frames
      /\ \A u \in Threads : pc[u] # "idle" => call[u] \in Frames /\ LinkOf(u) \in Links
  BY OrderTypes
<1>2. /\ Flows(Tail(up[l])) /\ Messages(Tail(up[l])) \subseteq Messages(up[l])
      /\ h \in Range(up[l])
      /\ \A f \in Messages(Tail(up[l])) : f.op = h.op => h.seq < f.seq
  <2>1. Flows(up[l]) /\ up[l] \in Streams
    BY <1>1 DEF Pipelined
  <2> QED
    BY <2>1, FlowTail
<1>3. h \in RequestsOn(l) /\ h \in Frames
  BY <1>1, <1>2 DEF RequestsOn, Messages
<1>4. /\ h.source = l[1] /\ h.rail = l[2] /\ h.seq < next[l][h.op]
      /\ Newer(l, h.op, h.seq) /\ h.op \in Ops
  BY <1>3 DEF Numbered, Pipelined
<1> HIDE DEF h
<1>5. \A m \in Links : up'[m] = IF m = l THEN Tail(up[l]) ELSE up[m]
  BY DEF TypeOK
<1>6. \A m \in Links : Flows(up[m])' /\ RequestsOn(m)' \subseteq RequestsOn(m)
  <2>1. \A m \in Links : Flows(up[m])
    BY DEF Pipelined
  <2> QED
    BY <1>2, <1>5, <2>1 DEF RequestsOn
<1>7. \A m \in Links : m[1] \in Ranks /\ m[2] \in Rails /\ m = <<m[1], m[2]>>
  BY DEF Links
<1>8. \A op \in Ops : \A k \in Rails : \A f \in Routed(op, k)' :
        f \in Routed(op, k) \/ (f = h /\ op = h.op /\ k = l[2])
  BY DEF h
<1>9. Numbered'
  <2>1. \A m \in Links : \A f \in RequestsOn(m)' :
          f.source = m[1] /\ f.rail = m[2] /\ f.seq < next'[m][f.op]
    BY <1>6 DEF Numbered
  <2>2. ASSUME NEW op \in Ops, NEW k \in Rails, NEW f \in Routed(op, k)'
        PROVE  f.op = op /\ f.rail = k /\ f.seq < next'[<<f.source, k>>][op]
    <3>1. CASE f \in Routed(op, k)
      BY <3>1 DEF Numbered
    <3>2. CASE f = h /\ op = h.op /\ k = l[2]
      BY <3>2, <1>4, <1>7
    <3> QED
      BY <3>1, <3>2, <1>8
  <2>3. \A u \in Threads : LinkOf(u)' = LinkOf(u)
    BY DEF LinkOf
  <2>4. \A u \in Threads : pc'[u] # "idle" => call'[u].seq < next'[LinkOf(u)'][call'[u].op]
    BY <2>3 DEF Numbered
  <2> QED
    BY <2>1, <2>2, <2>4 DEF Numbered
<1>10. ASSUME NEW m \in Links, NEW op \in Ops, NEW n, Newer(m, op, n),
              m = l /\ op = h.op => h.seq < n
       PROVE  \A f \in Routed(op, m[2])' : f.source = m[1] => f.seq < n
  <2> SUFFICES ASSUME NEW f \in Routed(op, m[2])', f.source = m[1] PROVE f.seq < n
    OBVIOUS
  <2>1. CASE f \in Routed(op, m[2])
    BY <2>1, <1>10 DEF Newer
  <2>2. CASE f = h /\ op = h.op /\ m[2] = l[2]
    <3>1. m = l
      BY <2>2, <1>4, <1>7
    <3> QED
      BY <2>2, <3>1, <1>10
  <2> QED
    BY <2>1, <2>2, <1>7, <1>8
<1>11. Pipelined'
  <2>1. ASSUME NEW m \in Links, NEW f \in RequestsOn(m)' PROVE Newer(m, f.op, f.seq)'
    <3>1. f \in RequestsOn(m) /\ f.op \in Ops
      BY <1>6 DEF RequestsOn, Messages
    <3>2. Newer(m, f.op, f.seq)
      BY <3>1 DEF Pipelined
    <3>3. m = l /\ f.op = h.op => h.seq < f.seq
      BY <1>2, <1>5 DEF RequestsOn, h
    <3> QED
      BY <3>1, <3>2, <3>3, <1>10 DEF Newer
  <2>2. ASSUME NEW u \in Threads, pc'[u] = "checked"
        PROVE  /\ Newer(LinkOf(u), call[u].op, call[u].seq)'
               /\ \A f \in RequestsOn(LinkOf(u))' : f.op = call'[u].op => f.seq < call'[u].seq
    <3>1. /\ pc[u] = "checked" /\ LinkOf(u)' = LinkOf(u) /\ call'[u] = call[u]
          /\ call[u] \in Frames /\ LinkOf(u) \in Links /\ call[u].op \in Ops
      BY <2>2, <1>1 DEF LinkOf, Frames
    <3>2. /\ Newer(LinkOf(u), call[u].op, call[u].seq)
          /\ \A f \in RequestsOn(LinkOf(u)) : f.op = call[u].op => f.seq < call[u].seq
      BY <3>1 DEF Pipelined
    <3>3. LinkOf(u) = l /\ call[u].op = h.op => h.seq < call[u].seq
      BY <3>2, <1>3
    <3>4. Newer(LinkOf(u), call[u].op, call[u].seq)'
      BY <3>1, <3>2, <3>3, <1>10 DEF Newer
    <3>5. RequestsOn(LinkOf(u))' \subseteq RequestsOn(LinkOf(u))
      BY <3>1, <1>2, <1>5 DEF RequestsOn
    <3> QED
      BY <3>1, <3>2, <3>4, <3>5
  <2> QED
    BY <1>6, <2>1, <2>2 DEF Pipelined
<1> QED
  BY <1>4, <1>9, <1>11 DEF h

-----------------------------------------------------------------------------
(* The requests are matched in the order in which they were submitted.      *)

(* Rails whose queues do not change keep their order.                       *)
LEMMA RailKept ==
  ASSUME NEW op \in Ops, NEW k \in Rails, sends'[k] = sends[k], receives'[k] = receives[k],
         matched'[k] = matched[k]
  PROVE  /\ Queue(op, k)' = Queue(op, k) /\ Done(op, k)' = Done(op, k)
         /\ Routed(op, k)' = Routed(op, k) /\ (InTurn(op, k) => InTurn(op, k)')
<1>1. Queue(op, k)' = Queue(op, k) /\ Done(op, k)' = Done(op, k)
  BY DEF Queue, Done
<1> QED
  BY <1>1 DEF Routed, InTurn, Turn, InOrder, Before

(* What the router does with the request h of kind op that it takes from    *)
(* the link l, `other' being the kind that matches it: h joins its queue,   *)
(* or takes a request of the other kind out of the other queue, with which  *)
(* it is matched unless the rail stops.                                     *)
Routes(op, other, k, h) ==
  \/ /\ Grown(Queue(op, k), Queue(op, k)', h)
     /\ Queue(other, k)' = Queue(other, k)
     /\ Done(op, k)' = Done(op, k) /\ Done(other, k)' = Done(other, k)
  \/ /\ Queue(op, k)' = Queue(op, k)
     /\ \E i :
          /\ Shrunk(Queue(other, k), Queue(other, k)', i)
          /\ \/ Done(op, k)' = Done(op, k) /\ Done(other, k)' = Done(other, k)
             \/ /\ Grown(Done(op, k), Done(op, k)', h)
                /\ Grown(Done(other, k), Done(other, k)', Queue(other, k)[i])
                /\ \A j \in DOMAIN Queue(op, k) : ~Kin(h, Queue(op, k)[j])
                /\ \A j \in DOMAIN Queue(other, k) :
                     j < i => ~Kin(Queue(other, k)[i], Queue(other, k)[j])

(* Each of these keeps the order.                                           *)
LEMMA RouterTurn ==
  ASSUME OrderInv, TypeOK', NEW l \in Links, up[l] # <<>>,
         up' = [up EXCEPT ![l] = Tail(@)], UNCHANGED <<pc, call, next>>,
         matched' \in [Rails -> Seq(Frames \X Frames)],
         \A m \in Rails \ {l[2]} :
           sends'[m] = sends[m] /\ receives'[m] = receives[m] /\ matched'[m] = matched[m],
         NEW h, h = Head(up[l]),
         NEW op, NEW other, h.op = op, {op, other} = {"Send", "Receive"}, op # other,
         NEW k, k = l[2],
         Routes(op, other, k, h)
  PROVE  Numbered' /\ Pipelined' /\ \A o \in Ops : \A m \in Rails : InTurn(o, m)'
<1>1. op \in Ops /\ other \in Ops /\ k \in Rails /\ \A o \in Ops : o \in {op, other, "Heartbeat"}
  BY DEF Ops, Links
<1>2. TypeOK /\ Numbered /\ Pipelined /\ InTurn(op, k) /\ InTurn(other, k)
  BY <1>1 DEF OrderInv
<1>3. /\ Range(Queue(op, k)') \cup Range(Done(op, k)') \subseteq Routed(op, k) \cup {h}
      /\ Range(Queue(other, k)') \cup Range(Done(other, k)') \subseteq Routed(other, k)
  <2>1. CASE Grown(Queue(op, k), Queue(op, k)', h) /\ Queue(other, k)' = Queue(other, k)
             /\ Done(op, k)' = Done(op, k) /\ Done(other, k)' = Done(other, k)
    BY <2>1, GrownRange DEF Routed
  <2>2. ASSUME NEW i, Shrunk(Queue(other, k), Queue(other, k)', i), Queue(op, k)' = Queue(op, k)
        PROVE  /\ Range(Queue(other, k)') \subseteq Range(Queue(other, k))
               /\ Queue(other, k)[i] \in Range(Queue(other, k))
    BY <2>2, ShrunkRange
  <2>3. ASSUME Grown(Done(op, k), Done(op, k)', h)
        PROVE  Range(Done(op, k)') = Range(Done(op, k)) \cup {h}
    BY <2>3, GrownRange
  <2>4. ASSUME NEW x, Grown(Done(other, k), Done(other, k)', x)
        PROVE  Range(Done(other, k)') = Range(Done(other, k)) \cup {x}
    BY <2>4, GrownRange
  <2> QED
    BY <2>1, <2>2, <2>3, <2>4 DEF Routed, Routes
<1>4. \A o \in Ops : \A m \in Rails : \A f \in Routed(o, m)' :
        f \in Routed(o, m) \/ (f = h /\ o = f.op /\ m = l[2])
  <2> SUFFICES ASSUME NEW o \in Ops, NEW m \in Rails, NEW f \in Routed(o, m)'
               PROVE  f \in Routed(o, m) \/ (f = h /\ o = f.op /\ m = l[2])
    OBVIOUS
  <2>1. CASE m # k
    BY <2>1, RailKept
  <2>2. CASE m = k
    <3>1. CASE o = op
      BY <2>2, <3>1, <1>3 DEF Routed
    <3>2. CASE o = other
      BY <2>2, <3>2, <1>3 DEF Routed
    <3>3. CASE o = "Heartbeat"
      <4>1. Queue(o, m)' = <<>> /\ Done(o, m)' = <<>> /\ Range(<<>>) = {}
        BY <3>3 DEF Queue, Done, Range
      <4> QED
        BY <4>1 DEF Routed
    <3> QED
      BY <1>1, <3>1, <3>2, <3>3
  <2> QED
    BY <2>1, <2>2
<1>5. /\ Numbered' /\ Pipelined' /\ Newer(l, h.op, h.seq)
      /\ h.source = l[1] /\ h.rail = l[2]
  <2>1. Head(up[l]).op \in Ops
    BY <1>1
  <2>2. \A o \in Ops : \A m \in Rails : \A f \in Routed(o, m)' :
          f \in Routed(o, m) \/ (f = Head(up[l]) /\ o = f.op /\ m = l[2])
    BY <1>4
  <2>3. /\ Numbered' /\ Pipelined' /\ Newer(l, Head(up[l]).op, Head(up[l]).seq)
        /\ Head(up[l]).source = l[1] /\ Head(up[l]).rail = l[2]
    BY <1>2, <2>1, <2>2, RouteOrder
  <2> QED
    BY <2>3
<1>6. /\ \A i \in DOMAIN Queue(op, k) : Kin(Queue(op, k)[i], h) => Queue(op, k)[i].seq < h.seq
      /\ \A i \in DOMAIN Done(op, k) : Kin(Done(op, k)[i], h) => Done(op, k)[i].seq < h.seq
  <2>1. \A f \in Range(Queue(op, k)) \cup Range(Done(op, k)) : f.source = h.source => f.seq < h.seq
    BY <1>5 DEF Newer, Routed
  <2> QED
    BY <2>1, Zenon DEF Kin, Range
<1>7. InTurn(op, k)' /\ InTurn(other, k)'
  <2>1. CASE Grown(Queue(op, k), Queue(op, k)', h) /\ Queue(other, k)' = Queue(other, k)
             /\ Done(op, k)' = Done(op, k) /\ Done(other, k)' = Done(other, k)
    <3>1. Turn(Done(op, k), Queue(op, k)')
      BY <2>1, <1>2, <1>6, TurnJoins DEF InTurn
    <3> QED
      BY <2>1, <3>1, <1>2 DEF InTurn
  <2>2. ASSUME NEW i, Queue(op, k)' = Queue(op, k), Shrunk(Queue(other, k), Queue(other, k)', i),
               Done(op, k)' = Done(op, k), Done(other, k)' = Done(other, k)
        PROVE  InTurn(op, k)' /\ InTurn(other, k)'
    <3>1. Turn(Done(other, k), Queue(other, k)')
      BY <2>2, <1>2, TurnDrops DEF InTurn
    <3> QED
      BY <2>2, <3>1, <1>2 DEF InTurn
  <2>3. ASSUME NEW i, Queue(op, k)' = Queue(op, k), Shrunk(Queue(other, k), Queue(other, k)', i),
               Grown(Done(op, k), Done(op, k)', h),
               Grown(Done(other, k), Done(other, k)', Queue(other, k)[i]),
               \A j \in DOMAIN Queue(op, k) : ~Kin(h, Queue(op, k)[j]),
               \A j \in DOMAIN Queue(other, k) :
                 j < i => ~Kin(Queue(other, k)[i], Queue(other, k)[j])
        PROVE  InTurn(op, k)' /\ InTurn(other, k)'
    <3>1. Turn(Done(other, k)', Queue(other, k)')
      BY <2>3, <1>2, TurnTakes DEF InTurn
    <3>2. Turn(Done(op, k)', Queue(op, k))
      BY <2>3, <1>2, <1>6, TurnPasses DEF InTurn
    <3> QED
      BY <2>3, <3>1, <3>2 DEF InTurn
  <2> QED
    BY <2>1, <2>2, <2>3 DEF Routes
<1>8. ASSUME NEW o \in Ops, NEW m \in Rails PROVE InTurn(o, m)'
  <2>1. CASE m # k
    BY <2>1, RailKept DEF OrderInv
  <2>2. CASE m = k /\ o = "Heartbeat"
    <3>1. Queue(o, m)' = <<>> /\ Done(o, m)' = <<>>
      BY <2>2 DEF Queue, Done
    <3>2. Turn(<<>>, <<>>)
      BY DEF Turn, InOrder, Before
    <3> QED
      BY <3>1, <3>2 DEF InTurn
  <2> QED
    BY <2>1, <2>2, <1>1, <1>7
<1> QED
  BY <1>5, <1>8

(* A pair that is matched comes after the pairs that were.                  *)
LEMMA PairMatched ==
  ASSUME matched \in [Rails -> Seq(Frames \X Frames)], NEW k \in Rails,
         NEW a \in Frames, NEW b \in Frames,
         matched' = [matched EXCEPT ![k] = Append(@, <<a, b>>)]
  PROVE  /\ matched' \in [Rails -> Seq(Frames \X Frames)]
         /\ \A m \in Rails \ {k} : matched'[m] = matched[m]
         /\ Grown(Done("Send", k), Done("Send", k)', a)
         /\ Grown(Done("Receive", k), Done("Receive", k)', b)
<1>1. matched[k] \in Seq(Frames \X Frames) /\ <<a, b>> \in Frames \X Frames
  OBVIOUS
<1>2. Grown(matched[k], Append(matched[k], <<a, b>>), <<a, b>>)
  BY <1>1, AppendGrows
<1>3. Append(matched[k], <<a, b>>) \in Seq(Frames \X Frames)
  BY <1>1
<1>4. matched'[k] = Append(matched[k], <<a, b>>)
  OBVIOUS
<1>5. PICK n \in Nat :
        /\ DOMAIN matched[k] = 1 .. n /\ DOMAIN matched'[k] = 1 .. n + 1
        /\ matched'[k][n + 1] = <<a, b>> /\ \A i \in 1 .. n : matched'[k][i] = matched[k][i]
  BY <1>2, <1>4 DEF Grown
<1>6. n + 1 \in 1 .. n + 1 /\ \A i \in 1 .. n : i \in 1 .. n + 1
  OBVIOUS
<1>7. /\ Done("Send", k) = [i \in 1 .. n |-> matched[k][i][1]]
      /\ Done("Send", k)' = [i \in 1 .. n + 1 |-> matched'[k][i][1]]
  BY <1>5 DEF Done
<1>8. /\ Done("Receive", k) = [i \in 1 .. n |-> matched[k][i][2]]
      /\ Done("Receive", k)' = [i \in 1 .. n + 1 |-> matched'[k][i][2]]
  BY <1>5 DEF Done
<1>9. <<a, b>>[1] = a /\ <<a, b>>[2] = b
  OBVIOUS
<1>10. Grown(Done("Send", k), Done("Send", k)', a)
  <2>1. \A i \in 1 .. n : Done("Send", k)'[i] = Done("Send", k)[i]
    BY <1>5, <1>6, <1>7
  <2>2. /\ DOMAIN Done("Send", k) = 1 .. n /\ DOMAIN Done("Send", k)' = 1 .. n + 1
        /\ Done("Send", k)'[n + 1] = a
    BY <1>5, <1>6, <1>7, <1>9
  <2> QED
    BY <2>1, <2>2, Zenon DEF Grown
<1>11. Grown(Done("Receive", k), Done("Receive", k)', b)
  <2>1. \A i \in 1 .. n : Done("Receive", k)'[i] = Done("Receive", k)[i]
    BY <1>5, <1>6, <1>8
  <2>2. /\ DOMAIN Done("Receive", k) = 1 .. n /\ DOMAIN Done("Receive", k)' = 1 .. n + 1
        /\ Done("Receive", k)'[n + 1] = b
    BY <1>5, <1>6, <1>8, <1>9
  <2> QED
    BY <2>1, <2>2, Zenon DEF Grown
<1> QED
  BY <1>3, <1>10, <1>11

(* A send takes the oldest receive it fits, and is queued if there is none. *)
LEMMA SendTurn ==
  ASSUME OrderInv, TypeOK', NEW l \in Links,
         RouteSend(l) \/ (DeliveryFails(l) /\ Head(up[l]).op = "Send")
  PROVE  Numbered' /\ Pipelined' /\ \A o \in Ops : \A m \in Rails : InTurn(o, m)'
<1> DEFINE k == RailOf(l)
           h == Head(up[l])
           i == QueuedReceive(k, h)
<1>1. /\ k \in Rails /\ k = l[2] /\ TypeOK /\ NothingLeftToMatch
      /\ matched \in [Rails -> Seq(Frames \X Frames)]
  BY DEF RailOf, Links, OrderInv, Numbered
<1>2. /\ up[l] # <<>> /\ h.op = "Send" /\ up' = [up EXCEPT ![l] = Tail(@)]
      /\ UNCHANGED <<pc, call, next>>
  BY DEF RouteSend, DeliveryFails, Incoming, threads, clients
<1>3. h \in Frames /\ sends[k] \in Seq(Frames) /\ receives[k] \in Seq(Frames)
  BY <1>1, <1>2, HeadTail DEF Ops, TypeOK
<1>4. \/ /\ sends' = [sends EXCEPT ![k] = Append(@, h)]
         /\ UNCHANGED <<receives, matched>>
      \/ /\ i # 0 /\ receives' = [receives EXCEPT ![k] = RemoveAt(@, i)]
         /\ UNCHANGED <<sends, matched>>
      \/ /\ i # 0 /\ receives' = [receives EXCEPT ![k] = RemoveAt(@, i)]
         /\ matched' = [matched EXCEPT ![k] = Append(@, <<h, receives[k][i]>>)]
         /\ UNCHANGED sends
  BY <1>2 DEF RouteSend, DeliveryFails
<1>5. i # 0 => /\ i \in 1 .. Len(receives[k]) /\ Matches(h, receives[k][i])
               /\ \A j \in 1 .. Len(receives[k]) : j < i => ~Matches(h, receives[k][j])
  BY <1>1, <1>3, QueuedReceiveFinds
<1> HIDE DEF k, h, i
<1>6. /\ Queue("Send", k) = sends[k] /\ Queue("Send", k)' = sends'[k]
      /\ Queue("Receive", k) = receives[k] /\ Queue("Receive", k)' = receives'[k]
  BY DEF Queue
<1>7. /\ {"Send", "Receive"} = {"Send", "Receive"} /\ "Send" # "Receive"
      /\ h = Head(up[l])
  BY DEF h
<1>8. ASSUME UNCHANGED matched
      PROVE  /\ matched' \in [Rails -> Seq(Frames \X Frames)]
             /\ Done("Send", k)' = Done("Send", k) /\ Done("Receive", k)' = Done("Receive", k)
  BY <1>1, <1>8 DEF Done
<1>9. CASE /\ sends' = [sends EXCEPT ![k] = Append(@, h)]
           /\ UNCHANGED <<receives, matched>>
  <2>1. \A m \in Rails \ {l[2]} :
          sends'[m] = sends[m] /\ receives'[m] = receives[m] /\ matched'[m] = matched[m]
    BY <1>1, <1>9 DEF TypeOK
  <2>2. sends'[k] = Append(sends[k], h)
    BY <1>1, <1>9 DEF TypeOK
  <2>3. Grown(Queue("Send", k), Queue("Send", k)', h)
    BY <1>3, <1>6, <2>2, AppendGrows
  <2>4. Queue("Receive", k)' = Queue("Receive", k)
    BY <1>6, <1>9
  <2>5. Routes("Send", "Receive", k, h)
    BY <1>8, <1>9, <2>3, <2>4 DEF Routes
  <2> QED
    BY <1>1, <1>2, <1>7, <1>8, <1>9, <2>1, <2>5, RouterTurn
<1>10. ASSUME i # 0, receives' = [receives EXCEPT ![k] = RemoveAt(@, i)], UNCHANGED sends
       PROVE  /\ \A m \in Rails \ {l[2]} : sends'[m] = sends[m] /\ receives'[m] = receives[m]
              /\ Shrunk(Queue("Receive", k), Queue("Receive", k)', i)
              /\ Queue("Send", k)' = Queue("Send", k)
  <2>1. receives'[k] = RemoveAt(receives[k], i)
    BY <1>1, <1>10 DEF TypeOK
  <2>2. Shrunk(receives[k], RemoveAt(receives[k], i), i)
    BY <1>3, <1>5, <1>10, RemovalShrinks
  <2> QED
    BY <1>1, <1>6, <1>10, <2>1, <2>2 DEF TypeOK
<1>11. CASE /\ i # 0 /\ receives' = [receives EXCEPT ![k] = RemoveAt(@, i)]
            /\ UNCHANGED <<sends, matched>>
  <2>1. Routes("Send", "Receive", k, h)
    BY <1>8, <1>10, <1>11 DEF Routes
  <2>2. \A m \in Rails \ {l[2]} :
          sends'[m] = sends[m] /\ receives'[m] = receives[m] /\ matched'[m] = matched[m]
    BY <1>10, <1>11
  <2> QED
    BY <1>1, <1>2, <1>7, <1>8, <1>11, <2>1, <2>2, RouterTurn
<1>12. CASE /\ i # 0 /\ receives' = [receives EXCEPT ![k] = RemoveAt(@, i)]
            /\ matched' = [matched EXCEPT ![k] = Append(@, <<h, receives[k][i]>>)]
            /\ UNCHANGED sends
  <2>1. receives[k][i] \in Frames /\ i \in DOMAIN receives[k]
    BY <1>3, <1>5, <1>12
  <2>2. /\ matched' \in [Rails -> Seq(Frames \X Frames)]
        /\ \A m \in Rails \ {k} : matched'[m] = matched[m]
        /\ Grown(Done("Send", k), Done("Send", k)', h)
        /\ Grown(Done("Receive", k), Done("Receive", k)', Queue("Receive", k)[i])
    BY <1>1, <1>3, <1>6, <1>12, <2>1, PairMatched
  <2>3. ASSUME NEW j \in DOMAIN sends[k] PROVE ~Kin(h, sends[k][j])
    <3>1. ~Matches(sends[k][j], receives[k][i])
      BY <1>1, <2>1 DEF NothingLeftToMatch
    <3> QED
      BY <1>5, <1>12, <3>1 DEF Matches, Kin
  <2>4. ASSUME NEW j \in DOMAIN receives[k], j < i PROVE ~Kin(receives[k][i], receives[k][j])
    <3>1. j \in 1 .. Len(receives[k])
      BY <1>3
    <3>2. ~Matches(h, receives[k][j])
      BY <1>5, <1>12, <2>4, <3>1, Zenon
    <3> QED
      BY <1>5, <1>12, <3>2 DEF Matches, Kin
  <2>5. /\ \A j \in DOMAIN Queue("Send", k) : ~Kin(h, Queue("Send", k)[j])
        /\ \A j \in DOMAIN Queue("Receive", k) :
             j < i => ~Kin(Queue("Receive", k)[i], Queue("Receive", k)[j])
    BY <1>6, <2>3, <2>4
  <2>6. \A m \in Rails \ {l[2]} :
          sends'[m] = sends[m] /\ receives'[m] = receives[m] /\ matched'[m] = matched[m]
    BY <1>1, <1>10, <1>12, <2>2
  <2>7. Routes("Send", "Receive", k, h)
    BY <1>10, <1>12, <2>2, <2>5 DEF Routes
  <2> QED
    BY <1>1, <1>2, <1>7, <2>2, <2>6, <2>7, RouterTurn
<1> QED
  BY <1>4, <1>9, <1>11, <1>12

(* A receive takes the oldest send that fits it, or is queued. *)
LEMMA ReceiveTurn ==
  ASSUME OrderInv, TypeOK', NEW l \in Links,
         RouteReceive(l) \/ (DeliveryFails(l) /\ Head(up[l]).op = "Receive")
  PROVE  Numbered' /\ Pipelined' /\ \A o \in Ops : \A m \in Rails : InTurn(o, m)'
<1> DEFINE k == RailOf(l)
           h == Head(up[l])
           i == QueuedSend(k, h)
<1>1. /\ k \in Rails /\ k = l[2] /\ TypeOK /\ NothingLeftToMatch
      /\ matched \in [Rails -> Seq(Frames \X Frames)]
  BY DEF RailOf, Links, OrderInv, Numbered
<1>2. /\ up[l] # <<>> /\ h.op = "Receive" /\ up' = [up EXCEPT ![l] = Tail(@)]
      /\ UNCHANGED <<pc, call, next>>
  BY DEF RouteReceive, DeliveryFails, Incoming, threads, clients
<1>3. h \in Frames /\ sends[k] \in Seq(Frames) /\ receives[k] \in Seq(Frames)
  BY <1>1, <1>2, HeadTail DEF Ops, TypeOK
<1>4. \/ /\ receives' = [receives EXCEPT ![k] = Append(@, h)]
         /\ UNCHANGED <<sends, matched>>
      \/ /\ i # 0 /\ sends' = [sends EXCEPT ![k] = RemoveAt(@, i)]
         /\ UNCHANGED <<receives, matched>>
      \/ /\ i # 0 /\ sends' = [sends EXCEPT ![k] = RemoveAt(@, i)]
         /\ matched' = [matched EXCEPT ![k] = Append(@, <<sends[k][i], h>>)]
         /\ UNCHANGED receives
  BY <1>2 DEF RouteReceive, DeliveryFails
<1>5. i # 0 => /\ i \in 1 .. Len(sends[k]) /\ Matches(sends[k][i], h)
               /\ \A j \in 1 .. Len(sends[k]) : j < i => ~Matches(sends[k][j], h)
  BY <1>1, <1>3, QueuedSendFinds
<1> HIDE DEF k, h, i
<1>6. /\ Queue("Receive", k) = receives[k] /\ Queue("Receive", k)' = receives'[k]
      /\ Queue("Send", k) = sends[k] /\ Queue("Send", k)' = sends'[k]
  BY DEF Queue
<1>7. /\ {"Receive", "Send"} = {"Send", "Receive"} /\ "Receive" # "Send"
      /\ h = Head(up[l])
  BY DEF h
<1>8. ASSUME UNCHANGED matched
      PROVE  /\ matched' \in [Rails -> Seq(Frames \X Frames)]
             /\ Done("Receive", k)' = Done("Receive", k) /\ Done("Send", k)' = Done("Send", k)
  BY <1>1, <1>8 DEF Done
<1>9. CASE /\ receives' = [receives EXCEPT ![k] = Append(@, h)]
           /\ UNCHANGED <<sends, matched>>
  <2>1. \A m \in Rails \ {l[2]} :
          sends'[m] = sends[m] /\ receives'[m] = receives[m] /\ matched'[m] = matched[m]
    BY <1>1, <1>9 DEF TypeOK
  <2>2. receives'[k] = Append(receives[k], h)
    BY <1>1, <1>9 DEF TypeOK
  <2>3. Grown(Queue("Receive", k), Queue("Receive", k)', h)
    BY <1>3, <1>6, <2>2, AppendGrows
  <2>4. Queue("Send", k)' = Queue("Send", k)
    BY <1>6, <1>9
  <2>5. Routes("Receive", "Send", k, h)
    BY <1>8, <1>9, <2>3, <2>4 DEF Routes
  <2> QED
    BY <1>1, <1>2, <1>7, <1>8, <1>9, <2>1, <2>5, RouterTurn
<1>10. ASSUME i # 0, sends' = [sends EXCEPT ![k] = RemoveAt(@, i)], UNCHANGED receives
       PROVE  /\ \A m \in Rails \ {l[2]} : sends'[m] = sends[m] /\ receives'[m] = receives[m]
              /\ Shrunk(Queue("Send", k), Queue("Send", k)', i)
              /\ Queue("Receive", k)' = Queue("Receive", k)
  <2>1. sends'[k] = RemoveAt(sends[k], i)
    BY <1>1, <1>10 DEF TypeOK
  <2>2. Shrunk(sends[k], RemoveAt(sends[k], i), i)
    BY <1>3, <1>5, <1>10, RemovalShrinks
  <2> QED
    BY <1>1, <1>6, <1>10, <2>1, <2>2 DEF TypeOK
<1>11. CASE /\ i # 0 /\ sends' = [sends EXCEPT ![k] = RemoveAt(@, i)]
            /\ UNCHANGED <<receives, matched>>
  <2>1. Routes("Receive", "Send", k, h)
    BY <1>8, <1>10, <1>11 DEF Routes
  <2>2. \A m \in Rails \ {l[2]} :
          sends'[m] = sends[m] /\ receives'[m] = receives[m] /\ matched'[m] = matched[m]
    BY <1>10, <1>11
  <2> QED
    BY <1>1, <1>2, <1>7, <1>8, <1>11, <2>1, <2>2, RouterTurn
<1>12. CASE /\ i # 0 /\ sends' = [sends EXCEPT ![k] = RemoveAt(@, i)]
            /\ matched' = [matched EXCEPT ![k] = Append(@, <<sends[k][i], h>>)]
            /\ UNCHANGED receives
  <2>1. sends[k][i] \in Frames /\ i \in DOMAIN sends[k]
    BY <1>3, <1>5, <1>12
  <2>2. /\ matched' \in [Rails -> Seq(Frames \X Frames)]
        /\ \A m \in Rails \ {k} : matched'[m] = matched[m]
        /\ Grown(Done("Receive", k), Done("Receive", k)', h)
        /\ Grown(Done("Send", k), Done("Send", k)', Queue("Send", k)[i])
    BY <1>1, <1>3, <1>6, <1>12, <2>1, PairMatched
  <2>3. ASSUME NEW j \in DOMAIN receives[k] PROVE ~Kin(h, receives[k][j])
    <3>1. ~Matches(sends[k][i], receives[k][j])
      BY <1>1, <2>1 DEF NothingLeftToMatch
    <3> QED
      BY <1>5, <1>12, <3>1 DEF Matches, Kin
  <2>4. ASSUME NEW j \in DOMAIN sends[k], j < i PROVE ~Kin(sends[k][i], sends[k][j])
    <3>1. j \in 1 .. Len(sends[k])
      BY <1>3
    <3>2. ~Matches(sends[k][j], h)
      BY <1>5, <1>12, <2>4, <3>1, Zenon
    <3> QED
      BY <1>5, <1>12, <3>2 DEF Matches, Kin
  <2>5. /\ \A j \in DOMAIN Queue("Receive", k) : ~Kin(h, Queue("Receive", k)[j])
        /\ \A j \in DOMAIN Queue("Send", k) :
             j < i => ~Kin(Queue("Send", k)[i], Queue("Send", k)[j])
    BY <1>6, <2>3, <2>4
  <2>6. \A m \in Rails \ {l[2]} :
          sends'[m] = sends[m] /\ receives'[m] = receives[m] /\ matched'[m] = matched[m]
    BY <1>1, <1>10, <1>12, <2>2
  <2>7. Routes("Receive", "Send", k, h)
    BY <1>10, <1>12, <2>2, <2>5 DEF Routes
  <2> QED
    BY <1>1, <1>2, <1>7, <2>2, <2>6, <2>7, RouterTurn
<1> QED
  BY <1>4, <1>9, <1>11, <1>12

(* A stream that loses its head or gets a LEAVE, an ABORT or its end brings *)
(* no request.                                                              *)
LEMMA StreamsKept ==
  ASSUME TypeOK, Numbered, Pipelined,
         \A l \in Links :
           \/ up'[l] = up[l]
           \/ \E x \in {Eof, Leave, Abort} : up'[l] = Append(up[l], x)
           \/ up'[l] = up[l] \o <<Leave, Eof>>
           \/ up[l] # <<>> /\ up'[l] = Tail(up[l])
  PROVE  \A l \in Links : Flows(up'[l]) /\ Messages(up'[l]) \subseteq Messages(up[l])
<1> SUFFICES ASSUME NEW l \in Links
             PROVE  Flows(up'[l]) /\ Messages(up'[l]) \subseteq Messages(up[l])
  OBVIOUS
<1>1. up[l] \in Streams /\ Flows(up[l])
  BY OrderTypes DEF Pipelined
<1>2. CASE up'[l] = up[l]
  BY <1>1, <1>2
<1>3. ASSUME NEW x \in {Eof, Leave, Abort}, up'[l] = Append(up[l], x)
      PROVE  Flows(up'[l]) /\ Messages(up'[l]) \subseteq Messages(up[l])
  BY <1>1, <1>3, FlowSignals
<1>4. CASE up'[l] = up[l] \o <<Leave, Eof>>
  BY <1>1, <1>4, FlowLeaves
<1>5. CASE up[l] # <<>> /\ up'[l] = Tail(up[l])
  BY <1>1, <1>5, FlowTail
<1> QED
  BY <1>2, <1>3, <1>4, <1>5

(* Steps that leave the queues alone and put no request on a stream.        *)
LEMMA QuietStep ==
  ASSUME OrderInv, TypeOK', UNCHANGED <<sends, receives, matched>>,
         \A l \in Links :
           \/ up'[l] = up[l]
           \/ \E x \in {Eof, Leave, Abort} : up'[l] = Append(up[l], x)
           \/ up'[l] = up[l] \o <<Leave, Eof>>
           \/ up[l] # <<>> /\ up'[l] = Tail(up[l]),
         \A l \in Links : \A op \in Ops : next[l][op] <= next'[l][op],
         \A t \in Threads :
           /\ pc'[t] # "idle" => pc[t] # "idle" /\ call'[t] = call[t]
           /\ pc'[t] = "checked" => pc[t] = "checked"
  PROVE  OrderInv'
<1>1. TypeOK /\ Numbered /\ Pipelined
  BY DEF OrderInv
<1>2. \A l \in Links : Flows(up'[l]) /\ Messages(up'[l]) \subseteq Messages(up[l])
  BY <1>1, StreamsKept
<1>3. Numbered' /\ Pipelined'
  BY <1>1, <1>2, QuietOrder
<1>4. NothingLeftToMatch'
  BY DEF OrderInv, NothingLeftToMatch
<1>5. \A op \in Ops : \A k \in Rails : InTurn(op, k)'
  BY RailKept DEF OrderInv
<1> QED
  BY <1>3, <1>4, <1>5 DEF OrderInv

(* The threads of a rank submit in order.                                   *)
LEMMA ThreadsInOrder ==
  ASSUME OrderInv, TypeOK', NEW t \in Threads, ThreadStep(t)
  PROVE  OrderInv'
<1>1. TypeOK /\ Numbered /\ Pipelined /\ UNCHANGED <<sends, receives, matched>>
  BY DEF OrderInv, ThreadStep, Request, Enqueue, Return, Expire, ShutExpired, routers
<1>2. NothingLeftToMatch' /\ \A op \in Ops : \A k \in Rails : InTurn(op, k)'
  BY <1>1, RailKept DEF OrderInv, NothingLeftToMatch
<1>3. CASE Request(t)
  BY <1>1, <1>2, <1>3, RequestOrder DEF OrderInv
<1>4. CASE Enqueue(t)
  BY <1>1, <1>2, <1>4, EnqueueOrder DEF OrderInv
<1>5. \A l \in Links : \A op \in Ops : next[l][op] <= next[l][op]
  BY <1>1 DEF TypeOK
<1>6. CASE Return(t) \/ Expire(t)
  <2>1. UNCHANGED <<up, next>>
    BY <1>6 DEF Return, Expire, clients
  <2>2. \A u \in Threads :
          /\ pc'[u] # "idle" => pc[u] # "idle" /\ call'[u] = call[u]
          /\ pc'[u] = "checked" => pc[u] = "checked"
    BY <1>1, <1>6 DEF Return, Expire, TypeOK
  <2> QED
    BY <1>1, <1>5, <2>1, <2>2, QuietStep
<1>7. CASE ShutExpired(t)
  <2>1. next' = next /\ \A l \in Links : up'[l] = up[l] \/ up'[l] = Append(up[l], Eof)
    BY <1>7 DEF ShutExpired, ShutDown
  <2>2. \A u \in Threads :
          /\ pc'[u] # "idle" => pc[u] # "idle" /\ call'[u] = call[u]
          /\ pc'[u] = "checked" => pc[u] = "checked"
    BY <1>1, <1>7 DEF ShutExpired, TypeOK
  <2> QED
    BY <1>1, <1>5, <2>1, <2>2, QuietStep
<1> QED
  BY <1>3, <1>4, <1>6, <1>7 DEF ThreadStep

(* An abort, a drop of the session and a crash leave the order alone.       *)
LEMMA RanksInOrder ==
  ASSUME OrderInv, TypeOK', NEW r \in Ranks, RankStep(r)
  PROVE  OrderInv'
<1>1. TypeOK /\ UNCHANGED <<sends, receives, matched>>
  BY DEF OrderInv, RankStep, DropSession, Crash, AbortRail, routers
<1>2. \A l \in Links : \A op \in Ops : next[l][op] \in Nat
  BY <1>1 DEF TypeOK
<1>3. CASE DropSession(r)
  <2>1. UNCHANGED <<pc, call, next>> /\ \A l \in Links : up'[l] = up[l] \/ up'[l] = up[l] \o <<Leave, Eof>>
    BY <1>3 DEF DropSession, threads
  <2>2. \A l \in Links : \A op \in Ops : next[l][op] <= next'[l][op]
    BY <1>2, <2>1
  <2> QED
    BY <1>1, <2>1, <2>2, QuietStep
<1>4. CASE Crash(r)
  <2>1. next' = next /\ \A l \in Links : up'[l] = up[l] \/ up'[l] = Append(up[l], Eof)
    BY <1>4 DEF Crash
  <2>2. \A u \in Threads :
          /\ pc'[u] # "idle" => pc[u] # "idle" /\ call'[u] = call[u]
          /\ pc'[u] = "checked" => pc[u] = "checked"
    BY <1>4 DEF Crash
  <2>3. \A l \in Links : \A op \in Ops : next[l][op] <= next'[l][op]
    BY <1>2, <2>1
  <2> QED
    BY <1>1, <2>1, <2>2, <2>3, QuietStep
<1>5. ASSUME NEW k \in Rails, AbortRail(r, k) PROVE OrderInv'
  <2> DEFINE l == <<r, k>>
  <2>1. /\ next' = [next EXCEPT ![l]["Send"] = @ + 1]
        /\ up' = IF shut[l] THEN up ELSE [up EXCEPT ![l] = Append(@, Abort)]
        /\ UNCHANGED <<pc, call>>
    BY <1>5 DEF AbortRail, threads
  <2>2. l \in Links /\ "Send" \in Ops
    BY DEF Links, Ops
  <2> HIDE DEF l
  <2>3. \A m \in Links : \A op \in Ops :
          next'[m][op] = IF m = l /\ op = "Send" THEN next[m][op] + 1 ELSE next[m][op]
    BY <1>1, <2>1, <2>2 DEF TypeOK
  <2>4. \A m \in Links : \A op \in Ops : next[m][op] <= next'[m][op]
    BY <1>2, <2>3
  <2>5. \A m \in Links : up'[m] = up[m] \/ up'[m] = Append(up[m], Abort)
    BY <1>1, <2>1, <2>2 DEF TypeOK
  <2> QED
    BY <1>1, <2>1, <2>4, <2>5, QuietStep
<1> QED
  BY <1>3, <1>4, <1>5 DEF RankStep

(* A router that takes a frame keeps the order.                             *)
LEMMA RoutersInOrder ==
  ASSUME OrderInv, TypeOK', NEW l \in Links, RouterStep(l)
  PROVE  OrderInv'
<1>1. TypeOK /\ NothingLeftToMatch
  BY DEF OrderInv
<1>2. CASE RouteSend(l) \/ (DeliveryFails(l) /\ Head(up[l]).op = "Send")
  BY <1>1, <1>2, SendTurn, SendMatched DEF OrderInv
<1>3. CASE RouteReceive(l) \/ (DeliveryFails(l) /\ Head(up[l]).op = "Receive")
  BY <1>1, <1>3, ReceiveTurn, ReceiveMatched DEF OrderInv
<1>4. CASE \/ RouteHeartbeat(l) \/ RouteLeave(l) \/ RouteAbort(l)
           \/ WriteFails(l) \/ LinkClosed(l)
  <2>1. /\ UNCHANGED <<sends, receives, matched, pc, call, next>>
        /\ up[l] # <<>> /\ up' = [up EXCEPT ![l] = Tail(@)]
    BY <1>4 DEF RouteHeartbeat, RouteLeave, RouteAbort, WriteFails, LinkClosed, Incoming,
                routers, threads, clients
  <2>2. \A m \in Links : up'[m] = up[m] \/ (up[m] # <<>> /\ up'[m] = Tail(up[m]))
    BY <1>1, <2>1 DEF TypeOK
  <2>3. \A m \in Links : \A op \in Ops : next[m][op] <= next'[m][op]
    BY <1>1, <2>1 DEF TypeOK
  <2> QED
    BY <2>1, <2>2, <2>3, QuietStep
<1>5. DeliveryFails(l) => Head(up[l]).op \in {"Send", "Receive"}
  BY DEF DeliveryFails, Incoming
<1> QED
  BY <1>2, <1>3, <1>4, <1>5 DEF RouterStep

(* The invariant holds at first.                                            *)
LEMMA InitOrder == Init => OrderInv
<1> SUFFICES ASSUME Init PROVE OrderInv
  OBVIOUS
<1>1. TypeOK /\ NothingLeftToMatch
  BY InitTypes DEF Init, NothingLeftToMatch
<1>2. /\ \A k \in Rails : sends[k] = <<>> /\ receives[k] = <<>> /\ matched[k] = <<>>
      /\ \A l \in Links : up[l] = <<>>
      /\ \A t \in Threads : pc[t] = "idle"
      /\ matched \in [Rails -> Seq(Frames \X Frames)]
  BY DEF Init
<1>3. \A op \in Ops : \A k \in Rails :
        DOMAIN Queue(op, k) = {} /\ DOMAIN Done(op, k) = {} /\ Routed(op, k) = {}
  BY <1>2 DEF Queue, Done, Routed, Range
<1>4. \A l \in Links : DOMAIN up[l] = {} /\ RequestsOn(l) = {}
  BY <1>2 DEF RequestsOn, Messages, Range
<1>5. Numbered
  BY <1>2, <1>3, <1>4 DEF Numbered
<1>6. Pipelined
  BY <1>2, <1>4 DEF Pipelined, Flows
<1>7. \A op \in Ops : \A k \in Rails : InTurn(op, k)
  BY <1>3 DEF InTurn, Turn, InOrder, Before
<1> QED
  BY <1>1, <1>5, <1>6, <1>7 DEF OrderInv

(* Every step keeps the invariant.                                          *)
LEMMA NextOrder == OrderInv /\ [Next]_vars => OrderInv'
<1> SUFFICES ASSUME OrderInv, [Next]_vars PROVE OrderInv'
  OBVIOUS
<1>1. TypeOK /\ TypeOK'
  BY NextTypes DEF OrderInv
<1>2. ASSUME UNCHANGED <<sends, receives, matched, pc, call, next, up>> PROVE OrderInv'
  <2>1. \A m \in Links : \A op \in Ops : next[m][op] <= next'[m][op]
    BY <1>1, <1>2 DEF TypeOK
  <2> QED
    BY <1>1, <1>2, <2>1, QuietStep
<1>3. ASSUME NEW l \in Links, ReaderStep(l) \/ LeaseExpires(l) PROVE OrderInv'
  BY <1>2, <1>3 DEF ReaderStep, ReadReply, ReadEnd, LeaseExpires, routers, threads, clients
<1>4. CASE UNCHANGED vars
  BY <1>2, <1>4 DEF vars, routers, threads, clients
<1> QED
  BY <1>1, <1>3, <1>4, ThreadsInOrder, RanksInOrder, RoutersInOrder DEF Next

(* The order of the matched pairs is the order of their sends and of their  *)
(* receives.                                                                *)
LEMMA OrderImplies == OrderInv => NoOvertaking
<1> SUFFICES ASSUME OrderInv, NEW k \in Rails, NEW i \in DOMAIN matched[k],
                    NEW j \in DOMAIN matched[k], i < j
             PROVE  /\ Kin(matched[k][i][1], matched[k][j][1])
                         => matched[k][i][1].seq < matched[k][j][1].seq
                    /\ Kin(matched[k][i][2], matched[k][j][2])
                         => matched[k][i][2].seq < matched[k][j][2].seq
  BY DEF NoOvertaking, Kin
<1>1. InOrder(Done("Send", k)) /\ InOrder(Done("Receive", k))
  BY DEF OrderInv, InTurn, Turn, Ops
<1>2. /\ Done("Send", k) = [n \in DOMAIN matched[k] |-> matched[k][n][1]]
      /\ Done("Receive", k) = [n \in DOMAIN matched[k] |-> matched[k][n][2]]
  BY DEF Done
<1> QED
  BY <1>1, <1>2 DEF InOrder

(* Messages do not overtake each other: two sends of a rank to the same     *)
(* rank with the same tag, and two receives that ask for the same thing,    *)
(* are matched in the order in which they were submitted, whatever else the *)
(* threads, the routers and the failures do.                                *)
THEOREM MessagesInOrder == Spec => []NoOvertaking
<1>1. Init => OrderInv
  BY InitOrder
<1>2. OrderInv /\ [Next]_vars => OrderInv'
  BY NextOrder
<1>3. OrderInv => NoOvertaking
  BY OrderImplies
<1> QED
  BY <1>1, <1>2, <1>3, PTL DEF Spec

-----------------------------------------------------------------------------
(* Every thread is handed the response to its own request.                  *)

(* What is put on a stream towards a rank.                                  *)
LEMMA ReplyGrows ==
  ASSUME NEW s \in Replies, NEW x \in Responses \cup {Abort, Eof}
  PROVE  /\ Append(s, x) \in Replies
         /\ \A m \in Messages(Append(s, x)) : m \in Messages(s) \/ (m = x /\ x \in Responses)
<1>1. Append(s, x) \in Replies /\ Grown(s, Append(s, x), x)
  BY AppendGrows DEF Replies
<1>2. Range(Append(s, x)) = Range(s) \cup {x}
  BY <1>1, GrownRange
<1>3. Abort.op \notin Ops /\ Eof.op \notin Ops
  BY DEF Abort, Eof, Ops
<1> QED
  BY <1>1, <1>2, <1>3 DEF Messages

(* Put writes one response to one link.                                     *)
LEMMA PutReplies ==
  ASSUME NEW streams \in [Links -> Replies], NEW l \in Links, NEW x \in Responses
  PROVE  /\ Put(streams, l, x) \in [Links -> Replies]
         /\ \A n \in Links : \A m \in Messages(Put(streams, l, x)[n]) :
              m \in Messages(streams[n]) \/ (m = x /\ n = l)
<1>1. streams[l] \in Replies
  OBVIOUS
<1>2. /\ Append(streams[l], x) \in Replies
      /\ \A m \in Messages(Append(streams[l], x)) : m \in Messages(streams[l]) \/ m = x
  BY <1>1, ReplyGrows
<1>3. \A n \in Links : Put(streams, l, x)[n] = streams[n]
                         \/ (n = l /\ Put(streams, l, x)[n] = Append(streams[l], x))
  BY DEF Put
<1>4. Put(streams, l, x) \in [Links -> Replies]
  BY <1>2 DEF Put
<1> QED
  BY <1>2, <1>3, <1>4

(* StopRail tells every rank and brings no response.                        *)
LEMMA StopReplies ==
  ASSUME NEW streams \in [Links -> Replies], NEW k, StopRail(k, streams)
  PROVE  /\ down' \in [Links -> Replies]
         /\ \A n \in Links : RepliesOn(n)' \subseteq Messages(streams[n])
<1>1. ASSUME NEW n \in Links
      PROVE  /\ streams[n] \o <<Abort, Eof>> \in Replies
             /\ Messages(streams[n] \o <<Abort, Eof>>) \subseteq Messages(streams[n])
  <2>1. streams[n] \in Replies /\ Abort \in Responses \cup {Abort, Eof} /\ Eof \in Responses \cup {Abort, Eof}
    OBVIOUS
  <2>2. streams[n] \o <<Abort, Eof>> = Append(Append(streams[n], Abort), Eof)
    BY <2>1 DEF Replies
  <2>3. Abort \notin Responses /\ Eof \notin Responses
    BY DEF Abort, Eof, Responses, Ops
  <2>4. /\ Append(streams[n], Abort) \in Replies
        /\ Messages(Append(streams[n], Abort)) \subseteq Messages(streams[n])
    BY <2>1, <2>3, ReplyGrows
  <2>5. /\ Append(Append(streams[n], Abort), Eof) \in Replies
        /\ Messages(Append(Append(streams[n], Abort), Eof)) \subseteq Messages(Append(streams[n], Abort))
    BY <2>1, <2>3, <2>4, ReplyGrows
  <2> QED
    BY <2>2, <2>4, <2>5
<1>2. down' = [n \in Links |-> IF RailOf(n) = k /\ ~shut[n]
                               THEN streams[n] \o <<Abort, Eof>> ELSE streams[n]]
  BY DEF StopRail
<1>3. \A n \in Links : down'[n] = streams[n] \o <<Abort, Eof>> \/ down'[n] = streams[n]
  BY <1>2
<1>4. \A n \in Links : streams[n] \in Replies
  OBVIOUS
<1>5. down' \in [Links -> Replies]
  BY <1>1, <1>2, <1>4
<1> QED
  BY <1>1, <1>3, <1>5 DEF RepliesOn

(* Steps that begin no call: requests move from the threads to the streams  *)
(* and from the streams to the queue of receives.                           *)
LEMMA CallsKept ==
  ASSUME TypeOK, CallsKnown,
         \A t \in Threads : pc'[t] # "idle" => pc[t] # "idle" /\ call'[t] = call[t],
         \A l \in Links : \A f \in RequestsOn(l)' :
           f \in RequestsOn(l)
             \/ \E u \in Threads : pc[u] # "idle" /\ LinkOf(u) = l /\ f = call[u],
         \A k \in Rails : \A f \in Range(receives'[k]) :
           f \in Range(receives[k]) \/ f \in RequestsOn(<<f.source, k>>)
  PROVE  CallsKnown'
<1> SUFFICES ASSUME NEW t \in Threads, pc'[t] # "idle"
             PROVE  /\ \A u \in Threads : pc'[u] # "idle" /\ LinkOf(u)' = LinkOf(t)'
                                            /\ SameRequest(t, call[u])' => u = t
                    /\ \A f \in RequestsOn(LinkOf(t))' : SameRequest(t, f)' => f = call'[t]
                    /\ \A f \in Range(receives'[call'[t].rail]) :
                         f.source = RankOf[t] /\ SameRequest(t, f)' => f = call'[t]
  BY DEF CallsKnown
<1>1. \A u \in Threads : pc'[u] # "idle" => pc[u] # "idle" /\ call'[u] = call[u] /\ LinkOf(u)' = LinkOf(u)
  BY DEF LinkOf
<1>2. /\ LinkOf(t) \in Links /\ call[t].rail \in Rails /\ LinkOf(t) = <<RankOf[t], call[t].rail>>
  BY <1>1, LinkType DEF LinkOf, Frames
<1>3. \A f : SameRequest(t, f)' <=> SameRequest(t, f)
  BY <1>1 DEF SameRequest
<1>4. /\ \A u \in Threads : pc[u] # "idle" /\ LinkOf(u) = LinkOf(t) /\ SameRequest(t, call[u])
                               => u = t
      /\ \A f \in RequestsOn(LinkOf(t)) : SameRequest(t, f) => f = call[t]
      /\ \A f \in Range(receives[call[t].rail]) :
           f.source = RankOf[t] /\ SameRequest(t, f) => f = call[t]
  BY <1>1 DEF CallsKnown
<1>5. ASSUME NEW u \in Threads, pc'[u] # "idle", LinkOf(u)' = LinkOf(t)', SameRequest(t, call[u])'
      PROVE  u = t
  <2>1. SameRequest(t, call[u])
    BY <1>1, <1>5 DEF SameRequest
  <2> QED
    BY <2>1, <1>1, <1>4, <1>5
<1>6. ASSUME NEW f \in RequestsOn(LinkOf(t))', SameRequest(t, f)' PROVE f = call'[t]
  <2>1. f \in RequestsOn(LinkOf(t))
          \/ \E u \in Threads : pc[u] # "idle" /\ LinkOf(u) = LinkOf(t) /\ f = call[u]
    <3>1. LinkOf(t)' = LinkOf(t)
      BY <1>1
    <3>2. f \in Messages(up'[LinkOf(t)])
      BY <1>6, <3>1 DEF RequestsOn
    <3> QED
      BY <3>2, <1>2 DEF RequestsOn
  <2>2. SameRequest(t, f)
    BY <1>3, <1>6
  <2> QED
    BY <2>1, <2>2, <1>1, <1>4
<1>7. ASSUME NEW f \in Range(receives'[call'[t].rail]), f.source = RankOf[t], SameRequest(t, f)'
      PROVE  f = call'[t]
  <2>1. f \in Range(receives[call[t].rail]) \/ f \in RequestsOn(LinkOf(t))
    BY <1>1, <1>2, <1>7
  <2>2. SameRequest(t, f)
    BY <1>3, <1>7
  <2> QED
    BY <2>1, <2>2, <1>1, <1>4, <1>7
<1> QED
  BY <1>5, <1>6, <1>7

(* Steps that begin no call: a new response fits the call it answers.       *)
LEMMA RepliesKept ==
  ASSUME TypeOK, TypeOK', RepliesFit, down' \in [Links -> Replies],
         \A t \in Threads : pc'[t] # "idle" => pc[t] # "idle" /\ call'[t] = call[t],
         \A l \in Links : \A op \in Ops : next[l][op] <= next'[l][op],
         \A l \in Links : \A m \in RepliesOn(l)' :
           \/ m \in RepliesOn(l)
           \/ /\ m.seq < next[l][m.op]
              /\ \A t \in Threads : pc[t] # "idle" /\ LinkOf(t) = l /\ SameRequest(t, m)
                                      => Fits(m.from, call[t])
  PROVE  RepliesFit'
<1> SUFFICES ASSUME NEW l \in Links, NEW m \in RepliesOn(l)'
             PROVE  /\ m.seq < next'[l][m.op]
                    /\ \A t \in Threads : pc'[t] # "idle" /\ LinkOf(t)' = l /\ SameRequest(t, m)'
                                            => Fits(m.from, call[t])'
  BY DEF RepliesFit
<1>1. m \in Responses
  <2>1. down'[l] \in Seq(Responses \cup {Abort, Eof})
    BY DEF Replies
  <2>2. m \in Range(down'[l]) /\ m.op \in Ops
    BY DEF RepliesOn, Messages
  <2>3. m \in Responses \cup {Abort, Eof}
    BY <2>1, <2>2 DEF Range
  <2> QED
    BY <2>2, <2>3 DEF Abort, Eof, Ops
<1>2. m.op \in Ops /\ m.seq \in Nat
  BY <1>1 DEF Responses
<1>3. /\ m.seq < next[l][m.op]
      /\ \A t \in Threads : pc[t] # "idle" /\ LinkOf(t) = l /\ SameRequest(t, m) => Fits(m.from, call[t])
  BY DEF RepliesFit
<1>4. next[l][m.op] \in Nat /\ next'[l][m.op] \in Nat /\ next[l][m.op] <= next'[l][m.op]
  BY <1>2 DEF TypeOK
<1>5. m.seq < next'[l][m.op]
  BY <1>2, <1>3, <1>4
<1>6. ASSUME NEW t \in Threads, pc'[t] # "idle", LinkOf(t)' = l, SameRequest(t, m)'
      PROVE  Fits(m.from, call[t])'
  <2>1. pc[t] # "idle" /\ call'[t] = call[t]
    BY <1>6
  <2>2. LinkOf(t) = l /\ SameRequest(t, m)
    BY <1>6, <2>1 DEF LinkOf, SameRequest
  <2>3. Fits(m.from, call[t])
    BY <1>3, <2>1, <2>2
  <2> QED
    BY <2>1, <2>3 DEF Fits, Matches
<1> QED
  BY <1>5, <1>6

(* The number of a new call is that of no other call, request or response.  *)
LEMMA RequestKnown ==
  ASSUME OrderInv, OrderInv', CallsKnown, RepliesFit, NEW t \in Threads, Request(t)
  PROVE  CallsKnown' /\ RepliesFit'
<1>1. TypeOK /\ TypeOK' /\ Numbered /\ Numbered'
  BY DEF OrderInv
<1>2. /\ pc[t] = "idle" /\ UNCHANGED <<up, down, receives>>
      /\ \A l \in Links : RequestsOn(l)' = RequestsOn(l) /\ RepliesOn(l)' = RepliesOn(l)
  BY DEF Request, routers, RequestsOn, RepliesOn
<1>3. \A l \in Links : \A op \in Ops : next[l][op] \in Nat
  BY <1>1 DEF TypeOK
<1>4. CASE UNCHANGED <<pc, call, next>>
  <2>1. CallsKnown'
    BY <1>1, <1>2, <1>4, CallsKept
  <2>2. \A l \in Links : \A op \in Ops : next[l][op] <= next'[l][op]
    BY <1>3, <1>4
  <2>3. down' \in [Links -> Replies]
    BY <1>2 DEF RepliesFit
  <2> QED
    BY <1>1, <1>2, <1>4, <2>1, <2>2, <2>3, RepliesKept
<1>5. ASSUME NEW c \in Operations, NEW l \in Links, l = <<RankOf[t], c.rail>>,
             pc' = [pc EXCEPT ![t] = "checked"],
             call' = [call EXCEPT ![t] =
               [op |-> c.op, seq |-> next[l][c.op], rail |-> c.rail, source |-> RankOf[t],
                peer |-> c.peer, tag |-> c.tag, contract |-> c.contract]],
             next' = [next EXCEPT ![l][c.op] = @ + 1]
      PROVE  CallsKnown' /\ RepliesFit'
  <2>1. /\ call'[t].op = c.op /\ call'[t].seq = next[l][c.op] /\ call'[t].rail = c.rail
        /\ \A u \in Threads \ {t} : pc'[u] = pc[u] /\ call'[u] = call[u] /\ LinkOf(u)' = LinkOf(u)
    BY <1>1, <1>5 DEF TypeOK, LinkOf
  <2>2. LinkOf(t)' = l /\ c.op \in Ops /\ c.rail \in Rails
    BY <1>5, <2>1 DEF LinkOf, Operations
  <2>3. \A m \in Links : \A op \in Ops :
          next'[m][op] = IF m = l /\ op = c.op THEN next[m][op] + 1 ELSE next[m][op]
    <3>1. next' = [next EXCEPT ![l][c.op] = @ + 1] /\ next \in [Links -> [Ops -> Nat]]
      BY <1>1, <1>5 DEF TypeOK
    <3>2. c.op \in Ops
      BY <2>2
    <3> QED
      BY <3>1, <3>2
  <2>4. \A m \in Links : \A op \in Ops : next[m][op] <= next'[m][op]
    BY <1>3, <2>3
  <2>5. \A n \in Nat : ~(n < n)
    OBVIOUS
  <2>6. next[l][c.op] \in Nat
    BY <1>3, <2>2
  <2>7. ASSUME NEW u \in Threads \ {t}, pc'[u] # "idle", LinkOf(u)' = l
        PROVE  ~(call'[u].op = c.op /\ call'[u].seq = next[l][c.op])
    <3>1. pc[u] # "idle" /\ LinkOf(u) = l /\ call'[u] = call[u]
      BY <2>1, <2>7
    <3>2. call[u].seq < next[l][call[u].op]
      BY <3>1, <1>1 DEF Numbered
    <3> QED
      BY <3>1, <3>2, <2>5, <2>6
  <2>8. ASSUME NEW f \in RequestsOn(l) PROVE ~(f.op = c.op /\ f.seq = next[l][c.op])
    <3>1. f.seq < next[l][f.op]
      BY <1>1 DEF Numbered
    <3> QED
      BY <3>1, <2>5, <2>6
  <2>9. ASSUME NEW f \in Range(receives[c.rail]), f.source = RankOf[t]
        PROVE  ~(f.op = c.op /\ f.seq = next[l][c.op])
    <3>1. f \in Routed("Receive", c.rail) /\ "Receive" \in Ops
      BY DEF Routed, Queue, Ops
    <3>2. f.op = "Receive" /\ f.seq < next[<<f.source, c.rail>>]["Receive"]
      BY <3>1, <2>2, <1>1 DEF Numbered
    <3>3. f.seq < next[l][f.op]
      BY <3>2, <1>5, <2>9
    <3> QED
      BY <3>3, <2>5, <2>6
  <2>10. ASSUME NEW u \in Threads, pc'[u] # "idle"
         PROVE  /\ \A v \in Threads : pc'[v] # "idle" /\ LinkOf(v)' = LinkOf(u)'
                                        /\ SameRequest(u, call[v])' => v = u
                /\ \A f \in RequestsOn(LinkOf(u))' : SameRequest(u, f)' => f = call'[u]
                /\ \A f \in Range(receives'[call'[u].rail]) :
                     f.source = RankOf[u] /\ SameRequest(u, f)' => f = call'[u]
    <3>1. CASE u = t
      <4>1. RequestsOn(LinkOf(u))' = RequestsOn(l)
        BY <3>1, <2>2, <1>2 DEF RequestsOn
      <4>2. \A f : SameRequest(t, f)' <=> f.op = c.op /\ f.seq = next[l][c.op]
        BY <2>1 DEF SameRequest
      <4>3. \A v \in Threads : SameRequest(t, call[v])' <=>
                                 call'[v].op = c.op /\ call'[v].seq = next[l][c.op]
        BY <2>1 DEF SameRequest
      <4>4. \A v \in Threads : pc'[v] # "idle" /\ LinkOf(v)' = l /\ SameRequest(t, call[v])' => v = t
        BY <4>3, <2>7
      <4>5. \A f \in RequestsOn(l) : ~SameRequest(t, f)'
        BY <4>2, <2>8
      <4>6. \A f \in Range(receives[c.rail]) : f.source = RankOf[t] => ~SameRequest(t, f)'
        BY <4>2, <2>9
      <4> QED
        BY <3>1, <4>1, <4>4, <4>5, <4>6, <2>1, <2>2, <1>2
    <3>2. CASE u # t
      <4>1. pc[u] # "idle" /\ call'[u] = call[u] /\ LinkOf(u)' = LinkOf(u)
        BY <3>2, <2>1, <2>10
      <4>2. /\ \A v \in Threads : pc[v] # "idle" /\ LinkOf(v) = LinkOf(u) /\ SameRequest(u, call[v])
                                    => v = u
            /\ \A f \in RequestsOn(LinkOf(u)) : SameRequest(u, f) => f = call[u]
            /\ \A f \in Range(receives[call[u].rail]) :
                 f.source = RankOf[u] /\ SameRequest(u, f) => f = call[u]
        BY <4>1 DEF CallsKnown
      <4>3. ASSUME NEW v \in Threads, pc'[v] # "idle", LinkOf(v)' = LinkOf(u)',
                   SameRequest(u, call[v])'
            PROVE  v = u
        <5>1. call'[v].op = call'[u].op /\ call'[v].seq = call'[u].seq
          BY <4>3 DEF SameRequest
        <5>2. CASE v = t
          BY <5>1, <5>2, <3>2, <4>3, <2>1, <2>2, <2>7, <2>10
        <5>3. CASE v # t
          <6>1. pc[v] # "idle" /\ call'[v] = call[v] /\ LinkOf(v) = LinkOf(u)
            BY <5>3, <4>1, <4>3, <2>1
          <6>2. SameRequest(u, call[v])
            BY <5>1, <6>1, <4>1 DEF SameRequest
          <6> QED
            BY <6>1, <6>2, <4>2
        <5> QED
          BY <5>2, <5>3
      <4>4. RequestsOn(LinkOf(u))' = RequestsOn(LinkOf(u))
        BY <4>1, <1>2 DEF RequestsOn
      <4>5. \A f : SameRequest(u, f)' <=> SameRequest(u, f)
        BY <4>1 DEF SameRequest
      <4> QED
        BY <4>1, <4>2, <4>3, <4>4, <4>5, <1>2
    <3> QED
      BY <3>1, <3>2
  <2>11. CallsKnown'
    BY <2>10 DEF CallsKnown
  <2>12. ASSUME NEW n \in Links, NEW m \in RepliesOn(n)'
         PROVE  /\ m.seq < next'[n][m.op]
                /\ \A u \in Threads : pc'[u] # "idle" /\ LinkOf(u)' = n /\ SameRequest(u, m)'
                                        => Fits(m.from, call[u])'
    <3>1. m \in RepliesOn(n) /\ m.op \in Ops
      BY <1>2 DEF RepliesOn, Messages
    <3>2. m \in Responses
      <4>1. m \in Responses \cup {Abort, Eof}
        <5>1. down[n] \in Seq(Responses \cup {Abort, Eof}) /\ m \in Range(down[n])
          BY <3>1 DEF RepliesFit, Replies, RepliesOn, Messages
        <5> QED
          BY <5>1 DEF Range
      <4> QED
        BY <3>1, <4>1 DEF Abort, Eof, Ops
    <3>3. /\ m.seq < next[n][m.op] /\ m.seq \in Nat
          /\ \A u \in Threads : pc[u] # "idle" /\ LinkOf(u) = n /\ SameRequest(u, m)
                                  => Fits(m.from, call[u])
      BY <3>1, <3>2 DEF RepliesFit, Responses
    <3>4. m.seq < next'[n][m.op]
      BY <3>1, <3>3, <1>3, <2>3
    <3>5. ASSUME NEW u \in Threads, pc'[u] # "idle", LinkOf(u)' = n, SameRequest(u, m)'
          PROVE  Fits(m.from, call[u])'
      <4>1. m.op = call'[u].op /\ m.seq = call'[u].seq
        BY <3>5 DEF SameRequest
      <4>2. u # t
        BY <4>1, <3>3, <3>5, <2>1, <2>2, <2>5, <2>6
      <4>3. pc[u] # "idle" /\ call'[u] = call[u] /\ LinkOf(u) = n
        BY <4>2, <3>5, <2>1
      <4>4. SameRequest(u, m)
        BY <4>1, <4>3 DEF SameRequest
      <4>5. Fits(m.from, call[u])
        BY <4>3, <4>4, <3>3
      <4> QED
        BY <4>3, <4>5 DEF Fits, Matches
    <3> QED
      BY <3>4, <3>5
  <2>13. down' \in [Links -> Replies]
    BY <1>2 DEF RepliesFit
  <2> QED
    BY <2>11, <2>12, <2>13 DEF RepliesFit
<1>6. PICK c \in Script(t, calls[t] + 1) :
        LET l == <<RankOf[t], c.rail>> IN
        /\ lock[l] = Nobody
        /\ IF Refused(RankOf[t])
           THEN UNCHANGED <<pc, call, lock, next>>
           ELSE /\ pc' = [pc EXCEPT ![t] = "checked"]
                /\ call' = [call EXCEPT ![t] =
                     [op |-> c.op, seq |-> next[l][c.op], rail |-> c.rail,
                      source |-> RankOf[t],
                      peer |-> c.peer, tag |-> c.tag, contract |-> c.contract]]
                /\ lock' = [lock EXCEPT ![l] = t]
                /\ next' = [next EXCEPT ![l][c.op] = @ + 1]
  BY DEF Request
<1>7. c \in Operations
  <2>1. calls[t] + 1 \in 1 .. MaxCalls
    BY <1>1, P2pAssumption DEF TypeOK, Request
  <2> QED
    BY <2>1, <1>6, ScriptAssumption
<1>8. <<RankOf[t], c.rail>> \in Links
  BY <1>7, P2pAssumption DEF Links, Operations
<1> QED
  BY <1>4, <1>5, <1>6, <1>7, <1>8

(* The response m on the link l answers only requests it fits.              *)
Answering(l, m) ==
  /\ m.seq < next[l][m.op]
  /\ \A t \in Threads : pc[t] # "idle" /\ LinkOf(t) = l /\ SameRequest(t, m) => Fits(m.from, call[t])

(* An acknowledgement answers a send or a heartbeat of its link.            *)
LEMMA AcknowledgementFits ==
  ASSUME OrderInv, NEW l \in Links, NEW h \in RequestsOn(l), h.op # "Receive"
  PROVE  Response(h, NoCall) \in Responses /\ Answering(l, Response(h, NoCall))
<1>1. h \in Frames /\ h.seq < next[l][h.op]
  BY OrderTypes DEF OrderInv, Numbered
<1>2. h.op \in Ops /\ h.seq \in Nat
  BY <1>1 DEF Frames
<1>3. /\ Response(h, NoCall).op = h.op /\ Response(h, NoCall).seq = h.seq
      /\ Response(h, NoCall) \in Responses
  BY <1>2 DEF Response, Responses
<1> QED
  BY <1>1, <1>3 DEF Answering, SameRequest, Fits

(* A delivery answers the receive that the send matches, whether the        *)
(* receive v was queued or has just come.                                   *)
LEMMA DeliveryFits ==
  ASSUME OrderInv, CallsKnown, NEW k \in Rails, NEW v, NEW send \in Frames,
         v \in Range(receives[k]) \/ (v.rail = k /\ v \in RequestsOn(<<v.source, k>>)),
         v \in Frames, Matches(send, v), send.contract = v.contract
  PROVE  /\ Response(v, send) \in Responses /\ <<v.source, v.rail>> \in Links
         /\ Answering(<<v.source, v.rail>>, Response(v, send))
<1>1. v.op \in Ops /\ v.seq \in Nat /\ v.source \in Ranks /\ <<v.source, k>> \in Links
  BY DEF Frames, Links
<1>2. v.rail = k /\ v.seq < next[<<v.source, k>>][v.op]
  <2>1. CASE v \in Range(receives[k])
    <3>1. v \in Routed("Receive", k) /\ "Receive" \in Ops
      BY <2>1 DEF Routed, Queue, Ops
    <3> QED
      BY <3>1 DEF OrderInv, Numbered
  <2>2. CASE v.rail = k /\ v \in RequestsOn(<<v.source, k>>)
    BY <1>1, <2>2 DEF OrderInv, Numbered
  <2> QED
    BY <2>1, <2>2
<1>3. /\ Response(v, send).op = v.op /\ Response(v, send).seq = v.seq
      /\ Response(v, send).from = send /\ Response(v, send) \in Responses
  BY <1>1 DEF Response, Responses
<1>4. ASSUME NEW t \in Threads, pc[t] # "idle", LinkOf(t) = <<v.source, k>>,
             SameRequest(t, Response(v, send))
      PROVE  Fits(send, call[t])
  <2>1. SameRequest(t, v) /\ RankOf[t] = v.source /\ call[t].rail = k
    BY <1>3, <1>4 DEF SameRequest, LinkOf
  <2>2. v = call[t]
    BY <1>4, <2>1 DEF CallsKnown
  <2> QED
    BY <2>2 DEF Fits
<1> QED
  BY <1>1, <1>2, <1>3, <1>4 DEF Answering

(* What a router writes are responses that fit.                             *)
LEMMA WritesFit ==
  ASSUME OrderInv, CallsKnown, RepliesFit, NEW l \in Links, RouterStep(l)
  PROVE  /\ down' \in [Links -> Replies]
         /\ \A n \in Links : \A m \in RepliesOn(n)' : m \in RepliesOn(n) \/ Answering(n, m)
<1> DEFINE k == RailOf(l)
           h == Head(up[l])
<1>1. TypeOK /\ Numbered /\ Pipelined /\ k \in Rails /\ k = l[2] /\ down \in [Links -> Replies]
  BY DEF OrderInv, RepliesFit, RailOf, Links
<1>2. up[l] # <<>>
  BY DEF RouterStep, RouteSend, RouteReceive, RouteHeartbeat, RouteLeave, RouteAbort,
         WriteFails, DeliveryFails, LinkClosed, Incoming
<1>3. h \in Range(up[l]) /\ sends[k] \in Seq(Frames) /\ receives[k] \in Seq(Frames)
  BY <1>1, <1>2, OrderTypes, FlowTail DEF Pipelined, TypeOK
<1>4. ASSUME h.op \in Ops
      PROVE  /\ h \in RequestsOn(l) /\ h \in Frames
             /\ h.source = l[1] /\ h.rail = k /\ <<h.source, h.rail>> = l
  <2>1. h \in RequestsOn(l)
    BY <1>3, <1>4 DEF RequestsOn, Messages
  <2> HIDE DEF h
  <2>2. h \in Frames /\ h.source = l[1] /\ h.rail = l[2] /\ l = <<l[1], l[2]>>
    BY <1>1, <2>1, OrderTypes DEF Numbered, Links
  <2> QED
    BY <1>1, <2>1, <2>2
<1>5. ASSUME NEW streams \in [Links -> Replies], StopRail(k, streams),
             \A n \in Links : \A m \in Messages(streams[n]) : m \in RepliesOn(n) \/ Answering(n, m)
      PROVE  /\ down' \in [Links -> Replies]
             /\ \A n \in Links : \A m \in RepliesOn(n)' : m \in RepliesOn(n) \/ Answering(n, m)
  BY <1>5, StopReplies
<1>6. ASSUME NEW streams \in [Links -> Replies], NEW x \in Responses, NEW n \in Links,
             Answering(n, x),
             \A o \in Links : \A m \in Messages(streams[o]) : m \in RepliesOn(o) \/ Answering(o, m)
      PROVE  /\ Put(streams, n, x) \in [Links -> Replies]
             /\ \A o \in Links : \A m \in Messages(Put(streams, n, x)[o]) :
                  m \in RepliesOn(o) \/ Answering(o, m)
  <2>1. /\ Put(streams, n, x) \in [Links -> Replies]
        /\ \A o \in Links : \A m \in Messages(Put(streams, n, x)[o]) :
             m \in Messages(streams[o]) \/ (m = x /\ o = n)
    BY PutReplies
  <2> QED
    BY <1>6, <2>1, Zenon
<1>7. \A n \in Links : \A m \in Messages(down[n]) : m \in RepliesOn(n) \/ Answering(n, m)
  BY DEF RepliesOn
<1>8. ASSUME h.op \in {"Send", "Heartbeat"}
      PROVE  /\ Acknowledged(l, h) \in [Links -> Replies]
             /\ \A n \in Links : \A m \in Messages(Acknowledged(l, h)[n]) :
                  m \in RepliesOn(n) \/ Answering(n, m)
  <2>1. Response(h, NoCall) \in Responses /\ Answering(l, Response(h, NoCall))
    BY <1>4, <1>8, AcknowledgementFits DEF Ops
  <2> QED
    BY <1>1, <1>6, <1>7, <2>1 DEF Acknowledged
<1>9. ASSUME NEW streams \in [Links -> Replies], down' = streams,
             \A n \in Links : \A m \in Messages(streams[n]) : m \in RepliesOn(n) \/ Answering(n, m)
      PROVE  /\ down' \in [Links -> Replies]
             /\ \A n \in Links : \A m \in RepliesOn(n)' : m \in RepliesOn(n) \/ Answering(n, m)
  BY <1>9 DEF RepliesOn
<1>10. CASE RouteSend(l)
  <2>1. h.op = "Send"
    BY <1>10 DEF RouteSend, Incoming
  <2> DEFINE i == QueuedReceive(k, h)
             v == receives[k][i]
  <2>2. \/ down' = Acknowledged(l, h)
        \/ StopRail(k, Acknowledged(l, h))
        \/ i # 0 /\ h.contract = v.contract /\ down' = Deliver(Acknowledged(l, h), h, v)
    BY <1>10 DEF RouteSend
  <2>3. ASSUME i # 0, h.contract = v.contract, down' = Deliver(Acknowledged(l, h), h, v)
        PROVE  /\ down' \in [Links -> Replies]
               /\ \A n \in Links : \A m \in RepliesOn(n)' : m \in RepliesOn(n) \/ Answering(n, m)
    <3>1. i \in 1 .. Len(receives[k]) /\ Matches(h, v)
      BY <1>1, <1>3, <2>3, QueuedReceiveFinds
    <3> HIDE DEF i
    <3>2. v \in Frames /\ v \in Range(receives[k])
      BY <1>3, <3>1 DEF Range
    <3>3. h \in Frames
      BY <1>4, <2>1 DEF Ops
    <3> HIDE DEF v, h, k
    <3>4. /\ Response(v, h) \in Responses /\ <<v.source, v.rail>> \in Links
          /\ Answering(<<v.source, v.rail>>, Response(v, h))
      BY <1>1, <2>3, <3>1, <3>2, <3>3, DeliveryFits
    <3>5. /\ Acknowledged(l, h) \in [Links -> Replies]
          /\ \A n \in Links : \A m \in Messages(Acknowledged(l, h)[n]) :
               m \in RepliesOn(n) \/ Answering(n, m)
      BY <1>8, <2>1
    <3>6. down' = Put(Acknowledged(l, h), <<v.source, v.rail>>, Response(v, h))
      BY <2>3 DEF Deliver
    <3> HIDE DEF Acknowledged
    <3> QED
      BY <1>6, <1>9, <3>4, <3>5, <3>6
  <2> QED
    BY <1>5, <1>8, <1>9, <2>1, <2>2, <2>3
<1>11. CASE RouteReceive(l)
  <2>1. h.op = "Receive"
    BY <1>11 DEF RouteReceive, Incoming
  <2> DEFINE i == QueuedSend(k, h)
             s == sends[k][i]
  <2>2. \/ down' = down
        \/ StopRail(k, down)
        \/ i # 0 /\ s.contract = h.contract /\ down' = Deliver(down, s, h)
    BY <1>11 DEF RouteReceive
  <2>3. ASSUME i # 0, s.contract = h.contract, down' = Deliver(down, s, h)
        PROVE  /\ down' \in [Links -> Replies]
               /\ \A n \in Links : \A m \in RepliesOn(n)' : m \in RepliesOn(n) \/ Answering(n, m)
    <3>1. i \in 1 .. Len(sends[k]) /\ Matches(s, h)
      BY <1>1, <1>3, <2>3, QueuedSendFinds
    <3> HIDE DEF i
    <3>2. s \in Frames
      BY <1>3, <3>1
    <3>3. h \in Frames /\ h.rail = k /\ h \in RequestsOn(<<h.source, k>>)
      BY <1>4, <2>1 DEF Ops
    <3> HIDE DEF s, h, k
    <3>4. /\ Response(h, s) \in Responses /\ <<h.source, h.rail>> \in Links
          /\ Answering(<<h.source, h.rail>>, Response(h, s))
      BY <1>1, <2>3, <3>1, <3>2, <3>3, DeliveryFits
    <3>5. down' = Put(down, <<h.source, h.rail>>, Response(h, s))
      BY <2>3 DEF Deliver
    <3> QED
      BY <1>1, <1>6, <1>7, <1>9, <3>4, <3>5
  <2> QED
    BY <1>1, <1>5, <1>7, <1>9, <2>2, <2>3
<1>12. CASE RouteHeartbeat(l)
  <2>1. h.op = "Heartbeat" /\ down' = Acknowledged(l, h)
    BY <1>12 DEF RouteHeartbeat, Incoming, Acknowledged
  <2> QED
    BY <1>8, <1>9, <2>1
<1>13. CASE DeliveryFails(l)
  <2>1. (h.op = "Send" /\ StopRail(k, Acknowledged(l, h))) \/ StopRail(k, down)
    BY <1>13 DEF DeliveryFails
  <2> QED
    BY <1>1, <1>5, <1>7, <1>8, <2>1
<1>14. CASE RouteLeave(l) \/ RouteAbort(l) \/ WriteFails(l) \/ LinkClosed(l)
  <2>1. down' = down \/ StopRail(k, down)
    BY <1>14 DEF RouteLeave, RouteAbort, WriteFails, LinkClosed
  <2> QED
    BY <1>1, <1>5, <1>7, <1>9, <2>1
<1> QED
  BY <1>10, <1>11, <1>12, <1>13, <1>14 DEF RouterStep

(* A router moves a request from a stream to a queue at most.               *)
LEMMA RoutersKnown ==
  ASSUME OrderInv, OrderInv', CallsKnown, RepliesFit, NEW l \in Links, RouterStep(l)
  PROVE  CallsKnown' /\ RepliesFit'
<1> DEFINE k == RailOf(l)
           h == Head(up[l])
<1>1. TypeOK /\ TypeOK' /\ Numbered /\ Pipelined /\ k \in Rails /\ k = l[2]
  BY DEF OrderInv, RailOf, Links
<1>2. /\ up[l] # <<>> /\ up' = [up EXCEPT ![l] = Tail(@)]
      /\ UNCHANGED <<pc, call, next>>
  BY DEF RouterStep, RouteSend, RouteReceive, RouteHeartbeat, RouteLeave, RouteAbort,
         WriteFails, DeliveryFails, LinkClosed, Incoming, threads, clients
<1>3. \A m \in Links : up'[m] = up[m] \/ (up[m] # <<>> /\ up'[m] = Tail(up[m]))
  BY <1>1, <1>2 DEF TypeOK
<1>4. \A m \in Links : RequestsOn(m)' \subseteq RequestsOn(m)
  BY <1>1, <1>3, StreamsKept DEF RequestsOn
<1>5. h \in Range(up[l]) /\ sends[k] \in Seq(Frames) /\ receives[k] \in Seq(Frames)
  BY <1>1, <1>2, OrderTypes, FlowTail DEF Pipelined, TypeOK
<1>6. \/ receives' = receives
      \/ h.op = "Receive" /\ receives' = [receives EXCEPT ![k] = Append(@, h)]
      \/ /\ QueuedReceive(k, h) # 0
         /\ receives' = [receives EXCEPT ![k] = RemoveAt(@, QueuedReceive(k, h))]
  BY DEF RouterStep, RouteSend, RouteReceive, RouteHeartbeat, RouteLeave, RouteAbort,
         WriteFails, DeliveryFails, LinkClosed, Incoming, routers
<1>7. ASSUME NEW m \in Rails, NEW f \in Range(receives'[m])
      PROVE  f \in Range(receives[m]) \/ f \in RequestsOn(<<f.source, m>>)
  <2>1. CASE receives' = receives
    BY <2>1
  <2>2. CASE h.op = "Receive" /\ receives' = [receives EXCEPT ![k] = Append(@, h)]
    <3>1. h \in RequestsOn(l)
      BY <1>5, <2>2 DEF RequestsOn, Messages, Ops
    <3>2. h \in Frames /\ <<h.source, k>> = l
      BY <1>1, <3>1, OrderTypes DEF Numbered, Links
    <3>3. Range(Append(receives[k], h)) = Range(receives[k]) \cup {h}
      BY <1>5, <3>2, AppendGrows, GrownRange
    <3>4. receives'[m] = IF m = k THEN Append(receives[k], h) ELSE receives[m]
      BY <1>1, <2>2 DEF TypeOK
    <3> QED
      BY <3>1, <3>2, <3>3, <3>4
  <2>3. CASE /\ QueuedReceive(k, h) # 0
             /\ receives' = [receives EXCEPT ![k] = RemoveAt(@, QueuedReceive(k, h))]
    <3>1. QueuedReceive(k, h) \in 1 .. Len(receives[k])
      BY <1>1, <1>5, <2>3, QueuedReceiveFinds
    <3>2. Range(RemoveAt(receives[k], QueuedReceive(k, h))) \subseteq Range(receives[k])
      BY <1>5, <3>1, RemovalShrinks, ShrunkRange
    <3>3. receives'[m] = IF m = k THEN RemoveAt(receives[k], QueuedReceive(k, h)) ELSE receives[m]
      BY <1>1, <2>3 DEF TypeOK
    <3> QED
      BY <3>2, <3>3
  <2> QED
    BY <1>6, <2>1, <2>2, <2>3
<1>8. CallsKnown'
  BY <1>1, <1>2, <1>4, <1>7, CallsKept
<1>9. \A m \in Links : \A op \in Ops : next[m][op] <= next'[m][op]
  BY <1>1, <1>2 DEF TypeOK
<1>10. /\ down' \in [Links -> Replies]
       /\ \A n \in Links : \A m \in RepliesOn(n)' :
            \/ m \in RepliesOn(n)
            \/ /\ m.seq < next[n][m.op]
               /\ \A t \in Threads : pc[t] # "idle" /\ LinkOf(t) = n /\ SameRequest(t, m)
                                       => Fits(m.from, call[t])
  BY WritesFit DEF Answering
<1> QED
  BY <1>1, <1>2, <1>8, <1>9, <1>10, RepliesKept

(* A stream towards a rank that loses its head or ends brings no response.  *)
LEMMA RepliesShrink ==
  ASSUME RepliesFit, down' = [l \in Links |-> down'[l]],
         \A l \in Links : \/ down'[l] = down[l] \/ down'[l] = Append(down[l], Eof)
                          \/ down[l] # <<>> /\ down'[l] = Tail(down[l])
  PROVE  down' \in [Links -> Replies] /\ \A l \in Links : RepliesOn(l)' \subseteq RepliesOn(l)
<1>1. ASSUME NEW l \in Links PROVE down'[l] \in Replies /\ RepliesOn(l)' \subseteq RepliesOn(l)
  <2>1. down[l] \in Replies
    BY DEF RepliesFit
  <2>2. CASE down'[l] = down[l]
    BY <2>1, <2>2 DEF RepliesOn
  <2>3. CASE down'[l] = Append(down[l], Eof)
    <3>1. Eof \in Responses \cup {Abort, Eof} /\ Eof \notin Responses
      BY DEF Eof, Responses, Ops
    <3> QED
      BY <2>1, <2>3, <3>1, ReplyGrows DEF RepliesOn
  <2>4. CASE down[l] # <<>> /\ down'[l] = Tail(down[l])
    <3>1. Tail(down[l]) \in Replies /\ \A i \in DOMAIN Tail(down[l]) : \E j \in DOMAIN down[l] :
                                         Tail(down[l])[i] = down[l][j]
      BY <2>1, <2>4 DEF Replies
    <3> QED
      BY <2>4, <3>1 DEF RepliesOn, Messages, Range
  <2> QED
    BY <2>2, <2>3, <2>4
<1> QED
  BY <1>1

(* Steps of the threads, of the ranks and of the readers: no response comes *)
(* and the queue of receives does not change.                               *)
LEMMA QuietKnown ==
  ASSUME OrderInv, OrderInv', CallsKnown, RepliesFit, receives' = receives,
         down' = [l \in Links |-> down'[l]],
         \A l \in Links : \/ down'[l] = down[l] \/ down'[l] = Append(down[l], Eof)
                          \/ down[l] # <<>> /\ down'[l] = Tail(down[l]),
         \A l \in Links : \A f \in RequestsOn(l)' :
           f \in RequestsOn(l)
             \/ \E u \in Threads : pc[u] # "idle" /\ LinkOf(u) = l /\ f = call[u],
         \A l \in Links : \A op \in Ops : next[l][op] <= next'[l][op],
         \A t \in Threads : pc'[t] # "idle" => pc[t] # "idle" /\ call'[t] = call[t]
  PROVE  CallsKnown' /\ RepliesFit'
<1>1. TypeOK /\ TypeOK'
  BY DEF OrderInv
<1>2. down' \in [Links -> Replies] /\ \A l \in Links : RepliesOn(l)' \subseteq RepliesOn(l)
  BY RepliesShrink
<1>3. CallsKnown'
  BY <1>1, CallsKept
<1> QED
  BY <1>1, <1>2, <1>3, RepliesKept

(* A thread that keeps its call and its reply keeps its own reply.          *)
LEMMA OwnKept ==
  ASSUME OwnReply,
         \A t \in Threads : pc'[t] = "waiting" /\ reply'[t].kind = "data" =>
           pc[t] = "waiting" /\ reply'[t] = reply[t] /\ call'[t] = call[t]
  PROVE  OwnReply'
BY DEF OwnReply, Matches

(* The reader hands a response to the thread whose pending request has its  *)
(* opcode and its number.                                                   *)
LEMMA ReaderOwn ==
  ASSUME TypeOK, RepliesFit, OwnReply, NEW l \in Links, ReadReply(l)
  PROVE  OwnReply'
<1> DEFINE m == Head(down[l])
           found == {key \in pending[l] : Answers(m, key)}
<1>1. /\ reply' = [t \in Threads |->
           IF \E key \in found : key.thread = t
           THEN [kind |-> "data", op |-> m.op, from |-> m.from] ELSE reply[t]]
      /\ UNCHANGED <<pc, call>>
      /\ down[l] # <<>> /\ m \notin {Abort, Eof}
  BY DEF ReadReply
<1>2. m \in Responses /\ m \in RepliesOn(l)
  <2>1. down[l] \in Seq(Responses \cup {Abort, Eof})
    BY DEF RepliesFit, Replies
  <2>2. m \in Responses \cup {Abort, Eof} /\ m \in Range(down[l])
    BY <1>1, <2>1 DEF Range
  <2>3. m \in Responses
    BY <1>1, <2>2
  <2> QED
    BY <2>2, <2>3 DEF RepliesOn, Messages, Responses
<1> SUFFICES ASSUME NEW t \in Threads, pc'[t] = "waiting", reply'[t].kind = "data"
             PROVE  /\ reply'[t].op = call'[t].op
                    /\ call'[t].op = "Receive" => /\ Matches(reply[t].from, call[t])'
                                                  /\ reply'[t].from.contract = call'[t].contract
  BY DEF OwnReply
<1>3. CASE \E key \in found : key.thread = t
  <2>1. PICK key \in pending[l] : Answers(m, key) /\ key.thread = t
    BY <1>3
  <2>2. pc[t] = "waiting" /\ LinkOf(t) = l /\ key = Key(t)
    BY <2>1, PendingUnanswered
  <2>3. SameRequest(t, m)
    BY <2>1, <2>2 DEF Answers, Key, SameRequest
  <2> HIDE DEF m, found
  <2>4. Fits(m.from, call[t])
    BY <1>2, <2>2, <2>3 DEF RepliesFit
  <2>5. reply'[t].op = m.op /\ reply'[t].from = m.from
    BY <1>1, <1>3
  <2> QED
    BY <1>1, <2>3, <2>4, <2>5 DEF Fits, SameRequest, Matches
<1>4. CASE ~\E key \in found : key.thread = t
  <2>1. reply'[t] = reply[t] /\ pc[t] = "waiting" /\ call'[t] = call[t]
    BY <1>1, <1>4
  <2> QED
    BY <2>1 DEF OwnReply, Matches
<1> QED
  BY <1>3, <1>4

(* fail_pending brings no data.                                             *)
LEMMA FailedNoData ==
  ASSUME NEW l, FailPending(l), NEW t \in Threads, reply'[t].kind = "data"
  PROVE  reply'[t] = reply[t]
BY DEF FailPending, Failed

(* The threads of a rank.                                                   *)
LEMMA ThreadsOwn ==
  ASSUME ReplyInv, OrderInv', NEW t \in Threads, ThreadStep(t)
  PROVE  ReplyInv'
<1>1. /\ OrderInv /\ CallsKnown /\ RepliesFit /\ OwnReply /\ TypeOK /\ Numbered /\ Pipelined
      /\ down = [l \in Links |-> down[l]]
  BY DEF ReplyInv, OrderInv, RepliesFit
<1>2. receives' = receives
  BY DEF ThreadStep, Request, Enqueue, Return, Expire, ShutExpired, routers
<1>3. ASSUME next' = next
      PROVE  \A l \in Links : \A op \in Ops : next[l][op] <= next'[l][op]
  BY <1>1, <1>3 DEF TypeOK
<1>4. CASE Request(t)
  <2>1. CallsKnown' /\ RepliesFit'
    BY <1>1, <1>4, RequestKnown
  <2>2. reply' = reply /\ \A u \in Threads : pc'[u] = "waiting" => pc[u] = "waiting" /\ call'[u] = call[u]
    BY <1>1, <1>4 DEF Request, TypeOK
  <2> QED
    BY <1>1, <2>1, <2>2, OwnKept DEF ReplyInv
<1>5. CASE Enqueue(t)
  <2> DEFINE l == LinkOf(t)
  <2>1. pc[t] = "checked" /\ l \in Links /\ call[t] \in Frames /\ next' = next /\ down' = down
    BY <1>1, <1>5, LinkType DEF Enqueue
  <2>2. CASE /\ pc' = [pc EXCEPT ![t] = "idle"]
             /\ call' = [call EXCEPT ![t] = NoCall]
             /\ FailPending(l)
             /\ UNCHANGED up
    <3>1. \A u \in Threads : pc'[u] # "idle" => pc[u] = pc'[u] /\ call'[u] = call[u]
      BY <1>1, <2>2 DEF TypeOK
    <3>2. \A m \in Links : RequestsOn(m)' = RequestsOn(m)
      BY <2>2 DEF RequestsOn
    <3>3. CallsKnown' /\ RepliesFit'
      BY <1>1, <1>2, <1>3, <2>1, <3>1, <3>2, QuietKnown
    <3>4. OwnReply'
      BY <1>1, <2>2, <3>1, FailedNoData, OwnKept
    <3> QED
      BY <3>3, <3>4 DEF ReplyInv
  <2>3. CASE /\ pc' = [pc EXCEPT ![t] = "waiting"]
             /\ up' = [up EXCEPT ![l] = Append(@, call[t])]
             /\ UNCHANGED <<call, reply>>
    <3>1. \A u \in Threads : pc'[u] # "idle" => pc[u] # "idle" /\ call'[u] = call[u]
      BY <1>1, <2>1, <2>3 DEF TypeOK
    <3>2. reply[t] = NoReply
      BY <1>1, <2>1 DEF TypeOK
    <3>3. \A u \in Threads : pc'[u] = "waiting" /\ reply'[u].kind = "data" =>
            pc[u] = "waiting" /\ reply'[u] = reply[u] /\ call'[u] = call[u]
      BY <1>1, <2>3, <3>2 DEF TypeOK, NoReply
    <3>4. OwnReply'
      BY <1>1, <3>3, OwnKept
    <3>5. Messages(Append(up[l], call[t])) \subseteq Messages(up[l]) \cup {call[t]}
      <4>1. up[l] \in Seq(Frames \cup {Eof, Leave, Abort}) /\ call[t] \in Frames \cup {Eof, Leave, Abort}
        BY <1>1, <2>1 DEF TypeOK
      <4>2. Range(Append(up[l], call[t])) = Range(up[l]) \cup {call[t]}
        BY <4>1, AppendGrows, GrownRange
      <4> QED
        BY <4>2 DEF Messages
    <3>6. LinkOf(t) = l
      OBVIOUS
    <3> HIDE DEF l
    <3>7. \A m \in Links : up'[m] = IF m = l THEN Append(up[l], call[t]) ELSE up[m]
      BY <1>1, <2>1, <2>3 DEF TypeOK
    <3>8. \A m \in Links : \A f \in RequestsOn(m)' :
            f \in RequestsOn(m)
              \/ \E u \in Threads : pc[u] # "idle" /\ LinkOf(u) = m /\ f = call[u]
      BY <2>1, <3>5, <3>6, <3>7 DEF RequestsOn
    <3>9. CallsKnown' /\ RepliesFit'
      BY <1>1, <1>2, <1>3, <2>1, <3>1, <3>8, QuietKnown
    <3> QED
      BY <3>4, <3>9 DEF ReplyInv
  <2> QED
    BY <1>5, <2>2, <2>3 DEF Enqueue
<1>6. CASE Return(t) \/ Expire(t) \/ ShutExpired(t)
  <2>1. /\ next' = next
        /\ \A l \in Links : up'[l] = up[l] \/ up'[l] = Append(up[l], Eof)
        /\ \A l \in Links : down'[l] = down[l] \/ down'[l] = Append(down[l], Eof)
        /\ down' = [l \in Links |-> down'[l]]
    BY <1>1, <1>6 DEF Return, Expire, ShutExpired, ShutDown, clients
  <2>2. \A u \in Threads :
          /\ pc'[u] # "idle" => pc[u] # "idle" /\ call'[u] = call[u]
          /\ pc'[u] = "waiting" => pc[u] = "waiting" /\ reply'[u] = reply[u]
    BY <1>1, <1>6 DEF Return, Expire, ShutExpired, TypeOK
  <2>3. \A l \in Links : RequestsOn(l)' \subseteq RequestsOn(l)
    BY <1>1, <2>1, StreamsKept DEF RequestsOn
  <2>4. CallsKnown' /\ RepliesFit'
    BY <1>1, <1>2, <1>3, <2>1, <2>2, <2>3, QuietKnown
  <2>5. OwnReply'
    BY <1>1, <2>2, OwnKept
  <2> QED
    BY <2>4, <2>5 DEF ReplyInv
<1> QED
  BY <1>4, <1>5, <1>6 DEF ThreadStep

(* Aborts, drops and crashes.                                               *)
LEMMA RanksOwn ==
  ASSUME ReplyInv, OrderInv', NEW r \in Ranks, RankStep(r)
  PROVE  ReplyInv'
<1>1. /\ OrderInv /\ CallsKnown /\ RepliesFit /\ OwnReply /\ TypeOK /\ Numbered /\ Pipelined
      /\ down = [l \in Links |-> down[l]]
  BY DEF ReplyInv, OrderInv, RepliesFit
<1>2. UNCHANGED <<receives, down>>
  BY DEF RankStep, DropSession, Crash, AbortRail, routers
<1>3. \A u \in Threads :
        /\ pc'[u] # "idle" => pc[u] # "idle" /\ call'[u] = call[u]
        /\ pc'[u] = "waiting" => pc[u] = "waiting" /\ reply'[u] = reply[u]
  <2>1. CASE Crash(r)
    BY <2>1 DEF Crash
  <2>2. CASE DropSession(r) \/ \E k \in Rails : AbortRail(r, k)
    BY <2>2 DEF DropSession, AbortRail, threads
  <2> QED
    BY <2>1, <2>2 DEF RankStep
<1>4. \A l \in Links :
        \/ up'[l] = up[l]
        \/ \E x \in {Eof, Leave, Abort} : up'[l] = Append(up[l], x)
        \/ up'[l] = up[l] \o <<Leave, Eof>>
  <2>1. CASE DropSession(r) \/ Crash(r)
    BY <2>1 DEF DropSession, Crash
  <2>2. ASSUME NEW k \in Rails, AbortRail(r, k)
        PROVE  \A l \in Links : up'[l] = up[l] \/ up'[l] = Append(up[l], Abort)
    BY <1>1, <2>2 DEF AbortRail, TypeOK
  <2> QED
    BY <2>1, <2>2 DEF RankStep
<1>5. \A l \in Links : RequestsOn(l)' \subseteq RequestsOn(l)
  BY <1>1, <1>4, StreamsKept DEF RequestsOn
<1>6. \A l \in Links : \A op \in Ops : next[l][op] <= next'[l][op]
  <2>1. \A l \in Links : \A op \in Ops : next[l][op] \in Nat
    BY <1>1 DEF TypeOK
  <2>2. CASE next' = next
    BY <2>1, <2>2
  <2>3. ASSUME NEW k \in Rails, AbortRail(r, k)
        PROVE  \A l \in Links : \A op \in Ops : next[l][op] <= next'[l][op]
    <3> DEFINE n == <<r, k>>
    <3>1. next' = [next EXCEPT ![n]["Send"] = @ + 1]
      BY <2>3 DEF AbortRail
    <3> HIDE DEF n
    <3>2. \A m \in Links : \A op \in Ops :
            next'[m][op] = next[m][op] \/ next'[m][op] = next[m][op] + 1
      BY <1>1, <3>1 DEF TypeOK
    <3> QED
      BY <2>1, <3>2
  <2> QED
    BY <2>2, <2>3 DEF RankStep, DropSession, Crash
<1>7. CallsKnown' /\ RepliesFit'
  BY <1>1, <1>2, <1>3, <1>5, <1>6, QuietKnown
<1>8. OwnReply'
  BY <1>1, <1>3, OwnKept
<1> QED
  BY <1>7, <1>8 DEF ReplyInv

(* Every step keeps the invariant.                                          *)
LEMMA NextOwn == ReplyInv /\ [Next]_vars => ReplyInv'
<1> SUFFICES ASSUME ReplyInv, [Next]_vars PROVE ReplyInv'
  OBVIOUS
<1>1. /\ OrderInv /\ CallsKnown /\ RepliesFit /\ OwnReply /\ TypeOK
      /\ down = [l \in Links |-> down[l]]
  BY DEF ReplyInv, OrderInv, RepliesFit
<1>2. OrderInv'
  BY <1>1, NextOrder
<1>3. \A l \in Links : \A op \in Ops : next[l][op] <= next[l][op]
  BY <1>1 DEF TypeOK
<1>4. ASSUME UNCHANGED <<receives, pc, call, next, up>>, OwnReply',
             down' = [l \in Links |-> down'[l]],
             \A l \in Links : \/ down'[l] = down[l]
                              \/ down[l] # <<>> /\ down'[l] = Tail(down[l])
      PROVE  ReplyInv'
  <2>1. \A l \in Links : RequestsOn(l)' = RequestsOn(l)
    BY <1>4 DEF RequestsOn
  <2>2. CallsKnown' /\ RepliesFit'
    BY <1>1, <1>2, <1>3, <1>4, <2>1, QuietKnown
  <2> QED
    BY <1>2, <1>4, <2>2 DEF ReplyInv
<1>5. ASSUME NEW l \in Links, ReadReply(l) PROVE ReplyInv'
  <2>1. OwnReply'
    BY <1>1, <1>5, ReaderOwn
  <2>2. /\ UNCHANGED <<receives, pc, call, next, up>>
        /\ down[l] # <<>> /\ down' = [down EXCEPT ![l] = Tail(@)]
    BY <1>5 DEF ReadReply, routers
  <2>3. /\ down' = [n \in Links |-> down'[n]]
        /\ \A n \in Links : down'[n] = down[n] \/ (down[n] # <<>> /\ down'[n] = Tail(down[n]))
    BY <1>1, <2>2
  <2> QED
    BY <1>4, <2>1, <2>2, <2>3
<1>6. ASSUME NEW l \in Links, ReadEnd(l) PROVE ReplyInv'
  <2>1. UNCHANGED <<receives, pc, call, next, up, down>> /\ FailPending(l)
    BY <1>6 DEF ReadEnd, routers
  <2>2. OwnReply'
    BY <1>1, <2>1, FailedNoData, OwnKept
  <2> QED
    BY <1>1, <1>4, <2>1, <2>2
<1>7. ASSUME NEW l \in Links, RouterStep(l) PROVE ReplyInv'
  <2>1. UNCHANGED <<pc, call, reply>>
    BY <1>7 DEF RouterStep, RouteSend, RouteReceive, RouteHeartbeat, RouteLeave, RouteAbort,
                WriteFails, DeliveryFails, LinkClosed, Incoming, threads
  <2>2. OwnReply'
    BY <1>1, <2>1, OwnKept
  <2> QED
    BY <1>1, <1>2, <1>7, <2>2, RoutersKnown DEF ReplyInv
<1>8. ASSUME NEW l \in Links, LeaseExpires(l) PROVE ReplyInv'
  <2>1. UNCHANGED <<receives, pc, call, next, up, reply>> /\ StopRail(RailOf(l), down)
    BY <1>8 DEF LeaseExpires, threads, clients
  <2>2. OwnReply'
    BY <1>1, <2>1, OwnKept
  <2>3. down' \in [Links -> Replies] /\ \A n \in Links : RepliesOn(n)' \subseteq RepliesOn(n)
    BY <1>1, <2>1, StopReplies DEF RepliesFit, RepliesOn
  <2>4. CallsKnown'
    BY <1>1, <2>1, CallsKept DEF RequestsOn
  <2>5. RepliesFit'
    BY <1>1, <1>2, <1>3, <2>1, <2>3, RepliesKept DEF OrderInv
  <2> QED
    BY <1>2, <2>2, <2>4, <2>5 DEF ReplyInv
<1>9. CASE UNCHANGED vars
  <2>1. UNCHANGED <<receives, pc, call, next, up, reply, down>>
    BY <1>9 DEF vars, threads, clients, routers
  <2>2. OwnReply'
    BY <1>1, <2>1, OwnKept
  <2> QED
    BY <1>1, <1>4, <2>1, <2>2
<1> QED
  BY <1>2, <1>5, <1>6, <1>7, <1>8, <1>9, ThreadsOwn, RanksOwn DEF Next, ReaderStep

(* A thread is handed the response to its own request, however many threads *)
(* of its rank have requests pending on the link, and a receive only what   *)
(* was sent to it, with its tag and its contract.                           *)
THEOREM RepliesReachTheirCallers == Spec => []OwnReply
<1>1. Init => ReplyInv
  <2> SUFFICES ASSUME Init PROVE ReplyInv
    OBVIOUS
  <2>1. \A l \in Links : down[l] = <<>> /\ RepliesOn(l) = {}
    BY DEF Init, RepliesOn, Messages, Range
  <2>2. down \in [Links -> Replies]
    BY DEF Init, Replies
  <2>3. \A t \in Threads : pc[t] = "idle"
    BY DEF Init
  <2> QED
    BY <2>1, <2>2, <2>3, InitOrder DEF ReplyInv, CallsKnown, RepliesFit, OwnReply
<1>2. ReplyInv /\ [Next]_vars => ReplyInv'
  BY NextOwn
<1>3. ReplyInv => OwnReply
  BY DEF ReplyInv
<1> QED
  BY <1>1, <1>2, <1>3, PTL DEF Spec
=============================================================================
