-------------------------- MODULE RendezvousProofs --------------------------
(* Proofs about the ordered collective channel, for every number of ranks   *)
(* and whatever the ranks submit, lose and abort, as long as a rank does    *)
(* not call again after an error; and about the routing of every round, for *)
(* every number of ranks, element count and matrix of counts.               *)
EXTENDS Rendezvous, FiniteSetTheorems, WellFoundedInduction, TLAPS

-----------------------------------------------------------------------------
(* Sequences and frames.                                                    *)

(* The elements of a sequence of which one is appended or the head removed. *)
LEMMA AppendElements ==
  ASSUME NEW S, NEW s \in Seq(S), NEW e \in S
  PROVE  /\ Append(s, e) \in Seq(S) /\ Len(Append(s, e)) = Len(s) + 1
         /\ DOMAIN Append(s, e) = 1 .. Len(s) + 1 /\ Append(s, e)[Len(s) + 1] = e
         /\ \A i \in 1 .. Len(s) : Append(s, e)[i] = s[i]
  OBVIOUS

(* The head of a sequence and what follows it.                              *)
LEMMA TailElements ==
  ASSUME NEW S, NEW s \in Seq(S), s # <<>>
  PROVE  /\ Head(s) = s[1] /\ Head(s) \in S /\ Len(s) \in Nat \ {0}
         /\ Tail(s) \in Seq(S) /\ Len(Tail(s)) = Len(s) - 1
         /\ DOMAIN s = 1 .. Len(s) /\ DOMAIN Tail(s) = 1 .. Len(s) - 1
         /\ \A i \in 1 .. Len(s) - 1 : Tail(s)[i] = s[i + 1]
  OBVIOUS

(* The elements of a sequence to which another one is appended.             *)
LEMMA ConcatElements ==
  ASSUME NEW S, NEW s \in Seq(S), NEW t \in Seq(S)
  PROVE  /\ s \o t \in Seq(S) /\ Len(s \o t) = Len(s) + Len(t)
         /\ DOMAIN (s \o t) = 1 .. Len(s) + Len(t)
         /\ \A i \in 1 .. Len(s) : (s \o t)[i] = s[i]
         /\ \A i \in 1 .. Len(t) : (s \o t)[Len(s) + i] = t[i]
  OBVIOUS

(* The rank 0 exists.                                                       *)
LEMMA RankZero == 0 \in Ranks /\ WorldSize - 1 \in Ranks
  BY WorldSizeAssumption DEF Ranks

(* The frames are told apart by their kind.                                 *)
LEMMA FrameKinds ==
  /\ \A f \in Frames : f.kind = "frame" /\ f.seq \in Nat /\ f.call \in Calls
  /\ NoFrame \notin Frames /\ Eof.kind = "eof" /\ Reset.kind = "reset"
  /\ Torn.kind = "torn" /\ NoFrame.kind = "none"
  BY DEF Frames, NoFrame, Eof, Reset, Torn

(* What a rank puts on the wire is a frame.                                 *)
LEMMA FrameType ==
  ASSUME TypeOK, NEW r \in Ranks, Len(made[r]) < MaxCalls,
         NEW request \in Requests(r, Len(made[r]) + 1)
  PROVE  Frame(r, request) \in Frames
<1>1. Len(made[r]) + 1 \in Calls /\ next_sequence[r] \in Nat
  BY RendezvousAssumption DEF TypeOK, Calls
<1>2. request \in UNION {Requests(q, n) : q \in Ranks, n \in Calls}
  BY <1>1
<1> QED
  BY <1>1, <1>2 DEF Frame, Frames

(* What the coordinator writes is a message of the channel.                 *)
LEMMA AbortType == \A n \in Nat : AbortFrame(n) \in Messages
  BY DEF AbortFrame, Messages

(* So are the ends of a stream.                                             *)
LEMMA EndTypes == Eof \in Messages /\ Torn \in Messages
  BY DEF Messages

(* When all ranks have a request the response is a message of the channel.  *)
LEMMA ResponseType ==
  ASSUME TypeOK, Missing = {}, Accepted(Round)
  PROVE  ResponseFrame \in Messages /\ ResponseFrame.kind = "response"
<1>1. \A r \in Ranks : requests[r] \in Frames
  BY DEF TypeOK, Missing
<1>2. [r \in Ranks |-> requests[r].call] \in [Ranks -> Calls]
  BY <1>1, FrameKinds
<1>3. requests[0].req.op \in Opcodes
  BY RankZero DEF Accepted, Routable, Round
<1>4. active_sequence \in Nat
  BY DEF TypeOK
<1> QED
  BY <1>2, <1>3, <1>4 DEF ResponseFrame, Messages

-----------------------------------------------------------------------------
(* The initial state satisfies the invariant.                               *)
LEMMA InitInv == Init => RoundInv
<1> SUFFICES ASSUME Init PROVE RoundInv
  OBVIOUS
<1>1. TypeOK
  <2>1. /\ made \in [Ranks -> Seq(Frames)]
        /\ up \in [Ranks -> Seq(Frames \cup {Eof, Reset})]
        /\ down \in [Ranks -> Seq(Messages)]
    BY DEF Init
  <2>2. requests \in [Ranks -> Frames \cup {NoFrame}]
    BY DEF Init
  <2>3. /\ session \in [Ranks -> {"idle", "waiting", "failed", "closed"}]
        /\ next_sequence \in [Ranks -> Nat]
    BY DEF Init
  <2> QED
    BY <2>1, <2>2, <2>3 DEF Init, TypeOK
<1>2. CallsNumbered /\ Collected /\ Together
  BY DEF Init, CallsNumbered, Collected, Together
<1>3. Delivered
  BY DEF Init, Delivered, Taken
<1>4. AnswersAgree
  BY DEF Init, AnswersAgree
<1>5. Phases
  BY DEF Init, Phases
<1>6. Streams
  BY DEF Init, Streams, Answered
<1> QED
  BY <1>1, <1>2, <1>3, <1>4, <1>5, <1>6 DEF RoundInv

-----------------------------------------------------------------------------
(* The ranks.                                                               *)

(* Calls are added and never change.                                        *)
Extends(old, new) ==
  \A q \in Ranks : Len(new[q]) >= Len(old[q]) /\ \A i \in 1 .. Len(old[q]) : new[q][i] = old[q][i]

(* What a response was computed from stays true when ranks call again.      *)
LEMMA ComputedStays ==
  ASSUME TypeOK, made' \in [Ranks -> Seq(Frames)], Extends(made, made')
  PROVE  \A of : \A s \in Nat : ComputedFrom(of, s) => ComputedFrom(of, s)'
<1> SUFFICES ASSUME NEW of, NEW s \in Nat, ComputedFrom(of, s), NEW q \in Ranks
             PROVE  /\ of[q] = s + 1 /\ s < Len(made'[q])
                    /\ OperationDescriptor(made'[q][s + 1].req)
                         = OperationDescriptor(made'[0][s + 1].req)
  BY DEF ComputedFrom
<1>1. \A p \in Ranks : of[p] = s + 1 /\ s < Len(made[p])
  BY DEF ComputedFrom
<1>2. \A p \in Ranks : Len(made[p]) \in Nat /\ Len(made'[p]) \in Nat
  BY DEF TypeOK
<1>3. \A p \in Ranks : s < Len(made'[p]) /\ made'[p][s + 1] = made[p][s + 1]
  BY <1>1, <1>2 DEF Extends
<1>4. OperationDescriptor(made[q][s + 1].req) = OperationDescriptor(made[0][s + 1].req)
  BY DEF ComputedFrom
<1> QED
  BY <1>1, <1>3, <1>4, RankZero

(* A call is written, or lost when the session has ended.                   *)
LEMMA SubmitKeeps ==
  ASSUME RoundInv, Retry = FALSE, NEW r \in Ranks, Submit(r)
  PROVE  RoundInv'
<1> USE DEF RoundInv
<1>1. PICK request \in Requests(r, Len(made[r]) + 1) :
        /\ made' = [made EXCEPT ![r] = Append(@, Frame(r, request))]
        /\ IF server = "stopped"
           THEN /\ up' = up
                /\ \/ session' = [session EXCEPT ![r] = "waiting"]
                   \/ session' = [session EXCEPT ![r] = "failed"]
           ELSE /\ up' = [up EXCEPT ![r] = Append(@, Frame(r, request))]
                /\ session' = [session EXCEPT ![r] = "waiting"]
  BY DEF Submit
<1> DEFINE frame == Frame(r, request)
<1>2. /\ session[r] = "idle" /\ Len(made[r]) < MaxCalls
      /\ UNCHANGED <<next_sequence, timeouts, returned, loop, down, server_failure>>
  BY DEF Submit
<1>3. frame \in Frames /\ frame.seq = next_sequence[r] /\ frame.call = Len(made[r]) + 1
      /\ frame.kind = "frame"
  BY <1>2, FrameType DEF Frame
<1> HIDE DEF frame
<1>4. /\ made' \in [Ranks -> Seq(Frames)] /\ Len(made[r]) \in Nat
      /\ Len(made'[r]) = Len(made[r]) + 1 /\ made'[r][Len(made[r]) + 1] = frame
      /\ DOMAIN made'[r] = 1 .. Len(made[r]) + 1
      /\ \A i \in 1 .. Len(made[r]) : made'[r][i] = made[r][i]
      /\ \A q \in Ranks \ {r} : made'[q] = made[q]
  <2>1. made \in [Ranks -> Seq(Frames)]
    BY DEF TypeOK
  <2>2. made' = [made EXCEPT ![r] = Append(made[r], frame)]
    BY <1>1 DEF frame
  <2>3. made[r] \in Seq(Frames) /\ made'[r] = Append(made[r], frame)
    BY <2>1, <2>2
  <2> QED
    BY <2>1, <2>2, <2>3, <1>3, AppendElements
<1>5. Extends(made, made')
  <2> SUFFICES ASSUME NEW q \in Ranks
               PROVE  /\ Len(made'[q]) >= Len(made[q])
                      /\ \A i \in 1 .. Len(made[q]) : made'[q][i] = made[q][i]
    BY DEF Extends
  <2>1. Len(made[q]) \in Nat
    BY DEF TypeOK
  <2>2. CASE q = r
    BY <2>2, <1>4
  <2>3. CASE q # r
    BY <2>1, <2>3, <1>4
  <2> QED
    BY <2>2, <2>3
<1>6. /\ \A q \in Ranks \ {r} : session'[q] = session[q]
      /\ session'[r] \in {"waiting", "failed"}
      /\ session' \in [Ranks -> {"idle", "waiting", "failed", "closed"}]
  BY <1>1 DEF TypeOK
<1>7. /\ up' \in [Ranks -> Seq(Frames \cup {Eof, Reset})]
      /\ \A q \in Ranks \ {r} : up'[q] = up[q]
      /\ server # "stopped" =>
           /\ Len(up'[r]) = Len(up[r]) + 1 /\ up'[r][Len(up[r]) + 1] = frame
           /\ DOMAIN up'[r] = 1 .. Len(up[r]) + 1
           /\ \A i \in 1 .. Len(up[r]) : up'[r][i] = up[r][i]
  <2>1. up \in [Ranks -> Seq(Frames \cup {Eof, Reset})] /\ frame \in Frames \cup {Eof, Reset}
    BY <1>3 DEF TypeOK
  <2>2. up[r] \in Seq(Frames \cup {Eof, Reset})
    BY <2>1
  <2>3. CASE server = "stopped"
    BY <2>3, <2>1, <1>1
  <2>4. CASE server # "stopped"
    <3>1. up' = [up EXCEPT ![r] = Append(up[r], frame)]
      BY <2>4, <1>1 DEF frame
    <3>2. up'[r] = Append(up[r], frame)
      BY <2>1, <3>1
    <3> QED
      BY <3>1, <3>2, <2>1, <2>2, AppendElements
  <2> QED
    BY <2>3, <2>4
<1>8. TypeOK'
  BY <1>2, <1>4, <1>6, <1>7 DEF TypeOK, loop
<1>9. CallsNumbered'
  <2> SUFFICES ASSUME NEW q \in Ranks
               PROVE  /\ \A i \in DOMAIN made'[q] : made'[q][i].seq = i - 1 /\ made'[q][i].call = i
                      /\ next_sequence[q] <= Len(made'[q])
                      /\ Len(made'[q]) <= next_sequence[q] + 1
                      /\ session'[q] = "idle" => Len(made'[q]) = next_sequence[q]
                      /\ session'[q] = "waiting" => Len(made'[q]) = next_sequence[q] + 1
    BY <1>2 DEF CallsNumbered
  <2>1. CASE q = r
    <3>1. Len(made[r]) = next_sequence[r] /\ next_sequence[r] \in Nat
      BY <1>2 DEF CallsNumbered, TypeOK
    <3>2. \A i \in 1 .. Len(made[r]) : made[r][i].seq = i - 1 /\ made[r][i].call = i
      BY DEF CallsNumbered, TypeOK
    <3>3. \A i \in 1 .. Len(made[r]) + 1 : i \in 1 .. Len(made[r]) \/ i = Len(made[r]) + 1
      BY <1>4
    <3>4. \A i \in DOMAIN made'[r] : made'[r][i].seq = i - 1 /\ made'[r][i].call = i
      BY <3>1, <3>2, <3>3, <1>3, <1>4
    <3>5. session'[r] # "idle"
      BY <1>6
    <3> QED
      BY <2>1, <3>1, <3>4, <3>5, <1>4
  <2>2. CASE q # r
    <3>1. made'[q] = made[q] /\ session'[q] = session[q]
      BY <2>2, <1>4, <1>6
    <3> QED
      BY <3>1 DEF CallsNumbered
  <2> QED
    BY <2>1, <2>2
<1>10. Collected'
  <2> SUFFICES ASSUME NEW q \in Ranks, requests[q] # NoFrame
               PROVE  active_sequence < Len(made'[q]) /\ requests[q] = made'[q][active_sequence + 1]
    BY <1>2 DEF Collected, loop
  <2>1. active_sequence < Len(made[q]) /\ requests[q] = made[q][active_sequence + 1]
    BY DEF Collected
  <2>2. active_sequence \in Nat /\ Len(made[q]) \in Nat /\ Len(made'[q]) \in Nat
    BY <1>4 DEF TypeOK
  <2> QED
    BY <2>1, <2>2, <1>5 DEF Extends
<1>11. Delivered'
  <2> SUFFICES ASSUME server # "stopped", NEW q \in Ranks
               PROVE  /\ active_sequence <= Len(made'[q])
                      /\ \A i \in DOMAIN up'[q] : up'[q][i].kind = "frame" =>
                           Taken(q) + i <= Len(made'[q]) /\ up'[q][i] = made'[q][Taken(q) + i]
                      /\ session'[q] # "closed" => Taken(q) + Len(up'[q]) = Len(made'[q])
    BY <1>2 DEF Delivered, loop, Taken
  <2>1. /\ active_sequence <= Len(made[q])
        /\ \A i \in DOMAIN up[q] : up[q][i].kind = "frame" =>
             Taken(q) + i <= Len(made[q]) /\ up[q][i] = made[q][Taken(q) + i]
        /\ session[q] # "closed" => Taken(q) + Len(up[q]) = Len(made[q])
    BY DEF Delivered
  <2>2. CASE q = r
    <3>1. Taken(r) + Len(up[r]) = Len(made[r]) /\ Taken(r) \in Nat /\ active_sequence \in Nat
          /\ Len(up[r]) \in Nat /\ DOMAIN up[r] = 1 .. Len(up[r])
      BY <2>1, <2>2, <1>2 DEF TypeOK, Taken
    <3>2. \A i \in 1 .. Len(up[r]) + 1 : i \in 1 .. Len(up[r]) \/ i = Len(up[r]) + 1
      BY <3>1
    <3>0. /\ Len(up'[r]) = Len(up[r]) + 1 /\ up'[r][Len(up[r]) + 1] = frame
          /\ DOMAIN up'[r] = 1 .. Len(up[r]) + 1
          /\ \A i \in 1 .. Len(up[r]) : up'[r][i] = up[r][i]
      BY <1>7
    <3>5. /\ Len(made[r]) \in Nat
          /\ Len(made'[r]) = Len(made[r]) + 1 /\ made'[r][Len(made[r]) + 1] = frame
          /\ \A i \in 1 .. Len(made[r]) : made'[r][i] = made[r][i]
      BY <1>4
    <3>3. ASSUME NEW i \in DOMAIN up'[r], up'[r][i].kind = "frame"
          PROVE  Taken(r) + i <= Len(made'[r]) /\ up'[r][i] = made'[r][Taken(r) + i]
      <4>1. CASE i = Len(up[r]) + 1
        BY <4>1, <3>0, <3>1, <3>5
      <4>2. CASE i \in 1 .. Len(up[r])
        <5>1. Taken(r) + i <= Len(made[r]) /\ up[r][i] = made[r][Taken(r) + i]
          BY <4>2, <3>1, <3>3, <2>1, <2>2, <1>7
        <5> QED
          <6>1. up'[r][i] = up[r][i]
            BY <3>0, <4>2
          <6>2. Taken(r) + i \in 1 .. Len(made[r])
            BY <5>1, <4>2, <3>1, <3>5
          <6>3. made'[r][Taken(r) + i] = made[r][Taken(r) + i]
            BY <3>5, <6>2
          <6> QED
            BY <5>1, <6>1, <6>2, <6>3, <3>1, <3>5
      <4> QED
        BY <4>1, <4>2, <3>2, <1>7
    <3>4. active_sequence <= Len(made'[r])
      <4>1. active_sequence <= Len(made[r])
        BY <2>1, <2>2
      <4> QED
        BY <4>1, <3>1, <3>5
    <3>6. Taken(r) + Len(up'[r]) = Len(made'[r])
      <4>1. Len(up'[r]) = Len(up[r]) + 1
        BY <3>0
      <4>2. Len(made'[r]) = Len(made[r]) + 1
        BY <3>5
      <4>3. Taken(r) + Len(up[r]) = Len(made[r]) /\ Taken(r) \in Nat /\ Len(up[r]) \in Nat
        BY <3>1
      <4> QED
        BY <4>1, <4>2, <4>3
    <3> QED
      BY <2>2, <3>3, <3>4, <3>6
  <2>3. CASE q # r
    BY <2>1, <2>3, <1>4, <1>6, <1>7
  <2> QED
    BY <2>2, <2>3
<1>12. AnswersAgree'
  <2>1. \A of : \A s \in Nat : ComputedFrom(of, s) => ComputedFrom(of, s)'
    BY <1>4, <1>5, ComputedStays
  <2>2. \A q \in Ranks : \A i \in DOMAIN down[q] : down[q][i].kind = "response" => down[q][i].seq \in Nat
    <3> SUFFICES ASSUME NEW q \in Ranks, NEW i \in DOMAIN down[q], down[q][i].kind = "response"
                 PROVE  down[q][i].seq \in Nat
      OBVIOUS
    <3>1. down[q][i] \in Messages
      BY DEF TypeOK
    <3> QED
      BY <3>1 DEF Messages, Eof, Torn
  <2>3. \A x \in returned : x.seq \in Nat
    BY DEF TypeOK
  <2>4. down' = down /\ returned' = returned
    BY <1>2
  <2>5. \A q \in Ranks : \A i \in DOMAIN down[q] :
          down[q][i].kind = "response" => ComputedFrom(down[q][i].of, down[q][i].seq)'
    BY <2>1, <2>2, <2>4 DEF AnswersAgree
  <2> QED
    BY <2>1, <2>2, <2>3, <2>4 DEF AnswersAgree
<1>13. Phases'
  BY <1>2 DEF Phases, loop, Missing, Round
<1>14. Streams'
  <2>1. \A q \in Ranks : Live(q)' => Live(q)
    BY <1>2, <1>6 DEF Live
  <2> QED
    BY <2>1, <1>2 DEF Streams, Answered, loop
<1>15. Together'
  BY <1>2, <1>4, <1>5 DEF Together, Extends, TypeOK
<1> QED
  BY <1>8, <1>9, <1>10, <1>11, <1>12, <1>13, <1>14, <1>15

(* A waiting rank that reads: it is idle after it has counted a response,   *)
(* which was at the head of its stream, and has failed otherwise.           *)
Reads(r) ==
  /\ UNCHANGED <<made, loop, up, server_failure>>
  /\ session[r] = "waiting"
  /\ session' \in [Ranks -> {"idle", "waiting", "failed", "closed"}]
  /\ session'[r] \in {"idle", "failed"}
  /\ next_sequence' \in [Ranks -> Nat] /\ next_sequence'[r] \in {next_sequence[r], next_sequence[r] + 1}
  /\ down' \in [Ranks -> Seq(Messages)]
  /\ timeouts' \in Nat
  /\ \A q \in Ranks \ {r} : /\ session'[q] = session[q] /\ down'[q] = down[q]
                            /\ next_sequence'[q] = next_sequence[q]
  /\ \A q \in Ranks : next_sequence'[r] <= Len(made[q])
  /\ session'[r] = "idle" =>
       /\ next_sequence'[r] = next_sequence[r] + 1
       /\ down[r] # <<>> /\ down'[r] = Tail(down[r])
  /\ \A j \in DOMAIN down'[r] : down'[r][j].kind = "response" =>
       \E i \in DOMAIN down[r] : down'[r][j] = down[r][i]

ReadsReturned ==
  \/ returned' = returned
  \/ \E x \in [rank : Ranks, call : Calls, seq : Nat, of : [Ranks -> Calls]] :
       /\ returned' = returned \cup {x}
       /\ x.call = x.seq + 1 /\ ComputedFrom(x.of, x.seq)

(* Reading keeps the invariant.                                             *)
LEMMA ReadsKeep ==
  ASSUME RoundInv, NEW r \in Ranks, Reads(r), ReadsReturned
  PROVE  RoundInv'
<1> USE DEF RoundInv
<1>1. returned' \subseteq [rank : Ranks, call : Calls, seq : Nat, of : [Ranks -> Calls]]
  BY DEF ReadsReturned, TypeOK
<1>2. TypeOK'
  BY <1>1 DEF TypeOK, Reads, loop
<1>3. CallsNumbered'
  <2> SUFFICES ASSUME NEW q \in Ranks
               PROVE  /\ \A i \in DOMAIN made[q] : made[q][i].seq = i - 1 /\ made[q][i].call = i
                      /\ next_sequence'[q] <= Len(made[q])
                      /\ Len(made[q]) <= next_sequence'[q] + 1
                      /\ session'[q] = "idle" => Len(made[q]) = next_sequence'[q]
                      /\ session'[q] = "waiting" => Len(made[q]) = next_sequence'[q] + 1
    BY DEF CallsNumbered, Reads
  <2>1. CASE q = r
    <3>1. Len(made[r]) = next_sequence[r] + 1 /\ next_sequence[r] \in Nat /\ Len(made[r]) \in Nat
      BY DEF CallsNumbered, TypeOK, Reads
    <3>2. /\ session'[r] \in {"idle", "failed"}
          /\ next_sequence'[r] \in {next_sequence[r], next_sequence[r] + 1}
          /\ session'[r] = "idle" => next_sequence'[r] = next_sequence[r] + 1
      BY DEF Reads
    <3>3. \A i \in DOMAIN made[r] : made[r][i].seq = i - 1 /\ made[r][i].call = i
      BY DEF CallsNumbered
    <3> QED
      BY <2>1, <3>1, <3>2, <3>3
  <2>2. CASE q # r
    BY <2>2 DEF CallsNumbered, Reads
  <2> QED
    BY <2>1, <2>2
<1>4. Collected'
  BY DEF Collected, Reads, loop
<1>5. Delivered'
  <2>1. \A q \in Ranks : session'[q] # "closed" => session[q] # "closed"
    BY DEF Reads
  <2> QED
    BY <2>1 DEF Delivered, Reads, loop, Taken
<1>6. AnswersAgree'
  <2>1. \A of, s : ComputedFrom(of, s) => ComputedFrom(of, s)'
    BY DEF ComputedFrom, Reads
  <2>2. ASSUME NEW q \in Ranks, NEW j \in DOMAIN down'[q], down'[q][j].kind = "response"
        PROVE  ComputedFrom(down'[q][j].of, down'[q][j].seq)
    <3>1. PICK i \in DOMAIN down[q] : down'[q][j] = down[q][i]
      <4>1. CASE q = r
        BY <2>2, <4>1, Zenon DEF Reads
      <4>2. CASE q # r
        <5>1. down'[q] = down[q]
          BY <4>2 DEF Reads
        <5> QED
          BY <5>1
      <4> QED
        BY <4>1, <4>2
    <3> QED
      BY <2>2, <3>1 DEF AnswersAgree
  <2>3. \A x \in returned' : x.call = x.seq + 1 /\ ComputedFrom(x.of, x.seq)
    BY DEF ReadsReturned, AnswersAgree
  <2>4. \A q \in Ranks : \A j \in DOMAIN down'[q] : down'[q][j].kind = "response" =>
          ComputedFrom(down'[q][j].of, down'[q][j].seq)
    BY <2>2
  <2>5. UNCHANGED made
    BY DEF Reads
  <2> QED
    BY <2>3, <2>4, <2>5 DEF AnswersAgree, ComputedFrom
<1>7. Phases'
  BY DEF Phases, Reads, loop, Missing, Round
<1>8. Streams'
  <2> SUFFICES ASSUME NEW q \in Ranks, Live(q)'
               PROVE  /\ server # "stopped" => next_sequence'[q] + Len(down'[q]) = Answered(q)
                      /\ \A j \in DOMAIN down'[q] : down'[q][j].kind = "abort" =>
                           down'[q][j].seq = next_sequence'[q] + j - 1 \/ result = "write_error"
    BY DEF Streams, Reads, loop, Answered
  <2>1. CASE q # r
    BY <2>1 DEF Streams, Live, Reads
  <2>2. CASE q = r
    <3>1. /\ session'[r] = "idle" /\ next_sequence'[r] = next_sequence[r] + 1
          /\ down[r] # <<>> /\ down'[r] = Tail(down[r]) /\ Live(r)
      BY <2>2 DEF Reads, Live
    <3>2. /\ server # "stopped" => next_sequence[r] + Len(down[r]) = Answered(r)
          /\ \A j \in DOMAIN down[r] : down[r][j].kind = "abort" =>
               down[r][j].seq = next_sequence[r] + j - 1 \/ result = "write_error"
      BY <3>1 DEF Streams
    <3>3. down[r] \in Seq(Messages) /\ next_sequence[r] \in Nat
      BY DEF TypeOK
    <3>4. /\ Len(down[r]) \in Nat \ {0} /\ Len(down'[r]) = Len(down[r]) - 1
          /\ DOMAIN down[r] = 1 .. Len(down[r]) /\ DOMAIN down'[r] = 1 .. Len(down[r]) - 1
          /\ \A i \in 1 .. Len(down[r]) - 1 : down'[r][i] = down[r][i + 1]
      BY <3>1, <3>3, TailElements
    <3>5. server # "stopped" => next_sequence'[r] + Len(down'[r]) = Answered(r)
      BY <3>1, <3>2, <3>3, <3>4
    <3>6. ASSUME NEW j \in DOMAIN down'[r], down'[r][j].kind = "abort"
          PROVE  down'[r][j].seq = next_sequence'[r] + j - 1 \/ result = "write_error"
      <4>1. j + 1 \in DOMAIN down[r] /\ down'[r][j] = down[r][j + 1] /\ j \in Nat
        BY <3>4
      <4>2. down[r][j + 1].seq = next_sequence[r] + (j + 1) - 1 \/ result = "write_error"
        BY <4>1, <3>2, <3>6
      <4> QED
        BY <4>1, <4>2, <3>1, <3>3
    <3> QED
      BY <2>2, <3>5, <3>6
  <2> QED
    BY <2>1, <2>2
<1>9. Together'
  BY DEF Together, Reads
<1> QED
  BY <1>2, <1>3, <1>4, <1>5, <1>6, <1>7, <1>8, <1>9

(* A response that is counted has the sequence the rank waits for, so it    *)
(* was computed from the call that the rank has made last.                  *)
LEMMA ReadResponseKeeps ==
  ASSUME RoundInv, Retry = FALSE, NEW r \in Ranks, ReadResponse(r)
  PROVE  RoundInv'
<1> USE DEF RoundInv
<1> DEFINE m == Head(down[r])
           counted == m.seq = next_sequence[r] /\ Counted(r, m)
<1>1. /\ session[r] = "waiting" /\ down[r] # <<>> /\ m.kind = "response"
      /\ down' = [down EXCEPT ![r] = Tail(@)]
      /\ next_sequence' = [next_sequence EXCEPT ![r] = IF counted THEN @ + 1 ELSE @]
      /\ \/ /\ counted /\ session' = [session EXCEPT ![r] = "idle"]
            /\ returned' = returned \cup
                 {[rank |-> r, call |-> Len(made[r]), seq |-> m.seq, of |-> m.of]}
         \/ session' = [session EXCEPT ![r] = "failed"] /\ UNCHANGED returned
      /\ UNCHANGED <<made, timeouts, loop, up, server_failure>>
  BY DEF ReadResponse, Fails
<1>2. down[r] \in Seq(Messages) /\ next_sequence[r] \in Nat /\ made[r] \in Seq(Frames)
      /\ \A q \in Ranks : Len(made[q]) \in Nat
  BY DEF TypeOK
<1>3. /\ m = down[r][1] /\ m \in Messages /\ Len(down[r]) \in Nat \ {0}
      /\ Tail(down[r]) \in Seq(Messages)
      /\ DOMAIN down[r] = 1 .. Len(down[r]) /\ DOMAIN Tail(down[r]) = 1 .. Len(down[r]) - 1
      /\ \A i \in 1 .. Len(down[r]) - 1 : Tail(down[r])[i] = down[r][i + 1]
  BY <1>1, <1>2, TailElements
<1>4. m.seq \in Nat /\ m.of \in [Ranks -> Calls]
  BY <1>1, <1>3 DEF Messages, Eof, Torn
<1> HIDE DEF m
<1>5. ComputedFrom(m.of, m.seq)
  BY <1>1, <1>3 DEF AnswersAgree
<1>6. Len(made[r]) = next_sequence[r] + 1
  BY <1>1 DEF CallsNumbered
<1>7. down'[r] = Tail(down[r]) /\ down' \in [Ranks -> Seq(Messages)]
      /\ \A q \in Ranks \ {r} : down'[q] = down[q]
  BY <1>1, <1>3 DEF TypeOK
<1>8. /\ next_sequence' \in [Ranks -> Nat]
      /\ next_sequence'[r] \in {next_sequence[r], next_sequence[r] + 1}
      /\ counted => next_sequence'[r] = m.seq + 1 /\ next_sequence'[r] = next_sequence[r] + 1
      /\ ~counted => next_sequence'[r] = next_sequence[r]
      /\ \A q \in Ranks \ {r} : next_sequence'[q] = next_sequence[q]
  <2>1. next_sequence \in [Ranks -> Nat]
    BY DEF TypeOK
  <2>2. CASE counted
    BY <1>1, <2>1, <2>2
  <2>3. CASE ~counted
    BY <1>1, <2>1, <2>3
  <2> QED
    BY <2>2, <2>3
<1>9. \A q \in Ranks : next_sequence'[r] <= Len(made[q])
  <2> SUFFICES ASSUME NEW q \in Ranks PROVE next_sequence'[r] <= Len(made[q])
    OBVIOUS
  <2>1. CASE counted
    BY <2>1, <1>2, <1>4, <1>5, <1>8 DEF ComputedFrom
  <2>2. CASE ~counted
    BY <2>2, <1>8 DEF Together
  <2> QED
    BY <2>1, <2>2
<1>10. \A j \in DOMAIN down'[r] : \E i \in DOMAIN down[r] : down'[r][j] = down[r][i]
  <2> SUFFICES ASSUME NEW j \in 1 .. Len(down[r]) - 1
               PROVE  \E i \in DOMAIN down[r] : down'[r][j] = down[r][i]
    BY <1>3, <1>7
  <2>1. j + 1 \in DOMAIN down[r] /\ down'[r][j] = down[r][j + 1]
    BY <1>3, <1>7
  <2> QED
    BY <2>1
<1>11. /\ session' \in [Ranks -> {"idle", "waiting", "failed", "closed"}]
       /\ session'[r] \in {"idle", "failed"} /\ session'[r] = "idle" => counted
       /\ \A q \in Ranks \ {r} : session'[q] = session[q]
  BY <1>1 DEF TypeOK
<1>12. timeouts' \in Nat
  BY <1>1 DEF TypeOK
<1>13. Reads(r)
  BY <1>1, <1>7, <1>8, <1>9, <1>10, <1>11, <1>12 DEF Reads
<1>14. ReadsReturned
  <2>1. CASE UNCHANGED returned
    BY <2>1 DEF ReadsReturned
  <2>2. CASE /\ counted
             /\ returned' = returned \cup
                  {[rank |-> r, call |-> Len(made[r]), seq |-> m.seq, of |-> m.of]}
    <3> DEFINE x == [rank |-> r, call |-> Len(made[r]), seq |-> m.seq, of |-> m.of]
    <3>1. x.call = x.seq + 1
      BY <2>2, <1>6
    <3>2. Len(made[r]) \in Calls
      <4>1. m.of[r] = Len(made[r]) /\ m.of[r] \in Calls
        BY <2>2, <1>4, <1>5, <1>6 DEF ComputedFrom
      <4> QED
        BY <4>1
    <3>3. x \in [rank : Ranks, call : Calls, seq : Nat, of : [Ranks -> Calls]]
      BY <3>2, <1>4
    <3>4. ComputedFrom(x.of, x.seq)
      BY <1>5
    <3> HIDE DEF x
    <3>5. returned' = returned \cup {x}
      BY <2>2 DEF x
    <3> QED
      BY <3>1, <3>3, <3>4, <3>5 DEF ReadsReturned
  <2> QED
    BY <2>1, <2>2, <1>1
<1> QED
  BY <1>13, <1>14, ReadsKeep

(* The other outcomes of a read are errors.                                 *)
LEMMA ReadFailureKeeps ==
  ASSUME RoundInv, Retry = FALSE, NEW r \in Ranks,
         ReadAbort(r) \/ ReadError(r) \/ ReadTimesOut(r)
  PROVE  RoundInv'
<1> USE DEF RoundInv
<1>1. /\ session[r] = "waiting" /\ session' = [session EXCEPT ![r] = "failed"]
      /\ UNCHANGED <<next_sequence, made, returned, loop, up, server_failure>>
      /\ timeouts' \in Nat
  BY DEF ReadAbort, ReadError, ReadTimesOut, Fails, TypeOK
<1>2. \/ down' = down
      \/ down[r] # <<>> /\ down' = [down EXCEPT ![r] = Tail(@)]
      \/ down[r] # <<>> /\ down' = [down EXCEPT ![r] = <<Torn>> \o Tail(@)]
  BY DEF ReadAbort, ReadError, ReadTimesOut
<1>3. down[r] \in Seq(Messages) /\ down \in [Ranks -> Seq(Messages)]
  BY DEF TypeOK
<1>4. down[r] # <<>> =>
        /\ Len(down[r]) \in Nat \ {0} /\ Tail(down[r]) \in Seq(Messages)
        /\ Len(Tail(down[r])) = Len(down[r]) - 1
        /\ DOMAIN down[r] = 1 .. Len(down[r]) /\ DOMAIN Tail(down[r]) = 1 .. Len(down[r]) - 1
        /\ \A i \in 1 .. Len(down[r]) - 1 : Tail(down[r])[i] = down[r][i + 1]
  BY <1>3, TailElements
<1>5. /\ down' \in [Ranks -> Seq(Messages)] /\ \A q \in Ranks \ {r} : down'[q] = down[q]
      /\ \A j \in DOMAIN down'[r] : down'[r][j].kind = "response" =>
           \E i \in DOMAIN down[r] : down'[r][j] = down[r][i]
  <2>1. CASE down' = down
    BY <2>1, <1>3
  <2>2. CASE down[r] # <<>> /\ down' = [down EXCEPT ![r] = Tail(@)]
    <3>1. down'[r] = Tail(down[r]) /\ down' \in [Ranks -> Seq(Messages)]
          /\ \A q \in Ranks \ {r} : down'[q] = down[q]
      BY <2>2, <1>3, <1>4
    <3>2. ASSUME NEW j \in DOMAIN down'[r]
          PROVE  \E i \in DOMAIN down[r] : down'[r][j] = down[r][i]
      <4>1. j + 1 \in DOMAIN down[r] /\ down'[r][j] = down[r][j + 1]
        BY <2>2, <3>1, <1>4
      <4> QED
        BY <4>1
    <3> QED
      BY <3>1, <3>2
  <2>3. CASE down[r] # <<>> /\ down' = [down EXCEPT ![r] = <<Torn>> \o Tail(@)]
    <3>1. /\ <<Torn>> \in Seq(Messages) /\ Len(<<Torn>>) = 1 /\ <<Torn>>[1] = Torn
          /\ Tail(down[r]) \in Seq(Messages)
      BY <2>3, <1>4, EndTypes
    <3>2. /\ <<Torn>> \o Tail(down[r]) \in Seq(Messages)
          /\ DOMAIN (<<Torn>> \o Tail(down[r])) = 1 .. Len(<<Torn>>) + Len(Tail(down[r]))
          /\ \A i \in 1 .. Len(<<Torn>>) : (<<Torn>> \o Tail(down[r]))[i] = <<Torn>>[i]
          /\ \A i \in 1 .. Len(Tail(down[r])) :
               (<<Torn>> \o Tail(down[r]))[Len(<<Torn>>) + i] = Tail(down[r])[i]
      BY <3>1, ConcatElements
    <3>3. down'[r] = <<Torn>> \o Tail(down[r]) /\ down' \in [Ranks -> Seq(Messages)]
          /\ \A q \in Ranks \ {r} : down'[q] = down[q]
      BY <2>3, <1>3, <3>2
    <3>4. ASSUME NEW j \in DOMAIN down'[r], down'[r][j].kind = "response"
          PROVE  \E i \in DOMAIN down[r] : down'[r][j] = down[r][i]
      <4>1. j \in 1 .. Len(down[r]) /\ Len(down[r]) \in Nat
        BY <2>3, <3>1, <3>2, <3>3, <1>4
      <4>2. j # 1
        <5>1. down'[r][1] = Torn
          BY <3>1, <3>2, <3>3
        <5> QED
          BY <5>1, <3>4, FrameKinds
      <4>3. j - 1 \in 1 .. Len(down[r]) - 1 /\ 1 + (j - 1) = j /\ (j - 1) + 1 = j
        BY <4>1, <4>2
      <4>4. down'[r][1 + (j - 1)] = Tail(down[r])[j - 1]
        BY <4>3, <3>1, <3>2, <3>3, <2>3, <1>4
      <4>5. Tail(down[r])[j - 1] = down[r][(j - 1) + 1]
        BY <4>3, <2>3, <1>4
      <4>6. down'[r][j] = down[r][j] /\ j \in DOMAIN down[r]
        BY <4>1, <4>3, <4>4, <4>5, <2>3, <1>4
      <4> QED
        BY <4>6
    <3> QED
      BY <3>3, <3>4
  <2> QED
    BY <2>1, <2>2, <2>3, <1>2
<1>6. \A q \in Ranks : next_sequence'[r] <= Len(made[q])
  BY <1>1 DEF Together
<1>7. Reads(r)
  <2>1. /\ session' \in [Ranks -> {"idle", "waiting", "failed", "closed"}]
        /\ session'[r] = "failed" /\ \A q \in Ranks \ {r} : session'[q] = session[q]
    BY <1>1 DEF TypeOK
  <2>2. next_sequence' \in [Ranks -> Nat] /\ next_sequence' = next_sequence
    BY <1>1 DEF TypeOK
  <2> QED
    BY <1>1, <1>5, <1>6, <2>1, <2>2 DEF Reads
<1>8. ReadsReturned
  BY <1>1 DEF ReadsReturned
<1> QED
  BY <1>7, <1>8, ReadsKeep

(* A session ends.                                                          *)
LEMMA CloseKeeps ==
  ASSUME RoundInv, NEW r \in Ranks, Close(r)
  PROVE  RoundInv'
<1> USE DEF RoundInv
<1>1. PICK last \in {Eof, Reset} : up' = [up EXCEPT ![r] = Append(@, last)]
  BY DEF Close
<1>2. /\ session' = [session EXCEPT ![r] = "closed"]
      /\ down' = [down EXCEPT ![r] = <<>>]
      /\ UNCHANGED <<next_sequence, made, timeouts, returned, loop, server_failure>>
  BY DEF Close
<1>3. /\ session' \in [Ranks -> {"idle", "waiting", "failed", "closed"}]
      /\ session'[r] = "closed" /\ \A q \in Ranks \ {r} : session'[q] = session[q]
  BY <1>2 DEF TypeOK
<1>4. /\ down' \in [Ranks -> Seq(Messages)] /\ DOMAIN down'[r] = {}
      /\ \A q \in Ranks \ {r} : down'[q] = down[q]
  BY <1>2 DEF TypeOK
<1>5. /\ up' \in [Ranks -> Seq(Frames \cup {Eof, Reset})]
      /\ \A q \in Ranks \ {r} : up'[q] = up[q]
      /\ Len(up[r]) \in Nat /\ DOMAIN up[r] = 1 .. Len(up[r])
      /\ DOMAIN up'[r] = 1 .. Len(up[r]) + 1 /\ up'[r][Len(up[r]) + 1] = last
      /\ \A i \in 1 .. Len(up[r]) : up'[r][i] = up[r][i]
  <2>1. up \in [Ranks -> Seq(Frames \cup {Eof, Reset})]
    BY DEF TypeOK
  <2>2. up[r] \in Seq(Frames \cup {Eof, Reset}) /\ up'[r] = Append(up[r], last)
    BY <2>1, <1>1
  <2> QED
    BY <2>1, <2>2, <1>1, AppendElements
<1>6. TypeOK'
  BY <1>2, <1>3, <1>4, <1>5 DEF TypeOK, loop
<1>7. CallsNumbered'
  BY <1>2, <1>3 DEF CallsNumbered
<1>8. Collected' /\ Together'
  BY <1>2 DEF Collected, Together, loop
<1>9. Delivered'
  <2> SUFFICES ASSUME server # "stopped", NEW q \in Ranks
               PROVE  /\ active_sequence <= Len(made[q])
                      /\ \A i \in DOMAIN up'[q] : up'[q][i].kind = "frame" =>
                           Taken(q) + i <= Len(made[q]) /\ up'[q][i] = made[q][Taken(q) + i]
                      /\ session'[q] # "closed" => Taken(q) + Len(up'[q]) = Len(made[q])
    BY <1>2 DEF Delivered, loop, Taken
  <2>1. /\ active_sequence <= Len(made[q])
        /\ \A i \in DOMAIN up[q] : up[q][i].kind = "frame" =>
             Taken(q) + i <= Len(made[q]) /\ up[q][i] = made[q][Taken(q) + i]
        /\ session[q] # "closed" => Taken(q) + Len(up[q]) = Len(made[q])
    BY DEF Delivered
  <2>2. CASE q = r
    <3>1. ASSUME NEW i \in DOMAIN up'[r], up'[r][i].kind = "frame"
          PROVE  i \in DOMAIN up[r] /\ up'[r][i] = up[r][i]
      <4>1. i # Len(up[r]) + 1
        BY <3>1, <1>5, <1>1, FrameKinds
      <4> QED
        BY <4>1, <1>5
    <3> QED
      BY <2>1, <2>2, <3>1, <1>3
  <2>3. CASE q # r
    BY <2>1, <2>3, <1>3, <1>5
  <2> QED
    BY <2>2, <2>3
<1>10. AnswersAgree'
  <2>1. made' = made /\ returned' = returned
    BY <1>2
  <2>2. \A q \in Ranks : \A i \in DOMAIN down'[q] :
          down'[q][i].kind = "response" => ComputedFrom(down'[q][i].of, down'[q][i].seq)
    BY <1>4 DEF AnswersAgree
  <2> QED
    BY <2>1, <2>2 DEF AnswersAgree, ComputedFrom
<1>11. Phases'
  BY <1>2 DEF Phases, loop, Missing, Round
<1>12. Streams'
  <2>1. \A q \in Ranks : Live(q)' => Live(q) /\ q # r
    BY <1>3 DEF Live
  <2> QED
    BY <2>1, <1>2, <1>4 DEF Streams, Answered, loop
<1> QED
  BY <1>6, <1>7, <1>8, <1>9, <1>10, <1>11, <1>12

-----------------------------------------------------------------------------
(* The coordinator.                                                         *)

(* What the coordinator writes when it stops.                               *)
LastFrames(outcome, s) == IF outcome = "ok" THEN <<Eof>> ELSE <<AbortFrame(s), Eof>>

(* It is the end of the stream, after an abort if there is an error.        *)
LEMMA LastWords ==
  ASSUME NEW outcome, NEW s \in Nat, NEW last, last = LastFrames(outcome, s)
  PROVE  /\ last \in Seq(Messages) /\ Len(last) \in Nat
         /\ \A i \in 1 .. Len(last) : last[i].kind # "response"
         /\ \A i \in 1 .. Len(last) : last[i].kind = "abort" =>
              outcome # "ok" /\ i = 1 /\ last[i].seq = s
<1>1. AbortFrame(s) \in Messages /\ AbortFrame(s).kind = "abort" /\ AbortFrame(s).seq = s
  BY AbortType DEF AbortFrame
<1>2. Eof.kind = "eof" /\ Eof \in Messages
  BY FrameKinds, EndTypes
<1>3. CASE outcome = "ok"
  <2>1. last = <<Eof>>
    BY <1>3 DEF LastFrames
  <2>2. last \in Seq(Messages) /\ Len(last) = 1 /\ last[1] = Eof
    BY <2>1, <1>2
  <2> QED
    BY <2>2, <1>2
<1>4. CASE outcome # "ok"
  <2>1. last = <<AbortFrame(s), Eof>>
    BY <1>4 DEF LastFrames
  <2>2. last \in Seq(Messages) /\ Len(last) = 2 /\ last[1] = AbortFrame(s) /\ last[2] = Eof
    BY <2>1, <1>1, <1>2
  <2>3. \A i \in 1 .. 2 : i = 1 \/ i = 2
    OBVIOUS
  <2> QED
    BY <2>2, <2>3, <1>1, <1>2, <1>4
<1> QED
  BY <1>3, <1>4

(* The coordinator stops between two rounds, in a round that it has not     *)
(* begun to answer, or because an answer cannot be written.                 *)
LEMMA StopKeeps ==
  ASSUME RoundInv, NEW outcome \in {"ok", "error", "write_error"}, Stop(outcome),
         server # "stopped", outcome # "write_error" => written = {}, agreed' \in Nat
  PROVE  RoundInv'
<1> USE DEF RoundInv
<1> DEFINE last == LastFrames(outcome, active_sequence)
<1>1. /\ server' = "stopped" /\ result' = outcome
      /\ down' = [r \in Ranks |-> Written(r, last)]
      /\ UNCHANGED <<requests, written, active_sequence, up, server_failure, client>>
  BY DEF Stop, LastFrames
<1>2. active_sequence \in Nat /\ down \in [Ranks -> Seq(Messages)]
  BY DEF TypeOK
<1>3. /\ last \in Seq(Messages) /\ Len(last) \in Nat
      /\ \A i \in 1 .. Len(last) : last[i].kind # "response"
      /\ \A i \in 1 .. Len(last) : last[i].kind = "abort" =>
           outcome # "ok" /\ i = 1 /\ last[i].seq = active_sequence
  BY <1>2, LastWords
<1> HIDE DEF last
<1>4. ASSUME NEW q \in Ranks
      PROVE  \/ down'[q] = down[q] /\ session[q] = "closed"
             \/ /\ session[q] # "closed"
                /\ down'[q] \in Seq(Messages)
                /\ DOMAIN down'[q] = 1 .. Len(down[q]) + Len(last)
                /\ \A i \in 1 .. Len(down[q]) : down'[q][i] = down[q][i]
                /\ \A i \in 1 .. Len(last) : down'[q][Len(down[q]) + i] = last[i]
  <2>1. down'[q] = Written(q, last) /\ down[q] \in Seq(Messages)
    BY <1>1, <1>2
  <2>2. CASE session[q] = "closed"
    BY <2>1, <2>2 DEF Written
  <2>3. CASE session[q] # "closed"
    <3>1. down'[q] = down[q] \o last
      BY <2>1, <2>3 DEF Written
    <3> QED
      BY <2>1, <2>3, <3>1, <1>3, ConcatElements
  <2> QED
    BY <2>2, <2>3
<1>5. down' \in [Ranks -> Seq(Messages)]
  <2>1. \A q \in Ranks : down'[q] \in Seq(Messages)
    BY <1>2, <1>4
  <2> QED
    BY <2>1, <1>1
<1>6. TypeOK'
  BY <1>1, <1>5 DEF TypeOK, client
<1>7. CallsNumbered' /\ Collected' /\ Together'
  BY <1>1 DEF CallsNumbered, Collected, Together, client
<1>8. Delivered' /\ Phases'
  BY <1>1 DEF Delivered, Phases
<1>9. ASSUME NEW q \in Ranks, NEW j \in DOMAIN down'[q]
      PROVE  \/ j \in DOMAIN down[q] /\ down'[q][j] = down[q][j]
             \/ /\ session[q] # "closed"
                /\ \E i \in 1 .. Len(last) : j = Len(down[q]) + i /\ down'[q][j] = last[i]
  <2>1. Len(down[q]) \in Nat /\ DOMAIN down[q] = 1 .. Len(down[q])
    BY <1>2
  <2>2. CASE session[q] = "closed"
    BY <2>2, <1>4
  <2>3. CASE session[q] # "closed"
    <3>1. j \in 1 .. Len(down[q]) + Len(last)
      BY <2>3, <1>4, <1>9
    <3>2. CASE j <= Len(down[q])
      BY <3>1, <3>2, <2>1, <2>3, <1>3, <1>4
    <3>3. CASE j > Len(down[q])
      <4>1. j - Len(down[q]) \in 1 .. Len(last) /\ j = Len(down[q]) + (j - Len(down[q]))
        <5>1. Len(down[q]) \in Nat /\ Len(last) \in Nat
          BY <2>1, <1>3
        <5> QED
          BY <3>1, <3>3, <5>1
      <4> QED
        BY <4>1, <2>3, <1>4
    <3> QED
      BY <3>1, <3>2, <3>3, <2>1, <1>3
  <2> QED
    BY <2>2, <2>3
<1>10. AnswersAgree'
  <2>1. made' = made /\ returned' = returned
    BY <1>1 DEF client
  <2>2. ASSUME NEW q \in Ranks, NEW j \in DOMAIN down'[q], down'[q][j].kind = "response"
        PROVE  ComputedFrom(down'[q][j].of, down'[q][j].seq)
    <3>1. j \in DOMAIN down[q] /\ down'[q][j] = down[q][j]
      BY <1>3, <1>9, <2>2
    <3> QED
      BY <3>1, <2>2 DEF AnswersAgree
  <2> QED
    BY <2>1, <2>2 DEF AnswersAgree, ComputedFrom
<1>11. Streams'
  <2> SUFFICES ASSUME NEW q \in Ranks, Live(q), NEW j \in DOMAIN down'[q],
                      down'[q][j].kind = "abort", outcome # "write_error"
               PROVE  down'[q][j].seq = next_sequence[q] + j - 1
    BY <1>1 DEF Streams, Live, client
  <2>1. result = "running"
    BY DEF Phases
  <2>2. CASE j \in DOMAIN down[q] /\ down'[q][j] = down[q][j]
    BY <2>1, <2>2 DEF Streams
  <2>3. CASE \E i \in 1 .. Len(last) : j = Len(down[q]) + i /\ down'[q][j] = last[i]
    <3>1. PICK i \in 1 .. Len(last) : j = Len(down[q]) + i /\ down'[q][j] = last[i]
      BY <2>3
    <3>2. i = 1 /\ last[i].seq = active_sequence
      BY <3>1, <1>3
    <3>3. Answered(q) = active_sequence
      BY <1>2 DEF Answered
    <3>4. next_sequence[q] + Len(down[q]) = active_sequence
      BY <3>3 DEF Streams
    <3>5. next_sequence[q] \in Nat /\ Len(down[q]) \in Nat
      BY <1>2 DEF TypeOK
    <3> QED
      BY <3>1, <3>2, <3>4, <3>5
  <2> QED
    BY <2>2, <2>3, <1>9
<1> QED
  BY <1>6, <1>7, <1>8, <1>10, <1>11

(* Steps that change the phase of the coordinator and nothing else.         *)
LEMMA PhaseKeeps ==
  ASSUME RoundInv, Phases', server # "stopped", server' \in {"check", "receive", "answer"},
         agreed' \in Nat, server_failure' \in BOOLEAN,
         UNCHANGED <<result, requests, written, active_sequence, client, up, down>>
  PROVE  RoundInv'
<1> USE DEF RoundInv
<1>1. TypeOK'
  BY DEF TypeOK, client
<1>2. CallsNumbered' /\ Collected' /\ Together'
  BY DEF CallsNumbered, Collected, Together, client
<1>3. Delivered'
  BY DEF Delivered, Taken, client
<1>4. AnswersAgree'
  <2>1. UNCHANGED <<made, returned, down>>
    BY DEF client
  <2> QED
    BY <2>1 DEF AnswersAgree, ComputedFrom
<1>5. Streams'
  BY DEF Streams, Answered, Live, client
<1> QED
  BY <1>1, <1>2, <1>3, <1>4, <1>5

(* The head of an iteration, a deadline and an empty poll.                  *)
LEMMA CheckKeeps ==
  ASSUME RoundInv, Check \/ Deadline \/ Poll
  PROVE  RoundInv'
<1> USE DEF RoundInv
<1>1. agreed' \in Nat /\ agreed' = agreed /\ server # "stopped" /\ server \in {"check", "receive"}
  BY DEF Check, Deadline, Poll, TypeOK
<1>2. written = {} /\ agreed = active_sequence /\ result = "running"
  BY <1>1 DEF Phases
<1>3. CASE Stop("error")
  BY <1>1, <1>2, <1>3, StopKeeps
<1>4. CASE /\ server' \in {"check", "receive"}
           /\ UNCHANGED <<result, requests, written, active_sequence, client, up, down, server_failure>>
  <2>1. Phases'
    BY <1>1, <1>2, <1>4 DEF Phases
  <2>2. server_failure' \in BOOLEAN
    BY <1>4 DEF TypeOK
  <2> QED
    BY <1>1, <1>4, <2>1, <2>2, PhaseKeeps
<1> QED
  BY <1>3, <1>4 DEF Check, Deadline, Poll

(* The router publishes a failure.                                          *)
LEMMA PublishKeeps ==
  ASSUME RoundInv, PublishFailure
  PROVE  RoundInv'
<1> USE DEF RoundInv
<1>1. server_failure' = TRUE /\ UNCHANGED <<client, loop, up, down>>
  BY DEF PublishFailure
<1>2. TypeOK'
  BY <1>1 DEF TypeOK, client, loop
<1>3. CallsNumbered' /\ Collected' /\ Together'
  BY <1>1 DEF CallsNumbered, Collected, Together, client, loop
<1>4. Delivered'
  BY <1>1 DEF Delivered, Taken, client, loop
<1>5. AnswersAgree'
  <2>1. UNCHANGED <<made, returned, down>>
    BY <1>1 DEF client
  <2> QED
    BY <2>1 DEF AnswersAgree, ComputedFrom
<1>6. Streams'
  BY <1>1 DEF Streams, Answered, Live, client, loop
<1>7. Phases'
  BY <1>1 DEF Phases, Missing, Round, loop
<1> QED
  BY <1>2, <1>3, <1>4, <1>5, <1>6, <1>7

(* All requests are there: they agree and are routed, or the session ends.  *)
LEMMA RouteKeeps ==
  ASSUME RoundInv, Route
  PROVE  RoundInv'
<1> USE DEF RoundInv
<1>1. server = "check" /\ Missing = {} /\ agreed' = IF AgreeAll(Round) THEN agreed + 1 ELSE agreed
  BY DEF Route
<1>2. written = {} /\ agreed = active_sequence /\ result = "running" /\ agreed' \in Nat
  BY <1>1 DEF Phases, TypeOK
<1>3. CASE ~Accepted(Round)
  <2>1. Stop("error")
    BY <1>3 DEF Route
  <2> QED
    BY <1>1, <1>2, <2>1, StopKeeps
<1>4. CASE Accepted(Round)
  <2>1. /\ server' = "answer"
        /\ UNCHANGED <<result, requests, written, active_sequence, client, up, down, server_failure>>
    BY <1>4 DEF Route
  <2>2. agreed' = active_sequence + 1
    BY <1>1, <1>2, <1>4 DEF Accepted
  <2>3. Missing' = {} /\ Accepted(Round')
    BY <1>1, <1>4, <2>1 DEF Missing, Round
  <2>4. 0 \in 0 .. WorldSize - 1 /\ written' = 0 .. 0 - 1
    BY <1>2, <2>1, WorldSizeAssumption
  <2>5. Phases'
    BY <1>2, <2>1, <2>2, <2>3, <2>4 DEF Phases, Accepted
  <2>6. server_failure' \in BOOLEAN
    BY <2>1 DEF TypeOK
  <2> QED
    BY <1>1, <1>2, <2>1, <2>5, <2>6, PhaseKeeps
<1> QED
  BY <1>3, <1>4

(* A rank is lost: the session ends.                                        *)
LEMMA RankLostKeeps ==
  ASSUME RoundInv, NEW r \in Ranks, RankLost(r)
  PROVE  RoundInv'
<1> USE DEF RoundInv
<1>1. server = "receive" /\ agreed' = agreed /\ (Stop("ok") \/ Stop("error"))
  BY DEF RankLost
<1>2. written = {} /\ agreed' \in Nat
  BY <1>1 DEF Phases, TypeOK
<1> QED
  BY <1>1, <1>2, StopKeeps

(* The coordinator takes the next frame of a rank.                          *)
LEMMA CollectKeeps ==
  ASSUME RoundInv, NEW r \in Ranks, Collect(r)
  PROVE  RoundInv'
<1> USE DEF RoundInv
<1>1. server = "receive" /\ agreed' = agreed /\ up[r] # <<>> /\ Head(up[r]).kind = "frame"
  BY DEF Collect
<1>2. written = {} /\ agreed' \in Nat /\ agreed = active_sequence /\ result = "running"
  BY <1>1 DEF Phases, TypeOK
<1>3. CASE requests[r] # NoFrame
  <2>1. Stop("error")
    BY <1>3 DEF Collect
  <2> QED
    BY <1>1, <1>2, <2>1, StopKeeps
<1>4. CASE requests[r] = NoFrame
  <2>1. /\ requests' = [requests EXCEPT ![r] = Head(up[r])]
        /\ server' = "check"
        /\ up' = [up EXCEPT ![r] = Tail(@)]
        /\ UNCHANGED <<result, down, written, active_sequence, client, server_failure>>
    BY <1>4 DEF Collect
  <2>2. up \in [Ranks -> Seq(Frames \cup {Eof, Reset})] /\ up[r] \in Seq(Frames \cup {Eof, Reset})
    BY DEF TypeOK
  <2>3. /\ Head(up[r]) = up[r][1] /\ Head(up[r]) \in Frames \cup {Eof, Reset}
        /\ Len(up[r]) \in Nat \ {0} /\ Tail(up[r]) \in Seq(Frames \cup {Eof, Reset})
        /\ Len(Tail(up[r])) = Len(up[r]) - 1
        /\ DOMAIN up[r] = 1 .. Len(up[r]) /\ DOMAIN Tail(up[r]) = 1 .. Len(up[r]) - 1
        /\ \A i \in 1 .. Len(up[r]) - 1 : Tail(up[r])[i] = up[r][i + 1]
    BY <1>1, <2>2, TailElements
  <2>4. Head(up[r]) \in Frames /\ Head(up[r]) # NoFrame
    BY <1>1, <2>3, FrameKinds
  <2>5. /\ requests' \in [Ranks -> Frames \cup {NoFrame}] /\ requests'[r] = Head(up[r])
        /\ \A q \in Ranks \ {r} : requests'[q] = requests[q]
    BY <2>1, <2>4 DEF TypeOK
  <2>6. /\ up' \in [Ranks -> Seq(Frames \cup {Eof, Reset})] /\ up'[r] = Tail(up[r])
        /\ \A q \in Ranks \ {r} : up'[q] = up[q]
    BY <2>1, <2>2, <2>3
  <2>7. TypeOK'
    BY <1>2, <2>1, <2>5, <2>6 DEF TypeOK, client
  <2>8. CallsNumbered' /\ Together'
    BY <2>1 DEF CallsNumbered, Together, client
  <2>9. Taken(r) = active_sequence /\ Taken(r)' = active_sequence + 1 /\ active_sequence \in Nat
    BY <1>4, <2>1, <2>4, <2>5 DEF Taken, TypeOK
  <2>10. /\ active_sequence <= Len(made[r]) /\ Len(made[r]) \in Nat
         /\ \A i \in DOMAIN up[r] : up[r][i].kind = "frame" =>
              active_sequence + i <= Len(made[r]) /\ up[r][i] = made[r][active_sequence + i]
         /\ session[r] # "closed" => active_sequence + Len(up[r]) = Len(made[r])
    BY <1>1, <2>9 DEF Delivered, TypeOK
  <2>11. Collected'
    <3> SUFFICES ASSUME NEW q \in Ranks, requests'[q] # NoFrame
                 PROVE  active_sequence < Len(made[q]) /\ requests'[q] = made[q][active_sequence + 1]
      BY <2>1 DEF Collected, client
    <3>1. CASE q = r
      <4>1. 1 \in DOMAIN up[r] /\ up[r][1].kind = "frame"
        BY <1>1, <2>3
      <4>2. active_sequence + 1 <= Len(made[r]) /\ up[r][1] = made[r][active_sequence + 1]
        BY <4>1, <2>10
      <4>3. active_sequence < Len(made[r])
        BY <4>2, <2>9, <2>10
      <4> QED
        BY <3>1, <4>2, <4>3, <2>3, <2>5
    <3>2. CASE q # r
      BY <3>2, <2>5 DEF Collected
    <3> QED
      BY <3>1, <3>2
  <2>12. Delivered'
    <3> SUFFICES ASSUME NEW q \in Ranks
                 PROVE  /\ active_sequence <= Len(made[q])
                        /\ \A i \in DOMAIN up'[q] : up'[q][i].kind = "frame" =>
                             Taken(q)' + i <= Len(made[q]) /\ up'[q][i] = made[q][Taken(q)' + i]
                        /\ session[q] # "closed" => Taken(q)' + Len(up'[q]) = Len(made[q])
      BY <2>1 DEF Delivered, client
    <3>1. CASE q = r
      <4>1. ASSUME NEW i \in DOMAIN up'[r], up'[r][i].kind = "frame"
            PROVE  Taken(r)' + i <= Len(made[r]) /\ up'[r][i] = made[r][Taken(r)' + i]
        <5>1. i + 1 \in DOMAIN up[r] /\ up'[r][i] = up[r][i + 1] /\ i \in Nat
          BY <2>3, <2>6
        <5>2. active_sequence + (i + 1) <= Len(made[r])
              /\ up[r][i + 1] = made[r][active_sequence + (i + 1)]
          BY <4>1, <5>1, <2>10
        <5>3. active_sequence + (i + 1) = (active_sequence + 1) + i
          BY <5>1, <2>9
        <5> QED
          BY <5>1, <5>2, <5>3, <2>9
      <4>2. session[r] # "closed" => Taken(r)' + Len(up'[r]) = Len(made[r])
        <5>1. Len(up'[r]) = Len(up[r]) - 1 /\ Len(up[r]) \in Nat
          BY <2>3, <2>6
        <5> QED
          BY <5>1, <2>9, <2>10
      <4> QED
        BY <3>1, <4>1, <4>2, <2>10
    <3>2. CASE q # r
      <4>1. Taken(q)' = Taken(q) /\ up'[q] = up[q]
        BY <3>2, <2>1, <2>5, <2>6 DEF Taken
      <4> QED
        BY <4>1, <1>1 DEF Delivered
    <3> QED
      BY <3>1, <3>2
  <2>13. AnswersAgree'
    <3>1. UNCHANGED <<made, returned, down>>
      BY <2>1 DEF client
    <3> QED
      BY <3>1 DEF AnswersAgree, ComputedFrom
  <2>14. Phases'
    BY <1>1, <1>2, <2>1 DEF Phases
  <2>15. Streams'
    BY <1>1, <2>1 DEF Streams, Answered, Live, client
  <2> QED
    BY <2>7, <2>8, <2>11, <2>12, <2>13, <2>14, <2>15
<1> QED
  BY <1>3, <1>4

(* The response to a round that was accepted was computed from the calls    *)
(* of all ranks for the active sequence, which agree.                       *)
LEMMA ResponseComputed ==
  ASSUME RoundInv, server = "answer"
  PROVE  /\ ResponseFrame.seq = active_sequence
         /\ ComputedFrom(ResponseFrame.of, active_sequence)
<1> USE DEF RoundInv
<1>1. Missing = {} /\ Accepted(Round)
  BY DEF Phases
<1>2. \A q \in Ranks : /\ active_sequence < Len(made[q])
                       /\ requests[q] = made[q][active_sequence + 1]
  BY <1>1 DEF Missing, Collected
<1>3. active_sequence \in Nat /\ \A q \in Ranks : made[q] \in Seq(Frames)
  BY DEF TypeOK
<1>4. ASSUME NEW q \in Ranks
      PROVE  requests[q].call = active_sequence + 1
  <2>1. active_sequence + 1 \in DOMAIN made[q]
    BY <1>2, <1>3
  <2> QED
    BY <2>1, <1>2 DEF CallsNumbered
<1>5. ASSUME NEW q \in Ranks
      PROVE  OperationDescriptor(requests[q].req) = OperationDescriptor(requests[0].req)
  <2>1. OperationDescriptor(Round[q]) = OperationDescriptor(Round[0])
    BY <1>1 DEF Accepted, AgreeAll
  <2>2. Round[q] = requests[q].req /\ Round[0] = requests[0].req
    BY RankZero DEF Round
  <2> QED
    BY <2>1, <2>2
<1>6. /\ ResponseFrame.seq = active_sequence
      /\ \A q \in Ranks : ResponseFrame.of[q] = requests[q].call
  BY DEF ResponseFrame
<1>7. ASSUME NEW q \in Ranks
      PROVE  OperationDescriptor(made[q][active_sequence + 1].req)
               = OperationDescriptor(made[0][active_sequence + 1].req)
  BY <1>2, <1>5, RankZero
<1>8. \A q \in Ranks : ResponseFrame.of[q] = active_sequence + 1 /\ active_sequence < Len(made[q])
  BY <1>2, <1>4, <1>6
<1> QED
  BY <1>6, <1>7, <1>8 DEF ComputedFrom

(* The next rank in turn is answered; the last one ends the round.          *)
LEMMA AnswerKeeps ==
  ASSUME RoundInv, NEW r \in Ranks, Answer(r)
  PROVE  RoundInv'
<1> USE DEF RoundInv
<1>1. server = "answer" /\ r = Cardinality(written) /\ agreed' = agreed
  BY DEF Answer
<1>2. agreed = active_sequence + 1 /\ Missing = {} /\ Accepted(Round) /\ result = "running"
  BY <1>1 DEF Phases
<1>3. agreed' \in Nat /\ active_sequence \in Nat /\ WorldSize \in Nat \ {0}
  BY <1>1, WorldSizeAssumption DEF TypeOK
<1>4. written = 0 .. r - 1 /\ r \in 0 .. WorldSize - 1
  <2>1. PICK n \in 0 .. WorldSize - 1 : written = 0 .. n - 1
    BY <1>1 DEF Phases
  <2>2. Cardinality(0 .. n - 1) = n
    <3>1. 0 \in Int /\ n - 1 \in Int
      BY <1>3
    <3>2. Cardinality(0 .. n - 1) = IF 0 > n - 1 THEN 0 ELSE n - 1 - 0 + 1
      BY <3>1, FS_Interval
    <3> QED
      BY <3>2, <1>3
  <2> QED
    BY <1>1, <2>1, <2>2
<1>5. CASE session[r] = "closed" /\ Stop("write_error")
  BY <1>1, <1>3, <1>5, StopKeeps
<1>6. CASE /\ down' = [down EXCEPT ![r] = Written(r, <<ResponseFrame>>)]
           /\ IF r = WorldSize - 1
              THEN /\ server' = "check"
                   /\ requests' = NextRound
                   /\ written' = {}
                   /\ active_sequence' = agreed
              ELSE /\ written' = written \cup {r}
                   /\ UNCHANGED <<server, requests, active_sequence>>
           /\ UNCHANGED <<result, client, up, server_failure>>
  <2>1. ResponseFrame \in Messages /\ ResponseFrame.kind = "response"
    BY <1>2, ResponseType
  <2>2. ResponseFrame.seq = active_sequence /\ ComputedFrom(ResponseFrame.of, active_sequence)
    BY <1>1, ResponseComputed
  <2>3. down \in [Ranks -> Seq(Messages)] /\ down[r] \in Seq(Messages)
    BY DEF TypeOK
  <2>4. /\ session[r] = "closed" => down'[r] = down[r]
        /\ session[r] # "closed" =>
             /\ Len(down'[r]) = Len(down[r]) + 1 /\ down'[r][Len(down[r]) + 1] = ResponseFrame
             /\ DOMAIN down'[r] = 1 .. Len(down[r]) + 1
             /\ \A i \in 1 .. Len(down[r]) : down'[r][i] = down[r][i]
        /\ down'[r] \in Seq(Messages)
    <3>1. down'[r] = Written(r, <<ResponseFrame>>)
      BY <1>6, <2>3
    <3>2. CASE session[r] = "closed"
      BY <3>1, <3>2, <2>3 DEF Written
    <3>3. CASE session[r] # "closed"
      <4>1. down'[r] = down[r] \o <<ResponseFrame>>
        BY <3>1, <3>3 DEF Written
      <4>2. /\ <<ResponseFrame>> \in Seq(Messages) /\ Len(<<ResponseFrame>>) = 1
            /\ <<ResponseFrame>>[1] = ResponseFrame
        BY <2>1
      <4> HIDE DEF ResponseFrame
      <4>3. /\ down'[r] \in Seq(Messages) /\ Len(down'[r]) = Len(down[r]) + 1
            /\ DOMAIN down'[r] = 1 .. Len(down[r]) + 1
            /\ \A i \in 1 .. Len(down[r]) : down'[r][i] = down[r][i]
            /\ \A i \in 1 .. 1 : down'[r][Len(down[r]) + i] = <<ResponseFrame>>[i]
        BY <4>1, <4>2, <2>3, ConcatElements
      <4> QED
        BY <3>3, <4>2, <4>3
    <3> QED
      BY <3>2, <3>3
  <2>5. down' \in [Ranks -> Seq(Messages)] /\ \A q \in Ranks \ {r} : down'[q] = down[q]
    BY <1>6, <2>3, <2>4
  <2>6. UNCHANGED <<session, next_sequence, made, timeouts, returned, up, server_failure, result, agreed>>
    BY <1>1, <1>6 DEF client
  <2>7. CallsNumbered' /\ Together'
    BY <2>6 DEF CallsNumbered, Together
  <2>8. AnswersAgree'
    <3>1. ASSUME NEW q \in Ranks, NEW j \in DOMAIN down'[q], down'[q][j].kind = "response"
          PROVE  ComputedFrom(down'[q][j].of, down'[q][j].seq)
      <4>1. CASE j \in DOMAIN down[q] /\ down'[q][j] = down[q][j]
        BY <3>1, <4>1 DEF AnswersAgree
      <4>2. CASE down'[q][j] = ResponseFrame
        BY <4>2, <2>2
      <4>3. CASE q = r /\ session[r] # "closed"
        <5>1. Len(down[r]) \in Nat /\ DOMAIN down[r] = 1 .. Len(down[r])
          BY <2>3
        <5>2. j \in 1 .. Len(down[r]) + 1
          BY <4>3, <2>4, <3>1
        <5>3. j = Len(down[r]) + 1 \/ j \in 1 .. Len(down[r])
          BY <5>1, <5>2
        <5> QED
          BY <5>1, <5>3, <4>1, <4>2, <4>3, <2>4
      <4> QED
        BY <4>1, <4>3, <2>4, <2>5
    <3> QED
      BY <2>6, <3>1 DEF AnswersAgree, ComputedFrom
  <2>9. ASSUME NEW q \in Ranks, Live(q)
        PROVE  /\ next_sequence[q] + Len(down'[q]) =
                    active_sequence + IF q \in 0 .. r THEN 1 ELSE 0
               /\ \A j \in DOMAIN down'[q] : down'[q][j].kind = "abort" =>
                    down'[q][j].seq = next_sequence[q] + j - 1
    <3>1. /\ next_sequence[q] + Len(down[q]) = Answered(q)
          /\ \A j \in DOMAIN down[q] : down[q][j].kind = "abort" =>
               down[q][j].seq = next_sequence[q] + j - 1
      BY <1>1, <1>2, <2>9 DEF Streams
    <3>2. next_sequence[q] \in Nat /\ Len(down[q]) \in Nat /\ DOMAIN down[q] = 1 .. Len(down[q])
          /\ q \in Int
      BY <2>3 DEF TypeOK, Ranks
    <3>3. CASE q = r
      <4>1. session[r] # "closed" /\ Answered(r) = active_sequence /\ r \in 0 .. r
        <5>1. r \notin 0 .. r - 1 /\ r \in 0 .. r
          BY <1>4
        <5>2. Answered(r) = active_sequence
          BY <5>1, <1>3, <1>4 DEF Answered
        <5>3. session[r] # "closed"
          BY <2>9, <3>3 DEF Live
        <5> QED
          BY <5>1, <5>2, <5>3
      <4>2. next_sequence[r] + Len(down'[r]) = active_sequence + 1
        <5>1. Len(down'[r]) = Len(down[r]) + 1
          BY <4>1, <2>4
        <5> QED
          BY <5>1, <4>1, <3>1, <3>2, <3>3, <1>3
      <4>3. \A j \in DOMAIN down'[r] : down'[r][j].kind = "abort" =>
              j \in DOMAIN down[r] /\ down'[r][j] = down[r][j]
        BY <4>1, <2>1, <2>4, <3>2, <3>3
      <4> QED
        BY <3>1, <3>3, <4>1, <4>2, <4>3
    <3>4. CASE q # r
      <4>1. down'[q] = down[q]
        BY <3>4, <2>5
      <4>2. q \in 0 .. r <=> q \in written
        BY <3>2, <3>4, <1>4
      <4> QED
        BY <3>1, <4>1, <4>2 DEF Answered
    <3> QED
      BY <3>3, <3>4
  <2>10. CASE r # WorldSize - 1
    <3>1. written' = 0 .. r /\ UNCHANGED <<server, requests, active_sequence>>
      <4>1. written' = written \cup {r} /\ UNCHANGED <<server, requests, active_sequence>>
        BY <2>10, <1>6
      <4>2. (0 .. r - 1) \cup {r} = 0 .. r
        BY <1>4
      <4> QED
        BY <4>1, <4>2, <1>4
    <3>2. r + 1 \in 0 .. WorldSize - 1 /\ written' = 0 .. (r + 1) - 1 /\ written' \subseteq Ranks
      BY <3>1, <2>10, <1>3, <1>4 DEF Ranks
    <3>3. TypeOK'
      BY <2>5, <2>6, <3>1, <3>2 DEF TypeOK
    <3>4. Collected' /\ Delivered'
      BY <2>6, <3>1 DEF Collected, Delivered, Taken
    <3>5. Phases'
      <4>1. Missing' = {} /\ Accepted(Round)' /\ server' = "answer"
        BY <1>1, <1>2, <3>1 DEF Missing, Round
      <4>2. agreed' = active_sequence' + 1 /\ result' = "running"
        BY <1>2, <2>6, <3>1
      <4>3. \E n \in 0 .. WorldSize - 1 : written' = 0 .. n - 1
        BY <3>2
      <4> QED
        BY <4>1, <4>2, <4>3 DEF Phases
    <3>6. Streams'
      <4>1. ASSUME NEW q \in Ranks PROVE Answered(q)' = active_sequence + IF q \in 0 .. r THEN 1 ELSE 0
        BY <3>1 DEF Answered
      <4> QED
        BY <4>1, <2>6, <2>9 DEF Streams, Live
    <3> QED
      BY <3>3, <3>4, <3>5, <3>6, <2>7, <2>8
  <2>11. CASE r = WorldSize - 1
    <3>1. /\ server' = "check" /\ requests' = NextRound /\ written' = {}
          /\ active_sequence' = active_sequence + 1
      BY <2>11, <1>2, <1>6
    <3>2. /\ requests' \in [Ranks -> Frames \cup {NoFrame}]
          /\ \A q \in Ranks : requests'[q] = NoFrame
      BY <3>1 DEF NextRound
    <3>3. TypeOK'
      BY <2>5, <2>6, <3>1, <3>2, <1>3 DEF TypeOK
    <3>4. Collected'
      BY <3>2 DEF Collected
    <3>5. Delivered'
      <4> SUFFICES ASSUME NEW q \in Ranks
                   PROVE  /\ active_sequence' <= Len(made[q])
                          /\ \A i \in DOMAIN up[q] : up[q][i].kind = "frame" =>
                               Taken(q)' + i <= Len(made[q]) /\ up[q][i] = made[q][Taken(q)' + i]
                          /\ session[q] # "closed" => Taken(q)' + Len(up[q]) = Len(made[q])
        BY <2>6, <3>1 DEF Delivered
      <4>1. requests[q] # NoFrame
        BY <1>2 DEF Missing
      <4>2. Taken(q)' = Taken(q) /\ Taken(q) = active_sequence + 1
        BY <4>1, <3>1, <3>2, <1>3 DEF Taken
      <4>3. active_sequence < Len(made[q]) /\ Len(made[q]) \in Nat
        BY <4>1 DEF Collected, TypeOK
      <4>4. active_sequence' <= Len(made[q])
        BY <4>3, <3>1, <1>3
      <4> QED
        BY <4>2, <4>4, <1>1 DEF Delivered
    <3>6. Phases'
      BY <3>1, <2>6, <1>2 DEF Phases
    <3>7. Streams'
      <4>1. ASSUME NEW q \in Ranks PROVE Answered(q)' = active_sequence + 1 /\ q \in 0 .. r
        BY <3>1, <2>11, <1>3 DEF Answered, Ranks
      <4> QED
        BY <4>1, <2>6, <2>9 DEF Streams, Live
    <3> QED
      BY <3>3, <3>4, <3>5, <3>6, <3>7, <2>7, <2>8
  <2> QED
    BY <2>10, <2>11
<1> QED
  BY <1>5, <1>6 DEF Answer

-----------------------------------------------------------------------------
(* Every step keeps the invariant.                                          *)
LEMMA NextInv ==
  ASSUME RoundInv, Retry = FALSE, [Next]_vars
  PROVE  RoundInv'
<1>1. CASE Next
  <2>1. CASE Check \/ Deadline \/ Poll
    BY <2>1, CheckKeeps
  <2>2. CASE Route
    BY <2>2, RouteKeeps
  <2>3. ASSUME NEW r \in Ranks, Collect(r) PROVE RoundInv'
    BY <2>3, CollectKeeps
  <2>4. ASSUME NEW r \in Ranks, RankLost(r) PROVE RoundInv'
    BY <2>4, RankLostKeeps
  <2>5. ASSUME NEW r \in Ranks, Answer(r) PROVE RoundInv'
    BY <2>5, AnswerKeeps
  <2>6. CASE PublishFailure
    BY <2>6, PublishKeeps
  <2>7. ASSUME NEW r \in Ranks, Submit(r) PROVE RoundInv'
    BY <2>7, SubmitKeeps
  <2>8. ASSUME NEW r \in Ranks, ReadResponse(r) PROVE RoundInv'
    BY <2>8, ReadResponseKeeps
  <2>9. ASSUME NEW r \in Ranks, ReadAbort(r) \/ ReadError(r) \/ ReadTimesOut(r) PROVE RoundInv'
    BY <2>9, ReadFailureKeeps
  <2>10. ASSUME NEW r \in Ranks, Close(r) PROVE RoundInv'
    BY <2>10, CloseKeeps
  <2> QED
    BY <1>1, <2>1, <2>2, <2>3, <2>4, <2>5, <2>6, <2>7, <2>8, <2>9, <2>10
    DEF Next, ServerStep, RankStep
<1>2. CASE UNCHANGED vars
  <2>1. UNCHANGED <<client, loop, up, down, server_failure>>
    BY <1>2 DEF vars
  <2>2. UNCHANGED <<session, next_sequence, made, timeouts, returned>>
    BY <2>1 DEF client
  <2>3. UNCHANGED <<server, result, requests, written, agreed, active_sequence>>
    BY <2>1 DEF loop
  <2>4. TypeOK'
    BY <2>1, <2>2, <2>3 DEF RoundInv, TypeOK
  <2>5. CallsNumbered' /\ Collected' /\ Together'
    BY <2>2, <2>3 DEF RoundInv, CallsNumbered, Collected, Together
  <2>6. Delivered'
    BY <2>1, <2>2, <2>3 DEF RoundInv, Delivered, Taken
  <2>7. AnswersAgree'
    BY <2>1, <2>2 DEF RoundInv, AnswersAgree, ComputedFrom
  <2>8. Phases'
    BY <2>3 DEF RoundInv, Phases, Missing, Round
  <2>9. Streams'
    BY <2>1, <2>2, <2>3 DEF RoundInv, Streams, Answered, Live
  <2> QED
    BY <2>4, <2>5, <2>6, <2>7, <2>8, <2>9 DEF RoundInv
<1> QED
  BY <1>1, <1>2

(* The invariant holds in every state of a session whose ranks stop calling *)
(* after an error.                                                          *)
LEMMA RoundInvariant ==
  ASSUME Retry = FALSE
  PROVE  Spec => []RoundInv
<1>1. RoundInv /\ [Next]_vars => RoundInv'
  BY NextInv
<1> QED
  BY <1>1, InitInv, PTL DEF Spec

(* What a rank is given for a call was computed from that call, whatever    *)
(* the ranks submit and whenever reads time out, sessions are dropped and   *)
(* the router fails: with blocking calls and no call after an error, the    *)
(* sequence numbers of validate_response are enough.                        *)
THEOREM ResponsesAreOwn ==
  ASSUME Retry = FALSE
  PROVE  Spec => []OwnResponse
<1>1. RoundInv => OwnResponse
  <2> SUFFICES ASSUME RoundInv, NEW x \in returned PROVE x.of[x.rank] = x.call
    BY DEF OwnResponse
  <2>1. x.rank \in Ranks
    BY DEF RoundInv, TypeOK
  <2>2. x.call = x.seq + 1 /\ ComputedFrom(x.of, x.seq)
    BY DEF RoundInv, AnswersAgree
  <2> QED
    BY <2>1, <2>2 DEF ComputedFrom
<1> QED
  BY <1>1, RoundInvariant, PTL

(* A collective returns to a rank only when every rank has submitted the    *)
(* same operation for the same sequence (CollectiveAgreement).              *)
THEOREM ReadyWhenAllAgree ==
  ASSUME Retry = FALSE
  PROVE  Spec => []ReadyMeansSame
<1>1. RoundInv => ReadyMeansSame
  <2> SUFFICES ASSUME RoundInv, NEW x \in returned, NEW r \in Ranks
               PROVE  /\ made[r][x.of[r]].seq = x.seq
                      /\ SameOperation(made[r][x.of[r]].req, made[x.rank][x.call].req)
    BY DEF ReadyMeansSame
  <2>1. x.rank \in Ranks /\ x.seq \in Nat
    BY DEF RoundInv, TypeOK
  <2>2. x.call = x.seq + 1 /\ ComputedFrom(x.of, x.seq)
    BY DEF RoundInv, AnswersAgree
  <2>3. /\ x.of[r] = x.seq + 1 /\ x.seq < Len(made[r])
        /\ OperationDescriptor(made[r][x.seq + 1].req) = OperationDescriptor(made[0][x.seq + 1].req)
        /\ OperationDescriptor(made[x.rank][x.seq + 1].req)
             = OperationDescriptor(made[0][x.seq + 1].req)
    BY <2>1, <2>2 DEF ComputedFrom
  <2>4. x.seq + 1 \in DOMAIN made[r]
    BY <2>1, <2>3 DEF RoundInv, TypeOK
  <2>5. made[r][x.seq + 1].seq = x.seq
    BY <2>1, <2>4 DEF RoundInv, CallsNumbered
  <2>6. \A a, b : OperationDescriptor(a) = OperationDescriptor(b) => SameOperation(a, b)
    BY DEF OperationDescriptor, SameOperation
  <2> QED
    BY <2>2, <2>3, <2>5, <2>6
<1> QED
  BY <1>1, RoundInvariant, PTL

(* An abort that a waiting rank reads names the collective it waits for,    *)
(* unless the coordinator could not write an answer to another rank.        *)
THEOREM AbortsNameTheRound ==
  ASSUME Retry = FALSE
  PROVE  Spec => []AbortNamesRound
<1>1. RoundInv => AbortNamesRound
  <2> SUFFICES ASSUME RoundInv, NEW r \in Ranks, session[r] = "waiting", down[r] # <<>>,
                      Head(down[r]).kind = "abort"
               PROVE  Head(down[r]).seq = next_sequence[r] \/ result = "write_error"
    BY DEF AbortNamesRound
  <2>1. down[r] \in Seq(Messages) /\ next_sequence[r] \in Nat
    BY DEF RoundInv, TypeOK
  <2>2. Head(down[r]) = down[r][1] /\ 1 \in DOMAIN down[r]
    BY <2>1, TailElements
  <2>3. down[r][1].seq = next_sequence[r] + 1 - 1 \/ result = "write_error"
    BY <2>2 DEF RoundInv, Streams, Live
  <2> QED
    BY <2>1, <2>2, <2>3
<1> QED
  BY <1>1, RoundInvariant, PTL

(* The ranks advance together: no rank has completed a collective more than *)
(* one ahead of another, in sessions that run and in sessions that fail.    *)
THEOREM RanksInLockstep ==
  ASSUME Retry = FALSE
  PROVE  Spec => []Lockstep
<1>1. RoundInv => Lockstep
  <2> SUFFICES ASSUME RoundInv, NEW r \in Ranks, NEW q \in Ranks
               PROVE  next_sequence[r] <= next_sequence[q] + 1
    BY DEF Lockstep
  <2>1. next_sequence[r] <= Len(made[q]) /\ Len(made[q]) <= next_sequence[q] + 1
    BY DEF RoundInv, Together, CallsNumbered
  <2>2. next_sequence[r] \in Nat /\ next_sequence[q] \in Nat /\ Len(made[q]) \in Nat
    BY DEF RoundInv, TypeOK
  <2> QED
    BY <2>1, <2>2
<1> QED
  BY <1>1, RoundInvariant, PTL

-----------------------------------------------------------------------------
(* A set of naturals that is not empty has a smallest element.              *)
LEMMA LeastElement ==
  ASSUME NEW S \in SUBSET Nat, S # {}
  PROVE  \E x \in S : \A y \in S : x <= y
<1> DEFINE R == {ss \in Nat \X Nat : ss[1] < ss[2]}
<1>1. IsWellFoundedOn(R, Nat)
  <2>1. OpToRel(<, Nat) = R
    BY DEF OpToRel
  <2> QED
    BY <2>1, NatLessThanWellFounded
<1>2. PICK x \in S : \A y \in S : ~(<<y, x>> \in R)
  <2> HIDE DEF R
  <2> QED
    BY <1>1, WFMin
<1>3. ASSUME NEW y \in S PROVE x <= y
  <2>1. y \in Nat /\ x \in Nat
    OBVIOUS
  <2>2. ~(y < x)
    BY <1>2, <2>1, Zenon
  <2> QED
    BY <2>1, <2>2
<1> QED
  BY <1>3

(* f is a prefix, up to n, of the sequence that starts with a and goes on   *)
(* with the step G.                                                         *)
Iterates(f, n, D, a, G) ==
  /\ f \in [0 .. n -> D] /\ f[0] = a
  /\ \A k \in 0 .. n - 1 : f[k + 1] = G[<<f[k], k + 1>>]

(* Every step can be iterated any number of times: by a least number of     *)
(* times that has no iteration.                                             *)
LEMMA IterationUpTo ==
  ASSUME NEW D, NEW a \in D, NEW G \in [D \X Nat -> D], NEW n \in Nat
  PROVE  \E f : Iterates(f, n, D, a, G)
<1> DEFINE Bad == {m \in Nat : ~ \E f : Iterates(f, m, D, a, G)}
<1> SUFFICES ASSUME Bad # {} PROVE FALSE
  OBVIOUS
<1>1. PICK m \in Bad : \A y \in Bad : m <= y
  BY LeastElement
<1>2. CASE m = 0
  <2> DEFINE f == [k \in 0 .. 0 |-> a]
  <2>1. Iterates(f, 0, D, a, G)
    BY DEF Iterates
  <2> QED
    BY <1>2, <2>1
<1>3. CASE m # 0
  <2>1. m - 1 \in Nat /\ m \in Nat
    BY <1>3
  <2>2. PICK f : Iterates(f, m - 1, D, a, G)
    BY <1>1, <2>1
  <2> DEFINE h == [k \in 0 .. m |-> IF k = m THEN G[<<f[m - 1], m>>] ELSE f[k]]
  <2>3. f \in [0 .. m - 1 -> D] /\ f[0] = a /\ \A k \in 0 .. (m - 1) - 1 : f[k + 1] = G[<<f[k], k + 1>>]
    BY <2>2 DEF Iterates
  <2>4. h \in [0 .. m -> D]
    BY <2>1, <2>3
  <2>5. \A k \in 0 .. m - 1 : h[k] = f[k]
    BY <2>1
  <2>6. h[m] = G[<<f[m - 1], m>>]
    BY <2>1
  <2> HIDE DEF h
  <2>7. ASSUME NEW k \in 0 .. m - 1 PROVE h[k + 1] = G[<<h[k], k + 1>>]
    <3>1. CASE k = m - 1
      BY <3>1, <2>1, <2>5, <2>6
    <3>2. CASE k # m - 1
      <4>1. k \in 0 .. (m - 1) - 1 /\ k + 1 \in 0 .. m - 1
        BY <3>2, <2>1
      <4> QED BY <4>1, <2>3, <2>5
    <3> QED BY <3>1, <3>2
  <2>8. h[0] = a
    BY <2>1, <2>3, <2>5
  <2>9. Iterates(h, m, D, a, G)
    BY <2>4, <2>7, <2>8 DEF Iterates
  <2> QED
    BY <2>9
<1> QED
  BY <1>2, <1>3

-----------------------------------------------------------------------------
(* The sums of counts.                                                      *)

(* The running sum that Total reads.                                        *)
Sums(f, n, counts) ==
  f = [k \in 0 .. n |-> IF k = 0 THEN 0 ELSE f[k - 1] + counts[k]]

(* There is one.                                                            *)
LEMMA SumsExist ==
  ASSUME NEW counts, NEW n \in Nat, \A k \in 1 .. n : counts[k] \in Nat
  PROVE  \E f \in [0 .. n -> Nat] : Sums(f, n, counts)
<1> DEFINE G == [x \in Nat \X Nat |-> x[1] + (IF x[2] \in 1 .. n THEN counts[x[2]] ELSE 0)]
<1>1. G \in [Nat \X Nat -> Nat]
  OBVIOUS
<1>2. PICK f : Iterates(f, n, Nat, 0, G)
  <2> HIDE DEF G
  <2> QED BY <1>1, IterationUpTo
<1>3. f \in [0 .. n -> Nat] /\ f[0] = 0 /\ \A k \in 0 .. n - 1 : f[k + 1] = G[<<f[k], k + 1>>]
  <2> HIDE DEF G
  <2> QED BY <1>2 DEF Iterates
<1>4. ASSUME NEW k \in 0 .. n, k # 0 PROVE f[k] = f[k - 1] + counts[k]
  <2>1. k - 1 \in 0 .. n - 1 /\ k \in 1 .. n /\ (k - 1) + 1 = k /\ f[k - 1] \in Nat
    BY <1>3, <1>4
  <2>2. f[k] = G[<<f[k - 1], k>>]
    BY <1>3, <2>1
  <2> QED BY <2>1, <2>2
<1>5. Sums(f, n, counts)
  BY <1>3, <1>4 DEF Sums
<1> QED BY <1>3, <1>5

(* Two of them agree.                                                       *)
LEMMA SumsAgree ==
  ASSUME NEW counts, NEW n \in Nat, NEW m \in Nat, n <= m,
         NEW f, NEW h, Sums(f, n, counts), Sums(h, m, counts)
  PROVE  f[n] = h[n]
<1> DEFINE Bad == {k \in 0 .. n : f[k] # h[k]}
<1> SUFFICES ASSUME Bad # {} PROVE FALSE
  OBVIOUS
<1>0. Bad \in SUBSET Nat
  OBVIOUS
<1>1. PICK k \in Bad : \A y \in Bad : k <= y
  BY <1>0, LeastElement
<1>2. /\ f[k] = IF k = 0 THEN 0 ELSE f[k - 1] + counts[k]
      /\ h[k] = IF k = 0 THEN 0 ELSE h[k - 1] + counts[k]
  <2>1. k \in 0 .. n /\ k \in 0 .. m
    OBVIOUS
  <2> QED BY <2>1 DEF Sums
<1>3. k # 0
  BY <1>2
<1>4. k - 1 \in 0 .. n /\ ~(k <= k - 1)
  BY <1>3
<1>5. f[k - 1] = h[k - 1]
  BY <1>1, <1>4
<1> QED
  BY <1>2, <1>3, <1>5

(* Total adds one count after the other.                                    *)
LEMMA TotalSteps ==
  ASSUME NEW counts, NEW n \in Nat, \A k \in 1 .. n : counts[k] \in Nat
  PROVE  /\ Total(counts, 0) = 0
         /\ \A k \in 0 .. n : Total(counts, k) \in Nat
         /\ \A k \in 0 .. n - 1 : Total(counts, k + 1) = Total(counts, k) + counts[k + 1]
<1>1. PICK f \in [0 .. n -> Nat] : Sums(f, n, counts)
  BY SumsExist
<1>2. ASSUME NEW m \in 0 .. n PROVE Total(counts, m) = f[m]
  <2> DEFINE h == CHOOSE h : Sums(h, m, counts)
  <2>1. \A k \in 1 .. m : counts[k] \in Nat
    OBVIOUS
  <2>a. \E g : Sums(g, m, counts)
    <3>1. m \in Nat
      OBVIOUS
    <3> QED BY <2>1, <3>1, SumsExist
  <2>2. Sums(h, m, counts)
    BY <2>a, Zenon
  <2>3. Total(counts, m) = h[m]
    BY DEF Total, Sums
  <2> HIDE DEF h
  <2>4. m \in Nat /\ m <= n
    OBVIOUS
  <2>5. h[m] = f[m]
    BY <1>1, <2>2, <2>4, SumsAgree
  <2> QED BY <2>3, <2>5
<1>3. f[0] = 0 /\ \A k \in 0 .. n - 1 : f[k + 1] = f[k] + counts[k + 1]
  <2>1. f[0] = 0
    BY <1>1 DEF Sums
  <2>2. ASSUME NEW k \in 0 .. n - 1 PROVE f[k + 1] = f[k] + counts[k + 1]
    <3>1. k + 1 \in 0 .. n /\ k + 1 # 0 /\ (k + 1) - 1 = k
      OBVIOUS
    <3> QED BY <1>1, <3>1 DEF Sums
  <2> QED BY <2>1, <2>2
<1> QED BY <1>1, <1>2, <1>3

(* The sums grow.                                                           *)
LEMMA TotalGrows ==
  ASSUME NEW counts, NEW n \in Nat, \A k \in 1 .. n : counts[k] \in Nat,
         NEW i \in 0 .. n, NEW j \in 0 .. n, i <= j
  PROVE  Total(counts, i) <= Total(counts, j)
<1> DEFINE T(k) == Total(counts, k)
           Bad == {k \in i .. n : ~(T(i) <= T(k))}
<1>1. /\ \A k \in 0 .. n : T(k) \in Nat
      /\ \A k \in 0 .. n - 1 : T(k + 1) = T(k) + counts[k + 1]
  BY TotalSteps
<1> HIDE DEF T
<1> SUFFICES ASSUME Bad # {} PROVE FALSE
  BY DEF T
<1>2. Bad \in SUBSET Nat
  OBVIOUS
<1>3. PICK k \in Bad : \A y \in Bad : k <= y
  BY <1>2, LeastElement
<1>4. k # i
  BY <1>1
<1>5. k - 1 \in i .. n /\ k - 1 \in 0 .. n - 1 /\ (k - 1) + 1 = k /\ ~(k <= k - 1) /\ counts[k] \in Nat
  BY <1>4
<1>6. T(i) <= T(k - 1)
  BY <1>3, <1>5
<1>7. T(k) = T(k - 1) + counts[k] /\ T(k - 1) \in Nat /\ T(i) \in Nat
  BY <1>1, <1>5
<1> QED BY <1>5, <1>6, <1>7

(* Equal counts have equal sums.                                            *)
LEMMA TotalEqual ==
  ASSUME NEW a, NEW b, NEW n \in Nat, \A k \in 1 .. n : a[k] \in Nat /\ a[k] = b[k], NEW m \in 0 .. n
  PROVE  Total(a, m) = Total(b, m)
<1> DEFINE Bad == {k \in 0 .. n : Total(a, k) # Total(b, k)}
<1> SUFFICES ASSUME Bad # {} PROVE FALSE
  OBVIOUS
<1>2. Bad \in SUBSET Nat
  OBVIOUS
<1>3. PICK k \in Bad : \A y \in Bad : k <= y
  BY <1>2, LeastElement
<1>a. /\ Total(a, 0) = 0 /\ \A q \in 0 .. n - 1 : Total(a, q + 1) = Total(a, q) + a[q + 1]
  BY TotalSteps
<1>b. /\ Total(b, 0) = 0 /\ \A q \in 0 .. n - 1 : Total(b, q + 1) = Total(b, q) + b[q + 1]
  BY TotalSteps
<1>4. k # 0
  BY <1>a, <1>b
<1>5. k - 1 \in 0 .. n /\ k - 1 \in 0 .. n - 1 /\ (k - 1) + 1 = k /\ ~(k <= k - 1) /\ k \in 1 .. n
  BY <1>4
<1>6. Total(a, k - 1) = Total(b, k - 1)
  BY <1>3, <1>5
<1> QED BY <1>5, <1>6, <1>a, <1>b

(* n times the same count.                                                  *)
LEMMA TotalConstant ==
  ASSUME NEW a, NEW n \in Nat, NEW c \in Nat, \A k \in 1 .. n : a[k] = c, NEW m \in 0 .. n
  PROVE  Total(a, m) = m * c
<1> DEFINE Bad == {k \in 0 .. n : Total(a, k) # k * c}
<1> SUFFICES ASSUME Bad # {} PROVE FALSE
  OBVIOUS
<1>2. Bad \in SUBSET Nat
  OBVIOUS
<1>3. PICK k \in Bad : \A y \in Bad : k <= y
  BY <1>2, LeastElement
<1>a. /\ Total(a, 0) = 0 /\ \A q \in 0 .. n - 1 : Total(a, q + 1) = Total(a, q) + a[q + 1]
  BY TotalSteps
<1>4. k # 0
  BY <1>a
<1>5. k - 1 \in 0 .. n /\ k - 1 \in 0 .. n - 1 /\ (k - 1) + 1 = k /\ ~(k <= k - 1) /\ k \in 1 .. n
  BY <1>4
<1>6. Total(a, k - 1) = (k - 1) * c
  BY <1>3, <1>5
<1>7. k * c = (k - 1) * c + c
  BY <1>5
<1> QED BY <1>5, <1>6, <1>7, <1>a

-----------------------------------------------------------------------------
(* The payloads of the ranks one after the other.                           *)

(* Nothing before a sequence.                                               *)
LEMMA ConcatEmpty ==
  ASSUME NEW T, NEW s \in Seq(T)
  PROVE  <<>> \o s = s
OBVIOUS

(* The running concatenation that FlattenSeq reads.                         *)
Flattens(f, n, seqs) ==
  f = [i \in 1 .. n |-> IF i = 1 THEN seqs[i] ELSE f[i - 1] \o seqs[i]]

(* There is one.                                                            *)
LEMMA FlattensExist ==
  ASSUME NEW T, NEW seqs, NEW n \in Nat, \A k \in 1 .. n : seqs[k] \in Seq(T)
  PROVE  \E f : Flattens(f, n, seqs)
<1> DEFINE D == Seq(T)
           G == [x \in D \X Nat |-> x[1] \o (IF x[2] \in 1 .. n THEN seqs[x[2]] ELSE <<>>)]
<1>0. <<>> \in D
  OBVIOUS
<1>1. G \in [D \X Nat -> D]
  <2>1. ASSUME NEW x \in D \X Nat PROVE x[1] \o (IF x[2] \in 1 .. n THEN seqs[x[2]] ELSE <<>>) \in D
    <3>1. x[1] \in Seq(T) /\ (IF x[2] \in 1 .. n THEN seqs[x[2]] ELSE <<>>) \in Seq(T)
      OBVIOUS
    <3> QED BY <3>1
  <2> HIDE DEF D
  <2> QED BY <2>1
<1>2. PICK f : Iterates(f, n, D, <<>>, G)
  <2> HIDE DEF G, D
  <2> QED BY <1>0, <1>1, IterationUpTo
<1>3. f \in [0 .. n -> D] /\ f[0] = <<>> /\ \A k \in 0 .. n - 1 : f[k + 1] = G[<<f[k], k + 1>>]
  <2> HIDE DEF G, D
  <2> QED BY <1>2 DEF Iterates
<1>4. ASSUME NEW k \in 1 .. n PROVE f[k] = f[k - 1] \o seqs[k]
  <2>1. k - 1 \in 0 .. n - 1 /\ (k - 1) + 1 = k /\ f[k - 1] \in D /\ k \in Nat
    BY <1>3
  <2>2. f[k] = G[<<f[k - 1], k>>]
    <3> HIDE DEF G, D
    <3> QED BY <1>3, <2>1
  <2>3. G[<<f[k - 1], k>>] = f[k - 1] \o (IF k \in 1 .. n THEN seqs[k] ELSE <<>>)
    <3> HIDE DEF D
    <3> QED BY <2>1
  <2> QED BY <2>2, <2>3
<1> DEFINE h == [i \in 1 .. n |-> f[i]]
<1>5. ASSUME NEW i \in 1 .. n
      PROVE  h[i] = IF i = 1 THEN seqs[i] ELSE h[i - 1] \o seqs[i]
  <2>1. CASE i = 1
    <3>1. seqs[1] \in Seq(T) /\ 1 \in 1 .. n /\ 1 - 1 = 0
      BY <2>1
    <3>2. f[1] = f[0] \o seqs[1] /\ f[0] = <<>>
      <4> HIDE DEF G, D
      <4> QED BY <1>3, <1>4, <3>1
    <3>3. f[1] = seqs[1]
      BY <3>1, <3>2, ConcatEmpty
    <3> HIDE DEF G, D
    <3> QED BY <3>1, <3>3, <2>1
  <2>2. CASE i # 1
    <3>1. i - 1 \in 1 .. n
      BY <2>2
    <3> HIDE DEF G, D
    <3> QED BY <3>1, <2>2, <1>4
  <2> QED BY <2>1, <2>2
<1>6. h = [i \in 1 .. n |-> IF i = 1 THEN seqs[i] ELSE h[i - 1] \o seqs[i]]
  <2> HIDE DEF G, D
  <2> QED BY <1>5
<1>7. Flattens(h, n, seqs)
  BY <1>6 DEF Flattens
<1> QED BY <1>7

(* ByRank appends one part after the other.                                 *)
LEMMA ByRankSteps ==
  ASSUME NEW T, NEW parts, \A s \in Ranks : parts[s] \in Seq(T)
  PROVE  \E f \in [0 .. WorldSize -> Seq(T)] :
           /\ f[0] = <<>> /\ f[WorldSize] = ByRank(parts)
           /\ \A k \in Ranks : f[k + 1] = f[k] \o parts[k]
<1>0. WorldSize \in Nat /\ WorldSize >= 1
  BY WorldSizeAssumption
<1> DEFINE seqs == [i \in 1 .. WorldSize |-> parts[i - 1]]
<1>1. \A k \in 1 .. WorldSize : seqs[k] = parts[k - 1] /\ seqs[k] \in Seq(T)
  BY <1>0 DEF Ranks
<1>2. Len(seqs) = WorldSize
  BY <1>0
<1>3. ByRank(parts) = FlattenSeq(seqs)
  BY DEF ByRank
<1> HIDE DEF seqs
<1> DEFINE g == CHOOSE g : Flattens(g, WorldSize, seqs)
<1>4. Flattens(g, WorldSize, seqs)
  <2>1. \E h : Flattens(h, WorldSize, seqs)
    BY <1>0, <1>1, FlattensExist
  <2> QED BY <2>1, Zenon
<1>5. FlattenSeq(seqs) = g[WorldSize]
  BY <1>0, <1>2 DEF FlattenSeq, Flattens
<1> HIDE DEF g
<1>6. g[1] = seqs[1] /\ \A i \in 2 .. WorldSize : g[i] = g[i - 1] \o seqs[i]
  <2>1. \A i \in 1 .. WorldSize : g[i] = IF i = 1 THEN seqs[i] ELSE g[i - 1] \o seqs[i]
    BY <1>4, Zenon DEF Flattens
  <2>2. g[1] = seqs[1]
    BY <1>0, <2>1
  <2>3. ASSUME NEW i \in 2 .. WorldSize PROVE g[i] = g[i - 1] \o seqs[i]
    <3>1. i \in 1 .. WorldSize /\ i # 1
      OBVIOUS
    <3> QED BY <3>1, <2>1, Zenon
  <2> QED BY <2>2, <2>3
<1> DEFINE f == [k \in 0 .. WorldSize |-> IF k = 0 THEN <<>> ELSE g[k]]
           Bad == {k \in 0 .. WorldSize : ~(f[k] \in Seq(T))}
<1>7. ASSUME NEW k \in Ranks PROVE f[k + 1] = f[k] \o parts[k]
  <2>1. k \in 0 .. WorldSize /\ k + 1 \in 0 .. WorldSize /\ k + 1 \in 1 .. WorldSize /\ (k + 1) - 1 = k
    BY <1>0 DEF Ranks
  <2>2. CASE k = 0
    <3>1. f[1] = g[1] /\ f[0] = <<>>
      BY <1>0
    <3>2. seqs[1] \in Seq(T) /\ seqs[1] = parts[0]
      BY <1>0, <1>1
    <3>3. <<>> \o parts[0] = parts[0]
      BY <3>2, ConcatEmpty
    <3> HIDE DEF f
    <3> QED BY <2>2, <3>1, <3>2, <3>3, <1>6
  <2>3. CASE k # 0
    <3>1. k + 1 \in 2 .. WorldSize
      BY <2>1, <2>3
    <3>2. g[k + 1] = g[k] \o seqs[k + 1] /\ seqs[k + 1] = parts[k]
      BY <3>1, <2>1, <1>6, <1>1
    <3>3. f[k + 1] = g[k + 1] /\ f[k] = g[k]
      BY <2>1, <2>3
    <3> HIDE DEF f
    <3> QED BY <3>2, <3>3, Zenon
  <2> QED BY <2>2, <2>3
<1>8. Bad = {}
  <2> SUFFICES ASSUME Bad # {} PROVE FALSE
    OBVIOUS
  <2>1. Bad \in SUBSET Nat
    OBVIOUS
  <2>2. PICK k \in Bad : \A y \in Bad : k <= y
    BY <2>1, LeastElement
  <2>3. k # 0
    OBVIOUS
  <2>4. k - 1 \in 0 .. WorldSize /\ k - 1 \in Ranks /\ ~(k <= k - 1) /\ (k - 1) + 1 = k
    BY <1>0, <2>3 DEF Ranks
  <2>5. f[k - 1] \in Seq(T) /\ parts[k - 1] \in Seq(T)
    BY <2>2, <2>4
  <2>6. f[k] = f[k - 1] \o parts[k - 1]
    <3> HIDE DEF f
    <3> QED BY <1>7, <2>4
  <2>7. f[k - 1] \o parts[k - 1] \in Seq(T)
    <3> HIDE DEF f
    <3> QED BY <2>5, ConcatElements
  <2>8. f[k] \in Seq(T)
    BY <2>6, <2>7, Zenon
  <2>9. f[k] \notin Seq(T)
    BY <2>2
  <2> QED BY <2>8, <2>9
<1>9. f \in [0 .. WorldSize -> Seq(T)] /\ f[0] = <<>> /\ f[WorldSize] = ByRank(parts)
  <2>1. \A k \in 0 .. WorldSize : f[k] \in Seq(T)
    BY <1>8
  <2>2. f[WorldSize] = g[WorldSize] /\ f[0] = <<>>
    BY <1>0
  <2> QED BY <2>1, <2>2, <1>3, <1>5
<1> HIDE DEF f
<1> QED BY <1>7, <1>9

(* The length of what is appended.                                          *)
LEMMA ByRankLength ==
  ASSUME NEW T, NEW parts, \A s \in Ranks : parts[s] \in Seq(T),
         NEW counts, \A s \in Ranks : counts[s + 1] = Len(parts[s])
  PROVE  ByRank(parts) \in Seq(T) /\ Len(ByRank(parts)) = Total(counts, WorldSize)
<1>0. WorldSize \in Nat /\ WorldSize >= 1
  BY WorldSizeAssumption
<1>1. PICK f \in [0 .. WorldSize -> Seq(T)] :
           /\ f[0] = <<>> /\ f[WorldSize] = ByRank(parts)
           /\ \A k \in Ranks : f[k + 1] = f[k] \o parts[k]
  BY ByRankSteps
<1>2. \A k \in 1 .. WorldSize : counts[k] \in Nat
  <2>1. ASSUME NEW k \in 1 .. WorldSize PROVE counts[k] \in Nat
    <3>1. k - 1 \in Ranks /\ (k - 1) + 1 = k
      BY <1>0 DEF Ranks
    <3>2. counts[k] = Len(parts[k - 1]) /\ parts[k - 1] \in Seq(T)
      BY <3>1
    <3> QED BY <3>2
  <2> QED BY <2>1
<1>3. /\ Total(counts, 0) = 0
      /\ \A k \in 0 .. WorldSize - 1 : Total(counts, k + 1) = Total(counts, k) + counts[k + 1]
  BY <1>0, <1>2, TotalSteps
<1> DEFINE Bad == {k \in 0 .. WorldSize : Len(f[k]) # Total(counts, k)}
<1>4. Bad = {}
  <2> SUFFICES ASSUME Bad # {} PROVE FALSE
    OBVIOUS
  <2>1. Bad \in SUBSET Nat
    OBVIOUS
  <2>2. PICK k \in Bad : \A y \in Bad : k <= y
    BY <2>1, LeastElement
  <2>3. k # 0
    BY <1>1, <1>3
  <2>4. k - 1 \in 0 .. WorldSize /\ k - 1 \in 0 .. WorldSize - 1 /\ k - 1 \in Ranks
        /\ ~(k <= k - 1) /\ (k - 1) + 1 = k
    BY <1>0, <2>3 DEF Ranks
  <2>5. Len(f[k - 1]) = Total(counts, k - 1)
    BY <2>2, <2>4
  <2>6. f[k] = f[k - 1] \o parts[k - 1] /\ f[k - 1] \in Seq(T) /\ parts[k - 1] \in Seq(T)
    BY <1>1, <2>4
  <2>7. Len(f[k]) = Len(f[k - 1]) + Len(parts[k - 1])
    BY <2>6, ConcatElements
  <2>8. Total(counts, k) = Total(counts, k - 1) + Len(parts[k - 1])
    BY <1>3, <2>4
  <2> QED BY <2>2, <2>5, <2>7, <2>8
<1>5. WorldSize \in 0 .. WorldSize
  BY <1>0
<1> QED BY <1>1, <1>4, <1>5

(* A part is found behind the parts of the ranks before it.                 *)
LEMMA ByRankSlice ==
  ASSUME NEW T, NEW parts, \A s \in Ranks : parts[s] \in Seq(T),
         NEW counts, \A s \in Ranks : counts[s + 1] = Len(parts[s]),
         NEW r \in Ranks
  PROVE  Slice(ByRank(parts), Total(counts, r), counts[r + 1]) = parts[r]
<1>0. WorldSize \in Nat /\ WorldSize >= 1
  BY WorldSizeAssumption
<1>1. PICK f \in [0 .. WorldSize -> Seq(T)] :
           /\ f[0] = <<>> /\ f[WorldSize] = ByRank(parts)
           /\ \A k \in Ranks : f[k + 1] = f[k] \o parts[k]
  BY ByRankSteps
<1>2. \A k \in 1 .. WorldSize : counts[k] \in Nat
  <2>1. ASSUME NEW k \in 1 .. WorldSize PROVE counts[k] \in Nat
    <3>1. k - 1 \in Ranks /\ (k - 1) + 1 = k
      BY <1>0 DEF Ranks
    <3>2. counts[k] = Len(parts[k - 1]) /\ parts[k - 1] \in Seq(T)
      BY <3>1
    <3> QED BY <3>2
  <2> QED BY <2>1
<1>3. /\ Total(counts, 0) = 0 /\ \A k \in 0 .. WorldSize : Total(counts, k) \in Nat
      /\ \A k \in 0 .. WorldSize - 1 : Total(counts, k + 1) = Total(counts, k) + counts[k + 1]
  BY <1>0, <1>2, TotalSteps
<1>4. r \in 0 .. WorldSize - 1 /\ r \in 0 .. WorldSize /\ r + 1 \in 0 .. WorldSize /\ r \in Nat
  BY <1>0 DEF Ranks
<1> DEFINE start == Total(counts, r)
           size == Len(parts[r])
           Good(g) == Len(g) >= start + size /\ \A i \in 1 .. size : g[start + i] = parts[r][i]
           Bad == {k \in r + 1 .. WorldSize : ~Good(f[k])}
<1>5. start \in Nat /\ size \in Nat /\ counts[r + 1] = size /\ parts[r] \in Seq(T)
  BY <1>3, <1>4
<1>a. \A k \in 0 .. WorldSize : Len(f[k]) = Total(counts, k)
  <2> DEFINE Odd == {k \in 0 .. WorldSize : Len(f[k]) # Total(counts, k)}
  <2> SUFFICES ASSUME Odd # {} PROVE FALSE
    OBVIOUS
  <2>1. Odd \in SUBSET Nat
    OBVIOUS
  <2>2. PICK k \in Odd : \A y \in Odd : k <= y
    BY <2>1, LeastElement
  <2>3. k # 0
    BY <1>1, <1>3
  <2>4. k - 1 \in 0 .. WorldSize /\ k - 1 \in 0 .. WorldSize - 1 /\ k - 1 \in Ranks
        /\ ~(k <= k - 1) /\ (k - 1) + 1 = k
    BY <1>0, <2>3 DEF Ranks
  <2>5. Len(f[k - 1]) = Total(counts, k - 1)
    BY <2>2, <2>4
  <2>6. f[k] = f[k - 1] \o parts[k - 1] /\ f[k - 1] \in Seq(T) /\ parts[k - 1] \in Seq(T)
    BY <1>1, <2>4
  <2>7. Len(f[k]) = Len(f[k - 1]) + Len(parts[k - 1])
    BY <2>6, ConcatElements
  <2>8. Total(counts, k) = Total(counts, k - 1) + Len(parts[k - 1])
    BY <1>3, <2>4
  <2> QED BY <2>2, <2>5, <2>7, <2>8
<1> HIDE DEF start, size
<1>6. Good(f[r + 1])
  <2>1. f[r + 1] = f[r] \o parts[r] /\ f[r] \in Seq(T) /\ Len(f[r]) = start
    BY <1>1, <1>4, <1>a DEF start
  <2>2. PICK a \in Seq(T), b \in Seq(T) : a = f[r] /\ b = parts[r]
    BY <2>1, <1>5
  <2>3. Len(a) = start /\ Len(b) = size
    BY <2>1, <2>2 DEF size
  <2>4. PICK c : c = a \o b
    OBVIOUS
  <2>5. Len(c) = start + size
    BY <2>3, <2>4, ConcatElements
  <2>6. \A i \in 1 .. size : c[start + i] = b[i]
    BY <2>3, <2>4, ConcatElements
  <2>7. f[r + 1] = c
    BY <2>1, <2>2, <2>4, Zenon
  <2>8. Len(c) >= start + size
    BY <2>5, <1>5
  <2> QED BY <2>2, <2>6, <2>7, <2>8
<1>7. Bad = {}
  <2> SUFFICES ASSUME Bad # {} PROVE FALSE
    OBVIOUS
  <2>1. Bad \in SUBSET Nat
    BY <1>4
  <2>2. PICK k \in Bad : \A y \in Bad : k <= y
    <3> HIDE DEF Bad
    <3> QED BY <2>1, LeastElement
  <2>3. k # r + 1
    BY <1>6
  <2>4. k - 1 \in r + 1 .. WorldSize /\ k - 1 \in Ranks /\ ~(k <= k - 1) /\ (k - 1) + 1 = k
        /\ k - 1 \in 0 .. WorldSize
    BY <1>0, <1>4, <2>3 DEF Ranks
  <2>5. Good(f[k - 1])
    BY <2>2, <2>4
  <2>6. f[k] = f[k - 1] \o parts[k - 1] /\ f[k - 1] \in Seq(T) /\ parts[k - 1] \in Seq(T)
    BY <1>1, <2>4
  <2>7. /\ Len(f[k]) = Len(f[k - 1]) + Len(parts[k - 1])
        /\ \A i \in 1 .. Len(f[k - 1]) : f[k][i] = f[k - 1][i]
        /\ Len(f[k - 1]) \in Nat /\ Len(parts[k - 1]) \in Nat
    <3>1. PICK a \in Seq(T), b \in Seq(T) : a = f[k - 1] /\ b = parts[k - 1]
      BY <2>6
    <3>2. PICK c : c = a \o b
      OBVIOUS
    <3>3. Len(c) = Len(a) + Len(b)
      BY <3>2, ConcatElements
    <3>4. \A i \in 1 .. Len(a) : c[i] = a[i]
      BY <3>2, ConcatElements
    <3>5. f[k] = c
      BY <3>1, <3>2, <2>6, Zenon
    <3>6. Len(a) \in Nat /\ Len(b) \in Nat
      OBVIOUS
    <3> QED BY <3>1, <3>3, <3>4, <3>5, <3>6
  <2>8. Len(f[k]) >= start + size
    <3>1. Len(f[k - 1]) >= start + size
      BY <2>5
    <3>2. PICK u, v, w : u = Len(f[k - 1]) /\ v = Len(parts[k - 1]) /\ w = Len(f[k])
      OBVIOUS
    <3>3. u \in Nat /\ v \in Nat /\ w = u + v
      BY <3>2, <2>7
    <3>4. u >= start + size
      BY <3>1, <3>2
    <3>5. w >= start + size
      BY <3>3, <3>4, <1>5
    <3> QED BY <3>2, <3>5
  <2>9. ASSUME NEW i \in 1 .. size PROVE f[k][start + i] = parts[r][i]
    <3>1. start + i \in 1 .. Len(f[k - 1])
      BY <2>5, <2>7, <1>5
    <3> QED BY <3>1, <2>5, <2>7
  <2>10. Good(f[k])
    BY <2>8, <2>9
  <2> QED BY <2>2, <2>10
<1>8. Good(ByRank(parts)) /\ ByRank(parts) \in Seq(T)
  <2>1. WorldSize \in r + 1 .. WorldSize /\ WorldSize \in 0 .. WorldSize
    BY <1>0, <1>4
  <2> QED BY <2>1, <1>1, <1>7
<1>9. PICK b \in Seq(T) : b = ByRank(parts)
  BY <1>8
<1>10. SubSeq(b, start + 1, start + size) = parts[r]
  <2>1. Len(b) >= start + size /\ \A i \in 1 .. size : b[start + i] = parts[r][i]
    BY <1>8, <1>9
  <2>2. PICK p \in Seq(T) : p = parts[r]
    BY <1>5
  <2>3. Len(p) = size /\ \A i \in 1 .. size : b[start + i] = p[i]
    BY <2>1, <2>2 DEF size
  <2>4. Len(SubSeq(b, start + 1, start + size)) = size
        /\ SubSeq(b, start + 1, start + size) \in Seq(T)
    BY <2>1, <1>5
  <2>5. \A i \in 1 .. size : SubSeq(b, start + 1, start + size)[i] = b[start + i]
    BY <2>1, <1>5
  <2>6. SubSeq(b, start + 1, start + size) = p
    BY <2>3, <2>4, <2>5
  <2> QED BY <2>2, <2>6
<1> QED BY <1>5, <1>9, <1>10 DEF Slice, start

(* A sequence is its slices one after the other.                            *)
LEMMA ByRankWhole ==
  ASSUME NEW T, NEW whole \in Seq(T), NEW counts, \A k \in 1 .. WorldSize : counts[k] \in Nat,
         Total(counts, WorldSize) = Len(whole), NEW parts,
         \A s \in Ranks : parts[s] = Slice(whole, Total(counts, s), counts[s + 1])
  PROVE  ByRank(parts) = whole
<1>0. WorldSize \in Nat /\ WorldSize >= 1
  BY WorldSizeAssumption
<1>1. /\ Total(counts, 0) = 0 /\ \A k \in 0 .. WorldSize : Total(counts, k) \in Nat
      /\ \A k \in 0 .. WorldSize - 1 : Total(counts, k + 1) = Total(counts, k) + counts[k + 1]
  BY <1>0, TotalSteps
<1>2. ASSUME NEW k \in 0 .. WorldSize PROVE Total(counts, k) <= Len(whole)
  <2>1. WorldSize \in 0 .. WorldSize /\ k <= WorldSize
    BY <1>0
  <2>2. Total(counts, k) <= Total(counts, WorldSize)
    BY <1>0, <2>1, TotalGrows
  <2> QED BY <2>2
<1>3. ASSUME NEW s \in Ranks
      PROVE  /\ Total(counts, s) \in Nat /\ counts[s + 1] \in Nat
             /\ Total(counts, s) + counts[s + 1] <= Len(whole)
             /\ Total(counts, s + 1) = Total(counts, s) + counts[s + 1]
  <2>1. s \in 0 .. WorldSize /\ s \in 0 .. WorldSize - 1 /\ s + 1 \in 0 .. WorldSize /\ s + 1 \in 1 .. WorldSize
    BY <1>0 DEF Ranks
  <2> QED BY <2>1, <1>1, <1>2
<1>4. ASSUME NEW s \in Ranks PROVE parts[s] \in Seq(T) /\ Len(parts[s]) = counts[s + 1]
      /\ \A i \in 1 .. counts[s + 1] : parts[s][i] = whole[Total(counts, s) + i]
  <2>1. PICK a \in Nat, n \in Nat : a = Total(counts, s) /\ n = counts[s + 1] /\ a + n <= Len(whole)
    BY <1>3
  <2>2. parts[s] = SubSeq(whole, a + 1, a + n)
    BY <2>1 DEF Slice
  <2>3. SubSeq(whole, a + 1, a + n) \in Seq(T) /\ Len(SubSeq(whole, a + 1, a + n)) = n
    BY <2>1
  <2>4. \A i \in 1 .. n : SubSeq(whole, a + 1, a + n)[i] = whole[a + i]
    BY <2>1
  <2> QED BY <2>1, <2>2, <2>3, <2>4
<1>5. PICK f \in [0 .. WorldSize -> Seq(T)] :
           /\ f[0] = <<>> /\ f[WorldSize] = ByRank(parts)
           /\ \A k \in Ranks : f[k + 1] = f[k] \o parts[k]
  <2>1. \A s \in Ranks : parts[s] \in Seq(T)
    BY <1>4
  <2> QED BY <2>1, ByRankSteps
<1> DEFINE Good(k) == Len(f[k]) = Total(counts, k) /\ \A i \in 1 .. Total(counts, k) : f[k][i] = whole[i]
           Bad == {k \in 0 .. WorldSize : ~Good(k)}
<1>6. Bad = {}
  <2> SUFFICES ASSUME Bad # {} PROVE FALSE
    OBVIOUS
  <2>1. Bad \in SUBSET Nat
    OBVIOUS
  <2>2. PICK k \in Bad : \A y \in Bad : k <= y
    <3> HIDE DEF Bad
    <3> QED BY <2>1, LeastElement
  <2>3. k # 0
    BY <1>1, <1>5
  <2>4. PICK j \in Ranks : j = k - 1 /\ j \in 0 .. WorldSize /\ ~(k <= j) /\ j + 1 = k
    BY <1>0, <2>3 DEF Ranks
  <2>5. Good(j)
    BY <2>2, <2>4
  <2>6. PICK a \in Seq(T), b \in Seq(T) : a = f[j] /\ b = parts[j]
    BY <2>4, <1>4, <1>5
  <2>7. PICK c : c = a \o b
    OBVIOUS
  <2>8. f[k] = c
    BY <1>5, <2>4, <2>6, <2>7
  <2>9. PICK m \in Nat, n \in Nat : /\ m = Total(counts, j) /\ n = counts[k]
                                    /\ Total(counts, k) = m + n
    BY <1>3, <2>4
  <2>10. Len(a) = m /\ \A i \in 1 .. m : a[i] = whole[i]
    BY <2>5, <2>6, <2>9
  <2>11. Len(b) = n /\ \A i \in 1 .. n : b[i] = whole[m + i]
    BY <1>4, <2>4, <2>6, <2>9
  <2>12. Len(c) = m + n
    BY <2>7, <2>10, <2>11, ConcatElements
  <2>13. ASSUME NEW i \in 1 .. m + n PROVE c[i] = whole[i]
    <3>1. CASE i <= m
      <4>1. i \in 1 .. Len(a)
        BY <3>1, <2>10
      <4>2. c[i] = a[i]
        BY <4>1, <2>7, ConcatElements
      <4> QED BY <4>1, <4>2, <2>10
    <3>2. CASE i > m
      <4>1. PICK l \in 1 .. n : i = m + l
        <5>1. i - m \in 1 .. n /\ i = m + (i - m)
          BY <3>2
        <5> QED BY <5>1
      <4>2. c[Len(a) + l] = b[l]
        BY <4>1, <2>7, <2>11, ConcatElements
      <4> QED BY <4>1, <4>2, <2>10, <2>11
    <3> QED BY <3>1, <3>2
  <2>14. Good(k)
    BY <2>8, <2>9, <2>12, <2>13
  <2> QED BY <2>2, <2>14
<1>7. PICK z \in Seq(T) : z = ByRank(parts) /\ Len(z) = Len(whole) /\ \A i \in 1 .. Len(whole) : z[i] = whole[i]
  <2>1. WorldSize \in 0 .. WorldSize
    BY <1>0
  <2>2. Good(WorldSize) /\ f[WorldSize] \in Seq(T)
    BY <2>1, <1>6
  <2> QED BY <2>2, <1>5
<1>8. z = whole
  BY <1>7
<1> QED BY <1>7, <1>8

(* Two lists of which one comes before the other make one.                  *)
LEMMA ListsJoin ==
  ASSUME NEW T, NEW p \in Seq(T), NEW q \in Seq(T), NEW A, NEW B, Lists(p, A), Lists(q, B),
         \A a \in A, b \in B : Before(a, b)
  PROVE  Lists(p \o q, A \cup B)
<1>1. PICK c : c = p \o q
  OBVIOUS
<1>2. DOMAIN c = 1 .. Len(p) + Len(q) /\ Len(p) \in Nat /\ Len(q) \in Nat
  BY <1>1, ConcatElements
<1>3. \A i \in 1 .. Len(p) : c[i] = p[i]
  BY <1>1, ConcatElements
<1>4. \A i \in 1 .. Len(q) : c[Len(p) + i] = q[i]
  BY <1>1, ConcatElements
<1>5. ASSUME NEW i \in DOMAIN c
      PROVE  \/ i \in 1 .. Len(p) /\ i \in DOMAIN p /\ c[i] = p[i] /\ c[i] \in A
             \/ i > Len(p) /\ i - Len(p) \in DOMAIN q /\ c[i] = q[i - Len(p)] /\ c[i] \in B
  <2>1. CASE i <= Len(p)
    <3>1. i \in 1 .. Len(p) /\ i \in DOMAIN p
      BY <2>1, <1>2
    <3> QED BY <3>1, <1>3 DEF Lists
  <2>2. CASE i > Len(p)
    <3>1. i - Len(p) \in 1 .. Len(q) /\ i - Len(p) \in DOMAIN q /\ i = Len(p) + (i - Len(p))
      BY <2>2, <1>2
    <3>2. c[i] = q[i - Len(p)]
      BY <3>1, <1>4
    <3> QED BY <2>2, <3>1, <3>2 DEF Lists
  <2> QED BY <2>1, <2>2, <1>2
<1>6. {c[i] : i \in DOMAIN c} = A \cup B
  <2>1. ASSUME NEW x \in A PROVE x \in {c[i] : i \in DOMAIN c}
    <3>1. PICK i \in DOMAIN p : x = p[i]
      BY DEF Lists
    <3>2. i \in 1 .. Len(p) /\ i \in DOMAIN c
      BY <1>2
    <3> QED BY <3>1, <3>2, <1>3
  <2>2. ASSUME NEW x \in B PROVE x \in {c[i] : i \in DOMAIN c}
    <3>1. PICK i \in DOMAIN q : x = q[i]
      BY DEF Lists
    <3>2. i \in 1 .. Len(q) /\ Len(p) + i \in DOMAIN c
      BY <1>2
    <3> QED BY <3>1, <3>2, <1>4
  <2> QED BY <2>1, <2>2, <1>5
<1>7. ASSUME NEW i \in DOMAIN c, NEW j \in DOMAIN c, i < j PROVE Before(c[i], c[j])
  <2>0. i \in Int /\ j \in Int
    BY <1>2
  <2>1. CASE j \in 1 .. Len(p)
    <3>1. i \in DOMAIN p /\ j \in DOMAIN p /\ c[i] = p[i] /\ c[j] = p[j]
      BY <1>2, <1>5, <1>7, <2>1, <2>0
    <3> QED BY <3>1, <1>7 DEF Lists
  <2>2. CASE j > Len(p) /\ i \in 1 .. Len(p)
    BY <2>2, <1>5, <1>2
  <2>3. CASE j > Len(p) /\ i > Len(p)
    <3>1. /\ i - Len(p) \in DOMAIN q /\ j - Len(p) \in DOMAIN q
          /\ c[i] = q[i - Len(p)] /\ c[j] = q[j - Len(p)]
      BY <1>5, <2>3, <1>2
    <3>2. i - Len(p) < j - Len(p)
      BY <1>7, <1>2, <2>0
    <3> QED BY <3>1, <3>2 DEF Lists
  <2> QED BY <2>1, <2>2, <2>3, <1>5
<1> QED BY <1>1, <1>6, <1>7 DEF Lists

(* The lists of the ranks, one after the other, list what they hold.        *)
LEMMA ByRankLists ==
  ASSUME NEW T, NEW parts, \A s \in Ranks : parts[s] \in Seq(T),
         NEW own, \A s \in Ranks : Lists(parts[s], own[s]) /\ \A e \in own[s] : e[1] = s
  PROVE  Lists(ByRank(parts), UNION {own[s] : s \in Ranks})
<1>0. WorldSize \in Nat /\ WorldSize >= 1
  BY WorldSizeAssumption
<1>1. PICK f \in [0 .. WorldSize -> Seq(T)] :
           /\ f[0] = <<>> /\ f[WorldSize] = ByRank(parts)
           /\ \A k \in Ranks : f[k + 1] = f[k] \o parts[k]
  BY ByRankSteps
<1> DEFINE below(k) == UNION {own[s] : s \in {s \in Ranks : s < k}}
           Bad == {k \in 0 .. WorldSize : ~Lists(f[k], below(k))}
<1>2. Bad = {}
  <2> SUFFICES ASSUME Bad # {} PROVE FALSE
    OBVIOUS
  <2>1. Bad \in SUBSET Nat
    OBVIOUS
  <2>2. PICK k \in Bad : \A y \in Bad : k <= y
    <3> HIDE DEF Bad
    <3> QED BY <2>1, LeastElement
  <2>3. k # 0
    <3>1. {s \in Ranks : s < 0} = {}
      BY DEF Ranks
    <3>2. below(0) = {}
      BY <3>1
    <3>3. Lists(<<>>, {})
      BY DEF Lists
    <3>4. Lists(f[0], below(0))
      BY <3>2, <3>3, <1>1, Zenon
    <3> QED BY <3>4
  <2>4. PICK j \in Ranks : j \in 0 .. WorldSize /\ ~(k <= j) /\ j + 1 = k
    <3>1. k - 1 \in Ranks /\ k - 1 \in 0 .. WorldSize /\ ~(k <= k - 1) /\ (k - 1) + 1 = k
      BY <1>0, <2>3 DEF Ranks
    <3> QED BY <3>1
  <2>5. Lists(f[j], below(j))
    BY <2>2, <2>4
  <2>6. f[k] = f[j] \o parts[j] /\ f[j] \in Seq(T) /\ parts[j] \in Seq(T)
    BY <1>1, <2>4
  <2>7. ASSUME NEW a \in below(j), NEW b \in own[j] PROVE Before(a, b)
    <3>1. PICK s \in Ranks : s < j /\ a \in own[s]
      OBVIOUS
    <3>2. a[1] = s /\ b[1] = j
      BY <3>1
    <3> QED BY <3>1, <3>2 DEF Before
  <2>8. below(k) = below(j) \cup own[j]
    <3>1. {s \in Ranks : s < k} = {s \in Ranks : s < j} \cup {j}
      BY <2>4 DEF Ranks
    <3> QED BY <3>1
  <2>9. Lists(f[j] \o parts[j], below(j) \cup own[j])
    <3>1. PICK a, b, A, B : a = f[j] /\ b = parts[j] /\ A = below(j) /\ B = own[j]
      OBVIOUS
    <3>2. Lists(b, B)
      BY <3>1
    <3>3. \A x \in A, y \in B : Before(x, y)
      BY <3>1, <2>7
    <3>4. Lists(a \o b, A \cup B)
      BY <3>1, <3>2, <3>3, <2>5, <2>6, ListsJoin
    <3> QED BY <3>1, <3>4
  <2>10. Lists(f[k], below(k))
    BY <2>6, <2>8, <2>9, Zenon
  <2> QED BY <2>2, <2>10
<1>3. Lists(f[WorldSize], below(WorldSize))
  <2>1. WorldSize \in 0 .. WorldSize
    BY <1>0
  <2> QED BY <2>1, <1>2
<1>4. below(WorldSize) = UNION {own[s] : s \in Ranks}
  <2>1. {s \in Ranks : s < WorldSize} = Ranks
    BY <1>0 DEF Ranks
  <2> QED BY <2>1
<1> QED BY <1>1, <1>3, <1>4

-----------------------------------------------------------------------------
(* The routing of a round.                                                  *)

(* An element of a payload: its sender and its position.                    *)
Letters == Ranks \X Nat

(* A payload of rank r with its elements labelled.                          *)
OwnPayload(p, r) == p \in Seq(Letters) /\ \A i \in DOMAIN p : p[i] = <<r, i>>

(* What an accepted round of fixed size looks like.                         *)
FixedShape(round) ==
  /\ round[0].count \in Nat /\ round[0].op \in Opcodes \ {"AllToAllV"}
  /\ round[0].elt = "None" => round[0].count = 0
  /\ \A r \in Ranks : OwnPayload(round[r].payload, r)

(* ... and one of an all-to-all-v.                                          *)
VariableShape(round) ==
  /\ \A r \in Ranks :
       /\ OwnPayload(round[r].payload, r) /\ round[r].op = "AllToAllV" /\ round[r].elt = "U8"
       /\ round[r].counts \in [1 .. WorldSize -> Nat]
       /\ Len(round[r].payload) = Total(round[r].counts, WorldSize)

(* Labels are labels.                                                       *)
LEMMA LabelledOwn ==
  ASSUME NEW r \in Ranks, NEW n \in Nat
  PROVE  OwnPayload(Labelled(r, n), r) /\ OwnPayload(<<>>, r) /\ Len(Labelled(r, n)) = n
<1>1. \A i \in 1 .. n : <<r, i>> \in Letters
  BY DEF Letters
<1>2. Labelled(r, n) \in Seq(Letters) /\ Len(Labelled(r, n)) = n
  <2> HIDE DEF Letters
  <2> QED BY <1>1 DEF Labelled
<1>3. \A i \in DOMAIN Labelled(r, n) : Labelled(r, n)[i] = <<r, i>>
  BY DEF Labelled
<1> QED BY <1>2, <1>3 DEF OwnPayload

(* Every accepted round has one of the two shapes.                          *)
LEMMA RoundShape ==
  ASSUME NEW round \in Rounds, Accepted(round)
  PROVE  FixedShape(round) \/ VariableShape(round)
<1>0. 0 \in Ranks
  BY RankZero
<1>1. CASE round \in FixedRequests
  <2>1. PICK h \in Headers, full \in SUBSET Ranks : round = FixedRound(h, full)
    BY <1>1 DEF FixedRequests
  <2>2. h.count \in Nat /\ h.op \in Opcodes
    BY CountsAssumption DEF Headers
  <2>a. PICK op, elt, count : op = h.op /\ elt = h.elt /\ count = h.count
    OBVIOUS
  <2>3. round[0].op = op /\ round[0].count = count /\ round[0].elt = elt /\ round[0].prefix = FALSE
    BY <1>0, <2>1, <2>a DEF FixedRound
  <2>4. op # "AllToAllV"
    BY <1>0, <2>3 DEF Accepted, Routable, CountsDecode
  <2>5. ValidFrame(round[0])
    BY <1>0 DEF Rounds
  <2>6. \A r \in Ranks : OwnPayload(round[r].payload, r)
    BY <2>1, <2>2, LabelledOwn DEF FixedRound
  <2>7. elt = "None" => count = 0
    BY <2>3, <2>5 DEF ValidFrame
  <2> QED BY <2>2, <2>a, <2>3, <2>4, <2>6, <2>7 DEF FixedShape
<1>2. CASE round \in VariableRequests
  <2>1. PICK rows \in [Ranks -> [1 .. WorldSize -> ShardCounts]] :
          round = [r \in Ranks |-> [op |-> "AllToAllV", elt |-> "U8", root |-> AnyRank, tag |-> 0,
                     count |-> Total(rows[r], WorldSize), prefix |-> TRUE, counts |-> rows[r],
                     payload |-> Labelled(r, Total(rows[r], WorldSize))]]
    BY <1>2 DEF VariableRequests
  <2>2. ASSUME NEW r \in Ranks
        PROVE  /\ OwnPayload(round[r].payload, r) /\ round[r].op = "AllToAllV" /\ round[r].elt = "U8"
               /\ round[r].counts \in [1 .. WorldSize -> Nat]
               /\ Len(round[r].payload) = Total(round[r].counts, WorldSize)
    <3>1. rows[r] \in [1 .. WorldSize -> Nat]
      BY CountsAssumption
    <3>2. Total(rows[r], WorldSize) \in Nat
      <4>1. WorldSize \in Nat /\ WorldSize \in 0 .. WorldSize
        BY WorldSizeAssumption
      <4>2. \A k \in 1 .. WorldSize : rows[r][k] \in Nat
        BY <3>1
      <4> QED BY <4>1, <4>2, TotalSteps
    <3>3. /\ round[r].payload = Labelled(r, Total(rows[r], WorldSize)) /\ round[r].counts = rows[r]
          /\ round[r].op = "AllToAllV" /\ round[r].elt = "U8"
      BY <2>1
    <3> QED BY <3>1, <3>2, <3>3, LabelledOwn
  <2> QED BY <2>2 DEF VariableShape
<1> QED BY <1>1, <1>2 DEF Rounds

(* A slice of a labelled payload lists its positions.                       *)
LEMMA SliceListed ==
  ASSUME NEW r \in Ranks, NEW p, OwnPayload(p, r), NEW a \in Nat, NEW n \in Nat, a + n <= Len(p)
  PROVE  /\ Slice(p, a, n) \in Seq(Letters) /\ Len(Slice(p, a, n)) = n
         /\ Lists(Slice(p, a, n), {<<r, i>> : i \in a + 1 .. a + n})
<1> DEFINE T == Letters
<1>0. p \in Seq(T)
  BY DEF OwnPayload
<1>1. PICK q : q = Slice(p, a, n)
  OBVIOUS
<1> HIDE DEF T
<1>2. q \in Seq(T) /\ Len(q) = n
  BY <1>0, <1>1 DEF Slice
<1>3. \A i \in 1 .. n : q[i] = p[a + i]
  BY <1>0, <1>1 DEF Slice
<1>4. DOMAIN q = 1 .. n /\ DOMAIN p = 1 .. Len(p) /\ Len(p) \in Nat
  BY <1>0, <1>2
<1>5. ASSUME NEW i \in 1 .. n PROVE q[i] = <<r, a + i>>
  <2>1. a + i \in DOMAIN p
    BY <1>4
  <2> QED BY <2>1, <1>3 DEF OwnPayload
<1>6. {q[i] : i \in DOMAIN q} = {<<r, i>> : i \in a + 1 .. a + n}
  <2>1. ASSUME NEW i \in DOMAIN q PROVE q[i] \in {<<r, j>> : j \in a + 1 .. a + n}
    <3>1. i \in 1 .. n /\ a + i \in a + 1 .. a + n
      BY <1>4
    <3> QED BY <3>1, <1>5
  <2>2. ASSUME NEW j \in a + 1 .. a + n PROVE \E i \in DOMAIN q : q[i] = <<r, j>>
    <3>1. j - a \in 1 .. n /\ a + (j - a) = j
      OBVIOUS
    <3>2. q[j - a] = <<r, j>>
      BY <3>1, <1>5
    <3> QED BY <3>1, <3>2, <1>4
  <2> QED BY <2>1, <2>2
<1>7. ASSUME NEW i \in DOMAIN q, NEW j \in DOMAIN q, i < j PROVE Before(q[i], q[j])
  <2>1. q[i] = <<r, a + i>> /\ q[j] = <<r, a + j>> /\ a + i < a + j
    BY <1>4, <1>5, <1>7
  <2> QED BY <2>1 DEF Before
<1> QED BY <1>1, <1>2, <1>6, <1>7 DEF Lists, T

(* ... and so does the whole payload.                                       *)
LEMMA PayloadListed ==
  ASSUME NEW r \in Ranks, NEW p, OwnPayload(p, r)
  PROVE  p \in Seq(Letters) /\ Lists(p, {<<r, i>> : i \in DOMAIN p})
<1>1. p \in Seq(Letters)
  BY DEF OwnPayload
<1>2. DOMAIN p \subseteq Nat
  BY <1>1
<1>3. {p[i] : i \in DOMAIN p} = {<<r, i>> : i \in DOMAIN p}
  BY DEF OwnPayload
<1>4. ASSUME NEW i \in DOMAIN p, NEW j \in DOMAIN p, i < j PROVE Before(p[i], p[j])
  <2>1. p[i] = <<r, i>> /\ p[j] = <<r, j>>
    BY DEF OwnPayload
  <2> QED BY <2>1, <1>4 DEF Before
<1> QED BY <1>1, <1>3, <1>4 DEF Lists

(* What is meant for a rank, sender by sender.                              *)
Meant(round, d, s) == {<<s, i>> : i \in {i \in DOMAIN round[s].payload : d \in Receivers(round, s, i)}}

(* Together they are all that is meant for it.                              *)
LEMMA MeantBySender ==
  ASSUME NEW round, NEW d
  PROVE  MeantFor(round, d) = UNION {Meant(round, d, s) : s \in Ranks}
<1>1. ASSUME NEW e \in MeantFor(round, d) PROVE e \in UNION {Meant(round, d, s) : s \in Ranks}
  <2>1. PICK s \in Ranks : e \in {s} \X DOMAIN round[s].payload
    BY DEF MeantFor
  <2>2. e = <<s, e[2]>> /\ e[2] \in DOMAIN round[s].payload /\ e[1] = s
    BY <2>1
  <2>3. d \in Receivers(round, s, e[2])
    BY <2>2 DEF MeantFor
  <2>4. e \in Meant(round, d, s)
    BY <2>2, <2>3 DEF Meant
  <2> QED BY <2>4
<1>2. ASSUME NEW s \in Ranks, NEW e \in Meant(round, d, s) PROVE e \in MeantFor(round, d)
  <2>1. PICK i \in DOMAIN round[s].payload : e = <<s, i>> /\ d \in Receivers(round, s, i)
    BY DEF Meant
  <2>2. e \in {s} \X DOMAIN round[s].payload /\ e[1] = s /\ e[2] = i
    BY <2>1
  <2> QED BY <2>1, <2>2 DEF MeantFor
<1> QED BY <1>1, <1>2

(* Which shard a position is in.                                            *)
LEMMA ShardOf ==
  ASSUME NEW shard \in Nat, NEW n \in Nat, NEW i \in 1 .. n * shard, NEW d \in Nat
  PROVE  (i - 1) \div shard = d <=> i \in d * shard + 1 .. d * shard + shard
<1>1. shard > 0
  <2> SUFFICES ASSUME shard = 0 PROVE FALSE
    OBVIOUS
  <2>1. n * shard = 0
    OBVIOUS
  <2> QED BY <2>1
<1>2. PICK q \in Nat, m \in Nat : q = (i - 1) \div shard /\ m < shard /\ i - 1 = shard * q + m
  <2>1. i - 1 \in Nat /\ shard \in Nat \ {0}
    BY <1>1
  <2>2. PICK x \in Nat : x = i - 1
    BY <2>1
  <2>3. x \div shard \in Nat /\ x % shard \in Nat /\ x % shard < shard
        /\ x = shard * (x \div shard) + (x % shard)
    BY <2>1, <2>2
  <2> QED BY <2>2, <2>3
<1>3. shard * q \in Nat /\ d * shard \in Nat /\ i \in Int
  OBVIOUS
<1>4. CASE q = d
  <2>1. shard * q = d * shard
    BY <1>4
  <2> QED BY <1>2, <1>3, <1>4, <2>1
<1>5. CASE q < d
  <2>1. PICK x \in Nat : d = q + 1 + x
    <3>1. d - q - 1 \in Nat /\ d = q + 1 + (d - q - 1)
      BY <1>5
    <3> QED BY <3>1
  <2>2. d * shard = shard * q + shard + x * shard /\ x * shard \in Nat
    BY <2>1
  <2> QED BY <1>2, <1>3, <1>5, <2>2
<1>6. CASE q > d
  <2>1. PICK x \in Nat : q = d + 1 + x
    <3>1. q - d - 1 \in Nat /\ q = d + 1 + (q - d - 1)
      BY <1>6
    <3> QED BY <3>1
  <2>2. shard * q = d * shard + shard + x * shard /\ x * shard \in Nat
    BY <2>1
  <2> QED BY <1>2, <1>3, <1>6, <2>2
<1> QED BY <1>4, <1>5, <1>6

(* The shards of a count that can be divided.                               *)
LEMMA Shards ==
  ASSUME NEW count \in Nat, count % WorldSize = 0
  PROVE  /\ count \div WorldSize \in Nat /\ count = WorldSize * (count \div WorldSize)
         /\ \A d \in Ranks : /\ d * (count \div WorldSize) \in Nat
                             /\ d * (count \div WorldSize) + count \div WorldSize <= count
<1>0. WorldSize \in Nat \ {0}
  BY WorldSizeAssumption
<1>1. PICK c \in Nat : c = count \div WorldSize /\ count = WorldSize * c
  <2>1. /\ count \div WorldSize \in Nat
        /\ count = WorldSize * (count \div WorldSize) + (count % WorldSize)
    BY <1>0
  <2>2. PICK c \in Nat, m \in Int : c = count \div WorldSize /\ m = count % WorldSize
    BY <2>1
  <2>3. count = WorldSize * c + m /\ m = 0
    BY <2>1, <2>2
  <2>4. WorldSize * c \in Nat
    BY <1>0
  <2> QED BY <2>2, <2>3, <2>4
<1>2. ASSUME NEW d \in Ranks PROVE d * c \in Nat /\ d * c + c <= count
  <2>1. PICK x \in Nat : WorldSize = d + 1 + x /\ d \in Nat
    <3>1. WorldSize - d - 1 \in Nat /\ WorldSize = d + 1 + (WorldSize - d - 1) /\ d \in Nat
      BY <1>0 DEF Ranks
    <3> QED BY <3>1
  <2>2. WorldSize * c = d * c + c + x * c /\ x * c \in Nat /\ d * c \in Nat
    BY <2>1
  <2> QED BY <1>1, <2>2
<1> QED BY <1>1, <1>2

(* The payloads of an accepted round have the length of the header.         *)
LEMMA FixedLengths ==
  ASSUME NEW round, FixedShape(round), Accepted(round)
  PROVE  /\ round[0].op \in Gathering \cup Sharding =>
              \A r \in Ranks : Len(round[r].payload) = round[0].count
         /\ round[0].op \in {"Broadcast", "Scatter"} =>
              /\ round[0].root \in Ranks /\ Len(round[round[0].root].payload) = round[0].count
         /\ round[0].op \in Sharding \cup {"Scatter"} => round[0].count % WorldSize = 0
         /\ round[0].op \in {"Gather", "Reduce"} => round[0].root \in Ranks
<1>1. RankPayloadLength(round[0]) = round[0].count
  BY DEF RankPayloadLength, FixedShape
<1> QED BY <1>1 DEF Accepted, Routable, RequireAllPayloads, RequireOnlyRootPayload, Rooted

(* The parts of which the response to rank d is made, sender by sender, in  *)
(* the collectives that gather or exchange.                                 *)
LEMMA GatherListed ==
  ASSUME NEW round, FixedShape(round), Accepted(round), NEW d \in Ranks
  PROVE  /\ Lists(ConcatenatePayloads(round), UNION {{<<s, i>> : i \in DOMAIN round[s].payload} : s \in Ranks})
         /\ round[0].op \in Gathering => Len(ConcatenatePayloads(round)) = round[0].count * WorldSize
         /\ ConcatenatePayloads(round) \in Seq(Letters)
<1> DEFINE parts == [r \in Ranks |-> round[r].payload]
           own == [s \in Ranks |-> {<<s, i>> : i \in DOMAIN round[s].payload}]
<1>1. \A s \in Ranks : parts[s] \in Seq(Letters) /\ Lists(parts[s], own[s]) /\ \A e \in own[s] : e[1] = s
  <2> TAKE s \in Ranks
  <2>1. OwnPayload(round[s].payload, s)
    BY DEF FixedShape
  <2>2. round[s].payload \in Seq(Letters) /\ Lists(round[s].payload, {<<s, i>> : i \in DOMAIN round[s].payload})
    BY <2>1, PayloadListed
  <2>3. parts[s] = round[s].payload /\ own[s] = {<<s, i>> : i \in DOMAIN round[s].payload}
    OBVIOUS
  <2>4. \A e \in own[s] : e[1] = s
    BY <2>3
  <2> HIDE DEF parts, own, Letters
  <2> QED BY <2>2, <2>3, <2>4, Zenon
<1>2. UNION {own[s] : s \in Ranks} = UNION {{<<s, i>> : i \in DOMAIN round[s].payload} : s \in Ranks}
  OBVIOUS
<1>3. ByRank(parts) = ConcatenatePayloads(round)
  BY DEF ConcatenatePayloads
<1>4. Lists(ByRank(parts), UNION {own[s] : s \in Ranks})
  <2> HIDE DEF parts, own, Letters
  <2> QED BY <1>1, ByRankLists
<1>5. ByRank(parts) \in Seq(Letters)
      /\ (round[0].op \in Gathering => Len(ByRank(parts)) = round[0].count * WorldSize)
  <2> DEFINE counts == [k \in 1 .. WorldSize |-> Len(parts[k - 1])]
  <2>0. WorldSize \in Nat /\ WorldSize \in 0 .. WorldSize
    BY WorldSizeAssumption
  <2>1. \A s \in Ranks : counts[s + 1] = Len(parts[s])
    BY <2>0 DEF Ranks
  <2>2. ByRank(parts) \in Seq(Letters) /\ Len(ByRank(parts)) = Total(counts, WorldSize)
    <3> HIDE DEF parts, counts, Letters
    <3> QED BY <1>1, <2>1, ByRankLength
  <2>3. ASSUME round[0].op \in Gathering PROVE Total(counts, WorldSize) = WorldSize * round[0].count
    <3>1. \A k \in 1 .. WorldSize : counts[k] = round[0].count
      <4>1. ASSUME NEW k \in 1 .. WorldSize PROVE counts[k] = round[0].count
        <5>1. k - 1 \in Ranks
          BY <2>0 DEF Ranks
        <5>2. Len(round[k - 1].payload) = round[0].count
          BY <5>1, <2>3, FixedLengths
        <5> QED BY <5>1, <5>2
      <4> QED BY <4>1
    <3>2. round[0].count \in Nat
      BY DEF FixedShape
    <3> HIDE DEF counts
    <3> QED BY <3>1, <3>2, <2>0, TotalConstant
  <2>4. round[0].count \in Nat
    BY DEF FixedShape
  <2> HIDE DEF counts, parts
  <2> QED BY <2>0, <2>2, <2>3, <2>4
<1> HIDE DEF own, parts
<1> QED BY <1>2, <1>3, <1>4, <1>5

(* How many ranks are served before position i of an all-to-all-v: d, when  *)
(* i is between the offsets of d and of d + 1.                              *)
LEMMA ServedBefore ==
  ASSUME NEW counts \in [1 .. WorldSize -> Nat], NEW d \in Ranks,
         NEW i \in 1 .. Total(counts, WorldSize)
  PROVE  Cardinality({j \in 1 .. WorldSize : i > Total(counts, j)}) = d
           <=> i \in Total(counts, d) + 1 .. Total(counts, d) + counts[d + 1]
<1> DEFINE T(k) == Total(counts, k)
           J == {j \in 1 .. WorldSize : i > T(j)}
<1>0. WorldSize \in Nat /\ WorldSize >= 1 /\ \A k \in 1 .. WorldSize : counts[k] \in Nat
  BY WorldSizeAssumption
<1>1. /\ T(0) = 0 /\ \A k \in 0 .. WorldSize : T(k) \in Nat
      /\ \A k \in 0 .. WorldSize - 1 : T(k + 1) = T(k) + counts[k + 1]
  BY <1>0, TotalSteps
<1>2. ASSUME NEW a \in 0 .. WorldSize, NEW b \in 0 .. WorldSize, a <= b PROVE T(a) <= T(b)
  BY <1>0, <1>2, TotalGrows
<1>a. i \in 1 .. T(WorldSize)
  OBVIOUS
<1> HIDE DEF T
<1>3. ASSUME NEW c \in Ranks, T(c) < i, i <= T(c + 1) PROVE Cardinality(J) = c
  <2>0. c \in 0 .. WorldSize /\ c + 1 \in 0 .. WorldSize /\ c \in Nat
    BY <1>0 DEF Ranks
  <2>1. ASSUME NEW j \in 1 .. WorldSize PROVE i > T(j) <=> j <= c
    <3>0. j \in 0 .. WorldSize /\ T(j) \in Nat /\ T(c) \in Nat /\ T(c + 1) \in Nat
      BY <1>1, <2>0
    <3>1. CASE j <= c
      <4>1. T(j) <= T(c)
        BY <3>0, <3>1, <2>0, <1>2
      <4> QED BY <3>0, <3>1, <4>1, <1>3, <1>a
    <3>2. CASE c + 1 <= j
      <4>1. T(c + 1) <= T(j)
        BY <3>0, <3>2, <2>0, <1>2
      <4> QED BY <3>0, <3>2, <2>0, <4>1, <1>3, <1>a
    <3> QED BY <3>1, <3>2, <2>0
  <2>2. J = 1 .. c
    <3>1. ASSUME NEW j \in J PROVE j \in 1 .. c
      BY <2>0, <2>1
    <3>2. ASSUME NEW j \in 1 .. c PROVE j \in J
      <4>1. j \in 1 .. WorldSize /\ j <= c
        BY <2>0, <1>0
      <4> QED BY <4>1, <2>1
    <3> HIDE DEF J
    <3> QED BY <3>1, <3>2
  <2>3. Cardinality(1 .. c) = c
    BY <2>0, FS_Interval
  <2> QED BY <2>2, <2>3
<1>4. PICK c \in Ranks : T(c) < i /\ i <= T(c + 1)
  <2> DEFINE Reached == {k \in 0 .. WorldSize : i <= T(k)}
  <2>1. WorldSize \in Reached /\ Reached \in SUBSET Nat
    BY <1>0, <1>a
  <2>2. PICK k \in Reached : \A y \in Reached : k <= y
    <3> HIDE DEF Reached
    <3> QED BY <2>1, LeastElement
  <2>3. k # 0
    BY <1>1, <1>a
  <2>4. k - 1 \in Ranks /\ k - 1 \in 0 .. WorldSize /\ ~(k <= k - 1) /\ (k - 1) + 1 = k
    BY <1>0, <2>3 DEF Ranks
  <2>5. ~(i <= T(k - 1))
    BY <2>2, <2>4
  <2>6. T(k - 1) < i
    BY <2>4, <2>5, <1>1, <1>a
  <2> QED BY <2>2, <2>4, <2>6
<1>5. Cardinality(J) = c
  BY <1>3, <1>4
<1>6. i \in T(d) + 1 .. T(d) + counts[d + 1] <=> T(d) < i /\ i <= T(d + 1)
  <2>1. d \in 0 .. WorldSize - 1 /\ d \in 0 .. WorldSize /\ d + 1 \in 0 .. WorldSize
    BY <1>0 DEF Ranks
  <2>2. T(d + 1) = T(d) + counts[d + 1] /\ T(d) \in Nat /\ T(d + 1) \in Nat
    BY <1>1, <2>1
  <2> QED BY <2>2, <1>a
<1>7. Cardinality(J) = d <=> i \in T(d) + 1 .. T(d) + counts[d + 1]
  <2>1. CASE c = d
    BY <2>1, <1>4, <1>5, <1>6
  <2>2. CASE c # d
    <3>1. ~(T(d) < i /\ i <= T(d + 1))
      BY <2>2, <1>3, <1>5
    <3> QED BY <2>2, <3>1, <1>5, <1>6
  <2> QED BY <2>1, <2>2
<1> QED BY <1>7 DEF T

(* Every sender contributes a slice of its payload: the positions meant for *)
(* d.                                                                       *)
TakesMeant(round, d, start, length, parts) ==
  \A s \in Ranks :
    /\ OwnPayload(round[s].payload, s)
    /\ start[s] \in Nat /\ length[s] \in Nat /\ start[s] + length[s] <= Len(round[s].payload)
    /\ \A i \in DOMAIN round[s].payload :
         d \in Receivers(round, s, i) <=> i \in start[s] + 1 .. start[s] + length[s]
    /\ parts[s] = Slice(round[s].payload, start[s], length[s])

(* Then the slices by rank list what is meant for d.                        *)
LEMMA SlicesListed ==
  ASSUME NEW round, NEW d, NEW start, NEW length, NEW parts, TakesMeant(round, d, start, length, parts)
  PROVE  /\ Lists(ByRank(parts), MeantFor(round, d))
         /\ \A s \in Ranks : parts[s] \in Seq(Letters) /\ Len(parts[s]) = length[s]
<1> DEFINE own == [s \in Ranks |-> {<<s, i>> : i \in start[s] + 1 .. start[s] + length[s]}]
<1>1. ASSUME NEW s \in Ranks
      PROVE  parts[s] \in Seq(Letters) /\ Len(parts[s]) = length[s] /\ Lists(parts[s], own[s])
  <2>1. PICK p : p = round[s].payload /\ OwnPayload(p, s)
    BY DEF TakesMeant
  <2>2. PICK a \in Nat, n \in Nat : a = start[s] /\ n = length[s]
    BY DEF TakesMeant
  <2>3. a + n <= Len(p)
    BY <2>1, <2>2 DEF TakesMeant
  <2>4. /\ Slice(p, a, n) \in Seq(Letters) /\ Len(Slice(p, a, n)) = n
        /\ Lists(Slice(p, a, n), {<<s, i>> : i \in a + 1 .. a + n})
    BY <2>1, <2>3, SliceListed
  <2>5. parts[s] = Slice(p, a, n) /\ own[s] = {<<s, i>> : i \in a + 1 .. a + n}
    BY <2>1, <2>2 DEF TakesMeant
  <2> HIDE DEF own, Letters
  <2> QED BY <2>2, <2>4, <2>5, Zenon
<1>2. ASSUME NEW s \in Ranks PROVE \A e \in own[s] : e[1] = s
  OBVIOUS
<1>3. Lists(ByRank(parts), UNION {own[s] : s \in Ranks})
  <2> HIDE DEF own, Letters
  <2> QED BY <1>1, <1>2, ByRankLists
<1>4. ASSUME NEW s \in Ranks PROVE own[s] = Meant(round, d, s)
  <2>0. PICK p : p = round[s].payload
    OBVIOUS
  <2>1. DOMAIN p = 1 .. Len(p) /\ Len(p) \in Nat
    <3>1. p \in Seq(Letters)
      BY <2>0 DEF OwnPayload, TakesMeant
    <3> QED BY <3>1
  <2>2. start[s] + 1 .. start[s] + length[s] \subseteq DOMAIN p
    <3>1. start[s] \in Nat /\ length[s] \in Nat /\ start[s] + length[s] <= Len(p)
      BY <2>0 DEF TakesMeant
    <3> QED BY <2>1, <3>1
  <2>3. {i \in DOMAIN p : d \in Receivers(round, s, i)} = start[s] + 1 .. start[s] + length[s]
    BY <2>0, <2>2 DEF TakesMeant
  <2> QED BY <2>0, <2>3 DEF Meant
<1>5. UNION {own[s] : s \in Ranks} = UNION {Meant(round, d, s) : s \in Ranks}
  <2> HIDE DEF own
  <2> QED BY <1>4
<1>6. MeantFor(round, d) = UNION {Meant(round, d, s) : s \in Ranks}
  BY MeantBySender
<1> HIDE DEF own
<1> QED BY <1>1, <1>3, <1>5, <1>6

(* What is meant for d when one rank is the only sender.                    *)
LEMMA OneSender ==
  ASSUME NEW round, NEW d, NEW root \in Ranks, NEW K, K \subseteq DOMAIN round[root].payload,
         \A i \in DOMAIN round[root].payload : d \in Receivers(round, root, i) <=> i \in K,
         \A s \in Ranks \ {root} : \A i \in DOMAIN round[s].payload : d \notin Receivers(round, s, i)
  PROVE  MeantFor(round, d) = {<<root, i>> : i \in K}
<1>1. Meant(round, d, root) = {<<root, i>> : i \in K}
  <2>1. {i \in DOMAIN round[root].payload : d \in Receivers(round, root, i)} = K
    OBVIOUS
  <2> QED BY <2>1 DEF Meant
<1>2. ASSUME NEW s \in Ranks \ {root} PROVE Meant(round, d, s) = {}
  BY DEF Meant
<1>3. UNION {Meant(round, d, s) : s \in Ranks} = Meant(round, d, root)
  BY <1>2
<1> QED BY <1>1, <1>3, MeantBySender

(* The response to rank d lists what is meant for d, and has the count of   *)
(* its header: the collectives of fixed size.                               *)
LEMMA FixedRouted ==
  ASSUME NEW round, FixedShape(round), Accepted(round), NEW d \in Ranks
  PROVE  /\ Lists(ResponsePayload(round, d), MeantFor(round, d))
         /\ ResponsePayload(round, d) \in Seq(Letters)
         /\ Len(ResponsePayload(round, d)) = ResponseCount(round, d)
<1> DEFINE op == round[0].op
           count == round[0].count
           root == round[0].root
           c == count \div WorldSize
<1>0. /\ count \in Nat /\ op \in Opcodes /\ op # "AllToAllV"
      /\ \A r \in Ranks : OwnPayload(round[r].payload, r)
  BY DEF FixedShape
<1>a. /\ op \in Gathering \cup Sharding => \A r \in Ranks : Len(round[r].payload) = count
      /\ op \in {"Broadcast", "Scatter"} => root \in Ranks /\ Len(round[root].payload) = count
      /\ op \in Sharding \cup {"Scatter"} => count % WorldSize = 0
      /\ op \in {"Gather", "Reduce"} => root \in Ranks
  BY FixedLengths
<1>b. Lists(<<>>, {}) /\ <<>> \in Seq(Letters) /\ Len(<<>>) = 0
  BY DEF Lists
<1>c. /\ Lists(ConcatenatePayloads(round), UNION {{<<s, i>> : i \in DOMAIN round[s].payload} : s \in Ranks})
      /\ op \in Gathering => Len(ConcatenatePayloads(round)) = count * WorldSize
      /\ ConcatenatePayloads(round) \in Seq(Letters)
  BY GatherListed
<1>d. ASSUME \A s \in Ranks : \A i \in DOMAIN round[s].payload : d \notin Receivers(round, s, i)
      PROVE  MeantFor(round, d) = {}
  <2>1. \A s \in Ranks : Meant(round, d, s) = {}
    BY <1>d DEF Meant
  <2> QED BY <2>1, MeantBySender
<1>e. ASSUME \A s \in Ranks : \A i \in DOMAIN round[s].payload : d \in Receivers(round, s, i)
      PROVE  MeantFor(round, d) = UNION {{<<s, i>> : i \in DOMAIN round[s].payload} : s \in Ranks}
  <2>1. \A s \in Ranks : Meant(round, d, s) = {<<s, i>> : i \in DOMAIN round[s].payload}
    BY <1>e DEF Meant
  <2> QED BY <2>1, MeantBySender
<1> HIDE DEF op, count, root, c
<1>1. CASE op \in Control
  <2>1. ResponsePayload(round, d) = <<>> /\ ResponseCount(round, d) = 0
    BY <1>1 DEF ResponsePayload, ResponseCount, op, Control, Sharding
  <2>2. \A s \in Ranks : \A i \in DOMAIN round[s].payload : d \notin Receivers(round, s, i)
    BY <1>1 DEF Receivers, op, Control, Sharding
  <2> QED BY <2>1, <2>2, <1>b, <1>d
<1>2. CASE op = "Broadcast"
  <2>1. ResponsePayload(round, d) = round[root].payload /\ ResponseCount(round, d) = count /\ root \in Ranks
    BY <1>2, <1>a DEF ResponsePayload, ResponseCount, op, count, root, Control, Sharding
  <2>2. \A s \in Ranks : \A i \in DOMAIN round[s].payload : d \in Receivers(round, s, i) <=> s = root
    BY <1>2 DEF Receivers, op, root, Control, Sharding
  <2>3. PICK p : p = round[root].payload /\ OwnPayload(p, root)
    BY <1>0, <2>1
  <2>4. MeantFor(round, d) = {<<root, i>> : i \in DOMAIN p}
    <3>1. PICK K, x : K = DOMAIN p /\ x = root
      OBVIOUS
    <3>2. /\ x \in Ranks /\ K \subseteq DOMAIN round[x].payload
          /\ \A i \in DOMAIN round[x].payload : d \in Receivers(round, x, i) <=> i \in K
          /\ \A s \in Ranks \ {x} : \A i \in DOMAIN round[s].payload : d \notin Receivers(round, s, i)
      BY <2>1, <2>2, <2>3, <3>1
    <3>3. MeantFor(round, d) = {<<x, i>> : i \in K}
      BY <3>2, OneSender
    <3> QED BY <3>1, <3>3
  <2>5. p \in Seq(Letters) /\ Lists(p, {<<root, i>> : i \in DOMAIN p})
    BY <2>1, <2>3, PayloadListed
  <2>6. Len(p) = count
    BY <1>2, <1>a, <2>3
  <2> HIDE DEF Letters
  <2> QED BY <2>1, <2>3, <2>4, <2>5, <2>6, Zenon
<1>3. CASE op \in {"AllGather", "AllReduce"}
  <2>1. ResponsePayload(round, d) = ConcatenatePayloads(round) /\ ResponseCount(round, d) = count * WorldSize
    BY <1>3 DEF ResponsePayload, ResponseCount, op, count, Control, Sharding
  <2>2. \A s \in Ranks : \A i \in DOMAIN round[s].payload : d \in Receivers(round, s, i)
    BY <1>3 DEF Receivers, op, Control, Sharding
  <2>3. op \in Gathering
    BY <1>3 DEF Gathering
  <2> HIDE DEF Letters
  <2> QED BY <2>1, <2>2, <2>3, <1>c, <1>e
<1>4. CASE op \in {"Gather", "Reduce"}
  <2>1. CASE d = root
    <3>1. ResponsePayload(round, d) = ConcatenatePayloads(round) /\ ResponseCount(round, d) = count * WorldSize
      BY <1>4, <2>1 DEF ResponsePayload, ResponseCount, op, count, root, Control, Sharding
    <3>2. \A s \in Ranks : \A i \in DOMAIN round[s].payload : d \in Receivers(round, s, i)
      BY <1>4, <2>1 DEF Receivers, op, root, Control, Sharding
    <3>3. op \in Gathering
      BY <1>4 DEF Gathering
    <3> HIDE DEF Letters
    <3> QED BY <3>1, <3>2, <3>3, <1>c, <1>e
  <2>2. CASE d # root
    <3>1. ResponsePayload(round, d) = <<>> /\ ResponseCount(round, d) = 0
      BY <1>4, <2>2 DEF ResponsePayload, ResponseCount, op, root, Control, Sharding
    <3>2. \A s \in Ranks : \A i \in DOMAIN round[s].payload : d \notin Receivers(round, s, i)
      BY <1>4, <2>2 DEF Receivers, op, root, Control, Sharding
    <3> QED BY <3>1, <3>2, <1>b, <1>d
  <2> QED BY <2>1, <2>2
<1>f. ASSUME op \in Sharding \cup {"Scatter"}
      PROVE  c \in Nat /\ count = WorldSize * c /\ d * c \in Nat /\ d * c + c <= count
  BY <1>f, <1>0, <1>a, Shards DEF c
<1>g. ASSUME op \in Sharding \cup {"Scatter"}, NEW i \in 1 .. count
      PROVE  (i - 1) \div c = d <=> i \in d * c + 1 .. d * c + c
  <2>1. c \in Nat /\ WorldSize \in Nat /\ d \in Nat
    BY <1>f, <1>g, WorldSizeAssumption DEF Ranks
  <2>2. i \in 1 .. WorldSize * c
    BY <1>f, <1>g
  <2> QED BY <2>1, <2>2, ShardOf
<1>5. CASE op = "Scatter"
  <2>1. /\ ResponsePayload(round, d) = Slice(round[root].payload, d * c, c)
        /\ ResponseCount(round, d) = c /\ root \in Ranks
    BY <1>5, <1>a DEF ResponsePayload, ResponseCount, op, count, root, c, Control, Sharding
  <2>2. \A s \in Ranks : \A i \in DOMAIN round[s].payload :
          d \in Receivers(round, s, i) <=> s = root /\ d = (i - 1) \div c
    BY <1>5 DEF Receivers, op, root, c, count, Control, Sharding
  <2>3. PICK p : p = round[root].payload /\ OwnPayload(p, root)
    BY <1>0, <2>1
  <2>4. Len(p) = count /\ DOMAIN p = 1 .. count
    <3>1. p \in Seq(Letters) /\ Len(p) = count
      BY <1>5, <1>a, <2>3 DEF OwnPayload
    <3> QED BY <3>1
  <2>5. PICK a \in Nat, n \in Nat : a = d * c /\ n = c /\ a + n <= count
    BY <1>5, <1>f
  <2>6. a + 1 .. a + n \subseteq DOMAIN p
    BY <1>0, <2>4, <2>5
  <2>7. \A i \in DOMAIN p : d \in Receivers(round, root, i) <=> i \in a + 1 .. a + n
    BY <1>5, <1>g, <2>1, <2>2, <2>3, <2>4, <2>5
  <2>8. MeantFor(round, d) = {<<root, i>> : i \in a + 1 .. a + n}
    <3>1. PICK K, x : K = a + 1 .. a + n /\ x = root
      OBVIOUS
    <3>2. /\ x \in Ranks /\ K \subseteq DOMAIN round[x].payload
          /\ \A i \in DOMAIN round[x].payload : d \in Receivers(round, x, i) <=> i \in K
      BY <2>1, <2>3, <2>6, <2>7, <3>1
    <3>3. \A s \in Ranks \ {x} : \A i \in DOMAIN round[s].payload : d \notin Receivers(round, s, i)
      BY <2>2, <3>1
    <3>4. MeantFor(round, d) = {<<x, i>> : i \in K}
      BY <3>2, <3>3, OneSender
    <3> QED BY <3>1, <3>4
  <2>9. /\ Slice(p, a, n) \in Seq(Letters) /\ Len(Slice(p, a, n)) = n
        /\ Lists(Slice(p, a, n), {<<root, i>> : i \in a + 1 .. a + n})
    BY <2>1, <2>3, <2>4, <2>5, SliceListed
  <2> HIDE DEF Letters
  <2> QED BY <2>1, <2>3, <2>5, <2>8, <2>9, Zenon
<1>6. CASE op \in Sharding
  <2> DEFINE parts == [s \in Ranks |-> Slice(round[s].payload, d * c, c)]
             start == [s \in Ranks |-> d * c]
             length == [s \in Ranks |-> c]
  <2>1. ResponsePayload(round, d) = ByRank(parts) /\ ResponseCount(round, d) = c * WorldSize
    BY <1>6 DEF ResponsePayload, ResponseCount, op, count, c, Control, Sharding
  <2>2. \A s \in Ranks : \A i \in DOMAIN round[s].payload : d \in Receivers(round, s, i) <=> d = (i - 1) \div c
    BY <1>6 DEF Receivers, op, c, count, Sharding, Control
  <2>3. TakesMeant(round, d, start, length, parts)
    <3>1. ASSUME NEW s \in Ranks
          PROVE  /\ OwnPayload(round[s].payload, s)
                 /\ start[s] \in Nat /\ length[s] \in Nat /\ start[s] + length[s] <= Len(round[s].payload)
                 /\ \A i \in DOMAIN round[s].payload :
                      d \in Receivers(round, s, i) <=> i \in start[s] + 1 .. start[s] + length[s]
                 /\ parts[s] = Slice(round[s].payload, start[s], length[s])
      <4>1. PICK p : p = round[s].payload /\ OwnPayload(p, s)
        BY <1>0
      <4>2. Len(p) = count /\ DOMAIN p = 1 .. count
        <5>1. p \in Seq(Letters) /\ Len(p) = count
          BY <1>6, <1>a, <4>1 DEF OwnPayload
        <5> QED BY <5>1
      <4>3. start[s] = d * c /\ length[s] = c /\ parts[s] = Slice(p, d * c, c)
        BY <4>1
      <4>4. c \in Nat /\ d * c \in Nat /\ d * c + c <= count
        BY <1>6, <1>f
      <4>5. \A i \in DOMAIN p : d \in Receivers(round, s, i) <=> i \in d * c + 1 .. d * c + c
        BY <1>6, <1>g, <2>2, <4>1, <4>2
      <4> HIDE DEF start, length, parts
      <4> QED BY <4>1, <4>2, <4>3, <4>4, <4>5
    <3> HIDE DEF start, length, parts
    <3> QED BY <3>1, Zenon DEF TakesMeant
  <2>4. /\ Lists(ByRank(parts), MeantFor(round, d))
        /\ \A s \in Ranks : parts[s] \in Seq(Letters) /\ Len(parts[s]) = length[s]
    <3> HIDE DEF start, length, parts, Letters
    <3> QED BY <2>3, SlicesListed
  <2> DEFINE counts == [k \in 1 .. WorldSize |-> c]
  <2>5. WorldSize \in Nat /\ WorldSize \in 0 .. WorldSize /\ c \in Nat
    BY WorldSizeAssumption, <1>6, <1>f
  <2>6. \A s \in Ranks : counts[s + 1] = Len(parts[s])
    <3>1. ASSUME NEW s \in Ranks PROVE counts[s + 1] = Len(parts[s])
      <4>1. s + 1 \in 1 .. WorldSize
        BY <2>5 DEF Ranks
      <4>2. length[s] = c /\ counts[s + 1] = c
        BY <4>1
      <4> HIDE DEF parts, length, counts
      <4> QED BY <4>2, <2>4
    <3> HIDE DEF parts, counts
    <3> QED BY <3>1
  <2>7. ByRank(parts) \in Seq(Letters) /\ Len(ByRank(parts)) = Total(counts, WorldSize)
    <3> HIDE DEF parts, counts, Letters, length
    <3> QED BY <2>4, <2>6, ByRankLength
  <2>8. Total(counts, WorldSize) = WorldSize * c
    <3>1. \A k \in 1 .. WorldSize : counts[k] = c
      OBVIOUS
    <3> HIDE DEF counts
    <3> QED BY <2>5, <3>1, TotalConstant
  <2> HIDE DEF parts, counts, Letters, length, start
  <2>9. WorldSize * c = c * WorldSize
    BY <2>5
  <2> QED BY <2>1, <2>4, <2>7, <2>8, <2>9
<1>7. op \in Control \/ op = "Broadcast" \/ op \in {"AllGather", "AllReduce"} \/ op \in {"Gather", "Reduce"}
      \/ op = "Scatter" \/ op \in Sharding
  BY <1>0 DEF Opcodes, Gathering, Rooted
<1> QED BY <1>1, <1>2, <1>3, <1>4, <1>5, <1>6, <1>7

(* What the ranks send to d in an all-to-all-v, and how much.               *)
Column(round, d) == [i \in 1 .. WorldSize |-> round[i - 1].counts[d + 1]]
SentTo(round, d) ==
  [s \in Ranks |-> Slice(round[s].payload, SentBefore(round[s], d), round[s].counts[d + 1])]

(* One rank's share of it.                                                  *)
LEMMA VariablePart ==
  ASSUME NEW round, VariableShape(round), NEW d \in Ranks, NEW s \in Ranks
  PROVE  /\ OwnPayload(round[s].payload, s)
         /\ SentBefore(round[s], d) \in Nat /\ round[s].counts[d + 1] \in Nat
         /\ SentBefore(round[s], d) + round[s].counts[d + 1] <= Len(round[s].payload)
         /\ SentTo(round, d)[s] = Slice(round[s].payload, SentBefore(round[s], d), round[s].counts[d + 1])
         /\ SentTo(round, d)[s] \in Seq(Letters)
         /\ Column(round, d)[s + 1] = round[s].counts[d + 1]
         /\ Len(SentTo(round, d)[s]) = Column(round, d)[s + 1]
<1>0. WorldSize \in Nat /\ WorldSize >= 1
  BY WorldSizeAssumption
<1>1. PICK counts, p :
        /\ counts \in [1 .. WorldSize -> Nat] /\ counts = round[s].counts /\ p = round[s].payload
        /\ OwnPayload(p, s) /\ Len(p) = Total(counts, WorldSize)
  BY DEF VariableShape
<1>2. \A k \in 1 .. WorldSize : counts[k] \in Nat
  BY <1>0, <1>1
<1>3. d \in 0 .. WorldSize - 1 /\ d \in 0 .. WorldSize /\ d + 1 \in 0 .. WorldSize /\ d + 1 \in 1 .. WorldSize
      /\ d + 1 <= WorldSize /\ WorldSize \in 0 .. WorldSize
  BY <1>0 DEF Ranks
<1>4. Total(counts, d) \in Nat /\ Total(counts, d + 1) = Total(counts, d) + counts[d + 1] /\ counts[d + 1] \in Nat
  BY <1>0, <1>2, <1>3, TotalSteps
<1>5. Total(counts, d + 1) <= Total(counts, WorldSize)
  BY <1>0, <1>2, <1>3, TotalGrows
<1>6. PICK a \in Nat, n \in Nat : a = Total(counts, d) /\ n = counts[d + 1] /\ a + n <= Len(p)
  BY <1>1, <1>4, <1>5
<1>7. Slice(p, a, n) \in Seq(Letters) /\ Len(Slice(p, a, n)) = n
  BY <1>1, <1>6, SliceListed
<1>8. SentBefore(round[s], d) = a /\ round[s].counts[d + 1] = n
  BY <1>1, <1>6 DEF SentBefore
<1>9. SentTo(round, d)[s] = Slice(p, a, n)
  BY <1>1, <1>8 DEF SentTo
<1>10. Column(round, d)[s + 1] = n
  <2>1. s + 1 \in 1 .. WorldSize /\ (s + 1) - 1 = s
    BY <1>0 DEF Ranks
  <2> QED BY <2>1, <1>8 DEF Column
<1> HIDE DEF Letters
<1> QED BY <1>1, <1>6, <1>7, <1>8, <1>9, <1>10

(* The response of an all-to-all-v lists what is meant for d, and has the   *)
(* count of its header.                                                     *)
LEMMA VariableRouted ==
  ASSUME NEW round, VariableShape(round), NEW d \in Ranks
  PROVE  /\ Lists(ResponsePayload(round, d), MeantFor(round, d))
         /\ ResponsePayload(round, d) = ByRank(SentTo(round, d))
         /\ ResponsePayload(round, d) \in Seq(Letters)
         /\ Len(ResponsePayload(round, d)) = ResponseCount(round, d)
         /\ ResponseCount(round, d) = Total(Column(round, d), WorldSize)
<1>0. 0 \in Ranks /\ round[0].op = "AllToAllV" /\ WorldSize \in Nat
  BY RankZero, WorldSizeAssumption DEF VariableShape
<1>1. ResponsePayload(round, d) = ByRank(SentTo(round, d))
  BY <1>0 DEF ResponsePayload, SentTo, Control, Sharding
<1>2. ResponseCount(round, d) = Total(Column(round, d), WorldSize)
  BY <1>0 DEF ResponseCount, Column, Control, Sharding
<1> DEFINE start == [s \in Ranks |-> SentBefore(round[s], d)]
           length == [s \in Ranks |-> round[s].counts[d + 1]]
<1>3. ASSUME NEW s \in Ranks
      PROVE  \A i \in DOMAIN round[s].payload :
               d \in Receivers(round, s, i) <=> i \in start[s] + 1 .. start[s] + length[s]
  <2> TAKE i \in DOMAIN round[s].payload
  <2>1. PICK counts, p :
          /\ counts \in [1 .. WorldSize -> Nat] /\ counts = round[s].counts /\ p = round[s].payload
          /\ OwnPayload(p, s) /\ Len(p) = Total(counts, WorldSize)
    BY DEF VariableShape
  <2>2. i \in 1 .. Total(counts, WorldSize)
    <3>1. p \in Seq(Letters)
      BY <2>1 DEF OwnPayload
    <3>2. i \in 1 .. Len(p)
      BY <2>1, <3>1
    <3> QED BY <2>1, <3>2
  <2>3. d \in Receivers(round, s, i) <=> Cardinality({j \in 1 .. WorldSize : i > SentBefore(round[s], j)}) = d
    BY <1>0 DEF Receivers, Sharding
  <2>4. {j \in 1 .. WorldSize : i > SentBefore(round[s], j)} = {j \in 1 .. WorldSize : i > Total(counts, j)}
    BY <2>1 DEF SentBefore
  <2>5. Cardinality({j \in 1 .. WorldSize : i > Total(counts, j)}) = d
           <=> i \in Total(counts, d) + 1 .. Total(counts, d) + counts[d + 1]
    BY <2>1, <2>2, ServedBefore
  <2>6. start[s] = Total(counts, d) /\ length[s] = counts[d + 1]
    BY <2>1 DEF SentBefore
  <2> HIDE DEF start, length
  <2> QED BY <2>3, <2>4, <2>5, <2>6, Zenon
<1>4. TakesMeant(round, d, start, length, SentTo(round, d))
  <2>1. ASSUME NEW s \in Ranks
        PROVE  /\ OwnPayload(round[s].payload, s)
               /\ start[s] \in Nat /\ length[s] \in Nat /\ start[s] + length[s] <= Len(round[s].payload)
               /\ SentTo(round, d)[s] = Slice(round[s].payload, start[s], length[s])
    <3>1. start[s] = SentBefore(round[s], d) /\ length[s] = round[s].counts[d + 1]
      OBVIOUS
    <3>2. /\ OwnPayload(round[s].payload, s)
          /\ SentBefore(round[s], d) \in Nat /\ round[s].counts[d + 1] \in Nat
          /\ SentBefore(round[s], d) + round[s].counts[d + 1] <= Len(round[s].payload)
          /\ SentTo(round, d)[s] = Slice(round[s].payload, SentBefore(round[s], d), round[s].counts[d + 1])
      BY VariablePart
    <3> HIDE DEF start, length
    <3> QED BY <3>1, <3>2, Zenon
  <2> HIDE DEF start, length
  <2> QED BY <1>3, <2>1, Zenon DEF TakesMeant
<1>5. Lists(ByRank(SentTo(round, d)), MeantFor(round, d))
  <2> HIDE DEF start, length
  <2> QED BY <1>4, SlicesListed
<1>6. ByRank(SentTo(round, d)) \in Seq(Letters)
      /\ Len(ByRank(SentTo(round, d))) = Total(Column(round, d), WorldSize)
  <2>1. \A s \in Ranks : SentTo(round, d)[s] \in Seq(Letters)
    BY VariablePart
  <2>2. \A s \in Ranks : Column(round, d)[s + 1] = Len(SentTo(round, d)[s])
    BY VariablePart
  <2> HIDE DEF Letters
  <2> QED BY <2>1, <2>2, ByRankLength
<1> HIDE DEF Letters
<1> QED BY <1>1, <1>2, <1>5, <1>6

(* The counts before the data of a response.                                *)
LEMMA ResponseCounts ==
  ASSUME NEW round, NEW d
  PROVE  Response(round, d).counts = IF round[0].op = "AllToAllV" THEN Column(round, d) ELSE <<>>
BY Zenon DEF Response, Column

(* A second exchange with the received counts and data returns everything.  *)
LEMMA VariableReturns ==
  ASSUME NEW round, VariableShape(round)
  PROVE  SecondExchangeReturns(round, Responses(round))
<1>0. 0 \in Ranks /\ WorldSize \in Nat /\ WorldSize \in 0 .. WorldSize
  BY RankZero, WorldSizeAssumption
<1>1. PICK outcome : outcome = Responses(round)
  OBVIOUS
<1>2. ASSUME NEW d \in Ranks
      PROVE  /\ outcome[d].op = "AllToAllV" /\ outcome[d].elt = "U8" /\ outcome[d].root = AnyRank
             /\ outcome[d].prefix = TRUE /\ outcome[d].counts = Column(round, d)
             /\ outcome[d].count = Total(Column(round, d), WorldSize)
             /\ outcome[d].payload = ByRank(SentTo(round, d))
             /\ Len(outcome[d].payload) = outcome[d].count
  <2>1. outcome[d] = Response(round, d)
    BY <1>1 DEF Responses
  <2>2. round[0].op = "AllToAllV" /\ round[0].elt = "U8"
    BY <1>0 DEF VariableShape
  <2>3. /\ outcome[d].op = round[0].op /\ outcome[d].root = AnyRank
        /\ outcome[d].count = ResponseCount(round, d) /\ outcome[d].payload = ResponsePayload(round, d)
    BY <2>1 DEF Response
  <2>a. /\ outcome[d].elt = IF round[0].op \in Control \/ ~Carries(round, d) THEN "None" ELSE round[0].elt
        /\ outcome[d].prefix = (round[0].op = "AllToAllV")
    BY <2>1 DEF Response
  <2>b. outcome[d].counts = IF round[0].op = "AllToAllV" THEN Column(round, d) ELSE <<>>
    BY <2>1, ResponseCounts
  <2>4. outcome[d].elt = "U8" /\ outcome[d].prefix = TRUE /\ outcome[d].counts = Column(round, d)
    BY <2>a, <2>b, <2>2 DEF Control, Carries
  <2>5. /\ ResponsePayload(round, d) = ByRank(SentTo(round, d))
        /\ Len(ResponsePayload(round, d)) = ResponseCount(round, d)
        /\ ResponseCount(round, d) = Total(Column(round, d), WorldSize)
    BY VariableRouted
  <2> QED BY <2>2, <2>3, <2>4, <2>5
<1>3. Accepted(outcome)
  <2>1. AgreeAll(outcome)
    <3>1. \A r \in Ranks : OperationDescriptor(outcome[r]) = OperationDescriptor(outcome[0])
      BY <1>0, <1>2 DEF OperationDescriptor
    <3> QED BY <3>1 DEF AgreeAll
  <2>2. ASSUME NEW r \in Ranks PROVE CountsDecode(outcome[r])
    <3>1. Len(outcome[r].counts) = WorldSize
      <4>1. Len(Column(round, r)) = WorldSize
        BY <1>0 DEF Column
      <4> QED BY <1>2, <4>1
    <3>2. SentBefore(outcome[r], WorldSize) = outcome[r].count
      BY <1>2 DEF SentBefore
    <3> QED BY <1>2, <3>1, <3>2 DEF CountsDecode
  <2>3. Routable(outcome)
    BY <1>0, <1>2, <2>2 DEF Routable, Opcodes, Control, Rooted, Gathering, Sharding
  <2> QED BY <2>1, <2>3 DEF Accepted
<1>4. ASSUME NEW r \in Ranks
      PROVE  /\ Responses(outcome)[r].payload = round[r].payload
             /\ Responses(outcome)[r].counts = round[r].counts
  <2>1. Responses(outcome)[r] = Response(outcome, r)
    BY DEF Responses
  <2>2. PICK counts, p :
          /\ counts \in [1 .. WorldSize -> Nat] /\ counts = round[r].counts /\ p = round[r].payload
          /\ OwnPayload(p, r) /\ Len(p) = Total(counts, WorldSize)
    BY DEF VariableShape
  <2>3. Responses(outcome)[r].counts = round[r].counts
    <3>1. Responses(outcome)[r].counts = [i \in 1 .. WorldSize |-> outcome[i - 1].counts[r + 1]]
      <4>1. outcome[0].op = "AllToAllV"
        BY <1>0, <1>2
      <4>2. Response(outcome, r).counts = IF outcome[0].op = "AllToAllV" THEN Column(outcome, r) ELSE <<>>
        BY ResponseCounts
      <4>3. Responses(outcome)[r].counts = Column(outcome, r)
        BY <2>1, <4>1, <4>2
      <4> QED BY <4>3 DEF Column
    <3>2. ASSUME NEW i \in 1 .. WorldSize PROVE outcome[i - 1].counts[r + 1] = counts[i]
      <4>1. i - 1 \in Ranks /\ (i - 1) + 1 = i
        BY <1>0 DEF Ranks
      <4>2. outcome[i - 1].counts = Column(round, i - 1)
        BY <4>1, <1>2
      <4>3. Column(round, i - 1)[r + 1] = round[r].counts[(i - 1) + 1]
        BY <4>1, VariablePart
      <4> QED BY <2>2, <4>1, <4>2, <4>3
    <3>3. [i \in 1 .. WorldSize |-> outcome[i - 1].counts[r + 1]] = counts
      BY <2>2, <3>2
    <3> QED BY <2>2, <3>1, <3>3
  <2>4. ResponsePayload(outcome, r) = ByRank(SentTo(outcome, r))
    BY <1>0, <1>2 DEF ResponsePayload, SentTo, Control, Sharding
  <2>5. ASSUME NEW s \in Ranks PROVE SentTo(outcome, r)[s] = Slice(p, Total(counts, s), counts[s + 1])
    <3>1. SentTo(outcome, r)[s] = Slice(outcome[s].payload, SentBefore(outcome[s], r), outcome[s].counts[r + 1])
      BY DEF SentTo
    <3>2. /\ outcome[s].payload = ByRank(SentTo(round, s)) /\ outcome[s].counts = Column(round, s)
          /\ SentBefore(outcome[s], r) = Total(Column(round, s), r)
      BY <1>2 DEF SentBefore
    <3>3. Slice(ByRank(SentTo(round, s)), Total(Column(round, s), r), Column(round, s)[r + 1]) = SentTo(round, s)[r]
      <4>1. \A q \in Ranks : SentTo(round, s)[q] \in Seq(Letters)
        BY VariablePart
      <4>2. \A q \in Ranks : Column(round, s)[q + 1] = Len(SentTo(round, s)[q])
        BY VariablePart
      <4> HIDE DEF Letters
      <4> QED BY <4>1, <4>2, ByRankSlice
    <3>4. SentTo(round, s)[r] = Slice(round[r].payload, SentBefore(round[r], s), round[r].counts[s + 1])
      BY VariablePart
    <3>5. SentBefore(round[r], s) = Total(counts, s) /\ round[r].counts[s + 1] = counts[s + 1]
      BY <2>2 DEF SentBefore
    <3> QED BY <2>2, <3>1, <3>2, <3>3, <3>4, <3>5, Zenon
  <2>6. ByRank(SentTo(outcome, r)) = p
    <3>1. p \in Seq(Letters) /\ \A k \in 1 .. WorldSize : counts[k] \in Nat
      BY <2>2 DEF OwnPayload
    <3> HIDE DEF Letters
    <3> QED BY <2>2, <2>5, <3>1, ByRankWhole
  <2>7. Responses(outcome)[r].payload = ResponsePayload(outcome, r)
    BY <2>1 DEF Response
  <2> QED BY <2>2, <2>3, <2>4, <2>6, <2>7
<1> QED BY <1>1, <1>3, <1>4 DEF SecondExchangeReturns

(* A response whose payload has the announced count, and nothing without an *)
(* element type, is a valid frame.                                          *)
LEMMA ResponsesValid ==
  ASSUME NEW round, (FixedShape(round) /\ Accepted(round)) \/ VariableShape(round), NEW d \in Ranks
  PROVE  ResponseValid(Response(round, d))
<1>0. 0 \in Ranks /\ WorldSize \in Nat
  BY RankZero, WorldSizeAssumption
<1>1. PICK p, n : p = ResponsePayload(round, d) /\ n = ResponseCount(round, d)
  OBVIOUS
<1>2. p \in Seq(Letters) /\ Len(p) = n
  BY <1>1, FixedRouted, VariableRouted
<1>3. PICK f : f = Response(round, d)
  OBVIOUS
<1>4. f.payload = p /\ f.count = n /\ f.root = AnyRank /\ f.op = round[0].op
  BY <1>1, <1>3 DEF Response
<1>5. ASSUME f.elt = "None" PROVE n = 0 /\ round[0].op # "AllToAllV"
  <2>1. CASE VariableShape(round)
    <3>1. round[0].op = "AllToAllV" /\ round[0].elt = "U8"
      BY <1>0, <2>1 DEF VariableShape
    <3>2. f.elt = "U8"
      BY <3>1, <1>3 DEF Response, Control, Carries
    <3> QED BY <3>2, <1>5
  <2>2. CASE FixedShape(round)
    <3>1. round[0].op \in Opcodes /\ round[0].op # "AllToAllV" /\ round[0].count \in Nat
          /\ (round[0].elt = "None" => round[0].count = 0)
      BY <2>2 DEF FixedShape
    <3>2. CASE round[0].op \in Control
      BY <3>1, <3>2, <1>1 DEF ResponseCount, Control, Sharding
    <3>3. CASE ~Carries(round, d)
      BY <3>1, <3>3, <1>1 DEF ResponseCount, Carries, Control, Sharding
    <3>4. CASE round[0].op \notin Control /\ Carries(round, d)
      <4>1. round[0].elt = "None"
        BY <3>4, <1>3, <1>5 DEF Response
      <4>2. round[0].count = 0
        BY <3>1, <4>1
      <4>3. 0 \div WorldSize = 0 /\ 0 * WorldSize = 0
        BY WorldSizeAssumption
      <4> QED BY <3>1, <3>4, <4>2, <4>3, <1>1
              DEF ResponseCount, Carries, Control, Sharding, Opcodes, Gathering, Rooted
    <3> QED BY <3>2, <3>3, <3>4
  <2> QED BY <2>1, <2>2
<1>6. n = 0 => p = <<>>
  BY <1>2
<1>7. /\ f.prefix = (round[0].op = "AllToAllV")
      /\ round[0].op # "AllToAllV" => f.counts = <<>>
      /\ round[0].op = "AllToAllV" => Len(f.counts) = WorldSize
  BY <1>0, <1>3 DEF Response
<1>8. ValidFrame(f)
  BY <1>2, <1>4, <1>5, <1>6, <1>7 DEF ValidFrame
<1>9. f.elt # "None" => f.count = Len(f.payload)
  BY <1>2, <1>4
<1> QED BY <1>3, <1>8, <1>9 DEF ResponseValid

(* Every round the coordinator accepts is answered as its collective is     *)
(* defined.                                                                 *)
LEMMA RoundRouted ==
  ASSUME NEW round \in Rounds, Accepted(round)
  PROVE  /\ \A d \in Ranks : /\ Lists(Responses(round)[d].payload, MeantFor(round, d))
                             /\ ResponseValid(Responses(round)[d])
         /\ round[0].op = "AllToAllV" => SecondExchangeReturns(round, Responses(round))
<1>1. FixedShape(round) \/ VariableShape(round)
  BY RoundShape
<1>2. ASSUME NEW d \in Ranks
      PROVE  /\ Lists(Responses(round)[d].payload, MeantFor(round, d))
             /\ ResponseValid(Responses(round)[d])
  <2>1. Responses(round)[d] = Response(round, d) /\ Response(round, d).payload = ResponsePayload(round, d)
    BY DEF Responses, Response
  <2>2. Lists(ResponsePayload(round, d), MeantFor(round, d))
    BY <1>1, FixedRouted, VariableRouted
  <2>3. ResponseValid(Response(round, d))
    BY <1>1, ResponsesValid
  <2> QED BY <2>1, <2>2, <2>3
<1>3. ASSUME round[0].op = "AllToAllV" PROVE SecondExchangeReturns(round, Responses(round))
  <2>1. ~FixedShape(round)
    BY <1>3 DEF FixedShape
  <2> QED BY <1>1, <2>1, VariableReturns
<1> QED BY <1>2, <1>3

(* Whatever round the coordinator accepts, every rank receives exactly the  *)
(* elements meant for it, each once and in order, in a valid frame, and the *)
(* receive counts of an all-to-all-v lead everything back: for every number *)
(* of ranks, every element count and every matrix of counts.                *)
THEOREM RoutesEveryRound == Spec => []RoutesAsDefined
<1>1. RoutesAsDefined
  BY RoundRouted DEF RoutesAsDefined
<1> QED
  BY <1>1, PTL
=============================================================================
