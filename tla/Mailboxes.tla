----------------------------- MODULE Mailboxes -----------------------------
(***************************************************************************)
(* What a point-to-point transport of the rank core promises.  A caller    *)
(* <<rank, thread>> makes the calls of its program, one after the other.   *)
(* There is one queue per link <<source, destination, rail>>.  A send puts *)
(* its message at the end of the queue of its link, once, and returns only *)
(* after that; a receive takes the first message with its tag and source   *)
(* on its rail, and that message is what it gets.  A message that was sent *)
(* and not received is in its queue; it can be lost only at the end of the *)
(* queue, and only once something has failed or a rank has left.           *)
(***************************************************************************)
EXTENDS Naturals, Sequences

CONSTANT AnyRank  \* the source of a receive that takes from any rank

VARIABLES
  queue,     \* link -> messages sent and not received
  left,      \* caller -> its calls that have not returned
  state,     \* caller -> ready; handed: its message is sent; failed: its call is failing
  received,  \* caller -> what its receives got
  rail,      \* caller -> the rail of its calls
  over       \* TRUE once a rank has failed or left

vars == <<queue, left, state, received, rail, over>>

Links == DOMAIN queue
Callers == DOMAIN left

Init ==
  /\ queue = [l \in Links |-> <<>>]
  /\ state = [x \in Callers |-> "ready"]
  /\ received = [x \in Callers |-> <<>>]
  /\ over = FALSE

Call(x) == Head(left[x])
At(x, calls) == state[x] = "ready" /\ left[x] # <<>> /\ Call(x).do \in calls

Completes(x) ==
  /\ left' = [left EXCEPT ![x] = Tail(@)]
  /\ state' = [state EXCEPT ![x] = "ready"]

(* A send to another rank.                                                  *)
Send(x) ==
  /\ At(x, {"send"})
  /\ queue' = [queue EXCEPT ![<<x[1], Call(x).peer, rail[x]>>] =
                 Append(@, [tag |-> Call(x).tag, body |-> Call(x).body])]
  /\ state' = [state EXCEPT ![x] = "handed"]
  /\ UNCHANGED <<left, received, rail, over>>

SendReturns(x) ==
  /\ state[x] = "handed"
  /\ Completes(x)
  /\ UNCHANGED <<queue, received, rail, over>>

(* A send of a rank to itself.                                              *)
SendToSelf(x) ==
  /\ At(x, {"self"})
  /\ queue' = [queue EXCEPT ![<<x[1], x[1], rail[x]>>] =
                 Append(@, [tag |-> Call(x).tag, body |-> Call(x).body])]
  /\ Completes(x)
  /\ UNCHANGED <<received, rail, over>>

(* The i-th message of link l is the first that the call of x asks for.     *)
Asked(x, l, i) ==
  /\ l[2] = x[1] /\ l[3] = rail[x] /\ Call(x).peer \in {l[1], AnyRank}
  /\ queue[l][i].tag = Call(x).tag
  /\ \A j \in 1 .. i - 1 : queue[l][j].tag # Call(x).tag

(* A receive gets the message, or fails because of what it got.             *)
Receive(x) ==
  /\ At(x, {"receive"})
  /\ \E l \in Links : \E i \in 1 .. Len(queue[l]) :
       /\ Asked(x, l, i)
       /\ queue' = [queue EXCEPT ![l] = SubSeq(@, 1, i - 1) \o SubSeq(@, i + 1, Len(@))]
       /\ received' = [received EXCEPT ![x] =
                         Append(@, [from |-> l[1], rail |-> l[3],
                                    tag |-> queue[l][i].tag, body |-> queue[l][i].body])]
       /\ IF queue[l][i].body \in Call(x).refuses
          THEN state' = [state EXCEPT ![x] = "failed"] /\ over' = TRUE /\ UNCHANGED left
          ELSE Completes(x) /\ UNCHANGED over
  /\ UNCHANGED rail

(* The caller whose call has failed makes no more.                          *)
GiveUp(x) ==
  /\ state[x] = "failed"
  /\ left' = [left EXCEPT ![x] = <<>>]
  /\ state' = [state EXCEPT ![x] = "ready"]
  /\ UNCHANGED <<queue, received, rail, over>>

Lose(l) == \E n \in 0 .. Len(queue[l]) : queue'[l] = SubSeq(queue[l], 1, n)

Stop(x) ==
  \/ left'[x] = left[x] /\ state'[x] \in {state[x], "failed"}
  \/ left'[x] = <<>> /\ state'[x] = "ready"

(* Something has failed, or a rank leaves.                                  *)
Fail ==
  /\ over'
  /\ DOMAIN queue' = Links /\ DOMAIN left' = Callers /\ DOMAIN state' = Callers
  /\ \A l \in Links : Lose(l)
  /\ \A x \in Callers : Stop(x)
  /\ UNCHANGED <<received, rail>>

Next ==
  \/ \E x \in Callers : Send(x) \/ SendReturns(x) \/ SendToSelf(x) \/ Receive(x) \/ GiveUp(x)
  \/ Fail

Spec == Init /\ [][Next]_vars
=============================================================================
