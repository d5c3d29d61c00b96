--------------------------- MODULE PeerMeshProofs ---------------------------
(* Proofs about the peer mesh, for every number of ranks, rails and threads,*)
(* every program of the threads and every size of the sockets.              *)
EXTENDS PeerMesh, FiniteSetTheorems, WellFoundedInduction, TLAPS

-----------------------------------------------------------------------------
(* The sets the program fixes.                                              *)

(* What the run does not change.                                            *)
LEMMA Fixed ==
  ASSUME run' = run
  PROVE  /\ Ranks' = Ranks /\ Rails' = Rails /\ Threads' = Threads /\ Links' = Links
         /\ Entries' = Entries /\ SentTags' = SentTags /\ SentBodies' = SentBodies
         /\ Frames' = Frames /\ Letters' = Letters /\ CallStates' = CallStates
<1>1. Ranks' = Ranks /\ Rails' = Rails
  BY DEF Ranks, Rails
<1>2. Threads' = Threads /\ Links' = Links
  BY <1>1 DEF Threads, Links
<1>3. Entries' = Entries
  BY <1>2 DEF Entries
<1>4. SentTags' = SentTags /\ SentBodies' = SentBodies
  BY <1>3 DEF Sent, SentTags, SentBodies
<1>5. Frames' = Frames /\ Letters' = Letters
  BY <1>1, <1>4 DEF Frames, SendFrames, AckFrames, Letters
<1>6. CallStates' = CallStates
  BY <1>2 DEF CallStates, InSendCalls, Idle
<1> QED
  BY <1>1, <1>2, <1>3, <1>4, <1>5, <1>6

(* The program that runs.                                                   *)
LEMMA RunShape ==
  ASSUME run \in Cases
  PROVE  /\ run.ready \in BOOLEAN /\ run.world \in Nat \ {0} /\ run.rails \in Nat \ {0}
         /\ run.threads \in Nat /\ run.faults \in Nat
         /\ Ranks \subseteq Nat /\ Rails \subseteq Nat
         /\ \A x \in Threads :
              /\ run.script[x] \in Seq(Range(run.script[x]))
              /\ \A e \in Range(run.script[x]) : e.do = "send" => e.peer \in Ranks \ {x[1]}
  BY CasesAssumption DEF Ranks, Rails, Threads

(* The links and their reversals.                                           *)
LEMMA LinkShape ==
  /\ \A l \in Links : /\ l[1] \in Ranks /\ l[2] \in Ranks /\ l[3] \in Rails /\ l[1] # l[2]
                      /\ l = <<l[1], l[2], l[3]>>
                      /\ Reverse3(l) \in Links /\ Reverse3(Reverse3(l)) = l
                      /\ Reverse3(l)[1] = l[2] /\ Reverse3(l)[2] = l[1]
  /\ \A r, p \in Ranks : \A n \in Rails : r # p => <<r, p, n>> \in Links
  BY DEF Links, Reverse3

(* A thread is a rank and a number.                                         *)
LEMMA ThreadShape ==
  \A x \in Threads : x[1] \in Ranks /\ x[2] \in 1 .. run.threads /\ x = <<x[1], x[2]>>
  BY DEF Threads

(* Calls, frames and readers are told apart by one field.                   *)
LEMMA CallShape ==
  /\ Idle \in CallStates
  /\ \A l \in Links : [at |-> "lock", link |-> l] \in CallStates
  /\ \A l \in Links : \A s \in Nat : [at |-> "write", link |-> l, sequence |-> s] \in CallStates
  /\ \A S \in SUBSET Links : [at |-> "abort", left |-> S] \in CallStates
  /\ \A c \in CallStates :
       /\ c.at \in {"idle", "lock", "write", "wait", "acked", "abort"}
       /\ c.at \in {"lock", "write", "wait", "acked"} => c.link \in Links
       /\ c.at \in {"write", "wait", "acked"} => c \in InSendCalls /\ c.sequence \in Nat
       /\ c.at = "abort" => c.left \subseteq Links
<1>1. /\ Idle \in CallStates
      /\ \A l \in Links : [at |-> "lock", link |-> l] \in CallStates
      /\ \A l \in Links : \A s \in Nat : [at |-> "write", link |-> l, sequence |-> s] \in CallStates
      /\ \A S \in SUBSET Links : [at |-> "abort", left |-> S] \in CallStates
  BY DEF CallStates, InSendCalls
<1>2. \A c \in CallStates :
       /\ c.at \in {"idle", "lock", "write", "wait", "acked", "abort"}
       /\ c.at \in {"lock", "write", "wait", "acked"} => c.link \in Links
       /\ c.at \in {"write", "wait", "acked"} => c \in InSendCalls /\ c.sequence \in Nat
       /\ c.at = "abort" => c.left \subseteq Links
  BY DEF CallStates, InSendCalls, Idle
<1> QED
  BY <1>1, <1>2

(* The kinds of frames.                                                     *)
LEMMA FrameShape ==
  /\ \A f \in Frames : f.op \in {"send", "ack", "abort", "leave"}
  /\ \A f \in Frames : f.op = "send" => f \in SendFrames
  /\ \A f \in Frames : f.op = "ack" => f \in AckFrames
  /\ [op |-> "abort"] \in Frames /\ [op |-> "leave"] \in Frames
  BY DEF Frames, SendFrames, AckFrames

(* A prefix of the links that a rank dials: by quotient and remainder.      *)
LEMMA DialShape ==
  ASSUME NEW d \in Nat, NEW r \in Nat, NEW k \in Nat \ {0}, d < r * k
  PROVE  d \div k \in 0 .. r - 1 /\ d % k \in 0 .. k - 1
<1>1. d = k * (d \div k) + (d % k) /\ d % k \in 0 .. k - 1 /\ d \div k \in Int
  OBVIOUS
<1>2. d \div k >= 0
  OBVIOUS
<1>3. ASSUME d \div k >= r PROVE FALSE
  BY <1>1, <1>3
<1> QED
  BY <1>1, <1>2, <1>3

-----------------------------------------------------------------------------
(* Types.                                                                   *)

(* The parts of the state that a step leaves alone keep their types.        *)
LEMMA PartsKept ==
  ASSUME TypeOK, run' = run
  PROVE  /\ run' \in Cases
         /\ UNCHANGED setup => SetupOK'
         /\ UNCHANGED sockets => SocketsOK'
         /\ UNCHANGED <<inbox, pending, failure>> => TablesOK'
         /\ UNCHANGED <<call, todo, got, faults>> => CallsOK'
<1>1. run' \in Cases
  BY DEF TypeOK
<1>2. UNCHANGED setup => SetupOK'
  BY Fixed DEF TypeOK, SetupOK, setup
<1>3. UNCHANGED sockets => SocketsOK'
  BY Fixed DEF TypeOK, SocketsOK, sockets
<1>4. UNCHANGED <<inbox, pending, failure>> => TablesOK'
  BY Fixed DEF TypeOK, TablesOK
<1>5. UNCHANGED <<call, todo, got, faults>> => CallsOK'
  BY Fixed DEF TypeOK, CallsOK
<1> QED
  BY <1>1, <1>2, <1>3, <1>4, <1>5

(* The parts that a step changes, in terms of the sets before it.           *)
LEMMA SetupIntro ==
  ASSUME run' = run, life' \in [Ranks -> {"setup", "open", "leaving", "gone"}],
         dialed' \in [Ranks -> Nat], \A r \in Ranks : dialed'[r] <= r * run.rails,
         backlog' \in [Ranks -> SUBSET Links], conns' \subseteq Links
  PROVE  SetupOK'
  BY Fixed DEF SetupOK

(* The sockets,                                                             *)
LEMMA SocketsIntro ==
  ASSUME run' = run, wire' \in [Links -> Seq(Frames)], \A l \in Links : Len(wire'[l]) <= Room,
         shut' \subseteq Links, lock' \subseteq Links, next' \in [Links -> Nat],
         reader' \in [Links -> [at : {"none", "read", "lock", "write", "ended"}, sequence : Nat]]
  PROVE  SocketsOK'
  BY Fixed DEF SocketsOK

(* the tables,                                                              *)
LEMMA TablesIntro ==
  ASSUME run' = run, inbox' \in [Ranks -> Seq(Letters)],
         pending' \in [Ranks -> SUBSET (Links \X Nat)], failure' \subseteq Ranks
  PROVE  TablesOK'
  BY Fixed DEF TablesOK

(* and the calls.                                                           *)
LEMMA CallsIntro ==
  ASSUME run' = run, call' \in [Threads -> CallStates], todo' \in [Threads -> Seq(Entries)],
         \A x \in Threads : Range(todo'[x]) \subseteq Range(run.script[x]),
         got' \in [Threads -> Seq(Letters)], faults' \in Nat
  PROVE  CallsOK'
  BY Fixed DEF CallsOK

(* The initial states are well typed.                                       *)
LEMMA InitTypes == Init => TypeOK
<1> SUFFICES ASSUME Init PROVE TypeOK
  OBVIOUS
<1>0. run \in Cases
  BY DEF Init
<1>1. SetupOK
  <2>1. \A r \in Ranks : r * run.rails \in Nat /\ r \in Nat /\ 0 <= r * run.rails
    BY <1>0, RunShape
  <2>2. /\ dialed = [r \in Ranks |-> IF run.ready THEN r * run.rails ELSE 0]
        /\ life = [r \in Ranks |-> IF run.ready THEN "open" ELSE "setup"]
        /\ backlog = [r \in Ranks |-> {}] /\ conns \subseteq Links
    BY DEF Init
  <2>3. dialed \in [Ranks -> Nat] /\ \A r \in Ranks : dialed[r] <= r * run.rails
    BY <2>1, <2>2
  <2> QED
    BY <2>2, <2>3 DEF SetupOK
<1>2. SocketsOK
  <2>1. /\ wire = [l \in Links |-> <<>>] /\ shut = {} /\ lock = {} /\ next = [l \in Links |-> 0]
        /\ reader = [l \in Links |-> [at |-> IF run.ready THEN "read" ELSE "none", sequence |-> 0]]
    BY DEF Init
  <2>2. wire \in [Links -> Seq(Frames)] /\ \A l \in Links : Len(wire[l]) <= Room
    BY <2>1, RoomAssumption
  <2>3. reader \in [Links -> [at : {"none", "read", "lock", "write", "ended"}, sequence : Nat]]
    BY <2>1
  <2> QED
    BY <2>1, <2>2, <2>3 DEF SocketsOK
<1>3. TablesOK
  BY DEF Init, TablesOK
<1>4. CallsOK
  <2>1. /\ call = [x \in Threads |-> Idle] /\ todo = [x \in Threads |-> run.script[x]]
        /\ got = [x \in Threads |-> <<>>] /\ faults = 0
    BY DEF Init
  <2>2. ASSUME NEW x \in Threads PROVE run.script[x] \in Seq(Entries)
    <3>1. run.script[x] \in Seq(Range(run.script[x])) /\ Range(run.script[x]) \subseteq Entries
      BY <1>0, RunShape DEF Entries
    <3> QED
      BY <3>1
  <2> QED
    BY <2>1, <2>2, CallShape DEF CallsOK
<1> QED
  BY <1>0, <1>1, <1>2, <1>3, <1>4 DEF TypeOK

(* Nothing left to do has no entries.                                       *)
LEMMA EmptyRange == Range(<<>>) = {}
<1>1. DOMAIN <<>> = {}
  OBVIOUS
<1> QED
  BY <1>1 DEF Range

(* The head of what a thread has left to do, and what follows it.           *)
LEMMA TodoShape ==
  ASSUME TypeOK, NEW x \in Threads, todo[x] # <<>>
  PROVE  /\ Head(todo[x]) \in Range(run.script[x]) /\ Head(todo[x]) \in Entries
         /\ Tail(todo[x]) \in Seq(Entries) /\ Range(Tail(todo[x])) \subseteq Range(run.script[x])
         /\ Head(todo[x]).do = "send" => Head(todo[x]).peer \in Ranks \ {x[1]}
         /\ Head(todo[x]).do \in {"send", "self"} =>
              Head(todo[x]).tag \in SentTags /\ Head(todo[x]).body \in SentBodies
<1>1. todo[x] \in Seq(Entries) /\ Range(todo[x]) \subseteq Range(run.script[x])
  BY DEF TypeOK, CallsOK
<1>2. Head(todo[x]) = todo[x][1] /\ 1 \in DOMAIN todo[x] /\ Head(todo[x]) \in Entries
      /\ Tail(todo[x]) \in Seq(Entries)
  BY <1>1
<1>3. \A i \in DOMAIN Tail(todo[x]) : Tail(todo[x])[i] = todo[x][i + 1] /\ i + 1 \in DOMAIN todo[x]
  BY <1>1
<1>4. Head(todo[x]) \in Range(run.script[x])
  BY <1>1, <1>2 DEF Range
<1>5. Range(Tail(todo[x])) \subseteq Range(run.script[x])
  BY <1>1, <1>3 DEF Range
<1>6. Head(todo[x]).do = "send" => Head(todo[x]).peer \in Ranks \ {x[1]}
  BY <1>4, RunShape DEF TypeOK
<1>7. Head(todo[x]).do \in {"send", "self"} =>
        Head(todo[x]).tag \in SentTags /\ Head(todo[x]).body \in SentBodies
  BY <1>2 DEF Sent, SentTags, SentBodies
<1> QED
  BY <1>2, <1>4, <1>5, <1>6, <1>7

(* The link a send uses.                                                    *)
LEMMA LinkOfType ==
  ASSUME TypeOK, NEW x \in Threads, Begins(x, "send")
  PROVE  LinkOf(x) \in Links /\ LinkOf(x)[1] = x[1]
<1>1. todo[x] # <<>> /\ Head(todo[x]).do = "send"
  BY DEF Begins
<1>2. Head(todo[x]).peer \in Ranks /\ Head(todo[x]).peer # x[1] /\ x[1] \in Ranks
  BY <1>1, TodoShape, ThreadShape
<1>3. RailFor(x[2]) \in Rails
  <2>1. x[2] \in Nat \ {0} /\ run.rails \in Nat \ {0}
    BY RunShape, ThreadShape DEF TypeOK
  <2>2. (x[2] - 1) % run.rails \in 0 .. run.rails - 1
    BY <2>1
  <2> QED
    BY <2>2 DEF RailFor, Rails
<1> QED
  BY <1>2, <1>3, LinkShape DEF LinkOf

-----------------------------------------------------------------------------
(* What the pieces of the actions do.                                       *)

(* One call changes.                                                        *)
LEMMA OneCall ==
  ASSUME TypeOK, NEW x \in Threads, NEW c \in CallStates, call' = [call EXCEPT ![x] = c]
  PROVE  /\ call' \in [Threads -> CallStates] /\ call'[x] = c
         /\ \A y \in Threads \ {x} : call'[y] = call[y]
  BY DEF TypeOK, CallsOK

(* A call that fails aborts the mesh.                                       *)
LEMMA FailsShape ==
  ASSUME TypeOK, NEW x \in Threads, Fails(x)
  PROVE  /\ call' \in [Threads -> CallStates] /\ call'[x].at = "abort"
         /\ \A y \in Threads \ {x} : call'[y] = call[y]
<1>1. Sides(x[1]) \in SUBSET Links
  BY DEF Sides
<1>2. [at |-> "abort", left |-> Sides(x[1])] \in CallStates
  BY <1>1, CallShape
<1> QED
  BY <1>2, OneCall DEF Fails

(* A call that returns.                                                     *)
LEMMA ReturnsShape ==
  ASSUME TypeOK, NEW x \in Threads, todo[x] # <<>>, Returns(x)
  PROVE  /\ call' \in [Threads -> CallStates] /\ call'[x] = Idle
         /\ todo' \in [Threads -> Seq(Entries)]
         /\ \A y \in Threads : Range(todo'[y]) \subseteq Range(run.script[y])
         /\ \A y \in Threads \ {x} : call'[y] = call[y] /\ todo'[y] = todo[y]
<1>1. /\ call' \in [Threads -> CallStates] /\ call'[x] = Idle
      /\ \A y \in Threads \ {x} : call'[y] = call[y]
  BY CallShape, OneCall DEF Returns
<1>2. todo' = [todo EXCEPT ![x] = Tail(todo[x])] /\ todo \in [Threads -> Seq(Entries)]
  BY DEF Returns, TypeOK, CallsOK
<1>3. Tail(todo[x]) \in Seq(Entries) /\ Range(Tail(todo[x])) \subseteq Range(run.script[x])
  BY TodoShape
<1>4. todo' \in [Threads -> Seq(Entries)] /\ todo'[x] = Tail(todo[x])
      /\ \A y \in Threads \ {x} : todo'[y] = todo[y]
  BY <1>2, <1>3
<1>5. \A y \in Threads : Range(todo'[y]) \subseteq Range(run.script[y])
  BY <1>3, <1>4 DEF TypeOK, CallsOK
<1> QED
  BY <1>1, <1>4, <1>5

(* A failure drains the table of its rank.                                  *)
LEMMA FailureShape ==
  ASSUME TypeOK, NEW r \in Ranks, SetPeerFailure(r)
  PROVE  /\ failure' \subseteq Ranks /\ pending' \in [Ranks -> SUBSET (Links \X Nat)]
         /\ pending'[r] = {} /\ \A p \in Ranks \ {r} : pending'[p] = pending[p]
  BY DEF TypeOK, TablesOK, SetPeerFailure

(* A frame is written.                                                      *)
LEMMA PutShape ==
  ASSUME TypeOK, NEW l \in Links, NEW f \in Frames, HasRoom(l), Put(l, f)
  PROVE  /\ wire' \in [Links -> Seq(Frames)] /\ \A m \in Links : Len(wire'[m]) <= Room
         /\ DOMAIN wire[l] = 1 .. Len(wire[l]) /\ Len(wire[l]) \in Nat
         /\ DOMAIN wire'[l] = 1 .. Len(wire[l]) + 1 /\ wire'[l][Len(wire[l]) + 1] = f
         /\ \A i \in 1 .. Len(wire[l]) : wire'[l][i] = wire[l][i]
         /\ \A m \in Links \ {l} : wire'[m] = wire[m]
<1>1. wire \in [Links -> Seq(Frames)] /\ \A m \in Links : Len(wire[m]) <= Room
  BY DEF TypeOK, SocketsOK
<1>2. wire' = [wire EXCEPT ![l] = Append(wire[l], f)] /\ Len(wire[l]) < Room
  BY DEF Put, HasRoom
<1>3. wire[l] \in Seq(Frames)
  BY <1>1
<1>4. /\ Append(wire[l], f) \in Seq(Frames) /\ Len(Append(wire[l], f)) = Len(wire[l]) + 1
      /\ DOMAIN wire[l] = 1 .. Len(wire[l]) /\ Len(wire[l]) \in Nat
      /\ DOMAIN Append(wire[l], f) = 1 .. Len(wire[l]) + 1
      /\ Append(wire[l], f)[Len(wire[l]) + 1] = f
      /\ \A i \in 1 .. Len(wire[l]) : Append(wire[l], f)[i] = wire[l][i]
  BY <1>3
<1>5. wire'[l] = Append(wire[l], f) /\ \A m \in Links \ {l} : wire'[m] = wire[m]
  BY <1>1, <1>2
<1>6. wire' \in [Links -> Seq(Frames)]
  BY <1>1, <1>2, <1>4
<1>7. \A m \in Links : Len(wire'[m]) <= Room
  BY <1>1, <1>2, <1>4, <1>5, RoomAssumption
<1> QED
  BY <1>4, <1>5, <1>6, <1>7

(* A frame is read.                                                         *)
LEMMA PoppedShape ==
  ASSUME TypeOK, NEW l \in Links, In(l) # <<>>, Popped(l)
  PROVE  /\ Reverse3(l) \in Links
         /\ Head(In(l)) \in Frames /\ Head(In(l)) = wire[Reverse3(l)][1]
         /\ 1 \in DOMAIN wire[Reverse3(l)]
         /\ wire' \in [Links -> Seq(Frames)] /\ \A m \in Links : Len(wire'[m]) <= Room
         /\ \A i \in DOMAIN wire'[Reverse3(l)] :
              i + 1 \in DOMAIN wire[Reverse3(l)] /\ wire'[Reverse3(l)][i] = wire[Reverse3(l)][i + 1]
         /\ \A m \in Links \ {Reverse3(l)} : wire'[m] = wire[m]
<1> DEFINE k == Reverse3(l)
<1>0. k \in Links
  BY LinkShape
<1> HIDE DEF k
<1>1. wire \in [Links -> Seq(Frames)] /\ \A m \in Links : Len(wire[m]) <= Room
  BY DEF TypeOK, SocketsOK
<1>2. wire' = [wire EXCEPT ![k] = Tail(wire[k])] /\ wire[k] # <<>> /\ In(l) = wire[k]
  BY DEF Popped, In, k
<1>3. wire[k] \in Seq(Frames)
  BY <1>0, <1>1
<1>4. /\ Head(wire[k]) \in Frames /\ Head(wire[k]) = wire[k][1] /\ 1 \in DOMAIN wire[k]
      /\ Tail(wire[k]) \in Seq(Frames) /\ Len(Tail(wire[k])) = Len(wire[k]) - 1
      /\ Len(wire[k]) \in Nat
      /\ \A i \in DOMAIN Tail(wire[k]) : i + 1 \in DOMAIN wire[k] /\ Tail(wire[k])[i] = wire[k][i + 1]
  BY <1>2, <1>3
<1>5. wire'[k] = Tail(wire[k]) /\ \A m \in Links \ {k} : wire'[m] = wire[m]
  BY <1>0, <1>1, <1>2
<1>6. wire' \in [Links -> Seq(Frames)]
  BY <1>0, <1>1, <1>2, <1>4
<1>7. \A m \in Links : Len(wire'[m]) <= Room
  <2>1. Len(wire[k]) <= Room /\ Room \in Nat
    BY <1>0, <1>1, RoomAssumption
  <2>2. Len(wire'[k]) <= Room
    BY <2>1, <1>4, <1>5
  <2> QED
    BY <1>1, <1>5, <2>2
<1> QED
  BY <1>0, <1>2, <1>4, <1>5, <1>6, <1>7 DEF k

(* A letter is queued.                                                      *)
LEMMA QueueShape ==
  ASSUME TypeOK, NEW r \in Ranks, NEW f \in Letters, inbox' = [inbox EXCEPT ![r] = Append(@, f)]
  PROVE  /\ inbox' \in [Ranks -> Seq(Letters)]
         /\ Range(inbox'[r]) = Range(inbox[r]) \cup {f}
         /\ \A p \in Ranks \ {r} : inbox'[p] = inbox[p]
<1>1. inbox \in [Ranks -> Seq(Letters)] /\ inbox[r] \in Seq(Letters)
  BY DEF TypeOK, TablesOK
<1>2. /\ Append(inbox[r], f) \in Seq(Letters)
      /\ DOMAIN inbox[r] = 1 .. Len(inbox[r]) /\ Len(inbox[r]) \in Nat
      /\ DOMAIN Append(inbox[r], f) = 1 .. Len(inbox[r]) + 1
      /\ Append(inbox[r], f)[Len(inbox[r]) + 1] = f
      /\ \A i \in 1 .. Len(inbox[r]) : Append(inbox[r], f)[i] = inbox[r][i]
  BY <1>1
<1>3. inbox'[r] = Append(inbox[r], f) /\ inbox' \in [Ranks -> Seq(Letters)]
      /\ \A p \in Ranks \ {r} : inbox'[p] = inbox[p]
  BY <1>1, <1>2
<1>4. \A i \in 1 .. Len(inbox[r]) + 1 : i \in 1 .. Len(inbox[r]) \/ i = Len(inbox[r]) + 1
  BY <1>2
<1>5. Range(inbox'[r]) = Range(inbox[r]) \cup {f}
  <2>1. ASSUME NEW i \in DOMAIN inbox'[r] PROVE inbox'[r][i] \in Range(inbox[r]) \cup {f}
    BY <1>2, <1>3, <1>4 DEF Range
  <2>2. ASSUME NEW i \in DOMAIN inbox[r] PROVE inbox[r][i] \in Range(inbox'[r])
    <3>1. i \in DOMAIN inbox'[r] /\ inbox'[r][i] = inbox[r][i]
      BY <1>2, <1>3
    <3> QED
      BY <3>1 DEF Range
  <2>3. f \in Range(inbox'[r])
    <3>1. Len(inbox[r]) + 1 \in DOMAIN inbox'[r] /\ inbox'[r][Len(inbox[r]) + 1] = f
      BY <1>2, <1>3
    <3> QED
      BY <3>1 DEF Range
  <2>4. \A e \in Range(inbox[r]) : e \in Range(inbox'[r])
    BY <2>2 DEF Range
  <2>5. \A e \in Range(inbox'[r]) : e \in Range(inbox[r]) \cup {f}
    BY <2>1 DEF Range
  <2> QED
    BY <2>3, <2>4, <2>5
<1> QED
  BY <1>3, <1>5

-----------------------------------------------------------------------------
(* Most steps are calm: they take no sequence number and write no data      *)
(* frame.  They can end calls, drop frames, queue letters and pass on an    *)
(* acknowledgement of what is stored.                                       *)
CalmCalls ==
  \A x \in Threads : call'[x].at \in {"lock", "write", "wait", "acked"} =>
    \/ call'[x] = call[x] /\ todo'[x] = todo[x]
    \/ /\ call'[x].at = "lock" /\ call'[x].link[1] = x[1]
       /\ todo'[x] # <<>> /\ Head(todo'[x]).do = "send"
    \/ /\ call[x].at = "wait" /\ call'[x].at = "acked" /\ todo'[x] = todo[x]
       /\ call'[x].link = call[x].link /\ call'[x].sequence = call[x].sequence
       /\ life[call[x].link[2]] # "gone" => Stored(x)

CalmStores ==
  \A d \in Ranks : life'[d] # "gone" => life[d] # "gone" /\ Delivered(d) \subseteq Delivered(d)'

CalmWires ==
  \A l \in Links : \A i \in DOMAIN wire'[l] :
    \/ \E j \in DOMAIN wire[l] : wire'[l][i] = wire[l][j]
    \/ wire'[l][i].op \in {"abort", "leave"}
    \/ /\ wire'[l][i].op = "ack" /\ reader[l].at \in {"lock", "write"}
       /\ wire'[l][i].sequence = reader[l].sequence

CalmReaders ==
  \A l \in Links : reader'[l].at \in {"lock", "write"} =>
    \/ reader[l].at \in {"lock", "write"} /\ reader'[l].sequence = reader[l].sequence
    \/ Acknowledges(Reverse3(l), reader[l].sequence)'

Calm == run' = run /\ next' = next /\ CalmCalls /\ CalmStores /\ CalmWires /\ CalmReaders

(* A call that is in a send after a calm step was in it before.             *)
LEMMA CalmInSend ==
  ASSUME Calm, NEW x \in Threads, NEW l, NEW s, InSend(x, l, s)'
  PROVE  InSend(x, l, s) /\ call'[x] = call[x] /\ todo'[x] = todo[x]
<1>1. call'[x].at \in {"write", "wait"} /\ call'[x].link = l /\ call'[x].sequence = s
  BY DEF InSend
<1>2. call'[x] = call[x] /\ todo'[x] = todo[x]
  BY <1>1 DEF Calm, CalmCalls
<1> QED
  BY <1>1, <1>2 DEF InSend

(* What was stored stays stored while its rank is there.                    *)
LEMMA CalmStored ==
  ASSUME CalmStores, NEW x \in Threads, call'[x].link = call[x].link, todo'[x] = todo[x],
         call[x].link[2] \in Ranks, life'[call[x].link[2]] # "gone", Stored(x)
  PROVE  Stored(x)'
<1>1. PICK f \in Delivered(call[x].link[2]) : f.from = x[1] /\ f.body = Head(todo[x]).body
  BY DEF Stored
<1>2. Delivered(call[x].link[2]) \subseteq Delivered(call[x].link[2])'
  BY DEF CalmStores
<1>3. f \in Delivered(call[x].link[2])'
  BY <1>1, <1>2
<1> QED
  BY <1>1, <1>3 DEF Stored

(* An acknowledgement is one as long as no new call has its sequence number.*)
LEMMA AcknowledgesKept ==
  ASSUME TypeOK, run' = run, CalmStores, NEW l \in Links, NEW s, Acknowledges(l, s),
         s < next'[l],
         \A x \in Threads : InSend(x, l, s)' =>
           InSend(x, l, s) /\ call'[x] = call[x] /\ todo'[x] = todo[x]
  PROVE  Acknowledges(l, s)'
<1>1. ASSUME NEW x \in Threads, InSend(x, l, s)'
      PROVE  call'[x].at = "wait" /\ (life'[l[2]] # "gone" => Stored(x)')
  <2>1. InSend(x, l, s) /\ call'[x] = call[x] /\ todo'[x] = todo[x]
    BY <1>1
  <2>2. call[x].at = "wait" /\ (life[l[2]] # "gone" => Stored(x)) /\ call[x].link = l
    BY <2>1 DEF Acknowledges, InSend
  <2>3. l[2] \in Ranks
    BY LinkShape
  <2>4. ASSUME life'[l[2]] # "gone" PROVE Stored(x)'
    <3>1. life[l[2]] # "gone"
      BY <2>3, <2>4 DEF CalmStores
    <3> QED
      BY <3>1, <2>1, <2>2, <2>3, <2>4, CalmStored
  <2> QED
    BY <2>1, <2>2, <2>4
<1>2. Threads' = Threads
  BY Fixed
<1> QED
  BY <1>1, <1>2 DEF Acknowledges

(* In particular, after a calm step.                                        *)
LEMMA CalmAcknowledges ==
  ASSUME TypeOK, Calm, NEW l \in Links, NEW s, Acknowledges(l, s)
  PROVE  Acknowledges(l, s)'
<1>1. run' = run /\ CalmStores /\ s < next'[l]
  BY DEF Acknowledges, Calm
<1>2. \A x \in Threads : InSend(x, l, s)' =>
        InSend(x, l, s) /\ call'[x] = call[x] /\ todo'[x] = todo[x]
  BY CalmInSend
<1> QED
  BY <1>1, <1>2, AcknowledgesKept

(* Calm steps keep the invariant.                                           *)
LEMMA CalmKeeps ==
  ASSUME AckInv, TypeOK', Calm
  PROVE  AckInv'
<1> USE DEF AckInv
<1>0. run' = run /\ next' = next /\ Threads' = Threads /\ Links' = Links
  BY Fixed DEF Calm
<1>1. OwnSequence'
  <2>1. ASSUME NEW x \in Threads, call'[x].at \in {"lock", "write", "wait", "acked"}
        PROVE  call'[x].link[1] = x[1] /\ todo'[x] # <<>> /\ Head(todo'[x]).do = "send"
    BY <2>1 DEF Calm, CalmCalls, OwnSequence
  <2>2. ASSUME NEW x \in Threads, call'[x].at \in {"write", "wait", "acked"}
        PROVE  call'[x].sequence < next'[call'[x].link]
    <3>1. /\ call[x].at \in {"write", "wait", "acked"}
          /\ call'[x].link = call[x].link /\ call'[x].sequence = call[x].sequence
      BY <2>2 DEF Calm, CalmCalls
    <3> QED
      BY <3>1, <1>0 DEF OwnSequence
  <2>3. ASSUME NEW x \in Threads, NEW y \in Threads, call'[y].at \in {"write", "wait"},
               InSend(x, call[y].link, call[y].sequence)', call'[y] = call[y]
        PROVE  x = y
    <3>1. call'[x].at \in {"write", "wait"} /\ call'[x].link = call'[y].link
          /\ call'[x].sequence = call'[y].sequence
      BY <2>3 DEF InSend
    <3>2. call'[x] = call[x]
      BY <3>1 DEF Calm, CalmCalls
    <3>3. InSend(x, call[y].link, call[y].sequence)
      BY <2>3, <3>1, <3>2 DEF InSend
    <3> QED
      BY <2>3, <3>3 DEF OwnSequence
  <2>4. \A y \in Threads : call'[y].at \in {"write", "wait"} => call'[y] = call[y]
    BY DEF Calm, CalmCalls
  <2>5. \A x, y \in Threads :
          call'[y].at \in {"write", "wait"} /\ InSend(x, call[y].link, call[y].sequence)' => x = y
    <3> SUFFICES ASSUME NEW x \in Threads, NEW y \in Threads, call'[y].at \in {"write", "wait"},
                        call'[x].at \in {"write", "wait"}, call'[x].link = call'[y].link,
                        call'[x].sequence = call'[y].sequence
                 PROVE  x = y
      BY DEF InSend
    <3>1. call'[x] = call[x] /\ call'[y] = call[y]
      BY <2>4
    <3> QED
      BY <3>1 DEF OwnSequence, InSend
  <2> QED
    BY <1>0, <2>1, <2>2, <2>5 DEF OwnSequence
<1>2. ASSUME NEW l \in Links, NEW i \in DOMAIN wire'[l], wire'[l][i].op = "send"
      PROVE  /\ wire'[l][i].sequence < next'[l]
             /\ \A x \in Threads : InSend(x, l, wire[l][i].sequence)' =>
                  call'[x].at = "wait" /\ wire'[l][i].body = Head(todo'[x]).body
  <2>1. PICK j \in DOMAIN wire[l] : wire'[l][i] = wire[l][j]
    BY <1>2 DEF Calm, CalmWires
  <2>2. ASSUME NEW x \in Threads, InSend(x, l, wire[l][i].sequence)'
        PROVE  call'[x].at = "wait" /\ wire'[l][i].body = Head(todo'[x]).body
    <3>1. call'[x].at \in {"write", "wait"} /\ call'[x].link = l
          /\ call'[x].sequence = wire[l][j].sequence
      BY <2>1, <2>2 DEF InSend
    <3>2. call'[x] = call[x] /\ todo'[x] = todo[x]
      BY <3>1 DEF Calm, CalmCalls
    <3>3. InSend(x, l, wire[l][j].sequence)
      BY <3>1, <3>2 DEF InSend
    <3> QED
      BY <1>2, <2>1, <3>2, <3>3 DEF FramesFit
  <2> QED
    BY <1>0, <1>2, <2>1, <2>2 DEF FramesFit
<1>3. ASSUME NEW l \in Links, NEW i \in DOMAIN wire'[l], wire'[l][i].op = "ack"
      PROVE  Acknowledges(Reverse3(l), wire[l][i].sequence)'
  <2>1. Acknowledges(Reverse3(l), wire'[l][i].sequence)
    BY <1>3 DEF Calm, CalmWires, FramesFit
  <2>2. PICK s : s = wire'[l][i].sequence
    OBVIOUS
  <2>3. Acknowledges(Reverse3(l), s)'
    BY <2>1, <2>2, LinkShape, CalmAcknowledges
  <2> QED
    BY <2>2, <2>3 DEF Acknowledges, InSend
<1>4. ASSUME NEW l \in Links, reader'[l].at \in {"lock", "write"}
      PROVE  Acknowledges(Reverse3(l), reader[l].sequence)'
  <2>1. CASE Acknowledges(Reverse3(l), reader[l].sequence)'
    BY <2>1
  <2>2. CASE reader[l].at \in {"lock", "write"} /\ reader'[l].sequence = reader[l].sequence
    <3>1. Acknowledges(Reverse3(l), reader'[l].sequence)
      BY <2>2 DEF FramesFit
    <3>2. PICK s : s = reader'[l].sequence
      OBVIOUS
    <3>3. Acknowledges(Reverse3(l), s)'
      BY <3>1, <3>2, LinkShape, CalmAcknowledges
    <3> QED
      BY <3>2, <3>3 DEF Acknowledges, InSend
  <2> QED
    BY <1>4, <2>1, <2>2 DEF Calm, CalmReaders
<1>5. FramesFit'
  BY <1>0, <1>2, <1>3, <1>4 DEF FramesFit
<1>6. AckedIsQueued'
  <2> SUFFICES ASSUME NEW x \in Threads, call'[x].at = "acked", life'[call'[x].link[2]] # "gone"
               PROVE  Stored(x)'
    BY <1>0 DEF AckedIsQueued
  <2>1. /\ call'[x].link = call[x].link /\ todo'[x] = todo[x]
        /\ call[x].at \in {"wait", "acked"}
        /\ call[x].at = "wait" /\ life[call[x].link[2]] # "gone" => Stored(x)
    BY DEF Calm, CalmCalls
  <2>2. call[x].link[2] \in Ranks
    BY <2>1, CallShape, LinkShape DEF TypeOK, CallsOK
  <2>3. life[call[x].link[2]] # "gone" /\ CalmStores
    BY <2>1, <2>2 DEF Calm, CalmStores
  <2>4. Stored(x)
    BY <2>1, <2>3 DEF AckedIsQueued
  <2> QED
    BY <2>1, <2>2, <2>3, <2>4, CalmStored
<1> QED
  BY <1>1, <1>5, <1>6

(* What is left alone is calm.                                              *)
LEMMA CalmParts ==
  ASSUME TypeOK, run' = run
  PROVE  /\ UNCHANGED <<call, todo>> => CalmCalls
         /\ UNCHANGED <<life, inbox, got>> => CalmStores
         /\ UNCHANGED wire => CalmWires
         /\ UNCHANGED reader => CalmReaders
<1>1. UNCHANGED <<call, todo>> => CalmCalls
  BY DEF CalmCalls
<1>2. UNCHANGED <<life, inbox, got>> => CalmStores
  BY DEF CalmStores, Delivered
<1>3. UNCHANGED wire => CalmWires
  BY DEF CalmWires
<1>4. UNCHANGED reader => CalmReaders
  BY DEF CalmReaders
<1> QED
  BY <1>1, <1>2, <1>3, <1>4

(* A call that ends is calm.                                                *)
LEMMA CalmEnd ==
  ASSUME NEW x \in Threads, call'[x].at \in {"idle", "abort"},
         \A y \in Threads \ {x} : call'[y] = call[y] /\ todo'[y] = todo[y]
  PROVE  CalmCalls
  BY DEF CalmCalls

(* ABORT and LEAVE are calm, and so is an acknowledgement of the reader.    *)
LEMMA CalmPut ==
  ASSUME TypeOK, NEW l \in Links, NEW f \in Frames, HasRoom(l), Put(l, f),
         \/ f.op \in {"abort", "leave"}
         \/ f.op = "ack" /\ reader[l].at \in {"lock", "write"} /\ f.sequence = reader[l].sequence
  PROVE  CalmWires
<1>1. /\ DOMAIN wire[l] = 1 .. Len(wire[l]) /\ Len(wire[l]) \in Nat
      /\ DOMAIN wire'[l] = 1 .. Len(wire[l]) + 1 /\ wire'[l][Len(wire[l]) + 1] = f
      /\ \A i \in 1 .. Len(wire[l]) : wire'[l][i] = wire[l][i]
      /\ \A m \in Links \ {l} : wire'[m] = wire[m]
  BY PutShape
<1>2. \A i \in DOMAIN wire'[l] : i \in DOMAIN wire[l] \/ i = Len(wire[l]) + 1
  BY <1>1
<1>3. ASSUME NEW i \in DOMAIN wire'[l]
      PROVE  \/ \E j \in DOMAIN wire[l] : wire'[l][i] = wire[l][j]
             \/ wire'[l][i].op \in {"abort", "leave"}
             \/ /\ wire'[l][i].op = "ack" /\ reader[l].at \in {"lock", "write"}
                /\ wire'[l][i].sequence = reader[l].sequence
  <2>1. CASE i \in DOMAIN wire[l]
    BY <1>1, <2>1
  <2>2. CASE i = Len(wire[l]) + 1
    BY <1>1, <2>2
  <2> QED
    BY <1>2, <2>1, <2>2
<1> QED
  BY <1>1, <1>3 DEF CalmWires

(* A wire that loses frames is calm.                                        *)
LEMMA CalmLoss ==
  ASSUME \A l \in Links : \/ wire'[l] = wire[l] \/ wire'[l] = <<>>
                          \/ \A i \in DOMAIN wire'[l] :
                               i + 1 \in DOMAIN wire[l] /\ wire'[l][i] = wire[l][i + 1]
  PROVE  CalmWires
  BY DEF CalmWires

-----------------------------------------------------------------------------
(* Setup and leaving.                                                       *)

(* The link a rank dials next.                                              *)
LEMMA DialedLink ==
  ASSUME TypeOK, NEW r \in Ranks, Dialing(r)
  PROVE  ToDial(r)[dialed[r] + 1] \in Links /\ dialed[r] + 1 <= r * run.rails
<1>1. r \in Nat /\ run.rails \in Nat \ {0} /\ run.world \in Nat /\ dialed[r] \in Nat
      /\ r * run.rails \in Nat
  BY RunShape DEF TypeOK, SetupOK
<1>2. Len(ToDial(r)) = r * run.rails
  BY <1>1 DEF ToDial
<1>3. dialed[r] < r * run.rails
  BY <1>2 DEF Dialing
<1>4. dialed[r] + 1 \in 1 .. r * run.rails /\ (dialed[r] + 1) - 1 = dialed[r]
  BY <1>1, <1>3
<1>5. ToDial(r)[dialed[r] + 1] = <<r, dialed[r] \div run.rails, dialed[r] % run.rails>>
  BY <1>4 DEF ToDial
<1>6. dialed[r] \div run.rails \in 0 .. r - 1 /\ dialed[r] % run.rails \in 0 .. run.rails - 1
  BY <1>1, <1>3, DialShape
<1>7. dialed[r] \div run.rails \in Ranks /\ dialed[r] \div run.rails # r
      /\ dialed[r] % run.rails \in Rails
  BY <1>1, <1>6 DEF Ranks, Rails
<1> QED
  BY <1>4, <1>5, <1>7, LinkShape

(* Steps of the setup before the readers start.                             *)
LEMMA SetupKeeps ==
  ASSUME AckInv, NEW r \in Ranks, Dial(r) \/ Accept(r) \/ Ready(r)
  PROVE  TypeOK' /\ Calm
<1> USE DEF AckInv
<1>1. UNCHANGED <<run, life, sockets, inbox, pending, failure, call, todo, got, faults>>
  BY DEF Dial, Accept, Ready
<1>2. SetupOK'
  <2>0. /\ dialed \in [Ranks -> Nat] /\ \A p \in Ranks : dialed[p] <= p * run.rails
        /\ backlog \in [Ranks -> SUBSET Links] /\ conns \subseteq Links
        /\ life \in [Ranks -> {"setup", "open", "leaving", "gone"}]
    BY DEF TypeOK, SetupOK
  <2>1. CASE Dial(r)
    <3> DEFINE l == ToDial(r)[dialed[r] + 1]
    <3>1. l \in Links
      BY <2>1, DialedLink DEF Dial
    <3>2. backlog' = [backlog EXCEPT ![l[2]] = @ \cup {l}] /\ UNCHANGED <<dialed, conns>>
      BY <2>1 DEF Dial
    <3> HIDE DEF l
    <3>3. backlog' \in [Ranks -> SUBSET Links]
      BY <2>0, <3>1, <3>2
    <3> QED
      BY <1>1, <2>0, <3>2, <3>3, SetupIntro
  <2>2. CASE Accept(r)
    <3>1. PICK l \in backlog[r] : /\ backlog' = [backlog EXCEPT ![r] = @ \ {l}]
                                  /\ conns' = conns \cup {Reverse3(l)} /\ UNCHANGED dialed
      BY <2>2 DEF Accept
    <3>2. l \in Links
      BY <2>0, <3>1
    <3>3. backlog' \in [Ranks -> SUBSET Links] /\ conns' \subseteq Links
      BY <2>0, <3>1, <3>2, LinkShape
    <3> QED
      BY <1>1, <2>0, <3>1, <3>3, SetupIntro
  <2>3. CASE Ready(r)
    <3> DEFINE l == ToDial(r)[dialed[r] + 1]
    <3>1. l \in Links /\ dialed[r] + 1 <= r * run.rails
      BY <2>3, DialedLink DEF Ready
    <3>2. dialed' = [dialed EXCEPT ![r] = @ + 1] /\ conns' = conns \cup {l} /\ UNCHANGED backlog
      BY <2>3 DEF Ready
    <3> HIDE DEF l
    <3>3. dialed' \in [Ranks -> Nat] /\ \A p \in Ranks : dialed'[p] <= p * run.rails
      BY <2>0, <3>1, <3>2
    <3>4. conns' \subseteq Links
      BY <2>0, <3>1, <3>2
    <3> QED
      BY <1>1, <2>0, <3>2, <3>3, <3>4, SetupIntro
  <2> QED
    BY <2>1, <2>2, <2>3
<1>3. TypeOK'
  BY <1>1, <1>2, PartsKept DEF TypeOK
<1>4. Calm
  BY <1>1, CalmParts DEF Calm, sockets
<1> QED
  BY <1>3, <1>4

(* The readers of a rank start.                                             *)
LEMMA OpenKeeps ==
  ASSUME AckInv, NEW r \in Ranks, Open(r)
  PROVE  TypeOK' /\ Calm
<1> USE DEF AckInv
<1>1. /\ UNCHANGED <<run, dialed, backlog, conns, wire, shut, lock, next, inbox, pending, failure,
                     call, todo, got, faults>>
      /\ life' = [life EXCEPT ![r] = "open"] /\ life[r] = "setup"
      /\ reader' = [l \in Links |-> IF l[1] = r THEN [at |-> "read", sequence |-> 0] ELSE reader[l]]
  BY DEF Open
<1>2. SetupOK'
  BY <1>1, SetupIntro DEF TypeOK, SetupOK
<1>3. reader' \in [Links -> [at : {"none", "read", "lock", "write", "ended"}, sequence : Nat]]
  BY <1>1 DEF TypeOK, SocketsOK
<1>4. SocketsOK'
  BY <1>1, <1>3, SocketsIntro DEF TypeOK, SocketsOK
<1>5. TypeOK'
  BY <1>1, <1>2, <1>4, PartsKept DEF TypeOK
<1>6. CalmReaders
  BY <1>1 DEF CalmReaders
<1>7. CalmStores
  BY <1>1 DEF CalmStores, Delivered, TypeOK, SetupOK
<1> QED
  BY <1>1, <1>5, <1>6, <1>7, CalmParts DEF Calm

(* The session of a rank is dropped.                                        *)
LEMMA LeaveKeeps ==
  ASSUME AckInv, NEW r \in Ranks, Leave(r)
  PROVE  TypeOK' /\ Calm
<1> USE DEF AckInv
<1>1. /\ UNCHANGED <<run, dialed, backlog, conns, sockets, inbox, pending, failure, call, todo, got>>
      /\ life' = [life EXCEPT ![r] = "leaving"] /\ life[r] = "open"
      /\ faults' = faults \/ faults' = faults + 1
  BY DEF Leave
<1>2. SetupOK'
  BY <1>1, SetupIntro DEF TypeOK, SetupOK
<1>3. CallsOK'
  BY <1>1, CallsIntro DEF TypeOK, CallsOK
<1>4. TypeOK'
  BY <1>1, <1>2, <1>3, PartsKept DEF TypeOK
<1>5. CalmStores
  BY <1>1 DEF CalmStores, Delivered, TypeOK, SetupOK
<1> QED
  BY <1>1, <1>4, <1>5, CalmParts DEF Calm, sockets

(* Drop writes LEAVE and shuts the side down.                               *)
LEMMA LeaveSideKeeps ==
  ASSUME AckInv, NEW l \in Links, LeaveSide(l)
  PROVE  TypeOK' /\ Calm
<1> USE DEF AckInv
<1>1. /\ UNCHANGED <<run, setup, lock, next, reader, inbox, pending, failure, call, todo, got, faults>>
      /\ shut' = shut \cup {l}
      /\ (HasRoom(l) /\ Put(l, [op |-> "leave"])) \/ UNCHANGED wire
  BY DEF LeaveSide
<1>2. [op |-> "leave"] \in Frames
  BY FrameShape
<1>3. wire' \in [Links -> Seq(Frames)] /\ \A m \in Links : Len(wire'[m]) <= Room
  <2>1. CASE UNCHANGED wire
    BY <2>1 DEF TypeOK, SocketsOK
  <2>2. CASE HasRoom(l) /\ Put(l, [op |-> "leave"])
    BY <1>2, <2>2, PutShape
  <2> QED
    BY <1>1, <2>1, <2>2
<1>4. SocketsOK'
  BY <1>1, <1>3, SocketsIntro DEF TypeOK, SocketsOK
<1>5. TypeOK'
  BY <1>1, <1>4, PartsKept DEF TypeOK
<1>6. CalmWires
  <2>1. CASE UNCHANGED wire
    BY <2>1, <1>1, CalmParts
  <2>2. CASE HasRoom(l) /\ Put(l, [op |-> "leave"])
    BY <1>2, <2>2, CalmPut
  <2> QED
    BY <1>1, <2>1, <2>2
<1> QED
  BY <1>1, <1>5, <1>6, CalmParts DEF Calm, setup

(* The threads, queues and sockets of a rank go with it.                    *)
LEMMA GoneKeeps ==
  ASSUME AckInv, NEW r \in Ranks, Gone(r), faults' \in Nat
  PROVE  TypeOK' /\ Calm
<1> USE DEF AckInv
<1> DEFINE mine == {l \in Links : l[1] = r}
<1>1. /\ UNCHANGED <<run, dialed, backlog, conns, next, failure, got>>
      /\ life' = [life EXCEPT ![r] = "gone"]
      /\ shut' = shut \cup mine /\ lock' = lock \ mine
      /\ reader' = [l \in Links |-> IF l \in mine THEN [at |-> "none", sequence |-> 0] ELSE reader[l]]
      /\ wire' = [l \in Links |-> IF Reverse3(l) \in mine THEN <<>> ELSE wire[l]]
      /\ inbox' = [inbox EXCEPT ![r] = <<>>]
      /\ pending' = [pending EXCEPT ![r] = {}]
      /\ call' = [x \in Threads |-> IF x[1] = r THEN Idle ELSE call[x]]
      /\ todo' = [x \in Threads |-> IF x[1] = r THEN <<>> ELSE todo[x]]
  BY DEF Gone
<1>2. mine \subseteq Links
  OBVIOUS
<1> HIDE DEF mine
<1>3. SetupOK'
  BY <1>1, SetupIntro DEF TypeOK, SetupOK
<1>4. SocketsOK'
  <2>1. wire' \in [Links -> Seq(Frames)] /\ \A l \in Links : Len(wire'[l]) <= Room
    BY <1>1, RoomAssumption DEF TypeOK, SocketsOK
  <2>2. reader' \in [Links -> [at : {"none", "read", "lock", "write", "ended"}, sequence : Nat]]
    BY <1>1 DEF TypeOK, SocketsOK
  <2> QED
    BY <1>1, <1>2, <2>1, <2>2, SocketsIntro DEF TypeOK, SocketsOK
<1>5. TablesOK'
  BY <1>1, TablesIntro DEF TypeOK, TablesOK
<1>6. CallsOK'
  <2>1. call' \in [Threads -> CallStates]
    BY <1>1, CallShape DEF TypeOK, CallsOK
  <2>2. todo' \in [Threads -> Seq(Entries)]
    BY <1>1 DEF TypeOK, CallsOK
  <2>3. \A x \in Threads : Range(todo'[x]) \subseteq Range(run.script[x])
    BY <1>1, EmptyRange DEF TypeOK, CallsOK
  <2> QED
    BY <1>1, <2>1, <2>2, <2>3, CallsIntro DEF TypeOK, CallsOK
<1>7. TypeOK'
  BY <1>1, <1>3, <1>4, <1>5, <1>6, PartsKept DEF TypeOK
<1>8. CalmCalls
  BY <1>1 DEF CalmCalls, Idle
<1>9. CalmStores
  <2> SUFFICES ASSUME NEW d \in Ranks, life'[d] # "gone"
               PROVE  life[d] # "gone" /\ Delivered(d) \subseteq Delivered(d)'
    BY DEF CalmStores
  <2>1. d # r /\ life'[d] = life[d]
    BY <1>1 DEF TypeOK, SetupOK
  <2>2. inbox'[d] = inbox[d]
    BY <1>1, <2>1 DEF TypeOK, TablesOK
  <2> QED
    BY <1>1, <2>1, <2>2 DEF Delivered
<1>10. CalmWires
  BY <1>1, CalmLoss
<1>11. CalmReaders
  BY <1>1 DEF CalmReaders
<1> QED
  BY <1>1, <1>7, <1>8, <1>9, <1>10, <1>11 DEF Calm

-----------------------------------------------------------------------------
(* Facts about the operators.                                               *)

(* A set of naturals that is not empty has a smallest element.              *)
LEMMA LeastElement ==
  ASSUME NEW S \in SUBSET Nat, S # {}
  PROVE  \E x \in S : \A y \in S : x <= y
<1> DEFINE R == {ss \in Nat \X Nat : ss[1] < ss[2]}
<1>1. IsWellFoundedOn(R, Nat)
  <2>1. OpToRel(<, Nat) = R
    BY DEF OpToRel
  <2> QED
    BY <2>1, NatLessThanWellFounded
<1>2. PICK x \in S : \A y \in S : ~(<<y, x>> \in R)
  <2> HIDE DEF R
  <2> QED
    BY <1>1, WFMin
<1>3. ASSUME NEW y \in S PROVE x <= y
  <2>1. y \in Nat /\ x \in Nat
    OBVIOUS
  <2>2. ~(y < x)
    BY <1>2, <2>1, Zenon
  <2> QED
    BY <2>1, <2>2
<1> QED
  BY <1>3

(* A receive takes a match that comes before the others.                    *)
LEMMA MatchIn ==
  ASSUME NEW S \in SUBSET Nat, S # {}
  PROVE  Match(S) \in S /\ \A j \in S : Match(S) <= j
<1>1. \E i \in S : \A j \in S : i <= j
  BY LeastElement
<1> QED
  BY <1>1 DEF Match

(* Of the sides that are left, one is the first.                            *)
LEMMA FirstIn ==
  ASSUME run \in Cases, NEW S \in SUBSET Links, S # {}
  PROVE  First(S) \in S
<1>0. \A l \in S : l[3] \in Nat /\ l[2] \in Nat
  BY RunShape, LinkShape
<1> DEFINE A == {l[3] : l \in S}
<1>1. PICK a \in A : \A b \in A : a <= b
  <2>1. A \in SUBSET Nat /\ A # {}
    BY <1>0
  <2> QED
    BY <2>1, LeastElement
<1> DEFINE B == {l[2] : l \in {l \in S : l[3] = a}}
<1>2. PICK p \in B : \A q \in B : p <= q
  <2>1. B \in SUBSET Nat /\ B # {}
    BY <1>0
  <2> QED
    BY <2>1, LeastElement
<1>3. PICK l \in S : l[3] = a /\ l[2] = p
  OBVIOUS
<1>4. ASSUME NEW m \in S PROVE l[3] < m[3] \/ (l[3] = m[3] /\ l[2] <= m[2])
  <2>1. a <= m[3] /\ a \in Nat /\ m[3] \in Nat
    BY <1>0, <1>1
  <2>2. m[3] = a => p <= m[2]
    BY <1>2
  <2> QED
    BY <1>3, <2>1, <2>2
<1>5. \E i \in S : \A m \in S : i[3] < m[3] \/ (i[3] = m[3] /\ i[2] <= m[2])
  BY <1>4
<1> QED
  BY <1>5 DEF First

(* What is removed from a sequence is one element.                          *)
LEMMA RemovedElement ==
  ASSUME NEW S, NEW s \in Seq(S), NEW i \in 1 .. Len(s)
  PROVE  /\ RemoveAt(s, i) \in Seq(S)
         /\ Range(s) \subseteq Range(RemoveAt(s, i)) \cup {s[i]}
<1> DEFINE a == SubSeq(s, 1, i - 1)
           b == SubSeq(s, i + 1, Len(s))
<1>1. a \in Seq(S) /\ Len(a) = i - 1 /\ \A j \in 1 .. i - 1 : a[j] = s[j]
  OBVIOUS
<1>2. b \in Seq(S) /\ Len(b) = Len(s) - i /\ \A j \in 1 .. Len(s) - i : b[j] = s[i + j]
  OBVIOUS
<1>3. RemoveAt(s, i) = a \o b
  BY DEF RemoveAt
<1> HIDE DEF a, b
<1>4. /\ a \o b \in Seq(S) /\ DOMAIN (a \o b) = 1 .. Len(a) + Len(b)
      /\ \A j \in 1 .. Len(a) + Len(b) : (a \o b)[j] = IF j <= Len(a) THEN a[j] ELSE b[j - Len(a)]
  <2>1. a \in Seq(S) /\ b \in Seq(S)
    BY <1>1, <1>2
  <2>2. a \o b \in Seq(S) /\ Len(a \o b) = Len(a) + Len(b)
    BY <2>1
  <2>3. \A j \in 1 .. Len(a) + Len(b) : (a \o b)[j] = IF j <= Len(a) THEN a[j] ELSE b[j - Len(a)]
    BY <2>1
  <2>4. DOMAIN (a \o b) = 1 .. Len(a) + Len(b)
    BY <2>2
  <2> QED
    BY <2>2, <2>3, <2>4
<1>5. ASSUME NEW k \in 1 .. Len(s), k # i
      PROVE  \E j \in DOMAIN (a \o b) : (a \o b)[j] = s[k]
  <2>1. CASE k < i
    <3>1. k \in 1 .. i - 1 /\ k \in 1 .. Len(a) + Len(b) /\ k <= Len(a)
      BY <2>1, <1>1, <1>2
    <3>2. (a \o b)[k] = s[k]
      BY <3>1, <1>1, <1>4
    <3> QED
      BY <3>1, <3>2, <1>4
  <2>2. CASE k > i
    <3>1. k - 1 \in 1 .. Len(a) + Len(b) /\ ~(k - 1 <= Len(a))
      BY <2>2, <1>1, <1>2
    <3>2. k - 1 - Len(a) \in 1 .. Len(s) - i /\ i + (k - 1 - Len(a)) = k
      BY <2>2, <1>1
    <3>3. (a \o b)[k - 1] = s[k]
      BY <3>1, <3>2, <1>2, <1>4
    <3> QED
      BY <3>1, <3>3, <1>4
  <2> QED
    BY <1>5, <2>1, <2>2
<1>6. ASSUME NEW k \in DOMAIN s PROVE s[k] \in Range(a \o b) \cup {s[i]}
  <2>1. k \in 1 .. Len(s)
    OBVIOUS
  <2> QED
    BY <1>5, <2>1 DEF Range
<1> QED
  BY <1>3, <1>4, <1>6 DEF Range

-----------------------------------------------------------------------------
(* The threads, but for the lock and the write of a send.                   *)

(* A call that fails.                                                       *)
LEMMA FailKeeps ==
  ASSUME AckInv, NEW x \in Threads, Fails(x),
         UNCHANGED <<run, setup, wire, shut, next, reader, inbox, todo, got>>,
         lock' \subseteq Links, failure' \subseteq Ranks,
         pending' \in [Ranks -> SUBSET (Links \X Nat)], faults' \in Nat
  PROVE  TypeOK' /\ Calm
<1> USE DEF AckInv
<1>1. /\ call' \in [Threads -> CallStates] /\ call'[x].at = "abort"
      /\ \A y \in Threads \ {x} : call'[y] = call[y]
  BY FailsShape
<1>2. SocketsOK'
  BY SocketsIntro DEF TypeOK, SocketsOK
<1>3. TablesOK'
  BY TablesIntro DEF TypeOK, TablesOK
<1>4. CallsOK'
  BY <1>1, CallsIntro DEF TypeOK, CallsOK
<1>5. TypeOK'
  BY <1>2, <1>3, <1>4, PartsKept DEF TypeOK
<1>6. CalmCalls
  BY <1>1, CalmEnd
<1> QED
  BY <1>5, <1>6, CalmParts DEF Calm, setup

(* A call that returns keeps what is stored.                                *)
LEMMA ReturnKeeps ==
  ASSUME AckInv, NEW x \in Threads, todo[x] # <<>>, Returns(x),
         UNCHANGED <<run, setup, sockets, pending, failure, faults>>,
         inbox' \in [Ranks -> Seq(Letters)], got' \in [Threads -> Seq(Letters)],
         \A d \in Ranks : Delivered(d) \subseteq Delivered(d)'
  PROVE  TypeOK' /\ Calm
<1> USE DEF AckInv
<1>1. /\ call' \in [Threads -> CallStates] /\ call'[x] = Idle
      /\ todo' \in [Threads -> Seq(Entries)]
      /\ \A y \in Threads : Range(todo'[y]) \subseteq Range(run.script[y])
      /\ \A y \in Threads \ {x} : call'[y] = call[y] /\ todo'[y] = todo[y]
  BY ReturnsShape
<1>2. TablesOK'
  BY TablesIntro DEF TypeOK, TablesOK
<1>3. CallsOK'
  BY <1>1, CallsIntro DEF TypeOK, CallsOK
<1>4. TypeOK'
  BY <1>2, <1>3, PartsKept DEF TypeOK
<1>5. call'[x].at = "idle"
  BY <1>1 DEF Idle
<1>6. CalmCalls
  BY <1>1, <1>5, CalmEnd
<1>7. CalmStores
  BY DEF CalmStores, setup
<1> QED
  BY <1>4, <1>6, <1>7, CalmParts DEF Calm, setup, sockets

(* A send starts.                                                           *)
LEMMA StartSendKeeps ==
  ASSUME AckInv, NEW x \in Threads, StartSend(x)
  PROVE  TypeOK' /\ Calm
<1> USE DEF AckInv
<1>1. /\ UNCHANGED <<run, setup, sockets, inbox, pending, failure, todo, got, faults>>
      /\ Begins(x, "send")
      /\ Fails(x) \/ call' = [call EXCEPT ![x] = [at |-> "lock", link |-> LinkOf(x)]]
  BY DEF StartSend
<1>2. CASE Fails(x)
  BY <1>1, <1>2, FailKeeps DEF sockets, TypeOK, SocketsOK, TablesOK, CallsOK
<1>3. CASE call' = [call EXCEPT ![x] = [at |-> "lock", link |-> LinkOf(x)]]
  <2>1. LinkOf(x) \in Links /\ LinkOf(x)[1] = x[1]
    BY <1>1, LinkOfType
  <2>2. [at |-> "lock", link |-> LinkOf(x)] \in CallStates
    BY <2>1, CallShape
  <2>3. /\ call' \in [Threads -> CallStates] /\ call'[x] = [at |-> "lock", link |-> LinkOf(x)]
        /\ \A y \in Threads \ {x} : call'[y] = call[y]
    BY <1>3, <2>2, OneCall
  <2>4. CallsOK'
    BY <1>1, <2>3, CallsIntro DEF TypeOK, CallsOK
  <2>5. TypeOK'
    BY <1>1, <2>4, PartsKept DEF TypeOK
  <2>6. todo'[x] = todo[x] /\ todo[x] # <<>> /\ Head(todo[x]).do = "send"
    BY <1>1 DEF Begins
  <2>7. call'[x].at = "lock" /\ call'[x].link[1] = x[1]
    BY <2>1, <2>3
  <2>8. CalmCalls
    BY <1>1, <2>3, <2>6, <2>7 DEF CalmCalls
  <2> QED
    BY <1>1, <2>5, <2>8, CalmParts DEF Calm, setup, sockets
<1> QED
  BY <1>1, <1>2, <1>3

(* A letter to the rank itself.                                             *)
LEMMA SendToSelfKeeps ==
  ASSUME AckInv, NEW x \in Threads, SendToSelf(x)
  PROVE  TypeOK' /\ Calm
<1> USE DEF AckInv
<1> DEFINE f == [from |-> x[1], rail |-> RailFor(x[2]), tag |-> Head(todo[x]).tag,
                 body |-> Head(todo[x]).body]
<1>1. /\ UNCHANGED <<run, setup, sockets, pending, failure, got, faults>>
      /\ Begins(x, "self")
      /\ \/ Fails(x) /\ UNCHANGED <<todo, inbox>>
         \/ inbox' = [inbox EXCEPT ![x[1]] = Append(@, f)] /\ Returns(x)
  BY DEF SendToSelf
<1>2. CASE Fails(x) /\ UNCHANGED <<todo, inbox>>
  BY <1>1, <1>2, FailKeeps DEF sockets, TypeOK, SocketsOK, TablesOK, CallsOK
<1>3. CASE inbox' = [inbox EXCEPT ![x[1]] = Append(@, f)] /\ Returns(x)
  <2>1. todo[x] # <<>> /\ Head(todo[x]).do = "self"
    BY <1>1 DEF Begins
  <2>2. Head(todo[x]).tag \in SentTags /\ Head(todo[x]).body \in SentBodies
    BY <2>1, TodoShape
  <2>3. x[1] \in Ranks /\ RailFor(x[2]) \in Rails
    <3>1. x[1] \in Ranks /\ x[2] \in Nat \ {0} /\ run.rails \in Nat \ {0}
      BY RunShape, ThreadShape DEF TypeOK
    <3>2. (x[2] - 1) % run.rails \in 0 .. run.rails - 1
      BY <3>1
    <3> QED
      BY <3>1, <3>2 DEF RailFor, Rails
  <2>4. f \in Letters
    BY <2>2, <2>3 DEF Letters
  <2> HIDE DEF f
  <2>5. /\ inbox' \in [Ranks -> Seq(Letters)]
        /\ Range(inbox'[x[1]]) = Range(inbox[x[1]]) \cup {f}
        /\ \A p \in Ranks \ {x[1]} : inbox'[p] = inbox[p]
    BY <1>3, <2>3, <2>4, QueueShape
  <2>6. \A d \in Ranks : Delivered(d) \subseteq Delivered(d)'
    <3>1. \A d \in Ranks : Range(inbox[d]) \subseteq Range(inbox'[d])
      BY <2>5, Zenon
    <3> QED
      BY <1>1, <3>1 DEF Delivered
  <2>7. got' \in [Threads -> Seq(Letters)]
    BY <1>1 DEF TypeOK, CallsOK
  <2> QED
    BY <1>1, <1>3, <2>1, <2>5, <2>6, <2>7, ReturnKeeps
<1> QED
  BY <1>1, <1>2, <1>3

(* The ways a call fails: the socket, the failure of the session, a         *)
(* deadline, or the program itself.                                         *)
LEMMA FailuresKeep ==
  ASSUME AckInv, NEW x \in Threads,
         WriteSendFails(x) \/ SendSeesFailure(x) \/ SendTimesOut(x) \/ ReceiveTimesOut(x) \/ UserAbort(x)
  PROVE  TypeOK' /\ Calm
<1> USE DEF AckInv
<1>0. x[1] \in Ranks /\ faults \in Nat /\ lock \subseteq Links /\ failure \subseteq Ranks
      /\ pending \in [Ranks -> SUBSET (Links \X Nat)]
  BY ThreadShape DEF TypeOK, SocketsOK, TablesOK, CallsOK
<1>1. CASE WriteSendFails(x)
  <2>1. /\ Fails(x) /\ SetPeerFailure(x[1]) /\ lock' = lock \ {call[x].link}
        /\ UNCHANGED <<run, setup, wire, shut, next, reader, inbox, todo, got, faults>>
    BY <1>1 DEF WriteSendFails
  <2>2. failure' \subseteq Ranks /\ pending' \in [Ranks -> SUBSET (Links \X Nat)]
    BY <1>0, <2>1, FailureShape
  <2> QED
    BY <1>0, <2>1, <2>2, FailKeeps
<1>2. CASE SendSeesFailure(x)
  <2>1. /\ Fails(x) /\ UNCHANGED <<run, setup, sockets, inbox, failure, todo, got, faults>>
        /\ pending' = [pending EXCEPT ![x[1]] = @ \ {<<call[x].link, call[x].sequence>>}]
    BY <1>2 DEF SendSeesFailure
  <2>2. pending' \in [Ranks -> SUBSET (Links \X Nat)]
    BY <1>0, <2>1
  <2>3. lock' \subseteq Links /\ UNCHANGED <<wire, shut, next, reader>>
    BY <1>0, <2>1 DEF sockets
  <2> QED
    BY <1>0, <2>1, <2>2, <2>3, FailKeeps
<1>3. CASE SendTimesOut(x) \/ ReceiveTimesOut(x) \/ UserAbort(x)
  <2>1. /\ Fails(x) /\ SetPeerFailure(x[1])
        /\ UNCHANGED <<run, setup, sockets, inbox, todo, got>>
        /\ faults' = faults \/ faults' = faults + 1
    BY <1>3 DEF SendTimesOut, ReceiveTimesOut, UserAbort
  <2>2. failure' \subseteq Ranks /\ pending' \in [Ranks -> SUBSET (Links \X Nat)]
    BY <1>0, <2>1, FailureShape
  <2>3. lock' \subseteq Links /\ UNCHANGED <<wire, shut, next, reader>> /\ faults' \in Nat
    BY <1>0, <2>1 DEF sockets
  <2> QED
    BY <2>1, <2>2, <2>3, FailKeeps
<1> QED
  BY <1>1, <1>2, <1>3

(* A send that has its acknowledgement returns.                             *)
LEMMA SendReturnsKeeps ==
  ASSUME AckInv, NEW x \in Threads, SendReturns(x)
  PROVE  TypeOK' /\ Calm
<1> USE DEF AckInv
<1>1. /\ UNCHANGED <<run, setup, sockets, inbox, pending, failure, got, faults>>
      /\ call[x].at = "acked"
      /\ Returns(x) \/ (Fails(x) /\ UNCHANGED todo)
  BY DEF SendReturns
<1>2. CASE Fails(x) /\ UNCHANGED todo
  BY <1>1, <1>2, FailKeeps DEF sockets, TypeOK, SocketsOK, TablesOK, CallsOK
<1>3. CASE Returns(x)
  <2>1. todo[x] # <<>>
    BY <1>1 DEF OwnSequence
  <2>2. \A d \in Ranks : Delivered(d) \subseteq Delivered(d)'
    BY <1>1 DEF Delivered
  <2>3. inbox' \in [Ranks -> Seq(Letters)] /\ got' \in [Threads -> Seq(Letters)]
    BY <1>1 DEF TypeOK, TablesOK, CallsOK
  <2> QED
    BY <1>1, <1>3, <2>1, <2>2, <2>3, ReturnKeeps
<1> QED
  BY <1>1, <1>2, <1>3

(* A receive takes a letter: it moves from the inbox to what was taken.     *)
LEMMA TakesShape ==
  ASSUME TypeOK, run' = run, NEW x \in Threads, Takes(x)
  PROVE  /\ inbox' \in [Ranks -> Seq(Letters)] /\ got' \in [Threads -> Seq(Letters)]
         /\ \A d \in Ranks : Delivered(d) \subseteq Delivered(d)'
<1> DEFINE i == Match(Matches(x))
<1>t. /\ Matches(x) # {}
      /\ inbox' = [inbox EXCEPT ![x[1]] = RemoveAt(@, i)]
      /\ got' = [got EXCEPT ![x] = Append(@, inbox[x[1]][i])]
  BY DEF Takes, Letter
<1> DEFINE r == x[1]
           b == inbox[x[1]]
<1>0. /\ r \in Ranks /\ inbox \in [Ranks -> Seq(Letters)] /\ got \in [Threads -> Seq(Letters)]
      /\ x[2] \in 1 .. run.threads /\ x = <<x[1], x[2]>>
  BY ThreadShape DEF TypeOK, TablesOK, CallsOK
<1>1. b \in Seq(Letters) /\ got[x] \in Seq(Letters)
  BY <1>0
<1>2. i \in 1 .. Len(b)
  <2>1. Matches(x) \subseteq DOMAIN b
    BY DEF Matches
  <2>2. DOMAIN b = 1 .. Len(b) /\ 1 .. Len(b) \subseteq Nat
    BY <1>1
  <2>3. i \in Matches(x)
    BY <1>t, <2>1, <2>2, MatchIn
  <2> QED
    BY <2>1, <2>2, <2>3
<1> HIDE DEF i
<1>3. b[i] \in Letters
  BY <1>1, <1>2
<1>4. RemoveAt(b, i) \in Seq(Letters) /\ Range(b) \subseteq Range(RemoveAt(b, i)) \cup {b[i]}
  BY <1>1, <1>2, RemovedElement
<1>5. /\ inbox' \in [Ranks -> Seq(Letters)] /\ inbox'[r] = RemoveAt(b, i)
      /\ \A p \in Ranks \ {r} : inbox'[p] = inbox[p]
  BY <1>t, <1>0, <1>4
<1>6. /\ got' \in [Threads -> Seq(Letters)] /\ got'[x] = Append(got[x], b[i])
      /\ \A y \in Threads \ {x} : got'[y] = got[y]
  BY <1>t, <1>0, <1>1, <1>3
<1>7. Range(got[x]) \subseteq Range(got'[x]) /\ b[i] \in Range(got'[x])
  <2> DEFINE g == got[x]
             f == b[i]
  <2>1. g \in Seq(Letters) /\ f \in Letters
    BY <1>1, <1>3
  <2> HIDE DEF g, f
  <2>2. /\ DOMAIN g = 1 .. Len(g) /\ Len(g) \in Nat
        /\ DOMAIN Append(g, f) = 1 .. Len(g) + 1
        /\ Append(g, f)[Len(g) + 1] = f
        /\ \A j \in 1 .. Len(g) : Append(g, f)[j] = g[j]
    BY <2>1
  <2>3. Len(g) + 1 \in DOMAIN Append(g, f) /\ \A j \in DOMAIN g : j \in DOMAIN Append(g, f)
    BY <2>2
  <2>4. Range(g) \subseteq Range(Append(g, f)) /\ f \in Range(Append(g, f))
    BY <2>2, <2>3 DEF Range
  <2> QED
    BY <1>6, <2>4 DEF g, f
<1>8. ASSUME NEW d \in Ranks PROVE Delivered(d) \subseteq Delivered(d)'
  <2>0. run'.threads = run.threads
    OBVIOUS
  <2>1. \A t \in 1 .. run.threads : <<d, t>> \in Threads
    BY DEF Threads
  <2>2. \A t \in 1 .. run.threads : Range(got[<<d, t>>]) \subseteq Range(got'[<<d, t>>])
    BY <2>1, <1>6, <1>7
  <2>3. Range(inbox[d]) \subseteq Delivered(d)'
    <3>1. CASE d = r
      <4>1. b[i] \in Delivered(d)'
        BY <1>0, <1>7, <2>0, <3>1 DEF Delivered
      <4>2. Range(inbox'[d]) \subseteq Delivered(d)'
        BY DEF Delivered
      <4> QED
        BY <3>1, <4>1, <4>2, <1>4, <1>5
    <3>2. CASE d # r
      BY <3>2, <1>5 DEF Delivered
    <3> QED
      BY <3>1, <3>2
  <2> QED
    BY <2>0, <2>2, <2>3 DEF Delivered
<1> QED
  BY <1>5, <1>6, <1>8

(* The receive returns it,                                                  *)
LEMMA ReceiveReturnsKeeps ==
  ASSUME AckInv, NEW x \in Threads, ReceiveReturns(x)
  PROVE  TypeOK' /\ Calm
<1> USE DEF AckInv
<1>1. /\ UNCHANGED <<run, setup, sockets, pending, failure, faults>>
      /\ Begins(x, "receive")
      /\ \/ Fails(x) /\ UNCHANGED <<inbox, got, todo>>
         \/ Takes(x) /\ Returns(x)
  BY DEF ReceiveReturns
<1>2. CASE Fails(x) /\ UNCHANGED <<inbox, got, todo>>
  BY <1>1, <1>2, FailKeeps DEF sockets, TypeOK, SocketsOK, TablesOK, CallsOK
<1>3. CASE Takes(x) /\ Returns(x)
  <2>1. todo[x] # <<>>
    BY <1>1 DEF Begins
  <2> QED
    BY <1>1, <1>3, <2>1, TakesShape, ReturnKeeps
<1> QED
  BY <1>1, <1>2, <1>3

(* or fails because of its contract.                                        *)
LEMMA ReceiveMismatchKeeps ==
  ASSUME AckInv, NEW x \in Threads, ReceiveMismatch(x)
  PROVE  TypeOK' /\ Calm
<1> USE DEF AckInv
<1>1. /\ UNCHANGED <<run, setup, sockets, todo>>
      /\ Takes(x) /\ Fails(x) /\ SetPeerFailure(x[1]) /\ faults' = faults + 1
  BY DEF ReceiveMismatch
<1>2. /\ inbox' \in [Ranks -> Seq(Letters)] /\ got' \in [Threads -> Seq(Letters)]
      /\ \A d \in Ranks : Delivered(d) \subseteq Delivered(d)'
  BY <1>1, TakesShape
<1>3. /\ call' \in [Threads -> CallStates] /\ call'[x].at = "abort"
      /\ \A y \in Threads \ {x} : call'[y] = call[y]
  BY <1>1, FailsShape
<1>4. failure' \subseteq Ranks /\ pending' \in [Ranks -> SUBSET (Links \X Nat)]
  BY <1>1, FailureShape, ThreadShape
<1>5. TablesOK'
  BY <1>1, <1>2, <1>4, TablesIntro
<1>6. CallsOK'
  BY <1>1, <1>2, <1>3, CallsIntro DEF TypeOK, CallsOK
<1>7. TypeOK'
  BY <1>1, <1>5, <1>6, PartsKept DEF TypeOK
<1>8. CalmCalls
  BY <1>1, <1>3, CalmEnd
<1>9. CalmStores
  BY <1>1, <1>2 DEF CalmStores, setup
<1> QED
  BY <1>1, <1>7, <1>8, <1>9, CalmParts DEF Calm, setup, sockets

(* ABORT is written on a side.                                              *)
LEMMA AbortSideKeeps ==
  ASSUME AckInv, NEW x \in Threads, AbortSide(x)
  PROVE  TypeOK' /\ Calm
<1> USE DEF AckInv
<1> DEFINE l == First(call[x].left)
<1>1. /\ UNCHANGED <<run, setup, shut, lock, next, reader, inbox, todo, got, faults>>
      /\ call[x].at = "abort" /\ call[x].left # {}
      /\ (HasRoom(l) /\ Put(l, [op |-> "abort"])) \/ UNCHANGED wire
      /\ call' = [call EXCEPT ![x].left = @ \ {l}]
      /\ SetPeerFailure(x[1])
  BY DEF AbortSide
<1>2. call \in [Threads -> CallStates] /\ call[x] \in CallStates
  BY DEF TypeOK, CallsOK
<1>3. call[x].left \subseteq Links
  BY <1>1, <1>2, CallShape
<1>4. l \in Links
  BY <1>1, <1>3, FirstIn DEF TypeOK
<1> HIDE DEF l
<1>5. [op |-> "abort"] \in Frames
  BY FrameShape
<1>6. wire' \in [Links -> Seq(Frames)] /\ \A m \in Links : Len(wire'[m]) <= Room
  <2>1. CASE UNCHANGED wire
    BY <2>1 DEF TypeOK, SocketsOK
  <2>2. CASE HasRoom(l) /\ Put(l, [op |-> "abort"])
    BY <1>4, <1>5, <2>2, PutShape
  <2> QED
    BY <1>1, <2>1, <2>2
<1>7. SocketsOK'
  BY <1>1, <1>6, SocketsIntro DEF TypeOK, SocketsOK
<1>8. TablesOK'
  <2>1. failure' \subseteq Ranks /\ pending' \in [Ranks -> SUBSET (Links \X Nat)]
    BY <1>1, ThreadShape, FailureShape
  <2> QED
    BY <1>1, <2>1, TablesIntro DEF TypeOK, TablesOK
<1>9. /\ call' \in [Threads -> CallStates] /\ call'[x].at = "abort"
      /\ \A y \in Threads \ {x} : call'[y] = call[y]
  <2>1. call[x] = [at |-> "abort", left |-> call[x].left]
    BY <1>1, <1>2 DEF CallStates, InSendCalls, Idle
  <2>2. [call[x] EXCEPT !.left = @ \ {l}] = [at |-> "abort", left |-> call[x].left \ {l}]
    BY <2>1
  <2>3. [at |-> "abort", left |-> call[x].left \ {l}] \in CallStates
    BY <1>3, CallShape
  <2>4. call' = [call EXCEPT ![x] = [at |-> "abort", left |-> call[x].left \ {l}]]
    BY <1>1, <1>2, <2>2
  <2> QED
    BY <2>3, <2>4, OneCall
<1>10. CallsOK'
  BY <1>1, <1>9, CallsIntro DEF TypeOK, CallsOK
<1>11. TypeOK'
  BY <1>1, <1>7, <1>8, <1>10, PartsKept DEF TypeOK
<1>12. CalmWires
  <2>1. CASE UNCHANGED wire
    BY <2>1, <1>1, CalmParts
  <2>2. CASE HasRoom(l) /\ Put(l, [op |-> "abort"])
    BY <1>4, <1>5, <2>2, CalmPut
  <2> QED
    BY <1>1, <2>1, <2>2
<1>13. CalmCalls
  BY <1>1, <1>9, CalmEnd
<1> QED
  BY <1>1, <1>11, <1>12, <1>13, CalmParts DEF Calm, setup

(* The aborted call returns, and its thread makes no more calls.            *)
LEMMA AbortReturnsKeeps ==
  ASSUME AckInv, NEW x \in Threads, AbortReturns(x)
  PROVE  TypeOK' /\ Calm
<1> USE DEF AckInv
<1>1. /\ UNCHANGED <<run, setup, sockets, inbox, pending, failure, got, faults>>
      /\ call' = [call EXCEPT ![x] = Idle] /\ todo' = [todo EXCEPT ![x] = <<>>]
  BY DEF AbortReturns
<1>2. /\ call' \in [Threads -> CallStates] /\ call'[x].at = "idle"
      /\ \A y \in Threads \ {x} : call'[y] = call[y]
  BY <1>1, CallShape, OneCall DEF Idle
<1>3. /\ todo' \in [Threads -> Seq(Entries)] /\ todo'[x] = <<>>
      /\ \A y \in Threads \ {x} : todo'[y] = todo[y]
  BY <1>1 DEF TypeOK, CallsOK
<1>4. \A y \in Threads : Range(todo'[y]) \subseteq Range(run.script[y])
  BY <1>3, EmptyRange DEF TypeOK, CallsOK
<1>5. CallsOK'
  BY <1>1, <1>2, <1>3, <1>4, CallsIntro DEF TypeOK, CallsOK
<1>6. TypeOK'
  BY <1>1, <1>5, PartsKept DEF TypeOK
<1>7. CalmCalls
  BY <1>2, <1>3, CalmEnd
<1> QED
  BY <1>1, <1>6, <1>7, CalmParts DEF Calm, setup, sockets

-----------------------------------------------------------------------------
(* The readers, but for the reading of a frame.                             *)

(* What a step does to the reader of one side.                              *)
LEMMA OneReader ==
  ASSUME TypeOK, NEW l \in Links, NEW c \in {"read", "lock", "write", "ended"},
         reader' = [reader EXCEPT ![l].at = c]
  PROVE  /\ reader' \in [Links -> [at : {"none", "read", "lock", "write", "ended"}, sequence : Nat]]
         /\ reader'[l].at = c /\ reader'[l].sequence = reader[l].sequence
         /\ \A m \in Links \ {l} : reader'[m] = reader[m]
<1>1. reader \in [Links -> [at : {"none", "read", "lock", "write", "ended"}, sequence : Nat]]
  BY DEF TypeOK, SocketsOK
<1> QED
  BY <1>1

(* The reader takes the lock, writes its acknowledgement, or cannot.        *)
LEMMA AcksKeep ==
  ASSUME AckInv, NEW l \in Links, LockAck(l) \/ WriteAck(l) \/ WriteAckFails(l)
  PROVE  TypeOK' /\ Calm
<1> USE DEF AckInv
<1>0. lock \subseteq Links /\ l[1] \in Ranks
  BY LinkShape DEF TypeOK, SocketsOK
<1>1. CASE LockAck(l)
  <2>1. /\ UNCHANGED <<run, setup, wire, shut, next, inbox, pending, failure, call, todo, got, faults>>
        /\ lock' = lock \cup {l} /\ reader' = [reader EXCEPT ![l].at = "write"]
        /\ reader[l].at = "lock"
    BY <1>1 DEF LockAck
  <2>2. /\ reader' \in [Links -> [at : {"none", "read", "lock", "write", "ended"}, sequence : Nat]]
        /\ reader'[l].at = "write" /\ reader'[l].sequence = reader[l].sequence
        /\ \A m \in Links \ {l} : reader'[m] = reader[m]
    BY <2>1, OneReader
  <2>3. SocketsOK'
    BY <1>0, <2>1, <2>2, SocketsIntro DEF TypeOK, SocketsOK
  <2>4. TypeOK'
    BY <2>1, <2>3, PartsKept DEF TypeOK
  <2>5. CalmReaders
    BY <2>1, <2>2 DEF CalmReaders
  <2> QED
    BY <2>1, <2>4, <2>5, CalmParts DEF Calm, setup
<1>2. CASE WriteAck(l)
  <2> DEFINE f == [op |-> "ack", sequence |-> reader[l].sequence]
  <2>1. /\ UNCHANGED <<run, setup, shut, next, inbox, pending, failure, call, todo, got, faults>>
        /\ lock' = lock \ {l} /\ reader' = [reader EXCEPT ![l].at = "read"]
        /\ reader[l].at = "write" /\ HasRoom(l) /\ Put(l, f)
    BY <1>2 DEF WriteAck
  <2>2. /\ reader' \in [Links -> [at : {"none", "read", "lock", "write", "ended"}, sequence : Nat]]
        /\ reader'[l].at = "read" /\ \A m \in Links \ {l} : reader'[m] = reader[m]
    BY <2>1, OneReader
  <2>3. f \in Frames /\ f.op = "ack" /\ f.sequence = reader[l].sequence
    BY DEF TypeOK, SocketsOK, Frames, AckFrames
  <2> HIDE DEF f
  <2>4. wire' \in [Links -> Seq(Frames)] /\ \A m \in Links : Len(wire'[m]) <= Room
    BY <2>1, <2>3, PutShape
  <2>5. SocketsOK'
    BY <1>0, <2>1, <2>2, <2>4, SocketsIntro DEF TypeOK, SocketsOK
  <2>6. TypeOK'
    BY <2>1, <2>5, PartsKept DEF TypeOK
  <2>7. CalmReaders
    BY <2>2 DEF CalmReaders
  <2>8. CalmWires
    BY <2>1, <2>3, CalmPut
  <2> QED
    BY <2>1, <2>6, <2>7, <2>8, CalmParts DEF Calm, setup
<1>3. CASE WriteAckFails(l)
  <2>1. /\ UNCHANGED <<run, setup, wire, shut, next, inbox, call, todo, got, faults>>
        /\ SetPeerFailure(l[1])
        /\ lock' = lock \ {l} /\ reader' = [reader EXCEPT ![l].at = "ended"]
    BY <1>3 DEF WriteAckFails
  <2>2. /\ reader' \in [Links -> [at : {"none", "read", "lock", "write", "ended"}, sequence : Nat]]
        /\ reader'[l].at = "ended" /\ \A m \in Links \ {l} : reader'[m] = reader[m]
    BY <2>1, OneReader
  <2>3. SocketsOK'
    BY <1>0, <2>1, <2>2, SocketsIntro DEF TypeOK, SocketsOK
  <2>4. failure' \subseteq Ranks /\ pending' \in [Ranks -> SUBSET (Links \X Nat)]
    BY <1>0, <2>1, FailureShape
  <2>5. TablesOK'
    BY <2>1, <2>4, TablesIntro DEF TypeOK, TablesOK
  <2>6. TypeOK'
    BY <2>1, <2>3, <2>5, PartsKept DEF TypeOK
  <2>7. CalmReaders
    BY <2>2 DEF CalmReaders
  <2> QED
    BY <2>1, <2>6, <2>7, CalmParts DEF Calm, setup
<1> QED
  BY <1>1, <1>2, <1>3

(* The stream ends.                                                         *)
LEMMA ReadEndKeeps ==
  ASSUME AckInv, NEW l \in Links, ReadEnd(l)
  PROVE  TypeOK' /\ Calm
<1> USE DEF AckInv
<1>0. l[1] \in Ranks /\ Reverse3(l) \in Links
  BY LinkShape
<1>1. /\ UNCHANGED <<run, setup, shut, lock, next, inbox, call, todo, got, faults>>
      /\ SetPeerFailure(l[1]) /\ wire' = [wire EXCEPT ![Reverse3(l)] = <<>>]
      /\ reader' = [reader EXCEPT ![l].at = "ended"]
  BY DEF ReadEnd
<1>2. /\ reader' \in [Links -> [at : {"none", "read", "lock", "write", "ended"}, sequence : Nat]]
      /\ reader'[l].at = "ended" /\ \A m \in Links \ {l} : reader'[m] = reader[m]
  BY <1>1, OneReader
<1>3. /\ wire' \in [Links -> Seq(Frames)] /\ wire'[Reverse3(l)] = <<>>
      /\ \A m \in Links \ {Reverse3(l)} : wire'[m] = wire[m]
  BY <1>0, <1>1 DEF TypeOK, SocketsOK
<1>4. \A m \in Links : Len(wire'[m]) <= Room
  BY <1>3, RoomAssumption DEF TypeOK, SocketsOK
<1>5. SocketsOK'
  BY <1>1, <1>2, <1>3, <1>4, SocketsIntro DEF TypeOK, SocketsOK
<1>6. failure' \subseteq Ranks /\ pending' \in [Ranks -> SUBSET (Links \X Nat)]
  BY <1>0, <1>1, FailureShape
<1>7. TablesOK'
  BY <1>1, <1>6, TablesIntro DEF TypeOK, TablesOK
<1>8. TypeOK'
  BY <1>1, <1>5, <1>7, PartsKept DEF TypeOK
<1>9. CalmReaders
  BY <1>2 DEF CalmReaders
<1>10. CalmWires
  BY <1>3, CalmLoss
<1> QED
  BY <1>1, <1>8, <1>9, <1>10, CalmParts DEF Calm, setup

-----------------------------------------------------------------------------
(* The reading of a frame.                                                  *)

(* A data frame is queued: its sequence number is acknowledged from now on. *)
LEMMA ReadSendKeeps ==
  ASSUME AckInv, NEW l \in Links, ReadSend(l)
  PROVE  TypeOK' /\ Calm
<1> USE DEF AckInv
<1> DEFINE k == Reverse3(l)
           h == Head(In(l))
           f == [from |-> l[2], rail |-> l[3], tag |-> h.tag, body |-> h.body]
<1>1. /\ UNCHANGED <<run, setup, shut, lock, next, pending, failure, call, todo, got, faults>>
      /\ In(l) # <<>> /\ h.op = "send" /\ Popped(l)
      /\ inbox' = [inbox EXCEPT ![l[1]] = Append(@, f)]
      /\ reader' = [reader EXCEPT ![l] = [at |-> "lock", sequence |-> h.sequence]]
  BY DEF ReadSend
<1>2. /\ k \in Links /\ h \in Frames /\ h = wire[k][1] /\ 1 \in DOMAIN wire[k]
      /\ wire' \in [Links -> Seq(Frames)] /\ \A m \in Links : Len(wire'[m]) <= Room
      /\ \A i \in DOMAIN wire'[k] : i + 1 \in DOMAIN wire[k] /\ wire'[k][i] = wire[k][i + 1]
      /\ \A m \in Links \ {k} : wire'[m] = wire[m]
  BY <1>1, PoppedShape
<1>3. l[1] \in Ranks /\ l[2] \in Ranks /\ l[3] \in Rails /\ k[1] = l[2] /\ k[2] = l[1]
  BY LinkShape
<1> HIDE DEF k, h
<1>4. h.sequence \in Nat /\ h.tag \in SentTags /\ h.body \in SentBodies
  <2>1. h \in SendFrames
    BY <1>1, <1>2, FrameShape
  <2> QED
    BY <2>1 DEF SendFrames
<1>5. f \in Letters /\ f.from = l[2] /\ f.body = h.body
  BY <1>3, <1>4 DEF Letters
<1> HIDE DEF f
<1>6. /\ inbox' \in [Ranks -> Seq(Letters)]
      /\ Range(inbox'[l[1]]) = Range(inbox[l[1]]) \cup {f}
      /\ \A p \in Ranks \ {l[1]} : inbox'[p] = inbox[p]
  BY <1>1, <1>3, <1>5, QueueShape
<1>7. /\ reader' \in [Links -> [at : {"none", "read", "lock", "write", "ended"}, sequence : Nat]]
      /\ reader'[l].at = "lock" /\ reader'[l].sequence = h.sequence
      /\ \A m \in Links \ {l} : reader'[m] = reader[m]
  BY <1>1, <1>4 DEF TypeOK, SocketsOK
<1>8. SocketsOK'
  BY <1>1, <1>2, <1>7, SocketsIntro DEF TypeOK, SocketsOK
<1>9. TablesOK'
  BY <1>1, <1>6, TablesIntro DEF TypeOK, TablesOK
<1>10. TypeOK'
  BY <1>1, <1>8, <1>9, PartsKept DEF TypeOK
<1>11. CalmWires
  BY <1>2, CalmLoss
<1>12. CalmStores
  <2>1. \A d \in Ranks : Range(inbox[d]) \subseteq Range(inbox'[d])
    BY <1>6, Zenon
  <2> QED
    BY <1>1, <2>1 DEF CalmStores, Delivered, setup
<1>13. Acknowledges(k, reader[l].sequence)'
  <2>1. /\ h.sequence < next[k]
        /\ \A x \in Threads : InSend(x, k, h.sequence) =>
             call[x].at = "wait" /\ h.body = Head(todo[x]).body
    BY <1>1, <1>2 DEF FramesFit
  <2>2. ASSUME NEW x \in Threads, InSend(x, k, h.sequence)
        PROVE  call[x].at = "wait" /\ Stored(x)'
    <3>1. call[x].at = "wait" /\ h.body = Head(todo[x]).body /\ call[x].link = k
      BY <2>1, <2>2 DEF InSend
    <3>2. x[1] = l[2]
      BY <1>3, <3>1 DEF OwnSequence
    <3>3. f \in Delivered(k[2])'
      BY <1>3, <1>6 DEF Delivered
    <3>4. f.from = x[1] /\ f.body = Head(todo[x]).body
      BY <1>5, <3>1, <3>2
    <3>5. call'[x].link[2] = k[2] /\ Head(todo'[x]) = Head(todo[x])
      BY <1>1, <3>1
    <3>6. f \in Delivered(call[x].link[2])'
      BY <3>3, <3>5
    <3> QED
      BY <3>1, <3>4, <3>5, <3>6 DEF Stored
  <2>3. \A x \in Threads : InSend(x, k, reader[l].sequence)' => InSend(x, k, h.sequence)
    BY <1>1, <1>7 DEF InSend
  <2>4. Threads' = Threads
    BY <1>1, Fixed
  <2>5. next'[k] = next[k] /\ \A x \in Threads : call'[x] = call[x]
    BY <1>1
  <2> QED
    BY <1>7, <2>1, <2>2, <2>3, <2>4, <2>5 DEF Acknowledges
<1>14. CalmReaders
  <2>1. Acknowledges(Reverse3(l), reader[l].sequence)'
    BY <1>13 DEF k
  <2> QED
    BY <1>7, <2>1 DEF CalmReaders
<1> QED
  BY <1>1, <1>10, <1>11, <1>12, <1>14, CalmParts DEF Calm

(* An acknowledgement wakes the send of its sequence number, whose frame is *)
(* stored.                                                                  *)
LEMMA ReadAckKeeps ==
  ASSUME AckInv, NEW l \in Links, ReadAck(l)
  PROVE  TypeOK' /\ Calm
<1> USE DEF AckInv
<1> DEFINE k == Reverse3(l)
           h == Head(In(l))
           keys == AckKey(l, h.sequence) \cap pending[l[1]]
           woken(x) == x[1] = l[1] /\ call[x].at = "wait" /\ <<call[x].link, call[x].sequence>> \in keys
<1>1. /\ UNCHANGED <<run, setup, shut, lock, next, reader, inbox, failure, todo, got, faults>>
      /\ In(l) # <<>> /\ h.op = "ack" /\ Popped(l)
      /\ pending' = [pending EXCEPT ![l[1]] = @ \ keys]
      /\ call' = [x \in Threads |-> IF woken(x) THEN [call[x] EXCEPT !.at = "acked"] ELSE call[x]]
  BY DEF ReadAck
<1>2. /\ k \in Links /\ h \in Frames /\ h = wire[k][1] /\ 1 \in DOMAIN wire[k]
      /\ wire' \in [Links -> Seq(Frames)] /\ \A m \in Links : Len(wire'[m]) <= Room
      /\ \A i \in DOMAIN wire'[k] : i + 1 \in DOMAIN wire[k] /\ wire'[k][i] = wire[k][i + 1]
      /\ \A m \in Links \ {k} : wire'[m] = wire[m]
  BY <1>1, PoppedShape
<1>3. l[1] \in Ranks /\ Reverse3(k) = l
  BY LinkShape
<1>4. Acknowledges(l, h.sequence)
  BY <1>1, <1>2, <1>3 DEF FramesFit
<1> HIDE DEF k
<1>5. ASSUME NEW x \in Threads, woken(x)
      PROVE  /\ call'[x] \in CallStates /\ call'[x].at = "acked" /\ call[x].at = "wait"
             /\ call'[x].link = call[x].link /\ call'[x].sequence = call[x].sequence
             /\ life[call[x].link[2]] # "gone" => Stored(x)
  <2>1. call[x] \in CallStates /\ call[x].at = "wait"
    BY <1>5 DEF TypeOK, CallsOK
  <2>2. call[x] \in InSendCalls
    BY <2>1, CallShape
  <2>3. call'[x] = [call[x] EXCEPT !.at = "acked"]
    BY <1>1, <1>5
  <2>4. /\ call'[x] \in InSendCalls /\ call'[x].at = "acked"
        /\ call'[x].link = call[x].link /\ call'[x].sequence = call[x].sequence
    BY <2>2, <2>3 DEF InSendCalls
  <2>5. call'[x] \in CallStates
    BY <2>4 DEF CallStates
  <2>6. call[x].link = l /\ call[x].sequence = h.sequence
    BY <1>5 DEF AckKey
  <2>7. InSend(x, l, h.sequence)
    BY <2>1, <2>6 DEF InSend
  <2>8. life[l[2]] # "gone" => Stored(x)
    BY <2>7, <1>4 DEF Acknowledges
  <2> QED
    BY <2>1, <2>4, <2>5, <2>6, <2>8
<1>6. ASSUME NEW x \in Threads, ~woken(x) PROVE call'[x] = call[x] /\ call[x] \in CallStates
  BY <1>1, <1>6 DEF TypeOK, CallsOK
<1>7. call' \in [Threads -> CallStates]
  <2>1. \A x \in Threads : call'[x] \in CallStates
    BY <1>5, <1>6
  <2>2. call' = [x \in Threads |-> call'[x]]
    BY <1>1
  <2> QED
    BY <2>1, <2>2
<1>8. CallsOK'
  BY <1>1, <1>7, CallsIntro DEF TypeOK, CallsOK
<1>9. SocketsOK'
  BY <1>1, <1>2, SocketsIntro DEF TypeOK, SocketsOK
<1>10. TablesOK'
  <2>1. pending' \in [Ranks -> SUBSET (Links \X Nat)]
    BY <1>1, <1>3 DEF TypeOK, TablesOK
  <2> QED
    BY <1>1, <2>1, TablesIntro DEF TypeOK, TablesOK
<1>11. TypeOK'
  BY <1>1, <1>8, <1>9, <1>10, PartsKept DEF TypeOK
<1>12. CalmWires
  BY <1>2, CalmLoss
<1>13. CalmCalls
  <2> HIDE DEF woken, keys, h
  <2> QED
    BY <1>1, <1>5, <1>6 DEF CalmCalls
<1> QED
  BY <1>1, <1>11, <1>12, <1>13, CalmParts DEF Calm, setup

-----------------------------------------------------------------------------
(* The steps that are not calm.                                             *)

(* A send takes its sequence number: no call, frame or reader has it yet.   *)
LEMMA LockSendKeeps ==
  ASSUME AckInv, NEW x \in Threads, LockSend(x)
  PROVE  AckInv'
<1> USE DEF AckInv
<1> DEFINE l == call[x].link
           n == next[l]
<1>1. /\ UNCHANGED <<run, setup, wire, shut, reader, inbox, failure, todo, got, faults>>
      /\ call[x].at = "lock" /\ lock' = lock \cup {l}
      /\ next' = [next EXCEPT ![l] = n + 1]
      /\ pending' = [pending EXCEPT ![x[1]] = @ \cup {<<l, n>>}]
      /\ call' = [call EXCEPT ![x] = [at |-> "write", link |-> l, sequence |-> n]]
  BY DEF LockSend
<1>2. /\ call \in [Threads -> CallStates] /\ call[x] \in CallStates /\ next \in [Links -> Nat]
      /\ x[1] \in Ranks /\ lock \subseteq Links /\ pending \in [Ranks -> SUBSET (Links \X Nat)]
  BY ThreadShape DEF TypeOK, CallsOK, SocketsOK, TablesOK
<1>3. l \in Links /\ l[1] = x[1] /\ todo[x] # <<>> /\ Head(todo[x]).do = "send"
  BY <1>1, <1>2, CallShape DEF OwnSequence
<1> HIDE DEF l
<1>4. n \in Nat
  BY <1>2, <1>3
<1> HIDE DEF n
<1>5. /\ next' \in [Links -> Nat] /\ next'[l] = n + 1 /\ next[l] = n
      /\ \A k \in Links : next[k] <= next'[k] /\ next[k] \in Nat /\ next'[k] \in Nat
  BY <1>1, <1>2, <1>3, <1>4 DEF n
<1>6. [at |-> "write", link |-> l, sequence |-> n] \in CallStates
  BY <1>3, <1>4, CallShape
<1>7. /\ call' \in [Threads -> CallStates]
      /\ call'[x] = [at |-> "write", link |-> l, sequence |-> n]
      /\ \A y \in Threads \ {x} : call'[y] = call[y]
  BY <1>1, <1>6, OneCall
<1>8. call'[x].at = "write" /\ call'[x].link = l /\ call'[x].sequence = n
  BY <1>7
<1>9. TypeOK'
  <2>1. SocketsOK'
    BY <1>1, <1>2, <1>3, <1>5, SocketsIntro DEF TypeOK, SocketsOK
  <2>2. pending' \in [Ranks -> SUBSET (Links \X Nat)]
    BY <1>1, <1>2, <1>3, <1>4
  <2>3. TablesOK'
    BY <1>1, <2>2, TablesIntro DEF TypeOK, TablesOK
  <2>4. CallsOK'
    BY <1>1, <1>7, CallsIntro DEF TypeOK, CallsOK
  <2> QED
    BY <1>1, <2>1, <2>3, <2>4, PartsKept DEF TypeOK
<1>10. Threads' = Threads /\ Links' = Links /\ CalmStores
  BY <1>1, Fixed, CalmParts DEF setup
<1>11. ASSUME NEW k \in Links, NEW s \in Nat, s < next[k]
       PROVE  /\ s < next'[k]
              /\ \A y \in Threads : InSend(y, k, s)' =>
                   InSend(y, k, s) /\ call'[y] = call[y] /\ todo'[y] = todo[y]
  <2>1. s < next'[k]
    <3>1. next[k] \in Nat /\ next'[k] \in Nat /\ next[k] <= next'[k]
      BY <1>5
    <3> QED
      BY <1>11, <3>1
  <2>2. ASSUME NEW y \in Threads, InSend(y, k, s)'
        PROVE  InSend(y, k, s) /\ call'[y] = call[y] /\ todo'[y] = todo[y]
    <3>1. call'[y].at \in {"write", "wait"} /\ call'[y].link = k /\ call'[y].sequence = s
      BY <2>2 DEF InSend
    <3>2. y # x
      BY <1>4, <1>5, <1>8, <1>11, <3>1
    <3>3. call'[y] = call[y] /\ todo'[y] = todo[y]
      BY <1>1, <1>7, <3>2
    <3> QED
      BY <3>1, <3>3 DEF InSend
  <2> QED
    BY <2>1, <2>2
<1>12. OwnSequence'
  <2>1. ASSUME NEW y \in Threads, call'[y].at \in {"lock", "write", "wait", "acked"}
        PROVE  call'[y].link[1] = y[1] /\ todo'[y] # <<>> /\ Head(todo'[y]).do = "send"
    BY <1>1, <1>3, <1>7, <1>8, <2>1 DEF OwnSequence
  <2>2. ASSUME NEW y \in Threads \ {x}, call'[y].at \in {"write", "wait", "acked"}
        PROVE  /\ call[y].sequence < next[call[y].link] /\ call[y].sequence \in Nat
               /\ call[y].link \in Links /\ call'[y] = call[y]
    BY <1>2, <1>7, <2>2, CallShape DEF OwnSequence
  <2>3. ASSUME NEW y \in Threads, call'[y].at \in {"write", "wait", "acked"}
        PROVE  call'[y].sequence < next'[call'[y].link]
    <3>1. CASE y = x
      BY <3>1, <1>4, <1>5, <1>8
    <3>2. CASE y # x
      BY <3>2, <2>2, <2>3, <1>11
    <3> QED
      BY <3>1, <3>2
  <2>4. ASSUME NEW y \in Threads, NEW z \in Threads, call'[z].at \in {"write", "wait"},
               call'[y].at \in {"write", "wait"}, call'[y].link = call'[z].link,
               call'[y].sequence = call'[z].sequence
        PROVE  y = z
    <3>1. ASSUME NEW w \in Threads \ {x}, call'[w].at \in {"write", "wait"}, call'[w].link = l
          PROVE  call'[w].sequence # n
      <4>1. call[w].sequence < next[l] /\ call[w].sequence \in Nat /\ call'[w] = call[w]
        BY <3>1, <2>2
      <4> QED
        BY <4>1, <1>4, <1>5
    <3>2. CASE y # x /\ z # x
      <4>1. call'[y] = call[y] /\ call'[z] = call[z]
        BY <3>2, <1>7
      <4> QED
        BY <2>4, <4>1 DEF OwnSequence, InSend
    <3>3. CASE y = x /\ z # x
      BY <2>4, <3>1, <3>3, <1>8
    <3>4. CASE z = x /\ y # x
      BY <2>4, <3>1, <3>4, <1>8
    <3> QED
      BY <3>2, <3>3, <3>4
  <2>5. \A y, z \in Threads :
          call'[z].at \in {"write", "wait"} /\ InSend(y, call[z].link, call[z].sequence)' => y = z
    BY <2>4 DEF InSend
  <2> QED
    BY <1>10, <2>1, <2>3, <2>5 DEF OwnSequence
<1>13. wire' = wire /\ reader' = reader /\ todo' = todo
  BY <1>1
<1>14. ASSUME NEW k \in Links, NEW i \in DOMAIN wire[k], wire[k][i].op = "send"
       PROVE  /\ wire[k][i].sequence < next'[k]
              /\ \A y \in Threads : InSend(y, k, wire[k][i].sequence)' =>
                   call'[y].at = "wait" /\ wire[k][i].body = Head(todo[y]).body
  <2>0. wire[k][i] \in SendFrames
    BY <1>14, FrameShape DEF TypeOK, SocketsOK
  <2>1. PICK s \in Nat : s = wire[k][i].sequence
    BY <2>0 DEF SendFrames
  <2>2. /\ s < next[k]
        /\ \A y \in Threads : InSend(y, k, s) => call[y].at = "wait" /\ wire[k][i].body = Head(todo[y]).body
    BY <1>14, <2>1 DEF FramesFit
  <2>3. ASSUME NEW y \in Threads, InSend(y, k, wire[k][i].sequence)'
        PROVE  call'[y].at = "wait" /\ wire[k][i].body = Head(todo[y]).body
    <3>1. InSend(y, k, s)'
      BY <2>1, <2>3, <1>13 DEF InSend
    <3>2. InSend(y, k, s) /\ call'[y] = call[y]
      BY <3>1, <2>2, <1>11
    <3> QED
      BY <3>2, <2>2
  <2> QED
    BY <2>1, <2>2, <2>3, <1>11
<1>15. ASSUME NEW k \in Links, NEW s \in Nat, Acknowledges(k, s)
       PROVE  Acknowledges(k, s)'
  <2>1. s < next[k]
    BY <1>15 DEF Acknowledges
  <2> QED
    BY <1>1, <1>10, <1>11, <1>15, <2>1, AcknowledgesKept
<1>16. ASSUME NEW k \in Links, NEW i \in DOMAIN wire[k], wire[k][i].op = "ack"
       PROVE  Acknowledges(Reverse3(k), wire[k][i].sequence)'
  <2>0. wire[k][i] \in AckFrames
    BY <1>16, FrameShape DEF TypeOK, SocketsOK
  <2>1. PICK s \in Nat : s = wire[k][i].sequence
    BY <2>0 DEF AckFrames
  <2>2. Acknowledges(Reverse3(k), s)'
    BY <1>15, <1>16, <2>1, LinkShape DEF FramesFit
  <2> QED
    BY <1>13, <2>1, <2>2 DEF Acknowledges, InSend
<1>17. ASSUME NEW k \in Links, reader[k].at \in {"lock", "write"}
       PROVE  Acknowledges(Reverse3(k), reader[k].sequence)'
  <2>1. PICK s \in Nat : s = reader[k].sequence
    BY DEF TypeOK, SocketsOK
  <2>2. Acknowledges(Reverse3(k), s)'
    BY <1>15, <1>17, <2>1, LinkShape DEF FramesFit
  <2> QED
    BY <1>13, <2>1, <2>2 DEF Acknowledges, InSend
<1>18. FramesFit'
  BY <1>10, <1>13, <1>14, <1>16, <1>17 DEF FramesFit
<1>19. AckedIsQueued'
  <2> SUFFICES ASSUME NEW y \in Threads, call'[y].at = "acked", life'[call'[y].link[2]] # "gone"
               PROVE  Stored(y)'
    BY <1>10 DEF AckedIsQueued
  <2>1. call'[y] = call[y] /\ todo'[y] = todo[y]
    BY <1>1, <1>7, <1>8
  <2>2. call[y].link[2] \in Ranks
    BY <1>2, <2>1, CallShape, LinkShape
  <2>3. life[call[y].link[2]] # "gone"
    BY <1>10, <2>1, <2>2 DEF CalmStores
  <2>4. Stored(y)
    BY <2>1, <2>3 DEF AckedIsQueued
  <2> QED
    BY <1>10, <2>1, <2>2, <2>4, CalmStored
<1> QED
  BY <1>9, <1>12, <1>18, <1>19

(* A send writes its frame: it is the only one with its sequence number,    *)
(* and nothing acknowledges it yet.                                         *)
LEMMA WriteSendKeeps ==
  ASSUME AckInv, NEW x \in Threads, WriteSend(x)
  PROVE  AckInv'
<1> USE DEF AckInv
<1> DEFINE l == call[x].link
           n == call[x].sequence
           f == [op |-> "send", sequence |-> n, tag |-> Head(todo[x]).tag,
                 body |-> Head(todo[x]).body]
<1>1. /\ UNCHANGED <<run, setup, shut, next, reader, inbox, pending, failure, todo, got, faults>>
      /\ call[x].at = "write" /\ HasRoom(l) /\ Put(l, f) /\ lock' = lock \ {l}
      /\ call' = [call EXCEPT ![x].at = "wait"]
  BY DEF WriteSend
<1>2. call \in [Threads -> CallStates] /\ call[x] \in CallStates /\ lock \subseteq Links
  BY DEF TypeOK, CallsOK, SocketsOK
<1>3. call[x] \in InSendCalls /\ l \in Links /\ n \in Nat
  BY <1>1, <1>2, CallShape
<1>4. todo[x] # <<>> /\ Head(todo[x]).do = "send" /\ n < next[l] /\ l[1] = x[1]
  BY <1>1 DEF OwnSequence
<1>5. f \in Frames /\ f.op = "send" /\ f.sequence = n /\ f.body = Head(todo[x]).body
  <2>1. Head(todo[x]).tag \in SentTags /\ Head(todo[x]).body \in SentBodies
    BY <1>4, TodoShape
  <2> QED
    BY <1>3, <2>1 DEF Frames, SendFrames
<1>6. /\ call'[x].at = "wait" /\ call'[x].link = l /\ call'[x].sequence = n
      /\ call' \in [Threads -> CallStates] /\ \A y \in Threads \ {x} : call'[y] = call[y]
  <2>1. call' = [call EXCEPT ![x] = [call[x] EXCEPT !.at = "wait"]]
    BY <1>1, <1>2
  <2>2. /\ [call[x] EXCEPT !.at = "wait"] \in InSendCalls
        /\ [call[x] EXCEPT !.at = "wait"].at = "wait"
        /\ [call[x] EXCEPT !.at = "wait"].link = l /\ [call[x] EXCEPT !.at = "wait"].sequence = n
    BY <1>3 DEF InSendCalls
  <2>3. [call[x] EXCEPT !.at = "wait"] \in CallStates
    BY <2>2 DEF CallStates
  <2> QED
    BY <2>1, <2>2, <2>3, OneCall
<1> HIDE DEF l, n, f
<1>7. /\ wire' \in [Links -> Seq(Frames)] /\ \A m \in Links : Len(wire'[m]) <= Room
      /\ DOMAIN wire[l] = 1 .. Len(wire[l]) /\ Len(wire[l]) \in Nat
      /\ DOMAIN wire'[l] = 1 .. Len(wire[l]) + 1 /\ wire'[l][Len(wire[l]) + 1] = f
      /\ \A i \in 1 .. Len(wire[l]) : wire'[l][i] = wire[l][i]
      /\ \A m \in Links \ {l} : wire'[m] = wire[m]
  BY <1>1, <1>3, <1>5, PutShape
<1>8. ASSUME NEW k \in Links, NEW i \in DOMAIN wire'[k]
      PROVE  \/ i \in DOMAIN wire[k] /\ wire'[k][i] = wire[k][i]
             \/ k = l /\ wire'[k][i] = f
  <2>1. CASE k = l
    <3>1. i \in DOMAIN wire[l] \/ i = Len(wire[l]) + 1
      BY <2>1, <1>7
    <3> QED
      BY <2>1, <3>1, <1>7
  <2>2. CASE k # l
    BY <2>2, <1>7
  <2> QED
    BY <2>1, <2>2
<1>9. TypeOK'
  <2>1. SocketsOK'
    BY <1>1, <1>2, <1>7, SocketsIntro DEF TypeOK, SocketsOK
  <2>2. CallsOK'
    BY <1>1, <1>6, CallsIntro DEF TypeOK, CallsOK
  <2> QED
    BY <1>1, <2>1, <2>2, PartsKept DEF TypeOK
<1>10. Threads' = Threads /\ Links' = Links /\ CalmStores
  BY <1>1, Fixed, CalmParts DEF setup
<1>11. ASSUME NEW y \in Threads, NEW k, NEW s, InSend(y, k, s)'
       PROVE  InSend(y, k, s) /\ (y # x => call'[y] = call[y])
  <2>1. call'[y].at \in {"write", "wait"} /\ call'[y].link = k /\ call'[y].sequence = s
    BY <1>11 DEF InSend
  <2>2. CASE y = x
    BY <2>1, <2>2, <1>1, <1>6 DEF InSend, l, n
  <2>3. CASE y # x
    BY <2>1, <2>3, <1>6 DEF InSend
  <2> QED
    BY <2>2, <2>3
<1>12. OwnSequence'
  <2>1. ASSUME NEW y \in Threads
        PROVE  /\ call'[y].at \in {"lock", "write", "wait", "acked"} =>
                    call'[y].link[1] = y[1] /\ todo'[y] # <<>> /\ Head(todo'[y]).do = "send"
               /\ call'[y].at \in {"write", "wait", "acked"} =>
                    call'[y].sequence < next'[call'[y].link]
    <3>1. CASE y = x
      BY <3>1, <1>1, <1>4, <1>6
    <3>2. CASE y # x
      BY <3>2, <1>1, <1>6 DEF OwnSequence
    <3> QED
      BY <3>1, <3>2
  <2>2. ASSUME NEW y \in Threads, NEW z \in Threads, call'[z].at \in {"write", "wait"},
               call'[y].at \in {"write", "wait"}, call'[y].link = call'[z].link,
               call'[y].sequence = call'[z].sequence
        PROVE  y = z
    <3>1. \A w \in Threads : call'[w].at \in {"write", "wait"} =>
            /\ call[w].at \in {"write", "wait"} /\ call'[w].link = call[w].link
            /\ call'[w].sequence = call[w].sequence
      BY <1>1, <1>6 DEF l, n
    <3> QED
      BY <2>2, <3>1 DEF OwnSequence, InSend
  <2>3. \A y, z \in Threads :
          call'[z].at \in {"write", "wait"} /\ InSend(y, call[z].link, call[z].sequence)' => y = z
    BY <2>2 DEF InSend
  <2> QED
    BY <1>10, <2>1, <2>3 DEF OwnSequence
<1>13. ASSUME NEW k \in Links, NEW s, Acknowledges(k, s)
       PROVE  Acknowledges(k, s)'
  <2>1. s < next'[k]
    BY <1>1, <1>13 DEF Acknowledges
  <2>2. ASSUME NEW y \in Threads, InSend(y, k, s)'
        PROVE  InSend(y, k, s) /\ call'[y] = call[y] /\ todo'[y] = todo[y]
    <3>1. InSend(y, k, s) /\ (y # x => call'[y] = call[y])
      BY <2>2, <1>11
    <3>2. call[y].at = "wait"
      BY <3>1, <1>13 DEF Acknowledges
    <3> QED
      BY <3>1, <3>2, <1>1
  <2> QED
    BY <1>1, <1>10, <1>13, <2>1, <2>2, AcknowledgesKept
<1>14. ASSUME NEW k \in Links, NEW i \in DOMAIN wire'[k], wire'[k][i].op = "send"
       PROVE  /\ wire'[k][i].sequence < next'[k]
              /\ \A y \in Threads : InSend(y, k, wire[k][i].sequence)' =>
                   call'[y].at = "wait" /\ wire'[k][i].body = Head(todo'[y]).body
  <2>1. PICK s : s = wire'[k][i].sequence
    OBVIOUS
  <2>2. CASE i \in DOMAIN wire[k] /\ wire'[k][i] = wire[k][i]
    <3>1. /\ s < next[k]
          /\ \A y \in Threads : InSend(y, k, s) =>
               call[y].at = "wait" /\ wire'[k][i].body = Head(todo[y]).body
      BY <1>14, <2>1, <2>2 DEF FramesFit
    <3>2. ASSUME NEW y \in Threads, InSend(y, k, wire[k][i].sequence)'
          PROVE  call'[y].at = "wait" /\ wire'[k][i].body = Head(todo'[y]).body
      <4>1. InSend(y, k, s)'
        BY <3>2, <2>1 DEF InSend
      <4>2. InSend(y, k, s) /\ (y # x => call'[y] = call[y])
        BY <4>1, <1>11
      <4> QED
        BY <4>2, <3>1, <1>1
    <3> QED
      BY <2>1, <3>1, <3>2, <1>1
  <2>3. CASE k = l /\ wire'[k][i] = f
    <3>1. s = n /\ wire'[k][i].body = Head(todo[x]).body
      BY <2>1, <2>3, <1>5
    <3>2. ASSUME NEW y \in Threads, InSend(y, k, wire[k][i].sequence)'
          PROVE  y = x
      <4>1. call'[y].at \in {"write", "wait"} /\ call'[y].link = l /\ call'[y].sequence = n
        BY <3>1, <3>2, <2>1, <2>3 DEF InSend
      <4>2. y # x => InSend(y, l, n)
        BY <4>1, <1>6 DEF InSend
      <4> QED
        BY <4>2, <1>1 DEF OwnSequence, l, n
    <3> QED
      BY <2>1, <2>3, <3>1, <3>2, <1>1, <1>4, <1>6
  <2> QED
    BY <1>8, <2>2, <2>3
<1>15. ASSUME NEW k \in Links, NEW i \in DOMAIN wire'[k], wire'[k][i].op = "ack"
       PROVE  Acknowledges(Reverse3(k), wire[k][i].sequence)'
  <2>1. PICK s : s = wire'[k][i].sequence
    OBVIOUS
  <2>2. i \in DOMAIN wire[k] /\ wire'[k][i] = wire[k][i]
    BY <1>5, <1>8, <1>15
  <2>3. Acknowledges(Reverse3(k), s)'
    BY <1>13, <1>15, <2>1, <2>2, LinkShape DEF FramesFit
  <2> QED
    BY <2>1, <2>3 DEF Acknowledges, InSend
<1>16. ASSUME NEW k \in Links, reader'[k].at \in {"lock", "write"}
       PROVE  Acknowledges(Reverse3(k), reader[k].sequence)'
  <2>1. PICK s : s = reader[k].sequence
    OBVIOUS
  <2>2. Acknowledges(Reverse3(k), s)'
    BY <1>1, <1>13, <1>16, <2>1, LinkShape DEF FramesFit
  <2> QED
    BY <1>1, <2>1, <2>2 DEF Acknowledges, InSend
<1>17. FramesFit'
  BY <1>10, <1>14, <1>15, <1>16 DEF FramesFit
<1>18. AckedIsQueued'
  <2> SUFFICES ASSUME NEW y \in Threads, call'[y].at = "acked", life'[call'[y].link[2]] # "gone"
               PROVE  Stored(y)'
    BY <1>10 DEF AckedIsQueued
  <2>1. call'[y] = call[y] /\ todo'[y] = todo[y]
    BY <1>1, <1>6
  <2>2. call[y].link[2] \in Ranks
    BY <1>2, <2>1, CallShape, LinkShape
  <2>3. life[call[y].link[2]] # "gone"
    BY <1>10, <2>1, <2>2 DEF CalmStores
  <2>4. Stored(y)
    BY <2>1, <2>3 DEF AckedIsQueued
  <2> QED
    BY <1>10, <2>1, <2>2, <2>4, CalmStored
<1> QED
  BY <1>9, <1>12, <1>17, <1>18

-----------------------------------------------------------------------------
(* The invariant.                                                           *)

(* It holds initially.                                                      *)
LEMMA InitAck == Init => AckInv
<1> SUFFICES ASSUME Init PROVE AckInv
  OBVIOUS
<1>1. TypeOK
  BY InitTypes
<1>2. \A x \in Threads : call[x].at = "idle"
  BY DEF Init, Idle
<1>3. \A l \in Links : wire[l] = <<>> /\ reader[l].at \in {"read", "none"}
  BY DEF Init
<1>4. OwnSequence
  BY <1>2 DEF OwnSequence
<1>5. \A l \in Links : DOMAIN wire[l] = {}
  BY <1>3
<1>6. FramesFit
  BY <1>3, <1>5 DEF FramesFit
<1>7. AckedIsQueued
  BY <1>2 DEF AckedIsQueued
<1> QED
  BY <1>1, <1>4, <1>6, <1>7 DEF AckInv

(* Every step keeps it.                                                     *)
LEMMA NextAck == AckInv /\ [Next]_vars => AckInv'
<1> SUFFICES ASSUME AckInv, [Next]_vars PROVE AckInv'
  OBVIOUS
<1>0. TypeOK
  BY DEF AckInv
<1>1. ASSUME NEW x \in Threads, ThreadStep(x) \/ UserAbort(x) \/ SendTimesOut(x) \/ ReceiveTimesOut(x)
      PROVE  AckInv'
  <2>1. CASE LockSend(x)
    BY <2>1, LockSendKeeps
  <2>2. CASE WriteSend(x)
    BY <2>2, WriteSendKeeps
  <2>3. CASE ~LockSend(x) /\ ~WriteSend(x)
    <3>1. TypeOK' /\ Calm
      BY <1>1, <2>3, StartSendKeeps, SendToSelfKeeps, FailuresKeep, SendReturnsKeeps,
         ReceiveReturnsKeeps, ReceiveMismatchKeeps, AbortSideKeeps, AbortReturnsKeeps DEF ThreadStep
    <3> QED
      BY <3>1, CalmKeeps
  <2> QED
    BY <2>1, <2>2, <2>3
<1>2. ASSUME NEW l \in Links, ReaderStep(l) \/ LeaveSide(l)
      PROVE  AckInv'
  <2>1. TypeOK' /\ Calm
    BY <1>2, ReadSendKeeps, AcksKeep, ReadAckKeeps, ReadEndKeeps, LeaveSideKeeps DEF ReaderStep
  <2> QED
    BY <2>1, CalmKeeps
<1>3. ASSUME NEW r \in Ranks, RankStep(r) \/ Crash(r) \/ SetupFails(r)
      PROVE  AckInv'
  <2>1. CASE Left(r) \/ Crash(r) \/ SetupFails(r)
    <3>1. Gone(r) /\ (faults' = faults \/ faults' = faults + 1)
      BY <2>1 DEF Left, Crash, SetupFails
    <3>2. faults' \in Nat
      BY <1>0, <3>1 DEF TypeOK, CallsOK
    <3> QED
      BY <3>1, <3>2, GoneKeeps, CalmKeeps
  <2>2. CASE ~(Left(r) \/ Crash(r) \/ SetupFails(r))
    <3>1. TypeOK' /\ Calm
      BY <1>3, <2>2, SetupKeeps, OpenKeeps, LeaveKeeps DEF RankStep
    <3> QED
      BY <3>1, CalmKeeps
  <2> QED
    BY <2>1, <2>2
<1>4. CASE UNCHANGED vars
  <2>1. TypeOK'
    BY <1>0, <1>4, PartsKept DEF TypeOK, vars, setup, sockets
  <2>2. Calm
    BY <1>0, <1>4, CalmParts DEF Calm, vars
  <2> QED
    BY <2>1, <2>2, CalmKeeps
<1>5. CASE Next
  BY <1>1, <1>2, <1>3, <1>5 DEF Next, Deadline
<1> QED
  BY <1>4, <1>5

(* A send that has its acknowledgement has its frame in the inbox of its    *)
(* destination, or a receive there has taken it: send_on_rail returns Ok    *)
(* for no frame that the reader of the peer has not queued, in spite of     *)
(* frames, acknowledgements, crashes and timeouts that cross.               *)
THEOREM AcknowledgedIsStored == Spec => []AckedIsQueued
<1>1. AckInv => AckedIsQueued
  BY DEF AckInv
<1> QED
  BY <1>1, InitAck, NextAck, PTL DEF Spec

-----------------------------------------------------------------------------
(* The table of pending acknowledgements.                                   *)

(* The entries that stay keep their calls.                                  *)
KeysKept ==
  \A r \in Ranks : life'[r] # "gone" =>
    /\ life[r] # "gone" /\ pending'[r] \subseteq pending[r]
    /\ \A t \in 1 .. run.threads :
         call[<<r, t>>].at \in {"write", "wait"}
           /\ <<call[<<r, t>>].link, call[<<r, t>>].sequence>> \in pending'[r] =>
         /\ call'[<<r, t>>].at \in {"write", "wait"}
         /\ call'[<<r, t>>].link = call[<<r, t>>].link
         /\ call'[<<r, t>>].sequence = call[<<r, t>>].sequence

(* Then the table is as it should be.                                       *)
LEMMA TableKept ==
  ASSUME PendingHaveCalls, run' = run, KeysKept
  PROVE  PendingHaveCalls'
<1>1. Ranks' = Ranks /\ run'.threads = run.threads
  BY Fixed
<1>2. ASSUME NEW r \in Ranks, life'[r] # "gone", NEW key \in pending'[r]
      PROVE  \E t \in 1 .. run.threads :
               /\ call'[<<r, t>>].at \in {"write", "wait"}
               /\ key = <<call'[<<r, t>>].link, call'[<<r, t>>].sequence>>
  <2>1. life[r] # "gone" /\ key \in pending[r]
    BY <1>2 DEF KeysKept
  <2>2. PICK t \in 1 .. run.threads :
               /\ call[<<r, t>>].at \in {"write", "wait"}
               /\ key = <<call[<<r, t>>].link, call[<<r, t>>].sequence>>
    BY <2>1 DEF PendingHaveCalls
  <2> QED
    BY <1>2, <2>2 DEF KeysKept
<1> QED
  BY <1>1, <1>2 DEF PendingHaveCalls

(* Steps that change no call and take entries from the table.               *)
LEMMA KeysOfOthers ==
  ASSUME \A r \in Ranks : life'[r] # "gone" => life[r] # "gone" /\ pending'[r] \subseteq pending[r],
         UNCHANGED call
  PROVE  KeysKept
  BY DEF KeysKept

(* Steps that change one call, which has no entry left.                     *)
LEMMA KeysOfOne ==
  ASSUME NEW x \in Threads, \A y \in Threads \ {x} : call'[y] = call[y], UNCHANGED life,
         \A r \in Ranks : pending'[r] \subseteq pending[r],
         \/ call[x].at \notin {"write", "wait"}
         \/ <<call[x].link, call[x].sequence>> \notin pending'[x[1]]
  PROVE  KeysKept
<1> SUFFICES ASSUME NEW r \in Ranks, NEW t \in 1 .. run.threads,
                    call[<<r, t>>].at \in {"write", "wait"},
                    <<call[<<r, t>>].link, call[<<r, t>>].sequence>> \in pending'[r]
             PROVE  call'[<<r, t>>] = call[<<r, t>>]
  BY DEF KeysKept
<1>1. <<r, t>> \in Threads
  BY DEF Threads
<1>2. <<r, t>> # x
  <2> SUFFICES ASSUME <<r, t>> = x PROVE FALSE
    OBVIOUS
  <2>1. x[1] = r
    OBVIOUS
  <2> QED
    BY <2>1
<1> QED
  BY <1>1, <1>2

(* The steps of the threads.                                                *)
LEMMA ThreadTable ==
  ASSUME AckInv, PendingHaveCalls, NEW x \in Threads,
         ThreadStep(x) \/ UserAbort(x) \/ SendTimesOut(x) \/ ReceiveTimesOut(x)
  PROVE  PendingHaveCalls'
<1> USE DEF AckInv
<1>0. /\ x[1] \in Ranks /\ x[2] \in 1 .. run.threads /\ x = <<x[1], x[2]>>
      /\ pending \in [Ranks -> SUBSET (Links \X Nat)]
      /\ call \in [Threads -> CallStates] /\ call[x] \in CallStates
  BY ThreadShape DEF TypeOK, TablesOK, CallsOK
<1>1. CASE StartSend(x) \/ SendToSelf(x) \/ SendReturns(x) \/ ReceiveReturns(x) \/ AbortReturns(x)
  <2>1. /\ UNCHANGED <<run, setup, pending>> /\ call[x].at \notin {"write", "wait"}
        /\ \A y \in Threads \ {x} : call'[y] = call[y]
    <3>1. Fails(x) \/ Returns(x) => \A y \in Threads \ {x} : call'[y] = call[y]
      BY <1>0 DEF Fails, Returns
    <3>2. CASE StartSend(x)
      BY <1>0, <3>1, <3>2 DEF StartSend, Begins, Idle
    <3>3. CASE SendToSelf(x) \/ ReceiveReturns(x)
      BY <3>1, <3>3 DEF SendToSelf, ReceiveReturns, Begins, Idle
    <3>4. CASE SendReturns(x)
      BY <3>1, <3>4 DEF SendReturns
    <3>5. CASE AbortReturns(x)
      BY <1>0, <3>5 DEF AbortReturns
    <3> QED
      BY <1>1, <3>2, <3>3, <3>4, <3>5
  <2>2. KeysKept
    BY <2>1, KeysOfOne DEF setup
  <2> QED
    BY <2>1, <2>2, TableKept
<1>2. CASE \/ WriteSendFails(x) \/ SendTimesOut(x) \/ ReceiveTimesOut(x) \/ UserAbort(x)
           \/ AbortSide(x) \/ ReceiveMismatch(x)
  <2>1. UNCHANGED <<run, setup>> /\ SetPeerFailure(x[1])
    BY <1>2 DEF WriteSendFails, SendTimesOut, ReceiveTimesOut, UserAbort, AbortSide, ReceiveMismatch
  <2>2. \A y \in Threads \ {x} : call'[y] = call[y]
    BY <1>0, <1>2 DEF WriteSendFails, SendTimesOut, ReceiveTimesOut, UserAbort, AbortSide,
                      ReceiveMismatch, Fails
  <2>3. pending'[x[1]] = {} /\ \A p \in Ranks \ {x[1]} : pending'[p] = pending[p]
    BY <1>0, <2>1, FailureShape
  <2>4. KeysKept
    BY <2>1, <2>2, <2>3, KeysOfOne DEF setup
  <2> QED
    BY <2>1, <2>4, TableKept
<1>3. CASE SendSeesFailure(x)
  <2>1. /\ UNCHANGED <<run, setup>> /\ Fails(x)
        /\ pending' = [pending EXCEPT ![x[1]] = @ \ {<<call[x].link, call[x].sequence>>}]
    BY <1>3 DEF SendSeesFailure
  <2>2. \A y \in Threads \ {x} : call'[y] = call[y]
    BY <1>0, <2>1 DEF Fails
  <2>3. KeysKept
    BY <1>0, <2>1, <2>2, KeysOfOne DEF setup
  <2> QED
    BY <2>1, <2>3, TableKept
<1>4. CASE WriteSend(x)
  <2>1. UNCHANGED <<run, setup, pending>> /\ call[x].at = "write" /\ call' = [call EXCEPT ![x].at = "wait"]
    BY <1>4 DEF WriteSend
  <2>2. call[x] \in InSendCalls
    BY <1>0, <2>1, CallShape
  <2>3. /\ call'[x].at = "wait" /\ call'[x].link = call[x].link /\ call'[x].sequence = call[x].sequence
        /\ \A y \in Threads \ {x} : call'[y] = call[y]
    BY <1>0, <2>1, <2>2 DEF InSendCalls
  <2>4. \A r \in Ranks : \A t \in 1 .. run.threads : <<r, t>> \in Threads
    BY DEF Threads
  <2>5. KeysKept
    BY <2>1, <2>3, <2>4 DEF KeysKept, setup
  <2> QED
    BY <2>1, <2>5, TableKept
<1>5. CASE LockSend(x)
  <2> DEFINE l == call[x].link
             n == next[l]
  <2>1. /\ UNCHANGED <<run, setup>> /\ call[x].at = "lock"
        /\ pending' = [pending EXCEPT ![x[1]] = @ \cup {<<l, n>>}]
        /\ call' = [call EXCEPT ![x] = [at |-> "write", link |-> l, sequence |-> n]]
    BY <1>5 DEF LockSend
  <2> HIDE DEF l, n
  <2>2. /\ call'[x].at = "write" /\ call'[x].link = l /\ call'[x].sequence = n
        /\ \A y \in Threads \ {x} : call'[y] = call[y]
    BY <1>0, <2>1
  <2>3. ASSUME NEW r \in Ranks, life'[r] # "gone", NEW key \in pending'[r]
        PROVE  \E t \in 1 .. run.threads :
                 /\ call'[<<r, t>>].at \in {"write", "wait"}
                 /\ key = <<call'[<<r, t>>].link, call'[<<r, t>>].sequence>>
    <3>1. CASE r = x[1] /\ key = <<l, n>>
      BY <1>0, <2>2, <3>1
    <3>2. CASE key \in pending[r]
      <4>1. PICK t \in 1 .. run.threads :
                   /\ call[<<r, t>>].at \in {"write", "wait"}
                   /\ key = <<call[<<r, t>>].link, call[<<r, t>>].sequence>>
        BY <2>1, <2>3, <3>2 DEF PendingHaveCalls, setup
      <4>2. <<r, t>> \in Threads /\ <<r, t>> # x
        BY <2>1, <4>1 DEF Threads
      <4>3. call'[<<r, t>>] = call[<<r, t>>]
        BY <2>2, <4>2
      <4> QED
        BY <4>1, <4>3
    <3>3. key \in pending[r] \/ (r = x[1] /\ key = <<l, n>>)
      BY <1>0, <2>1, <2>3
    <3> QED
      BY <3>1, <3>2, <3>3
  <2>4. Ranks' = Ranks /\ run'.threads = run.threads
    BY <2>1, Fixed
  <2> QED
    BY <2>3, <2>4 DEF PendingHaveCalls
<1> QED
  BY <1>1, <1>2, <1>3, <1>4, <1>5 DEF ThreadStep

(* The steps of the readers and of the ranks.                               *)
LEMMA OtherTable ==
  ASSUME AckInv, PendingHaveCalls,
         \/ \E l \in Links : ReaderStep(l) \/ LeaveSide(l)
         \/ \E r \in Ranks : RankStep(r) \/ Crash(r) \/ SetupFails(r)
         \/ UNCHANGED vars
  PROVE  PendingHaveCalls'
<1> USE DEF AckInv
<1>0. /\ pending \in [Ranks -> SUBSET (Links \X Nat)] /\ call \in [Threads -> CallStates]
      /\ life \in [Ranks -> {"setup", "open", "leaving", "gone"}]
  BY DEF TypeOK, TablesOK, CallsOK, SetupOK
<1>1. ASSUME NEW l \in Links, WriteAckFails(l) \/ ReadEnd(l)
      PROVE  PendingHaveCalls'
  <2>1. UNCHANGED <<run, setup, call>> /\ SetPeerFailure(l[1]) /\ l[1] \in Ranks
    BY <1>1, LinkShape DEF WriteAckFails, ReadEnd
  <2>2. pending'[l[1]] = {} /\ \A p \in Ranks \ {l[1]} : pending'[p] = pending[p]
    BY <2>1, FailureShape
  <2>3. KeysKept
    BY <2>1, <2>2, KeysOfOthers DEF setup
  <2> QED
    BY <2>1, <2>3, TableKept
<1>2. ASSUME NEW l \in Links, ReadSend(l) \/ LockAck(l) \/ WriteAck(l) \/ LeaveSide(l)
      PROVE  PendingHaveCalls'
  <2>1. UNCHANGED <<run, setup, call, pending>>
    BY <1>2 DEF ReadSend, LockAck, WriteAck, LeaveSide
  <2> QED
    BY <2>1, KeysOfOthers, TableKept DEF setup
<1>3. ASSUME NEW l \in Links, ReadAck(l)
      PROVE  PendingHaveCalls'
  <2> DEFINE keys == AckKey(l, Head(In(l)).sequence) \cap pending[l[1]]
  <2>1. /\ UNCHANGED <<run, setup>> /\ pending' = [pending EXCEPT ![l[1]] = @ \ keys]
        /\ call' = [x \in Threads |-> IF x[1] = l[1] /\ call[x].at = "wait"
                                         /\ <<call[x].link, call[x].sequence>> \in keys
                                      THEN [call[x] EXCEPT !.at = "acked"] ELSE call[x]]
    BY <1>3 DEF ReadAck
  <2> HIDE DEF keys
  <2>2. \A r \in Ranks : pending'[r] \subseteq pending[r] /\ (r = l[1] => pending'[r] = pending[r] \ keys)
    BY <1>0, <2>1
  <2>3. ASSUME NEW r \in Ranks, NEW t \in 1 .. run.threads,
               <<call[<<r, t>>].link, call[<<r, t>>].sequence>> \in pending'[r]
        PROVE  call'[<<r, t>>] = call[<<r, t>>]
    <3>1. <<r, t>> \in Threads /\ <<r, t>>[1] = r
      BY DEF Threads
    <3>2. ~(r = l[1] /\ <<call[<<r, t>>].link, call[<<r, t>>].sequence>> \in keys)
      BY <2>2, <2>3
    <3> QED
      BY <2>1, <3>1, <3>2
  <2>4. KeysKept
    BY <2>1, <2>2, <2>3 DEF KeysKept, setup
  <2> QED
    BY <2>1, <2>4, TableKept
<1>4. ASSUME NEW r \in Ranks, Dial(r) \/ Accept(r) \/ Ready(r) \/ Open(r) \/ Leave(r)
      PROVE  PendingHaveCalls'
  <2>1. UNCHANGED <<run, call, pending>>
    BY <1>4 DEF Dial, Accept, Ready, Open, Leave
  <2>2. \A p \in Ranks : life'[p] # "gone" => life[p] # "gone"
    <3>1. life' = life \/ (life[r] # "gone" /\ \E s : life' = [life EXCEPT ![r] = s])
      BY <1>4 DEF Dial, Accept, Ready, Open, Leave
    <3> QED
      BY <1>0, <3>1
  <2> QED
    BY <2>1, <2>2, KeysOfOthers, TableKept
<1>5. ASSUME NEW r \in Ranks, Gone(r)
      PROVE  PendingHaveCalls'
  <2>1. /\ UNCHANGED run /\ life' = [life EXCEPT ![r] = "gone"]
        /\ pending' = [pending EXCEPT ![r] = {}]
        /\ call' = [x \in Threads |-> IF x[1] = r THEN Idle ELSE call[x]]
    BY <1>5 DEF Gone
  <2>2. ASSUME NEW p \in Ranks, life'[p] # "gone"
        PROVE  /\ life[p] # "gone" /\ pending'[p] = pending[p]
               /\ \A t \in 1 .. run.threads : call'[<<p, t>>] = call[<<p, t>>]
    <3>1. p # r
      BY <1>0, <2>1, <2>2
    <3>2. \A t \in 1 .. run.threads : <<p, t>> \in Threads /\ <<p, t>>[1] # r
      BY <3>1 DEF Threads
    <3> QED
      BY <1>0, <2>1, <2>2, <3>1, <3>2
  <2>3. KeysKept
    BY <2>2 DEF KeysKept
  <2> QED
    BY <2>1, <2>3, TableKept
<1>6. CASE UNCHANGED vars
  BY <1>6, KeysOfOthers, TableKept DEF vars
<1> QED
  BY <1>1, <1>2, <1>3, <1>4, <1>5, <1>6
     DEF ReaderStep, RankStep, Left, Crash, SetupFails

(* The state has its shape, no socket holds more than its buffers take, and *)
(* the table of pending acknowledgements has an entry only for a call that  *)
(* is still in send_on_rail: no failure, timeout or late answer leaves one  *)
(* behind for a sequence number.                                            *)
THEOREM TableMatchesCalls == Spec => []Consistent
<1>1. Init => AckInv /\ PendingHaveCalls
  <2>1. Init => PendingHaveCalls
    BY DEF Init, PendingHaveCalls
  <2> QED
    BY <2>1, InitAck
<1>2. AckInv /\ PendingHaveCalls /\ [Next]_vars => AckInv' /\ PendingHaveCalls'
  <2> SUFFICES ASSUME AckInv, PendingHaveCalls, [Next]_vars PROVE PendingHaveCalls'
    BY NextAck
  <2>1. CASE \E x \in Threads : ThreadStep(x) \/ UserAbort(x) \/ SendTimesOut(x) \/ ReceiveTimesOut(x)
    BY <2>1, ThreadTable
  <2>2. CASE \/ \E l \in Links : ReaderStep(l) \/ LeaveSide(l)
             \/ \E r \in Ranks : RankStep(r) \/ Crash(r) \/ SetupFails(r)
             \/ UNCHANGED vars
    BY <2>2, OtherTable
  <2> QED
    BY <2>1, <2>2 DEF Next, Deadline
<1>3. AckInv /\ PendingHaveCalls => Consistent
  BY DEF AckInv, Consistent
<1> QED
  BY <1>1, <1>2, <1>3, PTL DEF Spec

(* f lists, for each prefix of s up to length n, its elements with value v  *)
(* in field g.                                                              *)
Lists(f, n, s, g, v) ==
  f = [k \in 0 .. n |-> IF k = 0 THEN <<>>
                        ELSE IF s[k][g] = v THEN Append(f[k - 1], s[k]) ELSE f[k - 1]]

(* There is such a list: by a least length that has none.                   *)
LEMMA ListExists ==
  ASSUME NEW s, NEW g, NEW v, NEW n \in Nat
  PROVE  \E f : Lists(f, n, s, g, v)
<1> DEFINE Bad == {m \in Nat : ~ \E f : Lists(f, m, s, g, v)}
<1> SUFFICES ASSUME Bad # {} PROVE FALSE
  OBVIOUS
<1>1. PICK m \in Bad : \A y \in Bad : m <= y
  BY LeastElement
<1>2. CASE m = 0
  <2> DEFINE f == [k \in 0 .. 0 |-> <<>>]
  <2>1. Lists(f, 0, s, g, v)
    BY DEF Lists
  <2> QED
    BY <1>2, <2>1
<1>3. CASE m # 0
  <2>1. m - 1 \in Nat /\ m \in Nat
    BY <1>3
  <2>2. PICK f : Lists(f, m - 1, s, g, v)
    BY <1>1, <2>1
  <2> DEFINE last == IF s[m][g] = v THEN Append(f[m - 1], s[m]) ELSE f[m - 1]
             h == [k \in 0 .. m |-> IF k = m THEN last ELSE f[k]]
  <2>3. \A k \in 0 .. m - 1 : h[k] = f[k]
    BY <2>1
  <2>4. h[m] = last
    BY <2>1
  <2>5. ASSUME NEW k \in 0 .. m
        PROVE  h[k] = IF k = 0 THEN <<>>
                      ELSE IF s[k][g] = v THEN Append(h[k - 1], s[k]) ELSE h[k - 1]
    <3> HIDE DEF h
    <3>1. CASE k = m
      BY <3>1, <1>3, <2>1, <2>3, <2>4
    <3>2. CASE k # m
      <4>1. k \in 0 .. m - 1 /\ (k # 0 => k - 1 \in 0 .. m - 1)
        BY <3>2, <2>1
      <4>2. f[k] = IF k = 0 THEN <<>>
                   ELSE IF s[k][g] = v THEN Append(f[k - 1], s[k]) ELSE f[k - 1]
        BY <2>2, <4>1 DEF Lists
      <4> QED
        BY <4>1, <4>2, <2>3
    <3> QED
      BY <3>1, <3>2
  <2>6. Lists(h, m, s, g, v)
    BY <2>5 DEF Lists
  <2> QED
    BY <2>6
<1> QED
  BY <1>2, <1>3

(* Two lists agree as far as the sequences do.                              *)
LEMMA ListsAgree ==
  ASSUME NEW s, NEW t, NEW g, NEW v, NEW n \in Nat, NEW m \in Nat, n <= m,
         NEW f, NEW h, Lists(f, n, s, g, v), Lists(h, m, t, g, v),
         \A k \in 1 .. n : s[k] = t[k]
  PROVE  \A k \in 0 .. n : f[k] = h[k]
<1> DEFINE Bad == {k \in 0 .. n : f[k] # h[k]}
<1> SUFFICES ASSUME Bad # {} PROVE FALSE
  OBVIOUS
<1>0. Bad \in SUBSET Nat
  OBVIOUS
<1>1. PICK k \in Bad : \A y \in Bad : k <= y
  BY <1>0, LeastElement
<1>2. /\ f[k] = IF k = 0 THEN <<>> ELSE IF s[k][g] = v THEN Append(f[k - 1], s[k]) ELSE f[k - 1]
      /\ h[k] = IF k = 0 THEN <<>> ELSE IF t[k][g] = v THEN Append(h[k - 1], t[k]) ELSE h[k - 1]
  <2>1. k \in 0 .. n /\ k \in 0 .. m
    OBVIOUS
  <2> QED
    BY <2>1 DEF Lists
<1>3. k # 0
  BY <1>2
<1>4. k - 1 \in 0 .. n /\ k \in 1 .. n /\ ~(k <= k - 1)
  BY <1>3
<1>5. f[k - 1] = h[k - 1]
  BY <1>1, <1>4
<1> QED
  BY <1>2, <1>3, <1>4, <1>5

(* What Only computes.                                                      *)
LEMMA OnlyListed ==
  ASSUME NEW s, NEW g, NEW v, Len(s) \in Nat
  PROVE  \E f : Lists(f, Len(s), s, g, v) /\ Only(s, g, v) = f[Len(s)]
<1>1. PICK f : Lists(f, Len(s), s, g, v)
  BY ListExists
<1> QED
  BY <1>1 DEF Lists, Only

(* Nothing is kept of nothing.                                             *)
LEMMA OnlyEmpty ==
  ASSUME NEW g, NEW v PROVE Only(<<>>, g, v) = <<>>
<1>1. Len(<<>>) = 0
  OBVIOUS
<1>2. PICK f : Lists(f, 0, <<>>, g, v) /\ Only(<<>>, g, v) = f[0]
  BY <1>1, OnlyListed
<1> QED
  BY <1>2 DEF Lists

(* What is appended is kept if it has the value.                            *)
LEMMA OnlyAppend ==
  ASSUME NEW T, NEW s \in Seq(T), NEW e \in T, NEW g, NEW v
  PROVE  Only(Append(s, e), g, v) = IF e[g] = v THEN Append(Only(s, g, v), e) ELSE Only(s, g, v)
<1> DEFINE a == Append(s, e)  n == Len(s)
<1>1. Len(a) = n + 1 /\ n \in Nat /\ n + 1 \in Nat /\ a[n + 1] = e
  OBVIOUS
<1>2. \A k \in 1 .. n : s[k] = a[k]
  OBVIOUS
<1> HIDE DEF a, n
<1>3. PICK f : Lists(f, n, s, g, v) /\ Only(s, g, v) = f[n]
  BY <1>1, OnlyListed DEF n
<1>4. PICK h : Lists(h, n + 1, a, g, v) /\ Only(a, g, v) = h[n + 1]
  BY <1>1, OnlyListed
<1>5. f[n] = h[n]
  <2>1. n <= n + 1 /\ n \in 0 .. n
    BY <1>1
  <2>2. \A k \in 0 .. n : f[k] = h[k]
    <3> DEFINE m == n + 1
    <3>1. Lists(f, n, s, g, v)
      BY <1>3
    <3>2. Lists(h, m, a, g, v)
      BY <1>4
    <3>3. m \in Nat /\ n \in Nat /\ n <= m
      BY <1>1, <2>1
    <3> HIDE DEF m
    <3> QED
      BY <1>2, <3>1, <3>2, <3>3, ListsAgree
  <2> QED
    BY <2>1, <2>2
<1>6. h[n + 1] = IF a[n + 1][g] = v THEN Append(h[n], a[n + 1]) ELSE h[n]
  <2>1. n + 1 \in 0 .. n + 1 /\ n + 1 # 0 /\ (n + 1) - 1 = n
    BY <1>1
  <2> QED
    BY <1>4, <2>1 DEF Lists
<1> QED
  BY <1>1, <1>3, <1>4, <1>5, <1>6 DEF a

(* A sequence that is not empty is one with its last element appended.      *)
LEMMA LastApart ==
  ASSUME NEW T, NEW s \in Seq(T), s # <<>>
  PROVE  \E r \in Seq(T) : \E e \in T : s = Append(r, e) /\ Len(s) = Len(r) + 1
<1> DEFINE r == SubSeq(s, 1, Len(s) - 1)  e == s[Len(s)]
<1>0. Len(s) \in Nat /\ Len(s) # 0
  OBVIOUS
<1>1. e \in T
  BY <1>0
<1>2. r \in Seq(T)
  BY <1>0
<1>3. Len(s) = Len(r) + 1
  <2>1. Len(s) - 1 \in Nat /\ Len(s) - 1 <= Len(s)
    BY <1>0
  <2>2. Len(r) = Len(s) - 1
    <3>1. ASSUME NEW n \in Nat, n <= Len(s) PROVE Len(SubSeq(s, 1, n)) = n
      BY <3>1
    <3> QED
      BY <2>1, <3>1
  <2> QED
    BY <1>0, <2>2
<1>4. s = Append(r, e)
  BY <1>0
<1> QED
  BY <1>1, <1>2, <1>3, <1>4

(* What is kept are elements of the sequence that have the value.           *)
LEMMA OnlyRange ==
  ASSUME NEW T, NEW s \in Seq(T), NEW g, NEW v
  PROVE  /\ Only(s, g, v) \in Seq(T)
         /\ \A i \in DOMAIN Only(s, g, v) :
              Only(s, g, v)[i][g] = v /\ \E j \in DOMAIN s : Only(s, g, v)[i] = s[j]
<1> DEFINE P(t) == /\ Only(t, g, v) \in Seq(T)
                   /\ \A i \in DOMAIN Only(t, g, v) :
                        Only(t, g, v)[i][g] = v /\ \E j \in DOMAIN t : Only(t, g, v)[i] = t[j]
           Bad == {n \in Nat : \E t \in Seq(T) : Len(t) = n /\ ~P(t)}
<1>0. SUFFICES Bad = {}
  <2>1. ASSUME ~P(s) PROVE Bad # {}
    <3>1. Len(s) \in Nat
      OBVIOUS
    <3> HIDE DEF P
    <3> QED
      BY <2>1, <3>1
  <2> QED
    BY <2>1
<1>1. SUFFICES ASSUME Bad # {} PROVE FALSE
  OBVIOUS
<1>2. PICK m \in Bad : \A y \in Bad : m <= y
  BY <1>1, LeastElement
<1>3. PICK t \in Seq(T) : Len(t) = m /\ ~P(t)
  OBVIOUS
<1>4. t # <<>>
  BY <1>3, OnlyEmpty
<1>5. PICK r \in Seq(T), e \in T : t = Append(r, e) /\ Len(t) = Len(r) + 1
  BY <1>4, LastApart
<1>6. P(r)
  <2>1. Len(r) \in Nat /\ ~(m <= Len(r))
    BY <1>3, <1>5
  <2>2. Len(r) \notin Bad
    BY <1>2, <2>1
  <2> HIDE DEF P
  <2> QED
    BY <2>1, <2>2
<1>7. /\ DOMAIN t = 1 .. Len(r) + 1 /\ t[Len(r) + 1] = e
      /\ \A j \in DOMAIN r : j \in DOMAIN t /\ t[j] = r[j]
  BY <1>5
<1>8. CASE e[g] = v
  <2> DEFINE o == Only(r, g, v)
  <2>1. Only(t, g, v) = Append(o, e)
    BY <1>5, <1>8, OnlyAppend
  <2>2. o \in Seq(T)
    BY <1>6
  <2>3. \A i \in DOMAIN o : o[i][g] = v /\ \E j \in DOMAIN r : o[i] = r[j]
    BY <1>6
  <2> HIDE DEF o
  <2>4. /\ Append(o, e) \in Seq(T) /\ DOMAIN Append(o, e) = 1 .. Len(o) + 1
        /\ Append(o, e)[Len(o) + 1] = e
        /\ \A i \in 1 .. Len(o) : Append(o, e)[i] = o[i]
        /\ DOMAIN o = 1 .. Len(o) /\ Len(o) \in Nat
    BY <2>2
  <2>5. ASSUME NEW i \in DOMAIN Append(o, e)
        PROVE  Append(o, e)[i][g] = v /\ \E j \in DOMAIN t : Append(o, e)[i] = t[j]
    <3>1. CASE i = Len(o) + 1
      <4>1. Len(r) + 1 \in DOMAIN t
        BY <1>7
      <4> QED
        BY <4>1, <3>1, <2>4, <1>7, <1>8
    <3>2. CASE i # Len(o) + 1
      <4>1. i \in 1 .. Len(o)
        BY <3>2, <2>4
      <4> QED
        BY <4>1, <2>3, <2>4, <1>7
    <3> QED
      BY <3>1, <3>2
  <2> QED
    BY <1>3, <2>1, <2>4, <2>5
<1>9. CASE e[g] # v
  <2>1. Only(t, g, v) = Only(r, g, v)
    BY <1>5, <1>9, OnlyAppend
  <2> QED
    BY <1>3, <1>6, <1>7, <2>1
<1> QED
  BY <1>8, <1>9

(* Of two sequences one after the other.                                    *)
LEMMA OnlyConcat ==
  ASSUME NEW T, NEW s \in Seq(T), NEW u \in Seq(T), NEW g, NEW v
  PROVE  Only(s \o u, g, v) = Only(s, g, v) \o Only(u, g, v)
<1>a. ASSUME NEW b \in Seq(T) PROVE s \o b \in Seq(T)
  OBVIOUS
<1>b. ASSUME NEW b \in Seq(T), NEW e \in T PROVE Append(s \o b, e) = s \o Append(b, e)
  <2> DEFINE n == Len(s) + Len(b)  x == Append(s \o b, e)  y == s \o Append(b, e)
  <2>1. n \in Nat /\ x \in Seq(T) /\ y \in Seq(T) /\ Len(x) = n + 1 /\ Len(y) = n + 1
    OBVIOUS
  <2>2. ASSUME NEW i \in 1 .. n + 1 PROVE x[i] = y[i]
    OBVIOUS
  <2> HIDE DEF x, y, n
  <2>3. x = y
    BY <2>1, <2>2
  <2> QED
    BY <2>3 DEF x, y
<1> DEFINE P(t) == Only(s \o t, g, v) = Only(s, g, v) \o Only(t, g, v)
           Bad == {n \in Nat : \E t \in Seq(T) : Len(t) = n /\ ~P(t)}
<1>0. SUFFICES Bad = {}
  <2>1. ASSUME ~P(u) PROVE Bad # {}
    <3>1. Len(u) \in Nat
      OBVIOUS
    <3> HIDE DEF P
    <3> QED
      BY <2>1, <3>1
  <2> QED
    BY <2>1
<1>1. SUFFICES ASSUME Bad # {} PROVE FALSE
  OBVIOUS
<1>2. PICK m \in Bad : \A y \in Bad : m <= y
  BY <1>1, LeastElement
<1>3. PICK t \in Seq(T) : Len(t) = m /\ ~P(t)
  OBVIOUS
<1>o. Only(s, g, v) \in Seq(T)
  BY OnlyRange
<1>4. t # <<>>
  <2>1. s \o <<>> = s /\ Only(s, g, v) \o <<>> = Only(s, g, v)
    BY <1>o
  <2> QED
    BY <1>3, <2>1, OnlyEmpty
<1>5. PICK r \in Seq(T), e \in T : t = Append(r, e) /\ Len(t) = Len(r) + 1
  BY <1>4, LastApart
<1>6. P(r)
  <2>1. Len(r) \in Nat /\ ~(m <= Len(r))
    BY <1>3, <1>5
  <2>2. Len(r) \notin Bad
    BY <1>2, <2>1
  <2> HIDE DEF P
  <2> QED
    BY <2>1, <2>2
<1> DEFINE q == s \o r
<1>7. s \o t = Append(q, e) /\ q \in Seq(T)
  <2> HIDE DEF Bad, P
  <2>1. q \in Seq(T)
    BY <1>a
  <2>2. Append(s \o r, e) = s \o Append(r, e)
    BY <1>b
  <2> QED
    BY <1>5, <2>1, <2>2
<1> HIDE DEF q
<1>8. Only(s \o t, g, v) = IF e[g] = v THEN Append(Only(q, g, v), e) ELSE Only(q, g, v)
  BY <1>7, OnlyAppend
<1>9. Only(t, g, v) = IF e[g] = v THEN Append(Only(r, g, v), e) ELSE Only(r, g, v)
  BY <1>5, OnlyAppend
<1>10. Only(r, g, v) \in Seq(T)
  BY OnlyRange
<1>11. Append(Only(s, g, v) \o Only(r, g, v), e) = Only(s, g, v) \o Append(Only(r, g, v), e)
  <2> DEFINE a == Only(s, g, v)  b == Only(r, g, v)
  <2>1. a \in Seq(T) /\ b \in Seq(T)
    BY <1>o, <1>10
  <2> HIDE DEF Bad, P, a, b
  <2>2. Append(a \o b, e) = a \o Append(b, e)
    BY <2>1
  <2> QED
    BY <2>2 DEF a, b
<1>12. Only(q, g, v) = Only(s, g, v) \o Only(r, g, v)
  BY <1>6 DEF q
<1> QED
  BY <1>3, <1>8, <1>9, <1>11, <1>12

(* Of one element.                                                          *)
LEMMA OnlyOne ==
  ASSUME NEW T, NEW e \in T, NEW g, NEW v
  PROVE  Only(<<e>>, g, v) = IF e[g] = v THEN <<e>> ELSE <<>>
<1>1. ASSUME NEW z \in Seq(T), NEW o, o = Append(z, e)
      PROVE  Only(o, g, v) = IF e[g] = v THEN Append(Only(z, g, v), e) ELSE Only(z, g, v)
  BY <1>1, OnlyAppend
<1>2. <<>> \in Seq(T) /\ Append(<<>>, e) = <<e>>
  OBVIOUS
<1> DEFINE z == <<>>  o == <<e>>
<1>3. z \in Seq(T) /\ o = Append(z, e) /\ Only(z, g, v) = z
  BY <1>2, OnlyEmpty
<1> HIDE DEF z, o
<1>4. Only(o, g, v) = IF e[g] = v THEN Append(z, e) ELSE z
  BY <1>1, <1>3
<1> QED
  BY <1>3, <1>4 DEF z, o

(* The messages of a sequence of frames.                                    *)
Messages == [tag : SentTags, body : SentBodies]
Named == {f \in Frames \cup Letters : f.tag \in SentTags /\ f.body \in SentBodies}
Message(f) == [tag |-> f.tag, body |-> f.body]

(* Contents takes the elements one by one.                                  *)
LEMMA ContentsShape ==
  ASSUME NEW s \in Seq(Named)
  PROVE  /\ Contents(s) \in Seq(Messages) /\ Len(Contents(s)) = Len(s)
         /\ \A i \in 1 .. Len(s) : Contents(s)[i] = Message(s[i])
<1>1. DOMAIN s = 1 .. Len(s) /\ Len(s) \in Nat /\ \A i \in 1 .. Len(s) : s[i] \in Named
  OBVIOUS
<1>2. \A i \in 1 .. Len(s) : Message(s[i]) \in Messages
  BY <1>1 DEF Named, Messages, Message
<1>3. Contents(s) = [i \in 1 .. Len(s) |-> Message(s[i])]
  BY <1>1 DEF Contents, Message
<1> HIDE DEF Messages, Message, Named
<1> QED
  BY <1>1, <1>2, <1>3

(* Of two sequences,                                                        *)
LEMMA ContentsConcat ==
  ASSUME NEW s \in Seq(Named), NEW t \in Seq(Named)
  PROVE  Contents(s \o t) = Contents(s) \o Contents(t)
<1> DEFINE x == Contents(s \o t)  a == Contents(s)  b == Contents(t)
<1>1. /\ s \o t \in Seq(Named) /\ Len(s \o t) = Len(s) + Len(t)
      /\ \A i \in 1 .. Len(s) + Len(t) : (s \o t)[i] = IF i <= Len(s) THEN s[i] ELSE t[i - Len(s)]
  <2> HIDE DEF Named
  <2> QED
    OBVIOUS
<1>2. /\ a \in Seq(Messages) /\ Len(a) = Len(s) /\ \A i \in 1 .. Len(s) : a[i] = Message(s[i])
      /\ b \in Seq(Messages) /\ Len(b) = Len(t) /\ \A i \in 1 .. Len(t) : b[i] = Message(t[i])
  BY ContentsShape
<1>3. /\ x \in Seq(Messages) /\ Len(x) = Len(s) + Len(t)
      /\ \A i \in 1 .. Len(s) + Len(t) : x[i] = Message((s \o t)[i])
  BY <1>1, ContentsShape
<1>4. Len(s) \in Nat /\ Len(t) \in Nat
  OBVIOUS
<1> HIDE DEF x, a, b, Messages, Message, Named
<1>5. ASSUME NEW i \in 1 .. Len(s) + Len(t) PROVE x[i] = (a \o b)[i]
  <2>1. (a \o b)[i] = IF i <= Len(a) THEN a[i] ELSE b[i - Len(a)]
    BY <1>2, <1>4
  <2>2. CASE i <= Len(s)
    <3>1. i \in 1 .. Len(s)
      BY <2>2, <1>4
    <3> QED
      BY <2>1, <2>2, <3>1, <1>1, <1>2, <1>3
  <2>3. CASE ~(i <= Len(s))
    <3>1. i - Len(s) \in 1 .. Len(t)
      BY <2>3, <1>4
    <3> QED
      BY <2>1, <2>3, <3>1, <1>1, <1>2, <1>3
  <2> QED
    BY <2>2, <2>3
<1>6. a \o b \in Seq(Messages) /\ Len(a \o b) = Len(s) + Len(t)
  <2>1. a \in Seq(Messages) /\ b \in Seq(Messages)
    BY <1>2
  <2>2. Len(a \o b) = Len(a) + Len(b)
    BY <2>1
  <2>3. a \o b \in Seq(Messages)
    BY <2>1
  <2> QED
    BY <1>2, <2>2, <2>3
<1>7. x = a \o b
  BY <1>3, <1>5, <1>6
<1> QED
  BY <1>7 DEF x, a, b

(* of none and of one.                                                      *)
LEMMA ContentsOne ==
  /\ Contents(<<>>) = <<>>
  /\ \A f : Contents(<<f>>) = <<Message(f)>>
<1>1. Contents(<<>>) = <<>>
  BY DEF Contents
<1>2. ASSUME NEW f PROVE Contents(<<f>>) = <<Message(f)>>
  BY DEF Contents, Message
<1> QED
  BY <1>1, <1>2

(* The letters of the inbox of l[2] that came over l.                       *)
Over(s, l) == Only(Only(s, "from", l[1]), "rail", l[3])

(* What is kept of an inbox,                                                *)
LEMMA OverShape ==
  ASSUME NEW s \in Seq(Letters), NEW l
  PROVE  /\ Over(s, l) \in Seq(Letters)
         /\ \A i \in DOMAIN Over(s, l) :
              /\ Over(s, l)[i].from = l[1] /\ Over(s, l)[i].rail = l[3]
              /\ \E j \in DOMAIN s : Over(s, l)[i] = s[j]
<1> DEFINE a == Only(s, "from", l[1])  b == Only(a, "rail", l[3])
<1>1. a \in Seq(Letters) /\ \A i \in DOMAIN a : a[i]["from"] = l[1] /\ \E j \in DOMAIN s : a[i] = s[j]
  BY OnlyRange
<1>2. b \in Seq(Letters) /\ \A i \in DOMAIN b : b[i]["rail"] = l[3] /\ \E j \in DOMAIN a : b[i] = a[j]
  <2> HIDE DEF a
  <2> QED
    BY <1>1, OnlyRange
<1>3. Over(s, l) = b
  BY DEF Over
<1> HIDE DEF a, b, Letters
<1> QED
  BY <1>1, <1>2, <1>3

(* of two parts of it,                                                      *)
LEMMA OverConcat ==
  ASSUME NEW s \in Seq(Letters), NEW t \in Seq(Letters), NEW l
  PROVE  Over(s \o t, l) = Over(s, l) \o Over(t, l)
<1> DEFINE a == Only(s, "from", l[1])  b == Only(t, "from", l[1])
<1>1. a \in Seq(Letters) /\ b \in Seq(Letters)
  BY OnlyRange
<1>2. Only(s \o t, "from", l[1]) = a \o b
  BY OnlyConcat
<1> HIDE DEF a, b
<1>3. Only(a \o b, "rail", l[3]) = Only(a, "rail", l[3]) \o Only(b, "rail", l[3])
  BY <1>1, OnlyConcat
<1> QED
  BY <1>2, <1>3 DEF Over, a, b

(* and of a letter.                                                         *)
LEMMA OverOne ==
  ASSUME NEW e \in Letters, NEW l
  PROVE  /\ e.from = l[1] /\ e.rail = l[3] => Over(<<e>>, l) = <<e>>
         /\ e.from # l[1] \/ e.rail # l[3] => Over(<<e>>, l) = <<>>
<1>1. Only(<<e>>, "from", l[1]) = IF e["from"] = l[1] THEN <<e>> ELSE <<>>
  BY OnlyOne
<1>2. Only(<<e>>, "rail", l[3]) = IF e["rail"] = l[3] THEN <<e>> ELSE <<>>
  BY OnlyOne
<1>3. Only(<<>>, "rail", l[3]) = <<>>
  BY OnlyEmpty
<1> HIDE DEF Letters
<1> QED
  BY <1>1, <1>2, <1>3 DEF Over

-----------------------------------------------------------------------------
(* The mesh implements the mailboxes.                                       *)

(* The frames of a link are messages.                                       *)
LEMMA QueueTypes ==
  ASSUME TypeOK, NEW l \in AllLinks
  PROVE  /\ inbox[l[2]] \in Seq(Letters) /\ Queued(l) = Over(inbox[l[2]], l)
         /\ Queued(l) \in Seq(Named) /\ InFlight(l) \in Seq(Named)
         /\ QueueOf(l) \in Seq(Messages)
<1>1. inbox[l[2]] \in Seq(Letters)
  BY DEF TypeOK, TablesOK, AllLinks
<1>2. Queued(l) = Over(inbox[l[2]], l)
  BY DEF Queued, Over
<1>3. Queued(l) \in Seq(Named)
  <2>1. Queued(l) \in Seq(Letters)
    BY <1>1, <1>2, OverShape
  <2>2. Letters \subseteq Named
    BY DEF Letters, Named
  <2> HIDE DEF Letters, Named
  <2> QED
    BY <2>1, <2>2
<1>4. InFlight(l) \in Seq(Named)
  <2>1. CASE l \in Links
    <3> DEFINE o == Only(wire[l], "op", "send")
    <3>1. wire[l] \in Seq(Frames)
      BY <2>1 DEF TypeOK, SocketsOK
    <3>2. o \in Seq(Frames) /\ \A i \in DOMAIN o : o[i]["op"] = "send"
      BY <3>1, OnlyRange
    <3>3. \A f \in Frames : f.op = "send" => f \in Named
      BY FrameShape DEF SendFrames, Named
    <3> HIDE DEF o, Frames, Named
    <3>4. \A i \in DOMAIN o : o[i] \in Named
      BY <3>2, <3>3
    <3>5. o \in Seq(Named)
      BY <3>2, <3>4
    <3> QED
      BY <2>1, <3>5 DEF InFlight, o
  <2>2. CASE l \notin Links
    BY <2>2 DEF InFlight
  <2> QED
    BY <2>1, <2>2
<1>5. QueueOf(l) \in Seq(Messages)
  <2>1. Contents(Queued(l)) \in Seq(Messages) /\ Contents(InFlight(l)) \in Seq(Messages)
    BY <1>3, <1>4, ContentsShape
  <2> HIDE DEF Messages
  <2> QED
    BY <2>1 DEF QueueOf
<1> QED
  BY <1>1, <1>2, <1>3, <1>4, <1>5

(* The queues, before and after a step of the mesh.                         *)
LEMMA QueuesPrimed ==
  ASSUME run' = run
  PROVE  /\ AllLinks' = AllLinks
         /\ \A l \in AllLinks :
              /\ Queued(l)' = Over(inbox'[l[2]], l)
              /\ InFlight(l)' = IF l \in Links THEN Only(wire'[l], "op", "send") ELSE <<>>
              /\ QueueOf(l)' = Contents(Queued(l)') \o Contents(InFlight(l)')
<1>1. AllLinks' = AllLinks
  BY Fixed DEF AllLinks
<1>2. ASSUME NEW l \in AllLinks
      PROVE  /\ Queued(l)' = Over(inbox'[l[2]], l)
             /\ InFlight(l)' = IF l \in Links THEN Only(wire'[l], "op", "send") ELSE <<>>
             /\ QueueOf(l)' = Contents(Queued(l)') \o Contents(InFlight(l)')
  BY Fixed DEF Queued, InFlight, QueueOf, Over
<1> QED
  BY <1>1, <1>2

(* A send uses the link of its call.                                        *)
LinkFits ==
  \A x \in Threads : call[x].at \in {"lock", "write"} => call[x].link = LinkOf(x)

(* A call that goes on towards its write keeps its link, or has just got it. *)
LinkKept(x) ==
  call'[x].at \in {"lock", "write"} =>
    /\ todo'[x] = todo[x]
    /\ \/ call'[x].link = LinkOf(x)
       \/ call[x].at \in {"lock", "write"} /\ call'[x].link = call[x].link

(* The links fit after every step.                                          *)
LEMMA LinksKept ==
  ASSUME AckInv, [Next]_vars
  PROVE  run' = run /\ \A y \in Threads : LinkKept(y)
<1>0. call \in [Threads -> CallStates] /\ todo \in [Threads -> Seq(Entries)]
  BY DEF AckInv, TypeOK, CallsOK
<1>1. ASSUME NEW x \in Threads, ThreadStep(x) \/ UserAbort(x) \/ SendTimesOut(x) \/ ReceiveTimesOut(x)
      PROVE  run' = run /\ \A y \in Threads : LinkKept(y)
  <2>0. ASSUME \A y \in Threads \ {x} : call'[y] = call[y] /\ todo'[y] = todo[y], LinkKept(x)
        PROVE  \A y \in Threads : LinkKept(y)
    BY <2>0 DEF LinkKept
  <2>1. Fails(x) => call'[x].at = "abort" /\ \A y \in Threads \ {x} : call'[y] = call[y]
    BY <1>0 DEF Fails
  <2>2. Returns(x) => /\ call'[x].at = "idle"
                      /\ \A y \in Threads \ {x} : call'[y] = call[y] /\ todo'[y] = todo[y]
    BY <1>0 DEF Returns, Idle
  <2>3. CASE StartSend(x)
    <3>1. \/ Fails(x)
          \/ call' = [call EXCEPT ![x] = [at |-> "lock", link |-> LinkOf(x)]]
      BY <2>3 DEF StartSend
    <3>2. run' = run /\ todo' = todo
      BY <2>3 DEF StartSend
    <3>3. CASE Fails(x)
      BY <2>0, <2>1, <3>2, <3>3 DEF LinkKept
    <3>4. CASE call' = [call EXCEPT ![x] = [at |-> "lock", link |-> LinkOf(x)]]
      <4>1. call'[x].link = LinkOf(x) /\ \A y \in Threads \ {x} : call'[y] = call[y]
        BY <1>0, <3>4
      <4> QED
        BY <2>0, <3>2, <4>1 DEF LinkKept
    <3> QED
      BY <3>1, <3>2, <3>3, <3>4
  <2>4. CASE LockSend(x)
    <3>1. /\ run' = run /\ todo' = todo /\ call[x].at = "lock"
          /\ call' = [call EXCEPT ![x] = [at |-> "write", link |-> call[x].link,
                                          sequence |-> next[call[x].link]]]
      BY <2>4 DEF LockSend
    <3>2. call'[x].link = call[x].link /\ \A y \in Threads \ {x} : call'[y] = call[y]
      BY <1>0, <3>1
    <3> QED
      BY <2>0, <3>1, <3>2 DEF LinkKept
  <2>5. CASE WriteSend(x)
    <3>1. /\ run' = run /\ todo' = todo /\ call[x].at = "write"
          /\ call' = [call EXCEPT ![x].at = "wait"]
      BY <2>5 DEF WriteSend
    <3>2. call[x] \in InSendCalls
      BY <1>0, <3>1, CallShape
    <3>3. call'[x].at = "wait" /\ \A y \in Threads \ {x} : call'[y] = call[y]
      BY <1>0, <3>1, <3>2 DEF InSendCalls
    <3> QED
      BY <2>0, <3>1, <3>3 DEF LinkKept
  <2>6. CASE AbortSide(x)
    <3>1. /\ run' = run /\ todo' = todo /\ call[x].at = "abort"
          /\ call' = [call EXCEPT ![x].left = @ \ {First(call[x].left)}]
      BY <2>6 DEF AbortSide
    <3>2. /\ call'[x] = [call[x] EXCEPT !.left = @ \ {First(call[x].left)}]
          /\ \A y \in Threads \ {x} : call'[y] = call[y]
      BY <1>0, <3>1
    <3>3. call'[x].at = "abort"
      BY <1>0, <3>1, <3>2, CallShape
    <3> QED
      BY <2>0, <3>1, <3>2, <3>3 DEF LinkKept
  <2>7. CASE AbortReturns(x)
    <3>1. run' = run /\ call' = [call EXCEPT ![x] = Idle] /\ todo' = [todo EXCEPT ![x] = <<>>]
      BY <2>7 DEF AbortReturns
    <3>2. /\ call'[x].at = "idle"
          /\ \A y \in Threads \ {x} : call'[y] = call[y] /\ todo'[y] = todo[y]
      BY <1>0, <3>1 DEF Idle
    <3> QED
      BY <2>0, <3>1, <3>2 DEF LinkKept
  <2>8. CASE \/ SendToSelf(x) \/ WriteSendFails(x) \/ SendReturns(x) \/ SendSeesFailure(x)
             \/ ReceiveReturns(x) \/ ReceiveMismatch(x) \/ UserAbort(x) \/ SendTimesOut(x)
             \/ ReceiveTimesOut(x)
    <3>1. run' = run /\ (Returns(x) \/ (Fails(x) /\ UNCHANGED todo))
      BY <2>8 DEF SendToSelf, WriteSendFails, SendReturns, SendSeesFailure, ReceiveReturns,
                  ReceiveMismatch, UserAbort, SendTimesOut, ReceiveTimesOut
    <3> QED
      BY <2>0, <2>1, <2>2, <3>1 DEF LinkKept
  <2> QED
    BY <1>1, <2>3, <2>4, <2>5, <2>6, <2>7, <2>8 DEF ThreadStep
<1>2. ASSUME NEW l \in Links, ReadAck(l) PROVE run' = run /\ \A y \in Threads : LinkKept(y)
  <2>1. /\ run' = run /\ todo' = todo
        /\ \A y \in Threads :
             \/ call'[y] = call[y]
             \/ call[y].at = "wait" /\ call'[y] = [call[y] EXCEPT !.at = "acked"]
    BY <1>2 DEF ReadAck
  <2>2. ASSUME NEW y \in Threads PROVE LinkKept(y)
    <3>1. CASE call'[y] = call[y]
      BY <2>1, <3>1 DEF LinkKept
    <3>2. CASE call[y].at = "wait" /\ call'[y] = [call[y] EXCEPT !.at = "acked"]
      <4>1. call[y] \in InSendCalls
        BY <1>0, <3>2, CallShape
      <4>2. call'[y].at = "acked"
        BY <3>2, <4>1 DEF InSendCalls
      <4> QED
        BY <4>2 DEF LinkKept
    <3> QED
      BY <2>1, <3>1, <3>2
  <2> QED
    BY <2>1, <2>2
<1>3. ASSUME NEW r \in Ranks, Left(r) \/ Crash(r) \/ SetupFails(r)
      PROVE  run' = run /\ \A y \in Threads : LinkKept(y)
  <2>1. /\ run' = run
        /\ call' = [x \in Threads |-> IF x[1] = r THEN Idle ELSE call[x]]
        /\ todo' = [x \in Threads |-> IF x[1] = r THEN <<>> ELSE todo[x]]
    BY <1>3 DEF Left, Crash, SetupFails, Gone
  <2> QED
    BY <2>1 DEF LinkKept, Idle
<1>4. CASE UNCHANGED <<run, call, todo>>
  BY <1>4 DEF LinkKept
<1>5. ASSUME NEW l \in Links, ReaderStep(l) \/ LeaveSide(l)
      PROVE  ReadAck(l) \/ UNCHANGED <<run, call, todo>>
  BY <1>5 DEF ReaderStep, ReadSend, LockAck, WriteAck, WriteAckFails, ReadEnd, LeaveSide
<1>6. ASSUME NEW r \in Ranks, Dial(r) \/ Accept(r) \/ Ready(r) \/ Open(r) \/ Leave(r)
      PROVE  UNCHANGED <<run, call, todo>>
  BY <1>6 DEF Dial, Accept, Ready, Open, Leave
<1>7. CASE UNCHANGED vars
  BY <1>4, <1>7 DEF vars
<1>8. CASE Next
  BY <1>1, <1>2, <1>3, <1>4, <1>5, <1>6, <1>8 DEF Next, RankStep, Deadline
<1> QED
  BY <1>7, <1>8

(* So every write goes to the link of its call.                             *)
LEMMA LinksFit ==
  /\ Init => LinkFits
  /\ AckInv /\ LinkFits /\ [Next]_vars => LinkFits'
<1>1. Init => LinkFits
  BY DEF Init, LinkFits, Idle
<1>2. ASSUME AckInv, LinkFits, [Next]_vars PROVE LinkFits'
  <2>1. run' = run /\ \A y \in Threads : LinkKept(y)
    BY <1>2, LinksKept
  <2>2. Threads' = Threads
    BY <2>1, Fixed
  <2>3. ASSUME NEW y \in Threads, call'[y].at \in {"lock", "write"} PROVE call'[y].link = LinkOf(y)'
    <3>1. todo'[y] = todo[y] /\ call'[y].link = LinkOf(y)
      BY <1>2, <2>1, <2>3 DEF LinkKept, LinkFits
    <3> QED
      BY <2>1, <3>1 DEF LinkOf, RailFor
  <2> QED
    BY <2>2, <2>3 DEF LinkFits
<1> QED
  BY <1>1, <1>2

(* The queues of all links and the states of all callers, and what a step   *)
(* of the mesh may do to them.                                              *)
Queues == [l \in AllLinks |-> QueueOf(l)]
States == [x \in Threads |-> StateOf(call[x])]
RailsOf == [x \in Threads |-> RailFor(x[2])]
MailStep == [Mail!Next]_<<Queues, todo, States, got, RailsOf, Ended>>

(* The callers, before and after a step.                                    *)
LEMMA CallersPrimed ==
  ASSUME run' = run
  PROVE  /\ Threads' = Threads /\ RailsOf' = RailsOf
         /\ DOMAIN States = Threads /\ DOMAIN States' = Threads
         /\ \A x \in Threads : States[x] = StateOf(call[x]) /\ States'[x] = StateOf(call'[x])
<1>1. Threads' = Threads
  BY Fixed
<1> QED
  BY <1>1 DEF RailsOf, RailFor, States

(* One caller changes its state.                                            *)
LEMMA OneState ==
  ASSUME run' = run, NEW x \in Threads, \A y \in Threads \ {x} : call'[y] = call[y]
  PROVE  States' = [States EXCEPT ![x] = StateOf(call'[x])]
<1>1. Threads' = Threads
  BY Fixed
<1>2. States' = [y \in Threads |-> StateOf(call'[y])]
  BY <1>1 DEF States
<1> QED
  BY <1>2 DEF States

(* The states of a call.                                                    *)
LEMMA StatesOf ==
  \A c : /\ c.at \in {"idle", "lock", "write"} => StateOf(c) = "ready"
         /\ c.at \in {"wait", "acked"} => StateOf(c) = "handed"
         /\ c.at = "abort" => StateOf(c) = "failed"
  BY DEF StateOf

(* A caller goes on, fails or ends.                                         *)
Halts(x) ==
  \/ todo'[x] = todo[x] /\ StateOf(call'[x]) \in {StateOf(call[x]), "failed"}
  \/ todo'[x] = <<>> /\ StateOf(call'[x]) = "ready"

(* A step in which queues lose their ends and callers fail.                 *)
LEMMA MailLose ==
  ASSUME TypeOK, run' = run, Ended', got' = got, DOMAIN todo' = Threads,
         \A l \in AllLinks : \E n \in 0 .. Len(QueueOf(l)) : QueueOf(l)' = SubSeq(QueueOf(l), 1, n),
         \A x \in Threads : Halts(x)
  PROVE  MailStep
<1>1. /\ \A l \in AllLinks : Queues[l] = QueueOf(l) /\ Queues'[l] = QueueOf(l)'
      /\ DOMAIN Queues = AllLinks /\ DOMAIN Queues' = AllLinks
  BY QueuesPrimed DEF Queues
<1>2. DOMAIN todo = Threads
  BY DEF TypeOK, CallsOK
<1>3. \A l \in AllLinks : \E n \in 0 .. Len(Queues[l]) : Queues'[l] = SubSeq(Queues[l], 1, n)
  BY <1>1
<1>4. \A x \in Threads :
        \/ todo'[x] = todo[x] /\ States'[x] \in {States[x], "failed"}
        \/ todo'[x] = <<>> /\ States'[x] = "ready"
  BY CallersPrimed DEF Halts
<1>5. DOMAIN States' = Threads /\ RailsOf' = RailsOf
  BY CallersPrimed
<1>6. Mail!Fail
  BY <1>1, <1>2, <1>3, <1>4, <1>5
     DEF Mail!Fail, Mail!Links, Mail!Callers, Mail!Lose, Mail!Stop, Queues, States, RailsOf
<1> QED
  BY <1>6 DEF MailStep, Mail!Next

(* All that is in a queue is its first part.                                *)
LEMMA AllKept ==
  ASSUME TypeOK, NEW l \in AllLinks, QueueOf(l)' = QueueOf(l)
  PROVE  \E n \in 0 .. Len(QueueOf(l)) : QueueOf(l)' = SubSeq(QueueOf(l), 1, n)
<1>1. QueueOf(l) \in Seq(Messages)
  BY QueueTypes
<1>2. Len(QueueOf(l)) \in 0 .. Len(QueueOf(l)) /\ SubSeq(QueueOf(l), 1, Len(QueueOf(l))) = QueueOf(l)
  BY <1>1
<1> QED
  BY <1>2

(* The callers are where they were.                                         *)
CallersSame ==
  todo' = todo /\ got' = got /\ \A x \in Threads : StateOf(call'[x]) = StateOf(call[x])

(* A step that changes no queue and no caller.                              *)
LEMMA MailSame ==
  ASSUME TypeOK, run' = run, \A l \in AllLinks : QueueOf(l)' = QueueOf(l), Ended => Ended',
         CallersSame
  PROVE  MailStep
<1>1. Queues' = Queues
  BY QueuesPrimed DEF Queues
<1>2. States' = States /\ RailsOf' = RailsOf
  <2>1. Threads' = Threads
    BY Fixed
  <2> QED
    BY <2>1, CallersPrimed DEF States, CallersSame
<1>3. CASE Ended' = Ended
  BY <1>1, <1>2, <1>3 DEF MailStep, CallersSame
<1>4. CASE Ended'
  <2>1. DOMAIN todo' = Threads
    BY DEF TypeOK, CallsOK, CallersSame
  <2>2. \A x \in Threads : Halts(x)
    BY DEF Halts, CallersSame
  <2> QED
    BY <1>4, <2>1, <2>2, AllKept, MailLose DEF CallersSame
<1> QED
  BY <1>3, <1>4 DEF Ended

(* What is added to a queue is added to the queues.                         *)
LEMMA OneQueue ==
  ASSUME run' = run, NEW l \in AllLinks, NEW q, QueueOf(l)' = q,
         \A m \in AllLinks \ {l} : QueueOf(m)' = QueueOf(m)
  PROVE  Queues' = [Queues EXCEPT ![l] = q]
<1>1. Queues' = [m \in AllLinks |-> QueueOf(m)']
  BY QueuesPrimed DEF Queues
<1> QED
  BY <1>1 DEF Queues

(* A send appends its message to the queue of its link.                     *)
LEMMA MailSend ==
  ASSUME TypeOK, run' = run, Ended' = Ended, NEW x \in Threads, NEW l \in AllLinks, l = LinkOf(x),
         StateOf(call[x]) = "ready", todo[x] # <<>>, Head(todo[x]).do = "send",
         QueueOf(l)' = Append(QueueOf(l), [tag |-> Head(todo[x]).tag, body |-> Head(todo[x]).body]),
         \A m \in AllLinks \ {l} : QueueOf(m)' = QueueOf(m),
         \A y \in Threads \ {x} : call'[y] = call[y], StateOf(call'[x]) = "handed",
         todo' = todo, got' = got
  PROVE  MailStep
<1>1. Queues' = [Queues EXCEPT ![l] =
                   Append(Queues[l], [tag |-> Head(todo[x]).tag, body |-> Head(todo[x]).body])]
  <2>1. Queues[l] = QueueOf(l)
    BY DEF Queues
  <2> QED
    BY <2>1, OneQueue
<1>2. States' = [States EXCEPT ![x] = "handed"] /\ States[x] = "ready"
  BY OneState, CallersPrimed
<1>3. RailsOf' = RailsOf /\ l = <<x[1], Head(todo[x]).peer, RailsOf[x]>>
  BY CallersPrimed DEF LinkOf, RailsOf
<1>4. x \in DOMAIN todo
  BY DEF TypeOK, CallsOK
<1>5. Mail!Send(x)
  BY <1>1, <1>2, <1>3 DEF Mail!Send, Mail!At, Mail!Call, Queues, States, RailsOf
<1> QED
  BY <1>4, <1>5 DEF MailStep, Mail!Next, Mail!Callers

(* So does a send of a rank to itself, which returns.                       *)
LEMMA MailSelf ==
  ASSUME TypeOK, run' = run, Ended' = Ended, NEW x \in Threads, NEW l \in AllLinks,
         l = <<x[1], x[1], RailFor(x[2])>>,
         StateOf(call[x]) = "ready", todo[x] # <<>>, Head(todo[x]).do = "self",
         QueueOf(l)' = Append(QueueOf(l), [tag |-> Head(todo[x]).tag, body |-> Head(todo[x]).body]),
         \A m \in AllLinks \ {l} : QueueOf(m)' = QueueOf(m),
         Returns(x), got' = got
  PROVE  MailStep
<1>1. Queues' = [Queues EXCEPT ![l] =
                   Append(Queues[l], [tag |-> Head(todo[x]).tag, body |-> Head(todo[x]).body])]
  <2>1. Queues[l] = QueueOf(l)
    BY DEF Queues
  <2> QED
    BY <2>1, OneQueue
<1>2. todo' = [todo EXCEPT ![x] = Tail(@)] /\ \A y \in Threads \ {x} : call'[y] = call[y]
  BY ReturnsShape DEF Returns
<1>3. States' = [States EXCEPT ![x] = "ready"] /\ States[x] = "ready"
  <2>1. StateOf(call'[x]) = "ready"
    BY ReturnsShape, StatesOf DEF Idle
  <2> QED
    BY <1>2, <2>1, OneState, CallersPrimed
<1>4. RailsOf' = RailsOf /\ l = <<x[1], x[1], RailsOf[x]>>
  BY CallersPrimed DEF RailsOf
<1>5. x \in DOMAIN todo
  BY DEF TypeOK, CallsOK
<1>6. Mail!SendToSelf(x)
  BY <1>1, <1>2, <1>3, <1>4
     DEF Mail!SendToSelf, Mail!At, Mail!Call, Mail!Completes, Queues, States, RailsOf
<1> QED
  BY <1>5, <1>6 DEF MailStep, Mail!Next, Mail!Callers

(* The send returns after that,                                             *)
LEMMA MailReturn ==
  ASSUME TypeOK, run' = run, Ended' = Ended, NEW x \in Threads, StateOf(call[x]) = "handed",
         \A l \in AllLinks : QueueOf(l)' = QueueOf(l), todo[x] # <<>>, Returns(x), got' = got
  PROVE  MailStep
<1>1. Queues' = Queues
  BY QueuesPrimed DEF Queues
<1>2. todo' = [todo EXCEPT ![x] = Tail(@)] /\ \A y \in Threads \ {x} : call'[y] = call[y]
  BY ReturnsShape DEF Returns
<1>3. States' = [States EXCEPT ![x] = "ready"] /\ States[x] = "handed" /\ RailsOf' = RailsOf
  <2>1. StateOf(call'[x]) = "ready"
    BY ReturnsShape, StatesOf DEF Idle
  <2> QED
    BY <1>2, <2>1, OneState, CallersPrimed
<1>4. x \in DOMAIN todo
  BY DEF TypeOK, CallsOK
<1>5. Mail!SendReturns(x)
  BY <1>1, <1>2, <1>3 DEF Mail!SendReturns, Mail!Completes, Queues, States, RailsOf
<1> QED
  BY <1>4, <1>5 DEF MailStep, Mail!Next, Mail!Callers

(* and a call that has failed is the last one.                              *)
LEMMA MailGiveUp ==
  ASSUME TypeOK, run' = run, Ended' = Ended, NEW x \in Threads, StateOf(call[x]) = "failed",
         \A l \in AllLinks : QueueOf(l)' = QueueOf(l), got' = got,
         \A y \in Threads \ {x} : call'[y] = call[y], StateOf(call'[x]) = "ready",
         todo' = [todo EXCEPT ![x] = <<>>]
  PROVE  MailStep
<1>1. Queues' = Queues
  BY QueuesPrimed DEF Queues
<1>2. States' = [States EXCEPT ![x] = "ready"] /\ States[x] = "failed" /\ RailsOf' = RailsOf
  BY OneState, CallersPrimed
<1>3. x \in DOMAIN todo
  BY DEF TypeOK, CallsOK
<1>4. Mail!GiveUp(x)
  BY <1>1, <1>2 DEF Mail!GiveUp, Queues, States, RailsOf
<1> QED
  BY <1>3, <1>4 DEF MailStep, Mail!Next, Mail!Callers

(* What becomes of the receive of x that takes the message d: it returns,   *)
(* or it fails because of d.                                                *)
Outcome(x, d) ==
  \/ /\ d.body \notin Head(todo[x]).refuses /\ Ended' = Ended
     /\ todo' = [todo EXCEPT ![x] = Tail(@)] /\ StateOf(call'[x]) = "ready"
  \/ /\ d.body \in Head(todo[x]).refuses /\ Ended'
     /\ todo' = todo /\ StateOf(call'[x]) = "failed"

(* A receive takes the first message with its tag and source.               *)
LEMMA MailTake ==
  ASSUME TypeOK, run' = run, NEW x \in Threads, NEW l \in AllLinks, NEW i \in 1 .. Len(QueueOf(l)),
         StateOf(call[x]) = "ready", todo[x] # <<>>, Head(todo[x]).do = "receive",
         l[2] = x[1], l[3] = RailFor(x[2]), Head(todo[x]).peer \in {l[1], AnyRank},
         QueueOf(l)[i].tag = Head(todo[x]).tag,
         \A j \in 1 .. i - 1 : QueueOf(l)[j].tag # Head(todo[x]).tag,
         QueueOf(l)' = SubSeq(QueueOf(l), 1, i - 1) \o SubSeq(QueueOf(l), i + 1, Len(QueueOf(l))),
         \A m \in AllLinks \ {l} : QueueOf(m)' = QueueOf(m),
         got' = [got EXCEPT ![x] = Append(@, [from |-> l[1], rail |-> l[3],
                                              tag |-> QueueOf(l)[i].tag, body |-> QueueOf(l)[i].body])],
         \A y \in Threads \ {x} : call'[y] = call[y], Outcome(x, QueueOf(l)[i])
  PROVE  MailStep
<1>1. /\ Queues[l] = QueueOf(l) /\ l \in DOMAIN Queues
      /\ Queues' = [Queues EXCEPT ![l] = SubSeq(Queues[l], 1, i - 1)
                                           \o SubSeq(Queues[l], i + 1, Len(Queues[l]))]
  <2>1. Queues[l] = QueueOf(l) /\ l \in DOMAIN Queues
    BY DEF Queues
  <2> QED
    BY <2>1, OneQueue
<1>2. States' = [States EXCEPT ![x] = StateOf(call'[x])] /\ States[x] = "ready"
  BY OneState, CallersPrimed
<1>3. RailsOf' = RailsOf /\ l[3] = RailsOf[x]
  BY CallersPrimed DEF RailsOf
<1>4. x \in DOMAIN todo
  BY DEF TypeOK, CallsOK
<1>5. Mail!At(x, {"receive"})
  BY <1>2 DEF Mail!At, Mail!Call, States
<1>6. Mail!Asked(x, l, i)
  BY <1>1, <1>3 DEF Mail!Asked, Mail!Call, Queues, RailsOf
<1>7. IF Queues[l][i].body \in Head(todo[x]).refuses
      THEN States' = [States EXCEPT ![x] = "failed"] /\ Ended' = TRUE /\ todo' = todo
      ELSE /\ todo' = [todo EXCEPT ![x] = Tail(@)] /\ States' = [States EXCEPT ![x] = "ready"]
           /\ Ended' = Ended
  BY <1>1, <1>2 DEF Outcome
<1>8. Mail!Receive(x)
  <2>1. got' = [got EXCEPT ![x] = Append(@, [from |-> l[1], rail |-> l[3], tag |-> Queues[l][i].tag,
                                             body |-> Queues[l][i].body])]
    BY <1>1
  <2> QED
    BY <1>1, <1>3, <1>5, <1>6, <1>7, <2>1
       DEF Mail!Receive, Mail!Links, Mail!Call, Mail!Completes, Queues, States, RailsOf
<1> QED
  BY <1>4, <1>8 DEF MailStep, Mail!Next, Mail!Callers

(* Every link is one of all, from a rank to another.                        *)
LEMMA AllLinksShape ==
  /\ Links \subseteq AllLinks
  /\ \A l \in AllLinks : /\ l[1] \in Ranks /\ l[2] \in Ranks /\ l[3] \in Rails
                         /\ l = <<l[1], l[2], l[3]>>
  BY DEF Links, AllLinks

(* Data frames and letters carry messages.                                  *)
LEMMA NamedShape ==
  /\ \A s \in Seq(Frames) : Only(s, "op", "send") \in Seq(Named)
  /\ \A s \in Seq(Letters) : \A l : Over(s, l) \in Seq(Named)
  /\ \A f \in Named : Message(f) \in Messages
  /\ \A f \in SendFrames : f \in Frames /\ f \in Named
  /\ \A e \in Letters : e \in Named
<1>1. ASSUME NEW s \in Seq(Frames) PROVE Only(s, "op", "send") \in Seq(Named)
  <2> DEFINE o == Only(s, "op", "send")
  <2>1. o \in Seq(Frames) /\ \A i \in DOMAIN o : o[i]["op"] = "send"
    BY OnlyRange
  <2>2. \A f \in Frames : f.op = "send" => f \in Named
    BY FrameShape DEF SendFrames, Named
  <2> HIDE DEF o, Frames, Named
  <2>3. \A i \in DOMAIN o : o[i] \in Named
    BY <2>1, <2>2
  <2>4. o \in Seq(Named)
    BY <2>1, <2>3
  <2> QED
    BY <2>4 DEF o
<1>2. Letters \subseteq Named
  BY DEF Letters, Named
<1>3. ASSUME NEW s \in Seq(Letters), NEW l PROVE Over(s, l) \in Seq(Named)
  <2>1. Over(s, l) \in Seq(Letters)
    BY OverShape
  <2> HIDE DEF Letters, Named
  <2> QED
    BY <1>2, <2>1
<1>4. \A f \in Named : Message(f) \in Messages
  BY DEF Named, Message, Messages
<1>5. \A f \in SendFrames : f \in Frames /\ f \in Named
  BY DEF SendFrames, Frames, Named
<1> QED
  BY <1>1, <1>2, <1>3, <1>4, <1>5

(* A link whose inbox and stream a step leaves alone.                       *)
LEMMA QueueKept ==
  ASSUME run' = run, NEW l \in AllLinks, Queued(l)' = Queued(l), InFlight(l)' = InFlight(l)
  PROVE  QueueOf(l)' = QueueOf(l)
  BY QueuesPrimed DEF QueueOf

(* The inbox of a link,                                                     *)
LEMMA QueuedKept ==
  ASSUME run' = run, NEW l \in AllLinks, inbox'[l[2]] = inbox[l[2]]
  PROVE  Queued(l)' = Queued(l)
  BY QueuesPrimed DEF Queued, Over

(* and its stream.                                                          *)
LEMMA InFlightKept ==
  ASSUME run' = run, NEW l \in AllLinks, l \in Links => wire'[l] = wire[l]
  PROVE  InFlight(l)' = InFlight(l)
  BY QueuesPrimed DEF InFlight

(* A failure stays, and so does a rank that has left.                       *)
LEMMA EndedStays ==
  ASSUME run' = run, failure \subseteq failure',
         \A r \in Ranks : life[r] \in {"leaving", "gone"} => life'[r] \in {"leaving", "gone"}
  PROVE  Ended => Ended'
<1>1. Ranks' = Ranks
  BY Fixed
<1> QED
  BY <1>1 DEF Ended

(* Steps that move no frame,                                                *)
LEMMA StillQueues ==
  ASSUME run' = run, wire' = wire, inbox' = inbox
  PROVE  \A l \in AllLinks : QueueOf(l)' = QueueOf(l)
  BY QueueKept, QueuedKept, InFlightKept

(* and let no caller go on,                                                 *)
LEMMA StillStep ==
  ASSUME TypeOK, run' = run, wire' = wire, inbox' = inbox, Ended => Ended', CallersSame
  PROVE  MailStep
  BY StillQueues, MailSame

(* or make one fail.                                                        *)
LEMMA FailStep ==
  ASSUME TypeOK, run' = run, wire' = wire, inbox' = inbox, todo' = todo, got' = got,
         NEW x \in Threads, Fails(x), Ended'
  PROVE  MailStep
<1>1. StateOf(call'[x]) = "failed" /\ \A y \in Threads \ {x} : call'[y] = call[y]
  BY FailsShape, StatesOf
<1>2. \A y \in Threads : Halts(y)
  BY <1>1 DEF Halts
<1>3. DOMAIN todo' = Threads
  BY DEF TypeOK, CallsOK
<1> QED
  BY <1>2, <1>3, StillQueues, AllKept, MailLose

(* A control frame is written.                                              *)
LEMMA ControlStep ==
  ASSUME TypeOK, run' = run, inbox' = inbox, Ended => Ended', CallersSame,
         NEW k \in Links, NEW f \in Frames, f.op # "send", Put(k, f)
  PROVE  MailStep
<1>1. /\ wire[k] \in Seq(Frames) /\ wire'[k] = Append(wire[k], f)
      /\ \A m \in Links \ {k} : wire'[m] = wire[m]
  BY DEF TypeOK, SocketsOK, Put
<1>2. Only(Append(wire[k], f), "op", "send") = Only(wire[k], "op", "send")
  <2> DEFINE s == wire[k]
  <2>1. s \in Seq(Frames)
    BY <1>1
  <2> HIDE DEF s, Frames
  <2>2. f["op"] # "send"
    OBVIOUS
  <2>3. Only(Append(s, f), "op", "send") = Only(s, "op", "send")
    BY <2>1, <2>2, OnlyAppend
  <2> QED
    BY <2>3 DEF s
<1>3. k \in AllLinks
  BY AllLinksShape
<1>4. InFlight(k)' = InFlight(k)
  BY <1>1, <1>2, <1>3, QueuesPrimed DEF InFlight
<1>5. ASSUME NEW l \in AllLinks PROVE QueueOf(l)' = QueueOf(l)
  <2>1. InFlight(l)' = InFlight(l)
    BY <1>1, <1>4, InFlightKept
  <2> QED
    BY <2>1, QueuedKept, QueueKept
<1> QED
  BY <1>5, MailSame

(* A stream that is read is its first frame and the rest.                   *)
LEMMA HeadApart ==
  ASSUME NEW T, NEW s \in Seq(T), s # <<>>
  PROVE  Head(s) \in T /\ Tail(s) \in Seq(T) /\ s = <<Head(s)>> \o Tail(s)
<1>1. Len(s) \in Nat /\ Len(s) # 0
  OBVIOUS
<1>2. Head(s) \in T /\ Tail(s) \in Seq(T)
  BY <1>1
<1> DEFINE t == Tail(s)  h == Head(s)
<1>3. Len(t) = Len(s) - 1 /\ h = s[1] /\ \A i \in 1 .. Len(s) - 1 : t[i] = s[i + 1]
  BY <1>1
<1> HIDE DEF t, h
<1>4. t \in Seq(T) /\ h \in T
  BY <1>2 DEF t, h
<1>5. <<h>> \o t \in Seq(T) /\ Len(<<h>> \o t) = Len(s)
  BY <1>1, <1>3, <1>4
<1>6. ASSUME NEW i \in 1 .. Len(s) PROVE (<<h>> \o t)[i] = s[i]
  BY <1>1, <1>3, <1>4
<1>7. s = <<h>> \o t
  BY <1>5, <1>6
<1> QED
  BY <1>2, <1>7 DEF t, h

(* What is in flight, once the first frame is read.                         *)
LEMMA PoppedFlight ==
  ASSUME TypeOK, run' = run, NEW l \in Links, In(l) # <<>>, Popped(l)
  PROVE  /\ Reverse3(l) \in Links /\ Head(In(l)) \in Frames
         /\ Head(In(l)).op # "send" => InFlight(Reverse3(l))' = InFlight(Reverse3(l))
         /\ Head(In(l)).op = "send" =>
              InFlight(Reverse3(l)) = <<Head(In(l))>> \o InFlight(Reverse3(l))'
         /\ InFlight(Reverse3(l))' \in Seq(Named)
         /\ \A m \in Links \ {Reverse3(l)} : wire'[m] = wire[m]
<1> DEFINE k == Reverse3(l)  s == wire[k]  h == Head(s)  t == Tail(s)
<1>0. k \in Links /\ k \in AllLinks
  BY LinkShape, AllLinksShape
<1>1. s \in Seq(Frames) /\ s # <<>> /\ wire'[k] = t /\ \A m \in Links \ {k} : wire'[m] = wire[m]
  BY <1>0 DEF TypeOK, SocketsOK, Popped, In
<1>2. h \in Frames /\ t \in Seq(Frames) /\ s = <<h>> \o t
  <2> HIDE DEF s, Frames
  <2> QED
    BY <1>1, HeadApart
<1>3. /\ InFlight(k) = Only(s, "op", "send") /\ InFlight(k)' = Only(t, "op", "send")
  BY <1>0, <1>1, QueuesPrimed DEF InFlight
<1>4. h = Head(In(l))
  BY DEF In
<1> HIDE DEF k, s, h, t, Frames
<1>5. Only(<<h>> \o t, "op", "send") = Only(<<h>>, "op", "send") \o Only(t, "op", "send")
  <2> DEFINE u == <<h>>
  <2>1. u \in Seq(Frames)
    BY <1>2
  <2> HIDE DEF u
  <2>2. Only(u \o t, "op", "send") = Only(u, "op", "send") \o Only(t, "op", "send")
    BY <1>2, <2>1, OnlyConcat
  <2> QED
    BY <2>2 DEF u
<1>6. Only(<<h>>, "op", "send") = IF h["op"] = "send" THEN <<h>> ELSE <<>>
  BY <1>2, OnlyOne
<1>7. Only(t, "op", "send") \in Seq(Named)
  BY <1>2, NamedShape
<1>8. <<>> \o Only(t, "op", "send") = Only(t, "op", "send")
  <2> HIDE DEF Named
  <2> QED
    BY <1>7
<1>9. h.op # "send" => InFlight(k)' = InFlight(k)
  BY <1>2, <1>3, <1>5, <1>6, <1>8
<1>10. h.op = "send" => InFlight(k) = <<h>> \o InFlight(k)'
  BY <1>2, <1>3, <1>5, <1>6
<1> QED
  BY <1>0, <1>1, <1>2, <1>3, <1>4, <1>7, <1>9, <1>10 DEF k

(* An acknowledgement is read.                                              *)
LEMMA AckStep ==
  ASSUME TypeOK, run' = run, inbox' = inbox, Ended => Ended', CallersSame,
         NEW l \in Links, In(l) # <<>>, Head(In(l)).op # "send", Popped(l)
  PROVE  MailStep
<1> DEFINE k == Reverse3(l)
<1>1. k \in Links /\ InFlight(k)' = InFlight(k) /\ \A m \in Links \ {k} : wire'[m] = wire[m]
  BY PoppedFlight
<1> HIDE DEF k
<1>2. ASSUME NEW m \in AllLinks PROVE QueueOf(m)' = QueueOf(m)
  <2>1. InFlight(m)' = InFlight(m)
    BY <1>1, InFlightKept
  <2> QED
    BY <2>1, QueuedKept, QueueKept
<1> QED
  BY <1>2, MailSame

(* A letter is added to the inbox of r.                                     *)
LEMMA LetterAdded ==
  ASSUME TypeOK, run' = run, NEW r \in Ranks, NEW e \in Letters,
         inbox' = [inbox EXCEPT ![r] = Append(@, e)], NEW l \in AllLinks
  PROVE  /\ l = <<e.from, r, e.rail>> => Queued(l)' = Queued(l) \o <<e>>
         /\ l # <<e.from, r, e.rail>> => Queued(l)' = Queued(l)
<1>1. CASE l[2] # r
  <2>1. inbox'[l[2]] = inbox[l[2]]
    BY <1>1, AllLinksShape DEF TypeOK, TablesOK
  <2>2. l # <<e.from, r, e.rail>>
    BY <1>1
  <2> QED
    BY <2>1, <2>2, QueuedKept
<1>2. CASE l[2] = r
  <2> DEFINE s == inbox[r]
  <2>1. s \in Seq(Letters) /\ inbox'[r] = Append(s, e)
    BY DEF TypeOK, TablesOK
  <2>2. Append(s, e) = s \o <<e>> /\ <<e>> \in Seq(Letters)
    <3> HIDE DEF s, Letters
    <3> QED
      BY <2>1
  <2>3. Queued(l)' = Over(s \o <<e>>, l) /\ Queued(l) = Over(s, l)
    BY <1>2, <2>1, <2>2, QueuesPrimed DEF Queued, Over
  <2>4. Over(s \o <<e>>, l) = Over(s, l) \o Over(<<e>>, l) /\ Over(s, l) \in Seq(Letters)
    BY <2>1, <2>2, OverConcat, OverShape
  <2>5. Over(s, l) \o <<>> = Over(s, l)
    <3> HIDE DEF s, Letters
    <3> QED
      BY <2>4
  <2>6. l = <<e.from, r, e.rail>> <=> e.from = l[1] /\ e.rail = l[3]
    BY <1>2, AllLinksShape
  <2> QED
    BY <2>3, <2>4, <2>5, <2>6, OverOne
<1> QED
  BY <1>1, <1>2

(* A message in the middle of two sequences.                                *)
LEMMA Regroup ==
  ASSUME NEW T, NEW a \in Seq(T), NEW d \in T, NEW b \in Seq(T)
  PROVE  (a \o <<d>>) \o b = a \o (<<d>> \o b)
<1> DEFINE x == (a \o <<d>>) \o b  y == a \o (<<d>> \o b)  n == Len(a) + 1 + Len(b)
<1>0. Len(a) \in Nat /\ Len(b) \in Nat
  OBVIOUS
<1>1. a \o <<d>> \in Seq(T) /\ Len(a \o <<d>>) = Len(a) + 1
  OBVIOUS
<1>2. <<d>> \o b \in Seq(T) /\ Len(<<d>> \o b) = 1 + Len(b)
  OBVIOUS
<1>3. x \in Seq(T) /\ Len(x) = n
  BY <1>0, <1>1
<1>4. y \in Seq(T) /\ Len(y) = n
  BY <1>0, <1>2
<1>5. ASSUME NEW i \in 1 .. n PROVE x[i] = y[i]
  BY <1>0, <1>1, <1>2
<1> HIDE DEF x, y, n
<1>6. x = y
  BY <1>3, <1>4, <1>5
<1> QED
  BY <1>6 DEF x, y

(* A data frame moves from the stream to the inbox: the queue of its link   *)
(* stays what it was.                                                       *)
LEMMA ReadSendStep ==
  ASSUME TypeOK, NEW l \in Links, ReadSend(l)
  PROVE  MailStep
<1> DEFINE k == Reverse3(l)
           h == Head(In(l))
           e == [from |-> l[2], rail |-> l[3], tag |-> h.tag, body |-> h.body]
<1>1. /\ run' = run /\ life' = life /\ failure' = failure
      /\ In(l) # <<>> /\ h.op = "send" /\ Popped(l)
      /\ inbox' = [inbox EXCEPT ![l[1]] = Append(@, e)]
  BY DEF ReadSend, setup
<1>2. /\ k \in Links /\ h \in Frames /\ InFlight(k) = <<h>> \o InFlight(k)'
      /\ InFlight(k)' \in Seq(Named) /\ \A m \in Links \ {k} : wire'[m] = wire[m]
  BY <1>1, PoppedFlight
<1>3. /\ l[1] \in Ranks /\ l[2] \in Ranks /\ l[3] \in Rails /\ k = <<l[2], l[1], l[3]>>
      /\ k \in AllLinks
  BY <1>2, LinkShape, AllLinksShape DEF Reverse3
<1> HIDE DEF k, h
<1>4. h \in SendFrames /\ h \in Named
  BY <1>1, <1>2, FrameShape, NamedShape
<1>5. e \in Letters /\ e.from = l[2] /\ e.rail = l[3] /\ e \in Named /\ Message(e) = Message(h)
  <2>1. h.tag \in SentTags /\ h.body \in SentBodies
    BY <1>4 DEF SendFrames
  <2>2. e \in Letters
    BY <1>3, <2>1 DEF Letters
  <2> QED
    BY <2>2, NamedShape DEF Message
<1> HIDE DEF e
<1>6. ASSUME NEW m \in AllLinks
      PROVE  /\ m = k => Queued(m)' = Queued(m) \o <<e>>
             /\ m # k => Queued(m)' = Queued(m)
  <2>1. k = <<e.from, l[1], e.rail>>
    BY <1>3, <1>5
  <2>2. /\ m = <<e.from, l[1], e.rail>> => Queued(m)' = Queued(m) \o <<e>>
        /\ m # <<e.from, l[1], e.rail>> => Queued(m)' = Queued(m)
    <3>1. inbox' = [inbox EXCEPT ![l[1]] = Append(@, e)] /\ run' = run /\ l[1] \in Ranks
      BY <1>1, <1>3 DEF e
    <3> QED
      BY <1>5, <3>1, LetterAdded
  <2> QED
    BY <2>1, <2>2
<1>7. QueueOf(k)' = QueueOf(k)
  <2> DEFINE q == Queued(k)  f == InFlight(k)'  a == Contents(q)  b == Contents(f)  d == Message(h)
  <2>1. q \in Seq(Named) /\ f \in Seq(Named) /\ d \in Messages
    BY <1>2, <1>3, <1>4, QueueTypes, NamedShape
  <2>2. QueueOf(k) = Contents(q) \o Contents(<<h>> \o f)
    BY <1>2 DEF QueueOf
  <2>3. QueueOf(k)' = Contents(q \o <<e>>) \o Contents(f)
    BY <1>1, <1>3, <1>6, QueuesPrimed
  <2> HIDE DEF q, f, d, Named, Messages
  <2>4. <<h>> \in Seq(Named) /\ <<e>> \in Seq(Named)
    BY <1>4, <1>5
  <2>5. Contents(q \o <<e>>) = a \o <<d>> /\ Contents(<<h>> \o f) = <<d>> \o b
    <3> DEFINE u == <<h>>  v == <<e>>
    <3>1. u \in Seq(Named) /\ v \in Seq(Named) /\ Contents(u) = <<d>> /\ Contents(v) = <<d>>
      BY <1>5, <2>4, ContentsOne DEF d
    <3> HIDE DEF u, v
    <3>2. Contents(q \o v) = Contents(q) \o Contents(v) /\ Contents(u \o f) = Contents(u) \o Contents(f)
      BY <2>1, <3>1, ContentsConcat
    <3> QED
      BY <3>1, <3>2 DEF u, v
  <2>6. a \in Seq(Messages) /\ b \in Seq(Messages)
    BY <2>1, ContentsShape
  <2>7. (a \o <<d>>) \o b = a \o (<<d>> \o b)
    <3> HIDE DEF a, b
    <3> QED
      BY <2>1, <2>6, Regroup
  <2> QED
    BY <2>2, <2>3, <2>5, <2>7
<1>8. ASSUME NEW m \in AllLinks, m # k PROVE QueueOf(m)' = QueueOf(m)
  BY <1>1, <1>2, <1>6, <1>8, InFlightKept, QueueKept
<1>9. Ended => Ended'
  BY <1>1, EndedStays
<1>10. CallersSame
  BY DEF ReadSend, CallersSame
<1> QED
  BY <1>1, <1>7, <1>8, <1>9, <1>10, MailSame

(* Appending to the second of two sequences.                                *)
LEMMA AppendLast ==
  ASSUME NEW T, NEW a \in Seq(T), NEW b \in Seq(T), NEW d \in T
  PROVE  a \o (b \o <<d>>) = Append(a \o b, d)
<1> DEFINE x == a \o (b \o <<d>>)  y == Append(a \o b, d)  n == Len(a) + Len(b) + 1
<1>0. Len(a) \in Nat /\ Len(b) \in Nat
  OBVIOUS
<1>1. b \o <<d>> \in Seq(T) /\ Len(b \o <<d>>) = Len(b) + 1
  OBVIOUS
<1>2. a \o b \in Seq(T) /\ Len(a \o b) = Len(a) + Len(b)
  OBVIOUS
<1>3. x \in Seq(T) /\ Len(x) = n
  BY <1>0, <1>1
<1>4. y \in Seq(T) /\ Len(y) = n
  BY <1>0, <1>2
<1>5. ASSUME NEW i \in 1 .. n PROVE x[i] = y[i]
  BY <1>0, <1>1, <1>2
<1> HIDE DEF x, y, n
<1>6. x = y
  BY <1>3, <1>4, <1>5
<1> QED
  BY <1>6 DEF x, y

(* The first of two sequences.                                              *)
LEMMA FirstPart ==
  ASSUME NEW T, NEW a \in Seq(T), NEW b \in Seq(T)
  PROVE  /\ a \o <<>> = a
         /\ Len(a) \in 0 .. Len(a \o b) /\ SubSeq(a \o b, 1, Len(a)) = a
<1>0. Len(a) \in Nat /\ Len(b) \in Nat
  OBVIOUS
<1>1. a \o b \in Seq(T) /\ Len(a \o b) = Len(a) + Len(b)
  OBVIOUS
<1>2. \A i \in 1 .. Len(a) : (a \o b)[i] = a[i]
  OBVIOUS
<1>3. a \o <<>> = a
  OBVIOUS
<1> DEFINE c == a \o b
<1> HIDE DEF c
<1>4. SubSeq(c, 1, Len(a)) = a
  <2>1. c \in Seq(T) /\ Len(a) <= Len(c) /\ \A i \in 1 .. Len(a) : c[i] = a[i]
    BY <1>0, <1>1, <1>2 DEF c
  <2>2. SubSeq(c, 1, Len(a)) \in Seq(T) /\ Len(SubSeq(c, 1, Len(a))) = Len(a)
    BY <1>0, <2>1
  <2>3. \A i \in 1 .. Len(a) : SubSeq(c, 1, Len(a))[i] = a[i]
    BY <1>0, <2>1
  <2> QED
    BY <2>2, <2>3
<1> QED
  BY <1>0, <1>1, <1>3, <1>4 DEF c

(* A send appends to the queue of its link.                                 *)
LEMMA WriteSendStep ==
  ASSUME AckInv, LinkFits, NEW x \in Threads, WriteSend(x)
  PROVE  MailStep
<1> DEFINE f == [op |-> "send", sequence |-> call[x].sequence, tag |-> Head(todo[x]).tag,
                 body |-> Head(todo[x]).body]
<1>0. TypeOK
  BY DEF AckInv
<1>1. /\ run' = run /\ life' = life /\ failure' = failure /\ inbox' = inbox
      /\ call[x].at = "write" /\ Put(call[x].link, f)
      /\ call' = [call EXCEPT ![x].at = "wait"] /\ todo' = todo /\ got' = got
  BY DEF WriteSend, setup
<1>l. call[x].link \in Links /\ call[x].sequence \in Nat
  BY <1>0, <1>1, CallShape DEF TypeOK, CallsOK
<1>2. PICK l \in Links : l = call[x].link
  BY <1>l
<1>3. f \in SendFrames
  <2>1. todo[x] # <<>> /\ Head(todo[x]).do = "send"
    BY <1>1 DEF AckInv, OwnSequence
  <2>2. Head(todo[x]).tag \in SentTags /\ Head(todo[x]).body \in SentBodies
    BY <1>0, <2>1, TodoShape
  <2> QED
    BY <1>l, <2>2 DEF SendFrames
<1>4. f \in Frames /\ f \in Named /\ f["op"] = "send" /\ Message(f) \in Messages /\ l \in AllLinks
  BY <1>2, <1>3, NamedShape, AllLinksShape DEF SendFrames
<1> HIDE DEF f
<1>5. /\ wire[l] \in Seq(Frames) /\ wire'[l] = Append(wire[l], f)
      /\ \A m \in Links \ {l} : wire'[m] = wire[m]
  BY <1>0, <1>1, <1>2 DEF TypeOK, SocketsOK, Put
<1>6. InFlight(l)' = Append(InFlight(l), f) /\ Queued(l)' = Queued(l)
  <2> DEFINE s == wire[l]
  <2>1. s \in Seq(Frames)
    BY <1>5
  <2>2. InFlight(l) = Only(s, "op", "send") /\ InFlight(l)' = Only(Append(s, f), "op", "send")
    BY <1>1, <1>2, <1>4, <1>5, QueuesPrimed DEF InFlight
  <2> HIDE DEF s, Frames
  <2>3. Only(Append(s, f), "op", "send") = Append(Only(s, "op", "send"), f)
    BY <1>4, <2>1, OnlyAppend
  <2> QED
    BY <1>1, <1>4, <2>2, <2>3, QueuedKept
<1>7. QueueOf(l)' = Append(QueueOf(l), Message(f))
  <2> DEFINE q == Queued(l)  g == InFlight(l)  u == <<f>>  d == Message(f)
  <2>1. q \in Seq(Named) /\ g \in Seq(Named) /\ d \in Messages
    BY <1>0, <1>4, QueueTypes
  <2>2. QueueOf(l) = Contents(q) \o Contents(g)
    BY DEF QueueOf
  <2>3. QueueOf(l)' = Contents(q) \o Contents(g \o u)
    <3>1. Append(g, f) = g \o u
      <4> HIDE DEF g, Named
      <4> QED
        BY <2>1, <1>4
    <3> QED
      BY <1>1, <1>4, <1>6, <3>1, QueuesPrimed
  <2>4. u \in Seq(Named) /\ Contents(u) = <<d>>
    <3> HIDE DEF Named
    <3> QED
      BY <1>4, ContentsOne
  <2> HIDE DEF q, g, u, d, Named, Messages
  <2>5. Contents(g \o u) = Contents(g) \o <<d>>
    BY <2>1, <2>4, ContentsConcat
  <2> DEFINE a == Contents(q)  b == Contents(g)
  <2>6. a \in Seq(Messages) /\ b \in Seq(Messages)
    BY <2>1, ContentsShape
  <2> HIDE DEF a, b
  <2>7. a \o (b \o <<d>>) = Append(a \o b, d)
    BY <2>1, <2>6, AppendLast
  <2> QED
    BY <2>2, <2>3, <2>5, <2>7 DEF a, b, d
<1>8. ASSUME NEW m \in AllLinks \ {l} PROVE QueueOf(m)' = QueueOf(m)
  BY <1>1, <1>5, InFlightKept, QueuedKept, QueueKept
<1>9. Ended' = Ended
  BY <1>1, Fixed DEF Ended
<1>10. l = LinkOf(x)
  BY <1>1, <1>2 DEF LinkFits
<1>11. /\ StateOf(call[x]) = "ready" /\ StateOf(call'[x]) = "handed"
       /\ \A y \in Threads \ {x} : call'[y] = call[y]
  <2>1. call \in [Threads -> CallStates] /\ call[x] \in CallStates
    BY <1>0 DEF TypeOK, CallsOK
  <2>2. call[x] \in InSendCalls
    BY <1>1, <2>1, CallShape
  <2>3. call'[x].at = "wait" /\ \A y \in Threads \ {x} : call'[y] = call[y]
    BY <1>1, <2>1, <2>2 DEF InSendCalls
  <2> QED
    BY <1>1, <2>3, StatesOf
<1>12. todo[x] # <<>> /\ Head(todo[x]).do = "send"
  BY <1>1 DEF AckInv, OwnSequence
<1>13. Message(f) = [tag |-> Head(todo[x]).tag, body |-> Head(todo[x]).body]
  BY DEF Message, f
<1> QED
  BY <1>0, <1>1, <1>4, <1>7, <1>8, <1>9, <1>10, <1>11, <1>12, <1>13, MailSend

(* A send of a rank to itself appends too.                                  *)
LEMMA SelfStep ==
  ASSUME AckInv, NEW x \in Threads, SendToSelf(x)
  PROVE  MailStep
<1> DEFINE e == [from |-> x[1], rail |-> RailFor(x[2]), tag |-> Head(todo[x]).tag,
                 body |-> Head(todo[x]).body]
<1>0. TypeOK
  BY DEF AckInv
<1>1. /\ run' = run /\ life' = life /\ failure' = failure /\ wire' = wire
      /\ Begins(x, "self") /\ got' = got
      /\ \/ x[1] \in failure /\ Fails(x) /\ UNCHANGED <<todo, inbox>>
         \/ inbox' = [inbox EXCEPT ![x[1]] = Append(@, e)] /\ Returns(x)
  BY DEF SendToSelf, setup, sockets
<1>2. Ended' = Ended
  BY <1>1, Fixed DEF Ended
<1>3. CASE x[1] \in failure /\ Fails(x) /\ UNCHANGED <<todo, inbox>>
  <2>1. Ended
    BY <1>3 DEF Ended
  <2> QED
    BY <1>0, <1>1, <1>2, <1>3, <2>1, FailStep
<1>4. CASE inbox' = [inbox EXCEPT ![x[1]] = Append(@, e)] /\ Returns(x)
  <2>1. todo[x] # <<>> /\ Head(todo[x]).do = "self"
    BY <1>1 DEF Begins
  <2>2. Head(todo[x]).tag \in SentTags /\ Head(todo[x]).body \in SentBodies
    BY <1>0, <2>1, TodoShape
  <2>3. x[1] \in Ranks /\ RailFor(x[2]) \in Rails
    <3>1. x[1] \in Ranks /\ x[2] \in Nat \ {0} /\ run.rails \in Nat \ {0}
      BY <1>0, RunShape, ThreadShape DEF TypeOK
    <3>2. (x[2] - 1) % run.rails \in 0 .. run.rails - 1
      BY <3>1
    <3> QED
      BY <3>1, <3>2 DEF RailFor, Rails
  <2>l. <<x[1], x[1], RailFor(x[2])>> \in AllLinks
    BY <2>3 DEF AllLinks
  <2> PICK l \in AllLinks : l = <<x[1], x[1], RailFor(x[2])>>
    BY <2>l
  <2>4. e \in Letters /\ l = <<e.from, x[1], e.rail>>
    BY <2>2, <2>3 DEF Letters
  <2>5. l \in AllLinks /\ l \notin Links
    BY DEF Links
  <2>6. e \in Named /\ Message(e) \in Messages
    BY <2>4, NamedShape
  <2> HIDE DEF e
  <2>7. ASSUME NEW m \in AllLinks
        PROVE  /\ m = l => Queued(m)' = Queued(m) \o <<e>>
               /\ m # l => Queued(m)' = Queued(m)
    BY <1>0, <1>1, <1>4, <2>3, <2>4, LetterAdded
  <2>8. QueueOf(l)' = Append(QueueOf(l), Message(e))
    <3> DEFINE q == Queued(l)  u == <<e>>  d == Message(e)
    <3>1. q \in Seq(Named) /\ InFlight(l) = <<>> /\ InFlight(l)' = <<>>
      BY <1>0, <1>1, <2>5, QueueTypes, QueuesPrimed DEF InFlight
    <3>2. QueueOf(l) = Contents(q) \o <<>> /\ QueueOf(l)' = Contents(q \o u) \o <<>>
      BY <1>1, <2>5, <2>7, <3>1, QueuesPrimed, ContentsOne DEF QueueOf
    <3>3. u \in Seq(Named) /\ Contents(u) = <<d>>
      <4> HIDE DEF Named
      <4> QED
        BY <2>6, ContentsOne
    <3> HIDE DEF q, u, d, Named, Messages
    <3>4. Contents(q \o u) = Contents(q) \o <<d>>
      BY <3>1, <3>3, ContentsConcat
    <3> DEFINE a == Contents(q)
    <3>5. a \in Seq(Messages) /\ d \in Messages
      BY <2>6, <3>1, ContentsShape DEF d
    <3> HIDE DEF a
    <3>6. (a \o <<d>>) \o <<>> = Append(a \o <<>>, d)
      BY <3>5
    <3> QED
      BY <3>2, <3>4, <3>6 DEF a, d
  <2>9. ASSUME NEW m \in AllLinks \ {l} PROVE QueueOf(m)' = QueueOf(m)
    BY <1>1, <2>7, InFlightKept, QueueKept
  <2> QED
    <3>1. StateOf(call[x]) = "ready"
      BY <1>1, StatesOf DEF Begins, Idle
    <3>2. Message(e) = [tag |-> Head(todo[x]).tag, body |-> Head(todo[x]).body]
      BY DEF Message, e
    <3> QED
      BY <1>0, <1>1, <1>2, <1>4, <2>1, <2>5, <2>8, <2>9, <3>1, <3>2, MailSelf
<1> QED
  BY <1>1, <1>3, <1>4

(* What is in flight to a reader that ends is lost.                         *)
LEMMA ReadEndStep ==
  ASSUME TypeOK, NEW l \in Links, ReadEnd(l)
  PROVE  MailStep
<1> DEFINE k == Reverse3(l)
<1>1. /\ run' = run /\ inbox' = inbox /\ failure' = failure \cup {l[1]}
      /\ wire' = [wire EXCEPT ![k] = <<>>]
  BY DEF ReadEnd, SetPeerFailure
<1>2. k \in Links /\ k \in AllLinks
  BY LinkShape, AllLinksShape
<1>3. wire'[k] = <<>> /\ \A m \in Links \ {k} : wire'[m] = wire[m]
  BY <1>1, <1>2 DEF TypeOK, SocketsOK
<1> HIDE DEF k
<1>4. ASSUME NEW m \in AllLinks
      PROVE  \E n \in 0 .. Len(QueueOf(m)) : QueueOf(m)' = SubSeq(QueueOf(m), 1, n)
  <2>1. CASE m = k
    <3> DEFINE a == Contents(Queued(k))  b == Contents(InFlight(k))
    <3>1. a \in Seq(Messages) /\ b \in Seq(Messages)
      BY <1>2, QueueTypes, ContentsShape
    <3>2. InFlight(k)' = <<>>
      BY <1>1, <1>2, <1>3, OnlyEmpty, QueuesPrimed
    <3>3. QueueOf(k)' = a \o <<>> /\ QueueOf(k) = a \o b
      BY <1>1, <1>2, <3>2, QueuedKept, QueuesPrimed, ContentsOne DEF QueueOf
    <3> HIDE DEF a, b, Messages
    <3>4. a \o <<>> = a /\ Len(a) \in 0 .. Len(a \o b) /\ SubSeq(a \o b, 1, Len(a)) = a
      BY <3>1, FirstPart
    <3> QED
      BY <2>1, <3>3, <3>4
  <2>2. CASE m # k
    <3>1. QueueOf(m)' = QueueOf(m)
      BY <1>1, <1>3, <2>2, InFlightKept, QueuedKept, QueueKept
    <3>2. QueueOf(m) \in Seq(Messages)
      BY QueueTypes
    <3>3. Len(QueueOf(m)) \in 0 .. Len(QueueOf(m)) /\ SubSeq(QueueOf(m), 1, Len(QueueOf(m))) = QueueOf(m)
      BY <3>2
    <3> QED
      BY <3>1, <3>3
  <2> QED
    BY <2>1, <2>2
<1>5. Ended'
  BY <1>1 DEF Ended
<1>6. todo' = todo /\ got' = got /\ call' = call /\ DOMAIN todo' = Threads
  BY DEF ReadEnd, TypeOK, CallsOK
<1>7. \A x \in Threads : Halts(x)
  BY <1>6 DEF Halts
<1> QED
  BY <1>1, <1>4, <1>5, <1>6, <1>7, MailLose

(* What is queued or in flight at a rank that is gone is lost.              *)
LEMMA GoneStep ==
  ASSUME TypeOK, NEW r \in Ranks, Gone(r)
  PROVE  MailStep
<1>1. /\ run' = run /\ life' = [life EXCEPT ![r] = "gone"]
      /\ wire' = [l \in Links |-> IF Reverse3(l) \in {m \in Links : m[1] = r} THEN <<>> ELSE wire[l]]
      /\ inbox' = [inbox EXCEPT ![r] = <<>>]
  BY DEF Gone
<1>2. ASSUME NEW m \in AllLinks
      PROVE  \E n \in 0 .. Len(QueueOf(m)) : QueueOf(m)' = SubSeq(QueueOf(m), 1, n)
  <2>0. QueueOf(m) \in Seq(Messages)
    BY QueueTypes
  <2>1. CASE m[2] = r
    <3>1. inbox'[r] = <<>>
      BY <1>1 DEF TypeOK, TablesOK
    <3>2. m \in Links => wire'[m] = <<>>
      BY <1>1, <2>1, LinkShape
    <3>3. Queued(m)' = <<>>
      <4>1. Queued(m)' = Over(<<>>, m)
        BY <1>1, <2>1, <3>1, QueuesPrimed
      <4> QED
        BY <4>1, OnlyEmpty DEF Over
    <3>4. InFlight(m)' = <<>>
      BY <1>1, <3>2, OnlyEmpty, QueuesPrimed
    <3>5. QueueOf(m)' = <<>>
      BY <1>1, <3>3, <3>4, QueuesPrimed, ContentsOne
    <3>6. 0 \in 0 .. Len(QueueOf(m)) /\ SubSeq(QueueOf(m), 1, 0) = <<>>
      BY <2>0
    <3> QED
      BY <3>5, <3>6
  <2>2. CASE m[2] # r
    <3>1. inbox'[m[2]] = inbox[m[2]]
      BY <1>1, <2>2, AllLinksShape DEF TypeOK, TablesOK
    <3>2. m \in Links => wire'[m] = wire[m]
      BY <1>1, <2>2, LinkShape
    <3>3. QueueOf(m)' = QueueOf(m)
      BY <1>1, <3>1, <3>2, InFlightKept, QueuedKept, QueueKept
    <3>4. Len(QueueOf(m)) \in 0 .. Len(QueueOf(m)) /\ SubSeq(QueueOf(m), 1, Len(QueueOf(m))) = QueueOf(m)
      BY <2>0
    <3> QED
      BY <3>3, <3>4
  <2> QED
    BY <2>1, <2>2
<1>3. Ended'
  <2>1. life'[r] = "gone" /\ Ranks' = Ranks
    BY <1>1, Fixed DEF TypeOK, SetupOK
  <2> QED
    BY <2>1 DEF Ended
<1>4. /\ got' = got
      /\ call' = [x \in Threads |-> IF x[1] = r THEN Idle ELSE call[x]]
      /\ todo' = [x \in Threads |-> IF x[1] = r THEN <<>> ELSE todo[x]]
  BY DEF Gone
<1>5. ASSUME NEW x \in Threads PROVE Halts(x)
  <2>1. CASE x[1] = r
    <3>1. todo'[x] = <<>> /\ call'[x] = Idle
      BY <1>4, <2>1
    <3> QED
      BY <3>1, StatesOf DEF Halts, Idle
  <2>2. CASE x[1] # r
    BY <1>4, <2>2 DEF Halts
  <2> QED
    BY <2>1, <2>2
<1>6. DOMAIN todo' = Threads
  BY <1>4
<1> QED
  BY <1>1, <1>2, <1>3, <1>4, <1>5, <1>6, MailLose

(* Sequences of the same elements are the same.                             *)
LEMMA SameSequence ==
  ASSUME NEW T, NEW a \in Seq(T), NEW b \in Seq(T), Len(a) = Len(b),
         \A j \in 1 .. Len(a) : a[j] = b[j]
  PROVE  a = b
  OBVIOUS

(* The parts a and b of s before and after its element i.                   *)
Around(s, i, a, b) ==
  /\ s = a \o (<<s[i]>> \o b) /\ RemoveAt(s, i) = a \o b
  /\ \A j \in DOMAIN a : j \in DOMAIN s /\ j < i /\ a[j] = s[j]

(* A sequence around one of its elements.                                   *)
LEMMA ElementApart ==
  ASSUME NEW T, NEW s \in Seq(T), NEW i \in 1 .. Len(s)
  PROVE  \E a, b \in Seq(T) : Around(s, i, a, b)
<1> DEFINE a == SubSeq(s, 1, i - 1)
           b == SubSeq(s, i + 1, Len(s))
           e == s[i]
<1>1. a \in Seq(T) /\ Len(a) = i - 1 /\ \A j \in 1 .. i - 1 : a[j] = s[j]
  OBVIOUS
<1>2. b \in Seq(T) /\ Len(b) = Len(s) - i /\ \A j \in 1 .. Len(s) - i : b[j] = s[i + j]
  OBVIOUS
<1>3. RemoveAt(s, i) = a \o b
  BY DEF RemoveAt
<1>4. e \in T /\ Len(s) \in Nat /\ i \in Nat /\ 1 <= i /\ i <= Len(s)
  OBVIOUS
<1> HIDE DEF a, b, e
<1> DEFINE u == <<e>>  c == u \o b  t == a \o c
<1>5. u \in Seq(T) /\ Len(u) = 1 /\ u[1] = e
  BY <1>4
<1> HIDE DEF u
<1>6. /\ c \in Seq(T) /\ Len(c) = 1 + Len(b) /\ c[1] = e
      /\ \A j \in 1 .. Len(b) : c[1 + j] = b[j]
  <2>1. /\ c \in Seq(T) /\ Len(c) = Len(u) + Len(b)
        /\ \A j \in 1 .. Len(u) : c[j] = u[j]
        /\ \A j \in 1 .. Len(b) : c[Len(u) + j] = b[j]
    <3>1. u \in Seq(T) /\ b \in Seq(T)
      BY <1>2, <1>5
    <3>2. c \in Seq(T) /\ Len(c) = Len(u) + Len(b)
      BY <3>1
    <3>3. \A j \in 1 .. Len(u) : c[j] = u[j]
      BY <3>1
    <3>4. \A j \in 1 .. Len(b) : c[Len(u) + j] = b[j]
      BY <3>1
    <3> QED
      BY <3>2, <3>3, <3>4
  <2> HIDE DEF c
  <2> QED
    BY <1>5, <2>1
<1> HIDE DEF c
<1>7. /\ t \in Seq(T) /\ Len(t) = Len(s)
      /\ \A j \in 1 .. Len(a) : t[j] = a[j]
      /\ \A j \in 1 .. Len(c) : t[Len(a) + j] = c[j]
  <2>1. /\ t \in Seq(T) /\ Len(t) = Len(a) + Len(c)
        /\ \A j \in 1 .. Len(a) : t[j] = a[j]
        /\ \A j \in 1 .. Len(c) : t[Len(a) + j] = c[j]
    <3>1. a \in Seq(T) /\ c \in Seq(T)
      BY <1>1, <1>6
    <3>2. t \in Seq(T) /\ Len(t) = Len(a) + Len(c)
      BY <3>1
    <3>3. \A j \in 1 .. Len(a) : t[j] = a[j]
      BY <3>1
    <3>4. \A j \in 1 .. Len(c) : t[Len(a) + j] = c[j]
      BY <3>1
    <3> QED
      BY <3>2, <3>3, <3>4
  <2> HIDE DEF t
  <2>2. Len(a) + Len(c) = Len(s)
    BY <1>1, <1>2, <1>4, <1>6
  <2> QED
    BY <2>1, <2>2
<1> HIDE DEF t
<1>8. ASSUME NEW j \in 1 .. Len(s) PROVE t[j] = s[j]
  <2>2. CASE j < i
    <3>1. j \in 1 .. Len(a) /\ j \in 1 .. i - 1
      BY <1>1, <1>4, <2>2
    <3> QED
      BY <1>1, <1>7, <3>1
  <2>3. CASE j = i
    <3>1. 1 \in 1 .. Len(c) /\ Len(a) + 1 = i
      BY <1>1, <1>2, <1>4, <1>6
    <3> QED
      BY <1>6, <1>7, <2>3, <3>1 DEF e
  <2>4. CASE j > i
    <3> DEFINE k == j - i
    <3>1. k \in 1 .. Len(b) /\ 1 + k \in 1 .. Len(c) /\ Len(a) + (1 + k) = j /\ i + k = j
      BY <1>1, <1>2, <1>4, <1>6, <2>4
    <3>2. k \in 1 .. Len(s) - i
      BY <1>2, <3>1
    <3> HIDE DEF k
    <3> QED
      BY <1>2, <1>6, <1>7, <3>1, <3>2
  <2> QED
    BY <1>4, <2>2, <2>3, <2>4
<1>10. s = t
  BY <1>7, <1>8, SameSequence
<1>9. \A j \in DOMAIN a : j \in DOMAIN s /\ j < i /\ a[j] = s[j]
  BY <1>1, <1>4
<1> QED
  <2>1. Around(s, i, a, b)
    BY <1>3, <1>9, <1>10 DEF t, c, u, e, Around
  <2> QED
    BY <1>1, <1>2, <2>1

(* q is a, d, b and c one after the other;                                  *)
Joined(q, a, d, b, c) == q = (a \o (<<d>> \o b)) \o c

(* d is where it was put, and without it q is a, b and c.                   *)
TakenOut(q, a, d, b, c) ==
  /\ Len(a) + 1 \in 1 .. Len(q) /\ q[Len(a) + 1] = d
  /\ \A j \in 1 .. Len(a) : q[j] = a[j]
  /\ SubSeq(q, 1, Len(a)) \o SubSeq(q, Len(a) + 2, Len(q)) = (a \o b) \o c

(* A message taken out of the middle.                                       *)
LEMMA MiddleTaken ==
  ASSUME NEW T, NEW a \in Seq(T), NEW d \in T, NEW b \in Seq(T), NEW c \in Seq(T),
         NEW q, Joined(q, a, d, b, c)
  PROVE  TakenOut(q, a, d, b, c)
<1>0. Len(a) \in Nat /\ Len(b) \in Nat /\ Len(c) \in Nat
  OBVIOUS
<1> DEFINE n == Len(a)  g == <<d>> \o b  f == a \o g  h == a \o b
<1>1. /\ g \in Seq(T) /\ Len(g) = 1 + Len(b) /\ g[1] = d
      /\ \A j \in 1 .. Len(b) : g[1 + j] = b[j]
  BY <1>0
<1> HIDE DEF g
<1>2. /\ f \in Seq(T) /\ Len(f) = n + 1 + Len(b)
      /\ \A j \in 1 .. n : f[j] = a[j]
      /\ \A j \in 1 .. Len(g) : f[n + j] = g[j]
  <2>1. a \in Seq(T) /\ g \in Seq(T)
    BY <1>1
  <2>2. f \in Seq(T) /\ Len(f) = Len(a) + Len(g)
    BY <2>1
  <2>3. \A j \in 1 .. Len(a) : f[j] = a[j]
    BY <2>1
  <2>4. \A j \in 1 .. Len(g) : f[Len(a) + j] = g[j]
    BY <2>1
  <2> HIDE DEF f
  <2> QED
    BY <1>0, <1>1, <2>2, <2>3, <2>4
<1>3. /\ h \in Seq(T) /\ Len(h) = n + Len(b)
      /\ \A j \in 1 .. n : h[j] = a[j]
      /\ \A j \in 1 .. Len(b) : h[n + j] = b[j]
  BY <1>0
<1> HIDE DEF f, h
<1>4. /\ q \in Seq(T) /\ Len(q) = n + 1 + Len(b) + Len(c)
      /\ \A j \in 1 .. Len(f) : q[j] = f[j]
      /\ \A j \in 1 .. Len(c) : q[Len(f) + j] = c[j]
  <2> DEFINE z == f \o c
  <2>0. f \in Seq(T) /\ Len(f) = n + 1 + Len(b)
    BY <1>2
  <2>1. q = z
    BY DEF f, g, Joined
  <2>2. z \in Seq(T) /\ Len(z) = Len(f) + Len(c)
    <3>1. f \in Seq(T) /\ c \in Seq(T)
      BY <2>0
    <3> QED
      BY <3>1
  <2>3. \A j \in 1 .. Len(f) : z[j] = f[j]
    BY <2>0
  <2>4. \A j \in 1 .. Len(c) : z[Len(f) + j] = c[j]
    BY <2>0
  <2> HIDE DEF z, n
  <2> QED
    BY <2>0, <2>1, <2>2, <2>3, <2>4
<1>5. n + 1 \in 1 .. Len(q) /\ q[n + 1] = d
  <2>1. 1 \in 1 .. Len(g) /\ n + 1 \in 1 .. Len(f) /\ n + 1 \in 1 .. Len(q)
    BY <1>0, <1>1, <1>2, <1>4
  <2> QED
    BY <1>1, <1>2, <1>4, <2>1
<1>6. \A j \in 1 .. n : q[j] = a[j]
  BY <1>0, <1>2, <1>4
<1> DEFINE u == SubSeq(q, 1, n)  w == SubSeq(q, n + 2, Len(q))  m == n + Len(b) + Len(c)
<1>7. u \in Seq(T) /\ Len(u) = n /\ \A j \in 1 .. n : u[j] = q[j]
  BY <1>0, <1>4
<1>8. w \in Seq(T) /\ Len(w) = Len(b) + Len(c) /\ \A j \in 1 .. Len(b) + Len(c) : w[j] = q[n + 1 + j]
  BY <1>0, <1>4
<1> DEFINE x == u \o w  y == h \o c
<1> HIDE DEF u, w
<1>9. /\ x \in Seq(T) /\ Len(x) = m
      /\ \A j \in 1 .. n : x[j] = u[j]
      /\ \A j \in 1 .. Len(b) + Len(c) : x[n + j] = w[j]
  <2>1. /\ x \in Seq(T) /\ Len(x) = Len(u) + Len(w)
        /\ \A j \in 1 .. Len(u) : x[j] = u[j]
        /\ \A j \in 1 .. Len(w) : x[Len(u) + j] = w[j]
    <3>1. u \in Seq(T) /\ w \in Seq(T)
      BY <1>7, <1>8
    <3>2. x \in Seq(T) /\ Len(x) = Len(u) + Len(w)
      BY <3>1
    <3>3. \A j \in 1 .. Len(u) : x[j] = u[j]
      BY <3>1
    <3>4. \A j \in 1 .. Len(w) : x[Len(u) + j] = w[j]
      BY <3>1
    <3> QED
      BY <3>2, <3>3, <3>4
  <2> HIDE DEF x, n
  <2>2. Len(u) + Len(w) = m
    BY <1>0, <1>7, <1>8 DEF n
  <2> QED
    BY <1>7, <1>8, <2>1, <2>2
<1>10. /\ y \in Seq(T) /\ Len(y) = m
       /\ \A j \in 1 .. n + Len(b) : y[j] = h[j]
       /\ \A j \in 1 .. Len(c) : y[n + Len(b) + j] = c[j]
  <2>1. /\ y \in Seq(T) /\ Len(y) = Len(h) + Len(c)
        /\ \A j \in 1 .. Len(h) : y[j] = h[j]
        /\ \A j \in 1 .. Len(c) : y[Len(h) + j] = c[j]
    <3>1. h \in Seq(T) /\ c \in Seq(T)
      BY <1>3
    <3>2. y \in Seq(T) /\ Len(y) = Len(h) + Len(c)
      BY <3>1
    <3>3. \A j \in 1 .. Len(h) : y[j] = h[j]
      BY <3>1
    <3>4. \A j \in 1 .. Len(c) : y[Len(h) + j] = c[j]
      BY <3>1
    <3> QED
      BY <3>2, <3>3, <3>4
  <2> HIDE DEF y, n
  <2>2. Len(h) + Len(c) = m
    BY <1>0, <1>3
  <2> QED
    BY <1>3, <2>1, <2>2
<1> HIDE DEF x, y
<1>11. ASSUME NEW j \in 1 .. m PROVE x[j] = y[j]
  <2>1. CASE j <= n
    <3>1. j \in 1 .. n /\ j \in 1 .. n + Len(b)
      BY <2>1, <1>0
    <3>2. x[j] = u[j] /\ u[j] = q[j] /\ q[j] = a[j]
      BY <3>1, <1>6, <1>7, <1>9
    <3>3. y[j] = h[j] /\ h[j] = a[j]
      BY <3>1, <1>3, <1>10
    <3> QED
      BY <3>2, <3>3
  <2>2. CASE n < j /\ j <= n + Len(b)
    <3> DEFINE k == j - n
    <3>1. /\ k \in 1 .. Len(b) /\ k \in 1 .. Len(b) + Len(c) /\ 1 + k \in 1 .. Len(g)
          /\ n + k = j /\ n + 1 + k = n + (1 + k) /\ n + (1 + k) \in 1 .. Len(f)
          /\ j \in 1 .. n + Len(b)
      BY <2>2, <1>0, <1>1, <1>2
    <3> HIDE DEF k
    <3>2. x[j] = w[k] /\ w[k] = q[n + (1 + k)]
      BY <3>1, <1>8, <1>9
    <3>3. q[n + (1 + k)] = f[n + (1 + k)] /\ f[n + (1 + k)] = g[1 + k] /\ g[1 + k] = b[k]
      BY <3>1, <1>1, <1>2, <1>4
    <3>4. y[j] = h[j] /\ h[j] = b[k]
      BY <3>1, <1>3, <1>10
    <3> QED
      BY <3>2, <3>3, <3>4
  <2>3. CASE n + Len(b) < j
    <3> DEFINE k == j - (n + Len(b))
    <3>1. /\ k \in 1 .. Len(c) /\ Len(b) + k \in 1 .. Len(b) + Len(c)
          /\ n + (Len(b) + k) = j /\ n + 1 + (Len(b) + k) = Len(f) + k /\ n + Len(b) + k = j
      BY <2>3, <1>0, <1>2
    <3> HIDE DEF k
    <3>2. x[j] = w[Len(b) + k] /\ w[Len(b) + k] = q[Len(f) + k]
      BY <3>1, <1>8, <1>9
    <3>3. q[Len(f) + k] = c[k] /\ y[j] = c[k]
      BY <3>1, <1>4, <1>10
    <3> QED
      BY <3>2, <3>3
  <2> QED
    BY <1>0, <2>1, <2>2, <2>3
<1>12. x = y
  <2> HIDE DEF m
  <2> QED
    BY <1>9, <1>10, <1>11, SameSequence
<1> QED
  BY <1>5, <1>6, <1>12 DEF u, w, h, x, y, TakenOut

(* The letter that a receive takes is the first of its link with its tag;   *)
(* the receive returns it, or fails because of it.                          *)
LEMMA TakesStep ==
  ASSUME AckInv, NEW x \in Threads, run' = run, wire' = wire, Begins(x, "receive"), Takes(x),
         \/ ~Mismatch(x) /\ Returns(x) /\ Ended' = Ended
         \/ Mismatch(x) /\ Fails(x) /\ todo' = todo /\ Ended'
  PROVE  MailStep
<1> DEFINE r == x[1]  s == inbox[x[1]]
<1>a0. TypeOK
  BY DEF AckInv
<1>a1. /\ run' = run /\ wire' = wire /\ Matches(x) # {}
       /\ inbox' = [inbox EXCEPT ![r] = RemoveAt(@, Match(Matches(x)))]
       /\ got' = [got EXCEPT ![x] = Append(@, Letter(x))]
  BY DEF Takes
<1>0. r \in Ranks /\ s \in Seq(Letters) /\ DOMAIN s = 1 .. Len(s) /\ Len(s) \in Nat
  BY <1>a0, ThreadShape DEF TypeOK, TablesOK
<1>1. /\ Match(Matches(x)) \in Matches(x) /\ \A j \in Matches(x) : Match(Matches(x)) <= j
      /\ Match(Matches(x)) \in 1 .. Len(s)
  <2>1. Matches(x) \subseteq 1 .. Len(s)
    BY <1>0 DEF Matches
  <2> QED
    BY <1>a1, <1>0, <2>1, MatchIn
<1>2. PICK i \in 1 .. Len(s) : i = Match(Matches(x))
  BY <1>1
<1>3. i \in Matches(x) /\ \A j \in Matches(x) : i <= j
  BY <1>1, <1>2
<1>4. PICK e \in Letters : e = s[i]
  BY <1>0
<1>5. PICK a \in Seq(Letters), b \in Seq(Letters) :
        /\ s = a \o (<<e>> \o b) /\ RemoveAt(s, i) = a \o b
        /\ \A j \in DOMAIN a : j \in DOMAIN s /\ j < i /\ a[j] = s[j]
  <2> HIDE DEF Letters, s
  <2>1. PICK T : T = Letters
    OBVIOUS
  <2>2. PICK z \in Seq(T) : z = s
    BY <1>0, <2>1
  <2>3. PICK k \in 1 .. Len(z) : k = i
    BY <2>2
  <2>4. \E a, b \in Seq(T) : Around(z, k, a, b)
    BY ElementApart
  <2> QED
    BY <1>4, <2>1, <2>2, <2>3, <2>4, Zenon DEF Around
<1>6. inbox'[r] = a \o b /\ \A p \in Ranks \ {r} : inbox'[p] = inbox[p]
  BY <1>a0, <1>a1, <1>0, <1>2, <1>5 DEF TypeOK, TablesOK
<1>7. <<e.from, r, e.rail>> \in AllLinks
  BY <1>0, <1>4 DEF AllLinks, Letters
<1>8. PICK l \in AllLinks : l = <<e.from, r, e.rail>>
  BY <1>7
<1>9. \A m \in AllLinks : InFlight(m)' = InFlight(m)
  BY <1>a1, InFlightKept
<1>10. ASSUME NEW m \in AllLinks, m[2] = r
       PROVE  /\ Queued(m) = Over(a, m) \o (Over(<<e>>, m) \o Over(b, m))
              /\ Queued(m)' = Over(a, m) \o Over(b, m)
              /\ Over(a, m) \in Seq(Letters) /\ Over(b, m) \in Seq(Letters)
  <2>1. Queued(m) = Over(s, m) /\ Queued(m)' = Over(a \o b, m)
    BY <1>a1, <1>6, <1>10, QueuesPrimed DEF Queued, Over
  <2> DEFINE u == <<e>>
  <2>2. u \in Seq(Letters)
    <3> HIDE DEF Letters
    <3> QED
      OBVIOUS
  <2>3. s = a \o (u \o b)
    BY <1>5
  <2> HIDE DEF u, s, Letters
  <2>4. u \o b \in Seq(Letters)
    BY <2>2
  <2>5. Over(u \o b, m) = Over(u, m) \o Over(b, m)
    BY <2>2, OverConcat
  <2>6. Over(s, m) = Over(a, m) \o Over(u \o b, m)
    BY <2>3, <2>4, OverConcat
  <2>7. Over(a \o b, m) = Over(a, m) \o Over(b, m)
    BY OverConcat
  <2>8. Over(a, m) \in Seq(Letters) /\ Over(b, m) \in Seq(Letters)
    BY OverShape
  <2> QED
    BY <2>1, <2>5, <2>6, <2>7, <2>8 DEF u
<1>11. ASSUME NEW m \in AllLinks \ {l} PROVE QueueOf(m)' = QueueOf(m)
  <2>1. CASE m[2] # r
    <3>1. Queued(m)' = Queued(m)
      BY <1>a1, <1>6, <2>1, AllLinksShape, QueuedKept
    <3> QED
      BY <1>a1, <1>9, <3>1, QueueKept
  <2>2. CASE m[2] = r
    <3>1. e.from # m[1] \/ e.rail # m[3]
      BY <1>8, <2>2, AllLinksShape
    <3>2. Over(<<e>>, m) = <<>>
      BY <3>1, OverOne
    <3>3. <<>> \o Over(b, m) = Over(b, m)
      <4> HIDE DEF Letters
      <4> QED
        BY <1>10, <2>2
    <3>4. Queued(m)' = Queued(m)
      BY <1>10, <2>2, <3>2, <3>3
    <3> QED
      BY <1>a1, <1>9, <3>4, QueueKept
  <2> QED
    BY <2>1, <2>2
<1> DEFINE A == Over(a, l)  B == Over(b, l)  F == InFlight(l)
           CA == Contents(A)  CB == Contents(B)  CF == Contents(F)  d == Message(e)  q == QueueOf(l)
<1>12. l[1] = e.from /\ l[2] = r /\ l[3] = e.rail
  BY <1>8
<1>13. Queued(l) = A \o (<<e>> \o B) /\ Queued(l)' = A \o B
  BY <1>10, <1>12, OverOne
<1>14. A \in Seq(Named) /\ B \in Seq(Named) /\ F \in Seq(Named) /\ e \in Named /\ d \in Messages
  BY <1>a0, NamedShape, QueueTypes
<1>15. q = (CA \o (<<d>> \o CB)) \o CF /\ QueueOf(l)' = (CA \o CB) \o CF
  <2>1. q = Contents(A \o (<<e>> \o B)) \o CF /\ QueueOf(l)' = Contents(A \o B) \o CF
    BY <1>a1, <1>9, <1>13, QueuesPrimed DEF QueueOf
  <2> DEFINE u == <<e>>
  <2>2. u \in Seq(Named) /\ Contents(u) = <<d>>
    <3> HIDE DEF Named
    <3> QED
      BY <1>14, ContentsOne
  <2> HIDE DEF u, Named, A, B, F, d
  <2>3. u \o B \in Seq(Named)
    BY <1>14, <2>2
  <2>4. Contents(u \o B) = <<d>> \o CB
    BY <1>14, <2>2, ContentsConcat
  <2>5. Contents(A \o (u \o B)) = CA \o Contents(u \o B)
    BY <1>14, <2>3, ContentsConcat
  <2>6. Contents(A \o B) = CA \o CB
    BY <1>14, ContentsConcat
  <2> QED
    BY <2>1, <2>4, <2>5, <2>6 DEF u
<1>16. /\ CA \in Seq(Messages) /\ CB \in Seq(Messages) /\ CF \in Seq(Messages)
       /\ Len(CA) = Len(A) /\ \A j \in 1 .. Len(A) : CA[j] = Message(A[j])
  BY <1>14, ContentsShape
<1>17. ASSUME NEW j \in 1 .. Len(A) PROVE CA[j].tag # d.tag
  <2>1. j \in DOMAIN A
    <3> HIDE DEF A, Named
    <3> QED
      BY <1>14
  <2>2. A[j].from = l[1] /\ A[j].rail = l[3] /\ \E k \in DOMAIN a : A[j] = a[k]
    <3>1. \A n \in DOMAIN A : A[n].from = l[1] /\ A[n].rail = l[3] /\ \E k \in DOMAIN a : A[n] = a[k]
      <4> HIDE DEF Letters
      <4> QED
        BY OverShape
    <3> HIDE DEF A
    <3> QED
      BY <2>1, <3>1
  <2>3. PICK k \in DOMAIN a : A[j] = a[k]
    BY <2>2
  <2>4. k \in DOMAIN s /\ k < i /\ a[k] = s[k]
    BY <1>5
  <2>5. s[k].from = s[i].from /\ s[k].rail = s[i].rail
    BY <1>4, <1>12, <2>2, <2>3, <2>4
  <2>6. k \notin Matches(x)
    <3>1. k \in Nat /\ i \in Nat
      BY <1>0, <2>4
    <3> QED
      BY <1>3, <2>4, <3>1
  <2>7. s[k].tag # s[i].tag
    BY <1>3, <2>4, <2>5, <2>6 DEF Matches
  <2>8. CA[j].tag = s[k].tag /\ d.tag = s[i].tag
    <3>1. CA[j] = Message(s[k])
      <4> HIDE DEF CA, A, Message
      <4> QED
        BY <1>16, <2>3, <2>4
    <3>2. d = Message(s[i])
      BY <1>4
    <3> HIDE DEF CA, d
    <3> QED
      BY <3>1, <3>2 DEF Message
  <2> QED
    BY <2>7, <2>8
<1> DEFINE n == Len(CA) + 1
<1>18. /\ n \in 1 .. Len(q) /\ q[n] = d /\ \A j \in 1 .. Len(CA) : q[j] = CA[j]
       /\ SubSeq(q, 1, Len(CA)) \o SubSeq(q, Len(CA) + 2, Len(q)) = QueueOf(l)'
  <2> HIDE DEF CA, CB, CF, d, q, Messages
  <2>1. d \in Messages /\ q = (CA \o (<<d>> \o CB)) \o CF
    BY <1>14, <1>15
  <2>2. /\ Len(CA) + 1 \in 1 .. Len(q) /\ q[Len(CA) + 1] = d
        /\ \A j \in 1 .. Len(CA) : q[j] = CA[j]
        /\ SubSeq(q, 1, Len(CA)) \o SubSeq(q, Len(CA) + 2, Len(q)) = (CA \o CB) \o CF
    <3>1. PICK T : T = Messages
      OBVIOUS
    <3>2. PICK va \in Seq(T), vb \in Seq(T), vc \in Seq(T) : va = CA /\ vb = CB /\ vc = CF
      BY <1>16, <3>1
    <3>3. PICK vd \in T : vd = d
      BY <2>1, <3>1
    <3>4. PICK vq : vq = q
      OBVIOUS
    <3>5. Joined(vq, va, vd, vb, vc)
      BY <2>1, <3>2, <3>3, <3>4, Zenon DEF Joined
    <3>6. TakenOut(vq, va, vd, vb, vc)
      BY <3>5, MiddleTaken
    <3> QED
      BY <3>2, <3>3, <3>4, <3>6, Zenon DEF TakenOut
  <2> QED
    BY <1>15, <2>2
<1>19. /\ n - 1 = Len(CA) /\ n + 1 = Len(CA) + 2 /\ Len(CA) = Len(A)
  <2>1. Len(CA) \in Nat
    <3> HIDE DEF CA, Messages
    <3> QED
      BY <1>16
  <2> QED
    BY <1>16, <2>1
<1> HIDE DEF CA, n, q, d, A
<1>20. \A j \in 1 .. n - 1 : q[j].tag # q[n].tag
  BY <1>17, <1>18, <1>19
<1>21. QueueOf(l)' = SubSeq(q, 1, n - 1) \o SubSeq(q, n + 1, Len(q))
  BY <1>18, <1>19
<1>22. PICK k : k = n
  OBVIOUS
<1>23. /\ k \in 1 .. Len(QueueOf(l))
       /\ \A j \in 1 .. k - 1 : QueueOf(l)[j].tag # QueueOf(l)[k].tag
       /\ QueueOf(l)' = SubSeq(QueueOf(l), 1, k - 1) \o SubSeq(QueueOf(l), k + 1, Len(QueueOf(l)))
  BY <1>18, <1>20, <1>21, <1>22 DEF q
<1>24. Letter(x) = e /\ QueueOf(l)[k] = d
  BY <1>2, <1>4, <1>18, <1>22 DEF Letter, q
<1>25. /\ d.tag = e.tag /\ d.body = e.body
       /\ e = [from |-> l[1], rail |-> l[3], tag |-> d.tag, body |-> d.body]
  <2>1. d.tag = e.tag /\ d.body = e.body
    BY DEF d, Message
  <2> QED
    BY <1>12, <2>1 DEF Letters
<1>26. /\ l[3] = RailFor(x[2]) /\ e.tag = Head(todo[x]).tag
       /\ Head(todo[x]).peer \in {l[1], AnyRank}
  BY <1>3, <1>4, <1>12 DEF Matches
<1>27. StateOf(call[x]) = "ready" /\ todo[x] # <<>> /\ Head(todo[x]).do = "receive"
  BY StatesOf DEF Begins, Idle
<1>28. Outcome(x, d) /\ \A y \in Threads \ {x} : call'[y] = call[y]
  <2>1. CASE ~Mismatch(x) /\ Returns(x) /\ Ended' = Ended
    <3>1. StateOf(call'[x]) = "ready" /\ \A y \in Threads \ {x} : call'[y] = call[y]
      BY <1>a0, <1>27, <2>1, ReturnsShape, StatesOf DEF Idle
    <3> QED
      BY <1>24, <1>25, <2>1, <3>1 DEF Outcome, Mismatch, Returns
  <2>2. CASE Mismatch(x) /\ Fails(x) /\ todo' = todo /\ Ended'
    <3>1. StateOf(call'[x]) = "failed" /\ \A y \in Threads \ {x} : call'[y] = call[y]
      BY <1>a0, <2>2, FailsShape, StatesOf
    <3> QED
      BY <1>24, <1>25, <2>2, <3>1 DEF Outcome, Mismatch
  <2> QED
    BY <2>1, <2>2
<1>29. got' = [got EXCEPT ![x] = Append(@, [from |-> l[1], rail |-> l[3], tag |-> QueueOf(l)[k].tag,
                                            body |-> QueueOf(l)[k].body])]
  BY <1>a1, <1>24, <1>25
<1>30. /\ QueueOf(l)[k].tag = Head(todo[x]).tag
       /\ \A j \in 1 .. k - 1 : QueueOf(l)[j].tag # Head(todo[x]).tag
       /\ Outcome(x, QueueOf(l)[k])
  BY <1>23, <1>24, <1>25, <1>26, <1>28
<1> QED
  BY <1>a0, <1>a1, <1>11, <1>12, <1>23, <1>26, <1>27, <1>28, <1>29, <1>30, MailTake

(* The receives.                                                            *)
LEMMA ReceiveStep ==
  ASSUME AckInv, NEW x \in Threads, ReceiveReturns(x) \/ ReceiveMismatch(x)
  PROVE  MailStep
<1>0. TypeOK
  BY DEF AckInv
<1>1. CASE ReceiveReturns(x)
  <2>1. /\ run' = run /\ life' = life /\ failure' = failure /\ wire' = wire
        /\ Begins(x, "receive")
        /\ \/ x[1] \in failure /\ Fails(x) /\ UNCHANGED <<inbox, got, todo>>
           \/ Takes(x) /\ ~Mismatch(x) /\ Returns(x)
    BY <1>1 DEF ReceiveReturns, setup, sockets
  <2>2. Ended' = Ended
    BY <2>1, Fixed DEF Ended
  <2>3. x[1] \in failure => Ended
    BY DEF Ended
  <2> QED
    BY <1>0, <2>1, <2>2, <2>3, FailStep, TakesStep
<1>2. CASE ReceiveMismatch(x)
  <2>1. /\ run' = run /\ wire' = wire /\ failure' = failure \cup {x[1]} /\ todo' = todo
        /\ Begins(x, "receive") /\ Takes(x) /\ Mismatch(x) /\ Fails(x)
    BY <1>2 DEF ReceiveMismatch, SetPeerFailure, sockets
  <2>2. Ended'
    BY <2>1 DEF Ended
  <2> QED
    BY <2>1, <2>2, TakesStep
<1> QED
  BY <1>1, <1>2

(* Every step of the mesh is one of the mailboxes: the steps of threads,    *)
LEMMA ThreadMail ==
  ASSUME AckInv, LinkFits, NEW x \in Threads,
         ThreadStep(x) \/ UserAbort(x) \/ SendTimesOut(x) \/ ReceiveTimesOut(x)
  PROVE  MailStep
<1>0. TypeOK /\ call \in [Threads -> CallStates] /\ call[x] \in CallStates
  BY DEF AckInv, TypeOK, CallsOK
<1>1. CASE SendToSelf(x)
  BY <1>1, SelfStep
<1>2. CASE WriteSend(x)
  BY <1>2, WriteSendStep
<1>3. CASE ReceiveReturns(x) \/ ReceiveMismatch(x)
  BY <1>3, ReceiveStep
<1>4. CASE AbortSide(x)
  <2>1. /\ run' = run /\ life' = life /\ inbox' = inbox /\ failure \subseteq failure'
        /\ call[x].at = "abort" /\ call[x].left # {} /\ todo' = todo /\ got' = got
        /\ call' = [call EXCEPT ![x].left = @ \ {First(call[x].left)}]
    BY <1>4 DEF AbortSide, setup, SetPeerFailure
  <2>2. Ended => Ended'
    BY <2>1, EndedStays
  <2>s. CallersSame
    <3>1. /\ call'[x] = [call[x] EXCEPT !.left = @ \ {First(call[x].left)}]
          /\ \A y \in Threads \ {x} : call'[y] = call[y]
      BY <1>0, <2>1
    <3>2. call'[x].at = "abort"
      BY <1>0, <2>1, <3>1, CallShape
    <3> QED
      BY <2>1, <3>1, <3>2, StatesOf DEF CallersSame
  <2>3. CASE UNCHANGED wire
    BY <1>0, <2>1, <2>2, <2>3, <2>s, StillStep
  <2>4. CASE Put(First(call[x].left), [op |-> "abort"])
    <3>1. First(call[x].left) \in Links
      <4>1. call[x] \in CallStates
        BY <1>0 DEF TypeOK, CallsOK
      <4>2. call[x].left \subseteq Links
        BY <2>1, <4>1, CallShape
      <4> QED
        BY <1>0, <2>1, <4>2, FirstIn DEF TypeOK
    <3>2. PICK k \in Links : k = First(call[x].left)
      BY <3>1
    <3> DEFINE f == [op |-> "abort"]
    <3>3. f \in Frames /\ f.op # "send"
      BY DEF Frames
    <3>4. Put(k, f)
      BY <2>4, <3>2
    <3> HIDE DEF f
    <3> QED
      BY <1>0, <2>1, <2>2, <2>s, <3>3, <3>4, ControlStep
  <2> QED
    BY <1>4, <2>3, <2>4 DEF AbortSide
<1>5. ASSUME Fails(x), UNCHANGED <<run, wire, inbox, todo, got>>, Ended' PROVE MailStep
  BY <1>0, <1>5, FailStep
<1>6. CASE \/ WriteSendFails(x) \/ SendSeesFailure(x) \/ UserAbort(x) \/ SendTimesOut(x)
           \/ ReceiveTimesOut(x)
  <2>1. /\ Fails(x) /\ UNCHANGED <<run, wire, inbox, todo, got>>
        /\ failure' = failure \cup {x[1]} \/ (failure' = failure /\ x[1] \in failure)
    BY <1>6 DEF WriteSendFails, SendSeesFailure, UserAbort, SendTimesOut, ReceiveTimesOut,
                SetPeerFailure, sockets
  <2>2. Ended'
    BY <2>1 DEF Ended
  <2> QED
    BY <1>5, <2>1, <2>2
<1>7. CASE StartSend(x)
  <2>1. /\ UNCHANGED <<run, wire, inbox, todo, got, life, failure>> /\ call[x] = Idle
        /\ \/ x[1] \in failure /\ Fails(x)
           \/ call' = [call EXCEPT ![x] = [at |-> "lock", link |-> LinkOf(x)]]
    BY <1>7 DEF StartSend, Begins, setup, sockets
  <2>2. CASE x[1] \in failure /\ Fails(x)
    <3>1. Ended'
      BY <2>1, <2>2 DEF Ended
    <3> QED
      BY <1>5, <2>1, <2>2, <3>1
  <2>3. CASE call' = [call EXCEPT ![x] = [at |-> "lock", link |-> LinkOf(x)]]
    <3>1. call'[x].at = "lock" /\ call[x].at = "idle" /\ \A y \in Threads \ {x} : call'[y] = call[y]
      BY <1>0, <2>1, <2>3 DEF Idle
    <3>2. CallersSame
      BY <2>1, <3>1, StatesOf DEF CallersSame
    <3>3. Ended => Ended'
      BY <2>1, EndedStays
    <3> QED
      BY <1>0, <2>1, <3>2, <3>3, StillStep
  <2> QED
    BY <2>1, <2>2, <2>3
<1>8. CASE LockSend(x)
  <2>1. /\ UNCHANGED <<run, wire, inbox, todo, got, life, failure>> /\ call[x].at = "lock"
        /\ call' = [call EXCEPT ![x] = [at |-> "write", link |-> call[x].link,
                                        sequence |-> next[call[x].link]]]
    BY <1>8 DEF LockSend, setup
  <2>2. call'[x].at = "write" /\ \A y \in Threads \ {x} : call'[y] = call[y]
    BY <1>0, <2>1
  <2>3. CallersSame
    BY <2>1, <2>2, StatesOf DEF CallersSame
  <2>4. Ended => Ended'
    BY <2>1, EndedStays
  <2> QED
    BY <1>0, <2>1, <2>3, <2>4, StillStep
<1>9. CASE SendReturns(x)
  <2>1. /\ UNCHANGED <<run, wire, inbox, got, life, failure>> /\ call[x].at = "acked"
        /\ Returns(x) \/ (x[1] \in failure /\ Fails(x) /\ UNCHANGED todo)
    BY <1>9 DEF SendReturns, setup, sockets
  <2>2. Ended' = Ended /\ (x[1] \in failure => Ended)
    BY <2>1, Fixed DEF Ended
  <2>3. CASE x[1] \in failure /\ Fails(x) /\ UNCHANGED todo
    BY <1>5, <2>1, <2>2, <2>3
  <2>4. CASE Returns(x)
    <3>1. todo[x] # <<>> /\ StateOf(call[x]) = "handed"
      BY <2>1, StatesOf DEF AckInv, OwnSequence
    <3> QED
      BY <1>0, <2>1, <2>2, <2>4, <3>1, StillQueues, MailReturn
  <2> QED
    BY <2>1, <2>3, <2>4
<1>10. CASE AbortReturns(x)
  <2>1. /\ UNCHANGED <<run, wire, inbox, got, life, failure>> /\ call[x].at = "abort"
        /\ call' = [call EXCEPT ![x] = Idle] /\ todo' = [todo EXCEPT ![x] = <<>>]
    BY <1>10 DEF AbortReturns, setup, sockets
  <2>2. /\ StateOf(call[x]) = "failed" /\ StateOf(call'[x]) = "ready"
        /\ \A y \in Threads \ {x} : call'[y] = call[y]
    BY <1>0, <2>1, StatesOf DEF Idle
  <2>3. Ended' = Ended
    BY <2>1, Fixed DEF Ended
  <2> QED
    BY <1>0, <2>1, <2>2, <2>3, StillQueues, MailGiveUp
<1> QED
  BY <1>1, <1>2, <1>3, <1>4, <1>6, <1>7, <1>8, <1>9, <1>10 DEF ThreadStep

(* of readers and of Drop on a side,                                        *)
LEMMA LinkMail ==
  ASSUME AckInv, NEW l \in Links, ReaderStep(l) \/ LeaveSide(l)
  PROVE  MailStep
<1>0. TypeOK
  BY DEF AckInv
<1>1. CASE ReadSend(l)
  BY <1>0, <1>1, ReadSendStep
<1>2. CASE ReadAck(l)
  <2>1. /\ run' = run /\ life' = life /\ inbox' = inbox /\ failure \subseteq failure'
        /\ In(l) # <<>> /\ Head(In(l)).op # "send" /\ Popped(l)
    BY <1>2 DEF ReadAck, setup
  <2>2. Ended => Ended'
    BY <2>1, EndedStays
  <2>3. /\ todo' = todo /\ got' = got
        /\ \A y \in Threads :
             \/ call'[y] = call[y]
             \/ call[y].at = "wait" /\ call'[y] = [call[y] EXCEPT !.at = "acked"]
    BY <1>2 DEF ReadAck
  <2>4. ASSUME NEW y \in Threads PROVE StateOf(call'[y]) = StateOf(call[y])
    <3>1. CASE call[y].at = "wait" /\ call'[y] = [call[y] EXCEPT !.at = "acked"]
      <4>1. call[y] \in InSendCalls
        BY <1>0, <3>1, CallShape DEF TypeOK, CallsOK
      <4>2. call'[y].at = "acked"
        BY <3>1, <4>1 DEF InSendCalls
      <4> QED
        BY <3>1, <4>2, StatesOf
    <3> QED
      BY <2>3, <3>1
  <2>5. CallersSame
    BY <2>3, <2>4 DEF CallersSame
  <2> QED
    BY <1>0, <2>1, <2>2, <2>5, AckStep
<1>3. CASE ReadEnd(l)
  BY <1>0, <1>3, ReadEndStep
<1>4. CASE WriteAck(l) \/ LeaveSide(l)
  <2>1. /\ run' = run /\ life' = life /\ inbox' = inbox /\ failure \subseteq failure'
    BY <1>4 DEF WriteAck, LeaveSide, setup
  <2>s. CallersSame
    BY <1>4 DEF WriteAck, LeaveSide, CallersSame
  <2>2. Ended => Ended'
    BY <2>1, EndedStays
  <2>3. CASE UNCHANGED wire
    BY <1>0, <2>1, <2>2, <2>3, <2>s, StillStep
  <2>4. ASSUME NEW f \in Frames, f.op # "send", Put(l, f) PROVE MailStep
    BY <1>0, <2>1, <2>2, <2>4, <2>s, ControlStep
  <2>5. reader[l].sequence \in Nat
    BY <1>0 DEF TypeOK, SocketsOK
  <2> DEFINE ack == [op |-> "ack", sequence |-> reader[l].sequence]  leave == [op |-> "leave"]
  <2>6. ack \in Frames /\ ack.op # "send" /\ leave \in Frames /\ leave.op # "send"
    BY <2>5 DEF Frames, AckFrames
  <2>7. Put(l, ack) \/ Put(l, leave) \/ UNCHANGED wire
    BY <1>4 DEF WriteAck, LeaveSide
  <2>8. PICK v \in Frames, w \in Frames : v = ack /\ w = leave
    BY <2>6
  <2> QED
    BY <2>3, <2>4, <2>6, <2>7, <2>8
<1>5. CASE LockAck(l) \/ WriteAckFails(l)
  <2>1. run' = run /\ life' = life /\ wire' = wire /\ inbox' = inbox /\ failure \subseteq failure'
    BY <1>5 DEF LockAck, WriteAckFails, SetPeerFailure, setup
  <2>s. CallersSame
    BY <1>5 DEF LockAck, WriteAckFails, CallersSame
  <2>2. Ended => Ended'
    BY <2>1, EndedStays
  <2> QED
    BY <1>0, <2>1, <2>2, <2>s, StillStep
<1> QED
  BY <1>1, <1>2, <1>3, <1>4, <1>5 DEF ReaderStep

(* and of ranks.                                                            *)
LEMMA RankMail ==
  ASSUME AckInv, NEW r \in Ranks, RankStep(r) \/ Crash(r) \/ SetupFails(r)
  PROVE  MailStep
<1>0. TypeOK
  BY DEF AckInv
<1>1. CASE Left(r) \/ Crash(r) \/ SetupFails(r)
  <2>1. Gone(r)
    BY <1>1 DEF Left, Crash, SetupFails
  <2> QED
    BY <1>0, <2>1, GoneStep
<1>2. CASE Dial(r) \/ Accept(r) \/ Ready(r) \/ Open(r) \/ Leave(r)
  <2>1. /\ run' = run /\ wire' = wire /\ inbox' = inbox /\ failure' = failure
        /\ \/ life' = life
           \/ life[r] = "setup" /\ life' = [life EXCEPT ![r] = "open"]
           \/ life' = [life EXCEPT ![r] = "leaving"]
    BY <1>2 DEF Dial, Accept, Ready, Open, Leave, sockets
  <2>2. \A p \in Ranks : life[p] \in {"leaving", "gone"} => life'[p] \in {"leaving", "gone"}
    BY <1>0, <2>1 DEF TypeOK, SetupOK
  <2>3. Ended => Ended'
    BY <2>1, <2>2, EndedStays
  <2>4. CallersSame
    BY <1>2 DEF Dial, Accept, Ready, Open, Leave, CallersSame
  <2> QED
    BY <1>0, <2>1, <2>3, <2>4, StillStep
<1> QED
  BY <1>1, <1>2 DEF RankStep

(* No step of the mesh loses, doubles or reorders a message.                *)
LEMMA StepsMail ==
  ASSUME AckInv, LinkFits, [Next]_vars
  PROVE  MailStep
<1>1. CASE \E x \in Threads : ThreadStep(x) \/ UserAbort(x) \/ SendTimesOut(x) \/ ReceiveTimesOut(x)
  BY <1>1, ThreadMail
<1>2. CASE \E l \in Links : ReaderStep(l) \/ LeaveSide(l)
  BY <1>2, LinkMail
<1>3. CASE \E r \in Ranks : RankStep(r) \/ Crash(r) \/ SetupFails(r)
  BY <1>3, RankMail
<1>4. CASE UNCHANGED vars
  <2>1. TypeOK /\ run' = run /\ wire' = wire /\ inbox' = inbox /\ life' = life /\ failure' = failure
    BY <1>4 DEF AckInv, vars, setup, sockets
  <2>2. Ended => Ended'
    BY <2>1, EndedStays
  <2>3. CallersSame
    BY <1>4 DEF vars, CallersSame
  <2> QED
    BY <2>1, <2>2, <2>3, StillStep
<1> QED
  BY <1>1, <1>2, <1>3, <1>4 DEF Next, Deadline

(* A mesh starts with empty mailboxes.                                      *)
LEMMA InitMail ==
  ASSUME Init PROVE Mail!Init
<1>1. /\ failure = {} /\ \A r \in Ranks : life[r] \in {"setup", "open"} /\ inbox[r] = <<>>
      /\ \A l \in Links : wire[l] = <<>>
  BY DEF Init
<1>2. ~Ended
  BY <1>1 DEF Ended
<1>3. ASSUME NEW l \in AllLinks PROVE QueueOf(l) = <<>>
  <2>1. Queued(l) = <<>>
    BY <1>1, AllLinksShape, OnlyEmpty DEF Queued
  <2>2. InFlight(l) = <<>>
    BY <1>1, OnlyEmpty DEF InFlight
  <2>3. Contents(<<>>) = <<>>
    BY DEF Contents
  <2> QED
    BY <2>1, <2>2, <2>3 DEF QueueOf
<1>4. DOMAIN todo = Threads /\ got = [x \in Threads |-> <<>>]
  BY DEF Init
<1>5. ASSUME NEW x \in Threads PROVE StateOf(call[x]) = "ready"
  <2>1. call[x].at = "idle"
    BY DEF Init, Idle
  <2> QED
    BY <2>1, StatesOf
<1> QED
  BY <1>2, <1>3, <1>4, <1>5 DEF Mail!Init, Mail!Links, Mail!Callers

(* The mesh implements the mailboxes, for every world, number of rails and  *)
(* of threads, program, socket capacity and budget of faults.  A call of    *)
(* send_on_rail adds the message of its own program step to the queue of    *)
(* its link, once, and returns only after that; what receive_on_rail gets,  *)
(* or refuses, is the first message of the queue with its tag and source;   *)
(* no other step changes a queue, except that once a rank has failed or     *)
(* left queues may lose messages from their end.                            *)
THEOREM MeshIsMailboxes == Spec => ImplementsMailboxes
<1> DEFINE I == AckInv /\ LinkFits
<1>1. Init => I
  BY InitAck, LinksFit
<1>2. I /\ [Next]_vars => I'
  BY NextAck, LinksFit
<1>3. Init => Mail!Init
  BY InitMail
<1>4. I /\ [Next]_vars => [Mail!Next]_(Mail!vars)
  BY StepsMail DEF MailStep, Mail!vars, Queues, States, RailsOf
<1> QED
  BY <1>1, <1>2, <1>3, <1>4, PTL DEF Spec, ImplementsMailboxes, Mail!Spec

=============================================================================
