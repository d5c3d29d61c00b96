-------------------------- MODULE RankCollectives --------------------------
(***************************************************************************)
(* The collectives of the rank core running (src/rank/device_collective/): *)
(* every rank makes its calls one after the other; a peer-to-peer          *)
(* collective takes an operation number, agrees with the other ranks       *)
(* through the coordinator, and then runs its program (Schedules,          *)
(* Hierarchical) on its own memory, with messages to the other ranks.      *)
(*                                                                         *)
(* The transport is what P2p and PeerMesh promise: a send returns when the *)
(* message is queued at the receiver, messages with one source, rail and   *)
(* tag are received in the order sent, and an abort reaches every rank.    *)
(* A collective of the Direct algorithm is one exchange through the        *)
(* coordinator, whose responses are the subject of Routing; here only its  *)
(* part in the agreement is modelled.                                      *)
(*                                                                         *)
(* An element is the set of the inputs <<operation, rank, position>> that  *)
(* were reduced into it.                                                   *)
(***************************************************************************)
EXTENDS Hierarchical, FiniteSets

CONSTANT
  Jobs   \* the jobs to run: records [world, tuning, calls, same, faults];
         \* `faults' bounds the device errors and late peers of the job

VARIABLES
  job,      \* the job that runs
  done,     \* rank -> number of calls it has made
  ops,      \* rank -> the calls that took an operation number (internal_sequence)
  stage,    \* rank -> idle, agreeing, running, finished, failed, closed
  asked,    \* rank -> what it submitted to the coordinator
  todo,     \* rank -> the phases of its program that are left
  failing,  \* the ranks with a failed thread in the current scope
  mem,      \* rank -> its cells
  net,      \* <<source, destination, rail, tag>> -> messages not yet received
  broken,   \* the ranks whose session has failed
  faults    \* device errors and late peers so far

vars == <<job, done, ops, stage, asked, todo, failing, mem, net, broken, faults>>

Ranks == 0 .. job.world - 1
NoRequest == <<>>
Garbage == {"garbage"}
HostBuffers == {"bundle", "host"}

-----------------------------------------------------------------------------
(* The plan of a call.                                                      *)

PeerAlgorithm(kind) == IF kind \in {"AllToAll", "AllToAllV"} THEN "Pairwise" ELSE "Ring"

(* CollectiveTuning::plan.  Which algorithm the estimates prefer above the  *)
(* threshold is part of the tuning (`estimated'); autotune profiles are not *)
(* modelled.                                                                *)
PlanAlgorithm(t, kind, length) ==
  CASE Len(t.rings[1]) <= 1 \/ t.policy = "Direct" -> "Direct"
    [] t.policy = "Hierarchical" /\ kind \notin {"AllToAll", "AllToAllV"} /\ t.groups # <<>>
         -> "Hierarchical"
    [] t.policy \in {"Ring", "Hierarchical"} -> PeerAlgorithm(kind)
    [] OTHER -> IF length < t.threshold THEN "Direct" ELSE t.estimated

(* What the code has checked of a job before it runs: the rings visit every *)
(* rank, there is a channel, the groups, if any, are not empty and cover    *)
(* the ranks, and a plan names an algorithm its kind of call has.           *)
WellFormedTuning(t, world) ==
  /\ t.channels \in Nat \ {0}
  /\ Len(t.rings) \in Nat \ {0}
  /\ \A n \in 1 .. Len(t.rings) :
       t.rings[n] \in [1 .. world -> 0 .. world - 1] /\ Range(t.rings[n]) = 0 .. world - 1
  /\ t.groups \in Seq(Seq(0 .. world - 1))
  /\ \A g \in DOMAIN t.groups : t.groups[g] # <<>>
  /\ t.groups # <<>> => \A r \in 0 .. world - 1 : \E g \in DOMAIN t.groups : r \in Range(t.groups[g])

WellFormedCall(t, world, c) ==
  /\ c.length \in Nat
  /\ c.kind = "AllToAllV" => c.counts \in [0 .. world - 1 -> Nat]
  /\ \/ PlanAlgorithm(t, c.kind, c.length) = "Direct"
     \/ c.kind \in {"AllToAll", "AllToAllV"} /\ PlanAlgorithm(t, c.kind, c.length) = "Pairwise"
     \/ /\ c.kind \in {"AllReduce", "AllGather", "ReduceScatter"}
        /\ \/ PlanAlgorithm(t, c.kind, c.length) = "Ring"
           \/ PlanAlgorithm(t, c.kind, c.length) = "Hierarchical" /\ t.groups # <<>>

ASSUME JobsAssumption ==
  \A j \in Jobs :
    /\ j.world \in Nat \ {0} /\ j.faults \in Nat
    /\ WellFormedTuning(j.tuning, j.world)
    /\ \A r \in 0 .. j.world - 1 :
         /\ Len(j.calls[r]) \in Nat
         /\ \A n \in 1 .. Len(j.calls[r]) : WellFormedCall(j.tuning, j.world, j.calls[r][n])

(* The call rank r makes next, and the one it made as operation o.          *)
Call(r) == job.calls[r][done[r] + 1]
CallOf(r, o) == job.calls[r][ops[r][o + 1]]

Operation(r) == Len(ops[r]) - 1

AlgorithmOf(c) == PlanAlgorithm(job.tuning, c.kind, c.length)

(* Mutant: the agreement of an all-to-all-v is on the length, too.          *)
AgreementTagLength(c, operation) ==
  LET t == job.tuning IN
  IF AlgorithmOf(c) = "Direct" THEN << c.kind, c.length, c.reduction >>
  ELSE << "Barrier", operation, c.length, <<AlgorithmOf(c), c.kind, c.reduction>>,
          t.channels, t.rings, t.groups, t.rails >>

(* What the ranks must agree on: the descriptor of a direct exchange, or    *)
(* the hash of ring_agreement and hierarchy_agreement.  The lengths of an   *)
(* all-to-all-v are left out.                                               *)
AgreementTag(c, operation) ==
  LET t == job.tuning
      length == IF c.kind = "AllToAllV" THEN 0 ELSE c.length
  IN IF AlgorithmOf(c) = "Direct" THEN << c.kind, length, c.reduction >>
     ELSE << "Barrier", operation, length, <<AlgorithmOf(c), c.kind, c.reduction>>,
             t.channels, t.rings, t.groups, t.rails >>

(* The program of a call.                                                   *)
Program(c, r, operation) ==
  LET t == job.tuning
      algorithm == AlgorithmOf(c)
  IN CASE algorithm = "Direct" -> <<>>
       [] algorithm = "Pairwise" ->
            IF c.kind = "AllToAll" THEN AllToAllPairwise(t, r, operation, c.length)
            ELSE AllToAllVCounts(t, r, operation)
       [] algorithm = "Ring" ->
            (CASE c.kind = "AllReduce" -> AllReduceRing(t, r, operation, c.length)
               [] c.kind = "AllGather" -> AllGatherRing(t, r, operation, c.length)
               [] c.kind = "ReduceScatter" -> ReduceScatterRing(t, r, operation, c.length))
       [] algorithm = "Hierarchical" ->
            (CASE c.kind = "AllReduce" -> AllReduceHierarchical(t, r, operation, c.length)
               [] c.kind = "AllGather" ->
                    AllGatherHierarchical(t, r, operation, job.world, c.length)
               [] c.kind = "ReduceScatter" ->
                    ReduceScatterHierarchical(t, r, operation, job.world, c.length))

-----------------------------------------------------------------------------
(* The memory of a rank.                                                    *)

Written(m, cells, values) ==
  [c \in Range(cells) \cup DOMAIN m |->
     IF c \in Range(cells) THEN values[CHOOSE i \in DOMAIN cells : cells[i] = c] ELSE m[c]]

Peek(m, cells) ==
  [i \in DOMAIN cells |-> IF cells[i] \in DOMAIN m THEN m[cells[i]] ELSE Garbage]

(* The reduction of two elements: an input reduced twice is an error.       *)
Combine(a, b) == IF a \cap b = {} THEN a \cup b ELSE Garbage

Input(r, operation, from, length) == [i \in 1 .. length |-> {<<operation, r, from + i - 1>>}]

(* What is in the buffers of a call when it asks for the agreement.         *)
Buffers(c, r, operation) ==
  LET all == Input(r, operation, 0, c.length)
      input == Written(<<>>, Cells("input", 0, c.length), all)
      shard == c.length \div job.world
  IN CASE AlgorithmOf(c) = "Direct" -> <<>>
       [] c.kind = "AllReduce" -> Written(<<>>, Cells("buffer", 0, c.length), all)
       [] AlgorithmOf(c) = "Hierarchical" -> input
       [] c.kind = "AllGather" -> Written(<<>>, Cells("output", r * c.length, c.length), all)
       [] c.kind = "ReduceScatter" -> Written(<<>>, Cells("working", 0, c.length), all)
       [] c.kind = "AllToAll" ->
            Written(input, Cells("output", r * shard, shard), Input(r, operation, r * shard, shard))
       [] c.kind = "AllToAllV" ->
            Written(input, Cells("send_counts", 0, job.world),
                    [i \in 1 .. job.world |-> c.counts[i - 1]])

-----------------------------------------------------------------------------
Init ==
  /\ job \in Jobs
  /\ done = [r \in Ranks |-> 0]
  /\ ops = [r \in Ranks |-> <<>>]
  /\ stage = [r \in Ranks |-> "idle"]
  /\ asked = [r \in Ranks |-> NoRequest]
  /\ todo = [r \in Ranks |-> <<>>]
  /\ failing = {}
  /\ mem = [r \in Ranks |-> <<>>]
  /\ net = <<>>
  /\ broken = {}
  /\ faults = 0

(* The phases left once the finished ones at the front are joined.          *)
Joined(phases) ==
  LET live == {i \in DOMAIN phases : \E k \in DOMAIN phases[i].threads : phases[i].threads[k] # <<>>}
  IN IF live = {} THEN <<>> ELSE SubSeq(phases, Min(live), Len(phases))

(* Rank r makes its next call and submits what the ranks must agree on.     *)
Begin(r) ==
  LET c == Call(r)
      direct == AlgorithmOf(c) = "Direct"
      operation == Len(ops[r])
  IN /\ stage[r] = "idle" /\ r \notin broken
     /\ done[r] < Len(job.calls[r])
     /\ done' = [done EXCEPT ![r] = @ + 1]
     /\ ops' = IF direct THEN ops ELSE [ops EXCEPT ![r] = Append(@, done[r] + 1)]
     /\ stage' = [stage EXCEPT ![r] = "agreeing"]
     /\ asked' = [asked EXCEPT ![r] = AgreementTag(c, operation)]
     /\ todo' = [todo EXCEPT ![r] = Joined(Program(c, r, operation))]
     /\ mem' = [mem EXCEPT ![r] = Buffers(c, r, operation)]
     /\ UNCHANGED <<job, failing, net, broken, faults>>

(* The calls that allocate or read device memory before they take a number. *)
EarlyDevice(c) ==
  \/ AlgorithmOf(c) = "Direct"
  \/ c.kind = "AllToAll"
  \/ AlgorithmOf(c) = "Ring" /\ c.kind \in {"AllGather", "ReduceScatter"}

(* ... and fail: the call returns an error and no other rank learns of it.  *)
EarlyFault(r) ==
  /\ stage[r] = "idle" /\ r \notin broken
  /\ done[r] < Len(job.calls[r])
  /\ EarlyDevice(Call(r))
  /\ faults < job.faults
  /\ faults' = faults + 1
  /\ done' = [done EXCEPT ![r] = @ + 1]
  /\ UNCHANGED <<job, ops, stage, asked, todo, failing, mem, net, broken>>

(* Mutant: a rank does not wait for the others to agree.                    *)
AgreeAlone ==
  \E r \in Ranks :
    /\ stage[r] = "agreeing"
    /\ stage' = [stage EXCEPT ![r] = IF todo[r] = <<>> THEN "finished" ELSE "running"]
    /\ asked' = [asked EXCEPT ![r] = NoRequest]
    /\ UNCHANGED <<job, done, ops, todo, failing, mem, net, broken, faults>>

(* The coordinator has the requests of all ranks and compares them.         *)
Agree ==
  /\ \A r \in Ranks : stage[r] = "agreeing"
  /\ broken = {}
  /\ IF \A r \in Ranks : asked[r] = asked[0]
     THEN /\ stage' = [r \in Ranks |-> IF todo[r] = <<>> THEN "finished" ELSE "running"]
          /\ asked' = [r \in Ranks |-> NoRequest]
          /\ UNCHANGED broken
     ELSE broken' = Ranks /\ UNCHANGED <<stage, asked>>
  /\ UNCHANGED <<job, done, ops, todo, failing, mem, net, faults>>

-----------------------------------------------------------------------------
(* Running a thread.                                                        *)

Threads(r) == IF stage[r] = "running" THEN DOMAIN todo[r][1].threads ELSE {}
Next1(r, k) == Head(todo[r][1].threads[k])
Ready(r, k) == k \in Threads(r) /\ todo[r][1].threads[k] # <<>> /\ r \notin broken

(* The phases of r when thread k has only `rest' left to do.                *)
With(r, k, rest) == [todo[r] EXCEPT ![1].threads[k] = rest]

(* Mutant: the failure of a thread is forgotten when the scope is joined by *)
(* another one.                                                             *)
ContinueForgets(r, k, rest, failed) ==
  LET scope == With(r, k, rest)
      joined == \A j \in Threads(r) : scope[1].threads[j] = <<>>
      left == IF joined THEN Joined(scope) ELSE scope
  IN /\ todo' = [todo EXCEPT ![r] = IF joined /\ failed THEN <<>> ELSE left]
     /\ failing' = IF failed THEN failing \cup {r} ELSE failing
     /\ stage' = [stage EXCEPT ![r] = CASE joined /\ failed -> "failed"
                                        [] left = <<>> -> "finished"
                                        [] OTHER -> "running"]

(* Thread k of r has `rest' left, or has failed: when it was the last of    *)
(* its scope the call goes on, returns, or returns the error.               *)
Continue(r, k, rest, failed) ==
  LET scope == With(r, k, rest)
      joined == \A j \in Threads(r) : scope[1].threads[j] = <<>>
      bad == failed \/ r \in failing
      left == IF joined THEN Joined(scope) ELSE scope
  IN /\ todo' = [todo EXCEPT ![r] = IF joined /\ bad THEN <<>> ELSE left]
     /\ failing' = IF joined \/ ~bad THEN failing \ {r} ELSE failing \cup {r}
     /\ stage' = [stage EXCEPT ![r] = CASE joined /\ bad -> "failed"
                                        [] left = <<>> /\ ~bad -> "finished"
                                        [] OTHER -> "running"]

Rest(r, k) == Tail(todo[r][1].threads[k])

DoSend(r, k) ==
  /\ Ready(r, k)
  /\ Next1(r, k).do = "send"
  /\ LET i == Next1(r, k)
         link == <<r, i.peer, i.rail, i.tag>>
         message == [op |-> Operation(r), elt |-> i.elt, data |-> Peek(mem[r], i.cells)]
     IN net' = [l \in DOMAIN net \cup {link} |->
                  IF l # link THEN net[l]
                  ELSE Append(IF link \in DOMAIN net THEN net[link] ELSE <<>>, message)]
  /\ Continue(r, k, Rest(r, k), FALSE)
  /\ UNCHANGED <<job, done, ops, asked, mem, broken, faults>>

(* The link a receiving thread waits on.                                    *)
Link(r, k) == <<Next1(r, k).peer, r, Next1(r, k).rail, Next1(r, k).tag>>

Took(link) ==
  IF Len(net[link]) = 1 THEN [l \in DOMAIN net \ {link} |-> net[l]]
  ELSE [net EXCEPT ![link] = Tail(@)]

(* Mutant: what was received is copied where it should be reduced.          *)
StoredCopies(m, i, data) == Written(m, i.cells, data)

(* What the memory is after a message was received.                         *)
Stored(m, i, data) ==
  Written(m, i.cells,
          IF i.mode # "reduce" THEN data
          ELSE [j \in DOMAIN data |-> Combine(Peek(m, i.cells)[j], data[j])])

(* The message is there.  Its element type and its count must be the ones   *)
(* expected, or the receive fails and the session is aborted.               *)
DoReceive(r, k) ==
  /\ Ready(r, k)
  /\ Next1(r, k).do = "receive"
  /\ Link(r, k) \in DOMAIN net
  /\ LET i == Next1(r, k)
         message == Head(net[Link(r, k)])
         expected == message.elt = i.elt /\ Len(message.data) = Len(i.cells)
     IN /\ mem' = IF expected THEN [mem EXCEPT ![r] = Stored(@, i, message.data)] ELSE mem
        /\ broken' = IF expected THEN broken ELSE broken \cup {r}
        /\ Continue(r, k, IF expected THEN Rest(r, k) ELSE <<>>, ~expected)
  /\ net' = Took(Link(r, k))
  /\ UNCHANGED <<job, done, ops, asked, faults>>

DoMove(r, k) ==
  /\ Ready(r, k)
  /\ Next1(r, k).do = "move"
  /\ LET i == Next1(r, k)
     IN mem' = [mem EXCEPT ![r] = Written(@, i.cells, Peek(@, i.from))]
  /\ Continue(r, k, Rest(r, k), FALSE)
  /\ UNCHANGED <<job, done, ops, asked, net, broken, faults>>

(* all_to_all_v_pairwise knows the counts: the rest of the call is laid out.*)
DoLayout(r, k) ==
  LET send == [d \in Ranks |-> mem[r][<<"send_counts", d>>]]
      receive == [s \in Ranks |-> IF s = r THEN send[r] ELSE mem[r][<<"receive_counts", s>>]]
      data == Joined(AllToAllVData(job.tuning, r, Operation(r), send, receive))
  IN /\ Ready(r, k)
     /\ Next1(r, k).do = "layout"
     /\ todo' = [todo EXCEPT ![r] = data]
     /\ stage' = [stage EXCEPT ![r] = IF data = <<>> THEN "finished" ELSE "running"]
     /\ UNCHANGED <<job, done, ops, asked, failing, mem, net, broken, faults>>

-----------------------------------------------------------------------------
(* Failures.                                                                *)

(* Does an instruction use the device (or, for a receive, decode bytes)?    *)
UsesDevice(i) ==
  CASE i.do = "send" -> i.elt = "data" /\ i.cells # <<>> => i.cells[1][1] \notin HostBuffers
    [] i.do = "receive" -> i.elt = "data"
    [] i.do = "move" -> {c[1] : c \in Range(i.cells) \cup Range(i.from)} \ HostBuffers # {}
    [] OTHER -> TRUE

(* propagate_channel_failure: a failed channel aborts the session; an error *)
(* of the calling thread is only returned.                                  *)
PropagateChannelFailure(r) == IF todo[r][1].scoped THEN broken \cup {r} ELSE broken

(* A device error in thread k of r.  A receive has taken its message.       *)
DeviceFault(r, k) ==
  /\ Ready(r, k)
  /\ UsesDevice(Next1(r, k))
  /\ Next1(r, k).do = "receive" => Link(r, k) \in DOMAIN net
  /\ faults < job.faults
  /\ faults' = faults + 1
  /\ net' = IF Next1(r, k).do = "receive" THEN Took(Link(r, k)) ELSE net
  /\ broken' = PropagateChannelFailure(r)
  /\ Continue(r, k, <<>>, TRUE)
  /\ UNCHANGED <<job, done, ops, asked, mem>>

(* Somebody has returned an error, or was given nothing to wait for.        *)
Trouble == faults > 0 \/ broken # {}

(* Mutant: a receive waits for ever.                                        *)
ReceiveNeverTimesOut(r, k) == FALSE /\ UNCHANGED vars

(* A receive whose message does not come times out and aborts the session.  *)
(* Before any failure this is a peer that is late, and counts as a fault.   *)
ReceiveTimesOut(r, k) ==
  /\ Ready(r, k)
  /\ Next1(r, k).do = "receive"
  /\ Link(r, k) \notin DOMAIN net
  /\ Trouble \/ faults < job.faults
  /\ faults' = IF Trouble THEN faults ELSE faults + 1
  /\ broken' = broken \cup {r}
  /\ Continue(r, k, <<>>, TRUE)
  /\ UNCHANGED <<job, done, ops, asked, mem, net>>

(* A round that does not fill times out at the coordinator, which aborts.   *)
RoundTimesOut ==
  /\ \E r \in Ranks : stage[r] = "agreeing"
  /\ \E r \in Ranks : stage[r] # "agreeing"
  /\ Trouble \/ faults < job.faults
  /\ broken # Ranks
  /\ faults' = IF Trouble THEN faults ELSE faults + 1
  /\ broken' = Ranks
  /\ UNCHANGED <<job, done, ops, stage, asked, todo, failing, mem, net>>

(* The abort of one session reaches the others.                             *)
AbortArrives(r) ==
  /\ broken # {} /\ r \notin broken
  /\ broken' = broken \cup {r}
  /\ UNCHANGED <<job, done, ops, stage, asked, todo, failing, mem, net, faults>>

(* A thread of a rank whose session has failed: its next send or receive    *)
(* returns the error.                                                       *)
ThreadFails(r, k) ==
  /\ r \in broken
  /\ k \in Threads(r) /\ todo[r][1].threads[k] # <<>>
  /\ Continue(r, k, <<>>, TRUE)
  /\ UNCHANGED <<job, done, ops, asked, mem, net, broken, faults>>

(* The exchange of a rank whose session has failed returns the error.       *)
AgreementFails(r) ==
  /\ r \in broken /\ stage[r] = "agreeing"
  /\ stage' = [stage EXCEPT ![r] = "failed"]
  /\ asked' = [asked EXCEPT ![r] = NoRequest]
  /\ todo' = [todo EXCEPT ![r] = <<>>]
  /\ UNCHANGED <<job, done, ops, failing, mem, net, broken, faults>>

(* The call returns; a rank that can makes its next one.                    *)
Return(r) ==
  /\ stage[r] \in {"finished", "failed"}
  /\ stage' = [stage EXCEPT ![r] = "idle"]
  /\ mem' = [mem EXCEPT ![r] = <<>>]
  /\ UNCHANGED <<job, done, ops, asked, todo, failing, net, broken, faults>>

(* A rank that has made its calls, or can make no more, is closed.          *)
Close(r) ==
  /\ stage[r] = "idle"
  /\ done[r] = Len(job.calls[r]) \/ r \in broken
  /\ stage' = [stage EXCEPT ![r] = "closed"]
  /\ UNCHANGED <<job, done, ops, asked, todo, failing, mem, net, broken, faults>>

Closed == \A r \in Ranks : stage[r] = "closed"

Step(r) ==
  \/ Begin(r) \/ Return(r) \/ Close(r) \/ AgreementFails(r) \/ AbortArrives(r)
  \/ \E k \in Threads(r) :
       DoSend(r, k) \/ DoReceive(r, k) \/ DoMove(r, k) \/ DoLayout(r, k) \/ ThreadFails(r, k)

Late == RoundTimesOut \/ \E r \in Ranks : \E k \in Threads(r) : ReceiveTimesOut(r, k)

Fault == \E r \in Ranks : EarlyFault(r) \/ \E k \in Threads(r) : DeviceFault(r, k)

Next ==
  \/ \E r \in Ranks : Step(r)
  \/ Agree
  \/ Late
  \/ Fault

(* Threads run, sockets deliver, and a wait ends at its deadline; faults    *)
(* need not happen.                                                         *)
Fairness ==
  /\ \A r \in 0 .. 3 : WF_vars(r \in Ranks /\ Step(r))
  /\ WF_vars(Agree)
  /\ WF_vars(Trouble /\ Late)

Spec == Init /\ [][Next]_vars
FairSpec == Spec /\ Fairness

-----------------------------------------------------------------------------
TypeOK ==
  /\ job \in Jobs
  /\ \A r \in Ranks :
       /\ done[r] \in 0 .. Len(job.calls[r])
       /\ Len(ops[r]) <= done[r]
       /\ stage[r] \in {"idle", "agreeing", "running", "finished", "failed", "closed"}
       /\ (stage[r] = "running") = (todo[r] # <<>> /\ stage[r] # "agreeing")
  /\ failing \subseteq {r \in Ranks : stage[r] = "running"}
  /\ broken \subseteq Ranks
  /\ faults \in 0 .. job.faults
  /\ \A link \in DOMAIN net : net[link] # <<>>

(* The output a collective promises to rank r, from the inputs of all.  An  *)
(* input is named by the operation number its call takes, not by the place  *)
(* of the call in the program: a call that fails before it takes a number   *)
(* leaves the number to the next call of that rank, whose input is then the *)
(* one that its peers combine with theirs.                                  *)
Promised(c, r, operation) ==
  LET shard == c.length \div job.world IN
  CASE c.kind = "AllReduce" ->
         [i \in 1 .. c.length |-> {<<operation, s, i - 1>> : s \in Ranks}]
    [] c.kind = "AllGather" ->
         FlattenSeq([i \in 1 .. job.world |-> Input(i - 1, operation, 0, c.length)])
    [] c.kind = "ReduceScatter" ->
         [i \in 1 .. shard |-> {<<operation, s, r * shard + i - 1>> : s \in Ranks}]
    [] c.kind = "AllToAll" ->
         FlattenSeq([i \in 1 .. job.world |-> Input(i - 1, operation, r * shard, shard)])
    [] c.kind = "AllToAllV" ->
         FlattenSeq([i \in 1 .. job.world |->
           LET counts == CallOf(i - 1, operation).counts
           IN Input(i - 1, operation, PrefixOffset(counts, r), counts[r])])

Output(c, r, length) ==
  Peek(mem[r], Cells(IF c.kind = "AllReduce" THEN "buffer" ELSE "output", 0, length))

(* A call that returns without an error has, on every rank, exactly the     *)
(* inputs of this operation that the collective promises, each reduced once *)
(* and in its place, however the threads of the channels and the ranks were *)
(* interleaved and whichever algorithm the plan chose, also after a fault.  *)
(* An operation is what the ranks agreed on under one number: see Promised. *)
ResultsCorrect ==
  \A r \in Ranks :
    stage[r] = "finished" /\ mem[r] # <<>> =>
      LET c == CallOf(r, Operation(r))
          promised == Promised(c, r, Operation(r))
      IN Output(c, r, Len(promised)) = promised

(* While a rank runs an operation, only messages of that operation are on   *)
(* their way to it: a tag that wrapped around never meets a message that an *)
(* operation with an earlier number left behind.                            *)
NothingLeftOver ==
  \A link \in DOMAIN net : \A i \in DOMAIN net[link] :
    stage[link[2]] = "running" => net[link][i].op = Operation(link[2])

Used(i) == Range(i.cells) \cup (IF i.do = "move" THEN Range(i.from) ELSE {})

Touched(instructions) == UNION {Used(i) : i \in Range(instructions)}

(* The threads of a scope share device buffers without a lock: what one of  *)
(* them still has to read or write, no other one touches.                   *)
ThreadsDisjoint ==
  \A r \in Ranks : \A j, k \in Threads(r) :
    j # k => Touched(todo[r][1].threads[j]) \cap Touched(todo[r][1].threads[k]) = {}

(* The state has its shape and concurrent channel threads keep apart.       *)
Consistent == TypeOK /\ ThreadsDisjoint

(* As long as no device failed and no peer was late, ranks that make the    *)
(* same calls get no error.                                                 *)
NoErrorWithoutFault ==
  faults = 0 /\ job.same => broken = {} /\ \A r \in Ranks : stage[r] # "failed"

(* Every call returns on every rank, also when a device fails on one of     *)
(* them and when the ranks disagree: nobody waits for a rank that has given *)
(* up.                                                                      *)
AllReturn == <>Closed
=============================================================================
