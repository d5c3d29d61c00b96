--------------------------- MODULE MCLocalServer ---------------------------
(* Programs for the threads of LocalServer.                                 *)
EXTENDS LocalServer, TLC

CONSTANTS p1, p2, p3, t1, t2, t3

MCPeers == {p1, p2, p3}
MCThreads == {t1, t2, t3}

Cfg(n) == [n |-> n, global |-> FALSE, valid |-> TRUE]
GlobalCfg(n) == [n |-> n, global |-> TRUE, valid |-> TRUE]
BadCfg == [n |-> 2, global |-> TRUE, valid |-> FALSE]
MCConfigs == {Cfg(2), GlobalCfg(2), GlobalCfg(3), BadCfg}

Register(p, c) == [kind |-> "register", id |-> p, arg |-> c]
AllReduce(p, s, o) == [kind |-> "all_reduce", id |-> p, arg |-> [shape |-> s, op |-> o]]
Reduce(p, s, o, r) ==
  [kind |-> "reduce", id |-> p, arg |-> [shape |-> s, op |-> o, root |-> r]]
Broadcast(p, b) == [kind |-> "broadcast", id |-> p, arg |-> [tensor |-> b]]
FinishCall(p) == [kind |-> "finish", id |-> p, arg |-> NoConfig]
ResetCall(p) == [kind |-> "reset", id |-> p, arg |-> NoConfig]

PeerOf == (t1 :> p1) @@ (t2 :> p2) @@ (t3 :> p3)

(* The same program on every rank: one session, each kind of operation, two *)
(* all-reduces in a row.  The global level may refuse any of them.          *)
SpmdScript ==
  [t \in MCThreads |->
     LET p == PeerOf[t] IN
     << {Register(p, GlobalCfg(3))}, {AllReduce(p, "s", "Sum")}, {AllReduce(p, "s", "Sum")},
        {Broadcast(p, t = t1)}, {Reduce(p, "s", "Mean", p2)}, {FinishCall(p)} >>]

(* It is a program the theorems of LocalServerProofs are about.             *)
ASSUME SpmdScriptAssumption == Script = SpmdScript => SpmdProgram /\ OwnIdProgram

(* Ranks that register and finish twice in a row.                           *)
TwoSessionsScript ==
  [t \in {t1, t2} |->
     LET p == PeerOf[t] IN
     << {Register(p, Cfg(2))}, {AllReduce(p, "s", "Sum")}, {FinishCall(p)},
        {Register(p, Cfg(2))}, {AllReduce(p, "s", "Sum")}, {FinishCall(p)} >>]

(* A rank may retry its registration after a reset by another thread.       *)
ResetScript ==
  (t1 :> << {Register(p1, Cfg(2))} >>)
    @@ (t2 :> << {ResetCall(p2)}, {Register(p2, Cfg(2))} >>)
    @@ (t3 :> << {Register(p3, Cfg(2))} >>)

(* Arbitrary calls: any order, the wrong peer, mismatching parameters, an   *)
(* invalid configuration, resets and finishes at any time.                  *)
AnyCall(p) ==
  { Register(p, Cfg(2)), Register(p, GlobalCfg(2)), Register(p, BadCfg),
    AllReduce(p, "s", "Sum"), AllReduce(p, "s2", "Sum"), AllReduce(p, "s", "Mean"),
    Reduce(p, "s", "Sum", p1), Reduce(p, "s2", "Sum", p1), Reduce(p, "s", "Mean", p1),
    Reduce(p, "s", "Sum", p2), Broadcast(p, TRUE), Broadcast(p, FALSE),
    FinishCall(p), ResetCall(p) }
FirstCall(p) ==
  { Register(p, Cfg(2)), AllReduce(p, "s", "Sum"), Reduce(p, "s", "Sum", p1),
    Broadcast(p, TRUE), FinishCall(p), ResetCall(p) }
FreeScript ==
  (t1 :> << {Register(p1, Cfg(2)), Register(p1, GlobalCfg(2)), Register(p1, BadCfg)},
            FirstCall(p1), AnyCall(p1) >>)
    @@ (t2 :> << {Register(p2, Cfg(2)), Register(p2, GlobalCfg(2))},
                 AnyCall(p2), AnyCall(p2) >>)
    @@ (t3 :> << {AllReduce(p1, "s", "Sum"), Reduce(p3, "s", "Sum", p1),
                  Broadcast(p1, FALSE), FinishCall(p1), ResetCall(p3)} >>)
=============================================================================
