--------------------------- MODULE MCEngineSubmit ---------------------------
(* Instances of EngineSubmit for TLC. *)
EXTENDS EngineSubmit, TLC

\* <<faults, crashes>>
NoTrouble == {<<0, 0>>}
OneFault == {<<1, 0>>}
FaultOrCrashes == {<<1, 0>>, <<0, 2>>}
FaultAndCrash == {<<1, 1>>}

\* Every output admitted when the coins found include all of a set.
AdmitsWith(txs, outs, of, needs) ==
  [t \in txs |-> [S \in SUBSET outs |->
     IF needs[t] \subseteq S THEN {o \in outs : of[o] = t} ELSE {}]]

\* A non-retaining head chain: t1 opens it, t2 and t3 each spend the head
\* before and are admitted only with it.
ChainTx == {"t1", "t2", "t3"}
ChainOut == {"c1", "c2", "c3"}
ChainTxOf == "c1" :> "t1" @@ "c2" :> "t2" @@ "c3" :> "t3"
ChainSpends == "t1" :> {} @@ "t2" :> {"c1"} @@ "t3" :> {"c2"}
ChainAdmit == AdmitsWith(ChainTx, ChainOut, ChainTxOf, ChainSpends)
ChainNone == [t \in ChainTx |-> {}]

\* Two openers, a join that is admitted once it finds one of its coins, and a
\* spend of the join; the manager names every input as history.
JoinTx == {"s1", "s2", "j", "k"}
JoinOut == {"u1", "u2", "v", "w"}
JoinTxOf == "u1" :> "s1" @@ "u2" :> "s2" @@ "v" :> "j" @@ "w" :> "k"
JoinSpends == "s1" :> {} @@ "s2" :> {} @@ "j" :> {"u1", "u2"} @@ "k" :> {"v"}
JoinAdmit ==
  [t \in JoinTx |-> [S \in SUBSET JoinOut |->
     IF JoinSpends[t] = {} \/ JoinSpends[t] \cap S # {} THEN {o \in JoinOut : JoinTxOf[o] = t} ELSE {}]]
JoinNone == [t \in JoinTx |-> {}]
JoinCarries == "s1" :> {} @@ "s2" :> {} @@ "j" :> {"s1", "s2"} @@ "k" :> {"s1", "s2", "j"}

\* The chain's first two transactions, for two engines at once.
DuoTx == {"t1", "t2"}
DuoOut == {"c1", "c2"}
DuoTxOf == "c1" :> "t1" @@ "c2" :> "t2"
DuoSpends == "t1" :> {} @@ "t2" :> {"c1"}
DuoAdmit == AdmitsWith(DuoTx, DuoOut, DuoTxOf, DuoSpends)
DuoNone == [t \in DuoTx |-> {}]

\* Retained history with two consumers: t2 keeps the coin it spends and leaves two
\* outputs, which t3 and t4 spend, each without keeping it.
KeepTx == {"t1", "t2", "t3", "t4"}
KeepOut == {"h1", "h2", "g2", "h3", "h4"}
KeepTxOf == "h1" :> "t1" @@ "h2" :> "t2" @@ "g2" :> "t2" @@ "h3" :> "t3" @@ "h4" :> "t4"
KeepSpends == "t1" :> {} @@ "t2" :> {"h1"} @@ "t3" :> {"h2"} @@ "t4" :> {"g2"}
KeepAdmit == AdmitsWith(KeepTx, KeepOut, KeepTxOf, KeepSpends)
KeepNone == [t \in KeepTx |-> {}]
KeepRetain == "t1" :> {} @@ "t2" :> {"h1"} @@ "t3" :> {} @@ "t4" :> {}

\* One level deeper: t2 and t3 keep the coin they spend, t3 leaves two outputs
\* and t4 spends the first of them without keeping it.
TreeTx == {"t1", "t2", "t3", "t4"}
TreeOut == {"h1", "h2", "h3", "g3", "h4"}
TreeTxOf == "h1" :> "t1" @@ "h2" :> "t2" @@ "h3" :> "t3" @@ "g3" :> "t3" @@ "h4" :> "t4"
TreeSpends == "t1" :> {} @@ "t2" :> {"h1"} @@ "t3" :> {"h2"} @@ "t4" :> {"h3"}
TreeAdmit == AdmitsWith(TreeTx, TreeOut, TreeTxOf, TreeSpends)
TreeNone == [t \in TreeTx |-> {}]
TreeRetain == "t1" :> {} @@ "t2" :> {"h1"} @@ "t3" :> {"h2"} @@ "t4" :> {}
=============================================================================
