------------------------- MODULE EngineSubmit_proofs -------------------------
(* Proofs about EngineSubmit, for every value of its constants. *)
EXTENDS EngineSubmit, TLAPS

USE DEF Labels, Flags

\* A statement that lands leaves the tables well typed.
LEMMA ApplyType ==
  ASSUME NEW s \in StoreType, NEW w \in Statement
  PROVE  Apply(s, w) \in StoreType
<1>1. CASE w[1] = "mark"
  BY <1>1, Z3 DEF Apply, Statement, StoreType
<1>2. CASE w[1] = "insert"
  <2>1. w[2] \in Outpoint /\ w[3] \in SUBSET Outpoint
    BY <1>2, Zenon DEF Statement
  <2>2. InsertRow(s, w[2], w[3]) \in StoreType
    BY <2>1, Zenon DEF InsertRow, StoreType
  <2> QED BY <1>2, <2>2, Zenon DEF Apply
<1>3. CASE w[1] \in {"undo", "prune"}
  <2>1. w[2] \in Outpoint
    BY <1>3, Zenon DEF Statement
  <2>2. DeleteRow(s, w[2]) \in StoreType
    BY <2>1, Zenon DEF DeleteRow, StoreType
  <2> QED BY <1>3, <2>2, Zenon DEF Apply
<1>4. CASE w[1] = "delete"
  <2>1. w[2] \in Outpoint /\ w[3] \in SUBSET Outpoint
    BY <1>4, Zenon DEF Statement
  <2>2. DeleteRow(s, w[2]) \in StoreType
    BY <2>1, Zenon DEF DeleteRow, StoreType
  <2>3. [DeleteRow(s, w[2]) EXCEPT !.gone = @ \cup {<<w[2], w[3]>>}] \in StoreType
    BY <2>1, <2>2 DEF StoreType
  <2> QED BY <1>4, <2>3, Zenon DEF Apply
<1>5. CASE w[1] = "link"
  <2>1. w[2] \in Outpoint /\ w[3] \in SUBSET Outpoint
    BY <1>5, Zenon DEF Statement
  <2> QED BY <1>5, <2>1, Zenon DEF Apply, StoreType
<1>6. CASE w[1] = "applied"
  <2>1. w[2] \in Tx
    BY <1>6, Zenon DEF Statement
  <2> QED BY <1>6, <2>1, Zenon DEF Apply, StoreType
<1> QED BY <1>1, <1>2, <1>3, <1>4, <1>5, <1>6, Zenon DEF Statement

\* A statement that lands records transactions and deletes coins, and forgets
\* neither; only a "delete" adds to the deleted coins, and only its own.
LEMMA ApplyAccounts ==
  ASSUME NEW s \in StoreType, NEW w \in Statement
  PROVE  /\ s.applied \subseteq Apply(s, w).applied
         /\ w[1] # "delete" => Apply(s, w).gone = s.gone
         /\ w[1] = "delete" => Apply(s, w).gone = s.gone \cup {<<w[2], w[3]>>}
         /\ w[1] = "applied" => w[2] \in Apply(s, w).applied
<1>1. CASE w[1] \in {"mark", "link"}
  BY <1>1, Zenon DEF Apply, StoreType
<1>2. CASE w[1] = "insert"
  BY <1>2, Zenon DEF Apply, InsertRow, StoreType
<1>3. CASE w[1] \in {"undo", "prune"}
  BY <1>3, Zenon DEF Apply, DeleteRow, StoreType
<1>4. CASE w[1] = "delete"
  BY <1>4, Zenon DEF Apply, DeleteRow, StoreType
<1>5. CASE w[1] = "applied"
  BY <1>5, Zenon DEF Apply, StoreType
<1> QED BY <1>1, <1>2, <1>3, <1>4, <1>5, Zenon DEF Statement

-----------------------------------------------------------------------------
(* Type correctness. *)

\* A submit starts with a well-typed record.
LEMMA FreshType ==
  ASSUME NEW t \in Tx, NEW fin \in BOOLEAN, NEW p \in Seq(Frame)
  PROVE  Fresh(t, fin, p) \in SubmitRecord
BY Zenon DEF Fresh, SubmitRecord

\* An engine with a label is in a submit.
LEMMA InSubmit ==
  ASSUME TypeOK, NEW e \in Engine, run[e].pc \in Labels
  PROVE  run[e] \in SubmitRecord
BY DEF TypeOK, Idle

\* An engine that moves on within its submit keeps the types.
LEMMA StepType ==
  ASSUME TypeOK, NEW e \in Engine, NEW r \in {Idle} \cup SubmitRecord, Step(e, r)
  PROVE  run' \in [Engine -> {Idle} \cup SubmitRecord]
BY Zenon DEF TypeOK, Step

\* A call that answers, faults or is refused keeps the bookkeeping of the
\* run's troubles well typed.
LEMMA CallType ==
  ASSUME TypeOK, NEW e \in Engine, NEW who, NEW a, Call(e, who, a)
  PROVE  faults' \in Nat /\ crashes' \in Nat
BY SubmitAssumption DEF TypeOK, Call, Faulted

\* A storage call, whether it lands now, never or late, keeps the types of
\* the tables and of the statements in flight.
LEMMA StoredType ==
  ASSUME TypeOK, NEW e \in Engine, NEW a, NEW w \in Statement, Stored(e, a, w)
  PROVE  /\ store' \in StoreType /\ late' \subseteq Statement
         /\ faults' \in Nat /\ crashes' \in Nat
<1>1. faults' \in Nat /\ crashes' \in Nat
  BY CallType, Zenon DEF Stored
<1>2. Apply(store, w) \in StoreType
  BY ApplyType, Zenon DEF TypeOK
<1> QED BY <1>1, <1>2, Zenon DEF Stored, TypeOK

\* What a call's answer does to the deadline of a submit keeps its record typed.
LEMMA AfterType ==
  ASSUME NEW e \in Engine, run[e] \in SubmitRecord, NEW a
  PROVE  After(e, a) \in SubmitRecord
BY DEF After, SubmitRecord

\* And leaves everything else of the record alone.
LEMMA AfterParts ==
  ASSUME NEW e \in Engine, run[e] \in SubmitRecord, NEW a
  PROVE  /\ After(e, a).tx = run[e].tx /\ After(e, a).parents = run[e].parents
         /\ After(e, a).coins = run[e].coins /\ After(e, a).adm = run[e].adm
         /\ After(e, a).under = run[e].under
BY DEF After, SubmitRecord

\* The end of a submit, of the body itself or of one carried, keeps the types.
LEMMA FinishType ==
  ASSUME TypeOK, NEW e \in Engine, run[e] \in SubmitRecord, NEW b \in BOOLEAN, Finish(e, b)
  PROVE  run' \in [Engine -> {Idle} \cup SubmitRecord]
<1> DEFINE r == run[e]
<1>1. CASE r.parents = <<>> /\ Step(e, Idle)
  BY <1>1, StepType, Zenon
<1>2. CASE r.parents # <<>> /\ Step(e, Fresh(Head(r.parents).tx, FALSE, Tail(r.parents)))
  <2>1. r.parents \in Seq(Frame)
    BY Zenon DEF SubmitRecord
  <2>2. Head(r.parents) \in Frame /\ Tail(r.parents) \in Seq(Frame)
    BY <1>2, <2>1
  <2>3. Fresh(Head(r.parents).tx, FALSE, Tail(r.parents)) \in SubmitRecord
    BY <2>2, FreshType, Zenon DEF Frame
  <2> QED BY <1>2, <2>3, StepType, Zenon
<1>3. CASE /\ r.parents # <<>>
           /\ LET f == r.parents[Len(r.parents)] IN
              Step(e, [Fresh(f.tx, FALSE, <<>>) EXCEPT
                         !.pc = "own", !.coins = f.coins, !.adm = f.adm])
  <2> DEFINE f == r.parents[Len(r.parents)]
  <2>1. r.parents \in Seq(Frame)
    BY Zenon DEF SubmitRecord
  <2>2. f \in Frame
    BY <1>3, <2>1
  <2>3. Fresh(f.tx, FALSE, <<>>) \in SubmitRecord
    <3>1. f.tx \in Tx /\ <<>> \in Seq(Frame)
      BY <2>2 DEF Frame
    <3> QED BY <3>1, FreshType, Zenon
  <2>4. [Fresh(f.tx, FALSE, <<>>) EXCEPT !.pc = "own", !.coins = f.coins, !.adm = f.adm] \in SubmitRecord
    BY <2>2, <2>3, Zenon DEF SubmitRecord, Frame
  <2> QED BY <1>3, <2>4, StepType, Zenon
<1> QED BY <1>1, <1>2, <1>3, Zenon DEF Finish

\* A transaction held back is remembered by its txid, and its submit ends.
LEMMA HoldType ==
  ASSUME TypeOK, NEW e \in Engine, run[e] \in SubmitRecord, Hold(e)
  PROVE  /\ run' \in [Engine -> {Idle} \cup SubmitRecord]
         /\ notLanded' \in [Engine -> SUBSET Tx]
<1>1. run' \in [Engine -> {Idle} \cup SubmitRecord]
  BY FinishType, Zenon DEF Hold
<1>2. notLanded' \in [Engine -> SUBSET Tx]
  BY DEF Hold, TypeOK, SubmitRecord
<1> QED BY <1>1, <1>2, Zenon

\* A topic that may go on enters Phase 3 with a well-typed record.
LEMMA ProceedType ==
  ASSUME TypeOK, NEW e \in Engine, NEW r \in SubmitRecord, Proceed(e, r)
  PROVE  run' \in [Engine -> {Idle} \cup SubmitRecord]
<1>1. [r EXCEPT !.pc = IF r.parents = <<>> THEN "mark" ELSE "rejudge",
                !.todo = r.coins, !.under = {}, !.snap = {}] \in SubmitRecord
  BY DEF SubmitRecord
<1> QED BY <1>1, StepType, Zenon DEF Proceed

\* A predecessor carried by the BEEF is landed by a submit of its own.
LEMMA LandType ==
  ASSUME TypeOK, NEW e \in Engine, run[e] \in SubmitRecord, NEW c \in Tx, Land(e, c)
  PROVE  run' \in [Engine -> {Idle} \cup SubmitRecord]
<1> DEFINE f == [tx |-> run[e].tx, coins |-> run[e].coins, adm |-> run[e].adm]
<1>1. f \in Frame /\ run[e].parents \in Seq(Frame)
  BY Zenon DEF Frame, SubmitRecord
<1>2. <<f>> \o run[e].parents \in Seq(Frame)
  BY <1>1
<1>3. Fresh(c, FALSE, <<f>> \o run[e].parents) \in SubmitRecord
  BY <1>2, FreshType, Zenon
<1> QED BY <1>3, StepType, Zenon DEF Land

\* Every step of a submit keeps the types.
LEMMA ProgressType ==
  ASSUME TypeOK, NEW e \in Engine, Progress(e)
  PROVE  TypeOK'
<1> USE SubmitAssumption
<1> USE DEF Answers
<1>1. ASSUME Marked(e)
      PROVE  TypeOK'
  <2>1. run[e] \in SubmitRecord
    BY <1>1, InSubmit, Zenon DEF Marked
  <2>2. [run[e] EXCEPT !.pc = "insert", !.todo = run[e].adm] \in SubmitRecord
    BY <1>1, <2>1, Zenon DEF SubmitRecord
  <2>3. run' \in [Engine -> {Idle} \cup SubmitRecord]
    BY <1>1, <2>1, <2>2, StepType, HoldType, Zenon DEF Marked
  <2>4. notLanded' \in [Engine -> SUBSET Tx]
    BY <1>1, <2>1, HoldType DEF Marked, TypeOK, SubmitRecord
  <2> QED BY <1>1, <2>3, <2>4, Zenon DEF TypeOK, Marked
<1>2. ASSUME Undone(e)
      PROVE  TypeOK'
  <2>1. run[e] \in SubmitRecord
    BY <1>2, InSubmit, Zenon DEF Undone
  <2>2. run' \in [Engine -> {Idle} \cup SubmitRecord]
    BY <1>2, <2>1, HoldType, Zenon DEF Undone
  <2>3. notLanded' \in [Engine -> SUBSET Tx]
    BY <1>2, <2>1, HoldType, Zenon DEF Undone, TypeOK, SubmitRecord
  <2> QED BY <1>2, <2>2, <2>3, Zenon DEF TypeOK, Undone
<1>3. ASSUME Inserted(e)
      PROVE  TypeOK'
  <2> DEFINE r == run[e]
  <2>1. run[e] \in SubmitRecord
    BY <1>3, InSubmit, Zenon DEF Inserted
  <2>2. [r EXCEPT !.pc = "stale", !.todo = Stale(r),
                   !.flags = @ \cup (IF r.due THEN {"duebefore"} ELSE {})] \in SubmitRecord
    BY <1>3, <2>1, ZenonT(40) DEF SubmitRecord, Stale
  <2>3. run' \in [Engine -> {Idle} \cup SubmitRecord]
    BY <1>3, <2>1, <2>2, StepType, Zenon DEF Inserted
  <2> QED BY <1>3, <2>3, Zenon DEF TypeOK, Inserted
<1>4. ASSUME DeepDone(e)
      PROVE  TypeOK'
  <2>1. run[e] \in SubmitRecord
    BY <1>4, InSubmit, Zenon DEF DeepDone
  <2>2. [run[e] EXCEPT !.pc = "stale"] \in SubmitRecord
    BY <1>4, <2>1, Zenon DEF SubmitRecord
  <2>3. run' \in [Engine -> {Idle} \cup SubmitRecord]
    BY <1>4, <2>1, <2>2, StepType, Zenon DEF DeepDone
  <2> QED BY <1>4, <2>3, Zenon DEF TypeOK, DeepDone
<1>5. ASSUME Deleted(e)
      PROVE  TypeOK'
  <2> DEFINE r == [run[e] EXCEPT !.due = FALSE]
  <2>1. run[e] \in SubmitRecord
    BY <1>5, InSubmit, Zenon DEF Deleted
  <2>2. r \in SubmitRecord
    BY <1>5, <2>1, Zenon DEF SubmitRecord, Stale, Kept
  <2>3. [run[e] EXCEPT !.pc = "link", !.todo = Kept(r)] \in SubmitRecord
    BY <1>5, <2>1, <2>2, ZenonT(40) DEF SubmitRecord, Stale, Kept
  <2>4. [r EXCEPT !.pc = "readback", !.todo = Stale(r)] \in SubmitRecord
    BY <1>5, <2>1, <2>2, ZenonT(40) DEF SubmitRecord, Stale, Kept
  <2>5. run' \in [Engine -> {Idle} \cup SubmitRecord]
    BY <1>5, <2>1, <2>2, <2>3, <2>4, StepType, HoldType, Zenon DEF Deleted
  <2>6. notLanded' \in [Engine -> SUBSET Tx]
    BY <1>5, <2>1, HoldType, Zenon DEF Deleted, TypeOK, SubmitRecord
  <2> QED BY <1>5, <2>5, <2>6, Zenon DEF TypeOK, Deleted
<1>6. ASSUME AllHeld(e)
      PROVE  TypeOK'
  <2>1. run[e] \in SubmitRecord
    BY <1>6, InSubmit, Zenon DEF AllHeld
  <2>2. [run[e] EXCEPT !.pc = "undo", !.todo = run[e].adm] \in SubmitRecord
    BY <1>6, <2>1 DEF SubmitRecord
  <2>3. run' \in [Engine -> {Idle} \cup SubmitRecord]
    BY <1>6, <2>1, <2>2, StepType, Zenon DEF AllHeld
  <2> QED BY <1>6, <2>3, Zenon DEF TypeOK, AllHeld
<1>7. ASSUME Unrecorded(e)
      PROVE  TypeOK'
  <2>1. run[e] \in SubmitRecord
    BY <1>7, InSubmit, Zenon DEF Unrecorded
  <2>2. run' \in [Engine -> {Idle} \cup SubmitRecord]
    BY <1>7, <2>1, HoldType, Zenon DEF Unrecorded
  <2>3. notLanded' \in [Engine -> SUBSET Tx]
    BY <1>7, <2>1, HoldType, Zenon DEF Unrecorded, TypeOK, SubmitRecord
  <2> QED BY <1>7, <2>2, <2>3, Zenon DEF TypeOK, Unrecorded
<1>8. ASSUME NEW a \in Answers, ReadApplied(e, a)
      PROVE  TypeOK'
  <2>1. run[e] \in SubmitRecord
    BY <1>8, InSubmit, Zenon DEF ReadApplied
  <2>2. faults' \in Nat /\ crashes' \in Nat
    BY <1>8, CallType, Zenon DEF ReadApplied, Read
  <2>3. [run[e] EXCEPT !.pc = "coins", !.todo = Spends[run[e].tx]] \in SubmitRecord
    BY <1>8, <2>1, ZenonT(40) DEF SubmitRecord
  <2>4. run' \in [Engine -> {Idle} \cup SubmitRecord]
    BY <1>8, <2>1, <2>3, StepType, HoldType, FinishType, Zenon DEF ReadApplied
  <2>5. notLanded' \in [Engine -> SUBSET Tx]
    BY <1>8, <2>1, HoldType, Zenon DEF ReadApplied, TypeOK, SubmitRecord
  <2> QED BY <1>8, <2>2, <2>4, <2>5, Zenon DEF TypeOK, ReadApplied, Read
<1>9. ASSUME NEW a \in Answers, Judge(e, a)
      PROVE  TypeOK'
  <2> DEFINE r == run[e]
  <2> DEFINE adm == Admit[r.tx][r.coins] \ (IF r.fin THEN Expired ELSE {})
  <2>1. run[e] \in SubmitRecord
    BY <1>9, InSubmit, Zenon DEF Judge
  <2>2. faults' \in Nat /\ crashes' \in Nat
    BY <1>9, CallType, Zenon DEF Judge, Manager
  <2>3. r.tx \in Tx /\ r.coins \in SUBSET Outpoint
    BY <2>1, Zenon DEF SubmitRecord
  <2>4. Admit[r.tx][r.coins] \subseteq Outpoint
    BY <2>3, SubmitAssumption, SMTT(30)
  <2>5. adm \in SUBSET Outpoint
    BY <2>4, Zenon
  <2> HIDE DEF adm
  <2>6. [r EXCEPT !.pc = "ask", !.adm = adm] \in SubmitRecord
    BY <2>1, <2>5, Zenon DEF SubmitRecord
  <2> USE DEF adm
  <2>7. run' \in [Engine -> {Idle} \cup SubmitRecord]
    BY <1>9, <2>1, <2>6, StepType, HoldType, FinishType, Zenon DEF Judge
  <2>8. notLanded' \in [Engine -> SUBSET Tx]
    BY <1>9, <2>1, HoldType DEF Judge, TypeOK, SubmitRecord
  <2> QED BY <1>9, <2>2, <2>7, <2>8, Zenon DEF TypeOK, Judge, Manager
<1>10. ASSUME NEW a \in Answers, Ask(e, a)
      PROVE  TypeOK'
  <2> DEFINE named == IF a = "ok" THEN Names[run[e].tx] ELSE {}
  <2>1. run[e] \in SubmitRecord
    BY <1>10, InSubmit, Zenon DEF Ask
  <2>2. faults' \in Nat /\ crashes' \in Nat
    BY <1>10, CallType, Zenon DEF Ask, Manager, TypeOK
  <2>3. After(e, a) \in SubmitRecord
    BY <1>10, <2>1, AfterType, Zenon
  <2>4. [run[e] EXCEPT !.pc = "own"] \in SubmitRecord
    BY <2>1, Zenon DEF SubmitRecord
  <2>5. named \in SUBSET Outpoint
    BY <2>1, SubmitAssumption, Zenon DEF SubmitRecord
  <2> HIDE DEF named
  <2>6. [run[e] EXCEPT !.pc = "question", !.snap = named] \in SubmitRecord
    BY <2>1, <2>5, Zenon DEF SubmitRecord
  <2> USE DEF named
  <2>7. run' \in [Engine -> {Idle} \cup SubmitRecord]
    BY <1>10, <2>1, <2>3, <2>4, <2>6, StepType, HoldType, ProceedType, Zenon DEF Ask
  <2>8. notLanded' \in [Engine -> SUBSET Tx]
    BY <1>10, <2>1, HoldType, Zenon DEF Ask, TypeOK, SubmitRecord
  <2> QED BY <1>10, <2>2, <2>7, <2>8, Zenon DEF TypeOK, Ask, Manager
<1>11. ASSUME NEW a \in Answers, Rejudge(e, a)
      PROVE  TypeOK'
  <2>1. run[e] \in SubmitRecord
    BY <1>11, InSubmit, Zenon DEF Rejudge
  <2>2. faults' \in Nat /\ crashes' \in Nat
    BY <1>11, CallType, Zenon DEF Rejudge, Manager
  <2>3. [run[e] EXCEPT !.pc = "mark"] \in SubmitRecord
    BY <1>11, <2>1, Zenon DEF SubmitRecord
  <2>4. run' \in [Engine -> {Idle} \cup SubmitRecord]
    BY <1>11, <2>1, <2>3, StepType, FinishType, Zenon DEF Rejudge
  <2> QED BY <1>11, <2>2, <2>4, Zenon DEF TypeOK, Rejudge, Manager
<1>12. ASSUME NEW a \in Answers, SpendHook(e, a)
      PROVE  TypeOK'
  <2>1. run[e] \in SubmitRecord
    BY <1>12, InSubmit, Zenon DEF SpendHook
  <2>2. faults' \in Nat /\ crashes' \in Nat
    BY <1>12, CallType, Zenon DEF SpendHook, Hooked
  <2>3. After(e, a) \in SubmitRecord
    BY <2>1, AfterType, Zenon
  <2>4. Flag(a, {"fault", "hold"}) \in SUBSET Flags
    BY Zenon DEF Flag
  <2>5. [After(e, a) EXCEPT !.pc = "mark", !.cur = {},
                                !.flags = @ \cup Flag(a, {"fault", "hold"})] \in SubmitRecord
    BY <2>3, <2>4 DEF SubmitRecord
  <2>6. run' \in [Engine -> {Idle} \cup SubmitRecord]
    BY <1>12, <2>1, <2>3, <2>5, StepType, Zenon DEF SpendHook
  <2>7. told' \subseteq {"admitted", "spent"} \X Outpoint
    BY <1>12, <2>1, Zenon DEF SpendHook, TypeOK, SubmitRecord
  <2> QED BY <1>12, <2>2, <2>6, <2>7, Zenon DEF TypeOK, SpendHook, Hooked
<1>13. ASSUME NEW a \in Answers, AdmitHook(e, a)
      PROVE  TypeOK'
  <2> DEFINE r == run[e]
  <2>1. run[e] \in SubmitRecord
    BY <1>13, InSubmit, Zenon DEF AdmitHook
  <2>2. faults' \in Nat /\ crashes' \in Nat
    BY <1>13, CallType, Zenon DEF AdmitHook, Hooked
  <2>3. [r EXCEPT !.pc = "insert", !.cur = {}] \in SubmitRecord
    BY <1>13, <2>1, Zenon DEF SubmitRecord
  <2>4. [r EXCEPT !.pc = "undo", !.todo = r.adm \ r.todo, !.cur = {}, !.due = FALSE,
                   !.flags = @ \cup {"fault"}] \in SubmitRecord
    BY <1>13, <2>1, Zenon DEF SubmitRecord
  <2>5. run' \in [Engine -> {Idle} \cup SubmitRecord]
    BY <1>13, <2>1, <2>3, <2>4, StepType, Zenon DEF AdmitHook, Undo
  <2>6. told' \subseteq {"admitted", "spent"} \X Outpoint
    BY <1>13, <2>1, Zenon DEF AdmitHook, TypeOK, SubmitRecord
  <2> QED BY <1>13, <2>2, <2>5, <2>6, Zenon DEF TypeOK, AdmitHook, Hooked
<1>14. ASSUME NEW a \in Answers, DropHook(e, a)
      PROVE  TypeOK'
  <2>1. run[e] \in SubmitRecord
    BY <1>14, InSubmit, Zenon DEF DropHook
  <2>2. faults' \in Nat /\ crashes' \in Nat
    BY <1>14, CallType, Zenon DEF DropHook, Hooked
  <2>3. After(e, a) \in SubmitRecord
    BY <2>1, AfterType, Zenon
  <2>4. [After(e, a) EXCEPT !.pc = "deep"] \in SubmitRecord
    BY <1>14, <2>1, <2>3 DEF SubmitRecord
  <2>5. run' \in [Engine -> {Idle} \cup SubmitRecord]
    BY <1>14, <2>1, <2>3, <2>4, StepType, Zenon DEF DropHook
  <2> QED BY <1>14, <2>2, <2>5, Zenon DEF TypeOK, DropHook, Hooked
<1>15. ASSUME NEW a \in Answers, NEW o \in Outpoint, ReadCoin(e, a, o)
      PROVE  TypeOK'
  <2>1. run[e] \in SubmitRecord
    BY <1>15, InSubmit, Zenon DEF ReadCoin
  <2>2. faults' \in Nat /\ crashes' \in Nat
    BY <1>15, CallType, Zenon DEF ReadCoin, Read
  <2>3. After(e, a) \in SubmitRecord
    BY <2>1, AfterType, Zenon
  <2>4. store.held \subseteq Outpoint
    BY <1>15, <2>1, Zenon DEF TypeOK, StoreType
  <2>5. Flag(a, {"read"}) \subseteq Flags
    BY <1>15, <2>1, Zenon DEF Flag
  <2>6. [After(e, a) EXCEPT
            !.todo = @ \ {o},
            !.coins = IF a = "ok" THEN @ \cup ({o} \cap store.held) ELSE @,
            !.flags = @ \cup Flag(a, {"read"})] \in SubmitRecord
    BY <1>15, <2>1, <2>3, <2>4, <2>5, ZenonT(40) DEF SubmitRecord
  <2>7. run' \in [Engine -> {Idle} \cup SubmitRecord]
    BY <1>15, <2>1, <2>3, <2>4, <2>5, <2>6, StepType, Zenon DEF ReadCoin
  <2> QED BY <1>15, <2>2, <2>7, Zenon DEF TypeOK, ReadCoin, Read
<1>16. ASSUME NEW a \in Answers, NEW o \in Outpoint, FindStale(e, a, o)
      PROVE  TypeOK'
  <2> DEFINE r == After(e, a)
  <2>1. run[e] \in SubmitRecord
    BY <1>16, InSubmit, Zenon DEF FindStale
  <2>2. faults' \in Nat /\ crashes' \in Nat
    BY <1>16, CallType, Zenon DEF FindStale, Read
  <2>3. After(e, a) \in SubmitRecord
    BY <2>1, AfterType, Zenon
  <2>4. store.consumedBy[o] \in SUBSET Outpoint
    BY <1>16, <2>1, Zenon DEF TypeOK, StoreType
  <2>5. [r EXCEPT !.pc = "drop", !.snap = store.consumedBy[o],
                   !.flags = @ \cup {"delstarted"}] \in SubmitRecord
    BY <1>16, <2>1, <2>3, <2>4, Zenon DEF SubmitRecord
  <2>6. [r EXCEPT !.pc = "stale", !.cur = {}] \in SubmitRecord
    BY <1>16, <2>1, <2>3, <2>4, Zenon DEF SubmitRecord
  <2>7. [r EXCEPT !.pc = "stale", !.cur = {}, !.flags = @ \cup {"fault", "delfault"}] \in SubmitRecord
    BY <1>16, <2>1, <2>3, <2>4 DEF SubmitRecord
  <2>8. run' \in [Engine -> {Idle} \cup SubmitRecord]
    BY <1>16, <2>1, <2>3, <2>4, <2>5, <2>6, <2>7, StepType, Zenon DEF FindStale
  <2> QED BY <1>16, <2>2, <2>8, Zenon DEF TypeOK, FindStale, Read
<1>17. ASSUME NEW a \in Answers, NEW o \in Outpoint, ReadBack(e, a, o)
      PROVE  TypeOK'
  <2>1. run[e] \in SubmitRecord
    BY <1>17, InSubmit, Zenon DEF ReadBack
  <2>2. faults' \in Nat /\ crashes' \in Nat
    BY <1>17, CallType, Zenon DEF ReadBack, Read
  <2>3. [run[e] EXCEPT !.todo = @ \ {o}] \in SubmitRecord
    BY <1>17, <2>1, Zenon DEF SubmitRecord
  <2>4. run' \in [Engine -> {Idle} \cup SubmitRecord]
    BY <1>17, <2>1, <2>3, StepType, HoldType, Zenon DEF ReadBack
  <2>5. notLanded' \in [Engine -> SUBSET Tx]
    BY <1>17, <2>1, HoldType DEF ReadBack, TypeOK, SubmitRecord
  <2> QED BY <1>17, <2>2, <2>4, <2>5, Zenon DEF TypeOK, ReadBack, Read
<1>18. ASSUME NEW a \in Answers, NEW o \in Outpoint, ReadRetained(e, a, o)
      PROVE  TypeOK'
  <2> DEFINE r == [After(e, a) EXCEPT !.todo = @ \ {o}, !.flags = @ \cup Flag(a, {"fault"})]
  <2>1. run[e] \in SubmitRecord
    BY <1>18, InSubmit, Zenon DEF ReadRetained
  <2>2. faults' \in Nat /\ crashes' \in Nat
    BY <1>18, CallType, Zenon DEF ReadRetained, Read
  <2>3. After(e, a) \in SubmitRecord
    BY <2>1, AfterType, Zenon
  <2>4. store.consumedBy[o] \in SUBSET Outpoint
    BY <1>18, <2>1, Zenon DEF TypeOK, StoreType
  <2>5. r \in SubmitRecord
    <3>1. After(e, a).todo \ {o} \in SUBSET Outpoint /\ Flag(a, {"fault"}) \in SUBSET Flags
      BY <2>3, Zenon DEF SubmitRecord, Flag
    <3>2. After(e, a).flags \cup Flag(a, {"fault"}) \in SUBSET Flags
      BY <2>3, <3>1, Zenon DEF SubmitRecord
    <3> QED BY <2>3, <3>1, <3>2, Zenon DEF SubmitRecord
  <2>6. [r EXCEPT !.pc = "linkwrite", !.cur = {o}, !.snap = store.consumedBy[o] \cup r.adm] \in SubmitRecord
    <3> HIDE DEF r
    <3>1. store.consumedBy[o] \cup r.adm \in SUBSET Outpoint
      BY <2>4, <2>5, Zenon DEF SubmitRecord
    <3>2. "linkwrite" \in Labels /\ {o} \in SUBSET Outpoint
      BY Zenon
    <3> QED BY <2>5, <3>1, <3>2, Zenon DEF SubmitRecord
  <2>7. run' \in [Engine -> {Idle} \cup SubmitRecord]
    BY <1>18, <2>1, <2>3, <2>4, <2>5, <2>6, StepType, Zenon DEF ReadRetained
  <2> QED BY <1>18, <2>2, <2>7, Zenon DEF TypeOK, ReadRetained, Read
<1>19. ASSUME NEW a \in Answers, NEW p \in Outpoint, NEW o \in Outpoint, ReadConsumed(e, a, p, o)
      PROVE  TypeOK'
  <2> DEFINE r == [After(e, a) EXCEPT !.deep = @ \ {<<p, o>>}]
  <2>1. run[e] \in SubmitRecord
    BY <1>19, InSubmit, Zenon DEF ReadConsumed
  <2>2. faults' \in Nat /\ crashes' \in Nat
    BY <1>19, CallType, Zenon DEF ReadConsumed, Read
  <2>3. After(e, a) \in SubmitRecord
    BY <2>1, AfterType, Zenon
  <2>4. store.consumedBy[o] \in SUBSET Outpoint
    BY <1>19, <2>1, Zenon DEF TypeOK, StoreType
  <2>5. r \in SubmitRecord
    BY <1>19, <2>1, <2>3, <2>4, ZenonT(40) DEF SubmitRecord
  <2>6. [r EXCEPT !.pc = "unref", !.cur = {o}, !.from = {p}, !.snap = store.consumedBy[o] \ {p}] \in SubmitRecord
    <3>1. store.consumedBy[o] \ {p} \in SUBSET Outpoint
      BY <2>4, Zenon
    <3>2. "unref" \in Labels /\ {o} \in SUBSET Outpoint /\ {p} \in SUBSET Outpoint
      BY Zenon
    <3> HIDE DEF r
    <3> QED BY <2>5, <3>1, <3>2 DEF SubmitRecord
  <2>7. run' \in [Engine -> {Idle} \cup SubmitRecord]
    BY <1>19, <2>1, <2>3, <2>4, <2>5, <2>6, StepType, Zenon DEF ReadConsumed
  <2> QED BY <1>19, <2>2, <2>7, Zenon DEF TypeOK, ReadConsumed, Read
<1>20. ASSUME NEW a \in Answers, NEW o \in Outpoint, MarkSpent(e, a, o)
      PROVE  TypeOK'
  <2> DEFINE r == After(e, a)
  <2>1. run[e] \in SubmitRecord
    BY <1>20, InSubmit, Zenon DEF MarkSpent
  <2>2. <<"mark", o>> \in Statement
    BY <1>20, <2>1, Zenon DEF Statement
  <2>3. /\ store' \in StoreType /\ late' \subseteq Statement
        /\ faults' \in Nat /\ crashes' \in Nat
    BY <1>20, <2>2, StoredType, Zenon DEF MarkSpent
  <2>4. After(e, a) \in SubmitRecord
    BY <2>1, AfterType, Zenon
  <2>5. [r EXCEPT
            !.pc = "spendhook", !.cur = {o}, !.todo = @ \ {o},
            !.flags = @ \cup Flag(a, {"fault"} \cup (IF o \in Kept(r) THEN {"hold"} ELSE {}))] \in SubmitRecord
    <3> DEFINE f == Flag(a, {"fault"} \cup (IF o \in Kept(r) THEN {"hold"} ELSE {}))
    <3>1. f \in SUBSET Flags
      BY Zenon DEF Flag
    <3> HIDE DEF f, r
    <3>2. r \in SubmitRecord
      BY <2>4, Zenon DEF r
    <3>3. r.todo \ {o} \in SUBSET Outpoint /\ r.flags \cup f \in SUBSET Flags
      BY <3>1, <3>2, Zenon DEF SubmitRecord
    <3>4. "spendhook" \in Labels /\ {o} \in SUBSET Outpoint
      BY Zenon
    <3>5. [r EXCEPT !.pc = "spendhook", !.cur = {o}, !.todo = @ \ {o}, !.flags = @ \cup f] \in SubmitRecord
      BY <3>2, <3>3, <3>4, Zenon DEF SubmitRecord
    <3> QED BY <3>5, Zenon DEF f
  <2>6. run' \in [Engine -> {Idle} \cup SubmitRecord]
    BY <1>20, <2>1, <2>4, <2>5, StepType, Zenon DEF MarkSpent
  <2> QED BY <1>20, <2>3, <2>6, Zenon DEF TypeOK, MarkSpent
<1>21. ASSUME NEW a \in Answers, NEW o \in Outpoint, InsertOutput(e, a, o)
      PROVE  TypeOK'
  <2> DEFINE r == run[e]
  <2>1. run[e] \in SubmitRecord
    BY <1>21, InSubmit, Zenon DEF InsertOutput
  <2>2. <<"insert", o, Kept(r)>> \in Statement
    BY <1>21, <2>1, Zenon DEF Statement, Kept, SubmitRecord
  <2>3. /\ store' \in StoreType /\ late' \subseteq Statement
        /\ faults' \in Nat /\ crashes' \in Nat
    BY <1>21, <2>2, StoredType, Zenon DEF InsertOutput
  <2>4. [r EXCEPT !.pc = "admithook", !.cur = {o}, !.todo = @ \ {o}] \in SubmitRecord
    BY <1>21, <2>1, ZenonT(40) DEF SubmitRecord
  <2>5. [r EXCEPT !.pc = "undo", !.todo = (r.adm \ r.todo) \cup {o}, !.cur = {}, !.due = FALSE,
                   !.flags = @ \cup {"fault"}] \in SubmitRecord
    BY <1>21, <2>1, ZenonT(40) DEF SubmitRecord
  <2>6. run' \in [Engine -> {Idle} \cup SubmitRecord]
    BY <1>21, <2>1, <2>4, <2>5, StepType, Zenon DEF InsertOutput, Undo
  <2> QED BY <1>21, <2>3, <2>6, Zenon DEF TypeOK, InsertOutput
<1>22. ASSUME NEW a \in Answers, NEW o \in Outpoint, UndoDelete(e, a, o)
      PROVE  TypeOK'
  <2>1. run[e] \in SubmitRecord
    BY <1>22, InSubmit, Zenon DEF UndoDelete
  <2>2. <<"undo", o>> \in Statement
    BY <1>22, <2>1, Zenon DEF Statement
  <2>3. /\ store' \in StoreType /\ late' \subseteq Statement
        /\ faults' \in Nat /\ crashes' \in Nat
    BY <1>22, <2>2, StoredType, Zenon DEF UndoDelete
  <2>4. After(e, a) \in SubmitRecord
    BY <2>1, AfterType, Zenon
  <2>5. [After(e, a) EXCEPT !.pc = "undo", !.cur = {}] \in SubmitRecord
    BY <1>22, <2>1, <2>4 DEF SubmitRecord
  <2>6. run' \in [Engine -> {Idle} \cup SubmitRecord]
    BY <1>22, <2>1, <2>4, <2>5, StepType, Zenon DEF UndoDelete
  <2> QED BY <1>22, <2>3, <2>6, Zenon DEF TypeOK, UndoDelete
<1>23. ASSUME NEW a \in Answers, NEW o \in Outpoint, RecordSpent(e, a, o)
      PROVE  TypeOK'
  <2> DEFINE r == After(e, a)
  <2>1. run[e] \in SubmitRecord
    BY <1>23, InSubmit, Zenon DEF RecordSpent
  <2>2. <<"applied", TxOf[o]>> \in Statement
    BY <1>23, <2>1, Zenon DEF Statement
  <2>3. /\ store' \in StoreType /\ late' \subseteq Statement
        /\ faults' \in Nat /\ crashes' \in Nat
    BY <1>23, <2>2, StoredType, Zenon DEF RecordSpent
  <2>4. After(e, a) \in SubmitRecord
    BY <2>1, AfterType, Zenon
  <2>5. [r EXCEPT !.pc = "find", !.cur = {o}, !.todo = @ \ {o}] \in SubmitRecord
    BY <1>23, <2>1, <2>4, ZenonT(40) DEF SubmitRecord
  <2>6. [r EXCEPT !.todo = @ \ {o}, !.flags = @ \cup {"fault", "delfault"}] \in SubmitRecord
    BY <1>23, <2>1, <2>4, ZenonT(40) DEF SubmitRecord
  <2>7. run' \in [Engine -> {Idle} \cup SubmitRecord]
    BY <1>23, <2>1, <2>4, <2>5, <2>6, StepType, Zenon DEF RecordSpent
  <2>8. notLanded' \in [Engine -> SUBSET Tx]
    <3>1. notLanded \in [Engine -> SUBSET Tx]
      BY Zenon DEF TypeOK
    <3>2. notLanded' = notLanded \/ notLanded' = [notLanded EXCEPT ![e] = @ \ {TxOf[o]}]
      BY <1>23, Zenon DEF RecordSpent
    <3> QED BY <3>1, <3>2
  <2> QED BY <1>23, <2>3, <2>7, <2>8, Zenon DEF TypeOK, RecordSpent
<1>24. ASSUME NEW a \in Answers, NEW o \in Outpoint, LinkRetained(e, a, o)
      PROVE  TypeOK'
  <2>1. run[e] \in SubmitRecord
    BY <1>24, InSubmit, Zenon DEF LinkRetained
  <2>2. <<"link", o, run[e].snap>> \in Statement
    BY <1>24, <2>1, Zenon DEF Statement, SubmitRecord
  <2>3. /\ store' \in StoreType /\ late' \subseteq Statement
        /\ faults' \in Nat /\ crashes' \in Nat
    BY <1>24, <2>2, StoredType, Zenon DEF LinkRetained
  <2>4. After(e, a) \in SubmitRecord
    BY <2>1, AfterType, Zenon
  <2>5. [After(e, a) EXCEPT !.pc = "link", !.cur = {}, !.snap = {},
                                !.flags = @ \cup Flag(a, {"fault"})] \in SubmitRecord
    <3> DEFINE f == After(e, a).flags \cup Flag(a, {"fault"})
    <3>1. f \in SUBSET Flags
      BY <2>4 DEF SubmitRecord, Flag
    <3> HIDE DEF f
    <3>2. [After(e, a) EXCEPT !.pc = "link", !.cur = {}, !.snap = {}, !.flags = f] \in SubmitRecord
      BY <2>4, <3>1 DEF SubmitRecord
    <3> QED BY <3>2, Zenon DEF f
  <2>6. run' \in [Engine -> {Idle} \cup SubmitRecord]
    BY <1>24, <2>1, <2>4, <2>5, StepType, Zenon DEF LinkRetained
  <2> QED BY <1>24, <2>3, <2>6, Zenon DEF TypeOK, LinkRetained
<1>25. ASSUME NEW a \in Answers, NEW p \in Outpoint, NEW o \in Outpoint, Unreference(e, a, p, o)
      PROVE  TypeOK'
  <2> DEFINE r == [After(e, a) EXCEPT !.from = {}]
  <2> DEFINE error == IF p \in Stale(r) THEN {"fault", "delfault"} ELSE {}
  <2>1. run[e] \in SubmitRecord
    BY <1>25, InSubmit, Zenon DEF Unreference
  <2>2. <<"link", o, run[e].snap>> \in Statement
    BY <1>25, <2>1, Zenon DEF Statement, SubmitRecord
  <2>3. /\ store' \in StoreType /\ late' \subseteq Statement
        /\ faults' \in Nat /\ crashes' \in Nat
    BY <1>25, <2>2, StoredType, Zenon DEF Unreference
  <2>4. After(e, a) \in SubmitRecord
    BY <2>1, AfterType, Zenon
  <2>5. r \in SubmitRecord
    BY <1>25, <2>1, <2>4, ZenonT(40) DEF SubmitRecord
  <2>6. [r EXCEPT !.pc = "prune"] \in SubmitRecord
    BY <1>25, <2>1, <2>4, <2>5, ZenonT(40) DEF SubmitRecord
  <2>7. [r EXCEPT !.pc = "deep", !.cur = {}, !.snap = {},
                   !.deep = {d \in @ : d[1] # p}, !.flags = @ \cup error] \in SubmitRecord
    BY <1>25, <2>1, <2>4, <2>5, ZenonT(40) DEF SubmitRecord
  <2>8. run' \in [Engine -> {Idle} \cup SubmitRecord]
    BY <1>25, <2>1, <2>4, <2>5, <2>6, <2>7, StepType, Zenon DEF Unreference
  <2> QED BY <1>25, <2>3, <2>8, Zenon DEF TypeOK, Unreference
<1>26. ASSUME NEW a \in Answers, RecordApplied(e, a)
      PROVE  TypeOK'
  <2>1. run[e] \in SubmitRecord
    BY <1>26, InSubmit, Zenon DEF RecordApplied
  <2>2. <<"applied", run[e].tx>> \in Statement
    BY <1>26, <2>1, Zenon DEF Statement, SubmitRecord
  <2>3. /\ store' \in StoreType /\ late' \subseteq Statement
        /\ faults' \in Nat /\ crashes' \in Nat
    BY <1>26, <2>2, StoredType, Zenon DEF RecordApplied
  <2>4. run' \in [Engine -> {Idle} \cup SubmitRecord]
    BY <1>26, <2>1, HoldType, FinishType, Zenon DEF RecordApplied
  <2>5. Hold(e) \/ notLanded' = [notLanded EXCEPT ![e] = @ \ {run[e].tx}]
    BY <1>26, Zenon DEF RecordApplied
  <2>6. notLanded' \in [Engine -> SUBSET Tx]
    <3>1. CASE Hold(e)
      BY <3>1, <2>1, HoldType, Zenon
    <3>2. CASE notLanded' = [notLanded EXCEPT ![e] = @ \ {run[e].tx}]
      BY <3>2, Zenon DEF TypeOK
    <3> QED BY <2>5, <3>1, <3>2, Zenon
  <2> QED BY <1>26, <2>3, <2>4, <2>6, Zenon DEF TypeOK, RecordApplied
<1>27. ASSUME NEW a \in Answers, Question(e, a)
      PROVE  TypeOK'
  <2> DEFINE r == run[e]
  <2> DEFINE S == Starts(r, r.snap) \ r.coins
  <2> DEFINE carried == CarriedPredecessors(r, S, r.snap)
  <2> DEFINE own == [r EXCEPT !.pc = "own", !.snap = {}]
  <2>1. run[e] \in SubmitRecord
    BY <1>27, InSubmit, Zenon DEF Question
  <2>2. faults' \in Nat /\ crashes' \in Nat
    BY <1>27, CallType, Zenon DEF Question, Read
  <2>3. own \in SubmitRecord
    BY <2>1, Zenon DEF SubmitRecord
  <2>4. \A c \in carried : c \in Tx
    BY <2>1, Zenon DEF CarriedPredecessors, SubmitRecord
  <2>5. \A c \in carried : [own EXCEPT !.under = {c} \cap LandsFirst] \in SubmitRecord
    <3>1. ASSUME NEW c \in carried
          PROVE  [own EXCEPT !.under = {c} \cap LandsFirst] \in SubmitRecord
      <4>1. {c} \cap LandsFirst \in SUBSET Tx
        BY <2>4, <3>1, Zenon
      <4> HIDE DEF own, carried
      <4> QED BY <2>3, <4>1, Zenon DEF SubmitRecord
    <3> QED BY <3>1, Zenon
  <2>6. run' \in [Engine -> {Idle} \cup SubmitRecord]
    <3>1. CASE Step(e, own)
      BY <3>1, <2>3, StepType, Zenon
    <3>2. CASE Proceed(e, r)
      BY <3>2, <2>1, ProceedType, Zenon
    <3>3. CASE \E c \in carried : Land(e, c) \/ Step(e, [own EXCEPT !.under = {c} \cap LandsFirst])
      BY <3>3, <2>1, <2>4, <2>5, StepType, LandType, Zenon
    <3> QED BY <1>27, <3>1, <3>2, <3>3, Zenon DEF Question
  <2> QED BY <1>27, <2>2, <2>6, Zenon DEF TypeOK, Question, Read
<1>28. ASSUME NEW a \in Answers, ReadOwn(e, a)
      PROVE  TypeOK'
  <2>1. run[e] \in SubmitRecord
    BY <1>28, InSubmit, Zenon DEF ReadOwn
  <2>2. faults' \in Nat /\ crashes' \in Nat
    BY <1>28, CallType, Zenon DEF ReadOwn, Read
  <2>3. run[e].under \subseteq Tx /\ run[e].tx \in Tx
    BY <2>1, Zenon DEF SubmitRecord
  <2>4. run' \in [Engine -> {Idle} \cup SubmitRecord]
    BY <1>28, <2>1, <2>3, ProceedType, HoldType, LandType, Zenon DEF ReadOwn
  <2>5. notLanded' \in [Engine -> SUBSET Tx]
    <3>1. notLanded \in [Engine -> SUBSET Tx]
      BY Zenon DEF TypeOK
    <3>2. notLanded' = notLanded \/ notLanded' = [notLanded EXCEPT ![e] = @ \cup {run[e].tx}]
      BY <1>28, Zenon DEF ReadOwn, Hold
    <3> QED BY <2>3, <3>1, <3>2
  <2> QED BY <1>28, <2>2, <2>4, <2>5, Zenon DEF TypeOK, ReadOwn, Read
<1>29. ASSUME NEW a \in Answers, NEW o \in Outpoint, DropRow(e, a, o)
      PROVE  TypeOK'
  <2> DEFINE r == After(e, a)
  <2> DEFINE stale == run[e].pc = "drop"
  <2> DEFINE error == IF stale THEN {"fault", "delfault"} ELSE {}
  <2> DEFINE walk == [r EXCEPT !.pc = "deep", !.cur = {}, !.snap = {},
                               !.deep = @ \cup ({o} \X store.consumes[o])]
  <2> DEFINE w == IF stale THEN <<"delete", o, r.adm>> ELSE <<"prune", o>>
  <2>1. run[e] \in SubmitRecord
    BY <1>29, InSubmit, Zenon DEF DropRow
  <2>2. r \in SubmitRecord
    BY <2>1, AfterType, Zenon
  <2>3. w \in Statement
    BY <2>2, Zenon DEF Statement, SubmitRecord
  <2>4. store.consumes[o] \subseteq Outpoint
    BY Zenon DEF TypeOK, StoreType
  <2>5. walk \in SubmitRecord
    <3>1. {o} \X store.consumes[o] \subseteq Outpoint \X Outpoint
      BY <2>4, Zenon
    <3> QED BY <2>2, <3>1, Zenon DEF SubmitRecord
  <2>6. [walk EXCEPT !.pc = "dropped"] \in SubmitRecord
    BY <2>5, ZenonT(40) DEF SubmitRecord
  <2>7. [walk EXCEPT !.deep = r.deep, !.flags = @ \cup error] \in SubmitRecord
    <3>1. r.deep \in SUBSET (Outpoint \X Outpoint) /\ error \subseteq Flags
      BY <2>2, Zenon DEF SubmitRecord
    <3> HIDE DEF error, walk
    <3> QED BY <2>5, <3>1, ZenonT(40) DEF SubmitRecord
  <2>8. run' \in [Engine -> {Idle} \cup SubmitRecord]
    BY <1>29, <2>5, <2>6, <2>7, StepType, Zenon DEF DropRow
  <2>9. \/ UNCHANGED <<store, late, faults, crashes>>
        \/ Stored(e, a, w)
    BY <1>29, Zenon DEF DropRow
  <2>10. /\ store' \in StoreType /\ late' \subseteq Statement
         /\ faults' \in Nat /\ crashes' \in Nat
    BY <2>3, <2>9, StoredType, Zenon DEF TypeOK
  <2> QED BY <1>29, <2>8, <2>10, Zenon DEF TypeOK, DropRow
<1>30. ASSUME NEW a \in Answers, NEW o \in Outpoint, UndoRead(e, a, o)
      PROVE  TypeOK'
  <2> DEFINE r == After(e, a)
  <2>1. run[e] \in SubmitRecord
    BY <1>30, InSubmit, Zenon DEF UndoRead
  <2>2. faults' \in Nat /\ crashes' \in Nat
    BY <1>30, CallType, Zenon DEF UndoRead, Read
  <2>3. After(e, a) \in SubmitRecord
    BY <2>1, AfterType, Zenon
  <2>4. [r EXCEPT !.pc = "undodelete", !.cur = {o}, !.todo = @ \ {o}] \in SubmitRecord
    BY <1>30, <2>1, <2>3, ZenonT(40) DEF SubmitRecord
  <2>5. [r EXCEPT !.todo = @ \ {o}] \in SubmitRecord
    BY <1>30, <2>1, <2>3, ZenonT(40) DEF SubmitRecord
  <2>6. run' \in [Engine -> {Idle} \cup SubmitRecord]
    BY <1>30, <2>1, <2>3, <2>4, <2>5, StepType, Zenon DEF UndoRead
  <2> QED BY <1>30, <2>2, <2>6, Zenon DEF TypeOK, UndoRead, Read
<1> QED BY <1>1, <1>2, <1>3, <1>4, <1>5, <1>6, <1>7, <1>8, <1>9, <1>10, <1>11, <1>12, <1>13, <1>14, <1>15, <1>16, <1>17, <1>18, <1>19, <1>20, <1>21, <1>22, <1>23, <1>24, <1>25, <1>26, <1>27, <1>28, <1>29, <1>30, Zenon DEF Progress

(* The type invariant. *)
LEMMA TypeNext ==
  ASSUME TypeOK, [Next]_vars
  PROVE  TypeOK'
<1> USE SubmitAssumption
<1>1. CASE UNCHANGED vars
  BY <1>1, Zenon DEF vars, TypeOK
<1>2. ASSUME NEW e \in Engine, Progress(e) PROVE TypeOK'
  BY <1>2, ProgressType, Zenon
<1>3. ASSUME NEW e \in Engine, Crash(e) PROVE TypeOK'
  BY <1>3, StepType DEF Crash, TypeOK
<1>4. ASSUME NEW e \in Engine, NewInvocation(e) PROVE TypeOK'
  BY <1>4, Zenon DEF NewInvocation, TypeOK
<1>5. ASSUME NEW e \in Engine, NEW t \in Tx, NEW fin \in BOOLEAN, Submit(e, t, fin) PROVE TypeOK'
  <2>1. Fresh(t, fin, <<>>) \in SubmitRecord
    <3>1. <<>> \in Seq(Frame)
      OBVIOUS
    <3> QED BY <3>1, FreshType, Zenon
  <2>2. store' \in StoreType
    BY <1>5, Zenon DEF Submit, TypeOK, StoreType
  <2> QED BY <1>5, <2>1, <2>2, StepType, Zenon DEF Submit, TypeOK
<1>6. ASSUME NEW w \in late, LandLate(w) PROVE TypeOK'
  <2>1. Apply(store, w) \in StoreType
    BY ApplyType, Zenon DEF TypeOK
  <2> QED BY <1>6, <2>1, Zenon DEF LandLate, TypeOK
<1> QED BY <1>1, <1>2, <1>3, <1>4, <1>5, <1>6, Zenon DEF Next

\* The initial state is well typed.
LEMMA TypeInit == Init => TypeOK
BY SubmitAssumption DEF Init, TypeOK, EmptyStore, StoreType

\* The tables, the statements in flight and every submit's record stay well
\* typed, for every instance and every number of engines, faults and crashes.
THEOREM SubmitTypeCorrect == Spec => []TypeOK
<1>1. TypeOK /\ [Next]_vars => TypeOK'
  BY TypeNext, Zenon
<1> QED BY <1>1, TypeInit, PTL DEF Spec

-----------------------------------------------------------------------------
(***************************************************************************)
(* A deleted coin is accounted for.  What the lookup services were told    *)
(* and what is recorded only grows, so a step has to be looked at only for *)
(* the engine that takes it and for the delete it may send.                *)
(***************************************************************************)
Grows == told \subseteq told' /\ store.applied \subseteq store'.applied

\* No coin is deleted, and no delete is sent.
NoDelete ==
  /\ store'.gone = store.gone
  /\ \A w \in late' : w[1] = "delete" => w \in late

\* A storage call other than a delete deletes nothing and forgets no record.
LEMMA StoredAccounts ==
  ASSUME TypeOK, NEW e \in Engine, NEW a, NEW w \in Statement, Stored(e, a, w)
  PROVE  /\ store.applied \subseteq store'.applied
         /\ w[1] # "delete" => NoDelete
         /\ w[1] = "applied" /\ a = "ok" => w[2] \in store'.applied
<1>1. store' = Apply(store, w) \/ store' = store
  BY Zenon DEF Stored
<1>2. late' = late \/ late' = late \cup {w}
  BY Zenon DEF Stored
<1>3. a = "ok" => store' = Apply(store, w)
  BY Zenon DEF Stored, Faulted
<1> QED BY <1>1, <1>2, <1>3, ApplyAccounts, ZenonT(40) DEF TypeOK, NoDelete

\* A step of one engine writes that engine's record and no other's.
LEMMA StepRun ==
  ASSUME TypeOK, NEW e \in Engine, NEW r, Step(e, r)
  PROVE  run'[e] = r /\ \A f \in Engine : f # e => run'[f] = run[f]
BY Zenon DEF TypeOK, Step

\* One engine's step keeps the invariant if it deletes nothing and leaves the
\* engine accounted for.
LEMMA OneEngine ==
  ASSUME TypeOK, Accounted, NEW e \in Engine, Grows, NoDelete,
         \A f \in Engine : f # e => run'[f] = run[f],
         run'[e] # Idle => SubmitAccounts(run[e])'
  PROVE  Accounted'
<1>1. GoneIsAccounted'
  BY Zenon DEF Accounted, GoneIsAccounted, Grows, NoDelete
<1>2. DeletesAreAccounted'
  BY Zenon DEF Accounted, DeletesAreAccounted, Grows, NoDelete
<1>3. ASSUME NEW f \in Engine, f # e, run'[f] # Idle
      PROVE  SubmitAccounts(run[f])'
  <2>1. run'[f] = run[f] /\ SubmitAccounts(run[f])
    BY <1>3, Zenon DEF Accounted
  <2> QED BY <2>1, Zenon DEF SubmitAccounts, ToldOf, Grows
<1> QED BY <1>1, <1>2, <1>3, Zenon DEF Accounted

\* The end of a submit leaves the engine where nothing is to be accounted for.
LEMMA FinishAccounts ==
  ASSUME TypeOK, NEW e \in Engine, NEW b, Finish(e, b)
  PROVE  /\ \A f \in Engine : f # e => run'[f] = run[f]
         /\ run'[e] # Idle => SubmitAccounts(run[e])'
<1>1. PICK r : Step(e, r) /\ (r = Idle \/ r.pc \in {"dedup", "own"})
  <2>1. Fresh(Head(run[e].parents).tx, FALSE, Tail(run[e].parents)).pc = "dedup"
    BY Zenon DEF Fresh
  <2>2. LET f == run[e].parents[Len(run[e].parents)] IN
        [Fresh(f.tx, FALSE, <<>>) EXCEPT !.pc = "own", !.coins = f.coins, !.adm = f.adm].pc = "own"
    BY Zenon DEF Fresh
  <2> QED BY <2>1, <2>2, Zenon DEF Finish
<1>2. run'[e] = r /\ \A f \in Engine : f # e => run'[f] = run[f]
  BY <1>1, StepRun, Zenon
<1> QED BY <1>1, <1>2, Zenon DEF SubmitAccounts

\* A topic that enters Phase 3 has nothing to account for yet.
LEMMA ProceedAccounts ==
  ASSUME TypeOK, NEW e \in Engine, NEW r \in SubmitRecord, Proceed(e, r)
  PROVE  /\ \A f \in Engine : f # e => run'[f] = run[f]
         /\ run'[e] # Idle => SubmitAccounts(run[e])'
<1> DEFINE q == [r EXCEPT !.pc = IF r.parents = <<>> THEN "mark" ELSE "rejudge",
                          !.todo = r.coins, !.under = {}, !.snap = {}]
<1>1. run'[e] = q /\ \A f \in Engine : f # e => run'[f] = run[f]
  BY StepRun DEF Proceed
<1>2. q.todo = q.coins /\ q.pc \in {"mark", "rejudge"}
  BY Zenon DEF SubmitRecord
<1> HIDE DEF q
<1> QED BY <1>1, <1>2, Zenon DEF SubmitAccounts, ToldOf

\* A step to a label that accounts for nothing.
Vacant == Labels \ {"rejudge", "mark", "spendhook", "insert", "admithook", "stale",
                    "find", "drop", "prune", "dropped", "deep", "unref"}

\* An engine outside the deletes of Phase 3 accounts for itself.
LEMMA VacantAccounts ==
  ASSUME TypeOK, NEW e \in Engine, NEW r, r.pc \in Vacant, Step(e, r)
  PROVE  /\ \A f \in Engine : f # e => run'[f] = run[f]
         /\ run'[e] # Idle => SubmitAccounts(run[e])'
BY StepRun, Zenon DEF Vacant, SubmitAccounts

\* The submit of a carried predecessor starts with nothing to account for.
LEMMA LandAccounts ==
  ASSUME TypeOK, NEW e \in Engine, NEW c, Land(e, c)
  PROVE  /\ \A f \in Engine : f # e => run'[f] = run[f]
         /\ run'[e] # Idle => SubmitAccounts(run[e])'
<1> DEFINE q == Fresh(c, FALSE, <<[tx |-> run[e].tx, coins |-> run[e].coins,
                                   adm |-> run[e].adm]>> \o run[e].parents)
<1>1. q.pc \in Vacant
  BY Zenon DEF Fresh, Vacant, Labels
<1> QED BY <1>1, VacantAccounts, Zenon DEF Land

\* The delete of a stale coin that is accounted for keeps the invariant,
\* whether it lands now or is still in flight.
LEMMA DeleteAccounts ==
  ASSUME TypeOK, Accounted, NEW e \in Engine, NEW a, NEW o \in Outpoint, NEW S \in SUBSET Outpoint,
         Stored(e, a, <<"delete", o, S>>), Grows,
         TxOf[o] \in store.applied, <<"spent", o>> \in told,
         \A f \in Engine : f # e => run'[f] = run[f],
         run'[e] # Idle => SubmitAccounts(run[e])'
  PROVE  Accounted'
<1> DEFINE w == <<"delete", o, S>>
<1>1. store'.gone \subseteq store.gone \cup {<<o, S>>}
  BY Zenon DEF Stored, Apply, DeleteRow, TypeOK, StoreType
<1>2. late' \subseteq late \cup {w}
  BY Zenon DEF Stored
<1>3. GoneIsAccounted'
  <2> SUFFICES ASSUME NEW g \in store'.gone
               PROVE  TxOf[g[1]] \in store'.applied /\ <<"spent", g[1]>> \in told'
    BY Zenon DEF GoneIsAccounted
  <2>1. CASE g \in store.gone
    BY <2>1, Zenon DEF Accounted, GoneIsAccounted, Grows
  <2>2. CASE g = <<o, S>>
    <3>1. g[1] = o
      BY <2>2, Zenon
    <3> QED BY <3>1, Zenon DEF Grows
  <2> QED BY <1>1, <2>1, <2>2, Zenon
<1>4. DeletesAreAccounted'
  BY <1>2 DEF Accounted, DeletesAreAccounted, Grows
<1>5. ASSUME NEW f \in Engine, f # e, run'[f] # Idle
      PROVE  SubmitAccounts(run[f])'
  <2>1. run'[f] = run[f] /\ SubmitAccounts(run[f])
    BY <1>5, Zenon DEF Accounted
  <2> QED BY <2>1, Zenon DEF SubmitAccounts, ToldOf, Grows
<1> QED BY <1>3, <1>4, <1>5, Zenon DEF Accounted

\* Every step of a submit keeps the accounts.
LEMMA ProgressAccounts ==
  ASSUME TypeOK, Accounted, NEW e \in Engine, Progress(e)
  PROVE  Accounted'
<1> USE SubmitAssumption
<1> USE DEF Answers
<1> DEFINE Others == \A f \in Engine : f # e => run'[f] = run[f]
<1> DEFINE Mine == run'[e] # Idle => SubmitAccounts(run[e])'
<1>1. ASSUME Undone(e)
      PROVE  Accounted'
  <2>1. run[e] \in SubmitRecord
    BY <1>1, InSubmit, Zenon DEF Undone
  <2>2. SubmitAccounts(run[e])
    BY <2>1 DEF Accounted, SubmitRecord, Idle
  <2>4. Grows /\ NoDelete
    BY <1>1, Zenon DEF Undone, Grows, NoDelete
  <2>5. Others /\ Mine
    BY <1>1, FinishAccounts, Zenon DEF Undone, Hold
  <2> QED BY <2>4, <2>5, OneEngine, Zenon
<1>2. ASSUME Unrecorded(e)
      PROVE  Accounted'
  <2>1. run[e] \in SubmitRecord
    BY <1>2, InSubmit, Zenon DEF Unrecorded
  <2>2. SubmitAccounts(run[e])
    BY <2>1 DEF Accounted, SubmitRecord, Idle
  <2>4. Grows /\ NoDelete
    BY <1>2, Zenon DEF Unrecorded, Grows, NoDelete
  <2>5. Others /\ Mine
    BY <1>2, FinishAccounts, Zenon DEF Unrecorded, Hold
  <2> QED BY <2>4, <2>5, OneEngine, Zenon
<1>3. ASSUME AllHeld(e)
      PROVE  Accounted'
  <2>1. run[e] \in SubmitRecord
    BY <1>3, InSubmit, Zenon DEF AllHeld
  <2>2. SubmitAccounts(run[e])
    BY <2>1 DEF Accounted, SubmitRecord, Idle
  <2>4. Grows /\ NoDelete
    BY <1>3, Zenon DEF AllHeld, Grows, NoDelete
  <2>5. Others /\ Mine
    <3>1. [run[e] EXCEPT !.pc = "undo", !.todo = run[e].adm].pc \in Vacant
      BY <2>1, Zenon DEF Vacant, SubmitRecord
    <3> QED BY <1>3, <3>1, <2>1, VacantAccounts, Zenon DEF AllHeld
  <2> QED BY <2>4, <2>5, OneEngine, Zenon
<1>4. ASSUME Marked(e)
      PROVE  Accounted'
  <2>1. run[e] \in SubmitRecord
    BY <1>4, InSubmit, Zenon DEF Marked
  <2>2. SubmitAccounts(run[e])
    BY <2>1 DEF Accounted, SubmitRecord, Idle
  <2>4. Grows /\ NoDelete
    BY <1>4, Zenon DEF Marked, Grows, NoDelete
  <2>5. Others /\ Mine
    <3>1. CASE Hold(e)
      BY <3>1, FinishAccounts, Zenon DEF Hold
    <3>2. CASE "hold" \notin run[e].flags /\ Step(e, [run[e] EXCEPT !.pc = "insert", !.todo = run[e].adm])
      <4>1. Others /\ run'[e] = [run[e] EXCEPT !.pc = "insert", !.todo = run[e].adm]
        BY <3>2, StepRun, Zenon
      <4>2. run'[e].pc = "insert" /\ run'[e].coins = run[e].coins
        BY <4>1, <2>1, Zenon DEF SubmitRecord
      <4>3. Mine
        BY <1>4, <3>2, <4>2, <2>2, <2>4, Zenon DEF Marked, SubmitAccounts, ToldOf, Grows
      <4> QED BY <4>1, <4>3, Zenon
    <3> QED BY <1>4, <3>1, <3>2, Zenon DEF Marked
  <2> QED BY <2>4, <2>5, OneEngine, Zenon
<1>5. ASSUME Inserted(e)
      PROVE  Accounted'
  <2>1. run[e] \in SubmitRecord
    BY <1>5, InSubmit, Zenon DEF Inserted
  <2>2. SubmitAccounts(run[e])
    BY <2>1 DEF Accounted, SubmitRecord, Idle
  <2>4. Grows /\ NoDelete
    BY <1>5, Zenon DEF Inserted, Grows, NoDelete
  <2>5. Others /\ Mine
    <3> DEFINE r == run[e]
    <3>1. CASE Step(e, [r EXCEPT !.pc = "stale", !.todo = Stale(r),
                           !.flags = @ \cup (IF r.due THEN {"duebefore"} ELSE {})])
      <4>1. Others /\ run'[e] = [r EXCEPT !.pc = "stale", !.todo = Stale(r),
                           !.flags = @ \cup (IF r.due THEN {"duebefore"} ELSE {})]
        BY <3>1, StepRun, Zenon
      <4>2. run'[e].pc = "stale" /\ run'[e].coins = run[e].coins /\ run'[e].todo = Stale(run[e])
        BY <4>1, <2>1, Zenon DEF SubmitRecord
      <4>3. Mine
        BY <1>5, <3>1, <4>2, <2>2, <2>4, Zenon DEF Inserted, SubmitAccounts, ToldOf, Grows, Stale
      <4> QED BY <4>1, <4>3, Zenon
    <3> QED BY <1>5, <3>1, Zenon DEF Inserted
  <2> QED BY <2>4, <2>5, OneEngine, Zenon
<1>6. ASSUME DeepDone(e)
      PROVE  Accounted'
  <2>1. run[e] \in SubmitRecord
    BY <1>6, InSubmit, Zenon DEF DeepDone
  <2>2. SubmitAccounts(run[e])
    BY <2>1 DEF Accounted, SubmitRecord, Idle
  <2>4. Grows /\ NoDelete
    BY <1>6, Zenon DEF DeepDone, Grows, NoDelete
  <2>5. Others /\ Mine
    <3>1. CASE Step(e, [run[e] EXCEPT !.pc = "stale"])
      <4>1. Others /\ run'[e] = [run[e] EXCEPT !.pc = "stale"]
        BY <3>1, StepRun, Zenon
      <4>2. run'[e].pc = "stale" /\ run'[e].coins = run[e].coins /\ run'[e].todo = run[e].todo
        BY <4>1, <2>1, Zenon DEF SubmitRecord
      <4>3. Mine
        BY <1>6, <3>1, <4>2, <2>2, <2>4, Zenon DEF DeepDone, SubmitAccounts, ToldOf, Grows
      <4> QED BY <4>1, <4>3, Zenon
    <3> QED BY <1>6, <3>1, Zenon DEF DeepDone
  <2> QED BY <2>4, <2>5, OneEngine, Zenon
<1>7. ASSUME Deleted(e)
      PROVE  Accounted'
  <2>1. run[e] \in SubmitRecord
    BY <1>7, InSubmit, Zenon DEF Deleted
  <2>2. SubmitAccounts(run[e])
    BY <2>1 DEF Accounted, SubmitRecord, Idle
  <2>4. Grows /\ NoDelete
    BY <1>7, Zenon DEF Deleted, Grows, NoDelete
  <2>5. Others /\ Mine
    <3> DEFINE r == [run[e] EXCEPT !.due = FALSE]
    <3>1. CASE Hold(e)
      BY <3>1, FinishAccounts, Zenon DEF Hold
    <3>2. CASE Step(e, [run[e] EXCEPT !.pc = "link", !.todo = Kept(r)])
      <4>1. [run[e] EXCEPT !.pc = "link", !.todo = Kept(r)].pc \in Vacant
        BY <2>1, Zenon DEF Vacant, SubmitRecord
      <4> QED BY <3>2, <4>1, VacantAccounts, Zenon
    <3>3. CASE Step(e, [r EXCEPT !.pc = "readback", !.todo = Stale(r)])
      <4>1. [r EXCEPT !.pc = "readback", !.todo = Stale(r)].pc \in Vacant
        BY <2>1 DEF Vacant, SubmitRecord
      <4> QED BY <3>3, <4>1, VacantAccounts, Zenon
    <3> QED BY <1>7, <3>1, <3>2, <3>3, Zenon DEF Deleted
  <2> QED BY <2>4, <2>5, OneEngine, Zenon
<1>8. ASSUME NEW a \in Answers, ReadApplied(e, a)
      PROVE  Accounted'
  <2>1. run[e] \in SubmitRecord
    BY <1>8, InSubmit, Zenon DEF ReadApplied
  <2>2. SubmitAccounts(run[e])
    BY <2>1 DEF Accounted, SubmitRecord, Idle
  <2>4. Grows /\ NoDelete
    BY <1>8, Zenon DEF ReadApplied, Grows, NoDelete, Read, Call
  <2>5. Others /\ Mine
    <3>1. CASE Hold(e)
      BY <3>1, FinishAccounts, Zenon DEF Hold
    <3>2. CASE Finish(e, TRUE) \/ Finish(e, FALSE)
      BY <3>2, FinishAccounts, Zenon
    <3>3. CASE Step(e, [run[e] EXCEPT !.pc = "coins", !.todo = Spends[run[e].tx]])
      <4>1. [run[e] EXCEPT !.pc = "coins", !.todo = Spends[run[e].tx]].pc \in Vacant
        BY <2>1, Zenon DEF Vacant, SubmitRecord
      <4> QED BY <3>3, <4>1, VacantAccounts, Zenon
    <3> QED BY <1>8, <3>1, <3>2, <3>3, Zenon DEF ReadApplied
  <2> QED BY <2>4, <2>5, OneEngine, Zenon
<1>9. ASSUME NEW a \in Answers, Judge(e, a)
      PROVE  Accounted'
  <2>1. run[e] \in SubmitRecord
    BY <1>9, InSubmit, Zenon DEF Judge
  <2>2. SubmitAccounts(run[e])
    BY <2>1 DEF Accounted, SubmitRecord, Idle
  <2>4. Grows /\ NoDelete
    BY <1>9, Zenon DEF Judge, Grows, NoDelete, Manager, Call
  <2>5. Others /\ Mine
    <3> DEFINE r == run[e]
    <3> DEFINE adm == Admit[r.tx][r.coins] \ (IF r.fin THEN Expired ELSE {})
    <3>1. CASE Hold(e)
      BY <3>1, FinishAccounts, Zenon DEF Hold
    <3>2. CASE Finish(e, TRUE) \/ Finish(e, FALSE)
      BY <3>2, FinishAccounts, Zenon
    <3>3. CASE Step(e, [r EXCEPT !.pc = "ask", !.adm = adm])
      <4>1. [r EXCEPT !.pc = "ask", !.adm = adm].pc \in Vacant
        BY <2>1, Zenon DEF Vacant, SubmitRecord
      <4> QED BY <3>3, <4>1, VacantAccounts, Zenon
    <3> QED BY <1>9, <3>1, <3>2, <3>3, Zenon DEF Judge
  <2> QED BY <2>4, <2>5, OneEngine, Zenon
<1>10. ASSUME NEW a \in Answers, Rejudge(e, a)
      PROVE  Accounted'
  <2>1. run[e] \in SubmitRecord
    BY <1>10, InSubmit, Zenon DEF Rejudge
  <2>2. SubmitAccounts(run[e])
    BY <2>1 DEF Accounted, SubmitRecord, Idle
  <2>4. Grows /\ NoDelete
    BY <1>10, Zenon DEF Rejudge, Grows, NoDelete, Manager, Call
  <2>5. Others /\ Mine
    <3>1. CASE Finish(e, TRUE) \/ Finish(e, FALSE)
      BY <3>1, FinishAccounts, Zenon
    <3>2. CASE Step(e, [run[e] EXCEPT !.pc = "mark"])
      <4>1. Others /\ run'[e] = [run[e] EXCEPT !.pc = "mark"]
        BY <3>2, StepRun, Zenon
      <4>2. run'[e].pc = "mark" /\ run'[e].coins = run[e].coins /\ run'[e].todo = run[e].todo
        BY <4>1, <2>1, Zenon DEF SubmitRecord
      <4>3. Mine
        BY <1>10, <3>2, <4>2, <2>2, <2>4, Zenon DEF Rejudge, SubmitAccounts, ToldOf, Grows
      <4> QED BY <4>1, <4>3, Zenon
    <3> QED BY <1>10, <3>1, <3>2, Zenon DEF Rejudge
  <2> QED BY <2>4, <2>5, OneEngine, Zenon
<1>11. ASSUME NEW a \in Answers, SpendHook(e, a)
      PROVE  Accounted'
  <2>1. run[e] \in SubmitRecord
    BY <1>11, InSubmit, Zenon DEF SpendHook
  <2>2. SubmitAccounts(run[e])
    BY <2>1 DEF Accounted, SubmitRecord, Idle
  <2>4. Grows /\ NoDelete
    BY <1>11, Zenon DEF SpendHook, Grows, NoDelete, Hooked, Call
  <2>5. Others /\ Mine
    <3>1. CASE Step(e, [After(e, a) EXCEPT !.pc = "mark", !.cur = {},
                                    !.flags = @ \cup Flag(a, {"fault", "hold"})])
      <4>1. Others /\ run'[e] = [After(e, a) EXCEPT !.pc = "mark", !.cur = {},
                                    !.flags = @ \cup Flag(a, {"fault", "hold"})]
        BY <3>1, StepRun, Zenon
      <4>2. run'[e].pc = "mark" /\ run'[e].coins = run[e].coins /\ run'[e].todo = run[e].todo /\ run'[e].flags = run[e].flags \cup Flag(a, {"fault", "hold"})
        BY <4>1, <2>1 DEF SubmitRecord, After
      <4>3. Mine
        BY <1>11, <3>1, <4>2, <2>2, <2>4, Zenon DEF SpendHook, SubmitAccounts, ToldOf, Grows, Flag
      <4> QED BY <4>1, <4>3, Zenon
    <3> QED BY <1>11, <3>1, Zenon DEF SpendHook
  <2> QED BY <2>4, <2>5, OneEngine, Zenon
<1>12. ASSUME NEW a \in Answers, AdmitHook(e, a)
      PROVE  Accounted'
  <2>1. run[e] \in SubmitRecord
    BY <1>12, InSubmit, Zenon DEF AdmitHook
  <2>2. SubmitAccounts(run[e])
    BY <2>1 DEF Accounted, SubmitRecord, Idle
  <2>4. Grows /\ NoDelete
    BY <1>12, Zenon DEF AdmitHook, Grows, NoDelete, Hooked, Call
  <2>5. Others /\ Mine
    <3> DEFINE r == run[e]
    <3>1. CASE Step(e, [r EXCEPT !.pc = "insert", !.cur = {}])
      <4>1. Others /\ run'[e] = [r EXCEPT !.pc = "insert", !.cur = {}]
        BY <3>1, StepRun, Zenon
      <4>2. run'[e].pc = "insert" /\ run'[e].coins = run[e].coins
        BY <4>1, <2>1, Zenon DEF SubmitRecord
      <4>3. Mine
        BY <1>12, <3>1, <4>2, <2>2, <2>4, Zenon DEF AdmitHook, Undo, SubmitAccounts, ToldOf, Grows
      <4> QED BY <4>1, <4>3, Zenon
    <3>2. CASE Step(e, [r EXCEPT !.pc = "undo", !.todo = r.adm \ r.todo, !.cur = {}, !.due = FALSE,
                       !.flags = @ \cup {"fault"}])
      <4>1. [r EXCEPT !.pc = "undo", !.todo = r.adm \ r.todo, !.cur = {}, !.due = FALSE,
                       !.flags = @ \cup {"fault"}].pc \in Vacant
        BY <2>1, Zenon DEF Vacant, SubmitRecord
      <4> QED BY <3>2, <4>1, VacantAccounts, Zenon
    <3> QED BY <1>12, <3>1, <3>2, Zenon DEF AdmitHook, Undo
  <2> QED BY <2>4, <2>5, OneEngine, Zenon
<1>13. ASSUME NEW a \in Answers, DropHook(e, a)
      PROVE  Accounted'
  <2>1. run[e] \in SubmitRecord
    BY <1>13, InSubmit, Zenon DEF DropHook
  <2>2. SubmitAccounts(run[e])
    BY <2>1 DEF Accounted, SubmitRecord, Idle
  <2>4. Grows /\ NoDelete
    BY <1>13, Zenon DEF DropHook, Grows, NoDelete, Hooked, Call
  <2>5. Others /\ Mine
    <3>1. CASE Step(e, [After(e, a) EXCEPT !.pc = "deep"])
      <4>1. Others /\ run'[e] = [After(e, a) EXCEPT !.pc = "deep"]
        BY <3>1, StepRun, Zenon
      <4>2. run'[e].pc = "deep" /\ run'[e].coins = run[e].coins /\ run'[e].todo = run[e].todo
        BY <4>1, <2>1, ZenonT(40) DEF SubmitRecord, After
      <4>3. Mine
        BY <1>13, <3>1, <4>2, <2>2, <2>4, Zenon DEF DropHook, SubmitAccounts, ToldOf, Grows
      <4> QED BY <4>1, <4>3, Zenon
    <3> QED BY <1>13, <3>1, Zenon DEF DropHook
  <2> QED BY <2>4, <2>5, OneEngine, Zenon
<1>14. ASSUME NEW a \in Answers, NEW o \in Outpoint, ReadCoin(e, a, o)
      PROVE  Accounted'
  <2>1. run[e] \in SubmitRecord
    BY <1>14, InSubmit, Zenon DEF ReadCoin
  <2>2. SubmitAccounts(run[e])
    BY <2>1 DEF Accounted, SubmitRecord, Idle
  <2>4. Grows /\ NoDelete
    BY <1>14, Zenon DEF ReadCoin, Grows, NoDelete, Read, Call
  <2>5. Others /\ Mine
    <3>1. CASE Step(e, [After(e, a) EXCEPT
                !.todo = @ \ {o},
                !.coins = IF a = "ok" THEN @ \cup ({o} \cap store.held) ELSE @,
                !.flags = @ \cup Flag(a, {"read"})])
      <4>1. Others /\ run'[e] = [After(e, a) EXCEPT
                !.todo = @ \ {o},
                !.coins = IF a = "ok" THEN @ \cup ({o} \cap store.held) ELSE @,
                !.flags = @ \cup Flag(a, {"read"})]
        BY <3>1, StepRun, Zenon
      <4>2. run'[e].pc = "coins"
        BY <1>14, <4>1, <2>1, Zenon DEF SubmitRecord, After, ReadCoin
      <4>3. Mine
        BY <1>14, <3>1, <4>2, <2>2, <2>4, Zenon DEF ReadCoin, SubmitAccounts, ToldOf, Grows
      <4> QED BY <4>1, <4>3, Zenon
    <3> QED BY <1>14, <3>1, Zenon DEF ReadCoin
  <2> QED BY <2>4, <2>5, OneEngine, Zenon
<1>15. ASSUME NEW a \in Answers, NEW o \in Outpoint, UndoRead(e, a, o)
      PROVE  Accounted'
  <2>1. run[e] \in SubmitRecord
    BY <1>15, InSubmit, Zenon DEF UndoRead
  <2>2. SubmitAccounts(run[e])
    BY <2>1 DEF Accounted, SubmitRecord, Idle
  <2>4. Grows /\ NoDelete
    BY <1>15, Zenon DEF UndoRead, Grows, NoDelete, Read, Call
  <2>5. Others /\ Mine
    <3> DEFINE r == After(e, a)
    <3>1. CASE Step(e, [r EXCEPT !.pc = "undodelete", !.cur = {o}, !.todo = @ \ {o}])
      <4>1. [r EXCEPT !.pc = "undodelete", !.cur = {o}, !.todo = @ \ {o}].pc \in Vacant
        BY <2>1, Zenon DEF Vacant, SubmitRecord, After
      <4> QED BY <3>1, <4>1, VacantAccounts, Zenon
    <3>2. CASE Step(e, [r EXCEPT !.todo = @ \ {o}])
      <4>1. Others /\ run'[e] = [r EXCEPT !.todo = @ \ {o}]
        BY <3>2, StepRun, Zenon
      <4>2. run'[e].pc = "undo"
        BY <1>15, <4>1, <2>1, Zenon DEF SubmitRecord, After, UndoRead
      <4>3. Mine
        BY <1>15, <3>2, <4>2, <2>2, <2>4, Zenon DEF UndoRead, SubmitAccounts, ToldOf, Grows
      <4> QED BY <4>1, <4>3, Zenon
    <3> QED BY <1>15, <3>1, <3>2, Zenon DEF UndoRead
  <2> QED BY <2>4, <2>5, OneEngine, Zenon
<1>16. ASSUME NEW a \in Answers, NEW o \in Outpoint, FindStale(e, a, o)
      PROVE  Accounted'
  <2>1. run[e] \in SubmitRecord
    BY <1>16, InSubmit, Zenon DEF FindStale
  <2>2. SubmitAccounts(run[e])
    BY <2>1 DEF Accounted, SubmitRecord, Idle
  <2>4. Grows /\ NoDelete
    BY <1>16, Zenon DEF FindStale, Grows, NoDelete, Read, Call
  <2>5. Others /\ Mine
    <3> DEFINE r == After(e, a)
    <3>1. CASE Step(e, [r EXCEPT !.pc = "drop", !.snap = store.consumedBy[o],
                       !.flags = @ \cup {"delstarted"}])
      <4>1. Others /\ run'[e] = [r EXCEPT !.pc = "drop", !.snap = store.consumedBy[o],
                       !.flags = @ \cup {"delstarted"}]
        BY <3>1, StepRun, Zenon
      <4>2. run'[e].pc = "drop" /\ run'[e].coins = run[e].coins /\ run'[e].todo = run[e].todo /\ run'[e].cur = run[e].cur
        BY <4>1, <2>1, ZenonT(40) DEF SubmitRecord, After
      <4>3. Mine
        BY <1>16, <3>1, <4>2, <2>2, <2>4, Zenon DEF FindStale, SubmitAccounts, ToldOf, Grows
      <4> QED BY <4>1, <4>3, Zenon
    <3>2. CASE Step(e, [r EXCEPT !.pc = "stale", !.cur = {}])
      <4>1. Others /\ run'[e] = [r EXCEPT !.pc = "stale", !.cur = {}]
        BY <3>2, StepRun, Zenon
      <4>2. run'[e].pc = "stale" /\ run'[e].coins = run[e].coins /\ run'[e].todo = run[e].todo
        BY <4>1, <2>1, Zenon DEF SubmitRecord, After
      <4>3. Mine
        BY <1>16, <3>2, <4>2, <2>2, <2>4, Zenon DEF FindStale, SubmitAccounts, ToldOf, Grows
      <4> QED BY <4>1, <4>3, Zenon
    <3>3. CASE Step(e, [r EXCEPT !.pc = "stale", !.cur = {}, !.flags = @ \cup {"fault", "delfault"}])
      <4>1. Others /\ run'[e] = [r EXCEPT !.pc = "stale", !.cur = {}, !.flags = @ \cup {"fault", "delfault"}]
        BY <3>3, StepRun, Zenon
      <4>2. run'[e].pc = "stale" /\ run'[e].coins = run[e].coins /\ run'[e].todo = run[e].todo
        BY <4>1, <2>1 DEF SubmitRecord, After
      <4>3. Mine
        BY <1>16, <3>3, <4>2, <2>2, <2>4, Zenon DEF FindStale, SubmitAccounts, ToldOf, Grows
      <4> QED BY <4>1, <4>3, Zenon
    <3> QED BY <1>16, <3>1, <3>2, <3>3, Zenon DEF FindStale
  <2> QED BY <2>4, <2>5, OneEngine, Zenon
<1>17. ASSUME NEW a \in Answers, NEW o \in Outpoint, ReadBack(e, a, o)
      PROVE  Accounted'
  <2>1. run[e] \in SubmitRecord
    BY <1>17, InSubmit, Zenon DEF ReadBack
  <2>2. SubmitAccounts(run[e])
    BY <2>1 DEF Accounted, SubmitRecord, Idle
  <2>4. Grows /\ NoDelete
    BY <1>17, Zenon DEF ReadBack, Grows, NoDelete, Read, Call
  <2>5. Others /\ Mine
    <3>1. CASE Hold(e)
      BY <3>1, FinishAccounts, Zenon DEF Hold
    <3>2. CASE Step(e, [run[e] EXCEPT !.todo = @ \ {o}])
      <4>1. Others /\ run'[e] = [run[e] EXCEPT !.todo = @ \ {o}]
        BY <3>2, StepRun, Zenon
      <4>2. run'[e].pc = "readback"
        BY <1>17, <4>1, <2>1, Zenon DEF SubmitRecord, ReadBack
      <4>3. Mine
        BY <1>17, <3>2, <4>2, <2>2, <2>4, Zenon DEF ReadBack, SubmitAccounts, ToldOf, Grows
      <4> QED BY <4>1, <4>3, Zenon
    <3> QED BY <1>17, <3>1, <3>2, Zenon DEF ReadBack
  <2> QED BY <2>4, <2>5, OneEngine, Zenon
<1>18. ASSUME NEW a \in Answers, NEW o \in Outpoint, ReadRetained(e, a, o)
      PROVE  Accounted'
  <2>1. run[e] \in SubmitRecord
    BY <1>18, InSubmit, Zenon DEF ReadRetained
  <2>2. SubmitAccounts(run[e])
    BY <2>1 DEF Accounted, SubmitRecord, Idle
  <2>4. Grows /\ NoDelete
    BY <1>18, Zenon DEF ReadRetained, Grows, NoDelete, Read, Call
  <2>5. Others /\ Mine
    <3> DEFINE r == [After(e, a) EXCEPT !.todo = @ \ {o}, !.flags = @ \cup Flag(a, {"fault"})]
    <3>1. CASE Step(e, r)
      <4>1. Others /\ run'[e] = r
        BY <3>1, StepRun, Zenon
      <4>2. run'[e].pc = "link"
        BY <1>18, <4>1, <2>1, Zenon DEF SubmitRecord, After, ReadRetained
      <4>3. Mine
        BY <1>18, <3>1, <4>2, <2>2, <2>4, Zenon DEF ReadRetained, SubmitAccounts, ToldOf, Grows
      <4> QED BY <4>1, <4>3, Zenon
    <3>2. CASE Step(e, [r EXCEPT !.pc = "linkwrite", !.cur = {o}, !.snap = store.consumedBy[o] \cup r.adm])
      <4>1. [r EXCEPT !.pc = "linkwrite", !.cur = {o}, !.snap = store.consumedBy[o] \cup r.adm].pc \in Vacant
        BY <2>1, Zenon DEF Vacant, SubmitRecord, After
      <4> QED BY <3>2, <4>1, VacantAccounts, Zenon
    <3> QED BY <1>18, <3>1, <3>2, Zenon DEF ReadRetained
  <2> QED BY <2>4, <2>5, OneEngine, Zenon
<1>19. ASSUME NEW a \in Answers, NEW p \in Outpoint, NEW o \in Outpoint, ReadConsumed(e, a, p, o)
      PROVE  Accounted'
  <2>1. run[e] \in SubmitRecord
    BY <1>19, InSubmit, Zenon DEF ReadConsumed
  <2>2. SubmitAccounts(run[e])
    BY <2>1 DEF Accounted, SubmitRecord, Idle
  <2>4. Grows /\ NoDelete
    BY <1>19, Zenon DEF ReadConsumed, Grows, NoDelete, Read, Call
  <2>5. Others /\ Mine
    <3> DEFINE r == [After(e, a) EXCEPT !.deep = @ \ {<<p, o>>}]
    <3>1. CASE Step(e, r)
      <4>1. Others /\ run'[e] = r
        BY <3>1, StepRun, Zenon
      <4>2. run'[e].pc = "deep" /\ run'[e].coins = run[e].coins /\ run'[e].todo = run[e].todo
        BY <1>19, <4>1, <2>1, Zenon DEF SubmitRecord, After, ReadConsumed
      <4>3. Mine
        BY <1>19, <3>1, <4>2, <2>2, <2>4, Zenon DEF ReadConsumed, SubmitAccounts, ToldOf, Grows
      <4> QED BY <4>1, <4>3, Zenon
    <3>2. CASE Step(e, [r EXCEPT !.pc = "unref", !.cur = {o}, !.from = {p}, !.snap = store.consumedBy[o] \ {p}])
      <4>1. Others /\ run'[e] = [r EXCEPT !.pc = "unref", !.cur = {o}, !.from = {p}, !.snap = store.consumedBy[o] \ {p}]
        BY <3>2, StepRun, Zenon
      <4>2. run'[e].pc = "unref" /\ run'[e].coins = run[e].coins /\ run'[e].todo = run[e].todo
        BY <1>19, <4>1, <2>1, Zenon DEF SubmitRecord, After
      <4>3. Mine
        BY <1>19, <3>2, <4>2, <2>2, <2>4, Zenon DEF ReadConsumed, SubmitAccounts, ToldOf, Grows
      <4> QED BY <4>1, <4>3, Zenon
    <3> QED BY <1>19, <3>1, <3>2, Zenon DEF ReadConsumed
  <2> QED BY <2>4, <2>5, OneEngine, Zenon
<1>20. ASSUME NEW a \in Answers, NEW o \in Outpoint, MarkSpent(e, a, o)
      PROVE  Accounted'
  <2>1. run[e] \in SubmitRecord
    BY <1>20, InSubmit, Zenon DEF MarkSpent
  <2>2. SubmitAccounts(run[e])
    BY <2>1 DEF Accounted, SubmitRecord, Idle
  <2>3. <<"mark", o>> \in Statement
    BY <1>20, <2>1, Zenon DEF Statement
  <2>4. Grows /\ NoDelete
    BY <1>20, <2>3, StoredAccounts, Zenon DEF MarkSpent, Grows
  <2>5. Others /\ Mine
    <3> DEFINE r == After(e, a)
    <3>1. CASE Step(e, [r EXCEPT
                !.pc = "spendhook", !.cur = {o}, !.todo = @ \ {o},
                !.flags = @ \cup Flag(a, {"fault"} \cup (IF o \in Kept(r) THEN {"hold"} ELSE {}))])
      <4>1. Others /\ run'[e] = [r EXCEPT
                !.pc = "spendhook", !.cur = {o}, !.todo = @ \ {o},
                !.flags = @ \cup Flag(a, {"fault"} \cup (IF o \in Kept(r) THEN {"hold"} ELSE {}))]
        BY <3>1, StepRun, Zenon
      <4>2. run'[e].pc = "spendhook" /\ run'[e].coins = run[e].coins /\ run'[e].todo = run[e].todo \ {o} /\ run'[e].cur = {o} /\ run[e].flags \subseteq run'[e].flags
        BY <4>1, <2>1 DEF SubmitRecord, After
      <4>3. Mine
        BY <1>20, <3>1, <4>2, <2>2, <2>4, Zenon DEF MarkSpent, SubmitAccounts, ToldOf, Grows
      <4> QED BY <4>1, <4>3, Zenon
    <3> QED BY <1>20, <3>1, Zenon DEF MarkSpent
  <2> QED BY <2>4, <2>5, OneEngine, Zenon
<1>21. ASSUME NEW a \in Answers, NEW o \in Outpoint, InsertOutput(e, a, o)
      PROVE  Accounted'
  <2>1. run[e] \in SubmitRecord
    BY <1>21, InSubmit, Zenon DEF InsertOutput
  <2>2. SubmitAccounts(run[e])
    BY <2>1 DEF Accounted, SubmitRecord, Idle
  <2>3. <<"insert", o, Kept(run[e])>> \in Statement
    BY <1>21, <2>1, Zenon DEF Statement, Kept, SubmitRecord
  <2>4. Grows /\ NoDelete
    BY <1>21, <2>3, StoredAccounts, Zenon DEF InsertOutput, Grows
  <2>5. Others /\ Mine
    <3> DEFINE r == run[e]
    <3>1. CASE Step(e, [r EXCEPT !.pc = "admithook", !.cur = {o}, !.todo = @ \ {o}])
      <4>1. Others /\ run'[e] = [r EXCEPT !.pc = "admithook", !.cur = {o}, !.todo = @ \ {o}]
        BY <3>1, StepRun, Zenon
      <4>2. run'[e].pc = "admithook" /\ run'[e].coins = run[e].coins
        BY <4>1, <2>1, Zenon DEF SubmitRecord
      <4>3. Mine
        BY <1>21, <3>1, <4>2, <2>2, <2>4, Zenon DEF InsertOutput, Undo, SubmitAccounts, ToldOf, Grows
      <4> QED BY <4>1, <4>3, Zenon
    <3>2. CASE Step(e, [r EXCEPT !.pc = "undo", !.todo = (r.adm \ r.todo) \cup {o}, !.cur = {}, !.due = FALSE,
                       !.flags = @ \cup {"fault"}])
      <4>1. [r EXCEPT !.pc = "undo", !.todo = (r.adm \ r.todo) \cup {o}, !.cur = {}, !.due = FALSE,
                       !.flags = @ \cup {"fault"}].pc \in Vacant
        BY <2>1 DEF Vacant, SubmitRecord
      <4> QED BY <3>2, <4>1, VacantAccounts, Zenon
    <3> QED BY <1>21, <3>1, <3>2, Zenon DEF InsertOutput, Undo
  <2> QED BY <2>4, <2>5, OneEngine, Zenon
<1>22. ASSUME NEW a \in Answers, NEW o \in Outpoint, UndoDelete(e, a, o)
      PROVE  Accounted'
  <2>1. run[e] \in SubmitRecord
    BY <1>22, InSubmit, Zenon DEF UndoDelete
  <2>2. SubmitAccounts(run[e])
    BY <2>1 DEF Accounted, SubmitRecord, Idle
  <2>3. <<"undo", o>> \in Statement
    BY <1>22, <2>1, Zenon DEF Statement
  <2>4. Grows /\ NoDelete
    BY <1>22, <2>3, StoredAccounts, Zenon DEF UndoDelete, Grows
  <2>5. Others /\ Mine
    <3>1. CASE Step(e, [After(e, a) EXCEPT !.pc = "undo", !.cur = {}])
      <4>1. [After(e, a) EXCEPT !.pc = "undo", !.cur = {}].pc \in Vacant
        BY <2>1, Zenon DEF Vacant, SubmitRecord, After
      <4> QED BY <3>1, <4>1, VacantAccounts, Zenon
    <3> QED BY <1>22, <3>1, Zenon DEF UndoDelete
  <2> QED BY <2>4, <2>5, OneEngine, Zenon
<1>23. ASSUME NEW a \in Answers, NEW o \in Outpoint, LinkRetained(e, a, o)
      PROVE  Accounted'
  <2>1. run[e] \in SubmitRecord
    BY <1>23, InSubmit, Zenon DEF LinkRetained
  <2>2. SubmitAccounts(run[e])
    BY <2>1 DEF Accounted, SubmitRecord, Idle
  <2>3. <<"link", o, run[e].snap>> \in Statement
    BY <1>23, <2>1, Zenon DEF Statement, SubmitRecord
  <2>4. Grows /\ NoDelete
    BY <1>23, <2>3, StoredAccounts, Zenon DEF LinkRetained, Grows
  <2>5. Others /\ Mine
    <3>1. CASE Step(e, [After(e, a) EXCEPT !.pc = "link", !.cur = {}, !.snap = {},
                                    !.flags = @ \cup Flag(a, {"fault"})])
      <4>1. [After(e, a) EXCEPT !.pc = "link", !.cur = {}, !.snap = {},
                                    !.flags = @ \cup Flag(a, {"fault"})].pc \in Vacant
        BY <2>1, Zenon DEF Vacant, SubmitRecord, After
      <4> QED BY <3>1, <4>1, VacantAccounts, Zenon
    <3> QED BY <1>23, <3>1, Zenon DEF LinkRetained
  <2> QED BY <2>4, <2>5, OneEngine, Zenon
<1>24. ASSUME NEW a \in Answers, NEW p \in Outpoint, NEW o \in Outpoint, Unreference(e, a, p, o)
      PROVE  Accounted'
  <2>1. run[e] \in SubmitRecord
    BY <1>24, InSubmit, Zenon DEF Unreference
  <2>2. SubmitAccounts(run[e])
    BY <2>1 DEF Accounted, SubmitRecord, Idle
  <2>3. <<"link", o, run[e].snap>> \in Statement
    BY <1>24, <2>1, Zenon DEF Statement, SubmitRecord
  <2>4. Grows /\ NoDelete
    BY <1>24, <2>3, StoredAccounts DEF Unreference, Grows
  <2>5. Others /\ Mine
    <3> DEFINE r == [After(e, a) EXCEPT !.from = {}]
    <3> DEFINE error == IF p \in Stale(r) THEN {"fault", "delfault"} ELSE {}
    <3>1. CASE Step(e, [r EXCEPT !.pc = "prune"])
      <4>1. Others /\ run'[e] = [r EXCEPT !.pc = "prune"]
        BY <3>1, StepRun, Zenon
      <4>2. run'[e].pc = "prune" /\ run'[e].coins = run[e].coins /\ run'[e].todo = run[e].todo
        BY <4>1, <2>1, Zenon DEF SubmitRecord, After
      <4>3. Mine
        BY <1>24, <3>1, <4>2, <2>2, <2>4, Zenon DEF Unreference, SubmitAccounts, ToldOf, Grows
      <4> QED BY <4>1, <4>3, Zenon
    <3>2. CASE Step(e, [r EXCEPT !.pc = "deep", !.cur = {}, !.snap = {},
                       !.deep = {d \in @ : d[1] # p}, !.flags = @ \cup error])
      <4>1. Others /\ run'[e] = [r EXCEPT !.pc = "deep", !.cur = {}, !.snap = {},
                       !.deep = {d \in @ : d[1] # p}, !.flags = @ \cup error]
        BY <3>2, StepRun, Zenon
      <4>2. run'[e].pc = "deep" /\ run'[e].coins = run[e].coins /\ run'[e].todo = run[e].todo
        BY <4>1, <2>1 DEF SubmitRecord, After
      <4>3. Mine
        BY <1>24, <3>2, <4>2, <2>2, <2>4, Zenon DEF Unreference, SubmitAccounts, ToldOf, Grows
      <4> QED BY <4>1, <4>3, Zenon
    <3> QED BY <1>24, <3>1, <3>2, Zenon DEF Unreference
  <2> QED BY <2>4, <2>5, OneEngine, Zenon
<1>25. ASSUME NEW a \in Answers, RecordApplied(e, a)
      PROVE  Accounted'
  <2>1. run[e] \in SubmitRecord
    BY <1>25, InSubmit, Zenon DEF RecordApplied
  <2>2. SubmitAccounts(run[e])
    BY <2>1 DEF Accounted, SubmitRecord, Idle
  <2>3. <<"applied", run[e].tx>> \in Statement
    BY <1>25, <2>1, Zenon DEF Statement, SubmitRecord
  <2>4. Grows /\ NoDelete
    BY <1>25, <2>3, StoredAccounts DEF RecordApplied, Grows
  <2>5. Others /\ Mine
    <3>1. CASE Hold(e)
      BY <3>1, FinishAccounts, Zenon DEF Hold
    <3>2. CASE Finish(e, TRUE) \/ Finish(e, FALSE)
      BY <3>2, FinishAccounts, Zenon
    <3> QED BY <1>25, <3>1, <3>2, Zenon DEF RecordApplied
  <2> QED BY <2>4, <2>5, OneEngine, Zenon
<1>26. ASSUME NEW a \in Answers, NEW o \in Outpoint, RecordSpent(e, a, o)
      PROVE  Accounted'
  <2>1. run[e] \in SubmitRecord
    BY <1>26, InSubmit, Zenon DEF RecordSpent
  <2>2. SubmitAccounts(run[e])
    BY <2>1 DEF Accounted, SubmitRecord, Idle
  <2>3. <<"applied", TxOf[o]>> \in Statement
    BY <1>26, <2>1, Zenon DEF Statement
  <2>4. Grows /\ NoDelete
    BY <1>26, <2>3, StoredAccounts, Zenon DEF RecordSpent, Grows
  <2>5. Others /\ Mine
    <3> DEFINE r == After(e, a)
    <3>1. CASE a = "ok" /\ Step(e, [r EXCEPT !.pc = "find", !.cur = {o}, !.todo = @ \ {o}])
      <4>1. Others /\ run'[e] = [r EXCEPT !.pc = "find", !.cur = {o}, !.todo = @ \ {o}]
        BY <3>1, StepRun, Zenon
      <4>2. run'[e].pc = "find" /\ run'[e].coins = run[e].coins /\ run'[e].todo = run[e].todo \ {o} /\ run'[e].cur = {o}
        BY <1>26, <4>1, <2>1, Zenon DEF SubmitRecord, After
      <4>3. TxOf[o] \in store'.applied
        BY <1>26, <3>1, <2>3, StoredAccounts, SMTT(30) DEF RecordSpent
      <4>4. Mine
        BY <1>26, <4>2, <4>3, <2>2, <2>4, SMTT(30) DEF RecordSpent, SubmitAccounts, ToldOf, Grows
      <4> QED BY <4>1, <4>4, Zenon
    <3>2. CASE Step(e, [r EXCEPT !.todo = @ \ {o}, !.flags = @ \cup {"fault", "delfault"}])
      <4>1. Others /\ run'[e] = [r EXCEPT !.todo = @ \ {o}, !.flags = @ \cup {"fault", "delfault"}]
        BY <3>2, StepRun, Zenon
      <4>2. run'[e].pc = "stale" /\ run'[e].coins = run[e].coins /\ run'[e].todo = run[e].todo \ {o}
        BY <1>26, <4>1, <2>1, Zenon DEF SubmitRecord, After, RecordSpent
      <4>3. Mine
        BY <1>26, <3>2, <4>2, <2>2, <2>4, <2>3, StoredAccounts, Zenon DEF RecordSpent, SubmitAccounts, ToldOf, Grows
      <4> QED BY <4>1, <4>3, Zenon
    <3> QED BY <1>26, <3>1, <3>2, Zenon DEF RecordSpent
  <2> QED BY <2>4, <2>5, OneEngine, Zenon
<1>27. ASSUME NEW a \in Answers, Ask(e, a)
      PROVE  Accounted'
  <2>1. run[e] \in SubmitRecord
    BY <1>27, InSubmit, Zenon DEF Ask
  <2>4. Grows /\ NoDelete
    BY <1>27, Zenon DEF Ask, Grows, NoDelete, Manager, Call
  <2> DEFINE named == IF a = "ok" THEN Names[run[e].tx] ELSE {}
  <2>2. After(e, a) \in SubmitRecord
    BY <2>1, AfterType, Zenon
  <2>3. [run[e] EXCEPT !.pc = "own"].pc \in Vacant /\ [run[e] EXCEPT !.pc = "question", !.snap = named].pc \in Vacant
    BY <2>1 DEF Vacant, SubmitRecord
  <2>5. Others /\ Mine
    <3>1. CASE Hold(e)
      BY <3>1, FinishAccounts, Zenon DEF Hold
    <3>2. CASE Proceed(e, After(e, a))
      BY <3>2, <2>2, ProceedAccounts, Zenon
    <3>3. CASE Step(e, [run[e] EXCEPT !.pc = "own"])
      BY <3>3, <2>3, VacantAccounts, Zenon
    <3>4. CASE Step(e, [run[e] EXCEPT !.pc = "question", !.snap = named])
      BY <3>4, <2>3, VacantAccounts, Zenon
    <3> QED BY <1>27, <3>1, <3>2, <3>3, <3>4, Zenon DEF Ask
  <2> QED BY <2>4, <2>5, OneEngine, Zenon
<1>28. ASSUME NEW a \in Answers, Question(e, a)
      PROVE  Accounted'
  <2>1. run[e] \in SubmitRecord
    BY <1>28, InSubmit, Zenon DEF Question
  <2>4. Grows /\ NoDelete
    BY <1>28, Zenon DEF Question, Grows, NoDelete, Read, Call
  <2> DEFINE r == run[e]
  <2> DEFINE S == Starts(r, r.snap) \ r.coins
  <2> DEFINE carried == CarriedPredecessors(r, S, r.snap)
  <2> DEFINE own == [r EXCEPT !.pc = "own", !.snap = {}]
  <2>3. own.pc \in Vacant /\ \A c \in carried : [own EXCEPT !.under = {c} \cap LandsFirst].pc \in Vacant
    BY <2>1 DEF Vacant, SubmitRecord
  <2>5. Others /\ Mine
    <3>1. CASE Step(e, own)
      BY <3>1, <2>3, VacantAccounts, Zenon
    <3>2. CASE Proceed(e, r)
      BY <3>2, <2>1, ProceedAccounts, Zenon
    <3>3. CASE \E c \in carried : Land(e, c)
      BY <3>3, LandAccounts, Zenon
    <3>4. CASE \E c \in carried : Step(e, [own EXCEPT !.under = {c} \cap LandsFirst])
      BY <3>4, <2>3, VacantAccounts, Zenon
    <3> QED BY <1>28, <3>1, <3>2, <3>3, <3>4, Zenon DEF Question
  <2> QED BY <2>4, <2>5, OneEngine, Zenon
<1>29. ASSUME NEW a \in Answers, ReadOwn(e, a)
      PROVE  Accounted'
  <2>1. run[e] \in SubmitRecord
    BY <1>29, InSubmit, Zenon DEF ReadOwn
  <2>4. Grows /\ NoDelete
    BY <1>29, Zenon DEF ReadOwn, Grows, NoDelete, Read, Call
  <2>5. Others /\ Mine
    BY <1>29, <2>1, ProceedAccounts, FinishAccounts, LandAccounts, Zenon DEF ReadOwn, Hold
  <2> QED BY <2>4, <2>5, OneEngine, Zenon
<1>30. ASSUME NEW a \in Answers, NEW o \in Outpoint, DropRow(e, a, o)
      PROVE  Accounted'
  <2> DEFINE r == After(e, a)
  <2> DEFINE stale == run[e].pc = "drop"
  <2> DEFINE error == IF stale THEN {"fault", "delfault"} ELSE {}
  <2> DEFINE walk == [r EXCEPT !.pc = "deep", !.cur = {}, !.snap = {},
                               !.deep = @ \cup ({o} \X store.consumes[o])]
  <2> DEFINE w == IF stale THEN <<"delete", o, r.adm>> ELSE <<"prune", o>>
  <2>1. run[e] \in SubmitRecord
    BY <1>30, InSubmit, Zenon DEF DropRow
  <2>2. SubmitAccounts(run[e])
    BY <2>1 DEF Accounted, SubmitRecord, Idle
  <2>3. w \in Statement
    <3>1. r \in SubmitRecord
      BY <2>1, AfterType, Zenon
    <3> QED BY <3>1, Zenon DEF Statement, SubmitRecord
  <2>4. \E q : Step(e, q) /\ q.pc \in {"deep", "dropped"} /\ q.coins = run[e].coins /\ q.todo = run[e].todo
    <3>1. walk.pc = "deep" /\ walk.coins = run[e].coins /\ walk.todo = run[e].todo
      BY <2>1, Zenon DEF SubmitRecord, After
    <3>2. /\ [walk EXCEPT !.pc = "dropped"].pc = "dropped"
          /\ [walk EXCEPT !.pc = "dropped"].coins = run[e].coins
          /\ [walk EXCEPT !.pc = "dropped"].todo = run[e].todo
      BY <2>1, Zenon DEF SubmitRecord, After
    <3>3. /\ [walk EXCEPT !.deep = r.deep, !.flags = @ \cup error].pc = "deep"
          /\ [walk EXCEPT !.deep = r.deep, !.flags = @ \cup error].coins = run[e].coins
          /\ [walk EXCEPT !.deep = r.deep, !.flags = @ \cup error].todo = run[e].todo
      BY <2>1, Zenon DEF SubmitRecord, After
    <3>4. \/ Step(e, walk)
          \/ Step(e, [walk EXCEPT !.pc = "dropped"])
          \/ Step(e, [walk EXCEPT !.deep = r.deep, !.flags = @ \cup error])
      BY <1>30, Zenon DEF DropRow
    <3> HIDE DEF walk, error, r
    <3> QED BY <3>1, <3>2, <3>3, <3>4, Zenon
  <2>5. Grows
    <3>1. UNCHANGED store \/ Stored(e, a, w)
      BY <1>30, Zenon DEF DropRow
    <3>2. UNCHANGED told
      BY <1>30, Zenon DEF DropRow
    <3> HIDE DEF w
    <3> QED BY <2>3, <3>1, <3>2, StoredAccounts, Zenon DEF Grows
  <2>6. Others /\ Mine
    <3>1. PICK q : Step(e, q) /\ q.pc \in {"deep", "dropped"} /\ q.coins = run[e].coins /\ q.todo = run[e].todo
      BY <2>4, Zenon
    <3>2. Others /\ run'[e] = q
      BY <3>1, StepRun, Zenon
    <3>3. ToldOf(run[e].coins) /\ run[e].todo \subseteq run[e].coins
      BY <1>30, <2>2, Zenon DEF DropRow, SubmitAccounts
    <3> QED BY <3>1, <3>2, <3>3, <2>5, Zenon DEF SubmitAccounts, ToldOf, Grows
  <2>7. stale => TxOf[o] \in store.applied /\ <<"spent", o>> \in told
    BY <1>30, <2>2, Zenon DEF DropRow, SubmitAccounts, ToldOf
  <2>8. CASE NoDelete
    BY <2>8, <2>5, <2>6, OneEngine, Zenon
  <2>9. CASE ~NoDelete
    <3>1. stale /\ Stored(e, a, w)
      <4>1. (store' = store /\ late' = late) \/ Stored(e, a, w)
        BY <1>30, Zenon DEF DropRow
      <4>2. ~stale => w[1] # "delete"
        BY Zenon
      <4>3. store' = store /\ late' = late => NoDelete
        BY Zenon DEF NoDelete
      <4>4. w[1] # "delete" /\ Stored(e, a, w) => NoDelete
        <5> HIDE DEF w
        <5> QED BY <2>3, StoredAccounts, Zenon
      <4> QED BY <4>1, <4>2, <4>3, <4>4, <2>9, Zenon
    <3>2. Stored(e, a, <<"delete", o, r.adm>>) /\ r.adm \in SUBSET Outpoint
      BY <3>1, <2>1, Zenon DEF SubmitRecord, After
    <3> QED BY <2>5, <2>6, <2>7, <3>1, <3>2, DeleteAccounts, Zenon
  <2> QED BY <2>8, <2>9, Zenon
<1> QED BY <1>1, <1>2, <1>3, <1>4, <1>5, <1>6, <1>7, <1>8, <1>9, <1>10, <1>11, <1>12, <1>13, <1>14, <1>15, <1>16, <1>17, <1>18, <1>19, <1>20, <1>21, <1>22, <1>23, <1>24, <1>25, <1>26, <1>27, <1>28, <1>29, <1>30, Zenon DEF Progress

(* Every step keeps the accounts, of any engine and of the environment. *)
LEMMA AccountedNext ==
  ASSUME TypeOK, Accounted, [Next]_vars
  PROVE  Accounted'
<1>1. CASE UNCHANGED vars
  BY <1>1, Zenon DEF vars, Accounted, GoneIsAccounted, DeletesAreAccounted, SubmitAccounts, ToldOf
<1>2. ASSUME NEW e \in Engine, Progress(e) PROVE Accounted'
  BY <1>2, ProgressAccounts, Zenon
<1>3. ASSUME NEW e \in Engine, Crash(e) PROVE Accounted'
  <2>1. Grows /\ NoDelete
    BY <1>3, Zenon DEF Crash, Grows, NoDelete
  <2>2. run'[e] = Idle /\ \A f \in Engine : f # e => run'[f] = run[f]
    BY <1>3, StepRun, Zenon DEF Crash
  <2> QED BY <2>1, <2>2, OneEngine, Zenon
<1>4. ASSUME NEW e \in Engine, NewInvocation(e) PROVE Accounted'
  BY <1>4, Zenon DEF NewInvocation, Accounted, GoneIsAccounted, DeletesAreAccounted, SubmitAccounts, ToldOf
<1>5. ASSUME NEW e \in Engine, NEW t \in Tx, NEW fin \in BOOLEAN, Submit(e, t, fin) PROVE Accounted'
  <2>1. store'.applied = store.applied /\ store'.gone = store.gone
    BY <1>5, Zenon DEF Submit, TypeOK, StoreType
  <2>2. Grows /\ NoDelete
    BY <1>5, <2>1, Zenon DEF Submit, Grows, NoDelete
  <2>3. Fresh(t, fin, <<>>).pc \in Vacant
    BY Zenon DEF Fresh, Vacant, Labels
  <2> QED BY <1>5, <2>2, <2>3, VacantAccounts, OneEngine, Zenon DEF Submit
<1>6. ASSUME NEW w \in late, LandLate(w) PROVE Accounted'
  <2>1. w \in Statement
    BY Zenon DEF TypeOK
  <2>2. Grows
    BY <1>6, <2>1, ApplyAccounts, Zenon DEF LandLate, Grows, TypeOK
  <2>3. \A f \in Engine : run'[f] # Idle => SubmitAccounts(run[f])'
    BY <1>6, <2>2, Zenon DEF LandLate, Accounted, SubmitAccounts, ToldOf, Grows
  <2>4. DeletesAreAccounted'
    BY <1>6, <2>2, Zenon DEF LandLate, Accounted, DeletesAreAccounted, Grows
  <2>5. GoneIsAccounted'
    <3> SUFFICES ASSUME NEW g \in store'.gone
                 PROVE  TxOf[g[1]] \in store'.applied /\ <<"spent", g[1]>> \in told'
      BY Zenon DEF GoneIsAccounted
    <3>1. CASE g \in store.gone
      BY <3>1, <2>2, Zenon DEF Accounted, GoneIsAccounted, Grows
    <3>2. CASE g \notin store.gone
      <4>1. w[1] = "delete" /\ g = <<w[2], w[3]>>
        BY <1>6, <2>1, <3>2, Zenon DEF LandLate, Apply, DeleteRow, InsertRow, TypeOK, StoreType
      <4>2. g[1] = w[2]
        BY <4>1, Zenon
      <4> QED BY <4>1, <4>2, <2>2, Zenon DEF Accounted, DeletesAreAccounted, Grows
    <3> QED BY <3>1, <3>2, Zenon
  <2> QED BY <2>3, <2>4, <2>5, Zenon DEF Accounted
<1> QED BY <1>1, <1>2, <1>3, <1>4, <1>5, <1>6, Zenon DEF Next

(* Nothing is deleted, in flight or in a submit at the start. *)
LEMMA AccountedInit == Init => Accounted
BY DEF Init, Accounted, GoneIsAccounted, DeletesAreAccounted, EmptyStore

\* The inductive invariant: every submit in flight and every delete in flight
\* accounts for the coins it is about to make disappear.
THEOREM SubmitAccounted == Spec => []Accounted
<1>1. TypeOK /\ Accounted /\ [Next]_vars => Accounted'
  BY AccountedNext, Zenon
<1> QED BY <1>1, AccountedInit, SubmitTypeCorrect, PTL DEF Spec

\* A stale coin is deleted (engine.rs, the record-then-delete of Phase 3) only
\* once its transaction is recorded as applied and every lookup service was
\* told of its spend: for every instance, any number of engines, faults,
\* crashes and statements that land late.
THEOREM GoneCoinsAccounted == Spec => []GoneIsAccounted
<1>1. Accounted => GoneIsAccounted
  BY Zenon DEF Accounted
<1> QED BY <1>1, SubmitAccounted, PTL

-----------------------------------------------------------------------------
(***************************************************************************)
(* A settled coin stays gone.  A row is inserted only by a submit of its   *)
(* own transaction that is past the dedup read, or late by the statement   *)
(* of one; the transaction of a deleted coin is recorded, so no submit     *)
(* passes the dedup read with it again.                                    *)
(***************************************************************************)
\* A submit, or a suspended one, admits outputs of its own transaction.
OwnOuts(f) == f.adm \subseteq OutsOf(f.tx)

Own(r) ==
  /\ OwnOuts(r)
  /\ r.pc \in {"insert", "admithook"} => r.todo \subseteq r.adm
  /\ \A i \in 1 .. Len(r.parents) : OwnOuts(r.parents[i])

Owners == \A e \in Engine : run[e] # Idle => Own(run[e])

\* Nothing is inserted, no insert is sent and no deleted coin is forgotten.
Calm ==
  /\ store.gone \subseteq store'.gone
  /\ store'.held \subseteq store.held
  /\ \A w \in late' : w[1] = "insert" => w \in late

\* The submit e is in, past its dedup read, inserts outputs of its transaction.
Inserts(e) ==
  /\ run[e].pc # "dedup"
  /\ store.gone \subseteq store'.gone
  /\ \A o \in store'.held \ store.held : TxOf[o] = run[e].tx
  /\ \A w \in late' : w[1] = "insert" => w \in late \/ TxOf[w[2]] = run[e].tx

\* The submit goes on.
Onward(e) ==
  /\ run'[e].tx = run[e].tx /\ run'[e].parents = run[e].parents
  /\ OwnOuts(run'[e])
  /\ run'[e].pc \in {"insert", "admithook"} => run'[e].todo \subseteq run'[e].adm

\* The submit goes on with what it admits as it was.
Same(e) ==
  /\ run'[e].tx = run[e].tx /\ run'[e].parents = run[e].parents /\ run'[e].adm = run[e].adm
  /\ run'[e].pc \notin {"dedup", "insert", "admithook"}

\* What a step of a submit does to its record: it goes on, past the dedup read
\* only if its transaction is not recorded, it ends, or it is suspended.
Moves(e) ==
  \/ Onward(e) /\ (run[e].pc # "dedup" \/ run[e].tx \notin store.applied)
  \/ \E b \in BOOLEAN : Finish(e, b)
  \/ run[e].pc # "dedup" /\ \E c \in Tx : Land(e, c)

\* A statement that lands inserts no row but an "insert" its own.
LEMMA ApplyHeld ==
  ASSUME NEW s \in StoreType, NEW w \in Statement
  PROVE  /\ w[1] # "insert" => Apply(s, w).held \subseteq s.held
         /\ Apply(s, w).held \subseteq s.held \cup {w[2]}
<1>1. CASE w[1] \in {"mark", "link"}
  BY <1>1, Zenon DEF Apply, StoreType
<1>2. CASE w[1] = "insert"
  BY <1>2, Zenon DEF Apply, InsertRow, StoreType
<1>3. CASE w[1] \in {"undo", "prune"}
  BY <1>3, Zenon DEF Apply, DeleteRow, StoreType
<1>4. CASE w[1] = "delete"
  BY <1>4, Zenon DEF Apply, DeleteRow, StoreType
<1>5. CASE w[1] = "applied"
  BY <1>5, Zenon DEF Apply, StoreType
<1> QED BY <1>1, <1>2, <1>3, <1>4, <1>5, Zenon DEF Statement

\* No statement takes a coin back out of the spent rows.
LEMMA ApplyGrows ==
  ASSUME NEW s \in StoreType, NEW w \in Statement
  PROVE  s.gone \subseteq Apply(s, w).gone
<1>1. CASE w[1] = "delete"
  <2>1. Apply(s, w).gone = s.gone \cup {<<w[2], w[3]>>}
    BY <1>1, ApplyAccounts, Zenon
  <2> QED BY <2>1
<1>2. CASE w[1] # "delete"
  BY <1>2, ApplyAccounts, Zenon
<1> QED BY <1>1, <1>2, Zenon

\* A storage call that inserts nothing is calm.
LEMMA StoredCalm ==
  ASSUME TypeOK, NEW e \in Engine, NEW a, NEW w \in Statement, Stored(e, a, w), w[1] # "insert"
  PROVE  Calm
<1>1. store' = Apply(store, w) \/ store' = store
  BY Zenon DEF Stored
<1>2. late' = late \/ late' = late \cup {w}
  BY Zenon DEF Stored
<1>3. store.gone \subseteq store'.gone
  BY <1>1, ApplyGrows, Zenon DEF TypeOK
<1>4. store'.held \subseteq store.held
  BY <1>1, ApplyHeld, Zenon DEF TypeOK
<1> QED BY <1>2, <1>3, <1>4, Zenon DEF Calm

\* A submit that admits what it did goes on.
LEMMA SameOnward ==
  ASSUME NEW e \in Engine, Own(run[e]), Same(e)
  PROVE  Onward(e)
BY Zenon DEF Own, Same, Onward, OwnOuts

\* The end of a submit: nothing, the one it was landed for, judged anew, or the
\* subject, taken up again with what it admitted.
LEMMA FinishParts ==
  ASSUME TypeOK, NEW e \in Engine, run[e] \in SubmitRecord, NEW b, Finish(e, b)
  PROVE  LET P == run[e].parents IN
         \/ run'[e] = Idle
         \/ /\ P # <<>> /\ run'[e].pc = "dedup" /\ run'[e].tx = P[1].tx /\ run'[e].adm = {}
            /\ Len(run'[e].parents) = Len(P) - 1
            /\ \A i \in 1 .. (Len(P) - 1) : run'[e].parents[i] = P[i + 1]
         \/ /\ P # <<>> /\ run'[e].pc = "own" /\ run'[e].tx = P[Len(P)].tx
            /\ run'[e].adm = P[Len(P)].adm /\ Len(run'[e].parents) = 0
<1> DEFINE P == run[e].parents
           n == Len(P)
<1>1. P \in Seq(Frame) /\ n \in Nat /\ (P # <<>> => n >= 1)
  BY DEF SubmitRecord
<1>2. CASE P = <<>> /\ Step(e, Idle)
  BY <1>2, StepRun, Zenon
<1>3. CASE P # <<>> /\ Step(e, Fresh(Head(P).tx, FALSE, Tail(P)))
  <2>1. run'[e] = Fresh(Head(P).tx, FALSE, Tail(P))
    BY <1>3, StepRun, Zenon
  <2>2. run'[e].pc = "dedup" /\ run'[e].tx = P[1].tx /\ run'[e].parents = Tail(P) /\ run'[e].adm = {}
    BY <1>1, <1>3, <2>1 DEF Fresh
  <2>3. Len(Tail(P)) = n - 1 /\ \A i \in 1 .. (n - 1) : Tail(P)[i] = P[i + 1]
    BY <1>1, <1>3
  <2> QED BY <1>3, <2>2, <2>3, Zenon
<1>4. CASE P # <<>> /\ Step(e, [Fresh(P[n].tx, FALSE, <<>>) EXCEPT
                                  !.pc = "own", !.coins = P[n].coins, !.adm = P[n].adm])
  <2> DEFINE q == [Fresh(P[n].tx, FALSE, <<>>) EXCEPT
                     !.pc = "own", !.coins = P[n].coins, !.adm = P[n].adm]
  <2>1. run'[e] = q
    BY <1>4, StepRun, Zenon
  <2>2. q.pc = "own" /\ q.tx = P[n].tx /\ q.parents = <<>> /\ q.adm = P[n].adm
    BY Zenon DEF Fresh
  <2>3. Len(<<>>) = 0
    OBVIOUS
  <2> QED BY <1>4, <2>1, <2>2, <2>3, Zenon
<1> QED BY <1>2, <1>3, <1>4, Zenon DEF Finish

\* A carried predecessor is landed: the submit is suspended in front of those
\* that were.
LEMMA LandParts ==
  ASSUME TypeOK, NEW e \in Engine, run[e] \in SubmitRecord, NEW c \in Tx, Land(e, c)
  PROVE  LET P == run[e].parents IN
         /\ run'[e].pc = "dedup" /\ run'[e].tx = c /\ run'[e].adm = {}
         /\ Len(run'[e].parents) = Len(P) + 1
         /\ run'[e].parents[1].tx = run[e].tx /\ run'[e].parents[1].adm = run[e].adm
         /\ \A i \in 2 .. (Len(P) + 1) : run'[e].parents[i] = P[i - 1]
<1> DEFINE r == run[e]
           P == r.parents
           f == [tx |-> r.tx, coins |-> r.coins, adm |-> r.adm]
           Q == <<f>> \o P
<1>1. P \in Seq(Frame) /\ Len(P) \in Nat
  BY DEF SubmitRecord
<1>2. run'[e].pc = "dedup" /\ run'[e].tx = c /\ run'[e].parents = Q /\ run'[e].adm = {}
  BY StepRun DEF Land, Fresh
<1>3. f \in Frame /\ f.tx = r.tx /\ f.adm = r.adm
  BY Zenon DEF SubmitRecord, Frame
<1>4. Len(Q) = Len(P) + 1 /\ Q[1] = f /\ \A i \in 2 .. (Len(P) + 1) : Q[i] = P[i - 1]
  <2> HIDE DEF f, P
  <2> QED BY <1>1, <1>3
<1> HIDE DEF f, Q
<1> QED BY <1>2, <1>3, <1>4, Zenon

\* Whatever a submit's step does, submits admit outputs of their own.
LEMMA MovesOwn ==
  ASSUME TypeOK, NEW e \in Engine, run[e] \in SubmitRecord, Own(run[e]), Moves(e), run'[e] # Idle
  PROVE  Own(run[e])'
<1> DEFINE P == run[e].parents
<1>1. CASE Onward(e)
  BY <1>1, Zenon DEF Onward, Own, OwnOuts
<1>2. ASSUME NEW b \in BOOLEAN, Finish(e, b) PROVE Own(run[e])'
  <2>1. Len(P) \in Nat /\ (P # <<>> => Len(P) >= 1) /\ \A i \in 1 .. Len(P) : OwnOuts(P[i])
    BY DEF SubmitRecord, Own
  <2>2. CASE /\ P # <<>> /\ run'[e].pc = "dedup" /\ run'[e].tx = P[1].tx /\ run'[e].adm = {}
             /\ Len(run'[e].parents) = Len(P) - 1
             /\ \A i \in 1 .. (Len(P) - 1) : run'[e].parents[i] = P[i + 1]
    <3> HIDE DEF P
    <3>1. ASSUME NEW i \in 1 .. Len(run'[e].parents) PROVE OwnOuts(run'[e].parents[i])
      <4>1. i \in 1 .. (Len(P) - 1) /\ i + 1 \in 1 .. Len(P)
        BY <2>1, <2>2, <3>1
      <4> QED BY <2>1, <2>2, <4>1, Zenon
    <3> QED BY <2>2, <3>1, Zenon DEF Own, OwnOuts
  <2>3. CASE /\ P # <<>> /\ run'[e].pc = "own" /\ run'[e].tx = P[Len(P)].tx
             /\ run'[e].adm = P[Len(P)].adm /\ Len(run'[e].parents) = 0
    <3>1. OwnOuts(P[Len(P)])
      BY <2>1, <2>3
    <3> HIDE DEF P
    <3> QED BY <2>3, <3>1 DEF Own, OwnOuts
  <2> QED BY <1>2, <2>2, <2>3, FinishParts, Zenon
<1>3. ASSUME NEW c \in Tx, Land(e, c) PROVE Own(run[e])'
  <2>1. /\ run'[e].pc = "dedup" /\ run'[e].adm = {} /\ Len(run'[e].parents) = Len(P) + 1
        /\ run'[e].parents[1].tx = run[e].tx /\ run'[e].parents[1].adm = run[e].adm
        /\ \A i \in 2 .. (Len(P) + 1) : run'[e].parents[i] = P[i - 1]
    BY <1>3, LandParts, Zenon
  <2>2. Len(P) \in Nat /\ (\A i \in 1 .. Len(P) : OwnOuts(P[i])) /\ OwnOuts(run[e])
    BY DEF SubmitRecord, Own
  <2> HIDE DEF P
  <2>3. ASSUME NEW i \in 1 .. Len(run'[e].parents) PROVE OwnOuts(run'[e].parents[i])
    <3>1. CASE i = 1
      BY <2>1, <2>2, <3>1, Zenon DEF OwnOuts
    <3>2. CASE i # 1
      <4>1. i \in 2 .. (Len(P) + 1) /\ i - 1 \in 1 .. Len(P)
        BY <2>1, <2>2, <2>3, <3>2
      <4> QED BY <2>1, <2>2, <4>1, Zenon
    <3> QED BY <3>1, <3>2, Zenon
  <2> QED BY <2>1, <2>3, Zenon DEF Own, OwnOuts
<1> QED BY <1>1, <1>2, <1>3, Zenon DEF Moves

\* A submit that holds none of a recorded transaction takes none in hand.
LEMMA MovesInHand ==
  ASSUME TypeOK, NEW e \in Engine, run[e] \in SubmitRecord, Moves(e),
         NEW t \in store.applied, ~InHand(run[e], t)
  PROVE  ~InHand(run[e], t)'
<1> DEFINE P == run[e].parents
<1>1. /\ Len(P) \in Nat /\ (P # <<>> => Len(P) >= 1)
      /\ run[e].tx = t => run[e].pc = "dedup"
      /\ \A i \in 1 .. Len(P) : P[i].tx # t
  BY DEF SubmitRecord, InHand, Idle
<1>2. CASE Onward(e) /\ (run[e].pc # "dedup" \/ run[e].tx \notin store.applied)
  BY <1>1, <1>2, Zenon DEF Onward, InHand
<1>3. ASSUME NEW b \in BOOLEAN, Finish(e, b) PROVE ~InHand(run[e], t)'
  <2>1. CASE run'[e] = Idle
    BY <2>1, Zenon DEF InHand
  <2>2. CASE /\ P # <<>> /\ run'[e].pc = "dedup" /\ run'[e].tx = P[1].tx /\ run'[e].adm = {}
             /\ Len(run'[e].parents) = Len(P) - 1
             /\ \A i \in 1 .. (Len(P) - 1) : run'[e].parents[i] = P[i + 1]
    <3> HIDE DEF P
    <3>1. ASSUME NEW i \in 1 .. Len(run'[e].parents) PROVE run'[e].parents[i].tx # t
      <4>1. i \in 1 .. (Len(P) - 1) /\ i + 1 \in 1 .. Len(P)
        BY <1>1, <2>2, <3>1
      <4> QED BY <1>1, <2>2, <4>1, Zenon
    <3> QED BY <2>2, <3>1, Zenon DEF InHand
  <2>3. CASE /\ P # <<>> /\ run'[e].pc = "own" /\ run'[e].tx = P[Len(P)].tx
             /\ run'[e].adm = P[Len(P)].adm /\ Len(run'[e].parents) = 0
    <3>1. P[Len(P)].tx # t
      BY <1>1, <2>3
    <3> HIDE DEF P
    <3> QED BY <2>3, <3>1 DEF InHand
  <2> QED BY <1>3, <2>1, <2>2, <2>3, FinishParts, Zenon
<1>4. ASSUME run[e].pc # "dedup", NEW c \in Tx, Land(e, c) PROVE ~InHand(run[e], t)'
  <2>1. /\ run'[e].pc = "dedup" /\ Len(run'[e].parents) = Len(P) + 1
        /\ run'[e].parents[1].tx = run[e].tx
        /\ \A i \in 2 .. (Len(P) + 1) : run'[e].parents[i] = P[i - 1]
    BY <1>4, LandParts, Zenon
  <2> HIDE DEF P
  <2>2. ASSUME NEW i \in 1 .. Len(run'[e].parents) PROVE run'[e].parents[i].tx # t
    <3>1. CASE i = 1
      BY <1>1, <1>4, <2>1, <3>1, Zenon
    <3>2. CASE i # 1
      <4>1. i \in 2 .. (Len(P) + 1) /\ i - 1 \in 1 .. Len(P)
        BY <1>1, <2>1, <2>2, <3>2
      <4> QED BY <1>1, <2>1, <4>1, Zenon
    <3> QED BY <3>1, <3>2, Zenon
  <2> QED BY <2>1, <2>2, Zenon DEF InHand
<1> QED BY <1>2, <1>3, <1>4, Zenon DEF Moves

\* The steps that write nothing to the store end the submit or leave what it
\* admits as it was, but for the reads and the questions before the judgement.
LEMMA QuietSteps ==
  ASSUME TypeOK, NEW e \in Engine, run[e] \in SubmitRecord,
         \/ Undone(e) \/ Unrecorded(e) \/ Inserted(e) \/ DeepDone(e) \/ Deleted(e) \/ AllHeld(e)
         \/ \E a \in Answers :
              \/ Rejudge(e, a) \/ SpendHook(e, a) \/ DropHook(e, a)
              \/ \E o \in Outpoint :
                   \/ UndoRead(e, a, o) \/ FindStale(e, a, o) \/ ReadBack(e, a, o)
                   \/ ReadRetained(e, a, o) \/ \E p \in Outpoint : ReadConsumed(e, a, p, o)
  PROVE  Calm /\ run[e].pc # "dedup" /\ (Same(e) \/ \E b \in BOOLEAN : Finish(e, b))
<1> DEFINE Goal == Calm /\ run[e].pc # "dedup" /\ (Same(e) \/ \E b \in BOOLEAN : Finish(e, b))
<1>0. DOMAIN run = Engine
  BY Zenon DEF TypeOK
<1>1. CASE Undone(e) \/ Unrecorded(e)
  BY <1>1, Zenon DEF Undone, Unrecorded, Hold, Calm
<1>2. CASE Inserted(e)
  <2>1. Calm /\ run[e].pc # "dedup"
    BY <1>2, Zenon DEF Inserted, Read, Hooked, Manager, Calm
  <2>2. Same(e)
    BY <1>0, <1>2, Zenon DEF Inserted, Step, Same, SubmitRecord
  <2> QED BY <2>1, <2>2, Zenon
<1>3. CASE DeepDone(e)
  <2>1. Calm /\ run[e].pc # "dedup"
    BY <1>3, Zenon DEF DeepDone, Read, Hooked, Manager, Calm
  <2>2. Same(e)
    BY <1>0, <1>3, Zenon DEF DeepDone, Step, Same, SubmitRecord
  <2> QED BY <2>1, <2>2, Zenon
<1>4. CASE Deleted(e)
  <2>1. Calm /\ run[e].pc # "dedup"
    BY <1>4, Zenon DEF Deleted, Read, Hooked, Manager, Calm
  <2>2. (\E b \in BOOLEAN : Finish(e, b)) \/ Same(e)
    <3> DEFINE q1 == [run[e] EXCEPT !.pc = "link", !.todo = Kept([run[e] EXCEPT !.due = FALSE])]
               q2 == [[run[e] EXCEPT !.due = FALSE] EXCEPT !.pc = "readback", !.todo = Stale([run[e] EXCEPT !.due = FALSE])]
    <3>1. Hold(e) \/ Step(e, q1) \/ Step(e, q2)
      BY <1>4, Zenon DEF Deleted
    <3>2. CASE Step(e, q1)
      <4>1. run'[e] = q1
        BY <3>2, StepRun, Zenon
      <4> QED BY <1>4, <4>1, Zenon DEF Same, After, SubmitRecord
    <3>3. CASE Step(e, q2)
      <4>1. run'[e] = q2
        BY <3>3, StepRun, Zenon
      <4> QED BY <1>4, <4>1 DEF Same, After, SubmitRecord
    <3>4. CASE Hold(e)
      BY <3>4, Zenon DEF Hold
    <3> QED BY <3>1, <3>2, <3>3, <3>4, Zenon
  <2> QED BY <2>1, <2>2, Zenon
<1>5. CASE AllHeld(e)
  <2>1. Calm /\ run[e].pc # "dedup"
    BY <1>5, Zenon DEF AllHeld, Read, Hooked, Manager, Calm
  <2>2. Same(e)
    BY <1>0, <1>5, Zenon DEF AllHeld, Step, Same, SubmitRecord
  <2> QED BY <2>1, <2>2, Zenon
<1>6. ASSUME NEW a \in Answers, Rejudge(e, a) PROVE Goal
  <2>1. Calm /\ run[e].pc # "dedup"
    BY <1>6, Zenon DEF Rejudge, Read, Hooked, Manager, Calm
  <2>2. (\E b \in BOOLEAN : Finish(e, b)) \/ Same(e)
    <3> DEFINE q == [run[e] EXCEPT !.pc = "mark"]
    <3>1. Step(e, q) \/ Finish(e, FALSE)
      BY <1>6, Zenon DEF Rejudge
    <3>2. CASE Step(e, q)
      <4>1. run'[e] = q
        BY <3>2, StepRun, Zenon
      <4> QED BY <4>1, Zenon DEF Same, SubmitRecord
    <3> QED BY <3>1, <3>2, Zenon
  <2> QED BY <2>1, <2>2, Zenon
<1>7. ASSUME NEW a \in Answers, SpendHook(e, a) PROVE Goal
  <2>1. Calm /\ run[e].pc # "dedup"
    BY <1>7, Zenon DEF SpendHook, Read, Hooked, Manager, Calm
  <2>2. Same(e)
    BY <1>0, <1>7, Zenon DEF SpendHook, Step, After, Same, SubmitRecord
  <2> QED BY <2>1, <2>2, Zenon
<1>8. ASSUME NEW a \in Answers, DropHook(e, a) PROVE Goal
  <2>1. Calm /\ run[e].pc # "dedup"
    BY <1>8, Zenon DEF DropHook, Read, Hooked, Manager, Calm
  <2>2. Same(e)
    BY <1>0, <1>8, Zenon DEF DropHook, Step, After, Same, SubmitRecord
  <2> QED BY <2>1, <2>2, Zenon
<1>9. ASSUME NEW a \in Answers, NEW o \in Outpoint, UndoRead(e, a, o) PROVE Goal
  <2>1. Calm /\ run[e].pc # "dedup"
    BY <1>9, Zenon DEF UndoRead, Read, Hooked, Manager, Calm
  <2>2. Same(e)
    <3> DEFINE q1 == [After(e, a) EXCEPT !.pc = "undodelete", !.cur = {o}, !.todo = @ \ {o}]
               q2 == [After(e, a) EXCEPT !.todo = @ \ {o}]
    <3>1. Step(e, q1) \/ Step(e, q2)
      BY <1>9, Zenon DEF UndoRead
    <3>2. CASE Step(e, q1)
      <4>1. run'[e] = q1
        BY <3>2, StepRun, Zenon
      <4> QED BY <1>9, <4>1 DEF Same, After, SubmitRecord
    <3>3. CASE Step(e, q2)
      <4>1. run'[e] = q2
        BY <3>3, StepRun, Zenon
      <4> QED BY <1>9, <4>1, Zenon DEF Same, After, SubmitRecord, UndoRead
    <3> QED BY <3>1, <3>2, <3>3, Zenon
  <2> QED BY <2>1, <2>2, Zenon
<1>10. ASSUME NEW a \in Answers, NEW o \in Outpoint, FindStale(e, a, o) PROVE Goal
  <2>1. Calm /\ run[e].pc # "dedup"
    BY <1>10, Zenon DEF FindStale, Read, Hooked, Manager, Calm
  <2>2. Same(e)
    <3> DEFINE q1 == [After(e, a) EXCEPT !.pc = "drop", !.snap = store.consumedBy[o], !.flags = @ \cup {"delstarted"}]
               q2 == [After(e, a) EXCEPT !.pc = "stale", !.cur = {}]
               q3 == [After(e, a) EXCEPT !.pc = "stale", !.cur = {}, !.flags = @ \cup {"fault", "delfault"}]
    <3>1. Step(e, q1) \/ Step(e, q2) \/ Step(e, q3)
      BY <1>10, Zenon DEF FindStale
    <3>2. CASE Step(e, q1)
      <4>1. run'[e] = q1
        BY <3>2, StepRun, Zenon
      <4> QED BY <1>10, <4>1 DEF Same, After, SubmitRecord
    <3>3. CASE Step(e, q2)
      <4>1. run'[e] = q2
        BY <3>3, StepRun, Zenon
      <4> QED BY <1>10, <4>1 DEF Same, After, SubmitRecord
    <3>4. CASE Step(e, q3)
      <4>1. run'[e] = q3
        BY <3>4, StepRun, Zenon
      <4> QED BY <1>10, <4>1 DEF Same, After, SubmitRecord
    <3> QED BY <3>1, <3>2, <3>3, <3>4, Zenon
  <2> QED BY <2>1, <2>2, Zenon
<1>11. ASSUME NEW a \in Answers, NEW o \in Outpoint, ReadBack(e, a, o) PROVE Goal
  <2>1. Calm /\ run[e].pc # "dedup"
    BY <1>11, Zenon DEF ReadBack, Read, Hooked, Manager, Calm
  <2>2. (\E b \in BOOLEAN : Finish(e, b)) \/ Same(e)
    <3> DEFINE q == [run[e] EXCEPT !.todo = @ \ {o}]
    <3>1. Hold(e) \/ Step(e, q)
      BY <1>11, Zenon DEF ReadBack
    <3>2. CASE Step(e, q)
      <4>1. run'[e] = q /\ run[e].pc = "readback"
        BY <1>11, <3>2, StepRun, Zenon DEF ReadBack
      <4> QED BY <4>1, Zenon DEF Same, SubmitRecord
    <3> QED BY <3>1, <3>2, Zenon DEF Hold
  <2> QED BY <2>1, <2>2, Zenon
<1>12. ASSUME NEW a \in Answers, NEW o \in Outpoint, ReadRetained(e, a, o) PROVE Goal
  <2>1. Calm /\ run[e].pc # "dedup"
    BY <1>12, Zenon DEF ReadRetained, Read, Hooked, Manager, Calm
  <2>2. Same(e)
    <3> DEFINE q1 == [After(e, a) EXCEPT !.todo = @ \ {o}, !.flags = @ \cup Flag(a, {"fault"})]
               q2 == [[After(e, a) EXCEPT !.todo = @ \ {o}, !.flags = @ \cup Flag(a, {"fault"})]
             EXCEPT !.pc = "linkwrite", !.cur = {o},
                    !.snap = store.consumedBy[o] \cup [After(e, a) EXCEPT !.todo = @ \ {o}, !.flags = @ \cup Flag(a, {"fault"})].adm]
    <3>1. Step(e, q1) \/ Step(e, q2)
      BY <1>12, Zenon DEF ReadRetained
    <3>2. CASE Step(e, q1)
      <4>1. run'[e] = q1
        BY <3>2, StepRun, Zenon
      <4> QED BY <1>12, <4>1, Zenon DEF Same, After, SubmitRecord, ReadRetained
    <3>3. CASE Step(e, q2)
      <4>1. run'[e] = q2
        BY <3>3, StepRun, Zenon
      <4> QED BY <1>12, <4>1 DEF Same, After, SubmitRecord
    <3> QED BY <3>1, <3>2, <3>3, Zenon
  <2> QED BY <2>1, <2>2, Zenon
<1>13. ASSUME NEW a \in Answers, NEW p \in Outpoint, NEW o \in Outpoint, ReadConsumed(e, a, p, o) PROVE Goal
  <2>1. Calm /\ run[e].pc # "dedup"
    BY <1>13, Zenon DEF ReadConsumed, Read, Hooked, Manager, Calm
  <2>2. Same(e)
    <3> DEFINE q1 == [After(e, a) EXCEPT !.deep = @ \ {<<p, o>>}]
               q2 == [[After(e, a) EXCEPT !.deep = @ \ {<<p, o>>}]
             EXCEPT !.pc = "unref", !.cur = {o}, !.from = {p}, !.snap = store.consumedBy[o] \ {p}]
    <3>1. Step(e, q1) \/ Step(e, q2)
      BY <1>13, Zenon DEF ReadConsumed
    <3>2. CASE Step(e, q1)
      <4>1. run'[e] = q1
        BY <3>2, StepRun, Zenon
      <4> QED BY <1>13, <4>1, Zenon DEF Same, After, SubmitRecord, ReadConsumed
    <3>3. CASE Step(e, q2)
      <4>1. run'[e] = q2
        BY <3>3, StepRun, Zenon
      <4> QED BY <1>13, <4>1 DEF Same, After, SubmitRecord
    <3> QED BY <3>1, <3>2, <3>3, Zenon
  <2> QED BY <2>1, <2>2, Zenon
<1> QED BY <1>1, <1>2, <1>3, <1>4, <1>5, <1>6, <1>7, <1>8, <1>9, <1>10, <1>11, <1>12, <1>13, Zenon

\* The steps that send a mark, an undo, a record or a link do as much.
LEMMA StoringSteps ==
  ASSUME TypeOK, NEW e \in Engine, run[e] \in SubmitRecord,
         \E a \in Answers :
           \/ RecordApplied(e, a)
           \/ \E o \in Outpoint :
                \/ MarkSpent(e, a, o) \/ UndoDelete(e, a, o) \/ RecordSpent(e, a, o)
                \/ LinkRetained(e, a, o) \/ \E p \in Outpoint : Unreference(e, a, p, o)
  PROVE  Calm /\ run[e].pc # "dedup" /\ (Same(e) \/ \E b \in BOOLEAN : Finish(e, b))
<1> DEFINE Goal == Calm /\ run[e].pc # "dedup" /\ (Same(e) \/ \E b \in BOOLEAN : Finish(e, b))
<1>0. DOMAIN run = Engine
  BY Zenon DEF TypeOK
<1>1. ASSUME NEW a \in Answers, NEW o \in Outpoint, MarkSpent(e, a, o) PROVE Goal
  <2>0. <<"mark", o>> \in Statement
    BY SubmitAssumption, Zenon DEF Statement, SubmitRecord
  <2>1. Calm
    BY <1>1, <2>0, StoredCalm, Zenon DEF MarkSpent
  <2>2. Same(e)
    BY <1>0, <1>1, Zenon DEF MarkSpent, Step, After, Same, SubmitRecord
  <2>3. run[e].pc # "dedup"
    BY <1>1, Zenon DEF MarkSpent
  <2> QED BY <2>1, <2>2, <2>3, Zenon
<1>2. ASSUME NEW a \in Answers, NEW o \in Outpoint, UndoDelete(e, a, o) PROVE Goal
  <2>0. <<"undo", o>> \in Statement
    BY SubmitAssumption, Zenon DEF Statement, SubmitRecord
  <2>1. Calm
    BY <1>2, <2>0, StoredCalm, Zenon DEF UndoDelete
  <2>2. Same(e)
    BY <1>0, <1>2, Zenon DEF UndoDelete, Step, After, Same, SubmitRecord
  <2>3. run[e].pc # "dedup"
    BY <1>2, Zenon DEF UndoDelete
  <2> QED BY <2>1, <2>2, <2>3, Zenon
<1>3. ASSUME NEW a \in Answers, NEW o \in Outpoint, RecordSpent(e, a, o) PROVE Goal
  <2>0. <<"applied", TxOf[o]>> \in Statement
    BY SubmitAssumption, Zenon DEF Statement, SubmitRecord
  <2>1. Calm
    BY <1>3, <2>0, StoredCalm, Zenon DEF RecordSpent
  <2>2. Same(e)
    <3> DEFINE q1 == [After(e, a) EXCEPT !.pc = "find", !.cur = {o}, !.todo = @ \ {o}]
               q2 == [After(e, a) EXCEPT !.todo = @ \ {o}, !.flags = @ \cup {"fault", "delfault"}]
    <3>1. Step(e, q1) \/ Step(e, q2)
      BY <1>3, Zenon DEF RecordSpent
    <3>2. CASE Step(e, q1)
      <4>1. run'[e] = q1
        BY <3>2, StepRun, Zenon
      <4> QED BY <1>3, <4>1 DEF Same, After, SubmitRecord
    <3>3. CASE Step(e, q2)
      <4>1. run'[e] = q2
        BY <3>3, StepRun, Zenon
      <4> QED BY <1>3, <4>1, Zenon DEF Same, After, SubmitRecord, RecordSpent
    <3> QED BY <3>1, <3>2, <3>3, Zenon
  <2>3. run[e].pc # "dedup"
    BY <1>3, Zenon DEF RecordSpent
  <2> QED BY <2>1, <2>2, <2>3, Zenon
<1>4. ASSUME NEW a \in Answers, NEW o \in Outpoint, LinkRetained(e, a, o) PROVE Goal
  <2>0. <<"link", o, run[e].snap>> \in Statement
    BY SubmitAssumption, Zenon DEF Statement, SubmitRecord
  <2>1. Calm
    BY <1>4, <2>0, StoredCalm, Zenon DEF LinkRetained
  <2>2. Same(e)
    BY <1>0, <1>4, Zenon DEF LinkRetained, Step, After, Same, SubmitRecord
  <2>3. run[e].pc # "dedup"
    BY <1>4, Zenon DEF LinkRetained
  <2> QED BY <2>1, <2>2, <2>3, Zenon
<1>5. ASSUME NEW a \in Answers, NEW p \in Outpoint, NEW o \in Outpoint, Unreference(e, a, p, o) PROVE Goal
  <2>0. <<"link", o, run[e].snap>> \in Statement
    BY SubmitAssumption, Zenon DEF Statement, SubmitRecord
  <2>1. Calm
    BY <1>5, <2>0, StoredCalm, Zenon DEF Unreference
  <2>2. Same(e)
    <3> DEFINE q1 == [[After(e, a) EXCEPT !.from = {}] EXCEPT !.pc = "prune"]
               q2 == [[After(e, a) EXCEPT !.from = {}] EXCEPT !.pc = "deep", !.cur = {}, !.snap = {},
             !.deep = {d \in @ : d[1] # p},
             !.flags = @ \cup (IF p \in Stale([After(e, a) EXCEPT !.from = {}]) THEN {"fault", "delfault"} ELSE {})]
    <3>1. Step(e, q1) \/ Step(e, q2)
      BY <1>5, Zenon DEF Unreference
    <3>2. CASE Step(e, q1)
      <4>1. run'[e] = q1
        BY <3>2, StepRun, Zenon
      <4> QED BY <1>5, <4>1 DEF Same, After, SubmitRecord
    <3>3. CASE Step(e, q2)
      <4>1. run'[e] = q2
        BY <3>3, StepRun, Zenon
      <4> QED BY <1>5, <4>1 DEF Same, After, SubmitRecord
    <3> QED BY <3>1, <3>2, <3>3, Zenon
  <2>3. run[e].pc # "dedup"
    BY <1>5, Zenon DEF Unreference
  <2> QED BY <2>1, <2>2, <2>3, Zenon
<1>6. ASSUME NEW a \in Answers, RecordApplied(e, a) PROVE Goal
  <2>0. <<"applied", run[e].tx>> \in Statement
    BY SubmitAssumption, Zenon DEF Statement, SubmitRecord
  <2>1. Calm
    BY <1>6, <2>0, StoredCalm, Zenon DEF RecordApplied
  <2>2. (\E b \in BOOLEAN : Finish(e, b)) \/ Same(e)
    BY <1>0, <1>6, Zenon DEF RecordApplied, Hold
  <2>3. run[e].pc # "dedup"
    BY <1>6, Zenon DEF RecordApplied
  <2> QED BY <2>1, <2>2, <2>3, Zenon
<1> QED BY <1>1, <1>2, <1>3, <1>4, <1>5, <1>6, Zenon

\* The reads and the questions before the judgement stands, and the insert loop's
\* own bookkeeping, write nothing to the store either.
LEMMA JudgingSteps ==
  ASSUME TypeOK, NEW e \in Engine, run[e] \in SubmitRecord,
         Own(run[e]),
         \/ Marked(e)
         \/ \E a \in Answers :
              \/ ReadApplied(e, a) \/ Judge(e, a) \/ Ask(e, a) \/ Question(e, a)
              \/ ReadOwn(e, a) \/ AdmitHook(e, a) \/ \E o \in Outpoint : ReadCoin(e, a, o)
  PROVE  Calm /\ Moves(e)
<1> DEFINE Goal == Calm /\ Moves(e)
           r == run[e]
<1>0. DOMAIN run = Engine
  BY Zenon DEF TypeOK
<1>1. r.pc # "dedup" /\ Onward(e) => Moves(e)
  BY Zenon DEF Moves
<1>2. \A q \in SubmitRecord : q.tx = r.tx /\ q.parents = r.parents /\ q.adm = r.adm /\ Proceed(e, q)
                              => Onward(e)
  <2> SUFFICES ASSUME NEW q \in SubmitRecord, q.tx = r.tx, q.parents = r.parents, q.adm = r.adm,
                      Proceed(e, q)
               PROVE  Onward(e)
    BY Zenon
  <2>1. Same(e)
    BY <1>0 DEF Proceed, Step, Same, SubmitRecord
  <2> QED BY <2>1, SameOnward, Zenon
<1>3. CASE Marked(e)
  <2>1. Calm /\ r.pc # "dedup"
    BY <1>3, Zenon DEF Marked, Calm
  <2>2. CASE Hold(e)
    BY <2>1, <2>2, Zenon DEF Hold, Moves
  <2>3. CASE Step(e, [run[e] EXCEPT !.pc = "insert", !.todo = run[e].adm])
    <3>1. Onward(e)
      BY <1>0, <2>3 DEF Step, Onward, Own, OwnOuts, SubmitRecord
    <3> QED BY <1>1, <2>1, <3>1, Zenon
  <2> QED BY <1>3, <2>2, <2>3, Zenon DEF Marked
<1>4. ASSUME NEW a \in Answers, AdmitHook(e, a) PROVE Goal
  <2>1. Calm /\ r.pc # "dedup"
    BY <1>4, Zenon DEF AdmitHook, Hooked, Calm
  <2>2. Onward(e)
    <3> DEFINE q1 == [r EXCEPT !.pc = "insert", !.cur = {}]
               q2 == [r EXCEPT !.pc = "undo", !.todo = r.adm \ r.todo, !.cur = {}, !.due = FALSE,
                               !.flags = @ \cup {"fault"}]
    <3>1. Step(e, q1) \/ Step(e, q2)
      BY <1>4, Zenon DEF AdmitHook, Undo
    <3>2. CASE Step(e, q1)
      <4>1. run'[e] = q1
        BY <3>2, StepRun, Zenon
      <4>2. /\ q1.tx = r.tx /\ q1.parents = r.parents /\ q1.adm = r.adm
            /\ q1.pc = "insert" /\ q1.todo = r.todo
        BY Zenon DEF SubmitRecord
      <4>3. r.todo \subseteq r.adm
        BY <1>4, Zenon DEF AdmitHook, Own
      <4> HIDE DEF q1
      <4> QED BY <4>1, <4>2, <4>3, Zenon DEF Onward, Own, OwnOuts
    <3>3. CASE Step(e, q2)
      <4>1. run'[e] = q2
        BY <3>3, StepRun, Zenon
      <4>2. Same(e)
        BY <4>1 DEF Same, SubmitRecord
      <4> QED BY <4>2, SameOnward, Zenon
    <3> QED BY <3>1, <3>2, <3>3, Zenon
  <2> QED BY <1>1, <2>1, <2>2, Zenon
<1>5. ASSUME NEW a \in Answers, NEW o \in Outpoint, ReadCoin(e, a, o) PROVE Goal
  <2>1. Calm /\ r.pc # "dedup"
    BY <1>5, Zenon DEF ReadCoin, Read, Calm
  <2>2. Same(e)
    <3> DEFINE q == [After(e, a) EXCEPT
                       !.todo = @ \ {o},
                       !.coins = IF a = "ok" THEN @ \cup ({o} \cap store.held) ELSE @,
                       !.flags = @ \cup Flag(a, {"read"})]
    <3>1. run'[e] = q
      BY <1>5, StepRun, Zenon DEF ReadCoin
    <3>2. q.tx = r.tx /\ q.parents = r.parents /\ q.adm = r.adm /\ q.pc = "coins"
      BY <1>5, Zenon DEF SubmitRecord, After, ReadCoin
    <3> HIDE DEF q
    <3> QED BY <3>1, <3>2, Zenon DEF Same
  <2> QED BY <1>1, <2>1, <2>2, SameOnward, Zenon
<1>6. ASSUME NEW a \in Answers, ReadApplied(e, a) PROVE Goal
  <2>1. Calm
    BY <1>6, Zenon DEF ReadApplied, Read, Calm
  <2>2. CASE \E b \in BOOLEAN : Finish(e, b)
    BY <2>1, <2>2, Zenon DEF Moves
  <2>3. CASE r.tx \notin store.applied /\ Step(e, [run[e] EXCEPT !.pc = "coins", !.todo = Spends[run[e].tx]])
    <3>1. Onward(e)
      BY <1>0, <2>3 DEF Step, Onward, Own, OwnOuts, SubmitRecord
    <3> QED BY <2>1, <2>3, <3>1, Zenon DEF Moves
  <2> QED BY <1>6, <2>2, <2>3, Zenon DEF ReadApplied, Hold
<1>7. ASSUME NEW a \in Answers, Judge(e, a) PROVE Goal
  <2>1. Calm /\ r.pc # "dedup"
    BY <1>7, Zenon DEF Judge, Manager, Calm
  <2> DEFINE adm == Admit[r.tx][r.coins] \ (IF r.fin THEN Expired ELSE {})
  <2>2. CASE \E b \in BOOLEAN : Finish(e, b)
    BY <2>1, <2>2, Zenon DEF Moves
  <2>3. CASE Step(e, [r EXCEPT !.pc = "ask", !.adm = adm])
    <3>1. adm \subseteq OutsOf(r.tx)
      BY SubmitAssumption, Zenon DEF SubmitRecord
    <3> HIDE DEF adm
    <3>2. Onward(e)
      BY <1>0, <2>3, <3>1 DEF Step, Onward, Own, OwnOuts, SubmitRecord
    <3> QED BY <1>1, <2>1, <3>2, Zenon
  <2> QED BY <1>7, <2>2, <2>3, Zenon DEF Judge, Hold
<1>8. ASSUME NEW a \in Answers, Ask(e, a) PROVE Goal
  <2>1. Calm /\ r.pc # "dedup"
    BY <1>8, Zenon DEF Ask, Manager, Calm
  <2> DEFINE named == IF a = "ok" THEN Names[run[e].tx] ELSE {}
  <2>2. CASE Hold(e)
    BY <2>1, <2>2, Zenon DEF Hold, Moves
  <2>3. CASE Proceed(e, After(e, a))
    <3>1. /\ After(e, a) \in SubmitRecord /\ After(e, a).tx = r.tx /\ After(e, a).parents = r.parents
          /\ After(e, a).adm = r.adm
      BY <1>0, AfterType, AfterParts, Zenon
    <3>2. Onward(e)
      BY <1>2, <2>3, <3>1, Zenon
    <3> QED BY <1>1, <2>1, <3>2, Zenon
  <2>4. CASE Step(e, [run[e] EXCEPT !.pc = "own"]) \/ Step(e, [run[e] EXCEPT !.pc = "question", !.snap = named])
    <3>1. Same(e)
      <4> DEFINE q1 == [run[e] EXCEPT !.pc = "own"]
                 q2 == [run[e] EXCEPT !.pc = "question", !.snap = named]
      <4> HIDE DEF named
      <4>1. run'[e] = q1 \/ run'[e] = q2
        BY <2>4, StepRun, Zenon
      <4>2. CASE run'[e] = q1
        BY <4>2, Zenon DEF Same, SubmitRecord
      <4>3. CASE run'[e] = q2
        BY <4>3, Zenon DEF Same, SubmitRecord
      <4> QED BY <4>1, <4>2, <4>3, Zenon
    <3> QED BY <1>1, <2>1, <3>1, SameOnward, Zenon
  <2> QED BY <1>8, <2>2, <2>3, <2>4, Zenon DEF Ask
<1>9. ASSUME NEW a \in Answers, Question(e, a) PROVE Goal
  <2>1. Calm /\ r.pc # "dedup"
    BY <1>9, Zenon DEF Question, Read, Calm
  <2> DEFINE S == Starts(r, r.snap) \ r.coins
             carried == CarriedPredecessors(r, S, r.snap)
             own == [r EXCEPT !.pc = "own", !.snap = {}]
  <2>3. \/ Step(e, own) \/ Proceed(e, r)
        \/ \E c \in carried : c \in LandsFirst /\ Land(e, c)
        \/ \E c \in carried : Step(e, [own EXCEPT !.under = {c} \cap LandsFirst])
    BY <1>9, Zenon DEF Question
  <2> HIDE DEF carried, S
  <2>4. CASE Step(e, own)
    <3>1. Same(e)
      BY <1>0, <2>4 DEF Step, Same, SubmitRecord
    <3> QED BY <1>1, <2>1, <3>1, SameOnward, Zenon
  <2>5. CASE Proceed(e, r)
    <3>1. Onward(e)
      BY <1>2, <2>5, Zenon
    <3> QED BY <1>1, <2>1, <3>1, Zenon
  <2>6. ASSUME NEW c \in carried, c \in LandsFirst, Land(e, c) PROVE Goal
    BY <2>1, <2>6, SubmitAssumption, Zenon DEF Moves
  <2>7. ASSUME NEW c \in carried, Step(e, [own EXCEPT !.under = {c} \cap LandsFirst]) PROVE Goal
    <3>1. Onward(e)
      BY <1>0, <2>7 DEF Step, Onward, Own, OwnOuts, SubmitRecord
    <3> QED BY <1>1, <2>1, <3>1, Zenon
  <2> QED BY <2>3, <2>4, <2>5, <2>6, <2>7, Zenon
<1>10. ASSUME NEW a \in Answers, ReadOwn(e, a) PROVE Goal
  <2>1. Calm /\ r.pc # "dedup"
    BY <1>10, Zenon DEF ReadOwn, Read, Calm
  <2>2. Proceed(e, r) \/ Hold(e) \/ \E c \in r.under : Land(e, c)
    BY <1>10, Zenon DEF ReadOwn
  <2>3. CASE Proceed(e, r)
    <3>1. Onward(e)
      BY <1>2, <2>3, Zenon
    <3> QED BY <1>1, <2>1, <3>1, Zenon
  <2>4. CASE Hold(e)
    BY <2>1, <2>4, Zenon DEF Hold, Moves
  <2>5. ASSUME NEW c \in r.under, Land(e, c) PROVE Goal
    <3>1. c \in Tx
      BY Zenon DEF SubmitRecord
    <3> QED BY <2>1, <2>5, <3>1, Zenon DEF Moves
  <2> QED BY <2>2, <2>3, <2>4, <2>5, Zenon
<1> QED BY <1>3, <1>4, <1>5, <1>6, <1>7, <1>8, <1>9, <1>10, Zenon

\* An insert is of an output of the submit's own transaction, whether it lands
\* now or is in flight.
LEMMA InsertStep ==
  ASSUME TypeOK, NEW e \in Engine, run[e] \in SubmitRecord,
         Own(run[e]), NEW a \in Answers, NEW o \in Outpoint, InsertOutput(e, a, o)
  PROVE  Inserts(e) /\ Onward(e)
<1> DEFINE w == <<"insert", o, Kept(run[e])>>
<1>0. DOMAIN run = Engine
  BY Zenon DEF TypeOK
<1>1. w \in Statement /\ w[1] = "insert" /\ w[2] = o
  BY Zenon DEF Statement, Kept, SubmitRecord
<1>2. Stored(e, a, w) /\ run[e].pc = "insert" /\ o \in run[e].todo
  BY Zenon DEF InsertOutput
<1> HIDE DEF w
<1>3. store'.gone = store.gone /\ late' \subseteq late \cup {w}
  BY <1>1, <1>2, StoredAccounts, Zenon DEF Stored, NoDelete
<1>4. store'.held \subseteq store.held \cup {o}
  BY <1>1, <1>2, ApplyHeld, Zenon DEF Stored, TypeOK
<1>5. TxOf[o] = run[e].tx
  BY <1>2, Zenon DEF Own, OwnOuts, OutsOf
<1>6. Inserts(e)
  BY <1>1, <1>2, <1>3, <1>4, <1>5, Zenon DEF Inserts
<1>7. Onward(e)
  <2> DEFINE r == run[e]
             q1 == [r EXCEPT !.pc = "admithook", !.cur = {o}, !.todo = @ \ {o}]
             q2 == [r EXCEPT !.pc = "undo", !.todo = (r.adm \ r.todo) \cup {o}, !.cur = {}, !.due = FALSE,
                             !.flags = @ \cup {"fault"}]
  <2>1. Step(e, q1) \/ Step(e, q2)
    BY Zenon DEF InsertOutput, Undo
  <2>2. CASE Step(e, q1)
    <3>1. run'[e] = q1
      BY <2>2, StepRun, Zenon
    <3>2. /\ q1.tx = r.tx /\ q1.parents = r.parents /\ q1.adm = r.adm
          /\ q1.pc = "admithook" /\ q1.todo \subseteq r.todo
      BY Zenon DEF SubmitRecord
    <3>3. r.todo \subseteq r.adm
      BY <1>2, Zenon DEF Own
    <3> HIDE DEF q1
    <3> QED BY <3>1, <3>2, <3>3, Zenon DEF Onward, Own, OwnOuts
  <2>3. CASE Step(e, q2)
    <3>1. run'[e] = q2
      BY <2>3, StepRun, Zenon
    <3>2. Same(e)
      BY <3>1 DEF Same, SubmitRecord
    <3> QED BY <3>2, SameOnward, Zenon
  <2> QED BY <2>1, <2>2, <2>3, Zenon
<1> QED BY <1>6, <1>7, Zenon

\* A row that is dropped, the stale coin or one below it, inserts nothing.
LEMMA DropStep ==
  ASSUME TypeOK, NEW e \in Engine, run[e] \in SubmitRecord,
         NEW a \in Answers, NEW o \in Outpoint, DropRow(e, a, o)
  PROVE  Calm /\ run[e].pc # "dedup" /\ Same(e)
<1> DEFINE r == run[e]
           w == IF r.pc = "drop" THEN <<"delete", o, After(e, a).adm>> ELSE <<"prune", o>>
<1>1. Same(e) /\ r.pc # "dedup"
  <2> DEFINE error == IF r.pc = "drop" THEN {"fault", "delfault"} ELSE {}
             walk == [After(e, a) EXCEPT !.pc = "deep", !.cur = {}, !.snap = {},
                                         !.deep = @ \cup ({o} \X store.consumes[o])]
             q2 == [walk EXCEPT !.pc = "dropped"]
             q3 == [walk EXCEPT !.deep = After(e, a).deep, !.flags = @ \cup error]
  <2>1. r.pc # "dedup" /\ (Step(e, walk) \/ Step(e, q2) \/ Step(e, q3))
    BY Zenon DEF DropRow
  <2>2. CASE Step(e, walk)
    <3>1. run'[e] = walk
      BY <2>2, StepRun, Zenon
    <3> QED BY <2>1, <3>1 DEF Same, After, SubmitRecord
  <2>3. CASE Step(e, q2)
    <3>1. run'[e] = q2
      BY <2>3, StepRun, Zenon
    <3> QED BY <2>1, <3>1 DEF Same, After, SubmitRecord
  <2>4. CASE Step(e, q3)
    <3>1. run'[e] = q3
      BY <2>4, StepRun, Zenon
    <3> QED BY <2>1, <3>1 DEF Same, After, SubmitRecord
  <2> QED BY <2>1, <2>2, <2>3, <2>4, Zenon
<1>2. (UNCHANGED <<store, late>>) \/ Stored(e, a, w)
  BY Zenon DEF DropRow
<1>3. w \in Statement /\ w[1] # "insert"
  <2>1. DOMAIN run = Engine
    BY Zenon DEF TypeOK
  <2>2. After(e, a) \in SubmitRecord
    BY <2>1, AfterType, Zenon
  <2> QED BY <2>2 DEF Statement, SubmitRecord
<1> HIDE DEF w
<1>4. Calm
  BY <1>2, <1>3, StoredCalm, Zenon DEF Calm
<1> QED BY <1>1, <1>4, Zenon

\* A submit that makes progress is in flight.
LEMMA ProgressIn ==
  ASSUME TypeOK, NEW e \in Engine, Progress(e)
  PROVE  run[e] \in SubmitRecord
<1> USE DEF Labels
<1>1. CASE Marked(e) \/ Undone(e) \/ Inserted(e) \/ DeepDone(e) \/ Deleted(e) \/ AllHeld(e) \/ Unrecorded(e)
  BY <1>1, InSubmit, Zenon DEF Marked, Undone, Inserted, DeepDone, Deleted, AllHeld, Unrecorded
<1>2. ASSUME NEW a \in Answers,
             \/ ReadApplied(e, a) \/ Judge(e, a) \/ Ask(e, a) \/ Question(e, a) \/ ReadOwn(e, a)
             \/ Rejudge(e, a) \/ SpendHook(e, a) \/ AdmitHook(e, a) \/ DropHook(e, a) \/ RecordApplied(e, a)
      PROVE  run[e] \in SubmitRecord
  <2>1. run[e].pc \in {"dedup", "coins", "ask", "question", "own", "rejudge", "spendhook", "admithook",
                       "dropped", "link"}
    BY <1>2, Zenon DEF ReadApplied, Judge, Ask, Question, ReadOwn, Rejudge, SpendHook, AdmitHook,
                       DropHook, RecordApplied
  <2> QED BY <2>1, InSubmit, Zenon
<1>3. ASSUME NEW a \in Answers, NEW o \in Outpoint,
             \/ ReadCoin(e, a, o) \/ MarkSpent(e, a, o) \/ InsertOutput(e, a, o)
             \/ UndoRead(e, a, o) \/ UndoDelete(e, a, o) \/ RecordSpent(e, a, o)
             \/ FindStale(e, a, o) \/ DropRow(e, a, o) \/ ReadBack(e, a, o)
             \/ ReadRetained(e, a, o) \/ LinkRetained(e, a, o)
             \/ \E p \in Outpoint : ReadConsumed(e, a, p, o) \/ Unreference(e, a, p, o)
      PROVE  run[e] \in SubmitRecord
  <2>1. \/ run[e].pc \in {"coins", "mark", "insert", "undo", "undodelete", "stale", "find", "readback",
                          "link", "linkwrite", "deep", "unref"}
        \/ run[e].pc \in {"drop", "prune"}
    BY <1>3, Zenon DEF ReadCoin, MarkSpent, InsertOutput, UndoRead, UndoDelete, RecordSpent, FindStale,
                       DropRow, ReadBack, ReadRetained, LinkRetained, ReadConsumed, Unreference
  <2> QED BY <2>1, InSubmit, Zenon
<1> QED BY <1>1, <1>2, <1>3, Zenon DEF Progress

\* Every step of a submit writes that submit's record and no other.
LEMMA ProgressSteps ==
  ASSUME TypeOK, NEW e \in Engine, Progress(e)
  PROVE  \A f \in Engine : f # e => run'[f] = run[f]
<1> DEFINE Goal == \E r : Step(e, r)
<1>0. \A r : Step(e, r) => Goal
  BY Zenon
<1> HIDE DEF Goal
<1>1. \A b : Finish(e, b) => Goal
  BY <1>0, Zenon DEF Finish
<1>2. Hold(e) => Goal
  BY <1>1, Zenon DEF Hold
<1>3. \A r : Proceed(e, r) => Goal
  BY <1>0, Zenon DEF Proceed
<1>4. \A c : Land(e, c) => Goal
  BY <1>0, Zenon DEF Land
<1> USE <1>0, <1>1, <1>2, <1>3, <1>4
<1>5. ASSUME Marked(e) \/ Undone(e) \/ Inserted(e) \/ DeepDone(e) \/ Deleted(e) \/ AllHeld(e) \/ Unrecorded(e)
      PROVE  Goal
  <2>1. CASE Marked(e) \/ Undone(e) \/ Unrecorded(e)
    BY <2>1, Zenon DEF Marked, Undone, Unrecorded
  <2>2. CASE Inserted(e) \/ DeepDone(e) \/ AllHeld(e)
    BY <2>2, Zenon DEF Inserted, DeepDone, AllHeld
  <2>3. CASE Deleted(e)
    BY <2>3, Zenon DEF Deleted
  <2> QED BY <1>5, <2>1, <2>2, <2>3, Zenon
<1>6. ASSUME NEW a \in Answers,
             \/ ReadApplied(e, a) \/ Judge(e, a) \/ Ask(e, a) \/ Question(e, a) \/ ReadOwn(e, a)
             \/ Rejudge(e, a) \/ SpendHook(e, a) \/ AdmitHook(e, a) \/ DropHook(e, a) \/ RecordApplied(e, a)
      PROVE  Goal
  <2>1. CASE ReadApplied(e, a) \/ Judge(e, a) \/ Ask(e, a)
    BY <2>1, Zenon DEF ReadApplied, Judge, Ask
  <2>2. CASE Question(e, a) \/ ReadOwn(e, a) \/ Rejudge(e, a)
    BY <2>2, Zenon DEF Question, ReadOwn, Rejudge
  <2>3. CASE SpendHook(e, a) \/ AdmitHook(e, a) \/ DropHook(e, a) \/ RecordApplied(e, a)
    BY <2>3, Zenon DEF SpendHook, AdmitHook, DropHook, RecordApplied, Undo
  <2> QED BY <1>6, <2>1, <2>2, <2>3, Zenon
<1>7. ASSUME NEW a \in Answers, NEW o \in Outpoint,
             \/ ReadCoin(e, a, o) \/ MarkSpent(e, a, o) \/ InsertOutput(e, a, o)
             \/ UndoRead(e, a, o) \/ UndoDelete(e, a, o) \/ RecordSpent(e, a, o)
             \/ FindStale(e, a, o) \/ DropRow(e, a, o) \/ ReadBack(e, a, o)
             \/ ReadRetained(e, a, o) \/ LinkRetained(e, a, o)
             \/ \E p \in Outpoint : ReadConsumed(e, a, p, o) \/ Unreference(e, a, p, o)
      PROVE  Goal
  <2>1. CASE ReadCoin(e, a, o) \/ MarkSpent(e, a, o) \/ InsertOutput(e, a, o)
    BY <2>1, Zenon DEF ReadCoin, MarkSpent, InsertOutput, Undo
  <2>2. CASE UndoRead(e, a, o) \/ UndoDelete(e, a, o) \/ RecordSpent(e, a, o)
    BY <2>2, Zenon DEF UndoRead, UndoDelete, RecordSpent
  <2>3. CASE FindStale(e, a, o) \/ DropRow(e, a, o) \/ ReadBack(e, a, o)
    BY <2>3, Zenon DEF FindStale, DropRow, ReadBack
  <2>4. CASE ReadRetained(e, a, o) \/ LinkRetained(e, a, o)
    BY <2>4, Zenon DEF ReadRetained, LinkRetained
  <2>5. CASE \E p \in Outpoint : ReadConsumed(e, a, p, o) \/ Unreference(e, a, p, o)
    BY <2>5, Zenon DEF ReadConsumed, Unreference
  <2> QED BY <1>7, <2>1, <2>2, <2>3, <2>4, <2>5, Zenon
<1>8. Goal
  <2>1. CASE \E a \in Answers :
               \/ ReadApplied(e, a) \/ Judge(e, a) \/ Ask(e, a) \/ Question(e, a) \/ ReadOwn(e, a)
               \/ Rejudge(e, a) \/ SpendHook(e, a) \/ AdmitHook(e, a) \/ DropHook(e, a) \/ RecordApplied(e, a)
    BY <1>6, <2>1, Zenon
  <2>2. CASE \E a \in Answers, o \in Outpoint :
               \/ ReadCoin(e, a, o) \/ MarkSpent(e, a, o) \/ InsertOutput(e, a, o)
               \/ UndoRead(e, a, o) \/ UndoDelete(e, a, o) \/ RecordSpent(e, a, o)
               \/ FindStale(e, a, o) \/ DropRow(e, a, o) \/ ReadBack(e, a, o)
               \/ ReadRetained(e, a, o) \/ LinkRetained(e, a, o)
               \/ \E p \in Outpoint : ReadConsumed(e, a, p, o) \/ Unreference(e, a, p, o)
    BY <1>7, <2>2, Zenon
  <2> HIDE <1>0, <1>1, <1>2, <1>3, <1>4
  <2> QED BY <1>5, <2>1, <2>2, Zenon DEF Progress
<1> QED BY <1>8, StepRun, Zenon DEF Goal

\* Every step of a submit moves its own record and inserts nothing, or outputs of
\* its own transaction.
LEMMA ProgressMoves ==
  ASSUME TypeOK, NEW e \in Engine, Progress(e), run[e] \in SubmitRecord, Own(run[e])
  PROVE  Moves(e) /\ (Calm \/ Inserts(e))
<1> DEFINE Goal == Moves(e) /\ (Calm \/ Inserts(e))
<1>1. ASSUME Calm, run[e].pc # "dedup", Same(e) \/ \E b \in BOOLEAN : Finish(e, b) PROVE Goal
  BY <1>1, SameOnward, Zenon DEF Moves
<1>2. CASE \/ Undone(e) \/ Unrecorded(e) \/ Inserted(e) \/ DeepDone(e) \/ Deleted(e) \/ AllHeld(e)
           \/ \E a \in Answers :
                \/ Rejudge(e, a) \/ SpendHook(e, a) \/ DropHook(e, a)
                \/ \E o \in Outpoint :
                     \/ UndoRead(e, a, o) \/ FindStale(e, a, o) \/ ReadBack(e, a, o)
                     \/ ReadRetained(e, a, o) \/ \E p \in Outpoint : ReadConsumed(e, a, p, o)
  BY <1>1, <1>2, QuietSteps, Zenon
<1>3. CASE \E a \in Answers :
             \/ RecordApplied(e, a)
             \/ \E o \in Outpoint :
                  \/ MarkSpent(e, a, o) \/ UndoDelete(e, a, o) \/ RecordSpent(e, a, o)
                  \/ LinkRetained(e, a, o) \/ \E p \in Outpoint : Unreference(e, a, p, o)
  BY <1>1, <1>3, StoringSteps, Zenon
<1>4. CASE \/ Marked(e)
           \/ \E a \in Answers :
                \/ ReadApplied(e, a) \/ Judge(e, a) \/ Ask(e, a) \/ Question(e, a)
                \/ ReadOwn(e, a) \/ AdmitHook(e, a) \/ \E o \in Outpoint : ReadCoin(e, a, o)
  BY <1>4, JudgingSteps, Zenon
<1>5. ASSUME NEW a \in Answers, NEW o \in Outpoint, InsertOutput(e, a, o) PROVE Goal
  BY <1>5, InsertStep, Zenon DEF Moves, Inserts
<1>6. ASSUME NEW a \in Answers, NEW o \in Outpoint, DropRow(e, a, o) PROVE Goal
  BY <1>1, <1>6, DropStep, Zenon
<1> QED BY <1>2, <1>3, <1>4, <1>5, <1>6, Zenon DEF Progress

\* One engine's step, or none's: a coin stays settled if its transaction comes
\* into no hand and neither its row nor an insert of it is new.
LEMMA SettledKeeps ==
  ASSUME NEW o \in Outpoint, Settled(o), store.gone \subseteq store'.gone,
         \A f \in Engine : ~InHand(run[f], TxOf[o])',
         \A w \in late' : w[1] = "insert" => w \in late \/ w[2] # o
  PROVE  Settled(o)'
BY Zenon DEF Settled, Gone

\* A death, a new invocation and a new submit keep what submits admit, and what
\* is settled.
LEMMA OtherStays ==
  ASSUME TypeOK, Owners, NEW e \in Engine,
         \/ Crash(e) \/ NewInvocation(e)
         \/ \E t \in Tx, fin \in BOOLEAN : Submit(e, t, fin)
  PROVE  /\ Owners'
         /\ \A o \in Outpoint : Settled(o) => o \notin store'.held \ store.held /\ Settled(o)'
<1> DEFINE Keeps(o) == o \notin store'.held \ store.held /\ Settled(o)'
<1>1. CASE Crash(e)
  <2>1. /\ run'[e] = Idle /\ store' = store /\ late' = late
        /\ \A f \in Engine : f # e => run'[f] = run[f]
    BY <1>1, StepRun, Zenon DEF Crash
  <2>2. Owners'
    BY <2>1, Zenon DEF Owners, Own, OwnOuts
  <2>3. ASSUME NEW o \in Outpoint, Settled(o) PROVE Keeps(o)
    <3>1. \A f \in Engine : ~InHand(run[f], TxOf[o])'
      BY <2>1, <2>3, Zenon DEF Settled, InHand
    <3> QED BY <2>1, <2>3, <3>1, SettledKeeps, Zenon
  <2> QED BY <2>2, <2>3, Zenon
<1>2. CASE NewInvocation(e)
  BY <1>2, Zenon DEF NewInvocation, Owners, Own, OwnOuts, Settled, Gone, InHand
<1>3. ASSUME NEW t \in Tx, NEW fin \in BOOLEAN, Submit(e, t, fin)
      PROVE  Owners' /\ \A o \in Outpoint : Settled(o) => Keeps(o)
  <2>1. /\ run'[e] = Fresh(t, fin, <<>>) /\ late' = late
        /\ \A f \in Engine : f # e => run'[f] = run[f]
    BY <1>3, StepRun, Zenon DEF Submit
  <2>2. store'.held = store.held /\ store'.gone = store.gone
    BY <1>3, Zenon DEF Submit, TypeOK, StoreType
  <2>3. run'[e].pc = "dedup" /\ run'[e].adm = {} /\ Len(run'[e].parents) = 0
    BY <2>1 DEF Fresh
  <2>4. Own(run[e])'
    BY <2>3 DEF Own, OwnOuts
  <2>5. Owners'
    BY <2>1, <2>4, Zenon DEF Owners, Own, OwnOuts
  <2>6. ASSUME NEW o \in Outpoint, Settled(o) PROVE Keeps(o)
    <3>1. ~InHand(run[e], TxOf[o])'
      BY <2>3 DEF InHand
    <3>2. \A f \in Engine : ~InHand(run[f], TxOf[o])'
      BY <2>1, <2>6, <3>1, ZenonT(40) DEF Settled, InHand
    <3> QED BY <2>1, <2>2, <2>6, <3>2, SettledKeeps, Zenon
  <2> QED BY <2>5, <2>6, Zenon
<1> QED BY <1>1, <1>2, <1>3, Zenon

\* So does a statement that lands late.
LEMMA LateStays ==
  ASSUME TypeOK, Owners, NEW w \in late, LandLate(w)
  PROVE  /\ Owners'
         /\ \A o \in Outpoint : Settled(o) => o \notin store'.held \ store.held /\ Settled(o)'
<1>1. store' = Apply(store, w) /\ late' \subseteq late /\ run' = run /\ w \in Statement
  BY Zenon DEF LandLate, TypeOK
<1>2. /\ store.gone \subseteq store'.gone
      /\ w[1] # "insert" => store'.held \subseteq store.held
      /\ store'.held \subseteq store.held \cup {w[2]}
  BY <1>1, ApplyGrows, ApplyHeld, Zenon DEF TypeOK
<1>3. Owners'
  BY <1>1, Zenon DEF Owners, Own, OwnOuts
<1>4. ASSUME NEW o \in Outpoint, Settled(o)
      PROVE  o \notin store'.held \ store.held /\ Settled(o)'
  <2>1. \A f \in Engine : ~InHand(run[f], TxOf[o])'
    BY <1>1, <1>4, Zenon DEF Settled, InHand
  <2>2. w[1] = "insert" => w[2] # o
    BY <1>4, Zenon DEF Settled
  <2> QED BY <1>1, <1>2, <1>4, <2>1, <2>2, SettledKeeps, Zenon
<1> QED BY <1>3, <1>4, Zenon

\* Every step keeps what submits admit, and what is settled.
LEMMA StaysNext ==
  ASSUME TypeOK, Accounted, Owners, Next
  PROVE  /\ Owners'
         /\ \A o \in Outpoint : Settled(o) => o \notin store'.held \ store.held /\ Settled(o)'
<1> DEFINE Keeps(o) == o \notin store'.held \ store.held /\ Settled(o)'
<1>1. ASSUME NEW e \in Engine, Progress(e)
      PROVE  Owners' /\ \A o \in Outpoint : Settled(o) => Keeps(o)
  <2>1. run[e] \in SubmitRecord
    BY <1>1, ProgressIn, Zenon
  <2>2. Own(run[e])
    BY <2>1 DEF Owners, Idle, SubmitRecord
  <2>3. Moves(e) /\ (Calm \/ Inserts(e))
    BY <1>1, <2>1, <2>2, ProgressMoves, Zenon
  <2>4. \A f \in Engine : f # e => run'[f] = run[f]
    BY <1>1, ProgressSteps, Zenon
  <2>5. Owners'
    <3>1. run'[e] # Idle => Own(run[e])'
      BY <2>1, <2>2, <2>3, MovesOwn, Zenon
    <3> QED BY <2>4, <3>1, Zenon DEF Owners, Own, OwnOuts
  <2>6. ASSUME NEW o \in Outpoint, Settled(o) PROVE Keeps(o)
    <3>1. TxOf[o] \in store.applied /\ ~InHand(run[e], TxOf[o])
      BY <2>6, Zenon DEF Settled, Gone, Accounted, GoneIsAccounted
    <3>2. ~InHand(run[e], TxOf[o])'
      BY <2>1, <2>3, <3>1, MovesInHand, Zenon
    <3>3. \A f \in Engine : ~InHand(run[f], TxOf[o])'
      BY <2>4, <2>6, <3>2, ZenonT(40) DEF Settled, InHand
    <3>4. run[e].tx = TxOf[o] => run[e].pc = "dedup"
      BY <2>1, <3>1 DEF InHand, Idle, SubmitRecord
    <3>5. CASE Calm
      BY <2>6, <3>3, <3>5, SettledKeeps, Zenon DEF Calm
    <3>6. CASE Inserts(e)
      BY <2>6, <3>3, <3>4, <3>6, SettledKeeps, Zenon DEF Inserts
    <3> QED BY <2>3, <3>5, <3>6, Zenon
  <2> QED BY <2>5, <2>6, Zenon
<1> QED BY <1>1, OtherStays, LateStays, Zenon DEF Next

\* A coin that was spent and deleted is gone for good once no submit of its
\* transaction past the dedup read and no insert of it is left in flight (engine.rs:
\* the coin's transaction is recorded before its delete, and validate_topic reads
\* the record before anything is judged): for every topic, manager, number of
\* engines and order of presentations, whatever faults, dies or lands late.
THEOREM StaysGoneHolds == Spec => StaysGone
<1>1. Init => Owners
  BY Zenon DEF Init, Owners
<1>2. TypeOK /\ Accounted /\ Owners /\ [Next]_vars
        => /\ Owners'
           /\ [\A o \in Outpoint : Settled(o) => o \notin store'.held \ store.held /\ Settled(o)']_vars
  <2>1. CASE UNCHANGED vars
    BY <2>1, Zenon DEF vars, Owners, Own, OwnOuts
  <2> QED BY <2>1, StaysNext, Zenon
<1> QED BY <1>1, <1>2, SubmitTypeCorrect, SubmitAccounted, PTL DEF Spec, StaysGone
=============================================================================
