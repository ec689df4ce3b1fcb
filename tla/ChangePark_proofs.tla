------------------------- MODULE ChangePark_proofs -------------------------
(* Proofs about ChangePark, for every value of its constants: its types, that the table
   implements the list of intents, that a change is always in someone's custody, and the
   ceiling of the rows. *)
EXTENDS ChangePark, TLAPS

JobType == [at : {"idle", "post", "commit", "park", "forget"}, keys : SUBSET Key, same : SUBSET Key]
RowType == [generation : Nat, attempts : Nat, due : BOOLEAN, exhausted : BOOLEAN]
DrainType == [at : {"read", "post", "unpark", "refuse", "sweep"}, set : {"notes", "lobby"},
              read : [Key -> Nat], fresh : SUBSET Key, ok : SUBSET Key, bad : SUBSET Key]
BudgetType == [writes : [Key -> Nat], troubles : Nat, deaths : Nat, jobs : SUBSET Job, drains : SUBSET Drain]

\* The types, by the names above.
LEMMA Types ==
  TypeOK <=> /\ change \in [Key -> Nat] /\ told \in [Key -> Nat]
             /\ notes \in [Isolate -> SUBSET Key]
             /\ noted \in [Isolate -> [retried : SUBSET Key, deferred : SUBSET Key]]
             /\ job \in [Job -> JobType] /\ rows \in [Key -> RowType] /\ seq \in Nat
             /\ drain \in [Drain -> DrainType]
             /\ parkedAt \in [Key -> Nat] /\ gaveUp \in [Key -> BOOLEAN] /\ letGo \in [Key -> Nat]
             /\ budget \in BudgetType
BY Zenon DEF TypeOK, JobType, RowType, DrainType, BudgetType

-----------------------------------------------------------------------------
(* Type correctness. *)

\* A trouble or a death is counted within the bounds.
LEMMA SpendType ==
  ASSUME TypeOK, NEW f \in {"troubles", "deaths"}, Spend(f)
  PROVE  budget' \in BudgetType
<1>1. budget \in BudgetType
  BY Types, Zenon
<1>2. CASE f = "troubles"
  BY <1>1, <1>2 DEF Spend, BudgetType
<1>3. CASE f = "deaths"
  BY <1>1, <1>3 DEF Spend, BudgetType
<1> QED BY <1>2, <1>3, Zenon

\* Jobs stay jobs when the version of some keys moves on.
LEMMA RenotedType ==
  ASSUME TypeOK, NEW i \in Isolate, NEW K
  PROVE  Renoted(i, K) \in [Job -> JobType]
<1> SUFFICES ASSUME NEW j \in Job
             PROVE  (IF Home[j] = i THEN [job[j] EXCEPT !.same = @ \ K] ELSE job[j]) \in JobType
  BY Zenon DEF Renoted
<1>1. job[j] \in JobType
  BY Types, Zenon
<1> QED BY <1>1, Zenon DEF JobType

\* A job may rest.
LEMMA IdleType == Idle \in JobType
BY Zenon DEF Idle, JobType

\* A park writes well-typed rows.
LEMMA ParkType ==
  ASSUME TypeOK, NEW L, Park(L)
  PROVE  /\ seq' \in Nat /\ rows' \in [Key -> RowType]
         /\ parkedAt' \in [Key -> Nat] /\ gaveUp' \in [Key -> BOOLEAN]
<1>1. ParkedRow(seq + 1) \in RowType
  BY Types DEF ParkedRow, RowType
<1>2. rows' \in [Key -> RowType]
  BY <1>1, Types, Zenon DEF Park
<1>3. gaveUp' \in [Key -> BOOLEAN]
  BY Zenon DEF Park
<1> QED BY <1>2, <1>3, Types DEF Park

\* Letting keys go records writes that happened.
LEMMA LetGoType ==
  ASSUME TypeOK, NEW K, LetGo(K)
  PROVE  letGo' \in [Key -> Nat]
<1>1. change \in [Key -> Nat] /\ letGo \in [Key -> Nat]
  BY Types, Zenon
<1> QED BY <1>1, Zenon DEF LetGo

\* What the app layer reads is the truth at that time.
LEMMA TellsType ==
  ASSUME TypeOK, NEW o, Tells(o)
  PROVE  told' \in [Key -> Nat]
<1>1. change \in [Key -> Nat] /\ told \in [Key -> Nat]
  BY Types, Zenon
<1> QED BY <1>1, Zenon DEF Tells

\* The outcome of POSTing a set of keys splits that set.
LEMMA OutcomeParts ==
  ASSUME NEW K, NEW o \in Outcomes(K)
  PROVE  /\ o.ok \subseteq K /\ o.bad \subseteq K /\ o.wait \subseteq K
         /\ o.ok \cup o.bad \cup o.wait = K
BY Zenon DEF Outcomes

\* The job of a flush that is about to POST.
LEMMA FlushParts ==
  ASSUME NEW K
  PROVE  /\ [at |-> "post", keys |-> K, same |-> {}].at = "post"
         /\ [at |-> "post", keys |-> K, same |-> {}].keys = K
BY Zenon

\* A drain that has deleted what was read is left with what was refused.
LEMMA RefusingParts ==
  ASSUME NEW r \in DrainType
  PROVE  LET left == [r EXCEPT !.at = "refuse", !.ok = {}]
         IN  /\ left.at = "refuse" /\ left.ok = {} /\ left.bad = r.bad
             /\ left.fresh = r.fresh /\ left.read = r.read
BY Zenon DEF DrainType

\* A drain goes on to the next set, or to the sweep.
LEMMA NextSetType ==
  ASSUME NEW d
  PROVE  NextSet(d) \in DrainType /\ Resting \in DrainType
BY Zenon DEF NextSet, Resting, DrainType

\* What a settled flush does: some keys are noted back, some handed to the outbox,
\* some let go, and every key that was not accepted is among them.
LEMMA SettleEffect ==
  ASSUME TypeOK, ChangeParkAssumption, NEW j \in Job, NEW o \in Outcomes(job[j].keys), Settle(j, o)
  PROVE  /\ noted' \in [Isolate -> [retried : SUBSET Key, deferred : SUBSET Key]]
         /\ \E back, fresh, lost \in SUBSET Key :
              /\ notes' = [notes EXCEPT ![Home[j]] = @ \cup back]
              /\ job' = [Renoted(Home[j], back) EXCEPT ![j] =
                           IF fresh = {} THEN Idle ELSE [at |-> "commit", keys |-> fresh, same |-> {}]]
              /\ LetGo(lost)
              /\ o.bad \cup o.wait \subseteq back \cup fresh \cup lost
<1> DEFINE i == Home[j]
           m == noted[i]
           deferred == m.deferred \ (o.ok \cup o.bad)
           lost == o.bad \cap m.retried
           retriedOf(A) == ((m.retried \ o.ok) \ o.bad) \cup A
<1>0. PICK A \in Retries(m, o) : \E D \in Defers(retriedOf(A), deferred, o) :
        LET still == o.wait \cap (retriedOf(A) \cup deferred)
            back == A \cup still \cup D
            held == (o.bad \cup o.wait) \cap (m.retried \cup m.deferred)
            over == (o.bad \ (m.retried \cup A)) \cup (o.wait \ (still \cup D))
            fresh == over \cup (back \ held)
        IN /\ noted' = [noted EXCEPT ![i] = [retried |-> retriedOf(A), deferred |-> deferred \cup D]]
           /\ notes' = [notes EXCEPT ![i] = @ \cup back]
           /\ \E F \in Offered(fresh, over) :
                /\ job' = [Renoted(i, back) EXCEPT ![j] =
                             IF F = {} THEN Idle ELSE [at |-> "commit", keys |-> F, same |-> {}]]
                /\ LetGo(lost \cup (over \ F))
  BY Zenon DEF Settle
<1>1. PICK D \in Defers(retriedOf(A), deferred, o) :
        LET still == o.wait \cap (retriedOf(A) \cup deferred)
            back == A \cup still \cup D
            held == (o.bad \cup o.wait) \cap (m.retried \cup m.deferred)
            over == (o.bad \ (m.retried \cup A)) \cup (o.wait \ (still \cup D))
            fresh == over \cup (back \ held)
        IN /\ noted' = [noted EXCEPT ![i] = [retried |-> retriedOf(A), deferred |-> deferred \cup D]]
           /\ notes' = [notes EXCEPT ![i] = @ \cup back]
           /\ \E F \in Offered(fresh, over) :
                /\ job' = [Renoted(i, back) EXCEPT ![j] =
                             IF F = {} THEN Idle ELSE [at |-> "commit", keys |-> F, same |-> {}]]
                /\ LetGo(lost \cup (over \ F))
  BY <1>0, Zenon
<1> DEFINE still == o.wait \cap (retriedOf(A) \cup deferred)
           back == A \cup still \cup D
           held == (o.bad \cup o.wait) \cap (m.retried \cup m.deferred)
           over == (o.bad \ (m.retried \cup A)) \cup (o.wait \ (still \cup D))
           fresh == over \cup (back \ held)
<1>2. i \in Isolate
  BY Zenon DEF ChangeParkAssumption
<1>3. job[j] \in JobType /\ m \in [retried : SUBSET Key, deferred : SUBSET Key]
  BY <1>2, Types, Zenon
<1>4. o.ok \subseteq Key /\ o.bad \subseteq Key /\ o.wait \subseteq Key
  BY <1>3, OutcomeParts, Zenon DEF JobType
<1>5. A \subseteq Key
  BY <1>4, Zenon DEF Retries
<1>6. D \subseteq Key
  BY <1>4, Zenon DEF Defers
<1>7. back \subseteq Key /\ fresh \subseteq Key /\ retriedOf(A) \subseteq Key /\ deferred \cup D \subseteq Key
  BY <1>3, <1>4, <1>5, <1>6, Zenon
<1> HIDE DEF back, over, fresh, retriedOf, deferred, lost, i, m
<1>8. notes' = [notes EXCEPT ![i] = @ \cup back]
  BY <1>1, Zenon DEF back, over, fresh, retriedOf, deferred, lost, i, m
<1>9. noted' = [noted EXCEPT ![i] = [retried |-> retriedOf(A), deferred |-> deferred \cup D]]
  BY <1>1, Zenon DEF back, over, fresh, retriedOf, deferred, lost, i, m
<1>10. PICK F \in Offered(fresh, over) :
         /\ job' = [Renoted(i, back) EXCEPT ![j] =
                      IF F = {} THEN Idle ELSE [at |-> "commit", keys |-> F, same |-> {}]]
         /\ LetGo(lost \cup (over \ F))
  BY <1>1, Zenon DEF back, over, fresh, retriedOf, deferred, lost, i, m
<1>11. F \subseteq Key
  BY <1>7, Zenon DEF Offered
<1> DEFINE gone == lost \cup (over \ F)
<1>12. o.bad \cup o.wait \subseteq back \cup F \cup gone
  BY Zenon DEF back, over, lost
<1>13. gone \in SUBSET Key /\ LetGo(gone)
  BY <1>4, <1>10, Zenon DEF lost, over
<1>16. back \in SUBSET Key /\ F \in SUBSET Key
  BY <1>7, <1>11, Zenon
<1> HIDE DEF gone
<1>14. noted' \in [Isolate -> [retried : SUBSET Key, deferred : SUBSET Key]]
  BY <1>2, <1>7, <1>9, Types, Zenon
<1>15. \E b, f, l \in SUBSET Key :
          /\ notes' = [notes EXCEPT ![i] = @ \cup b]
          /\ job' = [Renoted(i, b) EXCEPT ![j] =
                       IF f = {} THEN Idle ELSE [at |-> "commit", keys |-> f, same |-> {}]]
          /\ LetGo(l)
          /\ o.bad \cup o.wait \subseteq b \cup f \cup l
  BY <1>8, <1>10, <1>12, <1>13, <1>16, Zenon
<1> QED BY <1>14, <1>15, Zenon DEF i

\* A settled flush leaves well-typed notes and jobs.
LEMMA SettleType ==
  ASSUME TypeOK, ChangeParkAssumption, NEW j \in Job, NEW o \in Outcomes(job[j].keys), Settle(j, o)
  PROVE  /\ notes' \in [Isolate -> SUBSET Key] /\ job' \in [Job -> JobType] /\ letGo' \in [Key -> Nat]
<1>1. PICK back, fresh, lost \in SUBSET Key :
        /\ notes' = [notes EXCEPT ![Home[j]] = @ \cup back]
        /\ job' = [Renoted(Home[j], back) EXCEPT ![j] =
                     IF fresh = {} THEN Idle ELSE [at |-> "commit", keys |-> fresh, same |-> {}]]
        /\ LetGo(lost)
  BY SettleEffect, Zenon
<1>2. Home[j] \in Isolate
  BY Zenon DEF ChangeParkAssumption
<1>3. (IF fresh = {} THEN Idle ELSE [at |-> "commit", keys |-> fresh, same |-> {}]) \in JobType
  BY Zenon DEF Idle, JobType
<1>4. Renoted(Home[j], back) \in [Job -> JobType]
  BY <1>2, RenotedType, Zenon
<1> QED BY <1>1, <1>2, <1>3, <1>4, LetGoType, Types, Zenon

\* Every step keeps the types.
LEMMA TypeStep ==
  ASSUME ChangeParkAssumption, TypeOK, [Next]_vars
  PROVE  TypeOK'
<1> USE DEF ChangeParkAssumption
<1>0. CASE UNCHANGED vars
  BY <1>0, Zenon DEF vars, TypeOK
<1>1. ASSUME NEW i \in Isolate, NEW k \in Key, Note(i, k)
      PROVE  TypeOK'
  <2>1. budget' \in BudgetType
    <3>1. budget \in BudgetType
      BY Types, Zenon
    <3>2. budget.writes \in [Key -> Nat] /\ budget.writes[k] > 0
      BY <1>1, <3>1, Zenon DEF Note, BudgetType
    <3>3. [budget.writes EXCEPT ![k] = @ - 1] \in [Key -> Nat]
      BY <3>2
    <3>4. budget' = [budget EXCEPT !.writes = [budget.writes EXCEPT ![k] = @ - 1]]
      BY <1>1, Zenon DEF Note
    <3> QED BY <3>1, <3>3, <3>4, Zenon DEF BudgetType
  <2>2. job' \in [Job -> JobType]
    BY <1>1, RenotedType, Zenon DEF Note
  <2>3. change' \in [Key -> Nat] /\ notes' \in [Isolate -> SUBSET Key]
    BY <1>1, Types DEF Note
  <2>4. UNCHANGED <<told, noted, drain, letGo, seq, rows, parkedAt, gaveUp>>
    BY <1>1, Zenon DEF Note, NoPark
  <2> QED BY <2>1, <2>2, <2>3, <2>4, Types, Zenon DEF TypeOK, JobType, BudgetType
<1>2. ASSUME NEW i \in Isolate, EndIsolate(i)
      PROVE  TypeOK'
  <2>1. budget' \in BudgetType
    BY <1>2, SpendType, Zenon DEF EndIsolate
  <2>2. job' \in [Job -> JobType]
    <3>1. PICK sent : job' = [j \in Job |-> IF Home[j] # i THEN job[j]
                               ELSE IF j \in sent THEN [job[j] EXCEPT !.same = {}] ELSE Idle]
      BY <1>2, Zenon DEF EndIsolate
    <3>2. ASSUME NEW j \in Job
          PROVE  job[j] \in JobType /\ [job[j] EXCEPT !.same = {}] \in JobType /\ Idle \in JobType
      <4>1. job[j] \in JobType
        BY Types, Zenon
      <4> QED BY <4>1, IdleType, Zenon DEF JobType
    <3> QED BY <3>1, <3>2, Zenon
  <2>3. notes' \in [Isolate -> SUBSET Key] /\ noted' \in [Isolate -> [retried : SUBSET Key, deferred : SUBSET Key]]
    BY <1>2, Types, Zenon DEF EndIsolate
  <2>4. UNCHANGED <<change, told, drain, seq, rows, parkedAt, gaveUp>>
    BY <1>2, Zenon DEF EndIsolate, NoPark
  <2>5. letGo' \in [Key -> Nat]
    BY <1>2, LetGoType, Zenon DEF EndIsolate
  <2> QED BY <2>1, <2>2, <2>3, <2>4, <2>5, Types, Zenon DEF TypeOK, JobType, BudgetType
<1>3. ASSUME NEW j \in Job, NEW set, StartFlush(j, set)
      PROVE  TypeOK'
  <2>1. notes[Home[j]] \cap set \subseteq Key /\ Home[j] \in Isolate
    BY Types, Zenon
  <2>2. Renoted(Home[j], notes[Home[j]] \cap set) \in [Job -> JobType]
    BY <2>1, RenotedType, Zenon
  <2>3. [at |-> "post", keys |-> notes[Home[j]] \cap set, same |-> {}] \in JobType
    BY <2>1, Zenon DEF JobType
  <2>4. job' \in [Job -> JobType]
    BY <1>3, <2>2, <2>3, Zenon DEF StartFlush
  <2>5. notes' \in [Isolate -> SUBSET Key]
    BY <1>3, Types, Zenon DEF StartFlush
  <2>6. UNCHANGED <<change, told, noted, drain, letGo, budget, seq, rows, parkedAt, gaveUp>>
    BY <1>3, Zenon DEF StartFlush, NoPark
  <2> QED BY <2>4, <2>5, <2>6, Types, Zenon DEF TypeOK, JobType
<1>4. ASSUME NEW j \in Job, PostNotes(j)
      PROVE  TypeOK'
  <2>1. PICK o \in Outcomes(job[j].keys) :
          /\ IF o = Fated(job[j].keys) THEN UNCHANGED budget ELSE Spend("troubles")
          /\ Tells(o)
          /\ Settle(j, o)
    BY <1>4, Zenon DEF PostNotes
  <2>3. budget' \in BudgetType
    BY <2>1, SpendType, Types, Zenon
  <2>4. UNCHANGED <<change, drain, seq, rows, parkedAt, gaveUp>>
    BY <1>4, Zenon DEF PostNotes, NoPark
  <2> QED BY <2>1, <2>3, <2>4, TellsType, SettleType, SettleEffect, Types, Zenon DEF TypeOK, JobType, BudgetType
<1>5. ASSUME NEW j \in Job, CommitFlush(j) \/ FaultFlush(j) \/ FaultPark(j)
      PROVE  TypeOK'
  <2>1. job' \in [Job -> JobType]
    BY <1>5, IdleType, Types, Zenon DEF CommitFlush, FaultFlush, FaultPark
  <2>2. /\ seq' \in Nat /\ rows' \in [Key -> RowType]
        /\ parkedAt' \in [Key -> Nat] /\ gaveUp' \in [Key -> BOOLEAN]
    BY <1>5, ParkType, Types, Zenon DEF CommitFlush, FaultFlush, FaultPark, NoPark
  <2>3. budget' \in BudgetType
    BY <1>5, SpendType, Types, Zenon DEF CommitFlush, FaultFlush, FaultPark
  <2>4. letGo' \in [Key -> Nat]
    BY <1>5, LetGoType, Types, Zenon DEF CommitFlush, FaultFlush, FaultPark
  <2>5. UNCHANGED <<change, told, notes, noted, drain>>
    BY <1>5, Zenon DEF CommitFlush, FaultFlush, FaultPark
  <2> QED BY <2>1, <2>2, <2>3, <2>4, <2>5, Types, Zenon DEF TypeOK, JobType, BudgetType, RowType
<1>6. ASSUME NEW j \in Job, StartSkip(j)
      PROVE  TypeOK'
  <2>1. [at |-> "park", keys |-> notes[Home[j]] \ Lobby, same |-> notes[Home[j]] \ Lobby] \in JobType
    BY Types, Zenon DEF JobType
  <2>2. job' \in [Job -> JobType]
    BY <1>6, <2>1, Types, Zenon DEF StartSkip
  <2>3. UNCHANGED <<change, told, notes, noted, drain, letGo, budget, seq, rows, parkedAt, gaveUp>>
    BY <1>6, Zenon DEF StartSkip, NoPark
  <2> QED BY <2>2, <2>3, Types, Zenon DEF TypeOK, JobType
<1>7. ASSUME NEW j \in Job, ParkWithheld(j)
      PROVE  TypeOK'
  <2>1. PICK L \in ParkLands(job[j].keys) :
          /\ Park(L)
          /\ \/ /\ job' = [job EXCEPT ![j] = [@ EXCEPT !.at = "forget", !.keys = L]]
                /\ UNCHANGED budget
             \/ /\ job' = [job EXCEPT ![j] = Idle]
                /\ Spend("troubles")
    BY <1>7, Zenon DEF ParkWithheld
  <2>2. L \subseteq Key
    BY Types, Zenon DEF ParkLands, JobType
  <2>3. job' \in [Job -> JobType]
    <3>1. job[j] \in JobType
      BY Types, Zenon
    <3>2. [job[j] EXCEPT !.at = "forget", !.keys = L] \in JobType
      BY <2>2, <3>1, Zenon DEF JobType
    <3> QED BY <2>1, <3>2, IdleType, Types
  <2>4. budget' \in BudgetType
    BY <2>1, SpendType, Types, Zenon
  <2>5. UNCHANGED <<change, told, notes, noted, drain, letGo>>
    BY <1>7, Zenon DEF ParkWithheld
  <2> QED BY <2>1, <2>3, <2>4, <2>5, ParkType, Types, Zenon DEF TypeOK, JobType, BudgetType, RowType
<1>8. ASSUME NEW j \in Job, Forget(j)
      PROVE  TypeOK'
  <2>1. job' \in [Job -> JobType]
    BY <1>8, IdleType, Types, Zenon DEF Forget
  <2>2. notes' \in [Isolate -> SUBSET Key]
    BY <1>8, Types, Zenon DEF Forget
  <2>3. UNCHANGED <<change, told, noted, drain, letGo, budget, seq, rows, parkedAt, gaveUp>>
    BY <1>8, Zenon DEF Forget, NoPark
  <2> QED BY <2>1, <2>2, <2>3, Types, Zenon DEF TypeOK, JobType
<1>9. ASSUME NEW d \in Drain, ReadParked(d)
      PROVE  TypeOK'
  <2> DEFINE due == {k \in SetOf(drain[d].set) : Active(k) /\ rows[k].due}
             read == [k \in Key |-> IF k \in due THEN rows[k].generation ELSE 0]
             reading == [drain[d] EXCEPT !.at = "post", !.read = read, !.fresh = Fresh(due)]
  <2>1. drain' = [drain EXCEPT ![d] = IF due = {} THEN NextSet(d) ELSE reading] \/ drain' = [drain EXCEPT ![d] = NextSet(d)]
    BY <1>9, Types, Zenon DEF ReadParked
  <2>2. read \in [Key -> Nat]
    BY Types, Zenon DEF RowType
  <2>3. Fresh(due) \subseteq Key
    BY Zenon DEF Fresh, SetOf
  <2>4. drain[d] \in DrainType
    BY Types, Zenon
  <2>5. reading \in DrainType
    <3> HIDE DEF read, due
    <3> QED BY <2>2, <2>3, <2>4, Zenon DEF DrainType
  <2> HIDE DEF reading, due
  <2>6. drain' \in [Drain -> DrainType]
    BY <2>1, <2>5, NextSetType, Types
  <2>7. budget' \in BudgetType
    BY <1>9, SpendType, Types, Zenon DEF ReadParked
  <2>8. UNCHANGED <<change, told, notes, noted, job, letGo, seq, rows, parkedAt, gaveUp>>
    BY <1>9, Zenon DEF ReadParked, NoPark
  <2> QED BY <2>6, <2>7, <2>8, Types, Zenon DEF TypeOK, DrainType, BudgetType
<1>10. ASSUME NEW d \in Drain, PostParked(d)
       PROVE  TypeOK'
  <2>1. PICK f \in Outcomes(drain[d].fresh), r \in Outcomes(ReadKeys(d) \ drain[d].fresh) :
          /\ IF f = Fated(drain[d].fresh)
                /\ r = [ok |-> (ReadKeys(d) \ drain[d].fresh) \ Poison,
                        bad |-> (ReadKeys(d) \ drain[d].fresh) \cap Poison, wait |-> {}]
             THEN UNCHANGED budget ELSE Spend("troubles")
          /\ Tells(Both(f, r))
          /\ drain' = [drain EXCEPT ![d] = Posted(@, Both(f, r))]
    BY <1>10, Zenon DEF PostParked
  <2>2. Both(f, r).ok \subseteq Key /\ Both(f, r).bad \subseteq Key
    BY OutcomeParts, Types DEF ReadKeys, DrainType, Both
  <2>3. drain' \in [Drain -> DrainType]
    <3>1. drain[d] \in DrainType
      BY Types, Zenon
    <3>2. Posted(drain[d], Both(f, r)) \in DrainType
      BY <2>2, <3>1, Zenon DEF DrainType, Posted
    <3> QED BY <2>1, <3>2, Types, Zenon
  <2>4. budget' \in BudgetType
    BY <2>1, SpendType, Types, Zenon
  <2>5. told' \in [Key -> Nat]
    BY <2>1, TellsType, Zenon
  <2>6. UNCHANGED <<change, notes, noted, job, letGo, seq, rows, parkedAt, gaveUp>>
    BY <1>10, Zenon DEF PostParked, NoPark
  <2> QED BY <2>3, <2>4, <2>5, <2>6, Types, Zenon DEF TypeOK, DrainType, BudgetType
<1>11. ASSUME NEW d \in Drain, Unpark(d)
       PROVE  TypeOK'
  <2>1. drain' \in [Drain -> DrainType]
    <3>1. [drain[d] EXCEPT !.at = "refuse", !.ok = {}] \in DrainType
      <4>1. drain[d] \in DrainType
        BY Types, Zenon
      <4> QED BY <4>1, Zenon DEF DrainType
    <3> QED BY <1>11, <3>1, NextSetType, Types, Zenon DEF Unpark
  <2>2. rows' \in [Key -> RowType]
    <3>1. NoRow \in RowType
      BY Zenon DEF NoRow, RowType
    <3> QED BY <1>11, <3>1, Types, Zenon DEF Unpark
  <2>3. budget' \in BudgetType
    BY <1>11, SpendType, Types, Zenon DEF Unpark
  <2>4. UNCHANGED <<seq, parkedAt, gaveUp, change, told, notes, noted, job, letGo>>
    BY <1>11, Zenon DEF Unpark
  <2> QED BY <2>1, <2>2, <2>3, <2>4, Types, Zenon DEF TypeOK, DrainType, BudgetType, RowType
<1>12. ASSUME NEW d \in Drain, Refuse(d)
       PROVE  TypeOK'
  <2>1. drain' \in [Drain -> DrainType]
    BY <1>12, NextSetType, Types, Zenon DEF Refuse
  <2>2. rows' \in [Key -> RowType]
    <3>1. ASSUME NEW k \in Key
          PROVE  RefusedRow(rows[k]) \in RowType
      <4>1. rows[k] \in RowType
        BY Types, Zenon
      <4> DEFINE last == rows[k].attempts + 1 >= MAX_ATTEMPTS
      <4>2. last \in BOOLEAN
        OBVIOUS
      <4> HIDE DEF last
      <4>3. RefusedRow(rows[k]) = [generation |-> rows[k].generation, attempts |-> rows[k].attempts + 1,
                                   due |-> FALSE, exhausted |-> last]
        BY Zenon DEF RefusedRow, last
      <4>4. rows[k].generation \in Nat /\ rows[k].attempts + 1 \in Nat
        BY <4>1 DEF RowType
      <4> QED BY <4>2, <4>3, <4>4 DEF RowType
    <3> QED BY <1>12, <3>1, Types DEF Refuse
  <2>3. budget' \in BudgetType
    BY <1>12, SpendType, Types, Zenon DEF Refuse
  <2>4. letGo' \in [Key -> Nat]
    BY <1>12, LetGoType, Types, Zenon DEF Refuse
  <2>5. gaveUp' \in [Key -> BOOLEAN]
    BY <1>12, Types, Zenon DEF Refuse
  <2>6. UNCHANGED <<seq, parkedAt, change, told, notes, noted, job>>
    BY <1>12, Zenon DEF Refuse
  <2> QED BY <2>1, <2>2, <2>3, <2>4, <2>5, <2>6, Types, Zenon DEF TypeOK, DrainType, BudgetType, RowType
<1>13. ASSUME NEW d \in Drain, Sweep(d)
       PROVE  TypeOK'
  <2>1. drain' \in [Drain -> DrainType]
    BY <1>13, NextSetType, Types, Zenon DEF Sweep
  <2>2. rows' \in [Key -> RowType]
    <3>1. NoRow \in RowType
      BY Zenon DEF NoRow, RowType
    <3> QED BY <1>13, <3>1, Types, Zenon DEF Sweep
  <2>3. UNCHANGED <<seq, parkedAt, gaveUp, change, told, notes, noted, job, letGo, budget>>
    BY <1>13, Zenon DEF Sweep
  <2> QED BY <2>1, <2>2, <2>3, Types, Zenon DEF TypeOK, DrainType, RowType
<1>14. ASSUME NEW k \in Key, Elapse(k)
       PROVE  TypeOK'
  <2>1. rows' \in [Key -> RowType]
    BY <1>14, Types, Zenon DEF Elapse, RowType
  <2>2. UNCHANGED <<seq, parkedAt, gaveUp, change, told, notes, noted, job, drain, letGo, budget>>
    BY <1>14, Zenon DEF Elapse
  <2> QED BY <2>1, <2>2, Types, Zenon DEF TypeOK, RowType
<1> QED BY <1>0, <1>1, <1>2, <1>3, <1>4, <1>5, <1>6, <1>7, <1>8, <1>9, <1>10, <1>11, <1>12, <1>13, <1>14, Zenon DEF Next, JobStep, DrainStep

\* The types hold initially.
LEMMA TypeInit ==
  ASSUME ChangeParkAssumption, Init
  PROVE  TypeOK
<1>1. Idle \in JobType /\ Resting \in DrainType /\ NoRow \in RowType
  BY IdleType, NextSetType, Zenon DEF NoRow, RowType
<1>2. budget \in BudgetType
  BY Zenon DEF Init, ChangeParkAssumption, BudgetType
<1>3. change \in [Key -> Nat] /\ told \in [Key -> Nat] /\ parkedAt \in [Key -> Nat] /\ letGo \in [Key -> Nat] /\ seq \in Nat
  BY Zenon DEF Init
<1>4. gaveUp \in [Key -> BOOLEAN] /\ notes \in [Isolate -> SUBSET Key]
      /\ noted \in [Isolate -> [retried : SUBSET Key, deferred : SUBSET Key]]
  BY Zenon DEF Init
<1>5. job \in [Job -> JobType] /\ drain \in [Drain -> DrainType] /\ rows \in [Key -> RowType]
  BY <1>1, Zenon DEF Init
<1> QED BY <1>2, <1>3, <1>4, <1>5, Types, Zenon

\* The worker's memory, its jobs and the parked table keep their types.
THEOREM TypeCorrect == Spec => []TypeOK
<1>1. Init => TypeOK
  BY ChangeParkAssumption, TypeInit, Zenon
<1>2. TypeOK /\ [Next]_vars => TypeOK'
  BY ChangeParkAssumption, TypeStep, Zenon
<1> QED BY <1>1, <1>2, PTL DEF Spec

-----------------------------------------------------------------------------
(* What a step does to the table and to what the app layer has read. *)

Quiet == /\ UNCHANGED <<told, seq, rows, parkedAt, gaveUp>>
         /\ \A k \in Key : change'[k] >= change[k]
Telling == UNCHANGED <<change, seq, rows, parkedAt, gaveUp>> /\ \E o : Tells(o)
Parking == /\ UNCHANGED <<change, told, drain>>
           /\ \E K \in SUBSET Key : \E L \in ParkLands(K) : Park(L)

\* A step leaves the table alone, or is the app layer's reading of the truth, a
\* park, or a step of the drain or of the clock on the table.
LEMMA TableEffect ==
  ASSUME ChangeParkAssumption, TypeOK, [Next]_vars
  PROVE  \/ Quiet \/ Telling \/ Parking
         \/ \E d \in Drain : Unpark(d) \/ Refuse(d) \/ Sweep(d)
         \/ \E k \in Key : Elapse(k)
<1>0. change \in [Key -> Nat] /\ \A j \in Job : job[j].keys \in SUBSET Key
  BY Types, Zenon DEF JobType
<1>1. CASE UNCHANGED vars
  BY <1>0, <1>1 DEF vars, Quiet
<1>2. ASSUME NEW i \in Isolate, NEW k \in Key, Note(i, k)
      PROVE  Quiet
  BY <1>0, <1>2 DEF Note, NoPark, Quiet
<1>3. ASSUME NEW i \in Isolate, EndIsolate(i)
      PROVE  Quiet
  BY <1>0, <1>3 DEF EndIsolate, NoPark, Quiet
<1>4. ASSUME NEW j \in Job,
             \/ StartFlush(j, Key \ Lobby) \/ StartFlush(j, Lobby) \/ FaultFlush(j)
             \/ StartSkip(j) \/ FaultPark(j) \/ Forget(j)
      PROVE  Quiet
  BY <1>0, <1>4 DEF StartFlush, FaultFlush, StartSkip, FaultPark, Forget, NoPark, Quiet
<1>5. ASSUME NEW j \in Job, PostNotes(j)
      PROVE  Telling
  BY <1>5, Zenon DEF PostNotes, NoPark, Telling
<1>6. ASSUME NEW j \in Job, CommitFlush(j) \/ ParkWithheld(j)
      PROVE  Parking
  <2>1. \E L \in ParkLands(job[j].keys) : Park(L)
    BY <1>6, Zenon DEF CommitFlush, ParkWithheld
  <2>2. UNCHANGED <<change, told, drain>>
    BY <1>6, Zenon DEF CommitFlush, ParkWithheld
  <2> QED BY <1>0, <2>1, <2>2, Zenon DEF Parking
<1>7. ASSUME NEW d \in Drain, ReadParked(d)
      PROVE  Quiet
  BY <1>0, <1>7 DEF ReadParked, NoPark, Quiet
<1>8. ASSUME NEW d \in Drain, PostParked(d)
      PROVE  Telling
  BY <1>8, Zenon DEF PostParked, NoPark, Telling
<1> QED BY <1>1, <1>2, <1>3, <1>4, <1>5, <1>6, <1>7, <1>8, Zenon DEF Next, JobStep, DrainStep

\* No step of the drain or of the clock adds a row.
LEMMA DrainHolds ==
  ASSUME TypeOK, \/ \E d \in Drain : Unpark(d) \/ Refuse(d) \/ Sweep(d)
                 \/ \E k \in Key : Elapse(k)
  PROVE  /\ HeldKeys' \subseteq HeldKeys
         /\ \A k \in Key : rows'[k].generation \in {0, rows[k].generation}
<1>0. \A k \in Key : rows[k] \in RowType
  BY Types, Zenon
<1> SUFFICES \A k \in Key : rows'[k].generation \in {0, rows[k].generation}
  BY Zenon DEF HeldKeys, Held
<1>1. ASSUME NEW d \in Drain, Unpark(d) \/ Sweep(d), NEW k \in Key
      PROVE  rows'[k] = NoRow \/ rows'[k] = rows[k]
  BY <1>1, Zenon DEF Unpark, Sweep
<1>2. ASSUME NEW d \in Drain, Refuse(d), NEW k \in Key
      PROVE  rows'[k] = RefusedRow(rows[k]) \/ rows'[k] = rows[k]
  BY <1>2, Zenon DEF Refuse
<1>3. ASSUME NEW q \in Key, Elapse(q), NEW k \in Key
      PROVE  rows'[k].generation = rows[k].generation
  BY <1>0, <1>3, Types DEF Elapse, RowType
<1>4. \A k \in Key : NoRow.generation = 0 /\ RefusedRow(rows[k]).generation = rows[k].generation
  BY Zenon DEF NoRow, RefusedRow
<1> QED BY <1>1, <1>2, <1>3, <1>4, Zenon

-----------------------------------------------------------------------------
(* The inductive invariant of the table: nothing is newer than the truth, and a
   row that a drain is about to delete was read by the app layer. *)

Order ==
  \A k \in Key : /\ told[k] <= change[k] /\ parkedAt[k] <= change[k]
                 /\ rows[k].generation <= seq
                 /\ \A d \in Drain : drain[d].read[k] <= seq

\* A drain holds keys that it read, and has outcomes only after its POSTs.
Holding(r, k) == /\ k \in r.fresh \/ k \in r.ok \/ k \in r.bad => r.read[k] # 0
                 /\ r.at \in {"read", "post"} => k \notin r.ok /\ k \notin r.bad

Reads == \A d \in Drain : \A k \in Key : Holding(drain[d], k)

Sound ==
  \A d \in Drain : \A k \in Key :
    /\ drain[d].at = "unpark"
    /\ k \in drain[d].ok
    /\ rows[k].generation = drain[d].read[k]
    => parkedAt[k] <= told[k]

\* What the next state of a drain may be, for one key.
Follows(r, k, n) ==
  /\ Holding(n, k)
  /\ n.read[k] \in {0, r.read[k], rows[k].generation}
  /\ n.at = "unpark" /\ k \in n.ok
       => \/ n = r
          \/ told'[k] = change[k] /\ Telling

\* A drain that rests or goes on to the next set holds nothing.
LEMMA NextSetHolds ==
  ASSUME NEW d, NEW k \in Key, NEW r
  PROVE  Follows(r, k, NextSet(d)) /\ Follows(r, k, Resting)
BY Zenon DEF NextSet, Resting, Follows, Holding

\* A drain keeps what it read until it is done with the set.
LEMMA DrainEffect ==
  ASSUME ChangeParkAssumption, TypeOK, Reads, [Next]_vars, NEW d \in Drain, NEW k \in Key
  PROVE  Follows(drain[d], k, drain'[d])
<1>0. drain[d] \in DrainType /\ rows[k] \in RowType /\ Holding(drain[d], k) /\ DOMAIN drain = Drain
  BY Types, Zenon DEF Reads
<1>1. CASE drain'[d] = drain[d]
  BY <1>0, <1>1, Zenon DEF Follows
<1>2. CASE ReadParked(d)
  <2> DEFINE due == {q \in SetOf(drain[d].set) : Active(q) /\ rows[q].due}
             read == [q \in Key |-> IF q \in due THEN rows[q].generation ELSE 0]
             reading == [drain[d] EXCEPT !.at = "post", !.read = read, !.fresh = Fresh(due)]
  <2>1. drain'[d] = NextSet(d) \/ drain'[d] = reading
    BY <1>0, <1>2, Zenon DEF ReadParked
  <2>2. drain[d].at = "read"
    BY <1>2, Zenon DEF ReadParked
  <2>3. k \in due => rows[k].generation # 0
    BY Zenon DEF Active, Held
  <2>4. read[k] = IF k \in due THEN rows[k].generation ELSE 0
    BY Zenon
  <2>5. k \in Fresh(due) => k \in due
    BY Zenon DEF Fresh
  <2> HIDE DEF due, read
  <2>6. reading.at = "post" /\ reading.read = read /\ reading.fresh = Fresh(due)
        /\ reading.ok = drain[d].ok /\ reading.bad = drain[d].bad
    BY <1>0, Zenon DEF DrainType
  <2> HIDE DEF reading
  <2>7. Follows(drain[d], k, reading)
    BY <1>0, <2>2, <2>3, <2>4, <2>5, <2>6, Zenon DEF Follows, Holding
  <2> QED BY <2>1, <2>7, NextSetHolds, Zenon
<1>3. CASE PostParked(d)
  <2>1. PICK f \in Outcomes(drain[d].fresh), r \in Outcomes(ReadKeys(d) \ drain[d].fresh) :
          /\ Tells(Both(f, r))
          /\ drain' = [drain EXCEPT ![d] = Posted(@, Both(f, r))]
    BY <1>3, Zenon DEF PostParked
  <2>2. drain'[d] = Posted(drain[d], Both(f, r))
    BY <1>0, <2>1, Zenon
  <2>3. /\ Posted(drain[d], Both(f, r)).read = drain[d].read /\ Posted(drain[d], Both(f, r)).fresh = {}
        /\ Posted(drain[d], Both(f, r)).ok = f.ok \cup r.ok /\ Posted(drain[d], Both(f, r)).bad = f.bad \cup r.bad
        /\ Posted(drain[d], Both(f, r)).at \in {"refuse", "unpark"}
    BY <1>0, Zenon DEF DrainType, Posted, Both
  <2>4. f.ok \cup f.bad \subseteq drain[d].fresh /\ r.ok \cup r.bad \subseteq ReadKeys(d)
    BY OutcomeParts, Zenon
  <2>5. k \in f.ok \cup r.ok => told'[k] = change[k]
    <3>1. Both(f, r).ok = f.ok \cup r.ok
      BY Zenon DEF Both
    <3> QED BY <2>1, <3>1, Zenon DEF Tells
  <2>6. Telling
    BY <1>3, <2>1, Zenon DEF PostParked, NoPark, Telling
  <2>7. k \in f.ok \cup r.ok \cup f.bad \cup r.bad => drain[d].read[k] # 0
    BY <1>0, <2>4, Zenon DEF ReadKeys, Holding
  <2> QED BY <2>2, <2>3, <2>5, <2>6, <2>7, Zenon DEF Follows, Holding
<1>4. CASE Unpark(d)
  <2> DEFINE left == [drain[d] EXCEPT !.at = "refuse", !.ok = {}]
  <2>1. drain'[d] = NextSet(d) \/ drain'[d] = left
    BY <1>0, <1>4, Zenon DEF Unpark
  <2>2. left.at = "refuse" /\ left.ok = {} /\ left.bad = drain[d].bad /\ left.fresh = drain[d].fresh
        /\ left.read = drain[d].read
    BY <1>0, RefusingParts, Zenon
  <2> HIDE DEF left
  <2> QED BY <1>0, <2>1, <2>2, NextSetHolds DEF Follows, Holding
<1>5. CASE Refuse(d) \/ Sweep(d)
  <2>1. drain'[d] = NextSet(d) \/ drain'[d] = Resting
    BY <1>0, <1>5, Zenon DEF Refuse, Sweep
  <2> QED BY <2>1, NextSetHolds, Zenon
<1>6. ASSUME NEW e \in Drain, e # d, DrainStep(e)
      PROVE  drain'[d] = drain[d]
  BY <1>0, <1>6, Zenon DEF DrainStep, ReadParked, PostParked, Unpark, Refuse, Sweep
<1>7. ASSUME NEW j \in Job, JobStep(j)
      PROVE  drain'[d] = drain[d]
  BY <1>7, Zenon DEF JobStep, StartFlush, PostNotes, CommitFlush, FaultFlush, StartSkip, ParkWithheld, FaultPark, Forget
<1>8. CASE \/ UNCHANGED vars
           \/ \E i \in Isolate, q \in Key : Note(i, q)
           \/ \E i \in Isolate : EndIsolate(i)
           \/ \E q \in Key : Elapse(q)
  BY <1>1, <1>8, Zenon DEF vars, Note, EndIsolate, Elapse
<1> QED BY <1>1, <1>2, <1>3, <1>4, <1>5, <1>6, <1>7, <1>8, Zenon DEF Next, DrainStep

TInv == TypeOK /\ Order /\ Reads /\ Sound

\* The generations and the history of one key after a step.
LEMMA KeyEffect ==
  ASSUME ChangeParkAssumption, TInv, [Next]_vars, NEW k \in Key
  PROVE  /\ seq' >= seq /\ change'[k] >= change[k] /\ told'[k] >= told[k]
         /\ told'[k] <= change'[k] /\ parkedAt'[k] <= change'[k]
         /\ \/ parkedAt'[k] = parkedAt[k] /\ rows'[k].generation \in {0, rows[k].generation}
            \/ rows'[k].generation = seq + 1 /\ seq' = seq + 1
<1>0. /\ seq \in Nat /\ change[k] \in Nat /\ told[k] \in Nat /\ parkedAt[k] \in Nat
      /\ told[k] <= change[k] /\ parkedAt[k] <= change[k]
  BY Types, Zenon DEF TInv, Order
<1>1. CASE Quiet
  <2>1. TypeOK'
    BY TypeStep, Zenon DEF TInv
  <2>2. change'[k] \in Nat
    BY <2>1, Zenon DEF TypeOK
  <2> QED BY <1>0, <1>1, <2>2 DEF Quiet
<1>2. CASE Telling
  <2>1. told'[k] = change[k] \/ told'[k] = told[k]
    BY <1>2, Zenon DEF Telling, Tells
  <2> QED BY <1>0, <1>2, <2>1 DEF Telling
<1>3. CASE Parking
  <2>1. PICK L : Park(L)
    BY <1>3, Zenon DEF Parking
  <2>2. CASE k \in L
    BY <1>0, <1>3, <2>1, <2>2 DEF Park, ParkedRow, Parking
  <2>3. CASE k \notin L
    BY <1>0, <1>3, <2>1, <2>3 DEF Park, Parking
  <2> QED BY <2>2, <2>3, Zenon
<1>4. CASE \/ \E d \in Drain : Unpark(d) \/ Refuse(d) \/ Sweep(d)
           \/ \E q \in Key : Elapse(q)
  <2>1. rows'[k].generation \in {0, rows[k].generation}
    BY <1>4, DrainHolds, Zenon DEF TInv
  <2>2. UNCHANGED <<seq, change, told, parkedAt>>
    BY <1>4, Zenon DEF Unpark, Refuse, Sweep, Elapse
  <2> QED BY <1>0, <2>1, <2>2
<1> QED BY <1>1, <1>2, <1>3, <1>4, TableEffect, Zenon DEF TInv

\* The invariant of the table is inductive.
LEMMA TInvStep ==
  ASSUME ChangeParkAssumption, TInv, [Next]_vars
  PROVE  TInv'
<1>1. TypeOK'
  BY TypeStep, Zenon DEF TInv
<1>2. Reads'
  <2> SUFFICES ASSUME NEW d \in Drain, NEW k \in Key PROVE Holding(drain'[d], k)
    BY Zenon DEF Reads, Holding
  <2> QED BY DrainEffect, Zenon DEF TInv, Follows
<1>3. Order'
  <2> SUFFICES ASSUME NEW k \in Key
               PROVE  /\ told'[k] <= change'[k] /\ parkedAt'[k] <= change'[k]
                      /\ rows'[k].generation <= seq'
                      /\ \A d \in Drain : drain'[d].read[k] <= seq'
    BY Zenon DEF Order
  <2>1. /\ seq \in Nat /\ seq' \in Nat /\ rows[k].generation \in Nat /\ rows[k].generation <= seq
        /\ \A d \in Drain : drain[d].read[k] \in Nat /\ drain[d].read[k] <= seq
    BY <1>1, Types DEF TInv, Order, RowType, DrainType, TypeOK
  <2>2. rows'[k].generation <= seq'
    <3>1. /\ seq' >= seq
          /\ \/ rows'[k].generation \in {0, rows[k].generation}
             \/ rows'[k].generation = seq + 1 /\ seq' = seq + 1
      BY KeyEffect, Zenon
    <3> QED BY <2>1, <3>1
  <2>3. ASSUME NEW d \in Drain PROVE drain'[d].read[k] <= seq'
    <3>1. drain'[d].read[k] \in {0, drain[d].read[k], rows[k].generation}
      BY DrainEffect, Zenon DEF TInv, Follows
    <3>2. seq' >= seq
      BY KeyEffect, Zenon
    <3> QED BY <2>1, <3>1, <3>2
  <2> QED BY <2>2, <2>3, KeyEffect, Zenon
<1>4. Sound'
  <2> SUFFICES ASSUME NEW d \in Drain, NEW k \in Key,
                      drain'[d].at = "unpark", k \in drain'[d].ok,
                      rows'[k].generation = drain'[d].read[k]
               PROVE  parkedAt'[k] <= told'[k]
    BY Zenon DEF Sound
  <2>1. Follows(drain[d], k, drain'[d]) /\ drain'[d].read[k] # 0
    BY DrainEffect, Zenon DEF TInv, Follows, Holding
  <2>2. CASE told'[k] = change[k] /\ Telling
    BY <2>2, KeyEffect, Zenon DEF Telling
  <2>3. CASE drain'[d] = drain[d]
    <3>1. drain[d].read[k] \in Nat /\ drain[d].read[k] <= seq /\ seq \in Nat
      BY Types DEF TInv, Order, DrainType
    <3>2. parkedAt'[k] = parkedAt[k] /\ rows'[k].generation = rows[k].generation
      BY <2>1, <2>3, <3>1, KeyEffect
    <3>3. parkedAt[k] <= told[k]
      BY <2>3, <3>2, Zenon DEF TInv, Sound
    <3>4. parkedAt[k] \in Nat /\ told[k] \in Nat /\ told'[k] \in Nat /\ told'[k] >= told[k]
      BY <1>1, KeyEffect, Types, Zenon DEF TInv, TypeOK
    <3> QED BY <3>2, <3>3, <3>4
  <2> QED BY <2>1, <2>2, <2>3, Zenon DEF Follows
<1> QED BY <1>1, <1>2, <1>3, <1>4, Zenon DEF TInv

\* It holds initially.
LEMMA TInvInit ==
  ASSUME ChangeParkAssumption, Init
  PROVE  TInv
<1>1. TypeOK
  BY TypeInit, Zenon
<1>2. \A d \in Drain : drain[d] = Resting
  BY Zenon DEF Init
<1>3. Resting.ok = {} /\ Resting.bad = {} /\ Resting.fresh = {} /\ Resting.at = "read"
      /\ \A k \in Key : Resting.read[k] = 0
  BY Zenon DEF Resting
<1>4. \A k \in Key : rows[k].generation = 0 /\ told[k] = 0 /\ change[k] = 0 /\ parkedAt[k] = 0 /\ seq = 0
  BY Zenon DEF Init, NoRow
<1>5. Order
  BY <1>2, <1>3, <1>4 DEF Order
<1>6. Reads
  BY <1>2, <1>3, Zenon DEF Reads, Holding
<1>7. Sound
  BY <1>2, <1>3, Zenon DEF Sound
<1> QED BY <1>1, <1>5, <1>6, <1>7, Zenon DEF TInv

-----------------------------------------------------------------------------
(* The parked table implements the list of intents. *)

\* One key in a step of the table is one item in a step of the list.
LEMMA ItemStep ==
  ASSUME ChangeParkAssumption, TInv, [Next]_vars, NEW k \in Key
  PROVE  \/ /\ told'[k] >= told[k] /\ parkedAt'[k] = parkedAt[k]
            /\ Active(k)' = Active(k) /\ gaveUp'[k] = gaveUp[k]
         \/ parkedAt'[k] >= parkedAt[k] /\ Active(k)' /\ ~gaveUp'[k] /\ told'[k] = told[k]
         \/ /\ Active(k) /\ ~Active(k)' /\ told'[k] >= told[k] /\ told'[k] >= parkedAt[k]
            /\ parkedAt'[k] = parkedAt[k] /\ gaveUp'[k] = gaveUp[k]
         \/ /\ Active(k) /\ ~Active(k)' /\ gaveUp'[k]
            /\ parkedAt'[k] = parkedAt[k] /\ told'[k] = told[k]
<1>0. /\ told[k] \in Nat /\ parkedAt[k] \in Nat /\ rows[k] \in RowType /\ told'[k] >= told[k]
      /\ parkedAt[k] <= change[k] /\ seq \in Nat /\ DOMAIN rows = Key
  BY KeyEffect, Types, Zenon DEF TInv, Order
<1>1. CASE Quiet \/ Telling
  BY <1>0, <1>1, Zenon DEF Quiet, Telling, Active, Held
<1>2. CASE Parking
  <2>1. PICK L : Park(L)
    BY <1>2, Zenon DEF Parking
  <2>2. CASE k \in L
    <3>1. rows'[k] = ParkedRow(seq + 1) /\ parkedAt'[k] = change[k] /\ ~gaveUp'[k]
      BY <2>1, <2>2, Zenon DEF Park
    <3>2. Active(k)'
      BY <1>0, <3>1 DEF Active, Held, ParkedRow
    <3> QED BY <1>0, <1>2, <3>1, <3>2, Zenon DEF Parking
  <2>3. CASE k \notin L
    <3>1. rows'[k] = rows[k] /\ parkedAt'[k] = parkedAt[k]
      BY <2>1, <2>3, Zenon DEF Park
    <3>2. gaveUp'[k] = gaveUp[k]
      BY <2>1, <2>3, Types, Zenon DEF Park, TInv
    <3> QED BY <1>0, <3>1, <3>2, Zenon DEF Active, Held
  <2> QED BY <2>2, <2>3, Zenon
<1>3. ASSUME NEW d \in Drain, Unpark(d)
      PROVE  \/ Active(k)' = Active(k)
             \/ Active(k) /\ ~Active(k)' /\ told[k] >= parkedAt[k]
  <2>1. rows'[k] = rows[k] \/ (k \in Unparked(d) /\ rows'[k] = NoRow)
    BY <1>3, Zenon DEF Unpark
  <2>2. k \in Unparked(d) => told[k] >= parkedAt[k]
    BY <1>0, <1>3, Zenon DEF Unparked, Unpark, TInv, Sound
  <2>3. rows'[k] = NoRow => ~Active(k)'
    BY DEF NoRow, Active, Held
  <2>4. rows'[k] = rows[k] => Active(k)' = Active(k)
    BY Zenon DEF Active, Held
  <2>5. Active(k) \in BOOLEAN /\ Active(k)' \in BOOLEAN
    BY Zenon DEF Active
  <2> QED BY <2>1, <2>2, <2>3, <2>4, <2>5, Zenon
<1>4. ASSUME NEW d \in Drain, Refuse(d)
      PROVE  \/ Active(k)' = Active(k) /\ gaveUp'[k] = gaveUp[k]
             \/ Active(k) /\ ~Active(k)' /\ gaveUp'[k]
  <2>0. gaveUp[k] \in BOOLEAN
    BY Types, Zenon DEF TInv
  <2>1. CASE rows' = rows /\ gaveUp' = gaveUp
    BY <2>1, Zenon DEF Active, Held
  <2>2. CASE /\ rows' = [q \in Key |-> IF q \in Refused(d) THEN RefusedRow(rows[q]) ELSE rows[q]]
             /\ gaveUp' = [q \in Key |-> gaveUp[q] \/ (q \in Refused(d) /\ rows'[q].exhausted)]
    <3>1. CASE k \in Refused(d)
      <4>1. Active(k)
        BY <3>1, Zenon DEF Refused, Active, Held, TInv, Reads, Holding
      <4>2. rows'[k] = RefusedRow(rows[k])
        BY <2>2, <3>1, Zenon
      <4>3. rows'[k].generation # 0
        BY <4>1, <4>2 DEF RefusedRow, Active, Held
      <4>4. CASE rows'[k].exhausted
        <5>1. gaveUp'[k]
          BY <2>2, <3>1, <4>4, Zenon
        <5>2. ~Active(k)'
          BY <4>4, Zenon DEF Active
        <5> QED BY <4>1, <5>1, <5>2, Zenon
      <4>5. CASE ~rows'[k].exhausted
        <5>1. gaveUp'[k] = gaveUp[k]
          BY <2>0, <2>2, <4>5, Zenon
        <5>2. Active(k)'
          BY <4>3, <4>5, Zenon DEF Active, Held
        <5> QED BY <4>1, <5>1, <5>2, Zenon
      <4> QED BY <4>4, <4>5, Zenon
    <3>2. CASE k \notin Refused(d)
      <4>1. rows'[k] = rows[k]
        BY <2>2, <3>2, Zenon
      <4>2. gaveUp'[k] = gaveUp[k]
        BY <2>0, <2>2, <3>2, Zenon
      <4> QED BY <4>1, <4>2, Zenon DEF Active, Held
    <3> QED BY <3>1, <3>2, Zenon
  <2> QED BY <1>4, <2>1, <2>2, Zenon DEF Refuse
<1>5. ASSUME NEW d \in Drain, Sweep(d)
      PROVE  Active(k)' = Active(k)
  <2>1. rows'[k] = rows[k] \/ (rows[k].exhausted /\ rows'[k] = NoRow)
    BY <1>5, Zenon DEF Sweep
  <2> QED BY <2>1 DEF Active, Held, NoRow
<1>6. ASSUME NEW q \in Key, Elapse(q)
      PROVE  Active(k)' = Active(k)
  <2>1. rows'[k].generation = rows[k].generation /\ rows'[k].exhausted = rows[k].exhausted
    BY <1>0, <1>6, Zenon DEF Elapse, RowType
  <2> QED BY <2>1, Zenon DEF Active, Held
<1>7. ASSUME NEW d \in Drain, Unpark(d) \/ Sweep(d)
      PROVE  UNCHANGED <<told, parkedAt, gaveUp>>
  BY <1>7, Zenon DEF Unpark, Sweep
<1>8. ASSUME NEW d \in Drain, Refuse(d)
      PROVE  UNCHANGED <<told, parkedAt>>
  BY <1>8, Zenon DEF Refuse
<1>9. ASSUME NEW q \in Key, Elapse(q)
      PROVE  UNCHANGED <<told, parkedAt, gaveUp>>
  BY <1>9, Zenon DEF Elapse
<1> QED BY <1>0, <1>1, <1>2, <1>3, <1>4, <1>5, <1>6, <1>7, <1>8, <1>9, TableEffect, Zenon DEF TInv

\* The table of parked changes implements the list of intents: UNPARK_SQL deletes a
\* row only at the generation whose POST the app layer accepted, so a row is never
\* taken off while a write it was parked for is unread.
THEOREM ParkImplementsIntents == Spec => Implements
<1>1. Init => Parked!Init
  <2> SUFFICES ASSUME Init PROVE Parked!Init
    BY Zenon
  <2>1. [k \in Key |-> Active(k)] = [k \in Key |-> FALSE]
    BY Zenon DEF Init, Active, Held, NoRow
  <2> QED BY <2>1, Zenon DEF Init, Parked!Init
<1>2. TInv /\ [Next]_vars => [Parked!Next]_(Parked!vars)
  <2> SUFFICES ASSUME TInv, [Next]_vars PROVE Parked!Next
    BY Zenon
  <2>1. TypeOK'
    BY TypeStep, ChangeParkAssumption, Zenon DEF TInv
  <2>2. [k \in Key |-> Active(k)]' \in [Key -> BOOLEAN]
    BY Zenon DEF Active
  <2>3. Parked!TypeOK'
    BY <2>1, <2>2, Zenon DEF Parked!TypeOK, TypeOK
  <2>4. ASSUME NEW k \in Key
        PROVE  Parked!Carry(k) \/ Parked!Record(k) \/ Parked!Close(k) \/ Parked!Drop(k)
    <3> DEFINE now == [q \in Key |-> Active(q)][k]
               then == [q \in Key |-> Active(q)]'[k]
    <3>1. now = Active(k) /\ then = Active(k)'
      BY Zenon
    <3>2. \/ /\ told'[k] >= told[k] /\ parkedAt'[k] = parkedAt[k]
             /\ then = now /\ gaveUp'[k] = gaveUp[k]
          \/ parkedAt'[k] >= parkedAt[k] /\ then /\ ~gaveUp'[k] /\ told'[k] = told[k]
          \/ /\ now /\ ~then /\ told'[k] >= told[k] /\ told'[k] >= parkedAt[k]
             /\ parkedAt'[k] = parkedAt[k] /\ gaveUp'[k] = gaveUp[k]
          \/ /\ now /\ ~then /\ gaveUp'[k]
             /\ parkedAt'[k] = parkedAt[k] /\ told'[k] = told[k]
      BY <3>1, ItemStep, ChangeParkAssumption, Zenon
    <3>3. parkedAt[k] \in Nat
      BY Zenon DEF TInv, TypeOK
    <3> HIDE DEF now, then
    <3> QED BY <3>2, <3>3 DEF now, then, Parked!Carry, Parked!Record, Parked!Close, Parked!Drop
  <2> QED BY <2>3, <2>4, Zenon DEF Parked!Next
<1>3. Init => TInv
  BY TInvInit, ChangeParkAssumption, Zenon
<1>4. TInv /\ [Next]_vars => TInv'
  BY TInvStep, ChangeParkAssumption, Zenon
<1> QED BY <1>1, <1>2, <1>3, <1>4, PTL DEF Spec, Implements, Parked!Spec

\* What such a list promises, of the parked changes: a key with no parked row, not
\* given up on record, has had its newest parked change read by the app layer.
\* "No row" means "nothing owed".
THEOREM ParkSettles == Spec => []Parked!Settled
<1> DEFINE open == [k \in Key |-> Active(k)]
           Promise == Parked!TypeOK /\ Parked!Settled /\ \A k \in Key : open[k] => ~gaveUp[k]
<1>1. Parked!Init => Promise
  <2> SUFFICES ASSUME Parked!Init PROVE Promise
    BY Zenon
  <2>1. /\ open \in [Key -> BOOLEAN] /\ gaveUp \in [Key -> BOOLEAN]
        /\ \A k \in Key : ~open[k] /\ ~gaveUp[k]
    BY Zenon DEF Parked!Init
  <2>2. /\ parkedAt \in [Key -> Nat] /\ told \in [Key -> Nat]
        /\ \A k \in Key : told[k] >= parkedAt[k]
    BY DEF Parked!Init
  <2> QED BY <2>1, <2>2, Zenon DEF Parked!TypeOK, Parked!Settled
<1>2. Promise /\ [Parked!Next]_(Parked!vars) => Promise'
  <2> SUFFICES ASSUME Promise, [Parked!Next]_(Parked!vars) PROVE Promise'
    BY Zenon
  <2>1. CASE UNCHANGED Parked!vars
    BY <2>1, Zenon DEF Parked!vars, Parked!TypeOK, Parked!Settled
  <2>2. CASE Parked!Next
    <3>1. Parked!TypeOK'
      BY <2>2, Zenon DEF Parked!Next
    <3>2. ASSUME NEW k \in Key
          PROVE  /\ ~open'[k] /\ ~gaveUp'[k] => told'[k] >= parkedAt'[k]
                 /\ open'[k] => ~gaveUp'[k]
      <4> DEFINE now == open[k]
                 then == open'[k]
      <4>1. parkedAt[k] \in Nat /\ told[k] \in Nat /\ parkedAt'[k] \in Nat /\ told'[k] \in Nat
        BY <3>1, Zenon DEF Parked!TypeOK
      <4>2. (~now /\ ~gaveUp[k] => told[k] >= parkedAt[k]) /\ (now => ~gaveUp[k])
        BY Zenon DEF Parked!Settled
      <4>3. Parked!Carry(k) \/ Parked!Record(k) \/ Parked!Close(k) \/ Parked!Drop(k)
        BY <2>2, Zenon DEF Parked!Next
      <4>4. \/ /\ told'[k] >= told[k] /\ parkedAt'[k] = parkedAt[k]
               /\ then = now /\ gaveUp'[k] = gaveUp[k]
            \/ then /\ ~gaveUp'[k]
            \/ ~then /\ told'[k] >= parkedAt'[k]
            \/ ~then /\ gaveUp'[k]
        BY <4>3, Zenon DEF Parked!Carry, Parked!Record, Parked!Close, Parked!Drop
      <4> HIDE DEF now, then
      <4>5. (~then /\ ~gaveUp'[k] => told'[k] >= parkedAt'[k]) /\ (then => ~gaveUp'[k])
        BY <4>1, <4>2, <4>4
      <4> QED BY <4>5, Zenon DEF now, then
    <3> QED BY <3>1, <3>2, Zenon DEF Parked!Settled
  <2> QED BY <2>1, <2>2, Zenon
<1>3. Promise => Parked!Settled
  BY Zenon
<1> QED BY <1>1, <1>2, <1>3, ParkImplementsIntents, PTL DEF Implements, Parked!Spec

-----------------------------------------------------------------------------
(* Custody.  A key that an isolate is about to forget must be safe somewhere else:
   in no hands of an isolate that forgets it, but in those of another, or in a row
   parked since the last write. *)

InHands(i, k) ==
  \/ k \in notes[i]
  \/ \E j \in Job : Home[j] = i /\ job[j].at \in {"post", "commit"} /\ k \in job[j].keys

Forgetting(i, k) ==
  \E j \in Job : Home[j] = i /\ job[j].at = "forget" /\ k \in job[j].keys /\ k \in job[j].same

Current(k) == Active(k) /\ parkedAt[k] = change[k]

Safe(k) ==
  \/ change[k] <= told[k]
  \/ letGo[k] = change[k]
  \/ Current(k)
  \/ \E i \in Isolate : InHands(i, k) /\ ~Forgetting(i, k)

\* An isolate keeps a key in hand when its note and its jobs keep it.
LEMMA HandsKept ==
  ASSUME NEW i \in Isolate, NEW k \in Key, InHands(i, k), ~Forgetting(i, k),
         k \in notes[i] => k \in notes'[i],
         \A j \in Job : Home[j] = i =>
            /\ job[j].at \in {"post", "commit"} /\ k \in job[j].keys
                 => job'[j].at \in {"post", "commit"} /\ k \in job'[j].keys
            /\ job'[j].at = "forget" /\ k \in job'[j].keys /\ k \in job'[j].same
                 => job[j].at = "forget" /\ k \in job[j].keys /\ k \in job[j].same
  PROVE  InHands(i, k)' /\ ~Forgetting(i, k)'
BY Zenon DEF InHands, Forgetting

\* Letting keys go leaves each of them let go on record or in a current row.
LEMMA LetGoEffect ==
  ASSUME NEW K, LetGo(K), NEW k \in Key, change'[k] = change[k]
  PROVE  /\ letGo'[k] = letGo[k] \/ letGo'[k] = change[k]
         /\ k \in K => letGo'[k] = change[k] \/ Current(k)'
BY Zenon DEF LetGo, Current, Active, Held

\* What a key is safe by other than an isolate's hands stays while its row does.
LEMMA CalmStep ==
  ASSUME NEW k \in Key, Safe(k), change'[k] = change[k], told'[k] = told[k],
         letGo'[k] = letGo[k] \/ letGo'[k] = change[k],
         rows'[k] = rows[k], parkedAt'[k] = parkedAt[k]
  PROVE  Safe(k)' \/ \E i \in Isolate : InHands(i, k) /\ ~Forgetting(i, k)
BY Zenon DEF Safe, Current, Active, Held

\* The jobs of an isolate after some keys' version moved on.
LEMMA RenotedEffect ==
  ASSUME TypeOK, NEW i \in Isolate, NEW K \in SUBSET Key, NEW j \in Job, NEW k \in Key
  PROVE  /\ Renoted(i, K)[j].at = job[j].at /\ Renoted(i, K)[j].keys = job[j].keys
         /\ k \in Renoted(i, K)[j].same <=> k \in job[j].same /\ (Home[j] = i => k \notin K)
<1>1. job[j] \in JobType
  BY Types, Zenon
<1>2. Renoted(i, K)[j] = IF Home[j] = i THEN [job[j] EXCEPT !.same = @ \ K] ELSE job[j]
  BY Zenon DEF Renoted
<1> QED BY <1>1, <1>2 DEF JobType

\* A note puts the key in the hands of its isolate.
LEMMA SafeNote ==
  ASSUME ChangeParkAssumption, TypeOK, NEW k \in Key, Safe(k), NEW i \in Isolate, NEW q \in Key, Note(i, q)
  PROVE  Safe(k)'
<1>1. job' = Renoted(i, {q}) /\ notes' = [notes EXCEPT ![i] = @ \cup {q}]
  BY Zenon DEF Note
<1>2. notes \in [Isolate -> SUBSET Key] /\ DOMAIN change = Key
  BY Types, Zenon
<1>3. ASSUME NEW j \in Job
      PROVE  /\ job'[j].at = job[j].at /\ job'[j].keys = job[j].keys
             /\ k \in job'[j].same <=> k \in job[j].same /\ (Home[j] = i => k # q)
  <2>1. /\ Renoted(i, {q})[j].at = job[j].at /\ Renoted(i, {q})[j].keys = job[j].keys
        /\ k \in Renoted(i, {q})[j].same <=> k \in job[j].same /\ (Home[j] = i => k \notin {q})
    BY RenotedEffect
  <2> QED BY <1>1, <2>1, Zenon
<1>4. CASE q = k
  <2>1. InHands(i, k)'
    BY <1>1, <1>2, <1>4, Zenon DEF InHands
  <2>2. ~Forgetting(i, k)'
    BY <1>3, <1>4, Zenon DEF Forgetting
  <2> QED BY <2>1, <2>2, Zenon DEF Safe
<1>5. CASE q # k
  <2>1. change'[k] = change[k] /\ told'[k] = told[k] /\ letGo'[k] = letGo[k] /\ rows'[k] = rows[k] /\ parkedAt'[k] = parkedAt[k]
    BY <1>2, <1>5, Zenon DEF Note, NoPark
  <2>2. ASSUME NEW n \in Isolate, InHands(n, k), ~Forgetting(n, k)
        PROVE  InHands(n, k)' /\ ~Forgetting(n, k)'
    BY <1>1, <1>2, <1>3, <2>2, HandsKept, Zenon
  <2> QED BY <2>1, <2>2, CalmStep, Zenon DEF Safe
<1> QED BY <1>4, <1>5, Zenon

\* A flush that starts holds the keys it takes.
LEMMA SafeStartFlush ==
  ASSUME ChangeParkAssumption, TypeOK, NEW k \in Key, Safe(k), NEW j \in Job, NEW set, StartFlush(j, set)
  PROVE  Safe(k)'
<1> DEFINE i == Home[j]
           K == notes[i] \cap set
<1>0. /\ i \in Isolate /\ notes \in [Isolate -> SUBSET Key] /\ Renoted(i, K) \in [Job -> JobType]
      /\ K \in SUBSET Key
  BY Types, RenotedType, Zenon DEF ChangeParkAssumption
<1>1. /\ job' = [Renoted(i, K) EXCEPT ![j] = [at |-> "post", keys |-> K, same |-> {}]]
      /\ notes' = [notes EXCEPT ![i] = @ \ K] /\ job[j].at = "idle"
  BY Zenon DEF StartFlush
<1>2. job'[j] = [at |-> "post", keys |-> K, same |-> {}]
  BY <1>0, <1>1, Zenon
<1> HIDE DEF K, i
<1>3. ASSUME NEW n \in Job, n # j
      PROVE  /\ job'[n].at = job[n].at /\ job'[n].keys = job[n].keys
             /\ k \in job'[n].same <=> k \in job[n].same /\ (Home[n] = i => k \notin K)
  <2>1. job'[n] = Renoted(i, K)[n]
    BY <1>0, <1>1, <1>3, Zenon
  <2>2. /\ Renoted(i, K)[n].at = job[n].at /\ Renoted(i, K)[n].keys = job[n].keys
        /\ k \in Renoted(i, K)[n].same <=> k \in job[n].same /\ (Home[n] = i => k \notin K)
    BY <1>0, RenotedEffect, Zenon
  <2> QED BY <2>1, <2>2, Zenon
<1>4. \A n \in Job : job'[n].at = "forget" => n # j
  <2>1. job'[j].at = "post"
    BY <1>2, FlushParts, Zenon
  <2> QED BY <2>1, Zenon
<1>5. change'[k] = change[k] /\ told'[k] = told[k] /\ letGo'[k] = letGo[k] /\ rows'[k] = rows[k] /\ parkedAt'[k] = parkedAt[k]
  BY Zenon DEF StartFlush, NoPark
<1>6. CASE k \in K
  <2>1. InHands(i, k)'
    <3>1. job'[j].at = "post" /\ job'[j].keys = K
      BY <1>2, FlushParts, Zenon
    <3>2. Home[j] = i
      BY Zenon DEF i
    <3> QED BY <1>6, <3>1, <3>2, Zenon DEF InHands
  <2>2. ~Forgetting(i, k)'
    BY <1>3, <1>4, <1>6, Zenon DEF Forgetting
  <2> QED BY <1>0, <2>1, <2>2, Zenon DEF Safe
<1>7. CASE k \notin K
  <2>1. ASSUME NEW n \in Isolate, InHands(n, k), ~Forgetting(n, k)
        PROVE  InHands(n, k)' /\ ~Forgetting(n, k)'
    <3>1. k \in notes[n] => k \in notes'[n]
      BY <1>0, <1>1, <1>7, Zenon
    <3>2. ASSUME NEW m \in Job, Home[m] = n
          PROVE  /\ job[m].at \in {"post", "commit"} /\ k \in job[m].keys
                      => job'[m].at \in {"post", "commit"} /\ k \in job'[m].keys
                 /\ job'[m].at = "forget" /\ k \in job'[m].keys /\ k \in job'[m].same
                      => job[m].at = "forget" /\ k \in job[m].keys /\ k \in job[m].same
      <4>1. CASE m = j
        BY <1>1, <1>4, <4>1, Zenon
      <4>2. CASE m # j
        BY <1>3, <4>2, Zenon
      <4> QED BY <4>1, <4>2, Zenon
    <3> QED BY <2>1, <3>1, <3>2, HandsKept, Zenon
  <2> QED BY <1>5, <2>1, CalmStep, Zenon DEF Safe
<1> QED BY <1>6, <1>7, Zenon

\* The end of an isolate lets go of what only it held.
LEMMA SafeEnd ==
  ASSUME ChangeParkAssumption, TypeOK, NEW k \in Key, Safe(k), NEW i \in Isolate, EndIsolate(i)
  PROVE  Safe(k)'
<1> DEFINE gone == notes[i] \cup UNION {job[j].keys : j \in {n \in Job : Home[n] = i}}
<1>1. LetGo(gone) /\ notes' = [notes EXCEPT ![i] = {}]
  BY Zenon DEF EndIsolate
<1>2. change'[k] = change[k] /\ told'[k] = told[k] /\ rows'[k] = rows[k] /\ parkedAt'[k] = parkedAt[k]
  BY Zenon DEF EndIsolate, NoPark
<1>3. CASE k \in gone
  BY <1>1, <1>2, <1>3, LetGoEffect, Zenon DEF Safe
<1>4. CASE k \notin gone
  <2>1. ASSUME NEW n \in Isolate, InHands(n, k), ~Forgetting(n, k)
        PROVE  InHands(n, k)' /\ ~Forgetting(n, k)'
    <3>1. n # i
      BY <1>4, <2>1, Zenon DEF InHands
    <3>2. notes'[n] = notes[n]
      BY <1>1, <3>1, Types, Zenon
    <3>3. \A j \in Job : Home[j] = n => job'[j] = job[j]
      BY <3>1, Zenon DEF EndIsolate
    <3> QED BY <2>1, <3>2, <3>3, HandsKept, Zenon
  <2>2. letGo'[k] = letGo[k] \/ letGo'[k] = change[k]
    BY <1>1, <1>2, LetGoEffect, Zenon
  <2> QED BY <1>2, <2>1, <2>2, CalmStep, Zenon DEF Safe
<1> QED BY <1>3, <1>4, Zenon

\* A flush that POSTed has each of its keys read, noted back, at the outbox or let go.
LEMMA SafePost ==
  ASSUME ChangeParkAssumption, TInv, NEW k \in Key, Safe(k), NEW j \in Job, PostNotes(j)
  PROVE  Safe(k)'
<1> DEFINE i == Home[j]
<1>1. PICK o \in Outcomes(job[j].keys) : Tells(o) /\ Settle(j, o)
  BY Zenon DEF PostNotes
<1>3. PICK back, fresh, lost \in SUBSET Key :
        /\ notes' = [notes EXCEPT ![i] = @ \cup back]
        /\ job' = [Renoted(i, back) EXCEPT ![j] =
                     IF fresh = {} THEN Idle ELSE [at |-> "commit", keys |-> fresh, same |-> {}]]
        /\ LetGo(lost)
        /\ o.bad \cup o.wait \subseteq back \cup fresh \cup lost
  BY <1>1, SettleEffect, Zenon DEF TInv
<1>4. change'[k] = change[k] /\ rows'[k] = rows[k] /\ parkedAt'[k] = parkedAt[k] /\ job[j].at = "post"
  BY Zenon DEF PostNotes, NoPark
<1>5. told'[k] = change[k] \/ (k \notin o.ok /\ told'[k] = told[k])
  BY <1>1, Zenon DEF Tells
<1>6. CASE told'[k] = change[k]
  <2>1. change[k] \in Nat
    BY Types, Zenon DEF TInv, TypeOK
  <2>2. change[k] <= change[k]
    BY <2>1
  <2> QED BY <1>4, <1>6, <2>2, Zenon DEF Safe
<1>7. CASE k \in lost
  BY <1>3, <1>4, <1>7, LetGoEffect, Zenon DEF Safe
<1>8. CASE k \notin o.ok /\ told'[k] = told[k] /\ k \notin lost
  <2>0. i \in Isolate /\ notes \in [Isolate -> SUBSET Key] /\ Renoted(i, back) \in [Job -> JobType]
    BY Types, RenotedType, Zenon DEF ChangeParkAssumption, TInv
  <2> HIDE DEF i
  <2>1. ASSUME NEW n \in Job, n # j
        PROVE  /\ job'[n].at = job[n].at /\ job'[n].keys = job[n].keys
               /\ k \in job'[n].same <=> k \in job[n].same /\ (Home[n] = i => k \notin back)
    <3>1. job'[n] = Renoted(i, back)[n]
      BY <1>3, <2>0, <2>1, Zenon
    <3>2. /\ Renoted(i, back)[n].at = job[n].at /\ Renoted(i, back)[n].keys = job[n].keys
          /\ k \in Renoted(i, back)[n].same <=> k \in job[n].same /\ (Home[n] = i => k \notin back)
      BY <2>0, RenotedEffect, Zenon DEF TInv
    <3> QED BY <3>1, <3>2, Zenon
  <2>2. /\ job'[j].at # "forget"
        /\ k \in fresh => job'[j].at = "commit" /\ k \in job'[j].keys
    BY <1>3, <2>0, Zenon DEF Idle
  <2>3. CASE k \in back
    <3>1. InHands(i, k)'
      BY <1>3, <2>0, <2>3, Zenon DEF InHands
    <3>2. ~Forgetting(i, k)'
      BY <2>1, <2>2, <2>3, Zenon DEF Forgetting
    <3> QED BY <2>0, <3>1, <3>2, Zenon DEF Safe
  <2>4. CASE k \notin back
    <3>1. k \in job[j].keys => k \in fresh
      <4>1. o.ok \cup o.bad \cup o.wait = job[j].keys
        BY <1>1, OutcomeParts, Zenon
      <4>2. k \in job[j].keys => k \in o.bad \cup o.wait
        BY <1>8, <4>1, Zenon
      <4> QED BY <1>3, <1>8, <2>4, <4>2, Zenon
    <3>2. ASSUME NEW n \in Isolate, InHands(n, k), ~Forgetting(n, k)
          PROVE  InHands(n, k)' /\ ~Forgetting(n, k)'
      <4>1. k \in notes[n] => k \in notes'[n]
        BY <1>3, <2>0, Zenon
      <4>2. ASSUME NEW m \in Job, Home[m] = n
            PROVE  /\ job[m].at \in {"post", "commit"} /\ k \in job[m].keys
                        => job'[m].at \in {"post", "commit"} /\ k \in job'[m].keys
                   /\ job'[m].at = "forget" /\ k \in job'[m].keys /\ k \in job'[m].same
                        => job[m].at = "forget" /\ k \in job[m].keys /\ k \in job[m].same
        <5>1. CASE m = j
          BY <2>2, <3>1, <5>1, Zenon
        <5>2. CASE m # j
          BY <2>1, <5>2, Zenon
        <5> QED BY <5>1, <5>2, Zenon
      <4> QED BY <3>2, <4>1, <4>2, HandsKept, Zenon
    <3>3. letGo'[k] = letGo[k] \/ letGo'[k] = change[k]
      BY <1>3, <1>4, LetGoEffect, Zenon
    <3> QED BY <1>4, <1>8, <3>2, <3>3, CalmStep, Zenon DEF Safe
  <2> QED BY <2>3, <2>4, Zenon
<1> QED BY <1>5, <1>6, <1>7, <1>8, Zenon

\* One job moves on and the notes stay: a key stays in hand unless that job held it.
LEMMA OneJob ==
  ASSUME TypeOK, NEW k \in Key, NEW j \in Job, NEW r, job' = [job EXCEPT ![j] = r], notes' = notes,
         r.at = "forget" => k \notin r.keys,
         job[j].at \in {"post", "commit"} => k \notin job[j].keys \/ k \in notes[Home[j]],
         NEW n \in Isolate, InHands(n, k), ~Forgetting(n, k)
  PROVE  InHands(n, k)' /\ ~Forgetting(n, k)'
<1>1. job'[j] = r /\ \A m \in Job : m # j => job'[m] = job[m]
  BY Types, Zenon
<1> QED BY <1>1, Zenon DEF InHands, Forgetting

\* A park keeps a key safe, and makes one that lands current.
LEMMA ParkKeeps ==
  ASSUME TypeOK, NEW k \in Key, NEW L, Park(L), change'[k] = change[k], told'[k] = told[k],
         letGo'[k] = letGo[k] \/ letGo'[k] = change[k], Safe(k)
  PROVE  \/ Safe(k)'
         \/ k \notin L /\ \E i \in Isolate : InHands(i, k) /\ ~Forgetting(i, k)
<1>1. CASE k \in L
  <2>1. rows'[k] = ParkedRow(seq + 1) /\ parkedAt'[k] = change[k] /\ seq \in Nat
    BY <1>1, Types, Zenon DEF Park
  <2>2. Current(k)'
    BY <2>1 DEF Current, Active, Held, ParkedRow
  <2> QED BY <2>2, Zenon DEF Safe
<1>2. CASE k \notin L
  <2>1. rows'[k] = rows[k] /\ parkedAt'[k] = parkedAt[k]
    BY <1>2, Zenon DEF Park
  <2> QED BY <1>2, <2>1, CalmStep, Zenon
<1> QED BY <1>1, <1>2, Zenon

\* The outbox parks the fresh keys, or faults and lets go of those not noted back.
LEMMA SafeCommit ==
  ASSUME ChangeParkAssumption, TypeOK, NEW k \in Key, Safe(k), NEW j \in Job, CommitFlush(j) \/ FaultFlush(j)
  PROVE  Safe(k)'
<1>1. /\ LetGo(job[j].keys \ notes[Home[j]]) /\ job' = [job EXCEPT ![j] = Idle]
      /\ notes' = notes /\ change'[k] = change[k] /\ told'[k] = told[k]
  BY Zenon DEF CommitFlush, FaultFlush
<1>2. letGo'[k] = letGo[k] \/ letGo'[k] = change[k]
  BY <1>1, LetGoEffect, Zenon
<1>3. CASE k \in job[j].keys \ notes[Home[j]]
  BY <1>1, <1>3, LetGoEffect, Zenon DEF Safe
<1>4. CASE k \notin job[j].keys \ notes[Home[j]]
  <2>1. ASSUME NEW n \in Isolate, InHands(n, k), ~Forgetting(n, k)
        PROVE  InHands(n, k)' /\ ~Forgetting(n, k)'
    BY <1>1, <1>4, <2>1, OneJob, Zenon DEF Idle
  <2>2. Safe(k)' \/ \E n \in Isolate : InHands(n, k) /\ ~Forgetting(n, k)
    <3>1. CASE CommitFlush(j)
      <4>1. PICK L : Park(L)
        BY <3>1, Zenon DEF CommitFlush
      <4> QED BY <1>1, <1>2, <4>1, ParkKeeps, Zenon
    <3>2. CASE FaultFlush(j)
      <4>1. rows'[k] = rows[k] /\ parkedAt'[k] = parkedAt[k]
        BY <3>2, Zenon DEF FaultFlush, NoPark
      <4> QED BY <1>1, <1>2, <4>1, CalmStep, Zenon
    <3> QED BY <3>1, <3>2, Zenon
  <2> QED BY <2>1, <2>2, Zenon DEF Safe
<1> QED BY <1>3, <1>4, Zenon

\* A skip forgets a key only once a row, or another isolate, has it.
LEMMA SafeSkip ==
  ASSUME ChangeParkAssumption, TypeOK, NEW k \in Key, Safe(k), NEW j \in Job,
         StartSkip(j) \/ ParkWithheld(j) \/ FaultPark(j) \/ Forget(j)
  PROVE  Safe(k)'
<1>1. change'[k] = change[k] /\ told'[k] = told[k] /\ letGo'[k] = letGo[k]
  BY Zenon DEF StartSkip, ParkWithheld, FaultPark, Forget
<1>2. CASE StartSkip(j) \/ FaultPark(j)
  <2>1. PICK r : r.at # "forget" /\ job' = [job EXCEPT ![j] = r]
    <3>1. CASE StartSkip(j)
      BY <3>1, Zenon DEF StartSkip
    <3>2. CASE FaultPark(j)
      BY <3>2, Zenon DEF FaultPark, Idle
    <3> QED BY <1>2, <3>1, <3>2, Zenon
  <2>2. job[j].at \in {"idle", "park"} /\ notes' = notes /\ rows'[k] = rows[k] /\ parkedAt'[k] = parkedAt[k]
    BY <1>2, Zenon DEF StartSkip, FaultPark, NoPark
  <2>3. ASSUME NEW n \in Isolate, InHands(n, k), ~Forgetting(n, k)
        PROVE  InHands(n, k)' /\ ~Forgetting(n, k)'
    BY <2>1, <2>2, <2>3, OneJob, Zenon
  <2> QED BY <1>1, <2>2, <2>3, CalmStep, Zenon DEF Safe
<1>3. CASE ParkWithheld(j)
  <2>1. PICK L \in ParkLands(job[j].keys) :
          /\ Park(L)
          /\ \/ job' = [job EXCEPT ![j] = [@ EXCEPT !.at = "forget", !.keys = L]]
             \/ job' = [job EXCEPT ![j] = Idle]
    BY <1>3, Zenon DEF ParkWithheld
  <2>2. job[j].at = "park" /\ notes' = notes
    BY <1>3, Zenon DEF ParkWithheld
  <2>3. PICK r : job' = [job EXCEPT ![j] = r] /\ (r.at = "forget" => r.keys = L)
    <3>1. job[j] \in JobType
      BY Types, Zenon
    <3>2. [job[j] EXCEPT !.at = "forget", !.keys = L].keys = L
      BY <3>1, Zenon DEF JobType
    <3> QED BY <2>1, <3>2, Zenon DEF Idle
  <2>4. ASSUME NEW n \in Isolate, k \notin L, InHands(n, k), ~Forgetting(n, k)
        PROVE  InHands(n, k)' /\ ~Forgetting(n, k)'
    BY <2>2, <2>3, <2>4, OneJob, Zenon
  <2> QED BY <1>1, <2>1, <2>4, ParkKeeps, Zenon DEF Safe
<1>4. CASE Forget(j)
  <2>1. /\ notes' = [notes EXCEPT ![Home[j]] = @ \ (job[j].keys \cap job[j].same)]
        /\ job' = [job EXCEPT ![j] = Idle] /\ job[j].at = "forget"
        /\ rows'[k] = rows[k] /\ parkedAt'[k] = parkedAt[k]
    BY <1>4, Zenon DEF Forget, NoPark
  <2>2. job'[j] = Idle /\ \A m \in Job : m # j => job'[m] = job[m]
    BY <2>1, Types, Zenon
  <2>3. ASSUME NEW n \in Isolate, InHands(n, k), ~Forgetting(n, k)
        PROVE  InHands(n, k)' /\ ~Forgetting(n, k)'
    <3>1. k \in notes[n] => k \in notes'[n]
      BY <2>1, <2>3, Types, Zenon DEF Forgetting
    <3>2. Idle.at = "idle"
      BY Zenon DEF Idle
    <3>3. ASSUME NEW m \in Job
          PROVE  /\ job[m].at \in {"post", "commit"} /\ k \in job[m].keys
                      => job'[m].at \in {"post", "commit"} /\ k \in job'[m].keys
                 /\ job'[m].at = "forget" /\ k \in job'[m].keys /\ k \in job'[m].same
                      => job[m].at = "forget" /\ k \in job[m].keys /\ k \in job[m].same
      BY <2>1, <2>2, <3>2, Zenon
    <3> QED BY <2>3, <3>1, <3>3, HandsKept, Zenon
  <2> QED BY <1>1, <2>1, <2>3, CalmStep, Zenon DEF Safe
<1> QED BY <1>2, <1>3, <1>4, Zenon

\* A drain deletes a current row only when the app layer has read the key, and a
\* row that it exhausts is let go on record.
LEMMA SafeDrain ==
  ASSUME ChangeParkAssumption, TInv, NEW k \in Key, Safe(k),
         (\E d \in Drain : DrainStep(d)) \/ (\E q \in Key : Elapse(q))
  PROVE  Safe(k)'
<1>0. [Next]_vars
  BY Zenon DEF Next
<1>1. UNCHANGED <<change, notes, job>>
  BY Zenon DEF DrainStep, ReadParked, PostParked, Unpark, Refuse, Sweep, Elapse
<1>2. \A i : (InHands(i, k)' <=> InHands(i, k)) /\ (Forgetting(i, k)' <=> Forgetting(i, k))
  BY <1>1, Zenon DEF InHands, Forgetting
<1>3. /\ change[k] \in Nat /\ told[k] \in Nat /\ told'[k] \in Nat /\ told'[k] >= told[k]
      /\ parkedAt[k] \in Nat /\ told[k] <= change[k] /\ told'[k] <= change[k]
  BY <1>0, <1>1, KeyEffect, TypeStep, Types, Zenon DEF TInv, TypeOK, Order
<1>4. letGo'[k] = letGo[k] \/ letGo'[k] = change[k]
  BY <1>1, LetGoEffect, Zenon DEF DrainStep, ReadParked, PostParked, Unpark, Refuse, Sweep, Elapse
<1>5. CASE change[k] <= told[k] \/ letGo[k] = change[k] \/ \E i \in Isolate : InHands(i, k) /\ ~Forgetting(i, k)
  <2>1. change[k] <= told[k] => change[k] <= told'[k]
    BY <1>3
  <2> QED BY <1>1, <1>2, <1>4, <1>5, <2>1, Zenon DEF Safe
<1>6. CASE Current(k)
  <2>1. CASE Active(k)' /\ parkedAt'[k] = parkedAt[k]
    BY <1>1, <1>6, <2>1, Zenon DEF Current, Safe
  <2>2. CASE told'[k] >= parkedAt[k]
    BY <1>1, <1>3, <1>6, <2>2, Zenon DEF Current, Safe
  <2>3. ASSUME NEW d \in Drain, Refuse(d), ~Active(k)'
        PROVE  letGo'[k] = change[k]
    <3>1. rows' = [q \in Key |-> IF q \in Refused(d) THEN RefusedRow(rows[q]) ELSE rows[q]]
          /\ LetGo({q \in Refused(d) : rows'[q].exhausted})
      BY <1>6, <2>3, Zenon DEF Refuse, Current, Active, Held
    <3>2. k \in Refused(d) /\ rows'[k].exhausted
      BY <1>6, <2>3, <3>1, Zenon DEF Current, Active, Held, RefusedRow
    <3>3. k \in {q \in Refused(d) : rows'[q].exhausted} /\ change'[k] = change[k]
      BY <1>1, <3>2, Zenon
    <3> QED BY <2>3, <3>1, <3>3, LetGoEffect, Zenon DEF Current
  <2>4. ASSUME NEW q \in Key, Elapse(q)
        PROVE  Active(k)'
    <3>1. rows'[k].generation = rows[k].generation /\ rows'[k].exhausted = rows[k].exhausted
      BY <2>4, Types DEF Elapse, RowType, TInv
    <3> QED BY <1>6, <3>1, Zenon DEF Current, Active, Held
  <2>5. CASE ~Active(k)' \/ parkedAt'[k] # parkedAt[k]
    <3>1. parkedAt' = parkedAt
      BY Zenon DEF DrainStep, ReadParked, PostParked, Unpark, Refuse, Sweep, Elapse, NoPark
    <3>2. ~Active(k)' /\ Active(k)
      BY <1>6, <2>5, <3>1, Zenon DEF Current
    <3>3. ASSUME NEW d \in Drain, Unpark(d)
          PROVE  told'[k] >= parkedAt[k]
      <4>1. k \in Unparked(d)
        BY <3>2, <3>3, Zenon DEF Unpark, Active, Held
      <4> QED BY <3>3, <4>1, Zenon DEF Unparked, Unpark, TInv, Sound
    <3>4. ASSUME NEW d \in Drain, ReadParked(d) \/ PostParked(d)
          PROVE  Active(k)'
      BY <3>2, <3>4, Zenon DEF ReadParked, PostParked, NoPark, Active, Held
    <3>5. ASSUME NEW d \in Drain, Sweep(d)
          PROVE  Active(k)'
      <4>1. rows'[k] = rows[k]
        BY <3>2, <3>5, Zenon DEF Sweep, Active, Held
      <4> QED BY <3>2, <4>1, Zenon DEF Active, Held
    <3> QED BY <1>1, <2>2, <2>3, <2>4, <3>2, <3>3, <3>4, <3>5, Zenon DEF DrainStep, Safe
  <2> QED BY <2>1, <2>5, Zenon
<1> QED BY <1>5, <1>6, Zenon DEF Safe

\* A write is read by the app layer, waits in an isolate's memory, in the hands of a
\* flush or in the table, or was let go by one of the rules that count it; no order
\* of flushes, skips, drains, faults and ends of isolates drops it silently.
THEOREM CustodyHolds == Spec => []Custody
<1> DEFINE CInv == TInv /\ \A k \in Key : Safe(k)
<1>1. Init => CInv
  <2> SUFFICES ASSUME Init PROVE TInv /\ \A k \in Key : Safe(k)
    BY Zenon
  <2>1. \A k \in Key : change[k] <= told[k]
    BY DEF Init
  <2> QED BY <2>1, TInvInit, ChangeParkAssumption, Zenon DEF Safe
<1>2. CInv /\ [Next]_vars => CInv'
  <2>1. TInv /\ [Next]_vars => TInv'
    BY TInvStep, ChangeParkAssumption, Zenon
  <2> SUFFICES ASSUME TInv, [Next]_vars, NEW k \in Key, Safe(k) PROVE Safe(k)'
    BY <2>1, Zenon
  <2>2. CASE UNCHANGED vars
    <3>1. UNCHANGED <<change, told, notes, job, rows, parkedAt, letGo>>
      BY <2>2, Zenon DEF vars
    <3>2. \A i : (InHands(i, k)' <=> InHands(i, k)) /\ (Forgetting(i, k)' <=> Forgetting(i, k))
      BY <3>1, Zenon DEF InHands, Forgetting
    <3> QED BY <3>1, <3>2, Zenon DEF Safe, Current, Active, Held
  <2>3. TypeOK
    BY Zenon DEF TInv
  <2>4. ASSUME NEW j \in Job, JobStep(j)
        PROVE  Safe(k)'
    BY <2>3, <2>4, SafeStartFlush, SafePost, SafeCommit, SafeSkip, ChangeParkAssumption, Zenon DEF JobStep
  <2> QED BY <2>2, <2>3, <2>4, SafeNote, SafeEnd, SafeDrain, ChangeParkAssumption, Zenon DEF Next
<1>3. CInv => Custody
  <2> SUFFICES ASSUME TInv, NEW k \in Key, Safe(k), told[k] < change[k]
               PROVE  Waiting(k) \/ letGo[k] = change[k]
    BY Zenon DEF Custody
  <2>1. told[k] \in Nat /\ change[k] \in Nat
    BY Types, Zenon DEF TInv
  <2> QED BY <2>1 DEF Safe, Current, InHands, Waiting
<1> QED BY <1>1, <1>2, <1>3, PTL DEF Spec

-----------------------------------------------------------------------------
(* The ceiling. *)

INSTANCE FiniteSetTheorems

\* A park that takes a new row leaves the table, and the lobby's share of it,
\* within the ceiling; a re-park adds none.
LEMMA ParkCeiling ==
  ASSUME ChangeParkAssumption, TypeOK, WithinCeiling, Parking
  PROVE  WithinCeiling'
<1>0. PICK K \in SUBSET Key : \E L \in ParkLands(K) : Park(L)
  BY Zenon DEF Parking
<1>1. PICK L \in ParkLands(K) : Park(L)
  BY <1>0, Zenon
<1>2. HeldKeys' = HeldKeys \cup L
  <2>1. L \subseteq Key
    BY Zenon DEF ParkLands
  <2>2. \A k \in Key : rows'[k].generation = IF k \in L THEN seq + 1 ELSE rows[k].generation
    BY <1>1, Zenon DEF Park, ParkedRow
  <2>3. seq \in Nat
    BY Types, Zenon
  <2> QED BY <2>1, <2>2, <2>3 DEF HeldKeys, Held
<1> DEFINE new == L \ HeldKeys
           all == HeldKeys \cup new
<1>3. all = HeldKeys'
  BY <1>2, Zenon
<1>4. new # {} => Cardinality(all) <= MAX_ROWS
  BY Zenon DEF ParkLands
<1>5. new \cap Lobby # {} => Cardinality(all \cap Lobby) <= LOBBY_MAX_ROWS
  BY Zenon DEF ParkLands
<1>6. new = {} => all = HeldKeys
  BY Zenon
<1>7. new \cap Lobby = {} => all \cap Lobby = HeldKeys \cap Lobby
  BY Zenon
<1> HIDE DEF all, new
<1> QED BY <1>3, <1>4, <1>5, <1>6, <1>7, Zenon DEF WithinCeiling

\* Rows that are deleted, refused or due again add none.
LEMMA FewerRows ==
  ASSUME ChangeParkAssumption, WithinCeiling, HeldKeys' \subseteq HeldKeys
  PROVE  WithinCeiling'
<1>1. IsFiniteSet(HeldKeys) /\ IsFiniteSet(HeldKeys \cap Lobby)
  BY FS_Subset, Zenon DEF ChangeParkAssumption, HeldKeys
<1>2. HeldKeys' \cap Lobby \subseteq HeldKeys \cap Lobby
  BY Zenon
<1>3. Cardinality(HeldKeys') <= Cardinality(HeldKeys)
  BY <1>1, FS_Subset, Zenon
<1>4. Cardinality(HeldKeys' \cap Lobby) <= Cardinality(HeldKeys \cap Lobby)
  BY <1>1, <1>2, FS_Subset, Zenon
<1>5. /\ Cardinality(HeldKeys) \in Nat /\ Cardinality(HeldKeys \cap Lobby) \in Nat
      /\ IsFiniteSet(HeldKeys') /\ IsFiniteSet(HeldKeys' \cap Lobby)
  BY <1>1, <1>2, FS_CardinalityType, FS_Subset, Zenon
<1>6. Cardinality(HeldKeys') \in Nat /\ Cardinality(HeldKeys' \cap Lobby) \in Nat
  BY <1>5, FS_CardinalityType, Zenon
<1> QED BY <1>3, <1>4, <1>5, <1>6 DEF WithinCeiling, ChangeParkAssumption

\* Whatever parks overlap, the table keeps MAX_ROWS and the lobby its share:
\* PARK_SQL counts the rows in the statement that inserts.
THEOREM CeilingHolds == Spec => []WithinCeiling
<1>1. Init => WithinCeiling
  <2> SUFFICES ASSUME Init PROVE WithinCeiling
    BY Zenon
  <2>1. HeldKeys = {} /\ HeldKeys \cap Lobby = {}
    BY Zenon DEF Init, HeldKeys, Held, NoRow
  <2> QED BY <2>1, FS_EmptySet, ChangeParkAssumption DEF WithinCeiling, ChangeParkAssumption
<1>2. TypeOK /\ WithinCeiling /\ [Next]_vars => WithinCeiling'
  <2> SUFFICES ASSUME TypeOK, WithinCeiling, [Next]_vars PROVE WithinCeiling'
    BY Zenon
  <2>1. CASE Quiet \/ Telling
    <3>1. HeldKeys' = HeldKeys
      BY <2>1, Zenon DEF Quiet, Telling, HeldKeys, Held
    <3> QED BY <3>1, FewerRows, ChangeParkAssumption, Zenon
  <2>2. CASE Parking
    BY <2>2, ParkCeiling, ChangeParkAssumption, Zenon
  <2>3. CASE \/ \E d \in Drain : Unpark(d) \/ Refuse(d) \/ Sweep(d)
             \/ \E k \in Key : Elapse(k)
    BY <2>3, DrainHolds, FewerRows, ChangeParkAssumption, Zenon
  <2> QED BY <2>1, <2>2, <2>3, TableEffect, ChangeParkAssumption, Zenon
<1> QED BY <1>1, <1>2, TypeCorrect, PTL DEF Spec
=============================================================================
