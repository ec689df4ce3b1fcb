--------------------------- MODULE Delivery_proofs ---------------------------
(* Proofs about Delivery, for every value of its constants. *)
EXTENDS Delivery, TLAPS

-----------------------------------------------------------------------------
(* The inductive invariant.  TypeOK speaks of the tables and the queues; it    *)
(* holds because every handler in flight holds a message of its own.           *)

MessageType == [queue : {"main", "dlq"}, copy : Copy, n : Nat, tries : Nat, sent : Nat]
Failing == [status : {"failing"}, class : {"fault", "not_now"}, redrives : Nat]
WithBytesRow ==
  [status : WithBytes, class : {"fault", "not_now"}, redrives : Nat, copy : Copy, n : Nat]
RowType == {NoRow} \cup Failing \cup WithBytesRow
Used ==
  [presents : [Copy -> Nat], troubles : Nat, evictions : Nat, discards : Nat, clock : Nat]

IndexOK == landed \cup twin \subseteq Letter /\ evicted \subseteq Txid
StoreOK == objects \subseteq Keyed /\ owed \subseteq Copy
MsgsOK == msgs \in [Slot -> {NoMessage} \cup MessageType]
UsedOK == used \in Used

\* A row that holds bytes holds a copy of its own letter.
OwnBytes(R) == \A k \in Held(R) : LetterOf[R[k].copy] = k

RowsOK(R) == R \in [Letter -> RowType] /\ OwnBytes(R)

StatementOK(w) ==
  /\ w.op \in {"note", "park", "resolve", "claim", "revert"}
  /\ w.letter \in Letter
  /\ w.op = "note" => w.class \in {"fault", "not_now", "keep"}
  /\ w.op = "park" => w.copy \in Copy /\ w.n \in Nat /\ LetterOf[w.copy] = w.letter
  /\ w.op = "revert" => w.redrives \in Nat \ {0}

LateOK == \A w \in late : StatementOK(w) /\ w.op \in LateAnswers

DoorOK(j) ==
  /\ j.pc = "idle" => j = Idle
  /\ j.pc # "idle" => j.copy \in Copy
  /\ j.pc = "put" => j.copy \in Keyed

\* A consumer or a parker in flight holds a message, and no other does.
Holds(j) == j.pc \notin {"idle", "delete"}

ConsOK(j) ==
  /\ j.pc = "idle" => j = Idle
  /\ Holds(j) => j.slot \in Slot
  /\ j.pc = "note" => j.class \in {"fault", "not_now", "keep"}

ParkerOK(j) ==
  /\ j.pc = "idle" => j = Idle
  /\ j.pc # "delete"
  /\ Holds(j) => j.slot \in Slot

LeverOK(j) ==
  /\ j.pc = "idle" => j = Idle
  /\ j.pc \in {"claim", "send", "revert"} => j.todo \subseteq Letter \X Nat
  /\ j.pc \in {"send", "revert"} => j.letter \in Letter /\ j.n \in Nat \ {0} /\ j.copy \in Copy
  /\ j.pc = "discarded" => j.copy \in Copy

DoorsOK == DOMAIN door = Door /\ \A d \in Door : DoorOK(door[d])
ConsumersOK == DOMAIN cons = Consumer /\ \A p \in Consumer : ConsOK(cons[p])
ParkersOK == DOMAIN parker = Parker /\ \A p \in Parker : ParkerOK(parker[p])
LeversOK == DOMAIN lever = Lever /\ \A l \in Lever : LeverOK(lever[l])

\* A handler in flight holds a message that is still in its queue, and no other
\* handler of that queue holds it: none goes on with what another acked.
HeldOnce ==
  /\ \A p \in Consumer : Holds(cons[p]) => msgs[cons[p].slot].queue = "main"
  /\ \A p \in Parker : Holds(parker[p]) => msgs[parker[p].slot].queue = "dlq"
  /\ \A p, q \in Consumer :
       Holds(cons[p]) /\ Holds(cons[q]) /\ cons[p].slot = cons[q].slot => p = q
  /\ \A p, q \in Parker :
       Holds(parker[p]) /\ Holds(parker[q]) /\ parker[p].slot = parker[q].slot => p = q

QueuesOK == MsgsOK /\ ConsumersOK /\ ParkersOK /\ HeldOnce

Inv ==
  /\ IndexOK /\ StoreOK /\ UsedOK /\ RowsOK(rows) /\ LateOK
  /\ DoorsOK /\ LeversOK /\ QueuesOK

-----------------------------------------------------------------------------
(* The dead letters' statements. *)

\* Every row is one of the three shapes.
LEMMA RowShape ==
  ASSUME NEW R, RowsOK(R), NEW k \in Letter
  PROVE  /\ R[k] \in RowType
         /\ R[k].status = "none" => R[k] = NoRow
         /\ R[k].status = "failing" => R[k] \in Failing
         /\ R[k].status \in WithBytes => R[k] \in WithBytesRow
         /\ R[k].status \in {"none", "failing"} \cup WithBytes
BY DEF RowsOK, OwnBytes, RowType, NoRow, Failing, WithBytesRow, WithBytes

IsPut(Q, R, k, r) == Q = [R EXCEPT ![k] = r]

\* A row replaced by a well-typed one, its bytes of its own letter, keeps the table.
LEMMA RowPut ==
  ASSUME NEW R, RowsOK(R), NEW k \in Letter, NEW r \in RowType,
         r.status \in WithBytes => LetterOf[r.copy] = k,
         NEW Q, IsPut(Q, R, k, r)
  PROVE  /\ RowsOK(Q)
         /\ Q[k] = r
         /\ \A j \in Letter \ {k} : Q[j] = R[j]
         /\ r.status \in WithBytes => Held(Q) = Held(R) \cup {k}
         /\ r.status \notin WithBytes => Held(Q) = Held(R) \ {k}
<1>1. R \in [Letter -> RowType]
  BY Zenon DEF RowsOK, OwnBytes
<1>2. Q \in [Letter -> RowType] /\ Q[k] = r /\ \A j \in Letter \ {k} : Q[j] = R[j]
  BY <1>1, Zenon DEF IsPut
<1>3. ASSUME NEW j \in Held(Q) PROVE LetterOf[Q[j].copy] = j
  <2>1. CASE j = k
    BY <1>2, <1>3, <2>1, Zenon DEF Held
  <2>2. CASE j # k
    BY <1>2, <1>3, <2>2, Zenon DEF Held, RowsOK, OwnBytes
  <2> QED BY <2>1, <2>2, Zenon
<1>4. r.status \in WithBytes => Held(Q) = Held(R) \cup {k}
  BY <1>2, Zenon DEF Held
<1>5. r.status \notin WithBytes => Held(Q) = Held(R) \ {k}
  BY <1>2 DEF Held
<1> QED BY <1>2, <1>3, <1>4, <1>5, Zenon DEF RowsOK, OwnBytes

\* What a row carries, and that it carries something only when it holds bytes.
LEMMA CarriesSome ==
  ASSUME NEW c \in Copy, NEW n \in Nat
  PROVE  Carried(c, n) \in Nat /\ Carried(c, n) > 0
<1>1. Carries[c] \in Nat /\ Carries[c] > 0
  BY DeliveryAssumption
<1> QED BY <1>1 DEF Carried

\* What a statement other than a park does to the table: it stays well typed, and
\* no letter comes to hold bytes, or other bytes.
Fewer(Q, R) ==
  /\ Held(Q) \subseteq Held(R)
  /\ \A k \in Held(Q) : Q[k].copy = R[k].copy

\* A row put in the place of one with the same bytes, or without bytes, is fewer.
LEMMA FewerPut ==
  ASSUME NEW R, RowsOK(R), NEW k \in Letter, NEW r \in RowType,
         r.status \in WithBytes => k \in Held(R) /\ r.copy = R[k].copy,
         NEW Q, IsPut(Q, R, k, r)
  PROVE  RowsOK(Q) /\ Fewer(Q, R)
<1>1. r.status \in WithBytes => LetterOf[r.copy] = k
  BY Zenon DEF RowsOK, OwnBytes
<1>2. /\ RowsOK(Q) /\ Q[k] = r
      /\ \A j \in Letter \ {k} : Q[j] = R[j]
      /\ r.status \in WithBytes => Held(Q) = Held(R) \cup {k}
      /\ r.status \notin WithBytes => Held(Q) = Held(R) \ {k}
  BY <1>1, RowPut
<1>3. Held(Q) \subseteq Letter
  BY Zenon DEF Held
<1> QED BY <1>2, <1>3, Zenon DEF Fewer

\* NOTE_FAILING_SQL, with a class or keeping the one there.
LEMMA NoteRows ==
  ASSUME NEW R, RowsOK(R), NEW w, StatementOK(w), w.op = "note"
  PROVE  RowsOK(Noted(R, w)) /\ Fewer(Noted(R, w), R)
<1> DEFINE k == w.letter
           class == IF w.class = "keep" THEN ClassOf(R, k) ELSE w.class
           Q == Noted(R, w)
<1>1. k \in Letter /\ w.class \in {"fault", "not_now", "keep"}
  BY Zenon DEF StatementOK
<1>3. class \in {"fault", "not_now"}
  BY <1>1, RowShape, Zenon DEF ClassOf, Failing, WithBytesRow
<1>4. R[k].status = "none" => Q = [R EXCEPT ![k] = [status |-> "failing", class |-> class, redrives |-> 0]]
  BY Zenon DEF Noted
<1>5. R[k].status = "parked" => Q = R
  BY Zenon DEF Noted
<1>6. R[k].status \notin {"none", "parked"} => Q = [R EXCEPT ![k] = [R[k] EXCEPT !.class = class]]
  BY Zenon DEF Noted
<1> SUFFICES RowsOK(Q) /\ Fewer(Q, R)
  BY Zenon
<1> HIDE DEF Q, k, class
<1>7. CASE R[k].status = "none"
  <2> DEFINE r == [status |-> "failing", class |-> class, redrives |-> 0]
  <2>1. r \in RowType /\ r.status \notin WithBytes
    BY <1>3, Zenon DEF RowType, Failing, WithBytes
  <2>2. IsPut(Q, R, k, r)
    BY <1>4, <1>7, Zenon DEF IsPut
  <2> HIDE DEF r
  <2> QED BY <1>1, <2>1, <2>2, FewerPut, Zenon
<1>8. CASE R[k].status = "parked"
  BY <1>5, <1>8, Zenon DEF Fewer
<1>9. CASE R[k].status \notin {"none", "parked"}
  <2> DEFINE r == [R[k] EXCEPT !.class = class]
  <2>1. R[k] \in Failing \/ R[k] \in WithBytesRow
    BY <1>1, <1>9, RowShape, Zenon
  <2>2. r \in RowType /\ r.status = R[k].status /\ (R[k] \in WithBytesRow => r.copy = R[k].copy)
    <3>1. CASE R[k] \in Failing
      BY <1>3, <3>1, Zenon DEF RowType, Failing, WithBytesRow, WithBytes
    <3>2. CASE R[k] \in WithBytesRow
      BY <1>3, <3>2, Zenon DEF RowType, WithBytesRow
    <3> QED BY <2>1, <3>1, <3>2, Zenon
  <2>3. IsPut(Q, R, k, r)
    BY <1>6, <1>9, Zenon DEF IsPut
  <2>4. r.status \in WithBytes => k \in Held(R) /\ r.copy = R[k].copy
    BY <1>1, <2>2, RowShape, Zenon DEF Held
  <2> HIDE DEF r
  <2> QED BY <1>1, <2>2, <2>3, <2>4, FewerPut, Zenon
<1> QED BY <1>7, <1>8, <1>9, Zenon

\* RESOLVE_SQL, and a discard.
LEMMA ResolveRows ==
  ASSUME NEW R, RowsOK(R), NEW k \in Letter, NEW Q, IsPut(Q, R, k, NoRow)
  PROVE  RowsOK(Q) /\ Fewer(Q, R)
<1>1. NoRow \in RowType /\ NoRow.status \notin WithBytes
  BY Zenon DEF RowType, NoRow, WithBytes
<1> QED BY <1>1, FewerPut, Zenon

\* CLAIM_SQL.
LEMMA ClaimRows ==
  ASSUME NEW R, RowsOK(R), NEW w, StatementOK(w)
  PROVE  RowsOK(Claimed(R, w)) /\ Fewer(Claimed(R, w), R)
<1> DEFINE k == w.letter
           Q == Claimed(R, w)
           r == [R[k] EXCEPT !.status = "redriven", !.redrives = R[k].redrives + 1]
<1>1. k \in Letter
  BY Zenon DEF StatementOK
<1>2. CASE ~Claims(R, w)
  BY <1>2, Zenon DEF Claimed, Fewer
<1>3. CASE Claims(R, w)
  <2>1. R \in [Letter -> RowType] /\ R[k].status = "parked"
    BY <1>3, Zenon DEF RowsOK, OwnBytes, Claims
  <2>2. R[k] \in WithBytesRow
    BY <1>1, <2>1, RowShape, Zenon DEF WithBytes
  <2>3. k \in Held(R) /\ R[k].redrives \in Nat
    BY <1>1, <2>1, <2>2, Zenon DEF Held, WithBytes, WithBytesRow
  <2>4. Q = [R EXCEPT ![k].status = "redriven", ![k].redrives = @ + 1]
    BY <1>3, Zenon DEF Claimed
  <2>5. IsPut(Q, R, k, r)
    BY <1>1, <2>1, <2>2, <2>4, Zenon DEF WithBytesRow, IsPut
  <2>6. r \in RowType /\ r.status = "redriven" /\ r.copy = R[k].copy
    <3> DEFINE n == R[k].redrives + 1
    <3>1. "redriven" \in WithBytes /\ n \in Nat
      BY <2>3 DEF WithBytes
    <3> QED BY <2>2, <3>1, Zenon DEF RowType, WithBytesRow
  <2> SUFFICES RowsOK(Q) /\ Fewer(Q, R)
    BY Zenon
  <2> HIDE DEF Q, k, r
  <2> QED BY <1>1, <2>3, <2>5, <2>6, FewerPut, Zenon
<1> QED BY <1>2, <1>3, Zenon

\* REVERT_SQL.
LEMMA RevertRows ==
  ASSUME NEW R, RowsOK(R), NEW w, StatementOK(w), w.op = "revert"
  PROVE  RowsOK(Reverted(R, w)) /\ Fewer(Reverted(R, w), R)
<1> DEFINE k == w.letter
           Q == Reverted(R, w)
           r == [R[k] EXCEPT !.status = "parked", !.redrives = R[k].redrives - 1]
           Mine == R[k].status = "redriven" /\ R[k].redrives = w.redrives
<1>1. k \in Letter /\ w.redrives \in Nat \ {0}
  BY Zenon DEF StatementOK
<1>2. CASE ~Mine
  BY <1>2, Zenon DEF Reverted, Fewer
<1>3. CASE Mine
  <2>1. R \in [Letter -> RowType] /\ R[k].status = "redriven"
    BY <1>3, Zenon DEF RowsOK, OwnBytes
  <2>2. R[k] \in WithBytesRow
    BY <1>1, <2>1, RowShape, Zenon DEF WithBytes
  <2>3. k \in Held(R)
    BY <1>1, <2>1, <2>2, Zenon DEF Held, WithBytes, WithBytesRow
  <2>4. Q = [R EXCEPT ![k].status = "parked", ![k].redrives = @ - 1]
    BY <1>3, Zenon DEF Reverted
  <2>5. IsPut(Q, R, k, r)
    BY <1>1, <2>1, <2>2, <2>4, Zenon DEF WithBytesRow, IsPut
  <2>6. r \in RowType /\ r.status = "parked" /\ r.copy = R[k].copy
    <3> DEFINE n == R[k].redrives - 1
    <3>1. "parked" \in WithBytes /\ n \in Nat
      BY <1>1, <1>3 DEF WithBytes
    <3> QED BY <2>2, <3>1, Zenon DEF RowType, WithBytesRow
  <2> SUFFICES RowsOK(Q) /\ Fewer(Q, R)
    BY Zenon
  <2> HIDE DEF Q, k, r, Mine
  <2> QED BY <1>1, <2>3, <2>5, <2>6, FewerPut, Zenon
<1> QED BY <1>2, <1>3, Zenon

\* PARK_SQL: with room, the letter holds the heavier of its two copies.
LEMMA ParkRows ==
  ASSUME NEW R, RowsOK(R), NEW w, StatementOK(w), w.op = "park"
  PROVE  LET Q == Parked(R, w) IN
         /\ RowsOK(Q)
         /\ ~Parks(R, w) => Q = R
         /\ Parks(R, w) =>
              /\ Held(Q) = Held(R) \cup {w.letter}
              /\ Q[w.letter].copy = IF KeptNew(R, w) THEN w.copy ELSE R[w.letter].copy
              /\ \A j \in Letter \ {w.letter} : Q[j] = R[j]
         /\ ~KeptNew(R, w) => w.letter \in Held(R)
<1> DEFINE k == w.letter
           new == KeptNew(R, w)
           Q == Parked(R, w)
           r == [status |-> "parked", class |-> ClassOf(R, k),
                 redrives |-> IF R[k].status = "none" THEN 0 ELSE R[k].redrives,
                 copy |-> IF new THEN w.copy ELSE R[k].copy,
                 n |-> IF new THEN w.n ELSE R[k].n]
<1>1. k \in Letter /\ w.copy \in Copy /\ w.n \in Nat /\ LetterOf[w.copy] = k
  BY Zenon DEF StatementOK
<1>2. /\ R[k].status \in WithBytes => R[k] \in WithBytesRow
      /\ R[k].status = "failing" => R[k] \in Failing
      /\ R[k].status \in {"none", "failing"} \cup WithBytes
  BY <1>1, RowShape, Zenon
<1>3. ~new => k \in Held(R)
  <2>1. Carried(w.copy, w.n) \in Nat /\ Carried(w.copy, w.n) > 0
    BY <1>1, CarriesSome, Zenon
  <2>2. R[k].status \notin WithBytes => Weight(R[k]) = 0
    BY Zenon DEF Weight
  <2> QED BY <1>1, <2>1, <2>2, Zenon DEF KeptNew, Held
<1>4. ClassOf(R, k) \in {"fault", "not_now"}
  BY <1>2, Zenon DEF ClassOf, Failing, WithBytesRow
<1>5. ~new => R[k].copy \in Copy /\ R[k].n \in Nat /\ LetterOf[R[k].copy] = k
  BY <1>2, <1>3, Zenon DEF Held, WithBytesRow, RowsOK, OwnBytes
<1>6. R[k].status # "none" => R[k].redrives \in Nat
  BY <1>2, Zenon DEF Failing, WithBytesRow
<1>7. r \in RowType /\ r.status \in WithBytes /\ LetterOf[r.copy] = k
      /\ r.copy = IF new THEN w.copy ELSE R[k].copy
  <2> HIDE DEF new, k
  <2>1. r \in WithBytesRow
    BY <1>1, <1>4, <1>5, <1>6, Zenon DEF WithBytesRow, WithBytes
  <2> QED BY <1>1, <1>5, <2>1, Zenon DEF RowType, WithBytesRow
<1>8. ~Parks(R, w) => Q = R
  BY Zenon DEF Parked
<1>9. Parks(R, w) => IsPut(Q, R, k, r)
  BY Zenon DEF Parked, IsPut
<1> SUFFICES /\ RowsOK(Q)
             /\ ~Parks(R, w) => Q = R
             /\ Parks(R, w) =>
                  /\ Held(Q) = Held(R) \cup {k}
                  /\ Q[k].copy = IF new THEN w.copy ELSE R[k].copy
                  /\ \A j \in Letter \ {k} : Q[j] = R[j]
  BY <1>3, Zenon
<1> HIDE DEF Q, r, k, new
<1>10. CASE Parks(R, w)
  BY <1>1, <1>7, <1>9, <1>10, RowPut
<1>11. CASE ~Parks(R, w)
  BY <1>8, <1>11, Zenon
<1> QED BY <1>10, <1>11, Zenon

\* A statement that lands, at once or late.
LEMMA ExecRows ==
  ASSUME NEW R, RowsOK(R), NEW w, StatementOK(w)
  PROVE  RowsOK(Exec(R, w)) /\ (w.op # "park" => Fewer(Exec(R, w), R))
<1>1. CASE w.op = "note"
  BY <1>1, NoteRows, Zenon DEF Exec
<1>2. CASE w.op = "park"
  BY <1>2, ParkRows, Zenon DEF Exec
<1>3. CASE w.op = "resolve"
  <2>1. w.letter \in Letter
    BY Zenon DEF StatementOK
  <2>2. IsPut(ResolvedRows(R, w), R, w.letter, NoRow)
    BY Zenon DEF ResolvedRows, IsPut
  <2> QED BY <1>3, <2>1, <2>2, ResolveRows, Zenon DEF Exec
<1>4. CASE w.op = "claim"
  BY <1>4, ClaimRows, Zenon DEF Exec
<1>5. CASE w.op = "revert"
  BY <1>5, RevertRows, Zenon DEF Exec
<1> QED BY <1>1, <1>2, <1>3, <1>4, <1>5, Zenon DEF StatementOK

\* An event keeps the counts of the run's events.
LEMMA Events ==
  ASSUME UsedOK
  PROVE  (Trouble => UsedOK') /\ (Calm => UsedOK')
BY DEF UsedOK, Used, Trouble, Calm, Use

\* A statement that answers, faults, or is told faulted and lands.
LEMMA StatementKeeps ==
  ASSUME UsedOK, RowsOK(rows), LateOK, NEW w, StatementOK(w), Answered(w) \/ Faulted(w)
  PROVE  UsedOK' /\ RowsOK(rows') /\ LateOK' /\ (w.op # "park" => Fewer(rows', rows))
<1>1. RowsOK(Exec(rows, w)) /\ (w.op # "park" => Fewer(Exec(rows, w), rows))
  BY ExecRows, Zenon
<1>2. Fewer(rows, rows)
  BY Zenon DEF Fewer
<1>3. UsedOK'
  BY Events, Zenon DEF Answered, Faulted
<1>4. /\ rows' = rows \/ rows' = Exec(rows, w)
      /\ late' = late \/ (w.op \in LateAnswers /\ late' = late \cup {w})
  BY Zenon DEF Answered, Faulted
<1>5. LateOK'
  BY <1>4, Zenon DEF LateOK
<1> QED BY <1>1, <1>2, <1>3, <1>4, <1>5, Zenon

-----------------------------------------------------------------------------
(* The queues and the two handlers that take from them. *)

\* The dead letter in a parker's hands stays the same letter.
LettersStay ==
  \A q \in Parker :
    Holds(parker[q]) /\ Holds(parker'[q]) => /\ parker'[q].slot = parker[q].slot
                                             /\ msgs'[parker[q].slot].copy = msgs[parker[q].slot].copy

\* The message in a handler's hands.
LEMMA HeldMessage ==
  ASSUME QueuesOK
  PROVE  /\ \A p \in Consumer : Holds(cons[p]) => msgs[cons[p].slot] \in MessageType
                                                 /\ cons[p].slot \in Slot
         /\ \A p \in Parker : Holds(parker[p]) => msgs[parker[p].slot] \in MessageType
                                                 /\ parker[p].slot \in Slot
<1>1. ASSUME NEW s \in Slot, msgs[s].queue \in {"main", "dlq"} PROVE msgs[s] \in MessageType
  BY <1>1 DEF QueuesOK, MsgsOK, NoMessage
<1>2. ASSUME NEW p \in Consumer, Holds(cons[p])
      PROVE  msgs[cons[p].slot] \in MessageType /\ cons[p].slot \in Slot
  BY <1>1, <1>2, Zenon DEF QueuesOK, ConsumersOK, ConsOK, HeldOnce
<1>3. ASSUME NEW p \in Parker, Holds(parker[p])
      PROVE  msgs[parker[p].slot] \in MessageType /\ parker[p].slot \in Slot
  BY <1>1, <1>3, Zenon DEF QueuesOK, ParkersOK, ParkerOK, HeldOnce
<1> QED BY <1>2, <1>3, Zenon

\* A consumer and a parker never hold the same message.
LEMMA Apart ==
  ASSUME QueuesOK, NEW p \in Consumer, NEW q \in Parker, Holds(cons[p]), Holds(parker[q])
  PROVE  cons[p].slot # parker[q].slot
BY Zenon DEF QueuesOK, HeldOnce

\* Nothing happens to the queues.
LEMMA QueuesSame ==
  ASSUME QueuesOK, UNCHANGED <<msgs, cons, parker>>
  PROVE  QueuesOK' /\ LettersStay
<1>1. LettersStay
  BY Zenon DEF LettersStay
<1>2. QueuesOK'
  BY Zenon DEF QueuesOK, MsgsOK, ConsumersOK, ParkersOK, HeldOnce
<1> QED BY <1>1, <1>2, Zenon

\* A message sent.
LEMMA QueuesPost ==
  ASSUME QueuesOK, NEW m \in MessageType, Post(m), UNCHANGED <<cons, parker>>
  PROVE  QueuesOK' /\ LettersStay
<1>1. PICK s \in Free : msgs' = [msgs EXCEPT ![s] = m]
  BY Zenon DEF Post
<1>2. s \in Slot /\ msgs[s].queue = "none" /\ msgs \in [Slot -> {NoMessage} \cup MessageType]
  BY DEF Free, NoMessage, QueuesOK, MsgsOK
<1>3. msgs' \in [Slot -> {NoMessage} \cup MessageType] /\ \A u \in Slot \ {s} : msgs'[u] = msgs[u]
  BY <1>1, <1>2, Zenon
<1>4. /\ \A p \in Consumer : Holds(cons[p]) => msgs'[cons[p].slot] = msgs[cons[p].slot]
      /\ \A p \in Parker : Holds(parker[p]) => msgs'[parker[p].slot] = msgs[parker[p].slot]
  BY <1>2, <1>3, HeldMessage, Zenon DEF QueuesOK, HeldOnce
<1>5. HeldOnce'
  BY <1>4, Zenon DEF QueuesOK, HeldOnce
<1>6. LettersStay
  BY <1>4, Zenon DEF LettersStay
<1> QED BY <1>3, <1>5, <1>6, Zenon DEF QueuesOK, MsgsOK, ConsumersOK, ParkersOK

\* A consumer goes on with the message it holds, or lets go of nothing.
LEMMA ConsumerMoves ==
  ASSUME QueuesOK, NEW p \in Consumer, NEW j, cons' = [cons EXCEPT ![p] = j], ConsOK(j),
         Holds(j) => Holds(cons[p]) /\ j.slot = cons[p].slot,
         UNCHANGED <<msgs, parker>>
  PROVE  QueuesOK' /\ LettersStay
<1>1. DOMAIN cons' = Consumer /\ cons'[p] = j /\ \A q \in Consumer \ {p} : cons'[q] = cons[q]
  BY Zenon DEF QueuesOK, ConsumersOK
<1>2. ConsumersOK'
  BY <1>1, Zenon DEF QueuesOK, ConsumersOK
<1>3. HeldOnce'
  BY <1>1 DEF QueuesOK, HeldOnce
<1> QED BY <1>2, <1>3, Zenon DEF QueuesOK, MsgsOK, ParkersOK, LettersStay

\* A consumer takes a message that waits.
LEMMA ConsumerTakes ==
  ASSUME QueuesOK, NEW p \in Consumer, NEW s \in Waiting("main"), NEW j,
         cons' = [cons EXCEPT ![p] = j], ConsOK(j), j.slot = s, UNCHANGED <<msgs, parker>>
  PROVE  QueuesOK' /\ LettersStay
<1>1. DOMAIN cons' = Consumer /\ cons'[p] = j /\ \A q \in Consumer \ {p} : cons'[q] = cons[q]
  BY Zenon DEF QueuesOK, ConsumersOK
<1>2. ConsumersOK'
  BY <1>1, Zenon DEF QueuesOK, ConsumersOK
<1>3. /\ msgs[s].queue = "main"
      /\ \A q \in Consumer : Holds(cons[q]) => cons[q].slot # s
  BY Zenon DEF Waiting, InHandler, Holds
<1>4. HeldOnce'
  BY <1>1, <1>3 DEF QueuesOK, HeldOnce
<1> QED BY <1>2, <1>4, Zenon DEF QueuesOK, MsgsOK, ParkersOK, LettersStay

\* A consumer is done with its message: acked, or handed back.
LEMMA ConsumerLeaves ==
  ASSUME QueuesOK, NEW p \in Consumer, Holds(cons[p]), NEW m \in {NoMessage} \cup MessageType,
         msgs' = [msgs EXCEPT ![cons[p].slot] = m], NEW j,
         cons' = [cons EXCEPT ![p] = j], ConsOK(j), ~Holds(j), UNCHANGED parker
  PROVE  QueuesOK' /\ LettersStay
<1>1. DOMAIN cons' = Consumer /\ cons'[p] = j /\ \A q \in Consumer \ {p} : cons'[q] = cons[q]
  BY Zenon DEF QueuesOK, ConsumersOK
<1>2. ConsumersOK'
  BY <1>1, Zenon DEF QueuesOK, ConsumersOK
<1>3. cons[p].slot \in Slot /\ msgs \in [Slot -> {NoMessage} \cup MessageType]
  BY HeldMessage, Zenon DEF QueuesOK, MsgsOK
<1>4. /\ msgs' \in [Slot -> {NoMessage} \cup MessageType]
      /\ \A u \in Slot \ {cons[p].slot} : msgs'[u] = msgs[u]
  BY <1>3, Zenon
<1>5. \A q \in Consumer \ {p} : Holds(cons[q]) => msgs'[cons[q].slot] = msgs[cons[q].slot]
  BY <1>4, HeldMessage, Zenon DEF QueuesOK, HeldOnce
<1>6. \A q \in Parker : Holds(parker[q]) => msgs'[parker[q].slot] = msgs[parker[q].slot]
  BY <1>4, HeldMessage, Apart, Zenon
<1>7. HeldOnce'
  BY <1>1, <1>5, <1>6 DEF QueuesOK, HeldOnce
<1>8. LettersStay
  BY <1>6, Zenon DEF LettersStay
<1> QED BY <1>2, <1>4, <1>7, <1>8, Zenon DEF QueuesOK, MsgsOK, ParkersOK

\* A parker goes on with the letter it holds.
LEMMA ParkerMoves ==
  ASSUME QueuesOK, NEW p \in Parker, NEW j, parker' = [parker EXCEPT ![p] = j], ParkerOK(j),
         Holds(j) => Holds(parker[p]) /\ j.slot = parker[p].slot,
         UNCHANGED <<msgs, cons>>
  PROVE  QueuesOK' /\ LettersStay
<1>1. DOMAIN parker' = Parker /\ parker'[p] = j /\ \A q \in Parker \ {p} : parker'[q] = parker[q]
  BY Zenon DEF QueuesOK, ParkersOK
<1>2. ParkersOK'
  BY <1>1, Zenon DEF QueuesOK, ParkersOK
<1>3. HeldOnce'
  BY <1>1 DEF QueuesOK, HeldOnce
<1>4. LettersStay
  BY <1>1, Zenon DEF LettersStay
<1> QED BY <1>2, <1>3, <1>4, Zenon DEF QueuesOK, MsgsOK, ConsumersOK

\* A parker takes a letter that waits.
LEMMA ParkerTakes ==
  ASSUME QueuesOK, NEW p \in Parker, parker[p] = Idle, NEW s \in Waiting("dlq"), NEW j,
         parker' = [parker EXCEPT ![p] = j], ParkerOK(j), j.slot = s, UNCHANGED <<msgs, cons>>
  PROVE  QueuesOK' /\ LettersStay
<1>1. DOMAIN parker' = Parker /\ parker'[p] = j /\ \A q \in Parker \ {p} : parker'[q] = parker[q]
  BY Zenon DEF QueuesOK, ParkersOK
<1>2. ParkersOK'
  BY <1>1, Zenon DEF QueuesOK, ParkersOK
<1>3. /\ msgs[s].queue = "dlq" /\ ~Holds(parker[p])
      /\ \A q \in Parker : Holds(parker[q]) => parker[q].slot # s
  BY DEF Waiting, InHandler, Holds, Idle
<1>4. HeldOnce'
  BY <1>1, <1>3 DEF QueuesOK, HeldOnce
<1>5. LettersStay
  BY <1>1, <1>3, Zenon DEF LettersStay
<1> QED BY <1>2, <1>4, <1>5, Zenon DEF QueuesOK, MsgsOK, ConsumersOK

\* A parker is done with its letter: acked, handed back or lost.
LEMMA ParkerLeaves ==
  ASSUME QueuesOK, NEW p \in Parker, Holds(parker[p]), NEW m \in {NoMessage} \cup MessageType,
         msgs' = [msgs EXCEPT ![parker[p].slot] = m],
         parker' = [parker EXCEPT ![p] = Idle], UNCHANGED cons
  PROVE  QueuesOK' /\ LettersStay
<1>1. DOMAIN parker' = Parker /\ parker'[p] = Idle /\ \A q \in Parker \ {p} : parker'[q] = parker[q]
  BY Zenon DEF QueuesOK, ParkersOK
<1>2. ParkerOK(Idle) /\ ~Holds(Idle)
  BY Zenon DEF ParkerOK, Holds, Idle
<1>3. ParkersOK'
  BY <1>1, <1>2, Zenon DEF QueuesOK, ParkersOK
<1>4. parker[p].slot \in Slot /\ msgs \in [Slot -> {NoMessage} \cup MessageType]
  BY HeldMessage, Zenon DEF QueuesOK, MsgsOK
<1>5. /\ msgs' \in [Slot -> {NoMessage} \cup MessageType]
      /\ \A u \in Slot \ {parker[p].slot} : msgs'[u] = msgs[u]
  BY <1>4, Zenon
<1>6. \A q \in Parker \ {p} : Holds(parker[q]) => msgs'[parker[q].slot] = msgs[parker[q].slot]
  BY <1>5, HeldMessage, Zenon DEF QueuesOK, HeldOnce
<1>7. \A q \in Consumer : Holds(cons[q]) => msgs'[cons[q].slot] = msgs[cons[q].slot]
  BY <1>5, HeldMessage, Apart, Zenon
<1>8. HeldOnce'
  BY <1>1, <1>2, <1>6, <1>7 DEF QueuesOK, HeldOnce
<1>9. LettersStay
  BY <1>1, <1>2, <1>6, Zenon DEF LettersStay
<1> QED BY <1>3, <1>5, <1>8, <1>9, Zenon DEF QueuesOK, MsgsOK, ConsumersOK

\* A message nobody holds expires.
LEMMA QueuesExpire ==
  ASSUME QueuesOK, NEW s \in Slot, ~InHandler(s), msgs' = [msgs EXCEPT ![s] = NoMessage],
         UNCHANGED <<cons, parker>>
  PROVE  QueuesOK' /\ LettersStay
<1>1. /\ msgs' \in [Slot -> {NoMessage} \cup MessageType]
      /\ \A u \in Slot \ {s} : msgs'[u] = msgs[u]
  BY Zenon DEF QueuesOK, MsgsOK
<1>2. /\ \A p \in Consumer : Holds(cons[p]) => msgs'[cons[p].slot] = msgs[cons[p].slot]
      /\ \A p \in Parker : Holds(parker[p]) => msgs'[parker[p].slot] = msgs[parker[p].slot]
  BY <1>1, HeldMessage, Zenon DEF InHandler, Holds
<1>3. HeldOnce'
  BY <1>2 DEF QueuesOK, HeldOnce
<1>4. LettersStay
  BY <1>2, Zenon DEF LettersStay
<1> QED BY <1>1, <1>3, <1>4, Zenon DEF QueuesOK, MsgsOK, ConsumersOK, ParkersOK

-----------------------------------------------------------------------------
(* What each action keeps. *)

\* A step that parks nothing and takes no letter out of a parker's hands.
Gentle == Fewer(rows', rows) /\ LettersStay

\* What a step does not touch stays as it was.
LEMMA Frame ==
  ASSUME Inv
  PROVE  /\ UNCHANGED index => IndexOK'
         /\ UNCHANGED <<objects, owed>> => StoreOK'
         /\ UNCHANGED used => UsedOK'
         /\ UNCHANGED rows => RowsOK(rows') /\ Fewer(rows', rows)
         /\ UNCHANGED late => LateOK'
         /\ UNCHANGED door => DoorsOK'
         /\ UNCHANGED lever => LeversOK'
         /\ UNCHANGED <<msgs, cons, parker>> => QueuesOK' /\ LettersStay
<1>1. UNCHANGED <<msgs, cons, parker>> => QueuesOK' /\ LettersStay
  BY QueuesSame, Zenon DEF Inv
<1>2. UNCHANGED rows => RowsOK(rows') /\ Fewer(rows', rows)
  BY Zenon DEF Inv, Fewer
<1>3. UNCHANGED index => IndexOK'
  BY Zenon DEF Inv, index, IndexOK
<1>4. UNCHANGED <<objects, owed>> => StoreOK'
  BY Zenon DEF Inv, StoreOK
<1>5. UNCHANGED used => UsedOK'
  BY Zenon DEF Inv, UsedOK
<1>6. UNCHANGED late => LateOK'
  BY Zenon DEF Inv, LateOK
<1>7. UNCHANGED door => DoorsOK'
  BY Zenon DEF Inv, DoorsOK
<1>8. UNCHANGED lever => LeversOK'
  BY Zenon DEF Inv, LeversOK
<1> QED BY <1>1, <1>2, <1>3, <1>4, <1>5, <1>6, <1>7, <1>8, Zenon

\* A door goes on.
LEMMA DoorMoves ==
  ASSUME Inv, NEW d \in Door, NEW j, DoorOK(j), door' = [door EXCEPT ![d] = j]
  PROVE  DoorsOK'
<1>1. DOMAIN door' = Door /\ door'[d] = j /\ \A q \in Door \ {d} : door'[q] = door[q]
  BY Zenon DEF Inv, DoorsOK
<1> QED BY <1>1, Zenon DEF Inv, DoorsOK

\* A lever goes on.
LEMMA LeverMoves ==
  ASSUME Inv, NEW l \in Lever, NEW j, LeverOK(j), lever' = [lever EXCEPT ![l] = j]
  PROVE  LeversOK'
<1>1. DOMAIN lever' = Lever /\ lever'[l] = j /\ \A q \in Lever \ {l} : lever'[q] = lever[q]
  BY Zenon DEF Inv, LeversOK
<1> QED BY <1>1, Zenon DEF Inv, LeversOK

\* A handler at rest is well typed, whichever handler it is.
LEMMA IdleOK == DoorOK(Idle) /\ ConsOK(Idle) /\ ParkerOK(Idle) /\ LeverOK(Idle) /\ ~Holds(Idle)
BY Zenon DEF DoorOK, ConsOK, ParkerOK, LeverOK, Holds, Idle

\* An eviction's move of a letter's rows between the tables.
LEMMA MoveKeeps ==
  ASSUME IndexOK, NEW t, MoveAside(t), evicted' \subseteq Txid
  PROVE  IndexOK'
BY Zenon DEF IndexOK, MoveAside

\* /submit takes a presentation.
LEMMA KeepsPresent ==
  ASSUME Inv, NEW d \in Door, NEW c \in Copy, Present(d, c)
  PROVE  Inv' /\ Gentle
<1> DEFINE j == [pc |-> "write", copy |-> c]
<1>1. /\ door' = [door EXCEPT ![d] = j] /\ Use([used EXCEPT !.presents[c] = @ + 1])
      /\ UNCHANGED <<index, msgs, tables, r2, cons, parker, lever, sweep, owed>>
  BY Zenon DEF Present
<1>2. DoorOK(j)
  BY Zenon DEF DoorOK
<1>3. UsedOK'
  BY <1>1 DEF Inv, UsedOK, Used, Use
<1>4. DoorsOK'
  <2> HIDE DEF j
  <2> QED BY <1>1, <1>2, DoorMoves, Zenon
<1> QED BY <1>1, <1>3, <1>4, Frame, Zenon DEF Inv, Gentle, tables, r2

\* The write-through.
LEMMA KeepsWriteThrough ==
  ASSUME Inv, NEW d \in Door, WriteThrough(d)
  PROVE  Inv' /\ Gentle
<1>1. /\ door[d].pc = "write"
      /\ UNCHANGED <<evicted, twin, msgs, tables, r2, cons, parker, lever, sweep, owed, used>>
  BY Zenon DEF WriteThrough
<1>2. door[d].copy \in Copy
  BY <1>1, Zenon DEF Inv, DoorsOK, DoorOK
<1>3. /\ landed' \subseteq landed \cup {LetterOf[door[d].copy]}
      /\ \E b \in BOOLEAN :
           door' = [door EXCEPT ![d] = [pc |-> "guard", copy |-> door[d].copy, durable |-> b]]
  BY Zenon DEF WriteThrough
<1>4. PICK b \in BOOLEAN :
        door' = [door EXCEPT ![d] = [pc |-> "guard", copy |-> door[d].copy, durable |-> b]]
  BY <1>3, Zenon
<1> DEFINE j == [pc |-> "guard", copy |-> door[d].copy, durable |-> b]
<1>5. DoorOK(j)
  BY <1>2, Zenon DEF DoorOK
<1>6. DoorsOK'
  <2>1. door' = [door EXCEPT ![d] = j]
    BY <1>4, Zenon
  <2> HIDE DEF j
  <2> QED BY <1>5, <2>1, DoorMoves, Zenon
<1>7. IndexOK'
  BY <1>1, <1>2, <1>3, DeliveryAssumption DEF Inv, IndexOK
<1> QED BY <1>1, <1>6, <1>7, Frame, Zenon DEF Inv, Gentle, tables, r2

\* The write-side guard.
LEMMA KeepsGuardWrite ==
  ASSUME Inv, NEW d \in Door, GuardWrite(d)
  PROVE  Inv' /\ Gentle
<1> DEFINE c == door[d].copy
           j == [pc |-> IF c \in Keyed THEN "put" ELSE "send", copy |-> c]
<1>1. /\ door[d].pc = "guard"
      /\ UNCHANGED <<evicted, msgs, tables, r2, cons, parker, lever, sweep, owed>>
  BY Zenon DEF GuardWrite
<1>2. c \in Copy
  BY <1>1, Zenon DEF Inv, DoorsOK, DoorOK
<1>3. DoorOK(j)
  BY <1>2, Zenon DEF DoorOK
<1>4. door' = [door EXCEPT ![d] = Idle] \/ door' = [door EXCEPT ![d] = j]
  BY Zenon DEF GuardWrite
<1>5. DoorsOK'
  <2> HIDE DEF j
  <2> QED BY <1>3, <1>4, DoorMoves, IdleOK, Zenon
<1>6. (Calm \/ Trouble) /\ (MoveAside(TxidOf[LetterOf[c]]) \/ UNCHANGED <<landed, twin>>)
  BY Zenon DEF GuardWrite
<1>7. UsedOK'
  BY <1>6, Events, Zenon DEF Inv
<1>8. IndexOK'
  <2>1. CASE MoveAside(TxidOf[LetterOf[c]])
    BY <1>1, <2>1, MoveKeeps, Zenon DEF Inv, IndexOK
  <2>2. CASE UNCHANGED <<landed, twin>>
    BY <1>1, <2>2, Zenon DEF Inv, IndexOK
  <2> QED BY <1>6, <2>1, <2>2, Zenon
<1> QED BY <1>1, <1>5, <1>7, <1>8, Frame, Zenon DEF Inv, Gentle, tables, r2

\* put_beef.
LEMMA KeepsPutBeef ==
  ASSUME Inv, NEW d \in Door, PutBeef(d)
  PROVE  Inv' /\ Gentle
<1>1. /\ door[d].pc = "put"
      /\ UNCHANGED <<index, msgs, tables, cons, parker, lever, sweep, owed>>
  BY Zenon DEF PutBeef
<1>2. DoorOK(door[d]) /\ door[d].copy \in Keyed /\ DOMAIN door = Door
  BY <1>1, Zenon DEF Inv, DoorsOK, DoorOK
<1>3. \/ door' = [door EXCEPT ![d].pc = "send"] /\ objects' = objects \cup {door[d].copy} /\ Calm
      \/ door' = [door EXCEPT ![d] = Idle] /\ objects' = objects /\ Trouble
  BY Zenon DEF PutBeef, r2
<1>4. DoorsOK'
  <2>1. CASE door' = [door EXCEPT ![d] = Idle]
    BY <2>1, DoorMoves, IdleOK, Zenon
  <2>2. CASE door' = [door EXCEPT ![d].pc = "send"]
    <3> DEFINE j == [door[d] EXCEPT !.pc = "send"]
    <3>1. door' = [door EXCEPT ![d] = j]
      BY <2>2, Zenon
    <3>2. DoorOK(j)
      BY <1>1, <1>2 DEF DoorOK
    <3> HIDE DEF j
    <3> QED BY <3>1, <3>2, DoorMoves, Zenon
  <2> QED BY <1>3, <2>1, <2>2, Zenon
<1>5. UsedOK'
  BY <1>3, Events, Zenon DEF Inv
<1>6. StoreOK'
  BY <1>1, <1>2, <1>3, Zenon DEF Inv, StoreOK
<1> QED BY <1>1, <1>4, <1>5, <1>6, Frame, Zenon DEF Inv, Gentle, tables

\* A message of a copy is well typed.
LEMMA MessageOK ==
  ASSUME UsedOK, NEW c \in Copy, NEW n \in Nat
  PROVE  Message(c, n) \in MessageType
BY Zenon DEF UsedOK, Used, Message, MessageType, clock

\* The send, and the ack.
LEMMA KeepsSendReplay ==
  ASSUME Inv, NEW d \in Door, SendReplay(d)
  PROVE  Inv' /\ Gentle
<1>1. /\ door[d].pc = "send" /\ door' = [door EXCEPT ![d] = Idle]
      /\ UNCHANGED <<index, tables, r2, cons, parker, lever, sweep>>
  BY Zenon DEF SendReplay
<1>2. door[d].copy \in Copy
  BY <1>1, Zenon DEF Inv, DoorsOK, DoorOK
<1>3. DoorsOK'
  BY <1>1, DoorMoves, IdleOK, Zenon
<1>4. \/ Calm /\ Post(Message(door[d].copy, 0)) /\ owed' = owed \cup {door[d].copy}
      \/ Trouble /\ UNCHANGED <<msgs, owed>>
  BY Zenon DEF SendReplay
<1>5. UsedOK'
  BY <1>4, Events, Zenon DEF Inv
<1>6. StoreOK'
  BY <1>1, <1>2, <1>4, Zenon DEF Inv, StoreOK, r2
<1>7. QueuesOK' /\ LettersStay
  <2>1. CASE Post(Message(door[d].copy, 0))
    <3>1. Message(door[d].copy, 0) \in MessageType
      BY <1>2, MessageOK, Zenon DEF Inv
    <3> QED BY <1>1, <2>1, <3>1, QueuesPost, Zenon DEF Inv
  <2>2. CASE UNCHANGED <<msgs, owed>>
    BY <1>1, <2>2, Frame, Zenon
  <2> QED BY <1>4, <2>1, <2>2, Zenon
<1> QED BY <1>1, <1>3, <1>5, <1>6, <1>7, Frame, Zenon DEF Inv, Gentle, tables, r2

Reading == {"read", "ledger", "missing", "twin", "replay", "guard", "guardfailed"}

\* A consumer that goes on with its replay, fails it or is to ack it.
LEMMA ConsumerGoes ==
  ASSUME QueuesOK, NEW p \in Consumer, Holds(cons[p]), UNCHANGED <<msgs, parker>>,
         \/ \E pc \in Reading : GoOn(p, pc)
         \/ \E class \in {"fault", "not_now", "keep"} : Fail(p, class)
         \/ \E own \in SUBSET Copy, leaves \in BOOLEAN, whole \in BOOLEAN : AckWith(p, own, leaves, whole)
  PROVE  QueuesOK' /\ LettersStay
<1>1. cons[p].slot \in Slot
  BY HeldMessage, Zenon
<1>2. ASSUME NEW pc \in Reading, GoOn(p, pc) PROVE QueuesOK' /\ LettersStay
  <2> DEFINE j == [pc |-> pc, slot |-> cons[p].slot]
  <2>1. ConsOK(j) /\ j.slot = cons[p].slot
    BY <1>1, Zenon DEF ConsOK, Reading
  <2>2. cons' = [cons EXCEPT ![p] = j]
    BY <1>2, Zenon DEF GoOn
  <2> HIDE DEF j
  <2> QED BY <2>1, <2>2, ConsumerMoves, Zenon
<1>3. ASSUME NEW class \in {"fault", "not_now", "keep"}, Fail(p, class)
      PROVE  QueuesOK' /\ LettersStay
  <2> DEFINE j == [pc |-> "note", slot |-> cons[p].slot, class |-> class]
  <2>1. ConsOK(j) /\ j.slot = cons[p].slot
    BY <1>1, Zenon DEF ConsOK
  <2>2. cons' = [cons EXCEPT ![p] = j]
    BY <1>3, Zenon DEF Fail
  <2> HIDE DEF j
  <2> QED BY <2>1, <2>2, ConsumerMoves, Zenon
<1>4. ASSUME NEW own \in SUBSET Copy, NEW leaves \in BOOLEAN, NEW whole \in BOOLEAN,
             AckWith(p, own, leaves, whole)
      PROVE  QueuesOK' /\ LettersStay
  <2> DEFINE j == [pc |-> "resolve", slot |-> cons[p].slot,
                   own |-> own, leaves |-> leaves, whole |-> whole]
  <2>1. ConsOK(j) /\ j.slot = cons[p].slot
    BY <1>1, Zenon DEF ConsOK
  <2>2. cons' = [cons EXCEPT ![p] = j]
    BY <1>4, Zenon DEF AckWith
  <2> HIDE DEF j
  <2> QED BY <2>1, <2>2, ConsumerMoves, Zenon
<1> QED BY <1>2, <1>3, <1>4, Zenon

\* The copy a consumer replays.
LEMMA ConsumerCopy ==
  ASSUME Inv, NEW p \in Consumer, Holds(cons[p])
  PROVE  CopyAt(p) \in Copy /\ LetterAt(p) \in Letter
<1>1. CopyAt(p) \in Copy
  BY HeldMessage, Zenon DEF Inv, CopyAt, MessageType
<1> QED BY <1>1, DeliveryAssumption, Zenon DEF LetterAt

\* The delivery of a message.
LEMMA KeepsTakeMutation ==
  ASSUME Inv, NEW p \in Consumer, NEW s \in Slot, TakeMutation(p, s)
  PROVE  Inv' /\ Gentle
<1> DEFINE j == [pc |-> "read", slot |-> s]
<1>1. /\ s \in Waiting("main") /\ cons' = [cons EXCEPT ![p] = j]
      /\ UNCHANGED <<index, msgs, tables, r2, door, parker, lever, sweep, owed, used>>
  BY Zenon DEF TakeMutation
<1>2. ConsOK(j) /\ j.slot = s
  BY Zenon DEF ConsOK
<1>3. QueuesOK' /\ LettersStay
  <2> HIDE DEF j
  <2> QED BY <1>1, <1>2, ConsumerTakes, Zenon DEF Inv
<1> QED BY <1>1, <1>3, Frame, Zenon DEF Inv, Gentle, tables, r2

\* The reads of a replay: the object, the ledger, and the applied rows of a
\* message whose object is missing.
LEMMA KeepsReads ==
  ASSUME Inv, NEW p \in Consumer,
         ReadForReplay(p) \/ JudgeMissing(p) \/ JudgeTwin(p) \/ ReadLedger(p)
  PROVE  Inv' /\ Gentle
<1>1. UNCHANGED <<index, msgs, tables, r2, door, parker, lever, sweep, owed>>
  BY Zenon DEF ReadForReplay, JudgeMissing, JudgeTwin, ReadLedger
<1>2. Calm \/ Trouble
  BY Zenon DEF ReadForReplay, JudgeMissing, JudgeTwin, ReadLedger
<1>3. cons[p].pc \in {"read", "missing", "twin", "ledger"}
  BY Zenon DEF ReadForReplay, JudgeMissing, JudgeTwin, ReadLedger
<1>4. Holds(cons[p])
  BY <1>3, Zenon DEF Holds
<1>5. {CopyAt(p)} \cap Keyed \in SUBSET Copy /\ {} \in SUBSET Copy
  BY <1>4, ConsumerCopy, Zenon
<1>6. \/ \E pc \in Reading : GoOn(p, pc)
      \/ \E class \in {"fault", "not_now", "keep"} : Fail(p, class)
      \/ \E own \in SUBSET Copy, leaves \in BOOLEAN, whole \in BOOLEAN : AckWith(p, own, leaves, whole)
  <2>1. CASE ReadForReplay(p)
    BY <2>1, Zenon DEF ReadForReplay, Reading
  <2>2. CASE JudgeMissing(p)
    BY <1>5, <2>2, Zenon DEF JudgeMissing, Reading
  <2>3. CASE JudgeTwin(p)
    BY <1>5, <2>3, Zenon DEF JudgeTwin, Reading
  <2>4. CASE ReadLedger(p)
    BY <1>5, <2>4, Zenon DEF ReadLedger, Reading
  <2> QED BY <2>1, <2>2, <2>3, <2>4, Zenon
<1>7. QueuesOK' /\ LettersStay
  BY <1>1, <1>4, <1>6, ConsumerGoes, Zenon DEF Inv
<1>8. UsedOK'
  BY <1>2, Events, Zenon DEF Inv
<1> QED BY <1>1, <1>7, <1>8, Frame, Zenon DEF Inv, Gentle, tables, r2

\* The engine's submit of a replay.
LEMMA KeepsReplay ==
  ASSUME Inv, NEW p \in Consumer, Replay(p)
  PROVE  Inv' /\ Gentle
<1>1. /\ cons[p].pc = "replay"
      /\ UNCHANGED <<evicted, twin, msgs, tables, r2, door, parker, lever, sweep, owed>>
  BY Zenon DEF Replay
<1>2. Holds(cons[p])
  BY <1>1, Zenon DEF Holds
<1>3. Calm \/ Trouble
  BY Zenon DEF Replay
<1>4. landed' \subseteq landed \cup {LetterAt(p)}
  BY Zenon DEF Replay
<1>5. \/ \E pc \in Reading : GoOn(p, pc)
      \/ \E class \in {"fault", "not_now", "keep"} : Fail(p, class)
  BY Zenon DEF Replay, Reading
<1>6. QueuesOK' /\ LettersStay
  BY <1>1, <1>2, <1>5, ConsumerGoes, Zenon DEF Inv
<1>7. IndexOK'
  BY <1>1, <1>2, <1>4, ConsumerCopy, Zenon DEF Inv, IndexOK
<1>8. UsedOK'
  BY <1>3, Events, Zenon DEF Inv
<1> QED BY <1>1, <1>6, <1>7, <1>8, Frame, Zenon DEF Inv, Gentle, tables, r2

\* reevict_after_write.
LEMMA KeepsGuard ==
  ASSUME Inv, NEW p \in Consumer, Guard(p)
  PROVE  Inv' /\ Gentle
<1> DEFINE own == {CopyAt(p)} \cap Keyed
           failed == cons[p].pc = "guardfailed"
<1>1. /\ cons[p].pc \in {"guard", "guardfailed"}
      /\ UNCHANGED <<evicted, msgs, tables, r2, door, parker, lever, sweep, owed>>
  BY Zenon DEF Guard
<1>2. Holds(cons[p])
  BY <1>1, Zenon DEF Holds
<1>3. (Calm \/ Trouble) /\ (MoveAside(TxidOf[LetterAt(p)]) \/ UNCHANGED <<landed, twin>>)
  BY Zenon DEF Guard
<1>4. own \in SUBSET Copy
  BY <1>2, ConsumerCopy, Zenon
<1>5. \/ AckWith(p, own, FALSE, TRUE) \/ Fail(p, "fault")
      \/ AckWith(p, own, failed /\ own # {}, ~failed)
  BY Zenon DEF Guard
<1>6. (failed /\ own # {}) \in BOOLEAN /\ (~failed) \in BOOLEAN
  BY Zenon
<1>7. \/ \E class \in {"fault", "not_now", "keep"} : Fail(p, class)
      \/ \E o \in SUBSET Copy, leaves \in BOOLEAN, whole \in BOOLEAN : AckWith(p, o, leaves, whole)
  <2> HIDE DEF own, failed
  <2> QED BY <1>4, <1>5, <1>6, Zenon
<1>8. QueuesOK' /\ LettersStay
  BY <1>1, <1>2, <1>7, ConsumerGoes, Zenon DEF Inv
<1>9. IndexOK'
  <2>1. CASE MoveAside(TxidOf[LetterAt(p)])
    BY <1>1, <2>1, MoveKeeps, Zenon DEF Inv, IndexOK
  <2>2. CASE UNCHANGED <<landed, twin>>
    BY <1>1, <2>2, Zenon DEF Inv, IndexOK
  <2> QED BY <1>3, <2>1, <2>2, Zenon
<1>10. UsedOK'
  BY <1>3, Events, Zenon DEF Inv
<1> QED BY <1>1, <1>8, <1>9, <1>10, Frame, Zenon DEF Inv, Gentle, tables, r2

\* The row of a letter that landed goes.
LEMMA KeepsResolve ==
  ASSUME Inv, NEW p \in Consumer, Resolve(p)
  PROVE  Inv' /\ Gentle
<1> DEFINE w == [op |-> "resolve", letter |-> LetterAt(p)]
<1>1. /\ cons[p].pc = "resolve" /\ (Answered(w) \/ Faulted(w))
      /\ UNCHANGED <<index, msgs, r2, door, parker, lever, sweep>>
  BY Zenon DEF Resolve
<1>2. Holds(cons[p])
  BY <1>1, Zenon DEF Holds
<1>3. cons[p].slot \in Slot
  BY <1>2, HeldMessage, Zenon DEF Inv
<1>4. StatementOK(w) /\ w.op # "park"
  BY <1>2, ConsumerCopy, Zenon DEF StatementOK
<1>5. UsedOK' /\ RowsOK(rows') /\ LateOK' /\ Fewer(rows', rows)
  <2> HIDE DEF w
  <2> QED BY <1>1, <1>4, StatementKeeps, Zenon DEF Inv
<1>6. owed' \subseteq owed
  BY Zenon DEF Resolve, SettleLetter, GiveUp
<1>7. StoreOK'
  BY <1>1, <1>6, Zenon DEF Inv, StoreOK, r2
<1>8. \E kill : cons' = [cons EXCEPT ![p] = [pc |-> "ack", slot |-> cons[p].slot, kill |-> kill]]
  BY Zenon DEF Resolve
<1>9. PICK kill : cons' = [cons EXCEPT ![p] = [pc |-> "ack", slot |-> cons[p].slot, kill |-> kill]]
  BY <1>8, Zenon
<1> DEFINE j == [pc |-> "ack", slot |-> cons[p].slot, kill |-> kill]
<1>10. ConsOK(j) /\ j.slot = cons[p].slot /\ cons' = [cons EXCEPT ![p] = j]
  BY <1>3, <1>9, Zenon DEF ConsOK
<1>11. QueuesOK' /\ LettersStay
  <2> HIDE DEF j
  <2> QED BY <1>1, <1>2, <1>10, ConsumerMoves, Zenon DEF Inv
<1> QED BY <1>1, <1>5, <1>7, <1>11, Frame, Zenon DEF Inv, Gentle

\* A message handed back is well typed.
LEMMA HandedBackOK ==
  ASSUME UsedOK, NEW m \in MessageType
  PROVE  HandedBack(m) \in MessageType
<1>1. clock \in Nat
  BY Zenon DEF UsedOK, Used, clock
<1>2. [m EXCEPT !.tries = @ + 1] \in MessageType
  BY DEF MessageType
<1>3. [m EXCEPT !.queue = "dlq", !.tries = 0, !.sent = clock] \in MessageType
  <2> HIDE DEF clock
  <2> QED BY <1>1, Zenon DEF MessageType
<1> QED BY <1>2, <1>3, Zenon DEF HandedBack

\* The ack, before the objects' deletes.
LEMMA KeepsAckMutation ==
  ASSUME Inv, NEW p \in Consumer, AckMutation(p)
  PROVE  Inv' /\ Gentle
<1> DEFINE j == [pc |-> "delete", slot |-> 0, kill |-> cons[p].kill]
<1>1. /\ cons[p].pc = "ack" /\ msgs' = [msgs EXCEPT ![cons[p].slot] = NoMessage]
      /\ cons' = [cons EXCEPT ![p] = Idle] \/ cons' = [cons EXCEPT ![p] = j]
      /\ UNCHANGED <<index, tables, r2, door, parker, lever, sweep, owed, used>>
  BY Zenon DEF AckMutation
<1>2. Holds(cons[p])
  BY <1>1, Zenon DEF Holds
<1>3. ConsOK(j) /\ ~Holds(j)
  BY Zenon DEF ConsOK, Holds
<1>4. QueuesOK' /\ LettersStay
  <2> HIDE DEF j
  <2> QED BY <1>1, <1>2, <1>3, IdleOK, ConsumerLeaves, Zenon DEF Inv
<1> QED BY <1>1, <1>4, Frame, Zenon DEF Inv, Gentle, tables, r2

\* delete_beefs.
LEMMA KeepsDeleteBeefs ==
  ASSUME Inv, NEW p \in Consumer, NEW c \in Copy, DeleteBeefs(p, c)
  PROVE  Inv' /\ Gentle
<1> DEFINE j == [cons[p] EXCEPT !.kill = cons[p].kill \ {c}]
<1>1. /\ cons[p].pc = "delete" /\ (Calm \/ Trouble) /\ objects' \subseteq objects
      /\ UNCHANGED <<index, msgs, tables, touched, door, parker, lever, sweep, owed>>
  BY Zenon DEF DeleteBeefs
<1>2. cons' = [cons EXCEPT ![p] = Idle] \/ cons' = [cons EXCEPT ![p] = j]
  BY Zenon DEF DeleteBeefs, Inv, QueuesOK, ConsumersOK
<1>3. j.pc = "delete"
  BY <1>1
<1>4. ConsOK(j) /\ ~Holds(j)
  <2> HIDE DEF j
  <2> QED BY <1>3, Zenon DEF ConsOK, Holds
<1>5. QueuesOK' /\ LettersStay
  <2> HIDE DEF j
  <2> QED BY <1>1, <1>2, <1>4, IdleOK, ConsumerMoves, Zenon DEF Inv
<1>6. UsedOK'
  BY <1>1, Events, Zenon DEF Inv
<1>7. StoreOK'
  BY <1>1, Zenon DEF Inv, StoreOK
<1> QED BY <1>1, <1>5, <1>6, <1>7, Frame, Zenon DEF Inv, Gentle, tables

\* note_failing, then the retry.
LEMMA KeepsNoteAndRetry ==
  ASSUME Inv, NEW p \in Consumer, NoteAndRetry(p)
  PROVE  Inv' /\ Gentle
<1> DEFINE w == [op |-> "note", letter |-> LetterAt(p), class |-> cons[p].class]
           m == HandedBack(msgs[cons[p].slot])
<1>1. /\ cons[p].pc = "note" /\ (Answered(w) \/ Faulted(w))
      /\ msgs' = [msgs EXCEPT ![cons[p].slot] = HandedBack(@)]
      /\ cons' = [cons EXCEPT ![p] = Idle]
      /\ UNCHANGED <<index, r2, door, parker, lever, sweep, owed>>
  BY Zenon DEF NoteAndRetry
<1>2. Holds(cons[p])
  BY <1>1, Zenon DEF Holds
<1>3. cons[p].slot \in Slot /\ msgs[cons[p].slot] \in MessageType
  BY <1>2, HeldMessage, Zenon DEF Inv
<1>4. StatementOK(w) /\ w.op # "park"
  <2>1. cons[p].class \in {"fault", "not_now", "keep"}
    BY <1>1, Zenon DEF Inv, QueuesOK, ConsumersOK, ConsOK
  <2>2. LetterAt(p) \in Letter
    BY <1>2, ConsumerCopy, Zenon
  <2> QED BY <2>1, <2>2, Zenon DEF StatementOK
<1>5. UsedOK' /\ RowsOK(rows') /\ LateOK' /\ Fewer(rows', rows)
  <2> HIDE DEF w
  <2> QED BY <1>1, <1>4, StatementKeeps, Zenon DEF Inv
<1>6. m \in {NoMessage} \cup MessageType /\ msgs' = [msgs EXCEPT ![cons[p].slot] = m]
  BY <1>1, <1>3, HandedBackOK, Zenon DEF Inv
<1>7. QueuesOK' /\ LettersStay
  <2> HIDE DEF m
  <2> QED BY <1>1, <1>2, <1>6, IdleOK, ConsumerLeaves, Zenon DEF Inv
<1> QED BY <1>1, <1>5, <1>7, Frame, Zenon DEF Inv, Gentle, r2

\* A consumer's isolate dies.
LEMMA KeepsConsumerDies ==
  ASSUME Inv, NEW p \in Consumer, ConsumerDies(p)
  PROVE  Inv' /\ Gentle
<1> DEFINE m == HandedBack(msgs[cons[p].slot])
<1>1. /\ cons[p] # Idle /\ Trouble /\ cons' = [cons EXCEPT ![p] = Idle]
      /\ UNCHANGED <<index, tables, r2, door, parker, lever, sweep, owed>>
  BY Zenon DEF ConsumerDies
<1>2. cons[p].pc # "idle"
  BY <1>1, Zenon DEF Inv, QueuesOK, ConsumersOK, ConsOK
<1>3. QueuesOK' /\ LettersStay
  <2>1. CASE cons[p].pc = "delete"
    <3>1. msgs' = msgs
      BY <2>1, Zenon DEF ConsumerDies
    <3> QED BY <1>1, <3>1, IdleOK, ConsumerMoves, Zenon DEF Inv
  <2>2. CASE cons[p].pc # "delete"
    <3>1. Holds(cons[p])
      BY <1>2, <2>2, Zenon DEF Holds
    <3>2. msgs' = [msgs EXCEPT ![cons[p].slot] = HandedBack(@)]
      BY <2>2, Zenon DEF ConsumerDies
    <3>3. cons[p].slot \in Slot /\ msgs[cons[p].slot] \in MessageType
      BY <3>1, HeldMessage, Zenon DEF Inv
    <3>4. m \in {NoMessage} \cup MessageType /\ msgs' = [msgs EXCEPT ![cons[p].slot] = m]
      BY <3>2, <3>3, HandedBackOK, Zenon DEF Inv
    <3> HIDE DEF m
    <3> QED BY <1>1, <3>1, <3>4, IdleOK, ConsumerLeaves, Zenon DEF Inv
  <2> QED BY <2>1, <2>2, Zenon
<1>4. UsedOK'
  BY <1>1, Events, Zenon DEF Inv
<1> QED BY <1>1, <1>3, <1>4, Frame, Zenon DEF Inv, Gentle, tables, r2

-----------------------------------------------------------------------------
(* The dead letter queue's consumer. *)

\* The letter a parker holds.
LEMMA ParkerLetter ==
  ASSUME Inv, NEW p \in Parker, Holds(parker[p])
  PROVE  /\ DeadCopy(p) \in Copy /\ DeadLetter(p) \in Letter /\ DeadLetter(p) = LetterOf[DeadCopy(p)]
         /\ msgs[parker[p].slot].n \in Nat /\ parker[p].slot \in Slot
<1>1. msgs[parker[p].slot] \in MessageType /\ parker[p].slot \in Slot
  BY HeldMessage, Zenon DEF Inv
<1>2. DeadCopy(p) \in Copy /\ msgs[parker[p].slot].n \in Nat
  BY <1>1, Zenon DEF DeadCopy, MessageType
<1> QED BY <1>1, <1>2, DeliveryAssumption, Zenon DEF DeadLetter

\* The delivery of a dead letter.
LEMMA KeepsTakeLetter ==
  ASSUME Inv, NEW p \in Parker, NEW s \in Slot, TakeLetter(p, s)
  PROVE  Inv' /\ Gentle
<1> DEFINE j == [pc |-> "ceiling", slot |-> s]
<1>1. /\ parker[p] = Idle /\ s \in Waiting("dlq") /\ parker' = [parker EXCEPT ![p] = j]
      /\ UNCHANGED <<index, msgs, tables, r2, door, cons, lever, sweep, owed, used>>
  BY Zenon DEF TakeLetter
<1>2. ParkerOK(j) /\ j.slot = s
  BY Zenon DEF ParkerOK
<1>3. QueuesOK' /\ LettersStay
  <2> HIDE DEF j
  <2> QED BY <1>1, <1>2, ParkerTakes, Zenon DEF Inv
<1> QED BY <1>1, <1>3, Frame, Zenon DEF Inv, Gentle, tables, r2

\* A parker that goes on with its letter, whatever it then holds beside it.
LEMMA ParkerGoes ==
  ASSUME QueuesOK, NEW p \in Parker, Holds(parker[p]), UNCHANGED <<msgs, cons>>,
         NEW j, parker' = [parker EXCEPT ![p] = j], j.slot = parker[p].slot,
         j.pc \in {"park", "plan", "ack", "reread", "lost"}
  PROVE  QueuesOK' /\ LettersStay
<1>1. ParkerOK(j)
  BY HeldMessage, Zenon DEF ParkerOK
<1> QED BY <1>1, ParkerMoves, Zenon

\* The reads of the ceiling, before the park and after one that returned no row.
LEMMA KeepsCeilingReads ==
  ASSUME Inv, NEW p \in Parker, CeilingRead(p) \/ RereadCeiling(p)
  PROVE  Inv' /\ Gentle
<1>1. /\ parker[p].pc \in {"ceiling", "reread"} /\ (Calm \/ Trouble)
      /\ UNCHANGED <<index, msgs, tables, r2, door, cons, lever, sweep, owed>>
  BY Zenon DEF CeilingRead, RereadCeiling
<1>2. Holds(parker[p]) /\ DOMAIN parker = Parker
  BY <1>1, Zenon DEF Holds, Inv, QueuesOK, ParkersOK
<1> DEFINE s == parker[p].slot
<1>3. \/ \E class, held : parker' = [parker EXCEPT ![p] =
                [pc |-> "park", slot |-> s, class |-> class, held |-> held]]
      \/ \E deferred, class : parker' = [parker EXCEPT ![p] =
                [pc |-> "plan", slot |-> s, deferred |-> deferred, class |-> class]]
      \/ \E kill : parker' = [parker EXCEPT ![p] = [pc |-> "ack", slot |-> s, kill |-> kill]]
  <2>1. CASE CeilingRead(p)
    BY <1>2, <2>1, Zenon DEF CeilingRead, NotParked
  <2>2. CASE RereadCeiling(p)
    BY <2>2, Zenon DEF RereadCeiling, NotParked, ParkedAck
  <2> QED BY <2>1, <2>2, Zenon
<1>4. ASSUME NEW j, parker' = [parker EXCEPT ![p] = j], j.slot = s, j.pc \in {"park", "plan", "ack"}
      PROVE  QueuesOK' /\ LettersStay
  BY <1>1, <1>2, <1>4, ParkerGoes, Zenon DEF Inv
<1>5. QueuesOK' /\ LettersStay
  <2>1. ASSUME NEW class, NEW held,
               parker' = [parker EXCEPT ![p] = [pc |-> "park", slot |-> s, class |-> class, held |-> held]]
        PROVE  QueuesOK' /\ LettersStay
    <3> DEFINE j == [pc |-> "park", slot |-> s, class |-> class, held |-> held]
    <3>1. parker' = [parker EXCEPT ![p] = j] /\ j.slot = s /\ j.pc \in {"park", "plan", "ack"}
      BY <2>1, Zenon
    <3> HIDE DEF j
    <3> QED BY <1>4, <3>1, Zenon
  <2>2. ASSUME NEW deferred, NEW class,
               parker' = [parker EXCEPT ![p] =
                            [pc |-> "plan", slot |-> s, deferred |-> deferred, class |-> class]]
        PROVE  QueuesOK' /\ LettersStay
    <3> DEFINE j == [pc |-> "plan", slot |-> s, deferred |-> deferred, class |-> class]
    <3>1. parker' = [parker EXCEPT ![p] = j] /\ j.slot = s /\ j.pc \in {"park", "plan", "ack"}
      BY <2>2, Zenon
    <3> HIDE DEF j
    <3> QED BY <1>4, <3>1, Zenon
  <2>3. ASSUME NEW kill, parker' = [parker EXCEPT ![p] = [pc |-> "ack", slot |-> s, kill |-> kill]]
        PROVE  QueuesOK' /\ LettersStay
    <3> DEFINE j == [pc |-> "ack", slot |-> s, kill |-> kill]
    <3>1. parker' = [parker EXCEPT ![p] = j] /\ j.slot = s /\ j.pc \in {"park", "plan", "ack"}
      BY <2>3, Zenon
    <3> HIDE DEF j
    <3> QED BY <1>4, <3>1, Zenon
  <2> QED BY <1>3, <2>1, <2>2, <2>3, Zenon
<1>6. UsedOK'
  BY <1>1, Events, Zenon DEF Inv
<1> QED BY <1>1, <1>5, <1>6, Frame, Zenon DEF Inv, Gentle, tables, r2

\* PARK_SQL.
LEMMA KeepsPark ==
  ASSUME Inv, NEW p \in Parker, Park(p)
  PROVE  Inv' /\ LettersStay
<1>1. PICK dayFull \in DayFull :
        LET w == [op |-> "park", letter |-> DeadLetter(p), copy |-> msgs[parker[p].slot].copy,
                  n |-> msgs[parker[p].slot].n, dayFull |-> dayFull]
        IN  /\ Answered(w) \/ Faulted(w)
            /\ \/ ParkedAck(p, DroppedObject(w, parker[p].held))
               \/ parker' = [parker EXCEPT ![p] = [pc |-> "reread", slot |-> @.slot, class |-> @.class]]
               \/ NotParked(p, FALSE, parker[p].class)
  BY Zenon DEF Park
<1> DEFINE w == [op |-> "park", letter |-> DeadLetter(p), copy |-> msgs[parker[p].slot].copy,
                 n |-> msgs[parker[p].slot].n, dayFull |-> dayFull]
           s == parker[p].slot
<1>2. parker[p].pc = "park" /\ UNCHANGED <<index, msgs, r2, door, cons, lever, sweep, owed>>
  BY Zenon DEF Park
<1>3. Holds(parker[p]) /\ DOMAIN parker = Parker
  BY <1>2, Zenon DEF Holds, Inv, QueuesOK, ParkersOK
<1>4. StatementOK(w)
  <2>1. DeadCopy(p) \in Copy /\ DeadLetter(p) \in Letter /\ DeadLetter(p) = LetterOf[DeadCopy(p)]
        /\ msgs[s].n \in Nat
    BY <1>3, ParkerLetter, Zenon
  <2> QED BY <2>1, Zenon DEF StatementOK, DeadCopy
<1>5. UsedOK' /\ RowsOK(rows') /\ LateOK'
  <2>1. Answered(w) \/ Faulted(w)
    BY <1>1, Zenon
  <2> HIDE DEF w
  <2> QED BY <1>4, <2>1, StatementKeeps, Zenon DEF Inv
<1>6. \/ \E kill : parker' = [parker EXCEPT ![p] = [pc |-> "ack", slot |-> s, kill |-> kill]]
      \/ \E class : parker' = [parker EXCEPT ![p] = [pc |-> "reread", slot |-> s, class |-> class]]
      \/ \E deferred, class : parker' = [parker EXCEPT ![p] =
                [pc |-> "plan", slot |-> s, deferred |-> deferred, class |-> class]]
  BY <1>1, Zenon DEF NotParked, ParkedAck
<1>7. ASSUME NEW j, parker' = [parker EXCEPT ![p] = j], j.slot = s, j.pc \in {"plan", "ack", "reread"}
      PROVE  QueuesOK' /\ LettersStay
  BY <1>2, <1>3, <1>7, ParkerGoes, Zenon DEF Inv
<1>8. QueuesOK' /\ LettersStay
  <2>1. ASSUME NEW kill, parker' = [parker EXCEPT ![p] = [pc |-> "ack", slot |-> s, kill |-> kill]]
        PROVE  QueuesOK' /\ LettersStay
    <3> DEFINE j == [pc |-> "ack", slot |-> s, kill |-> kill]
    <3>1. parker' = [parker EXCEPT ![p] = j] /\ j.slot = s /\ j.pc \in {"plan", "ack", "reread"}
      BY <2>1, Zenon
    <3> HIDE DEF j
    <3> QED BY <1>7, <3>1, Zenon
  <2>2. ASSUME NEW class, parker' = [parker EXCEPT ![p] = [pc |-> "reread", slot |-> s, class |-> class]]
        PROVE  QueuesOK' /\ LettersStay
    <3> DEFINE j == [pc |-> "reread", slot |-> s, class |-> class]
    <3>1. parker' = [parker EXCEPT ![p] = j] /\ j.slot = s /\ j.pc \in {"plan", "ack", "reread"}
      BY <2>2, Zenon
    <3> HIDE DEF j
    <3> QED BY <1>7, <3>1, Zenon
  <2>3. ASSUME NEW deferred, NEW class,
               parker' = [parker EXCEPT ![p] =
                            [pc |-> "plan", slot |-> s, deferred |-> deferred, class |-> class]]
        PROVE  QueuesOK' /\ LettersStay
    <3> DEFINE j == [pc |-> "plan", slot |-> s, deferred |-> deferred, class |-> class]
    <3>1. parker' = [parker EXCEPT ![p] = j] /\ j.slot = s /\ j.pc \in {"plan", "ack", "reread"}
      BY <2>3, Zenon
    <3> HIDE DEF j
    <3> QED BY <1>7, <3>1, Zenon
  <2> QED BY <1>6, <2>1, <2>2, <2>3, Zenon
<1> QED BY <1>2, <1>5, <1>8, Frame, Zenon DEF Inv, r2

\* The dropped copy's object goes.
LEMMA KeepsDeleteDropped ==
  ASSUME Inv, NEW p \in Parker, NEW c \in Copy, DeleteDropped(p, c)
  PROVE  Inv' /\ Gentle
<1> DEFINE j == [parker[p] EXCEPT !.kill = @ \ {c}]
<1>1. /\ parker[p].pc = "ack" /\ (Calm \/ Trouble) /\ objects' \subseteq objects
      /\ parker' = [parker EXCEPT ![p].kill = @ \ {c}]
      /\ UNCHANGED <<index, msgs, tables, touched, door, cons, lever, sweep, owed>>
  BY Zenon DEF DeleteDropped
<1>2. Holds(parker[p]) /\ DOMAIN parker = Parker
  BY <1>1, Zenon DEF Holds, Inv, QueuesOK, ParkersOK
<1>3. parker' = [parker EXCEPT ![p] = j] /\ j.pc = "ack" /\ j.slot = parker[p].slot
  BY <1>1, <1>2
<1>4. QueuesOK' /\ LettersStay
  <2> HIDE DEF j
  <2> QED BY <1>1, <1>2, <1>3, ParkerGoes, Zenon DEF Inv
<1>5. UsedOK'
  BY <1>1, Events, Zenon DEF Inv
<1>6. StoreOK'
  BY <1>1, Zenon DEF Inv, StoreOK
<1> QED BY <1>1, <1>4, <1>5, <1>6, Frame, Zenon DEF Inv, Gentle, tables

\* The ack of a letter, parked or lost.
LEMMA KeepsLetterEnds ==
  ASSUME Inv, NEW p \in Parker, AckLetter(p) \/ LoseLetter(p)
  PROVE  Inv' /\ Gentle
<1>1. /\ parker[p].pc \in {"ack", "lost"} /\ (Calm \/ Trouble) /\ objects' \subseteq objects
      /\ msgs' = [msgs EXCEPT ![parker[p].slot] = NoMessage]
      /\ parker' = [parker EXCEPT ![p] = Idle]
      /\ UNCHANGED <<index, tables, touched, door, cons, lever, sweep, owed>>
  BY Zenon DEF AckLetter, LoseLetter, r2, Calm
<1>2. Holds(parker[p])
  BY <1>1, Zenon DEF Holds
<1>3. QueuesOK' /\ LettersStay
  BY <1>1, <1>2, ParkerLeaves, Zenon DEF Inv
<1>4. UsedOK'
  BY <1>1, Events, Zenon DEF Inv
<1>5. StoreOK'
  BY <1>1, Zenon DEF Inv, StoreOK
<1> QED BY <1>1, <1>3, <1>4, <1>5, Frame, Zenon DEF Inv, Gentle, tables

\* A letter's delivery is counted: redelivered after a plan, or after its parker died.
LEMMA Redelivered ==
  ASSUME Inv, NEW p \in Parker, Holds(parker[p]), msgs' = [msgs EXCEPT ![parker[p].slot].tries = @ + 1],
         parker' = [parker EXCEPT ![p] = Idle], UNCHANGED cons
  PROVE  QueuesOK' /\ LettersStay
<1> DEFINE m == [msgs[parker[p].slot] EXCEPT !.tries = @ + 1]
<1>1. msgs[parker[p].slot] \in MessageType
  BY HeldMessage, Zenon DEF Inv
<1>2. m \in {NoMessage} \cup MessageType
  BY <1>1 DEF MessageType
<1>3. msgs' = [msgs EXCEPT ![parker[p].slot] = m]
  BY Zenon DEF Inv, QueuesOK, MsgsOK
<1> HIDE DEF m
<1> QED BY <1>2, <1>3, ParkerLeaves, Zenon DEF Inv

\* The plan of a letter not parked.
LEMMA KeepsHandBackOrLose ==
  ASSUME Inv, NEW p \in Parker, HandBackOrLose(p)
  PROVE  Inv' /\ Gentle
<1> DEFINE j == [pc |-> "lost", slot |-> parker[p].slot, deferred |-> parker[p].deferred]
<1>1. /\ parker[p].pc = "plan" /\ owed' \subseteq owed
      /\ UNCHANGED <<index, tables, r2, door, cons, lever, sweep, used>>
  BY Zenon DEF HandBackOrLose, GiveUp
<1>2. \/ /\ msgs' = [msgs EXCEPT ![parker[p].slot].tries = @ + 1]
         /\ parker' = [parker EXCEPT ![p] = Idle]
      \/ UNCHANGED msgs /\ parker' = [parker EXCEPT ![p] = j]
  BY Zenon DEF HandBackOrLose
<1>3. Holds(parker[p]) /\ j.slot = parker[p].slot /\ j.pc = "lost"
  BY <1>1, Zenon DEF Holds
<1>4. QueuesOK' /\ LettersStay
  <2> HIDE DEF j
  <2>1. CASE UNCHANGED msgs /\ parker' = [parker EXCEPT ![p] = j]
    BY <1>1, <1>3, <2>1, ParkerGoes, Zenon DEF Inv
  <2>2. CASE /\ msgs' = [msgs EXCEPT ![parker[p].slot].tries = @ + 1]
             /\ parker' = [parker EXCEPT ![p] = Idle]
    BY <1>1, <1>3, <2>2, Redelivered, Zenon
  <2> QED BY <1>2, <2>1, <2>2, Zenon
<1>5. StoreOK'
  BY <1>1, Zenon DEF Inv, StoreOK, r2
<1> QED BY <1>1, <1>4, <1>5, Frame, Zenon DEF Inv, Gentle, tables

\* A parker's isolate dies.
LEMMA KeepsParkerDies ==
  ASSUME Inv, NEW p \in Parker, ParkerDies(p)
  PROVE  Inv' /\ Gentle
<1>1. /\ parker[p] # Idle /\ Trouble /\ parker' = [parker EXCEPT ![p] = Idle] /\ owed' \subseteq owed
      /\ UNCHANGED <<index, tables, r2, door, cons, lever, sweep>>
  BY Zenon DEF ParkerDies, GiveUp
<1>2. \/ msgs' = [msgs EXCEPT ![parker[p].slot].tries = @ + 1]
      \/ msgs' = [msgs EXCEPT ![parker[p].slot] = NoMessage]
  BY Zenon DEF ParkerDies
<1>3. Holds(parker[p])
  BY <1>1, Zenon DEF Inv, QueuesOK, ParkersOK, ParkerOK, Holds
<1>4. QueuesOK' /\ LettersStay
  <2>1. CASE msgs' = [msgs EXCEPT ![parker[p].slot].tries = @ + 1]
    BY <1>1, <1>3, <2>1, Redelivered, Zenon
  <2>2. CASE msgs' = [msgs EXCEPT ![parker[p].slot] = NoMessage]
    BY <1>1, <1>3, <2>2, ParkerLeaves, Zenon DEF Inv
  <2> QED BY <1>2, <2>1, <2>2, Zenon
<1>5. StoreOK'
  BY <1>1, Zenon DEF Inv, StoreOK, r2
<1>6. UsedOK'
  BY <1>1, Events, Zenon DEF Inv
<1> QED BY <1>1, <1>4, <1>5, <1>6, Frame, Zenon DEF Inv, Gentle, tables

-----------------------------------------------------------------------------
(* The levers, the sweep and the environment. *)

\* A lever goes to its next row, or is done.
LEMMA NextRowKeeps ==
  ASSUME Inv, NEW l \in Lever, NEW todo \in SUBSET (Letter \X Nat), NextRow(l, todo)
  PROVE  LeversOK'
<1> DEFINE j == [pc |-> "claim", todo |-> todo]
<1>1. lever' = [lever EXCEPT ![l] = Idle] \/ lever' = [lever EXCEPT ![l] = j]
  BY Zenon DEF NextRow
<1>2. LeverOK(j)
  BY Zenon DEF LeverOK
<1> HIDE DEF j
<1> QED BY <1>1, <1>2, IdleOK, LeverMoves, Zenon

\* The re-drives of an hour ago go back to the parked set.
LEMMA KeepsStaleReturn ==
  ASSUME Inv, NEW S \in SUBSET Letter, StaleReturn(S)
  PROVE  Inv' /\ Gentle
<1>1. /\ S \subseteq Redriven
      /\ rows' = [k \in Letter |-> IF k \in S THEN [rows[k] EXCEPT !.status = "parked"] ELSE rows[k]]
      /\ UNCHANGED <<index, msgs, late, r2, handlers, owed, used>>
  BY Zenon DEF StaleReturn
<1>2. ASSUME NEW k \in Letter
      PROVE  /\ rows'[k] \in RowType
             /\ rows'[k].status \in WithBytes => k \in Held(rows) /\ rows'[k].copy = rows[k].copy
  <2>1. CASE k \in S
    <3>1. rows[k].status = "redriven" /\ k \in Held(rows)
      BY <1>1, <2>1, Zenon DEF Redriven, Held, WithBytes
    <3>2. rows[k] \in WithBytesRow
      BY <3>1, RowShape, Zenon DEF Inv, Held
    <3>3. rows'[k] = [rows[k] EXCEPT !.status = "parked"]
      BY <1>1, <2>1, Zenon
    <3>4. rows'[k] \in WithBytesRow /\ rows'[k].copy = rows[k].copy
      BY <3>2, <3>3, Zenon DEF WithBytesRow, WithBytes
    <3> QED BY <3>1, <3>4, Zenon DEF RowType
  <2>2. CASE k \notin S
    <3>1. rows'[k] = rows[k]
      BY <1>1, <2>2, Zenon
    <3> QED BY <3>1, Zenon DEF Inv, RowsOK, OwnBytes, Held
  <2> QED BY <2>1, <2>2, Zenon
<1>3. rows' \in [Letter -> RowType]
  BY <1>1, <1>2, Zenon
<1>4. RowsOK(rows') /\ Fewer(rows', rows)
  <2>1. Held(rows') \subseteq Held(rows) /\ \A k \in Held(rows') : k \in Letter /\ rows'[k].copy = rows[k].copy
    BY <1>2, Zenon DEF Held
  <2>2. \A k \in Held(rows') : LetterOf[rows'[k].copy] = k
    BY <2>1, Zenon DEF Inv, RowsOK, OwnBytes
  <2> QED BY <1>3, <2>1, <2>2, Zenon DEF RowsOK, OwnBytes, Fewer
<1> QED BY <1>1, <1>4, Frame, Zenon DEF Inv, Gentle, handlers, r2

\* A row with bytes has them, and a count of its re-drives.
LEMMA HeldRow ==
  ASSUME Inv, NEW k \in Letter, rows[k].status \in WithBytes
  PROVE  rows[k].copy \in Copy /\ rows[k].redrives \in Nat
BY RowShape, Zenon DEF Inv, WithBytesRow

\* The lever's read of the parked letters.
LEMMA KeepsSelectParked ==
  ASSUME Inv, NEW l \in Lever, NEW S \in SUBSET Letter, SelectParked(l, S)
  PROVE  Inv' /\ Gentle
<1> DEFINE todo == {<<k, rows[k].redrives>> : k \in S}
           j == [pc |-> "claim", todo |-> todo]
<1>1. /\ \A k \in S : rows[k].status = "parked"
      /\ lever' = [lever EXCEPT ![l] = j]
      /\ UNCHANGED <<index, msgs, tables, r2, door, cons, parker, sweep, owed, used>>
  BY Zenon DEF SelectParked
<1>2. \A k \in S : rows[k].redrives \in Nat
  BY <1>1, HeldRow, Zenon DEF WithBytes
<1>3. todo \subseteq Letter \X Nat
  BY <1>2
<1>4. LeversOK'
  <2> HIDE DEF todo
  <2>1. LeverOK(j)
    BY <1>3, Zenon DEF LeverOK
  <2> HIDE DEF j
  <2> QED BY <1>1, <2>1, LeverMoves, Zenon
<1> QED BY <1>1, <1>4, Frame, Zenon DEF Inv, Gentle, tables, r2

\* CLAIM_SQL.
LEMMA KeepsClaim ==
  ASSUME Inv, NEW l \in Lever, NEW k, NEW r, Claim(l, k, r)
  PROVE  Inv' /\ Gentle
<1> DEFINE w == [op |-> "claim", letter |-> k, redrives |-> r]
           rest == lever[l].todo \ {<<k, r>>}
           j == [pc |-> "send", todo |-> rest, letter |-> k, n |-> r + 1, copy |-> rows[k].copy]
<1>1. /\ lever[l].pc = "claim" /\ <<k, r>> \in lever[l].todo
      /\ Answered(w) \/ Faulted(w)
      /\ \/ Claims(rows, w) /\ lever' = [lever EXCEPT ![l] = j]
         \/ NextRow(l, rest)
      /\ UNCHANGED <<index, msgs, r2, door, cons, parker, sweep, owed>>
  BY Zenon DEF Claim
<1>2. lever[l].todo \subseteq Letter \X Nat
  BY <1>1, Zenon DEF Inv, LeversOK, LeverOK
<1>3. k \in Letter /\ r \in Nat /\ rest \in SUBSET (Letter \X Nat)
  BY <1>1, <1>2, Zenon
<1>4. StatementOK(w) /\ w.op # "park"
  BY <1>3, Zenon DEF StatementOK
<1>5. UsedOK' /\ RowsOK(rows') /\ LateOK' /\ Fewer(rows', rows)
  <2> HIDE DEF w
  <2> QED BY <1>1, <1>4, StatementKeeps, Zenon DEF Inv
<1>6. LeversOK'
  <2>1. CASE NextRow(l, rest)
    <3> HIDE DEF rest
    <3> QED BY <1>3, <2>1, NextRowKeeps, Zenon
  <2>2. CASE Claims(rows, w) /\ lever' = [lever EXCEPT ![l] = j]
    <3>1. rows[k].status \in WithBytes
      BY <2>2, Zenon DEF Claims, WithBytes
    <3>2. rows[k].copy \in Copy
      BY <1>3, <3>1, HeldRow, Zenon
    <3>3. LeverOK(j)
      <4> HIDE DEF rest
      <4> QED BY <1>3, <3>2 DEF LeverOK
    <3> HIDE DEF j
    <3> QED BY <2>2, <3>3, LeverMoves, Zenon
  <2> QED BY <1>1, <2>1, <2>2, Zenon
<1> QED BY <1>1, <1>5, <1>6, Frame, Zenon DEF Inv, Gentle, r2

\* The send of the claimed bytes.
LEMMA KeepsRedrive ==
  ASSUME Inv, NEW l \in Lever, Redrive(l)
  PROVE  Inv' /\ Gentle
<1> DEFINE m == Message(lever[l].copy, lever[l].n)
           j == [lever[l] EXCEPT !.pc = "revert"]
<1>1. /\ lever[l].pc = "send" /\ (Calm \/ Trouble)
      /\ UNCHANGED msgs \/ Post(m)
      /\ NextRow(l, lever[l].todo) \/ lever' = [lever EXCEPT ![l].pc = "revert"]
      /\ UNCHANGED <<index, tables, r2, door, cons, parker, sweep, owed>>
  BY Zenon DEF Redrive
<1>2. /\ lever[l].todo \in SUBSET (Letter \X Nat) /\ lever[l].letter \in Letter
      /\ lever[l].n \in Nat \ {0} /\ lever[l].copy \in Copy /\ DOMAIN lever = Lever
  BY <1>1, Zenon DEF Inv, LeversOK, LeverOK
<1>3. m \in MessageType
  BY <1>2, MessageOK, Zenon DEF Inv
<1>4. QueuesOK' /\ LettersStay
  <2> HIDE DEF m
  <2> QED BY <1>1, <1>3, QueuesPost, Frame, Zenon DEF Inv
<1>5. LeversOK'
  <2>1. CASE NextRow(l, lever[l].todo)
    BY <1>2, <2>1, NextRowKeeps, Zenon
  <2>2. CASE lever' = [lever EXCEPT ![l].pc = "revert"]
    <3>1. lever' = [lever EXCEPT ![l] = j]
      BY <1>2, <2>2, Zenon
    <3>2. /\ j.pc = "revert" /\ j.todo = lever[l].todo /\ j.letter = lever[l].letter
          /\ j.n = lever[l].n /\ j.copy = lever[l].copy
      BY <1>1
    <3>3. LeverOK(j)
      <4> HIDE DEF j
      <4> QED BY <1>2, <3>2, Zenon DEF LeverOK
    <3> HIDE DEF j
    <3> QED BY <3>1, <3>3, LeverMoves, Zenon
  <2> QED BY <1>1, <2>1, <2>2, Zenon
<1>6. UsedOK'
  BY <1>1, Events, Zenon DEF Inv
<1> QED BY <1>1, <1>4, <1>5, <1>6, Frame, Zenon DEF Inv, Gentle, tables, r2

\* REVERT_SQL.
LEMMA KeepsRevertClaim ==
  ASSUME Inv, NEW l \in Lever, RevertClaim(l)
  PROVE  Inv' /\ Gentle
<1> DEFINE w == [op |-> "revert", letter |-> lever[l].letter, redrives |-> lever[l].n]
<1>1. /\ lever[l].pc = "revert" /\ (Answered(w) \/ Faulted(w)) /\ NextRow(l, lever[l].todo)
      /\ UNCHANGED <<index, msgs, r2, door, cons, parker, sweep, owed>>
  BY Zenon DEF RevertClaim
<1>2. /\ lever[l].todo \in SUBSET (Letter \X Nat) /\ lever[l].letter \in Letter
      /\ lever[l].n \in Nat \ {0}
  BY <1>1, Zenon DEF Inv, LeversOK, LeverOK
<1>3. StatementOK(w) /\ w.op # "park"
  BY <1>2, Zenon DEF StatementOK
<1>4. UsedOK' /\ RowsOK(rows') /\ LateOK' /\ Fewer(rows', rows)
  <2> HIDE DEF w
  <2> QED BY <1>1, <1>3, StatementKeeps, Zenon DEF Inv
<1>5. LeversOK'
  BY <1>1, <1>2, NextRowKeeps, Zenon
<1> QED BY <1>1, <1>4, <1>5, Frame, Zenon DEF Inv, Gentle, r2

\* internal_discard: the row.
LEMMA KeepsDiscard ==
  ASSUME Inv, NEW l \in Lever, NEW k \in Letter, Discard(l, k)
  PROVE  Inv' /\ Gentle
<1> DEFINE j == [pc |-> "discarded", copy |-> rows[k].copy]
<1>1. /\ rows[k].status = "parked" /\ rows' = [rows EXCEPT ![k] = NoRow] /\ owed' \subseteq owed
      /\ Use([used EXCEPT !.discards = @ + 1])
      /\ lever' = [lever EXCEPT ![l] = Idle] \/ lever' = [lever EXCEPT ![l] = j]
      /\ UNCHANGED <<index, msgs, late, r2, door, cons, parker, sweep>>
  BY Zenon DEF Discard, GiveUp
<1>2. rows[k].copy \in Copy
  BY <1>1, HeldRow, Zenon DEF WithBytes
<1>3. IsPut(rows', rows, k, NoRow)
  BY <1>1, Zenon DEF IsPut
<1>4. RowsOK(rows') /\ Fewer(rows', rows)
  BY <1>3, ResolveRows, Zenon DEF Inv
<1>5. LeversOK'
  <2>1. LeverOK(j)
    BY <1>2, Zenon DEF LeverOK
  <2> HIDE DEF j
  <2> QED BY <1>1, <2>1, IdleOK, LeverMoves, Zenon
<1>6. UsedOK'
  BY <1>1 DEF Inv, UsedOK, Used, Use
<1>7. StoreOK'
  BY <1>1, Zenon DEF Inv, StoreOK, r2
<1> QED BY <1>1, <1>4, <1>5, <1>6, <1>7, Frame, Zenon DEF Inv, Gentle

\* internal_discard: the object; and a lever that dies.
LEMMA KeepsLeverEnds ==
  ASSUME Inv, NEW l \in Lever, DeleteDiscarded(l) \/ LeverDies(l)
  PROVE  Inv' /\ Gentle
<1>1. /\ (Calm \/ Trouble) /\ objects' \subseteq objects /\ lever' = [lever EXCEPT ![l] = Idle]
      /\ UNCHANGED <<index, msgs, tables, touched, door, cons, parker, sweep, owed>>
  BY Zenon DEF DeleteDiscarded, LeverDies, r2
<1>2. LeversOK'
  BY <1>1, IdleOK, LeverMoves, Zenon
<1>3. UsedOK'
  BY <1>1, Events, Zenon DEF Inv
<1>4. StoreOK'
  BY <1>1, Zenon DEF Inv, StoreOK
<1> QED BY <1>1, <1>2, <1>3, <1>4, Frame, Zenon DEF Inv, Gentle, tables

\* The orphan sweep.
LEMMA KeepsSweep ==
  ASSUME Inv, (\E c \in Copy : PlanSweep(c)) \/ HeadOrphan \/ DeleteOrphan
  PROVE  Inv' /\ Gentle
<1>1. /\ objects' \subseteq objects
      /\ UNCHANGED <<index, msgs, tables, door, cons, parker, lever, owed, used>>
  BY Zenon DEF PlanSweep, HeadOrphan, DeleteOrphan, r2
<1>2. StoreOK'
  BY <1>1, Zenon DEF Inv, StoreOK
<1> QED BY <1>1, <1>2, Frame, Zenon DEF Inv, Gentle, tables

\* A statement told faulted lands.
LEMMA KeepsLandLate ==
  ASSUME Inv, NEW w \in late, LandLate(w)
  PROVE  Inv' /\ LettersStay /\ (w.op # "park" => Fewer(rows', rows))
<1>1. /\ rows' = Exec(rows, w) /\ late' = late \ {w}
      /\ UNCHANGED <<index, msgs, r2, handlers, owed, used>>
  BY Zenon DEF LandLate
<1>2. StatementOK(w)
  BY Zenon DEF Inv, LateOK
<1>3. RowsOK(rows') /\ (w.op # "park" => Fewer(rows', rows))
  BY <1>1, <1>2, ExecRows, Zenon DEF Inv
<1>4. LateOK'
  BY <1>1, Zenon DEF Inv, LateOK
<1> QED BY <1>1, <1>3, <1>4, Frame, Zenon DEF Inv, handlers, r2

\* Days pass, a message expires, an eviction opens or a proof readmits.
LEMMA KeepsEnvironment ==
  ASSUME Inv, Tick \/ (\E s \in Slot : Expire(s)) \/ (\E t \in Txid : Evict(t) \/ Readmit(t))
  PROVE  Inv' /\ Gentle
<1>1. CASE Tick
  <2>1. UNCHANGED <<index, msgs, tables, r2, handlers, owed>>
    BY <1>1, Zenon DEF Tick
  <2>2. UsedOK'
    BY <1>1 DEF Tick, Inv, UsedOK, Used, Use
  <2> QED BY <2>1, <2>2, Frame, Zenon DEF Inv, Gentle, handlers, tables, r2
<1>2. ASSUME NEW s \in Slot, Expire(s) PROVE Inv' /\ Gentle
  <2>1. /\ ~InHandler(s) /\ msgs' = [msgs EXCEPT ![s] = NoMessage] /\ owed' \subseteq owed
        /\ UNCHANGED <<index, tables, r2, handlers, used>>
    BY <1>2, Zenon DEF Expire, GiveUp
  <2>2. QueuesOK' /\ LettersStay
    BY <2>1, QueuesExpire, Zenon DEF Inv, handlers
  <2>3. StoreOK'
    BY <2>1, Zenon DEF Inv, StoreOK, r2
  <2> QED BY <2>1, <2>2, <2>3, Frame, Zenon DEF Inv, Gentle, handlers, tables
<1>3. ASSUME NEW t \in Txid, Evict(t) PROVE Inv' /\ Gentle
  <2>1. /\ evicted' = evicted \cup {t} /\ MoveAside(t) /\ Use([used EXCEPT !.evictions = @ + 1])
        /\ UNCHANGED <<msgs, tables, r2, handlers, owed>>
    BY <1>3, Zenon DEF Evict
  <2>2. IndexOK'
    BY <2>1, MoveKeeps, Zenon DEF Inv, IndexOK
  <2>3. UsedOK'
    BY <2>1 DEF Inv, UsedOK, Used, Use
  <2> QED BY <2>1, <2>2, <2>3, Frame, Zenon DEF Inv, Gentle, handlers, tables, r2
<1>4. ASSUME NEW t \in Txid, Readmit(t) PROVE Inv' /\ Gentle
  <2>1. /\ evicted' \subseteq evicted /\ landed' \subseteq landed \cup twin /\ twin' \subseteq twin
        /\ UNCHANGED <<msgs, tables, r2, handlers, owed, used>>
    BY <1>4, Zenon DEF Readmit
  <2>2. IndexOK'
    BY <2>1, Zenon DEF Inv, IndexOK
  <2> QED BY <2>1, <2>2, Frame, Zenon DEF Inv, Gentle, handlers, tables, r2
<1> QED BY <1>1, <1>2, <1>3, <1>4, Zenon

-----------------------------------------------------------------------------
(* The invariant. *)

\* The steps of everyone but a parker and a late statement.
Others ==
  \/ \E d \in Door : DoorStep(d) \/ \E c \in Copy : Present(d, c)
  \/ \E p \in Consumer : ConsumerStep(p) \/ ConsumerDies(p)
  \/ \E l \in Lever : \/ LeverStep(l) \/ LeverDies(l)
                      \/ \E S \in SUBSET Letter : SelectParked(l, S)
                      \/ \E k \in Letter : Discard(l, k)
  \/ \E S \in SUBSET Letter : StaleReturn(S)
  \/ (\E c \in Copy : PlanSweep(c)) \/ HeadOrphan \/ DeleteOrphan
  \/ Tick \/ (\E s \in Slot : Expire(s))
  \/ \E t \in Txid : Evict(t) \/ Readmit(t)

\* None of them parks, or touches a letter that a parker holds.
LEMMA OthersKeep ==
  ASSUME Inv, Others
  PROVE  Inv' /\ Gentle /\ UNCHANGED parker
<1>1. ASSUME NEW d \in Door, DoorStep(d) \/ \E c \in Copy : Present(d, c)
      PROVE  Inv' /\ Gentle /\ UNCHANGED parker
  <2>1. Inv' /\ Gentle
    BY <1>1, KeepsPresent, KeepsWriteThrough, KeepsGuardWrite, KeepsPutBeef, KeepsSendReplay, Zenon DEF DoorStep
  <2>2. UNCHANGED parker
    BY <1>1, Zenon DEF DoorStep, Present, WriteThrough, GuardWrite, PutBeef, SendReplay
  <2> QED BY <2>1, <2>2, Zenon
<1>2. ASSUME NEW p \in Consumer, ConsumerStep(p) \/ ConsumerDies(p)
      PROVE  Inv' /\ Gentle /\ UNCHANGED parker
  <2>1. Inv' /\ Gentle
    BY <1>2, KeepsTakeMutation, KeepsReads, KeepsReplay, KeepsGuard, KeepsResolve, KeepsAckMutation,
       KeepsDeleteBeefs, KeepsNoteAndRetry, KeepsConsumerDies, Zenon DEF ConsumerStep
  <2>2. UNCHANGED parker
    BY <1>2, Zenon DEF ConsumerStep, TakeMutation, ReadForReplay, JudgeMissing, JudgeTwin, ReadLedger,
       Replay, Guard, Resolve, AckMutation, DeleteBeefs, NoteAndRetry, ConsumerDies
  <2> QED BY <2>1, <2>2, Zenon
<1>3. ASSUME NEW l \in Lever,
             \/ LeverStep(l) \/ LeverDies(l)
             \/ \E S \in SUBSET Letter : SelectParked(l, S)
             \/ \E k \in Letter : Discard(l, k)
      PROVE  Inv' /\ Gentle /\ UNCHANGED parker
  <2>1. Inv' /\ Gentle
    BY <1>3, KeepsClaim, KeepsRedrive, KeepsRevertClaim, KeepsDiscard, KeepsSelectParked, KeepsLeverEnds, Zenon DEF LeverStep
  <2>2. UNCHANGED parker
    BY <1>3, Zenon DEF LeverStep, Claim, Redrive, RevertClaim, DeleteDiscarded, LeverDies, SelectParked, Discard
  <2> QED BY <2>1, <2>2, Zenon
<1>4. ASSUME NEW S \in SUBSET Letter, StaleReturn(S) PROVE Inv' /\ Gentle /\ UNCHANGED parker
  BY <1>4, KeepsStaleReturn, Zenon DEF StaleReturn, handlers
<1>5. CASE (\E c \in Copy : PlanSweep(c)) \/ HeadOrphan \/ DeleteOrphan
  BY <1>5, KeepsSweep, Zenon DEF PlanSweep, HeadOrphan, DeleteOrphan
<1>6. CASE Tick \/ (\E s \in Slot : Expire(s)) \/ (\E t \in Txid : Evict(t) \/ Readmit(t))
  BY <1>6, KeepsEnvironment, Zenon DEF Tick, Expire, Evict, Readmit, handlers
<1> QED BY <1>1, <1>2, <1>3, <1>4, <1>5, <1>6, Zenon DEF Others

\* Every step is one of those, a parker's, or a late statement's.
LEMMA WhoSteps ==
  ASSUME Next
  PROVE  \/ Others
         \/ \E p \in Parker : ParkerStep(p) \/ ParkerDies(p)
         \/ \E w \in late : LandLate(w)
BY Zenon DEF Next, Others

\* A parker's steps.
LEMMA ParkersKeep ==
  ASSUME Inv, NEW p \in Parker, ParkerStep(p) \/ ParkerDies(p)
  PROVE  Inv' /\ LettersStay /\ (Fewer(rows', rows) \/ Park(p))
<1>1. CASE Park(p)
  BY <1>1, KeepsPark, Zenon
<1>2. CASE ~Park(p)
  BY <1>2, KeepsTakeLetter, KeepsCeilingReads, KeepsDeleteDropped, KeepsLetterEnds, KeepsHandBackOrLose,
     KeepsParkerDies, Zenon DEF ParkerStep, Gentle
<1> QED BY <1>1, <1>2, Zenon

\* The invariant holds at the start.
LEMMA InvInit == Init => Inv
<1> SUFFICES ASSUME Init PROVE Inv
  BY Zenon
<1>1. IndexOK /\ StoreOK /\ LateOK
  BY Zenon DEF Init, IndexOK, StoreOK, LateOK
<1>2. UsedOK
  BY Zenon DEF Init, UsedOK, Used
<1>3. RowsOK(rows)
  BY Zenon DEF Init, RowsOK, OwnBytes, RowType, Held, NoRow, WithBytes
<1>4. DoorsOK /\ LeversOK /\ ConsumersOK /\ ParkersOK
  BY IdleOK, Zenon DEF Init, DoorsOK, LeversOK, ConsumersOK, ParkersOK
<1>5. MsgsOK
  BY Zenon DEF Init, MsgsOK
<1>6. HeldOnce
  BY IdleOK, Zenon DEF Init, HeldOnce
<1> QED BY <1>1, <1>2, <1>3, <1>4, <1>5, <1>6, Zenon DEF Inv, QueuesOK

\* The invariant is inductive.
LEMMA InvStep == Inv /\ [Next]_vars => Inv'
<1> SUFFICES ASSUME Inv, [Next]_vars PROVE Inv'
  BY Zenon
<1>1. CASE UNCHANGED vars
  BY <1>1, Frame, Zenon DEF vars, Inv, index
<1>2. CASE Others
  BY <1>2, OthersKeep, Zenon
<1>3. ASSUME NEW p \in Parker, ParkerStep(p) \/ ParkerDies(p) PROVE Inv'
  BY <1>3, ParkersKeep, Zenon
<1>4. ASSUME NEW w \in late, LandLate(w) PROVE Inv'
  BY <1>4, KeepsLandLate, Zenon
<1> QED BY <1>1, <1>2, <1>3, <1>4, WhoSteps, Zenon

\* The invariant holds of every behaviour.
LEMMA InvHolds == Spec => []Inv
BY InvInit, InvStep, PTL DEF Spec

\* Every message names a copy; a consumer (queue.rs) or a parker (dead_letters.rs)
\* in flight holds a message that is still in its queue and that no other holds,
\* so none goes on with what another acked; and a dead letter's row holds bytes of
\* its own letter: for any number of handlers, levers and messages, whatever
\* faults, dies, lands late or is evicted.
THEOREM EachHoldsItsOwn == Spec => [](TypeOK /\ HeldOnce /\ OwnBytes(rows))
<1>1. Inv => TypeOK
  <2> SUFFICES ASSUME Inv PROVE TypeOK
    BY Zenon
  <2>1. \A s \in Slot : msgs[s] = NoMessage \/ msgs[s] \in MessageType
    BY Zenon DEF Inv, QueuesOK, MsgsOK
  <2>2. \A k \in Letter : rows[k] = NoRow \/ rows[k] \in Failing \/ rows[k] \in WithBytesRow
    BY Zenon DEF Inv, RowsOK, OwnBytes, RowType
  <2>3. /\ landed \cup twin \subseteq Letter /\ evicted \subseteq Txid
        /\ objects \subseteq Keyed /\ owed \subseteq Copy /\ used \in Used
    BY Zenon DEF Inv, IndexOK, StoreOK, UsedOK
  <2> QED BY <2>1, <2>2, <2>3, Zenon DEF TypeOK, MessageType, Failing, WithBytesRow, Used
<1>2. Inv => HeldOnce /\ OwnBytes(rows)
  BY Zenon DEF Inv, QueuesOK, RowsOK, OwnBytes
<1> QED BY <1>1, <1>2, InvHolds, PTL

-----------------------------------------------------------------------------
(* The object a park deletes as the lighter copy's. *)

\* The dead letter queue has one consumer (wrangler.toml, max_concurrency = 1).
OneParker == \A p, q \in Parker : p = q

\* A parker about to park knows the object its letter's row names, and one about
\* to delete deletes what no row names.
DropOK(p) ==
  /\ parker[p].pc = "park" /\ DeadLetter(p) \in Held(rows)
       => parker[p].held = ObjectOf(rows[DeadLetter(p)])
  /\ parker[p].pc = "ack" => parker[p].kill \cap Named = {}

Drops == \A p \in Parker : DropOK(p)

\* Rows that hold no new bytes name no new object.
LEMMA FewerNamed ==
  ASSUME Fewer(rows', rows)
  PROVE  /\ Named' \subseteq Named
         /\ \A k \in Held(rows') : ObjectOf(rows'[k]) = ObjectOf(rows[k])
<1>1. \A k \in Held(rows') : k \in Letter /\ k \in Held(rows) /\ ObjectOf(rows'[k]) = ObjectOf(rows[k])
  BY Zenon DEF Fewer, Held, ObjectOf
<1>2. \A k \in Letter \ Held(rows') : ObjectOf(rows'[k]) = {}
  BY Zenon DEF Held, ObjectOf
<1> QED BY <1>1, <1>2, Zenon DEF Named

\* A step that leaves a parker where it is, and parks nothing, keeps what it knows.
LEMMA DropsGentle ==
  ASSUME Inv, NEW p \in Parker, DropOK(p), Fewer(rows', rows), LettersStay, parker'[p] = parker[p]
  PROVE  DropOK(p)'
<1>1. CASE parker[p].pc = "ack"
  BY <1>1, FewerNamed, Zenon DEF DropOK
<1>2. CASE parker[p].pc = "park"
  <2>1. Holds(parker[p])
    BY <1>2, Zenon DEF Holds
  <2>2. DeadLetter(p)' = DeadLetter(p)
    BY <2>1, Zenon DEF LettersStay, DeadLetter, DeadCopy
  <2>3. DeadLetter(p) \in Held(rows') => DeadLetter(p) \in Held(rows)
    BY Zenon DEF Fewer
  <2> QED BY <1>2, <2>2, <2>3, FewerNamed, Zenon DEF DropOK
<1> QED BY <1>1, <1>2, Zenon DEF DropOK

\* The park itself: the copy not kept is named by no row.
LEMMA DropsPark ==
  ASSUME Inv, NEW p \in Parker, DropOK(p), Park(p)
  PROVE  DropOK(p)'
<1>1. PICK dayFull \in DayFull :
        LET w == [op |-> "park", letter |-> DeadLetter(p), copy |-> msgs[parker[p].slot].copy,
                  n |-> msgs[parker[p].slot].n, dayFull |-> dayFull]
        IN  \/ Answered(w) /\ Parks(rows, w) /\ ParkedAck(p, DroppedObject(w, parker[p].held))
            \/ parker' = [parker EXCEPT ![p] = [pc |-> "reread", slot |-> @.slot, class |-> @.class]]
            \/ NotParked(p, FALSE, parker[p].class)
  BY Zenon DEF Park
<1> DEFINE k == DeadLetter(p)
           c == DeadCopy(p)
           held == parker[p].held
           w == [op |-> "park", letter |-> k, copy |-> msgs[parker[p].slot].copy,
                 n |-> msgs[parker[p].slot].n, dayFull |-> dayFull]
<1>2. parker[p].pc = "park" /\ DOMAIN parker = Parker
  BY Zenon DEF Park, Inv, QueuesOK, ParkersOK
<1>3. c \in Copy /\ k \in Letter /\ k = LetterOf[c] /\ msgs[parker[p].slot].n \in Nat
  <2>1. Holds(parker[p])
    BY <1>2, Zenon DEF Holds
  <2> QED BY <2>1, ParkerLetter, Zenon
<1>4. StatementOK(w) /\ w.op = "park" /\ w.letter = k /\ w.copy = c
  BY <1>3, Zenon DEF StatementOK, DeadCopy
<1>5. CASE parker' = [parker EXCEPT ![p] = [pc |-> "reread", slot |-> @.slot, class |-> @.class]]
  <2>1. parker'[p].pc = "reread"
    BY <1>2, <1>5, Zenon
  <2> QED BY <2>1, Zenon DEF DropOK
<1>6. CASE NotParked(p, FALSE, parker[p].class)
  <2>1. parker'[p].pc = "plan"
    BY <1>2, <1>6, Zenon DEF NotParked
  <2> QED BY <2>1, Zenon DEF DropOK
<1>7. CASE Answered(w) /\ Parks(rows, w) /\ ParkedAck(p, DroppedObject(w, held))
  <2> DEFINE Q == Exec(rows, w)
             new == KeptNew(rows, w)
  <2>1. parker'[p].pc = "ack" /\ parker'[p].kill = DroppedObject(w, held) /\ rows' = Q
    BY <1>2, <1>7, Zenon DEF ParkedAck, Answered
  <2>2. Q = Parked(rows, w)
    BY <1>4, Zenon DEF Exec
  <2> HIDE DEF w, k, c, held
  <2>3. /\ RowsOK(Q) /\ Held(Q) = Held(rows) \cup {k}
        /\ Q[k].copy = IF new THEN c ELSE rows[k].copy
        /\ \A j \in Letter \ {k} : Q[j] = rows[j]
        /\ ~new => k \in Held(rows)
    BY <1>4, <1>7, <2>2, ParkRows DEF Inv
  <2>4. DroppedObject(w, held) =
          IF k \notin Held(rows) THEN {}
          ELSE IF new THEN held \ ({c} \cap Keyed) ELSE ({c} \cap Keyed) \ held
    BY <1>3, <1>4, Zenon DEF DroppedObject, Held
  <2>5. k \in Held(rows) => held = {rows[k].copy} \cap Keyed
    BY <1>2, Zenon DEF DropOK, ObjectOf, Held, k, held
  <2>6. \A j \in Held(Q) : j \in Letter /\ LetterOf[Q[j].copy] = j
    BY <2>3, Zenon DEF RowsOK, OwnBytes, Held
  <2>7. \A j \in Held(rows) : j \in Letter /\ LetterOf[rows[j].copy] = j
    BY Zenon DEF Inv, RowsOK, OwnBytes, Held
  <2> HIDE DEF Q, new
  <2>8. ASSUME NEW x \in DroppedObject(w, held), NEW j \in Held(Q), x = Q[j].copy
        PROVE  FALSE
    <3>1. k \in Held(rows) /\ LetterOf[rows[k].copy] = k
      BY <2>4, <2>7, Zenon
    <3>2. CASE new
      <4>1. x = rows[k].copy /\ x # Q[k].copy
        BY <2>3, <2>4, <2>5, <3>1, <3>2, Zenon
      <4>2. LetterOf[x] = k /\ LetterOf[x] = j
        BY <2>6, <2>8, <3>1, <4>1, Zenon
      <4> QED BY <2>8, <4>1, <4>2, Zenon
    <3>3. CASE ~new
      <4>1. x = c /\ x \in Keyed /\ x # rows[k].copy
        BY <2>4, <2>5, <3>1, <3>3, Zenon
      <4>2. LetterOf[x] = j
        BY <2>6, <2>8, Zenon
      <4>3. j = k
        BY <1>3, <4>1, <4>2, Zenon
      <4> QED BY <2>3, <2>8, <3>3, <4>1, <4>3, Zenon
    <3> QED BY <3>2, <3>3, Zenon
  <2>9. Named' = UNION {ObjectOf(Q[j]) : j \in Letter}
    BY <2>1, Zenon DEF Named
  <2>10. \A x \in Named' : \E j \in Held(Q) : x = Q[j].copy
    BY <2>9, Zenon DEF ObjectOf, Held
  <2>11. parker'[p].kill \cap Named' = {}
    BY <2>1, <2>8, <2>10, Zenon
  <2> QED BY <2>1, <2>11, Zenon DEF DropOK
<1> QED BY <1>1, <1>5, <1>6, <1>7, Zenon

\* A parker's other steps.
LEMMA DropsParker ==
  ASSUME Inv, NEW p \in Parker, DropOK(p), ParkerStep(p) \/ ParkerDies(p), ~Park(p)
  PROVE  DropOK(p)'
<1>1. DOMAIN parker = Parker
  BY Zenon DEF Inv, QueuesOK, ParkersOK
<1>2. ASSUME NEW s \in Slot, TakeLetter(p, s) PROVE DropOK(p)'
  <2>1. parker'[p].pc = "ceiling"
    BY <1>1, <1>2, Zenon DEF TakeLetter
  <2> QED BY <2>1, Zenon DEF DropOK
<1>3. CASE CeilingRead(p)
  <2>1. UNCHANGED <<msgs, rows>> /\ parker[p].pc = "ceiling"
    BY <1>3, Zenon DEF CeilingRead, tables
  <2>2. \/ /\ parker'[p].pc = "park" /\ parker'[p].slot = parker[p].slot
           /\ parker'[p].held = ObjectOf(rows[DeadLetter(p)])
        \/ parker'[p].pc = "plan"
    BY <1>1, <1>3 DEF CeilingRead, NotParked
  <2>3. CASE parker'[p].pc = "plan"
    BY <2>3, Zenon DEF DropOK
  <2>4. CASE /\ parker'[p].pc = "park" /\ parker'[p].slot = parker[p].slot
             /\ parker'[p].held = ObjectOf(rows[DeadLetter(p)])
    <3>1. DeadLetter(p)' = DeadLetter(p)
      BY <2>1, <2>4, Zenon DEF DeadLetter, DeadCopy
    <3> QED BY <2>1, <2>4, <3>1, Zenon DEF DropOK
  <2> QED BY <2>2, <2>3, <2>4, Zenon
<1>4. CASE RereadCeiling(p)
  <2>1. parker'[p].pc = "plan" \/ (parker'[p].pc = "ack" /\ parker'[p].kill = {})
    BY <1>1, <1>4 DEF RereadCeiling, NotParked, ParkedAck
  <2> QED BY <2>1, Zenon DEF DropOK
<1>5. ASSUME NEW c \in Copy, DeleteDropped(p, c) PROVE DropOK(p)'
  <2>1. /\ parker[p].pc = "ack" /\ UNCHANGED rows
        /\ parker' = [parker EXCEPT ![p].kill = @ \ {c}]
    BY <1>5, Zenon DEF DeleteDropped, tables
  <2>2. parker'[p].pc = "ack" /\ parker'[p].kill \subseteq parker[p].kill
    BY <1>1, <2>1
  <2>3. Named' = Named
    BY <2>1, Zenon DEF Named
  <2> QED BY <2>1, <2>2, <2>3, Zenon DEF DropOK
<1>6. CASE AckLetter(p) \/ LoseLetter(p) \/ ParkerDies(p)
  <2>1. parker'[p].pc = "idle"
    BY <1>1, <1>6 DEF AckLetter, LoseLetter, ParkerDies, Idle
  <2> QED BY <2>1, Zenon DEF DropOK
<1>7. CASE HandBackOrLose(p)
  <2>1. parker'[p].pc \in {"idle", "lost"}
    BY <1>1, <1>7 DEF HandBackOrLose, Idle
  <2> QED BY <2>1, Zenon DEF DropOK
<1> QED BY <1>2, <1>3, <1>4, <1>5, <1>6, <1>7, Zenon DEF ParkerStep

\* "dropped (door 3) is set to the R2 key the park left unnamed" (dead_letters.rs):
\* with one consumer of the dead letter queue, and no park that lands after it was
\* told faulted, the object a park deletes is named by no row, whatever is
\* resolved, re-driven, returned or discarded between the ceiling's read and it.
THEOREM DroppedHolds ==
  ASSUME OneParker, "park" \notin LateAnswers
  PROVE  Spec => []DroppedIsUnnamed
<1>1. Init => Drops
  BY DEF Init, Drops, DropOK, Idle
<1>2. Inv /\ Drops /\ [Next]_vars => Drops'
  <2> SUFFICES ASSUME Inv, Drops, [Next]_vars, NEW p \in Parker PROVE DropOK(p)'
    BY Zenon DEF Drops
  <2>1. DropOK(p)
    BY Zenon DEF Drops
  <2>2. CASE UNCHANGED vars
    <3>1. Fewer(rows', rows) /\ LettersStay /\ parker'[p] = parker[p]
      BY <2>2, Frame, Zenon DEF vars
    <3> QED BY <2>1, <3>1, DropsGentle, Zenon
  <2>3. CASE Others
    BY <2>1, <2>3, OthersKeep, DropsGentle, Zenon DEF Gentle
  <2>4. ASSUME NEW q \in Parker, ParkerStep(q) \/ ParkerDies(q) PROVE DropOK(p)'
    <3>1. q = p
      BY Zenon DEF OneParker
    <3> QED BY <2>1, <2>4, <3>1, DropsPark, DropsParker, Zenon
  <2>5. ASSUME NEW w \in late, LandLate(w) PROVE DropOK(p)'
    <3>1. w.op # "park"
      BY Zenon DEF Inv, LateOK
    <3>2. Fewer(rows', rows) /\ LettersStay
      BY <2>5, <3>1, KeepsLandLate, Zenon
    <3>3. parker'[p] = parker[p]
      BY <2>5, Zenon DEF LandLate, handlers
    <3> QED BY <2>1, <3>2, <3>3, DropsGentle, Zenon
  <2> QED BY <2>2, <2>3, <2>4, <2>5, WhoSteps, Zenon
<1>3. Drops => DroppedIsUnnamed
  BY Zenon DEF Drops, DropOK, DroppedIsUnnamed
<1> QED BY <1>1, <1>2, <1>3, InvHolds, PTL DEF Spec

-----------------------------------------------------------------------------
(* The ceiling. *)
INSTANCE FiniteSetTheorems

\* Fewer letters with bytes.
LEMMA FewerHeld ==
  ASSUME NEW R, NEW Q, Held(Q) \subseteq Held(R), Cardinality(Held(R)) <= PARKED_ROWS_CEILING
  PROVE  Cardinality(Held(Q)) <= PARKED_ROWS_CEILING
<1>1. IsFiniteSet(Held(R)) /\ IsFiniteSet(Held(Q))
  BY DeliveryAssumption, FS_Subset, Zenon DEF Held
<1>2. Cardinality(Held(Q)) <= Cardinality(Held(R))
  BY <1>1, FS_Subset, Zenon
<1>3. Cardinality(Held(Q)) \in Nat /\ Cardinality(Held(R)) \in Nat /\ PARKED_ROWS_CEILING \in Nat
  BY <1>1, FS_CardinalityType, DeliveryAssumption, Zenon
<1> QED BY <1>2, <1>3

\* A park goes past the ceiling neither at once nor late: its statement reads it again.
LEMMA ParkHeld ==
  ASSUME NEW R, RowsOK(R), NEW w, StatementOK(w), Cardinality(Held(R)) <= PARKED_ROWS_CEILING
  PROVE  Cardinality(Held(Exec(R, w))) <= PARKED_ROWS_CEILING
<1>1. CASE w.op # "park"
  BY <1>1, ExecRows, FewerHeld, Zenon DEF Fewer
<1>2. CASE w.op = "park" /\ ~Parks(R, w)
  BY <1>2, ParkRows, Zenon DEF Exec
<1>3. CASE w.op = "park" /\ Parks(R, w)
  <2>1. Held(Exec(R, w)) = Held(R) \cup {w.letter}
    BY <1>3, ParkRows, Zenon DEF Exec
  <2>2. w.letter \in Held(R) \/ Cardinality(Held(R)) < PARKED_ROWS_CEILING
    BY <1>3, Zenon DEF Parks, Room
  <2>3. IsFiniteSet(Held(R))
    BY DeliveryAssumption, FS_Subset, Zenon DEF Held
  <2>4. Cardinality(Held(R)) \in Nat /\ PARKED_ROWS_CEILING \in Nat
    BY <2>3, FS_CardinalityType, DeliveryAssumption, Zenon
  <2>5. CASE w.letter \in Held(R)
    <3>1. Held(R) \cup {w.letter} = Held(R)
      BY <2>5, Zenon
    <3> QED BY <2>1, <3>1, Zenon
  <2>6. CASE Cardinality(Held(R)) < PARKED_ROWS_CEILING
    <3>1. Cardinality(Held(R) \cup {w.letter}) <= Cardinality(Held(R)) + 1
      BY <2>3, <2>4, FS_AddElement
    <3>2. Cardinality(Held(R) \cup {w.letter}) \in Nat
      BY <2>3, FS_AddElement, FS_CardinalityType, Zenon
    <3> QED BY <2>1, <2>4, <2>6, <3>1, <3>2
  <2> QED BY <2>2, <2>5, <2>6, Zenon
<1> QED BY <1>1, <1>2, <1>3, Zenon

\* At most PARKED_ROWS_CEILING letters hold bytes, whatever parks at once, is told
\* faulted and lands, or lands late: PARK_SQL reads the ceiling in its own WHERE.
THEOREM HeldCeiling == Spec => []HeldWithinCeiling
<1>1. Init => HeldWithinCeiling
  <2> SUFFICES ASSUME Init PROVE HeldWithinCeiling
    BY Zenon
  <2>1. Held(rows) = {}
    BY Zenon DEF Init, Held, NoRow, WithBytes
  <2> QED BY <2>1, FS_EmptySet, DeliveryAssumption DEF HeldWithinCeiling
<1>2. Inv /\ HeldWithinCeiling /\ [Next]_vars => HeldWithinCeiling'
  <2> SUFFICES ASSUME Inv, HeldWithinCeiling, [Next]_vars PROVE HeldWithinCeiling'
    BY Zenon
  <2>1. Fewer(rows', rows) => HeldWithinCeiling'
    BY FewerHeld, Zenon DEF Fewer, HeldWithinCeiling
  <2>2. ASSUME NEW w, StatementOK(w), rows' = rows \/ rows' = Exec(rows, w) PROVE HeldWithinCeiling'
    BY <2>2, ParkHeld, Zenon DEF Inv, HeldWithinCeiling
  <2>3. CASE UNCHANGED vars
    BY <2>3, Zenon DEF vars, HeldWithinCeiling
  <2>4. CASE Others
    BY <2>1, <2>4, OthersKeep, Zenon DEF Gentle
  <2>5. ASSUME NEW p \in Parker, ParkerStep(p) \/ ParkerDies(p) PROVE HeldWithinCeiling'
    <3>1. CASE Fewer(rows', rows)
      BY <2>1, <3>1, Zenon
    <3>2. CASE Park(p)
      <4>1. PICK dayFull \in DayFull :
              LET w == [op |-> "park", letter |-> DeadLetter(p), copy |-> msgs[parker[p].slot].copy,
                        n |-> msgs[parker[p].slot].n, dayFull |-> dayFull]
              IN  Answered(w) \/ Faulted(w)
        BY <3>2, Zenon DEF Park
      <4> DEFINE w == [op |-> "park", letter |-> DeadLetter(p), copy |-> msgs[parker[p].slot].copy,
                       n |-> msgs[parker[p].slot].n, dayFull |-> dayFull]
      <4>2. Holds(parker[p])
        BY <3>2, Zenon DEF Park, Holds
      <4>3. StatementOK(w)
        <5>1. DeadCopy(p) \in Copy /\ DeadLetter(p) \in Letter /\ DeadLetter(p) = LetterOf[DeadCopy(p)]
              /\ msgs[parker[p].slot].n \in Nat
          BY <4>2, ParkerLetter, Zenon
        <5> QED BY <5>1, Zenon DEF StatementOK, DeadCopy
      <4>4. rows' = rows \/ rows' = Exec(rows, w)
        BY <4>1, Zenon DEF Answered, Faulted
      <4> HIDE DEF w
      <4> QED BY <2>2, <4>3, <4>4, Zenon
    <3> QED BY <2>5, <3>1, <3>2, ParkersKeep, Zenon
  <2>6. ASSUME NEW w \in late, LandLate(w) PROVE HeldWithinCeiling'
    BY <2>2, <2>6, Zenon DEF LandLate, Inv, LateOK
  <2> QED BY <2>3, <2>4, <2>5, <2>6, WhoSteps, Zenon
<1> QED BY <1>1, <1>2, InvHolds, PTL DEF Spec
=============================================================================
