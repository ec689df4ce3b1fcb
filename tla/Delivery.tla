------------------------------ MODULE Delivery ------------------------------
(***************************************************************************)
(* "An ack is durable" (overlay-cloudflare: queue.rs, dead_letters.rs,     *)
(* beef_blob_sweep.rs and the queue consumer of lib.rs).                   *)
(*                                                                         *)
(* /submit acks a write that faulted only once the same bytes are in the   *)
(* mutation queue.  The queue's consumer replays them; a replay that keeps *)
(* failing is dead-lettered, parked in D1 by the dead letter queue's       *)
(* consumer, and re-driven or discarded by the operator's levers.  Bytes   *)
(* past the inline room rest in R2, one object per (bytes, topics, mode),  *)
(* shared by every message of that copy and deleted with the first ack.    *)
(*                                                                         *)
(* One step is one awaited call with the code up to the next one.  D1, R2  *)
(* and the queue may refuse a call, or answer a fault for a call that      *)
(* lands nevertheless, at once or later (LostAnswers, LateAnswers).        *)
(***************************************************************************)
EXTENDS Naturals, FiniteSets

CONSTANTS
  Copy,          \* the bodies clients present: (bytes, topics, mode)
  Letter,        \* the keys of dead letters: (subject txid, topics)
  LetterOf,      \* [Copy -> Letter]
  TxidOf,        \* the subject of a letter
  Keyed,         \* the copies past the inline room: their bytes rest in R2
  Carries,       \* [Copy -> Nat], how much a copy carries (the copy rule)
  Erring,        \* the copies a topic manager may err on (no row, no fault)
  Slot,          \* the messages the queues hold at once (a bound)
  Door, Consumer, Parker, Lever,   \* concurrent invocations of each handler
  MAX_RETRIES,   \* of the mutation queue
  DLQ_MAX_RETRIES, NOT_NOW_DEFER_DELIVERIES, MAX_REDRIVES,
  PARKED_ROWS_CEILING, NOT_NOW_MAX, NOT_NOW_PER_TXID,
  DayFull,       \* subset of BOOLEAN: may NOT_NOW_PER_DAY be reached
  LostAnswers,   \* the calls that may land at once although told faulted
  LateAnswers,   \* the statements that may land later although told faulted
  QUEUE_RETENTION,
  Scenarios      \* how many of each event a run allows (bounds)

ASSUME DeliveryAssumption ==
  /\ IsFiniteSet(Letter) /\ Keyed \subseteq Copy /\ Erring \subseteq Copy
  /\ LetterOf \in [Copy -> Letter] /\ Carries \in [Copy -> Nat \ {0}]
  /\ Scenarios \subseteq [presents : [Copy -> Nat], troubles : Nat, evictions : Nat,
                           discards : Nat, clock : Nat]
  /\ DayFull \subseteq BOOLEAN
  /\ {MAX_RETRIES, DLQ_MAX_RETRIES, NOT_NOW_DEFER_DELIVERIES, MAX_REDRIVES,
      PARKED_ROWS_CEILING, NOT_NOW_MAX, NOT_NOW_PER_TXID, QUEUE_RETENTION} \subseteq Nat

VARIABLES
  landed,     \* letters with an applied row in every topic they name
  evicted,    \* txids under an open eviction
  twin,       \* letters an open eviction moved aside
  msgs,       \* the messages of both queues, by slot
  rows,       \* mutation_dead_letters, by letter
  late,       \* statements told faulted that may land yet
  objects,    \* the copies whose R2 object exists
  touched,    \* when each object was last written
  door, cons, parker, lever, sweep,     \* the handlers in flight
  owed,       \* copies acked "queued" and not settled since (a history)
  used        \* the events so far, within a scenario; used.clock is the time

tables == <<rows, late>>
r2 == <<objects, touched>>
index == <<landed, evicted, twin>>
handlers == <<door, cons, parker, lever, sweep>>
vars == <<landed, evicted, twin, msgs, rows, late, objects, touched, door, cons, parker,
          lever, sweep, owed, used>>

Idle == [pc |-> "idle"]
NoMessage == [queue |-> "none"]
NoRow == [status |-> "none"]

\* An event the run allows.
Use(u) ==
  /\ \E x \in Scenarios :
       /\ \A c \in Copy : u.presents[c] <= x.presents[c]
       /\ u.troubles <= x.troubles /\ u.evictions <= x.evictions
       /\ u.discards <= x.discards /\ u.clock <= x.clock
  /\ used' = u

Trouble == Use([used EXCEPT !.troubles = @ + 1])
Calm == UNCHANGED used
clock == used.clock

-----------------------------------------------------------------------------
(* The dead letters' table. *)

WithBytes == {"parked", "redriven"}

Held(R) == {k \in Letter : R[k].status \in WithBytes}

ClassOf(R, k) == IF R[k].status = "none" THEN "fault" ELSE R[k].class

NotNowHeld(R) == {k \in Held(R) : R[k].class = "not_now"}

\* Mutant: the ceiling is compared one too late.
RoomOneMore(R, k, dayFull) ==
  \/ k \in Held(R)
  \/ Cardinality(Held(R)) <= PARKED_ROWS_CEILING /\ (ClassOf(R, k) # "not_now" \/ ~dayFull)

\* ceiling_verdict and the WHERE of PARK_SQL: a key that holds bytes always
\* parks, a new one within the ceiling and, "not now", its class's bounds.
Room(R, k, dayFull) ==
  \/ k \in Held(R)
  \/ /\ Cardinality(Held(R)) < PARKED_ROWS_CEILING
     /\ \/ ClassOf(R, k) # "not_now"
        \/ /\ Cardinality({j \in NotNowHeld(R) : TxidOf[j] = TxidOf[k]}) < NOT_NOW_PER_TXID
           /\ Cardinality(NotNowHeld(R)) < NOT_NOW_MAX
           /\ ~dayFull

\* Mutant: a note overwrites the row, whatever its status.
NotedOver(R, w) ==
  LET class == IF w.class = "keep" THEN ClassOf(R, w.letter) ELSE w.class
  IN IF R[w.letter].status = "none"
     THEN [R EXCEPT ![w.letter] = [status |-> "failing", class |-> class, redrives |-> 0]]
     ELSE [R EXCEPT ![w.letter].status = "failing", ![w.letter].class = class]

\* NOTE_FAILING_SQL; class "keep" is NOTE_FAILING_KEEP_CLASS_SQL.
Noted(R, w) ==
  LET k == w.letter
      class == IF w.class = "keep" THEN ClassOf(R, k) ELSE w.class
  IN IF R[k].status = "none"
     THEN [R EXCEPT ![k] = [status |-> "failing", class |-> class, redrives |-> 0]]
     ELSE IF R[k].status = "parked" THEN R
     ELSE [R EXCEPT ![k].class = class]

\* carried!: what a message carries for the copy rule (a re-drive's tag counts
\* in an inline message); a failing note carries nothing.
Carried(c, n) == 2 * Carries[c] + IF n > 0 /\ c \notin Keyed THEN 1 ELSE 0

Weight(row) == IF row.status \in WithBytes THEN Carried(row.copy, row.n) ELSE 0

\* Mutant: the last copy parked is kept.
KeptLast(R, w) == w.copy \in Copy

KeptNew(R, w) == Carried(w.copy, w.n) > Weight(R[w.letter])

\* PARK_SQL changes a row, and returns it.
Parks(R, w) ==
  LET row == R[w.letter]
  IN /\ Room(R, w.letter, w.dayFull)
     /\ row.status = "parked" => <<row.copy, row.n>> # <<w.copy, w.n>>

Parked(R, w) ==
  LET k == w.letter
      new == KeptNew(R, w)
  IN IF ~Parks(R, w) THEN R
     ELSE [R EXCEPT ![k] =
             [status |-> "parked", class |-> ClassOf(R, k),
              redrives |-> IF R[k].status = "none" THEN 0 ELSE R[k].redrives,
              copy |-> IF new THEN w.copy ELSE R[k].copy,
              n |-> IF new THEN w.n ELSE R[k].n]]

\* RESOLVE_SQL: the row goes, whatever its status.
ResolvedRows(R, w) == [R EXCEPT ![w.letter] = NoRow]

\* CLAIM_SQL: the compare-and-set on (status, redrives).
Claims(R, w) ==
  R[w.letter].status = "parked" /\ R[w.letter].redrives = w.redrives

Claimed(R, w) ==
  IF Claims(R, w)
  THEN [R EXCEPT ![w.letter].status = "redriven", ![w.letter].redrives = @ + 1]
  ELSE R

\* REVERT_SQL, of the claim that wrote w.redrives.
Reverted(R, w) ==
  IF R[w.letter].status = "redriven" /\ R[w.letter].redrives = w.redrives
  THEN [R EXCEPT ![w.letter].status = "parked", ![w.letter].redrives = @ - 1]
  ELSE R

Exec(R, w) ==
  CASE w.op = "note" -> Noted(R, w)
    [] w.op = "park" -> Parked(R, w)
    [] w.op = "resolve" -> ResolvedRows(R, w)
    [] w.op = "claim" -> Claimed(R, w)
    [] w.op = "revert" -> Reverted(R, w)

\* A statement answers, faults, or faults and may land nevertheless.
Answered(w) == rows' = Exec(rows, w) /\ UNCHANGED late /\ Calm

Faulted(w) ==
  /\ Trouble
  /\ \/ UNCHANGED <<rows, late>>
     \/ w.op \in LostAnswers /\ rows' = Exec(rows, w) /\ UNCHANGED late
     \/ w.op \in LateAnswers /\ UNCHANGED rows /\ late' = late \cup {w}

\* The R2 object a row names: its r2_key column.
ObjectOf(row) == IF row.status \in WithBytes THEN {row.copy} \cap Keyed ELSE {}

-----------------------------------------------------------------------------
(* The queues. *)

Message(c, n) == [queue |-> "main", copy |-> c, n |-> n, tries |-> 0, sent |-> clock]

Free == {s \in Slot : msgs[s] = NoMessage}

\* A send, to the first free slot.
Post(m) ==
  \E s \in Free :
    /\ \A u \in Free : s <= u
    /\ msgs' = [msgs EXCEPT ![s] = m]

InHandler(s) ==
  \/ \E p \in Consumer : cons[p].pc # "idle" /\ cons[p].slot = s
  \/ \E p \in Parker : parker[p].pc # "idle" /\ parker[p].slot = s

Waiting(q) == {s \in Slot : msgs[s].queue = q /\ ~InHandler(s)}

\* A message handed back: redelivered, then moved to the dead letter queue.
HandedBack(m) ==
  IF m.tries < MAX_RETRIES THEN [m EXCEPT !.tries = @ + 1]
  ELSE [m EXCEPT !.queue = "dlq", !.tries = 0, !.sent = clock]

Same(c) == {d \in Copy : LetterOf[d] = LetterOf[c]}
Lighter(c) == {d \in Same(c) : Carries[d] <= Carries[c]}

\* What may still be said of a copy: it landed or was refused with its whole
\* letter, or it was given up with what it carries.
SettleLetter(c) == owed' = owed \ Same(c)
GiveUp(c) == owed' = owed \ Lighter(c)

Txid == {TxidOf[k] : k \in Letter}

Letters(t) == {k \in Letter : TxidOf[k] = t}

\* An eviction's move of a txid's rows to the twin tables.
MoveAside(t) ==
  /\ landed' = landed \ Letters(t)
  /\ twin' = twin \cup (landed \cap Letters(t))

-----------------------------------------------------------------------------
(* /submit: the write-through, and the enqueue before the ack. *)

\* A presentation that the door does not refuse under an open eviction.
Present(d, c) ==
  /\ door[d] = Idle /\ TxidOf[LetterOf[c]] \notin evicted
  /\ Use([used EXCEPT !.presents[c] = @ + 1])
  /\ door' = [door EXCEPT ![d] = [pc |-> "write", copy |-> c]]
  /\ UNCHANGED <<index, msgs, tables, r2, cons, parker, lever, sweep, owed>>

\* The engine's own submit: durable (a topic's manager may have erred), or not (what
\* faulted may have landed).
WriteThrough(d) ==
  LET c == door[d].copy
      wrote(durable) == door' = [door EXCEPT ![d] = [pc |-> "guard", copy |-> c, durable |-> durable]]
  IN
  /\ door[d].pc = "write"
  /\ \/ landed' = landed \cup {LetterOf[c]} /\ wrote(TRUE)
     \/ c \in Erring /\ UNCHANGED landed /\ wrote(TRUE)
     \/ landed' \in {landed, landed \cup {LetterOf[c]}} /\ wrote(FALSE)
  /\ UNCHANGED <<evicted, twin, msgs, tables, r2, cons, parker, lever, sweep, owed, used>>

\* The write-side guard: a write that outran an eviction is moved aside (422), an
\* unreadable ledger is the route's 502; a write that faulted is queued.
GuardWrite(d) ==
  LET c == door[d].copy
      t == TxidOf[LetterOf[c]]
  IN
  /\ door[d].pc = "guard"
  /\ \/ Calm /\ t \in evicted /\ MoveAside(t) /\ door' = [door EXCEPT ![d] = Idle]
     \/ /\ Calm /\ t \notin evicted /\ UNCHANGED <<landed, twin>>
        /\ door' = [door EXCEPT ![d] = IF door[d].durable THEN Idle
                      ELSE [pc |-> IF c \in Keyed THEN "put" ELSE "send", copy |-> c]]
     \/ Trouble /\ UNCHANGED <<landed, twin>> /\ door' = [door EXCEPT ![d] = Idle]
  /\ UNCHANGED <<evicted, msgs, tables, r2, cons, parker, lever, sweep, owed>>

\* put_beef, before the send; a fault is the route's 502.
PutBeef(d) ==
  /\ door[d].pc = "put"
  /\ \/ /\ Calm
        /\ objects' = objects \cup {door[d].copy}
        /\ touched' = [touched EXCEPT ![door[d].copy] = clock]
        /\ door' = [door EXCEPT ![d].pc = "send"]
     \/ Trouble /\ UNCHANGED r2 /\ door' = [door EXCEPT ![d] = Idle]
  /\ UNCHANGED <<index, msgs, tables, cons, parker, lever, sweep, owed>>

\* The send, and the route's ack: Queued (200) or Refused (502).
SendReplay(d) ==
  LET c == door[d].copy IN
  /\ door[d].pc = "send"
  /\ door' = [door EXCEPT ![d] = Idle]
  /\ \/ Calm /\ Post(Message(c, 0)) /\ owed' = owed \cup {c}
     \/ Trouble /\ UNCHANGED <<msgs, owed>>
  /\ UNCHANGED <<index, tables, r2, cons, parker, lever, sweep>>

-----------------------------------------------------------------------------
(* queue_handler, one message (max_batch_size = 1). *)

TakeMutation(p, s) ==
  /\ cons[p] = Idle /\ s \in Waiting("main")
  /\ cons' = [cons EXCEPT ![p] = [pc |-> "read", slot |-> s]]
  /\ UNCHANGED <<index, msgs, tables, r2, door, parker, lever, sweep, owed, used>>

CopyAt(p) == msgs[cons[p].slot].copy
LetterAt(p) == LetterOf[CopyAt(p)]
IsEvicted(p) == TxidOf[LetterAt(p)] \in evicted

GoOn(p, pc) == cons' = [cons EXCEPT ![p] = [pc |-> pc, slot |-> cons[p].slot]]

\* The replay is handed back; "keep" is a MISSING object's note.
Fail(p, class) ==
  cons' = [cons EXCEPT ![p] = [pc |-> "note", slot |-> cons[p].slot, class |-> class]]

\* The replay is to be acked.  objects: the message's own, deleted after the
\* batch; leaves: a keyed message whose topic FAILED leaves what it names;
\* whole: the ack speaks for the letter, not for this copy alone.
AckWith(p, own, leaves, whole) ==
  cons' = [cons EXCEPT ![p] = [pc |-> "resolve", slot |-> cons[p].slot,
                               own |-> own, leaves |-> leaves, whole |-> whole]]

\* read_for_replay: the object of a keyed message.
ReadForReplay(p) ==
  LET c == CopyAt(p) IN
  /\ cons[p].pc = "read"
  /\ \/ Calm /\ c \in objects \cup (Copy \ Keyed) /\ GoOn(p, "ledger")
     \/ Calm /\ c \in Keyed \ objects /\ GoOn(p, "missing")
     \/ Trouble /\ c \in Keyed /\ Fail(p, "fault")
  /\ UNCHANGED <<index, msgs, tables, r2, door, parker, lever, sweep, owed>>

\* judge_missing: the eviction ledger, then the applied rows.
JudgeMissing(p) ==
  /\ cons[p].pc = "missing"
  /\ \/ Calm /\ IsEvicted(p) /\ AckWith(p, {}, FALSE, TRUE)
     \/ Calm /\ ~IsEvicted(p) /\ GoOn(p, "twin")
     \/ Trouble /\ Fail(p, "keep")
  /\ UNCHANGED <<index, msgs, tables, r2, door, parker, lever, sweep, owed>>

JudgeTwin(p) ==
  /\ cons[p].pc = "twin"
  /\ \/ Calm /\ LetterAt(p) \in landed /\ AckWith(p, {}, FALSE, TRUE)
     \/ Calm /\ LetterAt(p) \notin landed /\ Fail(p, "keep")
     \/ Trouble /\ Fail(p, "keep")
  /\ UNCHANGED <<index, msgs, tables, r2, door, parker, lever, sweep, owed>>

\* open_eviction, before the replay.
ReadLedger(p) ==
  /\ cons[p].pc = "ledger"
  /\ \/ Calm /\ IsEvicted(p) /\ AckWith(p, {CopyAt(p)} \cap Keyed, FALSE, TRUE)
     \/ Calm /\ ~IsEvicted(p) /\ GoOn(p, "replay")
     \/ Trouble /\ Fail(p, "fault")
  /\ UNCHANGED <<index, msgs, tables, r2, door, parker, lever, sweep, owed>>

\* The engine's submit: durable, durable with a FAILED topic, or not durable (a
\* fault may land nevertheless; an applied letter is deduplicated).
Replay(p) ==
  LET k == LetterAt(p) IN
  /\ cons[p].pc = "replay"
  /\ \/ Calm /\ landed' = landed \cup {k} /\ GoOn(p, "guard")
     \/ Calm /\ CopyAt(p) \in Erring /\ k \notin landed /\ GoOn(p, "guardfailed") /\ UNCHANGED landed
     \/ Trouble /\ landed' \in {landed, landed \cup {k}} /\ Fail(p, "fault")
     \/ Trouble /\ k \notin landed /\ Fail(p, "not_now") /\ UNCHANGED landed
  /\ UNCHANGED <<evicted, twin, msgs, tables, r2, door, parker, lever, sweep, owed>>

\* reevict_after_write, then the ack's decision over R2 (landed_ack).
Guard(p) ==
  LET own == {CopyAt(p)} \cap Keyed
      failed == cons[p].pc = "guardfailed"
  IN
  /\ cons[p].pc \in {"guard", "guardfailed"}
  /\ \/ /\ Calm /\ IsEvicted(p)
        /\ MoveAside(TxidOf[LetterAt(p)])
        /\ AckWith(p, own, FALSE, TRUE)
     \/ /\ Calm /\ ~IsEvicted(p) /\ UNCHANGED <<landed, twin>>
        /\ AckWith(p, own, failed /\ own # {}, ~failed)
     \/ Trouble /\ UNCHANGED <<landed, twin>> /\ Fail(p, "fault")
  /\ UNCHANGED <<evicted, msgs, tables, r2, door, parker, lever, sweep, owed>>

\* dead_letters::resolve, fail-soft: the row, and the object it named.
Resolve(p) ==
  LET j == cons[p]
      w == [op |-> "resolve", letter |-> LetterAt(p)]
      Then(kill) == cons' = [cons EXCEPT ![p] =
        [pc |-> "ack", slot |-> j.slot, kill |-> IF j.leaves THEN {} ELSE kill]]
  IN
  /\ j.pc = "resolve"
  /\ \/ Answered(w) /\ Then(j.own \cup ObjectOf(rows[w.letter]))
     \/ Faulted(w) /\ Then(j.own)
  /\ IF j.whole THEN SettleLetter(CopyAt(p)) ELSE GiveUp(CopyAt(p))
  /\ UNCHANGED <<index, msgs, r2, door, parker, lever, sweep>>

AckMutation(p) ==
  LET j == cons[p] IN
  /\ j.pc = "ack"
  /\ msgs' = [msgs EXCEPT ![j.slot] = NoMessage]
  /\ cons' = [cons EXCEPT ![p] = IF j.kill = {} THEN Idle
                                 ELSE [pc |-> "delete", slot |-> 0, kill |-> j.kill]]
  /\ UNCHANGED <<index, tables, r2, door, parker, lever, sweep, owed, used>>

\* delete_beefs, after the batch, fail-soft.
DeleteBeefs(p, c) ==
  LET left == cons[p].kill \ {c} IN
  /\ cons[p].pc = "delete" /\ c \in cons[p].kill
  /\ \/ Calm /\ objects' = objects \ {c}
     \/ Trouble /\ UNCHANGED objects
  /\ cons' = [cons EXCEPT ![p] = IF left = {} THEN Idle ELSE [@ EXCEPT !.kill = left]]
  /\ UNCHANGED <<index, msgs, tables, touched, door, parker, lever, sweep, owed>>

\* note_failing (fail-soft), then the retry.
NoteAndRetry(p) ==
  LET j == cons[p]
      w == [op |-> "note", letter |-> LetterAt(p), class |-> j.class]
  IN
  /\ j.pc = "note"
  /\ Answered(w) \/ Faulted(w)
  /\ msgs' = [msgs EXCEPT ![j.slot] = HandedBack(@)]
  /\ cons' = [cons EXCEPT ![p] = Idle]
  /\ UNCHANGED <<index, r2, door, parker, lever, sweep, owed>>

\* The isolate dies: a message not acked is redelivered.
ConsumerDies(p) ==
  /\ cons[p] # Idle /\ Trouble
  /\ cons' = [cons EXCEPT ![p] = Idle]
  /\ msgs' = IF cons[p].pc = "delete" THEN msgs
             ELSE [msgs EXCEPT ![cons[p].slot] = HandedBack(@)]
  /\ UNCHANGED <<index, tables, r2, door, parker, lever, sweep, owed>>

-----------------------------------------------------------------------------
(* park_batch, one letter: park first, ack after. *)

TakeLetter(p, s) ==
  /\ parker[p] = Idle /\ s \in Waiting("dlq")
  /\ parker' = [parker EXCEPT ![p] = [pc |-> "ceiling", slot |-> s]]
  /\ UNCHANGED <<index, msgs, tables, r2, door, cons, lever, sweep, owed, used>>

DeadCopy(p) == msgs[parker[p].slot].copy
DeadLetter(p) == LetterOf[DeadCopy(p)]

\* Not parked: deferred by a bound a clean read found, or a fault.
NotParked(p, deferred, class) ==
  parker' = [parker EXCEPT ![p] =
    [pc |-> "plan", slot |-> parker[p].slot, deferred |-> deferred, class |-> class]]

ParkedAck(p, kill) ==
  parker' = [parker EXCEPT ![p] = [pc |-> "ack", slot |-> parker[p].slot, kill |-> kill]]

\* The ceiling read of park_one, and ceiling_verdict.
CeilingRead(p) ==
  LET k == DeadLetter(p)
      class == ClassOf(rows, k)
  IN
  /\ parker[p].pc = "ceiling"
  /\ \/ /\ Calm
        /\ \E dayFull \in DayFull :
             IF Room(rows, k, dayFull)
             THEN parker' = [parker EXCEPT ![p] =
                    [pc |-> "park", slot |-> @.slot, class |-> class, held |-> ObjectOf(rows[k])]]
             ELSE NotParked(p, TRUE, class)
     \/ Trouble /\ NotParked(p, FALSE, "fault")
  /\ UNCHANGED <<index, msgs, tables, r2, door, cons, lever, sweep, owed>>

\* Mutant: the copy not kept is dropped, also when the row holds the same object.
DroppedTwin(w, held) ==
  IF rows[w.letter].status \notin WithBytes THEN {}
  ELSE IF KeptNew(rows, w) THEN held ELSE {w.copy} \cap Keyed

\* dropped_object: the lighter copy's object, by the key the ceiling read held.
DroppedObject(w, held) ==
  LET new == {w.copy} \cap Keyed
  IN IF rows[w.letter].status \notin WithBytes THEN {}
     ELSE IF KeptNew(rows, w) THEN held \ new ELSE new \ held

\* PARK_SQL, which reads the bounds again itself.
Park(p) ==
  LET m == msgs[parker[p].slot] IN
  \E dayFull \in DayFull :
    LET w == [op |-> "park", letter |-> DeadLetter(p), copy |-> m.copy, n |-> m.n, dayFull |-> dayFull] IN
    /\ parker[p].pc = "park"
    /\ \/ Answered(w) /\ Parks(rows, w) /\ ParkedAck(p, DroppedObject(w, parker[p].held))
       \/ /\ Answered(w) /\ ~Parks(rows, w)
          /\ parker' = [parker EXCEPT ![p] = [pc |-> "reread", slot |-> @.slot, class |-> @.class]]
       \/ Faulted(w) /\ NotParked(p, FALSE, parker[p].class)
    /\ UNCHANGED <<index, msgs, r2, door, cons, lever, sweep, owed>>

\* unparked: what a park that returned no row was.
RereadCeiling(p) ==
  LET k == DeadLetter(p)
      class == parker[p].class
  IN
  /\ parker[p].pc = "reread"
  /\ \/ /\ Calm
        /\ \/ k \in Held(rows) /\ ParkedAck(p, {})
           \/ /\ k \notin Held(rows)
              /\ \E dayFull \in DayFull : NotParked(p, ~Room(rows, k, dayFull), class)
     \/ Trouble /\ NotParked(p, FALSE, class)
  /\ UNCHANGED <<index, msgs, tables, r2, door, cons, lever, sweep, owed>>

\* The dropped copy's object, deleted before the ack (fail-soft).
DeleteDropped(p, c) ==
  /\ parker[p].pc = "ack" /\ c \in parker[p].kill
  /\ \/ Calm /\ objects' = objects \ {c}
     \/ Trouble /\ UNCHANGED objects
  /\ parker' = [parker EXCEPT ![p].kill = @ \ {c}]
  /\ UNCHANGED <<index, msgs, tables, touched, door, cons, lever, sweep, owed>>

AckLetter(p) ==
  /\ parker[p].pc = "ack" /\ parker[p].kill = {}
  /\ msgs' = [msgs EXCEPT ![parker[p].slot] = NoMessage]
  /\ parker' = [parker EXCEPT ![p] = Idle]
  /\ UNCHANGED <<index, tables, r2, door, cons, lever, sweep, owed, used>>

\* deferral_plan and dlq_retry_plan: the delivery is the letter's last.
LastDelivery(attempts, deferred, class) ==
  IF deferred /\ class = "not_now" THEN attempts >= NOT_NOW_DEFER_DELIVERIES
  ELSE attempts > DLQ_MAX_RETRIES

\* Handed back with a delay, or LOST: logged and counted.
HandBackOrLose(p) ==
  LET j == parker[p]
      last == LastDelivery(msgs[j.slot].tries + 1, j.deferred, j.class)
  IN
  /\ j.pc = "plan"
  /\ \/ /\ ~last
        /\ msgs' = [msgs EXCEPT ![j.slot].tries = @ + 1]
        /\ parker' = [parker EXCEPT ![p] = Idle]
        /\ UNCHANGED owed
     \/ /\ last
        /\ GiveUp(DeadCopy(p))
        /\ parker' = [parker EXCEPT ![p] = [pc |-> "lost", slot |-> j.slot, deferred |-> j.deferred]]
        /\ UNCHANGED msgs
  /\ UNCHANGED <<index, tables, r2, door, cons, lever, sweep, used>>

\* A deferred letter's object goes with its LOST line; the message is acked, or
\* handed back at the platform's own last delivery, which drops it.
LoseLetter(p) ==
  LET j == parker[p]
      own == IF j.deferred THEN {DeadCopy(p)} \cap Keyed ELSE {}
  IN
  /\ j.pc = "lost"
  /\ \/ Calm /\ objects' = objects \ own
     \/ Trouble /\ own # {} /\ UNCHANGED objects
  /\ msgs' = [msgs EXCEPT ![j.slot] = NoMessage]
  /\ parker' = [parker EXCEPT ![p] = Idle]
  /\ UNCHANGED <<index, tables, touched, door, cons, lever, sweep, owed>>

\* The platform redelivers, or drops the message at its last delivery.
ParkerDies(p) ==
  LET s == parker[p].slot IN
  /\ parker[p] # Idle /\ Trouble
  /\ parker' = [parker EXCEPT ![p] = Idle]
  /\ \/ /\ msgs[s].tries < DLQ_MAX_RETRIES
        /\ msgs' = [msgs EXCEPT ![s].tries = @ + 1]
        /\ UNCHANGED owed
     \/ /\ msgs[s].tries >= DLQ_MAX_RETRIES
        /\ msgs' = [msgs EXCEPT ![s] = NoMessage]
        /\ GiveUp(DeadCopy(p))
  /\ UNCHANGED <<index, tables, r2, door, cons, lever, sweep>>

-----------------------------------------------------------------------------
(* The operator's levers. *)

Redriven == {k \in Letter : rows[k].status = "redriven"}

\* Mutant: only the letters that may be re-driven again are returned.
StaleReturnBelow(S) ==
  /\ S \subseteq {k \in Redriven : rows[k].redrives < MAX_REDRIVES} /\ S # {}
  /\ rows' = [k \in Letter |-> IF k \in S THEN [rows[k] EXCEPT !.status = "parked"] ELSE rows[k]]
  /\ UNCHANGED <<index, msgs, late, r2, handlers, owed, used>>

\* The lever's first statement: the re-drives claimed an hour ago or earlier go
\* back to the parked set (the hour is the environment's).
StaleReturn(S) ==
  /\ S \subseteq Redriven /\ S # {}
  /\ rows' = [k \in Letter |-> IF k \in S THEN [rows[k] EXCEPT !.status = "parked"] ELSE rows[k]]
  /\ UNCHANGED <<index, msgs, late, r2, handlers, owed, used>>

\* select_parked_query: the letters the call goes through, with the redrives
\* read.  A forced call takes one txid's, past the re-drives' ceiling too (once,
\* a bound).
SelectParked(l, S) ==
  /\ lever[l] = Idle /\ S # {}
  /\ \A k \in S : rows[k].status = "parked"
  /\ \/ \A k \in S : rows[k].redrives < MAX_REDRIVES
     \/ /\ \E t \in Txid : S \subseteq Letters(t)
        /\ \A k \in S : rows[k].redrives <= MAX_REDRIVES
  /\ lever' = [lever EXCEPT ![l] =
       [pc |-> "claim", todo |-> {<<k, rows[k].redrives>> : k \in S}]]
  /\ UNCHANGED <<index, msgs, tables, r2, door, cons, parker, sweep, owed, used>>

NextRow(l, todo) ==
  lever' = [lever EXCEPT ![l] = IF todo = {} THEN Idle ELSE [pc |-> "claim", todo |-> todo]]

\* CLAIM_SQL: the row returned is this call's to send.
Claim(l, k, r) ==
  LET w == [op |-> "claim", letter |-> k, redrives |-> r]
      rest == lever[l].todo \ {<<k, r>>}
  IN
  /\ lever[l].pc = "claim" /\ <<k, r>> \in lever[l].todo
  /\ \/ /\ Answered(w) /\ Claims(rows, w)
        /\ lever' = [lever EXCEPT ![l] =
             [pc |-> "send", todo |-> rest, letter |-> k, n |-> r + 1, copy |-> rows[k].copy]]
     \/ Answered(w) /\ ~Claims(rows, w) /\ NextRow(l, rest)
     \/ Faulted(w) /\ NextRow(l, rest)
  /\ UNCHANGED <<index, msgs, r2, door, cons, parker, sweep, owed>>

\* The send of the claimed bytes; one that faulted may have been taken.
Redrive(l) ==
  LET j == lever[l]
      m == Message(j.copy, j.n)
      revert == lever' = [lever EXCEPT ![l].pc = "revert"]
  IN
  /\ j.pc = "send"
  /\ \/ Calm /\ Post(m) /\ NextRow(l, j.todo)
     \/ Trouble /\ UNCHANGED msgs /\ revert
     \/ Trouble /\ "send" \in LostAnswers /\ Post(m) /\ revert
  /\ UNCHANGED <<index, tables, r2, door, cons, parker, sweep, owed>>

RevertClaim(l) ==
  LET w == [op |-> "revert", letter |-> lever[l].letter, redrives |-> lever[l].n] IN
  /\ lever[l].pc = "revert"
  /\ Answered(w) \/ Faulted(w)
  /\ NextRow(l, lever[l].todo)
  /\ UNCHANGED <<index, msgs, r2, door, cons, parker, sweep, owed>>

\* internal_discard: a parked letter's row, then its object.  A statement that
\* faults changes nothing; one that landed all the same is a call that died.
Discard(l, k) ==
  /\ lever[l] = Idle /\ rows[k].status = "parked"
  /\ Use([used EXCEPT !.discards = @ + 1])
  /\ rows' = [rows EXCEPT ![k] = NoRow]
  /\ GiveUp(rows[k].copy)
  /\ lever' = [lever EXCEPT ![l] =
       IF ObjectOf(rows[k]) = {} THEN Idle ELSE [pc |-> "discarded", copy |-> rows[k].copy]]
  /\ UNCHANGED <<index, msgs, late, r2, door, cons, parker, sweep>>

DeleteDiscarded(l) ==
  /\ lever[l].pc = "discarded"
  /\ \/ Calm /\ objects' = objects \ {lever[l].copy}
     \/ Trouble /\ UNCHANGED objects
  /\ lever' = [lever EXCEPT ![l] = Idle]
  /\ UNCHANGED <<index, msgs, tables, touched, door, cons, parker, sweep, owed>>

LeverDies(l) ==
  /\ lever[l] # Idle /\ Trouble
  /\ lever' = [lever EXCEPT ![l] = Idle]
  /\ UNCHANGED <<index, msgs, tables, r2, door, cons, parker, sweep, owed>>

-----------------------------------------------------------------------------
(* The orphan sweep: list and plan, head, delete. *)

\* Mutant: the window covers one queue's retention, not both.
ORPHAN_WINDOW_ONE == QUEUE_RETENTION

\* Longer than a message can wait in both queues.
ORPHAN_WINDOW == 2 * QUEUE_RETENTION

Named == UNION {ObjectOf(rows[k]) : k \in Letter}

PlanSweep(c) ==
  /\ sweep = Idle
  /\ c \in objects \ Named /\ clock - touched[c] > ORPHAN_WINDOW
  /\ sweep' = [pc |-> "head", copy |-> c, at |-> touched[c]]
  /\ UNCHANGED <<index, msgs, tables, r2, door, cons, parker, lever, owed, used>>

\* still_orphan: the object is there and was not written since the listing.
HeadOrphan ==
  /\ sweep.pc = "head"
  /\ sweep' = IF sweep.copy \in objects /\ touched[sweep.copy] = sweep.at
              THEN [sweep EXCEPT !.pc = "delete"] ELSE Idle
  /\ UNCHANGED <<index, msgs, tables, r2, door, cons, parker, lever, owed, used>>

DeleteOrphan ==
  /\ sweep.pc = "delete"
  /\ sweep' = Idle
  /\ objects' = objects \ {sweep.copy}
  /\ UNCHANGED <<index, msgs, tables, touched, door, cons, parker, lever, owed, used>>

-----------------------------------------------------------------------------
(* The environment. *)

\* A statement told faulted lands.
LandLate(w) ==
  /\ w \in late
  /\ rows' = Exec(rows, w) /\ late' = late \ {w}
  /\ UNCHANGED <<index, msgs, r2, handlers, owed, used>>

\* Days pass: no handler runs that long, and no message outlives the retention
\* in one queue.
Tick ==
  /\ Use([used EXCEPT !.clock = @ + 1])
  /\ \A d \in Door : door[d] = Idle
  /\ \A p \in Consumer : cons[p] = Idle
  /\ \A p \in Parker : parker[p] = Idle
  /\ \A l \in Lever : lever[l] = Idle
  /\ sweep = Idle
  /\ \A s \in Slot : msgs[s] # NoMessage => clock + 1 - msgs[s].sent <= QUEUE_RETENTION
  /\ UNCHANGED <<index, msgs, tables, r2, handlers, owed>>

Expire(s) ==
  /\ msgs[s] # NoMessage /\ ~InHandler(s)
  /\ QUEUE_RETENTION > 0 /\ clock - msgs[s].sent = QUEUE_RETENTION
  /\ GiveUp(msgs[s].copy)
  /\ msgs' = [msgs EXCEPT ![s] = NoMessage]
  /\ UNCHANGED <<index, tables, r2, handlers, used>>

\* An eviction opens and moves the letters' rows to the twin; a mined proof readmits
\* (each one step here).
Evict(t) ==
  /\ t \notin evicted /\ Use([used EXCEPT !.evictions = @ + 1])
  /\ evicted' = evicted \cup {t} /\ MoveAside(t)
  /\ UNCHANGED <<msgs, tables, r2, handlers, owed>>

Readmit(t) ==
  /\ t \in evicted
  /\ evicted' = evicted \ {t}
  /\ landed' = landed \cup (twin \cap Letters(t)) /\ twin' = twin \ Letters(t)
  /\ UNCHANGED <<msgs, tables, r2, handlers, owed, used>>

-----------------------------------------------------------------------------
Init ==
  /\ landed = {} /\ evicted = {} /\ twin = {} /\ objects = {} /\ owed = {} /\ late = {}
  /\ msgs = [s \in Slot |-> NoMessage]
  /\ rows = [k \in Letter |-> NoRow]
  /\ touched = [c \in Copy |-> 0]
  /\ door = [d \in Door |-> Idle] /\ cons = [p \in Consumer |-> Idle]
  /\ parker = [p \in Parker |-> Idle] /\ lever = [l \in Lever |-> Idle]
  /\ sweep = Idle
  /\ used = [presents |-> [c \in Copy |-> 0], troubles |-> 0, evictions |-> 0, discards |-> 0, clock |-> 0]

DoorStep(d) == WriteThrough(d) \/ GuardWrite(d) \/ PutBeef(d) \/ SendReplay(d)

ConsumerStep(p) ==
  \/ \E s \in Slot : TakeMutation(p, s)
  \/ ReadForReplay(p) \/ JudgeMissing(p) \/ JudgeTwin(p) \/ ReadLedger(p)
  \/ Replay(p) \/ Guard(p) \/ Resolve(p) \/ AckMutation(p)
  \/ \E c \in Copy : DeleteBeefs(p, c)
  \/ NoteAndRetry(p)

ParkerStep(p) ==
  \/ \E s \in Slot : TakeLetter(p, s)
  \/ CeilingRead(p) \/ Park(p) \/ RereadCeiling(p)
  \/ \E c \in Copy : DeleteDropped(p, c)
  \/ AckLetter(p) \/ HandBackOrLose(p) \/ LoseLetter(p)

LeverStep(l) ==
  \/ lever[l].pc = "claim" /\ \E t \in lever[l].todo : Claim(l, t[1], t[2])
  \/ Redrive(l) \/ RevertClaim(l) \/ DeleteDiscarded(l)

Next ==
  \/ \E d \in Door : DoorStep(d) \/ \E c \in Copy : Present(d, c)
  \/ \E p \in Consumer : ConsumerStep(p) \/ ConsumerDies(p)
  \/ \E p \in Parker : ParkerStep(p) \/ ParkerDies(p)
  \/ \E l \in Lever : \/ LeverStep(l) \/ LeverDies(l)
                      \/ \E S \in SUBSET Letter : SelectParked(l, S)
                      \/ \E k \in Letter : Discard(l, k)
  \/ \E S \in SUBSET Letter : StaleReturn(S)
  \/ \E c \in Copy : PlanSweep(c)
  \/ HeadOrphan \/ DeleteOrphan
  \/ \E w \in late : LandLate(w)
  \/ Tick \/ \E s \in Slot : Expire(s)
  \/ \E t \in Txid : Evict(t) \/ Readmit(t)

Spec == Init /\ [][Next]_vars

\* The platform delivers what its queues hold and a handler that runs goes on;
\* the operator keeps calling the lever, an hour after a claim too.
FairSpec ==
  /\ Spec
  /\ \A d \in Door : WF_vars(DoorStep(d))
  /\ \A p \in Consumer : WF_vars(ConsumerStep(p))
  /\ \A p \in Parker : WF_vars(ParkerStep(p))
  /\ \A l \in Lever : /\ WF_vars(LeverStep(l))
                       /\ WF_vars(\E S \in SUBSET Letter : SelectParked(l, S))
  /\ WF_vars(StaleReturn(Redriven))

-----------------------------------------------------------------------------
(* Properties. *)

\* Every message names a copy with its deliveries counted, and a dead letter is a
\* "failing" note without bytes or a parked or re-driven copy (the columns that
\* NOTE_FAILING_SQL and PARK_SQL write).
TypeOK ==
  /\ landed \cup twin \subseteq Letter /\ evicted \subseteq Txid
  /\ objects \subseteq Keyed /\ owed \subseteq Copy
  /\ \A s \in Slot : msgs[s] = NoMessage \/
       msgs[s] \in [queue : {"main", "dlq"}, copy : Copy, n : Nat, tries : Nat, sent : Nat]
  /\ \A k \in Letter :
       \/ rows[k] = NoRow
       \/ rows[k] \in [status : {"failing"}, class : {"fault", "not_now"}, redrives : Nat]
       \/ rows[k] \in [status : WithBytes, class : {"fault", "not_now"}, redrives : Nat,
                       copy : Copy, n : Nat]
  /\ used \in [presents : [Copy -> Nat], troubles : Nat, evictions : Nat, discards : Nat, clock : Nat]

Readable(c) == c \notin Keyed \/ c \in objects

\* The queues or the dead letters' table hold the copy, and its bytes can be read.
InHand(c) ==
  /\ Readable(c)
  /\ \/ \E s \in Slot : msgs[s] # NoMessage /\ msgs[s].copy = c
     \/ \E k \in Held(rows) : rows[k].copy = c

\* "A dropped write is REDELIVERED, not vanished": a submission acked as queued
\* has landed, is refused by an open eviction, or is in hand, itself or in a copy
\* of the same letter that carries as much, until its replay is acked or it is
\* given up on record.
Custody ==
  \A c \in owed :
    \/ LetterOf[c] \in landed \/ TxidOf[LetterOf[c]] \in evicted
    \/ \E d \in Same(c) : Carries[d] >= Carries[c] /\ InHand(d)

\* At most PARKED_ROWS_CEILING letters hold bytes, whatever parks at once.
HeldWithinCeiling == Cardinality(Held(rows)) <= PARKED_ROWS_CEILING

\* "Not now" letters hold at most NOT_NOW_MAX of the ceiling's places.
NotNowShare == Cardinality(NotNowHeld(rows)) <= NOT_NOW_MAX

\* "dropped (door 3) is set to the R2 key the park left unnamed": the object a
\* park is about to delete as the lighter copy's is named by no row.
DroppedIsUnnamed ==
  \A p \in Parker : parker[p].pc = "ack" => parker[p].kill \cap Named = {}

\* Every submission acked as queued lands, or is refused or given up on record
\* (the troubles of a run are finitely many).
Delivered == \A c \in Copy : c \in owed ~> c \notin owed \/ LetterOf[c] \in landed
=============================================================================
