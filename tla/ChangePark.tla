----------------------------- MODULE ChangePark -----------------------------
(* The change notes of the overlay worker (pot_changes.rs, hop_changes.rs,
   lobby_changes.rs), the flush that ships them to the app layer
   (change_flush.rs) and the table that holds what a flush could not ship
   (change_park.rs).

   A write to a pot, hop or lobby row notes its key in the isolate's memory.  A
   flush POSTs the notes; what fails or does not fit is noted back and parked in
   D1.  A background flush with no time left parks a copy of its notes and only
   then forgets them.  The drain, which the tick and an admin route may run at
   once, POSTs the parked rows and deletes each at the generation it read.  The
   app layer re-reads the truth at every POST it handles.

   A POST that fails or times out may have been handled; a D1 batch told faulted
   may have landed; an isolate may die anywhere.  The word frames, which ride the
   same table under a kind of their own, are not modelled. *)
EXTENDS Integers, FiniteSets

CONSTANTS
  Key,          \* what may change: an outpoint, an identity, a lobby advert
  Lobby,        \* the keys of the lobby set
  Poison,       \* the keys whose POST the app layer refuses, alone or in a chunk
  Isolate, Job, \* isolates, and the flushes that run in them
  Home,         \* the isolate of each job
  Drain,        \* the callers of the drain
  MAX_ROWS, LOBBY_MAX_ROWS, MAX_ATTEMPTS,
  RETRY_MEMORY_MAX, DEFER_MEMORY_MAX, OUTBOX_PARK_MAX,
  Budgets       \* bounds of a behaviour: the writes of each key, the troubles, the
                \* deaths of isolates, and the jobs and drains that run

ASSUME ChangeParkAssumption ==
  /\ Lobby \subseteq Key
  /\ IsFiniteSet(Key)
  /\ Home \in [Job -> Isolate]
  /\ {MAX_ROWS, LOBBY_MAX_ROWS} \subseteq Nat
  /\ MAX_ATTEMPTS \in Nat \ {0}
  /\ Budgets \subseteq [writes : [Key -> Nat], troubles : Nat, deaths : Nat,
                        jobs : SUBSET Job, drains : SUBSET Drain]

VARIABLES
  change,   \* per key: how often its row was written
  told,     \* per key: the newest write the app layer has read
  notes,    \* per isolate: CHANGES, the noted keys
  noted,    \* per isolate: NOTED_BACK, what earlier flushes noted back
  job,      \* what each flush of an isolate is doing
  rows,     \* change_parked; generation 0 is no row
  seq,      \* change_parked_seq
  drain,    \* what each drain is doing
  parkedAt, \* history, per key: change when its row was last parked
  gaveUp,   \* history, per key: its last row was exhausted, not parked since
  letGo,    \* history, per key: the write that was let go, by a rule below
  budget    \* what is left of the bounds

vars == <<change, told, notes, noted, job, rows, seq, drain, parkedAt, gaveUp, letGo, budget>>

-----------------------------------------------------------------------------
(* The parked table. *)

NoRow == [generation |-> 0, attempts |-> 0, due |-> FALSE, exhausted |-> FALSE]

Held(k) == rows[k].generation # 0
Active(k) == Held(k) /\ ~rows[k].exhausted
HeldKeys == {k \in Key : Held(k)}

\* Mutant: the lobby keys have no share of their own.
ParkLandsUnshared(K) ==
  {L \in SUBSET K :
     LET all == HeldKeys \cup L
     IN /\ K \cap HeldKeys \subseteq L
        /\ L \ HeldKeys # {} => Cardinality(all) <= MAX_ROWS
        /\ L # K => Cardinality(all) >= MAX_ROWS}

\* PARK_SQL over the keys of one batch, in any order: which of them land.  A held
\* key always does; a new one while the table, and for a lobby key the lobby's
\* share of it, has room.
ParkLands(K) ==
  {L \in SUBSET K :
     LET new == L \ HeldKeys
         all == HeldKeys \cup new
     IN /\ K \cap HeldKeys \subseteq L
        /\ new # {} => Cardinality(all) <= MAX_ROWS
        /\ new \cap Lobby # {} => Cardinality(all \cap Lobby) <= LOBBY_MAX_ROWS
        /\ \A k \in K \ L :
             \/ Cardinality(all) >= MAX_ROWS
             \/ k \in Lobby /\ Cardinality(all \cap Lobby) >= LOBBY_MAX_ROWS}

\* The row of a park: a new generation, due at once, its attempts from zero.
ParkedRow(g) == [generation |-> g, attempts |-> 0, due |-> TRUE, exhausted |-> FALSE]

\* Mutant: a re-park of a held key keeps the row's generation.
ParkKeeping(L) ==
  /\ seq' = seq + 1
  /\ rows' = [k \in Key |-> IF k \notin L THEN rows[k]
                           ELSE ParkedRow(IF Held(k) THEN rows[k].generation ELSE seq + 1)]
  /\ parkedAt' = [k \in Key |-> IF k \in L THEN change[k] ELSE parkedAt[k]]
  /\ gaveUp' = [k \in Key |-> k \notin L /\ gaveUp[k]]

\* One batch: PARK_SEQ_BUMP_SQL takes a token, then the keys in L land under it.
Park(L) ==
  /\ seq' = seq + 1
  /\ rows' = [k \in Key |-> IF k \in L THEN ParkedRow(seq + 1) ELSE rows[k]]
  /\ parkedAt' = [k \in Key |-> IF k \in L THEN change[k] ELSE parkedAt[k]]
  /\ gaveUp' = [k \in Key |-> k \notin L /\ gaveUp[k]]

NoPark == UNCHANGED <<seq, rows, parkedAt, gaveUp>>

Spend(field) == /\ budget[field] > 0
                /\ budget' = [budget EXCEPT ![field] = @ - 1]

\* Keys are let go; a row parked since their last write would still deliver it.
LetGo(K) ==
  LET kept(k) == rows'[k].generation # 0 /\ ~rows'[k].exhausted /\ parkedAt'[k] = change[k]
  IN letGo' = [k \in Key |-> IF k \in K /\ ~kept(k) THEN change[k] ELSE letGo[k]]

-----------------------------------------------------------------------------
(* The POSTs of one flush or drain over a set of keys, in chunks of any size.
   Which were accepted, refused, or neither by the deadline: a chunk with a poison
   key is refused, and any other outcome than that of one chunk is a trouble.  The
   app layer reads the truth for the accepted keys and perhaps for others. *)

Outcomes(K) == {o \in [ok : SUBSET K, bad : SUBSET K, wait : SUBSET K] :
                  /\ o.ok \cup o.bad \cup o.wait = K
                  /\ o.ok \cap Poison = {}
                  /\ o.ok \cap o.bad = {} /\ o.ok \cap o.wait = {} /\ o.bad \cap o.wait = {}}

\* The outcome of one chunk that meets no trouble.
Fated(K) == IF K \cap Poison = {} THEN [ok |-> K, bad |-> {}, wait |-> {}]
                                  ELSE [ok |-> {}, bad |-> K, wait |-> {}]

Tells(o) ==
  \E T \in SUBSET (o.bad \cup o.wait) :
     told' = [k \in Key |-> IF k \in o.ok \cup T THEN change[k] ELSE told[k]]

-----------------------------------------------------------------------------
(* Notes, flushes and skips of an isolate. *)

Idle == [at |-> "idle", keys |-> {}, same |-> {}]

\* A note or a drain of the set changes the version of these keys: a skip under
\* way no longer forgets them.
Renoted(i, K) == [j \in Job |-> IF Home[j] = i THEN [job[j] EXCEPT !.same = @ \ K] ELSE job[j]]

\* note: a row was written, its key noted.
Note(i, k) ==
  /\ budget.writes[k] > 0
  /\ budget' = [budget EXCEPT !.writes[k] = @ - 1]
  /\ change' = [change EXCEPT ![k] = @ + 1]
  /\ notes' = [notes EXCEPT ![i] = @ \cup {k}]
  /\ job' = Renoted(i, {k})
  /\ NoPark /\ UNCHANGED <<told, noted, drain, letGo>>

\* flush: one set of the isolate is taken out and is about to be POSTed.
StartFlush(j, set) ==
  LET i == Home[j]
      K == notes[i] \cap set
  IN /\ j \in budget.jobs /\ job[j].at = "idle" /\ K # {}
     /\ notes' = [notes EXCEPT ![i] = @ \ K]
     /\ job' = [Renoted(i, K) EXCEPT ![j] = [at |-> "post", keys |-> K, same |-> {}]]
     /\ NoPark /\ UNCHANGED <<change, told, noted, drain, letGo, budget>>

\* settle_failed_splitting: the first failures that the retry memory takes.
Retries(m, o) ==
  {A \in SUBSET (o.bad \ m.retried) :
     /\ Cardinality(((m.retried \ o.ok) \ o.bad) \cup A) <= RETRY_MEMORY_MAX
     /\ A # o.bad \ m.retried => Cardinality((m.retried \ o.ok) \cup A) >= RETRY_MEMORY_MAX}

\* settle_splitting: the keys past the bound that the defer memory newly takes.
Defers(retried, deferred, o) ==
  LET new == o.wait \ (retried \cup deferred)
  IN {D \in SUBSET new :
        /\ D # {} => Cardinality(deferred \cup D) <= DEFER_MEMORY_MAX
        /\ D # new => Cardinality(deferred \cup D) >= DEFER_MEMORY_MAX}

\* FlushBatch::park: what one batch takes of the new note-backs, first those that
\* the full memory let go.
Offered(fresh, over) ==
  {F \in SUBSET fresh :
     /\ IF Cardinality(fresh) <= OUTBOX_PARK_MAX THEN F = fresh ELSE Cardinality(F) = OUTBOX_PARK_MAX
     /\ over \subseteq F \/ F \subseteq over}

\* settle_noting: a failed entry is noted back once, a deferred one always; a
\* second failure is lost; what is new among them, or was let go by the full
\* memory, is handed to the outbox, as much of it as one batch takes.
Settle(j, o) ==
  LET i == Home[j]
      m == noted[i]
      deferred == m.deferred \ (o.ok \cup o.bad)
      lost == o.bad \cap m.retried
  IN \E A \in Retries(m, o) :
     LET retried == ((m.retried \ o.ok) \ o.bad) \cup A
     IN \E D \in Defers(retried, deferred, o) :
        LET still == o.wait \cap (retried \cup deferred)
            back == A \cup still \cup D
            held == (o.bad \cup o.wait) \cap (m.retried \cup m.deferred)
            over == (o.bad \ (m.retried \cup A)) \cup (o.wait \ (still \cup D))
            fresh == over \cup (back \ held)
        IN /\ noted' = [noted EXCEPT ![i] = [retried |-> retried, deferred |-> deferred \cup D]]
           /\ notes' = [notes EXCEPT ![i] = @ \cup back]
           /\ \E F \in Offered(fresh, over) :
                /\ job' = [Renoted(i, back) EXCEPT ![j] =
                             IF F = {} THEN Idle ELSE [at |-> "commit", keys |-> F, same |-> {}]]
                /\ LetGo(lost \cup (over \ F))

\* ship: the POSTs of the flush and what it owes after them.
PostNotes(j) ==
  /\ job[j].at = "post"
  /\ NoPark
  /\ \E o \in Outcomes(job[j].keys) :
       /\ IF o = Fated(job[j].keys) THEN UNCHANGED budget ELSE Spend("troubles")
       /\ Tells(o)
       /\ Settle(j, o)
  /\ UNCHANGED <<change, drain>>

\* FlushBatch::flush_with: the one batch that parks the new note-backs.
CommitFlush(j) ==
  /\ job[j].at = "commit"
  /\ \E L \in ParkLands(job[j].keys) : Park(L)
  /\ job' = [job EXCEPT ![j] = Idle]
  /\ LetGo(job[j].keys \ notes[Home[j]])
  /\ UNCHANGED <<change, told, notes, noted, drain, budget>>

\* The batch faults: the notes stay in memory, except those it had no room for.
FaultFlush(j) ==
  /\ job[j].at = "commit"
  /\ Spend("troubles")
  /\ job' = [job EXCEPT ![j] = Idle]
  /\ NoPark
  /\ LetGo(job[j].keys \ notes[Home[j]])
  /\ UNCHANGED <<change, told, notes, noted, drain>>

\* park_withheld, a background flush with no time left: the pot and hop sets are
\* copied.
StartSkip(j) ==
  LET K == notes[Home[j]] \ Lobby
  IN /\ j \in budget.jobs /\ job[j].at = "idle" /\ K # {}
     /\ job' = [job EXCEPT ![j] = [at |-> "park", keys |-> K, same |-> K]]
     /\ NoPark /\ UNCHANGED <<change, told, notes, noted, drain, letGo, budget>>

\* The copy is parked, the skip's first durable write.
ParkWithheld(j) ==
  /\ job[j].at = "park"
  /\ \E L \in ParkLands(job[j].keys) :
       /\ Park(L)
       /\ \/ /\ job' = [job EXCEPT ![j] = [@ EXCEPT !.at = "forget", !.keys = L]]
             /\ UNCHANGED budget
          \/ /\ job' = [job EXCEPT ![j] = Idle]      \* landed, told faulted
             /\ Spend("troubles")
  /\ UNCHANGED <<change, told, notes, noted, drain, letGo>>

\* The park faults: nothing is taken out of memory.
FaultPark(j) ==
  /\ job[j].at = "park"
  /\ Spend("troubles")
  /\ job' = [job EXCEPT ![j] = Idle]
  /\ NoPark /\ UNCHANGED <<change, told, notes, noted, drain, letGo>>

\* forget: what the park landed leaves the set, at the version the copy read.
Forget(j) ==
  /\ job[j].at = "forget"
  /\ notes' = [notes EXCEPT ![Home[j]] = @ \ (job[j].keys \cap job[j].same)]
  /\ job' = [job EXCEPT ![j] = Idle]
  /\ NoPark /\ UNCHANGED <<change, told, noted, drain, letGo, budget>>

\* The isolate ends: its notes, its memory and its jobs are gone, but a batch on
\* its way to D1 may still arrive.
EndIsolate(i) ==
  /\ Spend("deaths")
  /\ notes' = [notes EXCEPT ![i] = {}]
  /\ noted' = [noted EXCEPT ![i] = [retried |-> {}, deferred |-> {}]]
  /\ \E sent \in SUBSET {j \in Job : Home[j] = i /\ job[j].at \in {"commit", "park"}} :
       job' = [j \in Job |-> IF Home[j] # i THEN job[j]
                             ELSE IF j \in sent THEN [job[j] EXCEPT !.same = {}] ELSE Idle]
  /\ NoPark
  /\ LetGo(notes[i] \cup UNION {job[j].keys : j \in {n \in Job : Home[n] = i}})
  /\ UNCHANGED <<change, told, drain>>

-----------------------------------------------------------------------------
(* The drain. *)

Resting == [at |-> "read", set |-> "notes", read |-> [k \in Key |-> 0], fresh |-> {}, ok |-> {}, bad |-> {}]

SetOf(name) == IF name = "lobby" THEN Lobby ELSE Key \ Lobby

\* After one set the next, the lobby last, and then the sweep.
NextSet(d) == IF drain[d].set = "notes" THEN [Resting EXCEPT !.set = "lobby"]
                                        ELSE [Resting EXCEPT !.at = "sweep"]

\* Mutant: a refused row is chunked with the others again.
FreshAll(K) == K

\* The rows that no POST has refused yet.
Fresh(K) == {k \in K : rows[k].attempts = 0}

\* PARKED_READ_SQL: the due rows of one set, each with its generation.  The tick or
\* POST /admin/complete-proofs starts the pass (drain_parked); one over an empty
\* table does nothing.
ReadParked(d) ==
  LET due == {k \in SetOf(drain[d].set) : Active(k) /\ rows[k].due}
  IN /\ d \in budget.drains /\ drain[d].at = "read"
     /\ drain[d] = Resting => HeldKeys # {}
     /\ \/ /\ drain' = [drain EXCEPT ![d] =
                IF due = {} THEN NextSet(d)
                ELSE [@ EXCEPT !.at = "post",
                               !.read = [k \in Key |-> IF k \in due THEN rows[k].generation ELSE 0],
                               !.fresh = Fresh(due)]]
           /\ UNCHANGED budget
        \/ /\ drain' = [drain EXCEPT ![d] = NextSet(d)]     \* the read faults
           /\ Spend("troubles")
     /\ NoPark /\ UNCHANGED <<change, told, notes, noted, job, letGo>>

ReadKeys(d) == {k \in Key : drain[d].read[k] # 0}

Both(f, r) == [ok |-> f.ok \cup r.ok, bad |-> f.bad \cup r.bad, wait |-> f.wait \cup r.wait]

Posted(r, o) == [r EXCEPT !.at = IF o.ok = {} THEN "refuse" ELSE "unpark",
                          !.fresh = {}, !.ok = o.ok, !.bad = o.bad]

\* ship_isolating: the fresh rows in chunks, then each row that was refused
\* before, alone.
PostParked(d) ==
  LET fresh == drain[d].fresh
      retry == ReadKeys(d) \ fresh
  IN /\ drain[d].at = "post"
     /\ \E f \in Outcomes(fresh), r \in Outcomes(retry) :
          /\ IF f = Fated(fresh) /\ r = [ok |-> retry \ Poison, bad |-> retry \cap Poison, wait |-> {}]
             THEN UNCHANGED budget ELSE Spend("troubles")
          /\ Tells(Both(f, r))
          /\ drain' = [drain EXCEPT ![d] = Posted(@, Both(f, r))]
     /\ NoPark /\ UNCHANGED <<change, notes, noted, job, letGo>>

\* Mutant: the delete names the key alone.
UnparkedByKey(d) == drain[d].ok

\* UNPARK_SQL: a delivered row goes, only at the generation that was read.
Unparked(d) == {k \in drain[d].ok : rows[k].generation = drain[d].read[k]}

Unpark(d) ==
  /\ drain[d].at = "unpark"
  /\ drain' = [drain EXCEPT ![d] = IF @.bad = {} THEN NextSet(d) ELSE [@ EXCEPT !.at = "refuse", !.ok = {}]]
  /\ \/ /\ rows' = [k \in Key |-> IF k \in Unparked(d) THEN NoRow ELSE rows[k]]
        /\ UNCHANGED budget
     \/ /\ Spend("troubles")         \* the delete faults: the row is sent again
        /\ UNCHANGED rows
  /\ UNCHANGED <<seq, parkedAt, gaveUp, change, told, notes, noted, job, letGo>>

\* REFUSE_SQL: an attempt is reserved at the generation read, in one statement;
\* at the last one the row leaves the drain.
Refused(d) == {k \in drain[d].bad : rows[k].generation = drain[d].read[k] /\ ~rows[k].exhausted}

\* Mutant: the attempts are counted down.
RefusedRowDown(r) == [r EXCEPT !.attempts = @ - 1, !.due = FALSE]

RefusedRow(r) == [generation |-> r.generation, attempts |-> r.attempts + 1,
                  due |-> FALSE, exhausted |-> r.attempts + 1 >= MAX_ATTEMPTS]

Refuse(d) ==
  /\ drain[d].at = "refuse"
  /\ drain' = [drain EXCEPT ![d] = NextSet(d)]
  /\ UNCHANGED parkedAt
  /\ \/ /\ rows' = [k \in Key |-> IF k \in Refused(d) THEN RefusedRow(rows[k]) ELSE rows[k]]
        /\ gaveUp' = [k \in Key |-> gaveUp[k] \/ (k \in Refused(d) /\ rows'[k].exhausted)]
        /\ LetGo({k \in Refused(d) : rows'[k].exhausted})
        /\ UNCHANGED budget
     \/ /\ Spend("troubles")
        /\ UNCHANGED <<rows, gaveUp, letGo>>
  /\ UNCHANGED <<seq, change, told, notes, noted, job>>

\* SWEEP_EXHAUSTED_SQL: exhausted rows past their keep time are deleted.
Sweep(d) ==
  /\ drain[d].at = "sweep"
  /\ \E old \in SUBSET {k \in Key : Held(k) /\ rows[k].exhausted} :
       rows' = [k \in Key |-> IF k \in old THEN NoRow ELSE rows[k]]
  /\ drain' = [drain EXCEPT ![d] = Resting]
  /\ UNCHANGED <<seq, parkedAt, gaveUp, change, told, notes, noted, job, letGo, budget>>

\* The back-off of a refused row passes.
Elapse(k) ==
  /\ Active(k) /\ ~rows[k].due
  /\ rows' = [rows EXCEPT ![k].due = TRUE]
  /\ UNCHANGED <<seq, parkedAt, gaveUp, change, told, notes, noted, job, drain, letGo, budget>>

-----------------------------------------------------------------------------

Init ==
  /\ change = [k \in Key |-> 0]
  /\ told = [k \in Key |-> 0]
  /\ notes = [i \in Isolate |-> {}]
  /\ noted = [i \in Isolate |-> [retried |-> {}, deferred |-> {}]]
  /\ job = [j \in Job |-> Idle]
  /\ rows = [k \in Key |-> NoRow]
  /\ seq = 0
  /\ drain = [d \in Drain |-> Resting]
  /\ parkedAt = [k \in Key |-> 0]
  /\ gaveUp = [k \in Key |-> FALSE]
  /\ letGo = [k \in Key |-> 0]
  /\ budget \in Budgets

JobStep(j) ==
  \/ StartFlush(j, Key \ Lobby) \/ StartFlush(j, Lobby)
  \/ PostNotes(j) \/ CommitFlush(j) \/ FaultFlush(j)
  \/ StartSkip(j) \/ ParkWithheld(j) \/ FaultPark(j) \/ Forget(j)

DrainStep(d) ==
  \/ ReadParked(d) \/ PostParked(d)
  \/ Unpark(d) \/ Refuse(d) \/ Sweep(d)

Next ==
  \/ \E i \in Isolate, k \in Key : Note(i, k)
  \/ \E i \in Isolate : EndIsolate(i)
  \/ \E j \in Job : JobStep(j)
  \/ \E d \in Drain : DrainStep(d)
  \/ \E k \in Key : Elapse(k)

Spec == Init /\ [][Next]_vars

\* The tick keeps draining, and a back-off passes.
FairSpec ==
  /\ Spec
  /\ \A d \in Drain : WF_vars(DrainStep(d))
  /\ \A k \in Key : WF_vars(Elapse(k))

-----------------------------------------------------------------------------
(* Properties. *)

TypeOK ==
  /\ change \in [Key -> Nat] /\ told \in [Key -> Nat]
  /\ notes \in [Isolate -> SUBSET Key]
  /\ noted \in [Isolate -> [retried : SUBSET Key, deferred : SUBSET Key]]
  /\ job \in [Job -> [at : {"idle", "post", "commit", "park", "forget"},
                      keys : SUBSET Key, same : SUBSET Key]]
  /\ rows \in [Key -> [generation : Nat, attempts : Nat, due : BOOLEAN, exhausted : BOOLEAN]]
  /\ seq \in Nat
  /\ drain \in [Drain -> [at : {"read", "post", "unpark", "refuse", "sweep"},
                          set : {"notes", "lobby"}, read : [Key -> Nat],
                          fresh : SUBSET Key, ok : SUBSET Key, bad : SUBSET Key]]
  /\ parkedAt \in [Key -> Nat] /\ gaveUp \in [Key -> BOOLEAN] /\ letGo \in [Key -> Nat]
  /\ budget \in [writes : [Key -> Nat], troubles : Nat, deaths : Nat,
                 jobs : SUBSET Job, drains : SUBSET Drain]

\* A key waits in an isolate's memory, in the hands of a flush or in the table.
Waiting(k) ==
  \/ \E i \in Isolate : k \in notes[i]
  \/ \E j \in Job : job[j].at \in {"post", "commit"} /\ k \in job[j].keys
  \/ Active(k)

\* A write that the app layer has not read waits somewhere, unless it was let go
\* by one of the rules that count it: its isolate ended, its retry failed too, the
\* memory was full and its park faulted, or its row's attempts were spent.
Custody == \A k \in Key : told[k] < change[k] => Waiting(k) \/ letGo[k] = change[k]

\* What settle_and_park says of a flush: as long as no isolate ends, no row is
\* exhausted and D1 answers, a write waits somewhere until the app layer has read
\* it, a retry that fails too included.
NothingLost == \A k \in Key : told[k] < change[k] => Waiting(k)

\* The table keeps its ceiling, and the lobby keys their share of it, whatever
\* parks overlap.
WithinCeiling ==
  /\ Cardinality(HeldKeys) <= MAX_ROWS
  /\ Cardinality(HeldKeys \cap Lobby) <= LOBBY_MAX_ROWS

\* The parked table is a list of intents: a row is deleted only when the app layer
\* has read what it was parked for, or was exhausted.
Parked == INSTANCE Intents WITH Item <- Key, wanted <- parkedAt, done <- told,
            open <- [k \in Key |-> Active(k)], dropped <- gaveUp

Implements == Parked!Spec

\* A parked key that the app layer does not refuse is delivered, whatever it was
\* chunked with.
Delivered == \A k \in Key \ Poison : Active(k) ~> told[k] >= parkedAt[k]
=============================================================================
