# A TLA+ model of the overlay: submissions, deferred jobs, change notices, owed marks, the chain feed

These modules specify parts of the overlay under `src/crates/`: the engine's
submit, what the Cloudflare worker does to make its acknowledgement durable, the
jobs to which it defers a submission that outlasts its request, the
notices by which it tells the app layer of a change, the marks by which a
change reaches the list of what an identity is owed, and the walk that judges its
stored proofs again when the chain moves. TLC checks them on small
instances; TLAPS proves theorems about them for every instance. `PROJECT.json`
maps each definition to the lines it models.

## The system

A client posts a transaction (a BEEF: the transaction with its ancestors) to
`/submit` for one or more *topics*. The **engine** (`overlay-engine`) asks the
topic's manager which outputs to admit, marks the coins the transaction spends,
inserts the new outputs, deletes the spent coins nothing retains and records
the transaction as applied. Every one of these is a call to D1 or to a lookup
service, with no transaction around them. The **worker** (`overlay-cloudflare`)
holds the routes, the queues, the storage and the scheduled passes.
**Topic managers and lookup services** (`overlay-discovery`) judge scripts and
keep one table set per topic. The **app layer** (`low-app-layer`) derives from
those tables what each identity is owed and serves and pushes it.

The app layer hears of a change on two roads. The worker *notes* the key it
wrote and POSTs its notes after the answer; what it cannot POST it parks in a
table that a scheduled drain delivers. And the write's own transaction *marks*
the games it touches, by SQL triggers; a queue message, a direct call or a sweep
has them judged, and the judge deletes the marks it has covered.

A submission gated on its broadcast may outlast its request's budget. Its bytes are
then put at rest (in R2, or in chunks in D1), a row names them, and the client is
answered 202 with a reference; the queue's consumers run the row, leg by leg of its
corroboration if need be, until it has a verdict. The scheduled tick hands back a row
nobody has touched for a while, deletes settled rows past their keep, and deletes the
objects no row names.

The chain itself may move under what was stored. chaintracks, the header source,
publishes a journal of chain events; the worker's passes consume it from a cursor in
one row, and for each event that can move a proof they walk the rows anchored in its
heights, judge each stored proof against the headers served now, and re-anchor or
withdraw what is refuted.

### Inventory

| Part | Source | Module |
|---|---|---|
| Engine submit, successor rule, deep delete | `overlay-engine/src/engine.rs`, `overlay-cloudflare/src/d1_storage.rs` | `EngineSubmit` |
| Door, replay queue, dead letters, levers, orphan sweep | `routes.rs`, `queue.rs`, `lib.rs`, `dead_letters.rs`, `beef_blob_sweep.rs` | `Delivery` |
| Eviction and readmission | `admit_fast.rs`, `eviction_write.rs` | one step each in `Delivery` |
| Change notes, flush, parked changes, drain | `change_park.rs`, `change_flush.rs`, `*_changes.rs` | `ChangePark` |
| Owed marks, publication, consumer, sweep, direct calls, belt finds | `derived_owed*.rs`, `owed_events.rs` (both crates), `owed_judge.rs`, `owed_belt.rs` | `OwedMarks` |
| Owed actor, and the read that serves its rows | `owed_actor.rs`, `owed_actor/object.rs`, `owed_read.rs` | `OwedMarks` |
| Chain-event feed, the window's legs, the cursor lever | `chain_feed.rs`, `arcade_reorg.rs`, `reorg_sweep.rs`, `proof_fetcher.rs`, `d1_discovery.rs` | `ChainFeed` |
| Deferred jobs, their bytes and their sweep | `ef_deferred.rs`, `beef_blob_sweep.rs`, `tick.rs` | `EfJobs` |
| What a durable list of work promises | parked changes and owed marks | `Intents` (abstract) |
| Everything else | | see "Not modelled" |

The components and hazards of `PROJECT.json` say the same in detail. Each module
`X` has its instances in `MCX` and its theorems in `X_proofs`. Those of `ChainFeed`
are in three modules over the invariants of `ChainFeedInv`: `ChainFeed_proofs` (the
cursor and the row), `ChainFeedWindow_proofs` (the lemmas on the rows that are walked)
and `ChainFeedRows_proofs`.

## EngineSubmit

One topic. `store` holds the rows of `outputs` (`held`, `spent`, `consumes`,
`consumedBy`) and of `applied_transactions`; `told` is what the lookup services
were told; `notLanded` is `Engine::not_landed`, each engine's memory of what it
saw fault; `run` is the submit each engine is in, with a label for the call it
is at. `store.gone` is a history variable: the coins deleted as stale, each with
the outputs its spender had admitted.

There is one action per awaited call, named after what the code does there:
`ReadApplied`, `ReadCoin`, `Judge` (validation); `Ask`, `Question`, `ReadOwn`,
`Land`, `Rejudge` (the successor rule and carried predecessors); `MarkSpent`,
`SpendHook`, `InsertOutput`, `AdmitHook`, `UndoRead`, `UndoDelete`,
`RecordSpent`, `FindStale`, `DropRow`, `DropHook`, `ReadConsumed`,
`Unreference`, `ReadBack`, `ReadRetained`, `LinkRetained`, `RecordApplied`
(Phase 3). A call answers, errs, stays silent until a finalize's deadline, or is
refused once the deadline is due (`CallBound`). A write that was told faulted
may have landed, may land later (`LandLate`) or never. An invocation may die
anywhere (`Crash`) or end (`NewInvocation`), and with it its memory.

Data is abstract: a transaction is a name with the outpoints it spends; the
manager is the table `Admit`, `Retain`, `Names`; BEEF contents are `Carries`.
A submission is valid: SPV and scripts are not modelled. Several topics in one
call do not share rows and are not modelled together. A GASP finalize is a submit
(`fin`) of a transaction of its graph, ancestors first. An input that only the manager
named may be missing from the graph: the peer does not hold it and the proven node's
branch is pruned (`gasp.rs`), or naming the inputs failed (`gasp_overlay.rs`). So
`Submit` does not wait for it; `store.pruned` (history) is the set of transactions
finalized that way.

## Delivery

A write that faulted is acked only once its bytes are in the mutation queue.
`Present`, `WriteThrough`, `GuardWrite`, `PutBeef`, `SendReplay` are the door;
`TakeMutation` to `NoteAndRetry` the queue's consumer; `TakeLetter` to
`LoseLetter` the dead-letter consumer; `StaleReturn`, `SelectParked`, `Claim`,
`Redrive`, `RevertClaim`, `Discard` the operator's levers; `PlanSweep`,
`HeadOrphan`, `DeleteOrphan` the sweep of R2 objects no row names. `rows` is
`mutation_dead_letters`, changed by operators that mirror its SQL (`Noted`,
`Parked`, `Claimed`, ...). `owed` is a history: the copies acked as queued and
not yet settled. A *copy* is one body of a *letter* (txid and topics); two
copies of a letter may differ in what they carry.

Abstractions: the engine's write is one step that lands, is refused or faults;
an eviction with its move to the twin tables is one step, and so is a
readmission; time is counted in retentions of a queue; the hour after which a
re-drive is returned is any time; a forced re-drive goes at most one past the
ceiling; message kinds other than the replay are left out. A presentation is of a
transaction the door does not find evicted, so the door's readmission and what it does
when that fails (`door_readmit_failed`) are left out.

## Intents, the abstract list

Two parts of the system keep a table of work to be done, and delete an entry
only "at the generation it read". `Intents` says what that buys. Per item:
`wanted` (the newest change an entry was recorded for), `done` (the newest change
the receiver acted on), `open` (an entry stands), `dropped` (the last entry was
given up on record). An entry is closed only by a step after which `done` has
reached `wanted`; `done` never falls. One statement may touch many items at once.
`Settled` follows: an item with no entry that was not given up is done.
`ChangePark` and `OwedMarks` are each shown to implement `Intents` under a
refinement mapping (their `Implements`).

## ChangePark

`change` counts the writes of each key and `told` is the newest one the app layer
has read (it re-reads the truth at every POST, so an accepted POST tells it the
present). `notes` is an isolate's `CHANGES`, `noted` its `NOTED_BACK`; `rows` and
`seq` are the parked table and its token; `job` and `drain` are the flushes and
drains under way. `StartFlush`, `PostNotes`, `CommitFlush`, `FaultFlush` are a
flush with the note-back and the park of `settle_splitting`; `StartSkip`,
`ParkWithheld`, `FaultPark`, `Forget` the background flush that has no time left;
`ReadParked`, `PostParked`, `Unpark`, `Refuse`, `Sweep` the drain; `EndIsolate`
ends one anywhere. A POST that fails may have been handled, a batch told faulted
may have landed.

The mapping to `Intents`: an item is a key, `wanted` the write its row was last
parked for (`parkedAt`), `done` what was told, `open` a row that is not exhausted,
`dropped` that its row was exhausted and not parked since.

Abstractions: pots, hops and lobbies are one machine, with the lobby's share of
the table; the chunks of a flush are any partition of its keys, each with an outcome of
its own (`Outcomes`); a batch parks at most `OUTBOX_PARK_MAX` keys, first those that a
full memory could not note back, which are let go if they are past the bound
(`Offered`); back-off times are a `due` flag that
may become true at any time; counters and the word frames, which ride the same
table under a kind of their own, are left out.

## OwedMarks

One identity. `ver` counts the writes of each (source, sourceKey) pair, `mark` is
`owed_dirty` with its generations, `rows` the D1 judge's rows, `actor` the
identity's Durable Object with its own rows, the generations it has *covered*, its
held events and its turn. A row is the vector of writes it was judged over. `job`
is what each judge is doing: the consumers, the belt's find, the direct call, the
actor's bootstrap, and the call of a walled pass that goes on without it
(`zombie`).

A delivery goes `Bound`, then by the phase of the cutover: in A `Seen`, `Facts`,
`Commit` (the D1 judge, whose rows are served); in B the actor's `Hold`, `Turn`,
`Closure`, `Land` and then the D1 judge, which acknowledges; in C the actor and
then `Ack`. `Take`, `Delivered`, `DeliveryFault`, `Fate`, `Wall` are the consumer
with its fault memos, `Publish`, `PublishLost`, `Sweep`, `StampLapses` the roads of
a message, `Find`, `FindWrite`, `FindCommit` the belt, `BootStep`, `Stamp`, `Reset`
the actor's life. `ReadMarks` and `ReadRows` are the two calls of a read: the
presses of a game are withheld over a mark that the actor has not covered.

The mapping to `Intents`: an item is a game of a pair, `wanted` the pair's writes,
`done` the writes the *served* row was judged over, `open` that a mark stands or
that the actor is not bootstrapped or holds the game.

Abstractions: facts are read at one instant (after the marks, as in the code); a
consumer has one message at a time; time is left out, so a hold, a stamp or a
message's age may end at any moment; a dead letter is a message that leaves the
queue; the sweep sees every pair (its cursor and caps are not reached by two); one page of
the bootstrap covers every game; a page or a drain that faults is tried again by the
next alarm (`BootEnd`), and the park of a bootstrap that has faulted
`BOOT_FAULTS_PARK` (5) alarms in a row, which only the operator's lever ends, is left
out, so `Judged` is about a bootstrap with fewer;
every mark is one that withholds presses, and every apply covers what it read;
`FAULT_HOLD_AFTER` is 1 in the runs (3 in the code). Phase A's actor, whose rows
nothing serves, carried rows, the tip, the re-judge of a new build and the KV copy
are left out. After a reset the actor keeps rows that nothing serves until the
bootstrap has written them anew.

## ChainFeed

`row` is `overlay_chain_events`: a version and the state document (cursor, window in
hand with the progress of its three legs, stop, released windows). `pass` is what each
overlapping pass is doing, with the document it would write, the version it read, its
page of envelopes, its memo of header verdicts and its courier budget; `lever` is the
operator's POST. `canon` is the block the header source serves at each height, `gone`
(history) the event that took a block off the chain. A stored proof is the height and
the block it is anchored to (`proof`); `held` is the height under which the row is
confirmed or latched. `past` (history) says what became of each event that the row's
cursor passed.

`Start`, `Page`, `Take`, `WriteLands`, `WriteLoses`, `WriteFaults`, `WriteNothing`
are `consume_chain_feed` with its `write_now!`; `Leg`, `JudgeRow`, `Ladder`,
`Reanchor`, `Apply`, `Reread`, `Recheck`, `Demote` are the legs of `judge_window_legs`.
`Apply` is one write of `apply_pushed_proof_to_pot_stores` at a time: the proof is
stored, an unconfirmed row confirmed, a confirmed one moved, each whatever became of
the one before and with the chain and the other passes free to move in between; if
none landed, `Reread` looks whether another pass stored the same proof. `ReadFaults`, `LegReadFaults`, `RowFaults`, `ApplyFaults` are
what may fail there; `Drop` ends a pass anywhere. `Publish` is the chain moving, and
may happen between any two of these. Between two awaits a pass is the pure operators
`Loop`, `Ran`, `NextLeg`, `LegEnds`, `NextRow` on its record.

Abstractions: four pairs of awaited calls are one action, because nothing that is
decided between them is kept: the read of a row's proof and the header's verdict on it,
the refuting verdict and the unlatch of a pot or a hop, the demotion and the unlatch
after it (its own failure is in `RowFaults`), and the two statements of a leg's page.
A page's rows whose proof is empty are left out. The verified tip is the present one,
without the 30 s of its cache: `WindowJudged` is about the window that was taken.
Events of the kinds that select the rows of their own heights are one
kind, those that select nothing another; a courier serves a proof of any block served
now, or none; the three legs share one table, each row belonging to one leg; a row
without a stored proof is left out, and so are the routine sweep, Arcade's orphan
listing and the writers that confirm rows beside the consumer.

## EfJobs

One reference. `row` is its row of `ef_deferred_jobs`, with an age instead of
`updated_at`; `bytes` is what of it is at rest, `touched` the age of the R2 object;
`queue` the number of its messages. `req`, `run` and `cron` are what each request,
each consumer and the tick are doing, with what they read. `past` (history) numbers
the presentations and says what became of the newest: it is *owed* its verdict, its
job is *over* (a verdict, the attempts spent, a faulted read), or a step under way
for an earlier presentation, or in D1 a re-presentation cut while it put its bytes,
*crossed* it. The next presentation that puts its bytes whole is not crossed.

`Present`, `DeleteChunks`, `Put`, `Upsert`, `SendJob` are `put_at_rest`; `Deliver`,
`Take`, `Load`, `Arm`, `Advance`, `SendNext`, `Settle`, `Release` are `run_job`;
`Quiet`, `HandBack`, `Touch`, `ReadExpired`, `DeleteJob`, `ReleaseSwept` are
`redrive`, and `ListPage`, `KeysWithRows`, `Head`, `DeleteObject` the pass over the
objects, which the tick runs after it. `RequestEnds`, `RunDies`, `CronEnds` cut each
of them anywhere; `DeliverFaults`, `LoadFaults`, `RunFaults` and the last alternatives of the cron's actions are the calls that err.

Abstractions: jobs share nothing but the limits of the cron's two lists, so one stands
for all; the arm (`submit_resumed`) is its answer, a verdict, a fault or a leg
reached; its duration is time that passes (`Tick`), and everything else takes none;
the answers to the client are left out. A request is cut between two calls: one dropped
at `DEFER_AT_REST_CAP_MS` with a statement in flight is one that ends after that call,
for nobody asks whether the request is still there. A tick whose read of the expired rows
faults ends there; the code goes on to the pass over the objects, which the next tick
runs.

## Runs

Passing runs:

| Run | Instance | Shows |
|---|---|---|
| `engine_chain` | three transactions, one engine; one fault of any kind, or two deaths | `TypeOK`, `NeverTwoHeads`, `NeverNone`, `NoResurrection` |
| `engine_join` | two openers, a join, its spend; history named and carried; one fault | `NoOvertaking`, `Converges` |
| `engine_keep` | four transactions, a retained coin that two outputs consume; one fault | `AppliedWhole`, `AppliedIsIndexed`, `HistoryKept` |
| `engine_race` | two transactions, two engines; one fault, one death, any statement landing late | `Accounted`, `StaysGone` |
| `delivery_custody` | two copies of one letter, both in R2 or one inline, one of them twice; a second letter; ceiling of one; up to two troubles | `TypeOK`, `Custody`, `HeldWithinCeiling`, `DroppedIsUnnamed` |
| `delivery_keep` | one letter in R2; an eviction, a discard, three retentions; up to two troubles | `Custody`, `Delivered` |
| `change_park` | seven scenarios of up to two flushes in one or two isolates and two drains; a refused key; a table of two places, one for the lobby; a batch that parks one key | `TypeOK`, `Custody`, `WithinCeiling`, `Implements`, `Delivered` |
| `owed_marks` | fifteen scenarios over two pairs and two games in the three phases | `TypeOK`, `ReadCurrent`, `Implements`, `Judged` |
| `feed_walk` | seven journals of up to three events, two rows, two passes; a fault, a drop or a lever; pages of one to three rows, one kept release | `TypeOK`, `WindowJudged`, `CursorAccounted`, `ReleasedRecorded`, `CountedOnce` |
| `feed_drains` | three smaller ones, with legs that may fault at every pass | `Drains` |
| `ef_jobs` | four instances of one or two consumers and one or two presentations, in R2 and in D1, with up to two legs; a fault, a cut or neither | `TypeOK`, `Custody`, `LegsForward`, `Settles`, `Swept` |

The run that TLC refutes, against a sentence of the repository:

| Run | Sentence | What happens |
|---|---|---|
| `engine_tree` | the deep delete deletes rows "if they become unreferenced" (`engine.rs:4862`) | the walk goes on below a row it kept, with no fault at all |

### What the passing runs assume

The passing runs leave out exactly what the refuted one and the list below
need; a reader should not take them for more.

- Engine: a late insert is excluded (`LateKinds`) but in `engine_race`, because it is
  refuted. `NoOvertaking` excepts a transaction finalized without an input its manager
  named, and `Converges` a behaviour with one (`store.pruned`, see below).
  `engine_keep` retains one level of history and is without deaths; `HistoryKept` is
  about its states without a fault (see below). `engine_chain` has a fault or deaths, not both.
  The one-head properties are for one engine at a time.
- Delivery: one invocation of each handler. For the dead-letter consumer that is
  the deployed `max_concurrency = 1`; for the others it is a bound. An eviction
  meets one presentation of the bytes, not two. A park told
  faulted may have landed at once, not later. `delivery_custody` has no erring
  topic. The queues hold two messages at once (the scenarios of
  `delivery_custody` were also checked with three: 2,058,887 states, no error);
  each is delivered once before the dead-letter queue, and a letter is re-driven
  once, and once forced.
- Parked changes: `Custody` excuses what the code itself counts as lost: an
  isolate that ends with notes in memory, a second failure, a full memory whose
  park faulted or found no room, a row whose attempts are spent. `Delivered` is
  about keys that the app layer does not refuse.
- Owed marks: in Phase A there is one writer of D1's rows at a time (the consumer
  without walls, or the belt's finds), because two are refuted (below). Walls,
  finds beside a consumer, resets and direct calls are in Phases B and C. The
  pairs of scenarios are chosen so that every two of these meet in some phase
  with a re-mark; all of them at once are not in one behaviour.
- Chain feed: `WindowJudged` excepts a row left standing by the memo of a pass that
  judged an earlier event, and one written while its proof's block was off the chain: a
  courier's proof stored after its block had left, or a row moved without its proof
  (see below). It is about the height a row is filed at, by which a window finds it;
  that height may be another than its proof's (see below). Two passes run at once;
  a release is of one window, for `UNRESOLVED_KEPT` is 1 (20 in the code); faults of a
  leg are not bounded, those of a read or write of the row are, to one.
- Deferred jobs: `Custody` excepts a submission presented again while something was
  still under way for its earlier presentation, or cut in D1 while it put its bytes
  (`crossed`, see below), and one whose
  read of its bytes faulted. `JOB_ATTEMPTS` is 2 (5 in the code); the resume time is 1
  unit, the keep and the platform's wall 2. D1's bytes are two chunks. The safety
  properties were also checked with two consumers, two presentations, a fault and a
  cut together (4.4 million states for each of R2 and D1), and are proved in general.

Bounds are the smallest at which the cases meet: three links are the shortest
chain with a middle transaction that is both successor and predecessor; two
copies, one place under the ceiling and two messages let a park, a re-drive and
a replay of one letter overlap while another letter waits for its place; two
writes of a key are the fewest at which a delivery can be of the older one; two
games of one pair, and a second pair on one of them, are the fewest at which a
delivery acknowledges a mark its message did not name; two rows and pages of one are
the fewest at which a leg outlives a pass, two events the fewest at which one is judged
while the next has happened already.

### Known counterexamples without a run

Found with TLC on larger instances or wider assumptions:

- the replay of a lighter copy that is durable with a FAILED topic deletes the row of
  the heavier parked copy, whose submission landed nowhere, against "the row is a copy
  of nothing" (`dead_letters.rs:14`; `Custody` on `TwoCopies` with `Erring = {"a"}`);
- a key written again while the drain delivers its parked row, and whose flush fails,
  counts as the retry of the first failure: it is neither noted back nor parked, and
  the drain deletes the old row, against "a retry that fails too, loses no outpoint:
  the cron's drain delivers it" (`pot_changes.rs:183`; `NothingLost` on `TwoFailures`);
- a block that one event keeps and the next takes off is judged standing for both by
  the memo of one pass, and the second event is passed, against "against the active
  header's root" (`chain_feed.rs:14`; `WindowJudged` without its exception, on the
  fifth instance of `feed_walk`);
- a re-anchoring whose `pot_beefs` write faults while its row's move lands counts as
  re-anchored: the row stays confirmed on the refuted proof and the cursor passes the
  event (`reorg_sweep.rs:295`; likewise);
- a pass that finds a row's proof at another height than its page said moves the row
  there, with nothing that binds the move to that proof: another pass has re-anchored
  the row meanwhile, so it is filed at a height that is not its proof's, and a later
  event at the proof's height misses it (`reanchor_confirmed_for_spender`,
  `reorg_sweep.rs:520`; `WindowJudged` without its exception, one row, three reorgs
  over two heights, two passes, with the proof's height in place of the row's); two
  passes whose re-anchorings of one row cross leave it so too, and a pass dropped
  between the proof's write and the move;
- a finished event whose write faults, and whose trailing retry lands, is passed and
  never counted (`chain_feed.rs:707`), which `CountedOnce` allows;
- Phase A's find acknowledges its own mark at any generation, and with it a write of
  the same outpoint that it did not read (`ACK_DIRTY_SQL`, `owed_judge.rs:189`),
  against "so an in-flight judge cannot erase the re-mark" (`derived_owed.rs:111`;
  `MarkStands` on `FindScenario`);
- a submission presented again while a run or the sweep is about to settle its
  earlier job or release its bytes is ended with it, against the re-read that
  `JOB_DELETE_SQL` makes for a re-presentation (`ef_deferred.rs:511`; `Custody` of
  `EfJobs` without `crossed`);
- the cron's touch, or a second run's statements, reopen a job that settled as done
  since it was read; its bytes are gone, so its next run fails it, against the comment
  on `JOB_TOUCH_SQL` (`ef_deferred.rs:497`): a run may last 15 minutes, and a row is
  quiet after 10;
- a transient fault of a read of the bytes fails the job at once and releases them
  (`ef_deferred.rs:1106`);
- a settle that faults after a verdict is followed by the release of the bytes all the
  same, so the job is handed back and fails;
- chunks in D1 that no row names are deleted by nobody, and a re-presentation in D1
  that dies after `CHUNKS_DELETE_SQL` leaves the job that stood without its bytes;
- two engines break `NeverTwoHeads` and `NoResurrection` with no fault, and `NeverNone`
  with one hook fault (`undo_inserts` deletes a row another engine relies on, `engine.rs:2741`);
- a death between the inserts of a two-output transaction breaks `AppliedWhole`
  (`engine.rs:2044`); one between an insert and its hook breaks
  `AppliedIsIndexed`;
- two faults break `Converges`, `NeverTwoHeads` and `NeverNone`; a fault and a death
  break `NeverTwoHeads`;
- a fault of the manager's history naming breaks `NoOvertaking`, as the code's
  comment says, and so does a finalize that goes without an input its manager named: it
  is recorded without its coin, and when the predecessor lands that coin stays unspent
  for good (`NoOvertaking` with `store.applied` for the set it is about; `Converges`
  without its condition);
- a fault of `ReadRetained` leaves an output out of the `consumedBy` of the coin it
  consumes; the coin is deleted when its other consumer is spent (`HistoryKept` without
  its condition on faults, on the instance of `engine_keep`);
- an insert that is told faulted and lands after its coin was replayed, spent and
  deleted leaves two unspent heads, against "never has two unspent heads ...
  whatever single call faults" (`engine.rs:1500`; `NeverTwoHeads` and
  `NoResurrection` with `"insert"` among `LateKinds`);
- a retained coin whose own applied row had faulted is pruned by the deep delete,
  which records nothing, and comes back unspent at its replay, against "first
  records that coin's transaction as applied" (`engine.rs:1497`; `NoOvertaking`
  on the instance of `engine_keep` with named history);
- a re-driven letter changes class while it holds its place, so "not now" letters
  exceed `NOT_NOW_MAX`, against `dead_letters.rs:110` (`NotNowShare` with two
  letters parked as faults);
- a park told faulted that lands after the redelivery's ceiling read makes the
  key it drops the one the row names, against `dead_letters.rs:1196`
  (`DroppedIsUnnamed` with `"park"` among `LateAnswers`);
- in Phase A the belt's find and the consumer are two writers of D1's rows: the
  one that read first and commits last puts an older judgement over a newer one
  whose marks are gone (`Implements`), against "ONE judge at a time fleet-wide"
  (`owed_events.rs:56`);
- in Phase A a batch of a walled pass that lands after the redelivery's does the
  same;
- two dead-letter consumers at once break `DroppedIsUnnamed`;
- the object delete of a discard, racing a new presentation of the same bytes,
  breaks `Custody`;
- the same bytes presented twice around an eviction break `Custody`: the first
  message is acked under the eviction and its ack deletes the shared object after
  the second was acked as queued; once the transaction is readmitted, the second
  message names an object that is gone.

### Fairness

`EngineSubmit` assumes that an invocation which is not killed runs on, every
call answering or timing out (weak fairness of `Progress`), and that a
transaction not recorded is presented again and again (strong fairness of
`Submit`: the queue's replay, a re-drive, a resubmit or a GASP peer).
`Delivery` assumes that the platform delivers what its queues hold and running
handlers go on. It also assumes an operator who keeps calling the re-drive
lever: nothing in the worker calls it, so without that a parked letter rests.
Nothing is assumed of the sweep, evictions or late statements.
`ChangePark` assumes that the tick keeps draining and that back-offs pass; nothing
is assumed of an isolate, which may never flush again. `OwedMarks` assumes that
judges under way and the actor's alarm go on (one weak fairness over all of them:
each delivery is finite), that time passes a hold and a stamp, that the belt's
alarm sweeps and publishes each pair, and that the queue delivers a pair's message
if it can do so again and again. `ChainFeed` assumes that events which happened are
published and that a pass is run again and again and runs to its end or is dropped (the
scheduled tick and the block events; weak fairness of each pass's steps). `EfJobs` assumes that
the queue delivers, that a request goes on, that a run goes on or dies at the
platform's wall, that the tick runs, and that time passes whenever it can again and
again. Nothing makes a writer write, a look find or a
call fault. The troubles of a run are finite.

## Proofs

`EngineSubmit_proofs` proves, from `SubmitAssumption` alone (the types of the
constants, and that a manager admits only a transaction's own outputs):

- `SubmitTypeCorrect`: `Spec => []TypeOK`;
- `SubmitAccounted`: `Spec => []Accounted`;
- `GoneCoinsAccounted`: `Spec => []GoneIsAccounted`. A coin is deleted as stale
  only once its transaction is recorded, so that a replay of it is a duplicate,
  and once every lookup service was told of its spend.

They hold for any number of engines, transactions, faults, deaths and late
statements of every kind. `GoneIsAccounted` is not inductive: a delete may be
in flight, or about to be sent by a submit many calls after its hooks ran.
`Accounted` adds what each of these relies on. A delete in `late` is accounted
for (`DeletesAreAccounted`), and a submit past its marks has told every coin's
spend, with the coin it deletes being its own and that coin's transaction
recorded (`SubmitAccounts`). Records and announcements only grow, so one
engine's step cannot disturb another's account (`OneEngine`); `DeleteAccounts`
is the one step that uses it. The types come first and are used throughout.

- `StaysGoneHolds`: `Spec => StaysGone`, with no further hypothesis. A deleted coin
  may come back: a late insert lands, or a second engine inserts what its dedup read
  found unrecorded before the first engine recorded and deleted it (see the
  counterexamples). The theorem says that these are the only ways: once no such insert
  and no submit of the coin's transaction past its dedup read is in flight (`Settled`),
  the coin is never inserted again, for `Settled` itself lasts.

`StaysGone` is about one step, which `Accounted` justifies: a transaction with a deleted
coin is recorded, records are never taken back, and so a submit that begins after it
ends at its dedup read. That a submit comes past that read no other way, suspended and
resumed, or landed from a BEEF, is one lemma over the steps of a submit
(`ProgressSteps`); that no other statement brings an insert about is another
(`LateStays`).

`ChangePark_proofs` proves, from `ChangeParkAssumption` (a finite set of keys and the
types of the constants), for any keys, isolates, flushes and drains:

- `TypeCorrect`: `Spec => []TypeOK`;
- `CeilingHolds`: `Spec => []WithinCeiling`, because `PARK_SQL` counts the rows in
  the statement that inserts one;
- `ParkImplementsIntents`: `Spec => Implements`. The inductive invariant `TInv`
  adds to the types that no row or drain knows a generation past `seq` (`Order`),
  that what a drain read is the row's generation or an older one (`Reads`), and
  `Sound`: once a drain's POST of a row was accepted, the app layer has read what
  that row, at that generation, was parked for. Without it the delete is not
  justified, for the POST and the delete are two steps with a re-park in between;
- `CustodyHolds`: `Spec => []Custody`. It is not inductive, because a skip forgets
  a note one step after it parked it and the drain may have deleted the row
  meanwhile; `Safe` says of each key that it was told, let go, has a row parked
  since its last write, or is in the hands of an isolate that is not about to
  forget it;
- `ParkSettles`: `Spec => []Parked!Settled`. What a list of intents promises holds of
  the parked table: a key with no row that was not given up has had its newest parked
  change read. It follows from the refinement and the abstract specification alone.

`EfJobs_proofs` proves, from `EfJobsAssumption` (the types of the constants, finitely
many consumers, a resume time shorter than the keep), for any number of requests,
consumers, presentations, faults and interruptions, in R2 and in D1:

- `CustodyHolds`: `Spec => []Custody`. Custody is not inductive: a run may settle a
  job, or the sweep release its bytes, many steps after they read the row. `Inv` says
  of each of these that a presentation it is about to end may end, or is being put
  again (`Endings`); that chunks being rewritten are whole as far as the last request
  to delete them has put them (`Whole`); that an object whose stamp is still the
  listed one has no row (`Orphan`); and who is at work for which presentation (`Known`,
  `Spans`);
- `LegsForwardHolds`: `Spec => LegsForward`, from the types alone;
- `TypeOKHolds`: `Spec => []TypeOK`. The bound on the attempts is the interesting
  conjunct: `Attempts` counts the runs that have read the row and not yet taken it.

`ChainFeed_proofs` and `ChainFeedRows_proofs` prove, from `ChainFeedAssumption` (the
types of the constants and of an instance, finitely many rows, and that the block
numbered 1, which every height begins with, is a block), for any journal, any number of
passes and rows, and any faults, drops and levers:

- `CursorAccountedHolds`: `Spec => []CursorAccounted`;
- `ReleasedRecordedHolds`: `Spec => []ReleasedRecorded`;
- `CountedOnceHolds`: `Spec => []CountedOnce`;
- `WindowJudgedHolds`: `Spec => []WindowJudged`;
- `TypeOKHolds`: `Spec => []TypeOK`.

None is inductive, because a pass writes at the end what it decided many steps
before. `Inv` says of each pass that the event it has in hand is the one after its
cursor and that its page has no gap after that (`IsDoc`, `Buffered`); that it has
ended every event between the document it last wrote and the one it would write, and
counts no others (`Accounts`); that it has released at most one window, which its
document names (`NoRelease`, `OneRelease`); and that a pass, or the lever, whose
version is the row's has made its document from the row's (`Current`, `LeverOK`).
A write that lands therefore adds to the past exactly what its document says, and
makes every other reader's version old. `ReleasedRecorded` also needs that to trim a
trimmed list after an append is to trim the whole list (`KeptIsLast`).

`WindowJudged` needs an invariant of its own, `RowsInv`. A row that the window in hand
owes a judgement (`Owed`: it rests on a block that this event, or an earlier one, took
off the chain) is ahead of the cursor of its leg, which is not exhausted (`Walked`).
Once a page is read, the row is among those of the page still to be judged or, if the
page was full, after all of them (`JudgedTo`, `Remains`). That survives the other pass,
because every write to a row leaves it as it was, on a block that stands, withdrawn or
late, and no row comes to rest on a block that an event of the past took (`Steady`).
That is so of each of the three writes of a re-anchoring by itself, whichever of the
others landed. A
leg is exhausted only by a page that was not full, so a window with three exhausted
legs owes nothing and the event is passed with none owed (`Cleared`).
`ChainFeedWindow_proofs` has these lemmas, one per step, and the fact that a finite
page has a first row.

`Delivery_proofs` proves, from `DeliveryAssumption` (the types of the constants and a
finite set of letters), for any copies, slots of the queues, doors, consumers, parkers,
levers and troubles, late answers and retentions:

- `EachHoldsItsOwn`: `Spec => [](TypeOK /\ HeldOnce /\ OwnBytes(rows))`. Each consumer
  or parker in flight holds a message of its own, in its own queue, that nobody else
  holds (`HeldOnce`), and a row with bytes has a copy of its own letter (`OwnBytes`). It
  is not inductive: `Inv` adds what each statement in flight carries;
- `DroppedHolds`: `Spec => []DroppedIsUnnamed`, with one dead-letter consumer
  (`OneParker`: `max_concurrency = 1` in `wrangler.toml`) and `"park"` not among
  `LateAnswers`. Both are needed (see the counterexamples). `Drops` says
  that the row of a letter about to be parked has no bytes or names the object that the
  parker read, and that what it is about to delete afterwards no row names: every other
  handler may take bytes from a row, and only a park puts any (`Fewer`);
- `HeldCeiling`: `Spec => []HeldWithinCeiling`, with no such hypothesis, for the park
  reads the ceiling in its own statement.

`OwedMarks_proofs` proves, from `OwedMarksAssumption` (the types of the constants, and
that no consumer has the name of another judge), for any pairs, games, consumers,
writes, faults, walls, resets and finds:

- `TypeOKHolds`: `Spec => []TypeOK`;
- `ReadCurrentHolds`: `Spec /\ []OneD1Judge => []ReadCurrent`;
- `MarksImplement`: `Spec /\ []OneD1Judge => Implements`.

`OneD1Judge` is a hypothesis on Phase A only, and is true in Phases B and C: one judge
at a time has facts in hand for D1's rows, and no write of a find's own pair comes
between its facts and its batch. These are the two situations that the list above
refutes; TLC finds it true in the scenarios of `owed_marks`. `Inv` says of each judge
that its facts miss no write whose mark it may delete (`Fresh`), and of one about to
acknowledge that what is served is judged over every write it acknowledges
(`Settling`); that a mark is gone only from a row judged over the pair's last write
(`MarkOK`); that the actor's covered generations are in its rows (`RowsOK`); that one
judge at a time has the actor's turn (`TurnOK`); and that a row not judged over enough
is held for the drain or still to be paged (`Enough`, `BootOK`). Each step is one of
its own judge; all the others see of it that counters grow, that what was judged over
enough stays so, and that a mark stands, is soundly gone, or is raised anew (`Tick`).
What is known of a judge survives a `Tick`, so the proof has one argument per step and
not one per pair of judges.

### Only model-checked

- Liveness (`Converges`, `Delivered`, `Judged`, `Drains`, `Settles`, `Swept`), which is
  out of the prover's reach.
- The engine's `NeverTwoHeads`, `NeverNone`, `NoOvertaking`, `AppliedWhole` and
  `AppliedIsIndexed`. They hold for the troubles of their runs and are false beyond them
  (see the counterexamples), and they depend on what the managers of an instance admit
  and retain: a general statement needs the one fault, and where it fell, inside its
  invariant.
- `HistoryKept`, which is false for a deeper history (`engine_tree`); the walk of the
  deep delete is an induction over the history.
- `Custody` of `Delivery`, which is false without the restrictions of its runs (an
  erring topic, a discard or an eviction against a second presentation).

## Not modelled

The four crates have some 300,000 lines, most of them handlers, SQL text, tests
and pure derivations; the modules cover the parts where several actors share
durable state. Left out, with the reason:

- **Pure functions over large inputs**: script parsing and covenants
  (`overlay-discovery`), the owed derivation (`owed.rs`, `logic.rs`), BEEF and EF
  encoding. A small instance says little about them, and they have unit tests.
- **Services outside the repository**: the wallet behind the advertiser,
  broadcast, peer crawling and health checks. Nothing durable depends on the order
  of their steps.
- **Reads and plumbing**: views, record posts, auth, rate limits, counters, the
  janitor, migrations.
- **The eviction's move step by step** (`admit_fast.rs`): `Delivery` has it as one
  step. Its statements move rows of a dozen tables; the property of interest is
  about each pair of tables, under a stamp protocol that needs its own model.
- **The routine sweep** (`reorg_sweep.rs`): it judges and rewrites the same rows of
  `pot_records` and `pot_beefs` as the legs of `ChainFeed`, by the same functions, over
  other windows and with a cursor of its own. `ChainFeed` has a second pass beside the
  first and not this third writer.
- **The tick's lease** (`tick.rs`), **GASP** (`gasp.rs`, `gasp_deferred.rs`),
  **push coalescing** (`push_coalesce.rs`): state machines of their own that share
  no table with the modules here; their hazards are listed in `PROJECT.json`
  without a property.

## Checking

In this directory: `tlc -config EngineChain.cfg MCEngineSubmit` (likewise the
other `Engine*.cfg`), `tlc -config DeliveryKeep.cfg MCDelivery` (likewise
`Delivery*.cfg`), `tlc -config ChangePark.cfg MCChangePark`,
`tlc -config OwedMarks.cfg MCOwedMarks`, `tlc -config EfJobs.cfg MCEfJobs`,
`tlc -config FeedWalk.cfg MCChainFeed` and `FeedDrains.cfg`, and `tlapm` on each
`*_proofs.tla`. The longest TLC run takes about two and a half minutes; the proofs take some
fifty minutes together, `OwedMarks_proofs` eighteen of them.
