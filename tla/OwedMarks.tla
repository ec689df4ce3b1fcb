------------------------------ MODULE OwedMarks ------------------------------
(* How a write to a source row reaches the owed list of one identity
   (derived_owed.rs, owed_events.rs, owed_judge.rs, owed_actor.rs, owed_belt.rs
   and owed_read.rs).

   A write marks the games it touches in its own transaction (owed_dirty; every
   mark and re-mark takes a new generation) and publishes its pair to a queue,
   the fast path; a sweep re-publishes pairs whose marks stand.  A delivery reads
   the marks' bound, judges the games from the record as it stands, and deletes
   the marks up to that bound.  Who judges depends on the phase of the cutover:
   in A the D1 judge, whose rows are served; in B the identity's actor (a Durable
   Object, whose rows are served) and then the D1 judge; in C the actor alone.
   The belt's finds and the writers' direct calls judge beside the consumer.

   Time is abstracted: a hold, a stamp and a message's age may end at any moment.
   What is abstracted from the facts is how often each pair has changed; a row is
   as new as the last of a pair's changes it was judged over with all before it.
   Phase A's actor, which nothing serves, is left out. *)
EXTENDS Integers, FiniteSets

CONSTANTS
  Game, Pair,       \* the identity's games; the (source, sourceKey) pairs
  Names,            \* the games each pair's trigger marks
  Consumer,         \* the queue's consumers
  FAULT_HOLD_AFTER, \* the faults in a row after which a memo holds
  Instances         \* the phase and the bounds of a behaviour

ASSUME OwedMarksAssumption ==
  /\ Names \in [Pair -> SUBSET Game]
  /\ FAULT_HOLD_AFTER \in Nat \ {0}
  /\ Consumer \cap {"belt", "direct", "zombie", "boot", "free"} = {}
  /\ Instances \subseteq
       [phase : {"A", "B", "C"}, consumers : SUBSET Consumer,
        writes : [Pair -> Nat], finds : Nat, directs : Nat, faults : Nat, walls : Nat,
        resets : Nat, reads : Nat]

VARIABLES
  ver,    \* per pair: how often its source row was written
  seq,    \* owed_dirty's AUTOINCREMENT
  mark,   \* owed_dirty: per game and pair the generation, 0 for none
  rows,   \* D1's owed_rows: per game, the facts its row was judged over
  actor,  \* the identity's Durable Object
  queue,  \* notes to publish, direct calls to make, messages, lost notes, stamps
  memo,   \* the fault memos of pairs and games, and which hold
  job,    \* what each judge is doing
  read,   \* one read of a game's row
  left    \* the phase, and what is left of the bounds

vars == <<ver, seq, mark, rows, actor, queue, memo, job, read, left>>

Job == Consumer \cup {"belt", "direct", "zombie", "boot"}

Phase == left.phase
Spend(field) == /\ left[field] > 0
                /\ left' = [left EXCEPT ![field] = @ - 1]

Zero == [p \in Pair |-> 0]
Idle == [at |-> "idle", pair |-> {}, games |-> {}, todo |-> {}, landed |-> {},
         faulted |-> {}, bound |-> 0, seen |-> 0, facts |-> Zero]

Init ==
  /\ left \in Instances
  /\ ver = Zero /\ seq = 0
  /\ mark = [g \in Game |-> Zero]
  /\ rows = [g \in Game |-> Zero]
  /\ actor = [warm |-> TRUE, row |-> [g \in Game |-> Zero],
              covered |-> [g \in Game |-> 0], held |-> {}, turn |-> "free",
              paged |-> TRUE]
  /\ queue = [notes |-> {}, direct |-> {}, msgs |-> {}, lost |-> {}, stamps |-> {}]
  /\ memo = [faults |-> [x \in Game \cup Pair |-> 0], held |-> {}]
  /\ job = [j \in Job |-> Idle]
  /\ read = [at |-> "idle", game |-> {}, marks |-> Zero, need |-> Zero, row |-> Zero]

-----------------------------------------------------------------------------
(* owed_dirty *)

Marked(p) == {g \in Game : mark[g][p] # 0}

\* Mutant: the generation before it.
MarksBefore(G) ==
  LET gens == {mark[g][p] : g \in G, p \in Pair} \cup {0}
  IN (CHOOSE m \in gens : \A n \in gens : n <= m) - 1

\* marks_bound: the greatest generation of the games' marks, 0 with none.
MarksBound(G) ==
  LET gens == {mark[g][p] : g \in G, p \in Pair} \cup {0}
  IN CHOOSE m \in gens : \A n \in gens : n <= m

\* ACK_DIRTY_SQL: the games' marks up to a generation, and the pairs it owns.
AckDirty(G, upTo, owned) ==
  mark' = [g \in Game |-> [p \in Pair |->
             IF g \in G /\ (mark[g][p] <= upTo \/ p \in owned) THEN 0 ELSE mark[g][p]]]

\* Mutant: a re-mark keeps the generation of the mark that stands.
DirtyKeeping(p, G) ==
  /\ ver' = [ver EXCEPT ![p] = @ + 1]
  /\ seq' = seq + 1
  /\ mark' = [g \in Game |-> IF g \in G /\ mark[g][p] = 0 THEN [mark[g] EXCEPT ![p] = seq + 1]
                                                         ELSE mark[g]]

\* A transaction that writes the pair's row: its trigger marks the games, each
\* mark or re-mark under a new generation (one for the transaction).
Dirty(p, G) ==
  /\ ver' = [ver EXCEPT ![p] = @ + 1]
  /\ seq' = seq + 1
  /\ mark' = [g \in Game |-> IF g \in G THEN [mark[g] EXCEPT ![p] = seq + 1] ELSE mark[g]]

\* A writer, and the pair noted for its publish.
Write(p) ==
  /\ left.writes[p] > 0
  /\ left' = [left EXCEPT !.writes[p] = @ - 1]
  /\ Dirty(p, Names[p])
  /\ queue' = [queue EXCEPT !.notes = @ \cup {p}]
  /\ UNCHANGED <<rows, actor, memo, job, read>>

-----------------------------------------------------------------------------
(* The publish, the queue and the sweep. *)

\* publish_with: a pair with no mark is skipped; a sent one is held for the
\* writer's direct call as well.
Publish(p) ==
  /\ p \in queue.notes
  /\ IF Marked(p) = {}
       THEN /\ queue' = [queue EXCEPT !.notes = @ \ {p}]
            /\ UNCHANGED left
       ELSE /\ queue' = [queue EXCEPT !.notes = @ \ {p}, !.msgs = @ \cup {p},
                           !.direct = IF left.directs > 0 THEN @ \cup {p} ELSE @]
            /\ left' = [left EXCEPT !.directs = IF @ > 0 THEN @ - 1 ELSE 0]
  /\ UNCHANGED <<ver, seq, mark, rows, actor, memo, job, read>>

\* The send faults: a lost note is written, or the isolate ends before it is.
PublishLost(p) ==
  /\ p \in queue.notes
  /\ Spend("faults")
  /\ \E noted \in {{}, {p}} :
       queue' = [queue EXCEPT !.notes = @ \ {p}, !.lost = @ \cup noted]
  /\ UNCHANGED <<ver, seq, mark, rows, actor, memo, job, read>>

PairHeld(p) ==
  \/ p \in memo.held
  \/ Marked(p) # {} /\ Marked(p) \subseteq memo.held

\* sweep_tick and sweep_publish for one pair: a lost one at once, one whose marks
\* stand unless its stamp blocks; none that is held.  The stamp is written and the
\* lost note deleted before the publish.
Sweep(p) ==
  /\ p \in queue.lost \/ (Marked(p) # {} /\ p \notin queue.stamps)
  /\ ~PairHeld(p)
  /\ p \notin queue.notes
  /\ queue' = [queue EXCEPT !.lost = @ \ {p}, !.stamps = @ \cup {p}, !.notes = @ \cup {p}]
  /\ UNCHANGED <<ver, seq, mark, rows, actor, memo, job, read, left>>

\* Mutant: a swept stamp blocks for good.
StampKept(p) == p \in queue.stamps /\ UNCHANGED vars

\* The horizon, or the long bound, passes a swept stamp.
StampLapses(p) ==
  /\ p \in queue.stamps
  /\ queue' = [queue EXCEPT !.stamps = @ \ {p}]
  /\ UNCHANGED <<ver, seq, mark, rows, actor, memo, job, read, left>>

HoldEnds(x) ==
  /\ x \in memo.held
  /\ memo' = [memo EXCEPT !.held = @ \ {x}]
  /\ UNCHANGED <<ver, seq, mark, rows, actor, queue, job, read, left>>

\* note_fault: the memos of X count one more fault, and hold from the bound on.
NoteFault(X) ==
  LET count == [x \in Game \cup Pair |->
                  IF x \in X /\ memo.faults[x] < FAULT_HOLD_AFTER THEN memo.faults[x] + 1
                                                                  ELSE memo.faults[x]]
  IN memo' = [faults |-> count,
              held |-> memo.held \cup {x \in X : count[x] = FAULT_HOLD_AFTER}]

ClearFaults(X) ==
  memo' = [faults |-> [x \in Game \cup Pair |-> IF x \in X THEN 0 ELSE memo.faults[x]],
           held |-> memo.held \ X]

-----------------------------------------------------------------------------
(* The steps of a delivery, by who delivers and in which phase. *)

\* deliver, actor_then_d1, as_the_judge, phase_b_find, ask_find and call_bodies: a
\* belt find writes first (B, C); the bound is read; the actor applies (B, C); then
\* the D1 judge judges and acknowledges (A, B), or a delivery acknowledges (C).  Of
\* a walled pass only the call in flight goes on.
First(j) == IF j = "belt" THEN (IF Phase = "A" THEN "seen" ELSE "write") ELSE "bound"
AfterWrite == IF Phase = "B" THEN "bound" ELSE "hold"
AfterBound == IF Phase = "A" THEN "seen" ELSE "hold"
AfterApply(j) ==
  CASE Phase = "B" /\ j \in Consumer \cup {"belt"} -> "seen"
    [] Phase = "C" /\ j \in Consumer \cup {"direct"} -> "ack"
    [] OTHER -> "end"
\* A direct call acknowledges what was applied, a delivery what was held too.
AfterHeld(j) == IF j = "direct" THEN "end" ELSE AfterApply(j)

At(j, step) == job[j].at = step

\* deliver: the bound of what may be acknowledged, read before any fact is.
Bound(j) ==
  /\ At(j, "bound")
  /\ job' = [job EXCEPT ![j].at = AfterBound, ![j].bound = MarksBound(job[j].games)]
  /\ UNCHANGED <<ver, seq, mark, rows, actor, queue, memo, read, left>>

\* apply_or_hold_in: an actor that is not bootstrapped holds the games; the
\* drain will not delete what was held again since it listed them.
Hold(j) ==
  /\ At(j, "hold")
  /\ IF actor.warm
       THEN /\ job' = [job EXCEPT ![j].at = "turn"]
            /\ UNCHANGED actor
       ELSE /\ actor' = [actor EXCEPT !.held = @ \cup job[j].games]
            /\ job' = [job EXCEPT ![j].at = AfterHeld(j),
                                  !["boot"].todo = @ \ job[j].games]
  /\ UNCHANGED <<ver, seq, mark, rows, queue, memo, read, left>>

\* covered_at: a delivery under a bound that the actor has covered is a dupe.
Covered(j) == j \in Consumer \cup {"zombie"} /\ \A g \in job[j].games : actor.covered[g] >= job[j].bound

\* The actor's turn.  What the apply will cover is read before its closure.
Turn(j) ==
  /\ At(j, "turn")
  /\ actor.turn = "free"
  /\ IF Covered(j)
       THEN /\ job' = [job EXCEPT ![j].at = AfterApply(j)]
            /\ UNCHANGED actor
       ELSE /\ actor' = [actor EXCEPT !.turn = j]
            /\ job' = [job EXCEPT ![j].at = "closure", ![j].seen = MarksBound(job[j].games)]
  /\ UNCHANGED <<ver, seq, mark, rows, queue, memo, read, left>>

Closure(j) ==
  /\ At(j, "closure")
  /\ job' = [job EXCEPT ![j].at = "land", ![j].facts = ver]
  /\ UNCHANGED <<ver, seq, mark, rows, actor, queue, memo, read, left>>

\* Mutant: the apply covers the marks that stand when it lands.
CoveredNow(j) ==
  [g \in Game |-> IF g \in job[j].games THEN MarksBound(job[j].games) ELSE actor.covered[g]]

CoveredBy(j) ==
  [g \in Game |-> IF g \in job[j].games /\ job[j].seen > actor.covered[g] THEN job[j].seen
                                                                       ELSE actor.covered[g]]

\* The apply commits its rows with what it covers.  The bootstrap's page and drain
\* go on in boot; the drain deletes the held games that it listed.
Land(j) ==
  /\ At(j, "land")
  /\ actor' = [actor EXCEPT !.turn = "free",
                 !.row = [g \in Game |-> IF g \in job[j].games THEN job[j].facts ELSE @[g]],
                 !.covered = CoveredBy(j),
                 !.held = IF j = "boot" THEN @ \ job[j].todo ELSE @,
                 !.paged = @ \/ j = "boot"]
  /\ job' = [job EXCEPT ![j].at = AfterApply(j), ![j].seen = 0, ![j].facts = Zero,
                        ![j].todo = IF j = "boot" THEN {} ELSE @]
  /\ UNCHANGED <<ver, seq, mark, rows, queue, memo, read, left>>

\* The closure met its bound: the actor un-stamps itself and holds the games.
ClosureBound(j) ==
  /\ At(j, "land") /\ j # "boot"
  /\ Spend("faults")
  /\ actor' = [actor EXCEPT !.turn = "free", !.warm = FALSE, !.held = @ \cup job[j].games]
  /\ job' = [job EXCEPT ![j].at = AfterHeld(j),
                        ![j].seen = 0, ![j].facts = Zero]
  /\ UNCHANGED <<ver, seq, mark, rows, queue, memo, read>>

\* judge_with_write_bounded: the marks first, then the facts.
Seen(j) ==
  /\ At(j, "seen")
  /\ job' = [job EXCEPT ![j].at = "facts", ![j].seen = MarksBound(job[j].games)]
  /\ UNCHANGED <<ver, seq, mark, rows, actor, queue, memo, read, left>>

Facts(j) ==
  /\ At(j, "facts")
  /\ job' = [job EXCEPT ![j].at = "commit", ![j].facts = ver]
  /\ UNCHANGED <<ver, seq, mark, rows, actor, queue, memo, read, left>>

\* Its one batch: the rows as judged, and the marks it read, up to the bound.
Commit(j) ==
  /\ At(j, "commit") /\ ~(j = "belt" /\ Phase = "A")
  /\ LET n == job[j]
     IN /\ rows' = [g \in Game |-> IF g \in n.games THEN n.facts ELSE rows[g]]
        /\ AckDirty(n.games, IF n.bound < n.seen THEN n.bound ELSE n.seen, {})
        /\ job' = [job EXCEPT ![j].at = "end", ![j].seen = 0, ![j].facts = Zero]
  /\ UNCHANGED <<ver, seq, actor, queue, memo, read, left>>

\* The belt's find in Phase A: its batch writes the find as well, acknowledges all
\* that the judge read and the find's own mark, and notes the pair.
FindCommit ==
  /\ At("belt", "commit") /\ Phase = "A"
  /\ LET n == job["belt"]
         own == n.pair
         judged == [p \in Pair |-> IF p \in own /\ n.facts[p] = ver[p] THEN ver[p] + 1 ELSE n.facts[p]]
     IN /\ ver' = [p \in Pair |-> IF p \in own THEN ver[p] + 1 ELSE ver[p]]
        /\ seq' = seq + 1
        /\ rows' = [g \in Game |-> IF g \in n.games THEN judged ELSE rows[g]]
        /\ AckDirty(n.games, n.seen, own)
        /\ queue' = [queue EXCEPT !.notes = @ \cup own]
  /\ job' = [job EXCEPT !["belt"] = Idle]
  /\ UNCHANGED <<actor, memo, read, left>>

\* Phase C: the marks of the games that the actor applied or held.
Ack(j) ==
  /\ At(j, "ack")
  /\ AckDirty(job[j].games, job[j].bound, {})
  /\ job' = [job EXCEPT ![j].at = "end"]
  /\ UNCHANGED <<ver, seq, rows, actor, queue, memo, read, left>>

-----------------------------------------------------------------------------
(* The consumer: judge_plan, judge_identity and the message's fate. *)

\* plan, then the first chunk.  A message with nothing to judge is acknowledged,
\* and resolves its pair unless a subject is held.
Take(c, p) ==
  /\ c \in left.consumers /\ At(c, "idle")
  /\ p \in queue.msgs
  /\ LET free == Marked(p) \ memo.held
     IN IF free # {}
          THEN /\ job' = [job EXCEPT ![c] = [Idle EXCEPT !.at = First(c), !.pair = {p}, !.games = free]]
               /\ queue' = [queue EXCEPT !.msgs = @ \ {p}]
               /\ UNCHANGED memo
          ELSE IF Marked(p) = {}
          THEN /\ queue' = [queue EXCEPT !.msgs = @ \ {p}, !.lost = @ \ {p}, !.stamps = @ \ {p}]
               /\ ClearFaults({p})
               /\ UNCHANGED job
          ELSE /\ queue' = [queue EXCEPT !.msgs = @ \ {p}]
               /\ UNCHANGED <<job, memo>>
  /\ UNCHANGED <<ver, seq, mark, rows, actor, read, left>>

\* The next of the games judged one at a time, or none left.
NextOne(c, n) ==
  IF n.todo = {} THEN job' = [job EXCEPT ![c] = [n EXCEPT !.at = "fate", !.games = {}]]
  ELSE \E g \in n.todo :
         job' = [job EXCEPT ![c] = [n EXCEPT !.at = First(c), !.games = {g}, !.todo = @ \ {g}]]

Delivered(c) ==
  /\ c \in Consumer /\ At(c, "end")
  /\ NextOne(c, [job[c] EXCEPT !.landed = @ \cup job[c].games, !.bound = 0])
  /\ UNCHANGED <<ver, seq, mark, rows, actor, queue, memo, read, left>>

\* A step of a delivery faults; a commit or an acknowledgement may have landed.
\* A chunk is judged again one game at a time; a game alone is noted.
Working == {"bound", "hold", "turn", "closure", "land", "seen", "facts", "commit", "ack"}

Free(j) == [actor EXCEPT !.turn = IF @ = j THEN "free" ELSE @]

DeliveryFault(c) ==
  /\ c \in Consumer /\ job[c].at \in Working \cup {"end"}
  /\ Spend("faults")
  /\ LET n == [job[c] EXCEPT !.bound = 0, !.seen = 0, !.facts = Zero]
     IN IF Cardinality(n.games) > 1
          THEN /\ NextOne(c, [n EXCEPT !.todo = n.games])
               /\ UNCHANGED memo
          ELSE /\ NextOne(c, [n EXCEPT !.faulted = @ \cup n.games])
               /\ NoteFault(n.games)
  /\ actor' = Free(c)
  /\ UNCHANGED <<ver, seq, mark, rows, queue, read>>

\* The fate of the message: handed back (or dead-lettered) when all of it faulted,
\* acknowledged and its pair resolved otherwise.
Fate(c) ==
  /\ At(c, "fate")
  /\ LET n == job[c]
     IN IF n.landed = {}
          THEN /\ NoteFault(n.pair)
               /\ \E back \in {{}, n.pair} : queue' = [queue EXCEPT !.msgs = @ \cup back]
          ELSE /\ ClearFaults(n.pair \cup n.landed)
               /\ queue' = [queue EXCEPT !.lost = @ \ n.pair, !.stamps = @ \ n.pair]
  /\ job' = [job EXCEPT ![c] = Idle]
  /\ UNCHANGED <<ver, seq, mark, rows, actor, read, left>>

\* The wall: the pass is dropped and its games noted, its message handed back.  A
\* call in flight goes on without it.
Wall(c) ==
  /\ c \in Consumer /\ job[c].at \in Working
  /\ At("zombie", "idle")
  /\ Spend("walls")
  /\ NoteFault(job[c].games)
  /\ queue' = [queue EXCEPT !.msgs = @ \cup job[c].pair]
  /\ LET flies == job[c].at \in {"hold", "turn", "closure", "land", "commit", "ack"}
     IN job' = [job EXCEPT ![c] = Idle, !["zombie"] = IF flies THEN job[c] ELSE Idle]
  /\ actor' = [actor EXCEPT !.turn = IF @ = c THEN "zombie" ELSE @]
  /\ UNCHANGED <<ver, seq, mark, rows, read>>

-----------------------------------------------------------------------------
(* The direct call, the belt's find, and the end of either. *)

\* direct_with: the pair's games, those held out, and, in Phase C, the bound, in one
\* batch.
Direct(p) ==
  /\ p \in queue.direct /\ At("direct", "idle")
  /\ queue' = [queue EXCEPT !.direct = @ \ {p}]
  /\ LET G == Marked(p) \ memo.held
     IN job' = IF G = {} THEN job
               ELSE [job EXCEPT !["direct"] = [Idle EXCEPT !.at = "hold", !.games = G,
                       !.bound = IF Phase = "C" THEN MarksBound(G) ELSE 0]]
  /\ UNCHANGED <<ver, seq, mark, rows, actor, memo, read, left>>

\* The belt's look found something about an outpoint of one game.
Find(p, g) ==
  /\ At("belt", "idle") /\ Names[p] = {g}
  /\ Spend("finds")
  /\ job' = [job EXCEPT !["belt"] = [Idle EXCEPT !.at = First("belt"), !.pair = {p}, !.games = {g}]]
  /\ UNCHANGED <<ver, seq, mark, rows, actor, queue, memo, read>>

\* Phases B and C: the find's facts and its mark alone.
FindWrite ==
  /\ At("belt", "write")
  /\ \E p \in job["belt"].pair : Dirty(p, job["belt"].games)
  /\ queue' = [queue EXCEPT !.notes = @ \cup job["belt"].pair]
  /\ job' = [job EXCEPT !["belt"].at = AfterWrite]
  /\ UNCHANGED <<rows, actor, memo, read, left>>

\* A judge ends, or faults at any step: what is marked stays so.
Leaves(j) ==
  /\ job[j].at # "idle"
  /\ \/ At(j, "end") /\ UNCHANGED left
     \/ Spend("faults")
  /\ job' = [job EXCEPT ![j] = Idle]
  /\ actor' = Free(j)
  /\ UNCHANGED <<ver, seq, mark, rows, queue, memo, read>>

\* Nothing of these is retried.
Ends(j) == j \in {"belt", "direct", "zombie"} /\ Leaves(j)

-----------------------------------------------------------------------------
(* The actor's bootstrap. *)

\* bootstrap_step: the page over every game, then the held events' drain.
BootStep ==
  /\ ~actor.warm /\ At("boot", "idle") /\ actor.turn = "free"
  /\ actor.paged => actor.held # {}
  /\ LET G == IF actor.paged THEN actor.held ELSE Game
     IN job' = [job EXCEPT !["boot"] = [Idle EXCEPT !.at = "closure", !.games = G,
                  !.todo = G \cap actor.held, !.seen = MarksBound(G)]]
  /\ actor' = [actor EXCEPT !.turn = "boot"]
  /\ UNCHANGED <<ver, seq, mark, rows, queue, memo, read, left>>

\* A page or a drain that faults is tried again by the next alarm, from where it
\* stood: what it had not written is still to be paged, and what is held is held.
BootEnd == Leaves("boot")

\* STAMP_BOOTSTRAPPED_SQL refuses while an event is held.
Stamp ==
  /\ ~actor.warm /\ actor.paged /\ At("boot", "idle")
  /\ actor.held = {}
  /\ actor' = [actor EXCEPT !.warm = TRUE]
  /\ UNCHANGED <<ver, seq, mark, rows, queue, memo, job, read, left>>

\* A new epoch: the object deletes its storage between two turns.  Its rows are
\* served again only when the bootstrap has written every one of them anew.
Reset ==
  /\ Phase # "A" /\ actor.turn = "free" /\ At("boot", "idle")
  /\ Spend("resets")
  /\ actor' = [actor EXCEPT !.warm = FALSE, !.paged = FALSE, !.held = {},
                            !.covered = [g \in Game |-> 0]]
  /\ UNCHANGED <<ver, seq, mark, rows, queue, memo, job, read>>

-----------------------------------------------------------------------------
(* The read of a game's row. *)

Served == IF Phase = "A" THEN rows ELSE actor.row

\* D1's marks first; in Phase A the rows come with them.
ReadMarks(g) ==
  /\ read.at = "idle"
  /\ Spend("reads")
  /\ read' = [at |-> "rows", game |-> {g}, marks |-> mark[g], need |-> ver,
              row |-> IF Phase = "A" THEN rows[g] ELSE Zero]
  /\ UNCHANGED <<ver, seq, mark, rows, actor, queue, memo, job>>

\* Then the actor's rows.  The press is withheld by a mark that the actor has not
\* covered (in Phase A by any), and while the actor is not bootstrapped.
ReadRows ==
  /\ read.at = "rows"
  /\ \E g \in read.game :
       LET shown == IF Phase = "A" THEN \A p \in Pair : read.marks[p] = 0
                    ELSE actor.warm /\ \A p \in Pair : read.marks[p] <= actor.covered[g]
           row == IF Phase = "A" THEN read.row ELSE actor.row[g]
       IN read' = IF shown THEN [read EXCEPT !.at = "press", !.marks = Zero, !.row = row]
                           ELSE [read EXCEPT !.at = "none", !.marks = Zero, !.need = Zero, !.row = Zero]
  /\ UNCHANGED <<ver, seq, mark, rows, actor, queue, memo, job, left>>

-----------------------------------------------------------------------------

Judge(j) == \/ Bound(j) \/ Hold(j) \/ Turn(j) \/ Closure(j) \/ Land(j) \/ Seen(j) \/ Facts(j)
            \/ Commit(j) \/ Ack(j) \/ Delivered(j) \/ Fate(j)

Next ==
  \/ \E p \in Pair : \/ Write(p) \/ Publish(p) \/ PublishLost(p) \/ Sweep(p)
                     \/ StampLapses(p) \/ Direct(p)
  \/ \E x \in Game \cup Pair : HoldEnds(x)
  \/ \E j \in Job : Judge(j) \/ ClosureBound(j) \/ Ends(j)
  \/ \E c \in Consumer : (\E p \in Pair : Take(c, p)) \/ DeliveryFault(c) \/ Wall(c)
  \/ \E p \in Pair, g \in Game : Find(p, g)
  \/ FindWrite \/ FindCommit \/ BootStep \/ BootEnd \/ Stamp \/ Reset
  \/ \E g \in Game : ReadMarks(g)
  \/ ReadRows

Spec == Init /\ [][Next]_vars

\* What the judges that have begun do next, the actor's bootstrap among them.
Work ==
  \/ \E j \in Job : Judge(j) \/ (At(j, "end") /\ Ends(j))
  \/ \E p \in Pair : Direct(p)
  \/ FindWrite \/ FindCommit \/ BootStep \/ (At("boot", "end") /\ BootEnd) \/ Stamp

\* Some judge that can go on does; the platform delivers a message in the end and
\* runs the alarms; time passes.  Nothing makes a writer write, a look find, or a
\* call fault.
FairSpec ==
  /\ Spec
  /\ WF_vars(Work)
  /\ WF_vars(\E x \in Game \cup Pair : HoldEnds(x))
  /\ \A p \in Pair :
       /\ WF_vars(Publish(p)) /\ WF_vars(Sweep(p)) /\ WF_vars(StampLapses(p))
       /\ SF_vars(\E c \in Consumer : Take(c, p))

-----------------------------------------------------------------------------
(* Properties *)

Step == {"idle", "end", "fate", "write"} \cup Working

JobRecord ==
  [at : Step, pair : SUBSET Pair, games : SUBSET Game, todo : SUBSET Game, landed : SUBSET Game,
   faulted : SUBSET Game, bound : Nat, seen : Nat, facts : [Pair -> Nat]]

\* Every variable keeps its shape, whatever the phase and whoever judges.
TypeOK ==
  /\ ver \in [Pair -> Nat] /\ seq \in Nat
  /\ mark \in [Game -> [Pair -> Nat]] /\ rows \in [Game -> [Pair -> Nat]]
  /\ actor \in [warm : BOOLEAN, row : [Game -> [Pair -> Nat]], covered : [Game -> Nat],
                held : SUBSET Game, turn : Job \cup {"free"}, paged : BOOLEAN]
  /\ queue \in [notes : SUBSET Pair, direct : SUBSET Pair, msgs : SUBSET Pair,
                lost : SUBSET Pair, stamps : SUBSET Pair]
  /\ memo \in [faults : [Game \cup Pair -> 0 .. FAULT_HOLD_AFTER], held : SUBSET (Game \cup Pair)]
  /\ job \in [Job -> JobRecord]
  /\ read \in [at : {"idle", "rows", "press", "none"}, game : SUBSET Game, marks : [Pair -> Nat],
               need : [Pair -> Nat], row : [Pair -> Nat]]

Item == {x \in Game \X Pair : x[1] \in Names[x[2]]}

\* The served row of a game with no mark of a pair is judged over the pair's last
\* write; in Phases B and C, once the actor is bootstrapped.
Open(g, p) == mark[g][p] # 0 \/ (Phase # "A" /\ (~actor.warm \/ g \in actor.held))

Marks == INSTANCE Intents WITH
  Item <- Item,
  wanted <- [x \in Item |-> ver[x[2]]],
  done <- [x \in Item |-> Served[x[1]][x[2]]],
  open <- [x \in Item |-> Open(x[1], x[2])],
  dropped <- [x \in Item |-> FALSE]

\* The dirty marks implement a list of work: whoever judges, however deliveries,
\* direct calls, finds, walls, resets and faults interleave, a mark is deleted (and
\* an actor stamped) only when the served row is judged over every write that was
\* marked, and no served row is ever judged over older facts than before.
Implements == Marks!Spec

\* No judge in flight erases a mark that was raised again while it judged: a row
\* whose marks are gone is judged over the pair's last write.
MarkStands == Marks!Settled

\* A press that a read serves was judged over every fact committed before the read
\* began: D1's marks are read first, and withhold it unless the actor covers them.
ReadCurrent ==
  read.at = "press" =>
    \A g \in read.game, p \in Pair : g \in Names[p] => read.row[p] >= read.need[p]

\* Every write is at last judged into the served row and its marks acknowledged,
\* whatever messages, calls and publishes were lost on the way.
AllJudged ==
  /\ \A g \in Game, p \in Pair : mark[g][p] = 0
  /\ \A x \in Item : Served[x[1]][x[2]] = ver[x[2]]
  /\ Phase # "A" => actor.warm

Judged == <>[]AllJudged
=============================================================================
