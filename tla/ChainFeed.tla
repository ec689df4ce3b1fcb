------------------------------ MODULE ChainFeed ------------------------------
(* The overlay's consumer of chaintracks' chain-event feed (chain_feed.rs) and
   the judgement of a window of stored proofs it runs (arcade_reorg.rs,
   reorg_sweep.rs).

   The feed is a journal of events.  A selecting event (a reorg, a fork, a split,
   an invalidated block) names a window of heights; a pass walks the rows whose
   proof is anchored there, in three legs of one page each, and moves the cursor
   of the one versioned row past the event once every leg is exhausted, or after
   too many faulted passes.  Every write of the row is a compare-and-set on the
   version the writer read.  Passes overlap: the scheduled one, one for every
   announced block, and the operator's lever.

   A block is a number, 0 where the header source serves none; a proof is the block
   it is anchored to.  Rows without a stored proof are left out, and so are the
   writers that confirm rows beside the consumer. *)
EXTENDS Integers, Sequences, FiniteSetsExt

CONSTANTS
  Pass,              \* the passes that may run at once
  Row,               \* the rows, each its rowid
  Height, Block,
  PAGES_PER_PASS, UNRESOLVED_KEPT, INVALIDATED_DEPTH,
  Instances          \* the journal, the limits and the bounds of a behaviour: the
                     \* passes begin once `before` of its events are published

Event == [kind : {"tip", "reorg", "invalidated", "unreadable"},
          lo : Height, hi : Height, block : Block]

ASSUME ChainFeedAssumption ==
  /\ Row \subseteq Nat /\ IsFiniteSet(Row)
  /\ Height \subseteq Nat \ {0} /\ Block \subseteq Nat \ {0} /\ 1 \in Block
  /\ {PAGES_PER_PASS, UNRESOLVED_KEPT} \subseteq Nat \ {0}
  /\ INVALIDATED_DEPTH \in Nat
  /\ Instances \subseteq
       [journal : Seq(Event), before : Nat, start : Nat \cup {-1}, limit : [Pass -> Nat \ {0}],
        leg : [Row -> 1..3], proof : [Row -> Height \X Block],
        page : Nat \ {0}, rows : Nat \ {0}, ladder : Nat \ {0}, ceiling : Nat \ {0},
        faults : Nat, drops : Nat, levers : Nat]
  /\ \A i \in Instances : i.before <= Len(i.journal)

VARIABLES
  left,    \* the instance, and what is left of its bounds
  head,    \* the journal's head
  canon,   \* the header source: the block served at each height
  gone,    \* per height and block: the last event that took it off the chain
  proof,   \* per row: the height and the block its stored proof is anchored to
  held,    \* per row: the height it is confirmed (a spender) or latched (a pot, a
           \* hop) at, 0 when it is not
  row,     \* overlay_chain_events: version 0 before the first write
  pass,    \* what each pass is doing
  lever,   \* a POST of the operator's
  past     \* what became of the events the row's cursor has moved past

vars == <<left, head, canon, gone, proof, held, row, pass, lever, past>>

Spend(field) == /\ left[field] > 0
                /\ left' = [left EXCEPT ![field] = @ - 1]

Journal == left.journal

-----------------------------------------------------------------------------
(* The state document. *)

NoLeg == [after |-> <<0, 0>>, begun |-> FALSE, exhausted |-> FALSE]
NoWindow == [cursor |-> 0, lo |-> 0, hi |-> 0, legs |-> [l \in 1..3 |-> NoLeg], faults |-> 0]

\* PendingWindow::new
Window(e, lo, hi) == [NoWindow EXCEPT !.cursor = e, !.lo = lo, !.hi = hi]

AllExhausted(w) == \A l \in 1..3 : w.legs[l].exhausted

\* FeedState::seeded
Seeded(c) == [cursor |-> c, pending |-> NoWindow, stop |-> {}, unresolved |-> <<>>]

Newest(s) == SubSeq(s, Len(s) - UNRESOLVED_KEPT + 1, Len(s))

\* Mutant of Release: the released windows are never trimmed.
ReleaseKeepsAll(st) ==
  [st EXCEPT !.cursor = st.pending.cursor, !.pending = NoWindow,
             !.unresolved = Append(@, st.pending.cursor)]

\* FeedState::release: the window recorded, the newest kept, the cursor past it.
Release(st) ==
  LET all == Append(st.unresolved, st.pending.cursor)
  IN [st EXCEPT !.cursor = st.pending.cursor, !.pending = NoWindow,
        !.unresolved = IF Len(all) > UNRESOLVED_KEPT THEN Newest(all) ELSE all]

IdlePass == [at |-> "idle", st |-> Seeded(0), ver |-> 0, written |-> Seeded(0),
             buffer |-> {}, more |-> TRUE, pages |-> 0, finished |-> 0,
             next |-> "last", memo |-> {}, ladder |-> 0,
             leg |-> 1, page |-> {}, full |-> FALSE, judged |-> NoLeg, faulted |-> FALSE,
             bump |-> <<0, 0>>, landed |-> FALSE, ends |-> {}, unwritten |-> {}]
IdleLever == [at |-> "idle", st |-> Seeded(0), ver |-> 0, cursor |-> 0]

Init ==
  /\ left \in Instances
  /\ head = 0
  /\ canon = [h \in Height |-> 1]
  /\ gone = [h \in Height |-> [b \in Block |-> 0]]
  /\ proof = left.proof
  /\ held = [r \in Row |-> proof[r][1]]
  /\ row = [ver |-> 0, st |-> Seeded(0)]
  /\ pass = [p \in Pass |-> IdlePass]
  /\ lever = IdleLever
  /\ past = [done |-> {}, released |-> <<>>, skipped |-> {}, late |-> {},
             moved |-> [e \in 1..Len(Journal) |-> 0],
             counted |-> [e \in 1..Len(Journal) |-> 0]]

-----------------------------------------------------------------------------
(* The header source and its journal (external). *)

\* The next event happens to the chain and is published: heights served by
\* another block, or (an invalidated block) by none from its height up.
Publish ==
  /\ head < Len(Journal)
  /\ head' = head + 1
  /\ LET e == Journal[head + 1]
     IN canon' = [h \in Height |->
                    CASE e.kind \in {"tip", "reorg"} /\ h \in e.lo..e.hi -> e.block
                      [] e.kind = "invalidated" /\ h >= e.lo -> 0
                      [] OTHER -> canon[h]]
  /\ gone' = [h \in Height |-> [b \in Block |->
                CASE canon[h] = b /\ canon'[h] # b -> head + 1
                  [] canon'[h] = b -> 0
                  [] OTHER -> gone[h][b]]]
  /\ UNCHANGED <<left, proof, held, row, pass, lever, past>>

\* current_height: the verified tip.  It is cached for 30 s; the window taken from an
\* older tip is another window, and what is said of a window is of the one taken.
Tip == Max({h \in Height : canon[h] # 0} \cup {0})

-----------------------------------------------------------------------------
(* One pass, between two awaits. *)

\* An event the pass has finished: how, and its window.
End(how, w) == [how |-> how, e |-> w.cursor, lo |-> w.lo, hi |-> w.hi]

\* The event is finished: counted once the write of its cursor lands.
Finish(q, how, st) ==
  [q EXCEPT !.at = "write", !.next = "loop", !.st = st,
            !.ends = @ \cup {End(how, q.st.pending)},
            !.unwritten = @ \cup {q.st.pending.cursor}]

\* The head of the loop: the event in hand, else an envelope of the page in hand,
\* else the next page.
Loop(p, q) ==
  IF q.st.pending # NoWindow
    THEN IF q.st.pending.faults >= left.ceiling THEN Finish(q, "released", Release(q.st))
         ELSE [q EXCEPT !.at = IF q.finished >= left.limit[p] THEN "last" ELSE "leg",
                        !.leg = Min({l \in 1..3 : ~q.st.pending.legs[l].exhausted})]
  ELSE IF q.buffer # {} THEN [q EXCEPT !.at = "take"]
  ELSE [q EXCEPT !.at = IF q.more /\ q.pages < PAGES_PER_PASS THEN "page" ELSE "last"]

\* A pass reads the row; with none it seeds one at the configured start, if any.
Start(p) ==
  /\ pass[p].at = "idle" /\ head >= left.before
  /\ row.ver > 0 \/ left.start >= 0
  /\ LET st == IF row.ver > 0 THEN row.st ELSE Seeded(left.start)
         q == [IdlePass EXCEPT !.st = st, !.ver = row.ver, !.written = st, !.ladder = left.ladder]
     IN pass' = [pass EXCEPT ![p] = IF row.ver > 0 THEN Loop(p, q) ELSE [q EXCEPT !.at = "seed"]]
  /\ UNCHANGED <<left, head, canon, gone, proof, held, row, lever, past>>

-----------------------------------------------------------------------------
(* The row's compare-and-set. *)

\* Mutant of Store: the write does not compare the version.
StoreBlind(ver, st) == row' = [ver |-> row.ver + 1, st |-> st]

\* STATE_WRITE: an insert when no row stands, an update only over the version read.
Store(ver, st) ==
  /\ row.ver = ver
  /\ row' = [ver |-> ver + 1, st |-> st]

Crossed(old, new) == {e \in DOMAIN Journal : old < e /\ e <= new}
Plus(f, S) == [e \in DOMAIN f |-> IF e \in S THEN f[e] + 1 ELSE f[e]]
Ended(q, how) == {x \in q.ends : x.how = how}

\* What the row's cursor has moved past when a pass's document is stored; a fresh
\* row skips what lies before its start.
Moved(q) ==
  [past EXCEPT
    !.done = @ \cup {[e |-> x.e, lo |-> x.lo, hi |-> x.hi] : x \in Ended(q, "done")},
    !.released = @ \o (IF Ended(q, "released") = {} THEN <<>>
                       ELSE <<(CHOOSE x \in Ended(q, "released") : TRUE).e>>),
    !.skipped = @ \cup (IF q.at = "seed" THEN Crossed(0, q.st.cursor) ELSE {}),
    !.moved = Plus(@, IF q.at = "seed" THEN {} ELSE Crossed(row.st.cursor, q.st.cursor))]

\* After a write: the loop goes on after an event finished, or the pass ends.
\* A lost compare-and-set is final; a faulted write is tried once more at the end.
AfterWrite(p, q, how) ==
  CASE how = "landed" /\ q.at = "seed" -> Loop(p, [q EXCEPT !.ver = row.ver + 1])
    [] how = "landed" /\ q.at = "write" /\ q.next = "loop" ->
         Loop(p, [q EXCEPT !.ver = row.ver + 1, !.written = q.st, !.ends = {}, !.unwritten = {},
                        !.finished = @ + 1])
    [] how = "faulted" /\ q.at = "write" -> [q EXCEPT !.at = "last", !.unwritten = {}]
    [] OTHER -> IdlePass

Writing(p) == pass[p].at \in {"seed", "write", "last"}
Dirty(q) == q.at = "seed" \/ q.st # q.written

\* Nothing changed since the last write: no write is made.
WriteNothing(p) ==
  /\ Writing(p) /\ ~Dirty(pass[p])
  /\ pass' = [pass EXCEPT ![p] = IdlePass]
  /\ UNCHANGED <<left, head, canon, gone, proof, held, row, lever, past>>

WriteLands(p) ==
  /\ Writing(p) /\ Dirty(pass[p])
  /\ Store(pass[p].ver, pass[p].st)
  /\ past' = [Moved(pass[p]) EXCEPT !.counted = Plus(@, pass[p].unwritten)]
  /\ pass' = [pass EXCEPT ![p] = AfterWrite(p, pass[p], "landed")]
  /\ UNCHANGED <<left, head, canon, gone, proof, held, lever>>

WriteLoses(p) ==
  /\ Writing(p) /\ Dirty(pass[p])
  /\ row.ver # pass[p].ver
  /\ pass' = [pass EXCEPT ![p] = AfterWrite(p, pass[p], "lost")]
  /\ UNCHANGED <<left, head, canon, gone, proof, held, row, lever, past>>

\* The write answers with a fault, whether or not the database made it.
WriteFaults(p) ==
  /\ Writing(p) /\ Dirty(pass[p])
  /\ Spend("faults")
  /\ \/ /\ Store(pass[p].ver, pass[p].st)
        /\ past' = Moved(pass[p])
     \/ UNCHANGED <<row, past>>
  /\ pass' = [pass EXCEPT ![p] = AfterWrite(p, pass[p], "faulted")]
  /\ UNCHANGED <<head, canon, gone, proof, held, lever>>

-----------------------------------------------------------------------------
(* The feed. *)

\* A page from the cursor: delivery is at least once, so it may begin at an event
\* already consumed; a cursor past the journal's head is answered 409.
Page(p) ==
  /\ pass[p].at = "page"
  /\ LET q == [pass[p] EXCEPT !.pages = @ + 1]
         since == q.st.cursor
     IN \E from \in {since, since + 1} \ {0} :
          LET to == IF since + left.page < head THEN since + left.page ELSE head
              got == {e \in from..to : e > 0}
          IN pass' = [pass EXCEPT ![p] =
               IF since > head THEN [q EXCEPT !.at = "last", !.st.stop = {since}]
               ELSE IF got = {} THEN [q EXCEPT !.at = "last"]
               ELSE Loop(p, [q EXCEPT !.buffer = got, !.more = to < head])]
  /\ UNCHANGED <<left, head, canon, gone, proof, held, row, lever, past>>

\* The page's read, or the tip's for an invalidated block, faults: the pass ends.
ReadFaults(p) ==
  /\ pass[p].at \in {"page", "take"}
  /\ pass[p].at = "take" => LET e == Min(pass[p].buffer)
                            IN /\ e > pass[p].st.cursor
                               /\ Journal[e].kind = "invalidated"
                               /\ pass[p].finished < left.limit[p]
  /\ Spend("faults")
  /\ pass' = [pass EXCEPT ![p].at = "last"]
  /\ UNCHANGED <<head, canon, gone, proof, held, row, lever, past>>

\* selection: the event's own heights, or those about the verified tip.
Selection(e) ==
  IF Journal[e].kind = "reorg" THEN Window(e, Journal[e].lo, Journal[e].hi)
  ELSE Window(e, IF Tip > INVALIDATED_DEPTH THEN Tip - INVALIDATED_DEPTH ELSE 0,
              Tip + INVALIDATED_DEPTH)

\* Mutant of Take: an envelope the decoder refuses is passed as if it selected nothing.
TakePastUnreadable(p) ==
  /\ pass[p].at = "take"
  /\ LET e == Min(pass[p].buffer)
         q == [pass[p] EXCEPT !.buffer = @ \ {e}]
     IN pass' = [pass EXCEPT ![p] =
          CASE e <= q.st.cursor -> Loop(p, q)
            [] e > q.st.cursor /\ Journal[e].kind \in {"tip", "unreadable"} ->
                 Loop(p, [q EXCEPT !.st.cursor = e, !.ends = @ \cup {End("done", Window(e, 0, 0))},
                                   !.unwritten = @ \cup {e}])
            [] OTHER ->
                 IF q.finished >= left.limit[p] THEN [q EXCEPT !.at = "last"]
                 ELSE Loop(p, [q EXCEPT !.st = [@ EXCEPT !.pending = Selection(e), !.stop = {}]])]
  /\ UNCHANGED <<left, head, canon, gone, proof, held, row, lever, past>>

\* The next envelope of the page: consumed already, refused by the decoder (the
\* pull stops at it), selecting nothing, past the pass's budget, or taken in hand.
Take(p) ==
  /\ pass[p].at = "take"
  /\ LET e == Min(pass[p].buffer)
         q == [pass[p] EXCEPT !.buffer = @ \ {e}]
     IN pass' = [pass EXCEPT ![p] =
          CASE e <= q.st.cursor -> Loop(p, q)
            [] e > q.st.cursor /\ Journal[e].kind = "unreadable" ->
                 [q EXCEPT !.at = "last", !.st.stop = {e}]
            [] e > q.st.cursor /\ Journal[e].kind = "tip" ->
                 Loop(p, [q EXCEPT !.st = [@ EXCEPT !.cursor = e, !.stop = {}],
                                !.ends = @ \cup {End("done", Window(e, 0, 0))},
                                !.unwritten = @ \cup {e}])
            [] OTHER ->
                 IF q.finished >= left.limit[p] THEN [q EXCEPT !.at = "last"]
                 ELSE Loop(p, [q EXCEPT !.st = [@ EXCEPT !.pending = Selection(e), !.stop = {}]])]
  /\ UNCHANGED <<left, head, canon, gone, proof, held, row, lever, past>>

-----------------------------------------------------------------------------
(* The judgement of the window in hand: judge_window_legs, one page per leg. *)

\* The walk's order: the greater height first, then the greater rowid.
Before(k, l) == k[1] > l[1] \/ (k[1] = l[1] /\ k[2] > l[2])
Key(x) == <<x.height, x.row>>

\* The leg's rows in the window, past its cursor: the first `rows` of them, with
\* their proofs.
LegPage(w, l) ==
  LET S == {x \in {[row |-> r, height |-> held[r], bump |-> proof[r]] : r \in Row} :
              /\ left.leg[x.row] = l /\ x.height # 0 /\ x.height \in w.lo..w.hi
              /\ w.legs[l].begun => Before(w.legs[l].after, Key(x))}
  IN {x \in S : Cardinality({y \in S : Before(Key(y), Key(x))}) < left.rows}

First(page) == CHOOSE x \in page : \A y \in page \ {x} : Before(Key(x), Key(y))

\* The legs are run to the end of this pass's pages: the window is judged, or held.
Ran(q) ==
  IF AllExhausted(q.st.pending)
    THEN Finish(q, "done", [q.st EXCEPT !.cursor = q.st.pending.cursor, !.pending = NoWindow])
    ELSE [q EXCEPT !.at = "write", !.next = "last"]

\* The leg after l that has rows left to walk.
NextLeg(q, l) ==
  LET rest == {k \in 1..3 : k > l /\ ~q.st.pending.legs[k].exhausted}
  IN IF rest = {} THEN Ran(q) ELSE [q EXCEPT !.at = "leg", !.leg = Min(rest)]

\* Mutant of LegFaulted: a faulted pass is not counted against the ceiling.
LegFaultUncounted(q) == [q EXCEPT !.at = "write", !.next = "last"]

\* A fault keeps the leg's cursor, and the legs after it are not run.
LegFaulted(q) ==
  [q EXCEPT !.at = "write", !.next = "last", !.st.pending.faults = @ + 1]

\* Mutant of LegEnds: a leg is exhausted once a page of it was walked.
LegEndsAtAPage(q, stopped) ==
  IF q.faulted THEN LegFaulted(q)
  ELSE LET ran == [q EXCEPT !.st.pending.legs[q.leg] = [q.judged EXCEPT !.exhausted = ~stopped]]
       IN IF stopped THEN [ran EXCEPT !.at = "write", !.next = "last"] ELSE NextLeg(ran, q.leg)

\* The page is judged (or its budget spent): the leg's progress, then the next leg.
LegEnds(q, stopped) ==
  IF q.faulted THEN LegFaulted(q)
  ELSE LET ran == [q EXCEPT !.st.pending.legs[q.leg] =
                     [q.judged EXCEPT !.exhausted = ~q.full /\ ~stopped]]
       IN IF stopped THEN [ran EXCEPT !.at = "write", !.next = "last"] ELSE NextLeg(ran, q.leg)

\* The first row of the page is judged.
NextRow(q) ==
  LET x == First(q.page)
      r == [q EXCEPT !.page = @ \ {x},
                     !.judged = [after |-> Key(x), begun |-> TRUE, exhausted |-> FALSE]]
  IN IF r.page = {} THEN LegEnds(r, FALSE) ELSE [r EXCEPT !.at = "row"]

\* A leg reads its page.
Leg(p) ==
  /\ pass[p].at = "leg"
  /\ LET q == pass[p]
         page == LegPage(q.st.pending, q.leg)
         r == [q EXCEPT !.page = page, !.full = Cardinality(page) = left.rows,
                        !.judged = q.st.pending.legs[q.leg], !.faulted = FALSE]
     IN pass' = [pass EXCEPT ![p] =
          IF page = {} THEN LegEnds(r, FALSE) ELSE [r EXCEPT !.at = "row"]]
  /\ UNCHANGED <<left, head, canon, gone, proof, held, row, lever, past>>

LegReadFaults(p) ==
  /\ pass[p].at = "leg"
  /\ pass' = [pass EXCEPT ![p] = LegFaulted(@)]
  /\ UNCHANGED <<left, head, canon, gone, proof, held, row, lever, past>>

\* verify_bump_memoized: the pass's memo, else the header source's word now.
Known(q, b) == \E v \in BOOLEAN : <<b, v>> \in q.memo
Valid(q, b) == IF Known(q, b) THEN <<b, TRUE>> \in q.memo ELSE canon[b[1]] = b[2]
Memo(q, b) == IF Known(q, b) THEN q ELSE [q EXCEPT !.memo = @ \cup {<<b, Valid(q, b)>>}]
Readable(q, b) == Known(q, b) \/ canon[b[1]] # 0

\* A row is late while it stands on a verdict the header source has taken back, or
\* was last written while its proof's block was off the chain.
Stood(q, b, r) ==
  past' = [past EXCEPT !.late =
             CASE Valid(q, b) /\ canon[b[1]] # b[2] -> @ \cup {r}
               [] Valid(q, b) /\ canon[b[1]] = b[2] /\ b = proof[r] -> @ \ {r}
               [] OTHER -> @]

\* A spender's proof is read when its row is judged, a pot's or a hop's with its page.
Bump(q, x) == IF q.leg = 1 THEN proof[x.row] ELSE x.bump

\* The rows left once a refuted one is withdrawn: a spender demoted, bound to the
\* height its page read (demote_confirmed_for_spender_at); a pot or a hop unlatched.
Withdrawn(q) ==
  LET x == First(q.page)
  IN IF q.leg = 1 /\ held[x.row] # x.height THEN held ELSE [held EXCEPT ![x.row] = 0]

\* A row's own proof against the header source: it stands (a spender filed under
\* another height is moved), or it is refuted (a spender then asks the couriers, a
\* pot or a hop is unlatched).
JudgeRow(p) ==
  /\ pass[p].at = "row"
  /\ LET x == First(pass[p].page)
         b == Bump(pass[p], x)
         q == Memo(pass[p], b)
     IN /\ Readable(pass[p], b)
        /\ pass' = [pass EXCEPT ![p] =
             CASE q.leg = 1 /\ ~Valid(q, b) -> [q EXCEPT !.at = "ladder"]
               [] q.leg = 1 /\ Valid(q, b) /\ x.height # b[1] ->
                    [q EXCEPT !.at = "reanchor", !.bump = b]
               [] OTHER -> NextRow(q)]
        /\ held' = IF q.leg # 1 /\ ~Valid(q, b) THEN Withdrawn(q) ELSE held
        /\ Stood(q, b, x.row)
  /\ UNCHANGED <<left, head, canon, gone, proof, row, lever>>

\* reanchor_from_ladder: the couriers serve a proof the header source holds now, or
\* none, or the page stops on the spent budget.
Ladder(p) ==
  /\ pass[p].at = "ladder"
  /\ LET q == [pass[p] EXCEPT !.ladder = @ - 1]
     IN IF pass[p].ladder = 0
          THEN pass' = [pass EXCEPT ![p] = LegEnds([@ EXCEPT !.page = {}], TRUE)]
          ELSE \/ pass' = [pass EXCEPT ![p] = [q EXCEPT !.at = "recheck"]]
               \/ \E h \in Height : /\ canon[h] # 0
                                    /\ pass' = [pass EXCEPT ![p] = [q EXCEPT !.at = "apply",
                                                         !.bump = <<h, canon[h]>>, !.landed = FALSE]]
  /\ UNCHANGED <<left, head, canon, gone, proof, held, row, lever, past>>

\* The row is confirmed, or moved, at a height.
Filed(r, h) == [held EXCEPT ![r] = h]

\* A row is written on a proof whose block is off the chain when it left after the
\* couriers' word, or when the row is moved and the proof's own write did not land.
Rests(r) ==
  past' = [past EXCEPT !.late =
             CASE gone[proof'[r][1]][proof'[r][2]] = 0 -> @ \ {r}
               [] OTHER -> IF <<proof', held'>> = <<proof, held>> THEN @ ELSE @ \cup {r}]

\* reanchor_confirmed_for_spender: a row still confirmed is moved to the height of the
\* proof that stands.
Reanchor(p) ==
  /\ pass[p].at = "reanchor"
  /\ LET r == First(pass[p].page).row
     IN /\ held' = IF held[r] # 0 THEN Filed(r, pass[p].bump[1]) ELSE held
        /\ proof' = proof
        /\ Rests(r)
  /\ pass' = [pass EXCEPT ![p] = NextRow([@ EXCEPT !.bump = <<0, 0>>])]
  /\ UNCHANGED <<left, head, canon, gone, row, lever>>

(* apply_pushed_proof_to_pot_stores, a write at a time: the proof is stored ("apply"),
   the row confirmed if it is not ("confirm"), and moved if it is confirmed at another
   height ("move").  Each finds the row and writes it. *)
Applying == {"apply", "confirm", "move"}

Proved(q) ==
  IF q.at = "apply" THEN [proof EXCEPT ![First(q.page).row] = q.bump] ELSE proof

Placed(q) ==
  LET r == First(q.page).row
  IN IF \/ q.at = "confirm" /\ held[r] = 0
        \/ q.at = "move" /\ held[r] \notin {0, q.bump[1]}
       THEN Filed(r, q.bump[1]) ELSE held

\* The next write; after the last, the next row if any of them landed.
Onward(q) ==
  CASE q.at = "apply" -> [q EXCEPT !.at = "confirm"]
    [] q.at = "confirm" -> [q EXCEPT !.at = "move"]
    [] OTHER -> IF q.landed THEN NextRow([q EXCEPT !.bump = <<0, 0>>, !.landed = FALSE])
                ELSE [q EXCEPT !.at = "reread"]

\* A proof stored already is stored again if its latch was dropped.
Apply(p) ==
  /\ pass[p].at \in Applying
  /\ proof' = Proved(pass[p]) /\ held' = Placed(pass[p])
  /\ Rests(First(pass[p].page).row)
  /\ LET wrote == <<proof', held'>> # <<proof, held>>
     IN \E landed \in {wrote, wrote \/ pass[p].at = "apply"} :
          pass' = [pass EXCEPT ![p] = Onward([pass[p] EXCEPT !.landed = pass[p].landed \/ landed])]
  /\ UNCHANGED <<left, head, canon, gone, row, lever>>

\* Best effort per store: a write faults, made or not, and the next is tried.
ApplyFaults(p) ==
  /\ pass[p].at \in Applying
  /\ Spend("faults")
  /\ \/ proof' = Proved(pass[p]) /\ held' = Placed(pass[p])
     \/ proof' = proof /\ held' = held
  /\ Rests(First(pass[p].page).row)
  /\ pass' = [pass EXCEPT ![p] = Onward(@)]
  /\ UNCHANGED <<head, canon, gone, row, lever>>

\* Nothing landed: the row counts as re-anchored only if its proof is the couriers' one.
Reread(p) ==
  /\ pass[p].at = "reread"
  /\ LET q == [pass[p] EXCEPT !.bump = <<0, 0>>]
     IN pass' = [pass EXCEPT ![p] =
          IF proof[First(q.page).row] = pass[p].bump THEN NextRow(q) ELSE [q EXCEPT !.at = "recheck"]]
  /\ UNCHANGED <<left, head, canon, gone, proof, held, row, lever, past>>

\* recheck_stored_bump: a proof replaced under the pass by one that verifies stands.
Recheck(p) ==
  /\ pass[p].at = "recheck"
  /\ LET r == First(pass[p].page).row
         b == proof[r]
         q == Memo(pass[p], b)
     IN /\ Readable(pass[p], b)
        /\ pass' = [pass EXCEPT ![p] =
             IF Valid(q, b) THEN NextRow(q) ELSE [q EXCEPT !.at = "demote"]]
        /\ Stood(q, b, r)
  /\ UNCHANGED <<left, head, canon, gone, proof, held, row, lever>>

\* No courier proved it and its stored proof is refuted still.
Demote(p) ==
  /\ pass[p].at = "demote"
  /\ held' = Withdrawn(pass[p])
  /\ pass' = [pass EXCEPT ![p] = NextRow(@)]
  /\ UNCHANGED <<left, head, canon, gone, proof, row, lever, past>>

\* The row is refuted and its write is next.
Withdraws(q) ==
  \/ q.at = "demote"
  \/ q.at = "row" /\ q.leg # 1 /\ LET b == Bump(q, First(q.page))
                                  IN Readable(q, b) /\ ~Valid(q, b)

\* A read of the header source, of a courier or of the store faults, a header is not
\* served, or the row's write (made or not) or the unlatch after it fails: the page
\* goes on, its leg is a faulted one.
RowFaults(p) ==
  /\ pass[p].at \in {"row", "reanchor", "reread", "recheck", "demote"} \/ (pass[p].at = "ladder" /\ pass[p].ladder > 0)
  /\ LET q == pass[p]
     IN pass' = [pass EXCEPT ![p] = NextRow([q EXCEPT !.faulted = TRUE, !.bump = <<0, 0>>,
                   !.ladder = IF q.at = "ladder" THEN q.ladder - 1 ELSE q.ladder])]
  /\ held' \in {held} \cup (IF Withdraws(pass[p]) THEN {Withdrawn(pass[p])} ELSE {})
  /\ UNCHANGED <<left, head, canon, gone, proof, row, lever, past>>

-----------------------------------------------------------------------------
(* A pass dropped at the tick's deadline or with its isolate, and the operator. *)

Drop(p) ==
  /\ pass[p].at # "idle"
  /\ Spend("drops")
  /\ pass' = [pass EXCEPT ![p] = IdlePass]
  /\ UNCHANGED <<head, canon, gone, proof, held, row, lever, past>>

\* lever: the row is read, and the posted cursor written over that version.
LeverReads ==
  /\ lever.at = "idle"
  /\ Spend("levers")
  /\ \E c \in 0..Len(Journal) + 1 :
       lever' = [at |-> "write", st |-> IF row.ver > 0 THEN row.st ELSE Seeded(c),
                 ver |-> row.ver, cursor |-> c]
  /\ UNCHANGED <<head, canon, gone, proof, held, row, pass, past>>

\* Mutant of LeverDoc: an event in hand is dropped with nothing recorded.
LeverDocDrops(l) == [l.st EXCEPT !.cursor = l.cursor, !.stop = {}, !.pending = NoWindow]

\* An event in hand is released and recorded, the stop cleared, the cursor set.
LeverDoc(l) ==
  LET st == IF l.st.pending # NoWindow THEN Release(l.st) ELSE l.st
  IN [st EXCEPT !.cursor = l.cursor, !.stop = {}]

\* The write lands; it may still be answered with a fault.
LeverLands ==
  /\ lever.at = "write"
  /\ Store(lever.ver, LeverDoc(lever))
  /\ LET w == lever.st.pending
     IN past' = [past EXCEPT
          !.released = IF w # NoWindow THEN Append(@, w.cursor) ELSE @,
          !.skipped = @ \cup (Crossed(IF row.ver = 0 THEN 0 ELSE row.st.cursor, lever.cursor)
                              \ {w.cursor})]
  /\ lever' = IdleLever
  /\ UNCHANGED <<left, head, canon, gone, proof, held, pass>>

\* The row moved under the lever, or its write faulted: the operator is told.
LeverLoses ==
  /\ lever.at = "write"
  /\ lever' = IdleLever
  /\ UNCHANGED <<left, head, canon, gone, proof, held, row, pass, past>>

-----------------------------------------------------------------------------
Step(p) ==
  \/ Start(p) \/ Page(p) \/ ReadFaults(p) \/ Take(p)
  \/ WriteNothing(p) \/ WriteLands(p) \/ WriteLoses(p) \/ WriteFaults(p)
  \/ Leg(p) \/ LegReadFaults(p) \/ JudgeRow(p) \/ Ladder(p) \/ Reanchor(p)
  \/ Apply(p) \/ ApplyFaults(p) \/ Reread(p) \/ Recheck(p) \/ Demote(p) \/ RowFaults(p)

Next ==
  \/ Publish
  \/ \E p \in Pass : Step(p) \/ Drop(p)
  \/ LeverReads \/ LeverLands \/ LeverLoses

Spec == Init /\ [][Next]_vars

\* A pass is run for every block and every tick, and runs to its end or is dropped.
FairSpec == Spec /\ WF_vars(Publish) /\ \A p \in Pass : WF_vars(Step(p))

-----------------------------------------------------------------------------
\* The document and the passes keep their types (chain_feed.rs, FeedState).
TypeOK ==
  /\ head \in 0..Len(Journal)
  /\ canon \in [Height -> Block \cup {0}]
  /\ proof \in [Row -> Height \X Block] /\ held \in [Row -> Height \cup {0}]
  /\ row.ver \in Nat /\ Len(row.st.unresolved) <= UNRESOLVED_KEPT
  /\ \A p \in Pass : pass[p].at \in {"idle", "seed", "page", "take", "leg", "row", "ladder",
                                     "reanchor", "apply", "confirm", "move", "reread", "recheck",
                                     "demote", "write", "last"}

\* An event the cursor has passed as applied has been applied: no row filed in its window
\* still rests on a block that this event, or one before it, took off the chain.
\* Excepted is a row that a pass left standing on its memo of an earlier verdict, or
\* wrote while the block was off the chain: with a couriers' proof verified before, or
\* moving the row without its proof.
WindowJudged ==
  \A d \in past.done, r \in Row :
    held[r] # 0 /\ held[r] \in d.lo..d.hi /\ r \notin past.late =>
      LET g == gone[proof[r][1]][proof[r][2]]
      IN g = 0 \/ g > d.e

\* Every event at or below the cursor was consumed, released to the operator, or
\* skipped by the start or the lever; an unreadable one only skipped.
CursorAccounted ==
  row.ver > 0 => \A e \in DOMAIN Journal : e <= row.st.cursor =>
    \/ e \in past.skipped
    \/ /\ Journal[e].kind # "unreadable"
       /\ \/ \E d \in past.done : d.e = e
          \/ \E i \in DOMAIN past.released : past.released[i] = e

\* The row names the newest events released, whoever released them.
ReleasedRecorded ==
  LET n == Len(past.released)
      k == IF n < UNRESOLVED_KEPT THEN n ELSE UNRESOLVED_KEPT
  IN row.st.unresolved = SubSeq(past.released, n - k + 1, n)

\* An event is counted at most once for every time a pass moved the cursor past it.
CountedOnce == \A e \in DOMAIN Journal : past.counted[e] <= past.moved[e]

\* Once there is a row, the journal is consumed to its head, or the row says where the
\* pull has stopped: a window that faults is released in the end, and no race of the
\* passes over the row starves them all.
Drains ==
  head = Len(Journal) /\ row.ver > 0 ~> row.st.cursor >= head \/ row.st.stop # {}
=============================================================================
