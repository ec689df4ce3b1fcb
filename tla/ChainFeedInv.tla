---------------------------- MODULE ChainFeedInv ----------------------------
(* The inductive invariants of ChainFeed: what a pass knows of its document, of its page
   of events and of the events it has ended (Inv), and what it knows of the rows that
   the walk of its window has yet to judge (RowsInv).

   What a pass knows is stated of the journal J and of the pass's record q, with the
   fields the argument does not use left untyped. *)
EXTENDS ChainFeed

IsRecord(x, F) == x = [f \in F |-> x[f]]

PassFields == {"at", "st", "ver", "written", "buffer", "more", "pages", "finished", "next",
               "memo", "ladder", "leg", "page", "full", "judged", "faulted", "bump", "landed",
               "ends", "unwritten"}
DocFields == {"cursor", "pending", "stop", "unresolved"}
WindowFields == {"cursor", "lo", "hi", "legs", "faults"}

\* An event that may be taken in hand or passed.
Consumable(J, e) == e \in DOMAIN J /\ J[e].kind # "unreadable"

\* A state document: the event in hand is the one after the cursor.
IsDoc(J, d) ==
  /\ IsRecord(d, DocFields) /\ IsRecord(d.pending, WindowFields)
  /\ d.cursor \in Nat /\ d.unresolved \in Seq(Nat)
  /\ d.pending # NoWindow => d.pending.cursor = d.cursor + 1 /\ Consumable(J, d.cursor + 1)

\* The last event a document has taken.
Edge(d) == IF d.pending = NoWindow THEN d.cursor ELSE d.cursor + 1

\* The page in hand has no gap past that event.
Buffered(J, q) ==
  /\ q.buffer \subseteq DOMAIN J
  /\ \A b \in q.buffer, k \in DOMAIN J : Edge(q.st) < k /\ k < b => k \in q.buffer

\* The events between the document a pass has written and the one it would write are
\* ended by it, and those it has not counted yet are among them.
Accounts(J, q) ==
  /\ q.written.cursor <= q.st.cursor
  /\ \A e \in DOMAIN J : q.written.cursor < e /\ e <= q.st.cursor =>
       Consumable(J, e) /\ \E x \in q.ends : x.e = e
  /\ \A e \in q.unwritten : e \in DOMAIN J /\ q.written.cursor < e /\ e <= q.st.cursor
  /\ \A x \in q.ends : x.how \in {"done", "released"} /\ x.e \in Nat

\* The releases a row keeps.
Kept(s) == IF Len(s) > UNRESOLVED_KEPT THEN Newest(s) ELSE s

\* A pass has released nothing, or one window, which the document it would write names.
NoRelease(q) == Ended(q, "released") = {} /\ q.st.unresolved = q.written.unresolved
OneRelease(q) == \E x \in q.ends : /\ Ended(q, "released") = {x}
                                   /\ q.st.unresolved = Kept(Append(q.written.unresolved, x.e))

Sound(J, q) ==
  /\ IsRecord(q, PassFields) /\ IsDoc(J, q.st) /\ IsDoc(J, q.written)
  /\ Accounts(J, q)

Walking == {"leg", "row", "ladder", "reanchor", "apply", "confirm", "move", "reread", "recheck",
            "demote"}

PassOK(J, q) ==
  /\ Sound(J, q)
  /\ q.at # "last" => Buffered(J, q)
  /\ NoRelease(q) \/ OneRelease(q)
  /\ q.at \notin {"write", "last"} => NoRelease(q)
  /\ q.at \in Walking => q.st.pending # NoWindow
  /\ q.at \in {"page", "take", "seed"} => q.st.pending = NoWindow
  /\ q.at = "take" => q.buffer # {}
  /\ q.at = "seed" => q.ver = 0 /\ q.ends = {} /\ q.unwritten = {} /\ q.st.unresolved = <<>>
                   /\ q.written = q.st

\* What a pass wrote last, or read, is what the row has at that version.
Current(q, r) ==
  q.at # "idle" => /\ q.ver \in Nat /\ q.ver <= r.ver
                   /\ q.ver = r.ver /\ q.at # "seed" => q.written = r.st

LeverOK(J, l, r) ==
  l.at = "write" => /\ IsDoc(J, l.st) /\ l.cursor \in Nat /\ l.ver \in Nat /\ l.ver <= r.ver
                    /\ l.ver = r.ver /\ l.ver > 0 => l.st = r.st
                    /\ l.ver = 0 => l.st = Seeded(l.cursor)

\* The last UNRESOLVED_KEPT of a sequence.
LastOf(s) == LET k == IF Len(s) < UNRESOLVED_KEPT THEN Len(s) ELSE UNRESOLVED_KEPT
             IN SubSeq(s, Len(s) - k + 1, Len(s))

LeftFields == {"journal", "before", "start", "limit", "leg", "proof", "page", "rows", "ladder",
               "ceiling", "faults", "drops", "levers"}

LeftOK ==
  /\ IsRecord(left, LeftFields)
  /\ Journal \in Seq(Event) /\ left.start \in Nat \cup {-1} /\ head \in 0..Len(Journal)
  /\ left.page \in Nat

PastFields == {"done", "released", "skipped", "late", "moved", "counted"}

PastOK ==
  /\ IsRecord(past, PastFields)
  /\ past.released \in Seq(Nat)
  /\ past.moved \in [1..Len(Journal) -> Nat] /\ past.counted \in [1..Len(Journal) -> Nat]

RowOK ==
  /\ row.ver \in Nat /\ IsDoc(Journal, row.st)
  /\ row.ver = 0 => row.st = Seeded(0) /\ past.released = <<>>

Inv ==
  /\ LeftOK /\ PastOK /\ RowOK
  /\ pass = [p \in Pass |-> pass[p]]
  /\ \A p \in Pass : PassOK(Journal, pass[p]) /\ Current(pass[p], row)
  /\ LeverOK(Journal, lever, row)
  /\ CursorAccounted /\ ReleasedRecorded /\ CountedOnce

\* Nothing of what the row's cursor has moved past is changed but the late rows.
SamePast ==
  /\ IsRecord(past', PastFields)
  /\ past'.done = past.done /\ past'.released = past.released /\ past'.skipped = past.skipped
  /\ past'.moved = past.moved /\ past'.counted = past.counted

\* A pass under way that has released nothing and has no gap in its page.
Running(J, q) == Sound(J, q) /\ Buffered(J, q) /\ NoRelease(q)
InHand(J, q) == Running(J, q) /\ q.st.pending # NoWindow

\* What a pass becomes between two awaits.
Goes(J, q, r) == PassOK(J, r) /\ r.ver = q.ver /\ r.written = q.written /\ r.at \notin {"idle", "seed"}

-----------------------------------------------------------------------------
(* The rows.  A row of a window in hand that rests on a block taken off the chain is
   still ahead of its leg's cursor, in the page or after it.  What is said of the rows
   is stated of a value c of Chain, so that it can be said of the state after a step as
   of the state before it. *)

Chain == [head |-> head, canon |-> canon, gone |-> gone, proof |-> proof, held |-> held,
          late |-> past.late, leg |-> left.leg]

\* The event that took the block of a row's proof off the chain.
TakenBy(c, r) == c.gone[c.proof[r][1]][c.proof[r][2]]

\* A row rests on a block that event e, or one before it, took off the chain.
Stale(c, r, e) ==
  c.held[r] # 0 /\ r \notin c.late /\ TakenBy(c, r) # 0 /\ ~(TakenBy(c, r) > e)

\* It is for the walk of window w to judge.
Owed(c, w, r) == Stale(c, r, w.cursor) /\ c.held[r] \in w.lo..w.hi

Place(c, r) == <<c.held[r], r>>
Entry(c, r) == [row |-> r, height |-> c.held[r], bump |-> c.proof[r]]

LegFields == {"after", "begun", "exhausted"}
Ahead(l, k) == l.begun => Before(l.after, k)

\* The rows a window still owes are ahead of its legs' cursors.
Walked(c, w) ==
  /\ w.cursor \in 0..c.head
  /\ w.legs = [l \in 1..3 |-> w.legs[l]] /\ \A l \in 1..3 : IsRecord(w.legs[l], LegFields)
  /\ \A r \in Row : Owed(c, w, r) =>
       ~w.legs[c.leg[r]].exhausted /\ Ahead(w.legs[c.leg[r]], Place(c, r))

\* An event passed as applied owes none.
Cleared(c, x) ==
  /\ x.e \in 0..c.head
  /\ \A r \in Row : Stale(c, r, x.e) => c.held[r] \notin x.lo..x.hi

\* Rows as a page has them.
IsRows(g) ==
  /\ IsFiniteSet(g) /\ g \subseteq [row : Row, height : Height, bump : Height \X Block]
  /\ \A x, y \in g : x.row = y.row => x = y

\* The rows owed of the leg in hand are ahead of what the pass has judged, ...
JudgedTo(c, q) ==
  ~q.faulted => \A r \in Row : Owed(c, q.st.pending, r) /\ c.leg[r] = q.leg =>
                  Ahead(q.judged, Place(c, r))

\* ... in the page or, when that is a full one, after all of it.
Remains(c, q) ==
  ~q.faulted => \A r \in Row : Owed(c, q.st.pending, r) /\ c.leg[r] = q.leg =>
                  \/ Entry(c, r) \in q.page
                  \/ q.full /\ \A y \in q.page : y.row # r /\ Before(Key(y), Place(c, r))

Paged(c, q) ==
  /\ IsRows(q.page) /\ q.page # {}
  /\ q.leg \in 1..3 => IsRecord(q.judged, LegFields)
  /\ JudgedTo(c, q) /\ Remains(c, q)

\* What is true of a pass at every step.
Bare(c, q) ==
  /\ Walked(c, q.st.pending) /\ q.buffer \subseteq 0..c.head
  /\ \A x \in q.ends : x.how = "done" => Cleared(c, x)

Stages == {"idle", "seed", "page", "take", "leg", "row", "ladder", "reanchor", "apply",
           "confirm", "move", "reread", "recheck", "demote", "write", "last"}

\* It holds a proof to write, or to compare, and is yet to say what it wrote.
Couriered == Applying \cup {"reread"}

PassRows(c, q) ==
  /\ q.at \in Stages /\ Bare(c, q)
  /\ q.at \in Walking \ {"leg"} => Paged(c, q)
  /\ q.at \in Couriered \cup {"reanchor"} => q.bump \in Height \X Block
  /\ q.at = "reanchor" /\ ~q.faulted => ~Stale(c, First(q.page).row, q.st.pending.cursor)
  /\ q.at \in Couriered => LET g == c.gone[q.bump[1]][q.bump[2]]
                            IN  g = 0 \/ g > q.st.pending.cursor
  /\ q.at \in Applying /\ q.landed => ~Stale(c, First(q.page).row, q.st.pending.cursor)

ChainOK(c) ==
  /\ c.head \in Nat /\ c.canon \in [Height -> Block \cup {0}] /\ c.gone \in [Height -> [Block -> Nat]]
  /\ c.proof \in [Row -> Height \X Block] /\ c.held \in [Row -> Height \cup {0}]
  /\ c.leg \in [Row -> 1..3]
  /\ \A h \in Height : c.canon[h] # 0 => c.gone[h][c.canon[h]] = 0

RowsInv ==
  /\ ChainOK(Chain) /\ left.rows \in Nat \ {0}
  /\ Walked(Chain, row.st.pending)
  /\ \A d \in past.done : Cleared(Chain, d)
  /\ \A p \in Pass : PassRows(Chain, pass[p])

\* No row comes to rest on a block that an event of the past took off the chain, and
\* one that rests there stays where it is.
Steady(c, d) ==
  /\ c.head <= d.head /\ d.leg = c.leg
  /\ \A r \in Row, e \in 0..c.head :
       Stale(d, r, e) => Stale(c, r, e) /\ d.held[r] = c.held[r] /\ d.proof[r] = c.proof[r]
  /\ \A h \in Height, b \in Block, e \in 0..c.head :
       c.gone[h][b] = 0 \/ c.gone[h][b] > e => d.gone[h][b] = 0 \/ d.gone[h][b] > e

\* A pass's record with its document's.
Whole(q) == IsRecord(q, PassFields) /\ IsRecord(q.st, DocFields) /\ IsRecord(q.st.pending, WindowFields)

\* No row but x moves.
OneRow(c, d, x) ==
  /\ d.head = c.head /\ d.canon = c.canon /\ d.gone = c.gone /\ d.leg = c.leg
  /\ d.proof \in [Row -> Height \X Block] /\ d.held \in [Row -> Height \cup {0}]
  /\ \A r \in Row \ {x} : /\ d.proof[r] = c.proof[r] /\ d.held[r] = c.held[r]
                          /\ r \in d.late <=> r \in c.late

\* A row is written in its stores: what then stands is as it was, on the chain, or late.
Written(x, L) ==
  /\ past' = [past EXCEPT !.late = L]
  /\ proof' \in [Row -> Height \X Block] /\ held' \in [Row -> Height \cup {0}]
  /\ \A y \in Row \ {x} : proof'[y] = proof[y] /\ held'[y] = held[y] /\ (y \in L <=> y \in past.late)
  /\ \/ held'[x] = 0 \/ x \in L \/ gone[proof'[x][1]][proof'[x][2]] = 0
     \/ held'[x] = held[x] /\ proof'[x] = proof[x] /\ x \notin past.late
  /\ head' = head /\ canon' = canon /\ gone' = gone /\ left'.leg = left.leg
=============================================================================
