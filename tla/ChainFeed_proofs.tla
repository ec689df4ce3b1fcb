-------------------------- MODULE ChainFeed_proofs --------------------------
(* Proofs about ChainFeed, for any journal, passes, rows and limits: every event at
   or below the cursor is accounted for, the row names the newest released windows,
   and an event is counted only with a move of the cursor past it.  The invariant is
   Inv of ChainFeedInv.  First what a pass is between two awaits, then one lemma for
   each step of Next. *)
EXTENDS ChainFeedInv, TLAPS

-----------------------------------------------------------------------------
(* Documents. *)

\* The window of a document with nothing in hand is a window's record.
LEMMA NoWindowRecord == IsRecord(NoWindow, WindowFields)
BY Zenon DEF NoWindow, IsRecord, WindowFields

\* A seeded document has nothing in hand.
LEMMA SeededDoc ==
  ASSUME NEW J, NEW c \in Nat
  PROVE  /\ IsDoc(J, Seeded(c)) /\ Seeded(c).pending = NoWindow
         /\ Seeded(c).cursor = c /\ Seeded(c).unresolved = <<>>
<1>1. /\ Seeded(c).pending = NoWindow /\ Seeded(c).cursor = c /\ Seeded(c).unresolved = <<>>
      /\ IsRecord(Seeded(c), DocFields)
  BY Zenon DEF Seeded, IsRecord, DocFields
<1>2. <<>> \in Seq(Nat)
  OBVIOUS
<1> QED
  BY <1>1, <1>2, NoWindowRecord, Zenon DEF IsDoc

\* What a row keeps of a sequence of numbers is one.
LEMMA KeptSeq ==
  ASSUME NEW s \in Seq(Nat)
  PROVE  Kept(s) \in Seq(Nat)
BY ChainFeedAssumption DEF Kept, Newest

\* FeedState::release moves the cursor to the event in hand and records it.
LEMMA ReleaseDoc ==
  ASSUME NEW J, NEW d, IsDoc(J, d), d.pending # NoWindow
  PROVE  /\ IsDoc(J, Release(d)) /\ Release(d).pending = NoWindow
         /\ Release(d).cursor = d.cursor + 1
         /\ Release(d).unresolved = Kept(Append(d.unresolved, d.cursor + 1))
         /\ Release(d).unresolved \in Seq(Nat)
<1>1. Append(d.unresolved, d.cursor + 1) \in Seq(Nat)
  BY DEF IsDoc
<1>2. Kept(Append(d.unresolved, d.cursor + 1)) \in Seq(Nat)
  BY <1>1, KeptSeq, Zenon
<1> DEFINE u == Kept(Append(d.unresolved, d.cursor + 1))
<1>3. Release(d) = [d EXCEPT !.cursor = d.cursor + 1, !.pending = NoWindow, !.unresolved = u]
  BY Zenon DEF Release, Kept, IsDoc, IsRecord, DocFields
<1>4. u \in Seq(Nat)
  BY <1>2, Zenon
<1> HIDE DEF u
<1>5. /\ Release(d).cursor = d.cursor + 1 /\ Release(d).pending = NoWindow /\ Release(d).unresolved = u
      /\ IsRecord(Release(d), DocFields)
  BY <1>3, Zenon DEF IsDoc, IsRecord, DocFields
<1>6. IsDoc(J, Release(d))
  BY <1>4, <1>5, NoWindowRecord DEF IsDoc
<1> QED
  BY <1>4, <1>5, <1>6, Zenon DEF u

\* A window that was judged to its end moves the cursor to its event.
LEMMA JudgedDoc ==
  ASSUME NEW J, NEW d, IsDoc(J, d), d.pending # NoWindow
  PROVE  LET e == [d EXCEPT !.cursor = d.pending.cursor, !.pending = NoWindow]
         IN  /\ IsDoc(J, e) /\ e.pending = NoWindow
             /\ e.cursor = d.cursor + 1 /\ e.unresolved = d.unresolved
<1> DEFINE e == [d EXCEPT !.cursor = d.pending.cursor, !.pending = NoWindow]
<1>1. /\ IsRecord(e, DocFields) /\ e.pending = NoWindow /\ e.cursor = d.pending.cursor
      /\ e.unresolved = d.unresolved
  BY Zenon DEF IsDoc, IsRecord, DocFields
<1>2. d.pending.cursor = d.cursor + 1 /\ d.cursor \in Nat /\ d.unresolved \in Seq(Nat)
  BY Zenon DEF IsDoc
<1> HIDE DEF e
<1>3. IsDoc(J, e)
  BY <1>1, <1>2, NoWindowRecord DEF IsDoc
<1> QED
  BY <1>1, <1>2, <1>3, Zenon DEF e

-----------------------------------------------------------------------------
(* A pass between two awaits. *)

\* A step that changes nothing of a pass's account but the legs of its window.
LEMMA SameAccount ==
  ASSUME NEW J \in Seq(Event), NEW q, NEW r, Running(J, q), IsRecord(r, PassFields), IsDoc(J, r.st),
         r.st.cursor = q.st.cursor, r.st.unresolved = q.st.unresolved,
         r.st.pending = NoWindow <=> q.st.pending = NoWindow,
         r.written = q.written, r.buffer = q.buffer, r.ends = q.ends, r.unwritten = q.unwritten
  PROVE  Running(J, r)
BY Zenon DEF Running, Sound, Buffered, Edge, Accounts, NoRelease, Ended

\* One more event is ended, the one after the cursor.
LEMMA NextAccounted ==
  ASSUME NEW J \in Seq(Event), NEW q, NEW r, NEW x, Sound(J, q), r.written = q.written,
         Consumable(J, q.st.cursor + 1), r.st.cursor = q.st.cursor + 1,
         x.how \in {"done", "released"}, x.e = q.st.cursor + 1,
         r.ends = q.ends \cup {x}, r.unwritten = q.unwritten \cup {q.st.cursor + 1}
  PROVE  Accounts(J, r)
<1> DEFINE c == q.st.cursor
           v == q.written.cursor
<1>1. Accounts(J, q) /\ v \in Nat /\ c \in Nat /\ v <= c
  BY Zenon DEF Sound, IsDoc, Accounts
<1>2. r.written.cursor = v /\ r.st.cursor = c + 1 /\ v <= c + 1
  BY <1>1
<1>3. ASSUME NEW e \in DOMAIN J, v < e, e <= c + 1
      PROVE  Consumable(J, e) /\ \E y \in r.ends : y.e = e
  <2>1. CASE e <= c
    BY <1>1, <1>3, <2>1, Zenon DEF Accounts
  <2>2. CASE e = c + 1
    BY <2>2, Zenon
  <2> QED
    BY <1>1, <1>3, <2>1, <2>2
<1>4. \A e \in r.unwritten : e \in DOMAIN J /\ v < e /\ e <= c + 1
  BY <1>1 DEF Accounts, Consumable
<1>5. \A y \in r.ends : y.how \in {"done", "released"} /\ y.e \in Nat
  BY <1>1 DEF Accounts
<1> QED
  BY <1>1, <1>2, <1>3, <1>4, <1>5 DEF Accounts

\* The event in hand is finished: what is left is the write.
LEMMA FinishGoes ==
  ASSUME NEW J \in Seq(Event), NEW q, NEW how \in {"done", "released"}, NEW d, InHand(J, q),
         IsDoc(J, d), d.cursor = q.st.cursor + 1, d.pending = NoWindow,
         d.unresolved = IF how = "done" THEN q.st.unresolved
                        ELSE Kept(Append(q.st.unresolved, d.cursor))
  PROVE  Goes(J, q, Finish(q, how, d))
<1> DEFINE x == End(how, q.st.pending)
           f == Finish(q, how, d)
<1>1. q.st.pending.cursor = q.st.cursor + 1 /\ q.st.cursor \in Nat /\ Consumable(J, q.st.cursor + 1)
  BY Zenon DEF InHand, Running, Sound, IsDoc
<1>2. x.how = how /\ x.e = q.st.cursor + 1
  BY <1>1, Zenon DEF End
<1>3. /\ IsRecord(f, PassFields) /\ f.at = "write" /\ f.st = d /\ f.ends = q.ends \cup {x}
      /\ f.unwritten = q.unwritten \cup {q.st.cursor + 1} /\ f.written = q.written
      /\ f.ver = q.ver /\ f.buffer = q.buffer
  BY <1>1, Zenon DEF Finish, InHand, Running, Sound, IsRecord, PassFields
<1> HIDE DEF x, f
<1>4. Accounts(J, f)
  BY <1>1, <1>2, <1>3, NextAccounted, Zenon DEF InHand, Running
<1>5. Buffered(J, f)
  BY <1>1, <1>3, Zenon DEF InHand, Running, Buffered, Edge
<1>6. CASE how = "done"
  <2>1. NoRelease(f)
    BY <1>2, <1>3, <1>6, Zenon DEF InHand, Running, NoRelease, Ended
  <2> QED
    BY <1>3, <1>4, <1>5, <2>1 DEF Goes, PassOK, Sound, InHand, Running, Walking, f
<1>7. CASE how = "released"
  <2>1. OneRelease(f)
    BY <1>2, <1>3, <1>7 DEF InHand, Running, NoRelease, OneRelease, Ended
  <2> QED
    BY <1>3, <1>4, <1>5, <2>1, Zenon DEF Goes, PassOK, Sound, InHand, Running, Walking, f
<1> QED
  BY <1>6, <1>7, Zenon


\* A pass under way is as it must be at whatever await it goes to.
LEMMA AtGoes ==
  ASSUME NEW J \in Seq(Event), NEW q, NEW r, Running(J, r), r.ver = q.ver, r.written = q.written,
         r.at \notin {"idle", "seed"},
         r.at \in Walking => r.st.pending # NoWindow,
         r.at \in {"page", "take"} => r.st.pending = NoWindow,
         r.at = "take" => r.buffer # {}
  PROVE  Goes(J, q, r)
BY Zenon DEF Goes, PassOK, Running

\* A step that leaves the document and the account alone.
LEMMA Touched ==
  ASSUME NEW J \in Seq(Event), NEW q, NEW r, Running(J, q), IsRecord(r, PassFields), r.st = q.st,
         r.written = q.written, r.buffer = q.buffer, r.ends = q.ends, r.unwritten = q.unwritten
  PROVE  Running(J, r)
BY SameAccount, Zenon DEF Running, Sound

\* The head of the loop.
LEMMA LoopGoes ==
  ASSUME NEW J \in Seq(Event), NEW p, NEW q, Running(J, q)
  PROVE  Goes(J, q, Loop(p, q))
<1>1. IsRecord(q, PassFields) /\ IsDoc(J, q.st)
  BY Zenon DEF Running, Sound
<1>2. CASE q.st.pending # NoWindow /\ q.st.pending.faults >= left.ceiling
  <2>1. Loop(p, q) = Finish(q, "released", Release(q.st))
    BY <1>2, Zenon DEF Loop
  <2> QED
    BY <1>1, <1>2, <2>1, ReleaseDoc, FinishGoes, Zenon DEF InHand
<1>3. CASE q.st.pending # NoWindow /\ ~(q.st.pending.faults >= left.ceiling)
  <2> DEFINE a == IF q.finished >= left.limit[p] THEN "last" ELSE "leg"
             m == Min({l \in 1..3 : ~q.st.pending.legs[l].exhausted})
             r == [q EXCEPT !.at = a, !.leg = m]
  <2>1. Loop(p, q) = r
    BY <1>3, Zenon DEF Loop
  <2>2. a \in {"last", "leg"}
    BY Zenon
  <2> HIDE DEF a, m
  <2>3. /\ IsRecord(r, PassFields) /\ r.at = a /\ r.st = q.st /\ r.written = q.written /\ r.buffer = q.buffer
        /\ r.ends = q.ends /\ r.unwritten = q.unwritten /\ r.ver = q.ver
    BY <1>1, Zenon DEF IsRecord, PassFields
  <2> HIDE DEF r
  <2>4. Running(J, r)
    BY <2>3, Touched, Zenon
  <2> QED
    BY <1>3, <2>1, <2>2, <2>3, <2>4, AtGoes DEF Walking
<1>4. CASE q.st.pending = NoWindow
  <2> DEFINE a == IF q.buffer # {} THEN "take"
                  ELSE IF q.more /\ q.pages < PAGES_PER_PASS THEN "page" ELSE "last"
             r == [q EXCEPT !.at = a]
  <2>1. Loop(p, q) = r
    BY <1>4, Zenon DEF Loop
  <2>2. a \in {"take", "page", "last"} /\ (a = "take" => q.buffer # {})
    BY Zenon
  <2> HIDE DEF a
  <2>3. /\ IsRecord(r, PassFields) /\ r.at = a /\ r.st = q.st /\ r.written = q.written /\ r.buffer = q.buffer
        /\ r.ends = q.ends /\ r.unwritten = q.unwritten /\ r.ver = q.ver
    BY <1>1, Zenon DEF IsRecord, PassFields
  <2> HIDE DEF r
  <2>4. Running(J, r)
    BY <2>3, Touched, Zenon
  <2> QED
    BY <1>4, <2>1, <2>2, <2>3, <2>4, AtGoes DEF Walking
<1> QED
  BY <1>2, <1>3, <1>4, Zenon

\* The window in hand is written over by one of the same event.
LEMMA PendingDoc ==
  ASSUME NEW J, NEW d, IsDoc(J, d), d.pending # NoWindow,
         NEW w, IsRecord(w, WindowFields), w.cursor = d.pending.cursor
  PROVE  LET e == [d EXCEPT !.pending = w]
         IN  /\ IsDoc(J, e) /\ e.pending = w /\ e.pending # NoWindow
             /\ e.cursor = d.cursor /\ e.unresolved = d.unresolved
<1> DEFINE e == [d EXCEPT !.pending = w]
<1>1. IsRecord(e, DocFields) /\ e.pending = w /\ e.cursor = d.cursor /\ e.unresolved = d.unresolved
  BY Zenon DEF IsDoc, IsRecord, DocFields
<1>2. w # NoWindow
  <2>1. NoWindow.cursor = 0
    BY Zenon DEF NoWindow
  <2> QED
    BY <2>1 DEF IsDoc
<1> HIDE DEF e
<1>3. IsDoc(J, e)
  BY <1>1, <1>2, Zenon DEF IsDoc
<1> QED
  BY <1>1, <1>2, <1>3, Zenon DEF e

\* So a leg's progress, or a fault, leaves the pass with its event in hand.
LEMMA WindowKept ==
  ASSUME NEW J \in Seq(Event), NEW q, NEW w, InHand(J, q),
         IsRecord(w, WindowFields), w.cursor = q.st.pending.cursor
  PROVE  LET r == [q EXCEPT !.st = [q.st EXCEPT !.pending = w]]
         IN  InHand(J, r) /\ r.ver = q.ver /\ r.written = q.written
<1> DEFINE d == [q.st EXCEPT !.pending = w]
           r == [q EXCEPT !.st = d]
<1>1. IsRecord(q, PassFields) /\ IsDoc(J, q.st) /\ q.st.pending # NoWindow /\ Running(J, q)
  BY Zenon DEF InHand, Running, Sound
<1>2. /\ IsDoc(J, d) /\ d.pending # NoWindow /\ d.cursor = q.st.cursor
      /\ d.unresolved = q.st.unresolved
  BY <1>1, PendingDoc
<1> HIDE DEF d
<1>3. /\ IsRecord(r, PassFields) /\ r.st = d /\ r.written = q.written /\ r.buffer = q.buffer
      /\ r.ends = q.ends /\ r.unwritten = q.unwritten /\ r.ver = q.ver
  BY <1>1, Zenon DEF IsRecord, PassFields
<1> HIDE DEF r
<1>4. Running(J, r)
  BY <1>1, <1>2, <1>3, SameAccount, Zenon
<1> QED
  BY <1>2, <1>3, <1>4, Zenon DEF InHand, d, r

\* The pages of a pass's legs are run: the window is judged, or held for the next pass.
LEMMA RanGoes ==
  ASSUME NEW J \in Seq(Event), NEW q, InHand(J, q)
  PROVE  Goes(J, q, Ran(q))
<1>1. IsRecord(q, PassFields) /\ IsDoc(J, q.st) /\ q.st.pending # NoWindow /\ Running(J, q)
  BY Zenon DEF InHand, Running, Sound
<1>2. CASE AllExhausted(q.st.pending)
  <2> DEFINE d == [q.st EXCEPT !.cursor = q.st.pending.cursor, !.pending = NoWindow]
  <2>1. Ran(q) = Finish(q, "done", d)
    BY <1>2, Zenon DEF Ran
  <2>2. IsDoc(J, d) /\ d.pending = NoWindow /\ d.cursor = q.st.cursor + 1 /\ d.unresolved = q.st.unresolved
    BY <1>1, JudgedDoc, Zenon
  <2> HIDE DEF d
  <2> QED
    BY <2>1, <2>2, FinishGoes, Zenon
<1>3. CASE ~AllExhausted(q.st.pending)
  <2> DEFINE r == [q EXCEPT !.at = "write", !.next = "last"]
  <2>1. Ran(q) = r
    BY <1>3, Zenon DEF Ran
  <2>2. /\ IsRecord(r, PassFields) /\ r.at = "write" /\ r.st = q.st /\ r.written = q.written /\ r.buffer = q.buffer
        /\ r.ends = q.ends /\ r.unwritten = q.unwritten /\ r.ver = q.ver
    BY <1>1, Zenon DEF IsRecord, PassFields
  <2> HIDE DEF r
  <2>3. Running(J, r)
    BY <1>1, <2>2, Touched, Zenon
  <2> QED
    BY <2>1, <2>2, <2>3, AtGoes DEF Walking
<1> QED
  BY <1>2, <1>3, Zenon

\* The leg after, or the end of the legs.
LEMMA NextLegGoes ==
  ASSUME NEW J \in Seq(Event), NEW q, NEW l, InHand(J, q)
  PROVE  Goes(J, q, NextLeg(q, l))
<1> DEFINE rest == {k \in 1..3 : k > l /\ ~q.st.pending.legs[k].exhausted}
           r == [q EXCEPT !.at = "leg", !.leg = Min(rest)]
<1>1. NextLeg(q, l) = IF rest = {} THEN Ran(q) ELSE r
  BY Zenon DEF NextLeg
<1>2. IsRecord(q, PassFields) /\ q.st.pending # NoWindow /\ Running(J, q)
  BY Zenon DEF InHand, Running, Sound
<1> HIDE DEF rest
<1>3. /\ IsRecord(r, PassFields) /\ r.at = "leg" /\ r.st = q.st /\ r.written = q.written /\ r.buffer = q.buffer
      /\ r.ends = q.ends /\ r.unwritten = q.unwritten /\ r.ver = q.ver
  BY <1>2, Zenon DEF IsRecord, PassFields
<1> HIDE DEF r
<1>4. Running(J, r)
  BY <1>2, <1>3, Touched, Zenon
<1>5. Goes(J, q, r)
  BY <1>2, <1>3, <1>4, AtGoes DEF Walking
<1> QED
  BY <1>1, <1>5, RanGoes, Zenon

\* A pass in hand goes to the write of its held window.
LEMMA HoldGoes ==
  ASSUME NEW J \in Seq(Event), NEW q, InHand(J, q)
  PROVE  Goes(J, q, [q EXCEPT !.at = "write", !.next = "last"])
<1> DEFINE r == [q EXCEPT !.at = "write", !.next = "last"]
<1>1. IsRecord(q, PassFields) /\ q.st.pending # NoWindow /\ Running(J, q)
  BY Zenon DEF InHand, Running, Sound
<1>2. /\ IsRecord(r, PassFields) /\ r.at = "write" /\ r.st = q.st /\ r.written = q.written /\ r.buffer = q.buffer
      /\ r.ends = q.ends /\ r.unwritten = q.unwritten /\ r.ver = q.ver
  BY <1>1, Zenon DEF IsRecord, PassFields
<1> HIDE DEF r
<1>3. Running(J, r)
  BY <1>1, <1>2, Touched, Zenon
<1> QED
  BY <1>2, <1>3, AtGoes, Zenon DEF Walking, r

\* A faulted leg.
LEMMA LegFaultedGoes ==
  ASSUME NEW J \in Seq(Event), NEW q, InHand(J, q)
  PROVE  Goes(J, q, LegFaulted(q))
<1> DEFINE n == q.st.pending.faults + 1
           w == [q.st.pending EXCEPT !.faults = n]
           r == [q EXCEPT !.st = [q.st EXCEPT !.pending = w]]
<1>1. IsRecord(q, PassFields) /\ IsRecord(q.st, DocFields) /\ IsRecord(q.st.pending, WindowFields)
  BY Zenon DEF InHand, Running, Sound, IsDoc
<1>2. LegFaulted(q) = [r EXCEPT !.at = "write", !.next = "last"]
  BY <1>1, Zenon DEF LegFaulted, IsRecord, PassFields, DocFields, WindowFields
<1> HIDE DEF n
<1>3. IsRecord(w, WindowFields) /\ w.cursor = q.st.pending.cursor
  BY <1>1, Zenon DEF IsRecord, WindowFields
<1> HIDE DEF w
<1>4. InHand(J, r) /\ r.ver = q.ver /\ r.written = q.written
  BY <1>3, WindowKept, Zenon
<1> HIDE DEF r
<1>5. Goes(J, r, [r EXCEPT !.at = "write", !.next = "last"])
  BY <1>4, HoldGoes, Zenon
<1> QED
  BY <1>2, <1>4, <1>5, Zenon DEF Goes

\* The leg's page is judged.
LEMMA LegEndsGoes ==
  ASSUME NEW J \in Seq(Event), NEW q, NEW stopped, InHand(J, q)
  PROVE  Goes(J, q, LegEnds(q, stopped))
<1> DEFINE x == [q.judged EXCEPT !.exhausted = ~q.full /\ ~stopped]
           m == [q.st.pending.legs EXCEPT ![q.leg] = x]
           w == [q.st.pending EXCEPT !.legs = m]
           r == [q EXCEPT !.st = [q.st EXCEPT !.pending = w]]
<1>1. IsRecord(q, PassFields) /\ IsRecord(q.st, DocFields) /\ IsRecord(q.st.pending, WindowFields)
  BY Zenon DEF InHand, Running, Sound, IsDoc
<1>2. [q EXCEPT !.st.pending.legs[q.leg] = x] = r
  <2> HIDE DEF x
  <2> QED
    BY <1>1, Zenon DEF IsRecord, PassFields, DocFields, WindowFields
<1>3. LegEnds(q, stopped) = IF q.faulted THEN LegFaulted(q)
                            ELSE IF stopped THEN [r EXCEPT !.at = "write", !.next = "last"]
                            ELSE NextLeg(r, q.leg)
  <2> HIDE DEF r
  <2> QED
    BY <1>2, Zenon DEF LegEnds
<1> HIDE DEF m
<1>4. IsRecord(w, WindowFields) /\ w.cursor = q.st.pending.cursor
  BY <1>1, Zenon DEF IsRecord, WindowFields
<1> HIDE DEF w
<1>5. InHand(J, r) /\ r.ver = q.ver /\ r.written = q.written
  BY <1>4, WindowKept, Zenon
<1> HIDE DEF r
<1>6. Goes(J, r, [r EXCEPT !.at = "write", !.next = "last"]) /\ Goes(J, r, NextLeg(r, q.leg))
  BY <1>5, HoldGoes, NextLegGoes, Zenon
<1>7. Goes(J, q, LegFaulted(q))
  BY LegFaultedGoes, Zenon
<1> QED
  BY <1>3, <1>5, <1>6, <1>7 DEF Goes

\* A row of the page is judged.
LEMMA NextRowGoes ==
  ASSUME NEW J \in Seq(Event), NEW q, InHand(J, q)
  PROVE  Goes(J, q, NextRow(q))
<1> DEFINE x == First(q.page)
           j == [after |-> Key(x), begun |-> TRUE, exhausted |-> FALSE]
           g == q.page \ {x}
           r == [q EXCEPT !.page = g, !.judged = j]
           s == [r EXCEPT !.at = "row"]
<1>1. NextRow(q) = IF r.page = {} THEN LegEnds(r, FALSE) ELSE s
  BY Zenon DEF NextRow
<1>2. IsRecord(q, PassFields) /\ q.st.pending # NoWindow /\ Running(J, q)
  BY Zenon DEF InHand, Running, Sound
<1> HIDE DEF g, j
<1>3. /\ IsRecord(r, PassFields) /\ r.st = q.st /\ r.written = q.written /\ r.buffer = q.buffer
      /\ r.ends = q.ends /\ r.unwritten = q.unwritten /\ r.ver = q.ver
  BY <1>2, Zenon DEF IsRecord, PassFields
<1> HIDE DEF r
<1>4. InHand(J, r)
  BY <1>2, <1>3, Touched, Zenon DEF InHand
<1>5. /\ IsRecord(s, PassFields) /\ s.st = r.st /\ s.written = r.written /\ s.buffer = r.buffer
      /\ s.ends = r.ends /\ s.unwritten = r.unwritten /\ s.ver = r.ver /\ s.at = "row"
  BY <1>3, Zenon DEF IsRecord, PassFields
<1> HIDE DEF s
<1>6. Running(J, s)
  BY <1>4, <1>5, Touched, Zenon DEF InHand
<1>7. Goes(J, q, s)
  BY <1>2, <1>3, <1>5, <1>6, AtGoes DEF Walking
<1>8. Goes(J, r, LegEnds(r, FALSE))
  BY <1>4, LegEndsGoes, Zenon
<1> QED
  BY <1>1, <1>3, <1>7, <1>8, Zenon DEF Goes

-----------------------------------------------------------------------------
(* Steps that leave the row alone. *)

\* A pass that is not under way.
LEMMA IdleOK ==
  ASSUME NEW J \in Seq(Event), NEW r
  PROVE  PassOK(J, IdlePass) /\ Current(IdlePass, r)
<1>1. /\ IdlePass.at = "idle" /\ IdlePass.st = Seeded(0) /\ IdlePass.written = Seeded(0)
      /\ IdlePass.buffer = {} /\ IdlePass.ends = {} /\ IdlePass.unwritten = {}
      /\ IsRecord(IdlePass, PassFields)
  BY Zenon DEF IdlePass, IsRecord, PassFields
<1>2. IsDoc(J, Seeded(0)) /\ Seeded(0).cursor = 0
  BY SeededDoc, Zenon
<1>3. Sound(J, IdlePass) /\ Buffered(J, IdlePass) /\ NoRelease(IdlePass)
  BY <1>1, <1>2 DEF Sound, Accounts, Buffered, NoRelease, Ended
<1> QED
  BY <1>1, <1>3, Zenon DEF PassOK, Current, Walking

\* A bound is spent: the journal and the other limits are as they were.
LEMMA SpendKeeps ==
  ASSUME LeftOK, NEW f \in {"faults", "drops", "levers"}, Spend(f), head' = head
  PROVE  LeftOK' /\ Journal' = Journal
<1> DEFINE n == left[f] - 1
<1>1. left' = [left EXCEPT ![f] = n] /\ IsRecord(left, LeftFields)
  BY Zenon DEF Spend, LeftOK
<1> HIDE DEF n
<1>2. /\ IsRecord(left', LeftFields) /\ left'.journal = left.journal
      /\ left'.start = left.start /\ left'.page = left.page
  BY <1>1, Zenon DEF IsRecord, LeftFields
<1> QED
  BY <1>2, Zenon DEF LeftOK, Journal

\* While the row stands, what is said of it stands.
LEMMA RowStands ==
  ASSUME Inv, Journal' = Journal, row' = row, SamePast
  PROVE  PastOK' /\ RowOK' /\ CursorAccounted' /\ ReleasedRecorded' /\ CountedOnce'
<1>1. PastOK'
  BY Zenon DEF Inv, PastOK, SamePast
<1>2. RowOK'
  BY Zenon DEF Inv, RowOK, SamePast
<1>3. CursorAccounted'
  BY DEF Inv, CursorAccounted, SamePast
<1>4. ReleasedRecorded'
  BY Zenon DEF Inv, ReleasedRecorded, SamePast
<1>5. CountedOnce'
  BY Zenon DEF Inv, CountedOnce, SamePast
<1> QED
  BY <1>1, <1>2, <1>3, <1>4, <1>5

\* One pass moves and the row stands.
LEMMA PassMoves ==
  ASSUME Inv, NEW p \in Pass, NEW r, PassOK(Journal, r), Current(r, row),
         pass' = [pass EXCEPT ![p] = r], LeftOK', Journal' = Journal, row' = row,
         lever' = lever, SamePast
  PROVE  Inv'
<1>1. pass' = [s \in Pass |-> IF s = p THEN r ELSE pass[s]]
  BY Zenon DEF Inv
<1>2. pass' = [s \in Pass |-> pass'[s]]
  BY <1>1, Zenon
<1>3. \A s \in Pass : PassOK(Journal, pass'[s]) /\ Current(pass'[s], row)
  BY <1>1, Zenon DEF Inv
<1>4. LeverOK(Journal, lever, row)
  BY Zenon DEF Inv
<1> QED
  BY <1>2, <1>3, <1>4, RowStands, Zenon DEF Inv

\* So it is for a pass that goes on from what it was.
LEMMA PassGoes ==
  ASSUME Inv, NEW p \in Pass, NEW r, Goes(Journal, pass[p], r), pass[p].at \notin {"idle", "seed"},
         pass' = [pass EXCEPT ![p] = r], LeftOK', Journal' = Journal, row' = row,
         lever' = lever, SamePast
  PROVE  Inv'
<1>1. PassOK(Journal, r) /\ Current(r, row)
  BY Zenon DEF Inv, Goes, Current
<1> QED
  BY <1>1, PassMoves, Zenon

\* A pass at a step of its walk has its event in hand.
LEMMA WalkingInHand ==
  ASSUME Inv, NEW p \in Pass, pass[p].at \in Walking
  PROVE  InHand(Journal, pass[p]) /\ pass[p].at \notin {"idle", "seed"} /\ Journal \in Seq(Event)
BY Zenon DEF Inv, PassOK, Walking, InHand, Running, LeftOK

\* The past but for the late rows is kept by a change of these.
LEMMA LateOnly ==
  ASSUME Inv, NEW S, past' = [past EXCEPT !.late = S]
  PROVE  SamePast
BY Zenon DEF Inv, PastOK, IsRecord, PastFields, SamePast

\* Nothing changed is changed in no way.
LEMMA PastStands ==
  ASSUME Inv, past' = past
  PROVE  SamePast
BY Zenon DEF Inv, PastOK, SamePast

\* Nothing of the bounds spent.
LEMMA LeftStands ==
  ASSUME Inv, left' = left, head' = head
  PROVE  LeftOK' /\ Journal' = Journal
BY Zenon DEF Inv, LeftOK, Journal

-----------------------------------------------------------------------------
(* The walk of the window in hand. *)

\* A step that leaves the document and the account alone keeps the event in hand.
LEMMA HandTouched ==
  ASSUME NEW J \in Seq(Event), NEW q, NEW r, InHand(J, q), IsRecord(r, PassFields), r.st = q.st,
         r.written = q.written, r.buffer = q.buffer, r.ends = q.ends, r.unwritten = q.unwritten
  PROVE  InHand(J, r)
BY Touched, Zenon DEF InHand

\* It goes to another step of the walk.
LEMMA HandGoes ==
  ASSUME NEW J \in Seq(Event), NEW q, NEW r, InHand(J, q), IsRecord(r, PassFields), r.st = q.st,
         r.written = q.written, r.buffer = q.buffer, r.ends = q.ends, r.unwritten = q.unwritten,
         r.ver = q.ver, r.at \in Walking
  PROVE  Goes(J, q, r)
<1>1. Running(J, r) /\ r.st.pending # NoWindow
  BY HandTouched, Zenon DEF InHand
<1>2. r.at \notin {"idle", "seed", "page", "take"}
  BY Zenon DEF Walking
<1> QED
  BY <1>1, <1>2, AtGoes, Zenon

\* The memo takes a verdict.
LEMMA MemoKept ==
  ASSUME NEW J \in Seq(Event), NEW q, NEW b, InHand(J, q)
  PROVE  InHand(J, Memo(q, b)) /\ Memo(q, b).ver = q.ver /\ Memo(q, b).written = q.written
<1> DEFINE m == q.memo \cup {<<b, Valid(q, b)>>}
           r == [q EXCEPT !.memo = m]
<1>1. Memo(q, b) = IF Known(q, b) THEN q ELSE r
  BY Zenon DEF Memo
<1>2. IsRecord(q, PassFields)
  BY Zenon DEF InHand, Running, Sound
<1> HIDE DEF m
<1>3. /\ IsRecord(r, PassFields) /\ r.st = q.st /\ r.written = q.written /\ r.buffer = q.buffer
      /\ r.ends = q.ends /\ r.unwritten = q.unwritten /\ r.ver = q.ver
  BY <1>2, Zenon DEF IsRecord, PassFields
<1> HIDE DEF r
<1>4. InHand(J, r)
  BY <1>3, HandTouched, Zenon
<1> QED
  BY <1>1, <1>3, <1>4, Zenon

\* What a pass goes to from a like of it, it goes to.
LEMMA GoesFromLike ==
  ASSUME NEW J, NEW q, NEW r, NEW s, r.ver = q.ver, r.written = q.written, Goes(J, r, s)
  PROVE  Goes(J, q, s)
BY Zenon DEF Goes

\* A leg's page.
LEMMA LegKeeps ==
  ASSUME Inv, NEW p \in Pass, Leg(p)
  PROVE  Inv'
<1> DEFINE q == pass[p]
           page == LegPage(q.st.pending, q.leg)
           full == Cardinality(page) = left.rows
           judged == q.st.pending.legs[q.leg]
           r == [q EXCEPT !.page = page, !.full = full, !.judged = judged, !.faulted = FALSE]
           s == [r EXCEPT !.at = "row"]
           t == IF page = {} THEN LegEnds(r, FALSE) ELSE s
<1>1. pass' = [pass EXCEPT ![p] = t] /\ q.at = "leg"
      /\ left' = left /\ head' = head /\ row' = row /\ lever' = lever /\ past' = past
  BY Zenon DEF Leg
<1>2. InHand(Journal, q) /\ Journal \in Seq(Event) /\ IsRecord(q, PassFields)
  BY <1>1, WalkingInHand, Zenon DEF Walking, InHand, Running, Sound
<1> HIDE DEF page, full, judged, q
<1>3. /\ IsRecord(r, PassFields) /\ r.st = q.st /\ r.written = q.written /\ r.buffer = q.buffer
      /\ r.ends = q.ends /\ r.unwritten = q.unwritten /\ r.ver = q.ver
  BY <1>2, Zenon DEF IsRecord, PassFields
<1> HIDE DEF r
<1>4. InHand(Journal, r)
  BY <1>2, <1>3, HandTouched, Zenon
<1>5. /\ IsRecord(s, PassFields) /\ s.st = r.st /\ s.written = r.written /\ s.buffer = r.buffer
      /\ s.ends = r.ends /\ s.unwritten = r.unwritten /\ s.ver = r.ver /\ s.at = "row"
  BY <1>3, Zenon DEF IsRecord, PassFields
<1> HIDE DEF s
<1>6. Goes(Journal, r, s) /\ Goes(Journal, r, LegEnds(r, FALSE))
  BY <1>2, <1>4, <1>5, HandGoes, LegEndsGoes, Zenon DEF Walking
<1>7. Goes(Journal, q, t)
  BY <1>3, <1>6, GoesFromLike, Zenon
<1> HIDE DEF t
<1> QED
  BY <1>1, <1>7, PassGoes, LeftStands, PastStands, Zenon DEF q

\* The read of a leg's page faults.
LEMMA LegReadFaultsKeeps ==
  ASSUME Inv, NEW p \in Pass, LegReadFaults(p)
  PROVE  Inv'
<1>1. pass' = [pass EXCEPT ![p] = LegFaulted(pass[p])] /\ pass[p].at = "leg"
      /\ left' = left /\ head' = head /\ row' = row /\ lever' = lever /\ past' = past
  <2>1. pass' = [pass EXCEPT ![p] = LegFaulted(pass[p])]
    BY Zenon DEF LegReadFaults
  <2> QED
    BY <2>1, Zenon DEF LegReadFaults
<1>2. InHand(Journal, pass[p]) /\ Journal \in Seq(Event) /\ pass[p].at \notin {"idle", "seed"}
  BY <1>1, WalkingInHand, Zenon DEF Walking
<1>3. Goes(Journal, pass[p], LegFaulted(pass[p]))
  BY <1>2, LegFaultedGoes, Zenon
<1> QED
  BY <1>1, <1>2, <1>3, PassGoes, LeftStands, PastStands, Zenon

\* A row against its own proof.
LEMMA JudgeRowKeeps ==
  ASSUME Inv, NEW p \in Pass, JudgeRow(p)
  PROVE  Inv'
<1> DEFINE x == First(pass[p].page)
           b == Bump(pass[p], x)
           q == Memo(pass[p], b)
           u == [q EXCEPT !.at = "ladder"]
           v == [q EXCEPT !.at = "reanchor", !.bump = b]
           t == CASE q.leg = 1 /\ ~Valid(q, b) -> u
                  [] q.leg = 1 /\ Valid(q, b) /\ x.height # b[1] -> v
                  [] OTHER -> NextRow(q)
<1>1. pass' = [pass EXCEPT ![p] = t] /\ pass[p].at = "row"
      /\ left' = left /\ head' = head /\ row' = row /\ lever' = lever /\ Stood(q, b, x.row)
  BY Zenon DEF JudgeRow
<1>2. SamePast
  BY <1>1, LateOnly, Zenon DEF Stood
<1>3. InHand(Journal, pass[p]) /\ Journal \in Seq(Event) /\ pass[p].at \notin {"idle", "seed"}
  BY <1>1, WalkingInHand, Zenon DEF Walking
<1> HIDE DEF x, b
<1>4. InHand(Journal, q) /\ q.ver = pass[p].ver /\ q.written = pass[p].written
  BY <1>3, MemoKept
<1>5. IsRecord(q, PassFields)
  BY <1>4, Zenon DEF InHand, Running, Sound
<1> HIDE DEF q
<1>6. /\ IsRecord(u, PassFields) /\ u.st = q.st /\ u.written = q.written /\ u.buffer = q.buffer
      /\ u.ends = q.ends /\ u.unwritten = q.unwritten /\ u.ver = q.ver /\ u.at = "ladder"
  BY <1>5, Zenon DEF IsRecord, PassFields
<1>7. /\ IsRecord(v, PassFields) /\ v.st = q.st /\ v.written = q.written /\ v.buffer = q.buffer
      /\ v.ends = q.ends /\ v.unwritten = q.unwritten /\ v.ver = q.ver /\ v.at = "reanchor"
  BY <1>5, Zenon DEF IsRecord, PassFields
<1> HIDE DEF u, v
<1>8. Goes(Journal, q, u) /\ Goes(Journal, q, v) /\ Goes(Journal, q, NextRow(q))
  BY <1>3, <1>4, <1>6, <1>7, HandGoes, NextRowGoes DEF Walking
<1>9. t \in {u, v, NextRow(q)}
  BY Zenon
<1> HIDE DEF t
<1>10. Goes(Journal, pass[p], t)
  BY <1>4, <1>8, <1>9, GoesFromLike
<1> QED
  BY <1>1, <1>2, <1>3, <1>10, PassGoes, LeftStands, Zenon

\* The couriers are asked.
LEMMA LadderKeeps ==
  ASSUME Inv, NEW p \in Pass, Ladder(p)
  PROVE  Inv'
<1> DEFINE q == pass[p]
           n == q.ladder - 1
           r == [q EXCEPT !.ladder = n]
           u == [q EXCEPT !.page = {}]
           v == [r EXCEPT !.at = "recheck"]
           w(b) == [r EXCEPT !.at = "apply", !.bump = b, !.landed = FALSE]
<1>1. /\ \E t : /\ t \in {LegEnds(u, TRUE), v} \/ \E b : t = w(b)
                /\ pass' = [pass EXCEPT ![p] = t]
      /\ q.at = "ladder"
      /\ left' = left /\ head' = head /\ row' = row /\ lever' = lever /\ past' = past
  <2>1. \E t : /\ t \in {LegEnds(u, TRUE), v} \/ \E b : t = w(b)
               /\ pass' = [pass EXCEPT ![p] = t]
    <3>1. CASE q.ladder = 0
      <4>1. pass' = [pass EXCEPT ![p] = LegEnds(u, TRUE)]
        BY <3>1, Zenon DEF Ladder
      <4> QED
        BY <4>1, Zenon
    <3>2. CASE q.ladder # 0
      BY <3>2, Zenon DEF Ladder
    <3> QED
      BY <3>1, <3>2, Zenon
  <2> QED
    BY <2>1, Zenon DEF Ladder
<1>2. InHand(Journal, q) /\ Journal \in Seq(Event) /\ IsRecord(q, PassFields)
  BY <1>1, WalkingInHand, Zenon DEF Walking, InHand, Running, Sound
<1> HIDE DEF n, q
<1>3. /\ IsRecord(u, PassFields) /\ u.st = q.st /\ u.written = q.written /\ u.buffer = q.buffer
      /\ u.ends = q.ends /\ u.unwritten = q.unwritten /\ u.ver = q.ver
  BY <1>2, Zenon DEF IsRecord, PassFields
<1>4. /\ IsRecord(v, PassFields) /\ v.st = q.st /\ v.written = q.written /\ v.buffer = q.buffer
      /\ v.ends = q.ends /\ v.unwritten = q.unwritten /\ v.ver = q.ver /\ v.at = "recheck"
  BY <1>2, Zenon DEF IsRecord, PassFields
<1>5. ASSUME NEW b
      PROVE  Goes(Journal, q, w(b))
  <2> DEFINE t == w(b)
  <2>1. /\ IsRecord(t, PassFields) /\ t.st = q.st /\ t.written = q.written /\ t.buffer = q.buffer
        /\ t.ends = q.ends /\ t.unwritten = q.unwritten /\ t.ver = q.ver /\ t.at = "apply"
    BY <1>2, Zenon DEF IsRecord, PassFields
  <2> HIDE DEF t
  <2>2. Goes(Journal, q, t)
    BY <1>2, <2>1, HandGoes, Zenon DEF Walking
  <2> QED
    BY <2>2, Zenon DEF t
<1> HIDE DEF u, v
<1>6. Goes(Journal, q, v)
  BY <1>2, <1>4, HandGoes DEF Walking
<1>7. Goes(Journal, q, LegEnds(u, TRUE))
  BY <1>2, <1>3, HandTouched, LegEndsGoes, GoesFromLike, Zenon
<1>8. PICK t : Goes(Journal, q, t) /\ pass' = [pass EXCEPT ![p] = t]
  BY <1>1, <1>5, <1>6, <1>7, Zenon
<1> QED
  BY <1>1, <1>8, PassGoes, LeftStands, PastStands, Zenon DEF q

\* A pass in hand is done with its row, whatever it noted of the row.
LEMMA NotedGoes ==
  ASSUME NEW J \in Seq(Event), NEW q, NEW f, NEW b, NEW n, InHand(J, q)
  PROVE  Goes(J, q, NextRow([q EXCEPT !.faulted = f, !.bump = b, !.ladder = n]))
<1> DEFINE r == [q EXCEPT !.faulted = f, !.bump = b, !.ladder = n]
<1>1. IsRecord(q, PassFields)
  BY Zenon DEF InHand, Running, Sound
<1>2. /\ IsRecord(r, PassFields) /\ r.st = q.st /\ r.written = q.written /\ r.buffer = q.buffer
      /\ r.ends = q.ends /\ r.unwritten = q.unwritten /\ r.ver = q.ver
  BY <1>1, Zenon DEF IsRecord, PassFields
<1> HIDE DEF r
<1>3. Goes(J, r, NextRow(r))
  BY <1>2, HandTouched, NextRowGoes, Zenon
<1>4. Goes(J, q, NextRow(r))
  BY <1>2, <1>3, GoesFromLike
<1> QED
  BY <1>4, Zenon DEF r

\* The same, of the proof in hand alone.
LEMMA BumpedGoes ==
  ASSUME NEW J \in Seq(Event), NEW q, NEW b, InHand(J, q)
  PROVE  LET r == [q EXCEPT !.bump = b]
         IN  /\ Goes(J, q, NextRow(r))
             /\ Goes(J, q, [r EXCEPT !.at = "recheck"])
<1> DEFINE r == [q EXCEPT !.bump = b]
           s == [r EXCEPT !.at = "recheck"]
<1>1. IsRecord(q, PassFields)
  BY Zenon DEF InHand, Running, Sound
<1>2. /\ IsRecord(r, PassFields) /\ r.st = q.st /\ r.written = q.written /\ r.buffer = q.buffer
      /\ r.ends = q.ends /\ r.unwritten = q.unwritten /\ r.ver = q.ver
  BY <1>1, Zenon DEF IsRecord, PassFields
<1>3. /\ IsRecord(s, PassFields) /\ s.st = q.st /\ s.written = q.written /\ s.buffer = q.buffer
      /\ s.ends = q.ends /\ s.unwritten = q.unwritten /\ s.ver = q.ver /\ s.at = "recheck"
  BY <1>1, Zenon DEF IsRecord, PassFields
<1> HIDE DEF r, s
<1>4. Goes(J, r, NextRow(r))
  BY <1>2, HandTouched, NextRowGoes, Zenon
<1>5. Goes(J, q, NextRow(r)) /\ Goes(J, q, s)
  BY <1>2, <1>3, <1>4, GoesFromLike, HandGoes DEF Walking
<1> QED
  BY <1>5, Zenon DEF r, s

\* A row filed under another height is moved.
LEMMA ReanchorKeeps ==
  ASSUME Inv, NEW p \in Pass, Reanchor(p)
  PROVE  Inv'
<1> DEFINE t == NextRow([pass[p] EXCEPT !.bump = <<0, 0>>])
<1>1. pass' = [pass EXCEPT ![p] = t]
  BY Zenon DEF Reanchor
<1>2. /\ pass[p].at = "reanchor" /\ left' = left /\ head' = head /\ row' = row /\ lever' = lever
      /\ \E S : past' = [past EXCEPT !.late = S]
  BY Zenon DEF Reanchor, Rests
<1>3. InHand(Journal, pass[p]) /\ Journal \in Seq(Event) /\ pass[p].at \notin {"idle", "seed"}
  BY <1>2, WalkingInHand, Zenon DEF Walking
<1>4. Goes(Journal, pass[p], t)
  BY <1>3, BumpedGoes, Zenon
<1> HIDE DEF t
<1> QED
  BY <1>1, <1>2, <1>3, <1>4, PassGoes, LeftStands, LateOnly, Zenon

\* A pass that writes a proof goes on to its next write, or past the row.
LEMMA OnwardGoes ==
  ASSUME NEW J \in Seq(Event), NEW q, InHand(J, q)
  PROVE  Goes(J, q, Onward(q))
<1> DEFINE n == [q EXCEPT !.bump = <<0, 0>>, !.landed = FALSE]
           w(a) == [q EXCEPT !.at = a]
<1>1. IsRecord(q, PassFields)
  BY Zenon DEF InHand, Running, Sound
<1>2. ASSUME NEW a \in {"confirm", "move", "reread"}
      PROVE  Goes(J, q, w(a))
  <2> DEFINE t == w(a)
  <2>1. /\ IsRecord(t, PassFields) /\ t.st = q.st /\ t.written = q.written /\ t.buffer = q.buffer
        /\ t.ends = q.ends /\ t.unwritten = q.unwritten /\ t.ver = q.ver /\ t.at = a
    BY <1>1, Zenon DEF IsRecord, PassFields
  <2> HIDE DEF t
  <2>2. t.at \in Walking
    BY <2>1, Zenon DEF Walking
  <2>3. Goes(J, q, t)
    BY <2>1, <2>2, HandGoes, Zenon
  <2> QED
    BY <2>3, Zenon DEF t
<1>3. /\ IsRecord(n, PassFields) /\ n.st = q.st /\ n.written = q.written /\ n.buffer = q.buffer
      /\ n.ends = q.ends /\ n.unwritten = q.unwritten /\ n.ver = q.ver
  BY <1>1, Zenon DEF IsRecord, PassFields
<1>4. Onward(q) \in {w("confirm"), w("move"), w("reread"), NextRow(n)}
  BY Zenon DEF Onward
<1> HIDE DEF n, w
<1>5. Goes(J, n, NextRow(n))
  BY <1>3, HandTouched, NextRowGoes, Zenon
<1>6. Goes(J, q, NextRow(n))
  BY <1>3, <1>5, GoesFromLike, Zenon
<1> QED
  BY <1>2, <1>4, <1>6, Zenon

\* A write of the couriers' proof lands.
LEMMA ApplyKeeps ==
  ASSUME Inv, NEW p \in Pass, Apply(p)
  PROVE  Inv'
<1> DEFINE q == pass[p]
           r(k) == [q EXCEPT !.landed = k]
<1>1. /\ q.at \in Applying /\ left' = left /\ head' = head /\ row' = row /\ lever' = lever
      /\ \E S : past' = [past EXCEPT !.late = S]
      /\ \E k : pass' = [pass EXCEPT ![p] = Onward(r(k))]
  BY Zenon DEF Apply, Rests
<1>2. PICK k : pass' = [pass EXCEPT ![p] = Onward(r(k))]
  BY <1>1, Zenon
<1> DEFINE t == r(k)
<1>3. /\ InHand(Journal, q) /\ Journal \in Seq(Event) /\ q.at \notin {"idle", "seed"}
      /\ IsRecord(q, PassFields)
  BY <1>1, WalkingInHand, Zenon DEF Walking, Applying, InHand, Running, Sound
<1>4. /\ IsRecord(t, PassFields) /\ t.st = q.st /\ t.written = q.written /\ t.buffer = q.buffer
      /\ t.ends = q.ends /\ t.unwritten = q.unwritten /\ t.ver = q.ver
  BY <1>3, Zenon DEF IsRecord, PassFields
<1>5. pass' = [pass EXCEPT ![p] = Onward(t)]
  BY <1>2, Zenon
<1> HIDE DEF t, q
<1>6. Goes(Journal, q, Onward(t))
  BY <1>3, <1>4, HandTouched, OnwardGoes, GoesFromLike, Zenon
<1> QED
  BY <1>1, <1>3, <1>5, <1>6, PassGoes, LeftStands, LateOnly, Zenon DEF q

\* It faults, made or not.
LEMMA ApplyFaultsKeeps ==
  ASSUME Inv, NEW p \in Pass, ApplyFaults(p)
  PROVE  Inv'
<1>1. /\ pass[p].at \in Applying /\ head' = head /\ row' = row /\ lever' = lever /\ Spend("faults")
      /\ \E S : past' = [past EXCEPT !.late = S]
      /\ pass' = [pass EXCEPT ![p] = Onward(pass[p])]
  BY Zenon DEF ApplyFaults, Rests
<1>2. InHand(Journal, pass[p]) /\ Journal \in Seq(Event) /\ pass[p].at \notin {"idle", "seed"}
  BY <1>1, WalkingInHand, Zenon DEF Walking, Applying
<1>3. Goes(Journal, pass[p], Onward(pass[p]))
  BY <1>2, OnwardGoes, Zenon
<1>4. LeftOK' /\ Journal' = Journal
  BY <1>1, SpendKeeps, Zenon DEF Inv
<1> QED
  BY <1>1, <1>2, <1>3, <1>4, PassGoes, LateOnly, Zenon

\* None of the writes landed.
LEMMA RereadKeeps ==
  ASSUME Inv, NEW p \in Pass, Reread(p)
  PROVE  Inv'
<1> DEFINE q == [pass[p] EXCEPT !.bump = <<0, 0>>]
           s == [q EXCEPT !.at = "recheck"]
<1>1. /\ pass[p].at = "reread" /\ left' = left /\ head' = head /\ row' = row /\ lever' = lever
      /\ past' = past
      /\ \E t \in {NextRow(q), s} : pass' = [pass EXCEPT ![p] = t]
  BY Zenon DEF Reread
<1>2. InHand(Journal, pass[p]) /\ Journal \in Seq(Event) /\ pass[p].at \notin {"idle", "seed"}
  BY <1>1, WalkingInHand, Zenon DEF Walking
<1>3. Goes(Journal, pass[p], NextRow(q)) /\ Goes(Journal, pass[p], s)
  BY <1>2, BumpedGoes, Zenon
<1> HIDE DEF q, s
<1>4. PICK t : Goes(Journal, pass[p], t) /\ pass' = [pass EXCEPT ![p] = t]
  BY <1>1, <1>3, Zenon
<1> QED
  BY <1>1, <1>2, <1>4, PassGoes, LeftStands, PastStands, Zenon

\* The stored proof once more.
LEMMA RecheckKeeps ==
  ASSUME Inv, NEW p \in Pass, Recheck(p)
  PROVE  Inv'
<1> DEFINE r == First(pass[p].page).row
           b == proof[r]
           q == Memo(pass[p], b)
           u == [q EXCEPT !.at = "demote"]
           t == IF Valid(q, b) THEN NextRow(q) ELSE u
<1>1. pass' = [pass EXCEPT ![p] = t] /\ pass[p].at = "recheck"
      /\ left' = left /\ head' = head /\ row' = row /\ lever' = lever /\ Stood(q, b, r)
  BY Zenon DEF Recheck
<1>2. SamePast
  BY <1>1, LateOnly, Zenon DEF Stood
<1>3. InHand(Journal, pass[p]) /\ Journal \in Seq(Event) /\ pass[p].at \notin {"idle", "seed"}
  BY <1>1, WalkingInHand DEF Walking
<1> HIDE DEF r, b
<1>4. InHand(Journal, q) /\ q.ver = pass[p].ver /\ q.written = pass[p].written
  BY <1>3, MemoKept
<1>5. IsRecord(q, PassFields)
  BY <1>4, Zenon DEF InHand, Running, Sound
<1> HIDE DEF q
<1>6. /\ IsRecord(u, PassFields) /\ u.st = q.st /\ u.written = q.written /\ u.buffer = q.buffer
      /\ u.ends = q.ends /\ u.unwritten = q.unwritten /\ u.ver = q.ver /\ u.at = "demote"
  BY <1>5, Zenon DEF IsRecord, PassFields
<1> HIDE DEF u
<1>7. Goes(Journal, q, u) /\ Goes(Journal, q, NextRow(q))
  BY <1>3, <1>4, <1>6, HandGoes, NextRowGoes DEF Walking
<1>8. Goes(Journal, pass[p], t)
  BY <1>4, <1>7, GoesFromLike, Zenon
<1> HIDE DEF t
<1> QED
  BY <1>1, <1>2, <1>3, <1>8, PassGoes, LeftStands, Zenon

\* A refuted row is withdrawn.
LEMMA DemoteKeeps ==
  ASSUME Inv, NEW p \in Pass, Demote(p)
  PROVE  Inv'
<1>1. pass' = [pass EXCEPT ![p] = NextRow(pass[p])]
  BY Zenon DEF Demote
<1>2. /\ pass[p].at = "demote" /\ left' = left /\ head' = head /\ row' = row /\ lever' = lever
      /\ past' = past
  BY Zenon DEF Demote
<1>3. InHand(Journal, pass[p]) /\ Journal \in Seq(Event) /\ pass[p].at \notin {"idle", "seed"}
  BY <1>2, WalkingInHand DEF Walking
<1>4. Goes(Journal, pass[p], NextRow(pass[p]))
  BY <1>3, NextRowGoes, Zenon
<1> QED
  BY <1>1, <1>2, <1>3, <1>4, PassGoes, LeftStands, PastStands, Zenon

\* A row faults.
LEMMA RowFaultsKeeps ==
  ASSUME Inv, NEW p \in Pass, RowFaults(p)
  PROVE  Inv'
<1> DEFINE n == IF pass[p].at = "ladder" THEN pass[p].ladder - 1 ELSE pass[p].ladder
           t == NextRow([pass[p] EXCEPT !.faulted = TRUE, !.bump = <<0, 0>>, !.ladder = n])
<1>1. pass' = [pass EXCEPT ![p] = t]
  BY Zenon DEF RowFaults
<1>2. /\ pass[p].at \in Walking /\ left' = left /\ head' = head /\ row' = row /\ lever' = lever
      /\ past' = past
  BY Zenon DEF RowFaults, Walking
<1>3. InHand(Journal, pass[p]) /\ Journal \in Seq(Event) /\ pass[p].at \notin {"idle", "seed"}
  BY <1>2, WalkingInHand, Zenon
<1> HIDE DEF n
<1>4. Goes(Journal, pass[p], t)
  BY <1>3, NotedGoes, Zenon
<1> HIDE DEF t
<1> QED
  BY <1>1, <1>2, <1>3, <1>4, PassGoes, LeftStands, PastStands, Zenon

-----------------------------------------------------------------------------
(* The start, the end and the feed of a pass. *)

\* A pass ends: the others and the row are as they were.
LEMMA PassEnds ==
  ASSUME Inv, NEW p \in Pass, pass' = [pass EXCEPT ![p] = IdlePass], LeftOK', Journal' = Journal,
         row' = row, lever' = lever, SamePast
  PROVE  Inv'
<1>1. Journal \in Seq(Event)
  BY Zenon DEF Inv, LeftOK
<1> QED
  BY <1>1, IdleOK, PassMoves, Zenon

\* A pass stops where it is, to write what it has.
LEMMA LastGoes ==
  ASSUME NEW J \in Seq(Event), NEW q, NEW r, Sound(J, q), NoRelease(q), IsRecord(r, PassFields),
         r.at = "last", IsDoc(J, r.st), r.st.cursor = q.st.cursor,
         r.st.unresolved = q.st.unresolved, r.written = q.written, r.ends = q.ends,
         r.unwritten = q.unwritten, r.ver = q.ver
  PROVE  Goes(J, q, r)
<1>1. Sound(J, r) /\ NoRelease(r)
  BY Zenon DEF Sound, Accounts, NoRelease, Ended
<1> QED
  BY <1>1, Zenon DEF Goes, PassOK, Walking

\* The pull's stop is no part of a document's account.
LEMMA StopDoc ==
  ASSUME NEW J, NEW d, NEW S, IsDoc(J, d)
  PROVE  LET e == [d EXCEPT !.stop = S]
         IN  /\ IsDoc(J, e) /\ e.cursor = d.cursor /\ e.pending = d.pending
             /\ e.unresolved = d.unresolved
BY Zenon DEF IsDoc, IsRecord, DocFields

\* A pass starts.
LEMMA StartKeeps ==
  ASSUME Inv, NEW p \in Pass, Start(p)
  PROVE  Inv'
<1> DEFINE st == IF row.ver > 0 THEN row.st ELSE Seeded(left.start)
           v == row.ver
           ld == left.ladder
           q == [IdlePass EXCEPT !.st = st, !.ver = v, !.written = st, !.ladder = ld]
           u == [q EXCEPT !.at = "seed"]
           t == IF row.ver > 0 THEN Loop(p, q) ELSE u
<1>1. /\ pass' = [pass EXCEPT ![p] = t] /\ (row.ver > 0 \/ left.start >= 0)
      /\ left' = left /\ head' = head /\ row' = row /\ lever' = lever /\ past' = past
  BY Zenon DEF Start
<1>2. Journal \in Seq(Event) /\ left.start \in Nat \cup {-1} /\ row.ver \in Nat /\ IsDoc(Journal, row.st)
  BY Zenon DEF Inv, LeftOK, RowOK
<1>3. IsDoc(Journal, st) /\ (row.ver = 0 => st.pending = NoWindow /\ st.unresolved = <<>>)
  <2>1. CASE row.ver > 0
    BY <1>2, <2>1
  <2>2. CASE row.ver = 0
    <3>1. left.start \in Nat /\ st = Seeded(left.start)
      BY <1>1, <1>2, <2>2
    <3> QED
      BY <3>1, SeededDoc, Zenon
  <2> QED
    BY <1>2, <2>1, <2>2
<1>4. row.ver > 0 => st = row.st
  BY Zenon
<1> HIDE DEF st, v, ld
<1>5. /\ IsRecord(q, PassFields) /\ q.st = st /\ q.written = st /\ q.ver = v
      /\ q.buffer = {} /\ q.ends = {} /\ q.unwritten = {}
  BY ZenonT(40) DEF IdlePass, IsRecord, PassFields
<1> HIDE DEF q
<1>6. Running(Journal, q)
  <2>1. st.cursor \in Nat
    BY <1>3, Zenon DEF IsDoc
  <2> QED
    BY <1>2, <1>3, <1>5, <2>1 DEF Running, Sound, Buffered, Accounts, NoRelease, Ended
<1>7. CASE row.ver > 0
  <2>1. Goes(Journal, q, t)
    BY <1>2, <1>6, <1>7, LoopGoes, Zenon
  <2>2. PassOK(Journal, t) /\ Current(t, row)
    BY <1>2, <1>4, <1>5, <1>7, <2>1 DEF Goes, Current, v
  <2> HIDE DEF t
  <2> QED
    BY <1>1, <2>2, PassMoves, LeftStands, PastStands, Zenon
<1>8. CASE row.ver = 0
  <2>1. t = u
    BY <1>8
  <2>2. /\ IsRecord(u, PassFields) /\ u.at = "seed" /\ u.st = q.st /\ u.written = q.written
        /\ u.ver = q.ver /\ u.buffer = q.buffer /\ u.ends = q.ends /\ u.unwritten = q.unwritten
    BY <1>5, Zenon DEF IsRecord, PassFields
  <2> HIDE DEF u, t
  <2>3. Running(Journal, u)
    BY <1>2, <1>6, <2>2, Touched, Zenon
  <2>4. PassOK(Journal, u)
    BY <1>3, <1>5, <1>8, <2>2, <2>3 DEF PassOK, Running, Walking, v
  <2>5. Current(u, row)
    BY <1>5, <1>8, <2>2 DEF Current, v
  <2> QED
    BY <1>1, <2>1, <2>4, <2>5, PassMoves, LeftStands, PastStands, Zenon
<1> QED
  BY <1>2, <1>7, <1>8

\* The pass that waits for a page, or has one, is under way with nothing in hand.
LEMMA FeedingRuns ==
  ASSUME Inv, NEW p \in Pass, pass[p].at \in {"page", "take"}
  PROVE  /\ Running(Journal, pass[p]) /\ pass[p].st.pending = NoWindow /\ Journal \in Seq(Event)
         /\ pass[p].at \notin {"idle", "seed"} /\ IsRecord(pass[p], PassFields)
         /\ IsDoc(Journal, pass[p].st) /\ (pass[p].at = "take" => pass[p].buffer # {})
BY Zenon DEF Inv, PassOK, Running, Sound, LeftOK

\* A page is read.
LEMMA PageKeeps ==
  ASSUME Inv, NEW p \in Pass, Page(p)
  PROVE  Inv'
<1> DEFINE n == pass[p].pages + 1
           q == [pass[p] EXCEPT !.pages = n]
           since == q.st.cursor
           to == IF since + left.page < head THEN since + left.page ELSE head
           got(from) == {e \in from..to : e > 0}
           r == [q EXCEPT !.at = "last", !.st.stop = {since}]
           s == [q EXCEPT !.at = "last"]
           more == to < head
           u(from) == [q EXCEPT !.buffer = got(from), !.more = more]
<1>1. /\ pass[p].at = "page" /\ left' = left /\ head' = head /\ row' = row /\ lever' = lever /\ past' = past
      /\ \E from \in {since, since + 1} \ {0} :
           pass' = [pass EXCEPT ![p] = IF since > head THEN r ELSE IF got(from) = {} THEN s
                                       ELSE Loop(p, u(from))]
  BY Zenon DEF Page
<1>2. PICK from \in {since, since + 1} \ {0} :
        pass' = [pass EXCEPT ![p] = IF since > head THEN r ELSE IF got(from) = {} THEN s
                                    ELSE Loop(p, u(from))]
  BY <1>1, Zenon
<1>3. /\ Running(Journal, pass[p]) /\ pass[p].st.pending = NoWindow /\ Journal \in Seq(Event)
      /\ pass[p].at \notin {"idle", "seed"} /\ IsRecord(pass[p], PassFields)
      /\ IsDoc(Journal, pass[p].st)
  BY <1>1, FeedingRuns, Zenon
<1> HIDE DEF n
<1>4. /\ IsRecord(q, PassFields) /\ q.st = pass[p].st /\ q.written = pass[p].written /\ q.buffer = pass[p].buffer
      /\ q.ends = pass[p].ends /\ q.unwritten = pass[p].unwritten /\ q.ver = pass[p].ver
  BY <1>3, Zenon DEF IsRecord, PassFields
<1> HIDE DEF q
<1>5. Running(Journal, q) /\ q.st.pending = NoWindow /\ IsDoc(Journal, q.st) /\ Sound(Journal, q) /\ NoRelease(q)
  BY <1>3, <1>4, Touched DEF Running
<1>6. since \in Nat /\ left.page \in Nat /\ head \in 0..Len(Journal)
  BY <1>5 DEF IsDoc, Inv, LeftOK
<1>7. /\ got(from) \subseteq DOMAIN Journal
      /\ \A b \in got(from), k \in DOMAIN Journal : since < k /\ k < b => k \in got(from)
  BY <1>3, <1>6
<1>8. Goes(Journal, q, r)
  <2> DEFINE d == [q.st EXCEPT !.stop = {since}]
  <2>1. r = [q EXCEPT !.at = "last", !.st = d]
    BY <1>4, <1>5 DEF IsRecord, PassFields, IsDoc, DocFields
  <2>2. IsDoc(Journal, d) /\ d.cursor = q.st.cursor /\ d.unresolved = q.st.unresolved
    BY <1>5, StopDoc
  <2> HIDE DEF d
  <2>3. /\ IsRecord(r, PassFields) /\ r.at = "last" /\ r.st = d /\ r.written = q.written
        /\ r.ends = q.ends /\ r.unwritten = q.unwritten /\ r.ver = q.ver
    BY <1>4, <2>1, Zenon DEF IsRecord, PassFields
  <2> HIDE DEF r
  <2> QED
    BY <1>3, <1>5, <2>2, <2>3, LastGoes, Zenon
<1>9. Goes(Journal, q, s)
  <2>1. /\ IsRecord(s, PassFields) /\ s.at = "last" /\ s.st = q.st /\ s.written = q.written
        /\ s.ends = q.ends /\ s.unwritten = q.unwritten /\ s.ver = q.ver
    BY <1>4, Zenon DEF IsRecord, PassFields
  <2> HIDE DEF s
  <2> QED
    BY <1>3, <1>5, <2>1, LastGoes, Zenon
<1>10. Goes(Journal, q, Loop(p, u(from)))
  <2> DEFINE g == got(from)
             w == u(from)
  <2>1. /\ g \subseteq DOMAIN Journal
        /\ \A b \in g, k \in DOMAIN Journal : since < k /\ k < b => k \in g
    BY <1>7, Zenon
  <2> HIDE DEF g, more, since
  <2>2. w = [q EXCEPT !.buffer = g, !.more = more]
    BY Zenon DEF g, since
  <2>3. /\ IsRecord(w, PassFields) /\ w.st = q.st /\ w.written = q.written /\ w.buffer = g
        /\ w.ends = q.ends /\ w.unwritten = q.unwritten /\ w.ver = q.ver
    BY <1>4, <2>2, Zenon DEF IsRecord, PassFields
  <2> HIDE DEF w
  <2>4. Running(Journal, w)
    <3>1. Buffered(Journal, w)
      BY <1>5, <2>1, <2>3, Zenon DEF Buffered, Edge, since
    <3>2. Sound(Journal, w) /\ NoRelease(w)
      BY <1>5, <2>3, Zenon DEF Sound, Accounts, NoRelease, Ended
    <3> QED
      BY <3>1, <3>2, Zenon DEF Running
  <2>5. Goes(Journal, w, Loop(p, w))
    BY <1>3, <2>4, LoopGoes, Zenon
  <2> QED
    BY <2>3, <2>5, GoesFromLike, Zenon DEF w
<1> DEFINE t == IF since > head THEN r ELSE IF got(from) = {} THEN s ELSE Loop(p, u(from))
<1>11. pass' = [pass EXCEPT ![p] = t]
  BY <1>2, Zenon
<1>12. Goes(Journal, q, t)
  <2> HIDE DEF r, s, since, got, u
  <2> QED
    BY <1>8, <1>9, <1>10
<1> HIDE DEF t
<1> QED
  BY <1>1, <1>3, <1>4, <1>11, <1>12, GoesFromLike, PassGoes, LeftStands, PastStands, Zenon

\* The read of a page, or of the tip, faults.
LEMMA ReadFaultsKeeps ==
  ASSUME Inv, NEW p \in Pass, ReadFaults(p)
  PROVE  Inv'
<1> DEFINE r == [pass[p] EXCEPT !.at = "last"]
<1>1. /\ pass' = [pass EXCEPT ![p] = r] /\ pass[p].at \in {"page", "take"} /\ Spend("faults")
      /\ head' = head /\ row' = row /\ lever' = lever /\ past' = past
  BY Zenon DEF ReadFaults, Inv
<1>2. /\ Running(Journal, pass[p]) /\ Journal \in Seq(Event) /\ pass[p].at \notin {"idle", "seed"}
      /\ IsRecord(pass[p], PassFields) /\ IsDoc(Journal, pass[p].st)
  BY <1>1, FeedingRuns, Zenon
<1>3. /\ IsRecord(r, PassFields) /\ r.at = "last" /\ r.st = pass[p].st /\ r.written = pass[p].written
      /\ r.ends = pass[p].ends /\ r.unwritten = pass[p].unwritten /\ r.ver = pass[p].ver
  BY <1>2, Zenon DEF IsRecord, PassFields
<1> HIDE DEF r
<1>4. Goes(Journal, pass[p], r)
  BY <1>2, <1>3, LastGoes DEF Running
<1>5. LeftOK' /\ Journal' = Journal
  BY <1>1, SpendKeeps DEF Inv
<1> QED
  BY <1>1, <1>2, <1>4, <1>5, PassGoes, PastStands, Zenon

\* A window of an event is a window's record that names it.
LEMMA WindowRecord ==
  ASSUME NEW e, NEW lo, NEW hi
  PROVE  IsRecord(Window(e, lo, hi), WindowFields) /\ Window(e, lo, hi).cursor = e
BY NoWindowRecord, Zenon DEF Window, IsRecord, WindowFields

\* So is the selection of one.
LEMMA SelectionRecord ==
  ASSUME NEW e
  PROVE  IsRecord(Selection(e), WindowFields) /\ Selection(e).cursor = e
BY WindowRecord, Zenon DEF Selection

-----------------------------------------------------------------------------
(* The writes. *)

\* How many the row keeps of n releases.
KeptOf(n) == IF n < UNRESOLVED_KEPT THEN n ELSE UNRESOLVED_KEPT

\* The last of a sequence, one by one.
LEMMA LastElements ==
  ASSUME NEW s \in Seq(Nat)
  PROVE  /\ KeptOf(Len(s)) \in 0..Len(s)
         /\ LastOf(s) \in Seq(Nat) /\ Len(LastOf(s)) = KeptOf(Len(s))
         /\ \A i \in 1..KeptOf(Len(s)) : LastOf(s)[i] = s[Len(s) - KeptOf(Len(s)) + i]
<1> DEFINE n == Len(s)
           k == KeptOf(n)
           m == n - k + 1
<1>1. n \in Nat /\ k \in 0..n
  BY ChainFeedAssumption DEF KeptOf
<1>2. LastOf(s) = SubSeq(s, m, n)
  BY Zenon DEF LastOf, KeptOf
<1> HIDE DEF k
<1>3. m \in 1..n + 1
  BY <1>1
<1>4. \A i \in m..n : s[i] \in Nat
  BY <1>1, <1>3
<1>5. SubSeq(s, m, n) = [i \in 1..n - m + 1 |-> s[i + m - 1]]
  BY <1>1, <1>3
<1>6. n - m + 1 = k
  BY <1>1
<1>7. SubSeq(s, m, n) = [i \in 1..k |-> s[i + m - 1]]
  BY <1>5, <1>6, Zenon
<1>8. \A i \in 1..k : i + m - 1 \in 1..n /\ i + m - 1 = n - k + i
  BY <1>1
<1> HIDE DEF m
<1>9. SubSeq(s, m, n) \in Seq(Nat) /\ Len(SubSeq(s, m, n)) = k
  BY <1>1, <1>7, <1>8
<1> QED
  BY <1>1, <1>2, <1>7, <1>8, <1>9 DEF k

\* Sequences of numbers with the same elements are equal.
LEMMA SameSeq ==
  ASSUME NEW s \in Seq(Nat), NEW t \in Seq(Nat), Len(s) = Len(t), \A i \in 1..Len(s) : s[i] = t[i]
  PROVE  s = t
OBVIOUS

\* An append is a concatenation.
LEMMA AppendIsJoin ==
  ASSUME NEW s \in Seq(Nat), NEW e \in Nat
  PROVE  Append(s, e) = s \o <<e>>
OBVIOUS

\* What a row keeps of a sequence is its last.
LEMMA KeptOfLast ==
  ASSUME NEW s \in Seq(Nat)
  PROVE  Kept(s) = LastOf(s)
<1>1. CASE Len(s) > UNRESOLVED_KEPT
  <2>1. ~(Len(s) < UNRESOLVED_KEPT)
    BY <1>1, ChainFeedAssumption
  <2> QED
    BY <1>1, <2>1, Zenon DEF Kept, Newest, LastOf
<1>2. CASE ~(Len(s) > UNRESOLVED_KEPT)
  <2>1. KeptOf(Len(s)) = Len(s) /\ Len(s) \in Nat
    BY <1>2, ChainFeedAssumption DEF KeptOf
  <2>2. \A i \in 1..Len(s) : LastOf(s)[i] = s[i]
    BY <2>1, LastElements
  <2>3. LastOf(s) = s
    BY <2>1, <2>2, LastElements, SameSeq, Zenon
  <2> QED
    BY <1>2, <2>3, Zenon DEF Kept
<1> QED
  BY <1>1, <1>2, Zenon

\* The newest of a sequence are kept with one more by the trim of what was kept.
LEMMA KeptIsLast ==
  ASSUME NEW s \in Seq(Nat), NEW e \in Nat
  PROVE  Kept(Append(LastOf(s), e)) = LastOf(Append(s, e))
<1> DEFINE n == Len(s)
           a == Append(s, e)
           l == LastOf(s)
           t == Append(l, e)
           k == KeptOf(n)
           j == KeptOf(n + 1)
<1>1. n \in Nat /\ k \in 0..n /\ j \in 1..n + 1 /\ j <= k + 1 /\ KeptOf(k + 1) = j
  BY ChainFeedAssumption DEF KeptOf
<1>2. l \in Seq(Nat) /\ Len(l) = k /\ \A i \in 1..k : l[i] = s[n - k + i]
  BY LastElements, Zenon
<1>3. a \in Seq(Nat) /\ Len(a) = n + 1 /\ a[n + 1] = e /\ \A i \in 1..n : a[i] = s[i]
  OBVIOUS
<1> HIDE DEF l
<1>4. t \in Seq(Nat) /\ Len(t) = k + 1 /\ t[k + 1] = e /\ \A i \in 1..k : t[i] = l[i]
  BY <1>1, <1>2
<1> HIDE DEF a, t, n, k, j
<1>5. /\ LastOf(t) \in Seq(Nat) /\ Len(LastOf(t)) = j
      /\ \A i \in 1..j : LastOf(t)[i] = t[k + 1 - j + i]
  <2>1. Len(t) = k + 1 /\ KeptOf(Len(t)) = j
    BY <1>1, <1>4, Zenon
  <2>2. /\ LastOf(t) \in Seq(Nat) /\ Len(LastOf(t)) = KeptOf(Len(t))
        /\ \A i \in 1..KeptOf(Len(t)) : LastOf(t)[i] = t[Len(t) - KeptOf(Len(t)) + i]
    BY <1>4, LastElements, Zenon
  <2>3. ASSUME NEW i \in 1..j
        PROVE  LastOf(t)[i] = t[k + 1 - j + i]
    <3>1. LastOf(t)[i] = t[Len(t) - KeptOf(Len(t)) + i]
      BY <2>1, <2>2, Zenon
    <3>2. Len(t) - KeptOf(Len(t)) + i = k + 1 - j + i
      BY <1>1, <2>1
    <3> QED
      BY <3>1, <3>2, Zenon
  <2> QED
    BY <2>1, <2>2, <2>3
<1>6. /\ LastOf(a) \in Seq(Nat) /\ Len(LastOf(a)) = j
      /\ \A i \in 1..j : LastOf(a)[i] = a[n + 1 - j + i]
  <2>1. Len(a) = n + 1 /\ KeptOf(Len(a)) = j
    BY <1>1, <1>3, Zenon DEF j
  <2>2. /\ LastOf(a) \in Seq(Nat) /\ Len(LastOf(a)) = KeptOf(Len(a))
        /\ \A i \in 1..KeptOf(Len(a)) : LastOf(a)[i] = a[Len(a) - KeptOf(Len(a)) + i]
    BY <1>3, LastElements, Zenon
  <2>3. ASSUME NEW i \in 1..j
        PROVE  LastOf(a)[i] = a[n + 1 - j + i]
    <3>1. LastOf(a)[i] = a[Len(a) - KeptOf(Len(a)) + i]
      BY <2>1, <2>2, Zenon
    <3>2. Len(a) - KeptOf(Len(a)) + i = n + 1 - j + i
      BY <1>1, <2>1
    <3> QED
      BY <3>1, <3>2, Zenon
  <2> QED
    BY <2>1, <2>2, <2>3, Zenon
<1>7. ASSUME NEW i \in 1..j
      PROVE  t[k + 1 - j + i] = a[n + 1 - j + i]
  <2> DEFINE x == k + 1 - j + i
             y == n + 1 - j + i
  <2>1. x \in Nat /\ y \in Nat /\ y = n - k + x /\ x \in 1..k + 1 /\ y \in 1..n + 1
    BY <1>1
  <2> HIDE DEF x, y
  <2>2. CASE x = k + 1
    BY <1>1, <1>3, <1>4, <2>1, <2>2 DEF x, y
  <2>3. CASE x \in 1..k
    <3>1. t[x] = s[n - k + x]
      BY <1>2, <1>4, <2>3
    <3>2. y \in 1..n
      BY <1>1, <2>1, <2>3
    <3>3. a[y] = s[y]
      BY <1>3, <3>2, Zenon
    <3> QED
      BY <2>1, <3>1, <3>3, Zenon DEF x, y
  <2> QED
    BY <1>1, <2>1, <2>2, <2>3
<1>8. LastOf(t) = LastOf(a)
  <2>1. \A i \in 1..j : LastOf(t)[i] = LastOf(a)[i]
    BY <1>5, <1>6, <1>7, Zenon
  <2> QED
    BY <1>5, <1>6, <2>1, SameSeq
<1>9. Kept(t) = LastOf(t)
  BY <1>4, KeptOfLast, Zenon
<1> QED
  BY <1>8, <1>9, Zenon DEF t, l, a

\* What the row names is the end of what was released.
LEMMA RecordedIsLast ==
  ReleasedRecorded <=> row.st.unresolved = LastOf(past.released)
BY Zenon DEF ReleasedRecorded, LastOf

\* Nothing is written, or the compare-and-set is lost: the pass ends.
LEMMA WriteNothingKeeps ==
  ASSUME Inv, NEW p \in Pass, WriteNothing(p)
  PROVE  Inv'
BY PassEnds, LeftStands, PastStands, Zenon DEF WriteNothing

\* A lost compare-and-set is final.
LEMMA WriteLosesKeeps ==
  ASSUME Inv, NEW p \in Pass, WriteLoses(p)
  PROVE  Inv'
<1>1. AfterWrite(p, pass[p], "lost") = IdlePass
  BY Zenon DEF AfterWrite
<1> QED
  BY <1>1, PassEnds, LeftStands, PastStands, Zenon DEF WriteLoses

\* A dropped pass.
LEMMA DropKeeps ==
  ASSUME Inv, NEW p \in Pass, Drop(p)
  PROVE  Inv'
<1>1. LeftOK' /\ Journal' = Journal
  BY SpendKeeps, Zenon DEF Drop, Inv
<1> QED
  BY <1>1, PassEnds, PastStands, Zenon DEF Drop

\* An event is published.
LEMMA PublishKeeps ==
  ASSUME Inv, Publish
  PROVE  Inv'
<1>1. LeftOK' /\ Journal' = Journal
  BY DEF Publish, Inv, LeftOK, Journal
<1>2. row' = row /\ past' = past /\ pass' = pass /\ lever' = lever
  BY Zenon DEF Publish
<1> QED
  BY <1>1, <1>2, PastStands, RowStands DEF Inv

\* The operator's POST reads the row.
LEMMA LeverReadsKeeps ==
  ASSUME Inv, LeverReads
  PROVE  Inv'
<1>1. LeftOK' /\ Journal' = Journal
  BY SpendKeeps, Zenon DEF LeverReads, Inv
<1>2. row' = row /\ past' = past /\ pass' = pass
  BY Zenon DEF LeverReads
<1>3. Journal \in Seq(Event) /\ row.ver \in Nat /\ IsDoc(Journal, row.st)
  BY Zenon DEF Inv, LeftOK, RowOK
<1>4. LeverOK(Journal, lever', row)
  <2>1. PICK c \in 0..Len(Journal) + 1 :
          lever' = [at |-> "write", st |-> IF row.ver > 0 THEN row.st ELSE Seeded(c),
                    ver |-> row.ver, cursor |-> c]
    BY Zenon DEF LeverReads
  <2>2. c \in Nat /\ lever'.st = (IF row.ver > 0 THEN row.st ELSE Seeded(c)) /\ lever'.ver = row.ver
        /\ lever'.cursor = c
    BY <1>3, <2>1
  <2>3. IsDoc(Journal, Seeded(c))
    BY <2>2, SeededDoc, Zenon
  <2> QED
    BY <1>3, <2>2, <2>3 DEF LeverOK
<1> QED
  BY <1>1, <1>2, <1>4, PastStands, RowStands DEF Inv

\* The POST is refused.
LEMMA LeverLosesKeeps ==
  ASSUME Inv, LeverLoses
  PROVE  Inv'
<1>1. /\ left' = left /\ head' = head /\ row' = row /\ past' = past /\ pass' = pass
      /\ lever' = IdleLever
  BY Zenon DEF LeverLoses
<1>2. LeverOK(Journal, lever', row)
  BY <1>1, Zenon DEF LeverOK, IdleLever
<1> QED
  BY <1>1, <1>2, LeftStands, PastStands, RowStands DEF Inv

\* One more for the members of a set.
LEMMA PlusNat ==
  ASSUME NEW n, NEW f \in [1..n -> Nat], NEW S
  PROVE  /\ Plus(f, S) \in [1..n -> Nat]
         /\ \A e \in 1..n : Plus(f, S)[e] = IF e \in S THEN f[e] + 1 ELSE f[e]
BY DEF Plus

\* A sequence of numbers with one more is one, and keeps the others.
LEMMA AppendNat ==
  ASSUME NEW s \in Seq(Nat), NEW e \in Nat
  PROVE  /\ Append(s, e) \in Seq(Nat) /\ DOMAIN s \subseteq DOMAIN Append(s, e)
         /\ \A i \in DOMAIN s : Append(s, e)[i] = s[i]
OBVIOUS

\* The last of nothing.
LEMMA LastOfNone == LastOf(<<>>) = <<>> /\ <<>> \in Seq(Nat)
<1>1. <<>> \in Seq(Nat) /\ Len(<<>>) = 0 /\ KeptOf(0) = 0
  BY ChainFeedAssumption DEF KeptOf
<1>2. LastOf(<<>>) \in Seq(Nat) /\ Len(LastOf(<<>>)) = 0
  BY <1>1, LastElements, Zenon
<1> QED
  BY <1>1, <1>2

\* A pass's document is stored over the one it was made from, whether or not the
\* finished events are counted.
LEMMA Landed ==
  ASSUME Inv, NEW p \in Pass, Writing(p), Store(pass[p].ver, pass[p].st), Journal' = Journal,
         NEW c \in {past.counted, Plus(past.counted, pass[p].unwritten)},
         past' = [Moved(pass[p]) EXCEPT !.counted = c]
  PROVE  /\ PastOK' /\ RowOK' /\ CursorAccounted' /\ ReleasedRecorded' /\ CountedOnce'
         /\ row' = [ver |-> row.ver + 1, st |-> pass[p].st]
<1> DEFINE q == pass[p]
           J == Journal
           D == {[e |-> x.e, lo |-> x.lo, hi |-> x.hi] : x \in Ended(q, "done")}
           rel == IF Ended(q, "released") = {} THEN <<>>
                  ELSE <<(CHOOSE x \in Ended(q, "released") : TRUE).e>>
           K == IF q.at = "seed" THEN Crossed(0, q.st.cursor) ELSE {}
           X == IF q.at = "seed" THEN {} ELSE Crossed(row.st.cursor, q.st.cursor)
           dn == past.done \cup D
           rl == past.released \o rel
           sk == past.skipped \cup K
           mv == Plus(past.moved, X)
<1>1. /\ J \in Seq(Event) /\ IsRecord(past, PastFields) /\ past.released \in Seq(Nat)
      /\ past.moved \in [1..Len(J) -> Nat] /\ past.counted \in [1..Len(J) -> Nat]
      /\ row.ver \in Nat /\ IsDoc(J, row.st) /\ PassOK(J, q) /\ Current(q, row)
      /\ (row.ver = 0 => row.st = Seeded(0) /\ past.released = <<>>)
  BY Zenon DEF Inv, LeftOK, PastOK, RowOK
<1>2. /\ q.at \in {"seed", "write", "last"} /\ row.ver = q.ver /\ row' = [ver |-> row.ver + 1, st |-> q.st]
  BY Zenon DEF Writing, Store
<1>3. row'.ver = row.ver + 1 /\ row'.st = q.st
  BY <1>2, Zenon
<1>4. past' = [past EXCEPT !.done = dn, !.released = rl, !.skipped = sk, !.moved = mv, !.counted = c]
  <2>1. Moved(q) = [past EXCEPT !.done = dn, !.released = rl, !.skipped = sk, !.moved = mv]
    BY Zenon DEF Moved
  <2> HIDE DEF q, dn, rl, sk, mv
  <2> QED
    BY <1>1, <2>1 DEF IsRecord, PastFields, q
<1> HIDE DEF dn, rl, sk, mv
<1>5. /\ IsRecord(past', PastFields) /\ past'.done = dn /\ past'.released = rl /\ past'.skipped = sk
      /\ past'.moved = mv /\ past'.counted = c
  BY <1>1, <1>4, Zenon DEF IsRecord, PastFields
<1>6. /\ Sound(J, q) /\ Accounts(J, q) /\ IsDoc(J, q.st) /\ q.st.cursor \in Nat /\ row.st.cursor \in Nat
      /\ (NoRelease(q) \/ OneRelease(q))
  BY <1>1, Zenon DEF PassOK, Sound, IsDoc
<1>7. CASE q.at = "seed"
  <2>1. row.ver = 0 /\ q.ends = {} /\ q.unwritten = {} /\ q.st.unresolved = <<>> /\ past.released = <<>>
    BY <1>1, <1>2, <1>7 DEF PassOK
  <2>2. rl = <<>> /\ sk = past.skipped \cup Crossed(0, q.st.cursor)
    BY <1>7, <2>1 DEF rl, sk, Ended
  <2>3. mv = past.moved
    BY <1>1, <1>7, Zenon DEF mv, Plus
  <2>4. c = past.counted
    <3>1. Plus(past.counted, {}) = past.counted
      BY <1>1, Zenon DEF Plus
    <3> QED
      BY <2>1, <3>1
  <2>5. RowOK'
    BY <1>1, <1>3, <1>6 DEF RowOK
  <2>6. PastOK'
    BY <1>1, <1>5, <2>2, <2>3, <2>4, LastOfNone, Zenon DEF PastOK
  <2>7. CursorAccounted'
    BY <1>1, <1>3, <1>5, <1>6, <2>2 DEF CursorAccounted, Crossed
  <2>8. ReleasedRecorded'
    <3>1. row'.st.unresolved = LastOf(past'.released)
      BY <1>3, <1>5, <2>1, <2>2, LastOfNone
    <3> QED
      BY <3>1, Zenon DEF ReleasedRecorded, LastOf
  <2>9. CountedOnce'
    BY <1>5, <2>3, <2>4 DEF Inv, CountedOnce
  <2> QED
    BY <1>2, <2>5, <2>6, <2>7, <2>8, <2>9
<1>8. CASE q.at # "seed"
  <2>1. q.written = row.st /\ sk = past.skipped /\ mv = Plus(past.moved, Crossed(row.st.cursor, q.st.cursor))
    BY <1>1, <1>2, <1>8 DEF Current, sk, mv
  <2>2. \/ NoRelease(q) /\ rl = past.released
        \/ \E x \in q.ends : /\ Ended(q, "released") = {x} /\ rl = Append(past.released, x.e) /\ x.e \in Nat
                             /\ q.st.unresolved = Kept(Append(row.st.unresolved, x.e))
    <3>1. CASE NoRelease(q)
      BY <1>1, <3>1 DEF NoRelease, rl
    <3>2. CASE OneRelease(q)
      <4>1. PICK x \in q.ends : /\ Ended(q, "released") = {x}
                                /\ q.st.unresolved = Kept(Append(q.written.unresolved, x.e))
        BY <3>2, Zenon DEF OneRelease
      <4>2. x.e \in Nat
        BY <1>6, Zenon DEF Accounts
      <4>3. rel = <<x.e>>
        BY <4>1, Zenon
      <4>4. rl = Append(past.released, x.e)
        BY <1>1, <4>2, <4>3, AppendIsJoin, Zenon DEF rl
      <4> QED
        BY <2>1, <4>1, <4>2, <4>4
    <3> QED
      BY <1>6, <3>1, <3>2
  <2>3. /\ rl \in Seq(Nat) /\ DOMAIN past.released \subseteq DOMAIN rl
        /\ \A i \in DOMAIN past.released : rl[i] = past.released[i]
    <3>1. CASE rl = past.released
      BY <1>1, <3>1
    <3>2. CASE \E x : rl = Append(past.released, x) /\ x \in Nat
      BY <1>1, <3>2, AppendNat
    <3> QED
      BY <2>2, <3>1, <3>2
  <2>4. mv \in [1..Len(J) -> Nat] /\ c \in [1..Len(J) -> Nat]
    <3>1. past.moved \in [1..Len(J) -> Nat] /\ past.counted \in [1..Len(J) -> Nat]
      BY <1>1, Zenon
    <3>2. /\ Plus(past.moved, Crossed(row.st.cursor, q.st.cursor)) \in [1..Len(J) -> Nat]
          /\ Plus(past.counted, q.unwritten) \in [1..Len(J) -> Nat]
      BY ONLY <3>1, PlusNat
    <3> QED
      BY <2>1, <3>1, <3>2, Zenon
  <2>5. RowOK'
    BY <1>1, <1>3, <1>6 DEF RowOK
  <2>6. PastOK'
    BY <1>5, <2>3, <2>4 DEF PastOK
  <2>7. CursorAccounted'
    <3>1. SUFFICES ASSUME NEW e \in DOMAIN J, e <= q.st.cursor
                   PROVE  \/ e \in sk
                          \/ /\ J[e].kind # "unreadable"
                             /\ \/ \E d \in dn : d.e = e
                                \/ \E i \in DOMAIN rl : rl[i] = e
      BY <1>3, <1>5, Zenon DEF CursorAccounted
    <3>2. e \in Nat \ {0}
      BY <1>1
    <3>4. CASE e <= row.st.cursor
      <4>1. row.ver > 0
        <5>1. Seeded(0).cursor = 0
          BY Zenon DEF Seeded
        <5> QED
          BY <1>1, <1>6, <3>2, <3>4, <5>1
      <4>2. \/ e \in past.skipped
            \/ /\ J[e].kind # "unreadable"
               /\ \/ \E d \in past.done : d.e = e
                  \/ \E i \in DOMAIN past.released : past.released[i] = e
        BY <3>4, <4>1 DEF Inv, CursorAccounted
      <4> QED
        BY <2>1, <2>3, <4>2 DEF dn
    <3>5. CASE row.st.cursor < e
      <4>1. Consumable(J, e) /\ \E x \in q.ends : x.e = e
        BY <1>6, <2>1, <3>1, <3>5 DEF Accounts
      <4>2. PICK x \in q.ends : x.e = e
        BY <4>1, Zenon
      <4>3. CASE x.how = "done"
        <5>1. [e |-> x.e, lo |-> x.lo, hi |-> x.hi] \in dn
          BY <4>3, Zenon DEF dn, Ended
        <5>2. [e |-> x.e, lo |-> x.lo, hi |-> x.hi].e = e
          BY <4>2, Zenon
        <5>3. \E d \in dn : d.e = e
          BY <5>1, <5>2, Zenon
        <5> QED
          BY <4>1, <5>3 DEF Consumable
      <4>4. CASE x.how = "released"
        <5>1. x \in Ended(q, "released")
          BY <4>4, Zenon DEF Ended
        <5>2. rl = Append(past.released, e)
          BY <2>2, <4>2, <5>1 DEF NoRelease
        <5>3. Len(rl) \in DOMAIN rl /\ rl[Len(rl)] = e
          BY <1>1, <3>2, <5>2
        <5> QED
          BY <4>1, <5>3 DEF Consumable
      <4> QED
        BY <1>6, <4>3, <4>4 DEF Accounts
    <3> QED
      BY <1>6, <3>2, <3>4, <3>5
  <2>8. ReleasedRecorded'
    <3>1. row.st.unresolved = LastOf(past.released)
      BY RecordedIsLast DEF Inv
    <3>2. q.st.unresolved = LastOf(rl)
      <4>1. CASE NoRelease(q) /\ rl = past.released
        BY <2>1, <3>1, <4>1 DEF NoRelease
      <4>2. CASE \E x \in q.ends : /\ rl = Append(past.released, x.e) /\ x.e \in Nat
                                   /\ q.st.unresolved = Kept(Append(row.st.unresolved, x.e))
        BY <1>1, <3>1, <4>2, KeptIsLast
      <4> QED
        BY <2>2, <4>1, <4>2
    <3>3. row'.st.unresolved = LastOf(past'.released)
      BY <1>3, <1>5, <3>2
    <3> QED
      BY <3>3, Zenon DEF ReleasedRecorded, LastOf
  <2>9. CountedOnce'
    <3>1. SUFFICES ASSUME NEW e \in DOMAIN J
                   PROVE  c[e] <= mv[e]
      BY <1>5, Zenon DEF CountedOnce
    <3>2. e \in 1..Len(J)
      BY <1>1
    <3>3. past.counted[e] <= past.moved[e] /\ past.counted[e] \in Nat /\ past.moved[e] \in Nat
      BY <1>1, <3>2, Zenon DEF Inv, CountedOnce
    <3>4. e \in q.unwritten => e \in Crossed(row.st.cursor, q.st.cursor)
      BY <1>6, <2>1 DEF Accounts, Crossed
    <3>5. c[e] = past.counted[e] \/ c[e] = (IF e \in q.unwritten THEN past.counted[e] + 1 ELSE past.counted[e])
      BY <1>1, <3>2 DEF Plus
    <3>6. mv[e] = IF e \in Crossed(row.st.cursor, q.st.cursor) THEN past.moved[e] + 1 ELSE past.moved[e]
      BY <1>1, <2>1, <3>2 DEF Plus
    <3> HIDE DEF mv
    <3> QED
      BY <3>3, <3>4, <3>5, <3>6
  <2> QED
    BY <1>2, <2>5, <2>6, <2>7, <2>8, <2>9, Zenon
<1> QED
  BY <1>7, <1>8

\* A pass that has written its document goes on from it.
LEMMA AfterLanded ==
  ASSUME NEW J \in Seq(Event), NEW p, NEW q, PassOK(J, q), q.at \in {"seed", "write", "last"}, row.ver \in Nat
  PROVE  LET t == AfterWrite(p, q, "landed")
         IN  /\ PassOK(J, t)
             /\ t.at # "idle" => t.at # "seed" /\ t.ver = row.ver + 1 /\ t.written = q.st
<1> DEFINE v == row.ver + 1
           n == q.finished + 1
           r == [q EXCEPT !.ver = v]
           s == [q EXCEPT !.ver = v, !.written = q.st, !.ends = {}, !.unwritten = {}, !.finished = n]
<1>1. IsRecord(q, PassFields) /\ Sound(J, q)
  BY Zenon DEF PassOK, Sound
<1> HIDE DEF v, n
<1>2. CASE q.at = "seed"
  <2>1. AfterWrite(p, q, "landed") = Loop(p, r)
    BY <1>2, Zenon DEF AfterWrite, v
  <2>2. Running(J, q) /\ q.written = q.st
    BY <1>2, Zenon DEF PassOK, Running
  <2>3. /\ IsRecord(r, PassFields) /\ r.st = q.st /\ r.written = q.written /\ r.buffer = q.buffer
        /\ r.ends = q.ends /\ r.unwritten = q.unwritten /\ r.ver = v
    BY <1>1, Zenon DEF IsRecord, PassFields
  <2> HIDE DEF r
  <2>4. Goes(J, r, Loop(p, r))
    BY <2>2, <2>3, Touched, LoopGoes
  <2> QED
    BY <2>1, <2>2, <2>3, <2>4 DEF Goes, v
<1>3. CASE q.at = "write" /\ q.next = "loop"
  <2>1. AfterWrite(p, q, "landed") = Loop(p, s)
    BY <1>3, Zenon DEF AfterWrite, v, n
  <2>2. /\ IsRecord(s, PassFields) /\ s.st = q.st /\ s.written = q.st /\ s.buffer = q.buffer
        /\ s.ends = {} /\ s.unwritten = {} /\ s.ver = v
    BY <1>1, Zenon DEF IsRecord, PassFields
  <2> HIDE DEF s
  <2>3. Running(J, s)
    <3>1. IsDoc(J, q.st) /\ q.st.cursor \in Nat
      BY <1>1, Zenon DEF Sound, IsDoc
    <3>2. Buffered(J, s)
      BY <1>3, <2>2 DEF PassOK, Buffered, Edge
    <3>3. Accounts(J, s) /\ NoRelease(s)
      BY <2>2, <3>1 DEF Accounts, NoRelease, Ended
    <3> QED
      BY <2>2, <3>1, <3>2, <3>3, Zenon DEF Running, Sound
  <2>4. Goes(J, s, Loop(p, s))
    BY <2>3, LoopGoes, Zenon
  <2> QED
    BY <2>1, <2>2, <2>4 DEF Goes, v
<1>4. CASE q.at # "seed" /\ ~(q.at = "write" /\ q.next = "loop")
  <2>1. AfterWrite(p, q, "landed") = IdlePass
    BY <1>4, Zenon DEF AfterWrite
  <2>2. IdlePass.at = "idle"
    BY Zenon DEF IdlePass
  <2> QED
    BY <2>1, <2>2, IdleOK, Zenon
<1> QED
  BY <1>2, <1>3, <1>4

\* A faulted write is tried once more, or the pass ends.
LEMMA AfterFaulted ==
  ASSUME NEW J \in Seq(Event), NEW p, NEW q, PassOK(J, q), q.at \in {"seed", "write", "last"}
  PROVE  LET t == AfterWrite(p, q, "faulted")
         IN  /\ PassOK(J, t)
             /\ t.at # "idle" => /\ t.at # "seed" /\ t.ver = q.ver /\ t.written = q.written
                                 /\ q.at = "write"
<1> DEFINE r == [q EXCEPT !.at = "last", !.unwritten = {}]
<1>1. IsRecord(q, PassFields) /\ Sound(J, q)
  BY Zenon DEF PassOK, Sound
<1>2. CASE q.at = "write"
  <2>1. AfterWrite(p, q, "faulted") = r
    BY <1>2, Zenon DEF AfterWrite
  <2>2. /\ IsRecord(r, PassFields) /\ r.at = "last" /\ r.st = q.st /\ r.written = q.written
        /\ r.ends = q.ends /\ r.unwritten = {} /\ r.ver = q.ver
    BY <1>1, Zenon DEF IsRecord, PassFields
  <2> HIDE DEF r
  <2>3. Sound(J, r)
    BY <1>1, <2>2 DEF Sound, Accounts
  <2>4. NoRelease(r) \/ OneRelease(r)
    BY <2>2, Zenon DEF PassOK, NoRelease, OneRelease, Ended
  <2>5. PassOK(J, r)
    BY <2>2, <2>3, <2>4, Zenon DEF PassOK, Walking
  <2> QED
    BY <1>2, <2>1, <2>2, <2>5
<1>3. CASE q.at # "write"
  <2>1. AfterWrite(p, q, "faulted") = IdlePass
    BY <1>3, Zenon DEF AfterWrite
  <2>2. IdlePass.at = "idle"
    BY Zenon DEF IdlePass
  <2> QED
    BY <2>1, <2>2, IdleOK
<1> QED
  BY <1>2, <1>3

\* The row has moved on: the passes and the lever that read it before hold an old version.
LEMMA OthersAreStale ==
  ASSUME Inv, NEW p \in Pass, NEW r, NEW d, row' = [ver |-> row.ver + 1, st |-> d],
         Journal' = Journal, pass' = [pass EXCEPT ![p] = r], lever' = lever,
         PassOK(Journal, r), Current(r, row')
  PROVE  /\ pass' = [s \in Pass |-> pass'[s]]
         /\ \A s \in Pass : PassOK(Journal', pass'[s]) /\ Current(pass'[s], row')
         /\ LeverOK(Journal', lever', row')
<1>1. pass' = [s \in Pass |-> IF s = p THEN r ELSE pass[s]]
  BY DEF Inv
<1>2. row.ver \in Nat /\ row'.ver = row.ver + 1
  BY DEF Inv, RowOK
<1>3. \A s \in Pass : Current(pass[s], row')
  BY <1>2 DEF Inv, Current
<1>4. \A s \in Pass : PassOK(Journal', pass'[s]) /\ Current(pass'[s], row')
  BY <1>1, <1>3, Zenon DEF Inv
<1>5. LeverOK(Journal', lever', row')
  BY <1>2 DEF Inv, LeverOK
<1> QED
  BY <1>1, <1>4, <1>5, Zenon

\* A write lands.
LEMMA WriteLandsKeeps ==
  ASSUME Inv, NEW p \in Pass, WriteLands(p)
  PROVE  Inv'
<1> DEFINE q == pass[p]
           t == AfterWrite(p, q, "landed")
           c == Plus(past.counted, q.unwritten)
<1>1. /\ Writing(p) /\ Store(q.ver, q.st) /\ left' = left /\ head' = head /\ lever' = lever
      /\ pass' = [pass EXCEPT ![p] = t]
  BY Zenon DEF WriteLands
<1>2. past' = [Moved(q) EXCEPT !.counted = c]
  <2>1. Moved(q).counted = past.counted
    BY Zenon DEF Moved, Inv, PastOK, IsRecord, PastFields
  <2>2. past' = [Moved(q) EXCEPT !.counted = Plus(Moved(q).counted, q.unwritten)]
    BY Zenon DEF WriteLands
  <2> QED
    BY <2>1, <2>2, Zenon
<1>3. LeftOK' /\ Journal' = Journal
  BY <1>1, LeftStands, Zenon
<1>4. /\ PastOK' /\ RowOK' /\ CursorAccounted' /\ ReleasedRecorded' /\ CountedOnce'
      /\ row' = [ver |-> row.ver + 1, st |-> q.st]
  BY <1>1, <1>2, <1>3, Landed, Zenon
<1>5. PassOK(Journal, q) /\ Journal \in Seq(Event) /\ q.at \in {"seed", "write", "last"} /\ row.ver \in Nat
  BY <1>1 DEF Inv, LeftOK, RowOK, Writing
<1>6. PassOK(Journal, t) /\ (t.at # "idle" => t.at # "seed" /\ t.ver = row.ver + 1 /\ t.written = q.st)
  BY <1>5, AfterLanded
<1> HIDE DEF t, q, c
<1>7. Current(t, row')
  BY <1>4, <1>5, <1>6 DEF Current
<1>8. /\ pass' = [s \in Pass |-> pass'[s]]
      /\ \A s \in Pass : PassOK(Journal', pass'[s]) /\ Current(pass'[s], row')
      /\ LeverOK(Journal', lever', row')
  BY <1>1, <1>3, <1>4, <1>6, <1>7, OthersAreStale, Zenon
<1> QED
  BY <1>3, <1>4, <1>8, Zenon DEF Inv

\* A write is answered with a fault.
LEMMA WriteFaultsKeeps ==
  ASSUME Inv, NEW p \in Pass, WriteFaults(p)
  PROVE  Inv'
<1> DEFINE q == pass[p]
           t == AfterWrite(p, q, "faulted")
<1>1. /\ Writing(p) /\ Spend("faults") /\ head' = head /\ lever' = lever
      /\ pass' = [pass EXCEPT ![p] = t]
      /\ (Store(q.ver, q.st) /\ past' = Moved(q)) \/ (row' = row /\ past' = past)
  BY Zenon DEF WriteFaults
<1>2. LeftOK' /\ Journal' = Journal
  BY <1>1, SpendKeeps DEF Inv
<1>3. /\ PassOK(Journal, q) /\ Journal \in Seq(Event) /\ q.at \in {"seed", "write", "last"} /\ row.ver \in Nat
      /\ Current(q, row)
  BY <1>1 DEF Inv, LeftOK, RowOK, Writing
<1>4. PassOK(Journal, t) /\ (t.at # "idle" => /\ t.at # "seed" /\ t.ver = q.ver /\ t.written = q.written
                                              /\ q.at = "write")
  BY <1>3, AfterFaulted
<1>5. CASE row' = row /\ past' = past
  <2> HIDE DEF t, q
  <2>1. Current(t, row)
    BY <1>3, <1>4 DEF Current
  <2> QED
    BY <1>1, <1>2, <1>4, <1>5, <2>1, PassMoves, PastStands, Zenon
<1>6. CASE Store(q.ver, q.st) /\ past' = Moved(q)
  <2>1. past' = [Moved(q) EXCEPT !.counted = past.counted]
    BY <1>6, Zenon DEF Moved, Inv, PastOK, IsRecord, PastFields
  <2>2. /\ PastOK' /\ RowOK' /\ CursorAccounted' /\ ReleasedRecorded' /\ CountedOnce'
        /\ row' = [ver |-> row.ver + 1, st |-> q.st]
    BY <1>1, <1>2, <1>6, <2>1, Landed, Zenon
  <2> HIDE DEF t, q
  <2>3. Current(t, row')
    BY <1>3, <1>4, <2>2 DEF Current
  <2>4. /\ pass' = [s \in Pass |-> pass'[s]]
        /\ \A s \in Pass : PassOK(Journal', pass'[s]) /\ Current(pass'[s], row')
        /\ LeverOK(Journal', lever', row')
    BY <1>1, <1>2, <1>4, <2>2, <2>3, OthersAreStale, Zenon
  <2> QED
    BY <1>2, <2>2, <2>4, Zenon DEF Inv
<1> QED
  BY <1>1, <1>5, <1>6

\* The operator's document: an event in hand is released, the cursor is the posted one.
LEMMA LeverDocument ==
  ASSUME NEW J, NEW l, IsDoc(J, l.st), l.cursor \in Nat
  PROVE  /\ IsDoc(J, LeverDoc(l)) /\ LeverDoc(l).cursor = l.cursor
         /\ LeverDoc(l).unresolved = IF l.st.pending = NoWindow THEN l.st.unresolved
                                     ELSE Kept(Append(l.st.unresolved, l.st.cursor + 1))
<1> DEFINE st == IF l.st.pending # NoWindow THEN Release(l.st) ELSE l.st
           d == [st EXCEPT !.cursor = l.cursor, !.stop = {}]
<1>1. LeverDoc(l) = d
  BY Zenon DEF LeverDoc
<1>2. /\ IsDoc(J, st) /\ st.pending = NoWindow
      /\ st.unresolved = IF l.st.pending = NoWindow THEN l.st.unresolved
                         ELSE Kept(Append(l.st.unresolved, l.st.cursor + 1))
  BY ReleaseDoc, Zenon
<1> HIDE DEF st
<1>3. /\ IsRecord(d, DocFields) /\ d.cursor = l.cursor /\ d.pending = NoWindow /\ d.unresolved = st.unresolved
  BY <1>2, Zenon DEF IsDoc, IsRecord, DocFields
<1> HIDE DEF d
<1>4. IsDoc(J, d)
  BY <1>2, <1>3, NoWindowRecord DEF IsDoc
<1> QED
  BY <1>1, <1>2, <1>3, <1>4

\* The operator's document lands.
LEMMA LeverLandsKeeps ==
  ASSUME Inv, LeverLands
  PROVE  Inv'
<1> DEFINE l == lever
           w == l.st.pending
           J == Journal
           from == IF row.ver = 0 THEN 0 ELSE row.st.cursor
           rl == IF w # NoWindow THEN Append(past.released, w.cursor) ELSE past.released
           sk == past.skipped \cup (Crossed(from, l.cursor) \ {w.cursor})
           d == LeverDoc(l)
<1>1. /\ l.at = "write" /\ row.ver = l.ver /\ row' = [ver |-> l.ver + 1, st |-> d]
      /\ past' = [past EXCEPT !.released = rl, !.skipped = sk]
      /\ lever' = IdleLever /\ left' = left /\ head' = head /\ pass' = pass
  BY Zenon DEF LeverLands, Store
<1>2. /\ J \in Seq(Event) /\ IsRecord(past, PastFields) /\ past.released \in Seq(Nat)
      /\ past.moved \in [1..Len(J) -> Nat] /\ past.counted \in [1..Len(J) -> Nat]
      /\ row.ver \in Nat /\ IsDoc(J, row.st)
      /\ (row.ver = 0 => row.st = Seeded(0) /\ past.released = <<>>)
  BY DEF Inv, LeftOK, PastOK, RowOK
<1>3. /\ IsDoc(J, l.st) /\ l.cursor \in Nat /\ (l.ver > 0 => l.st = row.st)
      /\ (l.ver = 0 => l.st = Seeded(l.cursor))
  BY <1>1, Zenon DEF Inv, LeverOK
<1>4. /\ IsDoc(J, d) /\ d.cursor = l.cursor
      /\ d.unresolved = IF w = NoWindow THEN l.st.unresolved
                        ELSE Kept(Append(l.st.unresolved, l.st.cursor + 1))
  BY <1>3, LeverDocument, Zenon
<1>5. LeftOK' /\ Journal' = Journal
  BY <1>1, LeftStands, Zenon
<1>6. row'.ver = row.ver + 1 /\ row'.st = d
  BY <1>1, Zenon
<1>7. /\ w # NoWindow => w.cursor = l.st.cursor + 1 /\ Consumable(J, w.cursor) /\ w.cursor \in Nat
      /\ l.ver = 0 => w = NoWindow /\ l.st.unresolved = <<>> /\ row.st.unresolved = <<>>
      /\ w = NoWindow => w.cursor = 0
  <2>1. NoWindow.cursor = 0
    BY Zenon DEF NoWindow
  <2>2. Seeded(l.cursor).pending = NoWindow /\ Seeded(l.cursor).unresolved = <<>> /\ Seeded(0).unresolved = <<>>
    BY Zenon DEF Seeded
  <2>3. w # NoWindow => w.cursor = l.st.cursor + 1 /\ Consumable(J, w.cursor) /\ w.cursor \in Nat
    BY <1>3 DEF IsDoc
  <2>4. l.ver = 0 => w = NoWindow /\ l.st.unresolved = <<>> /\ row.st.unresolved = <<>>
    BY <1>1, <1>2, <1>3, <2>2
  <2> QED
    BY <2>1, <2>3, <2>4, Zenon
<1> HIDE DEF rl, sk, d, w, from
<1>8. /\ IsRecord(past', PastFields) /\ past'.done = past.done /\ past'.released = rl /\ past'.skipped = sk
      /\ past'.moved = past.moved /\ past'.counted = past.counted
  BY <1>1, <1>2, Zenon DEF IsRecord, PastFields
<1>9. /\ rl \in Seq(Nat) /\ DOMAIN past.released \subseteq DOMAIN rl
      /\ \A i \in DOMAIN past.released : rl[i] = past.released[i]
  BY <1>2, <1>7, AppendNat DEF rl
<1>10. l.st.unresolved = row.st.unresolved
  BY <1>1, <1>2, <1>3, <1>7
<1>11. ReleasedRecorded'
  <2>1. row.st.unresolved = LastOf(past.released)
    BY RecordedIsLast DEF Inv
  <2>2. d.unresolved = LastOf(rl)
    BY <1>2, <1>4, <1>7, <1>10, <2>1, KeptIsLast DEF rl
  <2>3. row'.st.unresolved = LastOf(past'.released)
    BY <1>6, <1>8, <2>2
  <2> QED
    BY <2>3 DEF ReleasedRecorded, LastOf
<1>12. CursorAccounted'
  <2>1. SUFFICES ASSUME NEW e \in DOMAIN J, e <= l.cursor
                 PROVE  \/ e \in sk
                        \/ /\ J[e].kind # "unreadable"
                           /\ \/ \E x \in past.done : x.e = e
                              \/ \E i \in DOMAIN rl : rl[i] = e
    BY <1>4, <1>5, <1>6, <1>8, Zenon DEF CursorAccounted
  <2>2. e \in Nat \ {0} /\ row.st.cursor \in Nat
    BY <1>2 DEF IsDoc
  <2>3. CASE row.ver > 0 /\ e <= row.st.cursor
    <3>1. \/ e \in past.skipped
          \/ /\ J[e].kind # "unreadable"
             /\ \/ \E x \in past.done : x.e = e
                \/ \E i \in DOMAIN past.released : past.released[i] = e
      BY <2>3 DEF Inv, CursorAccounted
    <3> QED
      BY <1>9, <3>1 DEF sk
  <2>4. CASE ~(row.ver > 0 /\ e <= row.st.cursor)
    <3>1. e \in Crossed(from, l.cursor)
      BY <1>2, <2>1, <2>2, <2>4 DEF Crossed, from
    <3>2. CASE e # w.cursor
      BY <3>1, <3>2, Zenon DEF sk
    <3>3. CASE e = w.cursor
      <4>1. w # NoWindow
        BY <1>7, <2>2, <3>3
      <4>2. rl = Append(past.released, e)
        BY <3>3, <4>1, Zenon DEF rl
      <4>3. Len(rl) \in DOMAIN rl /\ rl[Len(rl)] = e
        BY <1>2, <2>2, <4>2
      <4> QED
        BY <1>7, <3>3, <4>1, <4>3 DEF Consumable
    <3> QED
      BY <3>2, <3>3, Zenon
  <2> QED
    BY <2>3, <2>4
<1>13. CountedOnce'
  BY <1>5, <1>8 DEF Inv, CountedOnce
<1>14. PastOK' /\ RowOK'
  <2>1. PastOK'
    BY <1>2, <1>4, <1>5, <1>6, <1>8, <1>9 DEF PastOK
  <2>2. RowOK'
    BY <1>2, <1>4, <1>5, <1>6, <1>8, <1>9 DEF RowOK
  <2> QED
    BY <2>1, <2>2, Zenon
<1>15. \A s \in Pass : Current(pass[s], row')
  BY <1>2, <1>6 DEF Inv, Current
<1>16. LeverOK(Journal', lever', row')
  BY <1>1, Zenon DEF LeverOK, IdleLever
<1> QED
  BY <1>1, <1>5, <1>11, <1>12, <1>13, <1>14, <1>15, <1>16 DEF Inv

-----------------------------------------------------------------------------
(* The take of the first envelope of a page: the least of a set of numbers. *)
INSTANCE WellFoundedInduction

\* The least of a set of numbers is one of them.
LEMMA MinIsLeast ==
  ASSUME NEW S \in SUBSET Nat, S # {}
  PROVE  Min(S) \in S /\ \A y \in S : Min(S) <= y
<1>1. \E x \in S : \A y \in S : ~(<<y, x>> \in OpToRel(<, Nat))
  BY NatLessThanWellFounded, WFMin, Zenon
<1>2. OpToRel(<, Nat) = {ss \in Nat \X Nat : ss[1] < ss[2]}
  BY Zenon DEF OpToRel
<1>3. \A x, y \in Nat : y < x => <<y, x>> \in {ss \in Nat \X Nat : ss[1] < ss[2]}
  BY SMT
<1>4. PICK x \in S : \A y \in S : ~(y < x)
  BY <1>1, <1>2, <1>3, Zenon
<1>5. \A y \in S : x <= y
  BY <1>4
<1> QED
  BY <1>5, Zenon DEF Min

\* The first envelope of a page is the event after the cursor, or one before that.
LEMMA FirstOfPage ==
  ASSUME NEW J \in Seq(Event), NEW q, Running(J, q), q.st.pending = NoWindow, q.buffer # {}
  PROVE  LET e == Min(q.buffer)
         IN  /\ e \in DOMAIN J /\ e \in Nat \ {0}
             /\ e > q.st.cursor => e = q.st.cursor + 1
             /\ \A b \in q.buffer \ {e}, k \in DOMAIN J :
                  q.st.cursor < k /\ e < k /\ k < b => k \in q.buffer \ {e}
<1> DEFINE e == Min(q.buffer)
           c == q.st.cursor
<1>1. c \in Nat /\ q.buffer \subseteq DOMAIN J /\ DOMAIN J = 1..Len(J) /\ Len(J) \in Nat
  BY DEF Running, Sound, IsDoc, Buffered
<1>2. \A b \in q.buffer, k \in DOMAIN J : c < k /\ k < b => k \in q.buffer
  BY Zenon DEF Running, Buffered, Edge
<1>3. e \in q.buffer /\ \A b \in q.buffer : e <= b
  <2>1. q.buffer \in SUBSET Nat
    BY <1>1
  <2> QED
    BY <2>1, MinIsLeast
<1> HIDE DEF e
<1>4. ASSUME e > c
      PROVE  e = c + 1
  <2>1. SUFFICES ASSUME c + 1 < e PROVE FALSE
    BY <1>1, <1>3, <1>4
  <2>2. c + 1 \in DOMAIN J
    BY <1>1, <1>3, <2>1
  <2>3. c + 1 \in q.buffer
    BY <1>1, <1>2, <1>3, <2>1, <2>2
  <2> QED
    BY <1>1, <1>3, <2>1, <2>3
<1>5. \A b \in q.buffer \ {e}, k \in DOMAIN J : c < k /\ e < k /\ k < b => k \in q.buffer \ {e}
  BY <1>1, <1>2, <1>3
<1> QED
  BY <1>1, <1>3, <1>4, <1>5 DEF e

\* An envelope is taken from the page.
LEMMA TakeKeeps ==
  ASSUME Inv, NEW p \in Pass, Take(p)
  PROVE  Inv'
<1> DEFINE o == pass[p]
           e == Min(o.buffer)
           g == o.buffer \ {e}
           q == [o EXCEPT !.buffer = g]
           c == o.st.cursor
           r == [q EXCEPT !.at = "last", !.st.stop = {e}]
           x == End("done", Window(e, 0, 0))
           d == [o.st EXCEPT !.cursor = e, !.stop = {}]
           s == [q EXCEPT !.st = [@ EXCEPT !.cursor = e, !.stop = {}],
                          !.ends = @ \cup {x}, !.unwritten = @ \cup {e}]
           w == Selection(e)
           h == [o.st EXCEPT !.pending = w, !.stop = {}]
           u == [q EXCEPT !.st = [@ EXCEPT !.pending = w, !.stop = {}]]
           v == [q EXCEPT !.at = "last"]
           t == CASE e <= q.st.cursor -> Loop(p, q)
                  [] e > q.st.cursor /\ Journal[e].kind = "unreadable" -> r
                  [] e > q.st.cursor /\ Journal[e].kind = "tip" -> Loop(p, s)
                  [] OTHER -> IF q.finished >= left.limit[p] THEN v ELSE Loop(p, u)
<1>1. /\ pass' = [pass EXCEPT ![p] = t]
      /\ o.at = "take" /\ left' = left /\ head' = head /\ row' = row /\ lever' = lever /\ past' = past
  BY Zenon DEF Take
<1>2. /\ Running(Journal, o) /\ o.st.pending = NoWindow /\ Journal \in Seq(Event)
      /\ o.at \notin {"idle", "seed"} /\ IsRecord(o, PassFields)
      /\ IsDoc(Journal, o.st) /\ o.buffer # {} /\ Sound(Journal, o) /\ NoRelease(o)
  BY <1>1, FeedingRuns DEF Running
<1>3. /\ e \in DOMAIN Journal /\ e \in Nat \ {0} /\ (e > c => e = c + 1)
      /\ \A b \in g, k \in DOMAIN Journal : c < k /\ e < k /\ k < b => k \in g
  BY <1>2, FirstOfPage
<1>4. c \in Nat /\ g \subseteq DOMAIN Journal
  BY <1>2 DEF IsDoc, Running, Buffered
<1> HIDE DEF g
<1>5. /\ IsRecord(q, PassFields) /\ q.st = o.st /\ q.written = o.written /\ q.buffer = g
      /\ q.ends = o.ends /\ q.unwritten = o.unwritten /\ q.ver = o.ver
  BY <1>2 DEF IsRecord, PassFields
<1> HIDE DEF q, e, o
<1>6. ASSUME e <= c
      PROVE  Goes(Journal, o, Loop(p, q))
  <2>1. Buffered(Journal, q)
    BY <1>2, <1>3, <1>4, <1>5, <1>6 DEF Buffered, Edge
  <2>2. Running(Journal, q)
    BY <1>2, <1>5, <2>1, Zenon DEF Running, Sound, Accounts, NoRelease, Ended
  <2> QED
    BY <1>2, <1>5, <2>2, LoopGoes, GoesFromLike
<1>7. Goes(Journal, o, r)
  <2> DEFINE dd == [o.st EXCEPT !.stop = {e}]
  <2>1. r = [q EXCEPT !.at = "last", !.st = dd]
    BY <1>5, <1>2, Zenon DEF IsRecord, PassFields, IsDoc, DocFields
  <2>2. IsDoc(Journal, dd) /\ dd.cursor = o.st.cursor /\ dd.unresolved = o.st.unresolved
    BY <1>2, Zenon DEF IsDoc, IsRecord, DocFields
  <2> HIDE DEF dd
  <2>3. /\ IsRecord(r, PassFields) /\ r.at = "last" /\ r.st = dd /\ r.written = o.written
        /\ r.ends = o.ends /\ r.unwritten = o.unwritten /\ r.ver = o.ver
    BY <1>5, <2>1, Zenon DEF IsRecord, PassFields
  <2> HIDE DEF r
  <2> QED
    BY <1>2, <2>2, <2>3, LastGoes
<1>8. Goes(Journal, o, v)
  <2>1. /\ IsRecord(v, PassFields) /\ v.at = "last" /\ v.st = o.st /\ v.written = o.written
        /\ v.ends = o.ends /\ v.unwritten = o.unwritten /\ v.ver = o.ver
    BY <1>5 DEF IsRecord, PassFields
  <2> HIDE DEF v
  <2> QED
    BY <1>2, <2>1, LastGoes
<1>9. ASSUME e > c, Journal[e].kind = "tip"
      PROVE  Goes(Journal, o, Loop(p, s))
  <2>1. x.how = "done" /\ x.e = c + 1 /\ e = c + 1 /\ Consumable(Journal, c + 1)
    BY <1>3, <1>9, WindowRecord DEF End, Consumable
  <2>2. /\ IsRecord(d, DocFields) /\ d.cursor = e /\ d.pending = NoWindow /\ d.unresolved = o.st.unresolved
    BY <1>2, Zenon DEF IsDoc, IsRecord, DocFields
  <2> HIDE DEF x
  <2>3. s = [q EXCEPT !.st = d, !.ends = o.ends \cup {x}, !.unwritten = o.unwritten \cup {e}]
    BY <1>5, Zenon
  <2> HIDE DEF d
  <2>4. /\ IsRecord(s, PassFields) /\ s.st = d /\ s.written = o.written /\ s.buffer = g
        /\ s.ends = o.ends \cup {x} /\ s.unwritten = o.unwritten \cup {e} /\ s.ver = o.ver
    BY <1>5, <2>3, Zenon DEF IsRecord, PassFields
  <2> HIDE DEF s
  <2>5. IsDoc(Journal, d)
    BY <1>2, <1>3, <2>2, NoWindowRecord DEF IsDoc
  <2>6. Accounts(Journal, s)
    BY <1>2, <2>1, <2>2, <2>4, NextAccounted
  <2>7. Buffered(Journal, s)
    BY <1>2, <1>3, <1>4, <2>1, <2>2, <2>4 DEF Buffered, Edge
  <2>8. NoRelease(s)
    BY <1>2, <2>1, <2>2, <2>4 DEF NoRelease, Ended
  <2>9. Running(Journal, s)
    BY <1>2, <2>4, <2>5, <2>6, <2>7, <2>8 DEF Running, Sound
  <2> QED
    BY <1>2, <2>4, <2>9, LoopGoes, GoesFromLike
<1>10. ASSUME e > c, Journal[e].kind # "unreadable"
       PROVE  Goes(Journal, o, Loop(p, u))
  <2>1. e = c + 1 /\ Consumable(Journal, c + 1)
    BY <1>3, <1>10 DEF Consumable
  <2>2. IsRecord(w, WindowFields) /\ w.cursor = c + 1
    BY <2>1, SelectionRecord
  <2>3. w # NoWindow
    <3>1. NoWindow.cursor = 0
      BY Zenon DEF NoWindow
    <3> QED
      BY <1>4, <2>2, <3>1
  <2> HIDE DEF w
  <2>4. /\ IsRecord(h, DocFields) /\ h.cursor = c /\ h.pending = w /\ h.unresolved = o.st.unresolved
    BY <1>2, Zenon DEF IsDoc, IsRecord, DocFields
  <2>5. u = [q EXCEPT !.st = h]
    BY <1>5
  <2> HIDE DEF h
  <2>6. /\ IsRecord(u, PassFields) /\ u.st = h /\ u.written = o.written /\ u.buffer = g
        /\ u.ends = o.ends /\ u.unwritten = o.unwritten /\ u.ver = o.ver
    BY <1>5, <2>5 DEF IsRecord, PassFields
  <2> HIDE DEF u
  <2>7. IsDoc(Journal, h)
    BY <1>2, <1>4, <2>1, <2>2, <2>4 DEF IsDoc
  <2>8. Buffered(Journal, u)
    BY <1>2, <1>3, <1>4, <2>1, <2>3, <2>4, <2>6 DEF Buffered, Edge
  <2>9. Accounts(Journal, u) /\ NoRelease(u)
    BY <1>2, <2>4, <2>6 DEF Sound, Accounts, NoRelease, Ended
  <2>10. Running(Journal, u)
    BY <1>2, <2>6, <2>7, <2>8, <2>9 DEF Running, Sound
  <2> QED
    BY <1>2, <2>6, <2>10, LoopGoes, GoesFromLike
<1>11. Goes(Journal, o, t)
  <2> HIDE DEF r, s, u, v
  <2>1. q.st.cursor = c /\ e \in Nat /\ c \in Nat
    BY <1>3, <1>4, <1>5
  <2>2. CASE e <= c
    BY <1>6, <2>1, <2>2
  <2>3. CASE e > c /\ Journal[e].kind = "unreadable"
    BY <1>7, <2>1, <2>3
  <2>4. CASE e > c /\ Journal[e].kind = "tip"
    BY <1>9, <2>1, <2>4
  <2>5. CASE e > c /\ Journal[e].kind \notin {"unreadable", "tip"}
    BY <1>8, <1>10, <2>1, <2>5
  <2> QED
    BY <2>1, <2>2, <2>3, <2>4, <2>5
<1> HIDE DEF t
<1> QED
  BY <1>1, <1>2, <1>11, PassGoes, LeftStands, PastStands, Zenon DEF o

-----------------------------------------------------------------------------
(* The results. *)

\* The first state.
LEMMA InitInv ==
  ASSUME Init
  PROVE  Inv
<1>1. /\ left \in Instances /\ head = 0 /\ row = [ver |-> 0, st |-> Seeded(0)]
      /\ pass = [p \in Pass |-> IdlePass] /\ lever = IdleLever
      /\ past = [done |-> {}, released |-> <<>>, skipped |-> {}, late |-> {},
                 moved |-> [e \in 1..Len(Journal) |-> 0],
                 counted |-> [e \in 1..Len(Journal) |-> 0]]
  BY Zenon DEF Init
<1>2. LeftOK
  <2>1. left \in [journal : Seq(Event), before : Nat, start : Nat \cup {-1}, limit : [Pass -> Nat \ {0}],
                  leg : [Row -> 1..3], proof : [Row -> Height \X Block],
                  page : Nat \ {0}, rows : Nat \ {0}, ladder : Nat \ {0}, ceiling : Nat \ {0},
                  faults : Nat, drops : Nat, levers : Nat]
    BY <1>1, ChainFeedAssumption
  <2>2. IsRecord(left, LeftFields)
    BY <2>1 DEF IsRecord, LeftFields
  <2>3. left.journal \in Seq(Event) /\ left.start \in Nat \cup {-1} /\ left.page \in Nat
    BY <2>1, Zenon
  <2>4. 0 \in 0..Len(left.journal)
    BY <2>3
  <2> QED
    BY <1>1, <2>2, <2>3, <2>4 DEF LeftOK, Journal
<1>3. Journal \in Seq(Event)
  BY <1>2, Zenon DEF LeftOK
<1>4. row.ver = 0 /\ row.st = Seeded(0) /\ past.released = <<>>
  BY <1>1
<1>5. PastOK
  <2>1. /\ IsRecord(past, PastFields) /\ past.moved = [e \in 1..Len(Journal) |-> 0]
        /\ past.counted = [e \in 1..Len(Journal) |-> 0]
    BY <1>1, Zenon DEF IsRecord, PastFields
  <2> QED
    BY <1>4, <2>1, LastOfNone DEF PastOK
<1>6. RowOK
  BY <1>3, <1>4, SeededDoc DEF RowOK
<1>7. \A p \in Pass : PassOK(Journal, pass[p]) /\ Current(pass[p], row)
  BY <1>1, <1>3, IdleOK, Zenon
<1>8. LeverOK(Journal, lever, row)
  BY <1>1 DEF LeverOK, IdleLever
<1>9. CursorAccounted
  BY <1>4 DEF CursorAccounted
<1>10. ReleasedRecorded
  <2>1. Seeded(0).unresolved = <<>>
    BY Zenon DEF Seeded
  <2> QED
    BY <1>4, <2>1, LastOfNone, RecordedIsLast
<1>11. CountedOnce
  BY <1>1, <1>3 DEF CountedOnce
<1> QED
  BY <1>1, <1>2, <1>5, <1>6, <1>7, <1>8, <1>9, <1>10, <1>11 DEF Inv

\* Every step keeps the invariant.
LEMMA InvStep ==
  ASSUME Inv, [Next]_vars
  PROVE  Inv'
<1>1. CASE Publish
  BY <1>1, PublishKeeps
<1>2. ASSUME NEW p \in Pass, Step(p)
      PROVE  Inv'
  BY <1>2, StartKeeps, PageKeeps, ReadFaultsKeeps, TakeKeeps, WriteNothingKeeps, WriteLandsKeeps,
     WriteLosesKeeps, WriteFaultsKeeps, LegKeeps, LegReadFaultsKeeps, JudgeRowKeeps, LadderKeeps,
     ReanchorKeeps, ApplyKeeps, ApplyFaultsKeeps, RereadKeeps, RecheckKeeps, DemoteKeeps, RowFaultsKeeps DEF Step
<1>3. ASSUME NEW p \in Pass, Drop(p)
      PROVE  Inv'
  BY <1>3, DropKeeps
<1>4. CASE LeverReads \/ LeverLands \/ LeverLoses
  BY <1>4, LeverReadsKeeps, LeverLandsKeeps, LeverLosesKeeps
<1>5. CASE UNCHANGED vars
  <2>1. /\ left' = left /\ head' = head /\ row' = row /\ pass' = pass /\ lever' = lever /\ past' = past
    BY <1>5 DEF vars
  <2> QED
    BY <2>1, LeftStands, PastStands, RowStands DEF Inv
<1> QED
  BY <1>1, <1>2, <1>3, <1>4, <1>5 DEF Next

\* The invariant holds of every state.
LEMMA InvHolds == Spec => []Inv
BY InitInv, InvStep, PTL DEF Spec

\* Whatever the passes, the faults, the drops and the operator do, every event at or
\* below the row's cursor was consumed, released to the operator or skipped by the start
\* or the lever, and one that does not decode only skipped (chain_feed.rs, the pull).
THEOREM CursorAccountedHolds == Spec => []CursorAccounted
<1>1. Inv => CursorAccounted
  BY DEF Inv
<1> QED
  BY <1>1, InvHolds, PTL

\* The row names the newest releases, in their order, whoever made them and however
\* the writes interleaved (FeedState::release, UNRESOLVED_KEPT).
THEOREM ReleasedRecordedHolds == Spec => []ReleasedRecorded
<1>1. Inv => ReleasedRecorded
  BY DEF Inv
<1> QED
  BY <1>1, InvHolds, PTL

\* No event is counted more often than a pass moved the cursor past it (the counts of a
\* pass are added after its write).
THEOREM CountedOnceHolds == Spec => []CountedOnce
<1>1. Inv => CountedOnce
  BY Zenon DEF Inv
<1> QED
  BY <1>1, InvHolds, PTL
=============================================================================
