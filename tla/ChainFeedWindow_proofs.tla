----------------------- MODULE ChainFeedWindow_proofs -----------------------
(* What a pass of ChainFeed knows of the rows is kept by every step, given that Inv holds
   before and after it (ChainFeed_proofs): the order of the walk, the pass between two
   awaits, the steps off the page and then those of the walk. *)
EXTENDS ChainFeedInv, TLAPS

INSTANCE FiniteSetTheorems

-----------------------------------------------------------------------------
(* The order of the walk. *)

\* A set of numbers has a least one.
LEMMA LeastIsLeast ==
  ASSUME NEW S \in SUBSET Nat, S # {}
  PROVE  Min(S) \in S /\ \A y \in S : Min(S) <= y
<1>1. \E x \in S : \A y \in S : ~(<<y, x>> \in OpToRel(<, Nat))
  BY NatLessThanWellFounded, WFMin, Zenon
<1>2. OpToRel(<, Nat) = {ss \in Nat \X Nat : ss[1] < ss[2]}
  BY Zenon DEF OpToRel
<1>3. \A x, y \in Nat : y < x => <<y, x>> \in {ss \in Nat \X Nat : ss[1] < ss[2]}
  BY SMT
<1>4. PICK x \in S : \A y \in S : ~(y < x)
  BY <1>1, <1>2, <1>3, Zenon
<1>5. \A y \in S : x <= y
  BY <1>4
<1> QED
  BY <1>5, Zenon DEF Min

\* A finite set has a member of the greatest number.
LEMMA Greatest ==
  ASSUME NEW g, IsFiniteSet(g), g # {}, NEW f \in [g -> Nat]
  PROVE  \E x \in g : \A y \in g : f[y] <= f[x]
<1>0. PICK k \in Nat : ExistsSurjection(1..k, g)
  BY FS_NatSurjection, Zenon
<1>1. PICK s \in [1..k -> g] : \A y \in g : \E i \in 1..k : s[i] = y
  BY <1>0, Zenon DEF ExistsSurjection, Surjection
<1> DEFINE Bound(m, n) == \A i \in 1..m : f[s[i]] <= n
           D == {m \in 0..k : \A n \in Nat : ~Bound(m, n)}
<1>2. D = {}
  <2>1. SUFFICES ASSUME D # {} PROVE FALSE
    BY Zenon
  <2>2. Min(D) \in D /\ \A m \in D : Min(D) <= m
    <3>1. D \in SUBSET Nat
      OBVIOUS
    <3> HIDE DEF D
    <3> QED
      BY <2>1, <3>1, LeastIsLeast, Zenon
  <2>3. PICK m \in D : \A n \in D : m <= n
    BY <2>2, Zenon
  <2>4. m # 0
    <3>1. Bound(0, 0)
      OBVIOUS
    <3> QED
      BY <3>1, Zenon
  <2>5. m - 1 \in 0..k /\ m - 1 \notin D /\ m \in 1..k
    <3>1. m \in 0..k
      BY <2>3, Zenon
    <3>2. m \in 1..k /\ m - 1 \in 0..k /\ ~(m <= m - 1)
      BY <2>4, <3>1
    <3> HIDE DEF D
    <3> QED
      BY <2>3, <3>2, Zenon
  <2>6. PICK n \in Nat : Bound(m - 1, n)
    BY <2>5, Zenon
  <2>7. f[s[m]] \in Nat
    BY <2>5, Zenon
  <2>8. Bound(m, n + f[s[m]])
    <3>1. SUFFICES ASSUME NEW i \in 1..m PROVE f[s[i]] <= n + f[s[m]]
      BY Zenon
    <3>2. f[s[i]] \in Nat
      BY <2>5
    <3>3. i = m \/ i \in 1..m - 1
      BY <2>5
    <3> QED
      BY <2>6, <2>7, <3>2, <3>3
  <2>9. n + f[s[m]] \in Nat
    BY <2>7
  <2> HIDE DEF Bound
  <2> QED
    BY <2>3, <2>8, <2>9, Zenon
<1>3. PICK n \in Nat : \A y \in g : f[y] <= n
  <2>1. k \in 0..k
    OBVIOUS
  <2>2. PICK n \in Nat : Bound(k, n)
    <3> HIDE DEF Bound
    <3> QED
      BY <1>2, <2>1, Zenon
  <2>3. \A y \in g : f[y] <= n
    BY <1>1, <2>2, Zenon
  <2> QED
    BY <2>3, Zenon
<1> DEFINE T == {n - f[y] : y \in g}
<1>4. T \in SUBSET Nat /\ T # {}
  BY <1>3
<1>5. PICK t \in T : \A u \in T : t <= u
  <2> HIDE DEF T
  <2> QED
    BY <1>4, LeastIsLeast, Zenon
<1>6. PICK x \in g : t = n - f[x]
  BY <1>5, Zenon
<1>7. \A y \in g : n - f[x] <= n - f[y]
  BY <1>5, <1>6, Zenon
<1> QED
  BY <1>7

\* The walk's order is a strict one of the rows' places.
LEMMA Order ==
  ASSUME NEW S, IsRows(S), NEW x \in S, NEW y \in S
  PROVE  /\ x.height \in Nat /\ x.row \in Nat /\ Key(x) = <<x.height, x.row>>
         /\ ~Before(Key(x), Key(x))
         /\ Before(Key(x), Key(y)) => ~Before(Key(y), Key(x))
         /\ x # y => Before(Key(x), Key(y)) \/ Before(Key(y), Key(x))
         /\ \A z \in S : Before(Key(x), Key(y)) /\ Before(Key(y), Key(z)) => Before(Key(x), Key(z))
<1>1. \A z \in S : z.height \in Nat /\ z.row \in Nat /\ Key(z)[1] = z.height /\ Key(z)[2] = z.row
  BY ChainFeedAssumption, Zenon DEF IsRows, Key
<1>2. x # y => x.row # y.row
  BY Zenon DEF IsRows
<1>3. ~Before(Key(x), Key(x)) /\ (Before(Key(x), Key(y)) => ~Before(Key(y), Key(x)))
  BY <1>1 DEF Before
<1>4. x # y => Before(Key(x), Key(y)) \/ Before(Key(y), Key(x))
  BY <1>1, <1>2 DEF Before
<1>5. ASSUME NEW z \in S, Before(Key(x), Key(y)), Before(Key(y), Key(z))
      PROVE  Before(Key(x), Key(z))
  BY <1>1, <1>5 DEF Before
<1> QED
  BY <1>1, <1>3, <1>4, <1>5, Zenon DEF Key

\* Some of the rows of a page are rows too.
LEMMA Fewer ==
  ASSUME NEW S, IsRows(S), NEW g \in SUBSET S
  PROVE  IsRows(g) /\ Cardinality(g) \in Nat /\ Cardinality(g) <= Cardinality(S)
BY FS_Subset, FS_CardinalityType DEF IsRows

\* The first row of a page.
LEMMA FirstIsFirst ==
  ASSUME NEW S, IsRows(S), S # {}
  PROVE  First(S) \in S /\ \A y \in S \ {First(S)} : Before(Key(First(S)), Key(y))
<1>1. PICK a \in S : \A y \in S : y.height <= a.height
  <2> DEFINE f == [x \in S |-> x.height]
  <2>1. f \in [S -> Nat]
    BY Order, Zenon
  <2>2. \E x \in S : \A y \in S : f[y] <= f[x]
    <3> HIDE DEF f
    <3> QED
      BY <2>1, Greatest, Zenon DEF IsRows
  <2> QED
    BY <2>2, Zenon
<1> DEFINE T == {x \in S : x.height = a.height}
<1>2. IsRows(T) /\ T # {} /\ T \subseteq S
  BY Fewer, Zenon
<1>3. PICK b \in T : \A y \in T : y.row <= b.row
  <2> HIDE DEF T
  <2> DEFINE f == [x \in T |-> x.row]
  <2>1. f \in [T -> Nat]
    BY <1>2, Order, Zenon
  <2>2. \E x \in T : \A y \in T : f[y] <= f[x]
    <3> HIDE DEF f
    <3> QED
      BY <1>2, <2>1, Greatest, Zenon DEF IsRows
  <2> QED
    BY <2>2, Zenon
<1>4. ASSUME NEW y \in S \ {b}
      PROVE  Before(Key(b), Key(y))
  <2>1. /\ y.height \in Nat /\ y.row \in Nat /\ b.height \in Nat /\ b.row \in Nat /\ y.row # b.row
        /\ b.height = a.height
    BY <1>2, Order, Zenon DEF IsRows
  <2>2. y.height < b.height \/ (y.height = b.height /\ y.row < b.row)
    BY <1>1, <1>3, <2>1
  <2> QED
    BY <2>1, <2>2, Zenon DEF Before, Key
<1> QED
  BY <1>2, <1>4, Zenon DEF First

\* And the last.
LEMMA LastIsLast ==
  ASSUME NEW S, IsRows(S), S # {}
  PROVE  \E z \in S : \A y \in S \ {z} : Before(Key(y), Key(z))
<1> DEFINE H == {x.height : x \in S}
<1>1. PICK a \in S : \A y \in S : a.height <= y.height
  <2>1. H \in SUBSET Nat /\ H # {}
    BY Order
  <2>2. PICK h \in H : \A y \in H : h <= y
    <3> HIDE DEF H
    <3> QED
      BY <2>1, LeastIsLeast, Zenon
  <2> QED
    BY <2>2, Zenon
<1> DEFINE T == {x \in S : x.height = a.height}
           R == {x.row : x \in T}
<1>2. R \in SUBSET Nat /\ R # {}
  BY Order
<1>3. PICK b \in T : \A y \in T : b.row <= y.row
  <2>1. PICK r \in R : \A y \in R : r <= y
    <3> HIDE DEF R
    <3> QED
      BY <1>2, LeastIsLeast, Zenon
  <2> QED
    BY <2>1, Zenon
<1>4. ASSUME NEW y \in S \ {b}
      PROVE  Before(Key(y), Key(b))
  <2>1. /\ y.height \in Nat /\ y.row \in Nat /\ b.height \in Nat /\ b.row \in Nat /\ y.row # b.row
        /\ b.height = a.height /\ b \in S
    BY Order, Zenon DEF IsRows
  <2>2. b.height < y.height \/ (y.height = b.height /\ b.row < y.row)
    BY <1>1, <1>3, <2>1
  <2> QED
    BY <2>1, <2>2, Zenon DEF Before, Key
<1> QED
  BY <1>4, Zenon

\* What a page leaves out comes after it, and then the page is full.
LEMMA PageIsFull ==
  ASSUME NEW S, IsRows(S), NEW n \in Nat \ {0}
  PROVE  LET g == {x \in S : Cardinality({y \in S : Before(Key(y), Key(x))}) < n}
         IN  /\ g = {} => S = {}
             /\ \A x \in S \ g : Cardinality(g) = n /\ \A y \in g : Before(Key(y), Key(x))
<1> DEFINE pre(x) == {y \in S : Before(Key(y), Key(x))}
           g == {x \in S : Cardinality(pre(x)) < n}
<1>1. ASSUME NEW x \in S
      PROVE  IsFiniteSet(pre(x)) /\ Cardinality(pre(x)) \in Nat
  BY Fewer DEF IsRows
<1>2. g = {} => S = {}
  <2>1. SUFFICES ASSUME S # {} PROVE g # {}
    BY Zenon
  <2>2. First(S) \in S /\ \A y \in S \ {First(S)} : Before(Key(First(S)), Key(y))
    BY <2>1, FirstIsFirst, Zenon
  <2>3. pre(First(S)) = {}
    BY <2>2, Order
  <2>4. Cardinality(pre(First(S))) = 0
    BY <2>3, FS_EmptySet, Zenon
  <2> QED
    BY <2>2, <2>4
<1>3. ASSUME NEW x \in S \ g, NEW y \in g
      PROVE  Before(Key(y), Key(x))
  <2>1. SUFFICES ASSUME ~Before(Key(y), Key(x)) PROVE FALSE
    BY Zenon
  <2>2. x # y /\ Before(Key(x), Key(y))
    BY <1>3, <2>1, Order, Zenon
  <2>3. pre(x) \subseteq pre(y)
    BY <2>2, Order, Zenon
  <2>4. Cardinality(pre(x)) <= Cardinality(pre(y))
    BY <1>1, <2>3, FS_Subset, Zenon
  <2> QED
    BY <1>1, <1>3, <2>4
<1>4. ASSUME NEW x \in S \ g
      PROVE  Cardinality(g) = n
  <2>1. IsRows(S \ g) /\ IsRows(g) /\ Cardinality(g) \in Nat
    BY Fewer, Zenon
  <2>2. PICK z \in S \ g : \A y \in (S \ g) \ {z} : Before(Key(z), Key(y))
    BY <1>4, <2>1, FirstIsFirst, Zenon
  <2>3. pre(z) = g
    <3>1. ASSUME NEW y \in pre(z) PROVE y \in g
      BY <2>2, <3>1, Order, Zenon
    <3>2. ASSUME NEW y \in g PROVE y \in pre(z)
      BY <1>3, <3>2, Zenon
    <3> QED
      BY <3>1, <3>2, Zenon
  <2>4. Cardinality(g) >= n
    <3>1. ~(Cardinality(pre(z)) < n)
      BY <2>2, Zenon
    <3> HIDE DEF g, pre
    <3> QED
      BY <2>1, <2>3, <3>1
  <2>5. g # {}
    <3> HIDE DEF g
    <3> QED
      BY <2>1, <2>4, FS_EmptySet
  <2>6. PICK l \in g : \A y \in g \ {l} : Before(Key(y), Key(l))
    BY <2>1, <2>5, LastIsLast, Zenon
  <2>7. g \ {l} \subseteq pre(l)
    BY <2>6, Zenon
  <2>8. Cardinality(g \ {l}) = Cardinality(g) - 1
    BY <2>1, <2>6, FS_RemoveElement, Zenon DEF IsRows
  <2>9. Cardinality(g \ {l}) <= Cardinality(pre(l)) /\ Cardinality(pre(l)) < n
    BY <1>1, <2>6, <2>7, FS_Subset, Zenon
  <2>10. Cardinality(pre(l)) \in Nat
    BY <1>1, <2>6, Zenon
  <2> HIDE DEF g, pre
  <2> QED
    BY <2>1, <2>4, <2>8, <2>9, <2>10
<1> QED
  BY <1>2, <1>3, <1>4, Zenon

-----------------------------------------------------------------------------
(* What a pass knows of the rows, between two awaits. *)

\* A document with no window owes nothing.
LEMMA NoWindowWalked ==
  ASSUME NEW c, ChainOK(c)
  PROVE  Walked(c, NoWindow)
<1>1. /\ NoWindow.cursor = 0 /\ NoWindow.lo = 0 /\ NoWindow.hi = 0
      /\ NoWindow.legs = [l \in 1..3 |-> NoLeg]
  BY Zenon DEF NoWindow
<1>2. IsRecord(NoLeg, LegFields)
  BY Zenon DEF NoLeg, IsRecord, LegFields
<1>3. \A r \in Row : c.held[r] # 0 => c.held[r] \notin 0..0
  BY ChainFeedAssumption DEF ChainOK
<1>4. 0 \in 0..c.head
  BY DEF ChainOK
<1> QED
  BY <1>1, <1>2, <1>3, <1>4, Zenon DEF Walked, Owed, Stale

\* A window just taken in hand owes what it may: its legs have not begun.
LEMMA FreshWalked ==
  ASSUME NEW c, ChainOK(c), NEW e \in 0..c.head, NEW lo, NEW hi
  PROVE  Walked(c, Window(e, lo, hi))
<1> DEFINE w == Window(e, lo, hi)
<1>1. w.cursor = e /\ w.legs = [l \in 1..3 |-> NoLeg]
  BY Zenon DEF Window, NoWindow
<1> HIDE DEF w
<1>2. IsRecord(NoLeg, LegFields) /\ NoLeg.begun = FALSE /\ NoLeg.exhausted = FALSE
  BY Zenon DEF NoLeg, IsRecord, LegFields
<1>3. \A r \in Row : w.legs[c.leg[r]] = NoLeg
  BY <1>1, Zenon DEF ChainOK
<1>4. Walked(c, w)
  BY <1>1, <1>2, <1>3, Zenon DEF Walked, Ahead
<1> QED
  BY <1>4, Zenon DEF w

\* Whether a window is walked depends on its heights, its event and its legs.
LEMMA SameWalked ==
  ASSUME NEW c, NEW w, NEW v, Walked(c, w), v.cursor = w.cursor, v.lo = w.lo, v.hi = w.hi, v.legs = w.legs
  PROVE  Walked(c, v)
BY Zenon DEF Walked, Owed

\* What is true at every step depends on the window, the page of events and the ends.
LEMMA SameBare ==
  ASSUME NEW c, NEW q, NEW r, Bare(c, q), Walked(c, r.st.pending), r.buffer \subseteq q.buffer,
         r.ends = q.ends
  PROVE  Bare(c, r)
BY Zenon DEF Bare

\* Off the page, that is all.
LEMMA BareRows ==
  ASSUME NEW c, NEW q, Bare(c, q), q.at \in {"idle", "seed", "page", "take", "leg", "write", "last"}
  PROVE  PassRows(c, q)
BY Zenon DEF PassRows, Walking, Stages, Couriered, Applying

\* An event is finished: passed as applied if it owes nothing, or released.
LEMMA FinishRows ==
  ASSUME NEW c, NEW q, NEW how, NEW st, ChainOK(c), Whole(q), Bare(c, q), st.pending = NoWindow,
         how = "done" => \A r \in Row : ~Owed(c, q.st.pending, r)
  PROVE  PassRows(c, Finish(q, how, st))
<1> DEFINE x == End(how, q.st.pending)
           n == q.ends \cup {x}
           u == q.unwritten \cup {q.st.pending.cursor}
           r == [q EXCEPT !.at = "write", !.next = "loop", !.st = st, !.ends = n, !.unwritten = u]
<1>1. Finish(q, how, st) = r
  BY Zenon DEF Finish
<1> HIDE DEF n, u
<1>2. r.at = "write" /\ r.st = st /\ r.ends = n /\ r.buffer = q.buffer
  BY Zenon DEF Whole, IsRecord, PassFields
<1> HIDE DEF r
<1>3. x.how = how /\ x.e = q.st.pending.cursor /\ x.lo = q.st.pending.lo /\ x.hi = q.st.pending.hi
  BY Zenon DEF End
<1> HIDE DEF x
<1>4. how = "done" => Cleared(c, x)
  BY <1>3, Zenon DEF Bare, Walked, Cleared, Owed
<1>5. Walked(c, r.st.pending)
  BY <1>2, NoWindowWalked, Zenon
<1>6. Bare(c, r)
  BY <1>2, <1>3, <1>4, <1>5, Zenon DEF Bare, n
<1> QED
  BY <1>1, <1>2, <1>6, BareRows, Zenon

\* The head of the loop.
LEMMA LoopRows ==
  ASSUME NEW c, NEW p, NEW q, ChainOK(c), Whole(q), Bare(c, q)
  PROVE  PassRows(c, Loop(p, q))
<1>1. CASE q.st.pending # NoWindow /\ q.st.pending.faults >= left.ceiling
  <2>1. Loop(p, q) = Finish(q, "released", Release(q.st))
    BY <1>1, Zenon DEF Loop
  <2>2. Release(q.st).pending = NoWindow
    BY Zenon DEF Release, Whole, IsRecord, DocFields
  <2> QED
    BY <2>1, <2>2, FinishRows, Zenon
<1>2. CASE ~(q.st.pending # NoWindow /\ q.st.pending.faults >= left.ceiling)
  <2> DEFINE a == IF q.st.pending # NoWindow THEN IF q.finished >= left.limit[p] THEN "last" ELSE "leg"
                  ELSE IF q.buffer # {} THEN "take"
                  ELSE IF q.more /\ q.pages < PAGES_PER_PASS THEN "page" ELSE "last"
             m == Min({l \in 1..3 : ~q.st.pending.legs[l].exhausted})
             r == IF q.st.pending # NoWindow THEN [q EXCEPT !.at = a, !.leg = m] ELSE [q EXCEPT !.at = a]
  <2>1. Loop(p, q) = r
    BY <1>2, Zenon DEF Loop
  <2>2. a \in {"last", "leg", "take", "page"}
    BY Zenon
  <2> HIDE DEF a, m
  <2>3. r.at = a /\ r.st = q.st /\ r.buffer = q.buffer /\ r.ends = q.ends
    BY Zenon DEF Whole, IsRecord, PassFields
  <2> HIDE DEF r
  <2> QED
    BY <2>1, <2>2, <2>3, SameBare, BareRows, Zenon DEF Bare
<1> QED
  BY <1>1, <1>2, Zenon

\* The pages of a pass's legs are run: a window all of whose legs are exhausted owes
\* nothing.
LEMMA RanRows ==
  ASSUME NEW c, NEW q, ChainOK(c), Whole(q), Bare(c, q)
  PROVE  PassRows(c, Ran(q))
<1>1. CASE AllExhausted(q.st.pending)
  <2> DEFINE d == [q.st EXCEPT !.cursor = q.st.pending.cursor, !.pending = NoWindow]
  <2>1. Ran(q) = Finish(q, "done", d)
    BY <1>1, Zenon DEF Ran
  <2>2. d.pending = NoWindow
    BY Zenon DEF Whole, IsRecord, DocFields
  <2>3. \A r \in Row : ~Owed(c, q.st.pending, r)
    BY <1>1, Zenon DEF AllExhausted, Bare, Walked, ChainOK
  <2> HIDE DEF d
  <2> QED
    BY <2>1, <2>2, <2>3, FinishRows, Zenon
<1>2. CASE ~AllExhausted(q.st.pending)
  <2> DEFINE r == [q EXCEPT !.at = "write", !.next = "last"]
  <2>1. Ran(q) = r
    BY <1>2, Zenon DEF Ran
  <2>2. r.at = "write" /\ r.st = q.st /\ r.buffer = q.buffer /\ r.ends = q.ends
    BY Zenon DEF Whole, IsRecord, PassFields
  <2> HIDE DEF r
  <2> QED
    BY <2>1, <2>2, SameBare, BareRows, Zenon DEF Bare
<1> QED
  BY <1>1, <1>2, Zenon

\* The leg after, or the end of the legs.
LEMMA NextLegRows ==
  ASSUME NEW c, NEW q, NEW l, ChainOK(c), Whole(q), Bare(c, q)
  PROVE  PassRows(c, NextLeg(q, l))
<1> DEFINE rest == {k \in 1..3 : k > l /\ ~q.st.pending.legs[k].exhausted}
           r == [q EXCEPT !.at = "leg", !.leg = Min(rest)]
<1>1. NextLeg(q, l) = IF rest = {} THEN Ran(q) ELSE r
  BY Zenon DEF NextLeg
<1> HIDE DEF rest
<1>2. r.at = "leg" /\ r.st = q.st /\ r.buffer = q.buffer /\ r.ends = q.ends
  BY Zenon DEF Whole, IsRecord, PassFields
<1> HIDE DEF r
<1>3. PassRows(c, r)
  BY <1>2, SameBare, BareRows, Zenon DEF Bare
<1> QED
  BY <1>1, <1>3, RanRows, Zenon

\* A faulted leg keeps its cursor.
LEMMA LegFaultedRows ==
  ASSUME NEW c, NEW q, Whole(q), Bare(c, q)
  PROVE  PassRows(c, LegFaulted(q))
<1> DEFINE n == q.st.pending.faults + 1
           w == [q.st.pending EXCEPT !.faults = n]
           s == [q.st EXCEPT !.pending = w]
           r == [q EXCEPT !.at = "write", !.next = "last", !.st = s]
<1>1. LegFaulted(q) = r
  BY Zenon DEF LegFaulted, Whole, IsRecord, PassFields, DocFields, WindowFields
<1> HIDE DEF n
<1>2. /\ w.cursor = q.st.pending.cursor /\ w.lo = q.st.pending.lo /\ w.hi = q.st.pending.hi
      /\ w.legs = q.st.pending.legs
  BY Zenon DEF Whole, IsRecord, WindowFields
<1> HIDE DEF w
<1>3. s.pending = w
  BY Zenon DEF Whole, IsRecord, DocFields
<1> HIDE DEF s
<1>4. r.at = "write" /\ r.st = s /\ r.buffer = q.buffer /\ r.ends = q.ends
  BY Zenon DEF Whole, IsRecord, PassFields
<1> HIDE DEF r
<1>5. Walked(c, w)
  BY <1>2, SameWalked, Zenon DEF Bare
<1> QED
  BY <1>1, <1>3, <1>4, <1>5, SameBare, BareRows, Zenon

\* The leg's page is judged, or its budget is spent.
LEMMA LegEndsRows ==
  ASSUME NEW c, NEW q, NEW stopped \in BOOLEAN, ChainOK(c), Whole(q), Bare(c, q), JudgedTo(c, q),
         q.leg \in 1..3 => IsRecord(q.judged, LegFields),
         ~stopped /\ ~q.faulted => \A r \in Row : Owed(c, q.st.pending, r) /\ c.leg[r] = q.leg => q.full
  PROVE  PassRows(c, LegEnds(q, stopped))
<1> DEFINE o == q.st.pending
           x == [q.judged EXCEPT !.exhausted = ~q.full /\ ~stopped]
           m == [o.legs EXCEPT ![q.leg] = x]
           w == [o EXCEPT !.legs = m]
           s == [q.st EXCEPT !.pending = w]
           r == [q EXCEPT !.st = s]
           t == [r EXCEPT !.at = "write", !.next = "last"]
<1>1. IsRecord(q, PassFields) /\ IsRecord(q.st, DocFields) /\ IsRecord(q.st.pending, WindowFields)
  BY Zenon DEF Whole
<1>2. [q EXCEPT !.st.pending.legs[q.leg] = x] = r
  <2> HIDE DEF x
  <2> QED
    BY <1>1, Zenon DEF IsRecord, PassFields, DocFields, WindowFields
<1>3. LegEnds(q, stopped) = IF q.faulted THEN LegFaulted(q)
                            ELSE IF stopped THEN t ELSE NextLeg(r, q.leg)
  <2> HIDE DEF r
  <2> QED
    BY <1>2, Zenon DEF LegEnds
<1>4. CASE q.faulted
  BY <1>3, <1>4, LegFaultedRows, Zenon
<1>5. CASE ~q.faulted
  <2>1. q.leg \in 1..3 => IsRecord(x, LegFields) /\ x.after = q.judged.after /\ x.begun = q.judged.begun
                          /\ x.exhausted = (~q.full /\ ~stopped)
    BY Zenon DEF IsRecord, LegFields
  <2> HIDE DEF x
  <2>2. /\ o.cursor \in 0..c.head
        /\ o.legs = [l \in 1..3 |-> o.legs[l]] /\ \A l \in 1..3 : IsRecord(o.legs[l], LegFields)
        /\ \A rr \in Row : Owed(c, o, rr) =>
             ~o.legs[c.leg[rr]].exhausted /\ Ahead(o.legs[c.leg[rr]], Place(c, rr))
    BY Zenon DEF Bare, Walked
  <2>3. /\ m = [l \in 1..3 |-> m[l]]
        /\ \A l \in 1..3 : m[l] = IF l = q.leg THEN x ELSE o.legs[l]
    BY <2>2, Zenon
  <2> HIDE DEF m
  <2>4. /\ IsRecord(w, WindowFields) /\ w.cursor = o.cursor /\ w.lo = o.lo /\ w.hi = o.hi
        /\ w.legs = m
    BY <1>1, Zenon DEF IsRecord, WindowFields
  <2> HIDE DEF w
  <2>5. ASSUME NEW rr \in Row, Owed(c, w, rr)
        PROVE  ~m[c.leg[rr]].exhausted /\ Ahead(m[c.leg[rr]], Place(c, rr))
    <3>1. Owed(c, o, rr) /\ c.leg[rr] \in 1..3
      BY <2>4, <2>5, Zenon DEF Owed, ChainOK
    <3>2. CASE c.leg[rr] = q.leg
      <4>1. m[c.leg[rr]] = x /\ Ahead(q.judged, Place(c, rr))
        BY <1>5, <2>3, <3>1, <3>2, Zenon DEF JudgedTo
      <4>2. stopped \/ q.full
        BY <1>5, <3>1, <3>2, Zenon
      <4> QED
        BY <2>1, <3>1, <3>2, <4>1, <4>2, Zenon DEF Ahead
    <3>3. CASE c.leg[rr] # q.leg
      BY <2>2, <2>3, <3>1, <3>3, Zenon
    <3> QED
      BY <3>2, <3>3, Zenon
  <2>6. Walked(c, w)
    <3>1. \A l \in 1..3 : IsRecord(m[l], LegFields)
      BY <2>1, <2>2, <2>3, Zenon
    <3> QED
      BY <2>2, <2>3, <2>4, <2>5, <3>1, Zenon DEF Walked
  <2>7. IsRecord(s, DocFields) /\ s.pending = w
    BY <1>1, Zenon DEF IsRecord, DocFields
  <2> HIDE DEF s
  <2>8. IsRecord(r, PassFields) /\ r.st = s /\ r.buffer = q.buffer /\ r.ends = q.ends
    BY <1>1, Zenon DEF IsRecord, PassFields
  <2> HIDE DEF r
  <2>9. Whole(r) /\ Bare(c, r)
    BY <2>4, <2>6, <2>7, <2>8, SameBare, Zenon DEF Whole
  <2>10. t.at = "write" /\ t.st = r.st /\ t.buffer = r.buffer /\ t.ends = r.ends
    BY <2>8, Zenon DEF IsRecord, PassFields
  <2> HIDE DEF t
  <2>11. PassRows(c, t)
    BY <2>9, <2>10, SameBare, BareRows, Zenon DEF Bare
  <2> QED
    BY <1>3, <1>5, <2>9, <2>11, NextLegRows, Zenon
<1> QED
  BY <1>4, <1>5, Zenon

\* The first row of the page is judged: it is not one the window owes, or the leg has
\* faulted.
LEMMA NextRowRows ==
  ASSUME NEW c, NEW q, ChainOK(c), Whole(q), Bare(c, q), Paged(c, q),
         LET x == First(q.page).row
         IN  ~q.faulted => ~(Owed(c, q.st.pending, x) /\ c.leg[x] = q.leg)
  PROVE  PassRows(c, NextRow(q))
<1> DEFINE x == First(q.page)
           j == [after |-> Key(x), begun |-> TRUE, exhausted |-> FALSE]
           g == q.page \ {x}
           r == [q EXCEPT !.page = g, !.judged = j]
           s == [r EXCEPT !.at = "row"]
<1>1. NextRow(q) = IF r.page = {} THEN LegEnds(r, FALSE) ELSE s
  BY Zenon DEF NextRow
<1>2. /\ IsRows(q.page) /\ x \in q.page /\ \A y \in g : Before(Key(x), Key(y))
  BY FirstIsFirst, Zenon DEF Paged
<1>3. IsRecord(j, LegFields) /\ j.begun /\ j.after = Key(x)
  BY Zenon DEF IsRecord, LegFields
<1>4. IsRows(g)
  BY <1>2, Fewer, Zenon
<1>5. g \subseteq q.page /\ x \notin g
  BY Zenon
<1>6. \A y \in q.page : y = x \/ y \in g
  BY Zenon
<1> HIDE DEF g, j, x
<1>7. /\ IsRecord(r, PassFields) /\ r.st = q.st /\ r.buffer = q.buffer /\ r.ends = q.ends
      /\ r.page = g /\ r.judged = j /\ r.faulted = q.faulted /\ r.leg = q.leg /\ r.full = q.full
  BY Zenon DEF Whole, IsRecord, PassFields
<1> HIDE DEF r
<1>8. Whole(r) /\ Bare(c, r)
  BY <1>7, SameBare, Zenon DEF Whole, Bare
<1>9. ASSUME ~q.faulted, NEW rr \in Row, Owed(c, q.st.pending, rr), c.leg[rr] = q.leg
      PROVE  /\ Before(Key(x), Place(c, rr))
             /\ Entry(c, rr) \in g \/ (q.full /\ \A y \in g : y.row # rr /\ Before(Key(y), Place(c, rr)))
  <2>1. rr # x.row
    BY <1>9, Zenon DEF x
  <2>2. CASE Entry(c, rr) \in q.page
    <3>1. Entry(c, rr).row = rr /\ Key(Entry(c, rr)) = Place(c, rr)
      BY Zenon DEF Entry, Place, Key
    <3> QED
      BY <1>2, <1>6, <2>1, <2>2, <3>1, Zenon
  <2>3. CASE q.full /\ \A y \in q.page : y.row # rr /\ Before(Key(y), Place(c, rr))
    BY <1>2, <1>5, <2>3, Zenon
  <2> QED
    BY <1>9, <2>2, <2>3, Zenon DEF Paged, Remains
<1>10. JudgedTo(c, r) /\ Remains(c, r)
  BY <1>3, <1>7, <1>9, Zenon DEF JudgedTo, Remains, Ahead
<1>11. CASE g = {}
  <2>1. ~r.faulted => \A rr \in Row : Owed(c, r.st.pending, rr) /\ c.leg[rr] = r.leg => r.full
    BY <1>7, <1>9, <1>11, Zenon
  <2>2. PassRows(c, LegEnds(r, FALSE))
    BY <1>3, <1>7, <1>8, <1>10, <2>1, LegEndsRows, Zenon
  <2> QED
    BY <1>1, <1>7, <1>11, <2>2, Zenon
<1>12. CASE g # {}
  <2>1. /\ s.at = "row" /\ s.st = r.st /\ s.buffer = r.buffer /\ s.ends = r.ends /\ s.page = r.page
        /\ s.judged = r.judged /\ s.faulted = r.faulted /\ s.leg = r.leg /\ s.full = r.full
    BY <1>7, Zenon DEF IsRecord, PassFields
  <2> HIDE DEF s
  <2>2. Bare(c, s) /\ Paged(c, s)
    BY <1>3, <1>4, <1>7, <1>8, <1>10, <1>12, <2>1, Zenon DEF Bare, Paged, JudgedTo, Remains
  <2>3. PassRows(c, s)
    BY <2>1, <2>2, Zenon DEF PassRows, Stages, Couriered, Applying
  <2> QED
    BY <1>1, <1>7, <1>12, <2>3, Zenon
<1> QED
  BY <1>11, <1>12, Zenon

-----------------------------------------------------------------------------
(* What a step does to the rows, and to what the passes know of them. *)

\* A row owed after a steady step was owed before it, at the same place.
LEMMA OwedBefore ==
  ASSUME NEW c, NEW d, Steady(c, d), NEW w, w.cursor \in 0..c.head, NEW r \in Row, Owed(d, w, r)
  PROVE  Owed(c, w, r) /\ Place(d, r) = Place(c, r) /\ Entry(d, r) = Entry(c, r) /\ d.leg = c.leg
BY Zenon DEF Steady, Owed, Place, Entry

\* So what is known of a window, of an event passed and of a pass stays known.
LEMMA WalkedStays ==
  ASSUME NEW c, NEW d, ChainOK(c), ChainOK(d), Steady(c, d), NEW w, Walked(c, w)
  PROVE  Walked(d, w)
<1>1. w.cursor \in 0..c.head /\ w.cursor \in 0..d.head
  BY DEF Walked, Steady, ChainOK
<1> QED
  BY <1>1, OwedBefore, Zenon DEF Walked

\* An event that owes no row still owes none.
LEMMA ClearedStays ==
  ASSUME NEW c, NEW d, ChainOK(c), ChainOK(d), Steady(c, d), NEW x, Cleared(c, x)
  PROVE  Cleared(d, x)
<1>1. x.e \in 0..c.head /\ x.e \in 0..d.head
  BY DEF Cleared, Steady, ChainOK
<1> QED
  BY <1>1, Zenon DEF Cleared, Steady

\* A pass knows of its window and its ends what it knew.
LEMMA BareStays ==
  ASSUME NEW c, NEW d, ChainOK(c), ChainOK(d), Steady(c, d), NEW q, Bare(c, q)
  PROVE  Bare(d, q)
<1>1. q.buffer \subseteq 0..d.head
  BY DEF Bare, Steady, ChainOK
<1> QED
  BY <1>1, WalkedStays, ClearedStays DEF Bare

\* And of its page.
LEMMA PagedStays ==
  ASSUME NEW c, NEW d, Steady(c, d), NEW q, Bare(c, q), Paged(c, q)
  PROVE  Paged(d, q)
<1>1. q.st.pending.cursor \in 0..c.head
  BY Zenon DEF Bare, Walked
<1>2. JudgedTo(d, q)
  BY <1>1, OwedBefore DEF Paged, JudgedTo
<1>3. Remains(d, q)
  BY <1>1, OwedBefore DEF Paged, Remains
<1> QED
  BY <1>2, <1>3, Zenon DEF Paged

\* All of it stays known, whatever its stage.
LEMMA PassStays ==
  ASSUME NEW c, NEW d, ChainOK(c), ChainOK(d), Steady(c, d), NEW q, PassRows(c, q)
  PROVE  PassRows(d, q)
<1>1. Bare(c, q) /\ Bare(d, q) /\ q.st.pending.cursor \in 0..c.head
  BY BareStays, Zenon DEF PassRows, Bare, Walked
<1>2. q.at \in Walking \ {"leg"} => Paged(d, q)
  BY <1>1, PagedStays, Zenon DEF PassRows
<1>3. q.at = "reanchor" /\ ~q.faulted => ~Stale(d, First(q.page).row, q.st.pending.cursor)
  <2>1. SUFFICES ASSUME q.at = "reanchor", ~q.faulted
                 PROVE  ~Stale(d, First(q.page).row, q.st.pending.cursor)
    BY Zenon
  <2>2. First(q.page) \in q.page /\ First(q.page).row \in Row
    BY <2>1, FirstIsFirst, Zenon DEF PassRows, Paged, IsRows, Walking
  <2> QED
    BY <1>1, <2>1, <2>2, Zenon DEF PassRows, Steady
<1>4. q.at \in Couriered => LET g == d.gone[q.bump[1]][q.bump[2]]
                             IN  g = 0 \/ g > q.st.pending.cursor
  <2>1. SUFFICES ASSUME q.at \in Couriered
                 PROVE  d.gone[q.bump[1]][q.bump[2]] = 0 \/ d.gone[q.bump[1]][q.bump[2]] > q.st.pending.cursor
    BY Zenon
  <2>2. q.bump[1] \in Height /\ q.bump[2] \in Block
    BY <2>1, Zenon DEF PassRows
  <2>3. c.gone[q.bump[1]][q.bump[2]] = 0 \/ c.gone[q.bump[1]][q.bump[2]] > q.st.pending.cursor
    BY <2>1, Zenon DEF PassRows
  <2> QED
    BY <1>1, <2>2, <2>3, Zenon DEF Steady
<1>5. q.at \in Applying /\ q.landed => ~Stale(d, First(q.page).row, q.st.pending.cursor)
  <2>1. SUFFICES ASSUME q.at \in Applying, q.landed
                 PROVE  ~Stale(d, First(q.page).row, q.st.pending.cursor)
    BY Zenon
  <2>2. First(q.page) \in q.page /\ First(q.page).row \in Row
    BY <2>1, FirstIsFirst, Zenon DEF PassRows, Paged, IsRows, Walking, Applying
  <2> QED
    BY <1>1, <2>1, <2>2, Zenon DEF PassRows, Steady
<1> QED
  BY <1>1, <1>2, <1>3, <1>4, <1>5, Zenon DEF PassRows

\* Nothing moved is steady.
LEMMA SameSteady ==
  ASSUME NEW c, ChainOK(c)
  PROVE  Steady(c, c)
<1>1. c.head <= c.head
  BY DEF ChainOK
<1> QED
  BY <1>1, Zenon DEF Steady

\* One row moves: it is withdrawn or late or on a block of the chain, or it is as it was.
LEMMA RowMoves ==
  ASSUME NEW c, NEW d, ChainOK(c), NEW x \in Row,
         OneRow(c, d, x),
         \/ d.held[x] = 0 \/ x \in d.late \/ TakenBy(d, x) = 0
         \/ d.held[x] = c.held[x] /\ d.proof[x] = c.proof[x] /\ x \notin c.late
  PROVE  ChainOK(d) /\ Steady(c, d)
<1> USE DEF OneRow
<1>2. ChainOK(d)
  BY DEF ChainOK
<1>3. ASSUME NEW r \in Row, NEW e \in 0..c.head, Stale(d, r, e)
      PROVE  Stale(c, r, e) /\ d.held[r] = c.held[r] /\ d.proof[r] = c.proof[r]
  <2>1. d.held[r] = c.held[r] /\ d.proof[r] = c.proof[r] /\ r \notin c.late
    BY <1>3, Zenon DEF Stale
  <2> QED
    BY <1>3, <2>1, Zenon DEF Stale, TakenBy
<1>4. c.head <= d.head
  BY DEF ChainOK
<1> QED
  BY <1>2, <1>3, <1>4, Zenon DEF Steady

\* The fields of Chain, before and after a step.
LEMMA ChainIs ==
  /\ Chain.head = head /\ Chain.canon = canon /\ Chain.gone = gone /\ Chain.proof = proof
  /\ Chain.held = held /\ Chain.late = past.late /\ Chain.leg = left.leg
BY Zenon DEF Chain

\* The same after the step.
LEMMA ChainBecomes ==
  /\ Chain'.head = head' /\ Chain'.canon = canon' /\ Chain'.gone = gone' /\ Chain'.proof = proof'
  /\ Chain'.held = held' /\ Chain'.late = past'.late /\ Chain'.leg = left'.leg
BY Zenon DEF Chain

\* A pass moves, and with it at most a row.
LEMMA OnePass ==
  ASSUME Inv, RowsInv, NEW p \in Pass, NEW t, pass' = [pass EXCEPT ![p] = t], ChainOK(Chain'),
         Steady(Chain, Chain'), PassRows(Chain', t), row' = row, past'.done = past.done,
         left'.rows = left.rows
  PROVE  RowsInv'
<1>1. \A s \in Pass : pass'[s] = IF s = p THEN t ELSE pass[s]
  BY Zenon DEF Inv
<1>2. \A s \in Pass : PassRows(Chain', pass'[s])
  BY <1>1, PassStays, Zenon DEF RowsInv
<1>3. Walked(Chain', row'.st.pending)
  BY WalkedStays DEF RowsInv
<1>4. \A x \in past'.done : Cleared(Chain', x)
  BY ClearedStays, Zenon DEF RowsInv
<1> QED
  BY <1>2, <1>3, <1>4, Zenon DEF RowsInv

\* A pass moves and nothing else does.
LEMMA PassAlone ==
  ASSUME Inv, RowsInv, NEW p \in Pass, NEW t, pass' = [pass EXCEPT ![p] = t], PassRows(Chain, t),
         Chain' = Chain, row' = row, past' = past, left'.rows = left.rows
  PROVE  RowsInv'
<1>1. ChainOK(Chain') /\ Steady(Chain, Chain') /\ PassRows(Chain', t)
  BY SameSteady, Zenon DEF RowsInv
<1> QED
  BY <1>1, OnePass, Zenon

\* What is known of a pass.
LEMMA Knows ==
  ASSUME Inv, RowsInv, NEW p \in Pass
  PROVE  /\ Whole(pass[p]) /\ PassRows(Chain, pass[p]) /\ Bare(Chain, pass[p]) /\ ChainOK(Chain)
         /\ pass[p].st.pending.cursor \in 0..Chain.head
BY Zenon DEF Inv, PassOK, Sound, IsDoc, Whole, RowsInv, PassRows, Bare, Walked

\* And of one that has a page in hand.
LEMMA KnowsPage ==
  ASSUME Inv, RowsInv, NEW p \in Pass, pass[p].at \in Walking \ {"leg"}
  PROVE  /\ Paged(Chain, pass[p]) /\ First(pass[p].page) \in pass[p].page
         /\ First(pass[p].page).row \in Row /\ First(pass[p].page).bump \in Height \X Block
<1>1. Paged(Chain, pass[p])
  BY Knows, Zenon DEF PassRows
<1>2. First(pass[p].page) \in pass[p].page /\ IsRows(pass[p].page)
  BY <1>1, FirstIsFirst, Zenon DEF Paged
<1> QED
  BY <1>1, <1>2, Zenon DEF IsRows

\* A bound spent leaves the legs and the page's size alone.
LEMMA SpendRows ==
  ASSUME Inv, NEW f \in {"faults", "drops", "levers"}, Spend(f)
  PROVE  left'.leg = left.leg /\ left'.rows = left.rows
<1> DEFINE n == left[f] - 1
<1>1. left' = [left EXCEPT ![f] = n] /\ IsRecord(left, LeftFields)
  BY Zenon DEF Spend, Inv, LeftOK
<1> HIDE DEF n
<1> QED
  BY <1>1, Zenon DEF IsRecord, LeftFields

\* The chain and the rows stand.
LEMMA ChainStands ==
  ASSUME head' = head, canon' = canon, gone' = gone, proof' = proof, held' = held,
         past'.late = past.late, left'.leg = left.leg
  PROVE  Chain' = Chain
BY Zenon DEF Chain

\* A pass not under way knows nothing.
LEMMA IdleRows ==
  ASSUME NEW c, ChainOK(c)
  PROVE  PassRows(c, IdlePass)
<1>1. IdlePass.at = "idle" /\ IdlePass.st = Seeded(0) /\ IdlePass.buffer = {} /\ IdlePass.ends = {}
  BY Zenon DEF IdlePass
<1>2. Seeded(0).pending = NoWindow
  BY Zenon DEF Seeded
<1>3. Bare(c, IdlePass)
  BY <1>1, <1>2, NoWindowWalked, Zenon DEF Bare
<1> QED
  BY <1>1, <1>3, BareRows, Zenon

-----------------------------------------------------------------------------
(* The feed and the writes. *)

\* A pass starts from the row's window.
LEMMA StartRows ==
  ASSUME Inv, RowsInv, NEW p \in Pass, Start(p)
  PROVE  RowsInv'
<1> DEFINE st == IF row.ver > 0 THEN row.st ELSE Seeded(left.start)
           v == row.ver
           ld == left.ladder
           q == [IdlePass EXCEPT !.st = st, !.ver = v, !.written = st, !.ladder = ld]
           u == [q EXCEPT !.at = "seed"]
           t == IF row.ver > 0 THEN Loop(p, q) ELSE u
<1>1. /\ pass' = [pass EXCEPT ![p] = t]
      /\ left' = left /\ row' = row /\ past' = past /\ Chain' = Chain
  BY ChainStands, Zenon DEF Start
<1>2. ChainOK(Chain) /\ Walked(Chain, row.st.pending) /\ IsDoc(Journal, row.st)
  BY Zenon DEF RowsInv, Inv, RowOK
<1>3. Walked(Chain, st.pending) /\ IsRecord(st, DocFields) /\ IsRecord(st.pending, WindowFields)
  <2>1. /\ Seeded(left.start).pending = NoWindow
        /\ IsRecord(Seeded(left.start), DocFields) /\ IsRecord(NoWindow, WindowFields)
    BY Zenon DEF Seeded, NoWindow, IsRecord, DocFields, WindowFields
  <2> QED
    BY <1>2, <2>1, NoWindowWalked, Zenon DEF IsDoc
<1> HIDE DEF st, v, ld
<1>4. IsRecord(q, PassFields) /\ q.st = st /\ q.buffer = {} /\ q.ends = {}
  BY Zenon DEF IdlePass, IsRecord, PassFields
<1> HIDE DEF q
<1>5. Whole(q) /\ Bare(Chain, q)
  BY <1>3, <1>4, Zenon DEF Whole, Bare
<1>6. u.at = "seed" /\ u.st = q.st /\ u.buffer = q.buffer /\ u.ends = q.ends
  BY <1>4, Zenon DEF IsRecord, PassFields
<1> HIDE DEF u
<1>7. PassRows(Chain, t)
  BY <1>2, <1>5, <1>6, LoopRows, SameBare, BareRows, Zenon DEF Bare
<1> HIDE DEF t
<1> QED
  BY <1>1, <1>7, PassAlone, Zenon

\* A page has no event past the journal's head.
LEMMA PageRows ==
  ASSUME Inv, RowsInv, NEW p \in Pass, Page(p)
  PROVE  RowsInv'
<1> DEFINE n == pass[p].pages + 1
           q == [pass[p] EXCEPT !.pages = n]
           since == q.st.cursor
           to == IF since + left.page < head THEN since + left.page ELSE head
           got(from) == {e \in from..to : e > 0}
           r == [q EXCEPT !.at = "last", !.st.stop = {since}]
           s == [q EXCEPT !.at = "last"]
           more == to < head
           u(from) == [q EXCEPT !.buffer = got(from), !.more = more]
<1>1. /\ pass[p].at = "page" /\ left' = left /\ row' = row /\ past' = past /\ Chain' = Chain
      /\ \E from \in {since, since + 1} \ {0} :
           pass' = [pass EXCEPT ![p] = IF since > head THEN r ELSE IF got(from) = {} THEN s
                                       ELSE Loop(p, u(from))]
  <2>1. left' = left /\ row' = row /\ past' = past /\ Chain' = Chain
    BY ChainStands, Zenon DEF Page
  <2> QED
    BY <2>1, Zenon DEF Page
<1>2. PICK from \in {since, since + 1} \ {0} :
        pass' = [pass EXCEPT ![p] = IF since > head THEN r ELSE IF got(from) = {} THEN s
                                    ELSE Loop(p, u(from))]
  BY <1>1, Zenon
<1>3. Whole(pass[p]) /\ Bare(Chain, pass[p]) /\ ChainOK(Chain)
  BY Knows, Zenon
<1> HIDE DEF n
<1>4. /\ IsRecord(q, PassFields) /\ q.st = pass[p].st /\ q.buffer = pass[p].buffer /\ q.ends = pass[p].ends
  BY <1>3, Zenon DEF Whole, IsRecord, PassFields
<1>5. since \in Nat /\ left.page \in Nat /\ head \in Nat /\ Chain.head = head
  <2>1. pass[p].st.cursor \in Nat
    BY Zenon DEF Inv, PassOK, Sound, IsDoc
  <2> QED
    BY <1>4, <2>1, ChainIs DEF Inv, LeftOK
<1>6. got(from) \subseteq 0..Chain.head
  <2>1. to \in Nat /\ to <= head
    BY <1>5
  <2> HIDE DEF to
  <2> QED
    BY <1>5, <2>1
<1> DEFINE g == got(from)
<1> HIDE DEF q, since, more
<1>7. Whole(q) /\ Bare(Chain, q)
  BY <1>3, <1>4, SameBare, Zenon DEF Whole, Bare
<1>8. PassRows(Chain, r)
  <2> DEFINE dd == [q.st EXCEPT !.stop = {since}]
  <2>1. r = [q EXCEPT !.at = "last", !.st = dd]
    BY <1>7, Zenon DEF Whole, IsRecord, PassFields, DocFields
  <2>2. dd.pending = q.st.pending
    BY <1>7, Zenon DEF Whole, IsRecord, DocFields
  <2> HIDE DEF dd
  <2>3. r.at = "last" /\ r.st = dd /\ r.buffer = q.buffer /\ r.ends = q.ends
    BY <1>4, <2>1, Zenon DEF IsRecord, PassFields
  <2> HIDE DEF r
  <2> QED
    BY <1>7, <2>2, <2>3, SameBare, BareRows, Zenon DEF Bare
<1>9. PassRows(Chain, s)
  <2>1. s.at = "last" /\ s.st = q.st /\ s.buffer = q.buffer /\ s.ends = q.ends
    BY <1>4, Zenon DEF IsRecord, PassFields
  <2> HIDE DEF s
  <2> QED
    BY <1>7, <2>1, SameBare, BareRows, Zenon DEF Bare
<1>10. PassRows(Chain, Loop(p, u(from)))
  <2> DEFINE uu == [q EXCEPT !.buffer = g, !.more = more]
  <2>1. u(from) = uu
    BY Zenon
  <2> HIDE DEF g, u
  <2>2. IsRecord(uu, PassFields) /\ uu.st = q.st /\ uu.buffer = g /\ uu.ends = q.ends
    BY <1>4, Zenon DEF IsRecord, PassFields
  <2> HIDE DEF uu
  <2>3. Whole(uu) /\ Bare(Chain, uu)
    BY <1>6, <1>7, <2>2, Zenon DEF Whole, Bare, g
  <2> QED
    BY <1>3, <2>1, <2>3, LoopRows, Zenon
<1> HIDE DEF r, s, u, got
<1>11. PICK t : PassRows(Chain, t) /\ pass' = [pass EXCEPT ![p] = t]
  BY <1>2, <1>8, <1>9, <1>10, Zenon
<1> QED
  BY <1>1, <1>11, PassAlone, Zenon

\* A read of the feed faults.
LEMMA ReadFaultsRows ==
  ASSUME Inv, RowsInv, NEW p \in Pass, ReadFaults(p)
  PROVE  RowsInv'
<1> DEFINE t == [pass[p] EXCEPT !.at = "last"]
<1>1. pass' = [pass EXCEPT ![p] = t]
  BY Zenon DEF ReadFaults
<1>2. row' = row /\ past' = past /\ Chain' = Chain /\ left'.rows = left.rows
  BY SpendRows, ChainStands, Zenon DEF ReadFaults
<1>3. Whole(pass[p]) /\ Bare(Chain, pass[p])
  BY Knows, Zenon
<1>4. t.at = "last" /\ t.st = pass[p].st /\ t.buffer = pass[p].buffer /\ t.ends = pass[p].ends
  BY <1>3, Zenon DEF Whole, IsRecord, PassFields
<1> HIDE DEF t
<1>5. PassRows(Chain, t)
  BY <1>3, <1>4, SameBare, BareRows, Zenon DEF Bare
<1> QED
  BY <1>1, <1>2, <1>5, PassAlone, Zenon

\* An envelope is taken: a tip has no window, a selecting event's has not begun.
LEMMA TakeRows ==
  ASSUME Inv, RowsInv, NEW p \in Pass, Take(p)
  PROVE  RowsInv'
<1> DEFINE o == pass[p]
           e == Min(o.buffer)
           g == o.buffer \ {e}
           q == [o EXCEPT !.buffer = g]
           r == [q EXCEPT !.at = "last", !.st.stop = {e}]
           x == End("done", Window(e, 0, 0))
           d == [o.st EXCEPT !.cursor = e, !.stop = {}]
           s == [q EXCEPT !.st = [@ EXCEPT !.cursor = e, !.stop = {}],
                          !.ends = @ \cup {x}, !.unwritten = @ \cup {e}]
           w == Selection(e)
           h == [o.st EXCEPT !.pending = w, !.stop = {}]
           u == [q EXCEPT !.st = [@ EXCEPT !.pending = w, !.stop = {}]]
           v == [q EXCEPT !.at = "last"]
           t == CASE e <= q.st.cursor -> Loop(p, q)
                  [] e > q.st.cursor /\ Journal[e].kind = "unreadable" -> r
                  [] e > q.st.cursor /\ Journal[e].kind = "tip" -> Loop(p, s)
                  [] OTHER -> IF q.finished >= left.limit[p] THEN v ELSE Loop(p, u)
<1>1. /\ pass' = [pass EXCEPT ![p] = t]
      /\ o.at = "take" /\ left' = left /\ row' = row /\ past' = past /\ Chain' = Chain
  <2>1. left' = left /\ row' = row /\ past' = past /\ Chain' = Chain
    BY ChainStands, Zenon DEF Take
  <2> QED
    BY <2>1, Zenon DEF Take
<1>2. /\ Whole(o) /\ Bare(Chain, o) /\ ChainOK(Chain) /\ o.st.pending = NoWindow /\ o.buffer # {}
      /\ o.st.cursor \in Nat
  BY <1>1, Knows, Zenon DEF Inv, PassOK, Sound, IsDoc
<1>3. e \in 0..Chain.head
  <2>1. o.buffer \in SUBSET Nat /\ o.buffer \subseteq 0..Chain.head
    BY <1>2 DEF Bare, ChainOK
  <2> QED
    BY <1>2, <2>1, LeastIsLeast, Zenon
<1>4. g \subseteq o.buffer
  BY Zenon
<1> HIDE DEF g, e
<1>5. IsRecord(q, PassFields) /\ q.st = o.st /\ q.buffer = g /\ q.ends = o.ends /\ q.unwritten = o.unwritten
  BY <1>2, Zenon DEF Whole, IsRecord, PassFields
<1> HIDE DEF q, o
<1>6. Whole(q) /\ Bare(Chain, q)
  BY <1>2, <1>4, <1>5, SameBare, Zenon DEF Whole, Bare
<1>7. PassRows(Chain, Loop(p, q))
  BY <1>2, <1>6, LoopRows, Zenon
<1>8. PassRows(Chain, r)
  <2> DEFINE dd == [q.st EXCEPT !.stop = {e}]
  <2>1. r = [q EXCEPT !.at = "last", !.st = dd]
    BY <1>6, Zenon DEF Whole, IsRecord, PassFields, DocFields
  <2>2. dd.pending = q.st.pending
    BY <1>6, Zenon DEF Whole, IsRecord, DocFields
  <2> HIDE DEF dd
  <2>3. r.at = "last" /\ r.st = dd /\ r.buffer = q.buffer /\ r.ends = q.ends
    BY <1>5, <2>1, Zenon DEF IsRecord, PassFields
  <2> HIDE DEF r
  <2> QED
    BY <1>6, <2>2, <2>3, SameBare, BareRows, Zenon DEF Bare
<1>9. PassRows(Chain, v)
  <2>1. v.at = "last" /\ v.st = q.st /\ v.buffer = q.buffer /\ v.ends = q.ends
    BY <1>5, Zenon DEF IsRecord, PassFields
  <2> HIDE DEF v
  <2> QED
    BY <1>6, <2>1, SameBare, BareRows, Zenon DEF Bare
<1>10. PassRows(Chain, Loop(p, s))
  <2>1. x.how = "done" /\ x.e = e /\ x.lo = 0 /\ x.hi = 0
    BY Zenon DEF End, Window, NoWindow
  <2>2. Cleared(Chain, x)
    <3>1. \A rr \in Row : Chain.held[rr] # 0 => Chain.held[rr] \notin 0..0
      BY <1>2, ChainFeedAssumption DEF ChainOK
    <3> QED
      BY <1>3, <2>1, <3>1, Zenon DEF Cleared, Stale
  <2> HIDE DEF x
  <2>3. IsRecord(d, DocFields) /\ d.pending = NoWindow
    BY <1>2, Zenon DEF Whole, IsRecord, DocFields
  <2>4. s = [q EXCEPT !.st = d, !.ends = o.ends \cup {x}, !.unwritten = o.unwritten \cup {e}]
    BY <1>5, Zenon
  <2> HIDE DEF d
  <2>5. IsRecord(s, PassFields) /\ s.st = d /\ s.buffer = g /\ s.ends = o.ends \cup {x}
    BY <1>5, <2>4, Zenon DEF IsRecord, PassFields
  <2> HIDE DEF s
  <2>6. IsRecord(NoWindow, WindowFields)
    BY Zenon DEF NoWindow, IsRecord, WindowFields
  <2>7. Whole(s) /\ Bare(Chain, s)
    BY <1>2, <1>4, <2>2, <2>3, <2>5, <2>6, Zenon DEF Whole, Bare
  <2> QED
    BY <1>2, <2>7, LoopRows, Zenon
<1>11. PassRows(Chain, Loop(p, u))
  <2>1. IsRecord(w, WindowFields)
    BY Zenon DEF Selection, Window, NoWindow, IsRecord, WindowFields
  <2>2. Walked(Chain, w)
    BY <1>2, <1>3, FreshWalked, Zenon DEF Selection
  <2> HIDE DEF w
  <2>3. IsRecord(h, DocFields) /\ h.pending = w
    BY <1>2, Zenon DEF Whole, IsRecord, DocFields
  <2>4. u = [q EXCEPT !.st = h]
    BY <1>5, Zenon
  <2> HIDE DEF h
  <2>5. IsRecord(u, PassFields) /\ u.st = h /\ u.buffer = g /\ u.ends = o.ends
    BY <1>5, <2>4, Zenon DEF IsRecord, PassFields
  <2> HIDE DEF u
  <2>6. Whole(u) /\ Bare(Chain, u)
    BY <1>2, <1>4, <2>1, <2>2, <2>3, <2>5, Zenon DEF Whole, Bare
  <2> QED
    BY <1>2, <2>6, LoopRows, Zenon
<1>12. t \in {Loop(p, q), r, Loop(p, s), v, Loop(p, u)}
  <2> HIDE DEF r, s, u, v
  <2>1. e \in Nat /\ q.st.cursor \in Nat
    BY <1>2, <1>3, <1>5 DEF ChainOK
  <2> QED
    BY <2>1, Zenon
<1> HIDE DEF r, s, u, v, t
<1>13. PassRows(Chain, t)
  BY <1>7, <1>8, <1>9, <1>10, <1>11, <1>12, Zenon
<1> QED
  BY <1>1, <1>13, PassAlone, Zenon DEF o

\* What a pass ended as applied is passed when its document is stored.
LEMMA MovedRows ==
  ASSUME Inv, RowsInv, NEW p \in Pass, NEW n
  PROVE  LET m == [Moved(pass[p]) EXCEPT !.counted = n]
         IN  m.late = past.late /\ \A d \in m.done : Cleared(Chain, d)
<1> DEFINE q == pass[p]
           dn == past.done \cup {[e |-> x.e, lo |-> x.lo, hi |-> x.hi] : x \in Ended(q, "done")}
           rl == past.released \o (IF Ended(q, "released") = {} THEN <<>>
                                   ELSE <<(CHOOSE x \in Ended(q, "released") : TRUE).e>>)
           sk == past.skipped \cup (IF q.at = "seed" THEN Crossed(0, q.st.cursor) ELSE {})
           mv == Plus(past.moved, IF q.at = "seed" THEN {} ELSE Crossed(row.st.cursor, q.st.cursor))
           m == [[past EXCEPT !.done = dn, !.released = rl, !.skipped = sk, !.moved = mv]
                   EXCEPT !.counted = n]
<1>1. [Moved(q) EXCEPT !.counted = n] = m
  BY Zenon DEF Moved
<1>2. \A d \in dn : Cleared(Chain, d)
  <2>1. \A x \in Ended(q, "done") : Cleared(Chain, x)
    BY Knows, Zenon DEF Bare, Ended
  <2>2. \A x \in Ended(q, "done") : Cleared(Chain, [e |-> x.e, lo |-> x.lo, hi |-> x.hi])
    BY <2>1, Zenon DEF Cleared
  <2> QED
    BY <2>2, Zenon DEF RowsInv
<1> HIDE DEF dn, rl, sk, mv
<1>3. m.late = past.late /\ m.done = dn
  BY Zenon DEF Inv, PastOK, IsRecord, PastFields
<1> QED
  BY <1>1, <1>2, <1>3, Zenon

\* A document is stored, and its writer goes on.
LEMMA StoredRows ==
  ASSUME Inv, RowsInv, NEW p \in Pass, NEW t, NEW n, PassRows(Chain, t), Chain' = Chain,
         pass' = [pass EXCEPT ![p] = t], row'.st = pass[p].st, left'.rows = left.rows,
         past' = [Moved(pass[p]) EXCEPT !.counted = n]
  PROVE  RowsInv'
<1>1. \A s \in Pass : pass'[s] = IF s = p THEN t ELSE pass[s]
  BY Zenon DEF Inv
<1>2. \A s \in Pass : PassRows(Chain, pass'[s])
  BY <1>1, Zenon DEF RowsInv
<1>3. Walked(Chain, row'.st.pending)
  BY Knows, Zenon DEF Bare
<1>4. \A d \in past'.done : Cleared(Chain, d)
  BY MovedRows, Zenon
<1>5. ChainOK(Chain) /\ left'.rows \in Nat \ {0}
  BY Zenon DEF RowsInv
<1> QED
  BY <1>2, <1>3, <1>4, <1>5, Zenon DEF RowsInv

\* A pass after its write.
LEMMA AfterWriteRows ==
  ASSUME NEW c, NEW p, NEW q, NEW how \in {"landed", "lost", "faulted"}, ChainOK(c), Whole(q), Bare(c, q)
  PROVE  PassRows(c, AfterWrite(p, q, how))
<1> DEFINE v == row.ver + 1
           n == q.finished + 1
           r == [q EXCEPT !.ver = v]
           s == [q EXCEPT !.ver = v, !.written = q.st, !.ends = {}, !.unwritten = {}, !.finished = n]
           u == [q EXCEPT !.at = "last", !.unwritten = {}]
<1>1. AfterWrite(p, q, how) \in {Loop(p, r), Loop(p, s), u, IdlePass}
  <2> HIDE DEF r, s, u
  <2>1. CASE how = "landed" /\ q.at = "seed"
    BY <2>1, Zenon DEF AfterWrite, r
  <2>2. CASE how = "landed" /\ q.at = "write" /\ q.next = "loop"
    BY <2>2, Zenon DEF AfterWrite, s
  <2>3. CASE how = "faulted" /\ q.at = "write"
    BY <2>3, Zenon DEF AfterWrite, u
  <2>4. CASE /\ ~(how = "landed" /\ q.at = "seed") /\ ~(how = "landed" /\ q.at = "write" /\ q.next = "loop")
             /\ ~(how = "faulted" /\ q.at = "write")
    BY <2>4, Zenon DEF AfterWrite
  <2> QED
    BY <2>1, <2>2, <2>3, <2>4, Zenon
<1> HIDE DEF v, n
<1>2. IsRecord(r, PassFields) /\ r.st = q.st /\ r.buffer = q.buffer /\ r.ends = q.ends
  BY Zenon DEF Whole, IsRecord, PassFields
<1>3. IsRecord(s, PassFields) /\ s.st = q.st /\ s.buffer = q.buffer /\ s.ends = {}
  BY Zenon DEF Whole, IsRecord, PassFields
<1>4. u.at = "last" /\ u.st = q.st /\ u.buffer = q.buffer /\ u.ends = q.ends
  BY Zenon DEF Whole, IsRecord, PassFields
<1> HIDE DEF r, s, u
<1>5. PassRows(c, Loop(p, r))
  <2>1. Whole(r) /\ Bare(c, r)
    BY <1>2, Zenon DEF Whole, Bare
  <2> QED
    BY <2>1, LoopRows, Zenon
<1>6. PassRows(c, Loop(p, s))
  <2>1. Whole(s) /\ Bare(c, s)
    BY <1>3, Zenon DEF Whole, Bare
  <2> QED
    BY <2>1, LoopRows, Zenon
<1>7. PassRows(c, u)
  BY <1>4, SameBare, BareRows, Zenon DEF Bare
<1> QED
  BY <1>1, <1>5, <1>6, <1>7, IdleRows, Zenon

\* A write lands, is lost or faults.
LEMMA WriteRows ==
  ASSUME Inv, RowsInv, NEW p \in Pass, WriteNothing(p) \/ WriteLands(p) \/ WriteLoses(p) \/ WriteFaults(p)
  PROVE  RowsInv'
<1>1. Whole(pass[p]) /\ Bare(Chain, pass[p]) /\ ChainOK(Chain) /\ PassRows(Chain, IdlePass)
  BY Knows, IdleRows, Zenon
<1>2. CASE WriteNothing(p)
  <2>1. left' = left /\ row' = row /\ past' = past /\ Chain' = Chain
    BY <1>2, ChainStands, Zenon DEF WriteNothing
  <2> QED
    BY <1>1, <1>2, <2>1, PassAlone, Zenon DEF WriteNothing
<1>3. CASE WriteLoses(p)
  <2>1. left' = left /\ row' = row /\ past' = past /\ Chain' = Chain
    BY <1>3, ChainStands, Zenon DEF WriteLoses
  <2>2. pass' = [pass EXCEPT ![p] = AfterWrite(p, pass[p], "lost")]
    BY <1>3, Zenon DEF WriteLoses
  <2>3. PassRows(Chain, AfterWrite(p, pass[p], "lost"))
    BY <1>1, AfterWriteRows, Zenon
  <2> QED
    BY <2>1, <2>2, <2>3, PassAlone, Zenon
<1>4. CASE WriteLands(p)
  <2> DEFINE m == Plus(Moved(pass[p]).counted, pass[p].unwritten)
             t == AfterWrite(p, pass[p], "landed")
  <2>1. pass' = [pass EXCEPT ![p] = t] /\ past' = [Moved(pass[p]) EXCEPT !.counted = m]
    BY <1>4, Zenon DEF WriteLands
  <2>2. row'.st = pass[p].st /\ left' = left
    BY <1>4, Zenon DEF WriteLands, Store
  <2>3. past'.late = past.late
    BY <2>1, MovedRows, Zenon
  <2>4. Chain' = Chain
    BY <1>4, <2>2, <2>3, ChainStands, Zenon DEF WriteLands
  <2>5. PassRows(Chain, t)
    BY <1>1, AfterWriteRows, Zenon
  <2> HIDE DEF m, t
  <2> QED
    BY <2>1, <2>2, <2>4, <2>5, StoredRows, Zenon
<1>5. CASE WriteFaults(p)
  <2> DEFINE m == past.counted
             t == AfterWrite(p, pass[p], "faulted")
  <2>1. /\ pass' = [pass EXCEPT ![p] = t]
        /\ head' = head /\ canon' = canon /\ gone' = gone /\ proof' = proof /\ held' = held
        /\ left'.leg = left.leg /\ left'.rows = left.rows
        /\ (row'.st = pass[p].st /\ past' = Moved(pass[p])) \/ (row' = row /\ past' = past)
    BY <1>5, SpendRows DEF WriteFaults, Store
  <2>2. PassRows(Chain, t)
    BY <1>1, AfterWriteRows, Zenon
  <2> HIDE DEF t
  <2>3. CASE row' = row /\ past' = past
    BY <2>1, <2>2, <2>3, ChainStands, PassAlone, Zenon
  <2>4. CASE row'.st = pass[p].st /\ past' = Moved(pass[p])
    <3>1. past' = [Moved(pass[p]) EXCEPT !.counted = m]
      BY <2>4, Zenon DEF Moved, Inv, PastOK, IsRecord, PastFields
    <3>2. past'.late = past.late
      BY <3>1, MovedRows, Zenon
    <3>3. Chain' = Chain
      BY <2>1, <3>2, ChainStands, Zenon
    <3> HIDE DEF m
    <3> QED
      BY <2>1, <2>2, <2>4, <3>1, <3>3, StoredRows, Zenon
  <2> QED
    BY <2>1, <2>3, <2>4, Zenon
<1> QED
  BY <1>2, <1>3, <1>4, <1>5, Zenon

\* A pass is dropped.
LEMMA DropRows ==
  ASSUME Inv, RowsInv, NEW p \in Pass, Drop(p)
  PROVE  RowsInv'
<1>1. row' = row /\ past' = past /\ Chain' = Chain /\ left'.rows = left.rows
  BY SpendRows, ChainStands, Zenon DEF Drop
<1>2. PassRows(Chain, IdlePass) /\ pass' = [pass EXCEPT ![p] = IdlePass]
  BY IdleRows, Zenon DEF RowsInv, Drop
<1> QED
  BY <1>1, <1>2, PassAlone, Zenon

\* The operator's document has nothing in hand.
LEMMA LeverRows ==
  ASSUME Inv, RowsInv, LeverReads \/ LeverLands \/ LeverLoses
  PROVE  RowsInv'
<1>1. CASE LeverReads \/ LeverLoses
  <2>1. row' = row /\ past' = past /\ pass' = pass /\ Chain' = Chain /\ left'.rows = left.rows
    BY <1>1, SpendRows, ChainStands, Zenon DEF LeverReads, LeverLoses
  <2> QED
    BY <2>1, Zenon DEF RowsInv
<1>2. CASE LeverLands
  <2> DEFINE w == lever.st.pending
             rl == IF w # NoWindow THEN Append(past.released, w.cursor) ELSE past.released
             sk == past.skipped \cup (Crossed(IF row.ver = 0 THEN 0 ELSE row.st.cursor, lever.cursor)
                                      \ {w.cursor})
             st == IF w # NoWindow THEN Release(lever.st) ELSE lever.st
  <2>1. /\ lever.at = "write" /\ row'.st = LeverDoc(lever) /\ past' = [past EXCEPT !.released = rl, !.skipped = sk]
        /\ left' = left /\ head' = head /\ pass' = pass
        /\ canon' = canon /\ gone' = gone /\ proof' = proof /\ held' = held
    BY <1>2, Zenon DEF LeverLands, Store
  <2> HIDE DEF rl, sk
  <2>2. past'.late = past.late /\ past'.done = past.done
    BY <2>1, Zenon DEF Inv, PastOK, IsRecord, PastFields
  <2>3. Chain' = Chain
    BY <2>1, <2>2, ChainStands, Zenon
  <2>4. LeverDoc(lever).pending = NoWindow
    <3>1. IsDoc(Journal, lever.st)
      BY <2>1, Zenon DEF Inv, LeverOK
    <3>2. LeverDoc(lever) = [st EXCEPT !.cursor = lever.cursor, !.stop = {}]
      BY Zenon DEF LeverDoc
    <3>3. IsRecord(st, DocFields) /\ st.pending = NoWindow
      BY <3>1, Zenon DEF Release, IsDoc, IsRecord, DocFields
    <3> HIDE DEF st
    <3> QED
      BY <3>2, <3>3, Zenon DEF IsRecord, DocFields
  <2>5. Walked(Chain, row'.st.pending)
    BY <2>1, <2>4, NoWindowWalked, Zenon DEF RowsInv
  <2> QED
    BY <2>1, <2>2, <2>3, <2>5, Zenon DEF RowsInv
<1> QED
  BY <1>1, <1>2, Zenon

\* An event is published: the blocks it takes off are marked with its own number.
LEMMA PublishRows ==
  ASSUME Inv, RowsInv, Publish
  PROVE  RowsInv'
<1> DEFINE c == Chain
           d == Chain'
           e == Journal[head + 1]
<1>1. /\ c.head = head /\ c.canon = canon /\ c.gone = gone /\ c.proof = proof /\ c.held = held
      /\ c.late = past.late /\ c.leg = left.leg
  BY ChainIs, Zenon
<1>2. /\ d.head = head + 1 /\ d.canon = canon' /\ d.gone = gone' /\ d.proof = proof /\ d.held = held
      /\ d.late = past.late /\ d.leg = left.leg
  BY ChainBecomes, Zenon DEF Publish
<1>3. ChainOK(c) /\ head \in Nat
  BY <1>1, Zenon DEF RowsInv, ChainOK
<1>4. e \in Event
  BY DEF Publish, Inv, LeftOK
<1>5. canon' \in [Height -> Block \cup {0}]
  <2>1. canon' = [h \in Height |->
                    CASE e.kind \in {"tip", "reorg"} /\ h \in e.lo..e.hi -> e.block
                      [] e.kind = "invalidated" /\ h >= e.lo -> 0
                      [] OTHER -> canon[h]]
    BY Zenon DEF Publish
  <2>2. e.block \in Block /\ e.kind \in {"tip", "reorg", "invalidated", "unreadable"}
    BY <1>4, Zenon DEF Event
  <2>3. \A h \in Height : canon[h] \in Block \cup {0}
    BY <1>1, <1>3, Zenon DEF ChainOK
  <2> HIDE DEF e
  <2> QED
    BY <2>1, <2>2, <2>3, Zenon
<1>6. gone' = [h \in Height |-> [b \in Block |->
                 CASE canon[h] = b /\ canon'[h] # b -> head + 1
                   [] canon'[h] = b -> 0
                   [] OTHER -> gone[h][b]]]
  BY Zenon DEF Publish
<1>7. ASSUME NEW h \in Height, NEW b \in Block
      PROVE  /\ gone[h][b] \in Nat /\ gone'[h][b] \in {0, head + 1, gone[h][b]}
             /\ canon'[h] = b => gone'[h][b] = 0
  <2>1. gone[h][b] \in Nat
    BY <1>1, <1>3 DEF ChainOK
  <2>2. gone'[h][b] = CASE canon[h] = b /\ canon'[h] # b -> head + 1
                        [] canon'[h] = b -> 0
                        [] OTHER -> gone[h][b]
    BY <1>6, Zenon
  <2> QED
    BY <2>1, <2>2, Zenon
<1>8. gone' \in [Height -> [Block -> Nat]]
  BY <1>3, <1>6, <1>7
<1> HIDE DEF c, d, e
<1>9. ChainOK(d)
  <2>1. \A h \in Height : canon'[h] # 0 => canon'[h] \in Block
    BY <1>5, Zenon
  <2> QED
    BY <1>1, <1>2, <1>3, <1>5, <1>7, <1>8, <2>1 DEF ChainOK
<1>10. Steady(c, d)
  <2>1. ASSUME NEW h \in Height, NEW b \in Block, NEW n \in 0..head, gone[h][b] = 0 \/ gone[h][b] > n
        PROVE  gone'[h][b] = 0 \/ gone'[h][b] > n
    BY <1>3, <1>7, <2>1
  <2>2. ASSUME NEW r \in Row, NEW n \in 0..head, Stale(d, r, n)
        PROVE  Stale(c, r, n)
    <3>1. proof[r][1] \in Height /\ proof[r][2] \in Block
      BY <1>1, <1>3, Zenon DEF ChainOK
    <3>2. ~(gone[proof[r][1]][proof[r][2]] = 0 \/ gone[proof[r][1]][proof[r][2]] > n)
      BY <1>2, <2>1, <2>2, <3>1, Zenon DEF Stale, TakenBy
    <3> QED
      BY <1>1, <1>2, <2>2, <3>2, Zenon DEF Stale, TakenBy
  <2>3. head <= head + 1
    BY <1>3
  <2> QED
    BY <1>1, <1>2, <2>1, <2>2, <2>3 DEF Steady
<1>11. row' = row /\ past' = past /\ pass' = pass /\ left' = left
  BY Zenon DEF Publish
<1>12. /\ Walked(c, row.st.pending) /\ \A x \in past.done : Cleared(c, x)
       /\ \A p \in Pass : PassRows(c, pass[p])
  BY Zenon DEF RowsInv, c
<1>13. /\ Walked(d, row.st.pending) /\ \A x \in past.done : Cleared(d, x)
       /\ \A p \in Pass : PassRows(d, pass[p])
  BY <1>3, <1>9, <1>10, <1>12, WalkedStays, ClearedStays, PassStays
<1> QED
  BY <1>9, <1>11, <1>13, Zenon DEF RowsInv, d

-----------------------------------------------------------------------------
(* The walk of a window. *)

\* A pass that keeps its page, its window and its progress keeps what it knows of them.
LEMMA SamePaged ==
  ASSUME NEW c, NEW q, NEW r, Paged(c, q), r.page = q.page, r.judged = q.judged, r.leg = q.leg,
         r.full = q.full, r.faulted = q.faulted, r.st = q.st
  PROVE  Paged(c, r)
BY Zenon DEF Paged, JudgedTo, Remains

\* It goes on with the row.
LEMMA Stays ==
  ASSUME NEW c, NEW q, NEW r, Bare(c, q), Paged(c, q), r.page = q.page, r.judged = q.judged, r.leg = q.leg,
         r.full = q.full, r.faulted = q.faulted, r.st = q.st, r.buffer = q.buffer, r.ends = q.ends,
         r.at \in {"ladder", "recheck", "demote"}
  PROVE  PassRows(c, r)
<1>1. Bare(c, r) /\ Paged(c, r)
  BY SameBare, SamePaged, Zenon DEF Bare
<1> QED
  BY <1>1, Zenon DEF PassRows, Stages, Couriered, Applying

\* The page a leg reads has every row the window owes of it, or ends before it.
LEMMA LegRows ==
  ASSUME Inv, RowsInv, NEW p \in Pass, Leg(p)
  PROVE  RowsInv'
<1> DEFINE q == pass[p]
           w == q.st.pending
           l == q.leg
           c == Chain
           page == LegPage(w, l)
           full == Cardinality(page) = left.rows
           judged == w.legs[l]
           r == [q EXCEPT !.page = page, !.full = full, !.judged = judged, !.faulted = FALSE]
           s == [r EXCEPT !.at = "row"]
           t == IF page = {} THEN LegEnds(r, FALSE) ELSE s
           E == {[row |-> x, height |-> held[x], bump |-> proof[x]] : x \in Row}
           S == {x \in E : /\ left.leg[x.row] = l /\ x.height # 0 /\ x.height \in w.lo..w.hi
                           /\ w.legs[l].begun => Before(w.legs[l].after, Key(x))}
<1>1. pass' = [pass EXCEPT ![p] = t] /\ q.at = "leg"
      /\ left' = left /\ row' = row /\ past' = past /\ Chain' = Chain
  <2>1. left' = left /\ row' = row /\ past' = past /\ Chain' = Chain
    BY ChainStands, Zenon DEF Leg
  <2> QED
    BY <2>1 DEF Leg
<1>2. Whole(q) /\ Bare(c, q) /\ ChainOK(c) /\ left.rows \in Nat \ {0}
  BY Knows, Zenon DEF RowsInv
<1>3. /\ c.proof = proof /\ c.held = held /\ c.leg = left.leg /\ c.late = past.late
      /\ proof \in [Row -> Height \X Block] /\ held \in [Row -> Height \cup {0}]
  BY <1>2, ChainIs, Zenon DEF ChainOK
<1>4. page = {x \in S : Cardinality({y \in S : Before(Key(y), Key(x))}) < left.rows}
  BY Zenon DEF LegPage
<1>5. IsRows(S)
  <2>1. IsFiniteSet(E)
    <3> DEFINE f == [x \in Row |-> [row |-> x, height |-> held[x], bump |-> proof[x]]]
    <3>1. f \in Surjection(Row, E)
      BY Zenon DEF Surjection
    <3> HIDE DEF f, E
    <3> QED
      BY <3>1, ChainFeedAssumption, FS_Surjection
  <2>2. S \subseteq E
    BY Zenon
  <2>3. IsFiniteSet(S)
    BY <2>1, <2>2, FS_Subset, Zenon
  <2>4. \A x \in S : x.row \in Row /\ x = [row |-> x.row, height |-> held[x.row], bump |-> proof[x.row]]
                     /\ x.height # 0 /\ x.height = held[x.row]
    OBVIOUS
  <2> HIDE DEF S
  <2>5. ASSUME NEW x \in S
        PROVE  x \in [row : Row, height : Height, bump : Height \X Block]
    <3>1. held[x.row] \in Height /\ proof[x.row] \in Height \X Block
      BY <1>3, <2>4, Zenon
    <3> QED
      BY <2>4, <3>1
  <2> QED
    BY <2>3, <2>4, <2>5, Zenon DEF IsRows
<1>6. /\ page \subseteq S /\ (page = {} => S = {})
      /\ \A x \in S \ page : full /\ \A y \in page : Before(Key(y), Key(x))
  <2> HIDE DEF S
  <2> QED
    BY <1>2, <1>4, <1>5, PageIsFull
<1>7. ASSUME NEW x \in Row, Owed(c, w, x), c.leg[x] = l
      PROVE  Entry(c, x) \in S /\ Ahead(judged, Place(c, x))
  <2>1. Ahead(judged, Place(c, x))
    BY <1>2, <1>7, Zenon DEF Bare, Walked
  <2>2. Entry(c, x) \in E /\ Entry(c, x).row = x /\ Entry(c, x).height = held[x] /\ Key(Entry(c, x)) = Place(c, x)
    BY <1>3, Zenon DEF Entry, Key, Place
  <2>3. held[x] # 0 /\ held[x] \in w.lo..w.hi
    BY <1>3, <1>7, Zenon DEF Owed, Stale
  <2> QED
    BY <1>3, <1>7, <2>1, <2>2, <2>3, Zenon DEF Ahead
<1>8. l \in 1..3 => IsRecord(judged, LegFields)
  BY <1>2, Zenon DEF Bare, Walked
<1>9. IsRows(page)
  BY <1>5, <1>6, Fewer, Zenon
<1>10. ASSUME NEW x \in Row, Owed(c, w, x), c.leg[x] = l
       PROVE  \/ Entry(c, x) \in page
              \/ full /\ \A y \in page : y.row # x /\ Before(Key(y), Place(c, x))
  <2>1. Entry(c, x) \in S /\ Key(Entry(c, x)) = Place(c, x) /\ Entry(c, x).row = x
    BY <1>7, <1>10, Zenon DEF Entry, Place, Key
  <2>2. \A y \in page : y.row = x => y = Entry(c, x)
    BY <1>5, <1>6, <2>1, Zenon DEF IsRows
  <2> QED
    BY <1>6, <2>1, <2>2, Zenon
<1> HIDE DEF page, full, judged, S, E
<1>11. /\ IsRecord(r, PassFields) /\ r.st = q.st /\ r.buffer = q.buffer /\ r.ends = q.ends
       /\ r.page = page /\ r.full = full /\ r.judged = judged /\ r.faulted = FALSE /\ r.leg = q.leg
  BY <1>2, Zenon DEF Whole, IsRecord, PassFields
<1> HIDE DEF r
<1>12. Whole(r) /\ Bare(c, r) /\ JudgedTo(c, r) /\ Remains(c, r)
  BY <1>2, <1>7, <1>10, <1>11, Zenon DEF Whole, Bare, JudgedTo, Remains
<1>13. CASE page = {}
  <2>1. \A x \in Row : ~(Owed(c, w, x) /\ c.leg[x] = l)
    BY <1>6, <1>7, <1>13, Zenon
  <2>2. PassRows(c, LegEnds(r, FALSE))
    BY <1>2, <1>8, <1>11, <1>12, <2>1, LegEndsRows, Zenon
  <2>3. PassRows(c, t)
    BY <1>13, <2>2, Zenon
  <2> HIDE DEF t
  <2> QED
    BY <1>1, <2>3, PassAlone, Zenon
<1>14. CASE page # {}
  <2>1. /\ s.at = "row" /\ s.st = r.st /\ s.buffer = r.buffer /\ s.ends = r.ends /\ s.page = r.page
        /\ s.judged = r.judged /\ s.faulted = r.faulted /\ s.leg = r.leg /\ s.full = r.full
    BY <1>11, Zenon DEF IsRecord, PassFields
  <2> HIDE DEF s
  <2>2. Paged(c, r)
    BY <1>8, <1>9, <1>11, <1>12, <1>14, Zenon DEF Paged
  <2>3. Bare(c, s) /\ Paged(c, s)
    BY <1>12, <2>1, <2>2, SamePaged, SameBare DEF Bare
  <2>4. PassRows(c, s)
    BY <2>1, <2>3, Zenon DEF PassRows, Stages, Couriered, Applying
  <2>5. PassRows(c, t)
    BY <1>14, <2>4, Zenon
  <2> HIDE DEF t
  <2> QED
    BY <1>1, <2>5, PassAlone, Zenon
<1> QED
  BY <1>13, <1>14, Zenon

\* The read of the page faults.
LEMMA LegReadFaultsRows ==
  ASSUME Inv, RowsInv, NEW p \in Pass, LegReadFaults(p)
  PROVE  RowsInv'
<1>1. pass' = [pass EXCEPT ![p] = LegFaulted(pass[p])]
  BY Zenon DEF LegReadFaults
<1>2. left' = left /\ row' = row /\ past' = past /\ Chain' = Chain
  BY ChainStands, Zenon DEF LegReadFaults
<1>3. PassRows(Chain, LegFaulted(pass[p]))
  BY Knows, LegFaultedRows, Zenon
<1> QED
  BY <1>1, <1>2, <1>3, PassAlone, Zenon

\* The row judged first is the page's own, where it is owed.
LEMMA JudgedEntry ==
  ASSUME NEW c, NEW q, Paged(c, q), ~q.faulted, NEW x, x = First(q.page), x \in q.page,
         Owed(c, q.st.pending, x.row), c.leg[x.row] = q.leg
  PROVE  x.height = c.held[x.row] /\ x.bump = c.proof[x.row] /\ c.held[x.row] # 0
<1>1. x.row \in Row
  BY Zenon DEF Paged, IsRows
<1>2. Entry(c, x.row) \in q.page
  BY <1>1, Zenon DEF Paged, Remains
<1>3. Entry(c, x.row) = x
  <2>1. Entry(c, x.row).row = x.row
    BY Zenon DEF Entry
  <2> QED
    BY <1>2, <2>1, Zenon DEF Paged, IsRows
<1>4. x = [row |-> x.row, height |-> c.held[x.row], bump |-> c.proof[x.row]]
  BY <1>3, Zenon DEF Entry
<1> QED
  BY <1>4 DEF Owed, Stale

\* The past but for the late rows.
LEMMA LateIs ==
  ASSUME Inv, NEW S, past' = [past EXCEPT !.late = S]
  PROVE  past'.late = S /\ past'.done = past.done
BY Zenon DEF Inv, PastOK, IsRecord, PastFields

\* A verdict on a row: what stands on one that is current is on the chain, what stands
\* on one that is not is late.
LEMMA VerdictRows ==
  ASSUME Inv, RowsInv, NEW q, NEW b \in Height \X Block, NEW x \in Row, Stood(q, b, x),
         head' = head, canon' = canon, gone' = gone, proof' = proof, left' = left,
         held' = held \/ held' = [held EXCEPT ![x] = 0]
  PROVE  /\ ChainOK(Chain') /\ Steady(Chain, Chain') /\ past'.done = past.done
         /\ Valid(q, b) /\ b = proof[x] => \A e : ~Stale(Chain', x, e)
<1> DEFINE c == Chain
           d == Chain'
           L == CASE Valid(q, b) /\ canon[b[1]] # b[2] -> past.late \cup {x}
                  [] Valid(q, b) /\ canon[b[1]] = b[2] /\ b = proof[x] -> past.late \ {x}
                  [] OTHER -> past.late
<1>1. /\ c.head = head /\ c.canon = canon /\ c.gone = gone /\ c.proof = proof /\ c.held = held
      /\ c.late = past.late /\ c.leg = left.leg
  BY ChainIs, Zenon
<1>2. past' = [past EXCEPT !.late = L]
  BY Zenon DEF Stood
<1>3. past'.late = L /\ past'.done = past.done
  <2> HIDE DEF L
  <2> QED
    BY <1>2, LateIs, Zenon
<1>4. /\ d.head = head /\ d.canon = canon /\ d.gone = gone /\ d.proof = proof /\ d.held = held'
      /\ d.late = L /\ d.leg = left.leg
  BY <1>3, ChainBecomes, Zenon
<1>5. /\ ChainOK(c) /\ canon \in [Height -> Block \cup {0}] /\ proof \in [Row -> Height \X Block]
      /\ held \in [Row -> Height \cup {0}]
      /\ \A h \in Height : canon[h] # 0 => gone[h][canon[h]] = 0
  BY <1>1, Zenon DEF RowsInv, ChainOK
<1>6. b[1] \in Height /\ b[2] \in Block /\ b[2] # 0
  BY ChainFeedAssumption, Zenon
<1>7. canon[b[1]] = b[2] => gone[b[1]][b[2]] = 0
  BY <1>5, <1>6, Zenon
<1>8. held' \in [Row -> Height \cup {0}] /\ held'[x] \in {0, held[x]} /\ \A r \in Row \ {x} : held'[r] = held[r]
  BY <1>5, Zenon
<1>9. \A r \in Row \ {x} : r \in L <=> r \in past.late
  BY Zenon
<1>10. TakenBy(d, x) = gone[proof[x][1]][proof[x][2]] /\ OneRow(c, d, x)
  <2> HIDE DEF L, c, d
  <2> QED
    BY <1>1, <1>4, <1>5, <1>8, <1>9, Zenon DEF TakenBy, OneRow
<1>11. CASE Valid(q, b) /\ canon[b[1]] # b[2]
  <2>1. x \in L
    BY <1>11, Zenon
  <2> HIDE DEF L, c, d
  <2>2. ChainOK(d) /\ Steady(c, d)
    BY <1>4, <1>5, <1>10, <2>1, RowMoves, Zenon
  <2> QED
    BY <1>3, <1>4, <2>1, <2>2, Zenon DEF Stale, c, d
<1>12. CASE Valid(q, b) /\ canon[b[1]] = b[2] /\ b = proof[x]
  <2>1. TakenBy(d, x) = 0
    BY <1>7, <1>10, <1>12, Zenon
  <2> HIDE DEF L, c, d
  <2>3. ChainOK(d) /\ Steady(c, d)
    BY <1>5, <1>10, <2>1, RowMoves, Zenon
  <2> QED
    BY <1>3, <2>1, <2>3, Zenon DEF Stale, c, d
<1>13. CASE /\ ~(Valid(q, b) /\ canon[b[1]] # b[2])
            /\ ~(Valid(q, b) /\ canon[b[1]] = b[2] /\ b = proof[x])
  <2>1. L = past.late
    BY <1>13, Zenon
  <2>2. Valid(q, b) /\ b = proof[x] => TakenBy(d, x) = 0
    BY <1>7, <1>10, <1>13, Zenon
  <2> HIDE DEF L, c, d
  <2>4. \/ d.held[x] = 0 \/ x \in d.late
        \/ d.held[x] = c.held[x] /\ d.proof[x] = c.proof[x] /\ x \notin c.late
    BY <1>1, <1>4, <1>8, <2>1, Zenon
  <2>5. ChainOK(d) /\ Steady(c, d)
    BY <1>5, <1>10, <2>4, RowMoves, Zenon
  <2> QED
    BY <1>3, <2>2, <2>5, Zenon DEF Stale, c, d
<1> QED
  BY <1>11, <1>12, <1>13, Zenon

\* The memo is no part of what a pass knows of the rows.
LEMMA MemoRows ==
  ASSUME NEW q, NEW b, Whole(q)
  PROVE  LET m == Memo(q, b)
         IN  /\ Whole(m) /\ m.page = q.page /\ m.judged = q.judged /\ m.leg = q.leg /\ m.full = q.full
             /\ m.faulted = q.faulted /\ m.st = q.st /\ m.buffer = q.buffer /\ m.ends = q.ends
<1> DEFINE m == q.memo \cup {<<b, Valid(q, b)>>}
           r == [q EXCEPT !.memo = m]
<1>1. Memo(q, b) = IF Known(q, b) THEN q ELSE r
  BY Zenon DEF Memo
<1> HIDE DEF m
<1>2. /\ IsRecord(r, PassFields) /\ r.page = q.page /\ r.judged = q.judged /\ r.leg = q.leg /\ r.full = q.full
      /\ r.faulted = q.faulted /\ r.st = q.st /\ r.buffer = q.buffer /\ r.ends = q.ends
  BY Zenon DEF Whole, IsRecord, PassFields
<1> HIDE DEF r
<1> QED
  BY <1>1, <1>2, Zenon DEF Whole

\* A row against its own proof.
LEMMA JudgeRowRows ==
  ASSUME Inv, RowsInv, NEW p \in Pass, JudgeRow(p)
  PROVE  RowsInv'
<1> DEFINE o == pass[p]
           x == First(o.page)
           b == Bump(o, x)
           q == Memo(o, b)
           u == [q EXCEPT !.at = "ladder"]
           v == [q EXCEPT !.at = "reanchor", !.bump = b]
           t == CASE q.leg = 1 /\ ~Valid(q, b) -> u
                  [] q.leg = 1 /\ Valid(q, b) /\ x.height # b[1] -> v
                  [] OTHER -> NextRow(q)
           d == Chain'
<1>1. /\ pass' = [pass EXCEPT ![p] = t] /\ o.at = "row" /\ Stood(q, b, x.row)
      /\ held' = IF q.leg # 1 /\ ~Valid(q, b) THEN Withdrawn(q) ELSE held
      /\ left' = left /\ head' = head /\ row' = row /\ canon' = canon /\ gone' = gone /\ proof' = proof
  BY Zenon DEF JudgeRow
<1>2. Whole(o) /\ Bare(Chain, o) /\ ChainOK(Chain)
  BY Knows, Zenon
<1>3. Paged(Chain, o) /\ x \in o.page /\ x.row \in Row /\ x.bump \in Height \X Block
  BY <1>1, KnowsPage, Zenon DEF Walking
<1>4. proof \in [Row -> Height \X Block] /\ held \in [Row -> Height \cup {0}]
  BY <1>2, ChainIs, Zenon DEF ChainOK
<1>5. b \in Height \X Block /\ (o.leg = 1 => b = proof[x.row]) /\ (o.leg # 1 => b = x.bump)
  BY <1>3, <1>4, Zenon DEF Bump
<1> HIDE DEF b
<1>6. /\ Whole(q) /\ q.page = o.page /\ q.judged = o.judged /\ q.leg = o.leg /\ q.full = o.full
      /\ q.faulted = o.faulted /\ q.st = o.st /\ q.buffer = o.buffer /\ q.ends = o.ends
  BY <1>2, MemoRows, Zenon
<1> HIDE DEF q, o
<1>7. Withdrawn(q) \in {held, [held EXCEPT ![x.row] = 0]}
  BY <1>6, Zenon DEF Withdrawn, x
<1>8. /\ ChainOK(d) /\ Steady(Chain, d) /\ past'.done = past.done
      /\ Valid(q, b) /\ b = proof[x.row] => \A e : ~Stale(d, x.row, e)
  <2>1. held' = held \/ held' = [held EXCEPT ![x.row] = 0]
    BY <1>1, <1>7, Zenon
  <2> QED
    BY <1>1, <1>3, <1>5, <2>1, VerdictRows, Zenon
<1>9. Bare(d, o) /\ Paged(d, o)
  BY <1>2, <1>3, <1>8, BareStays, PagedStays, Zenon
<1>10. Bare(d, q) /\ Paged(d, q)
  BY <1>6, <1>9, SameBare, SamePaged, Zenon DEF Bare
<1>11. d.held = held' /\ d.proof = proof
  BY <1>1, ChainBecomes, Zenon
<1> HIDE DEF d
<1>12. CASE q.leg = 1 /\ ~Valid(q, b)
  <2>1. /\ u.at = "ladder" /\ u.page = q.page /\ u.judged = q.judged /\ u.leg = q.leg /\ u.full = q.full
        /\ u.faulted = q.faulted /\ u.st = q.st /\ u.buffer = q.buffer /\ u.ends = q.ends
    BY <1>6, Zenon DEF Whole, IsRecord, PassFields
  <2>2. t = u
    BY <1>12, Zenon
  <2> HIDE DEF u, t
  <2>3. PassRows(d, t)
    BY <1>10, <2>1, <2>2, Stays, Zenon
  <2> QED
    BY <1>1, <1>8, <2>3, OnePass, Zenon DEF d, o
<1>13. CASE q.leg = 1 /\ Valid(q, b) /\ x.height # b[1]
  <2>1. /\ v.at = "reanchor" /\ v.page = q.page /\ v.judged = q.judged /\ v.leg = q.leg /\ v.full = q.full
        /\ v.faulted = q.faulted /\ v.st = q.st /\ v.buffer = q.buffer /\ v.ends = q.ends /\ v.bump = b
    BY <1>6, Zenon DEF Whole, IsRecord, PassFields
  <2>2. t = v
    BY <1>13, Zenon
  <2> HIDE DEF v, t
  <2>3. Bare(d, v) /\ Paged(d, v)
    BY <1>10, <2>1, SameBare, SamePaged, Zenon DEF Bare
  <2>4. ~Stale(d, First(v.page).row, v.st.pending.cursor)
    BY <1>5, <1>6, <1>8, <1>13, <2>1, Zenon DEF x
  <2>5. PassRows(d, v)
    BY <1>5, <2>1, <2>3, <2>4, Zenon DEF PassRows, Stages, Couriered, Applying
  <2> QED
    BY <1>1, <1>8, <2>2, <2>5, OnePass, Zenon DEF d, o
<1>14. CASE ~(q.leg = 1 /\ ~Valid(q, b)) /\ ~(q.leg = 1 /\ Valid(q, b) /\ x.height # b[1])
  <2>1. t = NextRow(q)
    BY <1>14, Zenon
  <2>2. ASSUME ~q.faulted, Owed(d, q.st.pending, x.row), d.leg[x.row] = q.leg
        PROVE  FALSE
    <3>1. x.height = d.held[x.row] /\ x.bump = d.proof[x.row] /\ d.held[x.row] # 0
      BY <1>3, <1>6, <1>10, <2>2, JudgedEntry, Zenon DEF x
    <3>2. b = proof[x.row]
      BY <1>5, <1>11, <3>1, Zenon
    <3>3. ~Valid(q, b) /\ q.leg # 1
      BY <1>8, <1>14, <2>2, <3>2, Zenon DEF Owed
    <3>4. held' = Withdrawn(q)
      BY <1>1, <3>3, Zenon
    <3>5. Withdrawn(q) = [held EXCEPT ![x.row] = 0]
      BY <1>6, <3>3, Zenon DEF Withdrawn, x
    <3> QED
      BY <1>3, <1>4, <1>11, <3>1, <3>4, <3>5
  <2>3. PassRows(d, NextRow(q))
    BY <1>6, <1>8, <1>10, <2>2, NextRowRows, Zenon DEF x
  <2> HIDE DEF t
  <2> QED
    BY <1>1, <1>8, <2>1, <2>3, OnePass, Zenon DEF d, o
<1> QED
  BY <1>12, <1>13, <1>14, Zenon

\* A row that is owed nothing more is judged, and the pass goes on.
LEMMA GoesOn ==
  ASSUME NEW c, NEW q, NEW r, ChainOK(c), Whole(r), Bare(c, q), Paged(c, q), r.page = q.page,
         r.judged = q.judged, r.leg = q.leg, r.full = q.full, r.faulted = q.faulted, r.st = q.st,
         r.buffer = q.buffer, r.ends = q.ends,
         LET x == First(q.page).row
         IN  ~q.faulted => ~(Owed(c, q.st.pending, x) /\ c.leg[x] = q.leg)
  PROVE  PassRows(c, NextRow(r))
<1>1. Bare(c, r) /\ Paged(c, r)
  BY SameBare, SamePaged, Zenon DEF Bare
<1> QED
  BY <1>1, NextRowRows, Zenon

\* The couriers.
LEMMA LadderRows ==
  ASSUME Inv, RowsInv, NEW p \in Pass, Ladder(p)
  PROVE  RowsInv'
<1> DEFINE q == pass[p]
           c == Chain
           k == q.ladder - 1
           r == [q EXCEPT !.page = {}]
           m == [q EXCEPT !.ladder = k]
           u == [m EXCEPT !.at = "recheck"]
           v(h) == [m EXCEPT !.at = "apply", !.bump = <<h, canon[h]>>, !.landed = FALSE]
<1>1. left' = left /\ row' = row /\ past' = past /\ Chain' = Chain /\ q.at = "ladder"
  BY ChainStands, Zenon DEF Ladder
<1>2. \/ pass' = [pass EXCEPT ![p] = LegEnds(r, TRUE)]
      \/ pass' = [pass EXCEPT ![p] = u]
      \/ \E h \in Height : canon[h] # 0 /\ pass' = [pass EXCEPT ![p] = v(h)]
  BY Zenon DEF Ladder
<1>3. Whole(q) /\ Bare(c, q) /\ ChainOK(c) /\ Paged(c, q)
  BY <1>1, Knows, KnowsPage, Zenon DEF Walking
<1> HIDE DEF k
<1>4. CASE pass' = [pass EXCEPT ![p] = LegEnds(r, TRUE)]
  <2>1. /\ IsRecord(r, PassFields) /\ r.judged = q.judged /\ r.leg = q.leg /\ r.faulted = q.faulted
        /\ r.st = q.st /\ r.buffer = q.buffer /\ r.ends = q.ends
    BY <1>3, Zenon DEF Whole, IsRecord, PassFields
  <2> HIDE DEF r, q
  <2>2. Whole(r) /\ Bare(c, r)
    BY <1>3, <2>1, Zenon DEF Whole, Bare
  <2>3. JudgedTo(c, r) /\ (r.leg \in 1..3 => IsRecord(r.judged, LegFields))
    BY <1>3, <2>1, Zenon DEF Paged, JudgedTo
  <2>4. PassRows(c, LegEnds(r, TRUE))
    BY <1>3, <2>2, <2>3, LegEndsRows, Zenon
  <2> QED
    BY <1>1, <1>4, <2>4, PassAlone, Zenon
<1>5. CASE pass' = [pass EXCEPT ![p] = u]
  <2>1. /\ u.at = "recheck" /\ u.page = q.page /\ u.judged = q.judged /\ u.leg = q.leg /\ u.full = q.full
        /\ u.faulted = q.faulted /\ u.st = q.st /\ u.buffer = q.buffer /\ u.ends = q.ends
    BY <1>3, Zenon DEF Whole, IsRecord, PassFields
  <2> HIDE DEF u, q
  <2>2. PassRows(c, u)
    BY <1>3, <2>1, Stays, Zenon
  <2> QED
    BY <1>1, <1>5, <2>2, PassAlone, Zenon
<1>6. CASE \E h \in Height : canon[h] # 0 /\ pass' = [pass EXCEPT ![p] = v(h)]
  <2>1. PICK h \in Height : canon[h] # 0 /\ pass' = [pass EXCEPT ![p] = v(h)]
    BY <1>6, Zenon
  <2> DEFINE w == v(h)
  <2>2. /\ w.at = "apply" /\ w.page = q.page /\ w.judged = q.judged /\ w.leg = q.leg /\ w.full = q.full
        /\ w.faulted = q.faulted /\ w.st = q.st /\ w.buffer = q.buffer /\ w.ends = q.ends
        /\ w.bump = <<h, canon[h]>> /\ w.landed = FALSE
    BY <1>3, Zenon DEF Whole, IsRecord, PassFields
  <2>3. pass' = [pass EXCEPT ![p] = w]
    BY <2>1, Zenon
  <2> HIDE DEF w, q, v
  <2>4. canon[h] \in Block /\ c.gone[h][canon[h]] = 0
    BY <1>3, <2>1, ChainIs, Zenon DEF ChainOK
  <2>5. w.bump \in Height \X Block /\ c.gone[w.bump[1]][w.bump[2]] = 0
    BY <2>2, <2>4
  <2>6. Bare(c, w) /\ Paged(c, w)
    BY <1>3, <2>2, SameBare, SamePaged, Zenon DEF Bare
  <2>7. PassRows(c, w)
    BY <2>2, <2>5, <2>6, Zenon DEF PassRows, Stages
  <2> QED
    BY <1>1, <2>3, <2>7, PassAlone, Zenon
<1> QED
  BY <1>2, <1>4, <1>5, <1>6, Zenon

\* The pass without the proof it held.
LEMMA Unbumped ==
  ASSUME NEW q, Whole(q)
  PROVE  LET r == [q EXCEPT !.bump = <<0, 0>>]
         IN  /\ Whole(r) /\ r.page = q.page /\ r.judged = q.judged /\ r.leg = q.leg /\ r.full = q.full
             /\ r.faulted = q.faulted /\ r.st = q.st /\ r.buffer = q.buffer /\ r.ends = q.ends
<1> DEFINE r == [q EXCEPT !.bump = <<0, 0>>]
<1>1. /\ IsRecord(r, PassFields) /\ r.page = q.page /\ r.judged = q.judged /\ r.leg = q.leg
      /\ r.full = q.full /\ r.faulted = q.faulted /\ r.st = q.st /\ r.buffer = q.buffer /\ r.ends = q.ends
  BY Zenon DEF Whole, IsRecord, PassFields
<1> HIDE DEF r
<1>2. Whole(r)
  BY <1>1, Zenon DEF Whole
<1> QED
  BY <1>1, <1>2, Zenon DEF r

\* Such a write keeps what is known of the rows.
LEMMA StoresRows ==
  ASSUME Inv, RowsInv, NEW x \in Row, NEW L, Written(x, L)
  PROVE  /\ ChainOK(Chain') /\ Steady(Chain, Chain') /\ past'.done = past.done
         /\ Chain'.late = L /\ Chain'.gone = gone /\ Chain'.proof = proof' /\ Chain'.held = held'
<1> DEFINE c == Chain
           d == Chain'
<1>1. past'.late = L /\ past'.done = past.done
  BY LateIs, Zenon DEF Written
<1>2. /\ c.head = head /\ c.canon = canon /\ c.gone = gone /\ c.proof = proof /\ c.held = held
      /\ c.late = past.late /\ c.leg = left.leg
  BY ChainIs, Zenon
<1>3. /\ d.head = head /\ d.canon = canon /\ d.gone = gone /\ d.proof = proof' /\ d.held = held'
      /\ d.late = L /\ d.leg = left.leg
  BY <1>1, ChainBecomes, Zenon DEF Written
<1>4. TakenBy(d, x) = gone[proof'[x][1]][proof'[x][2]] /\ ChainOK(c)
  BY <1>3, Zenon DEF TakenBy, RowsInv
<1> HIDE DEF c, d
<1>5. OneRow(c, d, x)
  BY <1>2, <1>3, Zenon DEF Written, OneRow
<1>6. ChainOK(d) /\ Steady(c, d)
  BY <1>2, <1>3, <1>4, <1>5, RowMoves, Zenon DEF Written
<1> QED
  BY <1>1, <1>3, <1>6, Zenon DEF c, d

\* A row that is written is late, or on a block of the chain, or as it was.
LEMMA RestsRows ==
  ASSUME Inv, RowsInv, NEW x \in Row, NEW b \in Height \X Block, Rests(x),
         proof' \in {proof, [proof EXCEPT ![x] = b]}, held' \in {held, [held EXCEPT ![x] = b[1]]},
         head' = head, canon' = canon, gone' = gone, left'.leg = left.leg
  PROVE  /\ ChainOK(Chain') /\ Steady(Chain, Chain') /\ past'.done = past.done
         /\ Chain'.gone = gone /\ Chain'.proof = proof'
         /\ <<proof', held'>> # <<proof, held>> => \A e : ~Stale(Chain', x, e)
<1> DEFINE g == gone[proof'[x][1]][proof'[x][2]]
           same == <<proof', held'>> = <<proof, held>>
           L == CASE g = 0 -> past.late \ {x}
                  [] OTHER -> IF same THEN past.late ELSE past.late \cup {x}
<1>1. past' = [past EXCEPT !.late = L]
  BY Zenon DEF Rests
<1>2. proof \in [Row -> Height \X Block] /\ held \in [Row -> Height \cup {0}]
  BY ChainIs, Zenon DEF RowsInv, ChainOK
<1>3. /\ proof' \in [Row -> Height \X Block] /\ held' \in [Row -> Height \cup {0}]
      /\ \A y \in Row \ {x} : proof'[y] = proof[y] /\ held'[y] = held[y]
  BY <1>2, Zenon
<1>4. /\ \A y \in Row \ {x} : y \in L <=> y \in past.late
      /\ g = 0 \/ x \in L \/ (same /\ L = past.late)
      /\ ~same => g = 0 \/ x \in L
  BY Zenon
<1>5. same => proof' = proof /\ held' = held
  BY Zenon
<1> HIDE DEF L, same
<1>6. Written(x, L)
  BY <1>1, <1>3, <1>4, <1>5, Zenon DEF Written
<1>7. /\ ChainOK(Chain') /\ Steady(Chain, Chain') /\ past'.done = past.done
      /\ Chain'.late = L /\ Chain'.gone = gone /\ Chain'.proof = proof'
  BY <1>6, StoresRows, Zenon
<1>8. ~same => \A e : ~Stale(Chain', x, e)
  BY <1>4, <1>7, Zenon DEF Stale, TakenBy
<1> QED
  BY <1>7, <1>8, Zenon DEF same

\* A row is moved to the height of the proof that was read.
LEMMA ReanchorRows ==
  ASSUME Inv, RowsInv, NEW p \in Pass, Reanchor(p)
  PROVE  RowsInv'
<1> DEFINE q == pass[p]
           x == First(q.page).row
           b == q.bump
           c == Chain
           d == Chain'
           r == [q EXCEPT !.bump = <<0, 0>>]
<1>1. /\ q.at = "reanchor" /\ held' = IF held[x] # 0 THEN [held EXCEPT ![x] = b[1]] ELSE held
      /\ Rests(x) /\ pass' = [pass EXCEPT ![p] = NextRow(r)]
      /\ left' = left /\ head' = head /\ canon' = canon /\ gone' = gone /\ proof' = proof /\ row' = row
  BY Zenon DEF Reanchor, Filed
<1>2. /\ Whole(q) /\ Bare(c, q) /\ ChainOK(c) /\ Paged(c, q) /\ x \in Row
      /\ q.st.pending.cursor \in 0..c.head
  BY <1>1, Knows, KnowsPage, Zenon DEF Walking
<1>3. b \in Height \X Block /\ (~q.faulted => ~Stale(c, x, q.st.pending.cursor))
  BY <1>1, Knows, Zenon DEF PassRows
<1> HIDE DEF q, x, b, r
<1>4. ChainOK(d) /\ Steady(c, d) /\ past'.done = past.done
  <2>1. held' \in {held, [held EXCEPT ![x] = b[1]]} /\ proof' \in {proof, [proof EXCEPT ![x] = b]}
    BY <1>1, Zenon
  <2> QED
    BY <1>1, <1>2, <1>3, <2>1, RestsRows, Zenon
<1> HIDE DEF c, d
<1>5. Bare(d, q) /\ Paged(d, q)
  BY <1>2, <1>4, BareStays, PagedStays
<1>6. ~q.faulted => ~Owed(d, q.st.pending, x)
  BY <1>2, <1>3, <1>4, Zenon DEF Owed, Steady
<1>7. PassRows(d, NextRow(r))
  BY <1>2, <1>4, <1>5, <1>6, Unbumped, GoesOn, Zenon DEF r, x
<1> QED
  BY <1>1, <1>4, <1>7, OnePass, Zenon DEF c, d

\* The pass goes on to its next write, or past the row if one has landed.
LEMMA OnwardRows ==
  ASSUME NEW c, NEW q, ChainOK(c), Whole(q), Bare(c, q), Paged(c, q), q.at \in Applying,
         q.bump \in Height \X Block,
         c.gone[q.bump[1]][q.bump[2]] = 0 \/ c.gone[q.bump[1]][q.bump[2]] > q.st.pending.cursor,
         q.landed => ~Stale(c, First(q.page).row, q.st.pending.cursor)
  PROVE  PassRows(c, Onward(q))
<1> DEFINE n == [q EXCEPT !.bump = <<0, 0>>, !.landed = FALSE]
           w(a) == [q EXCEPT !.at = a]
<1>1. ASSUME NEW a \in {"confirm", "move", "reread"}
      PROVE  PassRows(c, w(a))
  <2> DEFINE r == w(a)
  <2>1. /\ r.at = a /\ r.page = q.page /\ r.judged = q.judged /\ r.leg = q.leg /\ r.full = q.full
        /\ r.faulted = q.faulted /\ r.st = q.st /\ r.buffer = q.buffer /\ r.ends = q.ends
        /\ r.bump = q.bump /\ r.landed = q.landed
    BY Zenon DEF Whole, IsRecord, PassFields
  <2> HIDE DEF r
  <2>2. Bare(c, r) /\ Paged(c, r)
    BY <2>1, SameBare, SamePaged, Zenon DEF Bare
  <2>3. r.at \in Stages
    BY <2>1, Zenon DEF Stages
  <2>4. PassRows(c, r)
    BY <2>1, <2>2, <2>3, Zenon DEF PassRows
  <2> QED
    BY <2>4, Zenon DEF r
<1>2. CASE q.at = "apply"
  BY <1>1, <1>2, Zenon DEF Onward
<1>3. CASE q.at = "confirm"
  BY <1>1, <1>3, Zenon DEF Onward
<1>4. CASE q.at = "move" /\ ~q.landed
  BY <1>1, <1>4, Zenon DEF Onward
<1>5. CASE q.at = "move" /\ q.landed
  <2>1. /\ IsRecord(n, PassFields) /\ n.page = q.page /\ n.judged = q.judged /\ n.leg = q.leg
        /\ n.full = q.full /\ n.faulted = q.faulted /\ n.st = q.st /\ n.buffer = q.buffer /\ n.ends = q.ends
    BY Zenon DEF Whole, IsRecord, PassFields
  <2>2. Onward(q) = NextRow(n)
    BY <1>5, Zenon DEF Onward
  <2> HIDE DEF n
  <2>3. Whole(n)
    BY <2>1, Zenon DEF Whole
  <2>4. ~Owed(c, q.st.pending, First(q.page).row)
    BY <1>5, Zenon DEF Owed
  <2> QED
    BY <2>1, <2>2, <2>3, <2>4, GoesOn, Zenon
<1> QED
  BY <1>2, <1>3, <1>4, <1>5, Zenon DEF Applying

\* The writes of a proof the couriers served: what they do to the row, and what the pass
\* knew of it.
LEMMA AppliesRows ==
  ASSUME Inv, RowsInv, NEW p \in Pass, pass[p].at \in Applying, Rests(First(pass[p].page).row),
         \/ proof' = Proved(pass[p]) /\ held' = Placed(pass[p])
         \/ proof' = proof /\ held' = held,
         head' = head, canon' = canon, gone' = gone, left'.leg = left.leg
  PROVE  LET q == pass[p]
             x == First(q.page).row
             d == Chain'
             e == q.st.pending.cursor
         IN  /\ ChainOK(d) /\ Steady(Chain, d) /\ past'.done = past.done
             /\ Whole(q) /\ Bare(d, q) /\ Paged(d, q) /\ q.bump \in Height \X Block
             /\ d.gone[q.bump[1]][q.bump[2]] = 0 \/ d.gone[q.bump[1]][q.bump[2]] > e
             /\ q.landed => ~Stale(d, x, e)
             /\ <<proof', held'>> # <<proof, held>> => ~Stale(d, x, e)
             /\ q.at = "apply" /\ proof' = Proved(q) => ~Stale(d, x, e)
<1> DEFINE q == pass[p]
           x == First(q.page).row
           b == q.bump
           c == Chain
           d == Chain'
           e == q.st.pending.cursor
<1>1. /\ Whole(q) /\ Bare(c, q) /\ ChainOK(c) /\ Paged(c, q) /\ x \in Row /\ PassRows(c, q)
      /\ e \in 0..c.head
  BY Knows, KnowsPage, Zenon DEF Walking, Applying
<1>2. /\ b \in Height \X Block /\ c.gone = gone /\ (gone[b[1]][b[2]] = 0 \/ gone[b[1]][b[2]] > e)
      /\ q.landed => ~Stale(c, x, e)
  BY <1>1, ChainIs, Zenon DEF PassRows, Couriered
<1>3. proof' \in {proof, [proof EXCEPT ![x] = b]} /\ held' \in {held, [held EXCEPT ![x] = b[1]]}
  BY Zenon DEF Proved, Placed, Filed
<1>4. q.at = "apply" => Proved(q) = [proof EXCEPT ![x] = b]
  BY Zenon DEF Proved
<1>5. proof \in [Row -> Height \X Block]
  BY <1>1, ChainIs, Zenon DEF ChainOK
<1> HIDE DEF q, x, b, e
<1>6. /\ ChainOK(d) /\ Steady(c, d) /\ past'.done = past.done /\ d.gone = gone /\ d.proof = proof'
      /\ <<proof', held'>> # <<proof, held>> => ~Stale(d, x, e)
  BY <1>1, <1>2, <1>3, RestsRows, Zenon DEF x, q
<1> HIDE DEF c, d
<1>7. Bare(d, q) /\ Paged(d, q)
  BY <1>1, <1>6, BareStays, PagedStays, Zenon
<1>8. q.landed => ~Stale(d, x, e)
  BY <1>1, <1>2, <1>6, Zenon DEF Steady
<1>9. q.at = "apply" /\ proof' = Proved(q) => ~Stale(d, x, e)
  <2>1. SUFFICES ASSUME q.at = "apply", proof' = Proved(q) PROVE ~Stale(d, x, e)
    BY Zenon
  <2>2. d.proof[x] = b
    BY <1>1, <1>4, <1>5, <1>6, <2>1, Zenon
  <2> QED
    BY <1>2, <1>6, <2>2, Zenon DEF Stale, TakenBy
<1> QED
  BY <1>1, <1>2, <1>6, <1>7, <1>8, <1>9, Zenon DEF q, x, b, c, d, e

\* A write of the proof lands, or finds nothing to write.
LEMMA ApplyRows ==
  ASSUME Inv, RowsInv, NEW p \in Pass, Apply(p)
  PROVE  RowsInv'
<1> DEFINE q == pass[p]
           x == First(q.page).row
           d == Chain'
           e == q.st.pending.cursor
           wrote == <<proof', held'>> # <<proof, held>>
<1>1. /\ q.at \in Applying /\ proof' = Proved(q) /\ held' = Placed(q) /\ Rests(x)
      /\ left' = left /\ head' = head /\ canon' = canon /\ gone' = gone /\ row' = row
  BY Zenon DEF Apply
<1>2. PICK landed \in {wrote, wrote \/ q.at = "apply"} :
        pass' = [pass EXCEPT ![p] = Onward([pass[p] EXCEPT !.landed = pass[p].landed \/ landed])]
  BY Zenon DEF Apply
<1>3. /\ ChainOK(d) /\ Steady(Chain, d) /\ past'.done = past.done
      /\ Whole(q) /\ Bare(d, q) /\ Paged(d, q) /\ q.bump \in Height \X Block
      /\ d.gone[q.bump[1]][q.bump[2]] = 0 \/ d.gone[q.bump[1]][q.bump[2]] > e
      /\ q.landed => ~Stale(d, x, e)
      /\ wrote => ~Stale(d, x, e)
      /\ q.at = "apply" => ~Stale(d, x, e)
  BY <1>1, AppliesRows, Zenon
<1> DEFINE k == q.landed \/ landed
           r == [q EXCEPT !.landed = k]
<1>4. k => ~Stale(d, x, e)
  BY <1>2, <1>3, Zenon
<1>5. pass' = [pass EXCEPT ![p] = Onward(r)]
  BY <1>2, Zenon
<1> HIDE DEF k
<1>6. /\ IsRecord(r, PassFields) /\ r.page = q.page /\ r.judged = q.judged /\ r.leg = q.leg /\ r.full = q.full
      /\ r.faulted = q.faulted /\ r.st = q.st /\ r.buffer = q.buffer /\ r.ends = q.ends
      /\ r.bump = q.bump /\ r.landed = k /\ r.at = q.at
  BY <1>3, Zenon DEF Whole, IsRecord, PassFields
<1> HIDE DEF r, d
<1>7. Whole(r) /\ Bare(d, r) /\ Paged(d, r)
  BY <1>3, <1>6, SameBare, SamePaged, Zenon DEF Whole, Bare
<1>8. PassRows(d, Onward(r))
  BY <1>1, <1>3, <1>4, <1>6, <1>7, OnwardRows, Zenon
<1> QED
  BY <1>1, <1>3, <1>5, <1>8, OnePass, Zenon DEF d

\* A write of it faults, made or not.
LEMMA ApplyFaultsRows ==
  ASSUME Inv, RowsInv, NEW p \in Pass, ApplyFaults(p)
  PROVE  RowsInv'
<1> DEFINE q == pass[p]
           x == First(q.page).row
           d == Chain'
           e == q.st.pending.cursor
<1>1. /\ q.at \in Applying /\ Rests(x) /\ head' = head /\ canon' = canon /\ gone' = gone /\ row' = row
      /\ \/ proof' = Proved(q) /\ held' = Placed(q)
         \/ proof' = proof /\ held' = held
      /\ left'.leg = left.leg /\ left'.rows = left.rows
      /\ pass' = [pass EXCEPT ![p] = Onward(q)]
  BY SpendRows, Zenon DEF ApplyFaults
<1>2. /\ ChainOK(d) /\ Steady(Chain, d) /\ past'.done = past.done
      /\ Whole(q) /\ Bare(d, q) /\ Paged(d, q) /\ q.bump \in Height \X Block
      /\ d.gone[q.bump[1]][q.bump[2]] = 0 \/ d.gone[q.bump[1]][q.bump[2]] > e
      /\ q.landed => ~Stale(d, x, e)
  BY <1>1, AppliesRows, Zenon
<1> HIDE DEF d
<1>3. PassRows(d, Onward(q))
  BY <1>1, <1>2, OnwardRows, Zenon
<1> QED
  BY <1>1, <1>2, <1>3, OnePass, Zenon DEF d

\* Nothing of it was written: the row's proof is the couriers' one already, or it is
\* judged once more.
LEMMA RereadRows ==
  ASSUME Inv, RowsInv, NEW p \in Pass, Reread(p)
  PROVE  RowsInv'
<1> DEFINE q == pass[p]
           x == First(q.page).row
           b == q.bump
           c == Chain
           e == q.st.pending.cursor
           r == [q EXCEPT !.bump = <<0, 0>>]
           u == [r EXCEPT !.at = "recheck"]
           t == IF proof[First(r.page).row] = b THEN NextRow(r) ELSE u
<1>1. /\ q.at = "reread" /\ left' = left /\ row' = row /\ past' = past /\ Chain' = Chain
      /\ pass' = [pass EXCEPT ![p] = t]
  BY ChainStands, Zenon DEF Reread
<1>2. Whole(q) /\ Bare(c, q) /\ ChainOK(c) /\ Paged(c, q) /\ PassRows(c, q)
  BY <1>1, Knows, KnowsPage, Zenon DEF Walking
<1>3. c.proof = proof /\ (c.gone[b[1]][b[2]] = 0 \/ c.gone[b[1]][b[2]] > e)
  BY <1>1, <1>2, ChainIs, Zenon DEF PassRows, Couriered
<1>4. /\ Whole(r) /\ r.page = q.page /\ r.judged = q.judged /\ r.leg = q.leg /\ r.full = q.full
      /\ r.faulted = q.faulted /\ r.st = q.st /\ r.buffer = q.buffer /\ r.ends = q.ends
  BY <1>2, Unbumped, Zenon
<1> HIDE DEF r
<1>5. /\ u.at = "recheck" /\ u.page = r.page /\ u.judged = r.judged /\ u.leg = r.leg /\ u.full = r.full
      /\ u.faulted = r.faulted /\ u.st = r.st /\ u.buffer = r.buffer /\ u.ends = r.ends
  BY <1>4, Zenon DEF Whole, IsRecord, PassFields
<1> HIDE DEF u, c, b, q
<1>6. CASE proof[x] = b
  <2>1. ~Owed(c, q.st.pending, x)
    BY <1>3, <1>6, Zenon DEF Owed, Stale, TakenBy
  <2>2. PassRows(c, NextRow(r))
    BY <1>2, <1>4, <2>1, GoesOn, Zenon
  <2>3. PassRows(c, t)
    BY <1>4, <1>6, <2>2, Zenon
  <2> HIDE DEF t
  <2> QED
    BY <1>1, <2>3, PassAlone, Zenon DEF c
<1>7. CASE proof[x] # b
  <2>1. PassRows(c, u)
    BY <1>2, <1>4, <1>5, Stays, Zenon
  <2>2. PassRows(c, t)
    BY <1>4, <1>7, <2>1, Zenon
  <2> HIDE DEF t
  <2> QED
    BY <1>1, <2>2, PassAlone, Zenon DEF c
<1> QED
  BY <1>6, <1>7, Zenon

\* The stored proof is judged once more.
LEMMA RecheckRows ==
  ASSUME Inv, RowsInv, NEW p \in Pass, Recheck(p)
  PROVE  RowsInv'
<1> DEFINE o == pass[p]
           x == First(o.page).row
           b == proof[x]
           q == Memo(o, b)
           u == [q EXCEPT !.at = "demote"]
           t == IF Valid(q, b) THEN NextRow(q) ELSE u
           c == Chain
           d == Chain'
<1>1. /\ pass' = [pass EXCEPT ![p] = t] /\ o.at = "recheck" /\ Stood(q, b, x)
      /\ left' = left /\ head' = head /\ row' = row /\ canon' = canon /\ gone' = gone /\ proof' = proof
      /\ held' = held
  BY Zenon DEF Recheck
<1>2. Whole(o) /\ Bare(c, o) /\ ChainOK(c) /\ Paged(c, o) /\ x \in Row
  BY <1>1, Knows, KnowsPage, Zenon DEF Walking
<1>3. b \in Height \X Block
  BY <1>2, ChainIs, Zenon DEF ChainOK
<1>4. /\ Whole(q) /\ q.page = o.page /\ q.judged = o.judged /\ q.leg = o.leg /\ q.full = o.full
      /\ q.faulted = o.faulted /\ q.st = o.st /\ q.buffer = o.buffer /\ q.ends = o.ends
  BY <1>2, MemoRows, Zenon
<1> HIDE DEF q
<1>5. /\ u.at = "demote" /\ u.page = q.page /\ u.judged = q.judged /\ u.leg = q.leg /\ u.full = q.full
      /\ u.faulted = q.faulted /\ u.st = q.st /\ u.buffer = q.buffer /\ u.ends = q.ends
  BY <1>4, Zenon DEF Whole, IsRecord, PassFields
<1> HIDE DEF u, o, x
<1>6. /\ ChainOK(d) /\ Steady(c, d) /\ past'.done = past.done
      /\ Valid(q, b) => \A e : ~Stale(d, x, e)
  BY <1>1, <1>2, <1>3, VerdictRows, Zenon
<1> HIDE DEF c, d
<1>7. Bare(d, o) /\ Paged(d, o)
  BY <1>2, <1>6, BareStays, PagedStays, Zenon
<1>8. PassRows(d, t)
  <2>1. CASE Valid(q, b)
    <3>1. PassRows(d, NextRow(q))
      BY <1>4, <1>6, <1>7, <2>1, GoesOn, Zenon DEF Owed, x
    <3> QED
      BY <2>1, <3>1, Zenon
  <2>2. CASE ~Valid(q, b)
    <3>1. PassRows(d, u)
      BY <1>4, <1>5, <1>7, Stays, Zenon
    <3> QED
      BY <2>2, <3>1, Zenon
  <2> QED
    BY <2>1, <2>2, Zenon
<1> HIDE DEF t
<1> QED
  BY <1>1, <1>6, <1>8, OnePass, Zenon DEF c, d, o

\* A row is withdrawn, or nothing is.
LEMMA HeldRows ==
  ASSUME Inv, RowsInv, NEW x \in Row, held' \in {held, [held EXCEPT ![x] = 0]},
         left' = left, head' = head, canon' = canon, gone' = gone, proof' = proof, past' = past
  PROVE  ChainOK(Chain') /\ Steady(Chain, Chain') /\ Chain'.held = held'
<1> DEFINE c == Chain
           d == Chain'
<1>1. /\ c.head = head /\ c.canon = canon /\ c.gone = gone /\ c.proof = proof /\ c.held = held
      /\ c.late = past.late /\ c.leg = left.leg
  BY ChainIs, Zenon
<1>2. /\ d.head = head /\ d.canon = canon /\ d.gone = gone /\ d.proof = proof /\ d.held = held'
      /\ d.late = past.late /\ d.leg = left.leg
  BY ChainBecomes, Zenon
<1>3. /\ ChainOK(c) /\ proof \in [Row -> Height \X Block] /\ held \in [Row -> Height \cup {0}]
  BY <1>1, Zenon DEF RowsInv, ChainOK
<1>4. held' \in [Row -> Height \cup {0}] /\ held'[x] \in {0, held[x]} /\ \A y \in Row \ {x} : held'[y] = held[y]
  BY <1>3, Zenon
<1> HIDE DEF c, d
<1>5. OneRow(c, d, x)
  BY <1>1, <1>2, <1>3, <1>4, Zenon DEF OneRow
<1>6. ChainOK(d) /\ Steady(c, d)
  <2>1. \/ d.held[x] = 0 \/ x \in d.late
        \/ d.held[x] = c.held[x] /\ d.proof[x] = c.proof[x] /\ x \notin c.late
    BY <1>1, <1>2, <1>3, <1>4, Zenon
  <2> QED
    BY <1>3, <1>5, <2>1, RowMoves, Zenon
<1> QED
  BY <1>2, <1>6, Zenon DEF c, d

\* No proof was found, and the row is withdrawn if it stands where the page had it.
LEMMA DemoteRows ==
  ASSUME Inv, RowsInv, NEW p \in Pass, Demote(p)
  PROVE  RowsInv'
<1> DEFINE q == pass[p]
           x == First(q.page)
           c == Chain
           d == Chain'
<1>1. /\ q.at = "demote" /\ held' = Withdrawn(q) /\ pass' = [pass EXCEPT ![p] = NextRow(q)]
      /\ left' = left /\ head' = head /\ canon' = canon /\ gone' = gone /\ proof' = proof
      /\ row' = row /\ past' = past
  BY Zenon DEF Demote
<1>2. Whole(q) /\ Bare(c, q) /\ ChainOK(c) /\ Paged(c, q) /\ x.row \in Row /\ x \in q.page
  BY <1>1, Knows, KnowsPage, Zenon DEF Walking
<1> HIDE DEF q
<1>3. held' = IF q.leg = 1 /\ held[x.row] # x.height THEN held ELSE [held EXCEPT ![x.row] = 0]
  BY <1>1, Zenon DEF Withdrawn
<1>4. ChainOK(d) /\ Steady(c, d) /\ d.held = held'
  BY <1>1, <1>2, <1>3, HeldRows, Zenon
<1>5. held \in [Row -> Height \cup {0}]
  BY <1>2, ChainIs, Zenon DEF ChainOK
<1> HIDE DEF c, d
<1>6. Bare(d, q) /\ Paged(d, q)
  BY <1>2, <1>4, BareStays, PagedStays, Zenon
<1>7. ASSUME ~q.faulted, Owed(d, q.st.pending, x.row), d.leg[x.row] = q.leg
      PROVE  FALSE
  <2>1. x.height = held'[x.row] /\ held'[x.row] # 0
    BY <1>2, <1>4, <1>6, <1>7, JudgedEntry
  <2> QED
    BY <1>2, <1>3, <1>5, <2>1, Zenon
<1>8. PassRows(d, NextRow(q))
  BY <1>2, <1>4, <1>6, <1>7, NextRowRows, Zenon
<1> QED
  BY <1>1, <1>4, <1>8, OnePass, Zenon DEF c, d, q

\* A faulted row leaves its leg a faulted one, which nothing is concluded from.
LEMMA RowFaultsRows ==
  ASSUME Inv, RowsInv, NEW p \in Pass, RowFaults(p)
  PROVE  RowsInv'
<1> DEFINE q == pass[p]
           x == First(q.page).row
           c == Chain
           d == Chain'
           k == IF q.at = "ladder" THEN q.ladder - 1 ELSE q.ladder
           r == [q EXCEPT !.faulted = TRUE, !.bump = <<0, 0>>, !.ladder = k]
<1>1. /\ q.at \in Walking \ {"leg"} /\ pass' = [pass EXCEPT ![p] = NextRow(r)]
      /\ held' \in {held, Withdrawn(q)}
      /\ left' = left /\ head' = head /\ canon' = canon /\ gone' = gone /\ proof' = proof
      /\ row' = row /\ past' = past
  BY Zenon DEF RowFaults, Walking
<1>2. Whole(q) /\ Bare(c, q) /\ ChainOK(c) /\ Paged(c, q) /\ x \in Row
  BY <1>1, Knows, KnowsPage, Zenon
<1>3. Withdrawn(q) \in {held, [held EXCEPT ![x] = 0]}
  BY Zenon DEF Withdrawn
<1>4. ChainOK(d) /\ Steady(c, d)
  BY <1>1, <1>2, <1>3, HeldRows, Zenon
<1> HIDE DEF k
<1>5. /\ IsRecord(r, PassFields) /\ r.page = q.page /\ r.judged = q.judged /\ r.leg = q.leg
      /\ r.faulted = TRUE /\ r.st = q.st /\ r.buffer = q.buffer /\ r.ends = q.ends
  BY <1>2, Zenon DEF Whole, IsRecord, PassFields
<1> HIDE DEF r, q, x, c, d
<1>6. Bare(d, q) /\ Paged(d, q)
  BY <1>2, <1>4, BareStays, PagedStays, Zenon
<1>7. Whole(r) /\ Bare(d, r)
  BY <1>2, <1>5, <1>6, Zenon DEF Whole, Bare
<1>8. Paged(d, r)
  BY <1>5, <1>6, Zenon DEF Paged, JudgedTo, Remains
<1>9. PassRows(d, NextRow(r))
  BY <1>4, <1>5, <1>7, <1>8, NextRowRows, Zenon
<1> QED
  BY <1>1, <1>4, <1>9, OnePass, Zenon DEF c, d, q

-----------------------------------------------------------------------------
(* The theorems. *)

\* At first no block has been taken off the chain, and nothing is in hand.
LEMMA RowsInit ==
  ASSUME Init
  PROVE  RowsInv
<1>1. left \in Instances /\ head = 0 /\ past.late = {} /\ past.done = {} /\ row.st = Seeded(0)
  BY Zenon DEF Init
<1>2. left.leg \in [Row -> 1..3] /\ left.proof \in [Row -> Height \X Block] /\ left.rows \in Nat \ {0}
  BY <1>1, ChainFeedAssumption, Zenon
<1>3. /\ canon = [h \in Height |-> 1] /\ gone = [h \in Height |-> [b \in Block |-> 0]]
      /\ proof = left.proof /\ held = [r \in Row |-> proof[r][1]] /\ pass = [p \in Pass |-> IdlePass]
  BY Zenon DEF Init
<1>4. /\ canon \in [Height -> Block \cup {0}] /\ gone \in [Height -> [Block -> Nat]]
      /\ held \in [Row -> Height \cup {0}]
      /\ \A h \in Height : gone[h][canon[h]] = 0
  BY <1>2, <1>3, ChainFeedAssumption, Zenon
<1>5. ChainOK(Chain)
  BY <1>1, <1>2, <1>3, <1>4, ChainIs DEF ChainOK
<1>6. Walked(Chain, row.st.pending)
  <2>1. row.st.pending = NoWindow
    BY <1>1 DEF Seeded
  <2> QED
    BY <1>5, <2>1, NoWindowWalked, Zenon
<1>7. \A p \in Pass : PassRows(Chain, pass[p])
  BY <1>3, <1>5, IdleRows, Zenon
<1> QED
  BY <1>1, <1>2, <1>5, <1>6, <1>7, Zenon DEF RowsInv

\* Every step keeps what is known of the rows.
LEMMA RowsStep ==
  ASSUME Inv, RowsInv, [Next]_vars
  PROVE  RowsInv'
<1>1. CASE UNCHANGED vars
  <2>1. Chain' = Chain /\ left' = left /\ row' = row /\ past' = past /\ pass' = pass
    BY <1>1, ChainStands, Zenon DEF vars
  <2> QED
    BY <2>1, Zenon DEF RowsInv
<1>2. CASE Publish
  BY <1>2, PublishRows, Zenon
<1>3. ASSUME NEW p \in Pass, Step(p)
      PROVE  RowsInv'
  <2>1. CASE Start(p) \/ Page(p) \/ ReadFaults(p) \/ Take(p)
    BY <2>1, StartRows, PageRows, ReadFaultsRows, TakeRows, Zenon
  <2>2. CASE WriteNothing(p) \/ WriteLands(p) \/ WriteLoses(p) \/ WriteFaults(p)
    BY <2>2, WriteRows, Zenon
  <2>3. CASE Leg(p) \/ LegReadFaults(p) \/ JudgeRow(p) \/ Ladder(p) \/ Reanchor(p)
    BY <2>3, LegRows, LegReadFaultsRows, JudgeRowRows, LadderRows, ReanchorRows
  <2>4. CASE Apply(p) \/ ApplyFaults(p) \/ Reread(p) \/ Recheck(p) \/ Demote(p) \/ RowFaults(p)
    BY <2>4, ApplyRows, ApplyFaultsRows, RereadRows, RecheckRows, DemoteRows, RowFaultsRows
  <2> QED
    BY <1>3, <2>1, <2>2, <2>3, <2>4, Zenon DEF Step
<1>4. ASSUME NEW p \in Pass, Drop(p)
      PROVE  RowsInv'
  BY <1>4, DropRows, Zenon
<1>5. CASE LeverReads \/ LeverLands \/ LeverLoses
  BY <1>5, LeverRows, Zenon
<1> QED
  BY <1>1, <1>2, <1>3, <1>4, <1>5 DEF Next

\* So what is known of the rows holds in every state, if Inv does.
LEMMA RowsHold == Spec /\ []Inv => []RowsInv
<1>1. Init => RowsInv
  BY RowsInit, Zenon
<1>2. Inv /\ RowsInv /\ [Next]_vars => RowsInv'
  BY RowsStep, Zenon
<1> QED
  BY <1>1, <1>2, PTL DEF Spec
=============================================================================
