-------------------------- MODULE OwedMarks_proofs --------------------------
(* Proofs about OwedMarks, for any games, pairs, consumers and bounds: whoever judges,
   a mark is deleted only when the served row is judged over the write that it was
   raised for, and a press that a read serves misses no write before the read.

   What is known of a judge is stated over Now, the state beside its own record. *)
EXTENDS OwedMarks, TLAPS

-----------------------------------------------------------------------------
(* What is known of every state. *)

\* What the claims about a judge depend on, beside its own record.
Now == [ver |-> ver, seq |-> seq, mark |-> mark, rows |-> rows, row |-> actor.row,
        covered |-> actor.covered, held |-> actor.held, warm |-> actor.warm,
        paged |-> actor.paged, boot |-> job["boot"], phase |-> left.phase]

Typed(c) ==
  /\ c.ver \in [Pair -> Nat] /\ c.seq \in Nat
  /\ c.mark \in [Game -> [Pair -> Nat]] /\ c.rows \in [Game -> [Pair -> Nat]]
  /\ c.row \in [Game -> [Pair -> Nat]] /\ c.covered \in [Game -> Nat]
  /\ c.held \subseteq Game /\ c.warm \in BOOLEAN /\ c.paged \in BOOLEAN
  /\ c.boot \in JobRecord /\ c.phase \in {"A", "B", "C"}
  /\ \A g \in Game, p \in Pair : c.mark[g][p] <= c.seq

\* The served row of g is judged over v writes of p, or will be before it is served.
\* In Phases B and C the drain and the page are to come, or what they are about to
\* land is judged over as many.
Enough(c, g, p, v) ==
  IF c.phase = "A" THEN c.rows[g][p] >= v
  ELSE /\ c.row[g][p] >= v \/ g \in c.held \/ ~c.paged
       /\ c.boot.at = "land" /\ g \in c.boot.games =>
            c.boot.facts[p] >= v \/ (g \in c.held /\ g \notin c.boot.todo)

\* The mark of p on g may be gone.
Sound(c, g, p) == Enough(c, g, p, c.ver[p])

\* A judge whose next deletion of marks is justified by what the actor did.
Settling(c, n) == n.at = "ack" \/ (c.phase = "B" /\ n.at \in {"seen", "facts", "commit"})

\* The facts of a judge miss no write whose mark it may delete, or cover.
Fresh(c, n) ==
  /\ \A p \in Pair : n.facts[p] <= c.ver[p]
  /\ \A g \in Game, p \in Pair :
       g \in Names[p] /\ c.mark[g][p] # 0 /\ (c.mark[g][p] <= n.bound \/ c.mark[g][p] <= n.seen)
         => n.facts[p] = c.ver[p]

\* A judge with its facts in hand, whose rows are served.
Judging(c, n) == n.at = "land" \/ (c.phase = "A" /\ n.at = "commit")

\* What is known of the record n of the judge j.
Core(c, j, n) ==
  /\ n \in JobRecord
  /\ n.bound <= c.seq /\ n.seen <= c.seq
  /\ Judging(c, n) => Fresh(c, n)
  /\ Settling(c, n) =>
       \A g \in n.games, p \in Pair : g \in Names[p] /\ c.mark[g][p] <= n.bound => Sound(c, g, p)
  /\ n.at = "ack" => c.phase = "C"
  /\ n.at \in {"seen", "facts", "commit"} => c.phase # "C"
  /\ j = "belt" => \A p \in n.pair : Names[p] = n.games

\* A row is no newer than the facts in hand.
NotOlder(n, R) == \A g \in Game, p \in Pair : R[g][p] <= n.facts[p]

\* The rows that a judge is about to write are no newer than its facts.
Newest(c, n) ==
  /\ n.at = "land" => NotOlder(n, c.row)
  /\ c.phase = "A" /\ n.at = "commit" => NotOlder(n, c.rows)

\* The judge that reads for the actor's rows holds its turn, and no other does.
TurnOK == \A j \in Job : job[j].at \in {"closure", "land"} <=> actor.turn = j

\* The bootstrap writes what it lists, and every row when it pages.
BootOK(c) ==
  /\ c.boot.at \in {"idle", "closure", "land", "end"}
  /\ c.boot.at \in {"closure", "land"} =>
       c.boot.todo \subseteq c.boot.games /\ (~c.paged => c.boot.games = Game)
  /\ c.warm => c.paged /\ c.held = {}

\* Rows are judged over what was written; what the actor covers is in its rows.
RowsOK(c) ==
  /\ \A g \in Game, p \in Pair :
       /\ c.row[g][p] <= c.ver[p]
       /\ c.phase = "A" => c.rows[g][p] <= c.ver[p]
       /\ g \in Names[p] /\ c.mark[g][p] # 0 /\ c.mark[g][p] <= c.covered[g] => c.row[g][p] = c.ver[p]
  /\ \A g \in Game : c.covered[g] <= c.seq

\* A mark is gone only from a row that is judged over the pair's last write.
MarkOK(c) == \A g \in Game, p \in Pair : g \in Names[p] /\ c.mark[g][p] = 0 => Sound(c, g, p)

\* What a read that has the marks needs of the row it will be served.
ReadOK(c, r) ==
  /\ \A p \in Pair : r.need[p] <= c.ver[p]
  /\ r.at = "rows" =>
     \A g \in r.game, p \in Pair : g \in Names[p] =>
       IF c.phase = "A" THEN r.marks[p] = 0 => r.row[p] >= r.need[p]
       ELSE /\ r.marks[p] # 0 /\ r.marks[p] <= c.covered[g] => c.row[g][p] >= r.need[p]
            /\ r.marks[p] = 0 => Enough(c, g, p, r.need[p])

\* And of the facts that a judge is about to land.
ReadJob(r, n) ==
  r.at = "rows" /\ n.at = "land" =>
    \A g \in r.game, p \in Pair :
      g \in n.games /\ g \in Names[p] /\ r.marks[p] # 0 /\ r.marks[p] <= n.seen => n.facts[p] >= r.need[p]

\* A read is of one game.
OneRead == \A g, h \in read.game : g = h

\* What is known of a judge.
JobOK(c, r, j, n) == Core(c, j, n) /\ Newest(c, n) /\ ReadJob(r, n)

LeftOK ==
  left \in [phase : {"A", "B", "C"}, consumers : SUBSET Consumer,
            writes : [Pair -> Nat], finds : Nat, directs : Nat, faults : Nat, walls : Nat,
            resets : Nat, reads : Nat]

\* Every variable has its type, and no mark is of a generation to come.
Types == TypeOK /\ LeftOK /\ \A g \in Game, p \in Pair : mark[g][p] <= seq

Inv ==
  /\ Types
  /\ TurnOK
  /\ \A j \in Job : JobOK(Now, read, j, job[j])
  /\ BootOK(Now) /\ RowsOK(Now) /\ MarkOK(Now) /\ ReadOK(Now, read)
  /\ ReadCurrent /\ OneRead

\* In Phase A one judge at a time has facts in hand for D1's rows, and no write of a
\* find's own pair comes between its facts and its batch.
OneD1Judge ==
  Phase = "A" =>
    /\ \A i, j \in Job : At(i, "commit") /\ At(j, "commit") => i = j
    /\ At("belt", "commit") => \A p \in job["belt"].pair : job["belt"].facts[p] = ver[p]

-----------------------------------------------------------------------------
(* What every step does, seen from a judge that it is not a step of. *)

\* Counters grow; what is judged over enough stays so; a mark stands, or may be gone,
\* or is raised anew.
Tick(c, d) ==
  /\ d.phase = c.phase /\ c.seq <= d.seq
  /\ \A p \in Pair : c.ver[p] <= d.ver[p]
  /\ \A g \in Game, p \in Pair, v \in Nat : v <= c.ver[p] /\ Enough(c, g, p, v) => Enough(d, g, p, v)
  /\ \A g \in Game, p \in Pair : g \in Names[p] =>
       \/ d.mark[g][p] = c.mark[g][p] /\ d.ver[p] = c.ver[p]
       \/ d.mark[g][p] = 0 /\ Sound(d, g, p)
       \/ d.mark[g][p] > c.seq

\* What is known of another judge still is.
LEMMA TickFresh ==
  ASSUME NEW c, NEW d, NEW n \in JobRecord, Typed(c), Typed(d), Tick(c, d), Fresh(c, n),
         n.bound <= c.seq, n.seen <= c.seq
  PROVE  Fresh(d, n)
<1>1. ASSUME NEW p \in Pair
      PROVE  n.facts[p] <= d.ver[p]
  BY DEF Tick, Typed, Fresh, JobRecord
<1>2. ASSUME NEW g \in Game, NEW p \in Pair, g \in Names[p], d.mark[g][p] # 0,
             d.mark[g][p] <= n.bound \/ d.mark[g][p] <= n.seen
      PROVE  n.facts[p] = d.ver[p]
  <2>1. /\ d.mark[g][p] \in Nat /\ c.mark[g][p] \in Nat /\ c.seq \in Nat
        /\ n.bound \in Nat /\ n.seen \in Nat
    BY DEF Typed, JobRecord
  <2>2. d.mark[g][p] = c.mark[g][p] /\ d.ver[p] = c.ver[p]
    BY <1>2, <2>1 DEF Tick
  <2> QED
    BY <1>2, <2>2, Zenon DEF Fresh
<1> QED
  BY <1>1, <1>2, Zenon DEF Fresh

\* What is known of another judge's record is known after the step.
LEMMA TickCore ==
  ASSUME NEW c, NEW d, NEW j, NEW n, Typed(c), Typed(d), Tick(c, d), Core(c, j, n)
  PROVE  Core(d, j, n)
<1>1. /\ n \in JobRecord /\ n.bound <= c.seq /\ n.seen <= c.seq
      /\ n.bound \in Nat /\ n.seen \in Nat /\ c.seq \in Nat /\ d.seq \in Nat /\ n.games \subseteq Game
  BY Zenon DEF Core, JobRecord, Typed
<1>2. n.bound <= d.seq /\ n.seen <= d.seq
  BY <1>1 DEF Tick
<1>3. Judging(d, n) => Fresh(d, n)
  BY <1>1, TickFresh, Zenon DEF Core, Judging, Tick
<1>4. ASSUME Settling(d, n), NEW g \in n.games, NEW p \in Pair, g \in Names[p], d.mark[g][p] <= n.bound
      PROVE  Sound(d, g, p)
  <2>1. Settling(c, n) /\ g \in Game
    BY <1>1, <1>4, Zenon DEF Settling, Tick
  <2>2. d.mark[g][p] \in Nat /\ c.mark[g][p] \in Nat /\ c.ver[p] \in Nat
    BY <2>1, Zenon DEF Typed
  <2>3. CASE d.mark[g][p] = c.mark[g][p] /\ d.ver[p] = c.ver[p]
    <3>1. Sound(c, g, p)
      BY <1>4, <2>1, <2>3, Zenon DEF Core
    <3> QED
      BY <2>1, <2>2, <2>3, <3>1, Zenon DEF Tick, Sound
  <2> QED
    BY <1>1, <1>4, <2>1, <2>2, <2>3 DEF Tick
<1>5. d.phase = c.phase
  BY Zenon DEF Tick
<1> QED
  BY <1>1, <1>2, <1>3, <1>4, <1>5, Zenon DEF Core

\* So is what is known of the marks that are gone.
LEMMA TickMarks ==
  ASSUME NEW c, NEW d, Typed(c), Typed(d), Tick(c, d), MarkOK(c)
  PROVE  MarkOK(d)
<1> SUFFICES ASSUME NEW g \in Game, NEW p \in Pair, g \in Names[p], d.mark[g][p] = 0
             PROVE  Sound(d, g, p)
  BY Zenon DEF MarkOK
<1>1. c.seq \in Nat /\ c.ver[p] \in Nat
  BY Zenon DEF Typed
<1>2. CASE d.mark[g][p] = c.mark[g][p] /\ d.ver[p] = c.ver[p]
  <2>1. Sound(c, g, p)
    BY <1>2, Zenon DEF MarkOK
  <2> QED
    BY <1>1, <1>2, <2>1, Zenon DEF Tick, Sound
<1> QED
  BY <1>1, <1>2 DEF Tick

\* And of the rows, when the actor's rows stand.
LEMMA TickRows ==
  ASSUME NEW c, NEW d, Typed(c), Typed(d), Tick(c, d), RowsOK(c), d.row = c.row,
         \A g \in Game : d.covered[g] = c.covered[g] \/ d.covered[g] = 0,
         d.phase = "A" => \A g \in Game, p \in Pair : d.rows[g][p] <= d.ver[p]
  PROVE  RowsOK(d)
<1>1. ASSUME NEW g \in Game, NEW p \in Pair
      PROVE  /\ d.row[g][p] <= d.ver[p]
             /\ g \in Names[p] /\ d.mark[g][p] # 0 /\ d.mark[g][p] <= d.covered[g] => d.row[g][p] = d.ver[p]
  <2>1. /\ c.row[g][p] <= c.ver[p] /\ c.covered[g] <= c.seq
        /\ g \in Names[p] /\ c.mark[g][p] # 0 /\ c.mark[g][p] <= c.covered[g] => c.row[g][p] = c.ver[p]
    BY Zenon DEF RowsOK
  <2>2. /\ c.row[g][p] \in Nat /\ c.ver[p] \in Nat /\ d.ver[p] \in Nat /\ c.mark[g][p] \in Nat
        /\ d.mark[g][p] \in Nat /\ c.covered[g] \in Nat /\ d.covered[g] \in Nat /\ c.seq \in Nat
    BY Zenon DEF Typed
  <2>3. c.ver[p] <= d.ver[p]
    BY Zenon DEF Tick
  <2>4. g \in Names[p] => \/ d.mark[g][p] = c.mark[g][p] /\ d.ver[p] = c.ver[p]
                          \/ d.mark[g][p] = 0
                          \/ d.mark[g][p] > c.seq
    BY Zenon DEF Tick
  <2> QED
    BY <2>1, <2>2, <2>3, <2>4
<1>2. ASSUME NEW g \in Game
      PROVE  d.covered[g] <= d.seq
  <2>1. /\ c.covered[g] \in Nat /\ d.covered[g] \in Nat /\ c.seq \in Nat /\ d.seq \in Nat
        /\ c.covered[g] <= c.seq /\ c.seq <= d.seq
    BY Zenon DEF Typed, Tick, RowsOK
  <2> QED
    BY <2>1
<1> QED
  BY <1>1, <1>2, Zenon DEF RowsOK

\* And of the read.
LEMMA TickRead ==
  ASSUME NEW c, NEW d, NEW r, Typed(c), Typed(d), Tick(c, d), ReadOK(c, r), d.row = c.row,
         r.need \in [Pair -> Nat], r.marks \in [Pair -> Nat], r.game \subseteq Game,
         \A g \in Game : d.covered[g] = c.covered[g] \/ d.covered[g] = 0
  PROVE  ReadOK(d, r)
<1>1. \A p \in Pair : r.need[p] <= d.ver[p]
  BY DEF ReadOK, Tick, Typed
<1>2. ASSUME r.at = "rows", NEW g \in r.game, NEW p \in Pair, g \in Names[p], d.phase # "A"
      PROVE  /\ r.marks[p] # 0 /\ r.marks[p] <= d.covered[g] => d.row[g][p] >= r.need[p]
             /\ r.marks[p] = 0 => Enough(d, g, p, r.need[p])
  <2>1. /\ r.marks[p] # 0 /\ r.marks[p] <= c.covered[g] => c.row[g][p] >= r.need[p]
        /\ r.marks[p] = 0 => Enough(c, g, p, r.need[p])
        /\ r.need[p] <= c.ver[p] /\ g \in Game /\ r.need[p] \in Nat /\ r.marks[p] \in Nat
    BY <1>2, Zenon DEF ReadOK, Tick
  <2>2. r.marks[p] = 0 => Enough(d, g, p, r.need[p])
    BY <2>1, Zenon DEF Tick
  <2> QED
    BY <2>1, <2>2
<1>3. d.phase = c.phase
  BY Zenon DEF Tick
<1> QED
  BY <1>1, <1>2, <1>3, Zenon DEF ReadOK

-----------------------------------------------------------------------------
(* Types. *)

LOCAL INSTANCE WellFoundedInduction

\* A set of numbers below a bound has a greatest.
LEMMA GreatestOf ==
  ASSUME NEW S \in SUBSET Nat, NEW b \in Nat, S # {}, \A m \in S : m <= b
  PROVE  \E m \in S : \A n \in S : n <= m
<1> DEFINE U == {k \in Nat : \A m \in S : m <= k}
<1>1. U \in SUBSET Nat /\ b \in U
  OBVIOUS
<1>2. \E x \in U : \A y \in U : ~(<<y, x>> \in OpToRel(<, Nat))
  BY <1>1, NatLessThanWellFounded, WFMin, Zenon
<1>3. OpToRel(<, Nat) = {ss \in Nat \X Nat : ss[1] < ss[2]}
  BY Zenon DEF OpToRel
<1>4. \A x, y \in Nat : y < x => <<y, x>> \in {ss \in Nat \X Nat : ss[1] < ss[2]}
  BY SMT
<1>5. PICK x \in U : \A y \in U : ~(y < x)
  BY <1>1, <1>2, <1>3, <1>4, Zenon
<1>6. CASE x = 0
  <2>1. PICK m \in S : m <= x
    BY Zenon
  <2>2. m = x /\ \A n \in S : n <= x
    BY <1>6, <2>1
  <2> QED
    BY <2>2
<1>7. CASE x # 0
  <2>1. x - 1 \in Nat /\ x - 1 < x
    BY <1>7
  <2>2. x - 1 \notin U
    BY <1>5, <2>1
  <2>3. PICK m \in S : ~(m <= x - 1)
    BY <2>1, <2>2
  <2>4. m = x
    BY <2>1, <2>3
  <2> QED
    BY <2>4
<1> QED
  BY <1>6, <1>7

\* The bound of some games' marks is a generation that was given.
LEMMA MarksBoundIs ==
  ASSUME Types, NEW G \in SUBSET Game
  PROVE  MarksBound(G) \in Nat /\ MarksBound(G) <= seq
<1> DEFINE gens == {mark[g][p] : g \in G, p \in Pair} \cup {0}
<1>1. seq \in Nat /\ mark \in [Game -> [Pair -> Nat]]
  BY Zenon DEF Types, TypeOK
<1>2. gens \in SUBSET Nat /\ gens # {} /\ \A m \in gens : m <= seq
  BY <1>1 DEF Types
<1>3. MarksBound(G) = CHOOSE m \in gens : \A n \in gens : n <= m
  BY DEF MarksBound
<1> HIDE DEF gens
<1>4. \E m \in gens : \A n \in gens : n <= m
  BY <1>1, <1>2, GreatestOf, Zenon
<1>5. MarksBound(G) \in gens
  BY <1>3, <1>4, Zenon
<1> QED
  BY <1>2, <1>5, Zenon

\* A bound that is used up by one is one still, and the phase stands.
LEMMA SpendOne ==
  ASSUME LeftOK, NEW f \in {"finds", "faults", "walls", "resets", "reads"}, Spend(f)
  PROVE  LeftOK' /\ left'.phase = left.phase
BY DEF LeftOK, Spend

\* The phase is never left, and the left bounds keep their types.
LEMMA PhaseStands ==
  ASSUME LeftOK, [Next]_vars
  PROVE  LeftOK' /\ left'.phase = left.phase
<1>1. CASE left' = left
  BY <1>1, Zenon DEF LeftOK
<1>2. CASE \E f \in {"finds", "faults", "walls", "resets", "reads"} : Spend(f)
  BY <1>2, SpendOne, Zenon
<1>3. ASSUME NEW p \in Pair, Write(p) \/ Publish(p)
      PROVE  LeftOK' /\ left'.phase = left.phase
  BY <1>3 DEF Write, Publish, LeftOK
<1>4. ASSUME NEW p \in Pair, PublishLost(p) \/ Sweep(p) \/ StampLapses(p) \/ Direct(p)
      PROVE  left' = left \/ Spend("faults")
  BY <1>4, Zenon DEF PublishLost, Sweep, StampLapses, Direct
<1>5. ASSUME NEW j \in Job, Judge(j) \/ ClosureBound(j) \/ Ends(j)
      PROVE  left' = left \/ Spend("faults")
  BY <1>5, Zenon DEF Judge, Bound, Hold, Turn, Closure, Land, Seen, Facts, Commit, Ack, Delivered, Fate,
              ClosureBound, Ends, Leaves
<1>6. ASSUME NEW c \in Consumer, (\E p \in Pair : Take(c, p)) \/ DeliveryFault(c) \/ Wall(c)
      PROVE  left' = left \/ Spend("faults") \/ Spend("walls")
  BY <1>6, Zenon DEF Take, DeliveryFault, Wall
<1>7. ASSUME FindWrite \/ FindCommit \/ BootStep \/ BootEnd \/ Stamp \/ Reset \/ ReadRows
             \/ (\E g \in Game : ReadMarks(g)) \/ (\E p \in Pair, g \in Game : Find(p, g))
             \/ (\E x \in Game \cup Pair : HoldEnds(x)) \/ UNCHANGED vars
      PROVE  left' = left \/ Spend("faults") \/ Spend("resets") \/ Spend("reads") \/ Spend("finds")
  BY <1>7, Zenon DEF FindWrite, FindCommit, BootStep, BootEnd, Leaves, Stamp, Reset, ReadRows, ReadMarks, Find, HoldEnds, vars
<1> QED
  BY <1>1, <1>2, <1>3, <1>4, <1>5, <1>6, <1>7, Zenon DEF Next

\* The steps that a judge is sent to are steps.
LEMMA StepsAre ==
  ASSUME NEW j \in Job
  PROVE  {First(j), AfterWrite, AfterBound, AfterApply(j), AfterHeld(j)} \subseteq Step
<1>1. AfterApply(j) \in {"seen", "ack", "end"}
  BY Zenon DEF AfterApply
<1>2. First(j) \in {"seen", "write", "bound"} /\ AfterWrite \in {"bound", "hold"} /\ AfterBound \in {"seen", "hold"}
  BY Zenon DEF First, AfterWrite, AfterBound
<1>3. AfterHeld(j) \in {"end", AfterApply(j)}
  BY Zenon DEF AfterHeld
<1> QED
  BY <1>1, <1>2, <1>3, Zenon DEF Step, Working

\* A transaction that writes a pair's row.
LEMMA DirtyTypes ==
  ASSUME Types, NEW p \in Pair, NEW G \in SUBSET Game, Dirty(p, G)
  PROVE  /\ ver' \in [Pair -> Nat] /\ seq' \in Nat /\ mark' \in [Game -> [Pair -> Nat]]
         /\ \A g \in Game, q \in Pair : mark'[g][q] <= seq'
BY DEF Types, TypeOK, Dirty

\* An acknowledgement.
LEMMA AckTypes ==
  ASSUME Types, NEW G, NEW b, NEW owned, AckDirty(G, b, owned)
  PROVE  /\ mark' \in [Game -> [Pair -> Nat]]
         /\ \A g \in Game, p \in Pair : mark'[g][p] \in {0, mark[g][p]}
<1>1. ASSUME NEW g \in Game, NEW p \in Pair
      PROVE  mark'[g][p] \in {0, mark[g][p]} /\ mark'[g][p] \in Nat
  BY DEF AckDirty, Types, TypeOK
<1>2. mark' \in [Game -> [Pair -> Nat]]
  BY <1>1, Zenon DEF AckDirty
<1> QED
  BY <1>1, <1>2, Zenon

\* The memos.
LEMMA MemoTypes ==
  ASSUME Types, NEW X \in SUBSET (Game \cup Pair), NoteFault(X) \/ ClearFaults(X)
  PROVE  memo' \in [faults : [Game \cup Pair -> 0 .. FAULT_HOLD_AFTER], held : SUBSET (Game \cup Pair)]
<1>1. CASE NoteFault(X)
  BY <1>1, OwedMarksAssumption DEF Types, TypeOK, NoteFault
<1>2. CASE ClearFaults(X)
  BY <1>2, OwedMarksAssumption DEF Types, TypeOK, ClearFaults
<1> QED
  BY <1>1, <1>2, Zenon

\* The record of a judge that does nothing.
LEMMA IdleIs ==
  /\ Idle \in JobRecord
  /\ Idle.at = "idle" /\ Idle.pair = {} /\ Idle.games = {} /\ Idle.todo = {} /\ Idle.bound = 0 /\ Idle.seen = 0
BY Zenon DEF Idle, JobRecord, Zero, Step

\* One judge's record changes.
LEMMA JobTypes ==
  ASSUME Types, NEW j \in Job, NEW n \in JobRecord, job' = [job EXCEPT ![j] = n]
  PROVE  job' \in [Job -> JobRecord] /\ job'[j] = n /\ \A k \in Job \ {j} : job'[k] = job[k]
BY Zenon DEF Types, TypeOK

\* The types, but for what a step leaves alone.
LEMMA SomeTypes ==
  ASSUME Types, LeftOK',
         ver' = ver, seq' = seq, rows' \in [Game -> [Pair -> Nat]], read' = read,
         mark' \in [Game -> [Pair -> Nat]], \A g \in Game, p \in Pair : mark'[g][p] \in {0, mark[g][p]},
         actor' \in [warm : BOOLEAN, row : [Game -> [Pair -> Nat]], covered : [Game -> Nat],
                     held : SUBSET Game, turn : Job \cup {"free"}, paged : BOOLEAN],
         queue' \in [notes : SUBSET Pair, direct : SUBSET Pair, msgs : SUBSET Pair,
                     lost : SUBSET Pair, stamps : SUBSET Pair],
         memo' \in [faults : [Game \cup Pair -> 0 .. FAULT_HOLD_AFTER], held : SUBSET (Game \cup Pair)],
         job' \in [Job -> JobRecord]
  PROVE  Types'
<1>1. ASSUME NEW g \in Game, NEW p \in Pair
      PROVE  mark'[g][p] <= seq'
  <2>1. mark[g][p] <= seq /\ seq \in Nat /\ mark'[g][p] \in {0, mark[g][p]} /\ mark[g][p] \in Nat
    BY DEF Types, TypeOK
  <2> QED
    BY <2>1
<1>2. TypeOK'
  BY Zenon DEF Types, TypeOK
<1> QED
  BY <1>1, <1>2, Zenon DEF Types

\* The steps of a delivery.
LEMMA DeliveryTypes ==
  ASSUME Types, LeftOK', NEW j \in Job,
         Bound(j) \/ Hold(j) \/ Turn(j) \/ Closure(j) \/ Land(j) \/ ClosureBound(j)
         \/ Seen(j) \/ Facts(j) \/ Commit(j) \/ Ack(j)
  PROVE  Types'
<1> DEFINE n == job[j]
<1>0. /\ n \in JobRecord /\ job \in [Job -> JobRecord] /\ "boot" \in Job
      /\ n.games \subseteq Game /\ n.facts \in [Pair -> Nat] /\ Zero \in [Pair -> Nat]
      /\ ver \in [Pair -> Nat] /\ n.seen \in Nat
  BY Zenon DEF Types, TypeOK, Job, JobRecord, Zero
<1>1. MarksBound(n.games) \in Nat
  BY <1>0, MarksBoundIs, Zenon
<1>2. {AfterBound, AfterApply(j), AfterHeld(j)} \subseteq Step
  BY StepsAre, Zenon
<1>3. {"turn", "closure", "land", "facts", "commit", "end"} \subseteq Step
  BY Zenon DEF Step, Working
<1>4. CASE Bound(j) \/ Seen(j) \/ Closure(j) \/ Facts(j)
  <2>1. ASSUME Bound(j) PROVE job' \in [Job -> JobRecord]
    BY <1>0, <1>1, <1>2, <2>1, Zenon DEF Bound, JobRecord
  <2>2. ASSUME Seen(j) PROVE job' \in [Job -> JobRecord]
    BY <1>0, <1>1, <1>3, <2>2, Zenon DEF Seen, JobRecord
  <2>3. ASSUME Closure(j) PROVE job' \in [Job -> JobRecord]
    BY <1>0, <1>3, <2>3, Zenon DEF Closure, JobRecord
  <2>4. ASSUME Facts(j) PROVE job' \in [Job -> JobRecord]
    BY <1>0, <1>3, <2>4, Zenon DEF Facts, JobRecord
  <2>5. job' \in [Job -> JobRecord]
    BY <1>4, <2>1, <2>2, <2>3, <2>4, Zenon
  <2> QED
    BY <1>4, <2>5, SomeTypes, Zenon DEF Bound, Seen, Closure, Facts, Types, TypeOK
<1>5. CASE Hold(j)
  <2>1. CASE actor.warm
    <3>1. job' = [job EXCEPT ![j].at = "turn"] /\ actor' = actor
      BY <1>5, <2>1, Zenon DEF Hold
    <3>2. job' \in [Job -> JobRecord]
      BY <1>0, <1>3, <3>1, Zenon DEF JobRecord
    <3> QED
      BY <1>5, <3>1, <3>2, SomeTypes, Zenon DEF Hold, Types, TypeOK
  <2>2. CASE ~actor.warm
    <3>1. job' = [job EXCEPT ![j].at = AfterHeld(j), !["boot"].todo = @ \ n.games]
      BY <1>5, <2>2, Zenon DEF Hold
    <3>2. job' \in [Job -> JobRecord]
      <4> DEFINE m == [job EXCEPT ![j].at = AfterHeld(j)]
      <4>1. m \in [Job -> JobRecord]
        BY <1>0, <1>2, Zenon DEF JobRecord
      <4>2. job' = [m EXCEPT !["boot"].todo = @ \ n.games]
        BY <3>1, Zenon
      <4> HIDE DEF m
      <4> QED
        BY <1>0, <4>1, <4>2, Zenon DEF JobRecord
    <3>3. actor' = [actor EXCEPT !.held = @ \cup n.games]
      BY <1>5, <2>2, Zenon DEF Hold
    <3>4. actor' \in [warm : BOOLEAN, row : [Game -> [Pair -> Nat]], covered : [Game -> Nat],
                      held : SUBSET Game, turn : Job \cup {"free"}, paged : BOOLEAN]
      BY <1>0, <3>3, Zenon DEF Types, TypeOK
    <3> QED
      BY <1>5, <3>2, <3>4, SomeTypes, Zenon DEF Hold, Types, TypeOK
  <2> QED
    BY <2>1, <2>2, Zenon
<1>6. CASE Turn(j)
  <2>1. CASE Covered(j)
    <3>1. job' = [job EXCEPT ![j].at = AfterApply(j)] /\ actor' = actor
      BY <1>6, <2>1, Zenon DEF Turn
    <3>2. job' \in [Job -> JobRecord]
      BY <1>0, <1>2, <3>1, Zenon DEF JobRecord
    <3> QED
      BY <1>6, <3>1, <3>2, SomeTypes, Zenon DEF Turn, Types, TypeOK
  <2>2. CASE ~Covered(j)
    <3>1. /\ job' = [job EXCEPT ![j].at = "closure", ![j].seen = MarksBound(job[j].games)]
          /\ actor' = [actor EXCEPT !.turn = j]
      BY <1>6, <2>2, Zenon DEF Turn
    <3>2. job' \in [Job -> JobRecord]
      BY <1>0, <1>1, <1>3, <3>1, Zenon DEF JobRecord
    <3>3. actor' \in [warm : BOOLEAN, row : [Game -> [Pair -> Nat]], covered : [Game -> Nat],
                      held : SUBSET Game, turn : Job \cup {"free"}, paged : BOOLEAN]
      BY <3>1, Zenon DEF Types, TypeOK
    <3> QED
      BY <1>6, <3>2, <3>3, SomeTypes, Zenon DEF Turn, Types, TypeOK
  <2> QED
    BY <2>1, <2>2, Zenon
<1>7. CASE Land(j)
  <2>1. job' \in [Job -> JobRecord]
    BY <1>0, <1>2, <1>7, Zenon DEF Land, JobRecord
  <2>2. CoveredBy(j) \in [Game -> Nat]
    BY <1>0, Zenon DEF CoveredBy, Types, TypeOK
  <2>3. actor' \in [warm : BOOLEAN, row : [Game -> [Pair -> Nat]], covered : [Game -> Nat],
                    held : SUBSET Game, turn : Job \cup {"free"}, paged : BOOLEAN]
    BY <1>0, <1>7, <2>2, Zenon DEF Land, Types, TypeOK
  <2> QED
    BY <1>7, <2>1, <2>3, SomeTypes, Zenon DEF Land, Types, TypeOK
<1>8. CASE ClosureBound(j)
  <2>1. job' \in [Job -> JobRecord]
    BY <1>0, <1>2, <1>8, Zenon DEF ClosureBound, JobRecord
  <2>2. actor' \in [warm : BOOLEAN, row : [Game -> [Pair -> Nat]], covered : [Game -> Nat],
                    held : SUBSET Game, turn : Job \cup {"free"}, paged : BOOLEAN]
    BY <1>0, <1>8, Zenon DEF ClosureBound, Types, TypeOK
  <2> QED
    BY <1>8, <2>1, <2>2, SomeTypes, Zenon DEF ClosureBound, Types, TypeOK
<1>9. CASE Commit(j)
  <2>1. job' \in [Job -> JobRecord]
    BY <1>0, <1>3, <1>9, Zenon DEF Commit, JobRecord
  <2>2. rows' \in [Game -> [Pair -> Nat]]
    BY <1>0, <1>9, Zenon DEF Commit, Types, TypeOK
  <2>3. mark' \in [Game -> [Pair -> Nat]] /\ \A g \in Game, p \in Pair : mark'[g][p] \in {0, mark[g][p]}
    BY <1>9, AckTypes, Zenon DEF Commit
  <2> QED
    BY <1>9, <2>1, <2>2, <2>3, SomeTypes, Zenon DEF Commit, Types, TypeOK
<1>10. CASE Ack(j)
  <2>1. job' \in [Job -> JobRecord]
    BY <1>0, <1>3, <1>10, Zenon DEF Ack, JobRecord
  <2>2. mark' \in [Game -> [Pair -> Nat]] /\ \A g \in Game, p \in Pair : mark'[g][p] \in {0, mark[g][p]}
    BY <1>10, AckTypes, Zenon DEF Ack
  <2> QED
    BY <1>10, <2>1, <2>2, SomeTypes, Zenon DEF Ack, Types, TypeOK
<1> QED
  BY <1>4, <1>5, <1>6, <1>7, <1>8, <1>9, <1>10, Zenon

\* The next of the games judged one at a time.
LEMMA NextOneTypes ==
  ASSUME Types, NEW c \in Consumer, NEW n \in JobRecord, NextOne(c, n)
  PROVE  /\ job' \in [Job -> JobRecord] /\ \A k \in Job \ {c} : job'[k] = job[k]
         /\ job'[c].at \in {"fate", "bound"} /\ job'[c].pair = n.pair
         /\ job'[c].bound = n.bound /\ job'[c].seen = n.seen
<1>1. c \in Job /\ First(c) = "bound" /\ {"bound", "fate"} \subseteq Step
  BY OwedMarksAssumption, Zenon DEF First, Job, Step, Working
<1>2. CASE n.todo = {}
  <2> DEFINE m == [n EXCEPT !.at = "fate", !.games = {}]
  <2>1. m \in JobRecord /\ m.at = "fate" /\ m.pair = n.pair /\ m.bound = n.bound /\ m.seen = n.seen
    BY <1>1, Zenon DEF JobRecord
  <2>2. job' = [job EXCEPT ![c] = m]
    BY <1>2, Zenon DEF NextOne
  <2> HIDE DEF m
  <2>3. job' \in [Job -> JobRecord] /\ job'[c] = m /\ \A k \in Job \ {c} : job'[k] = job[k]
    BY <1>1, <2>1, <2>2, JobTypes, Zenon
  <2> QED
    BY <2>1, <2>3, Zenon
<1>3. CASE n.todo # {}
  <2>1. PICK g \in n.todo :
          job' = [job EXCEPT ![c] = [n EXCEPT !.at = "bound", !.games = {g}, !.todo = @ \ {g}]]
    BY <1>1, <1>3, Zenon DEF NextOne
  <2> DEFINE m == [n EXCEPT !.at = "bound", !.games = {g}, !.todo = @ \ {g}]
  <2>2. m \in JobRecord /\ m.at = "bound" /\ m.pair = n.pair /\ m.bound = n.bound /\ m.seen = n.seen
    BY <1>1, Zenon DEF JobRecord
  <2>3. job' = [job EXCEPT ![c] = m]
    BY <2>1, Zenon
  <2> HIDE DEF m
  <2>4. job' \in [Job -> JobRecord] /\ job'[c] = m /\ \A k \in Job \ {c} : job'[k] = job[k]
    BY <1>1, <2>2, <2>3, JobTypes, Zenon
  <2> QED
    BY <2>2, <2>4, Zenon
<1> QED
  BY <1>2, <1>3, Zenon

\* The turn is freed, or handed on.
LEMMA TurnTypes ==
  ASSUME Types, NEW t \in Job \cup {"free"}, actor' = [actor EXCEPT !.turn = t]
  PROVE  /\ actor' \in [warm : BOOLEAN, row : [Game -> [Pair -> Nat]], covered : [Game -> Nat],
                        held : SUBSET Game, turn : Job \cup {"free"}, paged : BOOLEAN]
         /\ actor'.turn = t /\ actor'.row = actor.row /\ actor'.covered = actor.covered
         /\ actor'.held = actor.held /\ actor'.warm = actor.warm /\ actor'.paged = actor.paged
BY Zenon DEF Types, TypeOK

\* Giving the turn back changes nothing else that the actor holds.
LEMMA FreeTypes ==
  ASSUME Types, NEW j \in Job, actor' = Free(j)
  PROVE  /\ actor' \in [warm : BOOLEAN, row : [Game -> [Pair -> Nat]], covered : [Game -> Nat],
                        held : SUBSET Game, turn : Job \cup {"free"}, paged : BOOLEAN]
         /\ actor'.turn = (IF actor.turn = j THEN "free" ELSE actor.turn) /\ actor'.row = actor.row
         /\ actor'.covered = actor.covered
         /\ actor'.held = actor.held /\ actor'.warm = actor.warm /\ actor'.paged = actor.paged
<1> DEFINE t == IF actor.turn = j THEN "free" ELSE actor.turn
<1>1. actor' = [actor EXCEPT !.turn = t] /\ t \in Job \cup {"free"}
  BY Zenon DEF Free, Types, TypeOK
<1> HIDE DEF t
<1>2. /\ actor' \in [warm : BOOLEAN, row : [Game -> [Pair -> Nat]], covered : [Game -> Nat],
                        held : SUBSET Game, turn : Job \cup {"free"}, paged : BOOLEAN]
         /\ actor'.turn = t /\ actor'.row = actor.row /\ actor'.covered = actor.covered
         /\ actor'.held = actor.held /\ actor'.warm = actor.warm /\ actor'.paged = actor.paged
  BY <1>1, TurnTypes, Zenon
<1> QED
  BY <1>2, Zenon DEF t

\* The steps of the consumer.
LEMMA ConsumerTypes ==
  ASSUME Types, LeftOK', NEW c \in Consumer,
         (\E p \in Pair : Take(c, p)) \/ Delivered(c) \/ DeliveryFault(c) \/ Wall(c)
  PROVE  Types'
<1> DEFINE n == job[c]
<1>1. /\ c \in Job /\ n \in JobRecord /\ n.games \subseteq Game /\ n.pair \subseteq Pair
      /\ job \in [Job -> JobRecord] /\ "zombie" \in Job
  BY Zenon DEF Types, TypeOK, Job, JobRecord
<1>2. ASSUME NEW p \in Pair, Take(c, p)
      PROVE  Types'
  <2>0. queue \in [notes : SUBSET Pair, direct : SUBSET Pair, msgs : SUBSET Pair,
                   lost : SUBSET Pair, stamps : SUBSET Pair]
    BY Zenon DEF Types, TypeOK
  <2>1. queue' \in [notes : SUBSET Pair, direct : SUBSET Pair, msgs : SUBSET Pair,
                    lost : SUBSET Pair, stamps : SUBSET Pair]
    <3>1. \/ queue' = [queue EXCEPT !.msgs = @ \ {p}]
          \/ queue' = [queue EXCEPT !.msgs = @ \ {p}, !.lost = @ \ {p}, !.stamps = @ \ {p}]
      BY <1>2, Zenon DEF Take
    <3>2. CASE queue' = [queue EXCEPT !.msgs = @ \ {p}]
      BY <2>0, <3>2, Zenon
    <3>3. CASE queue' = [queue EXCEPT !.msgs = @ \ {p}, !.lost = @ \ {p}, !.stamps = @ \ {p}]
      BY <2>0, <3>3, Zenon
    <3> QED
      BY <3>1, <3>2, <3>3, Zenon
  <2>2. memo' = memo \/ ClearFaults({p})
    BY <1>2, Zenon DEF Take
  <2>3. memo' \in [faults : [Game \cup Pair -> 0 .. FAULT_HOLD_AFTER], held : SUBSET (Game \cup Pair)]
    BY <2>2, MemoTypes DEF Types, TypeOK
  <2>4. job' \in [Job -> JobRecord]
    <3> DEFINE G == Marked(p) \ memo.held
               m == [Idle EXCEPT !.at = First(c), !.pair = {p}, !.games = G]
    <3>1. m \in JobRecord
      <4>1. First(c) \in Step /\ G \subseteq Game
        BY <1>1, StepsAre, Zenon DEF Marked
      <4> HIDE DEF G
      <4> QED
        BY <4>1, IdleIs, Zenon DEF JobRecord
    <3>2. job' = job \/ job' = [job EXCEPT ![c] = m]
      BY <1>2, Zenon DEF Take
    <3> HIDE DEF m
    <3> QED
      BY <1>1, <3>1, <3>2, JobTypes, Zenon
  <2> QED
    BY <1>2, <2>1, <2>3, <2>4, SomeTypes, Zenon DEF Take, Types, TypeOK
<1>3. ASSUME Delivered(c)
      PROVE  Types'
  <2> DEFINE m == [n EXCEPT !.landed = @ \cup n.games, !.bound = 0]
  <2>1. m \in JobRecord
    BY <1>1, Zenon DEF JobRecord
  <2>2. NextOne(c, m)
    BY <1>3, Zenon DEF Delivered
  <2> HIDE DEF m
  <2>3. job' \in [Job -> JobRecord]
    BY <2>1, <2>2, NextOneTypes, Zenon
  <2> QED
    BY <1>3, <2>3, SomeTypes, Zenon DEF Delivered, Types, TypeOK
<1>4. ASSUME DeliveryFault(c)
      PROVE  Types'
  <2> DEFINE m == [n EXCEPT !.bound = 0, !.seen = 0, !.facts = Zero]
             m1 == [m EXCEPT !.todo = m.games]
             m2 == [m EXCEPT !.faulted = @ \cup m.games]
  <2>1. m \in JobRecord /\ m.games \subseteq Game
    BY <1>1, Zenon DEF JobRecord, Zero
  <2>2. \/ NextOne(c, m1) /\ memo' = memo
        \/ NextOne(c, m2) /\ NoteFault(m.games)
    BY <1>4, Zenon DEF DeliveryFault
  <2>3. actor' = Free(c)
    BY <1>4, Zenon DEF DeliveryFault
  <2> HIDE DEF m
  <2>4. m1 \in JobRecord /\ m2 \in JobRecord
    BY <2>1, Zenon DEF JobRecord
  <2> HIDE DEF m1, m2
  <2>5. job' \in [Job -> JobRecord]
    BY <2>2, <2>4, NextOneTypes, Zenon
  <2>6. memo' \in [faults : [Game \cup Pair -> 0 .. FAULT_HOLD_AFTER], held : SUBSET (Game \cup Pair)]
    BY <2>1, <2>2, MemoTypes, Zenon DEF Types, TypeOK
  <2>7. actor' \in [warm : BOOLEAN, row : [Game -> [Pair -> Nat]], covered : [Game -> Nat],
                    held : SUBSET Game, turn : Job \cup {"free"}, paged : BOOLEAN]
    BY <1>1, <2>3, FreeTypes, Zenon
  <2> QED
    BY <1>4, <2>5, <2>6, <2>7, SomeTypes, Zenon DEF DeliveryFault, Types, TypeOK
<1>5. ASSUME Wall(c)
      PROVE  Types'
  <2>1. \E z \in {n, Idle} : job' = [job EXCEPT ![c] = Idle, !["zombie"] = z]
    BY <1>5, Zenon DEF Wall
  <2>2. job' \in [Job -> JobRecord]
    BY <1>1, <2>1, IdleIs
  <2>3. queue' \in [notes : SUBSET Pair, direct : SUBSET Pair, msgs : SUBSET Pair,
                    lost : SUBSET Pair, stamps : SUBSET Pair]
    BY <1>1, <1>5, Zenon DEF Wall, Types, TypeOK
  <2>4. NoteFault(n.games)
    BY <1>5, Zenon DEF Wall
  <2>5. memo' \in [faults : [Game \cup Pair -> 0 .. FAULT_HOLD_AFTER], held : SUBSET (Game \cup Pair)]
    BY <1>1, <2>4, MemoTypes, Zenon
  <2>6. actor' \in [warm : BOOLEAN, row : [Game -> [Pair -> Nat]], covered : [Game -> Nat],
                    held : SUBSET Game, turn : Job \cup {"free"}, paged : BOOLEAN]
    BY <1>1, <1>5, Zenon DEF Wall, Types, TypeOK
  <2> QED
    BY <1>5, <2>2, <2>3, <2>5, <2>6, SomeTypes, Zenon DEF Wall, Types, TypeOK
<1> QED
  BY <1>2, <1>3, <1>4, <1>5, Zenon

\* The fate of a message, the direct call, the find, and the bootstrap's steps.
LEMMA RestTypes ==
  ASSUME Types, LeftOK',
         \/ \E j \in Job : Fate(j) \/ Ends(j)
         \/ \E p \in Pair : Direct(p) \/ \E g \in Game : Find(p, g)
         \/ BootStep \/ BootEnd
  PROVE  Types'
<1>0. /\ job \in [Job -> JobRecord] /\ {"belt", "direct", "boot"} \subseteq Job
      /\ \A j \in Job : job[j].pair \subseteq Pair /\ job[j].landed \subseteq Game
      /\ actor.held \subseteq Game
      /\ queue \in [notes : SUBSET Pair, direct : SUBSET Pair, msgs : SUBSET Pair,
                    lost : SUBSET Pair, stamps : SUBSET Pair]
  BY Zenon DEF Types, TypeOK, Job, JobRecord
<1>1. ASSUME NEW j \in Job, Fate(j)
      PROVE  Types'
  <2> DEFINE n == job[j]
  <2>1. NoteFault(n.pair) \/ ClearFaults(n.pair \cup n.landed)
    BY <1>1, Zenon DEF Fate
  <2>2. memo' \in [faults : [Game \cup Pair -> 0 .. FAULT_HOLD_AFTER], held : SUBSET (Game \cup Pair)]
    <3>1. n.pair \in SUBSET (Game \cup Pair) /\ (n.pair \cup n.landed) \in SUBSET (Game \cup Pair)
      BY <1>0, Zenon
    <3> QED
      BY <2>1, <3>1, MemoTypes, Zenon
  <2>3. job' = [job EXCEPT ![j] = Idle]
    BY <1>1, Zenon DEF Fate
  <2>4. \/ \E back \in {{}, n.pair} : queue' = [queue EXCEPT !.msgs = @ \cup back]
        \/ queue' = [queue EXCEPT !.lost = @ \ n.pair, !.stamps = @ \ n.pair]
    BY <1>1, Zenon DEF Fate
  <2>5. queue' \in [notes : SUBSET Pair, direct : SUBSET Pair, msgs : SUBSET Pair,
                    lost : SUBSET Pair, stamps : SUBSET Pair]
    <3>1. CASE \E back \in {{}, n.pair} : queue' = [queue EXCEPT !.msgs = @ \cup back]
      <4>1. PICK back \in {{}, n.pair} : queue' = [queue EXCEPT !.msgs = @ \cup back]
        BY <3>1, Zenon
      <4>2. back \subseteq Pair
        BY <1>0, Zenon
      <4> QED
        BY <1>0, <4>1, <4>2, Zenon
    <3>2. CASE queue' = [queue EXCEPT !.lost = @ \ n.pair, !.stamps = @ \ n.pair]
      BY <1>0, <3>2, Zenon
    <3> QED
      BY <2>4, <3>1, <3>2, Zenon
  <2>6. job' \in [Job -> JobRecord]
    BY <2>3, IdleIs, JobTypes, Zenon
  <2> QED
    BY <1>1, <2>2, <2>5, <2>6, SomeTypes, Zenon DEF Fate, Types, TypeOK
<1>2. ASSUME NEW p \in Pair, Direct(p)
      PROVE  Types'
  <2> DEFINE G == Marked(p) \ memo.held
             b == IF Phase = "C" THEN MarksBound(G) ELSE 0
             m == [Idle EXCEPT !.at = "hold", !.games = G, !.bound = b]
  <2>1. m \in JobRecord
    <3>1. G \in SUBSET Game
      BY Zenon DEF Marked
    <3>2. b \in Nat
      BY <3>1, MarksBoundIs, Zenon
    <3>3. "hold" \in Step
      BY Zenon DEF Step, Working
    <3> HIDE DEF G, b
    <3> QED
      BY <3>1, <3>2, <3>3, IdleIs, Zenon DEF JobRecord
  <2>2. job' = job \/ job' = [job EXCEPT !["direct"] = m]
    BY <1>2, Zenon DEF Direct
  <2> HIDE DEF m
  <2>3. job' \in [Job -> JobRecord]
    BY <1>0, <2>1, <2>2, JobTypes, Zenon
  <2>4. queue' \in [notes : SUBSET Pair, direct : SUBSET Pair, msgs : SUBSET Pair,
                    lost : SUBSET Pair, stamps : SUBSET Pair]
    BY <1>0, <1>2, Zenon DEF Direct
  <2> QED
    BY <1>2, <2>3, <2>4, SomeTypes, Zenon DEF Direct, Types, TypeOK
<1>3. ASSUME NEW p \in Pair, NEW g \in Game, Find(p, g)
      PROVE  Types'
  <2> DEFINE m == [Idle EXCEPT !.at = First("belt"), !.pair = {p}, !.games = {g}]
  <2>1. m \in JobRecord
    BY <1>0, StepsAre, IdleIs, Zenon DEF JobRecord
  <2>2. job' = [job EXCEPT !["belt"] = m]
    BY <1>3, Zenon DEF Find
  <2> HIDE DEF m
  <2>3. job' \in [Job -> JobRecord]
    BY <1>0, <2>1, <2>2, JobTypes, Zenon
  <2> QED
    BY <1>3, <2>3, SomeTypes, Zenon DEF Find, Types, TypeOK
<1>4. ASSUME NEW j \in Job, Ends(j)
      PROVE  Types'
  <2>1. job' = [job EXCEPT ![j] = Idle] /\ actor' = Free(j)
    BY <1>4, Zenon DEF Ends, Leaves
  <2>2. job' \in [Job -> JobRecord]
    BY <2>1, IdleIs, JobTypes, Zenon
  <2>3. actor' \in [warm : BOOLEAN, row : [Game -> [Pair -> Nat]], covered : [Game -> Nat],
                    held : SUBSET Game, turn : Job \cup {"free"}, paged : BOOLEAN]
    BY <2>1, FreeTypes, Zenon
  <2> QED
    BY <1>4, <2>2, <2>3, SomeTypes, Zenon DEF Ends, Leaves, Types, TypeOK
<1>5. ASSUME BootStep
      PROVE  Types'
  <2> DEFINE G == IF actor.paged THEN actor.held ELSE Game
             b == MarksBound(G)
             m == [Idle EXCEPT !.at = "closure", !.games = G, !.todo = G \cap actor.held, !.seen = b]
  <2>1. m \in JobRecord
    <3>1. G \in SUBSET Game
      BY <1>0, Zenon
    <3>2. b \in Nat
      BY <3>1, MarksBoundIs, Zenon
    <3>3. "closure" \in Step
      BY Zenon DEF Step, Working
    <3> HIDE DEF G, b
    <3> QED
      BY <1>0, <3>1, <3>2, <3>3, IdleIs, Zenon DEF JobRecord
  <2>2. job' = [job EXCEPT !["boot"] = m] /\ actor' = [actor EXCEPT !.turn = "boot"]
    BY <1>5, Zenon DEF BootStep
  <2> HIDE DEF m
  <2>3. job' \in [Job -> JobRecord]
    BY <1>0, <2>1, <2>2, JobTypes, Zenon
  <2>4. actor' \in [warm : BOOLEAN, row : [Game -> [Pair -> Nat]], covered : [Game -> Nat],
                    held : SUBSET Game, turn : Job \cup {"free"}, paged : BOOLEAN]
    BY <1>0, <2>2, TurnTypes, Zenon
  <2> QED
    BY <1>5, <2>3, <2>4, SomeTypes, Zenon DEF BootStep, Types, TypeOK
<1>6. ASSUME BootEnd
      PROVE  Types'
  <2>1. job' = [job EXCEPT !["boot"] = Idle]
    BY <1>6, Zenon DEF BootEnd, Leaves
  <2>2. job' \in [Job -> JobRecord]
    BY <1>0, <2>1, IdleIs, JobTypes, Zenon
  <2> QED
    BY <1>0, <1>6, <2>2, FreeTypes, SomeTypes, Zenon DEF BootEnd, Leaves, Types, TypeOK
<1> QED
  BY <1>1, <1>2, <1>3, <1>4, <1>5, <1>6, Zenon

\* The queue, the memos, the actor's stamp and reset.
LEMMA QueueTypes ==
  ASSUME Types, LeftOK',
         \/ \E p \in Pair : Publish(p) \/ PublishLost(p) \/ Sweep(p) \/ StampLapses(p)
         \/ \E x \in Game \cup Pair : HoldEnds(x)
         \/ Stamp \/ Reset
  PROVE  Types'
<1>0. /\ queue \in [notes : SUBSET Pair, direct : SUBSET Pair, msgs : SUBSET Pair,
                    lost : SUBSET Pair, stamps : SUBSET Pair]
      /\ memo \in [faults : [Game \cup Pair -> 0 .. FAULT_HOLD_AFTER], held : SUBSET (Game \cup Pair)]
  BY Zenon DEF Types, TypeOK
<1>1. ASSUME NEW p \in Pair, Publish(p)
      PROVE  Types'
  <2>1. \/ queue' = [queue EXCEPT !.notes = @ \ {p}]
        \/ \E D \in {queue.direct, queue.direct \cup {p}} :
             queue' = [queue EXCEPT !.notes = @ \ {p}, !.msgs = @ \cup {p}, !.direct = D]
    BY <1>1, Zenon DEF Publish
  <2>2. CASE queue' = [queue EXCEPT !.notes = @ \ {p}]
    <3>1. queue' \in [notes : SUBSET Pair, direct : SUBSET Pair, msgs : SUBSET Pair,
                    lost : SUBSET Pair, stamps : SUBSET Pair]
      BY <1>0, <2>2, Zenon
    <3> QED
      BY <1>1, <3>1, SomeTypes, Zenon DEF Publish, Types, TypeOK
  <2>3. ASSUME NEW D \in {queue.direct, queue.direct \cup {p}},
               queue' = [queue EXCEPT !.notes = @ \ {p}, !.msgs = @ \cup {p}, !.direct = D]
        PROVE  Types'
    <3>1. queue' \in [notes : SUBSET Pair, direct : SUBSET Pair, msgs : SUBSET Pair,
                    lost : SUBSET Pair, stamps : SUBSET Pair]
      BY <1>0, <2>3, Zenon
    <3> QED
      BY <1>1, <3>1, SomeTypes, Zenon DEF Publish, Types, TypeOK
  <2> QED
    BY <2>1, <2>2, <2>3, Zenon
<1>2. ASSUME NEW p \in Pair, PublishLost(p)
      PROVE  Types'
  <2>1. \E noted \in {{}, {p}} : queue' = [queue EXCEPT !.notes = @ \ {p}, !.lost = @ \cup noted]
    BY <1>2, Zenon DEF PublishLost
  <2>2. queue' \in [notes : SUBSET Pair, direct : SUBSET Pair, msgs : SUBSET Pair,
                    lost : SUBSET Pair, stamps : SUBSET Pair]
    <3>1. PICK noted \in {{}, {p}} : queue' = [queue EXCEPT !.notes = @ \ {p}, !.lost = @ \cup noted]
      BY <2>1, Zenon
    <3> QED
      BY <1>0, <3>1, Zenon
  <2> QED
    BY <1>2, <2>2, SomeTypes, Zenon DEF PublishLost, Types, TypeOK
<1>3. ASSUME NEW p \in Pair, Sweep(p) \/ StampLapses(p)
      PROVE  Types'
  <2>1. queue' \in [notes : SUBSET Pair, direct : SUBSET Pair, msgs : SUBSET Pair,
                    lost : SUBSET Pair, stamps : SUBSET Pair]
    <3>1. CASE Sweep(p)
      BY <1>0, <3>1, Zenon DEF Sweep
    <3>2. CASE StampLapses(p)
      BY <1>0, <3>2, Zenon DEF StampLapses
    <3> QED
      BY <1>3, <3>1, <3>2, Zenon
  <2> QED
    BY <1>3, <2>1, SomeTypes, Zenon DEF Sweep, StampLapses, Types, TypeOK
<1>4. ASSUME NEW x \in Game \cup Pair, HoldEnds(x)
      PROVE  Types'
  <2>1. memo' \in [faults : [Game \cup Pair -> 0 .. FAULT_HOLD_AFTER], held : SUBSET (Game \cup Pair)]
    BY <1>0, <1>4, Zenon DEF HoldEnds
  <2> QED
    BY <1>4, <2>1, SomeTypes, Zenon DEF HoldEnds, Types, TypeOK
<1>5. CASE Stamp \/ Reset
  <2>1. actor' \in [warm : BOOLEAN, row : [Game -> [Pair -> Nat]], covered : [Game -> Nat],
                    held : SUBSET Game, turn : Job \cup {"free"}, paged : BOOLEAN]
    <3>1. CASE Stamp
      BY <3>1, Zenon DEF Stamp, Types, TypeOK
    <3>2. CASE Reset
      BY <3>2, Zenon DEF Reset, Types, TypeOK
    <3> QED
      BY <1>5, <3>1, <3>2, Zenon
  <2> QED
    BY <1>5, <2>1, SomeTypes DEF Stamp, Reset, Types, TypeOK
<1> QED
  BY <1>1, <1>2, <1>3, <1>4, <1>5, Zenon

\* The writes, and Phase A's find.
LEMMA WriteTypes ==
  ASSUME Types, LeftOK', (\E p \in Pair : Write(p)) \/ FindWrite \/ FindCommit
  PROVE  Types'
<1>0. /\ job \in [Job -> JobRecord] /\ "belt" \in Job /\ job["belt"] \in JobRecord
      /\ job["belt"].pair \subseteq Pair /\ job["belt"].games \subseteq Game
      /\ job["belt"].facts \in [Pair -> Nat] /\ ver \in [Pair -> Nat] /\ seq \in Nat
      /\ rows \in [Game -> [Pair -> Nat]] /\ mark \in [Game -> [Pair -> Nat]]
      /\ queue \in [notes : SUBSET Pair, direct : SUBSET Pair, msgs : SUBSET Pair,
                    lost : SUBSET Pair, stamps : SUBSET Pair]
  BY Zenon DEF Types, TypeOK, Job, JobRecord
<1>1. ASSUME NEW p \in Pair, Write(p)
      PROVE  Types'
  <2>1. /\ ver' \in [Pair -> Nat] /\ seq' \in Nat /\ mark' \in [Game -> [Pair -> Nat]]
        /\ \A g \in Game, q \in Pair : mark'[g][q] <= seq'
    <3>1. Names[p] \in SUBSET Game /\ Dirty(p, Names[p])
      BY <1>1, OwedMarksAssumption, Zenon DEF Write
    <3> QED
      BY <3>1, DirtyTypes, Zenon
  <2>2. queue' \in [notes : SUBSET Pair, direct : SUBSET Pair, msgs : SUBSET Pair,
                    lost : SUBSET Pair, stamps : SUBSET Pair]
    BY <1>0, <1>1, Zenon DEF Write
  <2> QED
    BY <1>1, <2>1, <2>2, Zenon DEF Write, Types, TypeOK
<1>2. CASE FindWrite
  <2>1. PICK q \in job["belt"].pair : Dirty(q, job["belt"].games)
    BY <1>2, Zenon DEF FindWrite
  <2>2. /\ ver' \in [Pair -> Nat] /\ seq' \in Nat /\ mark' \in [Game -> [Pair -> Nat]]
        /\ \A g \in Game, r \in Pair : mark'[g][r] <= seq'
    BY <1>0, <2>1, DirtyTypes, Zenon
  <2>3. queue' \in [notes : SUBSET Pair, direct : SUBSET Pair, msgs : SUBSET Pair,
                    lost : SUBSET Pair, stamps : SUBSET Pair]
    BY <1>0, <1>2, Zenon DEF FindWrite
  <2>4. job' \in [Job -> JobRecord]
    <3>1. AfterWrite \in Step /\ job' = [job EXCEPT !["belt"].at = AfterWrite]
      BY <1>0, <1>2, StepsAre, Zenon DEF FindWrite
    <3> QED
      BY <1>0, <3>1, Zenon DEF JobRecord
  <2> QED
    BY <1>2, <2>2, <2>3, <2>4, Zenon DEF FindWrite, Types, TypeOK
<1>3. CASE FindCommit
  <2> DEFINE n == job["belt"]
             judged == [q \in Pair |-> IF q \in n.pair /\ n.facts[q] = ver[q] THEN ver[q] + 1 ELSE n.facts[q]]
  <2>1. /\ ver' = [q \in Pair |-> IF q \in n.pair THEN ver[q] + 1 ELSE ver[q]]
        /\ seq' = seq + 1 /\ rows' = [g \in Game |-> IF g \in n.games THEN judged ELSE rows[g]]
        /\ AckDirty(n.games, n.seen, n.pair) /\ queue' = [queue EXCEPT !.notes = @ \cup n.pair]
        /\ job' = [job EXCEPT !["belt"] = Idle]
    BY <1>3, Zenon DEF FindCommit
  <2>2. judged \in [Pair -> Nat]
    BY <1>0
  <2> HIDE DEF judged
  <2>3. ver' \in [Pair -> Nat] /\ seq' \in Nat /\ rows' \in [Game -> [Pair -> Nat]]
    BY <1>0, <2>1, <2>2
  <2>4. mark' \in [Game -> [Pair -> Nat]] /\ \A g \in Game, q \in Pair : mark'[g][q] \in {0, mark[g][q]}
    BY <2>1, AckTypes, Zenon
  <2>5. ASSUME NEW g \in Game, NEW q \in Pair
        PROVE  mark'[g][q] <= seq'
    <3>1. mark[g][q] \in Nat /\ mark[g][q] <= seq /\ mark'[g][q] \in {0, mark[g][q]}
      BY <1>0, <2>4, Zenon DEF Types
    <3> QED
      BY <1>0, <2>1, <3>1
  <2>6. queue' \in [notes : SUBSET Pair, direct : SUBSET Pair, msgs : SUBSET Pair,
                    lost : SUBSET Pair, stamps : SUBSET Pair]
    BY <1>0, <2>1, Zenon
  <2>7. job' \in [Job -> JobRecord]
    BY <1>0, <2>1, IdleIs, JobTypes, Zenon
  <2> QED
    BY <1>3, <2>3, <2>4, <2>5, <2>6, <2>7, Zenon DEF FindCommit, Types, TypeOK
<1> QED
  BY <1>1, <1>2, <1>3, Zenon

\* The read.
LEMMA ReadTypes ==
  ASSUME Types, LeftOK', (\E g \in Game : ReadMarks(g)) \/ ReadRows
  PROVE  Types'
<1>0. /\ mark \in [Game -> [Pair -> Nat]] /\ rows \in [Game -> [Pair -> Nat]] /\ ver \in [Pair -> Nat]
      /\ Zero \in [Pair -> Nat]
      /\ read \in [at : {"idle", "rows", "press", "none"}, game : SUBSET Game, marks : [Pair -> Nat],
                   need : [Pair -> Nat], row : [Pair -> Nat]]
      /\ actor.row \in [Game -> [Pair -> Nat]]
  BY Zenon DEF Types, TypeOK, Zero
<1>1. ASSUME NEW g \in Game, ReadMarks(g)
      PROVE  Types'
  <2>1. read' \in [at : {"idle", "rows", "press", "none"}, game : SUBSET Game, marks : [Pair -> Nat],
                   need : [Pair -> Nat], row : [Pair -> Nat]]
    BY <1>0, <1>1, Zenon DEF ReadMarks
  <2> QED
    BY <1>1, <2>1, Zenon DEF ReadMarks, Types, TypeOK
<1>2. CASE ReadRows
  <2>1. \/ \E h \in read.game : \E R \in {read.row, actor.row[h]} :
             read' = [read EXCEPT !.at = "press", !.marks = Zero, !.row = R]
        \/ read' = [read EXCEPT !.at = "none", !.marks = Zero, !.need = Zero, !.row = Zero]
    BY <1>2, Zenon DEF ReadRows
  <2>2. read' \in [at : {"idle", "rows", "press", "none"}, game : SUBSET Game, marks : [Pair -> Nat],
                   need : [Pair -> Nat], row : [Pair -> Nat]]
    <3>1. ASSUME NEW h \in read.game, NEW R \in {read.row, actor.row[h]},
                 read' = [read EXCEPT !.at = "press", !.marks = Zero, !.row = R]
          PROVE  read' \in [at : {"idle", "rows", "press", "none"}, game : SUBSET Game, marks : [Pair -> Nat],
                            need : [Pair -> Nat], row : [Pair -> Nat]]
      <4>1. R \in [Pair -> Nat]
        BY <1>0
      <4> QED
        BY <1>0, <3>1, <4>1, Zenon
    <3>2. CASE read' = [read EXCEPT !.at = "none", !.marks = Zero, !.need = Zero, !.row = Zero]
      BY <1>0, <3>2, Zenon
    <3> QED
      BY <2>1, <3>1, <3>2, Zenon
  <2> QED
    BY <1>2, <2>2, Zenon DEF ReadRows, Types, TypeOK
<1> QED
  BY <1>1, <1>2, Zenon

\* Every step keeps the types.
LEMMA TypesStep ==
  ASSUME Types, [Next]_vars
  PROVE  Types'
<1>0. LeftOK'
  BY PhaseStands, Zenon DEF Types
<1>1. CASE UNCHANGED vars
  BY <1>0, <1>1, Zenon DEF vars, Types, TypeOK
<1>2. CASE \/ \E p \in Pair : Publish(p) \/ PublishLost(p) \/ Sweep(p) \/ StampLapses(p)
           \/ \E x \in Game \cup Pair : HoldEnds(x)
           \/ Stamp \/ Reset
  BY <1>0, <1>2, QueueTypes, Zenon
<1>3. CASE (\E p \in Pair : Write(p)) \/ FindWrite \/ FindCommit
  BY <1>0, <1>3, WriteTypes, Zenon
<1>4. CASE \/ \E j \in Job : Fate(j) \/ Ends(j)
           \/ \E p \in Pair : Direct(p) \/ \E g \in Game : Find(p, g)
           \/ BootStep \/ BootEnd
  BY <1>0, <1>4, RestTypes, Zenon
<1>5. CASE (\E g \in Game : ReadMarks(g)) \/ ReadRows
  BY <1>0, <1>5, ReadTypes, Zenon
<1>6. ASSUME NEW c \in Consumer, (\E p \in Pair : Take(c, p)) \/ Delivered(c) \/ DeliveryFault(c) \/ Wall(c)
      PROVE  Types'
  BY <1>0, <1>6, ConsumerTypes, Zenon
<1>7. ASSUME NEW j \in Job, Judge(j) \/ ClosureBound(j)
      PROVE  Types'
  <2>1. CASE Delivered(j)
    BY <1>6, <2>1, Zenon DEF Delivered
  <2>2. CASE Fate(j)
    BY <1>4, <2>2, Zenon
  <2> QED
    BY <1>0, <1>7, <2>1, <2>2, DeliveryTypes, Zenon DEF Judge
<1> QED
  BY <1>1, <1>2, <1>3, <1>4, <1>5, <1>6, <1>7, Zenon DEF Next

\* The types hold initially.
LEMMA TypesInit == Init => Types
<1> SUFFICES ASSUME Init PROVE Types
  BY Zenon
<1>1. LeftOK
  BY OwedMarksAssumption, Zenon DEF Init, LeftOK
<1>2. Zero \in [Pair -> Nat] /\ \A p \in Pair : Zero[p] = 0
  BY Zenon DEF Zero
<1>3. \A g \in Game, p \in Pair : mark[g][p] <= seq
  BY <1>2 DEF Init
<1>4. TypeOK
  <2>1. /\ ver \in [Pair -> Nat] /\ seq \in Nat
        /\ mark \in [Game -> [Pair -> Nat]] /\ rows \in [Game -> [Pair -> Nat]]
    BY <1>2, Zenon DEF Init
  <2>2. actor \in [warm : BOOLEAN, row : [Game -> [Pair -> Nat]], covered : [Game -> Nat],
                   held : SUBSET Game, turn : Job \cup {"free"}, paged : BOOLEAN]
    BY <1>2, Zenon DEF Init
  <2>3. queue \in [notes : SUBSET Pair, direct : SUBSET Pair, msgs : SUBSET Pair,
                   lost : SUBSET Pair, stamps : SUBSET Pair]
    BY Zenon DEF Init
  <2>4. memo \in [faults : [Game \cup Pair -> 0 .. FAULT_HOLD_AFTER], held : SUBSET (Game \cup Pair)]
    BY OwedMarksAssumption DEF Init
  <2>5. job \in [Job -> JobRecord]
    BY IdleIs, Zenon DEF Init
  <2>6. read \in [at : {"idle", "rows", "press", "none"}, game : SUBSET Game, marks : [Pair -> Nat],
                  need : [Pair -> Nat], row : [Pair -> Nat]]
    BY <1>2, Zenon DEF Init
  <2> QED
    BY <2>1, <2>2, <2>3, <2>4, <2>5, <2>6, Zenon DEF TypeOK
<1> QED
  BY <1>1, <1>3, <1>4, Zenon DEF Types

\* Every variable keeps its shape, whatever the phase and whoever judges.
THEOREM TypeOKHolds == Spec => []TypeOK
<1>1. Types => TypeOK
  BY Zenon DEF Types
<1>2. Types /\ [Next]_vars => Types'
  BY TypesStep, Zenon
<1> QED
  BY <1>1, <1>2, TypesInit, PTL DEF Spec

-----------------------------------------------------------------------------
(* A step, put together from what it does. *)

\* What Now reads.
LEMMA NowIs ==
  /\ Now.ver = ver /\ Now.seq = seq /\ Now.mark = mark /\ Now.rows = rows /\ Now.row = actor.row
  /\ Now.covered = actor.covered /\ Now.held = actor.held /\ Now.warm = actor.warm
  /\ Now.paged = actor.paged /\ Now.boot = job["boot"] /\ Now.phase = left.phase
BY Zenon DEF Now

\* And what it reads after a step.
LEMMA NowBecomes ==
  /\ Now'.ver = ver' /\ Now'.seq = seq' /\ Now'.mark = mark' /\ Now'.rows = rows' /\ Now'.row = actor'.row
  /\ Now'.covered = actor'.covered /\ Now'.held = actor'.held /\ Now'.warm = actor'.warm
  /\ Now'.paged = actor'.paged /\ Now'.boot = job'["boot"] /\ Now'.phase = left'.phase
BY Zenon DEF Now

\* Now has the types of what it reads.
LEMMA NowTyped == Types => Typed(Now)
<1> SUFFICES ASSUME Types PROVE Typed(Now)
  BY Zenon
<1>1. "boot" \in Job
  BY Zenon DEF Job
<1> QED
  BY <1>1, NowIs, Zenon DEF Typed, Types, TypeOK, LeftOK

\* And after a step.
LEMMA NowTypedNext == Types' => Typed(Now')
<1> SUFFICES ASSUME Types' PROVE Typed(Now')
  BY Zenon
<1>1. "boot" \in Job
  BY Zenon DEF Job
<1> QED
  BY <1>1, NowBecomes, Zenon DEF Typed, Types, TypeOK, LeftOK

\* The state stands.
LEMMA TickSame ==
  ASSUME NEW c, Typed(c)
  PROVE  Tick(c, c)
BY DEF Tick, Typed

\* A step that changes no row that is served, and not what a read has.
LEMMA Assemble ==
  ASSUME Inv, Types', Tick(Now, Now'), Now'.row = Now.row, Now.phase = "A" => Now'.rows = Now.rows,
         \A g \in Game : Now'.covered[g] = Now.covered[g] \/ Now'.covered[g] = 0,
         read' = read, TurnOK', BootOK(Now'),
         \A j \in Job : job'[j] = job[j] \/ JobOK(Now', read, j, job'[j])
  PROVE  Inv'
<1> DEFINE c == Now
           d == Now'
<1>1. Typed(c) /\ Typed(d)
  BY NowTyped, NowTypedNext, Zenon DEF Inv
<1>2. d.phase = c.phase /\ \A p \in Pair : c.ver[p] <= d.ver[p]
  BY Zenon DEF Tick
<1>3. ASSUME NEW j \in Job
      PROVE  JobOK(d, read, j, job'[j])
  <2>1. CASE job'[j] = job[j]
    <3>1. JobOK(c, read, j, job[j])
      BY Zenon DEF Inv
    <3>2. Core(d, j, job[j])
      BY <1>1, <3>1, TickCore, Zenon DEF JobOK
    <3>3. Newest(d, job[j])
      BY <1>2, <3>1, Zenon DEF JobOK, Newest
    <3> QED
      BY <2>1, <3>1, <3>2, <3>3, ZenonT(40) DEF JobOK
  <2> QED
    BY <2>1, Zenon
<1>4. RowsOK(d)
  <2>1. ASSUME d.phase = "A", NEW g \in Game, NEW p \in Pair
        PROVE  d.rows[g][p] <= d.ver[p]
    <3>1. /\ c.rows[g][p] <= c.ver[p] /\ d.rows[g][p] = c.rows[g][p] /\ c.ver[p] <= d.ver[p]
          /\ c.rows[g][p] \in Nat /\ c.ver[p] \in Nat /\ d.ver[p] \in Nat
      BY <1>1, <1>2, <2>1, Zenon DEF Inv, RowsOK, Typed
    <3> QED
      BY <3>1
  <2> QED
    BY <1>1, <2>1, TickRows, Zenon DEF Inv
<1>5. MarkOK(d)
  BY <1>1, TickMarks, Zenon DEF Inv
<1>6. ReadOK(d, read)
  BY <1>1, TickRead, Zenon DEF Inv, Types, TypeOK
<1>7. ReadCurrent' /\ OneRead'
  BY Zenon DEF Inv, ReadCurrent, OneRead
<1> QED
  BY <1>3, <1>4, <1>5, <1>6, <1>7, Zenon DEF Inv

\* One judge moves, and nothing else that the others depend on.
LEMMA OneJudge ==
  ASSUME Inv, Types', Now' = Now, read' = read, TurnOK',
         \A k \in Job : job'[k] = job[k] \/ JobOK(Now, read, k, job'[k])
  PROVE  Inv'
<1>1. Tick(Now, Now')
  BY NowTyped, TickSame, Zenon DEF Inv
<1>2. BootOK(Now')
  BY Zenon DEF Inv
<1> QED
  BY <1>1, <1>2, Assemble, Zenon

\* A judge that has no facts in hand, and may delete no mark.
LEMMA PlainJob ==
  ASSUME NEW c, NEW r, NEW j, NEW n \in JobRecord, n.bound <= c.seq, n.seen <= c.seq,
         n.at \notin {"land", "commit", "ack"},
         n.at \in {"seen", "facts"} => c.phase = "A",
         j = "belt" => \A p \in n.pair : Names[p] = n.games
  PROVE  JobOK(c, r, j, n)
<1>1. ~Judging(c, n) /\ ~Settling(c, n)
  BY Zenon DEF Judging, Settling
<1>2. Core(c, j, n)
  BY <1>1, Zenon DEF Core
<1> QED
  BY <1>2, Zenon DEF JobOK, Newest, ReadJob

-----------------------------------------------------------------------------
(* The steps of one judge that change nothing but its record, and the turn. *)

\* What the judges depend on stands.
LEMMA NowStands ==
  ASSUME ver' = ver, seq' = seq, mark' = mark, rows' = rows, left'.phase = left.phase,
         actor'.row = actor.row, actor'.covered = actor.covered, actor'.held = actor.held,
         actor'.warm = actor.warm, actor'.paged = actor.paged, job'["boot"] = job["boot"]
  PROVE  Now' = Now
BY Zenon DEF Now

\* The bootstrap takes none of the steps of a delivery but its closure and its landing.
LEMMA NotBoot ==
  ASSUME Inv, NEW j \in Job, job[j].at \notin {"idle", "closure", "land", "end"}
  PROVE  j # "boot"
BY NowIs, Zenon DEF Inv, BootOK

\* The records of the judges.
LEMMA JobIs ==
  ASSUME Inv, NEW j \in Job
  PROVE  /\ job[j] \in JobRecord /\ JobOK(Now, read, j, job[j]) /\ Core(Now, j, job[j])
         /\ job[j].bound <= seq /\ job[j].seen <= seq
         /\ job[j].games \in SUBSET Game /\ job[j].facts \in [Pair -> Nat]
         /\ job[j].at \in {"closure", "land"} <=> actor.turn = j
BY NowIs, Zenon DEF Inv, Types, TypeOK, JobRecord, JobOK, Core, TurnOK

\* The turn is as it was, and the judge that moves did not have it and does not take it.
LEMMA TurnStands ==
  ASSUME Inv, NEW j \in Job, \A k \in Job \ {j} : job'[k] = job[k], actor'.turn = actor.turn,
         job[j].at \in {"closure", "land"} <=> job'[j].at \in {"closure", "land"}
  PROVE  TurnOK'
BY Zenon DEF Inv, TurnOK

\* A judge that moves on with no facts in hand, and may delete no mark.
LEMMA PlainMove ==
  ASSUME Inv, Types', NEW j \in Job, j # "boot", \A k \in Job \ {j} : job'[k] = job[k],
         ver' = ver, seq' = seq, mark' = mark, rows' = rows, left'.phase = left.phase, read' = read,
         actor'.row = actor.row, actor'.covered = actor.covered, actor'.held = actor.held,
         actor'.warm = actor.warm, actor'.paged = actor.paged, TurnOK',
         job'[j].bound <= seq, job'[j].seen <= seq, job'[j].at \notin {"land", "commit", "ack"},
         job'[j].at \in {"seen", "facts"} => left.phase = "A",
         j = "belt" => \A p \in job'[j].pair : Names[p] = job'[j].games
  PROVE  Inv'
<1>1. job'["boot"] = job["boot"]
  BY Zenon DEF Job
<1>2. Now' = Now
  BY <1>1, NowStands, Zenon
<1>3. job'[j] \in JobRecord
  BY Zenon DEF Types, TypeOK
<1>4. JobOK(Now, read, j, job'[j])
  BY <1>3, NowIs, PlainJob, Zenon
<1> QED
  BY <1>2, <1>4, OneJudge, Zenon

\* The turn of a judge that has none.
LEMMA TurnFreed ==
  ASSUME Inv, NEW j \in Job, \A k \in Job \ {j} : job'[k] = job[k],
         actor'.turn = (IF actor.turn = j THEN "free" ELSE actor.turn),
         job'[j].at \notin {"closure", "land"}
  PROVE  TurnOK'
<1>1. "free" \notin Job
  BY OwedMarksAssumption, Zenon DEF Job
<1> QED
  BY <1>1 DEF Inv, TurnOK

\* Reading the bound of the marks keeps the invariant.
LEMMA BoundKeeps ==
  ASSUME Inv, Types', NEW j \in Job, Bound(j)
  PROVE  Inv'
<1> DEFINE n == job[j]
           m == job'[j]
<1>1. /\ n.at = "bound" /\ job' = [job EXCEPT ![j].at = AfterBound, ![j].bound = MarksBound(n.games)]
      /\ UNCHANGED <<ver, seq, mark, rows, actor, queue, memo, read, left>>
  BY Zenon DEF Bound, At
<1>2. n \in JobRecord /\ n.games \in SUBSET Game /\ n.seen <= seq /\ job \in [Job -> JobRecord]
  BY JobIs, Zenon DEF Inv, Types, TypeOK
<1>3. /\ m.at = AfterBound /\ m.bound = MarksBound(n.games) /\ m.pair = n.pair /\ m.games = n.games
      /\ m.seen = n.seen /\ \A k \in Job \ {j} : job'[k] = job[k]
  BY <1>1, <1>2, Zenon DEF JobRecord
<1>4. AfterBound \in {"seen", "hold"} /\ (AfterBound = "seen" => left.phase = "A")
  BY Zenon DEF AfterBound, Phase
<1>5. j # "boot"
  BY <1>1, NotBoot, Zenon
<1>6. MarksBound(n.games) <= seq
  BY <1>2, MarksBoundIs, Zenon DEF Inv
<1>7. j = "belt" => \A p \in m.pair : Names[p] = m.games
  BY <1>3, JobIs, Zenon DEF Core
<1>8. TurnOK'
  BY <1>1, <1>3, <1>4, TurnStands, Zenon
<1> QED
  BY <1>1, <1>2, <1>3, <1>4, <1>5, <1>6, <1>7, <1>8, PlainMove, Zenon

\* A judge that has read its facts just now.
LEMMA FreshJob ==
  ASSUME NEW c, NEW r, NEW j, NEW n \in JobRecord, Typed(c), RowsOK(c), ReadOK(c, r),
         n.facts = c.ver, n.bound <= c.seq, n.seen <= c.seq,
         n.at = "land" \/ (n.at = "commit" /\ c.phase = "A"),
         r.need \in [Pair -> Nat], r.game \subseteq Game,
         j = "belt" => \A p \in n.pair : Names[p] = n.games
  PROVE  JobOK(c, r, j, n)
<1>1. c.ver \in [Pair -> Nat]
  BY Zenon DEF Typed
<1>2. Fresh(c, n)
  BY <1>1 DEF Fresh
<1>3. ~Settling(c, n)
  BY Zenon DEF Settling
<1>4. Core(c, j, n)
  BY <1>2, <1>3, Zenon DEF Core
<1>5. Newest(c, n)
  BY Zenon DEF Newest, NotOlder, RowsOK
<1>6. ReadJob(r, n)
  BY <1>1, Zenon DEF ReadJob, ReadOK
<1> QED
  BY <1>4, <1>5, <1>6, Zenon DEF JobOK

\* A judge that goes on to delete the same marks.
LEMMA SettlingJob ==
  ASSUME NEW c, NEW r, NEW j, NEW n, NEW m \in JobRecord, Core(c, j, n), Settling(c, n),
         c.phase = "B", m.at \in {"seen", "facts", "commit"},
         m.games = n.games, m.bound = n.bound, m.pair = n.pair, m.seen <= c.seq
  PROVE  JobOK(c, r, j, m)
<1>1. ~Judging(c, m) /\ m.at # "ack" /\ m.at # "land"
  BY Zenon DEF Judging
<1>2. Core(c, j, m)
  BY <1>1, Zenon DEF Core
<1> QED
  BY <1>1, <1>2, Zenon DEF JobOK, Newest, ReadJob

\* Reading the bound that the rows will cover keeps it.
LEMMA SeenKeeps ==
  ASSUME Inv, Types', NEW j \in Job, Seen(j)
  PROVE  Inv'
<1> DEFINE n == job[j]
           m == job'[j]
<1>1. /\ n.at = "seen" /\ job' = [job EXCEPT ![j].at = "facts", ![j].seen = MarksBound(n.games)]
      /\ UNCHANGED <<ver, seq, mark, rows, actor, queue, memo, read, left>>
  BY Zenon DEF Seen, At
<1>2. /\ n \in JobRecord /\ n.games \in SUBSET Game /\ n.bound <= seq /\ job \in [Job -> JobRecord]
      /\ m \in JobRecord /\ Core(Now, j, n)
  BY JobIs, Zenon DEF Inv, Types, TypeOK
<1>3. /\ m.at = "facts" /\ m.seen = MarksBound(n.games) /\ m.pair = n.pair /\ m.games = n.games
      /\ m.bound = n.bound /\ \A k \in Job \ {j} : job'[k] = job[k]
  BY <1>1, <1>2, Zenon DEF JobRecord
<1>4. j # "boot"
  BY <1>1, NotBoot, Zenon
<1>5. MarksBound(n.games) <= seq
  BY <1>2, MarksBoundIs, Zenon DEF Inv
<1>6. j = "belt" => \A p \in m.pair : Names[p] = m.games
  BY <1>2, <1>3, Zenon DEF Core
<1>7. TurnOK'
  BY <1>1, <1>3, TurnStands, Zenon
<1>8. left.phase \in {"A", "B"}
  BY <1>1, <1>2, NowIs, Zenon DEF Core, Inv, Types, LeftOK
<1>9. CASE left.phase = "A"
  BY <1>1, <1>2, <1>3, <1>4, <1>5, <1>6, <1>7, <1>9, PlainMove, Zenon
<1>10. CASE left.phase = "B"
  <2>1. Settling(Now, n)
    BY <1>1, <1>10, NowIs, Zenon DEF Settling
  <2>2. JobOK(Now, read, j, m)
    BY <1>2, <1>3, <1>5, <1>10, <2>1, NowIs, SettlingJob, Zenon
  <2>3. job'["boot"] = job["boot"]
    BY <1>3, <1>4, Zenon DEF Job
  <2>4. Now' = Now
    BY <1>1, <2>3, NowStands, Zenon
  <2> QED
    BY <1>1, <1>3, <1>7, <2>2, <2>4, OneJudge, Zenon
<1> QED
  BY <1>8, <1>9, <1>10, Zenon

\* Reading the facts keeps it: they are of every write so far.
LEMMA FactsKeeps ==
  ASSUME Inv, Types', NEW j \in Job, Facts(j)
  PROVE  Inv'
<1> DEFINE n == job[j]
           m == job'[j]
<1>1. /\ n.at = "facts" /\ job' = [job EXCEPT ![j].at = "commit", ![j].facts = ver]
      /\ UNCHANGED <<ver, seq, mark, rows, actor, queue, memo, read, left>>
  BY Zenon DEF Facts, At
<1>2. /\ n \in JobRecord /\ n.bound <= seq /\ n.seen <= seq /\ job \in [Job -> JobRecord]
      /\ m \in JobRecord /\ Core(Now, j, n)
  BY JobIs, Zenon DEF Inv, Types, TypeOK
<1>3. /\ m.at = "commit" /\ m.seen = n.seen /\ m.pair = n.pair /\ m.games = n.games
      /\ m.bound = n.bound /\ m.facts = ver /\ \A k \in Job \ {j} : job'[k] = job[k]
  BY <1>1, <1>2, Zenon DEF JobRecord
<1>4. j # "boot"
  BY <1>1, NotBoot, Zenon
<1>5. j = "belt" => \A p \in m.pair : Names[p] = m.games
  BY <1>2, <1>3, Zenon DEF Core
<1>6. TurnOK'
  BY <1>1, <1>3, TurnStands, Zenon
<1>7. left.phase \in {"A", "B"}
  BY <1>1, <1>2, NowIs, Zenon DEF Core, Inv, Types, LeftOK
<1>8. JobOK(Now, read, j, m)
  <2>1. CASE left.phase = "A"
    <3>1. Typed(Now) /\ RowsOK(Now) /\ ReadOK(Now, read) /\ read.need \in [Pair -> Nat] /\ read.game \subseteq Game
      BY NowTyped, Zenon DEF Inv, Types, TypeOK
    <3> QED
      BY <1>2, <1>3, <1>5, <2>1, <3>1, NowIs, FreshJob, Zenon
  <2>2. CASE left.phase = "B"
    <3>1. Settling(Now, n)
      BY <1>1, <2>2, NowIs, Zenon DEF Settling
    <3> QED
      BY <1>2, <1>3, <2>2, <3>1, NowIs, SettlingJob, Zenon
  <2> QED
    BY <1>7, <2>1, <2>2, Zenon
<1>9. job'["boot"] = job["boot"]
  BY <1>3, <1>4, Zenon DEF Job
<1>10. Now' = Now
  BY <1>1, <1>9, NowStands, Zenon
<1> QED
  BY <1>1, <1>3, <1>6, <1>8, <1>10, OneJudge, Zenon

\* What a judge goes on to, once the actor has applied or held.
LEMMA AfterIs ==
  ASSUME NEW j \in Job
  PROVE  /\ AfterApply(j) \in {"seen", "ack", "end"} /\ AfterHeld(j) \in {"seen", "ack", "end"}
         /\ "seen" \in {AfterApply(j), AfterHeld(j)} => left.phase = "B"
         /\ "ack" \in {AfterApply(j), AfterHeld(j)} => left.phase = "C"
<1>1. /\ AfterApply(j) \in {"seen", "ack", "end"} /\ (AfterApply(j) = "seen" => left.phase = "B")
      /\ AfterApply(j) = "ack" => left.phase = "C"
  BY Zenon DEF AfterApply, Phase
<1>2. AfterHeld(j) \in {"end", AfterApply(j)}
  BY Zenon DEF AfterHeld
<1> QED
  BY <1>1, <1>2, Zenon

\* A judge that begins to delete marks, with each of them justified.
LEMMA AppliedJob ==
  ASSUME NEW c, NEW r, NEW j, NEW n \in JobRecord, n.bound <= c.seq, n.seen <= c.seq,
         n.at \in {"seen", "ack", "end"}, n.at = "seen" => c.phase = "B", n.at = "ack" => c.phase = "C",
         n.at # "end" =>
           \A g \in n.games, p \in Pair : g \in Names[p] /\ c.mark[g][p] <= n.bound => Sound(c, g, p),
         j = "belt" => \A p \in n.pair : Names[p] = n.games
  PROVE  JobOK(c, r, j, n)
<1>1. ~Judging(c, n) /\ n.at # "land" /\ n.at # "commit"
  BY Zenon DEF Judging
<1>2. Settling(c, n) => n.at # "end"
  BY Zenon DEF Settling
<1>3. n.at \in {"seen", "facts", "commit"} => c.phase # "C"
  BY Zenon
<1>4. Core(c, j, n)
  BY <1>1, <1>2, <1>3, Zenon DEF Core
<1> QED
  BY <1>1, <1>4, Zenon DEF JobOK, Newest, ReadJob

\* Taking the actor's turn keeps it.
LEMMA TurnKeeps ==
  ASSUME Inv, Types', NEW j \in Job, Turn(j)
  PROVE  Inv'
<1> DEFINE n == job[j]
           m == job'[j]
<1>1. /\ n.at = "turn" /\ actor.turn = "free"
      /\ UNCHANGED <<ver, seq, mark, rows, queue, memo, read, left>>
  BY Zenon DEF Turn, At
<1>2. /\ n \in JobRecord /\ n.bound <= seq /\ n.seen <= seq /\ n.bound \in Nat /\ job \in [Job -> JobRecord]
      /\ m \in JobRecord /\ Core(Now, j, n) /\ n.games \in SUBSET Game
  BY JobIs DEF Inv, Types, TypeOK, JobRecord
<1>3. j # "boot" /\ "boot" \in Job /\ "free" \notin Job
  BY <1>1, NotBoot, OwedMarksAssumption, Zenon DEF Job
<1>4. CASE Covered(j)
  <2>1. job' = [job EXCEPT ![j].at = AfterApply(j)] /\ actor' = actor
    BY <1>4, Zenon DEF Turn
  <2>2. /\ m.at = AfterApply(j) /\ m.seen = n.seen /\ m.pair = n.pair /\ m.games = n.games
        /\ m.bound = n.bound /\ \A k \in Job \ {j} : job'[k] = job[k]
    BY <1>2, <2>1, Zenon DEF JobRecord
  <2>3. TurnOK'
    BY <1>1, <2>1, <2>2, AfterIs, TurnStands, Zenon
  <2>4. ASSUME m.at # "end", NEW g \in n.games, NEW p \in Pair, g \in Names[p], mark[g][p] <= n.bound
        PROVE  Sound(Now, g, p)
    <3>1. left.phase # "A"
      BY <2>2, <2>4, AfterIs, Zenon
    <3>2. CASE mark[g][p] = 0
      BY <1>2, <2>4, <3>2, NowIs, Zenon DEF Inv, MarkOK
    <3>3. CASE mark[g][p] # 0
      <4>1. actor.covered[g] >= n.bound
        BY <1>4, Zenon DEF Covered
      <4>2. /\ mark[g][p] \in Nat /\ actor.covered[g] \in Nat /\ ver[p] \in Nat
        BY <1>2 DEF Inv, Types, TypeOK
      <4>0. n.bound \in Nat /\ mark[g][p] <= n.bound
        BY <1>2, <2>4, Zenon
      <4>3. mark[g][p] <= actor.covered[g]
        BY <4>0, <4>1, <4>2
      <4>4. actor.row[g][p] = ver[p]
        BY <1>2, <2>4, <3>3, <4>3, NowIs, Zenon DEF Inv, RowsOK
      <4>5. job["boot"].at # "land"
        BY <1>1, <1>3, Zenon DEF Inv, TurnOK
      <4> QED
        BY <3>1, <4>2, <4>4, <4>5, NowIs DEF Sound, Enough
    <3> QED
      BY <3>2, <3>3, Zenon
  <2>5. j = "belt" => \A p \in m.pair : Names[p] = m.games
    BY <1>2, <2>2, Zenon DEF Core
  <2>6. JobOK(Now, read, j, m)
    BY <1>2, <2>2, <2>4, <2>5, AfterIs, NowIs, AppliedJob, Zenon
  <2>7. job'["boot"] = job["boot"]
    BY <1>3, <2>2, Zenon
  <2>8. Now' = Now
    BY <1>1, <2>1, <2>7, NowStands, Zenon
  <2> QED
    BY <1>1, <2>2, <2>3, <2>6, <2>8, OneJudge, Zenon
<1>5. CASE ~Covered(j)
  <2>1. /\ job' = [job EXCEPT ![j].at = "closure", ![j].seen = MarksBound(job[j].games)]
        /\ actor' = [actor EXCEPT !.turn = j]
    BY <1>5, Zenon DEF Turn
  <2>2. /\ m.at = "closure" /\ m.seen = MarksBound(n.games) /\ m.pair = n.pair /\ m.games = n.games
        /\ m.bound = n.bound /\ \A k \in Job \ {j} : job'[k] = job[k]
    BY <1>2, <2>1, Zenon DEF JobRecord
  <2>3. /\ actor'.turn = j /\ actor'.row = actor.row /\ actor'.covered = actor.covered
        /\ actor'.held = actor.held /\ actor'.warm = actor.warm /\ actor'.paged = actor.paged
    BY <2>1, TurnTypes, Zenon DEF Inv
  <2>4. TurnOK'
    BY <1>1, <1>3, <2>2, <2>3 DEF Inv, TurnOK
  <2>5. MarksBound(n.games) <= seq
    BY <1>2, MarksBoundIs, Zenon DEF Inv
  <2>6. j = "belt" => \A p \in m.pair : Names[p] = m.games
    BY <1>2, <2>2, Zenon DEF Core
  <2> QED
    BY <1>1, <1>2, <1>3, <2>2, <2>3, <2>4, <2>5, <2>6, PlainMove, Zenon
<1> QED
  BY <1>4, <1>5, Zenon

\* The consumer takes a message, goes on to the next of its games, or faults.
LEMMA ConsumerKeeps ==
  ASSUME Inv, Types', left'.phase = left.phase, NEW c \in Consumer,
         (\E p \in Pair : Take(c, p)) \/ Delivered(c) \/ DeliveryFault(c)
  PROVE  Inv'
<1> DEFINE n == job[c]
           m == job'[c]
<1>1. c \in Job /\ c \notin {"boot", "belt"} /\ First(c) = "bound"
  BY OwedMarksAssumption, Zenon DEF Job, First
<1>2. /\ n \in JobRecord /\ n.seen <= seq /\ job \in [Job -> JobRecord]
      /\ m \in JobRecord /\ seq \in Nat
  BY <1>1, JobIs, Zenon DEF Inv, Types, TypeOK
<1>3. ASSUME NEW p \in Pair, Take(c, p)
      PROVE  Inv'
  <2> DEFINE G == Marked(p) \ memo.held
             x == [Idle EXCEPT !.at = First(c), !.pair = {p}, !.games = G]
  <2>1. /\ n.at = "idle" /\ (job' = job \/ job' = [job EXCEPT ![c] = x])
        /\ UNCHANGED <<ver, seq, mark, rows, actor, read, left>>
    BY <1>3, Zenon DEF Take, At
  <2>2. x.at = "bound" /\ x.bound = 0 /\ x.seen = 0
    BY <1>1, Zenon DEF Idle
  <2> HIDE DEF x
  <2>3. CASE job' = job
    <3>1. TurnOK'
      BY <2>1, <2>3, Zenon DEF Inv, TurnOK
    <3>2. Now' = Now
      BY <2>1, <2>3, NowStands, Zenon
    <3> QED
      BY <2>1, <2>3, <3>1, <3>2, OneJudge, Zenon
  <2>4. CASE job' = [job EXCEPT ![c] = x]
    <3>1. m = x /\ \A k \in Job \ {c} : job'[k] = job[k]
      BY <1>1, <1>2, <2>4, Zenon
    <3>2. TurnOK'
      BY <1>1, <2>1, <2>2, <3>1, TurnStands, Zenon
    <3>3. /\ m.bound <= seq /\ m.seen <= seq /\ m.at \notin {"land", "commit", "ack"}
          /\ m.at \notin {"seen", "facts"}
      BY <1>2, <2>2, <3>1
    <3> QED
      BY <1>1, <2>1, <3>1, <3>2, <3>3, PlainMove, Zenon
  <2> QED
    BY <2>1, <2>3, <2>4, Zenon
<1>4. ASSUME Delivered(c)
      PROVE  Inv'
  <2> DEFINE x == [n EXCEPT !.landed = @ \cup n.games, !.bound = 0]
  <2>1. x \in JobRecord /\ x.bound = 0 /\ x.seen = n.seen
    BY <1>2, Zenon DEF JobRecord
  <2>2. NextOne(c, x) /\ n.at = "end" /\ UNCHANGED <<ver, seq, mark, rows, actor, queue, memo, read, left>>
    BY <1>4, Zenon DEF Delivered, At
  <2> HIDE DEF x
  <2>3. m.at \in {"fate", "bound"} /\ m.bound = 0 /\ m.seen = n.seen /\ \A k \in Job \ {c} : job'[k] = job[k]
    BY <2>1, <2>2, NextOneTypes, Zenon DEF Inv
  <2>4. TurnOK'
    BY <1>1, <2>2, <2>3, TurnStands, Zenon
  <2> QED
    BY <1>1, <1>2, <2>2, <2>3, <2>4, PlainMove
<1>5. ASSUME DeliveryFault(c)
      PROVE  Inv'
  <2> DEFINE x == [n EXCEPT !.bound = 0, !.seen = 0, !.facts = Zero]
             x1 == [x EXCEPT !.todo = x.games]
             x2 == [x EXCEPT !.faulted = @ \cup x.games]
  <2>1. x \in JobRecord /\ x.bound = 0 /\ x.seen = 0 /\ x.games \subseteq Game
    BY <1>2, Zenon DEF JobRecord, Zero
  <2>2. NextOne(c, x1) \/ NextOne(c, x2)
    BY <1>5, Zenon DEF DeliveryFault
  <2>3. actor' = Free(c) /\ UNCHANGED <<ver, seq, mark, rows, queue, read>>
    BY <1>5, Zenon DEF DeliveryFault
  <2> HIDE DEF x
  <2>4. x1 \in JobRecord /\ x2 \in JobRecord /\ x1.bound = 0 /\ x2.bound = 0 /\ x1.seen = 0 /\ x2.seen = 0
    BY <2>1, Zenon DEF JobRecord
  <2> HIDE DEF x1, x2
  <2>5. m.at \in {"fate", "bound"} /\ m.bound = 0 /\ m.seen = 0 /\ \A k \in Job \ {c} : job'[k] = job[k]
    BY <2>2, <2>4, NextOneTypes, Zenon DEF Inv
  <2>6. /\ actor'.turn = (IF actor.turn = c THEN "free" ELSE actor.turn) /\ actor'.row = actor.row
        /\ actor'.covered = actor.covered
        /\ actor'.held = actor.held /\ actor'.warm = actor.warm /\ actor'.paged = actor.paged
    BY <1>1, <2>3, FreeTypes, Zenon DEF Inv
  <2>7. TurnOK'
    BY <1>1, <2>5, <2>6, TurnFreed, Zenon
  <2> QED
    BY <1>1, <1>2, <2>3, <2>5, <2>6, <2>7, PlainMove
<1> QED
  BY <1>3, <1>4, <1>5, Zenon

\* A judge that does nothing.
LEMMA IdleJob ==
  ASSUME Inv, NEW j
  PROVE  JobOK(Now, read, j, Idle)
<1>1. seq \in Nat
  BY Zenon DEF Inv, Types, TypeOK
<1> QED
  BY <1>1, IdleIs, NowIs, PlainJob

\* The bootstrap is not the one that moves, and what the judges depend on stands.
LEMMA NowSame ==
  ASSUME UNCHANGED <<ver, seq, mark, rows>>, left'.phase = left.phase, job'["boot"] = job["boot"],
         actor' = actor \/ (Types /\ \E t \in Job \cup {"free"} : actor' = [actor EXCEPT !.turn = t])
  PROVE  Now' = Now
<1>1. /\ actor'.row = actor.row /\ actor'.covered = actor.covered
      /\ actor'.held = actor.held /\ actor'.warm = actor.warm /\ actor'.paged = actor.paged
  BY TurnTypes, Zenon
<1> QED
  BY <1>1, NowStands, Zenon

\* The publish, the queue, the sweep and the memos change nothing that a judge depends on.
LEMMA QueueKeeps ==
  ASSUME Inv, Types', left'.phase = left.phase,
         \/ \E p \in Pair : Publish(p) \/ PublishLost(p) \/ Sweep(p) \/ StampLapses(p)
         \/ \E x \in Game \cup Pair : HoldEnds(x)
         \/ UNCHANGED vars
  PROVE  Inv'
<1>1. UNCHANGED <<ver, seq, mark, rows, actor, job, read>>
  BY Zenon DEF Publish, PublishLost, Sweep, StampLapses, HoldEnds, vars
<1>2. TurnOK' /\ Now' = Now
  BY <1>1, NowSame, Zenon DEF Inv, TurnOK
<1> QED
  BY <1>1, <1>2, OneJudge, Zenon

\* A message's fate, the direct call, the belt's find, and the end of any of them.
LEMMA OtherKeeps ==
  ASSUME Inv, Types', left'.phase = left.phase,
         \/ \E j \in Job : Fate(j) \/ Ends(j)
         \/ \E p \in Pair : Direct(p) \/ \E g \in Game : Find(p, g)
  PROVE  Inv'
<1>0. /\ job \in [Job -> JobRecord] /\ seq \in Nat /\ {"belt", "direct", "zombie", "boot"} \subseteq Job
      /\ "free" \notin Job
  BY OwedMarksAssumption, Zenon DEF Inv, Types, TypeOK, Job
<1>1. ASSUME NEW j \in Job, Fate(j)
      PROVE  Inv'
  <2>1. /\ job[j].at = "fate" /\ job' = [job EXCEPT ![j] = Idle]
        /\ UNCHANGED <<ver, seq, mark, rows, actor, read, left>>
    BY <1>1, Zenon DEF Fate, At
  <2>2. j # "boot" /\ job'[j] = Idle /\ \A k \in Job \ {j} : job'[k] = job[k]
    BY <1>0, <2>1, NotBoot, IdleIs, Zenon
  <2>3. TurnOK'
    BY <2>1, <2>2, IdleIs, TurnStands, Zenon
  <2> QED
    BY <1>0, <2>1, <2>2, <2>3, IdleIs, PlainMove
<1>2. ASSUME NEW j \in Job, Ends(j)
      PROVE  Inv'
  <2>1. /\ j \in {"belt", "direct", "zombie"} /\ job' = [job EXCEPT ![j] = Idle]
        /\ actor' = Free(j) /\ UNCHANGED <<ver, seq, mark, rows, read>>
    BY <1>2, Zenon DEF Ends, Leaves
  <2>2. j # "boot" /\ job'[j] = Idle /\ \A k \in Job \ {j} : job'[k] = job[k]
    BY <1>0, <2>1, Zenon
  <2>3. /\ actor'.turn = (IF actor.turn = j THEN "free" ELSE actor.turn) /\ actor'.row = actor.row
        /\ actor'.covered = actor.covered
        /\ actor'.held = actor.held /\ actor'.warm = actor.warm /\ actor'.paged = actor.paged
    BY <2>1, FreeTypes, Zenon DEF Inv
  <2>4. TurnOK'
    BY <2>2, <2>3, IdleIs, TurnFreed, Zenon
  <2> QED
    BY <1>0, <2>1, <2>2, <2>3, <2>4, IdleIs, PlainMove
<1>3. ASSUME NEW p \in Pair, Direct(p)
      PROVE  Inv'
  <2> DEFINE G == Marked(p) \ memo.held
             b == IF Phase = "C" THEN MarksBound(G) ELSE 0
             x == [Idle EXCEPT !.at = "hold", !.games = G, !.bound = b]
  <2>1. /\ job["direct"].at = "idle" /\ (job' = job \/ job' = [job EXCEPT !["direct"] = x])
        /\ UNCHANGED <<ver, seq, mark, rows, actor, read, left>>
    BY <1>3, Zenon DEF Direct, At
  <2>2. G \in SUBSET Game
    BY Zenon DEF Marked
  <2>3. b <= seq
    BY <1>0, <2>2, MarksBoundIs DEF Inv
  <2> HIDE DEF b, G
  <2>4. x.at = "hold" /\ x.bound = b /\ x.seen = 0
    BY Zenon DEF Idle
  <2> HIDE DEF x
  <2>5. CASE job' = job
    <3>1. TurnOK' /\ Now' = Now
      BY <2>1, <2>5, NowSame, Zenon DEF Inv, TurnOK
    <3> QED
      BY <2>1, <2>5, <3>1, OneJudge, Zenon
  <2>6. CASE job' = [job EXCEPT !["direct"] = x]
    <3>1. job'["direct"] = x /\ \A k \in Job \ {"direct"} : job'[k] = job[k]
      BY <1>0, <2>6, Zenon
    <3>2. TurnOK'
      BY <1>0, <2>1, <2>4, <3>1, TurnStands, Zenon
    <3> QED
      BY <1>0, <2>1, <2>3, <2>4, <3>1, <3>2, PlainMove
  <2> QED
    BY <2>1, <2>5, <2>6, Zenon
<1>4. ASSUME NEW p \in Pair, NEW g \in Game, Find(p, g)
      PROVE  Inv'
  <2> DEFINE x == [Idle EXCEPT !.at = First("belt"), !.pair = {p}, !.games = {g}]
  <2>1. /\ job["belt"].at = "idle" /\ Names[p] = {g} /\ job' = [job EXCEPT !["belt"] = x]
        /\ UNCHANGED <<ver, seq, mark, rows, actor, read>>
    BY <1>4, Zenon DEF Find, At
  <2>2. First("belt") \in {"seen", "write"} /\ (First("belt") = "seen" => left.phase = "A")
    BY Zenon DEF First, Phase
  <2>3. x.at = First("belt") /\ x.bound = 0 /\ x.seen = 0 /\ x.pair = {p} /\ x.games = {g}
    BY Zenon DEF Idle
  <2> HIDE DEF x
  <2>4. job'["belt"] = x /\ \A k \in Job \ {"belt"} : job'[k] = job[k]
    BY <1>0, <2>1, Zenon
  <2>5. TurnOK'
    BY <1>0, <2>1, <2>2, <2>3, <2>4, TurnStands, Zenon
  <2>6. \A q \in job'["belt"].pair : Names[q] = job'["belt"].games
    BY <2>1, <2>3, <2>4, Zenon
  <2>7. /\ job'["belt"].bound <= seq /\ job'["belt"].seen <= seq
        /\ job'["belt"].at \notin {"land", "commit", "ack"}
        /\ job'["belt"].at \in {"seen", "facts"} => left.phase = "A"
    BY <1>0, <2>2, <2>3, <2>4
  <2> QED
    BY <1>0, <2>1, <2>4, <2>5, <2>6, <2>7, PlainMove, Zenon
<1> QED
  BY <1>1, <1>2, <1>3, <1>4, Zenon

\* The wall: a call in flight goes on without its pass, with all that is known of it.
LEMMA WallKeeps ==
  ASSUME Inv, Types', left'.phase = left.phase, NEW c \in Consumer, Wall(c)
  PROVE  Inv'
<1> DEFINE flies == job[c].at \in {"hold", "turn", "closure", "land", "commit", "ack"}
           z == IF flies THEN job[c] ELSE Idle
<1>1. /\ job["zombie"].at = "idle" /\ job' = [job EXCEPT ![c] = Idle, !["zombie"] = z]
      /\ actor' = [actor EXCEPT !.turn = IF @ = c THEN "zombie" ELSE @]
      /\ UNCHANGED <<ver, seq, mark, rows, read>>
  BY Zenon DEF Wall, At
<1>2. /\ c \in Job /\ {"zombie", "boot"} \subseteq Job /\ c \notin {"belt", "zombie", "boot"}
      /\ "free" \notin Job /\ job \in [Job -> JobRecord]
  BY OwedMarksAssumption, Zenon DEF Job, Inv, Types, TypeOK
<1>3. z = job[c] \/ z = Idle
  BY Zenon
<1>4. job[c].at \in {"closure", "land"} => z = job[c]
  BY Zenon
<1> HIDE DEF z
<1>5. /\ job'[c] = Idle /\ job'["zombie"] = z /\ job'["boot"] = job["boot"]
      /\ \A k \in Job \ {c, "zombie"} : job'[k] = job[k]
  BY <1>1, <1>2, Zenon
<1> DEFINE t == IF actor.turn = c THEN "zombie" ELSE actor.turn
<1>6. actor' = [actor EXCEPT !.turn = t] /\ t \in Job \cup {"free"}
  BY <1>1, <1>2, Zenon DEF Inv, Types, TypeOK
<1>7. Now' = Now
  BY <1>1, <1>5, <1>6, NowSame, Zenon DEF Inv
<1>8. actor'.turn = t
  BY <1>6, TurnTypes, Zenon DEF Inv
<1>9. TurnOK'
  BY <1>1, <1>2, <1>3, <1>4, <1>5, <1>8, IdleIs DEF Inv, TurnOK
<1>10. JobOK(Now, read, "zombie", job[c])
  BY <1>2, JobIs, Zenon DEF JobOK, Core
<1>11. JobOK(Now, read, c, Idle) /\ JobOK(Now, read, "zombie", Idle)
  BY IdleJob, Zenon
<1> QED
  BY <1>1, <1>3, <1>5, <1>7, <1>9, <1>10, <1>11, OneJudge, Zenon

\* The facts of an apply.  The bootstrap's are what the record is, and so is what its
\* landing will leave.
LEMMA ClosureKeeps ==
  ASSUME Inv, Types', NEW j \in Job, Closure(j)
  PROVE  Inv'
<1> DEFINE n == job[j]
           m == job'[j]
<1>1. /\ n.at = "closure" /\ job' = [job EXCEPT ![j].at = "land", ![j].facts = ver]
      /\ UNCHANGED <<ver, seq, mark, rows, actor, queue, memo, read, left>>
  BY Zenon DEF Closure, At
<1>2. /\ n \in JobRecord /\ n.bound <= seq /\ n.seen <= seq /\ job \in [Job -> JobRecord]
      /\ m \in JobRecord /\ Core(Now, j, n) /\ "boot" \in Job
  BY JobIs, Zenon DEF Inv, Types, TypeOK, Job
<1>3. /\ m.at = "land" /\ m.seen = n.seen /\ m.pair = n.pair /\ m.games = n.games /\ m.todo = n.todo
      /\ m.bound = n.bound /\ m.facts = ver /\ \A k \in Job \ {j} : job'[k] = job[k]
  BY <1>1, <1>2, Zenon DEF JobRecord
<1>4. j = "belt" => \A p \in m.pair : Names[p] = m.games
  BY <1>2, <1>3, Zenon DEF Core
<1>5. TurnOK'
  BY <1>1, <1>3, TurnStands, Zenon
<1>6. Typed(Now) /\ Typed(Now') /\ RowsOK(Now) /\ ReadOK(Now, read) /\ read.need \in [Pair -> Nat] /\ read.game \subseteq Game
  BY NowTyped, NowTypedNext, Zenon DEF Inv, Types, TypeOK
<1>7. CASE j # "boot"
  <2>1. JobOK(Now, read, j, m)
    BY <1>2, <1>3, <1>4, <1>6, NowIs, FreshJob, Zenon
  <2>2. Now' = Now
    BY <1>1, <1>2, <1>3, <1>7, NowSame, Zenon
  <2> QED
    BY <1>1, <1>3, <1>5, <2>1, <2>2, OneJudge, Zenon
<1>8. CASE j = "boot"
  <2>1. /\ Now'.ver = Now.ver /\ Now'.seq = Now.seq /\ Now'.mark = Now.mark /\ Now'.rows = Now.rows
        /\ Now'.row = Now.row /\ Now'.covered = Now.covered /\ Now'.held = Now.held /\ Now'.warm = Now.warm
        /\ Now'.paged = Now.paged /\ Now'.phase = Now.phase
        /\ Now.boot = n /\ Now'.boot = m
    BY <1>1, <1>8, NowIs, NowBecomes, Zenon
  <2>2. m.facts = Now.ver
    BY <1>3, NowIs, Zenon
  <2>3. Now'.boot.facts = Now.ver
    BY <2>1, <2>2, Zenon
  <2>4. ASSUME NEW g \in Game, NEW p \in Pair, NEW v \in Nat, v <= Now.ver[p], Enough(Now, g, p, v)
        PROVE  Enough(Now', g, p, v)
    <3>1. Now.ver[p] >= v
      BY <1>6, <2>4, Zenon DEF Typed
    <3>2. CASE Now.phase = "A"
      BY <2>1, <2>4, <3>2, Zenon DEF Enough
    <3>3. CASE Now.phase # "A"
      <4>1. Now.row[g][p] >= v \/ g \in Now.held \/ ~Now.paged
        BY <2>4, <3>3, Zenon DEF Enough
      <4> QED
        BY <2>1, <2>3, <3>1, <3>3, <4>1, Zenon DEF Enough
    <3> QED
      BY <3>2, <3>3, Zenon
  <2>5. Tick(Now, Now')
    <3>1. Now.seq <= Now'.seq /\ \A p \in Pair : Now.ver[p] <= Now'.ver[p]
      BY <1>6, <2>1 DEF Typed
    <3> QED
      BY <2>1, <2>4, <3>1, Zenon DEF Tick
  <2>6. BootOK(Now')
    <3>1. BootOK(Now) /\ Now.boot.at = "closure"
      BY <1>1, <2>1, Zenon DEF Inv
    <3> QED
      BY <1>3, <2>1, <3>1, Zenon DEF BootOK
  <2>7. RowsOK(Now') /\ ReadOK(Now', read)
    <3>1. RowsOK(Now')
      BY <1>6, <2>1 DEF RowsOK
    <3>2. read.marks \in [Pair -> Nat]
      BY Zenon DEF Inv, Types, TypeOK
    <3>3. ReadOK(Now', read)
      BY <1>6, <2>1, <2>5, <3>2, TickRead, Zenon
    <3> QED
      BY <3>1, <3>3, Zenon
  <2>8. JobOK(Now', read, j, m)
    BY <1>2, <1>3, <1>4, <1>6, <2>1, <2>7, NowIs, FreshJob, Zenon
  <2> QED
    BY <1>1, <1>3, <1>5, <2>1, <2>5, <2>6, <2>8, Assemble, Zenon
<1> QED
  BY <1>7, <1>8, Zenon

-----------------------------------------------------------------------------
(* The steps that change what the actor holds, and no row. *)

\* The marks and the rows stand, and what is judged over enough stays so.
LEMMA TickBeside ==
  ASSUME Inv, Types', left'.phase = left.phase, UNCHANGED <<ver, seq, mark, rows>>, actor'.row = actor.row,
         \A g \in Game, p \in Pair, v \in Nat :
           left.phase # "A" /\ v <= ver[p] /\ Enough(Now, g, p, v) => Enough(Now', g, p, v)
  PROVE  Tick(Now, Now')
<1>1. Typed(Now) /\ Typed(Now')
  BY NowTyped, NowTypedNext, Zenon DEF Inv
<1>2. /\ Now'.ver = Now.ver /\ Now'.seq = Now.seq /\ Now'.mark = Now.mark /\ Now'.rows = Now.rows
      /\ Now'.phase = Now.phase /\ Now.ver = ver /\ Now.phase = left.phase
  BY NowIs, NowBecomes, Zenon
<1>3. ASSUME NEW g \in Game, NEW p \in Pair, NEW v \in Nat, v <= Now.ver[p], Enough(Now, g, p, v)
      PROVE  Enough(Now', g, p, v)
  <2>1. CASE left.phase = "A"
    BY <1>2, <1>3, <2>1, Zenon DEF Enough
  <2> QED
    BY <1>2, <1>3, <2>1, Zenon
<1> QED
  BY <1>1, <1>2, <1>3 DEF Tick, Typed

\* What is known of a judge does not depend on what it drains.
LEMMA TickJob ==
  ASSUME NEW c, NEW d, NEW r, NEW j, NEW n, NEW m \in JobRecord, Typed(c), Typed(d), Tick(c, d),
         JobOK(c, r, j, n), d.row = c.row, c.phase = "A" => d.rows = c.rows,
         m.at = n.at, m.pair = n.pair, m.games = n.games, m.bound = n.bound, m.seen = n.seen,
         m.facts = n.facts
  PROVE  JobOK(d, r, j, m)
<1>1. Core(d, j, n)
  BY TickCore, Zenon DEF JobOK
<1>2. Core(d, j, m)
  BY <1>1, Zenon DEF Core, Judging, Settling, Fresh
<1>3. d.phase = c.phase
  BY Zenon DEF Tick
<1>4. Newest(d, m)
  BY <1>3, Zenon DEF JobOK, Newest, NotOlder
<1>5. ReadJob(r, m)
  BY Zenon DEF JobOK, ReadJob
<1> QED
  BY <1>2, <1>4, <1>5, Zenon DEF JobOK

\* An event that the actor holds is drained after it is held, whatever the drain lists.
LEMMA HoldKeeps ==
  ASSUME Inv, Types', NEW j \in Job, Hold(j)
  PROVE  Inv'
<1> DEFINE n == job[j]
           m == job'[j]
           b == job'["boot"]
<1>1. n.at = "hold" /\ UNCHANGED <<ver, seq, mark, rows, queue, memo, read, left>>
  BY Zenon DEF Hold, At
<1>2. /\ n \in JobRecord /\ n.bound <= seq /\ n.seen <= seq /\ job \in [Job -> JobRecord]
      /\ m \in JobRecord /\ Core(Now, j, n) /\ "boot" \in Job /\ b \in JobRecord /\ n.games \subseteq Game
      /\ job["boot"] \in JobRecord
  <2>1. "boot" \in Job
    BY Zenon DEF Job
  <2>2. job \in [Job -> JobRecord] /\ job' \in [Job -> JobRecord]
    BY Zenon DEF Inv, Types, TypeOK
  <2>3. /\ n \in JobRecord /\ n.bound <= seq /\ n.seen <= seq /\ Core(Now, j, n) /\ n.games \subseteq Game
    BY JobIs, Zenon
  <2> QED
    BY <2>1, <2>2, <2>3, Zenon
<1>3. j # "boot"
  BY <1>1, NotBoot, Zenon
<1>4. CASE actor.warm
  <2>1. job' = [job EXCEPT ![j].at = "turn"] /\ actor' = actor
    BY <1>4, Zenon DEF Hold
  <2>2. /\ m.at = "turn" /\ m.seen = n.seen /\ m.pair = n.pair /\ m.games = n.games
        /\ m.bound = n.bound /\ \A k \in Job \ {j} : job'[k] = job[k]
    BY <1>2, <2>1, Zenon DEF JobRecord
  <2>3. TurnOK'
    BY <1>1, <2>1, <2>2, TurnStands, Zenon
  <2>4. j = "belt" => \A p \in m.pair : Names[p] = m.games
    BY <1>2, <2>2, Zenon DEF Core
  <2> QED
    BY <1>1, <1>2, <1>3, <2>1, <2>2, <2>3, <2>4, PlainMove, Zenon
<1>5. CASE ~actor.warm
  <2>0. /\ actor' = [actor EXCEPT !.held = @ \cup n.games]
        /\ job' = [job EXCEPT ![j].at = AfterHeld(j), !["boot"].todo = @ \ n.games]
    BY <1>5, Zenon DEF Hold
  <2> DEFINE k1 == [job EXCEPT ![j].at = AfterHeld(j)]
  <2>1. /\ actor' = [actor EXCEPT !.held = @ \cup n.games]
        /\ job' = [k1 EXCEPT !["boot"].todo = @ \ n.games]
    BY <1>2, <1>3, <2>0, Zenon
  <2>2. /\ k1[j].at = AfterHeld(j) /\ k1[j].seen = n.seen /\ k1[j].pair = n.pair /\ k1[j].games = n.games
        /\ k1[j].bound = n.bound /\ \A k \in Job \ {j} : k1[k] = job[k]
    BY <1>2, Zenon DEF JobRecord
  <2>3. k1 \in [Job -> JobRecord]
    <3>1. AfterHeld(j) \in Step
      BY StepsAre, Zenon
    <3>2. [n EXCEPT !.at = AfterHeld(j)] \in JobRecord
      BY <1>2, <3>1, Zenon DEF JobRecord
    <3> QED
      BY <1>2, <3>2, Zenon
  <2> HIDE DEF k1
  <2>4. /\ b.at = job["boot"].at /\ b.todo = job["boot"].todo \ n.games /\ b.pair = job["boot"].pair
        /\ b.games = job["boot"].games /\ b.bound = job["boot"].bound /\ b.seen = job["boot"].seen
        /\ b.facts = job["boot"].facts /\ \A k \in Job \ {"boot"} : job'[k] = k1[k]
    BY <1>2, <1>3, <2>1, <2>2, <2>3, Zenon DEF JobRecord
  <2>5. /\ m.at = AfterHeld(j) /\ m.seen = n.seen /\ m.pair = n.pair /\ m.games = n.games
        /\ m.bound = n.bound /\ \A k \in Job \ {j, "boot"} : job'[k] = job[k]
    BY <1>2, <1>3, <2>2, <2>4, Zenon
  <2>6. /\ actor'.turn = actor.turn /\ actor'.row = actor.row /\ actor'.covered = actor.covered
        /\ actor'.held = actor.held \cup n.games /\ actor'.warm = actor.warm /\ actor'.paged = actor.paged
    BY <2>1, Zenon DEF Inv, Types, TypeOK
  <2>7. TurnOK'
    BY <1>1, <1>2, <2>4, <2>5, <2>6, AfterIs DEF Inv, TurnOK
  <2>8. /\ Now'.row = Now.row /\ Now'.covered = Now.covered /\ Now'.held = Now.held \cup n.games
        /\ Now'.warm = Now.warm /\ Now'.paged = Now.paged /\ Now'.boot = b /\ Now.boot = job["boot"]
        /\ Now'.phase = Now.phase /\ ~Now.warm /\ Now'.rows = Now.rows /\ Now'.seq = seq /\ Now'.phase = left.phase
    BY <1>1, <1>5, <2>6, NowIs, NowBecomes, Zenon
  <2>9. ASSUME NEW g \in Game, NEW p \in Pair, NEW v \in Nat, left.phase # "A", Enough(Now, g, p, v)
        PROVE  Enough(Now', g, p, v)
    BY <2>4, <2>8, <2>9, Zenon DEF Enough
  <2>10. Tick(Now, Now')
    BY <1>1, <2>6, <2>9, TickBeside, Zenon
  <2>11. BootOK(Now')
    <3>1. BootOK(Now)
      BY Zenon DEF Inv
    <3> QED
      BY <2>4, <2>8, <3>1, Zenon DEF BootOK
  <2>12. Typed(Now) /\ Typed(Now')
    BY NowTyped, NowTypedNext, Zenon DEF Inv
  <2>13. JobOK(Now', read, "boot", b)
    <3>1. JobOK(Now, read, "boot", job["boot"])
      BY <1>2, JobIs, Zenon
    <3> QED
      BY <1>2, <2>4, <2>8, <2>10, <2>12, <3>1, TickJob, Zenon
  <2>14. ASSUME m.at # "end", NEW g \in m.games, NEW p \in Pair
         PROVE  Sound(Now', g, p)
    <3>1. left.phase # "A"
      BY <2>5, <2>14, AfterIs, Zenon
    <3>2. g \in Now'.held /\ g \notin Now'.boot.todo
      BY <2>4, <2>5, <2>8, Zenon
    <3> QED
      BY <2>8, <3>1, <3>2, Zenon DEF Sound, Enough
  <2>15. j = "belt" => \A p \in m.pair : Names[p] = m.games
    BY <1>2, <2>5, Zenon DEF Core
  <2>16. JobOK(Now', read, j, m)
    BY <1>2, <2>5, <2>8, <2>14, <2>15, AfterIs, AppliedJob, Zenon
  <2>17. \A k \in Job : job'[k] = job[k] \/ JobOK(Now', read, k, job'[k])
    BY <2>5, <2>13, <2>16, Zenon
  <2>18. \A g \in Game : Now'.covered[g] = Now.covered[g]
    BY <2>8, Zenon
  <2> QED
    BY <1>1, <2>7, <2>8, <2>10, <2>11, <2>17, <2>18, Assemble, ZenonT(40)
<1> QED
  BY <1>4, <1>5, Zenon

\* The closure met its bound.
LEMMA ClosureBoundKeeps ==
  ASSUME Inv, Types', left'.phase = left.phase, NEW j \in Job, ClosureBound(j)
  PROVE  Inv'
<1> DEFINE n == job[j]
           m == job'[j]
<1>1. /\ n.at = "land" /\ j # "boot" /\ UNCHANGED <<ver, seq, mark, rows, queue, memo, read>>
      /\ actor' = [actor EXCEPT !.turn = "free", !.warm = FALSE, !.held = @ \cup n.games]
      /\ job' = [job EXCEPT ![j].at = AfterHeld(j), ![j].seen = 0, ![j].facts = Zero]
  BY Zenon DEF ClosureBound, At
<1>2. /\ n \in JobRecord /\ n.bound <= seq /\ n.seen <= seq /\ job \in [Job -> JobRecord] /\ seq \in Nat
      /\ m \in JobRecord /\ Core(Now, j, n) /\ "boot" \in Job /\ n.games \subseteq Game
      /\ actor.turn = j /\ "free" \notin Job
  BY <1>1, JobIs, OwedMarksAssumption, ZenonT(40) DEF Inv, Types, TypeOK, Job, JobRecord
<1>3. /\ m.at = AfterHeld(j) /\ m.seen = 0 /\ m.pair = n.pair /\ m.games = n.games
      /\ m.bound = n.bound /\ \A k \in Job \ {j} : job'[k] = job[k]
  BY <1>1, <1>2, Zenon DEF JobRecord
<1>4. /\ actor'.turn = "free" /\ actor'.row = actor.row /\ actor'.covered = actor.covered
      /\ actor'.held = actor.held \cup n.games /\ actor'.warm = FALSE /\ actor'.paged = actor.paged
  BY <1>1, Zenon DEF Inv, Types, TypeOK
<1>5. TurnOK'
  BY <1>2, <1>3, <1>4, AfterIs DEF Inv, TurnOK
<1>6. job["boot"].at \notin {"closure", "land"}
  BY <1>1, <1>2, Zenon DEF Inv, TurnOK
<1>7. /\ Now'.row = Now.row /\ Now'.covered = Now.covered /\ Now'.held = Now.held \cup n.games
      /\ Now'.warm = FALSE /\ Now'.paged = Now.paged /\ Now'.boot = Now.boot
      /\ Now.boot.at \notin {"closure", "land"}
      /\ Now'.phase = Now.phase /\ Now'.rows = Now.rows /\ Now'.seq = seq /\ Now'.phase = left.phase
  BY <1>1, <1>2, <1>3, <1>4, <1>6, NowIs, NowBecomes
<1>8. ASSUME NEW g \in Game, NEW p \in Pair, NEW v \in Nat, left.phase # "A", Enough(Now, g, p, v)
      PROVE  Enough(Now', g, p, v)
  BY <1>7, <1>8, Zenon DEF Enough
<1>9. Tick(Now, Now')
  BY <1>1, <1>4, <1>8, TickBeside, Zenon
<1>10. BootOK(Now')
  BY <1>7, Zenon DEF BootOK, Inv
<1>11. ASSUME m.at # "end", NEW g \in m.games, NEW p \in Pair
       PROVE  Sound(Now', g, p)
  <2>1. left.phase # "A"
    BY <1>3, <1>11, AfterIs, Zenon
  <2> QED
    BY <1>3, <1>7, <2>1, Zenon DEF Sound, Enough
<1>12. j = "belt" => \A p \in m.pair : Names[p] = m.games
  BY <1>2, <1>3, Zenon DEF Core
<1>13. JobOK(Now', read, j, m)
  BY <1>2, <1>3, <1>7, <1>11, <1>12, AfterIs, AppliedJob
<1>14. \A k \in Job : job'[k] = job[k] \/ JobOK(Now', read, k, job'[k])
  BY <1>3, <1>13, Zenon
<1> QED
  BY <1>1, <1>5, <1>7, <1>9, <1>10, <1>14, Assemble, Zenon

\* The bootstrap begins a page or a drain, ends one, and stamps the actor; a new epoch.
LEMMA BootKeeps ==
  ASSUME Inv, Types', left'.phase = left.phase, BootStep \/ BootEnd \/ Stamp \/ Reset
  PROVE  Inv'
<1> DEFINE b == job'["boot"]
<1>0. UNCHANGED <<ver, seq, mark, rows, read>>
  BY Zenon DEF BootStep, BootEnd, Leaves, Stamp, Reset, At
<1>1. /\ job \in [Job -> JobRecord] /\ seq \in Nat /\ "boot" \in Job /\ "free" \notin Job /\ b \in JobRecord
  BY OwedMarksAssumption, Zenon DEF Inv, Types, TypeOK, Job
<1>2. CASE BootStep
  <2> DEFINE G == IF actor.paged THEN actor.held ELSE Game
             x == [Idle EXCEPT !.at = "closure", !.games = G, !.todo = G \cap actor.held, !.seen = MarksBound(G)]
  <2>1. /\ ~actor.warm /\ actor.turn = "free" /\ job' = [job EXCEPT !["boot"] = x]
        /\ actor' = [actor EXCEPT !.turn = "boot"]
    BY <1>2, Zenon DEF BootStep
  <2>2. G \in SUBSET Game
    BY Zenon DEF Inv, Types, TypeOK
  <2>3. MarksBound(G) <= seq
    BY <2>2, MarksBoundIs, Zenon DEF Inv
  <2>4. /\ x.at = "closure" /\ x.games = G /\ x.todo = G \cap actor.held /\ x.seen = MarksBound(G)
        /\ x.bound = 0
    BY Zenon DEF Idle
  <2> HIDE DEF x
  <2>5. b = x /\ \A k \in Job \ {"boot"} : job'[k] = job[k]
    BY <1>1, <2>1, Zenon
  <2>6. /\ actor'.turn = "boot" /\ actor'.row = actor.row /\ actor'.covered = actor.covered
        /\ actor'.held = actor.held /\ actor'.warm = actor.warm /\ actor'.paged = actor.paged
    BY <1>1, <2>1, TurnTypes, Zenon DEF Inv
  <2>7. TurnOK'
    BY <1>1, <2>1, <2>4, <2>5, <2>6, Zenon DEF Inv, TurnOK
  <2>8. /\ Now'.row = Now.row /\ Now'.covered = Now.covered /\ Now'.held = Now.held
        /\ Now'.warm = FALSE /\ Now'.paged = Now.paged /\ Now'.boot = x /\ ~Now.warm
        /\ Now'.phase = Now.phase /\ Now'.rows = Now.rows /\ Now'.seq = seq
        /\ Now.held = actor.held /\ Now.paged = actor.paged
    BY <1>0, <2>1, <2>5, <2>6, NowIs, NowBecomes DEF Inv, Types, TypeOK
  <2>9. ASSUME NEW g \in Game, NEW p \in Pair, NEW v \in Nat, left.phase # "A", Enough(Now, g, p, v)
        PROVE  Enough(Now', g, p, v)
    BY <2>4, <2>8, <2>9, Zenon DEF Enough
  <2>10. Tick(Now, Now')
    BY <1>0, <2>6, <2>9, TickBeside, Zenon
  <2>11. BootOK(Now')
    BY <2>4, <2>8, Zenon DEF BootOK
  <2>12. JobOK(Now', read, "boot", b)
    BY <1>1, <2>3, <2>4, <2>5, <2>8, PlainJob
  <2> QED
    BY <1>0, <2>5, <2>7, <2>8, <2>10, <2>11, <2>12, Assemble, Zenon
<1>3. CASE BootEnd
  <2>1. /\ job' = [job EXCEPT !["boot"] = Idle]
        /\ actor'.turn = (IF actor.turn = "boot" THEN "free" ELSE actor.turn) /\ actor'.row = actor.row
        /\ actor'.covered = actor.covered
        /\ actor'.held = actor.held /\ actor'.warm = actor.warm /\ actor'.paged = actor.paged
    BY <1>1, <1>3, FreeTypes, Zenon DEF BootEnd, Leaves, Inv
  <2>2. b = Idle /\ \A k \in Job \ {"boot"} : job'[k] = job[k]
    BY <1>1, <2>1, Zenon
  <2>3. TurnOK'
    BY <1>1, <2>1, <2>2, IdleIs, TurnFreed, Zenon
  <2>4. /\ Now'.row = Now.row /\ Now'.covered = Now.covered /\ Now'.held = Now.held
        /\ Now'.warm = Now.warm /\ Now'.paged = Now.paged /\ Now'.boot.at = "idle"
        /\ Now'.phase = Now.phase /\ Now'.rows = Now.rows /\ Now'.seq = seq
    BY <1>0, <2>1, <2>2, IdleIs, NowIs, NowBecomes, Zenon
  <2>5. ASSUME NEW g \in Game, NEW p \in Pair, NEW v \in Nat, left.phase # "A", Enough(Now, g, p, v)
        PROVE  Enough(Now', g, p, v)
    BY <2>4, <2>5, Zenon DEF Enough
  <2>6. Tick(Now, Now')
    BY <1>0, <2>1, <2>5, TickBeside, Zenon
  <2>7. BootOK(Now')
    BY <2>4, Zenon DEF BootOK, Inv
  <2>8. JobOK(Now', read, "boot", b)
    BY <1>1, <2>2, <2>4, IdleIs, PlainJob
  <2> QED
    BY <1>0, <2>2, <2>3, <2>4, <2>6, <2>7, <2>8, Assemble, Zenon
<1>4. CASE Stamp
  <2>1. actor' = [actor EXCEPT !.warm = TRUE] /\ job' = job /\ actor.paged /\ actor.held = {}
    BY <1>4, Zenon DEF Stamp
  <2>2. /\ actor'.turn = actor.turn /\ actor'.row = actor.row /\ actor'.covered = actor.covered
        /\ actor'.held = actor.held /\ actor'.warm = TRUE /\ actor'.paged = actor.paged
    BY <2>1, Zenon DEF Inv, Types, TypeOK
  <2>3. /\ Now'.row = Now.row /\ Now'.covered = Now.covered /\ Now'.held = Now.held
        /\ Now'.paged = Now.paged /\ Now'.boot = Now.boot /\ Now.held = {} /\ Now.paged
        /\ Now'.phase = Now.phase /\ Now'.rows = Now.rows
    BY <1>0, <2>1, <2>2, NowIs, NowBecomes, Zenon
  <2>4. ASSUME NEW g \in Game, NEW p \in Pair, NEW v \in Nat, left.phase # "A", Enough(Now, g, p, v)
        PROVE  Enough(Now', g, p, v)
    BY <2>3, <2>4, Zenon DEF Enough
  <2>5. Tick(Now, Now')
    BY <1>0, <2>2, <2>4, TickBeside, Zenon
  <2>6. BootOK(Now')
    BY <2>3, Zenon DEF BootOK, Inv
  <2>7. TurnOK'
    BY <2>1, <2>2, Zenon DEF Inv, TurnOK
  <2> QED
    BY <1>0, <2>1, <2>3, <2>5, <2>6, <2>7, Assemble, Zenon
<1>5. CASE Reset
  <2>1. /\ actor' = [actor EXCEPT !.warm = FALSE, !.paged = FALSE, !.held = {}, !.covered = [g \in Game |-> 0]]
        /\ job' = job /\ job["boot"].at = "idle"
    BY <1>5, Zenon DEF Reset, At
  <2>2. /\ actor'.turn = actor.turn /\ actor'.row = actor.row /\ \A g \in Game : actor'.covered[g] = 0
        /\ actor'.warm = FALSE /\ actor'.paged = FALSE
    BY <2>1, Zenon DEF Inv, Types, TypeOK
  <2>3. /\ Now'.row = Now.row /\ \A g \in Game : Now'.covered[g] = 0
        /\ Now'.paged = FALSE /\ Now'.warm = FALSE /\ Now'.boot = Now.boot /\ Now.boot.at = "idle"
        /\ Now'.phase = Now.phase /\ Now'.rows = Now.rows /\ Now.phase = left.phase
    BY <1>0, <2>1, <2>2, NowIs, NowBecomes, Zenon
  <2>4. ASSUME NEW g \in Game, NEW p \in Pair, NEW v \in Nat, left.phase # "A", Enough(Now, g, p, v)
        PROVE  Enough(Now', g, p, v)
    BY <2>3, <2>4, Zenon DEF Enough
  <2>5. Tick(Now, Now')
    BY <1>0, <2>2, <2>4, TickBeside, Zenon
  <2>6. BootOK(Now')
    BY <2>3, Zenon DEF BootOK
  <2>7. TurnOK'
    BY <2>1, <2>2, Zenon DEF Inv, TurnOK
  <2> QED
    BY <1>0, <2>1, <2>3, <2>5, <2>6, <2>7, Assemble, Zenon
<1> QED
  BY <1>2, <1>3, <1>4, <1>5, Zenon

-----------------------------------------------------------------------------
(* The writes and the acknowledgements. *)

\* A write raises every mark of its pair anew.
LEMMA DirtyTick ==
  ASSUME Inv, Types', left'.phase = left.phase, NEW p \in Pair, Dirty(p, Names[p]),
         UNCHANGED <<rows, actor>>, job'["boot"] = job["boot"]
  PROVE  Tick(Now, Now')
<1> DEFINE c == Now
           d == Now'
<1>1. Typed(c) /\ Typed(d)
  BY NowTyped, NowTypedNext, Zenon DEF Inv
<1>2. /\ d.rows = c.rows /\ d.row = c.row /\ d.held = c.held /\ d.paged = c.paged /\ d.boot = c.boot
      /\ d.phase = c.phase /\ c.ver = ver /\ d.ver = ver' /\ c.seq = seq /\ d.seq = seq'
      /\ c.mark = mark /\ d.mark = mark'
  BY NowIs, NowBecomes, Zenon
<1>3. /\ ver \in [Pair -> Nat] /\ seq \in Nat /\ mark \in [Game -> [Pair -> Nat]] /\ Names[p] \subseteq Game
  BY OwedMarksAssumption, Zenon DEF Inv, Types, TypeOK
<1>4. /\ seq' = seq + 1 /\ \A q \in Pair : ver[q] <= ver'[q] /\ (q # p => ver'[q] = ver[q])
  BY <1>3 DEF Dirty
<1>5. ASSUME NEW g \in Game, NEW q \in Pair, g \in Names[q]
      PROVE  (mark'[g][q] = mark[g][q] /\ ver'[q] = ver[q]) \/ mark'[g][q] > seq
  <2>1. CASE q = p
    BY <1>3, <1>5, <2>1 DEF Dirty
  <2>2. CASE q # p
    BY <1>3, <1>4, <1>5, <2>2, Zenon DEF Dirty
  <2> QED
    BY <2>1, <2>2, Zenon
<1>6. ASSUME NEW g \in Game, NEW q \in Pair, NEW v \in Nat, Enough(c, g, q, v)
      PROVE  Enough(d, g, q, v)
  BY <1>2, <1>6, Zenon DEF Enough
<1>7. d.phase = c.phase /\ c.seq <= d.seq /\ \A q \in Pair : c.ver[q] <= d.ver[q]
  BY <1>2, <1>3, <1>4
<1>8. \A g \in Game, q \in Pair : g \in Names[q] =>
        (d.mark[g][q] = c.mark[g][q] /\ d.ver[q] = c.ver[q]) \/ d.mark[g][q] > c.seq
  BY <1>2, <1>5, Zenon
<1> QED
  BY <1>6, <1>7, <1>8, Zenon DEF Tick

\* A write raises the marks of the games it names, and keeps it.
LEMMA WriteKeeps ==
  ASSUME Inv, Types', left'.phase = left.phase, (\E p \in Pair : Write(p)) \/ FindWrite
  PROVE  Inv'
<1>0. {"belt", "boot"} \subseteq Job /\ job \in [Job -> JobRecord] /\ BootOK(Now)
  BY Zenon DEF Job, Inv, Types, TypeOK
<1>1. UNCHANGED <<rows, actor, read>> /\ \E p \in Pair : Dirty(p, Names[p])
  <2>1. ASSUME NEW p \in Pair, Write(p)
        PROVE  UNCHANGED <<rows, actor, read>> /\ Dirty(p, Names[p])
    BY <2>1, Zenon DEF Write
  <2>2. CASE FindWrite
    <3>1. PICK p \in job["belt"].pair : Dirty(p, job["belt"].games) /\ UNCHANGED <<rows, actor, read>>
      BY <2>2, Zenon DEF FindWrite
    <3>2. p \in Pair /\ Names[p] = job["belt"].games
      BY <1>0, JobIs, ZenonT(40) DEF Core, JobRecord
    <3> QED
      BY <3>1, <3>2, Zenon
  <2> QED
    BY <2>1, <2>2, Zenon
<1>2. PICK p \in Pair : Dirty(p, Names[p])
  BY <1>1, Zenon
<1>3. CASE \E q \in Pair : Write(q)
  <2>1. job' = job
    BY <1>3, Zenon DEF Write
  <2>2. Tick(Now, Now')
    BY <1>1, <1>2, <2>1, DirtyTick, Zenon
  <2>3. /\ Now'.rows = Now.rows /\ Now'.row = Now.row /\ Now'.held = Now.held /\ Now'.paged = Now.paged
        /\ Now'.boot = Now.boot /\ Now'.covered = Now.covered /\ Now'.warm = Now.warm
    BY <1>1, <2>1, NowIs, NowBecomes, Zenon
  <2>4. BootOK(Now') /\ TurnOK'
    BY <1>0, <1>1, <2>1, <2>3, Zenon DEF BootOK, Inv, TurnOK
  <2> QED
    BY <1>1, <2>1, <2>2, <2>3, <2>4, Assemble, Zenon
<1>4. CASE FindWrite
  <2> DEFINE n == job["belt"]
             m == job'["belt"]
  <2>1. n.at = "write" /\ job' = [job EXCEPT !["belt"].at = AfterWrite]
    BY <1>4, Zenon DEF FindWrite, At
  <2>2. /\ m.at = AfterWrite /\ m.pair = n.pair /\ m.games = n.games /\ m.bound = n.bound /\ m.seen = n.seen
        /\ job'["boot"] = job["boot"] /\ \A k \in Job \ {"belt"} : job'[k] = job[k]
    BY <1>0, <2>1, Zenon DEF JobRecord
  <2>3. Tick(Now, Now')
    BY <1>1, <1>2, <2>2, DirtyTick, Zenon
  <2>4. /\ Now'.rows = Now.rows /\ Now'.row = Now.row /\ Now'.held = Now.held /\ Now'.paged = Now.paged
        /\ Now'.boot = Now.boot /\ Now'.covered = Now.covered /\ Now'.warm = Now.warm /\ Now'.seq = seq'
    BY <1>1, <2>2, NowIs, NowBecomes, Zenon
  <2>5. BootOK(Now')
    BY <1>0, <2>4, Zenon DEF BootOK
  <2>6. AfterWrite \in {"bound", "hold"}
    BY Zenon DEF AfterWrite
  <2>7. TurnOK'
    BY <1>0, <1>1, <2>1, <2>2, <2>6, TurnStands, Zenon
  <2>8. m \in JobRecord /\ n.bound <= seq' /\ n.seen <= seq'
    <3>1. seq' = seq + 1 /\ seq \in Nat
      BY <1>2, Zenon DEF Dirty, Inv, Types, TypeOK
    <3>2. n.bound <= seq /\ n.seen <= seq /\ n.bound \in Nat /\ n.seen \in Nat
      BY <1>0, JobIs, Zenon DEF JobRecord
    <3>3. m \in JobRecord
      BY <1>0, Zenon DEF Types, TypeOK
    <3> QED
      BY <3>1, <3>2, <3>3
  <2>9. \A q \in m.pair : Names[q] = m.games
    BY <1>0, <2>2, JobIs DEF Core
  <2>10. JobOK(Now', read, "belt", m)
    BY <2>2, <2>4, <2>6, <2>8, <2>9, PlainJob, Zenon
  <2> QED
    BY <1>1, <2>2, <2>3, <2>4, <2>5, <2>7, <2>10, Assemble, Zenon
<1> QED
  BY <1>3, <1>4, Zenon

\* Marks that the actor's part justifies are deleted.
LEMMA AckTick ==
  ASSUME Inv, Types', NEW j \in Job, Settling(Now, job[j]), left.phase # "A",
         UNCHANGED <<ver, seq, actor, left>>, job'["boot"] = job["boot"],
         NEW b \in Nat, b <= job[j].bound, AckDirty(job[j].games, b, {})
  PROVE  Tick(Now, Now')
<1> DEFINE c == Now
           d == Now'
<1>1. Typed(c) /\ Typed(d)
  BY NowTyped, NowTypedNext, Zenon DEF Inv
<1>2. /\ d.row = c.row /\ d.held = c.held /\ d.paged = c.paged /\ d.boot = c.boot
      /\ d.phase = c.phase /\ c.phase # "A" /\ d.ver = c.ver /\ d.seq = c.seq /\ c.mark = mark /\ d.mark = mark'
  BY NowIs, NowBecomes, Zenon
<1>3. ASSUME NEW g \in Game, NEW q \in Pair, NEW v \in Nat, Enough(c, g, q, v)
      PROVE  Enough(d, g, q, v)
  BY <1>2, <1>3, Zenon DEF Enough
<1>4. ASSUME NEW g \in Game, NEW p \in Pair, g \in Names[p]
      PROVE  d.mark[g][p] = c.mark[g][p] \/ (d.mark[g][p] = 0 /\ Sound(d, g, p))
  <2>1. mark[g][p] \in Nat /\ job[j].bound \in Nat /\ c.ver[p] \in Nat
    <3>1. mark[g][p] \in Nat
      BY DEF Inv, Types, TypeOK
    <3>2. job[j] \in JobRecord
      BY JobIs, Zenon
    <3> QED
      BY <1>1, <3>1, <3>2, Zenon DEF JobRecord, Typed
  <2>2. CASE g \in job[j].games /\ mark[g][p] <= b
    <3>1. mark'[g][p] = 0
      BY <2>2, Zenon DEF AckDirty
    <3>2. Sound(c, g, p)
      BY <1>2, <1>4, <2>1, <2>2, JobIs DEF Core
    <3> QED
      BY <1>2, <1>3, <2>1, <3>1, <3>2, Zenon DEF Sound
  <2>3. CASE ~(g \in job[j].games /\ mark[g][p] <= b)
    BY <1>2, <2>3 DEF AckDirty
  <2> QED
    BY <2>2, <2>3, Zenon
<1> QED
  BY <1>1, <1>2, <1>3, <1>4 DEF Tick, Typed

\* A step that changes the rows of D1, which Phase A serves.
LEMMA AssembleA ==
  ASSUME Inv, Types', Tick(Now, Now'), Now'.row = Now.row, Now'.covered = Now.covered,
         \A g \in Game, p \in Pair : rows'[g][p] <= ver'[p],
         read' = read, TurnOK', BootOK(Now'),
         NEW j \in Job, JobOK(Now', read, j, job'[j]),
         \A k \in Job \ {j} : job'[k] = job[k] /\ job[k].at # "commit"
  PROVE  Inv'
<1> DEFINE c == Now
           d == Now'
<1>1. Typed(c) /\ Typed(d)
  BY NowTyped, NowTypedNext, Zenon DEF Inv
<1>2. d.rows = rows' /\ d.ver = ver' /\ d.phase = c.phase
  BY NowBecomes, Zenon DEF Tick
<1>3. ASSUME NEW k \in Job
      PROVE  JobOK(d, read, k, job'[k])
  <2>1. CASE k # j
    <3>1. JobOK(c, read, k, job[k]) /\ job'[k] = job[k] /\ job[k].at # "commit"
      BY <2>1, Zenon DEF Inv
    <3>2. Core(d, k, job[k])
      BY <1>1, <3>1, TickCore, Zenon DEF JobOK
    <3>3. Newest(d, job[k])
      BY <1>2, <3>1, Zenon DEF JobOK, Newest
    <3> QED
      BY <2>1, <3>1, <3>2, <3>3, Zenon DEF JobOK
  <2> QED
    BY <2>1, Zenon
<1>4. RowsOK(d)
  BY <1>1, <1>2, TickRows, Zenon DEF Inv
<1>5. MarkOK(d)
  BY <1>1, TickMarks, Zenon DEF Inv
<1>6. ReadOK(d, read)
  BY <1>1, TickRead, Zenon DEF Inv, Types, TypeOK
<1>7. ReadCurrent' /\ OneRead'
  BY Zenon DEF Inv, ReadCurrent, OneRead
<1> QED
  BY <1>3, <1>4, <1>5, <1>6, <1>7, Zenon DEF Inv

\* What a batch of the D1 judge writes in Phase A.
LEMMA CommitIs ==
  ASSUME Inv, left.phase = "A", NEW j \in Job, Commit(j)
  PROVE  LET n == job[j]
             b == IF n.bound < n.seen THEN n.bound ELSE n.seen
         IN /\ Fresh(Now, n) /\ n.at = "commit" /\ n.games \subseteq Game /\ n.facts \in [Pair -> Nat]
            /\ b \in Nat /\ b <= n.bound /\ b <= n.seen
            /\ \A g \in Game, p \in Pair :
                 /\ rows'[g][p] = (IF g \in n.games THEN n.facts[p] ELSE rows[g][p])
                 /\ rows[g][p] <= rows'[g][p] /\ rows'[g][p] <= ver[p]
                 /\ mark'[g][p] = (IF g \in n.games /\ mark[g][p] <= b THEN 0 ELSE mark[g][p])
<1> DEFINE n == job[j]
           b == IF n.bound < n.seen THEN n.bound ELSE n.seen
<1>1. /\ n \in JobRecord /\ Core(Now, j, n) /\ Newest(Now, n) /\ RowsOK(Now)
      /\ n.facts \in [Pair -> Nat] /\ n.bound \in Nat /\ n.seen \in Nat /\ n.games \subseteq Game
  BY JobIs, Zenon DEF JobRecord, Inv, JobOK
<1>2. n.at = "commit" /\ rows' = [g \in Game |-> IF g \in n.games THEN n.facts ELSE rows[g]] /\ AckDirty(n.games, b, {})
  BY Zenon DEF Commit, At
<1>3. Fresh(Now, n) /\ NotOlder(n, rows)
  BY <1>1, <1>2, NowIs, Zenon DEF Core, Judging, Newest
<1>4. b \in Nat /\ b <= n.bound /\ b <= n.seen
  BY <1>1
<1> HIDE DEF b
<1>5. ASSUME NEW g \in Game, NEW p \in Pair
      PROVE  /\ rows'[g][p] = (IF g \in n.games THEN n.facts[p] ELSE rows[g][p])
             /\ rows[g][p] <= rows'[g][p] /\ rows'[g][p] <= ver[p]
  <2>1. rows[g][p] \in Nat /\ rows[g][p] <= ver[p] /\ n.facts[p] <= ver[p] /\ rows[g][p] <= n.facts[p]
    BY <1>1, <1>3, NowIs, SMTT(30) DEF RowsOK, Fresh, NotOlder, Inv, Types, TypeOK
  <2> QED
    BY <1>2, <2>1
<1>6. ASSUME NEW g \in Game, NEW p \in Pair
      PROVE  mark'[g][p] = (IF g \in n.games /\ mark[g][p] <= b THEN 0 ELSE mark[g][p])
  BY <1>2, Zenon DEF AckDirty
<1> QED
  BY <1>1, <1>2, <1>3, <1>4, <1>5, <1>6, Zenon DEF b

\* What the batch of the belt's find writes, all of it at once.
LEMMA FindCommitIs ==
  ASSUME Inv, OneD1Judge, FindCommit
  PROVE  LET n == job["belt"]
         IN /\ Fresh(Now, n) /\ n.at = "commit" /\ n.games \subseteq Game /\ n.facts \in [Pair -> Nat]
            /\ \A p \in n.pair : Names[p] = n.games
            /\ \A p \in Pair : ver'[p] = (IF p \in n.pair THEN ver[p] + 1 ELSE ver[p])
            /\ \A g \in Game, p \in Pair :
                 /\ rows'[g][p] = (IF g \in n.games THEN IF p \in n.pair THEN ver[p] + 1 ELSE n.facts[p]
                                                    ELSE rows[g][p])
                 /\ rows[g][p] <= rows'[g][p] /\ rows'[g][p] <= ver'[p]
                 /\ mark'[g][p] = (IF g \in n.games /\ (mark[g][p] <= n.seen \/ p \in n.pair) THEN 0
                                   ELSE mark[g][p])
<1> DEFINE n == job["belt"]
           judged == [p \in Pair |-> IF p \in n.pair /\ n.facts[p] = ver[p] THEN ver[p] + 1 ELSE n.facts[p]]
<1>0. "belt" \in Job
  BY Zenon DEF Job
<1>1. /\ n \in JobRecord /\ Core(Now, "belt", n) /\ Newest(Now, n) /\ RowsOK(Now)
      /\ n.facts \in [Pair -> Nat] /\ n.seen \in Nat /\ n.games \subseteq Game /\ n.pair \subseteq Pair
  BY <1>0, JobIs, Zenon DEF JobRecord, Inv, JobOK
<1>2. /\ n.at = "commit" /\ left.phase = "A" /\ rows' = [g \in Game |-> IF g \in n.games THEN judged ELSE rows[g]]
      /\ AckDirty(n.games, n.seen, n.pair) /\ ver' = [p \in Pair |-> IF p \in n.pair THEN ver[p] + 1 ELSE ver[p]]
  BY Zenon DEF FindCommit, At, Phase
<1>3. /\ Fresh(Now, n) /\ NotOlder(n, rows) /\ \A p \in n.pair : Names[p] = n.games
  BY <1>1, <1>2, NowIs, Zenon DEF Core, Judging, Newest
<1>4. \A p \in n.pair : n.facts[p] = ver[p]
  BY <1>2, Zenon DEF OneD1Judge, At, Phase
<1>5. \A p \in Pair : judged[p] = (IF p \in n.pair THEN ver[p] + 1 ELSE n.facts[p])
  BY <1>1, <1>4, Zenon
<1> HIDE DEF judged
<1>6. \A p \in Pair : ver'[p] = (IF p \in n.pair THEN ver[p] + 1 ELSE ver[p])
  BY <1>2, Zenon
<1>7. ASSUME NEW g \in Game, NEW p \in Pair
      PROVE  /\ rows'[g][p] = (IF g \in n.games THEN IF p \in n.pair THEN ver[p] + 1 ELSE n.facts[p]
                                                ELSE rows[g][p])
             /\ rows[g][p] <= rows'[g][p] /\ rows'[g][p] <= ver'[p]
  <2>1. /\ rows[g][p] \in Nat /\ rows[g][p] <= ver[p] /\ n.facts[p] <= ver[p] /\ rows[g][p] <= n.facts[p]
        /\ ver[p] \in Nat /\ n.facts[p] \in Nat
    BY <1>1, <1>2, <1>3, NowIs, SMTT(30) DEF RowsOK, Fresh, NotOlder, Inv, Types, TypeOK
  <2>2. rows'[g][p] = (IF g \in n.games THEN IF p \in n.pair THEN ver[p] + 1 ELSE n.facts[p] ELSE rows[g][p])
    BY <1>2, <1>5, Zenon
  <2> QED
    BY <1>6, <2>1, <2>2
<1>8. ASSUME NEW g \in Game, NEW p \in Pair
      PROVE  mark'[g][p] = (IF g \in n.games /\ (mark[g][p] <= n.seen \/ p \in n.pair) THEN 0 ELSE mark[g][p])
  BY <1>2, Zenon DEF AckDirty
<1> QED
  BY <1>1, <1>2, <1>3, <1>6, <1>7, <1>8, Zenon

\* The batches of the D1 judge.
LEMMA CommitKeeps ==
  ASSUME Inv, OneD1Judge, Types', NEW j \in Job, Commit(j)
  PROVE  Inv'
<1> DEFINE n == job[j]
           m == job'[j]
           b == IF n.bound < n.seen THEN n.bound ELSE n.seen
<1>1. /\ n.at = "commit" /\ job' = [job EXCEPT ![j].at = "end", ![j].seen = 0, ![j].facts = Zero]
      /\ AckDirty(n.games, b, {}) /\ UNCHANGED <<ver, seq, actor, queue, memo, read, left>>
  BY Zenon DEF Commit, At
<1>2. /\ n \in JobRecord /\ n.bound <= seq /\ n.bound \in Nat /\ n.seen \in Nat /\ job \in [Job -> JobRecord]
      /\ m \in JobRecord /\ Core(Now, j, n) /\ "boot" \in Job /\ seq \in Nat /\ BootOK(Now)
  BY JobIs, ZenonT(40) DEF Inv, Types, TypeOK, Job, JobRecord
<1>3. /\ m.at = "end" /\ m.seen = 0 /\ m.pair = n.pair /\ m.games = n.games
      /\ m.bound = n.bound /\ \A k \in Job \ {j} : job'[k] = job[k]
  BY <1>1, <1>2, Zenon DEF JobRecord
<1>4. j # "boot" /\ job'["boot"] = job["boot"]
  BY <1>1, <1>2, <1>3, NotBoot, Zenon
<1>5. b \in Nat /\ b <= n.bound
  BY <1>2, SMTT(30)
<1> HIDE DEF b
<1>6. j = "belt" => \A p \in m.pair : Names[p] = m.games
  BY <1>2, <1>3, Zenon DEF Core
<1>7. TurnOK'
  BY <1>1, <1>3, TurnStands, Zenon
<1>8. /\ Now'.row = Now.row /\ Now'.held = Now.held /\ Now'.paged = Now.paged /\ Now'.boot = Now.boot
      /\ Now'.covered = Now.covered /\ Now'.warm = Now.warm /\ Now'.seq = seq /\ Now.phase = left.phase
      /\ Now'.phase = left.phase /\ Now.ver = ver /\ Now'.ver = ver /\ Now.rows = rows /\ Now'.rows = rows'
      /\ Now.mark = mark /\ Now'.mark = mark' /\ Now.seq = seq
  BY <1>1, <1>4, NowIs, NowBecomes, Zenon
<1>9. BootOK(Now')
  BY <1>2, <1>8, Zenon DEF BootOK
<1>10. JobOK(Now', read, j, m)
  BY <1>2, <1>3, <1>6, <1>8, PlainJob, SMTT(30)
<1>11. CASE left.phase # "A"
  <2>1. Settling(Now, n)
    BY <1>1, <1>2, <1>8, <1>11, Zenon DEF Settling, Core, Inv, Types, LeftOK
  <2>2. Tick(Now, Now')
    BY <1>1, <1>4, <1>5, <1>11, <2>1, AckTick, Zenon
  <2> QED
    BY <1>1, <1>3, <1>7, <1>8, <1>9, <1>10, <1>11, <2>2, Assemble, Zenon
<1>12. CASE left.phase = "A"
  <2>1. /\ Fresh(Now, n) /\ b <= n.seen
        /\ \A g \in Game, p \in Pair :
                 /\ rows'[g][p] = (IF g \in n.games THEN n.facts[p] ELSE rows[g][p])
                 /\ rows[g][p] <= rows'[g][p] /\ rows'[g][p] <= ver[p]
                 /\ mark'[g][p] = (IF g \in n.games /\ mark[g][p] <= b THEN 0 ELSE mark[g][p])
    BY <1>12, CommitIs, Zenon DEF b
  <2>2. ver \in [Pair -> Nat] /\ mark \in [Game -> [Pair -> Nat]] /\ rows \in [Game -> [Pair -> Nat]]
        /\ rows' \in [Game -> [Pair -> Nat]]
    BY Zenon DEF Inv, Types, TypeOK
  <2>3. ASSUME NEW g \in Game, NEW p \in Pair, NEW v \in Nat, Enough(Now, g, p, v)
        PROVE  Enough(Now', g, p, v)
    <3>1. rows[g][p] >= v
      BY <1>8, <1>12, <2>3, Zenon DEF Enough
    <3>2. rows'[g][p] >= v
      <4>1. rows[g][p] <= rows'[g][p] /\ rows[g][p] \in Nat /\ rows'[g][p] \in Nat
        BY <2>1, <2>2
      <4> QED
        BY <3>1, <4>1, SMTT(30)
    <3> QED
      BY <1>8, <1>12, <3>2, Zenon DEF Enough
  <2>4. ASSUME NEW g \in Game, NEW p \in Pair, g \in Names[p], mark'[g][p] # mark[g][p]
        PROVE  mark'[g][p] = 0 /\ Sound(Now', g, p)
    <3>1. mark'[g][p] = 0 /\ g \in n.games /\ mark[g][p] <= b /\ mark[g][p] # 0 /\ rows'[g][p] = n.facts[p]
      BY <2>1, <2>4, Zenon
    <3>2. mark[g][p] <= n.bound
      BY <1>2, <1>5, <2>2, <3>1, SMTT(30)
    <3>3. n.facts[p] = ver[p]
      BY <1>8, <2>1, <2>4, <3>1, <3>2, SMTT(30) DEF Fresh
    <3>4. rows'[g][p] >= ver[p]
      BY <2>2, <3>1, <3>3
    <3> QED
      BY <1>8, <1>12, <3>1, <3>4, Zenon DEF Sound, Enough
  <2>5. Tick(Now, Now')
    <3>1. Now'.seq = Now.seq /\ Now.seq \in Nat /\ \A p \in Pair : Now.ver[p] <= Now'.ver[p] /\ Now'.ver[p] = Now.ver[p]
      BY <1>2, <1>8, <2>2, SMTT(30)
    <3>2. Now.seq <= Now'.seq
      BY <3>1, SMTT(30)
    <3> QED
      BY <1>8, <2>3, <2>4, <3>1, <3>2, Zenon DEF Tick
  <2>6. \A k \in Job \ {j} : job'[k] = job[k] /\ job[k].at # "commit"
    BY <1>1, <1>3, <1>12, Zenon DEF OneD1Judge, At, Phase
  <2>7. \A g \in Game, p \in Pair : rows'[g][p] <= ver'[p]
    BY <1>1, <2>1, Zenon
  <2> QED
    BY <1>1, <1>7, <1>8, <1>9, <1>10, <2>5, <2>6, <2>7, AssembleA, Zenon
<1> QED
  BY <1>11, <1>12, Zenon

\* The batch of the belt's find.
LEMMA FindCommitKeeps ==
  ASSUME Inv, OneD1Judge, Types', FindCommit
  PROVE  Inv'
<1> DEFINE n == job["belt"]
<1>1. /\ n.at = "commit" /\ left.phase = "A" /\ job' = [job EXCEPT !["belt"] = Idle] /\ seq' = seq + 1
      /\ UNCHANGED <<actor, memo, read, left>>
  BY Zenon DEF FindCommit, At, Phase
<1>2. /\ n \in JobRecord /\ job \in [Job -> JobRecord] /\ {"belt", "boot"} \subseteq Job /\ seq \in Nat /\ BootOK(Now)
      /\ ver \in [Pair -> Nat] /\ mark \in [Game -> [Pair -> Nat]] /\ rows \in [Game -> [Pair -> Nat]]
      /\ rows' \in [Game -> [Pair -> Nat]] /\ ver' \in [Pair -> Nat]
  BY Zenon DEF Inv, Types, TypeOK, Job
<1>3. job'["belt"] = Idle /\ job'["boot"] = job["boot"] /\ \A k \in Job \ {"belt"} : job'[k] = job[k]
  BY <1>1, <1>2, Zenon
<1>4. TurnOK'
  BY <1>1, <1>2, <1>3, IdleIs, TurnStands, Zenon
<1>5. /\ Now'.row = Now.row /\ Now'.held = Now.held /\ Now'.paged = Now.paged /\ Now'.boot = Now.boot
      /\ Now'.covered = Now.covered /\ Now'.warm = Now.warm /\ Now'.seq = seq + 1 /\ Now.phase = "A"
      /\ Now'.phase = "A" /\ Now.ver = ver /\ Now'.ver = ver' /\ Now.rows = rows /\ Now'.rows = rows'
      /\ Now.mark = mark /\ Now'.mark = mark' /\ Now.seq = seq
  BY <1>1, <1>3, NowIs, NowBecomes, Zenon
<1>6. BootOK(Now')
  BY <1>2, <1>5, Zenon DEF BootOK
<1>7. JobOK(Now', read, "belt", job'["belt"])
  BY <1>2, <1>3, <1>5, IdleIs, PlainJob
<1>8. /\ Fresh(Now, n) /\ \A p \in n.pair : Names[p] = n.games
      /\ \A p \in Pair : ver'[p] = (IF p \in n.pair THEN ver[p] + 1 ELSE ver[p])
      /\ \A g \in Game, p \in Pair :
           /\ rows'[g][p] = (IF g \in n.games THEN IF p \in n.pair THEN ver[p] + 1 ELSE n.facts[p]
                                              ELSE rows[g][p])
           /\ rows[g][p] <= rows'[g][p] /\ rows'[g][p] <= ver'[p]
           /\ mark'[g][p] = (IF g \in n.games /\ (mark[g][p] <= n.seen \/ p \in n.pair) THEN 0
                             ELSE mark[g][p])
  BY FindCommitIs, Zenon
<1>9. ASSUME NEW g \in Game, NEW p \in Pair, NEW v \in Nat, Enough(Now, g, p, v)
      PROVE  Enough(Now', g, p, v)
  <2>1. rows[g][p] >= v
    BY <1>5, <1>9, Zenon DEF Enough
  <2>2. rows[g][p] <= rows'[g][p] /\ rows[g][p] \in Nat /\ rows'[g][p] \in Nat
    BY <1>2, <1>8
  <2>3. rows'[g][p] >= v
    BY <2>1, <2>2
  <2> QED
    BY <1>5, <2>3, Zenon DEF Enough
<1>10. ASSUME NEW g \in Game, NEW p \in Pair, g \in Names[p],
              ~(mark'[g][p] = mark[g][p] /\ ver'[p] = ver[p])
       PROVE  mark'[g][p] = 0 /\ Sound(Now', g, p)
  <2>1. CASE p \in n.pair
    <3>1. g \in n.games /\ mark'[g][p] = 0 /\ rows'[g][p] = ver[p] + 1 /\ ver'[p] = ver[p] + 1
      BY <1>8, <1>10, <2>1, Zenon
    <3>2. rows'[g][p] >= ver'[p]
      BY <1>2, <3>1
    <3> QED
      BY <1>5, <3>1, <3>2, Zenon DEF Sound, Enough
  <2>2. CASE p \notin n.pair
    <3>1. /\ ver'[p] = ver[p] /\ mark'[g][p] = 0 /\ g \in n.games /\ mark[g][p] <= n.seen /\ mark[g][p] # 0
          /\ rows'[g][p] = n.facts[p]
      BY <1>8, <1>10, <2>2, Zenon
    <3>2. n.facts[p] = ver[p]
      BY <1>5, <1>8, <1>10, <3>1 DEF Fresh
    <3>3. rows'[g][p] >= ver'[p]
      BY <1>2, <3>1, <3>2
    <3> QED
      BY <1>5, <3>1, <3>3, Zenon DEF Sound, Enough
  <2> QED
    BY <2>1, <2>2, Zenon
<1>11. Tick(Now, Now')
  <2>1. Now.seq <= Now'.seq /\ \A p \in Pair : Now.ver[p] <= Now'.ver[p]
    BY <1>2, <1>5, <1>8
  <2> QED
    BY <1>5, <1>9, <1>10, <2>1, Zenon DEF Tick
<1>12. \A k \in Job \ {"belt"} : job'[k] = job[k] /\ job[k].at # "commit"
  BY <1>1, <1>2, <1>3, Zenon DEF OneD1Judge, At, Phase
<1>13. \A g \in Game, p \in Pair : rows'[g][p] <= ver'[p]
  BY <1>8, Zenon
<1> QED
  BY <1>1, <1>2, <1>4, <1>5, <1>6, <1>7, <1>11, <1>12, <1>13, AssembleA

\* Phase C's acknowledgement.
LEMMA AckKeeps ==
  ASSUME Inv, Types', NEW j \in Job, Ack(j)
  PROVE  Inv'
<1> DEFINE n == job[j]
           m == job'[j]
<1>1. /\ n.at = "ack" /\ job' = [job EXCEPT ![j].at = "end"]
      /\ AckDirty(n.games, n.bound, {}) /\ UNCHANGED <<ver, seq, rows, actor, queue, memo, read, left>>
  BY Zenon DEF Ack, At
<1>2. /\ n \in JobRecord /\ n.bound <= seq /\ n.seen <= seq /\ n.bound \in Nat /\ job \in [Job -> JobRecord]
      /\ m \in JobRecord /\ Core(Now, j, n) /\ "boot" \in Job /\ seq \in Nat /\ BootOK(Now)
  BY JobIs, ZenonT(40) DEF Inv, Types, TypeOK, Job, JobRecord
<1>3. /\ m.at = "end" /\ m.seen = n.seen /\ m.pair = n.pair /\ m.games = n.games
      /\ m.bound = n.bound /\ \A k \in Job \ {j} : job'[k] = job[k]
  BY <1>1, <1>2, Zenon DEF JobRecord
<1>4. j # "boot" /\ job'["boot"] = job["boot"]
  BY <1>1, <1>2, <1>3, NotBoot, Zenon
<1>5. j = "belt" => \A p \in m.pair : Names[p] = m.games
  BY <1>2, <1>3, Zenon DEF Core
<1>6. TurnOK'
  BY <1>1, <1>3, TurnStands, Zenon
<1>7. /\ Now'.row = Now.row /\ Now'.held = Now.held /\ Now'.paged = Now.paged /\ Now'.boot = Now.boot
      /\ Now'.covered = Now.covered /\ Now'.warm = Now.warm /\ Now'.seq = seq /\ Now.phase = left.phase
      /\ Now'.rows = Now.rows
  BY <1>1, <1>4, NowIs, NowBecomes, Zenon
<1>8. BootOK(Now')
  BY <1>2, <1>7, Zenon DEF BootOK
<1>9. JobOK(Now', read, j, m)
  BY <1>2, <1>3, <1>5, <1>7, PlainJob, Zenon
<1>10. Settling(Now, n) /\ left.phase # "A"
  BY <1>1, <1>2, <1>7, Zenon DEF Settling, Core
<1>11. n.bound <= n.bound
  BY <1>2
<1>12. Tick(Now, Now')
  BY <1>1, <1>2, <1>4, <1>10, <1>11, AckTick, Zenon
<1> QED
  BY <1>1, <1>3, <1>6, <1>7, <1>8, <1>9, <1>12, Assemble, Zenon

-----------------------------------------------------------------------------
(* The actor's rows. *)

\* What the apply commits.
LEMMA LandIs ==
  ASSUME Inv, NEW j \in Job, Land(j)
  PROVE  LET n == job[j]
         IN /\ n.at = "land" /\ Fresh(Now, n) /\ UNCHANGED <<ver, seq, mark, rows, queue, memo, read, left>>
            /\ actor'.turn = "free" /\ actor'.warm = actor.warm
            /\ actor'.held = (IF j = "boot" THEN actor.held \ n.todo ELSE actor.held)
            /\ actor'.paged = (actor.paged \/ j = "boot")
            /\ \A g \in Game, p \in Pair :
                 /\ actor'.row[g][p] = (IF g \in n.games THEN n.facts[p] ELSE actor.row[g][p])
                 /\ actor.row[g][p] <= actor'.row[g][p] /\ actor'.row[g][p] <= ver[p]
            /\ \A g \in Game :
                 actor'.covered[g] = (IF g \in n.games /\ n.seen > actor.covered[g] THEN n.seen
                                                                                  ELSE actor.covered[g])
<1> DEFINE n == job[j]
<1>1. /\ n.at = "land" /\ UNCHANGED <<ver, seq, mark, rows, queue, memo, read, left>>
      /\ actor' = [actor EXCEPT !.turn = "free",
                 !.row = [g \in Game |-> IF g \in n.games THEN n.facts ELSE @[g]],
                 !.covered = CoveredBy(j),
                 !.held = IF j = "boot" THEN @ \ n.todo ELSE @,
                 !.paged = @ \/ j = "boot"]
  BY Zenon DEF Land, At
<1>2. /\ n \in JobRecord /\ Core(Now, j, n) /\ Newest(Now, n) /\ RowsOK(Now)
      /\ n.facts \in [Pair -> Nat]
  BY JobIs, Zenon DEF JobRecord, Inv, JobOK
<1>3. Fresh(Now, n) /\ NotOlder(n, actor.row)
  BY <1>1, <1>2, NowIs, Zenon DEF Core, Judging, Newest
<1>4. /\ actor'.turn = "free" /\ actor'.warm = actor.warm
      /\ actor'.held = (IF j = "boot" THEN actor.held \ n.todo ELSE actor.held)
      /\ actor'.paged = (actor.paged \/ j = "boot")
      /\ actor'.row = [g \in Game |-> IF g \in n.games THEN n.facts ELSE actor.row[g]]
      /\ actor'.covered = CoveredBy(j)
  BY <1>1, Zenon DEF Inv, Types, TypeOK
<1>5. ASSUME NEW g \in Game, NEW p \in Pair
      PROVE  /\ actor'.row[g][p] = (IF g \in n.games THEN n.facts[p] ELSE actor.row[g][p])
             /\ actor.row[g][p] <= actor'.row[g][p] /\ actor'.row[g][p] <= ver[p]
  <2>1. /\ actor.row[g][p] \in Nat /\ actor.row[g][p] <= ver[p] /\ n.facts[p] <= ver[p]
        /\ actor.row[g][p] <= n.facts[p]
    BY <1>2, <1>3, NowIs, SMTT(30) DEF RowsOK, Fresh, NotOlder, Inv, Types, TypeOK
  <2> QED
    BY <1>4, <2>1
<1>6. \A g \in Game : actor'.covered[g] =
        (IF g \in n.games /\ n.seen > actor.covered[g] THEN n.seen ELSE actor.covered[g])
  BY <1>4, Zenon DEF CoveredBy
<1> QED
  BY <1>1, <1>3, <1>4, <1>5, <1>6, Zenon

\* And what it does to the judge's record.
LEMMA LandJob ==
  ASSUME Inv, Types', NEW j \in Job, Land(j)
  PROVE  LET n == job[j]
             m == job'[j]
         IN /\ m \in JobRecord /\ m.at = AfterApply(j) /\ m.seen = 0 /\ m.pair = n.pair /\ m.games = n.games
            /\ m.bound = n.bound /\ \A k \in Job \ {j} : job'[k] = job[k]
            /\ \A k \in Job \ {j} : job[k].at \notin {"closure", "land"}
            /\ m.at \notin {"closure", "land"} /\ (j = "boot" => m.at = "end") /\ TurnOK'
<1> DEFINE n == job[j]
           m == job'[j]
           t == IF j = "boot" THEN {} ELSE n.todo
<1>1. /\ n.at = "land" /\ actor'.turn = "free"
      /\ job' = [job EXCEPT ![j].at = AfterApply(j), ![j].seen = 0, ![j].facts = Zero,
                        ![j].todo = t]
  BY LandIs, Zenon DEF Land
<1> HIDE DEF t
<1>2. /\ n \in JobRecord /\ job \in [Job -> JobRecord] /\ m \in JobRecord /\ "free" \notin Job
  BY OwedMarksAssumption, Zenon DEF Inv, Types, TypeOK, Job
<1>3. /\ m.at = AfterApply(j) /\ m.seen = 0 /\ m.pair = n.pair /\ m.games = n.games
      /\ m.bound = n.bound /\ \A k \in Job \ {j} : job'[k] = job[k]
  BY <1>1, <1>2, Zenon DEF JobRecord
<1>4. \A k \in Job \ {j} : job[k].at \notin {"closure", "land"}
  BY <1>1, Zenon DEF Inv, TurnOK
<1>5. AfterApply(j) \in {"seen", "ack", "end"}
  BY AfterIs, Zenon
<1>6. j = "boot" => AfterApply(j) = "end"
  BY OwedMarksAssumption, Zenon DEF AfterApply
<1>7. TurnOK'
  BY <1>1, <1>2, <1>3, <1>4, <1>5, Zenon DEF TurnOK
<1> QED
  BY <1>2, <1>3, <1>4, <1>5, <1>6, <1>7, Zenon

\* No row that is judged over enough is judged over less once the apply has landed; the
\* drain takes off what it listed and no event that was held since.
LEMMA LandTick ==
  ASSUME Inv, Types', NEW j \in Job, Land(j)
  PROVE  Tick(Now, Now')
<1> DEFINE n == job[j]
<1>0. Typed(Now) /\ Typed(Now') /\ "boot" \in Job
  BY NowTyped, NowTypedNext, Zenon DEF Inv, Job
<1>1. /\ n.at = "land" /\ UNCHANGED <<ver, seq, mark, rows, left>>
      /\ actor'.held = (IF j = "boot" THEN actor.held \ n.todo ELSE actor.held)
      /\ actor'.paged = (actor.paged \/ j = "boot")
      /\ \A g \in Game, p \in Pair :
           /\ actor'.row[g][p] = (IF g \in n.games THEN n.facts[p] ELSE actor.row[g][p])
           /\ actor.row[g][p] <= actor'.row[g][p]
  BY LandIs, Zenon
<1>2. /\ Now'.ver = Now.ver /\ Now'.seq = Now.seq /\ Now'.mark = Now.mark /\ Now'.rows = Now.rows
      /\ Now'.phase = Now.phase /\ Now.phase = left.phase
      /\ Now.row = actor.row /\ Now'.row = actor'.row /\ Now.held = actor.held /\ Now'.held = actor'.held
      /\ Now.paged = actor.paged /\ Now'.paged = actor'.paged /\ Now.boot = job["boot"] /\ Now'.boot = job'["boot"]
  BY <1>1, NowIs, NowBecomes, Zenon
<1>3. Now'.boot.at # "land" /\ (j # "boot" => Now.boot.at # "land")
  BY <1>0, <1>2, LandJob
<1>4. ASSUME NEW g \in Game, NEW p \in Pair, NEW v \in Nat, Enough(Now, g, p, v), Now.phase # "A"
      PROVE  Now'.row[g][p] >= v \/ g \in Now'.held \/ ~Now'.paged
  <2>1. /\ Now.row[g][p] >= v \/ g \in Now.held \/ ~Now.paged
        /\ Now.boot.at = "land" /\ g \in Now.boot.games =>
             Now.boot.facts[p] >= v \/ (g \in Now.held /\ g \notin Now.boot.todo)
    BY <1>4, Zenon DEF Enough
  <2>2. Now.row[g][p] \in Nat /\ Now'.row[g][p] \in Nat /\ Now.row[g][p] <= Now'.row[g][p]
    BY <1>0, <1>1, <1>2, Zenon DEF Typed
  <2>3. Now.row[g][p] >= v => Now'.row[g][p] >= v
    BY <2>2
  <2>4. CASE j # "boot"
    BY <1>1, <1>2, <2>1, <2>3, <2>4, Zenon
  <2>5. CASE j = "boot"
    <3>1. /\ Now.boot = n /\ n.at = "land" /\ Now'.held = Now.held \ n.todo
          /\ n.todo \subseteq n.games /\ (~Now.paged => n.games = Game)
      BY <1>1, <1>2, <2>5, Zenon DEF Inv, BootOK
    <3>2. CASE g \in n.games
      <4>1. Now'.row[g][p] = n.facts[p]
        BY <1>1, <1>2, <3>2
      <4> QED
        BY <2>1, <3>1, <3>2, <4>1, Zenon
    <3>3. CASE g \notin n.games
      BY <2>1, <2>3, <3>1, <3>3, Zenon
    <3> QED
      BY <3>2, <3>3, Zenon
  <2> QED
    BY <2>4, <2>5, Zenon
<1>5. ASSUME NEW g \in Game, NEW p \in Pair, NEW v \in Nat, Enough(Now, g, p, v)
      PROVE  Enough(Now', g, p, v)
  <2>1. CASE Now.phase = "A"
    BY <1>2, <1>5, <2>1, Zenon DEF Enough
  <2>2. CASE Now.phase # "A"
    BY <1>2, <1>3, <1>4, <1>5, <2>2, Zenon DEF Enough
  <2> QED
    BY <2>1, <2>2, Zenon
<1> QED
  BY <1>0, <1>2, <1>5, SMTT(30) DEF Tick, Typed

\* The apply covers no mark of a write that its rows miss.
LEMMA LandRows ==
  ASSUME Inv, Types', NEW j \in Job, Land(j)
  PROVE  RowsOK(Now') /\ ReadOK(Now', read)
<1> DEFINE n == job[j]
<1>0. /\ Typed(Now) /\ Typed(Now') /\ RowsOK(Now) /\ ReadOK(Now, read) /\ ReadJob(read, n) /\ n \in JobRecord
      /\ n.seen \in Nat /\ n.seen <= seq /\ seq \in Nat
      /\ read.need \in [Pair -> Nat] /\ read.marks \in [Pair -> Nat] /\ read.game \subseteq Game
  BY NowTyped, NowTypedNext, JobIs, Zenon DEF Inv, Types, TypeOK, JobOK, JobRecord
<1>1. /\ n.at = "land" /\ Fresh(Now, n) /\ UNCHANGED <<ver, seq, mark, rows, left>>
      /\ \A g \in Game, p \in Pair :
           /\ actor'.row[g][p] = (IF g \in n.games THEN n.facts[p] ELSE actor.row[g][p])
           /\ actor.row[g][p] <= actor'.row[g][p] /\ actor'.row[g][p] <= ver[p]
      /\ \A g \in Game :
           actor'.covered[g] = (IF g \in n.games /\ n.seen > actor.covered[g] THEN n.seen ELSE actor.covered[g])
  BY LandIs, Zenon
<1>2. /\ Now.ver = ver /\ Now'.ver = ver /\ Now.seq = seq /\ Now'.seq = seq /\ Now.mark = mark /\ Now'.mark = mark
      /\ Now'.rows = Now.rows /\ Now'.phase = Now.phase
      /\ Now.row = actor.row /\ Now'.row = actor'.row /\ Now.covered = actor.covered /\ Now'.covered = actor'.covered
  BY <1>1, NowIs, NowBecomes, Zenon
<1>3. ASSUME NEW g \in Game, NEW p \in Pair
      PROVE  /\ Now'.row[g][p] <= Now'.ver[p]
             /\ Now'.phase = "A" => Now'.rows[g][p] <= Now'.ver[p]
             /\ g \in Names[p] /\ Now'.mark[g][p] # 0 /\ Now'.mark[g][p] <= Now'.covered[g]
                  => Now'.row[g][p] = Now'.ver[p]
  <2>1. /\ Now'.row[g][p] <= ver[p] /\ Now.row[g][p] <= Now'.row[g][p]
        /\ Now.row[g][p] \in Nat /\ Now'.row[g][p] \in Nat /\ ver[p] \in Nat /\ mark[g][p] \in Nat
        /\ Now.covered[g] \in Nat /\ Now'.covered[g] \in Nat
    BY <1>0, <1>1, <1>2, ZenonT(40) DEF Typed
  <2>2. Now'.phase = "A" => Now'.rows[g][p] <= Now'.ver[p]
    BY <1>0, <1>2, Zenon DEF RowsOK
  <2>3. ASSUME g \in Names[p], mark[g][p] # 0, mark[g][p] <= Now'.covered[g]
        PROVE  Now'.row[g][p] = ver[p]
    <3>1. CASE mark[g][p] <= Now.covered[g]
      <4>1. Now.row[g][p] = ver[p]
        BY <1>0, <1>2, <2>3, <3>1, Zenon DEF RowsOK
      <4> QED
        BY <2>1, <4>1
    <3>2. CASE ~(mark[g][p] <= Now.covered[g])
      <4>1. g \in n.games /\ Now'.covered[g] = n.seen /\ Now'.row[g][p] = n.facts[p]
        BY <1>1, <1>2, <2>3, <3>2, ZenonT(40)
      <4> QED
        BY <1>1, <1>2, <2>3, <4>1, Zenon DEF Fresh
    <3> QED
      BY <3>1, <3>2, Zenon
  <2> QED
    BY <1>2, <2>1, <2>2, <2>3, Zenon
<1>4. \A g \in Game : Now'.covered[g] <= Now'.seq
  BY <1>0, <1>1, <1>2, SMTT(30) DEF RowsOK
<1>5. RowsOK(Now')
  BY <1>3, <1>4, Zenon DEF RowsOK
<1>6. ASSUME read.at = "rows", NEW g \in read.game, NEW p \in Pair, g \in Names[p], Now'.phase # "A"
      PROVE  /\ read.marks[p] # 0 /\ read.marks[p] <= Now'.covered[g] => Now'.row[g][p] >= read.need[p]
             /\ read.marks[p] = 0 => Enough(Now', g, p, read.need[p])
  <2>1. /\ read.marks[p] # 0 /\ read.marks[p] <= Now.covered[g] => Now.row[g][p] >= read.need[p]
        /\ read.marks[p] = 0 => Enough(Now, g, p, read.need[p])
        /\ read.need[p] <= Now.ver[p] /\ g \in Game /\ read.need[p] \in Nat /\ read.marks[p] \in Nat
    BY <1>0, <1>2, <1>6, Zenon DEF ReadOK
  <2>2. read.marks[p] = 0 => Enough(Now', g, p, read.need[p])
    BY <2>1, LandTick, Zenon DEF Tick
  <2>3. /\ Now.row[g][p] <= Now'.row[g][p] /\ Now.row[g][p] \in Nat /\ Now'.row[g][p] \in Nat
        /\ Now.covered[g] \in Nat /\ Now'.covered[g] \in Nat
    BY <1>0, <1>1, <1>2, <2>1, ZenonT(40) DEF Typed
  <2>4. ASSUME read.marks[p] # 0, read.marks[p] <= Now'.covered[g]
        PROVE  Now'.row[g][p] >= read.need[p]
    <3>1. CASE read.marks[p] <= Now.covered[g]
      BY <2>1, <2>3, <2>4, <3>1
    <3>2. CASE ~(read.marks[p] <= Now.covered[g])
      <4>1. g \in n.games /\ Now'.covered[g] = n.seen /\ Now'.row[g][p] = n.facts[p]
        BY <1>1, <1>2, <2>1, <2>4, <3>2, ZenonT(40)
      <4> QED
        BY <1>0, <1>1, <1>6, <2>4, <4>1, Zenon DEF ReadJob
    <3> QED
      BY <3>1, <3>2, Zenon
  <2> QED
    BY <2>2, <2>4, Zenon
<1>7. \A p \in Pair : read.need[p] <= Now'.ver[p]
  BY <1>0, <1>2, Zenon DEF ReadOK
<1>8. ReadOK(Now', read)
  BY <1>0, <1>2, <1>6, <1>7, Zenon DEF ReadOK
<1> QED
  BY <1>5, <1>8, Zenon

\* Landing a judge's rows in the actor keeps it.
LEMMA LandKeeps ==
  ASSUME Inv, Types', NEW j \in Job, Land(j)
  PROVE  Inv'
<1> DEFINE n == job[j]
           m == job'[j]
<1>0. /\ Typed(Now) /\ Typed(Now') /\ Tick(Now, Now') /\ RowsOK(Now') /\ ReadOK(Now', read) /\ BootOK(Now)
      /\ MarkOK(Now') /\ "boot" \in Job
  BY NowTyped, NowTypedNext, LandTick, LandRows, TickMarks, Zenon DEF Inv, Job
<1>1. /\ n.at = "land" /\ Fresh(Now, n) /\ UNCHANGED <<ver, seq, mark, rows, read, left>>
      /\ actor'.warm = actor.warm
      /\ actor'.held = (IF j = "boot" THEN actor.held \ n.todo ELSE actor.held)
      /\ actor'.paged = (actor.paged \/ j = "boot")
      /\ \A g \in Game, p \in Pair : actor'.row[g][p] = (IF g \in n.games THEN n.facts[p] ELSE actor.row[g][p])
  BY LandIs, Zenon
<1>2. /\ m \in JobRecord /\ m.at = AfterApply(j) /\ m.seen = 0 /\ m.pair = n.pair /\ m.games = n.games
      /\ m.bound = n.bound /\ \A k \in Job \ {j} : job'[k] = job[k]
      /\ \A k \in Job \ {j} : job[k].at \notin {"closure", "land"}
      /\ m.at \notin {"closure", "land"} /\ (j = "boot" => m.at = "end") /\ TurnOK'
  BY LandJob, Zenon
<1>3. /\ Now.ver = ver /\ Now'.ver = ver /\ Now'.seq = seq /\ Now.mark = mark /\ Now'.mark = mark
      /\ Now'.rows = Now.rows /\ Now'.phase = Now.phase /\ Now.phase = left.phase
      /\ Now'.row = actor'.row /\ Now.held = actor.held /\ Now'.held = actor'.held
      /\ Now.paged = actor.paged /\ Now'.paged = actor'.paged /\ Now.boot = job["boot"] /\ Now'.boot = job'["boot"]
      /\ Now.warm = actor.warm /\ Now'.warm = actor'.warm
  BY <1>1, NowIs, NowBecomes, Zenon
<1>4. BootOK(Now')
  <2>1. CASE j = "boot"
    BY <1>0, <1>1, <1>2, <1>3, <2>1, Zenon DEF BootOK
  <2>2. CASE j # "boot"
    <3>1. Now'.boot = Now.boot /\ Now'.held = Now.held /\ Now'.warm = Now.warm
      BY <1>0, <1>1, <1>2, <1>3, <2>2, Zenon
    <3>2. Now'.paged = Now.paged
      <4>1. actor.paged \in BOOLEAN
        BY Zenon DEF Inv, Types, TypeOK
      <4> QED
        BY <1>1, <1>3, <2>2, <4>1, Zenon
    <3> QED
      BY <1>0, <3>1, <3>2, Zenon DEF BootOK
  <2> QED
    BY <2>1, <2>2, Zenon
<1>5. n \in JobRecord /\ n.bound <= seq /\ Core(Now, j, n) /\ seq \in Nat /\ n.games \subseteq Game
  BY JobIs, Zenon DEF Inv, Types, TypeOK
<1>6. ASSUME m.at # "end", NEW g \in m.games, NEW p \in Pair, g \in Names[p], Now'.mark[g][p] <= m.bound
      PROVE  Sound(Now', g, p)
  <2>1. left.phase # "A" /\ j # "boot" /\ g \in Game /\ g \in n.games
    BY <1>2, <1>5, <1>6, AfterIs, Zenon
  <2>2. CASE mark[g][p] = 0
    BY <1>0, <1>3, <1>6, <2>1, <2>2, Zenon DEF MarkOK
  <2>3. CASE mark[g][p] # 0
    <3>1. n.facts[p] = ver[p]
      BY <1>1, <1>2, <1>3, <1>6, <2>1, <2>3 DEF Fresh
    <3>2. Now'.row[g][p] = ver[p] /\ ver[p] \in Nat
      BY <1>1, <1>3, <2>1, <3>1, SMTT(30) DEF Inv, Types, TypeOK
    <3>3. Now'.boot.at # "land"
      BY <1>0, <1>2, <1>3, <2>1, SMTT(30)
    <3> QED
      BY <1>3, <2>1, <3>2, <3>3 DEF Sound, Enough
  <2> QED
    BY <2>2, <2>3, Zenon
<1>7. JobOK(Now', read, j, m)
  <2>1. j = "belt" => \A p \in m.pair : Names[p] = m.games
    BY <1>2, <1>5, Zenon DEF Core
  <2>2. m.bound <= Now'.seq /\ m.seen <= Now'.seq
    BY <1>2, <1>3, <1>5
  <2>3. m.at \in {"seen", "ack", "end"} /\ (m.at = "seen" => Now'.phase = "B") /\ (m.at = "ack" => Now'.phase = "C")
    BY <1>2, <1>3, AfterIs, Zenon
  <2> QED
    BY <1>2, <1>6, <2>1, <2>2, <2>3, AppliedJob, Zenon
<1>8. ASSUME NEW k \in Job, k # j
      PROVE  JobOK(Now', read, k, job'[k])
  <2>1. JobOK(Now, read, k, job[k]) /\ job'[k] = job[k] /\ job[k].at # "land"
    BY <1>2, <1>8, Zenon DEF Inv
  <2>2. Core(Now', k, job[k])
    BY <1>0, <2>1, TickCore, Zenon DEF JobOK
  <2>3. Newest(Now', job[k])
    BY <1>3, <2>1, Zenon DEF JobOK, Newest
  <2> QED
    BY <2>1, <2>2, <2>3, Zenon DEF JobOK
<1>9. ReadCurrent' /\ OneRead' /\ \A k \in Job : JobOK(Now', read', k, job'[k])
  BY <1>1, <1>7, <1>8, Zenon DEF Inv, ReadCurrent, OneRead
<1>10. ReadOK(Now', read')
  BY <1>0, <1>1, Zenon
<1> QED
  BY <1>0, <1>2, <1>4, <1>9, <1>10, Zenon DEF Inv

-----------------------------------------------------------------------------
(* The read. *)

\* A read of the marks keeps it.
LEMMA ReadMarksKeeps ==
  ASSUME Inv, Types', left'.phase = left.phase, NEW g \in Game, ReadMarks(g)
  PROVE  Inv'
<1> DEFINE x == IF Phase = "A" THEN rows[g] ELSE Zero
<1>1. /\ read' = [at |-> "rows", game |-> {g}, marks |-> mark[g], need |-> ver, row |-> x]
      /\ UNCHANGED <<ver, seq, mark, rows, actor, job>>
  BY Zenon DEF ReadMarks
<1>2. left.phase = "A" => x = rows[g]
  BY Zenon DEF Phase
<1> HIDE DEF x
<1>3. /\ read'.at = "rows" /\ read'.game = {g} /\ read'.marks = mark[g] /\ read'.need = ver /\ read'.row = x
  BY <1>1, Zenon
<1>4. Now' = Now /\ TurnOK'
  BY <1>1, NowSame, Zenon DEF Inv, TurnOK
<1>5. Typed(Now) /\ RowsOK(Now) /\ MarkOK(Now)
  BY NowTyped, Zenon DEF Inv
<1>6. ASSUME NEW p \in Pair, g \in Names[p]
      PROVE  IF Now.phase = "A" THEN mark[g][p] = 0 => x[p] >= ver[p]
             ELSE /\ mark[g][p] # 0 /\ mark[g][p] <= Now.covered[g] => Now.row[g][p] >= ver[p]
                  /\ mark[g][p] = 0 => Enough(Now, g, p, ver[p])
  <2>1. mark[g][p] = 0 => Sound(Now, g, p)
    BY <1>5, <1>6, NowIs, Zenon DEF MarkOK
  <2>2. CASE Now.phase = "A"
    BY <1>2, <2>1, <2>2, NowIs, Zenon DEF Sound, Enough
  <2>3. CASE Now.phase # "A"
    <3>1. mark[g][p] = 0 => Enough(Now, g, p, ver[p])
      BY <2>1, NowIs, Zenon DEF Sound
    <3>2. mark[g][p] # 0 /\ mark[g][p] <= Now.covered[g] => Now.row[g][p] = ver[p]
      BY <1>5, <1>6, NowIs, Zenon DEF RowsOK
    <3>3. ver[p] >= ver[p]
      BY DEF Inv, Types, TypeOK
    <3> QED
      BY <2>3, <3>1, <3>2, <3>3, Zenon
  <2> QED
    BY <2>2, <2>3, Zenon
<1>7. ReadOK(Now, read')
  <2>1. \A p \in Pair : ver[p] <= Now.ver[p]
    BY NowIs, SMTT(30) DEF Inv, Types, TypeOK
  <2> QED
    BY <1>3, <1>6, <2>1, Zenon DEF ReadOK
<1>8. ASSUME NEW j \in Job
      PROVE  JobOK(Now, read', j, job[j])
  <2>1. JobOK(Now, read, j, job[j])
    BY Zenon DEF Inv
  <2>2. ASSUME job[j].at = "land", NEW p \in Pair, g \in Names[p], mark[g][p] # 0, mark[g][p] <= job[j].seen
        PROVE  job[j].facts[p] >= ver[p]
    <3>1. Fresh(Now, job[j])
      BY <2>1, <2>2, Zenon DEF JobOK, Core, Judging
    <3>2. job[j].facts[p] = ver[p] /\ ver[p] \in Nat
      BY <2>2, <3>1, NowIs, ZenonT(40) DEF Fresh, Inv, Types, TypeOK
    <3> QED
      BY <3>2
  <2>3. ReadJob(read', job[j])
    BY <1>3, <2>2, Zenon DEF ReadJob
  <2> QED
    BY <2>1, <2>3, Zenon DEF JobOK
<1>9. ReadCurrent' /\ OneRead'
  BY <1>3, Zenon DEF ReadCurrent, OneRead
<1> QED
  BY <1>1, <1>4, <1>5, <1>7, <1>8, <1>9, Zenon DEF Inv

\* The press that is served.
LEMMA ReadRowsKeeps ==
  ASSUME Inv, Types', ReadRows
  PROVE  Inv'
<1>1. PICK g \in read.game :
        LET shown == IF Phase = "A" THEN \A p \in Pair : read.marks[p] = 0
                     ELSE actor.warm /\ \A p \in Pair : read.marks[p] <= actor.covered[g]
            row == IF Phase = "A" THEN read.row ELSE actor.row[g]
        IN read' = IF shown THEN [read EXCEPT !.at = "press", !.marks = Zero, !.row = row]
                            ELSE [read EXCEPT !.at = "none", !.marks = Zero, !.need = Zero, !.row = Zero]
  BY Zenon DEF ReadRows
<1>2. read.at = "rows" /\ UNCHANGED <<ver, seq, mark, rows, actor, queue, memo, job, left>>
  BY Zenon DEF ReadRows
<1> DEFINE shown == IF Phase = "A" THEN \A p \in Pair : read.marks[p] = 0
                    ELSE actor.warm /\ \A p \in Pair : read.marks[p] <= actor.covered[g]
           x == IF Phase = "A" THEN read.row ELSE actor.row[g]
<1>3. /\ shown => read' = [read EXCEPT !.at = "press", !.marks = Zero, !.row = x]
      /\ ~shown => read' = [read EXCEPT !.at = "none", !.marks = Zero, !.need = Zero, !.row = Zero]
  BY <1>1, Zenon
<1>4. Now' = Now /\ TurnOK'
  BY <1>2, NowSame, Zenon DEF Inv, TurnOK
<1>5. /\ read \in [at : {"idle", "rows", "press", "none"}, game : SUBSET Game, marks : [Pair -> Nat],
                   need : [Pair -> Nat], row : [Pair -> Nat]]
      /\ ReadOK(Now, read) /\ OneRead /\ BootOK(Now) /\ Typed(Now)
  BY NowTyped, Zenon DEF Inv, Types, TypeOK
<1>6. ASSUME shown, NEW h \in read.game, NEW p \in Pair, h \in Names[p]
      PROVE  x[p] >= read.need[p]
  <2>1. h = g
    BY <1>5, Zenon DEF OneRead
  <2>2. CASE left.phase = "A"
    <3>1. read.marks[p] = 0 /\ x = read.row /\ Now.phase = "A"
      BY <1>6, <2>2, NowIs, Zenon DEF Phase
    <3> QED
      BY <1>2, <1>5, <1>6, <3>1, Zenon DEF ReadOK
  <2>3. CASE left.phase # "A"
    <3>1. /\ actor.warm /\ read.marks[p] <= actor.covered[g] /\ x = actor.row[g]
          /\ Now.phase # "A" /\ Now.warm /\ Now.covered = actor.covered /\ Now.row = actor.row
      BY <1>6, <2>3, NowIs, Zenon DEF Phase
    <3>2. Now.paged /\ Now.held = {}
      BY <1>5, <3>1, Zenon DEF BootOK
    <3>3. /\ read.marks[p] # 0 /\ read.marks[p] <= Now.covered[g] => Now.row[g][p] >= read.need[p]
          /\ read.marks[p] = 0 => Enough(Now, g, p, read.need[p])
      BY <1>2, <1>5, <1>6, <2>1, <3>1, Zenon DEF ReadOK
    <3>4. Enough(Now, g, p, read.need[p]) => Now.row[g][p] >= read.need[p]
      BY <3>1, <3>2, Zenon DEF Enough
    <3> QED
      BY <3>1, <3>3, <3>4, Zenon
  <2> QED
    BY <2>2, <2>3, Zenon
<1> HIDE DEF shown, x
<1>7. /\ read'.at \in {"press", "none"} /\ read'.game = read.game
      /\ read'.at = "press" => shown /\ read'.row = x /\ read'.need = read.need
      /\ read'.need \in {read.need, Zero}
  <2>1. CASE shown
    BY <1>3, <1>5, <2>1, Zenon
  <2>2. CASE ~shown
    BY <1>3, <1>5, <2>2, Zenon
  <2> QED
    BY <2>1, <2>2, Zenon
<1>8. ReadCurrent' /\ OneRead'
  BY <1>5, <1>6, <1>7, Zenon DEF ReadCurrent, OneRead
<1>9. ReadOK(Now, read')
  BY <1>5, <1>7 DEF ReadOK, Zero, Typed
<1>10. \A j \in Job : JobOK(Now, read', j, job[j])
  BY <1>7, Zenon DEF Inv, JobOK, ReadJob
<1> QED
  BY <1>2, <1>4, <1>8, <1>9, <1>10, Zenon DEF Inv

-----------------------------------------------------------------------------
(* Every step. *)

\* Nothing is marked, judged or read at the start.
LEMMA InvInit == Init => Inv
<1> SUFFICES ASSUME Init PROVE Inv
  BY Zenon
<1>1. Types /\ Typed(Now)
  BY TypesInit, NowTyped, Zenon
<1>2. \A p \in Pair : Zero[p] = 0
  BY Zenon DEF Zero
<1>3. /\ ver = Zero /\ seq = 0 /\ mark = [g \in Game |-> Zero] /\ rows = [g \in Game |-> Zero]
      /\ actor.warm = TRUE /\ actor.row = [g \in Game |-> Zero] /\ actor.covered = [g \in Game |-> 0]
      /\ actor.held = {} /\ actor.turn = "free" /\ actor.paged = TRUE
      /\ job = [j \in Job |-> Idle] /\ read.at = "idle" /\ read.game = {} /\ read.need = Zero
  BY Zenon DEF Init
<1>4. "boot" \in Job /\ "free" \notin Job /\ \A j \in Job : job[j] = Idle
  BY <1>3, OwedMarksAssumption, Zenon DEF Job
<1>5. TurnOK
  BY <1>3, <1>4, IdleIs, Zenon DEF TurnOK
<1>6. Now.boot = Idle
  BY <1>4, NowIs, Zenon
<1>7. /\ \A g \in Game, p \in Pair : Now.rows[g][p] = 0 /\ Now.row[g][p] = 0
      /\ \A g \in Game : Now.covered[g] = 0
      /\ \A p \in Pair : Now.ver[p] = 0
      /\ Now.seq = 0 /\ Now.warm = TRUE /\ Now.paged = TRUE /\ Now.held = {}
  BY <1>2, <1>3, NowIs
<1>8. BootOK(Now) /\ RowsOK(Now)
  BY <1>6, <1>7, IdleIs DEF BootOK, RowsOK
<1>9. MarkOK(Now)
  BY <1>6, <1>7, IdleIs DEF MarkOK, Sound, Enough
<1>10. ReadOK(Now, read) /\ ReadCurrent /\ OneRead
  BY <1>2, <1>3, <1>7 DEF ReadOK, ReadCurrent, OneRead
<1>11. ASSUME NEW j \in Job
       PROVE  JobOK(Now, read, j, job[j])
  BY <1>4, <1>7, IdleIs, PlainJob
<1> QED
  BY <1>1, <1>5, <1>8, <1>9, <1>10, <1>11, Zenon DEF Inv

\* Every step keeps what is known of every state.
LEMMA InvStep ==
  ASSUME Inv, OneD1Judge, [Next]_vars
  PROVE  Inv'
<1>0. Types' /\ left'.phase = left.phase
  BY TypesStep, PhaseStands, Zenon DEF Inv, Types
<1>1. CASE \/ \E p \in Pair : Publish(p) \/ PublishLost(p) \/ Sweep(p) \/ StampLapses(p)
           \/ \E x \in Game \cup Pair : HoldEnds(x)
           \/ UNCHANGED vars
  BY <1>0, <1>1, QueueKeeps, Zenon
<1>2. CASE (\E p \in Pair : Write(p)) \/ FindWrite
  BY <1>0, <1>2, WriteKeeps, Zenon
<1>3. CASE \/ \E j \in Job : Fate(j) \/ Ends(j)
           \/ \E p \in Pair : Direct(p) \/ \E g \in Game : Find(p, g)
  BY <1>0, <1>3, OtherKeeps, Zenon
<1>4. CASE BootStep \/ BootEnd \/ Stamp \/ Reset
  BY <1>0, <1>4, BootKeeps, Zenon
<1>5. CASE (\E g \in Game : ReadMarks(g)) \/ ReadRows
  BY <1>0, <1>5, ReadMarksKeeps, ReadRowsKeeps, Zenon
<1>6. CASE FindCommit
  BY <1>0, <1>6, FindCommitKeeps, Zenon
<1>7. ASSUME NEW c \in Consumer, (\E p \in Pair : Take(c, p)) \/ Delivered(c) \/ DeliveryFault(c) \/ Wall(c)
      PROVE  Inv'
  BY <1>0, <1>7, ConsumerKeeps, WallKeeps, Zenon
<1>8. ASSUME NEW j \in Job, Judge(j) \/ ClosureBound(j)
      PROVE  Inv'
  <2>1. CASE Bound(j) \/ Hold(j) \/ Turn(j) \/ Closure(j) \/ Land(j)
    BY <1>0, <2>1, BoundKeeps, HoldKeeps, TurnKeeps, ClosureKeeps, LandKeeps, Zenon
  <2>2. CASE Seen(j) \/ Facts(j) \/ Commit(j) \/ Ack(j) \/ ClosureBound(j)
    BY <1>0, <2>2, SeenKeeps, FactsKeeps, CommitKeeps, AckKeeps, ClosureBoundKeeps, Zenon
  <2>3. CASE Delivered(j)
    BY <1>7, <2>3, Zenon DEF Delivered
  <2>4. CASE Fate(j)
    BY <1>3, <2>4, Zenon
  <2> QED
    BY <1>8, <2>1, <2>2, <2>3, <2>4, Zenon DEF Judge
<1> QED
  BY <1>1, <1>2, <1>3, <1>4, <1>5, <1>6, <1>7, <1>8, Zenon DEF Next

\* A press that a read serves was judged over every fact committed before the read
\* began: in Phases B and C whatever happens, in Phase A while one judge at a time is
\* between its facts and its batch.
THEOREM ReadCurrentHolds == Spec /\ []OneD1Judge => []ReadCurrent
<1>1. Inv => ReadCurrent
  BY Zenon DEF Inv
<1>2. Inv /\ OneD1Judge /\ [Next]_vars => Inv'
  BY InvStep, Zenon
<1> QED
  BY <1>1, <1>2, InvInit, PTL DEF Spec

-----------------------------------------------------------------------------
(* The dirty marks implement a list of work. *)

\* A row that has no mark, of an actor that is stamped, is judged over every write.
LEMMA ClosedIs ==
  ASSUME Inv, NEW g \in Game, NEW p \in Pair, g \in Names[p], ~Open(g, p)
  PROVE  Served[g][p] >= ver[p]
<1>1. Sound(Now, g, p) /\ BootOK(Now)
  BY NowIs, Zenon DEF Inv, MarkOK, Open
<1>2. CASE left.phase = "A"
  BY <1>1, <1>2, NowIs, Zenon DEF Sound, Enough, Served, Phase
<1>3. CASE left.phase # "A"
  <2>1. actor.warm /\ g \notin actor.held /\ actor.paged
    BY <1>1, <1>3, NowIs, Zenon DEF Open, Phase, BootOK
  <2> QED
    BY <1>1, <1>3, <2>1, NowIs, Zenon DEF Sound, Enough, Served, Phase
<1> QED
  BY <1>2, <1>3, Zenon

\* The same of the state after a step.
LEMMA ClosedNext ==
  ASSUME Inv', NEW g \in Game, NEW p \in Pair, g \in Names[p], ~Open(g, p)'
  PROVE  Served'[g][p] >= ver'[p]
<1>1. Sound(Now', g, p) /\ BootOK(Now')
  BY NowBecomes, Zenon DEF Inv, MarkOK, Open
<1>2. CASE left'.phase = "A"
  BY <1>1, <1>2, NowBecomes, Zenon DEF Sound, Enough, Served, Phase
<1>3. CASE left'.phase # "A"
  <2>1. actor'.warm /\ g \notin actor'.held /\ actor'.paged
    BY <1>1, <1>3, NowBecomes, Zenon DEF Open, Phase, BootOK
  <2> QED
    BY <1>1, <1>3, <2>1, NowBecomes, Zenon DEF Sound, Enough, Served, Phase
<1> QED
  BY <1>2, <1>3, Zenon

\* The writes are counted.
LEMMA VerGrows ==
  ASSUME Inv, [Next]_vars, NEW p \in Pair
  PROVE  ver'[p] >= ver[p]
<1>0. ver \in [Pair -> Nat]
  BY Zenon DEF Inv, Types, TypeOK
<1>1. ASSUME NEW q \in Pair, NEW G, Dirty(q, G)
      PROVE  ver'[p] >= ver[p]
  BY <1>0, <1>1 DEF Dirty
<1>2. CASE FindCommit
  BY <1>0, <1>2 DEF FindCommit
<1>3. CASE ver' = ver
  BY <1>0, <1>3
<1>4. CASE FindWrite
  <2>1. PICK q \in job["belt"].pair : Dirty(q, job["belt"].games)
    BY <1>4, Zenon DEF FindWrite
  <2>2. q \in Pair
    BY JobIs, Zenon DEF JobRecord, Job
  <2> QED
    BY <1>1, <2>1, <2>2, Zenon
<1>5. ASSUME NEW q \in Pair, Write(q)
      PROVE  ver'[p] >= ver[p]
  BY <1>1, <1>5, Zenon DEF Write
<1>6. ASSUME NEW q \in Pair, Publish(q) \/ PublishLost(q) \/ Sweep(q) \/ StampLapses(q) \/ Direct(q)
             \/ (\E g \in Game : Find(q, g)) \/ \E c \in Consumer : Take(c, q)
      PROVE  ver' = ver
  BY <1>6, Zenon DEF Publish, PublishLost, Sweep, StampLapses, Direct, Find, Take
<1>7. ASSUME NEW j \in Job, Judge(j) \/ ClosureBound(j) \/ Ends(j)
      PROVE  ver' = ver
  BY <1>7, Zenon DEF Judge, Bound, Hold, Turn, Closure, Land, Seen, Facts, Commit, Ack, Delivered, Fate,
              ClosureBound, Ends, Leaves
<1>8. ASSUME NEW c \in Consumer, DeliveryFault(c) \/ Wall(c)
      PROVE  ver' = ver
  BY <1>8, Zenon DEF DeliveryFault, Wall
<1>9. ASSUME BootStep \/ BootEnd \/ Stamp \/ Reset \/ ReadRows \/ UNCHANGED vars
             \/ (\E g \in Game : ReadMarks(g)) \/ (\E x \in Game \cup Pair : HoldEnds(x))
      PROVE  ver' = ver
  BY <1>9, Zenon DEF BootStep, BootEnd, Leaves, Stamp, Reset, ReadRows, ReadMarks, HoldEnds, vars
<1> QED
  BY <1>2, <1>3, <1>4, <1>5, <1>6, <1>7, <1>8, <1>9 DEF Next

\* Only an apply and a batch change a row, and neither opens what was closed.
LEMMA ServedStep ==
  ASSUME Inv, OneD1Judge, [Next]_vars, NEW g \in Game, NEW p \in Pair, g \in Names[p]
  PROVE  /\ Served'[g][p] >= Served[g][p]
         /\ \/ Served'[g][p] = Served[g][p] \/ ~Open(g, p)'
            \/ ver'[p] = ver[p] /\ (Open(g, p)' => Open(g, p))
<1>0. Types' /\ left'.phase = left.phase
  BY TypesStep, PhaseStands, Zenon DEF Inv, Types
<1>1. /\ rows[g][p] \in Nat /\ actor.row[g][p] \in Nat
      /\ rows'[g][p] \in Nat /\ actor'.row[g][p] \in Nat /\ mark[g][p] \in Nat
  BY <1>0, SMTT(30) DEF Inv, Types, TypeOK
<1>2. CASE rows' = rows /\ actor'.row = actor.row
  BY <1>0, <1>1, <1>2, SMTT(30) DEF Served, Phase
<1>3. ASSUME NEW j \in Job, Land(j)
      PROVE  /\ rows' = rows /\ ver' = ver /\ mark' = mark /\ actor'.warm = actor.warm
             /\ actor'.held \subseteq actor.held /\ actor.row[g][p] <= actor'.row[g][p]
  BY <1>3, LandIs, Zenon
<1>4. CASE \E j \in Job : Land(j)
  <2>1. Open(g, p)' => Open(g, p)
    BY <1>0, <1>3, <1>4, Zenon DEF Open, Phase
  <2>2. CASE left.phase = "A"
    BY <1>0, <1>1, <1>3, <1>4, <2>2, SMTT(30) DEF Served, Phase
  <2>3. CASE left.phase # "A"
    <3>1. Served' = actor'.row /\ Served = actor.row
      BY <1>0, <2>3, Zenon DEF Served, Phase
    <3> QED
      BY <1>1, <1>3, <1>4, <2>1, <3>1, Zenon
  <2> QED
    BY <2>2, <2>3, Zenon
<1>5. ASSUME FindCommit \/ \E j \in Job : Commit(j)
      PROVE  /\ actor' = actor
             /\ left.phase = "A" => /\ rows[g][p] <= rows'[g][p]
                                    /\ mark'[g][p] # 0 => mark[g][p] # 0
                                    /\ ver'[p] = ver[p] \/ mark'[g][p] = 0
  <2>1. CASE FindCommit
    BY <2>1, FindCommitIs, Zenon DEF FindCommit
  <2>2. ASSUME NEW j \in Job, Commit(j)
        PROVE  /\ actor' = actor /\ ver' = ver
               /\ left.phase = "A" => /\ rows[g][p] <= rows'[g][p]
                                      /\ mark'[g][p] # 0 => mark[g][p] # 0
    <3>1. actor' = actor /\ ver' = ver
      BY <2>2, Zenon DEF Commit
    <3> QED
      BY <2>2, <3>1, CommitIs, Zenon
  <2> QED
    BY <1>5, <2>1, <2>2, Zenon
<1>6. CASE FindCommit \/ \E j \in Job : Commit(j)
  <2>1. CASE left.phase = "A"
    <3>1. Served' = rows' /\ Served = rows
      BY <1>0, <2>1, Zenon DEF Served, Phase
    <3>2. (Open(g, p)' => mark'[g][p] # 0) /\ (mark[g][p] # 0 => Open(g, p))
      BY <1>0, <2>1, Zenon DEF Open, Phase
    <3>3. (ver'[p] = ver[p] /\ (Open(g, p)' => Open(g, p))) \/ ~Open(g, p)'
      BY <1>5, <1>6, <2>1, <3>2, Zenon
    <3>4. rows'[g][p] >= rows[g][p]
      BY <1>1, <1>5, <1>6, <2>1, Zenon
    <3> QED
      BY <3>1, <3>3, <3>4, Zenon
  <2>2. CASE left.phase # "A"
    <3>1. Served' = actor'.row /\ Served = actor.row
      BY <1>0, <2>2, Zenon DEF Served, Phase
    <3> QED
      BY <1>1, <1>5, <1>6, <3>1, SMTT(30)
  <2> QED
    BY <2>1, <2>2, Zenon
<1>7. ASSUME ~(\E j \in Job : Land(j) \/ Commit(j)), ~FindCommit
      PROVE  rows' = rows /\ actor'.row = actor.row
  <2>1. ASSUME NEW q \in Pair, Write(q) \/ Publish(q) \/ PublishLost(q) \/ Sweep(q) \/ StampLapses(q) \/ Direct(q)
        PROVE  rows' = rows /\ actor' = actor
    BY <2>1, Zenon DEF Write, Publish, PublishLost, Sweep, StampLapses, Direct
  <2>2. ASSUME FindWrite \/ ReadRows \/ UNCHANGED vars
               \/ (\E h \in Game : ReadMarks(h)) \/ (\E q \in Pair, h \in Game : Find(q, h))
               \/ (\E x \in Game \cup Pair : HoldEnds(x))
        PROVE  rows' = rows /\ actor' = actor
    BY <2>2, Zenon DEF FindWrite, ReadRows, vars, ReadMarks, Find, HoldEnds
  <2>3. ASSUME NEW j \in Job, Bound(j) \/ Closure(j) \/ Seen(j) \/ Facts(j) \/ Ack(j) \/ Delivered(j) \/ Fate(j)
        PROVE  rows' = rows /\ actor' = actor
    BY <2>3, Zenon DEF Bound, Closure, Seen, Facts, Ack, Delivered, Fate
  <2>4. ASSUME NEW c \in Consumer, NEW q \in Pair, Take(c, q)
        PROVE  rows' = rows /\ actor' = actor
    BY <2>4, Zenon DEF Take
  <2>5. ASSUME NEW j \in Job, Hold(j) \/ Turn(j) \/ ClosureBound(j) \/ Ends(j)
        PROVE  rows' = rows /\ actor'.row = actor.row
    <3>1. CASE Hold(j)
      BY <3>1, Zenon DEF Hold, Inv, Types, TypeOK
    <3>2. CASE Turn(j)
      BY <3>2, Zenon DEF Turn, Inv, Types, TypeOK
    <3>3. CASE ClosureBound(j)
      BY <3>3, Zenon DEF ClosureBound, Inv, Types, TypeOK
    <3>4. CASE Ends(j)
      BY <3>4, FreeTypes, Zenon DEF Ends, Leaves, Inv
    <3> QED
      BY <2>5, <3>1, <3>2, <3>3, <3>4, Zenon
  <2>6. ASSUME NEW c \in Consumer, DeliveryFault(c) \/ Wall(c)
        PROVE  rows' = rows /\ actor'.row = actor.row
    <3>1. CASE DeliveryFault(c)
      BY <3>1, Zenon DEF DeliveryFault, Free, Inv, Types, TypeOK
    <3>2. CASE Wall(c)
      BY <3>2, Zenon DEF Wall, Inv, Types, TypeOK
    <3> QED
      BY <2>6, <3>1, <3>2, Zenon
  <2>7. ASSUME BootStep \/ BootEnd \/ Stamp \/ Reset
        PROVE  rows' = rows /\ actor'.row = actor.row
    <3>1. CASE BootEnd
      BY <3>1, FreeTypes, Zenon DEF BootEnd, Leaves, Job, Inv
    <3> QED
      BY <2>7, <3>1, Zenon DEF BootStep, Stamp, Reset, Inv, Types, TypeOK
  <2> QED
    BY <1>7, <2>1, <2>2, <2>3, <2>4, <2>5, <2>6, <2>7, Zenon DEF Next, Judge
<1> QED
  BY <1>2, <1>4, <1>6, <1>7, Zenon

\* The dirty marks implement a list of work: whoever judges, however deliveries, direct
\* calls, finds, walls, resets and faults interleave, a mark is deleted (and an actor
\* stamped) only when the served row is judged over every write that was marked, and no
\* served row is ever judged over older facts than before.
THEOREM MarksImplement == Spec /\ []OneD1Judge => Implements
<1>0. \A x \in Item : x[1] \in Game /\ x[2] \in Pair /\ x[1] \in Names[x[2]]
  BY Zenon DEF Item
<1>1. Init => Marks!Init
  <2> SUFFICES ASSUME Init PROVE Marks!Init
    BY Zenon
  <2>1. ASSUME NEW x \in Item
        PROVE  ver[x[2]] = 0 /\ Served[x[1]][x[2]] = 0 /\ Open(x[1], x[2]) = FALSE
    BY <1>0, Zenon DEF Init, Served, Open, Zero
  <2> QED
    BY <2>1, Zenon DEF Marks!Init
<1>2. Inv /\ OneD1Judge /\ [Next]_vars => [Marks!Next]_(Marks!vars)
  <2> SUFFICES ASSUME Inv, OneD1Judge, [Next]_vars PROVE Marks!Next
    BY Zenon
  <2>1. Inv'
    BY InvStep, Zenon
  <2>2. ASSUME NEW x \in Item
        PROVE  /\ ver'[x[2]] \in Nat /\ Served'[x[1]][x[2]] \in Nat /\ Open(x[1], x[2])' \in BOOLEAN
    BY <1>0, <2>1, SMTT(30) DEF Inv, Types, TypeOK, Served, Open
  <2>3. Marks!TypeOK'
    BY <2>2, Zenon DEF Marks!TypeOK
  <2>4. ASSUME NEW x \in Item
        PROVE  Marks!Carry(x) \/ Marks!Record(x) \/ Marks!Close(x)
    <3> DEFINE g == x[1]
               p == x[2]
    <3>1. g \in Game /\ p \in Pair /\ g \in Names[p]
      BY <1>0, Zenon
    <3>2. /\ Served'[g][p] >= Served[g][p]
          /\ \/ Served'[g][p] = Served[g][p] \/ ~Open(g, p)'
             \/ ver'[p] = ver[p] /\ (Open(g, p)' => Open(g, p))
      BY <3>1, ServedStep, Zenon
    <3>3. ~Open(g, p)' => Served'[g][p] >= ver'[p]
      BY <2>1, <3>1, ClosedNext, Zenon
    <3>4. ver'[p] >= ver[p]
      BY <3>1, VerGrows, Zenon
    <3>5. /\ Open(g, p) \in BOOLEAN /\ Open(g, p)' \in BOOLEAN
      BY <2>2, Zenon DEF Open
    <3> QED
      BY <3>1, <3>2, <3>3, <3>4, <3>5, Zenon DEF Marks!Carry, Marks!Record, Marks!Close
  <2> QED
    BY <2>3, <2>4, Zenon DEF Marks!Next
<1>3. Inv /\ OneD1Judge /\ [Next]_vars => Inv'
  BY InvStep, Zenon
<1> QED
  BY <1>1, <1>2, <1>3, InvInit, PTL DEF Spec, Implements, Marks!Spec
=============================================================================
