--------------------------- MODULE EfJobs_proofs ---------------------------
(* Proofs about EfJobs, for any requests, consumers, chunks, limits and bounds: a
   submission answered 202 keeps its row and its bytes, and the cursor of its
   corroboration does not go back. *)
EXTENDS EfJobs, FiniteSetTheorems, TLAPS

ReqAt == {"idle", "delete", "put", "upsert", "send"}
RunAt == {"idle", "take", "load", "arm", "advance", "send", "settle", "release"}
CronAt == {"idle", "send", "touch", "expired", "delete", "release", "list", "rows", "head", "object"}
RowState == {"none", "queued", "running", "done", "failed"}

LeftT == [rest : {"r2", "d1"}, legs : Nat, consumers : SUBSET Consumer,
          presents : Nat, faults : Nat, ends : Nat]
CronT == [at : CronAt, of : Nat, age : Nat]
RowT == [state : RowState, attempts : Nat, legs : Nat, age : Nat, of : Nat]
ReqT == [at : ReqAt, legs : Nat, put : Nat]
RunT == [at : RunAt, legs : Nat, reached : Nat, loaded : Nat, state : RowState, age : Nat, of : Nat]
PastT == [rows : Nat, owed : BOOLEAN, over : BOOLEAN, crossed : BOOLEAN]

Types ==
  /\ left \in LeftT
  /\ row \in RowT
  /\ touched \in Nat
  /\ req \in [Request -> ReqT]
  /\ run \in [Consumer -> RunT]
  /\ cron \in CronT
  /\ past \in PastT

\* Chunks that a job may need are being put again.
Rewriting == left.rest = "d1" /\ \E r \in Request : req[r].at \in {"put", "upsert"}

\* The newest presentation's job may end.
MayEnd == past.over \/ past.crossed

\* Custody, with the bytes that are not whole in the hands of a request that will
\* either put them all or be seen to end.
Kept ==
  past.owed /\ ~past.over /\ ~past.crossed =>
    row.state \in Open /\ (bytes = Chunk \/ Rewriting)

\* Who is at work is at work for a presentation there was.
Known ==
  /\ row.state # "none" => past.owed /\ row.of = past.rows
  /\ \A c \in Consumer : run[c].at # "idle" => past.owed /\ run[c].of <= past.rows
  /\ cron.of <= past.rows

\* Where requests and runs are in the bytes.
Spans ==
  /\ bytes \subseteq Chunk
  /\ \A r \in Request :
       /\ req[r].at = "delete" => left.rest = "d1" /\ req[r].put = 0
       /\ req[r].at = "put" => req[r].put < LastSpan
  /\ \A c \in Consumer :
       /\ run[c].at = "take" => run[c].loaded = 0
       /\ run[c].at = "load" => run[c].loaded < LastSpan
       /\ run[c].at \in {"take", "load", "arm"} => run[c].state = "failed"
       /\ run[c].at = "settle" => run[c].state \in {"queued"} \cup Settled

\* A run or a sweep that is about to end the newest presentation's job may do so.
Ending(c) ==
  /\ run[c].at = "settle" /\ run[c].state = "done" => MayEnd
  /\ run[c].at = "settle" /\ run[c].state = "failed" => MayEnd \/ Rewriting
  /\ run[c].at = "release" => MayEnd \/ Rewriting

Endings ==
  /\ \A c \in Consumer : run[c].of = past.rows => Ending(c)
  /\ cron.at \in {"delete", "release"} /\ cron.of = past.rows => MayEnd

\* Bytes whose row is about to be written are whole, or being put by another request.
Whole ==
  ~past.crossed =>
    /\ left.rest = "r2" /\ (\E r \in Request : req[r].at = "upsert") => bytes = Chunk
    /\ Rewriting => bytes = Chunk \/ \E r \in Request : req[r].at = "put" /\ 1..req[r].put \subseteq bytes

\* An object about to be deleted has no row, unless it was put again.
Orphan ==
  /\ (\E r \in Request : req[r].at = "upsert") => touched = 0
  /\ cron.at \in {"rows", "head", "object"} => left.rest = "r2" /\ cron.age > JOB_KEEP
  /\ cron.at \in {"head", "object"} /\ touched = cron.age => row.state = "none"

Inv == Types /\ Kept /\ Known /\ Spans /\ Endings /\ Whole /\ Orphan

-----------------------------------------------------------------------------
(* The types. *)

\* Initially everything is idle.
LEMMA InitInv == Init => Inv
<1> SUFFICES ASSUME Init PROVE Inv
  OBVIOUS
<1>1. Types
  BY EfJobsAssumption DEF Init, Types, LeftT, RowT, ReqT, RunT, CronT, PastT, NoRow, IdleReq, IdleRun,
     IdleCron, ReqAt, RunAt, CronAt, RowState
<1>2. Kept /\ Known /\ Orphan
  BY DEF Init, Kept, Known, Orphan, NoRow, IdleReq, IdleRun, IdleCron
<1>3. Spans /\ Endings
  BY DEF Init, Spans, Endings, Ending, IdleReq, IdleRun, IdleCron
<1>4. Whole
  BY DEF Init, Whole, Rewriting, IdleReq
<1> QED
  BY <1>1, <1>2, <1>3, <1>4 DEF Inv

\* A bound that is spent leaves the instance's other fields alone.
LEMMA SpendLeaves ==
  ASSUME Types, NEW field \in {"presents", "faults", "ends"}, Spend(field)
  PROVE  left' \in LeftT /\ left'.rest = left.rest
BY DEF Types, Spend, LeftT

\* Every step keeps the types.
LEMMA TypesStep == Types /\ [Next]_vars => Types'
<1> SUFFICES ASSUME Types, [Next]_vars PROVE Types'
  OBVIOUS
<1>1. ASSUME NEW r \in Request, Present(r) PROVE Types'
  <2>1. left' \in LeftT
    BY <1>1, SpendLeaves DEF Present
  <2>2. req' \in [Request -> ReqT]
    <3>1. CASE req' = req
      BY <3>1 DEF Types
    <3>2. ASSUME NEW l \in 0..left.legs, NEW a \in ReqAt,
                 req' = [req EXCEPT ![r] = [IdleReq EXCEPT !.at = a, !.legs = l]]
          PROVE  req' \in [Request -> ReqT]
      <4>1. l \in Nat
        BY DEF Types, LeftT
      <4>2. [IdleReq EXCEPT !.at = a, !.legs = l] \in ReqT
        BY <4>1 DEF IdleReq, ReqT
      <4> QED
        BY <3>2, <4>2 DEF Types
    <3> QED
      BY <1>1, <3>1, <3>2 DEF Present, ReqAt
  <2>3. past' \in PastT
    BY <1>1 DEF Types, Present, PastT
  <2> QED
    BY <1>1, <2>1, <2>2, <2>3 DEF Types, Present
<1>2. ASSUME NEW r \in Request, DeleteChunks(r) PROVE Types'
  BY <1>2 DEF Types, DeleteChunks, ReqT, ReqAt
<1>3. ASSUME NEW r \in Request, Put(r) PROVE Types'
  <2>1. req' \in [Request -> ReqT]
    <3> DEFINE n == req[r].put + 1
               a == IF n = LastSpan THEN "upsert" ELSE "put"
    <3>1. n \in Nat /\ a \in ReqAt /\ req[r] \in ReqT
      BY DEF Types, ReqT, ReqAt
    <3>2. req' = [req EXCEPT ![r] = [@ EXCEPT !.put = n, !.at = a]]
      BY <1>3 DEF Put
    <3> HIDE DEF n, a
    <3>3. [req[r] EXCEPT !.put = n, !.at = a] \in ReqT
      BY <3>1 DEF ReqT
    <3> QED
      BY <3>2, <3>3 DEF Types
  <2> QED
    BY <1>3, <2>1 DEF Types, Put
<1>4. ASSUME NEW r \in Request, Upsert(r) PROVE Types'
  <2>1. row' \in RowT
    BY <1>4 DEF Types, Upsert, RowT, RowState, ReqT, PastT
  <2>2. req' \in [Request -> ReqT]
    BY <1>4 DEF Types, Upsert, ReqT, ReqAt
  <2>3. past' \in PastT
    <3> DEFINE n == past.rows + 1
    <3>1. n \in Nat /\ past \in PastT
      BY DEF Types, PastT
    <3> DEFINE x == past.crossed /\ bytes # Chunk
    <3>2. past' = [past EXCEPT !.rows = n, !.owed = TRUE, !.over = FALSE, !.crossed = x]
      BY <1>4, Zenon DEF Upsert
    <3>3. x \in BOOLEAN
      BY Zenon
    <3> HIDE DEF n, x
    <3> QED
      BY <3>1, <3>2, <3>3, Zenon DEF PastT
  <2> QED
    BY <1>4, <2>1, <2>2, <2>3 DEF Types, Upsert
<1>5. ASSUME NEW r \in Request, SendJob(r) PROVE Types'
  BY <1>5 DEF Types, SendJob, ReqT, ReqAt, IdleReq
<1>6. ASSUME NEW r \in Request, RequestEnds(r) PROVE Types'
  <2>1. left' \in LeftT
    BY <1>6 DEF Types, RequestEnds, Spend, LeftT
  <2>2. req' \in [Request -> ReqT]
    BY <1>6 DEF Types, RequestEnds, ReqT, ReqAt, IdleReq
  <2>3. past' \in PastT
    BY <1>6 DEF Types, RequestEnds, PastT
  <2> QED
    BY <1>6, <2>1, <2>2, <2>3 DEF Types, RequestEnds
<1>7. ASSUME NEW c \in Consumer, Deliver(c) PROVE Types'
  <2>1. run' \in [Consumer -> RunT]
    <3> DEFINE a == IF row.attempts >= JOB_ATTEMPTS THEN "settle" ELSE "take"
               d == [IdleRun EXCEPT !.legs = row.legs, !.state = "failed", !.of = row.of, !.at = a]
    <3>1. a \in RunAt /\ row.legs \in Nat /\ row.of \in Nat
      BY DEF Types, RowT, RunAt
    <3> HIDE DEF a
    <3>2. d \in RunT
      BY <3>1 DEF IdleRun, RunT, RowState, RunAt
    <3>3. run' = run \/ run' = [run EXCEPT ![c] = d]
      BY <1>7 DEF Deliver, a
    <3> HIDE DEF d
    <3> QED
      BY <3>2, <3>3 DEF Types
  <2>2. past' \in PastT
    BY <1>7 DEF Types, Deliver, PastT
  <2> QED
    BY <1>7, <2>1, <2>2 DEF Types, Deliver
<1>8. ASSUME NEW c \in Consumer, Take(c) PROVE Types'
  BY <1>8 DEF Types, Take, Update, RunT, RunAt, RowT, RowState
<1>9. ASSUME NEW c \in Consumer, Load(c) PROVE Types'
  <2>1. run' \in [Consumer -> RunT]
    <3> DEFINE n == run[c].loaded + 1
               a == IF Span(n) \subseteq bytes THEN IF n = LastSpan THEN "arm" ELSE "load"
                    ELSE "settle"
    <3>1. n \in Nat /\ a \in RunAt /\ run[c] \in RunT
      BY DEF Types, RunT, RunAt
    <3>2. run' = [run EXCEPT ![c] = [@ EXCEPT !.loaded = n, !.at = a]]
      BY <1>9 DEF Load
    <3> HIDE DEF n, a
    <3>3. [run[c] EXCEPT !.loaded = n, !.at = a] \in RunT
      BY <3>1 DEF RunT
    <3> QED
      BY <3>2, <3>3 DEF Types
  <2> QED
    BY <1>9, <2>1 DEF Types, Load
<1>10. ASSUME NEW c \in Consumer, Arm(c) PROVE Types'
  <2>1. run' \in [Consumer -> RunT]
    BY <1>10 DEF Types, Arm, RunT, RunAt, RowState, LeftT
  <2>2. past' \in PastT
    BY <1>10 DEF Types, Arm, PastT
  <2> QED
    BY <1>10, <2>1, <2>2 DEF Types, Arm
<1>11. ASSUME NEW c \in Consumer, Advance(c) PROVE Types'
  BY <1>11 DEF Types, Advance, Update, RunT, RunAt, RowT, RowState
<1>12. ASSUME NEW c \in Consumer, SendNext(c) PROVE Types'
  BY <1>12 DEF Types, SendNext, Ends, IdleRun, RunT, RunAt, RowState
<1>13. ASSUME NEW c \in Consumer, Settle(c) PROVE Types'
  <2>1. row' \in RowT
    BY <1>13 DEF Types, Settle, Update, RunT, RowT
  <2>2. run' \in [Consumer -> RunT]
    BY <1>13 DEF Types, Settle, RunT, RunAt, IdleRun, RowState
  <2>3. past' \in PastT
    BY <1>13 DEF Types, Settle, PastT, Cross
  <2> QED
    BY <1>13, <2>1, <2>2, <2>3 DEF Types, Settle
<1>14. ASSUME NEW c \in Consumer, Release(c) PROVE Types'
  BY <1>14 DEF Types, Release, Cross, Ends, IdleRun, RunT, RunAt, RowState, PastT
<1>15. ASSUME NEW c \in Consumer, DeliverFaults(c) PROVE Types'
  BY <1>15 DEF Types, DeliverFaults, Spend, LeftT
<1>16. ASSUME NEW c \in Consumer, LoadFaults(c) PROVE Types'
  <2>1. left' \in LeftT
    BY <1>16 DEF Types, LoadFaults, Spend, LeftT
  <2>2. run' \in [Consumer -> RunT]
    BY <1>16 DEF Types, LoadFaults, RunT, RunAt
  <2>3. past' \in PastT
    BY <1>16 DEF Types, LoadFaults, PastT
  <2> QED
    BY <1>16, <2>1, <2>2, <2>3 DEF Types, LoadFaults
<1>17. ASSUME NEW c \in Consumer, RunFaults(c) PROVE Types'
  BY <1>17 DEF Types, RunFaults, Spend, LeftT, IdleRun, RunT, RunAt, RowState
<1>18. ASSUME NEW c \in Consumer, RunDies(c) PROVE Types'
  BY <1>18 DEF Types, RunDies, Spend, LeftT, Ends, IdleRun, RunT, RunAt, RowState
<1>19. CASE Quiet
  BY <1>19 DEF Types, Quiet, Spend, LeftT, CronT, CronAt
<1>20. CASE HandBack
  BY <1>20 DEF Types, HandBack, Spend, LeftT, CronT, CronAt
<1>21. CASE Touch
  BY <1>21 DEF Types, Touch, Spend, LeftT, Update, CronT, CronAt, RowT, RowState
<1>22. CASE ReadExpired
  BY <1>22 DEF Types, ReadExpired, CronT, CronAt, RowT
<1>23. CASE DeleteJob
  BY <1>23 DEF Types, DeleteJob, Spend, LeftT, CronT, CronAt, RowT, RowState, NoRow
<1>24. CASE ReleaseSwept
  <2>1. left' \in LeftT
    BY <1>24 DEF Types, ReleaseSwept, Spend, LeftT
  <2>2. cron' \in CronT
    BY <1>24 DEF Types, ReleaseSwept, CronT, CronAt
  <2>3. past' \in PastT
    BY <1>24 DEF Types, ReleaseSwept, PastT, Cross
  <2> QED
    BY <1>24, <2>1, <2>2, <2>3 DEF Types, ReleaseSwept
<1>25. CASE ListPage
  BY <1>25, EfJobsAssumption DEF Types, ListPage, CronT, CronAt, IdleCron
<1>26. CASE KeysWithRows
  BY <1>26 DEF Types, KeysWithRows, CronT, CronAt, IdleCron
<1>27. CASE Head
  BY <1>27 DEF Types, Head, CronT, CronAt, IdleCron
<1>28. CASE DeleteObject
  BY <1>28 DEF Types, DeleteObject, CronT, CronAt, IdleCron, PastT
<1>29. CASE CronEnds
  BY <1>29 DEF Types, CronEnds, CronT, CronAt, Spend, LeftT, IdleCron
<1>30. CASE Tick
  BY <1>30, EfJobsAssumption DEF Types, Tick, Older, RowT, RowState, RunT
<1>31. CASE UNCHANGED vars
  BY <1>31 DEF Types, vars
<1> QED
  BY <1>1, <1>2, <1>3, <1>4, <1>5, <1>6, <1>7, <1>8, <1>9, <1>10, <1>11, <1>12, <1>13, <1>14, <1>15, <1>16, <1>17, <1>18, <1>19, <1>20, <1>21, <1>22, <1>23, <1>24, <1>25, <1>26, <1>27, <1>28, <1>29, <1>30, <1>31 DEF Next, RequestStep, RunStep, CronStep

-----------------------------------------------------------------------------
(* The invariant. *)

\* A submission whose job is open changes nothing but what it is owed; another
\* begins to put its bytes.
LEMMA PresentKeeps ==
  ASSUME Inv, Types', NEW r \in Request, Present(r) PROVE Inv'
<1> USE DEF Inv
<1>0. left'.rest = left.rest
  BY SpendLeaves DEF Present
<1>1. Kept'
  <2>1. CASE row.state \in Open /\ req' = req /\ past' = [past EXCEPT !.owed = TRUE]
    BY <1>0, <2>1 DEF Present, Kept, Known, Open, Rewriting, Types, PastT
  <2>2. CASE past' = past
    <3>1. Rewriting => Rewriting'
      BY <1>0 DEF Present, Rewriting, Types, ReqT
    <3> QED
      BY <2>2, <3>1 DEF Present, Kept
  <2> QED
    BY <2>1, <2>2 DEF Present, JobOpen
<1>2. Known'
  BY <1>0 DEF Present, JobOpen, IdleReq, Known, Types, PastT
<1>3. Spans'
  <2> SUFFICES ASSUME NEW q \in Request
               PROVE  /\ req'[q].at = "delete" => left.rest = "d1" /\ req'[q].put = 0
                      /\ req'[q].at = "put" => req'[q].put < LastSpan
    BY <1>0 DEF Present, Spans, LastSpan
  <2>1. CASE req'[q] = req[q]
    BY <2>1 DEF Spans
  <2>2. CASE req'[q] # req[q]
    <3>1. req'[q].at = (IF left.rest = "r2" THEN "put" ELSE "delete") /\ req'[q].put = 0
      BY <2>2 DEF Present, IdleReq, Types
    <3> QED
      BY <3>1, EfJobsAssumption DEF LastSpan, Types, LeftT
  <2> QED
    BY <2>1, <2>2
<1>4. Endings'
  BY <1>0, ZenonT(40) DEF Present, JobOpen, IdleReq, Endings, Ending, MayEnd, Rewriting, Types, PastT, ReqT,
     ReqAt
<1>5. Whole'
  <2>1. past'.crossed = past.crossed
    BY DEF Present, Types, PastT
  <2>2. \A q \in Request : req[q].at \in {"put", "upsert"} => req'[q] = req[q]
    BY DEF Present, Types
  <2>3. \A q \in Request : req'[q].at = "upsert" \/ (left.rest = "d1" /\ req'[q].at = "put") => req'[q] = req[q]
    BY DEF Present, IdleReq, Types
  <2>4. Rewriting' => Rewriting
    BY <1>0, <2>3 DEF Rewriting
  <2> QED
    BY <1>0, <2>1, <2>2, <2>3, <2>4 DEF Present, Whole
<1>6. Orphan'
  BY <1>0, ZenonT(40) DEF Present, JobOpen, IdleReq, Orphan, Types, ReqT, ReqAt
<1> QED
  BY <1>1, <1>2, <1>3, <1>4, <1>5, <1>6

\* CHUNKS_DELETE_SQL takes the bytes of a job that stood, and the request is
\* then seen to put them again.
LEMMA DeleteChunksKeeps ==
  ASSUME Inv, Types', NEW r \in Request, DeleteChunks(r) PROVE Inv'
<1> USE DEF Inv
<1>1. Kept'
  <2>1. Rewriting'
    BY DEF DeleteChunks, Rewriting, Spans, Types, ReqT
  <2> QED
    BY <2>1 DEF DeleteChunks, Kept
<1>2. Spans'
  BY EfJobsAssumption DEF DeleteChunks, Spans, LastSpan, Types, ReqT
<1>3. Endings'
  BY DEF DeleteChunks, Endings, Ending, MayEnd, Rewriting, Types, ReqT, ReqAt
<1>4. Whole'
  <2>1. left.rest = "d1" /\ req'[r].at = "put" /\ req'[r].put = 0
    BY DEF DeleteChunks, Spans, Types, ReqT
  <2>2. 1..req'[r].put \subseteq bytes'
    BY <2>1
  <2> QED
    BY <2>1, <2>2 DEF DeleteChunks, Whole, Rewriting
<1>5. Orphan'
  BY DEF DeleteChunks, Orphan, Types, ReqT, ReqAt
<1>6. Known'
  BY DEF DeleteChunks, Known
<1> QED
  BY <1>1, <1>2, <1>3, <1>4, <1>5, <1>6

\* A put covers the next chunk, or the whole object with a new stamp.
LEMMA PutKeeps ==
  ASSUME Inv, Types', NEW r \in Request, Put(r) PROVE Inv'
<1> USE DEF Inv
<1>1. PICK n \in Nat \ {0} : n = req[r].put + 1 /\ n <= LastSpan
  BY EfJobsAssumption DEF Put, Spans, Types, ReqT, LastSpan
<1>2. /\ req'[r].put = n /\ req'[r].at = IF n = LastSpan THEN "upsert" ELSE "put"
      /\ bytes' = bytes \cup Span(n) /\ \A q \in Request \ {r} : req'[q] = req[q]
  BY <1>1 DEF Put, Types, ReqT
<1>3. Span(n) \subseteq Chunk
  BY <1>1, EfJobsAssumption DEF Span, LastSpan, Chunk
<1>4. Kept'
  <2>1. bytes = Chunk => bytes' = Chunk
    BY <1>1, <1>2, <1>3 DEF Spans
  <2>2. Rewriting => Rewriting'
    BY <1>1, <1>2, <1>3 DEF Put, Rewriting
  <2> QED
    BY <2>1, <2>2 DEF Put, Kept
<1>5. Spans'
  <2>1. LastSpan' = LastSpan /\ LastSpan \in Nat
    BY EfJobsAssumption DEF Put, LastSpan
  <2>2. req'[r].at = "put" => req'[r].put < LastSpan
    BY <1>1, <1>2, <2>1
  <2>3. req'[r].at # "delete"
    BY <1>2
  <2> QED
    BY <1>2, <1>3, <2>1, <2>2, <2>3 DEF Put, Spans
<1>6. Endings'
  BY DEF Put, Span, Chunk, Endings, Ending, MayEnd, Rewriting, Types, ReqT, ReqAt
<1>7. Whole'
  <2> SUFFICES ASSUME ~past.crossed PROVE Whole'
    BY DEF Put, Whole
  <2>1. bytes = Chunk => bytes' = Chunk
    BY <1>1, <1>2, <1>3 DEF Spans
  <2>2. CASE left.rest = "r2"
    <3>1. bytes' = Chunk
      BY <1>1, <1>2, <1>3, <2>2 DEF Span, Spans
    <3> QED
      BY <2>2, <3>1 DEF Whole, Put, Rewriting
  <2>3. CASE left.rest = "d1"
    <3>1. bytes = Chunk \/ \E q \in Request : req[q].at = "put" /\ 1..req[q].put \subseteq bytes
      BY <2>3 DEF Whole, Put, Rewriting
    <3>2. ASSUME NEW q \in Request, q # r, req[q].at = "put", 1..req[q].put \subseteq bytes
          PROVE  req'[q].at = "put" /\ 1..req'[q].put \subseteq bytes'
      BY <1>1, <1>2, <1>3, <3>2
    <3>3. ASSUME 1..req[r].put \subseteq bytes
          PROVE  1..n \subseteq bytes'
      BY <1>1, <1>2, <1>3, <2>3, <3>3 DEF Span, Types, ReqT
    <3>4. n = LastSpan => 1..n = Chunk
      BY <2>3 DEF LastSpan, Chunk
    <3>5. bytes' = Chunk \/ \E q \in Request : req'[q].at = "put" /\ 1..req'[q].put \subseteq bytes'
      BY <1>1, <1>2, <1>3, <2>1, <3>1, <3>2, <3>3, <3>4 DEF Spans
    <3> QED
      BY <2>3, <3>5 DEF Whole, Put
  <2> QED
    BY <2>2, <2>3 DEF Types, LeftT
<1>8. Orphan'
  BY <1>1, <1>2, <1>3, EfJobsAssumption DEF Put, Orphan, Types, CronT
<1>9. Known'
  BY DEF Put, Known
<1> QED
  BY <1>4, <1>5, <1>6, <1>7, <1>8, <1>9

\* JOB_UPSERT_SQL: a row is written over whole bytes, or over bytes that
\* another request is putting.
LEMMA UpsertKeeps ==
  ASSUME Inv, Types', NEW r \in Request, Upsert(r) PROVE Inv'
<1> USE DEF Inv
<1>1. Kept'
  <2>1. ~past.crossed => bytes = Chunk \/ \E q \in Request : left.rest = "d1" /\ req[q].at = "put"
    BY DEF Upsert, Whole, Rewriting, Types, LeftT
  <2>2. ASSUME NEW q \in Request, left.rest = "d1", req[q].at = "put" PROVE Rewriting'
    <3>1. req'[q].at = "put" /\ left' = left
      BY <2>2 DEF Upsert, Types
    <3> QED
      BY <2>2, <3>1 DEF Rewriting
  <2>3. row'.state \in Open /\ bytes' = bytes /\ (past'.crossed <=> past.crossed /\ bytes # Chunk)
    BY Zenon DEF Upsert, Open, Types, PastT
  <2>4. UNCHANGED Chunk
    BY DEF Chunk
  <2> QED
    BY <2>1, <2>2, <2>3, <2>4, Zenon DEF Kept
<1>2. Known'
  <2>1. past'.rows = past.rows + 1 /\ past'.owed /\ row'.of = past.rows + 1 /\ past.rows \in Nat
    BY DEF Upsert, Types, PastT
  <2>2. run' = run /\ cron' = cron
    BY DEF Upsert
  <2> QED
    BY <2>1, <2>2 DEF Known, Types, RunT, CronT
<1>3. Spans'
  BY DEF Upsert, Open, Spans, LastSpan, Types, ReqT, ReqAt
<1>4. Endings'
  <2>1. past'.rows = past.rows + 1 /\ past.rows \in Nat /\ run' = run /\ cron' = cron
    BY DEF Upsert, Types, PastT
  <2>2. cron.of # past'.rows /\ \A c \in Consumer : run[c].at # "idle" => run[c].of # past'.rows
    BY <2>1 DEF Known, Types, RunT, CronT
  <2> QED
    BY <2>1, <2>2 DEF Endings, Ending
<1>5. Whole'
  BY DEF Upsert, Open, Whole, Rewriting, Types, PastT, ReqT, ReqAt
<1>6. Orphan'
  BY EfJobsAssumption DEF Upsert, Orphan, Types, ReqT, CronT
<1> QED
  BY <1>1, <1>2, <1>3, <1>4, <1>5, <1>6

\* The message is sent after the row: nothing that is kept depends on it.
LEMMA SendJobKeeps ==
  ASSUME Inv, Types', NEW r \in Request, SendJob(r) PROVE Inv'
<1> USE DEF Inv
<1>1. Kept'
  BY DEF SendJob, IdleReq, Kept, Rewriting, Open, Types, ReqT, ReqAt
<1>2. Spans'
  BY DEF SendJob, IdleReq, Spans, LastSpan, Types, ReqT, ReqAt
<1>3. Endings'
  BY DEF SendJob, IdleReq, Endings, Ending, MayEnd, Rewriting, Types, ReqT, ReqAt
<1>4. Whole'
  BY DEF SendJob, IdleReq, Whole, Rewriting, Types, ReqT, ReqAt
<1>5. Orphan'
  BY DEF SendJob, IdleReq, Orphan, Types, ReqT, ReqAt
<1>6. Known'
  BY DEF SendJob, Known
<1> QED
  BY <1>1, <1>2, <1>3, <1>4, <1>5, <1>6

\* A request that ends over half its chunks is seen to end.
LEMMA RequestEndsKeeps ==
  ASSUME Inv, Types', NEW r \in Request, RequestEnds(r) PROVE Inv'
<1> USE DEF Inv
<1>0. left'.rest = left.rest
  BY SpendLeaves DEF RequestEnds
<1>1. Kept'
  BY <1>0 DEF RequestEnds, IdleReq, Kept, Rewriting, Open, Types, PastT, ReqT, ReqAt
<1>2. Known'
  BY <1>0 DEF RequestEnds, IdleReq, Known, Types, PastT
<1>3. Spans'
  BY <1>0 DEF RequestEnds, IdleReq, Spans, LastSpan, Types, ReqT, ReqAt
<1>4. Endings'
  BY <1>0 DEF RequestEnds, IdleReq, Endings, Ending, MayEnd, Rewriting, Types, PastT, ReqT, ReqAt
<1>5. Whole'
  BY <1>0 DEF RequestEnds, IdleReq, Whole, Rewriting, Types, PastT, ReqT, ReqAt
<1>6. Orphan'
  BY <1>0 DEF RequestEnds, IdleReq, Orphan, Types, ReqT, ReqAt
<1> QED
  BY <1>1, <1>2, <1>3, <1>4, <1>5, <1>6

\* A delivered message runs the newest presentation, or ends it with its
\* attempts spent.
LEMMA DeliverKeeps ==
  ASSUME Inv, Types', NEW c \in Consumer, Deliver(c) PROVE Inv'
<1> USE DEF Inv
<1> DEFINE a == IF row.attempts >= JOB_ATTEMPTS THEN "settle" ELSE "take"
           d == [IdleRun EXCEPT !.legs = row.legs, !.state = "failed", !.of = row.of, !.at = a]
<1>1. a \in {"settle", "take"} /\ d.at = a /\ d.state = "failed" /\ d.loaded = 0 /\ d.of = row.of
  BY DEF IdleRun
<1>2. \/ run' = run /\ past' = past
      \/ run' = [run EXCEPT ![c] = d] /\ (a = "settle" => past'.over) /\ row.state \in Open
  BY DEF Deliver, Types, PastT
<1> HIDE DEF a, d
<1>3. Kept'
  BY DEF Deliver, IdleRun, Open, Kept, Rewriting, Types, PastT
<1>4. Known'
  <2>1. past'.owed = past.owed /\ past'.rows = past.rows
    BY DEF Deliver, Types, PastT
  <2>2. run'[c] = run[c] \/ (row.state \in Open /\ run'[c].of = row.of)
    BY <1>1, <1>2 DEF Types
  <2>3. \A e \in Consumer \ {c} : run'[e] = run[e]
    BY DEF Deliver, Types
  <2> QED
    BY <2>1, <2>2, <2>3 DEF Deliver, Known, Open, Types, RowT
<1>5. Spans'
  <2>1. \/ run'[c] = run[c]
        \/ run'[c].at \in {"settle", "take"} /\ run'[c].state = "failed" /\ run'[c].loaded = 0
    BY <1>1, <1>2 DEF Types
  <2>2. \A e \in Consumer \ {c} : run'[e] = run[e]
    BY DEF Deliver, Types
  <2> QED
    BY <2>1, <2>2 DEF Deliver, Spans, LastSpan, Settled
<1>6. Endings'
  <2>1. MayEnd => MayEnd'
    BY DEF Deliver, MayEnd, Types, PastT
  <2>2. run'[c] = run[c] \/ run'[c].at = "take" \/ (run'[c].at = "settle" /\ run'[c].state = "failed" /\ past'.over)
    BY <1>1, <1>2 DEF Types
  <2>3. past'.rows = past.rows /\ Rewriting' = Rewriting /\ \A e \in Consumer \ {c} : run'[e] = run[e]
    BY DEF Deliver, Rewriting, Types, PastT
  <2>4. \A e \in Consumer : run'[e].of = past'.rows => Ending(e)'
    BY <2>1, <2>2, <2>3 DEF Endings, Ending, MayEnd
  <2> QED
    BY <2>1, <2>3, <2>4 DEF Deliver, Endings
<1>7. Whole'
  BY DEF Deliver, IdleRun, Open, Whole, Rewriting, Types, PastT
<1>8. Orphan'
  BY DEF Deliver, Orphan
<1> QED
  BY <1>3, <1>4, <1>5, <1>6, <1>7, <1>8

\* JOB_TAKE_SQL opens only a row that is there.
LEMMA TakeKeeps ==
  ASSUME Inv, Types', NEW c \in Consumer, Take(c) PROVE Inv'
<1> USE DEF Inv
<1>1. Kept'
  BY DEF Take, Update, Open, Kept, Rewriting, Types, RowT, RowState
<1>2. Known'
  BY DEF Take, Update, Open, Known, Types, RunT, RunAt, RowState, RowT, PastT
<1>3. Spans'
  BY EfJobsAssumption DEF Take, Spans, LastSpan, Settled, Types, RunT
<1>4. Endings'
  BY DEF Take, Update, Open, Endings, Ending, MayEnd, Rewriting, Types, RunT, RunAt, RowState
<1>5. Orphan'
  BY DEF Take, Update, Open, Orphan, Types, RowT, RowState
<1>6. Whole'
  BY DEF Take, Whole, Rewriting
<1> QED
  BY <1>1, <1>2, <1>3, <1>4, <1>5, <1>6

\* A run that finds bytes missing finds a job that may end, or one that is
\* being put again.
LEMMA LoadKeeps ==
  ASSUME Inv, Types', NEW c \in Consumer, Load(c) PROVE Inv'
<1> USE DEF Inv
<1>1. PICK n \in Nat \ {0} : n = run[c].loaded + 1 /\ n <= LastSpan
  BY EfJobsAssumption DEF Load, Spans, Types, RunT, LastSpan
<1>2. /\ run'[c].loaded = n /\ run'[c].state = run[c].state /\ run'[c].of = run[c].of
      /\ run'[c].at = IF Span(n) \subseteq bytes THEN IF n = LastSpan THEN "arm" ELSE "load" ELSE "settle"
      /\ \A d \in Consumer \ {c} : run'[d] = run[d]
  BY <1>1 DEF Load, Types, RunT
<1>3. Span(n) \subseteq Chunk
  BY <1>1, EfJobsAssumption DEF Span, LastSpan, Chunk
<1>4. Known'
  BY <1>1, <1>2, <1>3 DEF Load, Known
<1>5. Spans'
  <2>1. LastSpan' = LastSpan /\ LastSpan \in Nat
    BY EfJobsAssumption DEF Load, LastSpan
  <2>2. run'[c].at = "load" => run'[c].loaded < LastSpan
    BY <1>1, <1>2, <2>1
  <2>3. run'[c].at # "take" /\ run'[c].state = "failed"
    BY <1>2 DEF Load, Spans
  <2> QED
    BY <1>2, <2>1, <2>2, <2>3 DEF Load, Spans, Settled
<1>6. Endings'
  <2>1. run'[c].at = "settle" => MayEnd \/ Rewriting
    BY <1>1, <1>2, <1>3 DEF Load, Known, Kept, MayEnd
  <2>2. past' = past /\ MayEnd' = MayEnd /\ Rewriting' = Rewriting /\ cron' = cron
    BY DEF Load, MayEnd, Rewriting
  <2>3. run[c].state = "failed"
    BY DEF Load, Spans
  <2>4. \A d \in Consumer : run'[d].of = past'.rows => Ending(d)'
    BY <1>1, <1>2, <1>3, <2>1, <2>2, <2>3 DEF Endings, Ending
  <2> QED
    BY <2>2, <2>4 DEF Endings
<1>7. Kept' /\ Whole' /\ Orphan'
  BY DEF Load, Kept, Whole, Orphan, Rewriting, Open
<1> QED
  BY <1>4, <1>5, <1>6, <1>7

\* A verdict is what ends a job.
LEMMA ArmKeeps ==
  ASSUME Inv, Types', NEW c \in Consumer, Arm(c) PROVE Inv'
<1> USE DEF Inv
<1>1. Kept'
  BY DEF Arm, Kept, Rewriting, Open, Types, PastT
<1>2. Known'
  BY DEF Arm, Known, Types, RunT, RunAt, RowState, PastT
<1>3. Spans'
  BY DEF Arm, Spans, LastSpan, Types, RunT, RunAt, RowState
<1>4. Endings'
  BY DEF Arm, Endings, Ending, MayEnd, Rewriting, Types, RunT, RunAt, RowState, PastT
<1>5. Whole'
  BY DEF Arm, Whole, Rewriting, Types, PastT
<1>6. Orphan'
  BY DEF Arm, Orphan
<1> QED
  BY <1>1, <1>2, <1>3, <1>4, <1>5, <1>6

\* JOB_ADVANCE_SQL leaves the job open.
LEMMA AdvanceKeeps ==
  ASSUME Inv, Types', NEW c \in Consumer, Advance(c) PROVE Inv'
<1> USE DEF Inv
<1>1. Kept'
  BY DEF Advance, Update, Open, Kept, Rewriting, Types, RowT, RowState
<1>2. Known'
  BY DEF Advance, Update, Open, Known, Types, RunT, RunAt, RowState, RowT, PastT
<1>3. Spans'
  BY DEF Advance, Update, Open, Spans, LastSpan, Types, RunT, RunAt, RowState
<1>4. Endings'
  BY DEF Advance, Update, Open, Endings, Ending, MayEnd, Rewriting, Types, RunT, RunAt, RowState
<1>5. Orphan'
  BY DEF Advance, Update, Open, Orphan, Types, RowT, RowState
<1>6. Whole'
  BY DEF Advance, Whole, Rewriting
<1> QED
  BY <1>1, <1>2, <1>3, <1>4, <1>5, <1>6

\* A run whose next message is sent, or not, leaves the job as it is.
LEMMA SendNextKeeps ==
  ASSUME Inv, Types', NEW c \in Consumer, SendNext(c) PROVE Inv'
<1> USE DEF Inv
<1>1. Known'
  BY DEF SendNext, Ends, IdleRun, Known, Types, RunT, RunAt, RowState, PastT
<1>2. Spans'
  BY DEF SendNext, Ends, IdleRun, Spans, LastSpan, Types, RunT, RunAt, RowState
<1>3. Endings'
  BY DEF SendNext, Ends, IdleRun, Endings, Ending, MayEnd, Rewriting, Types, RunT, RunAt, RowState
<1>4. Kept' /\ Whole' /\ Orphan'
  BY DEF SendNext, Kept, Whole, Orphan, Rewriting, Open
<1> QED
  BY <1>1, <1>2, <1>3, <1>4

\* JOB_SETTLE_SQL ends the newest job only when it may end, or crosses a newer
\* presentation.
LEMMA SettleKeeps ==
  ASSUME Inv, Types', NEW c \in Consumer, Settle(c) PROVE Inv'
<1> USE DEF Inv
<1>1. Kept'
  <2>1. CASE run[c].state \in Settled
    <3>1. past'.crossed = (past.crossed \/ run[c].of # past.rows \/ Presented)
          /\ past'.over = past.over /\ past'.owed = past.owed
      BY <2>1 DEF Settle, Cross, Types, PastT
    <3>2. run[c].of = past.rows /\ ~Presented => MayEnd
      BY <2>1 DEF Settle, Settled, Endings, Ending, Rewriting, Presented
    <3> QED
      BY <3>1, <3>2 DEF Kept, MayEnd
  <2>2. CASE run[c].state = "queued"
    <3>1. past' = past /\ row'.state \in {row.state, "queued"} /\ (row.state = "none" => row' = row)
      BY <2>2 DEF Settle, Settled, Update
    <3>2. bytes' = bytes /\ Rewriting' = Rewriting
      BY DEF Settle, Rewriting
    <3> QED
      BY <3>1, <3>2 DEF Kept, Open
  <2> QED
    BY <2>1, <2>2 DEF Settle, Spans
<1>2. Known'
  BY DEF Settle, Update, Settled, Open, Cross, Presented, IdleRun, Known, Types, RunT, RunAt,
     RowState, PastT, RowT
<1>3. Spans'
  BY DEF Settle, Update, Settled, Open, Cross, Presented, IdleRun, Spans, LastSpan, Types, RunT,
     RunAt, RowState
<1>4. Endings'
  BY DEF Settle, Update, Settled, Open, Cross, Presented, IdleRun, Endings, Ending, MayEnd,
     Rewriting, Types, RunT, RunAt, RowState, PastT
<1>5. Whole'
  BY DEF Settle, Update, Settled, Open, Cross, Presented, IdleRun, Whole, Rewriting, Types, PastT
<1>6. Orphan'
  BY DEF Settle, Update, Settled, Open, Cross, Presented, IdleRun, Orphan, Types, RowT, RowState
<1> QED
  BY <1>1, <1>2, <1>3, <1>4, <1>5, <1>6

\* So does the release of the bytes.
LEMMA ReleaseKeeps ==
  ASSUME Inv, Types', NEW c \in Consumer, Release(c) PROVE Inv'
<1> USE DEF Inv
<1>1. Kept'
  <2>1. past'.crossed = (past.crossed \/ run[c].of # past.rows \/ Presented)
        /\ past'.over = past.over /\ past'.owed = past.owed
    BY DEF Release, Cross, Types, PastT
  <2>2. run[c].of = past.rows /\ ~Presented => MayEnd
    BY DEF Release, Endings, Ending, Rewriting, Presented
  <2> QED
    BY <2>1, <2>2 DEF Kept, MayEnd
<1>2. Known'
  BY DEF Release, Cross, Ends, IdleRun, Presented, Known, Types, RunT, RunAt, RowState, PastT
<1>3. Spans'
  BY DEF Release, Cross, Ends, IdleRun, Presented, Spans, LastSpan, Types, RunT, RunAt, RowState
<1>4. Endings'
  BY DEF Release, Cross, Ends, IdleRun, Presented, Endings, Ending, MayEnd, Rewriting, Types, RunT,
     RunAt, RowState, PastT
<1>5. Whole'
  BY DEF Release, Cross, Ends, IdleRun, Presented, Whole, Rewriting, Types, PastT
<1>6. Orphan'
  BY DEF Release, Orphan
<1> QED
  BY <1>1, <1>2, <1>3, <1>4, <1>5, <1>6

\* A row that does not read changes nothing.
LEMMA DeliverFaultsKeeps ==
  ASSUME Inv, Types', NEW c \in Consumer, DeliverFaults(c) PROVE Inv'
<1> USE DEF Inv
<1>0. left'.rest = left.rest
  BY SpendLeaves DEF DeliverFaults
<1>1. Kept' /\ Known' /\ Spans' /\ Endings' /\ Whole' /\ Orphan'
  BY <1>0 DEF DeliverFaults, Kept, Known, Spans, Endings, Whole, Orphan, Rewriting, Open, LastSpan,
     Ending, MayEnd
<1> QED
  BY <1>1

\* A read that faults is what ends a job.
LEMMA LoadFaultsKeeps ==
  ASSUME Inv, Types', NEW c \in Consumer, LoadFaults(c) PROVE Inv'
<1> USE DEF Inv
<1>0. left'.rest = left.rest
  BY SpendLeaves DEF LoadFaults
<1>1. Kept'
  BY <1>0 DEF LoadFaults, Kept, Rewriting, Open, Types, PastT
<1>2. Known'
  BY <1>0 DEF LoadFaults, Known, Types, RunT, RunAt, RowState, PastT
<1>3. Spans'
  BY <1>0 DEF LoadFaults, Spans, LastSpan, Settled, Types, RunT
<1>4. Endings'
  BY <1>0 DEF LoadFaults, Endings, Ending, MayEnd, Rewriting, Types, RunT, RunAt, RowState, PastT
<1>5. Whole'
  BY <1>0 DEF LoadFaults, Whole, Rewriting, Types, PastT
<1>6. Orphan'
  BY <1>0 DEF LoadFaults, Orphan
<1> QED
  BY <1>1, <1>2, <1>3, <1>4, <1>5, <1>6

\* A settle that faults is followed by the release all the same.
LEMMA RunFaultsKeeps ==
  ASSUME Inv, Types', NEW c \in Consumer, RunFaults(c) PROVE Inv'
<1> USE DEF Inv
<1>0. left'.rest = left.rest
  BY SpendLeaves DEF RunFaults
<1>1. Known'
  BY <1>0 DEF RunFaults, IdleRun, Settled, Known, Types, RunT, RunAt, RowState, PastT
<1>2. Spans'
  BY <1>0 DEF RunFaults, IdleRun, Settled, Spans, LastSpan, Types, RunT, RunAt, RowState
<1>3. Endings'
  <2>1. past' = past /\ MayEnd' = MayEnd /\ Rewriting' = Rewriting /\ cron' = cron
    BY <1>0 DEF RunFaults, MayEnd, Rewriting
  <2>2. \/ run'[c].at = "idle"
        \/ run'[c].at = "release" /\ run'[c].of = run[c].of /\ run[c].at = "settle" /\ run[c].state \in Settled
    BY DEF RunFaults, IdleRun, Types, RunT
  <2>3. \A d \in Consumer \ {c} : run'[d] = run[d]
    BY DEF RunFaults, Types
  <2>4. \A d \in Consumer : run'[d].of = past'.rows => Ending(d)'
    BY <2>1, <2>2, <2>3 DEF Endings, Ending, Settled
  <2> QED
    BY <2>1, <2>4 DEF Endings
<1>4. Kept' /\ Whole' /\ Orphan'
  BY <1>0 DEF RunFaults, Kept, Whole, Orphan, Rewriting, Open
<1> QED
  BY <1>1, <1>2, <1>3, <1>4

\* A run that dies leaves the job as it is.
LEMMA RunDiesKeeps ==
  ASSUME Inv, Types', NEW c \in Consumer, RunDies(c) PROVE Inv'
<1> USE DEF Inv
<1>0. left'.rest = left.rest
  BY SpendLeaves DEF RunDies
<1>1. Known'
  BY <1>0 DEF RunDies, Ends, IdleRun, Known, Types, RunT, RunAt, RowState, PastT
<1>2. Spans'
  BY <1>0 DEF RunDies, Ends, IdleRun, Spans, LastSpan, Types, RunT, RunAt, RowState
<1>3. Endings'
  BY <1>0 DEF RunDies, Ends, IdleRun, Endings, Ending, MayEnd, Rewriting, Types, RunT, RunAt,
     RowState
<1>4. Kept' /\ Whole' /\ Orphan'
  BY <1>0 DEF RunDies, Kept, Whole, Orphan, Rewriting, Open
<1> QED
  BY <1>1, <1>2, <1>3, <1>4

\* The cron's read of the quiet rows changes nothing.
LEMMA QuietKeeps ==
  ASSUME Inv, Types', Quiet PROVE Inv'
<1> USE DEF Inv
<1>0. left'.rest = left.rest
  BY SpendLeaves DEF Quiet
<1>1. Known'
  BY <1>0 DEF Quiet, Known, Types, CronT, CronAt, PastT
<1>2. Endings'
  BY <1>0 DEF Quiet, Endings, Ending, MayEnd, Rewriting, Types, CronT, CronAt
<1>3. Orphan'
  BY <1>0 DEF Quiet, Orphan, Types, CronT, CronAt
<1>4. Kept' /\ Spans' /\ Whole'
  BY <1>0 DEF Quiet, Kept, Spans, Whole, Rewriting, Open, LastSpan
<1> QED
  BY <1>1, <1>2, <1>3, <1>4

\* A message handed back changes nothing.
LEMMA HandBackKeeps ==
  ASSUME Inv, Types', HandBack PROVE Inv'
<1> USE DEF Inv
<1>0. left'.rest = left.rest
  BY SpendLeaves DEF HandBack
<1>1. Known'
  BY <1>0 DEF HandBack, Known, Types, CronT, CronAt, PastT
<1>2. Endings'
  BY <1>0 DEF HandBack, Endings, Ending, MayEnd, Rewriting, Types, CronT, CronAt
<1>3. Orphan'
  BY <1>0 DEF HandBack, Orphan, Types, CronT, CronAt
<1>4. Kept' /\ Spans' /\ Whole'
  BY <1>0 DEF HandBack, Kept, Spans, Whole, Rewriting, Open, LastSpan
<1> QED
  BY <1>1, <1>2, <1>3, <1>4

\* JOB_TOUCH_SQL leaves the row open, if there is one.
LEMMA TouchKeeps ==
  ASSUME Inv, Types', Touch PROVE Inv'
<1> USE DEF Inv
<1>0. left'.rest = left.rest
  BY SpendLeaves DEF Touch
<1>1. Kept'
  BY <1>0 DEF Touch, Update, Open, Kept, Rewriting, Types, RowT, RowState
<1>2. Known'
  BY <1>0 DEF Touch, Update, Open, Known, Types, CronT, CronAt, RowT, RowState, PastT
<1>3. Endings'
  BY <1>0 DEF Touch, Update, Open, Endings, Ending, MayEnd, Rewriting, Types, CronT, CronAt
<1>4. Orphan'
  BY <1>0 DEF Touch, Update, Open, Orphan, Types, CronT, CronAt, RowT, RowState
<1>5. Spans' /\ Whole'
  BY <1>0 DEF Touch, Spans, Whole, LastSpan, Rewriting
<1> QED
  BY <1>1, <1>2, <1>3, <1>4, <1>5

\* An expired row is one whose job has ended.
LEMMA ReadExpiredKeeps ==
  ASSUME Inv, Types', ReadExpired PROVE Inv'
<1> USE DEF Inv
<1>1. Known'
  BY DEF ReadExpired, Expired, Settled, Known, Types, CronT, PastT, RowT
<1>2. Endings'
  <2>1. Expired => MayEnd
    BY DEF Expired, Settled, Known, Kept, Open, MayEnd
  <2>2. past' = past /\ MayEnd' = MayEnd /\ Rewriting' = Rewriting /\ run' = run
    BY DEF ReadExpired, MayEnd, Rewriting
  <2>3. cron'.at = "delete" => Expired
    BY DEF ReadExpired, Types, CronT
  <2> QED
    BY <2>1, <2>2, <2>3 DEF ReadExpired, Endings, Ending, Types, CronT
<1>3. Orphan'
  BY DEF ReadExpired, Expired, Settled, Open, Orphan, Types, CronT, CronAt
<1>4. Kept' /\ Spans' /\ Whole'
  BY DEF ReadExpired, Kept, Spans, Whole, Rewriting, Open, LastSpan
<1> QED
  BY <1>1, <1>2, <1>3, <1>4

\* JOB_DELETE_SQL deletes only such a row.
LEMMA DeleteJobKeeps ==
  ASSUME Inv, Types', DeleteJob PROVE Inv'
<1> USE DEF Inv
<1>0. left'.rest = left.rest
  BY SpendLeaves DEF DeleteJob
<1>1. Kept'
  BY <1>0 DEF DeleteJob, Expired, Settled, Open, NoRow, Kept, Rewriting, Types, RowT, RowState
<1>2. Known'
  BY <1>0 DEF DeleteJob, Expired, Settled, Open, NoRow, Known, Types, CronT, CronAt, RowT, RowState,
     PastT
<1>3. Endings'
  BY <1>0 DEF DeleteJob, Expired, Settled, Open, NoRow, Endings, Ending, MayEnd, Rewriting, Types,
     CronT, CronAt
<1>4. Orphan'
  BY <1>0 DEF DeleteJob, Expired, Settled, Open, NoRow, Orphan, Types, CronT, CronAt, RowT, RowState
<1>5. Spans' /\ Whole'
  BY <1>0 DEF DeleteJob, Spans, Whole, LastSpan, Rewriting
<1> QED
  BY <1>1, <1>2, <1>3, <1>4, <1>5

\* The bytes released with it are its own, or crossed.
LEMMA ReleaseSweptKeeps ==
  ASSUME Inv, Types', ReleaseSwept PROVE Inv'
<1> USE DEF Inv
<1>0. left'.rest = left.rest
  BY SpendLeaves DEF ReleaseSwept
<1>1. Kept'
  <2>1. CASE bytes' = {} /\ Cross(cron.of)
    <3>1. past'.crossed = (past.crossed \/ cron.of # past.rows \/ Presented)
          /\ past'.over = past.over /\ past'.owed = past.owed
      BY <2>1 DEF Cross, Types, PastT
    <3>2. cron.of = past.rows => MayEnd
      BY DEF ReleaseSwept, Endings
    <3> QED
      BY <3>1, <3>2 DEF Kept, MayEnd
  <2>2. CASE UNCHANGED <<bytes, past>>
    BY <1>0, <2>2 DEF ReleaseSwept, Kept, Rewriting
  <2> QED
    BY <2>1, <2>2 DEF ReleaseSwept
<1>2. Known'
  BY <1>0 DEF ReleaseSwept, Cross, Presented, Known, Types, CronT, CronAt, PastT
<1>3. Spans'
  BY <1>0 DEF ReleaseSwept, Cross, Presented, Spans, LastSpan, Types
<1>4. Endings'
  BY <1>0 DEF ReleaseSwept, Cross, Presented, Endings, Ending, MayEnd, Rewriting, Types, CronT,
     CronAt, PastT
<1>5. Whole'
  BY <1>0 DEF ReleaseSwept, Cross, Presented, Whole, Rewriting, Types, PastT
<1>6. Orphan'
  BY <1>0 DEF ReleaseSwept, Cross, Presented, Orphan, Types, CronT, CronAt
<1> QED
  BY <1>1, <1>2, <1>3, <1>4, <1>5, <1>6

\* An object is looked at only past its keep.
LEMMA ListPageKeeps ==
  ASSUME Inv, Types', ListPage PROVE Inv'
<1> USE DEF Inv
<1>1. Known'
  BY DEF ListPage, IdleCron, Known, Types, CronT, CronAt, PastT
<1>2. Endings'
  BY DEF ListPage, IdleCron, Endings, Ending, MayEnd, Rewriting, Types, CronT, CronAt
<1>3. Orphan'
  BY DEF ListPage, IdleCron, Orphan, Types, CronT, CronAt
<1>4. Kept' /\ Spans' /\ Whole'
  BY DEF ListPage, Kept, Spans, Whole, Rewriting, Open, LastSpan
<1> QED
  BY <1>1, <1>2, <1>3, <1>4

\* It is an orphan only if no row names it.
LEMMA KeysWithRowsKeeps ==
  ASSUME Inv, Types', KeysWithRows PROVE Inv'
<1> USE DEF Inv
<1>1. Known'
  BY DEF KeysWithRows, IdleCron, Known, Types, CronT, CronAt, PastT
<1>2. Endings'
  BY DEF KeysWithRows, IdleCron, Endings, Ending, MayEnd, Rewriting, Types, CronT, CronAt
<1>3. Orphan'
  BY DEF KeysWithRows, IdleCron, Orphan, Types, CronT, CronAt
<1>4. Kept' /\ Spans' /\ Whole'
  BY DEF KeysWithRows, Kept, Spans, Whole, Rewriting, Open, LastSpan
<1> QED
  BY <1>1, <1>2, <1>3, <1>4

\* It is deleted only if its stamp is still the one listed.
LEMMA HeadKeeps ==
  ASSUME Inv, Types', Head PROVE Inv'
<1> USE DEF Inv
<1>1. Known'
  BY DEF Head, IdleCron, Known, Types, CronT, CronAt, PastT
<1>2. Endings'
  BY DEF Head, IdleCron, Endings, Ending, MayEnd, Rewriting, Types, CronT, CronAt
<1>3. Orphan'
  BY DEF Head, IdleCron, Orphan, Types, CronT, CronAt
<1>4. Kept' /\ Spans' /\ Whole'
  BY DEF Head, Kept, Spans, Whole, Rewriting, Open, LastSpan
<1> QED
  BY <1>1, <1>2, <1>3, <1>4

\* The delete takes bytes that no row names, or bytes put again since.
LEMMA DeleteObjectKeeps ==
  ASSUME Inv, Types', DeleteObject PROVE Inv'
<1> USE DEF Inv
<1>1. Kept'
  <2>1. left.rest = "r2" /\ ~Rewriting
    BY DEF DeleteObject, Orphan, Rewriting
  <2>2. Chunk # {}
    BY EfJobsAssumption DEF Chunk
  <2>3. past'.owed = past.owed /\ past'.over = past.over
        /\ past'.crossed = (past.crossed \/ (bytes # {} /\ touched # cron.age))
    BY DEF DeleteObject, Types, PastT
  <2> QED
    BY <2>1, <2>2, <2>3 DEF DeleteObject, Orphan, Kept, Open
<1>2. Known'
  BY DEF DeleteObject, IdleCron, Chunk, Known, Types, CronT, CronAt, PastT
<1>3. Spans'
  BY DEF DeleteObject, IdleCron, Chunk, Spans, LastSpan, Types
<1>4. Endings'
  BY DEF DeleteObject, IdleCron, Chunk, Endings, Ending, MayEnd, Rewriting, Types, CronT, CronAt,
     PastT
<1>5. Whole'
  <2>1. left.rest = "r2" /\ cron.age > JOB_KEEP
    BY DEF DeleteObject, Orphan
  <2>2. ASSUME NEW q \in Request, req[q].at = "upsert", ~past.crossed PROVE past'.crossed
    <3>1. bytes = Chunk /\ touched = 0
      BY <2>1, <2>2 DEF Whole, Orphan
    <3>2. bytes # {} /\ touched # cron.age
      BY <2>1, <3>1, EfJobsAssumption DEF Chunk, Types, CronT
    <3> QED
      BY <3>2 DEF DeleteObject, Types, PastT
  <2>3. past.crossed => past'.crossed
    BY DEF DeleteObject, Types, PastT
  <2> QED
    BY <2>1, <2>2, <2>3 DEF DeleteObject, Whole, Rewriting
<1>6. Orphan'
  BY DEF DeleteObject, IdleCron, Chunk, Orphan, Types, CronT, CronAt
<1> QED
  BY <1>1, <1>2, <1>3, <1>4, <1>5, <1>6

\* A tick that is cut leaves the job as it is.
LEMMA CronEndsKeeps ==
  ASSUME Inv, Types', CronEnds PROVE Inv'
<1> USE DEF Inv
<1>0. left'.rest = left.rest
  BY SpendLeaves DEF CronEnds
<1>1. Known'
  BY <1>0 DEF CronEnds, IdleCron, Known, Types, CronT, CronAt, PastT
<1>2. Endings'
  BY <1>0 DEF CronEnds, IdleCron, Endings, Ending, MayEnd, Rewriting, Types, CronT, CronAt
<1>3. Orphan'
  BY <1>0 DEF CronEnds, IdleCron, Orphan, Types, CronT, CronAt
<1>4. Kept' /\ Spans' /\ Whole'
  BY <1>0 DEF CronEnds, Kept, Spans, Whole, Rewriting, Open, LastSpan
<1> QED
  BY <1>1, <1>2, <1>3, <1>4

\* Time passes only while nobody is putting or ending anything.
LEMMA TickKeeps ==
  ASSUME Inv, Types', Tick PROVE Inv'
<1> USE DEF Inv
<1>1. Kept'
  BY DEF Tick, Older, Open, Kept, Rewriting, Types, RowT, RowState
<1>2. Known'
  BY DEF Tick, Older, Open, Known, Types, RunT, RunAt, RowState, RowT, PastT
<1>3. Spans'
  BY DEF Tick, Older, Open, Spans, LastSpan, Types, RunT, RunAt, RowState
<1>4. Endings'
  BY DEF Tick, Older, Open, Endings, Ending, MayEnd, Rewriting, Types, RunT, RunAt, RowState
<1>5. Orphan'
  BY DEF Tick, Older, Open, Orphan, Types, RowT, RowState
<1>6. Whole'
  BY DEF Tick, Whole, Rewriting
<1> QED
  BY <1>1, <1>2, <1>3, <1>4, <1>5, <1>6

-----------------------------------------------------------------------------
\* Every step keeps the invariant.
LEMMA InvStep == Inv /\ [Next]_vars => Inv'
<1> SUFFICES ASSUME Inv, [Next]_vars PROVE Inv'
  OBVIOUS
<1>1. Types'
  BY TypesStep DEF Inv
<1>2. ASSUME NEW r \in Request,
             Present(r) \/ DeleteChunks(r) \/ Put(r) \/ Upsert(r) \/ SendJob(r) \/ RequestEnds(r)
      PROVE  Inv'
  BY <1>1, <1>2, PresentKeeps, DeleteChunksKeeps, PutKeeps, UpsertKeeps, SendJobKeeps,
     RequestEndsKeeps
<1>3. ASSUME NEW c \in Consumer,
             Deliver(c) \/ Take(c) \/ Load(c) \/ Arm(c) \/ Advance(c) \/ SendNext(c) \/ Settle(c) \/
             Release(c) \/ DeliverFaults(c) \/ LoadFaults(c) \/ RunFaults(c) \/
             RunDies(c)
      PROVE  Inv'
  BY <1>1, <1>3, DeliverKeeps, TakeKeeps, LoadKeeps, ArmKeeps, AdvanceKeeps, SendNextKeeps,
     SettleKeeps, ReleaseKeeps, DeliverFaultsKeeps, LoadFaultsKeeps, RunFaultsKeeps, RunDiesKeeps
<1>4. CASE Quiet \/ HandBack \/ Touch \/ ReadExpired \/ DeleteJob \/ ReleaseSwept \/ ListPage \/
             KeysWithRows \/ Head \/ DeleteObject \/ CronEnds \/ Tick
  BY <1>1, <1>4, QuietKeeps, HandBackKeeps, TouchKeeps, ReadExpiredKeeps, DeleteJobKeeps,
     ReleaseSweptKeeps, ListPageKeeps, KeysWithRowsKeeps, HeadKeeps, DeleteObjectKeeps,
     CronEndsKeeps, TickKeeps
<1>5. CASE UNCHANGED vars
  BY <1>5 DEF vars, Inv, Types, Kept, Known, Spans, LastSpan, Endings, Ending, MayEnd, Whole, Orphan, Rewriting
<1> QED
  BY <1>2, <1>3, <1>4, <1>5 DEF Next, RequestStep, RunStep, CronStep

\* The invariant holds throughout.
LEMMA InvHolds == Spec => []Inv
BY InitInv, InvStep, PTL DEF Spec

\* For any number of requests, runs, faults and limits: a submission answered 202
\* keeps its open row, and its bytes whole or being put again, until a verdict, its
\* last attempt or a fault of a read ends it, or what was still under way for an
\* earlier presentation does (run_job, redrive and the pass over the objects).
THEOREM CustodyHolds == Spec => []Custody
<1>1. Inv => Custody
  BY DEF Inv, Kept, Custody, Rewriting, Presented
<1> QED
  BY <1>1, InvHolds, PTL

\* Only these statements write the row.
LEMMA RowSteps ==
  ASSUME [Next]_vars
  PROVE  \/ row' = row \/ DeleteJob \/ Tick \/ Touch
         \/ \E r \in Request : Upsert(r)
         \/ \E c \in Consumer : Advance(c) \/ Take(c) \/ Settle(c)
BY DEF Next, RequestStep, RunStep, CronStep, vars, Present, DeleteChunks, Put, SendJob,
   RequestEnds, Deliver, Load, Arm, SendNext, Release, DeliverFaults, LoadFaults, RunFaults,
   RunDies, Quiet, HandBack, ReadExpired, ReleaseSwept, ListPage, KeysWithRows, Head,
   DeleteObject, CronEnds

\* The cursor of a job's corroboration goes back only when the job is presented
\* again or its row swept, however its runs overlap (JOB_ADVANCE_SQL).
THEOREM LegsForwardHolds == Spec => LegsForward
<1> DEFINE Back == row'.legs < row.legs => row'.state = "none" \/ \E r \in Request : req[r].at = "upsert"
<1>1. ASSUME Types, [Next]_vars PROVE Back
  <2>1. CASE row' = row
    BY <1>1, <2>1 DEF Types, RowT
  <2>2. ASSUME NEW state, NEW attempts, NEW l \in Nat, l >= row.legs, Update(state, attempts, l) PROVE Back
    BY <1>1, <2>2 DEF Types, RowT, Update
  <2>3. ASSUME NEW r \in Request, Upsert(r) PROVE Back
    BY <2>3 DEF Upsert
  <2>4. CASE DeleteJob
    BY <1>1, <2>4 DEF DeleteJob, NoRow, Types, RowT
  <2>5. CASE Tick
    BY <1>1, <2>5 DEF Tick, Types, RowT
  <2>6. ASSUME NEW c \in Consumer, Advance(c) PROVE Back
    BY <1>1, <2>1, <2>2, <2>6 DEF Advance, Types, RunT, RowT
  <2>7. ASSUME NEW c \in Consumer, Take(c) \/ Settle(c) PROVE Back
    BY <1>1, <2>2, <2>7 DEF Take, Settle, Types, RowT
  <2>8. CASE Touch
    BY <1>1, <2>1, <2>2, <2>8 DEF Touch, Types, RowT
  <2> QED
    BY <1>1, <2>1, <2>3, <2>4, <2>5, <2>6, <2>7, <2>8, RowSteps
<1>2. Inv => Types
  BY DEF Inv
<1> QED
  BY <1>1, <1>2, InvHolds, PTL DEF Spec, LegsForward

-----------------------------------------------------------------------------
(* The bounds. *)

\* The runs that are about to take the job.
Taking == {c \in Consumer : run[c].at = "take"}

\* Every leg that is written somewhere is one of the corroboration's.
Bounds ==
  /\ row.legs <= left.legs
  /\ \A r \in Request : req[r].legs <= left.legs
  /\ \A c \in Consumer : run[c].reached <= left.legs
  /\ row.age <= JOB_KEEP + 1
  /\ queue \in 0..MAX_MESSAGES

\* A run that is about to take the job has its attempt accounted for: it read one
\* below the last, and the others that did so are still there.
Attempts ==
  /\ Taking \subseteq left.consumers
  /\ row.attempts + Cardinality(Taking) <= JOB_ATTEMPTS + Cardinality(left.consumers) - 1

\* Only a bound is spent of the instance.
LEMMA LeftSteps ==
  ASSUME Types, [Next]_vars
  PROVE  left'.legs = left.legs /\ left'.consumers = left.consumers
<1>1. \/ left' = left
      \/ \E field \in {"presents", "faults", "ends"} : Spend(field)
  BY DEF Next, RequestStep, RunStep, CronStep, vars, Present, DeleteChunks, Put, Upsert, SendJob,
     RequestEnds, Deliver, Take, Load, Arm, Advance, SendNext, Settle, Release, DeliverFaults,
     LoadFaults, RunFaults, RunDies, Quiet, HandBack, Touch, ReadExpired, DeleteJob, ReleaseSwept,
     ListPage, KeysWithRows, Head, DeleteObject, CronEnds, Tick
<1> QED
  BY <1>1 DEF Types, Spend, LeftT

\* Every step keeps the bounds.
LEMMA BoundsStep ==
  ASSUME Types, Types', Bounds, [Next]_vars
  PROVE  Bounds'
<1>1. left'.legs = left.legs /\ left.legs \in Nat
  BY LeftSteps DEF Types, LeftT
<1>2. queue' \in 0..MAX_MESSAGES
  <2>1. \/ queue' = queue \/ Send
        \/ queue > 0 /\ queue' = queue - 1
    BY DEF Next, RequestStep, RunStep, CronStep, vars, Present, DeleteChunks, Put, Upsert, SendJob,
       RequestEnds, Deliver, Take, Load, Arm, Advance, SendNext, Settle, Release, DeliverFaults,
       LoadFaults, RunFaults, RunDies, Quiet, HandBack, Touch, ReadExpired, DeleteJob, ReleaseSwept,
       ListPage, KeysWithRows, Head, DeleteObject, CronEnds, Tick
  <2> QED
    BY <2>1, EfJobsAssumption DEF Bounds, Send
<1>3. ASSUME NEW q \in Request PROVE req'[q].legs <= left.legs
  <2>1. ASSUME NEW r \in Request, Present(r) PROVE req'[q].legs <= left.legs
    <3>1. ASSUME NEW l \in 0..left.legs, NEW a \in ReqAt,
                 req' = [req EXCEPT ![r] = [IdleReq EXCEPT !.at = a, !.legs = l]]
          PROVE  req'[q].legs <= left.legs
      BY <1>1, <3>1 DEF Types, Bounds, IdleReq
    <3>2. CASE req' = req
      BY <3>2 DEF Bounds
    <3> QED
      BY <2>1, <3>1, <3>2 DEF Present, ReqAt
  <2>2. ASSUME NEW r \in Request, SendJob(r) \/ RequestEnds(r) PROVE req'[q].legs <= left.legs
    BY <1>1, <2>2 DEF SendJob, RequestEnds, IdleReq, Types, Bounds
  <2>3. ASSUME NEW r \in Request, DeleteChunks(r) \/ Put(r) \/ Upsert(r) PROVE req'[q].legs <= left.legs
    <3>1. req'[q].legs = req[q].legs
      <4>1. CASE DeleteChunks(r)
        BY <4>1, Zenon DEF DeleteChunks, Types, ReqT
      <4>2. CASE Put(r)
        BY <4>2, Zenon DEF Put, Types, ReqT
      <4>3. CASE Upsert(r)
        BY <4>3, Zenon DEF Upsert, Types, ReqT
      <4> QED
        BY <2>3, <4>1, <4>2, <4>3, Zenon
    <3> QED
      BY <3>1, Zenon DEF Bounds
  <2>4. \/ req' = req
        \/ \E r \in Request : \/ Present(r) \/ SendJob(r) \/ RequestEnds(r)
                              \/ DeleteChunks(r) \/ Put(r) \/ Upsert(r)
    BY DEF Next, RequestStep, RunStep, CronStep, vars,
       Deliver, Take, Load, Arm, Advance, SendNext, Settle, Release, DeliverFaults,
       LoadFaults, RunFaults, RunDies, Quiet, HandBack, Touch, ReadExpired, DeleteJob, ReleaseSwept,
       ListPage, KeysWithRows, Head, DeleteObject, CronEnds, Tick
  <2> QED
    BY <2>1, <2>2, <2>3, <2>4 DEF Bounds
<1>4. ASSUME NEW d \in Consumer PROVE run'[d].reached <= left.legs
  <2>1. ASSUME NEW c \in Consumer, Deliver(c) PROVE run'[d].reached <= left.legs
    <3> DEFINE a == IF row.attempts >= JOB_ATTEMPTS THEN "settle" ELSE "take"
               x == [IdleRun EXCEPT !.legs = row.legs, !.state = "failed", !.of = row.of, !.at = a]
    <3>1. x.reached = 0
      BY DEF IdleRun
    <3>2. run' = run \/ run' = [run EXCEPT ![c] = x]
      BY <2>1 DEF Deliver
    <3> HIDE DEF x
    <3> QED
      BY <1>1, <3>1, <3>2 DEF Types, Bounds
  <2>2. ASSUME NEW c \in Consumer, SendNext(c) \/ Release(c) \/ RunDies(c) \/ Settle(c) \/ RunFaults(c)
        PROVE  run'[d].reached <= left.legs
    BY <1>1, <2>2 DEF SendNext, Release, RunDies, Settle, RunFaults, Ends, IdleRun, Types, RunT, Bounds
  <2>3. ASSUME NEW c \in Consumer, Take(c) \/ Advance(c) \/ LoadFaults(c)
        PROVE  run'[d].reached <= left.legs
    BY <2>3 DEF Take, Advance, LoadFaults, Types, RunT, Bounds
  <2>4. ASSUME NEW c \in Consumer, Arm(c) PROVE run'[d].reached <= left.legs
    BY <1>1, <2>4 DEF Arm, Types, RunT, Bounds
  <2>5. CASE Tick
    BY <2>5 DEF Tick, Types, RunT, Bounds
  <2>6. ASSUME NEW c \in Consumer, Load(c) PROVE run'[d].reached <= left.legs
    <3>1. run'[d].reached = run[d].reached
      BY <2>6 DEF Load, Types, RunT
    <3> QED
      BY <3>1 DEF Bounds
  <2>7. \/ run' = run \/ Tick
        \/ \E c \in Consumer : \/ Deliver(c) \/ SendNext(c) \/ Release(c) \/ RunDies(c) \/ Settle(c)
                               \/ RunFaults(c) \/ Take(c) \/ Load(c) \/ Advance(c) \/ LoadFaults(c)
                               \/ Arm(c)
    BY DEF Next, RequestStep, RunStep, CronStep, vars, Present, DeleteChunks, Put, Upsert, SendJob,
       RequestEnds, DeliverFaults, Quiet, HandBack, Touch, ReadExpired, DeleteJob, ReleaseSwept,
       ListPage, KeysWithRows, Head, DeleteObject, CronEnds
  <2> QED
    BY <2>1, <2>2, <2>3, <2>4, <2>5, <2>6, <2>7 DEF Bounds
<1>5. row'.legs <= left.legs /\ row'.age <= JOB_KEEP + 1
  <2>1. ASSUME NEW state, NEW attempts, NEW l \in Nat, l <= left.legs, Update(state, attempts, l)
        PROVE  row'.legs <= left.legs /\ row'.age <= JOB_KEEP + 1
    BY <2>1, EfJobsAssumption DEF Update, Bounds
  <2>2. CASE Tick
    BY <2>2, EfJobsAssumption DEF Tick, Older, Types, RowT, Bounds
  <2>3. CASE DeleteJob
    BY <1>1, <2>3, EfJobsAssumption DEF DeleteJob, NoRow, Bounds
  <2>4. ASSUME NEW r \in Request, Upsert(r) PROVE row'.legs <= left.legs /\ row'.age <= JOB_KEEP + 1
    BY <2>4, EfJobsAssumption DEF Upsert, Bounds
  <2>5. ASSUME NEW c \in Consumer, Advance(c) \/ Take(c) \/ Settle(c)
        PROVE  row'.legs <= left.legs /\ row'.age <= JOB_KEEP + 1
    BY <2>1, <2>5 DEF Advance, Take, Settle, Types, RowT, RunT, Bounds
  <2>6. CASE Touch
    BY <2>1, <2>6 DEF Touch, Types, RowT, Bounds
  <2> QED
    BY <2>2, <2>3, <2>4, <2>5, <2>6, RowSteps DEF Bounds
<1> QED
  BY <1>1, <1>2, <1>3, <1>4, <1>5 DEF Bounds

\* The runs of an instance are finitely many, and so are those about to take the job.
LEMMA TakingFinite ==
  ASSUME Types, NEW S \in SUBSET left.consumers
  PROVE  /\ IsFiniteSet(S) /\ Cardinality(S) \in Nat
         /\ Cardinality(left.consumers) \in Nat /\ Cardinality(S) <= Cardinality(left.consumers)
<1>1. IsFiniteSet(left.consumers)
  BY EfJobsAssumption, FS_Subset DEF Types, LeftT
<1> QED
  BY <1>1, FS_Subset, FS_CardinalityType

\* A step after which no more runs are about to take the job, and no more attempts
\* are spent, keeps the account.
LEMMA AttemptsKept ==
  ASSUME Types, Types', Attempts, Taking' \subseteq Taking, row'.attempts <= row.attempts,
         left'.consumers = left.consumers
  PROVE  Attempts'
<1>1. IsFiniteSet(Taking) /\ Cardinality(Taking) \in Nat /\ Cardinality(left.consumers) \in Nat
  BY TakingFinite DEF Attempts
<1>2. Cardinality(Taking') <= Cardinality(Taking) /\ Cardinality(Taking') \in Nat
  BY <1>1, FS_Subset, FS_CardinalityType
<1> QED
  BY <1>1, <1>2, EfJobsAssumption DEF Attempts, Types, RowT

\* Every step keeps the account of the attempts.
LEMMA AttemptsStep ==
  ASSUME Types, Types', Attempts, [Next]_vars
  PROVE  Attempts'
<1>1. left'.consumers = left.consumers
  BY LeftSteps
<1>2. Cardinality(left.consumers) \in Nat /\ Cardinality(Taking) \in Nat /\ IsFiniteSet(Taking)
  BY TakingFinite DEF Attempts
<1>3. ASSUME NEW c \in Consumer, Deliver(c) PROVE Attempts'
  <2> DEFINE a == IF row.attempts >= JOB_ATTEMPTS THEN "settle" ELSE "take"
             x == [IdleRun EXCEPT !.legs = row.legs, !.state = "failed", !.of = row.of, !.at = a]
  <2>1. x.at = a /\ row' = row
    BY <1>3 DEF IdleRun, Deliver
  <2>2. run' = run \/ run' = [run EXCEPT ![c] = x]
    BY <1>3 DEF Deliver
  <2> HIDE DEF x
  <2>3. Taking' \subseteq Taking \/ (Taking' \subseteq Taking \cup {c} /\ row.attempts < JOB_ATTEMPTS)
    BY <2>1, <2>2, EfJobsAssumption DEF Taking, Types, RowT
  <2>4. Taking' \subseteq left'.consumers
    BY <1>1, <1>3, <2>3 DEF Deliver, Attempts
  <2>5. Cardinality(Taking') <= Cardinality(left.consumers) /\ Cardinality(Taking') \in Nat
    BY <1>1, <2>4, TakingFinite
  <2>6. CASE Taking' \subseteq Taking
    BY <1>1, <2>1, <2>6, AttemptsKept DEF Types, RowT
  <2>7. CASE row.attempts < JOB_ATTEMPTS
    BY <1>1, <1>2, <2>1, <2>4, <2>5, <2>7, EfJobsAssumption DEF Attempts, Types, RowT
  <2> QED
    BY <2>3, <2>6, <2>7
<1>4. ASSUME NEW c \in Consumer, Take(c) PROVE Attempts'
  <2>1. Taking' = Taking \ {c} /\ c \in Taking
    BY <1>4 DEF Take, Taking, Types, RunT
  <2>2. Cardinality(Taking') = Cardinality(Taking) - 1
    BY <1>2, <2>1, FS_RemoveElement
  <2>3. row'.attempts <= row.attempts + 1
    BY <1>4 DEF Take, Update, Types, RowT
  <2> QED
    BY <1>1, <1>2, <2>1, <2>2, <2>3, EfJobsAssumption DEF Attempts, Types, RowT
<1>5. ASSUME \A c \in Consumer : ~Deliver(c) /\ ~Take(c) PROVE Attempts'
  <2>1. Taking' \subseteq Taking
    <3>1. ASSUME NEW c \in Consumer,
                 \/ SendNext(c) \/ Release(c) \/ RunDies(c) \/ Settle(c) \/ RunFaults(c)
                 \/ Advance(c) \/ LoadFaults(c) \/ Arm(c)
          PROVE  Taking' \subseteq Taking
      BY <3>1 DEF SendNext, Release, RunDies, Settle, RunFaults, Advance, LoadFaults, Arm, Ends,
         IdleRun, Types, RunT, Taking
    <3>2. ASSUME NEW c \in Consumer, Load(c) PROVE Taking' \subseteq Taking
      <4>1. run'[c].at # "take"
        BY <3>2 DEF Load, Types, RunT
      <4>2. \A d \in Consumer \ {c} : run'[d] = run[d]
        BY <3>2 DEF Load, Types
      <4> QED
        BY <4>1, <4>2 DEF Taking
    <3>3. CASE Tick
      BY <3>3 DEF Tick, Types, RunT, Taking
    <3>4. \/ run' = run \/ Tick
          \/ \E c \in Consumer : \/ SendNext(c) \/ Release(c) \/ RunDies(c) \/ Settle(c) \/ RunFaults(c)
                                 \/ Load(c) \/ Advance(c) \/ LoadFaults(c) \/ Arm(c)
      BY <1>5 DEF Next, RequestStep, RunStep, CronStep, vars, Present, DeleteChunks, Put, Upsert,
         SendJob, RequestEnds, DeliverFaults, Quiet, HandBack, Touch, ReadExpired, DeleteJob,
         ReleaseSwept, ListPage, KeysWithRows, Head, DeleteObject, CronEnds
    <3> QED
      BY <3>1, <3>2, <3>3, <3>4 DEF Taking
  <2>2. row'.attempts <= row.attempts
    BY <1>5, RowSteps DEF DeleteJob, NoRow, Tick, Touch, Upsert, Advance, Settle, Update, Types, RowT
  <2> QED
    BY <1>1, <2>1, <2>2, AttemptsKept
<1> QED
  BY <1>3, <1>4, <1>5

\* For any number of consumers: the attempts of a job exceed JOB_ATTEMPTS by at most
\* one for each further run there may be at once, the cursor stays within the
\* corroboration's legs, and the queue and the ages within their bounds.
THEOREM TypeOKHolds == Spec => []TypeOK
<1> DEFINE IInv == Inv /\ Bounds /\ Attempts
<1>1. Init => IInv
  <2> SUFFICES ASSUME Init PROVE Bounds /\ Attempts
    BY InitInv
  <2>1. Types
    BY InitInv DEF Inv
  <2>2. Bounds
    BY <2>1, EfJobsAssumption, SMTT(30) DEF Init, Bounds, NoRow, IdleReq, IdleRun, Types, LeftT
  <2>3. Taking = {}
    BY DEF Init, Taking, IdleRun
  <2>4. Cardinality(left.consumers) \in Nat /\ Cardinality(Taking) = 0
    BY <2>1, <2>3, TakingFinite, FS_EmptySet
  <2>5. Attempts
    BY <2>3, <2>4, EfJobsAssumption DEF Init, NoRow, Attempts
  <2> QED
    BY <2>2, <2>5
<1>2. IInv /\ [Next]_vars => IInv'
  BY InvStep, BoundsStep, AttemptsStep DEF Inv
<1>3. IInv => TypeOK
  <2> SUFFICES ASSUME IInv PROVE TypeOK
    OBVIOUS
  <2>1. Cardinality(left.consumers) \in Nat /\ Cardinality(Taking) \in Nat
    BY TakingFinite DEF Inv, Attempts
  <2>2. row.attempts \in 0..JOB_ATTEMPTS + Cardinality(left.consumers) - 1
    BY <2>1, EfJobsAssumption DEF Inv, Attempts, Types, RowT
  <2>3. row.legs \in 0..left.legs /\ row.age \in 0..JOB_KEEP + 1
    BY EfJobsAssumption DEF Inv, Bounds, Types, RowT, LeftT
  <2> QED
    BY <2>2, <2>3 DEF Inv, Bounds, Spans, Types, RowT, RunT, RowState, RunAt, Open, Settled, TypeOK
<1> QED
  BY <1>1, <1>2, <1>3, PTL DEF Spec
=============================================================================
