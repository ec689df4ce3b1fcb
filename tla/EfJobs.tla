------------------------------- MODULE EfJobs -------------------------------
(* The deferred jobs of the broadcast-gated arm (ef_deferred.rs), and the pass
   over their objects (beef_blob_sweep.rs): a submission past its request's budget
   has its bytes put at rest and a row that names them, and is answered 202; the
   queue's consumers run the row, the cron hands a quiet one back and sweeps a
   settled one.

   One reference: jobs share nothing but the limits of the cron's two lists.  A
   row carries its age since updated_at instead of the stamp; time passes while
   runs are in the arm and everybody else is between two calls of theirs (a unit
   is minutes, every other call takes seconds).  The messages of a job are alike:
   the queue is their number.  The arm itself (routes.rs) is its answer. *)
EXTENDS Integers, FiniteSets

CONSTANTS
  Request, Consumer,   \* the submissions and the runs there may be at once
  CHUNKS,              \* the rows of ef_deferred_chunks the bytes take
  JOB_ATTEMPTS, JOB_RESUME_AFTER, JOB_KEEP,
  WALL,                \* the platform's end of a consumer's invocation
  MAX_MESSAGES,
  Instances            \* where the bytes rest, the corroboration's legs, the runs at
                       \* once and the bounds of a behaviour

ASSUME EfJobsAssumption ==
  /\ IsFiniteSet(Consumer)
  /\ {CHUNKS, JOB_ATTEMPTS, JOB_RESUME_AFTER, WALL, MAX_MESSAGES} \subseteq Nat \ {0}
  /\ JOB_KEEP \in Nat /\ JOB_RESUME_AFTER < JOB_KEEP
  /\ Instances \subseteq [rest : {"r2", "d1"}, legs : Nat, consumers : SUBSET Consumer,
                           presents : Nat, faults : Nat, ends : Nat]

VARIABLES
  left,     \* the instance, and what is left of its bounds
  row,      \* ef_deferred_jobs
  bytes,    \* what is at rest: the chunks, or all of them (the R2 object)
  touched,  \* the object's age, by its stamp
  queue,    \* the messages that name the job
  req,      \* per request: what it is doing
  run,      \* per consumer: its run, and the row it read
  cron,     \* the tick's redrive, then its ef_sweep_pass
  past      \* the presentations, and what became of the newest

vars == <<left, row, bytes, touched, queue, req, run, cron, past>>

Spend(field) == /\ left[field] > 0
                /\ left' = [left EXCEPT ![field] = @ - 1]

\* of: the presentation that the row, the run or the pass is of.
NoRow == [state |-> "none", attempts |-> 0, legs |-> 0, age |-> 0, of |-> 0]
IdleReq == [at |-> "idle", legs |-> 0, put |-> 0]
IdleRun == [at |-> "idle", legs |-> 0, reached |-> 0, loaded |-> 0, state |-> "none",
            age |-> 0, of |-> 0]
IdleCron == [at |-> "idle", of |-> 0, age |-> 0]

Chunk == 1..CHUNKS
Open == {"queued", "running"}
Settled == {"done", "failed"}

Init ==
  /\ left \in Instances
  /\ row = NoRow
  /\ bytes = {}
  /\ touched = 0
  /\ queue = 0
  /\ req = [r \in Request |-> IdleReq]
  /\ run = [c \in Consumer |-> IdleRun]
  /\ cron = IdleCron
  /\ past = [rows |-> 0, owed |-> FALSE, over |-> FALSE, crossed |-> FALSE]

Send == queue' = IF queue < MAX_MESSAGES THEN queue + 1 ELSE queue

\* A submission is being presented: its bytes are put, its row is not.
Presented == \E r \in Request : req[r].at \in {"delete", "put", "upsert"}

\* A step for one presentation ends what is, or is becoming, a newer one's.
Cross(of) == past' = [past EXCEPT !.crossed = @ \/ of # past.rows \/ Presented]

\* An UPDATE of the row, which matches nothing once the row is gone.
Update(state, attempts, legs) ==
  row' = IF row.state = "none" THEN row
         ELSE [state |-> state, attempts |-> attempts, legs |-> legs, age |-> 0, of |-> row.of]

-----------------------------------------------------------------------------
(* The request: put_at_rest. *)

\* job_open: somebody is still working on the job.
JobOpen == row.state \in Open /\ row.age < JOB_RESUME_AFTER

\* A submission is presented, with the legs its request has primed.  One whose job
\* is open is answered 202 with its reference, and nothing is written.
Present(r) ==
  /\ req[r].at = "idle"
  /\ Spend("presents")
  /\ IF JobOpen
       THEN past' = [past EXCEPT !.owed = TRUE] /\ UNCHANGED req
       ELSE /\ \E l \in 0..left.legs : req' = [req EXCEPT ![r] =
                 [IdleReq EXCEPT !.at = IF left.rest = "r2" THEN "put" ELSE "delete", !.legs = l]]
            /\ UNCHANGED past
  /\ UNCHANGED <<row, bytes, touched, queue, run, cron>>

\* CHUNKS_DELETE_SQL
DeleteChunks(r) ==
  /\ req[r].at = "delete"
  /\ bytes' = {}
  /\ req' = [req EXCEPT ![r].at = "put"]
  /\ UNCHANGED <<left, row, touched, queue, run, cron, past>>

\* What the n-th call of a put or a load covers: the object, or the n-th chunk.
Span(n) == IF left.rest = "r2" THEN Chunk ELSE {n}
LastSpan == IF left.rest = "r2" THEN 1 ELSE CHUNKS

\* The object, in one put with a new stamp; or the next chunk.
Put(r) ==
  /\ req[r].at = "put"
  /\ LET n == req[r].put + 1
     IN /\ bytes' = bytes \cup Span(n)
        /\ req' = [req EXCEPT ![r] = [@ EXCEPT !.put = n,
                                            !.at = IF n = LastSpan THEN "upsert" ELSE "put"]]
  /\ touched' = 0
  /\ UNCHANGED <<left, row, queue, run, cron, past>>

\* JOB_UPSERT_SQL: the job is queued afresh.  One with its bytes whole owes nothing to
\* what crossed the ones before it.
Upsert(r) ==
  /\ req[r].at = "upsert"
  /\ row' = [state |-> "queued", attempts |-> 0, legs |-> req[r].legs, age |-> 0, of |-> past.rows + 1]
  /\ past' = [past EXCEPT !.rows = @ + 1, !.owed = TRUE, !.over = FALSE,
                        !.crossed = @ /\ bytes # Chunk]
  /\ req' = [req EXCEPT ![r].at = "send"]
  /\ UNCHANGED <<left, bytes, touched, queue, run, cron>>

\* Its message; one that is not sent is left to the cron.
SendJob(r) ==
  /\ req[r].at = "send"
  /\ Send \/ UNCHANGED queue
  /\ req' = [req EXCEPT ![r] = IdleReq]
  /\ UNCHANGED <<left, row, bytes, touched, run, cron, past>>

\* A call of the request faults, or the request is dropped: 503, or no answer.  A call
\* that lands after its request was dropped is the request ending after that call, for
\* nothing asks whether it is still there.  In D1 the chunks of the job that stood are
\* gone, and some of its own.
RequestEnds(r) ==
  /\ req[r].at # "idle"
  /\ Spend("ends")
  /\ req' = [req EXCEPT ![r] = IdleReq]
  /\ past' = [past EXCEPT !.crossed = @ \/ (left.rest = "d1" /\ req[r].at \in {"put", "upsert"})]
  /\ UNCHANGED <<row, bytes, touched, queue, run, cron>>

-----------------------------------------------------------------------------
(* The consumer: run_job. *)

\* The run is over and its message acknowledged.
Ends(c) == run' = [run EXCEPT ![c] = IdleRun]

\* Mutant: the attempts are not looked at.
DeliverUncapped(c) ==
  /\ run[c].at = "idle" /\ queue > 0 /\ c \in left.consumers
  /\ queue' = queue - 1
  /\ run' = IF row.state \notin Open \/ (row.state = "running" /\ row.age < JOB_RESUME_AFTER)
              THEN run
              ELSE [run EXCEPT ![c] = [IdleRun EXCEPT !.legs = row.legs, !.state = "failed",
                                                      !.of = row.of, !.at = "take"]]
  /\ UNCHANGED <<left, row, bytes, touched, req, cron, past>>

\* A message is delivered and the row read: nothing to run, a live run of another
\* consumer, the attempts spent, or a run.
Deliver(c) ==
  /\ run[c].at = "idle" /\ queue > 0 /\ c \in left.consumers
  /\ queue' = queue - 1
  /\ IF row.state \notin Open \/ (row.state = "running" /\ row.age < JOB_RESUME_AFTER)
       THEN UNCHANGED <<run, past>>
       ELSE LET spent == row.attempts >= JOB_ATTEMPTS
            IN /\ run' = [run EXCEPT ![c] =
                    [IdleRun EXCEPT !.legs = row.legs, !.state = "failed", !.of = row.of,
                                    !.at = IF spent THEN "settle" ELSE "take"]]
               /\ past' = [past EXCEPT !.over = @ \/ spent]
  /\ UNCHANGED <<left, row, bytes, touched, req, cron>>

\* The row does not read: the message is acknowledged all the same.
DeliverFaults(c) ==
  /\ run[c].at = "idle" /\ queue > 0
  /\ Spend("faults")
  /\ queue' = queue - 1
  /\ UNCHANGED <<row, bytes, touched, req, run, cron, past>>

\* JOB_TAKE_SQL
Take(c) ==
  /\ run[c].at = "take"
  /\ Update("running", row.attempts + 1, row.legs)
  /\ run' = [run EXCEPT ![c].at = "load"]
  /\ UNCHANGED <<left, bytes, touched, queue, req, cron, past>>

\* load: the object, or the next chunk.  Bytes that are gone fail the job.
Load(c) ==
  /\ run[c].at = "load"
  /\ LET n == run[c].loaded + 1
     IN run' = [run EXCEPT ![c] = [@ EXCEPT !.loaded = n,
                  !.at = IF Span(n) \subseteq bytes THEN IF n = LastSpan THEN "arm" ELSE "load"
                         ELSE "settle"]]
  /\ UNCHANGED <<left, row, bytes, touched, queue, req, cron, past>>

\* A read of the bytes faults: the job fails as one whose bytes are gone.
LoadFaults(c) ==
  /\ run[c].at = "load"
  /\ Spend("faults")
  /\ run' = [run EXCEPT ![c].at = "settle"]
  /\ past' = [past EXCEPT !.over = TRUE]
  /\ UNCHANGED <<row, bytes, touched, queue, req, cron>>

\* submit_resumed answers: a verdict, a fault to try again, or a walk that paused
\* at a leg (one that did not advance is a fault).
Arm(c) ==
  /\ run[c].at = "arm"
  /\ \/ /\ run' = [run EXCEPT ![c].at = "settle", ![c].state = "done"]
        /\ past' = [past EXCEPT !.over = TRUE]
     \/ /\ run' = [run EXCEPT ![c].at = "settle", ![c].state = "queued"]
        /\ UNCHANGED past
     \/ /\ \E l \in 0..left.legs : /\ l > run[c].legs
                                  /\ run' = [run EXCEPT ![c].at = "advance", ![c].reached = l]
        /\ UNCHANGED past
  /\ UNCHANGED <<left, row, bytes, touched, queue, req, cron>>

\* Mutant: the cursor is written whatever the row's is.
AdvanceAny(c) ==
  /\ run[c].at = "advance"
  /\ Update("queued", 0, run[c].reached)
  /\ run' = [run EXCEPT ![c].at = "send"]
  /\ UNCHANGED <<left, bytes, touched, queue, req, cron, past>>

\* JOB_ADVANCE_SQL: forward only.
Advance(c) ==
  /\ run[c].at = "advance"
  /\ IF row.legs < run[c].reached
       THEN Update("queued", 0, run[c].reached)
       ELSE UNCHANGED row
  /\ run' = [run EXCEPT ![c].at = "send"]
  /\ UNCHANGED <<left, bytes, touched, queue, req, cron, past>>

SendNext(c) ==
  /\ run[c].at = "send"
  /\ Send \/ UNCHANGED queue
  /\ Ends(c)
  /\ UNCHANGED <<left, row, bytes, touched, req, cron, past>>

\* JOB_SETTLE_SQL, then the bytes of a settled job are released.
Settle(c) ==
  /\ run[c].at = "settle"
  /\ Update(run[c].state, row.attempts, row.legs)
  /\ IF run[c].state \in Settled THEN Cross(run[c].of) ELSE UNCHANGED past
  /\ run' = [run EXCEPT ![c] = IF run[c].state \in Settled THEN [@ EXCEPT !.at = "release"]
                               ELSE IdleRun]
  /\ UNCHANGED <<left, bytes, touched, queue, req, cron>>

Release(c) ==
  /\ run[c].at = "release"
  /\ bytes' = {}
  /\ Cross(run[c].of)
  /\ Ends(c)
  /\ UNCHANGED <<left, row, touched, queue, req, cron>>

\* A statement of the run faults and is logged: a take or an advance ends the run,
\* a settle or a release is gone past.
RunFaults(c) ==
  /\ run[c].at \in {"take", "advance", "settle", "release"}
  /\ Spend("faults")
  /\ run' = [run EXCEPT ![c] = IF @.at = "settle" /\ @.state \in Settled
                                 THEN [@ EXCEPT !.at = "release"] ELSE IdleRun]
  /\ UNCHANGED <<row, bytes, touched, queue, req, cron, past>>

\* The run never returns: its isolate is killed, or the platform ends it at its
\* wall.  The message is delivered again, or has been too often.
RunDies(c) ==
  /\ run[c].at # "idle"
  /\ IF run[c].age >= WALL THEN UNCHANGED left ELSE Spend("ends")
  /\ Send \/ UNCHANGED queue
  /\ Ends(c)
  /\ UNCHANGED <<row, bytes, touched, req, cron, past>>

-----------------------------------------------------------------------------
(* The cron: redrive. *)

\* Mutant: a running row is left to its run.
QuietQueued ==
  /\ cron.at = "idle"
  /\ cron' = [cron EXCEPT !.at = IF row.state = "queued" /\ row.age > JOB_RESUME_AFTER
                                  THEN "send" ELSE "expired"]
  /\ UNCHANGED <<left, row, bytes, touched, queue, req, run, past>>

\* JOBS_QUIET_SQL
Quiet ==
  /\ cron.at = "idle"
  /\ \/ /\ cron' = [cron EXCEPT !.at = IF row.state \in Open /\ row.age > JOB_RESUME_AFTER
                                        THEN "send" ELSE "expired"]
        /\ UNCHANGED left
     \/ cron' = [cron EXCEPT !.at = "expired"] /\ Spend("faults")
  /\ UNCHANGED <<row, bytes, touched, queue, req, run, past>>

HandBack ==
  /\ cron.at = "send"
  /\ \/ Send /\ cron' = [cron EXCEPT !.at = "touch"] /\ UNCHANGED left
     \/ UNCHANGED queue /\ cron' = [cron EXCEPT !.at = "expired"] /\ Spend("faults")
  /\ UNCHANGED <<row, bytes, touched, req, run, past>>

\* JOB_TOUCH_SQL, whatever the row has become.
Touch ==
  /\ cron.at = "touch"
  /\ \/ Update("queued", row.attempts, row.legs) /\ UNCHANGED left
     \/ UNCHANGED row /\ Spend("faults")
  /\ cron' = [cron EXCEPT !.at = "expired"]
  /\ UNCHANGED <<bytes, touched, queue, req, run, past>>

Expired == row.state \in Settled /\ row.age > JOB_KEEP

\* JOBS_EXPIRED_SQL
ReadExpired ==
  /\ cron.at = "expired"
  /\ cron' = IF Expired THEN [cron EXCEPT !.at = "delete", !.of = row.of]
             ELSE [cron EXCEPT !.at = "list"]
  /\ UNCHANGED <<left, row, bytes, touched, queue, req, run, past>>

\* Mutant: the row read before is deleted whatever it has become.
DeleteJobRead ==
  /\ cron.at = "delete"
  /\ row' = NoRow
  /\ cron' = [cron EXCEPT !.at = "release"]
  /\ UNCHANGED <<left, bytes, touched, queue, req, run, past>>

\* JOB_DELETE_SQL: only a row still settled and past its keep; a delete that landed
\* may still answer with a fault.
DeleteJob ==
  /\ cron.at = "delete"
  /\ row' = IF Expired THEN NoRow ELSE row
  /\ \/ cron' = [cron EXCEPT !.at = IF Expired THEN "release" ELSE "list"] /\ UNCHANGED left
     \/ cron' = [cron EXCEPT !.at = "list"] /\ Spend("faults")
  /\ UNCHANGED <<bytes, touched, queue, req, run, past>>

ReleaseSwept ==
  /\ cron.at = "release"
  /\ \/ bytes' = {} /\ Cross(cron.of) /\ UNCHANGED left
     \/ UNCHANGED <<bytes, past>> /\ Spend("faults")
  /\ cron' = [cron EXCEPT !.at = "list"]
  /\ UNCHANGED <<row, touched, queue, req, run>>

-----------------------------------------------------------------------------
(* The pass over the objects: ef_sweep_pass. *)

\* The object is listed: one past its keep is looked at.
ListPage ==
  /\ cron.at = "list"
  /\ cron' = IF left.rest = "r2" /\ bytes # {} /\ touched > JOB_KEEP
               THEN [cron EXCEPT !.at = "rows", !.age = touched] ELSE IdleCron
  /\ UNCHANGED <<left, row, bytes, touched, queue, req, run, past>>

\* Mutant: only the object of a settled job is an orphan.
KeysWithRowsSettled ==
  /\ cron.at = "rows"
  /\ cron' = IF row.state \in Settled THEN [cron EXCEPT !.at = "head"] ELSE IdleCron
  /\ UNCHANGED <<left, row, bytes, touched, queue, req, run, past>>

\* keys_with_rows: one that a row names is left.
KeysWithRows ==
  /\ cron.at = "rows"
  /\ cron' = IF row.state = "none" THEN [cron EXCEPT !.at = "head"] ELSE IdleCron
  /\ UNCHANGED <<left, row, bytes, touched, queue, req, run, past>>

\* still_orphan: one put again since is left.
Head ==
  /\ cron.at = "head"
  /\ cron' = IF bytes # {} /\ touched = cron.age THEN [cron EXCEPT !.at = "object"] ELSE IdleCron
  /\ UNCHANGED <<left, row, bytes, touched, queue, req, run, past>>

\* The delete: bytes put again since the head are lost with it.
DeleteObject ==
  /\ cron.at = "object"
  /\ bytes' = {}
  /\ past' = [past EXCEPT !.crossed = @ \/ (bytes # {} /\ touched # cron.age)]
  /\ cron' = IdleCron
  /\ UNCHANGED <<left, row, touched, queue, req, run>>

\* A call of the pass over the objects faults, or the tick is cut: the next tick
\* begins anew.
CronEnds ==
  /\ cron.at # "idle"
  /\ Spend("ends")
  /\ cron' = IdleCron
  /\ UNCHANGED <<row, bytes, touched, queue, req, run, past>>

-----------------------------------------------------------------------------
Older(a) == IF a > JOB_KEEP THEN a ELSE a + 1

\* A unit of time: minutes, all of it in the arm or between two passes.
Tick ==
  /\ \A r \in Request : req[r].at = "idle"
  /\ \A c \in Consumer : run[c].at = "idle" \/ (run[c].at = "arm" /\ run[c].age < WALL)
  /\ cron.at = "idle"
  /\ row' = IF row.state = "none" THEN row ELSE [row EXCEPT !.age = Older(@)]
  /\ touched' = IF bytes = {} THEN 0 ELSE Older(touched)
  /\ run' = [c \in Consumer |-> IF run[c].at = "arm" THEN [run[c] EXCEPT !.age = @ + 1] ELSE run[c]]
  /\ UNCHANGED <<left, bytes, queue, req, cron, past>>

RequestStep(r) == DeleteChunks(r) \/ Put(r) \/ Upsert(r) \/ SendJob(r)

RunStep(c) ==
  \/ Deliver(c) \/ Take(c) \/ Load(c) \/ Arm(c) \/ Advance(c) \/ SendNext(c)
  \/ Settle(c) \/ Release(c)

CronStep ==
  \/ Quiet \/ HandBack \/ Touch \/ ReadExpired \/ DeleteJob \/ ReleaseSwept
  \/ ListPage \/ KeysWithRows \/ Head \/ DeleteObject


Next ==
  \/ \E r \in Request : Present(r) \/ RequestStep(r) \/ RequestEnds(r)
  \/ \E c \in Consumer : RunStep(c) \/ DeliverFaults(c) \/ LoadFaults(c) \/ RunFaults(c) \/ RunDies(c)
  \/ CronStep \/ CronEnds
  \/ Tick

Spec == Init /\ [][Next]_vars

\* The queue delivers, a run goes on or dies at its wall, the cron runs, time passes.
FairSpec ==
  /\ Spec
  /\ \A r \in Request : WF_vars(RequestStep(r))
  /\ \A c \in Consumer : WF_vars(RunStep(c) \/ RunDies(c))
  /\ WF_vars(CronStep) /\ SF_vars(Tick)

-----------------------------------------------------------------------------
\* The types, and the attempts: overlapping runs take one each past the last.
TypeOK ==
  /\ row.state \in {"none"} \cup Open \cup Settled /\ row.legs \in 0..left.legs
  /\ row.attempts \in 0..JOB_ATTEMPTS + Cardinality(left.consumers) - 1
  /\ row.age \in 0..JOB_KEEP + 1
  /\ bytes \subseteq Chunk /\ queue \in 0..MAX_MESSAGES
  /\ \A c \in Consumer : run[c].at \in {"idle", "take", "load", "arm", "advance", "send",
                                        "settle", "release"}

\* A submission answered 202 keeps its open row, and its bytes whole or being put
\* again, until a run has its verdict, its attempts are spent or a read of its bytes
\* faulted.  Excepted, until its bytes are next presented whole, is one presented again
\* whose job or bytes were then ended by what was still under way for the earlier
\* presentation, and in D1 one whose own re-presentation was cut while it put its bytes.
Custody ==
  past.owed /\ ~past.over /\ ~past.crossed =>
    /\ row.state \in Open
    /\ bytes = Chunk \/ Presented

\* The walk's cursor goes back only when the job is presented again or its row swept.
LegsForward ==
  [][row'.legs < row.legs => row'.state = "none" \/ \E r \in Request : req[r].at = "upsert"]_vars

\* An open job is settled in the end.
Settles == row.state \in Open ~> row.state \in Settled

\* An object that no row names is deleted in the end.
Swept == left.rest = "r2" /\ bytes # {} /\ row.state = "none" ~> bytes = {} \/ row.state # "none"
=============================================================================
