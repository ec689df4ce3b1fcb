---------------------------- MODULE EngineSubmit ----------------------------
(***************************************************************************)
(* One topic of the overlay engine's submit (overlay-engine, engine.rs):   *)
(* the validation reads, the manager's judgement, the successor rule and   *)
(* the storage mutation (Phase 3), with one action per storage call or     *)
(* lookup hook, because every one of them can fault on its own.  Engines   *)
(* run concurrently over one store and each remembers what it saw fault    *)
(* (not_landed) until its invocation ends.                                 *)
(***************************************************************************)
EXTENDS Naturals, FiniteSets, Sequences

CONSTANTS
  Tx,          \* transactions presented to the topic
  Outpoint,    \* the outputs of those transactions
  TxOf,        \* the transaction of an outpoint
  Spends,      \* the outpoints a transaction's inputs spend
  Admit,       \* the manager's outputs_to_admit, given the coins found
  Retain,      \* the manager's coins_to_retain among a transaction's inputs
  Names,       \* the inputs the manager names as overlay history
  Carries,     \* the other transactions whose bodies a submitted BEEF carries
  LandsFirst,  \* carried bodies the landing guard and the values rule let land
  Expired,     \* outputs past their sync_expiry, dropped at a GASP finalize
  Engine,      \* engine instances, one per Worker invocation
  FaultKinds,  \* who may fault: the store, a lookup hook, the topic manager
  LateKinds,   \* kinds of statement that may land after they were told faulted
  Troubles     \* bounds: <<calls that fault, invocations that die>> together

OutsOf(t) == {o \in Outpoint : TxOf[o] = t}

ASSUME SubmitAssumption ==
  /\ TxOf \in [Outpoint -> Tx]
  /\ Spends \in [Tx -> SUBSET Outpoint]
  /\ Retain \in [Tx -> SUBSET Outpoint]
  /\ Names \in [Tx -> SUBSET Outpoint]
  /\ Carries \in [Tx -> SUBSET Tx]
  /\ Admit \in [Tx -> [SUBSET Outpoint -> SUBSET Outpoint]]
  /\ \A t \in Tx, S \in SUBSET Outpoint : Admit[t][S] \subseteq OutsOf(t)
  /\ LandsFirst \subseteq Tx
  /\ Expired \subseteq Outpoint
  /\ Troubles \subseteq Nat \X Nat

VARIABLES
  store,      \* the D1 tables of the topic: outputs and applied_transactions
  late,       \* statements told faulted that may still land
  told,       \* what every lookup service has been told
  notLanded,  \* Engine::not_landed of each engine
  run,        \* the submit each engine is in
  faults,     \* calls that faulted so far
  crashes     \* invocations that died in a submit so far

vars == <<store, late, told, notLanded, run, faults, crashes>>

-----------------------------------------------------------------------------
(***************************************************************************)
(* The store.  A row is an outpoint in held; spent marks it; consumes and  *)
(* consumedBy are its outputsConsumed and consumedBy columns.  Two fields  *)
(* are history and stand for no column: gone, each coin deleted as stale   *)
(* with the outputs its spender had admitted when the delete was sent, and *)
(* pruned, the transactions a GASP finalize submitted without an input     *)
(* their manager had named.                                                *)
(***************************************************************************)
EmptyStore ==
  [held |-> {}, spent |-> {}, applied |-> {}, gone |-> {}, pruned |-> {},
   consumes |-> [o \in Outpoint |-> {}], consumedBy |-> [o \in Outpoint |-> {}]]

Gone == {g[1] : g \in store.gone}

InsertRow(s, o, S) ==                    \* INSERT OR IGNORE
  IF o \in s.held THEN s
  ELSE [s EXCEPT !.held = @ \cup {o}, !.consumes[o] = S, !.consumedBy[o] = {}]

DeleteRow(s, o) == [s EXCEPT !.held = @ \ {o}, !.spent = @ \ {o}, !.consumedBy[o] = {}]

\* What a statement does to the store when it lands.
Apply(s, w) ==
  IF w[1] = "insert" THEN InsertRow(s, w[2], w[3])
  ELSE IF w[1] = "mark" THEN [s EXCEPT !.spent = @ \cup ({w[2]} \cap s.held)]
  ELSE IF w[1] = "applied" THEN [s EXCEPT !.applied = @ \cup {w[2]}]
  ELSE IF w[1] = "delete" THEN [DeleteRow(s, w[2]) EXCEPT !.gone = @ \cup {<<w[2], w[3]>>}]
  ELSE IF w[1] \in {"undo", "prune"} THEN DeleteRow(s, w[2])
  ELSE IF w[2] \in s.held THEN [s EXCEPT !.consumedBy[w[2]] = w[3]]   \* "link"
  ELSE s

-----------------------------------------------------------------------------
(***************************************************************************)
(* Calls.  An answer is "ok", an error ("err"), nothing before the         *)
(* deadline of a GASP finalize's CallBound ("silent"), or, once that       *)
(* deadline is due, a call that was never started ("refused").             *)
(***************************************************************************)
Faulted(a) == a \in {"err", "silent"}

Within(f, c) == \E b \in Troubles : f <= b[1] /\ c <= b[2]

Call(e, who, a) ==
  /\ a \in {"ok", "err", "silent", "refused"}
  /\ (a = "refused") = run[e].due
  /\ a = "silent" => run[e].fin
  /\ Faulted(a) => who \in FaultKinds /\ Within(faults + 1, crashes)
  /\ faults' = IF Faulted(a) THEN faults + 1 ELSE faults
  /\ UNCHANGED crashes

\* A storage write: it lands when it answers ok; one that faulted may have
\* landed, may land later, or never.
Stored(e, a, w) ==
  /\ Call(e, "store", a)
  /\ \/ a = "ok" /\ store' = Apply(store, w) /\ UNCHANGED late
     \/ Faulted(a) /\ store' = Apply(store, w) /\ UNCHANGED late
     \/ a # "ok" /\ UNCHANGED store
        /\ late' = IF Faulted(a) /\ w[1] \in LateKinds THEN late \cup {w} ELSE late

Read(e, a)    == Call(e, "store", a) /\ UNCHANGED <<store, late>>
Hooked(e, a)  == Call(e, "hook", a) /\ UNCHANGED <<store, late>>
Manager(e, a) == Call(e, "manager", a) /\ UNCHANGED <<store, late>>

-----------------------------------------------------------------------------
(***************************************************************************)
(* The record of one submit.  parents are the suspended submits a carried  *)
(* predecessor is landed for, the last of them the subject's own.          *)
(***************************************************************************)
Idle == [pc |-> "idle"]

Frame == [tx : Tx, coins : SUBSET Outpoint, adm : SUBSET Outpoint]

Fresh(t, fin, parents) ==
  [pc |-> "dedup", tx |-> t, coins |-> {}, adm |-> {}, fin |-> fin, due |-> FALSE,
   parents |-> parents, todo |-> {}, cur |-> {}, from |-> {}, snap |-> {},
   deep |-> {}, under |-> {}, flags |-> {}]

Step(e, r) == run' = [run EXCEPT ![e] = r]

\* The record once a call answered a: a silent one makes the deadline due.
After(e, a) == [run[e] EXCEPT !.due = @ \/ a = "silent"]

Flag(a, S) == IF a = "ok" THEN {} ELSE S

Stale(r) == r.coins \ Retain[r.tx]
Kept(r)  == r.coins \cap Retain[r.tx]

\* The end of a submit: the whole one, or a carried predecessor's.  One that
\* landed gives way to the submit it was landed for, judged anew; one that
\* did not leaves the subject to wait.
Finish(e, landed) ==
  LET r == run[e] IN
  \/ /\ r.parents = <<>>
     /\ Step(e, Idle)
  \/ /\ r.parents # <<>> /\ landed
     /\ Step(e, Fresh(Head(r.parents).tx, FALSE, Tail(r.parents)))
  \/ /\ r.parents # <<>> /\ ~landed
     /\ LET f == r.parents[Len(r.parents)] IN
        Step(e, [Fresh(f.tx, FALSE, <<>>) EXCEPT
                   !.pc = "own", !.coins = f.coins, !.adm = f.adm])

\* Mutant: the outpoints are remembered in place of the txid.
HoldOutpoints(e) ==
  /\ notLanded' = [notLanded EXCEPT ![e] = @ \cup OutsOf(run[e].tx)]
  /\ Finish(e, FALSE)

\* hold_unapplied, then the topic is done: nothing is recorded.
Hold(e) ==
  /\ notLanded' = [notLanded EXCEPT ![e] = @ \cup {run[e].tx}]
  /\ Finish(e, FALSE)

\* A topic that does not wait: Phase 3 starts with the spent marks.  A carried
\* predecessor was judged in a dry run so far and is first judged for real.
Proceed(e, r) ==
  Step(e, [r EXCEPT !.pc = IF r.parents = <<>> THEN "mark" ELSE "rejudge",
                    !.todo = r.coins, !.under = {}, !.snap = {}])

-----------------------------------------------------------------------------
(* submit_bounded: a door's submit, or the submit of a GASP finalize.  A    *)
(* finalized graph goes ancestors first and stops at the first that did not *)
(* land, but an input its manager named is no part of it when the peer did  *)
(* not know the node or naming the inputs failed.                           *)
Submit(e, t, fin) ==
  /\ run[e] = Idle
  /\ Step(e, Fresh(t, fin, <<>>))
  /\ store' = IF fin /\ \E o \in Spends[t] \cap Names[t] : TxOf[o] \notin store.applied
              THEN [store EXCEPT !.pruned = @ \cup {t}] ELSE store
  /\ UNCHANGED <<late, told, notLanded, faults, crashes>>

\* Mutant: the applied row is not looked at.
ReadAppliedBlind(e, a) ==
  /\ run[e].pc = "dedup"
  /\ Read(e, a)
  /\ Step(e, [run[e] EXCEPT !.pc = "coins", !.todo = Spends[run[e].tx]])
  /\ UNCHANGED <<told, notLanded>>

(* validate_topic: the dedup read. *)
ReadApplied(e, a) ==
  /\ run[e].pc = "dedup"
  /\ Read(e, a)
  /\ UNCHANGED told
  /\ \/ /\ a = "ok" /\ run[e].tx \in store.applied
        /\ Finish(e, TRUE) /\ UNCHANGED notLanded
     \/ /\ a = "ok" /\ run[e].tx \notin store.applied
        /\ Step(e, [run[e] EXCEPT !.pc = "coins", !.todo = Spends[run[e].tx]])
        /\ UNCHANGED notLanded
     \/ a # "ok" /\ Hold(e)

(* validate_topic: the read of one input's previous coin. *)
ReadCoin(e, a, o) ==
  /\ run[e].pc = "coins" /\ o \in run[e].todo
  /\ Read(e, a)
  /\ Step(e, [After(e, a) EXCEPT
                !.todo = @ \ {o},
                !.coins = IF a = "ok" THEN @ \cup ({o} \cap store.held) ELSE @,
                !.flags = @ \cup Flag(a, {"read"})])
  /\ UNCHANGED <<told, notLanded>>

\* Mutant: the judgement stands whether a coin could be read or not.
JudgeUnread(e, a) ==
  LET r == run[e] IN
  /\ r.pc = "coins" /\ r.todo = {}
  /\ Manager(e, a)
  /\ \/ a # "ok" /\ Finish(e, FALSE)
     \/ a = "ok" /\ Step(e, [r EXCEPT !.pc = "ask", !.adm = Admit[r.tx][r.coins]])
  /\ UNCHANGED <<told, notLanded>>

(* judge: a manager that fails, fails the topic with no fault and no hold.  *)
(* A read that faulted leaves nothing written.                              *)
Judge(e, a) ==
  LET r == run[e]
      adm == Admit[r.tx][r.coins] \ (IF r.fin THEN Expired ELSE {})
  IN
  /\ r.pc = "coins" /\ r.todo = {}
  /\ Manager(e, a)
  /\ UNCHANGED told
  /\ \/ a # "ok" /\ Finish(e, FALSE) /\ UNCHANGED notLanded
     \/ a = "ok" /\ "read" \in r.flags /\ Hold(e)
     \/ /\ a = "ok" /\ "read" \notin r.flags
        /\ Step(e, [r EXCEPT !.pc = "ask", !.adm = adm])
        /\ UNCHANGED notLanded

-----------------------------------------------------------------------------
(***************************************************************************)
(* The successor rule: a topic that did not find all its coins is asked    *)
(* whether a predecessor has yet to land.  A submit that admits something  *)
(* or found a coin is asked only of the inputs its manager names.          *)
(***************************************************************************)
Starts(r, named) ==
  {o \in Spends[r.tx] : (r.adm # {} \/ r.coins # {}) => o \in named}

\* Mutant: a topic that found a coin is never asked.
IsAskedCoinless(r, named) == Spends[r.tx] # {} /\ r.coins = {}

IsAsked(r, named) ==
  /\ Spends[r.tx] # {}
  /\ \/ r.coins = {}
     \/ ~r.fin /\ r.coins # Spends[r.tx] /\ Starts(r, named) \ r.coins # {}

\* The manager is asked for its names once: before anything else by a submit
\* that admits or found a coin, else by the question, which a finalize skips.
IsNamed(r) ==
  /\ Spends[r.tx] # {} /\ (r.coins = {} \/ (~r.fin /\ r.coins # Spends[r.tx]))
  /\ r.adm # {} \/ r.coins # {} \/ ~r.fin

Remembered(e, named) ==
  \E o \in Starts(run[e], named) : TxOf[o] \in notLanded[e]

(* successors_waiting, up to the store's question.  A manager that cannot   *)
(* name its history names nothing.                                          *)
Ask(e, a) ==
  LET named == IF a = "ok" THEN Names[run[e].tx] ELSE {} IN
  /\ run[e].pc = "ask"
  /\ \/ IsNamed(run[e]) /\ Manager(e, a)
     \/ ~IsNamed(run[e]) /\ a = "ok" /\ UNCHANGED <<store, late, faults, crashes>>
  /\ UNCHANGED told
  /\ \/ /\ ~IsAsked(run[e], named)
        /\ Proceed(e, After(e, a)) /\ UNCHANGED notLanded
     \/ /\ IsAsked(run[e], named) /\ Remembered(e, named)
        /\ \/ run[e].fin /\ Hold(e)
           \/ /\ ~run[e].fin
              /\ Step(e, [run[e] EXCEPT !.pc = "own"]) /\ UNCHANGED notLanded
     \/ /\ IsAsked(run[e], named) /\ ~Remembered(e, named)
        /\ \/ run[e].fin /\ Proceed(e, After(e, a))
           \/ ~run[e].fin /\ Step(e, [run[e] EXCEPT !.pc = "question", !.snap = named])
        /\ UNCHANGED notLanded

HasLanded(c) == c \in store.applied \/ OutsOf(c) \cap store.held # {}

\* A carried body that has not landed and spends no coin the topic holds: the
\* walk goes on to what it spends.
WalksThrough(t, c) ==
  c \in Carries[t] /\ ~HasLanded(c) /\ Spends[c] \cap store.held = {}

\* The outpoints the walk reaches from the start, each body's inputs in turn.
Walked(t, S) ==
  LET W[n \in Nat] ==
        IF n = 0 THEN S
        ELSE W[n - 1] \cup UNION {Spends[TxOf[o]] : o \in {p \in W[n - 1] : WalksThrough(t, TxOf[p])}}
  IN W[Cardinality(Tx)]

\* A direct input the manager names and the BEEF does not carry.
AbsentPredecessors(r, S, named) ==
  {c \in Tx : /\ c \notin Carries[r.tx] /\ r.coins = {} /\ ~HasLanded(c)
              /\ S \cap named \cap OutsOf(c) # {}}

\* A carried body that spends a held coin, or an opener: a body the manager
\* would admit with no coin, at an output some spender in the walk names.
CarriedPredecessors(r, S, named) ==
  LET W == Walked(r.tx, S)
      namedIn == (S \cap named) \cup
                 UNION {Spends[c] \cap Names[c] : c \in {d \in Tx : /\ WalksThrough(r.tx, d)
                                                                   /\ OutsOf(d) \cap W # {}}}
  IN {c \in Carries[r.tx] :
        /\ OutsOf(c) \cap W # {} /\ ~HasLanded(c)
        /\ Spends[c] \cap store.held # {} \/ Admit[c][{}] \cap namedIn # {}}

\* land_carried: the current submit is suspended and c's starts.
Land(e, c) ==
  Step(e, Fresh(c, FALSE, <<[tx |-> run[e].tx, coins |-> run[e].coins,
                             adm |-> run[e].adm]>> \o run[e].parents))

(* unlanded_predecessor and what successors_waiting does with its answer.   *)
(* A read that faults, or the 256 reads running out, is "not now".          *)
Question(e, a) ==
  LET r == run[e]
      S == Starts(r, r.snap) \ r.coins
      absent == AbsentPredecessors(r, S, r.snap)
      carried == CarriedPredecessors(r, S, r.snap)
      own == [r EXCEPT !.pc = "own", !.snap = {}]
  IN
  /\ r.pc = "question"
  /\ Read(e, a)
  /\ UNCHANGED <<told, notLanded>>
  /\ \/ a # "ok" /\ Step(e, own)
     \/ a = "ok" /\ absent \cup carried = {} /\ Proceed(e, r)
     \/ a = "ok" /\ absent # {} /\ Step(e, own)
     \/ \E c \in carried :
          /\ a = "ok"
          /\ \/ r.parents = <<>> /\ c \in LandsFirst /\ Land(e, c)
             \/ r.parents = <<>> /\ c \notin LandsFirst /\ Step(e, own)
             \/ r.parents # <<>> /\ Step(e, [own EXCEPT !.under = {c} \cap LandsFirst])

(* The end of successors_waiting for a topic that would wait: one that      *)
(* already holds an output landed before, and its replay finishes it.  A    *)
(* waiting link of a landing is held and the body under it lands first.     *)
ReadOwn(e, a) ==
  LET r == run[e]
      own == a = "ok" /\ OutsOf(r.tx) \cap store.held # {}
  IN
  /\ r.pc = "own"
  /\ Read(e, a)
  /\ UNCHANGED told
  /\ \/ own /\ Proceed(e, r) /\ UNCHANGED notLanded
     \/ ~own /\ r.under = {} /\ Hold(e)
     \/ \E c \in r.under :
          /\ ~own
          /\ notLanded' = [notLanded EXCEPT ![e] = @ \cup {r.tx}]
          /\ Land(e, c)

-----------------------------------------------------------------------------
(***************************************************************************)
(* Phase 3: spent marks and spend notifications, inserts and admission     *)
(* notifications, the undo, the stale coins' deletes, consumedBy, and the  *)
(* applied row.  An order in a loop is any order of the loop's elements.   *)
(***************************************************************************)
(* judge, asked again of a carried predecessor that does not wait. *)
Rejudge(e, a) ==
  /\ run[e].pc = "rejudge"
  /\ Manager(e, a)
  /\ \/ a = "ok" /\ Step(e, [run[e] EXCEPT !.pc = "mark"])
     \/ a # "ok" /\ Finish(e, FALSE)
  /\ UNCHANGED <<told, notLanded>>

(* mark_utxo_as_spent of one previous coin. *)
MarkSpent(e, a, o) ==
  LET r == After(e, a) IN
  /\ run[e].pc = "mark" /\ o \in run[e].todo
  /\ Stored(e, a, <<"mark", o>>)
  /\ Step(e, [r EXCEPT
                !.pc = "spendhook", !.cur = {o}, !.todo = @ \ {o},
                !.flags = @ \cup Flag(a, {"fault"} \cup (IF o \in Kept(r) THEN {"hold"} ELSE {}))])
  /\ UNCHANGED <<told, notLanded>>

\* Mutant: a notification that faulted does not hold the inserts.
SpendHookBestEffort(e, a) ==
  /\ run[e].pc = "spendhook"
  /\ Hooked(e, a)
  /\ told' = IF a = "ok" THEN told \cup ({"spent"} \X run[e].cur) ELSE told
  /\ Step(e, [After(e, a) EXCEPT !.pc = "mark", !.cur = {}])
  /\ UNCHANGED notLanded

(* lookup_service.output_spent, told even when the mark faulted. *)
SpendHook(e, a) ==
  /\ run[e].pc = "spendhook"
  /\ Hooked(e, a)
  /\ told' = IF a = "ok" THEN told \cup ({"spent"} \X run[e].cur) ELSE told
  /\ Step(e, [After(e, a) EXCEPT !.pc = "mark", !.cur = {},
                                 !.flags = @ \cup Flag(a, {"fault", "hold"})])
  /\ UNCHANGED notLanded

(* A retained coin's mark or a spend notification faulted: nothing inserted. *)
Marked(e) ==
  /\ run[e].pc = "mark" /\ run[e].todo = {}
  /\ \/ "hold" \in run[e].flags /\ Hold(e)
     \/ /\ "hold" \notin run[e].flags
        /\ Step(e, [run[e] EXCEPT !.pc = "insert", !.todo = run[e].adm])
        /\ UNCHANGED notLanded
  /\ UNCHANGED <<store, late, told, faults, crashes>>

\* The outputs attempted so far are taken out again, under a renewed deadline.
Undo(e, r, attempted) ==
  Step(e, [r EXCEPT !.pc = "undo", !.todo = attempted, !.cur = {}, !.due = FALSE,
                    !.flags = @ \cup {"fault"}])

\* Mutant: only the output whose insert faulted is taken out again.
InsertOutputUndoesOne(e, a, o) ==
  LET r == run[e] IN
  /\ r.pc = "insert" /\ o \in r.todo
  /\ Stored(e, a, <<"insert", o, Kept(r)>>)
  /\ \/ a = "ok" /\ Step(e, [r EXCEPT !.pc = "admithook", !.cur = {o}, !.todo = @ \ {o}])
     \/ a # "ok" /\ Undo(e, r, {o})
  /\ UNCHANGED <<told, notLanded>>

(* insert_output_with_origin of one admitted output. *)
InsertOutput(e, a, o) ==
  LET r == run[e] IN
  /\ r.pc = "insert" /\ o \in r.todo
  /\ Stored(e, a, <<"insert", o, Kept(r)>>)
  /\ \/ a = "ok" /\ Step(e, [r EXCEPT !.pc = "admithook", !.cur = {o}, !.todo = @ \ {o}])
     \/ a # "ok" /\ Undo(e, r, (r.adm \ r.todo) \cup {o})
  /\ UNCHANGED <<told, notLanded>>

\* Mutant: an admission notification that faulted is dropped.
AdmitHookBestEffort(e, a) ==
  LET r == run[e] IN
  /\ r.pc = "admithook"
  /\ Hooked(e, a)
  /\ told' = IF a = "ok" THEN told \cup ({"admitted"} \X r.cur) ELSE told
  /\ Step(e, [r EXCEPT !.pc = "insert", !.cur = {}])
  /\ UNCHANGED notLanded

(* lookup_service.output_admitted_by_topic. *)
AdmitHook(e, a) ==
  LET r == run[e] IN
  /\ r.pc = "admithook"
  /\ Hooked(e, a)
  /\ \/ /\ a = "ok"
        /\ told' = told \cup ({"admitted"} \X r.cur)
        /\ Step(e, [r EXCEPT !.pc = "insert", !.cur = {}])
     \/ a # "ok" /\ Undo(e, r, r.adm \ r.todo) /\ UNCHANGED told
  /\ UNCHANGED notLanded

(* undo_inserts: the read of one attempted output.  Only a row nobody has   *)
(* touched since is deleted.                                                *)
UndoRead(e, a, o) ==
  LET r == After(e, a)
      untouched == /\ a = "ok" /\ o \in store.held \ store.spent
                   /\ store.consumedBy[o] = {}
  IN
  /\ run[e].pc = "undo" /\ o \in run[e].todo
  /\ Read(e, a)
  /\ \/ untouched /\ Step(e, [r EXCEPT !.pc = "undodelete", !.cur = {o}, !.todo = @ \ {o}])
     \/ ~untouched /\ Step(e, [r EXCEPT !.todo = @ \ {o}])
  /\ UNCHANGED <<told, notLanded>>

(* undo_inserts: the delete of that row. *)
UndoDelete(e, a, o) ==
  /\ run[e].pc = "undodelete" /\ o \in run[e].cur
  /\ Stored(e, a, <<"undo", o>>)
  /\ Step(e, [After(e, a) EXCEPT !.pc = "undo", !.cur = {}])
  /\ UNCHANGED <<told, notLanded>>

Undone(e) ==
  /\ run[e].pc = "undo" /\ run[e].todo = {}
  /\ Hold(e)
  /\ UNCHANGED <<store, late, told, faults, crashes>>

(* Every admitted output landed: only now the stale coins are deleted. *)
Inserted(e) ==
  LET r == run[e] IN
  /\ r.pc = "insert" /\ r.todo = {}
  /\ Step(e, [r EXCEPT !.pc = "stale", !.todo = Stale(r),
                       !.flags = @ \cup (IF r.due THEN {"duebefore"} ELSE {})])
  /\ UNCHANGED <<store, late, told, notLanded, faults, crashes>>

\* Mutant: the stale coin is deleted with no record of its transaction.
RecordSpentSkipped(e, a, o) ==
  /\ run[e].pc = "stale" /\ o \in run[e].todo
  /\ Read(e, a)
  /\ Step(e, [After(e, a) EXCEPT !.pc = "find", !.cur = {o}, !.todo = @ \ {o}])
  /\ UNCHANGED <<told, notLanded>>

(* The transaction of a stale coin is recorded as applied before its coin   *)
(* is deleted.  A record that faults leaves the coin undeleted.             *)
RecordSpent(e, a, o) ==
  LET r == After(e, a) IN
  /\ run[e].pc = "stale" /\ o \in run[e].todo
  /\ Stored(e, a, <<"applied", TxOf[o]>>)
  /\ \/ /\ a = "ok"
        /\ notLanded' = [notLanded EXCEPT ![e] = @ \ {TxOf[o]}]
        /\ Step(e, [r EXCEPT !.pc = "find", !.cur = {o}, !.todo = @ \ {o}])
     \/ /\ a # "ok"
        /\ UNCHANGED notLanded
        /\ Step(e, [r EXCEPT !.todo = @ \ {o}, !.flags = @ \cup {"fault", "delfault"}])
  /\ UNCHANGED told

(* The read of the stale coin before its delete. *)
FindStale(e, a, o) ==
  LET r == After(e, a) IN
  /\ run[e].pc = "find" /\ o \in run[e].cur
  /\ Read(e, a)
  /\ \/ /\ a = "ok" /\ o \in store.held
        /\ Step(e, [r EXCEPT !.pc = "drop", !.snap = store.consumedBy[o],
                             !.flags = @ \cup {"delstarted"}])
     \/ /\ a = "ok" /\ o \notin store.held
        /\ Step(e, [r EXCEPT !.pc = "stale", !.cur = {}])
     \/ /\ a # "ok"
        /\ Step(e, [r EXCEPT !.pc = "stale", !.cur = {}, !.flags = @ \cup {"fault", "delfault"}])
  /\ UNCHANGED <<told, notLanded>>

(* delete_utxo_deep of one row: deleted when nothing consumes it; what it   *)
(* consumed is walked next, whether the row was deleted or not.  An error   *)
(* counts for the stale coin itself and is dropped below it.                *)
DropRow(e, a, o) ==
  LET r == After(e, a)
      stale == run[e].pc = "drop"
      error == IF stale THEN {"fault", "delfault"} ELSE {}
      walk == [r EXCEPT !.pc = "deep", !.cur = {}, !.snap = {},
                        !.deep = @ \cup ({o} \X store.consumes[o])]
      w == IF stale THEN <<"delete", o, r.adm>> ELSE <<"prune", o>>
  IN
  /\ run[e].pc \in {"drop", "prune"} /\ o \in run[e].cur
  /\ \/ /\ run[e].snap # {} /\ a = "ok"
        /\ Step(e, walk)
        /\ UNCHANGED <<store, late, faults, crashes>>
     \/ /\ run[e].snap = {}
        /\ Stored(e, a, w)
        /\ \/ a = "ok" /\ Step(e, [walk EXCEPT !.pc = "dropped"])
           \/ a # "ok" /\ Step(e, [walk EXCEPT !.deep = r.deep, !.flags = @ \cup error])
  /\ UNCHANGED <<told, notLanded>>

(* lookup_service.output_no_longer_retained_in_history: an error is dropped. *)
DropHook(e, a) ==
  /\ run[e].pc = "dropped"
  /\ Hooked(e, a)
  /\ Step(e, [After(e, a) EXCEPT !.pc = "deep"])
  /\ UNCHANGED <<told, notLanded>>

\* Mutant: the row's other consumers are dropped from its list too.
ReadConsumedClears(e, a, p, c) ==
  LET r == [After(e, a) EXCEPT !.deep = @ \ {<<p, c>>}] IN
  /\ run[e].pc = "deep" /\ <<p, c>> \in run[e].deep
  /\ Read(e, a)
  /\ \/ /\ a = "ok" /\ c \in store.held
        /\ Step(e, [r EXCEPT !.pc = "unref", !.cur = {c}, !.from = {p}, !.snap = {}])
     \/ ~(a = "ok" /\ c \in store.held) /\ Step(e, r)
  /\ UNCHANGED <<told, notLanded>>

(* delete_utxo_deep: the read of a row the dropped one consumed. *)
ReadConsumed(e, a, p, c) ==
  LET r == [After(e, a) EXCEPT !.deep = @ \ {<<p, c>>}] IN
  /\ run[e].pc = "deep" /\ <<p, c>> \in run[e].deep
  /\ Read(e, a)
  /\ \/ /\ a = "ok" /\ c \in store.held
        /\ Step(e, [r EXCEPT !.pc = "unref", !.cur = {c}, !.from = {p},
                             !.snap = store.consumedBy[c] \ {p}])
     \/ ~(a = "ok" /\ c \in store.held) /\ Step(e, r)
  /\ UNCHANGED <<told, notLanded>>

(* delete_utxo_deep: update_consumed_by of that row, then the row itself.   *)
(* A fault ends the walk below the row that consumed it.                    *)
Unreference(e, a, p, c) ==
  LET r == [After(e, a) EXCEPT !.from = {}]
      error == IF p \in Stale(r) THEN {"fault", "delfault"} ELSE {}
  IN
  /\ run[e].pc = "unref" /\ c \in run[e].cur /\ p \in run[e].from
  /\ Stored(e, a, <<"link", c, run[e].snap>>)
  /\ \/ a = "ok" /\ Step(e, [r EXCEPT !.pc = "prune"])
     \/ a # "ok" /\ Step(e, [r EXCEPT !.pc = "deep", !.cur = {}, !.snap = {},
                                      !.deep = {d \in @ : d[1] # p},
                                      !.flags = @ \cup error])
  /\ UNCHANGED <<told, notLanded>>

DeepDone(e) ==
  /\ run[e].pc = "deep" /\ run[e].deep = {}
  /\ Step(e, [run[e] EXCEPT !.pc = "stale"])
  /\ UNCHANGED <<store, late, told, notLanded, faults, crashes>>

\* Mutant: the inserts are undone on any delete fault.
DeletedUndoes(e) ==
  LET r == [run[e] EXCEPT !.due = FALSE] IN
  /\ run[e].pc = "stale" /\ run[e].todo = {}
  /\ \/ "delfault" \notin r.flags /\ Step(e, [run[e] EXCEPT !.pc = "link", !.todo = Kept(r)])
     \/ "delfault" \in r.flags /\ Step(e, [r EXCEPT !.pc = "undo", !.todo = r.adm])
  /\ UNCHANGED <<store, late, told, notLanded, faults, crashes>>

(* After the stale coins: on a delete fault the inserts are undone only if  *)
(* no delete was started and every call answered.                           *)
Deleted(e) ==
  LET r == [run[e] EXCEPT !.due = FALSE]
      unanswered == run[e].due /\ "duebefore" \notin r.flags
      faulted == "delfault" \in r.flags
      final == unanswered \/ "delstarted" \in r.flags
  IN
  /\ run[e].pc = "stale" /\ run[e].todo = {}
  /\ \/ ~faulted /\ Step(e, [run[e] EXCEPT !.pc = "link", !.todo = Kept(r)]) /\ UNCHANGED notLanded
     \/ faulted /\ final /\ Hold(e)
     \/ faulted /\ ~final /\ Step(e, [r EXCEPT !.pc = "readback", !.todo = Stale(r)])
        /\ UNCHANGED notLanded
  /\ UNCHANGED <<store, late, told, faults, crashes>>

(* Every stale coin is read back held before the inserts are undone. *)
ReadBack(e, a, o) ==
  LET held == a = "ok" /\ o \in store.held IN
  /\ run[e].pc = "readback" /\ o \in run[e].todo
  /\ Read(e, a)
  /\ \/ ~held /\ Hold(e)
     \/ held /\ Step(e, [run[e] EXCEPT !.todo = @ \ {o}]) /\ UNCHANGED notLanded
  /\ UNCHANGED told

AllHeld(e) ==
  /\ run[e].pc = "readback" /\ run[e].todo = {}
  /\ Step(e, [run[e] EXCEPT !.pc = "undo", !.todo = run[e].adm])
  /\ UNCHANGED <<store, late, told, notLanded, faults, crashes>>

(* The read of a retained coin before its consumedBy is written. *)
ReadRetained(e, a, c) ==
  LET r == [After(e, a) EXCEPT !.todo = @ \ {c}, !.flags = @ \cup Flag(a, {"fault"})] IN
  /\ run[e].pc = "link" /\ c \in run[e].todo
  /\ Read(e, a)
  /\ \/ /\ a = "ok" /\ c \in store.held
        /\ Step(e, [r EXCEPT !.pc = "linkwrite", !.cur = {c},
                             !.snap = store.consumedBy[c] \cup r.adm])
     \/ ~(a = "ok" /\ c \in store.held) /\ Step(e, r)
  /\ UNCHANGED <<told, notLanded>>

(* update_consumed_by of a retained coin. *)
LinkRetained(e, a, c) ==
  /\ run[e].pc = "linkwrite" /\ c \in run[e].cur
  /\ Stored(e, a, <<"link", c, run[e].snap>>)
  /\ Step(e, [After(e, a) EXCEPT !.pc = "link", !.cur = {}, !.snap = {},
                                 !.flags = @ \cup Flag(a, {"fault"})])
  /\ UNCHANGED <<told, notLanded>>

(* A topic with a fault is not recorded. *)
Unrecorded(e) ==
  /\ run[e].pc = "link" /\ run[e].todo = {} /\ "fault" \in run[e].flags
  /\ Hold(e)
  /\ UNCHANGED <<store, late, told, faults, crashes>>

(* insert_applied_transaction of the subject, only when all of it landed. *)
RecordApplied(e, a) ==
  /\ run[e].pc = "link" /\ run[e].todo = {} /\ "fault" \notin run[e].flags
  /\ Stored(e, a, <<"applied", run[e].tx>>)
  /\ \/ /\ a = "ok"
        /\ notLanded' = [notLanded EXCEPT ![e] = @ \ {run[e].tx}]
        /\ Finish(e, TRUE)
     \/ a # "ok" /\ Hold(e)
  /\ UNCHANGED told

-----------------------------------------------------------------------------
(* A statement that was told faulted lands after all. *)
LandLate(w) ==
  /\ w \in late
  /\ store' = Apply(store, w)
  /\ late' = late \ {w}
  /\ UNCHANGED <<told, notLanded, run, faults, crashes>>

(* An invocation dies in the middle of a submit: its memory is lost. *)
Crash(e) ==
  /\ run[e] # Idle /\ Within(faults, crashes + 1)
  /\ crashes' = crashes + 1
  /\ Step(e, Idle)
  /\ notLanded' = [notLanded EXCEPT ![e] = {}]
  /\ UNCHANGED <<store, late, told, faults>>

(* An invocation ends and another takes its place, remembering nothing. *)
NewInvocation(e) ==
  /\ run[e] = Idle /\ notLanded[e] # {}
  /\ notLanded' = [notLanded EXCEPT ![e] = {}]
  /\ UNCHANGED <<store, late, told, run, faults, crashes>>

-----------------------------------------------------------------------------
Init ==
  /\ store = EmptyStore
  /\ late = {}
  /\ told = {}
  /\ notLanded = [e \in Engine |-> {}]
  /\ run = [e \in Engine |-> Idle]
  /\ faults = 0
  /\ crashes = 0

Answers == {"ok", "err", "silent", "refused"}

\* The steps of a submit in flight.
Progress(e) ==
  \/ Marked(e) \/ Undone(e) \/ Inserted(e) \/ DeepDone(e) \/ Deleted(e)
  \/ AllHeld(e) \/ Unrecorded(e)
  \/ \E a \in Answers :
       \/ ReadApplied(e, a) \/ Judge(e, a) \/ Ask(e, a) \/ Question(e, a)
       \/ ReadOwn(e, a) \/ Rejudge(e, a) \/ SpendHook(e, a) \/ AdmitHook(e, a)
       \/ DropHook(e, a) \/ RecordApplied(e, a)
       \/ \E o \in Outpoint :
            \/ ReadCoin(e, a, o) \/ MarkSpent(e, a, o) \/ InsertOutput(e, a, o)
            \/ UndoRead(e, a, o) \/ UndoDelete(e, a, o) \/ RecordSpent(e, a, o)
            \/ FindStale(e, a, o) \/ DropRow(e, a, o) \/ ReadBack(e, a, o)
            \/ ReadRetained(e, a, o) \/ LinkRetained(e, a, o)
            \/ \E p \in Outpoint : ReadConsumed(e, a, p, o) \/ Unreference(e, a, p, o)

Next ==
  \/ \E e \in Engine :
       \/ Progress(e) \/ Crash(e) \/ NewInvocation(e)
       \/ \E t \in Tx, fin \in BOOLEAN : Submit(e, t, fin)
  \/ \E w \in late : LandLate(w)

Spec == Init /\ [][Next]_vars

\* An invocation that is not killed runs its submit to the end, every call
\* answering or timing out, and a transaction not yet recorded is presented
\* again (the queue's replay, a redrive, a resubmit, a GASP peer).
Fairness ==
  \A e \in Engine :
    /\ WF_vars(Progress(e))
    /\ \A t \in Tx : SF_vars(Submit(e, t, FALSE))

FairSpec == Spec /\ Fairness

-----------------------------------------------------------------------------
(* Properties *)

Labels ==
  {"dedup", "coins", "ask", "question", "own", "mark", "spendhook", "insert",
   "admithook", "undo", "undodelete", "stale", "find", "drop", "prune", "dropped",
   "deep", "unref", "rejudge", "readback", "link", "linkwrite"}

Flags == {"read", "fault", "hold", "duebefore", "delfault", "delstarted"}

SubmitRecord ==
  [pc : Labels, tx : Tx, coins : SUBSET Outpoint, adm : SUBSET Outpoint,
   fin : BOOLEAN, due : BOOLEAN, parents : Seq(Frame), todo : SUBSET Outpoint,
   cur : SUBSET Outpoint, from : SUBSET Outpoint, snap : SUBSET Outpoint,
   deep : SUBSET (Outpoint \X Outpoint), under : SUBSET Tx, flags : SUBSET Flags]

StoreType ==
  [held : SUBSET Outpoint, spent : SUBSET Outpoint, applied : SUBSET Tx,
   gone : SUBSET (Outpoint \X SUBSET Outpoint), pruned : SUBSET Tx,
   consumes : [Outpoint -> SUBSET Outpoint], consumedBy : [Outpoint -> SUBSET Outpoint]]

Statement ==
  ({"mark", "undo", "prune"} \X Outpoint) \cup ({"applied"} \X Tx)
  \cup ({"insert", "delete", "link"} \X Outpoint \X SUBSET Outpoint)

\* The tables, the statements in flight and every submit's record stay well
\* typed across all of submit's paths (engine.rs, submit_counted_inner).
TypeOK ==
  /\ store \in StoreType
  /\ late \subseteq Statement
  /\ told \subseteq {"admitted", "spent"} \X Outpoint
  /\ notLanded \in [Engine -> SUBSET Tx]
  /\ run \in [Engine -> {Idle} \cup SubmitRecord]
  /\ faults \in Nat
  /\ crashes \in Nat

AtRest == \A e \in Engine : run[e] = Idle

Utxos == store.held \ store.spent

\* "A non-retaining chain never has two unspent heads": with no submit in
\* flight, a coin is not listed as unspent once the transaction that spends it
\* left an output in the topic, held or spent in its turn.
NeverTwoHeads ==
  AtRest => \A o \in Utxos, t \in Tx :
              o \in Spends[t] => OutsOf(t) \cap (store.held \cup Gone) = {}

\* "... and never none": an output whose admission let a stale coin be deleted
\* stays in the topic until it is itself deleted as a stale coin.
NeverNone ==
  \A g \in store.gone : g[2] \subseteq store.held \cup Gone

\* A coin deleted as stale left its transaction recorded as applied, so a
\* replay of it is a dupe, and every lookup service was told of the spend.
GoneIsAccounted ==
  \A g \in store.gone : TxOf[g[1]] \in store.applied /\ <<"spent", g[1]>> \in told

\* Why that holds for any number of engines, faults, crashes and late
\* statements.  A delete is sent, and may be in flight, only for a coin whose
\* transaction is recorded and whose spend every lookup service was told of.
DeletesAreAccounted ==
  \A w \in late : w[1] = "delete" => TxOf[w[2]] \in store.applied /\ <<"spent", w[2]>> \in told

ToldOf(S) == \A o \in S : <<"spent", o>> \in told

\* A submit past its marks has told every coin's spend; in the marks, of every
\* coin behind it unless it must hold; and the coin it deletes is its own,
\* with that coin's transaction recorded.
SubmitAccounts(r) ==
  /\ r.pc = "rejudge" => r.coins \subseteq r.todo
  /\ r.pc = "mark" /\ "hold" \notin r.flags => ToldOf(r.coins \ r.todo)
  /\ r.pc = "spendhook" /\ "hold" \notin r.flags => ToldOf(r.coins \ (r.todo \cup r.cur))
  /\ r.pc \in {"insert", "admithook"} => ToldOf(r.coins)
  /\ r.pc \in {"stale", "find", "drop", "prune", "dropped", "deep", "unref"}
       => ToldOf(r.coins) /\ r.todo \subseteq r.coins
  /\ r.pc \in {"find", "drop"}
       => r.cur \subseteq r.coins /\ \A o \in r.cur : TxOf[o] \in store.applied

Accounted ==
  /\ GoneIsAccounted
  /\ DeletesAreAccounted
  /\ \A e \in Engine : run[e] # Idle => SubmitAccounts(run[e])

\* No coin that was spent and deleted comes back as a row: a replay after the
\* successor, a retry or a late statement never inserts it a second time.
NoResurrection ==
  [][\A o \in store'.held \ store.held : o \notin Gone]_vars

\* The record r is of a submit of t past its dedup read, or of one that a submit
\* of t is suspended for.
InHand(r, t) ==
  /\ r # Idle
  /\ \/ r.tx = t /\ r.pc # "dedup"
     \/ \E i \in 1 .. Len(r.parents) : r.parents[i].tx = t

\* A deleted coin that nothing in flight can insert.
Settled(o) ==
  /\ o \in Gone
  /\ \A e \in Engine : ~InHand(run[e], TxOf[o])
  /\ \A w \in late : w[1] = "insert" => w[2] # o

\* A coin that was spent and deleted is gone for good once no submit that had
\* passed its dedup read and no insert is left in flight: whatever engines,
\* orders of presentation, faults, deaths and late statements follow, no step
\* inserts it and none brings such a submit about again.
StaysGone ==
  [][\A o \in Outpoint : Settled(o) => o \notin store'.held \ store.held /\ Settled(o)']_vars

\* "A held coin proves the inserts of its transaction landed": a transaction
\* recorded as applied left all of its outputs in the topic or none of them.
AppliedWhole ==
  AtRest => \A t \in store.applied :
              OutsOf(t) \cap (store.held \cup Gone) # {}
                => Admit[t][Spends[t]] \subseteq store.held \cup Gone

\* A recorded transaction's outputs were announced to every lookup service:
\* no replay would tell them, for the replay is a dupe.
AppliedIsIndexed ==
  AtRest => \A t \in store.applied : \A o \in OutsOf(t) :
              o \in store.held \cup Gone => <<"admitted", o>> \in told

\* Retained history is kept as long as a held row consumes it: the deep delete
\* takes a row once the last row that consumes it is gone, and no sooner.  A
\* fault or a death before update_consumed_by leaves a consumer unlisted.
HistoryKept ==
  AtRest /\ faults = 0 /\ crashes = 0
    => \A o \in store.held, c \in Outpoint :
         c \in store.consumes[o] => c \in store.held

\* A successor never overtakes its predecessor: once a transaction is recorded
\* as applied no coin it spends is left unspent, so the chain goes on from it.
\* Recorded before its predecessor landed, its replay would be a dupe for good,
\* which is what a finalize does to the transactions in pruned.
NoOvertaking ==
  \A t \in store.applied \ store.pruned : Spends[t] \cap Utxos = {}

\* "Since H2 every order from there converges": once the calls stop faulting,
\* and unless a finalize went without a named input, the replays record every
\* transaction and the coins listed as unspent are the ones none spends.
Converges ==
  <>[](store.pruned = {} =>
         /\ store.applied = Tx
         /\ Utxos = {o \in Outpoint : \A t \in Tx : o \notin Spends[t]})

=============================================================================
