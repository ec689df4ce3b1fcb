------------------------------- MODULE Intents -------------------------------
(* What a durable list of work promises, whatever keeps it: an entry is taken
   off the list only once the work it stands for is done up to the newest intent
   recorded for it, or it is dropped on record.  The parked changes of the
   worker (ChangePark) and the dirty marks of the owed list (OwedMarks) implement
   it: change_park.rs and derived_owed.rs both delete an entry only at the
   generation that its delivery read. *)
EXTENDS Integers

CONSTANT Item

VARIABLES
  wanted,   \* per item: the newest change an intent was recorded for
  done,     \* per item: the newest change that the receiver has acted on
  open,     \* per item: an entry stands
  dropped   \* per item: its last entry was given up on record

vars == <<wanted, done, open, dropped>>

TypeOK ==
  /\ wanted \in [Item -> Nat]
  /\ done \in [Item -> Nat]
  /\ open \in [Item -> BOOLEAN]
  /\ dropped \in [Item -> BOOLEAN]

Init ==
  /\ wanted = [x \in Item |-> 0]
  /\ done = [x \in Item |-> 0]
  /\ open = [x \in Item |-> FALSE]
  /\ dropped = [x \in Item |-> FALSE]

\* The receiver acts on the item, or nothing happens to it.
Carry(x) ==
  /\ done'[x] >= done[x]
  /\ wanted'[x] = wanted[x] /\ open'[x] = open[x] /\ dropped'[x] = dropped[x]

\* An intent is recorded: a new entry, or the standing one renewed.
Record(x) ==
  /\ wanted'[x] >= wanted[x] /\ open'[x] /\ ~dropped'[x]
  /\ done'[x] = done[x]

\* The entry is taken off, or none ever stood, its work done up to the newest
\* intent: the work, and the intent too, may be of this very step.
Close(x) ==
  /\ ~open'[x] /\ dropped'[x] = dropped[x]
  /\ done'[x] >= done[x] /\ done'[x] >= wanted'[x]
  /\ wanted'[x] >= wanted[x]

\* The entry is given up, and that is on record.
Drop(x) ==
  /\ open[x] /\ ~open'[x] /\ dropped'[x]
  /\ wanted'[x] = wanted[x] /\ done'[x] = done[x]

\* One statement may touch many items.
Next ==
  /\ TypeOK'
  /\ \A x \in Item : Carry(x) \/ Record(x) \/ Close(x) \/ Drop(x)

Spec == Init /\ [][Next]_vars

\* An item with no entry, not given up, is done up to its newest intent.
Settled == \A x \in Item : ~open[x] /\ ~dropped[x] => done[x] >= wanted[x]
=============================================================================
