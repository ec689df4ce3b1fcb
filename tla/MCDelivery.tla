----------------------------- MODULE MCDelivery -----------------------------
(* Instances of Delivery for TLC. *)
EXTENDS Delivery

\* Letter k in three copies, "a" inline and "b" and "d", heavier and heaviest, at
\* rest in R2; letter j in one inline copy "c".
LetterOfCopy == [c \in Copy |-> IF c = "c" THEN "j" ELSE "k"]
Weights == [c \in Copy |-> CASE c = "d" -> 3 [] c = "b" -> 2 [] OTHER -> 1]
OwnTxids == [k \in Letter |-> k]

Statements == {"note", "park", "resolve", "claim", "revert"}
Calls == Statements \cup {"send"}

\* <<presentations of a, b, c, d>>, troubles, evictions, discards, days
Scenario(p, t, e, d, days) ==
  [presents |-> [c \in Copy |-> CASE c = "a" -> p[1] [] c = "b" -> p[2] [] c = "c" -> p[3]
                              [] c = "d" -> p[4]],
   troubles |-> t, evictions |-> e, discards |-> d, clock |-> days]

\* Two copies of a letter, both in R2 or one inline, or one of them twice, or
\* three messages of it; two letters under a ceiling of one, and a discard.
Sharing == {Scenario(<<0, 1, 0, 1>>, 2, 0, 0, 0), Scenario(<<1, 1, 0, 0>>, 2, 0, 0, 0),
            Scenario(<<0, 2, 0, 0>>, 2, 0, 0, 0), Scenario(<<1, 2, 0, 0>>, 1, 0, 0, 0),
            Scenario(<<0, 1, 1, 0>>, 2, 0, 0, 0), Scenario(<<0, 1, 1, 0>>, 1, 0, 1, 0)}
\* One keyed letter, across an eviction, a discard and the queues' retention.
Lasting == {Scenario(<<0, 1, 0, 0>>, 2, 1, 0, 0), Scenario(<<0, 1, 0, 0>>, 2, 0, 1, 0),
            Scenario(<<0, 1, 0, 0>>, 1, 0, 1, 3)}
\* Two letters, each dead-lettered, re-driven and refused "not now".
Redriving == {Scenario(<<1, 0, 1, 0>>, 4, 0, 0, 0)}
\* Both copies of one letter, once each.
TwoCopies == {Scenario(<<1, 1, 0, 0>>, 1, 0, 0, 0)}
\* One keyed letter, two troubles.
OneCopy == {Scenario(<<0, 1, 0, 0>>, 2, 0, 0, 0)}
=============================================================================
