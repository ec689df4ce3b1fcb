---------------------------- MODULE MCOwedMarks ----------------------------
(* Instances of OwedMarks for TLC. *)
EXTENDS OwedMarks

\* A pot of two games, and an outpoint of the second.
TwoPairs == [p \in Pair |-> IF p = "pot" THEN {"g1", "g2"} ELSE {"g2"}]

\* consumers, <<writes of pot, of hop, finds, directs, faults, walls, resets, reads>>
Bounds(phase, C, n) ==
  [phase |-> phase, consumers |-> C,
   writes |-> [p \in Pair |-> IF p = "pot" THEN n[1] ELSE n[2]],
   finds |-> n[3], directs |-> n[4], faults |-> n[5], walls |-> n[6],
   resets |-> n[7], reads |-> n[8]]

One == {"c1"}
Two == {"c1", "c2"}

\* Phase A with one writer of D1's rows: the consumer, or the belt.
JudgeD1 ==
  {Bounds("A", One, <<1, 1, 0, 0, 0, 0, 0, 1>>), Bounds("A", One, <<1, 0, 0, 0, 2, 0, 0, 0>>),
   Bounds("A", One, <<0, 1, 0, 0, 2, 0, 0, 0>>), Bounds("A", {}, <<0, 0, 2, 0, 0, 0, 0, 1>>)}

\* Phase B: the consumer beside a find, walls, a reset of the actor, faults.
JudgeBoth ==
  {Bounds("B", One, <<0, 2, 1, 0, 0, 0, 0, 0>>), Bounds("B", One, <<0, 1, 0, 0, 0, 1, 1, 0>>),
   Bounds("B", One, <<1, 0, 0, 0, 1, 0, 0, 0>>)}

\* Phase C: two consumers, direct calls, finds, resets, faults, a read.
JudgeActor ==
  {Bounds("C", Two, <<0, 2, 0, 1, 0, 0, 0, 0>>), Bounds("C", Two, <<0, 2, 0, 0, 0, 0, 0, 1>>),
   Bounds("C", One, <<0, 1, 1, 0, 0, 0, 1, 0>>), Bounds("C", One, <<0, 2, 0, 0, 0, 0, 1, 0>>),
   Bounds("C", One, <<0, 1, 0, 1, 1, 0, 0, 0>>), Bounds("C", One, <<0, 1, 0, 0, 1, 0, 1, 0>>),
   Bounds("C", One, <<0, 1, 0, 0, 0, 0, 1, 1>>), Bounds("C", One, <<1, 1, 0, 0, 0, 0, 0, 0>>)}

Scenarios == JudgeD1 \cup JudgeBoth \cup JudgeActor

\* Phase A's belt finds something about an outpoint that is written meanwhile.
FindScenario == {Bounds("A", One, <<0, 1, 1, 0, 0, 0, 0, 0>>)}
=============================================================================
