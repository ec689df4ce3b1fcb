---------------------------- MODULE MCChainFeed ----------------------------
(* Instances of ChainFeed for TLC. *)
EXTENDS ChainFeed

Ev(kind, lo, hi, block) == [kind |-> kind, lo |-> lo, hi |-> hi, block |-> block]
Reorg(lo, hi, b) == Ev("reorg", lo, hi, b)
TipAt(h, b) == Ev("tip", h, h, b)

\* n: the events published before the first pass, the start cursor, the events a
\* scheduled pass finishes (a block's finishes one), the events of a page, the rows of
\* a leg's page, the couriers' asks, the fault ceiling; m: the faults, the dropped
\* passes and the levers there may be.
Inst(journal, leg, n, m) ==
  [journal |-> journal, before |-> n[1], start |-> n[2],
   limit |-> [p \in Pass |-> IF p = "tick" THEN n[3] ELSE 1], page |-> n[4],
   rows |-> n[5], ladder |-> n[6], ceiling |-> n[7],
   leg |-> leg, proof |-> [r \in Row |-> <<1, 1>>],
   faults |-> m[1], drops |-> m[2], levers |-> m[3]]

Spenders == [r \in Row |-> 1]
Hops == [r \in Row |-> 3]
Mixed == [r \in Row |-> IF r = 1 THEN 1 ELSE 3]

\* Two reorgs while passes run; an envelope that does not decode, and the lever; an
\* invalidated block; a start past the first event, a page an event; a block that one
\* event keeps and the next takes, judged by one pass; a spent budget and a drop; the
\* lever with an event in hand.
Walks ==
  {Inst(<<Reorg(1, 2, 2), Reorg(1, 1, 3)>>, Mixed, <<0, 0, 1, 2, 1, 1, 1>>, <<0, 0, 0>>),
   Inst(<<TipAt(2, 2), Ev("unreadable", 1, 1, 1), Reorg(1, 2, 3)>>, Mixed,
        <<3, 0, 1, 3, 2, 1, 1>>, <<1, 0, 1>>),
   Inst(<<Ev("invalidated", 1, 1, 1), TipAt(1, 2)>>, Spenders, <<0, 0, 1, 2, 1, 1, 1>>, <<0, 0, 0>>),
   Inst(<<TipAt(1, 1), TipAt(2, 1), Reorg(1, 2, 2)>>, Mixed, <<2, 1, 1, 1, 2, 2, 1>>, <<1, 0, 0>>),
   Inst(<<Reorg(1, 1, 1), Reorg(1, 1, 2)>>, Hops, <<1, 0, 2, 2, 3, 1, 2>>, <<0, 0, 0>>),
   Inst(<<Reorg(1, 1, 2), TipAt(2, 2)>>, Spenders, <<2, 0, 2, 2, 3, 1, 1>>, <<0, 1, 0>>),
   Inst(<<Reorg(1, 1, 2)>>, Hops, <<1, 0, 1, 1, 1, 1, 1>>, <<0, 0, 1>>)}

\* Smaller ones, for the fair behaviours.
Drained ==
  {Inst(<<TipAt(2, 2), Ev("unreadable", 1, 1, 1)>>, Mixed, <<0, 0, 1, 1, 1, 1, 1>>, <<1, 0, 1>>),
   Inst(<<Reorg(1, 1, 2), Reorg(1, 1, 3)>>, Mixed, <<2, 0, 1, 2, 2, 1, 1>>, <<0, 0, 0>>),
   Inst(<<Reorg(1, 2, 2)>>, Mixed, <<1, 0, 1, 1, 1, 1, 1>>, <<0, 1, 0>>)}
=============================================================================
