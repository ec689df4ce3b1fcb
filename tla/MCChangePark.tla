---------------------------- MODULE MCChangePark ----------------------------
(* Instances of ChangePark for TLC. *)
EXTENDS ChangePark

\* Two flushes in one isolate, a third in another.
Homes == [j \in Job |-> IF j = "j3" THEN "i2" ELSE "i1"]

\* <<writes of a, p, l, m>>, troubles, deaths, jobs, drains
Bounds(w, t, d, J, D) ==
  [writes |-> [k \in Key |-> CASE k = "a" -> w[1] [] k = "p" -> w[2] [] k = "l" -> w[3] [] k = "m" -> w[4]],
   troubles |-> t, deaths |-> d, jobs |-> J, drains |-> D]

\* One key through two flushes, of one isolate or of two, and two drains; with
\* troubles, or with isolates ending; a key that the app layer refuses under two
\* drains, or chunked with one it accepts; and the lobby's share of a table of two.
Scenarios ==
  {Bounds(<<2, 0, 0, 0>>, 0, 0, {"j1", "j2"}, {"d1", "d2"}),
   Bounds(<<2, 0, 0, 0>>, 1, 0, {"j1", "j3"}, {"d1"}),
   Bounds(<<2, 0, 0, 0>>, 2, 0, {"j1"}, {"d1", "d2"}),
   Bounds(<<2, 0, 0, 0>>, 1, 1, {"j1"}, {"d1"}),
   Bounds(<<0, 2, 0, 0>>, 0, 0, {"j1"}, {"d1", "d2"}),
   Bounds(<<1, 1, 0, 0>>, 1, 0, {"j1"}, {"d1"}),
   Bounds(<<1, 0, 1, 1>>, 0, 0, {"j1"}, {"d1"})}

\* Three writes of one key, two POSTs that fail; no isolate ends.
TwoFailures == {Bounds(<<3, 0, 0, 0>>, 2, 0, {"j1"}, {"d1"})}
=============================================================================
