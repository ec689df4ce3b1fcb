------------------------------ MODULE MCEfJobs ------------------------------
(* Instances of EfJobs for TLC. *)
EXTENDS EfJobs

\* n: the corroboration's legs, the consumers, the presentations, the faults and the
\* ends there may be.
Inst(rest, n) ==
  [rest |-> rest, legs |-> n[1], consumers |-> IF n[2] = 1 THEN {"c1"} ELSE Consumer,
   presents |-> n[3], faults |-> n[4], ends |-> n[5]]

\* Two runs that may overlap, with a call that faults; a submission presented again, in
\* D1 and in R2, where a request, a run or a tick may be cut; and the corroboration's
\* cursor under two runs.
Scenarios ==
  {Inst("r2", <<0, 2, 1, 1, 0>>), Inst("d1", <<0, 1, 2, 0, 1>>),
   Inst("r2", <<0, 1, 2, 0, 1>>), Inst("r2", <<2, 2, 1, 0, 0>>)}
=============================================================================
