------------------------ MODULE ChainFeedRows_proofs ------------------------
(* The results about the rows of ChainFeed: the two invariants together. *)
EXTENDS ChainFeed_proofs, ChainFeedWindow_proofs

\* For any journal, rows and passes, an event the cursor has passed as applied leaves no
\* row filed in its window on a block that this event, or one before it, took off the
\* chain, but for the late rows (drive_event, the three legs of a window).
THEOREM WindowJudgedHolds == Spec => []WindowJudged
<1>1. RowsInv => WindowJudged
  <2> SUFFICES ASSUME RowsInv, NEW x \in past.done, NEW r \in Row, held[r] \in x.lo..x.hi,
                      held[r] # 0, r \notin past.late
               PROVE  gone[proof[r][1]][proof[r][2]] = 0 \/ gone[proof[r][1]][proof[r][2]] > x.e
    BY DEF WindowJudged
  <2>1. Cleared(Chain, x)
    BY DEF RowsInv
  <2> QED
    BY <2>1, ChainIs DEF Cleared, Stale, TakenBy
<1> QED
  BY <1>1, InvHolds, RowsHold, PTL

\* The document and the passes keep their types, and the document names no more
\* releases than are kept (FeedState, UNRESOLVED_KEPT).
THEOREM TypeOKHolds == Spec => []TypeOK
<1>1. Inv /\ RowsInv => TypeOK
  <2> SUFFICES ASSUME Inv, RowsInv PROVE TypeOK
    OBVIOUS
  <2>1. head \in 0..Len(Journal) /\ row.ver \in Nat
    BY DEF Inv, LeftOK, RowOK
  <2>2. /\ canon \in [Height -> Block \cup {0}] /\ proof \in [Row -> Height \X Block]
        /\ held \in [Row -> Height \cup {0}]
    BY ChainIs DEF RowsInv, ChainOK
  <2>3. Len(row.st.unresolved) <= UNRESOLVED_KEPT
    <3> DEFINE n == Len(past.released)
               k == IF n < UNRESOLVED_KEPT THEN n ELSE UNRESOLVED_KEPT
    <3>1. row.st.unresolved = SubSeq(past.released, n - k + 1, n) /\ past.released \in Seq(Nat)
      BY DEF Inv, PastOK, ReleasedRecorded
    <3>2. n \in Nat /\ UNRESOLVED_KEPT \in Nat /\ k \in 0..n /\ k <= UNRESOLVED_KEPT
      BY <3>1, ChainFeedAssumption
    <3> HIDE DEF n, k
    <3>3. Len(SubSeq(past.released, n - k + 1, n)) = k
      BY <3>1, <3>2
    <3> QED
      BY <3>1, <3>2, <3>3
  <2>4. \A p \in Pass : pass[p].at \in Stages
    BY Zenon DEF RowsInv, PassRows
  <2> QED
    BY <2>1, <2>2, <2>3, <2>4 DEF TypeOK, Stages
<1> QED
  BY <1>1, InvHolds, RowsHold, PTL
=============================================================================
