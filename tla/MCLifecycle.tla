---------------------------- MODULE MCLifecycle ----------------------------
(***************************************************************************)
(* One sheet of one or two questions, one request at a time to complete    *)
(* the upload, two decisions and two calculations in flight, and a sheet   *)
(* that carries no total or one that may differ from the sum.              *)
(***************************************************************************)
EXTENDS MarkSheetLifecycle, TLC

CONSTANTS q1, q2, r1, r2, d1, d2, c1, c2, e1, ann, vera

MCOneItem == {q1}
MCTwoItems == {q1, q2}
MCMax == [i \in Items |-> 2]
MCAiMarks == {1}
MCTotals == {{}, {1}}
MCNoTotal == {{}}
MCManual == {}
MCMarks == {1, 2}
MCOneMark == {1}
MCRuns == {r1}
MCTwoRuns == {r1, r2}
MCRequests == {d1, d2}
MCReviewers == {ann}
MCVerifiers == {vera}
MCOneCalculator == {c1}
MCCalculators == {c1, c2}
MCNoExporter == {}
MCExporters == {e1}

Symmetry == Permutations(MCRequests) \cup Permutations(MCCalculators)
              \cup Permutations(MCTwoRuns)
============================================================================
