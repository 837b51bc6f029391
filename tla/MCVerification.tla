-------------------------- MODULE MCVerification --------------------------
(***************************************************************************)
(* Two questions, a recognizer that may read nothing, a possible mark or   *)
(* one beyond the maximum, and two decisions in flight at any time.        *)
(***************************************************************************)
EXTENDS Verification, TLC

CONSTANTS q1, q2, d1, d2, ann, vera, zoe

MCItems == {q1, q2}
MCMaxMark == [i \in MCItems |-> IF i = q1 THEN 1 ELSE 2]
MCAiMarks == {1, 3}
MCMarks == {1, 2}
MCRequests == {d1, d2}
MCReviewers == {ann, zoe}
MCVerifiers == {vera}

Symmetry == Permutations(MCRequests)
============================================================================
