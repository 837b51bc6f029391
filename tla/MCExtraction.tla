--------------------------- MODULE MCExtraction ---------------------------
(***************************************************************************)
(* Two questions, one of which has a cell in the template, and a           *)
(* recognizer that reports a mark within or beyond the maximum.            *)
(***************************************************************************)
EXTENDS Extraction, TLC

CONSTANTS q1, q2, r1, r2, r3

MCItems == {q1, q2}
MCMaxMark == [i \in MCItems |-> 2]
MCAiMarks == {1, 3}
MCCells == {q1}
MCManual == {[i \in MCItems |-> 1]}
MCNoManual == {}
MCRuns == {r1, r2}
MC3Runs == {r1, r2, r3}

Symmetry == Permutations(MC3Runs)
============================================================================
