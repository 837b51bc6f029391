-------------------------- MODULE CalculationEngine --------------------------
(***************************************************************************)
(* calculateMarks: the totals and the verdict on the marks of one sheet.   *)
(* marks is a partial function: an item outside its domain has no value.   *)
(* handwritten is {} or the set of the one total written on the sheet.     *)
(* Decimals are exact, so the order in which the items are added up is     *)
(* irrelevant.                                                             *)
(***************************************************************************)
EXTENDS Integers, Functions

GrandTotal(marks) == FoldFunction(+, 0, marks)

InvalidMarks(marks, maxima, paperMaximum) ==
  \/ paperMaximum <= 0
  \/ \E i \in DOMAIN marks : marks[i] < 0 \/ marks[i] > maxima[i]

IncompleteMarks(marks, required) == ~(required \subseteq DOMAIN marks)

ResultStatus(marks, maxima, paperMaximum, required, handwritten) ==
  IF InvalidMarks(marks, maxima, paperMaximum) THEN "INVALID"
  ELSE IF IncompleteMarks(marks, required) THEN "INCOMPLETE"
  ELSE IF handwritten \subseteq {GrandTotal(marks)} THEN "READY_FOR_EXPORT"
  ELSE "TOTAL_MISMATCH"
============================================================================
