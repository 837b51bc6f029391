-------------------------- MODULE CalculationLedger --------------------------
(***************************************************************************)
(* What calculation promises to reports and exports: the results of a      *)
(* sheet form a ledger that only grows; an entry is a new answer for a new *)
(* input, or the decision to accept a total that was in doubt; and a sheet *)
(* is published by the very entry that is ready, until it is withdrawn.    *)
(***************************************************************************)
EXTENDS Naturals, Sequences

VARIABLES
  ledger,    \* entries with version, digest, total, status
  published  \* whether the sheet can be exported

Init == ledger = <<>> /\ published = FALSE

Newest == ledger[Len(ledger)]
NewEntry == ledger'[Len(ledger')]

Grows ==
  /\ Len(ledger') = Len(ledger) + 1
  /\ ledger' = Append(ledger, NewEntry)
  /\ NewEntry.version = Len(ledger) + 1
  /\ published' = (NewEntry.status = "READY_FOR_EXPORT")

Record ==
  /\ Grows
  /\ ledger # <<>> => NewEntry.digest # Newest.digest

Accept ==
  /\ Grows
  /\ ledger # <<>> /\ Newest.status = "TOTAL_MISMATCH"
  /\ NewEntry.total = Newest.total /\ NewEntry.digest = Newest.digest
  /\ NewEntry.status = "READY_FOR_EXPORT"

Withdraw == ledger' = ledger /\ published' = FALSE

Next == Record \/ Accept \/ Withdraw

Spec == Init /\ [][Next]_<<ledger, published>>
============================================================================
