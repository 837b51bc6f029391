--------------------------- MODULE SchemeValidation ---------------------------
(***************************************************************************)
(* Which marking schemes the backend stores for a version of a question    *)
(* paper: what MarkingSchemeValidator accepts, and what the database then  *)
(* admits.  A draft is [maximum, items]; the items are in the order of the *)
(* request and an item's place stands for its clientKey, so 0 is no parent *)
(* and a number beyond the last place is an unknown one.  The paper is a   *)
(* function from its questions to the sets of their parts.  Marks are      *)
(* scaled by a hundred; the validator's tolerance of half a hundredth is   *)
(* equality.  Groups and confidence thresholds are left out.               *)
(***************************************************************************)
EXTENDS Naturals, Sequences, FiniteSetsExt

CONSTANT NoPart  \* SQL NULL in question_part_id

\* What the validation pipe lets through: marks have two decimals and are not
\* negative.
IsDraft(draft) ==
  LET items == draft.items
  IN  /\ DOMAIN draft = {"maximum", "items"}
      /\ items \in Seq({items[k] : k \in DOMAIN items})
      /\ \A k \in DOMAIN items :
           /\ DOMAIN items[k] = {"question", "part", "parent", "maximum", "scorable"}
           /\ items[k].maximum \in Nat

MarksOf(items, places) == MapThenSumSet(LAMBDA k : items[k].maximum, places)

Roots(items) ==
  {k \in DOMAIN items : items[k].parent = 0 /\ items[k].part = NoPart}
ItemsOf(items, q) == {k \in DOMAIN items : items[k].question = q}
ChildrenOf(items, root) ==
  {k \in ItemsOf(items, items[root].question) : items[k].parent = root}

WellReferenced(items, paper) ==
  \A k \in DOMAIN items :
    /\ items[k].question \in DOMAIN paper
    /\ items[k].part \in paper[items[k].question] \cup {NoPart}
    /\ items[k].parent \in 0..Len(items)
    /\ items[k].scorable => items[k].maximum > 0

\* Mutant: the marks of the parts are not added up.
PartsFitUnsummed(items, root, parts) ==
  LET children == ChildrenOf(items, root)
  IN  /\ ~items[root].scorable
      /\ \A p \in parts : Cardinality({k \in children : items[k].part = p}) = 1
      /\ \A k \in children : items[k].scorable

PartsFit(items, root, parts) ==
  LET children == ChildrenOf(items, root)
  IN  /\ ~items[root].scorable
      /\ \A p \in parts : Cardinality({k \in children : items[k].part = p}) = 1
      /\ \A k \in children : items[k].scorable
      /\ MarksOf(items, children) = items[root].maximum

QuestionFits(items, q, parts) ==
  \E root \in Roots(items) :
    /\ Roots(items) \cap ItemsOf(items, q) = {root}
    /\ IF parts = {} THEN items[root].scorable /\ ItemsOf(items, q) = {root}
       ELSE PartsFit(items, root, parts)

Accepts(draft, paper) ==
  /\ WellReferenced(draft.items, paper)
  /\ \A q \in DOMAIN paper : QuestionFits(draft.items, q, paper[q])
  /\ MarksOf(draft.items, Roots(draft.items)) = draft.maximum

\* Mutant: one index on (question, part), which NULL never violates.
StorableByOneIndex(items) ==
  \A j, k \in DOMAIN items :
    /\ items[j].part # NoPart
    /\ items[j].question = items[k].question /\ items[j].part = items[k].part
    => j = k

\* The two partial unique indexes admit one item of a question without a part
\* and one of each part.  The trigger on parents wants them there, of the same
\* question: items without a parent are inserted first, the others after them
\* in the order of the request.
Storable(items) ==
  /\ \A j, k \in DOMAIN items :
       items[j].question = items[k].question /\ items[j].part = items[k].part
       => j = k
  /\ \A k \in DOMAIN items : items[k].parent # 0 =>
       LET parent == items[k].parent
       IN  /\ items[parent].parent = 0 \/ parent < k
           /\ items[parent].question = items[k].question

----------------------------------------------------------------------------
(* A stored scheme changes once more.  The migration that gave the seeded  *)
(* paper its numeric cells made the totals of its questions the marks, and *)
(* no longer their parts; the triggers that protect a published scheme     *)
(* were disabled for it.                                                   *)

\* Mutant: the parts are still marked, beside the totals.
TotalsAndParts(draft) ==
  [draft EXCEPT !.items = [k \in DOMAIN draft.items |->
     [draft.items[k] EXCEPT !.scorable = @ \/ draft.items[k].part = NoPart]]]

TotalsOnly(draft) ==
  [draft EXCEPT !.items = [k \in DOMAIN draft.items |->
     [draft.items[k] EXCEPT !.scorable = (draft.items[k].part = NoPart)]]]

----------------------------------------------------------------------------
(* What the schemes are for: a mark for everything that can be asked.      *)

Scorable(items) == {k \in DOMAIN items : items[k].scorable}

\* Of question q, exactly the targets are marked, each by one item; NoPart is
\* the question as a whole.
MarkedBy(items, q, targets) ==
  LET marked == Scorable(items) \cap ItemsOf(items, q)
  IN  /\ \A k \in marked : items[k].part \in targets
      /\ \A t \in targets : Cardinality({k \in marked : items[k].part = t}) = 1

AddsUp(draft) == MarksOf(draft.items, Scorable(draft.items)) = draft.maximum

\* A question without parts is marked as a whole, any other by its parts.
SchemeIsComplete(draft, paper) ==
  /\ \A q \in DOMAIN paper :
       MarkedBy(draft.items, q, IF paper[q] = {} THEN {NoPart} ELSE paper[q])
  /\ AddsUp(draft)

\* Nothing is left out and nothing is marked twice: each question is marked
\* either as a whole or by all of its parts.
MarksOnce(draft, paper) ==
  /\ \A q \in DOMAIN paper :
       \E targets \in {{NoPart}, paper[q]} \ {{}} : MarkedBy(draft.items, q, targets)
  /\ AddsUp(draft)
============================================================================
