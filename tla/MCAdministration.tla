--------------------------- MODULE MCAdministration ---------------------------
(***************************************************************************)
(* The administration of a tenant: the versions of one paper and of one    *)
(* scheme of it, with two requests in flight; and three catalog records,   *)
(* an account, an offering and the assignment of one to the other, with    *)
(* two edits in flight.  The two services share no row, so interleaving    *)
(* them adds nothing: each is explored while the other has not begun.      *)
(***************************************************************************)
EXTENDS Publication, Catalog, TLC

CONSTANTS Q, a, c1, c2, e1, e2, professor, offering, assignment

MCPapers == {Q :> {a}, Q :> {}}

Item(part, parent, maximum, scorable) ==
  [question |-> Q, part |-> part, parent |-> parent, maximum |-> maximum,
   scorable |-> scorable]
Draft(maximum, items) == [maximum |-> maximum, items |-> items]

\* As the documents describe it, for a question with and without a part; with
\* an item below the part and with the part twice, which only the indexes
\* refuse; with parts that do not add up.
Parted == <<Item(NoPart, 0, 1, FALSE), Item(a, 1, 1, TRUE)>>
MCDrafts ==
  {Draft(1, Parted), Draft(1, <<Item(NoPart, 0, 1, TRUE)>>),
   Draft(1, Append(Parted, Item(NoPart, 2, 1, TRUE))),
   Draft(1, Append(Parted, Item(a, 0, 1, TRUE))),
   Draft(2, <<Item(NoPart, 0, 2, FALSE), Item(a, 1, 1, TRUE)>>)}

MCClerks == {c1, c2}
MCEditors == {e1, e2}
MCRecords == {professor, offering, assignment}
MCParents == [r \in MCRecords |->
                IF r = assignment THEN {professor, offering} ELSE {}]
MCAccounts == {professor}
MCContents == {1, 2}

Symmetry == Permutations(MCClerks) \cup Permutations(MCEditors)

AdministrationInit == PublicationInit /\ CatalogInit
CatalogIsUntouched == CatalogInit
PapersAreUntouched == PublicationInit /\ papers = <<>>

AdministrationNext ==
  \/ PublicationNext /\ CatalogIsUntouched /\ UNCHANGED catalogVars
  \/ CatalogNext /\ PapersAreUntouched /\ UNCHANGED publicationVars

AdministrationSpec ==
  AdministrationInit
    /\ [][AdministrationNext]_<<publicationVars, catalogVars>>

----------------------------------------------------------------------------
(* Drafts of up to three items, for a question with one part or none.      *)

Items == [question : {Q}, part : {a, NoPart}, parent : 0..3, maximum : 0..2,
          scorable : BOOLEAN]
ItemLists == UNION {[1..n -> Items] : n \in 0..2} \cup
  {<<x, y, z>> : x \in {i \in Items : i.parent = 0}, y \in Items,
                 z \in {i \in Items : i.maximum = 1}}
MCSubmissions ==
  {Draft(MarksOf(items, Roots(items)), items) : items \in ItemLists}
============================================================================
