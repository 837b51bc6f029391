------------------------------ MODULE Publication ------------------------------
(***************************************************************************)
(* The versions of one question paper and of one marking scheme of it:     *)
(* QuestionPapersService and MarkingSchemesService, and the first thing    *)
(* published versions are for, UploadsService.create.                      *)
(*                                                                         *)
(* Several requests are handled at once.  Each reads, decides and writes   *)
(* in one transaction without locking what it read; behind it stand the    *)
(* unique indexes on the version numbers and the triggers that refuse to   *)
(* change a published row.  What a request reads of a published version,   *)
(* of a paper's questions or of a stored scheme never changes again, so    *)
(* such reads are taken together.                                          *)
(***************************************************************************)
EXTENDS SchemeValidation

CONSTANTS
  Papers,     \* the question structures a paper version may be given
  Drafts,     \* the schemes a client may send
  Submissions, \* more of them, on which the validator alone is tried
  Clerks,     \* requests the backend may be handling at once
  MaxVersion, \* bound on the versions of the paper and of the scheme
  MaxCaptures \* bound on the capture sessions created

ASSUME PapersAssumption ==
  \A shape \in Papers : \A q \in DOMAIN shape : NoPart \notin shape[q]
ASSUME DraftsAssumption ==
  Drafts # {} /\ \A draft \in Drafts \cup Submissions : IsDraft(draft)
ASSUME MaxVersionAssumption == MaxVersion \in Nat
ASSUME MaxCapturesAssumption == MaxCaptures \in Nat

VARIABLES
  papers,   \* question_paper_versions, in the order of commit
  schemes,  \* marking_scheme_versions with their items, in that order
  captures, \* mark_sheets: which paper and scheme version each one uses
  minutes,  \* audit_logs rows about versions
  clerk     \* what the backend is doing for each request

publicationTables == <<papers, schemes, captures, minutes>>
publicationVars == <<publicationTables, clerk>>

VersionStatus == {"DRAFT", "PUBLISHED"}
\* bound is marking_scheme_version_id, 0 is NULL; the paper and scheme ids
\* are places in these sequences.  publishedAt is the place of the audit row
\* written with it, 0 in a draft and in the seed.
PaperVersion == [version : Nat, status : VersionStatus, publishedAt : Nat,
                 shape : Papers, bound : Nat]
StoredDrafts == Drafts \cup {TotalsOnly(draft) : draft \in Drafts}
SchemeVersion == [version : Nat, status : VersionStatus, publishedAt : Nat,
                  paper : Nat, draft : StoredDrafts]
Capture == [paper : Nat, scheme : Nat]
Minute == [action : {"CREATE_VERSION", "PUBLISH"}, table : {"paper", "scheme"},
           id : Nat]
AnyDraft == CHOOSE d \in Drafts : TRUE
Clerk == [phase : {"idle", "draftPaper", "draftScheme", "publishPaper",
                   "publishScheme", "capture"},
          version : Nat, paper : Nat, scheme : Nat, draft : Drafts]
Task(phase, version, paper, scheme, draft) ==
  [phase |-> phase, version |-> version, paper |-> paper, scheme |-> scheme,
   draft |-> draft]
NoTask == Task("idle", 0, 0, 0, AnyDraft)

PublicationTypeOK ==
  /\ papers \in Seq(PaperVersion)
  /\ schemes \in Seq(SchemeVersion)
  /\ captures \in Seq(Capture)
  /\ minutes \in Seq(Minute)
  /\ clerk \in [Clerks -> Clerk]

\* The seed leaves one published pair that is bound; a new paper has nothing.
\* Seeded before the migration of its template or after it, the scheme marks
\* totals or parts.
Seeded(shape, draft) ==
  /\ papers = <<[version |-> 1, status |-> "PUBLISHED", publishedAt |-> 0,
                  shape |-> shape, bound |-> 1]>>
  /\ \E stored \in {draft, TotalsOnly(draft)} :
       schemes = <<[version |-> 1, status |-> "PUBLISHED", publishedAt |-> 0,
                    paper |-> 1, draft |-> stored]>>
  /\ Accepts(draft, shape) /\ Storable(draft.items)

PublicationInit ==
  /\ \/ \E shape \in Papers, draft \in Drafts : Seeded(shape, draft)
     \/ papers = <<>> /\ schemes = <<>>
  /\ captures = <<>> /\ minutes = <<>>
  /\ clerk = [c \in Clerks |-> NoTask]

Minuted(action, table, id) ==
  minutes' = Append(minutes, [action |-> action, table |-> table, id |-> id])
Begin(c, task) ==
  /\ clerk[c].phase = "idle"
  /\ clerk' = [clerk EXCEPT ![c] = task]
  /\ UNCHANGED publicationTables
Performing(c, phase) ==
  /\ clerk[c].phase = phase
  /\ clerk' = [clerk EXCEPT ![c] = NoTask]

----------------------------------------------------------------------------
(* createVersion of either service: the largest number, then the insert.   *)

LargestVersion(rows) ==
  IF rows = <<>> THEN 0
  ELSE CHOOSE v \in {rows[k].version : k \in DOMAIN rows} :
         \A k \in DOMAIN rows : rows[k].version <= v

\* Mutant: the numbers have no unique index.
AnyNumber(rows, version) == TRUE

UnusedNumber(rows, version) == \A k \in DOMAIN rows : rows[k].version # version

ReadPaperVersions(c) ==
  /\ LargestVersion(papers) < MaxVersion
  /\ Begin(c, Task("draftPaper", LargestVersion(papers) + 1, 0, 0, AnyDraft))

CreatePaperVersion(c) ==
  /\ Performing(c, "draftPaper")
  /\ UnusedNumber(papers, clerk[c].version)
  /\ \E shape \in Papers :
       papers' = Append(papers, [version |-> clerk[c].version, status |-> "DRAFT",
                                 publishedAt |-> 0, shape |-> shape, bound |-> 0])
  /\ Minuted("CREATE_VERSION", "paper", Len(papers) + 1)
  /\ UNCHANGED <<schemes, captures>>

ReadSchemeVersions(c) ==
  /\ LargestVersion(schemes) < MaxVersion
  /\ \E p \in DOMAIN papers, draft \in Drafts :
       /\ Accepts(draft, papers[p].shape)
       /\ Begin(c, Task("draftScheme", LargestVersion(schemes) + 1, p, 0, draft))

CreateSchemeVersion(c) ==
  /\ Performing(c, "draftScheme")
  /\ UnusedNumber(schemes, clerk[c].version)
  /\ Storable(clerk[c].draft.items)
  /\ schemes' = Append(schemes, [version |-> clerk[c].version, status |-> "DRAFT",
                                 publishedAt |-> 0, paper |-> clerk[c].paper,
                                 draft |-> clerk[c].draft])
  /\ Minuted("CREATE_VERSION", "scheme", Len(schemes) + 1)
  /\ UNCHANGED <<papers, captures>>

----------------------------------------------------------------------------
(* publish of either service: a draft is found, and updated by its id.     *)

\* The trigger protect_published_version looks at the row as it is now.
\* Mutant: there is no trigger.
AnyRow(row) == TRUE

Changeable(row) == row.status # "PUBLISHED"

FindDraftScheme(c) ==
  \E s \in DOMAIN schemes :
    /\ schemes[s].status = "DRAFT"
    /\ Accepts(schemes[s].draft, papers[schemes[s].paper].shape)
    /\ Begin(c, Task("publishScheme", 0, 0, s, AnyDraft))

PublishScheme(c) ==
  LET s == clerk[c].scheme
  IN  /\ Performing(c, "publishScheme")
      /\ Changeable(schemes[s])
      /\ schemes' = [schemes EXCEPT ![s].status = "PUBLISHED",
                                    ![s].publishedAt = Len(minutes) + 1]
      /\ Minuted("PUBLISH", "scheme", s)
      /\ UNCHANGED <<papers, captures>>

\* Mutant: any scheme of the paper version will do.
HasScheme(p) == \E s \in DOMAIN schemes : schemes[s].paper = p

HasPublishedScheme(p) ==
  \E s \in DOMAIN schemes :
    schemes[s].paper = p /\ schemes[s].status = "PUBLISHED"

FindDraftPaper(c) ==
  \E p \in DOMAIN papers :
    /\ papers[p].status = "DRAFT"
    /\ HasPublishedScheme(p)
    /\ Begin(c, Task("publishPaper", 0, p, 0, AnyDraft))

\* The scheme that was found is not written into the paper version.
PublishPaper(c) ==
  LET p == clerk[c].paper
  IN  /\ Performing(c, "publishPaper")
      /\ Changeable(papers[p])
      /\ papers' = [papers EXCEPT ![p].status = "PUBLISHED",
                                  ![p].publishedAt = Len(minutes) + 1]
      /\ Minuted("PUBLISH", "paper", p)
      /\ UNCHANGED <<schemes, captures>>

----------------------------------------------------------------------------
(* uploads.create: both versions are published and name each other.        *)

\* Mutant: the paper need not name the scheme.
PairNamedByScheme(p, s) == schemes[s].paper = p

Bound(p, s) == schemes[s].paper = p /\ papers[p].bound = s

FindCapturePair(c) ==
  /\ Len(captures) < MaxCaptures
  /\ \E p \in DOMAIN papers, s \in DOMAIN schemes :
       /\ papers[p].status = "PUBLISHED" /\ schemes[s].status = "PUBLISHED"
       /\ Bound(p, s)
       /\ Begin(c, Task("capture", 0, p, s, AnyDraft))

\* The insert runs the trigger validate_mark_sheet_scheme_pair.
CreateCapture(c) ==
  LET p == clerk[c].paper
      s == clerk[c].scheme
  IN  /\ Performing(c, "capture")
      /\ schemes[s].paper = p /\ schemes[s].status = "PUBLISHED"
      /\ captures' = Append(captures, [paper |-> p, scheme |-> s])
      /\ UNCHANGED <<papers, schemes, minutes>>

\* A refusal, a lost race, an error of the database, a crash.
DropTask(c) ==
  /\ clerk[c].phase # "idle"
  /\ clerk' = [clerk EXCEPT ![c] = NoTask]
  /\ UNCHANGED publicationTables

PublicationNext ==
  \E c \in Clerks :
    \/ ReadPaperVersions(c) \/ CreatePaperVersion(c)
    \/ ReadSchemeVersions(c) \/ CreateSchemeVersion(c)
    \/ FindDraftScheme(c) \/ PublishScheme(c)
    \/ FindDraftPaper(c) \/ PublishPaper(c)
    \/ FindCapturePair(c) \/ CreateCapture(c) \/ DropTask(c)

PublicationSpec == PublicationInit /\ [][PublicationNext]_publicationVars

----------------------------------------------------------------------------
(* Properties.                                                             *)

\* Overlapping drafts are numbered 1, 2, 3, ... without gap or repetition.
VersionsAreNumbered ==
  /\ \A p \in DOMAIN papers : papers[p].version = p
  /\ \A s \in DOMAIN schemes : schemes[s].version = s

\* Students are only examined on papers that can be marked: a published
\* version has a published scheme, whatever else was published meanwhile.
PublishedPaperHasScheme ==
  \A p \in DOMAIN papers : papers[p].status = "PUBLISHED" =>
    \E s \in DOMAIN schemes :
      schemes[s].paper = p /\ schemes[s].status = "PUBLISHED"

\* The audit log tells the story of every version once: it was created, and
\* it was published if it is, by one request, however many tried.
MinutesOf(action, table, id) ==
  {k \in DOMAIN minutes :
     minutes[k] = [action |-> action, table |-> table, id |-> id]}
ToldOnce(table, id, status) ==
  LET created == MinutesOf("CREATE_VERSION", table, id)
      published == MinutesOf("PUBLISH", table, id)
  IN  /\ Cardinality(created) <= 1
      /\ status = "DRAFT" => created # {} /\ published = {}
      /\ status = "PUBLISHED" =>
           \/ created = {} /\ published = {}   \* seeded
           \/ /\ Cardinality(published) = 1
              /\ \E k \in created, n \in published : k < n
PublishedOnce ==
  /\ \A p \in DOMAIN papers : ToldOnce("paper", p, papers[p].status)
  /\ \A s \in DOMAIN schemes : ToldOnce("scheme", s, schemes[s].status)

\* A sheet that was captured keeps a paper and a scheme that are published,
\* that name each other, and it can be marked: the scheme marks every question
\* once, as a whole or by its parts, and the marks are the maximum together.
\* That holds of the seeded scheme although a migration changed what it marks
\* behind the triggers, and of every other one although the validator looks
\* one level below a question and no further.
BoundPair(p, s) ==
  /\ p \in DOMAIN papers /\ papers[p].status = "PUBLISHED" /\ papers[p].bound = s
  /\ s \in DOMAIN schemes /\ schemes[s].status = "PUBLISHED" /\ schemes[s].paper = p
CapturesAreBound ==
  \A k \in DOMAIN captures : BoundPair(captures[k].paper, captures[k].scheme)
CapturesAreMarkable ==
  /\ CapturesAreBound
  /\ \A k \in DOMAIN captures :
       MarksOnce(schemes[captures[k].scheme].draft,
                 papers[captures[k].paper].shape)

\* Whatever scheme MarkingSchemeValidator and the indexes together let through
\* for a paper version is complete: a question without parts is marked as a
\* whole, any other by exactly one item for each part and by nothing else, and
\* the marks are the maximum of the paper altogether.  The validator alone
\* would let a second item of a part through, or one below a part.
Admitted(shape) ==
  {draft \in Submissions : Accepts(draft, shape) /\ Storable(draft.items)}
AdmittedIncomplete ==
  [shape \in Papers |->
     {draft \in Admitted(shape) : ~ SchemeIsComplete(draft, shape)}]
AcceptedSchemesAreComplete ==
  \A p \in DOMAIN papers : AdmittedIncomplete[papers[p].shape] = {}

\* A version that is published never changes again, not even the moment of
\* its publication, and none disappears.
Kept(rows, newRows) ==
  \A k \in DOMAIN rows :
    k \in DOMAIN newRows /\ (rows[k].status = "PUBLISHED" => newRows[k] = rows[k])
PublishedIsFinal ==
  [][Kept(papers, papers') /\ Kept(schemes, schemes')]_publicationVars
==============================================================================
