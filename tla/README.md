# Marksheet: a formal model

Marksheet photographs answer-book cover sheets, has an AI service suggest the
marks, has people review them, and calculates, reports and exports the result.
This directory holds TLA+ modules for the parts of the system where requests
overlap over shared rows or where several steps can fail one by one, TLC
configurations that check them on small instances, and TLAPS proofs of what
matters most for instances of every size.

`PROJECT.json` maps every definition to the source lines it models and lists
runs, mutants, findings, hazards and theorems; this file explains them.

## 1. The system

| part | state it keeps | operations | interacts with |
|---|---|---|---|
| mobile app (`mobile/lib`) | capture queue, capture history and tokens in secure storage; a directory of images | capture, queue, upload, complete, retry; sign-in, shared rotation, sign-out | backend over HTTP, object storage by signed URL |
| web client (`frontend/lib/api.ts`) | the token pair in `localStorage` | requests that refresh and repeat themselves | backend over HTTP |
| uploads (`backend/src/uploads`) | `mark_sheets`, `file_objects` | `create`, `complete` | object storage (HEAD); calls `processUploaded` after its own transaction; asks for a published paper and scheme |
| extraction (`backend/src/mark-sheets`) | `ai_model_versions`, `extracted_marks`, `mark_values`, `verification_sessions`, `verification_items` | `processUploaded`, `ingest` | AI service by `fetch`, outside any transaction |
| verification (`backend/src/mark-sheets`) | session status and `lock_version`, selected value, verdict | `reviewItem`, `submit`, `approve` | web client, which shows `lock_version` and returns it |
| calculations (`backend/src/calculations`) | `calculation_results` with version and input digest | `calculate`, `resolve`, `latest` | reads sheet, session, selected values; sets `mark_sheets.status` |
| exports (`backend/src/exports`) | `exports`, `export_files`, objects | `create`, `get`, `download` | asks reports for the rows, stores an object between two transactions |
| reports (`backend/src/reports`) | nothing | class, student, summary, `exportData` | reads everything above, one query per table |
| auth (`backend/src/auth`) | `users` (counter, lock, token version), `auth_sessions` | login, refresh, logout, guard | both clients |
| question papers, marking schemes | versions with DRAFT or PUBLISHED, items, audit rows | `createVersion`, `publish`, validation | each other; uploads and extraction read what is published |
| catalog (`backend/src/catalog`) | all master data, with `updated_at` | create, update, status, CSV report | login, which updates accounts too |
| AI service (`ai-service/app`) | Redis stream of jobs, job hashes; stateless `/ai/extract-marks` | submit, claim, process, acknowledge | backend calls the stateless endpoint |
| audit | `audit_logs`, append only | a row in the writer's own transaction | every handler |

What is hard about it:

* **Interleaving.** Each handler runs in `prisma.$transaction` at PostgreSQL's
  default READ COMMITTED level, reads without locks and writes by id. What it
  read may be stale when it commits. Only unique indexes and the database's own
  `increment` are atomic.
* **Calls outside transactions.** `processUploaded` commits PROCESSING, calls
  the AI service, and stores the answer in another transaction; a failure is
  turned into an empty batch, and a failure of that into a reset.
* **Retries.** A device that saw no answer repeats the whole upload, from
  `create` to `upload-complete`; clients repeat reviews and calculations.
* **Crashes** between the committed claim and the stored rows, or between an
  object and its row; an app killed between a rotation and the stored pair.
* **Versions derived from the largest row seen** (calculations, schemes,
  papers), where a unique index decides the race.
* **Several views of one thing**: a sheet's status and its newest result, a
  result and the marks selected now, a row and its audit history.

What makes each part correct:

* extraction: one set of rows per sheet, never without an image, suggestions
  written once; a claimed sheet has somebody working on it; an uploaded sheet
  is eventually extracted; a repeated completion changes nothing, and does not
  take a sheet out of review;
* verification: no submission with an undecided item, only reviewers' values
  count, no decision is lost, the audit log explains the marks, a stale
  decision is refused;
* calculations: consecutive versions, no new version for the same input, only
  reconciled or explicitly accepted totals are ready, a published sheet shows a
  ready result;
* exports and reports: a file shows reviewed marks and a ready total, the rows
  of an export tell what happened to it, no two reports tell different stories;
* authentication: one usable refresh token per login, a revoked login stays
  revoked, a client does not trip reuse detection on itself, a limit on guesses;
* schemes and papers: versions numbered without a gap, published once, final,
  and complete, also after a migration that rewrites one; a published paper has
  a published scheme;
* catalog: no lost update, a gapless history;
* app and job queue: nothing is given up before the other side has it, and what
  is queued is delivered.


## 2. Modules

```
MarkSheetDb --+-- Extraction ------------------+      AdvisoryExtraction (abstract)
              +-- Verification ----------------+-- MarkSheetLifecycle
              +-- Calculations --+-- Exports --+      CalculationLedger  (abstract)
                       |         +-- Reports --+
              CalculationEngine (pure)
AuthSessions ------ SessionClients
UploadSessions ---- CaptureQueue
SchemeValidation -- Publication --+-- MCAdministration
                    Catalog ------+
AiJobQueue

ExtractionProofs --------+
VerificationProofs ------+-- LifecycleProofs
SumProofs (sums only) ---+-- AdministrationProofs (Publication, Catalog)
AuthProofs (SessionClients)   CaptureQueueProofs   AiJobQueueProofs
MC...: instances for TLC
```

The life of a sheet:

* **MarkSheetDb**: the rows of one sheet as variables, their types, and the
  state `uploads.create` leaves. A mark is a natural number (NUMERIC(7,2) scaled
  by a hundred). `verdict` stands for the status that `verification_items` and
  `extracted_marks` carry together: the handlers always write both. One session
  is enough because a session is created with the one batch of rows that the
  unique index admits (`RowsAreNew`). `handwritten_total` is only read by the
  code, so its value, or NULL, is chosen initially.
* **Extraction**: `UploadsService.complete` with `completeVerified`,
  `processUploaded` and `ingest`. A run's `phase` is the next transaction or
  call of that request. The AI service is external: it answers with any marks
  from `AiMarks` for the cells of the template, or fails.
* **AdvisoryExtraction**: the promise to the reviewer; at most once, an answer
  for the whole sheet appears, with an advisory value per number read, and
  never changes. `Extraction` implements it under
  `suggestion <- extractions`, `advice <- the AI rows of mark_values`.
* **Verification**: a decision is checked, loaded and committed, three steps
  for the two reads and the writes of each handler. A decision that shows
  another `lockVersion` than the row read is refused and leaves no trace, so
  only decisions with the current version are started; from then on the row can
  move.
* **CalculationEngine**, **Calculations**: `calculateMarks` and the service
  around it. The SHA-256 digest of a canonical text is modelled by the varying
  part of that text, that is, as injective.
* **CalculationLedger**: results form a ledger that only grows; an entry is new
  input or the acceptance of a doubted total; the sheet is published by the
  entry that is ready, until it is withdrawn.
* **Exports**: `create` with its three writes (the row before the work, the
  object, the file row with the end of the export) and the reads of `exportData`
  between them, each at its own instant; the catch block, a crash, and the
  expiry that `get` records. An exported mark is known by the id of the value it
  shows, an exported total by the whole result. An export expires after an hour
  at the earliest, so `ExpireExport` waits until its request is over.
* **Reports**: the line of a sheet in a class and in a student report, the
  summary cards that count it, and the gate of an export: pure functions of the
  rows above, written apart in the code.
* **MarkSheetLifecycle**: all handlers on the same rows; a request of one
  component may run between two steps of a request of another.

Sign-in:

* **AuthSessions**: `login` with its counter and lock, `refresh` with rotation
  and reuse detection, `logout`, and the guard on access tokens, for one user
  and any client that presents any token it ever got. `refresh` is one
  transaction (read, check, commit); the statements of `login` and `logout` are
  steps of their own. The foreign key from a successor to its predecessor takes
  a share lock that conflicts with the update that follows, so two overlapping
  rotations either both commit or one is aborted: the latter is `CallFails`.
* **SessionClients**: one client of either kind, with two requests. A token pair
  is the number of the session it was issued with. Tokens expire in the order
  they were issued, so "the first `stale`" and "the first `lapsed`" are enough.
  The mobile client shares one `_refreshFuture` among its requests, the web
  client refreshes per request; reading the stored pair and `??=` happen with no
  task switch that matters between them and are one step. `excused` records that
  something happened that is known to end in reuse detection: a lost answer on
  the web, an app killed during a rotation or a sign-out, parallel web requests,
  a shared rotation that another request cleared, a sign-out overlapping a
  rotation.

Administration:

* **SchemeValidation**: what `MarkingSchemeValidator` accepts (`Accepts`) and
  what the two partial unique indexes and the trigger on parents then admit
  (`Storable`), as predicates on a draft; what the migration of the numeric
  cells made of a stored one (`TotalsOnly`); and what a scheme is for: a mark
  for each question without parts and each part (`SchemeIsComplete`), or at
  least each question marked once, as a whole or by its parts (`MarksOnce`).
* **Publication**: `createVersion` and `publish` of papers and schemes, and the
  part of `uploads.create` that chooses a published pair. The service starts
  after the migrations: the seeded scheme marks its parts, or, if it was seeded
  before the migration, its totals (`Seeded`). Reads, decision and commit are
  steps; unique indexes and triggers are guards of the commit. A version's id is
  its place in the order of commit. `Drafts` are what requests send;
  `Submissions` are more drafts, on which the validator alone is tried. A draft
  is any list of items with natural maxima (`IsDraft`, the DTO's checks).
* **Catalog**: one service for every kind of record. `Parents` says which
  records a record refers to; accounts are seeded and are updated by logins too,
  which moves `updated_at`. A record keeps the fields of its unique key. Two
  writes of one record never share a timestamp.

App and queue:

* **UploadSessions**: the upload as one device sees it: what
  `upload-sessions`, the PUT and `upload-complete` do and answer, for several
  attempts. A completion is one step here; its inside is `Extraction`. Storage
  is external and only keeps the image under the sheet's object key.
* **CaptureQueue**: the app's two lists, its image directory, and the two tasks
  that use them, the capture screen's `_queue` and the dashboard's
  `_uploadPending`, with one step per storage access and per call, because Dart
  switches tasks at each `await`. The dashboard stays mounted below the capture
  screen; its loop running meanwhile counts as the failure `overlap`.
* **AiJobQueue**: `RedisJobQueue.enqueue` and the worker's loop. Redis commands
  are steps; the WATCHed transaction is a guard on the hash. A pending message
  is *idle* once nobody acknowledged it for a minute. The stream's cap of about
  100,000 entries and the hashes' seven days are left out. The backend calls the
  stateless endpoint, so this queue is not composed with `Extraction`.

Some modules hold definitions whose comment begins with *Mutant*. They are not
part of any specification; each is a plausible bug, and replacing the
definition that follows it makes the property named in `PROJECT.json` fail.

**Steps.** A handler is one step for every read its decision depends on and one
step for all the writes of a transaction (the commit). A transaction that fails
leaves nothing behind, so a crash or an error before the commit only forgets the
request. A unique index is a guard of the commit, and the losing request then
fails like any failed transaction. Where the code writes in several transactions
or statements (extraction, exports, login, logout, the app, Redis), each is a
step and a failure may come between any two.

## 3. Runs

| run | question | instance |
|---|---|---|
| `extraction_safety` | do overlapping completions, manual ingests, failures and crashes keep one truthful set of rows, written once; is a claimed sheet in somebody's hands; is an uploaded sheet extracted although nobody asks twice; does a settled review stay one? | 2 items (1 with a cell), 2 requests, 3 faults of seven kinds, fairness |
| `extraction_overlap` | is completion idempotent? **No**, see 5 | 2 requests, no faults |
| `verification_safety` | do overlapping decisions keep selection, verdict, audit and version together? | 2 items, 2 decisions in flight, 5 commits |
| `lifecycle_one` | do calculations race safely with each other and with reviews; do the composed handlers implement the ledger; do the reports agree? | 1 item, marks 1 and 2, with or without a written total, 2 decisions, 2 calculations, 3 versions |
| `lifecycle_two` | is what is calculated and exported reviewed and complete; do an export's rows tell what happened? | 2 items, 1 mark, 2 decisions, 1 calculation, 1 export, 2 versions |
| `lifecycle_export` | does an export show what is selected? **No** | as `lifecycle_one` |
| `queue_safety` | does the app list or give up only what the server has; do its lists survive a kill at every step; is every capture delivered? | 3 captures of 2 attempts, 2 faults of any kind, fairness |
| `queue_answer_lost` | is a capture delivered when an answer is lost? **No** | 2 captures, 1 lost answer |
| `jobs` | does a job enter the stream once, whoever submits it; is an unfinished one with somebody; does it end? | 3 submissions of 2 jobs, 2 clients, 2 workers, 2 faults of any kind, fairness |
| `sessions` | is there one usable token per login, does a revoked login stay revoked, how many guesses are judged, and when does a client trip reuse detection on itself? | mobile or web client, 2 requests, 3 sessions, 1 attempt, expiry, lost answers, kills |
| `sessions_rotation` | is a refresh token rotated once? **No** | web client, 2 requests |
| `administration` | are versions numbered, published once and complete; can what is captured be marked, also after the migration; is the catalog's history gapless? | 5 drafts of up to 3 items, 2 versions of each, 2 clerks, 1 capture; 3 records, 2 editors, 4 writes |

A state records which kinds of failure have happened, or can be asked about what
was committed in which order, and some properties name what excuses them, so
that one run shows both that the promise holds without it and how far it
reaches: `Stranding` (crash, failing reset) and `Abandoned` (these, and a
failing claim or fallback) in Extraction, `LateReviewStep` and `LateDecision`
(committed after the approval) and `Requeued` (a late completion) in Reports and
Exports, `InTurn` and `Blocked` in CaptureQueue, `Losing` in AiJobQueue,
`Forked` and `attempts.overlapped` in AuthSessions, `excused` in SessionClients.
Each excuse is a weakness of the code, listed in section 5.

**Bounds.** All are guards of actions. `MaxFaults` bounds failures, `MaxWrites`
committed decisions or catalog writes, `MaxVersions` calculations, `MaxVersion`
and `MaxCaptures` drafts and captures (in SessionClients `MaxVersion` bounds the
token version), `MaxSessions` session rows, `MaxFailures` the counter at which a
login may begin.

Two requests show every race between two commits, and a request that ended is
used again for a retry. Two items separate "some item" from "every item"; marks
1 and 3 against maxima 1 and 2 separate a possible mark from an impossible one,
and a match from a correction. Five commits are a review of each item, a
correction, submission and approval; one item and five commits leave room for a
review after the approval. Three versions are a mismatch, its resolution and a
newer calculation; the export's run has two, the one it reads and a newer one.
In the queue, two captures of one attempt show what a second picture does to the
first one's session, and a third one of another attempt gives the lists a second
entry to lose; two faults are a failure and one during its retry. Jobs only meet
in the cursor and in the workers, so two of each are enough. Three sessions are
a login, its successor and either a successor of that or a second login; a limit
of one attempt already separates the attempt that locks from the one after it.
The two administrative services share no row, so each is explored while the
other has not begun; a paper has one question with one part or none, and the
five drafts are the two shapes the documents describe, two that pass the
validator and only the indexes refuse (a second item for a part, an item below a
part), and one whose sums do not fit. An account, an offering and the assignment
between them give the catalog a reference, a child and a row that logins move.

**Symmetry** is used for requests, decisions, calculations, clerks and editors,
which are interchangeable, and never in a run with a liveness property.

**CHECK_DEADLOCK FALSE** is used where a model really stops: an approved
session accepts no decision; the bounds on commits, versions and session rows
end a behaviour; the app is done when every capture is taken and delivered.
Extraction and the job queue are checked for deadlock.

**Fairness.** `extraction_safety`: a handler that has begun runs on until it
ends (weak fairness per request; Node schedules every resolved promise, `fetch`
has a timeout). Nobody has to begin one. In particular nobody repeats the
completion of a sheet whose file is COMPLETED: a device's retry starts with
`create`, which answers 410 then (`uploads.service.ts:303-309`), and opening a
listed sheet only reads its review. An uploaded sheet is therefore extracted by
a request that is already under way, or not at all.

`queue_safety` and `queue_answer_lost`: a started task runs on (weak fairness),
and the dashboard tries the whole queue again and again (strong fairness of
`UploadPending`, since captures may keep it disabled): it does so at start, on
resume, when the network returns and on a tap. Taking pictures is not fair.
`jobs`: workers run, which includes that a crashed one is restarted, and minutes
pass. The other runs check safety only and need none.

## 4. Proofs

TLAPS checks the following for every number of items, requests, decisions,
exports, jobs, workers, sessions, versions and records.

| theorem | says |
|---|---|
| `ReviewIsTyped` | rows and requests of the review keep their types |
| `SubmittedSheetsAreComplete` | SUBMITTED or APPROVED means a selection for every item |
| `SelectedMarksAreReviewed` | what is selected was written by a reviewer, within the maximum |
| `VerdictsAreEarned` | a verdict rests on a selection; CORRECTED is another mark than the AI's |
| `NoDecisionIsLost` | `lock_version` counts every decision in the audit log |
| `AuditLogExplainsMarks` | the last audit row of an item names its selected value |
| `ApprovalsFollowReviews` | approval after submission after a decision on every item |
| `ExtractionIsTyped` | rows and requests of extraction keep their types |
| `ExtractionIsAdvisory` | Extraction implements AdvisoryExtraction |
| `ReviewsHaveASession` | REVIEW_REQUIRED means rows and an open session |
| `MarksHaveAnImage` | no rows without a completed upload |
| `ClaimedSheetsAreHandled` | PROCESSING means a request at work, a crash, or a failed reset |
| `FallbacksAreRecordedTruly` | a fallback row in the audit log is the only one, and true |
| `SettledReviewsStay` | a sheet in review that nobody is at work on stays in review |
| `CompletedSheetsAreReady` | a COMPLETED sheet shows a newest result that is ready |
| `CalculationsAreConsecutive` | results are numbered 1, 2, 3, ... |
| `CalculationsAreIdempotent` | neighbours with the same input are a doubted total and its acceptance |
| `CalculationsAreALedger` | the composed handlers implement CalculationLedger |
| `ExportsAreAccountedFor` | an export's row, object and audit rows agree on how it ended |
| `ExportsShowReviewedMarks` | a file shows a ready result and a reviewer's mark for every item |
| `ResultsAddUpReviewedMarks` | a result adds up one reviewed mark for every item, within the sum of the maxima |
| `ExportsExplainTheirTotals` | a file's marks are those its total was computed from, unless a decision was late |
| `ReportsTellOneStory` | class and student report, summary and export gate agree on a sheet |
| `LifecycleIsTyped` | every row and request of the composition keeps its type |
| `AuthIsTyped` | accounts, sessions and calls keep their types |
| `AuthChains` | a successor belongs to a rotated session of the same login |
| `AuthOneLive` | one usable token per login, unless one was rotated twice |
| `AuthRevokedForGood` | a login revoked while no refresh of it runs stays revoked |
| `AuthLockout` | logins in turn judge at most `MaxAttempts` wrong passwords |
| `ClientsUseSessions` | the clients take only steps of AuthSessions |
| `ReusesAreExplained` | a client trips reuse detection only after a named fault |
| `StoredPairsAreCurrent` | outside a rotation the stored pair is the newest of its login, but for those faults |
| `SignOutsAreFinal` | an answered sign-out ended its login and emptied the store |
| `QueueIsTyped` | lists, tasks and server rows of the app keep their types |
| `HistoriesAreTrue` | what is listed as captured is completed on the server, with its owner's picture |
| `ImagesAreKept` | a picture is deleted only when its attempt is stored |
| `NoCaptureGetsLost` | while the screens take turns, an accepted picture is queued or listed |
| `PublicationIsTyped` | versions, captures and requests keep their types |
| `DraftsAreNumbered` | versions are numbered 1, 2, 3, ... |
| `PublishedPapersHaveSchemes` | a published paper has a published scheme |
| `CapturesStandOnPairs` | a capture uses a published paper and scheme that name each other |
| `VersionsArePublishedOnce` | the audit log tells one publication of a version at most |
| `PublishedVersionsAreFinal` | no step changes a published version |
| `AcceptedSchemeIsComplete` | what the validator and the indexes let through marks each question without parts and each part by one item and nothing else, adding up to the maximum: drafts of any length |
| `MigratedSchemeMarksOnce` | after the migration such a scheme marks each question once, adding up to the maximum |
| `AcceptedSchemesCanBeMarked` | the first of these, of everything that is submitted for a version of a paper |
| `CapturesCanBeMarked` | what is captured stands on a pair whose scheme marks each question of its paper once, as a whole or by its parts, up to the maximum |
| `CatalogIsTyped` | rows, edits and histories keep their types |
| `HistoriesAreGapless` | each record's history is a chain from its creation to what it holds |
| `RecordsHaveParents` | a record exists only below records that exist |
| `JobsAreTyped` | hashes, stream, consumer group and workers keep their types |
| `JobsAreEnqueuedOnce` | overlapping submissions add a job once, with one payload |
| `UnfinishedJobsHaveWork` | an unfinished job has a message or a worker, or was lost as named |

They assume only the named ASSUMEs of the modules: finite non-empty `Items`,
natural maxima, marks and bounds, NULL is not a value, drafts pass the DTO
(`IsDraft`), parents of a record are records. `ReportsTellOneStory` and
`ExportsExplainTheirTotals` keep the excuses of their properties, as the runs
do.

*`ReviewInv`* (VerificationProofs) is inductive: types, `LoadedIsChecked` (a
loaded review is within the maximum; a loaded submit or approve has seen every
item selected), completeness, selection and verdicts. `LoadedIsChecked` is what
the commit needs: the check was made on an earlier state, and it survives
because selections are replaced and never removed. That is why submit and
approve are safe although they commit what they read earlier.

*`AuditInv`* adds the log: it grows by one row per
commit (`LogGrew`), the count of decision rows grows with it, and the rows about
an item change only when that item is decided; in addition it relates a started
approval to the submission row that must already be in the log.

In *ExtractionProofs* a step reads or writes (`StepsReadOrWrite`); reads keep
every table, and no step moves another request (`OthersStay`), so each invariant
is disturbed by five commits at most. `ReviewableSheetHasSession` and
`ProcessingHasHandler` are inductive beside the types. `ImageInv` adds that the
status leaves PENDING_UPLOAD only together with the file's completion, and that
the requests behind that check rely on it. `FallbackInv` adds that a fallback
carries the empty batch, and that whoever is about to record it is alone and has
just filled the sheet. `SettledReviewStays` speaks of all that follows a state,
so it is proved with an invariant of what follows (`Calm`): the rows are there,
the file is COMPLETED, and every request is at a place from which it only looks
and goes (`Harmless`). The refinement needs only types: the unique index makes
the rows' commit the one abstract step, and everything else stutters.

*LifecycleProofs* works on the composition, where a step of one component is
known by what it leaves alone. `LedgerInv` is consecutive versions, no repeated
input, COMPLETED only with a ready result, and `TrueWork`: a version that a
request has derived is still the next one, or the unique index will refuse it.
With it every commit of a result is an entry of the ledger. `ExportInv` says
per export which of its rows may exist in each phase. `MarksInv` holds what
outlives a read: once rows exist, no step takes back a selection or rewrites a
value (`MarksGrow`), and before that no decision is in flight; so a mark that
an export or a calculation picked earlier is still a reviewer's mark when it is
written (`FilesInv`, `GradesInv`, `ResultsInv`).

Three more invariants of the composition rest on that. `StoryInv` is what the
reports need and no handler checks: only an approval starts a calculation, so a
sheet with a result is approved, and unless a submission, an approval or a
completion came late its status is the one its newest result gave it. Every step
is known by what it writes to the audit log (`Tells`, `TellsNone`), which is how
the excuse is kept in step with the tables. `ExplainedInv`: while no decision is
late, nothing is decided after the approval, so what any calculation computed
and any export picked is what is selected now, whichever of them read first.
`LifecycleIsTyped` would follow from the components' types but for the grand
total, which is a natural number only because what is added up is a mark of a
reviewer for every item; it therefore needs `MarksInv`.

In *AuthProofs* rotation only appends: a successor is a larger number of the
same family, and a row once rotated or revoked stays so (`AuthChains`). A live
row without a second successor of its predecessor is therefore the last of its
chain. Lockout needs the value of the counter each login has read, which only
overlapping logins can make old. About the clients, `ClientInv` says that either
something `excused` has happened or the client is `Calm`: one rotation at a time
and none beside a sign-out (`InTurn`), the stored pair the newest of its login
(`StoreIsNewest`), and for each request that the session it rotates is not used
yet, that an answered rotation is the only newer pair, and that nobody else
knows the pair of a sign-in under way (`Good`).

*CaptureQueueProofs*: the server takes nothing back (`ServerGrows`), so what a
task learned from an answer stays true across every `await`. `QueueInv` says
what a task knows when it is about to act on it (`Sane`): the session it uploads
to is its own, and what it lists or gives up is stored. That holds however the
screens overlap. The lists themselves survive only when the screens take turns:
`TurnInv` says that the list a task is about to write back is still the stored
one, and that a capture leaves the queue when its attempt is in the history.

*AdministrationProofs* covers both services. Versions are only added and drafts
only published (`Grows`). What a request remembers is then either still true or
refused by an index or a trigger (`TasksAreTrue`), and the audit log is as true
as the tables (`LogIsTrue`). `SchemesFit` adds that every stored scheme, and
every draft between its check and its commit, was accepted for its paper
version, whose questions never change. Why an accepted scheme is complete is a
proof about the validator and the indexes together. The validator looks at the
roots and at their children, question by question, and at nothing below. Each
question has one root; what is marked of it is either that root or its children
(`MarkedOf`), whose marks add up to the root's; and adding up root by root
(`MarksAddUp`) gives the maximum. That nothing else is there to be marked is the
work of the indexes: a further item of the question would have no part, as the
root has none, or a part that already has its child (`ItemsOfQuestion`). The
same lemma shows that the migration, which marks all items without a part and no
other, marks exactly the roots (`TotalsMarkTheRoots`).

In the catalog every write advances `updated_at`, so a remembered row with the
same one is the row (`TrueEdit`); the conditional update makes the before-image
right, and a history is a chain.

*SumProofs* holds lemmas only. Marks are added up with `MapThenSumSet` and
`FoldFunction`, which choose their next element in an unknown order. The module
proves induction over a set of numbers, and with it over the subsets of a finite
set (`SetInduction`), as statements about sets instead of predicates; from
these, that the sum exists, is natural, does not depend on the order
(`TotalsAgree`), and adds up over disjoint parts and grows with its terms
(`TotalUnion`, `TotalsGrow`). A lemma beside each use (`MarksAreTotals`,
`GrandTotalIsTotal`) connects the fold with the sum.

*AiJobQueueProofs* has two invariants. `JobInv`: messages and hashes belong to
each other one to one, and what is pending or worked on was delivered.
`WorkInv`: only a slow worker is ever overtaken, so without one a worker is
alone with a message that stays pending (`IdleInv`, `SharedInv`, `HeldInv`),
which covers its crash; and `AckInv`: whoever acknowledges leaves a finished
job, or one that another worker has set back to PROCESSING and still holds,
which covers acknowledgements that take a message from somebody else.

Every invariant and action property of the passing runs is stated by one of
these theorems. Only model-checked is liveness, that is `UploadIsExtracted`,
`CaptureIsDeliveredUnlessBlocked` and `JobIsFinished`: fairness and ENABLED are
outside the prover's reach. Nothing is claimed about what `calculateMarks`
answers for a missing or an impossible mark: the composition never calculates
with one, which `ResultsAreReviewed` says.

## 5. What the runs found

1. **Completion is not idempotent** (`extraction_overlap`). Two overlapping
   completions both pass the PENDING query; the later update by id sets a sheet
   that is already under review back to UPLOADED, and `processUploaded` returns
   at once because the rows exist. `docs/queue-processing-requirements.md:18`
   and `uploads.service.ts:246-266`.
2. **An export can show marks nobody approved** (`lifecycle_export`). A review
   checked while the session was OPEN commits after approval and calculation.
   `docs/api/README.md:56`. The lock version is compared in a read, not in the
   update, although `docs/security/README.md:27` says that it rejects stale
   submissions.
3. **A lost answer blocks a capture** (`queue_answer_lost`). After a completion
   that took effect unseen, `create` answers the same `clientRequestId` with 410
   on every retry. The same 410 answers a retry after a failure behind the
   committed completion, which leaves the sheet UPLOADED. A second picture of
   the attempt does the same to the first one when it completes the first one's
   session. `docs/queue-processing-requirements.md:10-11`.
4. **A refresh token is rotated more than once** (`sessions_rotation`).
   `refresh` reads the row without a lock and updates it by id; the web client's
   parallel requests each send the same token. `docs/api/README.md:8` calls the
   rotation one-time.

The excuses in the passing runs, and the definitions themselves, point at more,
which have no run:

* A crash after PROCESSING is committed strands the sheet; no later completion
  picks it up (`Stranding`). A sheet that stays UPLOADED, because the request
  behind the completion failed at its claim or crashed before it, or that is
  given back as UPLOADED, because fallback rows failed too, is not extracted
  again unless another request for it happens to arrive (`Abandoned`).
* A decision or an approval that commits after the calculation leaves a sheet
  VERIFIED whose newest result is ready, or a session SUBMITTED behind a
  finished sheet (`LateReviewStep`); a repeated calculation answers with the
  latest row and does not restore the status.
* `enqueue` and `remove` of the capture queue read the list, wait, and write all
  of it, so overlapping screens lose an entry or revive one whose image is gone
  (`InTurn`, `Blocked`).
* An expired session blocks its attempt (`Blocked`): `create` answers 410 to the
  owner, and the unique key directs every other picture of the attempt to the
  same expired sheet. `complete` writes EXPIRED in the transaction that its own
  exception rolls back (`uploads.service.ts:226`).
* The worker acknowledges in a `finally` block, also when the write of COMPLETED
  or FAILED has just failed; a late second worker overwrites COMPLETED with
  PROCESSING (`worker.py:69`), and if it crashes then, the job stays there
  (`Losing`). The trimming of the stream (`jobs.py:63`) can drop entries that
  were never delivered.
* Any failure of a mobile refresh, a lost connection included, signs the user
  out (`api_client.dart:64`).
* The catch block of an export sets FAILED also over a COMPLETED that was
  committed and whose answer was lost; a crash leaves it PROCESSING for ever.
* Papers drafted and published through the API are never bound to a scheme:
  only the seed writes `markingSchemeVersionId` (`seed.ts:569-578`), so captures
  work for seeded papers only. `docs/architecture/marking-scheme.md:5` says that
  a paper version selects exactly one.
* The report on a CSV file can call rows valid that `create` then refuses: it
  hands `dateOfBirth` to Prisma as the string it is, and converts `startsOn` and
  `endsOn` only (`catalog.service.ts:219-231`).
* The catalog compares `updated_at` in milliseconds. A row whose value came from
  the SQL default (microseconds, migration `20260813190000`) never matches what
  a client sends. And a new record may stand below an inactive parent: existence
  is asked for, status is not.

## 6. Not modelled

* *Tenancy filters and permissions*, except those of the verification
  controller: properties of queries and of the guard's table, not of steps.
* *Uploads*: checks of the capture context beyond the published pair, and the
  signing of URLs.
* *Exports and reports*: scopes of several sheets, formats and PDF, filters,
  paging, the navigation tree and averages. A second sheet would share no row
  with the first. *Calculations*: group totals and the percentage, on which no
  decision depends.
* *Question papers and schemes*: codes, image templates, creation of the paper
  and of the scheme itself (one insert behind one unique index), lists,
  previews, groups and confidence thresholds.
* *Catalog*: lists, and the report on a CSV file, which stores nothing.
* *Migrations*, except for what one made of the seeded scheme. None runs while
  sheets are in work: the instances begin on the migrated database.
* *Authentication*: roles, account profile and audit rows.
* *AI service*: image processing and numeric inference, which change no shared
  state; the extraction treats the answer as any the contract allows. The cap of
  the stream and the lifetime of job hashes are limits far beyond an instance.
* *Web pages* are display code; only `apiRequest` is modelled. *Seed data,
  deployment and provisioning* have no behaviour of their own.
