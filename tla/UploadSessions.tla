--------------------------- MODULE UploadSessions ---------------------------
(***************************************************************************)
(* The backend as a capturing device sees it: POST upload-sessions         *)
(* (UploadsService.create), PUT of the image to the signed URL, and POST   *)
(* upload-complete, each as the effect it has and the answer it gives.     *)
(* What overlapping completions do inside the backend is the subject of    *)
(* Extraction; here a completion is one step.                              *)
(*                                                                         *)
(* A capture stands for its image and for the clientRequestId that the     *)
(* device gave it.  A sheet is identified by the attempt it documents:     *)
(* student, offering, paper version and attempt number are unique.         *)
(***************************************************************************)
EXTENDS Naturals, FiniteSets

CONSTANTS
  Captures,   \* pictures that may be taken
  Attempts,   \* examination attempts they may document
  attemptOf,  \* the attempt that each capture documents
  None        \* no sheet, no object, no capture

ASSUME AttemptsAssumption == attemptOf \in [Captures -> Attempts]
ASSUME NoneAssumption == None \notin Captures

VARIABLES
  sheets,  \* each attempt's mark_sheets row with its file_objects row
  objects  \* the image under each attempt's object key

serverVars == <<sheets, objects>>

\* expired: uploadExpiresAt has passed.  complete also writes the status
\* EXPIRED, but in the transaction that its GoneException rolls back.
Sheet == [owner : Captures, file : {"PENDING", "COMPLETED"}, expired : BOOLEAN]
NoSheet == [owner |-> None, file |-> "PENDING", expired |-> FALSE]

ServerTypeOK ==
  /\ sheets \in [Attempts -> Sheet \cup {NoSheet}]
  /\ objects \in [Attempts -> Captures \cup {None}]

ServerInit ==
  /\ sheets = [a \in Attempts |-> NoSheet]
  /\ objects = [a \in Attempts |-> None]

----------------------------------------------------------------------------
(* create: a new session, the same one again, or no session.               *)

NewSession(c) ==
  /\ sheets[attemptOf[c]] = NoSheet
  /\ sheets' = [sheets EXCEPT ![attemptOf[c]] =
                  [owner |-> c, file |-> "PENDING", expired |-> FALSE]]
  /\ UNCHANGED objects

\* Mutant: a session is good for one answer.
ReusableNever(sheet) == FALSE

Reusable(sheet) == sheet.file = "PENDING" /\ ~sheet.expired

Create(c, answer) ==
  LET sheet == sheets[attemptOf[c]]
  IN  \/ answer = "upload" /\ NewSession(c)
      \/ /\ answer = "upload"
         /\ sheet.owner = c /\ Reusable(sheet)
         /\ UNCHANGED serverVars
      \/ /\ answer = "gone"
         /\ sheet.owner = c /\ ~Reusable(sheet)
         /\ UNCHANGED serverVars
      \/ /\ answer = "alreadyCaptured"
         /\ sheet # NoSheet /\ sheet.owner # c
         /\ UNCHANGED serverVars

\* The URL is signed for the object key of the sheet.
Put(c) ==
  /\ objects' = [objects EXCEPT ![attemptOf[c]] = c]
  /\ UNCHANGED sheets

----------------------------------------------------------------------------
(* upload-complete of an attempt's sheet.                                  *)

\* The object is there, with the checksum that create was given.
Verified(a) ==
  /\ sheets[a].file = "PENDING" /\ ~sheets[a].expired
  /\ objects[a] = sheets[a].owner

Complete(a, answer) ==
  \/ /\ answer = "completed" /\ Verified(a)
     /\ sheets' = [sheets EXCEPT ![a].file = "COMPLETED"]
     /\ UNCHANGED objects
  \/ /\ answer = "completed" /\ sheets[a].file = "COMPLETED"
     /\ UNCHANGED serverVars
  \/ /\ answer = "refused" /\ sheets[a].file = "PENDING" /\ ~Verified(a)
     /\ UNCHANGED serverVars

\* Fifteen minutes pass, by default.
SessionExpires(a) ==
  /\ sheets[a] # NoSheet /\ Reusable(sheets[a])
  /\ sheets' = [sheets EXCEPT ![a].expired = TRUE]
  /\ UNCHANGED objects
============================================================================
