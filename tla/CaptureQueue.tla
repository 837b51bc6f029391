---------------------------- MODULE CaptureQueue ----------------------------
(***************************************************************************)
(* The app's way from a picture to a stored mark sheet: OfflineCaptureQueue *)
(* (two lists in the platform's storage and a directory of images), the    *)
(* capture screen that queues and uploads one picture, and the dashboard   *)
(* that uploads what is queued.                                            *)
(*                                                                         *)
(* Dart runs one task at a time but switches at every await.  A list is    *)
(* changed by reading all of it, waiting, and writing all of it back, so a *)
(* task is modelled as one step per storage access and per call.  The      *)
(* lists are modelled as sets: their order is layout.                      *)
(***************************************************************************)
EXTENDS UploadSessions

CONSTANTS
  FaultKinds,     \* which failures happen
  MaxFaults       \* bound on the number of failures in a behaviour

\* overlap: a capture and the dashboard's loop run at the same time.
AllFaults == {"offline", "request", "answer", "kill", "expiry", "overlap"}

ASSUME FaultsAssumption == FaultKinds \subseteq AllFaults /\ MaxFaults \in Nat

VARIABLES
  taken,    \* captures that the app has accepted: enqueue returned
  queue,    \* ai_marks_capture_queue
  history,  \* ai_marks_capture_history, by the capture that was uploaded
  images,   \* captures whose image is in the capture-queue directory
  task,     \* what the capture screen and the dashboard are doing
  faults    \* how many failures happened so far, and of which kinds

storage == <<taken, queue, history, images>>
queueVars == <<serverVars, storage, task, faults>>

Screens == {"camera", "dashboard"}
TaskPhases == {"idle", "copy", "enqueue", "online", "next", "load", "create",
               "put", "complete", "readHistory", "writeHistory", "readQueue",
               "writeQueue", "delete"}
\* seen is the list that was read last; todo is what the loop has left.
Task == [phase : TaskPhases, capture : Captures \cup {None},
         seen : SUBSET Captures, todo : SUBSET Captures]
NoTask == [phase |-> "idle", capture |-> None, seen |-> {}, todo |-> {}]

QueueTypeOK ==
  /\ ServerTypeOK
  /\ taken \subseteq Captures /\ queue \subseteq Captures
  /\ history \subseteq Captures /\ images \subseteq Captures
  /\ task \in [Screens -> Task]
  /\ faults \in [count : 0..MaxFaults, kinds : SUBSET FaultKinds]

QueueInit ==
  /\ ServerInit
  /\ taken = {} /\ queue = {} /\ history = {} /\ images = {}
  /\ task = [t \in Screens |-> NoTask]
  /\ faults = [count |-> 0, kinds |-> {}]

Goto(t, phase) == task' = [task EXCEPT ![t].phase = phase]
See(t, list, phase) ==
  task' = [task EXCEPT ![t].seen = list, ![t].phase = phase]

\* Mutant: the camera never gets back.
DoneStaying(t) == Goto(t, IF t = "camera" THEN "uploaded" ELSE "next")

\* The camera returns to its caller, the loop goes on with its next entry.
Done(t) ==
  task' = [task EXCEPT ![t] = IF t = "camera" THEN NoTask
                              ELSE [NoTask EXCEPT !.phase = "next",
                                              !.todo = task[t].todo]]

Fault(kind) ==
  /\ kind \in FaultKinds
  /\ faults.count < MaxFaults
  /\ faults' = [count |-> faults.count + 1, kinds |-> faults.kinds \cup {kind}]

MayStart(t) ==
  /\ task[t].phase = "idle"
  /\ \/ (\A u \in Screens : task[u].phase = "idle") /\ UNCHANGED faults
     \/ (\E u \in Screens : task[u].phase # "idle") /\ Fault("overlap")

----------------------------------------------------------------------------
(* enqueue: read the list, copy the image, write the list.                 *)

StartCapture(c) ==
  /\ MayStart("camera")
  /\ c \notin taken
  /\ task' = [task EXCEPT !["camera"] = [phase |-> "copy", capture |-> c,
                                         seen |-> queue, todo |-> {}]]
  /\ UNCHANGED <<serverVars, storage>>

CopyImage ==
  /\ task["camera"].phase = "copy"
  /\ images' = images \cup {task["camera"].capture}
  /\ Goto("camera", "enqueue")
  /\ UNCHANGED <<serverVars, taken, queue, history, faults>>

WriteEntry ==
  LET c == task["camera"].capture
  IN  /\ task["camera"].phase = "enqueue"
      /\ queue' = task["camera"].seen \cup {c}
      /\ taken' = taken \cup {c}
      /\ Goto("camera", "online")
      /\ UNCHANGED <<serverVars, history, images, faults>>

----------------------------------------------------------------------------
(* The dashboard's loop: one at a time, over all entries or a tapped one.  *)

StartLoop(entries) ==
  /\ MayStart("dashboard")
  /\ entries # {}
  /\ task' = [task EXCEPT !["dashboard"] = [phase |-> "online", capture |-> None,
                                            seen |-> {}, todo |-> entries]]
  /\ UNCHANGED <<serverVars, storage>>

UploadPending == StartLoop(queue)
UploadTapped == \E c \in queue : StartLoop({c})

NextEntry ==
  /\ task["dashboard"].phase = "next"
  /\ \E c \in task["dashboard"].todo :
       task' = [task EXCEPT !["dashboard"].phase = "load",
                            !["dashboard"].capture = c,
                            !["dashboard"].todo = @ \ {c}]
  /\ UNCHANGED <<serverVars, storage, faults>>

FinishLoop ==
  /\ task["dashboard"].phase = "next"
  /\ task["dashboard"].todo = {}
  /\ task' = [task EXCEPT !["dashboard"] = NoTask]
  /\ UNCHANGED <<serverVars, storage, faults>>

GoOnline(t) ==
  /\ task[t].phase = "online"
  /\ Goto(t, IF t = "camera" THEN "load" ELSE "next")
  /\ UNCHANGED <<serverVars, storage, faults>>

----------------------------------------------------------------------------
(* UploadRepository.upload of the task's capture.                          *)

\* Mutants: a failed entry, or its image, is thrown away.
FailedForgetting(t) ==
  Done(t) /\ queue' = queue \ {task[t].capture} /\ UNCHANGED <<taken, history, images>>
FailedDiscarding(t) ==
  Done(t) /\ images' = images \ {task[t].capture} /\ UNCHANGED <<taken, queue, history>>

\* The catch blocks keep the entry for the next retry.
Failed(t) == Done(t) /\ UNCHANGED storage

LoadImage(t) ==
  /\ task[t].phase = "load"
  /\ \/ task[t].capture \in images /\ Goto(t, "create") /\ UNCHANGED storage
     \/ task[t].capture \notin images /\ Failed(t)
  /\ UNCHANGED <<serverVars, faults>>

\* The answer of a call arrives and leads on, or the call has failed for the
\* device although it took effect.
Answered(t, phase) ==
  \/ Goto(t, phase) /\ UNCHANGED <<storage, faults>>
  \/ Fault("answer") /\ Failed(t)

\* Mutant: a sheet that was captured before needs no completion.
AfterCreateUnconfirmed(answer) ==
  IF answer = "upload" THEN "put" ELSE "readHistory"

AfterCreate(answer) == IF answer = "upload" THEN "put" ELSE "complete"

CreateSession(t) ==
  /\ task[t].phase = "create"
  /\ \/ \E answer \in {"upload", "alreadyCaptured"} :
          Create(task[t].capture, answer) /\ Answered(t, AfterCreate(answer))
     \/ Create(task[t].capture, "gone") /\ Failed(t) /\ UNCHANGED faults

\* A URL that was signed once more outlives its session; one that was not
\* is refused.
PutImage(t) ==
  /\ task[t].phase = "put"
  /\ \/ Put(task[t].capture) /\ Answered(t, "complete")
     \/ /\ sheets[attemptOf[task[t].capture]].expired
        /\ Failed(t) /\ UNCHANGED <<serverVars, faults>>

CompleteUpload(t) ==
  LET a == attemptOf[task[t].capture]
  IN  /\ task[t].phase = "complete"
      /\ \/ Complete(a, "completed") /\ Answered(t, "readHistory")
         \/ Complete(a, "refused") /\ Failed(t) /\ UNCHANGED faults

----------------------------------------------------------------------------
(* After the upload: recordUploaded, remove, and the image is deleted.     *)

ReadHistory(t) ==
  /\ task[t].phase = "readHistory"
  /\ See(t, history, "writeHistory")
  /\ UNCHANGED <<serverVars, storage, faults>>

\* One item per sheet: an older one about it gives way.
WriteHistory(t) ==
  LET c == task[t].capture
  IN  /\ task[t].phase = "writeHistory"
      /\ history' = {h \in task[t].seen : attemptOf[h] # attemptOf[c]} \cup {c}
      /\ Goto(t, "readQueue")
      /\ UNCHANGED <<serverVars, taken, queue, images, faults>>

ReadQueue(t) ==
  /\ task[t].phase = "readQueue"
  /\ See(t, queue, "writeQueue")
  /\ UNCHANGED <<serverVars, storage, faults>>

WriteQueue(t) ==
  /\ task[t].phase = "writeQueue"
  /\ queue' = task[t].seen \ {task[t].capture}
  /\ Goto(t, "delete")
  /\ UNCHANGED <<serverVars, taken, history, images, faults>>

DeleteImage(t) ==
  /\ task[t].phase = "delete"
  /\ images' = images \ {task[t].capture}
  /\ Done(t)
  /\ UNCHANGED <<serverVars, taken, queue, history, faults>>

----------------------------------------------------------------------------
(* Failures.                                                               *)

Offline(t) ==
  /\ Fault("offline")
  /\ task[t].phase = "online"
  /\ task' = [task EXCEPT ![t] = NoTask]
  /\ UNCHANGED <<serverVars, storage>>

\* The call does not arrive, or the backend fails before it has an effect.
RequestFails(t) ==
  /\ Fault("request")
  /\ task[t].phase \in {"create", "put", "complete"}
  /\ Failed(t)
  /\ UNCHANGED serverVars

\* The system ends the app.
Kill ==
  /\ Fault("kill")
  /\ \E t \in Screens : task[t].phase # "idle"
  /\ task' = [t \in Screens |-> NoTask]
  /\ UNCHANGED <<serverVars, storage>>

Expire(a) ==
  /\ Fault("expiry")
  /\ SessionExpires(a)
  /\ UNCHANGED <<storage, task>>

----------------------------------------------------------------------------
EnqueueStep == CopyImage \/ WriteEntry
LoopStep == NextEntry \/ FinishLoop
UploadStep(t) ==
  \/ GoOnline(t) \/ LoadImage(t) \/ CreateSession(t) \/ PutImage(t)
  \/ CompleteUpload(t) \/ ReadHistory(t) \/ WriteHistory(t)
  \/ ReadQueue(t) \/ WriteQueue(t) \/ DeleteImage(t)

QueueNext ==
  \/ \E c \in Captures : StartCapture(c)
  \/ EnqueueStep \/ UploadPending \/ UploadTapped \/ LoopStep
  \/ \E t \in Screens : UploadStep(t) \/ Offline(t) \/ RequestFails(t)
  \/ Kill
  \/ \E a \in Attempts : Expire(a)

QueueSpec == QueueInit /\ [][QueueNext]_queueVars

\* A task runs on, and the whole queue is tried again and again: whenever
\* the app resumes, the network returns, or the user taps.
QueueFairSpec ==
  /\ QueueSpec
  /\ WF_queueVars(EnqueueStep) /\ WF_queueVars(LoopStep)
  /\ \A t \in Screens : WF_queueVars(UploadStep(t))
  /\ SF_queueVars(UploadPending)

----------------------------------------------------------------------------
(* Properties.                                                             *)

\* What the app lists as captured is on the server: its sheet is completed,
\* with the image of the capture that opened the session.
HistoryIsTrue ==
  \A c \in history :
    LET a == attemptOf[c]
    IN  sheets[a].file = "COMPLETED" /\ objects[a] = sheets[a].owner

\* However the two screens interleave, the device gives up a picture only
\* when the server has one of the same attempt.
ImageIsKeptUntilStored ==
  \A c \in taken \ images : sheets[attemptOf[c]].file = "COMPLETED"

\* Every accepted capture is listed, as queued or as captured.
NoCaptureIsLost ==
  \A c \in taken : c \in queue \/ \E h \in history : attemptOf[h] = attemptOf[c]

\* It is, whatever fails and wherever the app is killed, as long as the two
\* screens have used the lists in turn.
InTurn == "overlap" \notin faults.kinds
NoCaptureIsLostInTurn == InTurn => NoCaptureIsLost

\* A capture does not stay queued for ever.
CaptureIsDelivered == \A c \in Captures : c \in queue ~> c \notin queue

\* The only obstacles are what makes the backend answer 410: a lost answer, a
\* kill before the answer, an expired session, and another picture of the
\* attempt that completed the session first; and an overlap, which may put a
\* removed entry back into the list.
Blocked(c) ==
  \/ {"answer", "kill", "expiry", "overlap"} \cap faults.kinds # {}
  \/ \E d \in taken \ {c} : attemptOf[d] = attemptOf[c]
CaptureIsDeliveredUnlessBlocked ==
  \A c \in Captures : c \in queue ~> c \notin queue \/ Blocked(c)
============================================================================
