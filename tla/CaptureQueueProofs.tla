--------------------------- MODULE CaptureQueueProofs ---------------------------
(***************************************************************************)
(* Proofs about CaptureQueue for any pictures of any attempts, any number  *)
(* of failures and of uploads tried again: what the device lists, keeps    *)
(* and gives up, whatever the interleaving of its two screens.             *)
(***************************************************************************)
EXTENDS CaptureQueue, TLAPS

USE DEF serverVars, storage, queueVars

----------------------------------------------------------------------------
(* What a step makes of the tasks.                                         *)

OthersStay(t) == \A u \in Screens \ {t} : task'[u] = task[u]

\* The task goes on with its capture, and perhaps with a list it has read.
Goes(t, phase, list) ==
  /\ task' \in [Screens -> Task] /\ OthersStay(t)
  /\ task'[t].phase = phase /\ task'[t].seen = list
  /\ task'[t].capture = task[t].capture

\* The task is done with its capture.
Rests(t) ==
  /\ task' \in [Screens -> Task] /\ OthersStay(t)
  /\ task'[t].phase = IF t = "camera" THEN "idle" ELSE "next"

LEMMA TaskMoves ==
  ASSUME QueueTypeOK, NEW t \in Screens
  PROVE  /\ \A phase \in TaskPhases : Goto(t, phase) => Goes(t, phase, task[t].seen)
         /\ \A phase \in TaskPhases, list \in SUBSET Captures :
              See(t, list, phase) => Goes(t, phase, list)
         /\ Done(t) => Rests(t)
         /\ Failed(t) => Rests(t) /\ UNCHANGED storage
<1>1. task \in [Screens -> Task] /\ task[t] \in Task
  BY DEF QueueTypeOK
<1>2. ASSUME NEW phase \in TaskPhases, Goto(t, phase) PROVE Goes(t, phase, task[t].seen)
  BY <1>1, <1>2 DEF Goto, Goes, OthersStay, Task
<1>3. ASSUME NEW phase \in TaskPhases, NEW list \in SUBSET Captures, See(t, list, phase)
      PROVE  Goes(t, phase, list)
  BY <1>1, <1>3 DEF See, Goes, OthersStay, Task
<1>4. ASSUME Done(t) PROVE Rests(t)
  <2> DEFINE r == IF t = "camera" THEN NoTask
                  ELSE [NoTask EXCEPT !.phase = "next", !.todo = task[t].todo]
  <2>1. task' = [task EXCEPT ![t] = r]
    BY <1>4 DEF Done
  <2>2. r \in Task /\ r.phase = IF t = "camera" THEN "idle" ELSE "next"
    BY <1>1 DEF NoTask, Task, TaskPhases
  <2> HIDE DEF r
  <2> QED BY <1>1, <2>1, <2>2 DEF Rests, OthersStay
<1> QED
  BY <1>2, <1>3, <1>4 DEF Failed

----------------------------------------------------------------------------
(* The invariant.                                                          *)

Opened(a) == sheets[a] # NoSheet
Stored(a) == sheets[a].file = "COMPLETED"
Storing == {"readHistory", "writeHistory", "readQueue", "writeQueue", "delete"}

\* A task without a capture.
Resting(t) ==
  task[t].phase \in {"idle", "next"} \/ (t = "dashboard" /\ task[t].phase = "online")

\* What a task knows when it is about to act on it: the session it uploads to
\* is its own, and what it lists, or gives up, is stored.
Sane(t) ==
  LET p == task[t].phase
      c == task[t].capture
  IN  /\ Resting(t) \/ c \in Captures
      /\ p \in {"put", "complete"} => Opened(attemptOf[c])
      /\ p = "put" => sheets[attemptOf[c]].owner = c
      /\ p \in Storing => Stored(attemptOf[c])
      /\ p = "writeHistory" => \A h \in task[t].seen : Stored(attemptOf[h])
      /\ p = "enqueue" => c \in images \/ Stored(attemptOf[c])

ServerIsTrue ==
  \A a \in Attempts : Stored(a) => Opened(a) /\ objects[a] = sheets[a].owner
ListedIsStored == \A c \in history : Stored(attemptOf[c])

QueueInv == /\ QueueTypeOK /\ ServerIsTrue /\ ListedIsStored /\ ImageIsKeptUntilStored
            /\ \A t \in Screens : Sane(t)

\* Nothing that the server has is taken back.
ServerGrows ==
  /\ ServerTypeOK' /\ ServerIsTrue'
  /\ \A a \in Attempts : /\ Opened(a) => Opened(a)' /\ sheets'[a].owner = sheets[a].owner
                         /\ Stored(a) => Stored(a)'

LEMMA SheetFields ==
  /\ NoSheet.owner = None /\ NoSheet.file = "PENDING" /\ NoSheet \notin Sheet
  /\ \A s \in Sheet : s.owner \in Captures /\ s # NoSheet
BY NoneAssumption DEF NoSheet, Sheet

LEMMA AttemptOfCapture == ASSUME NEW c \in Captures PROVE attemptOf[c] \in Attempts
BY AttemptsAssumption

\* The server, whatever it is asked.
LEMMA UnchangedServer ==
  ASSUME ServerTypeOK, ServerIsTrue, UNCHANGED serverVars PROVE ServerGrows
BY DEF ServerTypeOK, ServerIsTrue, ServerGrows, Opened, Stored

LEMMA CreateGrows ==
  ASSUME ServerTypeOK, ServerIsTrue, NEW c \in Captures, NEW answer, Create(c, answer)
  PROVE  /\ ServerGrows
         /\ answer = "upload" => Opened(attemptOf[c])' /\ sheets'[attemptOf[c]].owner = c
         /\ answer = "alreadyCaptured" => Opened(attemptOf[c])'
<1>1. attemptOf[c] \in Attempts /\ sheets[attemptOf[c]] \in Sheet \cup {NoSheet}
  BY AttemptOfCapture DEF ServerTypeOK
<1>2. CASE answer = "upload" /\ NewSession(c)
  <2> DEFINE s == [owner |-> c, file |-> "PENDING", expired |-> FALSE]
  <2>1. /\ sheets[attemptOf[c]] = NoSheet /\ UNCHANGED objects
        /\ sheets' = [sheets EXCEPT ![attemptOf[c]] = s]
    BY <1>2 DEF NewSession
  <2>2. s \in Sheet /\ s.owner = c /\ s.file # "COMPLETED"
    BY DEF Sheet
  <2> HIDE DEF s
  <2> QED BY <1>1, <1>2, <2>1, <2>2, SheetFields DEF ServerTypeOK, ServerIsTrue,
      ServerGrows, Opened, Stored
<1>3. CASE UNCHANGED serverVars
  <2>1. ServerGrows
    BY <1>3, UnchangedServer
  <2>2. answer = "upload" /\ ~NewSession(c) => sheets[attemptOf[c]].owner = c
    BY DEF Create
  <2>3. sheets[attemptOf[c]].owner = c => Opened(attemptOf[c])
    BY NoneAssumption, SheetFields DEF Opened
  <2>4. answer = "alreadyCaptured" => Opened(attemptOf[c])
    BY DEF Create, Opened
  <2> QED BY <1>2, <1>3, <2>1, <2>2, <2>3, <2>4 DEF Opened
<1> QED
  BY <1>2, <1>3 DEF Create

LEMMA PutGrows ==
  ASSUME ServerTypeOK, ServerIsTrue, NEW c \in Captures, Put(c),
         sheets[attemptOf[c]].owner = c
  PROVE  ServerGrows
<1>1. attemptOf[c] \in Attempts
  BY AttemptOfCapture
<1> QED
  BY <1>1 DEF Put, ServerTypeOK, ServerIsTrue, ServerGrows, Opened, Stored

LEMMA CompleteGrows ==
  ASSUME ServerTypeOK, ServerIsTrue, NEW a \in Attempts, Opened(a), NEW answer,
         Complete(a, answer)
  PROVE  ServerGrows /\ (answer = "completed" => Stored(a)')
<1>1. CASE UNCHANGED serverVars
  <2>1. ServerGrows
    BY <1>1, UnchangedServer
  <2>2. answer = "completed" /\ ~Verified(a) => Stored(a)
    BY DEF Complete, Stored
  <2>3. answer = "completed" /\ Verified(a) => Stored(a)'
    <3>1. sheets[a] \in Sheet
      BY DEF Opened, ServerTypeOK
    <3> QED BY <3>1 DEF Complete, Verified, Stored, ServerTypeOK, Sheet
  <2> QED BY <1>1, <2>1, <2>2, <2>3 DEF Stored
<1>2. CASE answer = "completed" /\ Verified(a)
             /\ sheets' = [sheets EXCEPT ![a].file = "COMPLETED"] /\ UNCHANGED objects
  <2> DEFINE s == [sheets[a] EXCEPT !.file = "COMPLETED"]
  <2>1. sheets[a] \in Sheet
    BY DEF Opened, ServerTypeOK
  <2>2. s \in Sheet /\ s.owner = sheets[a].owner /\ s.file = "COMPLETED"
    BY <2>1 DEF Sheet
  <2>3. sheets' = [sheets EXCEPT ![a] = s]
    BY <1>2
  <2> HIDE DEF s
  <2> QED BY <1>2, <2>1, <2>2, <2>3, SheetFields DEF ServerTypeOK, ServerIsTrue,
      ServerGrows, Opened, Stored, Verified
<1> QED
  BY <1>1, <1>2 DEF Complete

LEMMA ExpireGrows ==
  ASSUME ServerTypeOK, ServerIsTrue, NEW a \in Attempts, SessionExpires(a)
  PROVE  ServerGrows
<1> DEFINE s == [sheets[a] EXCEPT !.expired = TRUE]
<1>1. sheets[a] \in Sheet
  BY DEF SessionExpires, ServerTypeOK
<1>2. s \in Sheet /\ s.owner = sheets[a].owner /\ s.file = sheets[a].file
  BY <1>1 DEF Sheet
<1>3. sheets' = [sheets EXCEPT ![a] = s] /\ UNCHANGED objects
  BY DEF SessionExpires
<1> HIDE DEF s
<1> QED
  BY <1>1, <1>2, <1>3, SheetFields DEF ServerTypeOK, ServerIsTrue, ServerGrows, Opened, Stored

----------------------------------------------------------------------------
(* Every step keeps the invariant.                                         *)

\* Nothing a device relies on is taken back from it.
DeviceKeeps ==
  /\ taken' \subseteq Captures /\ queue' \subseteq Captures
  /\ history' \subseteq Captures /\ images' \subseteq Captures
  /\ \A c \in images : c \in images' \/ Stored(attemptOf[c])'
  /\ \A c \in taken' : c \in taken \/ c \in images' \/ Stored(attemptOf[c])'
  /\ \A c \in history' : Stored(attemptOf[c])'

\* A step that leaves all tasks but one alone, and that one sane.
LEMMA StepKeepsInv ==
  ASSUME QueueInv, NEW t \in Screens, ServerGrows, DeviceKeeps, OthersStay(t),
         task' \in [Screens -> Task], Sane(t)',
         faults' \in [count : 0..MaxFaults, kinds : SUBSET FaultKinds]
  PROVE  QueueInv'
<1>1. QueueTypeOK'
  BY DEF QueueTypeOK, DeviceKeeps, ServerGrows
<1>2. ListedIsStored' /\ ServerIsTrue'
  BY DEF DeviceKeeps, ServerGrows, ListedIsStored
<1>3. ASSUME NEW c \in Captures, Stored(attemptOf[c]) PROVE Stored(attemptOf[c])'
  BY <1>3, AttemptOfCapture DEF ServerGrows
<1>4. ImageIsKeptUntilStored'
  <2> SUFFICES ASSUME NEW c \in taken' \ images' PROVE Stored(attemptOf[c])'
    BY DEF ImageIsKeptUntilStored, Stored
  <2>1. c \in Captures
    BY DEF DeviceKeeps
  <2>2. CASE c \in taken \ images
    BY <1>3, <2>1, <2>2 DEF QueueInv, ImageIsKeptUntilStored, Stored
  <2>3. CASE c \notin taken \ images
    BY <2>3 DEF DeviceKeeps
  <2> QED BY <2>2, <2>3
<1>5. ASSUME NEW u \in Screens \ {t} PROVE Sane(u)'
  <2>1. Sane(u) /\ task'[u] = task[u] /\ task[u] \in Task
    BY DEF QueueInv, QueueTypeOK, OthersStay
  <2>2. Resting(u)' <=> Resting(u)
    BY <2>1 DEF Resting
  <2>3. CASE Resting(u)
    BY <2>1, <2>2, <2>3 DEF Sane, Resting, Storing
  <2>4. CASE ~Resting(u)
    <3> PICK c : c = task[u].capture
      OBVIOUS
    <3>1. c \in Captures /\ attemptOf[c] \in Attempts
      BY <2>1, <2>4, AttemptOfCapture DEF Sane
    <3>2. /\ Opened(attemptOf[c]) => Opened(attemptOf[c])'
          /\ sheets[attemptOf[c]].owner = c /\ Opened(attemptOf[c]) =>
               sheets'[attemptOf[c]].owner = c
          /\ Stored(attemptOf[c]) => Stored(attemptOf[c])'
          /\ c \in images => c \in images' \/ Stored(attemptOf[c])'
      BY <3>1 DEF ServerGrows, DeviceKeeps
    <3>3. \A h \in task[u].seen : Stored(attemptOf[h]) => Stored(attemptOf[h])'
      BY <1>3, <2>1 DEF Task
    <3> QED BY <2>1, <2>2, <2>4, <3>1, <3>2, <3>3 DEF Sane
  <2> QED BY <2>3, <2>4
<1> QED
  BY <1>1, <1>2, <1>4, <1>5 DEF QueueInv

\* The lists and images are left alone.
LEMMA DeviceStays ==
  ASSUME QueueInv, ServerGrows, UNCHANGED storage PROVE DeviceKeeps
<1>1. \A c \in history : Stored(attemptOf[c])'
  BY AttemptOfCapture DEF QueueInv, QueueTypeOK, ListedIsStored, ServerGrows
<1> QED
  BY <1>1 DEF DeviceKeeps, QueueInv, QueueTypeOK

LEMMA FaultTypes ==
  ASSUME QueueInv
  PROVE  /\ UNCHANGED faults => faults' \in [count : 0..MaxFaults, kinds : SUBSET FaultKinds]
         /\ \A kind : Fault(kind) => faults' \in [count : 0..MaxFaults, kinds : SUBSET FaultKinds]
BY FaultsAssumption DEF QueueInv, QueueTypeOK, Fault

\* A task that fails or finishes, and one that goes on as it may.
LEMMA RestKeepsInv ==
  ASSUME QueueInv, NEW t \in Screens, ServerGrows, DeviceKeeps, Rests(t),
         faults' \in [count : 0..MaxFaults, kinds : SUBSET FaultKinds]
  PROVE  QueueInv'
<1>1. Sane(t)'
  BY DEF Rests, Sane, Resting, Storing
<1> QED
  BY <1>1, StepKeepsInv DEF Rests

LEMMA GoKeepsInv ==
  ASSUME QueueInv, NEW t \in Screens, ServerGrows, DeviceKeeps,
         NEW phase, NEW list, Goes(t, phase, list),
         faults' \in [count : 0..MaxFaults, kinds : SUBSET FaultKinds],
         task[t].capture \in Captures \/ phase \in {"next"},
         phase \in {"put", "complete"} => Opened(attemptOf[task[t].capture])',
         phase = "put" => sheets'[attemptOf[task[t].capture]].owner = task[t].capture,
         phase \in Storing => Stored(attemptOf[task[t].capture])',
         phase = "writeHistory" => \A h \in list : Stored(attemptOf[h])',
         phase = "enqueue" => task[t].capture \in images'
  PROVE  QueueInv'
<1>1. Sane(t)'
  BY DEF Goes, Sane, Resting, Storing
<1> QED
  BY <1>1, StepKeepsInv DEF Goes

\* A task outside its rest has a capture, whose attempt is known.
LEMMA CaptureIsKnown ==
  ASSUME QueueInv, NEW t \in Screens, ~Resting(t)
  PROVE  task[t].capture \in Captures /\ attemptOf[task[t].capture] \in Attempts
BY AttemptOfCapture DEF QueueInv, Sane

LEMMA QueueInvInit == QueueInit => QueueInv
<1> SUFFICES ASSUME QueueInit PROVE QueueInv
  OBVIOUS
<1>1. \A a \in Attempts : sheets[a] = NoSheet /\ ~Stored(a)
  BY SheetFields DEF QueueInit, ServerInit, Stored
<1>2. NoTask \in Task /\ NoTask.phase = "idle"
  BY DEF NoTask, Task, TaskPhases
<1>3. QueueTypeOK
  BY <1>2, FaultsAssumption DEF QueueInit, ServerInit, QueueTypeOK, ServerTypeOK
<1>4. \A t \in Screens : Sane(t)
  BY <1>2 DEF QueueInit, Sane, Resting, Storing
<1> QED
  BY <1>1, <1>3, <1>4 DEF QueueInit, QueueInv, ServerIsTrue, ListedIsStored,
     ImageIsKeptUntilStored

----------------------------------------------------------------------------
LEMMA StartsKeepInv ==
  ASSUME QueueInv,
         (\E c \in Captures : StartCapture(c)) \/ UploadPending \/ UploadTapped
  PROVE  QueueInv'
<1>1. \A t \in Screens : MayStart(t) =>
        faults' \in [count : 0..MaxFaults, kinds : SUBSET FaultKinds]
  BY FaultTypes DEF MayStart
<1>2. task \in [Screens -> Task] /\ queue \subseteq Captures
  BY DEF QueueInv, QueueTypeOK
<1>3. ASSUME UNCHANGED serverVars, UNCHANGED storage PROVE ServerGrows /\ DeviceKeeps
  BY <1>3, UnchangedServer, DeviceStays DEF QueueInv, QueueTypeOK
<1>4. ASSUME NEW c \in Captures, StartCapture(c) PROVE QueueInv'
  <2> DEFINE r == [phase |-> "copy", capture |-> c, seen |-> queue, todo |-> {}]
  <2>1. task' = [task EXCEPT !["camera"] = r] /\ "camera" \in Screens
    BY <1>4 DEF StartCapture, Screens
  <2>2. r \in Task /\ r.phase = "copy" /\ r.capture = c
    BY <1>2 DEF Task, TaskPhases
  <2> HIDE DEF r
  <2>3. task' \in [Screens -> Task] /\ OthersStay("camera") /\ task'["camera"] = r
    BY <1>2, <2>1, <2>2 DEF OthersStay
  <2>4. Sane("camera")'
    BY <2>2, <2>3 DEF Sane, Resting, Storing
  <2> QED BY <1>1, <1>3, <1>4, <2>1, <2>3, <2>4, StepKeepsInv DEF StartCapture
<1>5. ASSUME NEW entries \in SUBSET Captures, StartLoop(entries) PROVE QueueInv'
  <2> DEFINE r == [phase |-> "online", capture |-> None, seen |-> {}, todo |-> entries]
  <2>1. task' = [task EXCEPT !["dashboard"] = r] /\ "dashboard" \in Screens
    BY <1>5 DEF StartLoop, Screens
  <2>2. r \in Task /\ r.phase = "online"
    BY DEF Task, TaskPhases
  <2> HIDE DEF r
  <2>3. task' \in [Screens -> Task] /\ OthersStay("dashboard") /\ task'["dashboard"] = r
    BY <1>2, <2>1, <2>2 DEF OthersStay
  <2>4. Sane("dashboard")'
    BY <2>2, <2>3 DEF Sane, Resting, Storing
  <2> QED BY <1>1, <1>3, <1>5, <2>1, <2>3, <2>4, StepKeepsInv DEF StartLoop
<1> QED
  BY <1>2, <1>4, <1>5 DEF UploadPending, UploadTapped

LEMMA EnqueueKeepsInv == ASSUME QueueInv, EnqueueStep PROVE QueueInv'
<1> DEFINE t == "camera"
           c == task[t].capture
<1>1. t \in Screens /\ QueueTypeOK /\ ServerTypeOK /\ ServerIsTrue /\ ListedIsStored
  BY DEF Screens, QueueInv, QueueTypeOK
<1>2. UNCHANGED serverVars /\ UNCHANGED faults /\ task[t].phase \in {"copy", "enqueue"}
  BY DEF EnqueueStep, CopyImage, WriteEntry
<1>3. c \in Captures /\ attemptOf[c] \in Attempts
  BY <1>1, <1>2, CaptureIsKnown DEF Resting
<1>4. ServerGrows /\ faults' \in [count : 0..MaxFaults, kinds : SUBSET FaultKinds]
  BY <1>1, <1>2, UnchangedServer, FaultTypes
<1>5. \A h \in history : Stored(attemptOf[h])'
  BY <1>1, <1>2 DEF ListedIsStored, Stored
<1> DEFINE n == task[t].seen
<1>6. n \in SUBSET Captures
  BY <1>1 DEF QueueTypeOK, Task
<1> HIDE DEF t, n
<1>7. CASE CopyImage
  <2>1. Goes(t, "enqueue", n)
    BY <1>1, <1>7, TaskMoves DEF CopyImage, t, n, TaskPhases
  <2>2. c \in images' /\ images \subseteq images' /\ images' \subseteq Captures
        /\ UNCHANGED <<taken, queue, history>>
    BY <1>1, <1>3, <1>7 DEF CopyImage, t, QueueTypeOK
  <2>3. DeviceKeeps
    BY <1>1, <1>5, <2>2 DEF DeviceKeeps, QueueTypeOK
  <2> QED BY <1>1, <1>3, <1>4, <2>1, <2>2, <2>3, GoKeepsInv DEF Storing
<1>8. CASE WriteEntry
  <2>1. Goes(t, "online", n)
    BY <1>1, <1>8, TaskMoves DEF WriteEntry, t, n, TaskPhases
  <2>2. c \in images \/ Stored(attemptOf[c])
    BY <1>1, <1>8 DEF WriteEntry, QueueInv, Sane, t
  <2>3. /\ queue' = n \cup {c} /\ taken' = taken \cup {c} /\ UNCHANGED <<history, images>>
    BY <1>8 DEF WriteEntry, t, n
  <2>4. DeviceKeeps
    BY <1>1, <1>2, <1>3, <1>5, <1>6, <2>2, <2>3 DEF DeviceKeeps, QueueTypeOK, Stored
  <2> QED BY <1>1, <1>3, <1>4, <2>1, <2>4, GoKeepsInv DEF Storing
<1> QED
  BY <1>7, <1>8 DEF EnqueueStep

LEMMA LoopKeepsInv == ASSUME QueueInv, LoopStep PROVE QueueInv'
<1> DEFINE t == "dashboard"
<1>1. t \in Screens /\ task \in [Screens -> Task] /\ task[t] \in Task
  BY DEF Screens, QueueInv, QueueTypeOK
<1>2. UNCHANGED serverVars /\ UNCHANGED storage /\ UNCHANGED faults
  BY DEF LoopStep, NextEntry, FinishLoop
<1>3. /\ ServerGrows /\ DeviceKeeps
      /\ faults' \in [count : 0..MaxFaults, kinds : SUBSET FaultKinds]
  BY <1>2, UnchangedServer, DeviceStays, FaultTypes DEF QueueInv, QueueTypeOK
<1>4. PICK r \in Task : /\ task' = [task EXCEPT ![t] = r]
                        /\ r.phase = "idle" \/ (r.phase = "load" /\ r.capture \in Captures)
  <2>1. CASE FinishLoop
    <3>1. NoTask \in Task /\ NoTask.phase = "idle"
      BY DEF NoTask, Task, TaskPhases
    <3> QED BY <2>1, <3>1 DEF FinishLoop
  <2>2. ASSUME NEW c \in task[t].todo,
               task' = [task EXCEPT !["dashboard"].phase = "load",
                                    !["dashboard"].capture = c,
                                    !["dashboard"].todo = @ \ {c}]
        PROVE  \E r \in Task : task' = [task EXCEPT ![t] = r] /\ r.phase = "load"
                                 /\ r.capture \in Captures
    <3> DEFINE r == [task[t] EXCEPT !.phase = "load", !.capture = c, !.todo = @ \ {c}]
    <3>1. r \in Task /\ r.phase = "load" /\ r.capture = c /\ c \in Captures
      BY <1>1 DEF Task, TaskPhases
    <3>2. task' = [task EXCEPT ![t] = r]
      BY <1>1, <2>2
    <3> HIDE DEF r
    <3> QED BY <3>1, <3>2
  <2> QED BY <2>1, <2>2 DEF LoopStep, NextEntry
<1>5. task' \in [Screens -> Task] /\ OthersStay(t) /\ task'[t] = r
  BY <1>1, <1>4 DEF OthersStay
<1>6. Sane(t)'
  BY <1>4, <1>5 DEF Sane, Resting, Storing
<1> QED
  BY <1>1, <1>3, <1>5, <1>6, StepKeepsInv

\* The steps of an upload: where the task is, what its capture is.
Acts(t, c, phase) ==
  /\ task[t].phase = phase /\ c = task[t].capture
  /\ c \in Captures /\ attemptOf[c] \in Attempts /\ Sane(t)
  /\ ServerTypeOK /\ ServerIsTrue

LEMMA ActsKnown ==
  ASSUME QueueInv, NEW t \in Screens,
         NEW phase \in {"load", "create", "put", "complete"} \cup Storing,
         task[t].phase = phase
  PROVE  \E c : Acts(t, c, phase)
<1>1. ~Resting(t)
  BY DEF Resting, Storing
<1> QED
  BY <1>1, CaptureIsKnown DEF Acts, QueueInv, QueueTypeOK

\* The answer has arrived, or was lost on its way to the device.
LEMMA AnswersKeepInv ==
  ASSUME QueueInv, NEW t \in Screens, NEW c, c = task[t].capture, c \in Captures,
         ServerGrows,
         NEW phase \in {"put", "complete", "readHistory"}, Answered(t, phase),
         phase \in {"put", "complete"} => Opened(attemptOf[c])',
         phase = "put" => sheets'[attemptOf[c]].owner = c,
         phase \in Storing => Stored(attemptOf[c])'
  PROVE  QueueInv'
<1>1. UNCHANGED storage /\ faults' \in [count : 0..MaxFaults, kinds : SUBSET FaultKinds]
  BY FaultTypes DEF Answered, Failed
<1>2. DeviceKeeps
  BY <1>1, DeviceStays
<1>3. CASE Failed(t)
  BY <1>1, <1>2, <1>3, TaskMoves, RestKeepsInv DEF QueueInv
<1>4. CASE Goto(t, phase)
  <2> PICK n : n = task[t].seen
    OBVIOUS
  <2>1. Goes(t, phase, n)
    BY <1>4, TaskMoves DEF QueueInv, TaskPhases
  <2>2. task'[t].capture = c
    BY <2>1 DEF Goes
  <2> QED BY <1>1, <1>2, <2>1, <2>2, GoKeepsInv
<1> QED
  BY <1>3, <1>4 DEF Answered

LEMMA CallsKeepInv ==
  ASSUME QueueInv, NEW t \in Screens,
         CreateSession(t) \/ PutImage(t) \/ CompleteUpload(t)
  PROVE  QueueInv'
<1>1. ASSUME ServerGrows, Failed(t), UNCHANGED faults PROVE QueueInv'
  <2>1. Rests(t) /\ UNCHANGED storage
    BY <1>1, TaskMoves DEF QueueInv
  <2>2. DeviceKeeps /\ faults' \in [count : 0..MaxFaults, kinds : SUBSET FaultKinds]
    BY <1>1, <2>1, DeviceStays, FaultTypes
  <2> QED BY <1>1, <2>1, <2>2, RestKeepsInv
<1>2. CASE CreateSession(t)
  <2>1. PICK c : Acts(t, c, "create")
    BY <1>2, ActsKnown DEF CreateSession
  <2>2. ASSUME Create(c, "gone"), Failed(t), UNCHANGED faults PROVE QueueInv'
    BY <1>1, <2>1, <2>2, CreateGrows DEF Acts
  <2>3. ASSUME Create(c, "upload"), Answered(t, "put") PROVE QueueInv'
    <3>1. ServerGrows /\ Opened(attemptOf[c])' /\ sheets'[attemptOf[c]].owner = c
      BY <2>1, <2>3, CreateGrows DEF Acts
    <3> QED BY <2>1, <2>3, <3>1, AnswersKeepInv DEF Acts, Storing
  <2>4. ASSUME Create(c, "alreadyCaptured"), Answered(t, "complete") PROVE QueueInv'
    <3>1. ServerGrows /\ Opened(attemptOf[c])'
      BY <2>1, <2>4, CreateGrows DEF Acts
    <3> QED BY <2>1, <2>4, <3>1, AnswersKeepInv DEF Acts, Storing
  <2> QED BY <1>2, <2>1, <2>2, <2>3, <2>4 DEF CreateSession, AfterCreate, Acts
<1>3. CASE PutImage(t)
  <2>1. PICK c : Acts(t, c, "put")
    BY <1>3, ActsKnown DEF PutImage
  <2>2. Opened(attemptOf[c]) /\ sheets[attemptOf[c]].owner = c
    BY <2>1 DEF Acts, Sane
  <2>3. ASSUME Put(c), Answered(t, "complete") PROVE QueueInv'
    <3>1. ServerGrows
      BY <2>1, <2>2, <2>3, PutGrows DEF Acts
    <3>2. Opened(attemptOf[c])'
      BY <2>1, <2>2, <3>1 DEF Acts, ServerGrows
    <3> QED BY <2>1, <2>3, <3>1, <3>2, AnswersKeepInv DEF Acts, Storing
  <2>4. ASSUME Failed(t), UNCHANGED <<serverVars, faults>> PROVE QueueInv'
    BY <1>1, <2>1, <2>4, UnchangedServer DEF Acts
  <2> QED BY <1>3, <2>1, <2>3, <2>4 DEF PutImage, Acts
<1>4. CASE CompleteUpload(t)
  <2>1. PICK c : Acts(t, c, "complete")
    BY <1>4, ActsKnown DEF CompleteUpload
  <2>2. Opened(attemptOf[c])
    BY <2>1 DEF Acts, Sane
  <2>3. ASSUME Complete(attemptOf[c], "completed"), Answered(t, "readHistory") PROVE QueueInv'
    <3>1. ServerGrows /\ Stored(attemptOf[c])'
      BY <2>1, <2>2, <2>3, CompleteGrows DEF Acts
    <3> QED BY <2>1, <2>3, <3>1, AnswersKeepInv DEF Acts
  <2>4. ASSUME Complete(attemptOf[c], "refused"), Failed(t), UNCHANGED faults PROVE QueueInv'
    BY <1>1, <2>1, <2>2, <2>4, CompleteGrows DEF Acts
  <2> QED BY <1>4, <2>1, <2>3, <2>4 DEF CompleteUpload, Acts
<1> QED
  BY <1>2, <1>3, <1>4

\* The steps that concern the device alone.
LEMMA DeviceKeepsInv ==
  ASSUME QueueInv, NEW t \in Screens,
         GoOnline(t) \/ LoadImage(t) \/ ReadHistory(t) \/ WriteHistory(t)
           \/ ReadQueue(t) \/ WriteQueue(t) \/ DeleteImage(t)
  PROVE  QueueInv'
<1>1. /\ QueueTypeOK /\ UNCHANGED serverVars
      /\ faults' \in [count : 0..MaxFaults, kinds : SUBSET FaultKinds]
  BY FaultTypes DEF QueueInv, GoOnline, LoadImage, ReadHistory, WriteHistory, ReadQueue,
     WriteQueue, DeleteImage
<1>2. ServerGrows
  BY <1>1, UnchangedServer DEF QueueInv, QueueTypeOK
<1>3. UNCHANGED storage => DeviceKeeps
  BY <1>2, DeviceStays
<1> PICK c, n : c = task[t].capture /\ n = task[t].seen
  OBVIOUS
<1>4. n \in SUBSET Captures /\ task[t] \in Task
  BY <1>1 DEF QueueTypeOK, Task
<1>5. \A h : Stored(attemptOf[h])' <=> Stored(attemptOf[h])
  BY <1>1 DEF Stored
<1>6. CASE GoOnline(t)
  <2>1. CASE t = "camera"
    <3>1. Goes(t, "load", n) /\ ~Resting(t) /\ UNCHANGED storage
      BY <1>1, <1>6, <2>1, TaskMoves DEF GoOnline, TaskPhases, Resting
    <3>2. c \in Captures
      BY <3>1, CaptureIsKnown
    <3> QED BY <1>1, <1>2, <1>3, <3>1, <3>2, GoKeepsInv DEF Storing
  <2>2. CASE t # "camera"
    <3>1. Goes(t, "next", n) /\ UNCHANGED storage
      BY <1>1, <1>6, <2>2, TaskMoves DEF GoOnline, TaskPhases
    <3> QED BY <1>1, <1>2, <1>3, <3>1, GoKeepsInv DEF Storing
  <2> QED BY <2>1, <2>2
<1>7. CASE LoadImage(t)
  <2>1. Acts(t, c, "load") /\ UNCHANGED storage
    BY <1>7, ActsKnown DEF LoadImage, Failed, Acts
  <2>2. CASE Failed(t)
    BY <1>1, <1>2, <1>3, <2>1, <2>2, TaskMoves, RestKeepsInv
  <2>3. CASE Goto(t, "create")
    <3>1. Goes(t, "create", n)
      BY <1>1, <2>3, TaskMoves DEF TaskPhases
    <3> QED BY <1>1, <1>2, <1>3, <2>1, <3>1, GoKeepsInv DEF Acts, Storing
  <2> QED BY <1>7, <2>2, <2>3 DEF LoadImage
<1>8. CASE ReadHistory(t)
  <2> PICK list : list = history
    OBVIOUS
  <2>1. Acts(t, c, "readHistory") /\ UNCHANGED storage
    BY <1>8, ActsKnown DEF ReadHistory, Acts, Storing
  <2>2. Goes(t, "writeHistory", list)
    BY <1>1, <1>8, TaskMoves DEF ReadHistory, QueueTypeOK, TaskPhases
  <2>3. Stored(attemptOf[c])'
    BY <1>5, <2>1 DEF Acts, Sane, Storing
  <2>4. \A h \in list : Stored(attemptOf[h])'
    BY <1>5 DEF QueueInv, ListedIsStored
  <2>5. task'[t].capture = c
    BY <2>2 DEF Goes
  <2> QED BY <1>1, <1>2, <1>3, <2>1, <2>2, <2>3, <2>4, <2>5, GoKeepsInv DEF Acts
<1>9. CASE WriteHistory(t)
  <2>1. Acts(t, c, "writeHistory")
    BY <1>9, ActsKnown DEF WriteHistory, Acts, Storing
  <2>2. Goes(t, "readQueue", n)
    BY <1>1, <1>9, TaskMoves DEF WriteHistory, TaskPhases
  <2>3. Stored(attemptOf[c])' /\ \A h \in n : Stored(attemptOf[h])'
    BY <1>5, <2>1 DEF Acts, Sane, Storing
  <2>4. /\ history' = {h \in n : attemptOf[h] # attemptOf[c]} \cup {c}
        /\ UNCHANGED <<taken, queue, images>>
    BY <1>9 DEF WriteHistory
  <2>5. DeviceKeeps
    BY <1>1, <1>4, <2>1, <2>3, <2>4 DEF DeviceKeeps, Acts, QueueTypeOK
  <2>6. task'[t].capture = c
    BY <2>2 DEF Goes
  <2> QED BY <1>1, <1>2, <2>1, <2>2, <2>3, <2>5, <2>6, GoKeepsInv DEF Acts
<1>10. CASE ReadQueue(t)
  <2> PICK list : list = queue
    OBVIOUS
  <2>1. Acts(t, c, "readQueue") /\ UNCHANGED storage
    BY <1>10, ActsKnown DEF ReadQueue, Acts, Storing
  <2>2. Goes(t, "writeQueue", list)
    BY <1>1, <1>10, TaskMoves DEF ReadQueue, QueueTypeOK, TaskPhases
  <2>3. Stored(attemptOf[c])' /\ task'[t].capture = c
    BY <1>5, <2>1, <2>2 DEF Acts, Sane, Storing, Goes
  <2> QED BY <1>1, <1>2, <1>3, <2>1, <2>2, <2>3, GoKeepsInv DEF Acts
<1>11. CASE WriteQueue(t)
  <2>1. Acts(t, c, "writeQueue")
    BY <1>11, ActsKnown DEF WriteQueue, Acts, Storing
  <2>2. Goes(t, "delete", n)
    BY <1>1, <1>11, TaskMoves DEF WriteQueue, TaskPhases
  <2>3. Stored(attemptOf[c])' /\ task'[t].capture = c
    BY <1>5, <2>1, <2>2 DEF Acts, Sane, Storing, Goes
  <2>4. DeviceKeeps
    BY <1>1, <1>4, <1>5, <1>11 DEF WriteQueue, DeviceKeeps, QueueTypeOK, QueueInv,
       ListedIsStored
  <2> QED BY <1>1, <1>2, <2>1, <2>2, <2>3, <2>4, GoKeepsInv DEF Acts
<1>12. CASE DeleteImage(t)
  <2>1. Acts(t, c, "delete") /\ Stored(attemptOf[c])'
    BY <1>5, <1>12, ActsKnown DEF DeleteImage, Acts, Sane, Storing
  <2>2. images' = images \ {c} /\ UNCHANGED <<taken, queue, history>> /\ Rests(t)
    BY <1>1, <1>12, TaskMoves DEF DeleteImage
  <2>3. DeviceKeeps
    BY <1>1, <1>5, <2>1, <2>2 DEF DeviceKeeps, QueueTypeOK, QueueInv, ListedIsStored
  <2> QED BY <1>1, <1>2, <2>2, <2>3, RestKeepsInv
<1> QED
  BY <1>6, <1>7, <1>8, <1>9, <1>10, <1>11, <1>12

LEMMA FailuresKeepInv ==
  ASSUME QueueInv,
         \/ \E t \in Screens : Offline(t) \/ RequestFails(t)
         \/ Kill \/ \E a \in Attempts : Expire(a)
  PROVE  QueueInv'
<1>1. QueueTypeOK /\ ServerTypeOK /\ ServerIsTrue /\ UNCHANGED storage
      /\ faults' \in [count : 0..MaxFaults, kinds : SUBSET FaultKinds]
  BY FaultTypes DEF QueueInv, QueueTypeOK, Offline, RequestFails, Failed, Kill, Expire
<1>2. ASSUME ServerGrows PROVE DeviceKeeps
  BY <1>1, <1>2, DeviceStays
<1>3. UNCHANGED serverVars => ServerGrows
  BY <1>1, UnchangedServer
<1>4. NoTask \in Task /\ NoTask.phase = "idle"
  BY DEF NoTask, Task, TaskPhases
<1>5. ASSUME NEW t \in Screens, Offline(t) PROVE QueueInv'
  <2>1. task' \in [Screens -> Task] /\ OthersStay(t) /\ task'[t] = NoTask
    BY <1>1, <1>4, <1>5 DEF Offline, QueueTypeOK, OthersStay
  <2>2. Sane(t)'
    BY <1>4, <2>1 DEF Sane, Resting, Storing
  <2> QED BY <1>1, <1>2, <1>3, <1>5, <2>1, <2>2, StepKeepsInv DEF Offline
<1>6. ASSUME NEW t \in Screens, RequestFails(t) PROVE QueueInv'
  BY <1>1, <1>2, <1>3, <1>6, TaskMoves, RestKeepsInv DEF RequestFails
<1>7. CASE Kill
  <2>1. \A t \in Screens : Sane(t)'
    BY <1>4, <1>7 DEF Kill, Sane, Resting, Storing
  <2>2. UNCHANGED <<sheets, objects, taken, queue, history, images>>
        /\ task' \in [Screens -> Task]
    BY <1>1, <1>4, <1>7 DEF Kill
  <2> QED BY <1>1, <2>1, <2>2 DEF QueueInv, QueueTypeOK, ServerTypeOK, ServerIsTrue,
      ListedIsStored, ImageIsKeptUntilStored, Opened, Stored
<1>8. ASSUME NEW a \in Attempts, Expire(a) PROVE QueueInv'
  <2>1. ServerGrows
    BY <1>1, <1>8, ExpireGrows DEF Expire
  <2>2. PICK t : t \in Screens
    BY DEF Screens
  <2>3. UNCHANGED task /\ task \in [Screens -> Task] /\ Sane(t)
    BY <1>1, <1>8, <2>2 DEF Expire, QueueInv, QueueTypeOK
  <2>4. Sane(t)'
    <3> PICK c : c = task[t].capture
      OBVIOUS
    <3>1. CASE Resting(t)
      BY <2>3, <3>1 DEF Sane, Resting, Storing
    <3>2. CASE ~Resting(t)
      <4>1. /\ Opened(attemptOf[c]) => Opened(attemptOf[c])'
            /\ sheets'[attemptOf[c]].owner = sheets[attemptOf[c]].owner \/ ~Opened(attemptOf[c])
            /\ Stored(attemptOf[c]) => Stored(attemptOf[c])'
        BY <2>1, <2>2, <3>2, CaptureIsKnown DEF ServerGrows
      <4>2. \A h \in task[t].seen : Stored(attemptOf[h]) => Stored(attemptOf[h])'
        BY <2>1, <2>2, <2>3, AttemptOfCapture DEF ServerGrows, Task
      <4> QED BY <1>1, <2>3, <4>1, <4>2 DEF Sane, Resting
    <3> QED BY <3>1, <3>2
  <2> QED BY <1>1, <1>2, <2>1, <2>2, <2>3, <2>4, StepKeepsInv DEF OthersStay
<1> QED
  BY <1>5, <1>6, <1>7, <1>8

LEMMA QueueInvNext == QueueInv /\ [QueueNext]_queueVars => QueueInv'
<1>1. CASE UNCHANGED queueVars
  BY <1>1 DEF QueueInv, QueueTypeOK, ServerTypeOK, ServerIsTrue, ListedIsStored,
     ImageIsKeptUntilStored, Sane, Resting, Opened, Stored
<1>2. QueueInv /\ QueueNext => QueueInv'
  BY StartsKeepInv, EnqueueKeepsInv, LoopKeepsInv, CallsKeepInv, DeviceKeepsInv,
     FailuresKeepInv DEF QueueNext, UploadStep
<1> QED
  BY <1>1, <1>2

\* Tasks, lists and rows keep their types: no task acts without a capture.
THEOREM QueueIsTyped == QueueSpec => []QueueTypeOK
<1>1. QueueInv => QueueTypeOK
  BY DEF QueueInv
<1> QED BY <1>1, QueueInvInit, QueueInvNext, PTL DEF QueueSpec

\* What the device lists as captured is completed on the server, with the
\* picture that opened the session.
THEOREM HistoriesAreTrue == QueueSpec => []HistoryIsTrue
<1>1. QueueInv => HistoryIsTrue
  BY AttemptOfCapture DEF QueueInv, QueueTypeOK, ServerIsTrue, ListedIsStored,
     HistoryIsTrue, Stored
<1> QED BY <1>1, QueueInvInit, QueueInvNext, PTL DEF QueueSpec

\* Whatever fails or overlaps, a picture is deleted only when its attempt has
\* one on the server.
THEOREM ImagesAreKept == QueueSpec => []ImageIsKeptUntilStored
<1>1. QueueInv => ImageIsKeptUntilStored
  BY DEF QueueInv
<1> QED BY <1>1, QueueInvInit, QueueInvNext, PTL DEF QueueSpec

----------------------------------------------------------------------------
(* One screen after the other.                                             *)

\* The list that a task is about to write back is still the stored one, and
\* a capture leaves the queue only when its attempt is in the history.
InStep(t) ==
  LET p == task[t].phase
      c == task[t].capture
  IN  /\ p \in {"copy", "enqueue"} => task[t].seen = queue
      /\ p = "writeHistory" => task[t].seen = history
      /\ p \in {"readQueue", "writeQueue"} =>
           \E h \in history : attemptOf[h] = attemptOf[c]
      /\ p = "writeQueue" => task[t].seen = queue

TurnInv ==
  InTurn => /\ \A t, u \in Screens : task[t].phase = "idle" \/ task[u].phase = "idle" \/ t = u
            /\ \A t \in Screens : InStep(t)
            /\ NoCaptureIsLost

LEMMA TurnInvInit == QueueInit => TurnInv
BY DEF QueueInit, NoTask, TurnInv, InStep, NoCaptureIsLost

\* What was an overlap remains one.
LEMMA OverlapStays == ASSUME QueueInv, QueueNext, InTurn' PROVE InTurn
<1>1. UNCHANGED faults \/ \E kind : Fault(kind)
  BY DEF QueueNext, StartCapture, EnqueueStep, CopyImage, WriteEntry, UploadPending,
     UploadTapped, StartLoop, MayStart, LoopStep, NextEntry, FinishLoop, UploadStep,
     GoOnline, LoadImage, CreateSession, PutImage, CompleteUpload, Answered, ReadHistory,
     WriteHistory, ReadQueue, WriteQueue, DeleteImage, Offline, RequestFails, Kill, Expire
<1> QED
  BY <1>1 DEF InTurn, Fault

\* A step of the only task at work.
LEMMA TurnStep ==
  ASSUME QueueInv, TurnInv, QueueNext, NEW t \in Screens, OthersStay(t),
         \/ task[t].phase # "idle"
         \/ InTurn' => \A u \in Screens : task[u].phase = "idle",
         InTurn' /\ InStep(t) /\ NoCaptureIsLost => InStep(t)' /\ NoCaptureIsLost'
  PROVE  TurnInv'
<1> SUFFICES ASSUME InTurn'
             PROVE  /\ \A u, v \in Screens :
                         task'[u].phase = "idle" \/ task'[v].phase = "idle" \/ u = v
                    /\ \A u \in Screens : InStep(u)'
                    /\ NoCaptureIsLost'
  BY DEF TurnInv
<1>1. /\ \A u, v \in Screens : task[u].phase = "idle" \/ task[v].phase = "idle" \/ u = v
      /\ InStep(t) /\ NoCaptureIsLost
  BY OverlapStays DEF TurnInv
<1>2. \A u \in Screens \ {t} : task[u].phase = "idle" /\ task'[u].phase = "idle"
  BY <1>1 DEF OthersStay
<1>3. \A u \in Screens \ {t} : InStep(u)'
  BY <1>2 DEF InStep
<1> QED
  BY <1>1, <1>2, <1>3

\* Phases in which a task holds no list.
Listless == {"idle", "online", "next", "load", "create", "put", "complete",
             "readHistory", "delete"}

LEMMA ListlessStep ==
  ASSUME NEW t, task'[t].phase \in Listless, UNCHANGED <<taken, queue, history>>
  PROVE  InStep(t) /\ NoCaptureIsLost => InStep(t)' /\ NoCaptureIsLost'
BY DEF InStep, Listless, NoCaptureIsLost

LEMMA StartsInTurn ==
  ASSUME QueueInv, TurnInv, QueueNext,
         (\E c \in Captures : StartCapture(c)) \/ UploadPending \/ UploadTapped
  PROVE  TurnInv'
<1>1. ASSUME NEW t, MayStart(t), InTurn' PROVE \A u \in Screens : task[u].phase = "idle"
  BY <1>1 DEF MayStart, Fault, InTurn
<1>2. task \in [Screens -> Task]
  BY DEF QueueInv, QueueTypeOK
<1>3. ASSUME NEW c \in Captures, StartCapture(c) PROVE TurnInv'
  <2> PICK t : t = "camera"
    OBVIOUS
  <2>1. /\ t \in Screens /\ OthersStay(t) /\ MayStart(t) /\ UNCHANGED storage
        /\ task'[t].phase = "copy" /\ task'[t].seen = queue
    BY <1>2, <1>3 DEF StartCapture, OthersStay, Screens
  <2>2. InStep(t) /\ NoCaptureIsLost => InStep(t)' /\ NoCaptureIsLost'
    BY <2>1 DEF InStep, NoCaptureIsLost
  <2> QED BY <1>1, <2>1, <2>2, TurnStep
<1>4. ASSUME NEW entries, StartLoop(entries) PROVE TurnInv'
  <2> PICK t : t = "dashboard"
    OBVIOUS
  <2>1. /\ t \in Screens /\ OthersStay(t) /\ MayStart(t) /\ UNCHANGED storage
        /\ task'[t].phase = "online"
    BY <1>2, <1>4 DEF StartLoop, OthersStay, Screens
  <2> QED BY <1>1, <2>1, ListlessStep, TurnStep DEF Listless
<1> QED
  BY <1>3, <1>4 DEF UploadPending, UploadTapped

LEMMA EnqueueInTurn == ASSUME QueueInv, TurnInv, QueueNext, EnqueueStep PROVE TurnInv'
<1> PICK t, c, n : t = "camera" /\ c = task[t].capture /\ n = task[t].seen
  OBVIOUS
<1>1. t \in Screens /\ QueueTypeOK /\ task[t].phase \in {"copy", "enqueue"}
  BY DEF Screens, QueueInv, EnqueueStep, CopyImage, WriteEntry
<1>2. CASE CopyImage
  <2>1. Goes(t, "enqueue", n) /\ UNCHANGED <<taken, queue, history>>
    BY <1>1, <1>2, TaskMoves DEF CopyImage, TaskPhases
  <2>2. InStep(t) /\ NoCaptureIsLost => InStep(t)' /\ NoCaptureIsLost'
    BY <1>1, <2>1 DEF InStep, NoCaptureIsLost, Goes
  <2> QED BY <1>1, <2>1, <2>2, TurnStep DEF Goes
<1>3. CASE WriteEntry
  <2>1. /\ Goes(t, "online", n) /\ queue' = n \cup {c} /\ taken' = taken \cup {c}
        /\ UNCHANGED history
    BY <1>1, <1>3, TaskMoves DEF WriteEntry, TaskPhases
  <2>2. InStep(t) /\ NoCaptureIsLost => InStep(t)' /\ NoCaptureIsLost'
    BY <1>1, <2>1 DEF InStep, NoCaptureIsLost, Goes
  <2> QED BY <1>1, <2>1, <2>2, TurnStep DEF Goes
<1> QED
  BY <1>2, <1>3 DEF EnqueueStep

LEMMA ListsInTurn ==
  ASSUME QueueInv, TurnInv, QueueNext, NEW t \in Screens,
         ReadHistory(t) \/ WriteHistory(t) \/ ReadQueue(t) \/ WriteQueue(t)
  PROVE  TurnInv'
<1> PICK c, n : c = task[t].capture /\ n = task[t].seen
  OBVIOUS
<1>1. QueueTypeOK /\ task[t].phase # "idle"
  BY DEF QueueInv, ReadHistory, WriteHistory, ReadQueue, WriteQueue
<1> SUFFICES OthersStay(t) /\ (InStep(t) /\ NoCaptureIsLost => InStep(t)' /\ NoCaptureIsLost')
  BY <1>1, TurnStep
<1>2. CASE ReadHistory(t)
  <2> PICK list : list = history
    OBVIOUS
  <2>1. Goes(t, "writeHistory", list) /\ UNCHANGED <<taken, queue, history>>
    BY <1>1, <1>2, TaskMoves DEF ReadHistory, QueueTypeOK, TaskPhases
  <2> QED BY <2>1 DEF Goes, InStep, NoCaptureIsLost
<1>3. CASE WriteHistory(t)
  <2>1. /\ Goes(t, "readQueue", n) /\ task[t].phase = "writeHistory"
        /\ history' = {h \in n : attemptOf[h] # attemptOf[c]} \cup {c}
        /\ UNCHANGED <<taken, queue>>
    BY <1>1, <1>3, TaskMoves DEF WriteHistory, TaskPhases
  <2>2. InStep(t) => \A d : (\E h \in history : attemptOf[h] = attemptOf[d]) =>
                             \E h \in history' : attemptOf[h] = attemptOf[d]
    BY <2>1 DEF InStep
  <2> QED BY <2>1, <2>2 DEF Goes, InStep, NoCaptureIsLost
<1>4. CASE ReadQueue(t)
  <2> PICK list : list = queue
    OBVIOUS
  <2>1. /\ Goes(t, "writeQueue", list) /\ task[t].phase = "readQueue"
        /\ UNCHANGED <<taken, queue, history>>
    BY <1>1, <1>4, TaskMoves DEF ReadQueue, QueueTypeOK, TaskPhases
  <2> QED BY <2>1 DEF Goes, InStep, NoCaptureIsLost
<1>5. CASE WriteQueue(t)
  <2>1. /\ Goes(t, "delete", n) /\ task[t].phase = "writeQueue"
        /\ queue' = n \ {c} /\ UNCHANGED <<taken, history>>
    BY <1>1, <1>5, TaskMoves DEF WriteQueue, TaskPhases
  <2> QED BY <2>1 DEF Goes, InStep, NoCaptureIsLost
<1> QED
  BY <1>2, <1>3, <1>4, <1>5

LEMMA RestInTurn ==
  ASSUME QueueInv, TurnInv, QueueNext, NEW t \in Screens,
         \/ GoOnline(t) \/ LoadImage(t) \/ CreateSession(t) \/ PutImage(t)
         \/ CompleteUpload(t) \/ DeleteImage(t) \/ Offline(t) \/ RequestFails(t)
         \/ t = "dashboard" /\ LoopStep
  PROVE  TurnInv'
<1>1. QueueTypeOK /\ task \in [Screens -> Task]
  BY DEF QueueInv, QueueTypeOK
<1>2. task[t].phase # "idle" /\ UNCHANGED <<taken, queue, history>>
  BY DEF GoOnline, LoadImage, CreateSession, PutImage, CompleteUpload, DeleteImage, Offline,
     RequestFails, LoopStep, NextEntry, FinishLoop, Answered, Failed
<1> SUFFICES OthersStay(t) /\ task'[t].phase \in Listless
  BY <1>2, TurnStep, ListlessStep
<1>3. ASSUME Rests(t) PROVE OthersStay(t) /\ task'[t].phase \in Listless
  BY <1>3 DEF Rests, Listless
<1>4. ASSUME NEW phase \in Listless, Goto(t, phase)
      PROVE  OthersStay(t) /\ task'[t].phase \in Listless
  BY <1>1, <1>4, TaskMoves DEF Goes, Listless, TaskPhases
<1>5. CASE GoOnline(t) \/ LoadImage(t)
  BY <1>1, <1>3, <1>4, <1>5, TaskMoves DEF GoOnline, LoadImage, Listless
<1>6. ASSUME NEW phase \in {"put", "complete", "readHistory"}, Answered(t, phase)
      PROVE  OthersStay(t) /\ task'[t].phase \in Listless
  BY <1>1, <1>3, <1>4, <1>6, TaskMoves DEF Answered, Listless
<1>7. CASE CreateSession(t) \/ PutImage(t) \/ CompleteUpload(t)
  BY <1>1, <1>3, <1>6, <1>7, TaskMoves DEF CreateSession, PutImage, CompleteUpload, AfterCreate
<1>8. CASE DeleteImage(t) \/ RequestFails(t)
  BY <1>1, <1>3, <1>8, TaskMoves DEF DeleteImage, RequestFails
<1>9. CASE Offline(t)
  BY <1>1, <1>9 DEF Offline, OthersStay, NoTask, Listless
<1>10. CASE t = "dashboard" /\ LoopStep
  <2>1. task[t] \in Task
    BY <1>1
  <2>2. CASE FinishLoop
    BY <1>1, <1>10, <2>2 DEF FinishLoop, OthersStay, NoTask, Listless
  <2>3. CASE NextEntry
    BY <1>1, <1>10, <2>1, <2>3 DEF NextEntry, OthersStay, Listless, Task
  <2> QED BY <1>10, <2>2, <2>3 DEF LoopStep
<1> QED
  BY <1>5, <1>7, <1>8, <1>9, <1>10

LEMMA TurnInvNext == QueueInv /\ TurnInv /\ [QueueNext]_queueVars => TurnInv'
<1> SUFFICES ASSUME QueueInv, TurnInv, [QueueNext]_queueVars PROVE TurnInv'
  OBVIOUS
<1>1. CASE UNCHANGED queueVars
  BY <1>1 DEF TurnInv, InTurn, InStep, NoCaptureIsLost
<1>2. CASE QueueNext /\ Kill
  BY <1>2, OverlapStays DEF Kill, NoTask, TurnInv, InStep, NoCaptureIsLost
<1>3. ASSUME QueueNext, NEW a \in Attempts, Expire(a) PROVE TurnInv'
  BY <1>3, OverlapStays DEF Expire, TurnInv, InStep, NoCaptureIsLost
<1>4. CASE QueueNext
  BY <1>2, <1>3, <1>4, StartsInTurn, EnqueueInTurn, ListsInTurn, RestInTurn
     DEF QueueNext, UploadStep, Screens
<1> QED
  BY <1>1, <1>4

\* As long as the screens take turns, every picture the app has accepted is
\* queued or listed, wherever the app is killed and whatever fails.
THEOREM NoCaptureGetsLost == QueueSpec => []NoCaptureIsLostInTurn
<1>1. TurnInv => NoCaptureIsLostInTurn
  BY DEF TurnInv, NoCaptureIsLostInTurn
<1> QED
  BY <1>1, QueueInvInit, QueueInvNext, TurnInvInit, TurnInvNext, PTL DEF QueueSpec

================================================================================
