----------------------------- MODULE AiJobQueue -----------------------------
(***************************************************************************)
(* The AI service's asynchronous jobs: RedisJobQueue.enqueue writes a      *)
(* job's hash and a stream message in one WATCHed transaction, and workers *)
(* of one consumer group process the messages.  A message that nobody      *)
(* acknowledged for a minute is claimed by any worker, also when the first *)
(* one is still busy with it.                                              *)
(*                                                                         *)
(* The stream is modelled without its cap of about 100,000 entries, and a  *)
(* job's hash without its expiry after seven days.                         *)
(***************************************************************************)
EXTENDS Naturals, Sequences

CONSTANTS
  Jobs,        \* tenant-qualified job ids
  Payloads,    \* what a job asks for
  Submissions, \* the messages that clients submit, each as often as they like
  Clients,     \* submissions the API may be handling at once
  Workers,     \* worker processes
  None,        \* no hash
  FaultKinds,  \* which failures happen
  MaxFaults    \* bound on the number of failures in a behaviour

AllFaults == {"crash", "slow", "redis"}

Statuses == {"PENDING", "PROCESSING", "COMPLETED", "FAILED"}
Hash == [status : Statuses, payload : Payloads]
Message == [job : Jobs, payload : Payloads]

ASSUME SubmissionsAssumption == Submissions \subseteq Message
ASSUME NoneAssumption == None \notin Hash \cup Message
ASSUME FaultsAssumption == FaultKinds \subseteq AllFaults /\ MaxFaults \in Nat

VARIABLES
  hash,       \* the hash of each job: its status and its payload
  stream,     \* messages in the order they were added
  delivered,  \* the consumer group's cursor in the stream
  pending,    \* delivered and not acknowledged; idle: for over a minute
  client,     \* submissions between WATCH and EXEC
  worker,     \* what each worker is doing, with which message
  faults      \* how many failures happened so far, and of which kinds

redis == <<hash, stream, delivered, pending>>
jobVars == <<redis, client, worker, faults>>

WorkerPhases == {"claim", "read", "start", "extract", "complete", "fail", "ack"}
NoWork == [phase |-> "claim", message |-> 0]

JobTypeOK ==
  /\ hash \in [Jobs -> Hash \cup {None}]
  /\ stream \in Seq(Message)
  /\ delivered \in 0..Len(stream)
  /\ pending \subseteq [message : 1..Len(stream), idle : BOOLEAN]
  /\ client \in [Clients -> Message \cup {None}]
  /\ worker \in [Workers -> [phase : WorkerPhases, message : 0..Len(stream)]]
  /\ faults \in [count : 0..MaxFaults, kinds : SUBSET FaultKinds]

JobInit ==
  /\ hash = [j \in Jobs |-> None]
  /\ stream = <<>> /\ delivered = 0 /\ pending = {}
  /\ client = [c \in Clients |-> None]
  /\ worker = [w \in Workers |-> NoWork]
  /\ faults = [count |-> 0, kinds |-> {}]

----------------------------------------------------------------------------
(* enqueue.  A job whose hash exists is answered from it.                  *)

Watch(c) ==
  /\ client[c] = None
  /\ \E m \in Submissions :
       hash[m.job] = None /\ client' = [client EXCEPT ![c] = m]
  /\ UNCHANGED <<redis, worker, faults>>

\* Mutant: the transaction does not watch the hash.
Unwatched(j) == TRUE

Untouched(j) == hash[j] = None

Execute(c) ==
  LET m == client[c]
  IN  /\ m # None
      /\ Untouched(m.job)
      /\ hash' = [hash EXCEPT ![m.job] = [status |-> "PENDING",
                                          payload |-> m.payload]]
      /\ stream' = Append(stream, m)
      /\ client' = [client EXCEPT ![c] = None]
      /\ UNCHANGED <<delivered, pending, worker, faults>>

\* WatchError: look again.
WatchFails(c) ==
  /\ client[c] # None
  /\ ~Untouched(client[c].job)
  /\ client' = [client EXCEPT ![c] = None]
  /\ UNCHANGED <<redis, worker, faults>>

----------------------------------------------------------------------------
(* The worker's loop: claim what is idle, else read what is new.           *)

Idle == {p \in pending : p.idle}
Take(w, m) == worker' = [worker EXCEPT ![w] = [phase |-> "start", message |-> m]]
Proceed(w, phase) == worker' = [worker EXCEPT ![w].phase = phase]

Claim(w) ==
  /\ worker[w].phase = "claim"
  /\ \E p \in Idle :
       /\ \A other \in Idle : p.message <= other.message
       /\ pending' = (pending \ {p}) \cup {[p EXCEPT !.idle = FALSE]}
       /\ Take(w, p.message)
  /\ UNCHANGED <<hash, stream, delivered, client, faults>>

ClaimNothing(w) ==
  /\ worker[w].phase = "claim" /\ Idle = {}
  /\ Proceed(w, "read")
  /\ UNCHANGED <<redis, client, faults>>

ReadNew(w) ==
  /\ worker[w].phase = "read"
  /\ delivered < Len(stream)
  /\ delivered' = delivered + 1
  /\ pending' = pending \cup {[message |-> delivered + 1, idle |-> FALSE]}
  /\ Take(w, delivered + 1)
  /\ UNCHANGED <<hash, stream, client, faults>>

ReadNothing(w) ==
  /\ worker[w].phase = "read" /\ delivered = Len(stream)
  /\ Proceed(w, "claim")
  /\ UNCHANGED <<redis, client, faults>>

----------------------------------------------------------------------------
(* _process.                                                               *)

SetStatus(w, status) ==
  hash' = [hash EXCEPT ![stream[worker[w].message].job].status = status]

\* Mutant: a message is acknowledged as soon as it is taken.
StartAcknowledging(w) ==
  /\ worker[w].phase = "start"
  /\ SetStatus(w, "PROCESSING")
  /\ pending' = {p \in pending : p.message # worker[w].message}
  /\ Proceed(w, "extract")
  /\ UNCHANGED <<stream, delivered, client, faults>>

Start(w) ==
  /\ worker[w].phase = "start"
  /\ SetStatus(w, "PROCESSING")
  /\ Proceed(w, "extract")
  /\ UNCHANGED <<stream, delivered, pending, client, faults>>

Extract(w) ==
  /\ worker[w].phase = "extract"
  /\ \E outcome \in {"complete", "fail"} : Proceed(w, outcome)
  /\ UNCHANGED <<redis, client, faults>>

\* Mutant: only a result is written.
WriteResult(w) ==
  /\ \/ worker[w].phase = "complete" /\ SetStatus(w, "COMPLETED")
     \/ worker[w].phase = "fail" /\ UNCHANGED hash
  /\ Proceed(w, "ack")
  /\ UNCHANGED <<stream, delivered, pending, client, faults>>

WriteOutcome(w) ==
  /\ \/ worker[w].phase = "complete" /\ SetStatus(w, "COMPLETED")
     \/ worker[w].phase = "fail" /\ SetStatus(w, "FAILED")
  /\ Proceed(w, "ack")
  /\ UNCHANGED <<stream, delivered, pending, client, faults>>

\* By the message's id alone, whoever it belongs to now.
Acknowledge(w) ==
  /\ worker[w].phase = "ack"
  /\ pending' = {p \in pending : p.message # worker[w].message}
  /\ worker' = [worker EXCEPT ![w] = NoWork]
  /\ UNCHANGED <<hash, stream, delivered, client, faults>>

----------------------------------------------------------------------------
(* Time and failures.                                                      *)

Fault(kind) ==
  /\ kind \in FaultKinds
  /\ faults.count < MaxFaults
  /\ faults' = [count |-> faults.count + 1, kinds |-> faults.kinds \cup {kind}]

WorksOn(w, m) ==
  worker[w].phase \notin {"claim", "read"} /\ worker[w].message = m

\* A minute passes: a message of a worker that is gone, or of a slow one.
MinutePasses ==
  /\ \E p \in pending :
       /\ ~p.idle
       /\ pending' = (pending \ {p}) \cup {[p EXCEPT !.idle = TRUE]}
       /\ \/ (\A w \in Workers : ~WorksOn(w, p.message)) /\ UNCHANGED faults
          \/ (\E w \in Workers : WorksOn(w, p.message)) /\ Fault("slow")
  /\ UNCHANGED <<hash, stream, delivered, client, worker>>

Crash(w) ==
  /\ Fault("crash")
  /\ worker[w].phase \notin {"claim", "read"}
  /\ worker' = [worker EXCEPT ![w] = NoWork]
  /\ UNCHANGED <<redis, client>>

\* A failed write leads to the catch blocks, and theirs to the finally block.
WriteFails(w) ==
  /\ Fault("redis")
  /\ \/ worker[w].phase \in {"start", "complete"} /\ Proceed(w, "fail")
     \/ worker[w].phase = "fail" /\ Proceed(w, "ack")
     \/ worker[w].phase = "ack" /\ worker' = [worker EXCEPT ![w] = NoWork]
  /\ UNCHANGED <<redis, client>>

----------------------------------------------------------------------------
Process(w) == Start(w) \/ Extract(w) \/ WriteOutcome(w) \/ Acknowledge(w)
WorkerStep(w) ==
  Claim(w) \/ ClaimNothing(w) \/ ReadNew(w) \/ ReadNothing(w) \/ Process(w)

JobNext ==
  \/ \E c \in Clients : Watch(c) \/ Execute(c) \/ WatchFails(c)
  \/ \E w \in Workers : WorkerStep(w) \/ Crash(w) \/ WriteFails(w)
  \/ MinutePasses

JobSpec == JobInit /\ [][JobNext]_jobVars

\* Workers run (a crashed one is restarted), and time passes.
JobFairSpec ==
  /\ JobSpec
  /\ \A w \in Workers : WF_jobVars(WorkerStep(w))
  /\ WF_jobVars(MinutePasses)

----------------------------------------------------------------------------
(* Properties.                                                             *)

\* However submissions of one job overlap, it enters the stream once, with
\* the payload that its hash shows.
EnqueuedOnce ==
  \A j \in Jobs :
    LET messages == {k \in DOMAIN stream : stream[k].job = j}
    IN  /\ hash[j] = None <=> messages = {}
        /\ \A k \in messages : messages = {k} /\ stream[k].payload = hash[j].payload

\* What makes the worker lose a job: the acknowledgement in its finally block
\* after a status that could not be written; and a crash of a worker that had
\* set PROCESSING after the message was acknowledged by another.
Losing == "redis" \in faults.kinds \/ {"slow", "crash"} \subseteq faults.kinds

\* A job that its client sees as unfinished has a message that will still be
\* delivered or claimed, or a worker that is busy with it.
UnfinishedJobHasWork ==
  \A k \in DOMAIN stream :
    hash[stream[k].job].status \in {"PENDING", "PROCESSING"} =>
      \/ Losing
      \/ k > delivered
      \/ \E p \in pending : p.message = k
      \/ \E w \in Workers : WorksOn(w, k)

\* Every submitted job comes to an end, although workers crash or are slow.
Finished(j) == hash[j] # None /\ hash[j].status \in {"COMPLETED", "FAILED"}
JobIsFinished == \A j \in Jobs : hash[j] # None ~> Finished(j) \/ Losing
============================================================================
