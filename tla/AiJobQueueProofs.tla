--------------------------- MODULE AiJobQueueProofs ---------------------------
(***************************************************************************)
(* Proofs about AiJobQueue for every number of jobs, clients and workers:  *)
(* a job enters the stream once (JobInv), and an unfinished job is with    *)
(* somebody unless the worker loop's own losses are to blame (WorkInv).    *)
(***************************************************************************)
EXTENDS AiJobQueue, SequenceTheorems, TLAPS

USE DEF redis

\* The stream and the hashes agree: every message belongs to a job with its
\* payload, to no other message's job, and every job has a message.
EnqueueInv ==
  /\ \A k \in DOMAIN stream : /\ hash[stream[k].job] \in Hash
                              /\ hash[stream[k].job].payload = stream[k].payload
  /\ \A k, n \in DOMAIN stream : stream[k].job = stream[n].job => k = n
  /\ \A j \in Jobs : hash[j] # None => \E k \in DOMAIN stream : stream[k].job = j

\* What is pending or being worked on was delivered from the stream.
DeliveryInv ==
  /\ \A p \in pending : p.message <= delivered
  /\ \A w \in Workers : \/ worker[w].phase \in {"claim", "read"}
                        \/ worker[w].message \in 1..delivered

JobInv == JobTypeOK /\ DeliveryInv /\ EnqueueInv

----------------------------------------------------------------------------
LEMMA JobInvInit == JobInit => JobInv
<1> SUFFICES ASSUME JobInit PROVE JobInv
  OBVIOUS
<1>1. JobTypeOK
  BY FaultsAssumption DEF JobInit, JobTypeOK, NoWork, WorkerPhases
<1>2. DeliveryInv /\ EnqueueInv
  BY DEF JobInit, DeliveryInv, EnqueueInv, NoWork
<1> QED BY <1>1, <1>2 DEF JobInv

\* The steps that touch neither the stream nor a hash.
Moves(w) == Claim(w) \/ ClaimNothing(w) \/ ReadNew(w) \/ ReadNothing(w)
              \/ Extract(w) \/ Acknowledge(w) \/ Crash(w) \/ WriteFails(w)

LEMMA Steps ==
  ASSUME JobNext
  PROVE  \/ \E c \in Clients : Watch(c) \/ Execute(c) \/ WatchFails(c)
         \/ \E w \in Workers : Moves(w) \/ Start(w) \/ WriteOutcome(w)
         \/ MinutePasses
BY DEF JobNext, WorkerStep, Process, Moves

\* Where a step leaves the worker that makes it.
LEMMA WorkerMoves ==
  ASSUME JobTypeOK, NEW w \in Workers
  PROVE  /\ \A phase : Proceed(w, phase) =>
              /\ worker'[w].phase = phase /\ worker'[w].message = worker[w].message
              /\ \A v \in Workers \ {w} : worker'[v] = worker[v]
              /\ phase \in WorkerPhases =>
                   worker' \in [Workers -> [phase : WorkerPhases, message : 0..Len(stream)]]
         /\ \A m : Take(w, m) =>
              /\ worker'[w] = [phase |-> "start", message |-> m]
              /\ \A v \in Workers \ {w} : worker'[v] = worker[v]
<1>1. /\ worker \in [Workers -> [phase : WorkerPhases, message : 0..Len(stream)]]
      /\ worker[w] \in [phase : WorkerPhases, message : 0..Len(stream)]
  BY DEF JobTypeOK
<1>2. ASSUME NEW phase, Proceed(w, phase)
      PROVE  /\ worker'[w].phase = phase /\ worker'[w].message = worker[w].message
             /\ \A v \in Workers \ {w} : worker'[v] = worker[v]
             /\ phase \in WorkerPhases =>
                  worker' \in [Workers -> [phase : WorkerPhases, message : 0..Len(stream)]]
  <2>1. worker' = [worker EXCEPT ![w] = [worker[w] EXCEPT !.phase = phase]]
    BY <1>1, <1>2 DEF Proceed
  <2>2. [worker[w] EXCEPT !.phase = phase]
          = [phase |-> phase, message |-> worker[w].message]
    BY <1>1
  <2> QED BY <1>1, <2>1, <2>2
<1>3. ASSUME NEW m, Take(w, m)
      PROVE  /\ worker'[w] = [phase |-> "start", message |-> m]
             /\ \A v \in Workers \ {w} : worker'[v] = worker[v]
  BY <1>1, <1>3 DEF Take
<1> QED BY <1>2, <1>3

LEMMA StreamIsTyped ==
  ASSUME JobTypeOK
  PROVE  /\ Len(stream) \in Nat /\ DOMAIN stream = 1..Len(stream)
         /\ \A k \in DOMAIN stream : stream[k] \in Message
BY DEF JobTypeOK

LEMMA PendingIsTyped ==
  ASSUME JobTypeOK, NEW p \in pending, NEW idle
  PROVE  /\ p.message \in 1..Len(stream)
         /\ [p EXCEPT !.idle = idle] = [message |-> p.message, idle |-> idle]
<1>1. p \in [message : 1..Len(stream), idle : BOOLEAN]
  BY DEF JobTypeOK
<1> QED BY <1>1

\* Delivery moves a message into the hands of a worker and no further.
LEMMA MovesKeepInv ==
  ASSUME JobInv, NEW w \in Workers, Moves(w)
  PROVE  JobInv'
<1> USE DEF JobInv
<1>1. UNCHANGED <<hash, stream, client>>
  BY DEF Moves, Claim, ClaimNothing, ReadNew, ReadNothing, Extract, Acknowledge,
     Crash, WriteFails
<1>2. EnqueueInv'
  BY <1>1 DEF EnqueueInv
<1>3. faults' \in [count : 0..MaxFaults, kinds : SUBSET FaultKinds]
  <2>1. CASE Crash(w) \/ WriteFails(w)
    <3>1. PICK kind : Fault(kind)
      BY <2>1 DEF Crash, WriteFails
    <3> QED BY <3>1, FaultsAssumption DEF Fault, JobTypeOK
  <2>2. CASE ~(Crash(w) \/ WriteFails(w))
    BY <2>2 DEF Moves, Claim, ClaimNothing, ReadNew, ReadNothing, Extract,
       Acknowledge, JobTypeOK
  <2> QED BY <2>1, <2>2
<1> DEFINE Kept == /\ hash' \in [Jobs -> Hash \cup {None}]
                   /\ stream' \in Seq(Message)
                   /\ client' \in [Clients -> Message \cup {None}]
                   /\ Len(stream') = Len(stream)
<1>7. Kept
  BY <1>1 DEF JobTypeOK
<1>4. CASE Claim(w)
  <2>1. PICK p \in pending : /\ pending' = (pending \ {p}) \cup {[p EXCEPT !.idle = FALSE]}
                             /\ Take(w, p.message)
    BY <1>4 DEF Claim, Idle
  <2>2. p.message \in 1..delivered /\ p.message \in 1..Len(stream)
    BY PendingIsTyped, StreamIsTyped DEF JobTypeOK, DeliveryInv
  <2>3. [p EXCEPT !.idle = FALSE] = [message |-> p.message, idle |-> FALSE]
    BY PendingIsTyped
  <2>4. UNCHANGED delivered
    BY <1>4 DEF Claim
  <2>5. pending' \subseteq [message : 1..Len(stream), idle : BOOLEAN]
    BY <2>1, <2>2, <2>3 DEF JobTypeOK
  <2>6. /\ worker'[w] = [phase |-> "start", message |-> p.message]
        /\ \A v \in Workers \ {w} : worker'[v] = worker[v]
    BY <2>1, WorkerMoves
  <2>7. worker' \in [Workers -> [phase : WorkerPhases, message : 0..Len(stream)]]
    BY <2>1, <2>2, StreamIsTyped DEF Take, JobTypeOK, WorkerPhases
  <2>8. DeliveryInv'
    BY <2>1, <2>2, <2>3, <2>4, <2>6 DEF DeliveryInv
  <2>9. delivered' \in 0..Len(stream)
    BY <2>4 DEF JobTypeOK
  <2>10. JobTypeOK'
    BY ONLY <1>3, <1>7, <2>5, <2>7, <2>9 DEF JobTypeOK
  <2> QED BY <1>2, <2>8, <2>10
<1>5. CASE ReadNew(w)
  <2>1. /\ delivered' = delivered + 1 /\ delivered + 1 \in 1..Len(stream)
        /\ pending' = pending \cup {[message |-> delivered + 1, idle |-> FALSE]}
        /\ Take(w, delivered + 1)
    BY <1>5, StreamIsTyped DEF ReadNew, JobTypeOK
  <2>2. /\ worker'[w] = [phase |-> "start", message |-> delivered + 1]
        /\ \A v \in Workers \ {w} : worker'[v] = worker[v]
    BY <2>1, WorkerMoves
  <2>3. worker' \in [Workers -> [phase : WorkerPhases, message : 0..Len(stream)]]
    BY <2>1, StreamIsTyped DEF Take, JobTypeOK, WorkerPhases
  <2>4. pending' \subseteq [message : 1..Len(stream), idle : BOOLEAN]
    <3>1. [message |-> delivered + 1, idle |-> FALSE]
            \in [message : 1..Len(stream), idle : BOOLEAN]
      BY <2>1
    <3> QED BY <2>1, <3>1 DEF JobTypeOK
  <2>5. DeliveryInv'
    <3>1. \A p \in pending' : p.message <= delivered'
      BY <2>1 DEF DeliveryInv, JobTypeOK
    <3>2. ASSUME NEW v \in Workers
          PROVE  worker'[v].phase \in {"claim", "read"} \/ worker'[v].message \in 1..delivered'
      <4>1. CASE v = w
        BY <2>1, <2>2, <4>1
      <4>2. CASE v # w
        BY <2>1, <2>2, <4>2 DEF DeliveryInv, JobTypeOK
      <4> QED BY <4>1, <4>2
    <3> QED BY <3>1, <3>2 DEF DeliveryInv
  <2>6. delivered' \in 0..Len(stream)
    BY <2>1, StreamIsTyped DEF JobTypeOK
  <2>7. JobTypeOK'
    BY ONLY <1>3, <1>7, <2>3, <2>4, <2>6 DEF JobTypeOK
  <2> QED BY <1>2, <2>5, <2>7
<1>6. CASE ClaimNothing(w) \/ ReadNothing(w) \/ Extract(w) \/ Acknowledge(w)
             \/ Crash(w) \/ WriteFails(w)
  <2>1. UNCHANGED delivered /\ pending' \subseteq pending
    BY <1>6 DEF ClaimNothing, ReadNothing, Extract, Acknowledge, Crash, WriteFails
  <2>2. /\ worker' \in [Workers -> [phase : WorkerPhases, message : 0..Len(stream)]]
        /\ \A v \in Workers \ {w} : worker'[v] = worker[v]
        /\ \/ worker'[w].phase \in {"claim", "read"}
           \/ worker[w].phase \notin {"claim", "read"} /\ worker'[w].message = worker[w].message
    <3>1. CASE ClaimNothing(w) \/ ReadNothing(w)
      BY <3>1, WorkerMoves DEF ClaimNothing, ReadNothing, WorkerPhases
    <3>2. CASE Extract(w)
      BY <3>2, WorkerMoves DEF Extract, WorkerPhases
    <3>3. CASE worker' = [worker EXCEPT ![w] = NoWork]
      BY <3>3, StreamIsTyped DEF NoWork, JobTypeOK, WorkerPhases
    <3>4. CASE WriteFails(w)
      BY <3>3, <3>4, WorkerMoves DEF WriteFails, WorkerPhases
    <3> QED BY <1>6, <3>1, <3>2, <3>3, <3>4 DEF Acknowledge, Crash
  <2>3. DeliveryInv'
    BY <2>1, <2>2 DEF DeliveryInv
  <2> QED BY <1>1, <1>2, <1>3, <2>1, <2>2, <2>3 DEF JobTypeOK
<1> QED
  BY <1>4, <1>5, <1>6 DEF Moves

\* Writing a status changes nothing else about a job.
LEMMA StatusKeepsHash ==
  ASSUME JobInv, NEW w \in Workers, worker[w].phase \notin {"claim", "read"},
         NEW status \in Statuses, SetStatus(w, status)
  PROVE  /\ hash' \in [Jobs -> Hash \cup {None}]
         /\ worker[w].message \in DOMAIN stream
         /\ LET j == stream[worker[w].message].job
            IN  /\ j \in Jobs
                /\ hash'[j] = [status |-> status, payload |-> hash[j].payload]
                /\ \A i \in Jobs \ {j} : hash'[i] = hash[i]
<1> USE DEF JobInv
<1> DEFINE j == stream[worker[w].message].job
<1>1. worker[w].message \in DOMAIN stream
  BY StreamIsTyped DEF DeliveryInv, JobTypeOK
<1>2. j \in Jobs /\ hash[j] \in Hash
  BY <1>1, StreamIsTyped DEF Message, EnqueueInv
<1>3. hash' = [hash EXCEPT ![j] = [hash[j] EXCEPT !.status = status]]
  BY DEF SetStatus
<1>4. [hash[j] EXCEPT !.status = status] = [status |-> status, payload |-> hash[j].payload]
  BY <1>2 DEF Hash
<1>5. hash \in [Jobs -> Hash \cup {None}]
  BY DEF JobTypeOK
<1>6. [status |-> status, payload |-> hash[j].payload] \in Hash
  BY <1>2 DEF Hash
<1> HIDE DEF j
<1>7. /\ hash' \in [Jobs -> Hash \cup {None}]
      /\ hash'[j] = [status |-> status, payload |-> hash[j].payload]
      /\ \A i \in Jobs \ {j} : hash'[i] = hash[i]
  BY <1>2, <1>3, <1>4, <1>5, <1>6
<1> QED BY <1>1, <1>2, <1>7 DEF j

LEMMA StatusKeepsInv ==
  ASSUME JobInv, NEW w \in Workers, Start(w) \/ WriteOutcome(w)
  PROVE  JobInv'
<1> USE DEF JobInv
<1>1. PICK status \in Statuses : SetStatus(w, status)
  BY DEF Start, WriteOutcome, Statuses
<1>2. worker[w].phase \notin {"claim", "read"}
  BY DEF Start, WriteOutcome
<1>3. PICK phase \in {"extract", "ack"} : Proceed(w, phase)
  BY DEF Start, WriteOutcome
<1>4. UNCHANGED <<stream, delivered, pending, client, faults>>
  BY DEF Start, WriteOutcome
<1>5. JobTypeOK'
  BY <1>1, <1>2, <1>3, <1>4, StatusKeepsHash, WorkerMoves DEF JobTypeOK, WorkerPhases
<1>6. DeliveryInv'
  BY <1>2, <1>3, <1>4, WorkerMoves DEF DeliveryInv
<1>7. EnqueueInv'
  <2> DEFINE j == stream[worker[w].message].job
  <2>1. /\ j \in Jobs /\ worker[w].message \in DOMAIN stream
        /\ hash'[j] = [status |-> status, payload |-> hash[j].payload]
        /\ \A i \in Jobs \ {j} : hash'[i] = hash[i]
    BY <1>1, <1>2, StatusKeepsHash
  <2>2. hash[j] \in Hash
    BY <2>1 DEF EnqueueInv
  <2>3. [status |-> status, payload |-> hash[j].payload] \in Hash
    BY <2>2 DEF Hash
  <2>4. \A k \in DOMAIN stream : stream[k].job \in Jobs
    BY StreamIsTyped DEF Message
  <2>5. \A k \in DOMAIN stream : /\ hash'[stream[k].job] \in Hash
                                 /\ hash'[stream[k].job].payload = hash[stream[k].job].payload
    BY <2>1, <2>3, <2>4 DEF EnqueueInv
  <2>6. \A i \in Jobs : hash'[i] # None => \E k \in DOMAIN stream : stream[k].job = i
    <3>1. ASSUME NEW i \in Jobs, hash'[i] # None
          PROVE  \E k \in DOMAIN stream : stream[k].job = i
      <4>1. CASE i = j
        BY <2>1, <4>1
      <4>2. CASE i # j
        BY <2>1, <3>1, <4>2 DEF EnqueueInv
      <4> QED BY <4>1, <4>2
    <3> QED BY <3>1
  <2> QED BY <1>4, <2>5, <2>6 DEF EnqueueInv
<1> QED BY <1>5, <1>6, <1>7

\* EXEC adds a hash and a message for a job that had neither.
LEMMA ExecuteKeepsInv ==
  ASSUME JobInv, NEW c \in Clients, Execute(c)
  PROVE  JobInv'
<1> USE DEF JobInv
<1> DEFINE m == client[c]
<1>1. m \in Message /\ hash[m.job] = None
  BY DEF Execute, Untouched, JobTypeOK
<1>2. /\ hash' = [hash EXCEPT ![m.job] = [status |-> "PENDING", payload |-> m.payload]]
      /\ stream' = Append(stream, m)
      /\ client' = [client EXCEPT ![c] = None]
      /\ UNCHANGED <<delivered, pending, worker, faults>>
  BY DEF Execute
<1>3. /\ stream \in Seq(Message) /\ hash \in [Jobs -> Hash \cup {None}]
      /\ client \in [Clients -> Message \cup {None}]
  BY DEF JobTypeOK
<1>4. m.job \in Jobs /\ [status |-> "PENDING", payload |-> m.payload] \in Hash
  BY <1>1 DEF Message, Hash, Statuses
<1> HIDE DEF m
<1>5. /\ stream' \in Seq(Message) /\ Len(stream') = Len(stream) + 1
      /\ DOMAIN stream' = DOMAIN stream \cup {Len(stream) + 1}
      /\ Len(stream) + 1 \notin DOMAIN stream
      /\ \A k \in DOMAIN stream : stream'[k] = stream[k]
      /\ stream'[Len(stream) + 1] = m
  BY <1>1, <1>2, <1>3
<1>6. /\ hash' \in [Jobs -> Hash \cup {None}]
      /\ hash'[m.job] = [status |-> "PENDING", payload |-> m.payload]
      /\ \A j \in Jobs \ {m.job} : hash'[j] = hash[j]
  BY <1>2, <1>3, <1>4
<1>7. JobTypeOK'
  <2>1. client' \in [Clients -> Message \cup {None}]
    BY <1>2, <1>3
  <2>2. pending \subseteq [message : 1..Len(stream'), idle : BOOLEAN]
    BY <1>5, StreamIsTyped DEF JobTypeOK
  <2>3. worker \in [Workers -> [phase : WorkerPhases, message : 0..Len(stream')]]
    <3>1. 0..Len(stream) \subseteq 0..Len(stream')
      BY <1>5, StreamIsTyped
    <3> QED BY <3>1 DEF JobTypeOK
  <2>4. delivered \in 0..Len(stream')
    BY <1>5, StreamIsTyped DEF JobTypeOK
  <2> QED BY <1>2, <1>5, <1>6, <2>1, <2>2, <2>3, <2>4 DEF JobTypeOK
<1>8. DeliveryInv'
  BY <1>2 DEF DeliveryInv
<1>9. EnqueueInv'
  <2>1. \A k \in DOMAIN stream : stream[k].job \in Jobs \ {m.job}
    <3>1. ASSUME NEW k \in DOMAIN stream, stream[k].job = m.job PROVE FALSE
      <4>1. hash[m.job] \in Hash
        BY <3>1 DEF EnqueueInv
      <4> QED BY <1>1, <4>1, NoneAssumption DEF m
    <3> QED BY <3>1, StreamIsTyped DEF Message
  <2>2. ASSUME NEW k \in DOMAIN stream'
        PROVE  hash'[stream'[k].job] \in Hash /\ hash'[stream'[k].job].payload = stream'[k].payload
    <3>1. CASE k \in DOMAIN stream
      BY <1>5, <1>6, <2>1, <3>1 DEF EnqueueInv
    <3>2. CASE k = Len(stream) + 1
      BY <1>4, <1>5, <1>6, <3>2
    <3> QED BY <1>5, <2>2, <3>1, <3>2
  <2>3. ASSUME NEW k \in DOMAIN stream', NEW n \in DOMAIN stream',
               stream'[k].job = stream'[n].job
        PROVE  k = n
    <3>1. CASE k \in DOMAIN stream /\ n \in DOMAIN stream
      BY <1>5, <2>3, <3>1 DEF EnqueueInv
    <3>2. CASE k \notin DOMAIN stream \/ n \notin DOMAIN stream
      BY <1>5, <2>1, <2>3, <3>2
    <3> QED BY <3>1, <3>2
  <2>4. ASSUME NEW j \in Jobs, hash'[j] # None
        PROVE  \E k \in DOMAIN stream' : stream'[k].job = j
    <3>1. CASE j = m.job
      BY <1>5, <3>1
    <3>2. CASE j # m.job
      BY <1>5, <1>6, <2>4, <3>2 DEF EnqueueInv
    <3> QED BY <3>1, <3>2
  <2> QED BY <2>2, <2>3, <2>4 DEF EnqueueInv
<1> QED BY <1>7, <1>8, <1>9

LEMMA JobInvNext == JobInv /\ [JobNext]_jobVars => JobInv'
<1> SUFFICES ASSUME JobInv, [JobNext]_jobVars PROVE JobInv'
  OBVIOUS
<1>1. ASSUME NEW c \in Clients, Watch(c) \/ WatchFails(c) PROVE JobInv'
  <2>1. UNCHANGED <<redis, worker, faults>>
    BY <1>1 DEF Watch, WatchFails
  <2>2. client' \in [Clients -> Message \cup {None}]
    BY <1>1, SubmissionsAssumption DEF Watch, WatchFails, JobInv, JobTypeOK
  <2>3. JobTypeOK'
    BY <2>1, <2>2 DEF JobInv, JobTypeOK
  <2>4. DeliveryInv' /\ EnqueueInv'
    BY <2>1 DEF JobInv, DeliveryInv, EnqueueInv
  <2> QED BY <2>3, <2>4 DEF JobInv
<1>2. CASE MinutePasses
  <2>1. PICK p \in pending : pending' = (pending \ {p}) \cup {[p EXCEPT !.idle = TRUE]}
    BY <1>2 DEF MinutePasses
  <2>2. /\ p.message \in 1..Len(stream) /\ p.message <= delivered
        /\ [p EXCEPT !.idle = TRUE] = [message |-> p.message, idle |-> TRUE]
    BY PendingIsTyped DEF JobInv, DeliveryInv
  <2>3. UNCHANGED <<hash, stream, delivered, client, worker>>
    BY <1>2 DEF MinutePasses
  <2>4. faults' \in [count : 0..MaxFaults, kinds : SUBSET FaultKinds]
    BY <1>2, FaultsAssumption DEF MinutePasses, Fault, JobInv, JobTypeOK
  <2>5. pending' \subseteq [message : 1..Len(stream), idle : BOOLEAN]
    BY <2>1, <2>2 DEF JobInv, JobTypeOK
  <2>6. DeliveryInv'
    BY <2>1, <2>2, <2>3 DEF JobInv, DeliveryInv
  <2> QED BY <2>3, <2>4, <2>5, <2>6 DEF JobInv, JobTypeOK, EnqueueInv
<1>3. CASE UNCHANGED jobVars
  BY <1>3 DEF jobVars, JobInv, JobTypeOK, DeliveryInv, EnqueueInv
<1> QED
  BY <1>1, <1>2, <1>3, Steps, MovesKeepInv, StatusKeepsInv, ExecuteKeepsInv

\* Hashes, stream, group and workers keep their types (JobTypeOK).
THEOREM JobsAreTyped == JobSpec => []JobTypeOK
<1>1. JobInv => JobTypeOK
  BY DEF JobInv
<1> QED
  BY <1>1, JobInvInit, JobInvNext, PTL DEF JobSpec

\* A job enters the stream once, with the payload its hash shows, however its
\* submissions overlap (EnqueuedOnce).
THEOREM JobsAreEnqueuedOnce == JobSpec => []EnqueuedOnce
<1>1. JobInv => EnqueuedOnce
  <2> SUFFICES ASSUME JobInv, NEW j \in Jobs
               PROVE  LET messages == {k \in DOMAIN stream : stream[k].job = j}
                      IN  /\ hash[j] = None <=> messages = {}
                          /\ \A k \in messages :
                               messages = {k} /\ stream[k].payload = hash[j].payload
    BY DEF EnqueuedOnce
  <2> DEFINE messages == {k \in DOMAIN stream : stream[k].job = j}
  <2>1. hash[j] = None <=> messages = {}
    BY NoneAssumption DEF JobInv, EnqueueInv
  <2>2. \A k \in messages : messages = {k} /\ stream[k].payload = hash[j].payload
    BY DEF JobInv, EnqueueInv
  <2> QED BY <2>1, <2>2
<1> QED
  BY <1>1, JobInvInit, JobInvNext, PTL DEF JobSpec

----------------------------------------------------------------------------
(* The work on an unfinished job.                                          *)

Slow == "slow" \in faults.kinds
Busy(w) == worker[w].phase \notin {"claim", "read"}
Held(k) == \E p \in pending : p.message = k
Open == {k \in DOMAIN stream : hash[stream[k].job].status \in {"PENDING", "PROCESSING"}}

PendingOnce == \A p, q \in pending : p.message = q.message => p = q

\* Only a slow worker is overtaken: its message may turn idle, be taken by
\* another worker, or be acknowledged by one.
IdleInv ==
  \A p \in pending, w \in Workers : p.idle /\ WorksOn(w, p.message) => Slow
SharedInv ==
  \A v, w \in Workers : v # w /\ Busy(w) /\ WorksOn(v, worker[w].message) => Slow
HeldInv == \A w \in Workers : Busy(w) => Slow \/ Held(worker[w].message)

\* A worker acknowledges a finished job, or one that another worker has set
\* back to PROCESSING and will finish.
Another(w) ==
  \E v \in Workers \ {w} : /\ worker[v].message = worker[w].message
                           /\ worker[v].phase \in {"extract", "complete", "fail"}
AckInv ==
  \A w \in Workers :
    worker[w].phase = "ack" => Losing \/ worker[w].message \notin Open \/ Another(w)

WorkInv ==
  /\ PendingOnce /\ IdleInv /\ SharedInv /\ HeldInv
  /\ AckInv /\ UnfinishedJobHasWork

----------------------------------------------------------------------------
LEMMA WorkInvInit == JobInit => WorkInv
BY DEF JobInit, WorkInv, PendingOnce, IdleInv, SharedInv, HeldInv, AckInv, Busy,
   UnfinishedJobHasWork, NoWork

\* A failure that happened is not forgotten.
LEMMA FaultsStay ==
  ASSUME UNCHANGED faults \/ \E kind : Fault(kind)
  PROVE  (Slow => Slow') /\ (Losing => Losing')
BY DEF Fault, Slow, Losing

\* Steps that leave every worker with the message it had, or with none.
LEMMA SameHandsKeepHeld ==
  ASSUME WorkInv, UNCHANGED pending, UNCHANGED faults \/ \E kind : Fault(kind),
         \A v \in Workers :
           Busy(v)' => Busy(v) /\ worker'[v].message = worker[v].message
  PROVE  PendingOnce' /\ IdleInv' /\ SharedInv' /\ HeldInv'
<1>1. Slow => Slow'
  BY FaultsStay
<1>2. PendingOnce'
  BY DEF WorkInv, PendingOnce
<1>3. IdleInv'
  BY <1>1 DEF WorkInv, IdleInv, WorksOn, Busy
<1>4. SharedInv'
  BY <1>1 DEF WorkInv, SharedInv, WorksOn, Busy
<1>5. HeldInv'
  BY <1>1 DEF WorkInv, HeldInv, Held
<1> QED BY <1>2, <1>3, <1>4, <1>5

\* ClaimNothing, ReadNothing and Extract move a worker along.
LEMMA MovingAlongKeepsWork ==
  ASSUME JobInv, WorkInv, NEW w \in Workers,
         ClaimNothing(w) \/ ReadNothing(w) \/ Extract(w)
  PROVE  WorkInv'
<1>1. PICK phase \in {"read", "claim", "complete", "fail"} :
        /\ Proceed(w, phase)
        /\ \/ phase \in {"read", "claim"} /\ worker[w].phase \in {"read", "claim"}
           \/ phase \in {"complete", "fail"} /\ worker[w].phase = "extract"
  BY DEF ClaimNothing, ReadNothing, Extract
<1>2. UNCHANGED <<hash, stream, delivered, pending, faults>>
  BY DEF ClaimNothing, ReadNothing, Extract
<1>3. /\ worker'[w].phase = phase /\ worker'[w].message = worker[w].message
      /\ \A v \in Workers \ {w} : worker'[v] = worker[v]
  BY <1>1, WorkerMoves DEF JobInv
<1>4. \A v \in Workers : /\ Busy(v)' = Busy(v)
                         /\ worker'[v].message = worker[v].message
                         /\ worker'[v].phase = "ack" => worker[v].phase = "ack"
                         /\ worker[v].phase \in {"extract", "complete", "fail"} =>
                              worker'[v].phase \in {"extract", "complete", "fail"}
  BY <1>1, <1>3 DEF Busy
<1>5. PendingOnce' /\ IdleInv' /\ SharedInv' /\ HeldInv'
  BY <1>2, <1>4, SameHandsKeepHeld
<1>6. Open' = Open
  BY <1>2 DEF Open
<1>7. AckInv'
  BY <1>2, <1>4, <1>6 DEF WorkInv, AckInv, Another, Losing
<1>8. UnfinishedJobHasWork'
  BY <1>2, <1>4 DEF WorkInv, UnfinishedJobHasWork, WorksOn, Busy, Losing
<1> QED BY <1>5, <1>7, <1>8 DEF WorkInv

\* What writing a status does to the messages' jobs.
LEMMA StatusIsOwn ==
  ASSUME JobInv, NEW w \in Workers, Busy(w), NEW status \in Statuses,
         SetStatus(w, status), UNCHANGED stream
  PROVE  /\ worker[w].message \in DOMAIN stream
         /\ worker[w].message \in Open' <=> status \in {"PENDING", "PROCESSING"}
         /\ \A k \in DOMAIN stream \ {worker[w].message} : (k \in Open' <=> k \in Open)
<1> DEFINE m == worker[w].message
<1> DEFINE j == stream[m].job
<1>1. /\ j \in Jobs /\ m \in DOMAIN stream
      /\ hash'[j] = [status |-> status, payload |-> hash[j].payload]
      /\ \A i \in Jobs \ {j} : hash'[i] = hash[i]
  BY StatusKeepsHash DEF Busy
<1>2. \A k \in DOMAIN stream \ {m} : stream[k].job \in Jobs \ {j}
  BY <1>1, StreamIsTyped DEF JobInv, EnqueueInv, Message
<1>3. hash'[stream'[m].job].status = status
  BY <1>1
<1>4. \A k \in DOMAIN stream \ {m} : hash'[stream'[k].job] = hash[stream[k].job]
  BY <1>1, <1>2
<1> HIDE DEF j, m
<1>5. (hash'[stream'[m].job].status \in {"PENDING", "PROCESSING"})
        <=> status \in {"PENDING", "PROCESSING"}
  BY <1>3
<1>6. \A k \in DOMAIN stream \ {m} :
        (hash'[stream'[k].job].status \in {"PENDING", "PROCESSING"})
          <=> hash[stream[k].job].status \in {"PENDING", "PROCESSING"}
  BY <1>4
<1> QED BY <1>1, <1>5, <1>6 DEF Open, m

LEMMA StartKeepsWork ==
  ASSUME JobInv, WorkInv, NEW w \in Workers, Start(w)
  PROVE  WorkInv'
<1> DEFINE m == worker[w].message
<1>1. /\ Busy(w) /\ worker[w].phase = "start" /\ SetStatus(w, "PROCESSING")
      /\ Proceed(w, "extract")
      /\ UNCHANGED <<stream, delivered, pending, faults>>
  BY DEF Start, Busy
<1>2. /\ worker'[w].phase = "extract" /\ worker'[w].message = m
      /\ \A v \in Workers \ {w} : worker'[v] = worker[v]
  BY <1>1, WorkerMoves DEF JobInv
<1>3. /\ m \in DOMAIN stream
      /\ \A k \in DOMAIN stream \ {m} : k \in Open' <=> k \in Open
  BY <1>1, StatusIsOwn DEF Statuses
<1>4. \A v \in Workers : /\ Busy(v)' = Busy(v)
                         /\ worker'[v].message = worker[v].message
  BY <1>1, <1>2 DEF Busy
<1>5. PendingOnce' /\ IdleInv' /\ SharedInv' /\ HeldInv'
  BY <1>1, <1>4, SameHandsKeepHeld
<1>6. AckInv'
  <2> SUFFICES ASSUME NEW u \in Workers, worker'[u].phase = "ack", ~Losing'
               PROVE  worker'[u].message \notin Open' \/ Another(u)'
    BY <1>4 DEF AckInv
  <2>1. u # w /\ worker'[u] = worker[u] /\ worker[u].message \in DOMAIN stream
    BY <1>2, StreamIsTyped DEF JobInv, DeliveryInv, JobTypeOK
  <2>2. CASE worker[u].message = m
    BY <1>2, <2>1, <2>2 DEF Another
  <2>3. CASE worker[u].message # m
    <3>1. worker[u].message \notin Open \/ Another(u)
      BY <1>1, <2>1 DEF WorkInv, AckInv, Losing
    <3>2. Another(u) => Another(u)'
      BY <1>2, <2>1, <2>3 DEF Another
    <3> QED BY <1>3, <2>1, <2>3, <3>1, <3>2
  <2> QED BY <2>2, <2>3
<1>7. UnfinishedJobHasWork'
  <2> SUFFICES ASSUME NEW k \in DOMAIN stream', k \in Open', ~Losing'
               PROVE  k > delivered' \/ Held(k)' \/ \E v \in Workers : WorksOn(v, k)'
    BY DEF UnfinishedJobHasWork, Open, Held
  <2>1. CASE k = m
    BY <1>2, <2>1 DEF WorksOn
  <2>2. CASE k # m
    <3>1. k \in Open /\ ~Losing
      BY <1>1, <1>3, <2>2 DEF Losing
    <3>2. k > delivered \/ Held(k) \/ \E v \in Workers : WorksOn(v, k)
      BY <1>1, <3>1 DEF WorkInv, UnfinishedJobHasWork, Open, Held
    <3> QED BY <1>1, <1>4, <3>2 DEF Held, WorksOn, Busy
  <2> QED BY <2>1, <2>2
<1> QED BY <1>5, <1>6, <1>7 DEF WorkInv

LEMMA WriteOutcomeKeepsWork ==
  ASSUME JobInv, WorkInv, NEW w \in Workers, WriteOutcome(w)
  PROVE  WorkInv'
<1> DEFINE m == worker[w].message
<1>1. /\ Busy(w) /\ Proceed(w, "ack")
      /\ UNCHANGED <<stream, delivered, pending, faults>>
  BY DEF WriteOutcome, Busy
<1>2. /\ worker'[w].phase = "ack" /\ worker'[w].message = m
      /\ \A v \in Workers \ {w} : worker'[v] = worker[v]
  BY <1>1, WorkerMoves DEF JobInv
<1>3. PICK status \in {"COMPLETED", "FAILED"} : SetStatus(w, status)
  BY DEF WriteOutcome
<1>4. /\ m \in DOMAIN stream /\ m \notin Open'
      /\ \A k \in DOMAIN stream \ {m} : k \in Open' <=> k \in Open
  BY <1>1, <1>3, StatusIsOwn DEF Statuses
<1>5. \A v \in Workers : /\ Busy(v)' = Busy(v)
                         /\ worker'[v].message = worker[v].message
  BY <1>1, <1>2 DEF Busy
<1>6. PendingOnce' /\ IdleInv' /\ SharedInv' /\ HeldInv'
  BY <1>1, <1>5, SameHandsKeepHeld
<1>7. AckInv'
  <2> SUFFICES ASSUME NEW u \in Workers, worker'[u].phase = "ack", ~Losing'
               PROVE  worker'[u].message \notin Open' \/ Another(u)'
    BY DEF AckInv
  <2>1. CASE worker[u].message = m
    BY <1>4, <1>5, <2>1
  <2>2. CASE worker[u].message # m
    <3>1. /\ u # w /\ worker'[u] = worker[u] /\ worker[u].phase = "ack"
          /\ worker[u].message \in DOMAIN stream
      BY <1>2, <2>2, StreamIsTyped DEF JobInv, DeliveryInv, JobTypeOK
    <3>2. worker[u].message \notin Open \/ Another(u)
      BY <1>1, <3>1 DEF WorkInv, AckInv, Losing
    <3>3. Another(u) => Another(u)'
      BY <1>2, <2>2, <3>1 DEF Another
    <3> QED BY <1>4, <2>2, <3>1, <3>2, <3>3
  <2> QED BY <2>1, <2>2
<1>8. UnfinishedJobHasWork'
  <2> SUFFICES ASSUME NEW k \in DOMAIN stream', k \in Open', ~Losing'
               PROVE  k > delivered' \/ Held(k)' \/ \E v \in Workers : WorksOn(v, k)'
    BY DEF UnfinishedJobHasWork, Open, Held
  <2>1. k \in Open /\ ~Losing
    BY <1>1, <1>4 DEF Losing
  <2>2. k > delivered \/ Held(k) \/ \E v \in Workers : WorksOn(v, k)
    BY <1>1, <2>1 DEF WorkInv, UnfinishedJobHasWork, Open, Held
  <2> QED BY <1>1, <1>5, <2>2 DEF Held, WorksOn, Busy
<1> QED BY <1>6, <1>7, <1>8 DEF WorkInv

\* Claim and ReadNew give an idle worker a message that is pending and fresh.
LEMMA TakingKeepsWork ==
  ASSUME JobInv, WorkInv, NEW w \in Workers, Claim(w) \/ ReadNew(w)
  PROVE  WorkInv'
<1>1. PICK m \in DOMAIN stream :
        /\ Take(w, m)
        /\ pending' = {p \in pending : p.message # m} \cup {[message |-> m, idle |-> FALSE]}
        /\ (\E v \in Workers : WorksOn(v, m)) => Slow
        /\ \/ delivered' = delivered
           \/ delivered' = delivered + 1 /\ m = delivered + 1
  <2>1. CASE Claim(w)
    <3>1. PICK p \in Idle : /\ pending' = (pending \ {p}) \cup {[p EXCEPT !.idle = FALSE]}
                            /\ Take(w, p.message) /\ UNCHANGED delivered
      BY <2>1 DEF Claim
    <3>2. /\ p \in pending /\ p.idle /\ p.message \in DOMAIN stream
          /\ [p EXCEPT !.idle = FALSE] = [message |-> p.message, idle |-> FALSE]
      BY PendingIsTyped, StreamIsTyped DEF Idle, JobInv
    <3>3. pending \ {p} = {q \in pending : q.message # p.message}
      BY <3>2 DEF WorkInv, PendingOnce
    <3>4. (\E v \in Workers : WorksOn(v, p.message)) => Slow
      BY <3>2 DEF WorkInv, IdleInv
    <3> QED BY <3>1, <3>2, <3>3, <3>4
  <2>2. CASE ReadNew(w)
    <3>1. /\ delivered' = delivered + 1 /\ delivered + 1 \in DOMAIN stream
          /\ pending' = pending \cup {[message |-> delivered + 1, idle |-> FALSE]}
          /\ Take(w, delivered + 1)
      BY <2>2, StreamIsTyped DEF ReadNew, JobInv, JobTypeOK
    <3>2. \A p \in pending : p.message # delivered + 1
      BY PendingIsTyped, StreamIsTyped DEF JobInv, DeliveryInv, JobTypeOK
    <3>3. \A v \in Workers : ~WorksOn(v, delivered + 1)
      BY StreamIsTyped DEF JobInv, DeliveryInv, JobTypeOK, WorksOn
    <3> QED BY <3>1, <3>2, <3>3
  <2> QED BY <2>1, <2>2
<1>2. /\ ~Busy(w) /\ UNCHANGED <<hash, stream, faults>>
  BY DEF Claim, ReadNew, Busy
<1>3. /\ worker'[w].phase = "start" /\ worker'[w].message = m
      /\ \A v \in Workers \ {w} : worker'[v] = worker[v]
  <2>1. /\ worker'[w] = [phase |-> "start", message |-> m]
        /\ \A v \in Workers \ {w} : worker'[v] = worker[v]
    BY <1>1, WorkerMoves DEF JobInv
  <2> QED BY <2>1
<1> DEFINE fresh == [message |-> m, idle |-> FALSE]
<1>4. /\ pending' = {p \in pending : p.message # m} \cup {fresh}
       /\ fresh.message = m /\ ~fresh.idle
  BY <1>1
<1> HIDE DEF fresh
<1>5. /\ Busy(w)' /\ \A v \in Workers \ {w} : Busy(v)' = Busy(v)
      /\ \A v \in Workers : \A k : WorksOn(v, k)' <=> WorksOn(v, k) \/ (v = w /\ k = m)
  <2>1. \A v \in Workers \ {w} : \A k : WorksOn(v, k)' <=> WorksOn(v, k)
    BY <1>3 DEF WorksOn
  <2>2. \A k : ~WorksOn(w, k) /\ (WorksOn(w, k)' <=> k = m)
    BY <1>2, <1>3 DEF WorksOn, Busy
  <2> QED BY <1>3, <2>1, <2>2 DEF Busy
<1>6. Slow' = Slow /\ Losing' = Losing /\ Open' = Open
  BY <1>2 DEF Slow, Losing, Open
<1>7. PendingOnce'
  BY <1>4 DEF WorkInv, PendingOnce
<1>8. IdleInv'
  <2> SUFFICES ASSUME NEW p \in pending', NEW v \in Workers, p.idle,
                      worker'[v].message = p.message, Busy(v)'
               PROVE  Slow
    BY <1>6 DEF IdleInv, WorksOn, Busy
  <2>1. p \in pending /\ p.message # m
    BY <1>4
  <2>2. v # w /\ WorksOn(v, p.message)
    BY <1>3, <2>1 DEF WorksOn, Busy
  <2> QED BY <2>1, <2>2 DEF WorkInv, IdleInv
<1>9. SharedInv'
  <2> SUFFICES ASSUME NEW u \in Workers, NEW v \in Workers, u # v, Busy(u)', Busy(v)',
                      worker'[u].message = worker'[v].message
               PROVE  Slow
    BY <1>6 DEF SharedInv, WorksOn, Busy
  <2>1. CASE u = w \/ v = w
    BY <1>1, <1>3, <1>5, <2>1 DEF WorksOn, Busy
  <2>2. CASE u # w /\ v # w
    BY <1>3, <1>5, <2>2 DEF WorkInv, SharedInv, WorksOn, Busy
  <2> QED BY <2>1, <2>2
<1>10. \A k : Held(k) => Held(k)'
  BY <1>4 DEF Held
<1>11. HeldInv'
  <2> SUFFICES ASSUME NEW u \in Workers, Busy(u)'
               PROVE  Slow \/ \E p \in pending' : p.message = worker'[u].message
    BY <1>6 DEF HeldInv, Held
  <2>1. CASE u = w
    BY <1>3, <1>4, <2>1
  <2>2. CASE u # w
    BY <1>3, <1>5, <1>4, <2>2 DEF WorkInv, HeldInv, Held
  <2> QED BY <2>1, <2>2
<1>12. AckInv'
  <2> SUFFICES ASSUME NEW u \in Workers, worker'[u].phase = "ack", ~Losing
               PROVE  worker'[u].message \notin Open \/ Another(u)'
    BY <1>6 DEF AckInv
  <2>1. u # w /\ worker'[u] = worker[u]
    BY <1>3
  <2>2. worker[u].message \notin Open \/ Another(u)
    BY <2>1 DEF WorkInv, AckInv
  <2>3. Another(u) => Another(u)'
    BY <1>2, <1>3, <2>1 DEF Another, Busy
  <2> QED BY <2>1, <2>2, <2>3
<1>13. UnfinishedJobHasWork'
  <2> SUFFICES ASSUME NEW k \in DOMAIN stream, k \in Open, ~Losing
               PROVE  k > delivered' \/ Held(k)' \/ \E v \in Workers : WorksOn(v, k)'
    BY <1>2, <1>6 DEF UnfinishedJobHasWork, Open, Held
  <2>1. k > delivered \/ Held(k) \/ \E v \in Workers : WorksOn(v, k)
    BY DEF WorkInv, UnfinishedJobHasWork, Open, Held
  <2>2. CASE k > delivered
    BY <1>1, <1>5, <2>2, StreamIsTyped DEF JobInv, JobTypeOK
  <2>3. CASE ~(k > delivered)
    BY <1>5, <1>10, <2>1, <2>3
  <2> QED BY <2>2, <2>3
<1> QED BY <1>7, <1>8, <1>9, <1>11, <1>12, <1>13 DEF WorkInv

\* Acknowledge takes a message away from whoever else works on it.
LEMMA AcknowledgeKeepsWork ==
  ASSUME JobInv, WorkInv, NEW w \in Workers, Acknowledge(w)
  PROVE  WorkInv'
<1> DEFINE m == worker[w].message
<1>1. /\ Busy(w) /\ worker[w].phase = "ack"
      /\ pending' = {p \in pending : p.message # m}
      /\ UNCHANGED <<hash, stream, delivered, faults>>
  BY DEF Acknowledge, Busy
<1>2. /\ worker'[w].phase = "claim"
      /\ \A v \in Workers \ {w} : worker'[v] = worker[v]
  BY StreamIsTyped DEF Acknowledge, NoWork, JobInv, JobTypeOK
<1>3. /\ ~Busy(w)' /\ \A v \in Workers \ {w} : Busy(v)' = Busy(v)
      /\ \A v \in Workers : \A k : WorksOn(v, k)' <=> v # w /\ WorksOn(v, k)
  BY <1>2 DEF Busy, WorksOn
<1>4. Slow' = Slow /\ Losing' = Losing /\ Open' = Open
  BY <1>1 DEF Slow, Losing, Open
<1>5. PendingOnce'
  BY <1>1 DEF WorkInv, PendingOnce
<1>6. IdleInv'
  BY <1>1, <1>3, <1>4 DEF WorkInv, IdleInv
<1>7. SharedInv'
  <2> SUFFICES ASSUME NEW u \in Workers, NEW v \in Workers, u # v, Busy(u)', Busy(v)',
                      worker'[u].message = worker'[v].message
               PROVE  Slow
    BY <1>4 DEF SharedInv, WorksOn, Busy
  <2> QED BY <1>2, <1>3 DEF WorkInv, SharedInv, WorksOn, Busy
<1>8. HeldInv'
  <2> SUFFICES ASSUME NEW u \in Workers, Busy(u)'
               PROVE  Slow \/ \E p \in pending' : p.message = worker'[u].message
    BY <1>4 DEF HeldInv, Held
  <2>1. u # w /\ worker'[u] = worker[u] /\ Busy(u)
    BY <1>2, <1>3
  <2>2. CASE worker[u].message = m
    BY <1>1, <2>1, <2>2 DEF WorkInv, SharedInv, WorksOn, Busy
  <2>3. CASE worker[u].message # m
    BY <1>1, <2>1, <2>3 DEF WorkInv, HeldInv, Held
  <2> QED BY <2>2, <2>3
<1>9. AckInv'
  <2> SUFFICES ASSUME NEW u \in Workers, worker'[u].phase = "ack", ~Losing
               PROVE  worker'[u].message \notin Open \/ Another(u)'
    BY <1>4 DEF AckInv
  <2>1. u # w /\ worker'[u] = worker[u]
    BY <1>2
  <2>2. worker[u].message \notin Open \/ Another(u)
    BY <2>1 DEF WorkInv, AckInv
  <2>3. Another(u) => Another(u)'
    BY <1>1, <1>2, <2>1 DEF Another
  <2> QED BY <2>1, <2>2, <2>3
<1>10. UnfinishedJobHasWork'
  <2> SUFFICES ASSUME NEW k \in DOMAIN stream, k \in Open, ~Losing
               PROVE  k > delivered' \/ Held(k)' \/ \E v \in Workers : WorksOn(v, k)'
    BY <1>1, <1>4 DEF UnfinishedJobHasWork, Open, Held
  <2>1. k > delivered \/ Held(k) \/ \E v \in Workers : WorksOn(v, k)
    BY DEF WorkInv, UnfinishedJobHasWork, Open, Held
  <2>2. CASE k = m
    <3>1. Another(w)
      BY <1>1, <2>2 DEF WorkInv, AckInv
    <3>2. PICK v \in Workers \ {w} : WorksOn(v, m)
      BY <3>1 DEF Another, WorksOn
    <3> QED BY <1>3, <2>2, <3>2
  <2>3. CASE k # m
    <3>1. Held(k) => Held(k)'
      BY <1>1, <2>3 DEF Held
    <3>2. \A v \in Workers : WorksOn(v, k) => WorksOn(v, k)'
      BY <1>3, <2>3 DEF WorksOn
    <3> QED BY <1>1, <2>1, <3>1, <3>2
  <2> QED BY <2>2, <2>3
<1> QED BY <1>5, <1>6, <1>7, <1>8, <1>9, <1>10 DEF WorkInv
\* A failed write is a loss.
LEMMA WriteFailsKeepsWork ==
  ASSUME JobInv, WorkInv, NEW w \in Workers, WriteFails(w)
  PROVE  WorkInv'
<1>1. Fault("redis") /\ UNCHANGED <<hash, stream, delivered, pending>>
  BY DEF WriteFails
<1>2. Losing'
  BY <1>1 DEF Fault, Losing
<1>3. /\ \A v \in Workers \ {w} : worker'[v] = worker[v]
      /\ Busy(w)' => Busy(w) /\ worker'[w].message = worker[w].message
  <2>1. CASE \E phase \in {"fail", "ack"} : Proceed(w, phase)
    BY <2>1, WorkerMoves DEF WriteFails, Busy, JobInv
  <2>2. CASE worker' = [worker EXCEPT ![w] = NoWork]
    BY <2>2 DEF NoWork, Busy, JobInv, JobTypeOK
  <2> QED BY <2>1, <2>2 DEF WriteFails
<1>4. PendingOnce' /\ IdleInv' /\ SharedInv' /\ HeldInv'
  BY <1>1, <1>3, SameHandsKeepHeld DEF Busy
<1>5. AckInv' /\ UnfinishedJobHasWork'
  BY <1>2 DEF AckInv, UnfinishedJobHasWork
<1> QED BY <1>4, <1>5 DEF WorkInv

\* A crash of a worker that is not slow leaves its message pending, and one
\* of a slow worker is a loss.
LEMMA CrashKeepsWork ==
  ASSUME JobInv, WorkInv, NEW w \in Workers, Crash(w)
  PROVE  WorkInv'
<1> DEFINE m == worker[w].message
<1>1. /\ Fault("crash") /\ Busy(w)
      /\ UNCHANGED <<hash, stream, delivered, pending>>
  BY DEF Crash, Busy
<1>2. /\ worker'[w].phase = "claim"
      /\ \A v \in Workers \ {w} : worker'[v] = worker[v]
  BY DEF Crash, NoWork, JobInv, JobTypeOK
<1>3. /\ ~Busy(w)' /\ \A v \in Workers \ {w} : Busy(v)' = Busy(v)
      /\ \A v \in Workers : \A k : WorksOn(v, k)' <=> v # w /\ WorksOn(v, k)
  BY <1>2 DEF Busy, WorksOn
<1>4. PendingOnce' /\ IdleInv' /\ SharedInv' /\ HeldInv'
  BY <1>1, <1>2, <1>3, SameHandsKeepHeld
<1>5. (Losing => Losing') /\ Open' = Open
  BY <1>1, FaultsStay DEF Open
<1>6. Slow => Losing'
  BY <1>1 DEF Slow, Fault, Losing
<1>7. AckInv'
  <2> SUFFICES ASSUME NEW u \in Workers, worker'[u].phase = "ack", ~Losing'
               PROVE  worker'[u].message \notin Open \/ Another(u)'
    BY <1>5 DEF AckInv
  <2>1. u # w /\ worker'[u] = worker[u]
    BY <1>2
  <2>2. worker[u].message \notin Open \/ Another(u)
    BY <1>5, <2>1 DEF WorkInv, AckInv
  <2>3. Another(u) => Another(u)'
    <3>1. worker[u].message # m
      BY <1>1, <1>6, <2>1 DEF WorkInv, SharedInv, WorksOn, Busy
    <3> QED BY <1>2, <2>1, <3>1 DEF Another
  <2> QED BY <2>1, <2>2, <2>3
<1>8. UnfinishedJobHasWork'
  <2> SUFFICES ASSUME NEW k \in DOMAIN stream, k \in Open, ~Losing'
               PROVE  k > delivered \/ Held(k) \/ \E v \in Workers : WorksOn(v, k)'
    BY <1>1, <1>5 DEF UnfinishedJobHasWork, Open, Held
  <2>1. k > delivered \/ Held(k) \/ \E v \in Workers : WorksOn(v, k)
    BY <1>5 DEF WorkInv, UnfinishedJobHasWork, Open, Held
  <2>2. WorksOn(w, k) => Held(k)
    BY <1>1, <1>6 DEF WorkInv, HeldInv, WorksOn, Busy
  <2> QED BY <1>3, <2>1, <2>2
<1> QED BY <1>4, <1>7, <1>8 DEF WorkInv

\* Only a slow worker's message turns idle.
LEMMA MinutePassesKeepsWork ==
  ASSUME JobInv, WorkInv, MinutePasses
  PROVE  WorkInv'
<1>1. PICK p \in pending :
        /\ pending' = (pending \ {p}) \cup {[p EXCEPT !.idle = TRUE]}
        /\ \/ (\A w \in Workers : ~WorksOn(w, p.message)) /\ UNCHANGED faults
           \/ (\E w \in Workers : WorksOn(w, p.message)) /\ Fault("slow")
  BY DEF MinutePasses
<1> DEFINE late == [p EXCEPT !.idle = TRUE]
<1>2. late.message = p.message
  <2>1. late = [message |-> p.message, idle |-> TRUE]
    BY PendingIsTyped DEF JobInv
  <2> QED BY <2>1
<1>3. UNCHANGED <<hash, stream, delivered, worker>>
  BY DEF MinutePasses
<1>4. (Slow => Slow') /\ (Losing => Losing') /\ Open' = Open
  <2>1. UNCHANGED faults \/ \E kind : Fault(kind)
    BY <1>1
  <2> QED BY <1>3, <2>1, FaultsStay DEF Open
<1>5. (\E w \in Workers : WorksOn(w, p.message)) => Slow'
  BY <1>1 DEF Fault, Slow
<1> HIDE DEF late
<1>6. \A k : Held(k)' <=> Held(k)
  <2>1. pending' = (pending \ {p}) \cup {late}
    BY <1>1 DEF late
  <2>2. ASSUME NEW k, NEW q \in pending, q.message = k
        PROVE  \E r \in pending' : r.message = k
    BY <1>2, <2>1, <2>2
  <2>3. ASSUME NEW k, NEW q \in pending', q.message = k
        PROVE  \E r \in pending : r.message = k
    BY <1>2, <2>1, <2>3
  <2> QED BY <2>2, <2>3 DEF Held
<1>7. \A v \in Workers : \A k : (Busy(v)' <=> Busy(v)) /\ (WorksOn(v, k)' <=> WorksOn(v, k))
  BY <1>3 DEF Busy, WorksOn
<1>8. PendingOnce'
  BY <1>1, <1>2 DEF late, WorkInv, PendingOnce
<1>9. IdleInv'
  BY <1>1, <1>2, <1>4, <1>5, <1>7 DEF late, WorkInv, IdleInv
<1>10. SharedInv' /\ HeldInv'
  BY <1>3, <1>4, <1>6, <1>7 DEF WorkInv, SharedInv, HeldInv, WorksOn, Busy, Held
<1>11. AckInv'
  BY <1>3, <1>4 DEF WorkInv, AckInv, Another
<1>12. UnfinishedJobHasWork'
  BY <1>3, <1>4, <1>6, <1>7 DEF WorkInv, UnfinishedJobHasWork, Held
<1> QED BY <1>8, <1>9, <1>10, <1>11, <1>12 DEF WorkInv

\* EXEC adds a message that is still to be delivered.
LEMMA ExecuteKeepsWork ==
  ASSUME JobInv, WorkInv, NEW c \in Clients, Execute(c)
  PROVE  WorkInv'
<1> DEFINE m == client[c]
<1>1. /\ m \in Message /\ hash[m.job] = None
      /\ hash' = [hash EXCEPT ![m.job] = [status |-> "PENDING", payload |-> m.payload]]
      /\ stream' = Append(stream, m)
      /\ UNCHANGED <<delivered, pending, worker, faults>>
  BY DEF Execute, Untouched, JobInv, JobTypeOK
<1>2. /\ stream \in Seq(Message) /\ hash \in [Jobs -> Hash \cup {None}]
      /\ m.job \in Jobs
  BY <1>1 DEF JobInv, JobTypeOK, Message
<1> HIDE DEF m
<1>3. /\ DOMAIN stream' = DOMAIN stream \cup {Len(stream) + 1}
      /\ \A k \in DOMAIN stream : stream'[k] = stream[k]
      /\ \A j \in Jobs \ {m.job} : hash'[j] = hash[j]
  BY <1>1, <1>2
<1>4. \A k \in DOMAIN stream : stream[k].job \in Jobs \ {m.job}
  BY <1>1, NoneAssumption, StreamIsTyped DEF JobInv, EnqueueInv, Message
<1>5. \A k \in DOMAIN stream : k \in Open' <=> k \in Open
  <2>1. \A k \in DOMAIN stream : /\ k \in DOMAIN stream'
                                 /\ hash'[stream'[k].job] = hash[stream[k].job]
    BY <1>3, <1>4
  <2> QED BY <2>1 DEF Open
<1>6. PendingOnce' /\ IdleInv' /\ SharedInv' /\ HeldInv'
  BY <1>1 DEF WorkInv, PendingOnce, IdleInv, SharedInv, HeldInv, Held, WorksOn, Busy,
     Slow
<1>7. AckInv'
  <2>1. \A w \in Workers : worker[w].phase = "ack" => worker[w].message \in DOMAIN stream
    BY StreamIsTyped DEF JobInv, DeliveryInv, JobTypeOK
  <2>2. \A w \in Workers : Another(w) => Another(w)'
    BY <1>1 DEF Another
  <2> QED BY <1>1, <1>5, <2>1, <2>2 DEF WorkInv, AckInv, Losing
<1>8. UnfinishedJobHasWork'
  <2> SUFFICES ASSUME NEW k \in DOMAIN stream', k \in Open', ~Losing
               PROVE  k > delivered \/ Held(k) \/ \E v \in Workers : WorksOn(v, k)
    BY <1>1 DEF UnfinishedJobHasWork, Open, Held, WorksOn, Losing
  <2>1. CASE k \in DOMAIN stream
    BY <1>5, <2>1 DEF WorkInv, UnfinishedJobHasWork, Open, Held
  <2>2. CASE k = Len(stream) + 1
    BY <2>2, StreamIsTyped DEF JobInv, JobTypeOK
  <2> QED BY <1>3, <2>1, <2>2
<1> QED BY <1>6, <1>7, <1>8 DEF WorkInv

LEMMA WorkInvNext == JobInv /\ WorkInv /\ [JobNext]_jobVars => WorkInv'
<1> SUFFICES ASSUME JobInv, WorkInv, [JobNext]_jobVars PROVE WorkInv'
  OBVIOUS
<1>1. CASE UNCHANGED <<hash, stream, delivered, pending, worker, faults>>
  BY <1>1 DEF WorkInv, PendingOnce, IdleInv, SharedInv, HeldInv, Held, AckInv, Another,
     Open, UnfinishedJobHasWork, WorksOn, Busy, Slow, Losing
<1>2. CASE \E c \in Clients : Watch(c) \/ WatchFails(c)
  BY <1>1, <1>2 DEF Watch, WatchFails
<1>3. CASE UNCHANGED jobVars
  BY <1>1, <1>3 DEF jobVars
<1>4. CASE \E c \in Clients : Execute(c)
  BY <1>4, ExecuteKeepsWork
<1>5. ASSUME NEW w \in Workers, Moves(w) \/ Start(w) \/ WriteOutcome(w)
      PROVE  WorkInv'
  BY <1>5, TakingKeepsWork, MovingAlongKeepsWork, StartKeepsWork, WriteOutcomeKeepsWork,
     AcknowledgeKeepsWork, CrashKeepsWork, WriteFailsKeepsWork DEF Moves
<1>6. CASE MinutePasses
  BY <1>6, MinutePassesKeepsWork
<1> QED BY <1>2, <1>3, <1>4, <1>5, <1>6, Steps

\* However many workers crash, or are overtaken because they are slow, a job
\* that its client sees as unfinished has a message or a worker, except after
\* the two losses that the worker's loop admits (UnfinishedJobHasWork).
THEOREM UnfinishedJobsHaveWork == JobSpec => []UnfinishedJobHasWork
<1>1. WorkInv => UnfinishedJobHasWork
  BY DEF WorkInv
<1> QED
  BY <1>1, JobInvInit, JobInvNext, WorkInvInit, WorkInvNext, PTL DEF JobSpec
============================================================================
