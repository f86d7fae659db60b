------------------------ MODULE AssessmentFinishQueue ------------------------
(***************************************************************************)
(* Asynchronous finish (ADR 0017): POST .../finish enqueues a BullMQ job   *)
(* whose id is derived from the assessment, a worker runs the same         *)
(* runFinishAssessmentCore as the synchronous path, the client polls.      *)
(*                                                                         *)
(* The session, its requests and the finish steps are those of             *)
(* AssessmentSession; here the requests are split into clients and workers *)
(* and a worker's finish call is driven by the job.                        *)
(***************************************************************************)
EXTENDS AssessmentSession

CONSTANTS
  Clients,           \* HTTP and messenger requests
  Workers,           \* slots of the finish workers
  NoWorker,
  MaxTries,          \* job option attempts
  MaxStalls,         \* BullMQ's default maxStalledCount
  MaxEnqueueAborts   \* enqueue calls that may die halfway

ASSUME QueueAssumption ==
  /\ Clients \cup Workers = Requests
  /\ Clients \cap Workers = {}
  /\ NoWorker \notin Workers
  /\ MaxTries \in Nat \ {0}
  /\ MaxStalls \in Nat
  /\ MaxEnqueueAborts \in Nat

VARIABLES
  job,      \* state of the assessment's job, "none" when Redis has no such job
  tries,    \* failed attempts of the present job
  stalls,   \* times the present job has stalled
  owner,    \* worker holding the lock of the active job
  qpc,      \* next queue call of a client that is enqueueing
  told,     \* the client has been answered 202 queued
  lost      \* enqueue calls that have died so far

queueVars == <<job, tries, stalls, owner>>
clientVars == <<qpc, told, lost>>
finishVars == <<sessionVars, queueVars, clientVars>>

JobStates == {"none", "waiting", "active", "completed", "failed"}
EnqueueStages == {"idle", "validate", "lookup", "inspect", "remove", "add"}

QueueTypeOK ==
  /\ SessionTypeOK
  /\ job \in JobStates
  /\ tries \in 0..MaxTries
  /\ stalls \in 0..MaxStalls
  /\ owner \in Workers \cup {NoWorker}
  /\ qpc \in [Clients -> EnqueueStages]
  /\ told \in [Clients -> BOOLEAN]
  /\ lost \in 0..MaxEnqueueAborts

QueueInit ==
  /\ SessionInit
  /\ job = "none"
  /\ tries = 0
  /\ stalls = 0
  /\ owner = NoWorker
  /\ qpc = [c \in Clients |-> "idle"]
  /\ told = [c \in Clients |-> FALSE]
  /\ lost = 0

-----------------------------------------------------------------------------
(* enqueueFinishAssessment and enqueueFinishJob: one action per awaited call *)

QGoto(c, stage) == qpc' = [qpc EXCEPT ![c] = stage]

\* The client is answered { jobId, status: "queued" }.
AnswerQueued(c) ==
  /\ QGoto(c, "idle")
  /\ told' = [told EXCEPT ![c] = TRUE]

EnqueueRead(c) ==
  /\ qpc[c] = "idle"
  /\ pc[c] = "idle"
  /\ status # "absent"
  /\ \/ /\ result # NoResult
        /\ reply' = [reply EXCEPT ![c] = "completed"]
        /\ UNCHANGED qpc
     \/ /\ result = NoResult
        /\ NotCompleted
        /\ QGoto(c, "validate")
        /\ UNCHANGED reply
  /\ UNCHANGED <<status, answers, result, pc, seen, basis, fired, aborts,
                 queueVars, told, lost>>

EnqueueValidate(c) ==
  /\ qpc[c] = "validate"
  /\ QGoto(c, IF AllAnswered THEN "lookup" ELSE "idle")
  /\ UNCHANGED <<sessionVars, queueVars, told, lost>>

EnqueueLookup(c) ==
  /\ qpc[c] = "lookup"
  /\ QGoto(c, IF job = "none" THEN "add" ELSE "inspect")
  /\ UNCHANGED <<sessionVars, queueVars, told, lost>>

\* getState answers "unknown" for a job that has been removed meanwhile.
EnqueueInspect(c) ==
  /\ qpc[c] = "inspect"
  /\ IF job \in {"completed", "failed"}
     THEN QGoto(c, "remove") /\ UNCHANGED told
     ELSE AnswerQueued(c)
  /\ UNCHANGED <<sessionVars, queueVars, lost>>

\* remove() throws on a job locked by a worker; the request then fails.
EnqueueRemove(c) ==
  /\ qpc[c] = "remove"
  /\ IF job = "active"
     THEN QGoto(c, "idle") /\ UNCHANGED queueVars
     ELSE /\ QGoto(c, "add")
          /\ job' = "none"
          /\ tries' = 0
          /\ stalls' = 0
          /\ UNCHANGED owner
  /\ UNCHANGED <<sessionVars, told, lost>>

\* add() with an id that exists leaves the existing job as it is.
EnqueueAdd(c) ==
  /\ qpc[c] = "add"
  /\ job' = IF job = "none" THEN "waiting" ELSE job
  /\ AnswerQueued(c)
  /\ UNCHANGED <<sessionVars, tries, stalls, owner, lost>>

EnqueueAbort(c) ==
  /\ qpc[c] # "idle"
  /\ lost < MaxEnqueueAborts
  /\ lost' = lost + 1
  /\ QGoto(c, "idle")
  /\ UNCHANGED <<sessionVars, queueVars, told>>

Enqueue(c) ==
  \/ EnqueueValidate(c) \/ EnqueueLookup(c) \/ EnqueueInspect(c)
  \/ EnqueueRemove(c) \/ EnqueueAdd(c)

-----------------------------------------------------------------------------
(* The worker and BullMQ *)

WorkerTake(w) ==
  /\ job = "waiting"
  /\ pc[w] = "idle"
  /\ job' = "active"
  /\ owner' = w
  /\ reply' = [reply EXCEPT ![w] = "none"]
  /\ UNCHANGED <<status, answers, result, pc, seen, basis, fired, aborts,
                 tries, stalls, clientVars>>

\* The job handler calls runFinishAssessmentCore once per attempt.
WorkerStart(w) ==
  /\ job = "active"
  /\ owner = w
  /\ reply[w] = "none"
  /\ FinishRead(w)
  /\ UNCHANGED <<queueVars, clientVars>>

\* Fault: the handler swallows the error, so BullMQ sees a success.
WorkerDoneSwallowsError(w) ==
  /\ job = "active"
  /\ owner = w
  /\ pc[w] = "idle"
  /\ reply[w] # "none"
  /\ owner' = NoWorker
  /\ job' = "completed"
  /\ UNCHANGED <<sessionVars, tries, stalls, clientVars>>

\* Fault: a failed job is dropped (removeOnFail) and leaves nothing to poll.
WorkerDoneDropsFailed(w) ==
  /\ job = "active"
  /\ owner = w
  /\ pc[w] = "idle"
  /\ reply[w] # "none"
  /\ owner' = NoWorker
  /\ job' = IF reply[w] = "completed" THEN "completed" ELSE "none"
  /\ UNCHANGED <<sessionVars, tries, stalls, clientVars>>

\* Fault: an attempt more than configured.
WorkerDoneRetriesOnceMore(w) ==
  /\ job = "active"
  /\ owner = w
  /\ pc[w] = "idle"
  /\ reply[w] # "none"
  /\ owner' = NoWorker
  /\ IF reply[w] = "completed"
     THEN job' = "completed" /\ UNCHANGED tries
     ELSE /\ tries' = tries + 1
          /\ job' = IF tries < MaxTries THEN "waiting" ELSE "failed"
  /\ UNCHANGED <<sessionVars, stalls, clientVars>>

\* A handler that returns completes the job; one that throws is retried
\* until its attempts are used up.
WorkerDone(w) ==
  /\ job = "active"
  /\ owner = w
  /\ pc[w] = "idle"
  /\ reply[w] # "none"
  /\ owner' = NoWorker
  /\ IF reply[w] = "completed"
     THEN job' = "completed" /\ UNCHANGED tries
     ELSE /\ tries' = tries + 1
          /\ job' = IF tries + 1 < MaxTries THEN "waiting" ELSE "failed"
  /\ UNCHANGED <<sessionVars, stalls, clientVars>>

\* The worker process dies: its run stops and nobody renews the job's lock.
WorkerCrash(w) ==
  /\ owner = w
  /\ aborts < MaxAborts
  /\ aborts' = aborts + 1
  /\ owner' = NoWorker
  /\ Leave(w)
  /\ UNCHANGED <<status, answers, result, reply, fired, job,
                 tries, stalls, clientVars>>

\* The lock of an active job expires, because its worker died or because it
\* is too slow to renew it; in the second case the old run goes on unseen.
JobStalls ==
  /\ job = "active"
  /\ owner' = NoWorker
  /\ IF stalls < MaxStalls
     THEN job' = "waiting" /\ stalls' = stalls + 1
     ELSE job' = "failed" /\ UNCHANGED stalls
  /\ UNCHANGED <<sessionVars, tries, clientVars>>

-----------------------------------------------------------------------------
\* Saves, abandons and the messenger's synchronous finish.
ClientSession(c) ==
  /\ qpc[c] = "idle"
  /\ StartAssessment(c) \/ SaveStep(c) \/ AbandonStep(c) \/ FinishRead(c)
  /\ UNCHANGED <<queueVars, clientVars>>

SessionRun(r) == FinishRun(r) /\ UNCHANGED <<queueVars, clientVars>>

SessionError(r) ==
  /\ FinishFail(r) \/ Abort(r)
  /\ UNCHANGED <<queueVars, clientVars>>

QueueNext ==
  \/ \E c \in Clients :
       \/ ClientSession(c) \/ EnqueueRead(c) \/ Enqueue(c) \/ EnqueueAbort(c)
  \/ \E w \in Workers :
       \/ WorkerTake(w) \/ WorkerStart(w) \/ WorkerDone(w) \/ WorkerCrash(w)
  \/ \E r \in Requests : SessionRun(r) \/ SessionError(r)
  \/ JobStalls

QueueSpec == QueueInit /\ [][QueueNext]_finishVars

\* A client's begun call, a worker and BullMQ's stalled-job check keep going.
QueueFairness ==
  /\ \A c \in Clients : WF_finishVars(Enqueue(c))
  /\ WF_finishVars(\E w \in Workers : WorkerTake(w))
  /\ \A w \in Workers : WF_finishVars(WorkerStart(w) \/ WorkerDone(w))
  /\ \A r \in Requests : WF_finishVars(SessionRun(r))
  /\ WF_finishVars(owner = NoWorker /\ JobStalls)

FairQueueSpec == QueueSpec /\ QueueFairness

-----------------------------------------------------------------------------
(* getFinishJobStatus: what a poll answers in the present state. *)
PollStatus ==
  CASE result # NoResult -> "completed"
    [] result = NoResult /\ job \in {"none", "waiting"} -> "queued"
    [] result = NoResult /\ job \in {"active", "completed"} -> "active"
    [] result = NoResult /\ job = "failed" -> "failed"

\* A job is completed only when its assessment has a report, so a poll never
\* has to fall back to "active" for a completed job.
CompletedJobHasResult == job = "completed" => result # NoResult

\* A stalled job, its retry, a second worker and the messenger's synchronous
\* finish may all run the core at once; what the session promises about its
\* report still holds.
QueueKeepsReport == Store!StoreSpec

\* Every client that was answered "queued" eventually polls an end, unless an
\* enqueue call dies between removing a finished job and adding the new one.
QueuedIsSettled ==
  \A c \in Clients : told[c] ~> PollStatus \in {"completed", "failed"}
=============================================================================
