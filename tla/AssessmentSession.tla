-------------------------- MODULE AssessmentSession --------------------------
(***************************************************************************)
(* The life of one assessment session, from startAssessment to a persisted *)
(* report, under concurrent HTTP requests, messenger webhooks and workers. *)
(*                                                                         *)
(* Every request is a sequence of awaited database calls.  A request reads *)
(* the session row once, decides, and writes later: between two of its     *)
(* calls any other request may run.  One action below is one such call;    *)
(* pc[r] says which call request r makes next.  Transactions are one step. *)
(***************************************************************************)
EXTENDS Naturals, FiniteSets

CONSTANTS
  Requests,   \* requests that may be in flight (HTTP handlers, workers)
  Questions,  \* the active questions of the session's model version
  Scores,     \* option scores copied into answers (score_snapshot)
  NoAnswer,   \* no answer row for a question
  NoResult,   \* no report row and no score rows
  MaxAborts   \* how many requests may die between two of their calls

ASSUME SessionAssumption ==
  /\ IsFiniteSet(Questions)
  /\ NoAnswer \notin Scores
  /\ NoResult \notin [Questions -> Scores \cup {NoAnswer}]
  /\ MaxAborts \in Nat

VARIABLES
  status,   \* assessment_sessions.status, or "absent" before the row exists
  answers,  \* the answers rows of the session: question -> score or NoAnswer
  result,   \* the answers the stored scores, diagnosis and report come from
  pc,       \* next database call of each request
  seen,     \* the status a saving request read at its first call
  basis,    \* the answers a finishing request has loaded and scored
  reply,    \* outcome of the request's latest finish call
  fired,    \* fire-and-forget hooks that have been called
  aborts    \* requests that have died so far

sessionVars == <<status, answers, result, pc, seen, basis, reply, fired, aborts>>

Statuses == {"started", "in_progress", "completed", "abandoned"}
OpenStatuses == {"started", "in_progress"}
Answers == [Questions -> Scores \cup {NoAnswer}]
Hooks == {"started", "in_progress", "completed", "abandoned"}
Replies == {"none", "completed", "error"}

SaveStages == {"save_upsert", "save_mark"}
AbandonStages == {"abandon_write", "abandon_all"}
FinishStages == {"finish_validate", "finish_load", "finish_persist", "finish_notify"}
Stages == {"idle"} \cup SaveStages \cup AbandonStages \cup FinishStages

SessionTypeOK ==
  /\ status \in Statuses \cup {"absent"}
  /\ answers \in Answers
  /\ result \in Answers \cup {NoResult}
  /\ pc \in [Requests -> Stages]
  /\ seen \in [Requests -> Statuses \cup {"absent"}]
  /\ basis \in [Requests -> Answers]
  /\ reply \in [Requests -> Replies]
  /\ fired \in SUBSET Hooks
  /\ aborts \in 0..MaxAborts

NoAnswers == [q \in Questions |-> NoAnswer]

SessionInit ==
  /\ status = "absent"
  /\ answers = NoAnswers
  /\ result = NoResult
  /\ pc = [r \in Requests |-> "idle"]
  /\ seen = [r \in Requests |-> "absent"]
  /\ basis = [r \in Requests |-> NoAnswers]
  /\ reply = [r \in Requests |-> "none"]
  /\ fired = {}
  /\ aborts = 0

-----------------------------------------------------------------------------
(* Steps shared by the operations *)

\* The questions that have an answer row.
Answered(a) == {q \in Questions : a[q] # NoAnswer}

\* Fault: one missing answer is let through.
AllAnsweredButOne == Cardinality(Answered(answers)) + 1 >= Cardinality(Questions)

\* countAnswersForAssessment >= countActiveQuestions
AllAnswered == Cardinality(Answered(answers)) >= Cardinality(Questions)

\* assertAssessmentNotCompleted lets every other status through.
NotCompleted == status # "completed"

Goto(r, stage) == pc' = [pc EXCEPT ![r] = stage]

\* The request ends; its local variables are gone with it.
Leave(r) ==
  /\ Goto(r, "idle")
  /\ seen' = [seen EXCEPT ![r] = "absent"]
  /\ basis' = [basis EXCEPT ![r] = NoAnswers]

Respond(r, outcome) ==
  /\ Leave(r)
  /\ reply' = [reply EXCEPT ![r] = outcome]

-----------------------------------------------------------------------------
\* Fault: the row is created with a status the enum does not have.
StartAssessmentAsDraft(r) ==
  /\ status = "absent"
  /\ pc[r] = "idle"
  /\ status' = "draft"
  /\ fired' = fired \cup {"started"}
  /\ UNCHANGED <<answers, result, pc, seen, basis, reply, aborts>>

(* startAssessment: creates the row; everything else needs it to exist. *)
StartAssessment(r) ==
  /\ status = "absent"
  /\ pc[r] = "idle"
  /\ status' = "started"
  /\ fired' = fired \cup {"started"}
  /\ UNCHANGED <<answers, result, pc, seen, basis, reply, aborts>>

(* saveAnswers, first call: load the session, refuse a completed one. *)
SaveRead(r) ==
  /\ pc[r] = "idle"
  /\ status # "absent"
  /\ NotCompleted
  /\ seen' = [seen EXCEPT ![r] = status]
  /\ Goto(r, "save_upsert")
  /\ UNCHANGED <<status, answers, result, basis, reply, fired, aborts>>

(* upsertAnswersBatch: one transaction writes the whole batch.  The status *)
(* is not read again; only a session seen as started is marked next.       *)
SaveUpsert(r) ==
  /\ pc[r] = "save_upsert"
  /\ \E S \in SUBSET Questions : \E batch \in [S -> Scores] :
       /\ S # {}
       /\ answers' = [q \in Questions |-> IF q \in S THEN batch[q] ELSE answers[q]]
  /\ IF seen[r] = "started"
     THEN Goto(r, "save_mark") /\ UNCHANGED <<seen, basis>>
     ELSE Leave(r)
  /\ UNCHANGED <<status, result, reply, fired, aborts>>

(* updateAssessmentStatus(id, "in_progress"): an unconditional update. *)
SaveMark(r) ==
  /\ pc[r] = "save_mark"
  /\ status' = "in_progress"
  /\ fired' = fired \cup {"in_progress"}
  /\ Leave(r)
  /\ UNCHANGED <<answers, result, reply, aborts>>

-----------------------------------------------------------------------------
(* abandonConversationAssessment (messenger): read, then write by id. *)
AbandonRead(r) ==
  /\ pc[r] = "idle"
  /\ status \in OpenStatuses
  /\ Goto(r, "abandon_write")
  /\ UNCHANGED <<status, answers, result, seen, basis, reply, fired, aborts>>

AbandonWrite(r) ==
  /\ pc[r] = "abandon_write"
  /\ status' = "abandoned"
  /\ fired' = fired \cup {"abandoned"}
  /\ Leave(r)
  /\ UNCHANGED <<answers, result, reply, aborts>>

(* abandonInProgressAssessmentsForUser: find the user's open sessions, then *)
(* updateMany with the open statuses as a condition.  The lead hook runs    *)
(* for every session found, also for one that has left the open statuses.   *)
AbandonAllRead(r) ==
  /\ pc[r] = "idle"
  /\ status \in OpenStatuses
  /\ Goto(r, "abandon_all")
  /\ UNCHANGED <<status, answers, result, seen, basis, reply, fired, aborts>>

AbandonAllWrite(r) ==
  /\ pc[r] = "abandon_all"
  /\ status' = IF status \in OpenStatuses THEN "abandoned" ELSE status
  /\ fired' = fired \cup {"abandoned"}
  /\ Leave(r)
  /\ UNCHANGED <<answers, result, reply, aborts>>

-----------------------------------------------------------------------------
(* runFinishAssessmentCore *)

(* Load the session: an existing report is returned whatever the status;   *)
(* a completed session without one is refused.                             *)
FinishRead(r) ==
  /\ pc[r] = "idle"
  /\ status # "absent"
  /\ \/ /\ result # NoResult
        /\ Respond(r, "completed")
     \/ /\ result = NoResult
        /\ ~NotCompleted
        /\ Respond(r, "error")
     \/ /\ result = NoResult
        /\ NotCompleted
        /\ Goto(r, "finish_validate")
        /\ UNCHANGED <<seen, basis, reply>>
  /\ UNCHANGED <<status, answers, result, fired, aborts>>

FinishValidate(r) ==
  /\ pc[r] = "finish_validate"
  /\ IF AllAnswered
     THEN Goto(r, "finish_load") /\ UNCHANGED <<seen, basis, reply>>
     ELSE Respond(r, "error")
  /\ UNCHANGED <<status, answers, result, fired, aborts>>

(* getAnswersWithDetails, then scoring, diagnosis and report composition,  *)
(* which are functions of the answers loaded here.                         *)
FinishLoad(r) ==
  /\ pc[r] = "finish_load"
  /\ basis' = [basis EXCEPT ![r] = answers]
  /\ Goto(r, "finish_persist")
  /\ UNCHANGED <<status, answers, result, seen, reply, fired, aborts>>

\* Fault: the transaction does not look at the row again.
FinishPersistWithoutRecheck(r) ==
  /\ pc[r] = "finish_persist"
  /\ status' = "completed"
  /\ result' = basis[r]
  /\ Goto(r, "finish_notify")
  /\ UNCHANGED <<answers, seen, basis, reply, fired, aborts>>

\* Fault: the request answers right after the transaction, without the hooks.
FinishPersistWithoutHooks(r) ==
  /\ pc[r] = "finish_persist"
  /\ status' = "completed"
  /\ result' = IF status = "completed" THEN result ELSE basis[r]
  /\ Respond(r, "completed")
  /\ UNCHANGED <<answers, fired, aborts>>

(* persistAssessmentResults: one transaction under the row lock.  It looks *)
(* at the row again and keeps what a completed session already has.        *)
FinishPersist(r) ==
  /\ pc[r] = "finish_persist"
  /\ \/ /\ status = "completed"
        /\ result # NoResult
        /\ UNCHANGED <<status, result>>
     \/ /\ ~(status = "completed" /\ result # NoResult)
        /\ status' = "completed"
        /\ result' = basis[r]
  /\ Goto(r, "finish_notify")
  /\ UNCHANGED <<answers, seen, basis, reply, fired, aborts>>

(* The hooks run whether this request or another one wrote the result. *)
FinishNotify(r) ==
  /\ pc[r] = "finish_notify"
  /\ fired' = fired \cup {"completed"}
  /\ Respond(r, "completed")
  /\ UNCHANGED <<status, answers, result, aborts>>

\* Fault: the error is swallowed and the link handed out all the same.
FinishFailAsSuccess(r) ==
  /\ pc[r] \in {"finish_load", "finish_persist"}
  /\ aborts < MaxAborts
  /\ aborts' = aborts + 1
  /\ Respond(r, "completed")
  /\ UNCHANGED <<status, answers, result, fired>>

(* An error while composing or persisting is caught; the session is looked *)
(* up again and a report another request stored counts as success.         *)
FinishFail(r) ==
  /\ pc[r] \in {"finish_load", "finish_persist"}
  /\ aborts < MaxAborts
  /\ aborts' = aborts + 1
  /\ Respond(r, IF result # NoResult THEN "completed" ELSE "error")
  /\ UNCHANGED <<status, answers, result, fired>>

(* The process dies, or a database call outside that try block fails. *)
Abort(r) ==
  /\ pc[r] # "idle"
  /\ aborts < MaxAborts
  /\ aborts' = aborts + 1
  /\ Respond(r, "error")
  /\ UNCHANGED <<status, answers, result, fired>>

-----------------------------------------------------------------------------
SaveStep(r) == SaveRead(r) \/ SaveUpsert(r) \/ SaveMark(r)

AbandonStep(r) ==
  \/ AbandonRead(r) \/ AbandonWrite(r)
  \/ AbandonAllRead(r) \/ AbandonAllWrite(r)

\* What a finish call does once it has been accepted.
FinishRun(r) ==
  \/ FinishValidate(r) \/ FinishLoad(r) \/ FinishPersist(r) \/ FinishNotify(r)

SessionNext ==
  \E r \in Requests :
    \/ StartAssessment(r)
    \/ SaveStep(r)
    \/ AbandonStep(r)
    \/ FinishRead(r)
    \/ FinishRun(r)
    \/ FinishFail(r)
    \/ Abort(r)

\* A request that has begun runs to its end; nobody is obliged to begin one.
SessionFairness ==
  \A r \in Requests :
    WF_sessionVars(SaveUpsert(r) \/ SaveMark(r) \/ AbandonWrite(r)
                     \/ AbandonAllWrite(r) \/ FinishRun(r))

SessionSpec == SessionInit /\ [][SessionNext]_sessionVars

FairSessionSpec == SessionSpec /\ SessionFairness

-----------------------------------------------------------------------------
(* Correctness *)

\* validateAllQuestionsAnswered counts rows and the answers are loaded later:
\* every report is nevertheless composed from an answer to every question.
ResultIsComplete == result # NoResult => Answered(result) = Questions

\* A session is completed only by the transaction that stores its result, so
\* the result page never finds a completed session without a report.
CompletedHasResult == status = "completed" => result # NoResult

\* A finish call that answers "completed" hands out the link of a report that
\* exists, also when another request wrote it or when it recovered from an error.
CompletedReplyHasResult ==
  \A r \in Requests : reply[r] = "completed" => result # NoResult

\* However many finish calls overlap, the report is written only by the step
\* that completes the session, from answers to every question, and never while
\* the session is completed.
Store == INSTANCE ReportStore WITH
  Reports <- {a \in Answers : Answered(a) = Questions},
  NoReport <- NoResult,
  closed <- (status = "completed"),
  report <- result

SessionKeepsReport == Store!StoreSpec

\* A stored result is announced: some finish call reaches the hooks (SMS
\* funnel, conversion event, lead) unless the process dies first.
ResultIsAnnounced == result # NoResult ~> "completed" \in fired \/ aborts > 0

\* ADR 0012: the stored diagnosis is never updated once the session has been
\* completed (it was completed when its result was stored).
StoredResultIsFinal == [][result # NoResult => result' = result]_sessionVars
=============================================================================
