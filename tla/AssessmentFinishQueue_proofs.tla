---------------------- MODULE AssessmentFinishQueue_proofs ----------------------
(***************************************************************************)
(* Proofs about AssessmentSession, for any number of requests, questions   *)
(* and scores, and about AssessmentFinishQueue, which extends it, for any  *)
(* number of clients, worker slots, retries and stalls.                    *)
(*                                                                         *)
(* What is stored is complete because answers are never taken back: the    *)
(* count made by finish_validate still holds when the answers are loaded   *)
(* (LoadingIsComplete), so what a request carries to the transaction is    *)
(* complete (BasisIsComplete), whatever was saved in between.              *)
(*                                                                         *)
(* A step of the queue is a step of the session, or one that ends or       *)
(* restarts a worker's run without touching the report (QueueStepKinds).   *)
(* So the session's invariant survives the queue, and with it what a       *)
(* worker may conclude from the reply of its run.                          *)
(***************************************************************************)
EXTENDS AssessmentFinishQueue, FiniteSetTheorems, TLAPS

-----------------------------------------------------------------------------
(* The session *)

\* A request past validation finds an answer to every question.
LoadingIsComplete ==
  \A r \in Requests : pc[r] = "finish_load" => Answered(answers) = Questions

\* A request on its way to the transaction carries complete answers.
BasisIsComplete ==
  \A r \in Requests : pc[r] = "finish_persist" => Answered(basis[r]) = Questions

\* A request that runs the hooks has a stored report behind it.
NotifiesResult == \A r \in Requests : pc[r] = "finish_notify" => result # NoResult

SessionInv ==
  /\ SessionTypeOK
  /\ LoadingIsComplete
  /\ BasisIsComplete
  /\ ResultIsComplete
  /\ CompletedHasResult
  /\ NotifiesResult
  /\ CompletedReplyHasResult

-----------------------------------------------------------------------------
\* validateAllQuestionsAnswered compares two counts; the answered questions
\* are among the questions, so equal counts mean the same set.
LEMMA AllAnsweredMeansEveryQuestion ==
  ASSUME AllAnswered
  PROVE  Answered(answers) = Questions
<1>1. Answered(answers) \subseteq Questions
  BY DEF Answered
<1>2. IsFiniteSet(Questions)
  BY SessionAssumption
<1>3. /\ IsFiniteSet(Answered(answers))
      /\ Cardinality(Answered(answers)) <= Cardinality(Questions)
      /\ Cardinality(Answered(answers)) = Cardinality(Questions)
           => Answered(answers) = Questions
  BY <1>1, <1>2, FS_Subset
<1>4. /\ Cardinality(Questions) \in Nat
      /\ Cardinality(Answered(answers)) \in Nat
  BY <1>2, <1>3, FS_CardinalityType
<1> QED
  BY <1>3, <1>4 DEF AllAnswered

\* upsertAnswersBatch adds and replaces answers and never removes one.
LEMMA UpsertKeepsAnswered ==
  ASSUME NEW r \in Requests, SaveUpsert(r), answers \in Answers,
         Answered(answers) = Questions
  PROVE  Answered(answers') = Questions
<1>1. PICK S \in SUBSET Questions, batch \in UNION {[T -> Scores] : T \in SUBSET Questions} :
        /\ batch \in [S -> Scores]
        /\ answers' = [q \in Questions |-> IF q \in S THEN batch[q] ELSE answers[q]]
  BY DEF SaveUpsert
<1>2. ASSUME NEW q \in Questions PROVE answers'[q] # NoAnswer
  <2>1. CASE q \in S
    BY <1>1, <2>1, SessionAssumption
  <2>2. CASE q \notin S
    BY <1>1, <2>2 DEF Answered
  <2> QED
    BY <2>1, <2>2
<1> QED
  BY <1>2 DEF Answered

\* A request that ends, with or without an answer, leaves its locals in type.
LEMMA LeaveType ==
  ASSUME SessionTypeOK, NEW r \in Requests, Leave(r)
  PROVE  /\ pc' \in [Requests -> Stages]
         /\ seen' \in [Requests -> Statuses \cup {"absent"}]
         /\ basis' \in [Requests -> Answers]
<1>1. NoAnswers \in Answers
  BY DEF NoAnswers, Answers
<1> QED
  BY <1>1 DEF Leave, Goto, SessionTypeOK, Stages

LEMMA RespondType ==
  ASSUME SessionTypeOK, NEW r \in Requests, NEW outcome \in Replies, Respond(r, outcome)
  PROVE  /\ pc' \in [Requests -> Stages]
         /\ seen' \in [Requests -> Statuses \cup {"absent"}]
         /\ basis' \in [Requests -> Answers]
         /\ reply' \in [Requests -> Replies]
BY LeaveType DEF Respond, SessionTypeOK

LEMMA GotoType ==
  ASSUME SessionTypeOK, NEW r \in Requests, NEW stage \in Stages, Goto(r, stage)
  PROVE  pc' \in [Requests -> Stages]
BY DEF Goto, SessionTypeOK

\* Every step keeps the variables in their types.
LEMMA SessionTypeStep ==
  ASSUME SessionTypeOK, [SessionNext]_sessionVars
  PROVE  SessionTypeOK'
<1> USE DEF SessionTypeOK
<1>1. CASE UNCHANGED sessionVars
  BY <1>1 DEF sessionVars
<1>2. /\ {"idle", "save_upsert", "save_mark", "abandon_write", "abandon_all",
          "finish_validate", "finish_load", "finish_persist", "finish_notify"} \subseteq Stages
      /\ {"completed", "error"} \subseteq Replies
      /\ {"started", "in_progress", "completed", "abandoned"} \subseteq Statuses \cap Hooks
  BY DEF Stages, SaveStages, AbandonStages, FinishStages, Replies, Statuses, Hooks
<1>3. ASSUME NEW r \in Requests, StartAssessment(r) PROVE SessionTypeOK'
  BY <1>2, <1>3 DEF StartAssessment
<1>4. ASSUME NEW r \in Requests, SaveRead(r) PROVE SessionTypeOK'
  BY <1>2, <1>4, GotoType DEF SaveRead
<1>5. ASSUME NEW r \in Requests, SaveUpsert(r) PROVE SessionTypeOK'
  <2>1. answers' \in Answers
    BY <1>5 DEF SaveUpsert, Answers
  <2> QED
    BY <1>2, <1>5, <2>1, GotoType, LeaveType DEF SaveUpsert
<1>6. ASSUME NEW r \in Requests, SaveMark(r) PROVE SessionTypeOK'
  BY <1>2, <1>6, LeaveType DEF SaveMark
<1>7. ASSUME NEW r \in Requests, AbandonStep(r) PROVE SessionTypeOK'
  <2>1. CASE AbandonRead(r) \/ AbandonAllRead(r)
    BY <1>2, <2>1, GotoType DEF AbandonRead, AbandonAllRead
  <2>2. CASE AbandonWrite(r) \/ AbandonAllWrite(r)
    BY <1>2, <2>2, LeaveType DEF AbandonWrite, AbandonAllWrite
  <2> QED
    BY <1>7, <2>1, <2>2 DEF AbandonStep
<1>8. ASSUME NEW r \in Requests, FinishRead(r) PROVE SessionTypeOK'
  <2>1. CASE Respond(r, "completed") \/ Respond(r, "error")
    BY <1>2, <1>8, <2>1, RespondType DEF FinishRead
  <2>2. CASE Goto(r, "finish_validate") /\ UNCHANGED <<seen, basis, reply>>
    BY <1>2, <1>8, <2>2, GotoType DEF FinishRead
  <2> QED
    BY <1>8, <2>1, <2>2 DEF FinishRead
<1>9. ASSUME NEW r \in Requests, FinishRun(r) PROVE SessionTypeOK'
  <2>1. CASE FinishValidate(r)
    BY <1>2, <2>1, GotoType, RespondType DEF FinishValidate
  <2>2. CASE FinishLoad(r)
    BY <1>2, <2>2, GotoType DEF FinishLoad
  <2>3. CASE FinishPersist(r)
    BY <1>2, <2>3, GotoType DEF FinishPersist
  <2>4. CASE FinishNotify(r)
    BY <1>2, <2>4, RespondType DEF FinishNotify
  <2> QED
    BY <1>9, <2>1, <2>2, <2>3, <2>4 DEF FinishRun
<1>10. ASSUME NEW r \in Requests, FinishFail(r) \/ Abort(r) PROVE SessionTypeOK'
  <2>1. /\ aborts' \in 0..MaxAborts
        /\ UNCHANGED <<status, answers, result, fired>>
        /\ Respond(r, "completed") \/ Respond(r, "error")
    BY <1>10, SessionAssumption DEF FinishFail, Abort
  <2> QED
    BY <1>2, <2>1, RespondType
<1> QED
  BY <1>1, <1>3, <1>4, <1>5, <1>6, <1>7, <1>8, <1>9, <1>10 DEF SessionNext, SaveStep

-----------------------------------------------------------------------------
LEMMA SessionInitInv ==
  ASSUME SessionInit
  PROVE  SessionInv
<1> USE DEF SessionInit
<1>1. SessionTypeOK
  BY SessionAssumption DEF SessionTypeOK, Answers, NoAnswers, Stages, Replies
<1>2. LoadingIsComplete /\ BasisIsComplete /\ NotifiesResult /\ CompletedReplyHasResult
  BY DEF LoadingIsComplete, BasisIsComplete, NotifiesResult, CompletedReplyHasResult
<1>3. ResultIsComplete /\ CompletedHasResult
  BY DEF ResultIsComplete, CompletedHasResult
<1> QED
  BY <1>1, <1>2, <1>3 DEF SessionInv

\* Once every question is answered it stays so.
LEMMA AnsweredStays ==
  ASSUME SessionTypeOK, [SessionNext]_sessionVars, Answered(answers) = Questions
  PROVE  Answered(answers') = Questions
<1>1. CASE answers' = answers
  BY <1>1
<1>2. CASE \E r \in Requests : SaveUpsert(r)
  BY <1>2, UpsertKeepsAnswered DEF SessionTypeOK
<1> QED
  BY <1>1, <1>2
  DEF SessionNext, sessionVars, StartAssessment, SaveStep, SaveRead, SaveMark, AbandonStep,
      AbandonRead, AbandonWrite, AbandonAllRead, AbandonAllWrite, FinishRead, FinishRun,
      FinishValidate, FinishLoad, FinishPersist, FinishNotify, FinishFail, Abort

\* Only finish_validate lets a request load, and only with every answer there.
LEMMA LoadingStep ==
  ASSUME SessionInv, [SessionNext]_sessionVars
  PROVE  LoadingIsComplete'
<1> SUFFICES ASSUME NEW s \in Requests, pc'[s] = "finish_load"
             PROVE  Answered(answers') = Questions
  BY DEF LoadingIsComplete, Answered
<1>1. CASE pc[s] = "finish_load"
  BY <1>1, AnsweredStays DEF SessionInv, LoadingIsComplete
<1>2. CASE pc[s] # "finish_load"
  <2>1. /\ FinishValidate(s)
        /\ AllAnswered
    BY <1>2
    DEF SessionInv, SessionTypeOK, SessionNext, sessionVars, StartAssessment, SaveStep,
        SaveRead, SaveUpsert, SaveMark, AbandonStep, AbandonRead, AbandonWrite,
        AbandonAllRead, AbandonAllWrite, FinishRead, FinishRun, FinishValidate, FinishLoad,
        FinishPersist, FinishNotify, FinishFail, Abort, Goto, Leave, Respond
  <2>2. answers' = answers
    BY <2>1 DEF FinishValidate
  <2> QED
    BY <2>1, <2>2, AllAnsweredMeansEveryQuestion
<1> QED
  BY <1>1, <1>2

\* What a request carries to the transaction is what it loaded.
LEMMA BasisStep ==
  ASSUME SessionInv, [SessionNext]_sessionVars
  PROVE  BasisIsComplete'
<1> SUFFICES ASSUME NEW s \in Requests, pc'[s] = "finish_persist"
             PROVE  Answered(basis'[s]) = Questions
  BY DEF BasisIsComplete, Answered
<1>1. CASE pc[s] = "finish_persist"
  <2>1. basis'[s] = basis[s]
    BY <1>1
    DEF SessionInv, SessionTypeOK, SessionNext, sessionVars, StartAssessment, SaveStep,
        SaveRead, SaveUpsert, SaveMark, AbandonStep, AbandonRead, AbandonWrite,
        AbandonAllRead, AbandonAllWrite, FinishRead, FinishRun, FinishValidate, FinishLoad,
        FinishPersist, FinishNotify, FinishFail, Abort, Goto, Leave, Respond
  <2> QED
    BY <1>1, <2>1 DEF SessionInv, BasisIsComplete
<1>2. CASE pc[s] # "finish_persist"
  <2>1. FinishLoad(s)
    BY <1>2
    DEF SessionInv, SessionTypeOK, SessionNext, sessionVars, StartAssessment, SaveStep,
        SaveRead, SaveUpsert, SaveMark, AbandonStep, AbandonRead, AbandonWrite,
        AbandonAllRead, AbandonAllWrite, FinishRead, FinishRun, FinishValidate, FinishLoad,
        FinishPersist, FinishNotify, FinishFail, Abort, Goto, Leave, Respond
  <2>2. basis'[s] = answers /\ pc[s] = "finish_load"
    BY <2>1 DEF FinishLoad, SessionInv, SessionTypeOK
  <2> QED
    BY <2>2 DEF SessionInv, LoadingIsComplete
<1> QED
  BY <1>1, <1>2

\* The transaction is the only step that touches the result.
LEMMA ResultStep ==
  ASSUME SessionInv, [SessionNext]_sessionVars
  PROVE  \/ /\ result' = result
            /\ status' = "completed" => status = "completed" \/ result # NoResult
         \/ /\ ~(status = "completed" /\ result # NoResult)
            /\ status' = "completed"
            /\ result' \in Answers
            /\ Answered(result') = Questions
<1>1. ASSUME NEW r \in Requests, FinishPersist(r), result' # result
      PROVE  /\ ~(status = "completed" /\ result # NoResult)
             /\ status' = "completed"
             /\ result' \in Answers
             /\ Answered(result') = Questions
  BY <1>1 DEF FinishPersist, SessionInv, SessionTypeOK, BasisIsComplete
<1>2. CASE \E r \in Requests : FinishPersist(r)
  BY <1>1, <1>2 DEF FinishPersist, SessionInv, SessionTypeOK, BasisIsComplete
<1>3. CASE ~\E r \in Requests : FinishPersist(r)
  BY <1>3
  DEF SessionNext, sessionVars, StartAssessment, SaveStep, SaveRead, SaveUpsert, SaveMark,
      AbandonStep, AbandonRead, AbandonWrite, AbandonAllRead, AbandonAllWrite, FinishRead,
      FinishRun, FinishValidate, FinishLoad, FinishNotify, FinishFail, Abort, OpenStatuses
<1> QED
  BY <1>2, <1>3

LEMMA SessionInvStep ==
  ASSUME SessionInv, [SessionNext]_sessionVars
  PROVE  SessionInv'
<1>1. SessionTypeOK'
  BY SessionTypeStep DEF SessionInv
<1>2. LoadingIsComplete' /\ BasisIsComplete'
  BY LoadingStep, BasisStep
<1>3. result # NoResult => result' # NoResult
  BY ResultStep, SessionAssumption DEF Answers
<1>4. ResultIsComplete' /\ CompletedHasResult'
  <2>1. NoResult \notin Answers
    BY SessionAssumption DEF Answers
  <2> QED
    BY <2>1, ResultStep DEF SessionInv, ResultIsComplete, CompletedHasResult, Answered
<1>5. NotifiesResult'
  <2> SUFFICES ASSUME NEW s \in Requests, pc'[s] = "finish_notify"
               PROVE  result' # NoResult
    BY DEF NotifiesResult
  <2>1. CASE pc[s] = "finish_notify"
    BY <1>3, <2>1 DEF SessionInv, NotifiesResult
  <2>2. CASE pc[s] # "finish_notify"
    <3>1. FinishPersist(s)
      BY <2>2
      DEF SessionInv, SessionTypeOK, SessionNext, sessionVars, StartAssessment, SaveStep,
          SaveRead, SaveUpsert, SaveMark, AbandonStep, AbandonRead, AbandonWrite,
          AbandonAllRead, AbandonAllWrite, FinishRead, FinishRun, FinishValidate, FinishLoad,
          FinishPersist, FinishNotify, FinishFail, Abort, Goto, Leave, Respond
    <3>2. status' = "completed"
      BY <3>1 DEF FinishPersist
    <3> QED
      BY <1>4, <3>2 DEF CompletedHasResult
  <2> QED
    BY <2>1, <2>2
<1>6. CompletedReplyHasResult'
  <2> SUFFICES ASSUME NEW s \in Requests, reply'[s] = "completed"
               PROVE  result' # NoResult
    BY DEF CompletedReplyHasResult
  <2>1. CASE reply[s] = "completed"
    BY <1>3, <2>1 DEF SessionInv, CompletedReplyHasResult
  <2>2. CASE reply[s] # "completed"
    <3>1. \/ FinishRead(s) /\ result # NoResult
          \/ FinishFail(s) /\ result # NoResult
          \/ FinishNotify(s)
      BY <2>2
      DEF SessionInv, SessionTypeOK, SessionNext, sessionVars, StartAssessment, SaveStep,
          SaveRead, SaveUpsert, SaveMark, AbandonStep, AbandonRead, AbandonWrite,
          AbandonAllRead, AbandonAllWrite, FinishRead, FinishRun, FinishValidate, FinishLoad,
          FinishPersist, FinishNotify, FinishFail, Abort, Goto, Leave, Respond
    <3>2. result # NoResult
      BY <3>1 DEF FinishNotify, SessionInv, NotifiesResult
    <3> QED
      BY <1>3, <3>2
  <2> QED
    BY <2>1, <2>2
<1> QED
  BY <1>1, <1>2, <1>4, <1>5, <1>6 DEF SessionInv

\* The strengthened invariant holds of every behaviour.
THEOREM SessionInvariance == SessionSpec => []SessionInv
<1>1. SessionInit => SessionInv
  BY SessionInitInv
<1>2. SessionInv /\ [SessionNext]_sessionVars => SessionInv'
  BY SessionInvStep
<1> QED
  BY <1>1, <1>2, PTL DEF SessionSpec

\* The variables of a session keep their types.
THEOREM SessionTypeCorrect == SessionSpec => []SessionTypeOK
<1>1. SessionInv => SessionTypeOK
  BY DEF SessionInv
<1> QED
  BY <1>1, SessionInvariance, PTL

\* Every stored report was composed from an answer to every question, though
\* answers are counted, loaded and stored in three separate database calls.
THEOREM StoredResultIsComplete == SessionSpec => []ResultIsComplete
<1>1. SessionInv => ResultIsComplete
  BY DEF SessionInv
<1> QED
  BY <1>1, SessionInvariance, PTL

\* A finish call never hands out the link of a report that does not exist.
THEOREM CompletedReplyIsTrue == SessionSpec => []CompletedReplyHasResult
<1>1. SessionInv => CompletedReplyHasResult
  BY DEF SessionInv
<1> QED
  BY <1>1, SessionInvariance, PTL

-----------------------------------------------------------------------------
\* Every step of the session is a step of the report store or leaves it alone.
LEMMA SessionStepIsStoreStep ==
  ASSUME SessionInv, [SessionNext]_sessionVars
  PROVE  [Store!StoreNext]_Store!storeVars
<1> USE DEF Store!storeVars, Store!StoreNext, Store!Complete, Store!Reopen
<1>1. CASE /\ ~(status = "completed" /\ result # NoResult)
           /\ status' = "completed"
           /\ result' \in Answers
           /\ Answered(result') = Questions
  BY <1>1 DEF SessionInv, CompletedHasResult
<1>2. CASE /\ result' = result
           /\ status' = "completed" => status = "completed" \/ result # NoResult
  <2>1. CASE (status' = "completed") = (status = "completed")
    BY <1>2, <2>1
  <2>2. CASE status = "completed" /\ status' # "completed"
    BY <1>2, <2>2
  <2>3. CASE status # "completed" /\ status' = "completed"
    <3>1. result' \in Answers /\ Answered(result') = Questions
      BY <1>2, <2>3 DEF SessionInv, SessionTypeOK, ResultIsComplete
    <3> QED
      BY <2>3, <3>1
  <2> QED
    BY <2>1, <2>2, <2>3
<1> QED
  BY <1>1, <1>2, ResultStep

\* The session implements the report store: the report is written only by a
\* step that completes the session, and never while it is completed.
THEOREM SessionImplementsStore == SessionSpec => SessionKeepsReport
<1>1. SessionInit => Store!StoreInit
  BY DEF SessionInit, Store!StoreInit
<1>2. SessionInv /\ [SessionNext]_sessionVars => [Store!StoreNext]_Store!storeVars
  BY SessionStepIsStoreStep
<1> QED
  BY <1>1, <1>2, SessionInvariance, PTL DEF SessionSpec, SessionKeepsReport, Store!StoreSpec

-----------------------------------------------------------------------------
(* The queue *)

\* A job that may still run has tries left.
TriesAreLeft == job \notin {"completed", "failed"} => tries < MaxTries

QueueInv ==
  /\ SessionInv
  /\ QueueTypeOK
  /\ TriesAreLeft
  /\ CompletedJobHasResult

-----------------------------------------------------------------------------
\* What the queue does to the session beside the session's own steps: a request
\* ends or its reply is replaced, and "completed" is only given for a report.
QueueOnlyStep ==
  /\ UNCHANGED <<status, answers, result, fired>>
  /\ \A r \in Requests :
       \/ pc'[r] = "idle"
       \/ pc'[r] = pc[r] /\ basis'[r] = basis[r]
  /\ \A r \in Requests : reply'[r] = "completed" => reply[r] = "completed" \/ result # NoResult

LEMMA PartsOfRequests ==
  /\ Clients \subseteq Requests /\ Workers \subseteq Requests
  /\ MaxTries \in Nat \ {0} /\ MaxStalls \in Nat /\ MaxEnqueueAborts \in Nat /\ MaxAborts \in Nat
BY QueueAssumption, SessionAssumption

LEMMA QueueOnlyStepKeepsSession ==
  ASSUME SessionInv, SessionTypeOK', QueueOnlyStep
  PROVE  SessionInv'
<1>1. LoadingIsComplete'
  BY DEF SessionInv, QueueOnlyStep, LoadingIsComplete, Answered
<1>2. BasisIsComplete'
  BY DEF SessionInv, QueueOnlyStep, BasisIsComplete, Answered
<1>3. ResultIsComplete' /\ CompletedHasResult'
  BY DEF SessionInv, QueueOnlyStep, ResultIsComplete, CompletedHasResult, Answered
<1>4. NotifiesResult' /\ CompletedReplyHasResult'
  BY DEF SessionInv, QueueOnlyStep, NotifiesResult, CompletedReplyHasResult
<1> QED
  BY <1>1, <1>2, <1>3, <1>4 DEF SessionInv

-----------------------------------------------------------------------------
(* The queue's own actions *)

LEMMA EnqueueReadStep ==
  ASSUME SessionInv, NEW c \in Clients, EnqueueRead(c)
  PROVE  SessionTypeOK' /\ QueueOnlyStep
<1>1. c \in Requests /\ "completed" \in Replies
  BY PartsOfRequests DEF Replies
<1>2. /\ UNCHANGED <<status, answers, result, pc, seen, basis, fired, aborts>>
      /\ \/ reply' = [reply EXCEPT ![c] = "completed"] /\ result # NoResult
         \/ UNCHANGED reply
  BY DEF EnqueueRead
<1>3. reply' \in [Requests -> Replies]
  BY <1>1, <1>2 DEF SessionInv, SessionTypeOK
<1>4. SessionTypeOK'
  BY <1>2, <1>3 DEF SessionInv, SessionTypeOK
<1>5. \A r \in Requests : reply'[r] = "completed" => reply[r] = "completed" \/ result # NoResult
  BY <1>1, <1>2 DEF SessionInv, SessionTypeOK
<1> QED
  BY <1>2, <1>4, <1>5 DEF QueueOnlyStep

LEMMA WorkerTakeStep ==
  ASSUME SessionInv, NEW w \in Workers, WorkerTake(w)
  PROVE  SessionTypeOK' /\ QueueOnlyStep
<1>1. w \in Requests /\ "none" \in Replies
  BY PartsOfRequests DEF Replies
<1>2. /\ UNCHANGED <<status, answers, result, pc, seen, basis, fired, aborts>>
      /\ reply' = [reply EXCEPT ![w] = "none"]
  BY DEF WorkerTake
<1>3. reply' \in [Requests -> Replies]
  BY <1>1, <1>2 DEF SessionInv, SessionTypeOK
<1>4. SessionTypeOK'
  BY <1>2, <1>3 DEF SessionInv, SessionTypeOK
<1>5. \A r \in Requests : reply'[r] = "completed" => reply[r] = "completed"
  BY <1>1, <1>2 DEF SessionInv, SessionTypeOK
<1> QED
  BY <1>2, <1>4, <1>5 DEF QueueOnlyStep

LEMMA WorkerCrashStep ==
  ASSUME SessionInv, NEW w \in Workers, WorkerCrash(w)
  PROVE  SessionTypeOK' /\ QueueOnlyStep
<1>1. w \in Requests
  BY PartsOfRequests
<1>2. UNCHANGED <<status, answers, result, reply, fired>> /\ Leave(w)
  BY DEF WorkerCrash
<1>3. aborts' \in 0..MaxAborts
  BY PartsOfRequests DEF WorkerCrash, SessionInv, SessionTypeOK
<1>4. SessionTypeOK'
  <2>1. /\ pc' \in [Requests -> Stages]
        /\ seen' \in [Requests -> Statuses \cup {"absent"}]
        /\ basis' \in [Requests -> Answers]
    BY <1>1, <1>2, LeaveType DEF SessionInv
  <2> QED
    BY <1>2, <1>3, <2>1 DEF SessionInv, SessionTypeOK
<1>5. ASSUME NEW r \in Requests
      PROVE  pc'[r] = "idle" \/ (pc'[r] = pc[r] /\ basis'[r] = basis[r])
  <2>1. /\ pc' = [pc EXCEPT ![w] = "idle"] /\ pc \in [Requests -> Stages]
        /\ basis' = [basis EXCEPT ![w] = NoAnswers] /\ basis \in [Requests -> Answers]
    BY <1>2 DEF Leave, Goto, SessionInv, SessionTypeOK
  <2>2. CASE r = w
    BY <1>1, <2>1, <2>2
  <2>3. CASE r # w
    BY <2>1, <2>3
  <2> QED
    BY <2>2, <2>3
<1> QED
  BY <1>2, <1>4, <1>5 DEF QueueOnlyStep

\* Every step of the queue is one of the session, or one of the three above.
LEMMA QueueStepKinds ==
  ASSUME SessionInv, [QueueNext]_finishVars
  PROVE  [SessionNext]_sessionVars \/ (SessionTypeOK' /\ QueueOnlyStep)
<1>1. CASE UNCHANGED finishVars
  BY <1>1 DEF finishVars
<1>2. ASSUME NEW c \in Clients, ClientSession(c)
      PROVE  SessionNext
  BY <1>2, PartsOfRequests DEF ClientSession, SessionNext
<1>3. ASSUME NEW c \in Clients, EnqueueRead(c)
      PROVE  SessionTypeOK' /\ QueueOnlyStep
  BY <1>3, EnqueueReadStep
<1>4. ASSUME NEW c \in Clients, Enqueue(c) \/ EnqueueAbort(c)
      PROVE  UNCHANGED sessionVars
  BY <1>4 DEF Enqueue, EnqueueValidate, EnqueueLookup, EnqueueInspect, EnqueueRemove,
     EnqueueAdd, EnqueueAbort
<1>5. ASSUME NEW w \in Workers, WorkerTake(w) \/ WorkerCrash(w)
      PROVE  SessionTypeOK' /\ QueueOnlyStep
  BY <1>5, WorkerTakeStep, WorkerCrashStep
<1>6. ASSUME NEW w \in Workers, WorkerStart(w)
      PROVE  SessionNext
  BY <1>6, PartsOfRequests DEF WorkerStart, SessionNext
<1>7. ASSUME NEW w \in Workers, WorkerDone(w)
      PROVE  UNCHANGED sessionVars
  BY <1>7 DEF WorkerDone
<1>8. ASSUME NEW r \in Requests, SessionRun(r) \/ SessionError(r)
      PROVE  SessionNext
  BY <1>8 DEF SessionRun, SessionError, SessionNext
<1>9. CASE JobStalls
  BY <1>9 DEF JobStalls
<1> QED
  BY <1>1, <1>2, <1>3, <1>4, <1>5, <1>6, <1>7, <1>8, <1>9 DEF QueueNext

LEMMA SessionSurvivesQueue ==
  ASSUME SessionInv, [QueueNext]_finishVars
  PROVE  SessionInv' /\ (result # NoResult => result' # NoResult)
<1>1. CASE [SessionNext]_sessionVars
  <2>1. result # NoResult => result' # NoResult
    BY <1>1, ResultStep, SessionAssumption DEF Answers
  <2> QED
    BY <1>1, <2>1, SessionInvStep
<1>2. CASE SessionTypeOK' /\ QueueOnlyStep
  <2>1. UNCHANGED result
    BY <1>2 DEF QueueOnlyStep
  <2> QED
    BY <1>2, <2>1, QueueOnlyStepKeepsSession
<1> QED
  BY <1>1, <1>2, QueueStepKinds

-----------------------------------------------------------------------------
(* Types of the job and of the calls that enqueue it *)

JobTypeOK ==
  /\ job \in JobStates
  /\ tries \in 0..MaxTries
  /\ stalls \in 0..MaxStalls
  /\ owner \in Workers \cup {NoWorker}
  /\ qpc \in [Clients -> EnqueueStages]
  /\ told \in [Clients -> BOOLEAN]
  /\ lost \in 0..MaxEnqueueAborts

LEMMA QGotoType ==
  ASSUME JobTypeOK, NEW c \in Clients, NEW stage \in EnqueueStages, QGoto(c, stage)
  PROVE  qpc' \in [Clients -> EnqueueStages]
BY DEF JobTypeOK, QGoto

LEMMA AnswerQueuedType ==
  ASSUME JobTypeOK, NEW c \in Clients, AnswerQueued(c)
  PROVE  qpc' \in [Clients -> EnqueueStages] /\ told' \in [Clients -> BOOLEAN]
BY DEF JobTypeOK, AnswerQueued, QGoto, EnqueueStages

LEMMA JobStep ==
  ASSUME JobTypeOK, TriesAreLeft, [QueueNext]_finishVars
  PROVE  JobTypeOK' /\ TriesAreLeft'
<1>0. /\ MaxTries \in Nat \ {0} /\ MaxStalls \in Nat /\ MaxEnqueueAborts \in Nat
      /\ {"idle", "validate", "lookup", "inspect", "remove", "add"} \subseteq EnqueueStages
      /\ {"none", "waiting", "active", "completed", "failed"} \subseteq JobStates
      /\ tries \in Nat /\ stalls \in Nat /\ lost \in Nat
  BY PartsOfRequests DEF EnqueueStages, JobStates, JobTypeOK
<1>1. ASSUME UNCHANGED <<job, tries, stalls, owner, told, lost>>,
             qpc' \in [Clients -> EnqueueStages]
      PROVE  JobTypeOK' /\ TriesAreLeft'
  BY <1>1 DEF JobTypeOK, TriesAreLeft
<1>2. ASSUME UNCHANGED clientVars,
             job' \in JobStates, tries' \in 0..MaxTries, stalls' \in 0..MaxStalls,
             owner' \in Workers \cup {NoWorker}, TriesAreLeft'
      PROVE  JobTypeOK' /\ TriesAreLeft'
  BY <1>2 DEF JobTypeOK, clientVars
<1>3. CASE UNCHANGED finishVars
  BY <1>1, <1>3 DEF finishVars, queueVars, clientVars, JobTypeOK
<1>4. ASSUME NEW c \in Clients, ClientSession(c)
      PROVE  JobTypeOK' /\ TriesAreLeft'
  BY <1>1, <1>4 DEF ClientSession, queueVars, clientVars, JobTypeOK
<1>5. ASSUME NEW c \in Clients, EnqueueRead(c)
      PROVE  JobTypeOK' /\ TriesAreLeft'
  <2>1. UNCHANGED qpc \/ QGoto(c, "validate")
    BY <1>5 DEF EnqueueRead
  <2>2. qpc' \in [Clients -> EnqueueStages]
    BY <1>0, <2>1, QGotoType DEF JobTypeOK
  <2> QED
    BY <1>1, <1>5, <2>2 DEF EnqueueRead, queueVars
<1>6. ASSUME NEW c \in Clients, EnqueueValidate(c) \/ EnqueueLookup(c)
      PROVE  JobTypeOK' /\ TriesAreLeft'
  <2>1. \E stage \in EnqueueStages : QGoto(c, stage)
    BY <1>0, <1>6 DEF EnqueueValidate, EnqueueLookup
  <2>2. qpc' \in [Clients -> EnqueueStages]
    BY <2>1, QGotoType
  <2> QED
    BY <1>1, <1>6, <2>2 DEF EnqueueValidate, EnqueueLookup, queueVars
<1>7. ASSUME NEW c \in Clients, EnqueueInspect(c)
      PROVE  JobTypeOK' /\ TriesAreLeft'
  <2>1. qpc' \in [Clients -> EnqueueStages] /\ told' \in [Clients -> BOOLEAN]
    <3>1. CASE QGoto(c, "remove") /\ UNCHANGED told
      BY <1>0, <3>1, QGotoType DEF JobTypeOK
    <3> QED
      BY <1>7, <3>1, AnswerQueuedType DEF EnqueueInspect
  <2>2. UNCHANGED <<job, tries, stalls, owner, lost>>
    BY <1>7 DEF EnqueueInspect, queueVars
  <2> QED
    BY <2>1, <2>2 DEF JobTypeOK, TriesAreLeft
<1>8. ASSUME NEW c \in Clients, EnqueueRemove(c)
      PROVE  JobTypeOK' /\ TriesAreLeft'
  <2>1. CASE job = "active"
    <3>1. QGoto(c, "idle") /\ UNCHANGED <<job, tries, stalls, owner, told, lost>>
      BY <1>8, <2>1 DEF EnqueueRemove, queueVars
    <3> QED
      BY <1>0, <1>1, <3>1, QGotoType
  <2>2. CASE job # "active"
    <3>1. /\ QGoto(c, "add") /\ UNCHANGED <<owner, told, lost>>
          /\ job' = "none" /\ tries' = 0 /\ stalls' = 0
      BY <1>8, <2>2 DEF EnqueueRemove
    <3>2. qpc' \in [Clients -> EnqueueStages]
      BY <1>0, <3>1, QGotoType
    <3> QED
      BY <1>0, <3>1, <3>2 DEF JobTypeOK, TriesAreLeft
  <2> QED
    BY <2>1, <2>2
<1>9. ASSUME NEW c \in Clients, EnqueueAdd(c)
      PROVE  JobTypeOK' /\ TriesAreLeft'
  <2>1. /\ AnswerQueued(c) /\ UNCHANGED <<tries, stalls, owner, lost>>
        /\ (job' = "waiting" /\ job = "none") \/ job' = job
    BY <1>9 DEF EnqueueAdd
  <2>2. qpc' \in [Clients -> EnqueueStages] /\ told' \in [Clients -> BOOLEAN]
    BY <2>1, AnswerQueuedType
  <2> QED
    BY <1>0, <2>1, <2>2 DEF JobTypeOK, TriesAreLeft
<1>10. ASSUME NEW c \in Clients, EnqueueAbort(c)
       PROVE  JobTypeOK' /\ TriesAreLeft'
  <2>1. /\ QGoto(c, "idle") /\ UNCHANGED <<job, tries, stalls, owner, told>>
        /\ lost' \in 0..MaxEnqueueAborts
    BY <1>0, <1>10 DEF EnqueueAbort, queueVars
  <2>2. qpc' \in [Clients -> EnqueueStages]
    BY <1>0, <2>1, QGotoType
  <2> QED
    BY <2>1, <2>2 DEF JobTypeOK, TriesAreLeft
<1>11. ASSUME NEW w \in Workers, WorkerTake(w)
       PROVE  JobTypeOK' /\ TriesAreLeft'
  BY <1>0, <1>2, <1>11 DEF WorkerTake, JobTypeOK, TriesAreLeft
<1>12. ASSUME NEW w \in Workers, WorkerStart(w)
       PROVE  JobTypeOK' /\ TriesAreLeft'
  BY <1>1, <1>12 DEF WorkerStart, queueVars, clientVars, JobTypeOK
\* The job goes back to waiting only with a try left.
<1>13. ASSUME NEW w \in Workers, WorkerDone(w)
       PROVE  JobTypeOK' /\ TriesAreLeft'
  <2>1. job = "active" /\ owner' = NoWorker /\ UNCHANGED <<stalls, clientVars>> /\ tries < MaxTries
    BY <1>13 DEF WorkerDone, TriesAreLeft
  <2>2. \/ job' = "completed" /\ UNCHANGED tries
        \/ /\ tries' = tries + 1
           /\ (job' = "waiting" /\ tries + 1 < MaxTries) \/ job' = "failed"
    BY <1>13 DEF WorkerDone
  <2> QED
    BY <1>0, <1>2, <2>1, <2>2 DEF JobTypeOK, TriesAreLeft
<1>14. ASSUME NEW w \in Workers, WorkerCrash(w)
       PROVE  JobTypeOK' /\ TriesAreLeft'
  BY <1>2, <1>14 DEF WorkerCrash, JobTypeOK, TriesAreLeft
<1>15. ASSUME NEW r \in Requests, SessionRun(r) \/ SessionError(r)
       PROVE  JobTypeOK' /\ TriesAreLeft'
  BY <1>1, <1>15 DEF SessionRun, SessionError, queueVars, clientVars, JobTypeOK
<1>16. CASE JobStalls
  <2>1. job = "active" /\ owner' = NoWorker /\ UNCHANGED <<tries, clientVars>> /\ tries < MaxTries
    BY <1>16 DEF JobStalls, TriesAreLeft
  <2>2. stalls' \in 0..MaxStalls /\ job' \in {"waiting", "failed"}
    BY <1>0, <1>16 DEF JobStalls, JobTypeOK
  <2> QED
    BY <1>0, <1>2, <2>1, <2>2 DEF JobTypeOK, TriesAreLeft
<1> QED
  BY <1>3, <1>4, <1>5, <1>6, <1>7, <1>8, <1>9, <1>10, <1>11, <1>12, <1>13, <1>14, <1>15, <1>16
     DEF QueueNext, Enqueue

-----------------------------------------------------------------------------
\* Only a worker whose run was answered "completed" completes the job.
LEMMA JobCompletedStep ==
  ASSUME QueueInv, [QueueNext]_finishVars, job' = "completed", job # "completed"
  PROVE  result # NoResult
<1>1. PICK w \in Workers : WorkerDone(w)
  BY DEF QueueNext, finishVars, queueVars, ClientSession, EnqueueRead, Enqueue, EnqueueValidate,
     EnqueueLookup, EnqueueInspect, EnqueueRemove, EnqueueAdd, EnqueueAbort, WorkerTake,
     WorkerStart, WorkerCrash, SessionRun, SessionError, JobStalls
<1>2. reply[w] = "completed"
  BY <1>1 DEF WorkerDone
<1> QED
  BY <1>2, PartsOfRequests DEF QueueInv, SessionInv, CompletedReplyHasResult

LEMMA QueueInvStep ==
  ASSUME QueueInv, [QueueNext]_finishVars
  PROVE  QueueInv'
<1>1. SessionInv' /\ (result # NoResult => result' # NoResult)
  BY SessionSurvivesQueue DEF QueueInv
<1>2. JobTypeOK' /\ TriesAreLeft'
  BY JobStep DEF QueueInv, QueueTypeOK, JobTypeOK
<1>3. CompletedJobHasResult'
  BY <1>1, JobCompletedStep DEF QueueInv, CompletedJobHasResult
<1> QED
  BY <1>1, <1>2, <1>3 DEF QueueInv, QueueTypeOK, JobTypeOK, SessionInv

LEMMA QueueInitInv ==
  ASSUME QueueInit
  PROVE  QueueInv
<1>1. SessionInv
  BY SessionInitInv DEF QueueInit
<1>2. QueueTypeOK
  BY <1>1, PartsOfRequests DEF QueueInit, QueueTypeOK, SessionInv, JobStates, EnqueueStages
<1> QED
  BY <1>1, <1>2, PartsOfRequests DEF QueueInit, QueueInv, TriesAreLeft, CompletedJobHasResult

\* The session's invariant survives stalls, retries and overlapping runs.
THEOREM QueueInvariance == QueueSpec => []QueueInv
<1>1. QueueInit => QueueInv
  BY QueueInitInv
<1>2. QueueInv /\ [QueueNext]_finishVars => QueueInv'
  BY QueueInvStep
<1> QED
  BY <1>1, <1>2, PTL DEF QueueSpec

\* The job, its counters and the calls that enqueue it keep their types; no job
\* is tried more often than configured.
THEOREM QueueTypeCorrect == QueueSpec => []QueueTypeOK
<1>1. QueueInv => QueueTypeOK
  BY DEF QueueInv
<1> QED
  BY <1>1, QueueInvariance, PTL

\* finish-worker: a completed job has a stored report behind it.
THEOREM CompletedJobIsTrue == QueueSpec => []CompletedJobHasResult
<1>1. QueueInv => CompletedJobHasResult
  BY DEF QueueInv
<1> QED
  BY <1>1, QueueInvariance, PTL

\* With workers, stalls and retries in between, the session still implements the
\* report store.
THEOREM QueueImplementsStore == QueueSpec => QueueKeepsReport
<1>1. QueueInit => Store!StoreInit
  BY DEF QueueInit, SessionInit, Store!StoreInit
<1>2. QueueInv /\ [QueueNext]_finishVars => [Store!StoreNext]_Store!storeVars
  <2> SUFFICES ASSUME QueueInv, [QueueNext]_finishVars
               PROVE  [Store!StoreNext]_Store!storeVars
    OBVIOUS
  <2>1. CASE [SessionNext]_sessionVars
    BY <2>1, SessionStepIsStoreStep DEF QueueInv
  <2>2. CASE QueueOnlyStep
    BY <2>2 DEF QueueOnlyStep, Store!storeVars
  <2> QED
    BY <2>1, <2>2, QueueStepKinds DEF QueueInv
<1> QED
  BY <1>1, <1>2, QueueInvariance, PTL DEF QueueSpec, QueueKeepsReport, Store!StoreSpec
===============================================================================
