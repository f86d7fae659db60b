# SalesHealthCheck: specifications and proofs

TLA+ modules, TLC configurations and TLAPS proofs for the back end of
SalesHealthCheck, a sales-health assessment: a visitor logs in by one-time
code, answers a questionnaire, gets a scored report, and becomes a lead of a
sales team. The product is a Next.js application over PostgreSQL (Prisma) and
Redis (BullMQ). Almost every operation is a chain of awaited database calls
without a surrounding transaction, so the interesting behaviours are the
interleavings of such chains, and this is what the modules model: **one action
is one database (or queue) call of one request**.

Paths below are relative to the repository root.

## 1. Inventory

### Parts, their state, their operations

| part | state | operations | modelled in |
|---|---|---|---|
| assessment sessions (`src/modules/assessment`) | `AssessmentSession.status`, `Answer` rows, scores, diagnosis, `Report` | start, save answers, abandon (one / all of a user), finish | `AssessmentSession`, abstractly `ReportStore` |
| asynchronous finish (`finish-queue.service.ts`, `scripts/finish-worker.ts`) | one BullMQ job per assessment | enqueue, worker attempt, retry, stall, poll | `AssessmentFinishQueue` |
| lead pipeline (`src/modules/consultation/lead-assignment.service.ts`, `consultation.repository.ts`) | `ConsultationRequest` rows: status, session, report | start / completed / abandoned hooks, stale cron, consultation request, expert's update | `LeadPipeline` |
| lead assignment (same files, `src/modules/staff/staff.repository.ts`) | `assignedToId`, `StaffUser.isActive`, `isPaused`, `lastAssignedAt` | round-robin, claim, transfer, admin assignment | `LeadAssignment` |
| lead CRM back office (`consultation.service.ts`) | `ConsultationRequest` columns people edit, `LeadActivity`, `LeadCallLog` | update, bulk update, log call, transfer, claim, beside the system's hooks, automatic assignment and backfill | `LeadCrm` |
| lead backfill (`lead-backfill.service.ts`) | leads and sessions of a person | resolve the stage, choose the canonical lead, bind, delete the others | `LeadBackfill` |
| follow-up reminders (`follow-up-reminder.service.ts`) | `StaffReminderLog` (unique staff, date, type) | cron round: claim, send, release | `ReminderDigest` |
| staff accounts (`staff.service.ts`) | `StaffUser`, signed sessions | login, bootstrap from the environment, create, patch with last-admin guard | `StaffAccounts` |
| SMS funnel (`src/modules/sms-funnel`, `scripts/sms-funnel-worker.ts`) | `FunnelEnrollment`, `SmsMessage`, delayed jobs | hooks, enroll, schedule, move a call, stop, worker attempt, cron | `SmsFunnel` |
| OTP login (`src/modules/auth`) | `OtpCode`, `User` | send, verify, share a contact | `OtpLogin` |
| rate limits (`src/lib/rate-limit-store.ts`) | sliding windows in Redis or in memory | hit | `RateLimit` |
| messenger bot (`src/modules/messenger`) | `BotConversation` | one handler per update of a chat | `MessengerBot` |
| sales funnel calculator (`sales-funnel.engine.ts`) | stages of a saved funnel | rates, goal seek, what-if | `SalesFunnelEngine` |
| scoring engine (`scoring.engine.ts`) | none | domain, layer and overall scores, health levels | `ScoringEngine` |
| diagnosis engine v2 and its adapter (`src/modules/diagnosis`) | none | priorities, roots, quick win, narrow place, stored bottlenecks | `DiagnosisEngine` |
| report composer and renderer, question bank, account, admin, conversion events, pages | none that a protocol depends on | composition, queries, layout | not modelled |

### How they interact

    browser / messenger webhook
       | start, save, abandon                     | claim, transfer, status
       v                                          v
    assessment sessions --- hooks (not awaited) --> lead pipeline --> lead assignment
       |   ^                       |                    ^                ^
       | enqueue   runFinishCore   v                    |                |
       v   |                   SMS funnel            stale cron    assignment cron
    finish queue -> worker        |
                                  v
                               SMS worker

* `finish` is called by an HTTP handler, by the messenger, or by a queue worker:
  all three run `runFinishAssessmentCore`, and nothing stops two from overlapping.
* Hooks are called with `void ... .catch(...)`: they start after the database
  write they announce, run beside the requests that follow, and are lost when
  the process dies.
* Crons run in another request at the same time as hooks.

### What is hard

Interleavings of call chains that decide on a row read earlier (save versus
finish, two finishes, hook versus hook, hook versus expert, claim versus
round-robin); retried and stalled jobs; a process that dies between two calls;
counts and writes in one READ COMMITTED transaction. `PROJECT.json` lists each
hazard with its line. The properties of a part that answer those hazards:

* sessions: the stored report rests on complete answers, is written once per
  completion, is there whenever somebody was told so, and is announced;
* queue: a completed job means a report; whoever is told "queued" gets an end;
* pipeline: duplicates do not keep growing, nothing takes a lead out of the CRM but
  its expert and a start hook with a stale status, a completed test reaches the sales team;
* assignment: nobody loses a lead to an automatic step, the limit is passed by a
  bounded amount only, the SMS goes to the owner;
* SMS funnel: no SMS goes out twice beyond the faults that happened, none that was
  unwanted when its attempt began, and a pending message is settled unless its job ran
  before its time or failed for good, while the cron's batch has room for others than those;
* login: guesses, accounts and usable codes stay bounded by what overlaps;
* staff: one active admin is left; reminders: one digest per day and person, no
  claim wasted but by a crash;
* CRM: what the checks promise of a closed lead holds under any overlap; the activities
  tell a lead's history as long as nobody overlaps on it, and its statuses only where no start
  hook or backfill, which leave no activity, has changed them;
* limiter: no window holds more than the limit, Retry-After keeps its word;
* bot: a chat that asks questions asks them of a test that can be finished;
* backfill: work on leads nobody touches while it runs is spared, the stage is that of the
  latest test;
* engines: wholes agree with their parts under all the rounding; what the
  diagnosis chooses in four places fits together.

## 2. Plan

Order, most important behaviour first; everything up to 5 is done:

1. `ReportStore`, `AssessmentSession`, `AssessmentFinishQueue` on top of it by EXTENDS.
2. `LeadPipeline`, `LeadAssignment`: separate modules, because
   the pipeline's status and the assignee are different columns and no step
   decides on both, except "a closed lead cannot be claimed", which
   `LeadAssignment` keeps as its `stage`.
3. `SmsFunnel`: enrollments, messages, delayed jobs and workers.
4. `StaffAccounts`, and `LeadCrm` and `ReminderDigest` on top of it; `OtpLogin`,
   `RateLimit`, `MessengerBot`, `LeadBackfill`.
5. `ScoringEngine`, `SalesFunnelEngine`, `DiagnosisEngine`: operators, and an
   action that changes or finishes the inputs.
6. Proofs of every state machine above and of the three engines (section 6):
   every safety property a run checks is a theorem; left is liveness.
7. Left to model: the diagnosis texts and v1 rules; notes, follow-up dates and
   manually created leads of the CRM; opt-out and short links of the SMS funnel;
   recomposition of a stored report.

There are twelve runs: the small services share one MC module and one run.

## 3. Modules

### ReportStore

The abstract promise about one session's report: two variables, `closed` and
`report`; `Complete` writes a report and closes, `Reopen` opens and leaves the
report. There is no other step, so a report is never written while closed,
never removed, never written without closing.

### AssessmentSession

One session and the requests that touch it. The session row, its answers and
what was stored are `status`, `answers` and `result` (the answers that scores,
diagnosis and report were computed from: they are functions of those answers,
so the model stores the arguments). `pc[r]` is the next call of request `r`,
`seen` and `basis` its local variables, `reply` the outcome of its last finish
call, `fired` the hooks that were called.

| action | code |
|---|---|
| `StartAssessment` | `startAssessment` |
| `SaveRead`, `SaveUpsert`, `SaveMark` | `saveAnswers`: load, `upsertAnswersBatch`, unconditional `updateAssessmentStatus` |
| `AbandonRead/Write` | `abandonConversationAssessment`: read, write by id |
| `AbandonAllRead/Write` | `abandonInProgressAssessmentsForUser`: find, `updateMany` with a condition |
| `FinishRead`, `FinishValidate`, `FinishLoad`, `FinishPersist`, `FinishNotify` | `runFinishAssessmentCore`: load the session, count answers, load answers, transaction under the row lock, hooks |
| `FinishFail`, `Abort` | the catch block (looks the session up again), and death anywhere else |

The questions of a session are a constant: they are seeded, and nothing at run
time changes the active ones. In the catch block the second look-up and the
answer are one action; nothing the answer depends on can be undone between.

### AssessmentFinishQueue

EXTENDS `AssessmentSession`, splits its requests into clients and worker slots,
and adds the BullMQ job of the assessment (`job`, `tries`, `stalls`, `owner`)
and the clients' enqueue calls (`qpc`). `EnqueueRead` ... `EnqueueAdd` are the
calls of `enqueueFinishAssessment` and `enqueueFinishJob`; `WorkerStart` calls
the finish core, `WorkerDone` returns or throws to BullMQ; `WorkerTake`,
`JobStalls` and the meaning of `add` and `remove` are BullMQ's, modelled from how
the code configures it (attempts 2, default stall limit 1) and marked external.
A job that stalls because its worker is slow leaves the old run going, so two
workers and a client's synchronous finish may run the core at the same time.

### LeadPipeline

All leads of one person. A process is a hook, cron item, consultation request
or expert's update with its next call in `pc`, the lead it found in `target`
and the status it read in `noted`. `FindBySession` and `FindByUser` are
`findLeadForAssessmentUser`; `BindOnStart`, `BindAndCheck`, `CheckStatus`,
`MoveStatus`, `AttachReportIfMissing` the rest of the three hooks;
`ReadForUpgrade` and `Upgrade` a consultation request on an existing lead;
`StaffRead` and `StaffWrite` an expert's update. `BindOnStart` writes by id what the
status it noted calls for, `MoveStatus` by a condition on the present one. A lead has one status, the
session it is bound to, and whether it has a report. All CRM statuses that an
expert gives after "new" behave alike here and are one ("contacted").

### LeadAssignment

Owners of leads. A task is one call of `autoAssignAndNotifyLead`, `claimLead` or
`transferLead` with its locals; its stages are the database calls.
`lastAssignedAt` matters only through who was assigned longer ago, so it is the
relation `ahead`. `staff` folds "paused", "no phone", "daily call quota spent"
and "excluded from auto-assignment" into one state, since each only removes the
expert from the eligible ones. `byHand` is a history variable: leads whose owner
or status people (or the test itself) have moved, which no automatic limit
governs. An admin may write any staff id as owner: the code checks no role.

### SmsFunnel

The funnel of one person. `facts` are the events that happened to a session,
`leadRow` whether the lead pipeline keeps a row for it; `enrollment`, `sentCount`,
`message`, `scheduled` are the two tables under their unique keys; `job`, `runAt`,
`tries`, `owner` the BullMQ job of a message, whose id is the message's. `FireHook`
is an event of the API with its hook (`hooks.ts`, `enrollment.service.ts`): stop
(`HookStop`, `HookCancel`: two statements), `EnrollFind` and `EnrollUpsert`, then per
step `EnrollCheck` (which also computes the job's delay), `EnrollCreate`, `EnrollEnqueue`. A moved call is `FollowUpList`,
`FollowUpRow`, `FollowUpRemove`, `FollowUpAdd`. A worker attempt is `SmsWorkerTake`,
`SmsGuard` (all of `evaluateSendGuard` in one step), then `SmsSkip` and possibly
`SmsStop` and `SmsCancel`, or `SmsTime` (quiet hours) or `SmsSend`, `SmsMark` and `SmsLog`; `SmsError`,
`SmsFail`, `SmsWorkerDies` and `SmsJobStalls` are what goes wrong. Only the send and what follows it
are in the code's `try`: an error there marks the row failed and throws, an error of any earlier call
throws and leaves the row pending. `CronList` reads at most `CronBatch` (100 in the code) overdue rows in no
given order, and `CronRequeue` adds their jobs. `AddJob` is BullMQ's add: an id that exists is ignored;
completed jobs exist for a thousand later ones and failed ones for five thousand. `Stuck` are the
pending rows whose job has ended in such a way that no add revives it. `delivered`, `early` and `fresh` are histories.

With system leads on, `countConsultationRequests` of the guard counts the row the
pipeline itself created, so nurture and form-abandon messages are always skipped as
"consultation_exists"; `SystemLeads` and `leadRow` model exactly that, and the
safety run has it on.

### StaffAccounts, LeadCrm, ReminderDigest

`StaffAccounts` has the rows of `staff_users`, who holds a session, and `desk[d]`, a
login, creation or patch between its database calls. A signed session is never
looked up again, so a deactivated admin can still patch.

`LeadCrm` EXTENDS it. A visit is one call of `updateConsultationLeadStatus`,
`bulkUpdateLeads`, `logCall`, `transferLead` or `claimLead`, or of one of the system's writers of
the same columns: automatic assignment (`AssignRead/Write`), the start hook and the
backfill (`StartRead`, `BackfillRead`, `BindWrite`), the completed, abandoned and stale hooks
(`TransitionRead/Write`), a consultation request on an existing lead (`UpgradeRead/Decide/Write`). It keeps the rows as
it read them (`seen`), decides on them, and writes the columns of its input by id;
the activities are later calls. `BindWrite` has none: `untold` are the leads whose status
it has changed. An owner may be taken away (`assignedToId: null`). `trail` folds the activities of a lead into what the last ones
say and whether each started where the one before ended. `disturbed` are leads on
which two visits have overlapped or one has died.

`ReminderDigest` EXTENDS it too: the cron calls of one day, each first through the
experts with follow-ups due, then through the admins; `claims` are the rows under
the unique key. A send that throws may have been delivered.

### OtpLogin

`otp_codes` and `users` rows of one phone number, and requests of which each action
is one call. `FindAccount`, `CreateAccount`, `MarkAccount` are shared by `verifyOtp` and
the messenger's `resolveUserFromContactPhone`.

### RateLimit

The sorted set of one key: `members` with their scores (two hits of one millisecond
are told apart by their random suffix), its expiry, requests that carry the
stamp they took before asking Redis. The Lua script is one step.

### MessengerBot

The conversation row, the person's tests, and handlers. `Calls(u, row)` is what a
handler will do for update `u`, given the row it reads: a sequence of call names that
`UpdateConversation`, `MenuFind`, `StartTest`, `Save`, `Advance`, `Finish`, ... consume one at a
time. `SayFails` throws out of the handler: the webhook answers 200 all the same.

### LeadBackfill

One person's sessions and leads. `SweepList` reads the newest session of the group,
`SweepRead` the leads, `SweepCreate`, `SweepBind`, `SweepDelete` write; hooks, experts and the
person go on in between: a session begins or ends (`SessionChanges`), a hook creates a lead (`LeadAppears`),
a lead gets or loses its owner (`LeadHanded`) or a status with an activity (`LeadWorked`). A CRM status is
"new" or "contacted", so that a stale one written back over a newer one shows. `late` is
history: the leads that someone else has touched since the call read them.

### ScoringEngine, SalesFunnelEngine, DiagnosisEngine

The engines' formulas with integers in the unit of their rounding (hundredths of a
percent, ten-thousandths of a rate), and an action that changes the input. Scoring and diagnosis are
functions, so their runs check every reachable input. The two levers of the sales funnel are loops over its
stages, of which there may be any number (four in every default template), so each iteration is a step of
`SalesFunnelEngine`: `WhatIf` and `Propagate` go down the stages, `GoalSeek` and
`BackSolve` up. `Unit` and `Cents` are the two roundings, 10000 and 100 in the code;
the run has 20 and 10, since a product of several rates in ten-thousandths does not fit
into the model checker's integers, while the theorem is about all values.

`DiagnosisEngine` has one operator per layer of diagnosis v2 and of its adapter, over the
answers of sixteen domains, and evaluates the worked example of
`docs/specs/diagnosis-engine-v2-spec.md` to the outputs given there (primary issue 7, roots 16 and
2, quick win 7, narrow place 7, low confidence). Its numbers are exact where the code's are binary
fractions. This matters where the code compares for equality: the weighted coefficient is exactly 1
in the code where it is in the model, and the two ties of engine 7 that are none in the code are named
in `RoundedDown`. Equal priorities of domains with different constants may sort
either way in the code; no property depends on it. A domain with fewer than four answers is incomplete,
as when questions are switched off (`isActive`) for later tests.

### MC modules

`MCAssessmentSession`, `MCAssessmentFinishQueue`, `MCLeadPipeline`,
`MCLeadAssignment` and `MCSmsFunnel` add only symmetry sets and constant values.
`MCServices` brings the small services together: `part` says which one runs, the others
stay in their first state. What one service sees of another is an action of its
own module (an account switched, a lead worked on), so running one at a time
loses nothing these modules model. The requests of all services have the same names, which makes
one symmetry set sound for all of them. Symmetry is never used with a
liveness property.

### Fault operators

An operator preceded by "Fault:" is never part of a specification. It is a
plausible bug of the definition that follows it, and shows that the property it
is paired with in `PROJECT.json` notices that bug in the same run.

## 4. Runs

| run | question | instance |
|---|---|---|
| `AssessmentSession_safety` | is a report complete, written only on completion, present when promised? | 3 requests, 2 questions, 2 scores, 1 death |
| `AssessmentSession_StoredResultIsFinal` (violation) | is a stored diagnosis final, as ADR 0012 says? | 3 requests, 1 question |
| `AssessmentFinishQueue_safety` | does the same hold with stalls, retries and lost workers? | 1 client, 2 worker slots, 2 tries, 1 stall, 3 deaths, 1 lost enqueue |
| `AssessmentFinishQueue_live` | does everyone who was told "queued" get an end, is the result announced? | 1 client, 2 worker slots, 2 tries, 1 stall, 2 deaths |
| `LeadPipeline_safety` | what survives any overlap of two processes? | 2 sessions, 2 processes, 2 lead rows, both settings free; any process may die |
| `LeadPipeline_CrmStatusDoesNotRegress` (violation) | can no CRM status regress, as the comment says? | 2 sessions, 2 processes |
| `LeadPipeline_OneLeadPerPerson` (violation) | is there one lead per person, as the comment says? | 2 sessions, 2 processes |
| `LeadAssignment_safety` | who can lose a lead, how far is the limit passed, who is told? | 2 experts, 2 leads, 2 calls, limit 1 |
| `SmsFunnel_safety` | can an SMS be repeated, or go out unwanted? | 1 session, 2 hooks, 2 workers, 2 events, 2 tries, 3 clock values, 1 fault, system leads on |
| `SmsFunnel_live` | is every pending message settled that is not stuck, also when jobs fail for good before they send, and stuck rows compete for the cron's batch? | 1 hook, 1 worker, a call requested and moved, its confirmation and reminder, 2 faults, 1 try, a cron that takes 1 row |
| `SmsFunnel_PendingIsSettled` (violation) | does the cron re-queue stale messages, as the operations guide says? | 1 hook, 1 worker, 1 event, no fault |
| `Services_safety` | what do login, staff, CRM, reminders, limiter, bot, backfill and engines keep up under overlap, failures and rounding? | see Bounds |

What the passing runs show:

* `ResultIsComplete`: counting and loading answers are different calls, saves go
  on meanwhile, and the report is complete all the same. The reason is that
  answers are only added or replaced.
* `CompletedReplyHasResult`: every path to the answer "completed" (stored before, stored by
  this call, stored by another, found by the catch block) has a report.
* `SessionKeepsReport`, `QueueKeepsReport`: the session, alone and under the
  queue, implements `ReportStore`.
* `CompletedJobHasResult`: the poll's fallback for a completed job without a
  report is never needed.
* `QueuedIsSettled`, `ResultIsAnnounced`: the two liveness properties.
* `NoLateDuplicate`: duplicates come only from calls that had looked before the
  first lead existed; every later one finds a lead. It also shows that as many
  lead rows as processes are enough.
* `OnlyStaleStartRegresses`: of everything that overlaps, one write takes a lead out of the CRM: that
  of a start hook since whose lookup the status has changed. The conditional updates of the other hooks and the
  second read of a consultation request never do.
* `CompletedIsReported`: a completed hook ends with a lead that carries a report, whatever overtook its
  reads, unless it dies, or finds no lead while an administrator has paused lead creation.
* `OwnedIsNotTaken`, `OnlyOwnerIsTold`, `OvershootIsBounded`: see section 6.
* `OncePerFault`: re-queued, re-enrolled and moved messages are sent once; each fault
  (an error after the send, a dead or stalled worker) accounts for one repetition.
* `SendIsWanted`: an attempt that nothing overtook never sends what a stop, a
  consultation or a moved call had made unwanted, although hooks re-activate enrollments.
* `DueIsSettled`: a pending message is settled even when its hook died before adding the job, because the cron
  finds the row. Two kinds of rows stay pending, and the property excepts them: those whose job ran before its
  time, and those whose job failed for good before the send (an error before the `try` three times over, or
  too many stalls), since the job is kept and the cron's add of its id is ignored. Once such rows can fill
  the cron's batch, the code promises nothing of the others either.
* `GuessesBounded`, `AccountsBounded`, `ActiveCodesBounded`: the checks of login are
  made on rows read earlier and nothing is unique, yet what goes wrong is bounded by
  the requests that overlap and those that die.
* `AnAdminRemains`: with the exception it names, two deactivations that overlap.
* `StatusIsBacked`: visits check one row and write another, and still a closed lead has
  its date, a lost one its reason and its call: what backs a status is never taken back.
* `HistoryIsWhole`: the activities of owners chain and end in the present owner, on leads whose visits neither
  overlapped nor died; those of statuses do too unless a start hook or a backfill has changed the
  status, which leaves no activity even without overlap. A bulk update that throws half way does not break that. Overlap does.
* `OneDigestPerDay`, `ClaimIsSpent`: see section 6.
* `WithinLimit`, `RetryAfterIsTruthful`: late hits cost only themselves; whoever waits
  for Retry-After is let in unless someone else was.
* `PositionIsBacked`, `OpenTestsBounded`: whatever message fails, and however handlers
  overlapped before the last fresh start ("new", "fresh", /reset), the chat asks about a test that can be
  finished, and at most one test per failed message is left behind.
* `WorkIsSpared`: a backfill takes what was done on a lead between its read and its write: a newer CRM status
  is overwritten, a lead worked on meanwhile is deleted, and if it was the lead kept that changed, others may have been
  deleted for less. A lead nobody touched in between keeps its CRM status, and goes only
  for one that is there and ranks as high in the order CRM, owner, activity.
* `StageIsLatest`: a backfill on all groups that nothing disturbs leaves one lead, with the stage of the newest session.
* `ScoresAgree`: rounding never makes a whole better than all its parts.
* `LeversStayClose`: a lever moves no count against its own direction by more than half a unit of rounding of every
  count it went through, whatever the number of stages.
* `DiagnosisIsCoherent`: the ladder, the roots, the quick win and the narrow place are chosen
  on their own, yet three different bottlenecks come out, in the order of the diagnoses; a red
  survival domain or a failed gate comes first and is explained by its own questions; the
  weighted and the plain table of dependencies agree; a better answer lowers the priority of its domain.

### Disagreements found

* **A stored diagnosis can be replaced.** ADR 0012 says it is never updated once
  the session is completed. `saveAnswers` checks the status at its first call
  and marks the session `in_progress` without a condition at its last one; when a finish
  completes the session in between, the session is open again, and a finish
  call that read the session before deletes and rewrites scores and diagnosis.
* **One person can have two leads.** `createLeadOnAssessmentStart` and the
  completed hook look for the lead and create one in a later call; nothing in
  the schema makes the pair (person, lead) unique.
* **A start hook can take a lead out of the CRM.** The hook reads the lead's status with its lookup and writes
  `assessment_in_progress` by id. The comment between the two says that CRM statuses must not regress; an expert
  who has moved the lead in between finds it back in the pipeline.
* **A stale SMS may stay pending.** A job that runs in the quiet hours adds itself
  again under its own id while it is active. BullMQ ignores the add; the job then completes
  and is kept, so the cron's adds are ignored as well, until a thousand later jobs have
  completed. `docs/ops/production-deploy.md` says the cron re-queues stale messages.

Smaller observations, which no run claims:

* `checkOtpSendRateLimit` asks the phone's limiter before the address's: a request the
  second one denies has used up a slot of the first, so the Retry-After it gets may be too short.
* A person first verified in the messenger fires no `hookPhoneVerified` when they later log in on the web.
* `/cancel` from a menu that was shown during a test abandons that test. `computeResumePosition`
  counts answers; a gap left by overlapping handlers makes every finish fail
  until the test is cancelled. A late advance after "cancel" and "new" moves the new test's position.
* The backfill deletes a lead with activities for one that only has an owner: the comment of
  `pickCanonicalLead` ranks CRM leads, then activity, then age; the code looks at the owner before the activity.
* A group filter makes the backfill write the stage of the group's newest session, not the person's. Two
  backfills that clash can delete all leads of a person (each deletes what the other keeps).
* A better answer that takes a symptom out of the weak range can raise its priority: its coefficient
  goes from as little as 0.4 to 1. A symptom whose weighted coefficient is exactly 1 falls back to
  the plain table, which makes it 0.5. An incomplete domain still counts as a weak root.
* The sales funnel rounds rates to four decimals: with 49, 43, 35 and 33 leads a what-if
  of zero shows 33.01, and with 107, 1 and 1 a goal seek of the
  customers there are asks for other leads than there are. The page never asks for a what-if of zero.
* The SMS cron reads a hundred overdue rows without an order. Rows that no add revives (see above) are never
  settled and may be among them every time.

### Bounds

Races here are between two calls, and the third request of the session runs is
the one that profits from the damage (the violation of `StoredResultIsFinal`
needs a save and two finishes). Two questions tell "some" from "all", two scores
tell an old report from a new one. One death is enough for a session because a dead request
does nothing more; the queue runs have two and three, so that a job can use up its attempts and one more could fail; one stall and two tries are the code's own limits. Two leads
and a limit of one expert-lead make every capacity check matter; two experts are the least for which
"wrong expert" means something. The bounds are `MaxAborts`,
`MaxTries`, `MaxStalls`, `MaxEnqueueAborts`, `MaxTasks`, `MaxLeads`, `MaxOpen`
and the sets of the configurations. The code's own limits are `MaxTries`
(attempts), `MaxStalls` and `MaxOpen`; the others only bound the instance.

The SMS runs have one session, at most two sequences, a clock of at most three values of
which the middle one is quiet, and as many events as a call that is requested
and moved needs. The liveness run has one hook and one worker, because liveness needs no
race there but faults; the safety run has two of each. With one try a single error fails a job for good before
it sends, and a second one is left for a hook, the cron or the other message. The cron takes one row, so one
stuck row is enough to keep the other out, and the property's premise (fewer stuck rows than the cron takes) is
tested at its limit.

`Services_safety`: two requests in flight everywhere. Login: three codes, one attempt,
three misses per code, one death. Staff: two admins, two experts. CRM: two visits, one admin and two
experts at work, two leads (one owned, one still in the pipeline), seven inputs (an owner taken away among them), one
death; either visit may be one of the system's writers. Reminders: two cron calls, one fault, one admin and one expert switched on and off. Limiter: limit two,
window of two seconds of two ticks, six ticks, one late or failed hit. Bot: two questions, two
tests, one mishap (a failed message since the last fresh start, an overlap or a death). Backfill: two calls, two leads, two sessions,
one change of a lead (with two, 2.0 million states, nothing else is found). Engines: five questions in three domains and two layers; funnels of one to four stages
with five counts up to 160, five deltas (down and up all the way, by a little, and none), three goals; five shapes of answers for four of the sixteen domains (three
survival domains, of which one is incomplete, and the measurement), the others fixed on both sides of the limit of weakness. Each bound lets its hazard happen: the paired fault of
every property is found within them.

### Fairness

* A request that has made its first call goes on (`FinishRun`, `Enqueue`): Node runs the continuation of a settled promise. Nobody is obliged
  to begin a request, so starts, saves and abandons are not fair.
* A free worker slot takes a waiting job and its handler ends; BullMQ's stalled
  check runs for jobs whose worker is gone (`owner = NoWorker`), not for live ones.
* The SMS funnel: hooks and worker attempts that have begun go on, a waiting job that is
  due is taken, the clock passes, the cron runs and re-queues what it listed. A dead
  worker's job is waiting again in the step of the death (the stalled check is part of it).
* No step that models a failure is fair.

`AssessmentFinishQueue_live` lets a worker or a request die, but no enqueue call: a
process that dies between `remove()` and `add()` of `enqueueFinishJob` loses the
job while other clients poll "queued". `ResultIsAnnounced` excuses a death: a process
that dies after the transaction leaves a result nobody announces, because later
finish calls return the stored report without the hooks. Both are real and
listed as hazards.

Deadlock is checked in the runs of sessions, queue and leads: there a new request or an expert's step is
always possible, so a state without successors would be a modelling error. The SMS
funnel and the small services may stop: their events, clocks and requests are bounded.

## 5. Abstractions to keep in mind

* A transaction with a row lock (`persistAssessmentResults`) is one step. A
  transaction that counts and then writes (`pickNextSalesExpert`, the claim) is
  not: at READ COMMITTED each statement sees what others committed.
* `prisma.update` by id on a row that exists always succeeds; failure is the
  explicit step of a death or of an error.
* Time is left out. The stale cron may see any open session as inactive; a lock
  may expire at any moment.
* Eviction of old BullMQ jobs (1000 completed, 5000 failed kept) is not modelled: a kept job is kept. Neither are the
  rate limits of the HTTP routes.
* SMS funnel: the guard is one step; disabled steps, missing phones, opt-out, the funnel
  switch, short links and templates are left out; a follow-up time is one of the clock's
  values; seq_start is enrolled once per person; BullMQ's back-off only delays.
* Login: rate limits and cookies are not part of it. Limiter: one clock; a server whose
  clock is fast is not modelled, and neither are two limiters asked in turn.
* Staff: sessions outlast the behaviour; passwords and the daily call limit are left out.
* CRM: which lead a hook finds, how an expert is picked and what else the system's writers do are left to
  `LeadPipeline`, `LeadAssignment` and `LeadBackfill`; the system may work on any lead at any time. Notes, follow-up dates, the probability override, settings and CSV are left out;
  statuses the rules treat alike are one; the claim's transaction is one step here and taken
  apart in `LeadAssignment`.
* Bot: one person per chat; saving, abandoning and finishing are single steps, taken apart
  in `AssessmentSession`; invalid contacts, the lead of a consultation text and messages after the
  last call are left out; a person may have begun one test in the browser but answers it only in the chat.
* Backfill: one person; dry runs, the limit and the pause switch are left out; assigning
  the lead at the end is `LeadAssignment`'s.
* Enrichment (purchase probability, names, phones, activities, notes) is left
  out: no property tells it apart.

## 6. Proofs

`tlapm` checks every theorem of these modules, for all values of the constants:

| module | about | assumptions on the constants | properties |
|---|---|---|---|
| `AssessmentFinishQueue_proofs` | `AssessmentSession` | `SessionAssumption`: finitely many questions; `NoAnswer` is no score, `NoResult` no set of answers | `SessionTypeOK`, `ResultIsComplete`, `CompletedReplyHasResult`, `SessionKeepsReport` |
| | `AssessmentFinishQueue` | also `QueueAssumption`: the bounds are numbers, `NoWorker` is no worker | `QueueTypeOK`, `CompletedJobHasResult`, `QueueKeepsReport` |
| `LeadPipeline_proofs` | `LeadPipeline` | `PipelineAssumption`: `NoSession` is no session, room for a lead per process | `PipelineTypeOK`, `NoLateDuplicate`, `OnlyStaleStartRegresses`, `CompletedIsReported` |
| `LeadAssignment_proofs` | `LeadAssignment` | `AssignmentAssumption`: finitely many experts, leads and calls; the markers are not members; the limit is positive | `AssignmentTypeOK`, `OvershootIsBounded`, `OnlyOwnerIsTold`, `OwnedIsNotTaken` |
| `SmsFunnel_proofs` | `SmsFunnel` | `SmsAssumption`: markers are not members, bounds are numbers, the last clock value is not quiet; `SequenceAssumption`: finitely many sessions and sequences, each with a step, the events are those the hooks know | `SmsTypeOK`, `OncePerFault`, `SendIsWanted` |
| `LeadCrm_proofs` | `LeadCrm` | `StaffAssumption`, `CrmAssumption`: inputs, first rows and people are of the right kind | `StatusIsBacked`, `HistoryIsWhole` |
| | `LeadBackfill` | `BackfillAssumption`: finitely many calls, bounds are numbers | `WorkIsSpared`, `StageIsLatest` |
| `MessengerBot_proofs` | `MessengerBot` | `BotAssumption`: finitely many handlers, bounds are numbers | `PositionIsBacked`, `OpenTestsBounded` |
| `Services_proofs` | `OtpLogin` | `OtpAssumption`: finitely many requests, bounds are numbers | `GuessesBounded`, `AccountsBounded`, `ActiveCodesBounded` |
| | `RateLimit` | `RateAssumption`: finitely many requests; limit, window and resolution are positive | `WithinLimit`, `RetryAfterIsTruthful` |
| | `StaffAccounts` | `StaffAssumption`: finitely many accounts and requests, nobody both admin and expert | `AnAdminRemains` |
| | `ReminderDigest` | also `DigestAssumption`: finitely many calls, bounds are numbers | `OneDigestPerDay`, `ClaimIsSpent` |
| `Engines_proofs` | `ScoringEngine` | `ScoringAssumption`: finitely many questions and domains, every question in a domain | `ScoresAgree` |
| | `SalesFunnelEngine` | `FunnelAssumption`: counts, deltas and goals are whole, the two roundings positive | `LeversStayClose` |
| | `DiagnosisEngine` | `DiagnosisAssumption`: sixteen domains of up to five questions, answers from 0 to 3 | `DiagnosisIsCoherent` |

**Session.** `ResultIsComplete` is not inductive: a step may store the `basis` of
a request about which the property says nothing. `SessionInv` adds what each
stage of a finish call knows: past validation every question has an answer
(`LoadingIsComplete`), a loaded basis is complete (`BasisIsComplete`), a call that
notifies has a stored result (`NotifiesResult`). The steps need two lemmas: equal counts
mean the same set (`AllAnsweredMeansEveryQuestion`, from
`FS_Subset`), and a save never removes an answer (`UpsertKeepsAnswered`).
`SessionImplementsStore` shows that every step of the session is a
step of `ReportStore` or leaves its variables unchanged.

**Queue.** Every step of the queue is a step of the session, or one that begins,
ends or retries a worker's run and touches neither the report nor what a finish call
carries (`QueueStepKinds`). So the session's invariant, and its refinement, carry over with
workers, stalls and retries. What is added: a job that is completed has
its result because the run that ended replied so (`CompletedReplyHasResult`), and the
counters stay in range because a run that is waiting or going on has a try left (`TriesAreLeft`).

**Pipeline.** Every step is the `Effect` of one process: it changes that process's
variables, removes no lead, and adds one only where the process had decided so when no lead was
there. A late process finds a lead and does not decide so, which is `NoLateDuplicate`. For
`OnlyStaleStartRegresses` each way a status is written is looked at: by an expert; to a status in the CRM; under a
condition that a CRM status does not meet; or, by a start hook, because the status it noted was one of the
pipeline (so it is stale if the present one is in the CRM). What the steps need of the invariant is that the
lead a process has found is there (`TargetExists`). `CompletedIsReported` looks at the calls that can
end a completed hook (`CompletedHookReports`). That one person has one lead and that CRM
statuses never regress are no theorems: two runs refute them.

**Assignment.** The overshoot bound counts, for each expert, the open leads that
automatic steps brought plus the calls that have counted and may still assign. It is
inductive: a call reserves only after seeing the expert below the limit, when at
most `MaxOpen - 1` leads are counted and at most all calls are reservations
(`ReservingKeepsBound`); assigning turns one reservation into one lead
(`AssigningKeepsBound`); everything else shrinks both (`ShrinkingKeepsBound`).
`OnlyOwnerIsTold` needs `ExpertIsPicked` (a call past the pick names an expert),
so that a taken lead counts as owned and the conditional update of another call
fails. `OwnedIsNotTaken` is an action property and follows from the same
invariant step by step.

**Reminders.** A claim that is not spent is held by exactly one cron call, which is sending or about to
release it; the unique key makes the holder unique, so a second digest needs a claim
that was released after an SMS had gone out, and each of those is a counted fault.

**Staff.** While no second deactivation of an admin is in flight, one that is about to write has
another active admin beside it (`AnotherIsActive`): the count saw two, or the account it writes was
inactive at the read and somebody else was not. Nobody takes that admin away without being the second.

**CRM.** An operation checks the row it read and writes over the row as it is. Marks (dates, reason,
call) are only ever set, so the row as read is a lower bound of the row as written (`Grew` in `ReadOK`),
and whatever backed the new status still does (`WrittenIsBacked`). The system's writers
only write statuses that need no backing, or the one they have read (`StageOK`). For the activities,
`Told` says what the row and its activities differ by at each stage of the one operation that has
read the lead (`HistoryInv`): nothing until the row is written, then the input, then the owner; on an `untold` lead nothing is
said of the status.
Two operations on one lead break the premise, which is why the property leaves `disturbed` leads out.

**SMS funnel.** Both invariants are charged accounts, on top of `Shape` (who holds which job, which rows
exist). `Budgets` says of every message that its deliveries, plus the attempts that may still deliver it,
are covered by one first chance and the faults charged to it: a worker's lock covers the chance, and a second one appears
only when an error, a death or a stall is counted in the same step. `FreshKnow` says of an attempt that
nothing has overtaken what it still knows of the row, the enrollment and the hour it has read;
each step that changes one of these takes the attempt out of `fresh`. `Counted` (an enrollment
has counted no more than was delivered) bounds the counter in the type invariant.

**Backfill.** A call's reading stands for every lead but those of `late` (`ReadingsStand`): whoever touches a lead
puts it there for all other calls that have read (`Stays`, `Untouched`). The lead kept is the best one
read (`CanonicalIsBest`), so what is deleted for it ranked no higher (`Spares`). `StageIsLatest` follows
the stage a call has noted to the write, as long as nothing was changed after its look at the sessions (`PureStands`).

**Bot.** What makes the two properties inductive is what a handler's remaining calls say about the chat it
has read. `IsRun` orders the calls of a handler; `CallsAre` shows that each update begins a run that
suits the row; `Fits` says that the rest of the run still does, while the handler is alone. The whole
is `BotInv`: since the last fresh start nothing overlapped or died implies `Calm` (alone, fitting, position
backed except between an abandoning and its reset, tests bounded, answers without gap). The step
into `Calm` is the fresh start itself: `SweeperReady` says that one still alone writes only when
no test is open. TLC checked `BotInv` with one mishap and with two before it was proved.

**Login.** Each bound counts what has happened plus the requests that still carry the right to
make it happen: requests past the attempts check, past the look-up of an account that was not there, past the
consumption of the older codes. Such a request gives its right up in the step that uses it, and
gets it only when the count leaves room.

**Limiter.** A pass that still counts is a member of the set (`PassesAreKept`), because a key outlives its
members (`KeyOutlives`) and pruning with an old stamp removes less, not more. A hit on time that is let in
then finds every pass of its window among fewer than `Limit` members (`EveryWindow`). For
Retry-After, `HintIsEnough` keeps, of the members now there, fewer than the limit beyond the hint.

**Scoring.** The sums of the engine are folds over sets. `GoodSubsets` is an induction over a finite
set which takes the subsets that fulfil the claim as a set, so that no operator has to be instantiated. From
it follow that the fold's function exists (`FoldAddsUp`), that its order does not matter
(`SumTakesOut`), and that a sum over parts is the sum of their sums (`SumNested`): the three ways
the engine adds up agree. A whole lies between its parts because, over a common denominator, the parts
would otherwise add up to more or less than it (`WholeIsBetween`); rounding keeps the order
of fractions (`RoundedMonotone`), and the health levels that of percentages.

**Sales funnel.** A rounded rate times its denominator is off by at most half of the denominator (`OneRate`). One
more stage multiplies the error so far by a rate of at most one and adds half of the count it goes through
(`ErrorsAddUp`, `OneStageOn`, `OneStageBack`), so the sum of those counts, which `passed` keeps,
is what `FunnelInv` bounds the error by, at every stage of the loop and for any number of them. The last rounding adds half of its
unit (`ShownIsClose`, `GoalIsClose`). With the code's roundings this says: while the counts gone through add up to less than
a hundred, a what-if of zero shows exactly the counts there are. Whether the rates narrow or widen matters because
the code clamps them to one, hence the premise `Narrowing`.

**Diagnosis.** The run varies four domains; the theorem is about all sixteen and any active
questions. Each choice is a CHOOSE, so it must be shown that there is something to choose:
a finite set in a strict total order has a first member (`FirstExists`), and the orders of the ladder,
the roots and the quick win are total because equals fall back on the engine id or on the place among the
chosen (`RungIsTotal`, `HigherFirst`). A first member of the ladder has the lowest tier, which is the survival gate
(`SurvivalComesFirst`). A role needs a finding because both tables of dependencies have the same edges, and a
domain without an edge to a weak one weighs nothing (`WeightedSumType`, `RolesHold`). A better answer leaves
the domain's M alone as long as it stays weak, since M looks at its neighbours only (`MUnchanged`), and then
every factor of its index that moves falls (`ProductFalls`). The stored bottlenecks start with what
the diagnoses start with, and grow by one new domain until three or none is left (`AddedIs`, `FilledUpIs`).

**Only model-checked.** Liveness (`QueuedIsSettled`, `ResultIsAnnounced`,
`DueIsSettled`), which TLAPS does not reach.

## 7. Not modelled

* Report composition and rendering, the question bank's look-ups, e-mail and file output: functions of
  their inputs that write text; nothing runs beside them.
* The texts of the diagnoses, the issue families and the v1 rules: tables of wording.
  The v1 ranking (weakness times weight) is a sort.
* Access recovery and account, the admin aggregates, conversion events: queries and single
  appended rows that no other part reads back to decide on.
* The pages under `src/app`: they call the operations modelled here. Signed cookies and the read-through cache.
* Operations left out of the modelled parts, because they write columns that no modelled step
  decides on, or only make one refuse more: notes, follow-up dates, the probability override, settings and exports of the CRM; password
  changes and the call limit of staff accounts; opt-out, short links and templates of the SMS funnel; dry runs
  of the backfill; recomposition of a stored report when business metrics change; money
  columns of the sales funnel.

The pages, the report's text library and the other tables of wording are most of the
repository's lines, so the map covers a small share of them and most of the lines that change shared state.
