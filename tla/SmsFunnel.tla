------------------------------ MODULE SmsFunnel ------------------------------
(***************************************************************************)
(* The SMS funnel of one person.  API requests fire hooks that stop and    *)
(* open enrollments and schedule their messages, as rows of sms_messages   *)
(* and as delayed BullMQ jobs; workers run the jobs, ask the send guard    *)
(* and call the SMS provider; a cron re-queues rows that are overdue; the  *)
(* CRM moves the reminders of a call to a new follow-up time.              *)
(*                                                                         *)
(* A message is a pair <<enrollment, step>>, an enrollment a pair          *)
(* <<sequence, session>>: the unique keys of the two tables.  Every        *)
(* awaited call of a hook or of a worker is a step of its own.             *)
(***************************************************************************)
EXTENDS Integers, Sequences, FiniteSets

CONSTANTS
  Sessions,       \* the person's assessment sessions
  NoSession,      \* session of the start sequence
  Hooks,          \* hooks and CRM requests in flight
  Workers,        \* worker slots
  NoWorker,
  NoMessage,
  StepDelays,     \* sequence -> delays of its steps
  Reminders,      \* steps of call_scheduled with an offset to the call
  Events,         \* events that may happen
  Initially,      \* events that have happened to each session at the start
  SystemLeads,    \* the lead pipeline keeps a consultation_requests row
  MaxUnanswered,  \* setting of the same name
  MaxTries,       \* job option attempts
  MaxStalls,      \* BullMQ's default maxStalledCount
  CronBatch,      \* rows one call of the cron takes
  MaxTime,        \* bound of the clock
  Quiet,          \* clock values at which no SMS may be sent
  MaxCalls,       \* bound of the events
  MaxFaults       \* bound of errors, deaths and stalled jobs

ASSUME SmsAssumption ==
  /\ NoSession \notin Sessions
  /\ NoWorker \notin Workers
  /\ MaxTime \in Nat
  /\ Quiet \subseteq 0..(MaxTime - 1)
  /\ MaxUnanswered \in Nat
  /\ MaxTries \in Nat \ {0}
  /\ MaxStalls \in Nat
  /\ CronBatch \in Nat \ {0}
  /\ MaxCalls \in Nat
  /\ MaxFaults \in Nat

VARIABLES
  facts,      \* events that have happened to a session
  leadRow,    \* the session has a consultation_requests row
  enrollment, \* status of an enrollment, "none" when there is no row
  sentCount,  \* messagesSentCount of an enrollment
  message,    \* status of a message, "none" when there is no row
  scheduled,  \* scheduledFor of a message
  job,        \* state of a message's job
  runAt,      \* time from which a waiting job may run
  tries,      \* failed attempts of a job
  stalls,     \* times a job has stalled
  owner,      \* worker holding the lock of an active job
  hook,       \* hooks in flight
  worker,     \* attempts in flight
  overdue,    \* rows the cron has read and not yet re-queued
  now,
  calls,
  faults,
  \* History, read by the properties only.
  delivered,  \* SMS the provider has accepted for a message
  early,      \* messages whose job has run before its time
  fresh       \* attempts since whose start nothing they checked has changed

crmVars == <<facts, leadRow>>
rowVars == <<enrollment, sentCount, message, scheduled>>
jobVars == <<job, runAt, tries, stalls, owner>>
historyVars == <<delivered, early, fresh>>
smsVars == <<crmVars, rowVars, jobVars, hook, worker, overdue, now, calls,
             faults, historyVars>>

NurtureSequences ==
  {"start", "incomplete", "report_ready", "nurture", "form_abandon"}

Keys == Sessions \cup {NoSession}

\* Only the start sequence is enrolled without a session.
Enrollments ==
  {e \in (DOMAIN StepDelays) \X Keys : e[1] = "start" <=> e[2] = NoSession}

Steps(e) == DOMAIN StepDelays[e[1]]

Messages == UNION {{<<e, k>> : k \in Steps(e)} : e \in Enrollments}

HookIdle == [pc |-> "idle", event |-> "none", session |-> NoSession, step |-> 0,
             found |-> "none", at |-> 0, delay |-> 0, todo |-> {}]
WorkerIdle == [pc |-> "idle", message |-> NoMessage, at |-> 0, reason |-> "none"]

SmsInit ==
  /\ facts = [s \in Keys |-> IF s = NoSession THEN {} ELSE Initially]
  /\ leadRow = [s \in Sessions |-> FALSE]
  /\ enrollment = [e \in Enrollments |-> "none"]
  /\ sentCount = [e \in Enrollments |-> 0]
  /\ message = [m \in Messages |-> "none"]
  /\ scheduled = [m \in Messages |-> 0]
  /\ job = [m \in Messages |-> "none"]
  /\ runAt = [m \in Messages |-> 0]
  /\ tries = [m \in Messages |-> 0]
  /\ stalls = [m \in Messages |-> 0]
  /\ owner = [m \in Messages |-> NoWorker]
  /\ hook = [h \in Hooks |-> HookIdle]
  /\ worker = [w \in Workers |-> WorkerIdle]
  /\ overdue = {}
  /\ now = 0
  /\ calls = 0
  /\ faults = 0
  /\ delivered = [m \in Messages |-> 0]
  /\ early = {}
  /\ fresh = {}

-----------------------------------------------------------------------------
(* The clock and the queue *)

SoonestOf(T) == CHOOSE t \in T : \A u \in T : t <= u

\* nextAllowedSmsSendTime; the last clock value is never quiet.
NextAllowed(t) ==
  IF t >= MaxTime THEN MaxTime ELSE SoonestOf({u \in t..MaxTime : u \notin Quiet})

\* A delay is computed from the clock before it is used.
Ahead(t) == IF t > now THEN t - now ELSE 0
After(delay) == IF now + delay < MaxTime THEN now + delay ELSE MaxTime

Tick ==
  /\ now < MaxTime
  /\ now' = now + 1
  /\ fresh' = {}
  /\ UNCHANGED <<crmVars, rowVars, jobVars, hook, worker, overdue, calls,
                 faults, delivered, early>>

\* Fault: every add gets a job, whatever the id.
AddJobAnew(m, t) ==
  /\ job' = [job EXCEPT ![m] = "waiting"]
  /\ runAt' = [runAt EXCEPT ![m] = t]
  /\ tries' = [tries EXCEPT ![m] = 0]
  /\ stalls' = [stalls EXCEPT ![m] = 0]
  /\ owner' = [owner EXCEPT ![m] = NoWorker]

\* add() with the id of a job that still exists changes nothing; finished
\* jobs exist until a thousand later ones, five thousand when they failed,
\* have pushed them out.
AddJob(m, t) ==
  IF job[m] = "none"
  THEN /\ job' = [job EXCEPT ![m] = "waiting"]
       /\ runAt' = [runAt EXCEPT ![m] = t]
       /\ tries' = [tries EXCEPT ![m] = 0]
       /\ stalls' = [stalls EXCEPT ![m] = 0]
       /\ UNCHANGED owner
  ELSE UNCHANGED jobVars

\* What an attempt has checked may change under it.
Overtake(ms) == fresh' = {w \in fresh : worker[w].message \notin ms}

Fault == faults < MaxFaults /\ faults' = faults + 1

-----------------------------------------------------------------------------
(* Events of the person and their hooks *)

Step(h, stage) == hook' = [hook EXCEPT ![h].pc = stage]
Finish(h) == hook' = [hook EXCEPT ![h] = HookIdle]

\* Enrollments an event, or a send guard's verdict, stops.
Scope(cause, s) ==
  {e \in Enrollments :
     CASE cause = "started" -> e[1] \in NurtureSequences
       [] cause = "in_progress" -> e[1] = "start"
       [] cause = "completed" -> e[1] \in {"incomplete", "start"} /\ e[2] = s
       [] cause = "submitted" -> e[1] \in NurtureSequences /\ e[2] = s
       [] cause = "max_unanswered_reached" -> s \in {e[2], NoSession}
       [] cause = "converted" ->
            e[1] \in {"nurture", "form_abandon", "report_ready"} /\ e[2] = s
       [] OTHER -> FALSE}

StatusAfter(cause) ==
  IF cause \in {"submitted", "converted"} THEN "converted" ELSE "stopped"

SequenceOf ==
  [verified |-> "start", in_progress |-> "incomplete",
   completed |-> "report_ready", viewed |-> "nurture",
   consultation_started |-> "form_abandon", submitted |-> "call_scheduled"]

\* Every sequence has steps, and an event that opens a sequence has one.
ASSUME SequenceAssumption ==
  /\ IsFiniteSet(Sessions) /\ IsFiniteSet(DOMAIN StepDelays)
  /\ \A q \in DOMAIN StepDelays : StepDelays[q] \in Seq(Nat) /\ StepDelays[q] # <<>>
  /\ Events \subseteq DOMAIN SequenceOf \cup {"started", "follow_up"}
  /\ Initially \subseteq Events \cup {"started", "in_progress", "completed"}
  /\ \A event \in Events \cap DOMAIN SequenceOf :
       SequenceOf[event] \in DOMAIN StepDelays

FirstStage(event) ==
  CASE event \in {"started", "in_progress", "completed", "submitted"} -> "stop"
    [] event \in {"verified", "viewed", "consultation_started"} -> "find"
    [] event = "follow_up" -> "list"

Possible(event, s) ==
  LET past == facts[s]
  IN  CASE event = "verified" -> s = NoSession /\ event \notin past
        [] event = "started" -> s # NoSession /\ event \notin past
        [] event = "in_progress" -> "started" \in past /\ "completed" \notin past
        [] event = "completed" -> "in_progress" \in past /\ event \notin past
        [] event \in {"viewed", "consultation_started"} -> "completed" \in past
        [] event = "submitted" -> "completed" \in past /\ event \notin past
        [] event = "follow_up" -> "submitted" \in past

\* The request stores its fact, then fires the hook and does not wait for it;
\* t is the follow-up time an expert has set.
FireHook(h, event, s, t) ==
  /\ hook[h].pc = "idle"
  /\ calls < MaxCalls
  /\ Possible(event, s)
  /\ event = "follow_up" \/ t = 0
  /\ calls' = calls + 1
  /\ facts' = [facts EXCEPT ![s] = @ \cup {event}]
  /\ hook' = [hook EXCEPT ![h] = [HookIdle EXCEPT !.pc = FirstStage(event),
                 !.event = event, !.session = s, !.at = t]]
  /\ IF event = "submitted"
     THEN /\ leadRow' = [leadRow EXCEPT ![s] = TRUE]
          /\ Overtake({m \in Messages : m[1][2] = s})
     ELSE UNCHANGED <<leadRow, fresh>>
  /\ UNCHANGED <<rowVars, jobVars, worker, overdue, now, faults, delivered, early>>

\* The lead pipeline gives a started session its consultation_requests row.
SystemLead(s) ==
  /\ SystemLeads
  /\ "started" \in facts[s]
  /\ ~leadRow[s]
  /\ leadRow' = [leadRow EXCEPT ![s] = TRUE]
  /\ Overtake({m \in Messages : m[1][2] = s})
  /\ UNCHANGED <<facts, rowVars, jobVars, hook, worker, overdue, now, calls,
                 faults, delivered, early>>

StopEnrollments(scope, cause) ==
  /\ enrollment' = [e \in Enrollments |->
       IF e \in scope /\ enrollment[e] = "active"
       THEN StatusAfter(cause) ELSE enrollment[e]]
  /\ Overtake({m \in Messages : m[1] \in scope})

CancelPending(scope) ==
  message' = [m \in Messages |->
    IF m[1] \in scope /\ message[m] = "pending" THEN "canceled" ELSE message[m]]

HookStop(h) ==
  /\ hook[h].pc = "stop"
  /\ StopEnrollments(Scope(hook[h].event, hook[h].session), hook[h].event)
  /\ Step(h, "cancel")
  /\ UNCHANGED <<crmVars, sentCount, message, scheduled, jobVars, worker,
                 overdue, now, calls, faults, delivered, early>>

HookCancel(h) ==
  /\ hook[h].pc = "cancel"
  /\ CancelPending(Scope(hook[h].event, hook[h].session))
  /\ IF hook[h].event = "started" THEN Finish(h) ELSE Step(h, "find")
  /\ UNCHANGED <<crmVars, enrollment, sentCount, scheduled, jobVars, worker,
                 overdue, now, calls, faults, historyVars>>

Target(h) == <<SequenceOf[hook[h].event], hook[h].session>>

EnrollFind(h) ==
  /\ hook[h].pc = "find"
  /\ hook' = [hook EXCEPT ![h].found = enrollment[Target(h)], ![h].pc = "upsert"]
  /\ UNCHANGED <<crmVars, rowVars, jobVars, worker, overdue, now, calls,
                 faults, historyVars>>

\* A second create of the same row meets the unique key and ends the hook; an
\* update goes by id, whatever has become of the row since it was found.
EnrollUpsert(h) ==
  LET e == Target(h) IN
  /\ hook[h].pc = "upsert"
  /\ IF hook[h].found = "none" /\ enrollment[e] # "none"
     THEN Finish(h) /\ UNCHANGED enrollment
     ELSE /\ hook' = [hook EXCEPT ![h].pc = "check", ![h].step = 1, ![h].at = now]
          /\ enrollment' = IF hook[h].found = "converted" THEN enrollment
                           ELSE [enrollment EXCEPT ![e] = "active"]
  /\ UNCHANGED <<crmVars, sentCount, message, scheduled, jobVars, worker,
                 overdue, now, calls, faults, historyVars>>

NextStep(h) ==
  IF hook[h].step + 1 \in Steps(Target(h))
  THEN hook' = [hook EXCEPT ![h].step = @ + 1, ![h].pc = "check"]
  ELSE Finish(h)

\* The person has a message of this step, of whatever session.
HasStep(q, k) ==
  \E s \in Keys : /\ <<<<q, s>>, k>> \in Messages
                  /\ message[<<<<q, s>>, k>>] \in {"pending", "sent"}

\* When a step is due after the event.
DueAt(h) == NextAllowed(hook[h].at + StepDelays[Target(h)[1]][hook[h].step])

EnrollCheck(h) ==
  LET m == <<Target(h), hook[h].step>> IN
  /\ hook[h].pc = "check"
  /\ IF message[m] # "none" \/ HasStep(m[1][1], m[2]) THEN NextStep(h)
     ELSE hook' = [hook EXCEPT ![h].pc = "create", ![h].delay = Ahead(DueAt(h))]
  /\ UNCHANGED <<crmVars, rowVars, jobVars, worker, overdue, now, calls,
                 faults, historyVars>>

\* The dedupe key is unique: a second create ends the hook.
EnrollCreate(h) ==
  LET m == <<Target(h), hook[h].step>> IN
  /\ hook[h].pc = "create"
  /\ IF message[m] # "none"
     THEN Finish(h) /\ UNCHANGED <<message, scheduled>>
     ELSE /\ message' = [message EXCEPT ![m] = "pending"]
          /\ scheduled' = [scheduled EXCEPT ![m] = DueAt(h)]
          /\ Step(h, "enqueue")
  /\ UNCHANGED <<crmVars, enrollment, sentCount, jobVars, worker, overdue, now,
                 calls, faults, historyVars>>

EnrollEnqueue(h) ==
  /\ hook[h].pc = "enqueue"
  /\ AddJob(<<Target(h), hook[h].step>>, After(hook[h].delay))
  /\ NextStep(h)
  /\ UNCHANGED <<crmVars, rowVars, worker, overdue, now, calls, faults,
                 historyVars>>

HookAbort(h) ==
  /\ hook[h].pc # "idle"
  /\ Fault
  /\ Finish(h)
  /\ UNCHANGED <<crmVars, rowVars, jobVars, worker, overdue, now, calls,
                 historyVars>>

-----------------------------------------------------------------------------
(* rescheduleCallScheduledForFollowUp: an expert has set a follow-up time.  *)
(* A confirmation has no offset to the call and is left alone.              *)

FollowUpList(h) ==
  LET e == <<"call_scheduled", hook[h].session>>
      reminders == {m \in Messages : /\ m[1] = e
                                     /\ enrollment[e] = "active"
                                     /\ m[2] \in Reminders
                                     /\ message[m] = "pending"}
  IN
  /\ hook[h].pc = "list"
  /\ hook' = [hook EXCEPT
       ![h] = IF reminders = {} THEN HookIdle
              ELSE [@ EXCEPT !.pc = "row", !.todo = reminders,
                      !.delay = Ahead(NextAllowed(hook[h].at)),
                      !.found = IF hook[h].at <= now THEN "past" ELSE "ahead"]]
  /\ UNCHANGED <<crmVars, rowVars, jobVars, worker, overdue, now, calls,
                 faults, historyVars>>

\* Both updates are conditional on the row being pending.
FollowUpRow(h, m) ==
  /\ hook[h].pc = "row"
  /\ m \in hook[h].todo
  /\ hook' = [hook EXCEPT ![h].pc = "remove", ![h].step = m[2],
                          ![h].todo = @ \ {m}]
  /\ IF message[m] # "pending"
     THEN UNCHANGED <<message, scheduled, fresh>>
     ELSE /\ Overtake({m})
          /\ IF hook[h].found = "past"
             THEN /\ message' = [message EXCEPT ![m] = "canceled"]
                  /\ UNCHANGED scheduled
             ELSE /\ scheduled' = [scheduled EXCEPT ![m] = NextAllowed(hook[h].at)]
                  /\ UNCHANGED message
  /\ UNCHANGED <<crmVars, enrollment, sentCount, jobVars, worker, overdue, now,
                 calls, faults, delivered, early>>

Reminder(h) == <<<<"call_scheduled", hook[h].session>>, hook[h].step>>

NextReminder(h) == IF hook[h].todo = {} THEN Finish(h) ELSE Step(h, "row")

\* remove() throws on a job a worker holds, and that ends the whole sync.
FollowUpRemove(h) ==
  LET m == Reminder(h) IN
  /\ hook[h].pc = "remove"
  /\ IF job[m] = "active"
     THEN Finish(h) /\ UNCHANGED job
     ELSE /\ job' = [job EXCEPT ![m] = "none"]
          /\ IF hook[h].found = "past" THEN NextReminder(h) ELSE Step(h, "add")
  /\ UNCHANGED <<crmVars, rowVars, runAt, tries, stalls, owner, worker, overdue,
                 now, calls, faults, historyVars>>

FollowUpAdd(h) ==
  /\ hook[h].pc = "add"
  /\ AddJob(Reminder(h), After(hook[h].delay))
  /\ NextReminder(h)
  /\ UNCHANGED <<crmVars, rowVars, worker, overdue, now, calls, faults,
                 historyVars>>

HookStep(h) ==
  \/ HookStop(h) \/ HookCancel(h)
  \/ EnrollFind(h) \/ EnrollUpsert(h)
  \/ EnrollCheck(h) \/ EnrollCreate(h) \/ EnrollEnqueue(h)
  \/ FollowUpList(h) \/ (\E m \in Messages : FollowUpRow(h, m))
  \/ FollowUpRemove(h) \/ FollowUpAdd(h)

-----------------------------------------------------------------------------
(* The send guard *)

Reacted(s) == facts[s] \cap {"clicked", "viewed", "consultation_started"} # {}

\* Fault: the guard relies on the hooks having stopped the enrollment.
VerdictByStatus(m) ==
  IF enrollment[m[1]] = "active" THEN "allowed" ELSE "enrollment_inactive"

\* Why evaluateSendGuard refuses message m, "allowed" when it does not.  Any
\* row of consultation_requests with the session counts as a consultation.
Verdict(m) ==
  LET e == m[1]
      q == e[1]
      s == e[2]
      asked == s # NoSession /\ leadRow[s]
      begun == \E k \in Sessions : facts[k] \cap {"in_progress", "completed"} # {}
      status == IF "completed" \in facts[s] THEN "completed"
                ELSE IF "in_progress" \in facts[s] THEN "in_progress" ELSE "started"
  IN  CASE enrollment[e] = "converted" -> "converted"
        [] enrollment[e] \in {"none", "stopped"} -> "enrollment_inactive"
        [] enrollment[e] = "active" /\ sentCount[e] >= MaxUnanswered
             /\ (s = NoSession \/ ~Reacted(s)) -> "max_unanswered_reached"
        [] OTHER ->
           CASE q = "report_ready" /\ m[2] > 1 /\ "viewed" \in facts[s] ->
                  "report_already_viewed"
             [] q = "nurture" /\ asked -> "consultation_exists"
             [] q = "form_abandon" /\ asked -> "consultation_already_submitted"
             [] q = "form_abandon" /\ ~asked
                  /\ "consultation_started" \notin facts[s] -> "consultation_not_started"
             [] q = "incomplete" /\ status # "in_progress" -> "assessment_not_in_progress"
             [] q \in {"report_ready", "nurture"} /\ status # "completed" ->
                  "assessment_not_completed"
             [] q = "start" /\ begun -> "assessment_already_started"
             [] OTHER -> "allowed"

-----------------------------------------------------------------------------
(* processSmsFunnelJob *)

Goto(w, stage) == worker' = [worker EXCEPT ![w].pc = stage]

\* The job handler begins by reading the row: a message that has been sent or
\* canceled is left alone.
SmsWorkerTake(w, m) ==
  /\ worker[w].pc = "idle"
  /\ job[m] = "waiting"
  /\ runAt[m] <= now
  /\ job' = [job EXCEPT ![m] = "active"]
  /\ owner' = [owner EXCEPT ![m] = w]
  /\ worker' = [worker EXCEPT ![w] = [WorkerIdle EXCEPT
       !.pc = IF message[m] \in {"none", "sent", "canceled"} THEN "done" ELSE "guard",
       !.message = m, !.at = scheduled[m]]]
  /\ fresh' = fresh \cup {w}
  /\ UNCHANGED <<crmVars, rowVars, runAt, tries, stalls, hook, overdue, now,
                 calls, faults, delivered, early>>

SmsGuard(w) ==
  LET verdict == Verdict(worker[w].message) IN
  /\ worker[w].pc = "guard"
  /\ worker' = [worker EXCEPT ![w].pc = IF verdict = "allowed" THEN "time" ELSE "skip",
                              ![w].reason = verdict]
  /\ UNCHANGED <<crmVars, rowVars, jobVars, hook, overdue, now, calls, faults,
                 historyVars>>

\* The guard's verdict as a cause of stopping other enrollments.
Cause(reason) == IF reason = "consultation_exists" THEN "converted" ELSE reason

SmsSkip(w) ==
  LET m == worker[w].message IN
  /\ worker[w].pc = "skip"
  /\ message' = [message EXCEPT ![m] = "skipped"]
  /\ Goto(w, IF Cause(worker[w].reason) \in {"converted", "max_unanswered_reached"}
             THEN "stop" ELSE "done")
  /\ UNCHANGED <<crmVars, enrollment, sentCount, scheduled, jobVars, hook,
                 overdue, now, calls, faults, historyVars>>

VerdictScope(w) == Scope(Cause(worker[w].reason), worker[w].message[1][2])

SmsStop(w) ==
  /\ worker[w].pc = "stop"
  /\ StopEnrollments(VerdictScope(w), Cause(worker[w].reason))
  /\ Goto(w, "cancel")
  /\ UNCHANGED <<crmVars, sentCount, message, scheduled, jobVars, hook, overdue,
                 now, calls, faults, delivered, early>>

SmsCancel(w) ==
  /\ worker[w].pc = "cancel"
  /\ CancelPending(VerdictScope(w))
  /\ Goto(w, "done")
  /\ UNCHANGED <<crmVars, enrollment, sentCount, scheduled, jobVars, hook,
                 overdue, now, calls, faults, historyVars>>

\* A job that runs before its time, or in the quiet hours, adds itself again.
SmsTime(w) ==
  LET m == worker[w].message
      sendAt == NextAllowed(IF worker[w].at > now THEN worker[w].at ELSE now)
  IN
  /\ worker[w].pc = "time"
  /\ IF sendAt > now
     THEN AddJob(m, sendAt) /\ early' = early \cup {m} /\ Goto(w, "done")
     ELSE Goto(w, "send") /\ UNCHANGED <<jobVars, early>>
  /\ UNCHANGED <<crmVars, rowVars, hook, overdue, now, calls, faults, delivered,
                 fresh>>

SmsSend(w) ==
  /\ worker[w].pc = "send"
  /\ delivered' = [delivered EXCEPT ![worker[w].message] = @ + 1]
  /\ Goto(w, "mark")
  /\ UNCHANGED <<crmVars, rowVars, jobVars, hook, overdue, now, calls, faults,
                 early, fresh>>

SmsMark(w) ==
  LET m == worker[w].message IN
  /\ worker[w].pc = "mark"
  /\ message' = [message EXCEPT ![m] = "sent"]
  /\ sentCount' = [sentCount EXCEPT ![m[1]] = @ + 1]
  /\ Goto(w, "log")
  /\ UNCHANGED <<crmVars, enrollment, scheduled, jobVars, hook, overdue, now,
                 calls, faults, historyVars>>

\* The enrollment's current step and the funnel event are written last.
SmsLog(w) ==
  /\ worker[w].pc = "log"
  /\ Goto(w, "done")
  /\ UNCHANGED <<crmVars, rowVars, jobVars, hook, overdue, now, calls, faults,
                 historyVars>>

\* The provider or the database fails.  From the send on, the catch block marks
\* the row failed, even when the SMS has gone out, and throws; an error of an
\* earlier call, or of the catch block's own, leaves the row as it is.
SmsError(w) ==
  /\ worker[w].pc \in {"guard", "skip", "stop", "cancel", "time", "send", "mark",
                      "log", "fail"}
  /\ Fault
  /\ Goto(w, IF worker[w].pc \in {"send", "mark", "log"} THEN "fail" ELSE "thrown")
  /\ UNCHANGED <<crmVars, rowVars, jobVars, hook, overdue, now, calls,
                 historyVars>>

SmsFail(w) ==
  /\ worker[w].pc = "fail"
  /\ message' = [message EXCEPT ![worker[w].message] = "failed"]
  /\ Goto(w, "thrown")
  /\ UNCHANGED <<crmVars, enrollment, sentCount, scheduled, jobVars, hook,
                 overdue, now, calls, faults, historyVars>>

\* Fault: the lock of a finished job is not given back.
SmsWorkerDoneLocked(w) ==
  LET m == worker[w].message IN
  /\ worker[w].pc \in {"done", "thrown"}
  /\ worker' = [worker EXCEPT ![w] = WorkerIdle]
  /\ fresh' = fresh \ {w}
  /\ job' = [job EXCEPT ![m] = "completed"]
  /\ UNCHANGED <<crmVars, rowVars, runAt, tries, stalls, owner, hook, overdue,
                 now, calls, faults, delivered, early>>

\* Fault: the error of an attempt is swallowed, and the job completes.
SmsWorkerDoneSwallowed(w) ==
  LET m == worker[w].message IN
  /\ worker[w].pc \in {"done", "thrown"}
  /\ worker' = [worker EXCEPT ![w] = WorkerIdle]
  /\ fresh' = fresh \ {w}
  /\ IF owner[m] # w THEN UNCHANGED <<job, owner>>
     ELSE /\ owner' = [owner EXCEPT ![m] = NoWorker]
          /\ job' = [job EXCEPT ![m] = "completed"]
  /\ UNCHANGED <<crmVars, rowVars, runAt, tries, stalls, hook, overdue, now,
                 calls, faults, delivered, early>>

\* BullMQ settles the job unless its lock has gone to another attempt.
SmsWorkerDone(w) ==
  LET m == worker[w].message IN
  /\ worker[w].pc \in {"done", "thrown"}
  /\ worker' = [worker EXCEPT ![w] = WorkerIdle]
  /\ fresh' = fresh \ {w}
  /\ IF owner[m] # w THEN UNCHANGED <<job, tries, owner>>
     ELSE /\ owner' = [owner EXCEPT ![m] = NoWorker]
          /\ IF worker[w].pc = "done"
             THEN job' = [job EXCEPT ![m] = "completed"] /\ UNCHANGED tries
             ELSE /\ tries' = [tries EXCEPT ![m] = @ + 1]
                  /\ job' = [job EXCEPT ![m] =
                       IF tries[m] + 1 < MaxTries THEN "waiting" ELSE "failed"]
  /\ UNCHANGED <<crmVars, rowVars, runAt, stalls, hook, overdue, now, calls,
                 faults, delivered, early>>

SmsWorkerStep(w) ==
  \/ SmsGuard(w) \/ SmsTime(w)
  \/ SmsSkip(w) \/ SmsStop(w) \/ SmsCancel(w)
  \/ SmsSend(w) \/ SmsMark(w) \/ SmsLog(w) \/ SmsFail(w) \/ SmsWorkerDone(w)

\* BullMQ finds an active job without its lock: the job runs again, or fails
\* for good when it has stalled too often.
FoundStalled(m) ==
  /\ owner' = [owner EXCEPT ![m] = NoWorker]
  /\ IF stalls[m] < MaxStalls
     THEN /\ job' = [job EXCEPT ![m] = "waiting"]
          /\ stalls' = [stalls EXCEPT ![m] = @ + 1]
     ELSE job' = [job EXCEPT ![m] = "failed"] /\ UNCHANGED stalls

\* The lock of a running attempt expires; the attempt goes on unseen.
SmsJobStalls(m) ==
  /\ job[m] = "active"
  /\ Fault
  /\ FoundStalled(m)
  /\ UNCHANGED <<crmVars, rowVars, runAt, tries, hook, worker, overdue, now,
                 calls, historyVars>>

\* The worker process dies; its job is found stalled later on.
SmsWorkerDies(w) ==
  LET m == worker[w].message IN
  /\ worker[w].pc # "idle"
  /\ Fault
  /\ worker' = [worker EXCEPT ![w] = WorkerIdle]
  /\ fresh' = fresh \ {w}
  /\ IF owner[m] = w THEN FoundStalled(m) ELSE UNCHANGED <<job, stalls, owner>>
  /\ UNCHANGED <<crmVars, rowVars, runAt, tries, hook, overdue, now, calls,
                 delivered, early>>

-----------------------------------------------------------------------------
(* POST /api/cron/sms-funnel reads some overdue rows, in no given order,   *)
(* then adds their jobs one by one.                                        *)

\* Rows of a status that are overdue.
Stale(status) == {m \in Messages : message[m] = status /\ scheduled[m] <= now}

\* A batch of these rows: all of them, or as many as the cron takes.
ReadBatch(rows) ==
  /\ overdue = {}
  /\ rows # {}
  /\ \E batch \in SUBSET rows :
       /\ overdue' = batch
       /\ IF Cardinality(rows) <= CronBatch THEN batch = rows
          ELSE Cardinality(batch) = CronBatch
  /\ UNCHANGED <<crmVars, rowVars, jobVars, hook, worker, now, calls, faults,
                 historyVars>>

\* Fault: the cron retries failed rows and forgets the pending ones.
CronListFailed == ReadBatch(Stale("failed"))

CronList == ReadBatch(Stale("pending"))

CronRequeue(m) ==
  /\ m \in overdue
  /\ overdue' = overdue \ {m}
  /\ AddJob(m, now)
  /\ UNCHANGED <<crmVars, rowVars, hook, worker, now, calls, faults, historyVars>>

\* An add fails, or the process dies: the rest of the batch is dropped.
CronAbort ==
  /\ overdue # {}
  /\ Fault
  /\ overdue' = {}
  /\ UNCHANGED <<crmVars, rowVars, jobVars, hook, worker, now, calls, historyVars>>

-----------------------------------------------------------------------------
SmsNext ==
  \/ Tick
  \/ \E h \in Hooks :
       \/ \E event \in Events, s \in Keys, t \in 0..MaxTime :
            FireHook(h, event, s, t)
       \/ HookStep(h) \/ HookAbort(h)
  \/ \E s \in Sessions : SystemLead(s)
  \/ \E w \in Workers :
       \/ \E m \in Messages : SmsWorkerTake(w, m)
       \/ SmsWorkerStep(w) \/ SmsError(w) \/ SmsWorkerDies(w)
  \/ CronList \/ CronAbort
  \/ \E m \in Messages : CronRequeue(m) \/ SmsJobStalls(m)

SmsSpec == SmsInit /\ [][SmsNext]_smsVars

\* Time passes, workers take and run jobs, hooks that run go on, and the cron
\* is called every five minutes.
SmsFairness ==
  /\ WF_smsVars(Tick)
  /\ \A h \in Hooks : WF_smsVars(HookStep(h))
  /\ \A m \in Messages : WF_smsVars(\E w \in Workers : SmsWorkerTake(w, m))
  /\ \A w \in Workers : WF_smsVars(SmsWorkerStep(w))
  /\ WF_smsVars(CronList)
  /\ \A m \in Messages : WF_smsVars(CronRequeue(m))

FairSmsSpec == SmsSpec /\ SmsFairness

-----------------------------------------------------------------------------
SmsTypeOK ==
  /\ facts \in [Keys -> SUBSET (DOMAIN SequenceOf \cup {"started", "clicked", "follow_up"})]
  /\ leadRow \in [Sessions -> BOOLEAN]
  /\ enrollment \in [Enrollments -> {"none", "active", "stopped", "converted"}]
  /\ sentCount \in [Enrollments -> 0..(Cardinality(Messages) * (1 + MaxFaults))]
  /\ message \in [Messages ->
       {"none", "pending", "sent", "failed", "canceled", "skipped"}]
  /\ scheduled \in [Messages -> 0..MaxTime]
  /\ job \in [Messages -> {"none", "waiting", "active", "completed", "failed"}]
  /\ runAt \in [Messages -> 0..MaxTime]
  /\ tries \in [Messages -> 0..MaxTries]
  /\ stalls \in [Messages -> 0..MaxStalls]
  /\ \A m \in Messages : owner[m] # NoWorker <=> job[m] = "active"
  /\ \A w \in Workers : worker[w].pc = "idle" <=> worker[w] = WorkerIdle
  /\ \A h \in Hooks : hook[h].pc = "idle" <=> hook[h] = HookIdle
  /\ overdue \subseteq Messages

\* However often a message is rescheduled, re-queued by the cron or taken by
\* two workers, the person receives it once, and once more per fault.
OncePerFault == \A m \in Messages : delivered[m] <= 1 + faults

\* What an SMS needs at the moment it goes out.
Wanted(m) ==
  /\ enrollment[m[1]] = "active"
  /\ scheduled[m] <= now
  /\ now \notin Quiet
  /\ m[1][1] \in {"nurture", "form_abandon"} => ~leadRow[m[1][2]]

\* An SMS that is about to go out is still wanted, unless the enrollment was
\* stopped, the consultation requested, the call moved or the hour passed
\* after the worker had begun with it: stops that are two statements, hooks
\* that re-open an enrollment and re-queued jobs never revive a message.
SendIsWanted ==
  \A w \in fresh : worker[w].pc = "send" => Wanted(worker[w].message)

\* Pending messages that no add of their job's id revives: the job has run
\* early and ended (see PendingIsSettled), or has failed for good and is kept.
Stuck == {m \in Messages : message[m] = "pending" /\ (m \in early \/ job[m] = "failed")}

\* Every pending message is eventually sent, skipped, canceled or failed, also
\* when its hook died before adding the job or the cron before re-adding it:
\* a later call of the cron finds it.  Stuck messages are excepted, and all of
\* them once the stuck ones can fill every batch the cron reads.
DueIsSettled ==
  \A m \in Messages :
    message[m] = "pending" ~>
      (message[m] # "pending" \/ m \in Stuck \/ Cardinality(Stuck) >= CronBatch)

\* The same of every message: the operations guide has the cron re-queue the
\* stale ones.
PendingIsSettled ==
  \A m \in Messages : message[m] = "pending" ~> message[m] # "pending"
=============================================================================
