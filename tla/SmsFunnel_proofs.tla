--------------------------- MODULE SmsFunnel_proofs ---------------------------
(***************************************************************************)
(* Proofs about SmsFunnel, for any number of sessions, steps, hooks and    *)
(* workers, any window of quiet hours and any number of faults.            *)
(*                                                                         *)
(* Three invariants carry them, on top of the shapes of the records:       *)
(*   FreshKnow  an attempt that nothing has overtaken still knows what its *)
(*              guard has read;                                            *)
(*   Budgets    every SMS of a message, and every attempt that may still   *)
(*              send one, is charged to the message's first chance or to a *)
(*              fault of its own;                                          *)
(*   Counted    an enrollment has counted no more than its messages have   *)
(*              had delivered.                                             *)
(***************************************************************************)
EXTENDS SmsFunnel, FiniteSetTheorems, WellFoundedInduction, TLAPS

USE SmsAssumption

-----------------------------------------------------------------------------
(* The operators of the model *)

\* A non-empty set of naturals has a least element: the intervals 0..n, for n
\* in the set, are finite, and one of them contains no other.
LEMMA SoonestIsLeast ==
  ASSUME NEW T, T \subseteq Nat, T # {}
  PROVE  SoonestOf(T) \in T /\ \A u \in T : SoonestOf(T) <= u
<1> DEFINE Upto == {0..n : n \in T}
<1>1. Upto \subseteq FiniteSubsetsOf(Nat) /\ Upto # {}
  <2>1. \A n \in T : 0..n \in SUBSET Nat /\ IsFiniteSet(0..n)
    BY FS_Interval
  <2>. QED BY <2>1 DEF FiniteSubsetsOf
<1>2. PICK U \in Upto : \A V \in Upto : ~(<<V, U>> \in StrictSubsetOrdering(Nat))
  BY <1>1, WFMin, FS_StrictSubsetOrderingWellFounded
<1>3. PICK n \in T : U = 0..n
  OBVIOUS
<1>4. ASSUME NEW u \in T PROVE n <= u
  <2>1. SUFFICES ASSUME u < n PROVE FALSE
    OBVIOUS
  <2>2. 0..u \subseteq 0..n /\ n \in 0..n /\ n \notin 0..u
    BY <2>1
  <2>3. 0..u \in SUBSET Nat /\ 0..n \in SUBSET Nat /\ 0..u # 0..n
    BY <2>2
  <2>4. <<0..u, 0..n>> \in StrictSubsetOrdering(Nat)
    BY <2>2, <2>3 DEF StrictSubsetOrdering
  <2>5. 0..u \in Upto
    OBVIOUS
  <2>. QED BY <1>2, <1>3, <2>4, <2>5
<1>. QED BY <1>4 DEF SoonestOf

LEMMA NextAllowedIs ==
  ASSUME NEW t \in Nat
  PROVE  /\ NextAllowed(t) \in 0..MaxTime
         /\ NextAllowed(t) \notin Quiet
         /\ t <= MaxTime => t <= NextAllowed(t)
<1>1. CASE t >= MaxTime
  BY <1>1 DEF NextAllowed
<1>2. CASE t < MaxTime
  <2> DEFINE T == {u \in t..MaxTime : u \notin Quiet}
  <2>1. T \subseteq Nat /\ MaxTime \in T
    BY <1>2
  <2>2. SoonestOf(T) \in T
    BY <2>1, SoonestIsLeast
  <2>3. NextAllowed(t) = SoonestOf(T)
    BY <1>2 DEF NextAllowed
  <2>. QED BY <2>2, <2>3
<1>. QED BY <1>1, <1>2

LEMMA AheadIs ==
  ASSUME NEW t \in 0..MaxTime, now \in 0..MaxTime PROVE Ahead(t) \in 0..MaxTime
BY DEF Ahead

LEMMA AfterIs ==
  ASSUME NEW d \in 0..MaxTime, now \in 0..MaxTime PROVE After(d) \in 0..MaxTime
BY DEF After

LEMMA EnrollmentShape ==
  ASSUME NEW e \in Enrollments
  PROVE  /\ e = <<e[1], e[2]>> /\ e[1] \in DOMAIN StepDelays /\ e[2] \in Keys
         /\ e[1] = "start" <=> e[2] = NoSession
         /\ \A k \in Steps(e) : <<e, k>> \in Messages
BY DEF Enrollments, Messages

LEMMA StepShape ==
  ASSUME NEW e \in Enrollments, NEW k \in Steps(e)
  PROVE  k \in Nat /\ StepDelays[e[1]][k] \in Nat
<1>1. StepDelays[e[1]] \in Seq(Nat)
  BY EnrollmentShape, SequenceAssumption
<1>. QED BY <1>1 DEF Steps

LEMMA MessageShape ==
  ASSUME NEW m \in Messages
  PROVE  /\ m = <<m[1], m[2]>> /\ m[1] \in Enrollments
         /\ m[2] \in Steps(m[1]) /\ m[2] \in Nat
<1>1. PICK e \in Enrollments : \E k \in Steps(e) : m = <<e, k>>
  BY DEF Messages
<1>. QED BY <1>1, StepShape

LEMMA MessagesFinite == IsFiniteSet(Messages)
<1>1. IsFiniteSet(Keys)
  BY SequenceAssumption, FS_AddElement DEF Keys
<1>2. IsFiniteSet((DOMAIN StepDelays) \X Keys)
  BY <1>1, SequenceAssumption, FS_Product
<1>3. IsFiniteSet(Enrollments)
  <2>1. Enrollments \in SUBSET ((DOMAIN StepDelays) \X Keys)
    BY DEF Enrollments
  <2>. QED BY <1>2, <2>1, FS_Subset
<1> DEFINE Of(e) == {<<e, k>> : k \in Steps(e)}
<1> DEFINE Rows == {Of(e) : e \in Enrollments}
           f == [e \in Enrollments |-> Of(e)]
<1>4. IsFiniteSet(Rows)
  <2>1. f \in Surjection(Enrollments, Rows)
    BY DEF Surjection
  <2>. QED BY <1>3, <2>1, FS_Surjection
<1>5. ASSUME NEW e \in Enrollments PROVE IsFiniteSet(Of(e))
  <2>1. StepDelays[e[1]] \in Seq(Nat)
    BY EnrollmentShape, SequenceAssumption
  <2>2. Steps(e) = 1..Len(StepDelays[e[1]]) /\ Len(StepDelays[e[1]]) \in Nat
    BY <2>1 DEF Steps
  <2>3. IsFiniteSet(Steps(e))
    BY <2>2, FS_Interval
  <2>6. IsFiniteSet({e})
    BY FS_Singleton
  <2>4. IsFiniteSet({e} \X Steps(e))
    BY <2>3, <2>6, FS_Product
  <2>5. Of(e) \in SUBSET ({e} \X Steps(e))
    OBVIOUS
  <2>. QED BY <2>4, <2>5, FS_Subset
<1>. QED BY <1>4, <1>5, FS_UNION DEF Messages

-----------------------------------------------------------------------------
(* Shapes of hooks, attempts, rows and jobs *)

Happenings == DOMAIN SequenceOf \cup {"started", "clicked", "follow_up"}
Statuses == {"none", "active", "stopped", "converted"}
Rows == {"none", "pending", "sent", "failed", "canceled", "skipped"}

HookStages == {"idle", "stop", "cancel", "find", "upsert", "check", "create",
               "enqueue", "list", "row", "remove", "add"}

HookRecords ==
  [pc : HookStages, event : Happenings \cup {"none"}, session : Keys, step : Nat,
   found : Statuses \cup {"past", "ahead"}, at : 0..MaxTime, delay : 0..MaxTime,
   todo : SUBSET Messages]

TargetOf(r) == <<SequenceOf[r.event], r.session>>

GoodHook(r) ==
  /\ r \in HookRecords
  /\ r.pc = "idle" <=> r = HookIdle
  /\ r.pc \in {"stop", "cancel"} => r.event \in DOMAIN SequenceOf \cup {"started"}
  /\ r.pc \in {"find", "upsert", "check", "create", "enqueue"} =>
       r.event \in DOMAIN SequenceOf
  /\ r.event \in DOMAIN SequenceOf => TargetOf(r) \in Enrollments
  /\ r.pc \in {"check", "create", "enqueue"} => r.step \in Steps(TargetOf(r))
  /\ \A m \in r.todo : m[1] = <<"call_scheduled", r.session>>
  /\ r.pc \in {"remove", "add"} =>
       <<<<"call_scheduled", r.session>>, r.step>> \in Messages

WorkerStages == {"idle", "guard", "time", "send", "mark", "log", "skip", "stop", "cancel",
                 "fail", "done", "thrown"}

Reasons == {"none", "allowed", "converted", "enrollment_inactive",
  "max_unanswered_reached", "report_already_viewed", "consultation_exists",
  "consultation_already_submitted", "consultation_not_started",
  "assessment_not_in_progress", "assessment_not_completed",
  "assessment_already_started"}

WorkerRecords ==
  [pc : WorkerStages, message : Messages \cup {NoMessage}, at : 0..MaxTime,
   reason : Reasons]

GoodWorker(r) ==
  /\ r \in WorkerRecords
  /\ r.pc = "idle" <=> r = WorkerIdle
  /\ r.pc # "idle" => r.message \in Messages

HooksOK == hook \in [Hooks -> HookRecords] /\ \A h \in Hooks : GoodHook(hook[h])

WorkersOK ==
  /\ worker \in [Workers -> WorkerRecords]
  /\ \A w \in Workers : GoodWorker(worker[w])

\* The person is the actor of the start sequence alone without a session.
CrmOK ==
  /\ facts \in [Keys -> SUBSET Happenings]
  /\ facts[NoSession] \subseteq {"verified"}
  /\ leadRow \in [Sessions -> BOOLEAN]

RowsOK ==
  /\ enrollment \in [Enrollments -> Statuses]
  /\ message \in [Messages -> Rows]
  /\ scheduled \in [Messages -> 0..MaxTime]

JobTypes ==
  /\ job \in [Messages -> {"none", "waiting", "active", "completed", "failed"}]
  /\ runAt \in [Messages -> 0..MaxTime]
  /\ tries \in [Messages -> 0..MaxTries]
  /\ stalls \in [Messages -> 0..MaxStalls]
  /\ owner \in [Messages -> Workers \cup {NoWorker}]

\* An active job is held by an attempt at its message, and a job that is still
\* to run has a try left.
Held(m) ==
  /\ owner[m] # NoWorker <=> job[m] = "active"
  /\ job[m] \in {"waiting", "active"} => tries[m] < MaxTries
  /\ owner[m] # NoWorker => worker[owner[m]].message = m /\ worker[owner[m]].pc # "idle"

JobsOK == JobTypes /\ \A m \in Messages : Held(m)

RestOK ==
  /\ overdue \subseteq Messages
  /\ now \in 0..MaxTime
  /\ faults \in 0..MaxFaults
  /\ delivered \in [Messages -> Nat]
  /\ fresh \subseteq Workers

Shape == CrmOK /\ RowsOK /\ JobsOK /\ HooksOK /\ WorkersOK /\ RestOK

LEMMA IdleIsGood == GoodHook(HookIdle) /\ GoodWorker(WorkerIdle)
<1>1. HookIdle \in HookRecords
  BY DEF HookIdle, HookRecords, HookStages, Happenings, Keys, Statuses
<1>2. WorkerIdle \in WorkerRecords
  BY DEF WorkerIdle, WorkerRecords, WorkerStages, Reasons
<1>3. GoodHook(HookIdle)
  BY <1>1 DEF GoodHook, HookIdle, SequenceOf
<1>4. GoodWorker(WorkerIdle)
  BY <1>2 DEF GoodWorker, WorkerIdle
<1>. QED BY <1>3, <1>4

LEMMA InitShape == SmsInit => Shape
<1>1. SUFFICES ASSUME SmsInit PROVE Shape
  OBVIOUS
<1>. USE <1>1 DEF SmsInit
<1>2. CrmOK
  BY SequenceAssumption DEF CrmOK, Happenings, SequenceOf, Keys
<1>3. RowsOK
  BY DEF RowsOK, Rows, Statuses
<1>4. JobsOK
  BY DEF JobsOK, JobTypes, Held
<1>5. HooksOK
  BY IdleIsGood DEF HooksOK, GoodHook
<1>6. WorkersOK
  BY IdleIsGood DEF WorkersOK, GoodWorker
<1>7. RestOK
  BY DEF RestOK
<1>. QED BY <1>2, <1>3, <1>4, <1>5, <1>6, <1>7 DEF Shape

-----------------------------------------------------------------------------
(* Every step keeps the shape *)

LEMMA OnlyVerifiedIsGlobal ==
  ASSUME CrmOK, NEW event \in Events, NEW s \in Keys, Possible(event, s)
  PROVE  s = NoSession <=> event = "verified"
<1>1. facts[NoSession] \subseteq {"verified"}
  BY DEF CrmOK
<1>2. event \in {"verified", "in_progress", "completed", "viewed",
                 "consultation_started", "submitted", "started", "follow_up"}
  BY SequenceAssumption DEF SequenceOf
<1>3. event = "verified" => s = NoSession
  BY DEF Possible
<1>4. SUFFICES ASSUME s = NoSession, event # "verified" PROVE FALSE
  BY <1>3
<1>5. \A x \in facts[s] : x = "verified"
  BY <1>1, <1>4
<1>6. event # "started"
  BY <1>4 DEF Possible
<1>. QED BY <1>2, <1>4, <1>5, <1>6 DEF Possible

LEMMA CrmStep == Shape /\ SmsNext => CrmOK'
<1>1. SUFFICES ASSUME Shape, SmsNext PROVE CrmOK'
  OBVIOUS
<1>2. ASSUME NEW h \in Hooks, NEW event \in Events, NEW s \in Keys, NEW t \in 0..MaxTime,
             FireHook(h, event, s, t)
      PROVE  CrmOK'
  <2>1. event \in Happenings
    BY SequenceAssumption DEF Happenings
  <2>2. s = NoSession => event = "verified"
    BY <1>1, <1>2, OnlyVerifiedIsGlobal DEF FireHook, Shape
  <2>3. facts' = [facts EXCEPT ![s] = @ \cup {event}]
    BY <1>2 DEF FireHook
  <2>4. leadRow' \in [Sessions -> BOOLEAN]
    BY <1>1, <1>2 DEF FireHook, Shape, CrmOK
  <2>. QED BY <1>1, <2>1, <2>2, <2>3, <2>4 DEF Shape, CrmOK, Keys
<1>3. ASSUME NEW s \in Sessions, SystemLead(s) PROVE CrmOK'
  BY <1>1, <1>3 DEF SystemLead, Shape, CrmOK
<1>4. CASE UNCHANGED crmVars
  BY <1>1, <1>4 DEF Shape, CrmOK, crmVars
<1>5. ASSUME NEW h \in Hooks, HookStep(h) \/ HookAbort(h) PROVE UNCHANGED crmVars
  BY <1>5 DEF HookStep, HookStop, HookCancel, EnrollFind, EnrollUpsert, EnrollCheck,
     EnrollCreate, EnrollEnqueue, FollowUpList, FollowUpRow, FollowUpRemove,
     FollowUpAdd, HookAbort
<1>6. ASSUME NEW w \in Workers, NEW m \in Messages,
             SmsWorkerTake(w, m) \/ SmsWorkerStep(w) \/ SmsError(w) \/ SmsWorkerDies(w)
      PROVE  UNCHANGED crmVars
  BY <1>6 DEF SmsWorkerTake, SmsWorkerStep, SmsError, SmsWorkerDies, SmsGuard, SmsTime,
     SmsSkip, SmsStop, SmsCancel, SmsSend, SmsMark, SmsLog, SmsFail, SmsWorkerDone
<1>7. ASSUME Tick \/ CronList \/ CronAbort \/ \E m \in Messages : CronRequeue(m) \/ SmsJobStalls(m)
      PROVE  UNCHANGED crmVars
  BY <1>7 DEF Tick, CronList, CronAbort, ReadBatch, CronRequeue, SmsJobStalls
<1>8. ASSUME NEW w \in Workers, SmsWorkerStep(w) \/ SmsError(w) \/ SmsWorkerDies(w)
      PROVE  UNCHANGED crmVars
  BY <1>8 DEF SmsWorkerStep, SmsError, SmsWorkerDies, SmsGuard, SmsTime,
     SmsSkip, SmsStop, SmsCancel, SmsSend, SmsMark, SmsLog, SmsFail, SmsWorkerDone
<1>. QED BY <1>1, <1>2, <1>3, <1>4, <1>5, <1>6, <1>7, <1>8 DEF SmsNext

LEMMA RowsStep == Shape /\ SmsNext => RowsOK'
<1>1. SUFFICES ASSUME Shape, SmsNext PROVE RowsOK'
  OBVIOUS
<1>. USE DEF RowsOK
<1>2. RowsOK /\ now \in Nat
  BY <1>1 DEF Shape, RestOK
<1>3. ASSUME NEW S, NEW cause, StopEnrollments(S, cause) PROVE enrollment' \in [Enrollments -> Statuses]
  BY <1>2, <1>3 DEF StopEnrollments, StatusAfter, Statuses
<1>4. ASSUME NEW S, CancelPending(S) PROVE message' \in [Messages -> Rows]
  BY <1>2, <1>4 DEF CancelPending, Rows
<1>5. ASSUME NEW h \in Hooks, HookStep(h) PROVE RowsOK'
  <2>1. GoodHook(hook[h])
    BY <1>1 DEF Shape, HooksOK
  <2>2. CASE HookStop(h)
    BY <1>2, <1>3, <2>2 DEF HookStop
  <2>3. CASE HookCancel(h)
    BY <1>2, <1>4, <2>3 DEF HookCancel
  <2>4. CASE EnrollUpsert(h)
    BY <1>2, <2>4 DEF EnrollUpsert, Statuses
  <2>5. CASE EnrollCreate(h)
    <3> DEFINE e == TargetOf(hook[h])
               k == hook[h].step
               t == hook[h].at + StepDelays[e[1]][k]
    <3>1. e \in Enrollments /\ k \in Steps(e) /\ e = Target(h) /\ hook[h].at \in Nat
      BY <2>1, <2>5 DEF EnrollCreate, GoodHook, HookRecords, Target, TargetOf
    <3>2. t \in Nat
      BY <3>1, StepShape
    <3>3. NextAllowed(t) \in 0..MaxTime
      BY <3>2, NextAllowedIs
    <3>4. scheduled' = scheduled \/ scheduled' = [scheduled EXCEPT ![<<e, k>>] = NextAllowed(t)]
      BY <2>5, <3>1 DEF EnrollCreate, DueAt
    <3>5. scheduled' \in [Messages -> 0..MaxTime]
      BY <1>2, <3>3, <3>4
    <3>. QED BY <1>2, <2>5, <3>5 DEF EnrollCreate, Rows
  <2>6. ASSUME NEW m \in Messages, FollowUpRow(h, m) PROVE RowsOK'
    <3>1. NextAllowed(hook[h].at) \in 0..MaxTime
      BY <2>1, NextAllowedIs DEF GoodHook, HookRecords
    <3>. QED BY <1>2, <2>6, <3>1 DEF FollowUpRow, Rows
  <2>7. CASE EnrollFind(h) \/ EnrollCheck(h) \/ EnrollEnqueue(h) \/ FollowUpList(h)
             \/ FollowUpRemove(h) \/ FollowUpAdd(h)
    BY <1>2, <2>7 DEF EnrollFind, EnrollCheck, EnrollEnqueue, FollowUpList,
       FollowUpRemove, FollowUpAdd, rowVars
  <2>. QED BY <1>5, <2>2, <2>3, <2>4, <2>5, <2>6, <2>7 DEF HookStep
<1>6. ASSUME NEW w \in Workers, SmsWorkerStep(w) PROVE RowsOK'
  <2>1. CASE SmsSkip(w) \/ SmsMark(w) \/ SmsFail(w)
    BY <1>2, <2>1 DEF SmsSkip, SmsMark, SmsFail, Rows
  <2>2. CASE SmsStop(w)
    BY <1>2, <1>3, <2>2 DEF SmsStop
  <2>3. CASE SmsCancel(w)
    BY <1>2, <1>4, <2>3 DEF SmsCancel
  <2>4. CASE SmsGuard(w) \/ SmsTime(w) \/ SmsSend(w) \/ SmsLog(w) \/ SmsWorkerDone(w)
    BY <1>2, <2>4 DEF SmsGuard, SmsTime, SmsSend, SmsLog, SmsWorkerDone, rowVars
  <2>. QED BY <1>6, <2>1, <2>2, <2>3, <2>4 DEF SmsWorkerStep
<1>7. CASE UNCHANGED rowVars
  BY <1>2, <1>7 DEF rowVars
<1>8. ASSUME NEW h \in Hooks,
             HookAbort(h) \/ (\E event \in Events, s \in Keys, t \in 0..MaxTime :
                                FireHook(h, event, s, t))
      PROVE  UNCHANGED rowVars
  BY <1>8 DEF HookAbort, FireHook
<1>9. ASSUME NEW w \in Workers, SmsError(w) \/ SmsWorkerDies(w)
                                \/ \E m \in Messages : SmsWorkerTake(w, m)
      PROVE  UNCHANGED rowVars
  BY <1>9 DEF SmsError, SmsWorkerDies, SmsWorkerTake
<1>10. ASSUME \/ Tick \/ CronList \/ CronAbort \/ \E s \in Sessions : SystemLead(s)
              \/ \E m \in Messages : CronRequeue(m) \/ SmsJobStalls(m)
       PROVE  UNCHANGED rowVars
  BY <1>10 DEF Tick, CronList, CronAbort, ReadBatch, SystemLead, CronRequeue, SmsJobStalls
<1>. QED BY <1>1, <1>5, <1>6, <1>7, <1>8, <1>9, <1>10 DEF SmsNext

\* One hook goes on to a good record.
LEMMA HookGoesOn ==
  ASSUME HooksOK, NEW h \in Hooks, NEW r, GoodHook(r), hook' = [hook EXCEPT ![h] = r]
  PROVE  HooksOK'
BY DEF HooksOK, GoodHook

LEMMA HookFinishes == ASSUME HooksOK, NEW h \in Hooks, Finish(h) PROVE HooksOK'
BY HookGoesOn, IdleIsGood DEF Finish

LEMMA HooksStep == Shape /\ SmsNext => HooksOK'
<1>1. SUFFICES ASSUME Shape, SmsNext PROVE HooksOK'
  OBVIOUS
<1>2. HooksOK /\ RowsOK /\ now \in 0..MaxTime
  BY <1>1 DEF Shape, RestOK
<1>3. ASSUME NEW h \in Hooks, NEW event \in Events, NEW s \in Keys, NEW t \in 0..MaxTime,
             FireHook(h, event, s, t)
      PROVE  HooksOK'
  <2> DEFINE r == [HookIdle EXCEPT !.pc = FirstStage(event), !.event = event,
                                   !.session = s, !.at = t]
  <2>1. hook' = [hook EXCEPT ![h] = r]
    BY <1>3 DEF FireHook
  <2>2. event \in {"verified", "in_progress", "completed", "viewed",
                   "consultation_started", "submitted", "started", "follow_up"}
    BY SequenceAssumption DEF SequenceOf
  <2>3. s = NoSession <=> event = "verified"
    BY <1>1, <1>3, OnlyVerifiedIsGlobal DEF FireHook, Shape
  <2>4. r.pc = FirstStage(event) /\ r.event = event /\ r.session = s /\ r.at = t
        /\ r.step = 0 /\ r.found = "none" /\ r.todo = {}
    BY DEF HookIdle
  <2>5. r.pc \in {"stop", "find", "list"}
    BY <2>2, <2>4 DEF FirstStage
  <2>6. r \in HookRecords
    <3>1. r.pc \in HookStages /\ r.event \in Happenings
      BY <2>2, <2>4, <2>5 DEF HookStages, Happenings, SequenceOf
    <3>2. HookIdle \in HookRecords /\ 0 \in 0..MaxTime
      BY IdleIsGood DEF GoodHook
    <3>. QED BY <3>1, <3>2 DEF HookRecords
  <2>7. event \in DOMAIN SequenceOf => TargetOf(r) \in Enrollments
    <3>1. ASSUME event \in DOMAIN SequenceOf PROVE <<SequenceOf[event], s>> \in Enrollments
      <4>1. SequenceOf[event] \in DOMAIN StepDelays
        BY <3>1, SequenceAssumption
      <4>2. SequenceOf[event] = "start" <=> event = "verified"
        BY <3>1 DEF SequenceOf
      <4>. QED BY <2>3, <4>1, <4>2 DEF Enrollments
    <3>. QED BY <2>4, <3>1 DEF TargetOf
  <2>8. /\ event = "follow_up" => r.pc = "list"
        /\ event = "started" => r.pc = "stop"
        /\ event \in DOMAIN SequenceOf \cup {"started", "follow_up"}
    BY <2>2, <2>4 DEF FirstStage, SequenceOf
  <2>9. r # HookIdle
    BY <2>5 DEF HookIdle
  <2> HIDE DEF r
  <2>10. GoodHook(r)
    BY <2>4, <2>5, <2>6, <2>7, <2>8, <2>9 DEF GoodHook
  <2>. QED BY <1>2, <2>1, <2>10, HookGoesOn
<1>4. ASSUME NEW h \in Hooks, HookStep(h) PROVE HooksOK'
  <2> DEFINE r == hook[h]
  <2>1. GoodHook(r) /\ r \in HookRecords
    BY <1>2 DEF HooksOK, GoodHook
  <2>2. ASSUME NEW stage \in HookStages \ {"idle"}, Step(h, stage),
               GoodHook([r EXCEPT !.pc = stage])
        PROVE  HooksOK'
    BY <1>2, <2>2, HookGoesOn DEF Step
  <2>3. CASE HookStop(h)
    <3>1. GoodHook([r EXCEPT !.pc = "cancel"])
      BY <2>1, <2>3 DEF HookStop, GoodHook, HookRecords, HookStages, HookIdle, TargetOf
    <3>. QED BY <2>2, <2>3, <3>1 DEF HookStop, HookStages
  <2>4. CASE HookCancel(h)
    <3>1. CASE r.event = "started"
      BY <1>2, <2>4, <3>1, HookFinishes DEF HookCancel
    <3>2. CASE r.event # "started"
      <4>1. GoodHook([r EXCEPT !.pc = "find"])
        BY <2>1, <2>4, <3>2
           DEF HookCancel, GoodHook, HookRecords, HookStages, HookIdle, TargetOf
      <4>. QED BY <2>2, <2>4, <3>2, <4>1 DEF HookCancel, HookStages
    <3>. QED BY <3>1, <3>2
  <2>5. CASE EnrollFind(h)
    <3> DEFINE x == [r EXCEPT !.found = enrollment[Target(h)], !.pc = "upsert"]
    <3>1. TargetOf(r) \in Enrollments /\ r.event \in DOMAIN SequenceOf
      BY <2>1, <2>5 DEF EnrollFind, GoodHook
    <3>2. enrollment[Target(h)] \in Statuses
      BY <1>2, <3>1 DEF RowsOK, Target, TargetOf
    <3>3. GoodHook(x)
      BY <2>1, <3>1, <3>2 DEF GoodHook, HookRecords, HookStages, HookIdle, TargetOf
    <3>4. hook' = [hook EXCEPT ![h] = x]
      BY <2>5 DEF EnrollFind
    <3>. QED BY <1>2, <3>3, <3>4, HookGoesOn
  <2>6. CASE EnrollUpsert(h)
    <3>1. CASE Finish(h)
      BY <1>2, <3>1, HookFinishes
    <3>2. CASE hook' = [hook EXCEPT ![h].pc = "check", ![h].step = 1, ![h].at = now]
      <4> DEFINE x == [r EXCEPT !.pc = "check", !.step = 1, !.at = now]
      <4>1. TargetOf(r) \in Enrollments /\ r.event \in DOMAIN SequenceOf
        BY <2>1, <2>6 DEF EnrollUpsert, GoodHook
      <4>2. 1 \in Steps(TargetOf(r))
        BY <4>1, EnrollmentShape, SequenceAssumption DEF Steps
      <4>3. GoodHook(x)
        BY <1>2, <2>1, <4>1, <4>2 DEF GoodHook, HookRecords, HookStages, HookIdle, TargetOf
      <4>4. hook' = [hook EXCEPT ![h] = x]
        BY <3>2
      <4>. QED BY <1>2, <4>3, <4>4, HookGoesOn
    <3>. QED BY <2>6, <3>1, <3>2 DEF EnrollUpsert
  <2>7. ASSUME NextStep(h), r.pc \in {"check", "enqueue"} PROVE HooksOK'
    <3>1. CASE Finish(h)
      BY <1>2, <3>1, HookFinishes
    <3>2. CASE /\ hook[h].step + 1 \in Steps(Target(h))
               /\ hook' = [hook EXCEPT ![h].step = @ + 1, ![h].pc = "check"]
      <4> DEFINE x == [r EXCEPT !.step = @ + 1, !.pc = "check"]
      <4>1. r.step + 1 \in Steps(TargetOf(r)) /\ r.step + 1 \in Nat
        BY <2>1, <3>2 DEF Target, TargetOf, HookRecords
      <4>2. /\ x \in HookRecords /\ x.pc = "check" /\ x.step = r.step + 1
            /\ x.event = r.event /\ x.session = r.session /\ x.todo = r.todo
        BY <2>1, <4>1 DEF HookRecords, HookStages
      <4>3. r.event \in DOMAIN SequenceOf
        BY <2>1, <2>7 DEF GoodHook
      <4>4. x # HookIdle /\ TargetOf(x) = TargetOf(r)
        BY <4>2 DEF HookIdle, TargetOf
      <4>5. hook' = [hook EXCEPT ![h] = x]
        BY <3>2
      <4> HIDE DEF x
      <4>6. GoodHook(x)
        BY <2>1, <4>1, <4>2, <4>3, <4>4 DEF GoodHook
      <4>. QED BY <1>2, <4>5, <4>6, HookGoesOn
    <3>. QED BY <2>7, <3>1, <3>2 DEF NextStep
  <2>8. CASE EnrollCheck(h)
    <3>1. CASE NextStep(h)
      BY <2>7, <2>8, <3>1 DEF EnrollCheck
    <3>2. CASE hook' = [hook EXCEPT ![h].pc = "create", ![h].delay = Ahead(DueAt(h))]
      <4> DEFINE d == Ahead(DueAt(h))
                 x == [r EXCEPT !.pc = "create", !.delay = d]
      <4>1. /\ TargetOf(r) \in Enrollments /\ r.step \in Steps(TargetOf(r))
            /\ Target(h) = TargetOf(r) /\ r.at \in Nat
        BY <2>1, <2>8 DEF EnrollCheck, GoodHook, HookRecords, Target, TargetOf
      <4>2. d \in 0..MaxTime
        BY <1>2, <4>1, StepShape, NextAllowedIs, AheadIs DEF DueAt
      <4> HIDE DEF d
      <4>3. GoodHook(x)
        BY <2>1, <2>8, <4>2 DEF EnrollCheck, GoodHook, HookRecords, HookStages, HookIdle, TargetOf
      <4>4. hook' = [hook EXCEPT ![h] = x]
        BY <3>2 DEF d
      <4>. QED BY <1>2, <4>3, <4>4, HookGoesOn
    <3>. QED BY <2>8, <3>1, <3>2 DEF EnrollCheck
  <2>9. CASE EnrollCreate(h)
    <3>1. CASE Finish(h)
      BY <1>2, <3>1, HookFinishes
    <3>2. CASE Step(h, "enqueue")
      <4>1. GoodHook([r EXCEPT !.pc = "enqueue"])
        BY <2>1, <2>9 DEF EnrollCreate, GoodHook, HookRecords, HookStages, HookIdle, TargetOf
      <4>. QED BY <2>2, <3>2, <4>1 DEF HookStages
    <3>. QED BY <2>9, <3>1, <3>2 DEF EnrollCreate
  <2>10. CASE EnrollEnqueue(h)
    BY <2>7, <2>10 DEF EnrollEnqueue
  <2>11. CASE FollowUpList(h)
    <3> DEFINE e == <<"call_scheduled", hook[h].session>>
               R == {m \in Messages : m[1] = e /\ enrollment[e] = "active"
                                      /\ m[2] \in Reminders /\ message[m] = "pending"}
               d == Ahead(NextAllowed(hook[h].at))
               x == [r EXCEPT !.pc = "row", !.todo = R, !.delay = d,
                              !.found = IF r.at <= now THEN "past" ELSE "ahead"]
    <3>1. hook' = [hook EXCEPT ![h] = HookIdle] \/ hook' = [hook EXCEPT ![h] = x]
      BY <2>11 DEF FollowUpList
    <3>2. x \in HookRecords
      <4>1. r.at \in Nat
        BY <2>1 DEF HookRecords
      <4>2. d \in 0..MaxTime
        BY <1>2, <4>1, NextAllowedIs, AheadIs
      <4> HIDE DEF d
      <4>. QED BY <2>1, <4>2 DEF HookRecords, HookStages
    <3>3. \A m \in R : m[1] = <<"call_scheduled", r.session>>
      OBVIOUS
    <3>4. x.pc = "row" /\ x.todo = R /\ x.session = r.session /\ x.event = r.event
      BY <2>1 DEF HookRecords
    <3>5. x # HookIdle /\ TargetOf(x) = TargetOf(r)
      BY <3>4 DEF HookIdle, TargetOf
    <3> HIDE DEF x, R
    <3>6. GoodHook(x)
      BY <2>1, <3>2, <3>3, <3>4, <3>5 DEF GoodHook
    <3>. QED BY <1>2, <3>1, <3>6, HookGoesOn, IdleIsGood
  <2>12. ASSUME NEW m \in Messages, FollowUpRow(h, m) PROVE HooksOK'
    <3> DEFINE x == [r EXCEPT !.pc = "remove", !.step = m[2], !.todo = @ \ {m}]
    <3>1. hook' = [hook EXCEPT ![h] = x]
      BY <2>12 DEF FollowUpRow
    <3>2. m[1] = <<"call_scheduled", r.session>>
      BY <2>1, <2>12 DEF FollowUpRow, GoodHook
    <3>3. x \in HookRecords
      BY <2>1, MessageShape DEF HookRecords, HookStages
    <3>4. /\ x.pc = "remove" /\ x.todo = r.todo \ {m} /\ x.session = r.session
          /\ x.event = r.event /\ x.step = m[2]
      BY <2>1 DEF HookRecords
    <3>5. x # HookIdle /\ TargetOf(x) = TargetOf(r)
      BY <3>4 DEF HookIdle, TargetOf
    <3>6. m = <<<<"call_scheduled", x.session>>, x.step>>
      BY <3>2, <3>4, MessageShape
    <3> HIDE DEF x
    <3>7. GoodHook(x)
      BY <2>1, <3>3, <3>4, <3>5, <3>6 DEF GoodHook
    <3>. QED BY <1>2, <3>1, <3>7, HookGoesOn
  <2>13. ASSUME NextReminder(h), r.pc \in {"remove", "add"} PROVE HooksOK'
    <3>1. CASE Finish(h)
      BY <1>2, <3>1, HookFinishes
    <3>2. CASE Step(h, "row")
      <4>1. GoodHook([r EXCEPT !.pc = "row"])
        BY <2>1, <2>13 DEF GoodHook, HookRecords, HookStages, HookIdle, TargetOf
      <4>. QED BY <2>2, <3>2, <4>1 DEF HookStages
    <3>. QED BY <2>13, <3>1, <3>2 DEF NextReminder
  <2>14. CASE FollowUpRemove(h)
    <3>1. CASE Finish(h)
      BY <1>2, <3>1, HookFinishes
    <3>2. CASE NextReminder(h)
      BY <2>13, <2>14, <3>2 DEF FollowUpRemove
    <3>3. CASE Step(h, "add")
      <4>1. GoodHook([r EXCEPT !.pc = "add"])
        BY <2>1, <2>14 DEF FollowUpRemove, GoodHook, HookRecords, HookStages, HookIdle, TargetOf
      <4>. QED BY <2>2, <3>3, <4>1 DEF HookStages
    <3>. QED BY <2>14, <3>1, <3>2, <3>3 DEF FollowUpRemove
  <2>15. CASE FollowUpAdd(h)
    BY <2>13, <2>15 DEF FollowUpAdd
  <2>. QED BY <1>4, <2>3, <2>4, <2>5, <2>6, <2>8, <2>9, <2>10, <2>11, <2>12, <2>14, <2>15
           DEF HookStep
<1>5. ASSUME NEW h \in Hooks, HookAbort(h) PROVE HooksOK'
  BY <1>2, <1>5, HookFinishes DEF HookAbort
<1>6. CASE UNCHANGED hook
  BY <1>2, <1>6 DEF HooksOK
<1>7. ASSUME NEW w \in Workers, SmsWorkerStep(w) \/ SmsError(w) \/ SmsWorkerDies(w)
                                \/ \E m \in Messages : SmsWorkerTake(w, m)
      PROVE  UNCHANGED hook
  BY <1>7 DEF SmsWorkerTake, SmsWorkerStep, SmsError, SmsWorkerDies, SmsGuard, SmsTime,
     SmsSkip, SmsStop, SmsCancel, SmsSend, SmsMark, SmsLog, SmsFail, SmsWorkerDone
<1>8. ASSUME \/ Tick \/ CronList \/ CronAbort \/ \E s \in Sessions : SystemLead(s)
             \/ \E m \in Messages : CronRequeue(m) \/ SmsJobStalls(m)
      PROVE  UNCHANGED hook
  BY <1>8 DEF Tick, CronList, CronAbort, ReadBatch, SystemLead, CronRequeue, SmsJobStalls
<1>. QED BY <1>1, <1>3, <1>4, <1>5, <1>6, <1>7, <1>8 DEF SmsNext

\* One attempt goes on to a good record.
LEMMA WorkerGoesOn ==
  ASSUME WorkersOK, NEW w \in Workers, NEW r, GoodWorker(r),
         worker' = [worker EXCEPT ![w] = r]
  PROVE  WorkersOK'
BY DEF WorkersOK, GoodWorker

LEMMA WorkerStage ==
  ASSUME WorkersOK, NEW w \in Workers, worker[w].pc # "idle",
         NEW stage \in WorkerStages \ {"idle"}, Goto(w, stage)
  PROVE  /\ WorkersOK'
         /\ worker'[w].message = worker[w].message /\ worker'[w].pc = stage
         /\ worker'[w].at = worker[w].at
         /\ \A v \in Workers \ {w} : worker'[v] = worker[v]
<1> DEFINE r == [worker[w] EXCEPT !.pc = stage]
<1>1. worker[w] \in WorkerRecords /\ GoodWorker(worker[w])
  BY DEF WorkersOK
<1>2. /\ r \in WorkerRecords /\ r.pc = stage /\ r.message = worker[w].message
      /\ r.at = worker[w].at
  BY <1>1 DEF WorkerRecords
<1>3. r # WorkerIdle
  BY <1>2 DEF WorkerIdle
<1>4. worker' = [worker EXCEPT ![w] = r]
  BY DEF Goto
<1> HIDE DEF r
<1>5. GoodWorker(r)
  BY <1>1, <1>2, <1>3 DEF GoodWorker
<1>6. WorkersOK'
  BY <1>4, <1>5, WorkerGoesOn
<1>. QED BY <1>2, <1>4, <1>6 DEF WorkersOK

LEMMA VerdictIsReason == \A m : Verdict(m) \in Reasons
BY DEF Verdict, Reasons

LEMMA WorkersStep == Shape /\ SmsNext => WorkersOK'
<1>1. SUFFICES ASSUME Shape, SmsNext PROVE WorkersOK'
  OBVIOUS
<1>2. WorkersOK /\ RowsOK
  BY <1>1 DEF Shape
<1>3. ASSUME NEW w \in Workers, NEW m \in Messages, SmsWorkerTake(w, m) PROVE WorkersOK'
  <2> DEFINE r == [WorkerIdle EXCEPT
                !.pc = IF message[m] \in {"none", "sent", "canceled"} THEN "done" ELSE "guard",
                !.message = m, !.at = scheduled[m]]
  <2>1. worker' = [worker EXCEPT ![w] = r]
    BY <1>3 DEF SmsWorkerTake
  <2>2. scheduled[m] \in 0..MaxTime
    BY <1>2 DEF RowsOK
  <2>3. GoodWorker(r)
    BY <2>2 DEF GoodWorker, WorkerRecords, WorkerIdle, WorkerStages, Reasons
  <2>. QED BY <1>2, <2>1, <2>3, WorkerGoesOn
<1>4. ASSUME NEW w \in Workers, SmsGuard(w) PROVE WorkersOK'
  <2> DEFINE v == Verdict(worker[w].message)
             r == [worker[w] EXCEPT !.pc = IF v = "allowed" THEN "time" ELSE "skip",
                                    !.reason = v]
  <2>1. worker' = [worker EXCEPT ![w] = r]
    BY <1>4 DEF SmsGuard
  <2>2. v \in Reasons
    BY VerdictIsReason
  <2>3. worker[w] \in WorkerRecords /\ worker[w].message \in Messages
    BY <1>2, <1>4 DEF SmsGuard, WorkersOK, GoodWorker
  <2> HIDE DEF v
  <2>4. GoodWorker(r)
    BY <2>2, <2>3 DEF GoodWorker, WorkerRecords, WorkerIdle, WorkerStages
  <2>. QED BY <1>2, <2>1, <2>4, WorkerGoesOn
<1>5. ASSUME NEW w \in Workers,
             SmsSkip(w) \/ SmsStop(w) \/ SmsCancel(w) \/ SmsTime(w) \/ SmsSend(w)
             \/ SmsMark(w) \/ SmsLog(w) \/ SmsFail(w) \/ SmsError(w)
      PROVE  WorkersOK'
  <2>1. worker[w].pc # "idle"
    BY <1>5 DEF SmsSkip, SmsStop, SmsCancel, SmsTime, SmsSend, SmsMark, SmsLog, SmsFail, SmsError
  <2>2. \E stage \in {"stop", "done", "cancel", "send", "mark", "log", "thrown", "fail"} :
          Goto(w, stage)
    BY <1>5 DEF SmsSkip, SmsStop, SmsCancel, SmsTime, SmsSend, SmsMark, SmsLog, SmsFail, SmsError
  <2>. QED BY <1>2, <2>1, <2>2, WorkerStage DEF WorkerStages
<1>6. ASSUME NEW w \in Workers, SmsWorkerDone(w) \/ SmsWorkerDies(w) PROVE WorkersOK'
  BY <1>2, <1>6, WorkerGoesOn, IdleIsGood DEF SmsWorkerDone, SmsWorkerDies
<1>7. CASE UNCHANGED worker
  BY <1>2, <1>7 DEF WorkersOK
<1>8. ASSUME NEW h \in Hooks, NEW event \in Events, NEW s \in Keys, NEW t \in 0..MaxTime,
             FireHook(h, event, s, t)
      PROVE  UNCHANGED worker
  BY <1>8 DEF FireHook
<1>9. ASSUME NEW h \in Hooks, HookStep(h) \/ HookAbort(h) PROVE UNCHANGED worker
  BY <1>9 DEF HookStep, HookStop, HookCancel, EnrollFind, EnrollUpsert, EnrollCheck,
     EnrollCreate, EnrollEnqueue, FollowUpList, FollowUpRow, FollowUpRemove,
     FollowUpAdd, HookAbort
<1>10. ASSUME \/ Tick \/ CronList \/ CronAbort \/ \E s \in Sessions : SystemLead(s)
              \/ \E m \in Messages : CronRequeue(m) \/ SmsJobStalls(m)
       PROVE  UNCHANGED worker
  BY <1>10 DEF Tick, CronList, CronAbort, ReadBatch, SystemLead, CronRequeue, SmsJobStalls
<1>. QED BY <1>1, <1>3, <1>4, <1>5, <1>6, <1>7, <1>8, <1>9, <1>10
         DEF SmsNext, SmsWorkerStep

\* No attempt ends or changes its message in a step.
AttemptsGoOn ==
  \A w \in Workers : worker[w].pc # "idle" =>
    worker'[w].message = worker[w].message /\ worker'[w].pc # "idle"

LEMMA JobsUntouched == ASSUME JobsOK, UNCHANGED jobVars, AttemptsGoOn PROVE JobsOK'
BY DEF JobsOK, JobTypes, Held, jobVars, AttemptsGoOn

LEMMA JobAdded ==
  ASSUME JobsOK, NEW m \in Messages, NEW t \in 0..MaxTime, AddJob(m, t), AttemptsGoOn
  PROVE  JobsOK'
<1>1. CASE job[m] = "none"
  BY <1>1 DEF AddJob, JobsOK, JobTypes, Held, AttemptsGoOn
<1>2. CASE job[m] # "none"
  BY <1>2, JobsUntouched DEF AddJob
<1>. QED BY <1>1, <1>2

LEMMA WorkerUnchanged == UNCHANGED worker => AttemptsGoOn
BY DEF AttemptsGoOn

\* The stages of an attempt between its first and its last.
LEMMA AttemptStage ==
  ASSUME Shape, NEW w \in Workers,
         SmsGuard(w) \/ SmsSkip(w) \/ SmsStop(w) \/ SmsCancel(w) \/ SmsTime(w)
         \/ SmsSend(w) \/ SmsMark(w) \/ SmsLog(w) \/ SmsFail(w) \/ SmsError(w)
  PROVE  AttemptsGoOn
<1>1. worker \in [Workers -> WorkerRecords] /\ worker[w].pc # "idle"
  BY DEF Shape, WorkersOK, SmsGuard, SmsSkip, SmsStop, SmsCancel, SmsTime, SmsSend,
     SmsMark, SmsLog, SmsFail, SmsError
<1>2. CASE SmsGuard(w)
  BY <1>1, <1>2 DEF SmsGuard, AttemptsGoOn, WorkerRecords
<1>3. CASE ~SmsGuard(w)
  <2>1. \E stage \in {"stop", "done", "cancel", "send", "mark", "log", "thrown", "fail"} :
          Goto(w, stage)
    BY <1>3 DEF SmsSkip, SmsStop, SmsCancel, SmsTime, SmsSend, SmsMark, SmsLog, SmsFail, SmsError
  <2>. QED BY <1>1, <2>1, WorkerStage DEF AttemptsGoOn, Shape, WorkerStages
<1>. QED BY <1>2, <1>3

\* The attempt of one worker ends; its job is given back or has another owner.
LEMMA AttemptEnds ==
  ASSUME JobsOK, WorkersOK, NEW w \in Workers, worker[w].pc # "idle",
         worker' = [worker EXCEPT ![w] = WorkerIdle], JobTypes',
         \/ UNCHANGED <<job, tries, owner>> /\ owner[worker[w].message] # w
         \/ /\ owner[worker[w].message] = w
            /\ owner' = [owner EXCEPT ![worker[w].message] = NoWorker]
            /\ \A m \in Messages \ {worker[w].message} :
                 job'[m] = job[m] /\ tries'[m] = tries[m]
            /\ job'[worker[w].message] # "active"
            /\ job'[worker[w].message] = "waiting" => tries'[worker[w].message] < MaxTries
  PROVE  JobsOK'
<1>1. worker[w].message \in Messages
  BY DEF WorkersOK, GoodWorker
<1>2. \A m \in Messages \ {worker[w].message} : owner[m] # w
  BY DEF JobsOK, Held
<1>3. \A v \in Workers \ {w} : worker'[v] = worker[v]
  BY DEF WorkersOK
<1>. QED BY <1>1, <1>2, <1>3 DEF JobsOK, JobTypes, Held

\* A job without its lock runs again or has failed for good.
LEMMA StalledJob ==
  ASSUME JobTypes, NEW m \in Messages, FoundStalled(m), UNCHANGED <<runAt, tries>>
  PROVE  /\ JobTypes' /\ job'[m] \in {"waiting", "failed"}
         /\ \A k \in Messages \ {m} : job'[k] = job[k]
<1>1. CASE stalls[m] < MaxStalls
  BY <1>1 DEF FoundStalled, JobTypes
<1>2. CASE ~(stalls[m] < MaxStalls)
  BY <1>2 DEF FoundStalled, JobTypes
<1>. QED BY <1>1, <1>2

LEMMA JobsStep == Shape /\ SmsNext => JobsOK'
<1>1. SUFFICES ASSUME Shape, SmsNext PROVE JobsOK'
  OBVIOUS
<1>2. JobsOK /\ JobTypes /\ WorkersOK /\ RowsOK /\ HooksOK /\ now \in 0..MaxTime
  BY <1>1 DEF Shape, RestOK, JobsOK
<1>3. ASSUME NEW h \in Hooks, HookStep(h) PROVE JobsOK'
  <2>1. GoodHook(hook[h])
    BY <1>2 DEF HooksOK
  <2>2. AttemptsGoOn
    BY <1>3, WorkerUnchanged DEF HookStep, HookStop, HookCancel, EnrollFind, EnrollUpsert,
       EnrollCheck, EnrollCreate, EnrollEnqueue, FollowUpList, FollowUpRow,
       FollowUpRemove, FollowUpAdd
  <2>3. CASE EnrollEnqueue(h)
    <3> DEFINE m == <<Target(h), hook[h].step>>
    <3>1. m \in Messages
      BY <2>1, <2>3, EnrollmentShape DEF EnrollEnqueue, GoodHook, Target, TargetOf
    <3>2. After(hook[h].delay) \in 0..MaxTime
      BY <1>2, <2>1, AfterIs DEF GoodHook, HookRecords
    <3>. QED BY <1>2, <2>2, <2>3, <3>1, <3>2, JobAdded DEF EnrollEnqueue
  <2>4. CASE FollowUpAdd(h)
    <3>1. Reminder(h) \in Messages
      BY <2>1, <2>4 DEF FollowUpAdd, GoodHook, Reminder
    <3>2. After(hook[h].delay) \in 0..MaxTime
      BY <1>2, <2>1, AfterIs DEF GoodHook, HookRecords
    <3>. QED BY <1>2, <2>2, <2>4, <3>1, <3>2, JobAdded DEF FollowUpAdd
  <2>5. CASE FollowUpRemove(h)
    <3>1. Reminder(h) \in Messages
      BY <2>1, <2>5 DEF FollowUpRemove, GoodHook, Reminder
    <3>2. CASE job[Reminder(h)] = "active"
      BY <1>2, <2>2, <2>5, <3>2, JobsUntouched DEF FollowUpRemove, jobVars
    <3>3. CASE job[Reminder(h)] # "active"
      BY <1>2, <2>2, <2>5, <3>1, <3>3 DEF FollowUpRemove, JobsOK, JobTypes, Held, AttemptsGoOn
    <3>. QED BY <3>2, <3>3
  <2>6. CASE \/ HookStop(h) \/ HookCancel(h) \/ EnrollFind(h) \/ EnrollUpsert(h)
             \/ EnrollCheck(h) \/ EnrollCreate(h) \/ FollowUpList(h)
             \/ \E m \in Messages : FollowUpRow(h, m)
    <3>1. UNCHANGED jobVars
      BY <2>6 DEF HookStop, HookCancel, EnrollFind, EnrollUpsert, EnrollCheck,
         EnrollCreate, FollowUpList, FollowUpRow
    <3>. QED BY <1>2, <2>2, <3>1, JobsUntouched
  <2>. QED BY <1>3, <2>3, <2>4, <2>5, <2>6 DEF HookStep
<1>4. ASSUME NEW w \in Workers, NEW m \in Messages, SmsWorkerTake(w, m) PROVE JobsOK'
  <2>1. \A k \in Messages : owner[k] # w
    BY <1>2, <1>4 DEF SmsWorkerTake, JobsOK, Held
  <2>2. /\ \A v \in Workers \ {w} : worker'[v] = worker[v]
        /\ worker'[w].message = m /\ worker'[w].pc # "idle"
    BY <1>2, <1>4 DEF SmsWorkerTake, WorkersOK, WorkerIdle
  <2>3. /\ job' = [job EXCEPT ![m] = "active"] /\ owner' = [owner EXCEPT ![m] = w]
        /\ UNCHANGED <<runAt, tries, stalls>> /\ job[m] = "waiting"
    BY <1>4 DEF SmsWorkerTake
  <2>. QED BY <1>2, <2>1, <2>2, <2>3 DEF JobsOK, JobTypes, Held
<1>5. ASSUME NEW w \in Workers,
             SmsGuard(w) \/ SmsSkip(w) \/ SmsStop(w) \/ SmsCancel(w)
             \/ SmsSend(w) \/ SmsMark(w) \/ SmsLog(w) \/ SmsFail(w) \/ SmsError(w)
      PROVE  JobsOK'
  <2>1. UNCHANGED jobVars
    BY <1>5 DEF SmsGuard, SmsSkip, SmsStop, SmsCancel, SmsSend, SmsMark, SmsLog, SmsFail, SmsError
  <2>. QED BY <1>1, <1>2, <1>5, <2>1, AttemptStage, JobsUntouched
<1>6. ASSUME NEW w \in Workers, SmsTime(w) PROVE JobsOK'
  <2> DEFINE t == IF worker[w].at > now THEN worker[w].at ELSE now
  <2>1. AttemptsGoOn
    BY <1>1, <1>6, AttemptStage
  <2>2. worker[w].message \in Messages /\ worker[w].at \in Nat
    BY <1>2, <1>6 DEF SmsTime, WorkersOK, GoodWorker, WorkerRecords
  <2>3. NextAllowed(t) \in 0..MaxTime
    BY <1>2, <2>2, NextAllowedIs
  <2>4. AddJob(worker[w].message, NextAllowed(t)) \/ UNCHANGED jobVars
    BY <1>6 DEF SmsTime
  <2>. QED BY <1>2, <2>1, <2>2, <2>3, <2>4, JobAdded, JobsUntouched
<1>7. ASSUME NEW w \in Workers, SmsWorkerDone(w) PROVE JobsOK'
  <2> DEFINE m == worker[w].message
  <2>1. m \in Messages /\ worker[w].pc # "idle" /\ worker' = [worker EXCEPT ![w] = WorkerIdle]
    BY <1>2, <1>7 DEF SmsWorkerDone, WorkersOK, GoodWorker
  <2>2. CASE owner[m] # w
    <3>1. UNCHANGED <<job, tries, owner, runAt, stalls>>
      BY <1>7, <2>2 DEF SmsWorkerDone
    <3>2. JobTypes'
      BY <1>2, <3>1 DEF JobTypes
    <3>. QED BY <1>2, <2>1, <2>2, <3>1, <3>2, AttemptEnds
  <2>3. CASE owner[m] = w
    <3>1. tries[m] < MaxTries /\ tries[m] \in Nat
      BY <1>2, <2>1, <2>3 DEF JobsOK, JobTypes, Held
    <3>2. owner' = [owner EXCEPT ![m] = NoWorker] /\ UNCHANGED <<runAt, stalls>>
      BY <1>7, <2>3 DEF SmsWorkerDone
    <3>3. \/ job' = [job EXCEPT ![m] = "completed"] /\ UNCHANGED tries
          \/ /\ tries' = [tries EXCEPT ![m] = @ + 1]
             /\ job' = [job EXCEPT ![m] = IF tries[m] + 1 < MaxTries THEN "waiting"
                                          ELSE "failed"]
      BY <1>7, <2>3 DEF SmsWorkerDone
    <3>4. JobTypes'
      BY <1>2, <2>1, <3>1, <3>2, <3>3 DEF JobTypes
    <3>5. job'[m] # "active" /\ (job'[m] = "waiting" => tries'[m] < MaxTries)
      BY <1>2, <2>1, <3>1, <3>3 DEF JobTypes
    <3>6. \A k \in Messages \ {m} : job'[k] = job[k] /\ tries'[k] = tries[k]
      BY <1>2, <3>3 DEF JobTypes
    <3>. QED BY <1>2, <2>1, <2>3, <3>2, <3>4, <3>5, <3>6, AttemptEnds
  <2>. QED BY <2>2, <2>3
<1>8. ASSUME NEW w \in Workers, SmsWorkerDies(w) PROVE JobsOK'
  <2> DEFINE m == worker[w].message
  <2>1. m \in Messages /\ worker[w].pc # "idle" /\ worker' = [worker EXCEPT ![w] = WorkerIdle]
    BY <1>2, <1>8 DEF SmsWorkerDies, WorkersOK, GoodWorker
  <2>2. CASE owner[m] # w
    <3>1. UNCHANGED <<job, tries, owner, runAt, stalls>>
      BY <1>8, <2>2 DEF SmsWorkerDies
    <3>2. JobTypes'
      BY <1>2, <3>1 DEF JobTypes
    <3>. QED BY <1>2, <2>1, <2>2, <3>1, <3>2, AttemptEnds
  <2>3. CASE owner[m] = w
    <3>1. tries[m] < MaxTries
      BY <1>2, <2>1, <2>3 DEF JobsOK, JobTypes, Held
    <3>2. FoundStalled(m) /\ UNCHANGED <<runAt, tries>>
      BY <1>8, <2>3 DEF SmsWorkerDies
    <3>6. owner' = [owner EXCEPT ![m] = NoWorker]
      BY <3>2 DEF FoundStalled
    <3>3. JobTypes' /\ job'[m] \in {"waiting", "failed"}
          /\ \A k \in Messages \ {m} : job'[k] = job[k]
      BY <1>2, <2>1, <3>2, StalledJob
    <3>4. job'[m] # "active" /\ tries'[m] < MaxTries
      BY <3>1, <3>2, <3>3
    <3>5. \A k \in Messages \ {m} : job'[k] = job[k] /\ tries'[k] = tries[k]
      BY <3>2, <3>3
    <3>. QED BY <1>2, <2>1, <2>3, <3>3, <3>4, <3>5, <3>6, AttemptEnds
  <2>. QED BY <2>2, <2>3
<1>9. ASSUME NEW m \in Messages, SmsJobStalls(m) PROVE JobsOK'
  <2>1. FoundStalled(m) /\ UNCHANGED <<runAt, tries, worker>>
    BY <1>9 DEF SmsJobStalls
  <2>2. /\ JobTypes' /\ job'[m] \in {"waiting", "failed"}
        /\ \A k \in Messages \ {m} : job'[k] = job[k]
    BY <1>2, <2>1, StalledJob
  <2>3. owner' = [owner EXCEPT ![m] = NoWorker] /\ job[m] = "active"
    BY <1>9, <2>1 DEF SmsJobStalls, FoundStalled
  <2>. QED BY <1>2, <2>1, <2>2, <2>3 DEF JobsOK, JobTypes, Held
<1>10. ASSUME NEW m \in Messages, CronRequeue(m) PROVE JobsOK'
  BY <1>2, <1>10, WorkerUnchanged, JobAdded DEF CronRequeue
<1>11. CASE UNCHANGED <<jobVars, worker>>
  BY <1>2, <1>11, WorkerUnchanged, JobsUntouched
<1>12. ASSUME NEW h \in Hooks,
              HookAbort(h) \/ (\E event \in Events, s \in Keys, t \in 0..MaxTime :
                                 FireHook(h, event, s, t))
       PROVE  UNCHANGED <<jobVars, worker>>
  BY <1>12 DEF HookAbort, FireHook
<1>13. ASSUME Tick \/ CronList \/ CronAbort \/ \E s \in Sessions : SystemLead(s)
       PROVE  UNCHANGED <<jobVars, worker>>
  BY <1>13 DEF Tick, CronList, CronAbort, ReadBatch, SystemLead
<1>. QED BY <1>1, <1>3, <1>4, <1>5, <1>6, <1>7, <1>8, <1>9, <1>10, <1>11, <1>12, <1>13
         DEF SmsNext, SmsWorkerStep

LEMMA RestStep == Shape /\ SmsNext => RestOK'
<1>1. SUFFICES ASSUME Shape, SmsNext PROVE RestOK'
  OBVIOUS
<1>. USE DEF RestOK, Fault, Overtake, StopEnrollments
<1>2. RestOK /\ WorkersOK
  BY <1>1 DEF Shape
<1>3. CASE Tick
  BY <1>2, <1>3 DEF Tick
<1>4. ASSUME NEW h \in Hooks, NEW event \in Events, NEW s \in Keys, NEW t \in 0..MaxTime,
             FireHook(h, event, s, t)
      PROVE  RestOK'
  BY <1>2, <1>4 DEF FireHook
<1>5. ASSUME NEW h \in Hooks, HookStep(h) PROVE RestOK'
  BY <1>2, <1>5 DEF HookStep, HookStop, HookCancel, EnrollFind, EnrollUpsert, EnrollCheck,
     EnrollCreate, EnrollEnqueue, FollowUpList, FollowUpRow, FollowUpRemove,
     FollowUpAdd, historyVars
<1>6. ASSUME NEW h \in Hooks, HookAbort(h) PROVE RestOK'
  BY <1>2, <1>6 DEF HookAbort, historyVars
<1>7. ASSUME NEW s \in Sessions, SystemLead(s) PROVE RestOK'
  BY <1>2, <1>7 DEF SystemLead
<1>8. ASSUME NEW w \in Workers, NEW m \in Messages, SmsWorkerTake(w, m) PROVE RestOK'
  BY <1>2, <1>8 DEF SmsWorkerTake
<1>9. ASSUME NEW w \in Workers, SmsWorkerStep(w) PROVE RestOK'
  <2>1. CASE SmsSend(w)
    <3>1. worker[w].message \in Messages
      BY <1>2, <2>1 DEF SmsSend, WorkersOK, GoodWorker
    <3>. QED BY <1>2, <2>1, <3>1 DEF SmsSend
  <2>2. CASE SmsStop(w) \/ SmsTime(w) \/ SmsWorkerDone(w)
    BY <1>2, <2>2 DEF SmsStop, SmsTime, SmsWorkerDone
  <2>3. CASE SmsGuard(w) \/ SmsSkip(w) \/ SmsCancel(w) \/ SmsMark(w) \/ SmsLog(w) \/ SmsFail(w)
    BY <1>2, <2>3 DEF SmsGuard, SmsSkip, SmsCancel, SmsMark, SmsLog, SmsFail, historyVars
  <2>. QED BY <1>9, <2>1, <2>2, <2>3 DEF SmsWorkerStep
<1>10. ASSUME NEW w \in Workers, SmsError(w) \/ SmsWorkerDies(w) PROVE RestOK'
  BY <1>2, <1>10 DEF SmsError, SmsWorkerDies, historyVars
<1>11. CASE CronList
  <2>1. Stale("pending") \subseteq Messages
    BY DEF Stale
  <2>. QED BY <1>2, <1>11, <2>1 DEF CronList, ReadBatch, historyVars
<1>13. CASE CronAbort
  BY <1>2, <1>13 DEF CronAbort, historyVars
<1>12. ASSUME NEW m \in Messages, CronRequeue(m) \/ SmsJobStalls(m) PROVE RestOK'
  BY <1>2, <1>12 DEF CronRequeue, SmsJobStalls, historyVars
<1>. QED BY <1>1, <1>3, <1>4, <1>5, <1>6, <1>7, <1>8, <1>9, <1>10, <1>11, <1>12, <1>13
         DEF SmsNext

\* The shape is an invariant.
LEMMA ShapeStep == Shape /\ [SmsNext]_smsVars => Shape'
<1>1. Shape /\ SmsNext => Shape'
  BY CrmStep, RowsStep, HooksStep, WorkersStep, JobsStep, RestStep DEF Shape
<1>2. Shape /\ UNCHANGED smsVars => Shape'
  BY DEF Shape, CrmOK, RowsOK, JobsOK, JobTypes, Held, HooksOK, WorkersOK, RestOK,
     smsVars, crmVars, rowVars, jobVars, historyVars
<1>. QED BY <1>1, <1>2

LEMMA ShapeHolds == SmsSpec => []Shape
BY InitShape, ShapeStep, PTL DEF SmsSpec

-----------------------------------------------------------------------------
(* SendIsWanted: what an attempt has read and checked stays true as long as  *)
(* nothing has overtaken it.                                                 *)

\* What an attempt knows at its stage, while it is in fresh.
Knows(w) ==
  LET m == worker[w].message IN
  /\ worker[w].pc \in {"guard", "time", "send"} =>
       worker[w].at = scheduled[m] /\ message[m] # "none"
  /\ worker[w].pc \in {"time", "send"} =>
       /\ enrollment[m[1]] = "active"
       /\ m[1][1] \in {"nurture", "form_abandon"} => ~leadRow[m[1][2]]
  /\ worker[w].pc = "send" => scheduled[m] <= now /\ now \notin Quiet

FreshKnow == \A w \in fresh : Knows(w)

\* A step that changes nothing an attempt at m has checked.
Undisturbed(m) ==
  /\ message[m] # "none" => message'[m] # "none" /\ scheduled'[m] = scheduled[m]
  /\ enrollment[m[1]] = "active" => enrollment'[m[1]] = "active"
  /\ m[1][2] # NoSession => leadRow'[m[1][2]] = leadRow[m[1][2]]

LEMMA StillKnows ==
  ASSUME Shape, NEW w \in Workers, Knows(w), worker'[w] = worker[w], now' = now,
         worker[w].pc # "idle" => Undisturbed(worker[w].message)
  PROVE  Knows(w)'
<1>1. CASE worker[w].pc = "idle"
  BY <1>1 DEF Knows
<1>2. CASE worker[w].pc # "idle"
  <2> DEFINE m == worker[w].message
  <2>1. m \in Messages /\ m[1] \in Enrollments
    BY <1>2, MessageShape DEF Shape, WorkersOK, GoodWorker
  <2>2. m[1][1] \in {"nurture", "form_abandon"} => m[1][2] # NoSession
    BY <2>1, EnrollmentShape
  <2>. QED BY <1>2, <2>2 DEF Knows, Undisturbed
<1>. QED BY <1>1, <1>2

\* A step of the others: whoever stays fresh is undisturbed.
LEMMA FreshUndisturbed ==
  ASSUME Shape, FreshKnow, now' = now, UNCHANGED worker, fresh' \subseteq fresh,
         \A w \in fresh' : worker[w].message \in Messages => Undisturbed(worker[w].message)
  PROVE  FreshKnow'
<1>1. \A w \in fresh : w \in Workers
  BY DEF Shape, RestOK
<1>2. \A w \in fresh : worker[w].pc # "idle" => worker[w].message \in Messages
  BY <1>1 DEF Shape, WorkersOK, GoodWorker
<1>. QED BY <1>1, <1>2, StillKnows DEF FreshKnow

\* A step of one attempt that disturbs none of the others.
LEMMA FreshAttempt ==
  ASSUME Shape, FreshKnow, now' = now, NEW w \in Workers,
         \A v \in Workers \ {w} : worker'[v] = worker[v],
         fresh' \subseteq fresh \cup {w}, w \in fresh' => Knows(w)',
         \A v \in fresh' : worker[v].message \in Messages => Undisturbed(worker[v].message)
  PROVE  FreshKnow'
<1>1. \A v \in fresh : v \in Workers
  BY DEF Shape, RestOK
<1>2. \A v \in fresh : worker[v].pc # "idle" => worker[v].message \in Messages
  BY <1>1 DEF Shape, WorkersOK, GoodWorker
<1>. QED BY <1>1, <1>2, StillKnows DEF FreshKnow

\* Nothing of what attempts check changes.
LEMMA NothingDisturbed ==
  ASSUME UNCHANGED <<leadRow, enrollment, message, scheduled>>, NEW m
  PROVE  Undisturbed(m)
BY DEF Undisturbed

LEMMA StopDisturbsItsScope ==
  ASSUME Shape, NEW S, NEW cause, StopEnrollments(S, cause),
         UNCHANGED <<leadRow, message, scheduled>>,
         NEW w \in fresh', worker[w].message \in Messages
  PROVE  Undisturbed(worker[w].message)
<1> DEFINE m == worker[w].message
<1>1. m[1] \in Enrollments
  BY MessageShape
<1>2. m[1] \notin S
  BY DEF StopEnrollments, Overtake
<1>3. enrollment'[m[1]] = enrollment[m[1]]
  BY <1>1, <1>2 DEF StopEnrollments
<1>. QED BY <1>3 DEF Undisturbed

LEMMA CancelDisturbsNobody ==
  ASSUME NEW S, CancelPending(S), UNCHANGED <<leadRow, enrollment, scheduled>>,
         NEW m \in Messages
  PROVE  Undisturbed(m)
BY DEF CancelPending, Undisturbed

LEMMA HookKeepsFresh ==
  ASSUME Shape, FreshKnow, NEW h \in Hooks, HookStep(h) PROVE FreshKnow'
<1>1. UNCHANGED <<worker, now, leadRow>>
  BY DEF HookStep, HookStop, HookCancel, EnrollFind, EnrollUpsert, EnrollCheck,
     EnrollCreate, EnrollEnqueue, FollowUpList, FollowUpRow, FollowUpRemove,
     FollowUpAdd, crmVars
<1>2. fresh' \subseteq fresh
  BY DEF HookStep, HookStop, HookCancel, EnrollFind, EnrollUpsert, EnrollCheck,
     EnrollCreate, EnrollEnqueue, FollowUpList, FollowUpRow, FollowUpRemove,
     FollowUpAdd, historyVars, StopEnrollments, Overtake
<1>3. RowsOK
  BY DEF Shape
<1>4. SUFFICES ASSUME NEW w \in fresh', worker[w].message \in Messages
               PROVE  Undisturbed(worker[w].message)
  BY <1>1, <1>2, FreshUndisturbed
<1> DEFINE m == worker[w].message
<1>5. m[1] \in Enrollments
  BY <1>4, MessageShape
<1>6. CASE HookStop(h)
  BY <1>1, <1>4, <1>6, StopDisturbsItsScope DEF HookStop
<1>7. CASE HookCancel(h)
  BY <1>1, <1>4, <1>7, CancelDisturbsNobody DEF HookCancel
<1>8. CASE EnrollUpsert(h)
  <2>1. enrollment[m[1]] = "active" => enrollment'[m[1]] = "active"
    BY <1>3, <1>5, <1>8 DEF EnrollUpsert, RowsOK
  <2>2. UNCHANGED <<message, scheduled>>
    BY <1>8 DEF EnrollUpsert
  <2>. QED BY <1>1, <2>1, <2>2 DEF Undisturbed
<1>9. CASE EnrollCreate(h)
  <2>1. UNCHANGED enrollment
    BY <1>9 DEF EnrollCreate
  <2>2. message[m] # "none" => message'[m] # "none" /\ scheduled'[m] = scheduled[m]
    BY <1>3, <1>4, <1>9 DEF EnrollCreate, RowsOK
  <2>. QED BY <1>1, <2>1, <2>2 DEF Undisturbed
<1>10. ASSUME NEW k \in Messages, FollowUpRow(h, k) PROVE Undisturbed(m)
  <2>1. UNCHANGED enrollment
    BY <1>10 DEF FollowUpRow
  <2>2. message'[m] = message[m] /\ scheduled'[m] = scheduled[m]
    <3>1. CASE message[k] # "pending"
      BY <1>10, <3>1 DEF FollowUpRow
    <3>2. CASE message[k] = "pending"
      <4>1. m # k
        BY <1>4, <1>10, <3>2 DEF FollowUpRow, Overtake
      <4>. QED BY <1>3, <1>4, <1>10, <3>2, <4>1 DEF FollowUpRow, RowsOK
    <3>. QED BY <3>1, <3>2
  <2>. QED BY <1>1, <2>1, <2>2 DEF Undisturbed
<1>11. CASE EnrollFind(h) \/ EnrollCheck(h) \/ EnrollEnqueue(h) \/ FollowUpList(h)
            \/ FollowUpRemove(h) \/ FollowUpAdd(h)
  <2>1. UNCHANGED rowVars
    BY <1>11 DEF EnrollFind, EnrollCheck, EnrollEnqueue, FollowUpList, FollowUpRemove,
       FollowUpAdd
  <2>. QED BY <1>1, <2>1, NothingDisturbed DEF rowVars
<1>. QED BY <1>6, <1>7, <1>8, <1>9, <1>10, <1>11 DEF HookStep

\* The guard lets an attempt pass when the enrollment is active and, for the
\* two sequences that stop at a consultation request, when there is none.
LEMMA AllowedMeans ==
  ASSUME NEW m \in Messages, Verdict(m) = "allowed",
         enrollment[m[1]] \in Statuses
  PROVE  /\ enrollment[m[1]] = "active"
         /\ m[1][1] \in {"nurture", "form_abandon"} => ~leadRow[m[1][2]]
<1>1. m[1] \in Enrollments
  BY MessageShape
<1>2. m[1][1] \in {"nurture", "form_abandon"} => m[1][2] # NoSession
  BY <1>1, EnrollmentShape
<1>. QED BY <1>2 DEF Verdict, Statuses

LEMMA AttemptKeepsFresh ==
  ASSUME Shape, FreshKnow, NEW w \in Workers, SmsWorkerStep(w) PROVE FreshKnow'
<1>1. WorkersOK /\ RowsOK /\ fresh \subseteq Workers /\ now \in Nat /\ UNCHANGED <<now, leadRow>>
  BY DEF Shape, RestOK, SmsWorkerStep, SmsGuard, SmsTime, SmsSkip, SmsStop, SmsCancel,
     SmsSend, SmsMark, SmsLog, SmsFail, SmsWorkerDone, crmVars
<1>2. worker[w].pc # "idle" /\ worker[w].message \in Messages
      /\ worker[w].message[1] \in Enrollments
  <2>1. worker[w].pc # "idle"
    BY DEF SmsWorkerStep, SmsGuard, SmsTime, SmsSkip, SmsStop, SmsCancel, SmsSend,
       SmsMark, SmsLog, SmsFail, SmsWorkerDone
  <2>. QED BY <1>1, <2>1, MessageShape DEF WorkersOK, GoodWorker
<1> DEFINE m == worker[w].message
<1>3. ASSUME SmsGuard(w) PROVE FreshKnow'
  <2>1. UNCHANGED <<leadRow, enrollment, message, scheduled, fresh>>
    BY <1>3 DEF SmsGuard, crmVars, rowVars, historyVars
  <2>2. /\ worker'[w].message = m /\ worker'[w].at = worker[w].at
        /\ worker'[w].pc = IF Verdict(m) = "allowed" THEN "time" ELSE "skip"
        /\ \A v \in Workers \ {w} : worker'[v] = worker[v]
    BY <1>1, <1>3 DEF SmsGuard, WorkersOK, WorkerRecords
  <2>3. w \in fresh => Knows(w)'
    <3>1. Verdict(m) = "allowed" =>
            enrollment[m[1]] = "active"
            /\ (m[1][1] \in {"nurture", "form_abandon"} => ~leadRow[m[1][2]])
      BY <1>1, <1>2, AllowedMeans DEF RowsOK
    <3>2. w \in fresh => worker[w].at = scheduled[m] /\ message[m] # "none"
      BY <1>3 DEF SmsGuard, FreshKnow, Knows
    <3>. QED BY <2>1, <2>2, <3>1, <3>2 DEF Knows
  <2>. QED BY <1>1, <2>1, <2>2, <2>3, NothingDisturbed, FreshAttempt
<1>4. ASSUME SmsTime(w) PROVE FreshKnow'
  <2> DEFINE t == IF worker[w].at > now THEN worker[w].at ELSE now
  <2>1. UNCHANGED <<leadRow, enrollment, message, scheduled, fresh>>
    BY <1>4 DEF SmsTime, crmVars, rowVars
  <2>2. \/ Goto(w, "done")
        \/ Goto(w, "send") /\ ~(NextAllowed(t) > now)
    BY <1>4 DEF SmsTime
  <2>3. worker[w].at \in 0..MaxTime /\ now \in 0..MaxTime
    BY <1>1 DEF WorkersOK, WorkerRecords, Shape, RestOK
  <2>4. /\ NextAllowed(t) \in 0..MaxTime
        /\ NextAllowed(t) \notin Quiet
        /\ t <= NextAllowed(t)
    BY <2>3, NextAllowedIs
  <2>5. Goto(w, "send") => worker[w].at <= now /\ now \notin Quiet
    <3>1. SUFFICES ASSUME worker'[w].pc = "send" PROVE worker[w].at <= now /\ now \notin Quiet
      BY <1>1, <1>2, WorkerStage DEF WorkerStages
    <3>2. ~Goto(w, "done")
      BY <1>1, <3>1 DEF Goto, WorkersOK, WorkerRecords
    <3>3. NextAllowed(t) = now /\ t = now
      BY <2>2, <2>3, <2>4, <3>2
    <3>. QED BY <2>3, <2>4, <3>3
  <2>6. \E stage \in {"done", "send"} : Goto(w, stage)
    BY <2>2
  <2>7. /\ worker'[w].message = m /\ worker'[w].at = worker[w].at
        /\ worker'[w].pc \in {"done", "send"}
        /\ worker'[w].pc = "send" => Goto(w, "send")
        /\ \A v \in Workers \ {w} : worker'[v] = worker[v]
    BY <1>1, <1>2, <2>6, WorkerStage DEF WorkerStages
  <2>8. w \in fresh => Knows(w)'
    <3>1. w \in fresh => Knows(w)
      BY DEF FreshKnow
    <3>2. worker[w].pc = "time"
      BY <1>4 DEF SmsTime
    <3>. QED BY <1>1, <2>1, <2>5, <2>7, <3>1, <3>2 DEF Knows
  <2>. QED BY <1>1, <2>1, <2>7, <2>8, NothingDisturbed, FreshAttempt
<1>5. ASSUME SmsSkip(w) \/ SmsStop(w) \/ SmsCancel(w) \/ SmsSend(w) \/ SmsMark(w) \/ SmsLog(w) \/ SmsFail(w)
      PROVE  FreshKnow'
  <2>1. \E stage \in {"stop", "done", "cancel", "mark", "log", "thrown"} : Goto(w, stage)
    BY <1>5 DEF SmsSkip, SmsStop, SmsCancel, SmsSend, SmsMark, SmsLog, SmsFail
  <2>2. /\ worker'[w].pc \notin {"guard", "time", "send"}
        /\ \A v \in Workers \ {w} : worker'[v] = worker[v]
    BY <1>1, <1>2, <2>1, WorkerStage DEF WorkerStages
  <2>3. Knows(w)'
    BY <2>2 DEF Knows
  <2>4. fresh' \subseteq fresh
    BY <1>5 DEF SmsSkip, SmsStop, SmsCancel, SmsSend, SmsMark, SmsLog, SmsFail, historyVars,
       StopEnrollments, Overtake
  <2>5. ASSUME NEW v \in fresh', worker[v].message \in Messages
        PROVE  Undisturbed(worker[v].message)
    <3>1. CASE SmsStop(w)
      BY <1>1, <2>5, <3>1, StopDisturbsItsScope DEF SmsStop
    <3>2. CASE SmsCancel(w)
      BY <1>1, <2>5, <3>2, CancelDisturbsNobody DEF SmsCancel
    <3>3. CASE SmsSend(w) \/ SmsLog(w)
      BY <1>1, <3>3, NothingDisturbed DEF SmsSend, SmsLog, rowVars
    <3>4. CASE SmsSkip(w) \/ SmsMark(w) \/ SmsFail(w)
      <4>1. UNCHANGED <<enrollment, scheduled>>
        BY <3>4 DEF SmsSkip, SmsMark, SmsFail
      <4>2. \E row \in {"skipped", "sent", "failed"} : message' = [message EXCEPT ![m] = row]
        BY <3>4 DEF SmsSkip, SmsMark, SmsFail
      <4>3. message[worker[v].message] # "none" => message'[worker[v].message] # "none"
        BY <1>1, <2>5, <4>2 DEF RowsOK
      <4>. QED BY <1>1, <4>1, <4>3 DEF Undisturbed
    <3>. QED BY <1>5, <3>1, <3>2, <3>3, <3>4
  <2>. QED BY <1>1, <2>2, <2>3, <2>4, <2>5, FreshAttempt
<1>6. ASSUME SmsWorkerDone(w) PROVE FreshKnow'
  <2>1. UNCHANGED <<leadRow, enrollment, message, scheduled>> /\ fresh' = fresh \ {w}
    BY <1>6 DEF SmsWorkerDone, crmVars, rowVars
  <2>2. \A v \in Workers \ {w} : worker'[v] = worker[v]
    BY <1>1, <1>6 DEF SmsWorkerDone, WorkersOK
  <2>. QED BY <1>1, <2>1, <2>2, NothingDisturbed, FreshAttempt
<1>. QED BY <1>3, <1>4, <1>5, <1>6 DEF SmsWorkerStep

LEMMA FreshKnowStep == Shape /\ FreshKnow /\ [SmsNext]_smsVars => FreshKnow'
<1>1. SUFFICES ASSUME Shape, FreshKnow, [SmsNext]_smsVars PROVE FreshKnow'
  OBVIOUS
<1>2. CASE Tick
  BY <1>2 DEF Tick, FreshKnow
<1>3. ASSUME NEW s \in Keys, Overtake({k \in Messages : k[1][2] = s}),
             leadRow' = [leadRow EXCEPT ![s] = TRUE],
             UNCHANGED <<rowVars, worker, now>>
      PROVE  FreshKnow'
  <2>1. leadRow \in [Sessions -> BOOLEAN] /\ fresh' \subseteq fresh
    BY <1>1, <1>3 DEF Shape, CrmOK, Overtake
  <2>2. ASSUME NEW w \in fresh', worker[w].message \in Messages
        PROVE  Undisturbed(worker[w].message)
    <3> DEFINE m == worker[w].message
    <3>1. m[1][2] # s /\ m[1][2] \in Keys
      BY <1>3, <2>2, MessageShape, EnrollmentShape DEF Overtake
    <3>2. m[1][2] # NoSession => leadRow'[m[1][2]] = leadRow[m[1][2]]
      BY <1>3, <2>1, <3>1 DEF Keys
    <3>. QED BY <1>3, <3>2 DEF Undisturbed, rowVars
  <2>. QED BY <1>1, <1>3, <2>1, <2>2, FreshUndisturbed
<1>4. CASE UNCHANGED <<leadRow, rowVars, worker, now, fresh>>
  BY <1>1, <1>4, NothingDisturbed, FreshUndisturbed DEF rowVars
<1>5. ASSUME NEW h \in Hooks, NEW event \in Events, NEW s \in Keys, NEW t \in 0..MaxTime,
             FireHook(h, event, s, t)
      PROVE  FreshKnow'
  BY <1>3, <1>4, <1>5 DEF FireHook
<1>6. ASSUME NEW s \in Sessions, SystemLead(s) PROVE FreshKnow'
  BY <1>3, <1>6 DEF SystemLead, Keys
<1>7. ASSUME NEW h \in Hooks, HookAbort(h) PROVE FreshKnow'
  BY <1>4, <1>7 DEF HookAbort, crmVars, historyVars
<1>8. ASSUME NEW w \in Workers, NEW m \in Messages, SmsWorkerTake(w, m) PROVE FreshKnow'
  <2>1. /\ UNCHANGED <<leadRow, enrollment, message, scheduled, now>>
        /\ fresh' = fresh \cup {w}
    BY <1>8 DEF SmsWorkerTake, crmVars, rowVars
  <2>2. /\ worker'[w].message = m /\ worker'[w].at = scheduled[m]
        /\ worker'[w].pc \in {"done", "guard"}
        /\ worker'[w].pc = "guard" => message[m] # "none"
        /\ \A v \in Workers \ {w} : worker'[v] = worker[v]
    BY <1>1, <1>8 DEF SmsWorkerTake, WorkerIdle, Shape, WorkersOK
  <2>3. Knows(w)'
    BY <2>1, <2>2 DEF Knows
  <2>. QED BY <1>1, <2>1, <2>2, <2>3, NothingDisturbed, FreshAttempt
<1>9. ASSUME NEW w \in Workers, SmsError(w) \/ SmsWorkerDies(w) PROVE FreshKnow'
  <2>1. UNCHANGED <<leadRow, enrollment, message, scheduled, now>> /\ fresh' \subseteq fresh
    BY <1>9 DEF SmsError, SmsWorkerDies, crmVars, rowVars, historyVars
  <2>2. /\ worker'[w].pc \in {"fail", "thrown", "idle"}
        /\ \A v \in Workers \ {w} : worker'[v] = worker[v]
    BY <1>1, <1>9 DEF SmsError, SmsWorkerDies, Goto, Shape, WorkersOK, WorkerRecords, WorkerIdle
  <2>3. Knows(w)'
    BY <2>2 DEF Knows
  <2>. QED BY <1>1, <2>1, <2>2, <2>3, NothingDisturbed, FreshAttempt
<1>10. CASE CronList \/ CronAbort
  BY <1>4, <1>10 DEF CronList, CronAbort, ReadBatch, crmVars, historyVars
<1>11. ASSUME NEW m \in Messages, CronRequeue(m) \/ SmsJobStalls(m) PROVE FreshKnow'
  BY <1>4, <1>11 DEF CronRequeue, SmsJobStalls, crmVars, historyVars
<1>12. CASE UNCHANGED smsVars
  BY <1>4, <1>12 DEF smsVars, crmVars, historyVars
<1>. QED BY <1>1, <1>2, <1>5, <1>6, <1>7, <1>8, <1>9, <1>10, <1>11, <1>12,
            HookKeepsFresh, AttemptKeepsFresh DEF SmsNext

\* However workers, hooks, the CRM and the clock overlap, an SMS that is about
\* to go out is still wanted unless something has overtaken its attempt.
THEOREM SendsAreWanted == SmsSpec => []SendIsWanted
<1>1. SmsInit => FreshKnow
  BY DEF SmsInit, FreshKnow
<1>2. Shape /\ FreshKnow => SendIsWanted
  BY DEF FreshKnow, Knows, SendIsWanted, Wanted
<1>. QED BY <1>1, <1>2, ShapeHolds, FreshKnowStep, PTL DEF SmsSpec

-----------------------------------------------------------------------------
(* OncePerFault: every SMS is charged to the first chance of its message or  *)
(* to a fault.  An attempt that may still send, or that may still undo the   *)
(* mark of another one, holds a charge; a message that is not sent and whose *)
(* job no such attempt holds has one chance left.                            *)

Charged == {"guard", "time", "send", "skip", "fail"}
Charges(m) == {w \in Workers : worker[w].message = m /\ worker[w].pc \in Charged}

Underway(m) == owner[m] # NoWorker /\ worker[owner[m]].pc \in Charged \cup {"mark"}
Chance(m) == IF message[m] = "sent" \/ Underway(m) THEN 0 ELSE 1

Charge(w, m) == IF w \in Charges(m) THEN 1 ELSE 0

Budget(m) ==
  /\ IsFiniteSet(Charges(m))
  /\ delivered[m] + Cardinality(Charges(m)) + Chance(m) <= 1 + faults

Budgets == \A m \in Messages : Budget(m)

LEMMA ChanceIs == \A m : Chance(m) \in {0, 1}
BY DEF Chance

\* The step of one attempt: the others hold what they held.
LEMMA ChargesOfOne ==
  ASSUME NEW m, NEW w \in Workers, IsFiniteSet(Charges(m)),
         \A v \in Workers \ {w} : worker'[v] = worker[v]
  PROVE  /\ IsFiniteSet(Charges(m)') /\ Cardinality(Charges(m)) \in Nat
         /\ Cardinality(Charges(m)') =
              Cardinality(Charges(m)) - Charge(w, m) + Charge(w, m)'
<1> DEFINE R == Charges(m) \ {w}
<1>1. /\ IsFiniteSet(R) /\ Cardinality(Charges(m)) \in Nat
      /\ Cardinality(R) = Cardinality(Charges(m)) - Charge(w, m)
  BY FS_RemoveElement, FS_CardinalityType DEF Charge
<1>2. Charges(m)' \ {w} = R
  BY DEF Charges
<1>3. CASE w \in Charges(m)'
  <2>1. Charges(m)' = R \cup {w} /\ w \notin R
    BY <1>2, <1>3
  <2>2. IsFiniteSet(R \cup {w}) /\ Cardinality(R \cup {w}) = Cardinality(R) + 1
    BY <1>1, <2>1, FS_AddElement
  <2>3. Charge(w, m)' = 1
    BY <1>3 DEF Charge
  <2>. QED BY <1>1, <2>1, <2>2, <2>3
<1>4. CASE w \notin Charges(m)'
  <2>1. Charges(m)' = R
    BY <1>2, <1>4
  <2>2. Charge(w, m)' = 0
    BY <1>4 DEF Charge
  <2>. QED BY <1>1, <2>1, <2>2 DEF Charge
<1>. QED BY <1>3, <1>4

LEMMA BudgetOfOne ==
  ASSUME Shape, RestOK', NEW m \in Messages, Budget(m), NEW w \in Workers,
         \A v \in Workers \ {w} : worker'[v] = worker[v],
         delivered'[m] + Charge(w, m)' + Chance(m)'
           <= delivered[m] + Charge(w, m) + Chance(m) + (faults' - faults)
  PROVE  Budget(m)'
<1>1. delivered[m] \in Nat /\ delivered'[m] \in Nat /\ faults \in Nat /\ faults' \in Nat
  BY DEF Shape, RestOK
<1>2. Chance(m) \in {0, 1} /\ Chance(m)' \in {0, 1}
  BY DEF Chance
<1>3. Charge(w, m) \in {0, 1} /\ Charge(w, m)' \in {0, 1}
  BY DEF Charge
<1>4. IsFiniteSet(Charges(m)) /\ delivered[m] + Cardinality(Charges(m)) + Chance(m) <= 1 + faults
  BY DEF Budget
<1>5. /\ IsFiniteSet(Charges(m)') /\ Cardinality(Charges(m)) \in Nat
      /\ Cardinality(Charges(m)') = Cardinality(Charges(m)) - Charge(w, m) + Charge(w, m)'
  BY <1>4, ChargesOfOne
<1>6. delivered'[m] + Cardinality(Charges(m)') + Chance(m)' <= 1 + faults'
  BY <1>1, <1>2, <1>3, <1>4, <1>5
<1>. QED BY <1>5, <1>6 DEF Budget

\* A step of the others.
LEMMA BudgetOfOthers ==
  ASSUME Shape, RestOK', UNCHANGED <<worker, delivered>>, NEW m \in Messages, Budget(m),
         Chance(m)' <= Chance(m) + (faults' - faults)
  PROVE  Budget(m)'
<1>1. delivered[m] \in Nat /\ faults \in Nat /\ faults' \in Nat
  BY DEF Shape, RestOK
<1>2. Chance(m) \in {0, 1} /\ Chance(m)' \in {0, 1}
  BY DEF Chance
<1>3. Charges(m)' = Charges(m)
  BY DEF Charges
<1>4. Cardinality(Charges(m)) \in Nat
  BY FS_CardinalityType DEF Budget
<1>. QED BY <1>1, <1>2, <1>3, <1>4 DEF Budget

SameSent == \A m \in Messages : message'[m] = "sent" <=> message[m] = "sent"

LEMMA ChanceOfOthers ==
  ASSUME UNCHANGED <<worker, owner>>, SameSent, NEW m \in Messages
  PROVE  Chance(m)' = Chance(m)
BY DEF Chance, Underway, SameSent

\* The step of an attempt leaves the other messages alone.
LEMMA ChanceElsewhere ==
  ASSUME Shape, NEW w \in Workers, NEW m \in Messages, owner[m] # w, owner'[m] = owner[m],
         \A v \in Workers \ {w} : worker'[v] = worker[v],
         message'[m] = "sent" <=> message[m] = "sent"
  PROVE  Chance(m)' = Chance(m)
<1>1. owner[m] \in (Workers \ {w}) \cup {NoWorker}
  BY DEF Shape, JobsOK, JobTypes
<1>2. Underway(m)' <=> Underway(m)
  BY <1>1 DEF Underway
<1>. QED BY <1>2 DEF Chance

LEMMA ChargeIs ==
  ASSUME Shape, NEW w \in Workers, NEW m
  PROVE  Charge(w, m) = IF worker[w].message = m /\ worker[w].pc \in Charged THEN 1 ELSE 0
BY DEF Charge, Charges

LEMMA HookKeepsSent ==
  ASSUME Shape, NEW h \in Hooks, HookStep(h)
  PROVE  SameSent /\ UNCHANGED <<worker, owner, delivered, faults>>
<1>1. message \in [Messages -> Rows]
  BY DEF Shape, RowsOK
<1>2. UNCHANGED <<worker, delivered, faults>>
  BY DEF HookStep, HookStop, HookCancel, EnrollFind, EnrollUpsert, EnrollCheck,
     EnrollCreate, EnrollEnqueue, FollowUpList, FollowUpRow, FollowUpRemove,
     FollowUpAdd, historyVars
<1>3. UNCHANGED owner
  BY DEF HookStep, HookStop, HookCancel, EnrollFind, EnrollUpsert, EnrollCheck,
     EnrollCreate, EnrollEnqueue, FollowUpList, FollowUpRow, FollowUpRemove,
     FollowUpAdd, AddJob, jobVars
<1>4. ASSUME HookCancel(h) PROVE SameSent
  BY <1>1, <1>4 DEF HookCancel, CancelPending, SameSent
<1>5. ASSUME EnrollCreate(h) PROVE SameSent
  BY <1>1, <1>5 DEF EnrollCreate, SameSent
<1>6. ASSUME NEW m \in Messages, FollowUpRow(h, m) PROVE SameSent
  BY <1>1, <1>6 DEF FollowUpRow, SameSent
<1>7. ASSUME \/ HookStop(h) \/ EnrollFind(h) \/ EnrollUpsert(h) \/ EnrollCheck(h)
             \/ EnrollEnqueue(h) \/ FollowUpList(h) \/ FollowUpRemove(h) \/ FollowUpAdd(h)
      PROVE  SameSent
  BY <1>7 DEF HookStop, EnrollFind, EnrollUpsert, EnrollCheck, EnrollEnqueue, FollowUpList,
     FollowUpRemove, FollowUpAdd, rowVars, SameSent
<1>8. SameSent
  BY <1>4, <1>5, <1>6, <1>7 DEF HookStep
<1>. QED BY <1>2, <1>3, <1>8

LEMMA BudgetStep ==
  Shape /\ Shape' /\ Budgets /\ [SmsNext]_smsVars => Budgets'
<1>1. SUFFICES ASSUME Shape, Shape', Budgets, [SmsNext]_smsVars, NEW m \in Messages
               PROVE  Budget(m)'
  BY DEF Budgets
<1>2. /\ Budget(m) /\ RestOK' /\ WorkersOK /\ WorkersOK' /\ faults \in Nat
      /\ delivered \in [Messages -> Nat] /\ message \in [Messages -> Rows]
      /\ owner \in [Messages -> Workers \cup {NoWorker}]
  BY <1>1 DEF Budgets, Shape, RestOK, RowsOK, JobsOK, JobTypes
<1>3. CASE SameSent /\ UNCHANGED <<worker, owner, delivered, faults>>
  <2>1. Chance(m)' = Chance(m)
    BY <1>3, ChanceOfOthers
  <2>2. Chance(m) \in {0, 1}
    BY ChanceIs
  <2>. QED BY <1>1, <1>2, <1>3, <2>1, <2>2, BudgetOfOthers
<1>4. ASSUME NEW w \in Workers, NEW k \in Messages, SmsWorkerTake(w, k) PROVE Budget(m)'
  <2>1. /\ worker[w].pc = "idle" /\ owner[k] = NoWorker /\ owner[m] # w
        /\ owner' = [owner EXCEPT ![k] = w]
        /\ UNCHANGED <<message, delivered, faults>>
    BY <1>1, <1>4 DEF SmsWorkerTake, Shape, JobsOK, Held, rowVars
  <2>2. /\ worker'[w].message = k
        /\ worker'[w].pc = IF message[k] \in {"none", "sent", "canceled"} THEN "done" ELSE "guard"
        /\ \A v \in Workers \ {w} : worker'[v] = worker[v]
    BY <1>2, <1>4 DEF SmsWorkerTake, WorkersOK, WorkerIdle
  <2>3. Charge(w, m) = 0
    BY <1>1, <2>1, ChargeIs DEF Charged
  <2>4. CASE m # k
    <3>1. Charge(w, m)' = 0
      BY <2>2, <2>4 DEF Charge, Charges
    <3>2. Chance(m)' = Chance(m)
      BY <1>1, <1>2, <2>1, <2>2, <2>4, ChanceElsewhere
    <3>3. Chance(m) \in {0, 1}
      BY ChanceIs
    <3>. QED BY <1>1, <1>2, <2>1, <2>2, <2>3, <3>1, <3>2, <3>3, BudgetOfOne
  <2>5. CASE m = k
    <3>1. Chance(m) = IF message[m] = "sent" THEN 0 ELSE 1
      BY <2>1, <2>5 DEF Chance, Underway
    <3>2. owner'[m] = w /\ w # NoWorker
      BY <1>2, <2>1, <2>5
    <3>3. CASE worker'[w].pc = "guard"
      <4>1. Charge(w, m)' = 1 \/ Charge(w, m)' = 0
        BY DEF Charge
      <4>2. Chance(m)' = 0
        BY <3>2, <3>3 DEF Chance, Underway, Charged
      <4>3. Chance(m) = 1
        BY <2>2, <2>5, <3>1, <3>3
      <4>. QED BY <1>1, <1>2, <2>1, <2>2, <2>3, <4>1, <4>2, <4>3, BudgetOfOne
    <3>4. CASE worker'[w].pc = "done"
      <4>1. Charge(w, m)' = 0
        BY <3>4 DEF Charge, Charges, Charged
      <4>2. Chance(m)' = Chance(m)
        BY <2>1, <3>1, <3>2, <3>4 DEF Chance, Underway, Charged
      <4>3. Chance(m) \in {0, 1}
        BY ChanceIs
      <4>. QED BY <1>1, <1>2, <2>1, <2>2, <2>3, <4>1, <4>2, <4>3, BudgetOfOne
    <3>. QED BY <2>2, <3>3, <3>4
  <2>. QED BY <2>4, <2>5
<1>5. ASSUME NEW w \in Workers,
             SmsWorkerStep(w) \/ SmsError(w) \/ SmsWorkerDies(w),
             worker[w].pc # "idle", worker[w].message \in Messages,
             \A v \in Workers \ {w} : worker'[v] = worker[v],
             worker'[w].pc \in Charged => worker'[w].message = worker[w].message,
             faults' \in Nat, faults' >= faults
      PROVE  Budget(m)'
  <2>1. CASE m # worker[w].message
    <3>1. /\ delivered'[m] = delivered[m]
          /\ message'[m] = "sent" <=> message[m] = "sent"
      <4>1. CASE SmsSend(w)
        BY <1>2, <2>1, <4>1 DEF SmsSend, rowVars
      <4>2. CASE SmsSkip(w) \/ SmsMark(w) \/ SmsFail(w)
        BY <1>2, <2>1, <4>2 DEF SmsSkip, SmsMark, SmsFail, historyVars
      <4>3. CASE SmsCancel(w)
        BY <1>2, <4>3 DEF SmsCancel, CancelPending, historyVars
      <4>4. CASE SmsGuard(w) \/ SmsTime(w) \/ SmsStop(w) \/ SmsWorkerDone(w)
                 \/ SmsLog(w) \/ SmsError(w) \/ SmsWorkerDies(w)
        BY <4>4 DEF SmsGuard, SmsTime, SmsStop, SmsWorkerDone, SmsLog, SmsError, SmsWorkerDies,
           rowVars, historyVars
      <4>. QED BY <1>5, <4>1, <4>2, <4>3, <4>4 DEF SmsWorkerStep
    <3>2. owner[m] # w
      BY <1>1, <1>2, <2>1 DEF Shape, JobsOK, Held
    <3>3. owner'[m] = owner[m]
      BY <1>2, <1>5, <2>1 DEF SmsWorkerStep, SmsGuard, SmsTime, SmsSkip, SmsStop, SmsCancel,
         SmsSend, SmsMark, SmsLog, SmsFail, SmsWorkerDone, SmsError, SmsWorkerDies, FoundStalled,
         AddJob, jobVars
    <3>4. Chance(m)' = Chance(m)
      BY <1>1, <1>5, <3>1, <3>2, <3>3, ChanceElsewhere
    <3>5. Charge(w, m) = 0 /\ Charge(w, m)' = 0
      BY <1>5, <2>1 DEF Charge, Charges
    <3>6. Chance(m) \in {0, 1}
      BY ChanceIs
    <3>. QED BY <1>1, <1>2, <1>5, <3>1, <3>4, <3>5, <3>6, BudgetOfOne
  <2>2. CASE m = worker[w].message
    <3>1. Charge(w, m) = IF worker[w].pc \in Charged THEN 1 ELSE 0
      BY <1>1, <2>2, ChargeIs
    <3>2. Charge(w, m)' = IF worker'[w].pc \in Charged THEN 1 ELSE 0
      BY <1>5, <2>2 DEF Charge, Charges
    <3>3. Chance(m) \in {0, 1} /\ Chance(m)' \in {0, 1} /\ delivered[m] \in Nat
      BY <1>2, ChanceIs DEF Chance
    <3>4. owner[m] \in (Workers \ {w}) \cup {w, NoWorker}
      BY <1>2
    <3>5. ASSUME NEW stage \in WorkerStages, Goto(w, stage) PROVE worker'[w].pc = stage
      BY <1>2, <3>5 DEF Goto, WorkersOK, WorkerRecords
    \* While the row and the lock stay, only the stage matters.
    <3>6. ASSUME message'[m] = message[m], owner'[m] = owner[m],
                 worker[w].pc \in Charged \cup {"mark"} <=> worker'[w].pc \in Charged \cup {"mark"}
          PROVE  Chance(m)' = Chance(m)
      BY <1>5, <3>4, <3>6 DEF Chance, Underway
    <3>7. CASE SmsGuard(w)
      <4>1. worker[w].pc = "guard" /\ worker'[w].pc \in {"time", "skip"}
        BY <1>2, <3>7 DEF SmsGuard, WorkersOK, WorkerRecords
      <4>2. UNCHANGED <<message, owner, delivered, faults>>
        BY <3>7 DEF SmsGuard, rowVars, jobVars, historyVars
      <4>3. Chance(m)' = Chance(m)
        BY <3>6, <4>1, <4>2 DEF Charged
      <4>. QED BY <1>1, <1>2, <1>5, <3>1, <3>2, <3>3, <4>1, <4>2, <4>3, BudgetOfOne DEF Charged
    <3>8. CASE SmsSkip(w) \/ SmsFail(w)
      <4>1. worker[w].pc \in {"skip", "fail"} /\ worker'[w].pc \in {"stop", "done", "thrown"}
        BY <3>5, <3>8 DEF SmsSkip, SmsFail, WorkerStages
      <4>2. UNCHANGED <<delivered, faults>>
        BY <3>8 DEF SmsSkip, SmsFail, historyVars
      <4>. QED BY <1>1, <1>2, <1>5, <3>1, <3>2, <3>3, <4>1, <4>2, BudgetOfOne DEF Charged
    <3>9. CASE SmsStop(w) \/ SmsCancel(w)
      <4>1. worker[w].pc \in {"stop", "cancel"} /\ worker'[w].pc \in {"cancel", "done"}
        BY <3>5, <3>9 DEF SmsStop, SmsCancel, WorkerStages
      <4>2. UNCHANGED <<delivered, faults, owner>>
        BY <3>9 DEF SmsStop, SmsCancel, jobVars, historyVars
      <4>3. message'[m] = "sent" <=> message[m] = "sent"
        BY <1>2, <3>9 DEF SmsStop, SmsCancel, CancelPending
      <4>4. Chance(m)' = Chance(m)
        BY <1>5, <3>4, <4>1, <4>2, <4>3 DEF Chance, Underway, Charged
      <4>. QED BY <1>1, <1>2, <1>5, <3>1, <3>2, <3>3, <4>1, <4>2, <4>4, BudgetOfOne DEF Charged
    <3>10. CASE SmsTime(w)
      <4>1. worker[w].pc = "time" /\ worker'[w].pc \in {"done", "send"}
        BY <3>5, <3>10 DEF SmsTime, WorkerStages
      <4>2. UNCHANGED <<delivered, faults, message, owner>>
        BY <3>10 DEF SmsTime, AddJob, rowVars, jobVars
      <4>3. worker'[w].pc = "send" => Chance(m)' = Chance(m)
        BY <3>6, <4>1, <4>2 DEF Charged
      <4>. QED BY <1>1, <1>2, <1>5, <3>1, <3>2, <3>3, <4>1, <4>2, <4>3, BudgetOfOne DEF Charged
    <3>11. CASE SmsSend(w)
      <4>1. worker[w].pc = "send" /\ worker'[w].pc = "mark"
        BY <3>5, <3>11 DEF SmsSend, WorkerStages
      <4>2. UNCHANGED <<faults, message, owner>> /\ delivered'[m] = delivered[m] + 1
        BY <1>2, <2>2, <3>11 DEF SmsSend, rowVars, jobVars
      <4>3. Chance(m)' = Chance(m)
        BY <3>6, <4>1, <4>2 DEF Charged
      <4>. QED BY <1>1, <1>2, <1>5, <3>1, <3>2, <3>3, <4>1, <4>2, <4>3, BudgetOfOne DEF Charged
    <3>12. CASE SmsMark(w)
      <4>1. worker[w].pc = "mark" /\ worker'[w].pc = "log"
        BY <3>5, <3>12 DEF SmsMark, WorkerStages
      <4>2. UNCHANGED <<faults, delivered>> /\ message'[m] = "sent"
        BY <1>2, <2>2, <3>12 DEF SmsMark, historyVars
      <4>3. Chance(m)' = 0
        BY <4>2 DEF Chance
      <4>. QED BY <1>1, <1>2, <1>5, <3>1, <3>2, <3>3, <4>1, <4>2, <4>3, BudgetOfOne DEF Charged
    <3>13. CASE SmsWorkerDone(w)
      <4>1. worker[w].pc \in {"done", "thrown"} /\ worker'[w].pc = "idle"
        BY <1>2, <3>13 DEF SmsWorkerDone, WorkersOK, WorkerIdle
      <4>2. UNCHANGED <<faults, delivered, message>>
        BY <3>13 DEF SmsWorkerDone, rowVars
      <4>3. owner'[m] = IF owner[m] = w THEN NoWorker ELSE owner[m]
        BY <1>2, <2>2, <3>13 DEF SmsWorkerDone
      <4>4. Chance(m)' = Chance(m)
        BY <1>5, <3>4, <4>1, <4>2, <4>3 DEF Chance, Underway, Charged
      <4>. QED BY <1>1, <1>2, <1>5, <3>1, <3>2, <3>3, <4>1, <4>2, <4>4, BudgetOfOne DEF Charged
    <3>14. CASE SmsError(w)
      <4>1. /\ worker'[w].pc \in {"fail", "thrown"}
            /\ worker'[w].pc = "fail" => worker[w].pc \in {"send", "mark", "log"}
        BY <3>5, <3>14 DEF SmsError, WorkerStages
      <4>2. UNCHANGED <<message, owner, delivered>> /\ faults' = faults + 1
        BY <3>14 DEF SmsError, Fault, rowVars, jobVars, historyVars
      <4>3. CASE worker'[w].pc = "thrown"
        BY <1>1, <1>2, <1>5, <3>1, <3>2, <3>3, <4>2, <4>3, BudgetOfOne DEF Charged
      <4>4. CASE worker'[w].pc = "fail"
        \* The attempt can only have taken the chance of its message.
        <5>1. Chance(m)' = Chance(m) \/ Chance(m)' = 0
          BY <1>5, <3>4, <4>2, <4>4 DEF Chance, Underway, Charged
        <5>. QED BY <1>1, <1>2, <1>5, <3>1, <3>2, <3>3, <4>2, <4>4, <5>1, BudgetOfOne DEF Charged
      <4>. QED BY <4>1, <4>3, <4>4
    <3>16. CASE SmsLog(w)
      <4>1. worker[w].pc = "log" /\ worker'[w].pc = "done"
        BY <3>5, <3>16 DEF SmsLog, WorkerStages
      <4>2. UNCHANGED <<message, owner, delivered, faults>>
        BY <3>16 DEF SmsLog, rowVars, jobVars, historyVars
      <4>3. Chance(m)' = Chance(m)
        BY <3>6, <4>1, <4>2 DEF Charged
      <4>. QED BY <1>1, <1>2, <1>5, <3>1, <3>2, <3>3, <4>1, <4>2, <4>3, BudgetOfOne DEF Charged
    <3>15. CASE SmsWorkerDies(w)
      <4>1. worker'[w].pc = "idle"
        BY <1>2, <3>15 DEF SmsWorkerDies, WorkersOK, WorkerIdle
      <4>2. UNCHANGED delivered /\ faults' = faults + 1
        BY <3>15 DEF SmsWorkerDies, Fault
      <4>. QED BY <1>1, <1>2, <1>5, <3>1, <3>2, <3>3, <4>1, <4>2, BudgetOfOne DEF Charged
    <3>. QED BY <1>5, <3>7, <3>8, <3>9, <3>10, <3>11, <3>12, <3>13, <3>14, <3>15, <3>16
             DEF SmsWorkerStep
  <2>. QED BY <2>1, <2>2
<1>6. ASSUME NEW w \in Workers, SmsWorkerStep(w) \/ SmsError(w) \/ SmsWorkerDies(w)
      PROVE  Budget(m)'
  <2>1. worker[w].pc # "idle"
    BY <1>6 DEF SmsWorkerStep, SmsGuard, SmsTime, SmsSkip, SmsStop, SmsCancel, SmsSend,
       SmsMark, SmsLog, SmsFail, SmsWorkerDone, SmsError, SmsWorkerDies
  <2>2. worker[w].message \in Messages
    BY <1>2, <2>1 DEF WorkersOK, GoodWorker
  <2>3. \A v \in Workers \ {w} : worker'[v] = worker[v]
    BY <1>2, <1>6 DEF SmsWorkerStep, SmsGuard, SmsTime, SmsSkip, SmsStop, SmsCancel, SmsSend,
       SmsMark, SmsLog, SmsFail, SmsWorkerDone, SmsError, SmsWorkerDies, Goto, WorkersOK
  <2>4. worker'[w].pc \in Charged => worker'[w].message = worker[w].message
    <3>1. CASE SmsGuard(w)
      BY <1>2, <3>1 DEF SmsGuard, WorkersOK, WorkerRecords
    <3>2. CASE SmsWorkerDone(w) \/ SmsWorkerDies(w)
      BY <1>2, <3>2 DEF SmsWorkerDone, SmsWorkerDies, WorkersOK, WorkerIdle, Charged
    <3>3. CASE \E stage \in WorkerStages : Goto(w, stage)
      BY <1>2, <3>3 DEF Goto, WorkersOK, WorkerRecords
    <3>4. CASE \/ SmsSkip(w) \/ SmsStop(w) \/ SmsCancel(w) \/ SmsTime(w) \/ SmsSend(w)
               \/ SmsMark(w) \/ SmsLog(w) \/ SmsFail(w) \/ SmsError(w)
      BY <3>3, <3>4 DEF SmsSkip, SmsStop, SmsCancel, SmsTime, SmsSend, SmsMark, SmsLog, SmsFail,
         SmsError, WorkerStages
    <3>. QED BY <1>6, <3>1, <3>2, <3>4 DEF SmsWorkerStep
  <2>5. faults' \in Nat /\ faults' >= faults
    BY <1>2, <1>6 DEF SmsWorkerStep, SmsGuard, SmsTime, SmsSkip, SmsStop, SmsCancel, SmsSend,
       SmsMark, SmsLog, SmsFail, SmsWorkerDone, SmsError, SmsWorkerDies, Fault
  <2>. QED BY <1>5, <1>6, <2>1, <2>2, <2>3, <2>4, <2>5
<1>7. ASSUME NEW k \in Messages, SmsJobStalls(k) PROVE Budget(m)'
  <2>1. UNCHANGED <<worker, delivered>> /\ faults' = faults + 1
    BY <1>7 DEF SmsJobStalls, Fault, historyVars
  <2>2. Chance(m) \in {0, 1} /\ Chance(m)' \in {0, 1}
    BY ChanceIs DEF Chance
  <2>. QED BY <1>1, <1>2, <2>1, <2>2, BudgetOfOthers
<1>8. ASSUME NEW h \in Hooks, HookAbort(h) PROVE Budget(m)'
  <2>1. UNCHANGED <<worker, delivered>> /\ faults' = faults + 1
    BY <1>8 DEF HookAbort, Fault, historyVars
  <2>2. Chance(m) \in {0, 1} /\ Chance(m)' \in {0, 1}
    BY ChanceIs DEF Chance
  <2>. QED BY <1>1, <1>2, <2>1, <2>2, BudgetOfOthers
<1>9. ASSUME NEW h \in Hooks, HookStep(h) PROVE Budget(m)'
  BY <1>1, <1>3, <1>9, HookKeepsSent
<1>10. ASSUME NEW h \in Hooks, NEW event \in Events, NEW s \in Keys, NEW t \in 0..MaxTime,
              FireHook(h, event, s, t)
       PROVE  Budget(m)'
  BY <1>3, <1>10 DEF FireHook, rowVars, jobVars, SameSent
<1>11. CASE Tick \/ CronList \/ \E s \in Sessions : SystemLead(s)
  BY <1>3, <1>11 DEF Tick, CronList, ReadBatch, SystemLead, rowVars, jobVars, historyVars, SameSent
<1>14. CASE CronAbort
  <2>1. UNCHANGED <<worker, delivered>> /\ faults' = faults + 1
    BY <1>14 DEF CronAbort, Fault, historyVars
  <2>2. Chance(m) \in {0, 1} /\ Chance(m)' \in {0, 1}
    BY ChanceIs DEF Chance
  <2>. QED BY <1>1, <1>2, <2>1, <2>2, BudgetOfOthers
<1>12. ASSUME NEW k \in Messages, CronRequeue(k) PROVE Budget(m)'
  BY <1>3, <1>12 DEF CronRequeue, AddJob, rowVars, jobVars, historyVars, SameSent
<1>13. CASE UNCHANGED smsVars
  BY <1>3, <1>13 DEF smsVars, rowVars, jobVars, historyVars, SameSent
<1>. QED BY <1>1, <1>4, <1>6, <1>7, <1>8, <1>9, <1>10, <1>11, <1>12, <1>13, <1>14 DEF SmsNext

LEMMA InitBudgets == SmsInit => Budgets
<1>1. SUFFICES ASSUME SmsInit, NEW m \in Messages PROVE Budget(m)
  BY DEF Budgets
<1>2. Charges(m) = {}
  BY <1>1 DEF SmsInit, Charges, WorkerIdle, Charged
<1>3. delivered[m] = 0 /\ faults = 0 /\ Chance(m) \in {0, 1}
  BY <1>1, ChanceIs DEF SmsInit
<1>. QED BY <1>2, <1>3, FS_EmptySet DEF Budget

LEMMA BudgetsHold == SmsSpec => []Budgets
BY InitBudgets, BudgetStep, ShapeHolds, PTL DEF SmsSpec

\* Reschedulings, re-queued jobs, retries and overlapping workers never send a
\* message twice; a stalled job, a dead worker or an error may, once each.
THEOREM SentOncePerFault == SmsSpec => []OncePerFault
<1>1. Shape /\ Budgets => OncePerFault
  <2>1. SUFFICES ASSUME Shape, NEW m \in Messages, Budget(m) PROVE delivered[m] <= 1 + faults
    BY DEF Budgets, OncePerFault
  <2>2. delivered[m] \in Nat /\ faults \in Nat /\ Chance(m) \in {0, 1}
    BY <2>1, ChanceIs DEF Shape, RestOK
  <2>3. Cardinality(Charges(m)) \in Nat
    BY <2>1, FS_CardinalityType DEF Budget
  <2>. QED BY <2>1, <2>2, <2>3 DEF Budget
<1>. QED BY <1>1, ShapeHolds, BudgetsHold, PTL

-----------------------------------------------------------------------------
(* SmsTypeOK: no enrollment counts more SMS than its messages have had       *)
(* delivered, and attempts that have yet to count theirs are among them.     *)

\* The SMS of an enrollment, numbered per message.
Sends(e) ==
  {p \in Messages \X (1..(1 + MaxFaults)) : p[1][1] = e /\ p[2] <= delivered[p[1]]}

Marking(e) == {w \in Workers : worker[w].pc = "mark" /\ worker[w].message[1] = e}

Counts(e) ==
  /\ sentCount[e] \in Nat
  /\ IsFiniteSet(Marking(e))
  /\ sentCount[e] + Cardinality(Marking(e)) <= Cardinality(Sends(e))

Counted == sentCount \in [Enrollments -> Nat] /\ \A e \in Enrollments : Counts(e)

LEMMA SendsFinite ==
  ASSUME NEW e
  PROVE  /\ IsFiniteSet(Sends(e)) /\ Cardinality(Sends(e)) \in Nat
         /\ Cardinality(Sends(e)) <= Cardinality(Messages) * (1 + MaxFaults)
<1> DEFINE P == Messages \X (1..(1 + MaxFaults))
<1>1. IsFiniteSet(1..(1 + MaxFaults)) /\ Cardinality(1..(1 + MaxFaults)) = 1 + MaxFaults
  BY FS_Interval
<1>2. IsFiniteSet(P) /\ Cardinality(P) = Cardinality(Messages) * (1 + MaxFaults)
  BY <1>1, MessagesFinite, FS_Product
<1>3. Sends(e) \in SUBSET P
  BY DEF Sends
<1>. QED BY <1>2, <1>3, FS_Subset, FS_CardinalityType

\* Attempts leave the mark stage, and nothing else is counted.
LEMMA CountsElsewhere ==
  ASSUME NEW e, Counts(e), sentCount'[e] = sentCount[e],
         Marking(e)' \subseteq Marking(e), UNCHANGED delivered
  PROVE  Counts(e)'
<1>1. /\ IsFiniteSet(Marking(e)') /\ Cardinality(Marking(e)') <= Cardinality(Marking(e))
      /\ Cardinality(Marking(e)) \in Nat /\ Cardinality(Marking(e)') \in Nat
  BY FS_Subset, FS_CardinalityType DEF Counts
<1>2. Sends(e)' = Sends(e)
  BY DEF Sends
<1>3. Cardinality(Sends(e)) \in Nat
  BY SendsFinite
<1>. QED BY <1>1, <1>2, <1>3 DEF Counts

LEMMA CountedStep ==
  Shape /\ Shape' /\ Budgets /\ Counted /\ [SmsNext]_smsVars => Counted'
<1>1. SUFFICES ASSUME Shape, Shape', Budgets, Counted, [SmsNext]_smsVars PROVE Counted'
  OBVIOUS
<1>2. /\ WorkersOK /\ RestOK /\ sentCount \in [Enrollments -> Nat]
      /\ delivered \in [Messages -> Nat] /\ faults \in 0..MaxFaults
  BY <1>1 DEF Shape, RestOK, Counted
<1>3. ASSUME UNCHANGED <<sentCount, delivered>>,
             \A w \in Workers : worker'[w].pc = "mark" => worker'[w] = worker[w]
      PROVE  Counted'
  <2>1. \A e \in Enrollments : Marking(e)' \subseteq Marking(e)
    BY <1>3 DEF Marking
  <2>. QED BY <1>1, <1>3, <2>1, CountsElsewhere DEF Counted
<1>4. ASSUME NEW w \in Workers, SmsSend(w) PROVE Counted'
  <2> DEFINE m == worker[w].message
             n == delivered[m] + 1
  <2>1. m \in Messages /\ m[1] \in Enrollments /\ worker[w].pc = "send"
    BY <1>2, <1>4, MessageShape DEF SmsSend, WorkersOK, GoodWorker
  <2>2. /\ delivered' = [delivered EXCEPT ![m] = n] /\ UNCHANGED <<sentCount, faults>>
        /\ Goto(w, "mark")
    BY <1>4 DEF SmsSend, rowVars
  <2>3. /\ worker'[w].message = m /\ worker'[w].pc = "mark"
        /\ \A v \in Workers \ {w} : worker'[v] = worker[v]
    BY <1>2, <2>1, <2>2, WorkerStage DEF WorkerStages
  \* The attempt holds a charge, so the number is within the bound.
  <2>4. n \in 1..(1 + MaxFaults)
    <3>1. Budget(m) /\ w \in Charges(m)
      BY <1>1, <2>1 DEF Budgets, Charges, Charged
    <3>2. Cardinality(Charges(m)) \in Nat /\ Cardinality(Charges(m)) # 0
      BY <3>1, FS_EmptySet, FS_CardinalityType DEF Budget
    <3>3. delivered[m] \in Nat /\ Chance(m) \in {0, 1}
      BY <1>2, <2>1, ChanceIs
    <3>. QED BY <1>2, <3>1, <3>2, <3>3 DEF Budget
  <2>5. ASSUME NEW e \in Enrollments PROVE Counts(e)'
    <3>1. Counts(e) /\ Cardinality(Sends(e)) \in Nat /\ IsFiniteSet(Sends(e))
      BY <1>1, <2>5, SendsFinite DEF Counted
    <3>2. CASE e # m[1]
      <4>1. Marking(e)' = Marking(e)
        BY <2>3, <2>1, <3>2 DEF Marking
      <4>2. Sends(e)' = Sends(e)
        BY <1>2, <2>1, <2>2, <3>2 DEF Sends
      <4>. QED BY <2>2, <3>1, <4>1, <4>2 DEF Counts
    <3>3. CASE e = m[1]
      <4>1. Marking(e)' = Marking(e) \cup {w} /\ w \notin Marking(e)
        BY <2>1, <2>3, <3>3 DEF Marking
      <4>2. Sends(e)' = Sends(e) \cup {<<m, n>>} /\ <<m, n>> \notin Sends(e)
        <5>1. delivered[m] \in Nat
          BY <1>2, <2>1
        <5>2. \A k \in Messages : delivered'[k] = IF k = m THEN n ELSE delivered[k]
          BY <1>2, <2>1, <2>2
        <5>3. \A i \in 1..(1 + MaxFaults) : i <= n <=> (i <= delivered[m] \/ i = n)
          BY <5>1
        <5>. QED BY <2>1, <2>4, <3>3, <5>1, <5>2, <5>3 DEF Sends
      <4>3. IsFiniteSet(Marking(e)) /\ Cardinality(Marking(e)) \in Nat
        BY <3>1, FS_CardinalityType DEF Counts
      <4>4. IsFiniteSet(Marking(e)') /\ Cardinality(Marking(e)') = Cardinality(Marking(e)) + 1
        BY <4>1, <4>3, FS_AddElement
      <4>5. Cardinality(Sends(e)') = Cardinality(Sends(e)) + 1
        BY <3>1, <4>2, FS_AddElement
      <4>. QED BY <2>2, <3>1, <4>3, <4>4, <4>5 DEF Counts
    <3>. QED BY <3>2, <3>3
  <2>. QED BY <1>2, <2>2, <2>5 DEF Counted
<1>5. ASSUME NEW w \in Workers, SmsMark(w) PROVE Counted'
  <2> DEFINE m == worker[w].message
  <2>1. m \in Messages /\ m[1] \in Enrollments /\ worker[w].pc = "mark"
    BY <1>2, <1>5, MessageShape DEF SmsMark, WorkersOK, GoodWorker
  <2>2. /\ sentCount' = [sentCount EXCEPT ![m[1]] = @ + 1] /\ UNCHANGED delivered
        /\ Goto(w, "log")
    BY <1>5 DEF SmsMark, historyVars
  <2>3. /\ worker'[w].pc = "log"
        /\ \A v \in Workers \ {w} : worker'[v] = worker[v]
    BY <1>2, <2>1, <2>2, WorkerStage DEF WorkerStages
  <2>4. ASSUME NEW e \in Enrollments PROVE Counts(e)'
    <3>1. Counts(e) /\ Marking(e)' = Marking(e) \ {w}
      BY <1>1, <2>3, <2>4 DEF Counted, Marking
    <3>2. CASE e # m[1]
      BY <1>2, <2>2, <3>1, <3>2, CountsElsewhere
    <3>3. CASE e = m[1]
      <4>1. w \in Marking(e) /\ IsFiniteSet(Marking(e)) /\ Cardinality(Marking(e)) \in Nat
        BY <2>1, <3>1, <3>3, FS_CardinalityType DEF Marking, Counts
      <4>2. /\ IsFiniteSet(Marking(e)')
            /\ Cardinality(Marking(e)') = Cardinality(Marking(e)) - 1
        BY <3>1, <4>1, FS_RemoveElement
      <4>3. Sends(e)' = Sends(e)
        BY <2>2 DEF Sends
      <4>4. sentCount'[e] = sentCount[e] + 1 /\ sentCount[e] \in Nat
        BY <1>2, <2>2, <3>3
      <4>5. Cardinality(Sends(e)) \in Nat
        BY SendsFinite
      <4>. QED BY <3>1, <4>1, <4>2, <4>3, <4>4, <4>5 DEF Counts
    <3>. QED BY <3>2, <3>3
  <2>. QED BY <1>2, <2>1, <2>2, <2>4 DEF Counted
<1>6. ASSUME NEW w \in Workers,
             SmsSkip(w) \/ SmsStop(w) \/ SmsCancel(w) \/ SmsTime(w) \/ SmsFail(w)
             \/ SmsGuard(w) \/ SmsLog(w) \/ SmsWorkerDone(w) \/ SmsError(w)
             \/ SmsWorkerDies(w)
      PROVE  Counted'
  <2>1. UNCHANGED <<sentCount, delivered>>
    BY <1>6 DEF SmsSkip, SmsStop, SmsCancel, SmsTime, SmsFail, SmsGuard, SmsLog, SmsWorkerDone,
       SmsError, SmsWorkerDies, rowVars, historyVars
  <2>2. ASSUME NEW v \in Workers PROVE worker'[v].pc = "mark" => worker'[v] = worker[v]
    <3>1. CASE SmsGuard(w)
      BY <1>2, <3>1 DEF SmsGuard, WorkersOK, WorkerRecords
    <3>2. CASE SmsWorkerDone(w) \/ SmsWorkerDies(w)
      BY <1>2, <3>2 DEF SmsWorkerDone, SmsWorkerDies, WorkersOK, WorkerIdle
    <3>3. CASE \E stage \in {"stop", "done", "cancel", "send", "thrown", "fail"} :
                 Goto(w, stage)
      BY <1>2, <3>3 DEF Goto, WorkersOK, WorkerRecords
    <3>. QED BY <1>6, <3>1, <3>2, <3>3 DEF SmsSkip, SmsStop, SmsCancel, SmsTime, SmsFail,
             SmsLog, SmsError
  <2>. QED BY <1>3, <2>1, <2>2
<1>7. ASSUME NEW w \in Workers, NEW m \in Messages, SmsWorkerTake(w, m) PROVE Counted'
  <2>1. UNCHANGED <<sentCount, delivered>>
    BY <1>7 DEF SmsWorkerTake, rowVars
  <2>2. \A v \in Workers : worker'[v].pc = "mark" => worker'[v] = worker[v]
    BY <1>2, <1>7 DEF SmsWorkerTake, WorkersOK, WorkerIdle
  <2>. QED BY <1>3, <2>1, <2>2
<1>8. CASE UNCHANGED <<sentCount, delivered, worker>>
  BY <1>3, <1>8
<1>9. ASSUME NEW h \in Hooks, HookStep(h) \/ HookAbort(h)
      PROVE  UNCHANGED <<sentCount, delivered, worker>>
  BY <1>9 DEF HookStep, HookStop, HookCancel, EnrollFind, EnrollUpsert, EnrollCheck,
     EnrollCreate, EnrollEnqueue, FollowUpList, FollowUpRow, FollowUpRemove,
     FollowUpAdd, HookAbort, rowVars, historyVars
<1>10. ASSUME NEW h \in Hooks, NEW event \in Events, NEW s \in Keys, NEW t \in 0..MaxTime,
              FireHook(h, event, s, t)
       PROVE  UNCHANGED <<sentCount, delivered, worker>>
  BY <1>10 DEF FireHook, rowVars
<1>11. ASSUME \/ Tick \/ CronList \/ CronAbort \/ \E s \in Sessions : SystemLead(s)
              \/ \E m \in Messages : CronRequeue(m) \/ SmsJobStalls(m)
       PROVE  UNCHANGED <<sentCount, delivered, worker>>
  BY <1>11 DEF Tick, CronList, CronAbort, ReadBatch, SystemLead, CronRequeue, SmsJobStalls, rowVars, historyVars
<1>12. CASE UNCHANGED smsVars
  BY <1>8, <1>12 DEF smsVars, rowVars, historyVars
<1>. QED BY <1>1, <1>4, <1>5, <1>6, <1>7, <1>8, <1>9, <1>10, <1>11, <1>12
         DEF SmsNext, SmsWorkerStep

LEMMA InitCounted == SmsInit => Counted
<1>1. SUFFICES ASSUME SmsInit PROVE Counted
  OBVIOUS
<1>2. \A e : Marking(e) = {}
  BY <1>1 DEF SmsInit, Marking, WorkerIdle
<1>3. \A e : Cardinality(Sends(e)) \in Nat
  BY SendsFinite
<1>4. \A e : IsFiniteSet(Marking(e)) /\ Cardinality(Marking(e)) = 0
  BY <1>2, FS_EmptySet
<1>5. sentCount = [e \in Enrollments |-> 0]
  BY <1>1 DEF SmsInit
<1>6. ASSUME NEW e \in Enrollments PROVE Counts(e)
  BY <1>3, <1>4, <1>5 DEF Counts
<1>. QED BY <1>5, <1>6 DEF Counted

\* The rows, jobs, locks and counters of the funnel keep their types, for any
\* number of sessions, messages, hooks, workers and faults.
THEOREM SmsTypeCorrect == SmsSpec => []SmsTypeOK
<1>1. SmsSpec => []Counted
  BY InitCounted, CountedStep, ShapeHolds, BudgetsHold, PTL DEF SmsSpec
<1>2. Shape /\ Counted => SmsTypeOK
  <2>1. SUFFICES ASSUME Shape, Counted PROVE SmsTypeOK
    OBVIOUS
  <2>2. CrmOK /\ RowsOK /\ JobsOK /\ JobTypes /\ HooksOK /\ WorkersOK /\ RestOK
    BY <2>1 DEF Shape, JobsOK
  <2>3. sentCount \in [Enrollments -> 0..(Cardinality(Messages) * (1 + MaxFaults))]
    <3>1. ASSUME NEW e \in Enrollments
          PROVE  sentCount[e] \in 0..(Cardinality(Messages) * (1 + MaxFaults))
      <4>1. Counts(e)
        BY <2>1 DEF Counted
      <4>2. /\ sentCount[e] \in Nat /\ Cardinality(Marking(e)) \in Nat
            /\ sentCount[e] + Cardinality(Marking(e)) <= Cardinality(Sends(e))
        BY <4>1, FS_CardinalityType DEF Counts
      <4>3. Cardinality(Messages) \in Nat
        BY MessagesFinite, FS_CardinalityType
      <4> DEFINE B == Cardinality(Messages) * (1 + MaxFaults)
      <4>4. B \in Nat
        BY <4>3
      <4>5. Cardinality(Sends(e)) \in Nat /\ Cardinality(Sends(e)) <= B
        BY SendsFinite
      <4> HIDE DEF B
      <4>6. sentCount[e] \in 0..B
        BY <4>2, <4>4, <4>5
      <4>. QED BY <4>6 DEF B
    <3>. QED BY <2>1, <3>1 DEF Counted
  <2>4. /\ facts \in [Keys -> SUBSET (DOMAIN SequenceOf \cup {"started", "clicked", "follow_up"})]
        /\ leadRow \in [Sessions -> BOOLEAN]
    BY <2>2 DEF CrmOK, Happenings
  <2>5. \A w \in Workers : worker[w].pc = "idle" <=> worker[w] = WorkerIdle
    BY <2>2 DEF WorkersOK, GoodWorker
  <2>6. \A h \in Hooks : hook[h].pc = "idle" <=> hook[h] = HookIdle
    BY <2>2 DEF HooksOK, GoodHook
  <2>7. \A m \in Messages : owner[m] # NoWorker <=> job[m] = "active"
    BY <2>2 DEF JobsOK, Held
  <2>. QED BY <2>2, <2>3, <2>4, <2>5, <2>6, <2>7
           DEF SmsTypeOK, RowsOK, Rows, Statuses, JobTypes, RestOK
<1>. QED BY <1>1, <1>2, ShapeHolds, PTL
=============================================================================
