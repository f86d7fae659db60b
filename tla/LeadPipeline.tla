------------------------------ MODULE LeadPipeline ------------------------------
(***************************************************************************)
(* The CRM leads of one person (rows of ConsultationRequest) and everything*)
(* that creates or moves them: the fire-and-forget hooks of the assessment *)
(* (started, completed, abandoned), the stale-assessment cron, a           *)
(* consultation request, and an expert's status update.                    *)
(*                                                                         *)
(* Each of these looks for the person's lead, decides, and writes in a     *)
(* later database call; nothing serialises them and no unique key stops a  *)
(* second lead.  A process is a pair <<kind, session>>, or <<"staff", l>>  *)
(* for the update of lead l; pc[p] names its next database call.           *)
(***************************************************************************)
EXTENDS Naturals, FiniteSets, FiniteSetsExt

CONSTANTS
  Sessions,        \* the person's assessment sessions
  NoSession,
  MaxTasks,        \* processes in flight at a time
  MaxLeads,        \* lead rows of the person
  PauseSettings,   \* values read for pause_system_lead_creation
  StartSettings    \* values read for create_lead_on_assessment_start

ASSUME PipelineAssumption ==
  /\ IsFiniteSet(Sessions)
  /\ NoSession \notin Sessions
  /\ MaxTasks \in Nat \ {0}
  /\ MaxLeads \in Nat /\ MaxLeads >= MaxTasks
  /\ PauseSettings \subseteq BOOLEAN
  /\ StartSettings \subseteq BOOLEAN

\* Leads are numbered by createdAt.  No row is ever missing: NoLateDuplicate
\* says that only the creations already under way can follow the first one.
Leads == 1..MaxLeads

VARIABLES
  session,  \* status of each assessment session
  lead,     \* the lead rows (report: has a reportId); "none": not yet created
  pc,       \* next database call of each process
  target,   \* the lead a process has found (0: none)
  noted     \* the lead status a process has read and will decide on

pipelineVars == <<session, lead, pc, target, noted>>

SessionStatuses == {"absent", "in_progress", "completed", "abandoned"}
PipelineStatuses ==
  {"assessment_in_progress", "assessment_incomplete", "assessment_completed"}
OpenForComplete == {"assessment_in_progress", "assessment_incomplete"}
\* "contacted" stands for every status an expert gives after "new".
CrmStatuses == {"new", "contacted"}
LeadStatuses == PipelineStatuses \cup CrmStatuses

HookKinds == {"start", "complete", "abandon", "stale", "consult"}
Hooks == HookKinds \X Sessions
StaffUpdates == {"staff"} \X Leads
Processes == Hooks \cup StaffUpdates
Stages == {"off", "find", "find_user", "create", "bind", "check", "move",
           "attach", "read", "upgrade", "write"}

NoRow == [status |-> "none", session |-> NoSession, report |-> FALSE]
LeadRows ==
  [status : LeadStatuses, session : Sessions, report : BOOLEAN]

PipelineTypeOK ==
  /\ session \in [Sessions -> SessionStatuses]
  /\ lead \in [Leads -> LeadRows \cup {NoRow}]
  /\ pc \in [Processes -> Stages]
  /\ target \in [Processes -> Leads \cup {0}]
  /\ noted \in [Processes -> LeadStatuses \cup {"none"}]

PipelineInit ==
  /\ session = [s \in Sessions |-> "absent"]
  /\ lead = [l \in Leads |-> NoRow]
  /\ pc = [p \in Processes |-> "off"]
  /\ target = [p \in Processes |-> 0]
  /\ noted = [p \in Processes |-> "none"]

-----------------------------------------------------------------------------
Existing == {l \in Leads : lead[l] # NoRow}
Busy == {p \in Processes : pc[p] # "off"}

Goto(p, stage) == pc' = [pc EXCEPT ![p] = stage]

\* A process ends and its local variables are gone.
Finish(p) ==
  /\ Goto(p, "off")
  /\ target' = [target EXCEPT ![p] = 0]
  /\ noted' = [noted EXCEPT ![p] = "none"]

Continue(p, stage) == Goto(p, stage) /\ UNCHANGED <<target, noted>>

\* A hook begins to look for the person's lead.
Spawn(p) ==
  /\ pc[p] = "off"
  /\ Cardinality(Busy) < MaxTasks
  /\ Continue(p, "find")

SetLead(l, row) == lead' = [lead EXCEPT ![l] = row]

-----------------------------------------------------------------------------
(* The assessment side, as far as it calls the hooks (AssessmentSession) *)

StartSession(s) ==
  /\ session[s] = "absent"
  /\ session' = [session EXCEPT ![s] = "in_progress"]
  /\ \E on \in StartSettings :
       IF on THEN Spawn(<<"start", s>>) ELSE UNCHANGED <<pc, target, noted>>
  /\ UNCHANGED lead

\* Every finish call that reaches its end runs the hook, not only the first.
CompleteSession(s) ==
  /\ session[s] \in {"in_progress", "completed"}
  /\ session' = [session EXCEPT ![s] = "completed"]
  /\ Spawn(<<"complete", s>>)
  /\ UNCHANGED lead

\* An abandon that read an open session may come after its completion: by id
\* it overwrites the status, as updateMany it does not; the hook runs anyway.
AbandonSession(s) ==
  /\ \/ /\ session[s] = "in_progress"
        /\ session' = [session EXCEPT ![s] = "abandoned"]
     \/ /\ session[s] = "completed"
        /\ \E status \in {"completed", "abandoned"} :
             session' = [session EXCEPT ![s] = status]
  /\ Spawn(<<"abandon", s>>)
  /\ UNCHANGED lead

\* processStaleAssessmentLeads: the sessions behind leads left in progress
\* whose session is abandoned, or open and (time is not modelled) inactive.
StaleCron(s) ==
  /\ session[s] \in {"in_progress", "abandoned"}
  /\ \E l \in Existing :
       lead[l].session = s /\ lead[l].status = "assessment_in_progress"
  /\ Spawn(<<"stale", s>>)
  /\ UNCHANGED <<session, lead>>

SubmitConsultation(s) ==
  /\ session[s] # "absent"
  /\ Spawn(<<"consult", s>>)
  /\ UNCHANGED <<session, lead>>

-----------------------------------------------------------------------------
(* findLeadForAssessmentUser: by session, then by user, oldest first *)

\* Only a start uses the status it finds.
Found(p, l) ==
  /\ target' = [target EXCEPT ![p] = l]
  /\ noted' = IF p[1] = "start" THEN [noted EXCEPT ![p] = lead[l].status] ELSE noted
  /\ Goto(p, IF p[1] = "consult" THEN "read" ELSE "bind")

FindBySession(p) ==
  LET matching == {l \in Existing : lead[l].session = p[2]}
  IN /\ pc[p] = "find"
     /\ IF matching # {} THEN Found(p, Min(matching)) ELSE Continue(p, "find_user")
     /\ UNCHANGED <<session, lead>>

\* An assessment is completed, abandoned or started without a lead in sight:
\* the first creates one unless paused, the second gives up.
NothingFound(p) ==
  CASE p[1] \in {"abandon", "stale"} -> Finish(p)
    [] p[1] = "consult" -> Continue(p, "create")
    [] OTHER -> \E paused \in PauseSettings :
                  IF paused THEN Finish(p) ELSE Continue(p, "create")

\* Fault: the lookup forgets leads bound to the person's other sessions.
FindBySessionOnly(p) ==
  /\ pc[p] = "find_user"
  /\ NothingFound(p)
  /\ UNCHANGED <<session, lead>>

FindByUser(p) ==
  /\ pc[p] = "find_user"
  /\ IF Existing # {} THEN Found(p, Min(Existing)) ELSE NothingFound(p)
  /\ UNCHANGED <<session, lead>>

\* Fault: a completion only logs when no lead is found.
CreateLeadExceptCompleted(p) ==
  /\ pc[p] = "create"
  /\ IF p[1] = "complete"
     THEN UNCHANGED lead
     ELSE \E l \in Leads \ Existing :
            /\ \A k \in 1..(l - 1) : k \in Existing
            /\ SetLead(l, [status  |-> "new", session |-> p[2], report |-> FALSE])
  /\ Finish(p)
  /\ UNCHANGED session

\* Fault: a consultation's lead is inserted without a status.
CreateLeadWithoutDefault(p) ==
  /\ pc[p] = "create"
  /\ \E l \in Leads \ Existing :
       /\ \A k \in 1..(l - 1) : k \in Existing
       /\ SetLead(l, [status |-> "none", session |-> p[2], report |-> FALSE])
  /\ Finish(p)
  /\ UNCHANGED session

\* createConsultationRequest; a consultation takes the column default "new".
CreateLead(p) ==
  /\ pc[p] = "create"
  /\ \E l \in Leads \ Existing :
       /\ \A k \in 1..(l - 1) : k \in Existing
       /\ SetLead(l, [status  |-> CASE p[1] = "start" -> "assessment_in_progress"
                                    [] p[1] = "complete" -> "assessment_completed"
                                    [] OTHER -> "new",
                      session |-> p[2],
                      report  |-> p[1] = "complete"])
  /\ Finish(p)
  /\ UNCHANGED session

-----------------------------------------------------------------------------
(* updateLeadAssessmentBinding, whose status argument only a start passes *)

\* createLeadOnAssessmentStart: the status written depends on the status read
\* with the lookup, never on the present one.
BindOnStart(p) ==
  /\ pc[p] = "bind"
  /\ p[1] = "start"
  /\ LET row == [lead[target[p]] EXCEPT !.session = p[2]]
     IN SetLead(target[p], IF noted[p] \in PipelineStatuses
                           THEN [row EXCEPT !.status = "assessment_in_progress"]
                           ELSE row)
  /\ Finish(p)
  /\ UNCHANGED session

\* transitionLeadOnAssessmentComplete and markAssessmentLeadIncomplete.
BindAndCheck(p) ==
  /\ pc[p] = "bind"
  /\ p[1] \in {"complete", "abandon", "stale"}
  /\ LET row == [lead[target[p]] EXCEPT !.session = p[2]]
     IN SetLead(target[p], IF p[1] = "complete" THEN [row EXCEPT !.report = TRUE] ELSE row)
  /\ Continue(p, "check")
  /\ UNCHANGED session

(* transitionLeadStatusIfCurrent: read, then updateMany on the same condition *)

FromStatuses(p) ==
  IF p[1] = "complete" THEN OpenForComplete ELSE {"assessment_in_progress"}

ToStatus(p) ==
  IF p[1] = "complete" THEN "assessment_completed" ELSE "assessment_incomplete"

NotMoved(p) == IF p[1] = "complete" THEN Continue(p, "attach") ELSE Finish(p)

CheckStatus(p) ==
  /\ pc[p] = "check"
  /\ IF lead[target[p]].status \in FromStatuses(p) THEN Continue(p, "move") ELSE NotMoved(p)
  /\ UNCHANGED <<session, lead>>

\* Fault: the update goes by id and trusts the status read before.
MoveStatusById(p) ==
  /\ pc[p] = "move"
  /\ SetLead(target[p], [lead[target[p]] EXCEPT !.status = ToStatus(p),
                                               !.report = @ \/ p[1] = "complete"])
  /\ Finish(p)
  /\ UNCHANGED session

MoveStatus(p) ==
  /\ pc[p] = "move"
  /\ LET row == lead[target[p]]
         moved == [row EXCEPT !.status = ToStatus(p)]
     IN IF row.status \in FromStatuses(p)
        THEN /\ SetLead(target[p], IF p[1] = "complete"
                                   THEN [moved EXCEPT !.report = TRUE] ELSE moved)
             /\ Finish(p)
        ELSE NotMoved(p) /\ UNCHANGED lead
  /\ UNCHANGED session

AttachReportIfMissing(p) ==
  /\ pc[p] = "attach"
  /\ SetLead(target[p], [lead[target[p]] EXCEPT !.report = TRUE])
  /\ Finish(p)
  /\ UNCHANGED session

-----------------------------------------------------------------------------
(* upgradeConsultationRequestToDirect / ToMessenger: read, then update *)

ReadForUpgrade(p) ==
  /\ pc[p] = "read"
  /\ noted' = [noted EXCEPT ![p] = lead[target[p]].status]
  /\ Goto(p, "upgrade")
  /\ UNCHANGED <<session, lead, target>>

Upgrade(p) ==
  /\ pc[p] = "upgrade"
  /\ p[1] = "consult"
  /\ SetLead(target[p], IF noted[p] \in PipelineStatuses
                        THEN [lead[target[p]] EXCEPT !.status = "new"]
                        ELSE lead[target[p]])
  /\ Finish(p)
  /\ UNCHANGED session

(* updateConsultationLeadStatus: the expert's update, read then write *)

StaffRead(l) ==
  LET p == <<"staff", l>>
  IN /\ pc[p] = "off"
     /\ Cardinality(Busy) < MaxTasks
     /\ l \in Existing
     /\ noted' = [noted EXCEPT ![p] = lead[l].status]
     /\ Goto(p, "write")
     /\ UNCHANGED <<session, lead, target>>

\* isManualStatusTransitionAllowed: nobody moves a lead into the running test,
\* but the status that was read may be written back.
StaffWrite(l) ==
  LET p == <<"staff", l>>
  IN /\ pc[p] = "write"
     /\ \E to \in LeadStatuses :
          /\ to # "assessment_in_progress" \/ to = noted[p]
          /\ SetLead(l, [lead[l] EXCEPT !.status = to])
     /\ Finish(p)
     /\ UNCHANGED session

\* The process dies or a call fails; the hooks catch and log the error.
Die(p) ==
  /\ pc[p] # "off"
  /\ Finish(p)
  /\ UNCHANGED <<session, lead>>

-----------------------------------------------------------------------------
HookStep(p) ==
  \/ FindBySession(p) \/ FindByUser(p) \/ CreateLead(p)
  \/ BindOnStart(p) \/ BindAndCheck(p)
  \/ CheckStatus(p) \/ MoveStatus(p) \/ AttachReportIfMissing(p)
  \/ ReadForUpgrade(p) \/ Upgrade(p)

PipelineNext ==
  \/ \E s \in Sessions :
       \/ StartSession(s) \/ CompleteSession(s) \/ AbandonSession(s)
       \/ StaleCron(s) \/ SubmitConsultation(s)
  \/ \E p \in Hooks : HookStep(p)
  \/ \E l \in Leads : StaffRead(l) \/ StaffWrite(l)
  \/ \E p \in Processes : Die(p)

PipelineSpec == PipelineInit /\ [][PipelineNext]_pipelineVars

-----------------------------------------------------------------------------
(* Correctness *)

\* Comment of createLeadOnAssessmentStart: "One lead per person".
OneLeadPerPerson == Cardinality(Existing) <= 1

\* Once the person has a lead, every lookup finds one: only calls that had
\* already decided to create can still add a lead, so duplicates never keep
\* growing however long the person uses the site.
Creators == {p \in Hooks : pc[p] = "create"}
NoLateDuplicate ==
  [][Existing # {} => Cardinality(Existing') + Cardinality(Creators')
                        <= Cardinality(Existing) + Cardinality(Creators)]_pipelineVars

\* Comment of createLeadOnAssessmentStart: CRM statuses must not regress.  No
\* step but an expert's own takes a lead from the CRM back to the pipeline.
CrmStatusDoesNotRegress ==
  [][(\A u \in StaffUpdates : pc'[u] = pc[u])
       => \A l \in Leads : lead[l].status \in CrmStatuses
                             => lead'[l].status \in CrmStatuses]_pipelineVars

\* Start hooks that are about to write lead l by a status it no longer has.
StaleStarts(l) ==
  {p \in Hooks : /\ pc[p] = "bind" /\ p[1] = "start"
                 /\ target[p] = l /\ noted[p] # lead[l].status}

\* What does hold however calls overlap: a lead goes from the CRM back to the
\* pipeline only by its expert's update, or by a start hook since whose lookup
\* the lead's status has changed.  The completed, abandoned and stale hooks and
\* a consultation request never take it back, though they read it before too.
OnlyStaleStartRegresses ==
  [][\A l \in Leads :
       lead[l].status \in CrmStatuses /\ lead'[l].status \notin CrmStatuses
         => \E p \in StaleStarts(l) \cup {<<"staff", l>>} : pc'[p] # pc[p]]_pipelineVars

\* A completed assessment reaches the sales team however the calls overlap: a
\* completed hook that does not die ends with a lead of the person that has a
\* report, unless it finds no lead while system leads are paused.
CompletedIsReported ==
  [][\A s \in Sessions :
       LET p == <<"complete", s>>
       IN pc'[p] = "off" /\ HookStep(p)
            => \/ pc[p] = "find_user" /\ Existing = {}
               \/ \E l \in Existing' : lead'[l].report]_pipelineVars
=============================================================================
