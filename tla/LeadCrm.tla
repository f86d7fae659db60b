------------------------------- MODULE LeadCrm -------------------------------
(***************************************************************************)
(* Who writes the status and the owner of a lead, and the LeadActivity     *)
(* rows this leaves.  People (consultation.service.ts): updates by the     *)
(* owner or an admin, bulk updates, logged calls, transfers and claims.    *)
(* The system (lead-assignment.service.ts, lead-backfill.service.ts): the  *)
(* hooks and crons of an assessment, a consultation request, automatic     *)
(* assignment and the backfill.  Each reads the row, decides, and writes   *)
(* in later database calls; an activity is another call.                   *)
(*                                                                         *)
(* visit[v] is an operation in flight: the rows it has read (seen), those  *)
(* still to do (todo), the one being done (row).  "contacted" stands for a *)
(* meeting too, which the rules treat alike.  Accounts of experts are      *)
(* those of StaffAccounts; how an expert is picked is LeadAssignment's,    *)
(* which lead a hook finds LeadPipeline's, which one a backfill keeps and  *)
(* deletes LeadBackfill's.                                                 *)
(***************************************************************************)
EXTENDS StaffAccounts

CONSTANTS
  CrmLeads,
  NoLead,
  Visits,         \* operations in flight
  LeadInputs,     \* bound: the bodies of updates that are sent
  FirstRows,      \* bound: status and owner of the leads at the start
  RequireCall,    \* setting requireCallOutcomeBeforeClose
  CrmPeople,      \* bound: the admins and experts at work
  MaxVisits,      \* bound: operations ever begun
  MaxCrmAborts    \* bound: operations that die between two calls

\* ASSESSMENT_PIPELINE_STATUSES
Pipeline == {"assessment_in_progress", "assessment_incomplete", "assessment_completed"}
LeadStatuses == Pipeline \cup {"new", "contacted", "unreachable", "closed_won", "closed_lost"}

\* status and owner may be kept, the owner taken away (Nobody); reason says
\* that a lost reason is given.
InputRecords == [status : LeadStatuses \cup {"keep"},
                 owner : Staff \cup {Nobody, "keep"}, reason : BOOLEAN]

ASSUME CrmAssumption ==
  /\ IsFiniteSet(CrmLeads) /\ IsFiniteSet(Visits)
  /\ NoLead \notin CrmLeads
  /\ CrmPeople \subseteq Staff
  /\ LeadInputs \subseteq InputRecords
  /\ FirstRows \subseteq [CrmLeads -> [status : Pipeline \cup {"new"},
                                      owner : SalesExperts \cup {Nobody}]]
  /\ "keep" \notin Staff \cup {Nobody}
  /\ RequireCall \in BOOLEAN
  /\ MaxVisits \in Nat /\ MaxCrmAborts \in Nat

VARIABLES
  lead,       \* the columns of consultation_requests people work with
  trail,      \* history: what the lead's activities say, and whether they chain
  untold,     \* history: leads whose status was changed without an activity
  visit,
  disturbed,  \* history: leads on which visits have overlapped or died
  visits,     \* history: operations begun
  crmAborts   \* history: operations that died

crmOwn == <<lead, trail, untold, visit, disturbed, visits, crmAborts>>
crmVars == <<crmOwn, staffVars>>

\* The input of an update that sets the status only.
OnlyStatus(s) == [status |-> s, owner |-> "keep", reason |-> FALSE]

NoVisit == [at |-> "idle", by |-> Nobody, to |-> Nobody, row |-> NoLead, todo |-> {}, seen |-> <<>>,
            input |-> OnlyStatus("keep")]

NewRow(s, e) == [status |-> s, owner |-> e, called |-> FALSE, reason |-> FALSE,
                 contactedAt |-> FALSE, closedAt |-> FALSE]

\* Leads nobody has worked on: in the team queue or with an active expert.
LeadsInit ==
  /\ \E f \in FirstRows :
       /\ lead = [l \in CrmLeads |-> NewRow(f[l].status, f[l].owner)]
       /\ trail = [l \in CrmLeads |-> [owner |-> f[l].owner, status |-> f[l].status,
                                  ownerChained |-> TRUE, statusChained |-> TRUE]]
  /\ untold = {}
  /\ visit = [v \in Visits |-> NoVisit]
  /\ disturbed = {}
  /\ visits = 0
  /\ crmAborts = 0

CrmInit == LeadsInit /\ StaffHired

-----------------------------------------------------------------------------
Busy(l) == \E v \in Visits : l \in DOMAIN visit[v].seen

MayBegin(v) == visit[v].at = "idle" /\ visits < MaxVisits

\* A visit begins by reading the rows of S.
BeginVisit(v, S, at, by, input) ==
  /\ visits' = visits + 1
  /\ disturbed' = disturbed \cup {l \in S : Busy(l)}
  /\ visit' = [visit EXCEPT ![v] =
       [NoVisit EXCEPT !.at = at, !.by = by, !.todo = S, !.input = input,
                       !.seen = [l \in S |-> lead[l]]]]

VisitGoto(v, at) == visit' = [visit EXCEPT ![v].at = at]
EndVisit(v) == visit' = [visit EXCEPT ![v] = NoVisit]

\* The visit goes on with the next row, or has none left and ends.
NextRow(x, left) ==
  IF left = {} THEN NoVisit ELSE [x EXCEPT !.at = "write", !.row = NoLead, !.todo = left]

-----------------------------------------------------------------------------
(* Rules *)

\* canMutateLead
MayMutate(by, row) == by \in Admins \/ row.owner = by

\* isManualStatusTransitionAllowed
MayMove(row, input) ==
  input.status = "assessment_in_progress" => row.status = "assessment_in_progress"

Changes(row, input) == input.status # "keep" /\ input.status # row.status

\* Fault: only a lost lead needs the outcome of a call.
CallBeforeLost(row, input) ==
  RequireCall /\ Changes(row, input) /\ input.status = "closed_lost" => row.called

\* assertCallOutcomeBeforeClose
CallBeforeClose(row, input) ==
  RequireCall /\ Changes(row, input) /\ input.status \in {"closed_lost", "unreachable"} => row.called

\* resolveLostReasonUpdates refuses a lost lead without a reason and a reason
\* for any other; a note of the reason "other" is not told apart from it.
ReasonFits(row, input) ==
  LET next == IF input.status = "keep" THEN row.status ELSE input.status
  IN /\ input.status = "closed_lost" => input.reason
     /\ input.reason => next = "closed_lost"

\* updateConsultationLead with resolveStatusTimestamps: the input and what the
\* row as it was read calls for are written over the row as it is.
Written(row, read, input) ==
  [row EXCEPT
    !.status = IF input.status = "keep" THEN @ ELSE input.status,
    !.owner = IF input.owner = "keep" THEN @ ELSE input.owner,
    !.reason = @ \/ input.reason,
    !.contactedAt = @ \/ (Changes(read, input) /\ input.status = "contacted"),
    !.closedAt = @ \/ (Changes(read, input) /\ input.status \in {"closed_won", "closed_lost"})]

-----------------------------------------------------------------------------
(* updateConsultationLeadStatus: the checks follow the read at once. *)

Acceptable(row, input) == MayMove(row, input) /\ CallBeforeClose(row, input) /\ ReasonFits(row, input)

UpdateRead(v, by, l, input) ==
  /\ MayBegin(v)
  /\ MayMutate(by, lead[l])
  /\ input.owner # "keep" => by \in Admins
  /\ Acceptable(lead[l], input)
  /\ BeginVisit(v, {l}, "write", by, input)
  /\ UNCHANGED <<lead, trail, untold, crmAborts, staffVars>>

(* bulkUpdateLeads reads every row first and then goes row by row. *)
BulkRead(v, by, input) ==
  /\ MayBegin(v)
  /\ by \in Admins
  /\ BeginVisit(v, CrmLeads, "write", by, input)
  /\ UNCHANGED <<lead, trail, untold, crmAborts, staffVars>>

\* A row that may not move, or lacks a call, is passed over ...
RowSkip(v) ==
  /\ visit[v].at = "write"
  /\ \E l \in visit[v].todo :
       /\ \/ ~MayMove(visit[v].seen[l], visit[v].input)
          \/ ~CallBeforeClose(visit[v].seen[l], visit[v].input)
       /\ visit' = [visit EXCEPT ![v] = NextRow(@, @.todo \ {l})]
  /\ UNCHANGED <<lead, trail, untold, disturbed, visits, crmAborts, staffVars>>

\* ... and one whose reason does not fit throws, with the rows before it done.
RowThrow(v) ==
  /\ visit[v].at = "write"
  /\ \E l \in visit[v].todo :
       /\ MayMove(visit[v].seen[l], visit[v].input)
       /\ CallBeforeClose(visit[v].seen[l], visit[v].input)
       /\ ~ReasonFits(visit[v].seen[l], visit[v].input)
  /\ EndVisit(v)
  /\ UNCHANGED <<lead, trail, untold, disturbed, visits, crmAborts, staffVars>>

\* recordLeadUpdateActivities compares the row as it was read with the input.
Reassigns(row, input) == input.owner \notin {"keep", row.owner}

AfterWrite(x, l) ==
  LET y == [x EXCEPT !.row = l, !.todo = @ \ {l}] IN
  CASE Changes(x.seen[l], x.input) -> [y EXCEPT !.at = "log_status"]
    [] ~Changes(x.seen[l], x.input) /\ Reassigns(x.seen[l], x.input) -> [y EXCEPT !.at = "log_owner"]
    [] OTHER -> NextRow(x, x.todo \ {l})

RowWrite(v) ==
  /\ visit[v].at = "write"
  /\ \E l \in visit[v].todo :
       /\ Acceptable(visit[v].seen[l], visit[v].input)
       /\ lead' = [lead EXCEPT ![l] = Written(@, visit[v].seen[l], visit[v].input)]
       /\ visit' = [visit EXCEPT ![v] = AfterWrite(@, l)]
  /\ UNCHANGED <<trail, untold, disturbed, visits, crmAborts, staffVars>>

\* Fault: one activity per row, a reassignment that comes with it is lost.
LogStatusOnly(v) ==
  LET x == visit[v] IN
  /\ x.at = "log_status"
  /\ trail' = [trail EXCEPT
       ![x.row].status = x.input.status,
       ![x.row].statusChained = @ /\ trail[x.row].status = x.seen[x.row].status]
  /\ visit' = [visit EXCEPT ![v] = NextRow(x, x.todo)]
  /\ UNCHANGED <<lead, untold, disturbed, visits, crmAborts, staffVars>>

LogStatus(v) ==
  LET x == visit[v] IN
  /\ x.at = "log_status"
  /\ trail' = [trail EXCEPT
       ![x.row].status = x.input.status,
       ![x.row].statusChained = @ /\ trail[x.row].status = x.seen[x.row].status]
  /\ IF Reassigns(x.seen[x.row], x.input)
     THEN VisitGoto(v, "log_owner") ELSE visit' = [visit EXCEPT ![v] = NextRow(x, x.todo)]
  /\ UNCHANGED <<lead, untold, disturbed, visits, crmAborts, staffVars>>

\* assignment_change, of an update or of a lead that was given to somebody
LogOwner(v) ==
  LET x == visit[v] IN
  /\ x.at = "log_owner"
  /\ trail' = [trail EXCEPT
       ![x.row].owner = IF x.to = Nobody THEN x.input.owner ELSE x.to,
       ![x.row].ownerChained = @ /\ trail[x.row].owner = x.seen[x.row].owner]
  /\ visit' = [visit EXCEPT ![v] = NextRow(x, x.todo)]
  /\ UNCHANGED <<lead, untold, disturbed, visits, crmAborts, staffVars>>

-----------------------------------------------------------------------------
(* logCall: the call is recorded first; a status that comes with it then   *)
(* goes through updateConsultationLeadStatus, which may refuse it.         *)

CallRead(v, by, l, input) ==
  /\ MayBegin(v)
  /\ MayMutate(by, lead[l])
  /\ input.owner = "keep"
  /\ BeginVisit(v, {l}, "call_write", by, input)
  /\ UNCHANGED <<lead, trail, untold, crmAborts, staffVars>>

CallWrite(v) ==
  /\ visit[v].at = "call_write"
  /\ \E l \in visit[v].todo : lead' = [lead EXCEPT ![l].called = TRUE]
  /\ IF visit[v].input.status = "keep" /\ ~visit[v].input.reason
     THEN EndVisit(v) ELSE VisitGoto(v, "call_update")
  /\ UNCHANGED <<trail, untold, disturbed, visits, crmAborts, staffVars>>

CallUpdate(v) ==
  LET l == CHOOSE l \in visit[v].todo : TRUE IN
  /\ visit[v].at = "call_update"
  /\ IF MayMutate(visit[v].by, lead[l]) /\ Acceptable(lead[l], visit[v].input)
     THEN visit' = [visit EXCEPT ![v].at = "write", ![v].seen = [m \in {l} |-> lead[m]]]
     ELSE EndVisit(v)
  /\ UNCHANGED <<lead, trail, untold, disturbed, visits, crmAborts, staffVars>>

-----------------------------------------------------------------------------
(* transferLead: row, destination, write by id, activity, note, SMS.       *)

TransferRead(v, by, l, to) ==
  /\ MayBegin(v)
  /\ MayMutate(by, lead[l])
  /\ to # lead[l].owner
  /\ to # by
  /\ visits' = visits + 1
  /\ disturbed' = disturbed \cup {m \in {l} : Busy(m)}
  /\ visit' = [visit EXCEPT ![v] =
       [NoVisit EXCEPT !.at = "target", !.by = by, !.to = to, !.row = l,
                       !.seen = [m \in {l} |-> lead[m]]]]
  /\ UNCHANGED <<lead, trail, untold, crmAborts, staffVars>>

TransferTarget(v) ==
  /\ visit[v].at = "target"
  /\ IF account[visit[v].to] = "active" THEN VisitGoto(v, "transfer") ELSE EndVisit(v)
  /\ UNCHANGED <<lead, trail, untold, disturbed, visits, crmAborts, staffVars>>

TransferWrite(v) ==
  LET x == visit[v] IN
  /\ x.at = "transfer"
  /\ lead' = [lead EXCEPT ![x.row].owner = x.to]
  /\ VisitGoto(v, "log_owner")
  /\ UNCHANGED <<trail, untold, disturbed, visits, crmAborts, staffVars>>

-----------------------------------------------------------------------------
(* claimLead; its conditional transaction is one step here and taken apart *)
(* in LeadAssignment, where an expert at capacity is refused.              *)

ClaimRead(v, by, l) ==
  /\ MayBegin(v)
  /\ account[by] = "active"
  /\ by \notin onPause
  /\ lead[l].owner = Nobody
  /\ lead[l].status \notin {"closed_won", "closed_lost"}
  /\ BeginVisit(v, {l}, "claim", by, NoVisit.input)
  /\ UNCHANGED <<lead, trail, untold, crmAborts, staffVars>>

\* The lead l of visit v is by's now, which is left to record.
Take(v, l) ==
  /\ lead' = [lead EXCEPT ![l].owner = visit[v].by]
  /\ visit' = [visit EXCEPT ![v].at = "log_owner", ![v].to = visit[v].by,
                            ![v].row = l, ![v].todo = {}]

ClaimWrite(v) ==
  /\ visit[v].at = "claim"
  /\ \E l \in visit[v].todo :
       \/ /\ lead[l].owner = Nobody
          /\ lead[l].status \notin {"closed_won", "closed_lost"}
          /\ Take(v, l)
       \/ EndVisit(v) /\ UNCHANGED lead
  /\ UNCHANGED <<trail, untold, disturbed, visits, crmAborts, staffVars>>

-----------------------------------------------------------------------------
(* The system.  autoAssignAndNotifyLead reads the lead and picks an expert *)
(* (by); assignLeadToExpertIfUnassigned writes.                            *)

AssignRead(v, e, l) ==
  /\ MayBegin(v)
  /\ account[e] = "active"
  /\ e \notin onPause
  /\ lead[l].owner = Nobody
  /\ BeginVisit(v, {l}, "assign", e, NoVisit.input)
  /\ UNCHANGED <<lead, trail, untold, crmAborts, staffVars>>

AssignWrite(v) ==
  /\ visit[v].at = "assign"
  /\ \E l \in visit[v].todo :
       IF lead[l].owner = Nobody THEN Take(v, l) ELSE EndVisit(v) /\ UNCHANGED lead
  /\ UNCHANGED <<trail, untold, disturbed, visits, crmAborts, staffVars>>

\* createLeadOnAssessmentStart finds the person's lead in the pipeline.
StartRead(v, l) ==
  /\ MayBegin(v)
  /\ lead[l].status \in Pipeline
  /\ BeginVisit(v, {l}, "bind", Nobody, OnlyStatus("assessment_in_progress"))
  /\ UNCHANGED <<lead, trail, untold, crmAborts, staffVars>>

\* backfillAssessmentLeads: the stage of the person's newest session for a
\* lead in the pipeline, the status it has read for any other.
BackfillRead(v, l) ==
  /\ MayBegin(v)
  /\ \E s \in IF lead[l].status \in Pipeline THEN Pipeline ELSE {lead[l].status} :
       BeginVisit(v, {l}, "bind", Nobody, OnlyStatus(s))
  /\ UNCHANGED <<lead, trail, untold, crmAborts, staffVars>>

\* updateLeadAssessmentBinding, by id and without an activity.
BindWrite(v) ==
  /\ visit[v].at = "bind"
  /\ \E l \in visit[v].todo :
       /\ lead' = [lead EXCEPT ![l].status = visit[v].input.status]
       /\ untold' = IF lead'[l].status # lead[l].status THEN untold \cup {l} ELSE untold
  /\ EndVisit(v)
  /\ UNCHANGED <<trail, disturbed, visits, crmAborts, staffVars>>

\* transitionLeadStatusIfCurrent, on completion and when a session is left.
OpenFor(status) ==
  IF status = "assessment_completed"
  THEN {"assessment_in_progress", "assessment_incomplete"} ELSE {"assessment_in_progress"}

TransitionRead(v, l, status) ==
  /\ MayBegin(v)
  /\ lead[l].status \in OpenFor(status)
  /\ BeginVisit(v, {l}, "transition", Nobody, OnlyStatus(status))
  /\ UNCHANGED <<lead, trail, untold, crmAborts, staffVars>>

\* The status of l is written and recordSystemStatusChange is next.
Promoted(v, l, status) ==
  [visit EXCEPT ![v].at = "log_status", ![v].input = OnlyStatus(status),
                ![v].row = l, ![v].todo = {}]

TransitionWrite(v) ==
  LET status == visit[v].input.status IN
  /\ visit[v].at = "transition"
  /\ \E l \in visit[v].todo :
       IF lead[l].status \in OpenFor(status)
       THEN lead' = [lead EXCEPT ![l].status = status] /\ visit' = Promoted(v, l, status)
       ELSE EndVisit(v) /\ UNCHANGED lead
  /\ UNCHANGED <<trail, untold, disturbed, visits, crmAborts, staffVars>>

\* upgradeExistingLeadToDirect, ...ToMessenger: a consultation request reads
\* the lead for its activity, then once more for the status it writes.
UpgradeRead(v, l) ==
  /\ MayBegin(v)
  /\ BeginVisit(v, {l}, "upgrade", Nobody, NoVisit.input)
  /\ UNCHANGED <<lead, trail, untold, crmAborts, staffVars>>

UpgradeDecide(v) ==
  /\ visit[v].at = "upgrade"
  /\ \E l \in visit[v].todo :
       visit' = [visit EXCEPT ![v].at = "upgrade_write",
                              ![v].input = OnlyStatus(IF lead[l].status \in Pipeline THEN "new" ELSE "keep")]
  /\ UNCHANGED <<lead, trail, untold, disturbed, visits, crmAborts, staffVars>>

UpgradeWrite(v) ==
  LET x == visit[v] IN
  /\ x.at = "upgrade_write"
  /\ \E l \in x.todo :
       LET next == IF x.input.status = "keep" THEN lead[l].status ELSE x.input.status
       IN /\ lead' = [lead EXCEPT ![l].status = next]
          /\ IF x.seen[l].status \in Pipeline \ {next}
             THEN visit' = Promoted(v, l, next) ELSE EndVisit(v)
  /\ UNCHANGED <<trail, untold, disturbed, visits, crmAborts, staffVars>>

-----------------------------------------------------------------------------
\* An admin's patch (StaffAccounts) lets an expert in or locks him out.
ExpertSwitched(e) ==
  /\ account' = [account EXCEPT ![e] = IF @ = "active" THEN "inactive" ELSE "active"]
  /\ UNCHANGED <<lead, trail, untold, visit, disturbed, visits, crmAborts, onPause, sessions, desk, staffRace>>

\* The request dies: what it has written stays, the rest does not happen.
CrmAbort(v) ==
  /\ visit[v].at # "idle"
  /\ crmAborts < MaxCrmAborts
  /\ crmAborts' = crmAborts + 1
  /\ disturbed' = disturbed \cup DOMAIN visit[v].seen
  /\ EndVisit(v)
  /\ UNCHANGED <<lead, trail, untold, visits, staffVars>>

VisitStep(v) ==
  \/ \E by \in CrmPeople, l \in CrmLeads, input \in LeadInputs :
       UpdateRead(v, by, l, input) \/ CallRead(v, by, l, input)
  \/ \E by \in CrmPeople \cap Admins, input \in LeadInputs : BulkRead(v, by, input)
  \/ RowSkip(v) \/ RowThrow(v) \/ RowWrite(v) \/ LogStatus(v) \/ LogOwner(v)
  \/ CallWrite(v) \/ CallUpdate(v)
  \/ \E by \in CrmPeople, l \in CrmLeads, to \in SalesExperts : TransferRead(v, by, l, to)
  \/ TransferTarget(v) \/ TransferWrite(v)
  \/ \E by \in CrmPeople \cap SalesExperts, l \in CrmLeads : ClaimRead(v, by, l)
  \/ ClaimWrite(v)
  \/ \E e \in SalesExperts, l \in CrmLeads : AssignRead(v, e, l)
  \/ AssignWrite(v)
  \/ \E l \in CrmLeads : StartRead(v, l) \/ BackfillRead(v, l) \/ UpgradeRead(v, l)
  \/ \E l \in CrmLeads, status \in {"assessment_incomplete", "assessment_completed"} :
       TransitionRead(v, l, status)
  \/ BindWrite(v) \/ TransitionWrite(v) \/ UpgradeDecide(v) \/ UpgradeWrite(v)
  \/ CrmAbort(v)

CrmNext ==
  \/ \E v \in Visits : VisitStep(v)
  \/ \E e \in SalesExperts : ExpertSwitched(e)

CrmSpec == CrmInit /\ [][CrmNext]_crmVars

-----------------------------------------------------------------------------
(* Properties *)

\* updateConsultationLeadStatus, bulkUpdateLeads and logCall check a row they
\* read and write another: whatever overlaps, a lead that was closed has its
\* date, a lost one its reason, a contacted one its date, and with the setting
\* on nobody is lost or unreachable without the outcome of a call.
StatusIsBacked ==
  \A l \in CrmLeads :
    /\ lead[l].status \in {"closed_won", "closed_lost"} => lead[l].closedAt
    /\ lead[l].status = "closed_lost" => lead[l].reason
    /\ lead[l].status = "contacted" => lead[l].contactedAt
    /\ RequireCall /\ lead[l].status \in {"closed_lost", "unreachable"} => lead[l].called

\* Activities are written after the row, from what was read before it, by a
\* dozen writers.  On a lead whose operations neither overlapped nor died they
\* tell who has owned it, each starting where the last one ended and the last one
\* being how the lead stands; and they tell its status in the same way unless the
\* start of an assessment or a backfill, which leave no activity, changed it.
HistoryIsWhole ==
  \A l \in CrmLeads \ disturbed :
    ~Busy(l) =>
      /\ trail[l].owner = lead[l].owner /\ trail[l].ownerChained
      /\ l \notin untold => trail[l].status = lead[l].status /\ trail[l].statusChained
=============================================================================
