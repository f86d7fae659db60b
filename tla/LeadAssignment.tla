----------------------------- MODULE LeadAssignment -----------------------------
(***************************************************************************)
(* Who owns a lead: round-robin assignment (hooks of new leads and the     *)
(* lead-assignment cron), experts claiming from the team queue, transfers  *)
(* by the owner or an admin, and an admin's assignment by hand.            *)
(*                                                                         *)
(* task[t] is a call in flight with its local variables; each action is a  *)
(* database call.  pickNextSalesExpert and the claim are transactions at   *)
(* PostgreSQL's default READ COMMITTED, where a count and a later write of *)
(* the same transaction are two steps for everyone else.                   *)
(***************************************************************************)
EXTENDS Integers, FiniteSets

CONSTANTS
  Experts,    \* sales experts
  Leads,
  Tasks,      \* calls in flight at a time
  NoExpert,
  NoLead,
  Admin,
  MaxOpen,    \* max_open_leads_per_expert
  Preferred   \* hot-lead and per-source preferences; NoExpert: none

ASSUME AssignmentAssumption ==
  /\ IsFiniteSet(Experts) /\ IsFiniteSet(Leads) /\ IsFiniteSet(Tasks)
  /\ NoExpert \notin Experts
  /\ NoLead \notin Leads
  /\ Admin \notin Experts
  /\ MaxOpen \in Nat \ {0}
  /\ Preferred \subseteq Experts \cup {NoExpert}

VARIABLES
  owner,     \* assignedToId of each lead
  stage,     \* lead status: "soft" (test in progress), "open" or "closed"
  staff,     \* each expert's account
  ahead,     \* <<d, e>>: d was assigned longer ago (lastAssignedAt) than e
  task,
  byHand     \* history: leads whose owner or status people or tests have moved

assignmentVars == <<owner, stage, staff, ahead, task, byHand>>

LeadStages == {"soft", "open", "closed"}
\* "paused" also stands for a spent daily call quota, a missing phone number
\* and the exclusion list of auto-assignment.
StaffStates == {"available", "paused", "inactive"}
TaskStages == {"idle", "auto_pick", "auto_touch", "auto_assign", "auto_announce",
               "claim_count", "claim_write", "claim_touch", "transfer", "admin"}

Idle == [at |-> "idle", lead |-> NoLead, expert |-> NoExpert, by |-> NoExpert]
TaskRecords ==
  [at : TaskStages, lead : Leads \cup {NoLead},
   expert : Experts \cup {NoExpert}, by : Experts \cup {NoExpert, Admin}]

AssignmentTypeOK ==
  /\ owner \in [Leads -> Experts \cup {NoExpert, Admin}]
  /\ stage \in [Leads -> LeadStages]
  /\ staff \in [Experts -> StaffStates]
  /\ ahead \in SUBSET (Experts \X Experts)
  /\ byHand \in SUBSET Leads
  /\ task \in [Tasks -> TaskRecords]

AssignmentInit ==
  /\ owner = [l \in Leads |-> NoExpert]
  /\ stage \in [Leads -> {"soft", "open"}]
  /\ staff = [e \in Experts |-> "available"]
  /\ ahead \in {r \in SUBSET (Experts \X Experts) :
                   \A d, e, f \in Experts :
                     /\ <<d, d>> \notin r
                     /\ d # e => <<d, e>> \in r \/ <<e, d>> \in r
                     /\ <<d, e>> \in r /\ <<e, f>> \in r => <<d, f>> \in r}
  /\ task = [t \in Tasks |-> Idle]
  /\ byHand = {}

-----------------------------------------------------------------------------
\* The leads that count toward an expert's capacity: a running test does not.
Counted(e) == {l \in Leads : owner[l] = e /\ stage[l] = "open"}

UnderCapacity(e) == Cardinality(Counted(e)) < MaxOpen

Eligible == {e \in Experts : staff[e] = "available" /\ UnderCapacity(e)}

\* lastAssignedAt = now puts the expert last.
Touch(e) ==
  ahead' = (ahead \ ({e} \X Experts)) \cup ((Experts \ {e}) \X {e})

Begin(t, l, e, by, at) ==
  /\ task[t].at = "idle"
  /\ task' = [task EXCEPT ![t] = [at |-> at, lead |-> l, expert |-> e, by |-> by]]

Proceed(t, at) == task' = [task EXCEPT ![t].at = at]

\* Fault: the call stays behind when it has ended.
EndAsDone(t) == task' = [task EXCEPT ![t].at = "done"]

End(t) == task' = [task EXCEPT ![t] = Idle]

\* updateMany where assignedToId is null.
TakeIfUnowned(t, next) ==
  LET l == task[t].lead
  IN IF owner[l] = NoExpert
     THEN /\ owner' = [owner EXCEPT ![l] = task[t].expert]
          /\ Proceed(t, next)
     ELSE End(t) /\ UNCHANGED owner

-----------------------------------------------------------------------------
(* autoAssignAndNotifyLead *)

AutoRead(t, l) ==
  /\ owner[l] = NoExpert
  /\ Begin(t, l, NoExpert, NoExpert, "auto_pick")
  /\ UNCHANGED <<owner, stage, staff, ahead, byHand>>

\* Fault: the capacity filter is skipped for everybody.
AutoPickOverCapacity(t) ==
  /\ task[t].at = "auto_pick"
  /\ \E e \in Experts :
       /\ staff[e] = "available"
       /\ task' = [task EXCEPT ![t].expert = e, ![t].at = "auto_touch"]
  /\ UNCHANGED <<owner, stage, staff, ahead, byHand>>

\* pickNextSalesExpert: the preferred expert if eligible, else the eligible
\* one who has waited longest.
AutoPick(t) ==
  /\ task[t].at = "auto_pick"
  /\ \E preferred \in Preferred : \E e \in Experts :
       /\ e \in Eligible
       /\ \/ e = preferred
          \/ /\ preferred \notin Eligible
             /\ \A d \in Eligible : <<d, e>> \notin ahead
       /\ task' = [task EXCEPT ![t].expert = e, ![t].at = "auto_touch"]
  /\ UNCHANGED <<owner, stage, staff, ahead, byHand>>

AutoPickNobody(t) ==
  /\ task[t].at = "auto_pick"
  /\ Eligible = {}
  /\ End(t)
  /\ UNCHANGED <<owner, stage, staff, ahead, byHand>>

AutoTouch(t) ==
  /\ task[t].at = "auto_touch"
  /\ Touch(task[t].expert)
  /\ Proceed(t, "auto_assign")
  /\ UNCHANGED <<owner, stage, staff, byHand>>

\* Fault: the lead is updated by id.
AutoAssignUnchecked(t) ==
  /\ task[t].at = "auto_assign"
  /\ owner' = [owner EXCEPT ![task[t].lead] = task[t].expert]
  /\ Proceed(t, "auto_announce")
  /\ UNCHANGED <<stage, staff, ahead, byHand>>

AutoAssign(t) ==
  /\ task[t].at = "auto_assign"
  /\ TakeIfUnowned(t, "auto_announce")
  /\ UNCHANGED <<stage, staff, ahead, byHand>>

\* The activity is written and, unless the caller opted out, the SMS sent.
AutoAnnounce(t) ==
  /\ task[t].at = "auto_announce"
  /\ End(t)
  /\ UNCHANGED <<owner, stage, staff, ahead, byHand>>

-----------------------------------------------------------------------------
(* claimLead and claimLeadIfUnassignedUnderCapacity *)

ClaimRead(t, e, l) ==
  /\ staff[e] = "available"
  /\ owner[l] = NoExpert
  /\ stage[l] # "closed"
  /\ Begin(t, l, e, NoExpert, "claim_count")
  /\ UNCHANGED <<owner, stage, staff, ahead, byHand>>

ClaimCount(t) ==
  LET l == task[t].lead
  IN /\ task[t].at = "claim_count"
     /\ IF owner[l] = NoExpert /\ stage[l] # "closed" /\ UnderCapacity(task[t].expert)
        THEN Proceed(t, "claim_write")
        ELSE End(t)
     /\ UNCHANGED <<owner, stage, staff, ahead, byHand>>

\* Fault: the claim trusts the assignedToId it read.
ClaimWriteUnchecked(t) ==
  /\ task[t].at = "claim_write"
  /\ owner' = [owner EXCEPT ![task[t].lead] = task[t].expert]
  /\ Proceed(t, "claim_touch")
  /\ UNCHANGED <<stage, staff, ahead, byHand>>

ClaimWrite(t) ==
  /\ task[t].at = "claim_write"
  /\ TakeIfUnowned(t, "claim_touch")
  /\ UNCHANGED <<stage, staff, ahead, byHand>>

ClaimTouch(t) ==
  /\ task[t].at = "claim_touch"
  /\ Touch(task[t].expert)
  /\ End(t)
  /\ UNCHANGED <<owner, stage, staff, byHand>>

-----------------------------------------------------------------------------
(* transferLead: owner or admin; the target must be active, may be paused *)

TransferRead(t, l, by, e) ==
  /\ by \in {owner[l], Admin} \ {NoExpert}
  /\ e # owner[l]
  /\ staff[e] # "inactive"
  /\ Begin(t, l, e, by, "transfer")
  /\ UNCHANGED <<owner, stage, staff, ahead, byHand>>

\* updateConsultationLead by id: the ownership is not looked at again.
TransferWrite(t) ==
  /\ task[t].at = "transfer"
  /\ owner' = [owner EXCEPT ![task[t].lead] = task[t].expert]
  /\ byHand' = byHand \cup {task[t].lead}
  /\ End(t)
  /\ UNCHANGED <<stage, staff, ahead>>

(* updateConsultationLeadStatus by an admin may set or clear the owner.  It *)
(* decides nothing on what it reads of the owner.                           *)
\* The new owner is any staff account, an admin's and an inactive one included.
AdminAssign(l, e) ==
  /\ owner[l] # e
  /\ owner' = [owner EXCEPT ![l] = e]
  /\ byHand' = byHand \cup {l}
  /\ UNCHANGED <<stage, staff, ahead, task>>

(* The world around: assessment hooks and experts move the lead's status,  *)
(* admins pause, deactivate and reinstate experts.                         *)
MoveLead(l) ==
  /\ \E s \in LeadStages \ {stage[l]} : stage' = [stage EXCEPT ![l] = s]
  /\ byHand' = byHand \cup {l}
  /\ UNCHANGED <<owner, staff, ahead, task>>

CloseLead(l) ==
  /\ stage[l] = "open"
  /\ stage' = [stage EXCEPT ![l] = "closed"]
  /\ UNCHANGED <<owner, staff, ahead, task, byHand>>

ChangeStaff(e) ==
  /\ \E s \in StaffStates \ {staff[e]} : staff' = [staff EXCEPT ![e] = s]
  /\ UNCHANGED <<owner, stage, ahead, task, byHand>>

-----------------------------------------------------------------------------
AutoStep(t) ==
  \/ AutoPick(t) \/ AutoPickNobody(t) \/ AutoTouch(t) \/ AutoAssign(t) \/ AutoAnnounce(t)

ClaimStep(t) == ClaimCount(t) \/ ClaimWrite(t) \/ ClaimTouch(t)

AssignmentNext ==
  \/ \E t \in Tasks, l \in Leads : AutoRead(t, l)
  \/ \E t \in Tasks : AutoStep(t) \/ ClaimStep(t) \/ TransferWrite(t)
  \/ \E t \in Tasks, e \in Experts, l \in Leads : ClaimRead(t, e, l)
  \/ \E t \in Tasks, l \in Leads, e \in Experts, by \in Experts \cup {Admin} :
       TransferRead(t, l, by, e)
  \/ \E l \in Leads, e \in Experts \cup {NoExpert, Admin} : AdminAssign(l, e)
  \/ \E l \in Leads : MoveLead(l) \/ CloseLead(l)
  \/ \E e \in Experts : ChangeStaff(e)

AssignmentSpec == AssignmentInit /\ [][AssignmentNext]_assignmentVars

-----------------------------------------------------------------------------
(* Correctness *)

\* Round-robin and claims never take a lead from an expert, however stale the
\* read they started from: only a transfer or an admin's hand does.
StaffMoved(l) ==
  \/ \E t \in Tasks : task[t].at = "transfer" /\ task[t].lead = l /\ task'[t] = Idle
  \/ task' = task
OwnedIsNotTaken ==
  [][\A l \in Leads : owner[l] # NoExpert /\ owner'[l] # owner[l] => StaffMoved(l)]_assignmentVars

\* Calls that have counted an expert's leads and may still give one more.
Reserved(e) ==
  {t \in Tasks : task[t].expert = e
                   /\ task[t].at \in {"auto_touch", "auto_assign", "claim_write"}}

\* Counting and assigning are not atomic, so the limit can be passed, but by
\* no more than the calls in flight.  Leads that people transferred, assigned
\* by hand or reopened, and tests that ended, come on top: nothing counts there.
OvershootIsBounded ==
  \A e \in Experts :
    Cardinality(Counted(e) \ byHand) + Cardinality(Reserved(e))
      <= MaxOpen - 1 + Cardinality(Tasks)

\* The call that is about to send the new-lead SMS of an automatic assignment
\* sends it to the owner, though several calls may have picked an expert.
OnlyOwnerIsTold ==
  \A t \in Tasks :
    task[t].at = "auto_announce" /\ task[t].lead \notin byHand
      => owner[task[t].lead] = task[t].expert
=============================================================================
