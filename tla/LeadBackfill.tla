----------------------------- MODULE LeadBackfill -----------------------------
(***************************************************************************)
(* The lead backfill (lead-backfill.service.ts, POST cron/lead-backfill    *)
(* and a script) for one person: it reads the newest sessions of everyone, *)
(* later the person's leads, keeps the best lead, writes the stage of that *)
(* session to it and deletes the others, while hooks and experts go on.    *)
(*                                                                         *)
(* Leads are numbered as created.  Of the statuses outside                 *)
(* ASSESSMENT_PIPELINE_STATUSES "new" is the first and "contacted" stands  *)
(* for the others.  A session is stale when it is open and nothing         *)
(* happened in it for incompleteAfterHours.  Assigning the lead at the end *)
(* is LeadAssignment's.                                                    *)
(***************************************************************************)
EXTENDS Naturals, Sequences, FiniteSets, FiniteSetsExt

CONSTANTS
  Sweeps,        \* backfill calls in flight
  MaxLeads,      \* bound: leads ever created
  MaxSessions,   \* bound: sessions of the person
  MaxSweeps,     \* bound: backfill calls ever made
  MaxTouches     \* bound: changes to the leads by anyone else

ASSUME BackfillAssumption ==
  /\ IsFiniteSet(Sweeps)
  /\ MaxLeads \in Nat /\ MaxSessions \in Nat /\ MaxSweeps \in Nat
  /\ MaxTouches \in Nat

Groups == {"all", "active", "completed", "abandoned"}
OpenSessions == {"open", "stale"}
CrmStatuses == {"new", "contacted"}

VARIABLES
  sessionRows,  \* statuses of the person's sessions, oldest first
  leadRows,     \* every lead ever created
  sweep,        \* each backfill call: next call, what it has read
  settled,      \* history: a call on all groups has just run through undisturbed
  sweepsMade,   \* history
  touches       \* history: changes to the leads by anyone else

backfillVars == <<sessionRows, leadRows, sweep, settled, sweepsMade, touches>>

\* pure and late are history: on all groups, and nothing else has touched the
\* person's rows since; the leads others have touched since they were read.
NoSweep == [at |-> "idle", stage |-> "none", view |-> {}, keeper |-> 0, others |-> {},
            pure |-> FALSE, late |-> {}]

BackfillInit ==
  /\ sessionRows = <<>>
  /\ leadRows = <<>>
  /\ sweep = [b \in Sweeps |-> NoSweep]
  /\ settled = FALSE
  /\ sweepsMade = 0
  /\ touches = 0

Existing == {l \in DOMAIN leadRows : leadRows[l].exists}
NewLead(status) == [exists |-> TRUE, status |-> status, owned |-> FALSE, activity |-> FALSE]
Gone == [NewLead("new") EXCEPT !.exists = FALSE]

\* Call x, once others have touched the leads of S.
Touched(x, S) == IF x.at \in {"bind", "delete"} THEN [x EXCEPT !.late = @ \cup S] ELSE x

\* Something else than a backfill call changes the person's rows, the leads of S
\* among them.
Disturb(S) ==
  /\ sweep' = [b \in Sweeps |-> [Touched(sweep[b], S) EXCEPT !.pure = FALSE]]
  /\ settled' = FALSE

\* Call b becomes x and touches the leads of S.
Moves(b, x, S) ==
  sweep' = [a \in Sweeps |-> IF a = b THEN x ELSE Touched(sweep[a], S)]

-----------------------------------------------------------------------------
(* backfillAssessmentLeads *)

InGroup(status, group) ==
  \/ group = "all"
  \/ group = "active" /\ status \in OpenSessions
  \/ group = status

\* Fault: a session that was left is still in progress.
StageAsLeft(status) ==
  CASE status = "completed" -> "assessment_completed"
    [] status = "abandoned" -> "assessment_incomplete"
    [] OTHER                -> "assessment_in_progress"

\* resolveBackfillLeadStatus
Stage(status) ==
  CASE status = "completed"             -> "assessment_completed"
    [] status \in {"abandoned", "stale"} -> "assessment_incomplete"
    [] status = "open"                  -> "assessment_in_progress"

\* findLatestAssessmentsPerUser: the newest session of the group.
SweepList(b) ==
  /\ sweep[b].at = "idle"
  /\ sweepsMade < MaxSweeps
  /\ sweepsMade' = sweepsMade + 1
  /\ \E group \in Groups :
       LET rows == {s \in DOMAIN sessionRows : InGroup(sessionRows[s], group)}
       IN /\ rows # {}
          /\ sweep' = [a \in Sweeps |->
               IF a # b THEN [sweep[a] EXCEPT !.pure = FALSE]
               ELSE [NoSweep EXCEPT
                       !.at = "leads", !.stage = Stage(sessionRows[Max(rows)]),
                       !.pure = group = "all" /\ \A o \in Sweeps \ {b} : sweep[o].at = "idle"]]
  /\ settled' = FALSE
  /\ UNCHANGED <<sessionRows, leadRows, touches>>

\* findConsultationRequestsByUserId
SweepRead(b) ==
  /\ sweep[b].at = "leads"
  /\ sweep' = [sweep EXCEPT ![b].view = {<<l, leadRows[l]>> : l \in Existing},
                            ![b].at = IF Existing = {} THEN "create" ELSE "bind"]
  /\ UNCHANGED <<sessionRows, leadRows, settled, sweepsMade, touches>>

\* No lead: createConsultationRequest.
SweepCreate(b) ==
  /\ sweep[b].at = "create"
  /\ Len(leadRows) < MaxLeads
  /\ leadRows' = Append(leadRows, NewLead(sweep[b].stage))
  /\ Moves(b, NoSweep, {})
  /\ settled' = sweep[b].pure
  /\ UNCHANGED <<sessionRows, sweepsMade, touches>>

Older(x, y) == x[1] < y[1]

\* Fault: the lead with the most activity, whatever its status.
BusierThan(x, y) ==
  \/ x[2].activity /\ ~y[2].activity
  \/ x[2].activity = y[2].activity /\ Older(x, y)

\* pickCanonicalLead: CRM, then owned, then activity, then older.
Points(row) == (IF row.status \in CrmStatuses THEN 4 ELSE 0)
             + (IF row.owned THEN 2 ELSE 0) + (IF row.activity THEN 1 ELSE 0)

BetterThan(x, y) ==
  \/ Points(x[2]) > Points(y[2])
  \/ Points(x[2]) = Points(y[2]) /\ Older(x, y)

Canonical(view) == CHOOSE x \in view : \A y \in view \ {x} : BetterThan(x, y)

\* updateLeadAssessmentBinding: a CRM status is written as it was read; throws
\* if the lead has been deleted meanwhile.
SweepBind(b) ==
  LET keeper == Canonical(sweep[b].view)
      k == keeper[1]
      status == IF keeper[2].status \in CrmStatuses THEN keeper[2].status ELSE sweep[b].stage
  IN /\ sweep[b].at = "bind"
     /\ IF k \in Existing
        THEN /\ leadRows' = [leadRows EXCEPT ![k].status = status]
             /\ Moves(b, [sweep[b] EXCEPT !.at = "delete", !.view = {}, !.stage = "none", !.keeper = k,
                                          !.others = {x[1] : x \in sweep[b].view} \ {k}],
                      {k})
        ELSE /\ Moves(b, NoSweep, {})
             /\ UNCHANGED leadRows
     /\ settled' = FALSE
     /\ UNCHANGED <<sessionRows, sweepsMade, touches>>

\* deleteConsultationRequestsByIds of the others it has read.
SweepDelete(b) ==
  /\ sweep[b].at = "delete"
  /\ leadRows' = [l \in DOMAIN leadRows |->
                    IF l \in sweep[b].others THEN Gone ELSE leadRows[l]]
  /\ Moves(b, NoSweep, sweep[b].others)
  /\ settled' = sweep[b].pure
  /\ UNCHANGED <<sessionRows, sweepsMade, touches>>

\* A call throws or the process stops.
SweepFails(b) ==
  /\ sweep[b].at # "idle"
  /\ Moves(b, NoSweep, {})
  /\ UNCHANGED <<sessionRows, leadRows, settled, sweepsMade, touches>>

-----------------------------------------------------------------------------
(* Everyone else *)

SessionChanges ==
  /\ \/ /\ Len(sessionRows) < MaxSessions
        /\ sessionRows' = Append(sessionRows, "open")
     \/ \E s \in DOMAIN sessionRows, status \in {"open", "stale", "completed", "abandoned"} :
          /\ sessionRows[s] # "completed"
          /\ sessionRows[s] # status
          /\ sessionRows' = [sessionRows EXCEPT ![s] = status]
  /\ Disturb({})
  /\ UNCHANGED <<leadRows, sweepsMade, touches>>

\* A hook that found no lead (LeadPipeline), or a consultation request.
LeadAppears ==
  /\ sessionRows # <<>>
  /\ Len(leadRows) < MaxLeads
  /\ \E status \in {"assessment_in_progress", "new"} : leadRows' = Append(leadRows, NewLead(status))
  /\ Disturb({})
  /\ UNCHANGED <<sessionRows, sweepsMade, touches>>

\* A claim or an assignment, or back to the team.
LeadHanded(l) ==
  /\ l \in Existing
  /\ touches < MaxTouches
  /\ leadRows' = [leadRows EXCEPT ![l].owned = ~@]
  /\ touches' = touches + 1
  /\ Disturb({l})
  /\ UNCHANGED <<sessionRows, sweepsMade>>

\* updateConsultationLeadStatus or logCall, a consultation request, or the end
\* of an assessment, with an activity.
LeadWorked(l) ==
  /\ l \in Existing
  /\ touches < MaxTouches
  /\ \E status \in CrmStatuses \cup {"assessment_completed"} :
       /\ status # leadRows[l].status
       /\ leadRows' = [leadRows EXCEPT ![l].status = status, ![l].activity = TRUE]
  /\ touches' = touches + 1
  /\ Disturb({l})
  /\ UNCHANGED <<sessionRows, sweepsMade>>

BackfillNext ==
  \/ \E b \in Sweeps :
       \/ SweepList(b) \/ SweepRead(b) \/ SweepCreate(b)
       \/ SweepBind(b) \/ SweepDelete(b) \/ SweepFails(b)
  \/ SessionChanges \/ LeadAppears
  \/ \E l \in DOMAIN leadRows : LeadHanded(l) \/ LeadWorked(l)

BackfillSpec == BackfillInit /\ [][BackfillNext]_backfillVars

-----------------------------------------------------------------------------
(* Properties *)

\* A call writes and deletes by what it read two database calls before.  A lead
\* that nobody has touched since keeps its status if it is in the CRM, and is
\* deleted only for one that ranks as high and is there: what is lost is the work
\* on leads touched in between, or on others when the lead kept was touched.
WorkIsSpared ==
  [][\A b \in Sweeps : sweep'[b].at # sweep[b].at =>
       \A l \in Existing \ sweep[b].late :
         /\ l \in Existing' /\ leadRows[l].status \in CrmStatuses =>
              leadRows'[l].status = leadRows[l].status
         /\ l \notin Existing' =>
              LET k == sweep[b].keeper
              IN k \notin sweep[b].late =>
                   k \in Existing' /\ Points(leadRows'[k]) >= Points(leadRows[l])
    ]_backfillVars

\* "One lead per person. Stage comes from that person's latest assessment":
\* true of a call on all groups that ran through undisturbed.
StageIsLatest ==
  settled =>
    /\ Cardinality(Existing) = 1
    /\ \A l \in Existing :
         LET newest == sessionRows[Len(sessionRows)]
         IN \/ leadRows[l].status \in CrmStatuses
            \/ leadRows[l].status = "assessment_in_progress" /\ newest = "open"
            \/ leadRows[l].status = "assessment_completed" /\ newest = "completed"
            \/ leadRows[l].status = "assessment_incomplete" /\ newest \in {"stale", "abandoned"}
=============================================================================
