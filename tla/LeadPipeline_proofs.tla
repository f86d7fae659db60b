--------------------------- MODULE LeadPipeline_proofs --------------------------
(***************************************************************************)
(* Proofs about LeadPipeline, for any number of sessions, leads and        *)
(* processes.                                                              *)
(*                                                                         *)
(* Every step belongs to one process (Effect): it changes that process's   *)
(* own variables, keeps every row in place, and creates a row only where   *)
(* the process had decided to before.  A process decides to create only    *)
(* when it finds no row, so no decision follows the first row.             *)
(*                                                                         *)
(* A step also says whether it takes a lead out of the CRM (Lost): only an *)
(* expert's write does, and a start hook whose note no longer holds.       *)
(***************************************************************************)
EXTENDS LeadPipeline, FiniteSetTheorems, WellFoundedInduction, TLAPS

\* Stages of a process that has found a lead.
FoundStages == {"bind", "check", "move", "attach", "read", "upgrade"}

TargetExists ==
  /\ \A p \in Hooks : pc[p] \in FoundStages => target[p] \in Existing
  /\ \A l \in Leads : pc[<<"staff", l>>] # "off" => pc[<<"staff", l>>] = "write" /\ l \in Existing

PipelineInv == PipelineTypeOK /\ TargetExists

-----------------------------------------------------------------------------
(* What a step of process p does *)

LocalTypes ==
  /\ pc' \in [Processes -> Stages]
  /\ target' \in [Processes -> Leads \cup {0}]
  /\ noted' \in [Processes -> LeadStatuses \cup {"none"}]

\* Only the variables of p change.
OwnStep(p) ==
  /\ LocalTypes
  /\ \A q \in Processes :
       q # p => pc'[q] = pc[q] /\ target'[q] = target[q] /\ noted'[q] = noted[q]

RowTypes == lead' \in [Leads -> LeadRows \cup {NoRow}]

\* The rows stay, and p decides to create one only if there is none.
RowsStay(p) ==
  /\ Existing' = Existing
  /\ pc'[p] = "create" => pc[p] = "create" \/ Existing = {}

RowIsAdded(p) ==
  /\ pc[p] = "create" /\ pc'[p] = "off"
  /\ \E l \in Leads \ Existing : Existing' = Existing \cup {l}

\* A lead goes from the CRM back to the pipeline.
Lost(l) == lead[l].status \in CrmStatuses /\ lead'[l].status \notin CrmStatuses

Effect(p) ==
  /\ OwnStep(p)
  /\ RowTypes
  /\ p \in Hooks /\ pc'[p] \in FoundStages => target'[p] \in Existing
  /\ p \in StaffUpdates /\ pc'[p] # "off" => pc'[p] = "write" /\ p[2] \in Existing
  /\ RowsStay(p) \/ RowIsAdded(p)
  /\ \A l \in Leads : Lost(l) => pc'[p] # pc[p] /\ p \in StaleStarts(l) \cup {<<"staff", l>>}

-----------------------------------------------------------------------------
LEMMA KindsDiffer ==
  /\ Hooks \subseteq Processes /\ StaffUpdates \subseteq Processes
  /\ \A p \in Hooks : p \notin StaffUpdates
  /\ \A s \in Sessions, k \in HookKinds : <<k, s>> \in Hooks
  /\ \A p \in Hooks : p[1] \in HookKinds /\ p[2] \in Sessions
  /\ \A l \in Leads : <<"staff", l>> \in StaffUpdates
  /\ \A p \in StaffUpdates : p[2] \in Leads /\ p = <<"staff", p[2]>>
BY DEF Hooks, StaffUpdates, Processes, HookKinds

LEMMA OldestLead ==
  ASSUME NEW S \in SUBSET Leads, S # {}
  PROVE  Min(S) \in S
<1>1. S \subseteq Nat
  BY PipelineAssumption DEF Leads
<1>2. PICK m \in S : \A k \in S : <<k, m>> \notin OpToRel(<, Nat)
  BY <1>1, WFMin, NatLessThanWellFounded, Zenon
<1>3. \A k \in S : ~(k < m)
  BY <1>1, <1>2, Zenon DEF OpToRel
<1>4. \A k \in S : m <= k
  BY <1>1, <1>3
<1> QED
  BY <1>4 DEF Min

LEMMA RowsAreReal ==
  ASSUME PipelineTypeOK
  PROVE  /\ \A row \in LeadRows : row # NoRow /\ row.status \in LeadStatuses
         /\ \A l \in Existing : l \in Leads /\ lead[l] \in LeadRows
         /\ Existing \subseteq Leads
         /\ \A l \in Leads \ Existing : lead[l].status = "none"
<1>1. "none" \notin LeadStatuses
  BY DEF LeadStatuses, PipelineStatuses, CrmStatuses
<1>2. \A row \in LeadRows : row # NoRow /\ row.status \in LeadStatuses
  BY <1>1 DEF LeadRows, NoRow
<1> QED
  BY <1>2 DEF PipelineTypeOK, Existing, NoRow

LEMMA SetLeadKeepsRows ==
  ASSUME PipelineTypeOK, NEW l \in Existing, NEW row \in LeadRows, SetLead(l, row)
  PROVE  /\ RowTypes
         /\ Existing' = Existing
         /\ lead' = [lead EXCEPT ![l] = row]
         /\ lead'[l] = row
BY RowsAreReal DEF SetLead, PipelineTypeOK, RowTypes, Existing

LEMMA FinishOwn ==
  ASSUME PipelineTypeOK, NEW p \in Processes, Finish(p)
  PROVE  OwnStep(p) /\ pc'[p] = "off"
BY DEF Finish, Goto, PipelineTypeOK, OwnStep, LocalTypes, Stages

LEMMA ContinueOwn ==
  ASSUME PipelineTypeOK, NEW p \in Processes, NEW stage \in Stages, Continue(p, stage)
  PROVE  /\ OwnStep(p) /\ pc'[p] = stage
         /\ target'[p] = target[p] /\ noted'[p] = noted[p]
BY DEF Continue, Goto, PipelineTypeOK, OwnStep, LocalTypes

LEMMA FoundOwn ==
  ASSUME PipelineTypeOK, NEW p \in Hooks, NEW l \in Existing, Found(p, l)
  PROVE  /\ OwnStep(p) /\ pc'[p] \in {"bind", "read"}
         /\ target'[p] = l
<1>1. l \in Leads /\ lead[l].status \in LeadStatuses /\ p \in Processes
  BY RowsAreReal, KindsDiffer
<1>2. {"bind", "read"} \subseteq Stages
  BY DEF Stages
<1>3. /\ target' = [target EXCEPT ![p] = l]
      /\ noted' = IF p[1] = "start" THEN [noted EXCEPT ![p] = lead[l].status] ELSE noted
      /\ pc' = [pc EXCEPT ![p] = IF p[1] = "consult" THEN "read" ELSE "bind"]
  BY DEF Found, Goto
<1> QED
  BY <1>1, <1>2, <1>3 DEF PipelineTypeOK, OwnStep, LocalTypes

LEMMA SpawnEffect ==
  ASSUME PipelineInv, NEW p \in Hooks, Spawn(p), UNCHANGED lead
  PROVE  Effect(p)
<1>1. OwnStep(p) /\ pc'[p] = "find"
  <2>1. p \in Processes /\ "find" \in Stages
    BY KindsDiffer DEF Stages
  <2> QED
    BY <2>1, ContinueOwn DEF Spawn, PipelineInv
<1>2. RowTypes /\ Existing' = Existing /\ \A l \in Leads : ~Lost(l)
  BY DEF PipelineInv, PipelineTypeOK, RowTypes, Existing, Lost
<1> QED
  BY <1>1, <1>2, KindsDiffer DEF Effect, RowsStay, FoundStages

\* A step of p that reads, decides or ends, without touching a row.
LEMMA ReadingEffect ==
  ASSUME PipelineInv, NEW p \in Processes, OwnStep(p), UNCHANGED lead,
         p \in Hooks /\ pc'[p] \in FoundStages => target'[p] \in Existing,
         p \in StaffUpdates /\ pc'[p] # "off" => pc'[p] = "write" /\ p[2] \in Existing,
         pc'[p] = "create" => Existing = {}
  PROVE  Effect(p)
<1>1. RowTypes /\ Existing' = Existing /\ \A l \in Leads : ~Lost(l)
  BY DEF PipelineInv, PipelineTypeOK, RowTypes, Existing, Lost
<1> QED
  BY <1>1 DEF Effect, RowsStay

\* A step of a hook that writes the lead it found, and goes on or ends.
LEMMA WritingEffect ==
  ASSUME PipelineInv, NEW p \in Hooks, OwnStep(p), pc[p] \in FoundStages,
         NEW row \in LeadRows, SetLead(target[p], row),
         pc'[p] = "off" \/ (pc'[p] \in {"check", "attach"} /\ target'[p] = target[p]),
         lead[target[p]].status \in CrmStatuses
           => row.status \in CrmStatuses \/ p \in StaleStarts(target[p])
  PROVE  Effect(p)
<1>1. target[p] \in Existing /\ p \notin StaffUpdates
  BY KindsDiffer DEF PipelineInv, TargetExists, FoundStages
<1>2. RowTypes /\ Existing' = Existing /\ lead' = [lead EXCEPT ![target[p]] = row]
  BY <1>1, SetLeadKeepsRows DEF PipelineInv
<1>3. ASSUME NEW l \in Leads, Lost(l)
      PROVE  pc'[p] # pc[p] /\ p \in StaleStarts(l)
  <2>1. l = target[p] /\ row.status \notin CrmStatuses
    BY <1>1, <1>2, <1>3, RowsAreReal DEF Lost, PipelineInv, PipelineTypeOK
  <2> QED
    BY <1>3, <2>1 DEF Lost, StaleStarts
<1>4. RowsStay(p)
  BY <1>2 DEF RowsStay
<1>5. pc'[p] \in FoundStages => target'[p] \in Existing
  BY <1>1 DEF FoundStages
<1> QED
  BY <1>1, <1>2, <1>3, <1>4, <1>5 DEF Effect

LEMMA EndEffect ==
  ASSUME PipelineInv, NEW p \in Processes, Finish(p), UNCHANGED lead
  PROVE  Effect(p)
<1>1. OwnStep(p) /\ pc'[p] = "off"
  BY FinishOwn DEF PipelineInv
<1> QED
  BY <1>1, ReadingEffect DEF FoundStages

\* A step to a stage in which no lead is written by what was noted.
LEMMA ContinueEffect ==
  ASSUME PipelineInv, NEW p \in Hooks, NEW stage \in {"find_user", "create", "move", "attach"},
         Continue(p, stage), UNCHANGED lead,
         stage = "create" => Existing = {},
         stage \in {"move", "attach"} => pc[p] \in FoundStages
  PROVE  Effect(p)
<1>1. stage \in Stages /\ p \in Processes /\ p \notin StaffUpdates
  BY KindsDiffer DEF Stages
<1>2. OwnStep(p) /\ pc'[p] = stage /\ target'[p] = target[p]
  BY <1>1, ContinueOwn DEF PipelineInv
<1>3. pc'[p] \in FoundStages => target'[p] \in Existing
  BY <1>2 DEF FoundStages, PipelineInv, TargetExists
<1> QED
  BY <1>1, <1>2, <1>3, ReadingEffect

LEMMA FoundEffect ==
  ASSUME PipelineInv, NEW p \in Hooks, NEW l \in Existing, Found(p, l), UNCHANGED lead
  PROVE  Effect(p)
<1>1. OwnStep(p) /\ pc'[p] \in {"bind", "read"} /\ target'[p] = l
  BY FoundOwn DEF PipelineInv
<1> QED
  BY <1>1, KindsDiffer, ReadingEffect

-----------------------------------------------------------------------------
(* The actions *)

LEMMA FindEffect ==
  ASSUME PipelineInv, NEW p \in Hooks, FindBySession(p) \/ FindByUser(p)
  PROVE  Effect(p)
<1>1. CASE FindBySession(p)
  <2> DEFINE matching == {l \in Existing : lead[l].session = p[2]}
  <2>1. UNCHANGED lead
    BY <1>1 DEF FindBySession
  <2>2. CASE matching # {}
    <3>1. matching \in SUBSET Leads
      BY DEF Existing
    <3>2. Min(matching) \in Existing
      BY <2>2, <3>1, OldestLead
    <3>3. Found(p, Min(matching))
      BY <1>1, <2>2 DEF FindBySession
    <3> QED
      BY <2>1, <3>2, <3>3, FoundEffect
  <2>3. CASE matching = {}
    <3>1. Continue(p, "find_user")
      BY <1>1, <2>3 DEF FindBySession
    <3> QED
      BY <2>1, <3>1, ContinueEffect
  <2> QED
    BY <2>2, <2>3
<1>2. CASE FindByUser(p)
  <2>1. UNCHANGED lead
    BY <1>2 DEF FindByUser
  <2>2. CASE Existing # {}
    <3>1. Existing \in SUBSET Leads
      BY DEF Existing
    <3>2. Min(Existing) \in Existing /\ Found(p, Min(Existing))
      BY <1>2, <2>2, <3>1, OldestLead DEF FindByUser
    <3> QED
      BY <2>1, <3>2, FoundEffect
  <2>3. CASE Existing = {}
    <3>1. Finish(p) \/ Continue(p, "create")
      BY <1>2, <2>3 DEF FindByUser, NothingFound
    <3> QED
      BY <2>1, <2>3, <3>1, EndEffect, ContinueEffect, KindsDiffer
  <2> QED
    BY <2>2, <2>3
<1> QED
  BY <1>1, <1>2

LEMMA CreateLeadEffect ==
  ASSUME PipelineInv, NEW p \in Hooks, CreateLead(p)
  PROVE  Effect(p)
<1> DEFINE row == [status  |-> CASE p[1] = "start" -> "assessment_in_progress"
                                 [] p[1] = "complete" -> "assessment_completed"
                                 [] OTHER -> "new",
                   session |-> p[2],
                   report  |-> p[1] = "complete"]
<1>1. row \in LeadRows /\ p \in Processes
  <2>1. {"assessment_in_progress", "assessment_completed", "new"} \subseteq LeadStatuses
    BY DEF LeadStatuses, PipelineStatuses, CrmStatuses
  <2>2. p[2] \in Sessions /\ (p[1] = "complete") \in BOOLEAN
    BY KindsDiffer
  <2> QED
    BY <2>1, <2>2, KindsDiffer DEF LeadRows
<1>2. PICK l \in Leads \ Existing : SetLead(l, row)
  BY DEF CreateLead
<1>3. OwnStep(p) /\ pc'[p] = "off" /\ pc[p] = "create"
  BY <1>1, FinishOwn DEF CreateLead, PipelineInv
<1>4. lead' = [lead EXCEPT ![l] = row] /\ lead \in [Leads -> LeadRows \cup {NoRow}]
  BY <1>2 DEF SetLead, PipelineInv, PipelineTypeOK
<1>5. row # NoRow /\ lead[l].status = "none"
  BY <1>1, <1>2, RowsAreReal DEF PipelineInv
<1> HIDE DEF row
<1>6. RowTypes /\ Existing' = Existing \cup {l}
  BY <1>1, <1>2, <1>4, <1>5 DEF RowTypes, Existing
<1>7. \A k \in Leads : ~Lost(k)
  BY <1>2, <1>4, <1>5 DEF Lost, CrmStatuses
<1> QED
  BY <1>2, <1>3, <1>6, <1>7, KindsDiffer DEF Effect, RowIsAdded, FoundStages

LEMMA BindEffect ==
  ASSUME PipelineInv, NEW p \in Hooks, BindOnStart(p) \/ BindAndCheck(p)
  PROVE  Effect(p)
<1>1. pc[p] = "bind" /\ target[p] \in Existing /\ p[2] \in Sessions /\ p \in Processes
  BY KindsDiffer DEF BindOnStart, BindAndCheck, PipelineInv, TargetExists, FoundStages
<1>2. lead[target[p]] \in LeadRows /\ pc[p] \in FoundStages
  BY <1>1, RowsAreReal DEF PipelineInv, FoundStages
<1> DEFINE bound == [lead[target[p]] EXCEPT !.session = p[2]]
<1>3. CASE BindOnStart(p)
  <2> DEFINE row == IF noted[p] \in PipelineStatuses
                    THEN [bound EXCEPT !.status = "assessment_in_progress"]
                    ELSE bound
  <2>1. row \in LeadRows
    BY <1>1, <1>2 DEF LeadRows, LeadStatuses, PipelineStatuses
  <2>2. SetLead(target[p], row) /\ p[1] = "start"
    BY <1>3 DEF BindOnStart
  <2>3. OwnStep(p) /\ pc'[p] = "off"
    BY <1>1, <1>3, FinishOwn DEF BindOnStart, PipelineInv
  <2>4. lead[target[p]].status \in CrmStatuses
          => row.status \in CrmStatuses \/ p \in StaleStarts(target[p])
    BY <1>1, <1>2, <2>2 DEF StaleStarts, LeadRows, PipelineStatuses, CrmStatuses
  <2> HIDE DEF row
  <2> QED
    BY <1>2, <2>1, <2>2, <2>3, <2>4, WritingEffect
<1>4. CASE BindAndCheck(p)
  <2> DEFINE row == IF p[1] = "complete" THEN [bound EXCEPT !.report = TRUE] ELSE bound
  <2>1. row \in LeadRows /\ row.status = lead[target[p]].status
    BY <1>1, <1>2 DEF LeadRows
  <2>2. SetLead(target[p], row) /\ Continue(p, "check")
    BY <1>4 DEF BindAndCheck
  <2>3. OwnStep(p) /\ pc'[p] = "check" /\ target'[p] = target[p]
    BY <1>1, <2>2, ContinueOwn DEF PipelineInv, Stages
  <2> HIDE DEF row
  <2> QED
    BY <1>2, <2>1, <2>2, <2>3, WritingEffect
<1> QED
  BY <1>3, <1>4

LEMMA TransitionEffect ==
  ASSUME PipelineInv, NEW p \in Hooks,
         CheckStatus(p) \/ MoveStatus(p) \/ AttachReportIfMissing(p)
  PROVE  Effect(p)
<1>1. /\ pc[p] \in {"check", "move", "attach"} /\ pc[p] \in FoundStages
      /\ target[p] \in Existing /\ p \in Processes
  BY KindsDiffer DEF CheckStatus, MoveStatus, AttachReportIfMissing, PipelineInv,
     TargetExists, FoundStages
<1>2. lead[target[p]] \in LeadRows
  BY <1>1, RowsAreReal DEF PipelineInv
<1>3. ASSUME NotMoved(p), UNCHANGED lead
      PROVE  Effect(p)
  BY <1>1, <1>3, EndEffect, ContinueEffect DEF NotMoved
<1>4. CASE CheckStatus(p)
  <2>1. UNCHANGED lead /\ (Continue(p, "move") \/ NotMoved(p))
    BY <1>4 DEF CheckStatus
  <2> QED
    BY <1>1, <1>3, <2>1, ContinueEffect
<1>5. CASE MoveStatus(p)
  <2> DEFINE moved == [lead[target[p]] EXCEPT !.status = ToStatus(p)]
             row == IF p[1] = "complete" THEN [moved EXCEPT !.report = TRUE] ELSE moved
  <2>1. CASE lead[target[p]].status \in FromStatuses(p)
    <3>1. SetLead(target[p], row) /\ Finish(p)
      BY <1>5, <2>1 DEF MoveStatus
    <3>2. row \in LeadRows
      BY <1>2 DEF LeadRows, ToStatus, LeadStatuses, PipelineStatuses
    <3>3. lead[target[p]].status \notin CrmStatuses
      BY <2>1 DEF FromStatuses, OpenForComplete, CrmStatuses
    <3>4. OwnStep(p) /\ pc'[p] = "off"
      BY <1>1, <3>1, FinishOwn DEF PipelineInv
    <3> HIDE DEF row
    <3> QED
      BY <1>1, <3>1, <3>2, <3>3, <3>4, WritingEffect
  <2>2. CASE lead[target[p]].status \notin FromStatuses(p)
    <3>1. NotMoved(p) /\ UNCHANGED lead
      BY <1>5, <2>2 DEF MoveStatus
    <3> QED
      BY <1>3, <3>1
  <2> QED
    BY <2>1, <2>2
<1>6. CASE AttachReportIfMissing(p)
  <2> DEFINE row == [lead[target[p]] EXCEPT !.report = TRUE]
  <2>1. row \in LeadRows /\ row.status = lead[target[p]].status
    BY <1>2 DEF LeadRows
  <2>2. SetLead(target[p], row) /\ Finish(p)
    BY <1>6 DEF AttachReportIfMissing
  <2>3. OwnStep(p) /\ pc'[p] = "off"
    BY <1>1, <2>2, FinishOwn DEF PipelineInv
  <2> HIDE DEF row
  <2> QED
    BY <1>1, <2>1, <2>2, <2>3, WritingEffect
<1> QED
  BY <1>4, <1>5, <1>6

LEMMA UpgradeEffect ==
  ASSUME PipelineInv, NEW p \in Hooks, ReadForUpgrade(p) \/ Upgrade(p)
  PROVE  Effect(p)
<1>1. /\ pc[p] \in {"read", "upgrade"} /\ pc[p] \in FoundStages
      /\ target[p] \in Existing /\ p \in Processes /\ p \notin StaffUpdates
  BY KindsDiffer DEF ReadForUpgrade, Upgrade, PipelineInv, TargetExists, FoundStages
<1>2. lead[target[p]] \in LeadRows /\ lead[target[p]].status \in LeadStatuses
  BY <1>1, RowsAreReal DEF PipelineInv
<1>3. CASE ReadForUpgrade(p)
  <2>1. /\ pc' = [pc EXCEPT ![p] = "upgrade"] /\ UNCHANGED <<lead, target>>
        /\ noted' = [noted EXCEPT ![p] = lead[target[p]].status]
    BY <1>3 DEF ReadForUpgrade, Goto
  <2>2. OwnStep(p) /\ pc'[p] = "upgrade" /\ target'[p] = target[p]
    BY <1>1, <1>2, <2>1 DEF PipelineInv, PipelineTypeOK, OwnStep, LocalTypes, Stages
  <2> QED
    BY <1>1, <2>1, <2>2, ReadingEffect
<1>4. CASE Upgrade(p)
  <2> DEFINE row == IF noted[p] \in PipelineStatuses
                    THEN [lead[target[p]] EXCEPT !.status = "new"]
                    ELSE lead[target[p]]
  <2>1. /\ row \in LeadRows
        /\ lead[target[p]].status \in CrmStatuses => row.status \in CrmStatuses
    BY <1>2 DEF LeadRows, LeadStatuses, CrmStatuses
  <2>2. SetLead(target[p], row) /\ Finish(p)
    BY <1>4 DEF Upgrade
  <2>3. OwnStep(p) /\ pc'[p] = "off"
    BY <1>1, <2>2, FinishOwn DEF PipelineInv
  <2> HIDE DEF row
  <2> QED
    BY <1>1, <2>1, <2>2, <2>3, WritingEffect
<1> QED
  BY <1>3, <1>4

LEMMA StaffEffect ==
  ASSUME PipelineInv, NEW l \in Leads, StaffRead(l) \/ StaffWrite(l)
  PROVE  Effect(<<"staff", l>>)
<1> DEFINE p == <<"staff", l>>
<1>1. p \in Processes /\ p \in StaffUpdates /\ p \notin Hooks /\ p[2] = l
  BY KindsDiffer
<1>2. CASE StaffRead(l)
  <2>1. /\ pc' = [pc EXCEPT ![p] = "write"] /\ UNCHANGED <<lead, target>>
        /\ noted' = [noted EXCEPT ![p] = lead[l].status]
        /\ l \in Existing
    BY <1>2 DEF StaffRead, Goto
  <2>2. OwnStep(p) /\ pc'[p] = "write"
    BY <1>1, <2>1, RowsAreReal DEF PipelineInv, PipelineTypeOK, OwnStep, LocalTypes, Stages
  <2> QED
    BY <1>1, <2>1, <2>2, ReadingEffect
<1>3. CASE StaffWrite(l)
  <2>1. pc[p] = "write" /\ Finish(p)
    BY <1>3 DEF StaffWrite
  <2>2. PICK to \in LeadStatuses : SetLead(l, [lead[l] EXCEPT !.status = to])
    BY <1>3 DEF StaffWrite
  <2>3. l \in Existing /\ lead[l] \in LeadRows
    BY <2>1, RowsAreReal DEF PipelineInv, TargetExists
  <2> DEFINE row == [lead[l] EXCEPT !.status = to]
  <2>4. row \in LeadRows
    BY <2>3 DEF LeadRows
  <2>5. RowTypes /\ Existing' = Existing /\ \A k \in Leads : k # l => lead'[k] = lead[k]
    BY <2>2, <2>3, <2>4, SetLeadKeepsRows DEF PipelineInv, PipelineTypeOK
  <2>6. OwnStep(p) /\ pc'[p] = "off"
    BY <1>1, <2>1, FinishOwn DEF PipelineInv
  <2>7. \A k \in Leads : Lost(k) => p = <<"staff", k>>
    BY <2>5 DEF Lost
  <2>8. Effect(p)
    <3> HIDE DEF p
    <3> QED
      BY <1>1, <2>1, <2>5, <2>6, <2>7 DEF Effect, RowsStay
  <2> QED
    BY <2>8
<1> QED
  BY <1>2, <1>3

\* Every step is the effect of one process, or changes only sessions.
LEMMA StepHasEffect ==
  ASSUME PipelineInv, [PipelineNext]_pipelineVars
  PROVE  \/ \E p \in Processes : Effect(p)
         \/ UNCHANGED <<lead, pc, target, noted>>
<1>1. CASE UNCHANGED pipelineVars
  BY <1>1 DEF pipelineVars
<1>2. ASSUME NEW s \in Sessions,
             \/ StartSession(s) \/ CompleteSession(s) \/ AbandonSession(s)
             \/ StaleCron(s) \/ SubmitConsultation(s)
      PROVE  \/ \E p \in Processes : Effect(p)
             \/ UNCHANGED <<lead, pc, target, noted>>
  <2>1. \/ UNCHANGED <<lead, pc, target, noted>>
        \/ \E k \in HookKinds : Spawn(<<k, s>>) /\ UNCHANGED lead
    BY <1>2 DEF StartSession, CompleteSession, AbandonSession, StaleCron,
       SubmitConsultation, HookKinds
  <2> QED
    BY <2>1, SpawnEffect, KindsDiffer
<1>3. ASSUME NEW p \in Hooks, HookStep(p)
      PROVE  Effect(p)
  BY <1>3, FindEffect, CreateLeadEffect, BindEffect, TransitionEffect, UpgradeEffect
  DEF HookStep
<1>4. ASSUME NEW l \in Leads, StaffRead(l) \/ StaffWrite(l)
      PROVE  \E p \in Processes : Effect(p)
  BY <1>4, StaffEffect, KindsDiffer
<1>5. ASSUME NEW p \in Processes, Die(p)
      PROVE  Effect(p)
  BY <1>5, EndEffect DEF Die
<1> QED
  BY <1>1, <1>2, <1>3, <1>4, <1>5, KindsDiffer DEF PipelineNext

LEMMA SessionTypeStep ==
  ASSUME PipelineInv, [PipelineNext]_pipelineVars
  PROVE  session' \in [Sessions -> SessionStatuses]
<1>1. /\ session \in [Sessions -> SessionStatuses]
      /\ {"in_progress", "completed", "abandoned"} \subseteq SessionStatuses
  BY DEF PipelineInv, PipelineTypeOK, SessionStatuses
<1>2. CASE UNCHANGED session
  BY <1>1, <1>2
<1>3. ASSUME NEW s \in Sessions, StartSession(s) \/ CompleteSession(s) \/ AbandonSession(s)
      PROVE  \E status \in {"in_progress", "completed", "abandoned"} :
               session' = [session EXCEPT ![s] = status]
  BY <1>3 DEF StartSession, CompleteSession, AbandonSession
<1>4. ASSUME NEW p \in Processes, Die(p)
      PROVE  UNCHANGED session
  BY <1>4 DEF Die
<1>5. ASSUME NEW p \in Hooks, HookStep(p)
      PROVE  UNCHANGED session
  BY <1>5 DEF HookStep, FindBySession, FindByUser, CreateLead, BindOnStart, BindAndCheck,
     CheckStatus, MoveStatus, AttachReportIfMissing, ReadForUpgrade, Upgrade
<1>6. ASSUME NEW l \in Leads, StaffRead(l) \/ StaffWrite(l)
      PROVE  UNCHANGED session
  BY <1>6 DEF StaffRead, StaffWrite
<1>7. ASSUME NEW s \in Sessions, StaleCron(s) \/ SubmitConsultation(s)
      PROVE  UNCHANGED session
  BY <1>7 DEF StaleCron, SubmitConsultation
<1>8. CASE UNCHANGED pipelineVars
  BY <1>2, <1>8 DEF pipelineVars
<1> QED
  BY <1>1, <1>2, <1>3, <1>4, <1>5, <1>6, <1>7, <1>8 DEF PipelineNext

-----------------------------------------------------------------------------
(* The invariant *)

LEMMA EffectKeepsTargets ==
  ASSUME PipelineInv, NEW p \in Processes, Effect(p)
  PROVE  TargetExists'
<1>1. Existing \subseteq Existing'
  BY DEF Effect, RowsStay, RowIsAdded
<1>2. ASSUME NEW q \in Hooks, pc'[q] \in FoundStages
      PROVE  target'[q] \in Existing'
  BY <1>1, <1>2, KindsDiffer DEF Effect, OwnStep, PipelineInv, TargetExists
<1>3. ASSUME NEW l \in Leads, pc'[<<"staff", l>>] # "off"
      PROVE  pc'[<<"staff", l>>] = "write" /\ l \in Existing'
  <2>1. <<"staff", l>> \in StaffUpdates /\ <<"staff", l>> \in Processes /\ <<"staff", l>>[2] = l
    BY KindsDiffer
  <2> QED
    BY <1>1, <1>3, <2>1 DEF Effect, OwnStep, PipelineInv, TargetExists
<1> QED
  BY <1>2, <1>3 DEF TargetExists

LEMMA PipelineInvStep ==
  ASSUME PipelineInv, [PipelineNext]_pipelineVars
  PROVE  PipelineInv'
<1>1. session' \in [Sessions -> SessionStatuses]
  BY SessionTypeStep
<1>2. ASSUME NEW p \in Processes, Effect(p)
      PROVE  PipelineInv'
  BY <1>1, <1>2, EffectKeepsTargets
  DEF Effect, OwnStep, LocalTypes, RowTypes, PipelineInv, PipelineTypeOK
<1>3. CASE UNCHANGED <<lead, pc, target, noted>>
  BY <1>1, <1>3 DEF PipelineInv, PipelineTypeOK, TargetExists, Existing
<1> QED
  BY <1>2, <1>3, StepHasEffect

LEMMA PipelineInitInv ==
  ASSUME PipelineInit
  PROVE  PipelineInv
<1>1. PipelineTypeOK
  BY PipelineAssumption DEF PipelineInit, PipelineTypeOK, SessionStatuses, Stages
<1>2. TargetExists
  BY KindsDiffer DEF PipelineInit, TargetExists, FoundStages
<1> QED
  BY <1>1, <1>2 DEF PipelineInv

\* The invariant that the theorems rest on: the variables have their types, and
\* a process that has found a lead has found one that is there.
THEOREM PipelineInvariance == PipelineSpec => []PipelineInv
<1>1. PipelineInit => PipelineInv
  BY PipelineInitInv
<1>2. PipelineInv /\ [PipelineNext]_pipelineVars => PipelineInv'
  BY PipelineInvStep
<1> QED
  BY <1>1, <1>2, PTL DEF PipelineSpec

\* The rows of ConsultationRequest, the sessions and the calls in flight keep
\* their types.
THEOREM PipelineTypeCorrect == PipelineSpec => []PipelineTypeOK
<1>1. PipelineInv => PipelineTypeOK
  BY DEF PipelineInv
<1> QED
  BY <1>1, PipelineInvariance, PTL

-----------------------------------------------------------------------------
(* Duplicates *)

LEMMA LeadsAndHooksAreFinite ==
  /\ IsFiniteSet(Leads) /\ IsFiniteSet(Hooks) /\ IsFiniteSet(Processes)
<1>1. MaxLeads \in Nat /\ IsFiniteSet(Sessions)
  BY PipelineAssumption
<1>2. IsFiniteSet(Leads)
  BY <1>1, FS_Interval DEF Leads
<1>3. IsFiniteSet({"start", "complete", "abandon", "stale", "consult"})
  <2>1. \A S, x : IsFiniteSet(S) => IsFiniteSet(S \cup {x})
    BY FS_AddElement
  <2>2. IsFiniteSet({} \cup {"start"} \cup {"complete"} \cup {"abandon"} \cup {"stale"}
                    \cup {"consult"})
    BY <2>1, FS_EmptySet
  <2>3. {} \cup {"start"} \cup {"complete"} \cup {"abandon"} \cup {"stale"} \cup {"consult"}
          = {"start", "complete", "abandon", "stale", "consult"}
    OBVIOUS
  <2> QED
    BY <2>2, <2>3
<1>4. IsFiniteSet(Hooks)
  BY <1>1, <1>3, FS_Product DEF Hooks, HookKinds
<1>5. IsFiniteSet(StaffUpdates)
  BY <1>2, FS_Product, FS_Singleton DEF StaffUpdates
<1> QED
  BY <1>2, <1>4, <1>5, FS_Union DEF Processes

LEMMA CreatorsAndRows ==
  ASSUME PipelineInv, NEW p \in Processes, Effect(p), Existing # {}
  PROVE  Cardinality(Existing') + Cardinality(Creators') <= Cardinality(Existing) + Cardinality(Creators)
<1>1. IsFiniteSet(Existing) /\ IsFiniteSet(Creators)
  BY LeadsAndHooksAreFinite, FS_Subset DEF Existing, Creators
<1>2. /\ Cardinality(Existing) \in Nat /\ Cardinality(Creators) \in Nat
  BY <1>1, FS_CardinalityType
<1>3. CASE RowsStay(p)
  <2>1. Creators' \subseteq Creators
    BY <1>3, KindsDiffer DEF RowsStay, Effect, OwnStep, Creators
  <2>2. Cardinality(Creators') <= Cardinality(Creators) /\ Cardinality(Creators') \in Nat
    BY <1>1, <2>1, FS_Subset, FS_CardinalityType
  <2> QED
    BY <1>2, <1>3, <2>2 DEF RowsStay
<1>4. CASE RowIsAdded(p)
  <2>1. PICK l \in Leads \ Existing : Existing' = Existing \cup {l}
    BY <1>4 DEF RowIsAdded
  <2>2. Cardinality(Existing') = Cardinality(Existing) + 1
    BY <1>1, <2>1, FS_AddElement
  <2>3. p \in Hooks
    <3>1. p \in Hooks \/ p \in StaffUpdates
      BY DEF Processes
    <3> QED
      BY <1>4, <3>1, KindsDiffer DEF RowIsAdded, PipelineInv, TargetExists
  <2>4. p \in Creators /\ Creators' \subseteq Creators \ {p}
    BY <1>4, <2>3, KindsDiffer DEF RowIsAdded, Effect, OwnStep, Creators
  <2>5. Cardinality(Creators \ {p}) = Cardinality(Creators) - 1 /\ IsFiniteSet(Creators \ {p})
    BY <1>1, <2>4, FS_RemoveElement
  <2>6. Cardinality(Creators') <= Cardinality(Creators) - 1 /\ Cardinality(Creators') \in Nat
    BY <2>4, <2>5, FS_Subset, FS_CardinalityType
  <2> QED
    BY <1>2, <2>2, <2>6
<1> QED
  BY <1>3, <1>4 DEF Effect

\* Once the person has a lead, rows and decisions to create one never increase
\* together: every duplicate comes from a lookup made before the first row.
THEOREM LateDuplicatesAreNone == PipelineSpec => NoLateDuplicate
<1>1. PipelineInv /\ [PipelineNext]_pipelineVars
        => [Existing # {} => Cardinality(Existing') + Cardinality(Creators')
                               <= Cardinality(Existing) + Cardinality(Creators)]_pipelineVars
  <2> SUFFICES ASSUME PipelineInv, [PipelineNext]_pipelineVars, Existing # {}
               PROVE  Cardinality(Existing') + Cardinality(Creators')
                        <= Cardinality(Existing) + Cardinality(Creators)
    OBVIOUS
  <2>1. ASSUME UNCHANGED <<lead, pc, target, noted>>
        PROVE  Existing' = Existing /\ Creators' = Creators
    BY <2>1 DEF Existing, Creators
  <2>2. Cardinality(Existing) \in Nat /\ Cardinality(Creators) \in Nat
    BY LeadsAndHooksAreFinite, FS_Subset, FS_CardinalityType DEF Existing, Creators
  <2>3. CASE UNCHANGED <<lead, pc, target, noted>>
    BY <2>1, <2>2, <2>3
  <2> QED
    BY <2>3, StepHasEffect, CreatorsAndRows
<1> QED
  BY <1>1, PipelineInvariance, PTL DEF PipelineSpec, NoLateDuplicate

-----------------------------------------------------------------------------
(* The way back out of the CRM *)

\* Comment of createLeadOnAssessmentStart, CRM statuses must not regress: with
\* any number of overlapping calls, only its expert's update takes a lead from
\* the CRM back to the pipeline, or a start hook that acts on a status the lead
\* has lost since the lookup.
THEOREM OnlyStaleStartsRegress == PipelineSpec => OnlyStaleStartRegresses
<1>1. PipelineInv /\ [PipelineNext]_pipelineVars
        => [\A l \in Leads :
              lead[l].status \in CrmStatuses /\ lead'[l].status \notin CrmStatuses
                => \E p \in StaleStarts(l) \cup {<<"staff", l>>} : pc'[p] # pc[p]]_pipelineVars
  <2> SUFFICES ASSUME PipelineInv, [PipelineNext]_pipelineVars, NEW l \in Leads, Lost(l)
               PROVE  \E p \in StaleStarts(l) \cup {<<"staff", l>>} : pc'[p] # pc[p]
    BY DEF Lost
  <2>1. CASE UNCHANGED <<lead, pc, target, noted>>
    BY <2>1 DEF Lost
  <2>2. ASSUME NEW p \in Processes, Effect(p)
        PROVE  pc'[p] # pc[p] /\ p \in StaleStarts(l) \cup {<<"staff", l>>}
    BY <2>2 DEF Effect
  <2> QED
    BY <2>1, <2>2, StepHasEffect
<1> QED
  BY <1>1, PipelineInvariance, PTL DEF PipelineSpec, OnlyStaleStartRegresses

-----------------------------------------------------------------------------
(* The completed hook *)

\* Whatever ends a completed hook has written the report, or found no lead.
LEMMA CompletedHookReports ==
  ASSUME PipelineInv, NEW p \in Hooks, p[1] = "complete", HookStep(p), pc'[p] = "off"
  PROVE  \/ pc[p] = "find_user" /\ Existing = {}
         \/ \E l \in Existing' : lead'[l].report
<1>1. p \in Processes /\ pc \in [Processes -> Stages]
  BY KindsDiffer DEF PipelineInv, PipelineTypeOK
<1>2. ~BindOnStart(p) /\ ~Upgrade(p)
  BY DEF BindOnStart, Upgrade
<1>3. ~(FindBySession(p) \/ BindAndCheck(p) \/ ReadForUpgrade(p) \/ CheckStatus(p))
  BY <1>1 DEF FindBySession, BindAndCheck, ReadForUpgrade, CheckStatus, Found, NotMoved,
     Continue, Goto
<1>4. CASE FindByUser(p)
  BY <1>1, <1>4 DEF FindByUser, Found, Goto
<1>5. CASE CreateLead(p)
  <2>1. PICK l \in Leads \ Existing :
          lead' = [lead EXCEPT ![l] = [status  |-> "assessment_completed",
                                       session |-> p[2],
                                       report  |-> TRUE]]
    BY <1>5 DEF CreateLead, SetLead
  <2>2. lead'[l].report /\ lead'[l].status = "assessment_completed"
    BY <2>1 DEF PipelineInv, PipelineTypeOK
  <2> QED
    BY <2>2 DEF Existing, NoRow
<1>6. ASSUME NEW row \in LeadRows, row.report, target[p] \in Existing, SetLead(target[p], row)
      PROVE  \E l \in Existing' : lead'[l].report
  BY <1>6, SetLeadKeepsRows DEF PipelineInv
<1>7. ASSUME MoveStatus(p) \/ AttachReportIfMissing(p)
      PROVE  target[p] \in Existing /\ lead[target[p]] \in LeadRows
  BY <1>7, RowsAreReal DEF MoveStatus, AttachReportIfMissing, PipelineInv, TargetExists, FoundStages
<1>8. CASE MoveStatus(p)
  <2> DEFINE row == [[lead[target[p]] EXCEPT !.status = "assessment_completed"]
                       EXCEPT !.report = TRUE]
  <2>1. row \in LeadRows /\ row.report
    BY <1>7, <1>8 DEF LeadRows, LeadStatuses, PipelineStatuses
  <2>2. SetLead(target[p], row)
    BY <1>1, <1>8 DEF MoveStatus, NotMoved, Continue, Goto, ToStatus
  <2> HIDE DEF row
  <2> QED
    BY <1>6, <1>7, <1>8, <2>1, <2>2
<1>9. CASE AttachReportIfMissing(p)
  <2> DEFINE row == [lead[target[p]] EXCEPT !.report = TRUE]
  <2>1. row \in LeadRows /\ row.report
    BY <1>7, <1>9 DEF LeadRows
  <2>2. SetLead(target[p], row)
    BY <1>9 DEF AttachReportIfMissing
  <2> HIDE DEF row
  <2> QED
    BY <1>6, <1>7, <1>9, <2>1, <2>2
<1> QED
  BY <1>2, <1>3, <1>4, <1>5, <1>8, <1>9 DEF HookStep

\* A completed assessment reaches the sales team however its hook overlaps with
\* others: a completed hook ends with a lead of the person that has a report,
\* unless it dies, or finds no lead while system leads are paused.
THEOREM CompletedHooksReport == PipelineSpec => CompletedIsReported
<1>1. PipelineInv
        => [\A s \in Sessions :
              LET p == <<"complete", s>>
              IN pc'[p] = "off" /\ HookStep(p)
                   => \/ pc[p] = "find_user" /\ Existing = {}
                      \/ \E l \in Existing' : lead'[l].report]_pipelineVars
  <2> SUFFICES ASSUME PipelineInv, NEW s \in Sessions, HookStep(<<"complete", s>>),
                      pc'[<<"complete", s>>] = "off"
               PROVE  \/ pc[<<"complete", s>>] = "find_user" /\ Existing = {}
                      \/ \E l \in Existing' : lead'[l].report
    OBVIOUS
  <2>1. <<"complete", s>> \in Hooks /\ <<"complete", s>>[1] = "complete"
    BY KindsDiffer DEF HookKinds
  <2> QED
    BY <2>1, CompletedHookReports
<1> QED
  BY <1>1, PipelineInvariance, PTL DEF CompletedIsReported
=============================================================================
