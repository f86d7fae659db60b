------------------------- MODULE LeadAssignment_proofs -------------------------
(***************************************************************************)
(* Proofs about LeadAssignment, for any number of experts, leads and calls *)
(* in flight.                                                              *)
(*                                                                         *)
(* The overshoot bound is inductive because a call is counted as a         *)
(* reservation from the moment it has counted an expert's leads: assigning *)
(* turns the reservation into a lead, and there are never more             *)
(* reservations than calls.  Who is told rests on ExpertIsPicked: a call   *)
(* past the pick names an expert, so the lead it took counts as owned and  *)
(* no other call takes it.                                                 *)
(***************************************************************************)
EXTENDS LeadAssignment, FiniteSetTheorems, TLAPS

PickedStages ==
  {"auto_touch", "auto_assign", "auto_announce",
   "claim_count", "claim_write", "claim_touch", "transfer"}

\* A call past the choice of the expert names an expert and a lead.
ExpertIsPicked ==
  \A t \in Tasks :
    /\ task[t].at # "idle" => task[t].lead \in Leads
    /\ task[t].at \in PickedStages => task[t].expert \in Experts

AssignmentInv ==
  /\ AssignmentTypeOK
  /\ ExpertIsPicked
  /\ OnlyOwnerIsTold
  /\ OvershootIsBounded

-----------------------------------------------------------------------------
(* The steps that begin, move on and end a call *)

LEMMA BeginKeepsTasks ==
  ASSUME AssignmentTypeOK, ExpertIsPicked,
         NEW t \in Tasks, NEW l \in Leads,
         NEW e \in Experts \cup {NoExpert}, NEW by \in Experts \cup {NoExpert, Admin},
         NEW at \in TaskStages, at \in PickedStages => e \in Experts,
         Begin(t, l, e, by, at)
  PROVE  /\ task' \in [Tasks -> TaskRecords]
         /\ ExpertIsPicked'
BY DEF Begin, AssignmentTypeOK, TaskRecords, ExpertIsPicked

LEMMA ProceedKeepsTasks ==
  ASSUME AssignmentTypeOK, ExpertIsPicked, NEW t \in Tasks, NEW at \in TaskStages,
         task[t].at # "idle", at \in PickedStages => task[t].expert \in Experts,
         Proceed(t, at)
  PROVE  /\ task' \in [Tasks -> TaskRecords]
         /\ ExpertIsPicked'
BY DEF Proceed, AssignmentTypeOK, TaskRecords, ExpertIsPicked

LEMMA EndKeepsTasks ==
  ASSUME AssignmentTypeOK, ExpertIsPicked, NEW t \in Tasks, End(t)
  PROVE  /\ task' \in [Tasks -> TaskRecords]
         /\ ExpertIsPicked'
<1>1. Idle \in TaskRecords
  BY DEF Idle, TaskRecords, TaskStages
<1>2. task' = [task EXCEPT ![t] = Idle] /\ task' \in [Tasks -> TaskRecords]
  BY <1>1 DEF End, AssignmentTypeOK
<1>3. Idle.at = "idle"
  BY DEF Idle
<1> QED
  BY <1>2, <1>3 DEF AssignmentTypeOK, ExpertIsPicked, PickedStages

-----------------------------------------------------------------------------
(* Type correctness *)

LEMMA AssignmentInitType ==
  ASSUME AssignmentInit
  PROVE  AssignmentTypeOK /\ ExpertIsPicked
<1>1. Idle \in TaskRecords
  BY DEF Idle, TaskRecords, TaskStages
<1>2. AssignmentTypeOK
  BY <1>1 DEF AssignmentInit, AssignmentTypeOK, LeadStages, StaffStates
<1>3. Idle.at = "idle"
  BY DEF Idle
<1>4. ExpertIsPicked
  BY <1>3 DEF AssignmentInit, ExpertIsPicked, PickedStages
<1> QED
  BY <1>2, <1>4

\* The shared update of an unowned lead.
LEMMA TakeIfUnownedType ==
  ASSUME AssignmentTypeOK, ExpertIsPicked, NEW t \in Tasks,
         task[t].at \in {"auto_assign", "claim_write"},
         NEW next \in {"auto_announce", "claim_touch"},
         TakeIfUnowned(t, next)
  PROVE  /\ owner' \in [Leads -> Experts \cup {NoExpert, Admin}]
         /\ task' \in [Tasks -> TaskRecords]
         /\ ExpertIsPicked'
<1>1. /\ task[t].lead \in Leads
      /\ task[t].expert \in Experts
      /\ next \in TaskStages
  BY DEF ExpertIsPicked, PickedStages, TaskStages
<1>2. CASE owner[task[t].lead] = NoExpert
  <2>1. Proceed(t, next) /\ owner' = [owner EXCEPT ![task[t].lead] = task[t].expert]
    BY <1>2 DEF TakeIfUnowned
  <2>2. owner' \in [Leads -> Experts \cup {NoExpert, Admin}]
    BY <1>1, <2>1 DEF AssignmentTypeOK
  <2> QED
    BY <1>1, <2>1, <2>2, ProceedKeepsTasks
<1>3. CASE owner[task[t].lead] # NoExpert
  BY <1>3, EndKeepsTasks DEF TakeIfUnowned, AssignmentTypeOK
<1> QED
  BY <1>2, <1>3

LEMMA TouchType ==
  ASSUME AssignmentTypeOK, NEW e \in Experts, Touch(e)
  PROVE  ahead' \in SUBSET (Experts \X Experts)
BY DEF Touch, AssignmentTypeOK

\* Every step keeps the types and the picked experts.
LEMMA AssignmentTypeStep ==
  ASSUME AssignmentTypeOK, ExpertIsPicked, [AssignmentNext]_assignmentVars
  PROVE  AssignmentTypeOK' /\ ExpertIsPicked'
<1>1. CASE UNCHANGED assignmentVars
  BY <1>1 DEF assignmentVars, AssignmentTypeOK, ExpertIsPicked
<1>2. ASSUME NEW t \in Tasks, NEW l \in Leads, AutoRead(t, l)
      PROVE  AssignmentTypeOK' /\ ExpertIsPicked'
  <2>1. Begin(t, l, NoExpert, NoExpert, "auto_pick")
    BY <1>2 DEF AutoRead
  <2>2. "auto_pick" \in TaskStages /\ "auto_pick" \notin PickedStages
    BY DEF TaskStages, PickedStages
  <2> QED
    BY <1>2, <2>1, <2>2, BeginKeepsTasks DEF AutoRead, AssignmentTypeOK
<1>3. ASSUME NEW t \in Tasks, AutoPick(t)
      PROVE  AssignmentTypeOK' /\ ExpertIsPicked'
  <2>1. PICK e \in Experts : task' = [task EXCEPT ![t].expert = e, ![t].at = "auto_touch"]
    BY <1>3 DEF AutoPick
  <2>2. task' \in [Tasks -> TaskRecords] /\ ExpertIsPicked'
    BY <1>3, <2>1 DEF AutoPick, AssignmentTypeOK, TaskRecords, TaskStages, ExpertIsPicked
  <2> QED
    BY <1>3, <2>2 DEF AutoPick, AssignmentTypeOK
<1>4. ASSUME NEW t \in Tasks, AutoPickNobody(t) \/ AutoAnnounce(t)
      PROVE  AssignmentTypeOK' /\ ExpertIsPicked'
  BY <1>4, EndKeepsTasks DEF AutoPickNobody, AutoAnnounce, AssignmentTypeOK
<1>5. ASSUME NEW t \in Tasks, AutoTouch(t)
      PROVE  AssignmentTypeOK' /\ ExpertIsPicked'
  <2>1. task[t].expert \in Experts
    BY <1>5 DEF AutoTouch, ExpertIsPicked, PickedStages
  <2>2. task' \in [Tasks -> TaskRecords] /\ ExpertIsPicked'
    BY <1>5, <2>1, ProceedKeepsTasks DEF AutoTouch, TaskStages
  <2> QED
    BY <1>5, <2>1, <2>2, TouchType DEF AutoTouch, AssignmentTypeOK
<1>6. ASSUME NEW t \in Tasks, AutoAssign(t) \/ ClaimWrite(t)
      PROVE  AssignmentTypeOK' /\ ExpertIsPicked'
  BY <1>6, TakeIfUnownedType DEF AutoAssign, ClaimWrite, AssignmentTypeOK
<1>7. ASSUME NEW t \in Tasks, ClaimCount(t)
      PROVE  AssignmentTypeOK' /\ ExpertIsPicked'
  <2>1. task[t].expert \in Experts
    BY <1>7 DEF ClaimCount, ExpertIsPicked, PickedStages
  <2>2. "claim_write" \in TaskStages /\ task[t].at # "idle"
    BY <1>7 DEF ClaimCount, TaskStages
  <2>3. Proceed(t, "claim_write") \/ End(t)
    BY <1>7 DEF ClaimCount
  <2>4. task' \in [Tasks -> TaskRecords] /\ ExpertIsPicked'
    BY <2>1, <2>2, <2>3, ProceedKeepsTasks, EndKeepsTasks
  <2> QED
    BY <1>7, <2>4 DEF ClaimCount, AssignmentTypeOK
<1>8. ASSUME NEW t \in Tasks, ClaimTouch(t)
      PROVE  AssignmentTypeOK' /\ ExpertIsPicked'
  <2>1. task[t].expert \in Experts
    BY <1>8 DEF ClaimTouch, ExpertIsPicked, PickedStages
  <2> QED
    BY <1>8, <2>1, TouchType, EndKeepsTasks DEF ClaimTouch, AssignmentTypeOK
<1>9. ASSUME NEW t \in Tasks, TransferWrite(t)
      PROVE  AssignmentTypeOK' /\ ExpertIsPicked'
  <2>1. task[t].expert \in Experts /\ task[t].lead \in Leads
    BY <1>9 DEF TransferWrite, ExpertIsPicked, PickedStages
  <2> QED
    BY <1>9, <2>1, EndKeepsTasks DEF TransferWrite, AssignmentTypeOK
<1>10. ASSUME NEW t \in Tasks, NEW e \in Experts, NEW l \in Leads, ClaimRead(t, e, l)
       PROVE  AssignmentTypeOK' /\ ExpertIsPicked'
  BY <1>10, BeginKeepsTasks DEF ClaimRead, AssignmentTypeOK, TaskStages
<1>11. ASSUME NEW t \in Tasks, NEW l \in Leads, NEW e \in Experts,
              NEW by \in Experts \cup {Admin}, TransferRead(t, l, by, e)
       PROVE  AssignmentTypeOK' /\ ExpertIsPicked'
  BY <1>11, BeginKeepsTasks DEF TransferRead, AssignmentTypeOK, TaskStages
<1>12. ASSUME NEW l \in Leads, NEW e \in Experts \cup {NoExpert, Admin}, AdminAssign(l, e)
       PROVE  AssignmentTypeOK' /\ ExpertIsPicked'
  BY <1>12 DEF AdminAssign, AssignmentTypeOK, ExpertIsPicked
<1>13. ASSUME NEW l \in Leads, MoveLead(l) \/ CloseLead(l)
       PROVE  AssignmentTypeOK' /\ ExpertIsPicked'
  BY <1>13 DEF MoveLead, CloseLead, AssignmentTypeOK, ExpertIsPicked, LeadStages
<1>14. ASSUME NEW e \in Experts, ChangeStaff(e)
       PROVE  AssignmentTypeOK' /\ ExpertIsPicked'
  BY <1>14 DEF ChangeStaff, AssignmentTypeOK, ExpertIsPicked
<1> QED
  BY <1>1, <1>2, <1>3, <1>4, <1>5, <1>6, <1>7, <1>8, <1>9, <1>10, <1>11, <1>12,
     <1>13, <1>14 DEF AssignmentNext, AutoStep, ClaimStep

-----------------------------------------------------------------------------
(* Who may change an owner *)

\* Automatic assignment and claims change the owner of an unowned lead only.
LEMMA TakeIfUnownedTakesNobodys ==
  ASSUME AssignmentTypeOK, ExpertIsPicked, NEW t \in Tasks,
         AutoAssign(t) \/ ClaimWrite(t),
         NEW l \in Leads, owner[l] # NoExpert
  PROVE  owner'[l] = owner[l]
<1>1. \/ owner' = owner
      \/ /\ owner[task[t].lead] = NoExpert
         /\ owner' = [owner EXCEPT ![task[t].lead] = task[t].expert]
  BY DEF AutoAssign, ClaimWrite, TakeIfUnowned
<1> QED
  BY <1>1 DEF AssignmentTypeOK

\* A step that changes the owner of an owned lead is a transfer or an admin's.
LEMMA OwnerStep ==
  ASSUME AssignmentTypeOK, ExpertIsPicked, [AssignmentNext]_assignmentVars,
         NEW l \in Leads, owner[l] # NoExpert, owner'[l] # owner[l]
  PROVE  StaffMoved(l)
<1>1. CASE owner' = owner
  BY <1>1
<1>2. ASSUME NEW t \in Tasks, AutoAssign(t) \/ ClaimWrite(t) PROVE StaffMoved(l)
  BY <1>2, TakeIfUnownedTakesNobodys
<1>3. ASSUME NEW t \in Tasks, TransferWrite(t) PROVE StaffMoved(l)
  <2>1. task[t].lead = l
    BY <1>3 DEF TransferWrite, AssignmentTypeOK
  <2>2. task'[t] = Idle
    BY <1>3 DEF TransferWrite, End, AssignmentTypeOK
  <2> QED
    BY <1>3, <2>1, <2>2 DEF TransferWrite, StaffMoved
<1>4. ASSUME NEW k \in Leads, NEW e \in Experts \cup {NoExpert, Admin}, AdminAssign(k, e)
      PROVE  StaffMoved(l)
  BY <1>4 DEF AdminAssign, StaffMoved
<1> QED
  BY <1>1, <1>2, <1>3, <1>4
  DEF AssignmentNext, AutoStep, ClaimStep, assignmentVars, AutoRead, AutoPick,
      AutoPickNobody, AutoTouch, AutoAnnounce, ClaimRead, ClaimCount, ClaimTouch,
      TransferRead, MoveLead, CloseLead, ChangeStaff

-----------------------------------------------------------------------------
(* Who is told *)

\* A call that is told of lead l, and the owner of l, are unchanged by a step
\* that takes nobody's lead unless people moved the lead.
LEMMA ToldStep ==
  ASSUME AssignmentTypeOK, ExpertIsPicked, OnlyOwnerIsTold,
         [AssignmentNext]_assignmentVars
  PROVE  OnlyOwnerIsTold'
<1> SUFFICES ASSUME NEW t \in Tasks,
                    task'[t].at = "auto_announce", task'[t].lead \notin byHand'
             PROVE  owner'[task'[t].lead] = task'[t].expert
  BY DEF OnlyOwnerIsTold
<1>t. "auto_announce" \notin {"idle", "auto_pick", "auto_touch", "auto_assign",
                              "claim_count", "claim_write", "claim_touch", "transfer"}
      /\ Idle.at = "idle"
  BY DEF Idle
<1>1. byHand \subseteq byHand'
  BY DEF AssignmentNext, AutoStep, ClaimStep, assignmentVars, AutoRead, AutoPick,
         AutoPickNobody, AutoTouch, AutoAssign, AutoAnnounce, ClaimRead, ClaimCount,
         ClaimWrite, ClaimTouch, TransferRead, TransferWrite, AdminAssign, MoveLead,
         CloseLead, ChangeStaff
<1>2. CASE task'[t] = task[t]
  <2>1. /\ task[t].lead \in Leads /\ task[t].expert \in Experts
        /\ owner[task[t].lead] = task[t].expert
    BY <1>1, <1>2 DEF OnlyOwnerIsTold, ExpertIsPicked, PickedStages
  <2>2. owner[task[t].lead] # NoExpert
    BY <2>1, AssignmentAssumption
  <2>3. CASE owner'[task[t].lead] = owner[task[t].lead]
    BY <1>2, <2>1, <2>3
  <2>4. CASE owner'[task[t].lead] # owner[task[t].lead]
    <3>1. task[t].lead \in byHand'
      <4>1. ASSUME NEW u \in Tasks, AutoAssign(u) \/ ClaimWrite(u) PROVE FALSE
        BY <4>1, <2>1, <2>2, <2>4, TakeIfUnownedTakesNobodys
      <4>2. ASSUME NEW u \in Tasks, TransferWrite(u) PROVE task[t].lead \in byHand'
        BY <4>2, <2>1, <2>4 DEF TransferWrite, AssignmentTypeOK
      <4>3. ASSUME NEW k \in Leads, NEW e \in Experts \cup {NoExpert, Admin},
                   AdminAssign(k, e)
            PROVE  task[t].lead \in byHand'
        BY <4>3, <2>1, <2>4 DEF AdminAssign, AssignmentTypeOK
      <4> QED
        BY <4>1, <4>2, <4>3, <2>4
        DEF AssignmentNext, AutoStep, ClaimStep, assignmentVars, AutoRead, AutoPick,
            AutoPickNobody, AutoTouch, AutoAnnounce, ClaimRead, ClaimCount, ClaimTouch,
            TransferRead, MoveLead, CloseLead, ChangeStaff
    <3> QED
      BY <1>2, <3>1
  <2> QED
    BY <2>3, <2>4
<1>3. CASE task'[t] # task[t]
  <2>1. AutoAssign(t)
    <3>1. ASSUME NEW u \in Tasks, NEW l \in Leads, AutoRead(u, l) PROVE FALSE
      BY <1>3, <1>t, <3>1 DEF AutoRead, Begin, AssignmentTypeOK
    <3>2. ASSUME NEW u \in Tasks,
                 AutoPickNobody(u) \/ AutoAnnounce(u) \/ ClaimTouch(u) \/ TransferWrite(u)
          PROVE  FALSE
      BY <1>3, <1>t, <3>2
      DEF AutoPickNobody, AutoAnnounce, ClaimTouch, TransferWrite, End, AssignmentTypeOK
    <3>3. ASSUME NEW u \in Tasks, AutoPick(u) PROVE FALSE
      BY <1>3, <1>t, <3>3 DEF AutoPick, AssignmentTypeOK, TaskRecords
    <3>4. ASSUME NEW u \in Tasks, AutoTouch(u) \/ ClaimCount(u) PROVE FALSE
      BY <1>3, <1>t, <3>4
      DEF AutoTouch, ClaimCount, Proceed, End, AssignmentTypeOK, TaskRecords
    <3>5. ASSUME NEW u \in Tasks, ClaimWrite(u) PROVE FALSE
      BY <1>3, <1>t, <3>5
      DEF ClaimWrite, TakeIfUnowned, Proceed, End, AssignmentTypeOK, TaskRecords
    <3>6. ASSUME NEW u \in Tasks, AutoAssign(u) PROVE u = t
      BY <1>3, <3>6 DEF AutoAssign, TakeIfUnowned, Proceed, End, AssignmentTypeOK
    <3>7. ASSUME NEW u \in Tasks, NEW e \in Experts, NEW l \in Leads, ClaimRead(u, e, l)
          PROVE  FALSE
      BY <1>3, <1>t, <3>7 DEF ClaimRead, Begin, AssignmentTypeOK
    <3>8. ASSUME NEW u \in Tasks, NEW l \in Leads, NEW e \in Experts,
                 NEW by \in Experts \cup {Admin}, TransferRead(u, l, by, e)
          PROVE  FALSE
      BY <1>3, <1>t, <3>8 DEF TransferRead, Begin, AssignmentTypeOK
    <3> QED
      BY <1>3, <3>1, <3>2, <3>3, <3>4, <3>5, <3>6, <3>7, <3>8
      DEF AssignmentNext, AutoStep, ClaimStep, assignmentVars, AdminAssign,
          MoveLead, CloseLead, ChangeStaff
  <2>2. /\ task'[t].lead = task[t].lead /\ task'[t].expert = task[t].expert
        /\ owner' = [owner EXCEPT ![task[t].lead] = task[t].expert]
    BY <2>1, <1>t DEF AutoAssign, TakeIfUnowned, Proceed, End, AssignmentTypeOK,
      TaskRecords
  <2>3. task[t].lead \in Leads
    BY <2>1 DEF AutoAssign, ExpertIsPicked
  <2> QED
    BY <2>2, <2>3 DEF AssignmentTypeOK
<1> QED
  BY <1>2, <1>3

-----------------------------------------------------------------------------
(* The capacity limit *)

\* Leads of e that nobody but automatic assignment and claims brought to e.
Load(e) == Counted(e) \ byHand

LEMMA LoadAndReservedAreFinite ==
  ASSUME NEW e \in Experts
  PROVE  /\ IsFiniteSet(Load(e)) /\ Cardinality(Load(e)) \in Nat
         /\ IsFiniteSet(Reserved(e)) /\ Cardinality(Reserved(e)) \in Nat
         /\ Cardinality(Reserved(e)) <= Cardinality(Tasks)
         /\ Cardinality(Tasks) \in Nat
         /\ Cardinality(Load(e)) <= Cardinality(Counted(e))
         /\ Cardinality(Counted(e)) \in Nat
<1>1. Counted(e) \subseteq Leads /\ Load(e) \subseteq Counted(e) /\ Reserved(e) \subseteq Tasks
  BY DEF Counted, Load, Reserved
<1>2. IsFiniteSet(Leads) /\ IsFiniteSet(Tasks)
  BY AssignmentAssumption
<1>3. IsFiniteSet(Counted(e)) /\ Cardinality(Load(e)) <= Cardinality(Counted(e))
  BY <1>1, <1>2, FS_Subset
<1>4. /\ IsFiniteSet(Load(e)) /\ IsFiniteSet(Reserved(e))
      /\ Cardinality(Reserved(e)) <= Cardinality(Tasks)
  BY <1>1, <1>2, <1>3, FS_Subset
<1> QED
  BY <1>2, <1>3, <1>4, FS_CardinalityType

\* Fewer leads and fewer reservations keep within the bound.
LEMMA ShrinkingKeepsBound ==
  ASSUME NEW e \in Experts, OvershootIsBounded,
         Load(e)' \subseteq Load(e), Reserved(e)' \subseteq Reserved(e)
  PROVE  Cardinality(Load(e)') + Cardinality(Reserved(e)')
           <= MaxOpen - 1 + Cardinality(Tasks)
<1>1. /\ IsFiniteSet(Load(e)') /\ Cardinality(Load(e)') <= Cardinality(Load(e))
      /\ IsFiniteSet(Reserved(e)') /\ Cardinality(Reserved(e)') <= Cardinality(Reserved(e))
  BY LoadAndReservedAreFinite, FS_Subset
<1>2. Cardinality(Load(e)') \in Nat /\ Cardinality(Reserved(e)') \in Nat
  BY <1>1, FS_CardinalityType
<1>3. Cardinality(Load(e)) + Cardinality(Reserved(e)) <= MaxOpen - 1 + Cardinality(Tasks)
  BY DEF OvershootIsBounded, Load
<1> QED
  BY <1>1, <1>2, <1>3, LoadAndReservedAreFinite, AssignmentAssumption

\* A call that has just seen e under capacity may reserve.
LEMMA ReservingKeepsBound ==
  ASSUME NEW e \in Experts, UnderCapacity(e), Load(e)' = Load(e), Reserved(e)' \subseteq Tasks
  PROVE  Cardinality(Load(e)') + Cardinality(Reserved(e)')
           <= MaxOpen - 1 + Cardinality(Tasks)
<1>1. Cardinality(Load(e)') <= MaxOpen - 1
  BY LoadAndReservedAreFinite, AssignmentAssumption DEF UnderCapacity
<1>2. IsFiniteSet(Reserved(e)') /\ Cardinality(Reserved(e)') <= Cardinality(Tasks)
  BY FS_Subset, AssignmentAssumption
<1> QED
  BY <1>1, <1>2, LoadAndReservedAreFinite, FS_CardinalityType, AssignmentAssumption

\* Assigning turns the reservation of call t into lead l.
LEMMA AssigningKeepsBound ==
  ASSUME NEW e \in Experts, OvershootIsBounded, NEW t \in Reserved(e), NEW l,
         Load(e)' \subseteq Load(e) \cup {l}, Reserved(e)' \subseteq Reserved(e) \ {t}
  PROVE  Cardinality(Load(e)') + Cardinality(Reserved(e)')
           <= MaxOpen - 1 + Cardinality(Tasks)
<1>1. /\ IsFiniteSet(Load(e) \cup {l})
      /\ Cardinality(Load(e) \cup {l}) <= Cardinality(Load(e)) + 1
  <2>1. IsFiniteSet(Load(e)) /\ Cardinality(Load(e)) \in Nat
    BY LoadAndReservedAreFinite
  <2>2. /\ IsFiniteSet(Load(e) \cup {l})
        /\ Cardinality(Load(e) \cup {l})
             = IF l \in Load(e) THEN Cardinality(Load(e)) ELSE Cardinality(Load(e)) + 1
    BY <2>1, FS_AddElement
  <2> QED
    BY <2>1, <2>2
<1>2. /\ IsFiniteSet(Reserved(e) \ {t})
      /\ Cardinality(Reserved(e) \ {t}) = Cardinality(Reserved(e)) - 1
  BY LoadAndReservedAreFinite, FS_RemoveElement
<1>3. /\ IsFiniteSet(Load(e)')
      /\ Cardinality(Load(e)') <= Cardinality(Load(e) \cup {l})
      /\ IsFiniteSet(Reserved(e)')
      /\ Cardinality(Reserved(e)') <= Cardinality(Reserved(e) \ {t})
  BY <1>1, <1>2, FS_Subset
<1>4. /\ Cardinality(Load(e)') \in Nat /\ Cardinality(Reserved(e)') \in Nat
      /\ Cardinality(Load(e) \cup {l}) \in Nat
  BY <1>1, <1>3, FS_CardinalityType
<1>5. Cardinality(Load(e)) + Cardinality(Reserved(e)) <= MaxOpen - 1 + Cardinality(Tasks)
  BY DEF OvershootIsBounded, Load
<1> QED
  BY <1>1, <1>2, <1>3, <1>4, <1>5, LoadAndReservedAreFinite, AssignmentAssumption

LEMMA OvershootStep ==
  ASSUME AssignmentTypeOK, ExpertIsPicked, OvershootIsBounded,
         [AssignmentNext]_assignmentVars
  PROVE  OvershootIsBounded'
<1> DEFINE Bound(e) == Cardinality(Load(e)') + Cardinality(Reserved(e)')
                         <= MaxOpen - 1 + Cardinality(Tasks)
<1> SUFFICES ASSUME NEW e \in Experts PROVE Bound(e)
  BY DEF OvershootIsBounded, Load
<1>i. Idle.at = "idle"
  BY DEF Idle
<1> HIDE DEF Bound
\* Steps that bring e no lead and no reservation.
<1>s. ASSUME Load(e)' \subseteq Load(e), Reserved(e)' \subseteq Reserved(e) PROVE Bound(e)
  BY <1>s, ShrinkingKeepsBound DEF Bound
<1>1. CASE UNCHANGED assignmentVars
  BY <1>1, <1>s DEF assignmentVars, Load, Counted, Reserved
<1>2. ASSUME NEW t \in Tasks, NEW l \in Leads, AutoRead(t, l) PROVE Bound(e)
  BY <1>2, <1>s DEF AutoRead, Begin, AssignmentTypeOK, Load, Counted, Reserved
<1>3. ASSUME NEW t \in Tasks, NEW d \in Experts, NEW l \in Leads, ClaimRead(t, d, l)
      PROVE  Bound(e)
  BY <1>3, <1>s DEF ClaimRead, Begin, AssignmentTypeOK, Load, Counted, Reserved
<1>4. ASSUME NEW t \in Tasks, NEW l \in Leads, NEW d \in Experts,
             NEW by \in Experts \cup {Admin}, TransferRead(t, l, by, d)
      PROVE  Bound(e)
  BY <1>4, <1>s DEF TransferRead, Begin, AssignmentTypeOK, Load, Counted, Reserved
<1>5. ASSUME NEW t \in Tasks,
             AutoPickNobody(t) \/ AutoAnnounce(t) \/ ClaimTouch(t)
      PROVE  Bound(e)
  BY <1>5, <1>s, <1>i
  DEF AutoPickNobody, AutoAnnounce, ClaimTouch, End, AssignmentTypeOK, Load, Counted, Reserved
<1>6. ASSUME NEW t \in Tasks, AutoTouch(t) PROVE Bound(e)
  BY <1>6, <1>s
  DEF AutoTouch, Proceed, AssignmentTypeOK, TaskRecords, Load, Counted, Reserved
<1>7. ASSUME NEW t \in Tasks, TransferWrite(t) PROVE Bound(e)
  <2>1. Load(e)' \subseteq Load(e)
    BY <1>7 DEF TransferWrite, AssignmentTypeOK, Load, Counted
  <2>2. Reserved(e)' \subseteq Reserved(e)
    BY <1>7, <1>i DEF TransferWrite, End, AssignmentTypeOK, Reserved
  <2> QED
    BY <2>1, <2>2, <1>s
<1>8. ASSUME NEW l \in Leads, NEW d \in Experts \cup {NoExpert, Admin}, AdminAssign(l, d)
      PROVE  Bound(e)
  BY <1>8, <1>s DEF AdminAssign, AssignmentTypeOK, Load, Counted, Reserved
<1>9. ASSUME NEW l \in Leads, MoveLead(l) \/ CloseLead(l) PROVE Bound(e)
  BY <1>9, <1>s DEF MoveLead, CloseLead, AssignmentTypeOK, Load, Counted, Reserved
<1>10. ASSUME NEW d \in Experts, ChangeStaff(d) PROVE Bound(e)
  BY <1>10, <1>s DEF ChangeStaff, Load, Counted, Reserved
\* Steps that reserve.
<1>11. ASSUME NEW t \in Tasks, AutoPick(t) PROVE Bound(e)
  <2>1. PICK d \in Eligible : task' = [task EXCEPT ![t].expert = d, ![t].at = "auto_touch"]
    BY <1>11 DEF AutoPick
  <2>2. Load(e)' = Load(e) /\ Reserved(e)' \subseteq Tasks
    BY <1>11 DEF AutoPick, Load, Counted, Reserved
  <2>3. CASE e = d
    BY <2>1, <2>2, <2>3, ReservingKeepsBound DEF Eligible, Bound
  <2>4. CASE e # d
    <3>1. Reserved(e)' \subseteq Reserved(e)
      BY <2>1, <2>4 DEF AssignmentTypeOK, TaskRecords, Reserved
    <3> QED
      BY <2>2, <3>1, <1>s
  <2> QED
    BY <2>3, <2>4
<1>12. ASSUME NEW t \in Tasks, ClaimCount(t) PROVE Bound(e)
  <2>1. Load(e)' = Load(e) /\ Reserved(e)' \subseteq Tasks
    BY <1>12 DEF ClaimCount, Load, Counted, Reserved
  <2>2. CASE UnderCapacity(e)
    BY <2>1, <2>2, ReservingKeepsBound DEF Bound
  <2>3. CASE ~UnderCapacity(e)
    <3>1. Reserved(e)' \subseteq Reserved(e)
      BY <1>12, <1>i, <2>3 DEF ClaimCount, Proceed, End, AssignmentTypeOK, TaskRecords, Reserved
    <3> QED
      BY <2>1, <3>1, <1>s
  <2> QED
    BY <2>2, <2>3
\* Steps that assign.
<1>13. ASSUME NEW t \in Tasks, AutoAssign(t) \/ ClaimWrite(t) PROVE Bound(e)
  <2> DEFINE l == task[t].lead
  <2>1. Reserved(e)' \subseteq Reserved(e) \ {t}
    BY <1>13, <1>i DEF AutoAssign, ClaimWrite, TakeIfUnowned, Proceed, End,
      AssignmentTypeOK, TaskRecords, Reserved
  <2>2. \/ owner' = owner
        \/ owner' = [owner EXCEPT ![l] = task[t].expert]
    BY <1>13 DEF AutoAssign, ClaimWrite, TakeIfUnowned
  <2>3. stage' = stage /\ byHand' = byHand
    BY <1>13 DEF AutoAssign, ClaimWrite
  <2>4. CASE task[t].expert = e
    <3>1. t \in Reserved(e)
      BY <1>13, <2>4 DEF AutoAssign, ClaimWrite, Reserved
    <3>2. Load(e)' \subseteq Load(e) \cup {l}
      BY <2>2, <2>3 DEF AssignmentTypeOK, Load, Counted
    <3> QED
      BY <2>1, <3>1, <3>2, AssigningKeepsBound DEF Bound
  <2>5. CASE task[t].expert # e
    <3>1. Load(e)' \subseteq Load(e)
      BY <2>2, <2>3, <2>5 DEF AssignmentTypeOK, Load, Counted
    <3> QED
      BY <2>1, <3>1, <1>s
  <2> QED
    BY <2>4, <2>5
<1> QED
  BY <1>1, <1>2, <1>3, <1>4, <1>5, <1>6, <1>7, <1>8, <1>9, <1>10, <1>11, <1>12, <1>13
  DEF AssignmentNext, AutoStep, ClaimStep

-----------------------------------------------------------------------------
(* The theorems *)

LEMMA AssignmentInitInv ==
  ASSUME AssignmentInit
  PROVE  AssignmentInv
<1>1. AssignmentTypeOK /\ ExpertIsPicked
  BY AssignmentInitType
<1>2. \A t \in Tasks : task[t].at = "idle"
  BY DEF AssignmentInit, Idle
<1>3. OnlyOwnerIsTold
  BY <1>2 DEF OnlyOwnerIsTold
<1>4. ASSUME NEW e \in Experts
      PROVE  Cardinality(Load(e)) + Cardinality(Reserved(e)) <= MaxOpen - 1 + Cardinality(Tasks)
  <2>1. Load(e) = {}
    BY AssignmentAssumption DEF AssignmentInit, Load, Counted
  <2>2. Reserved(e) = {}
    BY <1>2 DEF Reserved
  <2>3. Cardinality({}) = 0
    BY FS_EmptySet
  <2> QED
    BY <2>1, <2>2, <2>3, LoadAndReservedAreFinite, AssignmentAssumption
<1> QED
  BY <1>1, <1>3, <1>4 DEF AssignmentInv, OvershootIsBounded, Load

LEMMA AssignmentInvStep ==
  ASSUME AssignmentInv, [AssignmentNext]_assignmentVars
  PROVE  AssignmentInv'
BY AssignmentTypeStep, ToldStep, OvershootStep DEF AssignmentInv

\* The inductive invariant: types, picked experts, who is told, the limit.
THEOREM AssignmentInvariance == AssignmentSpec => []AssignmentInv
<1>1. AssignmentInit => AssignmentInv
  BY AssignmentInitInv
<1>2. AssignmentInv /\ [AssignmentNext]_assignmentVars => AssignmentInv'
  BY AssignmentInvStep
<1> QED
  BY <1>1, <1>2, PTL DEF AssignmentSpec

\* Owners, stages, accounts and calls keep their types.
THEOREM AssignmentTypeCorrect == AssignmentSpec => []AssignmentTypeOK
<1>1. AssignmentInv => AssignmentTypeOK
  BY DEF AssignmentInv
<1> QED
  BY <1>1, AssignmentInvariance, PTL

\* pickNextSalesExpert and the claim pass max_open_leads_per_expert by less
\* than the number of calls in flight, whatever that number is.
THEOREM OvershootIsLimited == AssignmentSpec => []OvershootIsBounded
<1>1. AssignmentInv => OvershootIsBounded
  BY DEF AssignmentInv
<1> QED
  BY <1>1, AssignmentInvariance, PTL

\* autoAssignAndNotifyLead announces a lead to its owner and to nobody else.
THEOREM OwnerAloneIsTold == AssignmentSpec => []OnlyOwnerIsTold
<1>1. AssignmentInv => OnlyOwnerIsTold
  BY DEF AssignmentInv
<1> QED
  BY <1>1, AssignmentInvariance, PTL

\* The conditional updates of round-robin and claims never take a lead away.
THEOREM OwnedStaysOwned == AssignmentSpec => OwnedIsNotTaken
<1>1. AssignmentInv /\ [AssignmentNext]_assignmentVars
        => [\A l \in Leads : owner[l] # NoExpert /\ owner'[l] # owner[l]
              => StaffMoved(l)]_assignmentVars
  BY OwnerStep DEF AssignmentInv
<1> QED
  BY <1>1, AssignmentInvariance, PTL DEF AssignmentSpec, OwnedIsNotTaken
=============================================================================
