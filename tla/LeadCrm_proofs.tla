-------------------------- MODULE LeadCrm_proofs --------------------------
(***************************************************************************)
(* Proofs about LeadCrm and LeadBackfill, for any leads, people and number *)
(* of operations and backfill calls.                                       *)
(*                                                                         *)
(* LeadCrm.  An operation checks a row it has read and writes the row as   *)
(* it is by then.  That is sound because marks are only ever set: what     *)
(* backed a status when the row was read still stands when it is written.  *)
(* The activities are another matter: they are sound only on leads where   *)
(* operations did not overlap, and there the row and its activities differ *)
(* by exactly what the one operation at work has still to record.          *)
(***************************************************************************)
EXTENDS LeadCrm, LeadBackfill, FiniteSetTheorems, SequenceTheorems, WellFoundedInduction,
        TLAPS

Owners == Staff \cup {Nobody}

Rows == [status : LeadStatuses, owner : Owners, called : BOOLEAN, reason : BOOLEAN,
         contactedAt : BOOLEAN, closedAt : BOOLEAN]

Reads == UNION {[S -> Rows] : S \in SUBSET CrmLeads}

VisitStages == {"idle", "write", "log_status", "log_owner", "call_write", "call_update",
                "target", "transfer", "claim", "assign", "bind", "transition", "upgrade",
                "upgrade_write"}

VisitRecords ==
  [at : VisitStages, by : Staff \cup {Nobody}, to : Owners, row : CrmLeads \cup {NoLead},
   todo : SUBSET CrmLeads, seen : Reads, input : InputRecords]

\* What StatusIsBacked asks of one row.
Backed(r) ==
  /\ r.status \in {"closed_won", "closed_lost"} => r.closedAt
  /\ r.status = "closed_lost" => r.reason
  /\ r.status = "contacted" => r.contactedAt
  /\ RequireCall /\ r.status \in {"closed_lost", "unreachable"} => r.called

\* No mark of r is missing from s.
Grew(r, s) ==
  /\ r.called => s.called
  /\ r.reason => s.reason
  /\ r.contactedAt => s.contactedAt
  /\ r.closedAt => s.closedAt

\* The rows an operation has read were backed, and stand with at least the
\* marks they had; it has read every row it is still to do.
ReadOK(x, rows) ==
  /\ x.todo \subseteq DOMAIN x.seen
  /\ \A l \in DOMAIN x.seen : Backed(x.seen[l]) /\ Grew(x.seen[l], rows[l])

\* A call or an upgrade is about one lead, a claim or an assignment is for an expert, and what
\* the system writes of its own accord needs no backing or is as read.
StageOK(x) ==
  /\ x.at \in {"call_write", "call_update", "upgrade"} => \E l \in CrmLeads : x.todo = {l}
  /\ x.at \in {"claim", "assign"} => x.by \in SalesExperts
  /\ x.at \in {"target", "transfer"} => x.row \in CrmLeads /\ x.to \in SalesExperts
  /\ x.at = "bind" =>
       \/ x.input.status \in Pipeline
       \/ x.input.status \in LeadStatuses /\ \A l \in x.todo : x.input.status = x.seen[l].status
  /\ x.at = "transition" => x.input.status \in Pipeline
  /\ x.at = "upgrade_write" => x.input.status \in {"new", "keep"}

CrmTypeOK ==
  /\ lead \in [CrmLeads -> Rows]
  /\ visit \in [Visits -> VisitRecords]

CrmInv ==
  /\ CrmTypeOK
  /\ \A l \in CrmLeads : Backed(lead[l])
  /\ \A v \in Visits : ReadOK(visit[v], lead) /\ StageOK(visit[v])

-----------------------------------------------------------------------------
(* Rows *)

LEMMA GrewTransitive ==
  ASSUME NEW r, NEW s, NEW t, Grew(r, s), Grew(s, t)
  PROVE  Grew(r, t)
BY DEF Grew

LEMMA GrewSame == \A r : Grew(r, r)
BY DEF Grew

\* updateConsultationLead: written over a row that has only gained marks since
\* it was read and found acceptable, the input leaves a row that is backed.
LEMMA WrittenIsBacked ==
  ASSUME NEW row \in Rows, NEW read \in Rows, NEW input \in InputRecords,
         Backed(row), Backed(read), Grew(read, row), Acceptable(read, input)
  PROVE  /\ Written(row, read, input) \in Rows
         /\ Backed(Written(row, read, input))
         /\ Grew(row, Written(row, read, input))
<1> DEFINE w == Written(row, read, input)
           changed == Changes(read, input)
           status == IF input.status = "keep" THEN row.status ELSE input.status
           owner == IF input.owner = "keep" THEN row.owner ELSE input.owner
           reason == row.reason \/ input.reason
           contactedAt == row.contactedAt \/ (changed /\ input.status = "contacted")
           closedAt == row.closedAt \/ (changed /\ input.status \in {"closed_won", "closed_lost"})
<1>1. /\ w.status = status /\ w.owner = owner /\ w.called = row.called
      /\ w.reason = reason /\ w.contactedAt = contactedAt /\ w.closedAt = closedAt
      /\ w \in Rows
  <2>1. status \in LeadStatuses /\ owner \in Owners
    BY DEF Rows, InputRecords, Owners
  <2>2. row.called \in BOOLEAN /\ reason \in BOOLEAN /\ contactedAt \in BOOLEAN /\ closedAt \in BOOLEAN
    BY DEF Rows
  <2>3. w = [row EXCEPT !.status = status, !.owner = owner, !.reason = reason,
                        !.contactedAt = contactedAt, !.closedAt = closedAt]
    BY DEF Written, Rows
  <2> HIDE DEF status, owner, reason, contactedAt, closedAt, w
  <2> QED
    BY <2>1, <2>2, <2>3 DEF Rows
<1> HIDE DEF w
<1>2. w \in Rows
  BY <1>1
<1>3. Grew(row, w)
  BY <1>1 DEF Grew
<1> SUFFICES Backed(w)
  BY <1>2, <1>3 DEF w
<1>4. CASE input.status = "keep"
  BY <1>1, <1>4 DEF Backed
<1>5. CASE input.status # "keep" /\ ~changed
  <2>1. input.status = read.status
    BY <1>5 DEF Changes
  <2>2. Grew(read, w) /\ w.status = read.status
    BY <1>1, <1>3, <1>5, <2>1, GrewTransitive
  <2> QED
    BY <2>2, <1>2 DEF Backed, Grew
<1>6. CASE input.status # "keep" /\ changed
  <2>1. w.status = input.status
    BY <1>1, <1>6
  <2>2. w.status \in {"closed_won", "closed_lost"} => w.closedAt
    BY <1>1, <1>6, <2>1
  <2>3. w.status = "closed_lost" => w.reason
    BY <1>1, <2>1 DEF Acceptable, ReasonFits
  <2>4. w.status = "contacted" => w.contactedAt
    BY <1>1, <1>6, <2>1
  <2>5. RequireCall /\ w.status \in {"closed_lost", "unreachable"} => w.called
    BY <1>1, <1>6, <2>1 DEF Acceptable, CallBeforeClose, Grew
  <2> QED
    BY <2>2, <2>3, <2>4, <2>5 DEF Backed
<1> QED
  BY <1>4, <1>5, <1>6

-----------------------------------------------------------------------------
(* Operations in flight *)

LEMMA NoVisitType ==
  /\ NoVisit \in VisitRecords
  /\ NoVisit.at = "idle" /\ NoVisit.to = Nobody /\ NoVisit.todo = {} /\ DOMAIN NoVisit.seen = {}
  /\ NoVisit.input.status = "keep" /\ NoVisit.input.owner = "keep"
<1>1. <<>> \in [{} -> Rows]
  OBVIOUS
<1>2. <<>> \in Reads /\ DOMAIN <<>> = {}
  BY <1>1 DEF Reads
<1> DEFINE nothing == OnlyStatus("keep")
<1>3. nothing \in InputRecords /\ nothing.status = "keep" /\ nothing.owner = "keep"
  BY DEF InputRecords, OnlyStatus
<1> HIDE DEF nothing
<1> DEFINE seen == <<>>
<1> HIDE DEF seen
<1>4. [at |-> "idle", by |-> Nobody, to |-> Nobody, row |-> NoLead, todo |-> {}, seen |-> seen,
       input |-> nothing] \in VisitRecords
  <2>1. seen \in Reads
    BY <1>2 DEF seen
  <2> QED
    BY <1>3, <2>1 DEF VisitRecords, VisitStages, Owners
<1>5. NoVisit = [at |-> "idle", by |-> Nobody, to |-> Nobody, row |-> NoLead, todo |-> {}, seen |-> seen,
                 input |-> nothing]
  BY DEF NoVisit, seen, nothing
<1>6. /\ NoVisit.at = "idle" /\ NoVisit.to = Nobody /\ NoVisit.todo = {} /\ NoVisit.seen = seen
      /\ NoVisit.input = nothing
  BY <1>5
<1> QED
  BY <1>2, <1>3, <1>4, <1>5, <1>6 DEF seen

LEMMA NoVisitOK ==
  ASSUME NEW rows
  PROVE  ReadOK(NoVisit, rows) /\ StageOK(NoVisit)
BY NoVisitType DEF ReadOK, StageOK

\* Rows that gain marks do not disturb who has read them.
LEMMA GrowthKeepsRead ==
  ASSUME NEW x \in VisitRecords, NEW rows, NEW after, ReadOK(x, rows),
         \A l \in CrmLeads : Grew(rows[l], after[l])
  PROVE  ReadOK(x, after)
<1>1. DOMAIN x.seen \subseteq CrmLeads
  BY DEF VisitRecords, Reads
<1> QED
  BY <1>1, GrewTransitive DEF ReadOK

\* What every step comes down to: rows only gain marks and stay backed, and
\* other operations stay as they were.
LEMMA CrmStepInv ==
  ASSUME CrmInv, NEW v \in Visits, NEW x \in VisitRecords,
         lead' \in [CrmLeads -> Rows],
         \A l \in CrmLeads : Grew(lead[l], lead'[l]) /\ Backed(lead'[l]),
         visit' = [visit EXCEPT ![v] = x],
         ReadOK(x, lead'), StageOK(x)
  PROVE  CrmInv'
<1>1. /\ visit' \in [Visits -> VisitRecords] /\ visit'[v] = x
      /\ \A w \in Visits \ {v} : visit'[w] = visit[w]
  BY DEF CrmInv, CrmTypeOK
<1>2. ASSUME NEW w \in Visits \ {v}
      PROVE  ReadOK(visit'[w], lead') /\ StageOK(visit'[w])
  <2>1. visit[w] \in VisitRecords /\ ReadOK(visit[w], lead) /\ StageOK(visit[w])
    BY DEF CrmInv, CrmTypeOK
  <2> QED
    BY <1>1, <2>1, GrowthKeepsRead
<1> QED
  BY <1>1, <1>2 DEF CrmInv, CrmTypeOK

\* A step that moves one operation and writes no row.
LEMMA MoveInv ==
  ASSUME CrmInv, NEW v \in Visits, NEW x \in VisitRecords,
         visit' = [visit EXCEPT ![v] = x], UNCHANGED lead,
         ReadOK(x, lead), StageOK(x)
  PROVE  CrmInv'
<1>1. lead' \in [CrmLeads -> Rows] /\ \A l \in CrmLeads : Grew(lead[l], lead'[l]) /\ Backed(lead'[l])
  BY GrewSame DEF CrmInv, CrmTypeOK
<1> QED
  BY <1>1, CrmStepInv

LEMMA EndInv ==
  ASSUME CrmInv, NEW v \in Visits, EndVisit(v), UNCHANGED lead
  PROVE  CrmInv'
BY NoVisitType, NoVisitOK, MoveInv DEF EndVisit

\* An operation goes to a stage that asks nothing of it.
LEMMA FreeStage ==
  ASSUME NEW x \in VisitRecords, NEW stage \in {"write", "log_status", "log_owner"},
         NEW rows, ReadOK(x, rows)
  PROVE  /\ [x EXCEPT !.at = stage] \in VisitRecords
         /\ ReadOK([x EXCEPT !.at = stage], rows)
         /\ StageOK([x EXCEPT !.at = stage])
<1> DEFINE y == [x EXCEPT !.at = stage]
<1>1. y \in VisitRecords /\ y.at = stage /\ y.todo = x.todo /\ y.seen = x.seen
  BY DEF VisitRecords, VisitStages
<1> QED
  BY <1>1 DEF ReadOK, StageOK

LEMMA NextRowOK ==
  ASSUME NEW x \in VisitRecords, NEW left \in SUBSET x.todo, NEW rows, ReadOK(x, rows)
  PROVE  /\ NextRow(x, left) \in VisitRecords
         /\ ReadOK(NextRow(x, left), rows)
         /\ StageOK(NextRow(x, left))
<1> DEFINE y == [x EXCEPT !.at = "write", !.row = NoLead, !.todo = left]
<1>1. CASE left = {}
  BY <1>1, NoVisitType, NoVisitOK DEF NextRow
<1>2. CASE left # {}
  <2>1. y \in VisitRecords /\ y.at = "write" /\ y.todo = left /\ y.seen = x.seen
    BY DEF VisitRecords, VisitStages
  <2>2. NextRow(x, left) = y
    BY <1>2 DEF NextRow
  <2> HIDE DEF y
  <2> QED
    BY <2>1, <2>2 DEF ReadOK, StageOK
<1> QED
  BY <1>1, <1>2

\* A step that writes one row and moves one operation to x.
LEMMA WriteInv ==
  ASSUME CrmInv, NEW v \in Visits, NEW l \in CrmLeads, NEW r \in Rows, NEW x \in VisitRecords,
         lead' = [lead EXCEPT ![l] = r], Grew(lead[l], r), Backed(r),
         visit' = [visit EXCEPT ![v] = x],
         ReadOK(x, lead), StageOK(x)
  PROVE  CrmInv'
<1>1. /\ lead' \in [CrmLeads -> Rows] /\ lead'[l] = r
      /\ \A m \in CrmLeads \ {l} : lead'[m] = lead[m]
  BY DEF CrmInv, CrmTypeOK
<1>2. \A m \in CrmLeads : Grew(lead[m], lead'[m]) /\ Backed(lead'[m])
  BY <1>1, GrewSame DEF CrmInv
<1>3. ReadOK(x, lead')
  BY <1>2, GrowthKeepsRead
<1> QED
  BY <1>1, <1>2, <1>3, CrmStepInv

-----------------------------------------------------------------------------
(* The operations begin *)

LEMMA InputsTyped == LeadInputs \subseteq InputRecords /\ CrmPeople \subseteq Staff
BY CrmAssumption

\* The stages operations begin in, and what they need there.
FirstStages == {"write", "call_write", "claim", "assign", "bind", "transition", "upgrade"}

\* The operation BeginVisit puts in flight.
Begun(S, at, by, input) ==
  [NoVisit EXCEPT !.at = at, !.by = by, !.todo = S, !.input = input, !.seen = [l \in S |-> lead[l]]]

MayStart(S, at, by, input) ==
  /\ S \subseteq CrmLeads /\ at \in FirstStages
  /\ by \in Staff \cup {Nobody} /\ input \in InputRecords
  /\ at \in {"call_write", "upgrade"} => \E l \in CrmLeads : S = {l}
  /\ at \in {"claim", "assign"} => by \in SalesExperts
  /\ at = "bind" =>
       input.status \in Pipeline \/ \E l \in CrmLeads : S = {l} /\ input.status = lead[l].status
  /\ at = "transition" => input.status \in Pipeline /\ \A l \in S : input.status # lead[l].status

\* The actions that begin an operation, but for a transfer.
Reading(v) ==
  \/ \E by \in CrmPeople, l \in CrmLeads, input \in LeadInputs :
       UpdateRead(v, by, l, input) \/ CallRead(v, by, l, input)
  \/ \E by \in CrmPeople \cap Admins, input \in LeadInputs : BulkRead(v, by, input)
  \/ \E by \in CrmPeople \cap SalesExperts, l \in CrmLeads : ClaimRead(v, by, l)
  \/ \E e \in SalesExperts, l \in CrmLeads : AssignRead(v, e, l)
  \/ \E l \in CrmLeads : StartRead(v, l) \/ BackfillRead(v, l) \/ UpgradeRead(v, l)
  \/ \E l \in CrmLeads, status \in {"assessment_incomplete", "assessment_completed"} :
       TransitionRead(v, l, status)

Fresh(x, S, at, by, input) ==
  /\ x.at = at /\ x.by = by /\ x.to = Nobody /\ x.todo = S /\ x.input = input
  /\ DOMAIN x.seen = S /\ \A l \in S : x.seen[l] = lead[l]

LEMMA BegunFields ==
  ASSUME CrmInv, NEW S, S \subseteq CrmLeads, NEW at \in FirstStages,
         NEW by \in Staff \cup {Nobody}, NEW input \in InputRecords
  PROVE  /\ Begun(S, at, by, input) \in VisitRecords
         /\ Fresh(Begun(S, at, by, input), S, at, by, input)
<1> DEFINE rows == [l \in S |-> lead[l]]
           x == [NoVisit EXCEPT !.at = at, !.by = by, !.todo = S, !.input = input, !.seen = rows]
<1>1. rows \in Reads /\ DOMAIN rows = S /\ \A l \in S : rows[l] = lead[l]
  <2>1. rows \in [S -> Rows]
    BY DEF CrmInv, CrmTypeOK
  <2> QED
    BY <2>1 DEF Reads
<1>2. Begun(S, at, by, input) = x
  BY DEF Begun
<1> HIDE DEF rows
<1>3. /\ x \in VisitRecords
      /\ x.at = at /\ x.by = by /\ x.to = Nobody /\ x.todo = S /\ x.seen = rows /\ x.input = input
  BY <1>1, NoVisitType DEF VisitRecords, VisitStages, FirstStages
<1> HIDE DEF x
<1> QED
  BY <1>1, <1>2, <1>3 DEF Fresh

LEMMA BeginInv ==
  ASSUME CrmInv, NEW v \in Visits, NEW S, NEW at, NEW by, NEW input,
         MayStart(S, at, by, input), BeginVisit(v, S, at, by, input), UNCHANGED lead
  PROVE  CrmInv'
<1> DEFINE x == Begun(S, at, by, input)
<1>1. visit' = [visit EXCEPT ![v] = x]
  BY DEF BeginVisit, Begun
<1> HIDE DEF x
<1>2. x \in VisitRecords /\ Fresh(x, S, at, by, input)
  BY BegunFields DEF x, MayStart
<1>3. ReadOK(x, lead)
  BY <1>2, GrewSame DEF Fresh, ReadOK, CrmInv, MayStart
<1>4. StageOK(x)
  <2>1. at = "bind" => \/ input.status \in Pipeline
                       \/ input.status \in LeadStatuses /\ \A l \in S : input.status = lead[l].status
    <3>1. \A l \in CrmLeads : lead[l].status \in LeadStatuses
      BY DEF CrmInv, CrmTypeOK, Rows
    <3> QED
      BY <3>1 DEF MayStart
  <2>2. /\ at \notin {"call_update", "target", "transfer", "upgrade_write"}
        /\ x.at = at /\ x.by = by /\ x.todo = S /\ x.input = input /\ \A l \in S : x.seen[l] = lead[l]
    BY <1>2 DEF Fresh, FirstStages, MayStart
  <2> QED
    BY <2>1, <2>2 DEF StageOK, MayStart
<1> QED
  BY <1>1, <1>2, <1>3, <1>4, MoveInv

LEMMA Begins ==
  ASSUME CrmInv, NEW v \in Visits, Reading(v)
  PROVE  /\ visit[v].at = "idle" /\ UNCHANGED <<lead, trail, untold>>
         /\ \E S, at, by, input : MayStart(S, at, by, input) /\ BeginVisit(v, S, at, by, input)
<1> DEFINE Begun1 == /\ visit[v].at = "idle" /\ UNCHANGED <<lead, trail, untold>>
                     /\ \E S, at, by, input : MayStart(S, at, by, input) /\ BeginVisit(v, S, at, by, input)
<1>1. \A s \in LeadStatuses : OnlyStatus(s) \in InputRecords /\ OnlyStatus(s).status = s
  BY DEF OnlyStatus, InputRecords
<1>2. /\ NoVisit.input \in InputRecords /\ Pipeline \subseteq LeadStatuses
      /\ \A l \in CrmLeads : lead[l].status \in LeadStatuses
  BY NoVisitType DEF VisitRecords, LeadStatuses, CrmInv, CrmTypeOK, Rows
<1>3. ASSUME NEW by \in CrmPeople, NEW l \in CrmLeads, NEW input \in LeadInputs,
             UpdateRead(v, by, l, input)
      PROVE  Begun1
  <2>1. MayStart({l}, "write", by, input)
    BY InputsTyped DEF MayStart, FirstStages
  <2> QED
    BY <1>3, <2>1 DEF UpdateRead, MayBegin
<1>4. ASSUME NEW by \in CrmPeople, NEW l \in CrmLeads, NEW input \in LeadInputs,
             CallRead(v, by, l, input)
      PROVE  Begun1
  <2>1. MayStart({l}, "call_write", by, input)
    BY InputsTyped DEF MayStart, FirstStages
  <2> QED
    BY <1>4, <2>1 DEF CallRead, MayBegin
<1>5. ASSUME NEW by \in CrmPeople \cap Admins, NEW input \in LeadInputs, BulkRead(v, by, input)
      PROVE  Begun1
  <2>1. MayStart(CrmLeads, "write", by, input)
    BY InputsTyped DEF MayStart, FirstStages
  <2> QED
    BY <1>5, <2>1 DEF BulkRead, MayBegin
<1>6. ASSUME NEW by \in CrmPeople \cap SalesExperts, NEW l \in CrmLeads, ClaimRead(v, by, l)
      PROVE  Begun1
  <2>1. MayStart({l}, "claim", by, NoVisit.input)
    BY <1>2, InputsTyped DEF MayStart, FirstStages
  <2> QED
    BY <1>6, <2>1 DEF ClaimRead, MayBegin
<1>7. ASSUME NEW e \in SalesExperts, NEW l \in CrmLeads, AssignRead(v, e, l)
      PROVE  Begun1
  <2>1. MayStart({l}, "assign", e, NoVisit.input)
    BY <1>2 DEF MayStart, FirstStages, Staff
  <2> QED
    BY <1>7, <2>1 DEF AssignRead, MayBegin
<1>8. ASSUME NEW l \in CrmLeads, NEW s \in LeadStatuses, s \in Pipeline \/ s = lead[l].status
      PROVE  MayStart({l}, "bind", Nobody, OnlyStatus(s))
  BY <1>1, <1>8 DEF MayStart, FirstStages
<1>9. ASSUME NEW l \in CrmLeads, StartRead(v, l)
      PROVE  Begun1
  <2>1. MayStart({l}, "bind", Nobody, OnlyStatus("assessment_in_progress"))
    BY <1>2, <1>8 DEF Pipeline
  <2> QED
    BY <1>9, <2>1 DEF StartRead, MayBegin
<1>10. ASSUME NEW l \in CrmLeads, BackfillRead(v, l)
       PROVE  Begun1
  <2>1. PICK s \in IF lead[l].status \in Pipeline THEN Pipeline ELSE {lead[l].status} :
          BeginVisit(v, {l}, "bind", Nobody, OnlyStatus(s))
    BY <1>10 DEF BackfillRead
  <2>2. MayStart({l}, "bind", Nobody, OnlyStatus(s))
    BY <1>2, <1>8
  <2> QED
    BY <1>10, <2>1, <2>2 DEF BackfillRead, MayBegin
<1>11. ASSUME NEW l \in CrmLeads, UpgradeRead(v, l)
       PROVE  Begun1
  <2>1. MayStart({l}, "upgrade", Nobody, NoVisit.input)
    BY <1>2 DEF MayStart, FirstStages
  <2> QED
    BY <1>11, <2>1 DEF UpgradeRead, MayBegin
<1>12. ASSUME NEW l \in CrmLeads, NEW s \in {"assessment_incomplete", "assessment_completed"},
              TransitionRead(v, l, s)
       PROVE  Begun1
  <2>1. s \in Pipeline /\ s # lead[l].status
    BY <1>12 DEF TransitionRead, OpenFor, Pipeline
  <2>2. MayStart({l}, "transition", Nobody, OnlyStatus(s))
    BY <1>1, <1>2, <2>1 DEF MayStart, FirstStages
  <2> QED
    BY <1>12, <2>2 DEF TransitionRead, MayBegin
<1> HIDE DEF Begun1
<1>13. Begun1
  BY <1>3, <1>4, <1>5, <1>6, <1>7, <1>9, <1>10, <1>11, <1>12 DEF Reading
<1> QED
  BY <1>13 DEF Begun1

LEMMA TransferReadInv ==
  ASSUME CrmInv, NEW v \in Visits, NEW by \in CrmPeople, NEW l \in CrmLeads,
         NEW to \in SalesExperts, TransferRead(v, by, l, to)
  PROVE  CrmInv'
<1> DEFINE rows == [m \in {l} |-> lead[m]]
           x == [NoVisit EXCEPT !.at = "target", !.by = by, !.to = to, !.row = l, !.seen = rows]
<1>1. rows \in Reads /\ DOMAIN rows = {l} /\ rows[l] = lead[l]
  <2>1. rows \in [{l} -> Rows]
    BY DEF CrmInv, CrmTypeOK
  <2> QED
    BY <2>1 DEF Reads
<1>2. visit' = [visit EXCEPT ![v] = x] /\ UNCHANGED lead
  BY DEF TransferRead
<1> HIDE DEF rows
<1>3. by \in Staff /\ to \in Owners
  BY InputsTyped DEF Owners, Staff
<1>4. /\ x \in VisitRecords
      /\ x.at = "target" /\ x.to = to /\ x.row = l /\ x.todo = {} /\ x.seen = rows
  BY <1>1, <1>3, NoVisitType DEF VisitRecords, VisitStages
<1> HIDE DEF x
<1>5. ReadOK(x, lead)
  BY <1>1, <1>4, GrewSame DEF ReadOK, CrmInv
<1>6. StageOK(x)
  BY <1>4 DEF StageOK
<1> QED
  BY <1>2, <1>4, <1>5, <1>6, MoveInv

-----------------------------------------------------------------------------
(* ... and go on *)

LEMMA VisitType ==
  ASSUME CrmInv, NEW v \in Visits
  PROVE  /\ visit[v] \in VisitRecords /\ ReadOK(visit[v], lead) /\ StageOK(visit[v])
         /\ visit[v].todo \subseteq CrmLeads /\ visit[v].input \in InputRecords
         /\ \A l \in DOMAIN visit[v].seen : l \in CrmLeads /\ visit[v].seen[l] \in Rows
<1>1. visit[v] \in VisitRecords /\ ReadOK(visit[v], lead) /\ StageOK(visit[v])
  BY DEF CrmInv, CrmTypeOK
<1>2. visit[v].todo \subseteq CrmLeads /\ visit[v].input \in InputRecords /\ visit[v].seen \in Reads
  BY <1>1 DEF VisitRecords
<1> QED
  BY <1>1, <1>2 DEF Reads

LEMMA RowSkipInv ==
  ASSUME CrmInv, NEW v \in Visits, RowSkip(v)
  PROVE  CrmInv'
<1>1. PICK l \in visit[v].todo : visit' = [visit EXCEPT ![v] = NextRow(visit[v], visit[v].todo \ {l})]
  BY VisitType DEF RowSkip, CrmInv, CrmTypeOK
<1>2. UNCHANGED lead
  BY DEF RowSkip
<1> DEFINE x == NextRow(visit[v], visit[v].todo \ {l})
<1>3. x \in VisitRecords /\ ReadOK(x, lead) /\ StageOK(x)
  BY VisitType, NextRowOK
<1> QED
  BY <1>1, <1>2, <1>3, MoveInv

LEMMA AfterWriteOK ==
  ASSUME NEW x \in VisitRecords, NEW l \in x.todo, NEW rows, ReadOK(x, rows)
  PROVE  /\ AfterWrite(x, l) \in VisitRecords
         /\ ReadOK(AfterWrite(x, l), rows)
         /\ StageOK(AfterWrite(x, l))
<1> DEFINE y == [x EXCEPT !.row = l, !.todo = @ \ {l}]
<1>1. /\ y \in VisitRecords /\ y.todo = x.todo \ {l} /\ y.seen = x.seen
      /\ ReadOK(y, rows)
  <2>1. y \in VisitRecords /\ y.todo = x.todo \ {l} /\ y.seen = x.seen
    BY DEF VisitRecords
  <2> HIDE DEF y
  <2> QED
    BY <2>1 DEF ReadOK
<1>2. \/ AfterWrite(x, l) = [y EXCEPT !.at = "log_status"]
      \/ AfterWrite(x, l) = [y EXCEPT !.at = "log_owner"]
      \/ AfterWrite(x, l) = NextRow(x, x.todo \ {l})
  BY DEF AfterWrite
<1> HIDE DEF y
<1>3. ASSUME NEW stage \in {"log_status", "log_owner"}, AfterWrite(x, l) = [y EXCEPT !.at = stage]
      PROVE  /\ AfterWrite(x, l) \in VisitRecords
             /\ ReadOK(AfterWrite(x, l), rows)
             /\ StageOK(AfterWrite(x, l))
  <2> DEFINE z == [y EXCEPT !.at = stage]
  <2>1. z \in VisitRecords /\ ReadOK(z, rows) /\ StageOK(z)
    BY <1>1, FreeStage
  <2>2. AfterWrite(x, l) = z
    BY <1>3
  <2> HIDE DEF z
  <2> QED
    BY <2>1, <2>2
<1>4. CASE AfterWrite(x, l) = NextRow(x, x.todo \ {l})
  BY <1>4, NextRowOK
<1> QED
  BY <1>2, <1>3, <1>4

\* updateConsultationLead, checked on the row as it was read.
LEMMA RowWriteInv ==
  ASSUME CrmInv, NEW v \in Visits, RowWrite(v)
  PROVE  CrmInv'
<1>1. PICK l \in visit[v].todo :
        /\ Acceptable(visit[v].seen[l], visit[v].input)
        /\ lead' = [lead EXCEPT ![l] = Written(lead[l], visit[v].seen[l], visit[v].input)]
        /\ visit' = [visit EXCEPT ![v] = AfterWrite(visit[v], l)]
  BY VisitType DEF RowWrite, CrmInv, CrmTypeOK
<1> DEFINE r == Written(lead[l], visit[v].seen[l], visit[v].input)
           x == AfterWrite(visit[v], l)
<1>3. l \in CrmLeads /\ l \in DOMAIN visit[v].seen /\ lead[l] \in Rows /\ Backed(lead[l])
  BY VisitType DEF ReadOK, CrmInv, CrmTypeOK
<1>4. /\ visit[v].seen[l] \in Rows /\ visit[v].input \in InputRecords
      /\ Backed(visit[v].seen[l]) /\ Grew(visit[v].seen[l], lead[l])
  BY <1>3, VisitType DEF ReadOK
<1>5. r \in Rows /\ Backed(r) /\ Grew(lead[l], r)
  BY <1>1, <1>3, <1>4, WrittenIsBacked
<1>6. x \in VisitRecords /\ ReadOK(x, lead) /\ StageOK(x)
  BY VisitType, AfterWriteOK
<1>7. lead' = [lead EXCEPT ![l] = r] /\ visit' = [visit EXCEPT ![v] = x]
  BY <1>1
<1> HIDE DEF r, x
<1> QED
  BY <1>3, <1>5, <1>6, <1>7, WriteInv

\* The activity of a row is recorded and the next one is due.
LEMMA LogInv ==
  ASSUME CrmInv, NEW v \in Visits, LogStatus(v) \/ LogOwner(v)
  PROVE  CrmInv'
<1> DEFINE x == visit[v]
<1>1. UNCHANGED lead
  BY DEF LogStatus, LogOwner
<1>2. \/ visit' = [visit EXCEPT ![v] = NextRow(x, x.todo)]
      \/ VisitGoto(v, "log_owner")
  BY DEF LogStatus, LogOwner
<1>3. CASE visit' = [visit EXCEPT ![v] = NextRow(x, x.todo)]
  <2>1. /\ NextRow(x, x.todo) \in VisitRecords
        /\ ReadOK(NextRow(x, x.todo), lead) /\ StageOK(NextRow(x, x.todo))
    BY VisitType, NextRowOK
  <2> QED
    BY <1>1, <1>3, <2>1, MoveInv
<1>4. CASE VisitGoto(v, "log_owner")
  <2> DEFINE y == [x EXCEPT !.at = "log_owner"]
  <2>1. visit' = [visit EXCEPT ![v] = y]
    BY <1>4 DEF VisitGoto
  <2>2. y \in VisitRecords /\ ReadOK(y, lead) /\ StageOK(y)
    BY VisitType, FreeStage
  <2> QED
    BY <1>1, <2>1, <2>2, MoveInv
<1> QED
  BY <1>2, <1>3, <1>4

-----------------------------------------------------------------------------
(* Calls, transfers and claims *)

LEMMA CallWriteInv ==
  ASSUME CrmInv, NEW v \in Visits, CallWrite(v)
  PROVE  CrmInv'
<1> DEFINE x == IF visit[v].input.status = "keep" /\ ~visit[v].input.reason
                THEN NoVisit ELSE [visit[v] EXCEPT !.at = "call_update"]
<1>1. PICK l \in visit[v].todo : lead' = [lead EXCEPT ![l] = [lead[l] EXCEPT !.called = TRUE]]
  BY DEF CallWrite
<1>2. visit' = [visit EXCEPT ![v] = x] /\ visit[v].at = "call_write"
  BY DEF CallWrite, EndVisit, VisitGoto
<1>3. l \in CrmLeads /\ lead[l] \in Rows /\ Backed(lead[l])
  BY VisitType DEF CrmInv, CrmTypeOK
<1> DEFINE r == [lead[l] EXCEPT !.called = TRUE]
<1>4. r \in Rows /\ Grew(lead[l], r) /\ Backed(r)
  <2>1. /\ r \in Rows /\ r.called = TRUE /\ r.status = lead[l].status /\ r.reason = lead[l].reason
        /\ r.contactedAt = lead[l].contactedAt /\ r.closedAt = lead[l].closedAt
    BY <1>3 DEF Rows
  <2> HIDE DEF r
  <2> QED
    BY <1>3, <2>1 DEF Grew, Backed
<1>5. x \in VisitRecords /\ ReadOK(x, lead) /\ StageOK(x)
  <2> DEFINE y == [visit[v] EXCEPT !.at = "call_update"]
  <2>1. y \in VisitRecords /\ y.at = "call_update" /\ y.todo = visit[v].todo /\ y.seen = visit[v].seen
    BY VisitType DEF VisitRecords, VisitStages
  <2>2. x = y \/ x = NoVisit
    OBVIOUS
  <2> HIDE DEF x, y
  <2>3. ReadOK(y, lead) /\ StageOK(y)
    BY <2>1, <1>2, VisitType DEF ReadOK, StageOK
  <2> QED
    BY <2>1, <2>2, <2>3, NoVisitType, NoVisitOK
<1>6. lead' = [lead EXCEPT ![l] = r]
  BY <1>1
<1> HIDE DEF r, x
<1> QED
  BY <1>2, <1>3, <1>4, <1>5, <1>6, WriteInv

\* The second read of logCall, on which the update is decided.
LEMMA CallUpdateInv ==
  ASSUME CrmInv, NEW v \in Visits, CallUpdate(v)
  PROVE  CrmInv'
<1> DEFINE l == CHOOSE l \in visit[v].todo : TRUE
           rows == [m \in {l} |-> lead[m]]
           x == [visit[v] EXCEPT !.at = "write", !.seen = rows]
<1>1. UNCHANGED lead /\ visit[v].at = "call_update"
  BY DEF CallUpdate
<1>2. l \in CrmLeads /\ visit[v].todo = {l}
  BY <1>1, VisitType DEF StageOK
<1>3. EndVisit(v) \/ visit' = [visit EXCEPT ![v].at = "write", ![v].seen = rows]
  BY DEF CallUpdate
<1> HIDE DEF l
<1>4. rows \in Reads /\ DOMAIN rows = {l} /\ rows[l] = lead[l]
  <2>1. rows \in [{l} -> Rows]
    BY <1>2 DEF CrmInv, CrmTypeOK
  <2> QED
    BY <1>2, <2>1 DEF Reads
<1> HIDE DEF rows
<1>5. x \in VisitRecords /\ x.at = "write" /\ x.todo = {l} /\ x.seen = rows
  BY <1>2, <1>4, VisitType DEF VisitRecords, VisitStages
<1>6. visit' = [visit EXCEPT ![v].at = "write", ![v].seen = rows] => visit' = [visit EXCEPT ![v] = x]
  BY DEF CrmInv, CrmTypeOK
<1> HIDE DEF x
<1>7. ReadOK(x, lead) /\ StageOK(x)
  BY <1>2, <1>4, <1>5, GrewSame DEF ReadOK, StageOK, CrmInv
<1> QED
  BY <1>1, <1>3, <1>5, <1>6, <1>7, EndInv, MoveInv

LEMMA TransferTargetInv ==
  ASSUME CrmInv, NEW v \in Visits, TransferTarget(v)
  PROVE  CrmInv'
<1> DEFINE x == [visit[v] EXCEPT !.at = "transfer"]
<1>1. /\ UNCHANGED lead /\ visit[v].at = "target"
      /\ EndVisit(v) \/ visit' = [visit EXCEPT ![v] = x]
  BY DEF TransferTarget, VisitGoto
<1>2. /\ x \in VisitRecords /\ x.at = "transfer" /\ x.todo = visit[v].todo /\ x.seen = visit[v].seen
      /\ x.row = visit[v].row /\ x.to = visit[v].to
  BY VisitType DEF VisitRecords, VisitStages
<1> HIDE DEF x
<1>3. ReadOK(x, lead) /\ StageOK(x)
  BY <1>1, <1>2, VisitType DEF ReadOK, StageOK
<1> QED
  BY <1>1, <1>2, <1>3, EndInv, MoveInv

\* Giving a lead away leaves its marks alone.
LEMMA OwnerOnly ==
  ASSUME NEW row \in Rows, NEW e \in Owners, Backed(row)
  PROVE  /\ [row EXCEPT !.owner = e] \in Rows /\ [row EXCEPT !.owner = e].owner = e
         /\ Backed([row EXCEPT !.owner = e])
         /\ Grew(row, [row EXCEPT !.owner = e])
<1> DEFINE r == [row EXCEPT !.owner = e]
<1>1. /\ r \in Rows /\ r.owner = e /\ r.called = row.called /\ r.status = row.status
      /\ r.reason = row.reason /\ r.contactedAt = row.contactedAt /\ r.closedAt = row.closedAt
  BY DEF Rows
<1> HIDE DEF r
<1>2. Backed(r) /\ Grew(row, r)
  BY <1>1 DEF Backed, Grew
<1> QED
  BY <1>1, <1>2 DEF r

LEMMA TransferWriteInv ==
  ASSUME CrmInv, NEW v \in Visits, TransferWrite(v)
  PROVE  CrmInv'
<1> DEFINE l == visit[v].row
           r == [lead[l] EXCEPT !.owner = visit[v].to]
           x == [visit[v] EXCEPT !.at = "log_owner"]
<1>1. visit[v].at = "transfer"
  BY DEF TransferWrite
<1>2. l \in CrmLeads /\ visit[v].to \in Owners /\ lead[l] \in Rows /\ Backed(lead[l])
  BY <1>1, VisitType DEF StageOK, Owners, Staff, CrmInv, CrmTypeOK
<1>3. r \in Rows /\ Backed(r) /\ Grew(lead[l], r)
  BY <1>2, OwnerOnly
<1>4. x \in VisitRecords /\ ReadOK(x, lead) /\ StageOK(x)
  BY VisitType, FreeStage
<1>5. lead' = [lead EXCEPT ![l] = r] /\ visit' = [visit EXCEPT ![v] = x]
  BY DEF TransferWrite, VisitGoto
<1> HIDE DEF l, r, x
<1> QED
  BY <1>2, <1>3, <1>4, <1>5, WriteInv

\* What Take and Promoted leave of an operation: an activity is next.
Last(x, stage, to, input, l) ==
  [x EXCEPT !.at = stage, !.to = to, !.input = input, !.row = l, !.todo = {}]

LEMMA LastRow ==
  ASSUME CrmInv, NEW v \in Visits, NEW l \in CrmLeads,
         NEW stage \in {"log_status", "log_owner"}, NEW to \in Owners, NEW input \in InputRecords
  PROVE  /\ Last(visit[v], stage, to, input, l) \in VisitRecords
         /\ ReadOK(Last(visit[v], stage, to, input, l), lead)
         /\ StageOK(Last(visit[v], stage, to, input, l))
         /\ Last(visit[v], stage, to, input, l).at = stage
         /\ Last(visit[v], stage, to, input, l).to = to
         /\ Last(visit[v], stage, to, input, l).input = input
         /\ Last(visit[v], stage, to, input, l).row = l
         /\ Last(visit[v], stage, to, input, l).todo = {}
         /\ Last(visit[v], stage, to, input, l).seen = visit[v].seen
<1> DEFINE x == Last(visit[v], stage, to, input, l)
<1>1. /\ x \in VisitRecords /\ x.at = stage /\ x.to = to /\ x.input = input /\ x.row = l
      /\ x.todo = {} /\ x.seen = visit[v].seen
  BY VisitType DEF VisitRecords, VisitStages, Last
<1> HIDE DEF x
<1>2. ReadOK(x, lead) /\ StageOK(x)
  BY <1>1, VisitType DEF ReadOK, StageOK
<1> QED
  BY <1>1, <1>2 DEF x

LEMMA TakeIs ==
  ASSUME CrmInv, NEW v \in Visits, NEW l \in CrmLeads, Take(v, l)
  PROVE  /\ lead' = [lead EXCEPT ![l] = [lead[l] EXCEPT !.owner = visit[v].by]]
         /\ visit' = [visit EXCEPT ![v] = Last(visit[v], "log_owner", visit[v].by, visit[v].input, l)]
<1>1. /\ visit \in [Visits -> VisitRecords]
      /\ Last(visit[v], "log_owner", visit[v].by, visit[v].input, l)
         = [visit[v] EXCEPT !.at = "log_owner", !.to = visit[v].by, !.row = l, !.todo = {}]
  BY DEF CrmInv, CrmTypeOK, VisitRecords, Last
<1> QED
  BY <1>1 DEF Take

LEMMA TakeInv ==
  ASSUME CrmInv, NEW v \in Visits, ClaimWrite(v) \/ AssignWrite(v)
  PROVE  CrmInv'
<1>1. visit[v].by \in SalesExperts /\ visit[v].todo \subseteq CrmLeads
  BY VisitType DEF ClaimWrite, AssignWrite, StageOK
<1>2. PICK l \in visit[v].todo : Take(v, l) \/ (EndVisit(v) /\ lead' = lead)
  BY DEF ClaimWrite, AssignWrite
<1>3. CASE EndVisit(v) /\ lead' = lead
  BY <1>3, EndInv
<1>4. CASE Take(v, l)
  <2> DEFINE r == [lead[l] EXCEPT !.owner = visit[v].by]
             x == Last(visit[v], "log_owner", visit[v].by, visit[v].input, l)
  <2>1. l \in CrmLeads /\ visit[v].by \in Owners /\ visit[v].input \in InputRecords
        /\ lead[l] \in Rows /\ Backed(lead[l])
    BY <1>1, VisitType DEF Owners, Staff, CrmInv, CrmTypeOK
  <2>2. r \in Rows /\ Backed(r) /\ Grew(lead[l], r)
    BY <2>1, OwnerOnly
  <2>3. lead' = [lead EXCEPT ![l] = r] /\ visit' = [visit EXCEPT ![v] = x]
    BY <1>1, <1>4, <2>1, TakeIs
  <2>4. x \in VisitRecords /\ ReadOK(x, lead) /\ StageOK(x)
    BY <2>1, LastRow
  <2> HIDE DEF r, x
  <2> QED
    BY <2>1, <2>2, <2>3, <2>4, WriteInv
<1> QED
  BY <1>2, <1>3, <1>4

\* A status that asks for no backing, or stands backed already, may be written.
LEMMA StatusOnly ==
  ASSUME NEW row \in Rows, NEW s \in LeadStatuses, Backed(row),
         \/ s \in Pipeline \cup {"new"}
         \/ \E read : Backed(read) /\ Grew(read, row) /\ s = read.status
  PROVE  /\ [row EXCEPT !.status = s] \in Rows
         /\ [row EXCEPT !.status = s].status = s /\ [row EXCEPT !.status = s].owner = row.owner
         /\ Backed([row EXCEPT !.status = s])
         /\ Grew(row, [row EXCEPT !.status = s])
<1> DEFINE r == [row EXCEPT !.status = s]
<1>1. /\ r \in Rows /\ r.status = s /\ r.owner = row.owner /\ r.called = row.called
      /\ r.reason = row.reason /\ r.contactedAt = row.contactedAt /\ r.closedAt = row.closedAt
  BY DEF Rows
<1> HIDE DEF r
<1>2. Grew(row, r)
  BY <1>1 DEF Grew
<1>3. Backed(r)
  BY <1>1 DEF Backed, Grew, Pipeline
<1> QED
  BY <1>1, <1>2, <1>3 DEF r

LEMMA BindWriteInv ==
  ASSUME CrmInv, NEW v \in Visits, BindWrite(v)
  PROVE  CrmInv'
<1> DEFINE s == visit[v].input.status
<1>1. PICK l \in visit[v].todo : lead' = [lead EXCEPT ![l] = [lead[l] EXCEPT !.status = s]]
  BY DEF BindWrite
<1>2. /\ l \in CrmLeads /\ l \in DOMAIN visit[v].seen /\ lead[l] \in Rows /\ Backed(lead[l])
      /\ Backed(visit[v].seen[l]) /\ Grew(visit[v].seen[l], lead[l])
  BY VisitType DEF ReadOK, CrmInv, CrmTypeOK
<1>3. s \in LeadStatuses /\ (s \in Pipeline \/ s = visit[v].seen[l].status)
  BY VisitType DEF BindWrite, StageOK, LeadStatuses
<1> DEFINE r == [lead[l] EXCEPT !.status = s]
<1> HIDE DEF s
<1>4. r \in Rows /\ Backed(r) /\ Grew(lead[l], r)
  BY <1>2, <1>3, StatusOnly
<1>5. lead' = [lead EXCEPT ![l] = r] /\ visit' = [visit EXCEPT ![v] = NoVisit]
  BY <1>1 DEF BindWrite, EndVisit
<1> HIDE DEF r
<1> QED
  BY <1>2, <1>4, <1>5, NoVisitType, NoVisitOK, WriteInv

LEMMA PromotedIs ==
  ASSUME CrmInv, NEW v \in Visits, NEW l \in CrmLeads, NEW s \in LeadStatuses,
         visit' = Promoted(v, l, s)
  PROVE  /\ OnlyStatus(s) \in InputRecords /\ OnlyStatus(s).status = s /\ OnlyStatus(s).owner = "keep"
         /\ visit' = [visit EXCEPT ![v] = Last(visit[v], "log_status", visit[v].to, OnlyStatus(s), l)]
<1>1. OnlyStatus(s) \in InputRecords /\ OnlyStatus(s).status = s /\ OnlyStatus(s).owner = "keep"
  BY DEF OnlyStatus, InputRecords
<1>2. /\ visit \in [Visits -> VisitRecords]
      /\ Last(visit[v], "log_status", visit[v].to, OnlyStatus(s), l)
         = [visit[v] EXCEPT !.at = "log_status", !.input = OnlyStatus(s), !.row = l, !.todo = {}]
  BY DEF CrmInv, CrmTypeOK, VisitRecords, Last
<1> QED
  BY <1>1, <1>2 DEF Promoted

\* The system writes a status that asks for no backing, or leaves the row's own.
LEMMA PromoteInv ==
  ASSUME CrmInv, NEW v \in Visits, NEW l \in visit[v].todo, NEW s \in LeadStatuses,
         s \in Pipeline \cup {"new"} \/ s = lead[l].status,
         lead' = [lead EXCEPT ![l].status = s],
         visit' = Promoted(v, l, s) \/ EndVisit(v)
  PROVE  CrmInv'
<1> DEFINE r == [lead[l] EXCEPT !.status = s]
           x == Last(visit[v], "log_status", visit[v].to, OnlyStatus(s), l)
<1>1. l \in CrmLeads /\ lead[l] \in Rows /\ Backed(lead[l]) /\ visit[v].to \in Owners
  BY VisitType DEF CrmInv, CrmTypeOK, VisitRecords
<1>2. r \in Rows /\ Backed(r) /\ Grew(lead[l], r)
  BY <1>1, GrewSame, StatusOnly
<1>3. lead' = [lead EXCEPT ![l] = r]
  OBVIOUS
<1>4. CASE visit' = Promoted(v, l, s)
  <2>1. visit' = [visit EXCEPT ![v] = x] /\ OnlyStatus(s) \in InputRecords
    BY <1>1, <1>4, PromotedIs
  <2>2. x \in VisitRecords /\ ReadOK(x, lead) /\ StageOK(x)
    BY <1>1, <2>1, LastRow
  <2> HIDE DEF r, x
  <2> QED
    BY <1>1, <1>2, <1>3, <2>1, <2>2, WriteInv
<1>5. CASE EndVisit(v)
  <2> HIDE DEF r
  <2> QED
    BY <1>1, <1>2, <1>3, <1>5, NoVisitType, NoVisitOK, WriteInv DEF EndVisit
<1> QED
  BY <1>4, <1>5

LEMMA TransitionWriteInv ==
  ASSUME CrmInv, NEW v \in Visits, TransitionWrite(v)
  PROVE  CrmInv'
<1> DEFINE s == visit[v].input.status
<1>1. s \in Pipeline /\ s \in LeadStatuses
  BY VisitType DEF TransitionWrite, StageOK, LeadStatuses
<1>2. PICK l \in visit[v].todo :
        \/ lead' = [lead EXCEPT ![l].status = s] /\ visit' = Promoted(v, l, s)
        \/ EndVisit(v) /\ UNCHANGED lead
  BY DEF TransitionWrite
<1> HIDE DEF s
<1> QED
  BY <1>1, <1>2, PromoteInv, EndInv

LEMMA UpgradeDecideInv ==
  ASSUME CrmInv, NEW v \in Visits, UpgradeDecide(v)
  PROVE  CrmInv'
<1>1. PICK s \in {"new", "keep"} :
        visit' = [visit EXCEPT ![v].at = "upgrade_write", ![v].input = OnlyStatus(s)]
  BY DEF UpgradeDecide
<1> DEFINE in == OnlyStatus(s)
           x == [visit[v] EXCEPT !.at = "upgrade_write", !.input = in]
<1>2. in \in InputRecords /\ in.status = s
  BY DEF OnlyStatus, InputRecords, LeadStatuses
<1>3. visit' = [visit EXCEPT ![v] = x] /\ UNCHANGED lead
  BY <1>1 DEF CrmInv, CrmTypeOK, UpgradeDecide
<1> HIDE DEF in
<1>4. /\ x \in VisitRecords /\ x.at = "upgrade_write" /\ x.input = in
      /\ x.todo = visit[v].todo /\ x.seen = visit[v].seen
  BY <1>2, VisitType DEF VisitRecords, VisitStages
<1> HIDE DEF x
<1>5. ReadOK(x, lead) /\ StageOK(x)
  BY <1>2, <1>4, VisitType DEF ReadOK, StageOK
<1> QED
  BY <1>3, <1>4, <1>5, MoveInv

LEMMA UpgradeWriteInv ==
  ASSUME CrmInv, NEW v \in Visits, UpgradeWrite(v)
  PROVE  CrmInv'
<1> DEFINE next(l) == IF visit[v].input.status = "keep" THEN lead[l].status ELSE visit[v].input.status
<1>1. PICK l \in visit[v].todo :
        /\ lead' = [lead EXCEPT ![l].status = next(l)]
        /\ visit' = Promoted(v, l, next(l)) \/ EndVisit(v)
  BY DEF UpgradeWrite
<1>2. visit[v].input.status \in {"new", "keep"} /\ lead[l] \in Rows
  BY VisitType DEF UpgradeWrite, StageOK, CrmInv, CrmTypeOK
<1> DEFINE s == next(l)
<1>3. s \in LeadStatuses /\ (s = "new" \/ s = lead[l].status)
  BY <1>2 DEF Rows, LeadStatuses
<1>4. lead' = [lead EXCEPT ![l].status = s] /\ (visit' = Promoted(v, l, s) \/ EndVisit(v))
  BY <1>1
<1> HIDE DEF s
<1> QED
  BY <1>3, <1>4, PromoteInv

-----------------------------------------------------------------------------
LEMMA CrmInitInv == CrmInit => CrmInv
<1> SUFFICES ASSUME CrmInit PROVE CrmInv
  OBVIOUS
<1>1. PICK f \in FirstRows : lead = [l \in CrmLeads |-> NewRow(f[l].status, f[l].owner)]
  BY DEF CrmInit, LeadsInit
<1>2. ASSUME NEW l \in CrmLeads
      PROVE  lead[l] \in Rows /\ Backed(lead[l])
  <2>1. f[l].status \in Pipeline \cup {"new"} /\ f[l].owner \in Owners
    BY CrmAssumption DEF Owners, Staff
  <2>2. lead[l] = NewRow(f[l].status, f[l].owner)
    BY <1>1
  <2> QED
    BY <2>1, <2>2 DEF NewRow, Rows, LeadStatuses, Pipeline, Backed
<1>3. lead \in [CrmLeads -> Rows]
  BY <1>1, <1>2
<1>4. visit = [v \in Visits |-> NoVisit]
  BY DEF CrmInit, LeadsInit
<1> QED
  BY <1>2, <1>3, <1>4, NoVisitType, NoVisitOK DEF CrmInv, CrmTypeOK

LEMMA VisitStepInv ==
  ASSUME CrmInv, NEW v \in Visits, VisitStep(v)
  PROVE  CrmInv'
<1>1. CASE Reading(v)
  BY <1>1, Begins, BeginInv
<1>2. CASE RowSkip(v)
  BY <1>2, RowSkipInv
<1>3. CASE RowThrow(v) \/ CrmAbort(v)
  BY <1>3, EndInv DEF RowThrow, CrmAbort
<1>4. CASE RowWrite(v)
  BY <1>4, RowWriteInv
<1>5. CASE LogStatus(v) \/ LogOwner(v)
  BY <1>5, LogInv
<1>6. CASE CallWrite(v)
  BY <1>6, CallWriteInv
<1>7. CASE CallUpdate(v)
  BY <1>7, CallUpdateInv
<1>8. ASSUME NEW by \in CrmPeople, NEW l \in CrmLeads, NEW to \in SalesExperts, TransferRead(v, by, l, to)
      PROVE  CrmInv'
  BY <1>8, TransferReadInv
<1>9. CASE TransferTarget(v)
  BY <1>9, TransferTargetInv
<1>10. CASE TransferWrite(v)
  BY <1>10, TransferWriteInv
<1>11. CASE ClaimWrite(v) \/ AssignWrite(v)
  BY <1>11, TakeInv
<1>12. CASE BindWrite(v)
  BY <1>12, BindWriteInv
<1>13. CASE TransitionWrite(v)
  BY <1>13, TransitionWriteInv
<1>14. CASE UpgradeDecide(v)
  BY <1>14, UpgradeDecideInv
<1>15. CASE UpgradeWrite(v)
  BY <1>15, UpgradeWriteInv
<1> QED
  BY <1>1, <1>2, <1>3, <1>4, <1>5, <1>6, <1>7, <1>8, <1>9, <1>10, <1>11, <1>12, <1>13, <1>14,
     <1>15 DEF VisitStep, Reading

LEMMA CrmNextInv ==
  ASSUME CrmInv, [CrmNext]_crmVars
  PROVE  CrmInv'
<1>1. CASE UNCHANGED crmVars
  BY <1>1 DEF crmVars, crmOwn, CrmInv, CrmTypeOK
<1>2. ASSUME NEW e \in SalesExperts, ExpertSwitched(e)
      PROVE  CrmInv'
  BY <1>2 DEF ExpertSwitched, CrmInv, CrmTypeOK
<1>3. CASE CrmNext
  BY <1>2, <1>3, VisitStepInv DEF CrmNext
<1> QED
  BY <1>1, <1>3

\* The strengthened invariant holds of every behaviour of the CRM.
THEOREM CrmInvariance == CrmSpec => []CrmInv
BY CrmInitInv, CrmNextInv, PTL DEF CrmSpec

\* However updates, bulk updates, calls, transfers, claims and what the system
\* writes of its own accord overlap or die, a lead's status is backed by the
\* dates, the reason and the call it needs.
THEOREM StatusIsAlwaysBacked == CrmSpec => []StatusIsBacked
<1>1. CrmInv => StatusIsBacked
  BY DEF CrmInv, StatusIsBacked, Backed
<1> QED
  BY <1>1, CrmInvariance, PTL

-----------------------------------------------------------------------------
(* The activities                                                          *)
(*                                                                         *)
(* While an operation is between a row and its activities, trail and lead  *)
(* differ by what it is still to record; nobody else is near that lead.    *)

Trails == [owner : Owners, status : LeadStatuses, ownerChained : BOOLEAN, statusChained : BOOLEAN]

\* The activities t of l end where the row r stands, but for the status of a
\* lead of gaps.
Stands(l, r, t, gaps) ==
  /\ t.owner = r.owner /\ t.ownerChained = TRUE
  /\ l \notin gaps => t.status = r.status /\ t.statusChained = TRUE

Logging(x, l) == x.at \in {"log_status", "log_owner"} /\ x.row = l

\* What row r of l and its activities t are while x is the only one to have
\* read l: the row is as read until it is written, and a row that is written
\* differs from its activities by the input.
Told(l, x, r, t, gaps) ==
  /\ t.ownerChained = TRUE
  /\ l \notin gaps => t.statusChained = TRUE
  /\ ~Logging(x, l) =>
       /\ Stands(l, r, t, gaps)
       /\ l \in x.todo \/ x.at \in {"target", "transfer"} =>
            r.status = x.seen[l].status /\ r.owner = x.seen[l].owner
  /\ Logging(x, l) => t.owner = x.seen[l].owner
  /\ Logging(x, l) /\ x.at = "log_status" =>
       /\ l \notin gaps => t.status = x.seen[l].status
       /\ r.status = x.input.status
       /\ r.owner = IF x.input.owner = "keep" THEN x.seen[l].owner ELSE x.input.owner
  /\ Logging(x, l) /\ x.at = "log_owner" =>
       /\ l \notin gaps => t.status = r.status
       /\ r.owner = IF x.to = Nobody THEN x.input.owner ELSE x.to
  /\ x.at = "upgrade_write" /\ l \in x.todo /\ x.input.status = "new" => x.seen[l].status \in Pipeline

\* What an operation has to record, and of which row.
Recording(x) ==
  /\ x.at = "idle" => DOMAIN x.seen = {}
  /\ x.at \in {"write", "call_write", "call_update", "log_status",
              "transition", "upgrade", "upgrade_write"} => x.to = Nobody
  /\ x.at = "transition" => \A l \in x.todo : x.input.status # x.seen[l].status
  /\ x.at \in {"log_status", "log_owner"} => x.row \in DOMAIN x.seen /\ x.row \notin x.todo
  /\ x.at = "log_status" => Changes(x.seen[x.row], x.input)
  /\ x.at = "log_owner" /\ x.to = Nobody => Reassigns(x.seen[x.row], x.input)
  /\ x.at = "log_owner" => x.to = Nobody \/ x.todo = {}
  /\ x.at \in {"target", "transfer"} => x.row \in DOMAIN x.seen /\ x.todo = {}

Readers(l) == {v \in Visits : l \in DOMAIN visit[v].seen}

HistoryInv ==
  /\ trail \in [CrmLeads -> Trails]
  /\ \A v \in Visits : Recording(visit[v])
  /\ \A l \in CrmLeads \ disturbed :
       /\ \A v, w \in Readers(l) : v = w
       /\ \A v \in Readers(l) : Told(l, visit[v], lead[l], trail[l], untold)
       /\ Readers(l) = {} => Stands(l, lead[l], trail[l], untold)

\* A lead with a new gap needs no more than before.
LEMMA WiderGaps ==
  ASSUME NEW l, NEW x, NEW r, NEW t, NEW gaps, NEW wider, gaps \subseteq wider
  PROVE  /\ Stands(l, r, t, gaps) => Stands(l, r, t, wider)
         /\ Told(l, x, r, t, gaps) => Told(l, x, r, t, wider)
BY DEF Told, Stands

\* What every step comes down to, for the operation v that becomes x: it
\* accounts for the leads it has read and touches no other.
LEMMA HistoryStep ==
  ASSUME CrmInv, HistoryInv, NEW v \in Visits, NEW x \in VisitRecords, Recording(x),
         visit' = [visit EXCEPT ![v] = x],
         trail' \in [CrmLeads -> Trails],
         disturbed \subseteq disturbed', untold \subseteq untold',
         \A l \in CrmLeads \ DOMAIN visit[v].seen : lead'[l] = lead[l] /\ trail'[l] = trail[l],
         \A l \in DOMAIN x.seen \ disturbed' :
           /\ l \in DOMAIN visit[v].seen \/ Readers(l) = {}
           /\ Told(l, x, lead'[l], trail'[l], untold'),
         \A l \in DOMAIN visit[v].seen \ (DOMAIN x.seen \cup disturbed') :
           Stands(l, lead'[l], trail'[l], untold')
  PROVE  HistoryInv'
<1>1. visit'[v] = x /\ \A w \in Visits \ {v} : visit'[w] = visit[w]
  BY DEF CrmInv, CrmTypeOK
<1>2. \A w \in Visits : Recording(visit'[w])
  BY <1>1 DEF HistoryInv
<1>3. ASSUME NEW l \in CrmLeads \ disturbed'
      PROVE  /\ \A u, w \in Readers(l)' : u = w
             /\ \A w \in Readers(l)' : Told(l, visit'[w], lead'[l], trail'[l], untold')
             /\ Readers(l)' = {} => Stands(l, lead'[l], trail'[l], untold')
  <2>1. /\ \A u, w \in Readers(l) : u = w
        /\ \A w \in Readers(l) : Told(l, visit[w], lead[l], trail[l], untold)
        /\ Readers(l) = {} => Stands(l, lead[l], trail[l], untold)
    BY DEF HistoryInv
  <2>2. \A w \in Visits \ {v} : w \in Readers(l)' <=> w \in Readers(l)
    BY <1>1 DEF Readers
  <2>3. Readers(l) \subseteq Visits /\ Readers(l)' \subseteq Visits
    BY DEF Readers
  <2>4. /\ v \in Readers(l) <=> l \in DOMAIN visit[v].seen
        /\ v \in Readers(l)' <=> l \in DOMAIN x.seen
    BY <1>1 DEF Readers
  <2>5. CASE l \in DOMAIN x.seen
    <3>1. Readers(l)' = {v}
      BY <2>1, <2>2, <2>3, <2>4, <2>5
    <3>2. Told(l, visit'[v], lead'[l], trail'[l], untold')
      BY <1>1, <2>5
    <3> QED
      BY <3>1, <3>2
  <2>6. CASE l \notin DOMAIN x.seen /\ l \in DOMAIN visit[v].seen
    <3>1. Readers(l)' = {}
      BY <2>1, <2>2, <2>3, <2>4, <2>6
    <3> QED
      BY <3>1, <2>6
  <2>7. CASE l \notin DOMAIN x.seen /\ l \notin DOMAIN visit[v].seen
    <3>1. v \notin Readers(l) /\ Readers(l)' = Readers(l)
      <4>1. v \notin Readers(l) /\ v \notin Readers(l)'
        BY <2>4, <2>7
      <4>2. \A w \in Visits : w \in Readers(l)' <=> w \in Readers(l)
        BY <2>2, <4>1
      <4> HIDE DEF Readers
      <4> QED
        BY <2>3, <4>1, <4>2, Zenon
    <3>2. lead'[l] = lead[l] /\ trail'[l] = trail[l]
      BY <2>7
    <3>3. ASSUME NEW w \in Readers(l)
          PROVE  Told(l, visit'[w], lead'[l], trail'[l], untold')
      <4>1. visit'[w] = visit[w]
        BY <1>1, <2>3, <3>1
      <4>2. Told(l, visit[w], lead[l], trail[l], untold)
        BY <2>1
      <4> QED
        BY <3>2, <4>1, <4>2, WiderGaps
    <3> QED
      BY <2>1, <3>1, <3>2, <3>3, WiderGaps
  <2> QED
    BY <2>5, <2>6, <2>7
<1> QED
  BY <1>2, <1>3 DEF HistoryInv

\* A step that moves one operation and writes neither row nor activity.
LEMMA HistoryMove ==
  ASSUME CrmInv, HistoryInv, NEW v \in Visits, NEW x \in VisitRecords, Recording(x),
         visit' = [visit EXCEPT ![v] = x], UNCHANGED <<lead, trail, untold>>,
         disturbed \subseteq disturbed',
         \A l \in DOMAIN x.seen \ disturbed' :
           /\ l \in DOMAIN visit[v].seen \/ Readers(l) = {}
           /\ Told(l, x, lead[l], trail[l], untold),
         \A l \in DOMAIN visit[v].seen \ (DOMAIN x.seen \cup disturbed') :
           Stands(l, lead[l], trail[l], untold)
  PROVE  HistoryInv'
<1>1. trail' \in [CrmLeads -> Trails]
  BY DEF HistoryInv
<1> QED
  BY <1>1, HistoryStep

\* An operation that is not between a row and its activities may end.
LEMMA HistoryEnd ==
  ASSUME CrmInv, HistoryInv, NEW v \in Visits, EndVisit(v), UNCHANGED <<lead, trail, untold>>,
         disturbed \subseteq disturbed',
         visit[v].at \notin {"log_status", "log_owner"} \/ DOMAIN visit[v].seen \subseteq disturbed'
  PROVE  HistoryInv'
<1>1. NoVisit \in VisitRecords /\ DOMAIN NoVisit.seen = {} /\ Recording(NoVisit)
  BY NoVisitType DEF Recording
<1>2. ASSUME NEW l \in DOMAIN visit[v].seen \ disturbed'
      PROVE  Stands(l, lead[l], trail[l], untold)
  <2>1. l \in CrmLeads \ disturbed /\ v \in Readers(l)
    BY VisitType DEF Readers
  <2>2. Told(l, visit[v], lead[l], trail[l], untold)
    BY <2>1 DEF HistoryInv
  <2> QED
    BY <1>2, <2>2 DEF Told, Logging
<1> QED
  BY <1>1, <1>2, HistoryMove DEF EndVisit

LEMMA NotBusy ==
  ASSUME HistoryInv, NEW l \in CrmLeads, ~Busy(l)
  PROVE  Readers(l) = {} /\ (l \notin disturbed => Stands(l, lead[l], trail[l], untold))
BY DEF Busy, Readers, HistoryInv

\* An operation that begins: what others have read is disturbed.
LEMMA HistoryBegin ==
  ASSUME CrmInv, HistoryInv, NEW v \in Visits, visit[v].at = "idle",
         NEW S, NEW at, NEW by, NEW input, MayStart(S, at, by, input),
         BeginVisit(v, S, at, by, input), UNCHANGED <<lead, trail, untold>>
  PROVE  HistoryInv'
<1> DEFINE x == Begun(S, at, by, input)
<1>1. visit' = [visit EXCEPT ![v] = x]
  BY DEF BeginVisit, Begun
<1>2. disturbed' = disturbed \cup {l \in S : Busy(l)}
  BY DEF BeginVisit
<1> HIDE DEF x
<1>3. x \in VisitRecords /\ Fresh(x, S, at, by, input)
  BY BegunFields DEF x, MayStart
<1>4. Recording(x)
  BY <1>3 DEF Fresh, Recording, MayStart, FirstStages
<1>5. DOMAIN visit[v].seen = {}
  BY DEF HistoryInv, Recording
<1>6. ASSUME NEW l \in DOMAIN x.seen \ disturbed'
      PROVE  Readers(l) = {} /\ Told(l, x, lead[l], trail[l], untold)
  <2>1. l \in S /\ l \in CrmLeads /\ ~Busy(l) /\ l \notin disturbed
    BY <1>2, <1>3 DEF Fresh, MayStart
  <2>2. Readers(l) = {} /\ Stands(l, lead[l], trail[l], untold)
    BY <2>1, NotBusy
  <2>3. ~Logging(x, l) /\ x.at # "upgrade_write" /\ x.seen[l] = lead[l]
    BY <1>3, <2>1 DEF Fresh, Logging, MayStart, FirstStages
  <2> QED
    BY <2>2, <2>3 DEF Told, Stands
<1> QED
  BY <1>1, <1>2, <1>3, <1>4, <1>5, <1>6, HistoryMove

LEMMA HistoryTransferRead ==
  ASSUME CrmInv, HistoryInv, NEW v \in Visits, NEW by \in CrmPeople, NEW l \in CrmLeads,
         NEW to \in SalesExperts, TransferRead(v, by, l, to)
  PROVE  HistoryInv'
<1> DEFINE rows == [m \in {l} |-> lead[m]]
           x == [NoVisit EXCEPT !.at = "target", !.by = by, !.to = to, !.row = l, !.seen = rows]
<1>1. rows \in Reads /\ DOMAIN rows = {l} /\ rows[l] = lead[l]
  <2>1. rows \in [{l} -> Rows]
    BY DEF CrmInv, CrmTypeOK
  <2> QED
    BY <2>1 DEF Reads
<1>2. visit' = [visit EXCEPT ![v] = x] /\ UNCHANGED <<lead, trail, untold>> /\ visit[v].at = "idle"
  BY DEF TransferRead, MayBegin
<1>3. disturbed' = disturbed \cup {m \in {l} : Busy(m)}
  BY DEF TransferRead
<1> HIDE DEF rows
<1>4. by \in Staff /\ to \in Owners
  BY InputsTyped DEF Owners, Staff
<1>5. /\ x \in VisitRecords
      /\ x.at = "target" /\ x.row = l /\ x.todo = {} /\ x.seen = rows
  BY <1>1, <1>4, NoVisitType DEF VisitRecords, VisitStages
<1> HIDE DEF x
<1>6. Recording(x)
  BY <1>1, <1>5 DEF Recording
<1>7. DOMAIN visit[v].seen = {}
  BY <1>2 DEF HistoryInv, Recording
<1>8. ASSUME NEW m \in DOMAIN x.seen \ disturbed'
      PROVE  Readers(m) = {} /\ Told(m, x, lead[m], trail[m], untold)
  <2>1. m = l /\ ~Busy(l) /\ l \notin disturbed
    BY <1>1, <1>3, <1>5
  <2>2. Readers(l) = {} /\ Stands(l, lead[l], trail[l], untold)
    BY <2>1, NotBusy
  <2> QED
    BY <1>1, <1>5, <2>1, <2>2 DEF Told, Stands, Logging
<1> QED
  BY <1>2, <1>3, <1>5, <1>6, <1>7, <1>8, HistoryMove

\* The leads v has read and nobody has disturbed are as Told says.
LEMMA ReaderTold ==
  ASSUME CrmInv, HistoryInv, NEW v \in Visits
  PROVE  \A l \in DOMAIN visit[v].seen \ disturbed :
           l \in CrmLeads /\ Told(l, visit[v], lead[l], trail[l], untold)
BY VisitType DEF HistoryInv, Readers

LEMMA NextRowFields ==
  ASSUME NEW x \in VisitRecords, NEW left, left \subseteq x.todo
  PROVE  \/ NextRow(x, left) = NoVisit
         \/ /\ NextRow(x, left).at = "write" /\ NextRow(x, left).to = x.to
            /\ NextRow(x, left).todo = left /\ NextRow(x, left).seen = x.seen
<1> DEFINE y == [x EXCEPT !.at = "write", !.row = NoLead, !.todo = left]
<1>1. y.at = "write" /\ y.to = x.to /\ y.todo = left /\ y.seen = x.seen
  BY DEF VisitRecords, VisitStages
<1>2. NextRow(x, left) = NoVisit \/ NextRow(x, left) = y
  BY DEF NextRow
<1> HIDE DEF y
<1> QED
  BY <1>1, <1>2

LEMMA NextRowRecording ==
  ASSUME NEW x \in VisitRecords, NEW left, left \subseteq x.todo, x.to = Nobody \/ left = {}
  PROVE  /\ Recording(NextRow(x, left))
         /\ DOMAIN NextRow(x, left).seen \subseteq DOMAIN x.seen
<1> DEFINE y == NextRow(x, left)
<1>1. \/ y = NoVisit
      \/ y.at = "write" /\ y.to = x.to /\ y.todo = left /\ y.seen = x.seen
  BY NextRowFields
<1>2. left = {} => y = NoVisit
  BY DEF NextRow
<1> HIDE DEF y
<1>3. CASE y = NoVisit
  <2>1. y.at = "idle" /\ y.todo = {} /\ DOMAIN y.seen = {}
    BY <1>3, NoVisitType
  <2> QED
    BY <2>1 DEF y, Recording
<1>4. CASE y # NoVisit
  <2>1. y.at = "write" /\ y.to = Nobody /\ y.todo = left /\ y.seen = x.seen
    BY <1>1, <1>2, <1>4
  <2> QED
    BY <2>1 DEF y, Recording
<1> QED
  BY <1>3, <1>4

\* The row of x is done: all it has read stands, as do the rows still to do.
LEMMA NextRowTold ==
  ASSUME NEW x \in VisitRecords, NEW left, left \subseteq x.todo, NEW l, NEW r, NEW t, NEW gaps,
         Stands(l, r, t, gaps),
         l \in left => r.status = x.seen[l].status /\ r.owner = x.seen[l].owner
  PROVE  Told(l, NextRow(x, left), r, t, gaps)
<1>1. CASE NextRow(x, left) = NoVisit
  BY <1>1, NoVisitType DEF Told, Logging, Stands
<1>2. CASE NextRow(x, left) # NoVisit
  BY <1>2, NextRowFields DEF Told, Logging, Stands
<1> QED
  BY <1>1, <1>2

LEMMA HistoryRowSkip ==
  ASSUME CrmInv, HistoryInv, NEW v \in Visits, RowSkip(v)
  PROVE  HistoryInv'
<1>1. PICK l \in visit[v].todo :
        visit' = [visit EXCEPT ![v] = NextRow(visit[v], visit[v].todo \ {l})]
  BY VisitType DEF RowSkip, CrmInv, CrmTypeOK
<1>2. UNCHANGED <<lead, trail, untold, disturbed>> /\ visit[v].at = "write"
  BY DEF RowSkip
<1> DEFINE left == visit[v].todo \ {l}
           x == NextRow(visit[v], left)
<1>3. visit[v] \in VisitRecords /\ visit[v].to = Nobody /\ left \subseteq visit[v].todo
  BY <1>2, VisitType DEF HistoryInv, Recording
<1>4. x \in VisitRecords
  BY VisitType, NextRowOK
<1>5. ASSUME NEW m \in DOMAIN visit[v].seen \ disturbed
      PROVE  Stands(m, lead[m], trail[m], untold) /\ Told(m, x, lead[m], trail[m], untold)
  <2>1. Told(m, visit[v], lead[m], trail[m], untold)
    BY ReaderTold
  <2>2. /\ Stands(m, lead[m], trail[m], untold)
        /\ m \in left => lead[m].status = visit[v].seen[m].status /\ lead[m].owner = visit[v].seen[m].owner
    BY <1>2, <2>1 DEF Told, Logging
  <2> HIDE DEF left
  <2> QED
    BY <1>3, <2>2, NextRowTold
<1>6. Recording(x) /\ DOMAIN x.seen \subseteq DOMAIN visit[v].seen
  BY <1>3, NextRowRecording
<1> HIDE DEF x
<1> QED
  BY <1>1, <1>2, <1>4, <1>5, <1>6, HistoryMove DEF x

\* The row that is written is told apart from its activities by the input.
LEMMA HistoryRowWrite ==
  ASSUME CrmInv, HistoryInv, NEW v \in Visits, RowWrite(v)
  PROVE  HistoryInv'
<1>1. PICK l \in visit[v].todo :
        /\ lead' = [lead EXCEPT ![l] = Written(lead[l], visit[v].seen[l], visit[v].input)]
        /\ visit' = [visit EXCEPT ![v] = AfterWrite(visit[v], l)]
  BY VisitType DEF RowWrite, CrmInv, CrmTypeOK
<1>2. UNCHANGED <<trail, untold, disturbed>> /\ visit[v].at = "write"
  BY DEF RowWrite
<1> DEFINE old == visit[v]
           in == visit[v].input
           r == Written(lead[l], visit[v].seen[l], visit[v].input)
           x == AfterWrite(visit[v], l)
           left == visit[v].todo \ {l}
<1>3. /\ l \in CrmLeads /\ l \in DOMAIN old.seen /\ lead[l] \in Rows
      /\ old \in VisitRecords /\ old.to = Nobody /\ in \in InputRecords
      /\ left \subseteq old.todo /\ old.todo \subseteq DOMAIN old.seen
  BY <1>2, VisitType DEF ReadOK, CrmInv, CrmTypeOK, HistoryInv, Recording
<1>4. /\ r.status = (IF in.status = "keep" THEN lead[l].status ELSE in.status)
      /\ r.owner = (IF in.owner = "keep" THEN lead[l].owner ELSE in.owner)
      /\ r.owner \in Owners
  BY <1>3 DEF Written, Rows, InputRecords, Owners
<1>5. lead'[l] = r /\ \A m \in CrmLeads \ {l} : lead'[m] = lead[m]
  BY <1>1, <1>3 DEF CrmInv, CrmTypeOK
<1>6. x \in VisitRecords
  BY VisitType, AfterWriteOK
<1>7. visit' = [visit EXCEPT ![v] = x]
  BY <1>1
<1>8. trail' \in [CrmLeads -> Trails]
  BY <1>2 DEF HistoryInv
<1>9. ASSUME NEW m \in DOMAIN old.seen \ disturbed
      PROVE  /\ m \in CrmLeads
             /\ Stands(m, lead[m], trail[m], untold)
             /\ m \in old.todo => lead[m].status = old.seen[m].status /\ lead[m].owner = old.seen[m].owner
  <2>1. m \in CrmLeads /\ Told(m, old, lead[m], trail[m], untold)
    BY ReaderTold
  <2> QED
    BY <1>2, <2>1 DEF Told, Logging
<1> DEFINE y == [old EXCEPT !.row = l, !.todo = left]
<1>10. CASE Changes(old.seen[l], in) \/ Reassigns(old.seen[l], in)
  <2> DEFINE stage == IF Changes(old.seen[l], in) THEN "log_status" ELSE "log_owner"
  <2>1. x = [y EXCEPT !.at = stage]
    BY <1>10 DEF AfterWrite
  <2>2. stage \in {"log_status", "log_owner"}
    OBVIOUS
  <2>3. /\ stage = "log_status" => Changes(old.seen[l], in)
        /\ stage = "log_owner" => Reassigns(old.seen[l], in) /\ ~Changes(old.seen[l], in)
    BY <1>10
  <2> HIDE DEF stage
  <2>4. /\ x.at = stage /\ x.row = l /\ x.todo = left /\ x.seen = old.seen
        /\ x.to = Nobody /\ x.input = in
    BY <2>1, <2>2, <1>3 DEF VisitRecords, VisitStages
  <2> HIDE DEF x
  <2>5. Recording(x)
    BY <2>2, <2>3, <2>4, <1>3 DEF Recording
  <2>6. ASSUME NEW m \in DOMAIN old.seen \ disturbed, m # l
        PROVE  Told(m, x, lead'[m], trail'[m], untold)
    BY <2>2, <2>4, <2>6, <1>2, <1>5, <1>9 DEF Told, Logging, Stands
  <2>7. l \notin disturbed => Told(l, x, lead'[l], trail'[l], untold)
    <3> SUFFICES ASSUME l \notin disturbed
                 PROVE  Told(l, x, r, trail[l], untold)
      BY <1>2, <1>5
    <3>1. /\ Stands(l, lead[l], trail[l], untold)
          /\ lead[l].status = old.seen[l].status /\ lead[l].owner = old.seen[l].owner
      BY <1>3, <1>9
    <3>2. CASE stage = "log_status"
      <4>1. r.status = in.status
        BY <2>3, <3>2, <1>4 DEF Changes
      <4> QED
        BY <2>4, <3>1, <3>2, <4>1, <1>4 DEF Told, Logging, Stands
    <3>3. CASE stage = "log_owner"
      <4>1. r.status = lead[l].status /\ r.owner = in.owner
        BY <2>3, <3>1, <3>3, <1>4 DEF Changes, Reassigns
      <4> QED
        BY <2>4, <3>1, <3>3, <4>1 DEF Told, Logging, Stands
    <3> QED
      BY <2>2, <3>2, <3>3
  <2> HIDE DEF r, y
  <2> QED
    BY <1>2, <1>3, <1>5, <1>6, <1>7, <1>8, <2>4, <2>5, <2>6, <2>7, HistoryStep
<1>11. CASE ~(Changes(old.seen[l], in) \/ Reassigns(old.seen[l], in))
  <2>1. x = NextRow(old, left)
    BY <1>11 DEF AfterWrite
  <2>2. ASSUME NEW m \in DOMAIN old.seen \ disturbed
        PROVE  Stands(m, lead'[m], trail'[m], untold) /\ Told(m, x, lead'[m], trail'[m], untold)
    <3>1. /\ Stands(m, lead'[m], trail'[m], untold)
          /\ m \in left => lead'[m].status = old.seen[m].status /\ lead'[m].owner = old.seen[m].owner
      <4>1. CASE m # l
        BY <4>1, <1>2, <1>5, <1>9
      <4>2. CASE m = l
        <5>1. r.status = lead[l].status /\ r.owner = lead[l].owner
          BY <4>2, <1>3, <1>4, <1>9, <1>11 DEF Changes, Reassigns
        <5> QED
          BY <4>2, <5>1, <1>2, <1>5, <1>9 DEF Stands
      <4> QED
        BY <4>1, <4>2
    <3> HIDE DEF x, left
    <3> QED
      BY <1>3, <2>1, <3>1, NextRowTold
  <2>3. Recording(x) /\ DOMAIN x.seen \subseteq DOMAIN old.seen
    BY <1>3, <2>1, NextRowRecording
  <2> HIDE DEF x, r, y
  <2> QED
    BY <1>2, <1>3, <1>5, <1>6, <1>7, <1>8, <2>2, <2>3, HistoryStep
<1> QED
  BY <1>10, <1>11

\* The row is recorded as far as x has to: it stands, or its owner is left.
LEMMA HistoryLogged ==
  ASSUME CrmInv, HistoryInv, NEW v \in Visits,
         NEW x \in VisitRecords, visit' = [visit EXCEPT ![v] = x], Recording(x),
         DOMAIN x.seen \subseteq DOMAIN visit[v].seen,
         UNCHANGED <<lead, untold, disturbed>>,
         NEW t \in Trails, trail' = [trail EXCEPT ![visit[v].row] = t],
         visit[v].row \in DOMAIN visit[v].seen,
         \A m \in DOMAIN visit[v].seen \ disturbed :
           LET u == IF m = visit[v].row THEN t ELSE trail[m]
           IN Told(m, x, lead[m], u, untold) /\ (m \notin DOMAIN x.seen => Stands(m, lead[m], u, untold))
  PROVE  HistoryInv'
<1>1. /\ trail' \in [CrmLeads -> Trails]
      /\ \A m \in CrmLeads : trail'[m] = IF m = visit[v].row THEN t ELSE trail[m]
  BY DEF HistoryInv
<1>2. \A m \in DOMAIN visit[v].seen : m \in CrmLeads
  BY VisitType
<1> QED
  BY <1>1, <1>2, HistoryStep

LEMMA HistoryLogStatus ==
  ASSUME CrmInv, HistoryInv, NEW v \in Visits, LogStatus(v)
  PROVE  HistoryInv'
<1> DEFINE old == visit[v]
           l == visit[v].row
           in == visit[v].input
           t == [trail[l] EXCEPT !.status = in.status,
                                 !.statusChained = @ /\ trail[l].status = old.seen[l].status]
           y == [old EXCEPT !.at = "log_owner"]
           x == IF Reassigns(old.seen[l], in) THEN y ELSE NextRow(old, old.todo)
<1>1. old.at = "log_status" /\ UNCHANGED <<lead, untold, disturbed>>
  BY DEF LogStatus
<1>2. /\ old \in VisitRecords /\ in \in InputRecords /\ old.to = Nobody
      /\ l \in DOMAIN old.seen /\ l \notin old.todo /\ l \in CrmLeads /\ trail[l] \in Trails
      /\ in.status # "keep"
  BY <1>1, VisitType DEF HistoryInv, Recording, Changes
<1>3. visit' = [visit EXCEPT ![v] = x]
  BY DEF LogStatus, VisitGoto
<1>4. trail' = [trail EXCEPT ![l] = t]
  BY <1>2 DEF LogStatus, HistoryInv
<1>5. /\ t \in Trails /\ t.status = in.status /\ t.owner = trail[l].owner
      /\ t.ownerChained = trail[l].ownerChained
      /\ t.statusChained = (trail[l].statusChained /\ trail[l].status = old.seen[l].status)
  <2> DEFINE chained == trail[l].statusChained /\ trail[l].status = old.seen[l].status
  <2>1. chained \in BOOLEAN /\ in.status \in LeadStatuses
    BY <1>2 DEF Trails, InputRecords
  <2>2. t = [trail[l] EXCEPT !.status = in.status, !.statusChained = chained]
    BY <1>2 DEF Trails
  <2> HIDE DEF chained, t
  <2>3. t \in Trails /\ t.status = in.status /\ t.owner = trail[l].owner /\ t.statusChained = chained
        /\ t.ownerChained = trail[l].ownerChained
    BY <1>2, <2>1, <2>2 DEF Trails
  <2> QED
    BY <2>3 DEF chained
<1> HIDE DEF t
<1>6. /\ y \in VisitRecords /\ y.at = "log_owner" /\ y.row = l /\ y.todo = old.todo
      /\ y.seen = old.seen /\ y.to = Nobody /\ y.input = in
  BY <1>2 DEF VisitRecords, VisitStages
<1> HIDE DEF y
<1>7. x \in VisitRecords
  BY <1>6, VisitType, NextRowOK
<1>8. ASSUME NEW m \in DOMAIN old.seen \ disturbed, m # l
      PROVE  /\ Stands(m, lead[m], trail[m], untold)
             /\ m \in old.todo => lead[m].status = old.seen[m].status /\ lead[m].owner = old.seen[m].owner
  <2>1. Told(m, old, lead[m], trail[m], untold)
    BY ReaderTold
  <2> QED
    BY <1>1, <1>8, <2>1 DEF Told, Logging
<1>9. l \notin disturbed =>
        /\ t.ownerChained = TRUE /\ t.owner = old.seen[l].owner /\ t.status = lead[l].status
        /\ l \notin untold => t.statusChained = TRUE
        /\ lead[l].owner = IF in.owner = "keep" THEN old.seen[l].owner ELSE in.owner
  <2> SUFFICES ASSUME l \notin disturbed
               PROVE  /\ t.ownerChained = TRUE /\ t.owner = old.seen[l].owner /\ t.status = lead[l].status
                      /\ l \notin untold => t.statusChained = TRUE
                      /\ lead[l].owner = IF in.owner = "keep" THEN old.seen[l].owner ELSE in.owner
    OBVIOUS
  <2>1. Told(l, old, lead[l], trail[l], untold)
    BY <1>2, ReaderTold
  <2> QED
    BY <1>1, <1>5, <2>1 DEF Told, Logging
<1>10. CASE Reassigns(old.seen[l], in)
  <2>1. x = y
    BY <1>10
  <2>2. Recording(y)
    BY <1>2, <1>6, <1>10 DEF Recording
  <2>3. ASSUME NEW m \in DOMAIN old.seen \ disturbed
        PROVE  Told(m, y, lead[m], IF m = l THEN t ELSE trail[m], untold)
    <3>1. CASE m # l
      BY <3>1, <1>6, <1>8 DEF Told, Logging, Stands
    <3>2. CASE m = l
      <4>1. lead[l].owner = in.owner
        BY <3>2, <1>9, <1>10 DEF Reassigns
      <4> QED
        BY <3>2, <4>1, <1>6, <1>9 DEF Told, Logging
    <3> QED
      BY <3>1, <3>2
  <2> HIDE DEF l, x
  <2> QED
    BY <1>1, <1>2, <1>3, <1>4, <1>5, <1>6, <2>1, <2>2, <2>3, HistoryLogged DEF l
<1>11. CASE ~Reassigns(old.seen[l], in)
  <2>1. x = NextRow(old, old.todo)
    BY <1>11
  <2>2. ASSUME NEW m \in DOMAIN old.seen \ disturbed
        PROVE  LET u == IF m = l THEN t ELSE trail[m]
               IN Told(m, x, lead[m], u, untold) /\ Stands(m, lead[m], u, untold)
    <3> DEFINE u == IF m = l THEN t ELSE trail[m]
    <3>1. /\ Stands(m, lead[m], u, untold)
          /\ m \in old.todo => lead[m].status = old.seen[m].status /\ lead[m].owner = old.seen[m].owner
      <4>1. CASE m # l
        BY <4>1, <1>8
      <4>2. CASE m = l
        BY <4>2, <1>2, <1>9, <1>11 DEF Stands, Reassigns
      <4> QED
        BY <4>1, <4>2
    <3> HIDE DEF u, x
    <3>2. Told(m, x, lead[m], u, untold)
      BY <1>2, <2>1, <3>1, NextRowTold
    <3> QED
      BY <3>1, <3>2 DEF u
  <2>3. Recording(x) /\ DOMAIN x.seen \subseteq DOMAIN old.seen
    BY <1>2, <2>1, NextRowRecording
  <2> HIDE DEF l, x
  <2> QED
    BY <1>1, <1>2, <1>3, <1>4, <1>5, <1>7, <2>2, <2>3, HistoryLogged DEF l
<1> QED
  BY <1>10, <1>11

LEMMA HistoryLogOwner ==
  ASSUME CrmInv, HistoryInv, NEW v \in Visits, LogOwner(v)
  PROVE  HistoryInv'
<1> DEFINE old == visit[v]
           l == visit[v].row
           to == IF old.to = Nobody THEN old.input.owner ELSE old.to
           t == [trail[l] EXCEPT !.owner = to,
                                 !.ownerChained = @ /\ trail[l].owner = old.seen[l].owner]
           x == NextRow(old, old.todo)
<1>1. old.at = "log_owner" /\ UNCHANGED <<lead, untold, disturbed>>
  BY DEF LogOwner
<1>2. /\ old \in VisitRecords /\ old.input \in InputRecords
      /\ l \in DOMAIN old.seen /\ l \notin old.todo /\ l \in CrmLeads /\ trail[l] \in Trails
  BY <1>1, VisitType DEF HistoryInv, Recording
<1>3. to \in Owners
  <2>1. CASE old.to = Nobody
    BY <1>1, <1>2, <2>1 DEF HistoryInv, Recording, Reassigns, InputRecords, Owners
  <2>2. CASE old.to # Nobody
    BY <1>2, <2>2 DEF VisitRecords
  <2> QED
    BY <2>1, <2>2
<1>4. visit' = [visit EXCEPT ![v] = x]
  BY DEF LogOwner
<1>5. trail' = [trail EXCEPT ![l] = t]
  BY <1>2 DEF LogOwner, HistoryInv
<1> HIDE DEF to
<1>6. /\ t \in Trails /\ t.owner = to /\ t.status = trail[l].status
      /\ t.statusChained = trail[l].statusChained
      /\ t.ownerChained = (trail[l].ownerChained /\ trail[l].owner = old.seen[l].owner)
  <2> DEFINE chained == trail[l].ownerChained /\ trail[l].owner = old.seen[l].owner
  <2>1. chained \in BOOLEAN
    BY <1>2 DEF Trails
  <2>2. t = [trail[l] EXCEPT !.owner = to, !.ownerChained = chained]
    BY <1>2 DEF Trails
  <2> HIDE DEF chained, t
  <2>3. t \in Trails /\ t.owner = to /\ t.status = trail[l].status /\ t.ownerChained = chained
        /\ t.statusChained = trail[l].statusChained
    BY <1>2, <1>3, <2>1, <2>2 DEF Trails
  <2> QED
    BY <2>3 DEF chained
<1> HIDE DEF t
<1>7. x \in VisitRecords
  BY VisitType, NextRowOK
<1>8. ASSUME NEW m \in DOMAIN old.seen \ disturbed
      PROVE  LET u == IF m = l THEN t ELSE trail[m]
             IN Told(m, x, lead[m], u, untold) /\ Stands(m, lead[m], u, untold)
  <2> DEFINE u == IF m = l THEN t ELSE trail[m]
  <2>1. Told(m, old, lead[m], trail[m], untold)
    BY ReaderTold
  <2>2. /\ Stands(m, lead[m], u, untold)
        /\ m \in old.todo => lead[m].status = old.seen[m].status /\ lead[m].owner = old.seen[m].owner
    <3>1. CASE m # l
      BY <3>1, <1>1, <2>1 DEF Told, Logging
    <3>2. CASE m = l
      BY <3>2, <1>1, <1>2, <1>6, <2>1 DEF Told, Logging, Stands, to
    <3> QED
      BY <3>1, <3>2
  <2> HIDE DEF u, x
  <2>3. Told(m, x, lead[m], u, untold)
    BY <1>2, <2>2, NextRowTold DEF x
  <2> QED
    BY <2>2, <2>3 DEF u
<1>9. old.to = Nobody \/ old.todo = {}
  BY <1>1 DEF HistoryInv, Recording
<1>10. Recording(x) /\ DOMAIN x.seen \subseteq DOMAIN old.seen
  BY <1>2, <1>9, NextRowRecording
<1> HIDE DEF l, x
<1> QED
  BY <1>1, <1>2, <1>4, <1>5, <1>6, <1>7, <1>8, <1>10, HistoryLogged DEF l

\* A call marks the row and leaves what the activities are about.
LEMMA HistoryCallWrite ==
  ASSUME CrmInv, HistoryInv, NEW v \in Visits, CallWrite(v)
  PROVE  HistoryInv'
<1> DEFINE old == visit[v]
           y == [old EXCEPT !.at = "call_update"]
           x == IF old.input.status = "keep" /\ ~old.input.reason THEN NoVisit ELSE y
<1>1. PICK l \in old.todo : lead' = [lead EXCEPT ![l] = [lead[l] EXCEPT !.called = TRUE]]
  BY DEF CallWrite
<1>2. /\ visit' = [visit EXCEPT ![v] = x] /\ UNCHANGED <<trail, untold, disturbed>>
      /\ old.at = "call_write"
  BY DEF CallWrite, EndVisit, VisitGoto
<1>3. /\ old \in VisitRecords /\ old.to = Nobody
      /\ l \in CrmLeads /\ l \in DOMAIN old.seen /\ lead[l] \in Rows
  BY <1>2, VisitType DEF HistoryInv, Recording, ReadOK, CrmInv, CrmTypeOK
<1>4. \A m \in CrmLeads : /\ lead'[m].status = lead[m].status /\ lead'[m].owner = lead[m].owner
                          /\ m # l => lead'[m] = lead[m]
  BY <1>1, <1>3 DEF CrmInv, CrmTypeOK, Rows
<1>5. /\ y \in VisitRecords /\ y.at = "call_update" /\ y.todo = old.todo
      /\ y.seen = old.seen /\ y.to = Nobody
  BY <1>3 DEF VisitRecords, VisitStages
<1> HIDE DEF y
<1>6. x = NoVisit \/ x = y
  OBVIOUS
<1> HIDE DEF x
<1>7. x \in VisitRecords /\ Recording(x) /\ DOMAIN x.seen \subseteq DOMAIN old.seen
  BY <1>5, <1>6, NoVisitType DEF Recording
<1>8. ASSUME NEW m \in DOMAIN old.seen \ disturbed
      PROVE  /\ Stands(m, lead'[m], trail'[m], untold)
             /\ m \in DOMAIN x.seen => Told(m, x, lead'[m], trail'[m], untold)
  <2>1. m \in CrmLeads /\ Told(m, old, lead[m], trail[m], untold)
    BY ReaderTold
  <2>2. /\ Stands(m, lead'[m], trail'[m], untold)
        /\ m \in old.todo => lead'[m].status = old.seen[m].status /\ lead'[m].owner = old.seen[m].owner
    BY <1>2, <1>4, <2>1 DEF Told, Logging, Stands
  <2> QED
    BY <1>5, <1>6, <2>2, NoVisitType DEF Told, Logging, Stands
<1>9. trail' \in [CrmLeads -> Trails]
  BY <1>2 DEF HistoryInv
<1> QED
  BY <1>2, <1>3, <1>4, <1>7, <1>8, <1>9, HistoryStep

LEMMA HistoryCallUpdate ==
  ASSUME CrmInv, HistoryInv, NEW v \in Visits, CallUpdate(v)
  PROVE  HistoryInv'
<1> DEFINE old == visit[v]
           l == CHOOSE l \in old.todo : TRUE
           rows == [m \in {l} |-> lead[m]]
           x == [old EXCEPT !.at = "write", !.seen = rows]
<1>1. UNCHANGED <<lead, trail, untold, disturbed>> /\ old.at = "call_update"
  BY DEF CallUpdate
<1>2. l \in CrmLeads /\ old.todo = {l} /\ old.to = Nobody /\ l \in DOMAIN old.seen
  BY <1>1, VisitType DEF StageOK, ReadOK, HistoryInv, Recording
<1>3. EndVisit(v) \/ visit' = [visit EXCEPT ![v].at = "write", ![v].seen = rows]
  BY DEF CallUpdate
<1> HIDE DEF l
<1>4. rows \in Reads /\ DOMAIN rows = {l} /\ rows[l] = lead[l]
  <2>1. rows \in [{l} -> Rows]
    BY <1>2 DEF CrmInv, CrmTypeOK
  <2> QED
    BY <1>2, <2>1 DEF Reads
<1> HIDE DEF rows
<1>5. x \in VisitRecords /\ x.at = "write" /\ x.todo = {l} /\ x.seen = rows /\ x.to = Nobody
  BY <1>2, <1>4, VisitType DEF VisitRecords, VisitStages
<1>6. visit' = [visit EXCEPT ![v].at = "write", ![v].seen = rows] => visit' = [visit EXCEPT ![v] = x]
  BY DEF CrmInv, CrmTypeOK
<1> HIDE DEF x
<1>7. CASE EndVisit(v)
  BY <1>1, <1>7, HistoryEnd
<1>8. CASE visit' = [visit EXCEPT ![v] = x]
  <2>1. Recording(x) /\ DOMAIN x.seen = {l}
    BY <1>4, <1>5 DEF Recording
  <2>2. ASSUME NEW m \in DOMAIN old.seen \ disturbed
        PROVE  Stands(m, lead[m], trail[m], untold) /\ Told(m, x, lead[m], trail[m], untold)
    <3>1. Told(m, old, lead[m], trail[m], untold)
      BY ReaderTold
    <3>2. Stands(m, lead[m], trail[m], untold)
      BY <1>1, <3>1 DEF Told, Logging
    <3> QED
      BY <1>4, <1>5, <3>2 DEF Told, Logging, Stands
  <2> QED
    BY <1>1, <1>2, <1>5, <1>8, <2>1, <2>2, HistoryMove
<1> QED
  BY <1>3, <1>6, <1>7, <1>8

LEMMA HistoryTransferTarget ==
  ASSUME CrmInv, HistoryInv, NEW v \in Visits, TransferTarget(v)
  PROVE  HistoryInv'
<1> DEFINE old == visit[v]
           x == [old EXCEPT !.at = "transfer"]
<1>1. UNCHANGED <<lead, trail, untold, disturbed>> /\ old.at = "target"
  BY DEF TransferTarget
<1>2. CASE EndVisit(v)
  BY <1>1, <1>2, HistoryEnd
<1>3. CASE visit' = [visit EXCEPT ![v] = x]
  <2>1. /\ x \in VisitRecords /\ x.at = "transfer" /\ x.todo = old.todo
        /\ x.seen = old.seen /\ x.row = old.row
    BY VisitType DEF VisitRecords, VisitStages
  <2> HIDE DEF x
  <2>2. Recording(x)
    BY <1>1, <2>1 DEF HistoryInv, Recording
  <2>3. ASSUME NEW m \in DOMAIN old.seen \ disturbed
        PROVE  Told(m, x, lead[m], trail[m], untold)
    <3>1. Told(m, old, lead[m], trail[m], untold)
      BY ReaderTold
    <3> QED
      BY <1>1, <2>1, <3>1 DEF Told, Logging
  <2> QED
    BY <1>1, <1>3, <2>1, <2>2, <2>3, HistoryMove
<1> QED
  BY <1>2, <1>3 DEF TransferTarget, VisitGoto

\* A lead is given to somebody, which is left to record.
LEMMA HistoryGive ==
  ASSUME CrmInv, HistoryInv, NEW v \in Visits, NEW l \in CrmLeads, NEW e \in SalesExperts,
         visit[v].at \notin {"log_status", "log_owner"},
         l \in DOMAIN visit[v].seen,
         visit[v].at \in {"target", "transfer"} \/ l \in visit[v].todo,
         NEW x \in VisitRecords,
         x.at = "log_owner", x.row = l, x.todo = {}, x.to = e, x.seen = visit[v].seen,
         lead' = [lead EXCEPT ![l] = [lead[l] EXCEPT !.owner = e]],
         visit' = [visit EXCEPT ![v] = x],
         UNCHANGED <<trail, untold, disturbed>>
  PROVE  HistoryInv'
<1>1. e \in Owners /\ e # Nobody
  BY StaffAssumption DEF Owners, Staff
<1>3. /\ \A m \in CrmLeads \ {l} : lead'[m] = lead[m]
      /\ lead'[l].status = lead[l].status /\ lead'[l].owner = e
  BY DEF CrmInv, CrmTypeOK, Rows
<1>4. Recording(x)
  BY <1>1 DEF Recording
<1>5. ASSUME NEW m \in DOMAIN x.seen \ disturbed
      PROVE  Told(m, x, lead'[m], trail'[m], untold)
  <2>1. m \in CrmLeads /\ Told(m, visit[v], lead[m], trail[m], untold)
    BY ReaderTold
  <2>2. Stands(m, lead[m], trail[m], untold)
    BY <2>1 DEF Told, Logging
  <2>3. CASE m # l
    BY <1>3, <2>1, <2>2, <2>3 DEF Told, Logging, Stands
  <2>4. CASE m = l
    <3>1. lead[l].owner = visit[v].seen[l].owner
      BY <2>1, <2>4 DEF Told, Logging
    <3> QED
      BY <1>1, <1>3, <2>2, <2>4, <3>1 DEF Told, Logging, Stands
  <2> QED
    BY <2>3, <2>4
<1>6. trail' \in [CrmLeads -> Trails]
  BY DEF HistoryInv
<1> QED
  BY <1>3, <1>4, <1>5, <1>6, HistoryStep

LEMMA HistoryTransferWrite ==
  ASSUME CrmInv, HistoryInv, NEW v \in Visits, TransferWrite(v)
  PROVE  HistoryInv'
<1> DEFINE old == visit[v]
           x == [old EXCEPT !.at = "log_owner"]
<1>1. old.at = "transfer" /\ UNCHANGED <<trail, untold, disturbed>>
  BY DEF TransferWrite
<1>2. /\ old \in VisitRecords /\ old.to \in SalesExperts
      /\ old.row \in CrmLeads /\ old.row \in DOMAIN old.seen /\ old.todo = {}
  BY <1>1, VisitType DEF StageOK, HistoryInv, Recording
<1>3. /\ x \in VisitRecords /\ x.at = "log_owner" /\ x.row = old.row /\ x.todo = {}
      /\ x.to = old.to /\ x.seen = old.seen
  BY <1>2 DEF VisitRecords, VisitStages
<1>4. /\ lead' = [lead EXCEPT ![old.row] = [lead[old.row] EXCEPT !.owner = old.to]]
      /\ visit' = [visit EXCEPT ![v] = x]
  BY DEF TransferWrite, VisitGoto
<1> HIDE DEF x
<1> QED
  BY <1>1, <1>2, <1>3, <1>4, HistoryGive

LEMMA HistoryTake ==
  ASSUME CrmInv, HistoryInv, NEW v \in Visits, ClaimWrite(v) \/ AssignWrite(v)
  PROVE  HistoryInv'
<1> DEFINE old == visit[v]
           by == visit[v].by
<1>1. /\ UNCHANGED <<trail, untold, disturbed>> /\ old.at \in {"claim", "assign"} /\ by \in SalesExperts
      /\ old.input \in InputRecords
  BY VisitType DEF ClaimWrite, AssignWrite, StageOK
<1>2. PICK l \in old.todo : Take(v, l) \/ (EndVisit(v) /\ lead' = lead)
  BY DEF ClaimWrite, AssignWrite
<1>3. CASE EndVisit(v) /\ lead' = lead
  BY <1>1, <1>3, HistoryEnd
<1>4. CASE Take(v, l)
  <2> DEFINE x == Last(old, "log_owner", by, old.input, l)
  <2>1. l \in CrmLeads /\ l \in DOMAIN old.seen /\ by \in Owners
    BY <1>1, VisitType DEF ReadOK, Owners, Staff
  <2> HIDE DEF by
  <2>2. /\ x \in VisitRecords /\ x.at = "log_owner" /\ x.row = l /\ x.todo = {}
        /\ x.to = by /\ x.seen = old.seen
    BY <1>1, <2>1, LastRow
  <2>3. /\ lead' = [lead EXCEPT ![l] = [lead[l] EXCEPT !.owner = by]]
        /\ visit' = [visit EXCEPT ![v] = x]
    BY <1>4, <2>1, TakeIs DEF by
  <2> HIDE DEF x
  <2> QED
    BY <1>1, <2>1, <2>2, <2>3, HistoryGive
<1> QED
  BY <1>2, <1>3, <1>4

-----------------------------------------------------------------------------
(* The system's own writes *)

\* A status is written without an activity: the lead has a gap.
LEMMA HistoryBindWrite ==
  ASSUME CrmInv, HistoryInv, NEW v \in Visits, BindWrite(v)
  PROVE  HistoryInv'
<1> DEFINE old == visit[v]
           s == visit[v].input.status
<1>1. PICK l \in old.todo :
        /\ lead' = [lead EXCEPT ![l].status = s]
        /\ untold' = IF lead'[l].status # lead[l].status THEN untold \cup {l} ELSE untold
  BY DEF BindWrite
<1>2. /\ old.at = "bind" /\ UNCHANGED <<trail, disturbed>>
      /\ visit' = [visit EXCEPT ![v] = NoVisit]
  BY DEF BindWrite, EndVisit
<1>3. l \in CrmLeads /\ l \in DOMAIN old.seen
  BY VisitType DEF ReadOK
<1>4. /\ \A m \in CrmLeads \ {l} : lead'[m] = lead[m]
      /\ lead'[l].owner = lead[l].owner
  BY <1>1, <1>3 DEF CrmInv, CrmTypeOK, Rows
<1>5. NoVisit \in VisitRecords /\ Recording(NoVisit) /\ DOMAIN NoVisit.seen = {}
  BY NoVisitType DEF Recording
<1>6. ASSUME NEW m \in DOMAIN old.seen \ disturbed
      PROVE  Stands(m, lead'[m], trail'[m], untold')
  <2>1. m \in CrmLeads /\ Told(m, old, lead[m], trail[m], untold)
    BY ReaderTold
  <2>2. Stands(m, lead[m], trail[m], untold)
    BY <1>2, <2>1 DEF Told, Logging
  <2> QED
    BY <1>1, <1>2, <1>4, <2>1, <2>2 DEF Stands
<1>7. trail' \in [CrmLeads -> Trails] /\ untold \subseteq untold'
  BY <1>1, <1>2 DEF HistoryInv
<1>8. \A m \in CrmLeads \ DOMAIN old.seen : lead'[m] = lead[m] /\ trail'[m] = trail[m]
  BY <1>2, <1>3, <1>4
<1> HIDE DEF s
<1> QED
  BY <1>2, <1>5, <1>6, <1>7, <1>8, HistoryStep

\* A status is written and its activity is next.
LEMMA HistoryPromote ==
  ASSUME CrmInv, HistoryInv, NEW v \in Visits, NEW l \in visit[v].todo, NEW s \in LeadStatuses,
         visit[v].at \in {"transition", "upgrade_write"},
         lead' = [lead EXCEPT ![l].status = s],
         \/ visit' = Promoted(v, l, s) /\ s # visit[v].seen[l].status
         \/ EndVisit(v) /\ (l \notin disturbed => s = lead[l].status),
         UNCHANGED <<trail, untold, disturbed>>
  PROVE  HistoryInv'
<1> DEFINE old == visit[v]
           in == OnlyStatus(s)
           x == Last(old, "log_status", old.to, in, l)
<1>1. /\ l \in CrmLeads /\ l \in DOMAIN old.seen /\ old.to = Nobody
      /\ Nobody \in Owners /\ lead[l] \in Rows
  BY VisitType DEF ReadOK, HistoryInv, Recording, Owners, CrmInv, CrmTypeOK
<1>2. /\ \A m \in CrmLeads \ {l} : lead'[m] = lead[m]
      /\ lead'[l].owner = lead[l].owner /\ lead'[l].status = s
  BY <1>1 DEF CrmInv, CrmTypeOK, Rows
<1>3. ASSUME NEW m \in DOMAIN old.seen \ disturbed
      PROVE  /\ m \in CrmLeads /\ Stands(m, lead[m], trail[m], untold)
             /\ m = l => lead[m].status = old.seen[m].status /\ lead[m].owner = old.seen[m].owner
  <2>1. m \in CrmLeads /\ Told(m, old, lead[m], trail[m], untold)
    BY ReaderTold
  <2> QED
    BY <2>1 DEF Told, Logging
<1>4. trail' \in [CrmLeads -> Trails]
  BY DEF HistoryInv
<1>5. CASE EndVisit(v) /\ (l \notin disturbed => s = lead[l].status)
  <2>1. NoVisit \in VisitRecords /\ Recording(NoVisit) /\ DOMAIN NoVisit.seen = {}
    BY NoVisitType DEF Recording
  <2>2. ASSUME NEW m \in DOMAIN old.seen \ disturbed
        PROVE  Stands(m, lead'[m], trail'[m], untold)
    <3>1. CASE m = l
      BY <1>2, <1>3, <1>5, <3>1 DEF Stands
    <3>2. CASE m # l
      BY <1>2, <1>3, <3>2
    <3> QED
      BY <3>1, <3>2
  <2>3. \A m \in CrmLeads \ DOMAIN old.seen : lead'[m] = lead[m] /\ trail'[m] = trail[m]
    BY <1>1, <1>2
  <2>4. visit' = [visit EXCEPT ![v] = NoVisit]
    BY <1>5 DEF EndVisit
  <2> QED
    BY <1>4, <2>1, <2>2, <2>3, <2>4, HistoryStep
<1>6. CASE visit' = Promoted(v, l, s) /\ s # old.seen[l].status
  <2>1. /\ in \in InputRecords /\ in.status = s /\ in.owner = "keep"
        /\ visit' = [visit EXCEPT ![v] = x]
    BY <1>1, <1>6, PromotedIs
  <2> HIDE DEF in
  <2>2. /\ x \in VisitRecords /\ x.at = "log_status" /\ x.to = Nobody /\ x.input = in
        /\ x.row = l /\ x.todo = {} /\ x.seen = old.seen
    BY <1>1, <2>1, LastRow
  <2> HIDE DEF x
  <2>3. s # "keep"
    BY DEF LeadStatuses, Pipeline
  <2>4. Recording(x)
    BY <1>1, <1>6, <2>1, <2>2, <2>3 DEF Recording, Changes
  <2>5. ASSUME NEW m \in DOMAIN x.seen \ disturbed
        PROVE  Told(m, x, lead'[m], trail'[m], untold)
    <3>1. CASE m = l
      <4>1. Stands(l, lead[l], trail[l], untold) /\ trail'[l] = trail[l]
        BY <1>3, <2>2, <3>1
      <4>2. lead[l].status = old.seen[l].status /\ lead[l].owner = old.seen[l].owner
        BY <1>3, <2>2, <3>1
      <4>3. Logging(x, l) /\ x.at = "log_status" /\ x.seen = old.seen
            /\ x.input.status = s /\ x.input.owner = "keep"
        BY <2>1, <2>2 DEF Logging
      <4> QED
        BY <1>2, <3>1, <4>1, <4>2, <4>3 DEF Told, Stands
    <3>2. CASE m # l
      <4>1. Stands(m, lead'[m], trail'[m], untold)
        BY <1>2, <1>3, <2>2, <3>2
      <4>2. ~Logging(x, m) /\ x.todo = {} /\ x.at = "log_status"
        BY <2>2, <3>2 DEF Logging
      <4>3. trail'[m].ownerChained = TRUE /\ (m \notin untold => trail'[m].statusChained = TRUE)
        BY <4>1 DEF Stands
      <4> QED
        BY <4>1, <4>2, <4>3 DEF Told
    <3> QED
      BY <3>1, <3>2
  <2>6. \A m \in CrmLeads \ DOMAIN old.seen : lead'[m] = lead[m] /\ trail'[m] = trail[m]
    BY <1>1, <1>2
  <2> QED
    BY <1>4, <2>1, <2>2, <2>4, <2>5, <2>6, HistoryStep
<1> QED
  BY <1>5, <1>6

LEMMA HistoryTransitionWrite ==
  ASSUME CrmInv, HistoryInv, NEW v \in Visits, TransitionWrite(v)
  PROVE  HistoryInv'
<1> DEFINE s == visit[v].input.status
<1>1. /\ visit[v].at = "transition" /\ s \in LeadStatuses /\ UNCHANGED <<trail, untold, disturbed>>
      /\ \A l \in visit[v].todo : s # visit[v].seen[l].status
  BY VisitType DEF TransitionWrite, StageOK, LeadStatuses, HistoryInv, Recording
<1>2. PICK l \in visit[v].todo :
        \/ lead' = [lead EXCEPT ![l].status = s] /\ visit' = Promoted(v, l, s)
        \/ EndVisit(v) /\ UNCHANGED lead
  BY DEF TransitionWrite
<1> HIDE DEF s
<1>3. CASE lead' = [lead EXCEPT ![l].status = s] /\ visit' = Promoted(v, l, s)
  BY <1>1, <1>3, HistoryPromote
<1>4. CASE EndVisit(v) /\ UNCHANGED lead
  BY <1>1, <1>4, HistoryEnd
<1> QED
  BY <1>2, <1>3, <1>4

LEMMA HistoryUpgradeDecide ==
  ASSUME CrmInv, HistoryInv, NEW v \in Visits, UpgradeDecide(v)
  PROVE  HistoryInv'
<1> DEFINE decided(l) == IF lead[l].status \in Pipeline THEN "new" ELSE "keep"
<1>1. PICK l \in visit[v].todo :
        visit' = [visit EXCEPT ![v].at = "upgrade_write", ![v].input = OnlyStatus(decided(l))]
  BY DEF UpgradeDecide
<1> DEFINE old == visit[v]
           in == OnlyStatus(decided(l))
           x == [visit[v] EXCEPT !.at = "upgrade_write", !.input = in]
<1>2. in \in InputRecords /\ in.status = decided(l)
  BY DEF OnlyStatus, InputRecords, LeadStatuses
<1>3. /\ visit' = [visit EXCEPT ![v] = x] /\ old.at = "upgrade"
      /\ UNCHANGED <<lead, trail, untold, disturbed>>
  BY <1>1 DEF CrmInv, CrmTypeOK, UpgradeDecide
<1>4. /\ x \in VisitRecords /\ x.at = "upgrade_write" /\ x.to = old.to /\ x.input = in
      /\ x.todo = old.todo /\ x.seen = old.seen
  <2> HIDE DEF in
  <2> QED
    BY <1>2, VisitType DEF VisitRecords, VisitStages
<1> HIDE DEF in, x
<1>5. Recording(x)
  BY <1>3, <1>4 DEF HistoryInv, Recording
<1>6. ASSUME NEW m \in DOMAIN old.seen \ disturbed
      PROVE  Told(m, x, lead[m], trail[m], untold)
  <2>1. Told(m, old, lead[m], trail[m], untold)
    BY ReaderTold
  <2>2. old.todo = {l}
    BY <1>3, VisitType DEF StageOK
  <2>3. m \in x.todo /\ x.input.status = "new" => x.seen[m].status \in Pipeline
    BY <1>2, <1>3, <1>4, <2>1, <2>2 DEF Told, Logging
  <2> QED
    BY <1>3, <1>4, <2>1, <2>3 DEF Told, Logging
<1> QED
  BY <1>3, <1>4, <1>5, <1>6, HistoryMove

LEMMA HistoryUpgradeWrite ==
  ASSUME CrmInv, HistoryInv, NEW v \in Visits, UpgradeWrite(v)
  PROVE  HistoryInv'
<1> DEFINE next(l) == IF visit[v].input.status = "keep" THEN lead[l].status ELSE visit[v].input.status
<1>1. PICK l \in visit[v].todo :
        /\ lead' = [lead EXCEPT ![l].status = next(l)]
        /\ IF visit[v].seen[l].status \in Pipeline \ {next(l)}
           THEN visit' = Promoted(v, l, next(l)) ELSE EndVisit(v)
  BY DEF UpgradeWrite
<1>2. /\ visit[v].at = "upgrade_write" /\ UNCHANGED <<trail, untold, disturbed>>
      /\ visit[v].input.status \in {"new", "keep"}
      /\ l \in CrmLeads /\ l \in DOMAIN visit[v].seen /\ lead[l] \in Rows
  BY VisitType DEF UpgradeWrite, StageOK, ReadOK, CrmInv, CrmTypeOK
<1> DEFINE s == next(l)
<1>3. s \in LeadStatuses
  BY <1>2 DEF Rows, LeadStatuses
<1>4. CASE visit[v].seen[l].status \in Pipeline \ {s}
  <2>1. visit' = Promoted(v, l, s) /\ s # visit[v].seen[l].status
    BY <1>1, <1>4
  <2> HIDE DEF s
  <2> QED
    BY <1>1, <1>2, <1>3, <2>1, HistoryPromote DEF s
<1>5. CASE visit[v].seen[l].status \notin Pipeline \ {s}
  <2>1. EndVisit(v)
    BY <1>1, <1>5
  <2>2. ASSUME l \notin disturbed
        PROVE  s = lead[l].status
    <3>1. Told(l, visit[v], lead[l], trail[l], untold)
      BY <1>2, <2>2, ReaderTold
    <3>2. CASE visit[v].input.status = "new"
      <4>1. visit[v].seen[l].status \in Pipeline /\ s = "new"
        BY <1>2, <3>1, <3>2 DEF Told
      <4> QED
        BY <1>5, <4>1 DEF Pipeline
    <3> QED
      BY <1>2, <3>2
  <2> HIDE DEF s
  <2> QED
    BY <1>1, <1>2, <1>3, <2>1, <2>2, HistoryPromote DEF s
<1> QED
  BY <1>4, <1>5

-----------------------------------------------------------------------------
LEMMA HistoryInit == CrmInit => HistoryInv
<1> SUFFICES ASSUME CrmInit PROVE HistoryInv
  OBVIOUS
<1>1. PICK f \in FirstRows :
        /\ lead = [l \in CrmLeads |-> NewRow(f[l].status, f[l].owner)]
        /\ trail = [l \in CrmLeads |-> [owner |-> f[l].owner, status |-> f[l].status, ownerChained |-> TRUE, statusChained |-> TRUE]]
  BY DEF CrmInit, LeadsInit
<1>2. ASSUME NEW l \in CrmLeads
      PROVE  trail[l] \in Trails /\ Stands(l, lead[l], trail[l], untold)
  <2>1. f[l].status \in LeadStatuses /\ f[l].owner \in Owners
    BY CrmAssumption DEF Owners, LeadStatuses, Staff
  <2>2. /\ lead[l] = NewRow(f[l].status, f[l].owner)
        /\ trail[l] = [owner |-> f[l].owner, status |-> f[l].status, ownerChained |-> TRUE, statusChained |-> TRUE]
    BY <1>1
  <2> QED
    BY <2>1, <2>2 DEF NewRow, Trails, Stands
<1>3. trail \in [CrmLeads -> Trails]
  BY <1>1, <1>2
<1>4. \A v \in Visits : visit[v] = NoVisit
  BY DEF CrmInit, LeadsInit
<1>5. \A l \in CrmLeads : Readers(l) = {}
  BY <1>4, NoVisitType DEF Readers
<1>6. \A v \in Visits : Recording(visit[v])
  BY <1>4, NoVisitType DEF Recording
<1> QED
  BY <1>2, <1>3, <1>5, <1>6 DEF HistoryInv

LEMMA HistoryVisitStep ==
  ASSUME CrmInv, HistoryInv, NEW v \in Visits, VisitStep(v)
  PROVE  HistoryInv'
<1>1. CASE Reading(v)
  BY <1>1, Begins, HistoryBegin
<1>2. CASE RowSkip(v)
  BY <1>2, HistoryRowSkip
<1>3. CASE RowThrow(v)
  BY <1>3, HistoryEnd DEF RowThrow
<1>4. CASE RowWrite(v)
  BY <1>4, HistoryRowWrite
<1>5. CASE LogStatus(v)
  BY <1>5, HistoryLogStatus
<1>6. CASE LogOwner(v)
  BY <1>6, HistoryLogOwner
<1>7. CASE CallWrite(v)
  BY <1>7, HistoryCallWrite
<1>8. CASE CallUpdate(v)
  BY <1>8, HistoryCallUpdate
<1>9. ASSUME NEW by \in CrmPeople, NEW l \in CrmLeads, NEW to \in SalesExperts,
             TransferRead(v, by, l, to)
      PROVE  HistoryInv'
  BY <1>9, HistoryTransferRead
<1>10. CASE TransferTarget(v)
  BY <1>10, HistoryTransferTarget
<1>11. CASE TransferWrite(v)
  BY <1>11, HistoryTransferWrite
<1>12. CASE ClaimWrite(v) \/ AssignWrite(v)
  BY <1>12, HistoryTake
<1>13. CASE BindWrite(v)
  BY <1>13, HistoryBindWrite
<1>14. CASE TransitionWrite(v)
  BY <1>14, HistoryTransitionWrite
<1>15. CASE UpgradeDecide(v)
  BY <1>15, HistoryUpgradeDecide
<1>16. CASE UpgradeWrite(v)
  BY <1>16, HistoryUpgradeWrite
<1>17. CASE CrmAbort(v)
  BY <1>17, HistoryEnd DEF CrmAbort
<1> QED
  BY <1>1, <1>2, <1>3, <1>4, <1>5, <1>6, <1>7, <1>8, <1>9, <1>10, <1>11, <1>12, <1>13, <1>14,
     <1>15, <1>16, <1>17 DEF VisitStep, Reading

LEMMA HistoryNext ==
  ASSUME CrmInv, HistoryInv, [CrmNext]_crmVars
  PROVE  HistoryInv'
<1>1. CASE UNCHANGED crmVars
  BY <1>1 DEF crmVars, crmOwn, HistoryInv, Readers
<1>2. ASSUME NEW e \in SalesExperts, ExpertSwitched(e)
      PROVE  HistoryInv'
  BY <1>2 DEF ExpertSwitched, HistoryInv, Readers
<1>3. CASE CrmNext
  BY <1>2, <1>3, HistoryVisitStep DEF CrmNext
<1> QED
  BY <1>1, <1>3

\* Rows, operations and activities stay in step in every behaviour of the CRM.
THEOREM HistoryInvariance == CrmSpec => []HistoryInv
BY HistoryInit, HistoryNext, CrmInvariance, PTL DEF CrmSpec

\* The activities of a lead that no two operations worked on at a time, and on
\* which none died, tell who owned it, and its status too unless the start of an
\* assessment or a backfill changed that, whenever nobody is at work on it.
THEOREM ActivitiesTellAll == CrmSpec => []HistoryIsWhole
<1>1. ASSUME HistoryInv, NEW l \in CrmLeads \ disturbed, ~Busy(l)
      PROVE  Stands(l, lead[l], trail[l], untold)
  BY <1>1, NotBusy
<1>2. HistoryInv => HistoryIsWhole
  BY <1>1 DEF HistoryIsWhole, Stands
<1> QED
  BY <1>2, HistoryInvariance, PTL

-----------------------------------------------------------------------------
(* LeadBackfill.  A call reads the leads, writes one and deletes the rest, *)
(* each in a call of its own.  What it has read still stands for the leads *)
(* that nobody else has touched since, those another call deletes or       *)
(* writes counting as touched; and the lead it keeps ranked highest when   *)
(* it was read and ranks the same once it is written.                      *)

SessionStatuses == {"open", "stale", "completed", "abandoned"}
LeadStages == {"assessment_completed", "assessment_incomplete", "assessment_in_progress"}
BackfilledLeads ==
  [exists : BOOLEAN, status : LeadStages \cup CrmStatuses, owned : BOOLEAN, activity : BOOLEAN]

\* What a call has read is a set of leads, each once.
Readings ==
  {view \in SUBSET (Nat \X BackfilledLeads) : \A x, y \in view : x[1] = y[1] => x = y}

SweepStages == {"idle", "leads", "create", "bind", "delete"}
CallRecords ==
  [at : SweepStages, stage : LeadStages \cup {"none"}, view : Readings, keeper : Nat,
   others : SUBSET Nat, pure : BOOLEAN, late : SUBSET Nat]

SweepCalls ==
  {r \in CallRecords :
     /\ r.at \in {"leads", "create", "bind"} => r.stage \in LeadStages
     /\ r.at = "bind" => r.view # {}}

BackfillTypeOK ==
  /\ sessionRows \in Seq(SessionStatuses)
  /\ leadRows \in Seq(BackfilledLeads)
  /\ sweep \in [Sweeps -> SweepCalls]
  /\ settled \in BOOLEAN /\ sweepsMade \in Nat /\ touches \in Nat

\* What a call has read stands, but for the leads others have touched; and the
\* lead it keeps ranks as high as those it is to delete.
ReadingOK(b) ==
  /\ sweep[b].at = "bind" =>
       \A x \in sweep[b].view :
         x[1] \in sweep[b].late \/ (x[1] \in Existing /\ leadRows[x[1]] = x[2])
  /\ sweep[b].at = "delete" =>
       LET k == sweep[b].keeper
       IN /\ k \notin sweep[b].others
          /\ k \in sweep[b].late \/
               /\ k \in Existing
               /\ \A l \in sweep[b].others :
                    \/ l \in sweep[b].late
                    \/ l \in Existing /\ Points(leadRows[k]) >= Points(leadRows[l])

ReadingsStand == \A b \in Sweeps : ReadingOK(b)

-----------------------------------------------------------------------------
(* Choosing the lead to keep, and the newest session *)

LEMMA LeastOfNaturals ==
  ASSUME NEW T, T \subseteq Nat, T # {}
  PROVE  \E n \in T : \A u \in T : n <= u
<1> DEFINE Upto == {0..n : n \in T}
<1>1. Upto \subseteq FiniteSubsetsOf(Nat) /\ Upto # {}
  <2>1. \A n \in T : 0..n \in SUBSET Nat /\ IsFiniteSet(0..n)
    BY FS_Interval
  <2>. QED BY <2>1 DEF FiniteSubsetsOf
<1>2. PICK U \in Upto : \A V \in Upto : ~(<<V, U>> \in StrictSubsetOrdering(Nat))
  BY <1>1, WFMin, FS_StrictSubsetOrderingWellFounded
<1>3. PICK n \in T : U = 0..n
  OBVIOUS
<1>4. ASSUME NEW u \in T PROVE n <= u
  <2>1. SUFFICES ASSUME u < n PROVE FALSE
    OBVIOUS
  <2>2. 0..u \subseteq 0..n /\ n \in 0..n /\ n \notin 0..u
    BY <2>1
  <2>3. 0..u \in SUBSET Nat /\ 0..n \in SUBSET Nat /\ 0..u # 0..n
    BY <2>2
  <2>4. <<0..u, 0..n>> \in StrictSubsetOrdering(Nat)
    BY <2>2, <2>3 DEF StrictSubsetOrdering
  <2>5. 0..u \in Upto
    OBVIOUS
  <2>. QED BY <1>2, <1>3, <2>4, <2>5
<1>. QED BY <1>4

LEMMA NewestIsOne ==
  ASSUME NEW n \in Nat, NEW S, S \subseteq 1..n, S # {}
  PROVE  Max(S) \in S /\ \A s \in S : s <= Max(S)
<1> DEFINE T == {n - s : s \in S}
<1>1. T \subseteq Nat /\ T # {}
  OBVIOUS
<1>2. PICK t \in T : \A u \in T : t <= u
  BY <1>1, LeastOfNaturals
<1>3. PICK m \in S : t = n - m
  OBVIOUS
<1>4. \A s \in S : s <= m
  <2>1. SUFFICES ASSUME NEW s \in S PROVE s <= m
    OBVIOUS
  <2>2. n - s \in T
    OBVIOUS
  <2>. QED BY <1>2, <1>3, <2>2
<1>. QED BY <1>4 DEF Max

\* The lead kept is one that was read, and none of the others ranks higher.
LEMMA CanonicalIsBest ==
  ASSUME NEW view \in Readings, view # {}
  PROVE  /\ Canonical(view) \in view
         /\ \A x \in view : Points(Canonical(view)[2]) >= Points(x[2])
<1> DEFINE missing == {7 - Points(x[2]) : x \in view}
<1>1. \A x \in view : x[1] \in Nat /\ x[2] \in BackfilledLeads
  BY DEF Readings
<1>2. \A x \in view : Points(x[2]) \in 0..7
  BY <1>1 DEF BackfilledLeads, Points
<1>3. missing \subseteq Nat /\ missing # {}
  BY <1>2
<1>4. PICK low \in missing : \A u \in missing : low <= u
  BY <1>3, LeastOfNaturals
<1> DEFINE top == {x \in view : 7 - Points(x[2]) = low}
           ages == {x[1] : x \in top}
<1>5. ages \subseteq Nat /\ ages # {}
  BY <1>1, <1>4
<1>6. PICK age \in ages : \A u \in ages : age <= u
  BY <1>5, LeastOfNaturals
<1>7. PICK best \in top : best[1] = age
  BY <1>6
<1>8. \A y \in view \ {best} : BetterThan(best, y)
  <2>1. SUFFICES ASSUME NEW y \in view \ {best}
                 PROVE  Points(best[2]) > Points(y[2])
                        \/ (Points(best[2]) = Points(y[2]) /\ best[1] < y[1])
    BY DEF BetterThan, Older
  <2>2. 7 - Points(y[2]) \in missing /\ 7 - Points(best[2]) = low
    BY <1>7
  <2>3. Points(best[2]) >= Points(y[2])
    BY <1>2, <1>4, <1>7, <2>2
  <2>4. ASSUME Points(best[2]) = Points(y[2]) PROVE best[1] < y[1]
    <3>1. y \in top
      BY <2>2, <2>4
    <3>2. best[1] <= y[1]
      BY <1>6, <1>7, <3>1
    <3>3. best[1] # y[1]
      BY <1>7 DEF Readings
    <3>. QED BY <1>1, <1>7, <3>2, <3>3
  <2>. QED BY <1>2, <1>7, <2>3, <2>4
<1>9. Canonical(view) \in view /\ \A y \in view \ {Canonical(view)} : BetterThan(Canonical(view), y)
  BY <1>7, <1>8 DEF Canonical
<1>10. \A x \in view : Points(Canonical(view)[2]) >= Points(x[2])
  BY <1>2, <1>9 DEF BetterThan
<1>. QED BY <1>9, <1>10

-----------------------------------------------------------------------------
(* The steps of a call, and of everyone else *)

LEMMA StageIsLeadStage ==
  ASSUME NEW status \in SessionStatuses
  PROVE  Stage(status) \in LeadStages
BY DEF SessionStatuses, Stage, LeadStages

LEMMA NewLeadIs ==
  ASSUME NEW status \in LeadStages \cup CrmStatuses
  PROVE  /\ NewLead(status) \in BackfilledLeads
         /\ NewLead(status).exists /\ NewLead(status).status = status
BY DEF NewLead, BackfilledLeads

LEMMA GoneIs == Gone \in BackfilledLeads /\ ~Gone.exists
BY DEF Gone, NewLead, BackfilledLeads, CrmStatuses

\* Rows that nobody touches: those outside S stay as they are.
Untouched(S) ==
  \A l \in Existing \ S : l \in Existing' /\ leadRows'[l] = leadRows[l]

\* Rows that are added leave the others alone.
LEMMA LeadAdded ==
  ASSUME BackfillTypeOK, NEW row \in BackfilledLeads, leadRows' = Append(leadRows, row)
  PROVE  leadRows' \in Seq(BackfilledLeads) /\ Untouched({})
<1>1. leadRows \in Seq(BackfilledLeads)
  BY DEF BackfillTypeOK
<1>2. /\ leadRows' \in Seq(BackfilledLeads) /\ Len(leadRows') = Len(leadRows) + 1
      /\ \A l \in 1..Len(leadRows) : leadRows'[l] = leadRows[l]
  BY <1>1
<1>3. DOMAIN leadRows = 1..Len(leadRows) /\ DOMAIN leadRows' = 1..Len(leadRows')
      /\ Len(leadRows) \in Nat
  BY <1>1, <1>2
<1>. QED BY <1>2, <1>3 DEF Existing, Untouched

LEMMA NoCallIs == {} \in Readings /\ NoSweep \in SweepCalls
<1>1. {} \in Readings
  BY DEF Readings
<1>2. NoSweep \in CallRecords
  BY <1>1 DEF NoSweep, CallRecords, SweepStages
<1>. QED BY <1>1, <1>2 DEF NoSweep, SweepCalls

\* Call s is r once others have touched the leads of S.
Later(s, r, S) ==
  /\ s.at = r.at /\ s.view = r.view /\ s.keeper = r.keeper /\ s.others = r.others
  /\ r.at \in {"bind", "delete"} => s.late = r.late \cup S
  /\ s.pure => r.pure

Stays(b, S) == Later(sweep'[b], sweep[b], S)

LEMMA TouchedIs ==
  ASSUME NEW r \in SweepCalls, NEW S \in SUBSET Nat
  PROVE  /\ Touched(r, S) \in SweepCalls /\ Later(Touched(r, S), r, S)
         /\ [Touched(r, S) EXCEPT !.pure = FALSE] \in SweepCalls
         /\ Later([Touched(r, S) EXCEPT !.pure = FALSE], r, S)
         /\ ~[Touched(r, S) EXCEPT !.pure = FALSE].pure
<1> DEFINE late == IF r.at \in {"bind", "delete"} THEN r.late \cup S ELSE r.late
           s == [r EXCEPT !.late = late]
           t == [s EXCEPT !.pure = FALSE]
<1>1. r \in CallRecords
  BY DEF SweepCalls
<1>2. late \in SUBSET Nat
  BY <1>1 DEF CallRecords
<1>3. Touched(r, S) = s
  BY <1>1 DEF Touched, CallRecords
<1> HIDE DEF late
<1>4. /\ s \in CallRecords /\ s.at = r.at /\ s.stage = r.stage /\ s.view = r.view
      /\ s.keeper = r.keeper /\ s.others = r.others /\ s.late = late /\ s.pure = r.pure
  BY <1>1, <1>2 DEF CallRecords
<1> HIDE DEF s
<1>5. /\ t \in CallRecords /\ t.at = r.at /\ t.stage = r.stage /\ t.view = r.view
      /\ t.keeper = r.keeper /\ t.others = r.others /\ t.late = late /\ t.pure = FALSE
  BY <1>4 DEF CallRecords
<1> HIDE DEF t
<1>6. s \in SweepCalls /\ t \in SweepCalls
  BY <1>4, <1>5 DEF SweepCalls
<1>7. Later(s, r, S) /\ Later(t, r, S)
  BY <1>4, <1>5 DEF late, Later
<1>. QED BY <1>3, <1>5, <1>6, <1>7 DEF t

LEMMA DisturbIs ==
  ASSUME BackfillTypeOK, NEW S \in SUBSET Nat, Disturb(S)
  PROVE  /\ sweep' \in [Sweeps -> SweepCalls] /\ settled' = FALSE
         /\ \A b \in Sweeps : Stays(b, S) /\ ~sweep'[b].pure
<1>1. \A b \in Sweeps : sweep[b] \in SweepCalls
  BY DEF BackfillTypeOK
<1>2. /\ sweep' = [b \in Sweeps |-> [Touched(sweep[b], S) EXCEPT !.pure = FALSE]]
      /\ settled' = FALSE
  BY DEF Disturb
<1>3. ASSUME NEW b \in Sweeps
      PROVE  sweep'[b] \in SweepCalls /\ Stays(b, S) /\ ~sweep'[b].pure
  <2>1. sweep'[b] = [Touched(sweep[b], S) EXCEPT !.pure = FALSE]
    BY <1>2
  <2>. QED BY <1>1, <2>1, TouchedIs DEF Stays
<1>. QED BY <1>2, <1>3

LEMMA MovesIs ==
  ASSUME BackfillTypeOK, NEW b \in Sweeps, NEW x \in SweepCalls, NEW S \in SUBSET Nat,
         Moves(b, x, S)
  PROVE  /\ sweep' \in [Sweeps -> SweepCalls] /\ sweep'[b] = x
         /\ \A a \in Sweeps \ {b} : Stays(a, S)
<1>1. sweep' = [a \in Sweeps |-> IF a = b THEN x ELSE Touched(sweep[a], S)]
  BY DEF Moves
<1>2. ASSUME NEW a \in Sweeps \ {b}
      PROVE  sweep'[a] \in SweepCalls /\ Stays(a, S)
  <2>1. sweep'[a] = Touched(sweep[a], S) /\ sweep[a] \in SweepCalls
    BY <1>1 DEF BackfillTypeOK
  <2>. QED BY <2>1, TouchedIs DEF Stays
<1>3. sweep'[b] = x
  BY <1>1
<1>. QED BY <1>1, <1>2, <1>3

\* A call that begins: what it has listed.
LEMMA ListIs ==
  ASSUME BackfillTypeOK, NEW b \in Sweeps, SweepList(b)
  PROVE  /\ sweep' \in [Sweeps -> SweepCalls]
         /\ sweep'[b].at = "leads" /\ settled' = FALSE
         /\ UNCHANGED <<sessionRows, leadRows, touches>> /\ sweepsMade' \in Nat
         /\ \A a \in Sweeps \ {b} : Stays(a, {}) /\ ~sweep'[a].pure
         /\ sweep'[b].pure =>
              /\ \A a \in Sweeps \ {b} : sweep[a].at = "idle"
              /\ sessionRows # <<>> /\ sweep'[b].stage = Stage(sessionRows[Len(sessionRows)])
<1>1. DOMAIN sessionRows = 1..Len(sessionRows) /\ Len(sessionRows) \in Nat
      /\ \A s \in DOMAIN sessionRows : sessionRows[s] \in SessionStatuses
  BY DEF BackfillTypeOK
<1>2. PICK group \in Groups :
        LET rows == {s \in DOMAIN sessionRows : InGroup(sessionRows[s], group)}
        IN /\ rows # {}
           /\ sweep' = [a \in Sweeps |->
                IF a # b THEN [sweep[a] EXCEPT !.pure = FALSE]
                ELSE [NoSweep EXCEPT
                        !.at = "leads", !.stage = Stage(sessionRows[Max(rows)]),
                        !.pure = group = "all" /\ \A o \in Sweeps \ {b} : sweep[o].at = "idle"]]
  BY DEF SweepList
<1> DEFINE rows == {s \in DOMAIN sessionRows : InGroup(sessionRows[s], group)}
           stage == Stage(sessionRows[Max(rows)])
           pure == group = "all" /\ \A o \in Sweeps \ {b} : sweep[o].at = "idle"
           r == [at |-> "leads", stage |-> stage, view |-> {}, keeper |-> 0, others |-> {},
                 pure |-> pure, late |-> {}]
<1>3. Max(rows) \in rows /\ \A s \in rows : s <= Max(rows)
  BY <1>1, <1>2, NewestIsOne
<1>4. stage \in LeadStages
  BY <1>1, <1>3, StageIsLeadStage
<1>5. sweep'[b] = [NoSweep EXCEPT !.at = "leads", !.stage = stage, !.pure = pure]
      /\ \A a \in Sweeps \ {b} : sweep'[a] = [sweep[a] EXCEPT !.pure = FALSE]
  BY <1>2
<1>6. pure => /\ \A a \in Sweeps \ {b} : sweep[a].at = "idle"
              /\ sessionRows # <<>> /\ stage = Stage(sessionRows[Len(sessionRows)])
  <2>1. SUFFICES ASSUME pure
                 PROVE  sessionRows # <<>> /\ Max(rows) = Len(sessionRows)
    OBVIOUS
  <2>2. rows = 1..Len(sessionRows) /\ rows # {}
    BY <1>1, <1>2, <2>1 DEF InGroup
  <2>3. Max(rows) \in 1..Len(sessionRows) /\ Len(sessionRows) \in 1..Len(sessionRows)
    BY <1>1, <1>3, <2>2
  <2>4. Max(rows) = Len(sessionRows)
    BY <1>1, <1>3, <2>2, <2>3
  <2>5. sessionRows # <<>>
    BY <1>1, <2>3
  <2>. QED BY <2>4, <2>5
<1>7. pure \in BOOLEAN
  OBVIOUS
<1>8. sweep' = [a \in Sweeps |-> sweep'[a]]
  BY <1>2
<1> HIDE DEF rows, stage, pure
<1>9. sweep'[b] = r
  BY <1>5 DEF NoSweep
<1>10. r \in SweepCalls
  BY <1>4, <1>7, NoCallIs DEF SweepCalls, CallRecords, SweepStages
<1>11. ASSUME NEW a \in Sweeps \ {b}
       PROVE  sweep'[a] \in SweepCalls /\ Stays(a, {}) /\ ~sweep'[a].pure
  <2>1. sweep[a] \in SweepCalls /\ sweep'[a] = [sweep[a] EXCEPT !.pure = FALSE]
    BY <1>5 DEF BackfillTypeOK
  <2>2. Touched(sweep[a], {}) = sweep[a]
    BY <2>1 DEF Touched, SweepCalls, CallRecords
  <2>. QED BY <2>1, <2>2, TouchedIs DEF Stays
<1>12. sweep' \in [Sweeps -> SweepCalls]
  BY <1>8, <1>9, <1>10, <1>11
<1>13. /\ settled' = FALSE /\ UNCHANGED <<sessionRows, leadRows, touches>>
       /\ sweepsMade' \in Nat
  <2>1. sweepsMade' = sweepsMade + 1 /\ settled' = FALSE
        /\ UNCHANGED <<sessionRows, leadRows, touches>>
    BY Zenon DEF SweepList
  <2>. QED BY <2>1 DEF BackfillTypeOK
<1>14. sweep'[b].at = "leads" /\ sweep'[b].pure = pure /\ sweep'[b].stage = stage
  BY <1>9
<1>. QED BY <1>6, <1>11, <1>12, <1>13, <1>14

\* A call that reads the leads.
LEMMA ReadIs ==
  ASSUME BackfillTypeOK, NEW b \in Sweeps, SweepRead(b)
  PROVE  /\ sweep' = [sweep EXCEPT ![b] = sweep'[b]] /\ sweep'[b] \in SweepCalls
         /\ sweep'[b].at = IF Existing = {} THEN "create" ELSE "bind"
         /\ sweep'[b].view = {<<l, leadRows[l]>> : l \in Existing}
         /\ sweep'[b].stage = sweep[b].stage /\ sweep'[b].pure = sweep[b].pure
         /\ sweep[b].at = "leads"
<1> DEFINE view == {<<l, leadRows[l]>> : l \in Existing}
           s == [sweep[b] EXCEPT !.view = view, !.at = IF Existing = {} THEN "create" ELSE "bind"]
<1>1. view \in Readings /\ (Existing # {} => view # {})
  <2>1. \A l \in Existing : l \in Nat /\ leadRows[l] \in BackfilledLeads
    BY DEF BackfillTypeOK, Existing
  <2>2. view \in SUBSET (Nat \X BackfilledLeads)
    BY <2>1
  <2>3. \A x, y \in view : x[1] = y[1] => x = y
    OBVIOUS
  <2>. QED BY <2>2, <2>3 DEF Readings
<1>2. sweep[b] \in SweepCalls /\ sweep[b].at = "leads" /\ sweep \in [Sweeps -> SweepCalls]
  BY DEF BackfillTypeOK, SweepRead
<1>3. sweep' = [sweep EXCEPT ![b] = s]
  BY DEF SweepRead
<1> HIDE DEF view
<1>4. /\ s \in CallRecords /\ s.at = IF Existing = {} THEN "create" ELSE "bind"
      /\ s.view = view /\ s.stage = sweep[b].stage /\ s.pure = sweep[b].pure
  BY <1>1, <1>2 DEF SweepCalls, CallRecords, SweepStages
<1> HIDE DEF s
<1>5. s \in SweepCalls /\ sweep'[b] = s
  BY <1>1, <1>2, <1>3, <1>4 DEF SweepCalls
<1>. QED BY <1>2, <1>3, <1>4, <1>5 DEF view

\* The lead a call keeps, and the status it writes to it.
Keeper(b) == Canonical(sweep[b].view)
Kept(b) == IF Keeper(b)[2].status \in CrmStatuses THEN Keeper(b)[2].status ELSE sweep[b].stage

\* A call that writes the lead it keeps, or finds it gone.
LEMMA BindIs ==
  ASSUME BackfillTypeOK, NEW b \in Sweeps, SweepBind(b)
  PROVE  /\ Keeper(b) \in sweep[b].view
         /\ \A x \in sweep[b].view : Points(Keeper(b)[2]) >= Points(x[2])
         /\ Keeper(b)[1] \in Nat /\ Kept(b) \in LeadStages \cup CrmStatuses
         /\ sweep[b].at = "bind" /\ sweep[b].stage \in LeadStages
         /\ sweep' \in [Sweeps -> SweepCalls]
         /\ UNCHANGED <<sessionRows, sweepsMade, touches>> /\ settled' = FALSE
         /\ \/ /\ Keeper(b)[1] \in Existing
               /\ leadRows' = [leadRows EXCEPT ![Keeper(b)[1]].status = Kept(b)]
               /\ sweep'[b].at = "delete" /\ sweep'[b].keeper = Keeper(b)[1]
               /\ sweep'[b].others = {x[1] : x \in sweep[b].view} \ {Keeper(b)[1]}
               /\ sweep'[b].late = sweep[b].late /\ sweep'[b].pure = sweep[b].pure
               /\ \A a \in Sweeps \ {b} : Stays(a, {Keeper(b)[1]})
            \/ /\ Keeper(b)[1] \notin Existing
               /\ sweep'[b] = NoSweep /\ leadRows' = leadRows
               /\ \A a \in Sweeps \ {b} : Stays(a, {})
<1> DEFINE k == Keeper(b)[1]
           others == {x[1] : x \in sweep[b].view} \ {k}
           s == [sweep[b] EXCEPT !.at = "delete", !.view = {}, !.stage = "none", !.keeper = k,
                                 !.others = others]
<1>1. sweep[b] \in SweepCalls /\ sweep[b].at = "bind"
  BY DEF BackfillTypeOK, SweepBind
<1>2. sweep[b].view \in Readings /\ sweep[b].view # {} /\ sweep[b].stage \in LeadStages
  BY <1>1 DEF SweepCalls, CallRecords
<1>3. /\ Keeper(b) \in sweep[b].view
      /\ \A x \in sweep[b].view : Points(Keeper(b)[2]) >= Points(x[2])
  BY <1>2, CanonicalIsBest DEF Keeper
<1>4. k \in Nat /\ others \in SUBSET Nat /\ Kept(b) \in LeadStages \cup CrmStatuses
  BY <1>2, <1>3 DEF Readings, Kept
<1>5. /\ UNCHANGED <<sessionRows, sweepsMade, touches>> /\ settled' = FALSE
      /\ \/ /\ k \in Existing /\ leadRows' = [leadRows EXCEPT ![k].status = Kept(b)]
            /\ Moves(b, s, {k})
         \/ k \notin Existing /\ leadRows' = leadRows /\ Moves(b, NoSweep, {})
  BY DEF SweepBind, Keeper, Kept
<1> HIDE DEF k, others
<1>6. /\ s \in CallRecords /\ s.at = "delete" /\ s.keeper = k /\ s.others = others
      /\ s.late = sweep[b].late /\ s.pure = sweep[b].pure
  BY <1>1, <1>4, NoCallIs DEF SweepCalls, CallRecords, SweepStages
<1> HIDE DEF s
<1>7. s \in SweepCalls
  BY <1>6 DEF SweepCalls
<1>8. CASE k \in Existing
  <2>1. leadRows' = [leadRows EXCEPT ![k].status = Kept(b)] /\ Moves(b, s, {k})
    BY <1>5, <1>8
  <2>2. /\ sweep' \in [Sweeps -> SweepCalls] /\ sweep'[b] = s
        /\ \A a \in Sweeps \ {b} : Stays(a, {k})
    BY <1>4, <1>7, <2>1, MovesIs
  <2>. QED BY <1>1, <1>2, <1>3, <1>4, <1>5, <1>6, <1>8, <2>1, <2>2 DEF k, others
<1>9. CASE k \notin Existing
  <2>1. leadRows' = leadRows /\ Moves(b, NoSweep, {})
    BY <1>5, <1>9
  <2>2. /\ sweep' \in [Sweeps -> SweepCalls] /\ sweep'[b] = NoSweep
        /\ \A a \in Sweeps \ {b} : Stays(a, {})
    BY <2>1, MovesIs, NoCallIs
  <2>. QED BY <1>1, <1>2, <1>3, <1>4, <1>5, <1>9, <2>1, <2>2 DEF k
<1>. QED BY <1>8, <1>9

\* The lead kept ranks as before: only a stage is replaced, and by a stage.
LEMMA RankIsKept ==
  ASSUME NEW row \in BackfilledLeads, NEW stage \in LeadStages,
         NEW status, status = IF row.status \in CrmStatuses THEN row.status ELSE stage
  PROVE  /\ [row EXCEPT !.status = status] \in BackfilledLeads
         /\ Points([row EXCEPT !.status = status]) = Points(row)
         /\ row.status \in CrmStatuses => [row EXCEPT !.status = status] = row
<1> DEFINE new == [row EXCEPT !.status = status]
<1>1. status \in LeadStages \cup CrmStatuses /\ (status \in CrmStatuses <=> row.status \in CrmStatuses)
  BY DEF LeadStages, CrmStatuses
<1>2. /\ new \in BackfilledLeads /\ new.status = status
      /\ new.owned = row.owned /\ new.activity = row.activity
  BY <1>1 DEF BackfilledLeads
<1>3. row.status \in CrmStatuses => new = row
  BY DEF BackfilledLeads
<1> HIDE DEF new
<1>4. Points(new) = Points(row)
  BY <1>1, <1>2 DEF Points
<1>. QED BY <1>2, <1>3, <1>4 DEF new

\* A call that deletes.
LEMMA DeleteIs ==
  ASSUME BackfillTypeOK, NEW b \in Sweeps, SweepDelete(b)
  PROVE  /\ sweep[b].at = "delete" /\ sweep[b].others \in SUBSET Nat
         /\ DOMAIN leadRows' = DOMAIN leadRows
         /\ \A l \in DOMAIN leadRows :
              leadRows'[l] = IF l \in sweep[b].others THEN Gone ELSE leadRows[l]
         /\ leadRows' \in Seq(BackfilledLeads)
         /\ Existing' = Existing \ sweep[b].others /\ Untouched(sweep[b].others)
         /\ sweep' \in [Sweeps -> SweepCalls] /\ sweep'[b] = NoSweep
         /\ \A a \in Sweeps \ {b} : Stays(a, sweep[b].others)
         /\ settled' = sweep[b].pure /\ settled' \in BOOLEAN
         /\ UNCHANGED <<sessionRows, sweepsMade, touches>>
<1>1. DOMAIN leadRows = 1..Len(leadRows) /\ Len(leadRows) \in Nat
      /\ \A l \in DOMAIN leadRows : leadRows[l] \in BackfilledLeads
  BY DEF BackfillTypeOK
<1>2. sweep[b].others \in SUBSET Nat /\ sweep[b].pure \in BOOLEAN
  BY DEF BackfillTypeOK, SweepCalls, CallRecords
<1>3. /\ sweep[b].at = "delete" /\ Moves(b, NoSweep, sweep[b].others)
      /\ settled' = sweep[b].pure /\ UNCHANGED <<sessionRows, sweepsMade, touches>>
      /\ leadRows' = [l \in DOMAIN leadRows |->
                        IF l \in sweep[b].others THEN Gone ELSE leadRows[l]]
  BY DEF SweepDelete
<1>4. /\ DOMAIN leadRows' = DOMAIN leadRows
      /\ \A l \in DOMAIN leadRows :
           leadRows'[l] = IF l \in sweep[b].others THEN Gone ELSE leadRows[l]
  BY <1>3
<1>5. Existing' = Existing \ sweep[b].others /\ Untouched(sweep[b].others)
  BY <1>4, GoneIs DEF Existing, Untouched
<1>6. leadRows' \in Seq(BackfilledLeads)
  <2>1. leadRows' \in [1..Len(leadRows) -> BackfilledLeads]
    BY <1>1, <1>3, <1>4, GoneIs
  <2>. QED BY <1>1, <2>1, SeqDef
<1>. QED BY <1>2, <1>3, <1>4, <1>5, <1>6, MovesIs, NoCallIs

\* Somebody else changes one lead.
LEMMA LeadTouched ==
  ASSUME BackfillTypeOK, NEW l \in DOMAIN leadRows, LeadHanded(l) \/ LeadWorked(l)
  PROVE  /\ leadRows' \in Seq(BackfilledLeads) /\ Untouched({l}) /\ l \in Nat
         /\ Disturb({l}) /\ UNCHANGED <<sessionRows, sweepsMade>> /\ touches' \in Nat
<1>1. leadRows \in Seq(BackfilledLeads) /\ leadRows[l] \in BackfilledLeads /\ l \in Nat
  BY DEF BackfillTypeOK
<1>2. /\ Disturb({l}) /\ UNCHANGED <<sessionRows, sweepsMade>> /\ touches' = touches + 1
      /\ \/ leadRows' = [leadRows EXCEPT ![l].owned = ~@]
         \/ \E status \in CrmStatuses \cup {"assessment_completed"} :
              leadRows' = [leadRows EXCEPT ![l].status = status, ![l].activity = TRUE]
  BY DEF LeadHanded, LeadWorked
<1>3. PICK row \in BackfilledLeads : leadRows' = [leadRows EXCEPT ![l] = row]
  <2>1. CASE leadRows' = [leadRows EXCEPT ![l].owned = ~@]
    <3> DEFINE row == [leadRows[l] EXCEPT !.owned = ~@]
    <3>1. row \in BackfilledLeads
      BY <1>1 DEF BackfilledLeads
    <3>2. leadRows' = [leadRows EXCEPT ![l] = row]
      BY <2>1
    <3>. QED BY <3>1, <3>2
  <2>2. ASSUME NEW status \in CrmStatuses \cup {"assessment_completed"},
               leadRows' = [leadRows EXCEPT ![l].status = status, ![l].activity = TRUE]
        PROVE  \E row \in BackfilledLeads : leadRows' = [leadRows EXCEPT ![l] = row]
    <3> DEFINE row == [leadRows[l] EXCEPT !.status = status, !.activity = TRUE]
    <3>1. row \in BackfilledLeads
      BY <1>1 DEF BackfilledLeads, LeadStages
    <3>2. leadRows' = [leadRows EXCEPT ![l] = row]
      BY <2>2
    <3>. QED BY <3>1, <3>2
  <2>. QED BY <1>2, <2>1, <2>2
<1>4. leadRows' \in Seq(BackfilledLeads) /\ DOMAIN leadRows' = DOMAIN leadRows
      /\ \A j \in DOMAIN leadRows \ {l} : leadRows'[j] = leadRows[j]
  BY <1>1, <1>3
<1>5. Untouched({l})
  BY <1>4 DEF Untouched, Existing
<1>6. touches' \in Nat
  <2>1. touches' = touches + 1 /\ touches \in Nat
    BY <1>2 DEF BackfillTypeOK
  <2>. QED BY <2>1
<1>. QED BY <1>1, <1>2, <1>4, <1>5, <1>6

\* Everyone else: no call is taken further, and each has been told what changed.
LEMMA OthersAct ==
  ASSUME BackfillTypeOK,
         SessionChanges \/ LeadAppears \/ \E l \in DOMAIN leadRows : LeadHanded(l) \/ LeadWorked(l)
  PROVE  /\ BackfillTypeOK' /\ settled' = FALSE
         /\ \E S \in SUBSET Nat : Untouched(S) /\ \A b \in Sweeps : Stays(b, S) /\ ~sweep'[b].pure
<1>1. CASE SessionChanges
  <2>1. sessionRows' \in Seq(SessionStatuses)
    <3>1. "open" \in SessionStatuses /\ sessionRows \in Seq(SessionStatuses)
      BY DEF SessionStatuses, BackfillTypeOK
    <3>. QED BY <1>1, <3>1 DEF SessionChanges, SessionStatuses
  <2>2. Disturb({}) /\ UNCHANGED <<leadRows, sweepsMade, touches>>
    BY <1>1 DEF SessionChanges
  <2>3. Untouched({})
    BY <2>2 DEF Untouched, Existing
  <2>4. /\ sweep' \in [Sweeps -> SweepCalls] /\ settled' = FALSE
        /\ \A b \in Sweeps : Stays(b, {}) /\ ~sweep'[b].pure
    BY <2>2, DisturbIs
  <2>. QED BY <2>1, <2>2, <2>3, <2>4 DEF BackfillTypeOK
<1>2. CASE LeadAppears
  <2>1. PICK status \in {"assessment_in_progress", "new"} : leadRows' = Append(leadRows, NewLead(status))
    BY <1>2 DEF LeadAppears
  <2>2. NewLead(status) \in BackfilledLeads
    BY NewLeadIs DEF LeadStages, CrmStatuses
  <2>3. leadRows' \in Seq(BackfilledLeads) /\ Untouched({})
    BY <2>1, <2>2, LeadAdded
  <2>4. Disturb({}) /\ UNCHANGED <<sessionRows, sweepsMade, touches>>
    BY <1>2 DEF LeadAppears
  <2>5. /\ sweep' \in [Sweeps -> SweepCalls] /\ settled' = FALSE
        /\ \A b \in Sweeps : Stays(b, {}) /\ ~sweep'[b].pure
    BY <2>4, DisturbIs
  <2>. QED BY <2>3, <2>4, <2>5 DEF BackfillTypeOK
<1>3. ASSUME NEW l \in DOMAIN leadRows, LeadHanded(l) \/ LeadWorked(l)
      PROVE  /\ BackfillTypeOK' /\ settled' = FALSE
             /\ \E S \in SUBSET Nat :
                  Untouched(S) /\ \A b \in Sweeps : Stays(b, S) /\ ~sweep'[b].pure
  <2>1. /\ leadRows' \in Seq(BackfilledLeads) /\ Untouched({l}) /\ l \in Nat
        /\ Disturb({l}) /\ UNCHANGED <<sessionRows, sweepsMade>> /\ touches' \in Nat
    BY <1>3, LeadTouched
  <2>2. {l} \in SUBSET Nat
    BY <2>1
  <2>3. /\ sweep' \in [Sweeps -> SweepCalls] /\ settled' = FALSE
        /\ \A b \in Sweeps : Stays(b, {l}) /\ ~sweep'[b].pure
    BY <2>1, <2>2, DisturbIs
  <2>. QED BY <2>1, <2>2, <2>3 DEF BackfillTypeOK
<1>. QED BY <1>1, <1>2, <1>3

\* What a call has read still stands after others have touched the leads of S.
LEMMA ReadingStays ==
  ASSUME NEW b \in Sweeps, ReadingOK(b), NEW S, Stays(b, S), Untouched(S)
  PROVE  ReadingOK(b)'
<1>1. /\ sweep'[b].at = sweep[b].at /\ sweep'[b].view = sweep[b].view
      /\ sweep'[b].keeper = sweep[b].keeper /\ sweep'[b].others = sweep[b].others
      /\ sweep[b].at \in {"bind", "delete"} => sweep'[b].late = sweep[b].late \cup S
  BY DEF Stays, Later
<1>2. \A l \in Existing \ S : l \in Existing' /\ leadRows'[l] = leadRows[l]
  BY DEF Untouched
<1>3. ASSUME sweep[b].at = "bind", NEW x \in sweep[b].view
      PROVE  x[1] \in sweep'[b].late \/ (x[1] \in Existing' /\ leadRows'[x[1]] = x[2])
  <2>1. x[1] \in sweep[b].late \/ (x[1] \in Existing /\ leadRows[x[1]] = x[2])
    BY <1>3 DEF ReadingOK
  <2>. QED BY <1>1, <1>2, <1>3, <2>1
<1>4. ASSUME sweep[b].at = "delete"
      PROVE  LET k == sweep'[b].keeper
             IN /\ k \notin sweep'[b].others
                /\ k \in sweep'[b].late \/
                     /\ k \in Existing'
                     /\ \A l \in sweep'[b].others :
                          \/ l \in sweep'[b].late
                          \/ l \in Existing' /\ Points(leadRows'[k]) >= Points(leadRows'[l])
  <2>1. PICK k : k = sweep[b].keeper
    OBVIOUS
  <2>2. /\ k \notin sweep[b].others
        /\ k \in sweep[b].late \/
             /\ k \in Existing
             /\ \A l \in sweep[b].others :
                  \/ l \in sweep[b].late
                  \/ l \in Existing /\ Points(leadRows[k]) >= Points(leadRows[l])
    BY <1>4, <2>1 DEF ReadingOK
  <2>3. sweep'[b].late = sweep[b].late \cup S
    BY <1>1, <1>4
  <2>4. CASE k \in sweep[b].late \cup S
    BY <1>1, <2>1, <2>2, <2>3, <2>4
  <2>5. CASE k \notin sweep[b].late \cup S
    <3>1. k \in Existing' /\ leadRows'[k] = leadRows[k]
      BY <1>2, <2>2, <2>5
    <3>2. ASSUME NEW l \in sweep[b].others, l \notin sweep[b].late \cup S
          PROVE  l \in Existing' /\ Points(leadRows'[k]) >= Points(leadRows'[l])
      <4>1. l \in Existing /\ Points(leadRows[k]) >= Points(leadRows[l])
        BY <2>2, <2>5, <3>2
      <4>2. l \in Existing' /\ leadRows'[l] = leadRows[l]
        BY <1>2, <3>2, <4>1
      <4>. QED BY <3>1, <4>1, <4>2
    <3>. QED BY <1>1, <2>1, <2>2, <2>3, <3>1, <3>2
  <2>. QED BY <2>4, <2>5
<1>. QED BY <1>1, <1>3, <1>4 DEF ReadingOK

\* The types and the readings, preserved together.
BackfillInv == BackfillTypeOK /\ ReadingsStand

\* A call that leaves the leads as they are.
LEMMA LeadsStay ==
  ASSUME leadRows' = leadRows
  PROVE  Existing' = Existing /\ Untouched({})
BY DEF Existing, Untouched

LEMMA IdleIsOK ==
  ASSUME NEW b \in Sweeps, sweep'[b].at \notin {"bind", "delete"}
  PROVE  ReadingOK(b)'
BY DEF ReadingOK

\* A step of call b that touches the leads of S.
LEMMA OneCallActs ==
  ASSUME ReadingsStand, NEW b \in Sweeps, NEW S, Untouched(S),
         \A a \in Sweeps \ {b} : Stays(a, S), ReadingOK(b)'
  PROVE  ReadingsStand'
<1>1. ASSUME NEW a \in Sweeps \ {b} PROVE ReadingOK(a)'
  BY <1>1, ReadingStays DEF ReadingsStand
<1>. QED BY <1>1 DEF ReadingsStand

LEMMA NoSweepIs ==
  /\ NoSweep.at = "idle" /\ ~NoSweep.pure
BY DEF NoSweep

LEMMA CreateIs ==
  ASSUME BackfillTypeOK, NEW b \in Sweeps, SweepCreate(b)
  PROVE  /\ sweep[b].at = "create" /\ sweep[b].stage \in LeadStages
         /\ leadRows' = Append(leadRows, NewLead(sweep[b].stage))
         /\ leadRows' \in Seq(BackfilledLeads) /\ Untouched({})
         /\ sweep' \in [Sweeps -> SweepCalls] /\ sweep'[b] = NoSweep
         /\ \A a \in Sweeps \ {b} : Stays(a, {})
         /\ settled' = sweep[b].pure /\ settled' \in BOOLEAN
         /\ UNCHANGED <<sessionRows, sweepsMade, touches>>
<1>1. /\ sweep[b].at = "create" /\ leadRows' = Append(leadRows, NewLead(sweep[b].stage))
      /\ Moves(b, NoSweep, {}) /\ settled' = sweep[b].pure
      /\ UNCHANGED <<sessionRows, sweepsMade, touches>>
  BY DEF SweepCreate
<1>2. sweep[b].stage \in LeadStages /\ sweep[b].pure \in BOOLEAN
  BY <1>1 DEF BackfillTypeOK, SweepCalls, CallRecords
<1>3. NewLead(sweep[b].stage) \in BackfilledLeads
  BY <1>2, NewLeadIs
<1>4. leadRows' \in Seq(BackfilledLeads) /\ Untouched({})
  BY <1>1, <1>3, LeadAdded
<1>5. /\ sweep' \in [Sweeps -> SweepCalls] /\ sweep'[b] = NoSweep
      /\ \A a \in Sweeps \ {b} : Stays(a, {})
  BY <1>1, MovesIs, NoCallIs
<1>. QED BY <1>1, <1>2, <1>4, <1>5

\* What the lead kept is once it is written.
LEMMA KeeperIsWritten ==
  ASSUME BackfillTypeOK, NEW b \in Sweeps, SweepBind(b), Keeper(b)[1] \in Existing
  PROVE  /\ Existing' = Existing /\ leadRows' \in Seq(BackfilledLeads)
         /\ Untouched({Keeper(b)[1]})
         /\ leadRows'[Keeper(b)[1]] = [leadRows[Keeper(b)[1]] EXCEPT !.status = Kept(b)]
<1> DEFINE k == Keeper(b)[1]
<1>1. /\ k \in Existing /\ leadRows' = [leadRows EXCEPT ![k].status = Kept(b)]
      /\ Kept(b) \in LeadStages \cup CrmStatuses
  BY BindIs
<1>2. /\ leadRows \in Seq(BackfilledLeads) /\ k \in DOMAIN leadRows
      /\ leadRows[k] \in BackfilledLeads /\ leadRows[k].exists
  BY <1>1 DEF BackfillTypeOK, Existing
<1> DEFINE row == [leadRows[k] EXCEPT !.status = Kept(b)]
<1>3. row \in BackfilledLeads /\ row.exists = leadRows[k].exists
  BY <1>1, <1>2 DEF BackfilledLeads
<1>4. leadRows' = [leadRows EXCEPT ![k] = row]
  BY <1>1
<1> HIDE DEF k, row
<1>5. /\ leadRows' \in Seq(BackfilledLeads) /\ DOMAIN leadRows' = DOMAIN leadRows
      /\ leadRows'[k] = row /\ \A l \in DOMAIN leadRows \ {k} : leadRows'[l] = leadRows[l]
  BY <1>2, <1>3, <1>4
<1>6. Existing' = Existing /\ Untouched({k})
  BY <1>2, <1>3, <1>5 DEF Existing, Untouched
<1>. QED BY <1>5, <1>6 DEF k, row

LEMMA ReadStep ==
  ASSUME BackfillInv, NEW b \in Sweeps, SweepRead(b)
  PROVE  BackfillInv'
<1>1. /\ sweep' = [sweep EXCEPT ![b] = sweep'[b]] /\ sweep'[b] \in SweepCalls
      /\ sweep'[b].at = IF Existing = {} THEN "create" ELSE "bind"
      /\ sweep'[b].view = {<<l, leadRows[l]>> : l \in Existing}
  BY ReadIs DEF BackfillInv
<1>2. UNCHANGED <<sessionRows, leadRows, settled, sweepsMade, touches>>
  BY DEF SweepRead
<1>3. /\ sweep' \in [Sweeps -> SweepCalls]
      /\ \A a \in Sweeps \ {b} : sweep'[a] = sweep[a]
  BY <1>1 DEF BackfillInv, BackfillTypeOK
<1>4. Existing' = Existing
  BY <1>2, LeadsStay
<1>5. ASSUME NEW a \in Sweeps \ {b} PROVE ReadingOK(a)'
  <2>1. ReadingOK(a) /\ sweep'[a] = sweep[a]
    BY <1>3 DEF BackfillInv, ReadingsStand
  <2>. QED BY <1>2, <1>4, <2>1 DEF ReadingOK
<1>6. ReadingOK(b)'
  <2>1. \A x \in sweep'[b].view : x[1] \in Existing /\ leadRows[x[1]] = x[2]
    BY <1>1
  <2>2. sweep'[b].at # "delete"
    BY <1>1
  <2>. QED BY <1>2, <1>4, <2>1, <2>2 DEF ReadingOK
<1>7. ReadingsStand'
  BY <1>5, <1>6 DEF ReadingsStand
<1>8. BackfillTypeOK'
  BY <1>2, <1>3 DEF BackfillInv, BackfillTypeOK
<1>. QED BY <1>7, <1>8 DEF BackfillInv

\* A call that has written its lead: the lead is as it read it but for the
\* stage, so it ranks as high as the others unless others have touched them.
LEMMA BindStep ==
  ASSUME BackfillInv, NEW b \in Sweeps, SweepBind(b)
  PROVE  BackfillInv'
<1>0. BackfillTypeOK /\ ReadingsStand /\ ReadingOK(b)
  BY DEF BackfillInv, ReadingsStand
<1>1. /\ Keeper(b) \in sweep[b].view
      /\ \A x \in sweep[b].view : Points(Keeper(b)[2]) >= Points(x[2])
      /\ sweep[b].at = "bind" /\ sweep[b].stage \in LeadStages
      /\ sweep' \in [Sweeps -> SweepCalls]
      /\ UNCHANGED <<sessionRows, sweepsMade, touches>> /\ settled' = FALSE
  BY <1>0, BindIs
<1>2. CASE Keeper(b)[1] \notin Existing
  <2>1. /\ sweep'[b] = NoSweep /\ leadRows' = leadRows
        /\ \A a \in Sweeps \ {b} : Stays(a, {})
    BY <1>0, <1>2, BindIs
  <2>2. Untouched({}) /\ ReadingOK(b)'
    BY <2>1, LeadsStay, IdleIsOK, NoSweepIs
  <2>3. ReadingsStand'
    BY <1>0, <2>1, <2>2, OneCallActs
  <2>. QED BY <1>0, <1>1, <2>1, <2>3 DEF BackfillInv, BackfillTypeOK
<1>3. CASE Keeper(b)[1] \in Existing
  <2>k. PICK k : k = Keeper(b)[1]
    OBVIOUS
  <2>1. /\ sweep'[b].at = "delete" /\ sweep'[b].keeper = k
        /\ sweep'[b].others = {x[1] : x \in sweep[b].view} \ {k}
        /\ sweep'[b].late = sweep[b].late
        /\ \A a \in Sweeps \ {b} : Stays(a, {k})
    BY <1>0, <1>3, <2>k, BindIs
  <2>2. /\ Existing' = Existing /\ leadRows' \in Seq(BackfilledLeads) /\ Untouched({k})
        /\ leadRows'[k] = [leadRows[k] EXCEPT !.status = Kept(b)]
    BY <1>0, <1>3, <2>k, KeeperIsWritten
  <2>3. \A x \in sweep[b].view :
          x[1] \in sweep[b].late \/ (x[1] \in Existing /\ leadRows[x[1]] = x[2])
    BY <1>0, <1>1 DEF ReadingOK
  <2>4. ASSUME k \notin sweep[b].late, NEW l \in sweep'[b].others, l \notin sweep[b].late
        PROVE  l \in Existing' /\ Points(leadRows'[k]) >= Points(leadRows'[l])
    <3>1. leadRows[k] = Keeper(b)[2] /\ leadRows[k] \in BackfilledLeads
      BY <1>0, <1>1, <2>k, <2>3, <2>4 DEF BackfillTypeOK, Existing
    <3>2. Points(leadRows'[k]) = Points(leadRows[k])
      BY <1>1, <2>2, <3>1, RankIsKept DEF Kept
    <3>3. PICK x \in sweep[b].view : x[1] = l
      BY <2>1, <2>4
    <3>4. l \in Existing /\ leadRows[l] = x[2] /\ l # k
      BY <2>1, <2>3, <2>4, <3>3
    <3>5. leadRows'[l] = leadRows[l]
      BY <2>2, <3>4 DEF Untouched
    <3>6. Points(leadRows[k]) >= Points(leadRows[l])
      BY <1>1, <3>1, <3>4
    <3>. QED BY <2>2, <3>2, <3>4, <3>5, <3>6
  <2>5. ReadingOK(b)'
    <3>1. k \notin sweep'[b].others /\ k \in Existing'
      BY <1>3, <2>k, <2>1, <2>2
    <3>. QED BY <2>1, <2>4, <3>1 DEF ReadingOK
  <2>6. ReadingsStand'
    BY <1>0, <2>1, <2>2, <2>5, OneCallActs
  <2>. QED BY <1>0, <1>1, <2>2, <2>6 DEF BackfillInv, BackfillTypeOK
<1>. QED BY <1>2, <1>3

LEMMA BackfillStep == BackfillInv /\ [BackfillNext]_backfillVars => BackfillInv'
<1> SUFFICES ASSUME BackfillInv, [BackfillNext]_backfillVars PROVE BackfillInv'
  OBVIOUS
<1>0. BackfillTypeOK /\ ReadingsStand
  BY DEF BackfillInv
<1>1. ASSUME NEW b \in Sweeps, SweepList(b) PROVE BackfillInv'
  <2>1. /\ sweep' \in [Sweeps -> SweepCalls] /\ sweep'[b].at = "leads" /\ settled' = FALSE
        /\ UNCHANGED <<sessionRows, leadRows, touches>> /\ sweepsMade' \in Nat
        /\ \A a \in Sweeps \ {b} : Stays(a, {})
    BY <1>0, <1>1, ListIs
  <2>2. ReadingsStand'
    BY <1>0, <2>1, LeadsStay, IdleIsOK, OneCallActs
  <2>. QED BY <1>0, <2>1, <2>2 DEF BackfillInv, BackfillTypeOK
<1>2. ASSUME NEW b \in Sweeps, SweepRead(b) PROVE BackfillInv'
  BY <1>2, ReadStep
<1>3. ASSUME NEW b \in Sweeps, SweepCreate(b) PROVE BackfillInv'
  <2>1. /\ leadRows' \in Seq(BackfilledLeads) /\ Untouched({})
        /\ sweep' \in [Sweeps -> SweepCalls] /\ sweep'[b] = NoSweep
        /\ \A a \in Sweeps \ {b} : Stays(a, {})
        /\ settled' \in BOOLEAN /\ UNCHANGED <<sessionRows, sweepsMade, touches>>
    BY <1>0, <1>3, CreateIs
  <2>2. ReadingsStand'
    BY <1>0, <2>1, NoSweepIs, IdleIsOK, OneCallActs
  <2>. QED BY <1>0, <2>1, <2>2 DEF BackfillInv, BackfillTypeOK
<1>4. ASSUME NEW b \in Sweeps, SweepBind(b) PROVE BackfillInv'
  BY <1>4, BindStep
<1>5. ASSUME NEW b \in Sweeps, SweepDelete(b) PROVE BackfillInv'
  <2>1. /\ leadRows' \in Seq(BackfilledLeads) /\ Untouched(sweep[b].others)
        /\ sweep' \in [Sweeps -> SweepCalls] /\ sweep'[b] = NoSweep
        /\ \A a \in Sweeps \ {b} : Stays(a, sweep[b].others)
        /\ settled' \in BOOLEAN /\ UNCHANGED <<sessionRows, sweepsMade, touches>>
    BY <1>0, <1>5, DeleteIs
  <2>2. ReadingsStand'
    BY <1>0, <2>1, NoSweepIs, IdleIsOK, OneCallActs
  <2>. QED BY <1>0, <2>1, <2>2 DEF BackfillInv, BackfillTypeOK
<1>6. ASSUME NEW b \in Sweeps, SweepFails(b) PROVE BackfillInv'
  <2>1. Moves(b, NoSweep, {}) /\ UNCHANGED <<sessionRows, leadRows, settled, sweepsMade, touches>>
    BY <1>6 DEF SweepFails
  <2>2. /\ sweep' \in [Sweeps -> SweepCalls] /\ sweep'[b] = NoSweep
        /\ \A a \in Sweeps \ {b} : Stays(a, {})
    BY <1>0, <2>1, MovesIs, NoCallIs
  <2>3. ReadingsStand'
    BY <1>0, <2>1, <2>2, LeadsStay, NoSweepIs, IdleIsOK, OneCallActs
  <2>. QED BY <1>0, <2>1, <2>2, <2>3 DEF BackfillInv, BackfillTypeOK
<1>7. CASE SessionChanges \/ LeadAppears \/ \E l \in DOMAIN leadRows : LeadHanded(l) \/ LeadWorked(l)
  <2>1. PICK S \in SUBSET Nat : Untouched(S) /\ \A b \in Sweeps : Stays(b, S)
    BY <1>0, <1>7, OthersAct
  <2>2. ReadingsStand'
    BY <1>0, <2>1, ReadingStays DEF ReadingsStand
  <2>. QED BY <1>0, <1>7, <2>2, OthersAct DEF BackfillInv
<1>8. CASE UNCHANGED backfillVars
  BY <1>0, <1>8 DEF backfillVars, BackfillInv, BackfillTypeOK, ReadingsStand, ReadingOK, Existing
<1>. QED BY <1>1, <1>2, <1>3, <1>4, <1>5, <1>6, <1>7, <1>8 DEF BackfillNext

LEMMA BackfillHolds == BackfillSpec => []BackfillInv
<1>1. BackfillInit => BackfillInv
  <2> SUFFICES ASSUME BackfillInit PROVE BackfillInv
    OBVIOUS
  <2>1. /\ sessionRows = <<>> /\ leadRows = <<>> /\ sweep = [b \in Sweeps |-> NoSweep]
        /\ settled = FALSE /\ sweepsMade = 0 /\ touches = 0
    BY DEF BackfillInit
  <2>2. sessionRows \in Seq(SessionStatuses) /\ leadRows \in Seq(BackfilledLeads)
    BY <2>1
  <2>3. \A b \in Sweeps : sweep[b].at = "idle"
    BY <2>1, NoSweepIs
  <2>. QED BY <2>1, <2>2, <2>3, NoCallIs DEF BackfillInv, BackfillTypeOK, ReadingsStand, ReadingOK
<1>. QED BY <1>1, BackfillStep, PTL DEF BackfillSpec

-----------------------------------------------------------------------------
(* WorkIsSpared *)

\* What a step of call b owes the leads that others have left alone.
Spares(b) ==
  \A l \in Existing \ sweep[b].late :
    /\ l \in Existing' /\ leadRows[l].status \in CrmStatuses =>
         leadRows'[l].status = leadRows[l].status
    /\ l \notin Existing' =>
         LET k == sweep[b].keeper
         IN k \notin sweep[b].late =>
              k \in Existing' /\ Points(leadRows'[k]) >= Points(leadRows[l])

LEMMA UntouchedSpares ==
  ASSUME NEW b \in Sweeps, Untouched({})
  PROVE  Spares(b)
BY DEF Untouched, Spares

LEMMA BindSpares ==
  ASSUME BackfillInv, NEW b \in Sweeps, SweepBind(b)
  PROVE  Spares(b)
<1>0. BackfillTypeOK /\ ReadingOK(b)
  BY DEF BackfillInv, ReadingsStand
<1>1. /\ Keeper(b) \in sweep[b].view /\ sweep[b].at = "bind" /\ sweep[b].stage \in LeadStages
      /\ Keeper(b)[1] \in Existing \/ leadRows' = leadRows
  BY <1>0, BindIs
<1>2. CASE leadRows' = leadRows
  BY <1>2, LeadsStay, UntouchedSpares
<1>3. CASE Keeper(b)[1] \in Existing
  <2>k. PICK k : k = Keeper(b)[1]
    OBVIOUS
  <2>1. /\ Existing' = Existing /\ Untouched({k})
        /\ leadRows'[k] = [leadRows[k] EXCEPT !.status = Kept(b)]
    BY <1>0, <1>3, <2>k, KeeperIsWritten
  <2>2. ASSUME NEW l \in Existing \ sweep[b].late, leadRows[l].status \in CrmStatuses
        PROVE  leadRows'[l].status = leadRows[l].status
    <3>1. CASE l # k
      BY <2>1, <3>1 DEF Untouched
    <3>2. CASE l = k
      <4>1. leadRows[k] = Keeper(b)[2] /\ leadRows[k] \in BackfilledLeads
        BY <1>0, <1>1, <2>k, <2>2, <3>2 DEF ReadingOK, BackfillTypeOK, Existing
      <4>2. leadRows'[k] = leadRows[k]
        BY <1>1, <2>1, <2>2, <3>2, <4>1, RankIsKept DEF Kept
      <4>. QED BY <3>2, <4>2
    <3>. QED BY <3>1, <3>2
  <2>. QED BY <2>1, <2>2 DEF Spares
<1>. QED BY <1>1, <1>2, <1>3

LEMMA DeleteSpares ==
  ASSUME BackfillInv, NEW b \in Sweeps, SweepDelete(b)
  PROVE  Spares(b)
<1>0. BackfillTypeOK /\ ReadingOK(b)
  BY DEF BackfillInv, ReadingsStand
<1>1. /\ sweep[b].at = "delete" /\ Existing' = Existing \ sweep[b].others
      /\ Untouched(sweep[b].others)
  BY <1>0, DeleteIs
<1>2. \A l \in Existing \ sweep[b].others : leadRows'[l] = leadRows[l]
  BY <1>1 DEF Untouched
<1>3. ASSUME NEW l \in Existing \ sweep[b].late, l \in sweep[b].others,
             sweep[b].keeper \notin sweep[b].late
      PROVE  /\ sweep[b].keeper \in Existing'
             /\ Points(leadRows'[sweep[b].keeper]) >= Points(leadRows[l])
  <2>1. PICK k : k = sweep[b].keeper
    OBVIOUS
  <2>2. /\ k \notin sweep[b].others /\ k \in Existing
        /\ Points(leadRows[k]) >= Points(leadRows[l])
    BY <1>0, <1>1, <1>3, <2>1 DEF ReadingOK
  <2>3. k \in Existing' /\ leadRows'[k] = leadRows[k]
    BY <1>1, <1>2, <2>2
  <2>. QED BY <2>1, <2>2, <2>3
<1>. QED BY <1>1, <1>2, <1>3 DEF Spares

\* A backfill call writes and deletes only what it was free to: a lead nobody
\* else has touched since the call read it keeps its CRM status, and is deleted
\* only for one that ranks as high and is there (pickCanonicalLead,
\* backfillLeadForUser), whatever other calls, hooks, experts and failures do.
THEOREM BackfillSparesWork == BackfillSpec => WorkIsSpared
<1> DEFINE Step == \A b \in Sweeps : sweep'[b].at # sweep[b].at => Spares(b)
<1>1. BackfillInv /\ [BackfillNext]_backfillVars => [Step]_backfillVars
  <2> SUFFICES ASSUME BackfillInv, BackfillNext, NEW a \in Sweeps, sweep'[a].at # sweep[a].at
               PROVE  Spares(a)
    OBVIOUS
  <2>0. BackfillTypeOK
    BY DEF BackfillInv
  <2>1. ASSUME NEW b \in Sweeps, SweepList(b) PROVE Spares(a)
    <3>1. leadRows' = leadRows
      BY <2>0, <2>1, ListIs
    <3>. QED BY <3>1, LeadsStay, UntouchedSpares
  <2>2. ASSUME NEW b \in Sweeps, SweepRead(b) PROVE Spares(a)
    <3>1. leadRows' = leadRows
      BY <2>2 DEF SweepRead
    <3>. QED BY <3>1, LeadsStay, UntouchedSpares
  <2>3. ASSUME NEW b \in Sweeps, SweepCreate(b) PROVE Spares(a)
    <3>1. Untouched({})
      BY <2>0, <2>3, CreateIs
    <3>. QED BY <3>1, UntouchedSpares
  <2>4. ASSUME NEW b \in Sweeps, SweepBind(b) PROVE Spares(a)
    <3>1. \A c \in Sweeps \ {b} : Stays(c, {Keeper(b)[1]}) \/ Stays(c, {})
      BY <2>0, <2>4, BindIs
    <3>2. \A c \in Sweeps \ {b} : sweep'[c].at = sweep[c].at
      BY <3>1 DEF Stays, Later
    <3>3. a = b
      BY <3>2
    <3>. QED BY <2>4, <3>3, BindSpares
  <2>5. ASSUME NEW b \in Sweeps, SweepDelete(b) PROVE Spares(a)
    <3>1. a = b
      BY <2>0, <2>5, DeleteIs DEF Stays, Later
    <3>. QED BY <2>5, <3>1, DeleteSpares
  <2>6. ASSUME NEW b \in Sweeps, SweepFails(b) PROVE Spares(a)
    <3>1. leadRows' = leadRows
      BY <2>6 DEF SweepFails
    <3>. QED BY <3>1, LeadsStay, UntouchedSpares
  <2>7. CASE SessionChanges \/ LeadAppears
             \/ \E l \in DOMAIN leadRows : LeadHanded(l) \/ LeadWorked(l)
    <3>1. sweep'[a].at = sweep[a].at
      BY <2>0, <2>7, OthersAct DEF Stays, Later
    <3>. QED BY <3>1
  <2>. QED BY <2>1, <2>2, <2>3, <2>4, <2>5, <2>6, <2>7 DEF BackfillNext
<1>2. ([][Step]_backfillVars) => WorkIsSpared
  BY DEF WorkIsSpared, Spares
<1>. QED BY <1>1, <1>2, BackfillHolds, PTL DEF BackfillSpec

-----------------------------------------------------------------------------
(* StageIsLatest: what a call that is still pure has read is what is there.  *)

Latest == Stage(sessionRows[Len(sessionRows)])
RightStage(l) == leadRows[l].status \in CrmStatuses \cup {Latest}

PureCall(b) ==
  /\ sweep[b].at # "idle" /\ \A a \in Sweeps \ {b} : sweep[a].at = "idle"
  /\ sessionRows # <<>>
  /\ sweep[b].at \in {"leads", "create", "bind"} => sweep[b].stage = Latest
  /\ sweep[b].at = "create" => Existing = {}
  /\ sweep[b].at = "bind" => sweep[b].view = {<<l, leadRows[l]>> : l \in Existing}
  /\ sweep[b].at = "delete" => \E k \in Existing : sweep[b].others = Existing \ {k} /\ RightStage(k)

SettledIsRight ==
  settled => /\ \A b \in Sweeps : sweep[b].at = "idle"
             /\ sessionRows # <<>>
             /\ \E k : Existing = {k} /\ RightStage(k)

PureStands == SettledIsRight /\ \A b \in Sweeps : sweep[b].pure => PureCall(b)

\* The step of one call, when it is not idle: nothing is settled, and no other
\* call is pure.
LEMMA OneCallMoves ==
  ASSUME PureStands, NEW b \in Sweeps, sweep[b].at # "idle",
         \A a \in Sweeps \ {b} : sweep'[a].pure => sweep[a].pure,
         sweep'[b].pure => sweep[b].pure /\ PureCall(b)',
         settled' => settled \/ SettledIsRight'
  PROVE  PureStands'
<1>1. ~settled
  BY DEF PureStands, SettledIsRight
<1>2. \A a \in Sweeps \ {b} : ~sweep[a].pure
  BY DEF PureStands, PureCall
<1>3. \A a \in Sweeps : sweep'[a].pure => PureCall(a)'
  BY <1>2
<1>4. SettledIsRight'
  BY <1>1 DEF SettledIsRight
<1>. QED BY <1>3, <1>4 DEF PureStands

LEMMA ListIsPure ==
  ASSUME BackfillTypeOK, NEW b \in Sweeps, SweepList(b)
  PROVE  PureStands'
<1>1. /\ settled' = FALSE /\ sweep'[b].at = "leads" /\ UNCHANGED <<sessionRows, leadRows>>
      /\ \A a \in Sweeps \ {b} : Stays(a, {}) /\ ~sweep'[a].pure
      /\ sweep'[b].pure =>
           /\ \A a \in Sweeps \ {b} : sweep[a].at = "idle"
           /\ sessionRows # <<>> /\ sweep'[b].stage = Stage(sessionRows[Len(sessionRows)])
  BY ListIs
<1>2. \A a \in Sweeps \ {b} : sweep'[a].at = sweep[a].at
  BY <1>1 DEF Stays, Later
<1>3. sweep'[b].pure => PureCall(b)'
  BY <1>1, <1>2 DEF PureCall, Latest
<1>. QED BY <1>1, <1>3 DEF PureStands, SettledIsRight

LEMMA ReadIsPure ==
  ASSUME BackfillTypeOK, PureStands, NEW b \in Sweeps, SweepRead(b)
  PROVE  PureStands'
<1>1. /\ UNCHANGED <<sessionRows, leadRows, settled>>
      /\ \A a \in Sweeps \ {b} : sweep'[a] = sweep[a]
  BY ReadIs DEF SweepRead, BackfillTypeOK
<1>2. Existing' = Existing /\ Latest' = Latest
  BY <1>1 DEF Existing, Latest
<1>3. ASSUME sweep'[b].pure PROVE sweep[b].pure /\ PureCall(b)'
  <2>1. sweep[b].pure /\ PureCall(b) /\ sweep[b].at = "leads"
    BY <1>3, ReadIs DEF PureStands
  <2>2. sweep'[b].stage = Latest /\ sessionRows # <<>>
        /\ \A a \in Sweeps \ {b} : sweep[a].at = "idle"
    BY <2>1, ReadIs DEF PureCall
  <2>3. /\ (sweep'[b].at = "create" /\ Existing = {}) \/ sweep'[b].at = "bind"
        /\ sweep'[b].view = {<<l, leadRows[l]>> : l \in Existing}
    BY ReadIs
  <2>. QED BY <1>1, <1>2, <2>1, <2>2, <2>3 DEF PureCall
<1>4. sweep[b].at # "idle"
  BY DEF SweepRead
<1>. QED BY <1>1, <1>3, <1>4, OneCallMoves

LEMMA CreateSettles ==
  ASSUME BackfillTypeOK, PureStands, NEW b \in Sweeps, SweepCreate(b)
  PROVE  PureStands'
<1>1. /\ sweep[b].at = "create" /\ leadRows' = Append(leadRows, NewLead(sweep[b].stage))
      /\ sweep'[b] = NoSweep /\ settled' = sweep[b].pure /\ UNCHANGED sessionRows
      /\ \A a \in Sweeps \ {b} : Stays(a, {})
  BY CreateIs
<1>2. /\ ~sweep'[b].pure /\ sweep'[b].at = "idle"
      /\ \A a \in Sweeps \ {b} : sweep'[a].at = sweep[a].at /\ (sweep'[a].pure => sweep[a].pure)
  BY <1>1, NoSweepIs DEF Stays, Later
<1>3. ASSUME settled' PROVE SettledIsRight'
  <2>1. PureCall(b)
    BY <1>1, <1>3 DEF PureStands
  <2>2. /\ sweep[b].stage = Latest /\ Existing = {} /\ sessionRows # <<>>
        /\ \A a \in Sweeps \ {b} : sweep[a].at = "idle"
    BY <1>1, <2>1 DEF PureCall
  <2>3. NewLead(sweep[b].stage).exists /\ NewLead(sweep[b].stage).status = Latest
    BY <2>2 DEF NewLead
  <2>4. leadRows \in Seq(BackfilledLeads) /\ Latest' = Latest
    BY <1>1 DEF BackfillTypeOK, Latest
  <2> DEFINE k == Len(leadRows) + 1
             row == NewLead(sweep[b].stage)
  <2>5. /\ DOMAIN leadRows' = DOMAIN leadRows \cup {k} /\ leadRows'[k] = row
        /\ \A l \in DOMAIN leadRows : leadRows'[l] = leadRows[l]
    <3>1. leadRows' = Append(leadRows, row)
      BY <1>1
    <3> HIDE DEF row
    <3>2. /\ Len(leadRows') = Len(leadRows) + 1 /\ leadRows'[Len(leadRows) + 1] = row
          /\ \A l \in 1..Len(leadRows) : leadRows'[l] = leadRows[l]
          /\ DOMAIN leadRows = 1..Len(leadRows) /\ Len(leadRows) \in Nat
          /\ DOMAIN leadRows' = 1..Len(leadRows')
      BY <2>4, <3>1
    <3>. QED BY <3>2
  <2> HIDE DEF k, row
  <2>6. Existing' = {k} /\ leadRows'[k].status = Latest
    BY <2>2, <2>3, <2>5 DEF Existing, row
  <2>7. PICK j : j = k
    OBVIOUS
  <2>8. Existing' = {j} /\ RightStage(j)'
    BY <2>4, <2>6, <2>7 DEF RightStage
  <2>. QED BY <1>1, <1>2, <2>2, <2>8 DEF SettledIsRight
<1>. QED BY <1>1, <1>2, <1>3, OneCallMoves

LEMMA BindIsPure ==
  ASSUME BackfillTypeOK, PureStands, NEW b \in Sweeps, SweepBind(b)
  PROVE  PureStands'
<1>1. /\ UNCHANGED sessionRows /\ settled' = FALSE /\ sweep[b].at = "bind"
      /\ \A a \in Sweeps \ {b} : Stays(a, {Keeper(b)[1]}) \/ Stays(a, {})
  BY BindIs
<1>2. \A a \in Sweeps \ {b} : sweep'[a].at = sweep[a].at /\ (sweep'[a].pure => sweep[a].pure)
  BY <1>1 DEF Stays, Later
<1>3. PICK k : k = Keeper(b)[1]
  OBVIOUS
<1>4. ASSUME sweep'[b].pure PROVE sweep[b].pure /\ PureCall(b)'
  <2>1. /\ k \in Existing /\ sweep[b].pure /\ sweep'[b].at = "delete"
        /\ sweep'[b].others = {x[1] : x \in sweep[b].view} \ {k}
    BY <1>3, <1>4, BindIs, NoSweepIs
  <2>2. PureCall(b) /\ sweep[b].stage = Latest /\ Latest' = Latest /\ sessionRows # <<>>
        /\ sweep[b].view = {<<l, leadRows[l]>> : l \in Existing}
        /\ \A a \in Sweeps \ {b} : sweep[a].at = "idle"
    BY <1>1, <2>1 DEF PureStands, PureCall, Latest
  <2>3. Existing' = Existing /\ leadRows'[k] = [leadRows[k] EXCEPT !.status = Kept(b)]
    BY <1>3, <2>1, KeeperIsWritten
  <2>4. leadRows'[k].status = Kept(b)
    BY <2>1, <2>3 DEF Existing, BackfilledLeads, BackfillTypeOK
  <2>5. Kept(b) \in CrmStatuses \cup {Latest}
    BY <2>2 DEF Kept
  <2>6. {x[1] : x \in sweep[b].view} = Existing
    <3>1. \A x \in sweep[b].view : x[1] \in Existing
      BY <2>2
    <3>2. ASSUME NEW l \in Existing PROVE \E x \in sweep[b].view : x[1] = l
      <4>1. <<l, leadRows[l]>> \in sweep[b].view
        BY <2>2
      <4>2. <<l, leadRows[l]>>[1] = l
        OBVIOUS
      <4>. QED BY <4>1, <4>2
    <3>. QED BY <3>1, <3>2
  <2>7. RightStage(k)'
    BY <2>2, <2>4, <2>5 DEF RightStage
  <2>8. k \in Existing' /\ sweep'[b].others = Existing' \ {k}
    BY <2>1, <2>3, <2>6
  <2>. QED BY <1>1, <1>2, <2>1, <2>2, <2>7, <2>8 DEF PureCall
<1>. QED BY <1>1, <1>2, <1>4, OneCallMoves

LEMMA DeleteSettles ==
  ASSUME BackfillTypeOK, PureStands, NEW b \in Sweeps, SweepDelete(b)
  PROVE  PureStands'
<1>1. /\ sweep[b].at = "delete" /\ Existing' = Existing \ sweep[b].others
      /\ Untouched(sweep[b].others) /\ sweep'[b] = NoSweep /\ settled' = sweep[b].pure
      /\ UNCHANGED sessionRows /\ \A a \in Sweeps \ {b} : Stays(a, sweep[b].others)
  BY DeleteIs
<1>2. /\ ~sweep'[b].pure /\ sweep'[b].at = "idle"
      /\ \A a \in Sweeps \ {b} : sweep'[a].at = sweep[a].at /\ (sweep'[a].pure => sweep[a].pure)
  BY <1>1, NoSweepIs DEF Stays, Later
<1>3. ASSUME settled' PROVE SettledIsRight'
  <2>1. PureCall(b)
    BY <1>1, <1>3 DEF PureStands
  <2>2. sessionRows # <<>> /\ \A a \in Sweeps \ {b} : sweep[a].at = "idle"
    BY <2>1 DEF PureCall
  <2>3. PICK k \in Existing : sweep[b].others = Existing \ {k} /\ RightStage(k)
    BY <1>1, <2>1 DEF PureCall
  <2>4. Existing' = {k} /\ leadRows'[k] = leadRows[k] /\ Latest' = Latest
    BY <1>1, <2>3 DEF Untouched, Latest
  <2>5. RightStage(k)'
    BY <2>3, <2>4 DEF RightStage
  <2>. QED BY <1>1, <1>2, <2>2, <2>4, <2>5 DEF SettledIsRight
<1>. QED BY <1>1, <1>2, <1>3, OneCallMoves

LEMMA PureStep == BackfillInv /\ PureStands /\ [BackfillNext]_backfillVars => PureStands'
<1> SUFFICES ASSUME BackfillTypeOK, PureStands, [BackfillNext]_backfillVars PROVE PureStands'
  BY DEF BackfillInv
<1>1. ASSUME NEW b \in Sweeps, SweepFails(b) PROVE PureStands'
  <2>1. sweep[b].at # "idle" /\ Moves(b, NoSweep, {}) /\ settled' = settled
    BY <1>1 DEF SweepFails
  <2>2. sweep'[b] = NoSweep /\ \A a \in Sweeps \ {b} : Stays(a, {})
    BY <2>1, MovesIs, NoCallIs
  <2>3. ~sweep'[b].pure /\ \A a \in Sweeps \ {b} : sweep'[a].pure => sweep[a].pure
    BY <2>2, NoSweepIs DEF Stays, Later
  <2>. QED BY <2>1, <2>3, OneCallMoves
<1>2. CASE SessionChanges \/ LeadAppears
           \/ \E l \in DOMAIN leadRows : LeadHanded(l) \/ LeadWorked(l)
  BY <1>2, OthersAct DEF PureStands, SettledIsRight
<1>3. CASE UNCHANGED backfillVars
  BY <1>3 DEF backfillVars, PureStands, PureCall, SettledIsRight, RightStage, Latest, Existing
<1>. QED BY <1>1, <1>2, <1>3, ListIsPure, ReadIsPure, CreateSettles, BindIsPure, DeleteSettles
         DEF BackfillNext

LEMMA RightStageIs ==
  ASSUME BackfillTypeOK, SettledIsRight
  PROVE  StageIsLatest
<1>1. SUFFICES ASSUME settled PROVE StageIsLatest
  BY DEF StageIsLatest
<1> DEFINE newest == sessionRows[Len(sessionRows)]
<1>2. newest \in SessionStatuses
  BY <1>1 DEF BackfillTypeOK, SettledIsRight
<1>3. PICK k : Existing = {k} /\ RightStage(k)
  BY <1>1 DEF SettledIsRight
<1>4. leadRows[k].status \in CrmStatuses \cup {Stage(newest)}
  BY <1>3 DEF RightStage, Latest
<1>5. Cardinality(Existing) = 1
  BY <1>3, FS_Singleton
<1> HIDE DEF newest
<1>6. \/ leadRows[k].status \in CrmStatuses
      \/ leadRows[k].status = "assessment_in_progress" /\ newest = "open"
      \/ leadRows[k].status = "assessment_completed" /\ newest = "completed"
      \/ leadRows[k].status = "assessment_incomplete" /\ newest \in {"stale", "abandoned"}
  BY <1>2, <1>4 DEF Stage, SessionStatuses
<1>. QED BY <1>3, <1>5, <1>6 DEF StageIsLatest, newest

\* A call on all groups that ran through with nothing else touching the person's
\* rows leaves one lead, at the stage of the newest session unless it is in the
\* CRM: what it lists, reads, writes and deletes at different times is then the
\* same (backfillAssessmentLeads, resolveBackfillLeadStatus).
THEOREM BackfillSettlesStage == BackfillSpec => []StageIsLatest
<1>1. BackfillInit => PureStands
  BY DEF BackfillInit, PureStands, SettledIsRight, NoSweep
<1>2. BackfillInv /\ PureStands => StageIsLatest
  BY RightStageIs DEF PureStands, BackfillInv
<1>. QED BY <1>1, <1>2, BackfillHolds, PureStep, PTL DEF BackfillSpec
=============================================================================
