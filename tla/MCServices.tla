------------------------------ MODULE MCServices ------------------------------
(***************************************************************************)
(* The small services, one behaviour at a time: part says which of them    *)
(* runs, the others keep their first state.  What a service sees of the    *)
(* others is an action of its own module.                                  *)
(***************************************************************************)
EXTENDS OtpLogin, LeadCrm, ReminderDigest, RateLimit, MessengerBot, LeadBackfill,
        ScoringEngine, DiagnosisEngine, SalesFunnelEngine, TLC

VARIABLE part

Parts == {"otp", "staff", "crm", "digest", "rate", "bot", "backfill", "scoring", "diagnosis", "funnel"}

ServicesInit ==
  /\ part \in Parts
  /\ OtpInit /\ LeadsInit /\ DayInit /\ RateInit /\ BotInit /\ BackfillInit
  /\ ScoringInit /\ DiagnosisInit /\ FunnelInit
  /\ part = "staff" => StaffInit
  /\ part # "staff" => StaffHired
  /\ part # "bot" => chat = NewChat /\ tests = <<>>

ServicesNext ==
  /\ \/ part = "otp" /\ OtpNext
     \/ part = "staff" /\ StaffNext
     \/ part = "crm" /\ CrmNext
     \/ part = "digest" /\ DigestNext
     \/ part = "rate" /\ RateNext
     \/ part = "bot" /\ BotNext
     \/ part = "backfill" /\ BackfillNext
     \/ part = "scoring" /\ ScoringNext
     \/ part = "diagnosis" /\ DiagnosisNext
     \/ part = "funnel" /\ FunnelNext
  /\ part # "otp" => UNCHANGED otpVars
  /\ part \notin {"staff", "crm", "digest"} => UNCHANGED staffVars
  /\ part # "crm" => UNCHANGED crmOwn
  /\ part # "digest" => UNCHANGED digestOwn
  /\ part # "rate" => UNCHANGED rateVars
  /\ part # "bot" => UNCHANGED botVars
  /\ part # "backfill" => UNCHANGED backfillVars
  /\ part # "scoring" => UNCHANGED scores
  /\ part # "diagnosis" => UNCHANGED given
  /\ part # "funnel" => UNCHANGED funnelVars
  /\ UNCHANGED part

ServicesVars == <<otpVars, crmVars, digestVars, rateVars, botVars, backfillVars, scores,
                  given, funnelVars, part>>

ServicesSpec == ServicesInit /\ [][ServicesNext]_ServicesVars

-----------------------------------------------------------------------------
(* Their inputs *)

\* The same names stand for the requests of every service.
MCSymmetry == Permutations(OtpRequests)

\* Two updates of a lead that is worked on, its loss, its sale by someone else,
\* and its return to the team.
MCInputs ==
  {[status |-> "contacted", owner |-> "keep", reason |-> FALSE],
   [status |-> "unreachable", owner |-> "keep", reason |-> FALSE],
   [status |-> "closed_lost", owner |-> "keep", reason |-> TRUE],
   [status |-> "keep", owner |-> "keep", reason |-> TRUE],
   [status |-> "keep", owner |-> Nobody, reason |-> FALSE]}
  \cup {[status |-> "closed_won", owner |-> e, reason |-> FALSE] : e \in SalesExperts}

\* An expert's first lead, and one still in the pipeline.
MCRows ==
  LET first == CHOOSE l \in CrmLeads : TRUE
      owner == CHOOSE e \in SalesExperts : TRUE
  IN {[l \in CrmLeads |-> IF l = first THEN [status |-> "new", owner |-> owner]
                          ELSE [status |-> "assessment_in_progress", owner |-> Nobody]]}

\* Five questions in three domains, the last two domains of a layer of their own.
MCDomainOf == <<1, 1, 2, 2, 3>>
MCLayerOf == <<1, 1, 2>>

\* Domain 13 has lost two of its five questions, 8 one.
MCAsked ==
  [e \in 1..16 |-> CASE e = 13 -> {1, 2, 4} [] e = 8 -> {1, 2, 3, 5} [] OTHER -> 1..5]

\* Nothing in place, the same but red by a hair, failed gates in a weak domain, a
\* failed gate in a domain that is not weak, healthy.
MCShapes ==
  {<<0, 0, 0, 0, 0>>, <<1, 1, 0, 1, 0>>, <<0, 3, 3, 0, 0>>, <<3, 0, 1, 2, 1>>, <<3, 2, 3, 3, 2>>}

\* The other domains are at the limit of the weak ones, weak, or better.
MCUsual ==
  [e \in 1..16 |-> CASE e \in {1, 3, 12, 14} -> <<1, 2, 1, 1, 1>>
                     [] e \in {4, 15} -> <<0, 1, 1, 2, 1>>
                     [] OTHER -> <<2, 2, 1, 3, 2>>]

\* A lever left where it is, moved by a hair, and all the way.
MCDeltas == {-20, -3, 0, 1, 20}
=============================================================================
