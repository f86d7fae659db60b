----------------------------- MODULE ScoringEngine -----------------------------
(***************************************************************************)
(* The scores of a test (scoring.engine.ts, health-level.ts) as functions  *)
(* of the answers, and a person who fills in and changes answers.          *)
(* Percentages are hundredths of a percent, rounded as the code does.      *)
(***************************************************************************)
EXTENDS Naturals, FiniteSets, Functions

CONSTANTS
  DomainOf,   \* the domain of each question
  LayerOf     \* the layer of each domain

ASSUME ScoringAssumption ==
  /\ IsFiniteSet(DOMAIN DomainOf) /\ IsFiniteSet(DOMAIN LayerOf)
  /\ \A q \in DOMAIN DomainOf : DomainOf[q] \in DOMAIN LayerOf

VARIABLE scores   \* option score chosen for each question

ScoringQuestions == DOMAIN DomainOf
Domains == DOMAIN LayerOf
Layers == {LayerOf[d] : d \in Domains}
MaxOptionScore == 3
NoScore == MaxOptionScore + 1

ScoringInit == scores = [q \in ScoringQuestions |-> NoScore]

AnswerChosen(q) ==
  \E s \in 0 .. MaxOptionScore : s # scores[q] /\ scores' = [scores EXCEPT ![q] = s]

ScoringNext == \E q \in ScoringQuestions : AnswerChosen(q)
ScoringSpec == ScoringInit /\ [][ScoringNext]_scores

-----------------------------------------------------------------------------
\* Math.round(n / d)
Rounded(n, d) == n \div d + (IF 2 * (n % d) >= d THEN 1 ELSE 0)

\* calculatePercentage
Percentage(raw, max) == IF max = 0 THEN 0 ELSE Rounded(raw * 10000, max)

\* resolveHealthLevel, from critical to healthy
HealthLevel(percentage) ==
  CASE percentage <= 2500 -> 0
    [] 2500 < percentage /\ percentage <= 5000 -> 1
    [] 5000 < percentage /\ percentage <= 7500 -> 2
    [] OTHER -> 3

Score(raw, max) ==
  [raw |-> raw, max |-> max, percentage |-> Percentage(raw, max),
   level |-> HealthLevel(Percentage(raw, max))]

Given(Q) == {q \in Q : scores[q] # NoScore}

ScoreOf(Q) ==
  Score(SumFunctionOnSet(scores, Given(Q)), Cardinality(Given(Q)) * MaxOptionScore)

DomainScore(d) == ScoreOf({q \in ScoringQuestions : DomainOf[q] = d})

\* Fault: the mean of the domains' percentages.
LayerScoreAsMean(k) ==
  LET ds == {d \in Domains : LayerOf[d] = k}
  IN Score(SumFunction([d \in ds |-> DomainScore(d).percentage]), Cardinality(ds) * 10000)

LayerScore(k) ==
  LET ds == {d \in Domains : LayerOf[d] = k}
  IN Score(SumFunction([d \in ds |-> DomainScore(d).raw]),
           SumFunction([d \in ds |-> DomainScore(d).max]))

OverallScore == ScoreOf(ScoringQuestions)

-----------------------------------------------------------------------------
(* Property *)

Between(score, parts) ==
  LET given == {p \in parts : p.max > 0}
  IN given # {} =>
       /\ \E p \in given : p.percentage <= score.percentage /\ p.level <= score.level
       /\ \E p \in given : p.percentage >= score.percentage /\ p.level >= score.level

\* The overall score is computed from the answers, the layers from the domains,
\* the domains from the answers again, each with its own rounding: they count the
\* same points, and a whole is never better or worse, in percentage or health
\* level, than all its parts.
ScoresAgree ==
  Given(ScoringQuestions) # {} =>
    /\ OverallScore.raw = SumFunction([k \in Layers |-> LayerScore(k).raw])
    /\ OverallScore.max = SumFunction([k \in Layers |-> LayerScore(k).max])
    /\ Between(OverallScore, {LayerScore(k) : k \in Layers})
    /\ \A k \in Layers :
         Between(LayerScore(k), {DomainScore(d) : d \in {e \in Domains : LayerOf[e] = k}})
=============================================================================
