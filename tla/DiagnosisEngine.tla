---------------------------- MODULE DiagnosisEngine ----------------------------
(***************************************************************************)
(* Diagnosis engine v2 (modules/diagnosis/v2, adapter/to-legacy-bottlenecks*)
(* and the constants of config/model-v1/diagnosis-engine-v2) as functions  *)
(* of the answers of a test.                                               *)
(*                                                                         *)
(* Domains are engine ids.  Numbers are exact: gaps in 15ths, weights in   *)
(* 200ths, M in 1500ths, so PI is in 18 millionths.  Where the code sorts, *)
(* an order says what comes first; its sorts are stable, so equals keep    *)
(* the order of the engine ids.  Equal products of different factors count *)
(* as equal, whatever the rounding of the code makes of them.              *)
(***************************************************************************)
EXTENDS Naturals, Sequences, FiniteSets, FiniteSetsExt, Functions

CONSTANTS
  Asked,   \* the active questions of each domain
  Varied,  \* the domains whose answers vary
  Shapes,  \* the ways to answer their questions
  Usual    \* the answers to the other domains

Engines == 1..16
NotTaken == <<>>

ASSUME DiagnosisAssumption ==
  /\ Asked \in [Engines -> SUBSET (1..5)]
  /\ Varied \subseteq Engines
  /\ Shapes \subseteq [1..5 -> 0..3]
  /\ Usual \in [Engines -> [1..5 -> 0..3]]

VARIABLE given   \* the answers of the finished test

DiagnosisInit == given = NotTaken

TestFinished ==
  /\ given = NotTaken
  /\ \E answers \in [Varied -> Shapes] :
       given' = [e \in Engines |-> IF e \in Varied THEN answers[e] ELSE Usual[e]]

DiagnosisNext == TestFinished
DiagnosisSpec == DiagnosisInit /\ [][DiagnosisNext]_given

-----------------------------------------------------------------------------
(* Constants *)

Constants(R, Q, U, kT, tier) == [R |-> R, Q |-> Q, U |-> U, kT |-> kT, tier |-> tier]

\* kT in tenths.
DomainConstants ==
  << Constants(1, 2, 3, 13, "foundation"), Constants(2, 2, 3, 13, "foundation"),
     Constants(2, 2, 3, 13, "foundation"), Constants(3, 2, 2, 13, "foundation"),
     Constants(2, 1, 1, 16, "survival"),   Constants(2, 2, 2,  7, "growth"),
     Constants(3, 3, 3, 16, "survival"),   Constants(2, 2, 3, 10, "engine"),
     Constants(2, 2, 1, 10, "engine"),     Constants(3, 2, 1, 10, "engine"),
     Constants(3, 2, 1, 10, "engine"),     Constants(3, 2, 1, 10, "engine"),
     Constants(3, 3, 1, 16, "survival"),   Constants(2, 2, 1,  7, "growth"),
     Constants(2, 1, 2,  7, "growth"),     Constants(1, 2, 3, 13, "foundation") >>

StructuralWeight(e) ==
  LET c == DomainConstants[e] IN c.kT * (9 * c.R + 6 * c.Q + 5 * c.U)

Survival == {5, 7, 13}
Measurement == 16
BindingFlowOrder == <<5, 7, 8, 9, 10, 11, 12, 13>>
GateQuestions == {<<5, 5>>, <<7, 1>>, <<7, 4>>, <<13, 2>>, <<10, 1>>, <<16, 2>>}

\* Root, symptom and weight in tenths.
DependencyEdges ==
  {<<2, 3, 8>>, <<2, 5, 7>>, <<2, 12, 7>>, <<2, 9, 6>>, <<2, 10, 6>>,
   <<3, 12, 8>>, <<3, 11, 7>>, <<3, 9, 7>>, <<3, 4, 7>>, <<3, 5, 6>>,
   <<1, 16, 7>>, <<1, 7, 5>>, <<1, 13, 5>>, <<7, 13, 7>>, <<7, 9, 6>>, <<7, 12, 5>>,
   <<8, 10, 6>>, <<8, 11, 5>>, <<8, 12, 5>>, <<4, 13, 8>>, <<4, 12, 7>>,
   <<6, 13, 6>>, <<6, 12, 5>>, <<15, 13, 5>>, <<15, 9, 5>>}

BinaryDependencies ==
  { <<2, 5>>, <<2, 3>>, <<2, 9>>, <<2, 10>>, <<2, 12>>,
    <<3, 5>>, <<3, 9>>, <<3, 11>>, <<3, 12>>, <<3, 4>>,
    <<1, 16>>, <<1, 7>>, <<1, 13>>, <<7, 9>>, <<7, 12>>, <<7, 13>>,
    <<8, 10>>, <<8, 11>>, <<8, 12>>, <<4, 12>>, <<4, 13>>,
    <<6, 12>>, <<6, 13>>, <<15, 9>>, <<15, 13>> }

-----------------------------------------------------------------------------
(* Scores of a domain.  A question that is not asked counts as zero. *)

Slot(g, e, q) == IF q \in Asked[e] THEN g[e][q] ELSE 0
Raw(g, e) == Slot(g, e, 1) + Slot(g, e, 2) + Slot(g, e, 3) + Slot(g, e, 4) + Slot(g, e, 5)
Eligible == {e \in Engines : Cardinality(Asked[e]) >= 4}

IsWeak(raw) == raw <= 6
Level(raw) ==
  CASE raw <= 3 -> "critical"
    [] 3 < raw /\ raw <= 6 -> "weak"
    [] 6 < raw /\ raw <= 9 -> "medium"
    [] 9 < raw /\ raw <= 12 -> "healthy"
    [] OTHER -> "advanced"

Pervasive(g, e) == \A q \in 1..5 : Slot(g, e, q) <= 1

\* 1.25 in quarters, for a complete domain.
PatternMultiplier(g, e) == IF e \in Eligible /\ Pervasive(g, e) THEN 5 ELSE 4

WeakQuestions(g, e) == {q \in Asked[e] : g[e][q] <= 1}
GateAlerts(g, e) == {q \in Asked[e] : <<e, q>> \in GateQuestions /\ g[e][q] = 0}

SurvivalFlag(raw) == CASE raw <= 3 -> 2 [] 3 < raw /\ raw <= 6 -> 1 [] OTHER -> 0

\* GREEN, AMBER, RED as 0, 1, 2.
SurvivalStatus(raw) == Max({SurvivalFlag(raw[e]) : e \in Survival \cap Eligible} \cup {0})

\* In 240ths, and in 15ths of the sum of all R.
HealthFlat(raw) == SumFunctionOnSet(raw, Eligible)
HealthWeighted(raw) == SumFunction([e \in Eligible |-> raw[e] * DomainConstants[e].R])

-----------------------------------------------------------------------------
(* Roots and symptoms *)

Clamp(n, low, high) == Min({high, Max({low, n})})

\* Over the weak roots (end = 1) or symptoms (end = 2) of some edges, in 150ths.
WeightedSum(raw, edges, end) ==
  SumFunction([d \in {f \in edges : IsWeak(raw[f[end]])} |-> d[3] * (15 - raw[d[end]])])

BinaryM(raw, e) ==
  LET upstreamWeak == \E d \in BinaryDependencies :
                        d[2] = e /\ IsWeak(raw[d[1]])
      downstreamWeak == \E d \in BinaryDependencies :
                          d[1] = e /\ IsWeak(raw[d[2]])
  IN CASE downstreamWeak /\ ~upstreamWeak -> 2250
       [] upstreamWeak /\ ~downstreamWeak -> 750
       [] OTHER -> 1500

\* The two ties of engine 7 that binary fractions do not see as ties.
RoundedDown(raw) == <<raw[1], raw[9]>> = <<3, 5>> \/ <<raw[1], raw[13]>> = <<1, 5>>

WeightedM(raw, e) ==
  LET explained == WeightedSum(raw, {d \in DependencyEdges : d[2] = e}, 1)
      rootImpact == WeightedSum(raw, {d \in DependencyEdges : d[1] = e}, 2)
      isRoot == rootImpact > explained \/ (rootImpact = explained /\ ~(e = 7 /\ RoundedDown(raw)))
  IN CASE e = Measurement -> 2250
       [] e # Measurement /\ isRoot -> Clamp(1500 + 5 * rootImpact, 1500, 3000)
       [] OTHER -> IF 6 * explained >= 1650 THEN 600 ELSE 2250 - 6 * explained

MCoefficient(raw, e) ==
  IF ~IsWeak(raw[e]) THEN 1500
  ELSE LET m == WeightedM(raw, e) IN IF m = 1500 THEN BinaryM(raw, e) ELSE m

DependencyFindings(raw) ==
  {d \in DependencyEdges : IsWeak(raw[d[1]]) /\ IsWeak(raw[d[2]])}

\* The first narrow place of the funnel; 0: none.
BindingConstraint(raw) ==
  LET narrow == {i \in DOMAIN BindingFlowOrder :
                   BindingFlowOrder[i] \in Eligible /\ IsWeak(raw[BindingFlowOrder[i]])}
  IN IF narrow = {} THEN 0 ELSE BindingFlowOrder[Min(narrow)]

PriorityIndex(g, raw, e) ==
  (15 - raw[e]) * StructuralWeight(e) * MCoefficient(raw, e) * PatternMultiplier(g, e)
    + (IF e = BindingConstraint(raw) THEN 600000 * (15 - raw[e]) ELSE 0)

-----------------------------------------------------------------------------
(* What is chosen *)

\* The member of S that nothing comes before; 0: S is empty.
First(S, Before(_, _)) ==
  IF S = {} THEN 0 ELSE CHOOSE x \in S : \A y \in S \ {x} : Before(x, y)

\* x and y sorted by descending values, equals by a further order.
Higher(x, y, value, further) == value[x] > value[y] \/ (value[x] = value[y] /\ further)

\* Tier 0: red survival domains, 1: domains with a gate alert, 2: the others.
Tier(g, raw, e) ==
  CASE e \in Survival /\ SurvivalFlag(raw[e]) = 2 -> 0
    [] ~(e \in Survival /\ SurvivalFlag(raw[e]) = 2) /\ GateAlerts(g, e) # {} -> 1
    [] OTHER -> 2

\* The order of the ladder.
LadderBefore(g, raw, pi, x, y) ==
  LET tx == Tier(g, raw, x)
      ty == Tier(g, raw, y)
      lower == raw[x] < raw[y] \/ (raw[x] = raw[y] /\ x < y)
      R == [e \in {x, y} |-> DomainConstants[e].R]
      alerts == [e \in {x, y} |-> Cardinality(GateAlerts(g, e))]
  IN \/ tx < ty
     \/ /\ tx = ty
        /\ CASE tx = 0 -> lower
             [] tx = 1 -> Higher(x, y, alerts, lower)
             [] OTHER -> Higher(x, y, pi, Higher(x, y, R, x < y))

PrimaryIssue(g, raw, pi) == First(Eligible, LAMBDA x, y : LadderBefore(g, raw, pi, x, y))

RootCandidates(raw, primary) ==
  {e \in Eligible \ {primary} :
     IsWeak(raw[e]) /\ (DomainConstants[e].tier = "foundation" \/ DomainConstants[e].U >= 3)}

\* The first two structural roots; 0: there is none.
StructuralRoots(raw, primary) ==
  LET score == [e \in Engines |->
                  (15 - raw[e]) * DomainConstants[e].U * DomainConstants[e].kT]
      Before(x, y) == Higher(x, y, score, x < y)
      root == First(RootCandidates(raw, primary), Before)
  IN <<root, First(RootCandidates(raw, primary) \ {root}, Before)>>

\* Among the chosen domains; before ADR 0016 among all quick ones, which is
\* still what happens when nothing could be chosen.
QuickWin(raw, primary, roots, binding) ==
  LET chosen == <<primary, roots[1], roots[2], binding>>
      score == [e \in Engines |-> (15 - raw[e]) * DomainConstants[e].Q]
      place(e) == Min({i \in 1..4 : chosen[i] = e})
      quick == {e \in Eligible : raw[e] <= 9 /\ DomainConstants[e].Q = 3}
      candidates == {chosen[i] : i \in 1..4} \cap Eligible
  IN IF candidates # {}
     THEN First(candidates, LAMBDA x, y : Higher(x, y, score, place(x) < place(y)))
     ELSE First(quick, LAMBDA x, y : Higher(x, y, score, x < y))

\* Math.round(100 * PI)
RoundedIndex(pi) == [e \in DOMAIN pi |-> (pi[e] + 90000) \div 180000]

\* Nobody (0) and nothing twice.
Added(s, e) == IF e = 0 \/ \E i \in DOMAIN s : s[i] = e THEN s ELSE Append(s, e)

\* Filled up to three with the domains of the highest rounded index.
FilledUp(pi, chosen) ==
  LET rounded == RoundedIndex(pi)
      Best(s) == First(Eligible \ {s[i] : i \in DOMAIN s}, LAMBDA x, y : Higher(x, y, rounded, x < y))
      filled(s) == IF Len(s) < 3 THEN Added(s, Best(s)) ELSE s
  IN filled(filled(filled(chosen)))

\* Fault: the quick win may repeat the structural root.
BottlenecksRepeatRoot(pi, primary, roots, quickWin) ==
  LET chosen == Added(Added(<<>>, primary), roots[1])
  IN FilledUp(pi, IF quickWin \in {0, primary} THEN chosen ELSE Append(chosen, quickWin))

\* toLegacyBottlenecks: primary issue, first root and quick win, without repetition.
Bottlenecks(pi, primary, roots, quickWin) ==
  FilledUp(pi, Added(Added(Added(<<>>, primary), roots[1]), quickWin))

Confidence(raw) ==
  CASE Level(raw[Measurement]) = "critical" -> "low"
    [] Level(raw[Measurement]) = "weak" -> "medium"
    [] OTHER -> "high"

\* toLegacyDiagnoses: a text on the primary issue, on each root, and on measuring first.
InstrumentFirst == 17
Told(s, e) == IF e = 0 THEN s ELSE Append(s, e)
Diagnoses(primary, roots, confidence) ==
  Told(Told(Told(Told(<<>>, primary), roots[1]), roots[2]),
       IF confidence = "low" THEN InstrumentFirst ELSE 0)

\* The questions named for a chosen domain: a failed gate question, whichever
\* the answers, read in no order, give first, then the worst weak ones, two in all.
IssueRootQuestions(g, e) ==
  LET Worse(x, y) == g[e][x] < g[e][y] \/ (g[e][x] = g[e][y] /\ x < y)
      worst(S) == LET q == First(S, Worse) IN IF q = 0 THEN {} ELSE {q}
      weak == WeakQuestions(g, e)
  IN IF GateAlerts(g, e) # {}
     THEN {{q} \cup worst(weak \ {q}) : q \in GateAlerts(g, e)}
     ELSE {worst(weak) \cup worst(weak \ worst(weak))}

\* The chosen domains, each with its questions, and what the adapter stores.
Diagnosis(g) ==
  LET raw == [e \in Engines |-> Raw(g, e)]
      pi == [e \in Engines |-> PriorityIndex(g, raw, e)]
      primary == PrimaryIssue(g, raw, pi)
      roots == StructuralRoots(raw, primary)
      binding == BindingConstraint(raw)
      quickWin == QuickWin(raw, primary, roots, binding)
  IN [raw |-> raw, pi |-> pi, primaryIssue |-> primary, structuralRoots |-> roots,
      quickWin |-> quickWin, bindingConstraint |-> binding,
      dependencyFindings |-> DependencyFindings(raw),
      bottlenecks |-> Bottlenecks(pi, primary, roots, quickWin),
      diagnoses |-> Diagnoses(primary, roots, Confidence(raw)),
      survivalStatus |-> SurvivalStatus(raw), confidence |-> Confidence(raw),
      healthFlat |-> HealthFlat(raw), healthWeighted |-> HealthWeighted(raw)]

-----------------------------------------------------------------------------
(* Property *)

\* Three bottlenecks, or all complete domains when they are fewer, no domain twice,
\* and the first ones are those that the diagnoses talk about first.
BottlenecksFill(d) ==
  LET chosen == {d.bottlenecks[i] : i \in DOMAIN d.bottlenecks}
  IN /\ Len(d.bottlenecks) = Cardinality(chosen)
     /\ Len(d.bottlenecks) = Min({3, Cardinality(Eligible)})
     /\ chosen \subseteq Eligible
     /\ \A i \in DOMAIN d.diagnoses \cap 1..2 :
          d.diagnoses[i] \in {d.bottlenecks[i], InstrumentFirst}

\* The primary issue is the worst red survival domain, or else one that fails a gate.
SurvivalFirst(g, d) ==
  IF d.survivalStatus = 2
  THEN /\ d.primaryIssue \in Survival
       /\ \A e \in Survival \cap Eligible : d.raw[d.primaryIssue] <= d.raw[e]
  ELSE (\E e \in Eligible : GateAlerts(g, e) # {}) => GateAlerts(g, d.primaryIssue) # {}

\* Two of its weak questions explain a chosen domain, a failed gate among them.
ChoiceIsExplained(g, d) ==
  \A e \in {d.primaryIssue, d.structuralRoots[1], d.structuralRoots[2], d.quickWin} \ {0} :
    \A named \in IssueRootQuestions(g, e) :
      /\ named \subseteq WeakQuestions(g, e)
      /\ Cardinality(named) = Min({2, Cardinality(WeakQuestions(g, e))})
      /\ GateAlerts(g, e) # {} => named \cap GateAlerts(g, e) # {}

\* A domain counts as a root or a symptom only where the findings say of what.
RolesAreFound(d) ==
  \A e \in Engines \ {Measurement} :
    MCoefficient(d.raw, e) # 1500 => \E f \in d.dependencyFindings : e \in {f[1], f[2]}

\* One better answer never worsens the survival status, never moves the narrow
\* place of the funnel upstream, and lowers the priority of its domain, unless
\* it takes the domain out of the weak ones, where M becomes 1.
BetterAnswerHelps(g, d) ==
  \A e \in Engines : \A q \in {p \in Asked[e] : g[e][p] < 3} :
    LET better == [g EXCEPT ![e][q] = @ + 1]
        raw == [d.raw EXCEPT ![e] = @ + 1]
        upstream(x, y) == \E i, j \in DOMAIN BindingFlowOrder :
                            i < j /\ BindingFlowOrder[i] = x /\ BindingFlowOrder[j] = y
    IN /\ SurvivalStatus(raw) <= d.survivalStatus
       /\ d.bindingConstraint = 0 => BindingConstraint(raw) = 0
       /\ ~upstream(BindingConstraint(raw), d.bindingConstraint)
       /\ IsWeak(raw[e]) = IsWeak(d.raw[e]) => PriorityIndex(better, raw, e) < d.pi[e]

\* What the engine and its adapter choose fits together for every test: the
\* bottlenecks, the ladder and the survival gate, the questions named for a
\* choice, the roles and the findings, and what a better answer changes.
DiagnosisIsCoherent ==
  given # NotTaken =>
    \A d \in {Diagnosis(given)} :
      /\ BottlenecksFill(d)
      /\ SurvivalFirst(given, d)
      /\ ChoiceIsExplained(given, d)
      /\ RolesAreFound(d)
      /\ BetterAnswerHelps(given, d)
=============================================================================
