--------------------------- MODULE SalesFunnelEngine ---------------------------
(***************************************************************************)
(* The sales funnel calculator (sales-funnel.engine.ts): stage counts that *)
(* the person saves, and the two levers computed from them.  Both go       *)
(* through the stages in a loop, a step for each, by conversion rates that *)
(* are rounded, and round each count once, when it is shown.               *)
(*                                                                         *)
(* Counts, goals and rates are whole: rates count in 1/Unit (four decimals *)
(* in the code) and what-if counts in 1/Cents (two).  The code's floating  *)
(* point is taken as exact.  Revenue is a multiple of the last stage and   *)
(* is left out.                                                            *)
(***************************************************************************)
EXTENDS Integers, Sequences, FiniteSetsExt

CONSTANTS
  StageCounts,   \* counts the person enters
  MaxStages,     \* bound: stages the person enters
  Deltas,        \* changes of a conversion rate, in 1/Unit
  Targets,       \* customers asked for
  Unit, Cents

ASSUME FunnelAssumption ==
  /\ StageCounts \subseteq Nat /\ MaxStages \in Nat
  /\ Deltas \subseteq Int /\ Targets \subseteq Nat \ {0}
  /\ Unit \in Nat \ {0} /\ Cents \in Nat \ {0}

VARIABLES
  stages,   \* counts of the stages, customers last
  calc      \* a lever being computed: the stage it has got to, and the rates
            \* it went through, rates/scale when multiplied

funnelVars == <<stages, calc>>

\* passed is history: the counts of the stages the rates were taken from.
NoCalc == [lever |-> "none", asked |-> 0, from |-> 0, at |-> 0,
           rates |-> 1, scale |-> 1, passed |-> 0]

\* Four stages in every default template.
FunnelInit ==
  /\ stages = <<0, 0, 0, 0>>
  /\ calc = NoCalc

StagesSaved ==
  /\ calc = NoCalc
  /\ \E n \in 1..MaxStages : stages' \in [1..n -> StageCounts]
  /\ UNCHANGED calc

-----------------------------------------------------------------------------
\* Math.round(n / d)
RoundDiv(n, d) == n \div d + (IF 2 * (n % d) >= d THEN 1 ELSE 0)

\* Fault: cut off instead of rounded.
RateTruncated(i) ==
  IF stages[i] = 0 THEN 0 ELSE Min({Unit, (stages[i + 1] * Unit) \div stages[i]})

\* conversionBetween, clamped to 0 .. 1, roundRate
Rate(i) ==
  IF stages[i] = 0 THEN 0 ELSE Min({Unit, RoundDiv(stages[i + 1] * Unit, stages[i])})

Clamped(rate) == Max({0, Min({Unit, rate})})

\* whatIf: the stage after the lever, ...
WhatIf(i, delta) ==
  /\ calc = NoCalc
  /\ calc' = [lever |-> "whatIf", asked |-> delta, from |-> i, at |-> i + 1,
              rates |-> Clamped(Rate(i) + delta), scale |-> Unit, passed |-> stages[i]]
  /\ UNCHANGED stages

\* The next stage, by the rate between j and j + 1.
Through(j, at) ==
  calc' = [calc EXCEPT !.at = at, !.rates = @ * Rate(j), !.scale = @ * Unit,
                       !.passed = @ + stages[j]]

\* ... and those downstream, by the rates as they are.
Propagate ==
  /\ calc.lever = "whatIf" /\ calc.at < Len(stages)
  /\ Through(calc.at, calc.at + 1)
  /\ UNCHANGED stages

\* goalSeek: from the customers asked for ...
GoalSeek(target) ==
  /\ calc = NoCalc /\ Len(stages) >= 2
  /\ calc' = [NoCalc EXCEPT !.lever = "goalSeek", !.asked = target, !.from = Len(stages),
                            !.at = Len(stages)]
  /\ UNCHANGED stages

\* ... backwards.
BackSolve ==
  /\ calc.lever = "goalSeek" /\ calc.at > 1 /\ Rate(calc.at - 1) > 0
  /\ Through(calc.at - 1, calc.at - 1)
  /\ UNCHANGED stages

\* All stages are there, or a rate of zero has no answer: null.
CalcEnds ==
  /\ \/ calc.lever = "whatIf" /\ calc.at = Len(stages)
     \/ calc.lever = "goalSeek" /\ (calc.at > 1 => Rate(calc.at - 1) = 0)
  /\ calc' = NoCalc
  /\ UNCHANGED stages

FunnelNext ==
  \/ StagesSaved
  \/ \E i \in 1..(Len(stages) - 1), delta \in Deltas : WhatIf(i, delta)
  \/ Propagate
  \/ \E target \in Targets : GoalSeek(target)
  \/ BackSolve
  \/ CalcEnds

FunnelSpec == FunnelInit /\ [][FunnelNext]_funnelVars

-----------------------------------------------------------------------------
(* Property *)

\* The count shown for the stage the calculation has got to: roundMoney, Math.round.
Shown ==
  IF calc.lever = "whatIf"
  THEN RoundDiv(Cents * stages[calc.from] * calc.rates, calc.scale)
  ELSE RoundDiv(calc.asked * calc.scale, calc.rates)

Narrowing(i, j) == \A k \in i..(j - 1) : stages[k] >= stages[k + 1]

\* Rounding the rates moves the counts by no more than half a 1/Unit of every
\* count gone through.  A lever turned up shows no stage with less than it has
\* but for that and half of 1/Cents, unless the funnel widens; turned down, with
\* more.  (At four and two decimals: exactly the same counts if the lever stays
\* and those gone through add up to less than a hundred.)  A goal of as many
\* customers as there are or more asks no stage for less than it has, but for
\* leads that would bring so few customers and half a lead; a goal of as many or
\* less, for more, unless the funnel widens.
LeversStayClose ==
  LET here == stages[calc.at]
      last == stages[Len(stages)]
  IN /\ calc.lever = "whatIf" =>
          LET gain == 2 * Unit * (Shown - Cents * here)
              slack == Cents * calc.passed + Unit
          IN /\ calc.asked >= 0 /\ Narrowing(calc.from, calc.at) => -gain <= slack
             /\ calc.asked <= 0 => gain <= slack
     /\ calc.lever = "goalSeek" =>
          LET gain == 2 * Unit * calc.rates * (Shown - here)
              slack == calc.passed * calc.scale + Unit * calc.rates
          IN /\ calc.asked >= last => -gain <= slack
             /\ calc.asked <= last /\ Narrowing(calc.at, Len(stages)) => gain <= slack
=============================================================================
