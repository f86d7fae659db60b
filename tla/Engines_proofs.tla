----------------------------- MODULE Engines_proofs -----------------------------
(***************************************************************************)
(* Proofs about the engines that only compute: ScoringEngine for any       *)
(* questions, domains and layers, SalesFunnelEngine for any stages, counts *)
(* and decimals, DiagnosisEngine for any questions and answers.            *)
(*                                                                         *)
(* ScoringEngine adds up with a fold of the community modules.  The fold's *)
(* function exists on every finite set (FoldAddsUp) and does not depend on *)
(* the order it picks in (SumTakesOut); both are inductions over a finite  *)
(* set, for which GoodSubsets takes the sets that fulfil the claim as a    *)
(* set.  Sums of sums then count every answer once (SumNested), and a      *)
(* whole lies between its parts because scaled to a common denominator     *)
(* they add up to the same (WholeIsBetween).                               *)
(*                                                                         *)
(* SalesFunnelEngine.  A rounded rate times its denominator is off by half *)
(* of the denominator (RateIs).  Each stage scales the error so far by a   *)
(* rate, which is at most one, and adds its own (OneStageOn, OneStageBack):*)
(* an inductive invariant of the two loops, on products without division.  *)
(*                                                                         *)
(* DiagnosisEngine.  Every choice is the first of a finite set in a strict *)
(* total order, so there is one (FirstExists), and nothing comes before it *)
(* on the ladder (SurvivalComesFirst).  A role other than none needs an    *)
(* edge between two weak domains (RolesHold).  A domain's own answers do   *)
(* not change its M, and the rest of its index falls (AnswerHelps).  The   *)
(* stored lists grow one new domain at a time (AddedIs, FilledUpIs).       *)
(***************************************************************************)
EXTENDS SalesFunnelEngine, ScoringEngine, DiagnosisEngine, FiniteSetTheorems,
        WellFoundedInduction, TLAPS

-----------------------------------------------------------------------------
(* Rounding *)

\* Math.round: the nearest whole, halves upwards.
LEMMA RoundDivIsNearest ==
  ASSUME NEW n \in Nat, NEW d \in Nat \ {0}
  PROVE  /\ RoundDiv(n, d) \in Nat
         /\ 2 * n < 2 * (d * RoundDiv(n, d)) + d
         /\ 2 * (d * RoundDiv(n, d)) <= 2 * n + d
<1> DEFINE q == n \div d
           r == n % d
<1>1. q \in Nat /\ r \in Nat /\ r < d /\ n = d * q + r
  BY Z3
<1>2. CASE 2 * r >= d
  <2>1. RoundDiv(n, d) = q + 1
    BY <1>2, <1>1 DEF RoundDiv
  <2>2. d * (q + 1) = d * q + d
    BY <1>1
  <2> HIDE DEF q, r
  <2> QED BY <2>1, <2>2, <1>1, <1>2
<1>3. CASE ~(2 * r >= d)
  <2>1. RoundDiv(n, d) = q
    BY <1>3, <1>1 DEF RoundDiv
  <2> HIDE DEF q, r
  <2> QED BY <2>1, <1>1, <1>3
<1> QED BY <1>2, <1>3

-----------------------------------------------------------------------------
(* The sales funnel *)

LEMMA MinOfTwo ==
  ASSUME NEW m \in Nat, NEW n \in Nat
  PROVE  Min({m, n}) = IF m <= n THEN m ELSE n
<1> DEFINE least == IF m <= n THEN m ELSE n
<1>1. least \in {m, n} /\ \A y \in {m, n} : least <= y
  OBVIOUS
<1>2. \A x \in {m, n} : (\A y \in {m, n} : x <= y) => x = least
  OBVIOUS
<1> HIDE DEF least
<1>3. Min({m, n}) = least
  BY <1>1, <1>2 DEF Min
<1> QED BY <1>3 DEF least

\* A rate is changed by as much as it can be, and stays one.
LEMMA ClampedIs ==
  ASSUME NEW r \in Int
  PROVE  /\ Clamped(r) \in Nat /\ Clamped(r) <= Unit
         /\ Clamped(r) = IF r < 0 THEN 0 ELSE IF r <= Unit THEN r ELSE Unit
<1> DEFINE m == IF r <= Unit THEN r ELSE Unit
           c == IF m < 0 THEN 0 ELSE m
<1>1. Unit \in Nat
  BY FunnelAssumption
<1>2. m \in {Unit, r} /\ \A y \in {Unit, r} : m <= y
  BY <1>1
<1>3. \A x \in {Unit, r} : (\A y \in {Unit, r} : x <= y) => x = m
  BY <1>1
<1>4. m \in Int
  BY <1>1
<1>5. c = IF r < 0 THEN 0 ELSE IF r <= Unit THEN r ELSE Unit
  BY <1>1
<1> HIDE DEF m
<1>6. Min({Unit, r}) = m
  BY <1>2, <1>3 DEF Min
<1>7. c \in {0, m} /\ \A y \in {0, m} : c >= y
  BY <1>4
<1>8. \A x \in {0, m} : (\A y \in {0, m} : x >= y) => x = c
  BY <1>4
<1> HIDE DEF c
<1>9. Max({0, m}) = c
  BY <1>7, <1>8 DEF Max
<1>10. Clamped(r) = c
  BY <1>6, <1>9 DEF Clamped
<1> QED BY <1>1, <1>5, <1>10

FunnelTypeOK == stages \in Seq(Nat)

\* What rounding leaves of stages[i + 1] / stages[i]: never more than half of
\* stages[i] above, nor below unless the funnel widens there.
LEMMA RateIs ==
  ASSUME FunnelTypeOK, NEW i \in 1..(Len(stages) - 1)
  PROVE  /\ i \in 1..Len(stages) /\ i + 1 \in 1..Len(stages)
         /\ stages[i] \in Nat /\ stages[i + 1] \in Nat
         /\ Rate(i) \in Nat /\ Rate(i) <= Unit
         /\ 2 * (stages[i] * Rate(i)) <= 2 * (stages[i + 1] * Unit) + stages[i]
         /\ stages[i] >= stages[i + 1] =>
              2 * (stages[i + 1] * Unit) <= 2 * (stages[i] * Rate(i)) + stages[i]
<1> DEFINE a == stages[i]
           b == stages[i + 1]
           r == RoundDiv(b * Unit, a)
<1>1. /\ i \in 1..Len(stages) /\ i + 1 \in 1..Len(stages)
      /\ a \in Nat /\ b \in Nat /\ Unit \in Nat
  BY FunnelAssumption DEF FunnelTypeOK
<1>2. CASE a = 0
  <2>1. Rate(i) = 0
    BY <1>2 DEF Rate
  <2>2. a * 0 = 0 /\ b * Unit \in Nat
    BY <1>1
  <2>3. a >= b => b = 0
    BY <1>1, <1>2
  <2> QED BY <1>1, <1>2, <2>1, <2>2, <2>3
<1>3. CASE a # 0
  <2>1. a \in Nat \ {0} /\ b * Unit \in Nat
    BY <1>1, <1>3
  <2>2. r \in Nat /\ 2 * (b * Unit) < 2 * (a * r) + a /\ 2 * (a * r) <= 2 * (b * Unit) + a
    <3> HIDE DEF a, b
    <3> QED BY <2>1, RoundDivIsNearest
  <2>3. Rate(i) = Min({Unit, r})
    BY <1>3 DEF Rate
  <2> HIDE DEF r, a, b
  <2>4. CASE r <= Unit
    <3>1. Rate(i) = r
      BY <1>1, <2>2, <2>3, <2>4, MinOfTwo
    <3> QED BY <1>1, <2>1, <2>2, <2>4, <3>1 DEF a, b
  <2>5. CASE r > Unit
    <3>1. Rate(i) = Unit
      BY <1>1, <2>2, <2>3, <2>5, MinOfTwo
    <3>2. a * Unit <= a * r /\ a * Unit \in Nat
      BY <1>1, <2>2, <2>5
    <3>3. a >= b => b * Unit <= a * Unit
      BY <1>1
    <3>4. 2 * (a * Unit) <= 2 * (b * Unit) + a
      BY <1>1, <2>1, <2>2, <3>2
    <3>5. a >= b => 2 * (b * Unit) <= 2 * (a * Unit) + a
      BY <1>1, <2>1, <3>2, <3>3
    <3> QED BY <1>1, <3>1, <3>4, <3>5 DEF a, b
  <2> QED BY <1>1, <2>2, <2>4, <2>5
<1> QED BY <1>2, <1>3

-----------------------------------------------------------------------------
(* Products of rates.  AtMost: x is at most y but for half a 1/Unit of z. *)

AtMost(x, y, z) == 2 * (Unit * x) <= 2 * (Unit * y) + z

LEMMA AtMostFlat ==
  ASSUME NEW x \in Nat, NEW y \in Nat, NEW z \in Nat, x <= y
  PROVE  AtMost(x, y, z)
<1>1. Unit \in Nat
  BY FunnelAssumption
<1>2. Unit * x <= Unit * y /\ Unit * x \in Nat /\ Unit * y \in Nat
  BY <1>1
<1> DEFINE X == Unit * x
           Y == Unit * y
<1> HIDE DEF X, Y
<1>3. 2 * X <= 2 * Y + z
  BY <1>2 DEF X, Y
<1> QED BY <1>3 DEF AtMost, X, Y

\* Both by another rate, ...
LEMMA AtMostRate ==
  ASSUME NEW x \in Nat, NEW y \in Nat, NEW z \in Nat, AtMost(x, y, z),
         NEW r \in Nat, r <= Unit
  PROVE  AtMost(x * r, y * r, z * Unit)
<1>1. Unit \in Nat
  BY FunnelAssumption
<1> DEFINE X == Unit * x
           Y == Unit * y
<1>2. X \in Nat /\ Y \in Nat /\ 2 * X <= 2 * Y + z
  BY <1>1 DEF AtMost
<1>3. Unit * (x * r) = X * r /\ Unit * (y * r) = Y * r
  BY <1>1
<1> HIDE DEF X, Y
<1>4. (2 * X) * r <= (2 * Y + z) * r
  BY <1>2
<1>5. (2 * X) * r = 2 * (X * r) /\ (2 * Y + z) * r = 2 * (Y * r) + z * r
  BY <1>2
<1>6. z * r <= z * Unit /\ z * r \in Nat /\ z * Unit \in Nat
  BY <1>1
<1>7. X * r \in Nat /\ Y * r \in Nat
  BY <1>2
<1> DEFINE P == X * r
           Q == Y * r
           z1 == z * r
           z2 == z * Unit
<1> HIDE DEF P, Q, z1, z2
<1>8. 2 * P <= 2 * Q + z1 /\ z1 <= z2 /\ P \in Nat /\ Q \in Nat /\ z1 \in Nat /\ z2 \in Nat
  BY <1>4, <1>5, <1>6, <1>7 DEF P, Q, z1, z2
<1>9. 2 * P <= 2 * Q + z2
  BY <1>8
<1> QED BY <1>3, <1>9 DEF AtMost, P, Q, z2

\* ... a rounded rate among others, ...
LEMMA AtMostRounded ==
  ASSUME NEW x \in Nat, NEW y \in Nat, NEW s \in Nat, 2 * x <= 2 * y + s, NEW w \in Nat
  PROVE  AtMost(x * w, y * w, s * (w * Unit))
<1>1. Unit \in Nat
  BY FunnelAssumption
<1> DEFINE u == w * Unit
<1>2. u \in Nat /\ Unit * (x * w) = x * u /\ Unit * (y * w) = y * u
  BY <1>1
<1> HIDE DEF u
<1>3. (2 * x) * u <= (2 * y + s) * u
  BY <1>2
<1>4. (2 * x) * u = 2 * (x * u) /\ (2 * y + s) * u = 2 * (y * u) + s * u
  BY <1>2
<1>5. 2 * (x * u) <= 2 * (y * u) + s * u
  BY <1>3, <1>4
<1> QED BY <1>2, <1>5 DEF AtMost, u

LEMMA OneRate ==
  ASSUME NEW x \in Nat, NEW y \in Nat, NEW s \in Nat, 2 * x <= 2 * y + s
  PROVE  AtMost(x, y, s * Unit)
<1>1. AtMost(x * 1, y * 1, s * (1 * Unit))
  BY AtMostRounded
<1>2. x * 1 = x /\ y * 1 = y /\ 1 * Unit = Unit
  BY FunnelAssumption
<1> QED BY <1>1, <1>2

\* ... and one after the other: the errors add up.
LEMMA AtMostChain ==
  ASSUME NEW x \in Nat, NEW y \in Nat, NEW z \in Nat, NEW c \in Nat, NEW d \in Nat, NEW e \in Nat,
         AtMost(x, y, c), AtMost(y, z, d), c + d <= e
  PROVE  AtMost(x, z, e)
<1>1. Unit \in Nat
  BY FunnelAssumption
<1> DEFINE X == Unit * x
           Y == Unit * y
           Z == Unit * z
<1>2. X \in Nat /\ Y \in Nat /\ Z \in Nat
  BY <1>1
<1>3. 2 * X <= 2 * Y + c /\ 2 * Y <= 2 * Z + d
  BY DEF AtMost
<1> HIDE DEF X, Y, Z
<1>4. 2 * X <= 2 * Z + e
  BY <1>2, <1>3
<1> QED BY <1>4 DEF AtMost, X, Z

LEMMA ErrorsAddUp ==
  ASSUME NEW e \in Nat, NEW s \in Nat, NEW w \in Nat, NEW v \in Nat, v <= w, NEW u \in Nat
  PROVE  /\ e * w * u \in Nat /\ s * (v * u) \in Nat /\ (e + s) * (w * u) \in Nat
         /\ e * w * u + s * (v * u) <= (e + s) * (w * u)
         /\ s * (v * u) + e * w * u <= (e + s) * (w * u)
<1> DEFINE W == w * u
           V == v * u
<1>1. W \in Nat /\ V \in Nat /\ V <= W /\ e * w * u = e * W
  OBVIOUS
<1> HIDE DEF W, V
<1>2. s * V <= s * W /\ (e + s) * W = e * W + s * W
  BY <1>1
<1>3. e * W \in Nat /\ s * V \in Nat /\ s * W \in Nat
  BY <1>1
<1> DEFINE E == e * W
           S == s * V
           T == s * W
<1> HIDE DEF E, S, T
<1>4. E + S <= E + T /\ S + E <= E + T /\ E + T \in Nat
  BY <1>2, <1>3 DEF E, S, T
<1> QED BY <1>1, <1>2, <1>3, <1>4 DEF E, S, T, W, V

\* One more stage, by what whatIf has so far.
LEMMA OneStageOn ==
  ASSUME NEW m \in Nat, NEW r \in Nat, NEW s \in Nat, NEW w \in Nat, NEW e \in Nat,
         NEW t \in Nat, NEW q \in Nat, q <= Unit
  PROVE  /\ /\ AtMost(m * r, s * w, e * w)
            /\ 2 * (s * q) <= 2 * (t * Unit) + s
            => AtMost(m * (r * q), t * (w * Unit), (e + s) * (w * Unit))
         /\ /\ AtMost(s * w, m * r, e * w)
            /\ 2 * (t * Unit) <= 2 * (s * q) + s
            => AtMost(t * (w * Unit), m * (r * q), (e + s) * (w * Unit))
<1>1. Unit \in Nat
  BY FunnelAssumption
<1>2. /\ m * r \in Nat /\ s * w \in Nat /\ e * w \in Nat /\ s * q \in Nat /\ t * Unit \in Nat
      /\ m * r * q \in Nat /\ s * w * q \in Nat /\ t * Unit * w \in Nat
      /\ s * q * w = s * w * q /\ t * (w * Unit) = t * Unit * w /\ m * (r * q) = m * r * q
  BY <1>1
<1>3. /\ e * w * Unit \in Nat /\ s * (w * Unit) \in Nat /\ (e + s) * (w * Unit) \in Nat
      /\ e * w * Unit + s * (w * Unit) <= (e + s) * (w * Unit)
      /\ s * (w * Unit) + e * w * Unit <= (e + s) * (w * Unit)
  BY <1>1, ErrorsAddUp
<1>4. ASSUME AtMost(m * r, s * w, e * w), 2 * (s * q) <= 2 * (t * Unit) + s
      PROVE  AtMost(m * (r * q), t * (w * Unit), (e + s) * (w * Unit))
  <2>1. AtMost(m * r * q, s * w * q, e * w * Unit)
    BY <1>2, <1>4, AtMostRate
  <2>2. AtMost(s * q * w, t * Unit * w, s * (w * Unit))
    BY <1>2, <1>4, AtMostRounded
  <2> DEFINE x == m * r * q
             y == s * w * q
             z == t * Unit * w
             c == e * w * Unit
             d == s * (w * Unit)
             f == (e + s) * (w * Unit)
  <2>3. /\ x \in Nat /\ y \in Nat /\ z \in Nat /\ c \in Nat /\ d \in Nat /\ f \in Nat
        /\ AtMost(x, y, c) /\ AtMost(y, z, d) /\ c + d <= f
    BY <1>2, <1>3, <2>1, <2>2
  <2> HIDE DEF x, y, z, c, d, f
  <2>4. AtMost(x, z, f)
    BY <2>3, AtMostChain
  <2> QED BY <1>2, <2>4 DEF x, z, f
<1>5. ASSUME AtMost(s * w, m * r, e * w), 2 * (t * Unit) <= 2 * (s * q) + s
      PROVE  AtMost(t * (w * Unit), m * (r * q), (e + s) * (w * Unit))
  <2>1. AtMost(s * w * q, m * r * q, e * w * Unit)
    BY <1>2, <1>5, AtMostRate
  <2>2. AtMost(t * Unit * w, s * q * w, s * (w * Unit))
    BY <1>2, <1>5, AtMostRounded
  <2> DEFINE x == t * Unit * w
             y == s * w * q
             z == m * r * q
             c == s * (w * Unit)
             d == e * w * Unit
             f == (e + s) * (w * Unit)
  <2>3. /\ x \in Nat /\ y \in Nat /\ z \in Nat /\ c \in Nat /\ d \in Nat /\ f \in Nat
        /\ AtMost(x, y, c) /\ AtMost(y, z, d) /\ c + d <= f
    BY <1>2, <1>3, <2>1, <2>2
  <2> HIDE DEF x, y, z, c, d, f
  <2>4. AtMost(x, z, f)
    BY <2>3, AtMostChain
  <2> QED BY <1>2, <2>4 DEF x, z, f
<1> QED BY <1>4, <1>5

\* One more stage back, by what goalSeek has so far.
LEMMA OneStageBack ==
  ASSUME NEW g \in Nat, NEW r \in Nat, NEW s \in Nat, NEW w \in Nat, r <= w, NEW e \in Nat,
         NEW t \in Nat, NEW q \in Nat, q <= Unit
  PROVE  /\ /\ AtMost(s * r, g * w, e * w)
            /\ 2 * (t * q) <= 2 * (s * Unit) + t
            => AtMost(t * (r * q), g * (w * Unit), (e + t) * (w * Unit))
         /\ /\ AtMost(g * w, s * r, e * w)
            /\ 2 * (s * Unit) <= 2 * (t * q) + t
            => AtMost(g * (w * Unit), t * (r * q), (e + t) * (w * Unit))
<1>1. Unit \in Nat
  BY FunnelAssumption
<1>2. /\ g * w \in Nat /\ s * r \in Nat /\ e * w \in Nat /\ t * q \in Nat /\ s * Unit \in Nat
      /\ t * q * r \in Nat /\ s * r * Unit \in Nat /\ g * w * Unit \in Nat
      /\ s * Unit * r = s * r * Unit /\ t * (r * q) = t * q * r /\ g * (w * Unit) = g * w * Unit
  BY <1>1
<1>3. /\ e * w * Unit \in Nat /\ t * (r * Unit) \in Nat /\ (e + t) * (w * Unit) \in Nat
      /\ e * w * Unit + t * (r * Unit) <= (e + t) * (w * Unit)
      /\ t * (r * Unit) + e * w * Unit <= (e + t) * (w * Unit)
  BY <1>1, ErrorsAddUp
<1>4. ASSUME AtMost(s * r, g * w, e * w), 2 * (t * q) <= 2 * (s * Unit) + t
      PROVE  AtMost(t * (r * q), g * (w * Unit), (e + t) * (w * Unit))
  <2>1. AtMost(s * r * Unit, g * w * Unit, e * w * Unit)
    BY <1>1, <1>2, <1>4, AtMostRate
  <2>2. AtMost(t * q * r, s * Unit * r, t * (r * Unit))
    BY <1>2, <1>4, AtMostRounded
  <2> DEFINE x == t * q * r
             y == s * r * Unit
             z == g * w * Unit
             c == t * (r * Unit)
             d == e * w * Unit
             f == (e + t) * (w * Unit)
  <2>3. /\ x \in Nat /\ y \in Nat /\ z \in Nat /\ c \in Nat /\ d \in Nat /\ f \in Nat
        /\ AtMost(x, y, c) /\ AtMost(y, z, d) /\ c + d <= f
    BY <1>2, <1>3, <2>1, <2>2
  <2> HIDE DEF x, y, z, c, d, f
  <2>4. AtMost(x, z, f)
    BY <2>3, AtMostChain
  <2> QED BY <1>2, <2>4 DEF x, z, f
<1>5. ASSUME AtMost(g * w, s * r, e * w), 2 * (s * Unit) <= 2 * (t * q) + t
      PROVE  AtMost(g * (w * Unit), t * (r * q), (e + t) * (w * Unit))
  <2>1. AtMost(g * w * Unit, s * r * Unit, e * w * Unit)
    BY <1>1, <1>2, <1>5, AtMostRate
  <2>2. AtMost(s * Unit * r, t * q * r, t * (r * Unit))
    BY <1>2, <1>5, AtMostRounded
  <2> DEFINE x == g * w * Unit
             y == s * r * Unit
             z == t * q * r
             c == e * w * Unit
             d == t * (r * Unit)
             f == (e + t) * (w * Unit)
  <2>3. /\ x \in Nat /\ y \in Nat /\ z \in Nat /\ c \in Nat /\ d \in Nat /\ f \in Nat
        /\ AtMost(x, y, c) /\ AtMost(y, z, d) /\ c + d <= f
    BY <1>2, <1>3, <2>1, <2>2
  <2> HIDE DEF x, y, z, c, d, f
  <2>4. AtMost(x, z, f)
    BY <2>3, AtMostChain
  <2> QED BY <1>2, <2>4 DEF x, z, f
<1> QED BY <1>4, <1>5

-----------------------------------------------------------------------------
(* LeversStayClose *)

Last == stages[Len(stages)]

WhatIfOK ==
  calc.lever = "whatIf" =>
    /\ calc.asked \in Int /\ calc.from \in 1..Len(stages) /\ calc.at \in 1..Len(stages)
    /\ calc.from < calc.at
    /\ calc.rates \in Nat /\ calc.scale \in Nat \ {0} /\ calc.passed \in Nat
    /\ calc.asked <= 0 =>
         AtMost(stages[calc.from] * calc.rates, stages[calc.at] * calc.scale,
                calc.passed * calc.scale)
    /\ calc.asked >= 0 /\ Narrowing(calc.from, calc.at) =>
         AtMost(stages[calc.at] * calc.scale, stages[calc.from] * calc.rates,
                calc.passed * calc.scale)

GoalSeekOK ==
  calc.lever = "goalSeek" =>
    /\ calc.asked \in Nat /\ calc.at \in 1..Len(stages)
    /\ calc.rates \in Nat \ {0} /\ calc.scale \in Nat /\ calc.passed \in Nat
    /\ calc.rates <= calc.scale
    /\ calc.asked >= Last =>
         AtMost(stages[calc.at] * calc.rates, calc.asked * calc.scale, calc.passed * calc.scale)
    /\ calc.asked <= Last /\ Narrowing(calc.at, Len(stages)) =>
         AtMost(calc.asked * calc.scale, stages[calc.at] * calc.rates, calc.passed * calc.scale)

CalcRecords ==
  [lever : {"none", "whatIf", "goalSeek"}, asked : Int, from : Nat, at : Nat,
   rates : Nat, scale : Nat, passed : Nat]

FunnelInv == FunnelTypeOK /\ calc \in CalcRecords /\ WhatIfOK /\ GoalSeekOK

LEMMA StageIsNatural ==
  ASSUME FunnelTypeOK
  PROVE  Len(stages) \in Nat /\ \A k \in 1..Len(stages) : stages[k] \in Nat
BY DEF FunnelTypeOK

LEMMA WhatIfStarts ==
  ASSUME FunnelInv, NEW i \in 1..(Len(stages) - 1), NEW delta \in Int, WhatIf(i, delta)
  PROVE  FunnelInv'
<1> DEFINE r == Clamped(Rate(i) + delta)
<1>1. /\ FunnelTypeOK /\ Unit \in Nat \ {0} /\ Len(stages) \in Nat
      /\ \A k \in 1..Len(stages) : stages[k] \in Nat
  BY FunnelAssumption, StageIsNatural DEF FunnelInv
<1>2. /\ i \in 1..Len(stages) /\ i + 1 \in 1..Len(stages)
      /\ stages[i] \in Nat /\ stages[i + 1] \in Nat /\ Rate(i) \in Nat /\ Rate(i) <= Unit
      /\ 2 * (stages[i] * Rate(i)) <= 2 * (stages[i + 1] * Unit) + stages[i]
      /\ stages[i] >= stages[i + 1] =>
           2 * (stages[i + 1] * Unit) <= 2 * (stages[i] * Rate(i)) + stages[i]
  BY <1>1, RateIs
<1>3. /\ r \in Nat
      /\ delta <= 0 => r <= Rate(i)
      /\ delta >= 0 => r >= Rate(i)
  <2>1. Rate(i) + delta \in Int
    BY <1>2
  <2> DEFINE x == Rate(i) + delta
  <2>2. r \in Nat /\ r = IF x < 0 THEN 0 ELSE IF x <= Unit THEN x ELSE Unit
    BY <2>1, ClampedIs
  <2> HIDE DEF r
  <2> QED BY <1>1, <1>2, <2>2
<1> HIDE DEF r
<1>4. /\ stages' = stages
      /\ calc' = [lever |-> "whatIf", asked |-> delta, from |-> i, at |-> i + 1,
                  rates |-> r, scale |-> Unit, passed |-> stages[i]]
  BY DEF WhatIf, r
<1>5. PICK a, b, q : a = stages[i] /\ b = stages[i + 1] /\ q = Rate(i)
  OBVIOUS
<1>6. /\ a \in Nat /\ b \in Nat /\ q \in Nat /\ a * r \in Nat /\ a * q \in Nat
      /\ b * Unit \in Nat /\ a * Unit \in Nat
      /\ 2 * (a * q) <= 2 * (b * Unit) + a
      /\ a >= b => 2 * (b * Unit) <= 2 * (a * q) + a
  <2>1. a \in Nat /\ b \in Nat /\ q \in Nat /\ Unit \in Nat
    BY <1>1, <1>2, <1>5
  <2>2. a * r \in Nat /\ a * q \in Nat /\ b * Unit \in Nat /\ a * Unit \in Nat
    BY <1>3, <2>1
  <2>3. /\ 2 * (a * q) <= 2 * (b * Unit) + a
        /\ a >= b => 2 * (b * Unit) <= 2 * (a * q) + a
    BY <1>2, <1>5
  <2> QED BY <2>1, <2>2, <2>3
<1>7. ASSUME delta <= 0 PROVE AtMost(a * r, b * Unit, a * Unit)
  <2>1. AtMost(a * q, b * Unit, a * Unit)
    BY <1>6, OneRate
  <2>2. a * r <= a * q
    BY <1>3, <1>5, <1>6, <1>7
  <2>3. AtMost(a * r, a * q, 0)
    BY <1>6, <2>2, AtMostFlat
  <2>4. 0 + a * Unit <= a * Unit
    BY <1>6
  <2> QED BY <1>6, <2>1, <2>3, <2>4, AtMostChain
<1>8. ASSUME delta >= 0, a >= b PROVE AtMost(b * Unit, a * r, a * Unit)
  <2>1. AtMost(b * Unit, a * q, a * Unit)
    BY <1>6, <1>8, OneRate
  <2>2. a * q <= a * r
    BY <1>3, <1>5, <1>6, <1>8
  <2>3. AtMost(a * q, a * r, 0)
    BY <1>6, <2>2, AtMostFlat
  <2>4. a * Unit + 0 <= a * Unit
    BY <1>6
  <2> QED BY <1>6, <2>1, <2>3, <2>4, AtMostChain
<1>9. Narrowing(i, i + 1) => a >= b
  <2>1. i \in i..(i + 1 - 1)
    BY <1>2
  <2> QED BY <1>5, <2>1 DEF Narrowing
<1>10. calc' \in CalcRecords
  <2>1. delta \in Int /\ i \in Nat /\ i + 1 \in Nat /\ r \in Nat /\ Unit \in Nat /\ stages[i] \in Nat
    BY <1>1, <1>2, <1>3
  <2> QED BY <1>4, <2>1 DEF CalcRecords
<1>11. WhatIfOK'
  <2>1. Narrowing(i, i + 1)' <=> Narrowing(i, i + 1)
    BY <1>4 DEF Narrowing
  <2>2. i < i + 1
    BY <1>2
  <2> QED BY <1>1, <1>2, <1>3, <1>4, <1>5, <1>7, <1>8, <1>9, <2>1, <2>2 DEF WhatIfOK, AtMost
<1>12. GoalSeekOK'
  BY <1>4 DEF GoalSeekOK
<1> QED BY <1>1, <1>4, <1>10, <1>11, <1>12 DEF FunnelInv, FunnelTypeOK

\* The record after one more rate.
LEMMA ThroughIs ==
  ASSUME FunnelInv, NEW j \in 1..(Len(stages) - 1), NEW at \in Nat, Through(j, at)
  PROVE  /\ calc'.lever = calc.lever /\ calc'.asked = calc.asked /\ calc'.from = calc.from
         /\ calc'.at = at /\ calc'.rates = calc.rates * Rate(j) /\ calc'.scale = calc.scale * Unit
         /\ calc'.passed = calc.passed + stages[j] /\ calc' \in CalcRecords
<1>1. calc \in CalcRecords /\ Unit \in Nat /\ Rate(j) \in Nat /\ stages[j] \in Nat
  BY RateIs, FunnelAssumption DEF FunnelInv
<1>2. calc' = [calc EXCEPT !.at = at, !.rates = @ * Rate(j), !.scale = @ * Unit,
                           !.passed = @ + stages[j]]
  BY DEF Through
<1>3. calc.rates * Rate(j) \in Nat /\ calc.scale * Unit \in Nat /\ calc.passed + stages[j] \in Nat
  <2>1. calc.rates \in Nat /\ calc.scale \in Nat /\ calc.passed \in Nat
    BY <1>1 DEF CalcRecords
  <2>2. \A x, y \in Nat : x * y \in Nat /\ x + y \in Nat
    OBVIOUS
  <2> QED BY <1>1, <2>1, <2>2, Zenon
<1> DEFINE r == calc.rates * Rate(j)
           w == calc.scale * Unit
           e == calc.passed + stages[j]
<1>4. calc' = [calc EXCEPT !.at = at, !.rates = r, !.scale = w, !.passed = e]
  BY <1>2
<1> HIDE DEF r, w, e
<1>5. /\ calc'.lever = calc.lever /\ calc'.asked = calc.asked /\ calc'.from = calc.from
      /\ calc'.at = at /\ calc'.rates = r /\ calc'.scale = w /\ calc'.passed = e
      /\ calc' \in CalcRecords
  BY <1>1, <1>3, <1>4 DEF CalcRecords, r, w, e
<1> QED BY <1>5 DEF r, w, e

LEMMA PropagateKeeps ==
  ASSUME FunnelInv, Propagate
  PROVE  FunnelInv'
<1>1. /\ FunnelTypeOK /\ Unit \in Nat \ {0} /\ Len(stages) \in Nat
      /\ \A k \in 1..Len(stages) : stages[k] \in Nat
  BY FunnelAssumption, StageIsNatural DEF FunnelInv
<1>2. PICK j : j = calc.at
  OBVIOUS
<1>3. /\ calc.lever = "whatIf" /\ j < Len(stages) /\ Through(j, j + 1) /\ stages' = stages
      /\ j \in 1..(Len(stages) - 1) /\ j + 1 \in Nat
  BY <1>1, <1>2 DEF Propagate, FunnelInv, WhatIfOK
<1>4. /\ calc'.lever = calc.lever /\ calc'.asked = calc.asked /\ calc'.from = calc.from
      /\ calc'.at = j + 1 /\ calc'.rates = calc.rates * Rate(j) /\ calc'.scale = calc.scale * Unit
      /\ calc'.passed = calc.passed + stages[j] /\ calc' \in CalcRecords
  BY <1>3, ThroughIs
<1>5. /\ j \in 1..Len(stages) /\ j + 1 \in 1..Len(stages)
      /\ stages[j] \in Nat /\ stages[j + 1] \in Nat /\ Rate(j) \in Nat /\ Rate(j) <= Unit
      /\ 2 * (stages[j] * Rate(j)) <= 2 * (stages[j + 1] * Unit) + stages[j]
      /\ stages[j] >= stages[j + 1] =>
           2 * (stages[j + 1] * Unit) <= 2 * (stages[j] * Rate(j)) + stages[j]
  BY <1>1, <1>3, RateIs
<1>6. PICK m, r, s, w, e, t, q, f :
        /\ f = calc.from /\ m = stages[f] /\ r = calc.rates /\ s = stages[j] /\ w = calc.scale
        /\ e = calc.passed /\ t = stages[j + 1] /\ q = Rate(j)
  OBVIOUS
<1>7. /\ calc.asked \in Int /\ f \in 1..Len(stages) /\ f < j
      /\ m \in Nat /\ r \in Nat /\ s \in Nat /\ w \in Nat \ {0} /\ e \in Nat /\ t \in Nat
      /\ q \in Nat /\ q <= Unit
      /\ calc.asked <= 0 => AtMost(m * r, s * w, e * w)
      /\ calc.asked >= 0 /\ Narrowing(f, j) => AtMost(s * w, m * r, e * w)
  BY <1>1, <1>2, <1>3, <1>5, <1>6 DEF FunnelInv, WhatIfOK
<1>8. Narrowing(f, j + 1) => Narrowing(f, j) /\ s >= t
  <2>1. j \in f..(j + 1 - 1) /\ \A k \in f..(j - 1) : k \in f..(j + 1 - 1)
    BY <1>3, <1>7
  <2> QED BY <1>6, <2>1 DEF Narrowing
<1>9. /\ AtMost(m * r, s * w, e * w) /\ 2 * (s * q) <= 2 * (t * Unit) + s
         => AtMost(m * (r * q), t * (w * Unit), (e + s) * (w * Unit))
      /\ AtMost(s * w, m * r, e * w) /\ 2 * (t * Unit) <= 2 * (s * q) + s
         => AtMost(t * (w * Unit), m * (r * q), (e + s) * (w * Unit))
  BY <1>7, OneStageOn
<1>10. /\ calc.asked <= 0 => AtMost(m * (r * q), t * (w * Unit), (e + s) * (w * Unit))
       /\ calc.asked >= 0 /\ Narrowing(f, j + 1) =>
            AtMost(t * (w * Unit), m * (r * q), (e + s) * (w * Unit))
  BY <1>5, <1>6, <1>7, <1>8, <1>9
<1>11. w * Unit \in Nat \ {0} /\ r * q \in Nat /\ e + s \in Nat /\ f < j + 1
  BY <1>1, <1>3, <1>7
<1>12. Narrowing(f, j + 1)' <=> Narrowing(f, j + 1)
  BY <1>3 DEF Narrowing
<1>13. WhatIfOK'
  BY <1>3, <1>4, <1>5, <1>6, <1>7, <1>10, <1>11, <1>12 DEF WhatIfOK, AtMost
<1>14. GoalSeekOK'
  BY <1>3, <1>4 DEF GoalSeekOK
<1> QED BY <1>1, <1>3, <1>4, <1>13, <1>14 DEF FunnelInv, FunnelTypeOK

LEMMA GoalSeekStarts ==
  ASSUME FunnelInv, NEW target \in Nat, GoalSeek(target)
  PROVE  FunnelInv'
<1>1. /\ FunnelTypeOK /\ Len(stages) \in Nat
      /\ \A k \in 1..Len(stages) : stages[k] \in Nat
  BY StageIsNatural DEF FunnelInv
<1>2. PICK n : n = Len(stages)
  OBVIOUS
<1>3. /\ stages' = stages /\ n >= 2
      /\ calc' = [lever |-> "goalSeek", asked |-> target, from |-> n, at |-> n,
                  rates |-> 1, scale |-> 1, passed |-> 0]
  BY <1>2 DEF GoalSeek, NoCalc
<1>4. n \in 1..Len(stages) /\ Last \in Nat
  BY <1>1, <1>2, <1>3 DEF Last
<1>5. /\ target >= Last => AtMost(Last * 1, target * 1, 0 * 1)
      /\ target <= Last => AtMost(target * 1, Last * 1, 0 * 1)
  <2>1. Last * 1 = Last /\ target * 1 = target /\ 0 * 1 = 0
    BY <1>4
  <2> QED BY <1>4, <2>1, AtMostFlat
<1>6. calc' \in CalcRecords
  BY <1>1, <1>2, <1>3 DEF CalcRecords
<1>7. GoalSeekOK'
  <2>1. stages[n] = Last /\ Last' = Last
    BY <1>2, <1>3 DEF Last
  <2> QED BY <1>1, <1>3, <1>4, <1>5, <2>1 DEF GoalSeekOK, AtMost
<1>8. WhatIfOK'
  BY <1>3 DEF WhatIfOK
<1> QED BY <1>1, <1>3, <1>6, <1>7, <1>8 DEF FunnelInv, FunnelTypeOK

LEMMA BackSolveKeeps ==
  ASSUME FunnelInv, BackSolve
  PROVE  FunnelInv'
<1>1. /\ FunnelTypeOK /\ Unit \in Nat \ {0} /\ Len(stages) \in Nat
      /\ \A k \in 1..Len(stages) : stages[k] \in Nat
  BY FunnelAssumption, StageIsNatural DEF FunnelInv
<1>2. PICK j : j = calc.at - 1
  OBVIOUS
<1>3. /\ calc.lever = "goalSeek" /\ calc.at \in 1..Len(stages) /\ calc.at > 1
      /\ Rate(j) > 0 /\ Through(j, j) /\ stages' = stages
  BY <1>2 DEF BackSolve, FunnelInv, GoalSeekOK
<1>4. j \in 1..(Len(stages) - 1) /\ j \in Nat /\ j + 1 = calc.at
  BY <1>1, <1>2, <1>3
<1>5. /\ calc'.lever = calc.lever /\ calc'.asked = calc.asked
      /\ calc'.at = j /\ calc'.rates = calc.rates * Rate(j) /\ calc'.scale = calc.scale * Unit
      /\ calc'.passed = calc.passed + stages[j] /\ calc' \in CalcRecords
  BY <1>3, <1>4, ThroughIs
<1>6. /\ j \in 1..Len(stages) /\ j + 1 \in 1..Len(stages)
      /\ stages[j] \in Nat /\ stages[j + 1] \in Nat /\ Rate(j) \in Nat /\ Rate(j) <= Unit
      /\ 2 * (stages[j] * Rate(j)) <= 2 * (stages[j + 1] * Unit) + stages[j]
      /\ stages[j] >= stages[j + 1] =>
           2 * (stages[j + 1] * Unit) <= 2 * (stages[j] * Rate(j)) + stages[j]
  BY <1>1, <1>4, RateIs
<1>7. PICK g, r, s, w, e, t, q :
        /\ g = calc.asked /\ r = calc.rates /\ s = stages[j + 1] /\ w = calc.scale
        /\ e = calc.passed /\ t = stages[j] /\ q = Rate(j)
  OBVIOUS
<1>8. /\ g \in Nat /\ r \in Nat \ {0} /\ s \in Nat /\ w \in Nat /\ r <= w /\ e \in Nat /\ t \in Nat
      /\ q \in Nat /\ q <= Unit /\ q > 0
      /\ g >= Last => AtMost(s * r, g * w, e * w)
      /\ g <= Last /\ Narrowing(j + 1, Len(stages)) => AtMost(g * w, s * r, e * w)
  BY <1>1, <1>3, <1>4, <1>6, <1>7 DEF FunnelInv, GoalSeekOK
<1>9. Narrowing(j, Len(stages)) => Narrowing(j + 1, Len(stages)) /\ t >= s
  <2>1. j \in j..(Len(stages) - 1) /\ \A k \in (j + 1)..(Len(stages) - 1) : k \in j..(Len(stages) - 1)
    BY <1>1, <1>4
  <2> QED BY <1>7, <2>1 DEF Narrowing
<1>10. /\ AtMost(s * r, g * w, e * w) /\ 2 * (t * q) <= 2 * (s * Unit) + t
          => AtMost(t * (r * q), g * (w * Unit), (e + t) * (w * Unit))
       /\ AtMost(g * w, s * r, e * w) /\ 2 * (s * Unit) <= 2 * (t * q) + t
          => AtMost(g * (w * Unit), t * (r * q), (e + t) * (w * Unit))
  BY <1>8, OneStageBack
<1>11. /\ g >= Last => AtMost(t * (r * q), g * (w * Unit), (e + t) * (w * Unit))
       /\ g <= Last /\ Narrowing(j, Len(stages)) =>
            AtMost(g * (w * Unit), t * (r * q), (e + t) * (w * Unit))
  BY <1>6, <1>7, <1>8, <1>9, <1>10
<1>12. w * Unit \in Nat /\ r * q \in Nat \ {0} /\ r * q <= w * Unit /\ e + t \in Nat
  BY <1>1, <1>8
<1>13. (Narrowing(j, Len(stages))' <=> Narrowing(j, Len(stages))) /\ Last' = Last
  BY <1>3 DEF Narrowing, Last
<1>14. GoalSeekOK'
  BY <1>3, <1>5, <1>6, <1>7, <1>8, <1>11, <1>12, <1>13 DEF GoalSeekOK, AtMost
<1>15. WhatIfOK'
  BY <1>3, <1>5 DEF WhatIfOK
<1> QED BY <1>1, <1>3, <1>5, <1>14, <1>15 DEF FunnelInv, FunnelTypeOK

LEMMA NoCalcIs ==
  ASSUME FunnelTypeOK, calc = NoCalc
  PROVE  FunnelInv
<1>1. calc = [lever |-> "none", asked |-> 0, from |-> 0, at |-> 0,
              rates |-> 1, scale |-> 1, passed |-> 0]
  BY DEF NoCalc
<1>2. calc \in CalcRecords
  BY <1>1 DEF CalcRecords
<1>3. WhatIfOK /\ GoalSeekOK
  BY <1>1 DEF WhatIfOK, GoalSeekOK
<1> QED BY <1>2, <1>3 DEF FunnelInv

LEMMA FunnelStep == FunnelInv /\ [FunnelNext]_funnelVars => FunnelInv'
<1> SUFFICES ASSUME FunnelInv, [FunnelNext]_funnelVars PROVE FunnelInv'
  OBVIOUS
<1>1. CASE StagesSaved
  <2>1. PICK n \in 1..MaxStages : stages' \in [1..n -> StageCounts]
    BY <1>1 DEF StagesSaved
  <2>2. stages' \in [1..n -> Nat] /\ n \in Nat
    <3>1. MaxStages \in Nat /\ \A x \in StageCounts : x \in Nat
      BY FunnelAssumption
    <3> QED BY <2>1, <3>1
  <2>3. FunnelTypeOK'
    BY <2>2 DEF FunnelTypeOK
  <2>4. calc' = NoCalc
    BY <1>1 DEF StagesSaved
  <2> QED BY <2>3, <2>4, NoCalcIs DEF NoCalc, FunnelInv, CalcRecords, WhatIfOK, GoalSeekOK
<1>2. ASSUME NEW i \in 1..(Len(stages) - 1), NEW delta \in Deltas, WhatIf(i, delta) PROVE FunnelInv'
  BY <1>2, WhatIfStarts, FunnelAssumption
<1>3. ASSUME NEW target \in Targets, GoalSeek(target) PROVE FunnelInv'
  BY <1>3, GoalSeekStarts, FunnelAssumption
<1>4. CASE CalcEnds
  <2>1. stages' = stages /\ calc' = NoCalc
    BY <1>4 DEF CalcEnds
  <2> QED BY <2>1 DEF NoCalc, FunnelInv, FunnelTypeOK, CalcRecords, WhatIfOK, GoalSeekOK
<1>5. CASE UNCHANGED funnelVars
  <2>1. stages' = stages /\ calc' = calc
    BY <1>5 DEF funnelVars
  <2> QED BY <2>1 DEF FunnelInv, FunnelTypeOK, WhatIfOK, GoalSeekOK, Narrowing, Last, AtMost
<1> QED BY <1>1, <1>2, <1>3, <1>4, <1>5, PropagateKeeps, BackSolveKeeps DEF FunnelNext

\* What is shown is off by half a cent more.
LEMMA ShownIsClose ==
  ASSUME NEW m \in Nat, NEW r \in Nat, NEW s \in Nat, NEW w \in Nat \ {0}, NEW e \in Nat
  PROVE  LET shown == RoundDiv(Cents * m * r, w)
         IN /\ shown \in Nat
            /\ AtMost(m * r, s * w, e * w) =>
                 2 * Unit * (shown - Cents * s) <= Cents * e + Unit
            /\ AtMost(s * w, m * r, e * w) =>
                 -(2 * Unit * (shown - Cents * s)) <= Cents * e + Unit
<1> DEFINE c == Cents * m * r
           shown == RoundDiv(c, w)
<1>1. Unit \in Nat \ {0} /\ Cents \in Nat \ {0}
  BY FunnelAssumption
<1>2. c \in Nat
  BY <1>1
<1> HIDE DEF c
<1>3. shown \in Nat /\ 2 * c < 2 * (w * shown) + w /\ 2 * (w * shown) <= 2 * c + w
  BY <1>2, RoundDivIsNearest
<1> HIDE DEF shown
<1> DEFINE p == Unit * (m * r)
           h == Unit * (s * w)
           C == Cents * p
           H == Cents * h
           E == Cents * (e * w)
           S == Unit * (w * shown)
           W == Unit * w
<1>4. /\ p \in Nat /\ h \in Nat /\ e * w \in Nat /\ C \in Nat /\ H \in Nat /\ E \in Nat
      /\ S \in Nat /\ W \in Nat
  BY <1>1, <1>3
<1>5. C = Unit * c
  <2>1. c = Cents * (m * r)
    BY <1>1 DEF c
  <2> DEFINE n == m * r
  <2>2. n \in Nat
    OBVIOUS
  <2> HIDE DEF n
  <2>3. Cents * (Unit * n) = Unit * (Cents * n)
    BY <1>1, <2>2
  <2> QED BY <2>1, <2>3 DEF n
<1>6. 2 * C <= 2 * S + W /\ 2 * S <= 2 * C + W
  <2>1. Unit * (2 * c) <= Unit * (2 * (w * shown) + w)
    BY <1>1, <1>2, <1>3
  <2>2. Unit * (2 * (w * shown)) <= Unit * (2 * c + w)
    BY <1>1, <1>2, <1>3
  <2>3. Unit * (2 * c) = 2 * (Unit * c) /\ Unit * (2 * c + w) = 2 * (Unit * c) + W
    BY <1>1, <1>2
  <2>4. Unit * (2 * (w * shown)) = 2 * S /\ Unit * (2 * (w * shown) + w) = 2 * S + W
    BY <1>1, <1>3
  <2> QED BY <1>5, <2>1, <2>2, <2>3, <2>4
<1>7. 2 * Unit * (shown - Cents * s) * w = 2 * S - 2 * H
      /\ (Cents * e + Unit) * w = E + W
  <2>1. S = Unit * shown * w /\ H = Unit * (Cents * s) * w
    BY <1>1, <1>3
  <2>2. 2 * Unit * (shown - Cents * s) * w = 2 * (Unit * shown * w) - 2 * (Unit * (Cents * s) * w)
    BY <1>1, <1>3
  <2> QED BY <1>1, <2>1, <2>2
<1> DEFINE gain == 2 * Unit * (shown - Cents * s)
           slack == Cents * e + Unit
<1>8. gain \in Int /\ slack \in Nat
  BY <1>1, <1>3
<1>9. ASSUME AtMost(m * r, s * w, e * w) PROVE gain <= slack
  <2>1. 2 * p <= 2 * h + e * w
    BY <1>9 DEF AtMost
  <2>2. Cents * (2 * p) <= Cents * (2 * h + e * w)
    BY <1>1, <1>4, <2>1
  <2>3. Cents * (2 * p) = 2 * C /\ Cents * (2 * h + e * w) = 2 * H + E
    BY <1>1, <1>4
  <2> HIDE DEF p, h, C, H, E, S, W
  <2>4. 2 * S - 2 * H <= E + W
    BY <1>4, <1>6, <2>2, <2>3
  <2>5. gain * w <= slack * w
    BY <1>7, <2>4
  <2> HIDE DEF gain, slack
  <2> QED BY <1>8, <2>5
<1>10. ASSUME AtMost(s * w, m * r, e * w) PROVE -gain <= slack
  <2>1. 2 * h <= 2 * p + e * w
    BY <1>10 DEF AtMost
  <2>2. Cents * (2 * h) <= Cents * (2 * p + e * w)
    BY <1>1, <1>4, <2>1
  <2>3. Cents * (2 * h) = 2 * H /\ Cents * (2 * p + e * w) = 2 * C + E
    BY <1>1, <1>4
  <2> HIDE DEF p, h, C, H, E, S, W
  <2>4. -(2 * S - 2 * H) <= E + W
    BY <1>4, <1>6, <2>2, <2>3
  <2>5. -(gain * w) <= slack * w
    BY <1>7, <2>4
  <2> HIDE DEF gain, slack
  <2>6. (-gain) * w = -(gain * w)
    BY <1>8
  <2>7. (-gain) * w <= slack * w
    BY <2>5, <2>6
  <2> QED BY <1>8, <2>7
<1> QED BY <1>3, <1>9, <1>10 DEF shown, c

LEMMA GoalIsClose ==
  ASSUME NEW g \in Nat, NEW r \in Nat \ {0}, NEW s \in Nat, NEW w \in Nat, NEW e \in Nat
  PROVE  LET shown == RoundDiv(g * w, r)
         IN /\ shown \in Nat
            /\ AtMost(g * w, s * r, e * w) => 2 * Unit * r * (shown - s) <= e * w + Unit * r
            /\ AtMost(s * r, g * w, e * w) => -(2 * Unit * r * (shown - s)) <= e * w + Unit * r
<1> DEFINE c == g * w
           shown == RoundDiv(c, r)
<1>1. Unit \in Nat \ {0} /\ c \in Nat
  BY FunnelAssumption
<1> HIDE DEF c
<1>2. shown \in Nat /\ 2 * c < 2 * (r * shown) + r /\ 2 * (r * shown) <= 2 * c + r
  BY <1>1, RoundDivIsNearest
<1> HIDE DEF shown
<1> DEFINE C == Unit * c
           H == Unit * (s * r)
           E == e * w
           S == Unit * (r * shown)
           R == Unit * r
<1>3. C \in Nat /\ H \in Nat /\ E \in Nat /\ S \in Nat /\ R \in Nat
  BY <1>1, <1>2
<1>4. 2 * C <= 2 * S + R /\ 2 * S <= 2 * C + R
  <2>1. Unit * (2 * c) <= Unit * (2 * (r * shown) + r)
    BY <1>1, <1>2
  <2>2. Unit * (2 * (r * shown)) <= Unit * (2 * c + r)
    BY <1>1, <1>2
  <2>3. Unit * (2 * c) = 2 * C /\ Unit * (2 * c + r) = 2 * C + R
    BY <1>1
  <2>4. Unit * (2 * (r * shown)) = 2 * S /\ Unit * (2 * (r * shown) + r) = 2 * S + R
    BY <1>1, <1>2
  <2> QED BY <2>1, <2>2, <2>3, <2>4
<1>5. 2 * Unit * r * (shown - s) = 2 * S - 2 * H
  BY <1>1, <1>2
<1>6. ASSUME AtMost(g * w, s * r, e * w) PROVE 2 * Unit * r * (shown - s) <= e * w + Unit * r
  <2>1. 2 * C <= 2 * H + E
    BY <1>6 DEF AtMost, c
  <2> HIDE DEF C, H, E, S, R
  <2>2. 2 * S - 2 * H <= E + R
    BY <1>3, <1>4, <2>1
  <2> QED BY <1>5, <2>2 DEF E, R
<1>7. ASSUME AtMost(s * r, g * w, e * w) PROVE -(2 * Unit * r * (shown - s)) <= e * w + Unit * r
  <2>1. 2 * H <= 2 * C + E
    BY <1>7 DEF AtMost, c
  <2> HIDE DEF C, H, E, S, R
  <2>2. -(2 * S - 2 * H) <= E + R
    BY <1>3, <1>4, <2>1
  <2> QED BY <1>5, <2>2 DEF E, R
<1> QED BY <1>2, <1>6, <1>7 DEF shown, c

LEMMA CloseIfOK == FunnelInv => LeversStayClose
<1> SUFFICES ASSUME FunnelInv PROVE LeversStayClose
  OBVIOUS
<1>1. Len(stages) \in Nat /\ \A k \in 1..Len(stages) : stages[k] \in Nat
  BY StageIsNatural DEF FunnelInv
<1> DEFINE s == stages[calc.at]
           r == calc.rates
           w == calc.scale
           e == calc.passed
<1>2. ASSUME calc.lever = "whatIf"
      PROVE  LET gain == 2 * Unit * (Shown - Cents * s)
                 slack == Cents * e + Unit
             IN /\ calc.asked >= 0 /\ Narrowing(calc.from, calc.at) => -gain <= slack
                /\ calc.asked <= 0 => gain <= slack
  <2> DEFINE m == stages[calc.from]
  <2>1. /\ m \in Nat /\ s \in Nat /\ r \in Nat /\ w \in Nat \ {0} /\ e \in Nat
        /\ calc.asked <= 0 => AtMost(m * r, s * w, e * w)
        /\ calc.asked >= 0 /\ Narrowing(calc.from, calc.at) => AtMost(s * w, m * r, e * w)
    BY <1>1, <1>2 DEF FunnelInv, WhatIfOK
  <2>2. Shown = RoundDiv(Cents * m * r, w)
    BY <1>2 DEF Shown
  <2> HIDE DEF m, s, r, w, e
  <2>3. /\ AtMost(m * r, s * w, e * w) => 2 * Unit * (Shown - Cents * s) <= Cents * e + Unit
        /\ AtMost(s * w, m * r, e * w) => -(2 * Unit * (Shown - Cents * s)) <= Cents * e + Unit
    BY <2>1, <2>2, ShownIsClose
  <2> QED BY <2>1, <2>3
<1>3. ASSUME calc.lever = "goalSeek"
      PROVE  LET gain == 2 * Unit * r * (Shown - s)
                 slack == e * w + Unit * r
             IN /\ calc.asked >= Last => -gain <= slack
                /\ calc.asked <= Last /\ Narrowing(calc.at, Len(stages)) => gain <= slack
  <2> DEFINE g == calc.asked
  <2>1. /\ g \in Nat /\ s \in Nat /\ r \in Nat \ {0} /\ w \in Nat /\ e \in Nat
        /\ g >= Last => AtMost(s * r, g * w, e * w)
        /\ g <= Last /\ Narrowing(calc.at, Len(stages)) => AtMost(g * w, s * r, e * w)
    BY <1>1, <1>3 DEF FunnelInv, GoalSeekOK
  <2>2. Shown = RoundDiv(g * w, r)
    BY <1>3 DEF Shown
  <2> HIDE DEF g, s, r, w, e
  <2>3. /\ AtMost(g * w, s * r, e * w) => 2 * Unit * r * (Shown - s) <= e * w + Unit * r
        /\ AtMost(s * r, g * w, e * w) => -(2 * Unit * r * (Shown - s)) <= e * w + Unit * r
    BY <2>1, <2>2, GoalIsClose
  <2> QED BY <2>1, <2>3 DEF g
<1> QED BY <1>2, <1>3 DEF LeversStayClose, Last

\* For any number of stages, counts, decimals of the rates and of what is shown:
\* the errors of the rounded rates add up, and never to more than half a 1/Unit of
\* each count a what-if or a goal went through (roundRate, whatIf, goalSeek).
THEOREM LeversHoldTheCounts == FunnelSpec => []LeversStayClose
<1>1. FunnelInit => FunnelInv
  <2> SUFFICES ASSUME FunnelInit PROVE FunnelInv
    OBVIOUS
  <2>1. stages = <<0, 0, 0, 0>> /\ calc = NoCalc
    BY DEF FunnelInit
  <2>2. FunnelTypeOK
    BY <2>1 DEF FunnelTypeOK
  <2> QED BY <2>1, <2>2, NoCalcIs
<1> QED BY <1>1, FunnelStep, CloseIfOK, PTL DEF FunnelSpec

-----------------------------------------------------------------------------
(* Sums over finite sets *)

\* Induction over the subsets of a finite set, for a set of good subsets.
LEMMA GoodSubsets ==
  ASSUME NEW S, IsFiniteSet(S), NEW Good,
         \A T \in SUBSET S : (\A x \in T : T \ {x} \in Good) => T \in Good
  PROVE  S \in Good
<1> DEFINE Bad == {T \in SUBSET S : T \notin Good}
<1>1. SUFFICES ASSUME S \notin Good PROVE FALSE
  OBVIOUS
<1>2. Bad \subseteq FiniteSubsetsOf(S) /\ Bad # {}
  BY <1>1, FS_FiniteSubsetsOfFinite
<1>3. PICK T \in Bad : \A U \in Bad : ~(<<U, T>> \in StrictSubsetOrdering(S))
  BY <1>2, WFMin, FS_StrictSubsetOrderingWellFounded
<1>4. \A x \in T : T \ {x} \in Good
  <2> TAKE x \in T
  <2>1. T \ {x} \in SUBSET S /\ T \in SUBSET S /\ T \ {x} \subseteq T /\ T \ {x} # T
    OBVIOUS
  <2>2. <<T \ {x}, T>> \in StrictSubsetOrdering(S)
    BY <2>1 DEF StrictSubsetOrdering
  <2> QED BY <1>3, <2>1, <2>2
<1> QED BY <1>4

Pick(s) == CHOOSE x \in s : TRUE

\* g adds up the values of f over every subset of S, as the fold does.
AddsUp(g, f, S) ==
  g = [s \in SUBSET S |-> IF s = {} THEN 0 ELSE f[Pick(s)] + g[s \ {Pick(s)}]]
Fold(f, S) == CHOOSE g : AddsUp(g, f, S)
Sum(f, S) == SumFunctionOnSet(f, S)

LEMMA SumIsFold ==
  ASSUME NEW f, NEW S
  PROVE  Sum(f, S) = Fold(f, S)[S]
BY DEF Sum, SumFunctionOnSet, FoldFunctionOnSet, MapThenFoldSet, Fold, AddsUp, Pick

LEMMA PickIsMember ==
  ASSUME NEW s, s # {}
  PROVE  Pick(s) \in s
BY DEF Pick

LEMMA AddsUpAt ==
  ASSUME NEW f, NEW S, NEW g, AddsUp(g, f, S), NEW s \in SUBSET S
  PROVE  g[s] = IF s = {} THEN 0 ELSE f[Pick(s)] + g[s \ {Pick(s)}]
<1> DEFINE h == [t \in SUBSET S |-> IF t = {} THEN 0 ELSE f[Pick(t)] + g[t \ {Pick(t)}]]
<1>1. g = h
  BY DEF AddsUp
<1>2. h[s] = IF s = {} THEN 0 ELSE f[Pick(s)] + g[s \ {Pick(s)}]
  OBVIOUS
<1> HIDE DEF h
<1> QED BY <1>1, <1>2

LEMMA AddsUpAgree ==
  ASSUME NEW f, NEW S, NEW g, AddsUp(g, f, S), NEW U, NEW h, AddsUp(h, f, U),
         NEW s, s \subseteq S, s \subseteq U, IsFiniteSet(s)
  PROVE  g[s] = h[s]
<1> DEFINE Good == {t \in SUBSET s : g[t] = h[t]}
<1>1. ASSUME NEW t \in SUBSET s, \A x \in t : t \ {x} \in Good
      PROVE  t \in Good
  <2>1. g[t] = IF t = {} THEN 0 ELSE f[Pick(t)] + g[t \ {Pick(t)}]
    <3>1. AddsUp(g, f, S) /\ t \in SUBSET S
      OBVIOUS
    <3> QED BY ONLY <3>1, AddsUpAt
  <2>4. h[t] = IF t = {} THEN 0 ELSE f[Pick(t)] + h[t \ {Pick(t)}]
    <3>1. AddsUp(h, f, U) /\ t \in SUBSET U
      OBVIOUS
    <3> QED BY ONLY <3>1, AddsUpAt
  <2>2. CASE t = {}
    BY <2>1, <2>2, <2>4
  <2>3. CASE t # {}
    <3>1. g[t \ {Pick(t)}] = h[t \ {Pick(t)}]
      BY <1>1, <2>3, PickIsMember
    <3> QED BY <2>1, <2>3, <2>4, <3>1
  <2> QED BY <2>2, <2>3
<1> HIDE DEF Good
<1>2. s \in Good
  BY <1>1, GoodSubsets
<1> QED BY <1>2 DEF Good

\* The fold's function exists on every finite set.
LEMMA FoldAddsUp ==
  ASSUME NEW f, NEW S, IsFiniteSet(S)
  PROVE  AddsUp(Fold(f, S), f, S)
<1> DEFINE Good == {T \in SUBSET S : \E g : AddsUp(g, f, T)}
<1>1. ASSUME NEW T \in SUBSET S, \A x \in T : T \ {x} \in Good
      PROVE  T \in Good
  <2> DEFINE Value(t) == Fold(f, t)[t]
             After(t) == IF t = {} THEN 0 ELSE f[Pick(t)] + Value(t \ {Pick(t)})
             g == [t \in SUBSET T |-> After(t)]
  <2>1. ASSUME NEW t \in SUBSET T, t # T
        PROVE  AddsUp(Fold(f, t), f, t)
    <3>1. PICK x \in T : x \notin t
      BY <2>1
    <3>2. PICK h : AddsUp(h, f, T \ {x})
      BY <1>1
    <3> DEFINE k == [u \in SUBSET t |-> h[u]]
    <3>3. AddsUp(k, f, t)
      <4>1. \A u \in SUBSET t : k[u] = IF u = {} THEN 0 ELSE f[Pick(u)] + k[u \ {Pick(u)}]
        <5> TAKE u \in SUBSET t
        <5>1. u \in SUBSET (T \ {x}) /\ u \ {Pick(u)} \in SUBSET t
          BY <3>1
        <5>2. h[u] = IF u = {} THEN 0 ELSE f[Pick(u)] + h[u \ {Pick(u)}]
          BY <3>2, <5>1, AddsUpAt
        <5> QED BY <5>1, <5>2
      <4> QED BY <4>1 DEF AddsUp
    <3> HIDE DEF k
    <3> QED BY <3>3 DEF Fold
  <2>2. \A t \in SUBSET T : t # T => Value(t) = g[t]
    <3> TAKE t \in SUBSET T
    <3> HAVE t # T
    <3>1. AddsUp(Fold(f, t), f, t)
      BY <2>1
    <3>2. Value(t) = IF t = {} THEN 0 ELSE f[Pick(t)] + Fold(f, t)[t \ {Pick(t)}]
      BY <3>1, AddsUpAt, t \in SUBSET t
    <3>3. CASE t = {}
      BY <3>2, <3>3
    <3>4. CASE t # {}
      <4> DEFINE u == t \ {Pick(t)}
      <4>1. u \in SUBSET T /\ u # T /\ u \subseteq t
        OBVIOUS
      <4>2. IsFiniteSet(u)
        BY <4>1, FS_Subset
      <4>3. AddsUp(Fold(f, u), f, u)
        BY <2>1, <4>1
      <4> HIDE DEF u
      <4>4. Fold(f, t)[u] = Fold(f, u)[u]
        BY <3>1, <4>1, <4>2, <4>3, AddsUpAgree
      <4> QED BY <3>2, <3>4, <4>4 DEF u
    <3> QED BY <3>3, <3>4
  <2>3. \A t \in SUBSET T : g[t] = IF t = {} THEN 0 ELSE f[Pick(t)] + g[t \ {Pick(t)}]
    <3> TAKE t \in SUBSET T
    <3>1. g[t] = After(t)
      OBVIOUS
    <3>2. CASE t = {}
      BY <3>1, <3>2
    <3>3. CASE t # {}
      <4>1. t \ {Pick(t)} \in SUBSET T /\ t \ {Pick(t)} # T
        BY <3>3, PickIsMember
      <4>2. Value(t \ {Pick(t)}) = g[t \ {Pick(t)}]
        BY <2>2, <4>1
      <4> HIDE DEF g, Value
      <4> QED BY <3>1, <3>3, <4>2
    <3> QED BY <3>2, <3>3
  <2>4. AddsUp(g, f, T)
    <3>1. g = [t \in SUBSET T |-> g[t]]
      OBVIOUS
    <3> HIDE DEF g
    <3> QED BY <2>3, <3>1 DEF AddsUp
  <2> HIDE DEF g
  <2> QED BY <2>4
<1> HIDE DEF Good
<1>2. S \in Good
  BY <1>1, GoodSubsets
<1>3. \E g : AddsUp(g, f, S)
  BY <1>2 DEF Good
<1> QED BY <1>3 DEF Fold

LEMMA SumUnfolds ==
  ASSUME NEW f, NEW S, IsFiniteSet(S)
  PROVE  Sum(f, S) = IF S = {} THEN 0 ELSE f[Pick(S)] + Sum(f, S \ {Pick(S)})
<1> DEFINE U == S \ {Pick(S)}
<1>1. IsFiniteSet(U) /\ U \subseteq S
  BY FS_Subset
<1> HIDE DEF U
<1>2. AddsUp(Fold(f, S), f, S) /\ AddsUp(Fold(f, U), f, U)
  BY <1>1, FoldAddsUp
<1>3. Fold(f, S)[S] = IF S = {} THEN 0 ELSE f[Pick(S)] + Fold(f, S)[S \ {Pick(S)}]
  BY <1>2, AddsUpAt, S \in SUBSET S
<1>4. Fold(f, S)[U] = Fold(f, U)[U]
  BY <1>1, <1>2, AddsUpAgree
<1> QED BY <1>3, <1>4, SumIsFold DEF U

LEMMA SumNatural ==
  ASSUME NEW f, NEW S, IsFiniteSet(S), \A x \in S : f[x] \in Nat
  PROVE  Sum(f, S) \in Nat
<1> DEFINE Good == {T \in SUBSET S : Sum(f, T) \in Nat}
<1>1. ASSUME NEW T \in SUBSET S, \A x \in T : T \ {x} \in Good
      PROVE  T \in Good
  <2>1. Sum(f, T) = IF T = {} THEN 0 ELSE f[Pick(T)] + Sum(f, T \ {Pick(T)})
    BY SumUnfolds, FS_Subset
  <2>2. CASE T = {}
    BY <2>1, <2>2
  <2>3. CASE T # {}
    <3>1. Pick(T) \in T
      BY <2>3, PickIsMember
    <3>2. Sum(f, T \ {Pick(T)}) \in Nat /\ f[Pick(T)] \in Nat
      BY <1>1, <3>1
    <3> QED BY <2>1, <2>3, <3>2
  <2> QED BY <2>2, <2>3
<1> HIDE DEF Good
<1>2. S \in Good
  BY <1>1, GoodSubsets
<1> QED BY <1>2 DEF Good

\* The order in which the fold picks does not matter.
LEMMA SumTakesOut ==
  ASSUME NEW f, NEW S, IsFiniteSet(S), \A x \in S : f[x] \in Nat
  PROVE  \A x \in S : Sum(f, S) = f[x] + Sum(f, S \ {x})
<1> DEFINE Good == {T \in SUBSET S : \A x \in T : Sum(f, T) = f[x] + Sum(f, T \ {x})}
<1>1. ASSUME NEW T \in SUBSET S, \A x \in T : T \ {x} \in Good
      PROVE  T \in Good
  <2>1. SUFFICES ASSUME NEW x \in T
                 PROVE  Sum(f, T) = f[x] + Sum(f, T \ {x})
    OBVIOUS
  <2> DEFINE p == Pick(T)
  <2>2. p \in T /\ IsFiniteSet(T)
    BY PickIsMember, FS_Subset
  <2>3. Sum(f, T) = f[p] + Sum(f, T \ {p})
    BY <2>2, SumUnfolds
  <2> HIDE DEF p
  <2>4. CASE x = p
    BY <2>3, <2>4
  <2>5. CASE x # p
    <3>1. Sum(f, T \ {p}) = f[x] + Sum(f, (T \ {p}) \ {x})
      BY <1>1, <2>2, <2>5
    <3>2. Sum(f, T \ {x}) = f[p] + Sum(f, (T \ {x}) \ {p})
      BY <1>1, <2>2, <2>5
    <3>3. (T \ {p}) \ {x} = (T \ {x}) \ {p}
      OBVIOUS
    <3>4. Sum(f, (T \ {x}) \ {p}) \in Nat
      <4>1. (T \ {x}) \ {p} \subseteq S
        OBVIOUS
      <4>2. IsFiniteSet((T \ {x}) \ {p})
        BY <4>1, FS_Subset
      <4> QED BY <4>1, <4>2, SumNatural
    <3>5. f[x] \in Nat /\ f[p] \in Nat
      BY <2>2
    <3> QED BY <2>3, <3>1, <3>2, <3>3, <3>4, <3>5
  <2> QED BY <2>4, <2>5
<1> HIDE DEF Good
<1>2. S \in Good
  BY <1>1, GoodSubsets
<1> QED BY <1>2 DEF Good

LEMMA SumEmpty ==
  ASSUME NEW f
  PROVE  Sum(f, {}) = 0
BY SumUnfolds, FS_EmptySet

\* Functions that agree on a set have the same sum.
LEMMA SumSame ==
  ASSUME NEW S, IsFiniteSet(S), NEW f, NEW g, \A x \in S : f[x] \in Nat /\ g[x] = f[x]
  PROVE  Sum(g, S) = Sum(f, S)
<1> DEFINE Good == {T \in SUBSET S : Sum(g, T) = Sum(f, T)}
<1>1. ASSUME NEW T \in SUBSET S, \A x \in T : T \ {x} \in Good
      PROVE  T \in Good
  <2>1. IsFiniteSet(T)
    BY FS_Subset
  <2>2. /\ Sum(f, T) = IF T = {} THEN 0 ELSE f[Pick(T)] + Sum(f, T \ {Pick(T)})
        /\ Sum(g, T) = IF T = {} THEN 0 ELSE g[Pick(T)] + Sum(g, T \ {Pick(T)})
    BY <2>1, SumUnfolds
  <2>3. T # {} => Pick(T) \in T
    BY PickIsMember
  <2> QED BY <1>1, <2>2, <2>3
<1> HIDE DEF Good
<1>2. S \in Good
  BY <1>1, GoodSubsets
<1> QED BY <1>2 DEF Good

LEMMA SumUnion ==
  ASSUME NEW f, NEW A, NEW B, IsFiniteSet(A), IsFiniteSet(B), A \cap B = {},
         \A x \in A \cup B : f[x] \in Nat
  PROVE  Sum(f, A \cup B) = Sum(f, A) + Sum(f, B)
<1> DEFINE Good == {T \in SUBSET B : Sum(f, A \cup T) = Sum(f, A) + Sum(f, T)}
<1>1. ASSUME NEW T \in SUBSET B, \A x \in T : T \ {x} \in Good
      PROVE  T \in Good
  <2>1. IsFiniteSet(T) /\ IsFiniteSet(A \cup T)
    BY FS_Subset, FS_Union
  <2>2. Sum(f, A) \in Nat
    BY SumNatural
  <2>3. CASE T = {}
    <3>1. A \cup T = A /\ Sum(f, T) = 0
      BY <2>3, SumEmpty
    <3> QED BY <2>2, <3>1
  <2>4. CASE T # {}
    <3>1. PICK x \in T : TRUE
      BY <2>4
    <3>2. (A \cup T) \ {x} = A \cup (T \ {x})
      BY <3>1
    <3>3. Sum(f, A \cup T) = f[x] + Sum(f, A \cup (T \ {x}))
      BY <2>1, <3>1, <3>2, SumTakesOut
    <3>4. Sum(f, T) = f[x] + Sum(f, T \ {x})
      BY <2>1, <3>1, SumTakesOut
    <3>5. Sum(f, A \cup (T \ {x})) = Sum(f, A) + Sum(f, T \ {x})
      BY <1>1, <3>1
    <3>6. Sum(f, T \ {x}) \in Nat /\ f[x] \in Nat
      <4>1. IsFiniteSet(T \ {x})
        BY <2>1, FS_Subset
      <4> QED BY <4>1, SumNatural, <3>1
    <3> QED BY <2>2, <3>3, <3>4, <3>5, <3>6
  <2> QED BY <2>3, <2>4
<1> HIDE DEF Good
<1>2. B \in Good
  BY <1>1, GoodSubsets
<1> QED BY <1>2 DEF Good

LEMMA SumAtMost ==
  ASSUME NEW S, IsFiniteSet(S), NEW f, NEW g,
         \A x \in S : f[x] \in Nat /\ g[x] \in Nat /\ f[x] <= g[x]
  PROVE  Sum(f, S) <= Sum(g, S)
<1> DEFINE Good == {T \in SUBSET S : Sum(f, T) <= Sum(g, T)}
<1>1. ASSUME NEW T \in SUBSET S, \A x \in T : T \ {x} \in Good
      PROVE  T \in Good
  <2>1. IsFiniteSet(T) /\ \A x \in T : IsFiniteSet(T \ {x})
    BY FS_Subset
  <2>2. Sum(f, T) = IF T = {} THEN 0 ELSE f[Pick(T)] + Sum(f, T \ {Pick(T)})
    BY <2>1, SumUnfolds
  <2>3. Sum(g, T) = IF T = {} THEN 0 ELSE g[Pick(T)] + Sum(g, T \ {Pick(T)})
    BY <2>1, SumUnfolds
  <2>4. CASE T = {}
    BY <2>2, <2>3, <2>4
  <2>5. CASE T # {}
    <3>1. Pick(T) \in T
      BY <2>5, PickIsMember
    <3>2. Sum(f, T \ {Pick(T)}) \in Nat
      BY <2>1, <3>1, SumNatural
    <3>3. Sum(g, T \ {Pick(T)}) \in Nat
      BY <2>1, <3>1, SumNatural
    <3>4. Sum(f, T \ {Pick(T)}) <= Sum(g, T \ {Pick(T)})
      BY <1>1, <3>1
    <3>5. f[Pick(T)] \in Nat /\ g[Pick(T)] \in Nat /\ f[Pick(T)] <= g[Pick(T)]
      BY <3>1
    <3> QED BY <2>2, <2>3, <2>5, <3>2, <3>3, <3>4, <3>5
  <2> QED BY <2>4, <2>5
<1> HIDE DEF Good
<1>2. S \in Good
  BY <1>1, GoodSubsets
<1> QED BY <1>2 DEF Good

LEMMA SumOfEquals ==
  ASSUME NEW S, IsFiniteSet(S), NEW n \in Nat, NEW f, \A x \in S : f[x] = n
  PROVE  Sum(f, S) = Cardinality(S) * n
<1> DEFINE Good == {T \in SUBSET S : Sum(f, T) = Cardinality(T) * n}
<1>1. ASSUME NEW T \in SUBSET S, \A x \in T : T \ {x} \in Good
      PROVE  T \in Good
  <2>1. IsFiniteSet(T)
    BY FS_Subset
  <2>2. CASE T = {}
    BY <2>2, SumEmpty, FS_EmptySet
  <2>3. CASE T # {}
    <3>1. Pick(T) \in T
      BY <2>3, PickIsMember
    <3>2. Sum(f, T) = n + Sum(f, T \ {Pick(T)})
      BY <2>1, <2>3, <3>1, SumUnfolds
    <3>3. Sum(f, T \ {Pick(T)}) = Cardinality(T \ {Pick(T)}) * n
      BY <1>1, <3>1
    <3>4. Cardinality(T \ {Pick(T)}) = Cardinality(T) - 1 /\ Cardinality(T) \in Nat
      BY <2>1, <3>1, FS_RemoveElement, FS_CardinalityType
    <3>5. n + (Cardinality(T) - 1) * n = Cardinality(T) * n
      BY <3>4
    <3> QED BY <3>2, <3>3, <3>4, <3>5
  <2> QED BY <2>2, <2>3
<1> HIDE DEF Good
<1>2. S \in Good
  BY <1>1, GoodSubsets
<1> QED BY <1>2 DEF Good

\* K names the parts of S, which have no member in common; h is the sum of f over each.
Parted(S, K, Part, f, h) ==
  /\ IsFiniteSet(K)
  /\ S = UNION {Part[k] : k \in K}
  /\ \A k \in K : IsFiniteSet(Part[k]) /\ \A x \in Part[k] : f[x] \in Nat
  /\ \A k, l \in K : k # l => Part[k] \cap Part[l] = {}
  /\ \A k \in K : h[k] = Sum(f, Part[k])

\* The sum over a set is the sum of the sums over its parts.
LEMMA SumNested ==
  ASSUME NEW S, NEW K, NEW Part, NEW f, NEW h, Parted(S, K, Part, f, h)
  PROVE  Sum(f, S) = Sum(h, K)
<1>0. /\ IsFiniteSet(K)
      /\ S = UNION {Part[k] : k \in K}
      /\ \A k \in K : IsFiniteSet(Part[k]) /\ \A x \in Part[k] : f[x] \in Nat
      /\ \A k, l \in K : k # l => Part[k] \cap Part[l] = {}
      /\ \A k \in K : h[k] = Sum(f, Part[k])
  BY DEF Parted
<1> DEFINE All(L) == UNION {Part[k] : k \in L}
           Good == {L \in SUBSET K : IsFiniteSet(All(L)) /\ Sum(f, All(L)) = Sum(h, L)}
<1>1. ASSUME NEW L \in SUBSET K, \A k \in L : L \ {k} \in Good
      PROVE  L \in Good
  <2>1. IsFiniteSet(L)
    BY <1>0, FS_Subset
  <2>2. CASE L = {}
    <3>1. All(L) = {}
      BY <2>2
    <3> HIDE DEF All
    <3> QED BY <2>2, <3>1, SumEmpty, FS_EmptySet
  <2>3. CASE L # {}
    <3>1. PICK k \in L : TRUE
      BY <2>3
    <3> DEFINE M == L \ {k}
    <3>2. /\ All(L) = All(M) \cup Part[k]
          /\ All(M) \cap Part[k] = {}
          /\ \A x \in All(M) \cup Part[k] : f[x] \in Nat
      BY <1>0, <3>1
    <3>3. IsFiniteSet(All(M)) /\ Sum(f, All(M)) = Sum(h, M)
      BY <1>1, <3>1
    <3>4. IsFiniteSet(Part[k]) /\ h[k] = Sum(f, Part[k])
      BY <1>0, <3>1
    <3> HIDE DEF All
    <3>5. IsFiniteSet(All(M) \cup Part[k])
      BY <3>3, <3>4, FS_Union
    <3>6. Sum(f, All(M) \cup Part[k]) = Sum(f, All(M)) + Sum(f, Part[k])
      <4> DEFINE A == All(M)
                 B == Part[k]
      <4>1. IsFiniteSet(A) /\ IsFiniteSet(B) /\ A \cap B = {} /\ \A x \in A \cup B : f[x] \in Nat
        BY <3>2, <3>3, <3>4
      <4> HIDE DEF A, B
      <4>2. Sum(f, A \cup B) = Sum(f, A) + Sum(f, B)
        BY ONLY <4>1, SumUnion
      <4> QED BY <4>2 DEF A, B
    <3>7. \A l \in L : h[l] \in Nat
      BY <1>0, SumNatural
    <3>8. Sum(h, L) = h[k] + Sum(h, M)
      BY <2>1, <3>1, <3>7, SumTakesOut
    <3>9. Sum(h, M) \in Nat /\ h[k] \in Nat
      <4>1. IsFiniteSet(M)
        BY <2>1, FS_Subset
      <4> QED BY <3>1, <3>7, <4>1, SumNatural
    <3> HIDE DEF M
    <3>10. IsFiniteSet(All(L))
      BY <3>2, <3>5
    <3>11. Sum(f, All(L)) = Sum(h, L)
      BY <3>2, <3>3, <3>4, <3>6, <3>8, <3>9
    <3> QED BY <3>10, <3>11
  <2> QED BY <2>2, <2>3
<1> HIDE DEF Good
<1>2. K \in Good
  BY <1>0, <1>1, GoodSubsets
<1> QED BY <1>0, <1>2 DEF Good

LEMMA SumScaled ==
  ASSUME NEW S, IsFiniteSet(S), NEW f, NEW g, NEW v \in Nat,
         \A x \in S : f[x] \in Nat /\ g[x] = f[x] * v
  PROVE  Sum(g, S) = Sum(f, S) * v
<1> DEFINE Good == {T \in SUBSET S : Sum(g, T) = Sum(f, T) * v}
<1>1. ASSUME NEW T \in SUBSET S, \A x \in T : T \ {x} \in Good
      PROVE  T \in Good
  <2>1. IsFiniteSet(T)
    BY FS_Subset
  <2>2. CASE T = {}
    BY <2>2, SumEmpty
  <2>3. CASE T # {}
    <3> DEFINE p == Pick(T)
               n == Sum(f, T \ {p})
    <3>1. p \in T
      BY <2>3, PickIsMember
    <3>2. Sum(f, T) = f[p] + n
      BY <2>1, <2>3, SumUnfolds
    <3>3. Sum(g, T) = g[p] + Sum(g, T \ {p})
      BY <2>1, <2>3, SumUnfolds
    <3>4. Sum(g, T \ {p}) = n * v
      BY <1>1, <3>1
    <3>5. n \in Nat /\ f[p] \in Nat /\ g[p] = f[p] * v
      <4>1. IsFiniteSet(T \ {p})
        BY <2>1, FS_Subset
      <4> QED BY <3>1, <4>1, SumNatural
    <3> HIDE DEF n, p
    <3>6. (f[p] + n) * v = f[p] * v + n * v
      BY <3>5
    <3> QED BY <3>2, <3>3, <3>4, <3>5, <3>6
  <2> QED BY <2>2, <2>3
<1> HIDE DEF Good
<1>2. S \in Good
  BY <1>1, GoodSubsets
<1> QED BY <1>2 DEF Good

LEMMA SumLess ==
  ASSUME NEW S, IsFiniteSet(S), NEW f, NEW g,
         \A x \in S : f[x] \in Nat /\ g[x] \in Nat /\ f[x] <= g[x],
         \E x \in S : f[x] < g[x]
  PROVE  Sum(f, S) < Sum(g, S)
<1>1. PICK x \in S : f[x] < g[x]
  OBVIOUS
<1>2. IsFiniteSet(S \ {x})
  BY FS_Subset
<1>3. Sum(f, S) = f[x] + Sum(f, S \ {x})
  BY SumTakesOut
<1>4. Sum(g, S) = g[x] + Sum(g, S \ {x})
  BY SumTakesOut
<1>5. Sum(f, S \ {x}) <= Sum(g, S \ {x})
  BY <1>2, SumAtMost
<1>6. Sum(f, S \ {x}) \in Nat
  BY <1>2, SumNatural
<1>7. Sum(g, S \ {x}) \in Nat
  BY <1>2, SumNatural
<1> QED BY <1>1, <1>3, <1>4, <1>5, <1>6, <1>7

\* A whole is neither above all its parts nor below them all.
LEMMA WholeIsBetween ==
  ASSUME NEW K, IsFiniteSet(K), NEW r, NEW m,
         \A k \in K : r[k] \in Nat /\ m[k] \in Nat /\ r[k] <= m[k],
         NEW R, R = Sum(r, K), NEW M, M = Sum(m, K), M > 0
  PROVE  /\ R \in Nat /\ M \in Nat
         /\ \E k \in K : m[k] > 0 /\ r[k] * M <= R * m[k]
         /\ \E k \in K : m[k] > 0 /\ r[k] * M >= R * m[k]
<1> DEFINE a == [k \in K |-> r[k] * M]
           b == [k \in K |-> m[k] * R]
<1>1. R \in Nat /\ M \in Nat
  <2>1. R \in Nat
    BY SumNatural
  <2>2. M \in Nat
    BY SumNatural
  <2> QED BY <2>1, <2>2
<1>2. \A k \in K : /\ a[k] = r[k] * M /\ b[k] = m[k] * R
                   /\ a[k] \in Nat /\ b[k] \in Nat
                   /\ b[k] = R * m[k]
                   /\ m[k] = 0 => a[k] = b[k]
  BY <1>1
<1> HIDE DEF a, b
<1>3. Sum(a, K) = R * M
  BY <1>1, <1>2, SumScaled
<1>4. Sum(b, K) = M * R
  BY <1>1, <1>2, SumScaled
<1>5. \E k \in K : m[k] > 0
  <2>1. SUFFICES ASSUME \A k \in K : m[k] = 0 PROVE FALSE
    OBVIOUS
  <2>2. M = Cardinality(K) * 0
    BY <2>1, SumOfEquals
  <2> QED BY <2>2, FS_CardinalityType
<1>6. \E k \in K : m[k] > 0 /\ r[k] * M <= R * m[k]
  <2>1. SUFFICES ASSUME \A k \in K : m[k] > 0 => b[k] < a[k] PROVE FALSE
    BY <1>2
  <2>2. \A k \in K : b[k] <= a[k]
    BY <2>1, <1>2
  <2>3. \E k \in K : b[k] < a[k]
    BY <2>1, <1>5
  <2>4. Sum(b, K) < Sum(a, K)
    BY <1>2, <2>2, <2>3, SumLess
  <2> QED BY <1>1, <1>3, <1>4, <2>4
<1>7. \E k \in K : m[k] > 0 /\ r[k] * M >= R * m[k]
  <2>1. SUFFICES ASSUME \A k \in K : m[k] > 0 => a[k] < b[k] PROVE FALSE
    BY <1>2
  <2>2. \A k \in K : a[k] <= b[k]
    BY <2>1, <1>2
  <2>3. \E k \in K : a[k] < b[k]
    BY <2>1, <1>5
  <2>4. Sum(a, K) < Sum(b, K)
    BY <1>2, <2>2, <2>3, SumLess
  <2> QED BY <1>1, <1>3, <1>4, <2>4
<1> QED BY <1>1, <1>6, <1>7

-----------------------------------------------------------------------------
(* Percentages *)

\* The two engines round alike.
LEMMA RoundedIsNearest ==
  ASSUME NEW n \in Nat, NEW d \in Nat \ {0}
  PROVE  /\ Rounded(n, d) \in Nat
         /\ 2 * n < 2 * (d * Rounded(n, d)) + d
         /\ 2 * (d * Rounded(n, d)) <= 2 * n + d
<1>1. Rounded(n, d) = RoundDiv(n, d)
  BY DEF Rounded, RoundDiv
<1> QED BY <1>1, RoundDivIsNearest

\* Rounding keeps the order of fractions.
LEMMA RoundedMonotone ==
  ASSUME NEW n \in Nat, NEW d \in Nat \ {0}, NEW m \in Nat, NEW c \in Nat \ {0},
         n * c <= m * d
  PROVE  Rounded(n, d) <= Rounded(m, c)
<1> DEFINE p == Rounded(n, d)
           q == Rounded(m, c)
<1>1. p \in Nat /\ 2 * (d * p) <= 2 * n + d
  BY RoundedIsNearest
<1>2. q \in Nat /\ 2 * m < 2 * (c * q) + c
  BY RoundedIsNearest
<1> HIDE DEF p, q
<1>3. ASSUME q < p PROVE FALSE
  <2> DEFINE w == 2 * q + 1
             dc == d * c
  <2>1. w \in Nat /\ dc \in Nat
    BY <1>2
  <2>2. d * w <= 2 * n
    <3>1. d * p >= d * (q + 1) /\ d * (q + 1) = d * q + d /\ d * w = 2 * (d * q) + d
      BY <1>1, <1>2, <1>3
    <3>2. d * q \in Nat /\ d * p \in Nat /\ d * w \in Nat
      BY <1>1, <1>2
    <3> HIDE DEF w
    <3> QED BY <1>1, <3>1, <3>2
  <2>3. 2 * m < c * w
    BY <1>2
  <2> HIDE DEF w
  <2>4. (d * w) * c <= (2 * n) * c
    BY <2>1, <2>2
  <2>5. (2 * m) * d < (c * w) * d
    BY <2>1, <2>3
  <2>6. (d * w) * c = dc * w /\ (c * w) * d = dc * w
    BY <2>1
  <2>7. (2 * n) * c = 2 * (n * c) /\ (2 * m) * d = 2 * (m * d)
    OBVIOUS
  <2>8. n * c \in Nat /\ m * d \in Nat /\ dc * w \in Nat
    BY <2>1
  <2> HIDE DEF dc
  <2> QED BY <2>4, <2>5, <2>6, <2>7, <2>8
<1> QED BY <1>1, <1>2, <1>3 DEF p, q

LEMMA PercentageNatural ==
  ASSUME NEW r \in Nat, NEW m \in Nat \ {0}
  PROVE  Percentage(r, m) \in Nat
<1>1. r * 10000 \in Nat
  OBVIOUS
<1> QED BY <1>1, RoundedIsNearest DEF Percentage

LEMMA PercentageMonotone ==
  ASSUME NEW r \in Nat, NEW m \in Nat \ {0}, NEW s \in Nat, NEW n \in Nat \ {0},
         r * n <= s * m
  PROVE  /\ Percentage(r, m) <= Percentage(s, n)
         /\ HealthLevel(Percentage(r, m)) <= HealthLevel(Percentage(s, n))
<1> DEFINE p == Percentage(r, m)
           q == Percentage(s, n)
<1>1. p = Rounded(r * 10000, m) /\ q = Rounded(s * 10000, n)
  BY DEF Percentage
<1>2. r * 10000 \in Nat /\ s * 10000 \in Nat /\ (r * 10000) * n <= (s * 10000) * m
  <2>1. (r * 10000) * n = 10000 * (r * n) /\ (s * 10000) * m = 10000 * (s * m)
    OBVIOUS
  <2>2. r * n \in Nat /\ s * m \in Nat
    OBVIOUS
  <2> QED BY <2>1, <2>2
<1>3. p \in Nat /\ q \in Nat
  BY <1>1, <1>2, RoundedIsNearest
<1>4. p <= q
  BY <1>1, <1>2, RoundedMonotone
<1> HIDE DEF p, q
<1>5. HealthLevel(p) <= HealthLevel(q)
  BY <1>3, <1>4 DEF HealthLevel
<1> QED BY <1>4, <1>5 DEF p, q

LEMMA ScoreFields ==
  ASSUME NEW r, NEW m
  PROVE  /\ Score(r, m).raw = r /\ Score(r, m).max = m
         /\ Score(r, m).percentage = Percentage(r, m)
         /\ Score(r, m).level = HealthLevel(Percentage(r, m))
BY DEF Score

LEMMA SumsAreBetween ==
  ASSUME NEW K, IsFiniteSet(K), NEW r, NEW m, NEW part, NEW whole,
         \A k \in K : r[k] \in Nat /\ m[k] \in Nat /\ r[k] <= m[k],
         \A k \in K : part[k] = Score(r[k], m[k]),
         whole = Score(Sum(r, K), Sum(m, K))
  PROVE  Between(whole, {part[k] : k \in K})
<1> DEFINE counted == {p \in {part[k] : k \in K} : p.max > 0}
           R == Sum(r, K)
           M == Sum(m, K)
<1>1. SUFFICES ASSUME counted # {}
               PROVE  /\ \E p \in counted : p.percentage <= whole.percentage /\ p.level <= whole.level
                      /\ \E p \in counted : p.percentage >= whole.percentage /\ p.level >= whole.level
  BY DEF Between
<1>2. \A k \in K : /\ part[k].raw = r[k] /\ part[k].max = m[k]
                   /\ part[k].percentage = Percentage(r[k], m[k])
                   /\ part[k].level = HealthLevel(Percentage(r[k], m[k]))
  BY ScoreFields
<1>3. whole.percentage = Percentage(R, M) /\ whole.level = HealthLevel(Percentage(R, M))
  BY ScoreFields
<1>4. M > 0
  <2>1. PICK k \in K : m[k] > 0
    BY <1>1, <1>2
  <2>2. M = m[k] + Sum(m, K \ {k})
    BY SumTakesOut
  <2>3. Sum(m, K \ {k}) \in Nat
    <3>1. IsFiniteSet(K \ {k})
      BY FS_Subset
    <3> QED BY <3>1, SumNatural
  <2> HIDE DEF M
  <2> QED BY <2>1, <2>2, <2>3
<1>5. /\ R \in Nat /\ M \in Nat
      /\ \E k \in K : m[k] > 0 /\ r[k] * M <= R * m[k]
      /\ \E k \in K : m[k] > 0 /\ r[k] * M >= R * m[k]
  BY <1>4, WholeIsBetween
<1> HIDE DEF R, M
<1>6. \E p \in counted : p.percentage <= whole.percentage /\ p.level <= whole.level
  <2>1. PICK k \in K : m[k] > 0 /\ r[k] * M <= R * m[k]
    BY <1>5
  <2>2. /\ Percentage(r[k], m[k]) <= Percentage(R, M)
        /\ HealthLevel(Percentage(r[k], m[k])) <= HealthLevel(Percentage(R, M))
    BY <1>4, <1>5, <2>1, PercentageMonotone
  <2>3. part[k] \in counted
    BY <1>2, <2>1
  <2> QED BY <1>2, <1>3, <2>2, <2>3
<1>7. \E p \in counted : p.percentage >= whole.percentage /\ p.level >= whole.level
  <2>1. PICK k \in K : m[k] > 0 /\ r[k] * M >= R * m[k]
    BY <1>5
  <2>2. R * m[k] <= r[k] * M
    BY <1>5, <2>1
  <2>3. /\ Percentage(R, M) <= Percentage(r[k], m[k])
        /\ HealthLevel(Percentage(R, M)) <= HealthLevel(Percentage(r[k], m[k]))
    BY <1>4, <1>5, <2>1, <2>2, PercentageMonotone
  <2>4. part[k] \in counted
    BY <1>2, <2>1
  <2>5. /\ Percentage(R, M) \in Int /\ Percentage(r[k], m[k]) \in Int
        /\ HealthLevel(Percentage(R, M)) \in Int /\ HealthLevel(Percentage(r[k], m[k])) \in Int
    <3>1. Percentage(R, M) \in Nat
      BY <1>4, <1>5, PercentageNatural
    <3>2. Percentage(r[k], m[k]) \in Nat
      BY <2>1, PercentageNatural
    <3> QED BY <3>1, <3>2 DEF HealthLevel
  <2> QED BY <1>2, <1>3, <2>3, <2>4, <2>5
<1> QED BY <1>6, <1>7

-----------------------------------------------------------------------------
(* Scores of a test *)

ScoringTypeOK == scores \in [ScoringQuestions -> 0..NoScore]

\* What every answer counts at most.
AllMaximal == [q \in ScoringQuestions |-> MaxOptionScore]

InDomain(d) == {q \in ScoringQuestions : DomainOf[q] = d}
InLayer(k) == {q \in ScoringQuestions : LayerOf[DomainOf[q]] = k}
DomainsOf(k) == {d \in Domains : LayerOf[d] = k}

LEMMA GivenIsCounted ==
  ASSUME ScoringTypeOK, NEW Q \in SUBSET ScoringQuestions
  PROVE  /\ IsFiniteSet(Given(Q))
         /\ \A q \in Given(Q) : scores[q] \in Nat /\ AllMaximal[q] \in Nat /\ scores[q] <= AllMaximal[q]
         /\ \A q \in Given(Q) : AllMaximal[q] = MaxOptionScore
<1>1. Given(Q) \subseteq ScoringQuestions /\ IsFiniteSet(ScoringQuestions)
  BY ScoringAssumption DEF Given, ScoringQuestions
<1>2. IsFiniteSet(Given(Q))
  BY <1>1, FS_Subset
<1> QED BY <1>1, <1>2 DEF ScoringTypeOK, Given, AllMaximal, MaxOptionScore, NoScore

LEMMA ScoreOfCounts ==
  ASSUME ScoringTypeOK, NEW Q \in SUBSET ScoringQuestions
  PROVE  /\ ScoreOf(Q) = Score(Sum(scores, Given(Q)), Sum(AllMaximal, Given(Q)))
         /\ Sum(scores, Given(Q)) \in Nat /\ Sum(AllMaximal, Given(Q)) \in Nat
         /\ Sum(scores, Given(Q)) <= Sum(AllMaximal, Given(Q))
<1> DEFINE G == Given(Q)
<1>1. /\ IsFiniteSet(G)
      /\ \A q \in G : scores[q] \in Nat /\ AllMaximal[q] \in Nat /\ scores[q] <= AllMaximal[q]
      /\ \A q \in G : AllMaximal[q] = MaxOptionScore
  BY GivenIsCounted
<1>2. ScoreOf(Q) = Score(Sum(scores, G), Cardinality(G) * MaxOptionScore)
  BY DEF ScoreOf, Sum
<1> HIDE DEF G
<1>3. Sum(AllMaximal, G) = Cardinality(G) * MaxOptionScore
  <2>1. MaxOptionScore \in Nat
    BY DEF MaxOptionScore
  <2> QED BY <1>1, <2>1, SumOfEquals
<1>4. Sum(scores, G) \in Nat
  BY <1>1, SumNatural
<1>5. Sum(AllMaximal, G) \in Nat
  BY <1>1, SumNatural
<1>6. Sum(scores, G) <= Sum(AllMaximal, G)
  BY <1>1, SumAtMost
<1> QED BY <1>2, <1>3, <1>4, <1>5, <1>6 DEF G

\* The answers of a layer are those of its domains, counted once.
LEMMA LayerCounts ==
  ASSUME ScoringTypeOK, NEW k \in Layers
  PROVE  /\ LayerScore(k) = Score(Sum(scores, Given(InLayer(k))), Sum(AllMaximal, Given(InLayer(k))))
         /\ Between(LayerScore(k), {DomainScore(d) : d \in DomainsOf(k)})
<1> DEFINE G == Given(InLayer(k))
           ds == DomainsOf(k)
           Part == [d \in ds |-> Given(InDomain(d))]
           raws == [d \in ds |-> DomainScore(d).raw]
           maxs == [d \in ds |-> DomainScore(d).max]
           part == [d \in ds |-> DomainScore(d)]
<1>1. IsFiniteSet(ds)
  BY ScoringAssumption, FS_Subset DEF DomainsOf, Domains
<1>2. \A d \in ds : /\ IsFiniteSet(Part[d])
                    /\ \A q \in Part[d] : scores[q] \in Nat
                    /\ \A q \in Part[d] : AllMaximal[q] \in Nat
  BY GivenIsCounted DEF InDomain
<1>3. \A d \in ds : /\ raws[d] = Sum(scores, Part[d]) /\ maxs[d] = Sum(AllMaximal, Part[d])
                    /\ raws[d] \in Nat /\ maxs[d] \in Nat /\ raws[d] <= maxs[d]
                    /\ part[d] = Score(raws[d], maxs[d])
  <2> TAKE d \in ds
  <2>1. InDomain(d) \in SUBSET ScoringQuestions /\ DomainScore(d) = ScoreOf(InDomain(d))
    BY DEF InDomain, DomainScore
  <2>2. /\ DomainScore(d) = Score(Sum(scores, Part[d]), Sum(AllMaximal, Part[d]))
        /\ Sum(scores, Part[d]) \in Nat /\ Sum(AllMaximal, Part[d]) \in Nat
        /\ Sum(scores, Part[d]) <= Sum(AllMaximal, Part[d])
    BY <2>1, ScoreOfCounts
  <2>3. raws[d] = Sum(scores, Part[d]) /\ maxs[d] = Sum(AllMaximal, Part[d])
    BY <2>2, ScoreFields
  <2> QED BY <2>2, <2>3
<1>4. \A d, e \in ds : d # e => Part[d] \cap Part[e] = {}
  BY DEF Given, InDomain
<1>5. G = UNION {Part[d] : d \in ds}
  <2>1. ASSUME NEW q \in G PROVE \E d \in ds : q \in Part[d]
    <3>1. q \in ScoringQuestions /\ LayerOf[DomainOf[q]] = k /\ DomainOf[q] \in Domains
      BY ScoringAssumption DEF Given, InLayer, ScoringQuestions, Domains
    <3>2. DomainOf[q] \in ds
      BY <3>1 DEF DomainsOf
    <3>3. q \in Part[DomainOf[q]]
      BY <3>1, <3>2 DEF Given, InDomain
    <3> QED BY <3>2, <3>3
  <2>2. ASSUME NEW d \in ds, NEW q \in Part[d] PROVE q \in G
    BY DEF Given, InDomain, InLayer, DomainsOf
  <2> HIDE DEF G, ds, Part
  <2> QED BY <2>1, <2>2
<1>6. LayerScore(k) = Score(Sum(raws, ds), Sum(maxs, ds))
  BY DEF LayerScore, SumFunction, Sum, DomainsOf
<1>7. {DomainScore(d) : d \in DomainsOf(k)} = {part[d] : d \in ds}
  OBVIOUS
<1> HIDE DEF G, ds, Part, raws, maxs, part
<1>8. Sum(scores, G) = Sum(raws, ds)
  <2>1. Parted(G, ds, Part, scores, raws)
    BY <1>1, <1>2, <1>3, <1>4, <1>5 DEF Parted
  <2> QED BY <2>1, SumNested
<1>9. Sum(AllMaximal, G) = Sum(maxs, ds)
  <2>1. Parted(G, ds, Part, AllMaximal, maxs)
    BY <1>1, <1>2, <1>3, <1>4, <1>5 DEF Parted
  <2> QED BY <2>1, SumNested
<1>10. Between(LayerScore(k), {part[d] : d \in ds})
  BY <1>1, <1>3, <1>6, SumsAreBetween
<1> QED BY <1>6, <1>7, <1>8, <1>9, <1>10 DEF G

LEMMA OverallCounts ==
  ASSUME ScoringTypeOK
  PROVE  /\ OverallScore.raw = SumFunction([k \in Layers |-> LayerScore(k).raw])
         /\ OverallScore.max = SumFunction([k \in Layers |-> LayerScore(k).max])
         /\ Between(OverallScore, {LayerScore(k) : k \in Layers})
<1> DEFINE Part == [k \in Layers |-> Given(InLayer(k))]
           raws == [k \in Layers |-> LayerScore(k).raw]
           maxs == [k \in Layers |-> LayerScore(k).max]
           part == [k \in Layers |-> LayerScore(k)]
           G == Given(ScoringQuestions)
<1>1. IsFiniteSet(Layers)
  <2>1. IsFiniteSet(Domains)
    BY ScoringAssumption DEF Domains
  <2> DEFINE image == [d \in Domains |-> LayerOf[d]]
  <2>2. image \in Surjection(Domains, Layers)
    BY DEF Layers, Surjection
  <2> QED BY <2>1, <2>2, FS_Surjection
<1>2. \A k \in Layers : /\ IsFiniteSet(Part[k])
                        /\ \A q \in Part[k] : scores[q] \in Nat
                        /\ \A q \in Part[k] : AllMaximal[q] \in Nat
  BY GivenIsCounted DEF InLayer
<1>3. \A k \in Layers :
        /\ raws[k] = Sum(scores, Part[k]) /\ maxs[k] = Sum(AllMaximal, Part[k])
        /\ raws[k] \in Nat /\ maxs[k] \in Nat /\ raws[k] <= maxs[k]
        /\ part[k] = Score(raws[k], maxs[k])
  <2> TAKE k \in Layers
  <2>1. InLayer(k) \in SUBSET ScoringQuestions
    BY DEF InLayer
  <2>2. LayerScore(k) = Score(Sum(scores, Part[k]), Sum(AllMaximal, Part[k]))
    BY LayerCounts
  <2>3. /\ Sum(scores, Part[k]) \in Nat /\ Sum(AllMaximal, Part[k]) \in Nat
        /\ Sum(scores, Part[k]) <= Sum(AllMaximal, Part[k])
    BY <2>1, ScoreOfCounts
  <2>4. raws[k] = Sum(scores, Part[k]) /\ maxs[k] = Sum(AllMaximal, Part[k])
    BY <2>2, ScoreFields
  <2> QED BY <2>2, <2>3, <2>4
<1>4. \A k, l \in Layers : k # l => Part[k] \cap Part[l] = {}
  BY DEF Given, InLayer
<1>5. G = UNION {Part[k] : k \in Layers}
  <2>1. ASSUME NEW q \in G PROVE \E k \in Layers : q \in Part[k]
    <3> DEFINE l == LayerOf[DomainOf[q]]
    <3>1. q \in ScoringQuestions /\ DomainOf[q] \in Domains
      BY ScoringAssumption DEF Given, ScoringQuestions, Domains
    <3>2. l \in Layers
      BY <3>1 DEF Layers
    <3>3. q \in Part[l]
      BY <3>1, <3>2 DEF Given, InLayer
    <3> QED BY <3>2, <3>3
  <2>2. ASSUME NEW k \in Layers, NEW q \in Part[k] PROVE q \in G
    BY DEF Given, InLayer
  <2> HIDE DEF G, Part
  <2> QED BY <2>1, <2>2
<1>6. OverallScore = Score(Sum(scores, G), Sum(AllMaximal, G))
  BY ScoreOfCounts DEF OverallScore
<1>7. {LayerScore(k) : k \in Layers} = {part[k] : k \in Layers}
  OBVIOUS
<1>8. /\ SumFunction([k \in Layers |-> LayerScore(k).raw]) = Sum(raws, Layers)
      /\ SumFunction([k \in Layers |-> LayerScore(k).max]) = Sum(maxs, Layers)
  BY DEF SumFunction, Sum
<1> HIDE DEF G, Part, raws, maxs, part
<1>9. Sum(scores, G) = Sum(raws, Layers)
  <2>1. Parted(G, Layers, Part, scores, raws)
    BY <1>1, <1>2, <1>3, <1>4, <1>5 DEF Parted
  <2> QED BY <2>1, SumNested
<1>10. Sum(AllMaximal, G) = Sum(maxs, Layers)
  <2>1. Parted(G, Layers, Part, AllMaximal, maxs)
    BY <1>1, <1>2, <1>3, <1>4, <1>5 DEF Parted
  <2> QED BY <2>1, SumNested
<1>11. OverallScore = Score(Sum(raws, Layers), Sum(maxs, Layers))
  BY <1>6, <1>9, <1>10
<1>12. OverallScore.raw = Sum(raws, Layers) /\ OverallScore.max = Sum(maxs, Layers)
  BY <1>11, ScoreFields
<1>13. Between(OverallScore, {part[k] : k \in Layers})
  BY <1>1, <1>3, <1>11, SumsAreBetween
<1> QED BY <1>7, <1>8, <1>12, <1>13

\* For any questions, domains and layers, the three ways to add up a test count
\* the same points, and rounding never makes a whole better or worse than all
\* its parts.
THEOREM ScoresAlwaysAgree == ScoringSpec => []ScoresAgree
<1>1. ScoringInit => ScoringTypeOK
  BY DEF ScoringInit, ScoringTypeOK, NoScore, MaxOptionScore
<1>2. ScoringTypeOK /\ [ScoringNext]_scores => ScoringTypeOK'
  BY DEF ScoringTypeOK, ScoringNext, AnswerChosen, NoScore, MaxOptionScore
<1>3. ScoringTypeOK => ScoresAgree
  <2>1. SUFFICES ASSUME ScoringTypeOK
                 PROVE  ScoresAgree
    OBVIOUS
  <2>2. \A k \in Layers :
          Between(LayerScore(k), {DomainScore(d) : d \in {e \in Domains : LayerOf[e] = k}})
    BY <2>1, LayerCounts DEF DomainsOf
  <2> QED BY <2>1, <2>2, OverallCounts DEF ScoresAgree
<1> QED BY <1>1, <1>2, <1>3, PTL DEF ScoringSpec

-----------------------------------------------------------------------------
(* Choosing *)

\* The pairs R order S.
Orders(R, S) ==
  /\ \A x, y \in S : x # y => <<x, y>> \in R \/ <<y, x>> \in R
  /\ \A x, y, z \in S : <<x, y>> \in R /\ <<y, z>> \in R => <<x, z>> \in R

\* A finite set that is ordered has a first member.
LEMMA FirstExists ==
  ASSUME NEW S, IsFiniteSet(S), S # {}, NEW R, Orders(R, S)
  PROVE  \E x \in S : \A y \in S \ {x} : <<x, y>> \in R
<1> DEFINE Good == {T \in SUBSET S : T = {} \/ \E x \in T : \A y \in T \ {x} : <<x, y>> \in R}
<1>0. /\ \A x, y \in S : x # y => <<x, y>> \in R \/ <<y, x>> \in R
      /\ \A x, y, z \in S : <<x, y>> \in R /\ <<y, z>> \in R => <<x, z>> \in R
  BY DEF Orders
<1>1. ASSUME NEW T \in SUBSET S, \A t \in T : T \ {t} \in Good
      PROVE  T \in Good
  <2>1. SUFFICES ASSUME T # {}
                 PROVE  \E x \in T : \A y \in T \ {x} : <<x, y>> \in R
    OBVIOUS
  <2>2. PICK t \in T : TRUE
    BY <2>1
  <2>3. CASE T \ {t} = {}
    BY <2>2, <2>3
  <2>4. CASE T \ {t} # {}
    <3>1. PICK x \in T \ {t} : \A y \in (T \ {t}) \ {x} : <<x, y>> \in R
      BY <1>1, <2>2, <2>4
    <3>2. CASE <<x, t>> \in R
      BY <3>1, <3>2
    <3>3. CASE <<t, x>> \in R
      <4>1. \A y \in T \ {t} : <<t, y>> \in R
        BY <1>0, <2>2, <3>1, <3>3
      <4> QED BY <2>2, <4>1
    <3> QED BY <1>0, <2>2, <3>1, <3>2, <3>3
  <2> QED BY <2>3, <2>4
<1> HIDE DEF Good
<1>2. S \in Good
  BY <1>1, GoodSubsets
<1> QED BY <1>2 DEF Good

\* Sorted by descending values, equals by ascending keys.
LEMMA HigherFirst ==
  ASSUME NEW S, IsFiniteSet(S), S # {}, NEW value, NEW key,
         \A x \in S : value[x] \in Nat /\ key[x] \in Nat,
         \A x, y \in S : key[x] = key[y] => x = y
  PROVE  \E x \in S : \A y \in S \ {x} : Higher(x, y, value, key[x] < key[y])
<1> DEFINE R == {p \in S \X S : Higher(p[1], p[2], value, key[p[1]] < key[p[2]])}
<1>1. \A x, y \in S : <<x, y>> \in R <=> Higher(x, y, value, key[x] < key[y])
  OBVIOUS
<1>2. \A x, y \in S : x # y => <<x, y>> \in R \/ <<y, x>> \in R
  BY <1>1 DEF Higher
<1>3. \A x, y, z \in S : <<x, y>> \in R /\ <<y, z>> \in R => <<x, z>> \in R
  BY <1>1 DEF Higher
<1> HIDE DEF R
<1>4. \E x \in S : \A y \in S \ {x} : <<x, y>> \in R
  <2>1. Orders(R, S)
    BY <1>2, <1>3 DEF Orders
  <2> QED BY <2>1, FirstExists
<1> QED BY <1>1, <1>4

\* The usual case: equals keep the order of their numbers.
LEMMA HigherNumber ==
  ASSUME NEW S \in SUBSET Nat, IsFiniteSet(S), S # {}, NEW value, \A x \in S : value[x] \in Nat
  PROVE  \E x \in S : \A y \in S \ {x} : Higher(x, y, value, x < y)
<1> DEFINE key == [x \in S |-> x]
<1>1. /\ \A x \in S : value[x] \in Nat /\ key[x] \in Nat
      /\ \A x, y \in S : key[x] = key[y] => x = y
  OBVIOUS
<1>2. \A x \in S : key[x] = x
  OBVIOUS
<1> HIDE DEF key
<1>3. \E x \in S : \A y \in S \ {x} : Higher(x, y, value, key[x] < key[y])
  BY <1>1, HigherFirst
<1> QED BY <1>2, <1>3 DEF Higher

LEMMA LowestExists ==
  ASSUME NEW S \in SUBSET Nat, IsFiniteSet(S), S # {}
  PROVE  Min(S) \in S /\ \A y \in S : Min(S) <= y
<1> DEFINE same == [x \in S |-> 0]
<1>1. \A x \in S : same[x] = 0
  OBVIOUS
<1> HIDE DEF same
<1>2. PICK x \in S : \A y \in S \ {x} : Higher(x, y, same, x < y)
  BY <1>1, HigherNumber
<1>3. \A y \in S : x <= y
  BY <1>1, <1>2 DEF Higher
<1> QED BY <1>3 DEF Min

LEMMA SmallSets ==
  ASSUME NEW n \in Nat, NEW S \in SUBSET (1..n)
  PROVE  S \in SUBSET Nat /\ IsFiniteSet(S)
<1>1. \A m \in Nat : IsFiniteSet(1..m)
  BY FS_Interval
<1>2. S \subseteq 1..n /\ S \subseteq Nat
  OBVIOUS
<1> QED BY <1>1, <1>2, FS_Subset

-----------------------------------------------------------------------------
(* Scores *)

Answers == [Engines -> [1..5 -> 0..3]]
RawScores == [Engines -> 0..15]

LEMMA EnginesAreFinite ==
  /\ IsFiniteSet(Engines) /\ Engines \subseteq Nat \ {0}
  /\ Eligible \subseteq Engines /\ IsFiniteSet(Eligible)
  /\ \A e \in Engines : Asked[e] \subseteq 1..5 /\ IsFiniteSet(Asked[e])
<1>0. \A m \in Nat : IsFiniteSet(1..m)
  BY FS_Interval
<1>1. IsFiniteSet(Engines) /\ IsFiniteSet(1..5)
  <2>1. 5 \in Nat /\ 16 \in Nat
    OBVIOUS
  <2> QED BY <1>0, <2>1, Zenon DEF Engines
<1>2. Engines \subseteq Nat \ {0} /\ Eligible \subseteq Engines
  BY DEF Engines, Eligible
<1>3. \A e \in Engines : Asked[e] \subseteq 1..5
  BY DiagnosisAssumption
<1> QED BY <1>1, <1>2, <1>3, FS_Subset

LEMMA ConstantsType ==
  ASSUME NEW e \in Engines
  PROVE  LET c == DomainConstants[e]
         IN  /\ c.R \in 1..3 /\ c.Q \in 1..3 /\ c.U \in 1..3 /\ c.kT \in 7..16
             /\ StructuralWeight(e) \in Nat \ {0}
<1>1. LET c == DomainConstants[e]
      IN  c.R \in 1..3 /\ c.Q \in 1..3 /\ c.U \in 1..3 /\ c.kT \in 7..16
  BY DEF Engines, DomainConstants, Constants
<1> DEFINE c == DomainConstants[e]
           k == c.kT
           n == 9 * c.R + 6 * c.Q + 5 * c.U
<1>2. k \in Nat \ {0} /\ n \in Nat \ {0}
  BY <1>1
<1>3. StructuralWeight(e) = k * n
  BY DEF StructuralWeight
<1> HIDE DEF k, n
<1>4. k * n \in Nat \ {0}
  BY <1>2
<1> QED BY <1>1, <1>3, <1>4

LEMMA RawType ==
  ASSUME NEW g \in Answers, NEW e \in Engines
  PROVE  /\ Raw(g, e) \in 0..15
         /\ \A q \in Asked[e] : g[e][q] < 3 => Raw(g, e) < 15
<1>1. \A q \in 1..5 : Slot(g, e, q) \in 0..3
  BY DEF Slot, Answers
<1>2. \A q \in Asked[e] : q \in 1..5 /\ (g[e][q] < 3 => Slot(g, e, q) < 3)
  BY EnginesAreFinite DEF Slot
<1> QED BY <1>1, <1>2 DEF Raw

LEMMA RawIsNat ==
  ASSUME NEW raw \in RawScores
  PROVE  \A e \in Engines : raw[e] \in Nat /\ raw[e] <= 15 /\ 15 - raw[e] \in Nat
<1> TAKE e \in Engines
<1>1. raw[e] \in 0..15
  BY DEF RawScores
<1> QED BY <1>1

-----------------------------------------------------------------------------
(* Roots and symptoms *)

LEMMA EdgesAre ==
  /\ IsFiniteSet(DependencyEdges)
  /\ \A d \in DependencyEdges :
       /\ d = <<d[1], d[2], d[3]>> /\ d[1] \in Engines /\ d[2] \in Engines /\ d[1] # d[2]
       /\ d[3] \in 1..8
  /\ \A d \in BinaryDependencies : \E f \in DependencyEdges : f[1] = d[1] /\ f[2] = d[2]
<1>1. \A d \in DependencyEdges :
        /\ d = <<d[1], d[2], d[3]>> /\ d[1] \in Engines /\ d[2] \in Engines /\ d[1] # d[2]
        /\ d[3] \in 1..8
  BY DEF DependencyEdges, Engines
<1>2. \A d \in BinaryDependencies : \E f \in DependencyEdges : f[1] = d[1] /\ f[2] = d[2]
  BY DEF DependencyEdges, BinaryDependencies
<1>3. IsFiniteSet(DependencyEdges)
  <2> DEFINE code == [d \in DependencyEdges |-> 200 * d[1] + 10 * d[2] + d[3]]
  <2>1. PICK n \in Nat : n = 4000
    OBVIOUS
  <2>2. \A d \in DependencyEdges : code[d] \in 0..n
    <3> TAKE d \in DependencyEdges
    <3> DEFINE d1 == d[1]
               d2 == d[2]
               d3 == d[3]
    <3>1. d1 \in 1..16 /\ d2 \in 1..16 /\ d3 \in 1..8
      BY <1>1 DEF Engines
    <3>2. code[d] = 200 * d1 + 10 * d2 + d3
      OBVIOUS
    <3> HIDE DEF code, d1, d2, d3
    <3> QED BY <2>1, <3>1, <3>2
  <2>3. \A d, f \in DependencyEdges : code[d] = code[f] => d = f
    <3> TAKE d, f \in DependencyEdges
    <3>1. /\ d = <<d[1], d[2], d[3]>> /\ f = <<f[1], f[2], f[3]>>
          /\ d[1] \in 1..16 /\ d[2] \in 1..16 /\ d[3] \in 1..8
          /\ f[1] \in 1..16 /\ f[2] \in 1..16 /\ f[3] \in 1..8
      BY <1>1 DEF Engines
    <3>2. /\ code[d] = 200 * d[1] + 10 * d[2] + d[3]
          /\ code[f] = 200 * f[1] + 10 * f[2] + f[3]
      OBVIOUS
    <3> HIDE DEF code
    <3>3. code[d] = code[f] => d[1] = f[1] /\ d[2] = f[2] /\ d[3] = f[3]
      <4> DEFINE d1 == d[1]
                 d2 == d[2]
                 d3 == d[3]
                 f1 == f[1]
                 f2 == f[2]
                 f3 == f[3]
      <4>1. /\ d1 \in 1..16 /\ d2 \in 1..16 /\ d3 \in 1..8
            /\ f1 \in 1..16 /\ f2 \in 1..16 /\ f3 \in 1..8
        BY <3>1
      <4>2. code[d] = 200 * d1 + 10 * d2 + d3 /\ code[f] = 200 * f1 + 10 * f2 + f3
        BY <3>2
      <4> HIDE DEF d1, d2, d3, f1, f2, f3
      <4>3. code[d] = code[f] => d1 = f1 /\ d2 = f2 /\ d3 = f3
        BY <4>1, <4>2
      <4> QED BY <4>3 DEF d1, d2, d3, f1, f2, f3
    <3> QED BY <3>1, <3>3
  <2>4. code \in Injection(DependencyEdges, 0..n)
    BY <2>2, <2>3 DEF Injection, IsInjective
  <2>5. IsFiniteSet(0..n)
    <3>1. \A m \in Nat : IsFiniteSet(0..m)
      BY FS_Interval
    <3> QED BY <3>1, Zenon
  <2> HIDE DEF code
  <2> QED BY <2>4, <2>5, FS_Injection
<1> QED BY <1>1, <1>2, <1>3

\* An endpoint of no edge is explained by nothing.
LEMMA WeightedSumType ==
  ASSUME NEW raw \in RawScores, NEW E \in SUBSET DependencyEdges, NEW end \in {1, 2}
  PROVE  /\ WeightedSum(raw, E, end) \in Nat
         /\ (\A d \in E : ~IsWeak(raw[d[end]])) => WeightedSum(raw, E, end) = 0
<1> DEFINE D == {d \in E : IsWeak(raw[d[end]])}
           h == [d \in D |-> d[3] * (15 - raw[d[end]])]
<1>1. WeightedSum(raw, E, end) = Sum(h, D)
  BY DEF WeightedSum, SumFunction, Sum
<1>2. IsFiniteSet(D)
  BY EdgesAre, FS_Subset
<1>3. \A d \in D : h[d] \in Nat
  <2> TAKE d \in D
  <2>1. d[3] \in Nat /\ d[end] \in Engines
    BY EdgesAre
  <2>2. 15 - raw[d[end]] \in Nat
    BY <2>1 DEF RawScores
  <2> DEFINE m == d[3]
             n == 15 - raw[d[end]]
  <2>3. h[d] = m * n /\ m \in Nat /\ n \in Nat
    BY <2>1, <2>2
  <2> HIDE DEF m, n, h
  <2> QED BY <2>3
<1>4. (\A d \in E : ~IsWeak(raw[d[end]])) => D = {}
  OBVIOUS
<1> HIDE DEF D, h
<1> QED BY <1>1, <1>2, <1>3, <1>4, SumNatural, SumEmpty

\* It only depends on the domains at the other end.
LEMMA WeightedSumSame ==
  ASSUME NEW raw, NEW other, NEW E, NEW end,
         \A d \in E : other[d[end]] = raw[d[end]]
  PROVE  WeightedSum(other, E, end) = WeightedSum(raw, E, end)
<1> DEFINE D(r) == {d \in E : IsWeak(r[d[end]])}
           h(r) == [d \in D(r) |-> d[3] * (15 - r[d[end]])]
<1>1. D(other) = D(raw)
  OBVIOUS
<1>2. h(other) = h(raw)
  BY <1>1
<1>3. WeightedSum(other, E, end) = SumFunction(h(other)) /\ WeightedSum(raw, E, end) = SumFunction(h(raw))
  BY DEF WeightedSum
<1> HIDE DEF D, h
<1> QED BY <1>2, <1>3

Explained(raw, e) == WeightedSum(raw, {d \in DependencyEdges : d[2] = e}, 1)
RootImpact(raw, e) == WeightedSum(raw, {d \in DependencyEdges : d[1] = e}, 2)

LEMMA MaxOfTwo ==
  ASSUME NEW m \in Nat, NEW n \in Nat, m <= n
  PROVE  Max({m, n}) = n
<1>1. n \in {m, n} /\ \A y \in {m, n} : n >= y
  OBVIOUS
<1>2. \A x \in {m, n} : (\A y \in {m, n} : x >= y) => x = n
  OBVIOUS
<1> QED BY <1>1, <1>2 DEF Max

LEMMA ClampIs ==
  ASSUME NEW n \in Nat, NEW low \in Nat, NEW high \in Nat, low <= n, low <= high
  PROVE  Clamp(n, low, high) = IF n <= high THEN n ELSE high
<1>1. Clamp(n, low, high) = Min({high, n})
  BY MaxOfTwo DEF Clamp
<1> QED BY <1>1, MinOfTwo

LEMMA WeightedMIs ==
  ASSUME NEW raw \in RawScores, NEW e \in Engines
  PROVE  LET explained == Explained(raw, e)
             rootImpact == RootImpact(raw, e)
             isRoot == rootImpact > explained
                       \/ (rootImpact = explained /\ ~(e = 7 /\ RoundedDown(raw)))
         IN  /\ explained \in Nat /\ rootImpact \in Nat
             /\ WeightedM(raw, e) \in Nat \ {0}
             /\ e # Measurement /\ isRoot /\ rootImpact = 0 => WeightedM(raw, e) = 1500
<1> DEFINE x == Explained(raw, e)
           i == RootImpact(raw, e)
           isRoot == i > x \/ (i = x /\ ~(e = 7 /\ RoundedDown(raw)))
<1>1. x \in Nat /\ i \in Nat
  BY WeightedSumType DEF Explained, RootImpact
<1>2. WeightedM(raw, e) =
        CASE e = Measurement -> 2250
          [] e # Measurement /\ isRoot -> Clamp(1500 + 5 * i, 1500, 3000)
          [] OTHER -> IF 6 * x >= 1650 THEN 600 ELSE 2250 - 6 * x
  BY Zenon DEF WeightedM, Explained, RootImpact
<1> HIDE DEF x, i
<1>3. /\ Clamp(1500 + 5 * i, 1500, 3000) \in Nat \ {0}
      /\ i = 0 => Clamp(1500 + 5 * i, 1500, 3000) = 1500
  <2> DEFINE n == 1500 + 5 * i
  <2>1. n \in Nat /\ 1500 \in Nat /\ 3000 \in Nat /\ n >= 1500 /\ (i = 0 => n = 1500)
    BY <1>1
  <2> HIDE DEF n
  <2>2. Clamp(n, 1500, 3000) = IF n <= 3000 THEN n ELSE 3000
    BY <2>1, ClampIs
  <2>3. Clamp(n, 1500, 3000) \in Nat \ {0} /\ (i = 0 => Clamp(n, 1500, 3000) = 1500)
    BY <2>1, <2>2
  <2> QED BY <2>3 DEF n
<1>4. (IF 6 * x >= 1650 THEN 600 ELSE 2250 - 6 * x) \in Nat \ {0}
  BY <1>1
<1> DEFINE k == Clamp(1500 + 5 * i, 1500, 3000)
           s == IF 6 * x >= 1650 THEN 600 ELSE 2250 - 6 * x
<1>5. WeightedM(raw, e) = CASE e = Measurement -> 2250 [] e # Measurement /\ isRoot -> k [] OTHER -> s
  BY <1>2
<1> HIDE DEF isRoot, k, s
<1>6. WeightedM(raw, e) \in {2250, k, s} /\ (e # Measurement /\ isRoot => WeightedM(raw, e) = k)
  BY <1>5
<1>7. WeightedM(raw, e) \in Nat \ {0}
  BY <1>3, <1>4, <1>6 DEF k, s
<1>8. e # Measurement /\ isRoot /\ i = 0 => WeightedM(raw, e) = 1500
  BY <1>3, <1>6 DEF k
<1> QED BY <1>1, <1>7, <1>8 DEF x, i, isRoot

LEMMA MType ==
  ASSUME NEW raw \in RawScores, NEW e \in Engines
  PROVE  MCoefficient(raw, e) \in Nat \ {0}
<1>1. WeightedM(raw, e) \in Nat \ {0}
  BY WeightedMIs
<1>2. BinaryM(raw, e) \in Nat \ {0}
  BY DEF BinaryM
<1> QED BY <1>1, <1>2 DEF MCoefficient

\* What makes a domain a root or a symptom is an edge between two weak ones.
LEMMA RolesHold ==
  ASSUME NEW raw \in RawScores, NEW e \in Engines, e # Measurement, MCoefficient(raw, e) # 1500
  PROVE  \E f \in DependencyFindings(raw) : e \in {f[1], f[2]}
<1>1. SUFFICES ASSUME \A f \in DependencyEdges :
                        IsWeak(raw[f[1]]) /\ IsWeak(raw[f[2]]) => f[1] # e /\ f[2] # e
               PROVE  FALSE
  BY DEF DependencyFindings
<1>2. IsWeak(raw[e])
  BY DEF MCoefficient
<1>3. Explained(raw, e) = 0 /\ RootImpact(raw, e) = 0
  <2> DEFINE into == {d \in DependencyEdges : d[2] = e}
             out == {d \in DependencyEdges : d[1] = e}
  <2>1. (\A d \in into : ~IsWeak(raw[d[1]])) /\ (\A d \in out : ~IsWeak(raw[d[2]]))
    BY <1>1, <1>2
  <2>2. into \in SUBSET DependencyEdges /\ out \in SUBSET DependencyEdges
    OBVIOUS
  <2> HIDE DEF into, out
  <2>3. WeightedSum(raw, into, 1) = 0 /\ WeightedSum(raw, out, 2) = 0
    BY <2>1, <2>2, WeightedSumType
  <2> QED BY <2>3 DEF into, out, Explained, RootImpact
<1>4. ~(e = 7 /\ RoundedDown(raw))
  <2>1. SUFFICES ASSUME e = 7, RoundedDown(raw)
                 PROVE  FALSE
    OBVIOUS
  <2>2. <<7, 9, 6>> \in DependencyEdges /\ <<7, 13, 7>> \in DependencyEdges
    BY DEF DependencyEdges
  <2>3. raw[9] = 5 \/ raw[13] = 5
    BY <2>1 DEF RoundedDown
  <2> QED BY <1>1, <1>2, <2>1, <2>2, <2>3 DEF IsWeak
<1>5. WeightedM(raw, e) = 1500
  BY <1>3, <1>4, WeightedMIs
<1>6. \A d \in BinaryDependencies : ~(d[2] = e /\ IsWeak(raw[d[1]])) /\ ~(d[1] = e /\ IsWeak(raw[d[2]]))
  BY <1>1, <1>2, EdgesAre
<1>7. BinaryM(raw, e) = 1500
  BY <1>6 DEF BinaryM
<1> QED BY <1>5, <1>7 DEF MCoefficient

\* A domain's own answers do not change its M while it stays weak, or stays not weak.
LEMMA MUnchanged ==
  ASSUME NEW raw \in RawScores, NEW e \in Engines, NEW other \in RawScores,
         \A x \in Engines \ {e} : other[x] = raw[x],
         IsWeak(other[e]) <=> IsWeak(raw[e])
  PROVE  MCoefficient(other, e) = MCoefficient(raw, e)
<1>1. Explained(other, e) = Explained(raw, e) /\ RootImpact(other, e) = RootImpact(raw, e)
  <2> DEFINE into == {d \in DependencyEdges : d[2] = e}
             out == {d \in DependencyEdges : d[1] = e}
  <2>1. (\A d \in into : other[d[1]] = raw[d[1]]) /\ (\A d \in out : other[d[2]] = raw[d[2]])
    BY EdgesAre
  <2> HIDE DEF into, out
  <2>2. WeightedSum(other, into, 1) = WeightedSum(raw, into, 1)
    BY <2>1, WeightedSumSame
  <2>3. WeightedSum(other, out, 2) = WeightedSum(raw, out, 2)
    BY <2>1, WeightedSumSame
  <2> QED BY <2>2, <2>3 DEF into, out, Explained, RootImpact
<1>2. e = 7 => (RoundedDown(other) <=> RoundedDown(raw))
  BY DEF RoundedDown, Engines
<1>3. WeightedM(other, e) = WeightedM(raw, e)
  BY <1>1, <1>2 DEF WeightedM, Explained, RootImpact
<1>4. BinaryM(other, e) = BinaryM(raw, e)
  <2>1. \A d \in BinaryDependencies : /\ d[1] \in Engines /\ d[2] \in Engines /\ d[1] # d[2]
    BY EdgesAre
  <2>2. \A d \in BinaryDependencies : /\ d[2] = e => other[d[1]] = raw[d[1]]
                                      /\ d[1] = e => other[d[2]] = raw[d[2]]
    BY <2>1
  <2> QED BY <2>2 DEF BinaryM
<1> QED BY <1>3, <1>4 DEF MCoefficient

-----------------------------------------------------------------------------
(* Survival, the narrow place, and the priority index *)

LEMMA SurvivalIs ==
  ASSUME NEW raw \in RawScores
  PROVE  /\ SurvivalStatus(raw) \in 0..2
         /\ \A e \in Survival \cap Eligible : SurvivalFlag(raw[e]) <= SurvivalStatus(raw)
         /\ \/ SurvivalStatus(raw) = 0
            \/ \E e \in Survival \cap Eligible : SurvivalFlag(raw[e]) = SurvivalStatus(raw)
<1> DEFINE V == {SurvivalFlag(raw[e]) : e \in Survival \cap Eligible} \cup {0}
<1>1. V \subseteq 0..2 /\ 0 \in V
  BY DEF SurvivalFlag
<1>2. \E m \in V : \A n \in V : m >= n
  <2> HIDE DEF V
  <2>1. CASE 2 \in V
    BY <1>1, <2>1
  <2>2. CASE 2 \notin V /\ 1 \in V
    <3>1. \A n \in V : 1 >= n
      BY <1>1, <2>2
    <3> QED BY <2>2, <3>1
  <2>3. CASE 2 \notin V /\ 1 \notin V
    <3>1. \A n \in V : 0 >= n
      BY <1>1, <2>3
    <3> QED BY <1>1, <3>1
  <2> QED BY <2>1, <2>2, <2>3
<1>3. SurvivalStatus(raw) \in V /\ \A n \in V : SurvivalStatus(raw) >= n
  <2>1. SurvivalStatus(raw) = Max(V)
    BY DEF SurvivalStatus
  <2> HIDE DEF V
  <2> QED BY <1>2, <2>1 DEF Max
<1>4. SurvivalStatus(raw) \in 0..2
  BY <1>1, <1>3
<1>5. \A e \in Survival \cap Eligible : SurvivalFlag(raw[e]) \in V /\ SurvivalFlag(raw[e]) \in 0..2
  BY <1>1
<1>6. \A e \in Survival \cap Eligible : SurvivalFlag(raw[e]) <= SurvivalStatus(raw)
  <2> HIDE DEF V
  <2> QED BY <1>3, <1>4, <1>5
<1>7. \/ SurvivalStatus(raw) = 0
      \/ \E e \in Survival \cap Eligible : SurvivalFlag(raw[e]) = SurvivalStatus(raw)
  BY <1>3
<1> QED BY <1>4, <1>6, <1>7

Narrow(raw) == {i \in 1..8 : BindingFlowOrder[i] \in Eligible /\ IsWeak(raw[BindingFlowOrder[i]])}

LEMMA FlowIs ==
  /\ DOMAIN BindingFlowOrder = 1..8
  /\ \A i \in 1..8 : BindingFlowOrder[i] \in Engines /\ BindingFlowOrder[i] # 0
  /\ \A i, j \in 1..8 : BindingFlowOrder[i] = BindingFlowOrder[j] => i = j
BY DEF BindingFlowOrder, Engines

LEMMA BindingIs ==
  ASSUME NEW raw
  PROVE  IF Narrow(raw) = {} THEN BindingConstraint(raw) = 0
         ELSE \E i \in Narrow(raw) : /\ BindingConstraint(raw) = BindingFlowOrder[i]
                                    /\ \A j \in Narrow(raw) : i <= j
<1> DEFINE N == Narrow(raw)
<1>1. BindingConstraint(raw) = IF N = {} THEN 0 ELSE BindingFlowOrder[Min(N)]
  BY FlowIs DEF BindingConstraint, Narrow
<1>2. N \in SUBSET (1..8)
  BY DEF Narrow
<1>3. N # {} => Min(N) \in N /\ \A j \in N : Min(N) <= j
  <2>1. 8 \in Nat
    OBVIOUS
  <2> HIDE DEF N
  <2> QED BY <1>2, <2>1, SmallSets, LowestExists
<1> QED BY <1>1, <1>3

LEMMA PatternIs ==
  ASSUME NEW g, NEW e
  PROVE  PatternMultiplier(g, e) \in {4, 5}
BY DEF PatternMultiplier

LEMMA IndexType ==
  ASSUME NEW g \in Answers, NEW raw \in RawScores, NEW e \in Engines
  PROVE  PriorityIndex(g, raw, e) \in Nat
<1> DEFINE u == 15 - raw[e]
           w == StructuralWeight(e)
           m == MCoefficient(raw, e)
           p == PatternMultiplier(g, e)
           bonus == IF e = BindingConstraint(raw) THEN 600000 * u ELSE 0
<1>1. u \in Nat
  BY DEF RawScores
<1>2. w \in Nat /\ m \in Nat /\ p \in Nat
  BY ConstantsType, MType, PatternIs
<1>3. PriorityIndex(g, raw, e) = u * w * m * p + bonus
  BY DEF PriorityIndex
<1>4. bonus \in Nat
  BY <1>1
<1> HIDE DEF u, w, m, p, bonus
<1>5. u * w * m * p \in Nat
  BY <1>1, <1>2
<1> QED BY <1>3, <1>4, <1>5

-----------------------------------------------------------------------------
(* A better answer *)

LEMMA ProductFalls ==
  ASSUME NEW u \in Nat, NEW w \in Nat \ {0}, NEW m \in Nat \ {0},
         NEW p \in {4, 5}, NEW r \in {4, 5}, r <= p
  PROVE  u * w * m * r < (u + 1) * w * m * p
<1> DEFINE k == w * m
           x == u * k
<1>1. k \in Nat \ {0}
  OBVIOUS
<1>2. u * w * m * r = u * k * r /\ (u + 1) * w * m * p = (u + 1) * k * p
  OBVIOUS
<1> HIDE DEF k
<1>3. x \in Nat /\ (u + 1) * k = x + k
  BY <1>1
<1> HIDE DEF x
<1>4. x * r < (x + k) * p
  BY <1>1, <1>3
<1> QED BY <1>2, <1>3, <1>4 DEF x

\* One better answer, to question q of domain e.
Bettered(g, raw, e, q, better, other) ==
  /\ g \in Answers /\ raw \in RawScores /\ \A x \in Engines : raw[x] = Raw(g, x)
  /\ e \in Engines /\ q \in Asked[e] /\ g[e][q] < 3
  /\ better = [g EXCEPT ![e][q] = @ + 1]
  /\ other = [raw EXCEPT ![e] = @ + 1]

LEMMA AnswerHelps ==
  ASSUME NEW g, NEW raw, NEW e, NEW q, NEW better, NEW other, Bettered(g, raw, e, q, better, other)
  PROVE  /\ SurvivalStatus(other) <= SurvivalStatus(raw)
         /\ BindingConstraint(raw) = 0 => BindingConstraint(other) = 0
         /\ \A i, j \in DOMAIN BindingFlowOrder :
              i < j => ~(/\ BindingFlowOrder[i] = BindingConstraint(other)
                         /\ BindingFlowOrder[j] = BindingConstraint(raw))
         /\ (IsWeak(other[e]) <=> IsWeak(raw[e]))
              => PriorityIndex(better, other, e) < PriorityIndex(g, raw, e)
<1>0. /\ g \in Answers /\ raw \in RawScores /\ \A x \in Engines : raw[x] = Raw(g, x)
      /\ e \in Engines /\ q \in Asked[e] /\ g[e][q] < 3
      /\ better = [g EXCEPT ![e][q] = @ + 1]
      /\ other = [raw EXCEPT ![e] = @ + 1]
  BY DEF Bettered
<1>1. /\ other \in RawScores /\ other[e] = raw[e] + 1 /\ raw[e] < 15 /\ raw[e] \in 0..15
      /\ \A x \in Engines \ {e} : other[x] = raw[x]
  <2>1. raw[e] < 15 /\ raw[e] \in 0..15
    BY <1>0, RawType
  <2> QED BY <1>0, <2>1 DEF RawScores
<1>2. \A x \in Engines : raw[x] \in Nat /\ other[x] \in Nat /\ raw[x] <= other[x]
  <2> TAKE x \in Engines
  <2>1. CASE x = e
    BY <1>1, <2>1
  <2>2. CASE x # e
    BY <1>1, <2>2 DEF RawScores
  <2> QED BY <2>1, <2>2
<1>3. SurvivalStatus(other) <= SurvivalStatus(raw)
  <2>1. \A x \in Survival \cap Eligible : SurvivalFlag(other[x]) <= SurvivalFlag(raw[x])
    BY <1>2, EnginesAreFinite DEF SurvivalFlag
  <2>2. \A x : SurvivalFlag(raw[x]) \in 0..2 /\ SurvivalFlag(other[x]) \in 0..2
    BY DEF SurvivalFlag
  <2>3. SurvivalStatus(raw) \in 0..2 /\ SurvivalStatus(other) \in 0..2
    BY <1>0, <1>1, SurvivalIs
  <2>4. CASE SurvivalStatus(other) = 0
    BY <2>3, <2>4
  <2>5. CASE \E x \in Survival \cap Eligible : SurvivalFlag(other[x]) = SurvivalStatus(other)
    <3>1. PICK x \in Survival \cap Eligible : SurvivalFlag(other[x]) = SurvivalStatus(other)
      BY <2>5
    <3>2. SurvivalFlag(raw[x]) <= SurvivalStatus(raw)
      BY <1>0, SurvivalIs
    <3> QED BY <2>1, <2>2, <2>3, <3>1, <3>2
  <2> QED BY <1>1, <2>4, <2>5, SurvivalIs
<1>4. \A x \in Engines : IsWeak(other[x]) => IsWeak(raw[x])
  BY <1>2 DEF IsWeak
<1>5. Narrow(other) \subseteq Narrow(raw)
  BY <1>4, EnginesAreFinite DEF Narrow
<1>6. BindingConstraint(raw) = 0 => BindingConstraint(other) = 0
  <2>1. BindingConstraint(raw) = 0 => Narrow(raw) = {}
    BY BindingIs, FlowIs DEF Narrow
  <2> QED BY <1>5, <2>1, BindingIs
<1>7. \A i, j \in DOMAIN BindingFlowOrder :
        i < j => ~(/\ BindingFlowOrder[i] = BindingConstraint(other)
                   /\ BindingFlowOrder[j] = BindingConstraint(raw))
  <2>1. SUFFICES ASSUME NEW i \in 1..8, NEW j \in 1..8, i < j,
                        BindingFlowOrder[i] = BindingConstraint(other),
                        BindingFlowOrder[j] = BindingConstraint(raw)
                 PROVE  FALSE
    BY FlowIs
  <2>2. i \in Narrow(other)
    BY <2>1, BindingIs, FlowIs DEF Narrow
  <2>3. \A k \in Narrow(raw) : j <= k
    <3>1. Narrow(raw) # {} /\ Narrow(raw) \subseteq 1..8
      BY <1>5, <2>2 DEF Narrow
    <3>2. PICK m \in Narrow(raw) : /\ BindingConstraint(raw) = BindingFlowOrder[m]
                                  /\ \A k \in Narrow(raw) : m <= k
      BY <3>1, BindingIs
    <3>3. m = j
      BY <2>1, <3>1, <3>2, FlowIs
    <3> QED BY <3>2, <3>3
  <2> QED BY <1>5, <2>1, <2>2, <2>3
<1>8. ASSUME IsWeak(other[e]) <=> IsWeak(raw[e])
      PROVE  PriorityIndex(better, other, e) < PriorityIndex(g, raw, e)
  <2> DEFINE u == 15 - other[e]
             w == StructuralWeight(e)
             m == MCoefficient(raw, e)
             p == PatternMultiplier(g, e)
             r == PatternMultiplier(better, e)
             low == IF e = BindingConstraint(raw) THEN 600000 * u ELSE 0
             high == IF e = BindingConstraint(raw) THEN 600000 * (u + 1) ELSE 0
  <2>1. u \in Nat /\ 15 - raw[e] = u + 1
    BY <1>1
  <2>2. w \in Nat \ {0} /\ m \in Nat \ {0} /\ p \in {4, 5} /\ r \in {4, 5}
    BY <1>0, ConstantsType, MType, PatternIs
  <2>3. r <= p
    <3>1. ASSUME Pervasive(better, e) PROVE Pervasive(g, e)
      <4>1. \A k \in 1..5 : Slot(g, e, k) \in Nat /\ Slot(better, e, k) \in Nat
                            /\ Slot(g, e, k) <= Slot(better, e, k)
        BY <1>0, EnginesAreFinite DEF Slot, Answers
      <4> QED BY <3>1, <4>1 DEF Pervasive
    <3> QED BY <3>1 DEF PatternMultiplier
  <2>4. MCoefficient(other, e) = m
    BY <1>0, <1>1, <1>8, MUnchanged
  <2>5. BindingConstraint(other) = BindingConstraint(raw)
    <3>1. Narrow(other) = Narrow(raw)
      BY <1>1, <1>8, FlowIs DEF Narrow
    <3>2. DOMAIN BindingFlowOrder = 1..8
      BY FlowIs
    <3> QED BY <3>1, <3>2 DEF BindingConstraint, Narrow
  <2>6. PriorityIndex(better, other, e) = u * w * m * r + low
    BY <2>4, <2>5 DEF PriorityIndex
  <2>7. PriorityIndex(g, raw, e) = (u + 1) * w * m * p + high
    BY <2>1 DEF PriorityIndex
  <2>8. low \in Nat /\ high \in Nat /\ low <= high
    BY <2>1
  <2> HIDE DEF u, w, m, p, r, low, high
  <2>9. u * w * m * r < (u + 1) * w * m * p
    BY <2>1, <2>2, <2>3, ProductFalls
  <2> DEFINE x == u * w * m * r
             y == (u + 1) * w * m * p
  <2>10. x \in Nat /\ y \in Nat
    BY <2>1, <2>2
  <2> HIDE DEF x, y
  <2>11. x + low < y + high
    BY <2>8, <2>9, <2>10 DEF x, y
  <2> QED BY <2>6, <2>7, <2>11 DEF x, y
<1> QED BY <1>3, <1>6, <1>7, <1>8

-----------------------------------------------------------------------------
(* The ladder *)

LEMMA AlertsAre ==
  ASSUME NEW g, NEW e \in Engines
  PROVE  /\ GateAlerts(g, e) \subseteq Asked[e] /\ IsFiniteSet(GateAlerts(g, e))
         /\ Cardinality(GateAlerts(g, e)) \in Nat
<1>1. GateAlerts(g, e) \subseteq Asked[e]
  BY DEF GateAlerts
<1> QED BY <1>1, EnginesAreFinite, FS_Subset, FS_CardinalityType

LEMMA TierIs ==
  ASSUME NEW g, NEW raw, NEW e
  PROVE  /\ Tier(g, raw, e) \in 0..2
         /\ Tier(g, raw, e) = 0 <=> e \in Survival /\ SurvivalFlag(raw[e]) = 2
         /\ Tier(g, raw, e) = 1 => GateAlerts(g, e) # {}
         /\ Tier(g, raw, e) = 2 => GateAlerts(g, e) = {}
BY DEF Tier

\* The order of the ladder in numbers: tier t, score s, alerts a, index p, responsibility r.
Rung(t, s, a, p, r, x, y) ==
  LET lower == s[x] < s[y] \/ (s[x] = s[y] /\ x < y)
  IN \/ t[x] < t[y]
     \/ t[x] = 0 /\ t[y] = 0 /\ lower
     \/ t[x] = 1 /\ t[y] = 1 /\ (a[x] > a[y] \/ (a[x] = a[y] /\ lower))
     \/ /\ t[x] = 2 /\ t[y] = 2
        /\ p[x] > p[y] \/ (p[x] = p[y] /\ (r[x] > r[y] \/ (r[x] = r[y] /\ x < y)))

LEMMA RungIsTotal ==
  ASSUME NEW S \in SUBSET Nat, NEW t \in [S -> 0..2], NEW s \in [S -> Nat], NEW a \in [S -> Nat],
         NEW p \in [S -> Nat], NEW r \in [S -> Nat]
  PROVE  /\ \A x, y \in S : x # y => Rung(t, s, a, p, r, x, y) \/ Rung(t, s, a, p, r, y, x)
         /\ \A x, y, z \in S : Rung(t, s, a, p, r, x, y) /\ Rung(t, s, a, p, r, y, z)
                              => Rung(t, s, a, p, r, x, z)
<1>1. \A x \in S : x \in Nat /\ t[x] \in 0..2 /\ s[x] \in Nat /\ a[x] \in Nat /\ p[x] \in Nat /\ r[x] \in Nat
  OBVIOUS
<1>2. \A x, y \in S : x # y => Rung(t, s, a, p, r, x, y) \/ Rung(t, s, a, p, r, y, x)
  BY <1>1 DEF Rung
<1>3. \A x, y, z \in S : Rung(t, s, a, p, r, x, y) /\ Rung(t, s, a, p, r, y, z)
                         => Rung(t, s, a, p, r, x, z)
  BY <1>1 DEF Rung
<1> QED BY <1>2, <1>3

LEMMA PrimaryIsFirst ==
  ASSUME NEW g \in Answers, NEW raw \in RawScores, NEW pi \in [Engines -> Nat]
  PROVE  LET primary == PrimaryIssue(g, raw, pi)
         IN  IF Eligible = {} THEN primary = 0
             ELSE /\ primary \in Eligible
                  /\ \A y \in Eligible \ {primary} : LadderBefore(g, raw, pi, primary, y)
<1> DEFINE S == Eligible
           t == [e \in S |-> Tier(g, raw, e)]
           s == [e \in S |-> raw[e]]
           a == [e \in S |-> Cardinality(GateAlerts(g, e))]
           p == [e \in S |-> pi[e]]
           r == [e \in S |-> DomainConstants[e].R]
           B == {w \in S \X S : Rung(t, s, a, p, r, w[1], w[2])}
<1>1. /\ S \in SUBSET Nat /\ IsFiniteSet(S) /\ t \in [S -> 0..2] /\ s \in [S -> Nat]
      /\ a \in [S -> Nat] /\ p \in [S -> Nat] /\ r \in [S -> Nat]
  <2>1. \A e \in S : /\ e \in Engines /\ Tier(g, raw, e) \in 0..2 /\ raw[e] \in Nat
                     /\ Cardinality(GateAlerts(g, e)) \in Nat /\ pi[e] \in Nat
                     /\ DomainConstants[e].R \in Nat
    <3> TAKE e \in S
    <3>1. e \in Engines
      BY EnginesAreFinite
    <3>2. Tier(g, raw, e) \in 0..2
      BY TierIs
    <3>3. Cardinality(GateAlerts(g, e)) \in Nat
      BY <3>1, AlertsAre
    <3>4. raw[e] \in Nat /\ pi[e] \in Nat
      BY <3>1, RawIsNat
    <3>5. DomainConstants[e].R \in Nat
      <4>1. DomainConstants[e].R \in 1..3
        BY <3>1, ConstantsType
      <4> QED BY <4>1
    <3> QED BY <3>1, <3>2, <3>3, <3>4, <3>5
  <2> QED BY <2>1, EnginesAreFinite
<1>2. \A x, y \in S : LadderBefore(g, raw, pi, x, y) <=> Rung(t, s, a, p, r, x, y)
  <2> TAKE x, y \in S
  <2>1. /\ t[x] = Tier(g, raw, x) /\ t[y] = Tier(g, raw, y) /\ t[x] \in 0..2 /\ t[y] \in 0..2
        /\ s[x] = raw[x] /\ s[y] = raw[y] /\ p[x] = pi[x] /\ p[y] = pi[y]
        /\ a[x] = Cardinality(GateAlerts(g, x)) /\ a[y] = Cardinality(GateAlerts(g, y))
        /\ r[x] = DomainConstants[x].R /\ r[y] = DomainConstants[y].R
    BY <1>1
  <2> HIDE DEF t, s, a, p, r
  <2> QED BY <2>1 DEF LadderBefore, Rung, Higher
<1>3. \A x, y \in S : <<x, y>> \in B <=> Rung(t, s, a, p, r, x, y)
  OBVIOUS
<1>4. PrimaryIssue(g, raw, pi) =
        IF S = {} THEN 0 ELSE CHOOSE x \in S : \A y \in S \ {x} : LadderBefore(g, raw, pi, x, y)
  BY Zenon DEF PrimaryIssue, First
<1> HIDE DEF S, t, s, a, p, r, B
<1>5. Orders(B, S)
  <2>1. /\ \A x, y \in S : x # y => Rung(t, s, a, p, r, x, y) \/ Rung(t, s, a, p, r, y, x)
        /\ \A x, y, z \in S : Rung(t, s, a, p, r, x, y) /\ Rung(t, s, a, p, r, y, z)
                             => Rung(t, s, a, p, r, x, z)
    BY <1>1, RungIsTotal
  <2> QED BY <1>3, <2>1 DEF Orders
<1>6. S # {} => \E x \in S : \A y \in S \ {x} : <<x, y>> \in B
  BY <1>1, <1>5, FirstExists
<1>7. S # {} => \E x \in S : \A y \in S \ {x} : LadderBefore(g, raw, pi, x, y)
  BY <1>2, <1>3, <1>6
<1> QED BY <1>4, <1>7 DEF S

\* Nothing goes before a red survival domain, and then before a failed gate.
LEMMA SurvivalComesFirst ==
  ASSUME NEW g \in Answers, NEW raw \in RawScores, NEW pi \in [Engines -> Nat]
  PROVE  LET primary == PrimaryIssue(g, raw, pi)
         IN  IF SurvivalStatus(raw) = 2
             THEN /\ primary \in Survival
                  /\ \A e \in Survival \cap Eligible : raw[primary] <= raw[e]
             ELSE (\E e \in Eligible : GateAlerts(g, e) # {}) => GateAlerts(g, primary) # {}
<1> DEFINE p == PrimaryIssue(g, raw, pi)
           red(e) == e \in Survival /\ SurvivalFlag(raw[e]) = 2
<1>1. Eligible # {} => p \in Eligible /\ \A y \in Eligible \ {p} : LadderBefore(g, raw, pi, p, y)
  BY PrimaryIsFirst
<1> HIDE DEF p
<1>2. \A y \in Eligible :
        /\ Tier(g, raw, p) <= Tier(g, raw, y)
        /\ Tier(g, raw, p) = 0 /\ Tier(g, raw, y) = 0 => raw[p] <= raw[y]
  <2> TAKE y \in Eligible
  <2>1. Tier(g, raw, p) \in 0..2 /\ Tier(g, raw, y) \in 0..2
    BY TierIs
  <2>2. p \in Eligible /\ raw[p] \in Nat /\ raw[y] \in Nat
    BY <1>1, EnginesAreFinite, RawIsNat
  <2>3. CASE y = p
    BY <2>1, <2>2, <2>3
  <2>4. CASE y # p
    <3>1. LadderBefore(g, raw, pi, p, y)
      BY <1>1, <2>4
    <3> QED BY <2>1, <2>2, <3>1 DEF LadderBefore
  <2> QED BY <2>3, <2>4
<1>3. CASE SurvivalStatus(raw) = 2
  <2>1. PICK e \in Survival \cap Eligible : SurvivalFlag(raw[e]) = 2
    BY <1>3, SurvivalIs
  <2>2. Tier(g, raw, e) = 0
    BY <2>1, TierIs
  <2>3. Tier(g, raw, p) = 0 /\ p \in Survival /\ SurvivalFlag(raw[p]) = 2
    BY <1>2, <2>1, <2>2, TierIs
  <2>4. \A f \in Survival \cap Eligible : raw[p] <= raw[f]
    <3> TAKE f \in Survival \cap Eligible
    <3>1. p \in Eligible /\ raw[p] \in Nat /\ raw[f] \in Nat
      BY <1>1, EnginesAreFinite, RawIsNat
    <3>2. CASE SurvivalFlag(raw[f]) = 2
      BY <1>2, <2>3, <3>2, TierIs
    <3>3. CASE SurvivalFlag(raw[f]) # 2
      BY <2>3, <3>1, <3>3 DEF SurvivalFlag
    <3> QED BY <3>2, <3>3
  <2> QED BY <1>3, <2>3, <2>4 DEF p
<1>4. CASE SurvivalStatus(raw) # 2
  <2>1. \A e \in Survival \cap Eligible : SurvivalFlag(raw[e]) # 2
    BY <1>4, SurvivalIs
  <2>2. ASSUME NEW e \in Eligible, GateAlerts(g, e) # {}
        PROVE  GateAlerts(g, p) # {}
    <3>1. p \in Eligible /\ Tier(g, raw, p) # 0
      BY <1>1, <2>1, TierIs
    <3>2. Tier(g, raw, e) \in 0..2 /\ Tier(g, raw, e) # 2
      BY <2>2, TierIs
    <3>3. Tier(g, raw, p) <= Tier(g, raw, e)
      BY <1>2
    <3> QED BY <3>1, <3>2, <3>3, TierIs
  <2> QED BY <1>4, <2>2 DEF p
<1> QED BY <1>3, <1>4

-----------------------------------------------------------------------------
(* The other choices *)

LEMMA DomainsAre ==
  ASSUME NEW S \in SUBSET Eligible
  PROVE  S \in SUBSET Nat /\ IsFiniteSet(S)
<1>1. S \subseteq Engines /\ S \subseteq Nat /\ S \subseteq Eligible
  BY EnginesAreFinite
<1> QED BY <1>1, EnginesAreFinite, FS_Subset

LEMMA RootsAre ==
  ASSUME NEW raw \in RawScores, NEW primary
  PROVE  LET roots == StructuralRoots(raw, primary)
             C == RootCandidates(raw, primary)
         IN  /\ IF C = {} THEN roots[1] = 0 ELSE roots[1] \in C
             /\ IF C \ {roots[1]} = {} THEN roots[2] = 0 ELSE roots[2] \in C \ {roots[1]}
<1> DEFINE score == [e \in Engines |-> (15 - raw[e]) * DomainConstants[e].U * DomainConstants[e].kT]
           C == RootCandidates(raw, primary)
           Best(S) == IF S = {} THEN 0
                      ELSE CHOOSE x \in S : \A y \in S \ {x} : Higher(x, y, score, x < y)
<1>1. StructuralRoots(raw, primary) = <<Best(C), Best(C \ {Best(C)})>>
  BY Zenon DEF StructuralRoots, First
<1>2. \A e \in Engines : score[e] \in Nat
  <2> TAKE e \in Engines
  <2> DEFINE u == 15 - raw[e]
             v == DomainConstants[e].U
             k == DomainConstants[e].kT
  <2>1. v \in 1..3 /\ k \in 7..16
    BY ConstantsType
  <2>2. u \in Nat /\ v \in Nat /\ k \in Nat
    BY <2>1, RawIsNat
  <2>3. score[e] = u * v * k
    OBVIOUS
  <2> HIDE DEF u, v, k, score
  <2> QED BY <2>2, <2>3
<1>3. C \in SUBSET Eligible
  BY DEF RootCandidates
<1> HIDE DEF score, C
<1>4. ASSUME NEW S \in SUBSET Eligible, S # {}
      PROVE  Best(S) \in S
  <2>1. S \in SUBSET Nat /\ IsFiniteSet(S) /\ \A x \in S : score[x] \in Nat
    BY <1>2, DomainsAre, EnginesAreFinite
  <2>2. \E x \in S : \A y \in S \ {x} : Higher(x, y, score, x < y)
    BY <1>4, <2>1, HigherNumber
  <2> QED BY <1>4, <2>2
<1>5. \A S : S = {} => Best(S) = 0
  OBVIOUS
<1> HIDE DEF Best
<1>6. StructuralRoots(raw, primary)[1] = Best(C) /\ StructuralRoots(raw, primary)[2] = Best(C \ {Best(C)})
  BY <1>1
<1>7. C \ {Best(C)} \in SUBSET Eligible
  BY <1>3
<1> QED BY <1>3, <1>4, <1>5, <1>6, <1>7 DEF C

LEMMA QuickWinIs ==
  ASSUME NEW raw \in RawScores, NEW primary, NEW roots, NEW binding
  PROVE  QuickWin(raw, primary, roots, binding) \in Eligible \cup {0}
<1> DEFINE chosen == <<primary, roots[1], roots[2], binding>>
           score == [e \in Engines |-> (15 - raw[e]) * DomainConstants[e].Q]
           at(e) == {i \in 1..4 : chosen[i] = e}
           quick == {e \in Eligible : raw[e] <= 9 /\ DomainConstants[e].Q = 3}
           candidates == {chosen[i] : i \in 1..4} \cap Eligible
           place == [e \in candidates |-> Min(at(e))]
<1>1. QuickWin(raw, primary, roots, binding) =
        IF candidates # {}
        THEN CHOOSE x \in candidates :
               \A y \in candidates \ {x} : Higher(x, y, score, Min(at(x)) < Min(at(y)))
        ELSE IF quick = {} THEN 0
             ELSE CHOOSE x \in quick : \A y \in quick \ {x} : Higher(x, y, score, x < y)
  <2>1. QuickWin(raw, primary, roots, binding) =
          IF candidates # {}
          THEN First(candidates, LAMBDA x, y : Higher(x, y, score, Min(at(x)) < Min(at(y))))
          ELSE First(quick, LAMBDA x, y : Higher(x, y, score, x < y))
    BY ZenonT(30) DEF QuickWin
  <2>2. First(quick, LAMBDA x, y : Higher(x, y, score, x < y)) =
          IF quick = {} THEN 0
          ELSE CHOOSE x \in quick : \A y \in quick \ {x} : Higher(x, y, score, x < y)
    BY Zenon DEF First
  <2>3. candidates # {} => 
          First(candidates, LAMBDA x, y : Higher(x, y, score, Min(at(x)) < Min(at(y)))) =
          CHOOSE x \in candidates :
               \A y \in candidates \ {x} : Higher(x, y, score, Min(at(x)) < Min(at(y)))
    BY Zenon DEF First
  <2> HIDE DEF candidates, quick, score, at
  <2> QED BY <2>1, <2>2, <2>3
<1>2. \A e \in Engines : score[e] \in Nat
  <2> TAKE e \in Engines
  <2> DEFINE u == 15 - raw[e]
             k == DomainConstants[e].Q
  <2>1. k \in 1..3
    BY ConstantsType
  <2>2. u \in Nat /\ k \in Nat
    BY <2>1, RawIsNat
  <2>3. score[e] = u * k
    OBVIOUS
  <2> HIDE DEF u, k, score
  <2> QED BY <2>2, <2>3
<1>3. candidates \in SUBSET Eligible /\ quick \in SUBSET Eligible
  OBVIOUS
<1>4. \A e \in candidates : place[e] \in 1..4 /\ chosen[place[e]] = e
  <2> TAKE e \in candidates
  <2> DEFINE A == at(e)
  <2>1. A # {} /\ A \subseteq 1..4
    OBVIOUS
  <2>2. place[e] = Min(A)
    OBVIOUS
  <2>3. \A i \in A : chosen[i] = e
    OBVIOUS
  <2> HIDE DEF A, place
  <2>4. Min(A) \in A
    <3>1. 4 \in Nat
      OBVIOUS
    <3> QED BY <2>1, <3>1, SmallSets, LowestExists
  <2> QED BY <2>1, <2>2, <2>3, <2>4
<1>5. \A x \in candidates : place[x] = Min(at(x))
  OBVIOUS
<1> HIDE DEF candidates, score, quick, at, place, chosen
<1>6. CASE candidates # {}
  <2>1. IsFiniteSet(candidates) /\ \A x \in candidates : score[x] \in Nat /\ place[x] \in Nat
    BY <1>2, <1>3, <1>4, DomainsAre, EnginesAreFinite
  <2>2. \A x, y \in candidates : place[x] = place[y] => x = y
    BY <1>4
  <2>3. \E x \in candidates : \A y \in candidates \ {x} : Higher(x, y, score, place[x] < place[y])
    BY <1>6, <2>1, <2>2, HigherFirst
  <2>4. \E x \in candidates :
          \A y \in candidates \ {x} : Higher(x, y, score, Min(at(x)) < Min(at(y)))
    BY <1>5, <2>3
  <2> QED BY <1>1, <1>3, <1>6, <2>4
<1>7. CASE candidates = {} /\ quick # {}
  <2>1. quick \in SUBSET Nat /\ IsFiniteSet(quick) /\ \A x \in quick : score[x] \in Nat
    BY <1>2, <1>3, DomainsAre, EnginesAreFinite
  <2>2. \E x \in quick : \A y \in quick \ {x} : Higher(x, y, score, x < y)
    BY <1>7, <2>1, HigherNumber
  <2> QED BY <1>1, <1>3, <1>7, <2>2
<1>8. CASE candidates = {} /\ quick = {}
  BY <1>1, <1>8
<1> QED BY <1>6, <1>7, <1>8

-----------------------------------------------------------------------------
(* The questions named for a choice *)

\* The question that is answered worst; none: nothing is asked.
Worst(g, e, S) ==
  LET q == IF S = {} THEN 0
           ELSE CHOOSE x \in S : \A y \in S \ {x} :
                  g[e][x] < g[e][y] \/ (g[e][x] = g[e][y] /\ x < y)
  IN IF q = 0 THEN {} ELSE {q}

LEMMA WorstIs ==
  ASSUME NEW g \in Answers, NEW e \in Engines, NEW S \in SUBSET Asked[e]
  PROVE  IF S = {} THEN Worst(g, e, S) = {} ELSE \E q \in S : Worst(g, e, S) = {q}
<1> DEFINE good == [q \in S |-> 3 - g[e][q]]
<1>1. S \in SUBSET Nat /\ IsFiniteSet(S) /\ 0 \notin S
  <2>1. S \subseteq 1..5 /\ S \subseteq Asked[e] /\ IsFiniteSet(Asked[e])
    BY EnginesAreFinite
  <2>2. IsFiniteSet(S)
    BY <2>1, FS_Subset
  <2> QED BY <2>1, <2>2
<1>2. \A q \in S : g[e][q] \in Nat /\ good[q] \in Nat /\ good[q] = 3 - g[e][q]
  <2> TAKE q \in S
  <2>1. q \in 1..5
    BY EnginesAreFinite
  <2>2. g[e][q] \in 0..3
    BY <2>1 DEF Answers
  <2> QED BY <2>2
<1> HIDE DEF good
<1>3. ASSUME S # {}
      PROVE  \E x \in S : \A y \in S \ {x} : g[e][x] < g[e][y] \/ (g[e][x] = g[e][y] /\ x < y)
  <2>1. PICK x \in S : \A y \in S \ {x} : Higher(x, y, good, x < y)
    BY <1>1, <1>2, <1>3, HigherNumber
  <2>2. \A y \in S \ {x} : g[e][x] < g[e][y] \/ (g[e][x] = g[e][y] /\ x < y)
    BY <1>2, <2>1 DEF Higher
  <2> QED BY <2>2
<1> QED BY <1>1, <1>3 DEF Worst

LEMMA TwoAtMost ==
  ASSUME NEW W, IsFiniteSet(W), NEW named,
         \/ W = {} /\ named = {}
         \/ \E q \in W : W \ {q} = {} /\ named = {q}
         \/ \E q, r \in W : q # r /\ named = {q, r}
  PROVE  named \subseteq W /\ Cardinality(named) = Min({2, Cardinality(W)})
<1>1. Cardinality(W) \in Nat /\ 2 \in Nat
  BY FS_CardinalityType
<1>2. CASE W = {} /\ named = {}
  <2>1. Cardinality(W) = 0 /\ Cardinality(named) = 0
    BY <1>2, FS_EmptySet
  <2>2. Min({2, Cardinality(W)}) = 0
    BY <1>1, <2>1, MinOfTwo
  <2> QED BY <1>2, <2>1, <2>2
<1>3. CASE \E q \in W : W \ {q} = {} /\ named = {q}
  <2>1. PICK q \in W : W \ {q} = {} /\ named = {q}
    BY <1>3
  <2>2. W = {q}
    BY <2>1
  <2>3. Cardinality(W) = 1 /\ Cardinality(named) = 1
    BY <2>1, <2>2, FS_Singleton
  <2>4. Min({2, Cardinality(W)}) = 1
    BY <1>1, <2>3, MinOfTwo
  <2> QED BY <2>1, <2>3, <2>4
<1>4. CASE \E q, r \in W : q # r /\ named = {q, r}
  <2>1. PICK q \in W, r \in W : q # r /\ named = {q, r}
    BY <1>4
  <2>2. named = {q} \cup {r} /\ r \notin {q} /\ named \in SUBSET W
    BY <2>1
  <2>3. Cardinality(named) = 2
    <3>1. IsFiniteSet({q}) /\ Cardinality({q}) = 1
      BY FS_Singleton
    <3>2. Cardinality({q} \cup {r}) = 1 + 1
      BY <2>2, <3>1, FS_AddElement, Zenon
    <3> QED BY <2>2, <3>2
  <2>4. 2 <= Cardinality(W)
    BY <2>2, <2>3, FS_Subset
  <2>5. Min({2, Cardinality(W)}) = 2
    BY <1>1, <2>4, MinOfTwo
  <2> QED BY <2>2, <2>3, <2>5
<1> QED BY <1>2, <1>3, <1>4

LEMMA QuestionsExplain ==
  ASSUME NEW g \in Answers, NEW e \in Engines, NEW named \in IssueRootQuestions(g, e)
  PROVE  /\ named \subseteq WeakQuestions(g, e)
         /\ Cardinality(named) = Min({2, Cardinality(WeakQuestions(g, e))})
         /\ GateAlerts(g, e) # {} => named \cap GateAlerts(g, e) # {}
<1> DEFINE W == WeakQuestions(g, e)
           G == GateAlerts(g, e)
<1>1. IssueRootQuestions(g, e) =
        IF G # {} THEN {{q} \cup Worst(g, e, W \ {q}) : q \in G}
        ELSE {Worst(g, e, W) \cup Worst(g, e, W \ Worst(g, e, W))}
  BY Zenon DEF IssueRootQuestions, First, Worst
<1>2. W \in SUBSET Asked[e] /\ G \subseteq W
  BY DEF WeakQuestions, GateAlerts
<1>3. IsFiniteSet(W)
  BY <1>2, EnginesAreFinite, FS_Subset
<1> HIDE DEF W, G
<1>4. CASE G # {}
  <2>1. PICK q \in G : named = {q} \cup Worst(g, e, W \ {q})
    BY <1>1, <1>4
  <2>2. q \in W /\ W \ {q} \in SUBSET Asked[e]
    BY <1>2, <2>1
  <2>3. IF W \ {q} = {} THEN Worst(g, e, W \ {q}) = {}
        ELSE \E r \in W \ {q} : Worst(g, e, W \ {q}) = {r}
    BY <2>2, WorstIs
  <2>4. \/ \E x \in W : W \ {x} = {} /\ named = {x}
        \/ \E x, r \in W : x # r /\ named = {x, r}
    BY <2>1, <2>2, <2>3
  <2>5. named \subseteq W /\ Cardinality(named) = Min({2, Cardinality(W)})
    BY <1>3, <2>4, TwoAtMost
  <2>6. q \in named \cap G
    BY <2>1
  <2> QED BY <2>5, <2>6 DEF W, G
<1>5. CASE G = {}
  <2>1. named = Worst(g, e, W) \cup Worst(g, e, W \ Worst(g, e, W))
    BY <1>1, <1>5
  <2>2. IF W = {} THEN Worst(g, e, W) = {} ELSE \E q \in W : Worst(g, e, W) = {q}
    BY <1>2, WorstIs
  <2> DEFINE V == W \ Worst(g, e, W)
  <2>3. V \in SUBSET Asked[e]
    BY <1>2
  <2>4. IF V = {} THEN Worst(g, e, V) = {} ELSE \E r \in V : Worst(g, e, V) = {r}
    <3> HIDE DEF V
    <3> QED BY <2>3, WorstIs
  <2>5. \/ W = {} /\ named = {}
        \/ \E x \in W : W \ {x} = {} /\ named = {x}
        \/ \E x, r \in W : x # r /\ named = {x, r}
    BY <2>1, <2>2, <2>4
  <2>6. named \subseteq W /\ Cardinality(named) = Min({2, Cardinality(W)})
    BY <1>3, <2>5, TwoAtMost
  <2> QED BY <1>5, <2>6 DEF W, G
<1> QED BY <1>4, <1>5

-----------------------------------------------------------------------------
(* The stored lists *)

Members(s) == {s[i] : i \in DOMAIN s}

\* Domains, none twice, three at most.
Listed(s) == s \in Seq(Eligible) /\ Len(s) = Cardinality(Members(s)) /\ Len(s) <= 3

Extends(s, t) == Len(t) <= Len(s) /\ \A i \in 1..Len(t) : s[i] = t[i]

LEMMA MembersAre ==
  ASSUME NEW s, Listed(s)
  PROVE  Members(s) \subseteq Eligible /\ IsFiniteSet(Members(s)) /\ Len(s) \in Nat
<1>1. s \in Seq(Eligible)
  BY DEF Listed
<1>2. Members(s) \subseteq Eligible /\ Len(s) \in Nat
  BY <1>1 DEF Members
<1> QED BY <1>2, EnginesAreFinite, FS_Subset

LEMMA AddedIs ==
  ASSUME NEW s, Listed(s), Len(s) < 3, NEW e \in Eligible \cup {0}
  PROVE  /\ Listed(Added(s, e)) /\ Extends(Added(s, e), s)
         /\ IF e = 0 \/ e \in Members(s) THEN Added(s, e) = s
            ELSE Len(Added(s, e)) = Len(s) + 1 /\ Added(s, e)[Len(s) + 1] = e
<1>1. s \in Seq(Eligible) /\ Len(s) \in Nat /\ DOMAIN s = 1..Len(s)
  BY DEF Listed
<1>2. CASE e = 0 \/ e \in Members(s)
  <2>1. Added(s, e) = s
    BY <1>2 DEF Added, Members
  <2>2. Extends(s, s)
    BY <1>1 DEF Extends
  <2> QED BY <1>2, <2>1, <2>2
<1>3. CASE ~(e = 0 \/ e \in Members(s))
  <2> DEFINE t == Append(s, e)
  <2>1. Added(s, e) = t
    BY <1>3 DEF Added, Members
  <2>2. e \in Eligible
    BY <1>3
  <2>3. /\ t \in Seq(Eligible) /\ Len(t) = Len(s) + 1 /\ DOMAIN t = 1..(Len(s) + 1)
        /\ t[Len(s) + 1] = e /\ \A i \in 1..Len(s) : t[i] = s[i]
    BY <1>1, <2>2
  <2> HIDE DEF t
  <2>4. Members(t) = Members(s) \cup {e}
    BY <1>1, <2>3 DEF Members
  <2>5. Cardinality(Members(t)) = Cardinality(Members(s)) + 1
    BY <1>3, <2>4, MembersAre, FS_AddElement
  <2>6. Listed(t)
    BY <1>1, <2>3, <2>5 DEF Listed
  <2>7. Extends(t, s)
    BY <1>1, <2>3 DEF Extends
  <2> QED BY <1>3, <2>1, <2>3, <2>6, <2>7
<1> QED BY <1>2, <1>3

LEMMA FilledUpIs ==
  ASSUME NEW pi \in [Engines -> Nat], NEW s, Listed(s)
  PROVE  LET t == FilledUp(pi, s)
         IN  Listed(t) /\ Extends(t, s) /\ (Len(t) = 3 \/ Members(t) = Eligible)
<1> DEFINE rounded == RoundedIndex(pi)
           left(u) == Eligible \ {u[i] : i \in DOMAIN u}
           best(u) == IF left(u) = {} THEN 0
                      ELSE CHOOSE x \in left(u) : \A y \in left(u) \ {x} : Higher(x, y, rounded, x < y)
           filled(u) == IF Len(u) < 3 THEN Added(u, best(u)) ELSE u
           Full(u) == Len(u) = 3 \/ Members(u) = Eligible
<1>1. FilledUp(pi, s) = filled(filled(filled(s)))
  BY Zenon DEF FilledUp, First
<1>2. \A e \in Engines : rounded[e] \in Nat
  BY DEF RoundedIndex
<1>3. \A u : left(u) = Eligible \ Members(u)
  BY DEF Members
<1> HIDE DEF rounded, left
<1>4. \A u : IF Eligible \ Members(u) = {} THEN best(u) = 0 ELSE best(u) \in Eligible \ Members(u)
  <2> TAKE u
  <2> DEFINE L == left(u)
  <2>1. L \in SUBSET Eligible /\ L = Eligible \ Members(u)
    BY <1>3
  <2>2. best(u) = IF L = {} THEN 0
                  ELSE CHOOSE x \in L : \A y \in L \ {x} : Higher(x, y, rounded, x < y)
    OBVIOUS
  <2> HIDE DEF L, best
  <2>3. ASSUME L # {} PROVE best(u) \in L
    <3>1. L \in SUBSET Nat /\ IsFiniteSet(L) /\ \A x \in L : rounded[x] \in Nat
      BY <1>2, <2>1, DomainsAre, EnginesAreFinite
    <3>2. \E x \in L : \A y \in L \ {x} : Higher(x, y, rounded, x < y)
      BY <2>3, <3>1, HigherNumber
    <3> QED BY <2>2, <2>3, <3>2
  <2> QED BY <2>1, <2>2, <2>3
<1> HIDE DEF best
<1>5. ASSUME NEW u, Listed(u)
      PROVE  /\ Listed(filled(u)) /\ Extends(filled(u), u)
             /\ Full(u) => filled(u) = u
             /\ ~Full(u) => Len(filled(u)) = Len(u) + 1
  <2>1. Len(u) \in Nat /\ Len(u) <= 3 /\ Members(u) \subseteq Eligible
    BY <1>5, MembersAre DEF Listed
  <2> DEFINE n == Len(u)
  <2>2. n \in Nat /\ n <= 3
    BY <2>1
  <2> HIDE DEF n
  <2>3. (n = 3 \/ n < 3) /\ ~(n = 3 /\ n < 3) /\ n <= n
    BY <2>2
  <2> USE DEF n
  <2>4. CASE Len(u) = 3
    <3>1. filled(u) = u
      BY <2>3, <2>4
    <3>2. Extends(u, u)
      BY <2>3 DEF Extends
    <3> QED BY <1>5, <2>4, <3>1, <3>2
  <2>5. CASE Len(u) < 3
    <3>1. filled(u) = Added(u, best(u)) /\ Len(u) # 3
      BY <2>3, <2>5
    <3>2. best(u) \in Eligible \cup {0} /\ 0 \notin Eligible
      BY <1>4, EnginesAreFinite
    <3>3. Full(u) <=> best(u) = 0
      BY <1>4, <2>1, <3>1, <3>2
    <3>4. best(u) \notin Members(u)
      BY <1>4, <2>1, <3>2
    <3>5. /\ Listed(Added(u, best(u))) /\ Extends(Added(u, best(u)), u)
          /\ IF best(u) = 0 \/ best(u) \in Members(u) THEN Added(u, best(u)) = u
             ELSE Len(Added(u, best(u))) = Len(u) + 1
      BY <1>5, <2>5, <3>2, AddedIs
    <3> HIDE DEF filled, Full
    <3> QED BY <3>1, <3>3, <3>4, <3>5
  <2> QED BY <2>3, <2>4, <2>5
<1> DEFINE a == filled(s)
           b == filled(a)
           c == filled(b)
<1>6. FilledUp(pi, s) = c
  BY <1>1
<1> HIDE DEF filled
<1>7. /\ Listed(a) /\ Extends(a, s) /\ (Full(s) => a = s) /\ (~Full(s) => Len(a) = Len(s) + 1)
  BY <1>5
<1> HIDE DEF a
<1>8. /\ Listed(b) /\ Extends(b, a) /\ (Full(a) => b = a) /\ (~Full(a) => Len(b) = Len(a) + 1)
  BY <1>5, <1>7
<1> HIDE DEF b
<1>9. /\ Listed(c) /\ Extends(c, b) /\ (Full(b) => c = b) /\ (~Full(b) => Len(c) = Len(b) + 1)
  BY <1>5, <1>8
<1> HIDE DEF c
<1>10. Len(s) \in Nat /\ Len(a) \in Nat /\ Len(b) \in Nat /\ Len(c) \in Nat /\ Len(c) <= 3
  BY <1>7, <1>8, <1>9, MembersAre DEF Listed
<1>11. Full(c)
  <2>1. SUFFICES ASSUME ~Full(c) PROVE FALSE
    OBVIOUS
  <2>2. ~Full(b) /\ ~Full(a) /\ ~Full(s)
    BY <1>7, <1>8, <1>9, <2>1
  <2>3. Len(c) = 3
    <3> HIDE DEF Full
    <3> QED BY <1>7, <1>8, <1>9, <1>10, <2>2
  <2> QED BY <2>1, <2>3
<1>12. Extends(c, s)
  BY <1>7, <1>8, <1>9, <1>10 DEF Extends
<1> QED BY <1>6, <1>9, <1>11, <1>12

LEMMA NothingListed == Listed(<<>>) /\ Len(<<>>) = 0 /\ Members(<<>>) = {}
<1>1. <<>> \in Seq(Eligible) /\ Len(<<>>) = 0 /\ DOMAIN <<>> = {}
  OBVIOUS
<1>2. Members(<<>>) = {}
  BY <1>1 DEF Members
<1> QED BY <1>1, <1>2, FS_EmptySet DEF Listed

LEMMA ListsFit ==
  ASSUME NEW pi \in [Engines -> Nat], NEW primary \in Eligible \cup {0},
         primary = 0 => Eligible = {},
         NEW roots, roots[1] \in (Eligible \ {primary}) \cup {0}, roots[2] \in Eligible \cup {0},
         roots[1] = 0 => roots[2] = 0,
         NEW quickWin \in Eligible \cup {0}, NEW confidence
  PROVE  LET b == Bottlenecks(pi, primary, roots, quickWin)
             d == Diagnoses(primary, roots, confidence)
         IN  /\ Len(b) = Cardinality(Members(b))
             /\ Len(b) = Min({3, Cardinality(Eligible)})
             /\ Members(b) \subseteq Eligible
             /\ \A i \in DOMAIN d \cap 1..2 : d[i] \in {b[i], InstrumentFirst}
<1> DEFINE x == Added(<<>>, primary)
           y == Added(x, roots[1])
           z == Added(y, quickWin)
           w == IF roots[2] = 0 THEN y ELSE Append(y, roots[2])
           b == FilledUp(pi, z)
           d == IF confidence = "low" THEN Append(w, InstrumentFirst) ELSE w
<1>1. Bottlenecks(pi, primary, roots, quickWin) = b /\ Diagnoses(primary, roots, confidence) = d
  <2>1. Told(<<>>, primary) = x
    BY NothingListed DEF Told, Added, Members
  <2>2. Told(x, roots[1]) = y
    <3>1. roots[1] # 0 => ~\E i \in DOMAIN x : x[i] = roots[1]
      BY EnginesAreFinite DEF Added
    <3> HIDE DEF x
    <3> QED BY <3>1 DEF Told, Added
  <2> HIDE DEF x, y
  <2>3. Told(y, roots[2]) = w
    BY DEF Told
  <2> HIDE DEF w
  <2>4. Told(w, IF confidence = "low" THEN InstrumentFirst ELSE 0) = d
    BY DEF Told, InstrumentFirst
  <2> QED BY <2>1, <2>2, <2>3, <2>4 DEF Bottlenecks, Diagnoses, x, y
<1>2. /\ Listed(x) /\ Len(x) \in 0..1
      /\ primary # 0 => Len(x) = 1 /\ x[1] = primary
  <2>1. Len(<<>>) < 3 /\ Listed(<<>>)
    BY NothingListed
  <2>2. /\ Listed(x)
        /\ IF primary = 0 \/ primary \in Members(<<>>) THEN x = <<>>
           ELSE Len(x) = Len(<<>>) + 1 /\ x[Len(<<>>) + 1] = primary
    BY <2>1, AddedIs
  <2> HIDE DEF x
  <2> DEFINE k == Len(<<>>)
  <2>3. k = 0 /\ Members(<<>>) = {}
    BY NothingListed
  <2>4. IF primary = 0 THEN Len(x) = k ELSE Len(x) = k + 1 /\ x[k + 1] = primary
    BY <2>2, <2>3
  <2> HIDE DEF k
  <2>5. IF primary = 0 THEN Len(x) = 0 ELSE Len(x) = 1 /\ x[1] = primary
    BY <2>3, <2>4
  <2> QED BY <2>2, <2>5
<1> HIDE DEF x
<1>3. /\ Listed(y) /\ Len(y) \in 0..2
      /\ roots[2] # 0 => Len(y) = 2
  <2>1. Len(x) < 3
    <3> DEFINE k == Len(x)
    <3>1. k \in 0..1
      BY <1>2
    <3> HIDE DEF k
    <3>2. k < 3
      BY <3>1
    <3> QED BY <3>2 DEF k
  <2>2. /\ Listed(y)
        /\ IF roots[1] = 0 \/ roots[1] \in Members(x) THEN y = x ELSE Len(y) = Len(x) + 1
    BY <1>2, <2>1, AddedIs
  <2> HIDE DEF y
  <2>3. ASSUME roots[2] # 0
        PROVE  Len(y) = 2
    <3>1. primary # 0 /\ roots[1] # 0 /\ roots[1] # primary
      BY <2>3
    <3>2. Len(x) = 1 /\ x[1] = primary
      BY <1>2, <3>1
    <3>3. DOMAIN x = 1..1
      BY <1>2, <3>2 DEF Listed
    <3>4. roots[1] \notin Members(x)
      BY <3>1, <3>2, <3>3 DEF Members
    <3> QED BY <2>2, <3>1, <3>2, <3>4
  <2>4. Len(y) \in 0..2
    <3> DEFINE k == Len(x)
               n == Len(y)
    <3>1. k \in 0..1 /\ (n = k \/ n = k + 1)
      BY <1>2, <2>2
    <3> HIDE DEF k, n
    <3>2. n \in 0..2
      BY <3>1
    <3> QED BY <3>2 DEF n
  <2> QED BY <2>2, <2>3, <2>4
<1> HIDE DEF y
<1>4. Len(y) < 3
  <2> DEFINE n == Len(y)
  <2>1. n \in 0..2
    BY <1>3
  <2> HIDE DEF n
  <2>2. n < 3
    BY <2>1
  <2> QED BY <2>2 DEF n
<1>5. Listed(z) /\ Extends(z, y)
  BY <1>3, <1>4, AddedIs
<1>6. w \in Seq(Eligible) /\ Extends(w, y) /\ (roots[2] = 0 => w = y)
  <2>1. y \in Seq(Eligible) /\ DOMAIN y = 1..Len(y)
    BY <1>3 DEF Listed
  <2>2. CASE roots[2] = 0
    <3>1. Extends(y, y)
      BY <2>1 DEF Extends
    <3> QED BY <2>1, <2>2, <3>1
  <2>3. CASE roots[2] # 0
    <3> DEFINE v == Append(y, roots[2])
    <3>1. v \in Seq(Eligible) /\ Len(v) = Len(y) + 1 /\ \A i \in 1..Len(y) : v[i] = y[i]
      BY <2>1, <2>3
    <3>2. w = v
      BY <2>3
    <3> HIDE DEF v, w
    <3> QED BY <1>3, <2>3, <3>1, <3>2 DEF Extends
  <2> QED BY <2>2, <2>3
<1> HIDE DEF z, w
<1>7. Listed(b) /\ Extends(b, z) /\ (Len(b) = 3 \/ Members(b) = Eligible)
  BY <1>5, FilledUpIs
<1> HIDE DEF b
<1>8. Len(b) = Cardinality(Members(b)) /\ Len(b) <= 3 /\ Members(b) \subseteq Eligible
  BY <1>7, MembersAre DEF Listed
<1>9. Len(b) = Min({3, Cardinality(Eligible)})
  <2>1. Cardinality(Eligible) \in Nat /\ 3 \in Nat
    BY EnginesAreFinite, FS_CardinalityType
  <2>2. Cardinality(Members(b)) <= Cardinality(Eligible)
    BY <1>8, EnginesAreFinite, FS_Subset
  <2>3. Min({3, Cardinality(Eligible)}) =
          IF 3 <= Cardinality(Eligible) THEN 3 ELSE Cardinality(Eligible)
    BY <2>1, MinOfTwo
  <2> DEFINE n == Len(b)
             k == Cardinality(Eligible)
  <2>4. n <= k /\ n <= 3 /\ (n = 3 \/ n = k) /\ n \in Nat /\ k \in Nat
    BY <1>7, <1>8, <2>1, <2>2, MembersAre
  <2> HIDE DEF n, k
  <2>5. n = IF 3 <= k THEN 3 ELSE k
    BY <2>4
  <2> QED BY <2>3, <2>5 DEF n, k
<1>10. ASSUME NEW i \in DOMAIN d \cap 1..2
       PROVE  d[i] \in {b[i], InstrumentFirst}
  <2>1. w \in Seq(Eligible) /\ Len(w) \in Nat /\ DOMAIN w = 1..Len(w)
    BY <1>6
  <2>2. \/ i \in 1..Len(w) /\ d[i] = w[i]
        \/ d[i] = InstrumentFirst
    <3>1. CASE confidence = "low"
      <4> DEFINE v == Append(w, InstrumentFirst)
      <4>1. w \in Seq(Eligible \cup {InstrumentFirst})
        BY <2>1
      <4>2. /\ DOMAIN v = 1..(Len(w) + 1) /\ v[Len(w) + 1] = InstrumentFirst
            /\ \A j \in 1..Len(w) : v[j] = w[j]
        BY <2>1, <4>1
      <4>3. d = v
        BY <3>1
      <4> HIDE DEF v, d
      <4>4. i \in 1..(Len(w) + 1)
        BY <1>10, <4>2, <4>3
      <4>5. i \in 1..Len(w) \/ i = Len(w) + 1
        BY <2>1, <4>4
      <4> QED BY <4>2, <4>3, <4>5
    <3>2. CASE confidence # "low"
      BY <1>10, <2>1, <3>2
    <3> QED BY <3>1, <3>2
  <2>3. ASSUME i \in 1..Len(w)
        PROVE  w[i] = b[i]
    <3>1. i \in 1..Len(y)
      <4>1. CASE roots[2] = 0
        BY <1>6, <2>3, <4>1
      <4>2. CASE roots[2] # 0
        BY <1>3, <1>10, <4>2
      <4> QED BY <4>1, <4>2
    <3>2. w[i] = y[i]
      BY <1>6, <3>1 DEF Extends
    <3>3. z[i] = y[i] /\ i \in 1..Len(z)
      <4>1. Len(y) \in Nat /\ Len(z) \in Nat /\ Len(y) <= Len(z)
        BY <1>3, <1>5, MembersAre DEF Extends
      <4>2. i \in 1..Len(z)
        BY <3>1, <4>1
      <4> QED BY <1>5, <3>1, <4>2 DEF Extends
    <3>4. b[i] = z[i]
      BY <1>7, <3>3 DEF Extends
    <3> QED BY <3>2, <3>3, <3>4
  <2> QED BY <2>2, <2>3
<1> HIDE DEF d
<1> QED BY <1>1, <1>8, <1>9, <1>10

-----------------------------------------------------------------------------
(* Everything together *)

LEMMA DiagnosisCoheres ==
  ASSUME NEW g \in Answers, NEW d, d = Diagnosis(g)
  PROVE  /\ BottlenecksFill(d) /\ SurvivalFirst(g, d) /\ ChoiceIsExplained(g, d)
         /\ RolesAreFound(d) /\ BetterAnswerHelps(g, d)
<1> DEFINE raw == [e \in Engines |-> Raw(g, e)]
           pi == [e \in Engines |-> PriorityIndex(g, raw, e)]
           primary == PrimaryIssue(g, raw, pi)
           roots == StructuralRoots(raw, primary)
           binding == BindingConstraint(raw)
           quickWin == QuickWin(raw, primary, roots, binding)
<1>1. /\ d.raw = raw /\ d.pi = pi /\ d.primaryIssue = primary /\ d.structuralRoots = roots
      /\ d.quickWin = quickWin /\ d.bindingConstraint = binding
      /\ d.dependencyFindings = DependencyFindings(raw)
      /\ d.bottlenecks = Bottlenecks(pi, primary, roots, quickWin)
      /\ d.diagnoses = Diagnoses(primary, roots, Confidence(raw))
      /\ d.survivalStatus = SurvivalStatus(raw)
  BY DEF Diagnosis
<1>2. raw \in RawScores /\ \A e \in Engines : raw[e] = Raw(g, e)
  BY RawType DEF RawScores
<1> HIDE DEF raw
<1>3. pi \in [Engines -> Nat] /\ \A e \in Engines : pi[e] = PriorityIndex(g, raw, e)
  BY <1>2, IndexType
<1> HIDE DEF pi
<1>4. primary \in Eligible \cup {0} /\ (primary = 0 => Eligible = {})
  BY <1>2, <1>3, PrimaryIsFirst, EnginesAreFinite
<1>5. SurvivalFirst(g, d)
  <2>1. IF SurvivalStatus(raw) = 2
        THEN /\ primary \in Survival
             /\ \A e \in Survival \cap Eligible : raw[primary] <= raw[e]
        ELSE (\E e \in Eligible : GateAlerts(g, e) # {}) => GateAlerts(g, primary) # {}
    BY <1>2, <1>3, SurvivalComesFirst
  <2> HIDE DEF primary
  <2> QED BY <1>1, <2>1 DEF SurvivalFirst
<1> HIDE DEF primary
<1>6. /\ roots[1] \in (Eligible \ {primary}) \cup {0} /\ roots[2] \in Eligible \cup {0}
      /\ roots[1] = 0 => roots[2] = 0
  <2> DEFINE C == RootCandidates(raw, primary)
  <2>1. /\ IF C = {} THEN roots[1] = 0 ELSE roots[1] \in C
        /\ IF C \ {roots[1]} = {} THEN roots[2] = 0 ELSE roots[2] \in C \ {roots[1]}
    BY <1>2, RootsAre
  <2>2. C \subseteq Eligible \ {primary} /\ 0 \notin C
    BY EnginesAreFinite DEF RootCandidates
  <2> HIDE DEF C, roots
  <2> QED BY <2>1, <2>2
<1> HIDE DEF roots
<1>7. quickWin \in Eligible \cup {0}
  BY <1>2, QuickWinIs
<1> HIDE DEF quickWin
<1>8. BottlenecksFill(d)
  <2> DEFINE b == Bottlenecks(pi, primary, roots, quickWin)
             t == Diagnoses(primary, roots, Confidence(raw))
  <2>1. /\ Len(b) = Cardinality(Members(b))
        /\ Len(b) = Min({3, Cardinality(Eligible)})
        /\ Members(b) \subseteq Eligible
        /\ \A i \in DOMAIN t \cap 1..2 : t[i] \in {b[i], InstrumentFirst}
    BY <1>3, <1>4, <1>6, <1>7, ListsFit
  <2>2. d.bottlenecks = b /\ d.diagnoses = t
    BY <1>1
  <2> HIDE DEF b, t
  <2> QED BY <2>1, <2>2 DEF BottlenecksFill, Members
<1>9. ChoiceIsExplained(g, d)
  <2>1. \A e \in {d.primaryIssue, d.structuralRoots[1], d.structuralRoots[2], d.quickWin} \ {0} :
          e \in Engines
    BY <1>1, <1>4, <1>6, <1>7, EnginesAreFinite
  <2> QED BY <2>1, QuestionsExplain DEF ChoiceIsExplained
<1>10. RolesAreFound(d)
  BY <1>1, <1>2, RolesHold DEF RolesAreFound
<1>11. BetterAnswerHelps(g, d)
  <2>1. SUFFICES ASSUME NEW e \in Engines, NEW q \in Asked[e], g[e][q] < 3,
                        NEW better, better = [g EXCEPT ![e][q] = @ + 1],
                        NEW other, other = [raw EXCEPT ![e] = @ + 1]
                 PROVE  /\ SurvivalStatus(other) <= SurvivalStatus(raw)
                        /\ binding = 0 => BindingConstraint(other) = 0
                        /\ ~\E i, j \in DOMAIN BindingFlowOrder :
                              /\ i < j
                              /\ BindingFlowOrder[i] = BindingConstraint(other)
                              /\ BindingFlowOrder[j] = binding
                        /\ IsWeak(other[e]) = IsWeak(raw[e])
                             => PriorityIndex(better, other, e) < pi[e]
    <3> HIDE DEF binding
    <3>1. /\ d.raw = raw /\ d.pi = pi /\ d.bindingConstraint = binding
          /\ d.survivalStatus = SurvivalStatus(raw)
      BY <1>1
    <3> QED BY <2>1, <3>1, ZenonT(60) DEF BetterAnswerHelps
  <2>2. pi[e] = PriorityIndex(g, raw, e)
    BY <1>3
  <2>3. /\ SurvivalStatus(other) <= SurvivalStatus(raw)
        /\ BindingConstraint(raw) = 0 => BindingConstraint(other) = 0
        /\ \A i, j \in DOMAIN BindingFlowOrder :
             i < j => ~(/\ BindingFlowOrder[i] = BindingConstraint(other)
                        /\ BindingFlowOrder[j] = BindingConstraint(raw))
        /\ (IsWeak(other[e]) <=> IsWeak(raw[e]))
             => PriorityIndex(better, other, e) < PriorityIndex(g, raw, e)
    <3>1. Bettered(g, raw, e, q, better, other)
      BY <1>2, <2>1 DEF Bettered
    <3> QED BY <3>1, AnswerHelps
  <2> QED BY <2>2, <2>3 DEF IsWeak
<1> QED BY <1>5, <1>8, <1>9, <1>10, <1>11

DiagnosisTypeOK == given = NotTaken \/ given \in Answers

\* For any questions and answers: the stored bottlenecks are three different
\* complete domains, or all there are, and agree with the diagnoses; a red survival
\* domain, else a failed gate, leads the ladder; every choice names its questions;
\* a role has its finding; and a better answer helps.
THEOREM DiagnosisAlwaysCoheres == DiagnosisSpec => []DiagnosisIsCoherent
<1>1. DiagnosisInit => DiagnosisTypeOK
  BY DEF DiagnosisInit, DiagnosisTypeOK
<1>2. DiagnosisTypeOK /\ [DiagnosisNext]_given => DiagnosisTypeOK'
  <2>1. SUFFICES ASSUME TestFinished PROVE given' \in Answers
    BY DEF DiagnosisNext, DiagnosisTypeOK
  <2>2. PICK answers \in [Varied -> Shapes] :
          given' = [e \in Engines |-> IF e \in Varied THEN answers[e] ELSE Usual[e]]
    BY <2>1 DEF TestFinished
  <2>3. \A e \in Engines : (IF e \in Varied THEN answers[e] ELSE Usual[e]) \in [1..5 -> 0..3]
    BY DiagnosisAssumption
  <2> QED BY <2>2, <2>3 DEF Answers
<1>3. DiagnosisTypeOK => DiagnosisIsCoherent
  BY DiagnosisCoheres DEF DiagnosisTypeOK, DiagnosisIsCoherent
<1> QED BY <1>1, <1>2, <1>3, PTL DEF DiagnosisSpec
=============================================================================
