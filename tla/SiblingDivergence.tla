--------------------------- MODULE SiblingDivergence ---------------------------
(* What a shadow evaluation finds: evaluateSiblingDivergence of               *)
(* anomaly/siblingDivergence.ts, over the spend and the number of the          *)
(* completed executions of each branch of a cohort in one window, as           *)
(* evaluateAndPersistShadow of persistence/policyStore.ts groups them.  Parent *)
(* and class of a branch are those of its cohort.                              *)
EXTENDS Amounts

CONSTANTS
  Configs,         \* what validateConfig accepts
  Windows,         \* [branch -> [spend, count]], without the branch that is judged
  Observations,    \* of that branch
  MaxSafeInteger   \* of a number; amounts are bigint

Config ==
  [ prior : Amount \ {0}, confidence : 1 .. MaxSafeInteger, minimum : 1 .. MaxSafeInteger,
    scoring : 1 .. MaxSafeInteger, intervention : 1 .. MaxSafeInteger,
    threshold : 1 .. MaxSafeInteger ]

Observation == [spend : Amount, count : Nat]

ASSUME DivergenceAssumption ==
  /\ MaxSafeInteger \in Nat
  /\ \A c \in Configs : c \in Config /\ c.scoring <= c.intervention
  /\ \A w \in Windows : IsFiniteSet(DOMAIN w) /\ w \in [DOMAIN w -> Observation]
  /\ \A o \in Observations : o \in Observation

VARIABLES config, window, observed
divergenceVars == <<config, window, observed>>

BPS == 10000

DivergenceInit == config \in Configs /\ window \in Windows /\ observed \in Observations

Comparable(c, w) == {b \in DOMAIN w : w[b].count >= c.minimum}

SpendOf(w, S) == Total([b \in S |-> w[b].spend], S)

\* Faulty: everyone counts.
Untrimmed(w, S) == S

\* From five siblings on, the one that spent least and the one that spent most
\* are left out.
Trimmed(w, S) ==
  IF Cardinality(S) < 5 THEN S
  ELSE LET lowest == CHOOSE b \in S : \A d \in S : w[b].spend <= w[d].spend
           highest == CHOOSE b \in S \ {lowest} : \A d \in S : w[b].spend >= w[d].spend
       IN S \ {lowest, highest}

RatioBps(numerator, denominator) == Smaller((numerator * BPS) \div denominator, MaxSafeInteger)

AtOrAboveThreshold(c, numerator, denominator) == numerator * BPS >= c.threshold * denominator

Unscored(c, w, o, status, signals) ==
  [ status |-> status, aggregate |-> 0, weight |-> 0, baseline |-> c.prior,
    divergenceRatio |-> RatioBps(o.spend, c.prior), priorRatio |-> RatioBps(o.spend, c.prior),
    cohortRatio |-> 0, eligible |-> FALSE, signals |-> signals, wouldSignal |-> FALSE ]

\* The mean of the siblings and the prior of the class, weighted by how many
\* siblings there are; a quotient is compared by cross-multiplication.
Scored(c, w, o) ==
  LET comparable == Comparable(c, w)
      n == Cardinality(comparable)
      kept == Trimmed(w, comparable)
      sum == SpendOf(w, kept)
      count == Cardinality(kept)
      numerator == n * sum + c.confidence * c.prior * count
      denominator == (n + c.confidence) * count
      divergence ==
        IF AtOrAboveThreshold(c, o.spend * denominator, numerator) THEN {"SIBLING_DIVERGENCE"} ELSE {}
      prior == IF AtOrAboveThreshold(c, o.spend, c.prior) THEN {"CLASS_PRIOR_EXCEEDED"} ELSE {}
      shift == IF AtOrAboveThreshold(c, sum, c.prior * count) THEN {"CORRELATED_COHORT_SHIFT"} ELSE {}
  IN [ status |-> "scored", aggregate |-> sum \div count,
       weight |-> (n * BPS) \div (n + c.confidence), baseline |-> numerator \div denominator,
       divergenceRatio |-> RatioBps(o.spend * denominator, numerator),
       priorRatio |-> RatioBps(o.spend, c.prior), cohortRatio |-> RatioBps(sum, c.prior * count),
       eligible |-> n >= c.intervention, signals |-> divergence \cup prior \cup shift,
       wouldSignal |-> n >= c.intervention /\ divergence \cup prior # {} ]

EvaluateSiblingDivergence(c, w, o) ==
  IF o.count < c.minimum THEN Unscored(c, w, o, "insufficient_target_observations", {})
  ELSE IF Cardinality(Comparable(c, w)) < c.scoring
    THEN Unscored(c, w, o, "insufficient_siblings",
           IF AtOrAboveThreshold(c, o.spend, c.prior) THEN {"CLASS_PRIOR_EXCEEDED"} ELSE {})
    ELSE Scored(c, w, o)

-----------------------------------------------------------------------------
Signals(w, o) == EvaluateSiblingDivergence(config, w, o).signals

Spends == {o.spend : o \in Observations}

Spending(w, b, spend) == [w EXCEPT ![b].spend = spend]

(* No one can talk a signal away (docs/sibling-divergence-shadow-v1.md, "Small-n *)
(* estimator" and "Signals").  A branch that spends more keeps its signals; a    *)
(* sibling that spends less clears none of the branch's own.  Where five         *)
(* siblings compare, one that outspends the others changes nothing by spending   *)
(* more.  A branch that went with a shift of its whole cohort exceeds the prior,  *)
(* which is judged without any sibling as well; and the ratio that is displayed   *)
(* is on the side of the threshold the signal says, also where it is cut off.        *)
SignalsAreRobust ==
  LET result == EvaluateSiblingDivergence(config, window, observed)
      comparable == Comparable(config, window)
      kept == Trimmed(window, comparable)
  IN /\ \A spend \in Spends : spend >= observed.spend =>
          result.signals \subseteq Signals(window, [observed EXCEPT !.spend = spend])
     /\ \A b \in comparable, spend \in Spends : spend <= window[b].spend =>
          result.signals \ {"CORRELATED_COHORT_SHIFT"} \subseteq Signals(Spending(window, b, spend), observed)
     /\ \A b \in comparable, spend \in Spends :
          /\ Cardinality(comparable) >= 5
          /\ \A d \in comparable : window[d].spend <= window[b].spend
          /\ spend >= window[b].spend
          => Signals(Spending(window, b, spend), observed) = result.signals
     /\ "CORRELATED_COHORT_SHIFT" \in result.signals
          /\ observed.spend * Cardinality(kept) >= SpendOf(window, kept)
          => "CLASS_PRIOR_EXCEEDED" \in result.signals
     /\ "CLASS_PRIOR_EXCEEDED" \in result.signals
          <=> "CLASS_PRIOR_EXCEEDED" \in Signals(<<>>, observed)
     /\ result.status = "scored" =>
          ("SIBLING_DIVERGENCE" \in result.signals <=> result.divergenceRatio >= config.threshold)
=============================================================================
