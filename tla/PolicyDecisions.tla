--------------------------- MODULE PolicyDecisions ---------------------------
(***************************************************************************)
(* The admission rule over sets of policies and inputs, and what it         *)
(* promises whatever the policy and the input.                              *)
(***************************************************************************)
EXTENDS PolicyEngine

CONSTANTS PolicySet, InputSet

(* The fields of a policy version; what each holds matters to the rule only. *)
PolicyFields ==
  { "mode", "capability", "providers", "models", "perCall", "hourly", "daily",
    "rate", "inputTokens", "outputTokens", "classes" }

PolicyVersion(p) ==
  /\ p = [f \in PolicyFields |-> p[f]]
  /\ \A c \in DOMAIN p.classes : p.classes[c].budget \in Int

(* Amounts are integers. *)
Priced(i) ==
  /\ {i.cost, i.mandateSpent, i.mandateMaximum} \subseteq Int
  /\ \A w \in i.workload : {w.branchSpent, w.branchMaximum, w.classSpent} \subseteq Int

ASSUME DecisionsAssumption == /\ \A p \in PolicySet : PolicyVersion(p)
                              /\ \A i \in InputSet : Priced(i)

VARIABLES policy, input

Init == policy \in PolicySet /\ input \in InputSet

(* The same request under another mode of the same limits. *)
ChangeMode == /\ \E mode \in PolicyModes : policy' = [policy EXCEPT !.mode = mode]
              /\ UNCHANGED input

Next == ChangeMode

Spec == Init /\ [][Next]_<<policy, input>>

InMode(mode) == [policy EXCEPT !.mode = mode]

(* README.md:97: what a dry run records as wouldOutcome is the outcome the   *)
(* same limits have once they are enforced, hard and soft reasons together,  *)
(* and enforcing never admits what observing denies.                         *)
DryRunForecastsEnforcement ==
  LET observed == EvaluatePolicy(InMode("dry_run"), input)
      enforced == EvaluatePolicy(InMode("enforce"), input)
  IN /\ observed.wouldOutcome = enforced.outcome
     /\ observed.reasons = enforced.reasons
     /\ enforced.outcome = "ALLOW" => observed.outcome = "ALLOW"

(* A dry run relaxes limits only: without authority over the mandate, the    *)
(* agent, the capability or the budget nothing is allowed in any mode.       *)
AuthorityHoldsInEveryMode ==
  EvaluatePolicy(policy, input).outcome = "ALLOW" =>
    /\ policy.mode # "paused"
    /\ input.mandateState = "active" /\ input.agentAuthorized
    /\ ~Passed(input.mandateExpiresAt, input.now)
    /\ policy.capability \in input.capabilities
    /\ input.mandateSpent + input.cost <= input.mandateMaximum

(* docs/sibling-divergence-shadow-v1.md:35: under a policy with classes a    *)
(* missing scope, an unknown branch, another agent's branch and a class the  *)
(* branch or the policy does not have fail closed, in a dry run too.         *)
ScopeFailsClosed ==
  DOMAIN policy.classes # {} /\ EvaluatePolicy(policy, input).outcome = "ALLOW" =>
    \E w \in input.workload :
      /\ w.branchAuthorized /\ w.classAuthorized
      /\ w.class \in DOMAIN policy.classes
      /\ ~Passed(w.branchExpiresAt, input.now)
      /\ w.branchSpent + input.cost <= w.branchMaximum
      /\ w.classSpent + input.cost <= policy.classes[w.class].budget
=============================================================================
