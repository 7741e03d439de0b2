---------------------------- MODULE PolicyEngine ----------------------------
(***************************************************************************)
(* The admission rule of the control plane: a pure function from a policy   *)
(* version and an evaluation input to an outcome and its reason codes       *)
(* (src/src/domain/policy.ts).                                              *)
(*                                                                         *)
(* A policy is a record                                                     *)
(*   [mode, capability, providers, models, perCall, hourly, daily, rate,    *)
(*    inputTokens, outputTokens, classes]                                   *)
(* whose classes field is a function from the ids of its workload classes   *)
(* to [perCall, invocations, budget, minInput].  An optional value          *)
(* (an expiry, the workload scope of a request) is a set of at most one     *)
(* element.                                                                 *)
(***************************************************************************)
EXTENDS Integers

PolicyModes == {"dry_run", "enforce", "paused"}

(* Reasons that deny whatever the mode of the policy. *)
HardDenials ==
  { "MANDATE_INACTIVE", "MANDATE_EXPIRED", "AGENT_NOT_AUTHORIZED",
    "CAPABILITY_MISSING", "MANDATE_BUDGET_EXCEEDED", "WORKLOAD_CLASS_REQUIRED",
    "BRANCH_NOT_AUTHORIZED", "BRANCH_EXPIRED", "BRANCH_BUDGET_EXCEEDED",
    "WORKLOAD_CLASS_NOT_ALLOWED", "WORKLOAD_CLASS_PER_CALL_LIMIT_EXCEEDED",
    "WORKLOAD_CLASS_INVOCATION_LIMIT_EXCEEDED",
    "WORKLOAD_CLASS_BUDGET_EXCEEDED", "WORKLOAD_CLASS_SHAPE_MISMATCH" }

(* Reasons that only deny under an enforcing policy. *)
SoftDenials ==
  { "PROVIDER_NOT_ALLOWED", "MODEL_NOT_ALLOWED", "PER_CALL_LIMIT_EXCEEDED",
    "HOURLY_LIMIT_EXCEEDED", "DAILY_LIMIT_EXCEEDED", "RATE_LIMIT_EXCEEDED",
    "INPUT_TOKEN_LIMIT_EXCEEDED", "OUTPUT_TOKEN_LIMIT_EXCEEDED" }

ReasonCodes == HardDenials \cup SoftDenials

Passed(expiry, now) == \E t \in expiry : t <= now

(* The class checks run only once the class is known to policy and branch. *)
ClassReason(c, i, w, r) ==
  \/ /\ r = "WORKLOAD_CLASS_PER_CALL_LIMIT_EXCEEDED"
     /\ i.cost > c.perCall
  \/ /\ r = "WORKLOAD_CLASS_INVOCATION_LIMIT_EXCEEDED"
     /\ w.classInvocations >= c.invocations
  \/ /\ r = "WORKLOAD_CLASS_BUDGET_EXCEEDED"
     /\ w.classSpent + i.cost > c.budget
  \/ /\ r = "WORKLOAD_CLASS_SHAPE_MISMATCH"
     /\ i.inputTokens < c.minInput

(* What a request scoped to a branch must satisfy. *)
BranchReason(p, i, w, r) ==
  \/ r = "BRANCH_EXPIRED" /\ Passed(w.branchExpiresAt, i.now)
  \/ r = "BRANCH_BUDGET_EXCEEDED" /\ w.branchSpent + i.cost > w.branchMaximum
  \/ IF w.classAuthorized /\ w.class \in DOMAIN p.classes
       THEN ClassReason(p.classes[w.class], i, w, r)
       ELSE r = "WORKLOAD_CLASS_NOT_ALLOWED"

(* A policy without workload classes ignores the scope of the request. *)
WorkloadReason(p, i, r) ==
  /\ DOMAIN p.classes # {}
  /\ \/ i.workload = {} /\ r = "WORKLOAD_CLASS_REQUIRED"
     \/ \E w \in i.workload :
          IF w.branchAuthorized THEN BranchReason(p, i, w, r)
                                ELSE r = "BRANCH_NOT_AUTHORIZED"

(* Does policy p raise reason r against input i? *)
Raises(p, i, r) ==
  \/ r = "MANDATE_INACTIVE" /\ i.mandateState # "active"
  \/ r = "MANDATE_EXPIRED" /\ Passed(i.mandateExpiresAt, i.now)
  \/ r = "AGENT_NOT_AUTHORIZED" /\ ~i.agentAuthorized
  \/ r = "CAPABILITY_MISSING" /\ p.capability \notin i.capabilities
  \/ r = "PROVIDER_NOT_ALLOWED" /\ i.provider \notin p.providers
  \/ r = "MODEL_NOT_ALLOWED" /\ i.model \notin p.models
  \/ r = "PER_CALL_LIMIT_EXCEEDED" /\ i.cost > p.perCall
  \/ r = "HOURLY_LIMIT_EXCEEDED" /\ i.spentHour + i.cost > p.hourly
  \/ r = "DAILY_LIMIT_EXCEEDED" /\ i.spentDay + i.cost > p.daily
  \/ r = "MANDATE_BUDGET_EXCEEDED" /\ i.mandateSpent + i.cost > i.mandateMaximum
  \/ r = "RATE_LIMIT_EXCEEDED" /\ i.requestsLastMinute >= p.rate
  \/ r = "INPUT_TOKEN_LIMIT_EXCEEDED" /\ i.inputTokens > p.inputTokens
  \/ r = "OUTPUT_TOKEN_LIMIT_EXCEEDED" /\ i.maxOutputTokens > p.outputTokens
  \/ WorkloadReason(p, i, r)

Reasons(p, i) == {r \in ReasonCodes : Raises(p, i, r)}

(* Faulty: forecasts from the limits only. *)
WouldOutcomeLimits(p, i) ==
  IF p.mode = "paused" \/ Reasons(p, i) \cap SoftDenials # {} THEN "DENY" ELSE "ALLOW"

WouldOutcome(p, i) ==
  IF p.mode = "paused" \/ Reasons(p, i) # {} THEN "DENY" ELSE "ALLOW"

Denied(p, i) ==
  \/ p.mode = "paused"
  \/ Reasons(p, i) \cap HardDenials # {}
  \/ p.mode # "dry_run" /\ Reasons(p, i) # {}

EvaluatePolicy(p, i) ==
  [ outcome      |-> IF Denied(p, i) THEN "DENY" ELSE "ALLOW",
    wouldOutcome |-> WouldOutcome(p, i),
    reasons      |-> IF p.mode = "paused" THEN {"POLICY_PAUSED"}
                                          ELSE Reasons(p, i) ]
=============================================================================
