----------------------------- MODULE MCAuthority -----------------------------
(* What decides that money may be spent: the policy decision, over a policy    *)
(* with classes and one without and every mix of violations; the mandate       *)
(* service and the payment of the paid endpoints; the authorization of a       *)
(* reliability run, the claim of each of its calls and the lookups of an       *)
(* ambiguous one; the evidence run that keeps to a ceiling of its own; and what  *)
(* a shadow evaluation finds in a window.  A behaviour is of one of them.      *)
EXTENDS PolicyDecisions, MandateService, SchedulerClaims, RunAuthorization, PaidInference,
        ReconciliationLookups, FixtureRun, SiblingDivergence, TLC

CONSTANTS k1, k2, c1, c2, r1, r2, r3, x1, x2,
          w1, w2, w3,            \* workers, and run commands
          q1, q2, q3, q4, q5     \* HTTP requests

VARIABLE part

decisionVars == <<policy, input>>

\* The other parts of a behaviour stay in an initial state of theirs.
DecisionInit ==
  \/ part = "decision" /\ Init
  \/ /\ part \in {"service", "claims", "authorization", "paid", "lookups", "fixtures", "divergence"}
     /\ policy = CHOOSE p \in PolicySet : TRUE
     /\ input = CHOOSE i \in InputSet : TRUE

WindowInit ==
  \/ part = "divergence" /\ DivergenceInit
  \/ /\ part # "divergence"
     /\ config = CHOOSE c \in Configs : TRUE
     /\ window = <<>>
     /\ observed = CHOOSE o \in Observations : TRUE

AuthorityInit ==
  /\ DecisionInit /\ WindowInit
  /\ MandateInit /\ ClaimsInit /\ AuthorizationInit /\ PaidInit /\ LookupsInit /\ FixtureInit
  /\ part # "authorization" => ~nonce /\ ~sealed
  /\ part # "lookups" => generation /\ phase[1] = "scheduled"
  /\ part # "fixtures" => setting.heldOut /\ setting.cap # {}

DecisionStep ==
  /\ part = "decision" /\ Next
  /\ UNCHANGED <<part, mandateVars, claimVars, authorizationVars, paidVars, lookupVars, runVars, divergenceVars>>

ServiceStep ==
  /\ part = "service" /\ MandateNext
  /\ UNCHANGED <<part, decisionVars, claimVars, authorizationVars, paidVars, lookupVars, runVars, divergenceVars>>

ClaimsStep ==
  /\ part = "claims" /\ ClaimsNext
  /\ UNCHANGED <<part, decisionVars, mandateVars, authorizationVars, paidVars, lookupVars, runVars, divergenceVars>>

AuthorizationStep ==
  /\ part = "authorization" /\ AuthorizationNext
  /\ UNCHANGED <<part, decisionVars, mandateVars, claimVars, paidVars, lookupVars, runVars, divergenceVars>>

PaidStep ==
  /\ part = "paid" /\ PaidNext
  /\ UNCHANGED <<part, decisionVars, mandateVars, claimVars, authorizationVars, lookupVars, runVars, divergenceVars>>

LookupsStep ==
  /\ part = "lookups" /\ LookupsNext
  /\ UNCHANGED <<part, decisionVars, mandateVars, claimVars, authorizationVars, paidVars, runVars, divergenceVars>>

FixtureStep ==
  /\ part = "fixtures" /\ FixtureNext
  /\ UNCHANGED <<part, decisionVars, mandateVars, claimVars, authorizationVars, paidVars, lookupVars, divergenceVars>>

AuthorityNext ==
  DecisionStep \/ ServiceStep \/ ClaimsStep \/ AuthorizationStep \/ PaidStep \/ LookupsStep
    \/ FixtureStep

AuthoritySpec ==
  AuthorityInit
    /\ [][AuthorityNext]_<<part, decisionVars, mandateVars, claimVars, authorizationVars,
                           paidVars, lookupVars, runVars, divergenceVars>>

-----------------------------------------------------------------------------
MCPolicy(classes) ==
  [ mode |-> "enforce", capability |-> "invoke", providers |-> {"p"}, models |-> {"x"},
    perCall |-> 1, hourly |-> 2, daily |-> 2, rate |-> 1,
    inputTokens |-> 1, outputTokens |-> 1, classes |-> classes ]

MCPolicySet ==
  { MCPolicy(<<>>),
    MCPolicy(k1 :> [perCall |-> 2, invocations |-> 1, budget |-> 2, minInput |-> 1]) }

Scope(known, allowed, class, expiry, spent) ==
  [ class |-> class, branchAuthorized |-> known, branchMaximum |-> 2,
    branchSpent |-> spent, branchExpiresAt |-> expiry, classAuthorized |-> allowed,
    classInvocations |-> 0, classSpent |-> spent ]

Scopes == {{}} \cup
  {{Scope(known, allowed, class, expiry, spent)} :
     known \in BOOLEAN, allowed \in BOOLEAN, class \in {k1, k2},
     expiry \in {{}, {0}}, spent \in {0, 1}}

MCInputSet ==
  { [ now |-> 0, mandateState |-> state, mandateExpiresAt |-> expiry,
      agentAuthorized |-> assigned, capabilities |-> capabilities, provider |-> "p",
      model |-> "x", cost |-> cost, inputTokens |-> tokens, maxOutputTokens |-> 1,
      spentHour |-> 0, spentDay |-> 0, mandateSpent |-> spent, mandateMaximum |-> 2,
      requestsLastMinute |-> 0, workload |-> scope ] :
    state \in {"active", "paused"}, expiry \in {{}, {0}}, assigned \in BOOLEAN,
    capabilities \in {{}, {"invoke"}},
    cost \in {1, 2}, tokens \in {0, 2}, spent \in {0, 1}, scope \in Scopes }

-----------------------------------------------------------------------------
Ask(i, c, m) == [id |-> i, child |-> c, maximum |-> m]
MCAsks == {Ask(r1, c1, 4), Ask(r2, c1, 2), Ask(r3, c1, 4), Ask(r3, c2, 4)}
MCAllowance == (c1 :> 7) @@ (c2 :> 4)

\* Two processes of one owner and one of another; two commands given a valid
\* pair, of different owners, and one given half a pair.
MCOwnerOf == (w1 :> "r") @@ (w2 :> "r") @@ (w3 :> "s")
MCCommandOwner == (w1 :> "r") @@ (w2 :> "s") @@ (w3 :> "r")

Pair(operator, reconciliation) == [operator |-> operator, reconciliation |-> reconciliation]
MCPresentedTo == (w1 :> Pair("valid", "valid")) @@ (w2 :> Pair("valid", "valid"))
                   @@ (w3 :> Pair("valid", "absent"))

\* Five calls under one key: q3 asks for something else.
MCKeyOf == [c \in Call |-> "key"]
MCBodyOf == [c \in Call |-> IF c = q3 THEN "other" ELSE "same"]
MCEndpointOf == [c \in Call |-> CASE c = q4 -> "chat" [] c = q5 -> "replay" [] OTHER -> "product"]

\* Reconciling commands x1 and x2; q is another provider request than p.
Told(kind, binding) == [kind |-> kind, binding |-> binding]
MCAnswers ==
  {Told(kind, "p") : kind \in {"canceled", "response", "no_response", "conflict", "drift"}}
    \cup {Told("response", "q")}

\* Two processes of one run (x1, x2) and two replays of it (q1, q2): a call that
\* must complete, one that may be denied for its budget and one that must be.
Fixture(maximum, expected) == [maximum |-> maximum, expected |-> expected]
MCPlan ==
  <<Fixture(1, "completed"), Fixture(2, "completed-or-denied"), Fixture(1, "denied")>>
MCSettings ==
  { [heldOut |-> FALSE, cap |-> {}], [heldOut |-> TRUE, cap |-> {3}], [heldOut |-> TRUE, cap |-> {}] }

\* Up to five siblings, in the order of what they spent and were asked for:
\* which of two alike comes first changes no sum.
MCObservations == [spend : {0, 3, 8}, count : {1, 2}]

NoMore(o, other) == o.spend < other.spend \/ (o.spend = other.spend /\ o.count <= other.count)

MCWindows ==
  UNION {{w \in [1..n -> MCObservations] : \A i \in 1..(n - 1) : NoMore(w[i], w[i + 1])} : n \in 0..5}
MCConfigs ==
  { [ prior |-> 2, confidence |-> confidence, minimum |-> minimum, scoring |-> 2, intervention |-> 3,
      threshold |-> 15000 ] : confidence \in {1, 5}, minimum \in {1, 2} }

-----------------------------------------------------------------------------
Symmetry == Permutations(Callers)
=============================================================================
