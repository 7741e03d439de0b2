------------------------------ MODULE MCTenancy ------------------------------
(* The four stores of a tenant, each on its own instance: a behaviour is of    *)
(* one of them.                                                                *)
EXTENDS Onboarding, Recovery, Identity, Providers, TLC

(* The stores share no state, so their ids are drawn from the same model       *)
(* values, which keeps the symmetry group small.                               *)
CONSTANTS x1, x2,          \* workers, clients, requests, calls
          k1, k2,          \* keys, deliveries, sessions, secrets
          t1, t2,          \* beta invites, recovery codes, workspace invites, retries
          s1, s2,          \* workspaces, credentials
          b1, b2, q1, a1, a2, ad, op, g1, c1, c2, e1

VARIABLE part

Init ==
  /\ part \in {"onboarding", "recovery", "identity", "providers"}
  /\ OnboardingInit /\ RecoveryInit /\ IdentityInit /\ ProvidersInit

OnboardingStep ==
  /\ part = "onboarding" /\ OnboardingNext
  /\ UNCHANGED <<part, recoveryVars, identityVars, providersVars>>

RecoveryStep ==
  /\ part = "recovery" /\ RecoveryNext
  /\ UNCHANGED <<part, onboardingVars, identityVars, providersVars>>

IdentityStep ==
  /\ part = "identity" /\ IdentityNext
  /\ UNCHANGED <<part, onboardingVars, recoveryVars, providersVars>>

ProvidersStep ==
  /\ part = "providers" /\ ProvidersNext
  /\ UNCHANGED <<part, onboardingVars, recoveryVars, identityVars>>

Next == OnboardingStep \/ RecoveryStep \/ IdentityStep \/ ProvidersStep

Spec == Init /\ [][Next]_<<part, onboardingVars, recoveryVars, identityVars, providersVars>>

MCSteps == <<"bootstrap", "agent">>
MCRoles == (ad :> "admin") @@ (op :> "operator")
MCGrants == {Capabilities, {"inference:invoke"}}

\* A second body is tried against an operation while no other worker runs,
\* never to start one.
SecondBody ==
  /\ \A k \in Keys : operation[k].body # b2
  /\ \A w, v \in Workers : worker[w].body = b2 /\ v # w => worker[v].at = "idle"

\* Agents, service keys and invites: three of them at a time, agents apart from
\* people, and no invite for a viewer, who may do less than an operator.
Extras ==
  Cardinality({g \in Agents : agent[g]})
    + Cardinality({i \in Invites : invite[i] # Absent})
    + Cardinality({c \in ServiceKeys : serviceKey[c] # Absent})

AgentsOrPeople ==
  \/ agent = [g \in Agents |-> FALSE]
  \/ /\ \A i \in Invites : invite[i] = Absent
     /\ \A s \in Sessions : session[s] = Absent

NoViewers == \A i \in Invites : invite[i] # Absent => invite[i].role # "viewer"

Bounded == SecondBody /\ Extras <= 3 /\ AgentsOrPeople /\ NoViewers

Symmetry ==
  UNION {Permutations(S) : S \in {{x1, x2}, {k1, k2}, {t1, t2}}}
=============================================================================
