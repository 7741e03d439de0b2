----------------------- MODULE MCControlledInference -----------------------
(* Instances of ControlledInference for TLC. *)
EXTENDS ControlledInference, TLC

CONSTANTS m1, m2, a1, r1, r2, r3, w1, w2, v1, v2

MCPolicy(mode, hourly, rate) ==
  [ mode |-> mode, capability |-> "invoke", providers |-> {"p"}, models |-> {"x"},
    perCall |-> 3, hourly |-> hourly, daily |-> 9, rate |-> rate,
    inputTokens |-> 1, outputTokens |-> 1, classes |-> <<>> ]

(* v1 enforces an hourly ceiling below the mandate's maximum; v2 observes. *)
MCPolicyOf == (v1 :> MCPolicy("enforce", 2, 1)) @@ (v2 :> MCPolicy("dry_run", 1, 1))

MCPayload(m, a, cost) ==
  [ mandate |-> m, agent |-> a, capabilities |-> {"invoke"}, provider |-> "p",
    model |-> "x", cost |-> cost, inputTokens |-> 1, maxOutputTokens |-> 1,
    scope |-> {} ]

MCPayloads == {MCPayload(m, a1, cost) : m \in {m1, m2}, cost \in {1, 2}}

CostsTwo == {p \in MCPayloads : p.mandate = m1 /\ p.cost = 2}
CostsOne == {p \in MCPayloads : p.mandate = m1 /\ p.cost = 1}
NoExpiries == {{}}

(* Mandates an operator has published, created, staffed and activated. *)
Ready(maximum, v, expiry) ==
  /\ published = {v}
  /\ mandate = [m \in Mandates |-> [state |-> "active", maximum |-> maximum,
                                    policy |-> v, expiresAt |-> expiry]]
  /\ assigned = Mandates \X Agents
  /\ branch = [b \in Branches |-> NoBranch]
  /\ execution = [r \in Requests |-> NoExecution]
  /\ hold = [m \in Mandates |-> "none"]
  /\ resolution = [r \in Requests |-> Unresolved]
  /\ rowLock = [m \in Mandates |-> NoWorker]
  /\ now = 0
  /\ worker = [w \in Workers |-> Idle]
  /\ dispatches = [r \in Requests |-> 0]

EnforcedInit == Ready(3, v1, {})
ObservedInit == Ready(3, v2, {})

(* A maximum that two requests of cost 2 fit into, so that the outcomes of     *)
(* both can be unknown at once.                                              *)
RoomyInit == Ready(4, v2, {})

ReadyInit == EnforcedInit \/ ObservedInit \/ RoomyInit

ReadySpec == ReadyInit /\ [][Next]_vars
ObservedSpec == ObservedInit /\ [][Next]_vars

(* The policy of the mandate stays the one it started with. *)
OnePolicy == Cardinality(published) = 1

(* The leases and windows of the roomy mandate are those of the tight ones. *)
RoomyStandsStill == \A m \in Mandates : mandate[m].maximum = 4 => now = 0

Explored == OnePolicy /\ RoomyStandsStill

Symmetry == Permutations(Workers) \cup Permutations(Requests)
=============================================================================
