---------------------------- MODULE MCDelegation ----------------------------
(* A mandate with two classes of work and branches to delegate; and two        *)
(* mandates administered from an empty database.                              *)
EXTENDS Delegation, TLC

CONSTANTS m1, m2, a1, b1, b2, b3, k1, k2, r1, r2, r3, w1, w2, v1, v2

Class(invocations, budget) ==
  [perCall |-> 2, invocations |-> invocations, budget |-> budget, minInput |-> 1]

MCPolicy(classes) ==
  [ mode |-> "dry_run", capability |-> "invoke", providers |-> {"p"}, models |-> {"x"},
    perCall |-> 1, hourly |-> 1, daily |-> 1, rate |-> 1,
    inputTokens |-> 1, outputTokens |-> 1, classes |-> classes ]

(* v1 knows both classes; v2 knows none and ignores the scope of a request. *)
MCPolicyOf == (v1 :> MCPolicy((k1 :> Class(1, 2)) @@ (k2 :> Class(2, 2))))
              @@ (v2 :> MCPolicy(<<>>))

Ask(b, k, cost) ==
  [ mandate |-> m1, agent |-> a1, capabilities |-> {"invoke"}, provider |-> "p",
    model |-> "x", cost |-> cost, inputTokens |-> 1, maxOutputTokens |-> 1,
    scope |-> {[branch |-> b, class |-> k]} ]

Asks == {Ask(b1, k1, 1), Ask(b1, k2, 2), Ask(b2, k2, 1)}

(* A class that a child does not have. *)
AskBeyond == Ask(b2, k1, 1)

(* A request without a scope, of either mandate. *)
Plain(m) ==
  [ mandate |-> m, agent |-> a1, capabilities |-> {"invoke"}, provider |-> "p",
    model |-> "x", cost |-> 1, inputTokens |-> 1, maxOutputTokens |-> 1, scope |-> {} ]

AllAsks == Asks \cup {AskBeyond} \cup {Plain(m1), Plain(m2)}

New(parent, classes, maximum, expiry) ==
  [parent |-> parent, agent |-> a1, classes |-> classes, maximum |-> maximum,
   expiresAt |-> expiry]

(* A root with an expiry, and children that do or do not fit under it. *)
Root == New({}, {k1, k2}, 2, {1})
Child == New({b1}, {k2}, 1, {1})
Widening == {New({b1}, {k2}, 1, {}), New({b1}, {k1, k2}, 2, {1})}
Delegations == {Root, Child} \cup Widening

NoExpiries == {{}}

(* Draft mandates: the first with its agent, the second not created yet. *)
Drafted ==
  /\ published = Policies
  /\ mandate = [m \in Mandates |->
       IF m = m1 THEN [state |-> "draft", maximum |-> 3, policy |-> v1, expiresAt |-> {}]
                 ELSE AbsentMandate]
  /\ assigned = {m1} \X Agents
  /\ branch = [b \in Branches |-> NoBranch]
  /\ execution = [r \in Requests |-> NoExecution]
  /\ hold = [m \in Mandates |-> "none"]
  /\ resolution = [r \in Requests |-> Unresolved]
  /\ rowLock = [m \in Mandates |-> NoWorker]
  /\ now = 0
  /\ worker = [w \in Workers |-> Idle]
  /\ dispatches = [r \in Requests |-> 0]

DelegationInit == Drafted \/ Init
DelegationSpec == DelegationInit /\ [][Next]_vars

(* What was asked so far. *)
AskedFor ==
  {execution[r].payload : r \in {q \in Requests : execution[q].status # "absent"}}
    \cup {worker[w].payload : w \in {v \in Workers : worker[v].stage # "idle"}}

Asked ==
  {r \in Requests : execution[r].status # "absent"}
    \cup {worker[w].request : w \in {v \in Workers : worker[v].stage # "idle"}}

(* The part of the lifecycle that delegates and serves, one request at a time: *)
(* one request with three branches, or with two while time passes, or two       *)
(* requests with two branches.                                               *)
Delegating ==
  /\ mandate[m1].state \in {"draft", "active", "paused", "reconciliation_hold"}
  /\ mandate[m2].state = "absent"
  /\ m1 \in {a[1] : a \in assigned} /\ published = Policies
  /\ \E w \in Workers : worker[w].stage = "idle"
  /\ AskedFor \subseteq Asks \cup {AskBeyond}
  /\ branch[b3] # NoBranch => now = 0
  /\ Cardinality(Asked) = 2 =>
       /\ now = 0 /\ branch[b3] = NoBranch /\ AskBeyond \notin AskedFor
       /\ mandate[m1].state \in {"active", "reconciliation_hold"}

(* Two callers of one request id, of either mandate, once it is staffed or  *)
(* while it does not exist.                                                 *)
Administering ==
  /\ branch = [b \in Branches |-> NoBranch]
  /\ now = 0
  /\ Cardinality(Asked) <= 1
  /\ AskedFor \subseteq {Plain(m1), Plain(m2)}
  /\ AskedFor # {} => published = Policies
  /\ \A p \in AskedFor : Exists(p.mandate) => <<p.mandate, p.agent>> \in assigned

Explored == Delegating \/ Administering

Symmetry == Permutations(Requests) \cup Permutations(Workers)
=============================================================================
