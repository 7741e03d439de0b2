---------------------------- MODULE PolicyStore ----------------------------
(***************************************************************************)
(* The durable state of the control plane and the transactions that change  *)
(* it (src/src/persistence/policyStore.ts): policy versions, mandates and   *)
(* their lifecycle, agent assignments, delegated branches, the inference    *)
(* execution rows that carry every reservation, the reconciliation holds    *)
(* and the operator's resolutions.                                          *)
(*                                                                         *)
(* A transaction that takes the mandate row FOR UPDATE before anything else *)
(* and commits without waiting again is one action, enabled while no other  *)
(* transaction holds that row.  Admission is the exception: it reads the    *)
(* execution row without locking it and acts on what it read in a later     *)
(* statement, so it is two actions, AdmitRead and one of its endings, with  *)
(* rowLock held in between.  Completing, failing or holding an execution    *)
(* locks the execution row first and the mandate row only if it must.       *)
(***************************************************************************)
EXTENDS Amounts, PolicyEngine

CONSTANTS
  Mandates, Agents, Requests, Branches, Classes,
  Policies,          \* ids of policy versions
  PolicyOf,          \* the immutable content of each policy version
  Payloads,          \* what a request may ask for, see EvaluationInput
  Workers,           \* concurrent callers of the inference service
  NoPolicy, NoPayload, NoWorker, NoMandate, NoAgent,
  Minute, Hour, Day, Lease

ASSUME TimeAssumption == /\ Minute \in Nat /\ Hour \in Nat
                         /\ Day \in Nat /\ Lease \in Nat

ASSUME PayloadAssumption ==
  /\ \A p \in Payloads : p.mandate \in Mandates /\ p.cost \in Amount
  /\ NoPayload \notin Payloads

(* A request names at most one branch, and a class. *)
ASSUME ScopeAssumption ==
  \A p \in Payloads : /\ \A s \in p.scope : s.branch \in Branches
                      /\ \A s, t \in p.scope : s = t

(* The limits of a policy version are counts and amounts (validatePolicy, and *)
(* the checks of the policy_versions table).                                 *)
ASSUME PolicyAssumption ==
  \A v \in Policies :
    /\ {PolicyOf[v].hourly, PolicyOf[v].rate} \subseteq Nat
    /\ \A c \in DOMAIN PolicyOf[v].classes :
         {PolicyOf[v].classes[c].invocations, PolicyOf[v].classes[c].budget} \subseteq Nat

ASSUME BranchesAssumption == IsFiniteSet(Branches) /\ NoMandate \notin Mandates

ASSUME NoWorkerAssumption == NoWorker \notin Workers

VARIABLES
  published,    \* the policy versions in policy_versions
  mandate,      \* control_mandates
  assigned,     \* mandate_agent_assignments, pairs <<mandate, agent>>
  branch,       \* mandate_branches
  execution,    \* inference_executions, with the policy of its decision
  hold,         \* mandate_reconciliation_holds: the prior state, or "none"
  resolution,   \* reconciliation_resolutions
  rowLock       \* the worker whose admission holds the mandate row

storeVars == <<published, mandate, assigned, branch, execution, hold,
               resolution, rowLock>>

-----------------------------------------------------------------------------
MandateStates == { "draft", "active", "paused", "closing", "closed", "exhausted",
                   "tripped", "expired", "reconciliation_hold" }

(* What an operator may request. *)
MandateTransitions ==
  [ draft     |-> {"active", "expired"},
    active    |-> {"paused", "closing", "exhausted", "tripped", "expired",
                   "reconciliation_hold"},
    paused    |-> {"active", "closing", "expired", "reconciliation_hold"},
    closing   |-> {"closed", "reconciliation_hold"},
    closed    |-> {},
    exhausted |-> {"closing", "reconciliation_hold"},
    tripped   |-> {"active", "closing", "reconciliation_hold"},
    expired   |-> {"closing"},
    reconciliation_hold |-> {"closing"} ]

(* The states a mandate can be taken from into a reconciliation hold. *)
Holdable == {"active", "paused", "closing", "exhausted", "tripped"}

Statuses == {"absent", "denied", "executing", "completed",
             "reconciliation_hold", "failed"}

HoldReasons == { "PROVIDER_OUTCOME_AMBIGUOUS", "PROVIDER_RESULT_REJECTED",
                 "POST_PROVIDER_RECONCILIATION_FAILED",
                 "EXECUTION_LEASE_EXPIRED" }

Failures == HoldReasons \cup
  { "none", "PROVIDER_NOT_DISPATCHED", "RECONCILED_BILLED_NO_RESPONSE",
    "RECONCILED_NOT_BILLED" }

Unknown == -1      \* an amount that is NULL

NoExecution ==
  [ status |-> "absent", payload |-> NoPayload, policy |-> NoPolicy,
    reserved |-> 0, actual |-> Unknown, failure |-> "none",
    answered |-> FALSE, createdAt |-> 0 ]

AbsentMandate == [ state |-> "absent", maximum |-> 0, policy |-> NoPolicy,
                   expiresAt |-> {} ]

NoBranch == [ mandate |-> NoMandate, parent |-> {}, agent |-> NoAgent,
              policy |-> NoPolicy, classes |-> {}, maximum |-> 0,
              expiresAt |-> {} ]

Unresolved == [kind |-> "none", actual |-> 0]

(* The rows of the tables. *)
MandateRow == [ state: MandateStates \cup {"absent"}, maximum: Amount,
                policy: Policies \cup {NoPolicy}, expiresAt: SUBSET Nat ]

BranchRow == [ mandate: Mandates \cup {NoMandate}, parent: SUBSET Branches,
               agent: Agents \cup {NoAgent}, policy: Policies \cup {NoPolicy},
               classes: SUBSET Classes, maximum: Amount, expiresAt: SUBSET Nat ]

ExecutionRow == [ status: Statuses, payload: Payloads \cup {NoPayload},
                  policy: Policies \cup {NoPolicy}, reserved: Amount,
                  actual: Amount \cup {Unknown}, failure: Failures,
                  answered: BOOLEAN, createdAt: Nat ]

ResolutionRow == [kind: {"none", "settle", "confirm_not_billed"}, actual: Amount]

StoreTypeOK ==
  /\ published \subseteq Policies
  /\ mandate \in [Mandates -> MandateRow]
  /\ assigned \subseteq Mandates \X Agents
  /\ branch \in [Branches -> BranchRow]
  /\ execution \in [Requests -> ExecutionRow]
  /\ hold \in [Mandates -> Holdable \cup {"none"}]
  /\ resolution \in [Requests -> ResolutionRow]
  /\ rowLock \in [Mandates -> Workers \cup {NoWorker}]
  /\ \A r \in Requests :
       execution[r].status # "absent" => execution[r].payload \in Payloads

-----------------------------------------------------------------------------
(* What an execution row counts against its mandate: the cost once it is    *)
(* settled, the reservation while it may still be billed, nothing else.     *)
Settled(e) == \/ e.status = "completed"
              \/ e.failure = "RECONCILED_BILLED_NO_RESPONSE"

Spend(e) == IF Settled(e) THEN e.actual
            ELSE IF e.status \in {"executing", "reconciliation_hold"}
                   THEN e.reserved ELSE 0

RowOf(m, r) == /\ execution[r].status # "absent"
               /\ execution[r].payload.mandate = m

(* Faulty: a window open at its far end. *)
SpentSinceOpen(m, t) ==
  Total([r \in Requests |-> IF RowOf(m, r) /\ execution[r].createdAt > t
                              THEN Spend(execution[r]) ELSE 0], Requests)

SpentSince(m, t) ==
  Total([r \in Requests |-> IF RowOf(m, r) /\ execution[r].createdAt >= t
                              THEN Spend(execution[r]) ELSE 0], Requests)

(* Faulty: counts what was billed and forgets what is reserved. *)
MandateSpentBilled(m) ==
  Total([r \in Requests |-> IF RowOf(m, r) /\ Settled(execution[r])
                              THEN execution[r].actual ELSE 0], Requests)

MandateSpent(m) ==
  Total([r \in Requests |-> IF RowOf(m, r) THEN Spend(execution[r]) ELSE 0],
        Requests)

AdmittedSince(m, t) ==
  {r \in Requests : /\ RowOf(m, r) /\ execution[r].createdAt >= t
                    /\ execution[r].status # "denied"}

(* The rows a branch has used, in one class or in all of them. *)
BranchRows(m, b) ==
  {r \in Requests : /\ RowOf(m, r)
                    /\ \E s \in execution[r].payload.scope : s.branch = b}

ClassRows(m, b, c) ==
  {r \in BranchRows(m, b) :
     \E s \in execution[r].payload.scope : s.class = c}

(* Faulty: a reservation counts once it is billed. *)
SpentOnBilled(rows) ==
  Total([r \in rows |-> IF Settled(execution[r]) THEN execution[r].actual ELSE 0], rows)

SpentOn(rows) == Total([r \in rows |-> Spend(execution[r])], rows)

Children(m, b) ==
  {c \in Branches : branch[c].mandate = m /\ branch[c].parent = {b}}

Delegated(m, b) == Total([c \in Branches |-> branch[c].maximum], Children(m, b))

(* The scope of a request, looked up in the mandate's branches. *)
WorkloadInput(p, s) ==
  LET m == p.mandate
      b == branch[s.branch]
      known == b.mandate = m
  IN [ class            |-> s.class,
       branchAuthorized |-> known /\ b.agent = p.agent /\ b.policy = mandate[m].policy,
       branchMaximum    |-> IF known THEN b.maximum ELSE 0,
       branchSpent      |-> SpentOn(BranchRows(m, s.branch)) + Delegated(m, s.branch),
       branchExpiresAt  |-> IF known THEN b.expiresAt ELSE {},
       classAuthorized  |-> known /\ s.class \in b.classes,
       classInvocations |-> Cardinality({r \in ClassRows(m, s.branch, s.class) :
                                           execution[r].status # "denied"}),
       classSpent       |-> SpentOn(ClassRows(m, s.branch, s.class)) ]

(* Everything admission reads once it holds the mandate row. *)
EvaluationInput(p, decidedAt) ==
  LET m == p.mandate
  IN [ now                |-> decidedAt,
       mandateState       |-> mandate[m].state,
       mandateExpiresAt   |-> mandate[m].expiresAt,
       agentAuthorized    |-> <<m, p.agent>> \in assigned,
       capabilities       |-> p.capabilities,
       provider           |-> p.provider,
       model              |-> p.model,
       cost               |-> p.cost,
       inputTokens        |-> p.inputTokens,
       maxOutputTokens    |-> p.maxOutputTokens,
       spentHour          |-> SpentSince(m, decidedAt - Hour),
       spentDay           |-> SpentSince(m, decidedAt - Day),
       mandateSpent       |-> MandateSpent(m),
       mandateMaximum     |-> mandate[m].maximum,
       requestsLastMinute |-> Cardinality(AdmittedSince(m, decidedAt - Minute)),
       workload           |-> {WorkloadInput(p, s) : s \in p.scope} ]

Decision(p, decidedAt) ==
  EvaluatePolicy(PolicyOf[mandate[p.mandate].policy], EvaluationInput(p, decidedAt))

-----------------------------------------------------------------------------
StoreInit ==
  /\ published = {}
  /\ mandate = [m \in Mandates |-> AbsentMandate]
  /\ assigned = {}
  /\ branch = [b \in Branches |-> NoBranch]
  /\ execution = [r \in Requests |-> NoExecution]
  /\ hold = [m \in Mandates |-> "none"]
  /\ resolution = [r \in Requests |-> Unresolved]
  /\ rowLock = [m \in Mandates |-> NoWorker]

Exists(m) == mandate[m].state # "absent"
Free(m) == rowLock[m] = NoWorker

(* SELECT ... FOR UPDATE over the join of a mandate and its policy version   *)
(* locks both rows, so mandates that share a version share its lock, and a   *)
(* foreign key that refers to the version waits for it.                      *)
PolicyFree(v) == \A m \in Mandates : mandate[m].policy = v => Free(m)

(* Administration.  Versions are immutable: publishing twice is refused. *)
PublishPolicy(v) ==
  /\ v \notin published
  /\ published' = published \cup {v}
  /\ UNCHANGED <<mandate, assigned, branch, execution, hold, resolution, rowLock>>

CreateMandate(m, maximum, v, expiry) ==
  /\ ~Exists(m)
  /\ v \in published /\ PolicyFree(v)
  /\ maximum > 0
  /\ mandate' = [mandate EXCEPT ![m] = [state |-> "draft", maximum |-> maximum,
                                        policy |-> v, expiresAt |-> expiry]]
  /\ UNCHANGED <<published, assigned, branch, execution, hold, resolution, rowLock>>

AssignAgent(m, a) ==
  /\ Exists(m) /\ Free(m)
  /\ <<m, a>> \notin assigned
  /\ assigned' = assigned \cup {<<m, a>>}
  /\ UNCHANGED <<published, mandate, branch, execution, hold, resolution, rowLock>>

SetMandatePolicy(m, v) ==
  /\ Exists(m) /\ Free(m)
  /\ mandate[m].state \in {"draft", "paused"}
  /\ v \in published /\ PolicyFree(v)
  /\ mandate' = [mandate EXCEPT ![m].policy = v]
  /\ UNCHANGED <<published, assigned, branch, execution, hold, resolution, rowLock>>

TransitionMandateState(m, to) ==
  /\ Exists(m) /\ Free(m)
  /\ to \in MandateTransitions[mandate[m].state]
  /\ mandate' = [mandate EXCEPT ![m].state = to]
  /\ UNCHANGED <<published, assigned, branch, execution, hold, resolution, rowLock>>

(* No expiry is later than every expiry. *)
NoLater(expiry, limit) ==
  \A l \in limit : \E e \in expiry : e <= l

WithinParent(m, new, parent) ==
  /\ branch[parent].mandate = m
  /\ branch[parent].policy = mandate[m].policy
  /\ new.classes \subseteq branch[parent].classes
  /\ new.maximum + Delegated(m, parent) <= branch[parent].maximum
  /\ NoLater(new.expiresAt, branch[parent].expiresAt)

CreateBranch(m, b, new, occurredAt) ==
  /\ Exists(m) /\ Free(m) /\ PolicyFree(mandate[m].policy)
  /\ branch[b] = NoBranch
  /\ mandate[m].state \in {"draft", "paused"}
  /\ new.maximum > 0 /\ new.maximum <= mandate[m].maximum
  /\ \A e \in new.expiresAt : /\ e > occurredAt
                              /\ \A l \in mandate[m].expiresAt : e <= l
  /\ new.classes # {}
  /\ new.classes \subseteq DOMAIN PolicyOf[mandate[m].policy].classes
  /\ <<m, new.agent>> \in assigned
  /\ \A parent \in new.parent : WithinParent(m, new, parent)
  /\ branch' = [branch EXCEPT ![b] =
                  [ mandate |-> m, policy |-> mandate[m].policy,
                    parent |-> new.parent, agent |-> new.agent,
                    classes |-> new.classes, maximum |-> new.maximum,
                    expiresAt |-> new.expiresAt ]]
  /\ UNCHANGED <<published, mandate, assigned, execution, hold, resolution, rowLock>>

-----------------------------------------------------------------------------
(* Admission, first half: SELECT ... FOR UPDATE on the mandate.  The caller *)
(* then reads its execution row, if any, without a lock.                    *)
AdmitRead(w, m) ==
  /\ Exists(m) /\ Free(m) /\ PolicyFree(mandate[m].policy)
  /\ rowLock' = [rowLock EXCEPT ![m] = w]
  /\ UNCHANGED <<published, mandate, assigned, branch, execution, hold, resolution>>

Unlock(m) == rowLock' = [rowLock EXCEPT ![m] = NoWorker]

(* Faulty: returns with the transaction open. *)
AdmitNothingLeaked(m) == UNCHANGED storeVars

(* The transaction rolls back, or commits having changed nothing. *)
AdmitNothing(m) ==
  /\ Unlock(m)
  /\ UNCHANGED <<published, mandate, assigned, branch, execution, hold, resolution>>

(* Faulty: inserts or replaces. *)
AdmitNewUpsert(r, p, decidedAt) ==
  /\ LET allowed == Decision(p, decidedAt).outcome = "ALLOW"
     IN execution' = [execution EXCEPT ![r] =
          [ status    |-> IF allowed THEN "executing" ELSE "denied",
            payload   |-> p,
            policy    |-> mandate[p.mandate].policy,
            reserved  |-> IF allowed THEN p.cost ELSE 0,
            actual    |-> Unknown,
            failure   |-> "none",
            answered  |-> FALSE,
            createdAt |-> decidedAt ]]
  /\ Unlock(p.mandate)
  /\ UNCHANGED <<published, mandate, assigned, branch, hold, resolution>>

(* No row was read: decide, and insert the decision with its reservation.   *)
(* The primary key refuses a row inserted meanwhile under another mandate.  *)
AdmitNew(r, p, decidedAt) ==
  /\ execution[r].status = "absent"
  /\ LET allowed == Decision(p, decidedAt).outcome = "ALLOW"
     IN execution' = [execution EXCEPT ![r] =
          [ status    |-> IF allowed THEN "executing" ELSE "denied",
            payload   |-> p,
            policy    |-> mandate[p.mandate].policy,
            reserved  |-> IF allowed THEN p.cost ELSE 0,
            actual    |-> Unknown,
            failure   |-> "none",
            answered  |-> FALSE,
            createdAt |-> decidedAt ]]
  /\ Unlock(p.mandate)
  /\ UNCHANGED <<published, mandate, assigned, branch, hold, resolution>>

(* Hold the mandate; the first hold remembers the state to come back to. *)
HoldMandate(m) ==
  IF mandate[m].state \in Holdable
    THEN /\ hold' = [hold EXCEPT ![m] = IF @ = "none" THEN mandate[m].state ELSE @]
         /\ mandate' = [mandate EXCEPT ![m].state = "reconciliation_hold"]
    ELSE UNCHANGED <<hold, mandate>>

LeaseExpired(r, retriedAt) == retriedAt - execution[r].createdAt >= Lease

(* The row was read as executing and its lease is over.  The update only    *)
(* touches a row that is executing still; the mandate is held regardless.   *)
AdmitExpired(r) ==
  LET m == execution[r].payload.mandate
  IN /\ execution' = IF execution[r].status = "executing"
                       THEN [execution EXCEPT ![r].status = "reconciliation_hold",
                                              ![r].failure = "EXECUTION_LEASE_EXPIRED"]
                       ELSE execution
     /\ HoldMandate(m)
     /\ Unlock(m)
     /\ UNCHANGED <<published, assigned, branch, resolution>>

-----------------------------------------------------------------------------
(* The outcome of a dispatched request, recorded against its row. *)
CompleteInference(r, actual) ==
  /\ execution[r].status = "executing"
  /\ actual <= execution[r].reserved
  /\ execution' = [execution EXCEPT ![r].status = "completed",
                                    ![r].actual = actual,
                                    ![r].answered = TRUE]
  /\ UNCHANGED <<published, mandate, assigned, branch, hold, resolution, rowLock>>

CompleteOverrun(r, actual) ==
  /\ execution[r].status = "executing"
  /\ actual > execution[r].reserved
  /\ Free(execution[r].payload.mandate)
  /\ execution' = [execution EXCEPT ![r].status = "reconciliation_hold",
                                    ![r].actual = actual,
                                    ![r].answered = TRUE]
  /\ HoldMandate(execution[r].payload.mandate)
  /\ UNCHANGED <<published, assigned, branch, resolution, rowLock>>

(* Faulty: does not look at the status of the row. *)
HoldInferenceAnyRow(r, reason, answered) ==
  /\ Free(execution[r].payload.mandate)
  /\ execution' = [execution EXCEPT ![r].status = "reconciliation_hold",
                                    ![r].failure = reason,
                                    ![r].answered = answered]
  /\ HoldMandate(execution[r].payload.mandate)
  /\ UNCHANGED <<published, assigned, branch, resolution, rowLock>>

HoldInference(r, reason, answered) ==
  /\ execution[r].status = "executing"
  /\ Free(execution[r].payload.mandate)
  /\ execution' = [execution EXCEPT ![r].status = "reconciliation_hold",
                                    ![r].failure = reason,
                                    ![r].answered = answered]
  /\ HoldMandate(execution[r].payload.mandate)
  /\ UNCHANGED <<published, assigned, branch, resolution, rowLock>>

FailInference(r) ==
  /\ execution[r].status = "executing"
  /\ execution' = [execution EXCEPT ![r].status = "failed",
                                    ![r].failure = "PROVIDER_NOT_DISPATCHED"]
  /\ UNCHANGED <<published, mandate, assigned, branch, hold, resolution, rowLock>>

-----------------------------------------------------------------------------
(* A case is a held execution nobody has resolved. *)
Open(r) == /\ execution[r].status = "reconciliation_hold"
           /\ resolution[r].kind = "none"

OpenCases(m) == {r \in Requests : RowOf(m, r) /\ Open(r)}

(* Is r the case whose resolution gives the mandate back? *)
LastCaseAssumed(m, r) == TRUE   \* Faulty: never looks for another one.

LastCase(m, r) == OpenCases(m) = {r}

ResolvedRow(e, kind, actual) ==
  IF kind = "settle" /\ e.answered
    THEN [e EXCEPT !.status = "completed", !.actual = actual, !.failure = "none"]
  ELSE IF kind = "settle"
    THEN [e EXCEPT !.status = "failed", !.actual = actual,
                   !.failure = "RECONCILED_BILLED_NO_RESPONSE"]
    ELSE [e EXCEPT !.status = "failed", !.actual = 0,
                   !.failure = "RECONCILED_NOT_BILLED"]

Restored(prior) == IF prior = "active" THEN "paused" ELSE prior

(* Closing the last case of a mandate gives it back; anything unexpected    *)
(* rolls the whole resolution back.                                         *)
ReleaseMandate(m) ==
  IF hold[m] = "none"
    THEN /\ mandate[m].state \in {"closed", "expired"}
         /\ UNCHANGED <<mandate, hold>>
    ELSE /\ mandate[m].state \in {"reconciliation_hold", "closing"}
         /\ mandate' = IF mandate[m].state = "reconciliation_hold"
                         THEN [mandate EXCEPT ![m].state = Restored(hold[m])]
                         ELSE mandate
         /\ hold' = [hold EXCEPT ![m] = "none"]

ResolveReconciliation(r, kind, actual) ==
  LET m == execution[r].payload.mandate
  IN /\ Open(r) /\ Free(m)
     /\ resolution' = [resolution EXCEPT ![r] =
                         [kind |-> kind,
                          actual |-> IF kind = "settle" THEN actual ELSE 0]]
     /\ execution' = [execution EXCEPT ![r] = ResolvedRow(@, kind, actual)]
     /\ IF LastCase(m, r) THEN ReleaseMandate(m)
                          ELSE UNCHANGED <<mandate, hold>>
     /\ UNCHANGED <<published, assigned, branch, rowLock>>
=============================================================================
