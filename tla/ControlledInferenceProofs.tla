---------------------- MODULE ControlledInferenceProofs ----------------------
(***************************************************************************)
(* The controlled inference path, for any number of mandates, requests,     *)
(* callers, policies and operators' requests.                               *)
(*                                                                          *)
(* Types first: every transaction of PolicyStore keeps the shape of the     *)
(* tables, and every step of a call keeps that of the calls, with the facts *)
(* about single transactions that the rest cites.  Then safety: a request   *)
(* reaches the provider at most once, spend that may have happened is never *)
(* dropped, an open case keeps its mandate out of use, and the maximum of a *)
(* mandate bounds its spend.                                                *)
(***************************************************************************)
EXTENDS ControlledInference, AmountsProofs

(* The empty database is well formed. *)
LEMMA StoreInitType == StoreInit => StoreTypeOK
<1> SUFFICES ASSUME StoreInit PROVE StoreTypeOK
  OBVIOUS
<1>1. AbsentMandate \in MandateRow
  BY MaxAmountAssumption DEF AbsentMandate, MandateRow, Amount
<1>2. NoBranch \in BranchRow
  BY MaxAmountAssumption DEF NoBranch, BranchRow, Amount
<1>3. NoExecution \in ExecutionRow
  BY MaxAmountAssumption
  DEF NoExecution, ExecutionRow, Statuses, Failures, Unknown, Amount
<1>4. Unresolved \in ResolutionRow
  BY MaxAmountAssumption DEF Unresolved, ResolutionRow, Amount
<1>5. \A r \in Requests : execution[r].status = "absent"
  BY DEF StoreInit, NoExecution
<1> QED
  BY <1>1, <1>2, <1>3, <1>4, <1>5 DEF StoreInit, StoreTypeOK

(* Administration. *)
LEMMA PublishType ==
  ASSUME StoreTypeOK, NEW v \in Policies, PublishPolicy(v)
  PROVE  StoreTypeOK'
BY DEF StoreTypeOK, PublishPolicy

LEMMA CreateMandateType ==
  ASSUME StoreTypeOK, NEW m \in Mandates, NEW maximum \in Amount, NEW v \in Policies,
         NEW expiry \in SUBSET Nat, CreateMandate(m, maximum, v, expiry)
  PROVE  StoreTypeOK'
<1>1. [state |-> "draft", maximum |-> maximum, policy |-> v, expiresAt |-> expiry]
        \in MandateRow
  BY DEF MandateRow, MandateStates
<1> QED
  BY <1>1 DEF StoreTypeOK, CreateMandate

LEMMA AssignAgentType ==
  ASSUME StoreTypeOK, NEW m \in Mandates, NEW a \in Agents, AssignAgent(m, a)
  PROVE  StoreTypeOK'
BY DEF StoreTypeOK, AssignAgent

LEMMA SetMandatePolicyType ==
  ASSUME StoreTypeOK, NEW m \in Mandates, NEW v \in Policies, SetMandatePolicy(m, v)
  PROVE  StoreTypeOK'
<1>1. [mandate[m] EXCEPT !.policy = v] \in MandateRow
  BY DEF StoreTypeOK, MandateRow
<1> QED
  BY <1>1 DEF StoreTypeOK, SetMandatePolicy

(* A mandate's row with another state is a mandate's row. *)
LEMMA MandateStateType ==
  ASSUME StoreTypeOK, NEW m \in Mandates, NEW to \in MandateStates
  PROVE  [mandate EXCEPT ![m].state = to] \in [Mandates -> MandateRow]
BY DEF StoreTypeOK, MandateRow

LEMMA TransitionType ==
  ASSUME StoreTypeOK, NEW m \in Mandates, NEW to \in MandateStates,
         TransitionMandateState(m, to)
  PROVE  StoreTypeOK'
BY MandateStateType DEF StoreTypeOK, TransitionMandateState

LEMMA CreateBranchType ==
  ASSUME StoreTypeOK, NEW m \in Mandates, NEW b \in Branches,
         NEW new \in [parent: SUBSET Branches, agent: Agents, classes: SUBSET Classes,
                      maximum: Amount, expiresAt: SUBSET Nat],
         NEW at \in Nat, CreateBranch(m, b, new, at)
  PROVE  StoreTypeOK'
<1>1. mandate[m].policy \in Policies \cup {NoPolicy}
  BY DEF StoreTypeOK, MandateRow
<1>2. [ mandate |-> m, policy |-> mandate[m].policy, parent |-> new.parent,
        agent |-> new.agent, classes |-> new.classes, maximum |-> new.maximum,
        expiresAt |-> new.expiresAt ] \in BranchRow
  BY <1>1 DEF BranchRow
<1> QED
  BY <1>2 DEF StoreTypeOK, CreateBranch

-----------------------------------------------------------------------------
(* Admission. *)
LEMMA AdmitReadType ==
  ASSUME StoreTypeOK, NEW w \in Workers, NEW m \in Mandates, AdmitRead(w, m)
  PROVE  StoreTypeOK'
BY DEF StoreTypeOK, AdmitRead

LEMMA UnlockType ==
  ASSUME StoreTypeOK, NEW m \in Mandates, Unlock(m)
  PROVE  rowLock' \in [Mandates -> Workers \cup {NoWorker}]
BY DEF StoreTypeOK, Unlock

LEMMA AdmitNothingType ==
  ASSUME StoreTypeOK, NEW m \in Mandates, AdmitNothing(m)
  PROVE  StoreTypeOK'
BY UnlockType DEF StoreTypeOK, AdmitNothing

LEMMA AdmitNewType ==
  ASSUME StoreTypeOK, NEW r \in Requests, NEW p \in Payloads, NEW at \in Nat,
         AdmitNew(r, p, at)
  PROVE  StoreTypeOK'
<1> DEFINE allowed == Decision(p, at).outcome = "ALLOW"
           row == [ status    |-> IF allowed THEN "executing" ELSE "denied",
                    payload   |-> p,
                    policy    |-> mandate[p.mandate].policy,
                    reserved  |-> IF allowed THEN p.cost ELSE 0,
                    actual    |-> Unknown,
                    failure   |-> "none",
                    answered  |-> FALSE,
                    createdAt |-> at ]
<1>1. p.mandate \in Mandates /\ p.cost \in Amount /\ 0 \in Amount
  BY PayloadAssumption, MaxAmountAssumption DEF Amount
<1>2. mandate[p.mandate].policy \in Policies \cup {NoPolicy}
  BY <1>1 DEF StoreTypeOK, MandateRow
<1>3. row \in ExecutionRow /\ row.payload \in Payloads
  <2> HIDE DEF allowed
  <2> QED
    BY <1>1, <1>2 DEF ExecutionRow, Statuses, Failures, Unknown
<1>4. execution' = [execution EXCEPT ![r] = row]
  BY DEF AdmitNew
<1> HIDE DEF row
<1>5. rowLock' \in [Mandates -> Workers \cup {NoWorker}]
  BY <1>1, UnlockType DEF AdmitNew
<1>6. execution' \in [Requests -> ExecutionRow]
  BY <1>3, <1>4 DEF StoreTypeOK
<1>7. \A x \in Requests : execution'[x].status # "absent" => execution'[x].payload \in Payloads
  BY <1>3, <1>4 DEF StoreTypeOK
<1> QED
  BY <1>5, <1>6, <1>7 DEF StoreTypeOK, AdmitNew

(* Holding a mandate keeps the shape of mandates and holds. *)
LEMMA HoldMandateType ==
  ASSUME StoreTypeOK, NEW m \in Mandates, HoldMandate(m)
  PROVE  /\ mandate' \in [Mandates -> MandateRow]
         /\ hold' \in [Mandates -> Holdable \cup {"none"}]
<1>1. CASE mandate[m].state \in Holdable
  <2>1. mandate' \in [Mandates -> MandateRow]
    <3>1. mandate' = [mandate EXCEPT ![m].state = "reconciliation_hold"]
      BY <1>1 DEF HoldMandate
    <3>2. "reconciliation_hold" \in MandateStates
      BY DEF MandateStates
    <3> QED
      BY <3>1, <3>2, MandateStateType
  <2>2. hold' \in [Mandates -> Holdable \cup {"none"}]
    BY <1>1 DEF HoldMandate, StoreTypeOK
  <2> QED
    BY <2>1, <2>2
<1>2. CASE mandate[m].state \notin Holdable
  BY <1>2 DEF HoldMandate, StoreTypeOK
<1> QED
  BY <1>1, <1>2

(* What the updates of one execution row have in common. *)
LEMMA UpdatedRowType ==
  ASSUME StoreTypeOK, NEW r \in Requests, execution[r].status # "absent",
         NEW row \in ExecutionRow, row.payload = execution[r].payload,
         execution' = [execution EXCEPT ![r] = row]
  PROVE  /\ execution' \in [Requests -> ExecutionRow]
         /\ \A x \in Requests :
              execution'[x].status # "absent" => execution'[x].payload \in Payloads
BY DEF StoreTypeOK

(* A row with other columns is a row, of the same payload. *)
LEMMA RowColumns ==
  ASSUME NEW e \in ExecutionRow, NEW s \in Statuses, NEW f \in Failures,
         NEW v \in Amount \cup {Unknown}, NEW answered \in BOOLEAN
  PROVE  /\ [e EXCEPT !.status = s, !.failure = f] \in ExecutionRow
         /\ [e EXCEPT !.status = s, !.actual = v, !.answered = answered] \in ExecutionRow
         /\ [e EXCEPT !.status = s, !.actual = v, !.failure = f] \in ExecutionRow
         /\ [e EXCEPT !.status = s, !.failure = f, !.answered = answered] \in ExecutionRow
<1>1. [e EXCEPT !.status = s, !.failure = f] \in ExecutionRow
  BY DEF ExecutionRow
<1>2. [e EXCEPT !.status = s, !.actual = v, !.answered = answered] \in ExecutionRow
  BY DEF ExecutionRow
<1>3. [e EXCEPT !.status = s, !.actual = v, !.failure = f] \in ExecutionRow
  BY DEF ExecutionRow
<1>4. [e EXCEPT !.status = s, !.failure = f, !.answered = answered] \in ExecutionRow
  BY DEF ExecutionRow
<1> QED
  BY <1>1, <1>2, <1>3, <1>4

(* The rows the outcomes write. *)
CompletedRow(e, actual) ==
  [e EXCEPT !.status = "completed", !.actual = actual, !.answered = TRUE]

OverrunRow(e, actual) ==
  [e EXCEPT !.status = "reconciliation_hold", !.actual = actual, !.answered = TRUE]

HeldRow(e, reason, answered) ==
  [e EXCEPT !.status = "reconciliation_hold", !.failure = reason, !.answered = answered]

FailedRow(e) == [e EXCEPT !.status = "failed", !.failure = "PROVIDER_NOT_DISPATCHED"]

ExpiredRow(e) ==
  [e EXCEPT !.status = "reconciliation_hold", !.failure = "EXECUTION_LEASE_EXPIRED"]

Writes(r, row) == execution' = [execution EXCEPT ![r] = row]

LEMMA WrittenRows ==
  ASSUME StoreTypeOK, NEW r \in Requests
  PROVE  /\ \A actual : CompleteInference(r, actual) => Writes(r, CompletedRow(execution[r], actual))
         /\ \A actual : CompleteOverrun(r, actual) => Writes(r, OverrunRow(execution[r], actual))
         /\ \A reason, answered :
              HoldInference(r, reason, answered) => Writes(r, HeldRow(execution[r], reason, answered))
         /\ FailInference(r) => Writes(r, FailedRow(execution[r]))
         /\ AdmitExpired(r) =>
              IF execution[r].status = "executing" THEN Writes(r, ExpiredRow(execution[r]))
                                                   ELSE UNCHANGED execution
<1>1. execution \in [Requests -> ExecutionRow]
  BY DEF StoreTypeOK
<1>2. ASSUME NEW actual, CompleteInference(r, actual)
      PROVE  Writes(r, CompletedRow(execution[r], actual))
  BY <1>1, <1>2 DEF CompleteInference, Writes, CompletedRow
<1>3. ASSUME NEW actual, CompleteOverrun(r, actual)
      PROVE  Writes(r, OverrunRow(execution[r], actual))
  BY <1>1, <1>3 DEF CompleteOverrun, Writes, OverrunRow
<1>4. ASSUME NEW reason, NEW answered, HoldInference(r, reason, answered)
      PROVE  Writes(r, HeldRow(execution[r], reason, answered))
  BY <1>1, <1>4 DEF HoldInference, Writes, HeldRow
<1>5. FailInference(r) => Writes(r, FailedRow(execution[r]))
  BY <1>1 DEF FailInference, Writes, FailedRow
<1>6. AdmitExpired(r) => IF execution[r].status = "executing"
                         THEN Writes(r, ExpiredRow(execution[r])) ELSE UNCHANGED execution
  BY <1>1 DEF AdmitExpired, Writes, ExpiredRow
<1> QED
  BY <1>2, <1>3, <1>4, <1>5, <1>6

LEMMA WritesOne ==
  ASSUME StoreTypeOK, NEW r \in Requests, NEW row, Writes(r, row)
  PROVE  /\ execution'[r] = row
         /\ \A x \in Requests : x # r => execution'[x] = execution[x]
BY DEF StoreTypeOK, Writes

(* Their columns.  None of them touches the decision. *)
LEMMA WrittenColumns ==
  ASSUME NEW e \in ExecutionRow
  PROVE  /\ \A actual : LET f == CompletedRow(e, actual)
                        IN  /\ f.status = "completed" /\ f.actual = actual /\ f.failure = e.failure
                            /\ f.payload = e.payload /\ f.policy = e.policy
                            /\ f.reserved = e.reserved /\ f.createdAt = e.createdAt
         /\ \A actual : LET f == OverrunRow(e, actual)
                        IN  /\ f.status = "reconciliation_hold" /\ f.actual = actual
                            /\ f.failure = e.failure
                            /\ f.payload = e.payload /\ f.policy = e.policy
                            /\ f.reserved = e.reserved /\ f.createdAt = e.createdAt
         /\ \A reason, answered :
              LET f == HeldRow(e, reason, answered)
              IN  /\ f.status = "reconciliation_hold" /\ f.failure = reason /\ f.actual = e.actual
                  /\ f.payload = e.payload /\ f.policy = e.policy
                  /\ f.reserved = e.reserved /\ f.createdAt = e.createdAt
         /\ LET f == FailedRow(e)
            IN  /\ f.status = "failed" /\ f.failure = "PROVIDER_NOT_DISPATCHED" /\ f.actual = e.actual
                /\ f.payload = e.payload /\ f.policy = e.policy
                /\ f.reserved = e.reserved /\ f.createdAt = e.createdAt
         /\ LET f == ExpiredRow(e)
            IN  /\ f.status = "reconciliation_hold" /\ f.failure = "EXECUTION_LEASE_EXPIRED"
                /\ f.actual = e.actual
                /\ f.payload = e.payload /\ f.policy = e.policy
                /\ f.reserved = e.reserved /\ f.createdAt = e.createdAt
BY DEF ExecutionRow, CompletedRow, OverrunRow, HeldRow, FailedRow, ExpiredRow

(* The store when executions, mandates and holds change, and locks.           *)
LEMMA StoreTyped ==
  ASSUME StoreTypeOK, UNCHANGED <<published, assigned, branch>>,
         mandate' \in [Mandates -> MandateRow], hold' \in [Mandates -> Holdable \cup {"none"}],
         execution' \in [Requests -> ExecutionRow],
         \A x \in Requests : execution'[x].status # "absent" => execution'[x].payload \in Payloads,
         resolution' \in [Requests -> ResolutionRow],
         rowLock' \in [Mandates -> Workers \cup {NoWorker}]
  PROVE  StoreTypeOK'
BY DEF StoreTypeOK

LEMMA AdmitExpiredType ==
  ASSUME StoreTypeOK, NEW r \in Requests, execution[r].payload \in Payloads,
         AdmitExpired(r)
  PROVE  StoreTypeOK'
<1> DEFINE m == execution[r].payload.mandate
           row == [execution[r] EXCEPT !.status = "reconciliation_hold",
                                       !.failure = "EXECUTION_LEASE_EXPIRED"]
<1>1. m \in Mandates
  BY PayloadAssumption
<1>2. HoldMandate(m) /\ Unlock(m)
  BY DEF AdmitExpired
<1>3. /\ execution' \in [Requests -> ExecutionRow]
      /\ \A x \in Requests :
           execution'[x].status # "absent" => execution'[x].payload \in Payloads
  <2>1. CASE execution[r].status = "executing"
    <3>1. execution \in [Requests -> ExecutionRow] /\ execution[r] \in ExecutionRow
      BY DEF StoreTypeOK
    <3>2. execution' = [execution EXCEPT ![r] = row]
      BY <2>1, <3>1 DEF AdmitExpired
    <3>3. row \in ExecutionRow
      BY <3>1, RowColumns DEF Statuses, Failures, HoldReasons
    <3>4. row.payload = execution[r].payload
      BY <3>1 DEF ExecutionRow
    <3> QED
      BY <2>1, <3>2, <3>3, <3>4, UpdatedRowType
  <2>2. CASE execution[r].status # "executing"
    BY <2>2 DEF AdmitExpired, StoreTypeOK
  <2> QED
    BY <2>1, <2>2
<1> QED
  BY <1>1, <1>2, <1>3, HoldMandateType, UnlockType DEF StoreTypeOK, AdmitExpired

-----------------------------------------------------------------------------
(* Outcomes. *)
LEMMA CompleteType ==
  ASSUME StoreTypeOK, NEW r \in Requests, NEW actual \in Amount,
         CompleteInference(r, actual)
  PROVE  StoreTypeOK'
<1> DEFINE row == [execution[r] EXCEPT !.status = "completed", !.actual = actual,
                                       !.answered = TRUE]
<1>1. row \in ExecutionRow /\ row.payload = execution[r].payload
  <2>1. execution[r] \in ExecutionRow
    BY DEF StoreTypeOK
  <2>2. row \in ExecutionRow
    BY <2>1, RowColumns DEF Statuses, Failures
  <2> QED
    BY <2>1, <2>2 DEF ExecutionRow
<1>2. execution' = [execution EXCEPT ![r] = row] /\ execution[r].status # "absent"
  <2>1. execution \in [Requests -> ExecutionRow]
    BY DEF StoreTypeOK
  <2> QED
    BY <2>1 DEF CompleteInference
<1> HIDE DEF row
<1> QED
  BY <1>1, <1>2, UpdatedRowType DEF StoreTypeOK, CompleteInference

LEMMA OverrunType ==
  ASSUME StoreTypeOK, NEW r \in Requests, NEW actual \in Amount,
         CompleteOverrun(r, actual)
  PROVE  StoreTypeOK'
<1> DEFINE row == [execution[r] EXCEPT !.status = "reconciliation_hold",
                                       !.actual = actual, !.answered = TRUE]
<1>1. row \in ExecutionRow /\ row.payload = execution[r].payload
  <2>1. execution[r] \in ExecutionRow
    BY DEF StoreTypeOK
  <2>2. row \in ExecutionRow
    BY <2>1, RowColumns DEF Statuses, Failures
  <2> QED
    BY <2>1, <2>2 DEF ExecutionRow
<1>2. execution' = [execution EXCEPT ![r] = row] /\ execution[r].status # "absent"
  <2>1. execution \in [Requests -> ExecutionRow]
    BY DEF StoreTypeOK
  <2> QED
    BY <2>1 DEF CompleteOverrun
<1> HIDE DEF row
<1>3. execution[r].payload.mandate \in Mandates
  BY <1>2, PayloadAssumption DEF StoreTypeOK
<1> QED
  BY <1>1, <1>2, <1>3, UpdatedRowType, HoldMandateType DEF StoreTypeOK, CompleteOverrun

LEMMA HoldInferenceType ==
  ASSUME StoreTypeOK, NEW r \in Requests, NEW reason \in HoldReasons \cup {"none"},
         NEW answered \in BOOLEAN, HoldInference(r, reason, answered)
  PROVE  StoreTypeOK'
<1> DEFINE row == [execution[r] EXCEPT !.status = "reconciliation_hold",
                                       !.failure = reason, !.answered = answered]
<1>1. row \in ExecutionRow /\ row.payload = execution[r].payload
  <2>1. execution[r] \in ExecutionRow
    BY DEF StoreTypeOK
  <2>2. row \in ExecutionRow
    BY <2>1, RowColumns DEF Statuses, Failures
  <2> QED
    BY <2>1, <2>2 DEF ExecutionRow
<1>2. execution' = [execution EXCEPT ![r] = row] /\ execution[r].status # "absent"
  <2>1. execution \in [Requests -> ExecutionRow]
    BY DEF StoreTypeOK
  <2> QED
    BY <2>1 DEF HoldInference
<1> HIDE DEF row
<1>3. execution[r].payload.mandate \in Mandates
  BY <1>2, PayloadAssumption DEF StoreTypeOK
<1> QED
  BY <1>1, <1>2, <1>3, UpdatedRowType, HoldMandateType DEF StoreTypeOK, HoldInference

LEMMA FailType ==
  ASSUME StoreTypeOK, NEW r \in Requests, FailInference(r)
  PROVE  StoreTypeOK'
<1> DEFINE row == [execution[r] EXCEPT !.status = "failed",
                                       !.failure = "PROVIDER_NOT_DISPATCHED"]
<1>1. row \in ExecutionRow /\ row.payload = execution[r].payload
  <2>1. execution[r] \in ExecutionRow
    BY DEF StoreTypeOK
  <2>2. row \in ExecutionRow
    BY <2>1, RowColumns DEF Statuses, Failures
  <2> QED
    BY <2>1, <2>2 DEF ExecutionRow
<1>2. execution' = [execution EXCEPT ![r] = row] /\ execution[r].status # "absent"
  <2>1. execution \in [Requests -> ExecutionRow]
    BY DEF StoreTypeOK
  <2> QED
    BY <2>1 DEF FailInference
<1> HIDE DEF row
<1> QED
  BY <1>1, <1>2, UpdatedRowType DEF StoreTypeOK, FailInference

-----------------------------------------------------------------------------
(* Reconciliation. *)
LEMMA ReleaseType ==
  ASSUME StoreTypeOK, NEW m \in Mandates, ReleaseMandate(m)
  PROVE  /\ mandate' \in [Mandates -> MandateRow]
         /\ hold' \in [Mandates -> Holdable \cup {"none"}]
<1>1. CASE hold[m] = "none"
  BY <1>1 DEF ReleaseMandate, StoreTypeOK
<1>2. CASE hold[m] # "none"
  <2>1. Restored(hold[m]) \in MandateStates
    BY <1>2 DEF StoreTypeOK, Restored, Holdable, MandateStates
  <2>2. mandate' \in [Mandates -> MandateRow]
    BY <1>2, <2>1, MandateStateType DEF ReleaseMandate, StoreTypeOK
  <2> QED
    BY <1>2, <2>2 DEF ReleaseMandate, StoreTypeOK
<1> QED
  BY <1>1, <1>2

LEMMA ResolveType ==
  ASSUME StoreTypeOK, NEW r \in Requests,
         NEW kind \in {"settle", "confirm_not_billed"}, NEW actual \in Amount,
         ResolveReconciliation(r, kind, actual)
  PROVE  StoreTypeOK'
<1> DEFINE m == execution[r].payload.mandate
           row == ResolvedRow(execution[r], kind, actual)
<1>1. execution[r].status # "absent" /\ m \in Mandates
  BY PayloadAssumption DEF ResolveReconciliation, Open, StoreTypeOK
<1>2. 0 \in Amount
  BY MaxAmountAssumption DEF Amount
<1>3. row \in ExecutionRow /\ row.payload = execution[r].payload
  <2>1. execution[r] \in ExecutionRow
    BY DEF StoreTypeOK
  <2>2. row \in ExecutionRow
    BY <1>2, <2>1, RowColumns DEF ResolvedRow, Statuses, Failures
  <2> QED
    BY <2>1, <2>2 DEF ResolvedRow, ExecutionRow
<1>4. execution' = [execution EXCEPT ![r] = row]
  BY DEF ResolveReconciliation
<1> HIDE DEF row
<1>5. resolution' \in [Requests -> ResolutionRow]
  BY <1>2 DEF ResolveReconciliation, StoreTypeOK, ResolutionRow
<1>6. /\ mandate' \in [Mandates -> MandateRow]
      /\ hold' \in [Mandates -> Holdable \cup {"none"}]
  <2>1. CASE LastCase(m, r)
    BY <1>1, <2>1, ReleaseType DEF ResolveReconciliation
  <2>2. CASE ~LastCase(m, r)
    BY <2>2 DEF ResolveReconciliation, StoreTypeOK
  <2> QED
    BY <2>1, <2>2
<1> QED
  BY <1>1, <1>3, <1>4, <1>5, <1>6, UpdatedRowType DEF StoreTypeOK, ResolveReconciliation

-----------------------------------------------------------------------------
(* Calls. *)
(* A call that is replaced by a well formed call leaves calls well formed. *)
LEMMA CallType ==
  ASSUME CallsTypeOK, NEW w \in Workers, NEW c \in Call,
         c.stage # "idle" => c.request \in Requests /\ c.payload \in Payloads,
         worker' = [worker EXCEPT ![w] = c]
  PROVE  CallsTypeOK'
BY DEF CallsTypeOK, At

LEMMA IdleType == Idle \in Call /\ Idle.stage = "idle"
BY MaxAmountAssumption DEF Idle, Call, Stages, Statuses, Amount

LEMMA ReturnType ==
  ASSUME CallsTypeOK, NEW w \in Workers, Return(w)
  PROVE  CallsTypeOK'
BY IdleType, CallType DEF Return

(* A call in progress is about a request and a payload. *)
LEMMA CallFacts ==
  ASSUME CallsTypeOK, NEW w \in Workers
  PROVE  /\ worker[w] \in Call
         /\ worker[w].stage # "idle" => /\ worker[w].request \in Requests
                                        /\ worker[w].payload \in Payloads
                                        /\ worker[w].payload.mandate \in Mandates
BY PayloadAssumption DEF CallsTypeOK, At

(* A call in progress that only moves on keeps its request and payload. *)
LEMMA MoveType ==
  ASSUME CallsTypeOK, NEW w \in Workers, worker[w].stage # "idle", NEW c \in Call,
         c.request = worker[w].request, c.payload = worker[w].payload,
         worker' = [worker EXCEPT ![w] = c]
  PROVE  CallsTypeOK'
BY CallFacts, CallType

LEMMA HoldType ==
  ASSUME CallsTypeOK, NEW w \in Workers, worker[w].stage # "idle",
         NEW reason \in HoldReasons, NEW answered \in BOOLEAN, Hold(w, reason, answered)
  PROVE  CallsTypeOK'
<1> DEFINE c == [worker[w] EXCEPT !.stage = "holding", !.reason = reason,
                                  !.answered = answered]
<1>1. c \in Call /\ c.request = worker[w].request /\ c.payload = worker[w].payload
  BY CallFacts DEF Call, Stages
<1>2. worker' = [worker EXCEPT ![w] = c]
  BY DEF Hold, CallsTypeOK
<1> HIDE DEF c
<1> QED
  BY <1>1, <1>2, MoveType

(* A call that moves to another stage and changes nothing else. *)
LEMMA StageType ==
  ASSUME CallsTypeOK, NEW w \in Workers, worker[w].stage # "idle",
         NEW stage \in Stages, worker' = [worker EXCEPT ![w].stage = stage]
  PROVE  CallsTypeOK'
<1> DEFINE c == [worker[w] EXCEPT !.stage = stage]
<1>1. c \in Call /\ c.request = worker[w].request /\ c.payload = worker[w].payload
  BY CallFacts DEF Call
<1>2. worker' = [worker EXCEPT ![w] = c]
  BY DEF CallsTypeOK
<1> HIDE DEF c
<1> QED
  BY <1>1, <1>2, MoveType

LEMMA StoreUnchangedType ==
  ASSUME StoreTypeOK, UNCHANGED storeVars
  PROVE  StoreTypeOK'
BY DEF StoreTypeOK, storeVars

-----------------------------------------------------------------------------
LEMMA InitType == Init => TypeOK
<1> SUFFICES ASSUME Init PROVE TypeOK
  OBVIOUS
<1>1. StoreTypeOK
  BY StoreInitType DEF Init
<1>2. CallsTypeOK
  BY IdleType DEF Init, CallsTypeOK, At
<1> QED
  BY <1>1, <1>2 DEF Init, TypeOK

(* Each kind of step keeps the types. *)
LEMMA ArriveType ==
  ASSUME TypeOK, NEW w \in Workers, NEW r \in Requests, NEW p \in Payloads,
         Arrive(w, r, p)
  PROVE  TypeOK'
<1> DEFINE c == [Idle EXCEPT !.stage = "arrived", !.request = r, !.payload = p,
                             !.decidedAt = now]
<1>1. c \in Call /\ c.request = r /\ c.payload = p
  BY IdleType DEF TypeOK, Call, Stages
<1>2. worker' = [worker EXCEPT ![w] = c]
  BY DEF Arrive
<1> HIDE DEF c
<1>3. CallsTypeOK'
  BY <1>1, <1>2, CallType DEF TypeOK
<1>4. StoreTypeOK'
  BY StoreUnchangedType DEF TypeOK, Arrive
<1> QED
  BY <1>3, <1>4 DEF TypeOK, Arrive

LEMMA AdmitType ==
  ASSUME TypeOK, NEW w \in Workers, Admit(w)
  PROVE  TypeOK'
<1> DEFINE c == [worker[w] EXCEPT !.stage = "locked",
                                  !.seen = execution[worker[w].request].status]
<1>1. /\ worker[w].stage # "idle" /\ worker[w].request \in Requests
      /\ worker[w].payload.mandate \in Mandates /\ worker[w] \in Call
  BY CallFacts DEF Admit, At, TypeOK
<1>2. execution[worker[w].request].status \in Statuses
  BY <1>1 DEF TypeOK, StoreTypeOK, ExecutionRow
<1>3. c \in Call /\ c.request = worker[w].request /\ c.payload = worker[w].payload
  BY <1>1, <1>2 DEF Call, Stages
<1>4. worker' = [worker EXCEPT ![w] = c]
  BY DEF Admit, TypeOK, CallsTypeOK
<1> HIDE DEF c
<1>5. CallsTypeOK'
  BY <1>1, <1>3, <1>4, MoveType DEF TypeOK
<1>6. StoreTypeOK'
  BY <1>1, AdmitReadType DEF Admit, TypeOK
<1> QED
  BY <1>5, <1>6 DEF TypeOK, Admit

LEMMA DecideType ==
  ASSUME TypeOK, NEW w \in Workers, Decide(w)
  PROVE  TypeOK'
<1>1. /\ worker[w].stage # "idle" /\ worker[w].request \in Requests
      /\ worker[w].payload \in Payloads /\ worker[w].decidedAt \in Nat
  BY CallFacts DEF Decide, At, TypeOK, Call
<1>2. StoreTypeOK'
  BY <1>1, AdmitNewType DEF Decide, TypeOK
<1>3. CallsTypeOK'
  <2>1. CASE worker' = [worker EXCEPT ![w].stage = "admitted"]
    BY <1>1, <2>1, StageType DEF TypeOK, Stages
  <2>2. CASE Return(w)
    BY <2>2, ReturnType DEF TypeOK
  <2> QED
    BY <2>1, <2>2 DEF Decide
<1> QED
  BY <1>2, <1>3 DEF TypeOK, Decide

(* The calls that end the admission without a new row. *)
LEMMA AdmitEndType ==
  ASSUME TypeOK, NEW w \in Workers,
         Refuse(w) \/ Collide(w) \/ Replay(w) \/ ExpireLease(w)
  PROVE  TypeOK'
<1>1. /\ worker[w].stage # "idle" /\ worker[w].request \in Requests
      /\ worker[w].payload \in Payloads /\ worker[w].payload.mandate \in Mandates
  BY CallFacts DEF Refuse, Collide, Replay, ExpireLease, At, TypeOK
<1>2. CallsTypeOK'
  BY ReturnType DEF TypeOK, Refuse, Collide, Replay, ExpireLease
<1>3. StoreTypeOK'
  <2>1. CASE Refuse(w)
    BY <2>1, StoreUnchangedType DEF Refuse, TypeOK
  <2>2. CASE Collide(w) \/ Replay(w)
    BY <1>1, <2>2, AdmitNothingType DEF Collide, Replay, TypeOK
  <2>3. CASE ExpireLease(w)
    <3>1. execution[worker[w].request].payload \in Payloads
      BY <1>1, <2>3 DEF ExpireLease, Stale, SameRequest, TypeOK, StoreTypeOK
    <3> QED
      BY <1>1, <2>3, <3>1, AdmitExpiredType DEF ExpireLease, TypeOK
  <2> QED
    BY <2>1, <2>2, <2>3
<1> QED
  BY <1>2, <1>3 DEF TypeOK, Refuse, Collide, Replay, ExpireLease

(* The steps at the provider. *)
LEMMA ProviderType ==
  ASSUME TypeOK, NEW w \in Workers,
         \/ Dispatch(w) \/ NotDispatched(w) \/ AnswerLost(w)
         \/ \E cost \in Costs : Answer(w, cost)
         \/ RejectAnswer(w) \/ CompletionThrows(w)
  PROVE  TypeOK'
<1>1. worker[w].stage # "idle" /\ worker[w].request \in Requests
  BY CallFacts DEF Dispatch, NotDispatched, AnswerLost, Answer, RejectAnswer,
                   CompletionThrows, At, TypeOK
<1>2. UNCHANGED storeVars /\ UNCHANGED now
  BY DEF Dispatch, NotDispatched, AnswerLost, Answer, RejectAnswer, CompletionThrows
<1>3. StoreTypeOK'
  BY <1>2, StoreUnchangedType DEF TypeOK
<1>4. dispatches' \in [Requests -> Nat]
  <2>1. CASE dispatches' = [dispatches EXCEPT ![worker[w].request] = @ + 1]
    <3>1. dispatches \in [Requests -> Nat]
      BY DEF TypeOK
    <3> QED
      BY <1>1, <2>1, <3>1
  <2>2. CASE UNCHANGED dispatches
    BY <2>2 DEF TypeOK
  <2> QED
    BY <2>1, <2>2 DEF Dispatch, NotDispatched, AnswerLost, Answer, RejectAnswer,
                      CompletionThrows
<1>5. CallsTypeOK'
  <2>1. CASE Dispatch(w) \/ NotDispatched(w)
    <3>1. CASE worker' = [worker EXCEPT ![w].stage = "calling"]
      <4>1. "calling" \in Stages
        BY DEF Stages
      <4> QED
        BY <1>1, <3>1, <4>1, StageType DEF TypeOK
    <3>2. CASE worker' = [worker EXCEPT ![w].stage = "failing"]
      <4>1. "failing" \in Stages
        BY DEF Stages
      <4> QED
        BY <1>1, <3>2, <4>1, StageType DEF TypeOK
    <3> QED
      BY <2>1, <3>1, <3>2 DEF Dispatch, NotDispatched
  <2>2. CASE AnswerLost(w) \/ RejectAnswer(w) \/ CompletionThrows(w)
    BY <1>1, <2>2, HoldType
    DEF AnswerLost, RejectAnswer, CompletionThrows, TypeOK, HoldReasons
  <2>3. ASSUME NEW cost \in Costs, Answer(w, cost)
        PROVE  CallsTypeOK'
    <3> DEFINE c == [worker[w] EXCEPT !.stage = "answered", !.cost = cost]
    <3>1. worker[w] \in Call /\ cost \in Amount
      BY CallFacts, BoundsAssumption DEF TypeOK
    <3>2. c \in Call /\ c.request = worker[w].request /\ c.payload = worker[w].payload
      BY <3>1 DEF Call, Stages
    <3>3. worker' = [worker EXCEPT ![w] = c]
      BY <2>3 DEF Answer, TypeOK, CallsTypeOK
    <3> HIDE DEF c
    <3> QED
      BY <1>1, <3>2, <3>3, MoveType DEF TypeOK
  <2> QED
    BY <2>1, <2>2, <2>3
<1> QED
  BY <1>2, <1>3, <1>4, <1>5 DEF TypeOK

(* The steps that record an outcome. *)
LEMMA OutcomeType ==
  ASSUME TypeOK, NEW w \in Workers,
         \/ Complete(w) \/ CompletionUnacknowledged(w)
         \/ RecordHold(w) \/ RecordFailure(w) \/ TooLate(w)
  PROVE  TypeOK'
<1>1. /\ worker[w].stage # "idle" /\ worker[w].request \in Requests
      /\ worker[w].cost \in Amount /\ worker[w].answered \in BOOLEAN
      /\ worker[w].reason \in HoldReasons \cup {"none"}
  BY CallFacts DEF Complete, CompletionUnacknowledged, RecordHold, RecordFailure,
                   TooLate, At, TypeOK, Call
<1>2. CallsTypeOK'
  <2>1. CASE CompletionUnacknowledged(w)
    BY <1>1, <2>1, HoldType DEF CompletionUnacknowledged, TypeOK, HoldReasons
  <2>2. CASE Complete(w) \/ RecordHold(w) \/ RecordFailure(w) \/ TooLate(w)
    BY <2>2, ReturnType DEF Complete, RecordHold, RecordFailure, TooLate, TypeOK
  <2> QED
    BY <2>1, <2>2
<1>3. StoreTypeOK'
  <2>1. CASE Complete(w) \/ CompletionUnacknowledged(w)
    BY <1>1, <2>1, CompleteType, OverrunType
    DEF Complete, CompletionUnacknowledged, TypeOK
  <2>2. CASE RecordHold(w)
    BY <1>1, <2>2, HoldInferenceType DEF RecordHold, TypeOK
  <2>3. CASE RecordFailure(w)
    BY <1>1, <2>3, FailType DEF RecordFailure, TypeOK
  <2>4. CASE TooLate(w)
    BY <2>4, StoreUnchangedType DEF TooLate, TypeOK
  <2> QED
    BY <2>1, <2>2, <2>3, <2>4
<1> QED
  BY <1>2, <1>3 DEF TypeOK, Complete, CompletionUnacknowledged, RecordHold,
                    RecordFailure, TooLate

LEMMA CrashType ==
  ASSUME TypeOK, NEW w \in Workers, Crash(w)
  PROVE  TypeOK'
<1>1. worker[w].payload.mandate \in Mandates
  BY CallFacts DEF Crash, At, TypeOK
<1>2. StoreTypeOK'
  BY <1>1, AdmitNothingType, StoreUnchangedType DEF Crash, TypeOK
<1>3. CallsTypeOK'
  BY ReturnType DEF Crash, TypeOK
<1> QED
  BY <1>2, <1>3 DEF TypeOK, Crash

LEMMA OperateType ==
  ASSUME TypeOK, Operate
  PROVE  TypeOK'
<1>1. StoreTypeOK /\ now \in Nat
  BY DEF TypeOK
<1>2. CASE Administer
  <2>1. ASSUME NEW v \in Policies, PublishPolicy(v)
        PROVE  StoreTypeOK'
    BY <1>1, <2>1, PublishType
  <2>2. ASSUME NEW m \in Mandates, NEW x \in Maxima, NEW v \in Policies,
               NEW e \in Expiries, CreateMandate(m, x, v, e)
        PROVE  StoreTypeOK'
    <3>1. x \in Amount /\ e \in SUBSET Nat
      BY BoundsAssumption
    <3> QED
      BY <1>1, <2>2, <3>1, CreateMandateType
  <2>3. ASSUME NEW m \in Mandates, NEW a \in Agents, AssignAgent(m, a)
        PROVE  StoreTypeOK'
    BY <1>1, <2>3, AssignAgentType
  <2>4. ASSUME NEW m \in Mandates, NEW v \in Policies, SetMandatePolicy(m, v)
        PROVE  StoreTypeOK'
    BY <1>1, <2>4, SetMandatePolicyType
  <2>5. ASSUME NEW m \in Mandates, NEW b \in Branches, NEW new \in BranchInputs,
               CreateBranch(m, b, new, now)
        PROVE  StoreTypeOK'
    <3>1. new \in [ parent: SUBSET Branches, agent: Agents, classes: SUBSET Classes,
                    maximum: Amount, expiresAt: SUBSET Nat ]
      BY BoundsAssumption
    <3> QED
      BY <1>1, <2>5, <3>1, CreateBranchType
  <2>6. ASSUME NEW m \in Mandates, NEW to \in MandateStates,
               TransitionMandateState(m, to)
        PROVE  StoreTypeOK'
    BY <1>1, <2>6, TransitionType
  <2>7. StoreTypeOK'
    BY <1>2, <2>1, <2>2, <2>3, <2>4, <2>5, <2>6 DEF Administer, Transition
  <2> QED
    BY <2>7 DEF Operate, TypeOK, CallsTypeOK, At
<1>3. CASE Resolve
  <2>1. PICK r \in Requests, kind \in {"settle", "confirm_not_billed"},
             a \in Settlements : ResolveReconciliation(r, kind, a)
    BY <1>3 DEF Resolve
  <2>2. a \in Amount
    BY BoundsAssumption
  <2>3. StoreTypeOK'
    BY <1>1, <2>1, <2>2, ResolveType
  <2> QED
    BY <2>3 DEF Operate, TypeOK, CallsTypeOK, At
<1> QED
  BY <1>2, <1>3 DEF Operate

LEMMA TypeStep == TypeOK /\ [Next]_vars => TypeOK'
<1> SUFFICES ASSUME TypeOK, [Next]_vars PROVE TypeOK'
  OBVIOUS
<1>1. ASSUME NEW w \in Workers, NEW r \in Requests, NEW p \in Payloads, Arrive(w, r, p)
      PROVE  TypeOK'
  BY <1>1, ArriveType
<1>2. ASSUME NEW w \in Workers, WorkerStep(w)
      PROVE  TypeOK'
  BY <1>2, AdmitType, DecideType, AdmitEndType, ProviderType, OutcomeType
  DEF WorkerStep
<1>3. ASSUME NEW w \in Workers, Crash(w)
      PROVE  TypeOK'
  BY <1>3, CrashType
<1>4. CASE Operate
  BY <1>4, OperateType
<1>5. CASE Tick
  BY <1>5, StoreUnchangedType DEF Tick, TypeOK, CallsTypeOK, At
<1>6. CASE UNCHANGED vars
  BY <1>6, StoreUnchangedType DEF vars, storeVars, TypeOK, CallsTypeOK, At
<1> QED
  BY <1>1, <1>2, <1>3, <1>4, <1>5, <1>6 DEF Next

(* Every reachable state is well formed: no sequence of calls, crashes and   *)
(* operators' requests writes a value a table cannot hold, remembers a state *)
(* a hold cannot restore, or loses the request of a call.                    *)
THEOREM TypeCorrect == Spec => []TypeOK
<1>1. TypeOK /\ [Next]_vars => TypeOK'
  BY TypeStep
<1> QED
  BY InitType, <1>1, PTL DEF Spec

-----------------------------------------------------------------------------
(* Safety of the path.                                                        *)

(* The steps of a call between admission and its end leave the store to one *)
(* of its transactions.                                                     *)
Recording(w) == \/ Complete(w) \/ CompletionUnacknowledged(w) \/ RecordHold(w)
Waiting(w) == \/ Refuse(w) \/ NotDispatched(w) \/ AnswerLost(w)
              \/ \E cost \in Costs : Answer(w, cost)
              \/ RejectAnswer(w) \/ CompletionThrows(w) \/ TooLate(w)

-----------------------------------------------------------------------------
(* Nothing but a failure report on a request gives up what a row keeps. *)
LEMMA CompleteKeeps ==
  ASSUME StoreTypeOK, NEW r \in Requests, NEW actual \in Amount,
         CompleteInference(r, actual) \/ CompleteOverrun(r, actual),
         NEW x \in Requests, Kept(x)
  PROVE  Kept(x)'
<1>1. execution \in [Requests -> ExecutionRow] /\ UNCHANGED resolution
  BY DEF StoreTypeOK, CompleteInference, CompleteOverrun
<1>2. CASE CompleteInference(r, actual)
  BY <1>1, <1>2 DEF Kept, CompleteInference, ExecutionRow
<1>3. CASE CompleteOverrun(r, actual)
  BY <1>1, <1>3 DEF Kept, CompleteOverrun, ExecutionRow
<1> QED
  BY <1>2, <1>3

LEMMA HoldKeeps ==
  ASSUME StoreTypeOK, NEW r \in Requests, NEW reason, NEW answered,
         HoldInference(r, reason, answered),
         NEW x \in Requests, Kept(x)
  PROVE  Kept(x)'
BY DEF StoreTypeOK, HoldInference, Kept, ExecutionRow

LEMMA ExpireKeeps ==
  ASSUME StoreTypeOK, NEW r \in Requests, AdmitExpired(r), NEW x \in Requests, Kept(x)
  PROVE  Kept(x)'
BY DEF StoreTypeOK, AdmitExpired, Kept, ExecutionRow

LEMMA ResolveKeeps ==
  ASSUME StoreTypeOK, NEW r \in Requests, NEW kind \in {"settle", "confirm_not_billed"},
         NEW actual \in Amount, ResolveReconciliation(r, kind, actual),
         NEW x \in Requests, Kept(x)
  PROVE  Kept(x)'
<1>1. /\ execution \in [Requests -> ExecutionRow]
      /\ resolution \in [Requests -> ResolutionRow]
      /\ execution' = [execution EXCEPT ![r] = ResolvedRow(execution[r], kind, actual)]
      /\ resolution'[r].kind = kind
      /\ \A y \in Requests \ {r} : resolution'[y] = resolution[y]
  BY DEF StoreTypeOK, ResolveReconciliation
<1>2. CASE x = r
  <2>1. execution'[r].status \in {"completed", "failed"}
    BY <1>1 DEF ResolvedRow, ExecutionRow
  <2> QED
    BY <1>1, <1>2, <2>1 DEF Kept
<1>3. CASE x # r
  BY <1>1, <1>3 DEF Kept
<1> QED
  BY <1>2, <1>3

LEMMA OperateKeeps ==
  ASSUME StoreTypeOK, Operate, NEW x \in Requests, Kept(x)
  PROVE  Kept(x)'
<1>1. CASE Administer
  <2>1. UNCHANGED <<execution, resolution>>
    BY <1>1 DEF Administer, Transition, PublishPolicy, CreateMandate, AssignAgent,
                SetMandatePolicy, CreateBranch, TransitionMandateState
  <2> QED
    BY <2>1 DEF Kept
<1>2. CASE Resolve
  BY <1>2, ResolveKeeps, BoundsAssumption DEF Resolve
<1> QED
  BY <1>1, <1>2 DEF Operate

-----------------------------------------------------------------------------
(* A step that keeps every row, reaches no provider and gives no call a      *)
(* reservation it did not have keeps the dispatch invariant.                 *)
LEMMA DispatchFrame ==
  ASSUME TypeOK, DispatchInv, UNCHANGED dispatches,
         \A x \in Requests : Kept(x) => Kept(x)',
         \A w \in Workers : Reserving(w)' =>
           Reserving(w) /\ worker'[w].request = worker[w].request
  PROVE  DispatchInv'
<1>1. \A w \in Workers : Reserving(w) => worker[w].request \in Requests
  BY CallFacts DEF TypeOK, Reserving
<1>2. ASSUME NEW w \in Workers, Reserving(w)'
      PROVE  (dispatches[worker[w].request] = 0 /\ Kept(worker[w].request))'
  <2>1. /\ Reserving(w) /\ worker'[w].request = worker[w].request
        /\ worker[w].request \in Requests
    BY <1>1, <1>2
  <2>2. dispatches[worker[w].request] = 0 /\ Kept(worker[w].request)
    BY <2>1 DEF DispatchInv
  <2>3. ASSUME NEW x \in Requests, x = worker[w].request
        PROVE  Kept(x)'
    BY <2>2, <2>3
  <2> QED
    BY <2>1, <2>2, <2>3 DEF Kept
<1>3. (AtMostOnceDispatch /\ NoSpendForgotten)'
  BY DEF DispatchInv, AtMostOnceDispatch, NoSpendForgotten
<1>4. \A v, w \in Workers :
        Reserving(v)' /\ Reserving(w)' /\ worker'[v].request = worker'[w].request => v = w
  BY DEF DispatchInv
<1> QED
  BY <1>2, <1>3, <1>4 DEF DispatchInv

(* The stage a call ends its step in, and the calls that do not move. *)
LEMMA CallMoves ==
  ASSUME CallsTypeOK, NEW w \in Workers, NEW c, worker' = [worker EXCEPT ![w] = c]
  PROVE  worker'[w] = c /\ \A v \in Workers \ {w} : worker'[v] = worker[v]
BY DEF CallsTypeOK

LEMMA ReturnMoves ==
  ASSUME CallsTypeOK, NEW w \in Workers, Return(w)
  PROVE  worker'[w].stage = "idle" /\ \A v \in Workers \ {w} : worker'[v] = worker[v]
BY IdleType, CallMoves DEF Return

LEMMA HoldMoves ==
  ASSUME CallsTypeOK, NEW w \in Workers, NEW reason, NEW answered, Hold(w, reason, answered)
  PROVE  worker'[w].stage = "holding" /\ \A v \in Workers \ {w} : worker'[v] = worker[v]
BY DEF Hold, CallsTypeOK, Call

LEMMA StageMoves ==
  ASSUME CallsTypeOK, NEW w \in Workers, NEW stage,
         worker' = [worker EXCEPT ![w].stage = stage]
  PROVE  /\ worker'[w].stage = stage /\ worker'[w].request = worker[w].request
         /\ \A v \in Workers \ {w} : worker'[v] = worker[v]
BY DEF CallsTypeOK, Call

LEMMA StoreUnchangedKeeps ==
  ASSUME UNCHANGED storeVars, NEW x \in Requests, Kept(x)
  PROVE  Kept(x)'
BY DEF storeVars, Kept

(* The steps that neither reserve nor reach the provider. *)
LEMMA ArriveDispatch ==
  ASSUME TypeOK, DispatchInv, NEW w \in Workers, NEW r \in Requests, NEW p \in Payloads,
         Arrive(w, r, p)
  PROVE  DispatchInv'
<1> DEFINE c == [Idle EXCEPT !.stage = "arrived", !.request = r, !.payload = p,
                             !.decidedAt = now]
<1>1. c.stage = "arrived" /\ worker' = [worker EXCEPT ![w] = c]
  BY DEF Arrive, Idle
<1> HIDE DEF c
<1>2. worker'[w].stage = "arrived" /\ \A v \in Workers \ {w} : worker'[v] = worker[v]
  BY <1>1, CallMoves DEF TypeOK
<1>3. \A x \in Requests : Kept(x) => Kept(x)'
  BY StoreUnchangedKeeps DEF Arrive
<1> QED
  BY <1>2, <1>3, DispatchFrame DEF Reserving, Arrive

LEMMA AdmissionDispatch ==
  ASSUME TypeOK, DispatchInv, NEW w \in Workers,
         Admit(w) \/ Refuse(w) \/ Collide(w) \/ Replay(w) \/ ExpireLease(w)
  PROVE  DispatchInv'
<1>1. /\ CallsTypeOK /\ StoreTypeOK
      /\ worker[w].request \in Requests
  BY CallFacts DEF TypeOK, Admit, Refuse, Collide, Replay, ExpireLease, At
<1>2. /\ worker'[w].stage \in {"idle", "locked"}
      /\ \A v \in Workers \ {w} : worker'[v] = worker[v]
  <2>1. CASE Admit(w)
    <3> DEFINE c == [worker[w] EXCEPT !.stage = "locked",
                                      !.seen = execution[worker[w].request].status]
    <3>1. c.stage = "locked" /\ worker' = [worker EXCEPT ![w] = c]
      BY <1>1, <2>1 DEF Admit, CallsTypeOK, Call
    <3> HIDE DEF c
    <3> QED
      BY <1>1, <3>1, CallMoves
  <2>2. CASE ~Admit(w)
    BY <1>1, <2>2, ReturnMoves DEF Refuse, Collide, Replay, ExpireLease
  <2> QED
    BY <2>1, <2>2
<1>3. ASSUME NEW x \in Requests, Kept(x)
      PROVE  Kept(x)'
  <2>1. CASE ExpireLease(w)
    BY <1>1, <1>3, <2>1, ExpireKeeps DEF ExpireLease
  <2>2. CASE ~ExpireLease(w)
    <3>1. UNCHANGED <<execution, resolution>>
      BY <2>2 DEF Admit, AdmitRead, Refuse, Collide, Replay, AdmitNothing, storeVars
    <3> QED
      BY <1>3, <3>1 DEF Kept
  <2> QED
    BY <2>1, <2>2
<1>4. UNCHANGED dispatches
  BY DEF Admit, Refuse, Collide, Replay, ExpireLease
<1> QED
  BY <1>2, <1>3, <1>4, DispatchFrame DEF Reserving

LEMMA AnswerDispatch ==
  ASSUME TypeOK, DispatchInv, NEW w \in Workers,
         \/ NotDispatched(w) \/ AnswerLost(w) \/ \E cost \in Costs : Answer(w, cost)
         \/ RejectAnswer(w) \/ CompletionThrows(w) \/ TooLate(w) \/ Crash(w)
  PROVE  DispatchInv'
<1>1. CallsTypeOK
  BY DEF TypeOK
<1>2. /\ Reserving(w)' => Reserving(w) /\ worker'[w].request = worker[w].request
      /\ \A v \in Workers \ {w} : worker'[v] = worker[v]
  <2>1. CASE NotDispatched(w)
    BY <1>1, <2>1, StageMoves DEF NotDispatched, Reserving, At
  <2>2. CASE AnswerLost(w) \/ RejectAnswer(w) \/ CompletionThrows(w)
    BY <1>1, <2>2, HoldMoves DEF AnswerLost, RejectAnswer, CompletionThrows, Reserving
  <2>3. ASSUME NEW cost \in Costs, Answer(w, cost)
        PROVE  /\ worker'[w].stage = "answered"
               /\ \A v \in Workers \ {w} : worker'[v] = worker[v]
    <3> DEFINE c == [worker[w] EXCEPT !.stage = "answered", !.cost = cost]
    <3>1. c.stage = "answered" /\ worker' = [worker EXCEPT ![w] = c]
      BY <1>1, <2>3 DEF Answer, CallsTypeOK, Call
    <3> HIDE DEF c
    <3> QED
      BY <1>1, <3>1, CallMoves
  <2>4. CASE TooLate(w) \/ Crash(w)
    BY <1>1, <2>4, ReturnMoves DEF TooLate, Crash, Reserving
  <2> QED
    BY <2>1, <2>2, <2>3, <2>4 DEF Reserving
<1>3. UNCHANGED <<execution, resolution, dispatches>>
  BY DEF NotDispatched, AnswerLost, Answer, RejectAnswer, CompletionThrows, TooLate, Crash,
         AdmitNothing, storeVars
<1>4. \A x \in Requests : Kept(x) => Kept(x)'
  BY <1>3 DEF Kept
<1>5. \A v \in Workers : Reserving(v)' =>
        Reserving(v) /\ worker'[v].request = worker[v].request
  BY <1>2 DEF Reserving
<1> QED
  BY <1>3, <1>4, <1>5, DispatchFrame

LEMMA RecordDispatch ==
  ASSUME TypeOK, DispatchInv, NEW w \in Workers,
         Complete(w) \/ CompletionUnacknowledged(w) \/ RecordHold(w)
  PROVE  DispatchInv'
<1>1. /\ CallsTypeOK /\ StoreTypeOK
      /\ worker[w].request \in Requests /\ worker[w].cost \in Amount
  BY CallFacts DEF TypeOK, Complete, CompletionUnacknowledged, RecordHold, At, Call
<1>2. /\ worker'[w].stage \in {"idle", "holding"}
      /\ \A v \in Workers \ {w} : worker'[v] = worker[v]
  BY <1>1, ReturnMoves, HoldMoves DEF Complete, CompletionUnacknowledged, RecordHold
<1>3. ASSUME NEW x \in Requests, Kept(x)
      PROVE  Kept(x)'
  BY <1>1, <1>3, CompleteKeeps, HoldKeeps DEF Complete, CompletionUnacknowledged, RecordHold
<1>4. UNCHANGED dispatches
  BY DEF Complete, CompletionUnacknowledged, RecordHold
<1> QED
  BY <1>2, <1>3, <1>4, DispatchFrame DEF Reserving

(* Deciding gives a reservation on a request that had no row, so nobody else *)
(* holds one and the provider has not seen it.                               *)
LEMMA DecideDispatch ==
  ASSUME TypeOK, DispatchInv, NEW w \in Workers, Decide(w)
  PROVE  DispatchInv'
<1> DEFINE r == worker[w].request
<1>1. /\ CallsTypeOK /\ r \in Requests /\ UNCHANGED dispatches
      /\ execution \in [Requests -> ExecutionRow]
      /\ dispatches \in [Requests -> Nat]
  BY CallFacts DEF TypeOK, Decide, At, StoreTypeOK
<1>2. /\ execution[r].status = "absent" /\ UNCHANGED resolution
      /\ \A x \in Requests \ {r} : execution'[x] = execution[x]
  BY <1>1 DEF Decide, AdmitNew
<1>3. ~Kept(r)
  BY <1>2 DEF Kept
<1>4. dispatches[r] = 0
  BY <1>1, <1>3 DEF DispatchInv, NoSpendForgotten
<1>5. \A x \in Requests : Kept(x) => Kept(x)'
  BY <1>2, <1>3 DEF Kept
<1>6. CASE Return(w)
  <2>1. worker'[w].stage = "idle" /\ \A v \in Workers \ {w} : worker'[v] = worker[v]
    BY <1>1, <1>6, ReturnMoves
  <2> QED
    BY <1>1, <1>5, <2>1, DispatchFrame DEF Reserving
<1>7. CASE worker' = [worker EXCEPT ![w].stage = "admitted"] /\ execution'[r].status = "executing"
  <2>1. /\ worker'[w].stage = "admitted" /\ worker'[w].request = r
        /\ \A v \in Workers \ {w} : worker'[v] = worker[v]
    BY <1>1, <1>7, StageMoves
  <2>2. \A v \in Workers : Reserving(v) => worker[v].request # r
    BY <1>3 DEF DispatchInv
  <2>3. Kept(r)'
    BY <1>7 DEF Kept
  <2>4. ASSUME NEW v \in Workers, Reserving(v)'
        PROVE  (dispatches[worker[v].request] = 0 /\ Kept(worker[v].request))'
    <3>1. CASE v = w
      BY <1>1, <1>4, <2>1, <2>3, <3>1 DEF Kept
    <3>2. CASE v # w
      <4>1. Reserving(v) /\ worker'[v] = worker[v]
        BY <2>1, <2>4, <3>2 DEF Reserving
      <4>2. worker[v].request \in Requests
        BY <4>1, CallFacts DEF TypeOK, Reserving
      <4>3. dispatches[worker[v].request] = 0 /\ Kept(worker[v].request)
        BY <4>1 DEF DispatchInv
      <4>4. ASSUME NEW x \in Requests, x = worker[v].request
            PROVE  Kept(x)'
        BY <1>5, <4>3, <4>4
      <4> QED
        BY <1>1, <4>1, <4>2, <4>3, <4>4 DEF Kept
    <3> QED
      BY <3>1, <3>2
  <2>5. ASSUME NEW u \in Workers, NEW v \in Workers, Reserving(u)', Reserving(v)',
               worker'[u].request = worker'[v].request
        PROVE  u = v
    <3>1. CASE u # w /\ v # w
      BY <2>1, <2>5, <3>1 DEF DispatchInv, Reserving
    <3>2. CASE u = w \/ v = w
      BY <2>1, <2>2, <2>5, <3>2 DEF Reserving
    <3> QED
      BY <3>1, <3>2
  <2>6. (AtMostOnceDispatch /\ NoSpendForgotten)'
    BY <1>1, <1>5 DEF DispatchInv, AtMostOnceDispatch, NoSpendForgotten
  <2> QED
    BY <2>4, <2>5, <2>6 DEF DispatchInv
<1> QED
  BY <1>6, <1>7 DEF Decide

(* The one step that reaches the provider uses the reservation up. *)
LEMMA DispatchDispatch ==
  ASSUME TypeOK, DispatchInv, NEW w \in Workers, Dispatch(w)
  PROVE  DispatchInv'
<1> DEFINE r == worker[w].request
<1>1. /\ CallsTypeOK /\ r \in Requests /\ dispatches \in [Requests -> Nat]
      /\ Reserving(w) /\ UNCHANGED <<execution, resolution>>
  BY CallFacts DEF TypeOK, Dispatch, At, Reserving, storeVars
<1>2. /\ worker'[w].stage = "calling"
      /\ \A v \in Workers \ {w} : worker'[v] = worker[v]
  BY <1>1, StageMoves DEF Dispatch
<1>3. dispatches[r] = 0 /\ Kept(r)
  BY <1>1 DEF DispatchInv
<1>4. dispatches'[r] = 1 /\ \A x \in Requests \ {r} : dispatches'[x] = dispatches[x]
  BY <1>1, <1>3 DEF Dispatch
<1>5. \A x \in Requests : Kept(x) => Kept(x)'
  BY <1>1 DEF Kept
<1>6. (AtMostOnceDispatch /\ NoSpendForgotten)'
  BY <1>1, <1>3, <1>4, <1>5 DEF DispatchInv, AtMostOnceDispatch, NoSpendForgotten
<1>7. \A v \in Workers : Reserving(v)' => v # w /\ Reserving(v) /\ worker'[v] = worker[v]
  BY <1>2 DEF Reserving
<1>8. ASSUME NEW v \in Workers, Reserving(v)'
      PROVE  (dispatches[worker[v].request] = 0 /\ Kept(worker[v].request))'
  <2>1. Reserving(v) /\ worker'[v] = worker[v] /\ worker[v].request # r
    BY <1>1, <1>7, <1>8 DEF DispatchInv
  <2>2. worker[v].request \in Requests
    BY <2>1, CallFacts DEF TypeOK, Reserving
  <2>3. dispatches[worker[v].request] = 0 /\ Kept(worker[v].request)
    BY <2>1 DEF DispatchInv
  <2> QED
    BY <1>1, <1>4, <2>1, <2>2, <2>3 DEF Kept
<1>9. ASSUME NEW u \in Workers, NEW v \in Workers, Reserving(u)', Reserving(v)',
             worker'[u].request = worker'[v].request
      PROVE  u = v
  BY <1>7, <1>9 DEF DispatchInv
<1> QED
  BY <1>6, <1>8, <1>9 DEF DispatchInv

(* A failure report gives up a row whose request never left. *)
LEMMA FailDispatch ==
  ASSUME TypeOK, DispatchInv, NEW w \in Workers, RecordFailure(w)
  PROVE  DispatchInv'
<1> DEFINE r == worker[w].request
<1>1. /\ CallsTypeOK /\ r \in Requests /\ dispatches \in [Requests -> Nat]
      /\ Reserving(w) /\ UNCHANGED <<resolution, dispatches>>
      /\ execution \in [Requests -> ExecutionRow]
  BY CallFacts DEF TypeOK, StoreTypeOK, RecordFailure, FailInference, At, Reserving
<1>2. \A x \in Requests \ {r} : execution'[x] = execution[x]
  BY <1>1 DEF RecordFailure, FailInference
<1>3. /\ worker'[w].stage = "idle" /\ \A v \in Workers \ {w} : worker'[v] = worker[v]
  BY <1>1, ReturnMoves DEF RecordFailure
<1>4. dispatches[r] = 0
  BY <1>1 DEF DispatchInv
<1>5. \A x \in Requests \ {r} : Kept(x) => Kept(x)'
  BY <1>1, <1>2 DEF Kept
<1>6. (AtMostOnceDispatch /\ NoSpendForgotten)'
  BY <1>1, <1>4, <1>5 DEF DispatchInv, AtMostOnceDispatch, NoSpendForgotten
<1>7. \A v \in Workers : Reserving(v)' => v # w /\ Reserving(v) /\ worker'[v] = worker[v]
  BY <1>3 DEF Reserving
<1>8. ASSUME NEW v \in Workers, Reserving(v)'
      PROVE  (dispatches[worker[v].request] = 0 /\ Kept(worker[v].request))'
  <2>1. Reserving(v) /\ worker'[v] = worker[v] /\ worker[v].request # r
    BY <1>1, <1>7, <1>8 DEF DispatchInv
  <2>2. worker[v].request \in Requests
    BY <2>1, CallFacts DEF TypeOK, Reserving
  <2>3. dispatches[worker[v].request] = 0 /\ Kept(worker[v].request)
    BY <2>1 DEF DispatchInv
  <2> QED
    BY <1>1, <1>2, <2>1, <2>2, <2>3 DEF Kept
<1>9. ASSUME NEW u \in Workers, NEW v \in Workers, Reserving(u)', Reserving(v)',
             worker'[u].request = worker'[v].request
      PROVE  u = v
  BY <1>7, <1>9 DEF DispatchInv
<1> QED
  BY <1>6, <1>8, <1>9 DEF DispatchInv

LEMMA DispatchStep == TypeOK /\ DispatchInv /\ [Next]_vars => DispatchInv'
<1> SUFFICES ASSUME TypeOK, DispatchInv, [Next]_vars PROVE DispatchInv'
  OBVIOUS
<1>1. ASSUME NEW w \in Workers, NEW r \in Requests, NEW p \in Payloads, Arrive(w, r, p)
      PROVE  DispatchInv'
  BY <1>1, ArriveDispatch
<1>2. ASSUME NEW w \in Workers, WorkerStep(w) \/ Crash(w)
      PROVE  DispatchInv'
  BY <1>2, AdmissionDispatch, DecideDispatch, DispatchDispatch, AnswerDispatch,
     RecordDispatch, FailDispatch
  DEF WorkerStep
<1>3. CASE Operate
  BY <1>3, OperateKeeps, DispatchFrame DEF TypeOK, Operate, Reserving
<1>4. CASE Tick \/ UNCHANGED vars
  <2>1. UNCHANGED <<execution, resolution, worker, dispatches>>
    BY <1>4 DEF Tick, vars, storeVars
  <2>2. \A x \in Requests : Kept(x) => Kept(x)'
    BY <2>1 DEF Kept
  <2> QED
    BY <2>1, <2>2, DispatchFrame DEF Reserving
<1> QED
  BY <1>1, <1>2, <1>3, <1>4 DEF Next

LEMMA DispatchInductive == Spec => []DispatchInv
<1>1. Init => DispatchInv
  BY DEF Init, Idle, DispatchInv, AtMostOnceDispatch, NoSpendForgotten, Reserving
<1>2. TypeOK /\ DispatchInv /\ [Next]_vars => DispatchInv'
  BY DispatchStep
<1> QED
  BY <1>1, <1>2, TypeCorrect, PTL DEF Spec

(* No interleaving of callers, retries, lease expiries and crashes sends a   *)
(* request to the provider twice.                                            *)
THEOREM DispatchedOnce == Spec => []AtMostOnceDispatch
<1>1. DispatchInv => AtMostOnceDispatch
  BY DEF DispatchInv
<1> QED
  BY <1>1, DispatchInductive, PTL

(* A request that reached the provider keeps counting against its mandate    *)
(* until it is settled or an operator has ruled on it.                       *)
THEOREM SpendKept == Spec => []NoSpendForgotten
<1>1. DispatchInv => NoSpendForgotten
  BY DEF DispatchInv
<1> QED
  BY <1>1, DispatchInductive, PTL

-----------------------------------------------------------------------------
(* Only an active mandate with authority left gets a request allowed. *)
LEMMA AllowedFacts ==
  ASSUME NEW p, NEW i, EvaluatePolicy(p, i).outcome = "ALLOW"
  PROVE  /\ i.mandateState = "active"
         /\ ~(i.mandateSpent + i.cost > i.mandateMaximum)
<1>1. Reasons(p, i) \cap HardDenials = {}
  BY DEF EvaluatePolicy, Denied
<1>2. "MANDATE_INACTIVE" \notin Reasons(p, i) /\ "MANDATE_BUDGET_EXCEEDED" \notin Reasons(p, i)
  BY <1>1 DEF HardDenials
<1>3. ~Raises(p, i, "MANDATE_INACTIVE") /\ ~Raises(p, i, "MANDATE_BUDGET_EXCEEDED")
  BY <1>2 DEF Reasons, ReasonCodes, HardDenials
<1> QED
  BY <1>3 DEF Raises

LEMMA AdmittedFacts ==
  ASSUME StoreTypeOK, NEW r \in Requests, NEW p \in Payloads, NEW t \in Nat, AdmitNew(r, p, t)
  PROVE  /\ execution[r].status = "absent" /\ UNCHANGED <<mandate, resolution>>
         /\ \A x \in Requests \ {r} : execution'[x] = execution[x]
         /\ execution'[r].payload = p /\ execution'[r].failure = "none"
         /\ \/ /\ execution'[r].status = "executing" /\ execution'[r].reserved = p.cost
               /\ mandate[p.mandate].state = "active"
               /\ MandateSpent(p.mandate) + p.cost <= mandate[p.mandate].maximum
            \/ execution'[r].status = "denied" /\ execution'[r].reserved = 0
<1> DEFINE m == p.mandate
           i == EvaluationInput(p, t)
<1>1. /\ m \in Mandates /\ p.cost \in Nat /\ mandate[m].maximum \in Nat
      /\ MandateSpent(m) \in Nat /\ execution \in [Requests -> ExecutionRow]
  BY PayloadAssumption, MaxAmountAssumption, RequestsAssumption, UnitsFinite
  DEF StoreTypeOK, MandateRow, Amount, MandateSpent
<1>2. /\ i.mandateState = mandate[m].state /\ i.mandateSpent = MandateSpent(m)
      /\ i.cost = p.cost /\ i.mandateMaximum = mandate[m].maximum
  BY DEF EvaluationInput
<1>3. Decision(p, t).outcome = "ALLOW" =>
        /\ mandate[m].state = "active"
        /\ ~(MandateSpent(m) + p.cost > mandate[m].maximum)
  BY <1>2, AllowedFacts DEF Decision
<1> DEFINE allowed == Decision(p, t).outcome = "ALLOW"
           row == [ status    |-> IF allowed THEN "executing" ELSE "denied",
                    payload   |-> p,
                    policy    |-> mandate[p.mandate].policy,
                    reserved  |-> IF allowed THEN p.cost ELSE 0,
                    actual    |-> Unknown,
                    failure   |-> "none",
                    answered  |-> FALSE,
                    createdAt |-> t ]
<1>4. execution' = [execution EXCEPT ![r] = row]
  BY DEF AdmitNew
<1>5. execution'[r] = row /\ \A x \in Requests \ {r} : execution'[x] = execution[x]
  BY <1>1, <1>4
<1>6. execution[r].status = "absent" /\ UNCHANGED <<mandate, resolution>>
  BY DEF AdmitNew
<1> HIDE DEF allowed, i
<1>7. allowed => /\ mandate[m].state = "active"
                 /\ MandateSpent(m) + p.cost <= mandate[m].maximum
  BY <1>1, <1>3 DEF allowed
<1> QED
  BY <1>5, <1>6, <1>7

-----------------------------------------------------------------------------
LEMMA ReviewBlocks ==
  ASSUME ReviewInv
  PROVE  OpenCaseBlocksMandate
BY DEF ReviewInv, OpenCaseBlocksMandate, OpenCases, RowOf

(* Rows that are no more in flight or under review than before, under a      *)
(* mandate that stays as it is.                                              *)
LEMMA ReviewFrame ==
  ASSUME ReviewInv, NEW x \in Requests,
         mandate'[execution'[x].payload.mandate].state
           = mandate[execution[x].payload.mandate].state,
         execution'[x].status \in {"executing", "reconciliation_hold"} =>
           execution[x].status \in {"executing", "reconciliation_hold"},
         Open(x)' => Open(x)
  PROVE  LET state == mandate'[execution'[x].payload.mandate].state
         IN /\ execution'[x].status \in {"executing", "reconciliation_hold"}
                 => state \notin {"absent", "draft"}
            /\ Open(x)' => state \in {"reconciliation_hold", "closing", "closed", "expired"}
BY DEF ReviewInv

LEMMA HoldMandateStates ==
  ASSUME StoreTypeOK, NEW m \in Mandates, mandate[m].state \notin {"absent", "draft"},
         HoldMandate(m)
  PROVE  /\ mandate'[m].state \in {"reconciliation_hold", "closed", "expired"}
         /\ \A n \in Mandates \ {m} : mandate'[n] = mandate[n]
<1>1. mandate \in [Mandates -> MandateRow]
  BY DEF StoreTypeOK
<1>2. CASE mandate[m].state \in Holdable
  BY <1>1, <1>2 DEF HoldMandate, MandateRow
<1>3. CASE mandate[m].state \notin Holdable
  <2>1. mandate[m].state \in {"reconciliation_hold", "closed", "expired"}
    BY <1>1, <1>3 DEF MandateRow, MandateStates, Holdable
  <2> QED
    BY <1>3, <2>1 DEF HoldMandate
<1> QED
  BY <1>2, <1>3

(* A row goes under review together with its mandate. *)
LEMMA ReviewHold ==
  ASSUME StoreTypeOK, ReviewInv, NEW r \in Requests,
         execution[r].status \in {"executing", "reconciliation_hold"},
         HoldMandate(execution[r].payload.mandate), UNCHANGED resolution,
         execution'[r].payload = execution[r].payload,
         \A x \in Requests \ {r} : execution'[x] = execution[x]
  PROVE  ReviewInv'
<1> DEFINE m == execution[r].payload.mandate
<1>1. m \in Mandates
  BY PayloadAssumption DEF StoreTypeOK
<1>2. mandate[m].state \notin {"absent", "draft"}
  BY DEF ReviewInv
<1>3. /\ mandate'[m].state \in {"reconciliation_hold", "closed", "expired"}
      /\ \A n \in Mandates \ {m} : mandate'[n] = mandate[n]
  BY <1>1, <1>2, HoldMandateStates
<1>4. ASSUME NEW x \in Requests
      PROVE  LET state == mandate'[execution'[x].payload.mandate].state
             IN /\ execution'[x].status \in {"executing", "reconciliation_hold"}
                     => state \notin {"absent", "draft"}
                /\ Open(x)' => state \in {"reconciliation_hold", "closing", "closed", "expired"}
  <2>1. CASE execution'[x].payload.mandate = m
    BY <1>3, <2>1
  <2>2. CASE execution'[x].payload.mandate # m
    <3>1. x # r /\ execution'[x] = execution[x]
      BY <2>2
    <3>2. CASE execution[x].status = "absent"
      BY <3>1, <3>2 DEF Open
    <3>3. CASE execution[x].status # "absent"
      <4>1. execution[x].payload.mandate \in Mandates
        BY <3>3, PayloadAssumption DEF StoreTypeOK
      <4>2. mandate'[execution'[x].payload.mandate] = mandate[execution[x].payload.mandate]
        BY <1>3, <2>2, <3>1, <4>1
      <4>3. Open(x)' => Open(x)
        BY <3>1 DEF Open
      <4> QED
        BY <3>1, <4>2, <4>3, ReviewFrame
    <3> QED
      BY <3>2, <3>3
  <2> QED
    BY <2>1, <2>2
<1> QED
  BY <1>4 DEF ReviewInv

(* Steps that leave the mandates alone. *)
LEMMA ReviewRows ==
  ASSUME ReviewInv, UNCHANGED <<mandate, resolution>>,
         \A x \in Requests :
           \/ execution'[x] = execution[x]
           \/ execution'[x].status \in {"denied", "completed", "failed"}
           \/ /\ execution'[x].status = "executing"
              /\ mandate[execution'[x].payload.mandate].state = "active"
  PROVE  ReviewInv'
<1>1. ASSUME NEW x \in Requests
      PROVE  LET state == mandate'[execution'[x].payload.mandate].state
             IN /\ execution'[x].status \in {"executing", "reconciliation_hold"}
                     => state \notin {"absent", "draft"}
                /\ Open(x)' => state \in {"reconciliation_hold", "closing", "closed", "expired"}
  <2>1. CASE execution'[x] = execution[x]
    BY <2>1, ReviewFrame DEF Open
  <2>2. CASE execution'[x].status \in {"denied", "completed", "failed"}
    BY <2>2 DEF Open
  <2>3. CASE /\ execution'[x].status = "executing"
             /\ mandate[execution'[x].payload.mandate].state = "active"
    BY <2>3 DEF Open
  <2> QED
    BY <2>1, <2>2, <2>3
<1> QED
  BY <1>1 DEF ReviewInv

(* A mandate may be held although no row is: the retry that expires a lease  *)
(* finds the row settled meanwhile.                                          *)
LEMMA ReviewHoldAlone ==
  ASSUME StoreTypeOK, ReviewInv, NEW m \in Mandates, HoldMandate(m),
         UNCHANGED <<execution, resolution>>
  PROVE  ReviewInv'
<1>1. mandate \in [Mandates -> MandateRow]
  BY DEF StoreTypeOK
<1>2. CASE mandate[m].state \in Holdable
  <2>1. /\ mandate'[m].state = "reconciliation_hold"
        /\ \A n \in Mandates \ {m} : mandate'[n] = mandate[n]
    BY <1>1, <1>2 DEF HoldMandate, MandateRow
  <2>2. ASSUME NEW x \in Requests
        PROVE  LET state == mandate'[execution'[x].payload.mandate].state
               IN /\ execution'[x].status \in {"executing", "reconciliation_hold"}
                       => state \notin {"absent", "draft"}
                  /\ Open(x)' => state \in {"reconciliation_hold", "closing", "closed",
                                            "expired"}
    <3>1. CASE execution[x].status = "absent"
      BY <3>1 DEF Open
    <3>2. CASE execution[x].status # "absent" /\ execution[x].payload.mandate = m
      BY <2>1, <3>2
    <3>3. CASE execution[x].status # "absent" /\ execution[x].payload.mandate # m
      <4>1. execution[x].payload.mandate \in Mandates
        BY <3>3, PayloadAssumption DEF StoreTypeOK
      <4> QED
        BY <2>1, <3>3, <4>1, ReviewFrame DEF Open
    <3> QED
      BY <3>1, <3>2, <3>3
  <2> QED
    BY <2>2 DEF ReviewInv
<1>3. CASE mandate[m].state \notin Holdable
  BY <1>3, ReviewRows DEF HoldMandate
<1> QED
  BY <1>2, <1>3

LEMMA ExpireReview ==
  ASSUME TypeOK, ReviewInv, NEW w \in Workers, ExpireLease(w)
  PROVE  ReviewInv'
<1> DEFINE r == worker[w].request
<1>1. /\ r \in Requests /\ StoreTypeOK /\ execution[r].status # "absent"
      /\ execution \in [Requests -> ExecutionRow]
  BY CallFacts DEF TypeOK, StoreTypeOK, ExpireLease, Stale, SameRequest, At
<1>2. AdmitExpired(r) /\ UNCHANGED resolution /\ HoldMandate(execution[r].payload.mandate)
  BY DEF ExpireLease, AdmitExpired
<1>3. execution[r].payload.mandate \in Mandates
  BY <1>1, PayloadAssumption DEF StoreTypeOK
<1>4. CASE execution[r].status = "executing"
  <2>1. /\ execution'[r].payload = execution[r].payload
        /\ \A x \in Requests \ {r} : execution'[x] = execution[x]
    BY <1>1, <1>2, <1>4 DEF AdmitExpired, ExecutionRow
  <2> QED
    BY <1>1, <1>2, <1>4, <2>1, ReviewHold
<1>5. CASE execution[r].status # "executing"
  BY <1>1, <1>2, <1>3, <1>5, ReviewHoldAlone DEF AdmitExpired
<1> QED
  BY <1>4, <1>5

LEMMA RecordReview ==
  ASSUME TypeOK, ReviewInv, NEW w \in Workers,
         \/ Complete(w) \/ CompletionUnacknowledged(w)
         \/ RecordHold(w) \/ RecordFailure(w)
  PROVE  ReviewInv'
<1> DEFINE r == worker[w].request
<1>1. /\ r \in Requests /\ StoreTypeOK /\ execution \in [Requests -> ExecutionRow]
      /\ execution[r].status = "executing" /\ UNCHANGED resolution
  BY CallFacts DEF TypeOK, StoreTypeOK, Complete, CompletionUnacknowledged, RecordHold,
                   RecordFailure, At, CompleteInference, CompleteOverrun, HoldInference,
                   FailInference
<1>2. CASE CompleteInference(r, worker[w].cost) \/ FailInference(r)
  <2>1. /\ execution'[r].status \in {"completed", "failed"} /\ UNCHANGED mandate
        /\ \A x \in Requests \ {r} : execution'[x] = execution[x]
    BY <1>1, <1>2 DEF CompleteInference, FailInference, ExecutionRow
  <2> QED
    BY <1>1, <2>1, ReviewRows
<1>3. CASE CompleteOverrun(r, worker[w].cost)
  <2>1. /\ execution'[r].payload = execution[r].payload
        /\ \A x \in Requests \ {r} : execution'[x] = execution[x]
        /\ HoldMandate(execution[r].payload.mandate)
    BY <1>1, <1>3 DEF CompleteOverrun, ExecutionRow
  <2> QED
    BY <1>1, <2>1, ReviewHold
<1>4. CASE HoldInference(r, worker[w].reason, worker[w].answered)
  <2>1. /\ execution'[r].payload = execution[r].payload
        /\ \A x \in Requests \ {r} : execution'[x] = execution[x]
        /\ HoldMandate(execution[r].payload.mandate)
    BY <1>1, <1>4 DEF HoldInference, ExecutionRow
  <2> QED
    BY <1>1, <2>1, ReviewHold
<1> QED
  BY <1>2, <1>3, <1>4 DEF Complete, CompletionUnacknowledged, RecordHold, RecordFailure

LEMMA CallReview ==
  ASSUME TypeOK, ReviewInv, NEW w \in Workers, WorkerStep(w) \/ Crash(w)
  PROVE  ReviewInv'
<1>1. CASE Decide(w)
  <2> DEFINE r == worker[w].request
  <2>1. /\ r \in Requests /\ worker[w].payload \in Payloads
        /\ worker[w].decidedAt \in Nat /\ StoreTypeOK
    BY <1>1, CallFacts DEF TypeOK, Decide, At, Call
  <2>2. /\ UNCHANGED <<mandate, resolution>>
        /\ \A x \in Requests \ {r} : execution'[x] = execution[x]
        /\ execution'[r].payload = worker[w].payload
        /\ \/ /\ execution'[r].status = "executing"
              /\ mandate[worker[w].payload.mandate].state = "active"
           \/ execution'[r].status = "denied"
    BY <1>1, <2>1, AdmittedFacts DEF Decide
  <2> QED
    BY <2>1, <2>2, ReviewRows
<1>2. CASE ExpireLease(w)
  BY <1>2, ExpireReview
<1>3. CASE \/ Complete(w) \/ CompletionUnacknowledged(w)
           \/ RecordHold(w) \/ RecordFailure(w)
  BY <1>3, RecordReview
<1>4. CASE \/ Admit(w) \/ Refuse(w) \/ Collide(w) \/ Replay(w)
           \/ Dispatch(w) \/ NotDispatched(w) \/ AnswerLost(w)
           \/ \E cost \in Costs : Answer(w, cost)
           \/ RejectAnswer(w) \/ CompletionThrows(w) \/ TooLate(w) \/ Crash(w)
  <2>1. UNCHANGED <<mandate, execution, resolution>>
    BY <1>4 DEF Admit, AdmitRead, Refuse, Collide, Replay, AdmitNothing, Dispatch,
                NotDispatched, AnswerLost, Answer, RejectAnswer, CompletionThrows, TooLate,
                Crash, storeVars
  <2> QED
    BY <2>1, ReviewRows
<1> QED
  BY <1>1, <1>2, <1>3, <1>4 DEF WorkerStep

(* What an operator may request keeps an open case's mandate out of use. *)
LEMMA TransitionReview ==
  ASSUME StoreTypeOK, ReviewInv, NEW m \in Mandates, NEW to \in MandateStates,
         TransitionMandateState(m, to)
  PROVE  ReviewInv'
<1>1. /\ mandate \in [Mandates -> MandateRow]
      /\ mandate[m].state # "absent" /\ to \in MandateTransitions[mandate[m].state]
      /\ mandate'[m].state = to /\ \A n \in Mandates \ {m} : mandate'[n] = mandate[n]
      /\ UNCHANGED <<execution, resolution>>
  BY DEF StoreTypeOK, TransitionMandateState, Exists, MandateRow
<1>2. mandate[m].state \in MandateStates
  BY <1>1 DEF MandateRow
<1>3. /\ to # "draft"
      /\ mandate[m].state \in {"reconciliation_hold", "closing", "closed", "expired"} =>
           to \in {"reconciliation_hold", "closing", "closed", "expired"}
  BY <1>1, <1>2 DEF MandateTransitions, MandateStates
<1>4. ASSUME NEW x \in Requests, execution[x].status # "absent"
      PROVE  LET state == mandate'[execution'[x].payload.mandate].state
             IN /\ execution'[x].status \in {"executing", "reconciliation_hold"}
                     => state \notin {"absent", "draft"}
                /\ Open(x)' => state \in {"reconciliation_hold", "closing", "closed", "expired"}
  <2>1. CASE execution[x].payload.mandate = m
    BY <1>1, <1>3, <2>1 DEF ReviewInv, Open, MandateStates
  <2>2. CASE execution[x].payload.mandate # m
    <3>1. execution[x].payload.mandate \in Mandates
      BY <1>4, PayloadAssumption DEF StoreTypeOK
    <3> QED
      BY <1>1, <2>2, <3>1, ReviewFrame DEF Open
  <2> QED
    BY <2>1, <2>2
<1> QED
  BY <1>1, <1>4 DEF ReviewInv, Open

(* No row is in flight under a mandate that does not exist yet. *)
LEMMA CreateReview ==
  ASSUME StoreTypeOK, ReviewInv, NEW m \in Mandates, NEW maximum, NEW v, NEW expiry,
         CreateMandate(m, maximum, v, expiry)
  PROVE  ReviewInv'
<1>1. /\ mandate \in [Mandates -> MandateRow] /\ mandate[m].state = "absent"
      /\ \A n \in Mandates \ {m} : mandate'[n] = mandate[n]
      /\ UNCHANGED <<execution, resolution>>
  BY DEF StoreTypeOK, CreateMandate, Exists
<1>2. ASSUME NEW x \in Requests, execution[x].status \in {"executing", "reconciliation_hold"}
      PROVE  mandate'[execution'[x].payload.mandate] = mandate[execution[x].payload.mandate]
  <2>1. execution[x].payload.mandate \in Mandates
    BY <1>2, PayloadAssumption DEF StoreTypeOK
  <2>2. execution[x].payload.mandate # m
    BY <1>1, <1>2 DEF ReviewInv
  <2> QED
    BY <1>1, <2>1, <2>2
<1> QED
  BY <1>1, <1>2 DEF ReviewInv, Open

(* The mandate comes back with its last case only. *)
LEMMA ResolveReview ==
  ASSUME StoreTypeOK, ReviewInv, NEW r \in Requests,
         NEW kind \in {"settle", "confirm_not_billed"}, NEW a \in Amount,
         ResolveReconciliation(r, kind, a)
  PROVE  ReviewInv'
<1> DEFINE m == execution[r].payload.mandate
<1>1. /\ execution \in [Requests -> ExecutionRow] /\ mandate \in [Mandates -> MandateRow]
      /\ resolution \in [Requests -> ResolutionRow] /\ m \in Mandates
      /\ Open(r) /\ hold \in [Mandates -> Holdable \cup {"none"}]
  BY PayloadAssumption DEF StoreTypeOK, ResolveReconciliation, Open
<1>2. /\ execution' = [execution EXCEPT ![r] = ResolvedRow(execution[r], kind, a)]
      /\ \A x \in Requests \ {r} : resolution'[x] = resolution[x]
  BY <1>1 DEF ResolveReconciliation
<1>3. /\ execution'[r].status \in {"completed", "failed"}
      /\ \A x \in Requests \ {r} : execution'[x] = execution[x]
  BY <1>1, <1>2 DEF ResolvedRow, ExecutionRow
<1>4. ~Open(r)' /\ \A x \in Requests \ {r} : Open(x)' => Open(x)
  BY <1>2, <1>3 DEF Open
<1>5. /\ \A n \in Mandates \ {m} : mandate'[n] = mandate[n]
      /\ \/ mandate'[m] = mandate[m]
         \/ OpenCases(m) = {r} /\ mandate'[m].state \in MandateStates \ {"draft"}
  <2>1. CASE LastCase(m, r)
    <3>1. ReleaseMandate(m) /\ OpenCases(m) = {r}
      BY <2>1 DEF ResolveReconciliation, LastCase
    <3>2. CASE hold[m] = "none"
      BY <3>1, <3>2 DEF ReleaseMandate
    <3>3. CASE hold[m] # "none"
      <4>1. Restored(hold[m]) \in MandateStates \ {"draft"}
        BY <1>1, <3>3 DEF Restored, Holdable, MandateStates
      <4> QED
        BY <1>1, <3>1, <3>3, <4>1 DEF ReleaseMandate, MandateRow
    <3> QED
      BY <3>2, <3>3
  <2>2. CASE ~LastCase(m, r)
    BY <2>2 DEF ResolveReconciliation
  <2> QED
    BY <2>1, <2>2
<1>6. ASSUME NEW x \in Requests, x # r, execution[x].status # "absent"
      PROVE  LET state == mandate'[execution'[x].payload.mandate].state
             IN /\ execution'[x].status \in {"executing", "reconciliation_hold"}
                     => state \notin {"absent", "draft"}
                /\ Open(x)' => state \in {"reconciliation_hold", "closing", "closed", "expired"}
  <2>1. execution[x].payload.mandate \in Mandates /\ execution'[x] = execution[x]
    BY <1>3, <1>6, PayloadAssumption DEF StoreTypeOK
  <2>2. CASE mandate'[execution[x].payload.mandate] = mandate[execution[x].payload.mandate]
    BY <1>4, <1>6, <2>1, <2>2, ReviewFrame
  <2>3. CASE mandate'[execution[x].payload.mandate] # mandate[execution[x].payload.mandate]
    <3>1. /\ execution[x].payload.mandate = m /\ OpenCases(m) = {r}
          /\ mandate'[m].state \in MandateStates \ {"draft"}
      BY <1>5, <2>1, <2>3
    <3>2. ~Open(x)
      BY <1>6, <3>1 DEF OpenCases, RowOf
    <3> QED
      BY <1>4, <1>6, <2>1, <3>1, <3>2 DEF MandateStates
  <2> QED
    BY <2>2, <2>3
<1> QED
  BY <1>3, <1>4, <1>6 DEF ReviewInv, Open

LEMMA ReviewStep == TypeOK /\ ReviewInv /\ [Next]_vars => ReviewInv'
<1> SUFFICES ASSUME TypeOK, ReviewInv, [Next]_vars PROVE ReviewInv'
  OBVIOUS
<1>1. StoreTypeOK
  BY DEF TypeOK
<1>2. ASSUME NEW w \in Workers, WorkerStep(w) \/ Crash(w)
      PROVE  ReviewInv'
  BY <1>2, CallReview
<1>3. CASE Resolve
  BY <1>1, <1>3, ResolveReview, BoundsAssumption DEF Resolve
<1>4. CASE Administer
  <2>1. ASSUME NEW m \in Mandates, NEW x \in Maxima, NEW v \in Policies,
               NEW e \in Expiries, CreateMandate(m, x, v, e)
        PROVE  ReviewInv'
    BY <1>1, <2>1, CreateReview
  <2>2. ASSUME NEW m \in Mandates, NEW to \in MandateStates, TransitionMandateState(m, to)
        PROVE  ReviewInv'
    BY <1>1, <2>2, TransitionReview
  <2>3. ASSUME NEW m \in Mandates, NEW v \in Policies, SetMandatePolicy(m, v)
        PROVE  ReviewInv'
    <3>1. /\ \A n \in Mandates : mandate'[n].state = mandate[n].state
          /\ UNCHANGED <<execution, resolution>>
      BY <1>1, <2>3 DEF StoreTypeOK, SetMandatePolicy, MandateRow
    <3>2. ASSUME NEW x \in Requests, execution[x].status # "absent"
          PROVE  mandate'[execution'[x].payload.mandate].state
                   = mandate[execution[x].payload.mandate].state
      BY <1>1, <3>1, <3>2, PayloadAssumption DEF StoreTypeOK
    <3> QED
      BY <3>1, <3>2 DEF ReviewInv, Open
  <2>4. CASE UNCHANGED <<mandate, execution, resolution>>
    BY <2>4, ReviewRows
  <2> QED
    BY <1>4, <2>1, <2>2, <2>3, <2>4
    DEF Administer, Transition, PublishPolicy, AssignAgent, CreateBranch
<1>5. CASE \/ \E w \in Workers, r \in Requests, p \in Payloads : Arrive(w, r, p)
           \/ Tick \/ UNCHANGED vars
  <2>1. UNCHANGED <<mandate, execution, resolution>>
    BY <1>5 DEF Arrive, Tick, vars, storeVars
  <2> QED
    BY <2>1, ReviewRows
<1> QED
  BY <1>2, <1>3, <1>4, <1>5 DEF Next, Operate

LEMMA ReviewInductive == Spec => []ReviewInv
<1>1. Init => ReviewInv
  BY DEF Init, StoreInit, NoExecution, ReviewInv, Open
<1>2. TypeOK /\ ReviewInv /\ [Next]_vars => ReviewInv'
  BY ReviewStep
<1> QED
  BY <1>1, <1>2, TypeCorrect, PTL DEF Spec

(* While a case of it is open a mandate is neither active nor resumable,     *)
(* whichever cases are resolved in whatever order and whatever operators ask.*)
THEOREM CaseBlocksMandate == Spec => []OpenCaseBlocksMandate
<1>1. ReviewInv => OpenCaseBlocksMandate
  BY ReviewBlocks
<1> QED
  BY <1>1, ReviewInductive, PTL

-----------------------------------------------------------------------------
(* What a step does to a row: it leaves it alone, writes a new one, or moves *)
(* on one that is in flight without touching its decision.                   *)
SameDecision(e, f) == /\ f.payload = e.payload /\ f.policy = e.policy
                      /\ f.reserved = e.reserved /\ f.createdAt = e.createdAt

MovesOn(e, f) == /\ e.status \in {"executing", "reconciliation_hold"}
                 /\ f.status \in {"completed", "failed", "reconciliation_hold"}
                 /\ SameDecision(e, f)

LEMMA WrittenMoveOn ==
  ASSUME NEW e \in ExecutionRow, e.status \in {"executing", "reconciliation_hold"}
  PROVE  /\ \A actual : MovesOn(e, CompletedRow(e, actual)) /\ MovesOn(e, OverrunRow(e, actual))
         /\ \A reason, answered : MovesOn(e, HeldRow(e, reason, answered))
         /\ MovesOn(e, FailedRow(e)) /\ MovesOn(e, ExpiredRow(e))
BY WrittenColumns DEF MovesOn, SameDecision

LEMMA OnlyOneMoves ==
  ASSUME StoreTypeOK, NEW r \in Requests, NEW row, Writes(r, row), MovesOn(execution[r], row),
         NEW x \in Requests
  PROVE  execution'[x] = execution[x] \/ MovesOn(execution[x], execution'[x])
BY WritesOne

LEMMA CallRow ==
  ASSUME TypeOK, NEW w \in Workers, WorkerStep(w) \/ Crash(w), NEW x \in Requests
  PROVE  \/ execution'[x] = execution[x]
         \/ Decide(w) /\ worker[w].request = x
         \/ MovesOn(execution[x], execution'[x])
<1> DEFINE r == worker[w].request
           e == execution[r]
<1>1. execution \in [Requests -> ExecutionRow] /\ StoreTypeOK
  BY DEF TypeOK, StoreTypeOK
<1>0. worker[w].stage # "idle" => r \in Requests /\ e \in ExecutionRow
  BY <1>1, CallFacts DEF TypeOK
<1>2. CASE Decide(w)
  BY <1>1, <1>2 DEF Decide, AdmitNew
<1>9. ASSUME NEW row, r \in Requests, Writes(r, row), MovesOn(e, row)
      PROVE  execution'[x] = execution[x] \/ MovesOn(execution[x], execution'[x])
  BY <1>1, <1>9, OnlyOneMoves
<1>3. CASE ExpireLease(w)
  <2>1. r \in Requests /\ e \in ExecutionRow /\ AdmitExpired(r)
    BY <1>0, <1>3 DEF ExpireLease, At
  <2> HIDE DEF r
  <2>2. CASE e.status = "executing"
    BY <1>1, <1>9, <2>1, <2>2, WrittenRows, WrittenMoveOn
  <2>3. CASE e.status # "executing"
    BY <1>1, <2>1, <2>3, WrittenRows
  <2> QED
    BY <2>2, <2>3
<1>4. CASE Complete(w) \/ CompletionUnacknowledged(w)
  <2> DEFINE cost == worker[w].cost
  <2>1. /\ r \in Requests /\ e \in ExecutionRow
        /\ CompleteInference(r, cost) \/ CompleteOverrun(r, cost)
    BY <1>0, <1>4 DEF Complete, CompletionUnacknowledged, At
  <2>2. e.status = "executing"
    BY <2>1 DEF CompleteInference, CompleteOverrun
  <2> HIDE DEF r, cost
  <2>3. Writes(r, CompletedRow(e, cost)) \/ Writes(r, OverrunRow(e, cost))
    BY <1>1, <2>1, WrittenRows
  <2> QED
    BY <1>9, <2>1, <2>2, <2>3, WrittenMoveOn
<1>5. CASE RecordHold(w)
  <2> DEFINE reason == worker[w].reason
             answered == worker[w].answered
  <2>1. /\ r \in Requests /\ e \in ExecutionRow /\ HoldInference(r, reason, answered)
    BY <1>0, <1>5 DEF RecordHold, At
  <2>2. e.status = "executing"
    BY <2>1 DEF HoldInference
  <2> HIDE DEF r, reason, answered
  <2>3. Writes(r, HeldRow(e, reason, answered))
    BY <1>1, <2>1, WrittenRows
  <2> QED
    BY <1>9, <2>1, <2>2, <2>3, WrittenMoveOn
<1>6. CASE RecordFailure(w)
  <2>1. r \in Requests /\ e \in ExecutionRow /\ FailInference(r)
    BY <1>0, <1>6 DEF RecordFailure, At
  <2>2. e.status = "executing"
    BY <2>1 DEF FailInference
  <2> HIDE DEF r
  <2>3. Writes(r, FailedRow(e))
    BY <1>1, <2>1, WrittenRows
  <2> QED
    BY <1>9, <2>1, <2>2, <2>3, WrittenMoveOn
<1>7. CASE \/ Admit(w) \/ Refuse(w) \/ Collide(w) \/ Replay(w)
           \/ Dispatch(w) \/ NotDispatched(w) \/ AnswerLost(w)
           \/ \E cost \in Costs : Answer(w, cost)
           \/ RejectAnswer(w) \/ CompletionThrows(w) \/ TooLate(w) \/ Crash(w)
  BY <1>7 DEF Admit, AdmitRead, Refuse, Collide, Replay, AdmitNothing, Dispatch,
              NotDispatched, AnswerLost, Answer, RejectAnswer, CompletionThrows, TooLate,
              Crash, storeVars
<1> QED
  BY <1>2, <1>3, <1>4, <1>5, <1>6, <1>7 DEF WorkerStep

LEMMA OperateRow ==
  ASSUME TypeOK, Operate, NEW x \in Requests
  PROVE  execution'[x] = execution[x] \/ MovesOn(execution[x], execution'[x])
<1>1. CASE Administer
  BY <1>1 DEF Administer, Transition, PublishPolicy, CreateMandate, AssignAgent,
              SetMandatePolicy, CreateBranch, TransitionMandateState
<1>2. CASE Resolve
  <2>1. PICK r \in Requests, kind \in {"settle", "confirm_not_billed"}, a \in Settlements :
               ResolveReconciliation(r, kind, a)
    BY <1>2 DEF Resolve
  <2>2. /\ execution \in [Requests -> ExecutionRow] /\ Open(r)
        /\ execution' = [execution EXCEPT ![r] = ResolvedRow(execution[r], kind, a)]
    BY <2>1 DEF TypeOK, StoreTypeOK, ResolveReconciliation
  <2> QED
    BY <2>2 DEF ResolvedRow, ExecutionRow, Open, MovesOn, SameDecision
<1> QED
  BY <1>1, <1>2 DEF Operate

LEMMA RowStep ==
  ASSUME TypeOK, [Next]_vars, NEW x \in Requests
  PROVE  \/ execution'[x] = execution[x]
         \/ \E w \in Workers : Decide(w) /\ worker[w].request = x
         \/ MovesOn(execution[x], execution'[x])
<1>1. CASE \/ \E w \in Workers, r \in Requests, p \in Payloads : Arrive(w, r, p)
           \/ Tick \/ UNCHANGED vars
  BY <1>1 DEF Arrive, Tick, vars, storeVars
<1>2. ASSUME NEW w \in Workers, WorkerStep(w) \/ Crash(w)
      PROVE  \/ execution'[x] = execution[x]
             \/ Decide(w) /\ worker[w].request = x
             \/ MovesOn(execution[x], execution'[x])
  BY <1>2, CallRow
<1>3. CASE Operate
  BY <1>3, OperateRow
<1> QED
  BY <1>1, <1>2, <1>3 DEF Next

(* A denied, completed or failed row is never written again. *)
THEOREM FinalRows == Spec => FinalRowsImmutable
<1> DEFINE A == \A r \in Requests :
                  execution[r].status \in {"denied", "completed", "failed"}
                    => execution'[r] = execution[r]
<1>1. TypeOK /\ [Next]_vars => [A]_vars
  <2> SUFFICES ASSUME TypeOK, [Next]_vars, NEW r \in Requests,
                      execution[r].status \in {"denied", "completed", "failed"}
               PROVE  execution'[r] = execution[r]
    OBVIOUS
  <2>1. ~MovesOn(execution[r], execution'[r])
    BY DEF MovesOn
  <2>2. \A w \in Workers : Decide(w) => worker[w].request # r
    BY DEF Decide, AdmitNew
  <2> QED
    BY <2>1, <2>2, RowStep
<1> QED
  BY <1>1, TypeCorrect, PTL DEF Spec, FinalRowsImmutable

(* What was decided on a request stays on its row. *)
THEOREM DecisionsStay == Spec => DecisionsImmutable
<1> DEFINE A == \A r \in Requests : execution[r].status # "absent" =>
                  /\ execution'[r].status # "absent"
                  /\ \A f \in {"payload", "policy", "reserved", "createdAt"} :
                       execution'[r][f] = execution[r][f]
<1>1. TypeOK /\ [Next]_vars => [A]_vars
  <2> SUFFICES ASSUME TypeOK, [Next]_vars, NEW r \in Requests,
                      execution[r].status # "absent"
               PROVE  /\ execution'[r].status # "absent"
                      /\ \A f \in {"payload", "policy", "reserved", "createdAt"} :
                           execution'[r][f] = execution[r][f]
    OBVIOUS
  <2>1. \A w \in Workers : Decide(w) => worker[w].request # r
    BY DEF Decide, AdmitNew
  <2>2. execution'[r] = execution[r] \/ MovesOn(execution[r], execution'[r])
    BY <2>1, RowStep
  <2>3. SameDecision(execution[r], execution'[r])
    BY <2>2 DEF MovesOn, SameDecision
  <2>4. execution'[r].status # "absent"
    BY <2>2 DEF MovesOn
  <2> QED
    BY <2>3, <2>4 DEF SameDecision
<1> QED
  BY <1>1, TypeCorrect, PTL DEF Spec, DecisionsImmutable

(* Nothing is reserved on a mandate that is not active or has an open case. *)
THEOREM NoneAdmittedUnderReview == Spec => NoAdmissionUnderReview
<1> DEFINE A == \A r \in Requests :
                  execution[r].status = "absent" /\ execution'[r].status = "executing"
                    => LET m == execution'[r].payload.mandate
                       IN mandate[m].state = "active" /\ OpenCases(m) = {}
<1>1. TypeOK /\ ReviewInv /\ [Next]_vars => [A]_vars
  <2> SUFFICES ASSUME TypeOK, ReviewInv, [Next]_vars, NEW r \in Requests,
                      execution[r].status = "absent", execution'[r].status = "executing"
               PROVE  /\ mandate[execution'[r].payload.mandate].state = "active"
                      /\ OpenCases(execution'[r].payload.mandate) = {}
    OBVIOUS
  <2>1. PICK w \in Workers : Decide(w) /\ worker[w].request = r
    BY RowStep DEF MovesOn
  <2>2. /\ worker[w].payload \in Payloads /\ worker[w].decidedAt \in Nat /\ StoreTypeOK
    BY <2>1, CallFacts DEF TypeOK, Decide, At, Call
  <2>3. /\ execution'[r].payload.mandate \in Mandates
        /\ mandate[execution'[r].payload.mandate].state = "active"
    BY <2>1, <2>2, AdmittedFacts, PayloadAssumption DEF Decide
  <2> QED
    BY <2>3, ReviewBlocks DEF OpenCaseBlocksMandate
<1> QED
  BY <1>1, TypeCorrect, ReviewInductive, PTL DEF Spec, NoAdmissionUnderReview

-----------------------------------------------------------------------------
(* Costs are recorded within reservations, or ruled on by an operator. *)
LEMMA CostsFrame ==
  ASSUME NEW x \in Requests, InOrder(x), execution'[x] = execution[x],
         resolution'[x] = resolution[x]
  PROVE  InOrder(x)'
BY DEF InOrder, CostsInOrder, Settled

LEMMA RecordCosts ==
  ASSUME TypeOK, NEW w \in Workers, NEW x \in Requests, InOrder(x),
         \/ Complete(w) \/ CompletionUnacknowledged(w)
         \/ RecordHold(w) \/ RecordFailure(w) \/ ExpireLease(w)
  PROVE  InOrder(x)'
<1> DEFINE r == worker[w].request
           e == execution[r]
<1>1. /\ execution \in [Requests -> ExecutionRow] /\ r \in Requests
      /\ worker[w].cost \in Amount /\ worker[w].reason \in HoldReasons \cup {"none"}
      /\ UNCHANGED resolution
  BY CallFacts DEF TypeOK, StoreTypeOK, Complete, CompletionUnacknowledged, RecordHold,
                   RecordFailure, ExpireLease, At, Call, CompleteInference, CompleteOverrun,
                   HoldInference, FailInference, AdmitExpired
<1>2. CASE x # r
  <2>1. execution'[x] = execution[x]
    BY <1>1, <1>2 DEF Complete, CompletionUnacknowledged, RecordHold, RecordFailure,
                      ExpireLease, CompleteInference, CompleteOverrun, HoldInference,
                      FailInference, AdmitExpired
  <2> QED
    BY <1>1, <2>1, CostsFrame
<1>3. CASE x = r
  <2> DEFINE cost == worker[w].cost
             reason == worker[w].reason
             answered == worker[w].answered
  <2>0. StoreTypeOK /\ e \in ExecutionRow /\ CostsInOrder(e, resolution[x].kind)
    BY <1>1, <1>3 DEF TypeOK, InOrder
  <2>1. \/ CompleteInference(r, cost) \/ CompleteOverrun(r, cost)
        \/ HoldInference(r, reason, answered) \/ FailInference(r) \/ AdmitExpired(r)
    BY DEF Complete, CompletionUnacknowledged, RecordHold, RecordFailure, ExpireLease
  <2> SUFFICES CostsInOrder(execution'[r], resolution[x].kind)
    BY <1>1, <1>3 DEF InOrder
  <2>2. cost \in Amount /\ reason \in HoldReasons \cup {"none"}
    BY <1>1
  <2> HIDE DEF r, cost, reason, answered
  <2>3. CASE CompleteInference(r, cost)
    <3>1. execution'[r] = CompletedRow(e, cost) /\ cost <= e.reserved /\ e.status = "executing"
      BY <1>1, <2>0, <2>3, WrittenRows, WritesOne DEF CompleteInference
    <3> QED
      BY <2>0, <2>2, <3>1, WrittenColumns DEF CostsInOrder, Settled
  <2>4. CASE CompleteOverrun(r, cost)
    <3>1. execution'[r] = OverrunRow(e, cost) /\ e.status = "executing"
      BY <1>1, <2>0, <2>4, WrittenRows, WritesOne DEF CompleteOverrun
    <3> QED
      BY <2>0, <3>1, WrittenColumns DEF CostsInOrder, Settled
  <2>5. CASE HoldInference(r, reason, answered)
    <3>1. execution'[r] = HeldRow(e, reason, answered)
      BY <1>1, <2>0, <2>5, WrittenRows, WritesOne
    <3> QED
      BY <2>0, <2>2, <3>1, WrittenColumns DEF CostsInOrder, Settled, HoldReasons
  <2>6. CASE FailInference(r)
    <3>1. execution'[r] = FailedRow(e)
      BY <1>1, <2>0, <2>6, WrittenRows, WritesOne
    <3> QED
      BY <2>0, <3>1, WrittenColumns DEF CostsInOrder, Settled
  <2>7. CASE AdmitExpired(r)
    <3>1. execution'[r] = ExpiredRow(e) \/ execution'[r] = e
      <4>1. CASE e.status = "executing"
        <5>1. Writes(r, ExpiredRow(e))
          BY <1>1, <2>0, <2>7, <4>1, WrittenRows
        <5> QED
          BY <1>1, <2>0, <5>1, WritesOne
      <4>2. CASE e.status # "executing"
        BY <1>1, <2>0, <2>7, <4>2, WrittenRows
      <4> QED
        BY <4>1, <4>2
    <3> QED
      BY <2>0, <3>1, WrittenColumns DEF CostsInOrder, Settled
  <2> QED
    BY <2>1, <2>3, <2>4, <2>5, <2>6, <2>7
<1> QED
  BY <1>2, <1>3

LEMMA ResolveCosts ==
  ASSUME StoreTypeOK, NEW r \in Requests, NEW kind \in {"settle", "confirm_not_billed"},
         NEW a \in Amount, ResolveReconciliation(r, kind, a),
         NEW x \in Requests, InOrder(x)
  PROVE  InOrder(x)'
<1>1. /\ execution \in [Requests -> ExecutionRow]
      /\ execution' = [execution EXCEPT ![r] = ResolvedRow(execution[r], kind, a)]
      /\ resolution'[r].kind = kind
      /\ \A y \in Requests \ {r} : resolution'[y] = resolution[y]
  BY DEF StoreTypeOK, ResolveReconciliation
<1>2. CASE x # r
  BY <1>1, <1>2, CostsFrame
<1>3. CASE x = r
  BY <1>1, <1>3 DEF ResolvedRow, ExecutionRow, InOrder, CostsInOrder, Settled
<1> QED
  BY <1>2, <1>3

LEMMA CostsStep ==
  ASSUME TypeOK, [Next]_vars, NEW x \in Requests, InOrder(x)
  PROVE  InOrder(x)'
<1>1. ASSUME NEW w \in Workers, Decide(w)
      PROVE  InOrder(x)'
  <2>1. /\ worker[w].request \in Requests /\ worker[w].payload \in Payloads
        /\ worker[w].decidedAt \in Nat /\ StoreTypeOK
    BY <1>1, CallFacts DEF TypeOK, Decide, At, Call
  <2>2. CASE x # worker[w].request
    BY <1>1, <2>1, <2>2, AdmittedFacts, CostsFrame DEF Decide
  <2>3. CASE x = worker[w].request
    <3>1. execution'[x].status \in {"executing", "denied"} /\ execution'[x].failure = "none"
      BY <1>1, <2>1, <2>3, AdmittedFacts DEF Decide
    <3> QED
      BY <3>1 DEF InOrder, CostsInOrder, Settled
  <2> QED
    BY <2>2, <2>3
<1>2. ASSUME NEW w \in Workers,
             \/ Complete(w) \/ CompletionUnacknowledged(w)
             \/ RecordHold(w) \/ RecordFailure(w) \/ ExpireLease(w)
      PROVE  InOrder(x)'
  BY <1>2, RecordCosts
<1>3. CASE Operate
  <2>1. CASE Administer
    BY <2>1, CostsFrame
    DEF Administer, Transition, PublishPolicy, CreateMandate, AssignAgent,
        SetMandatePolicy, CreateBranch, TransitionMandateState
  <2>2. CASE Resolve
    BY <2>2, ResolveCosts, BoundsAssumption DEF Resolve, TypeOK
  <2> QED
    BY <1>3, <2>1, <2>2 DEF Operate
<1>4. CASE UNCHANGED <<execution, resolution>>
  BY <1>4, CostsFrame
<1>5. \/ \E w \in Workers : Decide(w)
      \/ \E w \in Workers : \/ Complete(w) \/ CompletionUnacknowledged(w)
                            \/ RecordHold(w) \/ RecordFailure(w) \/ ExpireLease(w)
      \/ Operate \/ UNCHANGED <<execution, resolution>>
  BY DEF Next, WorkerStep, Arrive, Tick, vars, storeVars, Admit, AdmitRead, Refuse, Collide,
         Replay, AdmitNothing, Dispatch, NotDispatched, AnswerLost, Answer, RejectAnswer,
         CompletionThrows, TooLate, Crash
<1> QED
  BY <1>1, <1>2, <1>3, <1>4, <1>5

(* What a row weighs in the sum of its mandate. *)
WeightOf(m, e) ==
  IF e.status # "absent" /\ e.payload.mandate = m THEN Smaller(Spend(e), e.reserved) ELSE 0

LEMMA RowSpend ==
  ASSUME NEW e \in ExecutionRow, NEW ruling, CostsInOrder(e, ruling)
  PROVE  /\ Spend(e) \in Nat /\ e.reserved \in Nat
         /\ Smaller(Spend(e), e.reserved) \in Nat
         /\ Smaller(Spend(e), e.reserved) <= Spend(e)
         /\ Smaller(Spend(e), e.reserved) <= e.reserved
         /\ e.status \in {"executing", "reconciliation_hold"} =>
              Smaller(Spend(e), e.reserved) = e.reserved
         /\ Spend(e) > e.reserved => ruling = "settle"
<1>1. e.reserved \in Nat
  BY MaxAmountAssumption DEF ExecutionRow, Amount
<1>2. CASE Settled(e)
  <2>1. /\ e.actual \in Nat /\ Spend(e) = e.actual
        /\ e.actual <= e.reserved \/ ruling = "settle"
    BY <1>2, MaxAmountAssumption DEF CostsInOrder, Spend, Amount
  <2>2. e.status \notin {"executing", "reconciliation_hold"}
    BY <1>2 DEF Settled, CostsInOrder
  <2> QED
    BY <1>1, <2>1, <2>2 DEF Smaller
<1>3. CASE ~Settled(e)
  <2>1. /\ Spend(e) \in {0, e.reserved}
        /\ e.status \in {"executing", "reconciliation_hold"} => Spend(e) = e.reserved
    BY <1>3 DEF Spend
  <2> QED
    BY <1>1, <2>1 DEF Smaller
<1> QED
  BY <1>2, <1>3

LEMMA WeightType ==
  ASSUME NEW e \in ExecutionRow, NEW ruling, CostsInOrder(e, ruling), NEW m
  PROVE  WeightOf(m, e) \in Nat /\ WeightOf(m, e) <= e.reserved /\ e.reserved \in Nat
BY RowSpend DEF WeightOf

(* A row that moves on gets no heavier. *)
LEMMA WeightMovesOn ==
  ASSUME NEW e \in ExecutionRow, NEW f \in ExecutionRow, NEW k, NEW l,
         CostsInOrder(e, k), CostsInOrder(f, l), MovesOn(e, f), NEW m
  PROVE  WeightOf(m, f) <= WeightOf(m, e)
<1>1. WeightOf(m, f) <= f.reserved /\ f.reserved = e.reserved /\ e.reserved \in Nat
  BY WeightType DEF MovesOn, SameDecision
<1>2. CASE e.payload.mandate = m
  <2>1. WeightOf(m, e) = e.reserved
    BY <1>2, RowSpend DEF MovesOn, WeightOf
  <2> QED
    BY <1>1, <2>1
<1>3. CASE e.payload.mandate # m
  BY <1>3 DEF WeightOf, MovesOn, SameDecision
<1> QED
  BY <1>2, <1>3

Weights(m, rows) == [r \in Requests |-> WeightOf(m, rows[r])]

LEMMA AuthorisedAsWeights ==
  ASSUME NEW m
  PROVE  /\ AuthorisedSpend(m) = Total(Weights(m, execution), Requests)
         /\ AuthorisedSpend(m)' = Total(Weights(m, execution'), Requests)
<1> DEFINE f == [r \in Requests |-> IF RowOf(m, r) THEN Authorised(r) ELSE 0]
<1>1. AuthorisedSpend(m) = Total(f, Requests) /\ AuthorisedSpend(m)' = Total(f', Requests)
  BY DEF AuthorisedSpend
<1>2. f = Weights(m, execution)
  BY DEF Weights, WeightOf, RowOf, Authorised
<1>3. f' = Weights(m, execution')
  BY DEF Weights, WeightOf, RowOf, Authorised
<1> QED
  BY <1>1, <1>2, <1>3

LEMMA AuthorisedWithinSpent ==
  ASSUME StoreTypeOK, \A r \in Requests : InOrder(r), NEW m
  PROVE  /\ AuthorisedSpend(m) \in Nat /\ MandateSpent(m) \in Nat
         /\ AuthorisedSpend(m) <= MandateSpent(m)
<1> DEFINE f == Weights(m, execution)
           g == [r \in Requests |-> IF RowOf(m, r) THEN Spend(execution[r]) ELSE 0]
<1>1. ASSUME NEW r \in Requests
      PROVE  f[r] \in Int /\ g[r] \in Int /\ f[r] <= g[r]
  <2>1. execution[r] \in ExecutionRow /\ CostsInOrder(execution[r], resolution[r].kind)
    BY DEF StoreTypeOK, InOrder
  <2>2. /\ Spend(execution[r]) \in Nat
        /\ Smaller(Spend(execution[r]), execution[r].reserved) \in Nat
        /\ Smaller(Spend(execution[r]), execution[r].reserved) <= Spend(execution[r])
    BY <2>1, RowSpend
  <2> QED
    BY <2>2 DEF Weights, WeightOf, RowOf
<1>2. AuthorisedSpend(m) = Total(f, Requests) /\ MandateSpent(m) = Total(g, Requests)
  BY AuthorisedAsWeights DEF MandateSpent
<1> HIDE DEF f, g
<1> QED
  BY <1>1, <1>2, RequestsAssumption, UnitsFinite, TotalMonotone

(* A step after which no row is heavier. *)
LEMMA LighterSpend ==
  ASSUME StoreTypeOK, StoreTypeOK', NEW m,
         \A x \in Requests : InOrder(x) /\ InOrder(x)',
         \A x \in Requests : WeightOf(m, execution'[x]) <= WeightOf(m, execution[x])
  PROVE  AuthorisedSpend(m)' <= AuthorisedSpend(m) /\ AuthorisedSpend(m)' \in Nat
<1> DEFINE f == Weights(m, execution')
           g == Weights(m, execution)
<1>1. ASSUME NEW r \in Requests
      PROVE  f[r] \in Int /\ g[r] \in Int /\ f[r] <= g[r]
  <2>1. /\ execution[r] \in ExecutionRow /\ CostsInOrder(execution[r], resolution[r].kind)
        /\ execution'[r] \in ExecutionRow /\ CostsInOrder(execution'[r], resolution'[r].kind)
    BY DEF StoreTypeOK, InOrder
  <2>2. WeightOf(m, execution[r]) \in Nat /\ WeightOf(m, execution'[r]) \in Nat
    BY <2>1, WeightType
  <2> QED
    BY <2>2 DEF Weights
<1>2. AuthorisedSpend(m)' = Total(f, Requests) /\ AuthorisedSpend(m) = Total(g, Requests)
  BY AuthorisedAsWeights
<1> HIDE DEF f, g
<1> QED
  BY <1>1, <1>2, RequestsAssumption, TotalMonotone, UnitsFinite

(* A mandate keeps its maximum from its creation on; a policy it is given is *)
(* one of those there are.                                                   *)
Creates(m) == \E maximum \in Maxima, v \in Policies, e \in Expiries : CreateMandate(m, maximum, v, e)

LEMMA MaximumStep ==
  ASSUME TypeOK, [Next]_vars, NEW m \in Mandates
  PROVE  \/ /\ mandate'[m].maximum = mandate[m].maximum
            /\ mandate'[m].state = "absent" <=> mandate[m].state = "absent"
            /\ mandate'[m].policy \in {mandate[m].policy} \cup Policies
         \/ /\ mandate[m].state = "absent" /\ mandate'[m].state = "draft" /\ Creates(m)
            /\ mandate'[m].policy \in Policies
<1> DEFINE Same == /\ mandate'[m].maximum = mandate[m].maximum
                   /\ mandate'[m].state = "absent" <=> mandate[m].state = "absent"
                   /\ mandate'[m].policy \in {mandate[m].policy} \cup Policies
<1>1. StoreTypeOK /\ mandate \in [Mandates -> MandateRow]
  BY DEF TypeOK, StoreTypeOK
<1>2. ASSUME NEW n, HoldMandate(n)
      PROVE  Same
  BY <1>1, <1>2 DEF HoldMandate, Holdable, MandateRow
<1>3. ASSUME NEW n \in Mandates, NEW maximum \in Maxima, NEW v \in Policies,
             NEW e \in Expiries, CreateMandate(n, maximum, v, e)
      PROVE  \/ Same
             \/ /\ mandate[m].state = "absent" /\ mandate'[m].state = "draft" /\ Creates(m)
                /\ mandate'[m].policy \in Policies
  <2>1. mandate[n].state = "absent" /\ \A k \in Mandates \ {n} : mandate'[k] = mandate[k]
    BY <1>1, <1>3 DEF CreateMandate, Exists
  <2>2. mandate'[n].state = "draft" /\ mandate'[n].policy \in Policies
    BY <1>1, <1>3 DEF CreateMandate
  <2>3. Creates(n)
    BY <1>3 DEF Creates
  <2> QED
    BY <2>1, <2>2, <2>3
<1>4. ASSUME NEW n \in Mandates, NEW v \in Policies, SetMandatePolicy(n, v)
      PROVE  Same
  BY <1>1, <1>4 DEF SetMandatePolicy, MandateRow
<1>5. ASSUME NEW n \in Mandates, NEW to \in MandateStates, TransitionMandateState(n, to)
      PROVE  Same
  BY <1>1, <1>5 DEF TransitionMandateState, Exists, MandateRow, MandateStates
<1>6. ASSUME NEW r \in Requests, NEW kind, NEW a, ResolveReconciliation(r, kind, a)
      PROVE  Same
  <2> DEFINE n == execution[r].payload.mandate
  <2>1. n \in Mandates /\ hold \in [Mandates -> Holdable \cup {"none"}]
    BY <1>1, <1>6, PayloadAssumption DEF StoreTypeOK, ResolveReconciliation, Open
  <2>2. UNCHANGED mandate \/ ReleaseMandate(n)
    BY <1>6 DEF ResolveReconciliation
  <2>3. \/ UNCHANGED mandate
        \/ /\ mandate[n].state = "reconciliation_hold" /\ hold[n] \in Holdable
           /\ mandate' = [mandate EXCEPT ![n].state = Restored(hold[n])]
    BY <2>1, <2>2 DEF ReleaseMandate
  <2>4. hold[n] \in Holdable => Restored(hold[n]) # "absent"
    BY DEF Restored, Holdable
  <2> QED
    BY <1>1, <2>1, <2>3, <2>4 DEF MandateRow
<1>7. CASE UNCHANGED mandate
  BY <1>7
<1>8. ASSUME NEW w \in Workers, WorkerStep(w) \/ Crash(w)
      PROVE  UNCHANGED mandate \/ \E n : HoldMandate(n)
  BY <1>8 DEF WorkerStep, Admit, AdmitRead, Refuse, Decide, AdmitNew, Collide, Replay,
              ExpireLease, AdmitExpired, AdmitNothing, Dispatch, NotDispatched, AnswerLost,
              Answer, Complete, CompletionUnacknowledged, CompleteInference, CompleteOverrun,
              RejectAnswer, CompletionThrows, RecordHold, HoldInference, RecordFailure,
              FailInference, TooLate, Crash, storeVars
<1>9. CASE Operate
  BY <1>3, <1>4, <1>5, <1>6, <1>7, <1>9
  DEF Operate, Administer, Transition, Resolve, PublishPolicy, AssignAgent, CreateBranch
<1>10. CASE \/ \E w \in Workers, r \in Requests, p \in Payloads : Arrive(w, r, p)
            \/ Tick \/ UNCHANGED vars
  BY <1>7, <1>10 DEF Arrive, Tick, vars, storeVars
<1> QED
  BY <1>2, <1>7, <1>8, <1>9, <1>10 DEF Next

(* Admission adds at most what it found room for. *)
LEMMA DecideSpend ==
  ASSUME TypeOK, TypeOK', NEW w \in Workers, Decide(w), NEW m \in Mandates,
         \A x \in Requests : InOrder(x) /\ InOrder(x)',
         AuthorisedSpend(m) <= mandate[m].maximum
  PROVE  AuthorisedSpend(m)' <= mandate[m].maximum
<1> DEFINE r == worker[w].request
           p == worker[w].payload
<1>1. /\ r \in Requests /\ p \in Payloads /\ worker[w].decidedAt \in Nat
      /\ StoreTypeOK /\ StoreTypeOK' /\ AdmitNew(r, p, worker[w].decidedAt)
  BY CallFacts DEF TypeOK, Decide, At, Call
<1>2. /\ \A x \in Requests \ {r} : execution'[x] = execution[x]
      /\ execution[r].status = "absent" /\ execution'[r].payload = p
      /\ \/ /\ execution'[r].status = "executing" /\ execution'[r].reserved = p.cost
            /\ MandateSpent(p.mandate) + p.cost <= mandate[p.mandate].maximum
         \/ execution'[r].status = "denied" /\ execution'[r].reserved = 0
  BY <1>1, AdmittedFacts
<1>3. ASSUME NEW x \in Requests
      PROVE  /\ WeightOf(m, execution[x]) \in Nat /\ WeightOf(m, execution'[x]) \in Nat
             /\ WeightOf(m, execution'[x]) <= execution'[x].reserved
  <2>1. /\ execution[x] \in ExecutionRow /\ CostsInOrder(execution[x], resolution[x].kind)
        /\ execution'[x] \in ExecutionRow /\ CostsInOrder(execution'[x], resolution'[x].kind)
    BY <1>1 DEF StoreTypeOK, InOrder
  <2> QED
    BY <2>1, WeightType
<1>4. WeightOf(m, execution[r]) = 0
  BY <1>2 DEF WeightOf
<1>5. /\ AuthorisedSpend(m) \in Nat /\ MandateSpent(m) \in Nat
      /\ AuthorisedSpend(m) <= MandateSpent(m) /\ mandate[m].maximum \in Nat
  BY <1>1, AuthorisedWithinSpent, MaxAmountAssumption DEF StoreTypeOK, MandateRow, Amount
<1>6. CASE WeightOf(m, execution'[r]) = 0
  <2>1. \A x \in Requests : WeightOf(m, execution'[x]) <= WeightOf(m, execution[x])
    BY <1>2, <1>3, <1>4, <1>6
  <2>2. AuthorisedSpend(m)' <= AuthorisedSpend(m) /\ AuthorisedSpend(m)' \in Nat
    BY <1>1, <2>1, LighterSpend
  <2> QED
    BY <1>5, <2>2
<1>7. CASE WeightOf(m, execution'[r]) # 0
  <2>1. p.mandate = m
    BY <1>2, <1>7 DEF WeightOf
  <2>2. /\ execution'[r].reserved = p.cost /\ p.cost \in Amount /\ p.cost \in Nat
        /\ MandateSpent(m) + p.cost <= mandate[m].maximum
    BY <1>1, <1>2, <1>3, <1>7, <2>1, PayloadAssumption, MaxAmountAssumption DEF Amount
  <2> DEFINE f == Weights(m, execution)
             g == Weights(m, execution')
  <2>3. /\ \A y \in Requests : f[y] \in Int /\ g[y] \in Int
        /\ \A y \in Requests \ {r} : g[y] <= f[y]
        /\ g[r] <= p.cost
    BY <1>1, <1>2, <1>3, <2>2 DEF Weights
  <2>4. AuthorisedSpend(m) = Total(f, Requests) /\ AuthorisedSpend(m)' = Total(g, Requests)
    BY AuthorisedAsWeights
  <2> HIDE DEF f, g
  <2>5. Total(g, Requests) <= Total(f, Requests) + p.cost /\ Total(g, Requests) \in Nat
    BY <1>1, <2>2, <2>3, RequestsAssumption, TotalRaise, UnitsFinite
  <2> QED
    BY <1>5, <2>2, <2>4, <2>5
<1> QED
  BY <1>6, <1>7

LEMMA BudgetStep == TypeOK /\ TypeOK' /\ BudgetInv /\ [Next]_vars => BudgetInv'
<1> SUFFICES ASSUME TypeOK, TypeOK', BudgetInv, [Next]_vars PROVE BudgetInv'
  OBVIOUS
<1>1. \A x \in Requests : InOrder(x) /\ InOrder(x)'
  BY CostsStep DEF BudgetInv
<1>2. StoreTypeOK /\ StoreTypeOK'
  BY DEF TypeOK
<1>3. ASSUME NEW m \in Mandates
      PROVE  (~Exists(m) => mandate[m].maximum = 0)'
  BY MaximumStep DEF BudgetInv, Exists
<1>4. ASSUME NEW m \in Mandates
      PROVE  AuthorisedSpend(m)' <= mandate[m].maximum
  <2>1. AuthorisedSpend(m) <= mandate[m].maximum
    BY DEF BudgetInv
  <2>2. CASE \E w \in Workers : Decide(w)
    BY <1>1, <2>1, <2>2, DecideSpend
  <2>3. CASE ~\E w \in Workers : Decide(w)
    <3>1. ASSUME NEW x \in Requests
          PROVE  WeightOf(m, execution'[x]) <= WeightOf(m, execution[x])
      <4>1. /\ execution[x] \in ExecutionRow
            /\ CostsInOrder(execution[x], resolution[x].kind)
            /\ execution'[x] \in ExecutionRow
            /\ CostsInOrder(execution'[x], resolution'[x].kind)
        BY <1>1, <1>2 DEF StoreTypeOK, InOrder
      <4>2. execution'[x] = execution[x] \/ MovesOn(execution[x], execution'[x])
        BY <2>3, RowStep
      <4>3. WeightOf(m, execution[x]) \in Nat
        BY <4>1, WeightType
      <4> QED
        BY <4>1, <4>2, <4>3, WeightMovesOn
    <3>2. /\ AuthorisedSpend(m)' <= AuthorisedSpend(m) /\ AuthorisedSpend(m)' \in Nat
          /\ AuthorisedSpend(m) \in Nat
      BY <1>1, <1>2, <3>1, LighterSpend, AuthorisedWithinSpent
    <3>3. mandate[m].maximum \in Nat
      BY <1>2, MaxAmountAssumption DEF StoreTypeOK, MandateRow, Amount
    <3> QED
      BY <2>1, <3>2, <3>3
  <2> QED
    BY <2>2, <2>3
<1>5. ASSUME NEW m \in Mandates
      PROVE  AuthorisedSpend(m)' <= mandate'[m].maximum
  <2>1. CASE mandate'[m].maximum = mandate[m].maximum
    BY <1>4, <2>1
  <2>2. CASE mandate[m].state = "absent"
    <3>1. AuthorisedSpend(m)' <= 0
      BY <1>4, <2>2 DEF BudgetInv, Exists
    <3>2. mandate'[m].maximum \in Nat
      BY <1>2, MaxAmountAssumption DEF StoreTypeOK, MandateRow, Amount
    <3>3. AuthorisedSpend(m)' \in Nat
      BY AuthorisedAsWeights, RequestsAssumption, UnitsFinite
    <3> QED
      BY <3>1, <3>2, <3>3
  <2> QED
    BY <2>1, <2>2, MaximumStep
<1> QED
  BY <1>1, <1>3, <1>5 DEF BudgetInv

LEMMA BudgetInit == Init => BudgetInv
<1> SUFFICES ASSUME Init PROVE BudgetInv
  OBVIOUS
<1>1. \A x \in Requests : InOrder(x)
  BY DEF Init, StoreInit, NoExecution, InOrder, CostsInOrder, Settled
<1>2. \A m \in Mandates : mandate[m].maximum = 0
  BY DEF Init, StoreInit, AbsentMandate
<1>3. ASSUME NEW m \in Mandates
      PROVE  AuthorisedSpend(m) <= 0
  <2>1. AuthorisedSpend(m) = Total(Weights(m, execution), Requests)
    BY AuthorisedAsWeights
  <2>2. Units(Weights(m, execution), Requests) = {}
    BY DEF Units, Weights, WeightOf, Init, StoreInit, NoExecution
  <2> QED
    BY <2>1, <2>2, FS_EmptySet DEF Total
<1> QED
  BY <1>1, <1>2, <1>3 DEF BudgetInv

LEMMA BudgetInductive == Spec => []BudgetInv
<1>1. TypeOK /\ TypeOK' /\ BudgetInv /\ [Next]_vars => BudgetInv'
  BY BudgetStep
<1> QED
  BY BudgetInit, <1>1, TypeCorrect, PTL DEF Spec

(* The maximum of a mandate bounds all it has reserved and settled, whoever  *)
(* admits concurrently; only an operator's settlement exceeds a reservation. *)
THEOREM WithinBudget == Spec => []BudgetBound
<1>1. TypeOK /\ BudgetInv => BudgetBound
  <2> SUFFICES ASSUME TypeOK, BudgetInv PROVE BudgetBound
    OBVIOUS
  <2>1. ASSUME NEW r \in Requests, Spend(execution[r]) > execution[r].reserved
        PROVE  resolution[r].kind = "settle"
    <3>1. /\ execution[r] \in ExecutionRow
          /\ CostsInOrder(execution[r], resolution[r].kind)
      BY DEF TypeOK, StoreTypeOK, BudgetInv, InOrder
    <3> QED
      BY <2>1, <3>1, RowSpend
  <2> QED
    BY <2>1 DEF BudgetInv, BudgetBound
<1> QED
  BY <1>1, TypeCorrect, BudgetInductive, PTL
=============================================================================
