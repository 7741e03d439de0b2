------------------------ MODULE ControlledInference ------------------------
(***************************************************************************)
(* The controlled inference path: callers run InferenceExecutionService     *)
(* .execute (src/src/inference/inferenceExecution.ts) against PolicyStore   *)
(* and an upstream provider, operators administer mandates and resolve      *)
(* reconciliation cases, and time passes.                                   *)
(*                                                                         *)
(* A worker is one call of execute in some process.  It captures its        *)
(* decision time before it waits for the mandate row, so the clock it       *)
(* decides by may be behind.  A call can stop between any two steps (the     *)
(* process dies, the connection drops); a transaction can roll back; a      *)
(* commit can succeed with its acknowledgement lost.                        *)
(***************************************************************************)
EXTENDS PolicyStore

CONSTANTS
  NoRequest,
  Maxima,          \* maxima a mandate may be created with
  Expiries,        \* optional expiries, sets of at most one time
  BranchInputs,    \* what createBranch may be called with
  Costs,           \* costs a provider may report
  Settlements,     \* costs an operator may settle a case at
  LastArrival,     \* bound: no request arrives after this time
  MaxTime          \* bound: the clock stops here

ASSUME BoundsAssumption ==
  /\ Maxima \subseteq Amount /\ Costs \subseteq Amount /\ Settlements \subseteq Amount
  /\ Expiries \subseteq SUBSET Nat
  /\ BranchInputs \subseteq [ parent: SUBSET Branches, agent: Agents,
                             classes: SUBSET Classes, maximum: Amount,
                             expiresAt: SUBSET Nat ]
  /\ LastArrival \in Nat /\ MaxTime \in Nat

ASSUME RequestsAssumption == IsFiniteSet(Requests)

ASSUME NoRequestAssumption == NoRequest \notin Requests

VARIABLES
  now,          \* the clock
  worker,       \* the calls in progress
  dispatches    \* history: how often each request reached the provider

vars == <<published, mandate, assigned, branch, execution, hold, resolution,
          rowLock, now, worker, dispatches>>

(* Where a call of execute is.                                              *)
(*   arrived     about to open the admission transaction                    *)
(*   locked      holds the mandate row, has read the execution row          *)
(*   admitted    its reservation is committed, the provider not yet called  *)
(*   calling     the request is at the provider                             *)
(*   answered    the provider answered                                      *)
(*   failing     the provider was provably not reached                      *)
(*   holding     the outcome must be recorded as a reconciliation case      *)
Stages == {"idle", "arrived", "locked", "admitted", "calling", "answered",
           "failing", "holding"}

Idle == [ stage |-> "idle", request |-> NoRequest, payload |-> NoPayload,
          decidedAt |-> 0, seen |-> "absent", cost |-> 0, reason |-> "none",
          answered |-> FALSE ]

Init ==
  /\ StoreInit
  /\ now = 0
  /\ worker = [w \in Workers |-> Idle]
  /\ dispatches = [r \in Requests |-> 0]

At(w, stage) == worker[w].stage = stage
Return(w) == worker' = [worker EXCEPT ![w] = Idle]

-----------------------------------------------------------------------------
(* execute is called, for the first time or as a retry. *)
Arrive(w, r, p) ==
  /\ At(w, "idle") /\ now <= LastArrival
  /\ worker' = [worker EXCEPT ![w] = [Idle EXCEPT !.stage = "arrived",
                                                  !.request = r,
                                                  !.payload = p,
                                                  !.decidedAt = now]]
  /\ UNCHANGED <<storeVars, now, dispatches>>

Admit(w) ==
  /\ At(w, "arrived")
  /\ AdmitRead(w, worker[w].payload.mandate)
  /\ worker' = [worker EXCEPT ![w].stage = "locked",
                              ![w].seen = execution[worker[w].request].status]
  /\ UNCHANGED <<now, dispatches>>

(* CONTROL_MANDATE_NOT_FOUND. *)
Refuse(w) ==
  /\ At(w, "arrived")
  /\ ~Exists(worker[w].payload.mandate)
  /\ Return(w)
  /\ UNCHANGED <<storeVars, now, dispatches>>

(* A new request: the call goes on only if the decision allows it. *)
Decide(w) ==
  LET r == worker[w].request
      p == worker[w].payload
  IN /\ At(w, "locked") /\ worker[w].seen = "absent"
     /\ AdmitNew(r, p, worker[w].decidedAt)
     /\ IF execution'[r].status = "executing"
          THEN worker' = [worker EXCEPT ![w].stage = "admitted"]
          ELSE Return(w)
     /\ UNCHANGED <<now, dispatches>>

(* The insert hits a row another mandate's admission committed meanwhile. *)
Collide(w) ==
  /\ At(w, "locked") /\ worker[w].seen = "absent"
  /\ execution[worker[w].request].status # "absent"
  /\ AdmitNothing(worker[w].payload.mandate)
  /\ Return(w)
  /\ UNCHANGED <<now, dispatches>>

(* The request fingerprint leaves out who holds which capabilities and what   *)
(* the provider charges.                                                     *)
Fingerprint(p) == <<p.mandate, p.agent, p.scope, p.provider, p.model, p.inputTokens,
                    p.maxOutputTokens>>

SameRequest(w) ==
  LET row == execution[worker[w].request]
  IN row.status # "absent" /\ Fingerprint(row.payload) = Fingerprint(worker[w].payload)

Stale(w) == /\ worker[w].seen = "executing"
            /\ SameRequest(w)
            /\ LeaseExpired(worker[w].request, worker[w].decidedAt)

(* A retry: a stored answer, a conflict, in progress or under review. *)
Replay(w) ==
  /\ At(w, "locked") /\ worker[w].seen # "absent"
  /\ ~Stale(w)
  /\ AdmitNothing(worker[w].payload.mandate)
  /\ Return(w)
  /\ UNCHANGED <<now, dispatches>>

(* Faulty: the retry takes the call over and goes on to the provider. *)
ExpireLeaseTakeover(w) ==
  /\ At(w, "locked")
  /\ Stale(w)
  /\ AdmitNothing(worker[w].payload.mandate)
  /\ worker' = [worker EXCEPT ![w].stage = "admitted"]
  /\ UNCHANGED <<now, dispatches>>

(* A retry of a call whose lease is over. *)
ExpireLease(w) ==
  /\ At(w, "locked")
  /\ Stale(w)
  /\ AdmitExpired(worker[w].request)
  /\ Return(w)
  /\ UNCHANGED <<now, dispatches>>

-----------------------------------------------------------------------------
(* The provider. *)
Dispatch(w) ==
  /\ At(w, "admitted")
  /\ worker' = [worker EXCEPT ![w].stage = "calling"]
  /\ dispatches' = [dispatches EXCEPT ![worker[w].request] = @ + 1]
  /\ UNCHANGED <<storeVars, now>>

(* The adapter fails before its transport is entered. *)
NotDispatched(w) ==
  /\ At(w, "admitted")
  /\ worker' = [worker EXCEPT ![w].stage = "failing"]
  /\ UNCHANGED <<storeVars, now, dispatches>>

Answer(w, cost) ==
  /\ At(w, "calling")
  /\ worker' = [worker EXCEPT ![w].stage = "answered", ![w].cost = cost]
  /\ UNCHANGED <<storeVars, now, dispatches>>

Hold(w, reason, answered) ==
  worker' = [worker EXCEPT ![w].stage = "holding", ![w].reason = reason,
                           ![w].answered = answered]

(* Faulty: takes a lost answer for a call that never left. *)
AnswerLostAsFailure(w) ==
  /\ At(w, "calling")
  /\ worker' = [worker EXCEPT ![w].stage = "failing"]
  /\ UNCHANGED <<storeVars, now, dispatches>>

(* A timeout or a transport error: the provider may have billed. *)
AnswerLost(w) ==
  /\ At(w, "calling")
  /\ Hold(w, "PROVIDER_OUTCOME_AMBIGUOUS", FALSE)
  /\ UNCHANGED <<storeVars, now, dispatches>>

-----------------------------------------------------------------------------
(* Settling the answer. *)
Complete(w) ==
  /\ At(w, "answered")
  /\ \/ CompleteInference(worker[w].request, worker[w].cost)
     \/ CompleteOverrun(worker[w].request, worker[w].cost)
  /\ Return(w)
  /\ UNCHANGED <<now, dispatches>>

(* The model differs from the one requested, or the cost is missing. *)
RejectAnswer(w) ==
  /\ At(w, "answered")
  /\ Hold(w, "PROVIDER_RESULT_REJECTED", TRUE)
  /\ UNCHANGED <<storeVars, now, dispatches>>

(* Faulty: reports the error to the caller and records nothing. *)
CompletionThrowsSilently(w) ==
  /\ At(w, "answered")
  /\ Return(w)
  /\ UNCHANGED <<storeVars, now, dispatches>>

(* The completing transaction throws: the row is not executing any more, or *)
(* the transaction rolled back.                                             *)
CompletionThrows(w) ==
  /\ At(w, "answered")
  /\ Hold(w, "POST_PROVIDER_RECONCILIATION_FAILED", TRUE)
  /\ UNCHANGED <<storeVars, now, dispatches>>

(* The completion commits and its acknowledgement is lost. *)
CompletionUnacknowledged(w) ==
  /\ At(w, "answered")
  /\ \/ CompleteInference(worker[w].request, worker[w].cost)
     \/ CompleteOverrun(worker[w].request, worker[w].cost)
  /\ Hold(w, "POST_PROVIDER_RECONCILIATION_FAILED", TRUE)
  /\ UNCHANGED <<now, dispatches>>

RecordHold(w) ==
  /\ At(w, "holding")
  /\ HoldInference(worker[w].request, worker[w].reason, worker[w].answered)
  /\ Return(w)
  /\ UNCHANGED <<now, dispatches>>

RecordFailure(w) ==
  /\ At(w, "failing")
  /\ FailInference(worker[w].request)
  /\ Return(w)
  /\ UNCHANGED <<now, dispatches>>

(* Somebody else already moved the row: EXECUTION_NOT_ACTIVE, or no effect. *)
TooLate(w) ==
  /\ worker[w].stage \in {"failing", "holding"}
  /\ execution[worker[w].request].status # "executing"
  /\ Return(w)
  /\ UNCHANGED <<storeVars, now, dispatches>>

(* The call stops here; an open transaction rolls back. *)
Crash(w) ==
  /\ ~At(w, "idle")
  /\ Return(w)
  /\ IF At(w, "locked") THEN AdmitNothing(worker[w].payload.mandate)
                        ELSE UNCHANGED storeVars
  /\ UNCHANGED <<now, dispatches>>

-----------------------------------------------------------------------------
WorkerStep(w) ==
  \/ Admit(w) \/ Refuse(w) \/ Decide(w) \/ Collide(w) \/ Replay(w) \/ ExpireLease(w)
  \/ Dispatch(w) \/ NotDispatched(w)
  \/ \E cost \in Costs : Answer(w, cost)
  \/ AnswerLost(w)
  \/ Complete(w) \/ RejectAnswer(w) \/ CompletionThrows(w)
  \/ CompletionUnacknowledged(w)
  \/ RecordHold(w) \/ RecordFailure(w) \/ TooLate(w)

Transition ==
  \E m \in Mandates : \E to \in MandateStates : TransitionMandateState(m, to)

Resolve ==
  \E r \in Requests, kind \in {"settle", "confirm_not_billed"}, a \in Settlements :
    ResolveReconciliation(r, kind, a)

Administer ==
  \/ \E v \in Policies : PublishPolicy(v)
  \/ \E m \in Mandates, x \in Maxima, v \in Policies, e \in Expiries :
       CreateMandate(m, x, v, e)
  \/ \E m \in Mandates, a \in Agents : AssignAgent(m, a)
  \/ \E m \in Mandates, v \in Policies : SetMandatePolicy(m, v)
  \/ \E m \in Mandates, b \in Branches, new \in BranchInputs :
       CreateBranch(m, b, new, now)
  \/ Transition

Operate == (Administer \/ Resolve) /\ UNCHANGED <<now, worker, dispatches>>

Tick == /\ now < MaxTime
        /\ now' = now + 1
        /\ UNCHANGED <<storeVars, worker, dispatches>>

Next ==
  \/ \E w \in Workers :
       \/ \E r \in Requests, p \in Payloads : Arrive(w, r, p)
       \/ WorkerStep(w)
       \/ Crash(w)
  \/ Operate
  \/ Tick

Spec == Init /\ [][Next]_vars

-----------------------------------------------------------------------------
Call == [ stage: Stages, request: Requests \cup {NoRequest},
          payload: Payloads \cup {NoPayload}, decidedAt: Nat, seen: Statuses,
          cost: Amount, reason: HoldReasons \cup {"none"}, answered: BOOLEAN ]

CallsTypeOK ==
  /\ worker \in [Workers -> Call]
  /\ \A w \in Workers :
       ~At(w, "idle") => worker[w].request \in Requests /\ worker[w].payload \in Payloads

(* Type invariant: the shape of every table, call and counter; rows and      *)
(* calls in progress are about a request.                                    *)
TypeOK == StoreTypeOK /\ now \in Nat /\ CallsTypeOK /\ dispatches \in [Requests -> Nat]

(* A request reaches the provider at most once, whatever is retried, however *)
(* often a lease runs out, and wherever a caller or a commit is lost: only   *)
(* the call whose insert committed goes on to provider.complete.             *)
AtMostOnceDispatch == \A r \in Requests : dispatches[r] <= 1

(* What r counts against its mandate without what an operator settled above  *)
(* its reservation.                                                          *)
Authorised(r) == Smaller(Spend(execution[r]), execution[r].reserved)

AuthorisedSpend(m) ==
  Total([r \in Requests |-> IF RowOf(m, r) THEN Authorised(r) ELSE 0], Requests)

(* The maximum of a mandate bounds everything it reserved or settled, over   *)
(* all interleavings of admissions and under every policy mode; only an      *)
(* operator's settlement takes a row above its reservation.                  *)
BudgetBound ==
  /\ \A m \in Mandates : AuthorisedSpend(m) <= mandate[m].maximum
  /\ \A r \in Requests : Spend(execution[r]) > execution[r].reserved
                            => resolution[r].kind = "settle"

(* While the outcome of any of its requests is unknown to the operator a     *)
(* mandate is not active, paused, exhausted or tripped: it cannot be resumed *)
(* over an open case, whichever of several cases is resolved first.          *)
OpenCaseBlocksMandate ==
  \A m \in Mandates :
    OpenCases(m) # {} =>
      mandate[m].state \in {"reconciliation_hold", "closing", "closed", "expired"}

(* Money that may have left is never dropped from the books: a request that  *)
(* reached the provider keeps its reservation or its cost until an operator  *)
(* has ruled on it.                                                          *)
Kept(r) == \/ execution[r].status \in {"executing", "reconciliation_hold", "completed"}
           \/ execution[r].status = "failed" /\ resolution[r].kind # "none"

NoSpendForgotten == \A r \in Requests : dispatches[r] > 0 => Kept(r)

(* The rolling hourly and per-minute ceilings of an enforcing policy hold    *)
(* over every window of row times, although callers decide by clocks         *)
(* captured before they waited for the mandate row.                          *)
InWindow(m, t, width) ==
  {r \in Requests : /\ RowOf(m, r) /\ execution[r].status # "denied"
                    /\ execution[r].createdAt \in t .. (t + width)}

Governs(v, rows) == /\ PolicyOf[v].mode = "enforce"
                    /\ \A r \in rows : execution[r].policy = v

RollingCeilings ==
  \A m \in Mandates, v \in Policies, t \in 0 .. MaxTime :
    /\ Governs(v, InWindow(m, t, Hour)) =>
         Total([r \in Requests |-> Authorised(r)], InWindow(m, t, Hour)) <= PolicyOf[v].hourly
    /\ Governs(v, InWindow(m, t, Minute)) =>
         Cardinality(InWindow(m, t, Minute)) <= PolicyOf[v].rate

(* A final row is evidence: no late answer, retry, lease or failure report   *)
(* of another caller rewrites a denied, completed or failed execution.       *)
FinalRowsImmutable ==
  [][\A r \in Requests :
       execution[r].status \in {"denied", "completed", "failed"}
         => execution'[r] = execution[r]]_vars

(* The decision of a request is evidence: who asked for what, under which    *)
(* policy version, when, and what was reserved never change once its row is  *)
(* written, by retries, by other mandates' requests of the same id, or by    *)
(* the reconciliation of its outcome.                                        *)
DecisionsImmutable ==
  [][\A r \in Requests : execution[r].status # "absent" =>
       /\ execution'[r].status # "absent"
       /\ \A f \in {"payload", "policy", "reserved", "createdAt"} :
            execution'[r][f] = execution[r][f]]_vars

(* No money is committed while a case is open: a reservation is only made    *)
(* for an active mandate none of whose outcomes is under review.             *)
NoAdmissionUnderReview ==
  [][\A r \in Requests :
       execution[r].status = "absent" /\ execution'[r].status = "executing"
         => LET m == execution'[r].payload.mandate
            IN mandate[m].state = "active" /\ OpenCases(m) = {}]_vars

-----------------------------------------------------------------------------
(* What the safety properties rest on, step by step; the theorems are in     *)
(* ControlledInferenceProofs.                                                *)

(* A call that has the reservation and has not reached the provider is alone *)
(* with its request.                                                         *)
Reserving(w) == worker[w].stage \in {"admitted", "failing"}

DispatchInv ==
  /\ AtMostOnceDispatch /\ NoSpendForgotten
  /\ \A w \in Workers : Reserving(w) => /\ dispatches[worker[w].request] = 0
                                       /\ Kept(worker[w].request)
  /\ \A v, w \in Workers :
       Reserving(v) /\ Reserving(w) /\ worker[v].request = worker[w].request => v = w

(* A mandate with spend in flight has been activated, and nothing leads back *)
(* to a draft; over an open case it is out of use.                           *)
ReviewInv ==
  \A r \in Requests :
    LET state == mandate[execution[r].payload.mandate].state
    IN /\ execution[r].status \in {"executing", "reconciliation_hold"}
            => state \notin {"absent", "draft"}
       /\ Open(r) => state \in {"reconciliation_hold", "closing", "closed", "expired"}

(* Only an operator's settlement leaves a cost above its reservation, and a  *)
(* cost exists wherever one is counted.                                      *)
CostsInOrder(e, ruling) ==
  /\ Settled(e) => e.actual \in Amount /\ (e.actual <= e.reserved \/ ruling = "settle")
  /\ e.failure = "RECONCILED_BILLED_NO_RESPONSE" => e.status = "failed"

InOrder(r) == CostsInOrder(execution[r], resolution[r].kind)

BudgetInv ==
  /\ \A r \in Requests : InOrder(r)
  /\ \A m \in Mandates : ~Exists(m) => mandate[m].maximum = 0
  /\ \A m \in Mandates : AuthorisedSpend(m) <= mandate[m].maximum

-----------------------------------------------------------------------------
(* What the documentation says of reconciliation, and the code does not do.  *)

(* README.md:99 has a retry after the lease "move the execution and          *)
(* non-terminal mandate into reconciliation hold for operator review": a     *)
(* held mandate has a case to review.                                        *)
HeldMandateHasCase ==
  \A m \in Mandates : hold[m] # "none" => OpenCases(m) # {}

(* README.md:313: the resolve command "resolves one reviewed hold and        *)
(* requires an evidence note plus external reference": the last open case of *)
(* a mandate can be resolved, whatever an operator has done to the mandate   *)
(* meanwhile.                                                                *)
CaseResolvable ==
  \A m \in Mandates : OpenCases(m) # {} =>
    mandate[m].state \in IF hold[m] = "none" THEN {"closed", "expired"}
                                           ELSE {"reconciliation_hold", "closing"}
=============================================================================
