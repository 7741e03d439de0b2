--------------------------- MODULE ReliabilityRun ---------------------------
(* One held-out reliability run: the protocol tables (protocolStore.ts), the   *)
(* HTTP handlers that dispatch its sealed calls (inferenceExecution.ts), the   *)
(* runner that opens blocks, drives the lanes and resumes held ones            *)
(* (scripts/held-out-reliability-v4.ts) and the reconciler of ambiguous calls. *)
(* Calls are numbered in sealed order.  Every operator on a record r of the    *)
(* protocol tables is the part of a transaction the store's private methods    *)
(* share; each action is one transaction.                                      *)
EXTENDS Amounts, Sequences, FiniteSetsExt

CONSTANTS Plans,    \* sealed schedules: sequences of [lane, block, reserved]
          Burst,    \* the lane that dispatches a block behind a barrier
          Cap,      \* the bound on unresolved exposure
          NoCall

\* A plan lists its calls block by block.
ASSUME PlansAssumption ==
  /\ Cap \in Nat /\ NoCall \notin Nat
  /\ \A p \in Plans :
       /\ p \in Seq([lane : {p[c].lane : c \in DOMAIN p}, block : Nat, reserved : Amount])
       /\ \A c, d \in DOMAIN p : c < d => p[c].block <= p[d].block

VARIABLES plan,       \* the sealed schedule of this run
          run,        \* the protocol tables
          execution,  \* the ordinary execution row of each call
          dispatcher,    \* the HTTP dispatcher of each call
          looking,    \* the reconciliation lookup of each call
          missed,     \* a lookup of the run failed
          block,      \* the last block the runner claimed
          runner      \* what the runner does in each lane

reliabilityVars == <<plan, run, execution, dispatcher, looking, missed, block, runner>>

Usable == {"completed_verified", "reconciled_billed_with_response"}
Nonusable == {"reconciled_not_billed", "reconciled_billed_no_response"}
Terminals == Usable \union Nonusable \union {"not_dispatched", "unresolved_provider_outcome"}

Call == DOMAIN plan
Lane == {plan[c].lane : c \in Call}
Block == {plan[c].block : c \in Call}
Group(l, b) == {c \in Call : plan[c].lane = l /\ plan[c].block = b}

InFlight(c) == dispatcher[c] \notin {"idle", "succeeded", "failed"}
Open(r) == {c \in Call : r.attempt[c] \notin Terminals}

ReliabilityInit ==
  /\ plan \in Plans
  /\ run = [control |-> "active", gate |-> 0, usable |-> 0, owner |-> NoCall,
            lane |-> [l \in Lane |-> "ready"],
            held |-> [l \in Lane |-> {}],
            attempt |-> [c \in Call |-> "planned"],
            generation |-> [c \in Call |-> FALSE],
            token |-> [c \in Call |-> "none"],
            barrier |-> [b \in Block |-> [state |-> "none", planned |-> {}]],
            backlog |-> [c \in Call |-> "none"]]
  /\ execution = [c \in Call |-> "none"]
  /\ dispatcher = [c \in Call |-> "idle"]
  /\ looking = [c \in Call |-> "none"]
  /\ missed = FALSE
  /\ block = 0
  /\ runner = [l \in Lane |-> [stage |-> "idle", todo |-> {}, queued |-> FALSE]]

-----------------------------------------------------------------------------
(* The parts the transactions share *)

Released(r, c) == r.barrier[plan[c].block].state = "released"

\* The gate classification of a set of calls.
Classified(r, cs, state) ==
  [r EXCEPT !.attempt = [c \in Call |-> IF c \in cs THEN state ELSE r.attempt[c]],
            !.gate = @ + Cardinality(cs),
            !.usable = @ + (IF state \in Usable THEN Cardinality(cs) ELSE 0)]

\* Faulty: protects every owner of a token.
ProtectedByToken(r, c) == r.token[c] # "none"

\* An owner a global failure leaves alone: it dispatched, or it still may.
Protected(r, c) ==
  \/ r.token[c] = "entered"
  \/ /\ r.token[c] = "live"
     /\ plan[c].lane = Burst => Released(r, c)

Canceled(r) ==
  [r EXCEPT
     !.control = "failed",
     !.token = [c \in Call |->
       IF r.token[c] = "live" /\ ~Protected(r, c) THEN "canceled" ELSE r.token[c]],
     !.barrier = [b \in Block |->
       IF r.barrier[b].state = "preparing" THEN [r.barrier[b] EXCEPT !.state = "canceled"]
                                           ELSE r.barrier[b]]]

\* failProtocolLocked
Failed(r) ==
  IF r.control = "failed" THEN r
  ELSE Classified(Canceled(r), {c \in Open(r) : ~Protected(r, c)}, "not_dispatched")

\* enterLaneHoldLocked: a burst member holds its whole released group.
Companions(r, c) ==
  IF plan[c].lane = Burst /\ Released(r, c) /\ c \in r.barrier[plan[c].block].planned
  THEN Open(r) \cap r.barrier[plan[c].block].planned
  ELSE {c}

Holding(r, c) ==
  LET l == plan[c].lane IN
  IF r.held[l] # {} THEN [r EXCEPT !.held[l] = @ \union {c}]
  ELSE [r EXCEPT !.held[l] = Companions(r, c), !.lane[l] = "held"]

\* removeTerminalHeldMemberLocked
Removed(r, c, control) ==
  LET l == plan[c].lane
      rest == r.held[l] \ {c}
  IN IF c \notin r.held[l] THEN r
     ELSE [r EXCEPT !.held[l] = rest,
                    !.lane[l] = IF rest # {} THEN @
                                ELSE IF control = "active" THEN "resume_pending" ELSE "failed"]

\* Faulty: forgets the calls whose outcome was never found out.
CountsOpen(r, c) == r.token[c] = "live" /\ c \in Open(r)

\* The exposure authorizeReliabilityDispatch counts: every dispatched call whose
\* cost is not known, and the caller.
Counts(r, c) ==
  /\ r.token[c] \in {"live", "entered"}
  /\ r.attempt[c] \in Terminals => r.attempt[c] = "unresolved_provider_outcome"

Exposure(cs) == Total([c \in Call |-> plan[c].reserved], cs)
Exposed(r, c) == {d \in Call : Counts(r, d)} \union {c}

-----------------------------------------------------------------------------
(* The dispatcher of a call *)

Step(c, from, to) == dispatcher[c] = from /\ dispatcher' = [dispatcher EXCEPT ![c] = to]

\* Admission and the protocol attempt are one transaction.
Admit(c) ==
  /\ run.control = "active" /\ run.attempt[c] = "planned"
  /\ Step(c, "called", "admitted")
  /\ run' = [run EXCEPT !.attempt[c] = "admission_started"]
  /\ execution' = [execution EXCEPT ![c] = "executing"]
  /\ UNCHANGED <<plan, looking, missed, block, runner>>

\* The costs already known exceed their cap: only a billed call adds to them.
KnownCostsExceeded ==
  \E c \in Call : run.attempt[c] \in Usable \union {"reconciled_billed_no_response"}

Authorize(c) ==
  /\ run.control = "active"
  /\ Step(c, "admitted", "authorized")
  /\ Exposure(Exposed(run, c)) <= Cap
  /\ run.attempt[c] = "admission_started"
  /\ run' = [run EXCEPT !.token[c] = "live", !.attempt[c] = "dispatch_authorized"]
  /\ UNCHANGED <<plan, execution, looking, missed, block, runner>>

AuthorizeOverCap(c) ==
  /\ run.control = "active"
  /\ Step(c, "admitted", "failed")
  /\ Exposure(Exposed(run, c)) <= Cap => KnownCostsExceeded
  /\ run' = Failed(run)
  /\ UNCHANGED <<plan, execution, looking, missed, block, runner>>

\* awaitReliabilityDispatchRelease: polls the barrier of its block.
AwaitRelease(c) ==
  /\ plan[c].lane = Burst => run.token[c] # "canceled" /\ Released(run, c)
  /\ Step(c, "authorized", "entering")
  /\ UNCHANGED <<plan, run, execution, looking, missed, block, runner>>

Enterable(c) ==
  /\ run.token[c] = "live"
  /\ plan[c].lane = Burst => Released(run, c)

\* The hook the provider calls before it sends.  The write may commit without
\* its answer arriving, and then the provider does not send either.
MarkEntered(c, to) ==
  /\ Enterable(c)
  /\ Step(c, "entering", to)
  /\ run' = [run EXCEPT !.token[c] = "entered", !.attempt[c] = "primitive_entered"]
  /\ UNCHANGED <<plan, execution, looking, missed, block, runner>>

MarkRefused(c) ==
  /\ Step(c, "entering", "unsent")
  /\ UNCHANGED <<plan, run, execution, looking, missed, block, runner>>

ProviderAnswers(c) ==
  /\ Step(c, "sent", "answered")
  /\ UNCHANGED <<plan, run, execution, looking, missed, block, runner>>

\* A timeout or an answer that cannot be used, with the generation's id or not.
ProviderAmbiguous(c, identified) ==
  /\ Step(c, "sent", IF identified THEN "ambiguous" ELSE "lost")
  /\ UNCHANGED <<plan, run, execution, looking, missed, block, runner>>

\* completeReliabilityInference: the execution and the attempt together.
Completable(c) == execution[c] = "executing" /\ run.token[c] = "entered" /\ c \in Open(run)

CompleteAttempt(c) ==
  /\ Completable(c)
  /\ Step(c, "answered", "succeeded")
  /\ execution' = [execution EXCEPT ![c] = "completed"]
  /\ run' = Removed(Classified(run, {c}, "completed_verified"), c, run.control)
  /\ UNCHANGED <<plan, looking, missed, block, runner>>

\* A mismatch, a cost above the reservation or a failed transaction.
CompletionFails(c) ==
  /\ Step(c, "answered", "rejected")
  /\ UNCHANGED <<plan, run, execution, looking, missed, block, runner>>

\* holdReliabilityAttempt
HoldAttempt(c) ==
  /\ run.control = "active" /\ c \in Open(run)
  /\ run' = Holding([run EXCEPT !.attempt[c] = "reconciliation_pending",
                             !.generation[c] = @ \/ dispatcher[c] # "lost"], c)
  /\ \/ dispatcher[c] \in {"ambiguous", "lost"} /\ dispatcher' = [dispatcher EXCEPT ![c] = "holding"]
     \/ Step(c, "kept", "failed")
  /\ UNCHANGED <<plan, execution, looking, missed, block, runner>>

\* holdInference: second for an ambiguous answer, first for a rejected one.
HoldExecution(c) ==
  /\ execution[c] = "executing"
  /\ execution' = [execution EXCEPT ![c] = "reconciliation_hold"]
  /\ \/ Step(c, "holding", "failed")
     \/ Step(c, "rejected", "kept")
  /\ UNCHANGED <<plan, run, looking, missed, block, runner>>

\* classifyReliabilityNotDispatchedAtomically
NotDispatched(c) ==
  /\ c \in Open(run) /\ run.token[c] # "entered"
  /\ Step(c, "unsent", "failed")
  /\ execution' = [execution EXCEPT ![c] = IF @ = "executing" THEN "failed" ELSE @]
  /\ run' = Failed(Removed(Classified(run, {c}, "not_dispatched"), c, "active"))
  /\ UNCHANGED <<plan, looking, missed, block, runner>>

\* Any call the dispatcher makes may throw, or its process may stop: what its
\* transactions committed stays.
HandlerEnds(c) ==
  /\ InFlight(c)
  /\ dispatcher' = [dispatcher EXCEPT ![c] = "failed"]
  /\ UNCHANGED <<plan, run, execution, looking, missed, block, runner>>

\* A worker that finds the token of a stopped one: recoverPreEntryDispatchAtomically.
RecoverPreEntry(c) ==
  /\ run.token[c] \in {"live", "canceled"} /\ c \in Open(run)
  /\ execution' = [execution EXCEPT ![c] = IF @ = "executing" THEN "failed" ELSE @]
  /\ run' = Failed(Classified([run EXCEPT !.token[c] = "canceled"], {c}, "not_dispatched"))
  /\ UNCHANGED <<plan, dispatcher, looking, missed, block, runner>>

Dispatch(c) ==
  \/ Admit(c)
  \/ Authorize(c)
  \/ AuthorizeOverCap(c)
  \/ AwaitRelease(c)
  \/ \E to \in {"sent", "unsent"} : MarkEntered(c, to)
  \/ MarkRefused(c)
  \/ ProviderAnswers(c)
  \/ \E identified \in BOOLEAN : ProviderAmbiguous(c, identified)
  \/ CompleteAttempt(c)
  \/ CompletionFails(c)
  \/ HoldAttempt(c)
  \/ HoldExecution(c)
  \/ NotDispatched(c)
  \/ HandlerEnds(c)
  \/ RecoverPreEntry(c)

-----------------------------------------------------------------------------
(* Reconciliation of the pending calls *)

\* A lookup starts while the run is active and is applied whatever it became.
BeginLookup(c, offset) ==
  /\ run.control = "active" /\ run.attempt[c] = "reconciliation_pending"
  /\ run.generation[c]
  /\ looking[c] = "none"
  /\ looking' = [looking EXCEPT ![c] = offset]
  /\ UNCHANGED <<plan, run, execution, dispatcher, missed, block, runner>>

\* Only the last offset takes a missing response for an answer.
OutcomeOf(evidence, offset) ==
  CASE evidence = "canceled" -> "reconciled_not_billed"
    [] evidence = "response" -> "reconciled_billed_with_response"
    [] evidence = "no_response" /\ offset = "last" -> "reconciled_billed_no_response"
    [] OTHER -> "reconciliation_pending"

\* Faulty: gives every call the allowance.
AllowedAlways(r, c, state) == TRUE

\* The one call a run may lose: the first to claim the allowance keeps it.
Allowed(r, c, state) ==
  state \in Nonusable => r.owner \in {NoCall, c}

Owned(r, c, state) ==
  [r EXCEPT !.owner = IF state \in Nonusable /\ @ = NoCall THEN c ELSE @]

\* Faulty: fails the run for a second lost call, not for one never found out.
SettledUnresolved(r, c, state) ==
  LET removed == Removed(Owned(Classified(r, {c}, state), c, state), c, r.control)
  IN IF ~Allowed(r, c, state) THEN Failed(removed) ELSE removed

Settled(r, c, state) ==
  LET removed == Removed(Owned(Classified(r, {c}, state), c, state), c, r.control)
  IN IF state = "unresolved_provider_outcome" \/ ~Allowed(r, c, state)
     THEN Failed(removed) ELSE removed

\* settleOrdinaryReconciliationOnClient asks nothing of the row it overwrites.
ExecutionAfter(state) ==
  CASE state = "reconciled_billed_with_response" -> "completed"
    [] state = "unresolved_provider_outcome" -> "reconciliation_hold"
    [] OTHER -> "failed"

Reconcilable(c) ==
  /\ run.attempt[c] = "reconciliation_pending"
  /\ run.held[plan[c].lane] = {} \/ c \in run.held[plan[c].lane]

Settle(c, state) ==
  /\ Reconcilable(c)
  /\ run' = Settled(run, c, state)
  /\ execution' = [execution EXCEPT ![c] = ExecutionAfter(state)]

ApplyLookup(c, evidence) ==
  /\ looking[c] # "none"
  /\ looking' = [looking EXCEPT ![c] = "none"]
  /\ LET state == OutcomeOf(evidence, looking[c]) IN
       \/ state \in Terminals /\ Settle(c, state)
       \* A credential that drifted, or a phase that took too long.
       \/ /\ evidence = "drift" /\ Reconcilable(c)
          /\ run' = Failed(run)
          /\ UNCHANGED execution
       \/ /\ c \in Open(run) => evidence # "drift" /\ state \notin Terminals
          /\ UNCHANGED <<run, execution>>
  /\ UNCHANGED <<plan, dispatcher, missed, block, runner>>

\* A start window of one second that was missed, a GET that timed out or answered
\* nothing readable, or a write that failed.
LookupFails(c) ==
  /\ looking[c] # "none" \/ run.attempt[c] = "reconciliation_pending"
  /\ ~missed
  /\ looking' = [looking EXCEPT ![c] = "none"]
  /\ missed' = TRUE
  /\ UNCHANGED <<plan, run, execution, dispatcher, block, runner>>

\* The cutoff of 24 hours; planReconciliationMutation refuses a call without a
\* generation id.
Cutoff(c) ==
  /\ run.attempt[c] = "reconciliation_pending" /\ looking[c] = "none"
  /\ run.generation[c]
  /\ Settle(c, "unresolved_provider_outcome")
  /\ UNCHANGED <<plan, dispatcher, looking, missed, block, runner>>

Reconcile(c) ==
  \/ \E offset \in {"early", "last"} : BeginLookup(c, offset)
  \/ \E evidence \in {"canceled", "response", "no_response", "pending", "drift"} :
       ApplyLookup(c, evidence)
  \/ LookupFails(c)
  \/ Cutoff(c)

-----------------------------------------------------------------------------
(* The runner *)

AtRest == \A l \in Lane : runner[l].stage = "idle"
Resting == [stage |-> "idle", todo |-> {}, queued |-> FALSE]
Doing(stage, todo) == [stage |-> stage, todo |-> todo, queued |-> FALSE]

OpenBlock ==
  /\ AtRest /\ block + 1 \in Block /\ run.control = "active"
  /\ block' = block + 1
  /\ runner' = [l \in Lane |-> IF Group(l, block') = {} THEN Resting
                                ELSE Doing("enqueue", Group(l, block'))]
  /\ UNCHANGED <<plan, run, execution, dispatcher, looking, missed>>

\* Faulty: queues only for a lane that waits to resume.
BusyResuming(r, l) == r.lane[l] \in {"resume_pending", "resuming"}

\* enqueueHeldLaneWork: a lane that is not free queues what it is given.
Busy(r, l) == r.lane[l] \in {"held", "resume_pending", "resuming"}

EnqueueNext(l) ==
  LET c == Min(runner[l].todo) IN
  /\ runner[l].stage \in {"enqueue", "rest"} /\ runner[l].todo # {}
  /\ run.control = "active"
  /\ run' = [run EXCEPT !.backlog[c] = IF Busy(run, l) /\ @ = "none" THEN "queued" ELSE @]
  /\ runner' = [runner EXCEPT ![l].todo = @ \ {c}, ![l].queued = @ \/ Busy(run, l)]
  /\ UNCHANGED <<plan, execution, dispatcher, looking, missed, block>>

\* The workers of a burst start together behind a barrier, those of another
\* lane one after the other.
Start(l, calls, r) ==
  /\ runner' = [runner EXCEPT ![l] = Doing("work", calls)]
  /\ IF l = Burst
     THEN /\ run' = [r EXCEPT !.barrier[plan[Min(calls)].block] =
                          [state |-> "preparing", planned |-> calls]]
          /\ dispatcher' = [c \in Call |-> IF c \in calls THEN "called" ELSE dispatcher[c]]
     ELSE /\ run' = r
          /\ dispatcher' = [dispatcher EXCEPT ![Min(calls)] = "called"]

Enqueued(l) ==
  /\ runner[l].stage \in {"enqueue", "rest"} /\ runner[l].todo = {}
  /\ \/ /\ runner[l].stage = "enqueue" => runner[l].queued
        /\ runner' = [runner EXCEPT ![l] = Resting]
        /\ UNCHANGED <<run, dispatcher>>
     \/ /\ runner[l].stage = "enqueue" /\ ~runner[l].queued
        /\ Start(l, Group(l, block), run)
  /\ UNCHANGED <<plan, execution, looking, missed, block>>

\* A sequential call answered: the next one starts.
WorkerSucceeds(l) ==
  LET call == Min(runner[l].todo)
      rest == runner[l].todo \ {call}
  IN
  /\ runner[l].stage = "work" /\ l # Burst
  /\ dispatcher[call] = "succeeded"
  /\ IF rest = {}
     THEN runner' = [runner EXCEPT ![l] = Resting] /\ UNCHANGED dispatcher
     ELSE /\ runner' = [runner EXCEPT ![l].todo = rest]
          /\ dispatcher' = [dispatcher EXCEPT ![Min(rest)] = "called"]
  /\ UNCHANGED <<plan, run, execution, looking, missed, block>>

\* A worker that threw with its call pending leaves the rest of the block to the
\* backlog; with any other state the runner fails the protocol (RunnerFails).
WorkerHeld(l) ==
  LET call == Min(runner[l].todo) IN
  /\ runner[l].stage = "work" /\ l # Burst
  /\ run.attempt[call] = "reconciliation_pending"
  /\ runner' = [runner EXCEPT ![l] = Doing("rest", @.todo \ {call})]
  /\ UNCHANGED <<plan, run, execution, dispatcher, looking, missed, block>>

\* releaseBurstBarrier, polled while the workers run.
Releasable(b) == \A c \in run.barrier[b].planned : run.token[c] # "none"

ReleaseBarrier(l) ==
  /\ runner[l].stage = "work" /\ l = Burst
  /\ LET b == plan[Min(runner[l].todo)].block IN
       /\ run.control = "active" /\ run.barrier[b].state # "released" /\ Releasable(b)
       /\ run' = [run EXCEPT !.barrier[b].state = "released"]
  /\ UNCHANGED <<plan, execution, dispatcher, looking, missed, block, runner>>

BurstEnds(l) ==
  /\ runner[l].stage = "work" /\ l = Burst
  /\ Released(run, Min(runner[l].todo))
  /\ \A c \in runner[l].todo :
       run.attempt[c] \in {"completed_verified", "reconciliation_pending"}
  /\ runner' = [runner EXCEPT ![l] = Resting]
  /\ UNCHANGED <<plan, run, execution, dispatcher, looking, missed, block>>

Claimed(l) == {c \in Call : plan[c].lane = l /\ run.backlog[c] = "claimed"}
Queued(l) == {c \in Call : plan[c].lane = l /\ run.backlog[c] = "queued"}

\* claimDueResumedWork, in the runner's loop after the last block.
ClaimResumed(l) ==
  /\ AtRest /\ block + 1 \notin Block
  /\ run.control = "active" /\ run.lane[l] = "resume_pending"
  /\ Claimed(l) = {} /\ Queued(l) # {}
  /\ LET first == Min(Queued(l))
         calls == IF l = Burst THEN {c \in Queued(l) : plan[c].block = plan[first].block}
                               ELSE {first}
     IN Start(l, calls,
              [run EXCEPT !.lane[l] = "resuming",
                          !.backlog = [c \in Call |-> IF c \in calls THEN "claimed" ELSE @[c]]])
  /\ UNCHANGED <<plan, execution, looking, missed, block>>

\* completeResumedWorkGroup
CompleteResumed(l) ==
  /\ AtRest /\ run.control = "active"
  /\ Claimed(l) # {} /\ Claimed(l) \cap Open(run) = {}
  /\ run' = [run EXCEPT
       !.backlog = [c \in Call |-> IF c \in Claimed(l) THEN "terminal" ELSE @[c]],
       !.lane[l] = IF Queued(l) = {} THEN "ready" ELSE "resume_pending"]
  /\ UNCHANGED <<plan, execution, dispatcher, looking, missed, block, runner>>

\* resumeDueLanes: before each block, on each pass of the loop, after reconciling.
ResumeDueLanes ==
  LET due == {l \in Lane : /\ run.lane[l] = "resume_pending" /\ run.held[l] = {}
                           /\ Queued(l) \union Claimed(l) = {}}
  IN /\ run.control = "active" /\ due # {}
     /\ run' = [run EXCEPT !.lane = [l \in Lane |-> IF l \in due THEN "ready" ELSE @[l]]]
     /\ UNCHANGED <<plan, execution, dispatcher, looking, missed, block, runner>>

\* A missed window, a worker or a publication that failed: the catch of the run
\* command tries to fail the protocol, and the command ends; or its process stops.
RunnerFails ==
  /\ \E l \in Lane : runner[l].stage # "stopped"
  /\ runner' = [l \in Lane |-> Doing("stopped", {})]
  /\ run' \in {run, Failed(run)}
  /\ UNCHANGED <<plan, execution, dispatcher, looking, missed, block>>

\* hardFinalizeReliabilityRun, whose deadline is past every dispatcher's timeout.
Undispatched(r) == {c \in Open(r) : r.token[c] # "entered"}

HardFinalize ==
  LET entered == Open(run) \ Undispatched(run)
      finalized == Classified(Classified(run, Undispatched(run), "not_dispatched"),
                              entered, "unresolved_provider_outcome")
  IN /\ Open(run) # {}
     /\ \A c \in Call : ~InFlight(c)
     /\ run' = [finalized EXCEPT
          !.control = "failed",
          !.lane = [l \in Lane |-> "failed"],
          !.token = [c \in Call |-> IF @[c] = "live" THEN "canceled" ELSE @[c]]]
     /\ execution' = [c \in Call |-> IF c \in entered THEN "reconciliation_hold" ELSE execution[c]]
     /\ UNCHANGED <<plan, dispatcher, looking, missed, block, runner>>

Drive(l) ==
  \/ EnqueueNext(l)
  \/ Enqueued(l)
  \/ WorkerSucceeds(l)
  \/ WorkerHeld(l)
  \/ ReleaseBarrier(l)
  \/ BurstEnds(l)
  \/ ClaimResumed(l)
  \/ CompleteResumed(l)

ReliabilityNext ==
  \/ \E c \in Call : Dispatch(c)
  \/ \E c \in Call : Reconcile(c)
  \/ \E l \in Lane : Drive(l)
  \/ OpenBlock
  \/ ResumeDueLanes
  \/ RunnerFails
  \/ HardFinalize

ReliabilitySpec == ReliabilityInit /\ [][ReliabilityNext]_reliabilityVars

-----------------------------------------------------------------------------
AttemptStates == Terminals \union
  {"planned", "admission_started", "dispatch_authorized", "primitive_entered",
   "reconciliation_pending"}

\* The values the tables and the rows take.
ReliabilityTypeOK ==
  /\ run.control \in {"active", "failed"}
  /\ run.gate \in 0..Cardinality(Call) /\ run.usable \in 0..run.gate
  /\ run.owner \in Call \union {NoCall}
  /\ \A l \in Lane : /\ run.lane[l] \in {"ready", "held", "resume_pending", "resuming", "failed"}
                     /\ \A c \in run.held[l] : plan[c].lane = l
  /\ \A c \in Call :
       /\ run.attempt[c] \in AttemptStates
       /\ run.token[c] \in {"none", "live", "entered", "canceled"}
       /\ run.backlog[c] \in {"none", "queued", "claimed", "terminal"}
       /\ execution[c] \in {"none", "executing", "completed", "failed", "reconciliation_hold"}

\* Rows keep their shape.  The counters a run is judged by say what its calls
\* became, whichever of the seven writers classified them; a call is usable
\* exactly when the ordinary ledger completed it; and a run still active has lost
\* one call at most.
GateAnswersForTheRun ==
  /\ ReliabilityTypeOK
  /\ run.gate = Cardinality(Call \ Open(run))
  /\ run.usable = Cardinality({c \in Call : run.attempt[c] \in Usable})
  /\ \A c \in Call : run.attempt[c] \in Usable <=> execution[c] = "completed"
  /\ run.control = "active" => run.gate - run.usable <= 1

InOrder(c) ==
  IF plan[c].lane = Burst
  THEN run.token[c] = "entered" =>
         \A d \in run.barrier[plan[c].block].planned : run.token[d] # "none"
  ELSE execution[c] # "none" =>
         \A d \in Call : /\ d < c /\ plan[d].lane = plan[c].lane
                        /\ execution[d] # "none"
                        => d \notin Open(run)

\* No burst call reaches the provider before each planned call of its block holds
\* a dispatch token; another lane is single-flight: of two of its calls that were
\* admitted, the earlier is decided, through holds, backlog and resumption.  A
\* call that is ambiguous is in the hold of its lane, and a lane of an active run
\* is held exactly while a call holds it.
LanesKeepTheirOrder ==
  /\ \A c \in Call :
       /\ InOrder(c)
       /\ run.attempt[c] = "reconciliation_pending" => c \in run.held[plan[c].lane]
  /\ run.control = "active" =>
       \A l \in Lane : run.held[l] # {} <=> run.lane[l] = "held"

\* Dispatched calls whose cost is not known never reserve more than the cap.
ExposureWithinCap ==
  LET dispatched == {c \in Call : run.token[c] \in {"live", "entered"}}
  IN Exposure(dispatched \cap Open(run)) <= Cap

\* Once a run failed, a call without a terminal state has a token its owner may
\* still use: nothing else waits for a dispatch that cannot come.
NothingHangsAfterFailure ==
  run.control = "failed" =>
    \A c \in Open(run) : /\ run.token[c] \in {"live", "entered"}
                         /\ plan[c].lane = Burst => Released(run, c)
=============================================================================
