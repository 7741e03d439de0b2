----------------------------- MODULE ShadowQueue -----------------------------
(***************************************************************************)
(* Shadow evaluations (src/src/persistence/policyStore.ts, from             *)
(* queueShadowBookkeepingBestEffort to evaluateAndPersistShadow).  The       *)
(* transaction that completes an execution, or settles one with its         *)
(* response, takes the next ordinal of its cohort and queues a job; the     *)
(* completing call and a scheduled script process jobs under a lease.       *)
(*                                                                         *)
(* The evidence of a job is the set of executions it was computed from.  A   *)
(* worker's id stands for the token of its claim: it draws a new one for     *)
(* each, and has one claim at a time.  A lease may be over at any time after *)
(* it was taken, however slow its worker is.                                *)
(***************************************************************************)
EXTENDS Integers, FiniteSets

CONSTANTS
  Requests,      \* executions
  Cohorts,       \* parent branch, class, provider, model and policy version
  CohortOf,      \* the cohort of each
  Workers,       \* completing calls and runs of the script
  Window,        \* windowSeconds of the class
  BatchLimit,    \* FUSE_SHADOW_RETRY_LIMIT
  MaxAttempts,   \* 3
  MaxTime,       \* bounds the clock
  NoRequest, NoWorker

ASSUME ShadowAssumption ==
  /\ IsFiniteSet(Requests)
  /\ NoRequest \notin Requests /\ NoWorker \notin Workers
  /\ \A r \in Requests : CohortOf[r] \in Cohorts
  /\ Window \in Nat /\ MaxTime \in Nat /\ BatchLimit \in Nat \ {0} /\ MaxAttempts \in Nat \ {0}

VARIABLES
  execution,     \* the shadow columns of inference_executions
  counter,       \* shadow_cohort_counters
  ordering,      \* the transaction that has locked each counter
  job,           \* shadow_evaluation_queue
  evidence,      \* shadow_evaluations, empty while there is no row
  worker,        \* what each worker is doing
  now,           \* the clock of the database, as it was last read
  evaluated      \* history: how often each request was evaluated

queue == <<job, evidence, worker, evaluated>>
vars == <<execution, counter, ordering, queue, now>>

Running == [completed |-> FALSE, ordinal |-> 0, at |-> 0]
Unclaimed(state) == [state |-> state, attempts |-> 0, claim |-> NoWorker, lease |-> "none"]
Idle == [stage |-> "idle", batch |-> {}, request |-> NoRequest]

Init ==
  /\ execution = [r \in Requests |-> Running]
  /\ counter = [c \in Cohorts |-> 0]
  /\ ordering = [c \in Cohorts |-> NoRequest]
  /\ job = [r \in Requests |-> Unclaimed("absent")]
  /\ evidence = [r \in Requests |-> {}]
  /\ worker = [w \in Workers |-> Idle]
  /\ now = 0
  /\ evaluated = [r \in Requests |-> 0]

-----------------------------------------------------------------------------
(* Completing an execution. *)
Open(r) == ~execution[r].completed
Drawn(r) == Open(r) /\ execution[r].ordinal > 0

Draw(r) ==
  /\ Open(r) /\ ~Drawn(r)
  /\ counter' = [counter EXCEPT ![CohortOf[r]] = @ + 1]
  /\ now' \in now..MaxTime
  /\ execution' = [execution EXCEPT ![r] =
       [completed |-> FALSE, ordinal |-> counter[CohortOf[r]] + 1, at |-> now']]
  /\ ordering' = [ordering EXCEPT ![CohortOf[r]] = r]
  /\ UNCHANGED queue

(* Faulty: a sequence hands out the next ordinal before this one commits. *)
TakeFromSequence(r) == Draw(r)

(* The counter's row is locked until the transaction ends; until then nobody *)
(* else reads the ordinal or the counter.                                    *)
TakeOrdinal(r) == Draw(r) /\ ordering[CohortOf[r]] = NoRequest

Release(r) == ordering' = [ordering EXCEPT ![CohortOf[r]] = IF @ = r THEN NoRequest ELSE @]

CommitOrdinal(r) ==
  /\ Drawn(r) /\ Release(r)
  /\ execution' = [execution EXCEPT ![r].completed = TRUE]
  /\ job' = [job EXCEPT ![r] = Unclaimed("pending")]
  /\ UNCHANGED <<counter, evidence, worker, evaluated, now>>

(* Gives an ordinal back, to the transaction or to its savepoint. *)
Undraw(r, completed) ==
  /\ execution' = [execution EXCEPT ![r] = [Running EXCEPT !.completed = completed]]
  /\ counter' = IF Drawn(r) THEN [counter EXCEPT ![CohortOf[r]] = @ - 1] ELSE counter
  /\ Release(r)
  /\ UNCHANGED <<queue, now>>

AbortCompletion(r) == Drawn(r) /\ Undraw(r, FALSE)

(* Faulty: the counter stays where it was drawn to. *)
CompleteLosingOrdinal(r) ==
  /\ Open(r) /\ Release(r)
  /\ execution' = [execution EXCEPT ![r] = [Running EXCEPT !.completed = TRUE]]
  /\ UNCHANGED <<counter, queue, now>>

(* Bookkeeping does not apply, or it fails before or after the counter was   *)
(* locked: the execution completes without an ordinal.                       *)
CompleteUnordered(r) == Open(r) /\ Undraw(r, TRUE)

-----------------------------------------------------------------------------
(* Processing jobs. *)
Doing(w, stage) == worker[w].stage = stage
Stays == UNCHANGED <<execution, counter, ordering, now>>

(* On to the rest of the batch. *)
Proceed(w, batch) ==
  worker' = [worker EXCEPT ![w] =
    IF batch = {} THEN Idle ELSE [stage |-> "claiming", batch |-> batch, request |-> NoRequest]]

(* Faulty: a claim outlives its lease. *)
ClaimedForGood(r) == job[r].claim # NoWorker

Claimed(r) == job[r].lease = "live"

Retryable(r) ==
  job[r].state \in {"pending", "failed"} /\ job[r].attempts < MaxAttempts /\ ~Claimed(r)

(* The call that completed a request, or the replay of its resolution, which *)
(* does nothing where no job was queued.                                     *)
Serve(w, r) ==
  /\ Doing(w, "idle") /\ job[r].state # "absent"
  /\ Proceed(w, {r})
  /\ UNCHANGED <<job, evidence, evaluated>> /\ Stays

(* A run of the script reads its batch; the order is of the callers' clocks. *)
Scan(w) ==
  /\ Doing(w, "idle")
  /\ LET due == {r \in Requests : Retryable(r)} IN
     \E batch \in SUBSET due \ {{}} :
       /\ Cardinality(batch) <= BatchLimit
       /\ Cardinality(batch) = BatchLimit \/ batch = due
       /\ Proceed(w, batch)
  /\ UNCHANGED <<job, evidence, evaluated>> /\ Stays

Refuse(w, r) ==
  /\ Doing(w, "claiming") /\ r \in worker[w].batch /\ ~Retryable(r)
  /\ Proceed(w, worker[w].batch \ {r})
  /\ UNCHANGED <<job, evidence, evaluated>> /\ Stays

ClaimedBy(w, row) ==
  [state |-> row.state, attempts |-> row.attempts + 1, claim |-> w, lease |-> "live"]

TakeClaim(w, r, stage) ==
  /\ Doing(w, "claiming") /\ r \in worker[w].batch /\ Retryable(r)
  /\ job' = [job EXCEPT ![r] = ClaimedBy(w, @)]
  /\ worker' = [worker EXCEPT ![w] =
       [stage |-> stage, batch |-> @.batch \ {r}, request |-> r]]
  /\ UNCHANGED <<evidence, evaluated>> /\ Stays

Claim(w, r) == TakeClaim(w, r, "evaluating")

ClaimUnacknowledged(w, r) == TakeClaim(w, r, "failing")

(* A claim that rolls back is not there to be failed either. *)
ClaimThrows(w, r) ==
  /\ Doing(w, "claiming") /\ r \in worker[w].batch
  /\ Proceed(w, worker[w].batch \ {r})
  /\ UNCHANGED <<job, evidence, evaluated>> /\ Stays

(* What a request at its ordinal is compared with. *)
AsOf(r) ==
  {q \in Requests : /\ CohortOf[q] = CohortOf[r] /\ execution[q].completed
                    /\ execution[q].ordinal \in 1..execution[r].ordinal
                    /\ execution[q].at + Window >= execution[r].at}

Ended(row, state) ==
  [state |-> state, attempts |-> row.attempts, claim |-> NoWorker, lease |-> "none"]

Owns(w) == Doing(w, "evaluating") /\ job[worker[w].request].claim = w

Evaluation(w) ==
  LET r == worker[w].request IN
  /\ Owns(w)
  /\ evidence' = [evidence EXCEPT ![r] = IF @ = {} THEN AsOf(r) ELSE @]
  /\ job' = [job EXCEPT ![r] = Ended(@, "completed")]
  /\ evaluated' = [evaluated EXCEPT ![r] = @ + 1]
  /\ Stays

Evaluate(w) == Evaluation(w) /\ Proceed(w, worker[w].batch)

EvaluateUnacknowledged(w) ==
  Evaluation(w) /\ worker' = [worker EXCEPT ![w].stage = "failing"]

EvaluationThrows(w) ==
  /\ Owns(w)
  /\ evaluated' = [evaluated EXCEPT ![worker[w].request] = @ + 1]
  /\ worker' = [worker EXCEPT ![w].stage = "failing"]
  /\ UNCHANGED <<job, evidence>> /\ Stays

(* Another worker has taken the job over. *)
Disown(w) ==
  /\ Doing(w, "evaluating") /\ ~Owns(w)
  /\ Proceed(w, worker[w].batch)
  /\ UNCHANGED <<job, evidence, evaluated>> /\ Stays

(* Faulty: fails the job whoever has it. *)
FailableByAll(w) ==
  LET r == worker[w].request IN
  job[r].state \in {"pending", "failed"} /\ evidence[r] = {}

Failable(w) ==
  LET r == worker[w].request IN
  /\ job[r].claim = w /\ job[r].state \in {"pending", "failed"}
  /\ job[r].attempts <= MaxAttempts /\ evidence[r] = {}

MarkFailed(w) ==
  LET r == worker[w].request IN
  /\ Doing(w, "failing")
  /\ job' = IF Failable(w) THEN [job EXCEPT ![r] = Ended(@, "failed")] ELSE job
  /\ Proceed(w, worker[w].batch)
  /\ UNCHANGED <<evidence, evaluated>> /\ Stays

(* The error is swallowed; the claim stands until its lease is over. *)
MarkFailedThrows(w) ==
  /\ Doing(w, "failing")
  /\ Proceed(w, worker[w].batch)
  /\ UNCHANGED <<job, evidence, evaluated>> /\ Stays

Crash(w) ==
  /\ ~Doing(w, "idle")
  /\ worker' = [worker EXCEPT ![w] = Idle]
  /\ UNCHANGED <<job, evidence, evaluated>> /\ Stays

Expire(r) ==
  /\ Claimed(r)
  /\ job' = [job EXCEPT ![r].lease = "over"]
  /\ UNCHANGED <<evidence, worker, evaluated>> /\ Stays

Step(w) ==
  \/ \E r \in Requests : Refuse(w, r) \/ Claim(w, r)
  \/ Evaluate(w) \/ Disown(w) \/ MarkFailed(w)

Next ==
  \/ \E r \in Requests :
       \/ TakeOrdinal(r) \/ CommitOrdinal(r) \/ AbortCompletion(r)
       \/ CompleteUnordered(r) \/ Expire(r)
       \/ \E w \in Workers : Serve(w, r) \/ ClaimUnacknowledged(w, r) \/ ClaimThrows(w, r)
  \/ \E w \in Workers :
       \/ Scan(w) \/ Step(w) \/ Crash(w)
       \/ EvaluateUnacknowledged(w) \/ EvaluationThrows(w) \/ MarkFailedThrows(w)

Spec == Init /\ [][Next]_vars

-----------------------------------------------------------------------------
Execution == [completed: BOOLEAN, ordinal: Nat, at: 0..MaxTime]
Job == [ state: {"absent", "pending", "failed", "completed"}, attempts: 0..MaxAttempts,
         claim: Workers \cup {NoWorker}, lease: {"none", "live", "over"} ]
Work == [ stage: {"idle", "claiming", "evaluating", "failing"}, batch: SUBSET Requests,
          request: Requests \cup {NoRequest} ]

(* Type invariant: the shape of rows and workers; a job is of a request with *)
(* an ordinal that committed, and whoever evaluates or fails has a request.  *)
ShadowTypeOK ==
  /\ execution \in [Requests -> Execution]
  /\ counter \in [Cohorts -> Nat]
  /\ ordering \in [Cohorts -> Requests \cup {NoRequest}]
  /\ job \in [Requests -> Job]
  /\ evidence \in [Requests -> SUBSET Requests]
  /\ worker \in [Workers -> Work]
  /\ now \in 0..MaxTime
  /\ evaluated \in [Requests -> Nat]
  /\ \A r \in Requests : job[r].state # "absent" <=> ~Open(r) /\ execution[r].ordinal > 0
  /\ \A w \in Workers : worker[w].stage \in {"evaluating", "failing"}
                          => worker[w].request \in Requests

Ordered(c) == {r \in Requests : CohortOf[r] = c /\ execution[r].ordinal > 0}

(* docs/sibling-divergence-shadow-v1.md:189: ordinals are the order in which *)
(* a cohort commits, without gaps or repetitions, and time runs with them,   *)
(* whatever fails or rolls back after an ordinal was drawn.                   *)
CohortOrdered ==
  /\ \A c \in Cohorts : {execution[r].ordinal : r \in Ordered(c)} = 1..counter[c]
  /\ \A c \in Cohorts : \A q, r \in Ordered(c) :
       execution[q].ordinal <= execution[r].ordinal
         => (q = r \/ execution[q].ordinal < execution[r].ordinal)
            /\ execution[q].at <= execution[r].at

(* docs/sibling-divergence-shadow-v1.md:191: evidence is what an evaluation  *)
(* would find now, however late it ran and whatever completed since; and a   *)
(* job is done exactly when it has evidence.                                 *)
EvidenceCanonical ==
  \A r \in Requests : /\ evidence[r] # {} => evidence[r] = AsOf(r)
                      /\ job[r].state = "completed" <=> evidence[r] # {}

(* docs/sibling-divergence-shadow-v1.md:195: "Each item receives at most     *)
(* three evaluator attempts", over all workers, retries and crashes.         *)
AttemptsBound == \A r \in Requests : evaluated[r] <= MaxAttempts

(* docs/sibling-divergence-shadow-v1.md:195: while a claim is live only its  *)
(* holder changes the job, and a job that is done stays done: stale workers  *)
(* neither fail it, nor finish it, nor take it back.                          *)
StaleWorkersChangeNothing ==
  [][\A r \in Requests :
       /\ Claimed(r) /\ job'[r] # job[r]
            => \/ worker'[job[r].claim] # worker[job[r].claim]
               \/ job'[r] = [job[r] EXCEPT !.lease = "over"]
       /\ job[r].state = "completed" => job'[r] = job[r]]_vars

-----------------------------------------------------------------------------
(* The script is run again and again, its processes run and lease clocks too; *)
(* and a job that is claimed again and again is claimed some time.           *)
Scheduled ==
  /\ SF_vars(\E w \in Workers : Scan(w))
  /\ \A w \in Workers : WF_vars(Step(w))
  /\ \A r \in Requests : /\ WF_vars(Expire(r))
                         /\ SF_vars(\E w \in Workers : Claim(w, r))

FairSpec == Spec /\ Scheduled

Done(r) == job[r].state = "completed"
GivenUp(r) == job[r].attempts = MaxAttempts

(* README.md:300: no job is left behind: each gets its evidence or has had   *)
(* its attempts, although workers crash and a batch is smaller than the queue.*)
JobsEnd == \A r \in Requests : job[r].state = "pending" ~> Done(r) \/ GivenUp(r)
=============================================================================
