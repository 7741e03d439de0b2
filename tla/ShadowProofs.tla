---------------------------- MODULE ShadowProofs ----------------------------
(***************************************************************************)
(* The order of a cohort, the evidence computed from it and the attempts    *)
(* spent on it, for any executions, cohorts, workers and batches; and what  *)
(* an evaluation signals, for any window of sibling branches.               *)
(***************************************************************************)
EXTENDS ShadowQueue, SiblingDivergence, AmountsProofs, WellFoundedInduction

Completing(r) ==
  TakeOrdinal(r) \/ CommitOrdinal(r) \/ AbortCompletion(r) \/ CompleteUnordered(r)

(* An ordinal that was drawn and not committed is the last of its cohort, and *)
(* its transaction has locked the counter.                                   *)
LockInv ==
  \A r \in Requests : Drawn(r) => /\ ordering[CohortOf[r]] = r
                                  /\ execution[r].ordinal = counter[CohortOf[r]]

(* Any other step leaves executions and counters alone. *)
LEMMA OtherSteps ==
  ASSUME [Next]_vars, ~ \E r \in Requests : Completing(r)
  PROVE  Stays
BY DEF Next, vars, queue, Completing, Stays, Expire, Serve, ClaimUnacknowledged, ClaimThrows,
       TakeClaim, Scan, Step, Crash, EvaluateUnacknowledged, EvaluationThrows, Evaluation,
       MarkFailedThrows, Refuse, Claim, Evaluate, Disown, MarkFailed

LEMMA ProceedTyped ==
  ASSUME ShadowTypeOK, NEW w \in Workers, NEW batch \in SUBSET Requests, Proceed(w, batch)
  PROVE  /\ worker' \in [Workers -> Work]
         /\ \A v \in Workers : worker'[v].stage \in {"evaluating", "failing"}
                                 => worker'[v].request \in Requests
BY DEF Proceed, ShadowTypeOK, Work, Idle

LEMMA CompletionTyped ==
  ASSUME ShadowTypeOK, LockInv, NEW r \in Requests, Completing(r)
  PROVE  ShadowTypeOK'
<1> USE ShadowAssumption
<1>1. CASE TakeOrdinal(r)
  <2>1. /\ counter[CohortOf[r]] \in Nat /\ CohortOf[r] \in Cohorts
        /\ now' \in 0..MaxTime
    BY <1>1 DEF TakeOrdinal, Draw, ShadowTypeOK
  <2>2. /\ execution' \in [Requests -> Execution] /\ counter' \in [Cohorts -> Nat]
        /\ ordering' \in [Cohorts -> Requests \cup {NoRequest}]
    BY <1>1, <2>1 DEF TakeOrdinal, Draw, ShadowTypeOK, Execution
  <2>3. \A q \in Requests : /\ ~Open(q)' <=> ~Open(q)
                            /\ ~Open(q) => execution'[q] = execution[q]
    BY <1>1 DEF TakeOrdinal, Draw, ShadowTypeOK, Execution, Open
  <2>4. \A q \in Requests : job'[q].state # "absent" <=> ~Open(q)' /\ execution'[q].ordinal > 0
    BY <1>1, <2>3 DEF TakeOrdinal, Draw, ShadowTypeOK, queue
  <2> QED BY <1>1, <2>1, <2>2, <2>4 DEF TakeOrdinal, Draw, ShadowTypeOK, queue
<1>2. CASE CommitOrdinal(r)
  <2>0. Unclaimed("pending") \in Job /\ job' = [job EXCEPT ![r] = Unclaimed("pending")]
    BY <1>2 DEF CommitOrdinal, Job, Unclaimed
  <2>1. /\ execution' \in [Requests -> Execution]
        /\ ordering' \in [Cohorts -> Requests \cup {NoRequest}]
        /\ job' \in [Requests -> Job]
    <3>1. execution' \in [Requests -> Execution]
      BY <1>2 DEF CommitOrdinal, ShadowTypeOK, Execution
    <3>2. ordering' \in [Cohorts -> Requests \cup {NoRequest}]
      BY <1>2 DEF CommitOrdinal, Release, ShadowTypeOK
    <3> QED BY <2>0, <3>1, <3>2 DEF ShadowTypeOK
  <2>2. \A q \in Requests : job'[q].state # "absent" <=> ~Open(q)' /\ execution'[q].ordinal > 0
    BY <1>2 DEF CommitOrdinal, ShadowTypeOK, Execution, Job, Unclaimed, Open, Drawn
  <2> QED BY <1>2, <2>1, <2>2 DEF CommitOrdinal, ShadowTypeOK
<1>3. ASSUME NEW completed \in BOOLEAN, Open(r), Undraw(r, completed),
             Drawn(r) => counter[CohortOf[r]] > 0
      PROVE  ShadowTypeOK'
  <2>1. /\ execution' \in [Requests -> Execution]
        /\ ordering' \in [Cohorts -> Requests \cup {NoRequest}]
    BY <1>3 DEF Undraw, Release, ShadowTypeOK, Execution, Running
  <2>2. counter' \in [Cohorts -> Nat]
    BY <1>3 DEF Undraw, ShadowTypeOK
  <2>3. \A q \in Requests : job'[q].state # "absent" <=> ~Open(q)' /\ execution'[q].ordinal > 0
    BY <1>3 DEF Undraw, ShadowTypeOK, Execution, Running, Open, queue
  <2> QED BY <1>3, <2>1, <2>2, <2>3 DEF Undraw, ShadowTypeOK, queue
<1>4. Drawn(r) => counter[CohortOf[r]] > 0
  BY DEF LockInv, Drawn
<1>5. CASE AbortCompletion(r)
  BY <1>3, <1>4, <1>5 DEF AbortCompletion, Drawn
<1>6. CASE CompleteUnordered(r)
  BY <1>3, <1>4, <1>6 DEF CompleteUnordered
<1> QED BY <1>1, <1>2, <1>5, <1>6 DEF Completing

(* Only a job that can still be done is claimed. *)
ClaimInv ==
  \A r \in Requests :
    job[r].claim # NoWorker \/ Claimed(r) => job[r].state \in {"pending", "failed"}

LEMMA EndedTyped ==
  ASSUME NEW row \in Job, NEW state \in {"completed", "failed"}
  PROVE  /\ Ended(row, state) \in Job
         /\ Ended(row, state).state = state
         /\ Ended(row, state).claim = NoWorker
         /\ Ended(row, state).attempts = row.attempts
BY DEF Job, Ended

(* What the steps of workers and leases do to jobs. *)
LEMMA JobsTyped ==
  ASSUME ShadowTypeOK, NEW r \in Requests, NEW row \in Job,
         job[r].state # "absent", row.state # "absent",
         job' = [job EXCEPT ![r] = row], UNCHANGED execution
  PROVE  /\ job' \in [Requests -> Job]
         /\ \A q \in Requests : job'[q].state # "absent" <=> ~Open(q)' /\ execution'[q].ordinal > 0
BY DEF ShadowTypeOK, Open

(* A worker that stops, moves on or looks at a job without changing any. *)
Aside(w) ==
  \/ \E r \in Requests : Serve(w, r) \/ Refuse(w, r) \/ ClaimThrows(w, r)
  \/ Scan(w) \/ Disown(w) \/ MarkFailedThrows(w) \/ Crash(w)

LEMMA AsideTyped ==
  ASSUME ShadowTypeOK, NEW w \in Workers, Aside(w)
  PROVE  /\ ShadowTypeOK'
         /\ UNCHANGED <<job, evidence, evaluated>> /\ Stays
         /\ \A v \in Workers : v # w => worker'[v] = worker[v]
         /\ ~Doing(w, "evaluating")'
<1>1. /\ UNCHANGED <<job, evidence, evaluated>> /\ Stays
      /\ \/ \E batch \in SUBSET Requests : Proceed(w, batch)
         \/ worker' = [worker EXCEPT ![w] = Idle]
  <2>1. worker[w].batch \in SUBSET Requests
    BY DEF ShadowTypeOK, Work
  <2> QED BY <2>1 DEF Aside, Serve, Refuse, ClaimThrows, Scan, Disown, MarkFailedThrows, Crash
<1>2. /\ worker' \in [Workers -> Work]
      /\ \A v \in Workers : worker'[v].stage \in {"evaluating", "failing"}
                              => worker'[v].request \in Requests
  <2>1. CASE \E batch \in SUBSET Requests : Proceed(w, batch)
    BY <2>1, ProceedTyped
  <2>2. CASE worker' = [worker EXCEPT ![w] = Idle]
    BY <2>2 DEF ShadowTypeOK, Work, Idle
  <2> QED BY <1>1, <2>1, <2>2
<1>3. /\ \A v \in Workers : v # w => worker'[v] = worker[v]
      /\ ~Doing(w, "evaluating")'
  BY <1>1 DEF Proceed, Idle, ShadowTypeOK, Doing
<1>4. ShadowTypeOK'
  BY <1>1, <1>2 DEF ShadowTypeOK, Stays, Open
<1> QED BY <1>1, <1>3, <1>4

LEMMA ClaimTyped ==
  ASSUME ShadowTypeOK, NEW w \in Workers, NEW r \in Requests,
         NEW stage \in {"evaluating", "failing"}, TakeClaim(w, r, stage)
  PROVE  ShadowTypeOK'
<1> USE ShadowAssumption
<1> DEFINE row == ClaimedBy(w, job[r])
<1>1. job[r] \in Job /\ job[r].state \in {"pending", "failed"} /\ job[r].attempts < MaxAttempts
  BY DEF TakeClaim, Retryable, ShadowTypeOK
<1>2. row \in Job /\ row.state # "absent"
  BY <1>1 DEF Job, ClaimedBy
<1>3. job' = [job EXCEPT ![r] = row]
  BY DEF TakeClaim, ShadowTypeOK
<1>4. /\ job' \in [Requests -> Job]
      /\ \A q \in Requests : job'[q].state # "absent" <=> ~Open(q)' /\ execution'[q].ordinal > 0
  BY <1>1, <1>2, <1>3, JobsTyped DEF TakeClaim, Stays
<1>5. /\ worker' \in [Workers -> Work]
      /\ \A v \in Workers : worker'[v].stage \in {"evaluating", "failing"}
                              => worker'[v].request \in Requests
  BY DEF TakeClaim, ShadowTypeOK, Work
<1> QED BY <1>4, <1>5 DEF TakeClaim, ShadowTypeOK, Stays

LEMMA EvaluationTyped ==
  ASSUME ShadowTypeOK, ClaimInv, NEW w \in Workers, Evaluation(w)
  PROVE  /\ job' \in [Requests -> Job]
         /\ \A q \in Requests : job'[q].state # "absent" <=> ~Open(q)' /\ execution'[q].ordinal > 0
         /\ evidence' \in [Requests -> SUBSET Requests]
         /\ evaluated' \in [Requests -> Nat]
<1> USE ShadowAssumption
<1> DEFINE r == worker[w].request
           row == Ended(job[r], "completed")
<1>0. r \in Requests /\ job[r] \in Job
  BY DEF Evaluation, Owns, Doing, ShadowTypeOK
<1>1. row \in Job /\ row.state # "absent"
  BY <1>0, EndedTyped
<1>2. job' = [job EXCEPT ![r] = row]
  BY DEF Evaluation, ShadowTypeOK
<1>3. job[r].state # "absent"
  BY <1>0, ShadowAssumption DEF Evaluation, Owns, ClaimInv
<1>4. /\ job' \in [Requests -> Job]
      /\ \A q \in Requests : job'[q].state # "absent" <=> ~Open(q)' /\ execution'[q].ordinal > 0
  BY <1>0, <1>1, <1>2, <1>3, JobsTyped DEF Evaluation, Stays
<1>5. AsOf(r) \in SUBSET Requests
  BY DEF AsOf
<1> QED
  BY <1>0, <1>4, <1>5 DEF Evaluation, ShadowTypeOK

LEMMA MarkFailedTyped ==
  ASSUME ShadowTypeOK, NEW w \in Workers, MarkFailed(w)
  PROVE  ShadowTypeOK'
<1> DEFINE r == worker[w].request
<1>1. r \in Requests /\ job[r] \in Job
  BY DEF MarkFailed, Doing, ShadowTypeOK
<1>2. /\ job' \in [Requests -> Job]
      /\ \A q \in Requests : job'[q].state # "absent" <=> ~Open(q)' /\ execution'[q].ordinal > 0
  <2>1. CASE Failable(w)
    <3>1. job' = [job EXCEPT ![r] = Ended(job[r], "failed")]
      BY <2>1, <1>1 DEF MarkFailed, ShadowTypeOK
    <3>2. job[r].state # "absent"
      BY <2>1 DEF Failable
    <3> QED BY <1>1, <3>1, <3>2, EndedTyped, JobsTyped DEF MarkFailed, Stays
  <2>2. CASE ~Failable(w)
    BY <2>2 DEF MarkFailed, Stays, ShadowTypeOK, Open
  <2> QED BY <2>1, <2>2
<1>3. worker[w].batch \in SUBSET Requests /\ Proceed(w, worker[w].batch)
  BY DEF MarkFailed, ShadowTypeOK, Work
<1> QED
  BY <1>2, <1>3, ProceedTyped DEF MarkFailed, ShadowTypeOK, Stays

(* The steps of a worker that are not Aside, and the end of a lease. *)
Acts(w) ==
  \/ \E r \in Requests : TakeClaim(w, r, "evaluating") \/ TakeClaim(w, r, "failing")
  \/ Evaluate(w) \/ EvaluateUnacknowledged(w) \/ EvaluationThrows(w) \/ MarkFailed(w)

LEMMA StepCases ==
  ASSUME [Next]_vars
  PROVE  \/ \E r \in Requests : Completing(r) \/ Expire(r)
         \/ \E w \in Workers : Aside(w) \/ Acts(w)
         \/ UNCHANGED vars
BY DEF Next, Step, Claim, ClaimUnacknowledged, Completing, Aside, Acts

LEMMA ActsTyped ==
  ASSUME ShadowTypeOK, ClaimInv, NEW w \in Workers, Acts(w)
  PROVE  ShadowTypeOK' /\ Stays
<1>1. ASSUME NEW r \in Requests, NEW stage \in {"evaluating", "failing"}, TakeClaim(w, r, stage)
      PROVE  ShadowTypeOK' /\ Stays
  BY <1>1, ClaimTyped DEF TakeClaim
<1>2. CASE Evaluate(w)
  <2>1. worker[w].batch \in SUBSET Requests
    BY DEF ShadowTypeOK, Work
  <2> QED BY <1>2, <2>1, ProceedTyped, EvaluationTyped
          DEF Evaluate, Evaluation, ShadowTypeOK, Stays
<1>3. worker[w].request \in Requests /\ worker' = [worker EXCEPT ![w].stage = "failing"]
      => /\ worker' \in [Workers -> Work]
         /\ \A v \in Workers : worker'[v].stage \in {"evaluating", "failing"}
                                 => worker'[v].request \in Requests
  <2>1. /\ worker \in [Workers -> Work]
        /\ \A v \in Workers : worker[v].stage \in {"evaluating", "failing"}
                                => worker[v].request \in Requests
    BY DEF ShadowTypeOK
  <2>2. [worker[w] EXCEPT !.stage = "failing"] \in Work
    BY <2>1 DEF Work
  <2>3. [worker[w] EXCEPT !.stage = "failing"].request = worker[w].request
    BY <2>1 DEF Work
  <2> QED BY <2>1, <2>2, <2>3
<1>4. CASE EvaluateUnacknowledged(w)
  <2>1. worker[w].request \in Requests
    BY <1>4 DEF EvaluateUnacknowledged, Evaluation, Owns, Doing, ShadowTypeOK
  <2> QED BY <1>3, <1>4, <2>1, EvaluationTyped
          DEF EvaluateUnacknowledged, Evaluation, ShadowTypeOK, Stays
<1>5. CASE EvaluationThrows(w)
  <2>1. worker[w].request \in Requests
    BY <1>5 DEF EvaluationThrows, Owns, Doing, ShadowTypeOK
  <2>2. evaluated' \in [Requests -> Nat]
    BY <1>5, <2>1 DEF EvaluationThrows, ShadowTypeOK
  <2> QED BY <1>3, <1>5, <2>1, <2>2 DEF EvaluationThrows, ShadowTypeOK, Stays, Open
<1>6. CASE MarkFailed(w)
  BY <1>6, MarkFailedTyped DEF MarkFailed
<1> QED BY <1>1, <1>2, <1>4, <1>5, <1>6 DEF Acts

LEMMA ExpireTyped ==
  ASSUME ShadowTypeOK, NEW r \in Requests, Expire(r)
  PROVE  ShadowTypeOK' /\ Stays
BY DEF Expire, ShadowTypeOK, Job, Open, Stays

LEMMA TypeStep ==
  ASSUME ShadowTypeOK, LockInv, ClaimInv, [Next]_vars
  PROVE  ShadowTypeOK'
<1>1. CASE UNCHANGED vars
  BY <1>1 DEF ShadowTypeOK, vars, queue, Open
<1> QED
  BY <1>1, StepCases, CompletionTyped, ExpireTyped, AsideTyped, ActsTyped

-----------------------------------------------------------------------------
(* No ordinal is stamped later than the clock. *)
TimeInv == \A r \in Requests : execution[r].at <= now

LEMMA LockStep ==
  ASSUME ShadowTypeOK, LockInv, [Next]_vars
  PROVE  LockInv'
<1> USE ShadowAssumption
<1>1. ASSUME NEW r \in Requests, TakeOrdinal(r)
      PROVE  LockInv'
  <2> SUFFICES ASSUME NEW q \in Requests, Drawn(q)'
               PROVE  ordering'[CohortOf[q]] = q /\ execution'[q].ordinal = counter'[CohortOf[q]]
    BY DEF LockInv
  <2>1. CASE q = r
    BY <1>1, <2>1 DEF TakeOrdinal, Draw, ShadowTypeOK
  <2>2. CASE q # r
    <3>1. execution'[q] = execution[q] /\ Drawn(q)
      BY <1>1, <2>2 DEF TakeOrdinal, Draw, ShadowTypeOK, Drawn, Open
    <3>2. CohortOf[q] # CohortOf[r]
      BY <1>1, <3>1 DEF TakeOrdinal, LockInv
    <3> QED BY <1>1, <3>1, <3>2 DEF TakeOrdinal, Draw, ShadowTypeOK, LockInv
  <2> QED BY <2>1, <2>2
<1>2. ASSUME NEW r \in Requests, Open(r), Release(r), NEW q \in Requests, q # r,
             execution'[q] = execution[q], Drawn(q)',
             counter'[CohortOf[q]] # counter[CohortOf[q]] => Drawn(r) /\ CohortOf[q] = CohortOf[r]
      PROVE  ordering'[CohortOf[q]] = q /\ execution'[q].ordinal = counter'[CohortOf[q]]
  <2>1. Drawn(q) /\ ordering[CohortOf[q]] = q
    BY <1>2 DEF Drawn, Open, LockInv
  <2>2. counter'[CohortOf[q]] = counter[CohortOf[q]]
    BY <1>2, <2>1 DEF LockInv
  <2> QED BY <1>2, <2>1, <2>2 DEF Release, LockInv, ShadowTypeOK
<1>3. ASSUME NEW r \in Requests, CommitOrdinal(r) \/ AbortCompletion(r) \/ CompleteUnordered(r)
      PROVE  LockInv'
  <2>1. /\ Open(r) /\ Release(r) /\ ~Drawn(r)'
        /\ \A q \in Requests : q # r => execution'[q] = execution[q]
        /\ \A q \in Requests : counter'[CohortOf[q]] # counter[CohortOf[q]]
                                 => Drawn(r) /\ CohortOf[q] = CohortOf[r]
    BY <1>3 DEF CommitOrdinal, AbortCompletion, CompleteUnordered, Undraw, Drawn, Open, Running,
                ShadowTypeOK, Execution
  <2> QED BY <1>2, <2>1 DEF LockInv
<1>4. CASE Stays
  BY <1>4 DEF LockInv, Stays, Drawn, Open
<1> QED
  BY <1>1, <1>3, <1>4, OtherSteps DEF Completing

LEMMA TimeStep ==
  ASSUME ShadowTypeOK, TimeInv, [Next]_vars
  PROVE  TimeInv'
<1> USE ShadowAssumption
<1>1. ASSUME NEW r \in Requests, TakeOrdinal(r)
      PROVE  TimeInv'
  BY <1>1 DEF TakeOrdinal, Draw, TimeInv, ShadowTypeOK, Execution
<1>2. ASSUME NEW r \in Requests, CommitOrdinal(r)
      PROVE  TimeInv'
  BY <1>2 DEF CommitOrdinal, TimeInv, ShadowTypeOK, Execution
<1>3. ASSUME NEW r \in Requests, NEW completed \in BOOLEAN, Undraw(r, completed)
      PROVE  TimeInv'
  BY <1>3 DEF Undraw, Running, TimeInv, ShadowTypeOK, Execution
<1>4. CASE Stays
  BY <1>4 DEF Stays, TimeInv
<1> QED
  BY <1>1, <1>2, <1>3, <1>4, OtherSteps DEF Completing, AbortCompletion, CompleteUnordered

LEMMA OrderStep ==
  ASSUME ShadowTypeOK, LockInv, TimeInv, CohortOrdered, [Next]_vars
  PROVE  CohortOrdered'
<1> USE ShadowAssumption
<1>1. ASSUME NEW r \in Requests, TakeOrdinal(r)
      PROVE  CohortOrdered'
  <2> DEFINE c0 == CohortOf[r]
  <2>1. /\ c0 \in Cohorts /\ counter[c0] \in Nat /\ execution[r].ordinal = 0
        /\ counter' = [counter EXCEPT ![c0] = @ + 1]
        /\ execution'[r].ordinal = counter[c0] + 1
        /\ execution'[r].at = now' /\ now' >= now
        /\ \A q \in Requests : q # r => execution'[q] = execution[q]
    BY <1>1 DEF TakeOrdinal, Draw, Drawn, ShadowTypeOK, Execution
  <2>2. \A c \in Cohorts : Ordered(c)' = IF c = c0 THEN Ordered(c) \cup {r} ELSE Ordered(c)
    BY <2>1 DEF Ordered
  <2>3. \A c \in Cohorts : \A q \in Ordered(c) : execution[q].ordinal \in 1..counter[c] /\ q # r
    BY <2>1 DEF CohortOrdered, Ordered
  <2>4. ASSUME NEW c \in Cohorts
        PROVE  {execution'[q].ordinal : q \in Ordered(c)'} = 1..counter'[c]
    <3>1. CASE c # c0
      <4>1. Ordered(c)' = Ordered(c) /\ counter'[c] = counter[c]
        BY <2>1, <2>2, <3>1 DEF ShadowTypeOK
      <4>2. \A q \in Ordered(c) : execution'[q].ordinal = execution[q].ordinal
        BY <2>1, <2>3 DEF Ordered
      <4>3. {execution'[q].ordinal : q \in Ordered(c)'} = {execution[q].ordinal : q \in Ordered(c)}
        BY <4>1, <4>2
      <4> QED BY <4>1, <4>3 DEF CohortOrdered
    <3>2. CASE c = c0
      <4>1. counter'[c] = counter[c] + 1 /\ counter[c] \in Nat
        BY <2>1, <3>2 DEF ShadowTypeOK
      <4>2. \A q \in Ordered(c) : execution'[q].ordinal = execution[q].ordinal
        BY <2>1, <2>3 DEF Ordered
      <4>3. {execution'[q].ordinal : q \in Ordered(c)'}
              = {execution[q].ordinal : q \in Ordered(c)} \cup {counter[c] + 1}
        BY <2>1, <2>2, <3>2, <4>2
      <4>4. {execution[q].ordinal : q \in Ordered(c)} = 1..counter[c]
        BY DEF CohortOrdered
      <4> QED BY <4>1, <4>3, <4>4
    <3> QED BY <3>1, <3>2
  <2>5. ASSUME NEW c \in Cohorts, NEW p \in Ordered(c)', NEW q \in Ordered(c)',
               execution'[p].ordinal <= execution'[q].ordinal
        PROVE  /\ p = q \/ execution'[p].ordinal < execution'[q].ordinal
               /\ execution'[p].at <= execution'[q].at
    <3>1. p \in Requests /\ q \in Requests /\ now \in Int /\ now' \in Int
          /\ execution[p].at \in Int /\ execution[q].at \in Int
      BY <1>1 DEF Ordered, ShadowTypeOK, Execution, TakeOrdinal, Draw
    <3>2. CASE p # r /\ q # r
      <4>1. p \in Ordered(c) /\ q \in Ordered(c)
        BY <2>2, <3>2
      <4> QED BY <2>1, <2>5, <3>1, <3>2, <4>1 DEF CohortOrdered
    <3>3. CASE p = r /\ q # r
      <4>1. c = c0 /\ q \in Ordered(c)
        BY <2>2, <2>3, <3>3
      <4>2. execution'[q].ordinal \in 1..counter[c]
        BY <2>1, <2>3, <3>1, <3>3, <4>1
      <4> QED BY <2>1, <2>5, <3>3, <4>1, <4>2
    <3>4. CASE p # r /\ q = r
      <4>1. c = c0 /\ p \in Ordered(c)
        BY <2>2, <2>3, <3>4
      <4>2. execution'[p].ordinal \in 1..counter[c] /\ execution[p].at <= now
        BY <2>1, <2>3, <3>1, <3>4, <4>1 DEF TimeInv
      <4> QED BY <2>1, <3>1, <3>4, <4>1, <4>2
    <3>5. CASE p = r /\ q = r
      BY <2>1, <3>1, <3>5 DEF ShadowTypeOK
    <3> QED BY <3>2, <3>3, <3>4, <3>5
  <2> QED BY <2>4, <2>5 DEF CohortOrdered
<1>2. ASSUME NEW r \in Requests, CommitOrdinal(r)
      PROVE  CohortOrdered'
  <2>1. \A q \in Requests : /\ execution'[q].ordinal = execution[q].ordinal
                            /\ execution'[q].at = execution[q].at
    BY <1>2 DEF CommitOrdinal, ShadowTypeOK, Execution
  <2>2. \A c \in Cohorts : Ordered(c)' = Ordered(c) /\ Ordered(c) \subseteq Requests
    BY <2>1 DEF Ordered
  <2>3. counter' = counter
    BY <1>2 DEF CommitOrdinal
  <2>4. \A c \in Cohorts : {execution'[q].ordinal : q \in Ordered(c)'}
                             = {execution[q].ordinal : q \in Ordered(c)}
    BY <2>1, <2>2
  <2> QED BY <2>1, <2>2, <2>3, <2>4 DEF CohortOrdered
<1>3. ASSUME NEW r \in Requests, NEW completed \in BOOLEAN, Open(r), Undraw(r, completed)
      PROVE  CohortOrdered'
  <2> DEFINE c0 == CohortOf[r]
  <2>1. /\ c0 \in Cohorts /\ execution'[r].ordinal = 0
        /\ \A q \in Requests : q # r => execution'[q] = execution[q]
    BY <1>3 DEF Undraw, Running, ShadowTypeOK, Execution
  <2>2. \A c \in Cohorts : Ordered(c)' = Ordered(c) \ {r}
    BY <2>1 DEF Ordered
  <2>3. \A c \in Cohorts : \A q \in Ordered(c)' : execution'[q] = execution[q] /\ q \in Ordered(c)
    BY <2>1, <2>2 DEF Ordered
  <2>4. ASSUME NEW c \in Cohorts
        PROVE  {execution'[q].ordinal : q \in Ordered(c)'} = 1..counter'[c]
    <3>1. CASE r \notin Ordered(c)
      <4>1. ~ (Drawn(r) /\ c = c0)
        BY <3>1 DEF Ordered, Drawn
      <4>2. counter'[c] = counter[c]
        BY <1>3, <4>1 DEF Undraw, ShadowTypeOK
      <4>3. Ordered(c)' = Ordered(c)
        BY <2>2, <3>1
      <4> QED BY <2>3, <4>2, <4>3 DEF CohortOrdered
    <3>2. CASE r \in Ordered(c)
      <4>1. Drawn(r) /\ c = c0 /\ execution[r].ordinal = counter[c]
        BY <1>3, <3>2 DEF Ordered, Drawn, LockInv
      <4>2. counter'[c] = counter[c] - 1 /\ counter[c] \in Nat
        BY <1>3, <4>1 DEF Undraw, ShadowTypeOK
      <4>3. {execution[q].ordinal : q \in Ordered(c)} = 1..counter[c]
        BY DEF CohortOrdered
      <4>4. \A q \in Ordered(c) : q # r => execution[q].ordinal # counter[c]
        BY <3>2, <4>1, <4>2, <4>3 DEF CohortOrdered
      <4>5. {execution'[q].ordinal : q \in Ordered(c)'}
              = {execution[q].ordinal : q \in Ordered(c)} \ {counter[c]}
        BY <2>2, <2>3, <3>2, <4>1, <4>4
      <4> QED BY <4>2, <4>3, <4>5
    <3> QED BY <3>1, <3>2
  <2> QED BY <2>3, <2>4 DEF CohortOrdered
<1>4. CASE Stays
  BY <1>4 DEF Stays, CohortOrdered, Ordered
<1> QED
  BY <1>1, <1>2, <1>3, <1>4, OtherSteps DEF Completing, AbortCompletion, CompleteUnordered, Drawn

-----------------------------------------------------------------------------
LEMMA ClaimStep ==
  ASSUME ShadowTypeOK, ClaimInv, [Next]_vars
  PROVE  ClaimInv'
<1> USE ShadowAssumption
<1>1. ASSUME NEW r \in Requests, Completing(r)
      PROVE  ClaimInv'
  <2>1. job' = job \/ job' = [job EXCEPT ![r] = Unclaimed("pending")]
    BY <1>1 DEF Completing, TakeOrdinal, Draw, CommitOrdinal, AbortCompletion, CompleteUnordered,
                Undraw, queue
  <2> QED BY <2>1 DEF ClaimInv, Claimed, Unclaimed, ShadowTypeOK
<1>2. ASSUME NEW r \in Requests, Expire(r)
      PROVE  ClaimInv'
  BY <1>2 DEF Expire, ClaimInv, Claimed, ShadowTypeOK, Job
<1>3. ASSUME NEW w \in Workers, Aside(w)
      PROVE  ClaimInv'
  BY <1>3, AsideTyped DEF ClaimInv, Claimed
<1>4. ASSUME NEW w \in Workers, Acts(w)
      PROVE  ClaimInv'
  <2>1. ASSUME NEW r \in Requests, TakeClaim(w, r, "evaluating") \/ TakeClaim(w, r, "failing")
        PROVE  ClaimInv'
    BY <2>1 DEF TakeClaim, Retryable, ClaimedBy, ClaimInv, Claimed, ShadowTypeOK
  <2>2. ASSUME NEW r \in Requests, NEW state \in {"completed", "failed"},
               job' = [job EXCEPT ![r] = Ended(job[r], state)]
        PROVE  ClaimInv'
    BY <2>2 DEF Ended, ClaimInv, Claimed, ShadowTypeOK
  <2>3. CASE Evaluation(w)
    <3>1. worker[w].request \in Requests
      BY <2>3 DEF Evaluation, Owns, Doing, ShadowTypeOK
    <3>2. job' = [job EXCEPT ![worker[w].request] = Ended(job[worker[w].request], "completed")]
      BY <2>3 DEF Evaluation
    <3> QED BY <2>2, <3>1, <3>2
  <2>4. CASE EvaluationThrows(w)
    BY <2>4 DEF EvaluationThrows, ClaimInv, Claimed
  <2>5. CASE MarkFailed(w)
    <3>1. worker[w].request \in Requests
      BY <2>5 DEF MarkFailed, Doing, ShadowTypeOK
    <3>2. job' = job
          \/ job' = [job EXCEPT ![worker[w].request] = Ended(job[worker[w].request], "failed")]
      BY <2>5 DEF MarkFailed
    <3> QED BY <2>2, <3>1, <3>2 DEF ClaimInv, Claimed
  <2> QED BY <1>4, <2>1, <2>3, <2>4, <2>5 DEF Acts, Evaluate, EvaluateUnacknowledged
<1>5. CASE UNCHANGED vars
  BY <1>5 DEF ClaimInv, Claimed, vars, queue
<1> QED
  BY <1>1, <1>2, <1>3, <1>4, <1>5, StepCases

-----------------------------------------------------------------------------
(* A job was evaluated at most once for each attempt it has had, and whoever  *)
(* owns it has not evaluated it in its attempt.                               *)
AttemptsInv ==
  /\ \A r \in Requests : /\ evaluated[r] <= job[r].attempts
                         /\ job[r].state = "absent" => job[r].attempts = 0
  /\ \A w \in Workers : Owns(w) => evaluated[worker[w].request] < job[worker[w].request].attempts

LEMMA AttemptsStep ==
  ASSUME ShadowTypeOK, ClaimInv, AttemptsInv, [Next]_vars
  PROVE  AttemptsInv'
<1> USE ShadowAssumption
<1>1. ASSUME NEW r \in Requests, Completing(r)
      PROVE  AttemptsInv'
  <2>1. /\ UNCHANGED <<evaluated, worker>>
        /\ \/ job' = job
           \/ job[r].state = "absent" /\ job' = [job EXCEPT ![r] = Unclaimed("pending")]
    BY <1>1 DEF Completing, TakeOrdinal, Draw, CommitOrdinal, AbortCompletion, CompleteUnordered,
                Undraw, queue, Drawn, ShadowTypeOK
  <2>2. CASE job' = job
    BY <2>1, <2>2 DEF AttemptsInv, Owns, Doing
  <2>3. CASE job[r].state = "absent" /\ job' = [job EXCEPT ![r] = Unclaimed("pending")]
    <3>1. \A q \in Requests : job'[q].attempts = job[q].attempts
      BY <2>3 DEF AttemptsInv, Unclaimed, ShadowTypeOK
    <3>2. \A q \in Requests : job'[q].state = "absent" => job[q].state = "absent"
      BY <2>3 DEF Unclaimed, ShadowTypeOK
    <3>3. \A w \in Workers : Owns(w)' => Owns(w) /\ worker[w].request \in Requests
      BY <2>1, <2>3 DEF Owns, Doing, Unclaimed, ShadowTypeOK
    <3> QED BY <2>1, <3>1, <3>2, <3>3 DEF AttemptsInv
  <2> QED BY <2>1, <2>2, <2>3
<1>2. ASSUME NEW r \in Requests, Expire(r)
      PROVE  AttemptsInv'
  <2>1. /\ UNCHANGED <<evaluated, worker>>
        /\ \A q \in Requests : /\ job'[q].attempts = job[q].attempts
                               /\ job'[q].state = job[q].state
                               /\ job'[q].claim = job[q].claim
    BY <1>2 DEF Expire, ShadowTypeOK, Job
  <2>2. \A w \in Workers : Owns(w)' => Owns(w) /\ worker[w].request \in Requests
    BY <2>1 DEF Owns, Doing, ShadowTypeOK
  <2> QED BY <2>1, <2>2 DEF AttemptsInv
<1>3. ASSUME NEW w \in Workers, Aside(w)
      PROVE  AttemptsInv'
  <2>1. /\ UNCHANGED <<job, evaluated>> /\ ~Doing(w, "evaluating")'
        /\ \A v \in Workers : v # w => worker'[v] = worker[v]
    BY <1>3, AsideTyped
  <2>2. \A v \in Workers : Owns(v)' => Owns(v) /\ worker'[v] = worker[v]
    BY <2>1 DEF Owns, Doing
  <2> QED BY <2>1, <2>2 DEF AttemptsInv
<1>4. ASSUME NEW w \in Workers, NEW r \in Requests,
             TakeClaim(w, r, "evaluating") \/ TakeClaim(w, r, "failing")
      PROVE  AttemptsInv'
  <2>1. /\ UNCHANGED evaluated /\ worker'[w].request = r
        /\ \A v \in Workers : v # w => worker'[v] = worker[v]
        /\ job'[r].attempts = job[r].attempts + 1 /\ job'[r].claim = w
        /\ job'[r].state \in {"pending", "failed"}
        /\ \A q \in Requests : q # r => job'[q] = job[q]
    BY <1>4 DEF TakeClaim, Retryable, ClaimedBy, ShadowTypeOK, Work
  <2>2. evaluated[r] \in Nat /\ job[r].attempts \in Nat
    BY DEF ShadowTypeOK, Job
  <2>3. ASSUME NEW v \in Workers, Owns(v)'
        PROVE  evaluated'[worker'[v].request] < job'[worker'[v].request].attempts
    <3>1. CASE v = w
      BY <2>1, <2>2, <3>1 DEF AttemptsInv
    <3>2. CASE v # w
      BY <2>1, <2>3, <3>2 DEF AttemptsInv, Owns, Doing, ShadowTypeOK
    <3> QED BY <3>1, <3>2
  <2>4. \A q \in Requests : /\ evaluated'[q] <= job'[q].attempts
                            /\ job'[q].state = "absent" => job'[q].attempts = 0
    BY <2>1, <2>2 DEF AttemptsInv
  <2> QED BY <2>3, <2>4 DEF AttemptsInv
(* What ends an attempt takes its job from its owner, or its owner from it. *)
<1>5. ASSUME NEW w \in Workers, ~Doing(w, "evaluating")', NEW r \in Requests, r = worker[w].request,
             \A v \in Workers : v # w => worker'[v] = worker[v],
             \A q \in Requests : q # r => job'[q] = job[q] /\ evaluated'[q] = evaluated[q],
             job'[r].attempts = job[r].attempts, job'[r].state = "absent" => job[r].state = "absent",
             job'[r].claim \in {job[r].claim, NoWorker},
             \/ evaluated'[r] = evaluated[r]
             \/ Owns(w) /\ evaluated'[r] = evaluated[r] + 1
      PROVE  AttemptsInv'
  <2>1. evaluated[r] \in Nat /\ job[r].attempts \in Nat
    BY <1>5 DEF ShadowTypeOK, Job
  <2>2. evaluated'[r] <= job'[r].attempts
    BY <1>5, <2>1 DEF AttemptsInv
  <2>3. ASSUME NEW v \in Workers, Owns(v)'
        PROVE  evaluated'[worker'[v].request] < job'[worker'[v].request].attempts
    <3>1. v # w /\ worker'[v] = worker[v] /\ worker[v].request \in Requests
      BY <1>5, <2>3 DEF Owns, Doing, ShadowTypeOK
    <3>2. Owns(v)
      BY <1>5, <2>3, <3>1 DEF Owns, Doing
    <3>3. worker[v].request = r => job[r].claim = v /\ ~Owns(w)
      BY <1>5, <3>1, <3>2 DEF Owns
    <3> QED BY <1>5, <2>1, <3>1, <3>2, <3>3 DEF AttemptsInv
  <2> QED BY <1>5, <2>2, <2>3 DEF AttemptsInv
<1>6. ASSUME NEW w \in Workers,
             Evaluate(w) \/ EvaluateUnacknowledged(w) \/ EvaluationThrows(w) \/ MarkFailed(w)
      PROVE  AttemptsInv'
  <2> DEFINE r == worker[w].request
  <2>1. r \in Requests /\ job[r] \in Job
    BY <1>6 DEF Evaluate, EvaluateUnacknowledged, Evaluation, EvaluationThrows, Owns, MarkFailed,
                Doing, ShadowTypeOK
  <2>2. /\ ~Doing(w, "evaluating")'
        /\ \A v \in Workers : v # w => worker'[v] = worker[v]
    BY <1>6 DEF Evaluate, EvaluateUnacknowledged, EvaluationThrows, MarkFailed, Proceed, Idle,
                Doing, ShadowTypeOK, Work
  <2>3. CASE Evaluation(w)
    BY <1>5, <2>1, <2>2, <2>3, EndedTyped DEF Evaluation, ClaimInv, ShadowTypeOK
  <2>4. CASE EvaluationThrows(w)
    BY <1>5, <2>1, <2>2, <2>4 DEF EvaluationThrows, ShadowTypeOK
  <2>5. CASE MarkFailed(w)
    BY <1>5, <2>1, <2>2, <2>5, EndedTyped DEF MarkFailed, ShadowTypeOK
  <2> QED BY <1>6, <2>3, <2>4, <2>5 DEF Evaluate, EvaluateUnacknowledged
<1>7. CASE UNCHANGED vars
  BY <1>7 DEF AttemptsInv, vars, queue, Owns, Doing
<1> QED
  BY <1>1, <1>2, <1>3, <1>4, <1>6, <1>7, StepCases DEF Acts

-----------------------------------------------------------------------------
(* A committed ordinal is below that of whoever completes next, so that what  *)
(* a job is compared with is settled when its ordinal is.                     *)
LEMMA AsOfSettled ==
  ASSUME ShadowTypeOK, LockInv, CohortOrdered, [Next]_vars,
         NEW r \in Requests, execution[r].completed, execution[r].ordinal > 0
  PROVE  AsOf(r)' = AsOf(r)
<1> USE ShadowAssumption
<1>1. \A q \in Requests : execution[q] \in Execution
  BY DEF ShadowTypeOK
<1>2. ASSUME NEW p \in Requests, Completing(p)
      PROVE  AsOf(r)' = AsOf(r)
  <2>1. /\ ~execution[p].completed /\ p # r
        /\ \A q \in Requests : q # p => execution'[q] = execution[q]
    BY <1>2 DEF Completing, TakeOrdinal, Draw, CommitOrdinal, AbortCompletion, CompleteUnordered,
                Undraw, Drawn, Open, ShadowTypeOK
  <2>2. CohortOf[p] = CohortOf[r] /\ execution'[p].completed
        => execution'[p].ordinal \notin 1..execution[r].ordinal
    <3>1. CASE CommitOrdinal(p)
      <4>1. execution'[p].ordinal = execution[p].ordinal /\ execution[p].ordinal > 0
        BY <3>1 DEF CommitOrdinal, Drawn, ShadowTypeOK, Execution
      <4> SUFFICES ASSUME CohortOf[p] = CohortOf[r]
                   PROVE  execution[p].ordinal > execution[r].ordinal
        BY <1>1, <4>1 DEF Execution
      <4>2. execution[p].ordinal = counter[CohortOf[p]]
        BY <3>1 DEF CommitOrdinal, LockInv
      <4>3. CohortOf[p] \in Cohorts /\ p \in Ordered(CohortOf[p]) /\ r \in Ordered(CohortOf[p])
        BY <4>1 DEF Ordered
      <4>4. execution[r].ordinal \in 1..counter[CohortOf[p]]
        BY <4>3 DEF CohortOrdered
      <4>5. counter[CohortOf[p]] \in Nat
        BY <4>3 DEF ShadowTypeOK
      <4>6. execution[r].ordinal <= execution[p].ordinal
        BY <4>2, <4>4, <4>5
      <4>7. execution[r].ordinal < execution[p].ordinal
        BY <2>1, <4>3, <4>6 DEF CohortOrdered
      <4> QED BY <1>1, <4>7 DEF Execution
    <3>2. CASE CompleteUnordered(p)
      BY <3>2 DEF CompleteUnordered, Undraw, Running, ShadowTypeOK
    <3>3. CASE TakeOrdinal(p) \/ AbortCompletion(p)
      BY <3>3 DEF TakeOrdinal, Draw, AbortCompletion, Undraw, Running, ShadowTypeOK
    <3> QED BY <1>2, <3>1, <3>2, <3>3 DEF Completing
  <2> QED BY <2>1, <2>2 DEF AsOf
<1>3. CASE Stays
  BY <1>3 DEF AsOf, Stays
<1> QED
  BY <1>2, <1>3, OtherSteps

LEMMA EvidenceStep ==
  ASSUME ShadowTypeOK, LockInv, ClaimInv, CohortOrdered, EvidenceCanonical, [Next]_vars
  PROVE  EvidenceCanonical'
<1> USE ShadowAssumption
<1>1. \A r \in Requests : evidence[r] # {} => AsOf(r)' = AsOf(r)
  BY AsOfSettled DEF EvidenceCanonical, ShadowTypeOK, Open
<1>2. ASSUME evidence' = evidence,
             \A r \in Requests : job'[r].state = "completed" <=> job[r].state = "completed"
      PROVE  EvidenceCanonical'
  BY <1>1, <1>2 DEF EvidenceCanonical
<1>3. ASSUME NEW r \in Requests, Completing(r)
      PROVE  EvidenceCanonical'
  <2>1. /\ evidence' = evidence
        /\ \/ job' = job
           \/ job[r].state = "absent" /\ job' = [job EXCEPT ![r] = Unclaimed("pending")]
    BY <1>3 DEF Completing, TakeOrdinal, Draw, CommitOrdinal, AbortCompletion, CompleteUnordered,
                Undraw, queue, Drawn, ShadowTypeOK
  <2> QED BY <1>2, <2>1 DEF Unclaimed, ShadowTypeOK
<1>4. ASSUME NEW r \in Requests, Expire(r)
      PROVE  EvidenceCanonical'
  BY <1>2, <1>4 DEF Expire, ShadowTypeOK, Job
<1>5. ASSUME NEW w \in Workers, Aside(w)
      PROVE  EvidenceCanonical'
  <2>1. UNCHANGED <<job, evidence>>
    BY <1>5, AsideTyped
  <2> QED BY <1>2, <2>1
<1>6. ASSUME NEW w \in Workers, Acts(w)
      PROVE  EvidenceCanonical'
  <2>1. ASSUME NEW r \in Requests, TakeClaim(w, r, "evaluating") \/ TakeClaim(w, r, "failing")
        PROVE  EvidenceCanonical'
    <3>1. /\ evidence' = evidence
          /\ job' = [job EXCEPT ![r] = ClaimedBy(w, job[r])]
          /\ job[r].state \in {"pending", "failed"}
      BY <2>1 DEF TakeClaim, Retryable, ShadowTypeOK
    <3> QED BY <1>2, <3>1 DEF ClaimedBy, ShadowTypeOK
  <2>2. CASE Evaluation(w)
    <3>0. PICK r \in Requests : r = worker[w].request
      BY <2>2 DEF Evaluation, Owns, Doing, ShadowTypeOK
    <3>1. r \in Requests /\ job[r].state \in {"pending", "failed"}
      BY <2>2, <3>0 DEF Evaluation, Owns, Doing, ClaimInv, ShadowTypeOK
    <3>2. execution[r].completed /\ execution[r].ordinal > 0
      BY <3>1 DEF ShadowTypeOK, Open
    <3>3. r \in AsOf(r)
      <4>1. execution[r] \in Execution /\ Window \in Nat
        BY <3>1 DEF ShadowTypeOK
      <4> QED BY <3>1, <3>2, <4>1 DEF AsOf, Execution
    <3>4. AsOf(r)' = AsOf(r)
      BY <3>1, <3>2, AsOfSettled
    <3>5. evidence[r] = {}
      BY <3>1 DEF EvidenceCanonical
    <3>6. /\ evidence' = [evidence EXCEPT ![r] = AsOf(r)]
          /\ job' = [job EXCEPT ![r] = Ended(job[r], "completed")]
      BY <2>2, <3>0, <3>1, <3>5 DEF Evaluation, ShadowTypeOK
    <3>7. \A q \in Requests : q # r => evidence'[q] = evidence[q] /\ job'[q] = job[q]
      BY <3>6 DEF ShadowTypeOK
    <3>8. evidence'[r] = AsOf(r) /\ job'[r].state = "completed"
      BY <3>1, <3>6 DEF ShadowTypeOK, Ended
    <3> QED BY <1>1, <3>3, <3>4, <3>7, <3>8 DEF EvidenceCanonical
  <2>3. CASE EvaluationThrows(w)
    BY <1>2, <2>3 DEF EvaluationThrows
  <2>4. CASE MarkFailed(w)
    <3>1. /\ evidence' = evidence /\ worker[w].request \in Requests
          /\ \/ job' = job
             \/ /\ Failable(w)
                /\ job' = [job EXCEPT ![worker[w].request] = Ended(job[worker[w].request], "failed")]
      BY <2>4 DEF MarkFailed, Doing, ShadowTypeOK
    <3> QED BY <1>2, <3>1 DEF Failable, Ended, ShadowTypeOK
  <2> QED BY <1>6, <2>1, <2>2, <2>3, <2>4 DEF Acts, Evaluate, EvaluateUnacknowledged
<1>7. CASE UNCHANGED vars
  BY <1>2, <1>7 DEF vars, queue
<1> QED
  BY <1>3, <1>4, <1>5, <1>6, <1>7, StepCases

-----------------------------------------------------------------------------
(* The inductive invariant. *)
ShadowInv ==
  /\ ShadowTypeOK /\ LockInv /\ ClaimInv /\ TimeInv
  /\ CohortOrdered /\ EvidenceCanonical /\ AttemptsInv

LEMMA ShadowInit ==
  Init => ShadowInv
<1> SUFFICES ASSUME Init PROVE ShadowInv
  OBVIOUS
<1> USE ShadowAssumption
<1>1. ShadowTypeOK
  BY DEF Init, ShadowTypeOK, Running, Execution, Unclaimed, Job, Idle, Work, Open
<1>2. LockInv /\ ClaimInv /\ TimeInv
  BY DEF Init, LockInv, ClaimInv, Claimed, TimeInv, Drawn, Running, Unclaimed
<1>3. CohortOrdered
  <2>1. \A c \in Cohorts : Ordered(c) = {} /\ counter[c] = 0
    BY DEF Init, Ordered, Running
  <2> QED BY <2>1 DEF CohortOrdered
<1>4. EvidenceCanonical /\ AttemptsInv
  BY DEF Init, EvidenceCanonical, AttemptsInv, Unclaimed, Idle, Owns, Doing
<1> QED BY <1>1, <1>2, <1>3, <1>4 DEF ShadowInv

LEMMA ShadowInvariant == Spec => []ShadowInv
<1>1. ShadowInv /\ [Next]_vars => ShadowInv'
  BY TypeStep, LockStep, ClaimStep, TimeStep, OrderStep, EvidenceStep, AttemptsStep DEF ShadowInv
<1> QED BY <1>1, ShadowInit, PTL DEF Spec

(* Rows and workers keep their types, and only an execution that committed    *)
(* with an ordinal has a job.                                                *)
THEOREM ShadowTypeCorrect == Spec => []ShadowTypeOK
<1>1. ShadowInv => ShadowTypeOK
  BY DEF ShadowInv
<1> QED BY <1>1, ShadowInvariant, PTL

(* However many executions of a cohort complete at once, and whatever rolls    *)
(* back, its ordinals are 1 to its counter, each once, in the order of time.   *)
THEOREM CohortsStayOrdered == Spec => []CohortOrdered
<1>1. ShadowInv => CohortOrdered
  BY DEF ShadowInv
<1> QED BY <1>1, ShadowInvariant, PTL

(* Evidence does not depend on when a job was evaluated, nor by whom.          *)
THEOREM EvidenceStaysCanonical == Spec => []EvidenceCanonical
<1>1. ShadowInv => EvidenceCanonical
  BY DEF ShadowInv
<1> QED BY <1>1, ShadowInvariant, PTL

(* No job is evaluated more often than MaxAttempts, by however many workers.   *)
THEOREM AttemptsBounded == Spec => []AttemptsBound
<1>1. ShadowInv => AttemptsBound
  BY ShadowAssumption DEF ShadowInv, AttemptsInv, AttemptsBound, ShadowTypeOK, Job
<1> QED BY <1>1, ShadowInvariant, PTL

(* A worker that lost its claim changes nothing, and nobody changes a job that *)
(* is done.                                                                   *)
THEOREM StaleWorkersHarmless == Spec => StaleWorkersChangeNothing
<1> DEFINE Kept(r) ==
      /\ Claimed(r) /\ job'[r] # job[r]
           => \/ worker'[job[r].claim] # worker[job[r].claim]
              \/ job'[r] = [job[r] EXCEPT !.lease = "over"]
      /\ job[r].state = "completed" => job'[r] = job[r]
<1>1. ASSUME ShadowInv, [Next]_vars, NEW r \in Requests
      PROVE  Kept(r)
  <2> USE ShadowAssumption
  <2>1. CASE job'[r] = job[r]
    BY <2>1
  <2>2. ASSUME NEW q \in Requests, Completing(q), job'[r] # job[r]
        PROVE  Kept(r)
    <3>1. job[r].state = "absent"
      BY <1>1, <2>2 DEF Completing, TakeOrdinal, Draw, CommitOrdinal, AbortCompletion,
              CompleteUnordered, Undraw, queue, Drawn, ShadowInv, ShadowTypeOK
    <3> QED BY <1>1, <3>1 DEF ShadowInv, ClaimInv
  <2>3. ASSUME NEW q \in Requests, Expire(q), job'[r] # job[r]
        PROVE  Kept(r)
    <3>1. q = r /\ job'[r] = [job[r] EXCEPT !.lease = "over"] /\ Claimed(r)
      BY <1>1, <2>3 DEF Expire, ShadowInv, ShadowTypeOK
    <3> QED BY <1>1, <3>1 DEF ShadowInv, ClaimInv
  <2>4. ASSUME NEW w \in Workers, Aside(w)
        PROVE  Kept(r)
    BY <1>1, <2>4, AsideTyped DEF ShadowInv
  <2>5. ASSUME NEW w \in Workers, Acts(w), job'[r] # job[r]
        PROVE  Kept(r)
    <3>1. ASSUME NEW q \in Requests, TakeClaim(w, q, "evaluating") \/ TakeClaim(w, q, "failing")
          PROVE  Kept(r)
      BY <1>1, <2>5, <3>1 DEF TakeClaim, Retryable, ShadowInv, ShadowTypeOK
    <3>2. CASE Evaluate(w) \/ EvaluateUnacknowledged(w)
      <4>1. worker[w].request = r /\ job[r].claim = w /\ worker[w].stage = "evaluating"
        BY <1>1, <2>5, <3>2
           DEF Evaluate, EvaluateUnacknowledged, Evaluation, Owns, Doing, ShadowInv, ShadowTypeOK
      <4>2. worker'[w].stage # "evaluating"
        BY <1>1, <3>2 DEF Evaluate, EvaluateUnacknowledged, Proceed, Idle, ShadowInv, ShadowTypeOK,
                    Work
      <4> QED BY <1>1, <4>1, <4>2 DEF ShadowInv, ClaimInv
    <3>3. CASE EvaluationThrows(w)
      BY <2>5, <3>3 DEF EvaluationThrows
    <3>4. CASE MarkFailed(w)
      <4>1. /\ worker[w].request = r /\ job[r].claim = w /\ job[r].state # "completed"
            /\ worker[w].stage = "failing"
        BY <1>1, <2>5, <3>4 DEF MarkFailed, Failable, Doing, ShadowInv, ShadowTypeOK
      <4>2. worker'[w].stage # "failing"
        BY <1>1, <3>4 DEF MarkFailed, Proceed, Idle, ShadowInv, ShadowTypeOK
      <4> QED BY <4>1, <4>2
    <3> QED BY <2>5, <3>1, <3>2, <3>3, <3>4 DEF Acts
  <2>6. CASE UNCHANGED vars
    BY <2>6 DEF vars, queue
  <2> QED BY <1>1, <2>1, <2>2, <2>3, <2>4, <2>5, <2>6, StepCases
<1>2. ShadowInv /\ [Next]_vars => [\A r \in Requests : Kept(r)]_vars
  BY <1>1
<1> QED BY <1>2, ShadowInvariant, PTL DEF Spec, StaleWorkersChangeNothing

-----------------------------------------------------------------------------
(* Of finitely many branches, and of any, one spent least; amounts are bounded, *)
(* so one spent most.                                                          *)
LEMMA LeastOf ==
  ASSUME NEW S, S # {}, NEW f, \A x \in S : f[x] \in Nat
  PROVE  \E x \in S : \A y \in S : f[x] <= f[y]
<1> DEFINE T == {f[x] : x \in S}
<1>1. T \subseteq Nat /\ T # {}
  OBVIOUS
<1>2. PICK m \in T : \A n \in T : ~(<<n, m>> \in OpToRel(<, Nat))
  BY <1>1, NatLessThanWellFounded, WFMin, Zenon
<1>3. \A n \in T : ~(n < m)
  BY <1>1, <1>2, Zenon DEF OpToRel
<1>4. PICK x \in S : m = f[x]
  BY <1>2
<1>5. \A y \in S : f[x] <= f[y]
  BY <1>3, <1>4
<1> QED
  BY <1>5

LEMMA MostOf ==
  ASSUME NEW S, S # {}, NEW f, \A x \in S : f[x] \in Amount
  PROVE  \E x \in S : \A y \in S : f[x] >= f[y]
<1> DEFINE g == [x \in S |-> MaxAmount - f[x]]
<1>1. \A x \in S : g[x] \in Nat /\ f[x] \in Nat /\ g[x] = MaxAmount - f[x]
  BY MaxAmountAssumption DEF Amount
<1> HIDE DEF g
<1>2. PICK x \in S : \A y \in S : g[x] <= g[y]
  BY <1>1, LeastOf
<1>3. \A y \in S : f[x] >= f[y]
  BY <1>1, <1>2, MaxAmountAssumption
<1> QED
  BY <1>3

(* A product of natural numbers is one, grows with its factors and can be       *)
(* compared by one of them; a quotient is compared by cross-multiplication.    *)
LEMMA ProductNat ==
  ASSUME NEW a \in Nat, NEW b \in Nat
  PROVE  a * b \in Nat
OBVIOUS

LEMMA ProductMonotone ==
  ASSUME NEW a \in Nat, NEW b \in Nat, NEW k \in Nat, a <= b
  PROVE  a * k <= b * k /\ k * a <= k * b
OBVIOUS

LEMMA ProductCancel ==
  ASSUME NEW a \in Nat, NEW b \in Nat, NEW k \in Nat \ {0}, a * k <= b * k
  PROVE  a <= b
OBVIOUS

LEMMA ProductPositive ==
  ASSUME NEW a \in Nat \ {0}, NEW b \in Nat \ {0}
  PROVE  a * b \in Nat \ {0}
OBVIOUS

LEMMA QuotientAtLeast ==
  ASSUME NEW a \in Nat, NEW d \in Nat \ {0}, NEW t \in Nat
  PROVE  a \div d \in Nat /\ (a \div d >= t <=> a >= t * d)
OBVIOUS

-----------------------------------------------------------------------------
(* A window as it is grouped: finitely many branches, each with an observation. *)
WindowOK(w) == IsFiniteSet(DOMAIN w) /\ w \in [DOMAIN w -> Observation]

LEMMA SpendsBounded ==
  ASSUME NEW w, WindowOK(w), NEW b \in DOMAIN w
  PROVE  w[b].spend \in Amount /\ w[b].spend \in Nat /\ w[b].count \in Nat
<1>1. w[b] \in Observation
  BY DEF WindowOK
<1> QED
  BY <1>1, MaxAmountAssumption DEF Observation, Amount

(* One branch of a window spends something else. *)
LEMMA SpendingOK ==
  ASSUME NEW w, WindowOK(w), NEW b \in DOMAIN w, NEW spend \in Amount
  PROVE  /\ WindowOK(Spending(w, b, spend)) /\ DOMAIN Spending(w, b, spend) = DOMAIN w
         /\ Spending(w, b, spend)[b].spend = spend
         /\ \A d \in DOMAIN w : Spending(w, b, spend)[d].count = w[d].count
         /\ \A d \in DOMAIN w \ {b} : Spending(w, b, spend)[d].spend = w[d].spend
<1> DEFINE v == Spending(w, b, spend)
<1>1. DOMAIN v = DOMAIN w
  BY DEF Spending
<1>2. \A d \in DOMAIN w : w[d] \in [spend : Amount, count : Nat]
  BY DEF WindowOK, Observation
<1>3. v[b] = [w[b] EXCEPT !.spend = spend]
  BY DEF Spending
<1>4. \A d \in DOMAIN w \ {b} : v[d] = w[d]
  BY DEF Spending
<1>5. v[b].spend = spend /\ v[b].count = w[b].count /\ v[b] \in [spend : Amount, count : Nat]
  BY <1>2, <1>3
<1>6. \A d \in DOMAIN w : v[d] \in [spend : Amount, count : Nat]
  BY <1>2, <1>4, <1>5
<1>7. v = [d \in DOMAIN w |-> v[d]]
  BY DEF Spending
<1>8. v \in [DOMAIN w -> Observation]
  BY <1>6, <1>7 DEF Observation
<1>9. WindowOK(v)
  BY <1>1, <1>8 DEF WindowOK
<1> QED
  BY <1>1, <1>4, <1>5, <1>9

LEMMA SpendOfNat ==
  ASSUME NEW w, NEW S, IsFiniteSet(S)
  PROVE  SpendOf(w, S) \in Nat
BY UnitsFinite DEF SpendOf

LEMMA SpendOfRemove ==
  ASSUME NEW w, WindowOK(w), NEW S \in SUBSET DOMAIN w, NEW b \in S
  PROVE  SpendOf(w, S) = SpendOf(w, S \ {b}) + w[b].spend
<1> DEFINE f == [d \in S |-> w[d].spend]
           g == [d \in S \ {b} |-> w[d].spend]
<1>1. IsFiniteSet(S)
  BY FS_Subset DEF WindowOK
<1>2. f[b] \in Amount /\ f[b] = w[b].spend
  BY SpendsBounded
<1>3. \A d \in S \ {b} : f[d] = g[d]
  OBVIOUS
<1>4. SpendOf(w, S) = Total(f, S) /\ SpendOf(w, S \ {b}) = Total(g, S \ {b})
  BY DEF SpendOf
<1> HIDE DEF f, g
<1>5. Total(f, S) = Total(f, S \ {b}) + f[b]
  BY <1>1, <1>2, TotalRemove
<1>6. Total(f, S \ {b}) = Total(g, S \ {b})
  BY <1>3, TotalAgree
<1> QED
  BY <1>2, <1>4, <1>5, <1>6

LEMMA SpendOfAgree ==
  ASSUME NEW w, NEW v, NEW S, \A d \in S : w[d].spend = v[d].spend
  PROVE  SpendOf(w, S) = SpendOf(v, S)
<1>1. [d \in S |-> w[d].spend] = [d \in S |-> v[d].spend]
  OBVIOUS
<1> QED
  BY <1>1 DEF SpendOf

LEMMA SpendOfSpending ==
  ASSUME NEW w, WindowOK(w), NEW S \in SUBSET DOMAIN w, NEW b \in S, NEW spend \in Amount
  PROVE  SpendOf(Spending(w, b, spend), S) = SpendOf(w, S) - w[b].spend + spend
<1> DEFINE v == Spending(w, b, spend)
<1>1. /\ WindowOK(v) /\ DOMAIN v = DOMAIN w /\ v[b].spend = spend
      /\ \A d \in S \ {b} : v[d].spend = w[d].spend
  BY SpendingOK
<1> HIDE DEF v
<1>2. SpendOf(v, S \ {b}) = SpendOf(w, S \ {b})
  BY <1>1, SpendOfAgree
<1>3. SpendOf(v, S) = SpendOf(v, S \ {b}) + spend
  BY <1>1, SpendOfRemove
<1>4. SpendOf(w, S) = SpendOf(w, S \ {b}) + w[b].spend
  BY SpendOfRemove
<1>5. SpendOf(w, S \ {b}) \in Nat /\ w[b].spend \in Nat /\ spend \in Nat
  BY SpendOfNat, SpendsBounded, FS_Subset, MaxAmountAssumption DEF WindowOK, Amount
<1>6. SpendOf(v, S) = SpendOf(w, S) - w[b].spend + spend
  BY <1>2, <1>3, <1>4, <1>5
<1> QED
  BY <1>6 DEF v

(* From five siblings on two are left out, one that no sibling spent less than   *)
(* and one that none spent more than.                                          *)
Ends(w, S, lowest, highest) ==
  /\ lowest \in S /\ highest \in S /\ lowest # highest
  /\ \A d \in S : w[lowest].spend <= w[d].spend /\ w[d].spend <= w[highest].spend
  /\ Trimmed(w, S) = S \ {lowest, highest}
  /\ Cardinality(Trimmed(w, S)) = Cardinality(S) - 2
  /\ SpendOf(w, Trimmed(w, S)) = SpendOf(w, S) - w[lowest].spend - w[highest].spend

LEMMA TrimmedEnds ==
  ASSUME NEW w, WindowOK(w), NEW S \in SUBSET DOMAIN w, Cardinality(S) >= 5
  PROVE  \E lowest, highest \in S : Ends(w, S, lowest, highest)
<1> DEFINE lowest == CHOOSE b \in S : \A d \in S : w[b].spend <= w[d].spend
           highest == CHOOSE b \in S \ {lowest} : \A d \in S : w[b].spend >= w[d].spend
           spent == [d \in S |-> w[d].spend]
<1>1. IsFiniteSet(S) /\ Cardinality(S) \in Nat /\ S # {}
  BY FS_Subset, FS_CardinalityType, FS_EmptySet DEF WindowOK
<1>2. \A d \in S : spent[d] = w[d].spend /\ spent[d] \in Amount /\ spent[d] \in Nat
  BY SpendsBounded
<1>3. lowest \in S /\ \A d \in S : w[lowest].spend <= w[d].spend
  <2> HIDE DEF spent
  <2>1. PICK b \in S : \A d \in S : spent[b] <= spent[d]
    BY <1>1, <1>2, LeastOf
  <2>2. \A d \in S : w[b].spend <= w[d].spend
    BY <1>2, <2>1
  <2> QED
    BY <2>2
<1>4. ~(Cardinality(S) < 5)
  BY <1>1
<1>5. Trimmed(w, S) = S \ {lowest, highest}
  BY <1>4 DEF Trimmed
<1> HIDE DEF lowest
<1>6. /\ IsFiniteSet(S \ {lowest}) /\ Cardinality(S \ {lowest}) = Cardinality(S) - 1
      /\ S \ {lowest} # {}
  <2>1. IsFiniteSet(S \ {lowest}) /\ Cardinality(S \ {lowest}) = Cardinality(S) - 1
    BY <1>1, <1>3, FS_RemoveElement
  <2>2. Cardinality(S \ {lowest}) # 0
    BY <1>1, <2>1
  <2> QED
    BY <2>1, <2>2, FS_EmptySet
<1>7. highest \in S \ {lowest} /\ \A d \in S : w[highest].spend >= w[d].spend
  <2> HIDE DEF spent
  <2>1. PICK b \in S \ {lowest} : \A d \in S \ {lowest} : spent[b] >= spent[d]
    BY <1>2, <1>6, MostOf
  <2>2. \A d \in S \ {lowest} : w[b].spend >= w[d].spend
    BY <1>2, <2>1
  <2>3. w[b].spend >= w[lowest].spend
    BY <1>2, <1>3
  <2>4. \A d \in S : w[b].spend >= w[d].spend
    BY <2>2, <2>3
  <2> QED
    BY <2>4
<1> HIDE DEF highest, spent
<1>8. \A d \in S : w[lowest].spend <= w[d].spend /\ w[d].spend <= w[highest].spend
  BY <1>2, <1>3, <1>7
<1>9. S \ {lowest, highest} = (S \ {lowest}) \ {highest}
  OBVIOUS
<1>10. Cardinality(S \ {lowest, highest}) = Cardinality(S) - 2
  <2>1. Cardinality((S \ {lowest}) \ {highest}) = Cardinality(S \ {lowest}) - 1
    BY <1>6, <1>7, FS_RemoveElement
  <2>2. Cardinality(S \ {lowest, highest}) = Cardinality((S \ {lowest}) \ {highest})
    BY <1>9, Zenon
  <2> QED
    BY <1>1, <1>6, <2>1, <2>2
<1>11. SpendOf(w, S \ {lowest, highest}) = SpendOf(w, S) - w[lowest].spend - w[highest].spend
  <2>1. SpendOf(w, S) = SpendOf(w, S \ {lowest}) + w[lowest].spend
    BY <1>3, SpendOfRemove
  <2>2. SpendOf(w, S \ {lowest}) = SpendOf(w, S \ {lowest, highest}) + w[highest].spend
    <3>1. S \ {lowest} \in SUBSET DOMAIN w
      OBVIOUS
    <3> QED
      BY <1>7, <1>9, <3>1, SpendOfRemove
  <2>3. SpendOf(w, S \ {lowest, highest}) \in Nat
    BY <1>1, FS_Subset, SpendOfNat
  <2>4. w[lowest].spend \in Nat /\ w[highest].spend \in Nat
    BY <1>2, <1>3, <1>7
  <2> QED
    BY <2>1, <2>2, <2>3, <2>4
<1>12. Ends(w, S, lowest, highest)
  BY <1>3, <1>5, <1>7, <1>8, <1>10, <1>11 DEF Ends
<1> QED
  BY <1>3, <1>7, <1>12

(* A sibling that spends less lowers what is kept, and changes not how many are. *)
LEMMA SpendingLess ==
  ASSUME NEW w, WindowOK(w), NEW S \in SUBSET DOMAIN w, NEW b \in S,
         NEW spend \in Amount, spend <= w[b].spend
  PROVE  LET v == Spending(w, b, spend)
         IN /\ Cardinality(Trimmed(v, S)) = Cardinality(Trimmed(w, S))
            /\ SpendOf(v, Trimmed(v, S)) <= SpendOf(w, Trimmed(w, S))
<1> DEFINE v == Spending(w, b, spend)
<1>1. /\ WindowOK(v) /\ DOMAIN v = DOMAIN w /\ v[b].spend = spend
      /\ \A d \in S \ {b} : v[d].spend = w[d].spend
  BY SpendingOK
<1>2. SpendOf(v, S) = SpendOf(w, S) - w[b].spend + spend
  BY SpendOfSpending
<1>3. \A d \in S : w[d].spend \in Nat /\ v[d].spend \in Nat
  BY <1>1, SpendsBounded
<1>4. SpendOf(w, S) \in Nat /\ IsFiniteSet(S) /\ Cardinality(S) \in Nat
  BY FS_Subset, SpendOfNat, FS_CardinalityType DEF WindowOK
<1> HIDE DEF v
<1>5. CASE Cardinality(S) < 5
  <2>1. Trimmed(w, S) = S /\ Trimmed(v, S) = S
    BY <1>5 DEF Trimmed
  <2> QED
    BY <1>1, <1>2, <1>3, <1>4, <2>1 DEF v
<1>6. CASE Cardinality(S) >= 5
  <2>1. PICK l \in S, h \in S : Ends(w, S, l, h)
    BY <1>6, TrimmedEnds
  <2>2. PICK k \in S, g \in S : Ends(v, S, k, g)
    BY <1>1, <1>6, TrimmedEnds
  <2>3. Cardinality(Trimmed(v, S)) = Cardinality(Trimmed(w, S))
    BY <2>1, <2>2 DEF Ends
  <2>4. /\ w[l].spend <= w[k].spend /\ w[l].spend <= w[g].spend
        /\ w[l].spend <= w[b].spend /\ v[b].spend <= v[g].spend
        /\ v[h].spend <= v[g].spend /\ k # g
    BY <2>1, <2>2 DEF Ends
  <2>5. w[l].spend + w[h].spend + spend <= w[b].spend + v[k].spend + v[g].spend
    <3>1. CASE b = k
      BY <1>1, <1>3, <2>4, <3>1
    <3>2. CASE b = g
      BY <1>1, <1>3, <2>4, <3>2
    <3>3. CASE b # k /\ b # g
      BY <1>1, <1>3, <2>4, <3>3
    <3> QED
      BY <3>1, <3>2, <3>3
  <2>6. SpendOf(v, Trimmed(v, S)) <= SpendOf(w, Trimmed(w, S))
    <3>1. /\ SpendOf(w, Trimmed(w, S)) = SpendOf(w, S) - w[l].spend - w[h].spend
          /\ SpendOf(v, Trimmed(v, S)) = SpendOf(v, S) - v[k].spend - v[g].spend
      BY <2>1, <2>2 DEF Ends
    <3> QED
      BY <1>1, <1>2, <1>3, <1>4, <2>5, <3>1
  <2> QED
    BY <2>3, <2>6 DEF v
<1> QED
  BY <1>4, <1>5, <1>6

(* Among five siblings or more, one that outspends the others changes nothing by *)
(* spending more: it is left out before and after.                             *)
LEMMA OutspendingTrimmed ==
  ASSUME NEW w, WindowOK(w), NEW S \in SUBSET DOMAIN w, NEW b \in S,
         NEW spend \in Amount, spend >= w[b].spend,
         Cardinality(S) >= 5, \A d \in S : w[d].spend <= w[b].spend
  PROVE  LET v == Spending(w, b, spend)
         IN /\ Cardinality(Trimmed(v, S)) = Cardinality(Trimmed(w, S))
            /\ SpendOf(v, Trimmed(v, S)) = SpendOf(w, Trimmed(w, S))
<1> DEFINE v == Spending(w, b, spend)
<1>1. /\ WindowOK(v) /\ DOMAIN v = DOMAIN w /\ v[b].spend = spend
      /\ \A d \in S \ {b} : v[d].spend = w[d].spend
  BY SpendingOK
<1>2. SpendOf(v, S) = SpendOf(w, S) - w[b].spend + spend
  BY SpendOfSpending
<1>3. \A d \in S : w[d].spend \in Nat /\ v[d].spend \in Nat
  BY <1>1, SpendsBounded
<1>4. SpendOf(w, S) \in Nat
  BY FS_Subset, SpendOfNat DEF WindowOK
<1> HIDE DEF v
<1>5. PICK l \in S, h \in S : Ends(w, S, l, h)
  BY TrimmedEnds
<1>6. PICK k \in S, g \in S : Ends(v, S, k, g)
  BY <1>1, TrimmedEnds
<1>7. Cardinality(Trimmed(v, S)) = Cardinality(Trimmed(w, S))
  BY <1>5, <1>6 DEF Ends
<1>8. /\ w[b].spend <= w[h].spend /\ v[b].spend <= v[g].spend
      /\ w[l].spend <= w[k].spend /\ w[l].spend <= w[h].spend
      /\ v[k].spend <= v[l].spend /\ v[k].spend <= v[h].spend /\ l # h
  BY <1>5, <1>6 DEF Ends
<1>9. w[h].spend = w[b].spend
  BY <1>3, <1>8
<1>10. v[g].spend = spend
  <2>1. w[g].spend <= w[b].spend
    OBVIOUS
  <2> QED
    BY <1>1, <1>3, <1>8, <2>1
<1>11. v[k].spend = w[l].spend
  <2>1. w[l].spend <= v[k].spend
    <3>1. w[l].spend <= w[b].spend /\ w[b].spend <= spend
      OBVIOUS
    <3>2. CASE k = b
      BY <1>1, <1>3, <3>1, <3>2
    <3>3. CASE k # b
      BY <1>1, <1>8, <3>3
    <3> QED
      BY <3>2, <3>3
  <2>2. v[k].spend <= w[l].spend
    <3>1. CASE l = b
      <4>1. v[h].spend = w[h].spend
        BY <1>1, <1>8, <3>1
      <4> QED
        BY <1>8, <1>9, <3>1, <4>1
    <3>2. CASE l # b
      BY <1>1, <1>8, <3>2
    <3> QED
      BY <3>1, <3>2
  <2> QED
    BY <1>3, <2>1, <2>2
<1>12. SpendOf(v, Trimmed(v, S)) = SpendOf(w, Trimmed(w, S))
  <2>1. /\ SpendOf(w, Trimmed(w, S)) = SpendOf(w, S) - w[l].spend - w[h].spend
        /\ SpendOf(v, Trimmed(v, S)) = SpendOf(v, S) - v[k].spend - v[g].spend
    BY <1>5, <1>6 DEF Ends
  <2>2. spend \in Nat
    BY <1>1, <1>3
  <2> QED
    BY <1>2, <1>3, <1>4, <1>9, <1>10, <1>11, <2>1, <2>2
<1> QED
  BY <1>7, <1>12 DEF v

-----------------------------------------------------------------------------
(* What the signals of an evaluation are read from. *)
KeptSiblings(c, w) == Trimmed(w, Comparable(c, w))

KeptSpend(c, w) == SpendOf(w, KeptSiblings(c, w))

Numerator(c, w) ==
  Cardinality(Comparable(c, w)) * KeptSpend(c, w)
    + c.confidence * c.prior * Cardinality(KeptSiblings(c, w))

Denominator(c, w) ==
  (Cardinality(Comparable(c, w)) + c.confidence) * Cardinality(KeptSiblings(c, w))

IsScored(c, w, o) == ~(o.count < c.minimum) /\ ~(Cardinality(Comparable(c, w)) < c.scoring)

AllSignals == {"SIBLING_DIVERGENCE", "CLASS_PRIOR_EXCEEDED", "CORRELATED_COHORT_SHIFT"}

LEMMA SignalsRead ==
  ASSUME NEW c, NEW w, NEW o
  PROVE  LET result == EvaluateSiblingDivergence(c, w, o)
         IN /\ result.signals \subseteq AllSignals
            /\ "SIBLING_DIVERGENCE" \in result.signals
                 <=> IsScored(c, w, o)
                       /\ AtOrAboveThreshold(c, o.spend * Denominator(c, w), Numerator(c, w))
            /\ "CLASS_PRIOR_EXCEEDED" \in result.signals
                 <=> ~(o.count < c.minimum) /\ AtOrAboveThreshold(c, o.spend, c.prior)
            /\ "CORRELATED_COHORT_SHIFT" \in result.signals
                 <=> IsScored(c, w, o)
                       /\ AtOrAboveThreshold(c, KeptSpend(c, w), c.prior * Cardinality(KeptSiblings(c, w)))
            /\ result.status = "scored" <=> IsScored(c, w, o)
            /\ IsScored(c, w, o) =>
                 result.divergenceRatio = RatioBps(o.spend * Denominator(c, w), Numerator(c, w))
<1> DEFINE result == EvaluateSiblingDivergence(c, w, o)
           divergence ==
             IF AtOrAboveThreshold(c, o.spend * Denominator(c, w), Numerator(c, w))
               THEN {"SIBLING_DIVERGENCE"} ELSE {}
           prior == IF AtOrAboveThreshold(c, o.spend, c.prior) THEN {"CLASS_PRIOR_EXCEEDED"} ELSE {}
           shift ==
             IF AtOrAboveThreshold(c, KeptSpend(c, w), c.prior * Cardinality(KeptSiblings(c, w)))
               THEN {"CORRELATED_COHORT_SHIFT"} ELSE {}
<1>1. CASE o.count < c.minimum
  <2>1. result.status = "insufficient_target_observations" /\ result.signals = {}
    BY <1>1 DEF EvaluateSiblingDivergence, Unscored
  <2>2. ~IsScored(c, w, o)
    BY <1>1 DEF IsScored
  <2> QED
    BY <1>1, <2>1, <2>2 DEF AllSignals
<1>2. CASE ~(o.count < c.minimum) /\ Cardinality(Comparable(c, w)) < c.scoring
  <2>1. result.status = "insufficient_siblings" /\ result.signals = prior
    BY <1>2 DEF EvaluateSiblingDivergence, Unscored
  <2>2. ~IsScored(c, w, o)
    BY <1>2 DEF IsScored
  <2> QED
    BY <1>2, <2>1, <2>2 DEF AllSignals
<1>3. CASE IsScored(c, w, o)
  <2>1. /\ result.status = "scored" /\ result.signals = divergence \cup prior \cup shift
        /\ result.divergenceRatio = RatioBps(o.spend * Denominator(c, w), Numerator(c, w))
    BY <1>3, Zenon
      DEF EvaluateSiblingDivergence, Scored, IsScored, Numerator, Denominator, KeptSiblings, KeptSpend
  <2> QED
    BY <1>3, <2>1 DEF IsScored, AllSignals
<1> QED
  BY <1>1, <1>2, <1>3 DEF IsScored

(* Both sides of the comparisons are amounts, and the denominators positive. *)
LEMMA ReadTyped ==
  ASSUME NEW c, c \in Config, NEW w, WindowOK(w), NEW o, o \in Observation
  PROVE  /\ KeptSpend(c, w) \in Nat /\ c.threshold \in Nat \ {0} /\ c.prior \in Nat \ {0}
         /\ o.spend \in Nat /\ Numerator(c, w) \in Nat /\ Denominator(c, w) \in Nat
         /\ Cardinality(Comparable(c, w)) \in Nat /\ Cardinality(KeptSiblings(c, w)) \in Nat
         /\ c.confidence \in Nat \ {0}
         /\ IsScored(c, w, o) =>
              Cardinality(KeptSiblings(c, w)) \in Nat \ {0} /\ Numerator(c, w) \in Nat \ {0}
<1> DEFINE C == Comparable(c, w)
           K == KeptSiblings(c, w)
           n == Cardinality(C)
           k == Cardinality(K)
<1>1. C \in SUBSET DOMAIN w /\ IsFiniteSet(C)
  BY FS_Subset DEF WindowOK, Comparable
<1>2. K \in SUBSET C
  BY DEF KeptSiblings, Trimmed
<1>3. IsFiniteSet(K) /\ n \in Nat /\ k \in Nat
  BY <1>1, <1>2, FS_Subset, FS_CardinalityType
<1>4. KeptSpend(c, w) \in Nat
  BY <1>3, SpendOfNat DEF KeptSpend
<1>5. /\ c.threshold \in Nat \ {0} /\ c.prior \in Nat \ {0} /\ c.confidence \in Nat \ {0}
      /\ c.scoring \in Nat \ {0}
  BY MaxAmountAssumption, DivergenceAssumption DEF Config, Amount
<1>6. o.spend \in Nat
  BY MaxAmountAssumption DEF Observation, Amount
<1>7. /\ Numerator(c, w) = n * KeptSpend(c, w) + c.confidence * c.prior * k
      /\ Denominator(c, w) = (n + c.confidence) * k
  BY DEF Numerator, Denominator
<1> HIDE DEF n, k
<1>8. /\ n * KeptSpend(c, w) \in Nat /\ c.confidence * c.prior \in Nat \ {0}
      /\ (n + c.confidence) * k \in Nat
  BY <1>3, <1>4, <1>5, ProductNat, ProductPositive
<1>9. c.confidence * c.prior * k \in Nat
  BY <1>3, <1>8, ProductNat
<1>10. Numerator(c, w) \in Nat /\ Denominator(c, w) \in Nat
  BY <1>7, <1>8, <1>9
<1>11. ASSUME IsScored(c, w, o) PROVE k \in Nat \ {0}
  <2>1. n >= 1
    BY <1>3, <1>5, <1>11 DEF IsScored, n
  <2>2. CASE n < 5
    BY <1>3, <2>1, <2>2 DEF KeptSiblings, Trimmed, n, k
  <2>3. CASE n >= 5
    BY <1>1, <1>3, <2>3, TrimmedEnds DEF Ends, KeptSiblings, n, k
  <2> QED
    BY <1>3, <2>2, <2>3
<1>12. ASSUME IsScored(c, w, o) PROVE Numerator(c, w) \in Nat \ {0}
  <2>1. c.confidence * c.prior * k \in Nat \ {0}
    BY <1>8, <1>11, <1>12, ProductPositive
  <2> QED
    BY <1>7, <1>8, <1>10, <2>1
<1> QED
  BY <1>3, <1>4, <1>5, <1>6, <1>10, <1>11, <1>12 DEF n, k

(* What a branch spends decides not whether it compares. *)
LEMMA ComparableSpending ==
  ASSUME NEW c, NEW w, WindowOK(w), NEW b \in DOMAIN w, NEW spend \in Amount
  PROVE  Comparable(c, Spending(w, b, spend)) = Comparable(c, w)
BY SpendingOK DEF Comparable

(* A quotient over the threshold stays over it as its numerator grows and its *)
(* denominator shrinks.                                                       *)
LEMMA ThresholdMonotone ==
  ASSUME NEW c, c.threshold \in Nat, NEW a \in Nat, NEW b \in Nat, NEW d \in Nat, NEW e \in Nat,
         a <= b, e <= d, AtOrAboveThreshold(c, a, d)
  PROVE  AtOrAboveThreshold(c, b, e)
<1>1. a * 10000 <= b * 10000 /\ c.threshold * e <= c.threshold * d
  BY ProductMonotone
<1>2. c.threshold * e \in Nat /\ c.threshold * d \in Nat
  BY ProductNat
<1> QED
  BY <1>1, <1>2 DEF AtOrAboveThreshold, BPS

(* A mean that is at a multiple of the prior is compared by its sum. *)
LEMMA MeanThreshold ==
  ASSUME NEW c, c.threshold \in Nat, NEW a \in Nat, NEW s \in Nat, NEW p \in Nat,
         NEW k \in Nat \ {0}, a * k >= s, AtOrAboveThreshold(c, s, p * k)
  PROVE  AtOrAboveThreshold(c, a, p)
<1> DEFINE t == c.threshold
<1>1. s * 10000 >= t * (p * k)
  BY DEF AtOrAboveThreshold, BPS
<1>2. t \in Nat /\ t * p \in Nat /\ a * 10000 \in Nat /\ a * k \in Nat
  BY ProductNat
<1> HIDE DEF t
<1>3. (a * k) * 10000 = (a * 10000) * k
  OBVIOUS
<1>4. t * (p * k) = (t * p) * k
  BY <1>2
<1>5. (t * p) * k <= (a * 10000) * k
  BY <1>1, <1>2, <1>3, <1>4
<1>6. t * p <= a * 10000
  BY <1>2, <1>5, ProductCancel
<1> QED
  BY <1>2, <1>6 DEF AtOrAboveThreshold, BPS, t

(* Every evaluation: whoever spends what, no one talks a signal away. *)
LEMMA EvaluationRobust ==
  ASSUME config \in Configs, window \in Windows, observed \in Observations
  PROVE  SignalsAreRobust
<1> DEFINE c == config
           w == window
           o == observed
           comparable == Comparable(c, w)
           Read(v, x) == EvaluateSiblingDivergence(c, v, x)
<1>1. c \in Config /\ WindowOK(w) /\ o \in Observation /\ MaxSafeInteger \in Nat
  BY DivergenceAssumption DEF WindowOK
<1>2. Spends \subseteq Amount /\ Amount \subseteq Nat
  BY DivergenceAssumption, MaxAmountAssumption DEF Spends, Observation, Amount
<1>3. comparable \in SUBSET DOMAIN w
  BY DEF Comparable
<1> HIDE DEF c, w, o, comparable
<1>4. ASSUME NEW spend \in Spends, spend >= o.spend
      PROVE  Read(w, o).signals \subseteq Read(w, [o EXCEPT !.spend = spend]).signals
  <2> DEFINE x == [o EXCEPT !.spend = spend]
  <2>1. x.spend = spend /\ x.count = o.count /\ x \in Observation /\ spend \in Nat
    BY <1>1, <1>2 DEF Observation
  <2> HIDE DEF x
  <2>2. o.spend * Denominator(c, w) <= spend * Denominator(c, w)
    BY <1>1, <1>2, <1>4, ReadTyped, ProductMonotone
  <2>3. o.spend * Denominator(c, w) \in Nat /\ spend * Denominator(c, w) \in Nat
    BY <1>1, <2>1, ReadTyped, ProductNat
  <2>4. AtOrAboveThreshold(c, o.spend * Denominator(c, w), Numerator(c, w))
          => AtOrAboveThreshold(c, spend * Denominator(c, w), Numerator(c, w))
    BY <1>1, <2>2, <2>3, ReadTyped, ThresholdMonotone
  <2>5. AtOrAboveThreshold(c, o.spend, c.prior) => AtOrAboveThreshold(c, spend, c.prior)
    BY <1>1, <1>4, <2>1, ReadTyped, ThresholdMonotone
  <2>6. IsScored(c, w, o) <=> IsScored(c, w, x)
    BY <2>1 DEF IsScored
  <2> HIDE DEF Read
  <2>7. Read(w, o).signals \subseteq Read(w, x).signals
    BY <2>1, <2>4, <2>5, <2>6, SignalsRead DEF Read, AllSignals
  <2> QED
    BY <2>7 DEF x
<1>5. ASSUME NEW b \in comparable, NEW spend \in Spends, spend <= w[b].spend
      PROVE  Read(w, o).signals \ {"CORRELATED_COHORT_SHIFT"}
               \subseteq Read(Spending(w, b, spend), o).signals
  <2> DEFINE v == Spending(w, b, spend)
  <2>1. WindowOK(v) /\ Comparable(c, v) = comparable
    BY <1>1, <1>2, <1>3, SpendingOK, ComparableSpending DEF comparable
  <2>2. /\ Cardinality(KeptSiblings(c, v)) = Cardinality(KeptSiblings(c, w))
        /\ KeptSpend(c, v) <= KeptSpend(c, w)
    BY <1>1, <1>2, <1>3, <1>5, <2>1, SpendingLess DEF KeptSiblings, KeptSpend, comparable
  <2> HIDE DEF v
  <2>3. Denominator(c, v) = Denominator(c, w)
    BY <2>1, <2>2 DEF Denominator, comparable
  <2>4. Numerator(c, v) <= Numerator(c, w)
    <3> DEFINE n == Cardinality(comparable)
               rest == c.confidence * c.prior * Cardinality(KeptSiblings(c, w))
    <3>1. n * KeptSpend(c, v) <= n * KeptSpend(c, w)
      BY <1>1, <2>1, <2>2, ReadTyped, ProductMonotone DEF comparable
    <3>2. n * KeptSpend(c, v) \in Nat /\ n * KeptSpend(c, w) \in Nat /\ rest \in Nat
      BY <1>1, <2>1, ReadTyped, ProductNat DEF comparable
    <3>3. Numerator(c, v) = n * KeptSpend(c, v) + rest /\ Numerator(c, w) = n * KeptSpend(c, w) + rest
      BY <2>1, <2>2 DEF Numerator, comparable
    <3> QED
      BY <3>1, <3>2, <3>3
  <2>5. o.spend * Denominator(c, w) \in Nat
    BY <1>1, ReadTyped, ProductNat
  <2>6. AtOrAboveThreshold(c, o.spend * Denominator(c, w), Numerator(c, w))
          => AtOrAboveThreshold(c, o.spend * Denominator(c, v), Numerator(c, v))
    BY <1>1, <2>1, <2>3, <2>4, <2>5, ReadTyped, ThresholdMonotone
  <2>7. IsScored(c, w, o) <=> IsScored(c, v, o)
    BY <2>1 DEF IsScored, comparable
  <2> HIDE DEF Read
  <2>8. Read(w, o).signals \ {"CORRELATED_COHORT_SHIFT"} \subseteq Read(v, o).signals
    BY <2>6, <2>7, SignalsRead DEF Read, AllSignals
  <2> QED
    BY <2>8 DEF v
<1>6. ASSUME NEW b \in comparable, NEW spend \in Spends, Cardinality(comparable) >= 5,
             \A d \in comparable : w[d].spend <= w[b].spend, spend >= w[b].spend
      PROVE  Read(Spending(w, b, spend), o).signals = Read(w, o).signals
  <2> DEFINE v == Spending(w, b, spend)
  <2>1. Comparable(c, v) = comparable
    BY <1>1, <1>2, <1>3, ComparableSpending DEF comparable
  <2>2. /\ Cardinality(KeptSiblings(c, v)) = Cardinality(KeptSiblings(c, w))
        /\ KeptSpend(c, v) = KeptSpend(c, w)
    BY <1>1, <1>2, <1>3, <1>6, <2>1, OutspendingTrimmed DEF KeptSiblings, KeptSpend, comparable
  <2> HIDE DEF v
  <2>3. Denominator(c, v) = Denominator(c, w) /\ Numerator(c, v) = Numerator(c, w)
    BY <2>1, <2>2 DEF Denominator, Numerator, comparable
  <2>4. IsScored(c, w, o) <=> IsScored(c, v, o)
    BY <2>1 DEF IsScored, comparable
  <2> HIDE DEF Read
  <2>5. \A x \in AllSignals : x \in Read(v, o).signals <=> x \in Read(w, o).signals
    BY <2>2, <2>3, <2>4, SignalsRead DEF Read, AllSignals
  <2>6. Read(v, o).signals \subseteq AllSignals /\ Read(w, o).signals \subseteq AllSignals
    BY SignalsRead DEF Read
  <2>7. Read(v, o).signals = Read(w, o).signals
    BY <2>5, <2>6
  <2> QED
    BY <2>7 DEF v
<1>7. ASSUME "CORRELATED_COHORT_SHIFT" \in Read(w, o).signals,
             o.spend * Cardinality(KeptSiblings(c, w)) >= KeptSpend(c, w)
      PROVE  "CLASS_PRIOR_EXCEEDED" \in Read(w, o).signals
  <2>1. /\ IsScored(c, w, o)
        /\ AtOrAboveThreshold(c, KeptSpend(c, w), c.prior * Cardinality(KeptSiblings(c, w)))
    BY <1>7, SignalsRead
  <2>2. AtOrAboveThreshold(c, o.spend, c.prior)
    BY <1>1, <1>7, <2>1, ReadTyped, MeanThreshold
  <2> QED
    BY <2>1, <2>2, SignalsRead DEF IsScored
<1>8. "CLASS_PRIOR_EXCEEDED" \in Read(w, o).signals <=> "CLASS_PRIOR_EXCEEDED" \in Read(<<>>, o).signals
  BY SignalsRead
<1>9. ASSUME Read(w, o).status = "scored"
      PROVE  "SIBLING_DIVERGENCE" \in Read(w, o).signals <=> Read(w, o).divergenceRatio >= c.threshold
  <2> DEFINE a == o.spend * Denominator(c, w)
             d == Numerator(c, w)
  <2>1. IsScored(c, w, o) /\ Read(w, o).divergenceRatio = RatioBps(a, d)
    BY <1>9, SignalsRead
  <2>2. a \in Nat /\ d \in Nat \ {0} /\ c.threshold \in Nat /\ c.threshold <= MaxSafeInteger
    BY <1>1, <2>1, ReadTyped, ProductNat DEF Config
  <2>3. "SIBLING_DIVERGENCE" \in Read(w, o).signals <=> AtOrAboveThreshold(c, a, d)
    BY <2>1, SignalsRead
  <2> HIDE DEF a, d, Read
  <2>4. a * 10000 \in Nat
    BY <2>2
  <2>5. (a * 10000) \div d \in Nat /\ ((a * 10000) \div d >= c.threshold <=> a * 10000 >= c.threshold * d)
    BY <2>2, <2>4, QuotientAtLeast
  <2>6. RatioBps(a, d) >= c.threshold <=> (a * 10000) \div d >= c.threshold
    BY <1>1, <2>2, <2>5 DEF RatioBps, Smaller, BPS
  <2> QED
    BY <2>1, <2>3, <2>5, <2>6 DEF AtOrAboveThreshold, BPS
<1> HIDE DEF Read
<1> QED
  BY <1>4, <1>5, <1>6, <1>7, <1>8, <1>9
    DEF SignalsAreRobust, Signals, Read, c, w, o, comparable, KeptSiblings, KeptSpend

(* SignalsAreRobust for any configuration, window and observation that            *)
(* evaluateSiblingDivergence accepts, however many branches there are: a branch   *)
(* that spends more keeps its signals, no sibling clears them by spending less or  *)
(* by outspending the others more, a shift of the cohort shows on the branch that  *)
(* went with it, and the ratio displayed agrees with the signal.                   *)
THEOREM SignalsAlwaysRobust == DivergenceInit => SignalsAreRobust
BY EvaluationRobust DEF DivergenceInit
=============================================================================
