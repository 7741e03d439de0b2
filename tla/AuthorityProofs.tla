--------------------------- MODULE AuthorityProofs ---------------------------
(* What decides that money may be spent, for every value of the constants: the *)
(* decisions of a policy, the answers of the paid endpoints, the authorization *)
(* of a reliability run, the claims of its calls, the lookups of an ambiguous  *)
(* one, the books of the mandate service, and the ceiling and the files of an  *)
(* evidence run.                                                               *)
EXTENDS PolicyDecisions, MandateService, PaidInference, RunAuthorization, SchedulerClaims,
        ReconciliationLookups, FixtureRun, AmountsProofs

-----------------------------------------------------------------------------
(* Policy decisions.                                                           *)

(* The mode of a policy has no part in the reasons it raises. *)
LEMMA SameReasons ==
  ASSUME NEW p, PolicyVersion(p), NEW i, NEW mode
  PROVE  /\ Reasons([p EXCEPT !.mode = mode], i) = Reasons(p, i)
         /\ [p EXCEPT !.mode = mode].mode = mode
         /\ PolicyVersion([p EXCEPT !.mode = mode])
  <1> DEFINE q == [p EXCEPT !.mode = mode]
  <1>1. DOMAIN p = PolicyFields
    BY DEF PolicyVersion
  <1>2. /\ q.capability = p.capability /\ q.providers = p.providers
        /\ q.models = p.models /\ q.perCall = p.perCall
        /\ q.hourly = p.hourly /\ q.daily = p.daily /\ q.rate = p.rate
        /\ q.inputTokens = p.inputTokens /\ q.outputTokens = p.outputTokens
        /\ q.classes = p.classes /\ q.mode = mode
    BY <1>1 DEF PolicyFields
  <1>3. PolicyVersion(q)
    BY <1>1 DEF PolicyVersion, PolicyFields
  <1>4. ASSUME NEW r PROVE Raises(q, i, r) <=> Raises(p, i, r)
    <2>1. WorkloadReason(q, i, r) <=> WorkloadReason(p, i, r)
      BY <1>2 DEF WorkloadReason, BranchReason
    <2> QED BY <1>2, <2>1 DEF Raises
  <1> HIDE DEF q
  <1>5. Reasons(q, i) = Reasons(p, i)
    BY <1>4 DEF Reasons
  <1> QED BY <1>2, <1>3, <1>5 DEF q

Considered == PolicyVersion(policy) /\ Priced(input)

(* Whatever is considered is a policy version and a priced input. *)
LEMMA AlwaysConsidered == Spec => []Considered
  <1>1. Init => Considered
    BY DecisionsAssumption DEF Init, Considered
  <1>2. Considered /\ [Next]_<<policy, input>> => Considered'
    <2> SUFFICES ASSUME Considered, [Next]_<<policy, input>>
                 PROVE  PolicyVersion(policy') /\ Priced(input')
      BY DEF Considered, PolicyVersion, Priced
    <2>1. CASE Next
      BY <2>1, SameReasons DEF Next, ChangeMode, Considered
    <2>2. CASE UNCHANGED <<policy, input>>
      BY <2>2 DEF Considered
    <2> QED BY <2>1, <2>2
  <1> QED BY <1>1, <1>2, PTL DEF Spec

(* A reason code denies in every mode or only under enforcement. *)
LEMMA Reasoned ==
  ASSUME NEW p, NEW i, p.mode # "paused"
  PROVE  p.mode # "dry_run" => (Denied(p, i) <=> WouldOutcome(p, i) = "DENY")
  BY DEF Denied, WouldOutcome, Reasons, ReasonCodes

(* What a dry run records as its would-be outcome is what enforcing the same *)
(* limits decides, for every policy version and every input.                 *)
THEOREM DryRunForecasts == Spec => []DryRunForecastsEnforcement
  <1>1. Considered => DryRunForecastsEnforcement
    <2> SUFFICES ASSUME PolicyVersion(policy) PROVE DryRunForecastsEnforcement
      BY DEF Considered
    <2> DEFINE d == InMode("dry_run")
               e == InMode("enforce")
    <2>1. /\ Reasons(d, input) = Reasons(policy, input) /\ d.mode = "dry_run"
          /\ Reasons(e, input) = Reasons(policy, input) /\ e.mode = "enforce"
      BY SameReasons DEF InMode
    <2> HIDE DEF d, e
    <2>2. /\ WouldOutcome(d, input) = "DENY" <=> Denied(e, input)
          /\ WouldOutcome(d, input) \in {"ALLOW", "DENY"}
          /\ Denied(d, input) => Denied(e, input)
      BY <2>1 DEF WouldOutcome, Denied
    <2>3. /\ EvaluatePolicy(d, input).wouldOutcome = EvaluatePolicy(e, input).outcome
          /\ EvaluatePolicy(d, input).reasons = EvaluatePolicy(e, input).reasons
          /\ EvaluatePolicy(e, input).outcome = "ALLOW"
               => EvaluatePolicy(d, input).outcome = "ALLOW"
      BY <2>1, <2>2 DEF EvaluatePolicy
    <2> QED BY <2>3 DEF DryRunForecastsEnforcement, d, e
  <1> QED BY <1>1, AlwaysConsidered, PTL

(* An allowed input raises no reason that denies in every mode. *)
LEMMA NoHardReason ==
  ASSUME NEW p, NEW i, EvaluatePolicy(p, i).outcome = "ALLOW",
         NEW r \in HardDenials
  PROVE  p.mode # "paused" /\ ~Raises(p, i, r)
  <1>1. ~Denied(p, i)
    BY DEF EvaluatePolicy
  <1> QED BY <1>1 DEF Denied, Reasons, ReasonCodes

(* Without authority over mandate, agent, capability and budget no mode      *)
(* allows anything.                                                          *)
THEOREM AuthorityAlwaysHolds == Spec => []AuthorityHoldsInEveryMode
  <1>1. Considered => AuthorityHoldsInEveryMode
    <2> SUFFICES ASSUME Considered, EvaluatePolicy(policy, input).outcome = "ALLOW"
                 PROVE  AuthorityHoldsInEveryMode
      BY DEF AuthorityHoldsInEveryMode
    <2>1. policy.mode # "paused" /\ \A r \in HardDenials : ~Raises(policy, input, r)
      BY NoHardReason DEF HardDenials
    <2>2. /\ input.mandateState = "active" /\ input.agentAuthorized
          /\ ~Passed(input.mandateExpiresAt, input.now)
          /\ policy.capability \in input.capabilities
      BY <2>1 DEF HardDenials, Raises
    <2>3. ~(input.mandateSpent + input.cost > input.mandateMaximum)
      BY <2>1 DEF HardDenials, Raises
    <2>4. input.mandateSpent + input.cost <= input.mandateMaximum
      BY <2>3 DEF Considered, Priced
    <2> QED BY <2>1, <2>2, <2>4 DEF AuthorityHoldsInEveryMode
  <1> QED BY <1>1, AlwaysConsidered, PTL

(* Under a policy with classes nothing is allowed without a live branch and  *)
(* class that both policy and branch know, within their budgets.             *)
THEOREM ScopeAlwaysFailsClosed == Spec => []ScopeFailsClosed
  <1>1. Considered => ScopeFailsClosed
    <2> SUFFICES ASSUME Considered, DOMAIN policy.classes # {},
                        EvaluatePolicy(policy, input).outcome = "ALLOW"
                 PROVE  ScopeFailsClosed
      BY DEF ScopeFailsClosed
    <2>1. \A r \in HardDenials : ~WorkloadReason(policy, input, r)
      BY NoHardReason DEF Raises
    <2>2. input.workload # {}
      BY <2>1 DEF WorkloadReason, HardDenials
    <2>3. PICK w \in input.workload : TRUE
      BY <2>2
    <2>4. w.branchAuthorized
      BY <2>1 DEF WorkloadReason, HardDenials
    <2>5. \A r \in HardDenials : ~BranchReason(policy, input, w, r)
      BY <2>1, <2>4 DEF WorkloadReason
    <2>6. w.classAuthorized /\ w.class \in DOMAIN policy.classes
      BY <2>5 DEF BranchReason, HardDenials
    <2>7. \A r \in HardDenials : ~ClassReason(policy.classes[w.class], input, w, r)
      BY <2>5, <2>6 DEF BranchReason
    <2>8. /\ ~Passed(w.branchExpiresAt, input.now)
          /\ ~(w.branchSpent + input.cost > w.branchMaximum)
          /\ ~(w.classSpent + input.cost > policy.classes[w.class].budget)
      BY <2>5, <2>7 DEF BranchReason, ClassReason, HardDenials
    <2>9. /\ w.branchSpent + input.cost <= w.branchMaximum
          /\ w.classSpent + input.cost <= policy.classes[w.class].budget
      <3>1. /\ {input.cost, w.branchSpent, w.branchMaximum, w.classSpent} \subseteq Int
            /\ policy.classes[w.class].budget \in Int
        BY <2>6 DEF Considered, Priced, PolicyVersion
      <3> HIDE DEF Considered
      <3> QED BY <2>8, <3>1
    <2> QED BY <2>4, <2>6, <2>8, <2>9 DEF ScopeFailsClosed
  <1> QED BY <1>1, AlwaysConsidered, PTL

-----------------------------------------------------------------------------
(* The paid endpoints.  What each store holds is about the key it stands under. *)
PaidTypeInv ==
  /\ execution \in [Key -> [status : {"absent", "executing", "denied", "completed", "review"},
                            by : Call \cup {NoCall}]]
  /\ paid \subseteq Call
  /\ paymentEvidence \in [Key -> Call \cup {NoCall}]
  /\ call \in [Call -> {"new", "quoted", "executing", "waiting", "completed", "answered", "ended"}]

(* What a call knows by where it is: that it paid, that the row of its key is  *)
(* its own, that the row was completed for what it asked.  Without the second  *)
(* a completion could be of a request with another body.                       *)
PlacesInv ==
  /\ \A c \in Call : call[c] \in {"executing", "waiting", "completed"} => c \in paid
  /\ \A c \in Call : call[c] = "waiting" => HasRow(c) /\ Row(c).by = c
  /\ \A c \in Call : call[c] = "completed" => CompletedForCall(c)

PaidInv == PaidTypeInv /\ PlacesInv /\ AnswersAreAccounted

LEMMA PaidInitial == PaidInit => PaidInv
BY PaidAssumption DEF PaidInit, PaidInv, PaidTypeInv, PlacesInv, AnswersAreAccounted, NoRow

(* A step that moves one call and no row.                                      *)
LEMMA Moved ==
  ASSUME PaidInv, NEW c \in Call, NEW place, Reaches(c, place)
  PROVE  /\ call'[c] = place
         /\ \A d \in Call : d # c => call'[d] = call[d]
BY DEF Reaches, PaidInv, PaidTypeInv

(* A row that was decided never changes; no row changes hands.                 *)
RowsKept ==
  \A k \in Key : execution[k].status # "absent" =>
    /\ execution'[k].status # "absent" /\ execution'[k].by = execution[k].by
    /\ execution[k].status = "completed" => execution'[k].status = "completed"

(* While rows are kept, and payments and evidence only grow, what the calls    *)
(* that do not move know stays true.                                           *)
LEMMA OthersKept ==
  ASSUME PaidInv, PaidTypeInv', RowsKept, paid \subseteq paid', NEW d \in Call, call'[d] = call[d],
         \A k \in Key : paymentEvidence[k] # NoCall => paymentEvidence'[k] = paymentEvidence[k]
  PROVE  /\ call'[d] \in {"executing", "waiting", "completed"} => d \in paid'
         /\ call'[d] = "waiting" => (HasRow(d) /\ Row(d).by = d)'
         /\ call'[d] = "completed" => CompletedForCall(d)'
         /\ call'[d] = "answered" =>
              /\ CompletedForCall(d)'
              /\ EndpointOf[d] = "product" => paymentEvidence'[KeyOf[d]] = d
<1>1. KeyOf[d] \in Key
  BY PaidAssumption
<1>2. CompletedForCall(d) => CompletedForCall(d)'
  BY <1>1 DEF CompletedForCall, SameRequest, Row, RowsKept
<1> QED
  BY <1>1, <1>2, PaidAssumption DEF PaidInv, PlacesInv, AnswersAreAccounted, RowsKept, HasRow, Row

(* What remains of a step of call c: the types, and what c itself and the      *)
(* stores answer for.                                                          *)
LEMMA StepOf ==
  ASSUME PaidInv, PaidTypeInv', RowsKept, paid \subseteq paid', NEW c \in Call,
         \A d \in Call : d # c => call'[d] = call[d],
         \A k \in Key : paymentEvidence[k] # NoCall => paymentEvidence'[k] = paymentEvidence[k],
         \A k \in Key : execution'[k].status # "absent" => execution'[k].by \in paid',
         \A k \in Key : paymentEvidence'[k] # paymentEvidence[k] =>
           /\ paymentEvidence'[k] = c /\ KeyOf[c] = k /\ c \in paid'
           /\ EndpointOf[c] = "product" /\ execution'[k].status = "completed",
         call'[c] \in {"executing", "waiting", "completed"} => c \in paid',
         call'[c] = "waiting" => (HasRow(c) /\ Row(c).by = c)',
         call'[c] \in {"completed", "answered"} => CompletedForCall(c)',
         call'[c] = "answered" /\ EndpointOf[c] = "product" => paymentEvidence'[KeyOf[c]] = c
  PROVE  PaidInv'
<1>1. ASSUME NEW d \in Call
      PROVE  /\ call'[d] \in {"executing", "waiting", "completed"} => d \in paid'
             /\ call'[d] = "waiting" => (HasRow(d) /\ Row(d).by = d)'
             /\ call'[d] = "completed" => CompletedForCall(d)'
             /\ call'[d] = "answered" =>
                  /\ CompletedForCall(d)'
                  /\ EndpointOf[d] = "product" => paymentEvidence'[KeyOf[d]] = d
  <2>1. CASE d = c
    BY <2>1
  <2>2. CASE d # c
    BY <2>2, OthersKept
  <2> QED BY <2>1, <2>2
<1>2. PlacesInv'
  BY <1>1 DEF PlacesInv
<1>3. ASSUME NEW k \in Key, paymentEvidence'[k] # NoCall
      PROVE  /\ KeyOf[paymentEvidence'[k]] = k /\ paymentEvidence'[k] \in paid'
             /\ EndpointOf[paymentEvidence'[k]] = "product" /\ execution'[k].status = "completed"
  BY <1>3 DEF PaidInv, AnswersAreAccounted, RowsKept
<1>4. AnswersAreAccounted'
  BY <1>1, <1>3 DEF AnswersAreAccounted
<1> QED BY <1>2, <1>4 DEF PaidInv

(* A row that is completed or goes to review keeps its call.                   *)
LEMMA RowSettled ==
  ASSUME PaidInv, NEW k \in Key, execution[k].status \in {"executing", "review"},
         NEW status \in {"review", "completed"}, execution' = [execution EXCEPT ![k].status = status]
  PROVE  /\ RowsKept
         /\ execution' \in [Key -> [status : {"absent", "executing", "denied", "completed", "review"},
                                    by : Call \cup {NoCall}]]
         /\ \A q \in Key : execution'[q].status # "absent" => execution'[q].by \in paid
         /\ execution'[k].status = status /\ execution'[k].by = execution[k].by
BY DEF PaidInv, PaidTypeInv, AnswersAreAccounted, RowsKept

(* Giving a request up keeps every row that was decided.                       *)
LEMMA GivenUp ==
  ASSUME PaidInv, NEW c \in Call,
         GiveUp(c) \/ UNCHANGED execution
  PROVE  /\ RowsKept
         /\ execution' \in [Key -> [status : {"absent", "executing", "denied", "completed", "review"},
                                    by : Call \cup {NoCall}]]
         /\ \A k \in Key : execution'[k].status # "absent" => execution'[k].by \in paid
<1>1. CASE GiveUp(c)
  BY <1>1, PaidAssumption, RowSettled DEF GiveUp, Row
<1>2. CASE UNCHANGED execution
  BY <1>2 DEF PaidInv, PaidTypeInv, AnswersAreAccounted, RowsKept
<1> QED BY <1>1, <1>2

LEMMA PreviewKeeps == ASSUME PaidInv, NEW c \in Call, Preview(c) PROVE PaidInv'
<1>1. GiveUp(c) \/ UNCHANGED execution
  BY DEF Preview
<1>2. PICK place \in {"quoted", "ended"} : Reaches(c, place)
  BY DEF Preview
<1>3. paid' = paid /\ paymentEvidence' = paymentEvidence
  BY DEF Preview
<1>4. PaidTypeInv'
  BY <1>1, <1>2, <1>3, GivenUp DEF PaidInv, PaidTypeInv, Reaches
<1> QED BY <1>1, <1>2, <1>3, <1>4, GivenUp, Moved, StepOf

LEMMA PaymentKeeps == ASSUME PaidInv, NEW c \in Call, RequirePaymentOf(c) PROVE PaidInv'
<1>1. UNCHANGED <<execution, paymentEvidence>> /\ paid \subseteq paid' /\ paid' \subseteq Call
  BY DEF RequirePaymentOf, Ends, PaidInv, PaidTypeInv
<1>2. PICK place \in {"executing", "ended"} :
        Reaches(c, place) /\ (place = "executing" => c \in paid')
  BY DEF RequirePaymentOf, Ends
<1>3. PaidTypeInv'
  BY <1>1, <1>2 DEF PaidInv, PaidTypeInv, Reaches
<1>4. RowsKept /\ \A k \in Key : execution'[k].status # "absent" => execution'[k].by \in paid'
  BY <1>1, GivenUp
<1> QED BY <1>1, <1>2, <1>3, <1>4, Moved, StepOf

(* The admission writes the row of the call that paid for it.                  *)
LEMMA AdmitKeeps == ASSUME PaidInv, NEW c \in Call, Admit(c) PROVE PaidInv'
<1>1. PICK status \in {"executing", "denied"}, place \in {"waiting", "ended"} :
        /\ execution' = [execution EXCEPT ![KeyOf[c]] = [status |-> status, by |-> c]]
        /\ Reaches(c, place)
  BY DEF Admit
<1>2. /\ KeyOf[c] \in Key /\ execution[KeyOf[c]].status = "absent" /\ c \in paid
      /\ paid' = paid /\ paymentEvidence' = paymentEvidence
  BY PaidAssumption DEF Admit, HasRow, Row, PaidInv, PlacesInv
<1>3. PaidTypeInv'
  BY <1>1, <1>2 DEF PaidInv, PaidTypeInv, Reaches
<1>4. RowsKept /\ (HasRow(c) /\ Row(c).by = c)'
  BY <1>1, <1>2 DEF RowsKept, HasRow, Row, PaidInv, PaidTypeInv
<1>5. \A k \in Key : execution'[k].status # "absent" => execution'[k].by \in paid'
  BY <1>1, <1>2 DEF PaidInv, PaidTypeInv, AnswersAreAccounted
<1> QED BY <1>1, <1>2, <1>3, <1>4, <1>5, Moved, StepOf

LEMMA RepeatKeeps == ASSUME PaidInv, NEW c \in Call, Repeat(c) PROVE PaidInv'
<1>1. /\ GiveUp(c) \/ UNCHANGED execution
      /\ paid' = paid /\ paymentEvidence' = paymentEvidence /\ c \in paid
  BY DEF Repeat, PaidInv, PlacesInv
<1>2. PICK place \in {"completed", "ended"} :
        /\ Reaches(c, place)
        /\ place = "completed" => CompletedForCall(c) /\ UNCHANGED execution
  BY DEF Repeat
<1>3. PaidTypeInv'
  BY <1>1, <1>2, GivenUp DEF PaidInv, PaidTypeInv, Reaches
<1>4. place = "completed" => CompletedForCall(c)'
  BY <1>2 DEF CompletedForCall, SameRequest, Row
<1> QED BY <1>1, <1>2, <1>3, <1>4, GivenUp, Moved, StepOf

LEMMA CompleteKeeps == ASSUME PaidInv, NEW c \in Call, Complete(c) PROVE PaidInv'
<1>1. /\ KeyOf[c] \in Key /\ execution[KeyOf[c]].status = "executing"
      /\ execution[KeyOf[c]].by = c /\ c \in paid
      /\ execution' = [execution EXCEPT ![KeyOf[c]].status = "completed"]
      /\ Reaches(c, "completed") /\ paid' = paid /\ paymentEvidence' = paymentEvidence
  BY PaidAssumption DEF Complete, Row, PaidInv, PlacesInv
<1>2. /\ RowsKept
      /\ execution' \in [Key -> [status : {"absent", "executing", "denied", "completed", "review"},
                                 by : Call \cup {NoCall}]]
      /\ \A q \in Key : execution'[q].status # "absent" => execution'[q].by \in paid
      /\ execution'[KeyOf[c]].status = "completed" /\ execution'[KeyOf[c]].by = c
  BY <1>1, RowSettled
<1>3. PaidTypeInv'
  BY <1>1, <1>2 DEF PaidInv, PaidTypeInv, Reaches
<1>4. CompletedForCall(c)'
  BY <1>2 DEF CompletedForCall, SameRequest, Row
<1>5. call'[c] = "completed" /\ \A d \in Call : d # c => call'[d] = call[d]
  BY <1>1, Moved
<1> QED BY <1>1, <1>2, <1>3, <1>4, <1>5, StepOf

LEMMA SettleKeeps == ASSUME PaidInv, NEW k \in Key, SettleRow(k) PROVE PaidInv'
<1>1. PICK status \in {"review", "completed"} :
        /\ execution[k].status \in {"executing", "review"}
        /\ execution' = [execution EXCEPT ![k].status = status]
  BY DEF SettleRow, PaidInv, PaidTypeInv
<1>2. UNCHANGED <<paid, paymentEvidence, call>>
  BY DEF SettleRow
<1>3. PaidTypeInv'
  BY <1>1, <1>2, RowSettled DEF PaidInv, PaidTypeInv
<1>4. PlacesInv'
  BY <1>1, <1>2, <1>3, RowSettled, OthersKept DEF PlacesInv
<1>5. AnswersAreAccounted'
  <2>1. \A d \in Call : call'[d] = "answered" =>
          /\ CompletedForCall(d)'
          /\ EndpointOf[d] = "product" => paymentEvidence'[KeyOf[d]] = d
    BY <1>1, <1>2, <1>3, RowSettled, OthersKept
  <2>2. RowsKept /\ \A q \in Key : execution'[q].status # "absent" => execution'[q].by \in paid'
    BY <1>1, <1>2, RowSettled
  <2> QED BY <1>2, <2>1, <2>2 DEF PaidInv, AnswersAreAccounted, RowsKept
<1> QED BY <1>3, <1>4, <1>5 DEF PaidInv

(* A call that ends, or is answered from what is stored.                       *)
LEMMA AnswerKeeps ==
  ASSUME PaidInv, NEW c \in Call,
         Replay(c) \/ RecordEvidence(c) \/ AnswerChat(c) \/ CallFails(c)
  PROVE  PaidInv'
<1>1. UNCHANGED <<execution, paid>>
  BY DEF Replay, RecordEvidence, AnswerChat, CallFails, Ends
<1>2. PICK place \in {"answered", "ended"} :
        /\ Reaches(c, place)
        /\ place = "answered" =>
             /\ CompletedForCall(c)
             /\ EndpointOf[c] = "product" => paymentEvidence'[KeyOf[c]] = c
  BY PaidAssumption DEF Replay, RecordEvidence, SameEvidence, AnswerChat, CallFails, Ends, PaidInv,
     PaidTypeInv, PlacesInv
<1>3. \/ paymentEvidence' = paymentEvidence
      \/ /\ paymentEvidence' = [paymentEvidence EXCEPT ![KeyOf[c]] = c]
         /\ paymentEvidence[KeyOf[c]] = NoCall /\ EndpointOf[c] = "product"
         /\ c \in paid /\ CompletedForCall(c)
  BY DEF Replay, RecordEvidence, AnswerChat, CallFails, Ends, PaidInv, PlacesInv
<1>4. PaidTypeInv'
  BY <1>1, <1>2, <1>3 DEF PaidInv, PaidTypeInv, Reaches
<1>5. /\ \A k \in Key : paymentEvidence[k] # NoCall => paymentEvidence'[k] = paymentEvidence[k]
      /\ \A k \in Key : paymentEvidence'[k] # paymentEvidence[k] =>
           /\ paymentEvidence'[k] = c /\ KeyOf[c] = k /\ c \in paid'
           /\ EndpointOf[c] = "product" /\ execution'[k].status = "completed"
  BY <1>1, <1>3 DEF PaidInv, PaidTypeInv, CompletedForCall, Row
<1>6. place = "answered" => CompletedForCall(c)'
  BY <1>1, <1>2 DEF CompletedForCall, SameRequest, Row
<1>7. RowsKept /\ \A k \in Key : execution'[k].status # "absent" => execution'[k].by \in paid'
  BY <1>1, GivenUp
<1> QED BY <1>1, <1>2, <1>4, <1>5, <1>6, <1>7, Moved, StepOf

(* Who is answered is accounted for, whatever calls overlap, fail and repeat.   *)
THEOREM AnswersAlwaysAccounted == PaidSpec => []AnswersAreAccounted
<1>1. PaidInv /\ [PaidNext]_paidVars => PaidInv'
  <2> SUFFICES ASSUME PaidInv, [PaidNext]_paidVars PROVE PaidInv'
    OBVIOUS
  <2>1. CASE PaidNext
    BY <2>1, PreviewKeeps, PaymentKeeps, AdmitKeeps, RepeatKeeps, CompleteKeeps, SettleKeeps,
       AnswerKeeps DEF PaidNext
  <2>2. CASE UNCHANGED paidVars
    BY <2>2 DEF paidVars, PaidInv, PaidTypeInv, PlacesInv, AnswersAreAccounted, CompletedForCall,
       SameRequest, HasRow, Row
  <2> QED BY <2>1, <2>2
<1>2. PaidInv => AnswersAreAccounted
  BY DEF PaidInv
<1> QED BY <1>1, <1>2, PaidInitial, PTL DEF PaidSpec

-----------------------------------------------------------------------------
(* The authorization of a run.  A command is within the window once it is      *)
(* ready, entitled once its decision is stored, and unfinished until the       *)
(* operation of that decision completes.                                       *)
Unfinished == Kinds \cup {"publishing", "completing"}
Entitled == Unfinished \cup {"authorized", "running", "claimed"}
Admitted == Entitled \cup {"ready", "deciding"}
CommandPlaces == Admitted \cup {"idle", "begun", "failing", "ended"}

AuthorizationTypeInv ==
  /\ operation \in [begun : BOOLEAN, inWindow : BOOLEAN, published : BOOLEAN, completed : BOOLEAN,
                    failure : {"none", "authorization_publication_deadline",
                               "authorization_transition_deadline"}]
  /\ decision.kind \in {"none", "active", "readiness_failed", "readiness_predecision_failed"}
  /\ outbox \in [Kinds -> {"none", "stored", "published"}]
  /\ receiptFiles \subseteq Kinds
  /\ command \in [Command -> CommandPlaces]

(* The only command that may publish, complete or run is the one that decided, *)
(* and it is done publishing when the operation is completed.                  *)
CommandsInv ==
  /\ \A x \in Command :
       /\ command[x] \in Admitted => operation.inWindow
       /\ command[x] \in Entitled => ~Undecided
       /\ command[x] \in Kinds => command[x] \in receiptFiles
       /\ command[x] \in Unfinished => ~operation.completed
  /\ \A x, y \in Command : command[x] \in Entitled /\ command[y] \in Entitled => x = y

DecisionInv ==
  /\ decision.kind = "none" <=> Undecided
  /\ decision.kind = "active" => ValidPair(decision.pair) /\ nonce
  /\ decision.kind \notin {"none", "active"} => control = "failed"
  /\ \A kind \in Kinds : outbox[kind] = "none" <=> Undecided
  /\ \A kind \in Kinds : outbox[kind] = "published" => kind \in receiptFiles

OperationInv ==
  /\ operation.inWindow => operation.begun
  /\ operation.published => BothPublished
  /\ operation.completed => operation.published /\ operation.failure = "none"
  /\ operation.failure # "none" => control = "failed"

BlockInv ==
  /\ served => block # NoOwner
  /\ block # NoOwner => operation.completed /\ operation.inWindow /\ PairDecided

AuthorizationInv ==
  AuthorizationTypeInv /\ CommandsInv /\ DecisionInv /\ OperationInv /\ BlockInv

LEMMA AuthorizationInitial == AuthorizationInit => AuthorizationInv
BY DEF AuthorizationInit, AuthorizationInv, AuthorizationTypeInv, CommandsInv, DecisionInv,
       OperationInv, BlockInv, CommandPlaces, Admitted, Entitled, Unfinished, Kinds, NoDecision,
       Undecided, BothPublished

LEMMA AuthorityFollows == AuthorizationInv => AuthorityPrecedesDispatch
<1> SUFFICES ASSUME AuthorizationInv PROVE AuthorityPrecedesDispatch
  OBVIOUS
<1>1. ASSUME block # NoOwner \/ served
      PROVE  /\ operation.inWindow /\ operation.completed /\ operation.failure = "none"
             /\ decision.kind = "active" /\ ValidPair(decision.pair) /\ nonce /\ receiptFiles = Kinds
  BY <1>1 DEF AuthorizationInv, AuthorizationTypeInv, BlockInv, OperationInv, DecisionInv,
              PairDecided, BothPublished
<1>2. /\ decision.kind \notin {"none", "active"} => control = "failed"
      /\ operation.failure # "none" => control = "failed"
      /\ {kind \in Kinds : outbox[kind] = "published"} \subseteq receiptFiles
  BY DEF AuthorizationInv, OperationInv, DecisionInv
<1> QED BY <1>1, <1>2 DEF AuthorityPrecedesDispatch

(* What a step of one command answers for: its new place.                      *)
LEMMA CommandGoes ==
  ASSUME AuthorizationInv, NEW x \in Command, NEW place \in CommandPlaces, Goes(x, place),
         operation'.inWindow \/ ~operation.inWindow,
         ~Undecided => ~Undecided',
         receiptFiles \subseteq receiptFiles',
         \A y \in Command : y # x /\ command[y] \in Unfinished => ~operation'.completed,
         place \in Admitted => operation'.inWindow,
         place \in Entitled => ~Undecided' /\ \A y \in Command : command[y] \in Entitled => x = y,
         place \in Kinds => place \in receiptFiles',
         place \in Unfinished => ~operation'.completed
  PROVE  CommandsInv' /\ command' \in [Command -> CommandPlaces]
<1>1. command'[x] = place /\ \A y \in Command : y # x => command'[y] = command[y]
  BY DEF Goes, AuthorizationInv, AuthorizationTypeInv
<1>2. command' \in [Command -> CommandPlaces]
  BY DEF Goes, AuthorizationInv, AuthorizationTypeInv
<1>3. ASSUME NEW y \in Command
      PROVE  /\ command'[y] \in Admitted => operation'.inWindow
             /\ command'[y] \in Entitled => ~Undecided'
             /\ command'[y] \in Kinds => command'[y] \in receiptFiles'
             /\ command'[y] \in Unfinished => ~operation'.completed
  <2>1. CASE y = x
    BY <1>1, <2>1
  <2>2. CASE y # x
    BY <1>1, <2>2 DEF AuthorizationInv, CommandsInv
  <2> QED BY <2>1, <2>2
<1>4. \A y, z \in Command : command'[y] \in Entitled /\ command'[z] \in Entitled => y = z
  BY <1>1 DEF AuthorizationInv, CommandsInv
<1> QED BY <1>2, <1>3, <1>4 DEF CommandsInv

(* A command that only goes somewhere else.                                    *)
LEMMA MoveKeeps ==
  ASSUME AuthorizationInv, NEW x \in Command, NEW place \in CommandPlaces, Goes(x, place),
         UNCHANGED <<operation, decision, outbox, receiptFiles, nonce, block, served>>,
         control' \in {control, "failed"},
         place \in Admitted => operation.inWindow,
         place \in Entitled => command[x] \in Entitled,
         place \notin Unfinished
  PROVE  AuthorizationInv'
<1>1. CommandsInv' /\ command' \in [Command -> CommandPlaces]
  <2>1. place \in Entitled => ~Undecided /\ \A y \in Command : command[y] \in Entitled => x = y
    BY DEF AuthorizationInv, CommandsInv
  <2>2. \A y \in Command : command[y] \in Unfinished => ~operation.completed
    BY DEF AuthorizationInv, CommandsInv
  <2>3. place \notin Kinds /\ (~Undecided => ~Undecided') /\ (~Undecided <=> ~Undecided')
    BY DEF Unfinished, Undecided
  <2> QED BY <2>1, <2>2, <2>3, CommandGoes
<1>2. AuthorizationTypeInv' /\ DecisionInv' /\ OperationInv' /\ BlockInv'
  BY <1>1 DEF AuthorizationInv, AuthorizationTypeInv, DecisionInv, OperationInv, BlockInv, Undecided,
     BothPublished, PairDecided, ValidPair
<1> QED BY <1>1, <1>2 DEF AuthorizationInv

LEMMA BeginKeeps ==
  ASSUME AuthorizationInv, NEW x \in Command, BeginAuthorizationOperation(x)
  PROVE  AuthorizationInv'
<1>1. CASE operation.begun
  BY <1>1, MoveKeeps DEF BeginAuthorizationOperation, CommandPlaces, Admitted, Entitled, Unfinished, Kinds
<1>2. CASE ~operation.begun
  <2>1. /\ Goes(x, "begun") /\ "begun" \in CommandPlaces \ Admitted
        /\ UNCHANGED <<decision, outbox, receiptFiles, nonce, control, block, served>>
    BY DEF BeginAuthorizationOperation, CommandPlaces, Admitted, Entitled, Unfinished, Kinds
  <2>2. PICK inWindow \in BOOLEAN :
          operation' = [operation EXCEPT !.begun = TRUE, !.inWindow = inWindow]
    BY <1>2 DEF BeginAuthorizationOperation
  <2>3. /\ operation'.begun /\ operation'.inWindow = inWindow /\ operation'.published = operation.published
        /\ operation'.completed = operation.completed /\ operation'.failure = operation.failure
        /\ operation' \in [begun : BOOLEAN, inWindow : BOOLEAN, published : BOOLEAN, completed : BOOLEAN,
                            failure : {"none", "authorization_publication_deadline",
                                       "authorization_transition_deadline"}]
    BY <2>2 DEF AuthorizationInv, AuthorizationTypeInv
  <2>4. ~operation.inWindow
    BY <1>2 DEF AuthorizationInv, OperationInv
  <2>5. CommandsInv' /\ command' \in [Command -> CommandPlaces]
    <3>1. \A y \in Command : command[y] \in Unfinished => ~operation'.completed
      BY <2>3 DEF AuthorizationInv, CommandsInv
    <3>2. "begun" \notin Entitled \cup Unfinished \cup Kinds /\ (~Undecided => ~Undecided')
      BY <2>1 DEF Admitted, Entitled, Unfinished, Undecided
    <3> QED BY <2>1, <2>4, <3>1, <3>2, CommandGoes
  <2>6. AuthorizationTypeInv'
    BY <2>1, <2>3, <2>5 DEF AuthorizationInv, AuthorizationTypeInv
  <2>7. DecisionInv' /\ OperationInv' /\ BlockInv'
    BY <2>1, <2>3, <2>4 DEF AuthorizationInv, DecisionInv, OperationInv, BlockInv, Undecided,
       BothPublished, PairDecided, ValidPair
  <2> QED BY <2>5, <2>6, <2>7 DEF AuthorizationInv
<1> QED BY <1>1, <1>2

(* Storing a decision where there is none.                                     *)
LEMMA StoreKeeps ==
  ASSUME AuthorizationInv, NEW x \in Command, Undecided,
         NEW kind \in {"active", "readiness_failed", "readiness_predecision_failed"}, NEW reason,
         Store(kind, reason, x), UNCHANGED <<operation, receiptFiles, block, served>>,
         nonce => nonce', kind = "active" => ValidPair(PresentedTo[x]) /\ nonce',
         NEW place \in {"publishing", "failing"}, Goes(x, place),
         place = "publishing" => operation.inWindow
  PROVE  AuthorizationInv'
<1>1. /\ decision'.kind = kind /\ decision'.pair = PresentedTo[x] /\ ~Undecided'
      /\ outbox' = [k \in Kinds |-> "stored"] /\ (kind # "active" => control' = "failed")
      /\ (control = "failed" => control' = "failed")
  BY DEF Store, Undecided, NoDecision
<1>2. /\ \A y \in Command : command[y] \notin Entitled
      /\ ~operation.published /\ ~operation.completed /\ block = NoOwner /\ ~served
  <2>1. ~operation.published
    BY DEF AuthorizationInv, OperationInv, DecisionInv, BothPublished, Kinds
  <2> QED BY <2>1 DEF AuthorizationInv, CommandsInv, OperationInv, BlockInv
<1>3. CommandsInv' /\ command' \in [Command -> CommandPlaces]
  <2>1. /\ place \in CommandPlaces /\ place \notin Kinds
        /\ place \in Admitted => place = "publishing"
    BY DEF CommandPlaces, Admitted, Entitled, Unfinished, Kinds
  <2>2. \A y \in Command : y # x /\ command[y] \in Unfinished => ~operation'.completed
    BY <1>2 DEF Entitled
  <2>3. (place \in Unfinished => ~operation'.completed) /\ (operation'.inWindow \/ ~operation.inWindow)
    BY <1>2
  <2> QED BY <1>1, <1>2, <2>1, <2>2, <2>3, CommandGoes
<1>4. AuthorizationTypeInv'
  BY <1>1, <1>3 DEF AuthorizationInv, AuthorizationTypeInv
<1>5. DecisionInv'
  BY <1>1 DEF AuthorizationInv, DecisionInv, ValidPair
<1>6. OperationInv' /\ BlockInv'
  BY <1>1, <1>2 DEF AuthorizationInv, OperationInv, BlockInv
<1> QED BY <1>3, <1>4, <1>5, <1>6 DEF AuthorizationInv

LEMMA PredecisionKeeps ==
  ASSUME AuthorizationInv, NEW x \in Command, MissesValidation(x) \/ MissesDecision(x)
  PROVE  AuthorizationInv'
<1>1. PICK reason \in {"validation_phase_deadline", "decision_phase_deadline"} : FailPredecision(x, reason)
  BY DEF MissesValidation, MissesDecision
<1>2. CASE Undecided
  BY <1>1, <1>2, StoreKeeps DEF FailPredecision, Undecided
<1>3. CASE ~Undecided
  BY <1>1, <1>3, MoveKeeps DEF FailPredecision, Undecided, CommandPlaces, Admitted, Entitled, Unfinished, Kinds
<1> QED BY <1>2, <1>3

LEMMA CommitKeeps ==
  ASSUME AuthorizationInv, NEW x \in Command, CommitAuthorization(x)
  PROVE  AuthorizationInv'
<1>1. operation.inWindow /\ UNCHANGED <<operation, receiptFiles, block, served>>
  BY DEF CommitAuthorization, Stands, AuthorizationInv, CommandsInv, Admitted
<1>2. CASE Undecided /\ Store("active", "valid_pair", x) /\ nonce' = TRUE /\ Goes(x, "publishing")
           /\ ValidPair(PresentedTo[x])
  BY <1>1, <1>2, StoreKeeps
<1>3. CASE /\ Undecided /\ Store("readiness_failed", "absent_or_invalid_pair", x)
           /\ Goes(x, "publishing") /\ UNCHANGED nonce
  BY <1>1, <1>3, StoreKeeps
<1>4. CASE Goes(x, "failing") /\ UNCHANGED <<decision, outbox, control, nonce>>
  BY <1>1, <1>4, MoveKeeps DEF CommandPlaces, Admitted, Entitled, Unfinished, Kinds
<1> QED BY <1>2, <1>3, <1>4 DEF CommitAuthorization, Granted, SameVerdict

LEMMA PublishKeeps ==
  ASSUME AuthorizationInv, NEW x \in Command, PublishReceipt(x)
  PROVE  AuthorizationInv'
<1>1. PICK kind \in Kinds : receiptFiles' = receiptFiles \cup {kind} /\ Goes(x, kind)
  BY DEF PublishReceipt, Unpublished, Written
<1>2. UNCHANGED <<operation, decision, outbox, nonce, control, block, served>>
  BY DEF PublishReceipt
<1>3. CommandsInv' /\ command' \in [Command -> CommandPlaces]
  <2>1. kind \in Unfinished /\ kind \in CommandPlaces /\ (Undecided <=> Undecided')
    BY <1>2 DEF CommandPlaces, Admitted, Entitled, Unfinished, Undecided
  <2>2. command[x] \in Unfinished /\ command[x] \in Entitled /\ command[x] \in Admitted
    BY DEF PublishReceipt, Stands, Unfinished, Entitled, Admitted
  <2>3. /\ operation.inWindow /\ ~Undecided /\ ~operation.completed
        /\ \A y \in Command : command[y] \in Entitled => x = y
        /\ \A y \in Command : command[y] \in Unfinished => ~operation.completed
    BY <2>2 DEF AuthorizationInv, CommandsInv
  <2> QED BY <1>1, <1>2, <2>1, <2>3, CommandGoes
<1>4. AuthorizationTypeInv' /\ DecisionInv' /\ OperationInv' /\ BlockInv'
  BY <1>1, <1>2, <1>3 DEF AuthorizationInv, AuthorizationTypeInv, DecisionInv, OperationInv, BlockInv,
     Undecided, BothPublished, PairDecided, ValidPair
<1> QED BY <1>3, <1>4 DEF AuthorizationInv

(* What the command that publishes knows.                                      *)
LEMMA Publishes ==
  ASSUME AuthorizationInv, NEW x \in Command, command[x] \in Unfinished
  PROVE  /\ operation.inWindow /\ ~Undecided /\ ~operation.completed /\ block = NoOwner /\ ~served
         /\ \A y \in Command : command[y] \in Entitled => x = y
         /\ \A y \in Command : command[y] \in Unfinished => ~operation.completed
BY DEF AuthorizationInv, CommandsInv, BlockInv, Entitled, Admitted

(* The operation fails, before it is completed: the run fails with it.         *)
LEMMA FailureKeeps ==
  ASSUME AuthorizationInv, NEW x \in Command, command[x] \in Unfinished,
         NEW reason \in {"authorization_publication_deadline", "authorization_transition_deadline"},
         FailOperation(reason)
  PROVE  /\ operation' \in [begun : BOOLEAN, inWindow : BOOLEAN, published : BOOLEAN, completed : BOOLEAN,
                            failure : {"none", "authorization_publication_deadline",
                                       "authorization_transition_deadline"}]
         /\ operation'.inWindow = operation.inWindow /\ operation'.begun = operation.begun
         /\ operation'.published = operation.published /\ ~operation'.completed /\ control' = "failed"
<1>1. ~operation.completed
  BY Publishes
<1> QED BY <1>1 DEF FailOperation, AuthorizationInv, AuthorizationTypeInv

LEMMA MarkKeeps ==
  ASSUME AuthorizationInv, NEW x \in Command, NEW kind \in Kinds, MarkPublished(x, kind)
  PROVE  AuthorizationInv'
<1>1. /\ command[x] = kind /\ kind \in Unfinished /\ kind \in receiptFiles
      /\ outbox' = [outbox EXCEPT ![kind] = "published"] /\ Goes(x, "publishing")
      /\ UNCHANGED <<decision, receiptFiles, nonce, block, served>>
  BY DEF MarkPublished, Stands, Unfinished, AuthorizationInv, CommandsInv
<1>2. /\ operation' \in [begun : BOOLEAN, inWindow : BOOLEAN, published : BOOLEAN, completed : BOOLEAN,
                        failure : {"none", "authorization_publication_deadline",
                                   "authorization_transition_deadline"}]
      /\ operation'.inWindow = operation.inWindow /\ operation'.begun = operation.begun
      /\ operation'.published = operation.published /\ ~operation'.completed
      /\ control' \in {control, "failed"} /\ (operation'.failure # "none" => control' = "failed")
  <2>1. CASE Missed(Publication)
    BY <1>1, <2>1, FailureKeeps DEF MarkPublished
  <2>2. CASE ~Missed(Publication)
    BY <1>1, <2>2, Publishes DEF MarkPublished, AuthorizationInv, AuthorizationTypeInv, OperationInv
  <2> QED BY <2>1, <2>2
<1>3. CommandsInv' /\ command' \in [Command -> CommandPlaces]
  <2>1. "publishing" \in CommandPlaces /\ "publishing" \notin Kinds /\ (Undecided <=> Undecided')
    BY <1>1 DEF CommandPlaces, Admitted, Entitled, Unfinished, Undecided, Kinds
  <2> QED BY <1>1, <1>2, <2>1, Publishes, CommandGoes
<1>4. AuthorizationTypeInv' /\ OperationInv' /\ BlockInv'
  BY <1>1, <1>2, <1>3, Publishes DEF AuthorizationInv, AuthorizationTypeInv, OperationInv, BlockInv, BothPublished
<1>5. DecisionInv'
  BY <1>1, <1>2, Publishes DEF AuthorizationInv, AuthorizationTypeInv, DecisionInv, Undecided, ValidPair
<1> QED BY <1>3, <1>4, <1>5 DEF AuthorizationInv

(* The end of the publication, and of the operation, in time or not.           *)
LEMMA FinishKeeps ==
  ASSUME AuthorizationInv, NEW x \in Command, FinishPublication(x) \/ CompleteAuthorizationOperation(x)
  PROVE  AuthorizationInv'
<1>1. /\ command[x] \in Unfinished
      /\ UNCHANGED <<decision, outbox, receiptFiles, nonce, block, served>>
  BY DEF FinishPublication, CompleteAuthorizationOperation, Stands, Unfinished
<1>2. PICK place \in {"completing", "authorized", "failing"} : Goes(x, place)
  BY DEF FinishPublication, CompleteAuthorizationOperation
<1>3. \/ /\ \E reason \in {"authorization_publication_deadline", "authorization_transition_deadline"} :
              FailOperation(reason)
         /\ Goes(x, "failing")
      \/ /\ operation' = [operation EXCEPT !.published = TRUE] /\ UNCHANGED control
         /\ BothPublished /\ Goes(x, "completing")
      \/ /\ operation' = [operation EXCEPT !.completed = TRUE] /\ UNCHANGED control
         /\ operation.published /\ operation.failure = "none" /\ (Goes(x, "authorized") \/ Goes(x, "failing"))
  <2>1. Unpublished = {} /\ ~Undecided => BothPublished
    BY DEF Unpublished, BothPublished, AuthorizationInv, AuthorizationTypeInv, DecisionInv
  <2> QED BY <1>1, <2>1, Publishes DEF FinishPublication, CompleteAuthorizationOperation, TransitionAllowed
<1>4. /\ operation' \in [begun : BOOLEAN, inWindow : BOOLEAN, published : BOOLEAN, completed : BOOLEAN,
                        failure : {"none", "authorization_publication_deadline",
                                   "authorization_transition_deadline"}]
      /\ operation'.inWindow = operation.inWindow /\ operation'.begun = operation.begun
      /\ operation'.published => BothPublished
      /\ operation'.completed => operation'.published /\ operation'.failure = "none"
      /\ control' \in {control, "failed"} /\ (operation'.failure # "none" => control' = "failed")
  BY <1>1, <1>3, FailureKeeps, Publishes DEF AuthorizationInv, AuthorizationTypeInv, OperationInv
<1>5. CommandsInv' /\ command' \in [Command -> CommandPlaces]
  <2>1. CASE operation'.completed
    <3>1. PICK next \in {"authorized", "failing"} : Goes(x, next)
      BY <1>1, <1>3, <2>1, FailureKeeps, Publishes DEF AuthorizationInv, AuthorizationTypeInv
    <3>2. /\ next \in CommandPlaces /\ next \notin Kinds /\ next \notin Unfinished
          /\ \A y \in Command : command[y] \in Unfinished => x = y
      BY <1>1, Publishes DEF CommandPlaces, Admitted, Entitled, Unfinished, Kinds
    <3> QED BY <1>1, <1>4, <3>1, <3>2, Publishes, CommandGoes DEF Undecided
  <2>2. CASE ~operation'.completed
    <3>1. place \in CommandPlaces /\ place \notin Kinds
      BY DEF CommandPlaces, Admitted, Entitled, Unfinished, Kinds
    <3> QED BY <1>1, <1>2, <1>4, <2>2, <3>1, Publishes, CommandGoes DEF Undecided
  <2> QED BY <2>1, <2>2
<1>6. AuthorizationTypeInv' /\ OperationInv' /\ BlockInv'
  BY <1>1, <1>4, <1>5, Publishes DEF AuthorizationInv, AuthorizationTypeInv, OperationInv, BlockInv, BothPublished
<1>7. DecisionInv'
  BY <1>1, <1>4 DEF AuthorizationInv, DecisionInv, Undecided, ValidPair
<1> QED BY <1>5, <1>6, <1>7 DEF AuthorizationInv

LEMMA ClaimBlockKeeps ==
  ASSUME AuthorizationInv, NEW x \in Command, ClaimBlock(x)
  PROVE  AuthorizationInv'
<1>1. /\ operation.inWindow /\ operation.completed /\ PairDecided
      /\ UNCHANGED <<operation, decision, outbox, receiptFiles, nonce, control, served>>
  BY DEF ClaimBlock, Claimable, Stands, AuthorizationInv, CommandsInv, Admitted, Entitled
<1>2. CommandsInv' /\ command' \in [Command -> CommandPlaces]
  <2>1. /\ Goes(x, "claimed") /\ "claimed" \in CommandPlaces /\ "claimed" \notin Unfinished
        /\ "claimed" \notin Kinds /\ command[x] \in Entitled
    BY DEF ClaimBlock, Stands, CommandPlaces, Admitted, Entitled, Unfinished, Kinds
  <2>2. /\ ~Undecided /\ (Undecided <=> Undecided')
        /\ \A y \in Command : command[y] \in Entitled => x = y
        /\ \A y \in Command : command[y] \in Unfinished => ~operation.completed
    BY <1>1, <2>1 DEF AuthorizationInv, CommandsInv, Undecided
  <2> QED BY <1>1, <2>1, <2>2, CommandGoes
<1>3. AuthorizationTypeInv' /\ DecisionInv' /\ OperationInv' /\ BlockInv'
  <2>1. served => block' # NoOwner
    BY DEF ClaimBlock, AuthorizationInv, BlockInv
  <2> QED BY <1>1, <1>2, <2>1 DEF AuthorizationInv, AuthorizationTypeInv, DecisionInv, OperationInv,
          BlockInv, Undecided, BothPublished, PairDecided, ValidPair
<1> QED BY <1>2, <1>3 DEF AuthorizationInv

LEMMA OtherCommandStepsKeep ==
  ASSUME AuthorizationInv, NEW x \in Command,
         \/ RecordReadiness(x) \/ Verify(x) \/ RegisterSealedCalls(x)
         \/ Throws(x) \/ FailProtocol(x) \/ CommandDies(x)
  PROVE  AuthorizationInv'
<1>1. PICK place \in {"ready", "deciding", "running", "failing", "ended"} :
        /\ Goes(x, place) /\ control' \in {control, "failed"}
        /\ place \in {"ready", "deciding"} => operation.inWindow
        /\ place = "running" => command[x] = "authorized"
  BY DEF RecordReadiness, Verify, RegisterSealedCalls, Throws, FailProtocol, CommandDies, Stands,
     AuthorizationInv, CommandsInv, Admitted
<1>2. UNCHANGED <<operation, decision, outbox, receiptFiles, nonce, block, served>>
  BY DEF RecordReadiness, Verify, RegisterSealedCalls, Throws, FailProtocol, CommandDies
<1>3. /\ place \in CommandPlaces /\ place \notin Unfinished
      /\ place \in Entitled => command[x] \in Entitled
      /\ place \in Admitted => operation.inWindow
  BY <1>1 DEF CommandPlaces, Admitted, Entitled, Unfinished, Kinds, AuthorizationInv, CommandsInv
<1> QED BY <1>1, <1>2, <1>3, MoveKeeps

(* However many commands there are, whenever they fail, die and are late.      *)
THEOREM AuthorityAlwaysPrecedes == AuthorizationSpec => []AuthorityPrecedesDispatch
<1>1. AuthorizationInv /\ [AuthorizationNext]_authorizationVars => AuthorizationInv'
  <2> SUFFICES ASSUME AuthorizationInv, [AuthorizationNext]_authorizationVars PROVE AuthorizationInv'
    OBVIOUS
  <2>1. ASSUME NEW x \in Command,
               \/ BeginAuthorizationOperation(x) \/ MissesValidation(x) \/ MissesDecision(x)
               \/ RecordReadiness(x) \/ Verify(x) \/ CommitAuthorization(x)
               \/ PublishReceipt(x) \/ FinishPublication(x) \/ CompleteAuthorizationOperation(x)
               \/ \E kind \in Kinds : MarkPublished(x, kind)
               \/ RegisterSealedCalls(x) \/ ClaimBlock(x)
               \/ Throws(x) \/ FailProtocol(x) \/ CommandDies(x)
        PROVE  AuthorizationInv'
    BY <2>1, BeginKeeps, PredecisionKeeps, CommitKeeps, PublishKeeps, MarkKeeps, FinishKeeps,
       ClaimBlockKeeps, OtherCommandStepsKeep
  <2>2. CASE AuthorizeHttpReliabilityContext
    BY <2>2 DEF AuthorizeHttpReliabilityContext, AuthorizationInv, AuthorizationTypeInv, CommandsInv,
       DecisionInv, OperationInv, BlockInv, Undecided, BothPublished, PairDecided, ValidPair
  <2>3. CASE PassDeadline \/ UNCHANGED authorizationVars
    BY <2>3 DEF PassDeadline, authorizationVars, AuthorizationInv, AuthorizationTypeInv, CommandsInv,
       DecisionInv, OperationInv, BlockInv, Undecided, BothPublished, PairDecided, ValidPair
  <2> QED BY <2>1, <2>2, <2>3 DEF AuthorizationNext
<1> QED BY <1>1, AuthorizationInitial, AuthorityFollows, PTL DEF AuthorizationSpec

-----------------------------------------------------------------------------
(* The claims of a call.  What a worker publishes is of a generation that was  *)
(* acquired; once it is in the file, the file only moves on from it, and not   *)
(* at all when it is terminal.                                                 *)
InTheFile == {"unlocking", "recording"}

ClaimPlaces == InTheFile \cup {"idle", "publishing", "writing", "calling", "waiting", "answered",
                               "recovering", "ended"}

Owners == {OwnerOf[w] : w \in Worker} \cup {Nobody}

Numbered(m) == m.state # "terminal" => m.sequence <= 3

WorkersInv ==
  /\ worker \in [Worker -> [at : ClaimPlaces, manifest : Manifests]]
  /\ \A w \in Worker :
       /\ Numbered(worker[w].manifest)
       /\ worker[w].manifest.generation <= claim.generation
       /\ worker[w].at = "recovering" => worker[w].manifest.state = "terminal"
       /\ worker[w].at \in InTheFile =>
            /\ Rank[worker[w].manifest.state] <= Rank[file.state]
            /\ worker[w].manifest.state = "terminal" => file = worker[w].manifest

ClaimsInv ==
  /\ writeLock \in Worker \cup {Nobody}
  /\ claim \in [state : DOMAIN Rank, owner : Owners, generation : 0..MaxGeneration, live : BOOLEAN,
                digest : Manifests]
  /\ file \in Manifests /\ Numbered(file)
  /\ WorkersInv /\ ManifestsBackClaims

LEMMA Ranks ==
  /\ DOMAIN Rank = {"absent", "claimed", "admission_started", "awaiting_outcome", "terminal"}
  /\ Rank["absent"] = 0 /\ Rank["terminal"] = 4
  /\ \A s \in DOMAIN Rank : Rank[s] \in 0..4
BY DEF Rank

LEMMA Follows ==
  ASSUME NEW m \in Manifests, NEW state \in DOMAIN Rank, NEW sequence \in 0..4
  PROVE  /\ Following(m, state, sequence) \in Manifests
         /\ Following(m, state, sequence).state = state
         /\ Following(m, state, sequence).sequence = sequence
         /\ Following(m, state, sequence).generation = m.generation
<1>1. Manifests = [state : DOMAIN Rank, sequence : 0..4, owner : Owners, generation : 0..MaxGeneration]
  BY DEF Manifests, Owners
<1> QED BY <1>1 DEF Following, Manifest

LEMMA ClaimsInitial == ClaimsInit => ClaimsInv
<1> SUFFICES ASSUME ClaimsInit PROVE ClaimsInv
  OBVIOUS
<1>1. NoManifest \in Manifests /\ Numbered(NoManifest) /\ NoManifest.state = "absent" /\ NoManifest.generation = 0
  BY ClaimsAssumption, Ranks DEF NoManifest, Manifest, Manifests, Numbered
<1> QED BY <1>1, ClaimsAssumption, Ranks DEF ClaimsInit, ClaimsInv, WorkersInv, ManifestsBackClaims,
        ClaimsTypeOK, NoClaim, ClaimPlaces, InTheFile, Owners

(* What a step of one worker answers for.                                      *)
LEMMA WorkerGoes ==
  ASSUME ClaimsInv, NEW w \in Worker, NEW place \in ClaimPlaces, NEW m \in Manifests,
         worker' = [worker EXCEPT ![w] = [at |-> place, manifest |-> m]],
         Numbered(m), m.generation <= claim'.generation,
         claim'.generation \in 0..MaxGeneration, claim.generation <= claim'.generation,
         file' \in Manifests, Rank[file.state] <= Rank[file'.state],
         file.state = "terminal" => file' = file,
         place = "recovering" => m.state = "terminal",
         place \in InTheFile =>
           /\ Rank[m.state] <= Rank[file'.state]
           /\ m.state = "terminal" => file' = m
  PROVE  WorkersInv'
<1>1. worker'[w] = [at |-> place, manifest |-> m] /\ \A v \in Worker : v # w => worker'[v] = worker[v]
  BY DEF ClaimsInv, WorkersInv
<1>2. worker' \in [Worker -> [at : ClaimPlaces, manifest : Manifests]]
  BY DEF ClaimsInv, WorkersInv
<1>3. ASSUME NEW v \in Worker
      PROVE  /\ Numbered(worker'[v].manifest)
             /\ worker'[v].manifest.generation <= claim'.generation
             /\ worker'[v].at = "recovering" => worker'[v].manifest.state = "terminal"
             /\ worker'[v].at \in InTheFile =>
                  /\ Rank[worker'[v].manifest.state] <= Rank[file'.state]
                  /\ worker'[v].manifest.state = "terminal" => file' = worker'[v].manifest
  <2>1. CASE v = w
    BY <1>1, <2>1
  <2>2. CASE v # w
    <3>1. /\ worker[v].manifest \in Manifests /\ worker[v].manifest.generation \in Nat
          /\ claim.generation \in Nat /\ claim'.generation \in Nat
      BY DEF ClaimsInv, WorkersInv, Manifests
    <3>2. worker'[v].manifest.generation <= claim'.generation
      BY <1>1, <2>2, <3>1 DEF ClaimsInv, WorkersInv
    <3>3. /\ Rank[worker[v].manifest.state] \in Nat /\ Rank[file.state] \in Nat /\ Rank[file'.state] \in Nat
      BY <3>1, Ranks DEF ClaimsInv, Manifests
    <3>4. worker[v].at \in InTheFile => Rank[worker[v].manifest.state] <= Rank[file'.state]
      BY <3>3 DEF ClaimsInv, WorkersInv
    <3> QED BY <1>1, <2>2, <3>2, <3>4 DEF ClaimsInv, WorkersInv
  <2> QED BY <2>1, <2>2
<1> QED BY <1>2, <1>3 DEF WorkersInv, Numbered

(* A worker that changes neither the claim nor the file.                       *)
LEMMA QuietWorker ==
  ASSUME ClaimsInv, NEW w \in Worker, NEW place \in ClaimPlaces, NEW m \in Manifests,
         worker' = [worker EXCEPT ![w] = [at |-> place, manifest |-> m]],
         UNCHANGED <<claim, file>>, Numbered(m), m.generation <= claim.generation,
         place = "recovering" => m.state = "terminal",
         place \in InTheFile => worker[w].at \in InTheFile /\ m = worker[w].manifest,
         writeLock' \in Worker \cup {Nobody}, attempt' = attempt
  PROVE  ClaimsInv'
<1>1. Rank[file.state] <= Rank[file'.state] /\ claim.generation <= claim'.generation
  BY Ranks DEF ClaimsInv, Manifests
<1>2. WorkersInv'
  BY <1>1, WorkerGoes DEF ClaimsInv, WorkersInv
<1> QED BY <1>2 DEF ClaimsInv, ManifestsBackClaims, ClaimsTypeOK, WorkersInv, Numbered

LEMMA GoesOn ==
  ASSUME ClaimsInv, NEW w \in Worker, NEW place, GoOn(w, place)
  PROVE  /\ worker' = [worker EXCEPT ![w] = [at |-> place, manifest |-> worker[w].manifest]]
         /\ worker[w].manifest \in Manifests /\ Numbered(worker[w].manifest)
         /\ worker[w].manifest.generation <= claim.generation
<1>1. worker[w] \in [at : ClaimPlaces, manifest : Manifests]
  BY DEF ClaimsInv, WorkersInv
<1>2. [worker[w] EXCEPT !.at = place] = [at |-> place, manifest |-> worker[w].manifest]
  BY <1>1
<1> QED BY <1>1, <1>2 DEF GoOn, ClaimsInv, WorkersInv

(* A call that goes nowhere near the file.                                     *)
LEMMA JustGoes ==
  ASSUME ClaimsInv, NEW w \in Worker, NEW place \in ClaimPlaces \ InTheFile, GoOn(w, place), place # "recovering",
         UNCHANGED <<claim, file>>, writeLock' \in Worker \cup {Nobody}, attempt' = attempt
  PROVE  ClaimsInv'
BY GoesOn, QuietWorker

LEMMA AcquireKeeps ==
  ASSUME ClaimsInv, NEW w \in Worker, AcquireSchedulerClaim(w)
  PROVE  ClaimsInv'
<1> DEFINE next == NextGeneration(w)
           m == Manifest("claimed", 1, OwnerOf[w], next)
<1>1. /\ claim' = [claim EXCEPT !.state = "claimed", !.owner = OwnerOf[w], !.generation = next, !.live = TRUE]
      /\ worker' = [worker EXCEPT ![w] = [at |-> "publishing", manifest |-> m]]
      /\ UNCHANGED <<protocol, attempt, asked, file, writeLock>>
      /\ claim.state # "terminal"
  BY DEF AcquireSchedulerClaim, Publishing, Acquirable
<1>2. next \in 0..MaxGeneration /\ claim.generation <= next
  BY ClaimsAssumption DEF AcquireSchedulerClaim, NextGeneration, ClaimsInv
<1> HIDE DEF next
<1>3. m \in Manifests /\ Numbered(m) /\ m.generation = next /\ m.state = "claimed"
  BY <1>2, Ranks DEF Manifest, Manifests, Numbered
<1>4. claim' \in [state : DOMAIN Rank, owner : Owners, generation : 0..MaxGeneration, live : BOOLEAN,
                  digest : Manifests]
      /\ claim'.generation = next /\ claim'.state = "claimed" /\ claim'.digest = claim.digest
  BY <1>1, <1>2, Ranks DEF ClaimsInv, Owners
<1>5. WorkersInv'
  <2>1. Rank[file.state] <= Rank[file'.state] /\ "publishing" \in ClaimPlaces \ InTheFile
    BY <1>1, Ranks DEF ClaimsInv, Manifests, ClaimPlaces, InTheFile
  <2>2. /\ m.generation <= claim'.generation /\ claim'.generation \in 0..MaxGeneration
        /\ claim.generation <= claim'.generation /\ file' \in Manifests /\ file' = file
    BY <1>1, <1>2, <1>3, <1>4 DEF ClaimsInv
  <2> HIDE DEF m
  <2> QED BY <1>1, <1>3, <2>1, <2>2, WorkerGoes
<1>6. ManifestsBackClaims'
  <2>1. /\ claim.digest.generation \in Nat /\ file.generation \in Nat /\ claim.generation \in Nat /\ next \in Nat
    BY <1>2 DEF ClaimsInv, Manifests
  <2>2. claim'.digest.generation <= claim'.generation /\ file'.generation <= claim'.generation
    BY <1>1, <1>2, <1>4, <2>1 DEF ClaimsInv, ManifestsBackClaims
  <2>3. ClaimsTypeOK'
    BY <1>1, <1>4, <1>5 DEF ClaimsInv, ClaimsTypeOK, WorkersInv
  <2> QED BY <1>1, <1>4, <2>2, <2>3 DEF ClaimsInv, ManifestsBackClaims
<1> QED BY <1>1, <1>4, <1>5, <1>6 DEF ClaimsInv, Numbered

LEMMA NotAcquiredKeeps ==
  ASSUME ClaimsInv, NEW w \in Worker, NotAcquired(w)
  PROVE  ClaimsInv'
<1>1. CASE DispatchOriginal
  BY <1>1, JustGoes DEF NotAcquired, ClaimPlaces, InTheFile, ClaimsInv
<1>2. CASE ~DispatchOriginal
  <2> DEFINE m == Manifest("terminal", 0, OwnerOf[w], claim.generation)
  <2>1. worker' = [worker EXCEPT ![w] = [at |-> "recovering", manifest |-> m]]
    BY <1>2 DEF NotAcquired
  <2>2. m \in Manifests /\ Numbered(m) /\ m.generation = claim.generation /\ m.state = "terminal"
    BY Ranks DEF ClaimsInv, Manifest, Manifests, Numbered
  <2>3. /\ "recovering" \in ClaimPlaces \ InTheFile
        /\ UNCHANGED <<claim, file>> /\ writeLock' \in Worker \cup {Nobody} /\ attempt' = attempt
        /\ claim.generation <= claim.generation
    BY DEF NotAcquired, ClaimPlaces, InTheFile, ClaimsInv
  <2> QED BY <2>1, <2>2, <2>3, QuietWorker
<1> QED BY <1>1, <1>2

LEMMA OpenLockKeeps ==
  ASSUME ClaimsInv, NEW w \in Worker, OpenLock(w)
  PROVE  ClaimsInv'
<1>1. PICK place \in {"writing", "ended"} : GoOn(w, place)
  BY DEF OpenLock
<1>2. /\ place \in ClaimPlaces \ InTheFile /\ writeLock' \in Worker \cup {Nobody}
      /\ UNCHANGED <<claim, file>> /\ attempt' = attempt
  BY DEF OpenLock, ClaimPlaces, InTheFile, ClaimsInv
<1> QED BY <1>1, <1>2, JustGoes

(* The file moves on to what the worker publishes, or the worker ends.         *)
LEMMA ReplaceKeeps ==
  ASSUME ClaimsInv, NEW w \in Worker, Replace(w)
  PROVE  ClaimsInv'
<1> DEFINE m == worker[w].manifest
<1>1. CASE ~Replaceable(m)
  BY <1>1, JustGoes DEF Replace, ClaimPlaces, InTheFile, ClaimsInv
<1>2. CASE Replaceable(m)
  <2>1. /\ file' = m /\ GoOn(w, "unlocking") /\ UNCHANGED <<claim, attempt, writeLock>>
        /\ "unlocking" \in ClaimPlaces
    BY <1>2 DEF Replace, ClaimPlaces, InTheFile
  <2>2. m \in Manifests /\ Numbered(m) /\ m.generation <= claim.generation
    BY DEF ClaimsInv, WorkersInv
  <2>3. /\ Rank[file.state] \in Nat /\ Rank[m.state] \in Nat /\ Rank[claim.digest.state] \in Nat
        /\ Rank[file.state] <= Rank[m.state] /\ Rank[m.state] <= Rank[m.state]
        /\ file.state = "terminal" => m = file
    <3>1. Rank[NoManifest.state] = 0 /\ NoManifest.state # "terminal"
      BY Ranks DEF NoManifest, Manifest
    <3>2. /\ Rank[file.state] \in Nat /\ Rank[m.state] \in Nat /\ Rank[claim.digest.state] \in Nat
      BY <2>2, Ranks DEF ClaimsInv, Manifests
    <3> QED BY <1>2, <3>1, <3>2 DEF Replaceable
  <2>4. WorkersInv'
    <3>1. /\ claim'.generation \in 0..MaxGeneration /\ claim.generation <= claim'.generation
      BY <2>1 DEF ClaimsInv
    <3> QED BY <2>1, <2>2, <2>3, <3>1, GoesOn, WorkerGoes
  <2>5. ManifestsBackClaims'
    <3>1. Rank[claim.digest.state] <= Rank[file'.state]
      BY <2>1, <2>3 DEF ClaimsInv, ManifestsBackClaims
    <3>2. ClaimsTypeOK'
      BY <2>1, <2>2, <2>4 DEF ClaimsInv, ClaimsTypeOK, WorkersInv
    <3>3. claim.digest.state = "terminal" => claim.digest = file'
      BY <2>1, <2>3 DEF ClaimsInv, ManifestsBackClaims
    <3> QED BY <2>1, <2>2, <3>1, <3>2, <3>3 DEF ClaimsInv, ManifestsBackClaims
  <2> QED BY <2>1, <2>2, <2>4, <2>5 DEF ClaimsInv, Numbered
<1> QED BY <1>1, <1>2

LEMMA RemoveLockKeeps ==
  ASSUME ClaimsInv, NEW w \in Worker, RemoveLock(w)
  PROVE  ClaimsInv'
<1>1. /\ GoOn(w, "recording") /\ UNCHANGED <<claim, file>> /\ writeLock' = Nobody /\ attempt' = attempt
      /\ worker[w].at \in InTheFile /\ "recording" \in ClaimPlaces
  BY DEF RemoveLock, Doing, ClaimPlaces, InTheFile
<1> QED BY <1>1, GoesOn, QuietWorker

(* The claim records what was in the file, of its own generation.              *)
LEMMA RecordKeeps ==
  ASSUME ClaimsInv, NEW w \in Worker, RecordSchedulerManifestFsynced(w)
  PROVE  ClaimsInv'
<1> DEFINE m == worker[w].manifest
<1>1. CASE ~Recordable(w, m)
  BY <1>1, JustGoes DEF RecordSchedulerManifestFsynced, ClaimPlaces, InTheFile, ClaimsInv
<1>2. CASE Recordable(w, m)
  <2>1. /\ claim' = [claim EXCEPT !.state = m.state, !.digest = m] /\ Proceed(w, m)
        /\ UNCHANGED <<protocol, attempt, asked, file, writeLock>>
        /\ m.state # "terminal" /\ claim.generation = m.generation /\ claim.state # "terminal"
        /\ worker[w].at \in InTheFile
    BY <1>2 DEF RecordSchedulerManifestFsynced, Recordable, Doing, InTheFile
  <2>2. m \in Manifests /\ Numbered(m) /\ Rank[m.state] <= Rank[file.state] /\ m.generation <= claim.generation
    BY <2>1 DEF ClaimsInv, WorkersInv
  <2>3. /\ claim' \in [state : DOMAIN Rank, owner : Owners, generation : 0..MaxGeneration, live : BOOLEAN,
                        digest : Manifests]
        /\ claim'.generation = claim.generation /\ claim'.state = m.state /\ claim'.digest = m
    BY <2>1, <2>2 DEF ClaimsInv, Manifests
  <2>4. WorkersInv'
    <3>1. /\ claim'.generation \in 0..MaxGeneration /\ claim.generation <= claim'.generation
          /\ Rank[file.state] <= Rank[file'.state]
      BY <2>1, <2>3, Ranks DEF ClaimsInv, Manifests
    <3>2. CASE m.state = "claimed" /\ Publishing(w, Following(m, "admission_started", 2))
      <4> DEFINE next == Following(m, "admission_started", 2)
      <4>1. next \in Manifests /\ Numbered(next) /\ next.generation = m.generation
        BY <2>2, Ranks, Follows DEF Numbered
      <4>2. "publishing" \in ClaimPlaces \ InTheFile
        BY DEF ClaimPlaces, InTheFile
      <4>3. worker' = [worker EXCEPT ![w] = [at |-> "publishing", manifest |-> next]]
        BY <3>2 DEF Publishing
      <4> HIDE DEF next
      <4> QED BY <2>1, <2>2, <2>3, <3>1, <4>1, <4>2, <4>3, WorkerGoes DEF ClaimsInv
    <3>3. CASE GoOn(w, "calling") \/ GoOn(w, "answered")
      <4>1. PICK place \in ClaimPlaces \ (InTheFile \cup {"recovering"}) : GoOn(w, place)
        BY <3>3 DEF ClaimPlaces, InTheFile
      <4> QED BY <2>1, <2>2, <2>3, <3>1, <4>1, GoesOn, WorkerGoes DEF ClaimsInv
    <3> QED BY <2>1, <3>2, <3>3 DEF Proceed
  <2>5. ManifestsBackClaims'
    <3>1. ClaimsTypeOK'
      BY <2>1, <2>2, <2>3, <2>4 DEF ClaimsInv, ClaimsTypeOK, WorkersInv
    <3> QED BY <2>1, <2>2, <2>3, <3>1 DEF ClaimsInv, ManifestsBackClaims
  <2> QED BY <2>1, <2>3, <2>4, <2>5 DEF ClaimsInv, Numbered
<1> QED BY <1>1, <1>2

(* A call that ended makes its claim terminal, before its manifest is.         *)
LEMMA TerminalizeKeeps ==
  ASSUME ClaimsInv, NEW w \in Worker, TerminalizeSchedulerClaim(w)
  PROVE  ClaimsInv'
<1> DEFINE m == worker[w].manifest
           next == Following(m, "terminal", 4)
<1>1. /\ claim' = [claim EXCEPT !.state = "terminal", !.live = FALSE]
      /\ worker' = [worker EXCEPT ![w] = [at |-> "publishing", manifest |-> next]]
      /\ UNCHANGED <<protocol, attempt, asked, file, writeLock>>
      /\ attempt = "terminal" /\ "publishing" \in ClaimPlaces \ InTheFile
  BY DEF TerminalizeSchedulerClaim, Publishing, ClaimPlaces, InTheFile
<1>2. m \in Manifests /\ m.generation <= claim.generation
  BY DEF ClaimsInv, WorkersInv
<1>3. next \in Manifests /\ Numbered(next) /\ next.generation = m.generation
  BY <1>2, Ranks, Follows DEF Numbered
<1> HIDE DEF next
<1>4. /\ claim' \in [state : DOMAIN Rank, owner : Owners, generation : 0..MaxGeneration, live : BOOLEAN,
                     digest : Manifests]
      /\ claim'.generation = claim.generation /\ claim'.state = "terminal" /\ claim'.digest = claim.digest
  BY <1>1, Ranks DEF ClaimsInv
<1>5. WorkersInv'
  <2>1. /\ claim'.generation \in 0..MaxGeneration /\ claim.generation <= claim'.generation
        /\ Rank[file.state] <= Rank[file'.state] /\ file' \in Manifests /\ file' = file
        /\ next.generation <= claim'.generation
    BY <1>1, <1>2, <1>3, <1>4, Ranks DEF ClaimsInv, Manifests
  <2> QED BY <1>1, <1>3, <2>1, WorkerGoes
<1>6. ManifestsBackClaims'
  <2>1. ClaimsTypeOK'
    BY <1>1, <1>4, <1>5 DEF ClaimsInv, ClaimsTypeOK, WorkersInv
  <2> QED BY <1>1, <1>4, <2>1 DEF ClaimsInv, ManifestsBackClaims
<1> QED BY <1>1, <1>4, <1>5, <1>6 DEF ClaimsInv, Numbered

(* A terminal manifest of the claim's own generation: it is in the file.       *)
LEMMA RecoveredKeeps ==
  ASSUME ClaimsInv, NEW w \in Worker, RecordRecoveredTerminalSchedulerManifest(w)
  PROVE  ClaimsInv'
<1> DEFINE m == worker[w].manifest
<1>1. CASE claim' = claim
  BY <1>1, JustGoes DEF RecordRecoveredTerminalSchedulerManifest, ClaimPlaces, InTheFile, ClaimsInv
<1>2. CASE claim.state = "terminal" /\ claim.generation = m.generation /\ claim' = [claim EXCEPT !.digest = m]
  <2>1. /\ UNCHANGED <<attempt, file, writeLock>> /\ GoOn(w, "ended") /\ "ended" \in ClaimPlaces \ InTheFile
        /\ m \in Manifests /\ file = m /\ m.state = "terminal"
    BY DEF RecordRecoveredTerminalSchedulerManifest, Doing, ClaimPlaces, InTheFile, ClaimsInv, WorkersInv
  <2>2. /\ claim' \in [state : DOMAIN Rank, owner : Owners, generation : 0..MaxGeneration, live : BOOLEAN,
                       digest : Manifests]
        /\ claim'.generation = claim.generation /\ claim'.state = claim.state /\ claim'.digest = m
    BY <1>2, <2>1 DEF ClaimsInv
  <2>3. /\ claim'.generation \in 0..MaxGeneration /\ claim.generation <= claim'.generation
        /\ Rank[file.state] <= Rank[file'.state] /\ file' \in Manifests /\ file' = file
        /\ Numbered(m) /\ m.generation <= claim'.generation
    BY <2>1, <2>2, Ranks DEF ClaimsInv, Manifests, WorkersInv
  <2>4. WorkersInv'
    BY <2>1, <2>3, GoesOn, WorkerGoes
  <2>5. ManifestsBackClaims'
    <3>1. ClaimsTypeOK'
      BY <2>1, <2>2, <2>3, <2>4 DEF ClaimsInv, ClaimsTypeOK, WorkersInv
    <3> QED BY <1>2, <2>1, <2>2, <2>3, <3>1 DEF ClaimsInv, ManifestsBackClaims
  <2> QED BY <2>1, <2>2, <2>3, <2>4, <2>5 DEF ClaimsInv
<1> QED BY <1>1, <1>2 DEF RecordRecoveredTerminalSchedulerManifest

LEMMA RepairKeeps ==
  ASSUME ClaimsInv, NEW w \in Worker, RepairManifest(w)
  PROVE  ClaimsInv'
<1>1. CASE file.state = "terminal"
  BY <1>1, JustGoes DEF RepairManifest, ClaimPlaces, InTheFile, ClaimsInv
<1>2. CASE file.state # "terminal"
  <2> DEFINE m == worker[w].manifest
             sequence == IF file = NoManifest THEN 4 ELSE file.sequence + 1
             next == [m EXCEPT !.sequence = sequence]
  <2>1. /\ worker' = [worker EXCEPT ![w] = [at |-> "publishing", manifest |-> next]]
        /\ UNCHANGED <<attempt, claim, file, writeLock>> /\ "publishing" \in ClaimPlaces \ InTheFile
    BY <1>2 DEF RepairManifest, Publishing, ClaimPlaces, InTheFile
  <2>2. m \in Manifests /\ m.generation <= claim.generation /\ sequence \in 0..4
    BY <1>2 DEF ClaimsInv, WorkersInv, Manifests, Numbered
  <2> HIDE DEF sequence
  <2>3. next \in Manifests /\ next.generation = m.generation /\ next.state = m.state
    BY <2>2 DEF Manifests
  <2>4. m.state = "terminal"
    BY DEF RepairManifest, Doing, ClaimsInv, WorkersInv
  <2> HIDE DEF next
  <2> QED BY <2>1, <2>2, <2>3, <2>4, QuietWorker DEF Numbered, ClaimsInv
<1> QED BY <1>1, <1>2

LEMMA AnsweredKeeps ==
  ASSUME ClaimsInv, NEW w \in Worker, Answered(w)
  PROVE  ClaimsInv'
<1> DEFINE next == Following(worker[w].manifest, "awaiting_outcome", 3)
<1>1. /\ worker' = [worker EXCEPT ![w] = [at |-> "publishing", manifest |-> next]]
      /\ UNCHANGED <<attempt, claim, file, writeLock>> /\ "publishing" \in ClaimPlaces \ InTheFile
  BY DEF Answered, Publishing, ClaimPlaces, InTheFile
<1>2. worker[w].manifest \in Manifests /\ worker[w].manifest.generation <= claim.generation
  BY DEF ClaimsInv, WorkersInv
<1>3. next \in Manifests /\ Numbered(next) /\ next.generation <= claim.generation
  BY <1>2, Ranks, Follows DEF Numbered
<1> HIDE DEF next
<1> QED BY <1>1, <1>3, QuietWorker DEF ClaimsInv

LEMMA EndsKeep ==
  ASSUME ClaimsInv, NEW w \in Worker, ControlledInference(w) \/ LeaveToLookups(w) \/ WorkerDies(w)
  PROVE  ClaimsInv'
<1>1. PICK place \in {"waiting", "ended"} : GoOn(w, place)
  BY DEF ControlledInference, LeaveToLookups, WorkerDies
<1>2. /\ place \in ClaimPlaces \ InTheFile /\ place # "recovering" /\ writeLock' \in Worker \cup {Nobody}
      /\ UNCHANGED <<claim, file>> /\ attempt' = attempt
  BY DEF ControlledInference, LeaveToLookups, WorkerDies, ClaimPlaces, InTheFile, ClaimsInv
<1> QED BY <1>1, <1>2, JustGoes

(* A lease that ends, and a call that moves on, which never leaves its end.    *)
LEMMA AroundKeeps ==
  ASSUME ClaimsInv, UNCHANGED <<file, writeLock, worker>>, attempt = "terminal" => attempt' = "terminal",
         claim' \in {claim, [claim EXCEPT !.live = FALSE]}
  PROVE  ClaimsInv'
<1>1. /\ claim' \in [state : DOMAIN Rank, owner : Owners, generation : 0..MaxGeneration, live : BOOLEAN,
                     digest : Manifests]
      /\ claim'.state = claim.state /\ claim'.generation = claim.generation /\ claim'.digest = claim.digest
  BY DEF ClaimsInv
<1> QED BY <1>1 DEF ClaimsInv, WorkersInv, Numbered, ManifestsBackClaims, ClaimsTypeOK

(* However workers overlap, die and take over, and wherever the run fails.     *)
THEOREM ManifestsAlwaysBackClaims == ClaimsSpec => []ManifestsBackClaims
<1>1. ClaimsInv /\ [ClaimsNext]_claimVars => ClaimsInv'
  <2> SUFFICES ASSUME ClaimsInv, [ClaimsNext]_claimVars PROVE ClaimsInv'
    OBVIOUS
  <2>1. ASSUME NEW w \in Worker, RecoverPreEntryDispatch(w) PROVE ClaimsInv'
    BY <2>1, AroundKeeps DEF RecoverPreEntryDispatch
  <2>2. ASSUME NEW w \in Worker,
               \/ AcquireSchedulerClaim(w) \/ NotAcquired(w)
               \/ OpenLock(w) \/ Replace(w) \/ RemoveLock(w)
               \/ RecordSchedulerManifestFsynced(w) \/ RecordRecoveredTerminalSchedulerManifest(w)
               \/ ControlledInference(w) \/ Answered(w) \/ TerminalizeSchedulerClaim(w)
               \/ RepairManifest(w) \/ LeaveToLookups(w) \/ WorkerDies(w)
        PROVE  ClaimsInv'
    BY <2>2, AcquireKeeps, NotAcquiredKeeps, OpenLockKeeps, ReplaceKeeps, RemoveLockKeeps, RecordKeeps,
       RecoveredKeeps, AnsweredKeeps, TerminalizeKeeps, RepairKeeps, EndsKeep
  <2>3. CASE Serve \/ FailRun \/ LeaseEnds
    BY <2>3, AroundKeeps DEF Serve, FailRun, LeaseEnds
  <2>4. CASE UNCHANGED claimVars
    BY <2>4, AroundKeeps DEF claimVars
  <2> QED BY <2>1, <2>2, <2>3, <2>4 DEF ClaimsNext
<1>2. ClaimsInv => ManifestsBackClaims
  BY DEF ClaimsInv
<1> QED BY <1>1, <1>2, ClaimsInitial, PTL DEF ClaimsSpec

-----------------------------------------------------------------------------
(* The lookups.                                                               *)
Phases == {"absent", "scheduled", "authorized", "running", "committed", "terminal", "canceled_terminal",
           "failed"}

Places == {"new", "schedule", "authorize", "wait", "asking", "answered", "decided", "failing", "cutoff",
           "ended"}

LookupsTypeInv ==
  /\ clock \in Nat /\ active \in BOOLEAN
  /\ phase \in [Offsets -> Phases]
  /\ evidence \in [Offsets -> {NoEvidence} \cup [answer : Answers, accepted : BOOLEAN]]
  /\ reconciler \in [Reconciler -> [at : Places, offset : Offsets]]

(* An offset is looked up, and has evidence, only once its window has opened: *)
(* what is in time for one offset is before any later one.                     *)
WindowInv ==
  /\ \A x \in Reconciler : Is(x, "asking") => clock >= Window(reconciler[x].offset)
  /\ \A o \in Offsets : evidence[o] # NoEvidence => clock >= Window(o)

(* A terminal row has decided the call.                                        *)
DecidedInv == \A o \in Offsets : phase[o] = "terminal" => Decided

LookupsInv == LookupsTypeInv /\ WindowInv /\ DecidedInv /\ OneLookupDecides

LEMMA OffsetsNat == Offsets \subseteq Nat /\ \A o \in Offsets : Window(o) \in Nat /\ Window(o) = 2 * o
BY LookupsAssumption DEF Offsets, Window

(* The deadlines of an offset end before the next one starts.                  *)
LEMMA WindowsApart ==
  ASSUME NEW o \in Offsets, NEW p \in Offsets, p > o, NEW t \in Nat, t <= Window(o) + 1
  PROVE  ~(t >= Window(p)) /\ p # o
<1>1. o \in Nat /\ p \in Nat /\ Window(o) = 2 * o /\ Window(p) = 2 * p
  BY OffsetsNat
<1> QED BY <1>1

LEMMA LookupsInitial == LookupsInit => LookupsInv
<1> SUFFICES ASSUME LookupsInit PROVE LookupsInv
  OBVIOUS
<1> USE LookupsAssumption
<1>1. \A o \in Offsets : phase[o] \in {"absent", "scheduled"}
  BY DEF LookupsInit
<1>2. LookupsTypeInv
  BY <1>1 DEF LookupsInit, LookupsTypeInv, Phases, Places, Offsets
<1>3. ~NoEvidence.accepted
  BY DEF NoEvidence
<1>4. OneLookupDecides
  BY <1>1, <1>3 DEF LookupsInit, OneLookupDecides
<1>5. WindowInv /\ DecidedInv
  BY <1>1 DEF LookupsInit, WindowInv, DecidedInv, Is
<1> QED BY <1>2, <1>4, <1>5 DEF LookupsInv

(* A step that gathers no evidence and decides nothing may move rows that are  *)
(* not terminal, make the run fail and let time pass.                          *)
LEMMA QuietKeeps ==
  ASSUME LookupsInv, LookupsTypeInv', UNCHANGED <<outcome, evidence>>,
         \A o \in Offsets : phase[o] = "terminal" <=> phase'[o] = "terminal",
         active' => active, clock <= clock',
         \A x \in Reconciler : Is(x, "asking")' =>
           clock' >= Window(reconciler'[x].offset)
  PROVE  LookupsInv'
<1>1. WindowInv'
  <2>1. ASSUME NEW o \in Offsets, evidence'[o] # NoEvidence PROVE clock' >= Window(o)
    <3>1. clock >= Window(o) /\ Window(o) \in Nat
      BY <2>1, LookupsAssumption DEF LookupsInv, WindowInv, Window, Offsets
    <3> QED BY <3>1 DEF LookupsInv, LookupsTypeInv
  <2> QED BY <2>1 DEF WindowInv
<1>2. DecidedInv'
  BY DEF LookupsInv, DecidedInv, Decided
<1>3. OneLookupDecides'
  BY DEF LookupsInv, OneLookupDecides, OutcomeAt
<1> QED BY <1>1, <1>2, <1>3 DEF LookupsInv

-----------------------------------------------------------------------------
(* A command that turns to another place at its offset, or to the next one.    *)
LEMMA Turned ==
  ASSUME LookupsInv, NEW x \in Reconciler, NEW place \in Places, Turn(x, place)
  PROVE  /\ reconciler' \in [Reconciler -> [at : Places, offset : Offsets]]
         /\ \A y \in Reconciler : reconciler'[y].at = "asking" =>
              /\ reconciler'[y].offset = reconciler[y].offset
              /\ Is(y, "asking") \/ (y = x /\ place = "asking")
BY DEF LookupsInv, LookupsTypeInv, Turn, Is, Places

LEMMA NextTurned ==
  ASSUME LookupsInv, NEW x \in Reconciler, NextOffset(x)
  PROVE  /\ reconciler' \in [Reconciler -> [at : Places, offset : Offsets]]
         /\ \A y \in Reconciler : reconciler'[y].at = "asking" =>
              reconciler'[y].offset = reconciler[y].offset /\ Is(y, "asking")
<1> USE LookupsAssumption
<1>1. reconciler[x].offset \in Offsets
  BY DEF LookupsInv, LookupsTypeInv
<1>2. /\ reconciler[x].offset < LastOffset => reconciler[x].offset + 1 \in Offsets
      /\ LastOffset \in Offsets
  BY <1>1 DEF Offsets
<1>3. PICK next \in [at : {"schedule", "cutoff"}, offset : Offsets] :
        reconciler' = [reconciler EXCEPT ![x] = next]
  <2>1. CASE reconciler[x].offset < LastOffset
    <3>1. reconciler' = [reconciler EXCEPT ![x] =
                           [at |-> "schedule", offset |-> reconciler[x].offset + 1]]
      BY <2>1 DEF NextOffset
    <3> QED BY <1>2, <2>1, <3>1
  <2>2. CASE ~(reconciler[x].offset < LastOffset)
    <3>1. reconciler' = [reconciler EXCEPT ![x] = [at |-> "cutoff", offset |-> LastOffset]]
      BY <2>2 DEF NextOffset
    <3> QED BY <1>2, <3>1
  <2> QED BY <2>1, <2>2
<1> QED BY <1>3 DEF LookupsInv, LookupsTypeInv, Is, Places

(* Rows move between phases that are not terminal.                             *)
LEMMA RowMoved ==
  ASSUME LookupsInv, NEW o \in Offsets, NEW name \in Phases \ {"terminal"},
         phase[o] # "terminal", Phased(o, name)
  PROVE  /\ phase' \in [Offsets -> Phases]
         /\ \A p \in Offsets : phase[p] = "terminal" <=> phase'[p] = "terminal"
BY DEF LookupsInv, LookupsTypeInv, Phased

(* What a command does before it asks and after it was answered.               *)
LEMMA TimelineKeeps ==
  ASSUME LookupsInv, NEW x \in Reconciler,
         \/ StartReconcile(x) \/ ScheduleReconciliation(x) \/ AuthorizeReconciliationOffset(x)
         \/ FinishReconciliationLookup(x) \/ LookupThrows(x) \/ ReconcilerDies(x)
  PROVE  LookupsInv'
<1>1. UNCHANGED <<clock, active, outcome, evidence>>
  BY DEF StartReconcile, ScheduleReconciliation, AuthorizeReconciliationOffset,
         FinishReconciliationLookup, LookupThrows, ReconcilerDies
<1>2. reconciler[x].offset \in Offsets
  BY DEF LookupsInv, LookupsTypeInv
<1>3. /\ phase' \in [Offsets -> Phases]
      /\ \A p \in Offsets : phase[p] = "terminal" <=> phase'[p] = "terminal"
  <2>1. CASE UNCHANGED phase
    BY <2>1 DEF LookupsInv, LookupsTypeInv
  <2>2. CASE ScheduleReconciliation(x)
    BY <1>2, <2>2 DEF ScheduleReconciliation, LookupsInv, LookupsTypeInv, Phases
  <2>3. CASE AuthorizeReconciliationOffset(x) /\ Phased(reconciler[x].offset, "authorized")
             /\ phase[reconciler[x].offset] \in {"scheduled", "authorized"}
    <3>1. "authorized" \in Phases \ {"terminal"}
      BY DEF Phases
    <3> QED BY <1>2, <2>3, <3>1, RowMoved
  <2> QED
    BY <2>1, <2>2, <2>3 DEF StartReconcile, AuthorizeReconciliationOffset,
         FinishReconciliationLookup, LookupThrows, ReconcilerDies
<1>4. NextOffset(x) \/ \E place \in Places \ {"asking"} : Turn(x, place)
  BY DEF StartReconcile, ScheduleReconciliation, AuthorizeReconciliationOffset,
         FinishReconciliationLookup, LookupThrows, ReconcilerDies, Places
<1>5. /\ reconciler' \in [Reconciler -> [at : Places, offset : Offsets]]
      /\ \A y \in Reconciler : reconciler'[y].at = "asking" =>
           reconciler'[y].offset = reconciler[y].offset /\ Is(y, "asking")
  BY <1>4, Turned, NextTurned
<1>6. LookupsTypeInv'
  BY <1>1, <1>3, <1>5 DEF LookupsInv, LookupsTypeInv
<1>7. clock <= clock' /\ \A y \in Reconciler : Is(y, "asking")' => clock' >= Window(reconciler'[y].offset)
  BY <1>1, <1>5 DEF LookupsInv, LookupsTypeInv, WindowInv, Is
<1> QED BY <1>1, <1>3, <1>6, <1>7, QuietKeeps

LEMMA BeginLookupKeeps ==
  ASSUME LookupsInv, NEW x \in Reconciler, BeginReconciliationLookup(x)
  PROVE  LookupsInv'
<1> DEFINE o == reconciler[x].offset
<1>1. /\ UNCHANGED <<clock, active, outcome, evidence>>
      /\ o \in Offsets /\ clock >= Window(o) /\ clock \in Nat
  BY DEF BeginReconciliationLookup, LookupsInv, LookupsTypeInv
<1>2. /\ phase' \in [Offsets -> Phases]
      /\ \A p \in Offsets : phase[p] = "terminal" <=> phase'[p] = "terminal"
  <2>1. CASE UNCHANGED phase
    BY <2>1 DEF LookupsInv, LookupsTypeInv
  <2>2. CASE Startable(o) /\ Phased(o, "running")
    <3>1. "running" \in Phases \ {"terminal"} /\ phase[o] # "terminal"
      BY <2>2 DEF Phases, Startable
    <3> QED BY <1>1, <2>2, <3>1, RowMoved
  <2> QED BY <2>1, <2>2 DEF BeginReconciliationLookup
<1>3. PICK place \in Places : Turn(x, place)
  BY DEF BeginReconciliationLookup, Places
<1>4. LookupsTypeInv'
  BY <1>1, <1>2, <1>3, Turned DEF LookupsInv, LookupsTypeInv
<1>5. clock <= clock' /\ \A y \in Reconciler : Is(y, "asking")' => clock' >= Window(reconciler'[y].offset)
  BY <1>1, <1>3, Turned DEF LookupsInv, WindowInv, Is
<1> QED BY <1>1, <1>2, <1>4, <1>5, QuietKeeps

LEMMA FailOffsetKeeps ==
  ASSUME LookupsInv, NEW x \in Reconciler, FailReconciliationOffset(x)
  PROVE  LookupsInv'
<1>1. UNCHANGED <<clock, active, outcome, evidence>> /\ reconciler[x].offset \in Offsets
  BY DEF FailReconciliationOffset, LookupsInv, LookupsTypeInv
<1>2. /\ phase' \in [Offsets -> Phases]
      /\ \A p \in Offsets : phase[p] = "terminal" <=> phase'[p] = "terminal"
  BY <1>1 DEF FailReconciliationOffset, LookupsInv, LookupsTypeInv, Phases
<1>3. NextOffset(x)
  BY DEF FailReconciliationOffset
<1>4. LookupsTypeInv'
  BY <1>1, <1>2, <1>3, NextTurned DEF LookupsInv, LookupsTypeInv
<1>5. clock <= clock' /\ \A y \in Reconciler : Is(y, "asking")' => clock' >= Window(reconciler'[y].offset)
  BY <1>1, <1>3, NextTurned DEF LookupsInv, LookupsTypeInv, WindowInv, Is
<1> QED BY <1>1, <1>2, <1>4, <1>5, QuietKeeps

LEMMA OutsideKeeps ==
  ASSUME LookupsInv, RunFails \/ TimePasses
  PROVE  LookupsInv'
<1>1. /\ UNCHANGED <<outcome, phase, evidence, reconciler>> /\ clock' \in Nat /\ clock <= clock'
      /\ active' \in BOOLEAN /\ (active' => active)
  <2>1. clock \in Nat /\ active \in BOOLEAN
    BY DEF LookupsInv, LookupsTypeInv
  <2>2. CASE RunFails
    <3>1. /\ UNCHANGED <<clock, outcome, phase, evidence, reconciler>>
          /\ active' = FALSE
      BY <2>2 DEF RunFails
    <3>2. clock' \in Nat /\ clock <= clock'
      BY <2>1, <3>1
    <3> QED BY <3>1, <3>2, Zenon
  <2>3. CASE TimePasses
    BY <2>1, <2>3 DEF TimePasses
  <2> QED BY <2>2, <2>3
<1>2. LookupsTypeInv'
  BY <1>1 DEF LookupsInv, LookupsTypeInv
<1>3. ASSUME NEW y \in Reconciler, Is(y, "asking")' PROVE clock' >= Window(reconciler'[y].offset)
  <2>1. clock >= Window(reconciler[y].offset) /\ reconciler[y].offset \in Offsets
    BY <1>1, <1>3 DEF Is, LookupsInv, WindowInv, LookupsTypeInv
  <2>2. clock \in Nat /\ Window(reconciler[y].offset) \in Nat
    BY <2>1, OffsetsNat DEF LookupsInv, LookupsTypeInv
  <2>3. reconciler'[y].offset = reconciler[y].offset
    BY <1>1
  <2> QED BY <1>1, <2>1, <2>2, <2>3
<1> QED BY <1>1, <1>2, <1>3, QuietKeeps

-----------------------------------------------------------------------------
(* Evidence of one offset, of a call that is not decided: it is about the      *)
(* request earlier evidence is about; it decides the call when it came in time *)
(* and then nothing is known of later offsets; and if it came late the run has *)
(* failed.                                                                     *)
LEMMA PersistKeeps ==
  ASSUME LookupsInv, NEW x \in Reconciler, NEW answer \in Answers, NEW late \in BOOLEAN,
         Is(x, "asking"), ~Decided, Persist(x, answer, late), clock' = clock,
         clock > Window(reconciler[x].offset) + 1 => late
  PROVE  LookupsInv'
<1> DEFINE o == reconciler[x].offset
           row == [answer |-> answer, accepted |-> Accepted(answer)]
           found == IF row.accepted /\ ~late THEN OutcomeAt(answer.kind, o) ELSE "pending"
<1>1. o \in Offsets /\ clock \in Nat /\ clock >= Window(o)
  BY DEF LookupsInv, LookupsTypeInv, WindowInv
<1>2. /\ evidence[o] \in {NoEvidence, row} /\ evidence' = [evidence EXCEPT ![o] = row]
      /\ outcome' = found /\ active' = (active /\ ~late /\ answer.kind # "drift")
  BY DEF Persist
<1>3. row.accepted \in BOOLEAN /\ row.answer = answer /\ row.accepted = Accepted(answer)
  BY DEF Accepted, SameBinding
<1>4. \A p \in Offsets : phase[p] # "terminal"
  BY DEF LookupsInv, DecidedInv
<1>5. /\ evidence'[o] = row /\ \A p \in Offsets : p # o => evidence'[p] = evidence[p]
      /\ active' \in BOOLEAN /\ (active' => active /\ ~late)
  BY <1>1, <1>2 DEF LookupsInv, LookupsTypeInv
<1>6. reconciler' \in [Reconciler -> [at : Places, offset : Offsets]]
      /\ \A y \in Reconciler : reconciler'[y].at = "asking" =>
           reconciler'[y].offset = reconciler[y].offset /\ Is(y, "asking")
  <2>1. PICK place \in Places \ {"asking"} : Turn(x, place)
    BY DEF Persist, Places
  <2> QED BY <2>1, Turned
<1>7. /\ phase' \in [Offsets -> Phases]
      /\ found = "pending" => \A p \in Offsets : phase'[p] # "terminal"
      /\ found # "pending" => \A p \in Offsets : phase'[p] = "terminal" <=> p = o
  <2>1. CASE found = "pending"
    <3>1. Phased(o, "committed")
      BY <2>1 DEF Persist
    <3> QED BY <1>1, <1>4, <2>1, <3>1 DEF Phased, LookupsInv, LookupsTypeInv, Phases
  <2>2. CASE found # "pending"
    <3>1. phase' = [p \in Offsets |->
                  IF p = o THEN "terminal"
                  ELSE IF p > o /\ phase[p] = "scheduled" THEN "canceled_terminal" ELSE phase[p]]
      BY <2>2 DEF Persist
    <3>2. ASSUME NEW p \in Offsets
          PROVE  phase'[p] \in Phases /\ (phase'[p] = "terminal" <=> p = o)
      BY <1>4, <3>1 DEF LookupsInv, LookupsTypeInv, Phases
    <3> QED BY <2>2, <3>1, <3>2
  <2> QED BY <2>1, <2>2
<1>8. LookupsTypeInv'
  BY <1>2, <1>3, <1>5, <1>6, <1>7 DEF LookupsInv, LookupsTypeInv
<1>9. WindowInv'
  BY <1>1, <1>5, <1>6 DEF LookupsInv, WindowInv, Is
<1>10. DecidedInv'
  BY <1>2, <1>7 DEF DecidedInv, Decided
<1>11. \A p, q \in Offsets : evidence'[p].accepted /\ evidence'[q].accepted =>
         evidence'[p].answer.binding = evidence'[q].answer.binding
  <2>1. row.accepted => \A p \in Offsets : evidence[p].accepted => evidence[p].answer.binding = answer.binding
    BY <1>3 DEF Accepted, SameBinding
  <2> QED BY <1>3, <1>5, <2>1 DEF LookupsInv, OneLookupDecides
<1>12. found # "pending" =>
         /\ row.accepted /\ ~late /\ found = OutcomeAt(answer.kind, o)
         /\ \A p \in Offsets : p > o => evidence'[p] = NoEvidence
  <2>1. ASSUME found # "pending", NEW p \in Offsets, p > o PROVE evidence[p] = NoEvidence
    <3>1. clock <= Window(o) + 1
      <4>1. ~late
        BY <2>1, Zenon
      <4>2. ~(clock > Window(o) + 1)
        BY <4>1, Zenon
      <4>3. Window(o) \in Nat
        BY <1>1, OffsetsNat
      <4> QED BY <1>1, <4>2, <4>3
    <3>2. ~(clock >= Window(p))
      BY <1>1, <2>1, <3>1, WindowsApart
    <3> QED BY <3>2 DEF LookupsInv, WindowInv
  <2>2. \A p \in Offsets : p > o => p # o
    BY <1>1, OffsetsNat
  <2>3. found # "pending" => row.accepted /\ ~late /\ found = OutcomeAt(answer.kind, o)
    BY Zenon
  <2> QED BY <1>5, <2>1, <2>2, <2>3, Zenon
<1>13. row.accepted /\ OutcomeAt(answer.kind, o) # "pending" => found # "pending" \/ ~active'
  BY <1>5
<1>14. OneLookupDecides'
  <2>1. \A p \in Offsets : phase'[p] = "terminal" =>
          /\ evidence'[p].accepted /\ (OutcomeAt(evidence[p].answer.kind, p))' = outcome'
          /\ \A q \in Offsets : q > p => evidence'[q] = NoEvidence
    BY <1>2, <1>3, <1>5, <1>7, <1>12 DEF OutcomeAt
  <2>2. outcome' \notin {"pending", "unresolved_provider_outcome"} => \E p \in Offsets : phase'[p] = "terminal"
    BY <1>1, <1>2, <1>7
  <2>3. \A p \in Offsets : evidence'[p].accepted /\ (OutcomeAt(evidence[p].answer.kind, p))' # "pending" =>
          phase'[p] = "terminal" \/ ~active'
    <3>1. ASSUME NEW p \in Offsets, p # o, evidence[p].accepted, OutcomeAt(evidence[p].answer.kind, p) # "pending"
          PROVE  ~active'
      BY <1>4, <1>5, <3>1 DEF LookupsInv, OneLookupDecides
    <3> QED BY <1>3, <1>5, <1>7, <1>13, <3>1 DEF OutcomeAt
  <2>3a. found # "unresolved_provider_outcome"
    BY DEF OutcomeAt
  <2> QED BY <1>2, <1>11, <2>1, <2>2, <2>3, <2>3a DEF OneLookupDecides, OutcomeAt
<1> QED BY <1>8, <1>9, <1>10, <1>14 DEF LookupsInv

LEMMA ApplyAnswerKeeps ==
  ASSUME LookupsInv, NEW x \in Reconciler, ApplyLookupAnswer(x)
  PROVE  LookupsInv'
<1>1. CASE Decided
  <2>1. /\ UNCHANGED <<clock, active, outcome, phase, evidence>>
        /\ "decided" \in Places /\ "decided" # "asking" /\ Turn(x, "decided")
    BY <1>1 DEF ApplyLookupAnswer, Places
  <2>2. /\ reconciler' \in [Reconciler -> [at : Places, offset : Offsets]]
        /\ \A y \in Reconciler : reconciler'[y].at = "asking" =>
             reconciler'[y].offset = reconciler[y].offset /\ Is(y, "asking")
    BY <2>1, Turned
  <2>3. LookupsTypeInv'
    BY <2>1, <2>2 DEF LookupsInv, LookupsTypeInv
  <2>4. clock <= clock' /\ \A y \in Reconciler : Is(y, "asking")' => clock' >= Window(reconciler'[y].offset)
    BY <2>1, <2>2 DEF LookupsInv, LookupsTypeInv, WindowInv, Is
  <2> QED BY <2>1, <2>3, <2>4, QuietKeeps
<1>2. CASE ~Decided
  BY <1>2, PersistKeeps DEF ApplyLookupAnswer
<1> QED BY <1>1, <1>2

(* The cutoff gives a pending call up and fails the run; no row becomes        *)
(* terminal, and what would have decided the call had come late.               *)
LEMMA CutoffKeeps ==
  ASSUME LookupsInv, NEW x \in Reconciler, ApplyCutoff(x)
  PROVE  LookupsInv'
<1>1. /\ UNCHANGED <<clock, evidence>> /\ "ended" \in Places /\ "ended" # "asking" /\ Turn(x, "ended")
  BY DEF ApplyCutoff, Places
<1>2. /\ reconciler' \in [Reconciler -> [at : Places, offset : Offsets]]
      /\ \A y \in Reconciler : reconciler'[y].at = "asking" =>
           reconciler'[y].offset = reconciler[y].offset /\ Is(y, "asking")
  BY <1>1, Turned
<1>3. clock <= clock' /\ \A y \in Reconciler : Is(y, "asking")' => clock' >= Window(reconciler'[y].offset)
  BY <1>1, <1>2 DEF LookupsInv, LookupsTypeInv, WindowInv, Is
<1>4. CASE UNCHANGED <<outcome, phase>> /\ active' \in BOOLEAN /\ (active' => active)
  <2>1. LookupsTypeInv'
    BY <1>1, <1>2, <1>4 DEF LookupsInv, LookupsTypeInv
  <2> QED BY <1>1, <1>3, <1>4, <2>1, QuietKeeps
<1>5. CASE ~Decided /\ outcome' = "unresolved_provider_outcome" /\ active' = FALSE /\ Cancel(Offsets)
  <2>1. /\ phase' \in [Offsets -> Phases]
        /\ \A o \in Offsets : phase'[o] # "terminal"
    BY <1>5 DEF Cancel, LookupsInv, LookupsTypeInv, DecidedInv, Phases
  <2>2. LookupsTypeInv'
    BY <1>1, <1>2, <1>5, <2>1 DEF LookupsInv, LookupsTypeInv
  <2>3. WindowInv' /\ DecidedInv'
    BY <1>1, <1>3, <2>1 DEF LookupsInv, WindowInv, DecidedInv
  <2>4. OneLookupDecides'
    BY <1>1, <1>5, <2>1 DEF LookupsInv, OneLookupDecides
  <2> QED BY <2>2, <2>3, <2>4 DEF LookupsInv
<1>6. active \in BOOLEAN /\ FALSE \in BOOLEAN
  BY DEF LookupsInv, LookupsTypeInv
<1>7. \/ ~Decided /\ outcome' = "unresolved_provider_outcome" /\ active' = FALSE /\ Cancel(Offsets)
      \/ active' = FALSE /\ UNCHANGED <<outcome, phase>>
      \/ active' = active /\ UNCHANGED <<outcome, phase>>
  BY Zenon DEF ApplyCutoff
<1> QED BY <1>4, <1>5, <1>6, <1>7, Zenon

(* One lookup decides a call, for any number of commands and offsets.          *)
THEOREM OneLookupAlwaysDecides == LookupsSpec => []OneLookupDecides
<1>1. LookupsInv /\ [LookupsNext]_lookupVars => LookupsInv'
  <2> SUFFICES ASSUME LookupsInv, [LookupsNext]_lookupVars PROVE LookupsInv'
    OBVIOUS
  <2>1. CASE LookupsNext
    BY <2>1, TimelineKeeps, BeginLookupKeeps, ApplyAnswerKeeps, FailOffsetKeeps, CutoffKeeps,
       OutsideKeeps DEF LookupsNext
  <2>2. CASE UNCHANGED lookupVars
    BY <2>2 DEF lookupVars, LookupsInv, LookupsTypeInv, WindowInv, DecidedInv, Decided,
       OneLookupDecides, OutcomeAt, Is
  <2> QED BY <2>1, <2>2
<1>2. LookupsInv => OneLookupDecides
  BY DEF LookupsInv
<1> QED BY <1>1, <1>2, LookupsInitial, PTL DEF LookupsSpec

-----------------------------------------------------------------------------
(* The mandate service.                                                        *)

CircuitStates == {"HEALTHY", "ELEVATED", "TRIPPED"}

Circuit == [state : CircuitStates, violations : 0..2, previous : Costs \cup {NoCost}]

ReservationRow ==
  [status : {"reserved", "reconciled"}, child : Children, maximum : Amount,
   actual : Costs \cup {NoCost}]

Completion ==
  [held : {TRUE}, child : Children, cost : Costs, circuit : CircuitStates,
   released : BOOLEAN, payer : Callers \cup {NoCaller}]

ServiceState ==
  [root : AccountRecord, child : [Children -> AccountRecord],
   reservation : [Ids -> {NoReservation} \cup ReservationRow],
   circuit : [Children -> Circuit], pending : [Ids -> {NoPending} \cup Completion],
   order : Seq(Ids)]

MandateTyped ==
  /\ service \in ServiceState
  /\ receipts \subseteq Ids
  /\ caller \in [Callers -> {Free} \cup [at : {"paid", "quoted"}, ask : Asks]]
  /\ toldReceipts \in [Ids -> SUBSET (Costs \X (Callers \cup {NoCaller}))]

(* A request is reserved and held in one transaction, and reconciled and      *)
(* released in one; who was quoted or told a receipt came after it.           *)
CompletionsInv ==
  /\ \A i \in Ids :
       /\ Held(i) <=> i \in Range(service.order)
       /\ Held(i) <=> service.reservation[i] # NoReservation
       /\ Held(i) =>
            /\ service.reservation[i].status =
                 IF service.pending[i].released THEN "reconciled" ELSE "reserved"
            /\ service.pending[i].released =>
                 service.reservation[i].actual = service.pending[i].cost
       /\ \A receipt \in toldReceipts[i] :
            /\ Held(i) /\ service.pending[i].released
            /\ receipt = <<service.reservation[i].actual, service.pending[i].payer>>
  /\ \A x \in Callers : caller[x].at = "quoted" => Held(caller[x].ask.id)
  /\ \A c \in Children :
       service.circuit[c].state # "TRIPPED" => service.circuit[c].violations <= 1

Solvent(account) == account.authorized \in Amount /\ Available(account) >= 0

AccountsInv ==
  /\ Solvent(service.root) /\ \A c \in Children : Solvent(service.child[c])
  /\ \A c \in Children :
       /\ service.child[c].reserved = Total(Outstanding(c), Ids)
       /\ service.child[c].settled = Total(Reconciliations(c), Ids)
  /\ service.root.reserved = Total([c \in Children |-> service.child[c].reserved], Children)
  /\ service.root.settled = Total([c \in Children |-> service.child[c].settled], Children)

MandateInv == MandateTyped /\ CompletionsInv /\ AccountsInv

(* One summand changes, and the sum with it. *)
LEMMA TotalShift ==
  ASSUME NEW S, IsFiniteSet(S), NEW f, NEW g, NEW x \in S,
         f[x] \in Amount, g[x] \in Amount, \A y \in S \ {x} : g[y] = f[y]
  PROVE  Total(g, S) + f[x] = Total(f, S) + g[x]
<1> DEFINE h == [y \in S |-> IF y = x THEN 0 ELSE f[y]]
<1>1. h[x] = 0 /\ \A y \in S \ {x} : f[y] = h[y] /\ g[y] = h[y]
  OBVIOUS
<1> HIDE DEF h
<1>2. Total(f, S) = Total(h, S) + f[x]
  BY <1>1, TotalAdd
<1>3. Total(g, S) = Total(h, S) + g[x]
  BY <1>1, TotalAdd
<1>4. Total(h, S) \in Nat /\ f[x] \in Nat /\ g[x] \in Nat
  BY UnitsFinite, MaxAmountAssumption DEF Amount
<1> QED
  BY <1>2, <1>3, <1>4

(* A sum of nothing. *)
LEMMA TotalZero ==
  ASSUME NEW S, NEW f, \A x \in S : f[x] = 0
  PROVE  Total(f, S) = 0
<1>1. Units(f, S) = {}
  BY DEF Units
<1> QED
  BY <1>1, FS_EmptySet DEF Total

(* A reconciliation writes two fields of an account. *)
LEMMA ReconciledRow ==
  ASSUME NEW a \in AccountRecord, NEW m, NEW n, a.reserved - m \in Nat, a.settled + n \in Nat
  PROVE  LET b == Reconciled(a, m, n) IN
         /\ b \in AccountRecord /\ b.authorized = a.authorized
         /\ b.reserved = a.reserved - m /\ b.settled = a.settled + n
<1>1. ASSUME NEW p \in Nat, NEW q \in Nat
      PROVE  LET b == [a EXCEPT !.reserved = p, !.settled = q] IN
             b \in AccountRecord /\ b.authorized = a.authorized /\ b.reserved = p /\ b.settled = q
  BY DEF AccountRecord
<1> QED
  BY <1>1 DEF Reconciled

(* An account that owes nothing beyond what it has is of bounded amounts. *)
LEMMA SolventFacts ==
  ASSUME NEW a \in AccountRecord, Solvent(a)
  PROVE  /\ a.authorized \in Nat /\ a.reserved \in Nat /\ a.settled \in Nat
         /\ Available(a) = a.authorized - a.reserved - a.settled /\ Available(a) \in Nat
         /\ a.reserved \in Amount /\ a.settled \in Amount
<1>1. MaxAmount \in Nat
  BY MaxAmountAssumption
<1> QED
  BY <1>1 DEF AccountRecord, Solvent, Available, Amount

LEMMA AccountMoves ==
  ASSUME NEW a \in AccountRecord, Solvent(a)
  PROVE  /\ \A m \in Nat : m <= Available(a) => LET b == Reserved(a, m) IN
              /\ b \in AccountRecord /\ Solvent(b)
              /\ b.reserved = a.reserved + m /\ b.settled = a.settled
         /\ \A m \in Nat, n \in Nat : n <= m /\ m <= a.reserved => LET b == Reconciled(a, m, n) IN
              /\ b \in AccountRecord /\ Solvent(b)
              /\ b.reserved = a.reserved - m /\ b.settled = a.settled + n
         /\ LET b == Reclaimed(a) IN
              /\ b \in AccountRecord /\ Solvent(b)
              /\ b.reserved = a.reserved /\ b.settled = a.settled
<1>1. MaxAmount \in Nat
  BY MaxAmountAssumption
<1>2. /\ a.authorized \in Nat /\ a.reserved \in Nat /\ a.settled \in Nat
      /\ Available(a) = a.authorized - a.reserved - a.settled /\ Available(a) \in Nat
      /\ a.authorized <= MaxAmount
      /\ a = [authorized |-> a.authorized, reserved |-> a.reserved, settled |-> a.settled]
  BY SolventFacts DEF Solvent, Amount, AccountRecord
<1>3. ASSUME NEW m \in Nat, m <= Available(a)
      PROVE  LET b == Reserved(a, m) IN
              /\ b \in AccountRecord /\ Solvent(b)
              /\ b.reserved = a.reserved + m /\ b.settled = a.settled
  <2>1. Reserved(a, m) = [authorized |-> a.authorized, reserved |-> a.reserved + m, settled |-> a.settled]
    BY <1>2 DEF Reserved
  <2>2. /\ a.reserved + m \in Nat
        /\ a.authorized - (a.reserved + m) - a.settled >= 0
    BY <1>2, <1>3
  <2> QED
    BY <1>1, <1>2, <2>1, <2>2 DEF AccountRecord, Solvent, Available, Amount
<1>4. ASSUME NEW m \in Nat, NEW n \in Nat, n <= m, m <= a.reserved
      PROVE  LET b == Reconciled(a, m, n) IN
              /\ b \in AccountRecord /\ Solvent(b)
              /\ b.reserved = a.reserved - m /\ b.settled = a.settled + n
  <2>2. /\ a.reserved - m \in Nat /\ a.settled + n \in Nat
        /\ a.authorized - (a.reserved - m) - (a.settled + n) >= 0
    BY <1>2, <1>4
  <2> DEFINE b == Reconciled(a, m, n)
  <2>3. /\ b \in AccountRecord /\ b.authorized = a.authorized
        /\ b.reserved = a.reserved - m /\ b.settled = a.settled + n
    BY <2>2, ReconciledRow
  <2> HIDE DEF b
  <2>4. Available(b) >= 0
    BY <2>2, <2>3 DEF Available
  <2>5. Solvent(b)
    BY <1>1, <1>2, <2>3, <2>4 DEF Solvent, Amount
  <2> QED
    BY <2>3, <2>5 DEF b
<1>5. LET b == Reclaimed(a) IN
        /\ b \in AccountRecord /\ Solvent(b)
        /\ b.reserved = a.reserved /\ b.settled = a.settled
  <2>1. Reclaimed(a) = [authorized |-> a.authorized - Available(a), reserved |-> a.reserved,
                        settled |-> a.settled]
    BY <1>2 DEF Reclaimed
  <2>2. a.authorized - Available(a) \in Nat /\ a.authorized - Available(a) <= MaxAmount
    BY <1>1, <1>2
  <2>3. a.authorized - Available(a) - a.reserved - a.settled = 0
    BY <1>2
  <2> QED
    BY <1>1, <1>2, <2>1, <2>2, <2>3 DEF AccountRecord, Solvent, Available, Amount
<1> QED
  BY <1>3, <1>4, <1>5

LEMMA MandateRows ==
  /\ NoReservation.status = "none" /\ NoReservation \notin ReservationRow
  /\ NoPending.held = FALSE /\ NoPending \notin Completion
  /\ \A r \in ReservationRow : /\ r.status \in {"reserved", "reconciled"} /\ r.child \in Children
                               /\ r.maximum \in Amount
  /\ \A p \in Completion : /\ p.held = TRUE /\ p.child \in Children /\ p.cost \in Costs
                           /\ p.released \in BOOLEAN /\ p.payer \in Callers \cup {NoCaller}
  /\ Free.at = "idle"
  /\ \A a \in Asks : a.id \in Ids /\ a.child \in Children /\ a.maximum \in Nat
<1>1. \A r \in ReservationRow : /\ r.status \in {"reserved", "reconciled"} /\ r.child \in Children
                                /\ r.maximum \in Amount
  BY DEF ReservationRow
<1>2. \A p \in Completion : /\ p.held = TRUE /\ p.child \in Children /\ p.cost \in Costs
                           /\ p.released \in BOOLEAN /\ p.payer \in Callers \cup {NoCaller}
  BY DEF Completion
<1>3. \A a \in Asks : a.id \in Ids /\ a.child \in Children /\ a.maximum \in Nat
  BY MandateAssumption
<1>4. NoReservation.status = "none" /\ NoPending.held = FALSE /\ Free.at = "idle"
  BY DEF NoReservation, NoPending, Free
<1> QED
  BY <1>1, <1>2, <1>3, <1>4

LEMMA MandateInitial == MandateInit => MandateInv
<1> SUFFICES ASSUME MandateInit PROVE MandateInv
  OBVIOUS
<1>1. /\ service.root = Account(RootBudget)
      /\ service.child = [c \in Children |-> Account(Allowance[c])]
      /\ service.reservation = [i \in Ids |-> NoReservation]
      /\ service.circuit = [c \in Children |-> [state |-> "HEALTHY", violations |-> 0, previous |-> NoCost]]
      /\ service.pending = [i \in Ids |-> NoPending] /\ service.order = <<>>
      /\ receipts = {} /\ caller = [x \in Callers |-> Free] /\ toldReceipts = [i \in Ids |-> {}]
  BY DEF MandateInit, InitialState
<1>2. ASSUME NEW m \in Amount
      PROVE  /\ Account(m) \in AccountRecord /\ Solvent(Account(m))
             /\ Account(m).reserved = 0 /\ Account(m).settled = 0
  BY MaxAmountAssumption DEF Account, AccountRecord, Solvent, Available, Amount
<1>3. RootBudget \in Amount /\ \A c \in Children : Allowance[c] \in Amount
  BY MandateAssumption
<1>4. MandateTyped
  <2>1. service \in ServiceState
    <3>1. service = [root |-> Account(RootBudget),
                     child |-> [c \in Children |-> Account(Allowance[c])],
                     reservation |-> [i \in Ids |-> NoReservation],
                     circuit |-> [c \in Children |->
                       [state |-> "HEALTHY", violations |-> 0, previous |-> NoCost]],
                     pending |-> [i \in Ids |-> NoPending], order |-> <<>>]
      BY DEF MandateInit, InitialState
    <3>2. [state |-> "HEALTHY", violations |-> 0, previous |-> NoCost] \in Circuit
      BY DEF Circuit, CircuitStates
    <3>3. <<>> \in Seq(Ids)
      OBVIOUS
    <3>4. /\ [c \in Children |-> Account(Allowance[c])] \in [Children -> AccountRecord]
          /\ Account(RootBudget) \in AccountRecord
      BY <1>2, <1>3
    <3>5. /\ [c \in Children |-> [state |-> "HEALTHY", violations |-> 0, previous |-> NoCost]]
               \in [Children -> Circuit]
          /\ [i \in Ids |-> NoReservation] \in [Ids -> {NoReservation} \cup ReservationRow]
          /\ [i \in Ids |-> NoPending] \in [Ids -> {NoPending} \cup Completion]
      BY <3>2
    <3> QED
      BY <3>1, <3>3, <3>4, <3>5 DEF ServiceState
  <2> QED
    BY <1>1, <2>1 DEF MandateTyped
<1>5. CompletionsInv
  BY <1>1, MandateRows DEF CompletionsInv, Held, Range
<1>6. AccountsInv
  <2>1. Solvent(service.root) /\ \A c \in Children : Solvent(service.child[c])
    BY <1>1, <1>2, <1>3
  <2>2. \A c \in Children : service.child[c].reserved = 0 /\ service.child[c].settled = 0
    BY <1>1, <1>2, <1>3
  <2>3. service.root.reserved = 0 /\ service.root.settled = 0
    BY <1>1, <1>2, <1>3
  <2>4. ASSUME NEW c \in Children
        PROVE  Total(Outstanding(c), Ids) = 0 /\ Total(Reconciliations(c), Ids) = 0
    <3>1. \A i \in Ids : Outstanding(c)[i] = 0 /\ Reconciliations(c)[i] = 0
      BY <1>1, MandateRows DEF Outstanding, Reconciliations
    <3> QED
      BY <3>1, TotalZero
  <2>5. /\ Total([c \in Children |-> service.child[c].reserved], Children) = 0
        /\ Total([c \in Children |-> service.child[c].settled], Children) = 0
    BY <2>2, TotalZero
  <2> QED
    BY <2>1, <2>2, <2>3, <2>4, <2>5 DEF AccountsInv
<1> QED
  BY <1>4, <1>5, <1>6 DEF MandateInv

LEMMA BooksEnough == MandateInv => BooksBalance
<1> SUFFICES ASSUME MandateInv PROVE BooksBalance
  OBVIOUS
<1>1. MandateTypeOK
  BY DEF MandateInv, MandateTyped, ServiceState, CompletionsInv, Circuit, CircuitStates, MandateTypeOK, Free
<1> QED
  BY <1>1 DEF MandateInv, AccountsInv, CompletionsInv, Solvent, BooksBalance

LEMMA ServiceFields ==
  ASSUME MandateTyped
  PROVE  /\ service.root \in AccountRecord
         /\ service.child \in [Children -> AccountRecord]
         /\ service.reservation \in [Ids -> {NoReservation} \cup ReservationRow]
         /\ service.circuit \in [Children -> Circuit]
         /\ service.pending \in [Ids -> {NoPending} \cup Completion]
         /\ service.order \in Seq(Ids)
BY DEF MandateTyped, ServiceState

(* The receipt a transaction writes is of a completion. *)
LEMMA ReceiptsOfRequests ==
  ASSUME NEW state, state.order \in Seq(Ids)
  PROVE  ExtractNewReceipt(state) \subseteq Ids
BY DEF ExtractNewReceipt, Released

(* A transaction that leaves the row alone. *)
LEMMA ServiceKept ==
  ASSUME MandateInv, service' = service, receipts' \subseteq Ids,
         caller' \in [Callers -> {Free} \cup [at : {"paid", "quoted"}, ask : Asks]],
         \A x \in Callers : caller'[x].at = "quoted" => Held(caller'[x].ask.id),
         toldReceipts' \in [Ids -> SUBSET (Costs \X (Callers \cup {NoCaller}))],
         \A i \in Ids : \A receipt \in toldReceipts'[i] :
           /\ Held(i) /\ service.pending[i].released
           /\ receipt = <<service.reservation[i].actual, service.pending[i].payer>>
  PROVE  MandateInv'
<1>1. MandateTyped'
  BY DEF MandateInv, MandateTyped
<1>2. CompletionsInv'
  BY DEF MandateInv, CompletionsInv, Held
<1>3. AccountsInv'
  BY DEF MandateInv, AccountsInv, Outstanding, Reconciliations, Solvent
<1> QED
  BY <1>1, <1>2, <1>3 DEF MandateInv

(* What a new completion leaves in the row. *)
Holds(i, c, maximum, cost) ==
  /\ service'.root = Reserved(service.root, maximum)
  /\ service'.child = [service.child EXCEPT ![c] = Reserved(service.child[c], maximum)]
  /\ service'.reservation = [service.reservation EXCEPT ![i] =
       [status |-> "reserved", child |-> c, maximum |-> maximum, actual |-> NoCost]]
  /\ service'.circuit = [service.circuit EXCEPT ![c] = Evaluate(service.circuit[c], cost)]
  /\ service'.pending = [service.pending EXCEPT ![i] =
       [held |-> TRUE, child |-> c, cost |-> cost,
        circuit |-> Evaluate(service.circuit[c], cost).state, released |-> FALSE,
        payer |-> NoCaller]]
  /\ service'.order = Append(service.order, i)
  /\ service' = [root |-> service'.root, child |-> service'.child,
                 reservation |-> service'.reservation, circuit |-> service'.circuit,
                 pending |-> service'.pending, order |-> service'.order]

LEMMA HoldWrites ==
  ASSUME MandateInv, NEW i \in Ids, NEW c \in Children, NEW maximum \in Nat, NEW cost \in Costs,
         ~Held(i), service' = Hold(Reserve(service, i, c, maximum), i, c, cost)
  PROVE  Holds(i, c, maximum, cost)
<1>1. MandateTyped /\ CompletionsInv
  BY DEF MandateInv
<1>2. service.reservation[i] = NoReservation /\ i \notin Range(service.order)
  BY <1>1 DEF CompletionsInv
<1>3. ~Contains(service.order, i)
  BY <1>1, <1>2, ServiceFields DEF Contains, Range
<1> DEFINE q == Reserve(service, i, c, maximum)
           row == [status |-> "reserved", child |-> c, maximum |-> maximum, actual |-> NoCost]
<1>4. q = [root |-> Reserved(service.root, maximum),
           child |-> [service.child EXCEPT ![c] = Reserved(service.child[c], maximum)],
           reservation |-> [service.reservation EXCEPT ![i] = row],
           circuit |-> service.circuit, pending |-> service.pending, order |-> service.order]
  <2>1. service = [root |-> service.root, child |-> service.child,
                   reservation |-> service.reservation, circuit |-> service.circuit,
                   pending |-> service.pending, order |-> service.order]
    BY <1>1 DEF MandateTyped, ServiceState
  <2>2. q = [service EXCEPT !.root = Reserved(service.root, maximum),
                            !.child = [service.child EXCEPT ![c] = Reserved(service.child[c], maximum)],
                            !.reservation = [service.reservation EXCEPT ![i] = row]]
    BY <1>2 DEF Reserve
  <2> HIDE DEF q, row
  <2> QED
    BY <2>1, <2>2
<1> DEFINE circuit == Evaluate(service.circuit[c], cost)
           held == [held |-> TRUE, child |-> c, cost |-> cost, circuit |-> circuit.state,
                    released |-> FALSE, payer |-> NoCaller]
<1>5. Hold(q, i, c, cost) =
        [q EXCEPT !.circuit = [service.circuit EXCEPT ![c] = circuit],
                  !.pending = [service.pending EXCEPT ![i] = held],
                  !.order = Append(service.order, i)]
  <2>1. q.circuit = service.circuit /\ q.pending = service.pending /\ q.order = service.order
    BY <1>4
  <2> HIDE DEF q
  <2> QED
    BY <1>3, <2>1 DEF Hold
<1> HIDE DEF q, row, circuit, held
<1>6. service' = [root |-> Reserved(service.root, maximum),
                  child |-> [service.child EXCEPT ![c] = Reserved(service.child[c], maximum)],
                  reservation |-> [service.reservation EXCEPT ![i] = row],
                  circuit |-> [service.circuit EXCEPT ![c] = circuit],
                  pending |-> [service.pending EXCEPT ![i] = held],
                  order |-> Append(service.order, i)]
  <2>1. service' = Hold(q, i, c, cost)
    BY DEF q
  <2> QED
    BY <1>4, <1>5, <2>1
<1> QED
  BY <1>6 DEF Holds, row, circuit, held

LEMMA CircuitMoves ==
  ASSUME MandateInv, NEW c \in Children, NEW cost \in Costs, Open(c)
  PROVE  LET circuit == Evaluate(service.circuit[c], cost) IN
         /\ circuit \in Circuit
         /\ circuit.state # "TRIPPED" => circuit.violations <= 1
<1> DEFINE old == service.circuit[c]
           spiked == IF Spike(old, cost) THEN old.violations + 1 ELSE 0
<1>1. old \in Circuit /\ old.state # "TRIPPED" /\ old.violations <= 1
  BY ServiceFields DEF MandateInv, CompletionsInv, Open
<1>2. /\ old.violations \in 0..2 /\ old.previous \in Costs \cup {NoCost}
      /\ old = [state |-> old.state, violations |-> old.violations, previous |-> old.previous]
  BY <1>1 DEF Circuit
<1>3. spiked \in 0..2
  BY <1>1, <1>2
<1> DEFINE new == CASE spiked = 0 -> "HEALTHY" [] spiked = 1 -> "ELEVATED" [] OTHER -> "TRIPPED"
<1>4. new \in CircuitStates /\ (new # "TRIPPED" => spiked <= 1)
  <2> HIDE DEF spiked
  <2> QED
    BY <1>3 DEF CircuitStates
<1>5. CASE cost > Ceiling
  <2>1. Evaluate(old, cost) =
          [state |-> "TRIPPED", violations |-> old.violations, previous |-> old.previous]
    BY <1>2, <1>5 DEF Evaluate
  <2> HIDE DEF old
  <2> QED
    BY <1>2, <2>1 DEF Circuit, CircuitStates, old
<1>6. CASE ~ (cost > Ceiling)
  <2>1. Evaluate(old, cost) = [state |-> new, violations |-> spiked, previous |-> cost]
    BY <1>6 DEF Evaluate
  <2> HIDE DEF new, spiked
  <2> QED
    BY <1>3, <1>4, <2>1 DEF Circuit
<1> QED
  BY <1>5, <1>6

LEMMA TotalAtLeast ==
  ASSUME NEW S, IsFiniteSet(S), NEW f, NEW x \in S, f[x] \in Amount
  PROVE  f[x] <= Total(f, S)
<1> DEFINE h == [y \in S |-> IF y = x THEN 0 ELSE f[y]]
<1>1. h[x] = 0 /\ \A y \in S \ {x} : f[y] = h[y]
  OBVIOUS
<1> HIDE DEF h
<1>2. Total(f, S) = Total(h, S) + f[x]
  BY <1>1, TotalAdd
<1>3. Total(h, S) \in Nat /\ f[x] \in Nat
  BY UnitsFinite, MaxAmountAssumption DEF Amount
<1> QED
  BY <1>2, <1>3

(* What a sum becomes when one summand goes from a to b. *)
LEMMA TotalMoves ==
  ASSUME NEW S, IsFiniteSet(S), NEW f, NEW g, NEW x \in S, NEW a \in Amount, NEW b \in Amount,
         f[x] = a, g[x] = b, \A y \in S \ {x} : g[y] = f[y]
  PROVE  Total(g, S) = Total(f, S) - a + b
<1>1. Total(g, S) + f[x] = Total(f, S) + g[x]
  BY TotalShift
<1>2. Total(f, S) \in Nat /\ Total(g, S) \in Nat /\ a \in Nat /\ b \in Nat
  BY UnitsFinite, MaxAmountAssumption DEF Amount
<1> QED
  BY <1>1, <1>2

(* One request i of one child c moves: what it has outstanding goes from o to  *)
(* p, what it cost from r to s, and both accounts go with it.                  *)
Moves(c, i, o, p, r, s) ==
  /\ Outstanding(c)[i] = o /\ (Outstanding(c))'[i] = p
  /\ Reconciliations(c)[i] = r /\ (Reconciliations(c))'[i] = s
  /\ service'.child[c].reserved = service.child[c].reserved - o + p
  /\ service'.child[c].settled = service.child[c].settled - r + s
  /\ service'.root.reserved = service.root.reserved - o + p
  /\ service'.root.settled = service.root.settled - r + s

OthersRest(c, i) ==
  /\ \A j \in Ids \ {i} : /\ service'.reservation[j] = service.reservation[j]
                          /\ service'.pending[j] = service.pending[j]
  /\ \A d \in Children \ {c} :
       /\ service'.child[d].reserved = service.child[d].reserved
       /\ service'.child[d].settled = service.child[d].settled
       /\ (Outstanding(d))'[i] = Outstanding(d)[i]
       /\ (Reconciliations(d))'[i] = Reconciliations(d)[i]

AccountsSolvent ==
  /\ service.root \in AccountRecord /\ service.child \in [Children -> AccountRecord]
  /\ Solvent(service.root) /\ \A d \in Children : Solvent(service.child[d])

LEMMA BooksMove ==
  ASSUME MandateTyped, AccountsInv, AccountsSolvent', NEW c \in Children, NEW i \in Ids,
         NEW o \in Amount, NEW p \in Amount, NEW r \in Amount, NEW s \in Amount,
         Moves(c, i, o, p, r, s), OthersRest(c, i)
  PROVE  AccountsInv'
<1>0. /\ Outstanding(c)[i] = o /\ (Outstanding(c))'[i] = p
      /\ Reconciliations(c)[i] = r /\ (Reconciliations(c))'[i] = s
      /\ service'.child[c].reserved = service.child[c].reserved - o + p
      /\ service'.child[c].settled = service.child[c].settled - r + s
      /\ service'.root.reserved = service.root.reserved - o + p
      /\ service'.root.settled = service.root.settled - r + s
  BY DEF Moves
<1>1. IsFiniteSet(Ids) /\ IsFiniteSet(Children) /\ MaxAmount \in Nat
  BY MandateAssumption, MaxAmountAssumption
<1>2. o \in Nat /\ p \in Nat /\ r \in Nat /\ s \in Nat
  BY <1>1 DEF Amount
<1>3. \A d \in Children : \A j \in Ids \ {i} :
        /\ (Outstanding(d))'[j] = Outstanding(d)[j]
        /\ (Reconciliations(d))'[j] = Reconciliations(d)[j]
  BY DEF Outstanding, Reconciliations, OthersRest
<1>4. ASSUME NEW d \in Children
      PROVE  /\ service.child[d].reserved \in Amount /\ service.child[d].settled \in Amount
             /\ service'.child[d].reserved \in Amount /\ service'.child[d].settled \in Amount
  <2>1. service.child[d] \in AccountRecord /\ Solvent(service.child[d])
    BY ServiceFields DEF AccountsInv
  <2>2. service'.child[d] \in AccountRecord /\ Solvent(service'.child[d])
    BY DEF AccountsSolvent, Solvent, Available
  <2> HIDE DEF Solvent
  <2> QED
    BY <2>1, <2>2, SolventFacts
<1>5. ASSUME NEW d \in Children \ {c}
      PROVE  /\ Total((Outstanding(d))', Ids) = Total(Outstanding(d), Ids)
             /\ Total((Reconciliations(d))', Ids) = Total(Reconciliations(d), Ids)
  <2>1. (Outstanding(d))' = Outstanding(d)
    BY <1>3 DEF Outstanding, OthersRest
  <2>2. (Reconciliations(d))' = Reconciliations(d)
    BY <1>3 DEF Reconciliations, OthersRest
  <2> QED
    BY <2>1, <2>2
<1>6. Total((Outstanding(c))', Ids) = Total(Outstanding(c), Ids) - o + p
  <2> DEFINE f == Outstanding(c)
             g == (Outstanding(c))'
  <2>1. f[i] = o /\ g[i] = p /\ \A j \in Ids \ {i} : g[j] = f[j]
    BY <1>0, <1>3
  <2> HIDE DEF f, g
  <2>2. Total(g, Ids) = Total(f, Ids) - o + p
    BY <1>1, <2>1, TotalMoves
  <2> QED
    BY <2>2 DEF f, g
<1>7. Total((Reconciliations(c))', Ids) = Total(Reconciliations(c), Ids) - r + s
  <2> DEFINE f == Reconciliations(c)
             g == (Reconciliations(c))'
  <2>1. f[i] = r /\ g[i] = s /\ \A j \in Ids \ {i} : g[j] = f[j]
    BY <1>0, <1>3
  <2> HIDE DEF f, g
  <2>2. Total(g, Ids) = Total(f, Ids) - r + s
    BY <1>1, <2>1, TotalMoves
  <2> QED
    BY <2>2 DEF f, g
<1>8. /\ service'.child[c].reserved = Total((Outstanding(c))', Ids)
      /\ service'.child[c].settled = Total((Reconciliations(c))', Ids)
  BY <1>0, <1>6, <1>7 DEF AccountsInv
<1> DEFINE R == [d \in Children |-> service.child[d].reserved]
           Rn == [d \in Children |-> service'.child[d].reserved]
           T == [d \in Children |-> service.child[d].settled]
           Tn == [d \in Children |-> service'.child[d].settled]
<1>9. /\ R[c] \in Amount /\ Rn[c] \in Amount /\ \A d \in Children \ {c} : Rn[d] = R[d]
      /\ T[c] \in Amount /\ Tn[c] \in Amount /\ \A d \in Children \ {c} : Tn[d] = T[d]
      /\ Rn[c] = R[c] - o + p /\ Tn[c] = T[c] - r + s
  BY <1>0, <1>4 DEF OthersRest
<1>10. service.root.reserved = Total(R, Children) /\ service.root.settled = Total(T, Children)
  BY DEF AccountsInv
<1> HIDE DEF R, Rn, T, Tn
<1>11. service'.root.reserved = Total(Rn, Children)
  <2>1. Total(Rn, Children) = Total(R, Children) - R[c] + Rn[c]
    BY <1>1, <1>9, TotalMoves
  <2>2. Total(R, Children) \in Nat /\ R[c] \in Nat
    BY <1>1, <1>9, UnitsFinite DEF Amount
  <2> QED
    BY <1>0, <1>2, <1>9, <1>10, <2>1, <2>2
<1>12. service'.root.settled = Total(Tn, Children)
  <2>1. Total(Tn, Children) = Total(T, Children) - T[c] + Tn[c]
    BY <1>1, <1>9, TotalMoves
  <2>2. Total(T, Children) \in Nat /\ T[c] \in Nat
    BY <1>1, <1>9, UnitsFinite DEF Amount
  <2> QED
    BY <1>0, <1>2, <1>9, <1>10, <2>1, <2>2
<1>13. \A d \in Children :
         /\ service'.child[d].reserved = Total((Outstanding(d))', Ids)
         /\ service'.child[d].settled = Total((Reconciliations(d))', Ids)
  BY <1>5, <1>8 DEF AccountsInv, OthersRest
<1> QED
  BY <1>11, <1>12, <1>13 DEF AccountsInv, AccountsSolvent, Solvent, Available, Rn, Tn

LEMMA HoldStep ==
  ASSUME MandateInv, NEW i \in Ids, NEW c \in Children, NEW maximum \in Nat, NEW cost \in Costs,
         ~Held(i), Open(c), Holds(i, c, maximum, cost),
         maximum <= Available(service.child[c]), maximum <= Available(service.root),
         receipts' = receipts \cup ExtractNewReceipt(service'),
         caller' \in [Callers -> {Free} \cup [at : {"paid", "quoted"}, ask : Asks]],
         \A x \in Callers : caller'[x].at = "quoted" =>
           caller'[x].ask.id = i \/ (caller[x] = caller'[x]),
         toldReceipts' = toldReceipts
  PROVE  MandateInv'
<1>1. MandateTyped /\ CompletionsInv /\ AccountsInv
  BY DEF MandateInv
<1> DEFINE row == [status |-> "reserved", child |-> c, maximum |-> maximum, actual |-> NoCost]
           circuit == Evaluate(service.circuit[c], cost)
           held == [held |-> TRUE, child |-> c, cost |-> cost, circuit |-> circuit.state,
                    released |-> FALSE, payer |-> NoCaller]
<1>2. /\ service'.root = Reserved(service.root, maximum)
      /\ service'.child = [service.child EXCEPT ![c] = Reserved(service.child[c], maximum)]
      /\ service'.reservation = [service.reservation EXCEPT ![i] = row]
      /\ service'.circuit = [service.circuit EXCEPT ![c] = circuit]
      /\ service'.pending = [service.pending EXCEPT ![i] = held]
      /\ service'.order = Append(service.order, i)
      /\ service' = [root |-> service'.root, child |-> service'.child,
                     reservation |-> service'.reservation, circuit |-> service'.circuit,
                     pending |-> service'.pending, order |-> service'.order]
  BY DEF Holds
<1>3. circuit \in Circuit /\ (circuit.state # "TRIPPED" => circuit.violations <= 1)
  BY CircuitMoves
<1>4. /\ service.root \in AccountRecord /\ Solvent(service.root)
      /\ service.child[c] \in AccountRecord /\ Solvent(service.child[c])
  BY <1>1, ServiceFields DEF AccountsInv
<1>5. /\ service'.root \in AccountRecord /\ Solvent(service'.root)
      /\ service'.root.reserved = service.root.reserved + maximum
      /\ service'.root.settled = service.root.settled
  BY <1>2, <1>4, AccountMoves
<1>6. /\ Reserved(service.child[c], maximum) \in AccountRecord
      /\ Solvent(Reserved(service.child[c], maximum))
      /\ Reserved(service.child[c], maximum).reserved = service.child[c].reserved + maximum
      /\ Reserved(service.child[c], maximum).settled = service.child[c].settled
  BY <1>4, AccountMoves
<1>7. maximum \in Amount
  <2>1. /\ service.root.authorized \in Amount /\ service.root.reserved \in Nat
        /\ service.root.settled \in Nat
        /\ Available(service.root) =
             service.root.authorized - service.root.reserved - service.root.settled
    BY <1>4, SolventFacts DEF Solvent
  <2> QED
    BY <2>1, MaxAmountAssumption DEF Amount
<1>8. row \in ReservationRow /\ row # NoReservation /\ row.status = "reserved" /\ row.child = c
      /\ row.maximum = maximum
  <2>1. row \in ReservationRow /\ row.status = "reserved" /\ row.child = c /\ row.maximum = maximum
    BY <1>7 DEF ReservationRow
  <2> HIDE DEF row
  <2> QED
    BY <2>1, MandateRows
<1>9. held \in Completion /\ held.held /\ ~held.released
  BY <1>3 DEF Completion, Circuit
<1> HIDE DEF row, held, circuit
<1>10. MandateTyped'
  <2>1. service'.child \in [Children -> AccountRecord]
    BY <1>1, <1>2, <1>6, ServiceFields
  <2>2. service'.reservation \in [Ids -> {NoReservation} \cup ReservationRow]
    BY <1>1, <1>2, <1>8, ServiceFields
  <2>3. service'.circuit \in [Children -> Circuit]
    BY <1>1, <1>2, <1>3, ServiceFields
  <2>4. service'.pending \in [Ids -> {NoPending} \cup Completion]
    BY <1>1, <1>2, <1>9, ServiceFields
  <2>5. service'.order \in Seq(Ids)
    BY <1>1, <1>2, ServiceFields
  <2>6. service' \in ServiceState
    BY <1>2, <1>5, <2>1, <2>2, <2>3, <2>4, <2>5 DEF ServiceState
  <2>7. receipts' \subseteq Ids
    BY <1>1, <2>5, ReceiptsOfRequests DEF MandateTyped
  <2> QED
    BY <1>1, <2>6, <2>7 DEF MandateTyped
<1>11. /\ service'.reservation[i] = row /\ service'.pending[i] = held
       /\ \A j \in Ids \ {i} : /\ service'.reservation[j] = service.reservation[j]
                               /\ service'.pending[j] = service.pending[j]
  BY <1>1, <1>2, ServiceFields
<1>12. CompletionsInv'
  <2>1. Range(service'.order) = Range(service.order) \cup {i}
    <3>1. /\ Len(service'.order) = Len(service.order) + 1 /\ Len(service.order) \in Nat
          /\ DOMAIN service'.order = 1..Len(service'.order)
          /\ DOMAIN service.order = 1..Len(service.order)
          /\ service'.order[Len(service.order) + 1] = i
          /\ \A n \in 1..Len(service.order) : service'.order[n] = service.order[n]
      BY <1>1, <1>2, ServiceFields
    <3> QED
      BY <3>1 DEF Range
  <2>2. toldReceipts[i] = {}
    BY <1>1 DEF CompletionsInv
  <2>3. ASSUME NEW j \in Ids
        PROVE  /\ service'.pending[j].held <=> j \in Range(service'.order)
               /\ service'.pending[j].held <=> service'.reservation[j] # NoReservation
               /\ service'.pending[j].held =>
                    /\ service'.reservation[j].status =
                         IF service'.pending[j].released THEN "reconciled" ELSE "reserved"
                    /\ service'.pending[j].released =>
                         service'.reservation[j].actual = service'.pending[j].cost
               /\ \A receipt \in toldReceipts'[j] :
                    /\ service'.pending[j].held /\ service'.pending[j].released
                    /\ receipt = <<service'.reservation[j].actual, service'.pending[j].payer>>
    <3>1. CASE j = i
      BY <1>8, <1>9, <1>11, <2>1, <2>2, <3>1
    <3>2. CASE j # i
      BY <1>1, <1>11, <2>1, <3>2 DEF CompletionsInv, Held
    <3> QED
      BY <3>1, <3>2
  <2>4. ASSUME NEW x \in Callers, caller'[x].at = "quoted"
        PROVE  service'.pending[caller'[x].ask.id].held
    <3>1. CASE caller'[x].ask.id = i
      BY <1>9, <1>11, <3>1
    <3>2. CASE caller[x] = caller'[x]
      <4>1. caller[x].ask \in Asks /\ Held(caller[x].ask.id)
        BY <1>1, <2>4, <3>2, MandateRows DEF CompletionsInv, MandateTyped
      <4> QED
        BY <1>11, <3>2, <4>1, MandateRows DEF Held
    <3> QED
      BY <2>4, <3>1, <3>2
  <2>5. \A d \in Children :
          service'.circuit[d].state # "TRIPPED" => service'.circuit[d].violations <= 1
    BY <1>1, <1>2, <1>3, ServiceFields DEF CompletionsInv
  <2> QED
    BY <2>3, <2>4, <2>5 DEF CompletionsInv, Held
<1>13. AccountsInv'
  <2>1. /\ service'.child \in [Children -> AccountRecord]
        /\ service'.child[c] = Reserved(service.child[c], maximum)
        /\ \A d \in Children \ {c} : service'.child[d] = service.child[d]
    BY <1>1, <1>2, <1>6, ServiceFields
  <2>2. \A d \in Children : Solvent(service'.child[d])
    BY <1>1, <1>6, <2>1 DEF AccountsInv
  <2>3. service.reservation[i].status = "none"
    BY <1>1, MandateRows DEF CompletionsInv
  <2>4. /\ Outstanding(c)[i] = 0 /\ (Outstanding(c))'[i] = maximum
        /\ Reconciliations(c)[i] = 0 /\ (Reconciliations(c))'[i] = 0
    BY <1>8, <1>11, <2>3 DEF Outstanding, Reconciliations
  <2>5. \A d \in Children \ {c} :
          /\ (Outstanding(d))'[i] = Outstanding(d)[i]
          /\ (Reconciliations(d))'[i] = Reconciliations(d)[i]
    BY <1>8, <1>11, <2>3 DEF Outstanding, Reconciliations
  <2>6. 0 \in Amount /\ 0 + maximum = maximum
    BY MaxAmountAssumption DEF Amount
  <2>7. /\ service'.child[c].reserved = service.child[c].reserved - 0 + maximum
        /\ service'.child[c].settled = service.child[c].settled - 0 + 0
        /\ service'.root.reserved = service.root.reserved - 0 + maximum
        /\ service'.root.settled = service.root.settled - 0 + 0
    BY <1>4, <1>5, <1>6, <2>1, SolventFacts
  <2>8. \A d \in Children \ {c} : /\ service'.child[d].reserved = service.child[d].reserved
                                  /\ service'.child[d].settled = service.child[d].settled
    BY <2>1
  <2>9. AccountsSolvent' /\ Moves(c, i, 0, maximum, 0, 0) /\ OthersRest(c, i)
    <3>1. AccountsSolvent'
      BY <1>5, <2>1, <2>2 DEF AccountsSolvent, Solvent, Available
    <3>2. Moves(c, i, 0, maximum, 0, 0)
      BY <2>4, <2>7 DEF Moves
    <3>3. OthersRest(c, i)
      BY <1>11, <2>5, <2>8 DEF OthersRest
    <3> QED
      BY <3>1, <3>2, <3>3
  <2> QED
    BY <1>1, <1>7, <2>6, <2>9, BooksMove
<1> QED
  BY <1>10, <1>12, <1>13 DEF MandateInv

(* What the release of a held completion leaves in the row. *)
Releases(i, x) ==
  LET reservation == service.reservation[i]
      held == service.pending[i]
      settled == [service.child EXCEPT ![reservation.child] =
                    Reconciled(service.child[reservation.child], reservation.maximum, held.cost)]
  IN
  /\ service'.root = Reconciled(service.root, reservation.maximum, held.cost)
  /\ service'.child = IF held.circuit = "TRIPPED"
                      THEN [settled EXCEPT ![held.child] = Reclaimed(settled[held.child])]
                      ELSE settled
  /\ service'.reservation = [service.reservation EXCEPT ![i] =
       [reservation EXCEPT !.status = "reconciled", !.actual = held.cost]]
  /\ service'.circuit = service.circuit
  /\ service'.pending = [service.pending EXCEPT ![i] =
       [held EXCEPT !.released = TRUE, !.payer = x]]
  /\ service'.order = service.order
  /\ service' = [root |-> service'.root, child |-> service'.child,
                 reservation |-> service'.reservation, circuit |-> service'.circuit,
                 pending |-> service'.pending, order |-> service'.order]

LEMMA ReleaseWrites ==
  ASSUME MandateInv, NEW x \in Callers, NEW i \in Ids, i = caller[x].ask.id, Held(i),
         ~service.pending[i].released, ReleasePaidCompletion(x)
  PROVE  /\ Releases(i, x) /\ service.pending[i].cost <= service.reservation[i].maximum
         /\ receipts' = receipts \cup ExtractNewReceipt(service')
<1>1. MandateTyped /\ CompletionsInv
  BY DEF MandateInv
<1> DEFINE reservation == service.reservation[i]
           held == service.pending[i]
           settled == Settle(service, i)
           reclaimed == IF held.circuit = "TRIPPED" THEN ReclaimAvailable(settled, held.child)
                        ELSE settled
           released == [reclaimed EXCEPT !.pending[i].released = TRUE, !.pending[i].payer = x]
           c == reservation.child
           children == [service.child EXCEPT ![c] =
                          Reconciled(service.child[c], reservation.maximum, held.cost)]
           row == [reservation EXCEPT !.status = "reconciled", !.actual = held.cost]
           completion == [held EXCEPT !.released = TRUE, !.payer = x]
<1>2. /\ reservation \in ReservationRow /\ reservation.status = "reserved"
      /\ held \in Completion
  BY <1>1, ServiceFields, MandateRows DEF CompletionsInv, Held
<1>3. /\ service' = released /\ receipts' = receipts \cup ExtractNewReceipt(service')
      /\ held.cost <= reservation.maximum
  BY <1>2 DEF ReleasePaidCompletion, Commit, Reconcilable
<1>4. service = [root |-> service.root, child |-> service.child,
                 reservation |-> service.reservation, circuit |-> service.circuit,
                 pending |-> service.pending, order |-> service.order]
  BY <1>1 DEF MandateTyped, ServiceState
<1>5. settled = [root |-> Reconciled(service.root, reservation.maximum, held.cost),
                 child |-> children,
                 reservation |-> [service.reservation EXCEPT ![i] = row],
                 circuit |-> service.circuit, pending |-> service.pending,
                 order |-> service.order]
  <2>1. c \in Children
    BY <1>2, MandateRows
  <2>2. settled = [service EXCEPT
                     !.root = Reconciled(service.root, reservation.maximum, held.cost),
                     !.child = children,
                     !.reservation = [service.reservation EXCEPT ![i] = row]]
    BY <1>2 DEF Settle
  <2> HIDE DEF settled, children, row
  <2> QED
    BY <1>4, <2>2
<1> HIDE DEF settled
<1> DEFINE kept == IF held.circuit = "TRIPPED"
                   THEN [children EXCEPT ![held.child] = Reclaimed(children[held.child])]
                   ELSE children
<1>6. reclaimed = [root |-> Reconciled(service.root, reservation.maximum, held.cost),
                   child |-> kept,
                   reservation |-> [service.reservation EXCEPT ![i] = row],
                   circuit |-> service.circuit, pending |-> service.pending,
                   order |-> service.order]
  <2> HIDE DEF children, row
  <2>1. ReclaimAvailable(settled, held.child) =
          [settled EXCEPT !.child = [children EXCEPT ![held.child] = Reclaimed(children[held.child])]]
    BY <1>5 DEF ReclaimAvailable
  <2> QED
    BY <1>5, <2>1
<1> HIDE DEF reclaimed
<1>7. released = [root |-> Reconciled(service.root, reservation.maximum, held.cost),
                  child |-> kept,
                  reservation |-> [service.reservation EXCEPT ![i] = row],
                  circuit |-> service.circuit,
                  pending |-> [service.pending EXCEPT ![i] = completion],
                  order |-> service.order]
  <2> HIDE DEF kept, children, row
  <2>1. released = [reclaimed EXCEPT !.pending =
                      [reclaimed.pending EXCEPT ![i].released = TRUE, ![i].payer = x]]
    OBVIOUS
  <2>2. [service.pending EXCEPT ![i].released = TRUE, ![i].payer = x] =
          [service.pending EXCEPT ![i] = completion]
    BY <1>1, <1>2, ServiceFields DEF Completion
  <2>3. reclaimed.pending = service.pending
    BY <1>6
  <2> HIDE DEF released, completion
  <2> QED
    BY <1>6, <2>1, <2>2, <2>3
<1> HIDE DEF released
<1> QED
  BY <1>3, <1>7 DEF Releases

LEMMA ReleaseStep ==
  ASSUME MandateInv, NEW x \in Callers, NEW i \in Ids, Held(i), ~service.pending[i].released,
         Releases(i, x), service.pending[i].cost <= service.reservation[i].maximum,
         receipts' = receipts \cup ExtractNewReceipt(service'),
         caller' = [caller EXCEPT ![x] = Free],
         toldReceipts' \in {toldReceipts, [toldReceipts EXCEPT ![i] =
           @ \cup {<<service'.pending[i].cost, service'.pending[i].payer>>}]}
  PROVE  MandateInv'
<1>1. MandateTyped /\ CompletionsInv /\ AccountsInv
  BY DEF MandateInv
<1> DEFINE reservation == service.reservation[i]
           held == service.pending[i]
           c == reservation.child
           m == reservation.maximum
           n == held.cost
           account == Reconciled(service.child[c], m, n)
           children == [service.child EXCEPT ![c] = account]
           row == [reservation EXCEPT !.status = "reconciled", !.actual = held.cost]
           completion == [held EXCEPT !.released = TRUE, !.payer = x]
<1>2. /\ reservation \in ReservationRow /\ reservation.status = "reserved"
      /\ held \in Completion
  BY <1>1, ServiceFields, MandateRows DEF CompletionsInv, Held
<1>3. /\ c \in Children /\ m \in Amount /\ n \in Costs /\ n \in Nat /\ m \in Nat /\ n \in Amount
      /\ held.child \in Children
  <2>1. c \in Children /\ m \in Amount /\ n \in Costs /\ held.child \in Children
    BY <1>2, MandateRows
  <2>2. n \in Nat /\ MaxAmount \in Nat
    BY <2>1, MandateAssumption, MaxAmountAssumption
  <2> QED
    BY <2>1, <2>2 DEF Amount
<1>4. /\ row \in ReservationRow /\ row.status = "reconciled" /\ row.child = c
      /\ row.actual = n
  BY <1>2, <1>3 DEF ReservationRow
<1>5. /\ completion \in Completion /\ completion.held /\ completion.released
      /\ completion.cost = n /\ completion.payer = x
  BY <1>2 DEF Completion
<1>6. /\ service'.root = Reconciled(service.root, m, n)
      /\ service'.child = IF held.circuit = "TRIPPED"
                          THEN [children EXCEPT ![held.child] = Reclaimed(children[held.child])]
                          ELSE children
      /\ service'.reservation = [service.reservation EXCEPT ![i] = row]
      /\ service'.circuit = service.circuit
      /\ service'.pending = [service.pending EXCEPT ![i] = completion]
      /\ service'.order = service.order
      /\ service' = [root |-> service'.root, child |-> service'.child,
                     reservation |-> service'.reservation, circuit |-> service'.circuit,
                     pending |-> service'.pending, order |-> service'.order]
  BY DEF Releases
<1>7. row # NoReservation
  BY <1>4, MandateRows
<1> HIDE DEF row, completion
<1>8. /\ service'.reservation[i] = row /\ service'.pending[i] = completion
      /\ \A j \in Ids \ {i} : /\ service'.reservation[j] = service.reservation[j]
                              /\ service'.pending[j] = service.pending[j]
  BY <1>1, <1>6, ServiceFields
(* The accounts. *)
<1>9. \A d \in Children : service.child[d] \in AccountRecord /\ Solvent(service.child[d])
  BY <1>1, ServiceFields DEF AccountsInv
<1>10. service.root \in AccountRecord /\ Solvent(service.root)
  BY <1>1, ServiceFields DEF AccountsInv
<1>11. Outstanding(c)[i] = m /\ Reconciliations(c)[i] = 0
  BY <1>2 DEF Outstanding, Reconciliations
<1>12. m <= service.child[c].reserved
  <2>1. service.child[c].reserved = Total(Outstanding(c), Ids)
    BY <1>1, <1>3 DEF AccountsInv
  <2> DEFINE f == Outstanding(c)
  <2>2. f[i] = m
    BY <1>11
  <2> HIDE DEF f
  <2>3. m <= Total(f, Ids)
    BY <1>3, <2>2, MandateAssumption, TotalAtLeast
  <2> QED
    BY <2>1, <2>3 DEF f
<1>13. m <= service.root.reserved
  <2> DEFINE f == [d \in Children |-> service.child[d].reserved]
  <2>1. service.root.reserved = Total(f, Children)
    BY <1>1 DEF AccountsInv
  <2>2. f[c] = service.child[c].reserved /\ f[c] \in Amount
    BY <1>3, <1>9, SolventFacts
  <2> HIDE DEF f
  <2>3. f[c] <= Total(f, Children) /\ Total(f, Children) \in Nat /\ f[c] \in Nat
    BY <1>3, <2>2, MandateAssumption, MaxAmountAssumption, TotalAtLeast, UnitsFinite DEF Amount
  <2>4. m <= f[c]
    BY <1>12, <2>2
  <2>5. m \in Nat
    BY <1>3
  <2> HIDE DEF m, c
  <2>6. m <= Total(f, Children)
    BY <2>3, <2>4, <2>5
  <2> QED
    BY <2>1, <2>6
<1>14. /\ account \in AccountRecord /\ Solvent(account)
       /\ account.reserved = service.child[c].reserved - m
       /\ account.settled = service.child[c].settled + n
  <2>1. service.child[c] \in AccountRecord /\ Solvent(service.child[c]) /\ n <= m
    BY <1>3, <1>9
  <2> HIDE DEF m, n, c
  <2> QED
    BY <1>3, <1>12, <2>1, AccountMoves
<1>15. /\ service'.root \in AccountRecord /\ Solvent(service'.root)
       /\ service'.root.reserved = service.root.reserved - m
       /\ service'.root.settled = service.root.settled + n
  <2>1. service'.root = Reconciled(service.root, m, n) /\ n <= m
    BY <1>6
  <2> HIDE DEF m, n
  <2> QED
    BY <1>3, <1>10, <1>13, <2>1, AccountMoves
<1> HIDE DEF account
<1>16. /\ children \in [Children -> AccountRecord] /\ children[c] = account
       /\ \A d \in Children : children[d] \in AccountRecord /\ Solvent(children[d])
       /\ \A d \in Children \ {c} : children[d] = service.child[d]
  BY <1>1, <1>3, <1>9, <1>14, ServiceFields
<1> HIDE DEF children
<1>17. /\ service'.child \in [Children -> AccountRecord]
       /\ \A d \in Children : /\ Solvent(service'.child[d])
                              /\ service'.child[d].reserved = children[d].reserved
                              /\ service'.child[d].settled = children[d].settled
  <2>1. /\ Reclaimed(children[held.child]) \in AccountRecord
        /\ Solvent(Reclaimed(children[held.child]))
        /\ Reclaimed(children[held.child]).reserved = children[held.child].reserved
        /\ Reclaimed(children[held.child]).settled = children[held.child].settled
    BY <1>3, <1>16, AccountMoves
  <2>2. CASE held.circuit = "TRIPPED"
    <3>1. service'.child = [children EXCEPT ![held.child] = Reclaimed(children[held.child])]
      BY <1>6, <2>2
    <3> QED
      BY <1>3, <1>16, <2>1, <3>1
  <2>3. CASE held.circuit # "TRIPPED"
    <3>1. service'.child = children
      BY <1>6, <2>3
    <3> QED
      BY <1>16, <3>1
  <2> QED
    BY <2>2, <2>3
<1>18. AccountsInv'
  <2>1. AccountsSolvent'
    BY <1>15, <1>17 DEF AccountsSolvent, Solvent, Available
  <2>2. (Outstanding(c))'[i] = 0 /\ (Reconciliations(c))'[i] = n
    BY <1>4, <1>5, <1>8 DEF Outstanding, Reconciliations
  <2>3. \A d \in Children \ {c} :
          /\ (Outstanding(d))'[i] = Outstanding(d)[i]
          /\ (Reconciliations(d))'[i] = Reconciliations(d)[i]
    BY <1>2, <1>4, <1>8 DEF Outstanding, Reconciliations
  <2>4. /\ service'.child[c].reserved = service.child[c].reserved - m + 0
        /\ service'.child[c].settled = service.child[c].settled - 0 + n
        /\ service'.root.reserved = service.root.reserved - m + 0
        /\ service'.root.settled = service.root.settled - 0 + n
    <3>1. /\ service.child[c].reserved \in Nat /\ service.child[c].settled \in Nat
          /\ service.root.reserved \in Nat /\ service.root.settled \in Nat
      BY <1>3, <1>9, <1>10, SolventFacts
    <3> QED
      BY <1>3, <1>14, <1>15, <1>16, <1>17, <3>1
  <2>5. Moves(c, i, m, 0, 0, n)
    BY <1>11, <2>2, <2>4 DEF Moves
  <2>6. OthersRest(c, i)
    BY <1>8, <1>16, <1>17, <2>3 DEF OthersRest
  <2>7. 0 \in Amount
    BY MaxAmountAssumption DEF Amount
  <2> HIDE DEF c, m, n
  <2> QED
    BY <1>1, <1>3, <2>1, <2>5, <2>6, <2>7, BooksMove
<1>19. MandateTyped'
  <2>1. service'.reservation \in [Ids -> {NoReservation} \cup ReservationRow]
    BY <1>1, <1>4, <1>6, ServiceFields
  <2>2. service'.pending \in [Ids -> {NoPending} \cup Completion]
    BY <1>1, <1>5, <1>6, ServiceFields
  <2>3. service'.circuit \in [Children -> Circuit] /\ service'.order \in Seq(Ids)
    BY <1>1, <1>6, ServiceFields
  <2>4. service' \in ServiceState
    BY <1>6, <1>15, <1>17, <2>1, <2>2, <2>3 DEF ServiceState
  <2>5. receipts' \subseteq Ids
    BY <1>1, <2>3, ReceiptsOfRequests DEF MandateTyped
  <2>6. caller' \in [Callers -> {Free} \cup [at : {"paid", "quoted"}, ask : Asks]]
    BY <1>1 DEF MandateTyped
  <2>7. toldReceipts' \in [Ids -> SUBSET (Costs \X (Callers \cup {NoCaller}))]
    BY <1>1, <1>3, <1>5, <1>8 DEF MandateTyped
  <2> QED
    BY <2>4, <2>5, <2>6, <2>7 DEF MandateTyped
<1>20. CompletionsInv'
  <2>1. toldReceipts[i] = {}
    BY <1>1 DEF CompletionsInv
  <2>2. /\ \A receipt \in toldReceipts'[i] : receipt = <<n, x>>
        /\ \A j \in Ids \ {i} : toldReceipts'[j] = toldReceipts[j]
    BY <1>1, <1>5, <1>8, <2>1 DEF MandateTyped
  <2>3. ASSUME NEW j \in Ids
        PROVE  /\ service'.pending[j].held <=> j \in Range(service'.order)
               /\ service'.pending[j].held <=> service'.reservation[j] # NoReservation
               /\ service'.pending[j].held =>
                    /\ service'.reservation[j].status =
                         IF service'.pending[j].released THEN "reconciled" ELSE "reserved"
                    /\ service'.pending[j].released =>
                         service'.reservation[j].actual = service'.pending[j].cost
               /\ \A receipt \in toldReceipts'[j] :
                    /\ service'.pending[j].held /\ service'.pending[j].released
                    /\ receipt = <<service'.reservation[j].actual, service'.pending[j].payer>>
    <3>1. CASE j = i
      <4>1. i \in Range(service.order)
        BY <1>1 DEF CompletionsInv
      <4>2. service'.pending[j] = completion /\ service'.reservation[j] = row
        BY <1>8, <3>1
      <4>3. /\ service'.pending[j].held /\ service'.pending[j].released
            /\ service'.pending[j].cost = n /\ service'.pending[j].payer = x
        BY <1>5, <4>2
      <4>4. /\ service'.reservation[j] # NoReservation
            /\ service'.reservation[j].status = "reconciled" /\ service'.reservation[j].actual = n
        BY <1>4, <1>7, <4>2
      <4>5. j \in Range(service'.order)
        BY <1>6, <3>1, <4>1
      <4>6. \A receipt \in toldReceipts'[j] : receipt = <<n, x>>
        BY <2>2, <3>1
      <4> HIDE DEF n
      <4> QED
        BY <4>3, <4>4, <4>5, <4>6
    <3>2. CASE j # i
      BY <1>1, <1>6, <1>8, <2>2, <3>2 DEF CompletionsInv, Held
    <3> QED
      BY <3>1, <3>2
  <2>4. ASSUME NEW y \in Callers, caller'[y].at = "quoted"
        PROVE  service'.pending[caller'[y].ask.id].held
    <3>1. y # x /\ caller'[y] = caller[y]
      BY <1>1, <2>4, MandateRows DEF MandateTyped
    <3>2. caller[y].ask \in Asks /\ Held(caller[y].ask.id)
      BY <1>1, <2>4, <3>1, MandateRows DEF CompletionsInv, MandateTyped
    <3> QED
      BY <1>5, <1>8, <3>1, <3>2, MandateRows DEF Held
  <2>5. \A d \in Children :
          service'.circuit[d].state # "TRIPPED" => service'.circuit[d].violations <= 1
    BY <1>1, <1>6 DEF CompletionsInv
  <2> QED
    BY <2>3, <2>4, <2>5 DEF CompletionsInv, Held
<1> QED
  BY <1>18, <1>19, <1>20 DEF MandateInv

(* Who is being served, and for which request. *)
LEMMA CallersServed ==
  ASSUME MandateInv, NEW x \in Callers, caller[x].at # "idle"
  PROVE  /\ caller[x].at \in {"paid", "quoted"} /\ caller[x].ask \in Asks
         /\ caller[x] = [at |-> caller[x].at, ask |-> caller[x].ask]
         /\ caller[x].ask.id \in Ids /\ caller[x].ask.child \in Children
         /\ caller[x].ask.maximum \in Nat
<1>1. caller[x] \in [at : {"paid", "quoted"}, ask : Asks]
  BY DEF MandateInv, MandateTyped, Free
<1>2. caller[x].ask \in Asks
  BY <1>1
<1> QED
  BY <1>1, <1>2, MandateRows

LEMMA RequirePaymentKeeps ==
  ASSUME MandateInv, NEW x \in Callers, NEW ask \in Asks, RequirePayment(x, ask)
  PROVE  MandateInv'
<1>1. MandateTyped /\ CompletionsInv
  BY DEF MandateInv
<1>2. /\ service' = service /\ receipts' = receipts /\ toldReceipts' = toldReceipts
      /\ caller' = [caller EXCEPT ![x] = [at |-> "paid", ask |-> ask]]
  BY DEF RequirePayment
<1>3. caller' \in [Callers -> {Free} \cup [at : {"paid", "quoted"}, ask : Asks]]
  BY <1>1, <1>2 DEF MandateTyped
<1>4. \A y \in Callers : caller'[y].at = "quoted" => Held(caller'[y].ask.id)
  BY <1>1, <1>2 DEF MandateTyped, CompletionsInv
<1>5. \A i \in Ids : \A receipt \in toldReceipts'[i] :
        /\ Held(i) /\ service.pending[i].released
        /\ receipt = <<service.reservation[i].actual, service.pending[i].payer>>
  BY <1>1, <1>2 DEF CompletionsInv
<1> QED
  BY <1>1, <1>2, <1>3, <1>4, <1>5, ServiceKept DEF MandateTyped

LEMMA ThrowKeeps ==
  ASSUME MandateInv, NEW x \in Callers, Throw(x)
  PROVE  MandateInv'
<1>1. MandateTyped /\ CompletionsInv
  BY DEF MandateInv
<1>2. /\ service' = service /\ receipts' = receipts /\ toldReceipts' = toldReceipts
      /\ caller' = [caller EXCEPT ![x] = Free]
  BY DEF Throw, Done
<1>3. caller' \in [Callers -> {Free} \cup [at : {"paid", "quoted"}, ask : Asks]]
  BY <1>1, <1>2 DEF MandateTyped
<1>4. \A y \in Callers : caller'[y].at = "quoted" => Held(caller'[y].ask.id)
  BY <1>1, <1>2, MandateRows DEF MandateTyped, CompletionsInv
<1>5. \A i \in Ids : \A receipt \in toldReceipts'[i] :
        /\ Held(i) /\ service.pending[i].released
        /\ receipt = <<service.reservation[i].actual, service.pending[i].payer>>
  BY <1>1, <1>2 DEF CompletionsInv
<1> QED
  BY <1>1, <1>2, <1>3, <1>4, <1>5, ServiceKept DEF MandateTyped

(* A completion that is new is held within what the child and the mandate      *)
(* have left: its request had no reservation.                                  *)
LEMMA PreparedHolds ==
  ASSUME MandateInv, NEW x \in Callers, NEW cost \in Costs, PrepareCompletion(x, cost),
         ~Held(caller[x].ask.id)
  PROVE  LET ask == caller[x].ask IN
         /\ Open(ask.child) /\ Holds(ask.id, ask.child, ask.maximum, cost)
         /\ ask.maximum <= Available(service.child[ask.child])
         /\ ask.maximum <= Available(service.root)
         /\ receipts' = receipts \cup ExtractNewReceipt(service')
<1> DEFINE i == caller[x].ask.id
           c == caller[x].ask.child
           maximum == caller[x].ask.maximum
<1>1. i \in Ids /\ c \in Children /\ maximum \in Nat
  BY CallersServed DEF PrepareCompletion, At
<1>2. service.reservation[i] = NoReservation
  BY <1>1 DEF MandateInv, CompletionsInv
<1>3. /\ Open(c) /\ Reservable(i, c, maximum)
      /\ service' = Hold(Reserve(service, i, c, maximum), i, c, cost)
      /\ receipts' = receipts \cup ExtractNewReceipt(service')
  BY DEF PrepareCompletion, Commit
<1>4. maximum <= Available(service.child[c]) /\ maximum <= Available(service.root)
  BY <1>2, <1>3 DEF Reservable
<1> HIDE DEF i, c, maximum
<1>5. ~Held(i)
  BY DEF i
<1>6. Holds(i, c, maximum, cost)
  BY <1>1, <1>3, <1>5, HoldWrites
<1> QED
  BY <1>3, <1>4, <1>6 DEF i, c, maximum

LEMMA PrepareCompletionKeeps ==
  ASSUME MandateInv, NEW x \in Callers, NEW cost \in Costs, PrepareCompletion(x, cost)
  PROVE  MandateInv'
<1>1. MandateTyped /\ CompletionsInv
  BY DEF MandateInv
<1> DEFINE i == caller[x].ask.id
           c == caller[x].ask.child
           maximum == caller[x].ask.maximum
<1>2. /\ i \in Ids /\ c \in Children /\ maximum \in Nat
      /\ caller[x] = [at |-> "paid", ask |-> caller[x].ask] /\ caller[x].ask \in Asks
  BY CallersServed DEF PrepareCompletion, At
<1>3. \/ caller' = [caller EXCEPT ![x] = [at |-> "quoted", ask |-> caller[x].ask]]
      \/ caller' = [caller EXCEPT ![x] = Free]
  <2>1. CASE caller' = [caller EXCEPT ![x].at = "quoted"]
    <3>1. [caller[x] EXCEPT !.at = "quoted"] = [at |-> "quoted", ask |-> caller[x].ask]
      BY <1>2
    <3> QED
      BY <2>1, <3>1
  <2> QED
    BY <2>1 DEF PrepareCompletion, Done
<1>4. caller' \in [Callers -> {Free} \cup [at : {"paid", "quoted"}, ask : Asks]]
  BY <1>1, <1>2, <1>3 DEF MandateTyped
<1>5. \A y \in Callers : caller'[y].at = "quoted" => caller'[y].ask.id = i \/ caller[y] = caller'[y]
  BY <1>1, <1>3, MandateRows DEF MandateTyped
<1>6. toldReceipts' = toldReceipts
  BY DEF PrepareCompletion
<1>7. CASE Held(i)
  <2>1. service' = service /\ receipts' = receipts \cup ExtractNewReceipt(service)
    BY <1>7 DEF PrepareCompletion, Commit
  <2>2. receipts' \subseteq Ids
    BY <1>1, <2>1, ServiceFields, ReceiptsOfRequests DEF MandateTyped
  <2> HIDE DEF i
  <2>3. \A y \in Callers : caller'[y].at = "quoted" => Held(caller'[y].ask.id)
    BY <1>1, <1>5, <1>7 DEF CompletionsInv
  <2>4. \A j \in Ids : \A receipt \in toldReceipts'[j] :
          /\ Held(j) /\ service.pending[j].released
          /\ receipt = <<service.reservation[j].actual, service.pending[j].payer>>
    BY <1>1, <1>6 DEF CompletionsInv
  <2> QED
    BY <1>1, <1>4, <1>6, <2>1, <2>2, <2>3, <2>4, ServiceKept DEF MandateTyped
<1>8. CASE ~Held(i)
  <2>1. /\ Open(c) /\ Holds(i, c, maximum, cost)
        /\ maximum <= Available(service.child[c]) /\ maximum <= Available(service.root)
        /\ receipts' = receipts \cup ExtractNewReceipt(service')
    BY <1>8, PreparedHolds
  <2> HIDE DEF i, c, maximum
  <2> QED
    BY <1>2, <1>4, <1>5, <1>6, <1>8, <2>1, HoldStep
<1> QED
  BY <1>7, <1>8

LEMMA ReleaseCompletionKeeps ==
  ASSUME MandateInv, NEW x \in Callers, ReleasePaidCompletion(x)
  PROVE  MandateInv'
<1>1. MandateTyped /\ CompletionsInv
  BY DEF MandateInv
<1> DEFINE i == caller[x].ask.id
           receipt == <<service'.pending[i].cost, service'.pending[i].payer>>
<1>2. i \in Ids /\ Held(i)
  BY <1>1, CallersServed DEF ReleasePaidCompletion, At, CompletionsInv
<1>3. /\ caller' = [caller EXCEPT ![x] = Free]
      /\ toldReceipts' \in {toldReceipts, [toldReceipts EXCEPT ![i] = @ \cup {receipt}]}
  BY DEF ReleasePaidCompletion, Done
<1>4. CASE service.pending[i].released
  <2>1. service' = service /\ receipts' = receipts \cup ExtractNewReceipt(service)
    BY <1>4 DEF ReleasePaidCompletion, Commit
  <2>2. receipts' \subseteq Ids
    BY <1>1, <2>1, ServiceFields, ReceiptsOfRequests DEF MandateTyped
  <2> HIDE DEF i
  <2>3. caller' \in [Callers -> {Free} \cup [at : {"paid", "quoted"}, ask : Asks]]
    BY <1>1, <1>3 DEF MandateTyped
  <2>4. \A y \in Callers : caller'[y].at = "quoted" => Held(caller'[y].ask.id)
    BY <1>1, <1>3, MandateRows DEF MandateTyped, CompletionsInv
  <2>5. /\ service.pending[i] \in Completion
        /\ service.reservation[i].actual = service.pending[i].cost
    BY <1>1, <1>2, <1>4, ServiceFields, MandateRows DEF CompletionsInv, Held
  <2>6. /\ receipt \in Costs \X (Callers \cup {NoCaller})
        /\ receipt = <<service.reservation[i].actual, service.pending[i].payer>>
    BY <2>1, <2>5, MandateRows
  <2> HIDE DEF receipt
  <2>7. toldReceipts' \in [Ids -> SUBSET (Costs \X (Callers \cup {NoCaller}))]
    BY <1>1, <1>3, <2>6 DEF MandateTyped
  <2>8. \A j \in Ids : \A told \in toldReceipts'[j] :
          /\ Held(j) /\ service.pending[j].released
          /\ told = <<service.reservation[j].actual, service.pending[j].payer>>
    BY <1>1, <1>2, <1>3, <1>4, <2>6 DEF MandateTyped, CompletionsInv
  <2> QED
    BY <2>1, <2>2, <2>3, <2>4, <2>7, <2>8, ServiceKept
<1>5. CASE ~service.pending[i].released
  <2>1. /\ Releases(i, x) /\ service.pending[i].cost <= service.reservation[i].maximum
        /\ receipts' = receipts \cup ExtractNewReceipt(service')
    BY <1>2, <1>5, ReleaseWrites
  <2> HIDE DEF i
  <2> QED
    BY <1>2, <1>3, <1>5, <2>1, ReleaseStep DEF receipt
<1> QED
  BY <1>4, <1>5

LEMMA AlwaysMandate == MandateSpec => []MandateInv
<1>1. MandateInv /\ [MandateNext]_mandateVars => MandateInv'
  <2> SUFFICES ASSUME MandateInv, [MandateNext]_mandateVars PROVE MandateInv'
    OBVIOUS
  <2>1. CASE MandateNext
    BY <2>1, RequirePaymentKeeps, PrepareCompletionKeeps, ReleaseCompletionKeeps, ThrowKeeps
       DEF MandateNext
  <2>2. CASE UNCHANGED mandateVars
    <3>1. /\ service' = service /\ receipts' = receipts /\ caller' = caller
          /\ toldReceipts' = toldReceipts
      BY <2>2 DEF mandateVars
    <3> QED
      BY <3>1, ServiceKept DEF MandateInv, MandateTyped, CompletionsInv
  <2> QED
    BY <2>1, <2>2
<1> QED
  BY <1>1, MandateInitial, PTL DEF MandateSpec

(* The books of the mandate service always balance, for any children, budgets, *)
(* requests, prices and number of requests in flight.                          *)
THEOREM BooksAlwaysBalance == MandateSpec => []BooksBalance
<1> QED
  BY AlwaysMandate, BooksEnough, PTL

(* A step keeps a child frozen when, tripped, the child stays tripped and      *)
(* promises and spends no more.                                                *)
StaysFrozen(c) ==
  service.circuit[c].state = "TRIPPED" =>
    /\ service'.circuit[c].state = "TRIPPED"
    /\ service'.child[c].reserved + service'.child[c].settled
         <= service.child[c].reserved + service.child[c].settled

LEMMA ChildAmounts ==
  ASSUME MandateInv
  PROVE  \A c \in Children : /\ service.child[c] \in AccountRecord /\ Solvent(service.child[c])
                             /\ service.child[c].reserved \in Nat
                             /\ service.child[c].settled \in Nat
<1>1. \A c \in Children : service.child[c] \in AccountRecord /\ Solvent(service.child[c])
  BY ServiceFields DEF MandateInv, AccountsInv
<1> QED
  BY <1>1, SolventFacts

LEMMA KeptFreezes ==
  ASSUME MandateInv, service' = service
  PROVE  \A c \in Children : StaysFrozen(c)
BY ChildAmounts DEF StaysFrozen

(* Only an open child is held for. *)
LEMMA HoldFreezes ==
  ASSUME MandateInv, NEW i, NEW c \in Children, NEW maximum, NEW cost, Open(c),
         Holds(i, c, maximum, cost)
  PROVE  \A d \in Children : StaysFrozen(d)
<1>1. TAKE d \in Children
<1>2. CASE d = c
  BY <1>2 DEF Open, StaysFrozen
<1>3. CASE d # c
  <2>1. service'.child[d] = service.child[d] /\ service'.circuit[d] = service.circuit[d]
    BY <1>3, ServiceFields DEF Holds, MandateInv
  <2> QED
    BY <2>1, ChildAmounts DEF StaysFrozen
<1> QED
  BY <1>2, <1>3

(* What a release settles was reserved, and was no less. *)
LEMMA ReleaseFreezes ==
  ASSUME MandateInv, NEW x \in Callers, NEW i \in Ids, Held(i), ~service.pending[i].released,
         Releases(i, x), service.pending[i].cost <= service.reservation[i].maximum
  PROVE  \A d \in Children : StaysFrozen(d)
<1>1. MandateTyped /\ CompletionsInv /\ AccountsInv
  BY DEF MandateInv
<1> DEFINE reservation == service.reservation[i]
           held == service.pending[i]
           c == reservation.child
           m == reservation.maximum
           n == held.cost
           account == Reconciled(service.child[c], m, n)
           children == [service.child EXCEPT ![c] = account]
<1>2. /\ reservation \in ReservationRow /\ held \in Completion /\ reservation.status = "reserved"
  BY <1>1, ServiceFields, MandateRows DEF CompletionsInv, Held
<1>3. c \in Children /\ m \in Nat /\ n \in Nat /\ n <= m /\ held.child \in Children
  <2>1. c \in Children /\ m \in Amount /\ n \in Costs /\ held.child \in Children
    BY <1>2, MandateRows
  <2>2. n <= m
    OBVIOUS
  <2> HIDE DEF m, n
  <2>3. n \in Nat
    BY <2>1, MandateAssumption
  <2>4. m \in Nat
    BY <2>1, MaxAmountAssumption DEF Amount
  <2> QED
    BY <2>1, <2>2, <2>3, <2>4
<1>4. /\ service'.circuit = service.circuit
      /\ service'.child = IF held.circuit = "TRIPPED"
                          THEN [children EXCEPT ![held.child] = Reclaimed(children[held.child])]
                          ELSE children
  BY DEF Releases
<1>5. m <= service.child[c].reserved
  <2> DEFINE f == Outstanding(c)
  <2>1. service.child[c].reserved = Total(f, Ids)
    BY <1>1, <1>3 DEF AccountsInv
  <2>2. f[i] = m /\ m \in Amount
    BY <1>2, MandateRows DEF Outstanding
  <2> HIDE DEF f
  <2>3. m <= Total(f, Ids)
    BY <2>2, MandateAssumption, TotalAtLeast
  <2> QED
    BY <2>1, <2>3
<1>6. /\ account \in AccountRecord /\ Solvent(account)
      /\ account.reserved = service.child[c].reserved - m
      /\ account.settled = service.child[c].settled + n
  <2>1. service.child[c] \in AccountRecord /\ Solvent(service.child[c])
    BY <1>3, ChildAmounts
  <2> HIDE DEF m, n, c
  <2> QED
    BY <1>3, <1>5, <2>1, AccountMoves
<1> HIDE DEF account
<1>7. /\ children \in [Children -> AccountRecord] /\ children[c] = account
      /\ \A d \in Children : children[d] \in AccountRecord /\ Solvent(children[d])
      /\ \A d \in Children \ {c} : children[d] = service.child[d]
  BY <1>1, <1>3, <1>6, ChildAmounts, ServiceFields
<1> HIDE DEF children
<1>8. \A d \in Children : /\ service'.child[d].reserved = children[d].reserved
                          /\ service'.child[d].settled = children[d].settled
  <2>1. /\ Reclaimed(children[held.child]).reserved = children[held.child].reserved
        /\ Reclaimed(children[held.child]).settled = children[held.child].settled
    BY <1>3, <1>7, AccountMoves
  <2>2. CASE held.circuit = "TRIPPED"
    <3>1. service'.child = [children EXCEPT ![held.child] = Reclaimed(children[held.child])]
      BY <1>4, <2>2
    <3> QED
      BY <1>3, <1>7, <2>1, <3>1
  <2>3. CASE held.circuit # "TRIPPED"
    <3>1. service'.child = children
      BY <1>4, <2>3
    <3> QED
      BY <3>1
  <2> QED
    BY <2>2, <2>3
<1>9. ASSUME NEW d \in Children
      PROVE  children[d].reserved + children[d].settled
               <= service.child[d].reserved + service.child[d].settled
  <2>1. service.child[d].reserved \in Nat /\ service.child[d].settled \in Nat
    BY ChildAmounts
  <2>2. CASE d = c
    <3>1. /\ children[d].reserved = service.child[d].reserved - m
          /\ children[d].settled = service.child[d].settled + n
      BY <1>6, <1>7, <2>2
    <3> HIDE DEF m, n, c
    <3> QED
      BY <1>3, <2>1, <3>1
  <2>3. CASE d # c
    BY <1>7, <2>1, <2>3
  <2> QED
    BY <2>2, <2>3
<1> QED
  BY <1>4, <1>8, <1>9 DEF StaysFrozen

LEMMA MandateFreezes ==
  ASSUME MandateInv, [MandateNext]_mandateVars
  PROVE  \A c \in Children : StaysFrozen(c)
<1>1. ASSUME NEW x \in Callers, NEW cost \in Costs, PrepareCompletion(x, cost)
      PROVE  \A c \in Children : StaysFrozen(c)
  <2>1. CASE Held(caller[x].ask.id)
    BY <1>1, <2>1, KeptFreezes DEF PrepareCompletion, Commit
  <2>2. CASE ~Held(caller[x].ask.id)
    <3>1. caller[x].ask.child \in Children
      BY <1>1, CallersServed DEF PrepareCompletion, At
    <3>2. /\ Open(caller[x].ask.child)
          /\ Holds(caller[x].ask.id, caller[x].ask.child, caller[x].ask.maximum, cost)
      BY <1>1, <2>2, PreparedHolds
    <3> QED
      BY <3>1, <3>2, HoldFreezes
  <2> QED
    BY <2>1, <2>2
<1>2. ASSUME NEW x \in Callers, ReleasePaidCompletion(x)
      PROVE  \A c \in Children : StaysFrozen(c)
  <2> DEFINE i == caller[x].ask.id
  <2>1. i \in Ids /\ Held(i)
    BY <1>2, CallersServed DEF ReleasePaidCompletion, At, MandateInv, CompletionsInv
  <2>2. CASE service.pending[i].released
    BY <1>2, <2>2, KeptFreezes DEF ReleasePaidCompletion, Commit
  <2>3. CASE ~service.pending[i].released
    <3>1. Releases(i, x) /\ service.pending[i].cost <= service.reservation[i].maximum
      BY <1>2, <2>1, <2>3, ReleaseWrites
    <3> HIDE DEF i
    <3> QED
      BY <2>1, <2>3, <3>1, ReleaseFreezes
  <2> QED
    BY <2>2, <2>3
<1>3. CASE UNCHANGED service
  BY <1>3, KeptFreezes
<1> QED
  BY <1>1, <1>2, <1>3 DEF MandateNext, mandateVars, RequirePayment, Throw

(* A tripped branch promises and spends no more than it had promised when it   *)
(* tripped, whichever of its held completions are released afterwards and in   *)
(* whatever order.                                                             *)
THEOREM TrippedAlwaysSpendsNoMore == MandateSpec => TrippedSpendsNoMore
<1>1. MandateInv /\ [MandateNext]_mandateVars =>
        [\A c \in Children :
           service.circuit[c].state = "TRIPPED" =>
             /\ service'.circuit[c].state = "TRIPPED"
             /\ service'.child[c].reserved + service'.child[c].settled
                  <= service.child[c].reserved + service.child[c].settled]_mandateVars
  BY MandateFreezes DEF StaysFrozen
<1> QED
  BY <1>1, AlwaysMandate, PTL DEF MandateSpec, TrippedSpendsNoMore

-----------------------------------------------------------------------------
(* The evidence run.                                                          *)

Underway == {"configuring", "setup", "verifying", "calling", "asking", "asserting"}
Unasked == {"new", "claimed", "configuring", "setup", "verifying"}

RowRecord ==
  [status : {"none", "executing", "completed", "denied", "failed", "reconciliation_hold"},
   billed : Amount]
RunnerRecord ==
  [at : {"new", "claimed", "failing", "ended"} \cup Underway, attempts : Seq(AttemptRecord),
   interrupted : BOOLEAN]
ReportRecord == [attempts : Seq(AttemptRecord), covered : SUBSET Planned]

FixtureTyped ==
  /\ setting \in Settings
  /\ runClaim \in Runner \cup {NoRunner}
  /\ manifest \in RunManifest \cup {NoFile}
  /\ calls \in [Planned -> RowRecord]
  /\ evaluated \in SUBSET Planned
  /\ runner \in [Runner -> RunnerRecord]
  /\ replayer \in [Replayer -> [at : {"new", "writing", "ended"}, report : ReportRecord \cup {NoReport}]]
  /\ report \in ReportRecord \cup {NoReport}

(* Only who has the claim has begun. *)
ClaimInv ==
  /\ \A r \in Runner : runner[r].at = "new" <=> runClaim # r
  /\ runClaim = NoRunner =>
       manifest = NoFile /\ \A i \in Planned : calls[i].status = "none"

(* While a run is under way the file is what its process knows. *)
FileFits(r) ==
  /\ runner[r].at = "claimed" => manifest = NoFile
  /\ runner[r].at \in Underway => manifest = Snapshot(r, "running", runner[r].attempts)
  /\ runner[r].at \in Unasked => runner[r].attempts = <<>>

ManifestInv == \A r \in Runner : FileFits(r)

Kept == IF manifest = NoFile THEN 0 ELSE Len(manifest.attempts)

(* Rows are of calls the process and the file know, or of the one after them   *)
(* when the run ends over it.                                                 *)
RowsInv ==
  /\ \A i \in Planned : calls[i].status = "none" => calls[i].billed = 0
  /\ \A i \in evaluated : calls[i].status = "completed"
  /\ \A i \in Planned : calls[i].status # "none" => i <= Kept + 1
  /\ \A r \in Runner : runClaim = r =>
       \A i \in Planned : calls[i].status # "none" =>
         \/ i <= Len(runner[r].attempts)
         \/ i = NextCall(r) /\ runner[r].at \in {"failing", "ended"}

(* What the process knows of a completed call is so. *)
AttemptsInv ==
  \A r \in Runner :
    /\ runner[r].at = "asking" => NextCall(r) \in Planned
    /\ \A i \in DOMAIN runner[r].attempts :
         /\ i \in Planned
         /\ runner[r].attempts[i].outcome = "completed" =>
              calls[i] = Served("completed", runner[r].attempts[i].cost)

(* The ceiling holds with the call that is out. *)
CapInv ==
  \A r \in Runner, cap \in setting.cap :
    /\ Spent(runner[r].attempts) <= cap
    /\ \/ runner[r].at = "asking"
       \/ runClaim = r /\ NextCall(r) \in Planned /\ calls[NextCall(r)].status # "none"
       => Spent(runner[r].attempts) + Plan[NextCall(r)].maximum <= cap

Backed(made) ==
  /\ made \in ReportRecord
  /\ manifest # NoFile /\ manifest.phase = "complete" /\ manifest.attempts = made.attempts
  /\ Len(made.attempts) = Len(Plan)
  /\ \A i \in Planned :
       /\ made.attempts[i].outcome = "completed" =>
            calls[i] = Served("completed", made.attempts[i].cost)
       /\ made.attempts[i].outcome = "denied" => calls[i].status \in {"denied", "none"}
  /\ \A i \in made.covered : calls[i].status = "completed"

ReportsInv ==
  /\ report # NoReport => Backed(report)
  /\ \A p \in Replayer : replayer[p].at = "writing" => Backed(replayer[p].report)

FixtureInv ==
  /\ FixtureTyped /\ ClaimInv /\ ManifestInv /\ RowsInv /\ AttemptsInv /\ CapInv /\ ReportsInv

LEMMA PlanFacts ==
  /\ Len(Plan) \in Nat /\ Planned = 1..Len(Plan) /\ IsFiniteSet(Planned)
  /\ \A i \in Planned : Plan[i].maximum \in Amount
  /\ Amount \subseteq Nat /\ 0 \in Amount
<1> DEFINE Fixed == [maximum : Amount, expected : {"completed", "denied", "completed-or-denied"}]
<1>1. Plan \in Seq(Fixed)
  BY PlanAssumption
<1>2. \A x \in Fixed : x.maximum \in Amount
  OBVIOUS
<1> HIDE DEF Fixed
<1>3. /\ Len(Plan) \in Nat /\ Planned = 1..Len(Plan)
      /\ \A i \in Planned : Plan[i].maximum \in Amount
  BY <1>1, <1>2 DEF Planned
<1>4. IsFiniteSet(Planned)
  BY <1>3, FS_Interval
<1> QED
  BY <1>3, <1>4, MaxAmountAssumption DEF Amount

(* What a process knows has as many entries as its length. *)
LEMMA KnownFacts ==
  ASSUME FixtureTyped, NEW r \in Runner
  PROVE  /\ runner[r].attempts \in Seq(AttemptRecord)
         /\ Len(runner[r].attempts) \in Nat /\ NextCall(r) = Len(runner[r].attempts) + 1
         /\ DOMAIN runner[r].attempts = 1..Len(runner[r].attempts)
         /\ \A i \in DOMAIN runner[r].attempts :
              runner[r].attempts[i] \in AttemptRecord /\ runner[r].attempts[i].cost \in Nat
<1>1. runner[r].attempts \in Seq(AttemptRecord)
  BY DEF FixtureTyped, RunnerRecord
<1>2. /\ Len(runner[r].attempts) \in Nat
      /\ DOMAIN runner[r].attempts = 1..Len(runner[r].attempts)
      /\ \A i \in DOMAIN runner[r].attempts : runner[r].attempts[i] \in AttemptRecord
  BY <1>1
<1>3. \A a \in AttemptRecord : a.cost \in Nat
  BY PlanFacts DEF AttemptRecord
<1> QED
  BY <1>1, <1>2, <1>3 DEF NextCall

LEMMA FixtureStarts == FixtureInit => FixtureInv
<1> SUFFICES ASSUME FixtureInit PROVE FixtureInv
  OBVIOUS
<1>1. /\ \A r \in Runner : runner[r] = [at |-> "new", attempts |-> <<>>, interrupted |-> FALSE]
      /\ \A i \in Planned : calls[i] = Served("none", 0)
      /\ runClaim = NoRunner /\ NoRunner \notin Runner
      /\ manifest = NoFile /\ report = NoReport /\ evaluated = {}
      /\ \A p \in Replayer : replayer[p].at = "new"
  BY PlanAssumption DEF FixtureInit
<1>2. FixtureTyped
  <2>1. runner \in [Runner -> RunnerRecord]
    <3>1. <<>> \in Seq(AttemptRecord)
      OBVIOUS
    <3>2. [at |-> "new", attempts |-> <<>>, interrupted |-> FALSE] \in RunnerRecord
      BY <3>1 DEF RunnerRecord
    <3> QED
      BY <3>2 DEF FixtureInit
  <2>2. calls \in [Planned -> RowRecord]
    BY PlanFacts DEF FixtureInit, RowRecord, Served
  <2> QED
    BY <2>1, <2>2 DEF FixtureInit, FixtureTyped
<1>3. ClaimInv
  BY <1>1 DEF ClaimInv, Served
<1>4. ManifestInv
  BY <1>1 DEF ManifestInv, FileFits, Underway
<1>5. RowsInv
  BY <1>1 DEF RowsInv, Served
<1>6. AttemptsInv
  BY <1>1 DEF AttemptsInv
<1>7. CapInv
  <2>1. \A cap \in setting.cap : cap \in Nat
    BY PlanAssumption DEF FixtureInit
  <2>2. Spent(<<>>) = 0
    <3>1. Units([i \in {} |-> <<>>[i].cost], {}) = {}
      BY DEF Units
    <3>2. DOMAIN <<>> = {}
      OBVIOUS
    <3> QED
      BY <3>1, <3>2, FS_EmptySet DEF Spent, Total
  <2> QED
    BY <1>1, <2>1, <2>2 DEF CapInv, Served
<1>8. ReportsInv
  BY <1>1 DEF ReportsInv
<1> QED
  BY <1>2, <1>3, <1>4, <1>5, <1>6, <1>7, <1>8 DEF FixtureInv

LEMMA FilesEnough == FixtureInv => FilesAnswerForTheRun
BY DEF FixtureInv, RowsInv, Kept, ReportsInv, Backed, FilesAnswerForTheRun

LEMMA CapEnough == FixtureInv => CapCoversBills
<1> SUFFICES ASSUME FixtureInv, NEW cap \in setting.cap
             PROVE  Total([i \in Planned |-> calls[i].billed], Planned \ Unaccounted) <= cap
  BY DEF CapCoversBills
<1> USE PlanFacts
<1> DEFINE bills == [i \in Planned |-> calls[i].billed]
           counted == Planned \ Unaccounted
<1>0. FixtureTyped /\ ClaimInv /\ RowsInv /\ AttemptsInv /\ CapInv
  BY DEF FixtureInv
<1>1. \A i \in Planned : calls[i].billed \in Nat
  BY <1>0 DEF FixtureTyped, RowRecord
<1>2. cap \in Nat
  BY <1>0, PlanAssumption DEF FixtureTyped
<1>3. CASE runClaim = NoRunner
  <2>1. \A i \in Planned : bills[i] = 0
    BY <1>0, <1>3 DEF ClaimInv, RowsInv
  <2>2. Units(bills, counted) = {}
    BY <2>1 DEF Units
  <2> HIDE DEF bills, counted
  <2>3. Total(bills, counted) = 0
    BY <2>2, FS_EmptySet DEF Total
  <2> QED
    BY <2>3, <1>2 DEF bills, counted
<1>4. CASE runClaim \in Runner
  <2> DEFINE r == runClaim
             made == runner[r].attempts
             n == Len(made)
             f == [i \in Planned |-> IF i \in DOMAIN made THEN made[i].cost ELSE 0]
  <2>1. /\ n \in Nat /\ NextCall(r) = n + 1 /\ DOMAIN made = 1..n
        /\ \A i \in DOMAIN made : made[i].cost \in Nat
    BY <1>0, <1>4, KnownFacts
  <2>2. DOMAIN made \in SUBSET Planned
    BY <1>0, <1>4 DEF AttemptsInv
  <2>3. Total(f, Planned) = Spent(made)
    <3> DEFINE g == [i \in DOMAIN made |-> made[i].cost]
    <3>1. \A i \in Planned : f[i] = IF i \in DOMAIN made THEN g[i] ELSE 0
      OBVIOUS
    <3> HIDE DEF f, g
    <3>2. Total(g, DOMAIN made) = Total(f, Planned)
      BY <3>1, <2>2, TotalRestrict
    <3> QED
      BY <3>2 DEF g, Spent
  <2>4. \A i \in Planned : f[i] \in Nat
    BY <2>1
  <2>5. \A i \in counted : /\ bills[i] \in Nat /\ bills[i] <= Plan[i].maximum
                           /\ i # n + 1 \/ calls[i].status = "none" => bills[i] <= f[i]
    <3> SUFFICES ASSUME NEW i \in counted
                 PROVE  /\ bills[i] \in Nat /\ bills[i] <= Plan[i].maximum
                        /\ i # n + 1 \/ calls[i].status = "none" => bills[i] <= f[i]
      OBVIOUS
    <3>1. i \in Planned /\ bills[i] \in Nat /\ bills[i] = calls[i].billed
      BY <1>1
    <3>2. bills[i] <= Plan[i].maximum
      <4>1. ~(calls[i].billed > Plan[i].maximum)
        BY <3>1 DEF Unaccounted
      <4>2. Plan[i].maximum \in Nat /\ calls[i].billed \in Nat
        BY <3>1
      <4> HIDE DEF bills, counted
      <4> QED
        BY <4>1, <4>2, <3>1
    <3>3. i \in DOMAIN made => bills[i] = f[i]
      <4> HAVE i \in DOMAIN made
      <4>1. made \in Attempts
        BY <1>4 DEF Attempts
      <4>2. made[i].outcome = "completed"
        <5>1. \A attempts \in Attempts : ~(i <= Len(attempts) /\ attempts[i].outcome # "completed")
          BY <3>1 DEF Unaccounted
        <5>2. i <= n
          BY <2>1
        <5> QED
          BY <5>1, <5>2, <4>1
      <4>3. calls[i] = Served("completed", made[i].cost)
        BY <4>2, <1>0, <1>4 DEF AttemptsInv
      <4> QED
        BY <4>3, <3>1 DEF Served
    <3>4. calls[i].status = "none" => bills[i] = 0
      BY <1>0, <3>1 DEF RowsInv
    <3>5. calls[i].status # "none" => i \in DOMAIN made \/ i = n + 1
      BY <1>0, <1>4, <2>1, <3>1 DEF RowsInv
    <3> QED
      BY <3>1, <3>2, <3>3, <3>4, <3>5, <2>4
  <2>6. Spent(made) <= cap /\ Spent(made) \in Nat
    <3>1. Total(f, Planned) \in Nat
      BY UnitsFinite
    <3> QED
      BY <3>1, <2>3, <1>0, <1>4 DEF CapInv
  <2>7. counted \in SUBSET Planned
    OBVIOUS
  <2>8. CASE n + 1 \in Planned /\ calls[n + 1].status # "none"
    <3> DEFINE late == n + 1
               most == Plan[late].maximum
    <3>1. Spent(made) + most <= cap
      BY <1>0, <1>4, <2>1, <2>8 DEF CapInv
    <3>2. \A i \in counted : bills[i] \in Nat /\ (i # late => bills[i] <= f[i])
      BY <2>5
    <3>3. late \in counted => bills[late] <= most
      BY <2>5
    <3>4. late \in Planned /\ most \in Amount /\ most \in Nat
      BY <2>8
    <3>5. Planned \in SUBSET Planned /\ counted \in SUBSET (Planned \cup {late})
      BY <2>7
    <3> HIDE DEF bills, counted, f, made, n, r, late, most
    <3>6. Total(bills, counted) <= Total(f, Planned) + most
      BY <3>2, <3>3, <3>4, <3>5, <2>4, TotalAdmit
    <3>7. Total(bills, counted) \in Nat
      BY <2>7, FS_Subset, UnitsFinite
    <3>8. Total(f, Planned) = Spent(made) /\ most \in Nat
      BY <2>3, <3>4
    <3>9. Total(bills, counted) <= cap
      BY <3>1, <3>6, <3>7, <3>8, <2>6, <1>2
    <3> QED
      BY <3>9 DEF bills, counted
  <2>9. CASE ~(n + 1 \in Planned /\ calls[n + 1].status # "none")
    <3>1. \A i \in counted : bills[i] \in Nat /\ bills[i] <= f[i]
      BY <2>5, <2>9
    <3>2. Planned \in SUBSET Planned
      OBVIOUS
    <3> HIDE DEF bills, counted, f, made, n, r
    <3>3. Total(bills, counted) <= Total(f, Planned)
      BY <3>1, <3>2, <2>4, <2>7, TotalWithin
    <3>4. Total(bills, counted) \in Nat
      BY <2>7, FS_Subset, UnitsFinite
    <3>5. Total(bills, counted) <= cap
      BY <3>3, <3>4, <2>3, <2>6, <1>2
    <3> QED
      BY <3>5 DEF bills, counted
  <2> QED
    BY <2>8, <2>9
<1> QED
  BY <1>0, <1>3, <1>4 DEF FixtureTyped

-----------------------------------------------------------------------------
LEMMA Rest ==
  ASSUME FixtureInv
  PROVE  /\ FixtureTyped /\ ClaimInv /\ ManifestInv /\ RowsInv /\ AttemptsInv /\ CapInv /\ ReportsInv
         /\ runner \in [Runner -> RunnerRecord] /\ calls \in [Planned -> RowRecord]
         /\ \A r, q \in Runner : runner[r].at # "new" /\ q # r =>
              runClaim = r /\ runner[q].at = "new" /\ runner[q].attempts = <<>>
BY DEF FixtureInv, FixtureTyped, ClaimInv, ManifestInv, FileFits, Unasked

(* A process goes on. *)
LEMMA RunnerGoesOn ==
  ASSUME FixtureTyped, NEW r \in Runner, NEW place \in {"claimed", "failing", "ended"} \cup Underway,
         RunnerGoes(r, place)
  PROVE  /\ runner' \in [Runner -> RunnerRecord]
         /\ runner'[r].at = place /\ runner'[r].attempts = runner[r].attempts
         /\ \A q \in Runner \ {r} : runner'[q] = runner[q]
<1>1. runner \in [Runner -> RunnerRecord]
  BY DEF FixtureTyped
<1> DEFINE next == [runner[r] EXCEPT !.at = place]
<1>2. next \in RunnerRecord /\ next.at = place /\ next.attempts = runner[r].attempts
  BY <1>1 DEF RunnerRecord
<1>3. runner' = [runner EXCEPT ![r] = next]
  BY DEF RunnerGoes
<1> HIDE DEF next
<1> QED
  BY <1>1, <1>2, <1>3

LEMMA RunnerLearns ==
  ASSUME FixtureTyped, NEW r \in Runner, NEW place \in {"claimed", "failing", "ended"} \cup Underway,
         NEW attempts \in Seq(AttemptRecord),
         runner' = [runner EXCEPT ![r].at = place, ![r].attempts = attempts]
  PROVE  /\ runner' \in [Runner -> RunnerRecord]
         /\ runner'[r].at = place /\ runner'[r].attempts = attempts
         /\ \A q \in Runner \ {r} : runner'[q] = runner[q]
<1>1. runner \in [Runner -> RunnerRecord]
  BY DEF FixtureTyped
<1> DEFINE next == [runner[r] EXCEPT !.at = place, !.attempts = attempts]
<1>2. next \in RunnerRecord /\ next.at = place /\ next.attempts = attempts
  BY <1>1 DEF RunnerRecord
<1>3. runner' = [runner EXCEPT ![r] = next]
  BY <1>1
<1> HIDE DEF next
<1> QED
  BY <1>1, <1>2, <1>3

LEMMA BackedKept ==
  ASSUME NEW made, Backed(made), manifest' = manifest,
         \A i \in Planned : calls[i].status \in {"none", "completed", "denied"} => calls'[i] = calls[i]
  PROVE  Backed(made)'
<1>1. \A i \in Planned : calls[i].status = "completed" => calls'[i].status = "completed"
  OBVIOUS
<1>2. \A i \in made.covered : calls'[i].status = "completed"
  BY <1>1 DEF Backed, ReportRecord
<1>3. \A i \in Planned :
       /\ made.attempts[i].outcome = "completed" =>
            calls'[i] = Served("completed", made.attempts[i].cost)
       /\ made.attempts[i].outcome = "denied" => calls'[i].status \in {"denied", "none"}
  BY DEF Backed, Served
<1> QED
  BY <1>2, <1>3 DEF Backed

LEMMA ReportsKept ==
  ASSUME FixtureInv, report' = report, replayer' = replayer,
         \/ manifest' = manifest
         \/ ~Terminal(manifest),
         \/ ~Terminal(manifest)
         \/ \A i \in Planned : calls[i].status \in {"none", "completed", "denied"} => calls'[i] = calls[i]
  PROVE  ReportsInv'
<1>1. \A made : Backed(made) => Terminal(manifest)
  BY DEF Backed, Terminal
<1>2. \A made : Backed(made) => Backed(made)'
  BY <1>1, BackedKept
<1>3. report # NoReport => Backed(report)
  BY DEF FixtureInv, ReportsInv
<1>4. \A p \in Replayer : replayer[p].at = "writing" => Backed(replayer[p].report)
  BY DEF FixtureInv, ReportsInv
<1>5. report' # NoReport => Backed(report)'
  BY <1>2, <1>3 DEF Backed
<1>6. ASSUME NEW p \in Replayer, replayer'[p].at = "writing"
      PROVE  Backed(replayer[p].report)'
  <2>1. Backed(replayer[p].report)
    BY <1>4, <1>6
  <2>2. PICK made : made = replayer[p].report
    OBVIOUS
  <2>3. Backed(made)'
    BY <1>2, <2>1, <2>2
  <2>4. made = replayer'[p].report
    BY <2>2
  <2> QED
    BY <2>3, <2>4 DEF Backed
<1> QED
  BY <1>5, <1>6 DEF ReportsInv

(* The run goes on without a call, and may replace its file. *)
LEMMA RunMoves ==
  ASSUME FixtureInv, NEW r \in Runner, runClaim = r,
         UNCHANGED <<setting, runClaim, calls, evaluated, replayer, report>>,
         runner' \in [Runner -> RunnerRecord], \A q \in Runner \ {r} : runner'[q] = runner[q],
         runner'[r].attempts = runner[r].attempts, runner'[r].at # "new",
         runner[r].at \in {"failing", "ended"} => runner'[r].at \in {"failing", "ended"},
         runner'[r].at = "asking" =>
           \/ runner[r].at = "asking"
           \/ NextCall(r) \in Planned /\ WithinCap(runner[r].attempts, NextCall(r)),
         \/ manifest' = manifest
         \/ /\ ~Terminal(manifest)
            /\ \E stage \in {"running", "complete", "incomplete"} :
                 manifest' = Snapshot(r, stage, runner[r].attempts),
         FileFits(r)'
  PROVE  FixtureInv'
<1> USE Rest
<1>1. /\ runner[r].attempts \in Seq(AttemptRecord) /\ Len(runner[r].attempts) \in Nat
      /\ NextCall(r) = Len(runner[r].attempts) + 1
      /\ NextCall(r)' = NextCall(r)
  BY KnownFacts DEF NextCall
<1>2. \A q \in Runner \ {r} : /\ runner[q].at = "new" /\ runner[q].attempts = <<>>
                              /\ runner'[q] = runner[q] /\ runClaim # q
  BY DEF ClaimInv
<1>3. \/ manifest' = manifest /\ Kept' = Kept
      \/ manifest' \in RunManifest /\ manifest' # NoFile /\ Kept' = Len(runner[r].attempts)
  <2>1. CASE manifest' = manifest
    BY <2>1 DEF Kept
  <2>2. ASSUME NEW stage \in {"running", "complete", "incomplete"},
               manifest' = Snapshot(r, stage, runner[r].attempts)
        PROVE  manifest' \in RunManifest /\ manifest' # NoFile /\ manifest'.attempts = runner[r].attempts
    <3> DEFINE made == runner[r].attempts
    <3>1. made \in Seq(AttemptRecord)
      BY <1>1
    <3>2. manifest' = Snapshot(r, stage, made)
      BY <2>2
    <3> HIDE DEF made
    <3>3. manifest' \in RunManifest /\ manifest'.attempts = made
      BY <3>1, <3>2 DEF Snapshot, RunManifest
    <3>4. manifest' # NoFile
      BY <3>3, PlanAssumption
    <3> QED
      BY <3>3, <3>4 DEF made
  <2> QED
    BY <2>1, <2>2 DEF Kept
<1>4. FixtureTyped'
  BY <1>3 DEF FixtureTyped
<1>5. ClaimInv'
  BY <1>2, PlanAssumption DEF ClaimInv
<1>6. ManifestInv'
  <2>1. \A q \in Runner \ {r} : FileFits(q)'
    BY <1>2 DEF FileFits, Underway
  <2> QED
    BY <2>1 DEF ManifestInv
<1>7. RowsInv'
  <2>1. \A i \in Planned : calls[i].status # "none" =>
          \/ i <= Len(runner[r].attempts)
          \/ i = NextCall(r) /\ runner[r].at \in {"failing", "ended"}
    BY DEF RowsInv
  <2>2. \A i \in Planned : calls[i].status # "none" => i <= Kept' + 1
    <3>1. \A i \in Planned : i \in Nat
      BY PlanFacts
    <3> QED
      BY <1>1, <1>3, <2>1, <3>1 DEF RowsInv
  <2>3. \A q \in Runner : runClaim' = q =>
       \A i \in Planned : calls'[i].status # "none" =>
         \/ i <= Len(runner'[q].attempts)
         \/ i = NextCall(q)' /\ runner'[q].at \in {"failing", "ended"}
    BY <1>1, <2>1
  <2> QED
    BY <2>2, <2>3 DEF RowsInv
<1>8. AttemptsInv'
  <2>1. runner'[r].at = "asking" => NextCall(r) \in Planned
    BY DEF AttemptsInv
  <2> QED
    BY <1>1, <1>2, <2>1 DEF AttemptsInv
<1>9. CapInv'
  <2> SUFFICES ASSUME NEW q \in Runner, NEW cap \in setting.cap
               PROVE  /\ Spent(runner'[q].attempts) <= cap
                      /\ \/ runner'[q].at = "asking"
                         \/ runClaim = q /\ NextCall(q)' \in Planned /\ calls[NextCall(q)'].status # "none"
                         => Spent(runner'[q].attempts) + Plan[NextCall(q)'].maximum <= cap
    BY DEF CapInv
  <2>1. Spent(runner[q].attempts) <= cap
    BY DEF CapInv
  <2>2. CASE q # r
    BY <1>2, <2>1, <2>2
  <2>3. CASE q = r
    BY <1>1, <2>1, <2>3 DEF CapInv, WithinCap
  <2> QED
    BY <2>2, <2>3
<1>10. ReportsInv'
  BY ReportsKept
<1> QED
  BY <1>4, <1>5, <1>6, <1>7, <1>8, <1>9, <1>10 DEF FixtureInv

(* An answer that is lost: the row may be under way.                          *)
LEMMA CallDropped ==
  ASSUME FixtureInv, NEW r \in Runner, runner[r].at = "asking",
         NEW row \in RowRecord, row.status = "none" => row.billed = 0,
         calls' = [calls EXCEPT ![NextCall(r)] = row],
         UNCHANGED <<setting, runClaim, manifest, evaluated, replayer, report>>,
         NEW place \in {"failing", "ended"}, RunnerGoes(r, place)
  PROVE  FixtureInv'
<1> USE Rest
<1>1. /\ runner[r].attempts \in Seq(AttemptRecord) /\ Len(runner[r].attempts) \in Nat
      /\ NextCall(r) = Len(runner[r].attempts) + 1
      /\ DOMAIN runner[r].attempts = 1..Len(runner[r].attempts)
  BY KnownFacts
<1>2. /\ runner' \in [Runner -> RunnerRecord]
      /\ runner'[r].at = place /\ runner'[r].attempts = runner[r].attempts
      /\ \A q \in Runner \ {r} : runner'[q] = runner[q]
  BY RunnerGoesOn
<1>3. NextCall(r)' = NextCall(r) /\ NextCall(r) \in Planned /\ runClaim = r
  BY <1>2 DEF NextCall, AttemptsInv, ClaimInv
<1>4. \A q \in Runner \ {r} : /\ runner[q].at = "new" /\ runner[q].attempts = <<>>
                              /\ runner'[q] = runner[q] /\ runClaim # q
  BY <1>2 DEF ClaimInv
<1>5. /\ calls' \in [Planned -> RowRecord] /\ calls'[NextCall(r)] = row
      /\ \A i \in Planned \ {NextCall(r)} : calls'[i] = calls[i]
  BY <1>3
<1>6. /\ manifest # NoFile /\ manifest.phase = "running" /\ Kept = Len(runner[r].attempts)
      /\ ~Terminal(manifest) /\ calls[NextCall(r)].status = "none"
  <2>1. manifest = Snapshot(r, "running", runner[r].attempts)
    BY DEF ManifestInv, FileFits, Underway
  <2>2. calls[NextCall(r)].status = "none"
    BY <1>1, <1>3 DEF RowsInv
  <2>3. /\ manifest # NoFile /\ manifest.phase = "running"
        /\ manifest.attempts = runner[r].attempts
    <3>1. manifest \in RunManifest
      BY <1>1, <2>1 DEF Snapshot, RunManifest
    <3>2. manifest # NoFile
      BY <3>1, PlanAssumption
    <3> QED
      BY <2>1, <3>2 DEF Snapshot
  <2> QED
    BY <2>2, <2>3 DEF Kept, Terminal
<1>7. FixtureTyped'
  BY <1>2, <1>5 DEF FixtureTyped
<1>8. ClaimInv'
  <2>1. runClaim # NoRunner
    BY <1>3, PlanAssumption
  <2> QED
    BY <1>2, <1>3, <1>4, <2>1 DEF ClaimInv
<1>9. ManifestInv'
  <2>1. \A q \in Runner \ {r} : FileFits(q)'
    BY <1>4 DEF FileFits, Underway
  <2>2. FileFits(r)'
    BY <1>2 DEF FileFits, Underway, Unasked
  <2> QED
    BY <2>1, <2>2 DEF ManifestInv
<1>10. RowsInv'
  <2>1. \A i \in Planned : calls'[i].status = "none" => calls'[i].billed = 0
    BY <1>5 DEF RowsInv
  <2>2. \A i \in evaluated : calls'[i].status = "completed"
    <3>1. evaluated \subseteq Planned
      BY DEF FixtureTyped
    <3> QED
      BY <1>5, <1>6, <3>1 DEF RowsInv
  <2>3. \A i \in Planned : calls'[i].status # "none" => i <= Kept + 1
    BY <1>1, <1>5, <1>6 DEF RowsInv
  <2>4. Kept' = Kept
    BY DEF Kept
  <2>5. \A i \in Planned : calls'[i].status # "none" =>
          i <= Len(runner'[r].attempts) \/ i = NextCall(r)'
    BY <1>2, <1>3, <1>5 DEF RowsInv
  <2> QED
    BY <1>2, <1>3, <2>1, <2>2, <2>3, <2>4, <2>5 DEF RowsInv
<1>11. AttemptsInv'
  <2>1. NextCall(r) \notin DOMAIN runner[r].attempts
    BY <1>1
  <2> QED
    BY <1>2, <1>4, <1>5, <2>1 DEF AttemptsInv
<1>12. CapInv'
  <2> SUFFICES ASSUME NEW q \in Runner, NEW cap \in setting.cap
               PROVE  /\ Spent(runner'[q].attempts) <= cap
                      /\ \/ runner'[q].at = "asking"
                         \/ /\ runClaim = q /\ NextCall(q)' \in Planned
                            /\ calls'[NextCall(q)'].status # "none"
                         => Spent(runner'[q].attempts) + Plan[NextCall(q)'].maximum <= cap
    BY DEF CapInv
  <2>1. Spent(runner[q].attempts) <= cap
    BY DEF CapInv
  <2>2. CASE q # r
    BY <1>4, <2>1, <2>2
  <2>3. CASE q = r
    BY <1>2, <1>3, <2>1, <2>3 DEF CapInv
  <2> QED
    BY <2>2, <2>3
<1>13. ReportsInv'
  BY <1>6, ReportsKept
<1> QED
  BY <1>7, <1>8, <1>9, <1>10, <1>11, <1>12, <1>13 DEF FixtureInv

(* What is known after an answer: the ceiling covers it. *)
LEMMA SpentNext ==
  ASSUME NEW made \in Seq(AttemptRecord), NEW answer \in AttemptRecord, NEW v \in Amount,
         answer.cost <= v
  PROVE  /\ Spent(Append(made, answer)) <= Spent(made) + v
         /\ Spent(Append(made, answer)) \in Nat /\ Spent(made) \in Nat
<1> USE PlanFacts
<1> DEFINE n == Len(made)
           more == Append(made, answer)
           f == [i \in 1..n |-> made[i].cost]
           g == [i \in 1..(n + 1) |-> more[i].cost]
<1>1. /\ n \in Nat /\ DOMAIN made = 1..n /\ DOMAIN more = 1..(n + 1)
      /\ \A i \in 1..n : made[i] \in AttemptRecord /\ more[i] = made[i]
      /\ more[n + 1] = answer
  OBVIOUS
<1>2. \A a \in AttemptRecord : a.cost \in Nat
  BY DEF AttemptRecord
<1>3. Spent(made) = Total(f, 1..n) /\ Spent(more) = Total(g, 1..(n + 1))
  BY <1>1 DEF Spent
<1>4. /\ \A i \in 1..n : f[i] \in Nat
      /\ \A i \in 1..(n + 1) : g[i] \in Nat /\ (i # n + 1 => g[i] <= f[i])
      /\ g[n + 1] <= v
  BY <1>1, <1>2
<1>5. /\ IsFiniteSet(1..n) /\ IsFiniteSet(1..(n + 1)) /\ 1..n \in SUBSET (1..(n + 1))
      /\ n + 1 \in 1..(n + 1) /\ 1..(n + 1) \in SUBSET (1..n \cup {n + 1})
  <2> HIDE DEF n, more, f, g
  <2>1. n \in Nat /\ n \in Int /\ n + 1 \in Int /\ 1 \in Int
    BY <1>1
  <2>2. IsFiniteSet(1..n) /\ IsFiniteSet(1..(n + 1))
    BY <2>1, FS_Interval
  <2> QED
    BY <2>1, <2>2
<1> HIDE DEF n, more, f, g
<1>6. Total(g, 1..(n + 1)) <= Total(f, 1..n) + v
  BY <1>4, <1>5, TotalAdmit
<1>7. Total(g, 1..(n + 1)) \in Nat /\ Total(f, 1..n) \in Nat
  BY <1>5, UnitsFinite
<1> QED
  BY <1>3, <1>6, <1>7 DEF more

(* An answer is known, and in the file unless writing it failed. *)
LEMMA CallRecorded ==
  ASSUME FixtureInv, NEW r \in Runner, runner[r].at = "asking",
         NEW row \in RowRecord, row.status = "none" => row.billed = 0,
         calls' = [calls EXCEPT ![NextCall(r)] = row],
         UNCHANGED <<setting, runClaim, evaluated, replayer, report>>,
         NEW answer \in AttemptRecord, answer.cost <= Plan[NextCall(r)].maximum,
         answer.outcome = "completed" => row = Served("completed", answer.cost),
         Checkpoint(r, Append(runner[r].attempts, answer))
  PROVE  FixtureInv'
<1> USE Rest
<1> DEFINE made == runner[r].attempts
           more == Append(made, answer)
           n == Len(made)
<1>1. /\ made \in Seq(AttemptRecord) /\ n \in Nat
      /\ NextCall(r) = n + 1
      /\ DOMAIN made = 1..n
  BY KnownFacts
<1>2. /\ more \in Seq(AttemptRecord) /\ Len(more) = n + 1 /\ DOMAIN more = 1..(n + 1)
      /\ \A i \in 1..n : more[i] = made[i]
      /\ more[n + 1] = answer
  BY <1>1
<1>3. PICK place \in {"asserting", "failing"} :
        /\ runner' = [runner EXCEPT ![r].at = place, ![r].attempts = more]
        /\ \/ manifest' = Snapshot(r, "running", more)
           \/ manifest' = manifest /\ place = "failing"
  BY DEF Checkpoint, PersistManifest
<1>4. /\ runner' \in [Runner -> RunnerRecord]
      /\ runner'[r].at = place /\ runner'[r].attempts = more
      /\ \A q \in Runner \ {r} : runner'[q] = runner[q]
  <2>1. place \in {"claimed", "failing", "ended"} \cup Underway
    BY DEF Underway
  <2> HIDE DEF more
  <2> QED
    BY <1>2, <1>3, <2>1, RunnerLearns
<1>5. NextCall(r) \in Planned /\ n + 1 \in Planned /\ runClaim = r
  BY <1>1 DEF AttemptsInv, ClaimInv
<1>6. \A q \in Runner \ {r} : /\ runner[q].at = "new" /\ runner[q].attempts = <<>>
                              /\ runner'[q] = runner[q] /\ runClaim # q
  BY <1>4 DEF ClaimInv
<1>7. /\ calls' \in [Planned -> RowRecord] /\ calls'[n + 1] = row
      /\ \A i \in Planned \ {n + 1} : calls'[i] = calls[i]
  BY <1>1, <1>5
<1>8. /\ manifest = Snapshot(r, "running", made) /\ Kept = n
      /\ ~Terminal(manifest) /\ calls[n + 1].status = "none"
  <2>1. manifest = Snapshot(r, "running", made)
    BY DEF ManifestInv, FileFits, Underway
  <2>2. calls[n + 1].status = "none"
    BY <1>1, <1>5 DEF RowsInv
  <2>3. manifest \in RunManifest
    BY <1>1, <2>1 DEF Snapshot, RunManifest
  <2>4. manifest # NoFile /\ manifest.phase = "running" /\ manifest.attempts = made
    BY <2>1, <2>3, PlanAssumption DEF Snapshot
  <2> QED
    BY <2>1, <2>2, <2>4 DEF Kept, Terminal
<1>9. manifest' \in RunManifest \cup {NoFile} /\ Kept' \in {n, n + 1}
  <2>1. CASE manifest' = manifest
    BY <1>8, <2>1 DEF Kept, FixtureTyped
  <2>2. CASE manifest' = Snapshot(r, "running", more)
    <3>1. manifest' \in RunManifest
      BY <1>2, <2>2 DEF Snapshot, RunManifest
    <3>2. manifest' # NoFile /\ manifest'.attempts = more
      BY <2>2, <3>1, PlanAssumption DEF Snapshot
    <3> QED
      BY <1>2, <3>1, <3>2 DEF Kept
  <2> QED
    BY <1>3, <2>1, <2>2
<1>10. \A i \in Planned : i \in Nat
  BY PlanFacts
<1>11. FixtureTyped'
  BY <1>4, <1>7, <1>9 DEF FixtureTyped
<1>12. ClaimInv'
  <2>1. runClaim # NoRunner
    BY <1>5, PlanAssumption
  <2> QED
    BY <1>4, <1>5, <1>6, <2>1 DEF ClaimInv
<1>13. ManifestInv'
  <2>1. \A q \in Runner \ {r} : FileFits(q)'
    BY <1>6 DEF FileFits, Underway
  <2>2. FileFits(r)'
    BY <1>3, <1>4 DEF FileFits, Underway, Unasked
  <2> QED
    BY <2>1, <2>2 DEF ManifestInv
<1>14. RowsInv'
  <2>1. \A i \in Planned : calls'[i].status = "none" => calls'[i].billed = 0
    BY <1>7 DEF RowsInv
  <2>2. \A i \in evaluated : calls'[i].status = "completed"
    <3>1. evaluated \subseteq Planned
      BY DEF FixtureTyped
    <3> QED
      BY <1>7, <1>8, <3>1 DEF RowsInv
  <2>3. \A i \in Planned : calls'[i].status # "none" => i <= n + 1
    BY <1>1, <1>7, <1>8, <1>10 DEF RowsInv
  <2>4. \A i \in Planned : calls'[i].status # "none" => i <= Kept' + 1
    BY <1>1, <1>9, <1>10, <2>3
  <2>5. \A q \in Runner : runClaim' = q =>
       \A i \in Planned : calls'[i].status # "none" =>
         \/ i <= Len(runner'[q].attempts)
         \/ i = NextCall(q)' /\ runner'[q].at \in {"failing", "ended"}
    BY <1>2, <1>4, <1>5, <2>3
  <2> QED
    BY <2>1, <2>2, <2>4, <2>5 DEF RowsInv
<1>15. AttemptsInv'
  <2>1. \A i \in 1..(n + 1) :
          /\ i \in Planned
          /\ more[i].outcome = "completed" => calls'[i] = Served("completed", more[i].cost)
    <3> SUFFICES ASSUME NEW i \in 1..(n + 1)
                 PROVE  /\ i \in Planned
                        /\ more[i].outcome = "completed" => calls'[i] = Served("completed", more[i].cost)
      OBVIOUS
    <3>1. CASE i = n + 1
      BY <1>2, <1>5, <1>7, <3>1
    <3>2. CASE i # n + 1
      <4>1. i \in 1..n /\ more[i] = made[i]
        BY <1>1, <1>2, <3>2
      <4>2. i \in Planned /\ (made[i].outcome = "completed" => calls[i] = Served("completed", made[i].cost))
        BY <1>1, <4>1 DEF AttemptsInv
      <4> QED
        BY <1>7, <3>2, <4>1, <4>2
    <3> QED
      BY <3>1, <3>2
  <2>2. runner'[r].at # "asking" /\ DOMAIN runner'[r].attempts = 1..(n + 1)
    BY <1>2, <1>3, <1>4
  <2>3. \A q \in Runner \ {r} : runner'[q].at # "asking" /\ DOMAIN runner'[q].attempts = {}
    BY <1>6
  <2> HIDE DEF more
  <2> QED
    BY <1>4, <2>1, <2>2, <2>3 DEF AttemptsInv
<1>16. CapInv'
  <2> SUFFICES ASSUME NEW q \in Runner, NEW cap \in setting.cap
               PROVE  /\ Spent(runner'[q].attempts) <= cap
                      /\ \/ runner'[q].at = "asking"
                         \/ /\ runClaim = q /\ NextCall(q)' \in Planned
                            /\ calls'[NextCall(q)'].status # "none"
                         => Spent(runner'[q].attempts) + Plan[NextCall(q)'].maximum <= cap
    BY DEF CapInv
  <2>1. Spent(runner[q].attempts) <= cap
    BY DEF CapInv
  <2>2. CASE q # r
    BY <1>6, <2>1, <2>2
  <2>3. CASE q = r
    <3>1. Spent(made) + Plan[n + 1].maximum <= cap
      BY <1>1 DEF CapInv
    <3>2. Plan[n + 1].maximum \in Amount /\ Plan[n + 1].maximum \in Nat /\ answer.cost <= Plan[n + 1].maximum
      BY <1>1, <1>5, PlanFacts
    <3>3. cap \in Nat
      BY PlanAssumption DEF FixtureTyped
    <3>4. Spent(more) <= Spent(made) + Plan[n + 1].maximum /\ Spent(more) \in Nat /\ Spent(made) \in Nat
      BY <1>1, <3>2, SpentNext
    <3>5. Spent(runner'[r].attempts) <= cap
      BY <1>4, <3>1, <3>2, <3>3, <3>4
    <3>6. NextCall(r)' = n + 2
      BY <1>1, <1>2, <1>4 DEF NextCall
    <3>7. n + 2 \in Planned => calls'[n + 2].status = "none"
      <4>1. n + 2 \in Planned => calls[n + 2].status = "none"
        BY <1>1, <1>5 DEF RowsInv
      <4> QED
        BY <1>1, <1>7, <4>1
    <3>8. runner'[r].at # "asking"
      BY <1>3, <1>4
    <3> QED
      BY <2>3, <3>5, <3>6, <3>7, <3>8
  <2> QED
    BY <2>2, <2>3
<1>17. ReportsInv'
  BY <1>8, ReportsKept
<1> QED
  BY <1>11, <1>12, <1>13, <1>14, <1>15, <1>16, <1>17 DEF FixtureInv

(* The service moves a row of a call that it has not decided.                 *)
LEMMA RowMoves ==
  ASSUME FixtureInv, NEW i \in Planned, NEW row \in RowRecord, row.status # "none",
         calls[i].status \in {"executing", "reconciliation_hold"},
         calls' = [calls EXCEPT ![i] = row],
         UNCHANGED <<setting, runClaim, manifest, evaluated, runner, replayer, report>>
  PROVE  FixtureInv'
<1> USE Rest
<1>1. /\ calls' \in [Planned -> RowRecord]
      /\ \A j \in Planned : (calls'[j].status # "none" <=> calls[j].status # "none")
      /\ \A j \in Planned : calls[j].status \in {"none", "completed", "denied"} => calls'[j] = calls[j]
  OBVIOUS
<1>2. \A r \in Runner : NextCall(r)' = NextCall(r)
  BY DEF NextCall
<1>3. FixtureTyped'
  BY <1>1 DEF FixtureTyped
<1>4. ClaimInv'
  BY <1>1 DEF ClaimInv
<1>5. ManifestInv'
  BY DEF ManifestInv, FileFits
<1>6. RowsInv'
  <2>1. Kept' = Kept
    BY DEF Kept
  <2>2. evaluated \subseteq Planned
    BY DEF FixtureTyped
  <2>3. \A j \in Planned : calls'[j].status = "none" => calls'[j].billed = 0
    BY <1>1 DEF RowsInv
  <2>4. \A j \in evaluated : calls'[j].status = "completed"
    BY <1>1, <2>2 DEF RowsInv
  <2> QED
    BY <1>1, <1>2, <2>1, <2>3, <2>4 DEF RowsInv
<1>7. AttemptsInv'
  <2>1. \A r \in Runner : \A j \in DOMAIN runner[r].attempts :
          /\ j \in Planned
          /\ runner[r].attempts[j].outcome = "completed" =>
               calls'[j] = Served("completed", runner[r].attempts[j].cost)
    BY <1>1 DEF AttemptsInv, Served
  <2> QED
    BY <1>2, <2>1 DEF AttemptsInv
<1>8. CapInv'
  BY <1>1, <1>2 DEF CapInv
<1>9. ReportsInv'
  BY <1>1, ReportsKept
<1> QED
  BY <1>3, <1>4, <1>5, <1>6, <1>7, <1>8, <1>9 DEF FixtureInv

LEMMA EndRowKeeps == ASSUME FixtureInv, NEW i \in Planned, EndRow(i) PROVE FixtureInv'
<1>1. PICK row \in EndsOfRow(i) : calls' = [calls EXCEPT ![i] = row]
  BY DEF EndRow
<1>2. row \in RowRecord /\ row.status # "none"
  BY PlanAssumption, PlanFacts DEF EndsOfRow, RowRecord, Served
<1> QED
  BY <1>1, <1>2, RowMoves DEF EndRow

LEMMA ResolveRowKeeps == ASSUME FixtureInv, NEW i \in Planned, ResolveRow(i) PROVE FixtureInv'
<1>1. PICK status \in {"completed", "failed"} : calls' = [calls EXCEPT ![i].status = status]
  BY DEF ResolveRow
<1> DEFINE row == [calls[i] EXCEPT !.status = status]
<1>2. row \in RowRecord /\ row.status # "none"
  BY Rest DEF RowRecord
<1>3. calls' = [calls EXCEPT ![i] = row]
  BY <1>1
<1> HIDE DEF row
<1> QED
  BY <1>2, <1>3, RowMoves DEF ResolveRow

LEMMA EvaluateShadowKeeps == ASSUME FixtureInv, NEW i \in Planned, EvaluateShadow(i) PROVE FixtureInv'
<1> USE Rest
<1>1. UNCHANGED <<setting, runClaim, manifest, calls, runner, replayer, report>>
  BY DEF EvaluateShadow
<1>2. FixtureTyped'
  BY <1>1 DEF EvaluateShadow, FixtureTyped
<1>3. RowsInv'
  <2>1. Kept' = Kept /\ \A r \in Runner : NextCall(r)' = NextCall(r)
    BY <1>1 DEF Kept, NextCall
  <2>2. \A j \in evaluated' : calls[j].status = "completed"
    BY DEF EvaluateShadow, RowsInv
  <2> QED
    BY <1>1, <2>1, <2>2 DEF RowsInv
<1>4. ReportsInv'
  BY <1>1, ReportsKept
<1>5. ClaimInv' /\ ManifestInv' /\ AttemptsInv' /\ CapInv'
  BY <1>1 DEF ClaimInv, ManifestInv, FileFits, AttemptsInv, CapInv, NextCall
<1> QED
  BY <1>2, <1>3, <1>4, <1>5 DEF FixtureInv

(* Replays only read the run. *)
LEMMA ReplaysKeep ==
  ASSUME FixtureInv, UNCHANGED <<setting, runClaim, manifest, calls, evaluated, runner>>,
         replayer' \in [Replayer -> [at : {"new", "writing", "ended"}, report : ReportRecord \cup {NoReport}]],
         report' \in {report} \cup {replayer[p].report : p \in {q \in Replayer : replayer[q].at = "writing"}},
         \A p \in Replayer : replayer'[p].at = "writing" =>
           replayer'[p] = replayer[p] \/ Backed(replayer'[p].report)
  PROVE  FixtureInv'
<1> USE Rest
<1>1. report' \in ReportRecord \cup {NoReport}
  BY DEF FixtureTyped
<1>2. FixtureTyped'
  BY <1>1 DEF FixtureTyped
<1>3. ClaimInv' /\ ManifestInv' /\ AttemptsInv' /\ CapInv' /\ RowsInv'
  BY DEF ClaimInv, ManifestInv, FileFits, AttemptsInv, CapInv, NextCall, RowsInv, Kept
<1>4. \A made : Backed(made) => Backed(made)'
  BY DEF Backed
<1>5. report' # NoReport => Backed(report')
  BY DEF ReportsInv
<1>6. report' # NoReport => Backed(report)'
  BY <1>5 DEF Backed
<1>7. ASSUME NEW p \in Replayer, replayer'[p].at = "writing"
      PROVE  Backed(replayer[p].report)'
  <2>1. PICK made : made = replayer'[p].report
    OBVIOUS
  <2>2. Backed(made)
    BY <1>7, <2>1 DEF ReportsInv
  <2> QED
    BY <2>1, <2>2 DEF Backed
<1>8. ReportsInv'
  BY <1>6, <1>7 DEF ReportsInv
<1> QED
  BY <1>2, <1>3, <1>8 DEF FixtureInv

LEMMA ReadKeeps == ASSUME FixtureInv, NEW p \in Replayer, ReadForReplay(p) PROVE FixtureInv'
<1> USE Rest
<1> DEFINE made == [attempts |-> manifest.attempts, covered |-> evaluated]
           valid == /\ ValidOutcomes(manifest.attempts)
                    /\ setting.heldOut => \A cap \in setting.cap : Spent(manifest.attempts) <= cap
                    /\ SetupAsIntended
                    /\ \A i \in Planned : AgreesWithRow(manifest.attempts[i], calls[i])
           next == IF valid THEN [at |-> "writing", report |-> made]
                   ELSE [replayer[p] EXCEPT !.at = "ended"]
<1>1. manifest # NoFile /\ manifest.phase = "complete" /\ manifest \in RunManifest
  BY DEF ReadForReplay, Replayable, FixtureTyped
<1>2. replayer' = [replayer EXCEPT ![p] = next]
  BY DEF ReadForReplay
<1>3. made \in ReportRecord
  BY <1>1 DEF RunManifest, ReportRecord, FixtureTyped
<1>4. /\ next \in [at : {"new", "writing", "ended"}, report : ReportRecord \cup {NoReport}]
      /\ next.at = "writing" => valid /\ next.report = made
  BY <1>3 DEF FixtureTyped
<1>5. valid => Backed(made)
  <2> HAVE valid
  <2>1. Len(manifest.attempts) = Len(Plan) /\ \A i \in evaluated : calls[i].status = "completed"
    BY DEF ValidOutcomes, RowsInv
  <2>2. ASSUME NEW i \in Planned
        PROVE  /\ manifest.attempts[i].outcome = "completed" =>
                    calls[i] = Served("completed", manifest.attempts[i].cost)
               /\ manifest.attempts[i].outcome = "denied" => calls[i].status \in {"denied", "none"}
    <3>1. AgreesWithRow(manifest.attempts[i], calls[i]) /\ calls[i] \in RowRecord
      OBVIOUS
    <3> QED
      BY <3>1 DEF AgreesWithRow, OutcomeOf, Served, RowRecord
  <2> QED
    BY <1>1, <1>3, <2>1, <2>2 DEF Backed
<1> HIDE DEF made, valid, next
<1>6. /\ replayer' \in [Replayer -> [at : {"new", "writing", "ended"}, report : ReportRecord \cup {NoReport}]]
      /\ replayer'[p] = next /\ \A q \in Replayer \ {p} : replayer'[q] = replayer[q]
  BY <1>2, <1>4 DEF FixtureTyped
<1>7. \A q \in Replayer : replayer'[q].at = "writing" =>
        replayer'[q] = replayer[q] \/ Backed(replayer'[q].report)
  BY <1>4, <1>5, <1>6
<1> QED
  BY <1>6, <1>7, ReplaysKeep DEF ReadForReplay, serviceVars

LEMMA ReplayEnds ==
  ASSUME FixtureInv, NEW p \in Replayer, replayer[p].at = "writing",
         replayer' = [replayer EXCEPT ![p].at = "ended"],
         UNCHANGED <<setting, runClaim, manifest, calls, evaluated, runner>>,
         report' \in {report, replayer[p].report}
  PROVE  FixtureInv'
<1> USE Rest
<1>1. /\ replayer' \in [Replayer -> [at : {"new", "writing", "ended"}, report : ReportRecord \cup {NoReport}]]
      /\ replayer'[p].at = "ended" /\ \A q \in Replayer \ {p} : replayer'[q] = replayer[q]
  BY DEF FixtureTyped
<1> QED
  BY <1>1, ReplaysKeep

-----------------------------------------------------------------------------
LEMMA AcquireRunClaimKeeps == ASSUME FixtureInv, NEW r \in Runner, AcquireRunClaim(r) PROVE FixtureInv'
<1> USE Rest
<1>1. /\ runClaim = NoRunner /\ runClaim' = r /\ RunnerGoes(r, "claimed")
      /\ UNCHANGED <<setting, manifest, calls, evaluated, replayer, report>>
  BY DEF AcquireRunClaim, serviceVars
<1>2. /\ runner' \in [Runner -> RunnerRecord]
      /\ runner'[r].at = "claimed" /\ runner'[r].attempts = runner[r].attempts
      /\ \A q \in Runner \ {r} : runner'[q] = runner[q]
  BY <1>1, RunnerGoesOn
<1>3. /\ manifest = NoFile /\ \A i \in Planned : calls[i].status = "none"
      /\ \A q \in Runner : runner[q].at = "new" /\ runner[q].attempts = <<>>
  BY <1>1, PlanAssumption DEF ClaimInv, ManifestInv, FileFits, Unasked
<1>4. FixtureTyped'
  BY <1>1, <1>2 DEF FixtureTyped
<1>5. ClaimInv'
  BY <1>1, <1>2, <1>3, PlanAssumption DEF ClaimInv
<1>6. ManifestInv'
  BY <1>1, <1>2, <1>3 DEF ManifestInv, FileFits, Underway
<1>7. RowsInv'
  BY <1>1, <1>3 DEF RowsInv
<1>8. AttemptsInv'
  BY <1>2, <1>3 DEF AttemptsInv
<1>9. CapInv'
  <2>1. \A q \in Runner : runner'[q].attempts = runner[q].attempts /\ runner'[q].at # "asking"
    BY <1>2, <1>3
  <2> QED
    BY <1>1, <1>3, <2>1 DEF CapInv
<1>10. ReportsInv'
  BY <1>1, ReportsKept
<1> QED
  BY <1>4, <1>5, <1>6, <1>7, <1>8, <1>9, <1>10 DEF FixtureInv

LEMMA HasClaim ==
  ASSUME FixtureInv, NEW r \in Runner, runner[r].at # "new"
  PROVE  runClaim = r
BY DEF FixtureInv, ClaimInv

(* A process goes on and leaves the file alone. *)
LEMMA PlaceMoves ==
  ASSUME FixtureInv, NEW r \in Runner, runner[r].at # "new",
         NEW place \in {"failing", "ended"} \cup Underway, RunnerGoes(r, place),
         UNCHANGED <<setting, runClaim, manifest, calls, evaluated, replayer, report>>,
         runner[r].at \in {"failing", "ended"} => place \in {"failing", "ended"},
         place = "asking" => NextCall(r) \in Planned /\ WithinCap(runner[r].attempts, NextCall(r)),
         place \in Underway => runner[r].at \in Underway,
         place \in Unasked => runner[r].at \in Unasked
  PROVE  FixtureInv'
<1> USE Rest
<1>1. /\ runner' \in [Runner -> RunnerRecord]
      /\ runner'[r].at = place /\ runner'[r].attempts = runner[r].attempts
      /\ \A q \in Runner \ {r} : runner'[q] = runner[q]
  BY RunnerGoesOn
<1>2. FileFits(r)'
  <2>1. FileFits(r)
    BY DEF ManifestInv
  <2>2. place # "claimed" /\ place # "new"
    BY DEF Underway
  <2> QED
    BY <1>1, <2>1, <2>2 DEF FileFits
<1>3. runner'[r].at # "new"
  BY <1>1 DEF Underway
<1> QED
  BY <1>1, <1>2, <1>3, HasClaim, RunMoves

(* It replaces its file, or fails over it. *)
LEMMA FileMoves ==
  ASSUME FixtureInv, NEW r \in Runner, runner[r].at # "new",
         NEW stage \in {"running", "complete", "incomplete"}, NEW place, NEW thrown \in {"failing", "ended"},
         PersistManifest(r, stage, runner[r].attempts, place, thrown),
         UNCHANGED <<setting, runClaim, calls, evaluated, replayer, report>>,
         \/ place = "ended"
         \/ /\ stage = "running" /\ place \in Underway \ {"asking"}
            /\ place \in Unasked => runner[r].at \in Unasked,
         runner[r].at \in {"failing", "ended"} => place = "ended"
  PROVE  FixtureInv'
<1> USE Rest
<1> DEFINE made == runner[r].attempts
<1>1. PICK onward \in {place, thrown} :
        /\ runner' = [runner EXCEPT ![r].at = onward, ![r].attempts = made]
        /\ \/ ~Terminal(manifest) /\ manifest' = Snapshot(r, stage, made)
           \/ manifest' = manifest /\ onward = thrown
  BY DEF PersistManifest
<1>2. onward \in {"claimed", "failing", "ended"} \cup Underway
  OBVIOUS
<1>3. made \in Seq(AttemptRecord)
  BY KnownFacts
<1>4. /\ runner' \in [Runner -> RunnerRecord]
      /\ runner'[r].at = onward /\ runner'[r].attempts = made
      /\ \A q \in Runner \ {r} : runner'[q] = runner[q]
  <2> HIDE DEF made
  <2> QED
    BY <1>1, <1>2, <1>3, RunnerLearns
<1>5. FileFits(r)'
  <2>1. CASE onward \in {"failing", "ended"}
    BY <1>4, <2>1 DEF FileFits, Underway, Unasked
  <2>2. CASE onward = place /\ place \in Underway /\ onward \notin {"failing", "ended"}
    <3>1. stage = "running"
      BY <2>2 DEF Underway
    <3>2. manifest' = Snapshot(r, "running", made)
      BY <1>1, <2>2, <3>1
    <3>3. place \in Unasked => made = <<>>
      BY <2>2 DEF ManifestInv, FileFits, Underway, Unasked
    <3>4. place # "claimed"
      BY <2>2 DEF Underway
    <3> QED
      BY <1>4, <2>2, <3>2, <3>3, <3>4 DEF FileFits, Snapshot
  <2> QED
    BY <2>1, <2>2
<1>6. runner'[r].at # "new" /\ runner'[r].at # "asking"
  BY <1>4 DEF Underway
<1>7. runner[r].at \in {"failing", "ended"} => runner'[r].at \in {"failing", "ended"}
  BY <1>1, <1>4
<1>8. \/ manifest' = manifest
      \/ /\ ~Terminal(manifest)
         /\ \E p \in {"running", "complete", "incomplete"} : manifest' = Snapshot(r, p, runner[r].attempts)
  BY <1>1
<1> QED
  BY <1>4, <1>5, <1>6, <1>7, <1>8, HasClaim, RunMoves

LEMMA WriteFirstManifestKeeps == ASSUME FixtureInv, NEW r \in Runner, WriteFirstManifest(r) PROVE FixtureInv'
<1> USE Rest
<1>1. /\ runner[r].at = "claimed" /\ runner[r].attempts = <<>> /\ manifest = NoFile
      /\ UNCHANGED <<setting, runClaim, calls, evaluated, replayer, report>>
  BY DEF WriteFirstManifest, RunnerIs, ManifestInv, FileFits, Unasked, serviceVars
<1>2. PICK place \in {"configuring", "ended"} :
        /\ RunnerGoes(r, place)
        /\ \/ manifest' = Snapshot(r, "running", <<>>)
           \/ manifest' = manifest /\ place = "ended"
  BY DEF WriteFirstManifest
<1>3. /\ runner' \in [Runner -> RunnerRecord]
      /\ runner'[r].at = place /\ runner'[r].attempts = runner[r].attempts
      /\ \A q \in Runner \ {r} : runner'[q] = runner[q]
  <2>1. place \in {"claimed", "failing", "ended"} \cup Underway
    BY DEF Underway
  <2> QED
    BY <1>2, <2>1, RunnerGoesOn
<1>4. FileFits(r)'
  BY <1>1, <1>2, <1>3 DEF FileFits, Underway, Unasked, Snapshot
<1>5. \/ manifest' = manifest
      \/ /\ ~Terminal(manifest)
         /\ \E stage \in {"running", "complete", "incomplete"} :
              manifest' = Snapshot(r, stage, runner[r].attempts)
  BY <1>1, <1>2 DEF Terminal
<1>6. runClaim = r
  BY <1>1, HasClaim
<1> QED
  BY <1>1, <1>2, <1>3, <1>4, <1>5, <1>6, RunMoves

LEMMA LoadConfigurationKeeps == ASSUME FixtureInv, NEW r \in Runner, LoadConfiguration(r) PROVE FixtureInv'
<1>1. /\ runner[r].at = "configuring"
      /\ UNCHANGED <<setting, runClaim, calls, evaluated, replayer, report>>
  BY DEF LoadConfiguration, RunnerIs, serviceVars
<1>2. CASE RunnerGoes(r, "failing") /\ manifest' = manifest
  BY <1>1, <1>2, PlaceMoves DEF Underway, Unasked
<1>3. CASE PersistManifest(r, "running", <<>>, "setup", "failing")
  <2>1. runner[r].attempts = <<>>
    BY <1>1, Rest DEF ManifestInv, FileFits, Unasked
  <2> QED
    BY <1>1, <1>3, <2>1, FileMoves DEF Underway, Unasked
<1> QED
  BY <1>2, <1>3 DEF LoadConfiguration

LEMMA ExecuteSetupKeeps == ASSUME FixtureInv, NEW r \in Runner, ExecuteSetup(r) PROVE FixtureInv'
<1>1. /\ runner[r].at = "setup"
      /\ UNCHANGED <<setting, runClaim, manifest, calls, evaluated, replayer, report>>
      /\ RunnerGoes(r, "verifying") \/ RunnerGoes(r, "failing")
  BY DEF ExecuteSetup, RunnerIs
<1> QED
  BY <1>1, PlaceMoves DEF Underway, Unasked

LEMMA VerifySetupKeeps == ASSUME FixtureInv, NEW r \in Runner, VerifySetup(r) PROVE FixtureInv'
<1>1. /\ runner[r].at = "verifying"
      /\ UNCHANGED <<setting, runClaim, calls, evaluated, replayer, report>>
  BY DEF VerifySetup, RunnerIs, serviceVars
<1>2. CASE RunnerGoes(r, "failing") /\ manifest' = manifest
  BY <1>1, <1>2, PlaceMoves DEF Underway, Unasked
<1>3. CASE PersistManifest(r, "running", <<>>, "calling", "failing")
  <2>1. runner[r].attempts = <<>>
    BY <1>1, Rest DEF ManifestInv, FileFits, Unasked
  <2> QED
    BY <1>1, <1>3, <2>1, FileMoves DEF Underway, Unasked
<1> QED
  BY <1>2, <1>3 DEF VerifySetup

LEMMA BeginCallKeeps == ASSUME FixtureInv, NEW r \in Runner, BeginCall(r) PROVE FixtureInv'
<1>1. /\ runner[r].at = "calling"
      /\ UNCHANGED <<setting, runClaim, manifest, calls, evaluated, replayer, report>>
      /\ \/ RunnerGoes(r, "failing")
         \/ /\ RunnerGoes(r, "asking")
            /\ NextCall(r) \in Planned /\ WithinCap(runner[r].attempts, NextCall(r))
  BY DEF BeginCall, RunnerIs, serviceVars
<1> QED
  BY <1>1, PlaceMoves DEF Underway, Unasked

LEMMA AssertAttemptKeeps == ASSUME FixtureInv, NEW r \in Runner, AssertAttempt(r) PROVE FixtureInv'
<1>1. /\ runner[r].at = "asserting"
      /\ UNCHANGED <<setting, runClaim, manifest, calls, evaluated, replayer, report>>
      /\ RunnerGoes(r, "failing") \/ RunnerGoes(r, "calling")
  BY DEF AssertAttempt, RunnerIs, serviceVars
<1> QED
  BY <1>1, PlaceMoves DEF Underway, Unasked

LEMMA CompleteRunKeeps == ASSUME FixtureInv, NEW r \in Runner, CompleteRun(r) PROVE FixtureInv'
<1>1. /\ runner[r].at = "calling"
      /\ UNCHANGED <<setting, runClaim, calls, evaluated, replayer, report>>
  BY DEF CompleteRun, RunnerIs, serviceVars
<1>2. CASE RunnerGoes(r, "failing") /\ manifest' = manifest
  BY <1>1, <1>2, PlaceMoves DEF Underway, Unasked
<1>3. CASE PersistManifest(r, "complete", runner[r].attempts, "ended", "failing")
  BY <1>1, <1>3, FileMoves
<1> QED
  BY <1>2, <1>3 DEF CompleteRun

LEMMA PersistIncompleteKeeps == ASSUME FixtureInv, NEW r \in Runner, PersistIncomplete(r) PROVE FixtureInv'
<1>1. /\ runner[r].at = "failing"
      /\ UNCHANGED <<setting, runClaim, calls, evaluated, replayer, report>>
      /\ PersistManifest(r, "incomplete", runner[r].attempts, "ended", "ended")
  BY DEF PersistIncomplete, RunnerIs, serviceVars
<1> QED
  BY <1>1, FileMoves

LEMMA InterruptKeeps == ASSUME FixtureInv, NEW r \in Runner, Interrupt(r) PROVE FixtureInv'
<1> USE Rest
<1> DEFINE next == [runner[r] EXCEPT !.interrupted = TRUE]
<1>1. /\ runner[r].at # "new" /\ runner' = [runner EXCEPT ![r] = next]
      /\ UNCHANGED <<setting, runClaim, manifest, calls, evaluated, replayer, report>>
  BY DEF Interrupt, serviceVars
<1>2. next \in RunnerRecord /\ next.at = runner[r].at /\ next.attempts = runner[r].attempts
  BY DEF RunnerRecord
<1> HIDE DEF next
<1>3. /\ runner' \in [Runner -> RunnerRecord]
      /\ runner'[r].at = runner[r].at /\ runner'[r].attempts = runner[r].attempts
      /\ \A q \in Runner \ {r} : runner'[q] = runner[q]
  BY <1>1, <1>2
<1>4. FileFits(r)'
  <2>1. FileFits(r)
    BY DEF ManifestInv
  <2> QED
    BY <1>1, <1>3, <2>1 DEF FileFits, Snapshot
<1> QED
  BY <1>1, <1>3, <1>4, HasClaim, RunMoves

LEMMA LostKeeps ==
  ASSUME FixtureInv, NEW r \in Runner, runner[r].at = "asking",
         NEW status \in {"none", "executing"},
         calls' = [calls EXCEPT ![NextCall(r)] = Served(status, 0)],
         NEW place \in {"failing", "ended"}, RunnerGoes(r, place),
         UNCHANGED <<setting, runClaim, manifest, evaluated, replayer, report>>
  PROVE  FixtureInv'
<1> DEFINE row == Served(status, 0)
<1>1. row \in RowRecord /\ row.billed = 0
  BY PlanFacts DEF Served, RowRecord
<1>2. calls' = [calls EXCEPT ![NextCall(r)] = row]
  OBVIOUS
<1> HIDE DEF row
<1> QED
  BY <1>1, <1>2, CallDropped

LEMMA RunnerDiesKeeps == ASSUME FixtureInv, NEW r \in Runner, RunnerDies(r) PROVE FixtureInv'
<1>1. /\ runner[r].at # "new" /\ RunnerGoes(r, "ended")
      /\ UNCHANGED <<setting, runClaim, manifest, evaluated, replayer, report>>
  BY DEF RunnerDies
<1>2. CASE runner[r].at = "asking"
  <2>1. PICK status \in {"none", "executing"} : calls' = [calls EXCEPT ![NextCall(r)] = Served(status, 0)]
    BY <1>2 DEF RunnerDies, RunnerIs
  <2> QED
    BY <1>1, <1>2, <2>1, LostKeeps
<1>3. CASE runner[r].at # "asking"
  <2>1. calls' = calls
    BY <1>3 DEF RunnerDies, RunnerIs
  <2> QED
    BY <1>1, <2>1, PlaceMoves DEF Underway, Unasked
<1> QED
  BY <1>2, <1>3

LEMMA CallLostKeeps == ASSUME FixtureInv, NEW r \in Runner, CallLost(r) PROVE FixtureInv'
<1>1. PICK status \in {"none", "executing"} : calls' = [calls EXCEPT ![NextCall(r)] = Served(status, 0)]
  BY DEF CallLost
<1>2. /\ runner[r].at = "asking" /\ RunnerGoes(r, "failing")
      /\ UNCHANGED <<setting, runClaim, manifest, evaluated, replayer, report>>
  BY DEF CallLost, RunnerIs
<1> QED
  BY <1>1, <1>2, LostKeeps

LEMMA CallAnsweredKeeps == ASSUME FixtureInv, NEW r \in Runner, CallAnswered(r) PROVE FixtureInv'
<1> USE PlanFacts
<1> DEFINE i == NextCall(r)
<1>1. /\ runner[r].at = "asking"
      /\ UNCHANGED <<setting, runClaim, evaluated, replayer, report>>
  BY DEF CallAnswered, RunnerIs
<1>2. i \in Planned /\ Plan[i].maximum \in Nat
  BY <1>1, Rest DEF AttemptsInv
<1>3. PICK row \in EndsOfRow(i) \cup {Served("none", 0), Served("executing", 0)} :
        /\ calls' = [calls EXCEPT ![i] = row]
        /\ \E answer \in AttemptsOf(i, row) : Checkpoint(r, Append(runner[r].attempts, answer))
  BY DEF CallAnswered
<1>4. PICK answer \in AttemptsOf(i, row) : Checkpoint(r, Append(runner[r].attempts, answer))
  BY <1>3
<1>5. /\ row \in RowRecord /\ (row.status = "none" => row.billed = 0)
      /\ row.status = "completed" => row.billed <= Plan[i].maximum /\ row = Served("completed", row.billed)
  BY PlanAssumption DEF EndsOfRow, Served, RowRecord
<1>6. /\ answer \in AttemptRecord /\ answer.cost <= Plan[i].maximum
      /\ answer.outcome = "completed" => row = Served("completed", answer.cost)
  <2>1. \/ row.status = "completed" /\ answer = Attempt("completed", row.billed, "none")
        \/ /\ answer.outcome \in {"denied", "error"} /\ answer.cost = 0 /\ answer \in AttemptRecord
    BY DEF AttemptsOf, Attempt, AttemptRecord
  <2>2. CASE row.status = "completed" /\ answer = Attempt("completed", row.billed, "none")
    <3>1. row.billed \in Amount
      BY <1>5 DEF RowRecord
    <3> QED
      BY <1>5, <2>2, <3>1 DEF Attempt, AttemptRecord
  <2> QED
    BY <1>2, <2>1, <2>2
<1> QED
  BY <1>1, <1>3, <1>4, <1>5, <1>6, CallRecorded

LEMMA AlwaysFixture == FixtureSpec => []FixtureInv
<1>1. FixtureInv /\ [FixtureNext]_runVars => FixtureInv'
  <2> SUFFICES ASSUME FixtureInv, [FixtureNext]_runVars PROVE FixtureInv'
    OBVIOUS
  <2>1. ASSUME NEW r \in Runner,
               \/ AcquireRunClaim(r) \/ WriteFirstManifest(r) \/ LoadConfiguration(r)
               \/ ExecuteSetup(r) \/ VerifySetup(r) \/ BeginCall(r) \/ CallAnswered(r) \/ CallLost(r)
               \/ AssertAttempt(r) \/ CompleteRun(r) \/ PersistIncomplete(r)
               \/ Interrupt(r) \/ RunnerDies(r)
        PROVE  FixtureInv'
    BY <2>1, AcquireRunClaimKeeps, WriteFirstManifestKeeps, LoadConfigurationKeeps,
       ExecuteSetupKeeps, VerifySetupKeeps, BeginCallKeeps, CallAnsweredKeeps, CallLostKeeps,
       AssertAttemptKeeps, CompleteRunKeeps, PersistIncompleteKeeps, InterruptKeeps, RunnerDiesKeeps
  <2>2. ASSUME NEW i \in Planned, EndRow(i) \/ ResolveRow(i) \/ EvaluateShadow(i)
        PROVE  FixtureInv'
    BY <2>2, EndRowKeeps, ResolveRowKeeps, EvaluateShadowKeeps
  <2>3. ASSUME NEW p \in Replayer, ReadForReplay(p) \/ WriteReport(p) \/ ReplayDies(p)
        PROVE  FixtureInv'
    <3>1. CASE ReadForReplay(p)
      BY <3>1, ReadKeeps
    <3>2. CASE WriteReport(p) \/ ReplayDies(p)
      BY <3>2, ReplayEnds DEF WriteReport, ReplayDies, serviceVars
    <3> QED
      BY <2>3, <3>1, <3>2
  <2>4. CASE ChangeSetup \/ UNCHANGED runVars
    <3>1. UNCHANGED <<setting, runClaim, manifest, calls, evaluated, runner, replayer, report>>
      BY <2>4 DEF ChangeSetup, runVars
    <3>2. /\ FixtureTyped' /\ ClaimInv' /\ ManifestInv' /\ RowsInv' /\ AttemptsInv' /\ CapInv'
      BY <3>1, Rest DEF FixtureTyped, ClaimInv, ManifestInv, FileFits, RowsInv, Kept, NextCall,
                        AttemptsInv, CapInv
    <3>3. ReportsInv'
      BY <3>1, ReportsKept
    <3> QED
      BY <3>2, <3>3 DEF FixtureInv
  <2> QED
    BY <2>1, <2>2, <2>3, <2>4 DEF FixtureNext
<1> QED
  BY <1>1, FixtureStarts, PTL DEF FixtureSpec

(* The ceiling of a run covers what its provider billed for the calls it knows *)
(* of and for the one after them, whatever is lost, dies or is interrupted     *)
(* (assertEvidenceProviderCostCap, recordAttemptDurablyBeforeAssertions).      *)
THEOREM CapAlwaysCoversBills == FixtureSpec => []CapCoversBills
BY AlwaysFixture, CapEnough, PTL

(* The manifest forgets no call but the last, and a report stays true of the   *)
(* rows it was made from (atomicReplaceJson, replay-evidence.ts).              *)
THEOREM FilesAlwaysAnswer == FixtureSpec => []FilesAnswerForTheRun
BY AlwaysFixture, FilesEnough, PTL
=============================================================================
