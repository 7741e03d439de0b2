------------------------------ MODULE SpendProofs ------------------------------
(***************************************************************************)
(* Where the money of mandates goes, for any number of mandates, branches,  *)
(* requests, callers and policies: the inference path implements the ledger *)
(* of SpendLedger, rolling ceilings hold over every window, and what was    *)
(* delegated bounds what is spent on it.                                    *)
(***************************************************************************)
EXTENDS LedgerRefinement, Delegation, ControlledInferenceProofs

-----------------------------------------------------------------------------
(* The ledger.  Nothing is reserved for a request that was not admitted, and *)
(* only a final row has been ruled on: otherwise a row in flight would be in  *)
(* the phase of a ruling.                                                   *)
LedgerInv ==
  \A r \in Requests :
    /\ execution[r].status \in {"absent", "denied"} => execution[r].reserved = 0
    /\ resolution[r].kind # "none" => execution[r].status \in {"completed", "failed"}

LEMMA ResolvedFacts ==
  ASSUME StoreTypeOK, NEW r \in Requests, NEW kind \in {"settle", "confirm_not_billed"},
         NEW a \in Amount, ResolveReconciliation(r, kind, a)
  PROVE  /\ \A x \in Requests \ {r} :
              execution'[x] = execution[x] /\ resolution'[x] = resolution[x]
         /\ execution'[r] = ResolvedRow(execution[r], kind, a)
         /\ execution[r].status = "reconciliation_hold" /\ execution[r] \in ExecutionRow
         /\ resolution'[r].kind = kind /\ resolution[r].kind = "none"
<1>1. /\ execution \in [Requests -> ExecutionRow] /\ resolution \in [Requests -> ResolutionRow]
  BY DEF StoreTypeOK
<1>2. /\ execution' = [execution EXCEPT ![r] = ResolvedRow(execution[r], kind, a)]
      /\ Open(r)
  BY DEF ResolveReconciliation
<1>3. resolution' = [resolution EXCEPT ![r] =
                       [kind |-> kind, actual |-> IF kind = "settle" THEN a ELSE 0]]
  BY DEF ResolveReconciliation
<1> QED
  BY <1>1, <1>2, <1>3 DEF Open

LEMMA ResolvedColumns ==
  ASSUME NEW e \in ExecutionRow, NEW kind \in {"settle", "confirm_not_billed"}, NEW a \in Amount
  PROVE  LET f == ResolvedRow(e, kind, a)
         IN  /\ f.status \in {"completed", "failed"}
             /\ f.payload = e.payload /\ f.policy = e.policy /\ f.reserved = e.reserved
             /\ f.createdAt = e.createdAt
             /\ Settled(f) <=> kind = "settle"
             /\ kind = "settle" => f.actual = a
<1>1. CASE kind = "settle" /\ e.answered
  BY <1>1 DEF ResolvedRow, ExecutionRow, Settled
<1>2. CASE kind = "settle" /\ ~e.answered
  BY <1>2 DEF ResolvedRow, ExecutionRow, Settled
<1>3. CASE kind # "settle"
  BY <1>3 DEF ResolvedRow, ExecutionRow, Settled
<1> QED
  BY <1>1, <1>2, <1>3

LEMMA CallsDoNotRule ==
  ASSUME NEW w \in Workers, WorkerStep(w) \/ Crash(w)
  PROVE  UNCHANGED resolution
BY DEF WorkerStep, Admit, AdmitRead, Refuse, Decide, AdmitNew, Collide, Replay,
       ExpireLease, AdmitExpired, AdmitNothing, Dispatch, NotDispatched, AnswerLost,
       Answer, Complete, CompletionUnacknowledged, CompleteInference, CompleteOverrun,
       RejectAnswer, CompletionThrows, RecordHold, HoldInference, RecordFailure,
       FailInference, TooLate, Crash, storeVars

LEMMA RulingStep ==
  ASSUME TypeOK, [Next]_vars, NEW x \in Requests
  PROVE  \/ resolution'[x] = resolution[x]
         \/ /\ resolution'[x].kind # "none"
            /\ execution'[x].status \in {"completed", "failed"}
<1>1. CASE Resolve
  <2>1. PICK r \in Requests, kind \in {"settle", "confirm_not_billed"}, a \in Amount :
          ResolveReconciliation(r, kind, a)
    BY <1>1, BoundsAssumption DEF Resolve
  <2>2. StoreTypeOK
    BY DEF TypeOK
  <2> QED
    BY <2>1, <2>2, ResolvedFacts, ResolvedColumns
<1>2. CASE Administer
  BY <1>2 DEF Administer, Transition, PublishPolicy, CreateMandate, AssignAgent,
              SetMandatePolicy, CreateBranch, TransitionMandateState
<1>3. ASSUME NEW w \in Workers, WorkerStep(w) \/ Crash(w)
      PROVE  UNCHANGED resolution
  BY <1>3, CallsDoNotRule
<1>4. CASE \/ \E w \in Workers, r \in Requests, p \in Payloads : Arrive(w, r, p)
           \/ Tick \/ UNCHANGED vars
  BY <1>4 DEF Arrive, Tick, vars, storeVars
<1> QED
  BY <1>1, <1>2, <1>3, <1>4 DEF Next, Operate

LEMMA DecideFacts ==
  ASSUME TypeOK, NEW w \in Workers, Decide(w)
  PROVE  /\ worker[w].request \in Requests /\ worker[w].payload \in Payloads
         /\ worker[w].decidedAt \in Nat /\ StoreTypeOK
         /\ AdmitNew(worker[w].request, worker[w].payload, worker[w].decidedAt)
BY CallFacts DEF TypeOK, Decide, At, Call

LEMMA LedgerStep == TypeOK /\ LedgerInv /\ [Next]_vars => LedgerInv'
<1> SUFFICES ASSUME TypeOK, LedgerInv, [Next]_vars, NEW x \in Requests
             PROVE  /\ execution'[x].status \in {"absent", "denied"} => execution'[x].reserved = 0
                    /\ resolution'[x].kind # "none" =>
                         execution'[x].status \in {"completed", "failed"}
  BY DEF LedgerInv
<1>1. \/ execution'[x] = execution[x]
      \/ \E w \in Workers : Decide(w) /\ worker[w].request = x
      \/ MovesOn(execution[x], execution'[x])
  BY RowStep
<1>2. ASSUME NEW w \in Workers, Decide(w), worker[w].request = x
      PROVE  /\ execution[x].status = "absent" /\ resolution'[x] = resolution[x]
             /\ execution'[x].status = "denied" => execution'[x].reserved = 0
             /\ execution'[x].status # "absent"
  BY <1>2, DecideFacts, AdmittedFacts
<1>3. /\ execution[x].status \in {"absent", "denied"} => execution[x].reserved = 0
      /\ resolution[x].kind # "none" => execution[x].status \in {"completed", "failed"}
  BY DEF LedgerInv
<1> QED
  BY <1>1, <1>2, <1>3, RulingStep DEF MovesOn

LEMMA LedgerInitial == Init => LedgerInv
BY DEF Init, StoreInit, LedgerInv, NoExecution, Unresolved

LEMMA LedgerInductive == Spec => []LedgerInv
BY LedgerInitial, LedgerStep, TypeCorrect, PTL DEF Spec

-----------------------------------------------------------------------------
(* An entry of the ledger as a function of a row and of the ruling on it.   *)
PhaseOf(e, ruling) ==
  IF e.status \in {"absent", "denied"} THEN "none"
  ELSE IF e.status = "executing" THEN "open"
  ELSE IF e.status = "reconciliation_hold" THEN "disputed"
  ELSE IF ruling # "none" THEN "ruled"
  ELSE IF e.status = "completed" THEN "settled" ELSE "released"

Booked(phase, owner, authorised, charged) ==
  [phase |-> phase, owner |-> owner, authorised |-> authorised, charged |-> charged]

EntryOf(e, ruling) ==
  Booked(PhaseOf(e, ruling),
         IF PhaseOf(e, ruling) = "none" THEN NoMandate ELSE e.payload.mandate,
         e.reserved, Spend(e))

Limits == [m \in Mandates |-> mandate[m].maximum]
Entries == [r \in Requests |-> EntryOf(execution[r], resolution[r].kind)]

LEMMA EntriesAreEntries ==
  /\ Entries = [r \in Requests |-> Entry(r)]
  /\ Entries' = [r \in Requests |-> Entry(r)]'
<1>1. Entries = [r \in Requests |-> Entry(r)]
  BY DEF Entries, EntryOf, PhaseOf, Booked, Entry, Phase
<1>2. Entries' = [r \in Requests |-> Entry(r)]'
  BY DEF Entries, EntryOf, PhaseOf, Booked, Entry, Phase
<1> QED
  BY <1>1, <1>2

LEMMA EntriesMove ==
  ASSUME NEW r \in Requests,
         \A x \in Requests \ {r} : execution'[x] = execution[x] /\ resolution'[x] = resolution[x]
  PROVE  Entries' = [Entries EXCEPT ![r] = EntryOf(execution'[r], resolution'[r].kind)]
BY DEF Entries

LEMMA EntriesStay ==
  ASSUME \A x \in Requests : execution'[x] = execution[x] /\ resolution'[x] = resolution[x]
  PROVE  Entries' = Entries
BY DEF Entries

(* The entries of rows, by status. *)
LEMMA EntryOfNone ==
  ASSUME NEW e \in ExecutionRow, NEW ruling, CostsInOrder(e, ruling),
         e.status \in {"absent", "denied"}, e.reserved = 0
  PROVE  EntryOf(e, ruling) = Booked("none", NoMandate, 0, 0)
<1>1. PhaseOf(e, ruling) = "none" /\ ~Settled(e) /\ Spend(e) = 0
  BY DEF PhaseOf, Settled, CostsInOrder, Spend
<1> QED
  BY <1>1 DEF EntryOf

LEMMA EntryOfOpen ==
  ASSUME NEW e \in ExecutionRow, NEW ruling, CostsInOrder(e, ruling), e.status = "executing"
  PROVE  EntryOf(e, ruling) = Booked("open", e.payload.mandate, e.reserved, e.reserved)
<1>1. PhaseOf(e, ruling) = "open" /\ ~Settled(e) /\ Spend(e) = e.reserved
  BY DEF PhaseOf, Settled, CostsInOrder, Spend
<1> QED
  BY <1>1 DEF EntryOf

LEMMA EntryOfDisputed ==
  ASSUME NEW e \in ExecutionRow, NEW ruling, CostsInOrder(e, ruling),
         e.status = "reconciliation_hold"
  PROVE  EntryOf(e, ruling) = Booked("disputed", e.payload.mandate, e.reserved, e.reserved)
<1>1. PhaseOf(e, ruling) = "disputed" /\ ~Settled(e) /\ Spend(e) = e.reserved
  BY DEF PhaseOf, Settled, CostsInOrder, Spend
<1> QED
  BY <1>1 DEF EntryOf

LEMMA EntryOfFinal ==
  ASSUME NEW e \in ExecutionRow, NEW ruling, e.status \in {"completed", "failed"}
  PROVE  EntryOf(e, ruling) =
           Booked(IF ruling # "none" THEN "ruled"
                  ELSE IF e.status = "completed" THEN "settled" ELSE "released",
                  e.payload.mandate, e.reserved, IF Settled(e) THEN e.actual ELSE 0)
<1>1. /\ PhaseOf(e, ruling) = IF ruling # "none" THEN "ruled"
                              ELSE IF e.status = "completed" THEN "settled" ELSE "released"
      /\ PhaseOf(e, ruling) # "none"
      /\ Spend(e) = IF Settled(e) THEN e.actual ELSE 0
  BY DEF PhaseOf, Spend
<1> QED
  BY <1>1 DEF EntryOf

-----------------------------------------------------------------------------
(* Steps of the ledger: an entry moves on, and may change what it charges.  *)
Moved(f, r, to) == [f EXCEPT ![r].phase = to]
Recharged(f, r, to, a) == [f EXCEPT ![r].phase = to, ![r].charged = a]

LEMMA MovedEntry ==
  ASSUME NEW f, f = [x \in Requests |-> f[x]], NEW r \in Requests,
         NEW phase, NEW m, NEW amount, NEW charged, f[r] = Booked(phase, m, amount, charged),
         NEW to
  PROVE  Moved(f, r, to) = [f EXCEPT ![r] = Booked(to, m, amount, charged)]
<1>1. [f[r] EXCEPT !.phase = to] = Booked(to, m, amount, charged)
  BY DEF Booked
<1> QED
  BY <1>1 DEF Moved

LEMMA RechargedEntry ==
  ASSUME NEW f, f = [x \in Requests |-> f[x]], NEW r \in Requests,
         NEW phase, NEW m, NEW amount, NEW charged, f[r] = Booked(phase, m, amount, charged),
         NEW to, NEW a
  PROVE  Recharged(f, r, to, a) = [f EXCEPT ![r] = Booked(to, m, amount, a)]
<1> DEFINE g == Moved(f, r, to)
<1>1. g = [f EXCEPT ![r] = Booked(to, m, amount, charged)]
  BY MovedEntry
<1>2. Recharged(f, r, to, a) = [g EXCEPT ![r].charged = a]
  BY DEF Recharged, Moved
<1> HIDE DEF g
<1>3. g[r] = Booked(to, m, amount, charged)
  BY <1>1
<1>4. [g[r] EXCEPT !.charged = a] = Booked(to, m, amount, a)
  BY <1>3 DEF Booked
<1>5. [g EXCEPT ![r].charged = a] = [g EXCEPT ![r] = Booked(to, m, amount, a)]
  BY <1>4
<1>6. [g EXCEPT ![r] = Booked(to, m, amount, a)] = [f EXCEPT ![r] = Booked(to, m, amount, a)]
  BY <1>1
<1> QED
  BY <1>2, <1>5, <1>6, Zenon

LEMMA BookedFields ==
  ASSUME NEW phase, NEW m, NEW amount, NEW charged
  PROVE  /\ Booked(phase, m, amount, charged).phase = phase
         /\ Booked(phase, m, amount, charged).owner = m
         /\ Booked(phase, m, amount, charged).authorised = amount
         /\ Booked(phase, m, amount, charged).charged = charged
BY DEF Booked

LEMMA EntriesAFunction == Entries = [x \in Requests |-> Entries[x]]
BY DEF Entries

(* What becomes of an open entry and of a disputed one. *)
LEMMA AsOutcome ==
  ASSUME NEW r \in Requests, NEW m, NEW amount, Limits' = Limits,
         Entries[r] = Booked("open", m, amount, amount),
         \/ \E a \in Amount : /\ a <= amount
                              /\ Entries' = [Entries EXCEPT ![r] = Booked("settled", m, amount, a)]
         \/ Entries' = [Entries EXCEPT ![r] = Booked("released", m, amount, 0)]
         \/ Entries' = [Entries EXCEPT ![r] = Booked("disputed", m, amount, amount)]
  PROVE  Ledger!Next
<1>1. Entries[r].phase = "open" /\ Entries[r].authorised = amount
  BY BookedFields
<1>2. ASSUME NEW a \in Amount, a <= amount,
             Entries' = [Entries EXCEPT ![r] = Booked("settled", m, amount, a)]
      PROVE  Ledger!Settle(r, a)
  <2>1. Recharged(Entries, r, "settled", a)
          = [Entries EXCEPT ![r] = Booked("settled", m, amount, a)]
    BY EntriesAFunction, RechargedEntry
  <2>2. Entries' = Recharged(Entries, r, "settled", a)
    BY <1>2, <2>1
  <2> QED
    BY <1>1, <1>2, <2>2, EntriesAreEntries DEF Ledger!Settle, Limits, Recharged
<1>3. CASE Entries' = [Entries EXCEPT ![r] = Booked("released", m, amount, 0)]
  <2>1. Entries' = Recharged(Entries, r, "released", 0)
    BY <1>3, EntriesAFunction, RechargedEntry
  <2>2. Ledger!Release(r)
    BY <1>1, <2>1, EntriesAreEntries DEF Ledger!Release, Limits, Recharged
  <2> QED
    BY <2>2 DEF Ledger!Next
<1>4. CASE Entries' = [Entries EXCEPT ![r] = Booked("disputed", m, amount, amount)]
  <2>1. Entries' = Moved(Entries, r, "disputed")
    BY <1>4, EntriesAFunction, MovedEntry
  <2>2. Ledger!Dispute(r)
    BY <1>1, <2>1, EntriesAreEntries DEF Ledger!Dispute, Limits, Moved
  <2> QED
    BY <2>2 DEF Ledger!Next
<1>5. \A a \in Amount : a \in Ledger!Amount
  BY DEF Ledger!Amount, Amount
<1> QED
  BY <1>2, <1>3, <1>4, <1>5 DEF Ledger!Next

LEMMA AsRuling ==
  ASSUME NEW r \in Requests, NEW m, NEW amount, NEW a \in Amount, Limits' = Limits,
         Entries[r] = Booked("disputed", m, amount, amount),
         Entries' = [Entries EXCEPT ![r] = Booked("ruled", m, amount, a)]
  PROVE  Ledger!Next
<1>1. Entries[r].phase = "disputed"
  BY BookedFields
<1>2. Entries' = Recharged(Entries, r, "ruled", a)
  BY EntriesAFunction, RechargedEntry
<1>3. Ledger!Rule(r, a)
  BY <1>1, <1>2, EntriesAreEntries DEF Ledger!Rule, Limits, Recharged
<1>4. a \in Ledger!Amount
  BY DEF Ledger!Amount, Amount
<1> QED
  BY <1>3, <1>4 DEF Ledger!Next

(* The books of the ledger are those of BudgetBound. *)
LEMMA CommittedIsAuthorised ==
  ASSUME StoreTypeOK, \A r \in Requests : InOrder(r), LedgerInv, NEW m \in Mandates
  PROVE  Ledger!Committed(m) = AuthorisedSpend(m)
<1> DEFINE taken == [r \in Requests |-> IF Entries[r].owner = m
                                        THEN Smaller(Entries[r].charged, Entries[r].authorised)
                                        ELSE 0]
<1>1. Ledger!Committed(m) = Total(taken, Requests)
  <2>1. \A r \in Requests : Entries[r] = Entry(r)
    BY EntriesAreEntries
  <2>2. taken = [r \in Requests |-> Ledger!Taken(r, m)]
    BY <2>1 DEF Ledger!Taken, Ledger!Smaller, Smaller
  <2>3. \A f : Ledger!Total(f, Requests) = Total(f, Requests)
    BY DEF Ledger!Total, Ledger!Units, Total, Units, Ledger!Cardinality, Cardinality
  <2> HIDE DEF taken
  <2> QED
    BY <2>2, <2>3 DEF Ledger!Committed
<1>2. ASSUME NEW r \in Requests
      PROVE  taken[r] = WeightOf(m, execution[r])
  <2> DEFINE e == execution[r]
             k == resolution[r].kind
  <2>1. /\ e \in ExecutionRow /\ CostsInOrder(e, k)
        /\ e.status \in {"absent", "denied"} => e.reserved = 0
        /\ Entries[r] = EntryOf(e, k)
    BY DEF StoreTypeOK, InOrder, LedgerInv, Entries
  <2> HIDE DEF e, k
  <2>2. CASE e.status \in {"absent", "denied"}
    <3>1. taken[r] = 0
      BY <2>1, <2>2, EntryOfNone, BookedFields, BranchesAssumption
    <3>2. Spend(e) = 0
      BY <2>1, <2>2 DEF Spend, Settled, CostsInOrder
    <3> QED
      BY <2>1, <2>2, <3>1, <3>2 DEF WeightOf, Smaller, e
  <2>3. CASE e.status \notin {"absent", "denied"}
    <3>1. PhaseOf(e, k) # "none"
      BY <2>3 DEF PhaseOf
    <3>2. Entries[r] = Booked(PhaseOf(e, k), e.payload.mandate, e.reserved, Spend(e))
      BY <2>1, <3>1 DEF EntryOf
    <3> QED
      BY <2>3, <3>2, BookedFields DEF WeightOf, e
  <2> QED
    BY <2>2, <2>3
<1>3. taken = Weights(m, execution)
  BY <1>2 DEF Weights
<1> QED
  BY <1>1, <1>3, AuthorisedAsWeights

-----------------------------------------------------------------------------
(* What a call records of a request in flight. *)
Records(r) ==
  LET e == execution[r]
  IN /\ e.status = "executing"
     /\ \/ \E a \in Amount : a <= e.reserved /\ Writes(r, CompletedRow(e, a))
        \/ \E a \in Amount : Writes(r, OverrunRow(e, a))
        \/ \E reason, answered : Writes(r, HeldRow(e, reason, answered))
        \/ Writes(r, FailedRow(e)) \/ Writes(r, ExpiredRow(e))

LEMMA CallRecords ==
  ASSUME TypeOK, NEW w \in Workers, WorkerStep(w) \/ Crash(w)
  PROVE  UNCHANGED execution \/ Decide(w) \/ \E r \in Requests : Records(r)
<1> DEFINE r == worker[w].request
           e == execution[r]
<1>1. execution \in [Requests -> ExecutionRow] /\ StoreTypeOK
  BY DEF TypeOK, StoreTypeOK
<1>2. worker[w].stage # "idle" => r \in Requests /\ worker[w].cost \in Amount
  BY CallFacts DEF TypeOK, Call
<1>3. CASE ExpireLease(w)
  <2>1. r \in Requests /\ AdmitExpired(r)
    BY <1>2, <1>3 DEF ExpireLease, At
  <2> HIDE DEF r
  <2>2. CASE e.status = "executing"
    BY <1>1, <2>1, <2>2, WrittenRows DEF Records
  <2>3. CASE e.status # "executing"
    BY <1>1, <2>1, <2>3, WrittenRows
  <2> QED
    BY <2>2, <2>3
<1>4. CASE Complete(w) \/ CompletionUnacknowledged(w)
  <2> DEFINE cost == worker[w].cost
  <2>1. /\ r \in Requests /\ cost \in Amount
        /\ CompleteInference(r, cost) \/ CompleteOverrun(r, cost)
    BY <1>2, <1>4 DEF Complete, CompletionUnacknowledged, At
  <2> HIDE DEF r, cost
  <2>2. CASE CompleteInference(r, cost)
    <3>1. e.status = "executing" /\ cost <= e.reserved /\ Writes(r, CompletedRow(e, cost))
      BY <1>1, <2>1, <2>2, WrittenRows DEF CompleteInference
    <3> QED
      BY <2>1, <3>1 DEF Records
  <2>3. CASE CompleteOverrun(r, cost)
    <3>1. e.status = "executing" /\ Writes(r, OverrunRow(e, cost))
      BY <1>1, <2>1, <2>3, WrittenRows DEF CompleteOverrun
    <3> QED
      BY <2>1, <3>1 DEF Records
  <2> QED
    BY <2>1, <2>2, <2>3
<1>5. CASE RecordHold(w)
  <2> DEFINE reason == worker[w].reason
             answered == worker[w].answered
  <2>1. r \in Requests /\ HoldInference(r, reason, answered)
    BY <1>2, <1>5 DEF RecordHold, At
  <2> HIDE DEF r, reason, answered
  <2>2. e.status = "executing" /\ Writes(r, HeldRow(e, reason, answered))
    BY <1>1, <2>1, WrittenRows DEF HoldInference
  <2> QED
    BY <2>1, <2>2 DEF Records
<1>6. CASE RecordFailure(w)
  <2>1. r \in Requests /\ FailInference(r)
    BY <1>2, <1>6 DEF RecordFailure, At
  <2> HIDE DEF r
  <2>2. e.status = "executing" /\ Writes(r, FailedRow(e))
    BY <1>1, <2>1, WrittenRows DEF FailInference
  <2> QED
    BY <2>1, <2>2 DEF Records
<1>7. CASE \/ Admit(w) \/ Refuse(w) \/ Collide(w) \/ Replay(w)
           \/ Dispatch(w) \/ NotDispatched(w) \/ AnswerLost(w)
           \/ \E cost \in Costs : Answer(w, cost)
           \/ RejectAnswer(w) \/ CompletionThrows(w) \/ TooLate(w) \/ Crash(w)
  BY <1>7 DEF Admit, AdmitRead, Refuse, Collide, Replay, AdmitNothing, Dispatch,
              NotDispatched, AnswerLost, Answer, RejectAnswer, CompletionThrows, TooLate,
              Crash, storeVars
<1> QED
  BY <1>3, <1>4, <1>5, <1>6, <1>7 DEF WorkerStep

(* The steps of the inference path, on the ledger. *)
LEMMA AsRecorded ==
  ASSUME StoreTypeOK, StoreTypeOK', \A x \in Requests : InOrder(x) /\ InOrder(x)', LedgerInv,
         UNCHANGED resolution, Limits' = Limits, NEW r \in Requests, Records(r)
  PROVE  Ledger!Next
<1> DEFINE e == execution[r]
           f == execution'[r]
           m == e.payload.mandate
           k == resolution[r].kind
<1>1. /\ e \in ExecutionRow /\ f \in ExecutionRow /\ e.reserved \in Amount
      /\ CostsInOrder(e, k) /\ CostsInOrder(f, k)
  BY DEF StoreTypeOK, InOrder, ExecutionRow
<1>2. e.status = "executing" /\ k = "none"
  BY DEF Records, LedgerInv
<1>3. Entries[r] = Booked("open", m, e.reserved, e.reserved)
  <2>1. Entries[r] = EntryOf(e, k)
    BY DEF Entries
  <2> HIDE DEF e, k
  <2> QED
    BY <1>1, <1>2, <2>1, EntryOfOpen
<1>4. ASSUME NEW row, Writes(r, row)
      PROVE  f = row /\ Entries' = [Entries EXCEPT ![r] = EntryOf(f, k)]
  <2>1. f = row /\ \A x \in Requests : x # r => execution'[x] = execution[x]
    BY <1>4, WritesOne
  <2> QED
    BY <2>1, EntriesMove
<1> HIDE DEF e, f, m, k
<1>5. ASSUME NEW a \in Amount, a <= e.reserved, Writes(r, CompletedRow(e, a))
      PROVE  Ledger!Next
  <2>1. f.status = "completed" /\ f.actual = a /\ f.payload = e.payload /\ f.reserved = e.reserved
    BY <1>1, <1>4, <1>5, WrittenColumns
  <2>2. EntryOf(f, k) = Booked("settled", m, e.reserved, a)
    BY <1>1, <1>2, <2>1, EntryOfFinal DEF Settled, m
  <2>3. Entries' = [Entries EXCEPT ![r] = Booked("settled", m, e.reserved, a)]
    BY <1>4, <1>5, <2>2
  <2> QED
    BY <1>3, <1>5, <2>3, AsOutcome
<1>6. ASSUME f.status = "reconciliation_hold", f.payload = e.payload, f.reserved = e.reserved,
             Entries' = [Entries EXCEPT ![r] = EntryOf(f, k)]
      PROVE  Ledger!Next
  <2>1. EntryOf(f, k) = Booked("disputed", m, e.reserved, e.reserved)
    BY <1>1, <1>6, EntryOfDisputed DEF m
  <2> QED
    BY <1>3, <1>6, <2>1, AsOutcome
<1>7. ASSUME NEW a \in Amount, Writes(r, OverrunRow(e, a))
      PROVE  Ledger!Next
  <2>1. f = OverrunRow(e, a)
    BY <1>4, <1>7
  <2> QED
    BY <1>1, <1>4, <1>6, <1>7, <2>1, WrittenColumns
<1>8. ASSUME NEW reason, NEW answered, Writes(r, HeldRow(e, reason, answered))
      PROVE  Ledger!Next
  <2>1. f = HeldRow(e, reason, answered)
    BY <1>4, <1>8
  <2> QED
    BY <1>1, <1>4, <1>6, <1>8, <2>1, WrittenColumns
<1>9. CASE Writes(r, ExpiredRow(e))
  BY <1>1, <1>4, <1>6, <1>9, WrittenColumns
<1>10. CASE Writes(r, FailedRow(e))
  <2>1. /\ f.status = "failed" /\ f.failure = "PROVIDER_NOT_DISPATCHED"
        /\ f.payload = e.payload /\ f.reserved = e.reserved
    BY <1>1, <1>4, <1>10, WrittenColumns
  <2>2. EntryOf(f, k) = Booked("released", m, e.reserved, 0)
    BY <1>1, <1>2, <2>1, EntryOfFinal DEF Settled, m
  <2>3. Entries' = [Entries EXCEPT ![r] = Booked("released", m, e.reserved, 0)]
    BY <1>4, <1>10, <2>2
  <2> QED
    BY <1>3, <2>3, AsOutcome
<1>11. \/ \E a \in Amount : a <= e.reserved /\ Writes(r, CompletedRow(e, a))
       \/ \E a \in Amount : Writes(r, OverrunRow(e, a))
       \/ \E reason, answered : Writes(r, HeldRow(e, reason, answered))
       \/ Writes(r, FailedRow(e)) \/ Writes(r, ExpiredRow(e))
  BY DEF Records, e
<1> QED
  BY <1>5, <1>7, <1>8, <1>9, <1>10, <1>11

LEMMA AsResolved ==
  ASSUME StoreTypeOK, StoreTypeOK', \A x \in Requests : InOrder(x) /\ InOrder(x)',
         Limits' = Limits, NEW r \in Requests, NEW kind \in {"settle", "confirm_not_billed"},
         NEW a \in Amount, ResolveReconciliation(r, kind, a)
  PROVE  Ledger!Next
<1> DEFINE e == execution[r]
           f == execution'[r]
           m == e.payload.mandate
           charged == IF kind = "settle" THEN a ELSE 0
<1>1. /\ \A x \in Requests \ {r} :
           execution'[x] = execution[x] /\ resolution'[x] = resolution[x]
      /\ f = ResolvedRow(e, kind, a)
      /\ e.status = "reconciliation_hold" /\ e \in ExecutionRow
      /\ resolution'[r].kind = kind /\ resolution[r].kind = "none"
  BY ResolvedFacts
<1>2. /\ f \in ExecutionRow /\ e.reserved \in Amount /\ CostsInOrder(e, "none")
      /\ charged \in Amount
  BY <1>1, MaxAmountAssumption DEF StoreTypeOK, InOrder, ExecutionRow, Amount
<1>3. Entries[r] = EntryOf(e, "none") /\ Entries' = [Entries EXCEPT ![r] = EntryOf(f, kind)]
  <2>1. Entries[r] = EntryOf(e, "none")
    BY <1>1 DEF Entries
  <2>2. Entries' = [Entries EXCEPT ![r] = EntryOf(execution'[r], resolution'[r].kind)]
    BY <1>1, EntriesMove
  <2> QED
    BY <1>1, <2>1, <2>2
<1> HIDE DEF e, f
<1>4. EntryOf(e, "none") = Booked("disputed", m, e.reserved, e.reserved)
  BY <1>1, <1>2, EntryOfDisputed
<1>5. /\ f.status \in {"completed", "failed"}
      /\ f.payload = e.payload /\ f.reserved = e.reserved
      /\ (IF Settled(f) THEN f.actual ELSE 0) = charged
  BY <1>1, ResolvedColumns
<1>6. EntryOf(f, kind) = Booked("ruled", m, e.reserved, charged)
  BY <1>2, <1>5, EntryOfFinal
<1> HIDE DEF charged, m
<1> QED
  BY <1>2, <1>3, <1>4, <1>6, AsRuling

LEMMA AsAuthorised ==
  ASSUME StoreTypeOK, StoreTypeOK', \A x \in Requests : InOrder(x) /\ InOrder(x)', LedgerInv,
         Limits' = Limits, NEW r \in Requests, NEW p \in Payloads, NEW t \in Nat,
         AdmitNew(r, p, t)
  PROVE  Ledger!Next \/ Entries' = Entries
<1> DEFINE e == execution[r]
           f == execution'[r]
           k == resolution[r].kind
           m == p.mandate
<1>1. /\ e.status = "absent" /\ UNCHANGED <<mandate, resolution>>
      /\ \A x \in Requests \ {r} : execution'[x] = execution[x]
      /\ f.payload = p
      /\ \/ /\ f.status = "executing" /\ f.reserved = p.cost
            /\ MandateSpent(m) + p.cost <= mandate[m].maximum
         \/ f.status = "denied" /\ f.reserved = 0
  BY AdmittedFacts
<1>2. /\ e \in ExecutionRow /\ f \in ExecutionRow /\ e.reserved = 0
      /\ CostsInOrder(e, k) /\ CostsInOrder(f, k)
  BY <1>1 DEF StoreTypeOK, InOrder, LedgerInv
<1>3. Entries[r] = EntryOf(e, k) /\ Entries' = [Entries EXCEPT ![r] = EntryOf(f, k)]
  BY <1>1, EntriesMove DEF Entries
<1>4. m \in Mandates /\ p.cost \in Amount /\ p.cost \in Nat
  BY PayloadAssumption, MaxAmountAssumption DEF Amount
<1> HIDE DEF e, f, k, m
<1>5. EntryOf(e, k) = Booked("none", NoMandate, 0, 0)
  BY <1>1, <1>2, EntryOfNone
<1>6. CASE f.status = "denied" /\ f.reserved = 0
  <2>1. EntryOf(f, k) = Booked("none", NoMandate, 0, 0)
    BY <1>2, <1>6, EntryOfNone
  <2> QED
    BY <1>3, <1>5, <2>1, EntriesAFunction
<1>7. CASE /\ f.status = "executing" /\ f.reserved = p.cost
           /\ MandateSpent(m) + p.cost <= mandate[m].maximum
  <2>1. EntryOf(f, k) = Booked("open", m, p.cost, p.cost)
    BY <1>1, <1>2, <1>7, EntryOfOpen DEF m
  <2>2. Ledger!Committed(m) = AuthorisedSpend(m)
    BY <1>4, CommittedIsAuthorised
  <2>3. /\ AuthorisedSpend(m) \in Nat /\ MandateSpent(m) \in Nat
        /\ AuthorisedSpend(m) <= MandateSpent(m) /\ mandate[m].maximum \in Nat
    BY <1>4, AuthorisedWithinSpent, MaxAmountAssumption DEF StoreTypeOK, MandateRow, Amount
  <2>4. Ledger!Committed(m) + p.cost <= Limits[m]
    BY <1>4, <1>7, <2>2, <2>3 DEF Limits
  <2>5. Entries[r].phase = "none"
    BY <1>3, <1>5, BookedFields
  <2>6. Ledger!Authorise(r, m, p.cost)
    BY <1>3, <2>1, <2>4, <2>5, EntriesAreEntries DEF Ledger!Authorise, Limits, Booked
  <2>7. p.cost \in Ledger!Amount
    BY <1>4 DEF Ledger!Amount, Amount
  <2> QED
    BY <1>4, <2>6, <2>7 DEF Ledger!Next
<1> QED
  BY <1>1, <1>6, <1>7

LEMMA AsGranted ==
  ASSUME StoreTypeOK, BudgetInv, NEW m \in Mandates, Creates(m)
  PROVE  Ledger!Next
<1>1. PICK maximum \in Maxima, v \in Policies, e \in Expiries : CreateMandate(m, maximum, v, e)
  BY DEF Creates
<1>2. maximum \in Amount /\ maximum \in Ledger!Amount
  BY BoundsAssumption DEF Amount, Ledger!Amount
<1>3. Limits[m] = 0 /\ UNCHANGED <<execution, resolution>>
  BY <1>1 DEF BudgetInv, CreateMandate, Limits
<1>4. Entries' = Entries
  BY <1>3 DEF Entries
<1>5. /\ \A n \in Mandates \ {m} : mandate'[n] = mandate[n]
      /\ mandate'[m].maximum = maximum
  BY <1>1 DEF StoreTypeOK, CreateMandate
<1>6. Limits' = [Limits EXCEPT ![m] = maximum]
  BY <1>5 DEF Limits
<1>7. Ledger!Grant(m, maximum)
  BY <1>3, <1>4, <1>6, EntriesAreEntries DEF Ledger!Grant, Limits
<1> QED
  BY <1>2, <1>7 DEF Ledger!Next

LEMMA AsCalled ==
  ASSUME TypeOK, TypeOK', \A x \in Requests : InOrder(x) /\ InOrder(x)', LedgerInv,
         Limits' = Limits, NEW w \in Workers, WorkerStep(w) \/ Crash(w)
  PROVE  Ledger!Next \/ Entries' = Entries
<1>1. StoreTypeOK /\ StoreTypeOK' /\ UNCHANGED resolution
  BY CallsDoNotRule DEF TypeOK
<1>2. CASE UNCHANGED execution
  BY <1>1, <1>2 DEF Entries
<1>3. CASE Decide(w)
  <2> DEFINE r == worker[w].request
             p == worker[w].payload
             t == worker[w].decidedAt
  <2>1. r \in Requests /\ p \in Payloads /\ t \in Nat /\ AdmitNew(r, p, t)
    BY <1>3, DecideFacts
  <2> HIDE DEF r, p, t
  <2> QED
    BY <1>1, <2>1, AsAuthorised
<1>4. CASE \E r \in Requests : Records(r)
  BY <1>1, <1>4, AsRecorded
<1> QED
  BY <1>2, <1>3, <1>4, CallRecords

LEMMA LedgerSteps ==
  ASSUME TypeOK, TypeOK', BudgetInv, BudgetInv', LedgerInv, [Next]_vars
  PROVE  Ledger!Next \/ UNCHANGED <<Limits, Entries>>
<1>1. /\ StoreTypeOK /\ StoreTypeOK'
      /\ \A x \in Requests : InOrder(x) /\ InOrder(x)'
  BY DEF TypeOK, BudgetInv
<1>2. CASE \E m \in Mandates : Creates(m)
  BY <1>1, <1>2, AsGranted
<1>3. CASE ~\E m \in Mandates : Creates(m)
  <2>1. Limits' = Limits
    BY <1>3, MaximumStep DEF Limits
  <2>2. ASSUME UNCHANGED <<execution, resolution>>
        PROVE  Entries' = Entries
    BY <2>2 DEF Entries
  <2>3. CASE Resolve
    <3>1. PICK r \in Requests, kind \in {"settle", "confirm_not_billed"}, a \in Amount :
            ResolveReconciliation(r, kind, a)
      BY <2>3, BoundsAssumption DEF Resolve
    <3> QED
      BY <1>1, <2>1, <3>1, AsResolved
  <2>4. CASE Administer
    BY <2>1, <2>2, <2>4
    DEF Administer, Transition, PublishPolicy, CreateMandate, AssignAgent, SetMandatePolicy,
        CreateBranch, TransitionMandateState
  <2>5. ASSUME NEW w \in Workers, WorkerStep(w) \/ Crash(w)
        PROVE  Ledger!Next \/ Entries' = Entries
    BY <1>1, <2>1, <2>5, AsCalled
  <2>6. CASE \/ \E w \in Workers, r \in Requests, p \in Payloads : Arrive(w, r, p)
             \/ Tick \/ UNCHANGED vars
    BY <2>1, <2>2, <2>6 DEF Arrive, Tick, vars, storeVars
  <2> QED
    BY <2>1, <2>3, <2>4, <2>5, <2>6 DEF Next, Operate
<1> QED
  BY <1>2, <1>3

LEMMA LedgerStarts == Init => Ledger!Init
<1> SUFFICES ASSUME Init PROVE Ledger!Init
  OBVIOUS
<1>1. Limits \in [Mandates -> Ledger!Amount]
  BY MaxAmountAssumption DEF Init, StoreInit, AbsentMandate, Limits, Ledger!Amount
<1>2. ASSUME NEW r \in Requests
      PROVE  Entries[r] = Ledger!NoEntry
  <2>1. /\ execution[r].status = "absent" /\ execution[r].reserved = 0
        /\ execution[r].failure = "none"
    BY DEF Init, StoreInit, NoExecution
  <2>2. Entries[r] = EntryOf(execution[r], resolution[r].kind)
    BY DEF Entries
  <2>3. Entries[r] = Booked("none", NoMandate, 0, 0)
    BY <2>1, <2>2 DEF EntryOf, PhaseOf, Spend, Settled
  <2>4. Ledger!NoEntry = Booked("none", NoMandate, 0, 0)
    BY DEF Ledger!NoEntry, Booked
  <2> QED
    BY <2>3, <2>4
<1>3. Entries = [r \in Requests |-> Ledger!NoEntry]
  BY <1>2 DEF Entries
<1> QED
  BY <1>1, <1>3, EntriesAreEntries DEF Ledger!Init, Limits

(* The inference path with its callers, retries, crashes, operators and      *)
(* reconciliation implements the ledger: every step is one of its steps or    *)
(* leaves the books alone.                                                   *)
THEOREM LedgerImplemented == Spec => ImplementsLedger
<1>1. TypeOK /\ TypeOK' /\ BudgetInv /\ BudgetInv' /\ LedgerInv /\ [Next]_vars
        => [Ledger!Next]_<<[m \in Mandates |-> mandate[m].maximum],
                           [r \in Requests |-> Entry(r)]>>
  <2> SUFFICES ASSUME TypeOK, TypeOK', BudgetInv, BudgetInv', LedgerInv, [Next]_vars
               PROVE  [Ledger!Next]_<<[m \in Mandates |-> mandate[m].maximum],
                                      [r \in Requests |-> Entry(r)]>>
    OBVIOUS
  <2>1. Ledger!Next \/ UNCHANGED <<Limits, Entries>>
    BY LedgerSteps
  <2>2. Limits' = Limits => UNCHANGED [m \in Mandates |-> mandate[m].maximum]
    BY DEF Limits
  <2>3. Entries' = Entries => UNCHANGED [r \in Requests |-> Entry(r)]
    BY EntriesAreEntries
  <2> QED
    BY <2>1, <2>2, <2>3
<1> QED
  BY <1>1, LedgerStarts, TypeCorrect, BudgetInductive, LedgerInductive, PTL
  DEF Spec, ImplementsLedger, Ledger!Spec

-----------------------------------------------------------------------------
(* What becomes of a row that exists, and of one that does not. *)
LEMMA KnownRowStep ==
  ASSUME TypeOK, TypeOK', [Next]_vars, NEW r \in Requests, InOrder(r), InOrder(r)',
         execution[r].status # "absent"
  PROVE  /\ SameDecision(execution[r], execution'[r]) /\ execution'[r].status # "absent"
         /\ execution'[r].status = "denied" <=> execution[r].status = "denied"
         /\ Authorised(r) \in Nat /\ Authorised(r)' \in Nat /\ Authorised(r)' <= Authorised(r)
<1> DEFINE e == execution[r]
           f == execution'[r]
           m == e.payload.mandate
<1>1. /\ e \in ExecutionRow /\ CostsInOrder(e, resolution[r].kind)
      /\ f \in ExecutionRow /\ CostsInOrder(f, resolution'[r].kind)
  BY DEF TypeOK, StoreTypeOK, InOrder
<1>2. Authorised(r) = Smaller(Spend(e), e.reserved) /\ Authorised(r)' = Smaller(Spend(f), f.reserved)
  BY DEF Authorised
<1> HIDE DEF e, f, m
<1>3. Smaller(Spend(e), e.reserved) \in Nat /\ Smaller(Spend(f), f.reserved) \in Nat
  BY <1>1, RowSpend
<1>4. f = e \/ MovesOn(e, f)
  BY RowStep DEF Decide, AdmitNew, e, f
<1>5. CASE f = e
  BY <1>2, <1>3, <1>5 DEF SameDecision, e, f
<1>6. CASE MovesOn(e, f)
  <2>1. WeightOf(m, f) <= WeightOf(m, e)
    BY <1>1, <1>6, WeightMovesOn
  <2>2. WeightOf(m, f) = Smaller(Spend(f), f.reserved) /\ WeightOf(m, e) = Smaller(Spend(e), e.reserved)
    BY <1>6 DEF WeightOf, MovesOn, SameDecision, m
  <2> QED
    BY <1>2, <1>3, <1>6, <2>1, <2>2 DEF MovesOn, e, f
<1> QED
  BY <1>4, <1>5, <1>6

LEMMA NewRowStep ==
  ASSUME TypeOK, [Next]_vars, NEW r \in Requests, execution[r].status = "absent",
         execution'[r].status # "absent"
  PROVE  \E w \in Workers : Decide(w) /\ worker[w].request = r
BY RowStep DEF MovesOn

-----------------------------------------------------------------------------
(* The rolling ceilings. *)
LEMMA EnforcedReasons ==
  ASSUME NEW p, NEW i, EvaluatePolicy(p, i).outcome = "ALLOW", p.mode = "enforce"
  PROVE  ~(i.spentHour + i.cost > p.hourly) /\ ~(i.requestsLastMinute >= p.rate)
<1>1. Reasons(p, i) = {}
  BY DEF EvaluatePolicy, Denied
<1>2. ~Raises(p, i, "HOURLY_LIMIT_EXCEEDED") /\ ~Raises(p, i, "RATE_LIMIT_EXCEEDED")
  BY <1>1 DEF Reasons, ReasonCodes, SoftDenials
<1> QED
  BY <1>2 DEF Raises

LEMMA EnforcedFacts ==
  ASSUME StoreTypeOK, NEW r \in Requests, NEW p \in Payloads, NEW t \in Nat, AdmitNew(r, p, t),
         execution'[r].status = "executing", NEW v \in Policies, execution'[r].policy = v,
         PolicyOf[v].mode = "enforce"
  PROVE  /\ SpentSince(p.mandate, t - Hour) + p.cost <= PolicyOf[v].hourly
         /\ Cardinality(AdmittedSince(p.mandate, t - Minute)) < PolicyOf[v].rate
<1> DEFINE m == p.mandate
           i == EvaluationInput(p, t)
           allowed == Decision(p, t).outcome = "ALLOW"
           row == [ status    |-> IF allowed THEN "executing" ELSE "denied",
                    payload   |-> p,
                    policy    |-> mandate[p.mandate].policy,
                    reserved  |-> IF allowed THEN p.cost ELSE 0,
                    actual    |-> Unknown,
                    failure   |-> "none",
                    answered  |-> FALSE,
                    createdAt |-> t ]
<1>1. execution'[r] = row
  BY DEF AdmitNew, StoreTypeOK
<1>2. allowed /\ mandate[m].policy = v
  <2> HIDE DEF allowed
  <2> QED
    BY <1>1
<1>3. EvaluatePolicy(PolicyOf[v], i).outcome = "ALLOW"
  BY <1>2 DEF Decision
<1>4. /\ i.spentHour = SpentSince(m, t - Hour) /\ i.cost = p.cost
      /\ i.requestsLastMinute = Cardinality(AdmittedSince(m, t - Minute))
  BY DEF EvaluationInput
<1> HIDE DEF i
<1>5. /\ ~(SpentSince(m, t - Hour) + p.cost > PolicyOf[v].hourly)
      /\ ~(Cardinality(AdmittedSince(m, t - Minute)) >= PolicyOf[v].rate)
  BY <1>3, <1>4, EnforcedReasons
<1>6. SpentSince(m, t - Hour) \in Nat
  BY RequestsAssumption, UnitsFinite DEF SpentSince
<1>7. Cardinality(AdmittedSince(m, t - Minute)) \in Nat
  <2>1. AdmittedSince(m, t - Minute) \in SUBSET Requests
    BY DEF AdmittedSince
  <2> QED
    BY <2>1, RequestsAssumption, FS_Subset, FS_CardinalityType
<1>8. p.cost \in Nat /\ PolicyOf[v].hourly \in Nat /\ PolicyOf[v].rate \in Nat
  BY PayloadAssumption, PolicyAssumption, MaxAmountAssumption DEF Amount
<1> HIDE DEF m
<1> QED
  BY <1>5, <1>6, <1>7, <1>8 DEF m

(* A window after a step: the rows it had, and the one a call decides.  *)
LEMMA WindowStep ==
  ASSUME TypeOK, TypeOK', [Next]_vars, \A r \in Requests : InOrder(r) /\ InOrder(r)',
         NEW m, NEW t, NEW width, NEW v, Governs(v, InWindow(m, t, width))'
  PROVE  /\ Governs(v, InWindow(m, t, width))
         /\ \A r \in InWindow(m, t, width) :
              Authorised(r) \in Nat /\ Authorised(r)' \in Nat /\ Authorised(r)' <= Authorised(r)
         /\ \A r \in InWindow(m, t, width)' \ InWindow(m, t, width) :
              execution[r].status = "absent"
<1>1. ASSUME NEW r \in InWindow(m, t, width)
      PROVE  /\ r \in InWindow(m, t, width)' /\ execution[r].policy = execution'[r].policy
             /\ Authorised(r) \in Nat /\ Authorised(r)' \in Nat /\ Authorised(r)' <= Authorised(r)
  <2>1. r \in Requests /\ execution[r].status # "absent"
    BY DEF InWindow, RowOf
  <2>2. /\ SameDecision(execution[r], execution'[r]) /\ execution'[r].status # "absent"
        /\ execution'[r].status = "denied" <=> execution[r].status = "denied"
        /\ Authorised(r) \in Nat /\ Authorised(r)' \in Nat /\ Authorised(r)' <= Authorised(r)
    BY <2>1, KnownRowStep
  <2> QED
    BY <2>1, <2>2 DEF InWindow, RowOf, SameDecision
<1>2. Governs(v, InWindow(m, t, width))
  BY <1>1 DEF Governs
<1>3. ASSUME NEW r \in InWindow(m, t, width)', execution[r].status # "absent"
      PROVE  r \in InWindow(m, t, width)
  <2>1. r \in Requests
    BY DEF InWindow
  <2>2. /\ SameDecision(execution[r], execution'[r])
        /\ execution'[r].status = "denied" <=> execution[r].status = "denied"
    BY <1>3, <2>1, KnownRowStep
  <2> QED
    BY <1>3, <2>1, <2>2 DEF InWindow, RowOf, SameDecision
<1> QED
  BY <1>1, <1>2, <1>3

(* The row a call decides is admitted under the policy that governs the      *)
(* window, at a time within it, on what the window had left.                 *)
LEMMA WindowAdmission ==
  ASSUME TypeOK, TypeOK', \A r \in Requests : InOrder(r) /\ InOrder(r)',
         NEW w \in Workers, Decide(w), NEW x, x = worker[w].request,
         NEW m, NEW t \in Int, NEW width, NEW v \in Policies,
         x \in InWindow(m, t, width)', Governs(v, InWindow(m, t, width))'
  PROVE  \E p \in Payloads, c \in Nat :
           /\ p.mandate = m /\ c \in t .. (t + width) /\ p.cost \in Amount
           /\ Authorised(x)' \in Nat /\ Authorised(x)' <= p.cost
           /\ SpentSince(m, c - Hour) + p.cost <= PolicyOf[v].hourly
           /\ Cardinality(AdmittedSince(m, c - Minute)) < PolicyOf[v].rate
<1> DEFINE p == worker[w].payload
           c == worker[w].decidedAt
<1>1. x \in Requests /\ p \in Payloads /\ c \in Nat /\ StoreTypeOK /\ AdmitNew(x, p, c)
  BY DecideFacts
<1> HIDE DEF p, c
<1>2. /\ execution'[x].payload = p
      /\ execution'[x].status = "executing" /\ execution'[x].reserved = p.cost
  BY <1>1, AdmittedFacts DEF InWindow
<1>3. execution'[x].createdAt = c
  BY <1>1 DEF AdmitNew, StoreTypeOK
<1>4. p.mandate = m /\ c \in t .. (t + width)
  BY <1>2, <1>3 DEF InWindow, RowOf
<1>5. execution'[x].policy = v /\ PolicyOf[v].mode = "enforce"
  BY DEF Governs
<1>6. /\ SpentSince(m, c - Hour) + p.cost <= PolicyOf[v].hourly
      /\ Cardinality(AdmittedSince(m, c - Minute)) < PolicyOf[v].rate
  BY <1>1, <1>2, <1>4, <1>5, EnforcedFacts
<1>7. Authorised(x)' \in Nat /\ Authorised(x)' <= p.cost
  <2>1. execution'[x] \in ExecutionRow /\ CostsInOrder(execution'[x], resolution'[x].kind)
    BY <1>1 DEF TypeOK, StoreTypeOK, InOrder
  <2> QED
    BY <1>2, <2>1, RowSpend DEF Authorised
<1>8. p.cost \in Amount
  BY <1>1, PayloadAssumption
<1> QED
  BY <1>1, <1>4, <1>6, <1>7, <1>8

(* What a call counts at a time in the window covers what the window holds.  *)
LEMMA WindowCounted ==
  ASSUME TypeOK, \A r \in Requests : InOrder(r), NEW m, NEW t \in Int, NEW c \in Int
  PROVE  /\ c <= t + Hour => Total([r \in Requests |-> Authorised(r)], InWindow(m, t, Hour))
                               <= SpentSince(m, c - Hour)
         /\ c <= t + Minute => InWindow(m, t, Minute) \subseteq AdmittedSince(m, c - Minute)
<1>1. Hour \in Nat /\ Minute \in Nat
  BY TimeAssumption
<1>2. ASSUME NEW r \in Requests
      PROVE  /\ execution[r].createdAt \in Nat /\ Spend(execution[r]) \in Nat
             /\ Authorised(r) \in Nat /\ Authorised(r) <= Spend(execution[r])
  <2>1. execution[r] \in ExecutionRow /\ CostsInOrder(execution[r], resolution[r].kind)
    BY DEF TypeOK, StoreTypeOK, InOrder
  <2> QED
    BY <2>1, RowSpend DEF Authorised, ExecutionRow
<1>3. ASSUME c <= t + Hour
      PROVE  Total([r \in Requests |-> Authorised(r)], InWindow(m, t, Hour))
               <= SpentSince(m, c - Hour)
  <2> DEFINE f == [r \in Requests |-> IF RowOf(m, r) /\ execution[r].createdAt >= c - Hour
                                       THEN Spend(execution[r]) ELSE 0]
             g == [r \in Requests |-> Authorised(r)]
             W == InWindow(m, t, Hour)
  <2>1. W \in SUBSET Requests /\ SpentSince(m, c - Hour) = Total(f, Requests)
    BY DEF InWindow, SpentSince
  <2>2. \A r \in Requests : f[r] \in Nat
    BY <1>2
  <2>3. ASSUME NEW r \in W
        PROVE  g[r] \in Nat /\ g[r] <= f[r]
    <3>1. /\ r \in Requests /\ RowOf(m, r) /\ execution[r].createdAt \in t .. (t + Hour)
      BY DEF InWindow
    <3>2. execution[r].createdAt >= c - Hour
      BY <1>1, <1>2, <1>3, <3>1
    <3> QED
      BY <1>2, <3>1, <3>2
  <2> HIDE DEF f, g, W
  <2>4. Total(g, W) <= Total(f, Requests)
    BY <2>1, <2>2, <2>3, RequestsAssumption, TotalWithin
  <2> QED
    BY <2>1, <2>4 DEF g, W
<1>4. ASSUME c <= t + Minute
      PROVE  InWindow(m, t, Minute) \subseteq AdmittedSince(m, c - Minute)
  BY <1>1, <1>2, <1>4 DEF InWindow, AdmittedSince
<1> QED
  BY <1>3, <1>4

LEMMA DecidesOne ==
  ASSUME TypeOK, NEW w \in Workers, Decide(w), NEW r \in Requests, execution[r].status = "absent",
         execution'[r].status # "absent"
  PROVE  r = worker[w].request
BY DecideFacts, AdmittedFacts

(* A window that grows does so by the one row a call decides. *)
LEMMA WindowGrows ==
  ASSUME TypeOK, TypeOK', [Next]_vars, \A r \in Requests : InOrder(r) /\ InOrder(r)',
         NEW m, NEW t \in Int, NEW width, NEW v \in Policies,
         Governs(v, InWindow(m, t, width))'
  PROVE  \/ InWindow(m, t, width)' \subseteq InWindow(m, t, width)
         \/ \E x \in Requests, p \in Payloads, c \in Nat :
              /\ InWindow(m, t, width)' \subseteq InWindow(m, t, width) \cup {x}
              /\ c \in t .. (t + width) /\ p.cost \in Amount
              /\ Authorised(x)' \in Nat /\ Authorised(x)' <= p.cost
              /\ SpentSince(m, c - Hour) + p.cost <= PolicyOf[v].hourly
              /\ Cardinality(AdmittedSince(m, c - Minute)) < PolicyOf[v].rate
<1> SUFFICES ASSUME NEW x \in InWindow(m, t, width)', x \notin InWindow(m, t, width)
             PROVE  \E p \in Payloads, c \in Nat :
                      /\ InWindow(m, t, width)' \subseteq InWindow(m, t, width) \cup {x}
                      /\ c \in t .. (t + width) /\ p.cost \in Amount
                      /\ Authorised(x)' \in Nat /\ Authorised(x)' <= p.cost
                      /\ SpentSince(m, c - Hour) + p.cost <= PolicyOf[v].hourly
                      /\ Cardinality(AdmittedSince(m, c - Minute)) < PolicyOf[v].rate
  BY DEF InWindow
<1>1. ASSUME NEW y \in InWindow(m, t, width)', y \notin InWindow(m, t, width)
      PROVE  /\ y \in Requests /\ execution[y].status = "absent"
             /\ execution'[y].status # "absent"
  <2>1. execution[y].status = "absent"
    BY <1>1, WindowStep
  <2> QED
    BY <2>1 DEF InWindow, RowOf
<1>2. PICK w \in Workers : Decide(w) /\ worker[w].request = x
  BY <1>1, NewRowStep
<1>3. InWindow(m, t, width)' \subseteq InWindow(m, t, width) \cup {x}
  BY <1>1, <1>2, DecidesOne
<1> QED
  BY <1>2, <1>3, WindowAdmission

LEMMA CeilingsStep ==
  ASSUME TypeOK, TypeOK', BudgetInv, BudgetInv', RollingCeilings, [Next]_vars
  PROVE  RollingCeilings'
<1>1. \A r \in Requests : InOrder(r) /\ InOrder(r)'
  BY DEF BudgetInv
<1>2. ASSUME NEW m \in Mandates, NEW v \in Policies, NEW t \in 0 .. MaxTime,
             Governs(v, InWindow(m, t, Hour))'
      PROVE  (Total([r \in Requests |-> Authorised(r)], InWindow(m, t, Hour)))'
               <= PolicyOf[v].hourly
  <2> DEFINE A == InWindow(m, t, Hour)
             B == InWindow(m, t, Hour)'
             f == [r \in Requests |-> Authorised(r)]
             g == [r \in Requests |-> Authorised(r)']
  <2>1. /\ A \in SUBSET Requests /\ B \in SUBSET Requests /\ t \in Int
        /\ (Total([r \in Requests |-> Authorised(r)], InWindow(m, t, Hour)))' = Total(g, B)
        /\ PolicyOf[v].hourly \in Nat
    BY PolicyAssumption DEF InWindow
  <2>2. /\ Total(f, A) <= PolicyOf[v].hourly
        /\ \A r \in A : f[r] \in Nat /\ g[r] \in Nat /\ g[r] <= f[r]
    <3>1. Governs(v, InWindow(m, t, Hour))
      BY <1>1, <1>2, WindowStep
    <3>2. Total(f, A) <= PolicyOf[v].hourly
      BY <3>1 DEF RollingCeilings
    <3>3. \A r \in A : Authorised(r) \in Nat /\ Authorised(r)' \in Nat /\ Authorised(r)' <= Authorised(r)
      BY <1>1, <1>2, WindowStep
    <3> QED
      BY <2>1, <3>2, <3>3
  <2>3. Total(f, A) \in Nat /\ Total(g, B) \in Nat
    BY <2>1, RequestsAssumption, FS_Subset, UnitsFinite
  <2>4. CASE B \subseteq A
    <3> HIDE DEF A, B, f, g
    <3>1. Total(g, B) <= Total(f, A)
      BY <2>1, <2>2, <2>4, RequestsAssumption, TotalWithin
    <3> QED
      BY <2>1, <2>2, <2>3, <3>1
  <2>5. ASSUME NEW x \in Requests, NEW p \in Payloads, NEW c \in Nat,
               B \subseteq A \cup {x}, c \in t .. (t + Hour), p.cost \in Amount,
               Authorised(x)' \in Nat, Authorised(x)' <= p.cost,
               SpentSince(m, c - Hour) + p.cost <= PolicyOf[v].hourly
        PROVE  Total(g, B) <= PolicyOf[v].hourly
    <3>1. Total(f, A) <= SpentSince(m, c - Hour)
      BY <1>1, <2>1, <2>5, WindowCounted
    <3>2. g[x] \in Nat /\ g[x] <= p.cost /\ p.cost \in Nat /\ SpentSince(m, c - Hour) \in Nat
      BY <2>5, RequestsAssumption, UnitsFinite, MaxAmountAssumption DEF SpentSince, Amount
    <3> HIDE DEF A, B, f, g
    <3>3. /\ \A y \in A : f[y] \in Nat
          /\ \A y \in B : g[y] \in Nat /\ (y # x => g[y] <= f[y])
          /\ x \in B => g[x] <= p.cost
      BY <2>2, <2>5, <3>2
    <3>4. Total(g, B) <= Total(f, A) + p.cost
      BY <2>1, <2>5, <3>3, RequestsAssumption, TotalAdmit
    <3> QED
      BY <2>1, <2>3, <2>5, <3>1, <3>2, <3>4
  <2> HIDE DEF f, g
  <2> QED
    BY <1>1, <1>2, <2>1, <2>4, <2>5, WindowGrows
<1>3. ASSUME NEW m \in Mandates, NEW v \in Policies, NEW t \in 0 .. MaxTime,
             Governs(v, InWindow(m, t, Minute))'
      PROVE  Cardinality(InWindow(m, t, Minute)') <= PolicyOf[v].rate
  <2> DEFINE A == InWindow(m, t, Minute)
             B == InWindow(m, t, Minute)'
  <2>1. /\ A \in SUBSET Requests /\ B \in SUBSET Requests /\ t \in Int
        /\ PolicyOf[v].rate \in Nat
    BY PolicyAssumption DEF InWindow
  <2>2. Cardinality(A) <= PolicyOf[v].rate
    BY <1>1, <1>3, WindowStep DEF RollingCeilings
  <2>3. /\ IsFiniteSet(A) /\ Cardinality(A) \in Nat
        /\ IsFiniteSet(B) /\ Cardinality(B) \in Nat
    BY <2>1, RequestsAssumption, FS_Subset, FS_CardinalityType
  <2>4. CASE B \subseteq A
    <3>1. Cardinality(B) <= Cardinality(A)
      BY <2>3, <2>4, FS_Subset
    <3> QED
      BY <2>1, <2>2, <2>3, <3>1
  <2>5. ASSUME NEW x \in Requests, NEW c \in Nat, B \subseteq A \cup {x}, c \in t .. (t + Minute),
               Cardinality(AdmittedSince(m, c - Minute)) < PolicyOf[v].rate
        PROVE  Cardinality(B) <= PolicyOf[v].rate
    <3> DEFINE N == AdmittedSince(m, c - Minute)
    <3>1. A \subseteq N
      <4>1. c <= t + Minute /\ c \in Int /\ t \in Int
        BY <2>1, <2>5, TimeAssumption
      <4> QED
        BY <1>1, <4>1, WindowCounted
    <3>2. N \in SUBSET Requests
      BY DEF AdmittedSince
    <3>3. IsFiniteSet(N) /\ Cardinality(N) \in Nat /\ Cardinality(N) < PolicyOf[v].rate
      BY <2>5, <3>2, RequestsAssumption, FS_Subset, FS_CardinalityType
    <3> HIDE DEF A, B, N
    <3>4. Cardinality(A) <= Cardinality(N)
      BY <3>1, <3>3, FS_Subset
    <3>5. /\ IsFiniteSet(A \cup {x}) /\ Cardinality(A \cup {x}) \in Nat
          /\ Cardinality(A \cup {x}) <= Cardinality(A) + 1
      <4>1. /\ IsFiniteSet(A \cup {x})
            /\ Cardinality(A \cup {x}) \in {Cardinality(A), Cardinality(A) + 1}
        BY <2>3, FS_AddElement
      <4> QED
        BY <2>3, <4>1
    <3>6. Cardinality(B) <= Cardinality(A \cup {x})
      BY <2>5, <3>5, FS_Subset
    <3> QED
      BY <2>1, <2>3, <3>3, <3>4, <3>5, <3>6
  <2> QED
    BY <1>1, <1>3, <2>1, <2>4, <2>5, WindowGrows
<1> QED
  BY <1>2, <1>3 DEF RollingCeilings

LEMMA CeilingsStart == Init => RollingCeilings
<1> SUFFICES ASSUME Init, NEW m \in Mandates, NEW v \in Policies, NEW t \in 0 .. MaxTime
             PROVE  /\ Total([r \in Requests |-> Authorised(r)], InWindow(m, t, Hour)) <= PolicyOf[v].hourly
                    /\ Cardinality(InWindow(m, t, Minute)) <= PolicyOf[v].rate
  BY DEF RollingCeilings
<1>1. InWindow(m, t, Hour) = {} /\ InWindow(m, t, Minute) = {}
  BY DEF Init, StoreInit, NoExecution, InWindow, RowOf
<1>2. \A f : Units(f, {}) = {}
  BY DEF Units
<1>3. PolicyOf[v].hourly \in Nat /\ PolicyOf[v].rate \in Nat
  BY PolicyAssumption
<1> QED
  BY <1>1, <1>2, <1>3, FS_EmptySet DEF Total

(* The hourly and per-minute ceilings of an enforcing policy hold over every *)
(* window of row times, however old the clocks are that callers decide by.   *)
THEOREM CeilingsHold == Spec => []RollingCeilings
<1>1. TypeOK /\ TypeOK' /\ BudgetInv /\ BudgetInv' /\ RollingCeilings /\ [Next]_vars
        => RollingCeilings'
  BY CeilingsStep
<1> QED
  BY <1>1, CeilingsStart, TypeCorrect, BudgetInductive, PTL DEF Spec

-----------------------------------------------------------------------------
(* Delegation.  A branch was cut from an existing mandate under a version it *)
(* had, and a request admitted on a branch was found to be its mandate's.    *)
AdmittedOn(r, b) ==
  /\ execution[r].status \notin {"absent", "denied"} /\ ScopedPolicy(execution[r].policy)
  /\ \E s \in execution[r].payload.scope : s.branch = b

DelegationInv ==
  /\ DelegationNarrows
  /\ \A m \in Mandates : Exists(m) => mandate[m].policy \in Policies
  /\ \A b \in Branches : Delegates(b) =>
       /\ branch[b].mandate \in Mandates /\ Exists(branch[b].mandate)
       /\ branch[b].policy \in Policies
       /\ branch[b].classes \subseteq DOMAIN PolicyOf[branch[b].policy].classes
  /\ \A r \in Requests, b \in Branches :
       AdmittedOn(r, b) => branch[b].mandate = execution[r].payload.mandate

LEMMA BranchStep ==
  ASSUME [Next]_vars
  PROVE  \/ UNCHANGED branch
         \/ \E m \in Mandates, b \in Branches, new \in BranchInputs : CreateBranch(m, b, new, now)
<1>1. CASE Administer
  BY <1>1 DEF Administer, Transition, PublishPolicy, CreateMandate, AssignAgent,
              SetMandatePolicy, TransitionMandateState
<1>2. CASE Resolve
  BY <1>2 DEF Resolve, ResolveReconciliation
<1>3. ASSUME NEW w \in Workers, WorkerStep(w) \/ Crash(w)
      PROVE  UNCHANGED branch
  BY <1>3 DEF WorkerStep, Admit, AdmitRead, Refuse, Decide, AdmitNew, Collide, Replay,
              ExpireLease, AdmitExpired, AdmitNothing, Dispatch, NotDispatched, AnswerLost,
              Answer, Complete, CompletionUnacknowledged, CompleteInference, CompleteOverrun,
              RejectAnswer, CompletionThrows, RecordHold, HoldInference, RecordFailure,
              FailInference, TooLate, Crash, storeVars
<1>4. CASE \/ \E w \in Workers, r \in Requests, p \in Payloads : Arrive(w, r, p)
           \/ Tick \/ UNCHANGED vars
  BY <1>4 DEF Arrive, Tick, vars, storeVars
<1> QED
  BY <1>1, <1>2, <1>3, <1>4 DEF Next, Operate

(* A branch that delegates is never cut again. *)
LEMMA BranchStays ==
  ASSUME StoreTypeOK, [Next]_vars, NEW b \in Branches, Delegates(b)
  PROVE  branch'[b] = branch[b]
<1>1. ASSUME NEW m \in Mandates, NEW c \in Branches, NEW new \in BranchInputs,
             CreateBranch(m, c, new, now)
      PROVE  branch'[b] = branch[b]
  <2>1. c # b
    BY <1>1 DEF CreateBranch, Delegates, NoBranch
  <2> QED
    BY <1>1, <2>1 DEF CreateBranch, StoreTypeOK
<1> QED
  BY <1>1, BranchStep

(* What is cut: the new branch, and the branches there were. *)
NewBranch(m, new) ==
  [ mandate |-> m, policy |-> mandate[m].policy, parent |-> new.parent, agent |-> new.agent,
    classes |-> new.classes, maximum |-> new.maximum, expiresAt |-> new.expiresAt ]

LEMMA CutFacts ==
  ASSUME StoreTypeOK, NEW m \in Mandates, NEW b \in Branches, NEW new \in BranchInputs,
         CreateBranch(m, b, new, now)
  PROVE  /\ branch'[b] = NewBranch(m, new)
         /\ \A c \in Branches \ {b} : branch'[c] = branch[c]
         /\ ~Delegates(b) /\ branch[b].parent = {} /\ Exists(m)
         /\ UNCHANGED <<mandate, execution, resolution>>
         /\ new.maximum <= mandate[m].maximum /\ new.maximum \in Nat
         /\ new.classes \subseteq DOMAIN PolicyOf[mandate[m].policy].classes
         /\ new.parent \subseteq Branches
         /\ \A p \in new.parent : WithinParent(m, new, p)
<1>1. branch' = [branch EXCEPT ![b] = NewBranch(m, new)] /\ branch[b] = NoBranch
  BY DEF CreateBranch, NewBranch
<1>2. /\ new.maximum \in Amount /\ new.parent \subseteq Branches
      /\ new.maximum \in Nat
  BY BoundsAssumption, MaxAmountAssumption DEF Amount
<1> QED
  BY <1>1, <1>2 DEF CreateBranch, StoreTypeOK, NoBranch, Delegates

LEMMA DelegatedType ==
  ASSUME NEW m, NEW b
  PROVE  Delegated(m, b) \in Nat /\ Delegated(m, b)' \in Nat
<1>1. Children(m, b) \in SUBSET Branches /\ Children(m, b)' \in SUBSET Branches
  BY DEF Children
<1>2. IsFiniteSet(Children(m, b)) /\ IsFiniteSet(Children(m, b)')
  BY <1>1, BranchesAssumption, FS_Subset
<1> QED
  BY <1>2, UnitsFinite DEF Delegated

LEMMA NoChildren ==
  ASSUME NEW m, NEW b
  PROVE  /\ Children(m, b) = {} => Delegated(m, b) = 0
         /\ Children(m, b)' = {} => Delegated(m, b)' = 0
<1>1. \A f : Units(f, {}) = {}
  BY DEF Units
<1> QED
  BY <1>1, FS_EmptySet DEF Delegated, Total

(* What the children of a branch share after a cut. *)
LEMMA SharesStep ==
  ASSUME StoreTypeOK, DelegationInv, NEW m \in Mandates, NEW b \in Branches,
         NEW new \in BranchInputs, CreateBranch(m, b, new, now),
         NEW c \in Branches, c # b, Delegates(c)
  PROVE  (Delegated(branch[c].mandate, c))' <= branch[c].maximum
<1> DEFINE n == branch[c].mandate
           A == Children(n, c)
           B == Children(n, c)'
           f == [x \in Branches |-> branch[x].maximum]
           g == [x \in Branches |-> branch'[x].maximum]
<1>1. /\ branch'[b] = NewBranch(m, new) /\ ~Delegates(b) /\ branch'[c] = branch[c]
      /\ \A x \in Branches \ {b} : branch'[x] = branch[x]
      /\ \A p \in new.parent : WithinParent(m, new, p)
      /\ new.maximum \in Nat
  BY CutFacts
<1>2. \A x \in Branches : branch[x].maximum \in Nat
  BY MaxAmountAssumption DEF StoreTypeOK, BranchRow, Amount
<1>3. /\ A \in SUBSET Branches /\ B \in SUBSET Branches
      /\ Delegated(n, c) = Total(f, A) /\ Delegated(n, c)' = Total(g, B)
  BY <1>1 DEF Children, Delegated
<1>4. Delegated(n, c) \in Nat /\ Delegated(n, c)' \in Nat /\ Delegated(n, c) <= branch[c].maximum
  BY DelegatedType DEF DelegationInv, DelegationNarrows
<1>5. \A x \in B : x \in A \/ x = b
  BY <1>1, <1>3 DEF Children
<1>6. b \in B => new.parent = {c} /\ n = m
  BY <1>1 DEF Children, NewBranch
<1>7. /\ \A x \in Branches : f[x] \in Nat
      /\ \A x \in Branches \ {b} : g[x] = f[x]
      /\ g[b] = new.maximum
  BY <1>1, <1>2 DEF NewBranch
<1> HIDE DEF A, B, f, g
<1>8. CASE b \notin B
  <2>1. B \in SUBSET A /\ (\A x \in A : f[x] \in Nat) /\ (\A x \in B : g[x] \in Nat /\ g[x] <= f[x])
    BY <1>3, <1>5, <1>7, <1>8
  <2>2. Total(g, B) <= Total(f, A)
    BY <1>3, <2>1, BranchesAssumption, TotalWithin
  <2> QED
    BY <1>2, <1>3, <1>4, <2>2
<1>9. CASE b \in B
  <2>1. /\ new.maximum + Delegated(m, c) <= branch[c].maximum /\ n = m
        /\ new.maximum \in Amount
    <3>1. new.maximum \in Amount
      BY BoundsAssumption
    <3> QED
      BY <1>1, <1>6, <1>9, <3>1 DEF WithinParent
  <2>2. /\ B \in SUBSET (A \cup {b}) /\ (\A x \in A : f[x] \in Nat)
        /\ (\A x \in B : g[x] \in Nat /\ (x # b => g[x] <= f[x]))
        /\ g[b] <= new.maximum
    BY <1>1, <1>3, <1>5, <1>7
  <2>3. Total(g, B) <= Total(f, A) + new.maximum
    BY <1>3, <2>1, <2>2, BranchesAssumption, TotalAdmit
  <2> QED
    BY <1>1, <1>2, <1>3, <1>4, <2>1, <2>3
<1> QED
  BY <1>8, <1>9

LEMMA NarrowsCut ==
  ASSUME StoreTypeOK, DelegationInv, NEW m \in Mandates, NEW b \in Branches,
         NEW new \in BranchInputs, CreateBranch(m, b, new, now)
  PROVE  DelegationNarrows'
<1>1. /\ branch'[b] = NewBranch(m, new) /\ ~Delegates(b) /\ branch[b].mandate = NoMandate
      /\ \A x \in Branches \ {b} : branch'[x] = branch[x]
      /\ UNCHANGED <<mandate, execution, resolution>>
      /\ new.maximum <= mandate[m].maximum /\ new.maximum \in Nat /\ new.parent \subseteq Branches
      /\ \A p \in new.parent : WithinParent(m, new, p)
      /\ m # NoMandate
  BY CutFacts, BranchesAssumption DEF Delegates
<1>2. \A p \in new.parent : p # b
  BY <1>1 DEF WithinParent
<1>3. \A c \in Branches : Delegates(c) => branch[c].mandate \in Mandates /\ b \notin branch[c].parent
  BY <1>1, BranchesAssumption DEF DelegationInv, DelegationNarrows, Delegates
<1>4. Children(m, b)' = {}
  <2> SUFFICES ASSUME NEW c \in Branches, branch'[c].mandate = m, branch'[c].parent = {b}
               PROVE  FALSE
    BY DEF Children
  <2>1. c # b
    BY <1>1, <1>2 DEF NewBranch
  <2>2. Delegates(c) /\ branch[c].parent = {b}
    BY <1>1, <2>1 DEF Delegates
  <2> QED
    BY <1>3, <2>2
<1>5. branch'[b].maximum = new.maximum /\ branch'[b].mandate = m /\ branch'[b].parent = new.parent
  BY <1>1 DEF NewBranch
<1>6. /\ (Delegated(branch[b].mandate, b))' <= branch'[b].maximum
      /\ branch'[b].maximum <= mandate'[branch'[b].mandate].maximum
      /\ \A p \in branch'[b].parent :
           /\ branch'[p].mandate = branch'[b].mandate
           /\ branch'[p].policy = branch'[b].policy
           /\ branch'[b].classes \subseteq branch'[p].classes
           /\ NoLater(branch'[b].expiresAt, branch'[p].expiresAt)
  <2>1. Delegated(m, b)' = 0
    BY <1>4, NoChildren
  <2>2. \A p \in new.parent : branch'[p] = branch[p] /\ WithinParent(m, new, p)
    BY <1>1, <1>2
  <2> QED
    BY <1>1, <1>5, <2>1, <2>2 DEF NewBranch, WithinParent
<1>7. ASSUME NEW c \in Branches, c # b, Delegates(c)
      PROVE  /\ (Delegated(branch[c].mandate, c))' <= branch'[c].maximum
             /\ branch'[c].maximum <= mandate'[branch'[c].mandate].maximum
             /\ \A p \in branch'[c].parent :
                  /\ branch'[p].mandate = branch'[c].mandate
                  /\ branch'[p].policy = branch'[c].policy
                  /\ branch'[c].classes \subseteq branch'[p].classes
                  /\ NoLater(branch'[c].expiresAt, branch'[p].expiresAt)
  <2>1. branch'[c] = branch[c] /\ \A p \in branch[c].parent : branch'[p] = branch[p]
    <3>1. branch[c].parent \subseteq Branches
      BY DEF StoreTypeOK, BranchRow
    <3> QED
      BY <1>1, <1>3, <1>7, <3>1
  <2>2. (Delegated(branch[c].mandate, c))' <= branch[c].maximum
    BY <1>7, SharesStep
  <2> QED
    BY <1>1, <1>7, <2>1, <2>2 DEF DelegationInv, DelegationNarrows
<1> QED
  BY <1>1, <1>6, <1>7 DEF DelegationNarrows, Delegates

(* What an admission found of the branch and the class of a request. *)
LEMMA ScopedReasons ==
  ASSUME NEW p, NEW i, EvaluatePolicy(p, i).outcome = "ALLOW", DOMAIN p.classes # {}
  PROVE  /\ i.workload # {}
         /\ \A w \in i.workload :
              /\ w.branchAuthorized /\ ~(w.branchSpent + i.cost > w.branchMaximum)
              /\ w.classAuthorized /\ w.class \in DOMAIN p.classes
              /\ ~(w.classInvocations >= p.classes[w.class].invocations)
              /\ ~(w.classSpent + i.cost > p.classes[w.class].budget)
<1>1. Reasons(p, i) \cap HardDenials = {}
  BY DEF EvaluatePolicy, Denied
<1>2. \A r \in HardDenials : ~Raises(p, i, r)
  BY <1>1 DEF Reasons, ReasonCodes
<1>3. \A r \in HardDenials : ~WorkloadReason(p, i, r)
  BY <1>2 DEF Raises
<1>4. i.workload # {}
  BY <1>3 DEF WorkloadReason, HardDenials
<1>5. ASSUME NEW w \in i.workload
      PROVE  /\ w.branchAuthorized
             /\ \A r \in HardDenials : ~BranchReason(p, i, w, r)
  BY <1>3 DEF WorkloadReason, HardDenials
<1>6. ASSUME NEW w \in i.workload
      PROVE  /\ ~(w.branchSpent + i.cost > w.branchMaximum)
             /\ w.classAuthorized /\ w.class \in DOMAIN p.classes
             /\ \A r \in HardDenials : ~ClassReason(p.classes[w.class], i, w, r)
  BY <1>5 DEF BranchReason, HardDenials
<1> QED
  BY <1>4, <1>5, <1>6 DEF ClassReason, HardDenials

LEMMA ScopedFacts ==
  ASSUME StoreTypeOK, NEW r \in Requests, NEW p \in Payloads, NEW t \in Nat, AdmitNew(r, p, t),
         execution'[r].status = "executing", ScopedPolicy(execution'[r].policy), NEW s \in p.scope
  PROVE  LET b == branch[s.branch]
             class == PolicyOf[b.policy].classes[s.class]
         IN /\ s.branch \in Branches /\ b.mandate = p.mandate /\ execution'[r].policy = b.policy
            /\ SpentOn(BranchRows(p.mandate, s.branch)) + p.cost <= b.maximum
            /\ s.class \in b.classes /\ s.class \in DOMAIN PolicyOf[b.policy].classes
            /\ ~(Cardinality({x \in ClassRows(p.mandate, s.branch, s.class) :
                                execution[x].status # "denied"}) >= class.invocations)
            /\ ~(SpentOn(ClassRows(p.mandate, s.branch, s.class)) + p.cost > class.budget)
<1> DEFINE m == p.mandate
           i == EvaluationInput(p, t)
           allowed == Decision(p, t).outcome = "ALLOW"
           v == mandate[p.mandate].policy
           u == WorkloadInput(p, s)
           row == [ status    |-> IF allowed THEN "executing" ELSE "denied",
                    payload   |-> p,
                    policy    |-> v,
                    reserved  |-> IF allowed THEN p.cost ELSE 0,
                    actual    |-> Unknown,
                    failure   |-> "none",
                    answered  |-> FALSE,
                    createdAt |-> t ]
<1>1. execution'[r] = row
  BY DEF AdmitNew, StoreTypeOK
<1>2. allowed /\ execution'[r].policy = v
  <2> HIDE DEF allowed, v
  <2> QED
    BY <1>1
<1>3. EvaluatePolicy(PolicyOf[v], i).outcome = "ALLOW"
  BY <1>2 DEF Decision
<1>4. i.cost = p.cost /\ u \in i.workload
  BY DEF EvaluationInput
<1>5. DOMAIN PolicyOf[v].classes # {}
  BY <1>2 DEF ScopedPolicy
<1> HIDE DEF i
<1>6. /\ u.branchAuthorized /\ ~(u.branchSpent + p.cost > u.branchMaximum)
      /\ u.classAuthorized /\ u.class \in DOMAIN PolicyOf[v].classes
      /\ ~(u.classInvocations >= PolicyOf[v].classes[u.class].invocations)
      /\ ~(u.classSpent + p.cost > PolicyOf[v].classes[u.class].budget)
  BY <1>3, <1>4, <1>5, ScopedReasons
<1>7. /\ u.class = s.class
      /\ u.branchAuthorized => branch[s.branch].mandate = m /\ branch[s.branch].policy = v
      /\ branch[s.branch].mandate = m => u.branchMaximum = branch[s.branch].maximum
      /\ u.branchSpent = SpentOn(BranchRows(m, s.branch)) + Delegated(m, s.branch)
      /\ u.classAuthorized => s.class \in branch[s.branch].classes
      /\ u.classInvocations = Cardinality({x \in ClassRows(m, s.branch, s.class) :
                                             execution[x].status # "denied"})
      /\ u.classSpent = SpentOn(ClassRows(m, s.branch, s.class))
  BY DEF WorkloadInput
<1>8. SpentOn(BranchRows(m, s.branch)) \in Nat /\ Delegated(m, s.branch) \in Nat
  <2>1. BranchRows(m, s.branch) \in SUBSET Requests
    BY DEF BranchRows
  <2>2. IsFiniteSet(BranchRows(m, s.branch))
    BY <2>1, RequestsAssumption, FS_Subset
  <2>3. SpentOn(BranchRows(m, s.branch)) \in Nat
    BY <2>2, UnitsFinite DEF SpentOn
  <2> QED
    BY <2>3, DelegatedType
<1>9. s.branch \in Branches /\ p.cost \in Nat /\ branch[s.branch].maximum \in Nat
  <2>1. s.branch \in Branches /\ p.cost \in Nat
    BY ScopeAssumption, PayloadAssumption, MaxAmountAssumption DEF Amount
  <2> QED
    BY <2>1, MaxAmountAssumption DEF StoreTypeOK, BranchRow, Amount
<1> HIDE DEF u, m, v
<1>10. SpentOn(BranchRows(m, s.branch)) + p.cost <= branch[s.branch].maximum
  BY <1>6, <1>7, <1>8, <1>9
<1> QED
  BY <1>2, <1>6, <1>7, <1>9, <1>10 DEF m, v

LEMMA NarrowsKept ==
  ASSUME TypeOK, DelegationInv, [Next]_vars, UNCHANGED branch
  PROVE  DelegationNarrows'
<1> SUFFICES ASSUME NEW b \in Branches, Delegates(b)
             PROVE  /\ (Delegated(branch[b].mandate, b))' <= branch[b].maximum
                    /\ branch[b].maximum <= mandate'[branch[b].mandate].maximum
  BY DEF DelegationNarrows, DelegationInv, Delegates
<1>1. branch[b].mandate \in Mandates /\ Exists(branch[b].mandate)
  BY DEF DelegationInv
<1>2. mandate'[branch[b].mandate].maximum = mandate[branch[b].mandate].maximum
  BY <1>1, MaximumStep DEF Exists
<1>3. (Delegated(branch[b].mandate, b))' = Delegated(branch[b].mandate, b)
  BY DEF Delegated, Children
<1> QED
  BY <1>2, <1>3 DEF DelegationInv, DelegationNarrows

(* A request is found admitted on a branch since it was decided. *)
LEMMA AdmittedStep ==
  ASSUME TypeOK, TypeOK', [Next]_vars, NEW r \in Requests, InOrder(r), InOrder(r)', NEW b,
         AdmittedOn(r, b)'
  PROVE  \/ /\ AdmittedOn(r, b) /\ SameDecision(execution[r], execution'[r])
            /\ Authorised(r) \in Nat /\ Authorised(r)' \in Nat /\ Authorised(r)' <= Authorised(r)
         \/ /\ execution[r].status = "absent"
            /\ \E w \in Workers : Decide(w) /\ worker[w].request = r
<1>1. execution'[r].status \notin {"absent", "denied"}
  BY DEF AdmittedOn
<1>2. CASE execution[r].status = "absent"
  BY <1>1, <1>2, NewRowStep
<1>3. CASE execution[r].status # "absent"
  <2>1. /\ SameDecision(execution[r], execution'[r])
        /\ execution'[r].status = "denied" <=> execution[r].status = "denied"
        /\ Authorised(r) \in Nat /\ Authorised(r)' \in Nat /\ Authorised(r)' <= Authorised(r)
    BY <1>3, KnownRowStep
  <2> QED
    BY <1>1, <1>3, <2>1 DEF AdmittedOn, SameDecision
<1> QED
  BY <1>2, <1>3

(* The call that decides request x with payload p, scoped to s, found what    *)
(* the branch and its class had left.                                        *)
FoundLeft(x, p, s) ==
  LET b == branch[s.branch]
      class == PolicyOf[b.policy].classes[s.class]
  IN /\ s.branch \in Branches /\ b.mandate = p.mandate
     /\ s.class \in b.classes /\ s.class \in DOMAIN PolicyOf[b.policy].classes
     /\ p.cost \in Amount /\ Authorised(x)' \in Nat /\ Authorised(x)' <= p.cost
     /\ SpentOn(BranchRows(p.mandate, s.branch)) + p.cost <= b.maximum
     /\ ~(Cardinality({y \in ClassRows(p.mandate, s.branch, s.class) :
                         execution[y].status # "denied"}) >= class.invocations)
     /\ ~(SpentOn(ClassRows(p.mandate, s.branch, s.class)) + p.cost > class.budget)

LEMMA BranchAdmission ==
  ASSUME TypeOK, TypeOK', NEW w \in Workers, Decide(w), NEW x \in Requests,
         worker[w].request = x, InOrder(x)', NEW b, AdmittedOn(x, b)'
  PROVE  \E p \in Payloads : \E s \in p.scope :
           /\ FoundLeft(x, p, s) /\ s.branch = b /\ branch' = branch
           /\ execution'[x].payload = p
<1> DEFINE p == worker[w].payload
           t == worker[w].decidedAt
<1>1. x \in Requests /\ p \in Payloads /\ t \in Nat /\ StoreTypeOK /\ AdmitNew(x, p, t)
  BY DecideFacts
<1> HIDE DEF p, t
<1>2. /\ execution'[x].payload = p
      /\ execution'[x].status = "executing" /\ execution'[x].reserved = p.cost
  BY <1>1, AdmittedFacts DEF AdmittedOn
<1>3. ScopedPolicy(execution'[x].policy)
  BY DEF AdmittedOn, ScopedPolicy
<1>4. PICK s \in p.scope : s.branch = b
  BY <1>2 DEF AdmittedOn
<1>5. Authorised(x)' \in Nat /\ Authorised(x)' <= p.cost
  <2>1. execution'[x] \in ExecutionRow /\ CostsInOrder(execution'[x], resolution'[x].kind)
    BY <1>1 DEF TypeOK, StoreTypeOK, InOrder
  <2> QED
    BY <1>2, <2>1, RowSpend DEF Authorised
<1>6. p.cost \in Amount /\ branch' = branch
  BY <1>1, PayloadAssumption DEF AdmitNew
<1>7. FoundLeft(x, p, s)
  BY <1>1, <1>2, <1>3, <1>4, <1>5, <1>6, ScopedFacts DEF FoundLeft
<1> QED
  BY <1>1, <1>2, <1>4, <1>6, <1>7

LEMMA DelegationStep ==
  ASSUME TypeOK, TypeOK', BudgetInv, BudgetInv', DelegationInv, [Next]_vars
  PROVE  DelegationInv'
<1>1. StoreTypeOK /\ \A r \in Requests : InOrder(r) /\ InOrder(r)'
  BY DEF BudgetInv, TypeOK
<1>2. DelegationNarrows'
  BY <1>1, BranchStep, NarrowsCut, NarrowsKept
<1>3. ASSUME NEW m \in Mandates
      PROVE  /\ Exists(m) => Exists(m)'
             /\ Exists(m)' => mandate'[m].policy \in Policies
  BY MaximumStep DEF Exists, DelegationInv
<1>4. ASSUME NEW b \in Branches, Delegates(b)'
      PROVE  /\ branch'[b].mandate \in Mandates /\ Exists(branch'[b].mandate)
             /\ branch'[b].policy \in Policies
             /\ branch'[b].classes \subseteq DOMAIN PolicyOf[branch'[b].policy].classes
  <2>1. CASE Delegates(b)
    BY <1>1, <2>1, BranchStays DEF DelegationInv
  <2>2. CASE ~Delegates(b)
    <3>1. PICK m \in Mandates, c \in Branches, new \in BranchInputs : CreateBranch(m, c, new, now)
      BY <1>4, <2>2, BranchStep DEF Delegates
    <3>2. /\ branch'[c] = NewBranch(m, new) /\ Exists(m)
          /\ \A x \in Branches \ {c} : branch'[x] = branch[x]
          /\ new.classes \subseteq DOMAIN PolicyOf[mandate[m].policy].classes
      BY <1>1, <3>1, CutFacts
    <3>3. b = c
      BY <1>4, <2>2, <3>2 DEF Delegates
    <3> QED
      BY <3>2, <3>3 DEF NewBranch, DelegationInv
  <2> QED
    BY <2>1, <2>2
<1>5. ASSUME NEW r \in Requests, NEW b \in Branches, AdmittedOn(r, b)'
      PROVE  branch'[b].mandate = execution'[r].payload.mandate
  <2>1. CASE AdmittedOn(r, b) /\ SameDecision(execution[r], execution'[r])
    <3>1. branch[b].mandate = execution[r].payload.mandate
      BY <2>1 DEF DelegationInv
    <3>2. execution[r].payload \in Payloads
      BY <1>1, <2>1 DEF StoreTypeOK, AdmittedOn
    <3>3. Delegates(b)
      BY <3>1, <3>2, PayloadAssumption, BranchesAssumption DEF Delegates
    <3>4. branch'[b] = branch[b]
      BY <1>1, <3>3, BranchStays
    <3> QED
      BY <2>1, <3>1, <3>4 DEF SameDecision
  <2>2. ASSUME NEW w \in Workers, Decide(w), worker[w].request = r
        PROVE  branch'[b].mandate = execution'[r].payload.mandate
    <3>1. InOrder(r)'
      BY <1>1
    <3>2. PICK p \in Payloads : \E s \in p.scope :
            /\ FoundLeft(r, p, s) /\ s.branch = b /\ branch' = branch
            /\ execution'[r].payload = p
      BY <1>5, <2>2, <3>1, BranchAdmission
    <3> QED
      BY <3>2 DEF FoundLeft
  <2> QED
    BY <1>1, <1>5, <2>1, <2>2, AdmittedStep
<1> QED
  BY <1>2, <1>3, <1>4, <1>5 DEF DelegationInv

LEMMA DelegationStart == Init => DelegationInv
<1> SUFFICES ASSUME Init PROVE DelegationInv
  OBVIOUS
<1>1. /\ \A m \in Mandates : ~Exists(m)
      /\ \A b \in Branches : ~Delegates(b)
      /\ \A r \in Requests : execution[r].status = "absent"
  BY DEF Init, StoreInit, Exists, AbsentMandate, Delegates, NoBranch, NoExecution
<1> QED
  BY <1>1 DEF DelegationInv, DelegationNarrows, AdmittedOn

LEMMA DelegationInductive == Spec => []DelegationInv
<1>1. TypeOK /\ TypeOK' /\ BudgetInv /\ BudgetInv' /\ DelegationInv /\ [Next]_vars => DelegationInv'
  BY DelegationStep
<1> QED
  BY <1>1, DelegationStart, TypeCorrect, BudgetInductive, PTL DEF Spec

-----------------------------------------------------------------------------
(* What is spent on a branch.  A pool of requests keeps to a limit when no   *)
(* known request gets heavier and the one that joins was decided with the    *)
(* rows of the pool counted.                                                 *)
Joined(A, B, x, rows, cost) ==
  /\ B \subseteq A \cup {x} /\ A \subseteq rows /\ cost \in Amount
  /\ Authorised(x)' \in Nat /\ Authorised(x)' <= cost

Lighter(A) == \A y \in A : /\ Authorised(y) \in Nat /\ Authorised(y)' \in Nat
                           /\ Authorised(y)' <= Authorised(y)

WeightIn(B) == Total([y \in B |-> Authorised(y)'], B)

LEMMA PoolShrinks ==
  ASSUME NEW A \in SUBSET Requests, NEW B \in SUBSET A, Lighter(A), NEW limit \in Nat,
         AuthorisedOn(A) <= limit
  PROVE  WeightIn(B) <= limit
<1> DEFINE f == [y \in A |-> Authorised(y)]
           g == [y \in B |-> Authorised(y)']
<1>1. (\A y \in A : f[y] \in Nat) /\ (\A y \in B : g[y] \in Nat /\ g[y] <= f[y])
  BY DEF Lighter
<1>2. AuthorisedOn(A) = Total(f, A) /\ WeightIn(B) = Total(g, B)
  BY DEF AuthorisedOn, WeightIn
<1>3. IsFiniteSet(A) /\ IsFiniteSet(B)
  BY RequestsAssumption, FS_Subset
<1> HIDE DEF f, g
<1>4. Total(g, B) <= Total(f, A) /\ Total(f, A) \in Nat /\ Total(g, B) \in Nat
  BY <1>1, <1>3, RequestsAssumption, TotalWithin, UnitsFinite
<1> QED
  BY <1>2, <1>4

LEMMA PoolGrows ==
  ASSUME TypeOK, \A r \in Requests : InOrder(r),
         NEW A \in SUBSET Requests, NEW B \in SUBSET Requests, Lighter(A), NEW limit \in Int,
         NEW x \in Requests, NEW rows \in SUBSET Requests, NEW cost, Joined(A, B, x, rows, cost),
         ~(SpentOn(rows) + cost > limit), x \notin A
  PROVE  WeightIn(B) <= limit
<1> DEFINE f == [y \in A |-> Authorised(y)]
           g == [y \in B |-> Authorised(y)']
           h == [y \in rows |-> Spend(execution[y])]
<1>1. /\ \A y \in A : f[y] \in Nat
      /\ \A y \in B : g[y] \in Nat /\ (y # x => g[y] <= f[y])
      /\ x \in B => g[x] <= cost
  BY DEF Lighter, Joined
<1>2. ASSUME NEW y \in Requests
      PROVE  Spend(execution[y]) \in Nat /\ Authorised(y) <= Spend(execution[y])
  <2>1. execution[y] \in ExecutionRow /\ CostsInOrder(execution[y], resolution[y].kind)
    BY DEF TypeOK, StoreTypeOK, InOrder
  <2> QED
    BY <2>1, RowSpend DEF Authorised
<1>3. (\A y \in rows : h[y] \in Nat) /\ (\A y \in A : f[y] \in Nat /\ f[y] <= h[y])
  BY <1>1, <1>2 DEF Joined
<1>4. SpentOn(rows) = Total(h, rows) /\ WeightIn(B) = Total(g, B)
  BY DEF SpentOn, WeightIn
<1>5. /\ IsFiniteSet(A) /\ IsFiniteSet(B) /\ IsFiniteSet(rows) /\ B \in SUBSET (A \cup {x})
      /\ A \in SUBSET rows /\ cost \in Amount /\ cost \in Nat
  BY RequestsAssumption, FS_Subset, MaxAmountAssumption DEF Joined, Amount
<1> HIDE DEF f, g, h
<1>6. Total(g, B) <= Total(f, A) + cost
  BY <1>1, <1>5, RequestsAssumption, TotalAdmit
<1>7. Total(f, A) <= Total(h, rows)
  BY <1>3, <1>5, RequestsAssumption, TotalWithin
<1>8. Total(f, A) \in Nat /\ Total(g, B) \in Nat /\ Total(h, rows) \in Nat
  BY <1>5, UnitsFinite
<1> QED
  BY <1>4, <1>5, <1>6, <1>7, <1>8

LEMMA PoolCount ==
  ASSUME NEW A \in SUBSET Requests, NEW B \in SUBSET Requests, NEW limit \in Int,
         NEW x \in Requests, NEW rows \in SUBSET Requests,
         B \subseteq A \cup {x}, A \subseteq rows, ~(Cardinality(rows) >= limit)
  PROVE  Cardinality(B) <= limit
<1>1. /\ IsFiniteSet(A) /\ IsFiniteSet(B) /\ IsFiniteSet(rows)
      /\ Cardinality(A) \in Nat /\ Cardinality(B) \in Nat /\ Cardinality(rows) \in Nat
  BY RequestsAssumption, FS_Subset, FS_CardinalityType
<1>2. Cardinality(A) <= Cardinality(rows)
  BY <1>1, FS_Subset
<1>3. /\ IsFiniteSet(A \cup {x})
      /\ Cardinality(A \cup {x}) \in {Cardinality(A), Cardinality(A) + 1}
  BY <1>1, FS_AddElement
<1>4. Cardinality(B) <= Cardinality(A \cup {x})
  BY <1>3, FS_Subset
<1> QED
  BY <1>1, <1>2, <1>3, <1>4

LEMMA PoolsAreRequests ==
  ASSUME NEW b, NEW c
  PROVE  /\ BranchAdmissions(b) \in SUBSET Requests /\ BranchAdmissions(b)' \in SUBSET Requests
         /\ OfClass(BranchAdmissions(b), c) \in SUBSET BranchAdmissions(b)
         /\ OfClass(BranchAdmissions(b), c)' \in SUBSET BranchAdmissions(b)'
BY DEF BranchAdmissions, BranchRows, OfClass

(* A branch that delegates admits requests of its mandate. *)
LEMMA PoolOf ==
  ASSUME NEW b \in Branches
  PROVE  /\ DelegationInv => BranchAdmissions(b) = {r \in Requests : AdmittedOn(r, b)}
         /\ DelegationInv' => BranchAdmissions(b)' = {r \in Requests : AdmittedOn(r, b)'}
BY DEF BranchAdmissions, BranchRows, RowOf, AdmittedOn, DelegationInv

(* What a step does to the requests admitted on a branch: they get lighter,  *)
(* and at most the one a call decides joins them.                            *)
LEMMA PoolStep ==
  ASSUME TypeOK, TypeOK', BudgetInv, BudgetInv', DelegationInv, DelegationInv', [Next]_vars,
         NEW b \in Branches
  PROVE  /\ Lighter(BranchAdmissions(b))
         /\ \A y \in BranchAdmissions(b)' \cap BranchAdmissions(b) :
              execution'[y].payload = execution[y].payload
         /\ \/ BranchAdmissions(b)' \subseteq BranchAdmissions(b)
            \/ \E x \in Requests, p \in Payloads : \E s \in p.scope :
                 /\ FoundLeft(x, p, s) /\ s.branch = b /\ execution'[x].payload = p
                 /\ x \notin BranchAdmissions(b)
                 /\ BranchAdmissions(b)' \subseteq BranchAdmissions(b) \cup {x}
<1> DEFINE A == BranchAdmissions(b)
           B == BranchAdmissions(b)'
<1>1. \A r \in Requests : InOrder(r) /\ InOrder(r)'
  BY DEF BudgetInv
<1>2. A = {r \in Requests : AdmittedOn(r, b)} /\ B = {r \in Requests : AdmittedOn(r, b)'}
  BY PoolOf
<1>3. ASSUME NEW y \in A
      PROVE  /\ y \in Requests /\ SameDecision(execution[y], execution'[y])
             /\ execution[y].status # "absent"
             /\ Authorised(y) \in Nat /\ Authorised(y)' \in Nat /\ Authorised(y)' <= Authorised(y)
  <2>1. y \in Requests /\ execution[y].status # "absent"
    BY <1>2 DEF AdmittedOn
  <2> QED
    BY <1>1, <2>1, KnownRowStep
<1> HIDE DEF A, B
<1>4. ASSUME NEW x \in B, x \notin A
      PROVE  /\ x \in Requests /\ execution[x].status = "absent" /\ execution'[x].status # "absent"
             /\ \E w \in Workers : Decide(w) /\ worker[w].request = x
  <2>1. x \in Requests /\ AdmittedOn(x, b)' /\ ~AdmittedOn(x, b)
    BY <1>2, <1>4
  <2>2. execution'[x].status # "absent"
    BY <2>1 DEF AdmittedOn
  <2> QED
    BY <1>1, <2>1, <2>2, AdmittedStep
<1>5. ASSUME NEW x \in B, x \notin A
      PROVE  \E p \in Payloads : \E s \in p.scope :
               /\ FoundLeft(x, p, s) /\ s.branch = b /\ execution'[x].payload = p
               /\ B \subseteq A \cup {x}
  <2>1. PICK w \in Workers : Decide(w) /\ worker[w].request = x
    BY <1>4, <1>5
  <2>2. B \subseteq A \cup {x}
    BY <1>4, <2>1, DecidesOne
  <2>3. x \in Requests /\ AdmittedOn(x, b)'
    BY <1>2
  <2>4. PICK p \in Payloads : \E s \in p.scope :
          /\ FoundLeft(x, p, s) /\ s.branch = b /\ branch' = branch
          /\ execution'[x].payload = p
    BY <1>1, <2>1, <2>3, BranchAdmission
  <2> QED
    BY <2>2, <2>4
<1>6. Lighter(A)
  BY <1>3 DEF Lighter
<1>7. \A y \in B \cap A : execution'[y].payload = execution[y].payload
  BY <1>3 DEF SameDecision
<1>8. \/ B \subseteq A
      \/ \E x \in Requests, p \in Payloads : \E s \in p.scope :
           /\ FoundLeft(x, p, s) /\ s.branch = b /\ execution'[x].payload = p
           /\ x \notin A /\ B \subseteq A \cup {x}
  BY <1>4, <1>5
<1> QED
  BY <1>6, <1>7, <1>8 DEF A, B

LEMMA BranchLimits ==
  ASSUME StoreTypeOK', DelegationInv', NEW b \in Branches, Delegates(b)'
  PROVE  /\ branch'[b].maximum \in Nat /\ branch'[b].mandate \in Mandates
         /\ \A c \in branch'[b].classes :
              /\ PolicyOf[branch'[b].policy].classes[c].invocations \in Nat
              /\ PolicyOf[branch'[b].policy].classes[c].budget \in Nat
<1>1. branch'[b].maximum \in Nat
  BY MaxAmountAssumption DEF StoreTypeOK, BranchRow, Amount
<1>2. /\ branch'[b].mandate \in Mandates /\ branch'[b].policy \in Policies
      /\ branch'[b].classes \subseteq DOMAIN PolicyOf[branch'[b].policy].classes
  BY DEF DelegationInv
<1> QED
  BY <1>1, <1>2, PolicyAssumption

(* A branch that is cut has admitted nothing. *)
LEMMA FreshBranch ==
  ASSUME TypeOK, TypeOK', DelegationInv, DelegationInv', [Next]_vars, NEW b \in Branches,
         ~Delegates(b), Delegates(b)'
  PROVE  BranchBudget(b)'
<1>1. StoreTypeOK /\ StoreTypeOK'
  BY DEF TypeOK
<1>2. PICK m \in Mandates, cut \in Branches, new \in BranchInputs : CreateBranch(m, cut, new, now)
  BY BranchStep DEF Delegates
<1>3. UNCHANGED execution
  BY <1>1, <1>2, CutFacts
<1>4. BranchAdmissions(b)' = {}
  <2> SUFFICES ASSUME NEW r \in Requests, AdmittedOn(r, b)'
               PROVE  FALSE
    BY PoolOf
  <2>1. AdmittedOn(r, b)
    BY <1>3 DEF AdmittedOn
  <2>2. branch[b].mandate = execution[r].payload.mandate /\ execution[r].payload \in Payloads
    BY <1>1, <2>1 DEF DelegationInv, StoreTypeOK, AdmittedOn
  <2> QED
    BY <2>2, PayloadAssumption, BranchesAssumption DEF Delegates
<1>5. \A c : OfClass(BranchAdmissions(b), c)' = {}
  BY <1>4, PoolsAreRequests
<1>6. /\ branch'[b].maximum \in Nat
      /\ \A c \in branch'[b].classes :
           /\ PolicyOf[branch'[b].policy].classes[c].invocations \in Nat
           /\ PolicyOf[branch'[b].policy].classes[c].budget \in Nat
  BY <1>1, BranchLimits
<1>7. (\A f : Units(f, {}) = {}) /\ Cardinality({}) = 0
  BY FS_EmptySet DEF Units
<1>8. (AuthorisedOn(BranchAdmissions(b)))' = 0
  BY <1>4, <1>7 DEF AuthorisedOn, Total
<1>9. ASSUME NEW c
      PROVE  /\ (AuthorisedOn(OfClass(BranchAdmissions(b), c)))' = 0
             /\ Cardinality(OfClass(BranchAdmissions(b), c))' = 0
  BY <1>5, <1>7 DEF AuthorisedOn, Total
<1> QED
  BY <1>6, <1>8, <1>9 DEF BranchBudget, ClassBudget

LEMMA BranchBudgetStep ==
  ASSUME TypeOK, TypeOK', BudgetInv, BudgetInv', DelegationInv, DelegationInv', [Next]_vars,
         NEW b \in Branches, Delegates(b), BranchBudget(b)
  PROVE  BranchBudget(b)'
<1> DEFINE A == BranchAdmissions(b)
           B == BranchAdmissions(b)'
           K(c) == OfClass(BranchAdmissions(b), c)
           L(c) == OfClass(BranchAdmissions(b), c)'
           row == branch[b]
           class(c) == PolicyOf[row.policy].classes[c]
<1>1. StoreTypeOK /\ StoreTypeOK' /\ \A r \in Requests : InOrder(r)
  BY DEF TypeOK, BudgetInv
<1>2. branch'[b] = branch[b] /\ Delegates(b)'
  BY <1>1, BranchStays DEF Delegates
<1>3. /\ row.maximum \in Nat /\ row.mandate \in Mandates
      /\ \A c \in row.classes : class(c).invocations \in Nat /\ class(c).budget \in Nat
  BY <1>1, <1>2, BranchLimits
<1>4. A \in SUBSET Requests /\ B \in SUBSET Requests /\ Lighter(A)
  BY PoolsAreRequests, PoolStep
<1>5. /\ AuthorisedOn(A) <= row.maximum
      /\ \A c \in row.classes : /\ Cardinality(K(c)) <= class(c).invocations
                                /\ AuthorisedOn(K(c)) <= class(c).budget
  BY DEF BranchBudget, ClassBudget
<1>6. ASSUME NEW c
      PROVE  /\ K(c) = {r \in A : \E s \in execution[r].payload.scope : s.class = c}
             /\ L(c) = {r \in B : \E s \in execution'[r].payload.scope : s.class = c}
             /\ K(c) \in SUBSET A /\ L(c) \in SUBSET B /\ Lighter(K(c))
  BY <1>4 DEF OfClass, Lighter
<1>7. /\ (AuthorisedOn(BranchAdmissions(b)))' = WeightIn(B)
      /\ \A c : (AuthorisedOn(OfClass(BranchAdmissions(b), c)))' = WeightIn(L(c))
  BY DEF AuthorisedOn, WeightIn
<1>8. \A y \in B \cap A : execution'[y].payload = execution[y].payload
  BY PoolStep
<1>9. SUFFICES /\ WeightIn(B) <= row.maximum
               /\ \A c \in row.classes : /\ Cardinality(L(c)) <= class(c).invocations
                                         /\ WeightIn(L(c)) <= class(c).budget
  BY <1>2, <1>7 DEF BranchBudget, ClassBudget
<1>10. \/ B \subseteq A
       \/ \E x \in Requests, p \in Payloads : \E s \in p.scope :
            /\ FoundLeft(x, p, s) /\ s.branch = b /\ execution'[x].payload = p
            /\ x \notin A /\ B \subseteq A \cup {x}
  BY PoolStep
<1> HIDE DEF A, B, K, L, row, class
<1>11. CASE B \subseteq A
  <2>1. WeightIn(B) <= row.maximum
    BY <1>3, <1>4, <1>5, <1>11, PoolShrinks
  <2>2. ASSUME NEW c \in row.classes
        PROVE  Cardinality(L(c)) <= class(c).invocations /\ WeightIn(L(c)) <= class(c).budget
    <3>1. L(c) \in SUBSET K(c) /\ K(c) \in SUBSET Requests
      BY <1>4, <1>6, <1>8, <1>11
    <3>2. WeightIn(L(c)) <= class(c).budget
      BY <1>3, <1>5, <1>6, <3>1, PoolShrinks
    <3>3. IsFiniteSet(K(c)) /\ Cardinality(K(c)) \in Nat /\ Cardinality(L(c)) \in Nat
          /\ Cardinality(L(c)) <= Cardinality(K(c))
      BY <3>1, RequestsAssumption, FS_Subset, FS_CardinalityType
    <3> QED
      BY <1>3, <1>5, <3>2, <3>3
  <2> QED
    BY <2>1, <2>2
<1>12. ASSUME NEW x \in Requests, NEW p \in Payloads, NEW s \in p.scope,
              FoundLeft(x, p, s), s.branch = b, execution'[x].payload = p,
              x \notin A, B \subseteq A \cup {x}
       PROVE  /\ WeightIn(B) <= row.maximum
              /\ \A c \in row.classes : /\ Cardinality(L(c)) <= class(c).invocations
                                        /\ WeightIn(L(c)) <= class(c).budget
  <2> DEFINE m == p.mandate
             rows == BranchRows(m, b)
             all(c) == ClassRows(m, b, c)
             counted(c) == {y \in all(c) : execution[y].status # "denied"}
  <2>1. /\ row.mandate = m /\ p.cost \in Amount
        /\ Authorised(x)' \in Nat /\ Authorised(x)' <= p.cost
        /\ SpentOn(rows) + p.cost <= row.maximum
        /\ ~(Cardinality(counted(s.class)) >= class(s.class).invocations)
        /\ ~(SpentOn(all(s.class)) + p.cost > class(s.class).budget)
    BY <1>12 DEF FoundLeft, row, class
  <2>2. /\ rows \in SUBSET Requests /\ A \subseteq rows
        /\ \A y \in A : execution[y].status # "denied"
    BY <2>1 DEF BranchRows, A, BranchAdmissions, row
  <2>3. ASSUME NEW c
        PROVE  /\ all(c) \in SUBSET Requests /\ counted(c) \in SUBSET Requests
               /\ K(c) \subseteq all(c) /\ K(c) \subseteq counted(c)
               /\ K(c) \in SUBSET Requests /\ L(c) \in SUBSET Requests
    <3>1. \A y \in K(c) : y \in A /\ \E u \in execution[y].payload.scope : u.class = c
      BY <1>6
    <3> QED
      BY <1>4, <1>6, <2>2, <3>1 DEF ClassRows
  <2>4. SpentOn(rows) \in Nat /\ p.cost \in Nat
    <3>1. IsFiniteSet(rows)
      BY <2>2, RequestsAssumption, FS_Subset
    <3> QED
      BY <2>1, <3>1, UnitsFinite, MaxAmountAssumption DEF SpentOn, Amount
  <2> HIDE DEF m, rows, all, counted
  <2>5. WeightIn(B) <= row.maximum
    <3>1. Joined(A, B, x, rows, p.cost)
      BY <1>12, <2>1, <2>2 DEF Joined
    <3>2. ~(SpentOn(rows) + p.cost > row.maximum) /\ row.maximum \in Int
      BY <1>3, <2>1, <2>4
    <3> QED
      BY <1>1, <1>4, <1>12, <2>2, <3>1, <3>2, PoolGrows
  <2>6. ASSUME NEW c \in row.classes
        PROVE  Cardinality(L(c)) <= class(c).invocations /\ WeightIn(L(c)) <= class(c).budget
    <3>1. \A y \in L(c) \ {x} : y \in K(c)
      BY <1>6, <1>8, <1>12
    <3>2. L(c) \subseteq K(c) \cup {x} /\ x \notin K(c)
      BY <1>6, <1>12, <3>1
    <3>3. CASE x \notin L(c)
      <4>1. L(c) \in SUBSET K(c)
        BY <3>1, <3>3
      <4>2. WeightIn(L(c)) <= class(c).budget
        BY <1>3, <1>5, <1>6, <2>3, <4>1, PoolShrinks
      <4>3. IsFiniteSet(K(c)) /\ Cardinality(K(c)) \in Nat /\ Cardinality(L(c)) \in Nat
            /\ Cardinality(L(c)) <= Cardinality(K(c))
        BY <2>3, <4>1, RequestsAssumption, FS_Subset, FS_CardinalityType
      <4> QED
        BY <1>3, <1>5, <4>2, <4>3
    <3>4. CASE x \in L(c)
      <4>1. c = s.class
        BY <1>6, <1>12, <3>4, ScopeAssumption
      <4>2. Joined(K(c), L(c), x, all(c), p.cost)
        BY <2>1, <2>3, <3>2 DEF Joined
      <4>3. WeightIn(L(c)) <= class(c).budget
        BY <1>1, <1>3, <1>6, <2>1, <2>3, <3>2, <4>1, <4>2, PoolGrows
      <4>4. Cardinality(L(c)) <= class(c).invocations
        BY <1>3, <2>1, <2>3, <3>2, <4>1, PoolCount
      <4> QED
        BY <4>3, <4>4
    <3> QED
      BY <3>3, <3>4
  <2> QED
    BY <2>5, <2>6
<1> QED
  BY <1>10, <1>11, <1>12

(* Delegation only narrows, and neither a branch nor a class of work of a    *)
(* branch ever costs more than what was delegated to it, whatever the order  *)
(* of admissions, completions, failures, reviews and policy changes.         *)
THEOREM DelegationHolds == Spec => []DelegatedSpendBound
<1>1. Init => DelegatedSpendBound
  <2> SUFFICES ASSUME Init PROVE DelegatedSpendBound
    OBVIOUS
  <2>1. \A b \in Branches : ~Delegates(b)
    BY DEF Init, StoreInit, Delegates, NoBranch
  <2> QED
    BY <2>1 DEF DelegatedSpendBound, DelegationNarrows
<1>2. TypeOK /\ TypeOK' /\ BudgetInv /\ BudgetInv' /\ DelegationInv /\ DelegationInv'
        /\ DelegatedSpendBound /\ [Next]_vars => DelegatedSpendBound'
  <2> SUFFICES ASSUME TypeOK, TypeOK', BudgetInv, BudgetInv', DelegationInv, DelegationInv',
                      DelegatedSpendBound, [Next]_vars
               PROVE  DelegatedSpendBound'
    OBVIOUS
  <2>1. ASSUME NEW b \in Branches, Delegates(b)'
        PROVE  BranchBudget(b)'
    <3>1. CASE Delegates(b)
      BY <3>1, BranchBudgetStep DEF DelegatedSpendBound
    <3>2. CASE ~Delegates(b)
      BY <2>1, <3>2, FreshBranch
    <3> QED
      BY <3>1, <3>2
  <2>2. DelegationNarrows'
    BY DEF DelegationInv
  <2> QED
    BY <2>1, <2>2 DEF DelegatedSpendBound
<1> QED
  BY <1>1, <1>2, TypeCorrect, BudgetInductive, DelegationInductive, PTL DEF Spec
=============================================================================
