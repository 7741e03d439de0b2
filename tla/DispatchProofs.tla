--------------------------- MODULE DispatchProofs ---------------------------
(***************************************************************************)
(* The safety of the signer boundary, for any ids, transfers, nonces,       *)
(* amounts, handlers and ceilings; and of the end of a reliability run, for *)
(* any calls, targets and commands.                                         *)
(***************************************************************************)
EXTENDS SignerAuthority, RunClosure, AmountsProofs

(* Every step keeps the shape of rows and handlers. *)
LEMMA RecordTyped ==
  ASSUME SignerTypeOK, NEW h \in Handlers, Record(h)
  PROVE  /\ limit' \in [maximum: Amount, reserved: Amount]
         /\ authorization' \in [Ids -> Authorization]
         /\ \A i \in Ids : Recorded(i)' <=> authorization'[i].data \in TypedData
         /\ handler[h].id \in Ids /\ handler[h].data \in TypedData
         /\ ~Recorded(handler[h].id)
         /\ authorization' = [authorization EXCEPT ![handler[h].id] =
                                [status |-> "reserved", data |-> handler[h].data]]
<1>1. handler[h].id \in Ids /\ handler[h].data \in TypedData
  BY DEF Record, SignerTypeOK, At
<1>2. /\ MaximumOf[h] \in Amount /\ AmountOf[handler[h].data] \in Amount
      /\ LimitFor(h).reserved \in Amount
  BY <1>1, SignerAssumption, MaxAmountAssumption DEF LimitFor, SignerTypeOK, Amount
<1>3. LimitFor(h).reserved + AmountOf[handler[h].data] \in Amount
  BY <1>2, MaxAmountAssumption DEF Record, Fits, Amount
<1>4. limit' \in [maximum: Amount, reserved: Amount]
  BY <1>2, <1>3 DEF Record
<1>5. authorization' = [authorization EXCEPT ![handler[h].id] =
                          [status |-> "reserved", data |-> handler[h].data]]
  BY DEF Record
<1>6. authorization' \in [Ids -> Authorization]
  BY <1>1, <1>5 DEF SignerTypeOK, Authorization
<1>7. \A i \in Ids : Recorded(i)' <=> authorization'[i].data \in TypedData
  BY <1>1, <1>5 DEF SignerTypeOK, Recorded
<1>8. ~Recorded(handler[h].id)
  BY <1>1 DEF Record, Standing
<1> QED
  BY <1>1, <1>4, <1>5, <1>6, <1>7, <1>8

LEMMA UpdateTyped ==
  ASSUME SignerTypeOK, NEW h \in Handlers, ~At(h, "idle"),
         NEW status \in {"completed", "review"}, Update(h, status)
  PROVE  /\ authorization' \in [Ids -> Authorization]
         /\ \A i \in Ids : /\ authorization'[i].data = authorization[i].data
                           /\ Recorded(i)' <=> Recorded(i)
<1>1. handler[h].id \in Ids
  BY DEF SignerTypeOK
<1>2. authorization' = [authorization EXCEPT ![handler[h].id].status = status]
  BY DEF Update
<1>3. authorization[handler[h].id].status = "reserved"
  BY DEF Update
<1> QED
  BY <1>1, <1>2, <1>3 DEF SignerTypeOK, Authorization, Recorded

LEMMA TypeStep ==
  ASSUME SignerTypeOK, [Next]_vars
  PROVE  SignerTypeOK'
<1> DEFINE HandlersOK ==
      /\ handler' \in [Handlers -> Serving]
      /\ \A h \in Handlers : handler'[h].stage # "idle" =>
           handler'[h].id \in Ids /\ handler'[h].data \in TypedData
<1> DEFINE RowsOK ==
      /\ limit' \in [maximum: Amount, reserved: Amount]
      /\ authorization' \in [Ids -> Authorization]
      /\ asked' \in [TypedData -> Nat]
      /\ \A i \in Ids : Recorded(i)' <=> authorization'[i].data \in TypedData
<1>1. CASE UNCHANGED vars
  BY <1>1 DEF vars, SignerTypeOK, Recorded, At
<1>2. ASSUME NEW h \in Handlers, Return(h)
      PROVE  HandlersOK
  BY <1>2 DEF Return, Idle, SignerTypeOK, Serving, Stages, At
<1>3. ASSUME NEW h \in Handlers, ~At(h, "idle"), NEW stage \in Stages, Move(h, stage)
      PROVE  HandlersOK
  BY <1>3 DEF Move, SignerTypeOK, Serving, At
<1>4. ASSUME UNCHANGED <<limit, authorization, asked>>
      PROVE  RowsOK
  BY <1>4 DEF SignerTypeOK, Recorded
<1>5. ASSUME RowsOK, HandlersOK
      PROVE  SignerTypeOK'
  BY <1>5 DEF SignerTypeOK, Recorded, At
<1>6. ASSUME NEW h \in Handlers,
             \/ \E i \in Ids, t \in TypedData : Receive(h, i, t)
             \/ ReserveThrows(h) \/ Recall(h) \/ Deny(h)
             \/ Reserve(h) \/ ReserveUnacknowledged(h)
             \/ Sign(h) \/ Signed(h) \/ SigningFails(h)
             \/ Complete(h) \/ CompleteUnacknowledged(h) \/ CompleteThrows(h)
             \/ HoldForReview(h) \/ HoldThrows(h) \/ Crash(h)
      PROVE  SignerTypeOK'
  <2>1. ASSUME NEW i \in Ids, NEW t \in TypedData, Receive(h, i, t)
        PROVE  SignerTypeOK'
    <3>1. HandlersOK
      BY <2>1 DEF Receive, SignerTypeOK, Serving, Stages, At
    <3> QED
      BY <1>4, <1>5, <2>1, <3>1 DEF Receive
  <2>2. CASE ReserveThrows(h) \/ Recall(h) \/ HoldThrows(h) \/ Crash(h)
    BY <1>2, <1>4, <1>5, <2>2 DEF ReserveThrows, Recall, HoldThrows, Crash
  <2>3. CASE Deny(h)
    <3>1. limit' \in [maximum: Amount, reserved: Amount]
      BY <2>3, SignerAssumption, MaxAmountAssumption
      DEF Deny, LimitFor, SignerTypeOK, Amount
    <3>2. RowsOK
      BY <2>3, <3>1 DEF Deny, SignerTypeOK, Recorded
    <3> QED
      BY <1>2, <1>5, <2>3, <3>2 DEF Deny
  <2>4. CASE Reserve(h)
    <3>1. RowsOK
      BY <2>4, RecordTyped DEF Reserve, SignerTypeOK
    <3>2. HandlersOK
      BY <1>3, <2>4 DEF Reserve, Record, At, Stages
    <3> QED
      BY <1>5, <3>1, <3>2
  <2>5. CASE ReserveUnacknowledged(h)
    <3>1. RowsOK
      BY <2>5, RecordTyped DEF ReserveUnacknowledged, SignerTypeOK
    <3> QED
      BY <1>2, <1>5, <2>5, <3>1 DEF ReserveUnacknowledged
  <2>6. CASE Sign(h)
    <3>1. asked' \in [TypedData -> Nat]
      <4>1. handler[h].data \in TypedData /\ asked \in [TypedData -> Nat]
        BY <2>6 DEF Sign, SignerTypeOK, At
      <4>2. asked[handler[h].data] + 1 \in Nat
        BY <4>1
      <4>3. asked' = [asked EXCEPT ![handler[h].data] = asked[handler[h].data] + 1]
        BY <2>6 DEF Sign
      <4> QED
        BY <4>1, <4>2, <4>3
    <3>2. RowsOK
      BY <2>6, <3>1 DEF Sign, SignerTypeOK, Recorded
    <3> QED
      BY <1>3, <1>5, <2>6, <3>2 DEF Sign, At, Stages
  <2>7. CASE Signed(h) \/ SigningFails(h) \/ CompleteThrows(h)
    BY <1>3, <1>4, <1>5, <2>7 DEF Signed, SigningFails, CompleteThrows, At, Stages
  <2>8. CASE Complete(h) \/ CompleteUnacknowledged(h) \/ HoldForReview(h)
    <3>1. RowsOK
      BY <2>8, UpdateTyped
      DEF Complete, CompleteUnacknowledged, HoldForReview, Update, At, SignerTypeOK
    <3>2. HandlersOK
      BY <1>2, <1>3, <2>8
      DEF Complete, CompleteUnacknowledged, HoldForReview, At, Stages
    <3> QED
      BY <1>5, <3>1, <3>2
  <2> QED
    BY <1>6, <2>1, <2>2, <2>3, <2>4, <2>5, <2>6, <2>7, <2>8
<1> QED
  BY <1>1, <1>6 DEF Next

(* Rows and handlers keep their shape. *)
THEOREM SignerTypeCorrect == Spec => []SignerTypeOK
<1>1. Init => SignerTypeOK
  BY SignerAssumption, MaxAmountAssumption
  DEF Init, SignerTypeOK, Amount, Authorization, NoAuthorization, Serving, Stages,
      Idle, Recorded, At
<1> QED
  BY <1>1, TypeStep, PTL DEF Spec
-----------------------------------------------------------------------------
RowsKept ==
  \A i \in Ids : /\ authorization'[i].data = authorization[i].data
                 /\ Recorded(i)' <=> Recorded(i)

(* A step records a transfer or leaves what is recorded. *)
LEMMA RowsStep ==
  ASSUME SignerTypeOK, [Next]_vars
  PROVE  \/ RowsKept
         \/ /\ asked' = asked
            /\ \E h \in Handlers : /\ Record(h)
                                   /\ Move(h, "reserved") \/ Return(h)
<1>1. CASE authorization' = authorization
  BY <1>1 DEF RowsKept, Recorded
<1>2. ASSUME NEW h \in Handlers,
             Complete(h) \/ CompleteUnacknowledged(h) \/ HoldForReview(h)
      PROVE  RowsKept
  BY <1>2, UpdateTyped
  DEF Complete, CompleteUnacknowledged, HoldForReview, At, RowsKept
<1>3. ASSUME NEW h \in Handlers, Reserve(h) \/ ReserveUnacknowledged(h)
      PROVE  asked' = asked /\ Record(h) /\ (Move(h, "reserved") \/ Return(h))
  BY <1>3 DEF Reserve, ReserveUnacknowledged
<1> QED
  BY <1>1, <1>2, <1>3
  DEF Next, vars, Receive, ReserveThrows, Recall, Deny, Sign, Signed, SigningFails,
      CompleteThrows, HoldThrows, Crash

(* What a recording step does: the row was free, and so was its nonce. *)
LEMMA RecordStep ==
  ASSUME SignerTypeOK, NEW h \in Handlers, Record(h)
  PROVE  /\ handler[h].id \in Ids /\ handler[h].data \in TypedData
         /\ ~Recorded(handler[h].id)
         /\ authorization'[handler[h].id].status = "reserved"
         /\ authorization'[handler[h].id].data = handler[h].data
         /\ \A i \in Ids \ {handler[h].id} : authorization'[i] = authorization[i]
         /\ \A i \in Ids : Recorded(i) =>
              NonceOf[authorization[i].data] # NonceOf[handler[h].data]
<1>1. /\ handler[h].id \in Ids /\ handler[h].data \in TypedData
      /\ ~Recorded(handler[h].id)
      /\ authorization' = [authorization EXCEPT ![handler[h].id] =
                             [status |-> "reserved", data |-> handler[h].data]]
  BY RecordTyped
<1>2. authorization \in [Ids -> Authorization]
  BY DEF SignerTypeOK
<1>3. \A i \in Ids : Recorded(i) =>
        NonceOf[authorization[i].data] # NonceOf[handler[h].data]
  BY <1>1 DEF Record, Standing
<1>4. authorization'[handler[h].id] = [status |-> "reserved", data |-> handler[h].data]
  BY <1>1, <1>2
<1>5. \A i \in Ids \ {handler[h].id} : authorization'[i] = authorization[i]
  BY <1>1, <1>2
<1>6. /\ authorization'[handler[h].id].status = "reserved"
      /\ authorization'[handler[h].id].data = handler[h].data
  BY <1>4
<1> QED
  BY <1>1, <1>3, <1>5, <1>6

LEMMA NoncesStep ==
  ASSUME SignerTypeOK, NoncesInv, [Next]_vars
  PROVE  NoncesInv'
<1>1. CASE RowsKept
  BY <1>1 DEF RowsKept, NoncesInv
<1>2. ASSUME NEW h \in Handlers, Record(h)
      PROVE  NoncesInv'
  BY <1>2, RecordStep DEF NoncesInv, Recorded
<1> QED
  BY <1>1, <1>2, RowsStep

(* Every transfer the wallet was asked for has a row. *)
AskedInv == \A t \in TypedData : asked[t] > 0 => \E i \in Ids : authorization[i].data = t

LEMMA AskedStep ==
  ASSUME SignerTypeOK, OwnershipInv, AskedInv, [Next]_vars
  PROVE  AskedInv'
<1>1. ASSUME NEW h \in Handlers, Sign(h)
      PROVE  AskedInv'
  <2>1. /\ handler[h].id \in Ids /\ handler[h].data \in TypedData
        /\ authorization[handler[h].id].data = handler[h].data
    BY <1>1 DEF Sign, SignerTypeOK, OwnershipInv, Owns, At
  <2>2. /\ asked \in [TypedData -> Nat]
        /\ asked' = [asked EXCEPT ![handler[h].data] = @ + 1]
        /\ authorization' = authorization
    BY <1>1 DEF Sign, SignerTypeOK
  <2> QED
    BY <2>1, <2>2 DEF AskedInv
<1>2. CASE RowsKept /\ asked' = asked
  BY <1>2 DEF AskedInv, RowsKept
<1>3. ASSUME NEW h \in Handlers, Record(h), asked' = asked
      PROVE  AskedInv'
  <2>1. handler[h].id \in Ids /\ authorization[handler[h].id].data \notin TypedData
    BY <1>3, RecordStep DEF SignerTypeOK
  <2> QED
    BY <1>3, <2>1, RecordStep DEF AskedInv
<1>4. asked' = asked \/ \E h \in Handlers : Sign(h)
  BY DEF Next, vars, Receive, ReserveThrows, Recall, Deny, Reserve, ReserveUnacknowledged,
         Signed, SigningFails, Complete, CompleteUnacknowledged, CompleteThrows,
         HoldForReview, HoldThrows, Crash, Update
<1> QED
  BY <1>1, <1>2, <1>3, <1>4, RowsStep

(* A handler comes to hold a row by recording it, and signs it once. *)
LEMMA OwnersStep ==
  ASSUME SignerTypeOK, NoncesInv, OwnershipInv, AskedInv, [Next]_vars
  PROVE  OwnershipInv'
<1>1. ASSUME NEW h \in Handlers, Record(h), Move(h, "reserved"), asked' = asked
      PROVE  OwnershipInv'
  <2>1. /\ handler[h].id \in Ids /\ handler[h].data \in TypedData
        /\ handler'[h] = [handler[h] EXCEPT !.stage = "reserved"]
        /\ \A g \in Handlers \ {h} : handler'[g] = handler[g]
    BY <1>1, RecordStep DEF Move, SignerTypeOK
  <2>2. handler'[h].stage = "reserved" /\ handler'[h].id = handler[h].id
        /\ handler'[h].data = handler[h].data
    BY <2>1 DEF SignerTypeOK, Serving
  <2>3. \A g \in Handlers : Owns(g) => handler[g].id # handler[h].id
    BY <1>1, RecordStep DEF OwnershipInv
  <2>4. asked[handler[h].data] = 0
    <3>1. \A i \in Ids : authorization[i].data # handler[h].data
      BY <1>1, RecordStep DEF SignerTypeOK
    <3> QED
      BY <2>1, <3>1 DEF AskedInv, SignerTypeOK
  <2>5. \A g \in Handlers : Owns(g)' =>
           /\ Recorded(handler[g].id)' /\ handler'[g].id = handler[g].id
           /\ authorization'[handler[g].id].data = handler'[g].data
    <3>1. \A g \in Handlers \ {h} : Owns(g)' => Owns(g) /\ handler[g].id \in Ids
      BY <2>1 DEF Owns, SignerTypeOK, At
    <3>2. \A g \in Handlers \ {h} : Owns(g)' =>
            authorization'[handler[g].id] = authorization[handler[g].id]
      BY <1>1, <2>3, <3>1, RecordStep
    <3>3. \A g \in Handlers \ {h} : Owns(g)' =>
           /\ Recorded(handler[g].id)' /\ handler'[g].id = handler[g].id
           /\ authorization'[handler[g].id].data = handler'[g].data
      BY <2>1, <3>1, <3>2 DEF OwnershipInv, Recorded
    <3>4. Recorded(handler[h].id)' /\ authorization'[handler[h].id].data = handler'[h].data
      BY <1>1, <2>2, RecordStep DEF Recorded
    <3> QED
      BY <2>2, <3>3, <3>4
  <2>6. \A g \in Handlers : At(g, "reserved")' => asked'[handler'[g].data] = 0
    BY <1>1, <2>1, <2>2, <2>4 DEF OwnershipInv, At
  <2>7. \A f, g \in Handlers :
          Owns(f)' /\ Owns(g)' /\ handler'[f].id = handler'[g].id => f = g
    <3>1. \A g \in Handlers \ {h} : Owns(g)' => /\ Owns(g)
                                               /\ handler'[g].id = handler[g].id
                                               /\ handler'[g].id # handler'[h].id
      BY <2>1, <2>2, <2>3 DEF Owns, At
    <3> QED
      BY <3>1 DEF OwnershipInv
  <2> QED
    BY <2>5, <2>6, <2>7 DEF OwnershipInv, Recorded
<1>2. ASSUME NEW h \in Handlers, Record(h), Return(h), asked' = asked
      PROVE  OwnershipInv'
  <2>1. \A g \in Handlers : Owns(g)' => Owns(g) /\ handler'[g] = handler[g]
    BY <1>2 DEF Return, Owns, Idle, SignerTypeOK
  <2>2. \A g \in Handlers : Owns(g) => handler[g].id \in Ids
    BY DEF Owns, SignerTypeOK, At
  <2>3. \A g \in Handlers : Owns(g) =>
          authorization'[handler[g].id] = authorization[handler[g].id]
    BY <1>2, <2>2, RecordStep DEF OwnershipInv
  <2> QED
    BY <1>2, <2>1, <2>2, <2>3 DEF OwnershipInv, Recorded, At, Owns
<1>3. ASSUME RowsKept, asked' = asked,
             \A g \in Handlers : /\ Owns(g)' => Owns(g) /\ handler'[g].id = handler[g].id
                                               /\ handler'[g].data = handler[g].data
                                 /\ At(g, "reserved")' => At(g, "reserved")
      PROVE  OwnershipInv'
  <2>1. \A g \in Handlers : Owns(g) => handler[g].id \in Ids
    BY DEF Owns, SignerTypeOK, At
  <2>2. \A g \in Handlers : At(g, "reserved")' => Owns(g)'
    BY DEF At, Owns
  <2>3. \A g \in Handlers : Owns(g)' =>
          /\ Recorded(handler[g].id)'
          /\ authorization'[handler[g].id].data = handler'[g].data
    BY <1>3, <2>1 DEF OwnershipInv, RowsKept
  <2> QED
    BY <1>3, <2>1, <2>2, <2>3 DEF OwnershipInv, Recorded
<1>4. ASSUME NEW h \in Handlers, Sign(h)
      PROVE  OwnershipInv'
  <2>1. /\ handler[h].id \in Ids /\ handler[h].data \in TypedData /\ Owns(h)
        /\ asked \in [TypedData -> Nat]
        /\ asked' = [asked EXCEPT ![handler[h].data] = @ + 1]
        /\ authorization' = authorization
    BY <1>4 DEF Sign, SignerTypeOK, At, Owns
  <2>2. /\ handler'[h].stage = "signing" /\ handler'[h].id = handler[h].id
        /\ handler'[h].data = handler[h].data
        /\ \A g \in Handlers \ {h} : handler'[g] = handler[g]
    BY <1>4 DEF Sign, Move, SignerTypeOK, Serving
  <2>3. \A g \in Handlers \ {h} : At(g, "reserved") =>
          /\ Owns(g) /\ handler[g].id \in Ids /\ handler[g].data \in TypedData
          /\ handler[g].id # handler[h].id
    BY <2>1 DEF OwnershipInv, SignerTypeOK, At, Owns
  <2>4. \A g \in Handlers \ {h} : At(g, "reserved") => handler[g].data # handler[h].data
    BY <2>1, <2>3 DEF OwnershipInv, NoncesInv
  <2>5. \A g \in Handlers : At(g, "reserved")' => asked'[handler'[g].data] = 0
    BY <2>1, <2>2, <2>3, <2>4 DEF OwnershipInv, At
  <2>6. \A g \in Handlers : Owns(g)' => Owns(g) /\ handler'[g].id = handler[g].id
                                       /\ handler'[g].data = handler[g].data
    BY <2>1, <2>2 DEF Owns
  <2> QED
    BY <2>1, <2>5, <2>6 DEF OwnershipInv, Recorded
<1>5. ASSUME NEW h \in Handlers, Return(h), RowsKept, asked' = asked
      PROVE  OwnershipInv'
  <2>1. \A g \in Handlers : Owns(g)' => handler'[g] = handler[g]
    BY <1>5 DEF Return, Owns, Idle, SignerTypeOK
  <2> QED
    BY <1>3, <1>5, <2>1 DEF Owns, At
<1>6. ASSUME NEW h \in Handlers, NEW stage \in Stages \ {"reserved"}, Owns(h),
             Move(h, stage), RowsKept, asked' = asked
      PROVE  OwnershipInv'
  <2>1. \A g \in Handlers : /\ handler'[g].id = handler[g].id
                            /\ handler'[g].data = handler[g].data
                            /\ g # h => handler'[g] = handler[g]
                            /\ g = h => handler'[g].stage = stage
    BY <1>6 DEF Move, SignerTypeOK, Serving
  <2> QED
    BY <1>3, <1>6, <2>1 DEF Owns, At
<1>7. ASSUME NEW h \in Handlers, NEW i \in Ids, NEW t \in TypedData, Receive(h, i, t)
      PROVE  OwnershipInv'
  <2>1. \A g \in Handlers : Owns(g)' => handler'[g] = handler[g]
    BY <1>7 DEF Receive, Owns, SignerTypeOK
  <2>2. RowsKept /\ asked' = asked
    BY <1>7 DEF Receive, RowsKept, Recorded
  <2> QED
    BY <1>3, <2>1, <2>2 DEF Owns, At
<1>8. CASE UNCHANGED vars
  BY <1>3, <1>8 DEF vars, RowsKept, Recorded, Owns, At
<1>9. ASSUME NEW h \in Handlers,
             \/ ReserveThrows(h) \/ Recall(h) \/ Deny(h) \/ HoldThrows(h) \/ Crash(h)
             \/ Complete(h) \/ HoldForReview(h)
      PROVE  OwnershipInv'
  <2>1. Return(h) /\ asked' = asked
    BY <1>9 DEF ReserveThrows, Recall, Deny, HoldThrows, Crash, Complete, HoldForReview, Update
  <2>2. CASE Complete(h) \/ HoldForReview(h)
    <3>1. RowsKept
      BY <2>2, UpdateTyped DEF Complete, HoldForReview, At, RowsKept
    <3> QED
      BY <1>5, <2>1, <3>1
  <2>3. CASE ReserveThrows(h) \/ Recall(h) \/ Deny(h) \/ HoldThrows(h) \/ Crash(h)
    <3>1. RowsKept
      BY <2>3 DEF ReserveThrows, Recall, Deny, HoldThrows, Crash, RowsKept, Recorded
    <3> QED
      BY <1>5, <2>1, <3>1
  <2> QED
    BY <1>9, <2>2, <2>3
<1>10. ASSUME NEW h \in Handlers,
              \/ Signed(h) \/ SigningFails(h) \/ CompleteThrows(h)
              \/ CompleteUnacknowledged(h)
       PROVE  OwnershipInv'
  <2>1. Owns(h) /\ asked' = asked
    BY <1>10 DEF Signed, SigningFails, CompleteThrows, CompleteUnacknowledged, Update, At, Owns
  <2>2. \E stage \in Stages \ {"reserved"} : Move(h, stage)
    BY <1>10 DEF Signed, SigningFails, CompleteThrows, CompleteUnacknowledged, Stages
  <2>3. RowsKept
    <3>1. CASE CompleteUnacknowledged(h)
      BY <3>1, UpdateTyped DEF CompleteUnacknowledged, At, RowsKept
    <3>2. CASE Signed(h) \/ SigningFails(h) \/ CompleteThrows(h)
      BY <3>2 DEF Signed, SigningFails, CompleteThrows, RowsKept, Recorded
    <3> QED
      BY <1>10, <3>1, <3>2
  <2> QED
    BY <1>6, <2>1, <2>2, <2>3
<1>11. ASSUME NEW h \in Handlers, Reserve(h) \/ ReserveUnacknowledged(h)
       PROVE  OwnershipInv'
  BY <1>1, <1>2, <1>11 DEF Reserve, ReserveUnacknowledged
<1> QED
  BY <1>4, <1>7, <1>8, <1>9, <1>10, <1>11 DEF Next
-----------------------------------------------------------------------------
(* A transfer is signed by the handler that recorded it. *)
LEMMA SignedStep ==
  ASSUME SignerTypeOK, NoncesInv, OwnershipInv, AskedInv, SignedOnce, [Next]_vars
  PROVE  SignedOnce'
<1>1. CASE asked' = asked
  BY <1>1 DEF SignedOnce
<1>2. ASSUME NEW h \in Handlers, Sign(h)
      PROVE  SignedOnce'
  <2>1. /\ asked \in [TypedData -> Nat] /\ handler[h].data \in TypedData
        /\ asked' = [asked EXCEPT ![handler[h].data] = @ + 1]
        /\ asked[handler[h].data] = 0
    BY <1>2 DEF Sign, SignerTypeOK, OwnershipInv, At
  <2>2. \A t \in TypedData : asked'[t] <= 1
    BY <2>1 DEF SignedOnce
  <2>3. AskedInv'
    BY AskedStep
  <2>4. NoncesInv' /\ SignerTypeOK'
    BY NoncesStep, TypeStep
  <2>5. ASSUME NEW t \in TypedData, NEW u \in TypedData,
               asked'[t] > 0, asked'[u] > 0, NonceOf[t] = NonceOf[u]
        PROVE  t = u
    <3>1. PICK i \in Ids : authorization'[i].data = t
      BY <2>3, <2>5 DEF AskedInv
    <3>2. PICK j \in Ids : authorization'[j].data = u
      BY <2>3, <2>5 DEF AskedInv
    <3>3. Recorded(i)' /\ Recorded(j)'
      BY <2>4, <3>1, <3>2 DEF SignerTypeOK
    <3>4. i = j
      BY <2>4, <2>5, <3>1, <3>2, <3>3 DEF NoncesInv
    <3> QED
      BY <3>1, <3>2, <3>4
  <2> QED
    BY <2>2, <2>5 DEF SignedOnce
<1>3. asked' = asked \/ \E h \in Handlers : Sign(h)
  BY DEF Next, vars, Receive, ReserveThrows, Recall, Deny, Reserve, ReserveUnacknowledged,
         Signed, SigningFails, Complete, CompleteUnacknowledged, CompleteThrows,
         HoldForReview, HoldThrows, Crash, Update
<1> QED
  BY <1>1, <1>2, <1>3

(* What is reserved is the sum of the rows, within the ceiling. *)
BooksInv == /\ limit.reserved = Total([i \in Ids |-> Held(i)], Ids)
            /\ limit.reserved <= limit.maximum

LEMMA BooksRecord ==
  ASSUME SignerTypeOK, BooksInv, NEW h \in Handlers, Record(h)
  PROVE  BooksInv'
<1> DEFINE f == [i \in Ids |-> Held(i)]
           g == [i \in Ids |-> Held(i)']
           x == handler[h].id
           v == AmountOf[handler[h].data]
<1>1. x \in Ids /\ handler[h].data \in TypedData /\ v \in Amount /\ IsFiniteSet(Ids)
  BY RecordStep, SignerAssumption
<1>2. f[x] = 0 /\ g[x] = v
  BY <1>1, RecordStep DEF Held, Recorded
<1>3. \A y \in Ids \ {x} : g[y] = f[y]
  BY RecordStep DEF Held, Recorded
<1>4. Total(g, Ids) = Total(f, Ids) + v
  <2> HIDE DEF f, g, x, v
  <2> QED
    BY <1>1, <1>2, <1>3, TotalAdd
<1>5. LimitFor(h).reserved = limit.reserved
  BY SignerAssumption, MaxAmountAssumption DEF LimitFor, SignerTypeOK, BooksInv, Amount
<1>6. /\ limit' = [maximum |-> MaximumOf[h], reserved |-> LimitFor(h).reserved + v]
      /\ LimitFor(h).reserved + v <= MaximumOf[h]
  BY DEF Record, Fits
<1>7. limit'.reserved = limit.reserved + v /\ limit'.reserved <= limit'.maximum
  BY <1>5, <1>6
<1>8. limit.reserved = Total(f, Ids)
  BY DEF BooksInv
<1> QED
  BY <1>4, <1>7, <1>8 DEF BooksInv

LEMMA BooksStep ==
  ASSUME SignerTypeOK, BooksInv, [Next]_vars
  PROVE  BooksInv'
<1>1. ASSUME RowsKept, limit' = limit
      PROVE  BooksInv'
  <2>1. [i \in Ids |-> Held(i)'] = [i \in Ids |-> Held(i)]
    BY <1>1 DEF Held, RowsKept
  <2> QED
    BY <1>1, <2>1 DEF BooksInv
<1>2. ASSUME NEW h \in Handlers, Deny(h)
      PROVE  BooksInv'
  <2>1. /\ limit'.reserved = limit.reserved
        /\ limit'.reserved <= limit'.maximum
    BY <1>2, SignerAssumption, MaxAmountAssumption
    DEF Deny, LimitFor, SignerTypeOK, BooksInv, Amount
  <2>2. [i \in Ids |-> Held(i)'] = [i \in Ids |-> Held(i)]
    BY <1>2 DEF Deny, Held, Recorded
  <2> QED
    BY <2>1, <2>2 DEF BooksInv
<1>3. ASSUME NEW h \in Handlers, Record(h)
      PROVE  BooksInv'
  BY <1>3, BooksRecord
<1>4. limit' = limit \/ \E h \in Handlers : Deny(h) \/ Record(h)
  BY DEF Next, vars, Receive, ReserveThrows, Recall, Reserve, ReserveUnacknowledged,
         Sign, Signed, SigningFails, Complete, CompleteUnacknowledged, CompleteThrows,
         HoldForReview, HoldThrows, Crash, Update
<1> QED
  BY <1>1, <1>2, <1>3, <1>4, RowsStep

(* Only a reserved row is updated. *)
LEMMA OutcomesStep ==
  ASSUME SignerTypeOK, [Next]_vars, NEW i \in Ids,
         authorization[i].status \in {"completed", "review"}
  PROVE  authorization'[i] = authorization[i]
<1>1. ASSUME NEW h \in Handlers, Record(h)
      PROVE  authorization'[i] = authorization[i]
  BY <1>1, RecordStep DEF Recorded
<1>2. ASSUME NEW h \in Handlers, NEW status \in {"completed", "review"}, Update(h, status)
      PROVE  authorization'[i] = authorization[i]
  BY <1>2 DEF Update, SignerTypeOK
<1>3. \/ authorization' = authorization
      \/ \E h \in Handlers : \/ Record(h)
                             \/ Update(h, "completed") \/ Update(h, "review")
  BY DEF Next, vars, Receive, ReserveThrows, Recall, Deny, Reserve, ReserveUnacknowledged,
         Sign, Signed, SigningFails, Complete, CompleteUnacknowledged, CompleteThrows,
         HoldForReview, HoldThrows, Crash
<1> QED
  BY <1>1, <1>2, <1>3

-----------------------------------------------------------------------------
SignerInv ==
  /\ SignerTypeOK /\ NoncesInv /\ OwnershipInv /\ AskedInv /\ SignedOnce /\ BooksInv

LEMMA SignerInvInit == Init => SignerInv
<1> SUFFICES ASSUME Init PROVE SignerInv
  OBVIOUS
<1>1. SignerTypeOK
  BY SignerAssumption, MaxAmountAssumption
  DEF Init, SignerTypeOK, Amount, Authorization, NoAuthorization, Serving, Stages,
      Idle, Recorded, At
<1>2. \A i \in Ids : ~Recorded(i)
  BY DEF Init, Recorded, NoAuthorization
<1>3. NoncesInv
  BY <1>2 DEF NoncesInv
<1>4. OwnershipInv
  BY DEF Init, OwnershipInv, Owns, At, Idle
<1>5. AskedInv /\ SignedOnce
  BY DEF Init, AskedInv, SignedOnce
<1>6. BooksInv
  <2>1. Units([i \in Ids |-> Held(i)], Ids) = {}
    BY <1>2, MaxAmountAssumption DEF Units, Held
  <2>2. Total([i \in Ids |-> Held(i)], Ids) = 0
    BY <2>1, FS_EmptySet DEF Total
  <2> QED
    BY <2>2 DEF Init, BooksInv
<1> QED
  BY <1>1, <1>3, <1>4, <1>5, <1>6 DEF SignerInv

LEMMA SignerInvHolds == Spec => []SignerInv
<1>1. SignerInv /\ [Next]_vars => SignerInv'
  BY TypeStep, NoncesStep, OwnersStep, AskedStep, SignedStep, BooksStep DEF SignerInv
<1> QED
  BY <1>1, SignerInvInit, PTL DEF Spec

(* No transfer is signed twice and no nonce is used for two, for any number  *)
(* of handlers, ids and deployments.                                         *)
THEOREM SignedOnceAlways == Spec => []SignedOnce
<1>1. SignerInv => SignedOnce
  BY DEF SignerInv
<1> QED
  BY <1>1, SignerInvHolds, PTL

(* The ceiling bounds all that was ever signed: what is reserved is the sum  *)
(* of the rows, and every signed transfer has one.                           *)
THEOREM WithinAuthority == Spec => []AuthorityBound
<1>1. SignerInv => AuthorityBound
  BY DEF SignerInv, AskedInv, BooksInv, AuthorityBound
<1> QED
  BY <1>1, SignerInvHolds, PTL

(* A completed or reviewed outcome is never rewritten. *)
THEOREM OutcomesStay == Spec => OutcomesFinal
<1>1. SignerTypeOK /\ [Next]_vars =>
        [\A i \in Ids : authorization[i].status \in {"completed", "review"}
           => authorization'[i] = authorization[i]]_vars
  BY OutcomesStep
<1> QED
  BY <1>1, SignerTypeCorrect, PTL DEF Spec, OutcomesFinal

-----------------------------------------------------------------------------
(* The end of a reliability run.                                              *)

RunStages ==
  {"running", "fresh_terminal", "replay_terminal", "artifact_bound", "settled", "final_committed"}

Intent ==
  [kind : {"pass", "failure"},
   state : {"committed", "superseded", "artifact_conflict", "publication_failed", "published"},
   receipt : BOOLEAN, late : BOOLEAN]

Publishing == {"taken", "announced", "written", "conflict"}
Deciding == {"finalized", "supported"} \cup Publishing

CommandRecord ==
  [at : {"idle", "polled", "accepted"} \cup Deciding, intent : Nat, late : BOOLEAN,
   verdict : {"none", "pass", "nonpass", "incomplete"}]

ClosureTyped ==
  /\ control \in [stage : RunStages, state : {"active", "failed", "complete"},
                  snapshot : {"none", "incomplete", "nonpass", "pass"}]
  /\ call \in [Calls -> {"open", "ended", "canceled"}]
  /\ manifest \in [Calls -> {"absent", "terminal", "canceled"}]
  /\ replay \in [Targets -> {"none", "authorized", "passed"}]
  /\ intents \in Seq(Intent)
  /\ file \in [intent : Nat, report : Nat]
  /\ process \in [Processes -> CommandRecord]

(* What a stage says of the run stays true: a call that ended, a replay that  *)
(* passed and a snapshot that was accepted are final.                         *)
StagesInv ==
  /\ \A c \in Calls : manifest[c] = "terminal" => call[c] = "ended"
  /\ control.stage # "running" => \A c \in Calls : call[c] = "ended"
  /\ control.stage \notin {"running", "fresh_terminal"} => \A t \in Targets : replay[t] = "passed"
  /\ control.stage \in {"settled", "final_committed"} => control.snapshot = "pass"
  /\ control.state = "complete" => control.stage = "final_committed"

(* A published intent is the last one and has a receipt in time, and nothing  *)
(* else has.                                                                  *)
IntentsInv ==
  /\ \A i \in 1..Latest :
       /\ intents[i].state = "published" <=> intents[i].receipt /\ ~intents[i].late
       /\ intents[i].state = "published" =>
            i = Latest /\ file = [intent |-> i, report |-> i] /\ Pending = {}
       /\ i # Latest /\ intents[i].kind = "failure" => intents[i + 1].kind = "failure"
  /\ control.state = "complete" <=>
       intents # <<>> /\ LastIntent.kind = "pass" /\ LastIntent.state = "published"

(* Whoever publishes does it for decided calls and an intent there is, and    *)
(* what it has written of it stands.                                          *)
Answerable(p) ==
  /\ process[p].at \in Deciding => Pending = {}
  /\ process[p].at \in Publishing => process[p].intent \in 1..Latest
  /\ process[p].at \in {"announced", "written"} => file.intent = process[p].intent
  /\ process[p].at = "written" => file.report = process[p].intent

CommandsInv == \A p \in Processes : Answerable(p)

ClosureInv == ClosureTyped /\ StagesInv /\ IntentsInv /\ CommandsInv

LEMMA LatestFacts ==
  ASSUME ClosureTyped
  PROVE  /\ Latest \in Nat /\ DOMAIN intents = 1..Latest /\ LastIntent = intents[Latest]
         /\ \A i \in 1..Latest : intents[i] \in Intent
         /\ intents # <<>> <=> Latest \in 1..Latest
         /\ intents # <<>> => LastIntent \in Intent
<1>1. intents \in Seq(Intent)
  BY DEF ClosureTyped
<1>2. Latest \in Nat /\ DOMAIN intents = 1..Latest /\ LastIntent = intents[Latest]
  BY <1>1 DEF Latest, LastIntent, Last
<1>3. \A i \in 1..Latest : intents[i] \in Intent
  BY <1>1 DEF Latest
<1>4. intents # <<>> <=> Latest \in 1..Latest
  BY <1>1 DEF Latest
<1> QED
  BY <1>2, <1>3, <1>4

LEMMA ClosureStarts == ClosureInit => ClosureInv
<1> SUFFICES ASSUME ClosureInit PROVE ClosureInv
  OBVIOUS
<1>1. intents = <<>> /\ Latest = 0
  BY DEF ClosureInit, Latest
<1>2. \A p \in Processes : process[p] = NoCommand
  BY DEF ClosureInit
<1>3. ClosureTyped
  BY <1>1 DEF ClosureInit, ClosureTyped, RunStages, NoCommand, CommandRecord
<1>4. StagesInv
  BY DEF ClosureInit, StagesInv
<1>5. IntentsInv
  BY <1>1 DEF ClosureInit, IntentsInv
<1>6. CommandsInv
  BY <1>2 DEF CommandsInv, Answerable, NoCommand, Deciding, Publishing
<1> QED
  BY <1>3, <1>4, <1>5, <1>6 DEF ClosureInv

LEMMA StandsEnough == ClosureInv => VerdictStands
<1> SUFFICES ASSUME ClosureInv PROVE VerdictStands
  OBVIOUS
<1>1. ClosureTyped /\ StagesInv /\ IntentsInv
  BY DEF ClosureInv
<1>2. Latest \in Nat
  BY <1>1, LatestFacts
<1>3. \A i \in 1..(Latest - 1) :
        /\ intents[i].kind = "failure" => intents[i + 1].kind = "failure"
        /\ ~(intents[i].receipt /\ ~intents[i].late)
  BY <1>1, <1>2 DEF IntentsInv
<1>4. \A i \in 1..Latest : intents[i].state = "published" =>
        file = [intent |-> i, report |-> i] /\ Pending = {}
  BY <1>1 DEF IntentsInv
<1>5. control.state = "complete" <=>
        intents # <<>> /\ LastIntent.kind = "pass" /\ LastIntent.state = "published"
  BY <1>1 DEF IntentsInv
<1>6. control.state = "complete" =>
        /\ control.snapshot = "pass"
        /\ \A c \in Calls : call[c] = "ended"
        /\ \A t \in Targets : replay[t] = "passed"
  BY <1>1 DEF StagesInv
<1> QED
  BY <1>3, <1>4, <1>5, <1>6 DEF VerdictStands

(* What a step leaves as it is. *)
Decided == Pending = {} => Pending' = {}

LEMMA CallsStayDecided ==
  ASSUME \A c \in Calls : call[c] # "open" => call'[c] = call[c]
  PROVE  Decided
BY DEF Decided, Pending

LEMMA StagesKept ==
  ASSUME StagesInv, control' = control, call' = call, manifest' = manifest, replay' = replay
  PROVE  StagesInv'
BY DEF StagesInv

LEMMA IntentsKept ==
  ASSUME IntentsInv, intents' = intents, file' = file, control'.state = control.state, Decided
  PROVE  IntentsInv'
BY DEF IntentsInv, Decided, Latest, LastIntent

Onward == Decided /\ Latest <= Latest' /\ Latest \in Nat /\ Latest' \in Nat

LEMMA OthersAnswerable ==
  ASSUME CommandsInv, Onward, file' = file, NEW p \in Processes, process'[p] = process[p]
  PROVE  Answerable(p)'
<1>1. Answerable(p)
  BY DEF CommandsInv
<1> QED
  BY <1>1 DEF Answerable, Onward, Decided

LEMMA CommandsKept ==
  ASSUME CommandsInv, Onward, file' = file, process' = process
  PROVE  CommandsInv'
BY OthersAnswerable DEF CommandsInv

(* A command goes on, or ends. *)
LEMMA CommandGoes ==
  ASSUME ClosureTyped, NEW p \in Processes, NEW at \in {"idle", "polled", "accepted"} \cup Deciding,
         process' = [process EXCEPT ![p].at = at]
  PROVE  /\ process' \in [Processes -> CommandRecord]
         /\ process'[p].at = at /\ process'[p].intent = process[p].intent
         /\ \A q \in Processes \ {p} : process'[q] = process[q]
<1>1. process \in [Processes -> CommandRecord]
  BY DEF ClosureTyped
<1> DEFINE next == [process[p] EXCEPT !.at = at]
<1>2. next \in CommandRecord /\ next.at = at /\ next.intent = process[p].intent
  BY <1>1 DEF CommandRecord
<1>3. process' = [process EXCEPT ![p] = next]
  OBVIOUS
<1> HIDE DEF next
<1> QED
  BY <1>1, <1>2, <1>3

LEMMA CommandFinishes ==
  ASSUME ClosureTyped, NEW p \in Processes, Finish(p)
  PROVE  /\ process' \in [Processes -> CommandRecord]
         /\ process'[p].at = "idle"
         /\ \A q \in Processes \ {p} : process'[q] = process[q]
BY DEF ClosureTyped, CommandRecord, Finish, NoCommand

LEMMA CommandAway ==
  ASSUME CommandsInv, Onward, file' = file, NEW p \in Processes,
         \A q \in Processes \ {p} : process'[q] = process[q], process'[p].at \notin Deciding
  PROVE  CommandsInv'
<1>1. Answerable(p)'
  BY DEF Answerable, Deciding, Publishing
<1> QED
  BY <1>1, OthersAnswerable DEF CommandsInv

LEMMA CommandDecides ==
  ASSUME CommandsInv, Onward, file' = file, NEW p \in Processes,
         \A q \in Processes \ {p} : process'[q] = process[q], Pending' = {},
         \/ process'[p].at \in {"finalized", "supported"}
         \/ process'[p].at \in {"taken", "conflict"} /\ process'[p].intent \in 1..Latest'
  PROVE  CommandsInv'
<1>1. Answerable(p)'
  BY DEF Answerable, Deciding, Publishing
<1> QED
  BY <1>1, OthersAnswerable DEF CommandsInv


(* A new intent, and what it follows. *)
Appended(kind) ==
  /\ Latest' = Latest + 1 /\ intents' \in Seq(Intent)
  /\ \A i \in 1..(Latest - 1) : intents'[i] = intents[i]
  /\ Latest > 0 =>
       /\ intents'[Latest].kind = intents[Latest].kind
       /\ intents'[Latest].state = "superseded"
       /\ ~(intents'[Latest].receipt /\ ~intents'[Latest].late)
  /\ intents'[Latest + 1] = [kind |-> kind, state |-> "committed", receipt |-> FALSE, late |-> FALSE]

LEMMA CommittedIntent ==
  ASSUME ClosureTyped, NEW kind \in {"pass", "failure"}
  PROVE  /\ Committed(kind) \in Seq(Intent) /\ Len(Committed(kind)) = Latest + 1
         /\ \A i \in 1..(Latest - 1) : Committed(kind)[i] = intents[i]
         /\ Latest > 0 => Committed(kind)[Latest] = [intents[Latest] EXCEPT !.state = "superseded"]
         /\ Committed(kind)[Latest + 1] =
              [kind |-> kind, state |-> "committed", receipt |-> FALSE, late |-> FALSE]
<1>1. Latest \in Nat /\ \A i \in 1..Latest : intents[i] \in Intent
  BY LatestFacts
<1> DEFINE older == [i \in 1..Latest |-> IF i = Latest THEN [intents[i] EXCEPT !.state = "superseded"]
                                         ELSE intents[i]]
           new == [kind |-> kind, state |-> "committed", receipt |-> FALSE, late |-> FALSE]
<1>2. \A i \in 1..Latest : [intents[i] EXCEPT !.state = "superseded"] \in Intent
  BY <1>1 DEF Intent
<1>3. older \in Seq(Intent) /\ Len(older) = Latest
  BY <1>1, <1>2
<1>4. new \in Intent
  BY DEF Intent
<1>5. Committed(kind) = Append(older, new)
  BY DEF Committed
<1>6. /\ \A i \in 1..(Latest - 1) : older[i] = intents[i]
      /\ Latest > 0 => older[Latest] = [intents[Latest] EXCEPT !.state = "superseded"]
  BY <1>1
<1> HIDE DEF older, new
<1> QED
  BY <1>1, <1>3, <1>4, <1>5, <1>6 DEF new

LEMMA CommitAppends ==
  ASSUME ClosureTyped, IntentsInv, NEW kind \in {"pass", "failure"}, intents' = Committed(kind),
         Latest > 0 => LastIntent.state # "published"
  PROVE  Appended(kind)
<1>1. Latest \in Nat /\ (Latest > 0 => intents[Latest] \in Intent /\ LastIntent = intents[Latest])
  BY LatestFacts
<1>2. Latest > 0 => ~(intents[Latest].receipt /\ ~intents[Latest].late)
  BY <1>1 DEF IntentsInv
<1>3. Latest > 0 => LET old == [intents[Latest] EXCEPT !.state = "superseded"] IN
        /\ old.kind = intents[Latest].kind /\ old.state = "superseded"
        /\ old.receipt = intents[Latest].receipt /\ old.late = intents[Latest].late
  BY <1>1 DEF Intent
<1>4. Latest' = Len(intents')
  BY DEF Latest
<1> QED
  BY <1>2, <1>3, <1>4, CommittedIntent DEF Appended

LEMMA SequenceAmended ==
  ASSUME NEW S, NEW q \in Seq(S), NEW i \in 1..Len(q), NEW e \in S
  PROVE  [q EXCEPT ![i] = e] \in Seq(S) /\ Len([q EXCEPT ![i] = e]) = Len(q)
OBVIOUS

Misses(receipt) == intents' = [Committed("failure") EXCEPT ![Latest].receipt = receipt]

LEMMA MissAppends ==
  ASSUME ClosureTyped, NEW receipt \in BOOLEAN, Latest > 0, LastIntent.late, Misses(receipt)
  PROVE  Appended("failure")
<1>1. Latest \in Nat /\ intents[Latest] \in Intent /\ LastIntent = intents[Latest]
  BY LatestFacts
<1> DEFINE old == [intents[Latest] EXCEPT !.state = "superseded"]
           missed == [old EXCEPT !.receipt = receipt]
           q == Committed("failure")
<1>2. /\ missed \in Intent
      /\ missed.kind = intents[Latest].kind /\ missed.state = "superseded" /\ missed.late
  BY <1>1 DEF Intent
<1>3. /\ q \in Seq(Intent) /\ Len(q) = Latest + 1 /\ q[Latest] = old
      /\ \A i \in 1..(Latest - 1) : q[i] = intents[i]
      /\ q[Latest + 1] = [kind |-> "failure", state |-> "committed", receipt |-> FALSE, late |-> FALSE]
  BY CommittedIntent
<1> HIDE DEF q
<1>4. intents' = [q EXCEPT ![Latest] = missed]
  BY <1>3 DEF q, Misses
<1> HIDE DEF missed, old
<1>5. Latest \in 1..Len(q)
  BY <1>1, <1>3
<1>6. intents' \in Seq(Intent) /\ Len(intents') = Len(q)
  BY <1>2, <1>3, <1>4, <1>5, SequenceAmended
<1>7. Latest' = Latest + 1
  BY <1>3, <1>6 DEF Latest
<1>8. /\ intents'[Latest] = missed
      /\ \A i \in 1..Len(q) : i # Latest => intents'[i] = q[i]
  BY <1>3, <1>4, <1>5
<1>9. \A i \in 1..(Latest - 1) : intents'[i] = intents[i]
  BY <1>1, <1>3, <1>8
<1>10. intents'[Latest + 1] = q[Latest + 1]
  BY <1>1, <1>3, <1>8
<1> QED
  BY <1>2, <1>3, <1>6, <1>7, <1>8, <1>9, <1>10 DEF Appended

LEMMA AppendedIntents ==
  ASSUME ClosureTyped, IntentsInv, NEW kind \in {"pass", "failure"}, Appended(kind),
         Latest > 0 /\ LastIntent.kind = "failure" => kind = "failure",
         Latest > 0 => LastIntent.state # "published", control'.state # "complete"
  PROVE  IntentsInv' /\ control.state # "complete" /\ Latest <= Latest' /\ Latest' \in Nat
<1>1. /\ Latest \in Nat /\ LastIntent = intents[Latest]
      /\ \A i \in 1..Latest : intents[i] \in Intent
      /\ intents # <<>> <=> Latest \in 1..Latest
  BY LatestFacts
<1>2. Latest' = Latest + 1
  BY DEF Appended
<1>3. \A i \in 1..Latest : intents[i].state # "published"
  BY <1>1 DEF IntentsInv
<1> DEFINE new == [kind |-> kind, state |-> "committed", receipt |-> FALSE, late |-> FALSE]
<1>4. /\ new.kind = kind /\ new.state = "committed" /\ new.receipt = FALSE
      /\ intents'[Latest + 1] = new
  BY DEF Appended
<1> HIDE DEF new
<1>5. LastIntent' = new /\ intents' # <<>>
  BY <1>1, <1>2, <1>4 DEF LastIntent, Last, Latest, Appended
<1>6. ASSUME NEW i \in 1..(Latest + 1)
      PROVE  /\ intents'[i].state # "published"
             /\ ~(intents'[i].receipt /\ ~intents'[i].late)
             /\ i # Latest + 1 /\ intents'[i].kind = "failure" => intents'[i + 1].kind = "failure"
  <2>1. CASE i = Latest + 1
    BY <1>4, <2>1
  <2>2. CASE i = Latest
    BY <1>1, <1>4, <2>2 DEF Appended
  <2>3. CASE i \in 1..(Latest - 1)
    <3>1. intents'[i] = intents[i]
      BY <2>3 DEF Appended
    <3>2. intents'[i + 1].kind = intents[i + 1].kind
      BY <1>1, <2>3 DEF Appended
    <3> QED
      BY <1>1, <1>3, <2>3, <3>1, <3>2 DEF IntentsInv
  <2> QED
    BY <1>1, <2>1, <2>2, <2>3
<1>7. control.state # "complete"
  BY <1>1, <1>3 DEF IntentsInv
<1> QED
  BY <1>1, <1>2, <1>4, <1>5, <1>6, <1>7 DEF IntentsInv

(* The latest intent, in place. *)
LEMMA AmendedIntents ==
  ASSUME ClosureTyped, IntentsInv, Latest \in 1..Latest, LastIntent.state # "published",
         NEW new \in Intent, new.kind = LastIntent.kind, new.state # "published",
         ~(new.receipt /\ ~new.late), intents' = [intents EXCEPT ![Latest] = new],
         control'.state = control.state
  PROVE  IntentsInv' /\ intents' \in Seq(Intent) /\ Latest' = Latest
<1>1. /\ Latest \in Nat /\ LastIntent = intents[Latest] /\ intents \in Seq(Intent)
      /\ intents # <<>>
  BY LatestFacts DEF ClosureTyped
<1>2. intents' \in Seq(Intent) /\ Len(intents') = Len(intents) /\ intents' # <<>>
  BY <1>1 DEF Latest
<1>3. Latest' = Latest
  BY <1>2 DEF Latest
<1>4. /\ intents'[Latest] = new
      /\ \A i \in 1..Latest : i # Latest => intents'[i] = intents[i]
  BY <1>1 DEF Latest
<1>5. LastIntent' = new
  BY <1>3, <1>4 DEF LastIntent, Last, Latest
<1>6. ASSUME NEW i \in 1..Latest
      PROVE  /\ intents'[i].state # "published"
             /\ ~(intents'[i].receipt /\ ~intents'[i].late)
             /\ i # Latest /\ intents'[i].kind = "failure" => intents'[i + 1].kind = "failure"
  <2>1. CASE i = Latest
    BY <1>4, <2>1
  <2>2. CASE i # Latest
    <3>1. intents'[i + 1].kind = intents[i + 1].kind
      BY <1>1, <1>4, <2>2
    <3> QED
      BY <1>1, <1>4, <2>2, <3>1 DEF IntentsInv
  <2> QED
    BY <2>1, <2>2
<1>7. control.state # "complete"
  BY <1>1 DEF IntentsInv
<1> QED
  BY <1>2, <1>3, <1>5, <1>6, <1>7 DEF IntentsInv

(* A step of the run: the intents and the commands do not see it. *)
LEMMA RunStepKeeps ==
  ASSUME ClosureInv, intents' = intents, file' = file, process' = process,
         control'.state = control.state, Decided, ClosureTyped', StagesInv'
  PROVE  ClosureInv'
<1>1. ClosureTyped /\ IntentsInv /\ CommandsInv
  BY DEF ClosureInv
<1>2. Onward
  BY <1>1, LatestFacts DEF Onward, Latest
<1>3. IntentsInv'
  BY <1>1, IntentsKept
<1>4. CommandsInv'
  BY <1>1, <1>2, CommandsKept
<1> QED
  BY <1>3, <1>4 DEF ClosureInv

LEMMA CallEndsKeeps ==
  ASSUME ClosureInv, NEW c \in Calls, CallEnds(c)
  PROVE  ClosureInv'
<1>1. ClosureTyped /\ StagesInv
  BY DEF ClosureInv
<1>2. /\ call' = [call EXCEPT ![c] = "ended"] /\ call[c] = "open"
      /\ control' = control /\ manifest' = manifest /\ replay' = replay
      /\ intents' = intents /\ file' = file /\ process' = process
  BY DEF CallEnds
<1>3. ClosureTyped'
  BY <1>1, <1>2 DEF ClosureTyped
<1>4. \A d \in Calls : /\ call[d] # "open" => call'[d] = call[d]
                       /\ call[d] = "ended" => call'[d] = "ended"
  BY <1>1, <1>2 DEF ClosureTyped
<1>5. StagesInv'
  BY <1>1, <1>2, <1>4 DEF StagesInv
<1> QED
  BY <1>2, <1>3, <1>4, <1>5, CallsStayDecided, RunStepKeeps

LEMMA PublishManifestKeeps ==
  ASSUME ClosureInv, NEW c \in Calls, PublishManifest(c)
  PROVE  ClosureInv'
<1>1. ClosureTyped /\ StagesInv
  BY DEF ClosureInv
<1>2. /\ manifest' = [manifest EXCEPT ![c] = "terminal"] /\ call[c] = "ended"
      /\ control' = control /\ call' = call /\ replay' = replay
      /\ intents' = intents /\ file' = file /\ process' = process
  BY DEF PublishManifest
<1>3. ClosureTyped'
  BY <1>1, <1>2 DEF ClosureTyped
<1>4. StagesInv'
  BY <1>1, <1>2 DEF StagesInv, ClosureTyped
<1> QED
  BY <1>2, <1>3, <1>4, CallsStayDecided, RunStepKeeps

LEMMA AdvanceFacts ==
  ASSUME ClosureTyped, NEW target \in {"fresh_terminal", "settled"}, Advance(target)
  PROVE  /\ control.stage = IF target = "settled" THEN "artifact_bound" ELSE "running"
         /\ control' \in [stage : RunStages, state : {"active", "failed", "complete"},
                          snapshot : {"none", "incomplete", "nonpass", "pass"}]
         /\ control'.stage = target
         /\ control'.state = control.state /\ control'.snapshot = control.snapshot
         /\ control.state # "failed"
<1>1. PICK i \in 2..6 : DurableStages[i] = target /\ DurableStages[i - 1] = control.stage
  BY DEF Advance, DurableStages
<1>2. control.stage = IF target = "settled" THEN "artifact_bound" ELSE "running"
  BY <1>1 DEF DurableStages
<1>3. target \in RunStages
  BY DEF RunStages
<1> QED
  BY <1>2, <1>3 DEF Advance, ClosureTyped

LEMMA EndFreshCallsKeeps ==
  ASSUME ClosureInv, EndFreshCalls
  PROVE  ClosureInv'
<1>1. ClosureTyped /\ StagesInv
  BY DEF ClosureInv
<1>2. /\ \A c \in Calls : manifest[c] = "terminal"
      /\ manifest' = manifest /\ call' = call /\ replay' = replay
      /\ intents' = intents /\ file' = file /\ process' = process
  BY DEF EndFreshCalls
<1>3. /\ control.stage = "running" /\ control'.stage = "fresh_terminal"
      /\ control'.state = control.state /\ control'.snapshot = control.snapshot
      /\ control' \in [stage : RunStages, state : {"active", "failed", "complete"},
                       snapshot : {"none", "incomplete", "nonpass", "pass"}]
  BY <1>1, AdvanceFacts DEF EndFreshCalls
<1>4. ClosureTyped'
  BY <1>1, <1>2, <1>3 DEF ClosureTyped
<1>5. StagesInv'
  BY <1>1, <1>2, <1>3 DEF StagesInv
<1> QED
  BY <1>2, <1>3, <1>4, <1>5, CallsStayDecided, RunStepKeeps

LEMMA ReplaysKeep ==
  ASSUME ClosureInv, RegisterReplays \/ \E t \in Targets : ReplayCall(t)
  PROVE  ClosureInv'
<1>1. ClosureTyped /\ StagesInv
  BY DEF ClosureInv
<1>2. /\ control' = control /\ manifest' = manifest /\ call' = call
      /\ intents' = intents /\ file' = file /\ process' = process
  BY DEF RegisterReplays, ReplayCall
<1>3. /\ replay' \in [Targets -> {"none", "authorized", "passed"}]
      /\ \A t \in Targets : replay[t] = "passed" => replay'[t] = "passed"
  BY <1>1 DEF RegisterReplays, ReplayCall, ClosureTyped
<1>4. ClosureTyped'
  BY <1>1, <1>2, <1>3 DEF ClosureTyped
<1>5. StagesInv'
  BY <1>1, <1>2, <1>3 DEF StagesInv
<1> QED
  BY <1>2, <1>4, <1>5, CallsStayDecided, RunStepKeeps

LEMMA StageEntered ==
  ASSUME ClosureInv, CompleteReplays \/ BindArtifacts
  PROVE  ClosureInv'
<1>1. ClosureTyped /\ StagesInv
  BY DEF ClosureInv
<1>2. /\ manifest' = manifest /\ call' = call /\ replay' = replay
      /\ intents' = intents /\ file' = file /\ process' = process
  BY DEF CompleteReplays, BindArtifacts
<1>3. /\ control'.state = control.state /\ control'.snapshot = control.snapshot
      /\ control.stage \in {"fresh_terminal", "replay_terminal"}
      /\ control'.stage \in {"replay_terminal", "artifact_bound"}
      /\ \A t \in Targets : replay[t] = "passed"
      /\ control' \in [stage : RunStages, state : {"active", "failed", "complete"},
                       snapshot : {"none", "incomplete", "nonpass", "pass"}]
  BY <1>1 DEF CompleteReplays, BindArtifacts, ClosureTyped, StagesInv, RunStages
<1>4. ClosureTyped'
  BY <1>1, <1>2, <1>3 DEF ClosureTyped
<1>5. StagesInv'
  BY <1>1, <1>2, <1>3 DEF StagesInv
<1> QED
  BY <1>2, <1>3, <1>4, <1>5, CallsStayDecided, RunStepKeeps

LEMMA UnseenKeeps ==
  ASSUME ClosureInv, UNCHANGED <<control, call, manifest, replay, intents, file, process>>
  PROVE  ClosureInv'
<1>1. ClosureTyped /\ StagesInv
  BY DEF ClosureInv
<1>2. ClosureTyped'
  BY <1>1 DEF ClosureTyped
<1>3. StagesInv'
  BY <1>1 DEF StagesInv
<1> QED
  BY <1>2, <1>3, CallsStayDecided, RunStepKeeps

(* A new intent is committed on an unpublished one, if any. *)
LEMMA CommitIntentMoves ==
  ASSUME ClosureInv, NEW kind \in {"pass", "failure"}, CommitIntent(kind),
         control'.state # "complete"
  PROVE  /\ IntentsInv' /\ intents' \in Seq(Intent) /\ control.state # "complete"
         /\ Latest <= Latest' /\ Latest \in Nat /\ Latest' \in Nat
<1>1. ClosureTyped /\ IntentsInv
  BY DEF ClosureInv
<1>2. Latest \in Nat /\ (intents # <<>> <=> Latest \in 1..Latest)
  BY <1>1, LatestFacts
<1>3. /\ intents' = Committed(kind)
      /\ Latest > 0 => LastIntent.state # "published"
      /\ Latest > 0 /\ LastIntent.kind = "failure" => kind = "failure"
  BY <1>2 DEF CommitIntent, Supersedable
<1>4. Appended(kind)
  BY <1>1, <1>3, CommitAppends
<1> QED
  BY <1>1, <1>2, <1>3, <1>4, AppendedIntents DEF Appended

LEMMA FailProtocolKeeps ==
  ASSUME ClosureInv, FailProtocol
  PROVE  ClosureInv'
<1>1. ClosureTyped /\ StagesInv /\ CommandsInv
  BY DEF ClosureInv
<1>2. PICK dropped \in SUBSET Pending :
        call' = [c \in Calls |-> IF c \in dropped THEN "canceled" ELSE call[c]]
  BY DEF FailProtocol
<1>3. /\ CommitIntent("failure") /\ control' = [control EXCEPT !.state = "failed"]
      /\ manifest' = manifest /\ replay' = replay /\ file' = file /\ process' = process
  BY DEF FailProtocol
<1>4. /\ control' \in [stage : RunStages, state : {"active", "failed", "complete"},
                       snapshot : {"none", "incomplete", "nonpass", "pass"}]
      /\ control'.stage = control.stage /\ control'.snapshot = control.snapshot
      /\ control'.state = "failed"
  BY <1>1, <1>3 DEF ClosureTyped
<1>5. /\ call' \in [Calls -> {"open", "ended", "canceled"}]
      /\ \A c \in Calls : call[c] # "open" => call'[c] = call[c]
  BY <1>1, <1>2 DEF ClosureTyped, Pending
<1>6. /\ IntentsInv' /\ intents' \in Seq(Intent)
      /\ Latest <= Latest' /\ Latest \in Nat /\ Latest' \in Nat
  BY <1>3, <1>4, CommitIntentMoves
<1>7. ClosureTyped'
  BY <1>1, <1>3, <1>4, <1>5, <1>6 DEF ClosureTyped
<1>8. StagesInv'
  BY <1>1, <1>3, <1>4, <1>5 DEF StagesInv
<1>9. CommandsInv'
  BY <1>1, <1>3, <1>5, <1>6, CallsStayDecided, CommandsKept DEF Onward
<1> QED
  BY <1>6, <1>7, <1>8, <1>9 DEF ClosureInv

LEMMA IntentOverdueKeeps ==
  ASSUME ClosureInv, IntentOverdue
  PROVE  ClosureInv'
<1>1. ClosureTyped /\ StagesInv /\ IntentsInv /\ CommandsInv
  BY DEF ClosureInv
<1>2. /\ intents # <<>> /\ LastIntent.state # "published"
      /\ intents' = [intents EXCEPT ![Latest].late = TRUE]
      /\ control' = control /\ call' = call /\ manifest' = manifest /\ replay' = replay
      /\ file' = file /\ process' = process
  BY DEF IntentOverdue
<1>3. /\ Latest \in 1..Latest /\ Latest \in Nat
      /\ LastIntent \in Intent /\ LastIntent = intents[Latest]
  BY <1>1, <1>2, LatestFacts
<1> DEFINE new == [LastIntent EXCEPT !.late = TRUE]
<1>4. new \in Intent /\ new.kind = LastIntent.kind /\ new.state = LastIntent.state /\ new.late
  BY <1>3 DEF Intent
<1>5. intents' = [intents EXCEPT ![Latest] = new]
  BY <1>2, <1>3
<1> HIDE DEF new
<1>6. IntentsInv' /\ intents' \in Seq(Intent) /\ Latest' = Latest
  BY <1>1, <1>2, <1>3, <1>4, <1>5, AmendedIntents
<1>7. ClosureTyped'
  BY <1>1, <1>2, <1>6 DEF ClosureTyped
<1>8. StagesInv'
  BY <1>1, <1>2, StagesKept
<1>9. CommandsInv'
  BY <1>1, <1>2, <1>3, <1>6, CallsStayDecided, CommandsKept DEF Onward
<1> QED
  BY <1>6, <1>7, <1>8, <1>9 DEF ClosureInv

(* A step of a command that leaves the run and its intents alone. *)
LEMMA CommandStepKeeps ==
  ASSUME ClosureInv, control' = control, call' = call, manifest' = manifest, replay' = replay,
         intents' = intents, file' = file, process' \in [Processes -> CommandRecord], CommandsInv'
  PROVE  ClosureInv'
<1>1. ClosureTyped /\ StagesInv /\ IntentsInv
  BY DEF ClosureInv
<1>2. ClosureTyped'
  BY <1>1 DEF ClosureTyped
<1>3. StagesInv' /\ IntentsInv'
  BY <1>1, StagesKept, IntentsKept, CallsStayDecided
<1> QED
  BY <1>2, <1>3 DEF ClosureInv

LEMMA StillOnward ==
  ASSUME ClosureTyped, intents' = intents, call' = call
  PROVE  Onward
BY CallsStayDecided, LatestFacts DEF Onward, Latest

LEMMA PollSettlementKeeps ==
  ASSUME ClosureInv, NEW p \in Processes, PollSettlement(p)
  PROVE  ClosureInv'
<1>1. ClosureTyped /\ CommandsInv
  BY DEF ClosureInv
<1>2. /\ control' = control /\ call' = call /\ manifest' = manifest /\ replay' = replay
      /\ intents' = intents /\ file' = file
  BY DEF PollSettlement
<1>3. PICK verdict \in {"pass", "nonpass", "incomplete"} :
        process' = [process EXCEPT ![p].at = "polled", ![p].verdict = verdict]
  BY DEF PollSettlement
<1>4. process \in [Processes -> CommandRecord]
  BY <1>1 DEF ClosureTyped
<1> DEFINE next == [process[p] EXCEPT !.at = "polled", !.verdict = verdict]
<1>5. next \in CommandRecord /\ next.at = "polled"
  BY <1>4 DEF CommandRecord
<1>6. process' = [process EXCEPT ![p] = next]
  BY <1>3
<1> HIDE DEF next
<1>7. /\ process' \in [Processes -> CommandRecord] /\ process'[p].at = "polled"
      /\ \A q \in Processes \ {p} : process'[q] = process[q]
  BY <1>4, <1>5, <1>6
<1>8. CommandsInv'
  BY <1>1, <1>2, <1>7, StillOnward, CommandAway DEF Deciding, Publishing
<1> QED
  BY <1>2, <1>7, <1>8, CommandStepKeeps

LEMMA SettlementKeeps ==
  ASSUME ClosureInv, NEW p \in Processes, Settlement(p)
  PROVE  ClosureInv'
<1>1. ClosureTyped /\ StagesInv /\ CommandsInv
  BY DEF ClosureInv
<1> DEFINE verdict == process[p].verdict
           kind == IF verdict = "pass" THEN "pass" ELSE "failure"
<1>2. /\ call' = call /\ manifest' = manifest /\ replay' = replay /\ file' = file
      /\ control' = [control EXCEPT !.snapshot = verdict]
      /\ control.stage = "artifact_bound" /\ control.state = "active"
      /\ CommitIntent(kind) /\ kind \in {"pass", "failure"}
  BY DEF Settlement, Settleable
<1>3. process[p] \in CommandRecord /\ process[p].at = "polled" /\ SnapshotAgrees(verdict)
  BY <1>1 DEF ClosureTyped, Settlement
<1>4. verdict \in {"none", "pass", "nonpass", "incomplete"}
  BY <1>3 DEF CommandRecord
<1> HIDE DEF verdict, kind
<1>5. /\ control' \in [stage : RunStages, state : {"active", "failed", "complete"},
                       snapshot : {"none", "incomplete", "nonpass", "pass"}]
      /\ control'.stage = control.stage /\ control'.state = control.state
  BY <1>1, <1>2, <1>4 DEF ClosureTyped
<1>6. /\ IntentsInv' /\ intents' \in Seq(Intent)
      /\ Latest <= Latest' /\ Latest \in Nat /\ Latest' \in Nat
  BY <1>2, <1>5, CommitIntentMoves
<1>7. /\ process' \in [Processes -> CommandRecord] /\ process'[p].at \in {"idle", "accepted"}
      /\ \A q \in Processes \ {p} : process'[q] = process[q]
  <2>1. Goes(p, "accepted") \/ Finish(p)
    BY DEF Settlement
  <2>2. CASE Goes(p, "accepted")
    BY <1>1, <2>2, CommandGoes DEF Goes
  <2>3. CASE Finish(p)
    BY <1>1, <2>3, CommandFinishes
  <2> QED
    BY <2>1, <2>2, <2>3
<1>8. ClosureTyped'
  BY <1>1, <1>2, <1>5, <1>6, <1>7 DEF ClosureTyped
<1>9. StagesInv'
  BY <1>1, <1>2, <1>5 DEF StagesInv
<1>10. CommandsInv'
  BY <1>1, <1>2, <1>6, <1>7, CallsStayDecided, CommandAway DEF Onward, Deciding, Publishing
<1> QED
  BY <1>6, <1>8, <1>9, <1>10 DEF ClosureInv

LEMMA AdvanceSettledKeeps ==
  ASSUME ClosureInv, NEW p \in Processes, AdvanceSettled(p)
  PROVE  ClosureInv'
<1>1. ClosureTyped /\ StagesInv /\ IntentsInv /\ CommandsInv
  BY DEF ClosureInv
<1>2. /\ call' = call /\ manifest' = manifest /\ replay' = replay /\ file' = file
      /\ intents' = intents /\ control.snapshot = "pass" /\ Finish(p)
  BY DEF AdvanceSettled
<1>3. /\ control.stage = "artifact_bound" /\ control'.stage = "settled"
      /\ control'.state = control.state /\ control'.snapshot = control.snapshot
      /\ control' \in [stage : RunStages, state : {"active", "failed", "complete"},
                       snapshot : {"none", "incomplete", "nonpass", "pass"}]
  BY <1>1, AdvanceFacts DEF AdvanceSettled
<1>4. /\ process' \in [Processes -> CommandRecord] /\ process'[p].at = "idle"
      /\ \A q \in Processes \ {p} : process'[q] = process[q]
  BY <1>1, <1>2, CommandFinishes
<1>5. ClosureTyped'
  BY <1>1, <1>2, <1>3, <1>4 DEF ClosureTyped
<1>6. StagesInv'
  BY <1>1, <1>2, <1>3 DEF StagesInv
<1>7. IntentsInv'
  BY <1>1, <1>2, <1>3, CallsStayDecided, IntentsKept
<1>8. CommandsInv'
  BY <1>1, <1>2, <1>4, StillOnward, CommandAway DEF Deciding, Publishing
<1> QED
  BY <1>5, <1>6, <1>7, <1>8 DEF ClosureInv

LEMMA FinalizeOverdueKeeps ==
  ASSUME ClosureInv, NEW p \in Processes, FinalizeOverdue(p)
  PROVE  ClosureInv'
<1>1. ClosureTyped /\ StagesInv /\ CommandsInv
  BY DEF ClosureInv
<1>2. /\ CommitIntent("failure") /\ control' = [control EXCEPT !.state = "failed"]
      /\ call' = [c \in Calls |-> IF c \in Pending THEN "canceled" ELSE call[c]]
      /\ manifest' = manifest /\ replay' = replay /\ file' = file
      /\ process' = [process EXCEPT ![p].at = "finalized"]
  BY DEF FinalizeOverdue, Goes
<1>3. /\ control' \in [stage : RunStages, state : {"active", "failed", "complete"},
                       snapshot : {"none", "incomplete", "nonpass", "pass"}]
      /\ control'.stage = control.stage /\ control'.snapshot = control.snapshot
      /\ control'.state = "failed"
  BY <1>1, <1>2 DEF ClosureTyped
<1>4. /\ call' \in [Calls -> {"open", "ended", "canceled"}]
      /\ \A c \in Calls : call[c] # "open" => call'[c] = call[c]
      /\ Pending' = {}
  BY <1>1, <1>2 DEF ClosureTyped, Pending
<1>5. /\ IntentsInv' /\ intents' \in Seq(Intent)
      /\ Latest <= Latest' /\ Latest \in Nat /\ Latest' \in Nat
  BY <1>2, <1>3, CommitIntentMoves
<1>6. /\ process' \in [Processes -> CommandRecord] /\ process'[p].at = "finalized"
      /\ \A q \in Processes \ {p} : process'[q] = process[q]
  BY <1>1, <1>2, CommandGoes DEF Deciding
<1>7. ClosureTyped'
  BY <1>1, <1>2, <1>3, <1>4, <1>5, <1>6 DEF ClosureTyped
<1>8. StagesInv'
  BY <1>1, <1>2, <1>3, <1>4 DEF StagesInv
<1>9. CommandsInv'
  BY <1>1, <1>2, <1>4, <1>5, <1>6, CallsStayDecided, CommandDecides DEF Onward
<1> QED
  BY <1>5, <1>7, <1>8, <1>9 DEF ClosureInv

LEMMA FindTerminalKeeps ==
  ASSUME ClosureInv, NEW p \in Processes, FindTerminal(p)
  PROVE  ClosureInv'
<1>1. ClosureTyped /\ CommandsInv
  BY DEF ClosureInv
<1>2. /\ control' = control /\ call' = call /\ manifest' = manifest /\ replay' = replay
      /\ intents' = intents /\ file' = file /\ Pending = {}
      /\ process' = [process EXCEPT ![p].at = "finalized"]
  BY DEF FindTerminal, Goes, AlreadyTerminal
<1>3. /\ process' \in [Processes -> CommandRecord] /\ process'[p].at = "finalized"
      /\ \A q \in Processes \ {p} : process'[q] = process[q]
  BY <1>1, <1>2, CommandGoes DEF Deciding
<1>4. Pending' = {} /\ Onward
  BY <1>1, <1>2, StillOnward DEF Onward, Decided
<1>5. CommandsInv'
  BY <1>1, <1>2, <1>3, <1>4, CommandDecides
<1> QED
  BY <1>2, <1>3, <1>5, CommandStepKeeps

LEMMA CommandEndsKeeps ==
  ASSUME ClosureInv, NEW p \in Processes, CommandEnds(p)
  PROVE  ClosureInv'
<1>1. ClosureTyped /\ CommandsInv
  BY DEF ClosureInv
<1>2. /\ control' = control /\ call' = call /\ manifest' = manifest /\ replay' = replay
      /\ intents' = intents /\ file' = file /\ Finish(p)
  BY DEF CommandEnds
<1>3. /\ process' \in [Processes -> CommandRecord] /\ process'[p].at = "idle"
      /\ \A q \in Processes \ {p} : process'[q] = process[q]
  BY <1>1, <1>2, CommandFinishes
<1>4. CommandsInv'
  BY <1>1, <1>2, <1>3, StillOnward, CommandAway DEF Deciding, Publishing
<1> QED
  BY <1>2, <1>3, <1>4, CommandStepKeeps

LEMMA PublishCanceledKeeps ==
  ASSUME ClosureInv, NEW p \in Processes, PublishCanceled(p)
  PROVE  ClosureInv'
<1>1. ClosureTyped /\ StagesInv /\ IntentsInv /\ CommandsInv
  BY DEF ClosureInv
<1>2. /\ control' = control /\ call' = call /\ replay' = replay
      /\ intents' = intents /\ file' = file /\ process[p].at = "finalized"
      /\ Goes(p, "supported") \/ Finish(p)
  BY DEF PublishCanceled
<1>3. /\ manifest' \in [Calls -> {"absent", "terminal", "canceled"}]
      /\ \A c \in Calls : manifest'[c] = "terminal" => manifest[c] = "terminal"
  BY <1>1 DEF PublishCanceled, ClosureTyped
<1>4. Pending = {} /\ Pending' = {} /\ Onward
  BY <1>1, <1>2, StillOnward DEF Onward, Decided, CommandsInv, Answerable, Deciding
<1>5. /\ process' \in [Processes -> CommandRecord] /\ process'[p].at \in {"supported", "idle"}
      /\ \A q \in Processes \ {p} : process'[q] = process[q]
  <2>1. CASE Goes(p, "supported")
    BY <1>1, <2>1, CommandGoes DEF Goes, Deciding
  <2>2. CASE Finish(p)
    BY <1>1, <2>2, CommandFinishes
  <2> QED
    BY <1>2, <2>1, <2>2
<1>6. CommandsInv'
  <2>1. CASE process'[p].at = "supported"
    BY <1>1, <1>2, <1>4, <1>5, <2>1, CommandDecides
  <2>2. CASE process'[p].at = "idle"
    BY <1>1, <1>2, <1>4, <1>5, <2>2, CommandAway DEF Deciding, Publishing
  <2> QED
    BY <1>5, <2>1, <2>2
<1>7. ClosureTyped'
  BY <1>1, <1>2, <1>3, <1>5 DEF ClosureTyped
<1>8. StagesInv'
  BY <1>1, <1>2, <1>3 DEF StagesInv
<1>9. IntentsInv'
  BY <1>1, <1>2, <1>4, IntentsKept DEF Onward
<1> QED
  BY <1>6, <1>7, <1>8, <1>9 DEF ClosureInv

(* A step that amends or replaces the latest intent. *)
LEMMA IntentStepKeeps ==
  ASSUME ClosureInv, control' = control, call' = call, manifest' = manifest, replay' = replay,
         file' = file, IntentsInv', intents' \in Seq(Intent),
         process' \in [Processes -> CommandRecord], CommandsInv'
  PROVE  ClosureInv'
<1>1. ClosureTyped /\ StagesInv
  BY DEF ClosureInv
<1>2. ClosureTyped'
  BY <1>1 DEF ClosureTyped
<1>3. StagesInv'
  BY <1>1, StagesKept
<1> QED
  BY <1>2, <1>3 DEF ClosureInv

LEMMA MissedMoves ==
  ASSUME ClosureInv, control' = control, NEW receipt \in BOOLEAN, Latest \in 1..Latest,
         LastIntent.late, LastIntent.state # "published", Missed(receipt)
  PROVE  /\ IntentsInv' /\ intents' \in Seq(Intent)
         /\ Latest <= Latest' /\ Latest \in Nat /\ Latest' \in Nat
<1>1. ClosureTyped /\ IntentsInv
  BY DEF ClosureInv
<1>2. /\ Latest \in Nat /\ intents # <<>> /\ LastIntent \in Intent
      /\ LastIntent = intents[Latest]
  BY <1>1, LatestFacts
<1>3. control.state # "complete"
  BY <1>1 DEF IntentsInv
<1>4. CASE LastIntent.kind = "pass"
  <2>1. Misses(receipt)
    BY <1>4 DEF Missed, Misses
  <2>2. Appended("failure")
    BY <1>1, <1>2, <2>1, MissAppends
  <2> QED
    BY <1>1, <1>2, <1>3, <2>2, AppendedIntents DEF Appended
<1>5. CASE LastIntent.kind # "pass"
  <2> DEFINE new == [LastIntent EXCEPT !.state = "publication_failed", !.receipt = receipt]
  <2>1. /\ new \in Intent /\ new.kind = LastIntent.kind /\ new.state = "publication_failed"
        /\ new.late
    BY <1>2 DEF Intent
  <2>2. intents' = [intents EXCEPT ![Latest] = new]
    BY <1>2, <1>5 DEF Missed
  <2> HIDE DEF new
  <2>3. IntentsInv' /\ intents' \in Seq(Intent) /\ Latest' = Latest
    BY <1>1, <2>1, <2>2, AmendedIntents
  <2> QED
    BY <1>2, <2>3
<1> QED
  BY <1>4, <1>5

LEMMA TakeIntentKeeps ==
  ASSUME ClosureInv, NEW p \in Processes, TakeIntent(p)
  PROVE  ClosureInv'
<1>1. ClosureTyped /\ IntentsInv /\ CommandsInv
  BY DEF ClosureInv
<1>2. /\ control' = control /\ call' = call /\ manifest' = manifest /\ replay' = replay
      /\ file' = file /\ process[p].at = "supported"
      /\ intents # <<>> /\ LastIntent.state # "published"
  BY DEF TakeIntent, Publishable
<1>3. /\ Latest \in 1..Latest /\ Latest \in Nat
      /\ LastIntent \in Intent
  BY <1>1, <1>2, LatestFacts
<1>4. process \in [Processes -> CommandRecord] /\ process[p] \in CommandRecord
  BY <1>1 DEF ClosureTyped
<1>5. Pending = {} /\ Pending' = {} /\ Decided
  BY <1>1, <1>2, CallsStayDecided DEF Decided, CommandsInv, Answerable, Deciding
<1> DEFINE prompt == [process[p] EXCEPT !.at = "taken", !.intent = Latest]
           tardy == [process[p] EXCEPT !.at = "taken", !.intent = Latest, !.late = TRUE]
<1>6. /\ prompt \in CommandRecord /\ prompt.at = "taken" /\ prompt.intent = Latest
      /\ tardy \in CommandRecord /\ tardy.at = "taken" /\ tardy.intent = Latest
  BY <1>3, <1>4 DEF CommandRecord, Deciding, Publishing
<1>7. CASE ~LastIntent.late
  <2>1. intents' = intents /\ process' = [process EXCEPT ![p] = prompt]
    BY <1>7 DEF TakeIntent
  <2> HIDE DEF prompt
  <2>2. /\ process' \in [Processes -> CommandRecord] /\ process'[p] = prompt
        /\ \A q \in Processes \ {p} : process'[q] = process[q]
    BY <1>4, <1>6, <2>1
  <2>3. Latest' = Latest /\ Onward
    BY <1>1, <1>2, <2>1, StillOnward DEF Latest
  <2>4. CommandsInv'
    BY <1>1, <1>2, <1>3, <1>5, <1>6, <2>2, <2>3, CommandDecides
  <2> QED
    BY <1>2, <2>1, <2>2, <2>4, CommandStepKeeps
<1>8. CASE LastIntent.late
  <2>1. Missed(FALSE) /\ (process' = [process EXCEPT ![p] = tardy] \/ Finish(p))
    BY <1>8 DEF TakeIntent
  <2> HIDE DEF prompt, tardy
  <2>2. IntentsInv' /\ intents' \in Seq(Intent) /\ Latest <= Latest' /\ Latest' \in Nat
    BY <1>2, <1>3, <1>8, <2>1, MissedMoves
  <2>3. Onward
    BY <1>3, <1>5, <2>2 DEF Onward
  <2>4. CASE process' = [process EXCEPT ![p] = tardy]
    <3>1. /\ process' \in [Processes -> CommandRecord] /\ process'[p] = tardy
          /\ \A q \in Processes \ {p} : process'[q] = process[q]
      BY <1>4, <1>6, <2>4
    <3>2. tardy.intent \in 1..Latest'
      BY <1>3, <1>6, <2>2
    <3>3. CommandsInv'
      BY <1>1, <1>2, <1>5, <1>6, <2>3, <3>1, <3>2, CommandDecides
    <3> QED
      BY <1>2, <2>2, <3>1, <3>3, IntentStepKeeps
  <2>5. CASE Finish(p)
    <3>1. /\ process' \in [Processes -> CommandRecord] /\ process'[p].at = "idle"
          /\ \A q \in Processes \ {p} : process'[q] = process[q]
      BY <1>1, <2>5, CommandFinishes
    <3>2. CommandsInv'
      BY <1>1, <1>2, <2>3, <3>1, CommandAway DEF Deciding, Publishing
    <3> QED
      BY <1>2, <2>2, <3>1, <3>2, IntentStepKeeps
  <2> QED
    BY <2>1, <2>4, <2>5
<1> QED
  BY <1>7, <1>8

(* The paths are written once: whose bytes they hold does not change. *)
LEMMA WriteFileKeeps ==
  ASSUME ClosureInv, NEW p \in Processes,
         WriteFile(p, "taken", "intent", "announced") \/ WriteFile(p, "announced", "report", "written")
  PROVE  ClosureInv'
<1>1. ClosureTyped /\ StagesInv /\ IntentsInv /\ CommandsInv
  BY DEF ClosureInv
<1>2. /\ control' = control /\ call' = call /\ manifest' = manifest /\ replay' = replay
      /\ intents' = intents /\ process[p].at \in {"taken", "announced"}
      /\ Latest' = Latest
  BY DEF WriteFile, Latest
<1>3. /\ process[p].intent \in 1..Latest /\ Latest \in Nat /\ Pending = {} /\ Pending' = {}
      /\ Decided /\ process[p].intent \in Nat \ {0}
      /\ process[p].at = "announced" => file.intent = process[p].intent
  BY <1>1, <1>2, LatestFacts, CallsStayDecided
     DEF Decided, CommandsInv, Answerable, Deciding, Publishing
<1>4. file = [intent |-> file.intent, report |-> file.report] /\ file.intent \in Nat /\ file.report \in Nat
  BY <1>1 DEF ClosureTyped
<1> DEFINE mine == process[p].intent
<1>5. \/ /\ process[p].at = "taken" /\ file.intent \in {0, mine}
         /\ file' = [intent |-> mine, report |-> file.report] /\ Goes(p, "announced")
      \/ /\ process[p].at = "announced" /\ file.report \in {0, mine}
         /\ file' = [intent |-> file.intent, report |-> mine] /\ Goes(p, "written")
      \/ file' = file /\ Goes(p, "conflict")
  BY <1>4 DEF WriteFile
<1>6. PICK at \in {"announced", "written", "conflict"} :
        /\ Goes(p, at)
        /\ at = "announced" => file'.intent = mine
        /\ at = "written" => file'.intent = mine /\ file'.report = mine
  BY <1>3, <1>5
<1>7. /\ file' \in [intent : Nat, report : Nat]
      /\ file.intent # 0 => file'.intent = file.intent
      /\ file.report # 0 => file'.report = file.report
  BY <1>3, <1>4, <1>5
<1>8. /\ process' \in [Processes -> CommandRecord] /\ process'[p].at = at
      /\ process'[p].intent = mine
      /\ \A q \in Processes \ {p} : process'[q] = process[q]
  BY <1>1, <1>6, CommandGoes DEF Goes, Deciding, Publishing
<1> HIDE DEF mine
<1>9. CommandsInv'
  <2>1. Answerable(p)'
    BY <1>2, <1>3, <1>6, <1>8 DEF Answerable, Deciding, Publishing, mine
  <2>2. ASSUME NEW q \in Processes \ {p}
        PROVE  Answerable(q)'
    <3>1. Answerable(q) /\ process'[q] = process[q]
      BY <1>1, <1>8 DEF CommandsInv
    <3>2. process[q].at \in Publishing => process[q].intent # 0
      BY <1>3, <3>1 DEF Answerable
    <3> QED
      BY <1>2, <1>3, <1>7, <3>1, <3>2 DEF Answerable, Publishing
  <2> QED
    BY <2>1, <2>2 DEF CommandsInv
<1>10. ClosureTyped'
  BY <1>1, <1>2, <1>7, <1>8 DEF ClosureTyped
<1>11. StagesInv'
  BY <1>1, <1>2, StagesKept
<1>12. IntentsInv'
  <2>1. ASSUME NEW i \in 1..Latest, intents[i].state = "published"
        PROVE  file' = [intent |-> i, report |-> i]
    <3>1. file.intent = i /\ file.report = i /\ i # 0
      BY <1>1, <1>3, <2>1 DEF IntentsInv
    <3> QED
      BY <1>7, <3>1
  <2> QED
    BY <1>1, <1>2, <1>3, <2>1 DEF IntentsInv, LastIntent
<1> QED
  BY <1>9, <1>10, <1>11, <1>12 DEF ClosureInv

LEMMA RecordConflictKeeps ==
  ASSUME ClosureInv, NEW p \in Processes, RecordConflict(p)
  PROVE  ClosureInv'
<1>1. ClosureTyped /\ IntentsInv /\ CommandsInv
  BY DEF ClosureInv
<1>2. /\ control' = control /\ call' = call /\ manifest' = manifest /\ replay' = replay
      /\ file' = file /\ process[p].at = "conflict" /\ process[p].intent = Latest /\ Finish(p)
      /\ LastIntent.state \in Conflictable
  BY DEF RecordConflict, Current, Event
<1>3. /\ Latest \in 1..Latest /\ Latest \in Nat /\ LastIntent \in Intent
      /\ LastIntent = intents[Latest] /\ LastIntent.state # "published"
  BY <1>1, <1>2, LatestFacts DEF CommandsInv, Answerable, Publishing, Conflictable
<1>4. /\ process' \in [Processes -> CommandRecord] /\ process'[p].at = "idle"
      /\ \A q \in Processes \ {p} : process'[q] = process[q]
  BY <1>1, <1>2, CommandFinishes
<1>5. control.state # "complete" /\ ~(LastIntent.receipt /\ ~LastIntent.late)
  BY <1>1, <1>3 DEF IntentsInv
<1>6. IntentsInv' /\ intents' \in Seq(Intent) /\ Latest <= Latest' /\ Latest' \in Nat
  <2>1. CASE LastIntent.kind = "pass"
    <3>1. intents' = Committed("failure")
      BY <2>1 DEF RecordConflict
    <3>2. Appended("failure")
      BY <1>1, <1>3, <3>1, CommitAppends
    <3> QED
      BY <1>1, <1>2, <1>3, <1>5, <3>2, AppendedIntents DEF Appended
  <2>2. CASE LastIntent.kind # "pass"
    <3> DEFINE new == [LastIntent EXCEPT !.state = "artifact_conflict"]
    <3>1. /\ new \in Intent /\ new.kind = LastIntent.kind /\ new.state = "artifact_conflict"
          /\ new.receipt = LastIntent.receipt /\ new.late = LastIntent.late
      BY <1>3 DEF Intent
    <3>2. intents' = [intents EXCEPT ![Latest] = new]
      BY <1>3, <2>2 DEF RecordConflict, Event
    <3> HIDE DEF new
    <3>3. IntentsInv' /\ intents' \in Seq(Intent) /\ Latest' = Latest
      BY <1>1, <1>2, <1>3, <1>5, <3>1, <3>2, AmendedIntents
    <3> QED
      BY <1>3, <3>3
  <2> QED
    BY <2>1, <2>2
<1>7. CommandsInv'
  BY <1>1, <1>2, <1>3, <1>4, <1>6, CallsStayDecided, CommandAway
     DEF Onward, Deciding, Publishing
<1> QED
  BY <1>2, <1>4, <1>6, <1>7, IntentStepKeeps

(* The receipt of the latest intent: in time, its word is the last.            *)
LEMMA PublishedIntents ==
  ASSUME ClosureTyped, IntentsInv, Latest \in 1..Latest, LastIntent.state # "published",
         NEW new \in Intent, new.kind = LastIntent.kind, new.state = "published",
         new.receipt, ~new.late, intents' = [intents EXCEPT ![Latest] = new],
         file' = [intent |-> Latest, report |-> Latest], Pending' = {},
         control'.state = "complete" <=> LastIntent.kind = "pass"
  PROVE  IntentsInv' /\ intents' \in Seq(Intent) /\ Latest' = Latest
<1>1. /\ Latest \in Nat /\ LastIntent = intents[Latest] /\ intents \in Seq(Intent)
      /\ intents # <<>>
  BY LatestFacts DEF ClosureTyped
<1>2. intents' \in Seq(Intent) /\ Len(intents') = Len(intents) /\ intents' # <<>>
  BY <1>1 DEF Latest
<1>3. Latest' = Latest
  BY <1>2 DEF Latest
<1>4. /\ intents'[Latest] = new
      /\ \A i \in 1..Latest : i # Latest => intents'[i] = intents[i]
  BY <1>1 DEF Latest
<1>5. LastIntent' = new
  BY <1>3, <1>4 DEF LastIntent, Last, Latest
<1>6. ASSUME NEW i \in 1..Latest
      PROVE  /\ intents'[i].state = "published" <=> i = Latest
             /\ (intents'[i].receipt /\ ~intents'[i].late) <=> i = Latest
             /\ i # Latest /\ intents'[i].kind = "failure" => intents'[i + 1].kind = "failure"
  <2>1. CASE i = Latest
    BY <1>4, <2>1
  <2>2. CASE i # Latest
    <3>1. intents'[i + 1].kind = intents[i + 1].kind
      BY <1>1, <1>4, <2>2
    <3> QED
      BY <1>1, <1>4, <2>2, <3>1 DEF IntentsInv
  <2> QED
    BY <2>1, <2>2
<1> QED
  BY <1>2, <1>3, <1>5, <1>6 DEF IntentsInv

LEMMA ReceiptInTimeKeeps ==
  ASSUME ClosureInv, NEW p \in Processes, RecordReceipt(p), ~LastIntent.late
  PROVE  ClosureInv'
<1>1. ClosureTyped /\ StagesInv /\ IntentsInv /\ CommandsInv
  BY DEF ClosureInv
<1>2. /\ call' = call /\ manifest' = manifest /\ replay' = replay /\ file' = file
      /\ process[p].at = "written" /\ process[p].intent = Latest /\ Finish(p)
      /\ LastIntent.state = "committed"
      /\ intents' = [intents EXCEPT ![Latest].state = "published", ![Latest].receipt = TRUE]
  BY DEF RecordReceipt, Current
<1>3. /\ Latest \in 1..Latest /\ Latest \in Nat /\ LastIntent \in Intent
      /\ LastIntent = intents[Latest]
      /\ file.intent = Latest /\ file.report = Latest /\ Pending = {} /\ Pending' = {} /\ Decided
  BY <1>1, <1>2, LatestFacts, CallsStayDecided
     DEF Decided, CommandsInv, Answerable, Publishing, Deciding
<1>4. file' = [intent |-> Latest, report |-> Latest]
  BY <1>1, <1>2, <1>3 DEF ClosureTyped
<1>5. /\ process' \in [Processes -> CommandRecord] /\ process'[p].at = "idle"
      /\ \A q \in Processes \ {p} : process'[q] = process[q]
  BY <1>1, <1>2, CommandFinishes
<1>6. control.state # "complete"
  BY <1>1, <1>2, <1>3 DEF IntentsInv
<1>7. \/ /\ LastIntent.kind = "pass" /\ control.stage = "settled"
         /\ control' = [control EXCEPT !.stage = "final_committed", !.state = "complete"]
      \/ LastIntent.kind # "pass" /\ control' = control
  BY DEF RecordReceipt, FinalCommittable
<1>8. /\ control' \in [stage : RunStages, state : {"active", "failed", "complete"},
                       snapshot : {"none", "incomplete", "nonpass", "pass"}]
      /\ control'.state = "complete" <=> LastIntent.kind = "pass"
      /\ StagesInv'
  <2>1. CASE LastIntent.kind = "pass"
    <3>1. /\ control' \in [stage : RunStages, state : {"active", "failed", "complete"},
                           snapshot : {"none", "incomplete", "nonpass", "pass"}]
          /\ control'.stage = "final_committed" /\ control'.state = "complete"
          /\ control'.snapshot = control.snapshot /\ control.stage = "settled"
      BY <1>1, <1>7, <2>1 DEF ClosureTyped, RunStages
    <3> QED
      BY <1>1, <1>2, <2>1, <3>1 DEF StagesInv
  <2>2. CASE LastIntent.kind # "pass"
    BY <1>1, <1>2, <1>6, <1>7, <2>2, StagesKept DEF ClosureTyped
  <2> QED
    BY <2>1, <2>2
<1> DEFINE new == [LastIntent EXCEPT !.state = "published", !.receipt = TRUE]
<1>9. /\ new \in Intent /\ new.kind = LastIntent.kind /\ new.state = "published"
      /\ new.receipt /\ ~new.late
  BY <1>3 DEF Intent
<1>10. intents' = [intents EXCEPT ![Latest] = new]
  BY <1>2, <1>3
<1> HIDE DEF new
<1>11. IntentsInv' /\ intents' \in Seq(Intent) /\ Latest' = Latest
  BY <1>1, <1>2, <1>3, <1>4, <1>8, <1>9, <1>10, PublishedIntents
<1>12. CommandsInv'
  BY <1>1, <1>2, <1>3, <1>5, <1>11, CommandAway DEF Onward, Deciding, Publishing
<1>13. ClosureTyped'
  BY <1>1, <1>2, <1>5, <1>8, <1>11 DEF ClosureTyped
<1> QED
  BY <1>8, <1>11, <1>12, <1>13 DEF ClosureInv

LEMMA LateReceiptKeeps ==
  ASSUME ClosureInv, NEW p \in Processes, RecordReceipt(p), LastIntent.late
  PROVE  ClosureInv'
<1>1. ClosureTyped /\ IntentsInv /\ CommandsInv
  BY DEF ClosureInv
<1>2. /\ control' = control /\ call' = call /\ manifest' = manifest /\ replay' = replay
      /\ file' = file /\ process[p].at = "written" /\ process[p].intent = Latest /\ Finish(p)
  BY DEF RecordReceipt, Current
<1>3. /\ Latest \in 1..Latest /\ Latest \in Nat /\ LastIntent \in Intent
      /\ LastIntent = intents[Latest]
  BY <1>1, <1>2, LatestFacts DEF CommandsInv, Answerable, Publishing
<1>4. LastIntent.state # "published"
  BY <1>1, <1>3 DEF IntentsInv
<1>5. /\ process' \in [Processes -> CommandRecord] /\ process'[p].at = "idle"
      /\ \A q \in Processes \ {p} : process'[q] = process[q]
  BY <1>1, <1>2, CommandFinishes
<1>6. IntentsInv' /\ intents' \in Seq(Intent) /\ Latest <= Latest' /\ Latest' \in Nat
  <2>1. CASE intents' = [intents EXCEPT ![Latest].receipt = TRUE]
    <3> DEFINE new == [LastIntent EXCEPT !.receipt = TRUE]
    <3>1. /\ new \in Intent /\ new.kind = LastIntent.kind /\ new.state = LastIntent.state
          /\ new.late
      BY <1>3 DEF Intent
    <3>2. intents' = [intents EXCEPT ![Latest] = new]
      BY <1>3, <2>1
    <3> HIDE DEF new
    <3>3. IntentsInv' /\ intents' \in Seq(Intent) /\ Latest' = Latest
      BY <1>1, <1>2, <1>3, <1>4, <3>1, <3>2, AmendedIntents
    <3> QED
      BY <1>3, <3>3
  <2>2. CASE Missed(TRUE)
    BY <1>2, <1>3, <1>4, <2>2, MissedMoves
  <2> QED
    BY <2>1, <2>2 DEF RecordReceipt
<1>7. CommandsInv'
  BY <1>1, <1>2, <1>3, <1>5, <1>6, CallsStayDecided, CommandAway
     DEF Onward, Deciding, Publishing
<1> QED
  BY <1>2, <1>5, <1>6, <1>7, IntentStepKeeps

LEMMA CommandKeeps ==
  ASSUME ClosureInv, NEW p \in Processes, Command(p)
  PROVE  ClosureInv'
<1>1. CASE RecordReceipt(p)
  BY <1>1, ReceiptInTimeKeeps, LateReceiptKeeps
<1> QED
  BY <1>1, PollSettlementKeeps, SettlementKeeps, AdvanceSettledKeeps, FinalizeOverdueKeeps,
     FindTerminalKeeps, PublishCanceledKeeps, TakeIntentKeeps, WriteFileKeeps,
     RecordConflictKeeps, CommandEndsKeeps DEF Command

(* A reliability run has one verdict, for any calls, replay targets and number *)
(* of commands that settle, finalize and publish at once and stop anywhere.    *)
THEOREM VerdictAlwaysStands == ClosureSpec => []VerdictStands
<1>1. ClosureInv /\ [ClosureNext]_closureVars => ClosureInv'
  <2> SUFFICES ASSUME ClosureInv, [ClosureNext]_closureVars PROVE ClosureInv'
    OBVIOUS
  <2>1. CASE ClosureNext
    <3>1. CASE DeadlinePasses
      BY <3>1, UnseenKeeps DEF DeadlinePasses
    <3> QED
      BY <2>1, <3>1, CallEndsKeeps, PublishManifestKeeps, ReplaysKeep, CommandKeeps,
         FailProtocolKeeps, EndFreshCallsKeeps, StageEntered, IntentOverdueKeeps DEF ClosureNext
  <2>2. CASE UNCHANGED closureVars
    BY <2>2, UnseenKeeps DEF closureVars
  <2> QED
    BY <2>1, <2>2
<1> QED
  BY <1>1, ClosureStarts, StandsEnough, PTL DEF ClosureSpec
=============================================================================
