--------------------------- MODULE SignerAuthority ---------------------------
(***************************************************************************)
(* The signer boundary (src/src/signer/app.ts, POST /v1/sign) over its       *)
(* authorization store (src/src/signer/authorizationStore.ts).  A handler   *)
(* serves one request of a deployment; it reserves authority in one         *)
(* transaction, asks the wallet to sign, and records what came of it.       *)
(*                                                                         *)
(* Requests that fail validation change nothing and are left out: what      *)
(* arrives is for the tenant, within the cap of one authorization, and      *)
(* inside its validity window.  The fingerprint of a request is its typed   *)
(* data, which fixes its nonce and its amount; the caller of a deployment    *)
(* tells conflicts apart only in the answer, and is left out.               *)
(***************************************************************************)
EXTENDS Amounts

CONSTANTS
  Ids,           \* request ids, chosen by the clients
  TypedData,     \* transfers a client may ask to authorize
  NonceOf,       \* the nonce of each
  AmountOf,      \* its amount
  Handlers,      \* requests being served
  MaximumOf,     \* maximumTotalAtomic of the deployment a handler runs in
  NoId, NoData

ASSUME SignerAssumption ==
  /\ IsFiniteSet(Ids) /\ NoId \notin Ids /\ NoData \notin TypedData
  /\ \A t \in TypedData : AmountOf[t] \in Amount \ {0}
  /\ \A h \in Handlers : MaximumOf[h] \in Amount \ {0}

VARIABLES
  limit,            \* signer_authority_limits, maximum 0 while there is no row
  authorization,    \* signer_authorizations
  handler,          \* the requests being served
  asked             \* history: how often the wallet was asked to sign each

vars == <<limit, authorization, handler, asked>>

Stages == {"idle", "received", "reserved", "signing", "signed", "holding"}

Idle == [stage |-> "idle", id |-> NoId, data |-> NoData]

NoAuthorization == [status |-> "absent", data |-> NoData]

Init ==
  /\ limit = [maximum |-> 0, reserved |-> 0]
  /\ authorization = [i \in Ids |-> NoAuthorization]
  /\ handler = [h \in Handlers |-> Idle]
  /\ asked = [t \in TypedData |-> 0]

At(h, stage) == handler[h].stage = stage
Move(h, stage) == handler' = [handler EXCEPT ![h].stage = stage]
Return(h) == handler' = [handler EXCEPT ![h] = Idle]

Receive(h, i, t) ==
  /\ At(h, "idle")
  /\ handler' = [handler EXCEPT ![h] = [stage |-> "received", id |-> i, data |-> t]]
  /\ UNCHANGED <<limit, authorization, asked>>

-----------------------------------------------------------------------------
(* The reserving transaction, serialized by the row of the limit. *)
Recorded(i) == authorization[i].status # "absent"

(* The first request of an organization records its limit for good. *)
LimitFor(h) == IF limit.maximum = 0 THEN [maximum |-> MaximumOf[h], reserved |-> 0]
                                    ELSE limit

LimitAgrees(h) == LimitFor(h).maximum = MaximumOf[h]

(* The rows that stand for the request: its own, or else one with its data   *)
(* or its nonce under another id.                                            *)
Standing(h) ==
  IF Recorded(handler[h].id) THEN {handler[h].id}
  ELSE {i \in Ids : Recorded(i) /\ NonceOf[authorization[i].data] = NonceOf[handler[h].data]}

(* Faulty: looks at the request alone. *)
FitsAlone(h) == AmountOf[handler[h].data] <= MaximumOf[h]

Fits(h) == LimitFor(h).reserved + AmountOf[handler[h].data] <= MaximumOf[h]

(* SIGNER_AUTHORITY_LIMIT_IMMUTABLE; a rolled back transaction. *)
ReserveThrows(h) ==
  /\ At(h, "received")
  /\ Return(h)
  /\ UNCHANGED <<limit, authorization, asked>>

(* Faulty: takes up a reservation that is still there. *)
RecallAndSign(h) ==
  /\ At(h, "received") /\ LimitAgrees(h) /\ Standing(h) # {}
  /\ IF \E i \in Standing(h) : authorization[i].status = "reserved"
       THEN Move(h, "reserved") ELSE Return(h)
  /\ UNCHANGED <<limit, authorization, asked>>

(* The request is known: its signature, a conflict, in progress or under     *)
(* review.                                                                   *)
Recall(h) ==
  /\ At(h, "received") /\ LimitAgrees(h) /\ Standing(h) # {}
  /\ Return(h)
  /\ UNCHANGED <<limit, authorization, asked>>

(* SIGNER_TOTAL_AUTHORITY_EXCEEDED, committed with the row of the limit. *)
Deny(h) ==
  /\ At(h, "received") /\ LimitAgrees(h) /\ Standing(h) = {} /\ ~Fits(h)
  /\ limit' = LimitFor(h)
  /\ Return(h)
  /\ UNCHANGED <<authorization, asked>>

Record(h) ==
  /\ At(h, "received") /\ LimitAgrees(h) /\ Standing(h) = {} /\ Fits(h)
  /\ authorization' = [authorization EXCEPT ![handler[h].id] =
       [status |-> "reserved", data |-> handler[h].data]]
  /\ limit' = [maximum  |-> MaximumOf[h],
               reserved |-> LimitFor(h).reserved + AmountOf[handler[h].data]]

Reserve(h) == Record(h) /\ Move(h, "reserved") /\ UNCHANGED asked

(* The commit succeeds and its acknowledgement is lost. *)
ReserveUnacknowledged(h) == Record(h) /\ Return(h) /\ UNCHANGED asked

-----------------------------------------------------------------------------
(* The wallet, and what is recorded of its answer. *)
Sign(h) ==
  /\ At(h, "reserved")
  /\ Move(h, "signing")
  /\ asked' = [asked EXCEPT ![handler[h].data] = @ + 1]
  /\ UNCHANGED <<limit, authorization>>

Signed(h) == /\ At(h, "signing") /\ Move(h, "signed")
             /\ UNCHANGED <<limit, authorization, asked>>

(* No answer, an error, or the signature of another wallet. *)
SigningFails(h) == /\ At(h, "signing") /\ Move(h, "holding")
                   /\ UNCHANGED <<limit, authorization, asked>>

(* An update of the row, if it is still reserved. *)
Update(h, status) ==
  /\ authorization[handler[h].id].status = "reserved"
  /\ authorization' = [authorization EXCEPT ![handler[h].id].status = status]
  /\ UNCHANGED <<limit, asked>>

Complete(h) == At(h, "signed") /\ Update(h, "completed") /\ Return(h)

CompleteUnacknowledged(h) == At(h, "signed") /\ Update(h, "completed") /\ Move(h, "holding")

CompleteThrows(h) == /\ At(h, "signed") /\ Move(h, "holding")
                     /\ UNCHANGED <<limit, authorization, asked>>

(* Faulty: does not look at the status of the row. *)
HoldAnyRow(h) ==
  /\ At(h, "holding")
  /\ authorization' = [authorization EXCEPT ![handler[h].id].status = "review"]
  /\ Return(h) /\ UNCHANGED <<limit, asked>>

HoldForReview(h) == At(h, "holding") /\ Update(h, "review") /\ Return(h)

(* The update finds no reserved row or fails: the error is swallowed. *)
HoldThrows(h) == /\ At(h, "holding") /\ Return(h)
                 /\ UNCHANGED <<limit, authorization, asked>>

Crash(h) == /\ ~At(h, "idle") /\ Return(h)
            /\ UNCHANGED <<limit, authorization, asked>>

Next == \E h \in Handlers :
  \/ \E i \in Ids, t \in TypedData : Receive(h, i, t)
  \/ ReserveThrows(h) \/ Recall(h) \/ Deny(h)
  \/ Reserve(h) \/ ReserveUnacknowledged(h)
  \/ Sign(h) \/ Signed(h) \/ SigningFails(h)
  \/ Complete(h) \/ CompleteUnacknowledged(h) \/ CompleteThrows(h)
  \/ HoldForReview(h) \/ HoldThrows(h)
  \/ Crash(h)

Spec == Init /\ [][Next]_vars

-----------------------------------------------------------------------------
Authorization ==
  [ status: {"absent", "reserved", "completed", "review"},
    data: TypedData \cup {NoData} ]

Serving == [stage: Stages, id: Ids \cup {NoId}, data: TypedData \cup {NoData}]

(* Type invariant: the shape of rows and handlers; rows are about a transfer,*)
(* and handlers about a request.                                             *)
SignerTypeOK ==
  /\ limit \in [maximum: Amount, reserved: Amount]
  /\ authorization \in [Ids -> Authorization]
  /\ handler \in [Handlers -> Serving]
  /\ asked \in [TypedData -> Nat]
  /\ \A i \in Ids : Recorded(i) <=> authorization[i].data \in TypedData
  /\ \A h \in Handlers : ~At(h, "idle") => handler[h].id \in Ids
                                           /\ handler[h].data \in TypedData

(* README.md:314: the wallet is asked to sign a transfer at most once, and   *)
(* never two transfers of one nonce, whatever ids and deployments they come  *)
(* by, and whether an attempt fails, is lost or ends under review.           *)
SignedOnce ==
  \A t, u \in TypedData :
    /\ asked[t] <= 1
    /\ asked[t] > 0 /\ asked[u] > 0 /\ NonceOf[t] = NonceOf[u] => t = u

Held(i) == IF Recorded(i) THEN AmountOf[authorization[i].data] ELSE 0

(* The cumulative ceiling bounds every transfer the wallet was ever asked    *)
(* for: each has a row, the rows add up to what is reserved, and no failure  *)
(* gives any of it back.                                                     *)
AuthorityBound ==
  /\ \A t \in TypedData : asked[t] > 0 => \E i \in Ids : authorization[i].data = t
  /\ limit.reserved = Total([i \in Ids |-> Held(i)], Ids)
  /\ limit.reserved <= limit.maximum

(* A signature that was stored stays replayable, and an outcome under review *)
(* stays under review: a handler that reports late rewrites neither.         *)
OutcomesFinal ==
  [][\A i \in Ids : authorization[i].status \in {"completed", "review"}
       => authorization'[i] = authorization[i]]_vars

-----------------------------------------------------------------------------
(* What the theorems rest on: a handler that holds a reservation is alone    *)
(* with its row, and before it signs nobody has asked for its transfer.      *)
Owns(h) == handler[h].stage \in {"reserved", "signing", "signed", "holding"}

OwnershipInv ==
  /\ \A h \in Handlers : Owns(h) =>
       /\ Recorded(handler[h].id)
       /\ authorization[handler[h].id].data = handler[h].data
  /\ \A h \in Handlers : At(h, "reserved") => asked[handler[h].data] = 0
  /\ \A g, h \in Handlers : Owns(g) /\ Owns(h) /\ handler[g].id = handler[h].id => g = h

(* Rows of one nonce are one row. *)
NoncesInv ==
  \A i, j \in Ids : /\ Recorded(i) /\ Recorded(j)
                    /\ NonceOf[authorization[i].data] = NonceOf[authorization[j].data]
                    => i = j
=============================================================================
