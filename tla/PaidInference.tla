---------------------------- MODULE PaidInference ----------------------------
(* The paid endpoints of the HTTP application in its settlement mode: a call   *)
(* is previewed, pays, is executed under its idempotency key, and on the       *)
(* product endpoint its payment is recorded as evidence before it is answered. *)
(* The payment is taken by a gateway before the admission decides, and nothing *)
(* gives it back; calls under one key overlap, and the process may die between *)
(* any two of these steps.  A replay is authorised against the stored answer   *)
(* and pays nothing.                                                           *)
CONSTANTS
  Call,        \* HTTP requests
  Key,         \* idempotency keys
  KeyOf,       \* the key of a call
  BodyOf,      \* what it asks for: its request fingerprint
  EndpointOf,  \* "product", "chat" or "replay"
  NoCall

ASSUME PaidAssumption == KeyOf \in [Call -> Key] /\ NoCall \notin Call

VARIABLES
  execution,        \* per key: its row, with the call that was admitted
  paid,             \* the calls whose payment the gateway accepted
  paymentEvidence,  \* per key: the call whose payment is in fuse_payment_evidence
  call              \* how far each call is
paidVars == <<execution, paid, paymentEvidence, call>>

NoRow == [status |-> "absent", by |-> NoCall]

Row(c) == execution[KeyOf[c]]
HasRow(c) == Row(c).status # "absent"
SameRequest(c) == BodyOf[Row(c).by] = BodyOf[c]

PaidInit ==
  /\ execution = [k \in Key |-> NoRow]
  /\ paid = {}
  /\ paymentEvidence = [k \in Key |-> NoCall]
  /\ call = [c \in Call |-> "new"]

Reaches(c, place) == call' = [call EXCEPT ![c] = place]

Ends(c) == Reaches(c, "ended") /\ UNCHANGED <<execution, paid, paymentEvidence>>

-----------------------------------------------------------------------------
(* The preview evaluates the policy as the admission would and stores no       *)
(* decision; only a denial stops the call.  A key that has a row is answered   *)
(* from it, and there the preview writes as a repetition does: a request whose *)
(* lease is over is given up and goes to review.                               *)
GiveUp(c) ==
  /\ Row(c).status = "executing" /\ SameRequest(c)
  /\ execution' = [execution EXCEPT ![KeyOf[c]].status = "review"]

Preview(c) ==
  /\ call[c] = "new" /\ EndpointOf[c] # "replay"
  /\ \/ ~HasRow(c) /\ (Reaches(c, "quoted") \/ Reaches(c, "ended")) /\ UNCHANGED execution
     \/ GiveUp(c) /\ Reaches(c, "quoted")
     \/ /\ HasRow(c) /\ UNCHANGED execution
        /\ Reaches(c, IF SameRequest(c) /\ Row(c).status # "denied" THEN "quoted" ELSE "ended")
  /\ UNCHANGED <<paid, paymentEvidence>>

RequirePaymentOf(c) ==
  /\ call[c] = "quoted"
  /\ \/ paid' = paid \cup {c} /\ Reaches(c, "executing") /\ UNCHANGED <<execution, paymentEvidence>>
     \/ Ends(c)

-----------------------------------------------------------------------------
(* execute: the admission of a key without a row decides it, and the caller of *)
(* an admitted one waits for the provider.  A row is completed or goes to      *)
(* review also without its caller, by a later call or by its reconciliation.   *)
Admit(c) ==
  /\ call[c] = "executing" /\ ~HasRow(c)
  /\ \/ /\ execution' = [execution EXCEPT ![KeyOf[c]] = [status |-> "executing", by |-> c]]
        /\ Reaches(c, "waiting")
     \/ /\ execution' = [execution EXCEPT ![KeyOf[c]] = [status |-> "denied", by |-> c]]
        /\ Reaches(c, "ended")
  /\ UNCHANGED <<paid, paymentEvidence>>

CompletedForCall(c) == Row(c).status = "completed" /\ SameRequest(c)

Repeat(c) ==
  /\ call[c] = "executing" /\ HasRow(c)
  /\ \/ CompletedForCall(c) /\ Reaches(c, "completed") /\ UNCHANGED execution
     \/ ~CompletedForCall(c) /\ Reaches(c, "ended") /\ UNCHANGED execution
     \/ GiveUp(c) /\ Reaches(c, "ended")
  /\ UNCHANGED <<paid, paymentEvidence>>

Complete(c) ==
  /\ call[c] = "waiting" /\ Row(c).status = "executing"
  /\ execution' = [execution EXCEPT ![KeyOf[c]].status = "completed"]
  /\ Reaches(c, "completed")
  /\ UNCHANGED <<paid, paymentEvidence>>

SettleRow(k) ==
  /\ execution[k].status \in {"executing", "review"}
  /\ execution' = [execution EXCEPT ![k].status =
       IF @ = "executing" THEN "review" ELSE "completed"]
  /\ UNCHANGED <<paid, paymentEvidence, call>>

\* A replay reads the stored answer of a completed request and stores nothing.
Replay(c) ==
  /\ call[c] = "new" /\ EndpointOf[c] = "replay"
  /\ IF HasRow(c) /\ CompletedForCall(c)
     THEN Reaches(c, "answered") /\ UNCHANGED <<execution, paid, paymentEvidence>>
     ELSE Ends(c)

-----------------------------------------------------------------------------
(* PaymentEvidenceStore.record: the first payment of a key is inserted, and    *)
(* another one is a conflict, which costs the call its answer.                 *)
AnyEvidence(c) == TRUE   \* Faulty: takes whichever payment is there.

SameEvidence(c) == paymentEvidence[KeyOf[c]] = c

RecordEvidence(c) ==
  /\ call[c] = "completed" /\ EndpointOf[c] = "product"
  /\ IF paymentEvidence[KeyOf[c]] = NoCall
     THEN paymentEvidence' = [paymentEvidence EXCEPT ![KeyOf[c]] = c] /\ Reaches(c, "answered") /\ UNCHANGED <<execution, paid>>
     ELSE IF SameEvidence(c)
          THEN Reaches(c, "answered") /\ UNCHANGED <<execution, paid, paymentEvidence>>
          ELSE Ends(c)

AnswerChat(c) ==
  /\ call[c] = "completed" /\ EndpointOf[c] = "chat"
  /\ Reaches(c, "answered")
  /\ UNCHANGED <<execution, paid, paymentEvidence>>

\* The process dies, or the store, the gateway or the provider throws.
CallFails(c) == call[c] \notin {"new", "answered", "ended"} /\ Ends(c)

PaidNext ==
  \/ \E c \in Call :
       \/ Preview(c) \/ RequirePaymentOf(c) \/ Admit(c) \/ Repeat(c) \/ Complete(c)
       \/ Replay(c) \/ RecordEvidence(c) \/ AnswerChat(c) \/ CallFails(c)
  \/ \E k \in Key : SettleRow(k)

PaidSpec == PaidInit /\ [][PaidNext]_paidVars

-----------------------------------------------------------------------------
(* Who is answered is accounted for, although payments, rows and evidence are  *)
(* three stores written one after the other by calls that overlap: an admitted *)
(* request was paid for by the call that was admitted; the evidence of a key   *)
(* is a payment taken for it on the product endpoint, of a request that        *)
(* completed; and a call is answered only with the answer to what it asked,    *)
(* and on the product endpoint only once its own payment is the one on record. *)
AnswersAreAccounted ==
  /\ \A k \in Key :
       /\ execution[k].status # "absent" => execution[k].by \in paid
       /\ paymentEvidence[k] # NoCall =>
            /\ KeyOf[paymentEvidence[k]] = k /\ paymentEvidence[k] \in paid
            /\ EndpointOf[paymentEvidence[k]] = "product" /\ execution[k].status = "completed"
  /\ \A c \in Call : call[c] = "answered" =>
       /\ CompletedForCall(c)
       /\ EndpointOf[c] = "product" => paymentEvidence[KeyOf[c]] = c
=============================================================================
