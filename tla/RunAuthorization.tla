--------------------------- MODULE RunAuthorization --------------------------
(* How a reliability run gets the authority to spend: the run command begins   *)
(* the one authorization operation of its run, decides on the pair of signed   *)
(* artifacts it was given, publishes a receipt of each and completes the       *)
(* transition, every step before a deadline of its own; only then may a block  *)
(* be claimed and a call be authorised (protocolStore, verifyPair and the run  *)
(* command of v4).  A command that fails at any point fails the run.           *)
EXTENDS Naturals

CONSTANTS
  Command,       \* invocations of the run command
  CommandOwner,  \* the --owner-id each is started with
  PresentedTo,   \* the pair of artifacts given to each
  NoOwner

VARIABLES
  time,         \* the deadlines of the operation that have passed
  operation,    \* row of reliability_authorization_operations
  decision,     \* row of reliability_authorization_decisions
  outbox,       \* rows of reliability_authorization_outbox
  receiptFiles, \* the receipts in write-once files
  nonce,        \* the operator's nonce is in reliability_authorization_nonces
  control,      \* state of the control row
  sealed,       \* the calls are registered
  block,        \* the owner of the block's claim
  served,       \* a call was authorised over HTTP
  command       \* what each invocation is doing
authorizationVars ==
  <<time, operation, decision, outbox, receiptFiles, nonce, control, sealed, block, served, command>>

Kinds == {"operator", "reconciliation"}

\* The deadlines: 5, 20, 50 and 55 seconds after the operation began.
Validation == 1
Deciding == 2
Publication == 3
Transition == 4

Missed(deadline) == time >= deadline

ValidPair(pair) == \A kind \in Kinds : pair[kind] = "valid"

NoDecision == [kind |-> "none", reason |-> "none", pair |-> [kind \in Kinds |-> "absent"]]

AuthorizationInit ==
  /\ time = 0
  /\ operation = [begun |-> FALSE, inWindow |-> FALSE, failure |-> "none", published |-> FALSE, completed |-> FALSE]
  /\ decision = NoDecision
  /\ outbox = [kind \in Kinds |-> "none"] /\ receiptFiles = {}
  /\ nonce \in BOOLEAN
  /\ control = "active" /\ sealed \in BOOLEAN
  /\ block = NoOwner /\ served = FALSE
  /\ command = [x \in Command |-> "idle"]

Stands(x, place) == command[x] = place
Goes(x, place) == command' = [command EXCEPT ![x] = place]

-----------------------------------------------------------------------------
(* An operation is begun once; its deadlines are those of the first command.   *)
BeginAuthorizationOperation(x) ==
  /\ Stands(x, "idle")
  /\ Goes(x, "begun")
  /\ IF operation.begun
     THEN UNCHANGED operation
     ELSE \E inWindow \in BOOLEAN :
            operation' = [operation EXCEPT !.begun = TRUE, !.inWindow = inWindow]
  /\ UNCHANGED <<time, decision, outbox, receiptFiles, nonce, control, sealed, block, served>>

\* A decision of the run, with both receipts to publish.
Store(kind, reason, x) ==
  /\ decision' = [kind |-> kind, reason |-> reason, pair |-> PresentedTo[x]]
  /\ outbox' = [k \in Kinds |-> "stored"]
  /\ control' = IF kind = "active" THEN control ELSE "failed"

\* commitAuthorizationPredecisionFailure, which a repetition of finds and any
\* other decision refuses; the command fails either way.
FailPredecision(x, reason) ==
  /\ Goes(x, "failing")
  /\ IF decision = NoDecision
     THEN Store("readiness_predecision_failed", reason, x)
     ELSE UNCHANGED <<decision, outbox, control>>
  /\ UNCHANGED <<time, operation, receiptFiles, nonce, sealed, block, served>>

MissesValidation(x) ==
  /\ \/ Stands(x, "begun") /\ (~operation.inWindow \/ Missed(Validation))
     \/ Stands(x, "ready") /\ Missed(Validation)
  /\ FailPredecision(x, "validation_phase_deadline")

MissesDecision(x) ==
  /\ Stands(x, "ready") \/ Stands(x, "deciding")
  /\ Missed(Deciding)
  /\ FailPredecision(x, "decision_phase_deadline")

\* recordExactProductionReadiness, when the setup is what the plan says.
RecordReadiness(x) ==
  /\ Stands(x, "begun") /\ operation.inWindow /\ ~Missed(Validation)
  /\ Goes(x, "ready")
  /\ UNCHANGED <<time, operation, decision, outbox, receiptFiles, nonce, control, sealed, block, served>>

\* verifyPair, up to the transaction of the decision.
Verify(x) ==
  /\ Stands(x, "ready") /\ ~Missed(Validation)
  /\ Goes(x, "deciding")
  /\ UNCHANGED <<time, operation, decision, outbox, receiptFiles, nonce, control, sealed, block, served>>

\* The verdict of an earlier decision is read from a JSONB column, which does
\* not keep the order of its keys, and compared as text: it is never the same.
SameVerdict == FALSE

\* A new decision is active for a valid pair whose nonce was never used.
Undecided == decision = NoDecision
Granted(x) == Undecided /\ ValidPair(PresentedTo[x]) /\ ~nonce

CommitAuthorization(x) ==
  /\ Stands(x, "deciding") /\ ~Missed(Deciding)
  /\ \/ /\ Granted(x)
        /\ Store("active", "valid_pair", x)
        /\ nonce' = TRUE /\ Goes(x, "publishing")
     \/ /\ Undecided /\ ~ValidPair(PresentedTo[x])
        /\ Store("readiness_failed", "absent_or_invalid_pair", x)
        /\ Goes(x, "publishing") /\ UNCHANGED nonce
     \/ /\ Undecided => ValidPair(PresentedTo[x]) /\ nonce
        /\ Goes(x, IF ~Undecided /\ SameVerdict THEN "publishing" ELSE "failing")
        /\ UNCHANGED <<decision, outbox, control, nonce>>
  /\ UNCHANGED <<time, operation, receiptFiles, sealed, block, served>>

-----------------------------------------------------------------------------
(* publishAuthorizationOutbox: each file, then the mark on its row, then the   *)
(* whole.  What is late is marked as well, and fails the operation.            *)
Unpublished == {kind \in Kinds : outbox[kind] = "stored"}

\* Faulty: goes on before the file is written.
NotAwaited(kind) == receiptFiles

Written(kind) == receiptFiles \cup {kind}

PublishReceipt(x) ==
  /\ Stands(x, "publishing") /\ Unpublished # {}
  /\ \E kind \in Unpublished :
       /\ kind = "operator" \/ "operator" \notin Unpublished
       /\ receiptFiles' = Written(kind) /\ Goes(x, kind)
  /\ UNCHANGED <<time, operation, decision, outbox, nonce, control, sealed, block, served>>

FailOperation(reason) ==
  /\ operation' = [operation EXCEPT !.failure = IF @ = "none" THEN reason ELSE @]
  /\ control' = "failed"

MarkPublished(x, kind) ==
  /\ Stands(x, kind)
  /\ outbox' = [outbox EXCEPT ![kind] = "published"] /\ Goes(x, "publishing")
  /\ IF Missed(Publication)
     THEN FailOperation("authorization_publication_deadline")
     ELSE UNCHANGED <<operation, control>>
  /\ UNCHANGED <<time, decision, receiptFiles, nonce, sealed, block, served>>

FinishPublication(x) ==
  /\ Stands(x, "publishing") /\ Unpublished = {}
  /\ IF Missed(Publication)
     THEN FailOperation("authorization_publication_deadline") /\ Goes(x, "failing")
     ELSE /\ operation' = [operation EXCEPT !.published = TRUE]
          /\ Goes(x, "completing") /\ UNCHANGED control
  /\ UNCHANGED <<time, decision, outbox, receiptFiles, nonce, sealed, block, served>>

TransitionAllowed == operation.published /\ operation.failure = "none" /\ ~Missed(Transition)

\* A pair that was not valid is refused only after all this.
CompleteAuthorizationOperation(x) ==
  /\ Stands(x, "completing")
  /\ IF TransitionAllowed
     THEN /\ operation' = [operation EXCEPT !.completed = TRUE]
          /\ Goes(x, IF decision.kind = "active" THEN "authorized" ELSE "failing") /\ UNCHANGED control
     ELSE FailOperation("authorization_transition_deadline") /\ Goes(x, "failing")
  /\ UNCHANGED <<time, decision, outbox, receiptFiles, nonce, sealed, block, served>>

-----------------------------------------------------------------------------
RegisterSealedCalls(x) ==
  /\ Stands(x, "authorized") /\ control = "active"
  /\ sealed' = TRUE /\ Goes(x, "running")
  /\ UNCHANGED <<time, operation, decision, outbox, receiptFiles, nonce, control, block, served>>

PairDecided == decision.kind = "active"
BothPublished == \A kind \in Kinds : outbox[kind] = "published"

Claimable == PairDecided /\ BothPublished /\ operation.completed /\ operation.failure = "none"

ClaimBlock(x) ==
  /\ Stands(x, "running") /\ control = "active"
  /\ Claimable /\ sealed /\ block \in {NoOwner, CommandOwner[x]}
  /\ block' = CommandOwner[x] /\ Goes(x, "claimed")
  /\ UNCHANGED <<time, operation, decision, outbox, receiptFiles, nonce, control, sealed, served>>

\* authorizeHttpReliabilityContext, for a call whose turn it is.
AuthorizeHttpReliabilityContext ==
  /\ control = "active" /\ sealed /\ block # NoOwner
  /\ PairDecided /\ BothPublished
  /\ served' = TRUE
  /\ UNCHANGED <<time, operation, decision, outbox, receiptFiles, nonce, control, sealed, block, command>>

\* Whatever throws, a lost connection or a missed window included, ends in the
\* handler that fails the run; that call may be lost as well.
Throws(x) ==
  /\ command[x] \notin {"idle", "failing", "ended"}
  /\ Goes(x, "failing")
  /\ UNCHANGED <<time, operation, decision, outbox, receiptFiles, nonce, control, sealed, block, served>>

FailProtocol(x) ==
  /\ Stands(x, "failing")
  /\ control' = "failed" /\ Goes(x, "ended")
  /\ UNCHANGED <<time, operation, decision, outbox, receiptFiles, nonce, sealed, block, served>>

CommandDies(x) ==
  /\ command[x] \notin {"idle", "ended"}
  /\ Goes(x, "ended")
  /\ UNCHANGED <<time, operation, decision, outbox, receiptFiles, nonce, control, sealed, block, served>>

PassDeadline ==
  /\ operation.begun /\ time < Transition
  /\ time' = time + 1
  /\ UNCHANGED <<operation, decision, outbox, receiptFiles, nonce, control, sealed, block, served, command>>

AuthorizationNext ==
  \/ \E x \in Command :
       \/ BeginAuthorizationOperation(x) \/ MissesValidation(x) \/ MissesDecision(x)
       \/ RecordReadiness(x) \/ Verify(x) \/ CommitAuthorization(x)
       \/ PublishReceipt(x) \/ FinishPublication(x) \/ CompleteAuthorizationOperation(x)
       \/ \E kind \in Kinds : MarkPublished(x, kind)
       \/ RegisterSealedCalls(x) \/ ClaimBlock(x)
       \/ Throws(x) \/ FailProtocol(x) \/ CommandDies(x)
  \/ AuthorizeHttpReliabilityContext \/ PassDeadline

AuthorizationSpec == AuthorizationInit /\ [][AuthorizationNext]_authorizationVars

-----------------------------------------------------------------------------
(* Nothing is dispatched on authority that was not complete in time, however   *)
(* many commands are started, fail or die: behind a claimed block stands a     *)
(* valid pair, both its receipts are in their files, and the operation         *)
(* completed and did not fail, not afterwards either.  A decision against the  *)
(* run and a failed operation have failed the run, and no call was served.     *)
AuthorityPrecedesDispatch ==
  /\ block # NoOwner \/ served =>
       /\ operation.inWindow /\ operation.completed /\ operation.failure = "none"
       /\ ValidPair(decision.pair) /\ nonce /\ receiptFiles = Kinds
  /\ decision.kind \notin {"none", "active"} \/ operation.failure # "none" =>
       control = "failed" /\ ~served
  /\ {kind \in Kinds : outbox[kind] = "published"} \subseteq receiptFiles
=============================================================================
