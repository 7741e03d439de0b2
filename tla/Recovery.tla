------------------------------ MODULE Recovery ------------------------------
(***************************************************************************)
(* The recovery of a workspace's agent credential with its recovery code,   *)
(* and the replacement of its credentials by an administrator, which draws   *)
(* a new code (src/src/product/customerOnboarding.ts over                   *)
(* workspaceOnboardingStore.ts and identityStore.ts).  The workspace is      *)
(* completed; its operation names the agent credential it was created with   *)
(* for good.                                                                *)
(*                                                                         *)
(* A client recovers with the code and an idempotency key of its own, which  *)
(* names the sealed answer it may ask for again.  Answers, commits and       *)
(* processes are lost at any point.                                          *)
(***************************************************************************)
EXTENDS Naturals, FiniteSets

CONSTANTS
  Codes,          \* recovery codes, each drawn once
  Credentials,    \* agent credential ids, each drawn once
  Deliveries,     \* idempotency keys of recovering clients
  Clients,        \* requests being served
  First,          \* identifiers.agentCredentialId
  FirstCode,      \* the code handed out with the workspace
  NoCode, NoCredential, NoDelivery

ASSUME RecoveryAssumption ==
  /\ First \in Credentials /\ FirstCode \in Codes
  /\ NoCode \notin Codes /\ NoCredential \notin Credentials

VARIABLES
  recovery,       \* the recovery columns of the completed operation
  credential,     \* api_credentials of the agent
  client,         \* the requests being served
  spentCodes,     \* history: codes drawn
  issuedBy,       \* history: the code a credential was recovered with
  told            \* history: what was answered for a code and a delivery

recoveryVars == <<recovery, credential, client, spentCodes, issuedBy, told>>

Waiting == [at |-> "idle", code |-> NoCode, delivery |-> NoDelivery]

RecoveryInit ==
  /\ recovery = [code |-> FirstCode, consumed |-> NoCode, delivery |-> NoDelivery,
                 envelope |-> NoCredential]
  /\ credential = [c \in Credentials |-> IF c = First THEN "active" ELSE "absent"]
  /\ client = [x \in Clients |-> Waiting]
  /\ spentCodes = {FirstCode}
  /\ issuedBy = [c \in Credentials |-> NoCode]
  /\ told = [code \in Codes |-> [d \in Deliveries |-> {}]]

Stands(x, place) == client[x].at = place
Depart(x) == client' = [client EXCEPT ![x] = Waiting]

-----------------------------------------------------------------------------
(* recoverWorkspaceCredential: a look at the operation, then the rotation. *)

(* The sealed answer of a consumed code, for the delivery that consumed it. *)
Sealed(code, delivery) ==
  /\ recovery.envelope # NoCredential
  /\ recovery.consumed = code
  /\ recovery.delivery = delivery

GetRecovery(x, code, delivery) ==
  /\ Stands(x, "idle")
  /\ code \in spentCodes
  /\ \/ /\ Sealed(code, delivery)
        /\ told' = [told EXCEPT ![code][delivery] = @ \cup {recovery.envelope}]
        /\ UNCHANGED client
     \/ /\ recovery.code = code
        /\ client' = [client EXCEPT ![x] = [at |-> "found", code |-> code, delivery |-> delivery]]
        /\ UNCHANGED told
  /\ UNCHANGED <<recovery, credential, spentCodes, issuedBy>>

CodeHolds(code) == recovery.code = code

Consume(code, delivery, fresh) ==
  recovery' = [code |-> NoCode, consumed |-> code, delivery |-> delivery, envelope |-> fresh]

(* Faulty: revokes it whatever its status. *)
FirstAnyStatus == TRUE

(* The workspace's first credential, which the rotation revokes. *)
FirstActive == credential[First] = "active"

(* One transaction: the code is consumed with the sealed answer, the         *)
(* replacement issued and the first credential revoked, or nothing.          *)
Rotate(x, fresh) ==
  LET code == client[x].code
      delivery == client[x].delivery
  IN  /\ Stands(x, "found")
      /\ CodeHolds(code)
      /\ FirstActive
      /\ credential[fresh] = "absent"
      /\ Consume(code, delivery, fresh)
      /\ credential' = [credential EXCEPT ![fresh] = "active", ![First] = "revoked"]
      /\ issuedBy' = [issuedBy EXCEPT ![fresh] = code]
      /\ told' \in {told, [told EXCEPT ![code][delivery] = @ \cup {fresh}]}
      /\ Depart(x)
      /\ UNCHANGED spentCodes

(* CREDENTIAL_RECOVERY_INVALID, API_CREDENTIAL_NOT_ACTIVE or a failure: rolled back. *)
RotateThrows(x) ==
  /\ Stands(x, "found")
  /\ Depart(x)
  /\ UNCHANGED <<recovery, credential, spentCodes, issuedBy, told>>

-----------------------------------------------------------------------------
(* issueReplacementCredentials: a service credential (not modelled here), an *)
(* agent credential and a new code, each in a transaction of its own.        *)
IssueReplacement(x, fresh) ==
  /\ Stands(x, "idle")
  /\ credential[fresh] = "absent"
  /\ credential' = [credential EXCEPT ![fresh] = "active"]
  /\ client' = [client EXCEPT ![x].at = "issued"]
  /\ UNCHANGED <<recovery, spentCodes, issuedBy, told>>

NewCode(code) ==
  [code |-> code, consumed |-> NoCode, delivery |-> NoDelivery, envelope |-> NoCredential]

RotateRecoveryCode(x, code) ==
  /\ Stands(x, "issued")
  /\ code \notin spentCodes
  /\ recovery' = NewCode(code)
  /\ spentCodes' = spentCodes \cup {code}
  /\ Depart(x)
  /\ UNCHANGED <<credential, issuedBy, told>>

(* The process dies, or the database refuses the new code. *)
Abandon(x) ==
  /\ ~Stands(x, "idle")
  /\ Depart(x)
  /\ UNCHANGED <<recovery, credential, spentCodes, issuedBy, told>>

(* revokeCredential, by an administrator. *)
RevokeCredential(c) ==
  /\ credential[c] = "active"
  /\ credential' = [credential EXCEPT ![c] = "revoked"]
  /\ UNCHANGED <<recovery, client, spentCodes, issuedBy, told>>

RecoveryNext ==
  \/ \E x \in Clients :
       \/ \E code \in Codes, d \in Deliveries : GetRecovery(x, code, d)
       \/ \E fresh \in Credentials : Rotate(x, fresh) \/ IssueReplacement(x, fresh)
       \/ RotateThrows(x)
       \/ \E code \in Codes : RotateRecoveryCode(x, code)
       \/ Abandon(x)
  \/ \E c \in Credentials : RevokeCredential(c)

RecoverySpec == RecoveryInit /\ [][RecoveryNext]_recoveryVars

-----------------------------------------------------------------------------
RecoveryTypeOK ==
  /\ recovery \in [code : Codes \cup {NoCode}, consumed : Codes \cup {NoCode},
                   delivery : Deliveries \cup {NoDelivery},
                   envelope : Credentials \cup {NoCredential}]
  /\ credential \in [Credentials -> {"absent", "active", "revoked"}]
  /\ client \in [Clients -> [at : {"idle", "found", "issued"}, code : Codes \cup {NoCode},
                             delivery : Deliveries \cup {NoDelivery}]]
  /\ spentCodes \subseteq Codes
  /\ issuedBy \in [Credentials -> Codes \cup {NoCode}]
  /\ told \in [Codes -> [Deliveries -> SUBSET Credentials]]

(* A workspace recovers once in its life: the rotation has to revoke the     *)
(* credential the workspace was created with, so at most one credential is   *)
(* ever recovered, whatever codes are drawn afterwards.  Whoever is answered *)
(* about a recovery is told of that credential, and brought the code under   *)
(* the idempotency key that consumed it.                                     *)
RecoversOnce ==
  /\ RecoveryTypeOK
  /\ \A c, d \in Credentials : issuedBy[c] # NoCode /\ issuedBy[d] # NoCode => c = d
  /\ \A c \in Credentials : issuedBy[c] # NoCode => credential[First] = "revoked"
  /\ \A code \in Codes, d \in Deliveries : \A c \in told[code][d] : issuedBy[c] = code
  /\ \A code \in Codes : \A d, e \in Deliveries :
       told[code][d] # {} /\ told[code][e] # {} => d = e
=============================================================================
