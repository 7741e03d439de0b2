------------------------------ MODULE Providers ------------------------------
(***************************************************************************)
(* The provider configuration of one organization and the verification of   *)
(* its secret (src/src/persistence/providerConfigStore.ts,                  *)
(* src/src/providers/providerAdministration.ts).                            *)
(*                                                                         *)
(* A new secret is stored pending and verified outside the transaction that *)
(* stored it; a retry claims the verification under a request id and a      *)
(* fifteen-minute lease.  Calls stall or die anywhere, an administrator     *)
(* rotates the secret meanwhile, and times written to a row are those at    *)
(* which the call began (the clock is read with its first transaction).     *)
(***************************************************************************)
EXTENDS Naturals, FiniteSets

CONSTANTS
  Secrets,        \* provider keys
  Retries,        \* request ids of verification retries
  Calls,          \* configure and retry calls being served
  RetryLease,     \* fifteen minutes
  LastVersion, LastTime,
  NoSecret, NoCall

ASSUME ProvidersAssumption == {RetryLease, LastVersion, LastTime} \subseteq Nat

VARIABLES
  clock,
  config,         \* provider_configurations
  retry,          \* provider_verification_retries
  call,           \* the calls being served
  accepted        \* history: the secrets the provider accepted

providersVars == <<clock, config, retry, call, accepted>>

NoRetry == [status |-> "absent", token |-> NoCall, version |-> 0, updated |-> 0]
AtRest == [at |-> "idle"]

ProvidersInit ==
  /\ clock = 0
  /\ config = [version |-> 0, secret |-> NoSecret, verification |-> "none", updated |-> 0]
  /\ retry = [q \in Retries |-> NoRetry]
  /\ call = [x \in Calls |-> AtRest]
  /\ accepted = {}

Now(x, place) == call[x].at = place
Step(x, record) == call' = [call EXCEPT ![x] = record]
Proceed(x, place) == call' = [call EXCEPT ![x].at = place]
Return(x) == Step(x, AtRest)

-----------------------------------------------------------------------------
(* ProviderAdministration.configure *)
Configure(x, secret) ==
  /\ Now(x, "idle")
  /\ config.version < LastVersion
  /\ config' = [version |-> config.version + 1, secret |-> secret,
                verification |-> "pending", updated |-> clock]
  /\ Step(x, [at |-> "verify", retry |-> FALSE, secret |-> secret,
              version |-> config.version + 1, since |-> clock])
  /\ UNCHANGED <<clock, retry, accepted>>

(* The provider's answer about the secret the call holds. *)
Verify(x) ==
  /\ Now(x, "verify")
  /\ \/ /\ accepted' = accepted \cup {call[x].secret}
        /\ Proceed(x, "accepted")
     \/ /\ UNCHANGED accepted
        /\ Proceed(x, "refused")
  /\ UNCHANGED <<clock, config, retry>>

(* Faulty: whatever is stored. *)
CurrentAny(x) == config.version > 0

(* The version the call stored or fetched is still the one stored. *)
Current(x) == config.version = call[x].version

Verdict(x) == IF Now(x, "accepted") THEN "verified" ELSE "invalid"

Judge(x) ==
  config' = [config EXCEPT !.verification = Verdict(x), !.updated = call[x].since]

(* markVerificationStatus; a failure to mark it verified marks it invalid. *)
MarkVerificationStatus(x) ==
  /\ Now(x, "accepted") \/ Now(x, "refused")
  /\ ~call[x].retry
  /\ Current(x)
  /\ Judge(x)
  /\ \/ Return(x)
     \/ Now(x, "accepted") /\ Proceed(x, "refused")
  /\ UNCHANGED <<clock, retry, accepted>>

(* PROVIDER_VERIFICATION_STALE, or the database fails. *)
MarkFails(x) ==
  /\ Now(x, "accepted") \/ Now(x, "refused")
  /\ ~call[x].retry
  /\ IF Now(x, "accepted") THEN Proceed(x, "refused") ELSE Return(x)
  /\ UNCHANGED <<clock, config, retry, accepted>>

-----------------------------------------------------------------------------
(* ProviderAdministration.retry *)
Pending == {q \in Retries : retry[q].status = "pending"}

(* A verification under way: of the configuration or of a retry. *)
LeaseTimes ==
  (IF config.verification = "pending" THEN {config.updated} ELSE {}) \cup
  {retry[q].updated : q \in Pending}

InProgress == \E t \in LeaseTimes : t + RetryLease > clock

Expire(rows) ==
  [q \in Retries |->
     IF q \in Pending
     THEN [rows[q] EXCEPT !.status = "invalid", !.version = config.version, !.updated = clock]
     ELSE rows[q]]

BeginVerificationRetry(x, q) ==
  /\ Now(x, "idle")
  /\ config.version > 0
  /\ retry[q].status \in {"absent", "pending"}
  /\ config.verification # "verified"
  /\ ~InProgress
  /\ retry' = [Expire(retry) EXCEPT ![q] =
                 [status |-> "pending", token |-> x, version |-> 0, updated |-> clock]]
  /\ config' = [config EXCEPT !.verification = "pending", !.updated = clock]
  /\ Step(x, [at |-> "claimed", retry |-> TRUE, request |-> q, since |-> clock])
  /\ UNCHANGED <<clock, accepted>>

(* getForVerification, outside the transaction of the claim. *)
GetForVerification(x) ==
  /\ Now(x, "claimed")
  /\ Step(x, [at |-> "verify", retry |-> TRUE, request |-> call[x].request,
              secret |-> config.secret, version |-> config.version, since |-> call[x].since])
  /\ UNCHANGED <<clock, config, retry, accepted>>

(* Faulty: whoever claims. *)
OwnsClaimAnyone(x) == retry[call[x].request].status # "absent"

(* The claim is still the one this call made. *)
OwnsClaim(x) ==
  /\ retry[call[x].request].status = "pending"
  /\ retry[call[x].request].token = x

(* The configuration and the retry are settled together or not at all. *)
FinishVerificationRetry(x) ==
  /\ Now(x, "accepted") \/ Now(x, "refused")
  /\ call[x].retry
  /\ Current(x)
  /\ OwnsClaim(x)
  /\ Judge(x)
  /\ retry' = [retry EXCEPT ![call[x].request] =
                 [@ EXCEPT !.status = Verdict(x), !.version = call[x].version,
                           !.updated = call[x].since]]
  /\ Return(x)
  /\ UNCHANGED <<clock, accepted>>

(* A stale verdict, a lost claim, a failed transaction, a dead process. *)
Drop(x) ==
  /\ ~Now(x, "idle")
  /\ Return(x)
  /\ UNCHANGED <<clock, config, retry, accepted>>

Advance ==
  /\ clock < LastTime
  /\ clock' = clock + 1
  /\ UNCHANGED <<config, retry, call, accepted>>

ProvidersNext ==
  \/ \E x \in Calls :
       \/ \E s \in Secrets : Configure(x, s)
       \/ Verify(x)
       \/ MarkVerificationStatus(x) \/ MarkFails(x)
       \/ \E q \in Retries : BeginVerificationRetry(x, q)
       \/ GetForVerification(x)
       \/ FinishVerificationRetry(x)
       \/ Drop(x)
  \/ Advance

ProvidersSpec == ProvidersInit /\ [][ProvidersNext]_providersVars

-----------------------------------------------------------------------------
(* Rows keep their shape; what a call holds names a version that was stored. *)
ProvidersTypeOK ==
  /\ clock \in 0..LastTime
  /\ config \in [version : 0..LastVersion, secret : Secrets \cup {NoSecret},
                 verification : {"none", "pending", "verified", "invalid"},
                 updated : 0..clock]
  /\ retry \in [Retries -> [status : {"absent", "pending", "verified", "invalid"},
                            token : Calls \cup {NoCall}, version : 0..config.version,
                            updated : 0..clock]]
  /\ \A x \in Calls : call[x].at \in {"idle", "claimed", "verify", "accepted", "refused"}
  /\ \A x \in Calls : call[x].at \in {"verify", "accepted", "refused"} =>
       call[x].version \in 1..config.version
  /\ accepted \subseteq Secrets

(* What the gateway may call with is a secret the provider accepted: neither *)
(* a late verdict about a rotated secret nor a lost claim verifies another.   *)
VerifiedWasAccepted ==
  /\ ProvidersTypeOK
  /\ config.verification = "verified" => config.secret \in accepted

(* A retry that was settled, by its own call or because its lease ended,      *)
(* stays settled as it was: its request id is answered the same for good.     *)
RetriesSettleOnce ==
  [][\A q \in Retries : retry[q].status \in {"verified", "invalid"} =>
       retry'[q] = retry[q]]_providersVars
=============================================================================
