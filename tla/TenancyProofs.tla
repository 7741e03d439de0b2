---------------------------- MODULE TenancyProofs ----------------------------
(***************************************************************************)
(* A tenant's secrets, workspace and identities, for any numbers of them, of *)
(* clients and calls, and for any times.  Only what the provider accepted is *)
(* verified and a retry is settled once; a workspace recovers its credential *)
(* once; an onboarding leaves a workspace whole or bare and stays within the *)
(* capacity; and a session has one origin, and ends with it.                 *)
(***************************************************************************)
EXTENDS Providers, Recovery, Onboarding, Identity, FiniteSetTheorems, TLAPS

(* What a call holds: nothing, a claim, or a secret it read with its version. *)
Judging == {"verify", "accepted", "refused"}

Claiming ==
  {c \in [at : {"claimed"}, retry : {TRUE}, request : Retries, since : 0..clock] :
     config.version > 0}

Configuring ==
  [at : Judging, retry : {FALSE}, secret : Secrets, version : 1..config.version, since : 0..clock]

Retrying ==
  [at : Judging, retry : {TRUE}, request : Retries, secret : Secrets,
   version : 1..config.version, since : 0..clock]

CallInv == call \in [Calls -> {AtRest} \cup Claiming \cup Configuring \cup Retrying]

(* While the version a call holds is the one stored, so is its secret; and    *)
(* what it takes for accepted was accepted.  Without this a verdict that is   *)
(* current could be about another secret.                                     *)
SecretInv ==
  /\ config.version > 0 => config.secret \in Secrets
  /\ \A x \in Calls : call[x].at \in Judging =>
       /\ Current(x) => call[x].secret = config.secret
       /\ Now(x, "accepted") => call[x].secret \in accepted

ProvidersInv == VerifiedWasAccepted /\ CallInv /\ SecretInv

-----------------------------------------------------------------------------
LEMMA Kinds ==
  /\ AtRest.at = "idle"
  /\ \A c \in Claiming : c.at = "claimed" /\ c.retry = TRUE /\ c.request \in Retries /\ c.since \in 0..clock
  /\ \A c \in Configuring : c.at \in Judging /\ c.retry = FALSE
  /\ \A c \in Retrying : c.at \in Judging /\ c.retry = TRUE /\ c.request \in Retries
  /\ \A c \in Configuring \cup Retrying :
       c.secret \in Secrets /\ c.version \in 1..config.version /\ c.since \in 0..clock
BY DEF AtRest, Claiming, Configuring, Retrying

LEMMA Places == "idle" \notin Judging /\ "claimed" \notin Judging /\ "idle" # "claimed"
BY DEF Judging

LEMMA CallKinds ==
  ASSUME CallInv, NEW x \in Calls
  PROVE  /\ call[x] \in {AtRest} \cup Claiming \cup Configuring \cup Retrying
         /\ call[x].at = "claimed" => call[x] \in Claiming
         /\ call[x].at \in Judging => call[x] \in Configuring \cup Retrying
         /\ call[x].at \in Judging /\ call[x].retry => call[x] \in Retrying
         /\ call[x].at \in {"idle", "claimed"} \cup Judging
<1>1. call[x] \in {AtRest} \cup Claiming \cup Configuring \cup Retrying
  BY DEF CallInv
<1>2. call[x].at = "claimed" => call[x] \in Claiming
  BY <1>1, Kinds, Places
<1>3. call[x].at \in Judging => call[x] \in Configuring \cup Retrying
  BY <1>1, Kinds, Places
<1>4. call[x].at \in Judging /\ call[x].retry => call[x] \in Retrying
  BY <1>3, Kinds, Zenon
<1>5. call[x].at \in {"idle", "claimed"} \cup Judging
  BY <1>1, Kinds
<1> QED BY <1>1, <1>2, <1>3, <1>4, <1>5

(* What may be held only grows with the versions and the clock.               *)
LEMMA HeldGrow ==
  ASSUME config.version \in Nat, config'.version \in Nat, config.version <= config'.version,
         clock \in Nat, clock' \in Nat, clock <= clock'
  PROVE  /\ Configuring \subseteq Configuring' /\ Retrying \subseteq Retrying'
         /\ Claiming \subseteq Claiming'
<1>1. 1..config.version \subseteq 1..config'.version /\ 0..clock \subseteq 0..clock'
  OBVIOUS
<1>2. Configuring \subseteq Configuring'
  BY <1>1 DEF Configuring
<1>3. Retrying \subseteq Retrying'
  BY <1>1 DEF Retrying
<1>4. Claiming \subseteq Claiming'
  <2>1. [at : {"claimed"}, retry : {TRUE}, request : Retries, since : 0..clock]
          \subseteq [at : {"claimed"}, retry : {TRUE}, request : Retries, since : 0..clock']
    BY <1>1
  <2>2. config.version > 0 => config'.version > 0
    OBVIOUS
  <2> QED BY <2>1, <2>2 DEF Claiming
<1> QED BY <1>2, <1>3, <1>4

(* A step of call x that leaves versions and clock alone keeps what the       *)
(* others hold.                                                               *)
LEMMA HeldKept ==
  ASSUME ProvidersInv, NEW x \in Calls, NEW record,
         Step(x, record), UNCHANGED clock, config'.version = config.version,
         record \in {AtRest} \cup Claiming \cup Configuring \cup Retrying
  PROVE  CallInv'
<1>1. Claiming' = Claiming /\ Configuring' = Configuring /\ Retrying' = Retrying
  BY DEF Claiming, Configuring, Retrying
<1>2. call \in [Calls -> {AtRest} \cup Claiming \cup Configuring \cup Retrying]
  BY DEF ProvidersInv, CallInv
<1>3. call' \in [Calls -> {AtRest} \cup Claiming \cup Configuring \cup Retrying]
  BY <1>2 DEF Step
<1> QED BY <1>1, <1>3 DEF CallInv

(* A call that moves on keeps what it holds.                                  *)
LEMMA ProceedKept ==
  ASSUME ProvidersInv, NEW x \in Calls, NEW place \in Judging, call[x].at \in Judging,
         Proceed(x, place), UNCHANGED clock, config'.version = config.version
  PROVE  /\ CallInv'
         /\ \A y \in Calls : call'[y].at \in Judging =>
              /\ call[y].at \in Judging
              /\ call'[y].secret = call[y].secret /\ call'[y].version = call[y].version
         /\ \A y \in Calls : y # x => call'[y] = call[y]
         /\ call'[x].at = place
<1>1. call[x] \in Configuring \cup Retrying
  BY CallKinds DEF ProvidersInv
<1>2. [call[x] EXCEPT !.at = place] \in Configuring \cup Retrying
  BY <1>1 DEF Configuring, Retrying
<1>3. /\ [call[x] EXCEPT !.at = place].secret = call[x].secret
      /\ [call[x] EXCEPT !.at = place].version = call[x].version
      /\ [call[x] EXCEPT !.at = place].at = place
  BY <1>1 DEF Configuring, Retrying
<1>4. Step(x, [call[x] EXCEPT !.at = place])
  BY DEF Proceed, Step, ProvidersInv, CallInv
<1>5. CallInv'
  BY <1>2, <1>4, HeldKept
<1> QED BY <1>3, <1>4, <1>5 DEF Step, ProvidersInv, CallInv

-----------------------------------------------------------------------------
THEOREM ProvidersInitial == ProvidersInit => ProvidersInv
<1> SUFFICES ASSUME ProvidersInit PROVE ProvidersInv
  OBVIOUS
<1> USE ProvidersAssumption
<1>1. ProvidersTypeOK
  BY DEF ProvidersInit, ProvidersTypeOK, NoRetry, AtRest
<1>2. CallInv
  BY DEF ProvidersInit, CallInv
<1>3. SecretInv
  BY DEF ProvidersInit, SecretInv, AtRest, Judging
<1> QED BY <1>1, <1>2, <1>3 DEF ProvidersInv, VerifiedWasAccepted, ProvidersInit

LEMMA ConfigureKeeps ==
  ASSUME ProvidersInv, NEW x \in Calls, NEW secret \in Secrets, Configure(x, secret)
  PROVE  ProvidersInv'
<1> USE ProvidersAssumption
<1>1. config.version \in 0..LastVersion /\ clock \in 0..LastTime
  BY DEF ProvidersInv, VerifiedWasAccepted, ProvidersTypeOK
<1>2. DEFINE new == [at |-> "verify", retry |-> FALSE, secret |-> secret,
                    version |-> config.version + 1, since |-> clock]
<1>3. /\ config'.version = config.version + 1 /\ config'.secret = secret
      /\ config'.verification = "pending" /\ clock' = clock /\ accepted' = accepted
      /\ config'.version \in 1..LastVersion
  BY <1>1 DEF Configure
<1>4. new \in Configuring'
  BY <1>1, <1>3 DEF Configuring, Judging
<1>5. /\ call' = [call EXCEPT ![x] = new]
      /\ \A y \in Calls : y # x => call'[y] = call[y]
      /\ call'[x] = new
  BY DEF Configure, Step, ProvidersInv, CallInv
<1>6. CallInv'
  <2>1. /\ Configuring \subseteq Configuring' /\ Retrying \subseteq Retrying'
        /\ Claiming \subseteq Claiming'
    BY <1>1, <1>3, HeldGrow
  <2> QED BY <1>4, <1>5, <2>1 DEF ProvidersInv, CallInv
<1>7. ProvidersTypeOK'
  <2>1. /\ clock' \in 0..LastTime /\ accepted' \subseteq Secrets
        /\ config' \in [version : 0..LastVersion, secret : Secrets \cup {NoSecret},
                       verification : {"none", "pending", "verified", "invalid"},
                       updated : 0..clock']
    BY <1>1, <1>3 DEF Configure, ProvidersInv, VerifiedWasAccepted, ProvidersTypeOK
  <2>2. retry' \in [Retries -> [status : {"absent", "pending", "verified", "invalid"},
                               token : Calls \cup {NoCall}, version : 0..config'.version,
                               updated : 0..clock']]
    BY <1>1, <1>3 DEF Configure, ProvidersInv, VerifiedWasAccepted, ProvidersTypeOK
  <2>3. \A y \in Calls : call'[y].at \in {"idle", "claimed"} \cup Judging
    BY <1>5 DEF ProvidersInv, VerifiedWasAccepted, ProvidersTypeOK, Judging
  <2>4. \A y \in Calls : call'[y].at \in Judging => call'[y].version \in 1..config'.version
    BY <1>1, <1>3, <1>5 DEF ProvidersInv, VerifiedWasAccepted, ProvidersTypeOK, Judging
  <2> QED BY <2>1, <2>2, <2>3, <2>4 DEF ProvidersTypeOK, Judging
<1>8. SecretInv'
  <2>1. \A y \in Calls : y # x /\ call[y].at \in Judging => ~(config'.version = call[y].version)
    BY <1>1, <1>3, CallKinds, Kinds DEF ProvidersInv
  <2> QED BY <1>3, <1>5, <2>1 DEF ProvidersInv, SecretInv, Current, Now
<1> QED BY <1>3, <1>6, <1>7, <1>8 DEF ProvidersInv, VerifiedWasAccepted

(* The types of a step that stores no new version, from what it changes.      *)
LEMMA SameVersionTyped ==
  ASSUME ProvidersInv, CallInv', UNCHANGED clock, config'.version = config.version,
         config' \in [version : 0..LastVersion, secret : Secrets \cup {NoSecret},
                     verification : {"none", "pending", "verified", "invalid"}, updated : 0..clock],
         retry' \in [Retries -> [status : {"absent", "pending", "verified", "invalid"},
                                token : Calls \cup {NoCall}, version : 0..config.version,
                                updated : 0..clock]],
         accepted' \subseteq Secrets
  PROVE  ProvidersTypeOK'
<1>1. /\ Configuring' = Configuring /\ Retrying' = Retrying /\ Claiming' = Claiming
  BY DEF Configuring, Retrying, Claiming
<1>2. ASSUME NEW x \in Calls
      PROVE  /\ call'[x].at \in {"idle", "claimed"} \cup Judging
             /\ call'[x].at \in Judging => call'[x].version \in 1..config.version
  <2>1. call'[x] \in {AtRest} \cup Claiming \cup Configuring \cup Retrying
    BY <1>1, <1>2 DEF CallInv
  <2> QED BY <2>1, Kinds, Places
<1> QED BY <1>2 DEF ProvidersTypeOK, ProvidersInv, VerifiedWasAccepted, Judging

LEMMA VerifyKeeps ==
  ASSUME ProvidersInv, NEW x \in Calls, Verify(x)
  PROVE  ProvidersInv'
<1>1. /\ call[x].at \in Judging /\ config' = config /\ clock' = clock /\ retry' = retry
      /\ accepted \subseteq accepted'
  BY DEF Verify, Now, Judging
<1>2. PICK place \in Judging : /\ Proceed(x, place)
                               /\ place = "accepted" => call[x].secret \in accepted'
  BY DEF Verify, Judging
<1>3. /\ CallInv'
      /\ \A y \in Calls : call'[y].at \in Judging =>
           /\ call[y].at \in Judging
           /\ call'[y].secret = call[y].secret /\ call'[y].version = call[y].version
      /\ \A y \in Calls : y # x => call'[y] = call[y]
      /\ call'[x].at = place
  BY <1>1, <1>2, ProceedKept
<1>4. call[x].secret \in Secrets
  BY <1>1, CallKinds, Kinds DEF ProvidersInv
<1>5. accepted' \subseteq Secrets
  BY <1>4 DEF Verify, ProvidersInv, VerifiedWasAccepted, ProvidersTypeOK
<1>6. ProvidersTypeOK'
  BY <1>1, <1>3, <1>5, SameVersionTyped DEF ProvidersInv, VerifiedWasAccepted, ProvidersTypeOK
<1>7. SecretInv'
  BY <1>1, <1>2, <1>3 DEF ProvidersInv, SecretInv, Current, Now
<1> QED BY <1>1, <1>3, <1>6, <1>7 DEF ProvidersInv, VerifiedWasAccepted

(* A verdict on the stored version is about the stored secret.                *)
LEMMA JudgeKeeps ==
  ASSUME ProvidersInv, NEW x \in Calls, call[x].at \in {"accepted", "refused"},
         Current(x), Judge(x), UNCHANGED clock, UNCHANGED accepted
  PROVE  /\ config' \in [version : 0..LastVersion, secret : Secrets \cup {NoSecret},
                         verification : {"none", "pending", "verified", "invalid"}, updated : 0..clock]
         /\ config'.version = config.version /\ config'.secret = config.secret
         /\ config'.verification = "verified" => config.secret \in accepted
<1>1. call[x].at \in Judging
  BY DEF Judging
<1>2. call[x].since \in 0..clock /\ call[x].secret = config.secret
  BY <1>1, CallKinds, Kinds DEF ProvidersInv, SecretInv
<1>3. Verdict(x) \in {"verified", "invalid"} /\ (Verdict(x) = "verified" => call[x].secret \in accepted)
  BY <1>1 DEF Verdict, ProvidersInv, SecretInv
<1> QED BY <1>2, <1>3 DEF Judge, ProvidersInv, VerifiedWasAccepted, ProvidersTypeOK

(* What is left of a step after which the call holds no secret, or goes on to *)
(* mark its secret invalid, once the rows are typed.                          *)
LEMMA EmptyHandedKeeps ==
  ASSUME ProvidersInv, NEW x \in Calls, NEW record \in {AtRest} \cup Claiming,
         Step(x, record), UNCHANGED <<clock, accepted>>,
         config'.version = config.version, config'.secret = config.secret,
         config' \in [version : 0..LastVersion, secret : Secrets \cup {NoSecret},
                     verification : {"none", "pending", "verified", "invalid"}, updated : 0..clock],
         retry' \in [Retries -> [status : {"absent", "pending", "verified", "invalid"},
                                token : Calls \cup {NoCall}, version : 0..config.version,
                                updated : 0..clock]],
         config'.verification = "verified" => config.secret \in accepted
  PROVE  ProvidersInv'
<1>1. CallInv'
  BY HeldKept
<1>2. \A y \in Calls : call'[y].at \in Judging => call'[y] = call[y]
  BY Kinds, Places DEF Step, ProvidersInv, CallInv
<1>3. ProvidersTypeOK'
  BY <1>1, SameVersionTyped DEF ProvidersInv, VerifiedWasAccepted, ProvidersTypeOK
<1>4. SecretInv'
  BY <1>2 DEF ProvidersInv, SecretInv, Current, Now
<1> QED BY <1>1, <1>3, <1>4 DEF ProvidersInv, VerifiedWasAccepted

LEMMA RefusedKeeps ==
  ASSUME ProvidersInv, NEW x \in Calls, call[x].at \in Judging, Proceed(x, "refused"),
         UNCHANGED <<clock, accepted>>,
         config'.version = config.version, config'.secret = config.secret,
         config' \in [version : 0..LastVersion, secret : Secrets \cup {NoSecret},
                     verification : {"none", "pending", "verified", "invalid"}, updated : 0..clock],
         retry' \in [Retries -> [status : {"absent", "pending", "verified", "invalid"},
                                token : Calls \cup {NoCall}, version : 0..config.version,
                                updated : 0..clock]],
         config'.verification = "verified" => config.secret \in accepted
  PROVE  ProvidersInv'
<1>1. "refused" \in Judging
  BY DEF Judging
<1>2. /\ CallInv'
      /\ \A y \in Calls : call'[y].at \in Judging =>
           /\ call[y].at \in Judging
           /\ call'[y].secret = call[y].secret /\ call'[y].version = call[y].version
      /\ \A y \in Calls : y # x => call'[y] = call[y]
      /\ call'[x].at = "refused"
  BY <1>1, ProceedKept
<1>3. ProvidersTypeOK'
  BY <1>2, SameVersionTyped DEF ProvidersInv, VerifiedWasAccepted, ProvidersTypeOK
<1>4. SecretInv'
  BY <1>2 DEF ProvidersInv, SecretInv, Current, Now
<1> QED BY <1>2, <1>3, <1>4 DEF ProvidersInv, VerifiedWasAccepted

(* A verdict on the configuration: the call returns, or a failure to answer   *)
(* sends it on to mark the same version invalid.                              *)
LEMMA MarkKeeps ==
  ASSUME ProvidersInv, NEW x \in Calls, MarkVerificationStatus(x)
  PROVE  ProvidersInv'
<1>1. /\ call[x].at \in {"accepted", "refused"} /\ call[x].at \in Judging
      /\ Current(x) /\ Judge(x) /\ clock' = clock /\ accepted' = accepted /\ retry' = retry
  BY DEF MarkVerificationStatus, Now, Judging
<1>2. /\ config' \in [version : 0..LastVersion, secret : Secrets \cup {NoSecret},
                       verification : {"none", "pending", "verified", "invalid"}, updated : 0..clock]
      /\ config'.version = config.version /\ config'.secret = config.secret
      /\ config'.verification = "verified" => config.secret \in accepted
  BY <1>1, JudgeKeeps
<1>3. CASE Return(x)
  BY <1>1, <1>2, <1>3, EmptyHandedKeeps DEF Return, ProvidersInv, VerifiedWasAccepted, ProvidersTypeOK
<1>4. CASE Proceed(x, "refused")
  BY <1>1, <1>2, <1>4, RefusedKeeps DEF ProvidersInv, VerifiedWasAccepted, ProvidersTypeOK
<1> QED BY <1>3, <1>4 DEF MarkVerificationStatus

LEMMA MarkFailsKeeps ==
  ASSUME ProvidersInv, NEW x \in Calls, MarkFails(x)
  PROVE  ProvidersInv'
<1>1. /\ call[x].at \in Judging
      /\ UNCHANGED <<clock, config, retry, accepted>>
      /\ Return(x) \/ Proceed(x, "refused")
  BY DEF MarkFails, Now, Judging
<1> QED
  BY <1>1, EmptyHandedKeeps, RefusedKeeps DEF Return, ProvidersInv, VerifiedWasAccepted, ProvidersTypeOK

LEMMA DropKeeps ==
  ASSUME ProvidersInv, NEW x \in Calls, Drop(x)
  PROVE  ProvidersInv'
BY EmptyHandedKeeps DEF Drop, Return, ProvidersInv, VerifiedWasAccepted, ProvidersTypeOK

(* A claim: the retries whose lease ended are settled, the new one is pending. *)
LEMMA BeginKeeps ==
  ASSUME ProvidersInv, NEW x \in Calls, NEW q \in Retries, BeginVerificationRetry(x, q)
  PROVE  ProvidersInv'
<1> USE ProvidersAssumption
<1>1. /\ clock \in 0..LastTime /\ config.version \in 0..LastVersion
      /\ clock \in 0..clock /\ 0 \in 0..config.version /\ config.version \in 0..config.version
  BY DEF ProvidersInv, VerifiedWasAccepted, ProvidersTypeOK
<1>2. DEFINE Rows == [status : {"absent", "pending", "verified", "invalid"},
                     token : Calls \cup {NoCall}, version : 0..config.version,
                     updated : 0..clock]
<1>3. retry \in [Retries -> Rows]
  BY DEF ProvidersInv, VerifiedWasAccepted, ProvidersTypeOK
<1>4. Expire(retry) \in [Retries -> Rows]
  BY <1>1, <1>3 DEF Expire
<1>5. retry' \in [Retries -> Rows]
  BY <1>1, <1>4 DEF BeginVerificationRetry
<1>6. /\ config' \in [version : 0..LastVersion, secret : Secrets \cup {NoSecret},
                       verification : {"none", "pending", "verified", "invalid"}, updated : 0..clock]
      /\ config'.version = config.version /\ config'.secret = config.secret
      /\ config'.verification = "pending" /\ UNCHANGED <<clock, accepted>>
  BY <1>1 DEF BeginVerificationRetry, ProvidersInv, VerifiedWasAccepted, ProvidersTypeOK
<1>7. PICK record \in Claiming : Step(x, record)
  BY <1>1 DEF BeginVerificationRetry, Claiming
<1> QED BY <1>5, <1>6, <1>7, EmptyHandedKeeps

(* The secret is read with its version, outside the claim's transaction.      *)
LEMMA GetKeeps ==
  ASSUME ProvidersInv, NEW x \in Calls, GetForVerification(x)
  PROVE  ProvidersInv'
<1> DEFINE read == [at |-> "verify", retry |-> TRUE, request |-> call[x].request,
                    secret |-> config.secret, version |-> config.version,
                    since |-> call[x].since]
<1>1. /\ call[x].at = "claimed" /\ Step(x, read)
      /\ UNCHANGED <<clock, config, retry, accepted>>
  BY DEF GetForVerification, Now
<1>2. call[x] \in Claiming
  BY <1>1, CallKinds DEF ProvidersInv
<1>3. config.version \in 1..config.version /\ config.secret \in Secrets
  <2>1. config.version \in 0..LastVersion
    BY DEF ProvidersInv, VerifiedWasAccepted, ProvidersTypeOK
  <2>2. config.version > 0
    BY <1>2 DEF Claiming
  <2> QED BY <2>1, <2>2, ProvidersAssumption DEF ProvidersInv, SecretInv
<1>4. read \in Retrying
  BY <1>2, <1>3 DEF Claiming, Retrying, Judging
<1>5. CallInv'
  BY <1>1, <1>4, HeldKept
<1>6. ProvidersTypeOK'
  BY <1>1, <1>5, SameVersionTyped DEF ProvidersInv, VerifiedWasAccepted, ProvidersTypeOK
<1>7. SecretInv'
  BY <1>1 DEF Step, ProvidersInv, CallInv, SecretInv, Current, Now
<1> QED BY <1>1, <1>5, <1>6, <1>7 DEF ProvidersInv, VerifiedWasAccepted

LEMMA FinishKeeps ==
  ASSUME ProvidersInv, NEW x \in Calls, FinishVerificationRetry(x)
  PROVE  ProvidersInv'
<1>1. /\ call[x].at \in {"accepted", "refused"} /\ call[x].at \in Judging /\ call[x].retry
      /\ Current(x) /\ Judge(x) /\ Return(x) /\ UNCHANGED <<clock, accepted>>
  BY DEF FinishVerificationRetry, Now, Judging
<1>2. /\ config' \in [version : 0..LastVersion, secret : Secrets \cup {NoSecret},
                       verification : {"none", "pending", "verified", "invalid"}, updated : 0..clock]
      /\ config'.version = config.version /\ config'.secret = config.secret
      /\ config'.verification = "verified" => config.secret \in accepted
  BY <1>1, JudgeKeeps
<1>3. call[x].since \in 0..clock /\ call[x].version \in 0..config.version
      /\ Verdict(x) \in {"verified", "invalid"}
  BY <1>1, CallKinds, Kinds DEF ProvidersInv, Verdict, VerifiedWasAccepted, ProvidersTypeOK
<1>4. retry' \in [Retries -> [status : {"absent", "pending", "verified", "invalid"},
                             token : Calls \cup {NoCall}, version : 0..config.version,
                             updated : 0..clock]]
  <2>1. retry \in [Retries -> [status : {"absent", "pending", "verified", "invalid"},
                             token : Calls \cup {NoCall}, version : 0..config.version,
                             updated : 0..clock]]
    BY DEF ProvidersInv, VerifiedWasAccepted, ProvidersTypeOK
  <2>2. \A q \in Retries : [retry[q] EXCEPT !.status = Verdict(x), !.version = call[x].version,
                                           !.updated = call[x].since]
          \in [status : {"absent", "pending", "verified", "invalid"},
              token : Calls \cup {NoCall}, version : 0..config.version, updated : 0..clock]
    BY <2>1, <1>3
  <2> QED BY <2>1, <2>2 DEF FinishVerificationRetry
<1> QED BY <1>1, <1>2, <1>4, EmptyHandedKeeps DEF Return

LEMMA AdvanceKeeps ==
  ASSUME ProvidersInv, Advance
  PROVE  ProvidersInv'
<1> USE ProvidersAssumption
<1>1. /\ clock \in 0..LastTime /\ config.version \in 0..LastVersion
      /\ clock' = clock + 1 /\ clock' \in 0..LastTime
      /\ UNCHANGED <<config, retry, call, accepted>>
  BY DEF Advance, ProvidersInv, VerifiedWasAccepted, ProvidersTypeOK
<1>2. 0..clock \subseteq 0..clock'
  BY <1>1
<1>3. CallInv'
  BY <1>1, HeldGrow DEF ProvidersInv, CallInv
<1>4. config' \in [version : 0..LastVersion, secret : Secrets \cup {NoSecret},
                   verification : {"none", "pending", "verified", "invalid"}, updated : 0..clock']
  BY <1>1, <1>2 DEF ProvidersInv, VerifiedWasAccepted, ProvidersTypeOK
<1>5. retry' \in [Retries -> [status : {"absent", "pending", "verified", "invalid"},
                             token : Calls \cup {NoCall}, version : 0..config'.version,
                             updated : 0..clock']]
  BY <1>1, <1>2 DEF ProvidersInv, VerifiedWasAccepted, ProvidersTypeOK
<1>6. ProvidersTypeOK'
  BY <1>1, <1>4, <1>5 DEF ProvidersInv, VerifiedWasAccepted, ProvidersTypeOK
<1>7. SecretInv'
  BY <1>1 DEF ProvidersInv, SecretInv, Current, Now
<1> QED BY <1>1, <1>3, <1>6, <1>7 DEF ProvidersInv, VerifiedWasAccepted

-----------------------------------------------------------------------------
(* Every step of every call keeps the inductive invariant.                    *)
THEOREM ProvidersInductive == ProvidersInv /\ [ProvidersNext]_providersVars => ProvidersInv'
<1> SUFFICES ASSUME ProvidersInv, [ProvidersNext]_providersVars PROVE ProvidersInv'
  OBVIOUS
<1>1. ASSUME NEW x \in Calls,
             \/ \E s \in Secrets : Configure(x, s)
             \/ Verify(x)
             \/ MarkVerificationStatus(x) \/ MarkFails(x)
             \/ \E q \in Retries : BeginVerificationRetry(x, q)
             \/ GetForVerification(x)
             \/ FinishVerificationRetry(x)
             \/ Drop(x)
      PROVE  ProvidersInv'
  BY <1>1, ConfigureKeeps, VerifyKeeps, MarkKeeps, MarkFailsKeeps, BeginKeeps, GetKeeps,
     FinishKeeps, DropKeeps
<1>2. CASE Advance
  BY <1>2, AdvanceKeeps
<1>3. CASE UNCHANGED providersVars
  <2>1. UNCHANGED <<clock, config, retry, call, accepted>>
    BY <1>3 DEF providersVars
  <2>2. CallInv'
    BY <2>1 DEF ProvidersInv, CallInv, Claiming, Configuring, Retrying
  <2> QED BY <2>1, <2>2 DEF ProvidersInv, VerifiedWasAccepted, ProvidersTypeOK, SecretInv, Current, Now
<1> QED BY <1>1, <1>2, <1>3 DEF ProvidersNext

(* What the gateway may call with is a secret the provider accepted.          *)
THEOREM VerifiedAlwaysAccepted == ProvidersSpec => []VerifiedWasAccepted
<1>1. ProvidersInv => VerifiedWasAccepted
  BY DEF ProvidersInv
<1> QED BY <1>1, ProvidersInitial, ProvidersInductive, PTL DEF ProvidersSpec

(* A step that settles or expires a retry finds it pending: no settled one is *)
(* touched.                                                                   *)
LEMMA SettledKept ==
  ASSUME ProvidersInv, [ProvidersNext]_providersVars, NEW q \in Retries,
         retry[q].status \in {"verified", "invalid"}
  PROVE  retry'[q] = retry[q]
<1>1. ASSUME NEW x \in Calls, NEW p \in Retries, BeginVerificationRetry(x, p)
      PROVE  retry'[q] = retry[q]
  <2>1. p # q
    BY <1>1 DEF BeginVerificationRetry
  <2>2. Expire(retry)[q] = retry[q]
    BY DEF Expire, Pending
  <2> QED BY <1>1, <2>1, <2>2 DEF BeginVerificationRetry, Expire
<1>2. ASSUME NEW x \in Calls, FinishVerificationRetry(x)
      PROVE  retry'[q] = retry[q]
  BY <1>2 DEF FinishVerificationRetry, OwnsClaim, ProvidersInv, VerifiedWasAccepted, ProvidersTypeOK
<1>3. ASSUME NEW x \in Calls,
             \/ \E s \in Secrets : Configure(x, s)
             \/ Verify(x)
             \/ MarkVerificationStatus(x) \/ MarkFails(x)
             \/ GetForVerification(x)
             \/ Drop(x)
      PROVE  retry'[q] = retry[q]
  BY <1>3 DEF Configure, Verify, MarkVerificationStatus, MarkFails, GetForVerification, Drop
<1>4. CASE Advance \/ UNCHANGED providersVars
  BY <1>4 DEF Advance, providersVars
<1> QED BY <1>1, <1>2, <1>3, <1>4 DEF ProvidersNext

(* A settled retry is answered the same for good.                             *)
THEOREM RetriesStaySettled == ProvidersSpec => RetriesSettleOnce
<1>1. ProvidersInv /\ [ProvidersNext]_providersVars
        => [\A q \in Retries : retry[q].status \in {"verified", "invalid"} =>
              retry'[q] = retry[q]]_providersVars
  BY SettledKept
<1> QED
  BY <1>1, ProvidersInitial, ProvidersInductive, PTL DEF ProvidersSpec, RetriesSettleOnce

-----------------------------------------------------------------------------
(* Recovery.  The sealed answer is of the credential its code recovered, and    *)
(* who was told of it came under the sealed idempotency key.                    *)
SealedInv ==
  /\ \A x \in Clients : client[x].at = "found" => client[x].code \in Codes /\ client[x].delivery \in Deliveries
  /\ recovery.envelope # NoCredential =>
       recovery.consumed \in Codes /\ issuedBy[recovery.envelope] = recovery.consumed
  /\ \A code \in Codes, d \in Deliveries :
       told[code][d] # {} /\ recovery.envelope # NoCredential => recovery.delivery = d

RecoveryInv == RecoversOnce /\ SealedInv

LEMMA RecoveryInitial == RecoveryInit => RecoveryInv
<1> SUFFICES ASSUME RecoveryInit PROVE RecoveryInv
  OBVIOUS
<1>1. RecoveryTypeOK
  BY RecoveryAssumption DEF RecoveryInit, RecoveryTypeOK, Waiting
<1>2. \A code \in Codes, d \in Deliveries : told[code][d] = {}
  BY DEF RecoveryInit
<1> QED BY <1>1, <1>2, RecoveryAssumption DEF RecoveryInit, RecoveryInv, RecoversOnce, SealedInv, Waiting

(* An answer is added to what was told for a code and a delivery.              *)
LEMMA Tells ==
  ASSUME NEW answers \in [Codes -> [Deliveries -> SUBSET Credentials]],
         NEW code \in Codes, NEW d \in Deliveries, NEW c \in Credentials
  PROVE  LET more == [answers EXCEPT ![code][d] = @ \cup {c}]
         IN  /\ more \in [Codes -> [Deliveries -> SUBSET Credentials]]
             /\ more[code][d] = answers[code][d] \cup {c}
             /\ \A other \in Codes, e \in Deliveries :
                  other # code \/ e # d => more[other][e] = answers[other][e]
<1>1. answers[code] \in [Deliveries -> SUBSET Credentials] /\ answers[code][d] \cup {c} \in SUBSET Credentials
  OBVIOUS
<1>2. [answers[code] EXCEPT ![d] = @ \cup {c}] \in [Deliveries -> SUBSET Credentials]
  BY <1>1
<1> QED BY <1>1, <1>2

LEMMA GetRecoveryKeeps ==
  ASSUME RecoveryInv, NEW x \in Clients, NEW code \in Codes, NEW delivery \in Deliveries,
         GetRecovery(x, code, delivery)
  PROVE  RecoveryInv'
<1>1. CASE Sealed(code, delivery) /\ told' = [told EXCEPT ![code][delivery] = @ \cup {recovery.envelope}]
           /\ UNCHANGED client
  <2>1. /\ UNCHANGED <<recovery, credential, spentCodes, issuedBy, client>>
        /\ recovery.envelope \in Credentials /\ recovery.consumed = code /\ recovery.delivery = delivery
        /\ issuedBy[recovery.envelope] = code /\ recovery.envelope # NoCredential
    BY <1>1 DEF GetRecovery, Sealed, RecoveryInv, SealedInv, RecoversOnce, RecoveryTypeOK
  <2>2. /\ told' \in [Codes -> [Deliveries -> SUBSET Credentials]]
        /\ told'[code][delivery] = told[code][delivery] \cup {recovery.envelope}
        /\ \A other \in Codes, e \in Deliveries :
             other # code \/ e # delivery => told'[other][e] = told[other][e]
    <3>1. told \in [Codes -> [Deliveries -> SUBSET Credentials]]
      BY DEF RecoveryInv, RecoversOnce, RecoveryTypeOK
    <3>2. told' = [told EXCEPT ![code][delivery] = @ \cup {recovery.envelope}]
      BY <1>1
    <3> QED BY <2>1, <3>1, <3>2, Tells
  <2>3. \A other \in Codes, e \in Deliveries : \A c \in told'[other][e] : issuedBy[c] = other
    BY <2>1, <2>2 DEF RecoveryInv, RecoversOnce
  <2>4. \A other \in Codes, e \in Deliveries : told'[other][e] # {} => recovery.delivery = e
    BY <2>1, <2>2 DEF RecoveryInv, SealedInv
  <2> QED BY <2>1, <2>2, <2>3, <2>4 DEF RecoveryInv, RecoversOnce, RecoveryTypeOK, SealedInv
<1>2. CASE client' = [client EXCEPT ![x] = [at |-> "found", code |-> code, delivery |-> delivery]]
           /\ UNCHANGED told
  BY <1>2 DEF GetRecovery, RecoveryInv, RecoversOnce, RecoveryTypeOK, SealedInv
<1> QED BY <1>1, <1>2 DEF GetRecovery

(* The rotation: nothing was recovered before, so nobody was told of anything. *)
LEMMA RotateKeeps ==
  ASSUME RecoveryInv, NEW x \in Clients, NEW fresh \in Credentials, Rotate(x, fresh)
  PROVE  RecoveryInv'
<1> DEFINE code == client[x].code
           delivery == client[x].delivery
<1>1. /\ code \in Codes /\ delivery \in Deliveries /\ fresh # First
      /\ recovery' = [code |-> NoCode, consumed |-> code, delivery |-> delivery, envelope |-> fresh]
      /\ credential' = [credential EXCEPT ![fresh] = "active", ![First] = "revoked"]
      /\ issuedBy' = [issuedBy EXCEPT ![fresh] = code]
      /\ UNCHANGED spentCodes
      /\ client' = [client EXCEPT ![x] = Waiting]
  BY DEF Rotate, Stands, Depart, Consume, FirstActive, RecoveryInv, SealedInv
<1>2. \A c \in Credentials : issuedBy[c] = NoCode
  BY DEF Rotate, FirstActive, RecoveryInv, RecoversOnce
<1>3. \A other \in Codes, d \in Deliveries : told[other][d] = {}
  BY <1>2, RecoveryAssumption DEF RecoveryInv, RecoversOnce, RecoveryTypeOK
<1>4. /\ told' \in [Codes -> [Deliveries -> SUBSET Credentials]]
      /\ \A other \in Codes, d \in Deliveries :
           /\ told'[other][d] \subseteq {fresh}
           /\ told'[other][d] # {} => other = code /\ d = delivery
  <2>1. CASE told' = told
    BY <1>3, <2>1 DEF RecoveryInv, RecoversOnce, RecoveryTypeOK
  <2>2. CASE told' = [told EXCEPT ![code][delivery] = @ \cup {fresh}]
    <3> HIDE DEF code, delivery
    <3>1. /\ told' \in [Codes -> [Deliveries -> SUBSET Credentials]]
          /\ told'[code][delivery] = told[code][delivery] \cup {fresh}
          /\ \A other \in Codes, d \in Deliveries :
               other # code \/ d # delivery => told'[other][d] = told[other][d]
      <4>1. told \in [Codes -> [Deliveries -> SUBSET Credentials]]
        BY DEF RecoveryInv, RecoversOnce, RecoveryTypeOK
      <4> QED BY <1>1, <2>2, <4>1, Tells
    <3> QED BY <1>1, <1>3, <3>1
  <2> QED BY <2>1, <2>2 DEF Rotate
<1>5. /\ issuedBy' \in [Credentials -> Codes \cup {NoCode}] /\ issuedBy'[fresh] = code
      /\ \A c \in Credentials : issuedBy'[c] # NoCode => c = fresh
      /\ credential'[First] = "revoked"
  BY <1>1, <1>2, RecoveryAssumption DEF RecoveryInv, RecoversOnce, RecoveryTypeOK
<1>6. RecoveryTypeOK'
  BY <1>1, <1>4, <1>5 DEF RecoveryInv, RecoversOnce, RecoveryTypeOK, Waiting
<1>7. SealedInv'
  BY <1>1, <1>4, <1>5 DEF RecoveryInv, RecoversOnce, RecoveryTypeOK, SealedInv, Waiting
<1> QED BY <1>4, <1>5, <1>6, <1>7 DEF RecoveryInv, RecoversOnce

(* The steps that recover nothing and tell nobody.                             *)
LEMMA OtherRecoveryStepsKeep ==
  ASSUME RecoveryInv,
         \/ \E x \in Clients :
              \/ RotateThrows(x) \/ Abandon(x)
              \/ \E fresh \in Credentials : IssueReplacement(x, fresh)
              \/ \E code \in Codes : RotateRecoveryCode(x, code)
         \/ \E c \in Credentials : RevokeCredential(c)
  PROVE  RecoveryInv'
<1>1. UNCHANGED <<issuedBy, told>>
  BY DEF RotateThrows, Abandon, IssueReplacement, RotateRecoveryCode, RevokeCredential
<1>2. /\ recovery' = recovery \/ \E code \in Codes : recovery' = NewCode(code)
      /\ spentCodes' \subseteq Codes
  BY DEF RotateThrows, Abandon, IssueReplacement, RotateRecoveryCode, RevokeCredential, RecoveryInv,
     RecoversOnce, RecoveryTypeOK
<1>3. /\ credential' \in [Credentials -> {"absent", "active", "revoked"}]
      /\ credential[First] = "revoked" => credential'[First] = "revoked"
  <2>1. credential \in [Credentials -> {"absent", "active", "revoked"}] /\ First \in Credentials
    BY RecoveryAssumption DEF RecoveryInv, RecoversOnce, RecoveryTypeOK
  <2>2. \/ UNCHANGED credential
        \/ \E c \in Credentials : credential[c] = "absent" /\ credential' = [credential EXCEPT ![c] = "active"]
        \/ \E c \in Credentials : credential' = [credential EXCEPT ![c] = "revoked"]
    BY DEF RotateThrows, Abandon, IssueReplacement, RotateRecoveryCode, RevokeCredential
  <2>3. ASSUME NEW c \in Credentials, credential[c] = "absent", credential' = [credential EXCEPT ![c] = "active"]
        PROVE  <1>3!1 /\ <1>3!2
    BY <2>1, <2>3
  <2>4. ASSUME NEW c \in Credentials, credential' = [credential EXCEPT ![c] = "revoked"]
        PROVE  <1>3!1 /\ <1>3!2
    BY <2>1, <2>4
  <2> QED BY <2>1, <2>2, <2>3, <2>4
<1>4. \/ UNCHANGED client
      \/ \E x \in Clients : client' = [client EXCEPT ![x] = Waiting] \/ client' = [client EXCEPT ![x].at = "issued"]
  BY DEF RotateThrows, Abandon, IssueReplacement, RotateRecoveryCode, RevokeCredential, Depart
<1>5. /\ client' \in [Clients -> [at : {"idle", "found", "issued"}, code : Codes \cup {NoCode},
                                 delivery : Deliveries \cup {NoDelivery}]]
      /\ \A x \in Clients : client'[x].at = "found" => client'[x] = client[x]
  <2>1. client \in [Clients -> [at : {"idle", "found", "issued"}, code : Codes \cup {NoCode},
                               delivery : Deliveries \cup {NoDelivery}]]
    BY DEF RecoveryInv, RecoversOnce, RecoveryTypeOK
  <2>2. ASSUME NEW x \in Clients, client' = [client EXCEPT ![x] = Waiting] PROVE <1>5!1 /\ <1>5!2
    BY <2>1, <2>2 DEF Waiting
  <2>3. ASSUME NEW x \in Clients, client' = [client EXCEPT ![x].at = "issued"] PROVE <1>5!1 /\ <1>5!2
    BY <2>1, <2>3
  <2> QED BY <1>4, <2>1, <2>2, <2>3
<1>6. RecoveryTypeOK'
  BY <1>1, <1>2, <1>3, <1>5 DEF RecoveryInv, RecoversOnce, RecoveryTypeOK, NewCode
<1>7. SealedInv'
  BY <1>1, <1>2, <1>5 DEF RecoveryInv, SealedInv, NewCode
<1> QED BY <1>1, <1>3, <1>6, <1>7 DEF RecoveryInv, RecoversOnce

(* A workspace recovers once, for any number of codes, clients and             *)
(* replacements, whatever is lost.                                             *)
THEOREM AlwaysRecoversOnce == RecoverySpec => []RecoversOnce
<1>1. RecoveryInv /\ [RecoveryNext]_recoveryVars => RecoveryInv'
  <2> SUFFICES ASSUME RecoveryInv, [RecoveryNext]_recoveryVars PROVE RecoveryInv'
    OBVIOUS
  <2>1. CASE RecoveryNext
    BY <2>1, GetRecoveryKeeps, RotateKeeps, OtherRecoveryStepsKeep DEF RecoveryNext
  <2>2. CASE UNCHANGED recoveryVars
    BY <2>2 DEF recoveryVars, RecoveryInv, RecoversOnce, RecoveryTypeOK, SealedInv
  <2> QED BY <2>1, <2>2
<1>2. RecoveryInv => RecoversOnce
  BY DEF RecoveryInv
<1> QED BY <1>1, <1>2, RecoveryInitial, PTL DEF RecoverySpec

-----------------------------------------------------------------------------
(* The workspaces.  A key has at most one operation and a request at most one *)
(* workspace, and no two of either share one; so nothing but the request that *)
(* holds an operation writes to its workspace.                               *)
Unplaced == {"idle", "invited", "reserved"}
Working == {"step", "beat", "complete"}
Compensating == {"rollback", "unrolled"}

OperationsInv ==
  /\ \A k \in Keys :
       /\ operation[k].workspace \in drawn \cup {NoWorkspace}
       /\ operation[k].status = "absent" <=> operation[k].workspace = NoWorkspace
  /\ \A j, k \in Keys :
       operation[j].workspace = operation[k].workspace /\ operation[k].workspace # NoWorkspace
         => j = k

(* What a request has at each place. *)
Placed(c) ==
  /\ c.at \in Unplaced <=> c.workspace = NoWorkspace
  /\ c.at # "idle" => c.key \in Keys
  /\ c.at \notin Unplaced => c.step \in 1..Len(Steps)
  /\ c.at = "complete" => c.step = Len(Steps)

OwnersInv ==
  /\ \A w \in Workers : Placed(worker[w]) /\ worker[w].workspace \in drawn \cup {NoWorkspace}
  /\ \A v, w \in Workers :
       worker[v].workspace = worker[w].workspace /\ worker[w].workspace # NoWorkspace => v = w
  /\ \A w \in Workers, k \in Keys :
       operation[k].workspace = worker[w].workspace /\ worker[w].workspace # NoWorkspace
         => k = worker[w].key

(* The steps a request has done.  While it holds its operation their rows are *)
(* there; once it lost the operation, none of a later step can be written.    *)
Written(c) == {Steps[i] : i \in 1 .. (IF c.at = "step" THEN c.step - 1 ELSE c.step)}

WorkInv ==
  \A w \in Workers :
    /\ worker[w].at \in Working /\ operation[worker[w].key].workspace = worker[w].workspace =>
         /\ operation[worker[w].key].status = "in_progress"
         /\ Written(worker[w]) \subseteq rows[worker[w].workspace]
    /\ worker[w].at = "step" /\ operation[worker[w].key].workspace # worker[w].workspace =>
         worker[w].step = 1 \/ rows[worker[w].workspace] = {}

OnboardingInv == WorkspacesWholeOrBare /\ OperationsInv /\ OwnersInv /\ WorkInv

LEMMA StepFacts ==
  /\ \A i \in 1..Len(Steps) : Steps[i] \in AllSteps
  /\ AllSteps = {Steps[i] : i \in 1..Len(Steps)}
  /\ Len(Steps) \in Nat \ {0} /\ NoWorkspace \notin Workspaces /\ NoKey \notin Keys
<1>1. DOMAIN Steps = 1..Len(Steps)
  BY OnboardingAssumption
<1> QED
  BY <1>1, OnboardingAssumption DEF AllSteps, Range

LEMMA OnboardingInitial == OnboardingInit => OnboardingInv
<1> SUFFICES ASSUME OnboardingInit PROVE OnboardingInv
  OBVIOUS
<1>1. OnboardingTypeOK
  BY StepFacts DEF OnboardingInit, OnboardingTypeOK, NoOperation, Resting, Operation, Worker, Statuses
<1>2. /\ \A k \in Keys : operation[k].status = "absent" /\ operation[k].workspace = NoWorkspace
      /\ \A w \in Workers : worker[w].at = "idle" /\ worker[w].workspace = NoWorkspace
      /\ (\A s \in Workspaces : rows[s] = {}) /\ (\A k \in Keys : answered[k] = {})
  BY DEF OnboardingInit, NoOperation, Resting
<1>3. WorkspacesWholeOrBare
  BY <1>1, <1>2 DEF WorkspacesWholeOrBare
<1>4. OperationsInv
  BY <1>2 DEF OperationsInv
<1>5. OwnersInv
  BY <1>2 DEF OwnersInv, Placed, Unplaced
<1>6. WorkInv
  BY <1>2 DEF WorkInv, Working
<1> QED
  BY <1>3, <1>4, <1>5, <1>6 DEF OnboardingInv

(* What becomes of the requests. *)
LEMMA WorkerGoes ==
  ASSUME OnboardingTypeOK, NEW w \in Workers, NEW place, GoTo(w, place)
  PROVE  /\ \A v \in Workers \ {w} : worker'[v] = worker[v]
         /\ worker'[w].at = place /\ worker'[w].key = worker[w].key
         /\ worker'[w].workspace = worker[w].workspace /\ worker'[w].step = worker[w].step
         /\ place \in Unplaced \cup Working \cup Compensating => worker' \in [Workers -> Worker]
<1>1. worker \in [Workers -> Worker] /\ worker' = [worker EXCEPT ![w].at = place]
  BY DEF OnboardingTypeOK, GoTo
<1>2. worker' = [worker EXCEPT ![w] = [worker[w] EXCEPT !.at = place]]
  BY <1>1
<1>3. /\ \A v \in Workers \ {w} : worker'[v] = worker[v]
      /\ worker'[w] = [worker[w] EXCEPT !.at = place] /\ worker[w] \in Worker
  BY <1>1, <1>2
<1>4. /\ [worker[w] EXCEPT !.at = place].at = place
      /\ [worker[w] EXCEPT !.at = place].key = worker[w].key
      /\ [worker[w] EXCEPT !.at = place].workspace = worker[w].workspace
      /\ [worker[w] EXCEPT !.at = place].step = worker[w].step
  BY <1>3 DEF Worker
<1>5. ASSUME place \in Unplaced \cup Working \cup Compensating
      PROVE  [worker[w] EXCEPT !.at = place] \in Worker
  BY <1>3, <1>5 DEF Worker, Unplaced, Working, Compensating
<1> QED
  BY <1>1, <1>2, <1>3, <1>4, <1>5

LEMMA WorkerEnds ==
  ASSUME OnboardingTypeOK, NEW w \in Workers, Finish(w)
  PROVE  /\ \A v \in Workers \ {w} : worker'[v] = worker[v]
         /\ worker'[w] = Resting
         /\ worker' \in [Workers -> Worker]
BY StepFacts DEF OnboardingTypeOK, Finish, Worker, Resting

(* One request moves: it gives its workspace up or keeps it.                 *)
Moved(w) ==
  /\ worker' \in [Workers -> Worker]
  /\ \A v \in Workers \ {w} : worker'[v] = worker[v]
  /\ Placed(worker'[w])
  /\ \/ worker'[w].workspace = NoWorkspace
     \/ worker'[w].workspace = worker[w].workspace /\ worker'[w].key = worker[w].key

LEMMA OwnersKept ==
  ASSUME OwnersInv, NEW w \in Workers, Moved(w), drawn' = drawn,
         \A k \in Keys : operation'[k].workspace = operation[k].workspace
  PROVE  OwnersInv'
<1>1. \A v \in Workers : Placed(worker'[v]) /\ worker'[v].workspace \in drawn' \cup {NoWorkspace}
  BY DEF OwnersInv, Moved
<1>2. \A v, x \in Workers :
        worker'[v].workspace = worker'[x].workspace /\ worker'[x].workspace # NoWorkspace => v = x
  BY DEF OwnersInv, Moved
<1>3. \A v \in Workers, k \in Keys :
        operation'[k].workspace = worker'[v].workspace /\ worker'[v].workspace # NoWorkspace
          => k = worker'[v].key
  BY DEF OwnersInv, Moved
<1> QED
  BY <1>1, <1>2, <1>3 DEF OwnersInv, Placed

LEMMA OperationsKept ==
  ASSUME OperationsInv, drawn' = drawn,
         \A k \in Keys : /\ operation'[k].workspace = operation[k].workspace
                         /\ operation'[k].status = "absent" <=> operation[k].status = "absent"
  PROVE  OperationsInv'
BY DEF OperationsInv

LEMMA RestingPlaced == Placed(Resting) /\ Resting.workspace = NoWorkspace /\ Resting.at = "idle"
BY DEF Placed, Resting, Unplaced

(* A request that ends, or turns to compensation, moves.                     *)
LEMMA MovesAway ==
  ASSUME OnboardingTypeOK, OwnersInv, NEW w \in Workers,
         \/ Finish(w)
         \/ worker[w].at \notin Unplaced /\ (GoTo(w, "rollback") \/ GoTo(w, "unrolled"))
  PROVE  Moved(w) /\ worker'[w].at \notin Working
<1>1. Placed(worker[w])
  BY DEF OwnersInv
<1>2. CASE Finish(w)
  BY <1>2, WorkerEnds, RestingPlaced DEF Moved, Working
<1>3. ASSUME worker[w].at \notin Unplaced, NEW p \in Compensating, GoTo(w, p)
      PROVE  Moved(w) /\ worker'[w].at \notin Working
  <2>1. /\ worker' \in [Workers -> Worker] /\ worker'[w].at = p
        /\ \A v \in Workers \ {w} : worker'[v] = worker[v]
        /\ worker'[w].key = worker[w].key /\ worker'[w].workspace = worker[w].workspace
        /\ worker'[w].step = worker[w].step
    BY <1>3, WorkerGoes
  <2>2. p \notin Unplaced /\ p \notin Working /\ p # "idle" /\ p # "complete"
    BY DEF Compensating, Unplaced, Working
  <2>3. worker[w].at # "idle"
    BY <1>3 DEF Unplaced
  <2>4. Placed(worker'[w])
    BY <1>1, <1>3, <2>1, <2>2, <2>3 DEF Placed
  <2> QED
    BY <2>1, <2>2, <2>4 DEF Moved
<1> QED
  BY <1>2, <1>3 DEF Compensating

(* Steps that write nothing but what a client is told of a completed          *)
(* workspace, and take no request to work.                                   *)
LEMMA QuietKeeps ==
  ASSUME OnboardingInv, OnboardingTypeOK', NEW w \in Workers, Moved(w), worker'[w].at \notin Working,
         UNCHANGED <<operation, rows, drawn>>,
         \A k \in Keys : \A s \in answered'[k] :
           \/ s \in answered[k]
           \/ operation[k].status = "completed" /\ operation[k].workspace = s
  PROVE  OnboardingInv'
<1>1. OwnersInv' /\ OperationsInv'
  BY OwnersKept, OperationsKept DEF OnboardingInv
<1>2. WorkInv'
  <2>1. ASSUME NEW v \in Workers, worker'[v].at \in Working
        PROVE  worker'[v] = worker[v]
    BY <2>1 DEF Moved
  <2>2. "step" \in Working
    BY DEF Working
  <2> QED
    BY <2>1, <2>2 DEF OnboardingInv, WorkInv, Written
<1>3. WorkspacesWholeOrBare'
  BY DEF OnboardingInv, WorkspacesWholeOrBare
<1> QED
  BY <1>1, <1>2, <1>3 DEF OnboardingInv

LEMMA EntryKeeps ==
  ASSUME OnboardingInv, NEW w \in Workers,
         \/ \E k \in Keys, b \in Bodies, i \in BetaInvites : ConsumeInvite(w, k, b, i)
         \/ Reserve(w)
  PROVE  OnboardingInv'
<1>1. OnboardingTypeOK /\ OwnersInv
  BY DEF OnboardingInv, WorkspacesWholeOrBare
<1>2. ASSUME NEW k \in Keys, NEW b \in Bodies, NEW i \in BetaInvites, ConsumeInvite(w, k, b, i)
      PROVE  Moved(w) /\ worker'[w].at \notin Working /\ OnboardingTypeOK'
  <2> DEFINE c == [Resting EXCEPT !.at = "invited", !.key = k, !.body = b]
  <2>1. worker \in [Workers -> Worker] /\ worker' = [worker EXCEPT ![w] = c]
    BY <1>1, <1>2 DEF ConsumeInvite, OnboardingTypeOK
  <2>2. c \in Worker /\ c.at = "invited" /\ c.key = k /\ c.workspace = NoWorkspace
    <3>1. Resting \in Worker /\ Resting.workspace = NoWorkspace
      BY StepFacts DEF Resting, Worker
    <3> QED
      BY <3>1 DEF Worker
  <2> HIDE DEF c
  <2>3. /\ worker' \in [Workers -> Worker] /\ worker'[w] = c
        /\ \A v \in Workers \ {w} : worker'[v] = worker[v]
    BY <2>1, <2>2
  <2>4. Placed(worker'[w]) /\ worker'[w].at \notin Working
    BY <2>2, <2>3 DEF Placed, Unplaced, Working
  <2>5. redemption' \in [BetaInvites -> Keys \cup {NoKey}]
    BY <1>1, <1>2 DEF ConsumeInvite, OnboardingTypeOK
  <2> QED
    BY <1>1, <1>2, <2>2, <2>3, <2>4, <2>5 DEF Moved, ConsumeInvite, OnboardingTypeOK
<1>3. ASSUME Reserve(w)
      PROVE  Moved(w) /\ worker'[w].at \notin Working /\ OnboardingTypeOK'
  <2>1. GoTo(w, "reserved") \/ Finish(w)
    BY <1>3 DEF Reserve
  <2>2. worker[w].at = "invited" /\ Placed(worker[w])
    BY <1>1, <1>3 DEF Reserve, IsAt, OwnersInv
  <2>3. ASSUME GoTo(w, "reserved")
        PROVE  Moved(w) /\ worker'[w].at \notin Working
    <3>1. /\ worker' \in [Workers -> Worker] /\ worker'[w].at = "reserved"
          /\ \A v \in Workers \ {w} : worker'[v] = worker[v]
          /\ worker'[w].key = worker[w].key /\ worker'[w].workspace = worker[w].workspace
      BY <1>1, <2>3, WorkerGoes DEF Unplaced
    <3>2. Placed(worker'[w]) /\ worker'[w].at \notin Working
      BY <2>2, <3>1 DEF Placed, Unplaced, Working
    <3> QED
      BY <3>1, <3>2 DEF Moved
  <2>4. ASSUME Finish(w)
        PROVE  Moved(w) /\ worker'[w].at \notin Working
    BY <1>1, <2>4, MovesAway
  <2>5. Moved(w) /\ worker'[w].at \notin Working
    BY <2>1, <2>3, <2>4
  <2>6. reservation' \in [Keys -> {"none", "fresh", "old"}]
    BY <1>1, <1>3 DEF Reserve, OnboardingTypeOK
  <2> QED
    BY <1>1, <1>3, <2>5, <2>6 DEF Reserve, OnboardingTypeOK, Moved
<1>4. UNCHANGED <<operation, rows, drawn, answered>>
  BY DEF ConsumeInvite, Reserve
<1>5. \A k \in Keys : \A s \in answered'[k] : s \in answered[k]
  BY <1>4
<1> QED
  BY <1>2, <1>3, <1>4, <1>5, QuietKeeps

(* Answers, losses and deaths. *)
LEMMA DepartureKeeps ==
  ASSUME OnboardingInv, NEW w \in Workers,
         \/ ClaimAnswered(w) \/ ProvisionFails(w) \/ HeartbeatFails(w) \/ CompleteFails(w)
         \/ RollbackFails(w) \/ Die(w)
  PROVE  OnboardingInv'
<1>1. OnboardingTypeOK /\ OwnersInv /\ OperationsInv
  BY DEF OnboardingInv, WorkspacesWholeOrBare
<1>2. \/ Finish(w)
      \/ worker[w].at \notin Unplaced /\ (GoTo(w, "rollback") \/ GoTo(w, "unrolled"))
  BY DEF ClaimAnswered, ProvisionFails, HeartbeatFails, CompleteFails, RollbackFails, Die,
         IsAt, Unplaced
<1>3. Moved(w) /\ worker'[w].at \notin Working
  BY <1>1, <1>2, MovesAway
<1>4. UNCHANGED <<operation, rows, drawn, reservation, redemption, unreserved>>
  BY DEF ClaimAnswered, ProvisionFails, HeartbeatFails, CompleteFails, RollbackFails, Die
<1>5. /\ answered' \in [Keys -> SUBSET Workspaces]
      /\ \A k \in Keys : \A s \in answered'[k] :
           \/ s \in answered[k]
           \/ operation[k].status = "completed" /\ operation[k].workspace = s
  <2>1. CASE UNCHANGED answered
    BY <1>1, <2>1 DEF OnboardingTypeOK
  <2>2. CASE ClaimAnswered(w)
    <3> DEFINE k == worker[w].key
               seen == IF operation[k].status = "completed" /\ operation[k].body = worker[w].body
                       THEN {operation[k].workspace} ELSE {}
    <3>1. answered' = [answered EXCEPT ![k] = @ \cup seen] /\ answered \in [Keys -> SUBSET Workspaces]
      BY <1>1, <2>2 DEF ClaimAnswered, OnboardingTypeOK
    <3>2. k \in Keys
      BY <1>1, <2>2 DEF ClaimAnswered, IsAt, OwnersInv, Placed
    <3>3. seen \subseteq Workspaces
      <4>1. operation[k].status = "completed" => operation[k].workspace \in drawn
        BY <1>1, <3>2 DEF OperationsInv
      <4> QED
        BY <1>1, <4>1 DEF OnboardingTypeOK
    <3>4. \A s \in seen : operation[k].status = "completed" /\ operation[k].workspace = s
      OBVIOUS
    <3> HIDE DEF k, seen
    <3> QED
      BY <3>1, <3>2, <3>3, <3>4
  <2> QED
    BY <2>1, <2>2 DEF ProvisionFails, HeartbeatFails, CompleteFails, RollbackFails, Die
<1>6. OnboardingTypeOK'
  BY <1>1, <1>3, <1>4, <1>5 DEF OnboardingTypeOK, Moved
<1> QED
  BY <1>3, <1>4, <1>5, <1>6, QuietKeeps

(* A claim gives its key a new workspace, and empties the one it takes over. *)
LEMMA ClaimFacts ==
  ASSUME OnboardingTypeOK, OwnersInv, NEW w \in Workers, NEW s \in Workspaces, Claim(w, s),
         NEW k, k = worker[w].key
  PROVE  /\ k \in Keys /\ s \notin drawn /\ drawn' = drawn \cup {s} /\ worker[w].at = "reserved"
         /\ operation' \in [Keys -> Operation] /\ rows' \in [Workspaces -> SUBSET AllSteps]
         /\ \A j \in Keys \ {k} : operation'[j] = operation[j]
         /\ operation'[k].status = "in_progress" /\ operation'[k].workspace = s
         /\ worker' \in [Workers -> Worker] /\ \A v \in Workers \ {w} : worker'[v] = worker[v]
         /\ worker'[w].at = "step" /\ worker'[w].key = k /\ worker'[w].workspace = s
         /\ worker'[w].step = 1
         /\ operation[k].status \in {"absent", "rolled_back", "in_progress"}
         /\ operation[k].status # "in_progress" => UNCHANGED rows
         /\ operation[k].status = "in_progress" =>
              rows' = [rows EXCEPT ![operation[k].workspace] = {}]
<1>1. worker[w].at = "reserved" /\ k \in Keys /\ worker[w] \in Worker
  BY DEF Claim, IsAt, OwnersInv, Placed, OnboardingTypeOK
<1>2. /\ operation \in [Keys -> Operation] /\ rows \in [Workspaces -> SUBSET AllSteps]
      /\ worker \in [Workers -> Worker]
  BY DEF OnboardingTypeOK
<1>3. /\ s \notin drawn /\ drawn' = drawn \cup {s}
      /\ worker' = [worker EXCEPT ![w].at = "step", ![w].workspace = s, ![w].step = 1]
      /\ ClaimNew(w, s) \/ Reclaim(w, s) \/ TakeOver(w, s)
  BY DEF Claim
<1>4. /\ operation[k].status \in {"absent", "rolled_back", "in_progress"}
      /\ operation[k].status # "in_progress" => UNCHANGED rows
      /\ operation[k].status = "in_progress" =>
           rows' = [rows EXCEPT ![operation[k].workspace] = {}]
  BY <1>3 DEF ClaimNew, Reclaim, TakeOver
<1>5. PICK old \in BOOLEAN : operation' = [operation EXCEPT ![k] = Claimed(w, s, old)]
  <2>1. operation[k].stale \in BOOLEAN
    BY <1>1, <1>2 DEF Operation
  <2> QED
    BY <1>1, <1>2, <1>3, <2>1 DEF ClaimNew, Reclaim, TakeOver
<1>6. /\ Claimed(w, s, old) \in Operation
      /\ Claimed(w, s, old).status = "in_progress" /\ Claimed(w, s, old).workspace = s
  BY <1>1 DEF Claimed, Operation, Worker, Statuses
<1>7. /\ operation' \in [Keys -> Operation]
      /\ \A j \in Keys \ {k} : operation'[j] = operation[j]
      /\ operation'[k].status = "in_progress" /\ operation'[k].workspace = s
  BY <1>1, <1>2, <1>5, <1>6
<1>8. /\ worker' \in [Workers -> Worker] /\ \A v \in Workers \ {w} : worker'[v] = worker[v]
      /\ worker'[w].at = "step" /\ worker'[w].key = k /\ worker'[w].workspace = s
      /\ worker'[w].step = 1
  <2> DEFINE c == [[[worker[w] EXCEPT !.at = "step"] EXCEPT !.workspace = s] EXCEPT !.step = 1]
  <2>1. worker' = [worker EXCEPT ![w] = c]
    BY <1>2, <1>3
  <2>2. c \in Worker /\ c.at = "step" /\ c.key = k /\ c.workspace = s /\ c.step = 1
    <3>1. 1 \in 0..Len(Steps)
      BY StepFacts
    <3> QED
      BY <1>1, <3>1 DEF Worker
  <2> HIDE DEF c
  <2> QED
    BY <1>2, <2>1, <2>2
<1>9. rows' \in [Workspaces -> SUBSET AllSteps]
  BY <1>2, <1>4
<1> QED
  BY <1>1, <1>3, <1>4, <1>7, <1>8, <1>9

(* WorkInv one step later. *)
LEMMA WorkAfter ==
  ASSUME \A w \in Workers :
           /\ worker'[w].at \in Working /\ operation'[worker'[w].key].workspace = worker'[w].workspace =>
                /\ operation'[worker'[w].key].status = "in_progress"
                /\ Written(worker'[w]) \subseteq rows'[worker'[w].workspace]
           /\ worker'[w].at = "step" /\ operation'[worker'[w].key].workspace # worker'[w].workspace =>
                worker'[w].step = 1 \/ rows'[worker'[w].workspace] = {}
  PROVE  WorkInv'
BY DEF WorkInv, Written

LEMMA ClaimKeeps ==
  ASSUME OnboardingInv, NEW w \in Workers, NEW s \in Workspaces, Claim(w, s)
  PROVE  OnboardingInv'
<1> DEFINE k == worker[w].key
           t == operation[k].workspace
<1>1. OnboardingTypeOK /\ OwnersInv /\ OperationsInv /\ WorkInv /\ WorkspacesWholeOrBare
  BY DEF OnboardingInv, WorkspacesWholeOrBare
<1>2. /\ k \in Keys /\ s \notin drawn /\ drawn' = drawn \cup {s} /\ worker[w].at = "reserved"
      /\ operation' \in [Keys -> Operation] /\ rows' \in [Workspaces -> SUBSET AllSteps]
      /\ \A j \in Keys \ {k} : operation'[j] = operation[j]
      /\ operation'[k].status = "in_progress" /\ operation'[k].workspace = s
      /\ worker' \in [Workers -> Worker] /\ \A v \in Workers \ {w} : worker'[v] = worker[v]
      /\ worker'[w].at = "step" /\ worker'[w].key = k /\ worker'[w].workspace = s
      /\ worker'[w].step = 1
      /\ operation[k].status \in {"absent", "rolled_back", "in_progress"}
      /\ operation[k].status # "in_progress" => UNCHANGED rows
      /\ operation[k].status = "in_progress" => rows' = [rows EXCEPT ![t] = {}]
  BY <1>1, ClaimFacts
<1> HIDE DEF k, t
<1>3. s # NoWorkspace /\ rows \in [Workspaces -> SUBSET AllSteps] /\ drawn \subseteq Workspaces
  BY <1>1, StepFacts DEF OnboardingTypeOK
<1>4. \A x \in Workspaces : x # t => rows'[x] = rows[x]
  BY <1>2, <1>3
<1>5. operation[k].status = "in_progress" => t \in Workspaces /\ t # s /\ rows'[t] = {}
  <2>1. operation[k].status = "in_progress" => t \in drawn
    BY <1>1, <1>2 DEF OperationsInv, t
  <2> QED
    BY <1>2, <1>3, <2>1
<1>6. OnboardingTypeOK'
  <2>1. unreserved' \subseteq Keys
    BY <1>1, <1>2 DEF Claim, Unreserved, OnboardingTypeOK, k
  <2> QED
    BY <1>1, <1>2, <1>3, <2>1 DEF OnboardingTypeOK, Claim
<1>7. OperationsInv'
  <2>1. \A j \in Keys : operation[j].workspace # s
    BY <1>1, <1>2, <1>3 DEF OperationsInv
  <2>2. \A j \in Keys :
          /\ operation'[j].workspace \in drawn' \cup {NoWorkspace}
          /\ operation'[j].status = "absent" <=> operation'[j].workspace = NoWorkspace
    BY <1>1, <1>2, <1>3 DEF OperationsInv
  <2>3. \A j, l \in Keys :
          operation'[j].workspace = operation'[l].workspace /\ operation'[l].workspace # NoWorkspace
            => j = l
    BY <1>1, <1>2, <2>1 DEF OperationsInv
  <2> QED
    BY <2>2, <2>3 DEF OperationsInv
<1>8. OwnersInv'
  <2>1. \A v \in Workers : worker[v].workspace # s
    BY <1>1, <1>2, <1>3 DEF OwnersInv
  <2>2. Placed(worker'[w])
    BY <1>2, <1>3, StepFacts DEF Placed, Unplaced
  <2>3. \A v \in Workers : Placed(worker'[v]) /\ worker'[v].workspace \in drawn' \cup {NoWorkspace}
    BY <1>1, <1>2, <2>2 DEF OwnersInv
  <2>4. \A v, x \in Workers :
          worker'[v].workspace = worker'[x].workspace /\ worker'[x].workspace # NoWorkspace => v = x
    BY <1>1, <1>2, <2>1 DEF OwnersInv
  <2>5. \A v \in Workers, j \in Keys :
          operation'[j].workspace = worker'[v].workspace /\ worker'[v].workspace # NoWorkspace
            => j = worker'[v].key
    <3> SUFFICES ASSUME NEW v \in Workers, NEW j \in Keys, worker'[v].workspace # NoWorkspace,
                        operation'[j].workspace = worker'[v].workspace
                 PROVE  j = worker'[v].key
      OBVIOUS
    <3>1. CASE v = w
      <4>1. j = k
        BY <1>1, <1>2, <1>3, <3>1 DEF OperationsInv
      <4> QED
        BY <1>2, <3>1, <4>1
    <3>2. CASE v # w
      BY <1>1, <1>2, <2>1, <3>2 DEF OwnersInv
    <3> QED
      BY <3>1, <3>2
  <2> QED
    BY <2>3, <2>4, <2>5 DEF OwnersInv, Placed
<1>9. WorkInv'
  <2>1. ASSUME NEW v \in Workers \ {w}, worker[v].at \in Working
        PROVE  /\ worker[v].key \in Keys /\ worker[v].workspace \in drawn
               /\ worker[v].workspace \in Workspaces
    <3>1. Placed(worker[v]) /\ worker[v].at \notin Unplaced /\ worker[v].at # "idle"
      BY <1>1, <2>1 DEF OwnersInv, Working, Unplaced
    <3> QED
      BY <1>1, <1>3, <3>1 DEF OwnersInv, Placed
  <2>2. ASSUME NEW v \in Workers \ {w}, worker[v].at \in Working,
               operation'[worker[v].key].workspace = worker[v].workspace
        PROVE  /\ operation'[worker[v].key].status = "in_progress"
               /\ Written(worker[v]) \subseteq rows'[worker[v].workspace]
    <3>1. worker[v].key # k /\ operation[worker[v].key].workspace = worker[v].workspace
      BY <1>2, <2>1, <2>2
    <3>2. worker[v].workspace # t
      <4>1. /\ worker[v].key \in Keys /\ worker[v].workspace \in Workspaces
            /\ NoWorkspace \notin Workspaces /\ k \in Keys
        BY <1>2, <2>1, <2>2, StepFacts
      <4>2. operation[k].workspace # operation[worker[v].key].workspace
        BY <1>1, <3>1, <4>1 DEF OperationsInv
      <4> QED
        BY <3>1, <4>2 DEF t
    <3> QED
      BY <1>1, <1>2, <1>4, <2>1, <2>2, <3>1, <3>2 DEF WorkInv
  <2>3. ASSUME NEW v \in Workers \ {w}, worker[v].at = "step",
               operation'[worker[v].key].workspace # worker[v].workspace
        PROVE  worker[v].step = 1 \/ rows'[worker[v].workspace] = {}
    <3>1. worker[v].at \in Working
      BY <2>3 DEF Working
    <3>2. CASE operation[worker[v].key].workspace # worker[v].workspace
      BY <1>1, <1>4, <1>5, <2>1, <2>3, <3>1, <3>2, <1>2 DEF WorkInv
    <3>3. CASE operation[worker[v].key].workspace = worker[v].workspace
      <4>1. operation[worker[v].key].status = "in_progress"
        BY <1>1, <3>1, <3>3 DEF WorkInv
      <4>2. worker[v].key = k
        BY <1>2, <2>1, <2>3, <3>1, <3>3
      <4> QED
        BY <1>5, <3>3, <4>1, <4>2 DEF t
    <3> QED
      BY <3>2, <3>3
  <2>4. Written(worker'[w]) = {}
    BY <1>2 DEF Written
  <2> QED
    BY <1>2, <2>2, <2>3, <2>4, WorkAfter
<1>10. WorkspacesWholeOrBare'
  <2>1. ASSUME NEW j \in Keys, operation'[j].status = "completed"
        PROVE  rows'[operation'[j].workspace] = AllSteps
    <3>1. j # k /\ operation[j] = operation'[j]
      BY <1>2, <2>1
    <3>2. operation[j].workspace \in Workspaces /\ operation[j].workspace # t
      BY <1>1, <1>2, <1>3, <2>1, <3>1 DEF OperationsInv, t
    <3> QED
      BY <1>1, <1>4, <2>1, <3>1, <3>2 DEF WorkspacesWholeOrBare
  <2>2. ASSUME NEW x \in Workspaces
        PROVE  \/ rows'[x] \subseteq Bootstrap
               \/ \E j \in Keys : operation'[j].workspace = x
                    /\ operation'[j].status \in {"in_progress", "completed", "failed"}
    <3>1. CASE rows'[x] = {}
      BY <3>1
    <3>2. ASSUME NEW j \in Keys, j # k, operation[j].workspace = x,
                 operation[j].status \in {"in_progress", "completed", "failed"}
          PROVE  <2>2!2
      BY <1>2, <3>2
    <3>3. ASSUME operation[k].workspace = x,
                 operation[k].status \in {"in_progress", "completed", "failed"}
          PROVE  rows'[x] = {}
      BY <1>2, <1>5, <3>3 DEF t
    <3>4. rows'[x] = rows[x] \/ rows'[x] = {}
      BY <1>2, <1>3
    <3> QED
      BY <1>1, <3>1, <3>2, <3>3, <3>4 DEF WorkspacesWholeOrBare
  <2>3. ASSUME NEW j \in Keys, NEW x \in answered'[j]
        PROVE  operation'[j].status = "completed" /\ operation'[j].workspace = x
    <3>1. x \in answered[j]
      BY <2>3 DEF Claim
    <3>2. operation[j].status = "completed" /\ operation[j].workspace = x
      BY <1>1, <3>1 DEF WorkspacesWholeOrBare
    <3> QED
      BY <1>2, <3>2
  <2> QED
    BY <1>6, <2>1, <2>2, <2>3 DEF WorkspacesWholeOrBare
<1> QED
  BY <1>6, <1>7, <1>8, <1>9, <1>10 DEF OnboardingInv

(* What others do is theirs: a request that writes for the operation it holds, *)
(* or to its own workspace, leaves the work of every other as it was.         *)
LEMMA OthersWork ==
  ASSUME OnboardingTypeOK, OwnersInv, WorkInv, NEW w \in Workers,
         \A v \in Workers \ {w} : worker'[v] = worker[v],
         \A k \in Keys : operation'[k].workspace = operation[k].workspace,
         \A k \in Keys : \/ operation'[k].status = operation[k].status
                         \/ operation[k].workspace = worker[w].workspace,
         \A s \in Workspaces : rows'[s] = rows[s] \/ s = worker[w].workspace,
         /\ worker'[w].at \in Working /\ operation'[worker'[w].key].workspace = worker'[w].workspace =>
              /\ operation'[worker'[w].key].status = "in_progress"
              /\ Written(worker'[w]) \subseteq rows'[worker'[w].workspace]
         /\ worker'[w].at = "step" /\ operation'[worker'[w].key].workspace # worker'[w].workspace =>
              worker'[w].step = 1 \/ rows'[worker'[w].workspace] = {}
  PROVE  WorkInv'
<1>1. "step" \in Working
  BY DEF Working
<1>2. ASSUME NEW v \in Workers \ {w}, worker[v].at \in Working
      PROVE  /\ worker[v].key \in Keys /\ worker[v].workspace # worker[w].workspace
             /\ rows'[worker[v].workspace] = rows[worker[v].workspace]
  <2>1. Placed(worker[v]) /\ worker[v].at \notin Unplaced /\ worker[v].at # "idle"
    BY <1>2 DEF OwnersInv, Working, Unplaced
  <2>2. worker[v].key \in Keys /\ worker[v].workspace # NoWorkspace
    BY <2>1 DEF Placed
  <2>3. worker[v].workspace \in Workspaces /\ worker[v].workspace # worker[w].workspace
    BY <2>2 DEF OwnersInv, OnboardingTypeOK
  <2> QED
    BY <2>2, <2>3
<1>3. ASSUME NEW v \in Workers \ {w}
      PROVE  /\ worker[v].at \in Working /\ operation'[worker[v].key].workspace = worker[v].workspace =>
                  /\ operation'[worker[v].key].status = "in_progress"
                  /\ Written(worker[v]) \subseteq rows'[worker[v].workspace]
             /\ worker[v].at = "step" /\ operation'[worker[v].key].workspace # worker[v].workspace =>
                  worker[v].step = 1 \/ rows'[worker[v].workspace] = {}
  BY <1>1, <1>2 DEF WorkInv
<1> QED
  BY <1>3, WorkAfter

LEMMA OperationBecomes ==
  ASSUME OnboardingTypeOK, NEW k \in Keys, NEW x \in Statuses,
         operation' = [operation EXCEPT ![k].status = x]
  PROVE  /\ operation' \in [Keys -> Operation] /\ \A j \in Keys \ {k} : operation'[j] = operation[j]
         /\ operation'[k].status = x /\ operation'[k].workspace = operation[k].workspace
<1>1. operation \in [Keys -> Operation]
  BY DEF OnboardingTypeOK
<1>2. operation' = [operation EXCEPT ![k] = [operation[k] EXCEPT !.status = x]]
  BY <1>1
<1>3. /\ [operation[k] EXCEPT !.status = x] \in Operation
      /\ [operation[k] EXCEPT !.status = x].status = x
      /\ [operation[k] EXCEPT !.status = x].workspace = operation[k].workspace
  BY <1>1 DEF Operation
<1> QED
  BY <1>1, <1>2, <1>3

LEMMA OperationAges ==
  ASSUME OnboardingTypeOK, NEW k \in Keys, NEW x \in BOOLEAN,
         operation' = [operation EXCEPT ![k].stale = x]
  PROVE  /\ operation' \in [Keys -> Operation]
         /\ \A j \in Keys : /\ operation'[j].status = operation[j].status
                            /\ operation'[j].workspace = operation[j].workspace
<1>1. operation \in [Keys -> Operation]
  BY DEF OnboardingTypeOK
<1>2. operation' = [operation EXCEPT ![k] = [operation[k] EXCEPT !.stale = x]]
  BY <1>1
<1>3. /\ [operation[k] EXCEPT !.stale = x] \in Operation
      /\ [operation[k] EXCEPT !.stale = x].status = operation[k].status
      /\ [operation[k] EXCEPT !.stale = x].workspace = operation[k].workspace
  BY <1>1 DEF Operation
<1> QED
  BY <1>1, <1>2, <1>3

LEMMA WorkerHas ==
  ASSUME OnboardingTypeOK, OwnersInv, NEW w \in Workers, worker[w].at \notin Unplaced
  PROVE  /\ worker[w] \in Worker /\ worker[w].key \in Keys /\ worker[w].step \in 1..Len(Steps)
         /\ worker[w].workspace \in Workspaces /\ worker[w].workspace # NoWorkspace
         /\ Placed(worker[w])
<1>1. Placed(worker[w]) /\ worker[w].at # "idle" /\ worker[w] \in Worker
  BY DEF OwnersInv, OnboardingTypeOK, Unplaced
<1> QED
  BY <1>1 DEF Placed, OwnersInv, OnboardingTypeOK

LEMMA ProvisionKeeps ==
  ASSUME OnboardingInv, NEW w \in Workers, Provision(w)
  PROVE  OnboardingInv'
<1> DEFINE s == worker[w].workspace
           k == worker[w].key
           n == worker[w].step
<1>1. OnboardingTypeOK /\ OwnersInv /\ OperationsInv /\ WorkInv /\ WorkspacesWholeOrBare
  BY DEF OnboardingInv, WorkspacesWholeOrBare
<1>2. /\ worker[w].at = "step" /\ Writable(s, n)
      /\ GoTo(w, "beat") \/ GoTo(w, "rollback")
      /\ rows' = [rows EXCEPT ![s] = @ \cup {Steps[n]}]
      /\ UNCHANGED <<operation, reservation, redemption, drawn, answered, unreserved>>
  BY DEF Provision, IsAt
<1>3. /\ k \in Keys /\ n \in 1..Len(Steps) /\ s \in Workspaces /\ s # NoWorkspace
      /\ Placed(worker[w])
  BY <1>1, <1>2, WorkerHas DEF Unplaced
<1>4. /\ rows' \in [Workspaces -> SUBSET AllSteps] /\ rows'[s] = rows[s] \cup {Steps[n]}
      /\ \A x \in Workspaces : rows[x] \subseteq rows'[x] /\ (x # s => rows'[x] = rows[x])
  <2>1. Steps[n] \in AllSteps /\ rows \in [Workspaces -> SUBSET AllSteps]
    BY <1>1, <1>3, StepFacts DEF OnboardingTypeOK
  <2> QED
    BY <1>2, <1>3, <2>1
<1>5. /\ worker' \in [Workers -> Worker] /\ \A v \in Workers \ {w} : worker'[v] = worker[v]
      /\ worker'[w].at \in {"beat", "rollback"} /\ worker'[w].key = k
      /\ worker'[w].workspace = s /\ worker'[w].step = n
  BY <1>1, <1>2, WorkerGoes DEF Working, Compensating
<1> HIDE DEF s, k, n
<1>6. Placed(worker'[w])
  BY <1>3, <1>5 DEF Placed, Unplaced
<1>7. Moved(w)
  BY <1>5, <1>6 DEF Moved, s, k
<1>8. OwnersInv' /\ OperationsInv'
  BY <1>1, <1>2, <1>7, OwnersKept, OperationsKept
<1>9. /\ operation[k].workspace = s =>
            operation[k].status = "in_progress" /\ Written(worker[w]) \subseteq rows[s]
      /\ operation[k].workspace # s => n = 1 \/ rows[s] = {}
  BY <1>1, <1>2 DEF WorkInv, Working, s, k, n
<1>10. WorkInv'
  <2>1. Written(worker'[w]) = Written(worker[w]) \cup {Steps[n]}
    <3>1. 1..n = (1..(n - 1)) \cup {n}
      BY <1>3
    <3>2. /\ Written(worker'[w]) = {Steps[i] : i \in 1..n}
          /\ Written(worker[w]) = {Steps[i] : i \in 1..(n - 1)}
      BY <1>2, <1>5 DEF Written, n
    <3> QED
      BY <3>1, <3>2
  <2>2. worker'[w].at # "step"
    BY <1>5
  <2> QED
    BY <1>1, <1>2, <1>4, <1>5, <1>9, <2>1, <2>2, OthersWork DEF s
<1>11. OnboardingTypeOK'
  BY <1>1, <1>2, <1>4, <1>5 DEF OnboardingTypeOK
<1>12. \/ rows[s] \subseteq Bootstrap => rows'[s] \subseteq Bootstrap
       \/ operation[k].workspace = s /\ operation[k].status = "in_progress"
  <2>1. CASE n = 1
    BY <1>1, <1>3, <1>4, <2>1 DEF Bootstrap, OnboardingTypeOK
  <2>2. CASE n # 1 /\ operation[k].workspace # s
    <3>1. rows[s] = {} /\ Bootstrap \subseteq rows[s]
      BY <1>2, <1>9, <2>2 DEF Writable
    <3> QED
      BY <3>1 DEF Bootstrap
  <2> QED
    BY <1>9, <2>1, <2>2
<1>13. WorkspacesWholeOrBare'
  <2>1. \A j \in Keys : operation[j].status = "completed" => operation[j].workspace \in Workspaces
    BY <1>1 DEF OperationsInv, OnboardingTypeOK
  <2>2. \A j \in Keys : operation'[j].status = "completed" => rows'[operation'[j].workspace] = AllSteps
    BY <1>1, <1>2, <1>4, <2>1 DEF WorkspacesWholeOrBare
  <2>3. \A x \in Workspaces :
          \/ rows'[x] \subseteq Bootstrap
          \/ \E j \in Keys : operation'[j].workspace = x
               /\ operation'[j].status \in {"in_progress", "completed", "failed"}
    BY <1>1, <1>2, <1>3, <1>4, <1>12 DEF WorkspacesWholeOrBare
  <2>4. \A j \in Keys : \A x \in answered'[j] :
          operation'[j].status = "completed" /\ operation'[j].workspace = x
    BY <1>1, <1>2 DEF WorkspacesWholeOrBare
  <2> QED
    BY <1>11, <2>2, <2>3, <2>4 DEF WorkspacesWholeOrBare
<1> QED
  BY <1>8, <1>10, <1>13 DEF OnboardingInv

LEMMA HeartbeatKeeps ==
  ASSUME OnboardingInv, NEW w \in Workers, Heartbeat(w)
  PROVE  OnboardingInv'
<1> DEFINE s == worker[w].workspace
           k == worker[w].key
           n == worker[w].step
           last == n = Len(Steps)
           place == IF last THEN "complete" ELSE "step"
           next == IF last THEN n ELSE n + 1
           c == [[worker[w] EXCEPT !.at = place] EXCEPT !.step = next]
<1>1. OnboardingTypeOK /\ OwnersInv /\ OperationsInv /\ WorkInv /\ WorkspacesWholeOrBare
  BY DEF OnboardingInv, WorkspacesWholeOrBare
<1>2. /\ worker[w].at = "beat" /\ Held(w)
      /\ operation' = [operation EXCEPT ![k].stale = FALSE]
      /\ worker' = [worker EXCEPT ![w].at = IF last THEN "complete" ELSE "step",
                                  ![w].step = IF last THEN @ ELSE @ + 1]
      /\ UNCHANGED <<reservation, redemption, rows, drawn, answered, unreserved>>
  BY DEF Heartbeat, IsAt
<1>3. /\ k \in Keys /\ n \in 1..Len(Steps) /\ s \in Workspaces /\ s # NoWorkspace
      /\ Placed(worker[w]) /\ worker[w] \in Worker /\ worker \in [Workers -> Worker]
  BY <1>1, <1>2, WorkerHas DEF Unplaced, OnboardingTypeOK
<1>4. /\ operation' \in [Keys -> Operation]
      /\ \A j \in Keys : /\ operation'[j].status = operation[j].status
                         /\ operation'[j].workspace = operation[j].workspace
  BY <1>1, <1>2, <1>3, OperationAges
<1>5. worker' = [worker EXCEPT ![w] = c]
  BY <1>2, <1>3
<1>6. /\ c \in Worker /\ c.key = k /\ c.workspace = s /\ c.step \in 1..Len(Steps)
      /\ \/ c.at = "complete" /\ c.step = n /\ n = Len(Steps)
         \/ c.at = "step" /\ c.step = n + 1
  <2>1. /\ next \in 1..Len(Steps) /\ place \in {"complete", "step"} /\ Len(Steps) \in Nat
        /\ \/ place = "complete" /\ next = n /\ n = Len(Steps)
           \/ place = "step" /\ next = n + 1
    BY <1>3, StepFacts
  <2> HIDE DEF next, place
  <2>2. c \in Worker /\ c.at = place /\ c.step = next /\ c.key = k /\ c.workspace = s
    <3>1. next \in 0..Len(Steps)
      BY <2>1
    <3> QED
      BY <1>3, <2>1, <3>1 DEF Worker
  <2> QED
    BY <2>1, <2>2
<1> HIDE DEF c, s, k, n, last, place, next
<1>7. /\ worker' \in [Workers -> Worker] /\ worker'[w] = c
      /\ \A v \in Workers \ {w} : worker'[v] = worker[v]
  BY <1>3, <1>5, <1>6
<1>8. Placed(c)
  BY <1>3, <1>6 DEF Placed, Unplaced
<1>9. Moved(w)
  BY <1>6, <1>7, <1>8 DEF Moved, s, k
<1>10. OwnersInv' /\ OperationsInv'
  BY <1>1, <1>2, <1>4, <1>9, OwnersKept, OperationsKept
<1>11. /\ operation[k].workspace = s /\ operation[k].status = "in_progress"
       /\ Written(worker[w]) \subseteq rows[s]
  BY <1>1, <1>2 DEF WorkInv, Held, Working, s, k
<1>12. WorkInv'
  <2>1. Written(c) = {Steps[i] : i \in 1..n} /\ Written(worker[w]) = {Steps[i] : i \in 1..n}
    <3>1. n \in Int /\ (n + 1) - 1 = n
      BY <1>3
    <3> QED
      BY <1>2, <1>6, <3>1 DEF Written, n
  <2>2. /\ operation'[k].workspace = s /\ operation'[k].status = "in_progress"
        /\ UNCHANGED rows /\ Written(c) \subseteq rows'[s]
    BY <1>2, <1>3, <1>4, <1>11, <2>1
  <2> QED
    BY <1>1, <1>4, <1>6, <1>7, <2>2, OthersWork
<1>13. OnboardingTypeOK'
  BY <1>1, <1>2, <1>4, <1>7 DEF OnboardingTypeOK
<1>14. WorkspacesWholeOrBare'
  BY <1>1, <1>2, <1>4, <1>13 DEF WorkspacesWholeOrBare
<1> QED
  BY <1>10, <1>12, <1>14 DEF OnboardingInv

(* A request that holds its operation sets the status, and turns away.       *)
LEMMA StatusKeeps ==
  ASSUME OnboardingInv, NEW w \in Workers, worker[w].at \notin Unplaced, Held(w),
         NEW x \in {"completed", "rolled_back", "failed"},
         operation' = [operation EXCEPT ![worker[w].key].status = x],
         Moved(w), worker'[w].at \notin Working,
         UNCHANGED <<reservation, redemption, drawn, unreserved>>,
         rows' \in [Workspaces -> SUBSET AllSteps],
         \A s \in Workspaces \ {worker[w].workspace} : rows'[s] = rows[s],
         x = "completed" => rows'[worker[w].workspace] = AllSteps,
         x = "rolled_back" => rows'[worker[w].workspace] = {},
         answered' \in [Keys -> SUBSET Workspaces],
         \A k \in Keys : \A s \in answered'[k] :
           \/ s \in answered[k]
           \/ x = "completed" /\ k = worker[w].key /\ s = worker[w].workspace
  PROVE  OnboardingInv'
<1> DEFINE k == worker[w].key
           t == worker[w].workspace
<1>1. OnboardingTypeOK /\ OwnersInv /\ OperationsInv /\ WorkInv /\ WorkspacesWholeOrBare
  BY DEF OnboardingInv, WorkspacesWholeOrBare
<1>2. k \in Keys /\ t \in Workspaces /\ t # NoWorkspace
  BY <1>1, WorkerHas
<1>3. operation[k].workspace = t /\ operation[k].status = "in_progress"
  BY DEF Held
<1>4. /\ operation' \in [Keys -> Operation] /\ \A j \in Keys \ {k} : operation'[j] = operation[j]
      /\ operation'[k].status = x /\ operation'[k].workspace = t
  BY <1>1, <1>2, <1>3, OperationBecomes DEF Statuses
<1> HIDE DEF k, t
<1>5. \A j \in Keys : /\ operation'[j].workspace = operation[j].workspace
                      /\ operation'[j].status = "absent" <=> operation[j].status = "absent"
                      /\ operation'[j].status = operation[j].status \/ operation[j].workspace = t
  BY <1>2, <1>3, <1>4
<1>6. OwnersInv' /\ OperationsInv'
  BY <1>1, <1>5, OwnersKept, OperationsKept
<1>7. \A v \in Workers \ {w} : worker'[v] = worker[v]
  BY DEF Moved
<1>8. WorkInv'
  <2>1. worker'[w].at # "step"
    BY DEF Working
  <2> QED
    BY <1>1, <1>5, <1>7, <2>1, OthersWork DEF t
<1>9. OnboardingTypeOK'
  BY <1>1, <1>4 DEF OnboardingTypeOK, Moved
<1>10. ASSUME NEW j \in Keys, operation'[j].status = "completed"
       PROVE  rows'[operation'[j].workspace] = AllSteps
  <2>1. CASE j = k
    BY <1>4, <1>10, <2>1 DEF t
  <2>2. CASE j # k
    <3>1. operation[j].status = "completed" /\ operation'[j] = operation[j]
      BY <1>4, <1>10, <2>2
    <3>2. operation[j].workspace \in Workspaces /\ operation[j].workspace # t
      BY <1>1, <1>2, <1>3, <2>2, <3>1 DEF OperationsInv, OnboardingTypeOK
    <3> QED
      BY <1>1, <3>1, <3>2 DEF WorkspacesWholeOrBare, t
  <2> QED
    BY <2>1, <2>2
<1>11. ASSUME NEW s \in Workspaces
       PROVE  \/ rows'[s] \subseteq Bootstrap
              \/ \E j \in Keys : operation'[j].workspace = s
                   /\ operation'[j].status \in {"in_progress", "completed", "failed"}
  <2>1. CASE s = t /\ x = "rolled_back"
    BY <2>1 DEF t
  <2>2. CASE s = t /\ x # "rolled_back"
    BY <1>2, <1>4, <2>2
  <2>3. CASE s # t
    <3>1. rows'[s] = rows[s]
      BY <2>3 DEF t
    <3>2. \/ rows[s] \subseteq Bootstrap
          \/ \E j \in Keys : operation[j].workspace = s
               /\ operation[j].status \in {"in_progress", "completed", "failed"}
      BY <1>1 DEF WorkspacesWholeOrBare
    <3> QED
      BY <1>3, <1>4, <2>3, <3>1, <3>2
  <2> QED
    BY <2>1, <2>2, <2>3
<1>12. ASSUME NEW j \in Keys, NEW s \in answered'[j]
       PROVE  operation'[j].status = "completed" /\ operation'[j].workspace = s
  <2>1. CASE s \in answered[j]
    <3>1. operation[j].status = "completed" /\ operation[j].workspace = s
      BY <1>1, <2>1 DEF WorkspacesWholeOrBare
    <3> QED
      BY <1>3, <1>4, <3>1
  <2>2. CASE x = "completed" /\ j = k /\ s = t
    BY <1>4, <2>2
  <2> QED
    BY <2>1, <2>2 DEF k, t
<1>13. WorkspacesWholeOrBare'
  BY <1>9, <1>10, <1>11, <1>12 DEF WorkspacesWholeOrBare
<1> QED
  BY <1>6, <1>8, <1>13 DEF OnboardingInv

LEMMA CompensationKeeps ==
  ASSUME OnboardingInv, NEW w \in Workers,
         Complete(w) \/ Rollback(w) \/ RecordRollbackFailure(w)
  PROVE  OnboardingInv'
<1> DEFINE k == worker[w].key
           t == worker[w].workspace
<1>1. OnboardingTypeOK /\ OwnersInv /\ WorkInv /\ WorkspacesWholeOrBare
  BY DEF OnboardingInv, WorkspacesWholeOrBare
<1>2. worker[w].at \in {"complete", "rollback", "unrolled"} /\ worker[w].at \notin Unplaced
  BY DEF Complete, Rollback, RecordRollbackFailure, IsAt, Unplaced
<1>3. /\ k \in Keys /\ t \in Workspaces /\ worker[w].step \in 1..Len(Steps)
      /\ Placed(worker[w])
      /\ answered \in [Keys -> SUBSET Workspaces] /\ rows \in [Workspaces -> SUBSET AllSteps]
      /\ operation \in [Keys -> Operation]
  BY <1>1, <1>2, WorkerHas DEF OnboardingTypeOK
<1>4. Finish(w) \/ GoTo(w, "rollback") \/ GoTo(w, "unrolled")
  BY DEF Complete, Rollback, RecordRollbackFailure
<1>5. Moved(w) /\ worker'[w].at \notin Working
  BY <1>1, <1>2, <1>4, MovesAway
<1>6. UNCHANGED <<reservation, redemption, drawn, unreserved>>
  BY DEF Complete, Rollback, RecordRollbackFailure
<1>7. CASE Complete(w)
  <2>1. /\ Held(w) /\ UNCHANGED rows /\ worker[w].at = "complete"
        /\ operation' = [operation EXCEPT ![k].status = "completed"]
        /\ answered' = [answered EXCEPT ![k] = @ \cup {t}] \/ UNCHANGED answered
    BY <1>7 DEF Complete, Completable, IsAt
  <2>2. rows[t] = AllSteps
    <3>1. Written(worker[w]) \subseteq rows[t] /\ worker[w].step = Len(Steps)
      BY <1>1, <1>3, <2>1 DEF WorkInv, Working, Held, Placed
    <3>2. Written(worker[w]) = AllSteps
      BY <2>1, <3>1, StepFacts DEF Written
    <3> QED
      BY <1>3, <3>1, <3>2
  <2>3. /\ answered' \in [Keys -> SUBSET Workspaces]
        /\ \A j \in Keys : \A s \in answered'[j] : s \in answered[j] \/ (j = k /\ s = t)
    BY <1>3, <2>1
  <2> HIDE DEF k, t
  <2> QED
    BY <1>2, <1>3, <1>5, <1>6, <2>1, <2>2, <2>3, StatusKeeps DEF k, t
<1>8. CASE Rollback(w)
  <2>1. /\ Held(w) /\ UNCHANGED answered /\ rows' = [rows EXCEPT ![t] = {}]
        /\ operation' = [operation EXCEPT ![k].status = IF @ = "in_progress" THEN "rolled_back" ELSE @]
    BY <1>8 DEF Rollback, InScope
  <2>2. operation' = [operation EXCEPT ![k].status = "rolled_back"]
    BY <1>3, <2>1 DEF Held
  <2>3. /\ rows' \in [Workspaces -> SUBSET AllSteps] /\ rows'[t] = {}
        /\ \A s \in Workspaces \ {t} : rows'[s] = rows[s]
    BY <1>3, <2>1
  <2> QED
    BY <1>2, <1>3, <1>5, <1>6, <2>1, <2>2, <2>3, StatusKeeps
<1>9. CASE RecordRollbackFailure(w)
  <2>1. UNCHANGED <<answered, rows>>
    BY <1>9 DEF RecordRollbackFailure
  <2>2. CASE Held(w) /\ operation' = [operation EXCEPT ![k].status = "failed"]
    BY <1>2, <1>3, <1>5, <1>6, <2>1, <2>2, StatusKeeps
  <2>3. CASE UNCHANGED operation
    <3>1. OnboardingTypeOK'
      BY <1>1, <1>5, <1>6, <2>1, <2>3 DEF OnboardingTypeOK, Moved
    <3> QED
      BY <1>5, <1>6, <2>1, <2>3, <3>1, QuietKeeps
  <2> QED
    BY <1>9, <2>2, <2>3 DEF RecordRollbackFailure
<1> QED
  BY <1>7, <1>8, <1>9

LEMMA AgeingKeeps ==
  ASSUME OnboardingInv, NEW k \in Keys, GrowStale(k) \/ GrowOld(k)
  PROVE  OnboardingInv'
<1>1. OnboardingTypeOK /\ OwnersInv /\ OperationsInv /\ WorkInv /\ WorkspacesWholeOrBare
  BY DEF OnboardingInv, WorkspacesWholeOrBare
<1>2. /\ UNCHANGED <<redemption, rows, worker, drawn, answered, unreserved>>
      /\ operation' = [operation EXCEPT ![k].stale = TRUE] \/ UNCHANGED operation
      /\ reservation' = [reservation EXCEPT ![k] = "old"] \/ UNCHANGED reservation
  BY DEF GrowStale, GrowOld
<1>3. /\ operation' \in [Keys -> Operation]
      /\ \A j \in Keys : /\ operation'[j].status = operation[j].status
                         /\ operation'[j].workspace = operation[j].workspace
  BY <1>1, <1>2, OperationAges DEF OnboardingTypeOK
<1>4. reservation' \in [Keys -> {"none", "fresh", "old"}]
  BY <1>1, <1>2 DEF OnboardingTypeOK
<1>5. OnboardingTypeOK'
  BY <1>1, <1>2, <1>3, <1>4 DEF OnboardingTypeOK
<1>6. OperationsInv'
  BY <1>1, <1>2, <1>3, OperationsKept
<1>7. OwnersInv'
  BY <1>1, <1>2, <1>3 DEF OwnersInv, Placed
<1>8. WorkInv'
  <2>1. ASSUME NEW w \in Workers, worker[w].at \in Working
        PROVE  worker[w].key \in Keys
    BY <1>1, <2>1, WorkerHas DEF Working, Unplaced
  <2>2. "step" \in Working
    BY DEF Working
  <2> QED
    BY <1>1, <1>2, <1>3, <2>1, <2>2, WorkAfter DEF WorkInv
<1>9. WorkspacesWholeOrBare'
  BY <1>1, <1>2, <1>3, <1>5 DEF WorkspacesWholeOrBare
<1> QED
  BY <1>6, <1>7, <1>8, <1>9 DEF OnboardingInv

LEMMA AlwaysOnboarding == OnboardingSpec => []OnboardingInv
<1>1. OnboardingInv /\ [OnboardingNext]_onboardingVars => OnboardingInv'
  <2> SUFFICES ASSUME OnboardingInv, [OnboardingNext]_onboardingVars PROVE OnboardingInv'
    OBVIOUS
  <2>1. CASE OnboardingNext
    BY <2>1, EntryKeeps, ClaimKeeps, DepartureKeeps, ProvisionKeeps, HeartbeatKeeps,
       CompensationKeeps, AgeingKeeps DEF OnboardingNext
  <2>2. CASE UNCHANGED onboardingVars
    <3>1. /\ UNCHANGED <<operation, reservation, redemption, rows>>
          /\ UNCHANGED <<worker, drawn, answered, unreserved>>
      BY <2>2 DEF onboardingVars
    <3>2. WorkspacesWholeOrBare'
      BY <3>1 DEF OnboardingInv, WorkspacesWholeOrBare, OnboardingTypeOK
    <3>3. OperationsInv'
      BY <3>1 DEF OnboardingInv, OperationsInv
    <3>4. OwnersInv'
      BY <3>1 DEF OnboardingInv, OwnersInv, Placed
    <3>5. WorkInv'
      BY <3>1 DEF OnboardingInv, WorkInv, Written
    <3> QED
      BY <3>2, <3>3, <3>4, <3>5 DEF OnboardingInv
  <2> QED
    BY <2>1, <2>2
<1> QED
  BY <1>1, OnboardingInitial, PTL DEF OnboardingSpec

(* A completed workspace is whole and an abandoned one bare, for any number   *)
(* of keys, requests and steps, wherever one of them dies, stalls or is taken  *)
(* over.                                                                      *)
THEOREM AlwaysWholeOrBare == OnboardingSpec => []WorkspacesWholeOrBare
<1>1. OnboardingInv => WorkspacesWholeOrBare
  BY DEF OnboardingInv
<1> QED
  BY <1>1, AlwaysOnboarding, PTL

-----------------------------------------------------------------------------
(* The capacity.  A key that is being created and counts has a reservation,   *)
(* of any age: an expired one stops counting only while nothing was claimed.  *)
Counts(status, reserved) ==
  \/ status = "completed"
  \/ status = "absent" /\ reserved = "fresh"
  \/ status = "in_progress" /\ reserved # "none"

CountedKeys == {k \in Keys : Counts(operation[k].status, reservation[k])}

CapacityInv ==
  /\ Cardinality(CountedKeys \ unreserved) <= MaxActive
  /\ \A k \in Keys \ unreserved : operation[k].status = "in_progress" => reservation[k] # "none"

LEMMA CountedIs ==
  ASSUME OnboardingTypeOK
  PROVE  Counted = CountedKeys
BY DEF OnboardingTypeOK, Counted, Expired, CountedKeys, Counts

LEMMA CountedFinite ==
  ASSUME NEW S \in SUBSET Keys
  PROVE  /\ IsFiniteSet(S) /\ Cardinality(S) \in Nat
         /\ \A T \in SUBSET S : Cardinality(T) <= Cardinality(S)
         /\ \A T \in SUBSET Keys, k \in Keys : T \subseteq S \cup {k} => Cardinality(T) <= Cardinality(S) + 1
<1>1. IsFiniteSet(S) /\ Cardinality(S) \in Nat
  BY OnboardingAssumption, FS_Subset, FS_CardinalityType
<1>2. \A T \in SUBSET S : Cardinality(T) <= Cardinality(S)
  BY <1>1, FS_Subset
<1>3. ASSUME NEW T \in SUBSET Keys, NEW k \in Keys, T \subseteq S \cup {k}
      PROVE  Cardinality(T) <= Cardinality(S) + 1
  <2>1. /\ IsFiniteSet(S \cup {k})
        /\ Cardinality(S \cup {k}) \in {Cardinality(S), Cardinality(S) + 1}
    BY <1>1, FS_AddElement
  <2>2. Cardinality(T) <= Cardinality(S \cup {k}) /\ Cardinality(T) \in Nat
    BY <1>3, <2>1, FS_Subset, FS_CardinalityType, OnboardingAssumption
  <2> QED
    BY <1>1, <2>1, <2>2
<1> QED
  BY <1>1, <1>2, <1>3

(* Most steps leave no more keys to count. *)
LEMMA FewerCount ==
  ASSUME CapacityInv, CountedKeys' \ unreserved' \subseteq CountedKeys \ unreserved,
         \A k \in Keys \ unreserved' : operation'[k].status = "in_progress" => reservation'[k] # "none"
  PROVE  CapacityInv'
<1>1. CountedKeys \ unreserved \in SUBSET Keys
  BY DEF CountedKeys
<1>2. /\ Cardinality(CountedKeys' \ unreserved') <= Cardinality(CountedKeys \ unreserved)
      /\ Cardinality(CountedKeys \ unreserved) \in Nat
  BY <1>1, CountedFinite
<1>3. Cardinality(CountedKeys' \ unreserved') \in Nat
  BY <1>1, CountedFinite
<1> QED
  BY <1>2, <1>3, OnboardingAssumption DEF CapacityInv

LEMMA ReserveBounded ==
  ASSUME OnboardingInv, CapacityInv, NEW w \in Workers, Reserve(w)
  PROVE  CapacityInv'
<1> DEFINE k == worker[w].key
           swept == [j \in Keys |-> IF j \in Expired THEN "none" ELSE reservation[j]]
<1>1. OnboardingTypeOK /\ k \in Keys
  BY DEF OnboardingInv, WorkspacesWholeOrBare, OwnersInv, Placed, Reserve, IsAt
<1>2. reservation \in [Keys -> {"none", "fresh", "old"}] /\ UNCHANGED <<operation, unreserved>>
  BY <1>1 DEF OnboardingTypeOK, Reserve
<1>3. \A j \in Keys : /\ Counts(operation[j].status, swept[j]) <=> Counts(operation[j].status, reservation[j])
                      /\ operation[j].status = "in_progress" => swept[j] = reservation[j]
  BY <1>2 DEF Counts, Expired
<1>4. \/ reservation' = swept
      \/ Room /\ reservation' = [swept EXCEPT ![k] = "fresh"]
  BY DEF Reserve
<1>5. swept \in [Keys -> {"none", "fresh", "old"}]
  BY <1>2
<1> HIDE DEF swept, k
<1>6. CASE reservation' = swept
  <2>1. CountedKeys' = CountedKeys
    BY <1>2, <1>3, <1>6 DEF CountedKeys
  <2> QED
    BY <1>2, <1>3, <1>6, <2>1, FewerCount DEF CapacityInv
<1>7. CASE Room /\ reservation' = [swept EXCEPT ![k] = "fresh"]
  <2>1. CountedKeys' \subseteq CountedKeys \cup {k}
    BY <1>2, <1>3, <1>5, <1>7 DEF CountedKeys
  <2>2. CountedKeys \in SUBSET Keys /\ CountedKeys' \in SUBSET Keys
    BY DEF CountedKeys
  <2>3. Cardinality(CountedKeys) < MaxActive
    BY <1>1, <1>7, CountedIs DEF Room
  <2>4. Cardinality(CountedKeys' \ unreserved') <= Cardinality(CountedKeys) + 1
    BY <1>1, <2>1, <2>2, CountedFinite
  <2>5. Cardinality(CountedKeys' \ unreserved') \in Nat /\ Cardinality(CountedKeys) \in Nat
    BY <2>2, CountedFinite
  <2>6. Cardinality(CountedKeys' \ unreserved') <= MaxActive
    BY <2>3, <2>4, <2>5, OnboardingAssumption
  <2>7. \A j \in Keys \ unreserved' : operation'[j].status = "in_progress" => reservation'[j] # "none"
    BY <1>2, <1>3, <1>5, <1>7 DEF CapacityInv
  <2> QED
    BY <2>6, <2>7 DEF CapacityInv
<1> QED
  BY <1>4, <1>6, <1>7

LEMMA ClaimBounded ==
  ASSUME OnboardingInv, CapacityInv, NEW w \in Workers, NEW s \in Workspaces, Claim(w, s)
  PROVE  CapacityInv'
<1> DEFINE k == worker[w].key
<1>1. OnboardingTypeOK /\ OwnersInv
  BY DEF OnboardingInv, WorkspacesWholeOrBare
<1>2. /\ k \in Keys /\ \A j \in Keys \ {k} : operation'[j] = operation[j]
      /\ operation'[k].status = "in_progress" /\ UNCHANGED reservation
      /\ operation[k].status \in {"absent", "rolled_back", "in_progress"}
      /\ unreserved' = unreserved \cup Unreserved(k)
  <2>1. UNCHANGED reservation /\ unreserved' = unreserved \cup Unreserved(k)
    BY DEF Claim
  <2> QED
    BY <1>1, <2>1, ClaimFacts
<1>3. k \in unreserved' \/ k \in CountedKeys
  BY <1>1, <1>2, CountedIs DEF Unreserved
<1>4. k \in CountedKeys => reservation[k] # "none"
  BY <1>2 DEF CountedKeys, Counts
<1> HIDE DEF k
<1>5. CountedKeys' \ unreserved' \subseteq CountedKeys \ unreserved
  BY <1>2, <1>3 DEF CountedKeys
<1>6. \A j \in Keys \ unreserved' : operation'[j].status = "in_progress" => reservation'[j] # "none"
  BY <1>2, <1>3, <1>4 DEF CapacityInv
<1> QED
  BY <1>5, <1>6, FewerCount

(* A request that completes or gives up its operation counts as before, or    *)
(* no longer; ageing takes keys out of the count.                             *)
LEMMA OthersBounded ==
  ASSUME OnboardingInv, OnboardingInv', CapacityInv, UNCHANGED unreserved,
         \A k \in Keys :
           \/ operation'[k].status = operation[k].status
           \/ operation[k].status = "in_progress"
              /\ operation'[k].status \in {"completed", "rolled_back", "failed"},
         \A k \in Keys : \/ reservation'[k] = reservation[k]
                         \/ reservation[k] = "fresh" /\ reservation'[k] = "old"
  PROVE  CapacityInv'
<1>1. \A k \in Keys \ unreserved : k \in CountedKeys' => k \in CountedKeys
  BY DEF CountedKeys, Counts, CapacityInv
<1>2. CountedKeys' \ unreserved' \subseteq CountedKeys \ unreserved
  BY <1>1 DEF CountedKeys
<1>3. \A k \in Keys \ unreserved' : operation'[k].status = "in_progress" => reservation'[k] # "none"
  BY DEF CapacityInv
<1> QED
  BY <1>2, <1>3, FewerCount

LEMMA CapacityStep ==
  ASSUME OnboardingInv, OnboardingInv', CapacityInv, [OnboardingNext]_onboardingVars
  PROVE  CapacityInv'
<1>1. OnboardingTypeOK /\ OwnersInv
  BY DEF OnboardingInv, WorkspacesWholeOrBare
<1>2. ASSUME UNCHANGED <<operation, reservation, unreserved>>
      PROVE  CapacityInv'
  BY <1>2 DEF CapacityInv, CountedKeys
<1>3. ASSUME NEW w \in Workers, Heartbeat(w)
      PROVE  CapacityInv'
  <2>1. worker[w].key \in Keys
    BY <1>1, <1>3, WorkerHas DEF Heartbeat, IsAt, Unplaced
  <2>2. \A k \in Keys : operation'[k].status = operation[k].status
    BY <1>1, <1>3, <2>1, OperationAges DEF Heartbeat
  <2> QED
    BY <1>3, <2>2, OthersBounded DEF Heartbeat
<1>4. ASSUME NEW w \in Workers, Complete(w) \/ Rollback(w) \/ RecordRollbackFailure(w)
      PROVE  CapacityInv'
  <2> DEFINE k == worker[w].key
  <2>1. k \in Keys
    BY <1>1, <1>4, WorkerHas DEF Complete, Rollback, RecordRollbackFailure, IsAt, Unplaced
  <2>2. UNCHANGED <<reservation, unreserved>>
    BY <1>4 DEF Complete, Rollback, RecordRollbackFailure
  <2>3. ASSUME NEW x \in {"completed", "rolled_back", "failed"}, Held(w),
               operation' = [operation EXCEPT ![k].status = x]
        PROVE  CapacityInv'
    <3>1. \A j \in Keys \ {k} : operation'[j] = operation[j]
      BY <1>1, <2>1, <2>3, OperationBecomes DEF Statuses
    <3>2. operation'[k].status = x /\ operation[k].status = "in_progress"
      BY <1>1, <2>1, <2>3, OperationBecomes DEF Statuses, Held
    <3> QED
      BY <2>2, <3>1, <3>2, OthersBounded
  <2>4. CASE UNCHANGED operation
    BY <1>2, <2>2, <2>4
  <2>5. CASE Rollback(w)
    <3>1. /\ Held(w)
          /\ operation' = [operation EXCEPT ![k].status = IF @ = "in_progress" THEN "rolled_back" ELSE @]
      BY <2>5 DEF Rollback, InScope
    <3>2. operation' = [operation EXCEPT ![k].status = "rolled_back"]
      BY <3>1 DEF Held
    <3> QED
      BY <2>3, <3>1, <3>2
  <2> QED
    BY <1>4, <2>3, <2>4, <2>5 DEF Complete, Completable, RecordRollbackFailure
<1>5. ASSUME NEW k \in Keys, GrowStale(k) \/ GrowOld(k)
      PROVE  CapacityInv'
  <2>1. /\ UNCHANGED unreserved
        /\ operation' = [operation EXCEPT ![k].stale = TRUE] \/ UNCHANGED operation
        /\ UNCHANGED reservation
             \/ (reservation[k] = "fresh" /\ reservation' = [reservation EXCEPT ![k] = "old"])
    BY <1>5 DEF GrowStale, GrowOld
  <2>2. \A j \in Keys : operation'[j].status = operation[j].status
    BY <1>1, <2>1, OperationAges
  <2>3. \A j \in Keys : \/ reservation'[j] = reservation[j]
                        \/ reservation[j] = "fresh" /\ reservation'[j] = "old"
    BY <1>1, <2>1 DEF OnboardingTypeOK
  <2> QED
    BY <2>1, <2>2, <2>3, OthersBounded
<1>6. ASSUME NEW w \in Workers,
             \/ \E k \in Keys, b \in Bodies, i \in BetaInvites : ConsumeInvite(w, k, b, i)
             \/ ClaimAnswered(w) \/ Provision(w) \/ ProvisionFails(w) \/ HeartbeatFails(w)
             \/ CompleteFails(w) \/ RollbackFails(w) \/ Die(w)
      PROVE  CapacityInv'
  BY <1>2, <1>6 DEF ConsumeInvite, ClaimAnswered, Provision, ProvisionFails, HeartbeatFails,
     CompleteFails, RollbackFails, Die
<1>7. CASE OnboardingNext
  BY <1>3, <1>4, <1>5, <1>6, <1>7, ReserveBounded, ClaimBounded DEF OnboardingNext
<1>8. CASE UNCHANGED onboardingVars
  BY <1>2, <1>8 DEF onboardingVars
<1> QED
  BY <1>7, <1>8

LEMMA CapacityEnough ==
  ASSUME OnboardingInv, CapacityInv
  PROVE  CapacityHolds
<1> DEFINE S == {k \in Keys \ unreserved : operation[k].status \in {"in_progress", "completed"}}
<1>1. S \subseteq CountedKeys \ unreserved /\ CountedKeys \ unreserved \in SUBSET Keys
  BY DEF CapacityInv, CountedKeys, Counts
<1>2. Cardinality(S) <= Cardinality(CountedKeys \ unreserved)
  BY <1>1, CountedFinite
<1>3. S \in SUBSET Keys /\ Cardinality(S) \in Nat /\ Cardinality(CountedKeys \ unreserved) \in Nat
  BY <1>1, CountedFinite
<1> QED
  BY <1>2, <1>3, OnboardingAssumption DEF CapacityInv, CapacityHolds

(* No more workspaces exist or are being created than there is room for, but  *)
(* for those that went on without a reservation that counted.                 *)
THEOREM AlwaysWithinCapacity == OnboardingSpec => []CapacityHolds
<1>1. OnboardingInit => CapacityInv
  <2> SUFFICES ASSUME OnboardingInit PROVE CapacityInv
    OBVIOUS
  <2>1. \A k \in Keys : operation[k].status = "absent" /\ reservation[k] = "none"
    BY DEF OnboardingInit, NoOperation
  <2>2. CountedKeys \ unreserved = {}
    BY <2>1 DEF CountedKeys, Counts
  <2> QED
    <3>1. Cardinality(CountedKeys \ unreserved) = 0
      BY <2>2, FS_EmptySet
    <3>2. 0 <= MaxActive
      BY OnboardingAssumption
    <3> QED
      BY <2>1, <3>1, <3>2 DEF CapacityInv
<1>2. OnboardingInv /\ OnboardingInv' /\ CapacityInv /\ [OnboardingNext]_onboardingVars => CapacityInv'
  BY CapacityStep
<1>3. OnboardingInv /\ CapacityInv => CapacityHolds
  BY CapacityEnough
<1> QED
  BY <1>1, <1>2, <1>3, AlwaysOnboarding, PTL DEF OnboardingSpec

-----------------------------------------------------------------------------
(* Identity.  The rows and what a request knows, by name. *)
ServiceRow ==
  [status : {"active", "revoked"}, account : Accounts, capabilities : SUBSET Capabilities,
   expires : Times]
AgentRow ==
  [status : {"active", "revoked"}, agent : Agents, capabilities : SUBSET AgentCapabilities,
   expires : Times]
InviteRow ==
  [status : {"open", "accepted", "revoked"}, role : Roles, source : ServiceKeys, expires : Times]
SessionRow ==
  [status : {"active", "revoked"}, role : Roles, source : ServiceKeys, expires : Times]

Admitted == [at : {"admitted"}, as : PrincipalRecord]
Resolved == [at : {"resolved"}, session : Sessions]
Accepting == [at : {"accepting"}, invite : Invites, since : Times]

Tables ==
  /\ now \in 0..MaxTime
  /\ agent \in [Agents -> BOOLEAN]
  /\ serviceKey \in [ServiceKeys -> {Absent} \cup ServiceRow]
  /\ agentKey \in [AgentKeys -> {Absent} \cup AgentRow]
  /\ invite \in [Invites -> {Absent} \cup InviteRow]
  /\ session \in [Sessions -> {Absent} \cup SessionRow]
  /\ request \in [Requests -> {Idle} \cup Admitted \cup Resolved \cup Accepting]

LEMMA TablesTyped == IdentityTypeOK <=> Tables
BY DEF IdentityTypeOK, Tables, ServiceRow, AgentRow, InviteRow, SessionRow, Admitted, Resolved, Accepting

LEMMA TablesTypedNext == IdentityTypeOK' <=> Tables'
BY DEF IdentityTypeOK, Tables, ServiceRow, AgentRow, InviteRow, SessionRow, Admitted, Resolved, Accepting

LEMMA RowFacts ==
  /\ Absent.status = "absent"
  /\ \A r \in ServiceRow : r.status # "absent" /\ r.account \in Accounts
                             /\ r.capabilities \in SUBSET Capabilities /\ r.expires \in Times
  /\ \A r \in AgentRow : r.status # "absent" /\ r.capabilities \in SUBSET AgentCapabilities
                           /\ r.expires \in Times
  /\ \A r \in InviteRow : r.status # "absent" /\ r.role \in Roles /\ r.source \in ServiceKeys
                            /\ r.expires \in Times
  /\ \A r \in SessionRow : r.status # "absent" /\ r.role \in Roles /\ r.source \in ServiceKeys
                             /\ r.expires \in Times
BY DEF Absent, ServiceRow, AgentRow, InviteRow, SessionRow

LEMMA RequestFacts ==
  /\ Idle.at = "idle"
  /\ \A r \in Admitted : r.at = "admitted" /\ r.as \in PrincipalRecord
  /\ \A r \in Resolved : r.at = "resolved" /\ r.session \in Sessions
  /\ \A r \in Accepting : r.at = "accepting" /\ r.invite \in Invites /\ r.since \in Times
BY DEF Idle, Admitted, Resolved, Accepting

(* A row whose status changes is the same row otherwise. *)
LEMMA StatusChanges ==
  /\ \A r \in ServiceRow : LET q == [r EXCEPT !.status = "revoked"] IN
       q \in ServiceRow /\ q.account = r.account
  /\ \A r \in AgentRow : [r EXCEPT !.status = "revoked"] \in AgentRow
  /\ \A r \in InviteRow, x \in {"accepted", "revoked"} : LET q == [r EXCEPT !.status = x] IN
       q \in InviteRow /\ q.status = x /\ q.role = r.role /\ q.source = r.source
  /\ \A r \in SessionRow : LET q == [r EXCEPT !.status = "revoked"] IN
       q \in SessionRow /\ q.role = r.role /\ q.source = r.source
BY DEF ServiceRow, AgentRow, InviteRow, SessionRow

LEMMA TimeFacts ==
  /\ MaxTime \in Nat /\ Never \in Nat /\ \A e \in 1..Never : e \in Times
  /\ \A t \in 0..MaxTime : t \in Times /\ t + InviteLife \in Times /\ t + SessionLife \in Nat
  /\ \A t \in Times : t \in Nat /\ t + SessionLife \in Nat
  /\ \A t \in Times, s \in Nat : Earlier(s, t) \in Times
<1>1. MaxTime \in Nat /\ InviteLife \in Nat \ {0} /\ SessionLife \in Nat \ {0}
  BY IdentityAssumption
<1> QED
  BY <1>1 DEF Never, Times, Earlier

LEMMA CapabilityFacts ==
  /\ \A r \in Roles : /\ HumanCapabilities[r] \subseteq RoleCapabilities[r]
                      /\ RoleCapabilities[r] \subseteq Capabilities
                      /\ HumanCapabilities[r] \subseteq Capabilities
  /\ HumanCapabilities["admin"] = Capabilities /\ AgentCapabilities \subseteq Capabilities
  /\ "none" \notin Roles
BY DEF Roles, HumanCapabilities, RoleCapabilities, Capabilities, AgentCapabilities

(* A credential that exists, and what the role of its account may do. *)
Known(c) == c \in ServiceKeys /\ serviceKey[c] # Absent
Rank(c) == RoleCapabilities[RoleOf[serviceKey[c].account]]

LineageTyped ==
  /\ rootOf \in [Sessions \cup Invites -> ServiceKeys \cup {NoRoot}]
  /\ inviteOf \in [Sessions -> Invites \cup {NoRoot}]

(* Whom a principal speaks for: the credential it came with, or the one its   *)
(* session comes from.                                                       *)
Speaks(p) ==
  /\ Known(p.source) /\ p.role \in Roles /\ HumanCapabilities[p.role] \subseteq Rank(p.source)
  /\ \/ p.key = p.source
     \/ p.key \in Sessions /\ session[p.key] # Absent /\ rootOf[p.key] = p.source

PrincipalsInv ==
  \A x \in Requests :
    Serving(x, "admitted") /\ request[x].as.kind = "service_account" => Speaks(request[x].as)

(* What descends from a credential: a session within its role, and an invite  *)
(* to any role only of a credential that has every capability.               *)
DescentInv ==
  /\ \A s \in Sessions : session[s] # Absent =>
       /\ Known(session[s].source) /\ rootOf[s] = session[s].source
       /\ HumanCapabilities[session[s].role] \subseteq Rank(session[s].source)
  /\ \A i \in Invites : invite[i] # Absent =>
       /\ Known(invite[i].source) /\ rootOf[i] = invite[i].source
       /\ Capabilities \subseteq Rank(invite[i].source)

(* An invite is accepted by one request, before its one session. *)
OriginsInv ==
  /\ \A s \in Sessions :
       /\ session[s] = Absent => inviteOf[s] = NoRoot
       /\ inviteOf[s] # NoRoot =>
            /\ invite[inviteOf[s]].status = "accepted"
            /\ \A t \in Sessions : inviteOf[t] = inviteOf[s] => t = s
  /\ \A x \in Requests : Serving(x, "resolved") => session[request[x].session] # Absent
  /\ \A x \in Requests : Serving(x, "accepting") =>
       /\ invite[request[x].invite].status = "accepted"
       /\ \A s \in Sessions : inviteOf[s] # request[x].invite
       /\ \A y \in Requests :
            Serving(y, "accepting") /\ request[y].invite = request[x].invite => x = y

IdentityInv == IdentityTypeOK /\ LineageTyped /\ PrincipalsInv /\ DescentInv /\ OriginsInv

LEMMA OriginEnough == IdentityInv => SessionsHaveOneOrigin
<1> SUFFICES ASSUME IdentityInv, NEW s \in Sessions
             PROVE  /\ inviteOf[s] # NoRoot =>
                         /\ invite[inviteOf[s]].status = "accepted"
                         /\ \A t \in Sessions : inviteOf[t] = inviteOf[s] => t = s
                    /\ session[s] # Absent =>
                         /\ session[s].source = rootOf[s]
                         /\ HumanCapabilities[session[s].role] \subseteq
                              RoleCapabilities[RoleOf[serviceKey[rootOf[s]].account]]
  BY DEF SessionsHaveOneOrigin, IdentityInv
<1> QED
  BY DEF IdentityInv, OriginsInv, DescentInv, Rank

LEMMA IdentityInitial == IdentityInit => IdentityInv
<1> SUFFICES ASSUME IdentityInit PROVE IdentityInv
  OBVIOUS
<1>1. Tables
  <2>1. [status |-> "active", account |-> FirstAccount, capabilities |-> Capabilities,
         expires |-> Never] \in ServiceRow
    <3>1. Never \in Times /\ FirstAccount \in Accounts
      BY IdentityAssumption DEF Never, Times
    <3> QED
      BY <3>1 DEF ServiceRow
  <2>2. 0 \in 0..MaxTime
    BY TimeFacts
  <2> QED
    BY <2>1, <2>2 DEF IdentityInit, Tables
<1>2. /\ \A x \in Requests : request[x].at = "idle"
      /\ \A s \in Sessions : session[s] = Absent /\ inviteOf[s] = NoRoot
      /\ \A i \in Invites : invite[i] = Absent
  BY DEF IdentityInit, Idle
<1>3. LineageTyped
  BY DEF IdentityInit, LineageTyped
<1> QED
  BY <1>1, <1>2, <1>3, TablesTyped DEF IdentityInv, PrincipalsInv, DescentInv, OriginsInv, Serving

LEMMA RequestEnds ==
  ASSUME Tables, NEW x \in Requests, End(x)
  PROVE  /\ request' \in [Requests -> {Idle} \cup Admitted \cup Resolved \cup Accepting]
         /\ request'[x] = Idle /\ \A y \in Requests \ {x} : request'[y] = request[y]
BY DEF Tables, End

LEMMA RequestTurns ==
  ASSUME Tables, NEW x \in Requests, NEW r \in Admitted \cup Resolved \cup Accepting,
         request' = [request EXCEPT ![x] = r]
  PROVE  /\ request' \in [Requests -> {Idle} \cup Admitted \cup Resolved \cup Accepting]
         /\ request'[x] = r /\ \A y \in Requests \ {x} : request'[y] = request[y]
BY DEF Tables

(* Rows that exist stay, with whom they belong to and come from. *)
Grows ==
  /\ \A c \in ServiceKeys : serviceKey[c] # Absent =>
       serviceKey'[c] # Absent /\ serviceKey'[c].account = serviceKey[c].account
  /\ \A s \in Sessions : session[s] # Absent =>
       /\ session'[s] # Absent /\ session'[s].role = session[s].role
       /\ session'[s].source = session[s].source
       /\ rootOf'[s] = rootOf[s] /\ inviteOf'[s] = inviteOf[s]
  /\ \A i \in Invites : invite[i] # Absent =>
       /\ invite'[i] # Absent /\ invite'[i].role = invite[i].role
       /\ invite'[i].source = invite[i].source /\ rootOf'[i] = rootOf[i]

LEMMA StillKnown ==
  ASSUME Grows, NEW c, Known(c)
  PROVE  Known(c)' /\ Rank(c)' = Rank(c)
BY DEF Grows, Known, Rank

LEMMA StillSpeaks ==
  ASSUME Grows, NEW p, Speaks(p)
  PROVE  /\ Known(p.source)' /\ p.role \in Roles /\ HumanCapabilities[p.role] \subseteq Rank(p.source)'
         /\ \/ p.key = p.source
            \/ p.key \in Sessions /\ session'[p.key] # Absent /\ rootOf'[p.key] = p.source
<1>1. Known(p.source)' /\ Rank(p.source)' = Rank(p.source)
  BY StillKnown DEF Speaks
<1> QED
  BY <1>1 DEF Speaks, Grows

(* What each operation writes. *)
Stays == Tables' /\ LineageTyped' /\ Grows

LEMMA OnlyRequests ==
  ASSUME Tables, LineageTyped,
         request' \in [Requests -> {Idle} \cup Admitted \cup Resolved \cup Accepting],
         UNCHANGED <<now, agent, serviceKey, agentKey, invite, session, rootOf, inviteOf>>
  PROVE  Stays
BY DEF Stays, Tables, LineageTyped, Grows

LEMMA PrincipalTyped ==
  /\ \A c \in ServiceKeys, role \in Roles, caps \in SUBSET Capabilities :
       LET p == Principal("service_account", c, role, caps, c) IN
       p \in PrincipalRecord /\ p.key = c /\ p.source = c /\ p.role = role
         /\ p.kind = "service_account"
  /\ \A c \in AgentKeys, caps \in SUBSET AgentCapabilities :
       LET p == Principal("agent", c, "none", caps, c) IN
       p \in PrincipalRecord /\ p.kind = "agent"
  /\ \A s \in Sessions, c \in ServiceKeys, role \in Roles, caps \in SUBSET Capabilities :
       LET p == Principal("service_account", s, role, caps, c) IN
       p \in PrincipalRecord /\ p.key = s /\ p.source = c /\ p.role = role
         /\ p.kind = "service_account"
<1>1. AgentCapabilities \subseteq Capabilities
  BY CapabilityFacts
<1> QED
  BY <1>1 DEF Principal, PrincipalRecord

LEMMA AdmittedIs ==
  ASSUME Tables, NEW x \in Requests, NEW p \in PrincipalRecord, Admit(x, p)
  PROVE  /\ request' \in [Requests -> {Idle} \cup Admitted \cup Resolved \cup Accepting]
         /\ request'[x].at = "admitted" /\ request'[x].as = p
         /\ \A y \in Requests \ {x} : request'[y] = request[y]
<1> DEFINE r == [at |-> "admitted", as |-> p]
<1>1. r \in Admitted /\ r.at = "admitted" /\ r.as = p
  BY DEF Admitted
<1>2. request' = [request EXCEPT ![x] = r]
  BY DEF Admit
<1> HIDE DEF r
<1> QED
  BY <1>1, <1>2, RequestTurns

LEMMA ServiceAuthenticated ==
  ASSUME IdentityInv, Tables, NEW x \in Requests, NEW c \in ServiceKeys, AuthenticateService(x, c)
  PROVE  /\ Stays /\ request'[x].at = "admitted" /\ Speaks(request'[x].as)
         /\ \A y \in Requests \ {x} : request'[y] = request[y]
<1> DEFINE role == RoleOf[serviceKey[c].account]
           caps == serviceKey[c].capabilities
           p == Principal("service_account", c, role, caps, c)
<1>1. /\ serviceKey[c].status = "active" /\ Admit(x, p)
      /\ UNCHANGED <<now, agent, serviceKey, agentKey, invite, session, rootOf, inviteOf>>
  BY DEF AuthenticateService, ServiceKeyActive
<1>2. serviceKey[c] # Absent /\ serviceKey[c] \in ServiceRow
  BY <1>1, RowFacts DEF Tables
<1>3. role \in Roles /\ caps \in SUBSET Capabilities
  BY <1>2, RowFacts, IdentityAssumption
<1>4. /\ p \in PrincipalRecord /\ p.key = c /\ p.source = c /\ p.role = role
  BY <1>3, PrincipalTyped
<1>5. Known(c) /\ HumanCapabilities[role] \subseteq Rank(c)
  BY <1>2, <1>3, CapabilityFacts DEF Known, Rank
<1> HIDE DEF p, role, caps
<1>6. Speaks(p)
  BY <1>3, <1>4, <1>5 DEF Speaks
<1>7. /\ request' \in [Requests -> {Idle} \cup Admitted \cup Resolved \cup Accepting]
      /\ request'[x].at = "admitted" /\ request'[x].as = p
      /\ \A y \in Requests \ {x} : request'[y] = request[y]
  BY <1>1, <1>4, AdmittedIs
<1> QED
  BY <1>1, <1>6, <1>7, OnlyRequests DEF IdentityInv

LEMMA AgentAuthenticated ==
  ASSUME IdentityInv, Tables, NEW x \in Requests, NEW c \in AgentKeys, AuthenticateAgent(x, c)
  PROVE  /\ Stays /\ request'[x].at = "admitted" /\ request'[x].as.kind = "agent"
         /\ \A y \in Requests \ {x} : request'[y] = request[y]
<1> DEFINE caps == agentKey[c].capabilities
           p == Principal("agent", c, "none", caps, c)
<1>1. /\ agentKey[c].status = "active" /\ Admit(x, p)
      /\ UNCHANGED <<now, agent, serviceKey, agentKey, invite, session, rootOf, inviteOf>>
  BY DEF AuthenticateAgent
<1>2. agentKey[c] \in AgentRow
  BY <1>1, RowFacts DEF Tables
<1>3. p \in PrincipalRecord /\ p.kind = "agent"
  BY <1>2, RowFacts, PrincipalTyped
<1> HIDE DEF p
<1>4. /\ request' \in [Requests -> {Idle} \cup Admitted \cup Resolved \cup Accepting]
      /\ request'[x].at = "admitted" /\ request'[x].as = p
      /\ \A y \in Requests \ {x} : request'[y] = request[y]
  BY <1>1, <1>3, AdmittedIs
<1> QED
  BY <1>1, <1>3, <1>4, OnlyRequests DEF IdentityInv

LEMMA SessionResolved ==
  ASSUME IdentityInv, Tables, NEW x \in Requests, NEW s \in Sessions, ResolveSession(x, s)
  PROVE  /\ Stays /\ request'[x].at = "resolved" /\ session[request'[x].session] # Absent
         /\ \A y \in Requests \ {x} : request'[y] = request[y]
<1> DEFINE r == [at |-> "resolved", session |-> s]
<1>1. /\ session[s].status = "active" /\ request' = [request EXCEPT ![x] = r]
      /\ UNCHANGED <<now, agent, serviceKey, agentKey, invite, session, rootOf, inviteOf>>
  BY DEF ResolveSession, SessionOpen
<1>2. r \in Resolved /\ r.at = "resolved" /\ r.session = s
  BY DEF Resolved
<1> HIDE DEF r
<1>3. /\ request' \in [Requests -> {Idle} \cup Admitted \cup Resolved \cup Accepting]
      /\ request'[x] = r /\ \A y \in Requests \ {x} : request'[y] = request[y]
  BY <1>1, <1>2, RequestTurns
<1>4. session[s] # Absent
  BY <1>1, RowFacts
<1> QED
  BY <1>1, <1>2, <1>3, <1>4, OnlyRequests DEF IdentityInv

LEMMA SourceChecked ==
  ASSUME IdentityInv, Tables, NEW x \in Requests, CheckSource(x)
  PROVE  /\ Stays /\ \A y \in Requests \ {x} : request'[y] = request[y]
         /\ \/ request'[x] = Idle
            \/ request'[x].at = "admitted" /\ Speaks(request'[x].as)
<1> DEFINE s == request[x].session
           role == session[s].role
           c == session[s].source
           p == Principal("service_account", s, role, HumanCapabilities[role], c)
<1>1. /\ request[x].at = "resolved" /\ (Admit(x, p) \/ End(x))
      /\ UNCHANGED <<now, agent, serviceKey, agentKey, invite, session, rootOf, inviteOf>>
  BY DEF CheckSource, Serving
<1>2. s \in Sessions /\ session[s] # Absent
  BY <1>1, RequestFacts DEF Tables, IdentityInv, OriginsInv, Serving
<1>3. role \in Roles /\ c \in ServiceKeys
  BY <1>2, RowFacts DEF Tables
<1>4. Known(c) /\ rootOf[s] = c /\ HumanCapabilities[role] \subseteq Rank(c)
  BY <1>2 DEF IdentityInv, DescentInv
<1>5. p \in PrincipalRecord /\ p.key = s /\ p.source = c /\ p.role = role
  BY <1>2, <1>3, CapabilityFacts, PrincipalTyped
<1> HIDE DEF p, role, c, s
<1>6. Speaks(p)
  BY <1>2, <1>3, <1>4, <1>5 DEF Speaks
<1>7. /\ request' \in [Requests -> {Idle} \cup Admitted \cup Resolved \cup Accepting]
      /\ \A y \in Requests \ {x} : request'[y] = request[y]
      /\ request'[x] = Idle \/ (request'[x].at = "admitted" /\ request'[x].as = p)
  BY <1>1, <1>5, AdmittedIs, RequestEnds
<1> QED
  BY <1>1, <1>6, <1>7, OnlyRequests DEF IdentityInv

(* Operations on agents and credentials, and what only ends a request.        *)
OthersIdle(x) ==
  /\ request' \in [Requests -> {Idle} \cup Admitted \cup Resolved \cup Accepting]
  /\ request'[x] = Idle /\ \A y \in Requests \ {x} : request'[y] = request[y]

LEMMA RowKept ==
  ASSUME Tables
  PROVE  /\ \A c \in ServiceKeys : serviceKey[c] # Absent => serviceKey[c] \in ServiceRow
         /\ \A c \in AgentKeys : agentKey[c].status = "active" => agentKey[c] \in AgentRow
         /\ \A c \in ServiceKeys : serviceKey[c].status = "active" =>
              serviceKey[c] \in ServiceRow /\ serviceKey[c] # Absent
         /\ \A i \in Invites : /\ invite[i] # Absent => invite[i] \in InviteRow
                               /\ invite[i].status = "open" => invite[i] # Absent
                               /\ invite[i].status = "accepted" => invite[i] # Absent
         /\ \A s \in Sessions : /\ session[s] # Absent => session[s] \in SessionRow
                                /\ session[s].status = "active" => session[s] # Absent
BY RowFacts DEF Tables

LEMMA KeysWritten ==
  ASSUME IdentityInv, Tables, NEW x \in Requests,
         \/ \E a \in Agents : RegisterAgent(x, a)
         \/ \E c \in AgentKeys :
              \/ RevokeAgentKey(x, c)
              \/ \E a \in Agents, g \in Grants, e \in 1..Never : IssueAgentKey(x, c, a, g, e)
         \/ \E c \in ServiceKeys :
              \/ RevokeServiceKey(x, c)
              \/ \E a \in Accounts, g \in Grants, e \in 1..Never : IssueServiceKey(x, c, a, g, e)
  PROVE  Stays /\ OthersIdle(x) /\ UNCHANGED <<invite, session, inviteOf>>
<1>1. /\ End(x) /\ UNCHANGED <<now, invite, session, rootOf, inviteOf>>
  BY DEF RegisterAgent, IssueAgentKey, RevokeAgentKey, IssueServiceKey, RevokeServiceKey
<1>2. OthersIdle(x)
  BY <1>1, RequestEnds DEF OthersIdle
<1>3. agent' \in [Agents -> BOOLEAN]
  BY DEF RegisterAgent, IssueAgentKey, RevokeAgentKey, IssueServiceKey, RevokeServiceKey, Tables
<1>4. agentKey' \in [AgentKeys -> {Absent} \cup AgentRow]
  <2>1. ASSUME NEW c \in AgentKeys, NEW a \in Agents, NEW g \in Grants, NEW e \in 1..Never,
               IssueAgentKey(x, c, a, g, e)
        PROVE  agentKey' \in [AgentKeys -> {Absent} \cup AgentRow]
    <3> DEFINE r == [status |-> "active", agent |-> a, capabilities |-> g, expires |-> e]
    <3>1. agentKey' = [agentKey EXCEPT ![c] = r] /\ g \subseteq AgentCapabilities
      BY <2>1 DEF IssueAgentKey
    <3>2. r \in AgentRow
      BY <3>1, TimeFacts DEF AgentRow
    <3> HIDE DEF r
    <3> QED
      BY <3>1, <3>2 DEF Tables
  <2>2. ASSUME NEW c \in AgentKeys, RevokeAgentKey(x, c)
        PROVE  agentKey' \in [AgentKeys -> {Absent} \cup AgentRow]
    <3>1. agentKey' = [agentKey EXCEPT ![c] = [agentKey[c] EXCEPT !.status = "revoked"]]
      BY <2>2 DEF RevokeAgentKey, Tables
    <3>2. [agentKey[c] EXCEPT !.status = "revoked"] \in AgentRow
      BY <2>2, RowKept, StatusChanges DEF RevokeAgentKey
    <3> QED
      BY <3>1, <3>2 DEF Tables
  <2>3. CASE UNCHANGED agentKey
    BY <2>3 DEF Tables
  <2> QED
    BY <2>1, <2>2, <2>3 DEF RegisterAgent, IssueServiceKey, RevokeServiceKey
<1>5. /\ serviceKey' \in [ServiceKeys -> {Absent} \cup ServiceRow]
      /\ \A c \in ServiceKeys : serviceKey[c] # Absent =>
           serviceKey'[c] # Absent /\ serviceKey'[c].account = serviceKey[c].account
  <2>1. ASSUME NEW c \in ServiceKeys, NEW a \in Accounts, NEW g \in Grants, NEW e \in 1..Never,
               IssueServiceKey(x, c, a, g, e)
        PROVE  <1>5!1 /\ <1>5!2
    <3> DEFINE r == [status |-> "active", account |-> a, capabilities |-> g, expires |-> e]
    <3>1. /\ serviceKey' = [serviceKey EXCEPT ![c] = r] /\ serviceKey[c] = Absent
          /\ g \subseteq RoleCapabilities[RoleOf[a]]
      BY <2>1 DEF IssueServiceKey
    <3>2. g \subseteq Capabilities
      BY <3>1, CapabilityFacts, IdentityAssumption
    <3>3. r \in ServiceRow
      BY <3>2, TimeFacts DEF ServiceRow
    <3> HIDE DEF r
    <3> QED
      BY <3>1, <3>3 DEF Tables
  <2>2. ASSUME NEW c \in ServiceKeys, RevokeServiceKey(x, c)
        PROVE  <1>5!1 /\ <1>5!2
    <3> DEFINE r == [serviceKey[c] EXCEPT !.status = "revoked"]
    <3>1. serviceKey' = [serviceKey EXCEPT ![c] = r]
      BY <2>2 DEF RevokeServiceKey, Tables
    <3>2. r \in ServiceRow /\ r.account = serviceKey[c].account
      BY <2>2, RowKept, StatusChanges DEF RevokeServiceKey
    <3>3. r # Absent
      BY <3>2, RowFacts
    <3> HIDE DEF r
    <3> QED
      BY <3>1, <3>2, <3>3 DEF Tables
  <2>3. CASE UNCHANGED serviceKey
    BY <2>3 DEF Tables
  <2> QED
    BY <2>1, <2>2, <2>3 DEF RegisterAgent, IssueAgentKey, RevokeAgentKey
<1>6. Tables'
  BY <1>1, <1>2, <1>3, <1>4, <1>5 DEF Tables, OthersIdle
<1>7. Grows /\ LineageTyped'
  BY <1>1, <1>5 DEF Grows, LineageTyped, IdentityInv
<1> QED
  BY <1>1, <1>2, <1>6, <1>7 DEF Stays

(* Invites. *)
LEMMA InviteIssued ==
  ASSUME IdentityInv, Tables, NEW x \in Requests, NEW i \in Invites, NEW role \in Roles,
         IssueInvite(x, i, role)
  PROVE  /\ Stays /\ OthersIdle(x) /\ UNCHANGED <<session, inviteOf>>
         /\ invite[i] = Absent /\ \A j \in Invites \ {i} : invite'[j] = invite[j]
         /\ Known(invite'[i].source) /\ rootOf'[i] = invite'[i].source
         /\ Capabilities \subseteq Rank(invite'[i].source)
         /\ UNCHANGED serviceKey
<1> DEFINE p == request[x].as
           r == [status |-> "open", role |-> role, source |-> p.source, expires |-> now + InviteLife]
<1>1. /\ request[x].at = "admitted" /\ p.kind = "service_account" /\ p.role = "admin"
      /\ invite[i] = Absent /\ invite' = [invite EXCEPT ![i] = r]
      /\ rootOf' = [rootOf EXCEPT ![i] = Root(p.key)] /\ End(x)
      /\ UNCHANGED <<now, agent, serviceKey, agentKey, session, inviteOf>>
  BY DEF IssueInvite, May, Serving, SourceOf
<1>2. Speaks(p)
  BY <1>1 DEF IdentityInv, PrincipalsInv, Serving
<1>3. /\ p.source \in ServiceKeys /\ Known(p.source)
      /\ Capabilities \subseteq Rank(p.source)
  BY <1>1, <1>2, CapabilityFacts DEF Speaks, Known
<1>4. Root(p.key) = p.source
  BY <1>2, <1>3, IdentityAssumption DEF Speaks, Root
<1>5. r \in InviteRow /\ r.source = p.source
  BY <1>3, TimeFacts DEF InviteRow, Tables
<1>6. r # Absent
  BY <1>5, RowFacts
<1> HIDE DEF r, p
<1>7. OthersIdle(x)
  BY <1>1, RequestEnds DEF OthersIdle
<1>8. /\ invite' \in [Invites -> {Absent} \cup InviteRow] /\ invite'[i] = r
      /\ \A j \in Invites \ {i} : invite'[j] = invite[j]
  BY <1>1, <1>5 DEF Tables
<1>9. /\ rootOf' \in [Sessions \cup Invites -> ServiceKeys \cup {NoRoot}]
      /\ rootOf'[i] = p.source
      /\ \A j \in (Sessions \cup Invites) \ {i} : rootOf'[j] = rootOf[j]
  BY <1>1, <1>3, <1>4 DEF IdentityInv, LineageTyped
<1>10. i \notin Sessions
  BY IdentityAssumption
<1>11. Tables' /\ LineageTyped'
  BY <1>1, <1>7, <1>8, <1>9 DEF Tables, OthersIdle, IdentityInv, LineageTyped
<1>12. Grows
  BY <1>1, <1>8, <1>9, <1>10 DEF Grows
<1> QED
  BY <1>1, <1>3, <1>5, <1>7, <1>8, <1>9, <1>11, <1>12 DEF Stays

(* An invite changes its status: to the session the rows stay.               *)
LEMMA InviteTurns ==
  ASSUME IdentityInv, Tables, NEW i \in Invites, NEW status \in {"accepted", "revoked"},
         invite[i] # Absent, invite' = [invite EXCEPT ![i].status = status],
         request' \in [Requests -> {Idle} \cup Admitted \cup Resolved \cup Accepting],
         UNCHANGED <<now, agent, serviceKey, agentKey, session, rootOf, inviteOf>>
  PROVE  /\ Stays /\ invite'[i].status = status
         /\ \A j \in Invites \ {i} : invite'[j] = invite[j]
         /\ \A j \in Invites : invite'[j] # Absent => invite[j] # Absent
<1> DEFINE r == [invite[i] EXCEPT !.status = status]
<1>1. /\ r \in InviteRow /\ r.status = status /\ r.role = invite[i].role
      /\ r.source = invite[i].source
  BY RowKept, StatusChanges
<1>2. invite' = [invite EXCEPT ![i] = r]
  BY DEF Tables
<1>3. r # Absent
  BY <1>1, RowFacts
<1> HIDE DEF r
<1>4. /\ invite' \in [Invites -> {Absent} \cup InviteRow] /\ invite'[i] = r
      /\ \A j \in Invites \ {i} : invite'[j] = invite[j]
  BY <1>1, <1>2 DEF Tables
<1>5. Tables' /\ LineageTyped'
  BY <1>4 DEF Tables, LineageTyped, IdentityInv
<1>6. Grows
  BY <1>1, <1>3, <1>4 DEF Grows
<1> QED
  BY <1>1, <1>4, <1>5, <1>6 DEF Stays

LEMMA InviteConsumed ==
  ASSUME IdentityInv, Tables, NEW x \in Requests, NEW i \in Invites, ConsumeWorkspaceInvite(x, i)
  PROVE  /\ Stays /\ invite[i].status = "open" /\ invite'[i].status = "accepted"
         /\ \A j \in Invites \ {i} : invite'[j] = invite[j]
         /\ \A j \in Invites : invite'[j] # Absent => invite[j] # Absent
         /\ request'[x].at = "accepting" /\ request'[x].invite = i
         /\ \A y \in Requests \ {x} : request'[y] = request[y]
         /\ UNCHANGED <<session, inviteOf>>
<1> DEFINE r == [at |-> "accepting", invite |-> i, since |-> now]
<1>1. /\ invite[i].status = "open" /\ invite' = [invite EXCEPT ![i].status = "accepted"]
      /\ request' = [request EXCEPT ![x] = r]
      /\ UNCHANGED <<now, agent, serviceKey, agentKey, session, rootOf, inviteOf>>
  BY DEF ConsumeWorkspaceInvite, Consumable
<1>2. r \in Accepting /\ r.at = "accepting" /\ r.invite = i
  BY TimeFacts DEF Accepting, Tables
<1> HIDE DEF r
<1>3. /\ request' \in [Requests -> {Idle} \cup Admitted \cup Resolved \cup Accepting]
      /\ request'[x] = r /\ \A y \in Requests \ {x} : request'[y] = request[y]
  BY <1>1, <1>2, RequestTurns
<1>4. invite[i] # Absent
  BY <1>1, RowKept
<1> QED
  BY <1>1, <1>2, <1>3, <1>4, InviteTurns

LEMMA InviteRevoked ==
  ASSUME IdentityInv, Tables, NEW x \in Requests, NEW i \in Invites, RevokeInvite(x, i)
  PROVE  /\ Stays /\ OthersIdle(x) /\ invite[i].status = "open"
         /\ \A j \in Invites \ {i} : invite'[j] = invite[j]
         /\ \A j \in Invites : invite'[j] # Absent => invite[j] # Absent
         /\ UNCHANGED <<session, inviteOf>>
<1>1. /\ invite[i].status = "open" /\ invite' = [invite EXCEPT ![i].status = "revoked"] /\ End(x)
      /\ UNCHANGED <<now, agent, serviceKey, agentKey, session, rootOf, inviteOf>>
  BY DEF RevokeInvite
<1>2. OthersIdle(x)
  BY <1>1, RequestEnds DEF OthersIdle
<1>3. invite[i] # Absent
  BY <1>1, RowKept
<1> QED
  BY <1>1, <1>2, <1>3, InviteTurns DEF OthersIdle

(* Sessions. *)
PutsSession(x, s, r, root, i) ==
  /\ session[s] = Absent /\ session' = [session EXCEPT ![s] = r]
  /\ rootOf' = [rootOf EXCEPT ![s] = root] /\ inviteOf' = [inviteOf EXCEPT ![s] = i]
  /\ End(x) /\ UNCHANGED <<now, agent, serviceKey, agentKey, invite>>

LEMMA SessionPut ==
  ASSUME IdentityInv, Tables, NEW x \in Requests, NEW s \in Sessions,
         NEW r \in SessionRow, NEW root \in ServiceKeys, NEW i \in Invites \cup {NoRoot},
         PutsSession(x, s, r, root, i)
  PROVE  /\ Stays /\ OthersIdle(x)
         /\ session'[s] = r /\ r # Absent /\ rootOf'[s] = root /\ inviteOf'[s] = i
         /\ \A t \in Sessions \ {s} : session'[t] = session[t] /\ inviteOf'[t] = inviteOf[t]
<1>0. /\ session' = [session EXCEPT ![s] = r] /\ session[s] = Absent
      /\ rootOf' = [rootOf EXCEPT ![s] = root] /\ inviteOf' = [inviteOf EXCEPT ![s] = i]
      /\ End(x) /\ UNCHANGED <<now, agent, serviceKey, agentKey, invite>>
  BY DEF PutsSession
<1>1. OthersIdle(x)
  BY <1>0, RequestEnds DEF OthersIdle
<1>2. r # Absent
  BY RowFacts
<1>3. /\ session' \in [Sessions -> {Absent} \cup SessionRow] /\ session'[s] = r
      /\ \A t \in Sessions \ {s} : session'[t] = session[t]
  BY <1>0 DEF Tables
<1>4. LineageTyped
  BY DEF IdentityInv
<1>5. /\ rootOf' \in [Sessions \cup Invites -> ServiceKeys \cup {NoRoot}] /\ rootOf'[s] = root
      /\ \A j \in (Sessions \cup Invites) \ {s} : rootOf'[j] = rootOf[j]
  BY <1>0, <1>4 DEF LineageTyped
<1>6. /\ inviteOf' \in [Sessions -> Invites \cup {NoRoot}] /\ inviteOf'[s] = i
      /\ \A t \in Sessions \ {s} : inviteOf'[t] = inviteOf[t]
  BY <1>0, <1>4 DEF LineageTyped
<1>7. s \notin Invites
  BY IdentityAssumption
<1>8. Tables' /\ LineageTyped'
  BY <1>0, <1>1, <1>3, <1>5, <1>6 DEF Tables, OthersIdle, LineageTyped
<1>9. Grows
  BY <1>0, <1>3, <1>5, <1>6, <1>7 DEF Grows
<1> QED
  BY <1>1, <1>2, <1>3, <1>5, <1>6, <1>8, <1>9 DEF Stays

(* A new session speaks for a known credential, within its role. *)
Descends(s) ==
  /\ Known(session'[s].source) /\ rootOf'[s] = session'[s].source
  /\ HumanCapabilities[session'[s].role] \subseteq Rank(session'[s].source)

LEMMA InvitedSession ==
  ASSUME IdentityInv, Tables, NEW x \in Requests, NEW s \in Sessions, PutInvitedSession(x, s)
  PROVE  /\ Stays /\ OthersIdle(x) /\ Descends(s) /\ UNCHANGED <<invite, serviceKey>>
         /\ session[s] = Absent /\ session'[s] # Absent
         /\ request[x].at = "accepting" /\ inviteOf'[s] = request[x].invite
         /\ \A t \in Sessions \ {s} : session'[t] = session[t] /\ inviteOf'[t] = inviteOf[t]
<1> DEFINE i == request[x].invite
           end == Earlier(request[x].since + SessionLife, invite[i].expires)
           r == [status |-> "active", role |-> invite[i].role, source |-> invite[i].source,
                 expires |-> end]
<1>1. /\ request[x].at = "accepting" /\ session[s] = Absent
      /\ session' = [session EXCEPT ![s] = r]
      /\ rootOf' = [rootOf EXCEPT ![s] = rootOf[i]]
      /\ inviteOf' = [inviteOf EXCEPT ![s] = i] /\ End(x)
      /\ UNCHANGED <<now, agent, serviceKey, agentKey, invite>>
  BY DEF PutInvitedSession, Serving
<1>2. i \in Invites /\ request[x].since \in Times /\ invite[i].status = "accepted"
  <2>1. request[x] \in Accepting
    BY <1>1, RequestFacts DEF Tables
  <2> QED
    BY <1>1, <2>1, RequestFacts DEF IdentityInv, OriginsInv, Serving
<1>3. invite[i] # Absent /\ invite[i] \in InviteRow
  BY <1>2, RowKept
<1>4. end \in Times
  <2>1. request[x].since + SessionLife \in Nat /\ invite[i].expires \in Times
    BY <1>2, <1>3, RowFacts, TimeFacts
  <2> QED
    BY <2>1, TimeFacts
<1>5. invite[i].role \in Roles /\ invite[i].source \in ServiceKeys
  BY <1>3, RowFacts
<1> HIDE DEF end
<1>6. r \in SessionRow /\ r.role = invite[i].role /\ r.source = invite[i].source
  BY <1>4, <1>5 DEF SessionRow
<1>7. /\ Known(invite[i].source) /\ rootOf[i] = invite[i].source
      /\ Capabilities \subseteq Rank(invite[i].source)
  BY <1>2, <1>3 DEF IdentityInv, DescentInv
<1> HIDE DEF r, i
<1>8. /\ Stays /\ OthersIdle(x)
      /\ session'[s] = r /\ r # Absent /\ rootOf'[s] = rootOf[i] /\ inviteOf'[s] = i
      /\ \A t \in Sessions \ {s} : session'[t] = session[t] /\ inviteOf'[t] = inviteOf[t]
  <2>1. PutsSession(x, s, r, rootOf[i], i)
    BY <1>1 DEF PutsSession
  <2>2. rootOf[i] \in ServiceKeys
    BY <1>5, <1>7
  <2> QED
    BY <1>2, <1>6, <2>1, <2>2, SessionPut
<1>9. Descends(s)
  BY <1>5, <1>6, <1>7, <1>8, CapabilityFacts DEF Descends
<1> QED
  BY <1>1, <1>8, <1>9 DEF i

LEMMA SessionCreated ==
  ASSUME IdentityInv, Tables, NEW x \in Requests, NEW s \in Sessions,
         \E e \in 1..Never : CreateSession(x, s, e)
  PROVE  /\ Stays /\ OthersIdle(x) /\ Descends(s) /\ UNCHANGED <<invite, inviteOf, serviceKey>>
         /\ session[s] = Absent /\ \A t \in Sessions \ {s} : session'[t] = session[t]
<1> DEFINE p == request[x].as
<1>1. /\ request[x].at = "admitted" /\ p.kind = "service_account" /\ p.key \in ServiceKeys
      /\ session[s] = Absent /\ rootOf' = [rootOf EXCEPT ![s] = Root(p.key)] /\ End(x)
      /\ UNCHANGED <<now, agent, serviceKey, agentKey, invite, inviteOf>>
  BY DEF CreateSession, Serving
<1>2. Speaks(p)
  BY <1>1 DEF IdentityInv, PrincipalsInv, Serving
<1>3. p.key \notin Sessions /\ Root(p.key) = p.key
  BY <1>1, IdentityAssumption DEF Root
<1>4. /\ p.key = p.source /\ Known(p.key) /\ p.role \in Roles
      /\ HumanCapabilities[p.role] \subseteq Rank(p.key)
  BY <1>2, <1>3 DEF Speaks
<1>5. PICK r \in SessionRow :
        session' = [session EXCEPT ![s] = r] /\ r.role = p.role /\ r.source = p.key
  <2>1. ASSUME NEW e \in 1..Never, CreateSession(x, s, e)
        PROVE  \E r \in SessionRow :
                 session' = [session EXCEPT ![s] = r] /\ r.role = p.role /\ r.source = p.key
    <3> DEFINE r == [status |-> "active", role |-> p.role, source |-> p.key, expires |-> e]
    <3>1. session' = [session EXCEPT ![s] = r]
      BY <2>1 DEF CreateSession
    <3>2. r \in SessionRow /\ r.role = p.role /\ r.source = p.key
      BY <1>1, <1>4, TimeFacts DEF SessionRow
    <3> QED
      BY <3>1, <3>2
  <2> QED
    BY <2>1
<1> HIDE DEF p
<1>6. inviteOf' = [inviteOf EXCEPT ![s] = NoRoot]
  <2>1. inviteOf[s] = NoRoot /\ inviteOf \in [Sessions -> Invites \cup {NoRoot}]
    BY <1>1 DEF IdentityInv, OriginsInv, LineageTyped
  <2> QED
    BY <1>1, <2>1
<1>7. rootOf' = [rootOf EXCEPT ![s] = p.key]
  BY <1>1, <1>3
<1>8. /\ Stays /\ OthersIdle(x) /\ session'[s] = r /\ rootOf'[s] = p.key
      /\ \A t \in Sessions \ {s} : session'[t] = session[t]
  <2>1. PutsSession(x, s, r, p.key, NoRoot)
    BY <1>1, <1>5, <1>6, <1>7 DEF PutsSession
  <2> QED
    BY <1>1, <2>1, SessionPut
<1>9. Descends(s)
  BY <1>4, <1>5, <1>8 DEF Descends
<1> QED
  BY <1>1, <1>8, <1>9

LEMMA SessionEnded ==
  ASSUME IdentityInv, Tables, NEW s \in Sessions, session[s].status = "active",
         session' = [session EXCEPT ![s].status = "revoked"],
         request' \in [Requests -> {Idle} \cup Admitted \cup Resolved \cup Accepting],
         UNCHANGED <<now, agent, serviceKey, agentKey, invite, rootOf, inviteOf>>
  PROVE  Stays /\ \A t \in Sessions : session'[t] # Absent => session[t] # Absent
<1> DEFINE r == [session[s] EXCEPT !.status = "revoked"]
<1>1. session[s] # Absent /\ session[s] \in SessionRow
  BY RowKept
<1>2. r \in SessionRow /\ r.role = session[s].role /\ r.source = session[s].source
  BY <1>1, StatusChanges
<1>3. session' = [session EXCEPT ![s] = r]
  BY DEF Tables
<1>4. r # Absent
  BY <1>2, RowFacts
<1> HIDE DEF r
<1>5. /\ session' \in [Sessions -> {Absent} \cup SessionRow] /\ session'[s] = r
      /\ \A t \in Sessions \ {s} : session'[t] = session[t]
  BY <1>2, <1>3 DEF Tables
<1>6. Tables' /\ LineageTyped'
  BY <1>5 DEF Tables, LineageTyped, IdentityInv
<1>7. Grows
  BY <1>2, <1>4, <1>5 DEF Grows
<1> QED
  BY <1>1, <1>5, <1>6, <1>7 DEF Stays

(* The parts of the invariant after a step that writes what it should. *)
LEMMA PrincipalsKept ==
  ASSUME IdentityInv, Grows, NEW x,
         \A y \in Requests \ {x} : request'[y] = request[y],
         \/ request'[x] = request[x]
         \/ request'[x].at = "admitted" /\ request'[x].as.kind = "service_account" =>
              Speaks(request'[x].as)
  PROVE  PrincipalsInv'
<1>1. ASSUME NEW y \in Requests, request'[y].at = "admitted", request'[y].as.kind = "service_account"
      PROVE  Speaks(request'[y].as)
  BY <1>1 DEF IdentityInv, PrincipalsInv, Serving
<1>2. ASSUME NEW y \in Requests, request'[y].at = "admitted", request'[y].as.kind = "service_account"
      PROVE  LET p == request'[y].as IN
             /\ (Known(request[y].as.source))' /\ p.role \in Roles
             /\ HumanCapabilities[p.role] \subseteq (Rank(request[y].as.source))'
             /\ \/ p.key = p.source
                \/ p.key \in Sessions /\ session'[p.key] # Absent /\ rootOf'[p.key] = p.source
  <2>1. Speaks(request'[y].as)
    BY <1>1, <1>2
  <2> QED
    BY <2>1 DEF Speaks, Grows, Known, Rank
<1> QED
  BY <1>2 DEF PrincipalsInv, Serving, Speaks

LEMMA DescentKept ==
  ASSUME IdentityInv, Grows,
         \A s \in Sessions : session[s] = Absent /\ session'[s] # Absent => Descends(s),
         \A i \in Invites : invite[i] = Absent /\ invite'[i] # Absent =>
           /\ Known(invite'[i].source) /\ rootOf'[i] = invite'[i].source
           /\ Capabilities \subseteq Rank(invite'[i].source)
  PROVE  DescentInv'
<1>1. ASSUME NEW s \in Sessions, session'[s] # Absent
      PROVE  Descends(s)
  BY <1>1 DEF IdentityInv, DescentInv, Grows, Descends
<1>2. ASSUME NEW s \in Sessions, session'[s] # Absent
      PROVE  /\ (Known(session[s].source))' /\ rootOf'[s] = session'[s].source
             /\ HumanCapabilities[session'[s].role] \subseteq (Rank(session[s].source))'
  <2>1. Descends(s)
    BY <1>1, <1>2
  <2> QED
    BY <2>1 DEF Descends, Grows, Known, Rank
<1>3. ASSUME NEW i \in Invites, invite'[i] # Absent
      PROVE  /\ Known(invite'[i].source) /\ rootOf'[i] = invite'[i].source
             /\ Capabilities \subseteq Rank(invite'[i].source)
  BY <1>3 DEF IdentityInv, DescentInv, Grows
<1>4. ASSUME NEW i \in Invites, invite'[i] # Absent
      PROVE  /\ (Known(invite[i].source))' /\ rootOf'[i] = invite'[i].source
             /\ Capabilities \subseteq (Rank(invite[i].source))'
  BY <1>3, <1>4 DEF Grows, Known, Rank
<1> QED
  BY <1>2, <1>4 DEF DescentInv

LEMMA OriginsKept ==
  ASSUME IdentityInv, Grows, UNCHANGED inviteOf, NEW x,
         \A i \in Invites : invite[i].status = "accepted" => invite'[i].status = "accepted",
         \A y \in Requests \ {x} : request'[y] = request[y],
         \/ request'[x] = request[x]
         \/ request'[x].at \in {"idle", "admitted"}
         \/ request'[x].at = "resolved" /\ session[request'[x].session] # Absent,
         Tables, Tables'
  PROVE  OriginsInv'
<1>1. OriginsInv /\ LineageTyped
  BY DEF IdentityInv
<1>2. \A s \in Sessions :
        /\ session'[s] = Absent => inviteOf'[s] = NoRoot
        /\ inviteOf'[s] # NoRoot =>
             /\ invite'[inviteOf'[s]].status = "accepted"
             /\ \A t \in Sessions : inviteOf'[t] = inviteOf'[s] => t = s
  BY <1>1 DEF OriginsInv, LineageTyped, Grows
<1>3. \A y \in Requests : request'[y].at = "resolved" => session'[request'[y].session] # Absent
  <2>1. ASSUME NEW y \in Requests, request'[y].at = "resolved"
        PROVE  session[request'[y].session] # Absent
    BY <1>1, <2>1 DEF OriginsInv, Serving
  <2>2. ASSUME NEW y \in Requests, request'[y].at = "resolved"
        PROVE  request'[y].session \in Sessions
    BY <2>2, RequestFacts DEF Tables
  <2> QED
    BY <2>1, <2>2 DEF Grows
<1>4. \A y \in Requests : request'[y].at = "accepting" =>
        request'[y] = request[y] /\ request[y].invite \in Invites
  BY RequestFacts DEF Tables
<1>5. \A y \in Requests : request'[y].at = "accepting" =>
        /\ invite'[request'[y].invite].status = "accepted"
        /\ \A s \in Sessions : inviteOf'[s] # request'[y].invite
        /\ \A z \in Requests :
             request'[z].at = "accepting" /\ request'[z].invite = request'[y].invite => y = z
  BY <1>1, <1>4 DEF OriginsInv, Serving
<1> QED
  BY <1>2, <1>3, <1>5 DEF OriginsInv, Serving

(* Every operation but the two halves of an acceptance.                      *)
NewInvitesDescend ==
  \A i \in Invites : invite[i] = Absent /\ invite'[i] # Absent =>
    /\ Known(invite'[i].source) /\ rootOf'[i] = invite'[i].source
    /\ Capabilities \subseteq Rank(invite'[i].source)

NewSessionsDescend ==
  \A s \in Sessions : session[s] = Absent /\ session'[s] # Absent => Descends(s)

AcceptedStay ==
  \A i \in Invites : invite[i].status = "accepted" => invite'[i].status = "accepted"

Asks(x) ==
  /\ \A y \in Requests \ {x} : request'[y] = request[y]
  /\ \/ request'[x] = request[x]
     \/ request'[x].at = "idle"
     \/ /\ request'[x].at = "admitted"
        /\ request'[x].as.kind = "agent" \/ Speaks(request'[x].as)
     \/ request'[x].at = "resolved" /\ session[request'[x].session] # Absent

LEMMA StepKept ==
  ASSUME IdentityInv, Tables, Stays, UNCHANGED inviteOf, NewInvitesDescend, NewSessionsDescend,
         AcceptedStay, NEW x, Asks(x)
  PROVE  IdentityInv'
<1>1. Grows /\ Tables' /\ LineageTyped'
  BY DEF Stays
<1>2. PrincipalsInv'
  <2>1. \A y \in Requests \ {x} : request'[y] = request[y]
    BY DEF Asks
  <2>2. \/ request'[x] = request[x]
        \/ request'[x].at = "admitted" /\ request'[x].as.kind = "service_account" =>
             Speaks(request'[x].as)
    BY DEF Asks
  <2> QED
    BY <1>1, <2>1, <2>2, PrincipalsKept
<1>3. DescentInv'
  BY <1>1, DescentKept DEF NewInvitesDescend, NewSessionsDescend
<1>4. OriginsInv'
  <2>1. \A y \in Requests \ {x} : request'[y] = request[y]
    BY DEF Asks
  <2>2. \/ request'[x] = request[x]
        \/ request'[x].at \in {"idle", "admitted"}
        \/ request'[x].at = "resolved" /\ session[request'[x].session] # Absent
    BY DEF Asks
  <2> QED
    BY <1>1, <2>1, <2>2, OriginsKept DEF AcceptedStay
<1> QED
  BY <1>1, <1>2, <1>3, <1>4, TablesTypedNext DEF IdentityInv

LEMMA NothingNew ==
  ASSUME UNCHANGED <<invite, session>>
  PROVE  NewInvitesDescend /\ NewSessionsDescend /\ AcceptedStay
BY DEF NewInvitesDescend, NewSessionsDescend, AcceptedStay

(* Authentication, and the requests that end. *)
LEMMA AuthenticationStep ==
  ASSUME IdentityInv, Tables, NEW x \in Requests,
         \/ \E c \in ServiceKeys : AuthenticateService(x, c)
         \/ \E c \in AgentKeys : AuthenticateAgent(x, c)
         \/ \E s \in Sessions : ResolveSession(x, s)
         \/ CheckSource(x)
         \/ Leave(x)
  PROVE  IdentityInv'
<1>1. UNCHANGED <<now, agent, serviceKey, agentKey, invite, session, rootOf, inviteOf>>
  BY DEF AuthenticateService, AuthenticateAgent, ResolveSession, CheckSource, Leave
<1>2. Stays /\ Asks(x)
  <2>1. CASE \E c \in ServiceKeys : AuthenticateService(x, c)
    BY <2>1, ServiceAuthenticated DEF Asks
  <2>2. CASE \E c \in AgentKeys : AuthenticateAgent(x, c)
    BY <2>2, AgentAuthenticated DEF Asks
  <2>3. CASE \E s \in Sessions : ResolveSession(x, s)
    BY <2>3, SessionResolved DEF Asks
  <2>4. CASE CheckSource(x)
    BY <2>4, SourceChecked, RequestFacts DEF Asks
  <2>5. CASE Leave(x)
    <3>1. End(x)
      BY <2>5 DEF Leave
    <3>2. Stays
      BY <1>1, <3>1, RequestEnds, OnlyRequests DEF IdentityInv
    <3> QED
      BY <3>1, <3>2, RequestEnds, RequestFacts DEF Asks
  <2> QED
    BY <2>1, <2>2, <2>3, <2>4, <2>5
<1> QED
  BY <1>1, <1>2, NothingNew, StepKept

LEMMA KeysStep ==
  ASSUME IdentityInv, Tables, NEW x \in Requests,
         \/ \E a \in Agents : RegisterAgent(x, a)
         \/ \E c \in AgentKeys :
              \/ RevokeAgentKey(x, c)
              \/ \E a \in Agents, g \in Grants, e \in 1..Never : IssueAgentKey(x, c, a, g, e)
         \/ \E c \in ServiceKeys :
              \/ RevokeServiceKey(x, c)
              \/ \E a \in Accounts, g \in Grants, e \in 1..Never : IssueServiceKey(x, c, a, g, e)
  PROVE  IdentityInv'
<1>1. Stays /\ OthersIdle(x) /\ UNCHANGED <<invite, session, inviteOf>>
  BY KeysWritten
<1>2. Asks(x)
  BY <1>1, RequestFacts DEF OthersIdle, Asks
<1> QED
  BY <1>1, <1>2, NothingNew, StepKept

LEMMA InvitesStep ==
  ASSUME IdentityInv, Tables, NEW x \in Requests, NEW i \in Invites,
         (\E role \in Roles : IssueInvite(x, i, role)) \/ RevokeInvite(x, i)
  PROVE  IdentityInv'
<1>1. /\ Stays /\ OthersIdle(x) /\ UNCHANGED <<session, inviteOf>>
      /\ NewInvitesDescend /\ AcceptedStay
  <2>1. CASE \E role \in Roles : IssueInvite(x, i, role)
    <3>1. /\ Stays /\ OthersIdle(x) /\ UNCHANGED <<session, inviteOf>>
          /\ invite[i] = Absent /\ \A j \in Invites \ {i} : invite'[j] = invite[j]
          /\ Known(invite'[i].source) /\ rootOf'[i] = invite'[i].source
          /\ Capabilities \subseteq Rank(invite'[i].source)
      BY <2>1, InviteIssued
    <3> QED
      BY <3>1, RowFacts DEF NewInvitesDescend, AcceptedStay
  <2>2. CASE RevokeInvite(x, i)
    BY <2>2, InviteRevoked DEF NewInvitesDescend, AcceptedStay
  <2> QED
    BY <2>1, <2>2
<1>2. Asks(x)
  BY <1>1, RequestFacts DEF OthersIdle, Asks
<1>3. NewSessionsDescend
  BY <1>1 DEF NewSessionsDescend
<1> QED
  BY <1>1, <1>2, <1>3, StepKept

LEMMA SessionsStep ==
  ASSUME IdentityInv, Tables, NEW s \in Sessions,
         \/ SignOut(s)
         \/ \E x \in Requests :
              (\E e \in 1..Never : CreateSession(x, s, e)) \/ RevokeSession(x, s)
  PROVE  IdentityInv'
<1>1. CASE SignOut(s)
  <2>1. /\ session[s].status = "active" /\ session' = [session EXCEPT ![s].status = "revoked"]
        /\ UNCHANGED <<now, agent, serviceKey, agentKey, invite, request, rootOf, inviteOf>>
    BY <1>1 DEF SignOut, SessionOpen
  <2>2. request' \in [Requests -> {Idle} \cup Admitted \cup Resolved \cup Accepting]
    BY <2>1 DEF Tables
  <2>3. Stays /\ \A t \in Sessions : session'[t] # Absent => session[t] # Absent
    BY <2>1, <2>2, SessionEnded
  <2>4. NewInvitesDescend /\ NewSessionsDescend /\ AcceptedStay
    BY <2>1, <2>3 DEF NewInvitesDescend, NewSessionsDescend, AcceptedStay
  <2>5. Asks(s)
    BY <2>1 DEF Asks
  <2> QED
    BY <2>1, <2>3, <2>4, <2>5, StepKept
<1>2. ASSUME NEW x \in Requests, RevokeSession(x, s)
      PROVE  IdentityInv'
  <2>1. /\ session[s].status = "active" /\ session' = [session EXCEPT ![s].status = "revoked"]
        /\ End(x) /\ UNCHANGED <<now, agent, serviceKey, agentKey, invite, rootOf, inviteOf>>
    BY <1>2 DEF RevokeSession
  <2>2. OthersIdle(x)
    BY <2>1, RequestEnds DEF OthersIdle
  <2>3. Stays /\ \A t \in Sessions : session'[t] # Absent => session[t] # Absent
    BY <2>1, <2>2, SessionEnded DEF OthersIdle
  <2>4. NewInvitesDescend /\ NewSessionsDescend /\ AcceptedStay
    BY <2>1, <2>3 DEF NewInvitesDescend, NewSessionsDescend, AcceptedStay
  <2>5. Asks(x)
    BY <2>2, RequestFacts DEF OthersIdle, Asks
  <2> QED
    BY <2>1, <2>3, <2>4, <2>5, StepKept
<1>3. ASSUME NEW x \in Requests, \E e \in 1..Never : CreateSession(x, s, e)
      PROVE  IdentityInv'
  <2>1. /\ Stays /\ OthersIdle(x) /\ Descends(s) /\ UNCHANGED <<invite, inviteOf>>
        /\ \A t \in Sessions \ {s} : session'[t] = session[t]
    BY <1>3, SessionCreated
  <2>2. NewInvitesDescend /\ NewSessionsDescend /\ AcceptedStay
    BY <2>1 DEF NewInvitesDescend, NewSessionsDescend, AcceptedStay
  <2>3. Asks(x)
    BY <2>1, RequestFacts DEF OthersIdle, Asks
  <2> QED
    BY <2>1, <2>2, <2>3, StepKept
<1> QED
  BY <1>1, <1>2, <1>3

LEMMA TickStep ==
  ASSUME IdentityInv, Tables, Tick \/ UNCHANGED identityVars
  PROVE  IdentityInv'
<1>1. UNCHANGED <<agent, serviceKey, agentKey, invite, session, request, rootOf, inviteOf>>
  BY DEF Tick, identityVars
<1>2. now' \in 0..MaxTime
  <2>1. now \in 0..MaxTime /\ MaxTime \in Nat
    BY TimeFacts DEF Tables
  <2>2. CASE Tick
    BY <2>1, <2>2 DEF Tick
  <2>3. CASE UNCHANGED identityVars
    BY <2>1, <2>3 DEF identityVars
  <2> QED
    BY <2>2, <2>3
<1>3. Tables'
  BY <1>1, <1>2 DEF Tables
<1>4. Stays
  BY <1>1, <1>3 DEF Stays, Grows, LineageTyped, IdentityInv
<1>5. Asks(now)
  BY <1>1 DEF Asks
<1> QED
  BY <1>1, <1>4, <1>5, NothingNew, StepKept

(* The two halves of an acceptance.                                           *)
LEMMA ConsumptionStep ==
  ASSUME IdentityInv, Tables, NEW x \in Requests, NEW i \in Invites, ConsumeWorkspaceInvite(x, i)
  PROVE  IdentityInv'
<1>1. /\ Stays /\ invite[i].status = "open" /\ invite'[i].status = "accepted"
      /\ \A j \in Invites \ {i} : invite'[j] = invite[j]
      /\ \A j \in Invites : invite'[j] # Absent => invite[j] # Absent
      /\ request'[x].at = "accepting" /\ request'[x].invite = i
      /\ \A y \in Requests \ {x} : request'[y] = request[y]
      /\ UNCHANGED <<session, inviteOf>>
  BY InviteConsumed
<1>2. Grows /\ Tables' /\ LineageTyped' /\ OriginsInv /\ LineageTyped
  BY <1>1 DEF Stays, IdentityInv
<1>3. PrincipalsInv'
  BY <1>1, <1>2, PrincipalsKept
<1>4. DescentInv'
  BY <1>1, <1>2, DescentKept
<1>5. \A j \in Invites : invite[j].status = "accepted" => j # i /\ invite'[j].status = "accepted"
  BY <1>1
<1>6. \A t \in Sessions : inviteOf[t] # i
  BY <1>2, <1>5, IdentityAssumption DEF OriginsInv
<1>7. OriginsInv'
  <2>1. \A s \in Sessions :
          /\ session'[s] = Absent => inviteOf'[s] = NoRoot
          /\ inviteOf'[s] # NoRoot =>
               /\ invite'[inviteOf'[s]].status = "accepted"
               /\ \A t \in Sessions : inviteOf'[t] = inviteOf'[s] => t = s
    BY <1>1, <1>2, <1>5 DEF OriginsInv, LineageTyped
  <2>2. \A y \in Requests : request'[y].at = "resolved" => session'[request'[y].session] # Absent
    BY <1>1, <1>2 DEF OriginsInv, Serving
  <2>3. ASSUME NEW y \in Requests \ {x}, request'[y].at = "accepting"
        PROVE  /\ request[y].at = "accepting" /\ request'[y].invite = request[y].invite
               /\ request[y].invite \in Invites /\ request[y].invite # i
    <3>1. request'[y] = request[y] /\ request[y].at = "accepting"
      BY <1>1, <2>3
    <3>2. request[y].invite \in Invites
      BY <3>1, RequestFacts DEF Tables
    <3> QED
      BY <1>2, <1>5, <3>1, <3>2 DEF OriginsInv, Serving
  <2>4. ASSUME NEW y \in Requests, request'[y].at = "accepting"
        PROVE  /\ invite'[request'[y].invite].status = "accepted"
               /\ \A s \in Sessions : inviteOf'[s] # request'[y].invite
               /\ \A z \in Requests :
                    request'[z].at = "accepting" /\ request'[z].invite = request'[y].invite => y = z
    <3>1. CASE y = x
      BY <1>1, <1>6, <2>3, <3>1
    <3>2. CASE y # x
      BY <1>1, <1>2, <1>5, <2>3, <2>4, <3>2 DEF OriginsInv, Serving
    <3> QED
      BY <3>1, <3>2
  <2> QED
    BY <2>1, <2>2, <2>4 DEF OriginsInv, Serving
<1> QED
  BY <1>2, <1>3, <1>4, <1>7, TablesTypedNext DEF IdentityInv

LEMMA AcceptanceStep ==
  ASSUME IdentityInv, Tables, NEW x \in Requests, NEW s \in Sessions, PutInvitedSession(x, s)
  PROVE  IdentityInv'
<1>1. /\ Stays /\ OthersIdle(x) /\ Descends(s) /\ UNCHANGED <<invite, serviceKey>>
      /\ session[s] = Absent /\ session'[s] # Absent
      /\ request[x].at = "accepting" /\ inviteOf'[s] = request[x].invite
      /\ \A t \in Sessions \ {s} : session'[t] = session[t] /\ inviteOf'[t] = inviteOf[t]
  BY InvitedSession
<1>2. Grows /\ Tables' /\ LineageTyped' /\ OriginsInv /\ LineageTyped
  BY <1>1 DEF Stays, IdentityInv
<1>3. request'[x].at = "idle" /\ \A y \in Requests \ {x} : request'[y] = request[y]
  BY <1>1, RequestFacts DEF OthersIdle
<1>4. PrincipalsInv'
  BY <1>2, <1>3, PrincipalsKept
<1>5. DescentInv'
  BY <1>1, <1>2, DescentKept
<1>6. /\ invite[inviteOf'[s]].status = "accepted"
      /\ \A t \in Sessions : inviteOf[t] # inviteOf'[s]
      /\ \A y \in Requests :
           request[y].at = "accepting" /\ request[y].invite = inviteOf'[s] => x = y
  BY <1>1, <1>2 DEF OriginsInv, Serving
<1>7. OriginsInv'
  <2>1. ASSUME NEW r \in Sessions
        PROVE  /\ session'[r] = Absent => inviteOf'[r] = NoRoot
               /\ inviteOf'[r] # NoRoot =>
                    /\ invite'[inviteOf'[r]].status = "accepted"
                    /\ \A t \in Sessions : inviteOf'[t] = inviteOf'[r] => t = r
    <3>1. CASE r = s
      BY <1>1, <1>6, <3>1
    <3>2. CASE r # s
      BY <1>1, <1>2, <1>6, <3>2 DEF OriginsInv
    <3> QED
      BY <3>1, <3>2
  <2>2. ASSUME NEW y \in Requests, request'[y].at = "resolved"
        PROVE  session'[request'[y].session] # Absent
    <3>1. y # x /\ request'[y] = request[y]
      BY <1>3, <2>2
    <3>2. request[y].session \in Sessions /\ session[request[y].session] # Absent
      BY <1>2, <2>2, <3>1, RequestFacts DEF OriginsInv, Serving, Tables
    <3> QED
      BY <1>2, <3>1, <3>2 DEF Grows
  <2>3. ASSUME NEW y \in Requests, request'[y].at = "accepting"
        PROVE  y # x /\ request'[y] = request[y] /\ request[y].at = "accepting"
    BY <1>3, <2>3
  <2>4. ASSUME NEW y \in Requests, request'[y].at = "accepting"
        PROVE  /\ invite'[request'[y].invite].status = "accepted"
               /\ \A r \in Sessions : inviteOf'[r] # request'[y].invite
               /\ \A z \in Requests :
                    request'[z].at = "accepting" /\ request'[z].invite = request'[y].invite => y = z
    <3>1. /\ invite[request[y].invite].status = "accepted"
          /\ \A r \in Sessions : inviteOf[r] # request[y].invite
          /\ \A z \in Requests :
               request[z].at = "accepting" /\ request[z].invite = request[y].invite => y = z
      BY <1>2, <2>3, <2>4 DEF OriginsInv, Serving
    <3>2. inviteOf'[s] # request[y].invite
      BY <1>6, <2>3, <2>4
    <3> QED
      BY <1>1, <2>3, <2>4, <3>1, <3>2
  <2> QED
    BY <2>1, <2>2, <2>4 DEF OriginsInv, Serving
<1> QED
  BY <1>2, <1>4, <1>5, <1>7, TablesTypedNext DEF IdentityInv

LEMMA IdentityStep == IdentityInv /\ [IdentityNext]_identityVars => IdentityInv'
<1> SUFFICES ASSUME IdentityInv, [IdentityNext]_identityVars PROVE IdentityInv'
  OBVIOUS
<1>1. Tables
  BY TablesTyped DEF IdentityInv
<1>2. ASSUME NEW x \in Requests, NEW c \in ServiceKeys,
             \/ AuthenticateService(x, c)
             \/ RevokeServiceKey(x, c)
             \/ \E a \in Accounts, g \in Grants, e \in 1..Never : IssueServiceKey(x, c, a, g, e)
      PROVE  IdentityInv'
  BY <1>1, <1>2, AuthenticationStep, KeysStep
<1>3. ASSUME NEW x \in Requests, NEW c \in AgentKeys,
             \/ AuthenticateAgent(x, c)
             \/ RevokeAgentKey(x, c)
             \/ \E a \in Agents, g \in Grants, e \in 1..Never : IssueAgentKey(x, c, a, g, e)
      PROVE  IdentityInv'
  BY <1>1, <1>3, AuthenticationStep, KeysStep
<1>4. ASSUME NEW x \in Requests, NEW i \in Invites,
             \/ \E role \in Roles : IssueInvite(x, i, role)
             \/ RevokeInvite(x, i)
             \/ ConsumeWorkspaceInvite(x, i)
      PROVE  IdentityInv'
  BY <1>1, <1>4, InvitesStep, ConsumptionStep
<1>5. ASSUME NEW x \in Requests, NEW s \in Sessions,
             \/ ResolveSession(x, s)
             \/ PutInvitedSession(x, s)
             \/ \E e \in 1..Never : CreateSession(x, s, e)
             \/ RevokeSession(x, s)
      PROVE  IdentityInv'
  BY <1>1, <1>5, AuthenticationStep, AcceptanceStep, SessionsStep
<1>6. ASSUME NEW x \in Requests,
             (\E a \in Agents : RegisterAgent(x, a)) \/ CheckSource(x) \/ Leave(x)
      PROVE  IdentityInv'
  BY <1>1, <1>6, AuthenticationStep, KeysStep
<1>7. CASE \E s \in Sessions : SignOut(s)
  BY <1>1, <1>7, SessionsStep
<1>8. CASE Tick \/ UNCHANGED identityVars
  BY <1>1, <1>8, TickStep
<1> QED
  BY <1>2, <1>3, <1>4, <1>5, <1>6, <1>7, <1>8 DEF IdentityNext

LEMMA AlwaysIdentity == IdentitySpec => []IdentityInv
<1>1. IdentityInit => IdentityInv
  BY IdentityInitial
<1>2. IdentityInv /\ [IdentityNext]_identityVars => IdentityInv'
  BY IdentityStep
<1> QED
  BY <1>1, <1>2, PTL DEF IdentitySpec

(* A session has one origin, however many invites, sessions and requests race: *)
(* the invite it came from opened no other and was not revoked, and its role is *)
(* within that of the account at the root of the chain behind it               *)
(* (consumeWorkspaceInvite, the routes of invites and of human sessions).      *)
THEOREM AlwaysOneOrigin == IdentitySpec => []SessionsHaveOneOrigin
<1>1. IdentityInv => SessionsHaveOneOrigin
  BY OriginEnough
<1> QED
  BY <1>1, AlwaysIdentity, PTL

LEMMA EndsWithRoot ==
  ASSUME IdentityInv, [IdentityNext]_identityVars, NEW x \in Requests,
         Serving(x, "resolved"), request'[x].at = "admitted"
  PROVE  ServiceKeyActive(rootOf[request[x].session])
<1>1. Tables
  BY TablesTyped DEF IdentityInv
<1>2. request[x].at = "resolved"
  BY DEF Serving
<1>3. request' # request
  BY <1>2
<1>4. CheckSource(x)
  <2>2. ASSUME NEW y \in Requests, NEW r, request' = [request EXCEPT ![y] = r], y # x
        PROVE  FALSE
    BY <1>1, <1>2, <2>2 DEF Tables
  <2>3. ASSUME NEW y \in Requests, End(y)
        PROVE  FALSE
    BY <1>1, <1>2, <2>3, RequestEnds, RequestFacts
  <2>4. ASSUME NEW y \in Requests, \E c \in ServiceKeys : AuthenticateService(y, c)
        PROVE  FALSE
    BY <1>2, <2>2, <2>4 DEF AuthenticateService, Admit, Serving
  <2>5. ASSUME NEW y \in Requests, \E c \in AgentKeys : AuthenticateAgent(y, c)
        PROVE  FALSE
    BY <1>2, <2>2, <2>5 DEF AuthenticateAgent, Admit, Serving
  <2>6. ASSUME NEW y \in Requests, \E s \in Sessions : ResolveSession(y, s)
        PROVE  FALSE
    BY <1>2, <2>2, <2>6 DEF ResolveSession, Serving
  <2>7. ASSUME NEW y \in Requests, \E i \in Invites : ConsumeWorkspaceInvite(y, i)
        PROVE  FALSE
    BY <1>2, <2>2, <2>7 DEF ConsumeWorkspaceInvite, Serving
  <2>8. ASSUME NEW y \in Requests, CheckSource(y), y # x
        PROVE  FALSE
    BY <2>2, <2>3, <2>8 DEF CheckSource, Admit
  <2>9. ASSUME NEW y \in Requests, \E c \in ServiceKeys :
                 \/ RevokeServiceKey(y, c)
                 \/ \E a \in Accounts, g \in Grants, e \in 1..Never : IssueServiceKey(y, c, a, g, e)
        PROVE  FALSE
    BY <2>3, <2>9 DEF RevokeServiceKey, IssueServiceKey
  <2>10. ASSUME NEW y \in Requests, \E c \in AgentKeys :
                  \/ RevokeAgentKey(y, c)
                  \/ \E a \in Agents, g \in Grants, e \in 1..Never : IssueAgentKey(y, c, a, g, e)
         PROVE  FALSE
    BY <2>3, <2>10 DEF RevokeAgentKey, IssueAgentKey
  <2>11. ASSUME NEW y \in Requests, NEW i \in Invites,
                (\E role \in Roles : IssueInvite(y, i, role)) \/ RevokeInvite(y, i)
         PROVE  FALSE
    BY <2>3, <2>11 DEF IssueInvite, RevokeInvite
  <2>12. ASSUME NEW y \in Requests, NEW s \in Sessions,
                \/ PutInvitedSession(y, s)
                \/ \E e \in 1..Never : CreateSession(y, s, e)
                \/ RevokeSession(y, s)
         PROVE  FALSE
    BY <2>3, <2>12 DEF PutInvitedSession, CreateSession, RevokeSession
  <2>13. ASSUME NEW y \in Requests, (\E a \in Agents : RegisterAgent(y, a)) \/ Leave(y)
         PROVE  FALSE
    BY <2>3, <2>13 DEF RegisterAgent, Leave
  <2>14. ~ (\E s \in Sessions : SignOut(s)) /\ ~ Tick /\ ~ UNCHANGED identityVars
    BY <1>3 DEF SignOut, Tick, identityVars
  <2> QED
    BY <2>4, <2>5, <2>6, <2>7, <2>8, <2>9, <2>10, <2>11, <2>12, <2>13, <2>14 DEF IdentityNext
<1>5. SourceActive(session[request[x].session].source)
  <2>1. ~ End(x)
    BY <1>1, RequestEnds, RequestFacts
  <2> QED
    BY <1>4, <2>1 DEF CheckSource
<1>6. request[x].session \in Sessions /\ session[request[x].session] # Absent
  BY <1>1, <1>2, RequestFacts DEF Tables, IdentityInv, OriginsInv, Serving
<1>7. rootOf[request[x].session] = session[request[x].session].source
  BY <1>6 DEF IdentityInv, DescentInv
<1> QED
  BY <1>5, <1>7 DEF SourceActive

(* A session authenticates nothing once the credential at its root is revoked *)
(* or expired, however long the chain of invites and sessions between them:   *)
(* what is looked up is the credential it started from (humanSessions.ts).    *)
THEOREM AlwaysEndWithTheirRoot == IdentitySpec => SessionsEndWithTheirRoot
<1> DEFINE Ends == \A x \in Requests :
             Serving(x, "resolved") /\ request'[x].at = "admitted" =>
               ServiceKeyActive(rootOf[request[x].session])
<1>1. IdentityInv /\ [IdentityNext]_identityVars => [Ends]_identityVars
  BY EndsWithRoot
<1>2. IdentitySpec => [][Ends]_identityVars
  BY <1>1, AlwaysIdentity, PTL DEF IdentitySpec
<1> QED
  BY <1>2 DEF SessionsEndWithTheirRoot
=============================================================================
