--------------------------- MODULE SchedulerClaims ---------------------------
(* One sealed call of a reliability run and the worker processes that may run  *)
(* it: the claim in the database with its owner, generation and lease, and the *)
(* manifest on disk, which is replaced under a lock file and whose digest the  *)
(* claim records (protocolStore, the worker command and publishManifestDurably)*)
(* A worker is one process: the runner starts another after it, under its own  *)
(* owner id or, restarted, under a new one.                                    *)
EXTENDS Naturals

CONSTANTS
  Worker,         \* processes, each started at most once
  OwnerOf,        \* the --owner-id of a process
  Nobody,         \* no owner, and no process
  MaxGeneration   \* bound: takeovers of the claim

ASSUME ClaimsAssumption == MaxGeneration \in Nat

VARIABLES
  protocol,   \* state of the control row
  attempt,    \* the call: "planned", "token", "entered", "terminal"
  asked,      \* a worker has sent the request
  claim,      \* its row in reliability_scheduler_claims
  file,       \* the manifest at the path of the call
  writeLock,  \* the process that created the lock file
  worker      \* what each process is doing
claimVars == <<protocol, attempt, asked, claim, file, writeLock, worker>>

Rank == [absent |-> 0, claimed |-> 1, admission_started |-> 2, awaiting_outcome |-> 3, terminal |-> 4]

Manifest(state, sequence, owner, generation) ==
  [state |-> state, sequence |-> sequence, owner |-> owner, generation |-> generation]

\* What the worker publishes after m.
Following(m, state, sequence) == Manifest(state, sequence, m.owner, m.generation)

NoManifest == Manifest("absent", 0, Nobody, 0)

NoClaim == [state |-> "absent", owner |-> Nobody, generation |-> 0, live |-> FALSE, digest |-> NoManifest]

ClaimsInit ==
  /\ protocol = "active" /\ attempt = "planned" /\ asked = FALSE
  /\ claim = NoClaim /\ file = NoManifest /\ writeLock = Nobody
  /\ worker = [w \in Worker |-> [at |-> "idle", manifest |-> NoManifest]]

Doing(w, place) == worker[w].at = place
GoOn(w, place) == worker' = [worker EXCEPT ![w].at = place]
Publishing(w, manifest) == worker' = [worker EXCEPT ![w] = [at |-> "publishing", manifest |-> manifest]]

-----------------------------------------------------------------------------
(* Claiming.  Only a call nobody dispatched may be claimed; its owner claims   *)
(* it again under the same generation while the lease lasts, anybody under the *)
(* next one after it.                                                          *)
DispatchOriginal == attempt = "planned"

Mine(w) == claim.live /\ claim.owner = OwnerOf[w]

Acquirable(w) ==
  /\ DispatchOriginal /\ protocol = "active" /\ claim.state # "terminal"
  /\ ~claim.live \/ Mine(w)

NextGeneration(w) == IF Mine(w) THEN claim.generation ELSE claim.generation + 1

AcquireSchedulerClaim(w) ==
  /\ Doing(w, "idle") /\ Acquirable(w) /\ NextGeneration(w) <= MaxGeneration
  /\ claim' = [claim EXCEPT !.state = "claimed", !.owner = OwnerOf[w],
                 !.generation = NextGeneration(w), !.live = TRUE]
  /\ Publishing(w, Manifest("claimed", 1, OwnerOf[w], NextGeneration(w)))
  /\ UNCHANGED <<protocol, attempt, asked, file, writeLock>>

\* The claim is not for this process: it recovers, or ends where there is nothing
\* to recover or the run has failed.
NotAcquired(w) ==
  /\ Doing(w, "idle") /\ ~Acquirable(w)
  /\ IF DispatchOriginal
     THEN GoOn(w, "ended")
     ELSE worker' = [worker EXCEPT ![w] =
            [at |-> "recovering", manifest |-> Manifest("terminal", 0, OwnerOf[w], claim.generation)]]
  /\ UNCHANGED <<protocol, attempt, asked, claim, file, writeLock>>

-----------------------------------------------------------------------------
(* publishManifestDurably.  The lock file is exclusive, and removed only by a  *)
(* publication that succeeds: any other leaves it, and the path stays busy.    *)
OpenLock(w) ==
  /\ Doing(w, "publishing")
  /\ IF writeLock = Nobody
     THEN writeLock' = w /\ GoOn(w, "writing")
     ELSE GoOn(w, "ended") /\ UNCHANGED writeLock
  /\ UNCHANGED <<protocol, attempt, asked, claim, file>>

\* Faulty: replaces whatever is there.
ReplaceableAnyway(m) == TRUE

Replaceable(m) ==
  \/ file \in {NoManifest, m}
  \/ file.state # "terminal" /\ m.sequence = file.sequence + 1 /\ Rank[m.state] > Rank[file.state]

Replace(w) ==
  /\ Doing(w, "writing")
  /\ IF Replaceable(worker[w].manifest)
     THEN file' = worker[w].manifest /\ GoOn(w, "unlocking")
     ELSE GoOn(w, "ended") /\ UNCHANGED file
  /\ UNCHANGED <<protocol, attempt, asked, claim, writeLock>>

RemoveLock(w) ==
  /\ Doing(w, "unlocking")
  /\ writeLock' = Nobody /\ GoOn(w, "recording")
  /\ UNCHANGED <<protocol, attempt, asked, claim, file>>

-----------------------------------------------------------------------------
(* Recording.  A step of the worker is recorded for its generation, whatever   *)
(* became of the lease; it never goes back.                                    *)
Recordable(w, m) ==
  /\ protocol = "active" /\ claim.owner = OwnerOf[w] /\ claim.generation = m.generation
  /\ claim.state # "terminal" /\ Rank[claim.state] <= Rank[m.state]

Proceed(w, m) ==
  \/ m.state = "claimed" /\ Publishing(w, Following(m, "admission_started", 2))
  \/ m.state = "admission_started" /\ GoOn(w, "calling")
  \/ m.state = "awaiting_outcome" /\ GoOn(w, "answered")

RecordSchedulerManifestFsynced(w) ==
  /\ Doing(w, "recording") /\ worker[w].manifest.state # "terminal"
  /\ LET m == worker[w].manifest
     IN IF Recordable(w, m)
        THEN claim' = [claim EXCEPT !.state = m.state, !.digest = m] /\ Proceed(w, m)
        ELSE GoOn(w, "ended") /\ UNCHANGED claim
  /\ UNCHANGED <<protocol, attempt, asked, file, writeLock>>

\* The request, until it is answered; every failure ends the process.
ControlledInference(w) ==
  /\ Doing(w, "calling")
  /\ asked' = TRUE /\ GoOn(w, "waiting")
  /\ UNCHANGED <<protocol, attempt, claim, file, writeLock>>

Answered(w) ==
  /\ Doing(w, "waiting") /\ attempt = "terminal"
  /\ Publishing(w, Following(worker[w].manifest, "awaiting_outcome", 3))
  /\ UNCHANGED <<protocol, attempt, asked, claim, file, writeLock>>

TerminalizeSchedulerClaim(w) ==
  /\ Doing(w, "answered") /\ attempt = "terminal"
  /\ claim.owner = OwnerOf[w] /\ claim.generation = worker[w].manifest.generation
  /\ claim' = [claim EXCEPT !.state = "terminal", !.live = FALSE]
  /\ Publishing(w, Following(worker[w].manifest, "terminal", 4))
  /\ UNCHANGED <<protocol, attempt, asked, file, writeLock>>

RecordRecoveredTerminalSchedulerManifest(w) ==
  /\ Doing(w, "recording") /\ worker[w].manifest.state = "terminal"
  /\ LET m == worker[w].manifest
     IN claim' = IF claim.state = "terminal" /\ claim.generation = m.generation
                 THEN [claim EXCEPT !.digest = m] ELSE claim
  /\ GoOn(w, "ended")
  /\ UNCHANGED <<protocol, attempt, asked, file, writeLock>>

-----------------------------------------------------------------------------
(* recoverSchedulerWorker.  A token that was never used is given back; a call  *)
(* that entered the provider is left to the lookups; the manifest of one that  *)
(* ended is brought up to date.                                                *)
RecoverPreEntryDispatch(w) ==
  /\ Doing(w, "recovering") /\ attempt = "token"
  /\ attempt' = "terminal"
  /\ UNCHANGED <<protocol, asked, claim, file, writeLock, worker>>

RepairManifest(w) ==
  /\ Doing(w, "recovering") /\ attempt = "terminal"
  /\ IF file.state = "terminal"
     THEN GoOn(w, "ended")
     ELSE Publishing(w, [worker[w].manifest EXCEPT
            !.sequence = IF file = NoManifest THEN 4 ELSE file.sequence + 1])
  /\ UNCHANGED <<protocol, attempt, asked, claim, file, writeLock>>

LeaveToLookups(w) ==
  /\ Doing(w, "recovering") /\ attempt = "entered"
  /\ GoOn(w, "ended")
  /\ UNCHANGED <<protocol, attempt, asked, claim, file, writeLock>>

-----------------------------------------------------------------------------
(* What goes on around the workers.                                            *)
Serve ==
  /\ asked
  /\ \/ attempt = "planned" /\ protocol = "active" /\ attempt' \in {"token", "terminal"}
     \/ attempt = "token" /\ attempt' \in {"entered", "terminal"}
     \/ attempt = "entered" /\ attempt' = "terminal"
  /\ UNCHANGED <<protocol, asked, claim, file, writeLock, worker>>

FailRun ==
  /\ protocol = "active"
  /\ protocol' = "failed"
  /\ attempt' \in {attempt, IF attempt = "planned" THEN "terminal" ELSE attempt}
  /\ UNCHANGED <<asked, claim, file, writeLock, worker>>

LeaseEnds ==
  /\ claim.live
  /\ claim' = [claim EXCEPT !.live = FALSE]
  /\ UNCHANGED <<protocol, attempt, asked, file, writeLock, worker>>

\* A process dies, or its request fails or could not be renewed.
WorkerDies(w) ==
  /\ ~Doing(w, "idle") /\ ~Doing(w, "ended")
  /\ GoOn(w, "ended")
  /\ UNCHANGED <<protocol, attempt, asked, claim, file, writeLock>>

ClaimsNext ==
  \/ \E w \in Worker :
       \/ AcquireSchedulerClaim(w) \/ NotAcquired(w)
       \/ OpenLock(w) \/ Replace(w) \/ RemoveLock(w)
       \/ RecordSchedulerManifestFsynced(w) \/ RecordRecoveredTerminalSchedulerManifest(w)
       \/ ControlledInference(w) \/ Answered(w) \/ TerminalizeSchedulerClaim(w)
       \/ RecoverPreEntryDispatch(w) \/ RepairManifest(w) \/ LeaveToLookups(w)
       \/ WorkerDies(w)
  \/ Serve \/ FailRun \/ LeaseEnds

ClaimsSpec == ClaimsInit /\ [][ClaimsNext]_claimVars

-----------------------------------------------------------------------------
Manifests == [state : DOMAIN Rank, sequence : 0..4, owner : {OwnerOf[w] : w \in Worker} \cup {Nobody},
              generation : 0..MaxGeneration]

ClaimsTypeOK ==
  /\ claim.digest \in Manifests /\ claim.state \in DOMAIN Rank /\ claim.generation \in 0..MaxGeneration
  /\ file \in Manifests /\ writeLock \in Worker \cup {Nobody}
  /\ \A w \in Worker : worker[w].manifest \in Manifests

(* The database and the disk are written one after the other by processes that *)
(* overlap, die and take over.  What the claim records was on disk before, of  *)
(* the claim's own past and never ahead of the file; a generation on disk was  *)
(* acquired; and once the claim is terminal, the call has ended and the        *)
(* terminal manifest it records is the one that evidence will find.            *)
ManifestsBackClaims ==
  /\ ClaimsTypeOK
  /\ Rank[claim.digest.state] <= Rank[file.state]
  /\ claim.digest.generation <= claim.generation /\ file.generation <= claim.generation
  /\ claim.state = "terminal" => attempt = "terminal"
  /\ claim.digest.state = "terminal" => claim.state = "terminal" /\ claim.digest = file
=============================================================================
