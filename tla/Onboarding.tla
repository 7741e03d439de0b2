----------------------------- MODULE Onboarding -----------------------------
(***************************************************************************)
(* The creation of a customer's workspace: the request that creates one     *)
(* (src/src/http/app.ts), the service that provisions it step by step       *)
(* (src/src/product/customerOnboarding.ts) and the durable operation that   *)
(* makes it idempotent (src/src/product/workspaceOnboardingStore.ts).       *)
(*                                                                         *)
(* Every step is a transaction of its own followed by a heartbeat.  A       *)
(* process may die or stall anywhere; an operation without a heartbeat for  *)
(* fifteen minutes is stale, and the next request of its key takes it over  *)
(* with a new workspace id.  A failed transaction and a commit whose        *)
(* acknowledgement is lost look the same to the process.                    *)
(***************************************************************************)
EXTENDS Naturals, FiniteSets, SequencesExt

CONSTANTS
  Keys,           \* idempotency keys
  Bodies,         \* fingerprints of the bodies a client sends with a key
  BetaInvites,        \* configured invite tokens
  Workspaces,     \* ids, each drawn once
  Workers,        \* requests being served
  Steps,          \* the provisioning steps, the first of which creates the organization
  MaxActive,      \* FUSE_BETA_MAX_ACTIVE_WORKSPACES
  NoKey, NoBody, NoWorkspace

(* Keys are rows of a table; the runtime refuses a limit that is no positive number. *)
ASSUME OnboardingAssumption ==
  /\ IsFiniteSet(Keys) /\ MaxActive \in Nat \ {0}
  /\ NoKey \notin Keys /\ NoBody \notin Bodies /\ NoWorkspace \notin Workspaces
  /\ Len(Steps) \in Nat \ {0}
  /\ Steps \in Seq(Range(Steps))
  /\ \A i, j \in 1..Len(Steps) : Steps[i] = Steps[j] => i = j

VARIABLES
  operation,    \* fuse_workspace_onboarding_operations
  reservation,  \* fuse_beta_capacity_reservations: none, fresh, or older than fifteen minutes
  redemption,   \* fuse_beta_invite_redemptions: the key an invite was consumed for
  rows,         \* the steps whose rows exist in each workspace
  worker,       \* the requests being served
  drawn,        \* history: workspace ids given out
  answered,     \* history: the workspaces a client was told about, per key
  unreserved    \* history: keys that went on without a reservation that counts

onboardingVars ==
  <<operation, reservation, redemption, rows, worker, drawn, answered, unreserved>>

Statuses == {"absent", "in_progress", "completed", "failed", "rolled_back"}

AllSteps == Range(Steps)
Bootstrap == {Steps[1]}

NoOperation == [status |-> "absent", body |-> NoBody, workspace |-> NoWorkspace, stale |-> FALSE]

Resting == [at |-> "idle", key |-> NoKey, body |-> NoBody, workspace |-> NoWorkspace, step |-> 0]

OnboardingInit ==
  /\ operation = [k \in Keys |-> NoOperation]
  /\ reservation = [k \in Keys |-> "none"]
  /\ redemption = [i \in BetaInvites |-> NoKey]
  /\ rows = [s \in Workspaces |-> {}]
  /\ worker = [w \in Workers |-> Resting]
  /\ drawn = {}
  /\ answered = [k \in Keys |-> {}]
  /\ unreserved = {}

IsAt(w, place) == worker[w].at = place
GoTo(w, place) == worker' = [worker EXCEPT ![w].at = place]
Finish(w) == worker' = [worker EXCEPT ![w] = Resting]

(* The operation a worker believes to hold. *)
Held(w) ==
  /\ operation[worker[w].key].status = "in_progress"
  /\ operation[worker[w].key].workspace = worker[w].workspace

-----------------------------------------------------------------------------
(* The request: its invite, a place within the capacity, the claim. *)

(* An invite belongs to the first key that brings it, a key to one invite. *)
Redeemed(i, k) ==
  /\ redemption[i] = NoKey
  /\ \A j \in BetaInvites : redemption[j] # k

ConsumeInvite(w, k, b, i) ==
  /\ IsAt(w, "idle")
  /\ \/ Redeemed(i, k) /\ redemption' = [redemption EXCEPT ![i] = k]
     \/ redemption[i] = k /\ UNCHANGED redemption
  /\ worker' = [worker EXCEPT ![w] = [Resting EXCEPT !.at = "invited", !.key = k, !.body = b]]
  /\ UNCHANGED <<operation, reservation, rows, drawn, answered, unreserved>>

(* Reservations that expired before their key claimed an operation. *)
Expired == {k \in Keys : reservation[k] = "old" /\ operation[k].status = "absent"}

(* The workspaces that count: completed ones and reservations under way. *)
Counted ==
  {k \in Keys : operation[k].status = "completed"} \cup
  {k \in Keys \ Expired :
     reservation[k] # "none" /\ operation[k].status \in {"absent", "in_progress"}}

(* Faulty: counts what is completed alone. *)
RoomBesideCompleted ==
  Cardinality({k \in Keys : operation[k].status = "completed"}) < MaxActive

Room == Cardinality(Counted) < MaxActive

Reserve(w) ==
  LET k == worker[w].key
      swept == [j \in Keys |-> IF j \in Expired THEN "none" ELSE reservation[j]]
  IN  /\ IsAt(w, "invited")
      /\ \/ /\ swept[k] # "none"
            /\ reservation' = swept
            /\ GoTo(w, "reserved")
         \/ /\ swept[k] = "none"
            /\ Room
            /\ reservation' = [swept EXCEPT ![k] = "fresh"]
            /\ GoTo(w, "reserved")
         \/ /\ swept[k] = "none"
            /\ ~Room
            /\ reservation' = swept
            /\ Finish(w)
      /\ UNCHANGED <<operation, redemption, rows, drawn, answered, unreserved>>

(* What a claim writes for a new attempt. *)
Claimed(w, s, stale) ==
  [status |-> "in_progress", body |-> worker[w].body, workspace |-> s, stale |-> stale]

(* A retry after a rollback keeps the age of the first attempt. *)
Reclaim(w, s) ==
  /\ operation[worker[w].key].status = "rolled_back"
  /\ operation' = [operation EXCEPT ![worker[w].key] = Claimed(w, s, @.stale)]
  /\ UNCHANGED rows

(* Everything of the stale workspace goes before the new attempt starts. *)
TakeOver(w, s) ==
  LET k == worker[w].key IN
  /\ operation[k].status = "in_progress"
  /\ operation[k].stale
  /\ rows' = [rows EXCEPT ![operation[k].workspace] = {}]
  /\ operation' = [operation EXCEPT ![k] = Claimed(w, s, FALSE)]

ClaimNew(w, s) ==
  /\ operation[worker[w].key].status = "absent"
  /\ operation' = [operation EXCEPT ![worker[w].key] = Claimed(w, s, FALSE)]
  /\ UNCHANGED rows

(* A key that claims while it is not counted. *)
Unreserved(k) == IF k \in Counted THEN {} ELSE {k}

Claim(w, s) ==
  LET k == worker[w].key IN
  /\ IsAt(w, "reserved")
  /\ s \notin drawn
  /\ drawn' = drawn \cup {s}
  /\ operation[k].body \in {worker[w].body, NoBody}
  /\ ClaimNew(w, s) \/ Reclaim(w, s) \/ TakeOver(w, s)
  /\ worker' = [worker EXCEPT ![w].at = "step", ![w].workspace = s, ![w].step = 1]
  /\ unreserved' = unreserved \cup Unreserved(k)
  /\ UNCHANGED <<reservation, redemption, answered>>

(* Conflict, in progress and replay: the answers of a claim that starts nothing. *)
ClaimAnswered(w) ==
  LET k == worker[w].key
      replayed == operation[k].status = "completed" /\ operation[k].body = worker[w].body
  IN  /\ IsAt(w, "reserved")
      /\ operation[k].status # "absent"
      /\ \/ operation[k].body # worker[w].body
         \/ operation[k].status \in {"completed", "failed"}
         \/ operation[k].status = "in_progress" /\ ~operation[k].stale
      /\ answered' = [answered EXCEPT ![k] = @ \cup (IF replayed THEN {operation[k].workspace} ELSE {})]
      /\ Finish(w)
      /\ UNCHANGED <<operation, reservation, redemption, rows, drawn, unreserved>>

-----------------------------------------------------------------------------
(* The steps.  All but the first refer to the organization. *)
Writable(s, step) ==
  IF step = 1 THEN TRUE ELSE Bootstrap \subseteq rows[s]

Provision(w) ==
  LET s == worker[w].workspace
      n == worker[w].step
  IN  /\ IsAt(w, "step")
      /\ Writable(s, n)
      /\ rows' = [rows EXCEPT ![s] = @ \cup {Steps[n]}]
      /\ GoTo(w, "beat") \/ GoTo(w, "rollback")
      /\ UNCHANGED <<operation, reservation, redemption, drawn, answered, unreserved>>

(* The provider refuses the key, the database fails, or the organization is gone. *)
ProvisionFails(w) ==
  /\ IsAt(w, "step")
  /\ GoTo(w, "rollback")
  /\ UNCHANGED <<operation, reservation, redemption, rows, drawn, answered, unreserved>>

Heartbeat(w) ==
  LET last == worker[w].step = Len(Steps) IN
  /\ IsAt(w, "beat")
  /\ Held(w)
  /\ operation' = [operation EXCEPT ![worker[w].key].stale = FALSE]
  /\ worker' = [worker EXCEPT ![w].at = IF last THEN "complete" ELSE "step",
                              ![w].step = IF last THEN @ ELSE @ + 1]
  /\ UNCHANGED <<reservation, redemption, rows, drawn, answered, unreserved>>

(* WORKSPACE_ONBOARDING_LEASE_LOST, or the database fails. *)
HeartbeatFails(w) ==
  /\ IsAt(w, "beat")
  /\ GoTo(w, "rollback")
  /\ UNCHANGED <<operation, reservation, redemption, rows, drawn, answered, unreserved>>

Completable(w) == Held(w)

Complete(w) ==
  LET k == worker[w].key IN
  /\ IsAt(w, "complete")
  /\ Completable(w)
  /\ operation' = [operation EXCEPT ![k].status = "completed"]
  /\ \/ /\ answered' = [answered EXCEPT ![k] = @ \cup {worker[w].workspace}]
        /\ Finish(w)
     \/ /\ UNCHANGED answered
        /\ GoTo(w, "rollback")
  /\ UNCHANGED <<reservation, redemption, rows, drawn, unreserved>>

CompleteFails(w) ==
  /\ IsAt(w, "complete")
  /\ GoTo(w, "rollback")
  /\ UNCHANGED <<operation, reservation, redemption, rows, drawn, answered, unreserved>>

-----------------------------------------------------------------------------
(* Faulty: forgets the status. *)
InScopeAnyStatus(w) == operation[worker[w].key].workspace = worker[w].workspace

(* Compensation. *)
InScope(w) == Held(w)

Rollback(w) ==
  LET k == worker[w].key IN
  /\ IsAt(w, "rollback")
  /\ InScope(w)
  /\ rows' = [rows EXCEPT ![worker[w].workspace] = {}]
  /\ operation' = [operation EXCEPT ![k].status = IF @ = "in_progress" THEN "rolled_back" ELSE @]
  /\ Finish(w) \/ GoTo(w, "unrolled")
  /\ UNCHANGED <<reservation, redemption, drawn, answered, unreserved>>

(* WORKSPACE_ROLLBACK_SCOPE_MISMATCH, or the database fails. *)
RollbackFails(w) ==
  /\ IsAt(w, "rollback")
  /\ GoTo(w, "unrolled")
  /\ UNCHANGED <<operation, reservation, redemption, rows, drawn, answered, unreserved>>

RecordRollbackFailure(w) ==
  /\ IsAt(w, "unrolled")
  /\ \/ /\ Held(w)
        /\ operation' = [operation EXCEPT ![worker[w].key].status = "failed"]
     \/ UNCHANGED operation
  /\ Finish(w)
  /\ UNCHANGED <<reservation, redemption, rows, drawn, answered, unreserved>>

-----------------------------------------------------------------------------
(* The process dies, and fifteen minutes pass for an operation or a reservation. *)
Die(w) ==
  /\ ~IsAt(w, "idle")
  /\ Finish(w)
  /\ UNCHANGED <<operation, reservation, redemption, rows, drawn, answered, unreserved>>

GrowStale(k) ==
  /\ operation[k].status \in {"in_progress", "rolled_back"}
  /\ ~operation[k].stale
  /\ operation' = [operation EXCEPT ![k].stale = TRUE]
  /\ UNCHANGED <<reservation, redemption, rows, worker, drawn, answered, unreserved>>

GrowOld(k) ==
  /\ reservation[k] = "fresh"
  /\ reservation' = [reservation EXCEPT ![k] = "old"]
  /\ UNCHANGED <<operation, redemption, rows, worker, drawn, answered, unreserved>>

OnboardingNext ==
  \/ \E w \in Workers :
       \/ \E k \in Keys, b \in Bodies, i \in BetaInvites : ConsumeInvite(w, k, b, i)
       \/ Reserve(w)
       \/ \E s \in Workspaces : Claim(w, s)
       \/ ClaimAnswered(w)
       \/ Provision(w) \/ ProvisionFails(w)
       \/ Heartbeat(w) \/ HeartbeatFails(w)
       \/ Complete(w) \/ CompleteFails(w)
       \/ Rollback(w) \/ RollbackFails(w) \/ RecordRollbackFailure(w)
       \/ Die(w)
  \/ \E k \in Keys : GrowStale(k) \/ GrowOld(k)

OnboardingSpec == OnboardingInit /\ [][OnboardingNext]_onboardingVars

-----------------------------------------------------------------------------
Operation ==
  [status : Statuses, body : Bodies \cup {NoBody},
   workspace : Workspaces \cup {NoWorkspace}, stale : BOOLEAN]

Worker ==
  [at : {"idle", "invited", "reserved", "step", "beat", "complete", "rollback", "unrolled"},
   key : Keys \cup {NoKey}, body : Bodies \cup {NoBody},
   workspace : Workspaces \cup {NoWorkspace}, step : 0..Len(Steps)]

(* The tables and the requests keep their shape. *)
OnboardingTypeOK ==
  /\ operation \in [Keys -> Operation]
  /\ reservation \in [Keys -> {"none", "fresh", "old"}]
  /\ redemption \in [BetaInvites -> Keys \cup {NoKey}]
  /\ rows \in [Workspaces -> SUBSET AllSteps]
  /\ worker \in [Workers -> Worker]
  /\ drawn \subseteq Workspaces
  /\ answered \in [Keys -> SUBSET Workspaces]
  /\ unreserved \subseteq Keys

(* A completed workspace has everything its steps create, whoever else       *)
(* worked on its key, took it over or rolled it back meanwhile; and a worker *)
(* that lost its operation leaves no more behind than the organization and   *)
(* administrator it was just creating: no agent, credential of an agent,     *)
(* provider, policy or mandate of an abandoned workspace.  And every client  *)
(* of a key is told of one workspace, which stays the completed one.         *)
WorkspacesWholeOrBare ==
  /\ OnboardingTypeOK
  /\ \A k \in Keys :
       operation[k].status = "completed" => rows[operation[k].workspace] = AllSteps
  /\ \A s \in Workspaces :
       \/ rows[s] \subseteq Bootstrap
       \/ \E k \in Keys : operation[k].workspace = s
            /\ operation[k].status \in {"in_progress", "completed", "failed"}
  /\ \A k \in Keys : \A s \in answered[k] :
       operation[k].status = "completed" /\ operation[k].workspace = s

(* The capacity bounds the workspaces that exist or are being created, but   *)
(* for the keys that claimed without a reservation that counted: a retry     *)
(* after a rollback, and a reservation that expired under its request.       *)
CapacityHolds ==
  Cardinality({k \in Keys \ unreserved :
                 operation[k].status \in {"in_progress", "completed"}}) <= MaxActive
=============================================================================
