----------------------------- MODULE RunClosure -----------------------------
(* How a reliability run ends: the durable stages from its last call to the    *)
(* final commit, the settlement, and the report, of which one intent after     *)
(* another is committed in the database and published as write-once files      *)
(* (protocolStore.ts; scripts/held-out-reliability-v4.ts, commands run,        *)
(* replay, evidence, settle and report).  Each action is one transaction or    *)
(* one file; a process runs one command at a time and may stop between any     *)
(* two of them.                                                                *)
EXTENDS Integers, Sequences, SequencesExt

CONSTANTS Calls,       \* the calls of the run that are still open, one per lane block
          Targets,     \* the calls it replays
          Processes,   \* settle and report commands
          MaxIntents   \* report intents explored

VARIABLES control,     \* the run's row and its final snapshot
          call,        \* what became of each call
          manifest,    \* the manifest file of each lane block
          replay,      \* the replay authorization of each target
          intents,     \* the report intents, in order
          file,        \* the intent and the report file: whose bytes they hold
          canceling,   \* hard finalization committed its publication items
          overdue,     \* the hard finalization deadline has passed
          process

closureVars ==
  <<control, call, manifest, replay, intents, file, canceling, overdue, process>>

DurableStages == <<"running", "fresh_terminal", "replay_terminal", "artifact_bound", "settled",
            "final_committed">>

Pending == {c \in Calls : call[c] = "open"}

NoCommand == [at |-> "idle", intent |-> 0, late |-> FALSE, verdict |-> "none"]

ClosureInit ==
  /\ control = [stage |-> "running", state |-> "active", snapshot |-> "none"]
  /\ call = [c \in Calls |-> "open"]
  /\ manifest = [c \in Calls |-> "absent"]
  /\ replay = [t \in Targets |-> "none"]
  /\ intents = <<>>
  /\ file = [intent |-> 0, report |-> 0]
  /\ canceling = FALSE /\ overdue = FALSE
  /\ process = [p \in Processes |-> NoCommand]

-----------------------------------------------------------------------------
(* Report intents *)

Latest == Len(intents)
LastIntent == Last(intents)

\* Faulty: a verdict that was published can be replaced.
SupersedableAlways(kind) ==
  intents # <<>> =>
    /\ LastIntent.kind = "failure" => kind = "failure"
    /\ LastIntent.state = "artifact_conflict" => LastIntent.kind = "pass" /\ kind = "failure"

\* commitReportIntentLocked: every failure follows an incident of its own, so no
\* two intents have the same bytes.
Supersedable(kind) ==
  intents # <<>> =>
    /\ LastIntent.kind = "failure" => kind = "failure"
    /\ LastIntent.state # "published"
    /\ LastIntent.state = "artifact_conflict" => LastIntent.kind = "pass" /\ kind = "failure"

Committed(kind) ==
  Append([i \in 1..Latest |-> IF i = Latest THEN [intents[i] EXCEPT !.state = "superseded"]
                                            ELSE intents[i]],
         [kind |-> kind, state |-> "committed", receipt |-> FALSE, late |-> FALSE])

CommitIntent(kind) ==
  /\ Latest < MaxIntents
  /\ Supersedable(kind)
  /\ intents' = Committed(kind)

\* appendReportPublicationEventLocked
Event(state, allowed) ==
  /\ LastIntent.state \in allowed
  /\ intents' = [intents EXCEPT ![Latest].state = state]

\* A publication that missed its deadline: a pass is superseded by a failure.
Missed(receipt) ==
  IF LastIntent.kind = "pass"
  THEN /\ Latest < MaxIntents
       /\ intents' = [Committed("failure") EXCEPT ![Latest].receipt = receipt]
  ELSE intents' = [intents EXCEPT ![Latest].state = "publication_failed",
                                  ![Latest].receipt = receipt]

IntentOverdue ==
  /\ intents # <<>> /\ ~LastIntent.late /\ LastIntent.state # "published"
  /\ intents' = [intents EXCEPT ![Latest].late = TRUE]
  /\ UNCHANGED <<control, call, manifest, replay, file, canceling, overdue, process>>

-----------------------------------------------------------------------------
(* The run *)

CallEnds(c) ==
  /\ call[c] = "open"
  /\ call' = [call EXCEPT ![c] = "ended"]
  /\ UNCHANGED <<control, manifest, replay, intents, file, canceling, overdue, process>>

\* publishLaneManifest: after the calls of the block, while the run goes on.
PublishManifest(c) ==
  /\ call[c] = "ended" /\ manifest[c] = "absent"
  /\ manifest' = [manifest EXCEPT ![c] = "terminal"]
  /\ UNCHANGED <<control, call, replay, intents, file, canceling, overdue, process>>

\* failProtocolLocked decides the calls that can no longer be dispatched.
FailProtocol ==
  /\ control.state = "active"
  /\ \E dropped \in SUBSET Pending :
       call' = [c \in Calls |-> IF c \in dropped THEN "canceled" ELSE call[c]]
  /\ CommitIntent("failure")
  /\ control' = [control EXCEPT !.state = "failed"]
  /\ UNCHANGED <<manifest, replay, file, canceling, overdue, process>>

\* advanceDurableStage: one stage further, never of a failed run.
Advance(target) ==
  /\ control.state # "failed"
  /\ \E i \in 2..Len(DurableStages) : DurableStages[i] = target /\ DurableStages[i - 1] = control.stage
  /\ control' = [control EXCEPT !.stage = target]

\* The runner publishes the manifests of all blocks first.
EndFreshCalls ==
  /\ Pending = {} /\ \A c \in Calls : manifest[c] = "terminal"
  /\ Advance("fresh_terminal")
  /\ UNCHANGED <<call, manifest, replay, intents, file, canceling, overdue, process>>

RegisterReplays ==
  /\ control.stage = "fresh_terminal"
  /\ \E t \in Targets : replay[t] = "none"
  /\ replay' = [t \in Targets |-> IF replay[t] = "none" THEN "authorized" ELSE replay[t]]
  /\ UNCHANGED <<control, call, manifest, intents, file, canceling, overdue, process>>

ReplayCall(t) ==
  /\ control.stage \in {"fresh_terminal", "replay_terminal"}
  /\ replay[t] = "authorized"
  /\ replay' = [replay EXCEPT ![t] = "passed"]
  /\ UNCHANGED <<control, call, manifest, intents, file, canceling, overdue, process>>

\* Of the later stages only the settlement looks at the state of the run.
CompleteReplays ==
  /\ control.stage = "fresh_terminal"
  /\ \A t \in Targets : replay[t] = "passed"
  /\ control' = [control EXCEPT !.stage = "replay_terminal"]
  /\ UNCHANGED <<call, manifest, replay, intents, file, canceling, overdue, process>>

BindArtifacts ==
  /\ control.stage = "replay_terminal"
  /\ control' = [control EXCEPT !.stage = "artifact_bound"]
  /\ UNCHANGED <<call, manifest, replay, intents, file, canceling, overdue, process>>

-----------------------------------------------------------------------------
(* Settlement: the polls are read outside the lock *)

Goes(p, at) == process' = [process EXCEPT ![p].at = at]
Finish(p) == process' = [process EXCEPT ![p] = NoCommand]

Settleable == control.stage = "artifact_bound" /\ control.state = "active"

\* The polls accept a snapshot or not, and the strict report of an accepted one
\* passes only while the run has no incident, which every failure leaves.
PollSettlement(p) ==
  /\ process[p].at = "idle" /\ Settleable
  /\ \E verdict \in {"pass", "nonpass", "incomplete"} :
       /\ verdict = "pass" => intents = <<>>
       /\ process' = [process EXCEPT ![p].at = "polled", ![p].verdict = verdict]
  /\ UNCHANGED <<control, call, manifest, replay, intents, file, canceling, overdue>>

\* Polls that began at another time accept another snapshot; only a settlement
\* that accepted none can meet the row it wrote before.
SnapshotAgrees(verdict) ==
  control.snapshot = "none" \/ (control.snapshot = "incomplete" /\ verdict = "incomplete")

Settlement(p) ==
  LET verdict == process[p].verdict IN
  /\ process[p].at = "polled"
  /\ Settleable /\ SnapshotAgrees(verdict)
  /\ CommitIntent(IF verdict = "pass" THEN "pass" ELSE "failure")
  /\ control' = [control EXCEPT !.snapshot = verdict]
  /\ IF verdict = "pass" THEN Goes(p, "accepted") ELSE Finish(p)
  /\ UNCHANGED <<call, manifest, replay, file, canceling, overdue>>

AdvanceSettled(p) ==
  /\ process[p].at = "accepted" /\ control.snapshot = "pass"
  /\ Advance("settled")
  /\ Finish(p)
  /\ UNCHANGED <<call, manifest, replay, intents, file, canceling, overdue>>

-----------------------------------------------------------------------------
(* The report command *)

DeadlinePasses ==
  /\ ~overdue /\ overdue' = TRUE
  /\ UNCHANGED <<control, call, manifest, replay, intents, file, canceling, process>>

\* hardFinalizeReliabilityRun: before the deadline a run with open calls waits.
FinalizeOverdue(p) ==
  /\ process[p].at = "idle" /\ overdue /\ Pending # {}
  /\ CommitIntent("failure")
  /\ call' = [c \in Calls |-> IF c \in Pending THEN "canceled" ELSE call[c]]
  /\ control' = [control EXCEPT !.state = "failed"]
  /\ canceling' = TRUE
  /\ Goes(p, "finalized")
  /\ UNCHANGED <<manifest, replay, file, overdue>>

AlreadyTerminal == Pending = {}

FindTerminal(p) ==
  /\ process[p].at = "idle" /\ AlreadyTerminal
  /\ Goes(p, "finalized")
  /\ UNCHANGED <<control, call, manifest, replay, intents, file, canceling, overdue>>

\* publishPendingFailureReport: the canceled manifests of all blocks, in order; a
\* file with other bytes ends the command.
PublishCanceled(p) ==
  LET free == {c \in Calls : manifest[c] # "terminal"} IN
  /\ process[p].at = "finalized"
  /\ \/ ~canceling /\ Goes(p, "supported") /\ UNCHANGED manifest
     \/ /\ canceling /\ free = Calls
        /\ manifest' = [c \in Calls |-> "canceled"]
        /\ Goes(p, "supported")
     \/ /\ canceling
        /\ \E written \in SUBSET free :
             manifest' = [c \in Calls |-> IF c \in written THEN "canceled" ELSE manifest[c]]
        /\ Finish(p)
  /\ UNCHANGED <<control, call, replay, intents, file, canceling, overdue>>

Publishable ==
  /\ intents # <<>>
  /\ ~LastIntent.receipt
  /\ LastIntent.state \in {"committed", "publication_failed"}

\* publishPendingReportIntent
TakeIntent(p) ==
  /\ process[p].at = "supported" /\ Publishable
  /\ \/ /\ ~LastIntent.late
        /\ UNCHANGED intents
        /\ process' = [process EXCEPT ![p].at = "taken", ![p].intent = Latest]
     \/ /\ LastIntent.late
        /\ Missed(FALSE)
        /\ IF LastIntent.kind = "pass" THEN Finish(p)
           ELSE process' = [process EXCEPT ![p].at = "taken", ![p].intent = Latest,
                                           ![p].late = TRUE]
  /\ UNCHANGED <<control, call, manifest, replay, file, canceling, overdue>>

\* publishBytesOnce: every intent has the same two paths.
WriteFile(p, from, which, to) ==
  /\ process[p].at = from
  /\ IF file[which] \in {0, process[p].intent}
     THEN file' = [file EXCEPT ![which] = process[p].intent] /\ Goes(p, to)
     ELSE UNCHANGED file /\ Goes(p, "conflict")
  /\ UNCHANGED <<control, call, manifest, replay, intents, canceling, overdue>>

Current(p) == process[p].intent = Latest

Conflictable == {"committed", "publication_failed", "artifact_conflict"}

RecordConflict(p) ==
  /\ process[p].at = "conflict" /\ Current(p)
  /\ IF LastIntent.kind = "pass"
     THEN /\ LastIntent.state \in Conflictable
          /\ Latest < MaxIntents
          /\ intents' = Committed("failure")
     ELSE Event("artifact_conflict", Conflictable)
  /\ Finish(p)
  /\ UNCHANGED <<control, call, manifest, replay, file, canceling, overdue>>

FinalCommittable == control.stage = "settled" /\ control.state = "active"

RecordReceipt(p) ==
  /\ process[p].at = "written" /\ Current(p)
  /\ ~LastIntent.receipt
  /\ \/ /\ ~LastIntent.late /\ LastIntent.state = "committed"
        /\ intents' = [intents EXCEPT ![Latest].state = "published", ![Latest].receipt = TRUE]
        /\ IF LastIntent.kind = "pass"
           THEN /\ FinalCommittable
                /\ control' = [control EXCEPT !.stage = "final_committed", !.state = "complete"]
           ELSE UNCHANGED control
     \/ /\ LastIntent.late
        /\ IF process[p].late
           THEN intents' = [intents EXCEPT ![Latest].receipt = TRUE]
           ELSE LastIntent.state \in {"committed", "publication_failed"} /\ Missed(TRUE)
        /\ UNCHANGED control
  /\ Finish(p)
  /\ UNCHANGED <<call, manifest, replay, file, canceling, overdue>>

\* A refused transaction ends the command, and a process may stop anywhere.
CommandEnds(p) ==
  /\ process[p].at # "idle"
  /\ Finish(p)
  /\ UNCHANGED <<control, call, manifest, replay, intents, file, canceling, overdue>>

Command(p) ==
  \/ PollSettlement(p)
  \/ Settlement(p)
  \/ AdvanceSettled(p)
  \/ FinalizeOverdue(p)
  \/ FindTerminal(p)
  \/ PublishCanceled(p)
  \/ TakeIntent(p)
  \/ WriteFile(p, "taken", "intent", "announced")
  \/ WriteFile(p, "announced", "report", "written")
  \/ RecordConflict(p)
  \/ RecordReceipt(p)
  \/ CommandEnds(p)

ClosureNext ==
  \/ \E c \in Calls : CallEnds(c) \/ PublishManifest(c)
  \/ \E t \in Targets : ReplayCall(t)
  \/ \E p \in Processes : Command(p)
  \/ FailProtocol
  \/ EndFreshCalls
  \/ RegisterReplays
  \/ CompleteReplays
  \/ BindArtifacts
  \/ IntentOverdue
  \/ DeadlinePasses

ClosureSpec == ClosureInit /\ [][ClosureNext]_closureVars

-----------------------------------------------------------------------------
(* A run has one verdict.  Whatever settlements, finalizations and publishers  *)
(* race: a failure is never followed by a pass; what was published in time     *)
(* stays the last word, is what both files say, and is said of calls that are  *)
(* all decided; and a run is complete exactly when that word is a pass, given   *)
(* to a run that was replayed and settled.                                     *)
VerdictStands ==
  /\ \A i \in 1..(Latest - 1) :
       /\ intents[i].kind = "failure" => intents[i + 1].kind = "failure"
       /\ ~(intents[i].receipt /\ ~intents[i].late)
  /\ \A i \in 1..Latest : intents[i].state = "published" =>
       /\ file = [intent |-> i, report |-> i]
       /\ Pending = {}
  /\ control.state = "complete" <=>
       intents # <<>> /\ LastIntent.kind = "pass" /\ LastIntent.state = "published"
  /\ control.state = "complete" =>
       /\ control.snapshot = "pass"
       /\ \A c \in Calls : call[c] = "ended"
       /\ \A t \in Targets : replay[t] = "passed"

(* docs/held-out-reliability-protocol-v4.md:316: the failure that hard         *)
(* finalization commits is published.  Its canceled manifests come first.      *)
FailureCanBeReported ==
  canceling => \A c \in Calls : manifest[c] # "terminal"
=============================================================================
