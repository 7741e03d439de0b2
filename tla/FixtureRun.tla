------------------------------ MODULE FixtureRun ------------------------------
(* The paid evidence run and its replay.  A runner claims a run id, keeps one  *)
(* manifest that it replaces after every call, and ends it complete or         *)
(* incomplete; it may be started twice, be interrupted, lose its disk or die.  *)
(* Replays read a complete manifest, compare it with the rows of the service   *)
(* and write one report (scripts/generate-evidence-fixtures.ts,                *)
(* scripts/replay-evidence.ts, evidence/durableArtifacts.ts, harness.ts).      *)
EXTENDS Amounts, Sequences

CONSTANTS
  Runner,    \* processes started with one run id
  Replayer,  \* replays of its manifest
  Plan,      \* the planned calls: [maximum, expected]
  Bills,     \* amounts the provider may bill
  Settings,  \* configurations of the run: [heldOut, cap], cap a set of at most one amount
  NoRunner, NoFile, NoReport

AttemptRecord ==
  [outcome : {"completed", "denied", "error"}, cost : Amount,
   code : {"none", "class", "model", "budget", "review", "other"}]
RunManifest == [phase : {"running", "complete", "incomplete"}, attempts : Seq(AttemptRecord)]

ASSUME PlanAssumption ==
  /\ Plan \in Seq([maximum : Amount, expected : {"completed", "denied", "completed-or-denied"}])
  /\ Bills \subseteq Amount
  /\ Settings \subseteq [heldOut : BOOLEAN, cap : SUBSET Nat]
  /\ NoRunner \notin Runner /\ NoFile \notin RunManifest

VARIABLES
  setting,    \* the configuration
  runClaim,   \* the run claim: who made it
  manifest,   \* what stands at the output path
  setup,      \* what the database says of policy, mandate, agents and branches
  calls,      \* per planned call: its row at the service, and what the provider billed
  evaluated,  \* calls with shadow evidence
  runner,     \* what each process is doing, and the attempts it knows of
  replayer,   \* what each replay is doing, and the report it is about to write
  report      \* what stands at the path of the replay's report
runVars == <<setting, runClaim, manifest, setup, calls, evaluated, runner, replayer, report>>
serviceVars == <<setup, calls, evaluated>>

Planned == DOMAIN Plan
Served(status, billed) == [status |-> status, billed |-> billed]
Attempt(outcome, cost, code) == [outcome |-> outcome, cost |-> cost, code |-> code]

FixtureInit ==
  /\ setting \in Settings
  /\ runClaim = NoRunner /\ manifest = NoFile /\ setup = "absent"
  /\ calls = [i \in Planned |-> Served("none", 0)] /\ evaluated = {}
  /\ runner = [r \in Runner |-> [at |-> "new", attempts |-> <<>>, interrupted |-> FALSE]]
  /\ replayer = [p \in Replayer |-> [at |-> "new", report |-> NoReport]]
  /\ report = NoReport

RunnerIs(r, place) == runner[r].at = place
RunnerGoes(r, place) == runner' = [runner EXCEPT ![r].at = place]
Interrupted(r) == runner[r].interrupted

Spent(attempts) == Total([i \in DOMAIN attempts |-> attempts[i].cost], DOMAIN attempts)

-----------------------------------------------------------------------------
(* One file at a path.  A crash before the rename leaves the old file, one     *)
(* after it the new one; the directory may fail to sync after the rename, so   *)
(* an error does not say which file stands.                                    *)
Terminal(file) == file # NoFile /\ file.phase \in {"complete", "incomplete"}

Snapshot(r, phase, attempts) == [phase |-> phase, attempts |-> attempts]

\* persistManifest by atomicReplaceJson: goes on, or throws.
PersistManifest(r, phase, attempts, onward, thrown) ==
  \/ /\ ~Terminal(manifest) /\ manifest' = Snapshot(r, phase, attempts)
     /\ \E place \in {onward, thrown} :
          runner' = [runner EXCEPT ![r].at = place, ![r].attempts = attempts]
  \/ /\ UNCHANGED manifest
     /\ runner' = [runner EXCEPT ![r].at = thrown, ![r].attempts = attempts]

-----------------------------------------------------------------------------
(* The runner, up to its first call.  A process that finds a claim, or cannot  *)
(* write its own, ends without a trace.                                        *)
AcquireRunClaim(r) ==
  /\ RunnerIs(r, "new") /\ runClaim = NoRunner
  /\ runClaim' = r
  /\ RunnerGoes(r, "claimed")
  /\ UNCHANGED <<setting, manifest, serviceVars, replayer, report>>

\* The first manifest is linked to a path that must not exist; an error here
\* leaves the claim without a run.
WriteFirstManifest(r) ==
  /\ RunnerIs(r, "claimed")
  /\ \/ /\ manifest = NoFile /\ manifest' = Snapshot(r, "running", <<>>)
        /\ \E place \in {"configuring", "ended"} : RunnerGoes(r, place)
     \/ UNCHANGED manifest /\ RunnerGoes(r, "ended")
  /\ UNCHANGED <<setting, runClaim, serviceVars, replayer, report>>

\* A held-out run needs a cap.
LoadConfiguration(r) ==
  /\ RunnerIs(r, "configuring")
  /\ IF Interrupted(r) \/ (setting.heldOut /\ setting.cap = {})
     THEN RunnerGoes(r, "failing") /\ UNCHANGED manifest
     ELSE PersistManifest(r, "running", <<>>, "setup", "failing")
  /\ UNCHANGED <<setting, runClaim, serviceVars, replayer, report>>

ExecuteSetup(r) ==
  /\ RunnerIs(r, "setup")
  /\ \/ /\ ~Interrupted(r)
        /\ setup' = "intended" /\ RunnerGoes(r, "verifying")
     \/ setup' \in {"absent", "other"} /\ RunnerGoes(r, "failing")
  /\ UNCHANGED <<setting, runClaim, manifest, calls, evaluated, replayer, report>>

\* What is stored of policy, mandate, agents and branches is what was planned.
SetupAsIntended == setup = "intended"

VerifySetup(r) ==
  /\ RunnerIs(r, "verifying")
  /\ IF ~SetupAsIntended \/ Interrupted(r)
     THEN RunnerGoes(r, "failing") /\ UNCHANGED manifest
     ELSE PersistManifest(r, "running", <<>>, "calling", "failing")
  /\ UNCHANGED <<setting, runClaim, serviceVars, replayer, report>>

-----------------------------------------------------------------------------
(* Its calls, one after the other.                                             *)
NextCall(r) == Len(runner[r].attempts) + 1

\* Faulty: forgets the call that is about to be made.
SpentOnly(attempts, i) == \A cap \in setting.cap : Spent(attempts) <= cap
WithinCap(attempts, i) == \A cap \in setting.cap : Spent(attempts) + Plan[i].maximum <= cap

BeginCall(r) ==
  /\ RunnerIs(r, "calling") /\ NextCall(r) \in Planned
  /\ IF Interrupted(r) \/ ~WithinCap(runner[r].attempts, NextCall(r))
     THEN RunnerGoes(r, "failing")
     ELSE RunnerGoes(r, "asking")
  /\ UNCHANGED <<setting, runClaim, manifest, serviceVars, replayer, report>>

\* What a row ends as, with what may have been billed for it by then.  A bill
\* above the maximum holds the row.
EndsOfRow(i) ==
  {Served("completed", bill) : bill \in {b \in Bills : b <= Plan[i].maximum}}
    \cup {Served("reconciliation_hold", bill) : bill \in Bills}
    \cup {Served("denied", 0), Served("failed", 0)}

\* 2xx is a completion, 4xx a denial, the rest an error: a call put on hold
\* for its bill answers 409, and a lost acknowledgement of its completion 500.
AttemptsOf(i, row) ==
  CASE row.status = "completed" -> {Attempt("completed", row.billed, "none"), Attempt("error", 0, "none")}
    [] row.status = "denied" -> {Attempt("denied", 0, code) : code \in {"class", "budget", "other"}}
    [] row.status = "none" -> {Attempt("denied", 0, "model"), Attempt("error", 0, "none")}
    [] row.status = "reconciliation_hold" -> {Attempt("denied", 0, "review"), Attempt("error", 0, "none")}
    [] OTHER -> {Attempt("error", 0, "none")}

\* Faulty: the manifest is written at the end.
KeepInMemory(r, attempts) ==
  runner' = [runner EXCEPT ![r].at = "asserting", ![r].attempts = attempts] /\ UNCHANGED manifest

\* executeFixtureCall, and the checkpoint before anything is asserted about it.
Checkpoint(r, attempts) == PersistManifest(r, "running", attempts, "asserting", "failing")

CallAnswered(r) ==
  LET i == NextCall(r)
  IN /\ RunnerIs(r, "asking")
     /\ \E row \in EndsOfRow(i) \cup {Served("none", 0), Served("executing", 0)} :
          /\ calls' = [calls EXCEPT ![i] = row]
          /\ \E attempt \in AttemptsOf(i, row) :
               Checkpoint(r, Append(runner[r].attempts, attempt))
     /\ UNCHANGED <<setting, runClaim, setup, evaluated, replayer, report>>

\* No answer within its time, an interruption, a body too large: the service
\* may have the request or not.
CallLost(r) ==
  /\ RunnerIs(r, "asking")
  /\ \E status \in {"none", "executing"} : calls' = [calls EXCEPT ![NextCall(r)] = Served(status, 0)]
  /\ RunnerGoes(r, "failing")
  /\ UNCHANGED <<setting, runClaim, manifest, setup, evaluated, replayer, report>>

Expected(i, attempt) ==
  Plan[i].expected # "completed-or-denied" => attempt.outcome = Plan[i].expected

AssertAttempt(r) ==
  LET attempts == runner[r].attempts
      i == Len(attempts)
  IN /\ RunnerIs(r, "asserting")
     /\ IF Interrupted(r) \/ ~Expected(i, attempts[i]) \/ \E cap \in setting.cap : Spent(attempts) > cap
        THEN RunnerGoes(r, "failing")
        ELSE RunnerGoes(r, "calling")
     /\ UNCHANGED <<setting, runClaim, manifest, serviceVars, replayer, report>>

\* What both the end of a run and its replay ask of the attempts.
HardBudgetDenied(attempts) ==
  LET denials == {i \in Planned : Plan[i].expected = "completed-or-denied" /\ attempts[i].outcome = "denied"}
  IN denials # {} /\ \A i \in denials : attempts[i].code = "budget"

ValidOutcomes(attempts) ==
  /\ Len(attempts) = Len(Plan)
  /\ \A i \in Planned : Expected(i, attempts[i])
  /\ ~setting.heldOut =>
       /\ \A i \in Planned : Plan[i].expected = "denied" => attempts[i].code \in {"class", "model"}
       /\ HardBudgetDenied(attempts)

CompleteRun(r) ==
  LET attempts == runner[r].attempts
  IN /\ RunnerIs(r, "calling") /\ NextCall(r) \notin Planned
     /\ IF Interrupted(r) \/ ~ValidOutcomes(attempts)
        THEN RunnerGoes(r, "failing") /\ UNCHANGED manifest
        ELSE PersistManifest(r, "complete", attempts, "ended", "failing")
     /\ UNCHANGED <<setting, runClaim, serviceVars, replayer, report>>

\* runWithIncompleteEvidenceCapture: whatever was thrown, also by the last
\* write of a manifest that stands complete.
PersistIncomplete(r) ==
  /\ RunnerIs(r, "failing")
  /\ PersistManifest(r, "incomplete", runner[r].attempts, "ended", "ended")
  /\ UNCHANGED <<setting, runClaim, serviceVars, replayer, report>>

Interrupt(r) ==
  /\ runner[r].at \notin {"new", "ended"} /\ ~Interrupted(r)
  /\ runner' = [runner EXCEPT ![r].interrupted = TRUE]
  /\ UNCHANGED <<setting, runClaim, manifest, serviceVars, replayer, report>>

RunnerDies(r) ==
  /\ runner[r].at \notin {"new", "ended"}
  /\ IF RunnerIs(r, "asking")
     THEN \E status \in {"none", "executing"} : calls' = [calls EXCEPT ![NextCall(r)] = Served(status, 0)]
     ELSE UNCHANGED calls
  /\ RunnerGoes(r, "ended")
  /\ UNCHANGED <<setting, runClaim, manifest, setup, evaluated, replayer, report>>

-----------------------------------------------------------------------------
(* The service and its operators meanwhile.                                    *)
EndRow(i) ==
  /\ calls[i].status = "executing"
  /\ \E row \in EndsOfRow(i) : calls' = [calls EXCEPT ![i] = row]
  /\ UNCHANGED <<setting, runClaim, manifest, setup, evaluated, runner, replayer, report>>

ResolveRow(i) ==
  /\ calls[i].status = "reconciliation_hold"
  /\ \E status \in {"completed", "failed"} : calls' = [calls EXCEPT ![i].status = status]
  /\ UNCHANGED <<setting, runClaim, manifest, setup, evaluated, runner, replayer, report>>

EvaluateShadow(i) ==
  /\ calls[i].status = "completed"
  /\ evaluated' = evaluated \cup {i}
  /\ UNCHANGED <<setting, runClaim, manifest, setup, calls, runner, replayer, report>>

ChangeSetup ==
  /\ setup # "absent"
  /\ setup' \in {"intended", "other"}
  /\ UNCHANGED <<setting, runClaim, manifest, calls, evaluated, runner, replayer, report>>

-----------------------------------------------------------------------------
(* A replay: one snapshot of a complete manifest and of the rows, one report.  *)
Replayable(file) == file # NoFile /\ file.phase = "complete"

OutcomeOf(row) == IF row.status \in {"completed", "denied"} THEN row.status ELSE "error"

AgreesWithRow(attempt, row) ==
  IF row.status = "none" THEN attempt.outcome = "denied" /\ attempt.code = "model"
  ELSE /\ attempt.outcome = OutcomeOf(row)
       /\ attempt.outcome = "completed" => attempt.cost = row.billed

ReadForReplay(p) ==
  /\ replayer[p].at = "new" /\ Replayable(manifest)
  /\ LET attempts == manifest.attempts
         valid == /\ ValidOutcomes(attempts)
                  /\ setting.heldOut => \A cap \in setting.cap : Spent(attempts) <= cap
                  /\ SetupAsIntended
                  /\ \A i \in Planned : AgreesWithRow(attempts[i], calls[i])
     IN replayer' = [replayer EXCEPT ![p] =
          IF valid THEN [at |-> "writing", report |-> [attempts |-> attempts, covered |-> evaluated]]
          ELSE [@ EXCEPT !.at = "ended"]]
  /\ UNCHANGED <<setting, runClaim, manifest, serviceVars, runner, report>>

WriteReport(p) ==
  /\ replayer[p].at = "writing"
  /\ report' = IF report = NoReport THEN replayer[p].report ELSE report
  /\ replayer' = [replayer EXCEPT ![p].at = "ended"]
  /\ UNCHANGED <<setting, runClaim, manifest, serviceVars, runner>>

ReplayDies(p) ==
  /\ replayer[p].at = "writing"
  /\ replayer' = [replayer EXCEPT ![p].at = "ended"]
  /\ UNCHANGED <<setting, runClaim, manifest, serviceVars, runner, report>>

FixtureNext ==
  \/ \E r \in Runner :
       \/ AcquireRunClaim(r) \/ WriteFirstManifest(r) \/ LoadConfiguration(r)
       \/ ExecuteSetup(r) \/ VerifySetup(r) \/ BeginCall(r) \/ CallAnswered(r) \/ CallLost(r)
       \/ AssertAttempt(r) \/ CompleteRun(r) \/ PersistIncomplete(r)
       \/ Interrupt(r) \/ RunnerDies(r)
  \/ \E i \in Planned : EndRow(i) \/ ResolveRow(i) \/ EvaluateShadow(i)
  \/ ChangeSetup
  \/ \E p \in Replayer : ReadForReplay(p) \/ WriteReport(p) \/ ReplayDies(p)

FixtureSpec == FixtureInit /\ [][FixtureNext]_runVars

-----------------------------------------------------------------------------
Attempts == UNION {{runner[r].attempts} : r \in {q \in Runner : runClaim = q}}

\* Calls the run took for denied or failed, and calls billed above what was reserved.
Unaccounted ==
  {i \in Planned : \/ calls[i].billed > Plan[i].maximum
                   \/ \E attempts \in Attempts : i <= Len(attempts) /\ attempts[i].outcome # "completed"}

(* The operator's ceiling holds for the provider's bills, not only for what    *)
(* the manifest says: with the call whose answer never came, after any crash   *)
(* and interruption.  What it misses is what the run does not know to be paid: *)
(* a billed call answered with an error or put on hold is an attempt of cost   *)
(* zero.                                                                       *)
CapCoversBills ==
  \A cap \in setting.cap : Total([i \in Planned |-> calls[i].billed], Planned \ Unaccounted) <= cap

(* The files answer for the run.  It forgets no call but the one it was making *)
(* when it ended: every other call that reached the service is in the manifest. *)
(* A report stays true whatever happens after it: the manifest that stands is   *)
(* complete and the one it was made from; what it calls completed is completed  *)
(* at that cost, what it calls denied never ran; its evidence is of completed   *)
(* calls.                                                                       *)
FilesAnswerForTheRun ==
  /\ \A i \in Planned : calls[i].status # "none" =>
       i <= (IF manifest = NoFile THEN 0 ELSE Len(manifest.attempts)) + 1
  /\ report # NoReport =>
       /\ manifest.phase = "complete" /\ manifest.attempts = report.attempts
       /\ Len(report.attempts) = Len(Plan)
       /\ \A i \in Planned :
            /\ report.attempts[i].outcome = "completed" =>
                 calls[i] = Served("completed", report.attempts[i].cost)
            /\ report.attempts[i].outcome = "denied" => calls[i].status \in {"denied", "none"}
       /\ \A i \in report.covered : calls[i].status = "completed"
=============================================================================
