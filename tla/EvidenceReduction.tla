-------------------------- MODULE EvidenceReduction --------------------------
(* What the evidence of a reliability run is judged by: the accepted snapshot  *)
(* of its tables (readEvidenceClosureRows) is reduced to a verdict, twice over,*)
(* without a look at what the run decided of itself (evidenceSettlementClosure,*)
(* authoritativeEvidence and finalEvidenceClosure).  Files, digests, receipts, *)
(* replays and costs are left out: RunClosure has the stages they belong to.   *)
EXTENDS ReliabilityRun

PrimitiveEntered(c) == run.token[c] = "entered"
PreDispatchProof(c) == run.token[c] = "canceled"
Untokened(c) == run.token[c] = "none"

\* The rows a terminal state has to come with.
RowsMatch(c) ==
  CASE run.attempt[c] \in Usable -> execution[c] = "completed" /\ PrimitiveEntered(c)
    [] run.attempt[c] = "not_dispatched" ->
         \/ execution[c] = "none" /\ Untokened(c)
         \/ execution[c] = "failed" /\ (Untokened(c) \/ PreDispatchProof(c))
    [] run.attempt[c] = "unresolved_provider_outcome" ->
         execution[c] = "reconciliation_hold" /\ PrimitiveEntered(c)
    [] run.attempt[c] \in Nonusable -> execution[c] = "failed" /\ PrimitiveEntered(c)
    [] OTHER -> FALSE

\* A call without an admission was canceled with the gate; one that was resumed
\* has a backlog row that is done.
LifecycleValid(c) ==
  /\ execution[c] = "none" => run.attempt[c] = "not_dispatched"
  /\ execution[c] # "none" => run.backlog[c] \in {"none", "terminal"}

SnapshotComplete == \A c \in Call : RowsMatch(c) /\ LifecycleValid(c)

\* Of every lookup: committed, terminal or canceled_terminal.
LookupsFinal == ~missed /\ \A c \in Call : looking[c] = "none"

AcceptedSnapshotAuthority ==
  /\ run.control # "failed" /\ run.gate = Cardinality(Call)
  /\ \A l \in Lane : run.held[l] = {}
  /\ LookupsFinal
  /\ Exposure({c \in Call : run.attempt[c] = "unresolved_provider_outcome"}) = 0

Ended(states) == Cardinality({c \in Call : run.attempt[c] \in states})

\* The strict report: 99 of 100 calls, and the one that may be lost is accounted for.
StrictReport ==
  /\ \A c \in Call : RowsMatch(c)
  /\ Ended(Usable) >= Cardinality(Call) - 1
  /\ Ended({"not_dispatched", "unresolved_provider_outcome"}) = 0
  /\ Ended(Nonusable) <= 1

EvidencePasses == SnapshotComplete /\ AcceptedSnapshotAuthority /\ StrictReport

-----------------------------------------------------------------------------
(* Every call is decided, nobody looks any further, and the lanes gave back    *)
(* the work they had claimed.                                                  *)
Concluded ==
  /\ run.control = "active" /\ Open(run) = {}
  /\ \A c \in Call : looking[c] = "none" /\ run.backlog[c] # "claimed"

(* The gate a run steers by and the evidence it is judged by are two pieces of *)
(* code over the same tables.  When the gate lets a run reach its end, the     *)
(* evidence passes, however its calls were lost, looked up, resumed and        *)
(* decided: unless a lookup of it failed on the way, whatever came of it.      *)
GateAgreesWithEvidence == Concluded /\ ~missed => EvidencePasses
=============================================================================
