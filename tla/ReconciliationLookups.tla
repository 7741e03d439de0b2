------------------------ MODULE ReconciliationLookups ------------------------
(* How one ambiguous call of a reliability run is found out: lookups at fixed  *)
(* offsets from the moment it became ambiguous, each to be started within a    *)
(* second and finished within its deadlines, by the reconcile command, which   *)
(* may run more than once at a time and be started again after it died; at     *)
(* most one lookup decides the call, and the cutoff after the last gives it up *)
(* (protocolStore, executeConcurrentReconciliation, planReconciliationMutation)*)
EXTENDS Naturals

CONSTANTS
  Reconciler,   \* invocations of the reconcile command
  LastOffset,   \* number of offsets
  Answers       \* what the provider may answer: [kind, binding]

ASSUME LookupsAssumption == LastOffset \in Nat \ {0}

Offsets == 1..LastOffset

VARIABLES
  clock,      \* even in the start window of an offset or of the cutoff, odd between
  generation, \* the generation id of the call is known
  active,     \* state of the control row
  outcome,    \* the call: "pending", or what it was found to be
  phase,      \* rows of reliability_reconciliation_attempts
  evidence,   \* rows of reliability_reconciliation_evidence
  reconciler  \* what each command is doing, and at which offset
lookupVars == <<clock, generation, active, outcome, phase, evidence, reconciler>>

Window(offset) == 2 * offset
CutoffWindow == Window(LastOffset + 1)

NoEvidence == [answer |-> [kind |-> "none", binding |-> "none"], accepted |-> FALSE]

LookupsInit ==
  /\ clock = 1 /\ generation \in BOOLEAN /\ active = TRUE
  /\ outcome = "pending"
  /\ \E row \in {"absent", "scheduled"} : phase = [o \in Offsets |-> row]
  /\ evidence = [o \in Offsets |-> NoEvidence]
  /\ reconciler = [x \in Reconciler |-> [at |-> "new", offset |-> 1]]

Is(x, place) == reconciler[x].at = place
Turn(x, place) == reconciler' = [reconciler EXCEPT ![x].at = place]

NextOffset(x) ==
  reconciler' = [reconciler EXCEPT ![x] =
    IF @.offset < LastOffset THEN [at |-> "schedule", offset |-> @.offset + 1]
    ELSE [at |-> "cutoff", offset |-> LastOffset]]

Phased(offset, name) == phase' = [phase EXCEPT ![offset] = name]

-----------------------------------------------------------------------------
(* The timeline of one command, offset by offset.  The rows may be there from  *)
(* the moment the call became ambiguous.                                       *)
StartReconcile(x) ==
  /\ Is(x, "new")
  /\ Turn(x, IF outcome = "pending" THEN "schedule" ELSE "ended")
  /\ UNCHANGED <<clock, generation, active, outcome, phase, evidence>>

ScheduleReconciliation(x) ==
  /\ Is(x, "schedule")
  /\ phase' = [phase EXCEPT ![reconciler[x].offset] = IF @ = "absent" THEN "scheduled" ELSE @]
  /\ Turn(x, "authorize")
  /\ UNCHANGED <<clock, generation, active, outcome, evidence>>

AuthorizeReconciliationOffset(x) ==
  LET o == reconciler[x].offset
  IN /\ Is(x, "authorize")
     /\ IF phase[o] \in {"scheduled", "authorized"}
        THEN Phased(o, "authorized") /\ Turn(x, "wait")
        ELSE Turn(x, "failing") /\ UNCHANGED phase
     /\ UNCHANGED <<clock, generation, active, outcome, evidence>>

Startable(o) ==
  /\ active /\ clock = Window(o)
  /\ phase[o] \in {"scheduled", "authorized", "running"}

BeginReconciliationLookup(x) ==
  LET o == reconciler[x].offset
  IN /\ Is(x, "wait") /\ clock >= Window(o)
     /\ IF Startable(o)
        THEN Phased(o, "running") /\ Turn(x, IF generation THEN "asking" ELSE "answered")
        ELSE Turn(x, "failing") /\ UNCHANGED phase
     /\ UNCHANGED <<clock, generation, active, outcome, evidence>>

\* A row that was decided keeps its phase; any other is failed, whatever it was.
FailReconciliationOffset(x) ==
  LET o == reconciler[x].offset
  IN /\ Is(x, "failing")
     /\ phase' = [phase EXCEPT ![o] = IF @ \in {"terminal", "canceled_terminal"} THEN @ ELSE "failed"]
     /\ NextOffset(x)
     /\ UNCHANGED <<clock, generation, active, outcome, evidence>>

FinishReconciliationLookup(x) ==
  LET o == reconciler[x].offset
  IN /\ Is(x, "answered") \/ Is(x, "decided")
     /\ IF phase[o] \notin {"running", "committed", "terminal"} THEN Turn(x, "failing")
        ELSE IF Is(x, "decided") THEN Turn(x, "ended")
        ELSE NextOffset(x)
     /\ UNCHANGED <<clock, generation, active, outcome, phase, evidence>>

-----------------------------------------------------------------------------
(* applyAuthoritativeReconciliation.  Evidence is accepted when it names what  *)
(* earlier evidence named, and is kept even when its lookup was late.          *)
SameBinding(answer) ==
  \A o \in Offsets : evidence[o].accepted => evidence[o].answer.binding = answer.binding

Accepted(answer) ==
  answer.kind \in {"canceled", "response", "no_response"} /\ SameBinding(answer)

\* Before the last offset a call without a response may still get one.
OutcomeAt(kind, o) ==
  CASE kind = "canceled" -> "reconciled_not_billed"
    [] kind = "response" -> "reconciled_billed_with_response"
    [] kind = "no_response" /\ o = LastOffset -> "reconciled_billed_no_response"
    [] OTHER -> "pending"

\* Faulty: a lookup does not stop the later ones.
NeverDecided == FALSE

Decided == outcome # "pending"

Cancel(offsets) ==
  phase' = [o \in Offsets |->
    IF o \in offsets /\ phase[o] = "scheduled" THEN "canceled_terminal" ELSE phase[o]]

\* The deadlines of 30, 5, 15 and 5 seconds end before the next offset starts.
Persist(x, answer, late) ==
  LET o == reconciler[x].offset
      row == [answer |-> answer, accepted |-> Accepted(answer)]
      found == IF row.accepted /\ ~late THEN OutcomeAt(answer.kind, o) ELSE "pending"
  IN /\ evidence[o] \in {NoEvidence, row}
     /\ evidence' = [evidence EXCEPT ![o] = row]
     /\ outcome' = found
     /\ active' = (active /\ ~late /\ answer.kind # "drift")
     /\ IF found = "pending"
        THEN Phased(o, "committed") /\ Turn(x, "answered")
        ELSE /\ phase' = [p \in Offsets |->
                  IF p = o THEN "terminal"
                  ELSE IF p > o /\ phase[p] = "scheduled" THEN "canceled_terminal" ELSE phase[p]]
             /\ Turn(x, "decided")

ApplyLookupAnswer(x) ==
  /\ Is(x, "asking")
  /\ IF Decided
     THEN Turn(x, "decided") /\ UNCHANGED <<active, outcome, phase, evidence>>
     ELSE \E answer \in Answers, late \in {l \in BOOLEAN : clock > Window(reconciler[x].offset) + 1 => l} :
            Persist(x, answer, late)
  /\ UNCHANGED <<clock, generation>>

\* A GET times out or is refused, or evidence that differs from what the other
\* command stored for this offset is a conflict.
LookupThrows(x) ==
  /\ reconciler[x].at \in {"asking", "wait"}
  /\ Turn(x, "failing")
  /\ UNCHANGED <<clock, generation, active, outcome, phase, evidence>>

\* The cutoff is an operation with a start window of its own; a call whose
\* generation id is not known is refused by planReconciliationMutation.
ApplyCutoff(x) ==
  /\ Is(x, "cutoff") /\ clock >= CutoffWindow
  /\ Turn(x, "ended")
  /\ \/ /\ ~Decided /\ generation /\ clock = CutoffWindow
        /\ outcome' = "unresolved_provider_outcome" /\ active' = FALSE /\ Cancel(Offsets)
     \/ /\ ~Decided /\ generation
        /\ active' = FALSE /\ UNCHANGED <<outcome, phase>>
     \/ /\ Decided \/ ~generation
        /\ UNCHANGED <<active, outcome, phase>>
  /\ UNCHANGED <<clock, generation, evidence>>

-----------------------------------------------------------------------------
ReconcilerDies(x) ==
  /\ ~Is(x, "new") /\ ~Is(x, "ended")
  /\ Turn(x, "ended")
  /\ UNCHANGED <<clock, generation, active, outcome, phase, evidence>>

RunFails ==
  /\ active /\ active' = FALSE
  /\ UNCHANGED <<clock, generation, outcome, phase, evidence, reconciler>>

TimePasses ==
  /\ clock <= CutoffWindow
  /\ clock' = clock + 1
  /\ UNCHANGED <<generation, active, outcome, phase, evidence, reconciler>>

LookupsNext ==
  \/ \E x \in Reconciler :
       \/ StartReconcile(x) \/ ScheduleReconciliation(x) \/ AuthorizeReconciliationOffset(x)
       \/ BeginReconciliationLookup(x) \/ ApplyLookupAnswer(x) \/ LookupThrows(x)
       \/ FailReconciliationOffset(x) \/ FinishReconciliationLookup(x)
       \/ ApplyCutoff(x) \/ ReconcilerDies(x)
  \/ RunFails \/ TimePasses

LookupsSpec == LookupsInit /\ [][LookupsNext]_lookupVars

-----------------------------------------------------------------------------
(* One lookup decides a call.  However commands overlap, die and are started   *)
(* again: what was accepted about the call is about one provider request; the  *)
(* outcome is what the evidence of one offset says, the one whose row is       *)
(* terminal, and nothing was gathered at a later one; and evidence that would  *)
(* decide the call has decided it, or came too late and failed the run.        *)
OneLookupDecides ==
  /\ \A o, p \in Offsets : evidence[o].accepted /\ evidence[p].accepted =>
       evidence[o].answer.binding = evidence[p].answer.binding
  /\ \A o \in Offsets : phase[o] = "terminal" =>
       /\ evidence[o].accepted /\ OutcomeAt(evidence[o].answer.kind, o) = outcome
       /\ \A p \in Offsets : p > o => evidence[p] = NoEvidence
  /\ outcome \notin {"pending", "unresolved_provider_outcome"} =>
       \E o \in Offsets : phase[o] = "terminal"
  /\ \A o \in Offsets : evidence[o].accepted /\ OutcomeAt(evidence[o].answer.kind, o) # "pending" =>
       phase[o] = "terminal" \/ ~active
  /\ outcome = "unresolved_provider_outcome" => ~active
=============================================================================
