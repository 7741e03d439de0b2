-------------------------- MODULE ReliabilityProofs --------------------------
(***************************************************************************)
(* A reliability run, for any sealed schedule, any cap and any burst lane:  *)
(* the gate it steers by, the order of its lanes, the exposure of its       *)
(* dispatches, the end of a failed run, and the evidence it is judged by.   *)
(*                                                                          *)
(* One inductive invariant, RunInv, carries all of them.  Its parts:        *)
(*   - Sound: the rows and the dispatcher of a call agree, the counters     *)
(*     count, barriers and exposure hold, a lane is single-flight, a failed *)
(*     run waits for nobody and an active one lost its owner at most;       *)
(*   - LanesAt: what the runner was given to do in a lane neither started   *)
(*     nor was queued, and what the lane holds, queues and works on.        *)
(* Both are operators on the tables, the rows and the dispatchers, so that  *)
(* a transaction is a lemma about the record it returns.  A step of a call  *)
(* is proved by the ...Sound and ...Quietly lemmas, a step of the runner by *)
(* a ...Keeps lemma.                                                        *)
(***************************************************************************)
EXTENDS EvidenceReduction, AmountsProofs, WellFoundedInduction

-----------------------------------------------------------------------------
(* A reliability run, for any schedule, cap and burst lane.                   *)

LaneStates == {"ready", "held", "resume_pending", "resuming", "failed"}
TokenStates == {"none", "live", "entered", "canceled"}
BacklogStates == {"none", "queued", "claimed", "terminal"}
BarrierStates == {"none", "preparing", "released", "canceled"}
RowStates == {"none", "executing", "completed", "failed", "reconciliation_hold"}
Answered == {"sent", "answered", "ambiguous", "lost", "rejected"}
DispatchStates == Answered \union
  {"idle", "called", "admitted", "authorized", "entering", "unsent", "kept", "holding",
   "succeeded", "failed"}

(* The protocol tables of a run, and what the run keeps beside them. *)
Tables ==
  [control : {"active", "failed"}, gate : Nat, usable : Nat, owner : Call \union {NoCall},
   lane : [Lane -> LaneStates], held : [Lane -> SUBSET Call],
   attempt : [Call -> AttemptStates], generation : [Call -> BOOLEAN],
   token : [Call -> TokenStates], backlog : [Call -> BacklogStates],
   barrier : [Block -> [state : BarrierStates, planned : SUBSET Call]]]

RunTyped ==
  /\ plan \in Plans
  /\ run \in Tables
  /\ execution \in [Call -> RowStates]
  /\ dispatcher \in [Call -> DispatchStates]
  /\ looking \in [Call -> {"none", "early", "last"}]
  /\ block \in Nat
  /\ runner \in [Lane -> [stage : {"idle", "enqueue", "work", "rest", "stopped"},
                          todo : SUBSET Call, queued : BOOLEAN]]

(* What the attempt, the token, the execution row and the dispatcher of one   *)
(* call say agrees: which of them was written last is known from the others.  *)
CallAgrees(a, t, e, d) ==
  /\ a \in Usable <=> e = "completed"
  /\ a = "planned" => e = "none"
  /\ a \in {"admission_started", "dispatch_authorized"} => e = "executing"
  /\ a \in {"primitive_entered", "reconciliation_pending"} =>
       e \in {"executing", "reconciliation_hold"}
  /\ a = "not_dispatched" => e \in {"none", "executing", "failed"}
  /\ a = "unresolved_provider_outcome" => e = "reconciliation_hold"
  /\ a \in Nonusable => e = "failed"
  /\ t = "none" => a \in {"planned", "admission_started", "not_dispatched"}
  /\ t = "live" => a \in {"dispatch_authorized", "not_dispatched"}
  /\ t = "canceled" => a = "not_dispatched"
  /\ t = "entered" =>
       a \notin {"planned", "admission_started", "dispatch_authorized", "not_dispatched"}
  /\ d \in {"idle", "called"} => t = "none" /\ a # "admission_started" /\ e = "none"
  /\ d = "admitted" => t = "none" /\ e = "executing"
  /\ d \in {"authorized", "entering", "unsent"} =>
       t # "none" /\ (t = "live" => a = "dispatch_authorized")
  /\ d \in {"authorized", "entering"} => t # "entered"
  /\ d = "unsent" /\ t = "entered" => a = "primitive_entered"
  /\ d \in Answered => t = "entered" /\ a = "primitive_entered" /\ e = "executing"
  /\ d = "kept" => t = "entered" /\ a = "primitive_entered" /\ e = "reconciliation_hold"
  /\ d = "holding" => t = "entered" /\ a # "primitive_entered"
  /\ d = "succeeded" => a = "completed_verified"

CallsAgree(r, x, d) ==
  \A c \in Call : CallAgrees(r.attempt[c], r.token[c], x[c], d[c])

Finished(r) == Call \ Open(r)
UsableCalls(r) == {c \in Call : r.attempt[c] \in Usable}

Counted(r) == r.gate = Cardinality(Finished(r)) /\ r.usable = Cardinality(UsableCalls(r))

Of(l) == {c \in Call : plan[c].lane = l}

(* A burst call that was started is planned in the barrier of its block, and   *)
(* reaches the provider after the barrier let all of them through.             *)
BarriersHold(r, d) ==
  /\ \A c \in Of(Burst) : d[c] # "idle" => c \in r.barrier[plan[c].block].planned
  /\ \A b \in Block : \A c \in r.barrier[b].planned :
       /\ c \in Of(Burst) /\ plan[c].block = b /\ d[c] # "idle"
       /\ r.barrier[b].state = "released" => r.token[c] # "none"
  /\ \A c \in Of(Burst) : r.token[c] = "entered" => Released(r, c)

Dispatched(r) == {c \in Call : r.token[c] \in {"live", "entered"}}

Capped(r) == Exposure(Dispatched(r) \cap Open(r)) <= Cap

PendingHeld(r) ==
  \A c \in Call : r.attempt[c] = "reconciliation_pending" => c \in r.held[plan[c].lane]

SingleFlight(r, x) ==
  \A c, d \in Call :
    /\ plan[c].lane # Burst /\ plan[d].lane = plan[c].lane /\ d < c
    /\ x[c] # "none" /\ x[d] # "none"
    => d \notin Open(r)

Quiescent(r) ==
  r.control = "failed" =>
    \A c \in Open(r) : /\ r.token[c] \in {"live", "entered"}
                       /\ plan[c].lane = Burst => Released(r, c)

Lost(r) == {c \in Call : r.attempt[c] \in Terminals \ Usable}

OneLost(r) ==
  r.control = "active" => \A c \in Lost(r) : c = r.owner /\ r.attempt[c] \in Nonusable

Steady(r, x, d) ==
  /\ CallsAgree(r, x, d) /\ Counted(r) /\ BarriersHold(r, d) /\ Capped(r)
  /\ PendingHeld(r) /\ SingleFlight(r, x) /\ Quiescent(r)

Sound(r, x, d) == Steady(r, x, d) /\ OneLost(r)

(* Calls are the numbers of a finite schedule. *)
LEMMA PlanFacts ==
  ASSUME plan \in Plans
  PROVE  /\ IsFiniteSet(Call) /\ Call \subseteq Nat /\ NoCall \notin Call
         /\ \A c \in Call : /\ plan[c].lane \in Lane /\ plan[c].block \in Block
                            /\ plan[c].block \in Nat /\ plan[c].reserved \in Amount
         /\ \A c, d \in Call : c < d => plan[c].block <= plan[d].block
<1> DEFINE Row == [lane : {plan[c].lane : c \in DOMAIN plan}, block : Nat, reserved : Amount]
<1>1. plan \in Seq(Row)
  BY PlansAssumption
<1> HIDE DEF Row
<1>2. Len(plan) \in Nat /\ DOMAIN plan = 1 .. Len(plan)
  BY <1>1
<1>3. \A c \in DOMAIN plan : plan[c] \in Row
  BY <1>1, <1>2
<1>4. IsFiniteSet(Call) /\ Call \subseteq Nat /\ NoCall \notin Call
  BY <1>2, FS_Interval, PlansAssumption DEF Call
<1>5. \A c, d \in Call : c < d => plan[c].block <= plan[d].block
  BY PlansAssumption DEF Call
<1> USE DEF Row
<1> QED
  BY <1>3, <1>4, <1>5 DEF Call, Lane, Block

LEMMA ClassifiedFields ==
  ASSUME plan \in Plans, NEW r \in Tables, NEW cs \in SUBSET Call, NEW state \in Terminals
  PROVE  LET s == Classified(r, cs, state) IN
         /\ s \in Tables
         /\ s.control = r.control /\ s.owner = r.owner /\ s.lane = r.lane /\ s.held = r.held
         /\ s.token = r.token /\ s.backlog = r.backlog /\ s.barrier = r.barrier
         /\ s.generation = r.generation
         /\ s.gate = r.gate + Cardinality(cs)
         /\ s.usable = r.usable + (IF state \in Usable THEN Cardinality(cs) ELSE 0)
         /\ \A c \in Call : s.attempt[c] = IF c \in cs THEN state ELSE r.attempt[c]
         /\ Open(s) = Open(r) \ cs
<1> DEFINE s == Classified(r, cs, state)
<1>1. Cardinality(cs) \in Nat
  BY PlanFacts, FS_Subset, FS_CardinalityType
<1>2. state \in AttemptStates
  BY DEF AttemptStates
<1>3. [c \in Call |-> IF c \in cs THEN state ELSE r.attempt[c]] \in [Call -> AttemptStates]
  BY <1>2 DEF Tables
<1>4. /\ s.control = r.control /\ s.owner = r.owner /\ s.lane = r.lane /\ s.held = r.held
      /\ s.token = r.token /\ s.backlog = r.backlog /\ s.barrier = r.barrier
      /\ s.generation = r.generation
      /\ s.gate = r.gate + Cardinality(cs)
      /\ s.usable = r.usable + (IF state \in Usable THEN Cardinality(cs) ELSE 0)
      /\ s.attempt = [c \in Call |-> IF c \in cs THEN state ELSE r.attempt[c]]
  BY DEF Classified, Tables
<1>5. r.gate \in Nat /\ r.usable \in Nat
  BY DEF Tables
<1>6. s.gate \in Nat /\ s.usable \in Nat
  BY <1>1, <1>4, <1>5
<1>7. s \in Tables
  BY <1>3, <1>4, <1>6 DEF Classified, Tables
<1>8. Open(s) = Open(r) \ cs
  BY <1>4 DEF Open
<1> QED
  BY <1>4, <1>7, <1>8

LEMMA CanceledFields ==
  ASSUME plan \in Plans, NEW r \in Tables
  PROVE  LET s == Canceled(r) IN
         /\ s \in Tables
         /\ s.control = "failed" /\ s.owner = r.owner /\ s.lane = r.lane /\ s.held = r.held
         /\ s.attempt = r.attempt /\ s.backlog = r.backlog /\ s.generation = r.generation
         /\ s.gate = r.gate /\ s.usable = r.usable
         /\ \A c \in Call : s.token[c] = IF r.token[c] = "live" /\ ~Protected(r, c)
                                         THEN "canceled" ELSE r.token[c]
         /\ \A b \in Block : /\ s.barrier[b].planned = r.barrier[b].planned
                             /\ s.barrier[b].state = "released" <=> r.barrier[b].state = "released"
<1> DEFINE s == Canceled(r)
           tokens == [c \in Call |-> IF r.token[c] = "live" /\ ~Protected(r, c)
                                     THEN "canceled" ELSE r.token[c]]
           barriers == [b \in Block |-> IF r.barrier[b].state = "preparing"
                                        THEN [r.barrier[b] EXCEPT !.state = "canceled"]
                                        ELSE r.barrier[b]]
<1>1. tokens \in [Call -> TokenStates]
  BY DEF Tables, TokenStates
<1>2. \A b \in Block : r.barrier[b] \in [state : BarrierStates, planned : SUBSET Call]
  BY DEF Tables
<1>3. barriers \in [Block -> [state : BarrierStates, planned : SUBSET Call]]
  BY <1>2 DEF BarrierStates
<1>4. s = [r EXCEPT !.control = "failed", !.token = tokens, !.barrier = barriers]
  BY DEF Canceled
<1>5. \A b \in Block : /\ barriers[b].planned = r.barrier[b].planned
                       /\ barriers[b].state = "released" <=> r.barrier[b].state = "released"
  BY <1>2
<1>6. \A c \in Call : tokens[c] = IF r.token[c] = "live" /\ ~Protected(r, c)
                                  THEN "canceled" ELSE r.token[c]
  OBVIOUS
<1> HIDE DEF tokens, barriers, s
<1>7. s \in Tables
  BY <1>1, <1>3, <1>4 DEF Tables
<1> QED
  BY <1>4, <1>5, <1>6, <1>7 DEF Tables, s

LEMMA FailedFields ==
  ASSUME plan \in Plans, NEW r \in Tables, r.control = "active"
  PROVE  LET s == Failed(r) IN
         /\ s \in Tables
         /\ s.control = "failed" /\ s.owner = r.owner /\ s.lane = r.lane /\ s.held = r.held
         /\ s.backlog = r.backlog
         /\ s.gate = r.gate + Cardinality({c \in Open(r) : ~Protected(r, c)})
         /\ s.usable = r.usable
         /\ \A c \in Call : s.token[c] = IF r.token[c] = "live" /\ ~Protected(r, c)
                                         THEN "canceled" ELSE r.token[c]
         /\ \A c \in Call : s.attempt[c] = IF c \in Open(r) /\ ~Protected(r, c)
                                           THEN "not_dispatched" ELSE r.attempt[c]
         /\ Open(s) = Open(r) \ {c \in Open(r) : ~Protected(r, c)}
         /\ \A b \in Block : /\ s.barrier[b].planned = r.barrier[b].planned
                             /\ s.barrier[b].state = "released" <=> r.barrier[b].state = "released"
<1> DEFINE lost == {c \in Open(r) : ~Protected(r, c)}
<1>1. lost \in SUBSET Call /\ "not_dispatched" \in Terminals /\ "not_dispatched" \notin Usable
  BY DEF Open, Terminals, Usable
<1>2. Failed(r) = Classified(Canceled(r), lost, "not_dispatched")
  BY DEF Failed
<1>3. Canceled(r) \in Tables /\ Canceled(r).attempt = r.attempt
  BY CanceledFields
<1>4. Open(Canceled(r)) = Open(r)
  BY <1>3 DEF Open
<1>5. \A c \in Call : c \in lost <=> c \in Open(r) /\ ~Protected(r, c)
  OBVIOUS
<1>6. r.usable \in Nat
  BY DEF Tables
<1> DEFINE k == Canceled(r)
           s == Classified(k, lost, "not_dispatched")
<1>7. /\ k \in Tables /\ k.control = "failed" /\ k.owner = r.owner /\ k.lane = r.lane
      /\ k.held = r.held /\ k.backlog = r.backlog /\ k.gate = r.gate /\ k.usable = r.usable
      /\ \A c \in Call : k.token[c] = IF r.token[c] = "live" /\ ~Protected(r, c)
                                      THEN "canceled" ELSE r.token[c]
      /\ \A b \in Block : /\ k.barrier[b].planned = r.barrier[b].planned
                          /\ k.barrier[b].state = "released" <=> r.barrier[b].state = "released"
  BY CanceledFields
<1>8. Failed(r) = s /\ k.attempt = r.attempt /\ Open(k) = Open(r)
  BY <1>2, <1>3, <1>4
<1> HIDE DEF k
<1>9. /\ s \in Tables
      /\ s.control = k.control /\ s.owner = k.owner /\ s.lane = k.lane /\ s.held = k.held
      /\ s.token = k.token /\ s.backlog = k.backlog /\ s.barrier = k.barrier
      /\ s.gate = k.gate + Cardinality(lost)
      /\ s.usable = k.usable + (IF "not_dispatched" \in Usable THEN Cardinality(lost) ELSE 0)
      /\ \A c \in Call : s.attempt[c] = IF c \in lost THEN "not_dispatched" ELSE k.attempt[c]
      /\ Open(s) = Open(k) \ lost
  <2> HIDE DEF lost
  <2> QED
    BY <1>1, <1>7, ClassifiedFields
<1> HIDE DEF s
<1>10. s.usable = r.usable
  BY <1>1, <1>6, <1>7, <1>9
<1>11. \A c \in Call : /\ s.token[c] = IF r.token[c] = "live" /\ ~Protected(r, c)
                                       THEN "canceled" ELSE r.token[c]
                       /\ s.attempt[c] = IF c \in Open(r) /\ ~Protected(r, c)
                                         THEN "not_dispatched" ELSE r.attempt[c]
  BY <1>5, <1>7, <1>8, <1>9
<1>12. \A b \in Block : /\ s.barrier[b].planned = r.barrier[b].planned
                        /\ s.barrier[b].state = "released" <=> r.barrier[b].state = "released"
  BY <1>7, <1>9
<1> QED
  BY <1>7, <1>8, <1>9, <1>10, <1>11, <1>12

LEMMA RemovedFields ==
  ASSUME plan \in Plans, NEW r \in Tables, NEW c \in Call, NEW state
  PROVE  LET s == Removed(r, c, state)
             m == plan[c].lane
         IN
         /\ s \in Tables
         /\ s.control = r.control /\ s.owner = r.owner /\ s.attempt = r.attempt
         /\ s.token = r.token /\ s.backlog = r.backlog /\ s.barrier = r.barrier
         /\ s.gate = r.gate /\ s.usable = r.usable
         /\ s.held[m] = r.held[m] \ {c}
         /\ \A l \in Lane : l # m => s.held[l] = r.held[l] /\ s.lane[l] = r.lane[l]
         /\ c \in r.held[m] /\ s.held[m] = {} /\ state = "active" => s.lane[m] = "resume_pending"
         /\ c \notin r.held[m] \/ s.held[m] # {} => s.lane[m] = r.lane[m]
<1> DEFINE m == plan[c].lane
           rest == r.held[m] \ {c}
           free == IF rest # {} THEN r.lane[m]
                   ELSE IF state = "active" THEN "resume_pending" ELSE "failed"
<1>1. m \in Lane
  BY PlanFacts
<1>2. CASE c \notin r.held[m]
  <2>1. Removed(r, c, state) = r
    BY <1>2 DEF Removed
  <2>2. r.held[m] \ {c} = r.held[m]
    BY <1>2
  <2>3. r.held \in [Lane -> SUBSET Call] /\ r.lane \in [Lane -> LaneStates]
    BY DEF Tables
  <2> QED
    BY <1>1, <1>2, <2>1, <2>2, <2>3
<1>3. CASE c \in r.held[m]
  <2> DEFINE held == [r.held EXCEPT ![m] = rest]
             lane == [r.lane EXCEPT ![m] = free]
  <2>1. Removed(r, c, state) = [r EXCEPT !.held = held, !.lane = lane]
    BY <1>3 DEF Removed
  <2>2. rest \in SUBSET Call /\ free \in LaneStates
    BY <1>1 DEF Tables, LaneStates
  <2>3. free = IF c \in r.held[m] /\ rest = {}
               THEN IF state = "active" THEN "resume_pending" ELSE "failed"
               ELSE r.lane[m]
    BY <1>3
  <2> HIDE DEF free, rest
  <2>4. /\ held \in [Lane -> SUBSET Call] /\ lane \in [Lane -> LaneStates]
        /\ \A l \in Lane : /\ held[l] = IF l = m THEN rest ELSE r.held[l]
                           /\ lane[l] = IF l = m THEN free ELSE r.lane[l]
    BY <1>1, <2>2 DEF Tables
  <2> HIDE DEF held, lane
  <2> DEFINE u == [r EXCEPT !.held = held]
  <2>5. LET s == Removed(r, c, state) IN
        /\ s \in Tables /\ s.held = held /\ s.lane = lane
        /\ s.control = r.control /\ s.owner = r.owner /\ s.attempt = r.attempt
        /\ s.token = r.token /\ s.backlog = r.backlog /\ s.barrier = r.barrier
        /\ s.gate = r.gate /\ s.usable = r.usable
    <3>1. /\ u \in Tables /\ u.held = held /\ u.lane = r.lane
          /\ u.control = r.control /\ u.owner = r.owner /\ u.attempt = r.attempt
          /\ u.token = r.token /\ u.backlog = r.backlog /\ u.barrier = r.barrier
          /\ u.gate = r.gate /\ u.usable = r.usable
      BY <2>4 DEF Tables
    <3>2. Removed(r, c, state) = [u EXCEPT !.lane = lane]
      BY <2>1
    <3> HIDE DEF u
    <3> QED
      BY <2>4, <3>1, <3>2 DEF Tables
  <2> QED
    BY <1>1, <1>3, <2>3, <2>4, <2>5 DEF rest, held, lane
<1> QED
  BY <1>2, <1>3

LEMMA HoldingFields ==
  ASSUME plan \in Plans, NEW r \in Tables, NEW c \in Call
  PROVE  LET s == Holding(r, c)
             m == plan[c].lane
         IN
         /\ s \in Tables
         /\ s.control = r.control /\ s.owner = r.owner /\ s.attempt = r.attempt
         /\ s.token = r.token /\ s.backlog = r.backlog /\ s.barrier = r.barrier
         /\ s.gate = r.gate /\ s.usable = r.usable
         /\ \A l \in Lane : l # m => s.held[l] = r.held[l] /\ s.lane[l] = r.lane[l]
         /\ r.held[m] # {} => s.held[m] = r.held[m] \union {c} /\ s.lane[m] = r.lane[m]
         /\ r.held[m] = {} => s.held[m] = Companions(r, c) /\ s.lane[m] = "held"
<1> DEFINE m == plan[c].lane
           more == Companions(r, c)
<1>1. m \in Lane
  BY PlanFacts
<1>2. more \in SUBSET Call
  BY DEF Companions, Open
<1> HIDE DEF more
<1>3. CASE r.held[m] # {}
  <2> DEFINE held == [r.held EXCEPT ![m] = r.held[m] \union {c}]
  <2>1. Holding(r, c) = [r EXCEPT !.held = held]
    BY <1>3 DEF Holding
  <2>2. /\ held \in [Lane -> SUBSET Call]
        /\ \A l \in Lane : held[l] = IF l = m THEN r.held[l] \union {c} ELSE r.held[l]
    BY <1>1 DEF Tables
  <2> HIDE DEF held
  <2>3. LET s == Holding(r, c) IN
        /\ s \in Tables /\ s.held = held /\ s.lane = r.lane
        /\ s.control = r.control /\ s.owner = r.owner /\ s.attempt = r.attempt
        /\ s.token = r.token /\ s.backlog = r.backlog /\ s.barrier = r.barrier
        /\ s.gate = r.gate /\ s.usable = r.usable
    BY <2>1, <2>2 DEF Tables
  <2> QED
    BY <1>1, <1>3, <2>2, <2>3
<1>4. CASE r.held[m] = {}
  <2> DEFINE held == [r.held EXCEPT ![m] = more]
             lane == [r.lane EXCEPT ![m] = "held"]
  <2>1. Holding(r, c) = [r EXCEPT !.held = held, !.lane = lane]
    BY <1>4 DEF Holding, more
  <2>2. /\ held \in [Lane -> SUBSET Call] /\ lane \in [Lane -> LaneStates]
        /\ \A l \in Lane : /\ held[l] = IF l = m THEN more ELSE r.held[l]
                           /\ lane[l] = IF l = m THEN "held" ELSE r.lane[l]
    BY <1>1, <1>2 DEF Tables, LaneStates
  <2> HIDE DEF held, lane
  <2> DEFINE u == [r EXCEPT !.held = held]
  <2>3. LET s == Holding(r, c) IN
        /\ s \in Tables /\ s.held = held /\ s.lane = lane
        /\ s.control = r.control /\ s.owner = r.owner /\ s.attempt = r.attempt
        /\ s.token = r.token /\ s.backlog = r.backlog /\ s.barrier = r.barrier
        /\ s.gate = r.gate /\ s.usable = r.usable
    <3>1. /\ u \in Tables /\ u.held = held /\ u.lane = r.lane
          /\ u.control = r.control /\ u.owner = r.owner /\ u.attempt = r.attempt
          /\ u.token = r.token /\ u.backlog = r.backlog /\ u.barrier = r.barrier
          /\ u.gate = r.gate /\ u.usable = r.usable
      BY <2>2 DEF Tables
    <3>2. Holding(r, c) = [u EXCEPT !.lane = lane]
      BY <2>1
    <3> HIDE DEF u
    <3> QED
      BY <2>2, <3>1, <3>2 DEF Tables
  <2> QED
    BY <1>1, <1>4, <2>2, <2>3 DEF more
<1> QED
  BY <1>3, <1>4

LEMMA OwnedFields ==
  ASSUME plan \in Plans, NEW r \in Tables, NEW c \in Call, NEW state
  PROVE  LET s == Owned(r, c, state) IN
         /\ s \in Tables
         /\ s.control = r.control /\ s.attempt = r.attempt /\ s.lane = r.lane /\ s.held = r.held
         /\ s.token = r.token /\ s.backlog = r.backlog /\ s.barrier = r.barrier
         /\ s.gate = r.gate /\ s.usable = r.usable
         /\ s.owner = IF state \in Nonusable /\ r.owner = NoCall THEN c ELSE r.owner
BY DEF Owned, Tables

(* What a run loses by a step that decides some calls and starts none.         *)
Follows(r, s) ==
  /\ \A c \in Call :
       /\ c \in Open(s) => c \in Open(r)
       /\ s.token[c] \in {"live", "entered"} => r.token[c] \in {"live", "entered"}
       /\ s.token[c] = "none" => r.token[c] = "none"
       /\ s.token[c] = "entered" /\ plan[c].lane = Burst =>
            r.token[c] = "entered" \/ Released(r, c)
       /\ s.attempt[c] = "reconciliation_pending" =>
            /\ r.attempt[c] = "reconciliation_pending"
            /\ c \in r.held[plan[c].lane] => c \in s.held[plan[c].lane]
  /\ \A b \in Block : /\ s.barrier[b].planned = r.barrier[b].planned
                      /\ s.barrier[b].state = "released" <=> r.barrier[b].state = "released"

LEMMA FollowsTransitive ==
  ASSUME plan \in Plans, NEW r, NEW s, NEW u, Follows(r, s), Follows(s, u)
  PROVE  Follows(r, u)
BY PlanFacts DEF Follows, Released

LEMMA ExposureMonotone ==
  ASSUME plan \in Plans, NEW A \in SUBSET Call, NEW B \in SUBSET A
  PROVE  Exposure(B) <= Exposure(A)
<1> DEFINE f == [c \in Call |-> plan[c].reserved]
<1>1. \A c \in Call : f[c] \in Nat
  BY PlanFacts, MaxAmountAssumption DEF Amount
<1>2. IsFiniteSet(Call)
  BY PlanFacts
<1> HIDE DEF f
<1>3. Total(f, B) <= Total(f, A)
  BY <1>1, <1>2, TotalWithin
<1> QED
  BY <1>3 DEF Exposure, f

LEMMA FollowsKeeps ==
  ASSUME plan \in Plans, NEW r \in Tables, NEW s \in Tables, Follows(r, s),
         NEW x, NEW y, \A c \in Call : y[c] # "none" => x[c] # "none",
         NEW d, NEW e, \A c \in Call : e[c] = "idle" <=> d[c] = "idle"
  PROVE  /\ BarriersHold(r, d) => BarriersHold(s, e)
         /\ Capped(r) => Capped(s)
         /\ PendingHeld(r) => PendingHeld(s)
         /\ SingleFlight(r, x) => SingleFlight(s, y)
         /\ s.control = r.control /\ Quiescent(r) /\ BarriersHold(r, d)
            /\ (\A c \in Open(s) : s.token[c] = "canceled" => r.token[c] = "canceled")
              => Quiescent(s)
<1>1. BarriersHold(r, d) => BarriersHold(s, e)
  BY PlanFacts DEF BarriersHold, Follows, Released, Of
<1>2. Capped(r) => Capped(s)
  <2> DEFINE A == Dispatched(r) \cap Open(r)
             B == Dispatched(s) \cap Open(s)
  <2>1. A \in SUBSET Call /\ B \in SUBSET A
    BY DEF Follows, Dispatched, Open
  <2>2. Exposure(A) \in Int /\ Exposure(B) \in Int
    <3>1. IsFiniteSet(A) /\ IsFiniteSet(B)
      BY <2>1, PlanFacts, FS_Subset
    <3> QED
      BY <3>1, UnitsFinite DEF Exposure
  <2>3. Exposure(B) <= Exposure(A)
    BY <2>1, ExposureMonotone
  <2> QED
    BY <2>2, <2>3, PlansAssumption DEF Capped
<1>3. PendingHeld(r) => PendingHeld(s)
  BY DEF PendingHeld, Follows
<1>4. SingleFlight(r, x) => SingleFlight(s, y)
  BY DEF SingleFlight, Follows
<1>5. ASSUME s.control = r.control, Quiescent(r),
             \A c \in Open(s) : s.token[c] = "canceled" => r.token[c] = "canceled"
      PROVE  Quiescent(s)
  <2>1. \A c \in Open(s) : c \in Call /\ c \in Open(r) /\ s.token[c] \in TokenStates
    BY DEF Follows, Open, Tables
  <2> QED
    BY <1>5, <2>1, PlanFacts DEF Quiescent, Follows, TokenStates, Released
<1> QED
  BY <1>1, <1>2, <1>3, <1>4, <1>5

LEMMA CountedClassified ==
  ASSUME plan \in Plans, NEW r \in Tables, NEW cs \in SUBSET Open(r), NEW state \in Terminals,
         Counted(r)
  PROVE  Counted(Classified(r, cs, state))
<1> DEFINE s == Classified(r, cs, state)
           more == IF state \in Usable THEN cs ELSE {}
<1>1. /\ cs \in SUBSET Call /\ Open(r) \subseteq Call
      /\ \A c \in cs : r.attempt[c] \notin Usable
  BY DEF Open, Terminals
<1>2. /\ s.gate = r.gate + Cardinality(cs)
      /\ s.usable = r.usable + (IF state \in Usable THEN Cardinality(cs) ELSE 0)
      /\ \A c \in Call : s.attempt[c] = IF c \in cs THEN state ELSE r.attempt[c]
      /\ Open(s) = Open(r) \ cs
  BY <1>1, ClassifiedFields
<1> HIDE DEF s
<1>3. Finished(s) = Finished(r) \union cs /\ Finished(r) \cap cs = {}
  BY <1>1, <1>2 DEF Finished
<1>4. UsableCalls(s) = UsableCalls(r) \union more /\ UsableCalls(r) \cap more = {}
  BY <1>1, <1>2 DEF UsableCalls
<1>5. /\ IsFiniteSet(Finished(r)) /\ IsFiniteSet(cs) /\ IsFiniteSet(UsableCalls(r))
      /\ IsFiniteSet(more)
  BY <1>1, PlanFacts, FS_Subset, FS_EmptySet DEF Finished, UsableCalls
<1>6. /\ Cardinality(Finished(s)) = Cardinality(Finished(r)) + Cardinality(cs)
      /\ Cardinality(UsableCalls(s)) = Cardinality(UsableCalls(r)) + Cardinality(more)
  BY <1>3, <1>4, <1>5, CardinalityDisjoint
<1>7. Cardinality(more) = IF state \in Usable THEN Cardinality(cs) ELSE 0
  BY FS_EmptySet
<1> HIDE DEF more
<1>8. Counted(s)
  BY <1>2, <1>6, <1>7 DEF Counted
<1> QED
  BY <1>8 DEF s

LEMMA CountedSame ==
  ASSUME NEW r, NEW s, Counted(r), s.gate = r.gate, s.usable = r.usable,
         \A c \in Call : \/ s.attempt[c] = r.attempt[c]
                         \/ s.attempt[c] \notin Terminals /\ r.attempt[c] \notin Terminals
  PROVE  Counted(s)
<1>1. Finished(s) = Finished(r)
  BY DEF Finished, Open
<1>2. UsableCalls(s) = UsableCalls(r)
  BY DEF UsableCalls, Terminals
<1> QED
  BY <1>1, <1>2 DEF Counted

(* A call that can no longer be dispatched agrees with its rows.               *)
LEMMA CallFails ==
  ASSUME NEW a, NEW t \in TokenStates, NEW e, NEW d, CallAgrees(a, t, e, d), t # "entered"
  PROVE  /\ a \notin Terminals =>
              CallAgrees("not_dispatched", IF t = "live" THEN "canceled" ELSE t, e, d)
         /\ a \in Terminals =>
              CallAgrees(a, IF t = "live" THEN "canceled" ELSE t, e, d)
BY DEF CallAgrees, TokenStates, Terminals, Usable, Nonusable, Answered

(* Failing a run decides every call that was not dispatched, and no other.     *)
LEMMA FailedKeeps ==
  ASSUME plan \in Plans, NEW r \in Tables, NEW x, NEW d, CallsAgree(r, x, d), Counted(r),
         BarriersHold(r, d), r.control = "failed" => Quiescent(r)
  PROVE  LET s == Failed(r) IN
         /\ s \in Tables /\ s.control = "failed"
         /\ s.lane = r.lane /\ s.held = r.held /\ s.backlog = r.backlog
         /\ CallsAgree(s, x, d) /\ Counted(s) /\ Follows(r, s) /\ Quiescent(s) /\ OneLost(s)
<1> DEFINE s == Failed(r)
<1>1. CASE r.control = "failed"
  <2>1. s = r
    BY <1>1 DEF Failed
  <2> QED
    BY <1>1, <2>1 DEF Follows, OneLost
<1>2. CASE r.control = "active"
  <2> DEFINE lost == {c \in Open(r) : ~Protected(r, c)}
             k == Canceled(r)
  <2>1. Counted(s)
    <3>1. k \in Tables /\ k.attempt = r.attempt /\ k.gate = r.gate /\ k.usable = r.usable
      BY CanceledFields
    <3>2. lost \in SUBSET Open(k) /\ "not_dispatched" \in Terminals
      BY <3>1 DEF Open, Terminals
    <3>3. Counted(k)
      BY <3>1, CountedSame
    <3>4. s = Classified(k, lost, "not_dispatched")
      BY <1>2 DEF Failed
    <3> HIDE DEF k, lost
    <3> QED
      BY <3>1, <3>2, <3>3, <3>4, CountedClassified
  <2>2. /\ s \in Tables
        /\ s.control = "failed" /\ s.lane = r.lane /\ s.held = r.held /\ s.backlog = r.backlog
        /\ \A c \in Call : s.token[c] = IF r.token[c] = "live" /\ ~Protected(r, c)
                                        THEN "canceled" ELSE r.token[c]
        /\ \A c \in Call : s.attempt[c] = IF c \in Open(r) /\ ~Protected(r, c)
                                          THEN "not_dispatched" ELSE r.attempt[c]
        /\ Open(s) = Open(r) \ lost
        /\ \A b \in Block : /\ s.barrier[b].planned = r.barrier[b].planned
                            /\ s.barrier[b].state = "released" <=> r.barrier[b].state = "released"
    BY <1>2, FailedFields
  <2> HIDE DEF s
  <2>3. CallsAgree(s, x, d)
    <3>1. SUFFICES ASSUME NEW c \in Call
                   PROVE  CallAgrees(s.attempt[c], s.token[c], x[c], d[c])
      BY DEF CallsAgree
    <3>2. CallAgrees(r.attempt[c], r.token[c], x[c], d[c]) /\ r.token[c] \in TokenStates
      BY DEF CallsAgree, Tables
    <3>3. c \in Open(r) <=> r.attempt[c] \notin Terminals
      BY DEF Open
    <3>4. CASE Protected(r, c)
      BY <2>2, <3>2, <3>4
    <3>5. CASE ~Protected(r, c)
      <4>1. r.token[c] # "entered"
        BY <3>5 DEF Protected
      <4>2. s.token[c] = IF r.token[c] = "live" THEN "canceled" ELSE r.token[c]
        BY <2>2, <3>5
      <4>3. s.attempt[c] = IF r.attempt[c] \notin Terminals THEN "not_dispatched" ELSE r.attempt[c]
        BY <2>2, <3>3, <3>5
      <4> QED
        BY <3>2, <4>1, <4>2, <4>3, CallFails
    <3> QED
      BY <3>4, <3>5
  <2>4. Follows(r, s)
    BY <2>2 DEF Follows, Open, Terminals
  <2>5. Quiescent(s)
    <3>1. SUFFICES ASSUME NEW c \in Open(s)
                   PROVE  /\ s.token[c] \in {"live", "entered"}
                          /\ plan[c].lane = Burst => Released(s, c)
      BY DEF Quiescent
    <3>2. c \in Call /\ Protected(r, c)
      BY <2>2 DEF Open
    <3>3. s.token[c] = r.token[c] /\ r.token[c] \in {"live", "entered"}
      BY <2>2, <3>2 DEF Protected
    <3>4. plan[c].lane = Burst => Released(r, c)
      BY <3>2 DEF Protected, BarriersHold, Of
    <3> QED
      BY <2>2, <3>2, <3>3, <3>4, PlanFacts DEF Released
  <2> QED
    BY <2>1, <2>2, <2>3, <2>4, <2>5 DEF OneLost, s
<1> QED
  BY <1>1, <1>2 DEF Tables

(* A step of one call that neither decides it nor makes it wait.               *)
CallGoes(c, r, s, x, y, d, e) ==
  /\ s.control = r.control /\ s.owner = r.owner /\ s.held = r.held /\ s.barrier = r.barrier
  /\ s.gate = r.gate /\ s.usable = r.usable
  /\ \A k \in Call \ {c} : /\ s.attempt[k] = r.attempt[k] /\ s.token[k] = r.token[k]
                           /\ y[k] = x[k] /\ e[k] = d[k]
  /\ CallAgrees(s.attempt[c], s.token[c], y[c], e[c])
  /\ \/ s.attempt[c] = r.attempt[c]
     \/ /\ r.attempt[c] \notin Terminals
        /\ s.attempt[c] \notin Terminals /\ s.attempt[c] # "reconciliation_pending"
  /\ \/ s.token[c] = r.token[c]
     \/ /\ r.token[c] = "live" /\ s.token[c] = "entered"
        /\ plan[c].lane = Burst => Released(r, c)
  /\ y[c] # "none" => x[c] # "none"
  /\ e[c] = "idle" <=> d[c] = "idle"

LEMMA CallGoesSoundly ==
  ASSUME plan \in Plans, NEW r \in Tables, NEW s \in Tables, NEW x, NEW y, NEW d, NEW e,
         Sound(r, x, d), NEW c \in Call, CallGoes(c, r, s, x, y, d, e)
  PROVE  Sound(s, y, e)
<1> USE DEF CallGoes
<1>1. CallsAgree(s, y, e)
  BY DEF CallsAgree, Sound, Steady
<1>2. Counted(s)
  <2>1. \A k \in Call : \/ s.attempt[k] = r.attempt[k]
                        \/ s.attempt[k] \notin Terminals /\ r.attempt[k] \notin Terminals
    OBVIOUS
  <2> QED
    BY <2>1, CountedSame DEF Sound, Steady
<1>3. Follows(r, s)
  BY DEF Follows, Open
<1>4. OneLost(s)
  BY DEF Sound, Steady, OneLost, Lost
<1>5. \A k \in Open(s) : s.token[k] = "canceled" => r.token[k] = "canceled"
  BY DEF Open
<1>6. /\ \A k \in Call : y[k] # "none" => x[k] # "none"
      /\ \A k \in Call : e[k] = "idle" <=> d[k] = "idle"
  OBVIOUS
<1> QED
  BY <1>1, <1>2, <1>3, <1>4, <1>5, <1>6, FollowsKeeps DEF Sound, Steady

SoundNow == Sound(run, execution, dispatcher)
SoundNext == run' \in Tables /\ Sound(run', execution', dispatcher')

LEMMA OneCall ==
  ASSUME RunTyped, SoundNow, NEW c \in Call
  PROVE  /\ CallAgrees(run.attempt[c], run.token[c], execution[c], dispatcher[c])
         /\ run.attempt[c] \in AttemptStates /\ run.token[c] \in TokenStates
         /\ execution[c] \in RowStates /\ dispatcher[c] \in DispatchStates
BY DEF SoundNow, Sound, Steady, CallsAgree, RunTyped, Tables

(* The steps of a dispatcher that write no row of the run.                     *)
LEMMA DispatcherMoves ==
  ASSUME RunTyped, SoundNow, NEW c \in Call,
         \/ AwaitRelease(c) \/ MarkRefused(c) \/ ProviderAnswers(c)
         \/ \E identified \in BOOLEAN : ProviderAmbiguous(c, identified)
         \/ CompletionFails(c) \/ HoldExecution(c) \/ HandlerEnds(c)
  PROVE  SoundNext
<1>1. /\ run' = run
      /\ \A k \in Call \ {c} : execution'[k] = execution[k] /\ dispatcher'[k] = dispatcher[k]
      /\ dispatcher'[c] # "idle" /\ dispatcher[c] # "idle"
      /\ execution[c] # "none" \/ execution'[c] = execution[c]
  BY DEF AwaitRelease, MarkRefused, ProviderAnswers, ProviderAmbiguous, CompletionFails,
         HoldExecution, HandlerEnds, InFlight, Step, RunTyped
<1>2. CallAgrees(run.attempt[c], run.token[c], execution'[c], dispatcher'[c])
  <2>1. CallAgrees(run.attempt[c], run.token[c], execution[c], dispatcher[c])
    BY OneCall
  <2>2. dispatcher \in [Call -> DispatchStates] /\ execution \in [Call -> RowStates]
    BY DEF RunTyped
  <2>3. CASE AwaitRelease(c)
    BY <2>1, <2>2, <2>3 DEF AwaitRelease, Step, CallAgrees, Answered
  <2>4. CASE MarkRefused(c)
    BY <2>1, <2>2, <2>4 DEF MarkRefused, Step, CallAgrees, Answered
  <2>5. CASE ProviderAnswers(c)
    BY <2>1, <2>2, <2>5 DEF ProviderAnswers, Step, CallAgrees, Answered
  <2>6. CASE \E identified \in BOOLEAN : ProviderAmbiguous(c, identified)
    BY <2>1, <2>2, <2>6 DEF ProviderAmbiguous, Step, CallAgrees, Answered
  <2>7. CASE CompletionFails(c)
    BY <2>1, <2>2, <2>7 DEF CompletionFails, Step, CallAgrees, Answered
  <2>8. CASE HoldExecution(c)
    BY <2>1, <2>2, <2>8, OneCall
    DEF HoldExecution, Step, CallAgrees, Answered, Terminals, Usable, Nonusable, AttemptStates
  <2>9. CASE HandlerEnds(c)
    BY <2>1, <2>2, <2>9 DEF HandlerEnds, CallAgrees, Answered
  <2> QED
    BY <2>3, <2>4, <2>5, <2>6, <2>7, <2>8, <2>9
<1>3. run \in Tables /\ plan \in Plans
  BY DEF RunTyped
<1>4. CallGoes(c, run, run', execution, execution', dispatcher, dispatcher')
  BY <1>1, <1>2 DEF CallGoes
<1> QED
  BY <1>1, <1>3, <1>4, CallGoesSoundly DEF SoundNow, SoundNext

MarksCall(c, attempt, token) ==
  /\ run' \in Tables
  /\ run'.control = run.control /\ run'.owner = run.owner /\ run'.lane = run.lane
  /\ run'.held = run.held /\ run'.barrier = run.barrier /\ run'.backlog = run.backlog
  /\ run'.gate = run.gate /\ run'.usable = run.usable
  /\ run'.attempt = [run.attempt EXCEPT ![c] = attempt]
  /\ run'.token = [run.token EXCEPT ![c] = token]

LEMMA MarksTables ==
  ASSUME RunTyped, NEW c \in Call, NEW attempt \in AttemptStates, NEW token \in TokenStates,
         run' = [run EXCEPT !.token[c] = token, !.attempt[c] = attempt]
  PROVE  MarksCall(c, attempt, token)
<1> DEFINE tokens == [run.token EXCEPT ![c] = token]
           attempts == [run.attempt EXCEPT ![c] = attempt]
           u == [run EXCEPT !.token = tokens]
<1>1. run \in Tables
  BY DEF RunTyped
<1>2. tokens \in [Call -> TokenStates] /\ attempts \in [Call -> AttemptStates]
  BY <1>1 DEF Tables
<1> HIDE DEF tokens
<1>3. /\ u \in Tables
      /\ u.control = run.control /\ u.owner = run.owner /\ u.lane = run.lane
      /\ u.held = run.held /\ u.barrier = run.barrier /\ u.backlog = run.backlog
      /\ u.gate = run.gate /\ u.usable = run.usable
      /\ u.attempt = run.attempt /\ u.token = tokens
  BY <1>1, <1>2 DEF Tables
<1>4. run' = [u EXCEPT !.attempt = attempts]
  BY <1>1, <1>2 DEF tokens, Tables
<1> HIDE DEF u, attempts
<1>5. /\ run' \in Tables
      /\ run'.control = run.control /\ run'.owner = run.owner /\ run'.lane = run.lane
      /\ run'.held = run.held /\ run'.barrier = run.barrier /\ run'.backlog = run.backlog
      /\ run'.gate = run.gate /\ run'.usable = run.usable
      /\ run'.attempt = attempts /\ run'.token = tokens
  BY <1>2, <1>3, <1>4 DEF Tables
<1> QED
  BY <1>5 DEF MarksCall, attempts, tokens

LEMMA MarkEnteredSound ==
  ASSUME RunTyped, SoundNow, NEW c \in Call, NEW to \in {"sent", "unsent"}, MarkEntered(c, to)
  PROVE  SoundNext
<1>1. MarksCall(c, "primitive_entered", "entered")
  BY MarksTables DEF MarkEntered, AttemptStates, TokenStates
<1>2. CallAgrees(run.attempt[c], run.token[c], execution[c], dispatcher[c])
  BY OneCall
<1>3. /\ run.token[c] = "live" /\ dispatcher[c] = "entering" /\ execution' = execution
      /\ dispatcher' = [dispatcher EXCEPT ![c] = to]
      /\ plan[c].lane = Burst => Released(run, c)
  BY DEF MarkEntered, Enterable, Step
<1>4. run.attempt[c] = "dispatch_authorized" /\ execution[c] = "executing"
  BY <1>2, <1>3 DEF CallAgrees
<1>5. run \in Tables /\ plan \in Plans /\ dispatcher \in [Call -> DispatchStates]
      /\ run.attempt \in [Call -> AttemptStates] /\ run.token \in [Call -> TokenStates]
  BY DEF RunTyped, Tables
<1>6. /\ run'.attempt[c] = "primitive_entered" /\ run'.token[c] = "entered"
      /\ dispatcher'[c] = to /\ execution'[c] = "executing"
      /\ \A k \in Call \ {c} : /\ run'.attempt[k] = run.attempt[k] /\ run'.token[k] = run.token[k]
                               /\ dispatcher'[k] = dispatcher[k]
  BY <1>1, <1>3, <1>4, <1>5 DEF MarksCall
<1>7. CallAgrees(run'.attempt[c], run'.token[c], execution'[c], dispatcher'[c])
  BY <1>6 DEF CallAgrees, Answered, Usable, Nonusable
<1>8. CallGoes(c, run, run', execution, execution', dispatcher, dispatcher')
  BY <1>1, <1>3, <1>4, <1>6, <1>7 DEF CallGoes, MarksCall, Terminals, Usable, Nonusable
<1> QED
  BY <1>1, <1>5, <1>8, CallGoesSoundly DEF SoundNow, SoundNext, MarksCall

(* The first call of a set is in it, and no call of it comes before.           *)
LEMMA MinFacts ==
  ASSUME NEW S \in SUBSET Nat, S # {}
  PROVE  Min(S) \in S /\ \A x \in S : Min(S) <= x
<1>1. PICK m \in S : \A x \in S : ~(<<x, m>> \in OpToRel(<, Nat))
  BY NatLessThanWellFounded, WFMin, Zenon
<1>2. \A x \in S : ~(x < m)
  BY <1>1, Zenon DEF OpToRel
<1>3. \A x \in S : m <= x
  BY <1>2
<1> QED
  BY <1>1, <1>3 DEF Min

LEMMA FirstCall ==
  ASSUME plan \in Plans, NEW cs \in SUBSET Call, cs # {}
  PROVE  Min(cs) \in cs /\ \A c \in cs : Min(cs) <= c
BY PlanFacts, MinFacts

-----------------------------------------------------------------------------
(* The lanes and the runner, for the tables r, the dispatchers d, the last     *)
(* block b and what the runner does in the lane, w.                            *)

Unused(c, r, d) == d[c] = "idle" /\ r.backlog[c] = "none"

(* Nothing starts before its block is opened, a queued call did not start, and *)
(* what the runner has yet to do in a lane was neither started nor queued.     *)
LaneWaits(l, r, d, b, w) ==
  /\ \A c \in Of(l) : /\ plan[c].block > b => Unused(c, r, d)
                      /\ r.backlog[c] = "queued" => d[c] = "idle"
  /\ l = Burst => \A c, k \in Of(l) :
       r.backlog[c] = "queued" /\ plan[k].block = plan[c].block => d[k] = "idle"
  /\ w.todo \in SUBSET Of(l) /\ \A c \in w.todo : plan[c].block <= b
  /\ w.stage = "enqueue" =>
       /\ Group(l, b) # {} /\ w.todo \in SUBSET Group(l, b)
       /\ \A c \in Group(l, b) : d[c] = "idle" /\ (~w.queued => r.backlog[c] = "none")
       /\ \A c \in w.todo : Unused(c, r, d)
  /\ w.stage = "rest" => l # Burst /\ \A c \in w.todo : Unused(c, r, d)
  /\ w.stage = "work" => w.todo # {}
  /\ w.stage = "work" /\ l # Burst =>
       /\ d[Min(w.todo)] # "idle"
       /\ \A c \in w.todo : c # Min(w.todo) => Unused(c, r, d)

Working(c, r, d) == c \in Open(r) /\ d[c] # "idle" /\ r.attempt[c] # "reconciliation_pending"

(* In an active run a lane is held by open calls that started, works on what   *)
(* the runner gave it, and queues what it is given while it is not free.       *)
LaneHolds(l, r, d, b, w) ==
  /\ \A c \in r.held[l] : c \in Of(l) /\ c \in Open(r) /\ d[c] # "idle"
  /\ r.held[l] # {} <=> r.lane[l] = "held"
  /\ r.lane[l] # "failed"
  /\ \A c \in Of(l) : r.backlog[c] \in {"queued", "claimed"} => Busy(r, l)
  /\ \A c, k \in Of(l) : r.backlog[c] = "claimed" =>
       /\ k \in Open(r) /\ d[k] # "idle" => r.backlog[k] = "claimed"
       /\ w.stage = "work" /\ k \in w.todo => r.backlog[k] = "claimed"
  /\ \A c \in Of(l) : Working(c, r, d) =>
       /\ w.stage \in {"work", "stopped"}
       /\ w.stage = "work" => c \in w.todo /\ (l # Burst => c = Min(w.todo))
  /\ w.stage = "enqueue" /\ ~w.queued => w.todo = Group(l, b) \/ ~Busy(r, l)

(* In a lane of an active run that is not the burst lane, a started call is    *)
(* open only as the last one, and what still waits comes after what started.   *)
LaneFlights(l, r, d, w) ==
  \A c, k \in Of(l) :
    /\ d[c] # "idle" =>
         /\ c \in Open(r) /\ c # k /\ d[k] # "idle" => k < c /\ k \notin Open(r)
         /\ r.backlog[k] = "queued" => c < k
         /\ w.stage = "rest" /\ k \in w.todo => c < k
         /\ w.stage = "work" => c <= Min(w.todo)
    /\ w.stage = "work" /\ c \in w.todo /\ r.backlog[k] = "queued" => c < k

LaneActive(l, r, d, b, w) ==
  LaneHolds(l, r, d, b, w) /\ (l # Burst => LaneFlights(l, r, d, w))

LanesAt(r, d, b, n) ==
  \A l \in Lane : /\ LaneWaits(l, r, d, b, n[l])
                  /\ r.control = "active" => LaneActive(l, r, d, b, n[l])

LanesNow == LanesAt(run, dispatcher, block, runner)
LanesNext == LanesAt(run', dispatcher', block', runner')

(* A step that touches nothing of a lane.                                      *)
SameLane(l, r, s, d, e) ==
  /\ s.held[l] = r.held[l] /\ s.lane[l] = r.lane[l] /\ s.attempt = r.attempt
  /\ \A c \in Of(l) : s.backlog[c] = r.backlog[c] /\ e[c] = d[c]

LEMMA SameLaneKeeps ==
  ASSUME plan \in Plans, NEW l, NEW r, NEW s, NEW d, NEW e, NEW b, NEW w,
         SameLane(l, r, s, d, e), LaneWaits(l, r, d, b, w)
  PROVE  /\ LaneWaits(l, s, e, b, w)
         /\ LaneActive(l, r, d, b, w) => LaneActive(l, s, e, b, w)
<1> USE DEF SameLane
<1>1. Open(s) = Open(r)
  BY DEF Open
<1>2. Busy(s, l) <=> Busy(r, l)
  BY DEF Busy
<1>3. \A c \in Group(l, b) : c \in Of(l)
  BY DEF Group, Of
<1>4. LaneWaits(l, s, e, b, w)
  <2>1. w.todo # {} => Min(w.todo) \in Of(l)
    <3>1. w.todo \in SUBSET Of(l) /\ w.todo \in SUBSET Call
      BY DEF LaneWaits, Of
    <3> QED
      BY <3>1, FirstCall
  <2> QED
    BY <1>3, <2>1 DEF LaneWaits, Unused
<1>5. LaneHolds(l, r, d, b, w) => LaneHolds(l, s, e, b, w)
  BY <1>1, <1>2 DEF LaneHolds, Working
<1>6. LaneFlights(l, r, d, w) => LaneFlights(l, s, e, w)
  BY <1>1 DEF LaneFlights
<1> QED
  BY <1>4, <1>5, <1>6 DEF LaneActive

LEMMA AdmitSound ==
  ASSUME RunTyped, SoundNow, LanesNow, NEW c \in Call, Admit(c)
  PROVE  SoundNext
<1> DEFINE attempts == [run.attempt EXCEPT ![c] = "admission_started"]
<1>1. /\ run.control = "active" /\ run.attempt[c] = "planned" /\ dispatcher[c] = "called"
      /\ dispatcher' = [dispatcher EXCEPT ![c] = "admitted"]
      /\ execution' = [execution EXCEPT ![c] = "executing"]
      /\ run' = [run EXCEPT !.attempt = attempts]
  BY DEF Admit, Step
<1>2. /\ run \in Tables /\ plan \in Plans /\ dispatcher \in [Call -> DispatchStates]
      /\ execution \in [Call -> RowStates] /\ run.attempt \in [Call -> AttemptStates]
  BY DEF RunTyped, Tables
<1>3. attempts \in [Call -> AttemptStates]
  BY <1>2 DEF AttemptStates
<1>4. /\ attempts[c] = "admission_started" /\ \A k \in Call \ {c} : attempts[k] = run.attempt[k]
      /\ execution'[c] = "executing" /\ \A k \in Call \ {c} : execution'[k] = execution[k]
      /\ dispatcher'[c] = "admitted" /\ \A k \in Call \ {c} : dispatcher'[k] = dispatcher[k]
  BY <1>1, <1>2
<1> HIDE DEF attempts
<1>5. /\ run' \in Tables
      /\ run'.control = run.control /\ run'.owner = run.owner /\ run'.held = run.held
      /\ run'.barrier = run.barrier /\ run'.gate = run.gate /\ run'.usable = run.usable
      /\ run'.token = run.token /\ run'.attempt = attempts
  BY <1>1, <1>2, <1>3 DEF Tables
<1>6. CallAgrees(run.attempt[c], run.token[c], execution[c], dispatcher[c])
  BY OneCall
<1>7. CallAgrees(run'.attempt[c], run'.token[c], execution'[c], dispatcher'[c])
  BY <1>1, <1>4, <1>5, <1>6 DEF CallAgrees, Answered, Usable, Nonusable
<1>8. Follows(run, run') /\ Counted(run') /\ OneLost(run')
  <2>1. Follows(run, run')
    BY <1>1, <1>4, <1>5 DEF Follows, Open, Terminals, Usable, Nonusable
  <2>2. Counted(run')
    <3>1. \A k \in Call : \/ run'.attempt[k] = run.attempt[k]
                          \/ run'.attempt[k] \notin Terminals /\ run.attempt[k] \notin Terminals
      BY <1>1, <1>4, <1>5 DEF Terminals, Usable, Nonusable
    <3> QED
      BY <1>5, <3>1, CountedSame DEF SoundNow, Sound, Steady
  <2>3. OneLost(run')
    BY <1>4, <1>5 DEF SoundNow, Sound, Steady, OneLost, Lost, Terminals, Usable, Nonusable
  <2> QED
    BY <2>1, <2>2, <2>3
<1>9. CallsAgree(run', execution', dispatcher')
  BY <1>4, <1>5, <1>7 DEF SoundNow, Sound, Steady, CallsAgree
<1>10. SingleFlight(run, execution')
  <2>1. SUFFICES ASSUME NEW i \in Call, NEW k \in Call, plan[i].lane # Burst,
                        plan[k].lane = plan[i].lane, k < i,
                        execution'[i] # "none", execution'[k] # "none"
                 PROVE  k \notin Open(run)
    BY DEF SingleFlight
  <2>2. LaneFlights(plan[i].lane, run, dispatcher, runner[plan[i].lane])
    BY <1>1, <1>2, <2>1, PlanFacts DEF LanesNow, LanesAt, LaneActive
  <2>3. plan[i].lane \in Lane /\ i \in Of(plan[i].lane) /\ k \in Of(plan[i].lane)
    BY <1>2, <2>1, PlanFacts DEF Of
  <2>4. \A j \in Call : execution'[j] # "none" => dispatcher[j] # "idle"
    <3>1. ASSUME NEW j \in Call, execution'[j] # "none", dispatcher[j] = "idle"
          PROVE  FALSE
      <4>1. dispatcher[j] = "idle" /\ j # c
        BY <1>1, <3>1
      <4>2. CallAgrees(run.attempt[j], run.token[j], execution[j], dispatcher[j])
        BY OneCall
      <4> QED
        BY <1>4, <3>1, <4>1, <4>2 DEF CallAgrees
    <3> QED
      BY <3>1
  <2>5. i \in Nat /\ k \in Nat
    BY <1>2, PlanFacts
  <2>6. ~(i < k)
    BY <2>1, <2>5
  <2> QED
    BY <2>1, <2>2, <2>3, <2>4, <2>6 DEF LaneFlights
<1>11. \A k \in Call : dispatcher'[k] = "idle" <=> dispatcher[k] = "idle"
  BY <1>1, <1>4
<1>12. Quiescent(run')
  BY <1>1, <1>5 DEF Quiescent
<1>13. BarriersHold(run, dispatcher) /\ Capped(run) /\ PendingHeld(run)
  BY DEF SoundNow, Sound, Steady
<1>14. /\ BarriersHold(run', dispatcher') /\ Capped(run') /\ PendingHeld(run')
       /\ SingleFlight(run', execution')
  BY <1>2, <1>5, <1>8, <1>10, <1>11, <1>13, FollowsKeeps
<1> QED
  BY <1>5, <1>8, <1>9, <1>12, <1>14 DEF SoundNext, Sound, Steady

(* Dispatch is authorized only under the cap.                                  *)
LEMMA AuthorizeSound ==
  ASSUME RunTyped, SoundNow, NEW c \in Call, Authorize(c)
  PROVE  SoundNext
<1>1. MarksCall(c, "dispatch_authorized", "live")
  BY MarksTables DEF Authorize, AttemptStates, TokenStates
<1>2. /\ run.control = "active" /\ run.attempt[c] = "admission_started" /\ execution' = execution
      /\ dispatcher[c] = "admitted" /\ dispatcher' = [dispatcher EXCEPT ![c] = "authorized"]
      /\ Exposure(Exposed(run, c)) <= Cap
  BY DEF Authorize, Step
<1>3. /\ run \in Tables /\ plan \in Plans /\ dispatcher \in [Call -> DispatchStates]
      /\ run.attempt \in [Call -> AttemptStates] /\ run.token \in [Call -> TokenStates]
  BY DEF RunTyped, Tables
<1>4. CallAgrees(run.attempt[c], run.token[c], execution[c], dispatcher[c])
  BY OneCall
<1>5. /\ run'.attempt[c] = "dispatch_authorized" /\ run'.token[c] = "live"
      /\ dispatcher'[c] = "authorized" /\ execution[c] = "executing" /\ run.token[c] = "none"
      /\ \A k \in Call \ {c} : /\ run'.attempt[k] = run.attempt[k] /\ run'.token[k] = run.token[k]
                               /\ dispatcher'[k] = dispatcher[k]
  BY <1>1, <1>2, <1>3, <1>4 DEF MarksCall, CallAgrees
<1>6. /\ run' \in Tables
      /\ run'.control = run.control /\ run'.owner = run.owner /\ run'.held = run.held
      /\ run'.barrier = run.barrier /\ run'.gate = run.gate /\ run'.usable = run.usable
  BY <1>1 DEF MarksCall
<1>7. CallsAgree(run', execution', dispatcher')
  <2>1. CallAgrees(run'.attempt[c], run'.token[c], execution'[c], dispatcher'[c])
    BY <1>2, <1>5 DEF CallAgrees, Answered, Usable, Nonusable
  <2> QED
    BY <1>2, <1>5, <2>1 DEF SoundNow, Sound, Steady, CallsAgree
<1>8. Counted(run') /\ OneLost(run')
  <2>1. \A k \in Call : \/ run'.attempt[k] = run.attempt[k]
                        \/ run'.attempt[k] \notin Terminals /\ run.attempt[k] \notin Terminals
    BY <1>2, <1>5 DEF Terminals, Usable, Nonusable
  <2>2. Counted(run')
    BY <1>6, <2>1, CountedSame DEF SoundNow, Sound, Steady
  <2> QED
    BY <1>5, <1>6, <2>2 DEF SoundNow, Sound, Steady, OneLost, Lost, Terminals, Usable, Nonusable
<1>9. Open(run') = Open(run)
  BY <1>2, <1>5 DEF Open, Terminals, Usable, Nonusable
<1>10. BarriersHold(run', dispatcher') /\ PendingHeld(run') /\ SingleFlight(run', execution')
  BY <1>2, <1>5, <1>6, <1>9, PlanFacts
  DEF SoundNow, Sound, Steady, BarriersHold, PendingHeld, SingleFlight, Released, Of
<1>11. Capped(run')
  <2> DEFINE A == Exposed(run, c)
             B == Dispatched(run') \cap Open(run')
  <2>1. A \in SUBSET Call /\ B \in SUBSET A
    BY <1>5, <1>9 DEF Exposed, Counts, Dispatched, Open
  <2>2. Exposure(A) \in Int /\ Exposure(B) \in Int
    <3>1. IsFiniteSet(A) /\ IsFiniteSet(B)
      BY <1>3, <2>1, PlanFacts, FS_Subset
    <3> QED
      BY <3>1, UnitsFinite DEF Exposure
  <2>3. Exposure(B) <= Exposure(A)
    BY <1>3, <2>1, ExposureMonotone
  <2> HIDE DEF A, B
  <2>4. Exposure(B) <= Cap
    BY <1>2, <2>2, <2>3, PlansAssumption DEF A
  <2> QED
    BY <2>4 DEF Capped, B
<1>12. Quiescent(run')
  BY <1>2, <1>6 DEF Quiescent
<1> QED
  BY <1>6, <1>7, <1>8, <1>10, <1>11, <1>12 DEF SoundNext, Sound, Steady

(* A run that fails stays sound, whatever was decided before it.               *)
LEMMA FailedSound ==
  ASSUME plan \in Plans, NEW r \in Tables, NEW x, NEW d,
         Steady(r, x, d)
  PROVE  LET s == Failed(r) IN
         /\ s \in Tables /\ s.control = "failed"
         /\ s.lane = r.lane /\ s.held = r.held /\ s.backlog = r.backlog
         /\ Sound(s, x, d)
<1> USE DEF Steady
<1> DEFINE s == Failed(r)
<1>1. /\ s \in Tables /\ s.control = "failed"
      /\ s.lane = r.lane /\ s.held = r.held /\ s.backlog = r.backlog
      /\ CallsAgree(s, x, d) /\ Counted(s) /\ Follows(r, s) /\ Quiescent(s) /\ OneLost(s)
  BY FailedKeeps
<1> HIDE DEF s
<1>2. BarriersHold(s, d) /\ Capped(s) /\ PendingHeld(s) /\ SingleFlight(s, x)
  BY <1>1, FollowsKeeps
<1> QED
  BY <1>1, <1>2 DEF Sound, Steady, s

LEMMA AuthorizeOverCapSound ==
  ASSUME RunTyped, SoundNow, NEW c \in Call, AuthorizeOverCap(c)
  PROVE  SoundNext
<1>1. /\ dispatcher[c] = "admitted" /\ dispatcher' = [dispatcher EXCEPT ![c] = "failed"]
      /\ execution' = execution /\ run' = Failed(run)
  BY DEF AuthorizeOverCap, Step
<1>2. run \in Tables /\ plan \in Plans /\ dispatcher \in [Call -> DispatchStates]
  BY DEF RunTyped
<1>3. CallGoes(c, run, run, execution, execution', dispatcher, dispatcher')
  <2>1. CallAgrees(run.attempt[c], run.token[c], execution[c], dispatcher[c])
    BY OneCall
  <2>2. CallAgrees(run.attempt[c], run.token[c], execution'[c], dispatcher'[c])
    BY <1>1, <1>2, <2>1 DEF CallAgrees, Answered
  <2> QED
    BY <1>1, <1>2, <2>2 DEF CallGoes
<1>4. Sound(run, execution', dispatcher')
  BY <1>2, <1>3, CallGoesSoundly DEF SoundNow
<1> QED
  BY <1>1, <1>2, <1>4, FailedSound DEF Sound, Steady, SoundNext

(* One call is decided.                                                        *)
DecidedAs(c, state, r, s) ==
  /\ s \in Tables
  /\ s.control = r.control /\ s.owner = r.owner /\ s.lane = r.lane /\ s.held = r.held
  /\ s.token = r.token /\ s.backlog = r.backlog /\ s.barrier = r.barrier
  /\ \A k \in Call : s.attempt[k] = IF k = c THEN state ELSE r.attempt[k]
  /\ Open(s) = Open(r) \ {c}

OthersAgree(c, r, y, e) ==
  \A k \in Call : k # c => CallAgrees(r.attempt[k], r.token[k], y[k], e[k])

LEMMA DecideFollows ==
  ASSUME plan \in Plans, NEW r \in Tables, NEW c \in Open(r), NEW state \in Terminals, Counted(r),
         NEW y, NEW e, OthersAgree(c, r, y, e), CallAgrees(state, r.token[c], y[c], e[c])
  PROVE  LET s == Classified(r, {c}, state) IN
         DecidedAs(c, state, r, s) /\ CallsAgree(s, y, e) /\ Counted(s) /\ Follows(r, s)
<1> USE DEF OthersAgree
<1> DEFINE s == Classified(r, {c}, state)
<1>1. {c} \in SUBSET Call /\ {c} \in SUBSET Open(r) /\ c \in Call
  BY DEF Open
<1>2. Counted(s)
  BY <1>1, CountedClassified
<1>3. /\ s \in Tables
      /\ s.control = r.control /\ s.owner = r.owner /\ s.lane = r.lane /\ s.held = r.held
      /\ s.token = r.token /\ s.backlog = r.backlog /\ s.barrier = r.barrier
      /\ \A k \in Call : s.attempt[k] = IF k \in {c} THEN state ELSE r.attempt[k]
      /\ Open(s) = Open(r) \ {c}
  <2> DEFINE only == {c}
  <2>1. only \in SUBSET Call
    BY <1>1
  <2> HIDE DEF only
  <2>2. LET u == Classified(r, only, state) IN
        /\ u \in Tables
        /\ u.control = r.control /\ u.owner = r.owner /\ u.lane = r.lane /\ u.held = r.held
        /\ u.token = r.token /\ u.backlog = r.backlog /\ u.barrier = r.barrier
        /\ \A k \in Call : u.attempt[k] = IF k \in only THEN state ELSE r.attempt[k]
        /\ Open(u) = Open(r) \ only
    BY <2>1, ClassifiedFields
  <2> QED
    BY <2>2 DEF only
<1> HIDE DEF s
<1>4. CallsAgree(s, y, e)
  BY <1>1, <1>3 DEF CallsAgree
<1>5. Follows(r, s)
  <2>1. state # "reconciliation_pending"
    BY DEF Terminals, Usable, Nonusable
  <2> QED
    BY <1>3, <2>1 DEF Follows
<1> QED
  BY <1>2, <1>3, <1>4, <1>5 DEF s, DecidedAs

(* What only changes the owner, the lanes or the backlog keeps the rest.       *)
Beside(r, s) ==
  /\ s \in Tables
  /\ s.control = r.control /\ s.attempt = r.attempt /\ s.token = r.token
  /\ s.barrier = r.barrier /\ s.gate = r.gate /\ s.usable = r.usable

LEMMA BesideSteady ==
  ASSUME NEW r, NEW s, Beside(r, s), NEW x, NEW d, Steady(r, x, d),
         \A c \in Call : s.attempt[c] = "reconciliation_pending" /\ c \in r.held[plan[c].lane]
                           => c \in s.held[plan[c].lane]
  PROVE  Steady(s, x, d) /\ (s.owner = r.owner /\ OneLost(r) => OneLost(s))
<1>1. Open(s) = Open(r) /\ Dispatched(s) = Dispatched(r) /\ Lost(s) = Lost(r)
      /\ UsableCalls(s) = UsableCalls(r)
  BY DEF Beside, Open, Dispatched, Lost, UsableCalls
<1>2. Finished(s) = Finished(r)
  BY <1>1 DEF Finished
<1>3. CallsAgree(s, x, d) /\ Counted(s) /\ BarriersHold(s, d) /\ Capped(s)
  BY <1>1, <1>2 DEF Beside, Steady, CallsAgree, Counted, BarriersHold, Capped, Released
<1>4. PendingHeld(s) /\ SingleFlight(s, x) /\ Quiescent(s)
  BY <1>1 DEF Beside, Steady, PendingHeld, SingleFlight, Quiescent, Released
<1> QED
  BY <1>1, <1>3, <1>4 DEF Steady, OneLost, Beside

LEMMA RemovedBeside ==
  ASSUME plan \in Plans, NEW r \in Tables, NEW c \in Call, NEW state, NEW x, NEW d,
         Steady(r, x, d), r.attempt[c] # "reconciliation_pending"
  PROVE  LET s == Removed(r, c, state) IN
         /\ s \in Tables /\ s.control = r.control /\ s.owner = r.owner /\ s.attempt = r.attempt
         /\ Steady(s, x, d) /\ (OneLost(r) => OneLost(s))
<1> DEFINE s == Removed(r, c, state)
<1>1. /\ s \in Tables
      /\ s.control = r.control /\ s.owner = r.owner /\ s.attempt = r.attempt
      /\ s.token = r.token /\ s.barrier = r.barrier
      /\ s.gate = r.gate /\ s.usable = r.usable
      /\ s.held[plan[c].lane] = r.held[plan[c].lane] \ {c}
      /\ \A l \in Lane : l # plan[c].lane => s.held[l] = r.held[l]
  BY RemovedFields
<1> HIDE DEF s
<1>2. Beside(r, s)
  BY <1>1 DEF Beside
<1>3. \A k \in Call : s.attempt[k] = "reconciliation_pending" /\ k \in r.held[plan[k].lane]
                        => k \in s.held[plan[k].lane]
  BY <1>1, PlanFacts DEF Tables
<1>4. Steady(s, x, d) /\ (s.owner = r.owner /\ OneLost(r) => OneLost(s))
  BY <1>2, <1>3, BesideSteady
<1> QED
  BY <1>1, <1>4 DEF s

DecidesOne(c, x, y, d, e) ==
  /\ \A k \in Call \ {c} : y[k] = x[k] /\ e[k] = d[k]
  /\ x[c] # "none" /\ d[c] # "idle" /\ e[c] # "idle"

LEMMA DecideSteady ==
  ASSUME plan \in Plans, NEW r \in Tables, NEW x, NEW d, Steady(r, x, d),
         NEW c \in Open(r), NEW state \in Terminals, NEW y, NEW e,
         DecidesOne(c, x, y, d, e), CallAgrees(state, r.token[c], y[c], e[c])
  PROVE  LET s == Classified(r, {c}, state) IN
         DecidedAs(c, state, r, s) /\ Steady(s, y, e)
<1> DEFINE s == Classified(r, {c}, state)
<1>1. OthersAgree(c, r, y, e)
  BY DEF Steady, CallsAgree, DecidesOne, OthersAgree
<1>2. Counted(r)
  BY DEF Steady
<1>3. DecidedAs(c, state, r, s) /\ CallsAgree(s, y, e) /\ Counted(s) /\ Follows(r, s)
  BY <1>1, <1>2, DecideFollows
<1> HIDE DEF s
<1>4. /\ \A k \in Call : y[k] # "none" => x[k] # "none"
      /\ \A k \in Call : e[k] = "idle" <=> d[k] = "idle"
  BY DEF DecidesOne
<1>5. s \in Tables /\ s.control = r.control
      /\ \A k \in Open(s) : s.token[k] = "canceled" => r.token[k] = "canceled"
  BY <1>3 DEF DecidedAs
<1>6. /\ BarriersHold(s, e) /\ Capped(s) /\ PendingHeld(s) /\ SingleFlight(s, y)
      /\ Quiescent(s)
  BY <1>3, <1>4, <1>5, FollowsKeeps DEF Steady
<1> QED
  BY <1>3, <1>6 DEF Steady, s

LEMMA CompleteAttemptSound ==
  ASSUME RunTyped, SoundNow, NEW c \in Call, CompleteAttempt(c)
  PROVE  SoundNext
<1> DEFINE s == Classified(run, {c}, "completed_verified")
<1>1. /\ dispatcher[c] = "answered" /\ dispatcher' = [dispatcher EXCEPT ![c] = "succeeded"]
      /\ execution[c] = "executing" /\ execution' = [execution EXCEPT ![c] = "completed"]
      /\ run.token[c] = "entered" /\ c \in Open(run)
      /\ run' = Removed(s, c, run.control)
  BY DEF CompleteAttempt, Completable, Step
<1>2. /\ run \in Tables /\ plan \in Plans /\ dispatcher \in [Call -> DispatchStates]
      /\ execution \in [Call -> RowStates]
  BY DEF RunTyped
<1>3. DecidesOne(c, execution, execution', dispatcher, dispatcher')
  BY <1>1, <1>2 DEF DecidesOne
<1>4. /\ CallAgrees("completed_verified", run.token[c], execution'[c], dispatcher'[c])
      /\ "completed_verified" \in Terminals /\ "completed_verified" \in Usable
      /\ "completed_verified" # "reconciliation_pending"
  BY <1>1, <1>2 DEF CallAgrees, Answered, Terminals, Usable, Nonusable
<1>5. Steady(run, execution, dispatcher) /\ OneLost(run)
  BY DEF SoundNow, Sound
<1>6. DecidedAs(c, "completed_verified", run, s) /\ Steady(s, execution', dispatcher')
  BY <1>1, <1>2, <1>3, <1>4, <1>5, DecideSteady
<1> HIDE DEF s
<1>7. OneLost(s)
  BY <1>4, <1>5, <1>6 DEF OneLost, Lost, DecidedAs
<1>8. s \in Tables /\ c \in Call /\ s.attempt[c] # "reconciliation_pending"
  BY <1>4, <1>6 DEF DecidedAs
<1>9. run' \in Tables /\ Steady(run', execution', dispatcher') /\ OneLost(run')
  BY <1>1, <1>2, <1>6, <1>7, <1>8, RemovedBeside
<1> QED
  BY <1>9 DEF SoundNext, Sound

LEMMA NotDispatchedSound ==
  ASSUME RunTyped, SoundNow, NEW c \in Call, NotDispatched(c)
  PROVE  SoundNext
<1> DEFINE s == Classified(run, {c}, "not_dispatched")
           u == Removed(s, c, "active")
<1>1. /\ dispatcher[c] = "unsent" /\ dispatcher' = [dispatcher EXCEPT ![c] = "failed"]
      /\ execution' = [execution EXCEPT ![c] = IF execution[c] = "executing" THEN "failed"
                                               ELSE execution[c]]
      /\ run.token[c] # "entered" /\ c \in Open(run)
      /\ run' = Failed(u)
  BY DEF NotDispatched, Step
<1>2. /\ run \in Tables /\ plan \in Plans /\ dispatcher \in [Call -> DispatchStates]
      /\ execution \in [Call -> RowStates]
  BY DEF RunTyped
<1>3. CallAgrees(run.attempt[c], run.token[c], execution[c], dispatcher[c])
      /\ run.attempt[c] \notin Terminals /\ run.token[c] \in TokenStates
  BY <1>1, OneCall DEF Open
<1>4. run.token[c] = "live" /\ execution[c] = "executing"
  BY <1>1, <1>3 DEF CallAgrees, Terminals, TokenStates
<1>5. /\ execution'[c] = "failed" /\ dispatcher'[c] = "failed"
      /\ DecidesOne(c, execution, execution', dispatcher, dispatcher')
  BY <1>1, <1>2, <1>4 DEF DecidesOne
<1>6. /\ CallAgrees("not_dispatched", run.token[c], execution'[c], dispatcher'[c])
      /\ "not_dispatched" \in Terminals /\ "not_dispatched" # "reconciliation_pending"
  BY <1>4, <1>5 DEF CallAgrees, Answered, Terminals, Usable, Nonusable
<1>7. DecidedAs(c, "not_dispatched", run, s) /\ Steady(s, execution', dispatcher')
  BY <1>1, <1>2, <1>5, <1>6, DecideSteady DEF SoundNow, Sound
<1> HIDE DEF s
<1>8. s \in Tables /\ s.attempt[c] # "reconciliation_pending"
  BY <1>6, <1>7 DEF DecidedAs
<1>9. u \in Tables /\ Steady(u, execution', dispatcher')
  BY <1>2, <1>7, <1>8, RemovedBeside
<1> HIDE DEF u
<1> QED
  BY <1>1, <1>2, <1>9, FailedSound DEF SoundNext

LEMMA RecoverPreEntrySound ==
  ASSUME RunTyped, SoundNow, NEW c \in Call, RecoverPreEntry(c)
  PROVE  SoundNext
<1> DEFINE tokens == [run.token EXCEPT ![c] = "canceled"]
           u == [run EXCEPT !.token = tokens]
           s == Classified(u, {c}, "not_dispatched")
<1>1. /\ run.token[c] \in {"live", "canceled"} /\ c \in Open(run)
      /\ execution' = [execution EXCEPT ![c] = IF execution[c] = "executing" THEN "failed"
                                               ELSE execution[c]]
      /\ dispatcher' = dispatcher /\ run' = Failed(s)
  BY DEF RecoverPreEntry
<1>2. /\ run \in Tables /\ plan \in Plans /\ dispatcher \in [Call -> DispatchStates]
      /\ execution \in [Call -> RowStates]
  BY DEF RunTyped
<1>3. CallAgrees(run.attempt[c], run.token[c], execution[c], dispatcher[c])
      /\ run.attempt[c] \notin Terminals
  BY <1>1, OneCall DEF Open
<1>4. run.token[c] = "live" /\ execution[c] = "executing" /\ dispatcher[c] # "idle"
      /\ run.attempt[c] = "dispatch_authorized"
  BY <1>1, <1>3 DEF CallAgrees, Terminals
<1>5. tokens \in [Call -> TokenStates] /\ run.token \in [Call -> TokenStates]
  BY <1>2 DEF Tables, TokenStates
<1>6. tokens[c] = "canceled" /\ \A k \in Call : k # c => tokens[k] = run.token[k]
  BY <1>5
<1> HIDE DEF tokens
<1>7. /\ u \in Tables /\ u.control = run.control /\ u.held = run.held
      /\ u.attempt = run.attempt /\ u.barrier = run.barrier
      /\ u.gate = run.gate /\ u.usable = run.usable /\ u.token = tokens
  BY <1>2, <1>5 DEF Tables
<1> HIDE DEF u
<1>8. execution'[c] = "failed" /\ \A k \in Call : k # c => execution'[k] = execution[k]
  BY <1>1, <1>2, <1>4
<1>9. CallAgrees("not_dispatched", u.token[c], execution'[c], dispatcher'[c])
      /\ "not_dispatched" \in Terminals
  BY <1>1, <1>3, <1>4, <1>6, <1>7, <1>8
  DEF CallAgrees, Answered, Terminals, Usable, Nonusable
<1>10. Steady(run, execution, dispatcher)
  BY DEF SoundNow, Sound
<1>11. Counted(u) /\ OthersAgree(c, u, execution', dispatcher') /\ c \in Open(u)
       /\ Follows(run, u)
  <2>1. Counted(u)
    BY <1>7, <1>10, CountedSame DEF Steady
  <2>2. OthersAgree(c, u, execution', dispatcher')
    BY <1>1, <1>6, <1>7, <1>8, <1>10 DEF OthersAgree, Steady, CallsAgree
  <2>3. c \in Open(u)
    BY <1>1, <1>7 DEF Open
  <2>4. Follows(run, u)
    BY <1>6, <1>7 DEF Follows, Open
  <2> QED
    BY <2>1, <2>2, <2>3, <2>4
<1>12. /\ DecidedAs(c, "not_dispatched", u, s) /\ Follows(u, s)
       /\ CallsAgree(s, execution', dispatcher') /\ Counted(s)
  BY <1>2, <1>7, <1>9, <1>11, DecideFollows
<1> HIDE DEF s
<1>13. Follows(run, s) /\ s \in Tables
  BY <1>2, <1>11, <1>12, FollowsTransitive DEF DecidedAs
<1>14. /\ \A k \in Call : execution'[k] # "none" => execution[k] # "none"
       /\ \A k \in Call : dispatcher'[k] = "idle" <=> dispatcher[k] = "idle"
       /\ \A k \in Open(s) : s.token[k] = "canceled" => run.token[k] = "canceled"
       /\ s.control = run.control
  BY <1>1, <1>4, <1>6, <1>7, <1>8, <1>12 DEF DecidedAs, Open
<1>15. Steady(s, execution', dispatcher')
  BY <1>2, <1>10, <1>12, <1>13, <1>14, FollowsKeeps DEF Steady
<1> QED
  BY <1>1, <1>2, <1>13, <1>15, FailedSound DEF SoundNext

LEMMA HoldAttemptSound ==
  ASSUME RunTyped, SoundNow, NEW c \in Call, HoldAttempt(c)
  PROVE  SoundNext
<1> DEFINE attempts == [run.attempt EXCEPT ![c] = "reconciliation_pending"]
           generations == [run.generation EXCEPT ![c] = run.generation[c] \/ dispatcher[c] # "lost"]
           g == [run EXCEPT !.generation = generations]
           u == [run EXCEPT !.attempt = attempts, !.generation = generations]
<1>1. /\ run.control = "active" /\ c \in Open(run) /\ execution' = execution
      /\ run' = Holding(u, c)
      /\ \/ dispatcher[c] \in {"ambiguous", "lost"}
            /\ dispatcher' = [dispatcher EXCEPT ![c] = "holding"]
         \/ dispatcher[c] = "kept" /\ dispatcher' = [dispatcher EXCEPT ![c] = "failed"]
  BY DEF HoldAttempt, Step
<1>2. /\ run \in Tables /\ plan \in Plans /\ dispatcher \in [Call -> DispatchStates]
      /\ execution \in [Call -> RowStates]
  BY DEF RunTyped
<1>3. CallAgrees(run.attempt[c], run.token[c], execution[c], dispatcher[c])
  BY OneCall
<1>4. run.attempt[c] = "primitive_entered" /\ run.token[c] = "entered"
      /\ execution[c] \in {"executing", "reconciliation_hold"}
  BY <1>1, <1>3 DEF CallAgrees, Answered
<1>5. /\ attempts \in [Call -> AttemptStates] /\ attempts[c] = "reconciliation_pending"
      /\ \A k \in Call : k # c => attempts[k] = run.attempt[k]
      /\ generations \in [Call -> BOOLEAN]
  BY <1>2 DEF Tables, AttemptStates
<1>6. /\ u \in Tables /\ u.control = run.control /\ u.owner = run.owner /\ u.held = run.held
      /\ u.lane = run.lane /\ u.attempt = attempts /\ u.token = run.token
      /\ u.barrier = run.barrier /\ u.gate = run.gate /\ u.usable = run.usable
  <2> HIDE DEF attempts, generations
  <2>1. /\ g \in Tables /\ g.control = run.control /\ g.owner = run.owner /\ g.held = run.held
        /\ g.lane = run.lane /\ g.attempt = run.attempt /\ g.token = run.token
        /\ g.barrier = run.barrier /\ g.gate = run.gate /\ g.usable = run.usable
    BY <1>2, <1>5 DEF Tables
  <2>2. u = [g EXCEPT !.attempt = attempts]
    BY <1>2 DEF Tables
  <2> HIDE DEF g, u
  <2> QED
    BY <1>5, <2>1, <2>2 DEF Tables
<1> HIDE DEF attempts, u
<1>7. /\ run' \in Tables /\ run'.control = u.control /\ run'.owner = u.owner
      /\ run'.attempt = u.attempt /\ run'.token = u.token /\ run'.barrier = u.barrier
      /\ run'.gate = u.gate /\ run'.usable = u.usable
      /\ \A l \in Lane : l # plan[c].lane => run'.held[l] = u.held[l]
      /\ u.held[plan[c].lane] # {} =>
           run'.held[plan[c].lane] = u.held[plan[c].lane] \union {c}
      /\ u.held[plan[c].lane] = {} => run'.held[plan[c].lane] = Companions(u, c)
  <2>1. run' = Holding(u, c) /\ plan \in Plans /\ u \in Tables
    BY <1>1, <1>2, <1>6
  <2> QED
    BY <2>1, HoldingFields
<1>8. /\ Open(run') = Open(run) /\ Dispatched(run') = Dispatched(run) /\ Lost(run') = Lost(run)
      /\ c \in Open(u)
  BY <1>4, <1>5, <1>6, <1>7
  DEF Open, Dispatched, Lost, Terminals, Usable, Nonusable
<1>9. Steady(run, execution, dispatcher) /\ OneLost(run)
  BY DEF SoundNow, Sound
<1>10. CallsAgree(run', execution', dispatcher')
  <2>1. CallAgrees("reconciliation_pending", "entered", execution[c], dispatcher'[c])
    BY <1>1, <1>2, <1>3, <1>4 DEF CallAgrees, Answered, Usable, Nonusable
  <2> QED
    BY <1>1, <1>2, <1>4, <1>5, <1>6, <1>7, <1>9, <2>1 DEF CallsAgree, Steady
<1>11. Counted(run')
  <2>1. \A k \in Call : \/ run'.attempt[k] = run.attempt[k]
                        \/ run'.attempt[k] \notin Terminals /\ run.attempt[k] \notin Terminals
    BY <1>4, <1>5, <1>6, <1>7 DEF Terminals, Usable, Nonusable
  <2> QED
    BY <1>6, <1>7, <1>9, <2>1, CountedSame DEF Steady
<1>12. BarriersHold(run', dispatcher')
  <2>1. \A k \in Call : dispatcher'[k] = "idle" <=> dispatcher[k] = "idle"
    BY <1>1, <1>2
  <2> QED
    BY <1>6, <1>7, <1>9, <2>1, PlanFacts DEF BarriersHold, Steady, Released, Of
<1>13. Capped(run') /\ SingleFlight(run', execution') /\ Quiescent(run') /\ OneLost(run')
  BY <1>1, <1>4, <1>5, <1>6, <1>7, <1>8, <1>9
  DEF Capped, SingleFlight, Quiescent, OneLost, Steady, Lost, Terminals, Usable, Nonusable
<1>14. PendingHeld(run')
  <2>1. SUFFICES ASSUME NEW k \in Call, run'.attempt[k] = "reconciliation_pending"
                 PROVE  k \in run'.held[plan[k].lane]
    BY DEF PendingHeld
  <2>2. k # c => k \in u.held[plan[k].lane]
    BY <1>5, <1>6, <1>7, <1>9, <2>1 DEF PendingHeld, Steady
  <2>3. c \in Companions(u, c)
    BY <1>8 DEF Companions
  <2>4. plan[k].lane \in Lane /\ plan[c].lane \in Lane
    BY <1>2, PlanFacts
  <2>5. CASE k = c
    BY <1>7, <2>3, <2>5
  <2>6. CASE k # c
    BY <1>7, <2>2, <2>4, <2>6
  <2> QED
    BY <2>5, <2>6
<1> QED
  BY <1>7, <1>10, <1>11, <1>12, <1>13, <1>14 DEF SoundNext, Sound, Steady

Outcomes == {"reconciled_billed_with_response", "unresolved_provider_outcome"} \union Nonusable

(* A pending call is settled: the execution row follows its new state.         *)
LEMMA SettleSound ==
  ASSUME RunTyped, SoundNow, NEW c \in Call, NEW state \in Outcomes, Settle(c, state),
         dispatcher' = dispatcher
  PROVE  SoundNext
<1> DEFINE s == Classified(run, {c}, state)
           o == Owned(s, c, state)
           u == Removed(o, c, run.control)
<1>1. /\ run.attempt[c] = "reconciliation_pending" /\ run' = Settled(run, c, state)
      /\ execution' = [execution EXCEPT ![c] = ExecutionAfter(state)]
  BY DEF Settle, Reconcilable
<1>2. /\ run \in Tables /\ plan \in Plans /\ execution \in [Call -> RowStates]
  BY DEF RunTyped
<1>3. CallAgrees(run.attempt[c], run.token[c], execution[c], dispatcher[c])
      /\ run.token[c] \in TokenStates /\ dispatcher[c] \in DispatchStates
  BY OneCall
<1>4. /\ run.token[c] = "entered" /\ execution[c] # "none"
      /\ dispatcher[c] \in {"holding", "failed"}
  BY <1>1, <1>3
  DEF CallAgrees, TokenStates, DispatchStates, Answered
<1>5. /\ state \in Terminals /\ state # "reconciliation_pending" /\ c \in Open(run)
      /\ state \notin {"completed_verified", "not_dispatched"}
  BY <1>1 DEF Outcomes, Open, Terminals, Usable, Nonusable
<1>6. DecidesOne(c, execution, execution', dispatcher, dispatcher')
  BY <1>1, <1>2, <1>4 DEF DecidesOne
<1>7. CallAgrees(state, run.token[c], execution'[c], dispatcher'[c])
  <2>1. execution'[c] = ExecutionAfter(state)
    BY <1>1, <1>2
  <2>2. CASE state = "reconciled_billed_with_response"
    BY <1>4, <2>1, <2>2 DEF CallAgrees, Answered, Usable, Nonusable, ExecutionAfter
  <2>3. CASE state = "unresolved_provider_outcome"
    BY <1>4, <2>1, <2>3 DEF CallAgrees, Answered, Usable, Nonusable, ExecutionAfter
  <2>4. CASE state \in Nonusable
    BY <1>4, <2>1, <2>4 DEF CallAgrees, Answered, Usable, Nonusable, ExecutionAfter
  <2> QED
    BY <2>2, <2>3, <2>4 DEF Outcomes
<1>8. Steady(run, execution, dispatcher) /\ OneLost(run)
  BY DEF SoundNow, Sound
<1>9. DecidedAs(c, state, run, s) /\ Steady(s, execution', dispatcher')
  BY <1>2, <1>5, <1>6, <1>7, <1>8, DecideSteady
<1> HIDE DEF s
<1>10. s \in Tables
  BY <1>9 DEF DecidedAs
<1>11. /\ o \in Tables /\ o.control = s.control /\ o.attempt = s.attempt /\ o.held = s.held
       /\ o.token = s.token /\ o.barrier = s.barrier /\ o.gate = s.gate /\ o.usable = s.usable
       /\ o.owner = IF state \in Nonusable /\ s.owner = NoCall THEN c ELSE s.owner
  BY <1>2, <1>10, OwnedFields
<1> HIDE DEF o
<1>12. Steady(o, execution', dispatcher')
  <2>1. Beside(s, o)
    BY <1>11 DEF Beside
  <2> QED
    BY <1>9, <1>11, <2>1, BesideSteady
<1>13. o.attempt[c] # "reconciliation_pending"
  BY <1>5, <1>9, <1>11 DEF DecidedAs
<1>14. u \in Tables /\ u.control = o.control /\ u.owner = o.owner /\ u.attempt = o.attempt
       /\ Steady(u, execution', dispatcher')
  BY <1>2, <1>11, <1>12, <1>13, RemovedBeside
<1> HIDE DEF u
<1>15. CASE state = "unresolved_provider_outcome" \/ ~Allowed(run, c, state)
  <2>1. run' = Failed(u)
    BY <1>1, <1>15 DEF Settled, u, o, s
  <2> QED
    BY <1>2, <1>14, <2>1, FailedSound DEF SoundNext
<1>16. CASE ~(state = "unresolved_provider_outcome" \/ ~Allowed(run, c, state))
  <2>1. run' = u
    BY <1>1, <1>16 DEF Settled, u, o, s
  <2>2. OneLost(u)
    <3>1. SUFFICES ASSUME u.control = "active", NEW k \in Lost(u)
                   PROVE  k = u.owner /\ u.attempt[k] \in Nonusable
      BY DEF OneLost
    <3>2. k \in Call /\ run.control = "active"
          /\ u.attempt[k] = IF k = c THEN state ELSE run.attempt[k]
      BY <1>9, <1>11, <1>14, <3>1 DEF DecidedAs, Lost
    <3>3. \A j \in Lost(run) : j = run.owner /\ run.attempt[j] \in Nonusable
      BY <1>8, <3>2 DEF OneLost
    <3>4. u.owner = IF state \in Nonusable /\ run.owner = NoCall THEN c ELSE run.owner
      BY <1>9, <1>11, <1>14 DEF DecidedAs
    <3>5. state \in Nonusable => run.owner \in {NoCall, c}
      BY <1>16 DEF Allowed
    <3>6. CASE k = c
      <4>1. state \in Nonusable
        BY <1>16, <3>1, <3>2, <3>6 DEF Lost, Outcomes, Usable
      <4> QED
        BY <3>2, <3>4, <3>5, <3>6, <4>1
    <3>7. CASE k # c
      <4>1. k \in Lost(run)
        BY <3>1, <3>2, <3>7 DEF Lost
      <4>2. k = run.owner /\ run.attempt[k] \in Nonusable /\ run.owner # NoCall
        BY <1>2, <3>2, <3>3, <4>1, PlanFacts
      <4> QED
        BY <3>2, <3>4, <3>7, <4>2
    <3> QED
      BY <3>6, <3>7
  <2> QED
    BY <1>14, <2>1, <2>2 DEF SoundNext, Sound
<1> QED
  BY <1>15, <1>16

LEMMA ReconcileSound ==
  ASSUME RunTyped, SoundNow, NEW c \in Call, Reconcile(c)
  PROVE  SoundNext
<1>1. run \in Tables /\ plan \in Plans /\ Sound(run, execution, dispatcher)
  BY DEF RunTyped, SoundNow
<1>2. CASE UNCHANGED <<run, execution, dispatcher>>
  BY <1>1, <1>2 DEF SoundNext
<1>3. CASE Cutoff(c)
  BY <1>3, SettleSound DEF Cutoff, Outcomes
<1>4. ASSUME NEW evidence \in {"canceled", "response", "no_response", "pending", "drift"},
             ApplyLookup(c, evidence)
      PROVE  SoundNext
  <2> DEFINE state == OutcomeOf(evidence, looking[c])
  <2>1. CASE state \in Terminals /\ Settle(c, state)
    <3>1. state \in Outcomes
      BY <2>1 DEF OutcomeOf, Outcomes, Terminals, Usable, Nonusable
    <3> QED
      BY <1>4, <2>1, <3>1, SettleSound DEF ApplyLookup
  <2>2. CASE run' = Failed(run) /\ UNCHANGED execution
    BY <1>1, <1>4, <2>2, FailedSound DEF ApplyLookup, SoundNext, Sound
  <2>3. CASE UNCHANGED <<run, execution>>
    BY <1>2, <1>4, <2>3 DEF ApplyLookup
  <2> QED
    BY <1>4, <2>1, <2>2, <2>3 DEF ApplyLookup
<1> QED
  BY <1>2, <1>3, <1>4 DEF Reconcile, BeginLookup, LookupFails

ClassifiedAs(cs, state, r, s) ==
  /\ s \in Tables /\ s.control = r.control /\ s.held = r.held /\ s.token = r.token
  /\ s.barrier = r.barrier /\ s.lane = r.lane /\ s.backlog = r.backlog
  /\ \A c \in Call : s.attempt[c] = IF c \in cs THEN state ELSE r.attempt[c]
  /\ Open(s) = Open(r) \ cs

LEMMA ClassifiedKeeps ==
  ASSUME plan \in Plans, NEW r \in Tables, NEW cs \in SUBSET Call, NEW state \in Terminals
  PROVE  ClassifiedAs(cs, state, r, Classified(r, cs, state))
BY ClassifiedFields DEF ClassifiedAs

LEMMA HardFinalizeSound ==
  ASSUME RunTyped, SoundNow, HardFinalize
  PROVE  SoundNext
<1> DEFINE never == Undispatched(run)
           entered == Open(run) \ never
           s == Classified(run, never, "not_dispatched")
           f == Classified(s, entered, "unresolved_provider_outcome")
           lanes == [l \in Lane |-> "failed"]
           tokens == [c \in Call |-> IF f.token[c] = "live" THEN "canceled" ELSE f.token[c]]
           u == [f EXCEPT !.control = "failed"]
           w == [u EXCEPT !.lane = lanes]
<1>1. /\ \A c \in Call : ~InFlight(c)
      /\ run' = [f EXCEPT !.control = "failed", !.lane = lanes, !.token = tokens]
      /\ execution' = [c \in Call |-> IF c \in entered THEN "reconciliation_hold" ELSE execution[c]]
      /\ dispatcher' = dispatcher
  BY DEF HardFinalize
<1>2. run \in Tables /\ plan \in Plans
  BY DEF RunTyped
<1>3. Steady(run, execution, dispatcher)
  BY DEF SoundNow, Sound
<1>4. /\ never \in SUBSET Call /\ never \in SUBSET Open(run)
      /\ entered \in SUBSET Call /\ entered = Open(run) \ never
      /\ \A c \in Call : /\ c \in never <=> c \in Open(run) /\ run.token[c] # "entered"
                         /\ c \in entered <=> c \in Open(run) /\ run.token[c] = "entered"
  BY DEF Undispatched, Open
<1>5. /\ "not_dispatched" \in Terminals /\ "unresolved_provider_outcome" \in Terminals
  BY DEF Terminals
<1> HIDE DEF never, entered
<1>6. /\ s \in Tables /\ s.control = run.control /\ s.held = run.held /\ s.token = run.token
      /\ s.barrier = run.barrier
      /\ \A c \in Call : s.attempt[c] = IF c \in never THEN "not_dispatched" ELSE run.attempt[c]
      /\ Open(s) = Open(run) \ never
  <2>1. plan \in Plans /\ run \in Tables /\ never \in SUBSET Call /\ "not_dispatched" \in Terminals
    BY <1>2, <1>4, <1>5
  <2> QED
    BY <2>1, ClassifiedFields
<1>7. Counted(s)
  BY <1>2, <1>3, <1>4, <1>5, CountedClassified DEF Steady
<1> HIDE DEF s
<1>8. /\ f \in Tables /\ f.control = s.control /\ f.held = s.held /\ f.token = s.token
      /\ f.barrier = s.barrier
      /\ \A c \in Call : f.attempt[c] = IF c \in entered THEN "unresolved_provider_outcome"
                                        ELSE s.attempt[c]
      /\ Open(f) = Open(s) \ entered
  <2>1. /\ plan \in Plans /\ s \in Tables /\ entered \in SUBSET Call
        /\ "unresolved_provider_outcome" \in Terminals
    BY <1>2, <1>4, <1>5, <1>6
  <2>2. ClassifiedAs(entered, "unresolved_provider_outcome", s, f)
    BY <2>1, ClassifiedKeeps
  <2> HIDE DEF f
  <2> QED
    BY <2>2 DEF ClassifiedAs
<1>9. Counted(f)
  BY <1>2, <1>4, <1>5, <1>6, <1>7, CountedClassified
<1> HIDE DEF f
<1>10. lanes \in [Lane -> LaneStates] /\ tokens \in [Call -> TokenStates]
  BY <1>8 DEF LaneStates, TokenStates, Tables
<1>11. \A c \in Call : tokens[c] = IF run.token[c] = "live" THEN "canceled" ELSE run.token[c]
  BY <1>6, <1>8
<1> HIDE DEF lanes, tokens
<1>12. /\ run' \in Tables /\ run'.control = "failed" /\ run'.held = run.held
       /\ run'.token = tokens /\ run'.barrier = run.barrier /\ run'.attempt = f.attempt
       /\ run'.gate = f.gate /\ run'.usable = f.usable
  <2>1. /\ u \in Tables /\ u.control = "failed" /\ u.held = f.held
        /\ u.token = f.token /\ u.barrier = f.barrier /\ u.attempt = f.attempt
        /\ u.gate = f.gate /\ u.usable = f.usable
    BY <1>8 DEF Tables
  <2> HIDE DEF u
  <2>2. /\ w \in Tables /\ w.control = "failed" /\ w.held = f.held
        /\ w.token = f.token /\ w.barrier = f.barrier /\ w.attempt = f.attempt
        /\ w.gate = f.gate /\ w.usable = f.usable
    BY <1>10, <2>1 DEF Tables
  <2>3. run' = [w EXCEPT !.token = tokens]
    BY <1>1 DEF u
  <2> HIDE DEF w
  <2> QED
    BY <1>6, <1>8, <1>10, <2>2, <2>3 DEF Tables
<1>13. \A c \in Call : run'.attempt[c] = IF c \in Open(run)
                         THEN IF run.token[c] = "entered" THEN "unresolved_provider_outcome"
                              ELSE "not_dispatched"
                         ELSE run.attempt[c]
  BY <1>4, <1>6, <1>8, <1>12
<1>14. Open(run') = {}
  BY <1>13 DEF Open, Terminals
<1>15. CallsAgree(run', execution', dispatcher')
  <2>1. SUFFICES ASSUME NEW c \in Call
                 PROVE  CallAgrees(run'.attempt[c], run'.token[c], execution'[c], dispatcher'[c])
    BY DEF CallsAgree
  <2>2. CallAgrees(run.attempt[c], run.token[c], execution[c], dispatcher[c])
        /\ run.attempt[c] \in AttemptStates /\ run.token[c] \in TokenStates
        /\ dispatcher[c] \in {"idle", "succeeded", "failed"}
    BY <1>1, OneCall DEF InFlight
  <2>3. /\ dispatcher'[c] = dispatcher[c]
        /\ execution'[c] = IF c \in entered THEN "reconciliation_hold" ELSE execution[c]
        /\ run'.token[c] = IF run.token[c] = "live" THEN "canceled" ELSE run.token[c]
    BY <1>1, <1>11, <1>12
  <2>4. c \in Open(run) <=> run.attempt[c] \notin Terminals
    BY DEF Open
  <2>5. CASE c \in Open(run) /\ run.token[c] = "entered"
    BY <1>4, <1>13, <2>2, <2>3, <2>4, <2>5
    DEF CallAgrees, Answered, Terminals, Usable, Nonusable
  <2>6. CASE c \in Open(run) /\ run.token[c] # "entered"
    <3>1. run'.attempt[c] = "not_dispatched" /\ execution'[c] = execution[c]
      BY <1>4, <1>13, <2>3, <2>6
    <3> QED
      BY <2>2, <2>3, <2>4, <2>6, <3>1, CallFails
  <2>7. CASE c \notin Open(run)
    <3>1. run'.attempt[c] = run.attempt[c] /\ execution'[c] = execution[c]
      BY <1>4, <1>13, <2>3, <2>7
    <3>2. CASE run.token[c] = "entered"
      BY <2>2, <2>3, <3>1, <3>2
    <3>3. CASE run.token[c] # "entered"
      BY <2>2, <2>3, <2>4, <2>7, <3>1, <3>3, CallFails
    <3> QED
      BY <3>2, <3>3
  <2> QED
    BY <2>5, <2>6, <2>7
<1>16. Counted(run')
  <2>1. \A c \in Call : \/ run'.attempt[c] = f.attempt[c]
                        \/ run'.attempt[c] \notin Terminals /\ f.attempt[c] \notin Terminals
    BY <1>12
  <2> QED
    BY <1>9, <1>12, <2>1, CountedSame
<1>17. Follows(run, run')
  <2>1. \A c \in Call : run'.attempt[c] # "reconciliation_pending"
    <3>1. ASSUME NEW c \in Call, run'.attempt[c] = "reconciliation_pending" PROVE FALSE
      BY <1>14, <3>1 DEF Open, Terminals, Usable, Nonusable
    <3> QED
      BY <3>1
  <2>2. run.token \in [Call -> TokenStates]
    BY <1>2 DEF Tables
  <2> QED
    BY <1>11, <1>12, <1>14, <2>1, <2>2 DEF Follows
<1>18. \A c \in Call : execution'[c] # "none" => execution[c] # "none"
  <2>1. ASSUME NEW c \in Call, execution'[c] # "none", execution[c] = "none" PROVE FALSE
    <3>1. c \in Open(run) /\ run.token[c] = "entered"
      BY <1>1, <1>4, <2>1
    <3> QED
      BY <2>1, <3>1, OneCall DEF CallAgrees, Open, Terminals, AttemptStates
  <2> QED
    BY <2>1
<1>19. \A c \in Call : dispatcher'[c] = "idle" <=> dispatcher[c] = "idle"
  BY <1>1
<1>20. /\ BarriersHold(run', dispatcher') /\ Capped(run') /\ PendingHeld(run')
       /\ SingleFlight(run', execution')
  BY <1>2, <1>3, <1>12, <1>17, <1>18, <1>19, FollowsKeeps DEF Steady
<1>21. Quiescent(run') /\ OneLost(run')
  BY <1>12, <1>14 DEF Quiescent, OneLost
<1> QED
  BY <1>12, <1>15, <1>16, <1>20, <1>21 DEF SoundNext, Sound, Steady

(* The dispatcher of one call of a sequential lane starts.                     *)
LEMMA StartsOne ==
  ASSUME plan \in Plans, NEW r \in Tables, NEW x, NEW d \in [Call -> DispatchStates],
         Sound(r, x, d), NEW c \in Call, plan[c].lane # Burst, d[c] = "idle"
  PROVE  Sound(r, x, [d EXCEPT ![c] = "called"])
<1> DEFINE e == [d EXCEPT ![c] = "called"]
<1>1. e[c] = "called" /\ \A k \in Call : k # c => e[k] = d[k]
  OBVIOUS
<1> HIDE DEF e
<1>2. CallsAgree(r, x, e)
  BY <1>1 DEF Sound, Steady, CallsAgree, CallAgrees, Answered
<1>3. BarriersHold(r, e)
  BY <1>1 DEF Sound, Steady, BarriersHold, Of
<1> QED
  BY <1>2, <1>3 DEF Sound, Steady, e

(* A burst starts: every call of its block waits, and is planned.              *)
LEMMA StartsBurst ==
  ASSUME plan \in Plans, NEW r \in Tables, NEW s \in Tables, NEW x, NEW d, NEW e,
         Sound(r, x, d), NEW b \in Block, NEW calls \in SUBSET Group(Burst, b),
         \A c \in Group(Burst, b) : d[c] = "idle",
         \A c \in Call : (c \in calls => e[c] = "called") /\ (c \notin calls => e[c] = d[c]),
         s.control = r.control, s.owner = r.owner, s.held = r.held, s.attempt = r.attempt,
         s.token = r.token, s.gate = r.gate, s.usable = r.usable,
         \A m \in Block : m # b => s.barrier[m] = r.barrier[m],
         s.barrier[b] = [state |-> "preparing", planned |-> calls]
  PROVE  Sound(s, x, e)
<1>1. \A c \in calls : c \in Call /\ d[c] = "idle" /\ plan[c].lane = Burst /\ plan[c].block = b
  BY DEF Group
<1>2. \A c \in Call : CallAgrees(r.attempt[c], r.token[c], x[c], d[c])
  BY DEF Sound, Steady, CallsAgree
<1>3. CallsAgree(s, x, e)
  BY <1>1, <1>2 DEF CallsAgree, CallAgrees, Answered
<1>4. s.barrier[b].state = "preparing" /\ s.barrier[b].planned = calls
  OBVIOUS
<1>5. BarriersHold(r, d)
  BY DEF Sound, Steady
<1>6. \A c \in Of(Burst) : c \in Call /\ plan[c].lane = Burst /\ plan[c].block \in Block
  BY PlanFacts DEF Of
<1>7. \A c \in Of(Burst) : plan[c].block = b => d[c] = "idle" /\ r.token[c] = "none"
  <2>1. \A c \in Of(Burst) : plan[c].block = b => d[c] = "idle"
    BY <1>6 DEF Group
  <2>2. SUFFICES ASSUME NEW c \in Of(Burst), plan[c].block = b PROVE r.token[c] = "none"
    BY <2>1
  <2>3. CallAgrees(r.attempt[c], r.token[c], x[c], d[c]) /\ d[c] = "idle"
    BY <1>2, <1>6, <2>1, <2>2
  <2> QED
    BY <2>3 DEF CallAgrees
<1>8. BarriersHold(s, e)
  <2>1. \A c \in Of(Burst) : e[c] # "idle" => c \in s.barrier[plan[c].block].planned
    <3>1. SUFFICES ASSUME NEW c \in Of(Burst), e[c] # "idle"
                   PROVE  c \in s.barrier[plan[c].block].planned
      OBVIOUS
    <3>2. c \in Call /\ plan[c].block \in Block
      BY <1>6
    <3>3. CASE plan[c].block = b
      BY <1>4, <1>7, <3>1, <3>2, <3>3
    <3>4. CASE plan[c].block # b
      <4>1. c \notin calls
        BY <1>1, <3>4
      <4>2. c \in r.barrier[plan[c].block].planned
        BY <1>5, <3>1, <3>2, <4>1 DEF BarriersHold
      <4> QED
        BY <3>2, <3>4, <4>2
    <3> QED
      BY <3>3, <3>4
  <2>2. \A m \in Block : \A c \in s.barrier[m].planned :
          /\ c \in Of(Burst) /\ plan[c].block = m /\ e[c] # "idle"
          /\ s.barrier[m].state = "released" => s.token[c] # "none"
    <3>1. SUFFICES ASSUME NEW m \in Block, NEW c \in s.barrier[m].planned
                   PROVE  /\ c \in Of(Burst) /\ plan[c].block = m /\ e[c] # "idle"
                          /\ s.barrier[m].state = "released" => s.token[c] # "none"
      OBVIOUS
    <3>2. CASE m = b
      BY <1>1, <1>4, <3>1, <3>2 DEF Of
    <3>3. CASE m # b
      <4>1. /\ c \in Of(Burst) /\ plan[c].block = m /\ d[c] # "idle"
            /\ s.barrier[m].state = "released" => r.token[c] # "none"
        BY <1>5, <3>1, <3>3 DEF BarriersHold
      <4> QED
        BY <1>6, <3>3, <4>1
    <3> QED
      BY <3>2, <3>3
  <2>3. \A c \in Of(Burst) : s.token[c] = "entered" => Released(s, c)
    BY <1>5, <1>6, <1>7 DEF BarriersHold, Released
  <2> QED
    BY <2>1, <2>2, <2>3 DEF BarriersHold
<1>9. Open(s) = Open(r) /\ Dispatched(s) = Dispatched(r) /\ Lost(s) = Lost(r)
      /\ UsableCalls(s) = UsableCalls(r)
  BY DEF Open, Dispatched, Lost, UsableCalls
<1>10. Finished(s) = Finished(r)
  BY <1>9 DEF Finished
<1>11. Counted(s) /\ Capped(s) /\ PendingHeld(s) /\ SingleFlight(s, x) /\ OneLost(s)
  BY <1>9, <1>10 DEF Sound, Steady, Counted, Capped, PendingHeld, SingleFlight, OneLost
<1>12. Quiescent(s)
  <2>1. SUFFICES ASSUME s.control = "failed", NEW c \in Open(s)
                 PROVE  /\ s.token[c] \in {"live", "entered"}
                        /\ plan[c].lane = Burst => Released(s, c)
    BY DEF Quiescent
  <2>2. /\ c \in Call /\ r.token[c] \in {"live", "entered"}
        /\ plan[c].lane = Burst => Released(r, c)
    BY <1>9, <2>1 DEF Sound, Steady, Quiescent, Open
  <2>3. plan[c].lane = Burst => plan[c].block # b /\ plan[c].block \in Block
    BY <1>7, <2>2, PlanFacts DEF Of
  <2> QED
    BY <2>2, <2>3 DEF Released
<1> QED
  BY <1>3, <1>8, <1>11, <1>12 DEF Sound, Steady

(* What a lane may start.                                                      *)
Startable(l, calls) ==
  /\ l \in Lane /\ calls \in SUBSET Of(l) /\ calls # {}
  /\ \A c \in calls : dispatcher[c] = "idle"
  /\ l = Burst => \E b \in Block : /\ calls \in SUBSET Group(Burst, b)
                                   /\ \A c \in Group(Burst, b) : dispatcher[c] = "idle"

LEMMA StartSound ==
  ASSUME RunTyped, NEW l, NEW calls, Startable(l, calls), NEW r \in Tables,
         Sound(r, execution, dispatcher), execution' = execution, Start(l, calls, r)
  PROVE  SoundNext
<1>1. plan \in Plans /\ dispatcher \in [Call -> DispatchStates]
  BY DEF RunTyped
<1>2. calls \in SUBSET Call /\ calls # {} /\ \A c \in calls : plan[c].lane = l
  BY DEF Startable, Of
<1>3. Min(calls) \in calls
  BY <1>1, <1>2, FirstCall
<1>4. CASE l # Burst
  <2>1. run' = r /\ dispatcher' = [dispatcher EXCEPT ![Min(calls)] = "called"]
    BY <1>4 DEF Start
  <2>2. Min(calls) \in Call /\ plan[Min(calls)].lane # Burst /\ dispatcher[Min(calls)] = "idle"
    BY <1>2, <1>3, <1>4 DEF Startable
  <2> QED
    BY <1>1, <2>1, <2>2, StartsOne DEF SoundNext
<1>5. CASE l = Burst
  <2>1. PICK b \in Block : /\ calls \in SUBSET Group(Burst, b)
                           /\ \A c \in Group(Burst, b) : dispatcher[c] = "idle"
    BY <1>5 DEF Startable
  <2>2. plan[Min(calls)].block = b
    BY <1>3, <2>1 DEF Group
  <2> DEFINE barriers == [r.barrier EXCEPT ![b] = [state |-> "preparing", planned |-> calls]]
  <2>3. /\ run' = [r EXCEPT !.barrier = barriers]
        /\ dispatcher' = [c \in Call |-> IF c \in calls THEN "called" ELSE dispatcher[c]]
    BY <1>5, <2>2 DEF Start
  <2>4. r.barrier \in [Block -> [state : BarrierStates, planned : SUBSET Call]]
    BY DEF Tables
  <2>5. /\ barriers \in [Block -> [state : BarrierStates, planned : SUBSET Call]]
        /\ \A m \in Block : m # b => barriers[m] = r.barrier[m]
        /\ barriers[b] = [state |-> "preparing", planned |-> calls]
    BY <1>2, <2>4 DEF BarrierStates
  <2> HIDE DEF barriers
  <2>6. /\ run' \in Tables /\ run'.control = r.control /\ run'.owner = r.owner
        /\ run'.held = r.held /\ run'.attempt = r.attempt /\ run'.token = r.token
        /\ run'.gate = r.gate /\ run'.usable = r.usable /\ run'.barrier = barriers
    BY <2>3, <2>5 DEF Tables
  <2>7. \A c \in Call : /\ c \in calls => dispatcher'[c] = "called"
                        /\ c \notin calls => dispatcher'[c] = dispatcher[c]
    BY <2>3
  <2>8. Sound(run', execution, dispatcher')
    BY <1>1, <2>1, <2>5, <2>6, <2>7, StartsBurst
  <2> QED
    BY <2>6, <2>8 DEF SoundNext
<1> QED
  BY <1>4, <1>5

(* A step of a call: the backlog stays, no call starts, and while the run is   *)
(* active a lane is held by no more than the call of the step.                 *)
LaneGoes(l, r, s, d) ==
  /\ \A c \in s.held[l] : c \in Of(l) /\ c \in Open(s) /\ d[c] # "idle"
  /\ s.held[l] # {} <=> s.lane[l] = "held"
  /\ s.lane[l] # "failed"
  /\ Busy(r, l) => Busy(s, l)
  /\ Busy(s, l) => Busy(r, l) \/ \E c \in Of(l) : Working(c, r, d)

Quietly(r, s, d) ==
  /\ s.backlog = r.backlog
  /\ s.control = "active" =>
       /\ r.control = "active" /\ \A c \in Open(s) : c \in Open(r)
       /\ \A c \in Open(s) : r.attempt[c] = "reconciliation_pending" =>
            s.attempt[c] = "reconciliation_pending"
       /\ \A l \in Lane : LaneGoes(l, r, s, d)

LEMMA QuietLanes ==
  ASSUME plan \in Plans, NEW r, NEW s, NEW d, NEW e, NEW b, NEW n, LanesAt(r, d, b, n),
         Quietly(r, s, d), \A c \in Call : e[c] = "idle" <=> d[c] = "idle"
  PROVE  LanesAt(s, e, b, n)
<1>1. SUFFICES ASSUME NEW l \in Lane
               PROVE  /\ LaneWaits(l, s, e, b, n[l])
                      /\ s.control = "active" => LaneActive(l, s, e, b, n[l])
  BY DEF LanesAt
<1> DEFINE w == n[l]
<1>2. LaneWaits(l, r, d, b, w)
  BY DEF LanesAt
<1> HIDE DEF w
<1>3. Of(l) \subseteq Call /\ Group(l, b) \subseteq Call
  BY DEF Of, Group
<1>4. LaneWaits(l, s, e, b, w)
  <2>1. w.todo # {} => Min(w.todo) \in Call
    <3>1. w.todo \in SUBSET Call
      BY <1>2, <1>3 DEF LaneWaits
    <3> QED
      BY <3>1, FirstCall
  <2> QED
    BY <1>2, <1>3, <2>1 DEF LaneWaits, Unused, Quietly
<1>5. ASSUME s.control = "active" PROVE LaneActive(l, s, e, b, w)
  <2>1. /\ \A c \in Open(s) : c \in Open(r) /\ c \in Call
        /\ \A c \in Open(s) : r.attempt[c] = "reconciliation_pending" =>
             s.attempt[c] = "reconciliation_pending"
        /\ s.backlog = r.backlog /\ LaneGoes(l, r, s, d)
        /\ LaneActive(l, r, d, b, w)
    BY <1>5 DEF Quietly, LanesAt, Open, w
  <2>2. LaneHolds(l, r, d, b, w)
    BY <2>1 DEF LaneActive
  <2>3. \A c \in Of(l) : Working(c, s, e) => Working(c, r, d)
    BY <1>3, <2>1 DEF Working
  <2>4. w.stage = "enqueue" /\ Busy(s, l) => Busy(r, l)
    BY <2>1, <2>2 DEF LaneGoes, LaneHolds
  <2>5. LaneHolds(l, s, e, b, w)
    <3>1. /\ \A c \in s.held[l] : c \in Of(l) /\ c \in Open(s) /\ e[c] # "idle"
          /\ s.held[l] # {} <=> s.lane[l] = "held"
          /\ s.lane[l] # "failed"
          /\ \A c \in Of(l) : s.backlog[c] \in {"queued", "claimed"} => Busy(s, l)
      BY <1>3, <2>1, <2>2 DEF LaneHolds, LaneGoes
    <3>2. \A c, k \in Of(l) : s.backlog[c] = "claimed" =>
            /\ k \in Open(s) /\ e[k] # "idle" => s.backlog[k] = "claimed"
            /\ w.stage = "work" /\ k \in w.todo => s.backlog[k] = "claimed"
      BY <1>3, <2>1, <2>2 DEF LaneHolds
    <3>3. /\ \A c \in Of(l) : Working(c, s, e) =>
               /\ w.stage \in {"work", "stopped"}
               /\ w.stage = "work" => c \in w.todo /\ (l # Burst => c = Min(w.todo))
          /\ w.stage = "enqueue" /\ ~w.queued => w.todo = Group(l, b) \/ ~Busy(s, l)
      BY <2>2, <2>3, <2>4 DEF LaneHolds
    <3> QED
      BY <3>1, <3>2, <3>3 DEF LaneHolds
  <2>6. LaneFlights(l, r, d, w) => LaneFlights(l, s, e, w)
    BY <1>3, <2>1 DEF LaneFlights
  <2> QED
    BY <2>1, <2>5, <2>6 DEF LaneActive
<1> QED
  BY <1>4, <1>5 DEF w

(* The lanes stay as they are when no call is decided.                         *)
LEMMA StaysQuietly ==
  ASSUME NEW r, NEW s, NEW d, NEW b, NEW n, LanesAt(r, d, b, n),
         s.backlog = r.backlog, s.control = r.control, s.lane = r.lane, s.held = r.held,
         \A c \in Call : \/ s.attempt[c] = r.attempt[c]
                         \/ /\ s.attempt[c] \notin Terminals /\ r.attempt[c] \notin Terminals
                            /\ r.attempt[c] # "reconciliation_pending"
  PROVE  Quietly(r, s, d)
<1>1. Open(s) = Open(r)
  BY DEF Open
<1>2. \A c \in Open(s) : r.attempt[c] = "reconciliation_pending" =>
         s.attempt[c] = "reconciliation_pending"
  BY DEF Open
<1>3. ASSUME s.control = "active", NEW l \in Lane PROVE LaneGoes(l, r, s, d)
  <2>1. LaneHolds(l, r, d, b, n[l])
    BY <1>3 DEF LanesAt, LaneActive
  <2> QED
    BY <1>1, <2>1 DEF LaneHolds, LaneGoes, Busy
<1> QED
  BY <1>1, <1>2, <1>3 DEF Quietly

(* A decided call leaves the hold of its lane, and the lane is to resume when  *)
(* it was the last one.                                                        *)
LEMMA RemovedQuietly ==
  ASSUME plan \in Plans, NEW r, NEW s \in Tables, NEW c \in Call, NEW d, NEW b, NEW n,
         LanesAt(r, d, b, n),
         s.backlog = r.backlog, s.control = r.control, s.lane = r.lane, s.held = r.held,
         Open(s) = Open(r) \ {c}, \A k \in Call : k # c => s.attempt[k] = r.attempt[k]
  PROVE  Quietly(r, Removed(s, c, r.control), d)
<1> DEFINE m == plan[c].lane
           u == Removed(s, c, r.control)
<1>1. /\ u.control = s.control /\ u.attempt = s.attempt /\ u.backlog = s.backlog
      /\ u.held[m] = s.held[m] \ {c}
      /\ \A l \in Lane : l # m => u.held[l] = s.held[l] /\ u.lane[l] = s.lane[l]
      /\ c \in s.held[m] /\ u.held[m] = {} /\ r.control = "active" => u.lane[m] = "resume_pending"
      /\ c \notin s.held[m] \/ u.held[m] # {} => u.lane[m] = s.lane[m]
  BY RemovedFields
<1> HIDE DEF u
<1>2. Open(u) = Open(r) \ {c}
  BY <1>1 DEF Open
<1>3. ASSUME u.control = "active" PROVE \A l \in Lane : LaneGoes(l, r, u, d)
  <2>1. SUFFICES ASSUME NEW l \in Lane PROVE LaneGoes(l, r, u, d)
    OBVIOUS
  <2>2. LaneHolds(l, r, d, b, n[l]) /\ r.control = "active"
    BY <1>1, <1>3 DEF LanesAt, LaneActive
  <2>3. \A k \in r.held[l] : k \in Of(l) /\ k \in Open(r) /\ d[k] # "idle"
    BY <2>2 DEF LaneHolds
  <2>4. CASE l # m
    <3>1. u.held[l] = r.held[l] /\ u.lane[l] = r.lane[l]
      BY <1>1, <2>4
    <3>2. c \notin r.held[l]
      BY <2>3, <2>4 DEF Of
    <3> QED
      BY <1>2, <2>2, <2>3, <3>1, <3>2 DEF LaneHolds, LaneGoes, Busy
  <2>5. CASE l = m
    <3>1. \A k \in u.held[l] : k \in Of(l) /\ k \in Open(u) /\ d[k] # "idle"
      BY <1>1, <1>2, <2>3, <2>5
    <3>2. CASE c \in r.held[m] /\ u.held[m] = {}
      BY <1>1, <2>2, <2>5, <3>1, <3>2 DEF LaneHolds, LaneGoes, Busy
    <3>3. CASE c \notin r.held[m] \/ u.held[m] # {}
      <4>1. u.lane[l] = r.lane[l] /\ (u.held[l] # {} <=> r.held[l] # {})
        BY <1>1, <2>5, <3>3
      <4> QED
        BY <2>2, <3>1, <4>1 DEF LaneHolds, LaneGoes, Busy
    <3> QED
      BY <3>2, <3>3
  <2> QED
    BY <2>4, <2>5
<1>4. \A k \in Open(u) : k \in Open(r) /\ k \in Call /\ k # c
  BY <1>2 DEF Open
<1> QED
  BY <1>1, <1>3, <1>4 DEF Quietly, u

LEMMA FailedQuietly ==
  ASSUME plan \in Plans, NEW r, NEW s \in Tables, NEW d, s.backlog = r.backlog
  PROVE  Quietly(r, Failed(s), d)
<1>1. Failed(s).control = "failed" /\ Failed(s).backlog = s.backlog
  <2>1. CASE s.control = "active"
    BY <2>1, FailedFields
  <2>2. CASE s.control # "active"
    <3>1. s.control = "failed"
      BY <2>2 DEF Tables
    <3> QED
      BY <3>1 DEF Failed
  <2> QED
    BY <2>1, <2>2
<1> QED
  BY <1>1 DEF Quietly

(* One call is decided, as the lanes see it.                                   *)
LEMMA DecidedCall ==
  ASSUME plan \in Plans, NEW r \in Tables, NEW c \in Call, NEW state \in Terminals
  PROVE  LET s == Classified(r, {c}, state) IN
         /\ s \in Tables /\ s.backlog = r.backlog /\ s.control = r.control
         /\ s.lane = r.lane /\ s.held = r.held /\ Open(s) = Open(r) \ {c}
         /\ \A k \in Call : k # c => s.attempt[k] = r.attempt[k]
<1> DEFINE only == {c}
<1>1. only \in SUBSET Call
  OBVIOUS
<1> HIDE DEF only
<1>2. ClassifiedAs(only, state, r, Classified(r, only, state))
  BY <1>1, ClassifiedKeeps
<1> QED
  BY <1>2 DEF ClassifiedAs, only

LEMMA MarksQuietly ==
  ASSUME RunTyped, SoundNow, LanesNow, NEW c \in Call, Admit(c) \/ Authorize(c) \/
         \E to \in {"sent", "unsent"} : MarkEntered(c, to)
  PROVE  Quietly(run, run', dispatcher)
<1>1. run \in Tables /\ run.attempt \in [Call -> AttemptStates]
  BY DEF RunTyped, Tables
<1>2. CallAgrees(run.attempt[c], run.token[c], execution[c], dispatcher[c])
  BY OneCall
<1>3. CASE Admit(c)
  <2> DEFINE attempts == [run.attempt EXCEPT ![c] = "admission_started"]
  <2>1. run.attempt[c] = "planned" /\ run' = [run EXCEPT !.attempt = attempts]
    BY <1>3 DEF Admit
  <2>2. attempts[c] = "admission_started" /\ \A k \in Call : k # c => attempts[k] = run.attempt[k]
    BY <1>1
  <2> HIDE DEF attempts
  <2>3. /\ run'.backlog = run.backlog /\ run'.control = run.control /\ run'.lane = run.lane
        /\ run'.held = run.held /\ run'.attempt = attempts
    BY <1>1, <2>1 DEF Tables
  <2>4. \A k \in Call : \/ run'.attempt[k] = run.attempt[k]
                        \/ /\ run'.attempt[k] \notin Terminals /\ run.attempt[k] \notin Terminals
                           /\ run.attempt[k] # "reconciliation_pending"
    BY <2>1, <2>2, <2>3 DEF Terminals, Usable, Nonusable
  <2> QED
    BY <2>3, <2>4, StaysQuietly DEF LanesNow
<1>4. CASE Authorize(c)
  <2>1. MarksCall(c, "dispatch_authorized", "live") /\ run.attempt[c] = "admission_started"
    BY <1>4, MarksTables DEF Authorize, AttemptStates, TokenStates
  <2>2. \A k \in Call : \/ run'.attempt[k] = run.attempt[k]
                        \/ /\ run'.attempt[k] \notin Terminals /\ run.attempt[k] \notin Terminals
                           /\ run.attempt[k] # "reconciliation_pending"
    BY <1>1, <2>1 DEF MarksCall, Terminals, Usable, Nonusable
  <2> QED
    BY <2>1, <2>2, StaysQuietly DEF LanesNow, MarksCall
<1>5. ASSUME NEW to \in {"sent", "unsent"}, MarkEntered(c, to)
      PROVE  Quietly(run, run', dispatcher)
  <2>1. MarksCall(c, "primitive_entered", "entered")
    BY <1>5, MarksTables DEF MarkEntered, AttemptStates, TokenStates
  <2>2. run.token[c] = "live" /\ dispatcher[c] = "entering"
    BY <1>5 DEF MarkEntered, Enterable, Step
  <2>3. run.attempt[c] = "dispatch_authorized"
    BY <1>2, <2>2 DEF CallAgrees
  <2>4. \A k \in Call : \/ run'.attempt[k] = run.attempt[k]
                        \/ /\ run'.attempt[k] \notin Terminals /\ run.attempt[k] \notin Terminals
                           /\ run.attempt[k] # "reconciliation_pending"
    BY <1>1, <2>1, <2>3 DEF MarksCall, Terminals, Usable, Nonusable
  <2> QED
    BY <2>1, <2>4, StaysQuietly DEF LanesNow, MarksCall
<1> QED
  BY <1>3, <1>4, <1>5

LEMMA HoldQuietly ==
  ASSUME RunTyped, SoundNow, LanesNow, NEW c \in Call, HoldAttempt(c)
  PROVE  Quietly(run, run', dispatcher)
<1> DEFINE attempts == [run.attempt EXCEPT ![c] = "reconciliation_pending"]
           generations == [run.generation EXCEPT ![c] = run.generation[c] \/ dispatcher[c] # "lost"]
           g == [run EXCEPT !.generation = generations]
           u == [run EXCEPT !.attempt = attempts, !.generation = generations]
           m == plan[c].lane
<1>1. /\ run.control = "active" /\ c \in Open(run) /\ run' = Holding(u, c)
      /\ dispatcher[c] \in {"ambiguous", "lost", "kept"}
  BY DEF HoldAttempt, Step
<1>2. run \in Tables /\ plan \in Plans
  BY DEF RunTyped
<1>3. CallAgrees(run.attempt[c], run.token[c], execution[c], dispatcher[c])
  BY OneCall
<1>4. run.attempt[c] = "primitive_entered"
  BY <1>1, <1>3 DEF CallAgrees, Answered
<1>5. /\ attempts \in [Call -> AttemptStates] /\ attempts[c] = "reconciliation_pending"
      /\ \A k \in Call : k # c => attempts[k] = run.attempt[k]
      /\ generations \in [Call -> BOOLEAN]
  BY <1>2 DEF Tables, AttemptStates
<1>6. /\ u \in Tables /\ u.control = run.control /\ u.held = run.held /\ u.lane = run.lane
      /\ u.attempt = attempts /\ u.backlog = run.backlog /\ u.barrier = run.barrier
  <2> HIDE DEF attempts, generations
  <2>1. /\ g \in Tables /\ g.control = run.control /\ g.held = run.held /\ g.lane = run.lane
        /\ g.attempt = run.attempt /\ g.backlog = run.backlog /\ g.barrier = run.barrier
    BY <1>2, <1>5 DEF Tables
  <2>2. u = [g EXCEPT !.attempt = attempts]
    BY <1>2 DEF Tables
  <2> HIDE DEF g, u
  <2> QED
    BY <1>5, <2>1, <2>2 DEF Tables
<1> HIDE DEF attempts, u
<1>7. /\ run'.control = u.control /\ run'.attempt = u.attempt /\ run'.backlog = u.backlog
      /\ \A l \in Lane : l # m => run'.held[l] = u.held[l] /\ run'.lane[l] = u.lane[l]
      /\ u.held[m] # {} => run'.held[m] = u.held[m] \union {c} /\ run'.lane[m] = u.lane[m]
      /\ u.held[m] = {} => run'.held[m] = Companions(u, c) /\ run'.lane[m] = "held"
  <2>1. run' = Holding(u, c) /\ plan \in Plans /\ u \in Tables
    BY <1>1, <1>2, <1>6
  <2> QED
    BY <2>1, HoldingFields
<1>8. Open(run') = Open(run) /\ Open(u) = Open(run)
  BY <1>4, <1>5, <1>6, <1>7 DEF Open, Terminals, Usable, Nonusable
<1>9. c \in Of(m) /\ Working(c, run, dispatcher)
  BY <1>1, <1>4 DEF Of, Working
<1>10. c \in Companions(u, c)
       /\ \A k \in Companions(u, c) : k \in Of(m) /\ k \in Open(run) /\ dispatcher[k] # "idle"
  <2>1. BarriersHold(run, dispatcher)
    BY DEF SoundNow, Sound, Steady
  <2>2. plan[c].block \in Block
    BY <1>2, PlanFacts
  <2>3. CASE plan[c].lane = Burst /\ Released(u, c) /\ c \in u.barrier[plan[c].block].planned
    <3>1. Companions(u, c) = Open(run) \cap run.barrier[plan[c].block].planned
      BY <1>6, <1>8, <2>3 DEF Companions
    <3>2. \A k \in run.barrier[plan[c].block].planned : k \in Of(Burst) /\ dispatcher[k] # "idle"
      BY <2>1, <2>2 DEF BarriersHold
    <3> QED
      BY <1>1, <1>6, <2>3, <3>1, <3>2
  <2>4. CASE ~(plan[c].lane = Burst /\ Released(u, c) /\ c \in u.barrier[plan[c].block].planned)
    <3>1. Companions(u, c) = {c}
      BY <2>4 DEF Companions
    <3> QED
      BY <1>1, <1>9, <3>1
  <2> QED
    BY <2>3, <2>4
<1>11. ASSUME NEW l \in Lane PROVE LaneGoes(l, run, run', dispatcher)
  <2>1. LaneHolds(l, run, dispatcher, block, runner[l])
    BY <1>1 DEF LanesNow, LanesAt, LaneActive
  <2>2. CASE l # m
    <3>1. run'.held[l] = run.held[l] /\ run'.lane[l] = run.lane[l]
      BY <1>6, <1>7, <2>2
    <3> QED
      BY <1>8, <2>1, <3>1 DEF LaneHolds, LaneGoes, Busy
  <2>3. CASE l = m /\ run.held[m] # {}
    <3>1. run'.held[l] = run.held[l] \union {c} /\ run'.lane[l] = run.lane[l]
      BY <1>6, <1>7, <2>3
    <3> QED
      BY <1>1, <1>8, <1>9, <2>1, <2>3, <3>1 DEF LaneHolds, LaneGoes, Busy
  <2>4. CASE l = m /\ run.held[m] = {}
    <3>1. run'.held[l] = Companions(u, c) /\ run'.lane[l] = "held"
      BY <1>6, <1>7, <2>4
    <3> QED
      BY <1>8, <1>9, <1>10, <2>4, <3>1 DEF LaneGoes, Busy
  <2> QED
    BY <2>2, <2>3, <2>4
<1>12. \A k \in Open(run') : run.attempt[k] = "reconciliation_pending" =>
         run'.attempt[k] = "reconciliation_pending"
  BY <1>4, <1>5, <1>6, <1>7 DEF Open
<1> QED
  BY <1>1, <1>6, <1>7, <1>8, <1>11, <1>12 DEF Quietly

LEMMA DispatchQuietly ==
  ASSUME RunTyped, SoundNow, LanesNow, NEW c \in Call, Dispatch(c)
  PROVE  /\ Quietly(run, run', dispatcher) /\ UNCHANGED <<plan, block, runner>>
         /\ \A k \in Call : dispatcher'[k] = "idle" <=> dispatcher[k] = "idle"
<1>1. run \in Tables /\ plan \in Plans /\ dispatcher \in [Call -> DispatchStates]
  BY DEF RunTyped
<1>2. UNCHANGED <<plan, block, runner>>
  BY DEF Dispatch, Admit, Authorize, AuthorizeOverCap, AwaitRelease, MarkEntered, MarkRefused,
         ProviderAnswers, ProviderAmbiguous, CompleteAttempt, CompletionFails, HoldAttempt,
         HoldExecution, NotDispatched, HandlerEnds, RecoverPreEntry
<1>3. \A k \in Call : dispatcher'[k] = "idle" <=> dispatcher[k] = "idle"
  BY <1>1
  DEF Dispatch, Admit, Authorize, AuthorizeOverCap, AwaitRelease, MarkEntered, MarkRefused,
      ProviderAnswers, ProviderAmbiguous, CompleteAttempt, CompletionFails, HoldAttempt,
      HoldExecution, NotDispatched, HandlerEnds, RecoverPreEntry, Step, InFlight
<1>4. /\ "not_dispatched" \in Terminals /\ "completed_verified" \in Terminals
  BY DEF Terminals, Usable
<1> SUFFICES Quietly(run, run', dispatcher)
  BY <1>2, <1>3
<1>5. CASE run' = run
  BY <1>5, StaysQuietly DEF LanesNow
<1>6. CASE Admit(c) \/ Authorize(c) \/ \E to \in {"sent", "unsent"} : MarkEntered(c, to)
  BY <1>6, MarksQuietly
<1>7. CASE AuthorizeOverCap(c)
  BY <1>1, <1>7, FailedQuietly DEF AuthorizeOverCap
<1>8. CASE CompleteAttempt(c)
  <2> DEFINE s == Classified(run, {c}, "completed_verified")
  <2>1. /\ s \in Tables /\ s.backlog = run.backlog /\ s.control = run.control
        /\ s.lane = run.lane /\ s.held = run.held /\ Open(s) = Open(run) \ {c}
        /\ \A k \in Call : k # c => s.attempt[k] = run.attempt[k]
    BY <1>1, <1>4, DecidedCall
  <2>2. run' = Removed(s, c, run.control)
    BY <1>8 DEF CompleteAttempt
  <2> HIDE DEF s
  <2> QED
    BY <1>1, <2>1, <2>2, RemovedQuietly DEF LanesNow
<1>9. CASE HoldAttempt(c)
  BY <1>9, HoldQuietly
<1>10. CASE NotDispatched(c)
  <2> DEFINE s == Classified(run, {c}, "not_dispatched")
             u == Removed(s, c, "active")
  <2>1. s \in Tables /\ s.backlog = run.backlog
    BY <1>1, <1>4, DecidedCall
  <2>2. run' = Failed(u)
    BY <1>10 DEF NotDispatched
  <2> HIDE DEF s
  <2>3. u \in Tables /\ u.backlog = s.backlog
    BY <1>1, <2>1, RemovedFields
  <2> HIDE DEF u
  <2> QED
    BY <1>1, <2>1, <2>2, <2>3, FailedQuietly
<1>11. CASE RecoverPreEntry(c)
  <2> DEFINE tokens == [run.token EXCEPT ![c] = "canceled"]
             u == [run EXCEPT !.token = tokens]
             s == Classified(u, {c}, "not_dispatched")
  <2>1. run' = Failed(s)
    BY <1>11 DEF RecoverPreEntry
  <2>2. tokens \in [Call -> TokenStates]
    BY <1>1 DEF Tables, TokenStates
  <2> HIDE DEF tokens
  <2>3. u \in Tables /\ u.backlog = run.backlog
    BY <1>1, <2>2 DEF Tables
  <2> HIDE DEF u
  <2>4. s \in Tables /\ s.backlog = u.backlog
    BY <1>1, <1>4, <2>3, DecidedCall
  <2> HIDE DEF s
  <2> QED
    BY <1>1, <2>1, <2>3, <2>4, FailedQuietly
<1> QED
  BY <1>5, <1>6, <1>7, <1>8, <1>9, <1>10, <1>11
  DEF Dispatch, AwaitRelease, MarkRefused, ProviderAnswers, ProviderAmbiguous, CompletionFails,
      HoldExecution, HandlerEnds

LEMMA SettleQuietly ==
  ASSUME RunTyped, LanesNow, NEW c \in Call, NEW state \in Terminals,
         run' = Settled(run, c, state)
  PROVE  Quietly(run, run', dispatcher)
<1> DEFINE s == Classified(run, {c}, state)
           o == Owned(s, c, state)
           u == Removed(o, c, run.control)
<1>1. run \in Tables /\ plan \in Plans
  BY DEF RunTyped
<1>2. /\ s \in Tables /\ s.backlog = run.backlog /\ s.control = run.control
      /\ s.lane = run.lane /\ s.held = run.held /\ Open(s) = Open(run) \ {c}
      /\ \A k \in Call : k # c => s.attempt[k] = run.attempt[k]
  BY <1>1, DecidedCall
<1>3. run' \in {u, Failed(u)}
  BY DEF Settled
<1> HIDE DEF s
<1>4. /\ o \in Tables /\ o.backlog = s.backlog /\ o.control = s.control
      /\ o.lane = s.lane /\ o.held = s.held /\ o.attempt = s.attempt
  BY <1>1, <1>2, OwnedFields
<1> HIDE DEF o
<1>5. Open(o) = Open(run) \ {c}
  BY <1>2, <1>4 DEF Open
<1>6. Quietly(run, u, dispatcher)
  <2>1. \A k \in Call : k # c => o.attempt[k] = run.attempt[k]
    BY <1>2, <1>4
  <2>2. o.backlog = run.backlog /\ o.control = run.control /\ o.lane = run.lane
        /\ o.held = run.held
    BY <1>2, <1>4
  <2> QED
    BY <1>1, <1>4, <1>5, <2>1, <2>2, RemovedQuietly DEF LanesNow
<1>7. u \in Tables /\ u.backlog = run.backlog
  <2>1. u \in Tables /\ u.backlog = o.backlog
    BY <1>1, <1>4, RemovedFields
  <2> QED
    BY <1>2, <1>4, <2>1
<1> HIDE DEF u
<1>8. Quietly(run, Failed(u), dispatcher)
  BY <1>1, <1>7, FailedQuietly
<1> QED
  BY <1>3, <1>6, <1>8

LEMMA ReconcileQuietly ==
  ASSUME RunTyped, LanesNow, NEW c \in Call, Reconcile(c)
  PROVE  /\ Quietly(run, run', dispatcher) /\ UNCHANGED <<plan, block, runner>>
         /\ dispatcher' = dispatcher
<1>1. run \in Tables /\ plan \in Plans
  BY DEF RunTyped
<1>2. UNCHANGED <<plan, dispatcher, block, runner>>
  BY DEF Reconcile, BeginLookup, ApplyLookup, LookupFails, Cutoff
<1>3. \/ run' = run \/ run' = Failed(run)
      \/ \E state \in Terminals : run' = Settled(run, c, state)
  <2>1. "unresolved_provider_outcome" \in Terminals
    BY DEF Terminals
  <2> QED
    BY <2>1 DEF Reconcile, BeginLookup, ApplyLookup, LookupFails, Cutoff, Settle
<1> SUFFICES Quietly(run, run', dispatcher)
  BY <1>2
<1>4. CASE run' = run
  BY <1>4, StaysQuietly DEF LanesNow
<1>5. CASE run' = Failed(run)
  BY <1>1, <1>5, FailedQuietly
<1>6. CASE \E state \in Terminals : run' = Settled(run, c, state)
  BY <1>6, SettleQuietly
<1> QED
  BY <1>3, <1>4, <1>5, <1>6

LEMMA HardFinalizeQuietly ==
  ASSUME RunTyped, HardFinalize
  PROVE  /\ Quietly(run, run', dispatcher) /\ UNCHANGED <<plan, block, runner>>
         /\ dispatcher' = dispatcher
<1> DEFINE never == Undispatched(run)
           entered == Open(run) \ never
           s == Classified(run, never, "not_dispatched")
           f == Classified(s, entered, "unresolved_provider_outcome")
           lanes == [l \in Lane |-> "failed"]
           tokens == [c \in Call |-> IF f.token[c] = "live" THEN "canceled" ELSE f.token[c]]
<1>1. /\ run' = [f EXCEPT !.control = "failed", !.lane = lanes, !.token = tokens]
      /\ UNCHANGED <<plan, dispatcher, block, runner>>
  BY DEF HardFinalize
<1>2. /\ run \in Tables /\ plan \in Plans
      /\ "not_dispatched" \in Terminals /\ "unresolved_provider_outcome" \in Terminals
      /\ never \in SUBSET Call /\ entered \in SUBSET Call
  BY DEF RunTyped, Terminals, Undispatched, Open
<1> HIDE DEF never, entered
<1>3. s \in Tables /\ s.backlog = run.backlog
  <2>1. ClassifiedAs(never, "not_dispatched", run, s)
    BY <1>2, ClassifiedKeeps
  <2> QED
    BY <2>1 DEF ClassifiedAs
<1> HIDE DEF s
<1>4. f \in Tables /\ f.backlog = s.backlog
  <2>1. ClassifiedAs(entered, "unresolved_provider_outcome", s, f)
    BY <1>2, <1>3, ClassifiedKeeps
  <2> QED
    BY <2>1 DEF ClassifiedAs
<1> HIDE DEF f, lanes, tokens
<1>5. run'.control = "failed" /\ run'.backlog = run.backlog
  BY <1>1, <1>3, <1>4 DEF Tables
<1> QED
  BY <1>1, <1>5 DEF Quietly

(* No step of a call disturbs the lanes.                                       *)
LEMMA CallLanes ==
  ASSUME RunTyped, SoundNow, LanesNow,
         (\E c \in Call : Dispatch(c) \/ Reconcile(c)) \/ HardFinalize
  PROVE  LanesNext
<1>1. plan \in Plans
  BY DEF RunTyped
<1>2. /\ Quietly(run, run', dispatcher) /\ block' = block /\ runner' = runner
      /\ \A k \in Call : dispatcher'[k] = "idle" <=> dispatcher[k] = "idle"
  BY DispatchQuietly, ReconcileQuietly, HardFinalizeQuietly
<1>3. LanesAt(run', dispatcher', block, runner)
  BY <1>1, <1>2, QuietLanes DEF LanesNow
<1> QED
  BY <1>2, <1>3 DEF LanesNext

-----------------------------------------------------------------------------
(* The steps of the runner.                                                    *)

LEMMA LanePlan ==
  ASSUME plan \in Plans, NEW l
  PROVE  /\ Of(l) \subseteq Call /\ Of(l) \subseteq Nat
         /\ \A b : Group(l, b) \subseteq Of(l)
         /\ \A b : \A c \in Of(l) : plan[c].block = b <=> c \in Group(l, b)
         /\ \A c \in Of(l) : plan[c].block \in Nat
         /\ \A c, k \in Of(l) : plan[c].block < plan[k].block => c < k
BY PlanFacts DEF Of, Group

LEMMA LaneMoves ==
  ASSUME plan \in Plans, LanesNow, NEW l \in Lane, block' = block, run'.control = run.control,
         \A m \in Lane : m # l => /\ SameLane(m, run, run', dispatcher, dispatcher')
                                  /\ runner'[m] = runner[m],
         LaneWaits(l, run', dispatcher', block, runner'[l]),
         run.control = "active" => LaneActive(l, run', dispatcher', block, runner'[l])
  PROVE  LanesNext
<1>1. SUFFICES ASSUME NEW m \in Lane
               PROVE  /\ LaneWaits(m, run', dispatcher', block', runner'[m])
                      /\ run'.control = "active" =>
                           LaneActive(m, run', dispatcher', block', runner'[m])
  BY DEF LanesNext, LanesAt
<1>2. CASE m # l
  <2>1. SameLane(m, run, run', dispatcher, dispatcher') /\ runner'[m] = runner[m]
    BY <1>2
  <2>2. /\ LaneWaits(m, run, dispatcher, block, runner[m])
        /\ run.control = "active" => LaneActive(m, run, dispatcher, block, runner[m])
    BY DEF LanesNow, LanesAt
  <2> QED
    BY <2>1, <2>2, SameLaneKeeps
<1> QED
  BY <1>2

(* What the runner queues was neither started nor queued before.               *)
LEMMA EnqueueKeeps ==
  ASSUME RunTyped, SoundNow, LanesNow, NEW l \in Lane, EnqueueNext(l)
  PROVE  SoundNext /\ LanesNext
<1> DEFINE w == runner[l]
           v == runner'[l]
           c == Min(w.todo)
           mark == IF Busy(run, l) /\ run.backlog[c] = "none" THEN "queued" ELSE run.backlog[c]
           backlogs == [run.backlog EXCEPT ![c] = mark]
<1>1. /\ w.stage \in {"enqueue", "rest"} /\ w.todo # {} /\ run.control = "active"
      /\ run' = [run EXCEPT !.backlog = backlogs]
      /\ runner' = [runner EXCEPT ![l].todo = @ \ {c}, ![l].queued = @ \/ Busy(run, l)]
      /\ UNCHANGED <<execution, dispatcher, block>>
  BY DEF EnqueueNext
<1>2. run \in Tables /\ plan \in Plans
  BY DEF RunTyped
<1>3. LaneWaits(l, run, dispatcher, block, w) /\ LaneActive(l, run, dispatcher, block, w)
  BY <1>1 DEF LanesNow, LanesAt
<1>4. w.todo \in SUBSET Of(l) /\ w.todo \in SUBSET Call /\ c \in w.todo
      /\ \A k \in w.todo : c <= k
  <2>1. w.todo \in SUBSET Of(l) /\ w.todo \in SUBSET Call
    BY <1>3, <1>2, LanePlan DEF LaneWaits
  <2> QED
    BY <1>1, <1>2, <2>1, FirstCall
<1>5. /\ v.stage = w.stage /\ v.todo = w.todo \ {c} /\ (v.queued <=> w.queued \/ Busy(run, l))
      /\ \A m \in Lane : m # l => runner'[m] = runner[m]
  BY <1>1 DEF RunTyped
<1>6. Unused(c, run, dispatcher) /\ plan[c].block <= block
  BY <1>1, <1>3, <1>4 DEF LaneWaits
<1>7. /\ backlogs \in [Call -> BacklogStates]
      /\ backlogs[c] = IF Busy(run, l) THEN "queued" ELSE "none"
      /\ \A k \in Call : k # c => backlogs[k] = run.backlog[k]
  BY <1>2, <1>4, <1>6 DEF Tables, BacklogStates, Unused
<1> HIDE DEF w, v, c, backlogs
<1>8. /\ run' \in Tables /\ run'.control = run.control /\ run'.owner = run.owner
      /\ run'.lane = run.lane /\ run'.held = run.held /\ run'.attempt = run.attempt
      /\ run'.token = run.token /\ run'.barrier = run.barrier /\ run'.gate = run.gate
      /\ run'.usable = run.usable /\ run'.backlog = backlogs
  BY <1>1, <1>2, <1>7 DEF Tables
<1>9. SoundNext
  <2>1. Beside(run, run')
    BY <1>8 DEF Beside
  <2>2. Steady(run', execution, dispatcher) /\ OneLost(run')
    BY <1>8, <2>1, BesideSteady DEF SoundNow, Sound
  <2> QED
    BY <1>1, <1>8, <2>2 DEF SoundNext, Sound
<1>10. Open(run') = Open(run) /\ (Busy(run', l) <=> Busy(run, l))
  BY <1>8 DEF Open, Busy
<1>11. LaneWaits(l, run', dispatcher, block, v)
  <2>1. \A k \in Of(l) : plan[k].block > block => k # c
    BY <1>2, <1>4, <1>6, LanePlan, <1>3 DEF RunTyped
  <2>2. \A k \in Of(l) : /\ plan[k].block > block => Unused(k, run', dispatcher)
                         /\ run'.backlog[k] = "queued" => dispatcher[k] = "idle"
    BY <1>2, <1>3, <1>6, <1>7, <1>8, <2>1, LanePlan DEF LaneWaits, Unused
  <2>3. l = Burst => \A k, j \in Of(l) :
          run'.backlog[k] = "queued" /\ plan[j].block = plan[k].block => dispatcher[j] = "idle"
    <3>1. SUFFICES ASSUME l = Burst, NEW k \in Of(l), NEW j \in Of(l),
                          run'.backlog[k] = "queued", plan[j].block = plan[k].block
                   PROVE  dispatcher[j] = "idle"
      OBVIOUS
    <3>2. CASE k # c
      BY <1>2, <1>3, <1>7, <1>8, <3>1, <3>2, LanePlan DEF LaneWaits
    <3>3. CASE k = c
      <4>1. w.stage = "enqueue" /\ c \in Group(l, block)
        BY <1>1, <1>3, <1>4, <3>1 DEF LaneWaits
      <4>2. j \in Group(l, block)
        BY <1>2, <3>1, <3>3, <4>1, LanePlan
      <4> QED
        BY <1>3, <4>1, <4>2 DEF LaneWaits
    <3> QED
      BY <3>2, <3>3
  <2>4. v.todo \in SUBSET Of(l) /\ \A k \in v.todo : plan[k].block <= block
    BY <1>3, <1>5 DEF LaneWaits
  <2>5. \A k \in v.todo : Unused(k, run, dispatcher) /\ Unused(k, run', dispatcher)
    BY <1>1, <1>3, <1>4, <1>5, <1>7, <1>8 DEF LaneWaits, Unused
  <2>6. v.stage = "enqueue" =>
          /\ Group(l, block) # {} /\ v.todo \in SUBSET Group(l, block)
          /\ \A k \in Group(l, block) : dispatcher[k] = "idle"
                                        /\ (~v.queued => run'.backlog[k] = "none")
    BY <1>2, <1>3, <1>5, <1>7, <1>8, LanePlan DEF LaneWaits
  <2> QED
    BY <1>1, <1>3, <1>5, <2>2, <2>3, <2>4, <2>5, <2>6 DEF LaneWaits
<1>12. LaneHolds(l, run', dispatcher, block, v)
  <2>1. LaneHolds(l, run, dispatcher, block, w)
    BY <1>3 DEF LaneActive
  <2>2. /\ \A k \in run'.held[l] : k \in Of(l) /\ k \in Open(run') /\ dispatcher[k] # "idle"
        /\ run'.held[l] # {} <=> run'.lane[l] = "held"
        /\ run'.lane[l] # "failed"
    BY <1>8, <1>10, <2>1 DEF LaneHolds
  <2>3. \A k \in Of(l) : run'.backlog[k] \in {"queued", "claimed"} => Busy(run', l)
    BY <1>2, <1>7, <1>8, <1>10, <2>1, LanePlan DEF LaneHolds
  <2>4. \A k \in Of(l) : run'.backlog[k] = "claimed" <=> run.backlog[k] = "claimed"
    BY <1>2, <1>6, <1>7, <1>8, LanePlan DEF Unused
  <2>5. \A k \in Of(l) : ~Working(k, run', dispatcher)
    BY <1>1, <1>8, <1>10, <2>1 DEF LaneHolds, Working
  <2>6. ~v.queued => ~Busy(run', l)
    BY <1>5, <1>10
  <2> QED
    BY <1>1, <1>5, <1>10, <2>1, <2>2, <2>3, <2>4, <2>5, <2>6 DEF LaneHolds
<1>13. ASSUME l # Burst PROVE LaneFlights(l, run', dispatcher, v)
  <2>1. LaneFlights(l, run, dispatcher, w)
    BY <1>3, <1>13 DEF LaneActive
  <2>2. ASSUME NEW k \in Of(l), dispatcher[k] # "idle" PROVE k < c
    <3>1. CASE w.stage = "rest"
      BY <1>4, <2>1, <2>2, <3>1 DEF LaneFlights
    <3>2. CASE w.stage = "enqueue"
      <4>1. c \in Group(l, block) /\ plan[c].block = block
        BY <1>3, <1>4, <3>2 DEF LaneWaits, Group
      <4>2. k \notin Group(l, block) /\ ~(plan[k].block > block)
        BY <1>3, <2>2, <3>2 DEF LaneWaits, Unused
      <4>3. plan[k].block < plan[c].block
        BY <1>2, <2>2, <4>1, <4>2, LanePlan DEF RunTyped
      <4> QED
        BY <1>2, <1>4, <2>2, <4>3, LanePlan
    <3> QED
      BY <1>1, <3>1, <3>2
  <2>3. \A k, j \in Of(l) : dispatcher[k] # "idle" /\ run'.backlog[j] = "queued" => k < j
    <3>1. \A j \in Of(l) : j # c => run'.backlog[j] = run.backlog[j]
      BY <1>2, <1>7, <1>8, LanePlan
    <3> QED
      BY <2>1, <2>2, <3>1 DEF LaneFlights
  <2> QED
    BY <1>1, <1>5, <1>10, <2>1, <2>3 DEF LaneFlights
<1>14. \A m \in Lane : m # l => SameLane(m, run, run', dispatcher, dispatcher')
  <2>1. ASSUME NEW m \in Lane, m # l, NEW k \in Of(m) PROVE k \in Call /\ k # c
    BY <1>4, <2>1 DEF Of
  <2> QED
    BY <1>1, <1>7, <1>8, <2>1 DEF SameLane
<1>15. LanesNext
  <2>1. LaneWaits(l, run', dispatcher', block, runner'[l])
        /\ LaneActive(l, run', dispatcher', block, runner'[l])
    BY <1>1, <1>11, <1>12, <1>13 DEF LaneActive, v
  <2> QED
    BY <1>1, <1>2, <1>5, <1>8, <1>14, <2>1, LaneMoves
<1> QED
  BY <1>9, <1>15

LEMMA NoneOpen ==
  ASSUME NEW l, NEW r, NEW d, NEW b, NEW w, LaneHolds(l, r, d, b, w), PendingHeld(r),
         w.stage \notin {"work", "stopped"}, r.lane[l] # "held"
  PROVE  \A k \in Of(l) : k \in Open(r) => d[k] = "idle"
<1>1. SUFFICES ASSUME NEW k \in Of(l), k \in Open(r), d[k] # "idle" PROVE FALSE
  OBVIOUS
<1>2. k \in Call /\ plan[k].lane = l
  BY DEF Of
<1>3. CASE r.attempt[k] = "reconciliation_pending"
  BY <1>2, <1>3 DEF PendingHeld, LaneHolds
<1>4. CASE r.attempt[k] # "reconciliation_pending"
  BY <1>1, <1>4 DEF LaneHolds, Working
<1> QED
  BY <1>3, <1>4

(* The calls a lane starts were idle, and nothing that started is open.        *)
StartedBy(l, calls) == IF l = Burst THEN calls ELSE {Min(calls)}

StartsCalls(l, calls, r, s, d, e, b) ==
  /\ calls \in SUBSET Of(l) /\ calls # {}
  /\ \A k \in calls : plan[k].block <= b /\ d[k] = "idle"
  /\ s.attempt = r.attempt
  /\ \A k \in Of(l) : /\ k \in StartedBy(l, calls) => e[k] = "called"
                      /\ k \notin StartedBy(l, calls) => e[k] = d[k]
  /\ \A k \in Of(l) : /\ s.backlog[k] = "queued" => r.backlog[k] = "queued" /\ k \notin calls
                      /\ k \notin calls /\ r.backlog[k] = "none" => s.backlog[k] = "none"
  /\ l = Burst => \A k \in Of(l) : s.backlog[k] = "queued" =>
       \A c \in calls : plan[c].block # plan[k].block
  /\ l # Burst => \A k \in calls : k # Min(calls) => s.backlog[k] = "none"

LEMMA StartWaits ==
  ASSUME plan \in Plans, NEW l, NEW calls, NEW r, NEW s, NEW d, NEW e, NEW b \in Nat, NEW w, NEW v,
         StartsCalls(l, calls, r, s, d, e, b), LaneWaits(l, r, d, b, w),
         v.stage = "work", v.todo = calls
  PROVE  LaneWaits(l, s, e, b, v)
<1> USE DEF StartsCalls
<1>1. Min(calls) \in calls /\ StartedBy(l, calls) \subseteq calls
  <2>1. calls \in SUBSET Call
    BY DEF Of
  <2> QED
    BY <2>1, FirstCall DEF StartedBy
<1>2. \A k \in Of(l) : plan[k].block > b => k \notin calls
  BY LanePlan
<1>3. \A k \in Of(l) : /\ plan[k].block > b => Unused(k, s, e)
                       /\ s.backlog[k] = "queued" => e[k] = "idle"
  BY <1>1, <1>2 DEF LaneWaits, Unused
<1>4. l = Burst => \A c, k \in Of(l) :
        s.backlog[c] = "queued" /\ plan[k].block = plan[c].block => e[k] = "idle"
  <2>1. SUFFICES ASSUME l = Burst, NEW c \in Of(l), NEW k \in Of(l), s.backlog[c] = "queued",
                        plan[k].block = plan[c].block
                 PROVE  e[k] = "idle"
    OBVIOUS
  <2>2. r.backlog[c] = "queued" /\ k \notin calls
    BY <2>1
  <2>3. d[k] = "idle"
    BY <2>1, <2>2 DEF LaneWaits
  <2> QED
    BY <1>1, <2>2, <2>3
<1>5. l # Burst => /\ e[Min(calls)] # "idle"
                   /\ \A c \in calls : c # Min(calls) => Unused(c, s, e)
  BY <1>1 DEF StartedBy, Unused
<1> QED
  BY <1>3, <1>4, <1>5 DEF LaneWaits

LEMMA StartActive ==
  ASSUME plan \in Plans, NEW l, NEW calls, NEW r, NEW s, NEW d, NEW e, NEW b, NEW v,
         StartsCalls(l, calls, r, s, d, e, b), v.stage = "work", v.todo = calls,
         \A k \in Of(l) : k \in Open(r) => d[k] = "idle",
         s.held[l] = {}, s.lane[l] \notin {"held", "failed"},
         \A k \in Of(l) : s.backlog[k] \in {"queued", "claimed"} => Busy(s, l),
         \A k \in Of(l) : s.backlog[k] = "claimed" => \A c \in calls : s.backlog[c] = "claimed",
         l # Burst => \A k \in Of(l) :
           /\ d[k] # "idle" => k < Min(calls)
           /\ s.backlog[k] = "queued" =>
                /\ \A c \in Of(l) : d[c] # "idle" => c < k
                /\ \A c \in calls : c < k
  PROVE  LaneActive(l, s, e, b, v)
<1> USE DEF StartsCalls
<1>1. Min(calls) \in calls /\ StartedBy(l, calls) \subseteq calls /\ \A c \in calls : Min(calls) <= c
  <2>1. calls \in SUBSET Call
    BY DEF Of
  <2> QED
    BY <2>1, FirstCall DEF StartedBy
<1>2. Open(s) = Open(r)
  BY DEF Open
<1>3. \A k \in Of(l) : k \in Open(s) /\ e[k] # "idle" => k \in StartedBy(l, calls)
  BY <1>2
<1>4. LaneHolds(l, s, e, b, v)
  <2>1. \A c \in Of(l) : Working(c, s, e) => c \in calls /\ (l # Burst => c = Min(calls))
    BY <1>1, <1>3 DEF Working, StartedBy
  <2>2. \A c, k \in Of(l) : s.backlog[c] = "claimed" =>
          /\ k \in Open(s) /\ e[k] # "idle" => s.backlog[k] = "claimed"
          /\ k \in calls => s.backlog[k] = "claimed"
    BY <1>1, <1>3
  <2> QED
    BY <2>1, <2>2 DEF LaneHolds
<1>5. ASSUME l # Burst PROVE LaneFlights(l, s, e, v)
  <2> DEFINE first == Min(calls)
  <2>1. first \in Of(l) /\ Of(l) \subseteq Nat
    BY <1>1, LanePlan
  <2>2. \A k \in Of(l) : e[k] # "idle" => k = first \/ (d[k] # "idle" /\ k < first /\ k \notin Open(s))
    BY <1>2, <1>5 DEF StartedBy
  <2>3. \A k \in Of(l) : e[k] # "idle" => k <= first
    BY <2>1, <2>2
  <2>4. \A c, k \in Of(l) : e[c] # "idle" /\ c \in Open(s) /\ c # k /\ e[k] # "idle" =>
          k < c /\ k \notin Open(s)
    BY <2>2
  <2>5. \A c, k \in Of(l) : e[c] # "idle" /\ s.backlog[k] = "queued" => c < k
    BY <1>1, <1>5, <2>2
  <2>6. \A c, k \in Of(l) : c \in calls /\ s.backlog[k] = "queued" => c < k
    BY <1>5
  <2> QED
    BY <2>3, <2>4, <2>5, <2>6 DEF LaneFlights
<1> QED
  BY <1>4, <1>5 DEF LaneActive

(* A lane in which nothing works may rest.                                     *)
LEMMA LaneRests ==
  ASSUME RunTyped, SoundNow, LanesNow, NEW l \in Lane,
         UNCHANGED <<run, execution, dispatcher, block>>,
         runner' = [runner EXCEPT ![l] = Resting],
         run.control = "active" => \A c \in Of(l) : ~Working(c, run, dispatcher)
  PROVE  SoundNext /\ LanesNext
<1> DEFINE w == runner[l]
           v == runner'[l]
<1>1. run \in Tables /\ plan \in Plans
  BY DEF RunTyped
<1>2. /\ v.stage = "idle" /\ v.todo = {}
      /\ \A m \in Lane : m # l => runner'[m] = runner[m]
  BY DEF RunTyped, Resting
<1> HIDE DEF v
<1>3. LaneWaits(l, run, dispatcher, block, v)
  <2>1. LaneWaits(l, run, dispatcher, block, w)
    BY DEF LanesNow, LanesAt
  <2> HIDE DEF w
  <2> QED
    BY <1>2, <2>1 DEF LaneWaits
<1>4. ASSUME run.control = "active" PROVE LaneActive(l, run, dispatcher, block, v)
  <2>1. LaneActive(l, run, dispatcher, block, w)
    BY <1>4 DEF LanesNow, LanesAt
  <2> HIDE DEF w
  <2>2. LaneHolds(l, run, dispatcher, block, v)
    BY <1>2, <1>4, <2>1 DEF LaneActive, LaneHolds
  <2>3. l # Burst => LaneFlights(l, run, dispatcher, v)
    BY <1>2, <2>1 DEF LaneActive, LaneFlights
  <2> QED
    BY <2>2, <2>3 DEF LaneActive
<1>5. \A m \in Lane : m # l => SameLane(m, run, run', dispatcher, dispatcher')
  BY DEF SameLane
<1>6. LanesNext
  BY <1>1, <1>2, <1>3, <1>4, <1>5, LaneMoves DEF v
<1> QED
  BY <1>1, <1>6 DEF SoundNow, SoundNext

LEMMA StartFacts ==
  ASSUME RunTyped, NEW l \in Lane, NEW calls \in SUBSET Of(l), calls # {}, NEW r \in Tables,
         Start(l, calls, r)
  PROVE  /\ runner'[l].stage = "work" /\ runner'[l].todo = calls
         /\ \A m \in Lane : m # l => runner'[m] = runner[m]
         /\ run'.control = r.control /\ run'.lane = r.lane /\ run'.held = r.held
         /\ run'.attempt = r.attempt /\ run'.backlog = r.backlog
         /\ StartedBy(l, calls) \subseteq calls
         /\ \A k \in Call : /\ k \in StartedBy(l, calls) => dispatcher'[k] = "called"
                            /\ k \notin StartedBy(l, calls) => dispatcher'[k] = dispatcher[k]
<1>1. plan \in Plans /\ dispatcher \in [Call -> DispatchStates] /\ calls \in SUBSET Call
  BY DEF RunTyped, Of
<1>2. Min(calls) \in calls
  BY <1>1, FirstCall
<1>3. /\ runner'[l].stage = "work" /\ runner'[l].todo = calls
      /\ \A m \in Lane : m # l => runner'[m] = runner[m]
  BY DEF Start, Doing, RunTyped
<1>4. CASE l # Burst
  <2>1. run' = r /\ dispatcher' = [dispatcher EXCEPT ![Min(calls)] = "called"]
    BY <1>4 DEF Start
  <2>2. Min(calls) \in Call /\ StartedBy(l, calls) = {Min(calls)}
    BY <1>1, <1>2, <1>4 DEF StartedBy
  <2> QED
    BY <1>1, <1>2, <1>3, <2>1, <2>2
<1>5. CASE l = Burst
  <2> DEFINE b == plan[Min(calls)].block
             barriers == [r.barrier EXCEPT ![b] = [state |-> "preparing", planned |-> calls]]
  <2>1. /\ run' = [r EXCEPT !.barrier = barriers]
        /\ dispatcher' = [c \in Call |-> IF c \in calls THEN "called" ELSE dispatcher[c]]
    BY <1>5 DEF Start
  <2> HIDE DEF barriers
  <2>2. /\ run'.control = r.control /\ run'.lane = r.lane /\ run'.held = r.held
        /\ run'.attempt = r.attempt /\ run'.backlog = r.backlog
    BY <2>1 DEF Tables
  <2>3. StartedBy(l, calls) = calls
    BY <1>5 DEF StartedBy
  <2> QED
    BY <1>3, <2>1, <2>2, <2>3
<1> QED
  BY <1>4, <1>5

(* The workers of a lane start when all of its block was given to it at once.  *)
LEMMA EnqueuedKeeps ==
  ASSUME RunTyped, SoundNow, LanesNow, NEW l \in Lane, Enqueued(l)
  PROVE  SoundNext /\ LanesNext
<1> DEFINE w == runner[l]
           calls == Group(l, block)
<1>1. run \in Tables /\ plan \in Plans /\ block \in Nat
  BY DEF RunTyped
<1>2. LaneWaits(l, run, dispatcher, block, w)
      /\ (run.control = "active" => LaneActive(l, run, dispatcher, block, w))
  BY DEF LanesNow, LanesAt
<1>3. w.stage \in {"enqueue", "rest"} /\ w.todo = {} /\ UNCHANGED <<execution, block>>
  BY DEF Enqueued
<1> HIDE DEF w
<1>4. CASE runner' = [runner EXCEPT ![l] = Resting] /\ UNCHANGED <<run, dispatcher>>
  <2>1. run.control = "active" => \A c \in Of(l) : ~Working(c, run, dispatcher)
    BY <1>2, <1>3 DEF LaneActive, LaneHolds
  <2> QED
    BY <1>3, <1>4, <2>1, LaneRests
<1>5. CASE w.stage = "enqueue" /\ ~w.queued /\ Start(l, calls, run)
  <2>1. /\ calls # {} /\ calls \in SUBSET Of(l)
        /\ \A c \in calls : Unused(c, run, dispatcher) /\ plan[c].block = block
    BY <1>1, <1>2, <1>5, LanePlan DEF LaneWaits, Unused, Group
  <2>2. l = Burst => /\ block \in Block /\ calls \in SUBSET Group(Burst, block)
                     /\ \A c \in Group(Burst, block) : dispatcher[c] = "idle"
    <3>1. ASSUME NEW c \in calls PROVE plan[c].block = block /\ plan[c].block \in Block
      BY <1>1, <2>1, <3>1, PlanFacts DEF Of
    <3> QED
      BY <2>1, <3>1 DEF Unused
  <2>3. \A c \in Of(l) : c \notin calls => plan[c].block # block
    BY <1>1, LanePlan
  <2> HIDE DEF calls
  <2>4. SoundNext
    <3>1. Startable(l, calls)
      BY <2>1, <2>2 DEF Startable, Unused
    <3> QED
      BY <1>1, <1>3, <1>5, <2>1, <3>1, StartSound DEF SoundNow
  <2>5. /\ runner'[l].stage = "work" /\ runner'[l].todo = calls
        /\ \A m \in Lane : m # l => runner'[m] = runner[m]
        /\ run'.control = run.control /\ run'.lane = run.lane /\ run'.held = run.held
        /\ run'.attempt = run.attempt /\ run'.backlog = run.backlog
        /\ StartedBy(l, calls) \subseteq calls
        /\ \A k \in Call : /\ k \in StartedBy(l, calls) => dispatcher'[k] = "called"
                           /\ k \notin StartedBy(l, calls) => dispatcher'[k] = dispatcher[k]
    BY <1>1, <1>5, <2>1, StartFacts
  <2>6. StartsCalls(l, calls, run, run', dispatcher, dispatcher', block)
    <3>1. \A k \in Of(l) : run'.backlog[k] = "queued" => k \notin calls
      BY <2>1, <2>5 DEF Unused
    <3>2. \A k \in Of(l) : k \in Call
      BY DEF Of
    <3>3. \A k \in Of(l) : k \notin calls => \A c \in calls : plan[c].block # plan[k].block
      BY <2>1, <2>3
    <3>4. \A c \in calls : plan[c].block <= block /\ dispatcher[c] = "idle"
                           /\ run'.backlog[c] = "none"
      BY <1>1, <2>1, <2>5 DEF Unused
    <3> QED
      BY <2>1, <2>5, <3>1, <3>2, <3>3, <3>4 DEF StartsCalls
  <2>7. LaneWaits(l, run', dispatcher', block, runner'[l])
    BY <1>1, <1>2, <2>5, <2>6, StartWaits
  <2>8. ASSUME run.control = "active"
        PROVE  LaneActive(l, run', dispatcher', block, runner'[l])
    <3>1. LaneHolds(l, run, dispatcher, block, w)
      BY <1>2, <2>8 DEF LaneActive
    <3>2. ~Busy(run, l)
      BY <1>3, <1>5, <2>1, <3>1 DEF LaneHolds, calls
    <3>3. /\ run.lane[l] # "held" /\ run.lane[l] # "failed" /\ run.held[l] = {}
          /\ \A k \in Of(l) : run.backlog[k] \notin {"queued", "claimed"}
      BY <3>1, <3>2 DEF LaneHolds, Busy
    <3>4. \A k \in Of(l) : k \in Open(run) => dispatcher[k] = "idle"
      BY <1>3, <3>1, <3>3, NoneOpen DEF SoundNow, Sound, Steady
    <3>5. \A k \in Of(l) : dispatcher[k] # "idle" => k < Min(calls)
      <4>1. Min(calls) \in calls
        <5>1. calls \in SUBSET Call
          BY <2>1 DEF Of
        <5> QED
          BY <1>1, <2>1, <5>1, FirstCall
      <4>2. ASSUME NEW k \in Of(l), dispatcher[k] # "idle" PROVE k < Min(calls)
        <5>1. ~(plan[k].block > block) /\ plan[k].block # block
          BY <1>2, <2>1, <2>3, <4>2 DEF LaneWaits, Unused
        <5>2. plan[k].block < plan[Min(calls)].block
          BY <1>1, <2>1, <4>1, <4>2, <5>1, LanePlan
        <5> QED
          BY <1>1, <2>1, <4>1, <4>2, <5>2, LanePlan
      <4> QED
        BY <4>2
    <3>6. /\ run'.held[l] = {} /\ run'.lane[l] \notin {"held", "failed"}
          /\ \A k \in Of(l) : run'.backlog[k] \notin {"queued", "claimed"}
      BY <2>5, <3>3
    <3> QED
      BY <1>1, <2>5, <2>6, <3>4, <3>5, <3>6, StartActive
  <2>9. \A m \in Lane : m # l => SameLane(m, run, run', dispatcher, dispatcher')
    <3>1. ASSUME NEW m \in Lane, m # l, NEW k \in Of(m) PROVE k \in Call /\ k \notin calls
      BY <2>1, <3>1 DEF Of
    <3> QED
      BY <2>5, <3>1 DEF SameLane
  <2>10. LanesNext
    BY <1>1, <1>3, <2>5, <2>7, <2>8, <2>9, LaneMoves
  <2> QED
    BY <2>4, <2>10
<1> QED
  BY <1>4, <1>5 DEF Enqueued, w

(* The next call of a sequential lane starts when the one before it succeeded. *)
LEMMA WorkerSucceedsKeeps ==
  ASSUME RunTyped, SoundNow, LanesNow, NEW l \in Lane, WorkerSucceeds(l)
  PROVE  SoundNext /\ LanesNext
<1> DEFINE w == runner[l]
           first == Min(w.todo)
           rest == w.todo \ {first}
           next == Min(rest)
<1>1. run \in Tables /\ plan \in Plans /\ dispatcher \in [Call -> DispatchStates] /\ block \in Nat
  BY DEF RunTyped
<1>2. /\ w.stage = "work" /\ l # Burst /\ dispatcher[first] = "succeeded"
      /\ UNCHANGED <<run, execution, block>>
  BY DEF WorkerSucceeds
<1>3. LaneWaits(l, run, dispatcher, block, w)
      /\ (run.control = "active" => LaneActive(l, run, dispatcher, block, w))
  BY DEF LanesNow, LanesAt
<1>4. \/ rest = {} /\ runner' = [runner EXCEPT ![l] = Resting] /\ UNCHANGED dispatcher
      \/ /\ rest # {} /\ runner' = [runner EXCEPT ![l].todo = rest]
         /\ dispatcher' = [dispatcher EXCEPT ![next] = "called"]
  BY DEF WorkerSucceeds
<1> HIDE DEF w
<1>5. /\ w.todo \in SUBSET Of(l) /\ w.todo \in SUBSET Call /\ w.todo # {}
      /\ first \in w.todo /\ \A k \in w.todo : first <= k
  <2>1. w.todo \in SUBSET Of(l) /\ w.todo \in SUBSET Call /\ w.todo # {}
    BY <1>1, <1>2, <1>3, LanePlan DEF LaneWaits
  <2> QED
    BY <1>1, <2>1, FirstCall
<1> HIDE DEF first
<1>6. first \notin Open(run)
  <2>1. CallAgrees(run.attempt[first], run.token[first], execution[first], dispatcher[first])
    BY <1>5, OneCall
  <2>2. run.attempt[first] = "completed_verified"
    BY <1>2, <2>1 DEF CallAgrees
  <2> QED
    BY <2>2 DEF Open, Terminals, Usable
<1>7. run.control = "active" => \A c \in Of(l) : ~Working(c, run, dispatcher)
  <2>1. SUFFICES ASSUME run.control = "active", NEW c \in Of(l), Working(c, run, dispatcher)
                 PROVE  FALSE
    OBVIOUS
  <2>2. c = first
    BY <1>2, <1>3, <2>1 DEF LaneActive, LaneHolds, first
  <2> QED
    BY <1>6, <2>1, <2>2 DEF Working
<1>8. CASE rest = {} /\ runner' = [runner EXCEPT ![l] = Resting] /\ UNCHANGED dispatcher
  BY <1>2, <1>7, <1>8, LaneRests
<1>9. CASE /\ rest # {} /\ runner' = [runner EXCEPT ![l].todo = rest]
           /\ dispatcher' = [dispatcher EXCEPT ![next] = "called"]
  <2>1. /\ rest \in SUBSET Of(l) /\ rest \in SUBSET Call /\ next \in rest
        /\ \A k \in rest : next <= k /\ k # first /\ k \in w.todo
    <3>1. rest \in SUBSET Of(l) /\ rest \in SUBSET Call
      BY <1>5
    <3> QED
      BY <1>1, <1>9, <3>1, FirstCall
  <2>2. \A k \in rest : Unused(k, run, dispatcher) /\ plan[k].block <= block
    BY <1>2, <1>3, <2>1 DEF LaneWaits, first
  <2>3. /\ runner'[l].stage = "work" /\ runner'[l].todo = rest
        /\ \A m \in Lane : m # l => runner'[m] = runner[m]
    <3> HIDE DEF rest
    <3> QED
      BY <1>2, <1>9 DEF RunTyped, w
  <2>4. StartedBy(l, rest) = {next}
    BY <1>2 DEF StartedBy
  <2> HIDE DEF rest, next
  <2>5. next \in Call /\ plan[next].lane = l /\ dispatcher[next] = "idle"
    BY <2>1, <2>2 DEF Of, Unused
  <2>6. SoundNext
    <3>1. Sound(run, execution, [dispatcher EXCEPT ![next] = "called"])
      BY <1>1, <1>2, <2>5, StartsOne DEF SoundNow
    <3> QED
      BY <1>1, <1>2, <1>9, <3>1 DEF SoundNext
  <2>7. \A k \in Call : /\ k = next => dispatcher'[k] = "called"
                        /\ k # next => dispatcher'[k] = dispatcher[k]
    BY <1>1, <1>9
  <2>8. StartsCalls(l, rest, run, run', dispatcher, dispatcher', block)
    <3>1. \A k \in Of(l) : k \in Call
      BY DEF Of
    <3> QED
      BY <1>2, <1>9, <2>1, <2>2, <2>4, <2>7, <3>1 DEF StartsCalls, Unused
  <2>9. LaneWaits(l, run', dispatcher', block, runner'[l])
    BY <1>1, <1>3, <2>3, <2>8, StartWaits
  <2>10. ASSUME run.control = "active"
         PROVE  LaneActive(l, run', dispatcher', block, runner'[l])
    <3>1. LaneHolds(l, run, dispatcher, block, w) /\ LaneFlights(l, run, dispatcher, w)
      BY <1>2, <1>3, <2>10 DEF LaneActive
    <3>2. \A k \in Of(l) : dispatcher[k] # "idle" => k <= first
      BY <1>2, <1>5, <3>1 DEF LaneFlights, first
    <3>3. first \in Of(l) /\ Of(l) \subseteq Nat /\ first < next
      BY <1>1, <1>5, <2>1, LanePlan
    <3>4. ASSUME NEW k \in Of(l), k \in Open(run), dispatcher[k] # "idle" PROVE FALSE
      <4>1. k # first /\ dispatcher[first] # "idle"
        BY <1>2, <1>6, <3>4
      <4>2. first < k
        BY <1>5, <3>1, <3>4, <4>1 DEF LaneFlights
      <4> QED
        BY <3>2, <3>3, <3>4, <4>2
    <3>5. \A k \in Of(l) : dispatcher[k] # "idle" => k < next
      BY <2>1, <3>2, <3>3
    <3>6. run.held[l] = {} /\ run.lane[l] \notin {"held", "failed"}
          /\ \A k \in Of(l) : run.backlog[k] \in {"queued", "claimed"} => Busy(run, l)
      BY <3>1, <3>4 DEF LaneHolds
    <3>7. \A k \in Of(l) : run.backlog[k] = "claimed" => \A c \in rest : run.backlog[c] = "claimed"
      BY <1>2, <2>1, <3>1 DEF LaneHolds
    <3>8. \A k \in Of(l) : run.backlog[k] = "queued" =>
            /\ \A c \in Of(l) : dispatcher[c] # "idle" => c < k
            /\ \A c \in rest : c < k
      BY <1>2, <1>5, <2>1, <3>1 DEF LaneFlights
    <3>9. Busy(run', l) <=> Busy(run, l)
      BY <1>2
    <3> QED
      BY <1>1, <1>2, <2>3, <2>8, <3>4, <3>5, <3>6, <3>7, <3>8, <3>9, StartActive DEF next
  <2>11. \A m \in Lane : m # l => SameLane(m, run, run', dispatcher, dispatcher')
    <3>1. ASSUME NEW m \in Lane, m # l, NEW k \in Of(m) PROVE k \in Call /\ k # next
      BY <2>5, <3>1 DEF Of
    <3> QED
      BY <1>2, <2>7, <3>1 DEF SameLane
  <2>12. LanesNext
    BY <1>1, <1>2, <2>3, <2>9, <2>10, <2>11, LaneMoves
  <2> QED
    BY <2>6, <2>12
<1> QED
  BY <1>4, <1>8, <1>9

(* The worker of a held call leaves the rest of its block to the backlog.      *)
LEMMA WorkerHeldKeeps ==
  ASSUME RunTyped, SoundNow, LanesNow, NEW l \in Lane, WorkerHeld(l)
  PROVE  SoundNext /\ LanesNext
<1> DEFINE w == runner[l]
           v == runner'[l]
           first == Min(w.todo)
<1>1. run \in Tables /\ plan \in Plans
  BY DEF RunTyped
<1>2. /\ w.stage = "work" /\ l # Burst /\ run.attempt[first] = "reconciliation_pending"
      /\ UNCHANGED <<run, execution, dispatcher, block>>
      /\ runner' = [runner EXCEPT ![l] = Doing("rest", @.todo \ {first})]
  BY DEF WorkerHeld
<1>3. LaneWaits(l, run, dispatcher, block, w)
      /\ (run.control = "active" => LaneActive(l, run, dispatcher, block, w))
  BY DEF LanesNow, LanesAt
<1>4. /\ v.stage = "rest" /\ v.todo = w.todo \ {first}
      /\ \A m \in Lane : m # l => runner'[m] = runner[m]
  BY <1>2 DEF RunTyped, Doing
<1> HIDE DEF w, v
<1>5. /\ w.todo \in SUBSET Of(l) /\ first \in w.todo /\ \A k \in w.todo : first <= k
  <2>1. w.todo \in SUBSET Of(l) /\ w.todo \in SUBSET Call /\ w.todo # {}
    BY <1>1, <1>2, <1>3, LanePlan DEF LaneWaits
  <2> QED
    BY <1>1, <2>1, FirstCall
<1> HIDE DEF first
<1>6. LaneWaits(l, run, dispatcher, block, v)
  <2>1. \A k \in v.todo : Unused(k, run, dispatcher) /\ k \in w.todo
    BY <1>2, <1>3, <1>4 DEF LaneWaits, first
  <2> QED
    BY <1>2, <1>3, <1>4, <2>1 DEF LaneWaits
<1>7. ASSUME run.control = "active" PROVE LaneActive(l, run, dispatcher, block, v)
  <2>1. LaneHolds(l, run, dispatcher, block, w) /\ LaneFlights(l, run, dispatcher, w)
    BY <1>2, <1>3, <1>7 DEF LaneActive
  <2>2. \A c \in Of(l) : ~Working(c, run, dispatcher)
    <3>1. \A c \in Of(l) : Working(c, run, dispatcher) => c = first
      BY <1>2, <2>1 DEF LaneHolds, first
    <3> QED
      BY <1>2, <3>1 DEF Working
  <2>3. LaneHolds(l, run, dispatcher, block, v)
    BY <1>4, <2>1, <2>2 DEF LaneHolds
  <2>4. \A c \in Of(l) : dispatcher[c] # "idle" => \A k \in v.todo : c < k
    <3>1. \A c \in Of(l) : dispatcher[c] # "idle" => c <= first
      BY <1>2, <1>5, <2>1 DEF LaneFlights, first
    <3>2. \A k \in v.todo : first < k /\ k \in Of(l)
      BY <1>1, <1>4, <1>5, LanePlan
    <3> QED
      BY <1>1, <1>5, <3>1, <3>2, LanePlan
  <2>5. LaneFlights(l, run, dispatcher, v)
    BY <1>4, <2>1, <2>4 DEF LaneFlights
  <2> QED
    BY <2>3, <2>5 DEF LaneActive
<1>8. \A m \in Lane : m # l => SameLane(m, run, run', dispatcher, dispatcher')
  BY <1>2 DEF SameLane
<1>9. LanesNext
  BY <1>1, <1>2, <1>4, <1>6, <1>7, <1>8, LaneMoves DEF v
<1> QED
  BY <1>1, <1>2, <1>9 DEF SoundNow, SoundNext

LEMMA BurstEndsKeeps ==
  ASSUME RunTyped, SoundNow, LanesNow, NEW l \in Lane, BurstEnds(l)
  PROVE  SoundNext /\ LanesNext
<1>1. /\ runner[l].stage = "work" /\ runner' = [runner EXCEPT ![l] = Resting]
      /\ UNCHANGED <<run, execution, dispatcher, block>>
      /\ \A c \in runner[l].todo :
           run.attempt[c] \in {"completed_verified", "reconciliation_pending"}
  BY DEF BurstEnds
<1>2. ASSUME run.control = "active", NEW c \in Of(l), Working(c, run, dispatcher) PROVE FALSE
  <2>1. LaneHolds(l, run, dispatcher, block, runner[l])
    BY <1>2 DEF LanesNow, LanesAt, LaneActive
  <2>2. c \in runner[l].todo
    BY <1>1, <1>2, <2>1 DEF LaneHolds
  <2> QED
    BY <1>1, <1>2, <2>2 DEF Working, Open, Terminals, Usable
<1> QED
  BY <1>1, <1>2, LaneRests

(* The barrier of a block opens when each of its calls holds a token.          *)
LEMMA ReleaseBarrierKeeps ==
  ASSUME RunTyped, SoundNow, LanesNow, NEW l \in Lane, ReleaseBarrier(l)
  PROVE  SoundNext /\ LanesNext
<1> DEFINE b == plan[Min(runner[l].todo)].block
           barriers == [run.barrier EXCEPT ![b].state = "released"]
<1>1. /\ runner[l].stage = "work" /\ run.control = "active" /\ Releasable(b)
      /\ run' = [run EXCEPT !.barrier = barriers]
      /\ UNCHANGED <<execution, dispatcher, block, runner>>
  BY DEF ReleaseBarrier
<1>2. run \in Tables /\ plan \in Plans
      /\ run.barrier \in [Block -> [state : BarrierStates, planned : SUBSET Call]]
  BY DEF RunTyped, Tables
<1>3. b \in Block
  <2>1. LaneWaits(l, run, dispatcher, block, runner[l])
    BY DEF LanesNow, LanesAt
  <2>2. runner[l].todo \in SUBSET Call /\ runner[l].todo # {}
    BY <1>1, <1>2, <2>1, LanePlan DEF LaneWaits
  <2> QED
    BY <1>2, <2>2, FirstCall, PlanFacts
<1> HIDE DEF b
<1>4. /\ barriers \in [Block -> [state : BarrierStates, planned : SUBSET Call]]
      /\ barriers[b].state = "released" /\ barriers[b].planned = run.barrier[b].planned
      /\ \A m \in Block : m # b => barriers[m] = run.barrier[m]
  BY <1>2, <1>3 DEF BarrierStates
<1> HIDE DEF barriers
<1>5. /\ run' \in Tables /\ run'.control = run.control /\ run'.owner = run.owner
      /\ run'.lane = run.lane /\ run'.held = run.held /\ run'.attempt = run.attempt
      /\ run'.token = run.token /\ run'.backlog = run.backlog /\ run'.gate = run.gate
      /\ run'.usable = run.usable /\ run'.barrier = barriers
  BY <1>1, <1>2, <1>4 DEF Tables
<1>6. Steady(run, execution, dispatcher) /\ OneLost(run)
  BY DEF SoundNow, Sound
<1>7. Open(run') = Open(run) /\ Dispatched(run') = Dispatched(run) /\ Lost(run') = Lost(run)
      /\ UsableCalls(run') = UsableCalls(run)
  BY <1>5 DEF Open, Dispatched, Lost, UsableCalls
<1>8. Finished(run') = Finished(run)
  BY <1>7 DEF Finished
<1>9. /\ CallsAgree(run', execution, dispatcher) /\ Counted(run') /\ Capped(run')
      /\ PendingHeld(run') /\ SingleFlight(run', execution) /\ OneLost(run') /\ Quiescent(run')
  BY <1>1, <1>5, <1>6, <1>7, <1>8
  DEF Steady, CallsAgree, Counted, Capped, PendingHeld, SingleFlight, OneLost, Quiescent
<1>10. BarriersHold(run', dispatcher)
  <2>1. BarriersHold(run, dispatcher)
    BY <1>6 DEF Steady
  <2>2. \A m \in Block : /\ run'.barrier[m].planned = run.barrier[m].planned
                         /\ run.barrier[m].state = "released" => run'.barrier[m].state = "released"
                         /\ run'.barrier[m].state = "released" =>
                              m = b \/ run.barrier[m].state = "released"
    BY <1>4, <1>5
  <2>3. \A c \in run.barrier[b].planned : run.token[c] # "none"
    BY <1>1 DEF Releasable
  <2>4. \A c \in Of(Burst) : plan[c].block \in Block
    BY <1>2, PlanFacts DEF Of
  <2> QED
    BY <1>3, <1>5, <2>1, <2>2, <2>3, <2>4 DEF BarriersHold, Released
<1>11. SoundNext
  BY <1>1, <1>5, <1>9, <1>10 DEF SoundNext, Sound, Steady
<1>12. \A m \in Lane : SameLane(m, run, run', dispatcher, dispatcher')
  BY <1>1, <1>5 DEF SameLane
<1>13. LanesNext
  BY <1>1, <1>2, <1>5, <1>12, SameLaneKeeps DEF LanesNow, LanesNext, LanesAt
<1> QED
  BY <1>11, <1>13

(* A block is opened when every lane is at rest.                               *)
LEMMA OpenBlockKeeps ==
  ASSUME RunTyped, SoundNow, LanesNow, OpenBlock
  PROVE  SoundNext /\ LanesNext
<1>1. /\ AtRest /\ block' = block + 1 /\ UNCHANGED <<run, execution, dispatcher>>
      /\ runner' = [l \in Lane |-> IF Group(l, block') = {} THEN Resting
                                   ELSE Doing("enqueue", Group(l, block'))]
  BY DEF OpenBlock
<1>2. run \in Tables /\ plan \in Plans /\ block \in Nat
  BY DEF RunTyped
<1>3. SUFFICES ASSUME NEW l \in Lane
               PROVE  /\ LaneWaits(l, run, dispatcher, block', runner'[l])
                      /\ run.control = "active" =>
                           LaneActive(l, run, dispatcher, block', runner'[l])
  BY <1>1, <1>2 DEF SoundNow, SoundNext, LanesNext, LanesAt
<1> DEFINE w == runner[l]
           v == runner'[l]
<1>4. /\ LaneWaits(l, run, dispatcher, block, w) /\ w.stage = "idle"
      /\ run.control = "active" => LaneActive(l, run, dispatcher, block, w)
  BY <1>1 DEF LanesNow, LanesAt, AtRest
<1>5. \/ v.stage = "idle" /\ v.todo = {}
      \/ v.stage = "enqueue" /\ v.todo = Group(l, block') /\ v.todo # {}
  BY <1>1 DEF Resting, Doing
<1> HIDE DEF w, v
<1>6. \A c \in Group(l, block') : c \in Of(l) /\ plan[c].block = block' /\ plan[c].block > block
  BY <1>1, <1>2, LanePlan DEF Group
<1>7. \A c \in Of(l) : plan[c].block > block' => plan[c].block > block
  BY <1>1, <1>2, LanePlan
<1>8. \A c \in v.todo : c \in Group(l, block') /\ plan[c].block <= block'
  BY <1>1, <1>2, <1>5, <1>6
<1>9. \A c \in Group(l, block') : Unused(c, run, dispatcher)
  BY <1>4, <1>6 DEF LaneWaits
<1>10. LaneWaits(l, run, dispatcher, block', v)
  BY <1>4, <1>5, <1>6, <1>7, <1>8, <1>9 DEF LaneWaits, Unused
<1>11. ASSUME run.control = "active" PROVE LaneActive(l, run, dispatcher, block', v)
  <2>1. LaneActive(l, run, dispatcher, block, w)
    BY <1>4, <1>11
  <2>2. LaneHolds(l, run, dispatcher, block', v)
    BY <1>4, <1>5, <2>1 DEF LaneActive, LaneHolds
  <2>3. l # Burst => LaneFlights(l, run, dispatcher, v)
    BY <1>5, <2>1 DEF LaneActive, LaneFlights
  <2> QED
    BY <2>2, <2>3 DEF LaneActive
<1> QED
  BY <1>10, <1>11 DEF v

(* The first queued call of a lane is resumed, for a burst its whole block.    *)
LEMMA ClaimKeeps ==
  ASSUME RunTyped, SoundNow, LanesNow, NEW l \in Lane, ClaimResumed(l)
  PROVE  SoundNext /\ LanesNext
<1> DEFINE w == runner[l]
           first == Min(Queued(l))
           calls == IF l = Burst THEN {c \in Queued(l) : plan[c].block = plan[first].block}
                    ELSE {first}
           lanes == [run.lane EXCEPT ![l] = "resuming"]
           backlogs == [c \in Call |-> IF c \in calls THEN "claimed" ELSE run.backlog[c]]
           u == [run EXCEPT !.lane = lanes]
           r == [u EXCEPT !.backlog = backlogs]
<1>1. run \in Tables /\ plan \in Plans /\ block \in Nat
  BY DEF RunTyped
<1>2. /\ w.stage = "idle" /\ run.control = "active" /\ run.lane[l] = "resume_pending"
      /\ Claimed(l) = {} /\ Queued(l) # {} /\ UNCHANGED <<execution, block>>
      /\ Start(l, calls, [run EXCEPT !.lane[l] = "resuming", !.backlog = backlogs])
  BY DEF ClaimResumed, AtRest
<1>3. /\ LaneWaits(l, run, dispatcher, block, w)
      /\ LaneHolds(l, run, dispatcher, block, w)
      /\ l # Burst => LaneFlights(l, run, dispatcher, w)
  BY <1>2 DEF LanesNow, LanesAt, LaneActive
<1> HIDE DEF w
<1>4. /\ Queued(l) \in SUBSET Of(l) /\ Queued(l) \in SUBSET Call
      /\ \A c \in Of(l) : /\ c \in Queued(l) <=> run.backlog[c] = "queued"
                          /\ run.backlog[c] # "claimed"
  BY <1>2 DEF Queued, Claimed, Of
<1>5. first \in Queued(l) /\ \A c \in Queued(l) : first <= c
  BY <1>1, <1>2, <1>4, FirstCall
<1>6. /\ calls \in SUBSET Queued(l) /\ first \in calls
      /\ l # Burst => calls = {first}
      /\ l = Burst => \A c \in Queued(l) : c \in calls <=> plan[c].block = plan[first].block
  BY <1>5
<1>7. /\ lanes \in [Lane -> LaneStates] /\ lanes[l] = "resuming"
      /\ \A m \in Lane : m # l => lanes[m] = run.lane[m]
  BY <1>1 DEF Tables, LaneStates
<1> HIDE DEF first, calls
<1>8. /\ backlogs \in [Call -> BacklogStates]
      /\ \A c \in Call : /\ c \in calls => backlogs[c] = "claimed"
                         /\ c \notin calls => backlogs[c] = run.backlog[c]
  BY <1>1 DEF Tables, BacklogStates
<1> HIDE DEF lanes, backlogs
<1>9. /\ r \in Tables /\ r.control = run.control /\ r.owner = run.owner /\ r.held = run.held
      /\ r.attempt = run.attempt /\ r.token = run.token /\ r.barrier = run.barrier
      /\ r.gate = run.gate /\ r.usable = run.usable /\ r.lane = lanes /\ r.backlog = backlogs
  <2>1. /\ u \in Tables /\ u.control = run.control /\ u.owner = run.owner /\ u.held = run.held
        /\ u.attempt = run.attempt /\ u.token = run.token /\ u.barrier = run.barrier
        /\ u.gate = run.gate /\ u.usable = run.usable /\ u.lane = lanes
    BY <1>1, <1>7 DEF Tables
  <2> HIDE DEF u
  <2> QED
    BY <1>8, <2>1 DEF Tables
<1>10. Start(l, calls, r)
  <2>1. [run EXCEPT !.lane[l] = "resuming", !.backlog = backlogs] = r
    BY <1>1 DEF lanes, Tables
  <2> QED
    BY <1>2, <2>1 DEF backlogs
<1> HIDE DEF r
<1>11. /\ calls \in SUBSET Of(l) /\ calls # {} /\ calls \in SUBSET Call
       /\ \A c \in calls : dispatcher[c] = "idle" /\ run.backlog[c] = "queued"
                           /\ plan[c].block <= block
  <2>1. ASSUME NEW c \in calls PROVE c \in Of(l) /\ run.backlog[c] = "queued"
    BY <1>4, <1>6, <2>1
  <2>2. ASSUME NEW c \in calls PROVE dispatcher[c] = "idle" /\ ~(plan[c].block > block)
    BY <1>3, <2>1, <2>2 DEF LaneWaits, Unused
  <2>3. ASSUME NEW c \in calls PROVE plan[c].block <= block
    BY <1>1, <2>1, <2>2, LanePlan
  <2> QED
    BY <1>4, <1>6, <2>1, <2>2, <2>3
<1>12. l = Burst => /\ plan[first].block \in Block
                    /\ calls \in SUBSET Group(Burst, plan[first].block)
                    /\ \A c \in Group(Burst, plan[first].block) : dispatcher[c] = "idle"
  <2>1. SUFFICES ASSUME l = Burst
                 PROVE  /\ plan[first].block \in Block
                        /\ calls \in SUBSET Group(Burst, plan[first].block)
                        /\ \A c \in Group(Burst, plan[first].block) : dispatcher[c] = "idle"
    OBVIOUS
  <2>2. first \in Call /\ first \in Of(l) /\ run.backlog[first] = "queued"
    BY <1>4, <1>5
  <2>3. calls \in SUBSET Group(Burst, plan[first].block)
    BY <1>4, <1>6, <1>11, <2>1, LanePlan DEF Group, Of
  <2>4. \A c \in Group(Burst, plan[first].block) :
          c \in Of(Burst) /\ plan[c].block = plan[first].block
    BY DEF Group, Of
  <2> QED
    BY <1>1, <1>3, <2>1, <2>2, <2>3, <2>4, PlanFacts DEF LaneWaits
<1>13. SoundNext
  <2>1. Beside(run, r)
    BY <1>9 DEF Beside
  <2>2. Sound(r, execution, dispatcher)
    BY <1>9, <2>1, BesideSteady DEF SoundNow, Sound
  <2>3. Startable(l, calls)
    BY <1>11, <1>12 DEF Startable
  <2> QED
    BY <1>2, <1>9, <1>10, <2>2, <2>3, StartSound
<1>14. /\ runner'[l].stage = "work" /\ runner'[l].todo = calls
       /\ \A m \in Lane : m # l => runner'[m] = runner[m]
       /\ run'.control = r.control /\ run'.lane = r.lane /\ run'.held = r.held
       /\ run'.attempt = r.attempt /\ run'.backlog = r.backlog
       /\ StartedBy(l, calls) \subseteq calls
       /\ \A k \in Call : /\ k \in StartedBy(l, calls) => dispatcher'[k] = "called"
                          /\ k \notin StartedBy(l, calls) => dispatcher'[k] = dispatcher[k]
  BY <1>9, <1>10, <1>11, StartFacts
<1>15. /\ run'.control = run.control /\ run'.held = run.held /\ run'.attempt = run.attempt
       /\ run'.lane[l] = "resuming" /\ \A m \in Lane : m # l => run'.lane[m] = run.lane[m]
       /\ \A c \in Call : /\ c \in calls => run'.backlog[c] = "claimed"
                          /\ c \notin calls => run'.backlog[c] = run.backlog[c]
  BY <1>7, <1>8, <1>9, <1>14
<1>16. l # Burst => calls = {first} /\ Min(calls) = first
  <2>1. Min(calls) \in calls
    BY <1>1, <1>11, FirstCall
  <2> QED
    BY <1>6, <2>1
<1>17. Of(l) \subseteq Call
  BY DEF Of
<1>18. StartsCalls(l, calls, run, run', dispatcher, dispatcher', block)
  <2>1. l = Burst => \A k \in Of(l) : run'.backlog[k] = "queued" =>
          \A c \in calls : plan[c].block # plan[k].block
    <3>1. SUFFICES ASSUME l = Burst, NEW k \in Of(l), run'.backlog[k] = "queued", NEW c \in calls
                   PROVE  plan[c].block # plan[k].block
      OBVIOUS
    <3>2. k \notin calls /\ k \in Queued(l)
      BY <1>4, <1>15, <1>17, <3>1
    <3>3. plan[c].block = plan[first].block
      BY <1>6, <3>1
    <3> QED
      BY <1>6, <3>1, <3>2, <3>3
  <2>2. \A k \in Of(l) : /\ run'.backlog[k] = "queued" => run.backlog[k] = "queued" /\ k \notin calls
                         /\ k \notin calls /\ run.backlog[k] = "none" => run'.backlog[k] = "none"
    BY <1>15, <1>17
  <2> QED
    BY <1>11, <1>14, <1>15, <1>16, <1>17, <2>1, <2>2 DEF StartsCalls
<1>19. LaneWaits(l, run', dispatcher', block, runner'[l])
  BY <1>1, <1>3, <1>14, <1>18, StartWaits
<1>20. LaneActive(l, run', dispatcher', block, runner'[l])
  <2>1. run.held[l] = {} /\ run.lane[l] # "held"
    BY <1>2, <1>3 DEF LaneHolds
  <2>2. \A k \in Of(l) : k \in Open(run) => dispatcher[k] = "idle"
    BY <1>2, <1>3, <2>1, NoneOpen DEF SoundNow, Sound, Steady
  <2>3. /\ run'.held[l] = {} /\ run'.lane[l] \notin {"held", "failed"} /\ Busy(run', l)
    BY <1>15, <2>1 DEF Busy
  <2>4. \A k \in calls : run'.backlog[k] = "claimed"
    BY <1>11, <1>15
  <2>5. ASSUME l # Burst
        PROVE  \A k \in Of(l) :
                 /\ dispatcher[k] # "idle" => k < Min(calls)
                 /\ run'.backlog[k] = "queued" =>
                      /\ \A c \in Of(l) : dispatcher[c] # "idle" => c < k
                      /\ \A c \in calls : c < k
    <3>1. first \in Of(l) /\ run.backlog[first] = "queued" /\ LaneFlights(l, run, dispatcher, w)
      BY <1>3, <1>4, <1>5, <2>5
    <3>2. \A k \in Of(l) : dispatcher[k] # "idle" => k < first
      BY <3>1 DEF LaneFlights
    <3>3. ASSUME NEW k \in Of(l), run'.backlog[k] = "queued"
          PROVE  run.backlog[k] = "queued" /\ first < k
      <4>1. k \in Queued(l) /\ k # first
        BY <1>4, <1>11, <1>15, <1>16, <1>17, <2>5, <3>3
      <4>2. first <= k /\ first \in Nat /\ k \in Nat
        BY <1>1, <1>5, <3>1, <4>1, LanePlan
      <4> QED
        BY <1>4, <4>1, <4>2
    <3> QED
      BY <1>16, <2>5, <3>1, <3>2, <3>3 DEF LaneFlights
  <2> QED
    BY <1>1, <1>14, <1>18, <2>2, <2>3, <2>4, <2>5, StartActive
<1>21. \A m \in Lane : m # l => SameLane(m, run, run', dispatcher, dispatcher')
  <2>1. ASSUME NEW m \in Lane, m # l, NEW k \in Of(m) PROVE k \in Call /\ k \notin calls
    BY <1>11, <2>1 DEF Of
  <2> QED
    BY <1>14, <1>15, <2>1 DEF SameLane
<1>22. LanesNext
  BY <1>1, <1>2, <1>14, <1>15, <1>19, <1>20, <1>21, LaneMoves
<1> QED
  BY <1>13, <1>22

(* What only the lanes and the backlog lose.                                   *)
LEMMA CompleteResumedKeeps ==
  ASSUME RunTyped, SoundNow, LanesNow, NEW l \in Lane, CompleteResumed(l)
  PROVE  SoundNext /\ LanesNext
<1> DEFINE w == runner[l]
           free == IF Queued(l) = {} THEN "ready" ELSE "resume_pending"
           lanes == [run.lane EXCEPT ![l] = free]
           backlogs == [c \in Call |-> IF c \in Claimed(l) THEN "terminal" ELSE run.backlog[c]]
           u == [run EXCEPT !.backlog = backlogs]
<1>1. run \in Tables /\ plan \in Plans
  BY DEF RunTyped
<1>2. /\ w.stage = "idle" /\ run.control = "active" /\ Claimed(l) # {}
      /\ Claimed(l) \cap Open(run) = {}
      /\ UNCHANGED <<execution, dispatcher, block, runner>>
      /\ run' = [run EXCEPT !.backlog = backlogs, !.lane = lanes]
  BY DEF CompleteResumed, AtRest
<1>3. /\ LaneWaits(l, run, dispatcher, block, w)
      /\ LaneHolds(l, run, dispatcher, block, w)
      /\ l # Burst => LaneFlights(l, run, dispatcher, w)
  BY <1>2 DEF LanesNow, LanesAt, LaneActive
<1> HIDE DEF w
<1>4. /\ \A c \in Of(l) : /\ c \in Queued(l) <=> run.backlog[c] = "queued"
                          /\ c \in Claimed(l) <=> run.backlog[c] = "claimed"
      /\ \A c \in Claimed(l) : c \in Of(l) /\ c \in Call
  BY DEF Queued, Claimed, Of
<1>5. /\ backlogs \in [Call -> BacklogStates]
      /\ \A c \in Call : /\ c \in Claimed(l) => backlogs[c] = "terminal"
                         /\ c \notin Claimed(l) => backlogs[c] = run.backlog[c]
  BY <1>1 DEF Tables, BacklogStates
<1>6. /\ lanes \in [Lane -> LaneStates] /\ lanes[l] = free
      /\ \A m \in Lane : m # l => lanes[m] = run.lane[m]
  BY <1>1 DEF Tables, LaneStates
<1> HIDE DEF lanes, backlogs
<1>7. /\ run' \in Tables /\ run'.control = run.control /\ run'.owner = run.owner
      /\ run'.held = run.held /\ run'.attempt = run.attempt /\ run'.token = run.token
      /\ run'.barrier = run.barrier /\ run'.gate = run.gate /\ run'.usable = run.usable
      /\ run'.lane = lanes /\ run'.backlog = backlogs
  <2>1. /\ u \in Tables /\ u.control = run.control /\ u.owner = run.owner
        /\ u.held = run.held /\ u.attempt = run.attempt /\ u.token = run.token
        /\ u.barrier = run.barrier /\ u.gate = run.gate /\ u.usable = run.usable
        /\ u.lane = run.lane /\ u.backlog = backlogs
    BY <1>1, <1>5 DEF Tables
  <2>2. run' = [u EXCEPT !.lane = lanes]
    BY <1>2
  <2> HIDE DEF u
  <2> QED
    BY <1>6, <2>1, <2>2 DEF Tables
<1>8. SoundNext
  <2>1. Beside(run, run')
    BY <1>7 DEF Beside
  <2> QED
    BY <1>2, <1>7, <2>1, BesideSteady DEF SoundNow, SoundNext, Sound
<1>9. \A k \in Of(l) : k \in Open(run) => dispatcher[k] = "idle"
  <2>1. PICK c \in Claimed(l) : TRUE
    BY <1>2
  <2> QED
    BY <1>2, <1>3, <1>4, <2>1 DEF LaneHolds
<1>10. run.held[l] = {}
  BY <1>3, <1>9 DEF LaneHolds
<1>11. \A k \in Of(l) : /\ run'.backlog[k] # "claimed"
                        /\ run'.backlog[k] = "queued" <=> run.backlog[k] = "queued"
                        /\ run.backlog[k] = "none" <=> run'.backlog[k] = "none"
  <2>1. \A k \in Of(l) : k \in Call
    BY DEF Of
  <2> QED
    BY <1>4, <1>5, <1>7, <2>1
<1>12. Open(run') = Open(run)
  BY <1>7 DEF Open
<1>13. LaneWaits(l, run', dispatcher, block, w)
  BY <1>2, <1>3, <1>11 DEF LaneWaits, Unused
<1>14. LaneHolds(l, run', dispatcher, block, w)
  <2>1. \A k \in Of(l) : run'.backlog[k] = "queued" => Busy(run', l)
    BY <1>4, <1>6, <1>7, <1>11 DEF Busy
  <2>2. run'.lane[l] \notin {"held", "failed"} /\ run'.held[l] = {}
    BY <1>6, <1>7, <1>10
  <2>3. \A k \in Of(l) : ~Working(k, run', dispatcher)
    BY <1>9, <1>12 DEF Working
  <2> QED
    BY <1>2, <1>11, <2>1, <2>2, <2>3 DEF LaneHolds
<1>15. l # Burst => LaneFlights(l, run', dispatcher, w)
  BY <1>3, <1>11, <1>12 DEF LaneFlights
<1>16. \A m \in Lane : m # l => SameLane(m, run, run', dispatcher, dispatcher')
  <2>1. ASSUME NEW m \in Lane, m # l, NEW k \in Of(m) PROVE k \in Call /\ k \notin Claimed(l)
    BY <1>4, <2>1 DEF Of
  <2> QED
    BY <1>2, <1>5, <1>6, <1>7, <2>1 DEF SameLane
<1>17. LanesNext
  <2>1. /\ LaneWaits(l, run', dispatcher', block, runner'[l])
        /\ LaneActive(l, run', dispatcher', block, runner'[l])
    BY <1>2, <1>13, <1>14, <1>15 DEF LaneActive, w
  <2> QED
    BY <1>1, <1>2, <1>7, <1>16, <2>1, LaneMoves
<1> QED
  BY <1>8, <1>17

LEMMA ResumeKeeps ==
  ASSUME RunTyped, SoundNow, LanesNow, ResumeDueLanes
  PROVE  SoundNext /\ LanesNext
<1> DEFINE due == {l \in Lane : /\ run.lane[l] = "resume_pending" /\ run.held[l] = {}
                                /\ Queued(l) \union Claimed(l) = {}}
           lanes == [l \in Lane |-> IF l \in due THEN "ready" ELSE run.lane[l]]
<1>1. run \in Tables /\ plan \in Plans
  BY DEF RunTyped
<1>2. /\ run.control = "active" /\ run' = [run EXCEPT !.lane = lanes]
      /\ UNCHANGED <<execution, dispatcher, block, runner>>
  BY DEF ResumeDueLanes
<1>3. lanes \in [Lane -> LaneStates]
  BY <1>1 DEF Tables, LaneStates
<1>4. \A l \in Lane : /\ l \notin due => lanes[l] = run.lane[l]
                      /\ l \in due => /\ lanes[l] = "ready" /\ run.held[l] = {}
                                      /\ \A c \in Of(l) : run.backlog[c] \notin {"queued", "claimed"}
  BY DEF Queued, Claimed, Of
<1> HIDE DEF lanes, due
<1>5. /\ run' \in Tables /\ run'.control = run.control /\ run'.owner = run.owner
      /\ run'.held = run.held /\ run'.attempt = run.attempt /\ run'.token = run.token
      /\ run'.barrier = run.barrier /\ run'.gate = run.gate /\ run'.usable = run.usable
      /\ run'.lane = lanes /\ run'.backlog = run.backlog
  BY <1>1, <1>2, <1>3 DEF Tables
<1>6. SoundNext
  <2>1. Beside(run, run')
    BY <1>5 DEF Beside
  <2> QED
    BY <1>2, <1>5, <2>1, BesideSteady DEF SoundNow, SoundNext, Sound
<1>7. SUFFICES ASSUME NEW l \in Lane
               PROVE  /\ LaneWaits(l, run', dispatcher, block, runner[l])
                      /\ LaneActive(l, run', dispatcher, block, runner[l])
  BY <1>2, <1>6 DEF LanesNext, LanesAt
<1> DEFINE w == runner[l]
<1>8. LaneWaits(l, run, dispatcher, block, w) /\ LaneActive(l, run, dispatcher, block, w)
  BY <1>2 DEF LanesNow, LanesAt
<1> HIDE DEF w
<1>9. CASE l \notin due
  <2>1. SameLane(l, run, run', dispatcher, dispatcher)
    BY <1>4, <1>5, <1>9 DEF SameLane
  <2> QED
    BY <1>1, <1>8, <2>1, SameLaneKeeps DEF w
<1>10. CASE l \in due
  <2>1. LaneWaits(l, run', dispatcher, block, w)
    BY <1>5, <1>8 DEF LaneWaits, Unused
  <2>2. Open(run') = Open(run)
    BY <1>5 DEF Open
  <2>3. LaneHolds(l, run', dispatcher, block, w)
    <3>1. /\ run'.lane[l] = "ready" /\ run'.held[l] = {} /\ ~Busy(run', l)
          /\ \A c \in Of(l) : run'.backlog[c] \notin {"queued", "claimed"}
      BY <1>4, <1>5, <1>10 DEF Busy
    <3>2. \A c \in Of(l) : Working(c, run', dispatcher) => Working(c, run, dispatcher)
      BY <1>5, <2>2 DEF Working
    <3> QED
      BY <1>8, <3>1, <3>2 DEF LaneActive, LaneHolds
  <2>4. l # Burst => LaneFlights(l, run', dispatcher, w)
    BY <1>5, <1>8, <2>2 DEF LaneActive, LaneFlights
  <2> QED
    BY <2>1, <2>3, <2>4 DEF LaneActive, w
<1> QED
  BY <1>9, <1>10

LEMMA RunnerFailsKeeps ==
  ASSUME RunTyped, SoundNow, LanesNow, RunnerFails
  PROVE  SoundNext /\ LanesNext
<1>1. run \in Tables /\ plan \in Plans /\ Sound(run, execution, dispatcher)
  BY DEF RunTyped, SoundNow
<1>2. /\ run' \in {run, Failed(run)} /\ UNCHANGED <<execution, dispatcher, block>>
      /\ \A l \in Lane : runner'[l].stage = "stopped" /\ runner'[l].todo = {}
  BY DEF RunnerFails, Doing
<1>3. /\ Failed(run) \in Tables /\ Failed(run).control = "failed"
      /\ Failed(run).backlog = run.backlog /\ Sound(Failed(run), execution, dispatcher)
  BY <1>1, FailedSound DEF Sound
<1>4. SoundNext
  BY <1>1, <1>2, <1>3 DEF SoundNext
<1>5. run'.backlog = run.backlog /\ (run'.control = "active" => run' = run)
  BY <1>2, <1>3
<1>6. SUFFICES ASSUME NEW l \in Lane
               PROVE  /\ LaneWaits(l, run', dispatcher, block, runner'[l])
                      /\ run'.control = "active" =>
                           LaneActive(l, run', dispatcher, block, runner'[l])
  BY <1>2, <1>4 DEF LanesNext, LanesAt
<1> DEFINE w == runner[l]
           v == runner'[l]
<1>7. LaneWaits(l, run, dispatcher, block, w) /\ v.stage = "stopped" /\ v.todo = {}
  BY <1>2 DEF LanesNow, LanesAt
<1> HIDE DEF w, v
<1>8. LaneWaits(l, run', dispatcher, block, v)
  BY <1>5, <1>7 DEF LaneWaits, Unused
<1>9. ASSUME run'.control = "active" PROVE LaneActive(l, run', dispatcher, block, v)
  <2>1. LaneActive(l, run, dispatcher, block, w) /\ run' = run
    BY <1>5, <1>9 DEF LanesNow, LanesAt, w
  <2>2. LaneHolds(l, run, dispatcher, block, v)
    BY <1>7, <2>1 DEF LaneActive, LaneHolds
  <2>3. l # Burst => LaneFlights(l, run, dispatcher, v)
    BY <1>7, <2>1 DEF LaneActive, LaneFlights
  <2> QED
    BY <2>1, <2>2, <2>3 DEF LaneActive
<1> QED
  BY <1>8, <1>9 DEF v

-----------------------------------------------------------------------------
(* The inductive invariant of a run.                                           *)

HeldInLanes(r) == \A l \in Lane : \A c \in r.held[l] : plan[c].lane = l

RunInv == RunTyped /\ SoundNow /\ LanesNow /\ HeldInLanes(run)

TypedNext ==
  /\ plan' = plan /\ run' \in Tables
  /\ execution' \in [Call -> RowStates]
  /\ dispatcher' \in [Call -> DispatchStates]
  /\ looking' \in [Call -> {"none", "early", "last"}]
  /\ block' \in Nat
  /\ runner' \in [Lane -> [stage : {"idle", "enqueue", "work", "rest", "stopped"},
                           todo : SUBSET Call, queued : BOOLEAN]]

(* The schedule of a run never changes: what is said of the next tables under  *)
(* this schedule is said of them under the next one.                           *)
LEMMA SamePlan ==
  ASSUME RunTyped, TypedNext, SoundNext, LanesNext, HeldInLanes(run')
  PROVE  RunInv'
<1>1. plan' = plan /\ Call' = Call /\ Lane' = Lane /\ Block' = Block
  BY DEF TypedNext, Call, Lane, Block
<1>2. RunTyped'
  BY <1>1 DEF RunTyped, TypedNext, Tables
<1>3. SoundNow'
  BY <1>1
  DEF SoundNow, SoundNext, Sound, Steady, CallsAgree, Counted, Finished, Open, UsableCalls,
      BarriersHold, Of, Released, Capped, Exposure, Dispatched, PendingHeld, SingleFlight,
      Quiescent, OneLost, Lost
<1>4. LanesNow'
  BY <1>1
  DEF LanesNow, LanesNext, LanesAt, LaneWaits, Unused, LaneActive, LaneHolds, LaneFlights,
      Working, Busy, Open, Of, Group
<1>5. HeldInLanes(run)'
  BY <1>1 DEF HeldInLanes
<1> QED
  BY <1>2, <1>3, <1>4, <1>5 DEF RunInv

(* Every step keeps the tables and the rows in their types.                    *)
LEMMA DispatchTyped ==
  ASSUME RunTyped, NEW c \in Call, Dispatch(c), run' \in Tables
  PROVE  TypedNext
<1>1. /\ execution \in [Call -> RowStates] /\ dispatcher \in [Call -> DispatchStates]
      /\ looking \in [Call -> {"none", "early", "last"}] /\ block \in Nat
      /\ runner \in [Lane -> [stage : {"idle", "enqueue", "work", "rest", "stopped"},
                              todo : SUBSET Call, queued : BOOLEAN]]
  BY DEF RunTyped
<1>2. UNCHANGED <<plan, looking, block, runner>>
  BY DEF Dispatch, Admit, Authorize, AuthorizeOverCap, AwaitRelease, MarkEntered, MarkRefused,
         ProviderAnswers, ProviderAmbiguous, CompleteAttempt, CompletionFails, HoldAttempt,
         HoldExecution, NotDispatched, HandlerEnds, RecoverPreEntry
<1>3. \/ execution' = execution
      \/ \E row \in RowStates : execution' = [execution EXCEPT ![c] = row]
  <2>1. /\ execution[c] \in RowStates
        /\ {"executing", "completed", "failed", "reconciliation_hold"} \subseteq RowStates
    BY <1>1 DEF RowStates
  <2>2. CASE Admit(c)
    BY <2>1, <2>2 DEF Admit
  <2>3. CASE CompleteAttempt(c)
    BY <2>1, <2>3 DEF CompleteAttempt
  <2>4. CASE HoldExecution(c)
    BY <2>1, <2>4 DEF HoldExecution
  <2>5. CASE NotDispatched(c)
    BY <2>1, <2>5 DEF NotDispatched
  <2>6. CASE RecoverPreEntry(c)
    BY <2>1, <2>6 DEF RecoverPreEntry
  <2>7. CASE UNCHANGED execution
    BY <2>7
  <2> QED
    BY <2>2, <2>3, <2>4, <2>5, <2>6, <2>7
    DEF Dispatch, Authorize, AuthorizeOverCap, AwaitRelease, MarkEntered, MarkRefused,
        ProviderAnswers, ProviderAmbiguous, CompletionFails, HoldAttempt, HandlerEnds
<1>4. \/ dispatcher' = dispatcher
      \/ \E to \in DispatchStates : dispatcher' = [dispatcher EXCEPT ![c] = to]
  <2>1. {"admitted", "authorized", "entering", "sent", "unsent", "answered", "ambiguous", "lost",
         "succeeded", "rejected", "holding", "kept", "failed"} \subseteq DispatchStates
    BY DEF DispatchStates, Answered
  <2> QED
    BY <2>1
    DEF Dispatch, Admit, Authorize, AuthorizeOverCap, AwaitRelease, MarkEntered, MarkRefused,
        ProviderAnswers, ProviderAmbiguous, CompleteAttempt, CompletionFails, HoldAttempt,
        HoldExecution, NotDispatched, HandlerEnds, RecoverPreEntry, Step
<1> QED
  BY <1>1, <1>2, <1>3, <1>4 DEF TypedNext

LEMMA ReconcileTyped ==
  ASSUME RunTyped, NEW c \in Call, Reconcile(c), run' \in Tables
  PROVE  TypedNext
<1>1. /\ execution \in [Call -> RowStates] /\ dispatcher \in [Call -> DispatchStates]
      /\ looking \in [Call -> {"none", "early", "last"}] /\ block \in Nat
      /\ runner \in [Lane -> [stage : {"idle", "enqueue", "work", "rest", "stopped"},
                              todo : SUBSET Call, queued : BOOLEAN]]
  BY DEF RunTyped
<1>2. UNCHANGED <<plan, dispatcher, block, runner>>
  BY DEF Reconcile, BeginLookup, ApplyLookup, LookupFails, Cutoff
<1>3. \/ execution' = execution
      \/ \E row \in RowStates : execution' = [execution EXCEPT ![c] = row]
  <2>1. \A state : ExecutionAfter(state) \in RowStates
    BY DEF ExecutionAfter, RowStates
  <2> QED
    BY <2>1 DEF Reconcile, BeginLookup, ApplyLookup, LookupFails, Cutoff, Settle
<1>4. \/ looking' = looking
      \/ \E to \in {"none", "early", "last"} : looking' = [looking EXCEPT ![c] = to]
  BY DEF Reconcile, BeginLookup, ApplyLookup, LookupFails, Cutoff
<1> QED
  BY <1>1, <1>2, <1>3, <1>4 DEF TypedNext

LEMMA StartTyped ==
  ASSUME RunTyped, NEW l \in Lane, NEW calls \in SUBSET Call, NEW r, Start(l, calls, r)
  PROVE  /\ dispatcher' \in [Call -> DispatchStates]
         /\ runner' \in [Lane -> [stage : {"idle", "enqueue", "work", "rest", "stopped"},
                                  todo : SUBSET Call, queued : BOOLEAN]]
<1>1. /\ dispatcher \in [Call -> DispatchStates] /\ "called" \in DispatchStates
      /\ runner \in [Lane -> [stage : {"idle", "enqueue", "work", "rest", "stopped"},
                              todo : SUBSET Call, queued : BOOLEAN]]
  BY DEF RunTyped, DispatchStates
<1>2. runner' = [runner EXCEPT ![l] = [stage |-> "work", todo |-> calls, queued |-> FALSE]]
  BY DEF Start, Doing
<1>3. \/ dispatcher' = [c \in Call |-> IF c \in calls THEN "called" ELSE dispatcher[c]]
      \/ dispatcher' = [dispatcher EXCEPT ![Min(calls)] = "called"]
  BY DEF Start
<1> QED
  BY <1>1, <1>2, <1>3

LEMMA DriveTyped ==
  ASSUME RunTyped, NEW l \in Lane, Drive(l), run' \in Tables
  PROVE  TypedNext
<1> DEFINE Rows == [stage : {"idle", "enqueue", "work", "rest", "stopped"},
                    todo : SUBSET Call, queued : BOOLEAN]
<1>1. /\ execution \in [Call -> RowStates] /\ dispatcher \in [Call -> DispatchStates]
      /\ looking \in [Call -> {"none", "early", "last"}] /\ block \in Nat
      /\ runner \in [Lane -> Rows] /\ runner[l] \in Rows
  BY DEF RunTyped
<1>2. UNCHANGED <<plan, execution, looking, block>>
  BY DEF Drive, EnqueueNext, Enqueued, WorkerSucceeds, WorkerHeld, ReleaseBarrier, BurstEnds,
         ClaimResumed, CompleteResumed
<1>3. /\ Group(l, block) \in SUBSET Call /\ Queued(l) \in SUBSET Call
      /\ Resting \in Rows /\ \A todo \in SUBSET Call : Doing("rest", todo) \in Rows
  BY DEF Group, Queued, Resting, Doing
<1>4. dispatcher' \in [Call -> DispatchStates] /\ runner' \in [Lane -> Rows]
  <2>1. CASE EnqueueNext(l)
    <3>1. /\ dispatcher' = dispatcher
          /\ runner' = [runner EXCEPT ![l].todo = runner[l].todo \ {Min(runner[l].todo)},
                                      ![l].queued = runner[l].queued \/ Busy(run, l)]
      BY <2>1 DEF EnqueueNext
    <3>2. runner[l].todo \ {Min(runner[l].todo)} \in SUBSET Call
      BY <1>1
    <3>3. (runner[l].queued \/ Busy(run, l)) \in BOOLEAN
      OBVIOUS
    <3> QED
      BY <1>1, <3>1, <3>2, <3>3
  <2>2. CASE Enqueued(l)
    <3>1. CASE runner' = [runner EXCEPT ![l] = Resting] /\ dispatcher' = dispatcher
      BY <1>1, <1>3, <3>1
    <3>2. CASE Start(l, Group(l, block), run)
      BY <1>3, <3>2, StartTyped
    <3> QED
      BY <2>2, <3>1, <3>2 DEF Enqueued
  <2>3. CASE WorkerSucceeds(l)
    <3> DEFINE rest == runner[l].todo \ {Min(runner[l].todo)}
    <3>1. rest \in SUBSET Call /\ "called" \in DispatchStates
      BY <1>1 DEF DispatchStates
    <3>2. \/ runner' = [runner EXCEPT ![l] = Resting] /\ dispatcher' = dispatcher
          \/ /\ runner' = [runner EXCEPT ![l].todo = rest]
             /\ dispatcher' = [dispatcher EXCEPT ![Min(rest)] = "called"]
      BY <2>3 DEF WorkerSucceeds
    <3> HIDE DEF rest
    <3> QED
      BY <1>1, <1>3, <3>1, <3>2
  <2>4. CASE WorkerHeld(l)
    <3>1. /\ dispatcher' = dispatcher
          /\ runner' = [runner EXCEPT ![l] =
               Doing("rest", runner[l].todo \ {Min(runner[l].todo)})]
      BY <2>4 DEF WorkerHeld
    <3>2. runner[l].todo \ {Min(runner[l].todo)} \in SUBSET Call
      BY <1>1
    <3> QED
      BY <1>1, <1>3, <3>1, <3>2
  <2>5. CASE ReleaseBarrier(l) \/ CompleteResumed(l)
    BY <1>1, <2>5 DEF ReleaseBarrier, CompleteResumed
  <2>6. CASE BurstEnds(l)
    BY <1>1, <1>3, <2>6 DEF BurstEnds
  <2>7. CASE ClaimResumed(l)
    <3>1. PICK calls \in {{c \in Queued(l) : plan[c].block = plan[Min(Queued(l))].block},
                          {Min(Queued(l))}} : \E r : Start(l, calls, r)
      BY <2>7 DEF ClaimResumed
    <3>2. Min(Queued(l)) \in Call
      BY <1>3, <2>7, FirstCall DEF ClaimResumed, RunTyped
    <3> QED
      BY <1>3, <3>1, <3>2, StartTyped
  <2> QED
    BY <2>1, <2>2, <2>3, <2>4, <2>5, <2>6, <2>7 DEF Drive
<1> QED
  BY <1>1, <1>2, <1>4 DEF TypedNext

LEMMA RunnerTyped ==
  ASSUME RunTyped, OpenBlock \/ ResumeDueLanes \/ RunnerFails \/ HardFinalize, run' \in Tables
  PROVE  TypedNext
<1> DEFINE Rows == [stage : {"idle", "enqueue", "work", "rest", "stopped"},
                    todo : SUBSET Call, queued : BOOLEAN]
<1>1. /\ execution \in [Call -> RowStates] /\ dispatcher \in [Call -> DispatchStates]
      /\ looking \in [Call -> {"none", "early", "last"}] /\ block \in Nat
      /\ runner \in [Lane -> Rows]
  BY DEF RunTyped
<1>2. UNCHANGED <<plan, dispatcher, looking>>
  BY DEF OpenBlock, ResumeDueLanes, RunnerFails, HardFinalize
<1>3. block' \in {block, block + 1} /\ block' \in Nat
  BY <1>1 DEF OpenBlock, ResumeDueLanes, RunnerFails, HardFinalize
<1>4. execution' \in [Call -> RowStates]
  <2>1. "reconciliation_hold" \in RowStates
    BY DEF RowStates
  <2> QED
    BY <1>1, <2>1 DEF OpenBlock, ResumeDueLanes, RunnerFails, HardFinalize
<1>5. runner' \in [Lane -> Rows]
  <2>1. /\ Resting \in Rows /\ Doing("stopped", {}) \in Rows
        /\ \A l \in Lane : Doing("enqueue", Group(l, block')) \in Rows
    <3>1. \A l \in Lane : Group(l, block') \in SUBSET Call
      BY DEF Group
    <3> QED
      BY <3>1 DEF Resting, Doing
  <2>2. CASE OpenBlock
    BY <2>1, <2>2 DEF OpenBlock
  <2>3. CASE RunnerFails
    BY <2>1, <2>3 DEF RunnerFails
  <2> QED
    BY <1>1, <2>2, <2>3 DEF ResumeDueLanes, HardFinalize
<1> QED
  BY <1>1, <1>2, <1>3, <1>4, <1>5 DEF TypedNext

(* What a lane holds are calls of it, also in a run that failed: its holds are *)
(* then only given up.                                                         *)
HeldLess(r, s) == \A l \in Lane : s.held[l] \subseteq r.held[l]

LEMMA FailedHeld ==
  ASSUME plan \in Plans, NEW r \in Tables
  PROVE  Failed(r).held = r.held /\ Failed(r) \in Tables
<1>1. CASE r.control = "active"
  BY <1>1, FailedFields
<1>2. CASE r.control = "failed"
  BY <1>2 DEF Failed
<1> QED
  BY <1>1, <1>2 DEF Tables

LEMMA RemovedHeld ==
  ASSUME plan \in Plans, NEW r \in Tables, NEW c \in Call, NEW state
  PROVE  Removed(r, c, state) \in Tables /\ HeldLess(r, Removed(r, c, state))
<1>1. /\ Removed(r, c, state) \in Tables
      /\ Removed(r, c, state).held[plan[c].lane] = r.held[plan[c].lane] \ {c}
      /\ \A l \in Lane : l # plan[c].lane => Removed(r, c, state).held[l] = r.held[l]
  BY RemovedFields
<1> QED
  BY <1>1 DEF HeldLess

LEMMA SettledHeld ==
  ASSUME plan \in Plans, NEW r \in Tables, NEW c \in Call, NEW state \in Terminals
  PROVE  HeldLess(r, Settled(r, c, state))
<1> DEFINE s == Classified(r, {c}, state)
           o == Owned(s, c, state)
           u == Removed(o, c, r.control)
<1>1. Settled(r, c, state) \in {u, Failed(u)}
  BY DEF Settled
<1>2. s \in Tables /\ s.held = r.held
  BY DecidedCall
<1> HIDE DEF s
<1>3. o \in Tables /\ o.held = s.held
  BY <1>2, OwnedFields
<1> HIDE DEF o
<1>4. u \in Tables /\ HeldLess(o, u)
  BY <1>3, RemovedHeld
<1> HIDE DEF u
<1>5. Failed(u).held = u.held
  BY <1>4, FailedHeld
<1> QED
  BY <1>1, <1>2, <1>3, <1>4, <1>5 DEF HeldLess

LEMMA DispatchHeld ==
  ASSUME RunTyped, NEW c \in Call, Dispatch(c)
  PROVE  run'.control = "active" \/ HeldLess(run, run')
<1>1. run \in Tables /\ plan \in Plans
  BY DEF RunTyped
<1>2. CASE UNCHANGED run
  BY <1>2 DEF HeldLess
<1>3. CASE Admit(c) \/ Authorize(c) \/ \E to \in {"sent", "unsent"} : MarkEntered(c, to)
  <2>1. run'.held = run.held
    BY <1>1, <1>3 DEF Admit, Authorize, MarkEntered, Tables
  <2> QED
    BY <2>1 DEF HeldLess
<1>4. CASE AuthorizeOverCap(c)
  <2>1. run'.held = run.held
    BY <1>1, <1>4, FailedHeld DEF AuthorizeOverCap
  <2> QED
    BY <2>1 DEF HeldLess
<1>5. CASE CompleteAttempt(c)
  <2> DEFINE s == Classified(run, {c}, "completed_verified")
  <2>1. run' = Removed(s, c, run.control)
    BY <1>5 DEF CompleteAttempt
  <2>2. s \in Tables /\ s.held = run.held
    <3>1. "completed_verified" \in Terminals
      BY DEF Terminals, Usable
    <3> QED
      BY <1>1, <3>1, DecidedCall
  <2> HIDE DEF s
  <2>3. HeldLess(s, run')
    BY <1>1, <2>1, <2>2, RemovedHeld
  <2> QED
    BY <2>2, <2>3 DEF HeldLess
<1>6. CASE HoldAttempt(c)
  <2> DEFINE attempts == [run.attempt EXCEPT ![c] = "reconciliation_pending"]
             generations == [run.generation EXCEPT ![c] = run.generation[c] \/ dispatcher[c] # "lost"]
             g == [run EXCEPT !.generation = generations]
             u == [run EXCEPT !.attempt = attempts, !.generation = generations]
  <2>1. run' = Holding(u, c) /\ run.control = "active"
    BY <1>6 DEF HoldAttempt
  <2>2. /\ attempts \in [Call -> AttemptStates] /\ generations \in [Call -> BOOLEAN]
    BY <1>1 DEF Tables, AttemptStates
  <2> HIDE DEF attempts, generations
  <2>3. g \in Tables /\ g.control = run.control /\ u = [g EXCEPT !.attempt = attempts]
    BY <1>1, <2>2 DEF Tables
  <2> HIDE DEF g
  <2>4. u \in Tables /\ u.control = g.control
    BY <2>2, <2>3 DEF Tables
  <2> HIDE DEF u
  <2> QED
    BY <1>1, <2>1, <2>3, <2>4, HoldingFields
<1>7. CASE NotDispatched(c)
  <2> DEFINE s == Classified(run, {c}, "not_dispatched")
             u == Removed(s, c, "active")
  <2>1. run' = Failed(u)
    BY <1>7 DEF NotDispatched
  <2>2. s \in Tables /\ s.held = run.held
    <3>1. "not_dispatched" \in Terminals
      BY DEF Terminals
    <3> QED
      BY <1>1, <3>1, DecidedCall
  <2> HIDE DEF s
  <2>3. u \in Tables /\ HeldLess(s, u)
    BY <1>1, <2>2, RemovedHeld
  <2> HIDE DEF u
  <2>4. run'.held = u.held
    BY <1>1, <2>1, <2>3, FailedHeld
  <2> QED
    BY <2>2, <2>3, <2>4 DEF HeldLess
<1>8. CASE RecoverPreEntry(c)
  <2> DEFINE tokens == [run.token EXCEPT ![c] = "canceled"]
             u == [run EXCEPT !.token = tokens]
             s == Classified(u, {c}, "not_dispatched")
  <2>1. run' = Failed(s)
    BY <1>8 DEF RecoverPreEntry
  <2>2. tokens \in [Call -> TokenStates]
    BY <1>1 DEF Tables, TokenStates
  <2> HIDE DEF tokens
  <2>3. u \in Tables /\ u.held = run.held
    BY <1>1, <2>2 DEF Tables
  <2> HIDE DEF u
  <2>4. s \in Tables /\ s.held = u.held
    <3>1. "not_dispatched" \in Terminals
      BY DEF Terminals
    <3> QED
      BY <1>1, <2>3, <3>1, DecidedCall
  <2> HIDE DEF s
  <2>5. run'.held = s.held
    BY <1>1, <2>1, <2>4, FailedHeld
  <2> QED
    BY <2>3, <2>4, <2>5 DEF HeldLess
<1> QED
  BY <1>2, <1>3, <1>4, <1>5, <1>6, <1>7, <1>8
  DEF Dispatch, AwaitRelease, MarkRefused, ProviderAnswers, ProviderAmbiguous, CompletionFails,
      HoldExecution, HandlerEnds

LEMMA ReconcileHeld ==
  ASSUME RunTyped, NEW c \in Call, Reconcile(c)
  PROVE  HeldLess(run, run')
<1>1. run \in Tables /\ plan \in Plans
  BY DEF RunTyped
<1>2. \/ run' = run \/ run' = Failed(run)
      \/ \E state \in Terminals : run' = Settled(run, c, state)
  <2>1. "unresolved_provider_outcome" \in Terminals
    BY DEF Terminals
  <2> QED
    BY <2>1 DEF Reconcile, BeginLookup, ApplyLookup, LookupFails, Cutoff, Settle
<1>3. CASE run' = run
  BY <1>3 DEF HeldLess
<1>4. CASE run' = Failed(run)
  BY <1>1, <1>4, FailedHeld DEF HeldLess
<1>5. CASE \E state \in Terminals : run' = Settled(run, c, state)
  BY <1>1, <1>5, SettledHeld
<1> QED
  BY <1>2, <1>3, <1>4, <1>5

LEMMA RunnerHeld ==
  ASSUME RunTyped,
         (\E l \in Lane : Drive(l)) \/ OpenBlock \/ ResumeDueLanes \/ RunnerFails \/ HardFinalize
  PROVE  run'.control = "active" \/ HeldLess(run, run')
<1>1. run \in Tables /\ plan \in Plans
  BY DEF RunTyped
<1>2. CASE run'.held = run.held
  BY <1>2 DEF HeldLess
<1>3. CASE RunnerFails
  <2>1. run' \in {run, Failed(run)}
    BY <1>3 DEF RunnerFails
  <2> QED
    BY <1>1, <1>2, <2>1, FailedHeld
<1>4. CASE HardFinalize
  <2> DEFINE never == Undispatched(run)
             entered == Open(run) \ never
             s == Classified(run, never, "not_dispatched")
             f == Classified(s, entered, "unresolved_provider_outcome")
             lanes == [l \in Lane |-> "failed"]
             tokens == [c \in Call |-> IF f.token[c] = "live" THEN "canceled" ELSE f.token[c]]
  <2>1. run' = [f EXCEPT !.control = "failed", !.lane = lanes, !.token = tokens]
    BY <1>4 DEF HardFinalize
  <2>2. /\ "not_dispatched" \in Terminals /\ "unresolved_provider_outcome" \in Terminals
        /\ never \in SUBSET Call /\ entered \in SUBSET Call
    BY DEF Terminals, Undispatched, Open
  <2> HIDE DEF never, entered
  <2>3. s \in Tables /\ s.held = run.held
    <3>1. ClassifiedAs(never, "not_dispatched", run, s)
      BY <1>1, <2>2, ClassifiedKeeps
    <3> QED
      BY <3>1 DEF ClassifiedAs
  <2> HIDE DEF s
  <2>4. f \in Tables /\ f.held = s.held
    <3>1. ClassifiedAs(entered, "unresolved_provider_outcome", s, f)
      BY <1>1, <2>2, <2>3, ClassifiedKeeps
    <3> QED
      BY <3>1 DEF ClassifiedAs
  <2> HIDE DEF f, lanes, tokens
  <2>5. run'.held = f.held
    BY <2>1, <2>4 DEF Tables
  <2> QED
    BY <1>2, <2>3, <2>4, <2>5
<1>5. CASE OpenBlock \/ ResumeDueLanes
  BY <1>1, <1>2, <1>5 DEF OpenBlock, ResumeDueLanes, Tables
<1>6. ASSUME NEW l \in Lane, Drive(l) PROVE run'.held = run.held
  <2>1. CASE Enqueued(l)
    <3>1. run' = run \/ \E b, v : run' = [run EXCEPT !.barrier[b] = v]
      BY <2>1 DEF Enqueued, Start
    <3> QED
      BY <1>1, <3>1 DEF Tables
  <2>2. CASE ClaimResumed(l)
    <3>1. PICK calls, lane, backlog :
            Start(l, calls, [run EXCEPT !.lane[l] = lane, !.backlog = backlog])
      BY <2>2 DEF ClaimResumed
    <3>2. \/ run' = [run EXCEPT !.lane[l] = lane, !.backlog = backlog]
          \/ \E b, v : run' = [[run EXCEPT !.lane[l] = lane, !.backlog = backlog]
                                 EXCEPT !.barrier[b] = v]
      BY <3>1 DEF Start
    <3> QED
      BY <1>1, <3>2 DEF Tables
  <2>3. CASE EnqueueNext(l) \/ ReleaseBarrier(l) \/ CompleteResumed(l)
    BY <1>1, <2>3 DEF EnqueueNext, ReleaseBarrier, CompleteResumed, Tables
  <2>4. CASE WorkerSucceeds(l) \/ WorkerHeld(l) \/ BurstEnds(l)
    BY <2>4 DEF WorkerSucceeds, WorkerHeld, BurstEnds
  <2> QED
    BY <1>6, <2>1, <2>2, <2>3, <2>4 DEF Drive
<1> QED
  BY <1>2, <1>3, <1>4, <1>5, <1>6

LEMMA HeldKeeps ==
  ASSUME RunTyped, HeldInLanes(run), ReliabilityNext, LanesNext
  PROVE  HeldInLanes(run')
<1>1. run'.control = "active" \/ HeldLess(run, run')
  BY DispatchHeld, ReconcileHeld, RunnerHeld DEF ReliabilityNext
<1>2. CASE run'.control = "active"
  BY <1>2 DEF LanesNext, LanesAt, LaneActive, LaneHolds, HeldInLanes, Of
<1>3. CASE HeldLess(run, run')
  BY <1>3 DEF HeldLess, HeldInLanes
<1> QED
  BY <1>1, <1>2, <1>3

(* Every step keeps the invariant.                                             *)
LEMMA DispatchSound ==
  ASSUME RunTyped, SoundNow, LanesNow, NEW c \in Call, Dispatch(c)
  PROVE  SoundNext
<1>1. CASE \/ AwaitRelease(c) \/ MarkRefused(c) \/ ProviderAnswers(c)
           \/ \E identified \in BOOLEAN : ProviderAmbiguous(c, identified)
           \/ CompletionFails(c) \/ HoldExecution(c) \/ HandlerEnds(c)
  BY <1>1, DispatcherMoves
<1>2. CASE Admit(c)
  BY <1>2, AdmitSound
<1>3. CASE Authorize(c)
  BY <1>3, AuthorizeSound
<1>4. CASE AuthorizeOverCap(c)
  BY <1>4, AuthorizeOverCapSound
<1>5. CASE \E to \in {"sent", "unsent"} : MarkEntered(c, to)
  BY <1>5, MarkEnteredSound
<1>6. CASE CompleteAttempt(c)
  BY <1>6, CompleteAttemptSound
<1>7. CASE HoldAttempt(c)
  BY <1>7, HoldAttemptSound
<1>8. CASE NotDispatched(c)
  BY <1>8, NotDispatchedSound
<1>9. CASE RecoverPreEntry(c)
  BY <1>9, RecoverPreEntrySound
<1> QED
  BY <1>1, <1>2, <1>3, <1>4, <1>5, <1>6, <1>7, <1>8, <1>9 DEF Dispatch

LEMMA RunStep ==
  ASSUME RunInv, [ReliabilityNext]_reliabilityVars
  PROVE  RunInv'
<1>1. RunTyped /\ SoundNow /\ LanesNow /\ HeldInLanes(run)
  BY DEF RunInv
<1>2. CASE UNCHANGED reliabilityVars
  <2>1. /\ plan' = plan /\ run' = run /\ execution' = execution /\ dispatcher' = dispatcher
        /\ looking' = looking /\ block' = block /\ runner' = runner
    BY <1>2 DEF reliabilityVars
  <2>2. TypedNext
    BY <1>1, <2>1 DEF TypedNext, RunTyped
  <2>3. SoundNext /\ LanesNext /\ HeldInLanes(run')
    BY <1>1, <2>1, <2>2 DEF SoundNext, SoundNow, LanesNext, LanesNow, TypedNext
  <2> QED
    BY <1>1, <2>2, <2>3, SamePlan
<1>3. CASE ReliabilityNext
  <2>1. CASE \E c \in Call : Dispatch(c)
    <3>1. SoundNext /\ LanesNext
      BY <1>1, <2>1, DispatchSound, CallLanes
    <3> QED
      BY <1>1, <1>3, <2>1, <3>1, DispatchTyped, HeldKeeps, SamePlan DEF SoundNext
  <2>2. CASE \E c \in Call : Reconcile(c)
    <3>1. SoundNext /\ LanesNext
      BY <1>1, <2>2, ReconcileSound, CallLanes
    <3> QED
      BY <1>1, <1>3, <2>2, <3>1, ReconcileTyped, HeldKeeps, SamePlan DEF SoundNext
  <2>3. CASE \E l \in Lane : Drive(l)
    <3>1. SoundNext /\ LanesNext
      BY <1>1, <2>3, EnqueueKeeps, EnqueuedKeeps, WorkerSucceedsKeeps, WorkerHeldKeeps,
         ReleaseBarrierKeeps, BurstEndsKeeps, ClaimKeeps, CompleteResumedKeeps DEF Drive
    <3> QED
      BY <1>1, <1>3, <2>3, <3>1, DriveTyped, HeldKeeps, SamePlan DEF SoundNext
  <2>4. CASE OpenBlock \/ ResumeDueLanes \/ RunnerFails \/ HardFinalize
    <3>1. SoundNext /\ LanesNext
      BY <1>1, <2>4, OpenBlockKeeps, ResumeKeeps, RunnerFailsKeeps, HardFinalizeSound, CallLanes
    <3> QED
      BY <1>1, <1>3, <2>4, <3>1, RunnerTyped, HeldKeeps, SamePlan DEF SoundNext
  <2> QED
    BY <1>3, <2>1, <2>2, <2>3, <2>4 DEF ReliabilityNext
<1> QED
  BY <1>2, <1>3

LEMMA NothingExposed ==
  ASSUME plan \in Plans
  PROVE  Exposure({}) = 0
<1>1. Units([c \in Call |-> plan[c].reserved], {}) = {}
  BY DEF Units
<1> QED
  BY <1>1, FS_EmptySet DEF Exposure, Total

LEMMA RunStarts ==
  ASSUME ReliabilityInit
  PROVE  RunInv
<1>1. /\ plan \in Plans /\ block = 0
      /\ run.control = "active" /\ run.gate = 0 /\ run.usable = 0 /\ run.owner = NoCall
      /\ \A l \in Lane : run.lane[l] = "ready" /\ run.held[l] = {}
      /\ \A c \in Call : /\ run.attempt[c] = "planned" /\ run.token[c] = "none"
                         /\ run.backlog[c] = "none"
                         /\ execution[c] = "none" /\ dispatcher[c] = "idle"
      /\ \A b \in Block : run.barrier[b].state = "none" /\ run.barrier[b].planned = {}
      /\ \A l \in Lane : runner[l] = [stage |-> "idle", todo |-> {}, queued |-> FALSE]
  BY DEF ReliabilityInit
<1>2. RunTyped
  <2>1. /\ "planned" \in AttemptStates /\ "none" \in TokenStates /\ "none" \in BacklogStates
        /\ "none" \in BarrierStates /\ "none" \in RowStates /\ "ready" \in LaneStates
        /\ "idle" \in DispatchStates
    BY DEF AttemptStates, TokenStates, BacklogStates, BarrierStates, RowStates, LaneStates,
           DispatchStates
  <2>2. run \in Tables
    BY <2>1 DEF ReliabilityInit, Tables
  <2> QED
    BY <2>1, <2>2 DEF ReliabilityInit, RunTyped
<1>3. \A c \in Call : c \in Open(run)
  BY <1>1 DEF Open, Terminals, Usable, Nonusable
<1>4. \A c \in Call : /\ plan[c].lane \in Lane /\ plan[c].block \in Block
  BY <1>1, PlanFacts
<1>5. SoundNow
  <2>1. CallsAgree(run, execution, dispatcher)
    BY <1>1 DEF CallsAgree, CallAgrees, Usable, Nonusable, Answered
  <2>2. Counted(run)
    <3>1. Finished(run) = {} /\ UsableCalls(run) = {}
      BY <1>1, <1>3 DEF Finished, UsableCalls, Usable
    <3> QED
      BY <1>1, <3>1, FS_EmptySet DEF Counted
  <2>3. BarriersHold(run, dispatcher)
    BY <1>1 DEF BarriersHold, Of
  <2>4. Capped(run)
    <3>1. Dispatched(run) \cap Open(run) = {}
      BY <1>1 DEF Dispatched
    <3>2. Exposure(Dispatched(run) \cap Open(run)) = 0
      BY <1>1, <3>1, NothingExposed, Zenon
    <3>3. Cap \in Nat
      BY PlansAssumption
    <3> QED
      BY <3>2, <3>3 DEF Capped
  <2>5. PendingHeld(run) /\ SingleFlight(run, execution) /\ Quiescent(run)
    BY <1>1 DEF PendingHeld, SingleFlight, Quiescent
  <2>6. OneLost(run)
    BY <1>1 DEF OneLost, Lost, Terminals, Usable, Nonusable
  <2> QED
    BY <2>1, <2>2, <2>3, <2>4, <2>5, <2>6 DEF SoundNow, Sound, Steady
<1>6. LanesNow
  <2> SUFFICES ASSUME NEW l \in Lane
               PROVE  /\ LaneWaits(l, run, dispatcher, block, runner[l])
                      /\ LaneActive(l, run, dispatcher, block, runner[l])
    BY DEF LanesNow, LanesAt
  <2>1. /\ \A c \in Of(l) : c \in Call
        /\ runner[l].stage = "idle" /\ runner[l].todo = {}
    BY <1>1 DEF Of
  <2>2. LaneWaits(l, run, dispatcher, block, runner[l])
    BY <1>1, <2>1 DEF LaneWaits, Unused
  <2>3. LaneHolds(l, run, dispatcher, block, runner[l])
    BY <1>1, <2>1 DEF LaneHolds, Working
  <2>4. LaneFlights(l, run, dispatcher, runner[l])
    BY <1>1, <2>1 DEF LaneFlights
  <2> QED
    BY <2>2, <2>3, <2>4 DEF LaneActive
<1>7. HeldInLanes(run)
  BY <1>1 DEF HeldInLanes
<1> QED
  BY <1>2, <1>5, <1>6, <1>7 DEF RunInv

THEOREM RunInvHolds == ReliabilitySpec => []RunInv
BY RunStarts, RunStep, PTL DEF ReliabilitySpec

(* The properties of a run follow from the invariant.                          *)
LEMMA GateFacts ==
  ASSUME RunInv
  PROVE  /\ IsFiniteSet(Call)
         /\ run.gate = Cardinality(Finished(run)) /\ run.usable = Cardinality(UsableCalls(run))
         /\ UsableCalls(run) \subseteq Finished(run)
         /\ run.gate \in 0 .. Cardinality(Call) /\ run.usable \in 0 .. run.gate
         /\ run.control = "active" => run.gate - run.usable <= 1
<1>1. IsFiniteSet(Call) /\ run \in Tables
  BY PlanFacts DEF RunInv, RunTyped
<1>2. run.gate = Cardinality(Finished(run)) /\ run.usable = Cardinality(UsableCalls(run))
  BY DEF RunInv, SoundNow, Sound, Steady, Counted
<1>3. /\ Finished(run) \subseteq Call /\ UsableCalls(run) \subseteq Finished(run)
      /\ Finished(run) = UsableCalls(run) \union Lost(run)
  BY DEF Finished, UsableCalls, Lost, Open, Terminals
<1>4. /\ IsFiniteSet(Finished(run)) /\ Cardinality(Finished(run)) <= Cardinality(Call)
      /\ IsFiniteSet(UsableCalls(run))
      /\ Cardinality(UsableCalls(run)) <= Cardinality(Finished(run))
      /\ Cardinality(Call) \in Nat /\ Cardinality(Finished(run)) \in Nat
      /\ Cardinality(UsableCalls(run)) \in Nat
  BY <1>1, <1>3, FS_Subset, FS_CardinalityType
<1>5. ASSUME run.control = "active" PROVE run.gate - run.usable <= 1
  <2>1. Lost(run) \subseteq {run.owner}
    BY <1>5 DEF RunInv, SoundNow, Sound, OneLost
  <2>2. IsFiniteSet(Lost(run)) /\ Cardinality(Lost(run)) <= 1 /\ Cardinality(Lost(run)) \in Nat
    <3>1. IsFiniteSet({run.owner}) /\ Cardinality({run.owner}) = 1
      BY FS_Singleton
    <3> QED
      BY <2>1, <3>1, FS_Subset, FS_CardinalityType
  <2>3. UsableCalls(run) \cap Lost(run) = {}
    BY DEF UsableCalls, Lost
  <2>4. Cardinality(UsableCalls(run) \union Lost(run))
          = Cardinality(UsableCalls(run)) + Cardinality(Lost(run))
    BY <1>4, <2>2, <2>3, CardinalityDisjoint
  <2> QED
    BY <1>2, <1>3, <1>4, <2>2, <2>4
<1> QED
  BY <1>1, <1>2, <1>3, <1>4, <1>5

LEMMA RunTypeOK ==
  ASSUME RunInv
  PROVE  ReliabilityTypeOK
<1>1. run \in Tables /\ execution \in [Call -> RowStates] /\ HeldInLanes(run)
  BY DEF RunInv, RunTyped
<1>2. /\ run.gate \in 0 .. Cardinality(Call) /\ run.usable \in 0 .. run.gate
  BY GateFacts
<1>3. /\ run.control \in {"active", "failed"} /\ run.owner \in Call \union {NoCall}
      /\ \A l \in Lane : run.lane[l] \in LaneStates
  BY <1>1 DEF Tables
<1>4. \A c \in Call : /\ run.attempt[c] \in AttemptStates /\ run.token[c] \in TokenStates
                      /\ run.backlog[c] \in BacklogStates /\ execution[c] \in RowStates
  BY <1>1 DEF Tables
<1>5. \A l \in Lane : \A c \in run.held[l] : plan[c].lane = l
  BY <1>1 DEF HeldInLanes
<1> QED
  BY <1>2, <1>3, <1>4, <1>5
  DEF ReliabilityTypeOK, LaneStates, TokenStates, BacklogStates, RowStates

(* The counters a run is judged by answer for its calls, however many writers  *)
(* classified them, and a run still active has lost one call at most.          *)
THEOREM GateAlwaysAnswers == ReliabilitySpec => []GateAnswersForTheRun
<1>1. RunInv => GateAnswersForTheRun
  <2> SUFFICES ASSUME RunInv PROVE GateAnswersForTheRun
    OBVIOUS
  <2>1. ReliabilityTypeOK
    BY RunTypeOK
  <2>2. /\ run.gate = Cardinality(Call \ Open(run))
        /\ run.usable = Cardinality({c \in Call : run.attempt[c] \in Usable})
        /\ run.control = "active" => run.gate - run.usable <= 1
    BY GateFacts DEF Finished, UsableCalls
  <2>3. \A c \in Call : run.attempt[c] \in Usable <=> execution[c] = "completed"
    BY DEF RunInv, SoundNow, Sound, Steady, CallsAgree, CallAgrees
  <2> QED
    BY <2>1, <2>2, <2>3 DEF GateAnswersForTheRun
<1> QED
  BY <1>1, RunInvHolds, PTL

(* A burst call is not sent before the calls of its block hold their tokens,   *)
(* another lane is single-flight, and holds are exactly what the lane says.    *)
THEOREM LanesAlwaysKeepOrder == ReliabilitySpec => []LanesKeepTheirOrder
<1>1. RunInv => LanesKeepTheirOrder
  <2> SUFFICES ASSUME RunInv PROVE LanesKeepTheirOrder
    OBVIOUS
  <2>1. /\ BarriersHold(run, dispatcher) /\ PendingHeld(run) /\ SingleFlight(run, execution)
        /\ plan \in Plans
    BY DEF RunInv, RunTyped, SoundNow, Sound, Steady
  <2>2. ASSUME NEW c \in Call PROVE InOrder(c)
    <3>1. CASE plan[c].lane = Burst
      <4>1. ASSUME run.token[c] = "entered",
                   NEW k \in run.barrier[plan[c].block].planned
            PROVE  run.token[k] # "none"
        <5>1. run.barrier[plan[c].block].state = "released"
          BY <2>1, <3>1, <4>1 DEF BarriersHold, Of, Released
        <5>2. plan[c].block \in Block
          BY <2>1, PlanFacts
        <5> QED
          BY <2>1, <4>1, <5>1, <5>2 DEF BarriersHold
      <4> QED
        BY <3>1, <4>1 DEF InOrder
    <3>2. CASE plan[c].lane # Burst
      BY <2>1, <3>2 DEF InOrder, SingleFlight
    <3> QED
      BY <3>1, <3>2
  <2>3. run.control = "active" =>
          \A l \in Lane : run.held[l] # {} <=> run.lane[l] = "held"
    BY DEF RunInv, LanesNow, LanesAt, LaneActive, LaneHolds
  <2> QED
    BY <2>1, <2>2, <2>3 DEF LanesKeepTheirOrder, PendingHeld
<1> QED
  BY <1>1, RunInvHolds, PTL

(* Dispatched calls whose cost is not known never reserve more than the cap.   *)
THEOREM ExposureAlwaysWithinCap == ReliabilitySpec => []ExposureWithinCap
<1>1. RunInv => ExposureWithinCap
  BY DEF RunInv, SoundNow, Sound, Steady, Capped, Dispatched, ExposureWithinCap
<1> QED
  BY <1>1, RunInvHolds, PTL

(* A call of a failed run that has no terminal state has a token its owner may *)
(* still use.                                                                  *)
THEOREM NothingEverHangs == ReliabilitySpec => []NothingHangsAfterFailure
<1>1. RunInv => NothingHangsAfterFailure
  BY DEF RunInv, SoundNow, Sound, Steady, Quiescent, NothingHangsAfterFailure
<1> QED
  BY <1>1, RunInvHolds, PTL

(* What the evidence of a run is judged by follows from what the run decided.  *)
LEMMA DecidedIsKnown ==
  ASSUME RunInv, run.control = "active", NEW c \in Call, c \notin Open(run)
  PROVE  /\ run.attempt[c] \in Usable \union Nonusable
         /\ run.token[c] = "entered" /\ dispatcher[c] # "idle"
         /\ run.attempt[c] \in Usable => execution[c] = "completed"
         /\ run.attempt[c] \in Nonusable => execution[c] = "failed"
<1>1. run.attempt[c] \in Terminals
  BY DEF Open
<1>2. run.attempt[c] \in Usable \union Nonusable
  <2>1. OneLost(run)
    BY DEF RunInv, SoundNow, Sound
  <2>2. run.attempt[c] \notin Usable => c \in Lost(run)
    BY <1>1 DEF Lost
  <2> QED
    BY <2>1, <2>2 DEF OneLost
<1>3. /\ CallAgrees(run.attempt[c], run.token[c], execution[c], dispatcher[c])
      /\ run.token[c] \in TokenStates
  BY OneCall DEF RunInv
<1> QED
  BY <1>2, <1>3 DEF CallAgrees, Usable, Nonusable, TokenStates

(* When the gate lets a run reach its end and no lookup of it failed, the two  *)
(* reductions of its evidence pass.                                            *)
THEOREM GateAlwaysAgrees == ReliabilitySpec => []GateAgreesWithEvidence
<1>1. RunInv => GateAgreesWithEvidence
  <2> SUFFICES ASSUME RunInv, Concluded, ~missed PROVE EvidencePasses
    BY DEF GateAgreesWithEvidence
  <2>1. /\ run.control = "active" /\ Open(run) = {}
        /\ \A c \in Call : looking[c] = "none" /\ run.backlog[c] # "claimed"
    BY DEF Concluded
  <2>2. /\ run \in Tables /\ plan \in Plans /\ IsFiniteSet(Call)
        /\ Cardinality(Call) \in Nat
    BY PlanFacts, FS_CardinalityType DEF RunInv, RunTyped
  <2>3. ASSUME NEW c \in Call
        PROVE  /\ run.attempt[c] \in Usable \union Nonusable
               /\ run.token[c] = "entered" /\ dispatcher[c] # "idle"
               /\ run.attempt[c] \in Usable => execution[c] = "completed"
               /\ run.attempt[c] \in Nonusable => execution[c] = "failed"
    BY <2>1, DecidedIsKnown
  <2>4. ASSUME NEW c \in Call PROVE RowsMatch(c)
    BY <2>3 DEF RowsMatch, PrimitiveEntered, Usable, Nonusable
  <2>5. ASSUME NEW c \in Call PROVE LifecycleValid(c)
    <3>1. run.backlog[c] \in BacklogStates /\ run.backlog[c] # "claimed"
      BY <2>1, <2>2 DEF Tables
    <3>2. run.backlog[c] # "queued"
      <4>1. plan[c].lane \in Lane /\ c \in Of(plan[c].lane)
        BY <2>2, PlanFacts DEF Of
      <4> QED
        BY <2>3, <4>1 DEF RunInv, LanesNow, LanesAt, LaneWaits
    <3>3. execution[c] # "none"
      BY <2>3
    <3> QED
      BY <3>1, <3>2, <3>3 DEF LifecycleValid, BacklogStates
  <2>6. AcceptedSnapshotAuthority
    <3>1. run.gate = Cardinality(Call)
      BY <2>1, GateFacts DEF Finished
    <3>2. \A l \in Lane : run.held[l] = {}
      BY <2>1 DEF RunInv, LanesNow, LanesAt, LaneActive, LaneHolds
    <3>3. {c \in Call : run.attempt[c] = "unresolved_provider_outcome"} = {}
      BY <2>3 DEF Usable, Nonusable
    <3>4. Exposure({c \in Call : run.attempt[c] = "unresolved_provider_outcome"}) = 0
      BY <2>2, <3>3, NothingExposed
    <3> QED
      BY <2>1, <3>1, <3>2, <3>4 DEF AcceptedSnapshotAuthority, LookupsFinal
  <2>7. StrictReport
    <3>1. /\ run.gate = Cardinality(Call) /\ run.gate - run.usable <= 1
          /\ run.usable = Ended(Usable) /\ run.usable \in 0 .. run.gate
      BY <2>1, GateFacts DEF Finished, UsableCalls, Ended
    <3>2. Ended({"not_dispatched", "unresolved_provider_outcome"}) = 0
      <4>1. {c \in Call : run.attempt[c] \in {"not_dispatched", "unresolved_provider_outcome"}} = {}
        BY <2>3 DEF Usable, Nonusable
      <4> QED
        BY <4>1, FS_EmptySet DEF Ended
    <3>3. Ended(Nonusable) <= 1
      <4> DEFINE lost == {c \in Call : run.attempt[c] \in Nonusable}
      <4>1. lost \subseteq {run.owner}
        BY <2>1 DEF RunInv, SoundNow, Sound, OneLost, Lost, Terminals, Usable, Nonusable
      <4>2. IsFiniteSet({run.owner}) /\ Cardinality({run.owner}) = 1
        BY FS_Singleton
      <4> QED
        BY <4>1, <4>2, FS_Subset DEF Ended
    <3> QED
      BY <2>2, <2>4, <3>1, <3>2, <3>3 DEF StrictReport
  <2> QED
    BY <2>4, <2>5, <2>6, <2>7 DEF EvidencePasses, SnapshotComplete
<1> QED
  BY <1>1, RunInvHolds, PTL
=============================================================================
