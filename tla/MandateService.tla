--------------------------- MODULE MandateService ---------------------------
(***************************************************************************)
(* The public mandate: one ledger, a circuit for each child and the held    *)
(* completions, kept as a single row that every operation locks             *)
(* (src/src/core, src/src/persistence/postgres.ts and the legacy            *)
(* /v1/chat/completions of src/src/http/app.ts).                            *)
(*                                                                         *)
(* A request pays, prepares its completion in one transaction that includes *)
(* the provider's call, and releases it in a second one.  Requests          *)
(* interleave between their transactions, bring a request id again, and die *)
(* or lose an acknowledgement anywhere.                                     *)
(***************************************************************************)
EXTENDS Amounts, SequencesExt

CONSTANTS
  Children,       \* scout, builder, reviewer
  Allowance,      \* their budgets
  RootBudget,
  Ids,            \* idempotency keys
  Asks,           \* what requests ask for: an id, a child and the quoted maximum
  Costs,          \* costs of provider answers
  Ceiling,        \* perCallCeilingMicros
  Callers,        \* requests being served
  NoCost, NoCaller

(* The ledger refuses a mandate without a budget and a reservation of nothing; *)
(* prices and token counts are never negative.                               *)
ASSUME MandateAssumption ==
  /\ IsFiniteSet(Children) /\ IsFiniteSet(Ids)
  /\ RootBudget \in Amount /\ Allowance \in [Children -> Amount]
  /\ Asks \subseteq [id : Ids, child : Children, maximum : Nat]
  /\ Costs \subseteq Nat /\ NoCost \notin Costs

VARIABLES
  service,        \* fuse_service_state
  receipts,       \* fuse_receipts
  caller,         \* the requests being served
  toldReceipts    \* history: the receipts answered for a request id

mandateVars == <<service, receipts, caller, toldReceipts>>

NoReservation == [status |-> "none"]
NoPending == [held |-> FALSE]
Account(amount) == [authorized |-> amount, reserved |-> 0, settled |-> 0]

InitialState ==
  [root |-> Account(RootBudget),
   child |-> [c \in Children |-> Account(Allowance[c])],
   reservation |-> [i \in Ids |-> NoReservation],
   circuit |-> [c \in Children |-> [state |-> "HEALTHY", violations |-> 0, previous |-> NoCost]],
   pending |-> [i \in Ids |-> NoPending],
   order |-> <<>>]

Free == [at |-> "idle"]

MandateInit ==
  /\ service = InitialState
  /\ receipts = {}
  /\ caller = [x \in Callers |-> Free]
  /\ toldReceipts = [i \in Ids |-> {}]

-----------------------------------------------------------------------------
(* Faulty: lets a tripped branch go on. *)
OpenAlways(c) == TRUE

(* The circuit of a child. *)
Open(c) == service.circuit[c].state # "TRIPPED"

Spike(circuit, cost) ==
  /\ circuit.previous # NoCost
  /\ cost >= 4 * circuit.previous
  /\ cost - circuit.previous >= 1

Evaluate(circuit, cost) ==
  LET violations == IF Spike(circuit, cost) THEN circuit.violations + 1 ELSE 0 IN
  IF cost > Ceiling
  THEN [circuit EXCEPT !.state = "TRIPPED"]
  ELSE [state |-> CASE violations = 0 -> "HEALTHY" [] violations = 1 -> "ELEVATED"
                    [] OTHER -> "TRIPPED",
        violations |-> violations, previous |-> cost]

-----------------------------------------------------------------------------
(* The ledger. *)
Available(account) == account.authorized - account.reserved - account.settled

Reserved(account, amount) == [account EXCEPT !.reserved = @ + amount]

(* Faulty: keeps the reservation. *)
ReconciledBeside(account, maximum, actual) == [account EXCEPT !.settled = @ + actual]

Reconciled(account, maximum, actual) ==
  [account EXCEPT !.reserved = @ - maximum, !.settled = @ + actual]

Reclaimed(account) == [account EXCEPT !.authorized = @ - Available(account)]

-----------------------------------------------------------------------------
(* What a transaction writes besides the state: the receipt of the last      *)
(* released completion, in the order of their preparation.                   *)
Released(state) == {n \in DOMAIN state.order : state.pending[state.order[n]].released}

ExtractNewReceipt(state) ==
  {state.order[n] : n \in {n \in Released(state) : \A m \in Released(state) : m <= n}}

Commit(state) ==
  /\ service' = state
  /\ receipts' = receipts \cup ExtractNewReceipt(state)

At(x, place) == caller[x].at = place
Done(x) == caller' = [caller EXCEPT ![x] = Free]

(* The payment of the quoted maximum, before anything else. *)
RequirePayment(x, ask) ==
  /\ At(x, "idle")
  /\ caller' = [caller EXCEPT ![x] = [at |-> "paid", ask |-> ask]]
  /\ UNCHANGED <<service, receipts, toldReceipts>>

Held(i) == service.pending[i].held

(* A reservation of the same child and maximum is taken as it is. *)
Reservable(i, c, maximum) ==
  IF service.reservation[i] = NoReservation
  THEN 0 < maximum /\ maximum <= Available(service.child[c]) /\ maximum <= Available(service.root)
  ELSE service.reservation[i].child = c /\ service.reservation[i].maximum = maximum

Reserve(state, i, c, maximum) ==
  IF state.reservation[i] # NoReservation
  THEN state
  ELSE [state EXCEPT !.root = Reserved(@, maximum),
                     !.child[c] = Reserved(@, maximum),
                     !.reservation[i] = [status |-> "reserved", child |-> c, maximum |-> maximum,
                                         actual |-> NoCost]]

Hold(state, i, c, cost) ==
  LET circuit == Evaluate(state.circuit[c], cost) IN
  [state EXCEPT !.circuit[c] = circuit,
                !.pending[i] = [held |-> TRUE, child |-> c, cost |-> cost,
                                circuit |-> circuit.state, released |-> FALSE,
                                payer |-> NoCaller],
                !.order = IF Contains(@, i) THEN @ ELSE Append(@, i)]

(* prepareCompletion: a held completion is quoted again whatever the body. *)
PrepareCompletion(x, cost) ==
  LET i == caller[x].ask.id
      c == caller[x].ask.child
      maximum == caller[x].ask.maximum
  IN  /\ At(x, "paid")
      /\ \/ Held(i) /\ Commit(service)
         \/ /\ ~Held(i)
            /\ Open(c)
            /\ Reservable(i, c, maximum)
            /\ Commit(Hold(Reserve(service, i, c, maximum), i, c, cost))
      /\ \/ caller' = [caller EXCEPT ![x].at = "quoted"]
         \/ Done(x)
      /\ UNCHANGED toldReceipts

(* reconcile: once, and never beyond the reserved maximum. *)
Reconcilable(i) ==
  LET reservation == service.reservation[i]
      cost == service.pending[i].cost
  IN  IF reservation.status = "reserved" THEN cost <= reservation.maximum
                                         ELSE cost = reservation.actual

Settle(state, i) ==
  LET cost == state.pending[i].cost
      maximum == state.reservation[i].maximum
  IN  IF state.reservation[i].status = "reconciled"
      THEN state
      ELSE [state EXCEPT !.root = Reconciled(@, maximum, cost),
                         !.child[state.reservation[i].child] = Reconciled(@, maximum, cost),
                         !.reservation[i] = [@ EXCEPT !.status = "reconciled", !.actual = cost]]

ReclaimAvailable(state, c) == [state EXCEPT !.child[c] = Reclaimed(@)]

(* releasePaidCompletion: reconciled at the actual cost, and the authority   *)
(* of a branch the completion tripped goes back to the mandate.              *)
ReleasePaidCompletion(x) ==
  LET i == caller[x].ask.id
      held == service.pending[i]
      settled == Settle(service, i)
      reclaimed == IF held.circuit = "TRIPPED" THEN ReclaimAvailable(settled, held.child) ELSE settled
      released == [reclaimed EXCEPT !.pending[i].released = TRUE, !.pending[i].payer = x]
  IN  /\ At(x, "quoted")
      /\ \/ held.released /\ Commit(service)
         \/ /\ ~held.released
            /\ Reconcilable(i)
            /\ Commit(released)
      /\ LET receipt == <<service'.pending[i].cost, service'.pending[i].payer>> IN
         toldReceipts' \in {toldReceipts, [toldReceipts EXCEPT ![i] = @ \cup {receipt}]}
      /\ Done(x)

(* A refusal, a failure of the provider or the database: rolled back. *)
Throw(x) ==
  /\ ~At(x, "idle")
  /\ Done(x)
  /\ UNCHANGED <<service, receipts, toldReceipts>>

MandateNext ==
  \E x \in Callers :
    \/ \E ask \in Asks : RequirePayment(x, ask)
    \/ \E cost \in Costs : PrepareCompletion(x, cost)
    \/ ReleasePaidCompletion(x)
    \/ Throw(x)

MandateSpec == MandateInit /\ [][MandateNext]_mandateVars

-----------------------------------------------------------------------------
AccountRecord == [authorized : Nat, reserved : Nat, settled : Nat]

MandateTypeOK ==
  /\ service.root \in AccountRecord
  /\ service.child \in [Children -> AccountRecord]
  /\ \A i \in Ids : Held(i) <=> i \in Range(service.order)
  /\ service.circuit \in [Children -> [state : {"HEALTHY", "ELEVATED", "TRIPPED"},
                                       violations : 0..2, previous : Costs \cup {NoCost}]]
  /\ receipts \subseteq Ids
  /\ \A x \in Callers : caller[x].at \in {"idle", "paid", "quoted"}

(* What a child's requests have outstanding, and what its released ones cost. *)
Outstanding(c) ==
  [i \in Ids |-> IF service.reservation[i].status = "reserved" /\ service.reservation[i].child = c
                 THEN service.reservation[i].maximum ELSE 0]

Reconciliations(c) ==
  [i \in Ids |-> IF service.reservation[i].status = "reconciled" /\ service.reservation[i].child = c
                 THEN service.pending[i].cost ELSE 0]

(* The books of the mandate balance: a child's reservations are the maxima   *)
(* of its outstanding requests and what it settled the costs of its released *)
(* ones; the mandate's are the sums of its children's; nobody has spent or   *)
(* promised more than was authorized, whatever was reclaimed in between.     *)
(* And everyone who brought a request id was told one receipt for it, with   *)
(* the cost the books settled.                                               *)
BooksBalance ==
  /\ MandateTypeOK
  /\ \A c \in Children :
       LET account == service.child[c] IN
       /\ account.reserved = Total(Outstanding(c), Ids)
       /\ account.settled = Total(Reconciliations(c), Ids)
       /\ Available(account) >= 0
  /\ service.root.reserved = Total([c \in Children |-> service.child[c].reserved], Children)
  /\ service.root.settled = Total([c \in Children |-> service.child[c].settled], Children)
  /\ Available(service.root) >= 0
  /\ \A i \in Ids : \A receipt \in toldReceipts[i] :
       receipt = <<service.reservation[i].actual, service.pending[i].payer>>

(* A tripped branch promises and spends no more than it had promised when it *)
(* tripped, and stays tripped.                                               *)
TrippedSpendsNoMore ==
  [][\A c \in Children :
       service.circuit[c].state = "TRIPPED" =>
         /\ service'.circuit[c].state = "TRIPPED"
         /\ service'.child[c].reserved + service'.child[c].settled
              <= service.child[c].reserved + service.child[c].settled]_mandateVars

(* README.md:126 "... and released receipts survive serverless cold starts": *)
(* a released completion has its receipt among the persisted ones.           *)
ReleasedReceiptsPersist ==
  \A i \in Ids : Held(i) /\ service.pending[i].released => i \in receipts
=============================================================================
