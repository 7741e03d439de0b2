--------------------------- MODULE LedgerRefinement ---------------------------
(***************************************************************************)
(* ControlledInference implements SpendLedger: the rows of                  *)
(* inference_executions, with their resolutions, are the entries.           *)
(***************************************************************************)
EXTENDS ControlledInference

Phase(r) ==
  LET e == execution[r]
  IN IF e.status \in {"absent", "denied"} THEN "none"
     ELSE IF e.status = "executing" THEN "open"
     ELSE IF e.status = "reconciliation_hold" THEN "disputed"
     ELSE IF resolution[r].kind # "none" THEN "ruled"
     ELSE IF e.status = "completed" THEN "settled" ELSE "released"

Entry(r) ==
  [ phase      |-> Phase(r),
    owner      |-> IF Phase(r) = "none" THEN NoMandate ELSE execution[r].payload.mandate,
    authorised |-> execution[r].reserved,
    charged    |-> Spend(execution[r]) ]

Ledger == INSTANCE SpendLedger WITH
            Nobody <- NoMandate,
            limit  <- [m \in Mandates |-> mandate[m].maximum],
            entry  <- [r \in Requests |-> Entry(r)]

(* Every step of callers, operators, retries and crashes is a step of the    *)
(* ledger or leaves the books alone: a request is authorised once and within *)
(* the limit, settled within its authorisation, or disputed and ruled on     *)
(* once; nothing reopens an entry.                                           *)
ImplementsLedger == Ledger!Spec
=============================================================================
