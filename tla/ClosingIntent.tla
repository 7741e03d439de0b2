---------------------------- MODULE ClosingIntent ----------------------------
(***************************************************************************)
(* ControlledInference with a history variable: the mandates an operator    *)
(* has asked to close.  A reconciliation hold stores one prior state, that  *)
(* of the first hold (src/src/persistence/policyStore.ts,                   *)
(* holdMandateForReconciliation: ON CONFLICT DO NOTHING).                   *)
(***************************************************************************)
EXTENDS ControlledInference

VARIABLE closing    \* history: the mandates that have been in state closing

intentVars == <<vars, closing>>

NextIntent ==
  /\ Next
  /\ closing' = closing \cup {m \in Mandates : mandate'[m].state = "closing"}

(* tests/policyStore.test.ts:490: a mandate that was put into closing is     *)
(* closing again once its cases are resolved.  So a mandate asked to close   *)
(* is closing, closed or held, and never usable or resumable again; nothing  *)
(* in mandateTransitions leads from closing back to a usable state.          *)
ClosingIsFinal ==
  \A m \in closing : mandate[m].state \in {"closing", "closed", "reconciliation_hold"}
=============================================================================
