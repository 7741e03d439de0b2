------------------------------ MODULE MCLedger ------------------------------
(* The instances of MCControlledInference, against the abstract ledger. *)
EXTENDS MCControlledInference, LedgerRefinement
=============================================================================
