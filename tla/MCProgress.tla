----------------------------- MODULE MCProgress -----------------------------
(* Instances of Progress for TLC. *)
EXTENDS MCControlledInference, Progress

ProgressInit == ObservedInit /\ abandoned = {}

FairSpec == ProgressInit /\ [][NextProgress]_progressVars /\ Running
=============================================================================
