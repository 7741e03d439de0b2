-------------------------- MODULE MCClosingIntent --------------------------
(* The closing intent over two requests of one active mandate. *)
EXTENDS MCControlledInference, ClosingIntent

IntentInit == ObservedInit /\ closing = {}

IntentSpec == IntentInit /\ [][NextIntent]_intentVars
=============================================================================
