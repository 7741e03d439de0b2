---------------------------- MODULE MCShadowQueue ----------------------------
(* Executions of one cohort. *)
EXTENDS ShadowQueue

CONSTANTS r1, r2, w1, w2, c1

MCCohortOf == [r \in Requests |-> c1]
=============================================================================
