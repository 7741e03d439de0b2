------------------------------ MODULE MCDispatch ------------------------------
(* The places where a process calls out and may not learn what happened: the  *)
(* signer of two deployments with transfers that share a nonce, the           *)
(* reliability run with three calls, and the end of such a run with the last  *)
(* two of them.  A behaviour is of one of them.                               *)
EXTENDS SignerAuthority, EvidenceReduction, RunClosure, TLC

CONSTANTS i1, i2, i3, t1, t2, t3, n1, n2, h1, h2, h3, p1, p2, u1

VARIABLE part

Starting(name) ==
  /\ part = name
  /\ Init /\ ReliabilityInit /\ ClosureInit

SignerInit == Starting("signer") /\ plan = CHOOSE p \in Plans : TRUE
RunInit == Starting("run")
ClosingInit == Starting("closure") /\ plan = CHOOSE p \in Plans : TRUE

SignerStep == part = "signer" /\ Next /\ UNCHANGED <<part, reliabilityVars, closureVars>>
RunStep == part = "run" /\ ReliabilityNext /\ UNCHANGED <<part, vars, closureVars>>
ClosingStep == part = "closure" /\ ClosureNext /\ UNCHANGED <<part, vars, reliabilityVars>>

DispatchInit == SignerInit \/ RunInit \/ ClosingInit
DispatchNext == SignerStep \/ RunStep \/ ClosingStep
DispatchSpec == DispatchInit /\ [][DispatchNext]_<<part, vars, reliabilityVars, closureVars>>

-----------------------------------------------------------------------------
(* t1 and t2 are different transfers of one nonce; t1 and t3 do not fit. *)
MCNonceOf == (t1 :> n1) @@ (t2 :> n1) @@ (t3 :> n2)
MCAmountOf == (t1 :> 2) @@ (t2 :> 1) @@ (t3 :> 2)

(* h3 runs in a deployment with another ceiling. *)
MCMaximumOf == (h1 :> 3) @@ (h2 :> 3) @@ (h3 :> 2)

-----------------------------------------------------------------------------
(* A block of two calls and the next block, on either lane, and two lanes     *)
(* that work on one block at the same time.                                   *)
Scheduled(lane, b) == [lane |-> lane, block |-> b, reserved |-> 1]

MCPlans ==
  { <<Scheduled("normal", 1), Scheduled("normal", 1), Scheduled("normal", 2)>>,
    <<Scheduled("burst", 1), Scheduled("burst", 1), Scheduled("burst", 2)>>,
    <<Scheduled("burst", 1), Scheduled("burst", 1), Scheduled("normal", 1)>> }
=============================================================================
