------------------------------- MODULE Progress -------------------------------
(***************************************************************************)
(* What eventually happens on the controlled inference path.                *)
(*                                                                         *)
(* A worker's step is strongly fair: the process runs, its timers fire, and *)
(* the queue of a row lock in PostgreSQL does not starve a waiter although  *)
(* the row is locked again and again.  Nothing is assumed of operators, of  *)
(* new arrivals or of crashes.                                             *)
(***************************************************************************)
EXTENDS ControlledInference

VARIABLE abandoned      \* history: the requests a call of which died

progressVars == <<vars, abandoned>>

NextProgress ==
  \/ /\ \/ \E w \in Workers : \/ \E r \in Requests, p \in Payloads : Arrive(w, r, p)
                              \/ WorkerStep(w)
        \/ Operate
        \/ Tick
     /\ UNCHANGED abandoned
  \/ \E w \in Workers : /\ Crash(w)
                        /\ abandoned' = abandoned \cup {worker[w].request}

Running ==
  \A w \in Workers : SF_progressVars(WorkerStep(w) /\ UNCHANGED abandoned)

(* Every caller of execute gets a result or an error: none waits for ever    *)
(* for a mandate row, whatever operators do and whichever callers die.       *)
CallsReturn == \A w \in Workers : ~At(w, "idle") ~> At(w, "idle")

-----------------------------------------------------------------------------
(* A client repeats its request until it is answered, as the retry protocol  *)
(* of README.md:99 asks, and not every repetition dies.                      *)
RetryAfterLease(r) ==
  /\ execution[r].status = "executing" /\ LeaseExpired(r, now)
  /\ \E w \in Workers : Arrive(w, r, execution[r].payload)
  /\ UNCHANGED abandoned

Persistent ==
  /\ WF_progressVars(Tick /\ UNCHANGED abandoned)
  /\ \A r \in Requests : SF_progressVars(RetryAfterLease(r))
  /\ \A w \in Workers : SF_progressVars(ExpireLease(w) /\ UNCHANGED abandoned)

(* A reservation is held only while its outcome is being found out: unless a *)
(* call of its request dies, it ends completed, failed or under review; and  *)
(* if one dies, a retry after the lease ends it.  (Leases that end after the *)
(* bound on arrivals are left out.)                                          *)
ReservationsEnd ==
  \A r \in Requests :
    /\ execution[r].status = "executing"
         ~> execution[r].status # "executing" \/ r \in abandoned
    /\ Persistent =>
         (execution[r].status = "executing" /\ execution[r].createdAt + Lease <= LastArrival
            ~> execution[r].status # "executing")
=============================================================================
