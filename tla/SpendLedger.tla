----------------------------- MODULE SpendLedger -----------------------------
(***************************************************************************)
(* What the control plane promises about a mandate's money, without policy, *)
(* time, callers, locks or lifecycle.  Each request has one entry, charged  *)
(* to one mandate.  An authorised entry is charged in full until its        *)
(* outcome is known; what the owners authorised never exceeds the limit     *)
(* their mandate was granted.                                               *)
(***************************************************************************)
EXTENDS Amounts

CONSTANTS Mandates, Requests, Nobody

VARIABLES limit, entry

NoEntry == [phase |-> "none", owner |-> Nobody, authorised |-> 0, charged |-> 0]

(* What an entry takes of the authority of its mandate.  Only a ruling on a  *)
(* disputed entry charges more than was authorised.                          *)
Taken(r, m) == IF entry[r].owner = m
                 THEN Smaller(entry[r].charged, entry[r].authorised) ELSE 0

Committed(m) == Total([r \in Requests |-> Taken(r, m)], Requests)

Init == /\ limit \in [Mandates -> Amount]
        /\ entry = [r \in Requests |-> NoEntry]

Grant(m, amount) == /\ limit[m] = 0 /\ limit' = [limit EXCEPT ![m] = amount]
                    /\ UNCHANGED entry

Authorise(r, m, amount) ==
  /\ entry[r].phase = "none"
  /\ entry' = [entry EXCEPT ![r] = [phase |-> "open", owner |-> m,
                                    authorised |-> amount, charged |-> amount]]
  /\ Committed(m) + amount <= limit[m]
  /\ UNCHANGED limit

(* An open entry ends in one of three ways. *)
Settle(r, amount) ==
  /\ entry[r].phase = "open" /\ amount <= entry[r].authorised
  /\ entry' = [entry EXCEPT ![r].phase = "settled", ![r].charged = amount]
  /\ UNCHANGED limit

Release(r) ==
  /\ entry[r].phase = "open"
  /\ entry' = [entry EXCEPT ![r].phase = "released", ![r].charged = 0]
  /\ UNCHANGED limit

Dispute(r) ==
  /\ entry[r].phase = "open"
  /\ entry' = [entry EXCEPT ![r].phase = "disputed"]
  /\ UNCHANGED limit

(* An operator rules once on a disputed entry. *)
Rule(r, amount) ==
  /\ entry[r].phase = "disputed"
  /\ entry' = [entry EXCEPT ![r].phase = "ruled", ![r].charged = amount]
  /\ UNCHANGED limit

Next ==
  \/ \E m \in Mandates, a \in Amount : Grant(m, a)
  \/ \E r \in Requests :
       \/ \E m \in Mandates, a \in Amount : Authorise(r, m, a)
       \/ \E a \in Amount : Settle(r, a) \/ Rule(r, a)
       \/ Release(r) \/ Dispute(r)

Spec == Init /\ [][Next]_<<limit, entry>>

=============================================================================
