----------------------------- MODULE Delegation -----------------------------
(***************************************************************************)
(* What the delegated branches of a mandate guarantee.  A branch gives one  *)
(* agent a share of its mandate, or of a parent branch, restricted to some  *)
(* workload classes of one policy version; a request names its branch and   *)
(* its class (src/src/persistence/policyStore.ts, createBranch and          *)
(* admitInference; src/src/domain/policy.ts).                               *)
(***************************************************************************)
EXTENDS ControlledInference

Delegates(b) == branch[b].mandate # NoMandate

ScopedPolicy(v) == v # NoPolicy /\ DOMAIN PolicyOf[v].classes # {}

(* The requests admitted on branch b while a policy with classes governed. *)
BranchAdmissions(b) ==
  {r \in BranchRows(branch[b].mandate, b) :
     execution[r].status # "denied" /\ ScopedPolicy(execution[r].policy)}

AuthorisedOn(rows) == Total([r \in rows |-> Authorised(r)], rows)

OfClass(rows, c) == {r \in rows : \E s \in execution[r].payload.scope : s.class = c}

ClassBudget(class, rows) ==
  /\ Cardinality(rows) <= class.invocations
  /\ AuthorisedOn(rows) <= class.budget

BranchBudget(b) ==
  LET admitted == BranchAdmissions(b)
      classes == PolicyOf[branch[b].policy].classes
  IN /\ AuthorisedOn(admitted) <= branch[b].maximum
     /\ \A c \in branch[b].classes : ClassBudget(classes[c], OfClass(admitted, c))

\* A branch has no class, no policy version and no lifetime its parent lacks,
\* and siblings share the maximum of their parent.
DelegationNarrows ==
  \A b \in Branches : Delegates(b) =>
    /\ Delegated(branch[b].mandate, b) <= branch[b].maximum
    /\ branch[b].maximum <= mandate[branch[b].mandate].maximum
    /\ \A p \in branch[b].parent :
         /\ branch[p].mandate = branch[b].mandate
         /\ branch[p].policy = branch[b].policy
         /\ branch[b].classes \subseteq branch[p].classes
         /\ NoLater(branch[b].expiresAt, branch[p].expiresAt)

(* Delegation only narrows, and what it left bounds what is spent.  The      *)
(* lifetime budget of a branch bounds what its requests reserve and cost     *)
(* over all of its classes, in every policy mode, whichever of them complete *)
(* cheaply, fail or go under review in between; and within it each class     *)
(* keeps to its invocations and to its budget, also across changes of the    *)
(* mandate's policy.                                                         *)
DelegatedSpendBound ==
  /\ DelegationNarrows
  /\ \A b \in Branches : Delegates(b) => BranchBudget(b)
=============================================================================
