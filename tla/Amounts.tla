------------------------------ MODULE Amounts ------------------------------
(***************************************************************************)
(* Sums of money.  The database keeps amounts as NUMERIC(78, 0), a bounded  *)
(* type, so an amount is a natural number up to MaxAmount.  The sum of f    *)
(* over a finite set S is the number of its atomic units: one pair <<x, n>> *)
(* for every x in S and every n up to f[x].  Defined this way a sum is a    *)
(* cardinality, and the lemmas of AmountsProofs follow from those of the    *)
(* library about finite sets, without an induction.                        *)
(***************************************************************************)
EXTENDS Integers, FiniteSets

CONSTANT MaxAmount

ASSUME MaxAmountAssumption == MaxAmount \in Nat

Amount == 0 .. MaxAmount

Smaller(a, b) == IF a <= b THEN a ELSE b

Units(f, S) == {u \in S \X (1 .. MaxAmount) : u[2] <= f[u[1]]}

Total(f, S) == Cardinality(Units(f, S))
=============================================================================
