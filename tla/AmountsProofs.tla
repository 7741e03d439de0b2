---------------------------- MODULE AmountsProofs ----------------------------
(***************************************************************************)
(* Lemmas about sums: Total(f, S) counts the units of f over S, so what is  *)
(* known of the cardinality of finite sets carries over.                    *)
(***************************************************************************)
EXTENDS Amounts, FiniteSetTheorems, TLAPS

(* A sum over a finite set is a natural number. *)
LEMMA UnitsFinite ==
  ASSUME NEW S, IsFiniteSet(S), NEW f
  PROVE  IsFiniteSet(Units(f, S)) /\ Total(f, S) \in Nat
<1>1. IsFiniteSet(1 .. MaxAmount)
  BY FS_Interval, MaxAmountAssumption
<1>2. IsFiniteSet(S \X (1 .. MaxAmount))
  BY <1>1, FS_Product
<1>3. Units(f, S) \in SUBSET (S \X (1 .. MaxAmount))
  BY DEF Units
<1>4. IsFiniteSet(Units(f, S))
  BY <1>2, <1>3, FS_Subset
<1> QED
  BY <1>4, FS_CardinalityType DEF Total

(* A sum does not grow when no summand does. *)
LEMMA TotalMonotone ==
  ASSUME NEW S, IsFiniteSet(S), NEW f, NEW g,
         \A x \in S : f[x] \in Int /\ g[x] \in Int /\ f[x] <= g[x]
  PROVE  Total(f, S) <= Total(g, S)
<1>1. IsFiniteSet(Units(g, S))
  BY UnitsFinite
<1>2. ASSUME NEW u \in Units(f, S)
      PROVE  u \in Units(g, S)
  <2>1. /\ u \in S \X (1 .. MaxAmount)
        /\ u[1] \in S /\ u[2] \in 1 .. MaxAmount
        /\ u[2] <= f[u[1]]
    BY <1>2 DEF Units
  <2>2. u[2] <= g[u[1]]
    BY <2>1
  <2> QED
    BY <2>1, <2>2 DEF Units
<1>3. Units(f, S) \in SUBSET Units(g, S)
  BY <1>2
<1> QED
  BY <1>1, <1>3, FS_Subset DEF Total

LEMMA CardinalityDisjoint ==
  ASSUME NEW S, IsFiniteSet(S), NEW T, IsFiniteSet(T), S \cap T = {}
  PROVE  Cardinality(S \cup T) = Cardinality(S) + Cardinality(T)
<1>1. Cardinality({}) = 0
  BY FS_EmptySet
<1>2. Cardinality(S) \in Nat /\ Cardinality(T) \in Nat
  BY FS_CardinalityType
<1>3. Cardinality(S \cup T) = Cardinality(S) + Cardinality(T) - Cardinality(S \cap T)
  BY FS_Union
<1>4. Cardinality(S \cap T) = 0
  BY <1>1
<1> QED
  BY <1>2, <1>3, <1>4

(* Raising one summand from nothing to v raises a sum by at most v. *)
LEMMA TotalRaise ==
  ASSUME NEW S, IsFiniteSet(S), NEW f, NEW g, NEW x \in S, NEW v \in Amount,
         \A y \in S : f[y] \in Int /\ g[y] \in Int,
         \A y \in S \ {x} : g[y] <= f[y],
         g[x] <= v
  PROVE  Total(g, S) <= Total(f, S) + v
<1> DEFINE New == {x} \X (1 .. v)
<1>1. /\ IsFiniteSet(Units(f, S)) /\ Total(f, S) \in Nat
      /\ IsFiniteSet(Units(g, S)) /\ Total(g, S) \in Nat
  BY UnitsFinite
<1>2. IsFiniteSet(New) /\ Cardinality(New) = v
  <2>1. v \in Nat
    BY MaxAmountAssumption DEF Amount
  <2>2. IsFiniteSet(1 .. v) /\ Cardinality(1 .. v) = v
    BY <2>1, FS_Interval
  <2>3. IsFiniteSet({x}) /\ Cardinality({x}) = 1
    BY FS_Singleton
  <2>4. IsFiniteSet(New) /\ Cardinality(New) = Cardinality({x}) * Cardinality(1 .. v)
    BY <2>2, <2>3, FS_Product
  <2>5. Cardinality({x}) * Cardinality(1 .. v) = 1 * v
    BY <2>2, <2>3
  <2> QED
    BY <2>1, <2>4, <2>5
<1>3. ASSUME NEW u \in Units(g, S)
      PROVE  u \in Units(f, S) \cup New
  <2>1. /\ u \in S \X (1 .. MaxAmount)
        /\ u[1] \in S /\ u[2] \in 1 .. MaxAmount
        /\ u = <<u[1], u[2]>> /\ u[2] <= g[u[1]]
    BY <1>3 DEF Units
  <2>2. CASE u[1] = x
    <3>1. u[2] \in 1 .. v
      BY <2>1, <2>2 DEF Amount
    <3> QED
      BY <2>1, <2>2, <3>1
  <2>3. CASE u[1] # x
    <3>1. u[2] <= f[u[1]]
      BY <2>1, <2>3
    <3> QED
      BY <2>1, <3>1 DEF Units
  <2> QED
    BY <2>2, <2>3
<1>4. Units(g, S) \in SUBSET (Units(f, S) \cup New)
  BY <1>3
<1>5. /\ IsFiniteSet(Units(f, S) \cup New)
      /\ Cardinality(Units(f, S) \cup New) <= Cardinality(Units(f, S)) + v
  <2>1. /\ IsFiniteSet(Units(f, S) \cup New)
        /\ Cardinality(Units(f, S) \cup New) =
             Cardinality(Units(f, S)) + Cardinality(New)
               - Cardinality(Units(f, S) \cap New)
    BY <1>1, <1>2, FS_Union
  <2>2. Cardinality(Units(f, S) \cap New) \in Nat
    BY <1>1, FS_Intersection, FS_CardinalityType
  <2>3. Cardinality(Units(f, S)) \in Nat /\ Cardinality(New) \in Nat
    BY <1>1, <1>2, FS_CardinalityType
  <2> QED
    BY <1>2, <2>1, <2>2, <2>3
<1>6. Cardinality(Units(g, S)) <= Cardinality(Units(f, S) \cup New)
  BY <1>4, <1>5, FS_Subset
<1> QED
  <2>1. /\ Cardinality(Units(g, S)) \in Nat /\ Cardinality(Units(f, S)) \in Nat
        /\ Cardinality(Units(f, S) \cup New) \in Nat /\ v \in Int
    BY <1>1, <1>5, FS_CardinalityType DEF Amount
  <2> QED
    BY <1>5, <1>6, <2>1 DEF Total

(* Raising one summand from nothing to v raises a sum by v. *)
LEMMA TotalAdd ==
  ASSUME NEW S, IsFiniteSet(S), NEW f, NEW g, NEW x \in S, NEW v \in Amount,
         f[x] = 0, g[x] = v,
         \A y \in S \ {x} : g[y] = f[y]
  PROVE  Total(g, S) = Total(f, S) + v
<1> DEFINE New == {x} \X (1 .. v)
<1>1. /\ IsFiniteSet(Units(f, S)) /\ Total(f, S) \in Nat
      /\ IsFiniteSet(Units(g, S)) /\ Total(g, S) \in Nat
  BY UnitsFinite
<1>2. IsFiniteSet(New) /\ Cardinality(New) = v
  <2>1. v \in Nat
    BY MaxAmountAssumption DEF Amount
  <2>2. IsFiniteSet(1 .. v) /\ Cardinality(1 .. v) = v
    BY <2>1, FS_Interval
  <2>3. IsFiniteSet({x}) /\ Cardinality({x}) = 1
    BY FS_Singleton
  <2>4. IsFiniteSet(New) /\ Cardinality(New) = Cardinality({x}) * Cardinality(1 .. v)
    BY <2>2, <2>3, FS_Product
  <2>5. Cardinality({x}) * Cardinality(1 .. v) = 1 * v
    BY <2>2, <2>3
  <2> QED
    BY <2>1, <2>4, <2>5
<1>3. Units(g, S) = Units(f, S) \cup New
  <2>1. ASSUME NEW u \in S \X (1 .. MaxAmount)
        PROVE  u \in Units(g, S) <=> u \in Units(f, S) \cup New
    <3>1. u[1] \in S /\ u[2] \in 1 .. MaxAmount /\ u = <<u[1], u[2]>>
      BY <2>1
    <3>2. CASE u[1] = x
      <4>1. u \in Units(g, S) <=> u[2] <= v
        BY <2>1, <3>1, <3>2 DEF Units
      <4>2. ~(u \in Units(f, S))
        BY <2>1, <3>1, <3>2, MaxAmountAssumption DEF Units
      <4>3. u \in New <=> u[2] <= v
        BY <3>1, <3>2, MaxAmountAssumption DEF Amount
      <4> QED
        BY <4>1, <4>2, <4>3
    <3>3. CASE u[1] # x
      <4>1. u \in Units(g, S) <=> u \in Units(f, S)
        BY <2>1, <3>1, <3>3 DEF Units
      <4>2. ~(u \in New)
        BY <3>1, <3>3
      <4> QED
        BY <4>1, <4>2
    <3> QED
      BY <3>2, <3>3
  <2>2. New \subseteq S \X (1 .. MaxAmount)
    BY MaxAmountAssumption DEF Amount
  <2>3. /\ Units(g, S) \subseteq S \X (1 .. MaxAmount)
        /\ Units(f, S) \subseteq S \X (1 .. MaxAmount)
    BY DEF Units
  <2> HIDE DEF New
  <2> QED
    BY <2>1, <2>2, <2>3
<1>4. Units(f, S) \cap New = {}
  <2>1. ASSUME NEW u \in Units(f, S), u \in New
        PROVE  FALSE
    <3>1. u[1] = x /\ u[2] \in 1 .. v
      BY <2>1
    <3>2. u[2] <= f[u[1]]
      BY <2>1 DEF Units
    <3> QED
      BY <3>1, <3>2, MaxAmountAssumption DEF Amount
  <2> QED
    BY <2>1
<1> QED
  <2>1. Cardinality(Units(f, S) \cup New) = Cardinality(Units(f, S)) + Cardinality(New)
    BY <1>1, <1>2, <1>4, CardinalityDisjoint
  <2>2. Total(g, S) = Cardinality(Units(f, S) \cup New)
    BY <1>3 DEF Total
  <2> QED
    BY <1>2, <2>1, <2>2 DEF Total

(* A sum over a part of a set is a sum over all of it. *)
LEMMA TotalRestrict ==
  ASSUME NEW S, NEW A \in SUBSET S, NEW f, NEW g,
         \A x \in S : g[x] = IF x \in A THEN f[x] ELSE 0
  PROVE  Total(f, A) = Total(g, S)
<1>1. ASSUME NEW u \in S \X (1 .. MaxAmount)
      PROVE  u \in Units(f, A) <=> u \in Units(g, S)
  <2>1. u[1] \in S /\ u[2] \in 1 .. MaxAmount /\ u = <<u[1], u[2]>>
    BY <1>1
  <2>2. CASE u[1] \in A
    <3>1. u \in A \X (1 .. MaxAmount)
      BY <2>1, <2>2
    <3> QED
      BY <2>1, <2>2, <3>1 DEF Units
  <2>3. CASE u[1] \notin A
    <3>1. u \notin A \X (1 .. MaxAmount)
      BY <2>3
    <3>2. ~(u[2] <= g[u[1]])
      BY <2>1, <2>3, MaxAmountAssumption
    <3> QED
      BY <3>1, <3>2 DEF Units
  <2> QED
    BY <2>2, <2>3
<1>2. Units(f, A) \subseteq S \X (1 .. MaxAmount) /\ Units(g, S) \subseteq S \X (1 .. MaxAmount)
  <2>1. A \X (1 .. MaxAmount) \subseteq S \X (1 .. MaxAmount)
    OBVIOUS
  <2> QED
    BY <2>1 DEF Units
<1> QED
  BY <1>1, <1>2 DEF Total

(* A sum over fewer and lighter summands, and over one more of them. *)
LEMMA TotalWithin ==
  ASSUME NEW S, IsFiniteSet(S), NEW A \in SUBSET S, NEW B \in SUBSET A, NEW f, NEW g,
         \A x \in A : f[x] \in Nat,
         \A x \in B : g[x] \in Nat /\ g[x] <= f[x]
  PROVE  Total(g, B) <= Total(f, A)
<1> DEFINE F == [x \in S |-> IF x \in A THEN f[x] ELSE 0]
           G == [x \in S |-> IF x \in B THEN g[x] ELSE 0]
<1>1. B \in SUBSET S
  OBVIOUS
<1>2. /\ \A x \in S : F[x] = IF x \in A THEN f[x] ELSE 0
      /\ \A x \in S : G[x] = IF x \in B THEN g[x] ELSE 0
  OBVIOUS
<1> HIDE DEF F, G
<1>3. Total(f, A) = Total(F, S) /\ Total(g, B) = Total(G, S)
  BY <1>1, <1>2, TotalRestrict
<1>4. \A x \in S : G[x] \in Int /\ F[x] \in Int /\ G[x] <= F[x]
  BY <1>2
<1>5. Total(G, S) <= Total(F, S)
  BY <1>4, TotalMonotone
<1> QED
  BY <1>3, <1>5

LEMMA TotalAdmit ==
  ASSUME NEW S, IsFiniteSet(S), NEW A \in SUBSET S, NEW x \in S, NEW B \in SUBSET (A \cup {x}),
         NEW f, NEW g, NEW v \in Amount,
         \A y \in A : f[y] \in Nat,
         \A y \in B : g[y] \in Nat /\ (y # x => g[y] <= f[y]),
         x \in B => g[x] <= v
  PROVE  Total(g, B) <= Total(f, A) + v
<1> DEFINE F == [y \in S |-> IF y \in A THEN f[y] ELSE 0]
           G == [y \in S |-> IF y \in B THEN g[y] ELSE 0]
<1>1. B \in SUBSET S /\ v \in Nat
  BY MaxAmountAssumption DEF Amount
<1>2. /\ \A y \in S : F[y] = IF y \in A THEN f[y] ELSE 0
      /\ \A y \in S : G[y] = IF y \in B THEN g[y] ELSE 0
  OBVIOUS
<1> HIDE DEF F, G
<1>3. Total(f, A) = Total(F, S) /\ Total(g, B) = Total(G, S)
  BY <1>1, <1>2, TotalRestrict
<1>4. \A y \in S : F[y] \in Int /\ G[y] \in Int
  BY <1>2
<1>5. (\A y \in S \ {x} : G[y] <= F[y]) /\ G[x] <= v
  BY <1>1, <1>2
<1>6. Total(G, S) <= Total(F, S) + v
  BY <1>4, <1>5, TotalRaise
<1> QED
  BY <1>3, <1>6

(* A sum says nothing of summands outside its set. *)
LEMMA TotalAgree ==
  ASSUME NEW S, NEW f, NEW g, \A x \in S : f[x] = g[x]
  PROVE  Total(f, S) = Total(g, S)
<1>1. Units(f, S) = Units(g, S)
  BY DEF Units
<1> QED
  BY <1>1 DEF Total

(* A sum without one of its summands. *)
LEMMA TotalRemove ==
  ASSUME NEW S, IsFiniteSet(S), NEW f, NEW x \in S, f[x] \in Amount
  PROVE  Total(f, S) = Total(f, S \ {x}) + f[x]
<1> DEFINE g == [y \in S |-> f[y]]
           h == [y \in S |-> IF y \in S \ {x} THEN f[y] ELSE 0]
<1>1. /\ \A y \in S : g[y] = f[y]
      /\ \A y \in S : h[y] = IF y \in S \ {x} THEN f[y] ELSE 0
  OBVIOUS
<1> HIDE DEF g, h
<1>2. Total(f, S) = Total(g, S)
  BY <1>1, TotalAgree
<1>3. Total(f, S \ {x}) = Total(h, S)
  BY <1>1, TotalRestrict
<1>4. Total(g, S) = Total(h, S) + f[x]
  BY <1>1, TotalAdd
<1> QED
  BY <1>2, <1>3, <1>4
=============================================================================
