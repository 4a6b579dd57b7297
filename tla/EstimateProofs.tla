--------------------------- MODULE EstimateProofs ---------------------------
(***************************************************************************)
(* For any number of problems and any k: the estimates of pass@k that      *)
(* run_sample_eval writes are the shares that they are estimates of.       *)
(*                                                                         *)
(* What a recursive function computes needs an induction, and the library's *)
(* induction theorems take an operator as a parameter, which the provers   *)
(* cannot instantiate.  WFMin does not: from the smallest number that a    *)
(* set lacks follows induction for sets of numbers (InductionOnNat), and   *)
(* from that the existence of the function (FunctionBySteps) and the       *)
(* invariant of the loop (ProductIsShare).                                 *)
(***************************************************************************)
EXTENDS SampleEvalProofs, WellFoundedInduction, FunctionTheorems

\* Induction, for a set of numbers: the smallest number that is missing would
\* have a predecessor that is not.
LEMMA InductionOnNat ==
  ASSUME NEW S, 0 \in S, \A n \in Nat : n \in S => n + 1 \in S
  PROVE  Nat \subseteq S
<1> SUFFICES ASSUME Nat \ S # {}
             PROVE  FALSE
  OBVIOUS
<1>1. PICK x \in Nat \ S :
             \A y \in Nat \ S : ~ (<<y, x>> \in OpToRel(<, Nat))
  <2>1. IsWellFoundedOn(OpToRel(<, Nat), Nat)
    BY NatLessThanWellFounded
  <2> HIDE DEF OpToRel
  <2> QED
    BY <2>1, WFMin
<1>2. \A y \in Nat \ S : ~ (y < x)
  BY <1>1 DEF OpToRel
<1>3. x # 0 /\ x - 1 \in Nat
  OBVIOUS
<1>4. x - 1 \in S
  BY <1>2, <1>3
<1>5. (x - 1) + 1 \in S
  BY <1>3, <1>4
<1> QED
  BY <1>5

\* f begins with v0, and step[<<n, v>>] is what follows the value v at n.
GoesBySteps(f, v0, step) ==
  f[0] = v0 /\ \A n \in Nat : f[n + 1] = step[<<n, f[n]>>]

\* There is a function for each beginning and each step.
LEMMA FunctionBySteps ==
  ASSUME NEW V, NEW v0 \in V, NEW step \in [Nat \X V -> V]
  PROVE  \E f \in [Nat -> V] : GoesBySteps(f, v0, step)
<1> DEFINE Upto(m) == {g \in [0..m -> V] :
                         /\ g[0] = v0
                         /\ \A i \in Nat : i < m => g[i + 1] = step[<<i, g[i]>>]}
<1>1. \A m \in Nat : Upto(m) # {}
  <2> DEFINE S == {m \in Nat : Upto(m) # {}}
  <2>1. 0 \in S
    <3>1. [i \in 0..0 |-> v0] \in Upto(0)
      OBVIOUS
    <3> QED
      BY <3>1
  <2>2. ASSUME NEW m \in Nat, m \in S
        PROVE  m + 1 \in S
    <3>1. PICK g \in Upto(m) : TRUE
      BY <2>2
    <3> DEFINE h == [i \in 0..(m + 1) |->
                       IF i = m + 1 THEN step[<<m, g[m]>>] ELSE g[i]]
    <3>2. \A i \in 0..m : g[i] \in V
      BY <3>1
    <3>3. step[<<m, g[m]>>] \in V
      BY <3>2
    <3>4. h \in [0..(m + 1) -> V]
      BY <3>2, <3>3
    <3>5. h[0] = v0
      BY <3>1
    <3>6. ASSUME NEW i \in Nat, i < m + 1
          PROVE  h[i + 1] = step[<<i, h[i]>>]
      <4>1. i \in 0..(m + 1) /\ i + 1 \in 0..(m + 1) /\ i # m + 1
        BY <3>6
      <4>2. h[i] = g[i]
        BY <4>1
      <4>3. CASE i = m
        BY <4>1, <4>2, <4>3
      <4>4. CASE i < m
        <5>1. h[i + 1] = g[i + 1]
          BY <4>1, <4>4
        <5> QED
          BY <3>1, <4>2, <4>4, <5>1
      <4> QED
        BY <3>6, <4>3, <4>4
    <3>7. h \in Upto(m + 1)
      BY <3>4, <3>5, <3>6
    <3> HIDE DEF Upto, h
    <3> QED
      BY <3>7
  <2> HIDE DEF Upto
  <2>3. Nat \subseteq S
    <3> HIDE DEF S
    <3> QED
      BY <2>1, <2>2, InductionOnNat
  <2> QED
    BY <2>3
<1>2. ASSUME NEW a \in Nat, NEW b \in Nat, NEW g \in Upto(a), NEW h \in Upto(b)
      PROVE  \A i \in Nat : i <= a /\ i <= b => g[i] = h[i]
  <2> DEFINE S == {i \in Nat : i <= a /\ i <= b => g[i] = h[i]}
  <2>1. 0 \in S
    OBVIOUS
  <2>2. ASSUME NEW i \in Nat, i \in S
        PROVE  i + 1 \in S
    <3> SUFFICES ASSUME i + 1 <= a, i + 1 <= b
                 PROVE  g[i + 1] = h[i + 1]
      OBVIOUS
    <3>1. g[i] = h[i] /\ i < a /\ i < b
      BY <2>2
    <3> QED
      BY <3>1
  <2> HIDE DEF Upto
  <2>3. Nat \subseteq S
    <3> HIDE DEF S
    <3> QED
      BY <2>1, <2>2, InductionOnNat
  <2> QED
    BY <2>3
<1> DEFINE G == [m \in Nat |-> CHOOSE g : g \in Upto(m)]
           f == [m \in Nat |-> G[m][m]]
<1>3. \A m \in Nat : G[m] \in Upto(m)
  <2> HIDE DEF Upto
  <2> QED
    BY <1>1
<1> HIDE DEF G
<1>4. f \in [Nat -> V]
  <2> SUFFICES ASSUME NEW m \in Nat
               PROVE  G[m][m] \in V
    OBVIOUS
  <2>1. G[m] \in [0..m -> V]
    BY <1>3
  <2> QED
    BY <2>1
<1>5. f[0] = v0
  BY <1>3
<1>6. ASSUME NEW n \in Nat
      PROVE  f[n + 1] = step[<<n, f[n]>>]
  <2>1. G[n + 1] \in Upto(n + 1) /\ G[n] \in Upto(n)
    BY <1>3
  <2>2. G[n + 1][n] = G[n][n]
    <3> HIDE DEF Upto
    <3> QED
      BY <1>2, <2>1
  <2>3. G[n + 1][n + 1] = step[<<n, G[n + 1][n]>>]
    BY <2>1
  <2> QED
    BY <2>2, <2>3
<1> HIDE DEF f
<1> QED
  BY <1>4, <1>5, <1>6 DEF GoesBySteps

-----------------------------------------------------------------------------
(* The number of choices.                                                  *)

\* There are finitely many choices of k from a finite set.
LEMMA ChoicesFinite ==
  ASSUME NEW S, IsFiniteSet(S), NEW k
  PROVE  IsFiniteSet(kSubset(k, S)) /\ Cardinality(kSubset(k, S)) \in Nat
<1>1. IsFiniteSet(SUBSET S)
  BY FS_SUBSET
<1>2. kSubset(k, S) \in SUBSET (SUBSET S)
  BY DEF kSubset
<1>3. IsFiniteSet(kSubset(k, S))
  BY <1>1, <1>2, FS_Subset
<1> QED
  BY <1>3, FS_CardinalityType

\* Nothing can be chosen in one way, and more than there is in none.
LEMMA FewChoices ==
  ASSUME NEW S, IsFiniteSet(S), NEW k \in Nat
  PROVE  /\ Cardinality(kSubset(0, S)) = 1
         /\ k > Cardinality(S) => kSubset(k, S) = {}
<1>1. \A T \in SUBSET S :
        /\ IsFiniteSet(T) /\ Cardinality(T) \in Nat
        /\ Cardinality(T) <= Cardinality(S)
        /\ Cardinality(T) = 0 <=> T = {}
  BY FS_Subset, FS_CardinalityType, FS_EmptySet
<1>2. kSubset(0, S) = {{}}
  BY <1>1 DEF kSubset
<1>3. Cardinality(S) \in Nat
  BY FS_CardinalityType
<1>4. Cardinality(kSubset(0, S)) = 1
  BY <1>2, FS_Singleton
<1>5. ASSUME k > Cardinality(S), NEW T \in kSubset(k, S)
      PROVE  FALSE
  <2>1. T \in SUBSET S /\ Cardinality(T) = k
    BY DEF kSubset
  <2> QED
    BY <1>1, <1>3, <1>5, <2>1
<1> QED
  BY <1>4, <1>5

\* Pascal's rule: a choice of k + 1 either has the element x, and k others, or
\* has not.
LEMMA ChoicesWithOneMore ==
  ASSUME NEW S, IsFiniteSet(S), NEW x, x \notin S, NEW k \in Nat
  PROVE  Cardinality(kSubset(k + 1, S \cup {x}))
           = Cardinality(kSubset(k + 1, S)) + Cardinality(kSubset(k, S))
<1> DEFINE A == kSubset(k + 1, S)
           K == kSubset(k, S)
           B == {T \cup {x} : T \in K}
           f == [T \in K |-> T \cup {x}]
<1>1. \A T \in SUBSET S :
        /\ IsFiniteSet(T) /\ Cardinality(T) \in Nat
        /\ Cardinality(T \cup {x}) = Cardinality(T) + 1
  BY FS_Subset, FS_CardinalityType, FS_AddElement
<1>2. IsFiniteSet(A) /\ IsFiniteSet(K)
        /\ Cardinality(A) \in Nat /\ Cardinality(K) \in Nat
  BY ChoicesFinite
<1>3. f \in Bijection(K, B)
  <2>1. K \subseteq SUBSET S
    BY DEF kSubset
  <2>2. \A T, U \in K : f[T] = f[U] => T = U
    BY <2>1
  <2>3. f \in [K -> B] /\ \A U \in B : \E T \in K : f[T] = U
    OBVIOUS
  <2> HIDE DEF f, B, K
  <2> QED
    BY <2>2, <2>3, Fun_IsBij
<1>4. IsFiniteSet(B) /\ Cardinality(B) = Cardinality(K)
  <2> HIDE DEF f, B, K
  <2> QED
    BY <1>2, <1>3, Fun_ExistsBij, FS_Bijection
<1>5. kSubset(k + 1, S \cup {x}) = A \cup B
  <2>1. ASSUME NEW T \in kSubset(k + 1, S \cup {x}), x \in T
        PROVE  T \in B
    <3> DEFINE U == T \ {x}
    <3>1. U \in SUBSET S /\ T = U \cup {x}
      BY <2>1 DEF kSubset
    <3>2. Cardinality(U) \in Nat /\ Cardinality(U) + 1 = k + 1
      <4> HIDE DEF U
      <4> QED
        BY <1>1, <3>1 DEF kSubset
    <3>3. U \in K
      <4>1. Cardinality(U) = k
        BY <3>2
      <4> HIDE DEF U
      <4> QED
        BY <3>1, <4>1 DEF kSubset
    <3> QED
      BY <3>1, <3>3
  <2>2. ASSUME NEW T \in kSubset(k + 1, S \cup {x}), x \notin T
        PROVE  T \in A
    BY <2>2 DEF kSubset
  <2>3. A \subseteq kSubset(k + 1, S \cup {x})
    BY DEF kSubset
  <2>4. B \subseteq kSubset(k + 1, S \cup {x})
    BY <1>1 DEF kSubset
  <2> HIDE DEF A, B
  <2> QED
    BY <2>1, <2>2, <2>3, <2>4
<1>6. A \cap B = {}
  <2>1. \A T \in A : x \notin T
    BY DEF kSubset
  <2>2. \A T \in B : x \in T
    OBVIOUS
  <2> HIDE DEF A, B
  <2> QED
    BY <2>1, <2>2
<1>7. Cardinality(A \cup B) = Cardinality(A) + Cardinality(B)
  <2>1. Cardinality(A \cup B)
          = Cardinality(A) + Cardinality(B) - Cardinality(A \cap B)
    <3> HIDE DEF A, B
    <3> QED
      BY <1>2, <1>4, FS_Union
  <2>2. Cardinality(A \cap B) = 0
    <3> HIDE DEF A, B
    <3> QED
      BY <1>6, FS_EmptySet
  <2> HIDE DEF A, B, K
  <2> QED
    BY <1>2, <1>4, <2>1, <2>2
<1> QED
  <2> HIDE DEF B
  <2> QED
    BY <1>4, <1>5, <1>7

NumChoices(n, k) == Cardinality(kSubset(k, 1..n))

LEMMA NumChoicesType ==
  ASSUME NEW n \in Nat, NEW k \in Nat
  PROVE  /\ NumChoices(n, k) \in Nat
         /\ NumChoices(n, 0) = 1
         /\ k > n => NumChoices(n, k) = 0
         /\ NumChoices(n + 1, k + 1) = NumChoices(n, k + 1) + NumChoices(n, k)
<1>1. IsFiniteSet(1..n) /\ Cardinality(1..n) = n
  BY FS_Interval
<1>2. NumChoices(n, k) \in Nat /\ NumChoices(n, 0) = 1
  BY <1>1, ChoicesFinite, FewChoices DEF NumChoices
<1>3. k > n => NumChoices(n, k) = 0
  BY <1>1, FewChoices, FS_EmptySet DEF NumChoices
<1>4. 1..(n + 1) = (1..n) \cup {n + 1} /\ n + 1 \notin 1..n
  OBVIOUS
<1>5. NumChoices(n + 1, k + 1) = NumChoices(n, k + 1) + NumChoices(n, k)
  <2>1. Cardinality(kSubset(k + 1, (1..n) \cup {n + 1}))
          = Cardinality(kSubset(k + 1, 1..n)) + Cardinality(kSubset(k, 1..n))
    BY <1>1, <1>4, ChoicesWithOneMore
  <2> QED
    BY <1>4, <2>1 DEF NumChoices
<1> QED
  BY <1>2, <1>3, <1>5

\* The number of choices depends on how many there are to choose from, not on
\* which.
LEMMA ChoicesFromAny ==
  ASSUME NEW S, IsFiniteSet(S), NEW k \in Nat
  PROVE  Cardinality(kSubset(k, S)) = NumChoices(Cardinality(S), k)
<1> DEFINE Same(m) == \A T : IsFiniteSet(T) /\ Cardinality(T) = m =>
                        \A j \in Nat : Cardinality(kSubset(j, T)) = NumChoices(m, j)
           W == {m \in Nat : Same(m)}
<1>1. 0 \in W
  <2> SUFFICES ASSUME NEW T, IsFiniteSet(T), Cardinality(T) = 0, NEW j \in Nat
               PROVE  Cardinality(kSubset(j, T)) = NumChoices(0, j)
    OBVIOUS
  <2>1. T = {} /\ 1..0 = {}
    BY FS_EmptySet
  <2> QED
    BY <2>1, Zenon DEF NumChoices
<1>2. ASSUME NEW m \in Nat, m \in W
      PROVE  m + 1 \in W
  <2> SUFFICES ASSUME NEW T, IsFiniteSet(T), Cardinality(T) = m + 1,
                      NEW j \in Nat
               PROVE  Cardinality(kSubset(j, T)) = NumChoices(m + 1, j)
    OBVIOUS
  <2>1. PICK x \in T : TRUE
    BY FS_EmptySet
  <2> DEFINE U == T \ {x}
  <2>2. IsFiniteSet(U) /\ Cardinality(U) = m /\ x \notin U /\ T = U \cup {x}
    <3>1. IsFiniteSet(U) /\ Cardinality(U) = Cardinality(T) - 1
      BY <2>1, FS_RemoveElement
    <3> QED
      BY <2>1, <3>1
  <2> HIDE DEF U
  <2>3. \A i \in Nat : Cardinality(kSubset(i, U)) = NumChoices(m, i)
    BY <1>2, <2>2
  <2>4. CASE j = 0
    BY <2>4, FewChoices, NumChoicesType
  <2>5. CASE j # 0
    <3>1. PICK i \in Nat : j = i + 1
      BY <2>5, j = (j - 1) + 1, j - 1 \in Nat
    <3>2. Cardinality(kSubset(i + 1, T))
            = Cardinality(kSubset(i + 1, U)) + Cardinality(kSubset(i, U))
      BY <2>2, ChoicesWithOneMore, Zenon
    <3>3. NumChoices(m + 1, i + 1) = NumChoices(m, i + 1) + NumChoices(m, i)
      BY NumChoicesType
    <3>4. /\ Cardinality(kSubset(i + 1, U)) = NumChoices(m, i + 1)
          /\ Cardinality(kSubset(i, U)) = NumChoices(m, i)
      BY <2>3
    <3> QED
      BY <3>1, <3>2, <3>3, <3>4
  <2> QED
    BY <2>4, <2>5
<1> HIDE DEF Same
<1>3. Nat \subseteq W
  <2> HIDE DEF W
  <2> QED
    BY <1>1, <1>2, InductionOnNat
<1>4. Cardinality(S) \in W
  BY <1>3, FS_CardinalityType
<1>5. Same(Cardinality(S))
  BY <1>4
<1> QED
  BY <1>5 DEF Same

\* One problem more: (n + 1 - k) * C(n + 1, k) = (n + 1) * C(n, k).
LEMMA Absorption ==
  ASSUME NEW n \in Nat, NEW k \in Nat
  PROVE  NumChoices(n + 1, k) * (n + 1 - k) = (n + 1) * NumChoices(n, k)
<1> DEFINE Holds(m) ==
             \A j \in Nat :
               NumChoices(m + 1, j) * (m + 1 - j) = (m + 1) * NumChoices(m, j)
           W == {m \in Nat : Holds(m)}
<1>1. ASSUME NEW m \in Nat
      PROVE  NumChoices(m + 1, 0) * (m + 1 - 0) = (m + 1) * NumChoices(m, 0)
  BY NumChoicesType
<1>2. 0 \in W
  <2> SUFFICES ASSUME NEW j \in Nat
               PROVE  NumChoices(1, j) * (1 - j) = NumChoices(0, j)
    BY NumChoicesType
  <2>1. CASE j = 0
    BY <2>1, NumChoicesType
  <2>2. CASE j = 1
    <3>1. NumChoices(0, 1) = 0 /\ NumChoices(1, 1) \in Nat
      BY NumChoicesType
    <3> QED
      BY <2>2, <3>1
  <2>3. CASE j > 1
    <3>1. NumChoices(0, j) = 0 /\ NumChoices(1, j) = 0
      BY <2>3, NumChoicesType
    <3> QED
      BY <3>1
  <2> QED
    BY <2>1, <2>2, <2>3
<1>3. ASSUME NEW m \in Nat, m \in W
      PROVE  m + 1 \in W
  <2> SUFFICES ASSUME NEW j \in Nat
               PROVE  NumChoices((m + 1) + 1, j) * ((m + 1) + 1 - j)
                        = ((m + 1) + 1) * NumChoices(m + 1, j)
    OBVIOUS
  <2>1. CASE j = 0
    BY <1>1, <2>1
  <2>2. CASE j # 0
    <3>1. PICK i \in Nat : j = i + 1
      BY <2>2, j = (j - 1) + 1, j - 1 \in Nat
    <3>2. PICK a \in Nat, b \in Nat, c \in Nat, d \in Nat, e \in Nat, h \in Nat :
            /\ a = NumChoices((m + 1) + 1, i + 1)
            /\ b = NumChoices(m + 1, i + 1)
            /\ c = NumChoices(m + 1, i)
            /\ d = NumChoices(m, i + 1)
            /\ e = NumChoices(m, i)
            /\ h = m + 1
      <4>1. /\ NumChoices((m + 1) + 1, i + 1) \in Nat
            /\ NumChoices(m + 1, i + 1) \in Nat /\ NumChoices(m + 1, i) \in Nat
            /\ NumChoices(m, i + 1) \in Nat /\ NumChoices(m, i) \in Nat
        <5>1. \A p, q \in Nat : NumChoices(p, q) \in Nat
          BY NumChoicesType
        <5> QED
          BY <5>1, m + 1 \in Nat, (m + 1) + 1 \in Nat, i + 1 \in Nat
      <4> QED
        BY <4>1
    <3>3. a = b + c /\ b = d + e
      BY <3>2, NumChoicesType
    <3>4. b * (h - (i + 1)) = h * d /\ c * (h - i) = h * e
      BY <1>3, <3>2
    <3>5. a * (h + 1 - (i + 1)) = (h + 1) * b
      <4>1. a * (h - i) = b * (h - i) + c * (h - i)
        BY <3>3
      <4>2. b * (h - i) = b * (h - (i + 1)) + b
        OBVIOUS
      <4>3. h * b = h * d + h * e
        BY <3>3
      <4>4. (h + 1) * b = h * b + b
        OBVIOUS
      <4>5. h + 1 - (i + 1) = h - i
        OBVIOUS
      <4> QED
        BY <3>4, <4>1, <4>2, <4>3, <4>4, <4>5
    <3> QED
      BY <3>1, <3>2, <3>5
  <2> QED
    BY <2>1, <2>2
<1> HIDE DEF Holds
<1>4. Nat \subseteq W
  <2> HIDE DEF W
  <2> QED
    BY <1>2, <1>3, InductionOnNat
<1> QED
  BY <1>4 DEF Holds

-----------------------------------------------------------------------------
(* The product.                                                            *)

Fraction == [num : Int, den : Int]

IsProduct(p, b, k) ==
  p = [i \in Nat |->
         IF i <= b
           THEN [num |-> 1, den |-> 1]
           ELSE [num |-> p[i - 1].num * (i - k), den |-> p[i - 1].den * i]]

\* The definition of CodexPassAtK defines a function.
LEMMA ProductExists ==
  ASSUME NEW b \in Nat, NEW k \in Nat
  PROVE  \E p : IsProduct(p, b, k)
<1> DEFINE one == [num |-> 1, den |-> 1]
           next(n, v) == IF n + 1 <= b
                           THEN one
                           ELSE [num |-> v.num * (n + 1 - k), den |-> v.den * (n + 1)]
           step == [x \in Nat \X Fraction |-> next(x[1], x[2])]
<1>1. one \in Fraction
  BY DEF Fraction
<1>2. step \in [Nat \X Fraction -> Fraction]
  <2> SUFFICES ASSUME NEW n \in Nat, NEW v \in Fraction
               PROVE  next(n, v) \in Fraction
    OBVIOUS
  <2>1. v.num \in Int /\ v.den \in Int
    BY DEF Fraction
  <2>2. v.num * (n + 1 - k) \in Int /\ v.den * (n + 1) \in Int
    BY <2>1
  <2> QED
    BY <1>1, <2>2 DEF Fraction
<1>3. PICK f \in [Nat -> Fraction] :
             f[0] = one /\ \A n \in Nat : f[n + 1] = step[<<n, f[n]>>]
  <2> HIDE DEF step, one, next
  <2>1. \E f \in [Nat -> Fraction] : GoesBySteps(f, one, step)
    BY <1>1, <1>2, FunctionBySteps
  <2> QED
    BY <2>1 DEF GoesBySteps
<1>4. \A n \in Nat : f[n + 1] = next(n, f[n])
  <2> SUFFICES ASSUME NEW n \in Nat
               PROVE  step[<<n, f[n]>>] = next(n, f[n])
    BY <1>3
  <2>1. <<n, f[n]>> \in Nat \X Fraction
    BY <1>3
  <2> HIDE DEF next
  <2> QED
    BY <2>1
<1>5. ASSUME NEW i \in Nat
      PROVE  f[i] = IF i <= b
                      THEN one
                      ELSE [num |-> f[i - 1].num * (i - k), den |-> f[i - 1].den * i]
  <2>1. CASE i = 0
    BY <1>3, <2>1
  <2>2. CASE i # 0
    <3>1. PICK n \in Nat : i = n + 1 /\ i - 1 = n
      BY <2>2, i - 1 \in Nat, i = (i - 1) + 1
    <3>2. f[i] = next(n, f[n])
      BY <1>4, <3>1
    <3> QED
      BY <3>1, <3>2
  <2> QED
    BY <2>1, <2>2
<1>6. IsProduct(f, b, k)
  <2> HIDE DEF step, next
  <2> QED
    BY <1>3, <1>5 DEF IsProduct
<1> QED
  BY <1>6

\* The invariant of the loop (run_sample_eval.cc:438-441): after the factors for
\* b + 1 to n, the product is the share of the choices of k of n that are choices
\* of k of the first b.
LEMMA ProductIsShare ==
  ASSUME NEW b \in Nat, NEW k \in Nat, k <= b,
         NEW p, IsProduct(p, b, k),
         NEW n \in Nat, b <= n
  PROVE  /\ p[n] \in Fraction
         /\ p[n].num * NumChoices(n, k) = p[n].den * NumChoices(b, k)
<1> DEFINE Share(m) ==
             /\ p[m] \in Fraction
             /\ p[m].num * NumChoices(m, k) = p[m].den * NumChoices(b, k)
           W == {i \in Nat : Share(b + i)}
<1>1. \A i \in Nat :
        p[i] = IF i <= b
                 THEN [num |-> 1, den |-> 1]
                 ELSE [num |-> p[i - 1].num * (i - k), den |-> p[i - 1].den * i]
  BY DEF IsProduct
<1>2. 0 \in W
  <2>1. p[b] = [num |-> 1, den |-> 1]
    <3>1. b <= b => p[b] = [num |-> 1, den |-> 1]
      BY <1>1, Zenon
    <3> QED
      BY <3>1
  <2>2. NumChoices(b, k) \in Nat
    BY NumChoicesType
  <2> QED
    BY <2>1, <2>2, b + 0 = b DEF Fraction
<1>3. ASSUME NEW i \in Nat, i \in W
      PROVE  i + 1 \in W
  <2>1. PICK m \in Nat : m = b + i /\ b + (i + 1) = m + 1 /\ ~(m + 1 <= b)
    BY b + i \in Nat, b + (i + 1) = (b + i) + 1
  <2>2. Share(m)
    BY <1>3, <2>1
  <2>3. PICK u \in Int, d \in Int : u = p[m].num /\ d = p[m].den
    BY <2>2 DEF Fraction
  <2>4. p[m + 1] = [num |-> u * (m + 1 - k), den |-> d * (m + 1)]
    BY <1>1, <2>1, <2>3, m + 1 \in Nat, (m + 1) - 1 = m
  <2>5. PICK x \in Nat, y \in Nat, z \in Nat :
          x = NumChoices(m + 1, k) /\ y = NumChoices(m, k) /\ z = NumChoices(b, k)
    <3>1. \A r \in Nat : NumChoices(r, k) \in Nat
      BY NumChoicesType
    <3> QED
      BY <3>1, m + 1 \in Nat
  <2>6. u * y = d * z
    BY <2>2, <2>3, <2>5
  <2>7. x * (m + 1 - k) = (m + 1) * y
    BY <2>5, Absorption
  <2>8. (u * (m + 1 - k)) * x = (d * (m + 1)) * z
    <3>1. (u * (m + 1 - k)) * x = u * (x * (m + 1 - k))
      OBVIOUS
    <3>2. u * ((m + 1) * y) = (m + 1) * (u * y)
      OBVIOUS
    <3>3. (m + 1) * (d * z) = (d * (m + 1)) * z
      OBVIOUS
    <3> QED
      BY <2>6, <2>7, <3>1, <3>2, <3>3
  <2>9. p[m + 1] \in Fraction
    BY <2>4 DEF Fraction
  <2>10. Share(m + 1)
    BY <2>4, <2>5, <2>8, <2>9
  <2> QED
    BY <2>1, <2>10
<1> HIDE DEF Share
<1>4. Nat \subseteq W
  <2> HIDE DEF W
  <2> QED
    BY <1>2, <1>3, InductionOnNat
<1>5. n - b \in Nat /\ b + (n - b) = n
  OBVIOUS
<1>6. Share(n)
  BY <1>4, <1>5
<1> QED
  BY <1>6 DEF Share

\* What CodexPassAtK computes, for n problems of which c are passed: the share of
\* the choices of k that are not choices of k of the n - c others.
LEMMA CodexIsShare ==
  ASSUME NEW n \in Nat, NEW c \in 0..n, NEW k \in Nat
  PROVE  CodexPassAtK(n, c, k).num * NumChoices(n, k)
           = CodexPassAtK(n, c, k).den
               * (NumChoices(n, k) - NumChoices(n - c, k))
<1> DEFINE b == n - c
           x == NumChoices(n, k)
           z == NumChoices(b, k)
<1>1. b \in Nat /\ b <= n
  OBVIOUS
<1>2. x \in Nat /\ z \in Nat
  BY <1>1, NumChoicesType
<1>3. CASE b < k
  <2>1. CodexPassAtK(n, c, k) = [num |-> 1, den |-> 1]
    BY <1>3 DEF CodexPassAtK
  <2>2. z = 0
    BY <1>1, <1>3, NumChoicesType
  <2> HIDE DEF x, z
  <2> QED
    BY <1>2, <2>1, <2>2 DEF x, z
<1>4. CASE ~(b < k)
  <2> DEFINE P == CHOOSE p : IsProduct(p, b, k)
  <2>1. IsProduct(P, b, k)
    BY <1>1, ProductExists
  <2>2. CodexPassAtK(n, c, k) = [num |-> P[n].den - P[n].num, den |-> P[n].den]
    BY <1>4 DEF CodexPassAtK, IsProduct
  <2> HIDE DEF P
  <2>3. P[n] \in Fraction /\ P[n].num * x = P[n].den * z
    <3>1. k <= b
      BY <1>1, <1>4
    <3> HIDE DEF b
    <3> QED
      BY <1>1, <2>1, <3>1, ProductIsShare
  <2>4. PICK u \in Int, d \in Int : u = P[n].num /\ d = P[n].den
    BY <2>3 DEF Fraction
  <2>5. CodexPassAtK(n, c, k).num = d - u /\ CodexPassAtK(n, c, k).den = d
    BY <2>2, <2>4
  <2>6. u * x = d * z
    BY <2>3, <2>4
  <2> HIDE DEF x, z
  <2>7. (d - u) * x = d * (x - z)
    <3>1. (d - u) * x = d * x - u * x
      BY <1>2
    <3>2. d * (x - z) = d * x - d * z
      BY <1>2
    <3> QED
      BY <2>6, <3>1, <3>2
  <2> QED
    BY <2>5, <2>7 DEF x, z
<1> QED
  BY <1>3, <1>4

-----------------------------------------------------------------------------
(* The theorem.                                                            *)

\* The choices without a passed problem are those from the ones not passed.
LEMMA SuccessfulChoices ==
  ASSUME NEW n \in Nat, NEW Passed \in SUBSET (1..n), NEW k \in Nat
  PROVE  Cardinality({S \in kSubset(k, 1..n) : \E i \in S : i \in Passed})
           = NumChoices(n, k) - NumChoices(n - Cardinality(Passed), k)
<1> DEFINE Draws == kSubset(k, 1..n)
           Successes == {S \in Draws : \E i \in S : i \in Passed}
           Failed == (1..n) \ Passed
<1>1. IsFiniteSet(1..n) /\ Cardinality(1..n) = n
  BY FS_Interval
<1>2. IsFiniteSet(Failed) /\ Cardinality(Failed) = n - Cardinality(Passed)
  <2>1. (1..n) \cap Passed = Passed
    OBVIOUS
  <2>2. \A S : IsFiniteSet(S) =>
          /\ IsFiniteSet(S \ Passed)
          /\ Cardinality(S \ Passed)
               = Cardinality(S) - Cardinality(S \cap Passed)
    BY FS_Difference
  <2> QED
    BY <1>1, <2>1, <2>2, Zenon
<1>3. Draws \ Successes = kSubset(k, Failed)
  BY DEF kSubset
<1>4. Successes \in SUBSET Draws /\ Draws \cap Successes = Successes
  OBVIOUS
<1>5. IsFiniteSet(Draws) /\ Cardinality(Draws) = NumChoices(n, k)
  BY <1>1, ChoicesFinite DEF NumChoices
<1>6. Cardinality(kSubset(k, Failed)) = NumChoices(n - Cardinality(Passed), k)
  <2> HIDE DEF Failed
  <2> QED
    BY <1>2, ChoicesFromAny
<1> HIDE DEF Draws, Successes, Failed
<1>7. IsFiniteSet(Successes) /\ Cardinality(Successes) \in Nat
        /\ Cardinality(Draws) \in Nat
  BY <1>4, <1>5, FS_Subset, FS_CardinalityType
<1>8. Cardinality(Draws \ Successes)
        = Cardinality(Draws) - Cardinality(Successes)
  <2>1. Cardinality(Draws \ Successes)
          = Cardinality(Draws) - Cardinality(Draws \cap Successes)
    BY <1>5, FS_Difference
  <2> QED
    BY <1>4, <2>1
<1>9. Cardinality(Successes)
        = Cardinality(Draws) - Cardinality(Draws \ Successes)
  BY <1>7, <1>8
<1>10. Cardinality(Successes)
         = NumChoices(n, k) - NumChoices(n - Cardinality(Passed), k)
  BY <1>3, <1>5, <1>6, <1>9, Zenon
<1> QED
  BY <1>10 DEF Draws, Successes

\* As long as there are k problems, the estimate of pass@k in the metrics file
\* (run_sample_eval.cc:433-467) is the share of the choices of k problems with a
\* passed one.
THEOREM EstimatesAreShares == Spec => []EstimateIsShare
<1>1. Inv => EstimateIsShare
  <2> SUFFICES ASSUME Inv, NEW m \in metricsFile, NEW k \in Ks
               PROVE  m.codex[k].num * Cardinality(kSubset(k, 1..m.k))
                        = m.codex[k].den
                            * Cardinality({S \in kSubset(k, 1..m.k) :
                                 \E i \in S : results[i].pass_at_k_passed})
    BY DEF EstimateIsShare
  <2> DEFINE n == m.k
             Passed == {i \in 1..n : results[i].pass_at_k_passed}
  <2>1. k \in Nat
    BY EvalAssumption
  <2>2. n \in Nat
    <3>1. m \in Metrics
      BY DEF Inv, TypeOK
    <3> QED
      BY <3>1 DEF Metrics
  <2>3. m.c = Cardinality(Passed)
    BY DEF Inv, MetricsDescribeResults, PassedUpTo
  <2>4. m.codex[k] = CodexPassAtK(n, m.c, k)
    BY DEF Inv, EstimatesOfCounts
  <2>5. Passed \in SUBSET (1..n)
    OBVIOUS
  <2>6. m.c \in 0..n
    <3> HIDE DEF Passed
    <3> QED
      BY <2>2, <2>3, <2>5, CountAtMost
  <2>7. {S \in kSubset(k, 1..n) : \E i \in S : results[i].pass_at_k_passed}
          = {S \in kSubset(k, 1..n) : \E i \in S : i \in Passed}
    BY DEF kSubset
  <2> HIDE DEF n, Passed
  <2>8. Cardinality({S \in kSubset(k, 1..n) : \E i \in S : i \in Passed})
          = NumChoices(n, k) - NumChoices(n - m.c, k)
    BY <2>1, <2>2, <2>3, <2>5, SuccessfulChoices
  <2>9. CodexPassAtK(n, m.c, k).num * NumChoices(n, k)
          = CodexPassAtK(n, m.c, k).den
              * (NumChoices(n, k) - NumChoices(n - m.c, k))
    BY <2>1, <2>2, <2>6, CodexIsShare
  <2>10. m.codex[k].num * Cardinality(kSubset(k, 1..n))
           = m.codex[k].den
               * Cardinality({S \in kSubset(k, 1..n) : \E i \in S : i \in Passed})
    BY <2>4, <2>8, <2>9 DEF NumChoices
  <2> QED
    BY <2>7, <2>10 DEF n
<1> QED
  BY <1>1, InvHolds, PTL

=============================================================================
