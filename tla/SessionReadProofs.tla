--------------------------- MODULE SessionReadProofs ---------------------------
(***************************************************************************)
(* Proofs about SessionRead for every tape, every session window and any   *)
(* number of prior sessions: what the sources make of the bars always      *)
(* passes the checks of the ES input, the numbers of a packet fit together *)
(* and those of a later packet fit an earlier one, what the Watchman says  *)
(* of a packet fits what was traded, and a day like every other reads as   *)
(* an average one.                                                         *)
(***************************************************************************)
EXTENDS SessionRead, FiniteSetTheorems, TLAPS

-----------------------------------------------------------------------------
(* Least and greatest elements.                                            *)

\* A set of naturals has a least element.
LEMMA LeastNumber ==
  ASSUME NEW D \in SUBSET Nat, D # {}
  PROVE  \E n \in D : \A m \in D : n <= m
<1>1. PICK n \in D : \A m \in D : ~(<<m, n>> \in OpToRel(<, Nat))
  BY NatLessThanWellFounded, WFMin
<1>2. \A m \in D : m < n => <<m, n>> \in OpToRel(<, Nat)
  BY DEF OpToRel
<1>3. \A m \in D : n \in Nat /\ m \in Nat /\ ~(m < n)
  BY <1>1, <1>2
<1>4. \A m \in D : n <= m
  BY <1>3
<1> QED
  BY <1>4, Zenon

\* Min and Max of a bounded set are its least and its greatest element, and there is
\* only one of each.
LEMMA MinIsLeast ==
  ASSUME NEW S \in SUBSET Nat, S # {}
  PROVE  /\ Min(S) \in S /\ Min(S) \in Nat
         /\ \A x \in S : Min(S) <= x
         /\ \A x \in S : (\A y \in S : x <= y) => x = Min(S)
<1>1. Min(S) \in S /\ \A x \in S : Min(S) <= x
  BY LeastNumber DEF Min
<1>2. \A x \in S : x \in Nat
  OBVIOUS
<1>3. ASSUME NEW x \in S, \A y \in S : x <= y PROVE x = Min(S)
  <2>1. x <= Min(S) /\ Min(S) <= x /\ x \in Nat /\ Min(S) \in Nat
    BY <1>1, <1>2, <1>3
  <2> QED
    BY <2>1
<1> QED
  BY <1>1, <1>2, <1>3

LEMMA MaxIsGreatest ==
  ASSUME NEW S \in SUBSET Nat, S # {}, NEW bound \in Nat, \A x \in S : x <= bound
  PROVE  /\ Max(S) \in S /\ Max(S) \in Nat
         /\ \A x \in S : x <= Max(S)
         /\ \A x \in S : (\A y \in S : y <= x) => x = Max(S)
<1> DEFINE D == {bound - x : x \in S}
<1>0. \A x \in S : x \in Nat /\ bound - x \in Nat
  OBVIOUS
<1>1. D \in SUBSET Nat /\ D # {}
  BY <1>0
<1>2. PICK n \in D : \A m \in D : n <= m
  <2> HIDE DEF D
  <2> QED
    BY <1>1, LeastNumber
<1>3. PICK top \in S : n = bound - top
  BY <1>2
<1>4. \A y \in S : y <= top
  <2> TAKE y \in S
  <2>1. bound - top <= bound - y
    BY <1>2, <1>3
  <2> QED
    BY <1>0, <2>1
<1>5. \A y \in S : top >= y
  BY <1>4
<1>6. Max(S) \in S /\ \A y \in S : Max(S) >= y
  BY <1>5 DEF Max
<1>7. \A x \in S : x <= Max(S)
  BY <1>0, <1>6
<1>8. ASSUME NEW x \in S, \A y \in S : y <= x PROVE x = Max(S)
  <2>1. x <= Max(S) /\ Max(S) <= x /\ x \in Nat /\ Max(S) \in Nat
    BY <1>0, <1>6, <1>7, <1>8
  <2> QED
    BY <2>1
<1> QED
  BY <1>0, <1>6, <1>7, <1>8

\* The elements of P above d, and those with fewer than k above them.
Above(P, d) == {e \in P : e > d}

Last(P, k) == {d \in P : Cardinality(Above(P, d)) < k}

\* The last k days are as many, if there are that many days.
LEMMA LastAreAsMany ==
  ASSUME NEW P \in SUBSET Nat, IsFiniteSet(P), NEW bound \in Nat, \A x \in P : x <= bound,
         NEW k \in Nat, k <= Cardinality(P)
  PROVE  Cardinality(Last(P, k)) = k
<1> DEFINE D == {n \in Nat : n <= Cardinality(P) /\ Cardinality(Last(P, n)) # n}
<1> SUFFICES ASSUME D # {} PROVE FALSE
  OBVIOUS
<1>1. PICK n \in D : \A m \in D : n <= m
  <2>1. D \in SUBSET Nat
    OBVIOUS
  <2> HIDE DEF D
  <2> QED
    BY <2>1, LeastNumber
<1>2. n \in Nat /\ n <= Cardinality(P) /\ Cardinality(Last(P, n)) # n
  BY <1>1
<1>3. Cardinality(P) \in Nat /\ \A x \in P : x \in Nat
  BY FS_CardinalityType
<1>4. \A d \in P : IsFiniteSet(Above(P, d)) /\ Cardinality(Above(P, d)) \in Nat
  <2> TAKE d \in P
  <2>1. Above(P, d) \in SUBSET P
    BY DEF Above
  <2> QED
    BY <2>1, FS_Subset, FS_CardinalityType
<1>5. n # 0
  <2>1. \A d \in P : ~(Cardinality(Above(P, d)) < 0)
    BY <1>4
  <2>2. Last(P, 0) = {}
    BY <2>1 DEF Last
  <2> QED
    BY <1>2, <2>2, FS_EmptySet
<1> DEFINE j == n - 1
<1>6. j \in Nat /\ n = j + 1 /\ j < Cardinality(P)
  BY <1>2, <1>3, <1>5
<1>7. Cardinality(Last(P, j)) = j
  <2>1. j \notin D
    BY <1>1, <1>6
  <2> QED
    BY <1>2, <1>3, <1>6, <2>1
<1> HIDE DEF D, j
<1> DEFINE rest == P \ Last(P, j)
<1>8. Last(P, j) \in SUBSET P
  BY DEF Last
<1>9. IsFiniteSet(Last(P, j)) /\ IsFiniteSet(rest)
  BY <1>8, FS_Subset, FS_Difference
<1>10. rest # {}
  <2>1. rest = {} => Last(P, j) = P
    BY <1>8
  <2> QED
    BY <1>3, <1>6, <1>7, <2>1
<1>11. rest \in SUBSET Nat /\ \A x \in rest : x <= bound
  OBVIOUS
<1> DEFINE top == Max(rest)
<1> HIDE DEF rest
<1>12. top \in rest /\ \A x \in rest : x <= top
  BY <1>10, <1>11, MaxIsGreatest
<1> HIDE DEF top
<1>13. top \in P /\ top \notin Last(P, j)
  BY <1>12 DEF rest
<1>14. ASSUME NEW d \in P, NEW e \in P, d <= e PROVE Cardinality(Above(P, e)) <= Cardinality(Above(P, d))
  <2>1. \A x \in Above(P, e) : x \in Above(P, d)
    <3> TAKE x \in Above(P, e)
    <3>1. x \in P /\ x > e /\ x \in Nat /\ d \in Nat /\ e \in Nat
      BY <1>3 DEF Above
    <3> QED
      BY <1>14, <3>1 DEF Above
  <2> QED
    BY <1>4, <2>1, FS_Subset
<1>15. Above(P, top) = Last(P, j)
  <2>1. ASSUME NEW e \in Above(P, top) PROVE e \in Last(P, j)
    <3>1. e \in P /\ e > top
      BY <2>1 DEF Above
    <3>2. e \notin rest
      BY <1>11, <1>12, <1>13, <3>1
    <3> QED
      BY <3>1, <3>2 DEF rest
  <2>2. ASSUME NEW e \in Last(P, j) PROVE e \in Above(P, top)
    <3>1. e \in P /\ Cardinality(Above(P, e)) < j
      BY <2>2 DEF Last
    <3>2. ~(Cardinality(Above(P, top)) < j)
      BY <1>13 DEF Last
    <3>3. ~(e <= top)
      BY <1>4, <1>6, <1>13, <1>14, <3>1, <3>2
    <3> QED
      BY <1>13, <3>1, <3>3 DEF Above
  <2> QED
    BY <2>1, <2>2
<1>16. \A d \in P : Cardinality(Above(P, d)) < j + 1 => d \in Last(P, j) \/ d = top
  <2> SUFFICES ASSUME NEW d \in P, Cardinality(Above(P, d)) < j + 1, d \notin Last(P, j), d # top
               PROVE  FALSE
    OBVIOUS
  <2>1. d \in rest
    BY DEF rest
  <2>2. d < top
    BY <1>12, <1>13, <2>1
  <2>7. \A x \in Above(P, top) \cup {top} : x \in Above(P, d)
    <3> TAKE x \in Above(P, top) \cup {top}
    <3>1. x \in P /\ (x > top \/ x = top) /\ x \in Nat /\ d \in Nat /\ top \in Nat
      BY <1>3, <1>13 DEF Above
    <3> QED
      BY <2>2, <3>1 DEF Above
  <2>3. Above(P, top) \cup {top} \in SUBSET Above(P, d)
    BY <2>7
  <2>4. top \notin Above(P, top)
    BY <1>13 DEF Above
  <2>5. Cardinality(Above(P, top) \cup {top}) = j + 1
    BY <1>4, <1>7, <1>13, <1>15, <2>4, FS_AddElement
  <2>6. j + 1 <= Cardinality(Above(P, d))
    BY <1>4, <2>3, <2>5, FS_Subset
  <2> QED
    BY <1>4, <1>6, <2>6
<1>17. Last(P, n) = Last(P, j) \cup {top}
  <2>1. \A d \in P : Cardinality(Above(P, d)) < j => Cardinality(Above(P, d)) < j + 1
    BY <1>4, <1>6
  <2>2. Cardinality(Above(P, top)) < j + 1
    BY <1>6, <1>7, <1>15
  <2> QED
    BY <1>6, <1>13, <1>16, <2>1, <2>2 DEF Last
<1>18. Cardinality(Last(P, n)) = j + 1
  BY <1>7, <1>9, <1>13, <1>17, FS_AddElement
<1> QED
  BY <1>2, <1>6, <1>18

-----------------------------------------------------------------------------
(* Finite sets of numbers and their sums.  ValueAreaProofs has the first   *)
(* of these lemmas too, about state of its own that has no place here.     *)

\* A set of subsets of a finite set has a member that contains no other.
LEMMA SmallestSet ==
  ASSUME NEW S, IsFiniteSet(S), NEW D \in SUBSET SUBSET S, D # {}
  PROVE  \E T \in D : \A U \in D : U \subseteq T => U = T
<1>1. IsWellFoundedOn(StrictSubsetOrdering(S), SUBSET S)
  BY FS_StrictSubsetOrderingWellFounded, FS_FiniteSubsetsOfFinite
<1>2. PICK T \in D : \A U \in D : ~(<<U, T>> \in StrictSubsetOrdering(S))
  BY <1>1, WFMin
<1>3. \A U \in D : U \subseteq T /\ U # T => <<U, T>> \in StrictSubsetOrdering(S)
  BY DEF StrictSubsetOrdering
<1>4. \A U \in D : U \subseteq T => U = T
  BY <1>2, <1>3
<1> QED
  BY <1>4, Zenon

Some(S) == CHOOSE x \in S : TRUE

\* What SumFunctionOnSet is made of: it is a table of the sums of the subsets of S.
Iterates(it, fun, S) ==
  it = [s \in SUBSET S |-> IF s = {} THEN 0 ELSE fun[Some(s)] + it[s \ {Some(s)}]]

LEMMA SumIsIterated ==
  ASSUME NEW fun, NEW S
  PROVE  SumFunctionOnSet(fun, S) = (CHOOSE it : Iterates(it, fun, S))[S]
BY Zenon DEF SumFunctionOnSet, FoldFunctionOnSet, MapThenFoldSet, Iterates, Some

\* Two tables agree on the subsets that both have.
LEMMA TablesAgree ==
  ASSUME NEW fun, NEW V, IsFiniteSet(V), NEW U \in SUBSET V,
         NEW i, Iterates(i, fun, U), NEW j, Iterates(j, fun, V)
  PROVE  \A s \in SUBSET U : i[s] = j[s]
<1> DEFINE D == {s \in SUBSET U : i[s] # j[s]}
<1> SUFFICES ASSUME D # {} PROVE FALSE
  OBVIOUS
<1>1. IsFiniteSet(U)
  BY FS_Subset
<1>2. PICK s \in D : \A t \in D : t \subseteq s => t = s
  <2>1. D \in SUBSET SUBSET U
    OBVIOUS
  <2> HIDE DEF D
  <2> QED
    BY <1>1, <2>1, SmallestSet
<1>3. s \in SUBSET U /\ s \in SUBSET V /\ i[s] # j[s]
  BY <1>2
<1>4. s # {}
  BY <1>3 DEF Iterates
<1>5. Some(s) \in s
  BY <1>4 DEF Some
<1>6. s \ {Some(s)} \in SUBSET U /\ s \ {Some(s)} # s
  BY <1>3, <1>5
<1>7. i[s \ {Some(s)}] = j[s \ {Some(s)}]
  BY <1>2, <1>6
<1>8. /\ i[s] = fun[Some(s)] + i[s \ {Some(s)}]
      /\ j[s] = fun[Some(s)] + j[s \ {Some(s)}]
  BY <1>3, <1>4 DEF Iterates
<1> QED
  BY <1>3, <1>7, <1>8

\* Every finite set has a table.
LEMMA TableExists ==
  ASSUME NEW fun, NEW S, IsFiniteSet(S)
  PROVE  \E it : Iterates(it, fun, S)
<1> DEFINE D == {T \in SUBSET S : ~\E it : Iterates(it, fun, T)}
           I(T) == CHOOSE it : Iterates(it, fun, T)
<1> SUFFICES ASSUME D # {} PROVE FALSE
  OBVIOUS
<1>1. PICK T \in D : \A U \in D : U \subseteq T => U = T
  <2>1. D \in SUBSET SUBSET S
    OBVIOUS
  <2> HIDE DEF D
  <2> QED
    BY <2>1, SmallestSet
<1>2. IsFiniteSet(T) /\ T \in SUBSET S
  BY <1>1, FS_Subset
<1>3. \A U \in SUBSET T : U # T => Iterates(I(U), fun, U)
  BY <1>1, <1>2
<1> HIDE DEF D, I
<1>4. ASSUME NEW s \in SUBSET T, s # {} PROVE Some(s) \in s
  BY <1>4 DEF Some
<1> DEFINE c == Some(T)
           it == [s \in SUBSET T |-> IF s = {} THEN 0
                                     ELSE IF s = T THEN fun[c] + I(T \ {c})[T \ {c}]
                                     ELSE I(s)[s]]
<1>5. ASSUME NEW s \in SUBSET T
      PROVE  it[s] = IF s = {} THEN 0 ELSE fun[Some(s)] + it[s \ {Some(s)}]
  <2> DEFINE r == s \ {Some(s)}
  <2>1. CASE s = {}
    BY <2>1
  <2>2. CASE s # {}
    <3>1. Some(s) \in s
      BY <1>4, <2>2
    <3>2. r \in SUBSET T /\ r # T /\ r \in SUBSET s /\ r # s
      BY <3>1
    <3>3. Iterates(I(r), fun, r)
      BY <1>3, <3>2
    <3>4. it[r] = I(r)[r]
      <4>1. CASE r = {}
        <5>1. I(r)[r] = 0
          BY <3>3, <4>1 DEF Iterates
        <5> QED
          BY <3>2, <4>1, <5>1
      <4>2. CASE r # {}
        BY <3>2, <4>2
      <4> QED
        BY <4>1, <4>2
    <3>5. CASE s = T
      BY <2>2, <3>4, <3>5
    <3>6. CASE s # T
      <4>1. it[s] = I(s)[s]
        BY <2>2, <3>6
      <4>2. Iterates(I(s), fun, s)
        BY <1>3, <3>6
      <4>3. I(s)[s] = fun[Some(s)] + I(s)[r]
        BY <2>2, <4>2 DEF Iterates
      <4>4. IsFiniteSet(s)
        BY <1>2, FS_Subset
      <4>5. I(r)[r] = I(s)[r]
        BY <3>2, <3>3, <4>2, <4>4, TablesAgree
      <4> QED
        BY <2>2, <3>4, <4>1, <4>3, <4>5
    <3> QED
      BY <3>5, <3>6
  <2> QED
    BY <2>1, <2>2
<1>6. Iterates(it, fun, T)
  <2>1. it = [s \in SUBSET T |-> IF s = {} THEN 0 ELSE fun[Some(s)] + it[s \ {Some(s)}]]
    BY <1>5
  <2> HIDE DEF it
  <2> QED
    BY <2>1 DEF Iterates
<1> HIDE DEF it
<1> QED
  BY <1>1, <1>6 DEF D

\* The sum of nothing, and of a set without the element that is taken first.
LEMMA SumStep ==
  ASSUME NEW fun, NEW S, IsFiniteSet(S)
  PROVE  /\ SumFunctionOnSet(fun, {}) = 0
         /\ S # {} => SumFunctionOnSet(fun, S) =
                        fun[Some(S)] + SumFunctionOnSet(fun, S \ {Some(S)})
<1> DEFINE I(T) == CHOOSE it : Iterates(it, fun, T)
<1>1. \A T : IsFiniteSet(T) => Iterates(I(T), fun, T)
  BY TableExists
<1>2. \A T : SumFunctionOnSet(fun, T) = I(T)[T]
  BY SumIsIterated
<1> HIDE DEF I
<1>3. IsFiniteSet({}) /\ IsFiniteSet(S \ {Some(S)})
  BY FS_EmptySet, FS_Subset
<1>4. I({})[{}] = 0
  BY <1>1, <1>3 DEF Iterates
<1>5. ASSUME S # {} PROVE I(S)[S] = fun[Some(S)] + I(S \ {Some(S)})[S \ {Some(S)}]
  <2>1. I(S)[S] = fun[Some(S)] + I(S)[S \ {Some(S)}]
    BY <1>1, <1>5 DEF Iterates
  <2>2. Iterates(I(S), fun, S) /\ Iterates(I(S \ {Some(S)}), fun, S \ {Some(S)})
    BY <1>1, <1>3
  <2>3. I(S \ {Some(S)})[S \ {Some(S)}] = I(S)[S \ {Some(S)}]
    <3>1. S \ {Some(S)} \in SUBSET S /\ S \ {Some(S)} \in SUBSET (S \ {Some(S)})
      OBVIOUS
    <3> QED
      BY <2>2, <3>1, TablesAgree
  <2> QED
    BY <2>1, <2>3
<1> QED
  BY <1>2, <1>4, <1>5

\* Sums of naturals are naturals.
LEMMA SumNatural ==
  ASSUME NEW fun, NEW S, IsFiniteSet(S), \A x \in S : fun[x] \in Nat
  PROVE  SumFunctionOnSet(fun, S) \in Nat
<1> DEFINE D == {T \in SUBSET S : SumFunctionOnSet(fun, T) \notin Nat}
<1> SUFFICES ASSUME D # {} PROVE FALSE
  OBVIOUS
<1>1. PICK T \in D : \A U \in D : U \subseteq T => U = T
  <2>1. D \in SUBSET SUBSET S
    OBVIOUS
  <2> HIDE DEF D
  <2> QED
    BY <2>1, SmallestSet
<1>2. T \in SUBSET S /\ IsFiniteSet(T) /\ SumFunctionOnSet(fun, T) \notin Nat
  BY <1>1, FS_Subset
<1>3. T # {}
  <2>1. SumFunctionOnSet(fun, {}) = 0
    BY SumStep
  <2> QED
    BY <1>2, <2>1
<1>4. Some(T) \in T
  BY <1>3 DEF Some
<1>5. T \ {Some(T)} \notin D
  BY <1>1, <1>4
<1>6. SumFunctionOnSet(fun, T \ {Some(T)}) \in Nat
  BY <1>2, <1>5
<1>7. SumFunctionOnSet(fun, T) = fun[Some(T)] + SumFunctionOnSet(fun, T \ {Some(T)})
  BY <1>2, <1>3, SumStep
<1>8. fun[Some(T)] \in Nat
  BY <1>2, <1>4
<1> QED
  BY <1>2, <1>6, <1>7, <1>8

\* Any element may be taken first.
LEMMA SumSplit ==
  ASSUME NEW fun, NEW S, IsFiniteSet(S), \A x \in S : fun[x] \in Nat, NEW x \in S
  PROVE  SumFunctionOnSet(fun, S) = fun[x] + SumFunctionOnSet(fun, S \ {x})
<1> DEFINE Sum(T) == SumFunctionOnSet(fun, T)
           D == {T \in SUBSET S : \E y \in T : Sum(T) # fun[y] + Sum(T \ {y})}
<1> SUFFICES ASSUME D # {} PROVE FALSE
  OBVIOUS
<1>1. PICK T \in D : \A U \in D : U \subseteq T => U = T
  <2>1. D \in SUBSET SUBSET S
    OBVIOUS
  <2> HIDE DEF D
  <2> QED
    BY <2>1, SmallestSet
<1>2. PICK y \in T : Sum(T) # fun[y] + Sum(T \ {y})
  BY <1>1
<1>3. \A U \in SUBSET T : U # T => \A z \in U : Sum(U) = fun[z] + Sum(U \ {z})
  BY <1>1
<1>4. T \in SUBSET S
  BY <1>1
<1>5. \A U \in SUBSET T : IsFiniteSet(U) /\ Sum(U) \in Nat
  <2> TAKE U \in SUBSET T
  <2>1. IsFiniteSet(U) /\ \A z \in U : fun[z] \in Nat
    BY <1>4, FS_Subset
  <2> QED
    BY <2>1, SumNatural
<1> DEFINE c == Some(T)
<1>6. c \in T
  BY <1>2 DEF Some
<1>7. Sum(T) = fun[c] + Sum(T \ {c})
  <2>1. IsFiniteSet(T)
    BY <1>5
  <2> QED
    BY <1>2, <2>1, SumStep
<1> HIDE DEF Sum, D, c
<1>8. y # c
  BY <1>2, <1>7
<1>9. Sum(T \ {c}) = fun[y] + Sum((T \ {c}) \ {y})
  BY <1>2, <1>3, <1>6, <1>8
<1>10. Sum(T \ {y}) = fun[c] + Sum((T \ {y}) \ {c})
  BY <1>2, <1>3, <1>6, <1>8
<1>11. (T \ {c}) \ {y} = (T \ {y}) \ {c}
  OBVIOUS
<1>12. fun[y] \in Nat /\ fun[c] \in Nat /\ Sum((T \ {c}) \ {y}) \in Nat
  BY <1>2, <1>4, <1>5, <1>6
<1> DEFINE w == Sum((T \ {c}) \ {y})
<1>13. Sum(T) = fun[c] + (fun[y] + w) /\ Sum(T \ {y}) = fun[c] + w
  BY <1>7, <1>9, <1>10, <1>11
<1> HIDE DEF w
<1>14. w \in Nat
  BY <1>12 DEF w
<1>15. fun[c] + (fun[y] + w) = fun[y] + (fun[c] + w)
  BY <1>12, <1>14
<1> QED
  BY <1>2, <1>13, <1>15

\* Sums over disjoint sets add up.
LEMMA SumUnion ==
  ASSUME NEW fun, NEW S, IsFiniteSet(S), \A x \in S : fun[x] \in Nat,
         NEW B \in SUBSET S, NEW A \in SUBSET (S \ B)
  PROVE  SumFunctionOnSet(fun, A \cup B) = SumFunctionOnSet(fun, A) + SumFunctionOnSet(fun, B)
<1> DEFINE Sum(T) == SumFunctionOnSet(fun, T)
           D == {T \in SUBSET (S \ B) : Sum(T \cup B) # Sum(T) + Sum(B)}
<1> SUFFICES ASSUME D # {} PROVE FALSE
  OBVIOUS
<1>0. IsFiniteSet(S \ B)
  BY FS_Difference
<1>1. PICK T \in D : \A U \in D : U \subseteq T => U = T
  <2>1. D \in SUBSET SUBSET (S \ B)
    OBVIOUS
  <2> HIDE DEF D
  <2> QED
    BY <1>0, <2>1, SmallestSet
<1>2. T \in SUBSET (S \ B) /\ Sum(T \cup B) # Sum(T) + Sum(B)
  BY <1>1
<1>3. ASSUME NEW U \in SUBSET S PROVE IsFiniteSet(U) /\ Sum(U) \in Nat /\ \A x \in U : fun[x] \in Nat
  <2>1. IsFiniteSet(U) /\ \A x \in U : fun[x] \in Nat
    BY FS_Subset
  <2> QED
    BY <2>1, SumNatural
<1>4. Sum({}) = 0
  BY SumStep
<1>5. T # {}
  <2> SUFFICES ASSUME T = {} PROVE FALSE
    OBVIOUS
  <2>1. T \cup B = B /\ Sum(T) = 0
    BY <1>4
  <2>2. Sum(B) \in Nat
    BY <1>3
  <2>3. Sum(T \cup B) = Sum(B)
    BY <2>1
  <2> HIDE DEF Sum
  <2> QED
    BY <1>2, <2>1, <2>2, <2>3
<1>6. PICK c \in T : TRUE
  BY <1>5
<1>7. T \ {c} \in SUBSET (S \ B) /\ T \ {c} \notin D
  BY <1>1, <1>2, <1>6
<1>8. Sum((T \ {c}) \cup B) = Sum(T \ {c}) + Sum(B)
  BY <1>7
<1>9. Sum(T) = fun[c] + Sum(T \ {c})
  BY <1>2, <1>3, <1>6, SumSplit
<1>10. c \in T \cup B /\ T \cup B \in SUBSET S /\ (T \cup B) \ {c} = (T \ {c}) \cup B
  BY <1>2, <1>6
<1>11. IsFiniteSet(T \cup B) /\ \A x \in T \cup B : fun[x] \in Nat
  BY <1>3, <1>10
<1>12. Sum(T \cup B) = fun[c] + Sum((T \cup B) \ {c})
  BY <1>10, <1>11, SumSplit
<1>13. T \ {c} \in SUBSET S /\ B \in SUBSET S /\ c \in S
  BY <1>2, <1>6
<1>14. Sum(T \ {c}) \in Nat /\ Sum(B) \in Nat /\ fun[c] \in Nat
  BY <1>3, <1>13
<1>15. Sum(T \cup B) = fun[c] + Sum((T \ {c}) \cup B)
  BY <1>10, <1>12
<1> HIDE DEF Sum, D
<1> QED
  BY <1>2, <1>8, <1>9, <1>14, <1>15

\* A finite set of whole numbers has a least and a greatest element.
LEMMA Extremes ==
  ASSUME NEW S, IsFiniteSet(S), S # {}, \A x \in S : x \in Int
  PROVE  /\ Max(S) \in S /\ \A x \in S : x <= Max(S)
         /\ Min(S) \in S /\ \A x \in S : Min(S) <= x
         /\ Max(S) \in Int /\ Min(S) \in Int
<1> DEFINE HasExtremes(T) == (\E x \in T : \A y \in T : y <= x) /\ (\E x \in T : \A y \in T : x <= y)
           D == {T \in SUBSET S : T # {} /\ ~HasExtremes(T)}
<1>1. D = {}
  <2> SUFFICES ASSUME D # {} PROVE FALSE
    OBVIOUS
  <2>1. PICK T \in D : \A U \in D : U \subseteq T => U = T
    <3>1. D \in SUBSET SUBSET S /\ D # {}
      OBVIOUS
    <3> HIDE DEF D
    <3> QED
      BY <3>1, SmallestSet
  <2>2. T \in SUBSET S /\ T # {} /\ ~HasExtremes(T)
    BY <2>1
  <2>3. PICK c \in T : TRUE
    BY <2>2
  <2> DEFINE R == T \ {c}
  <2>4. \A x \in T : x \in Int
    BY <2>2
  <2>5. R # {}
    <3>1. R = {} => \A y \in T : y = c
      OBVIOUS
    <3>2. R = {} => \A y \in T : y <= c /\ c <= y
      BY <2>3, <2>4, <3>1
    <3> QED
      BY <2>2, <2>3, <3>2
  <2>6. R \in SUBSET S /\ R \notin D
    BY <2>1, <2>2, <2>3
  <2>7. /\ \E x \in R : \A y \in R : y <= x
        /\ \E x \in R : \A y \in R : x <= y
    BY <2>5, <2>6
  <2>8. PICK high \in R : \A y \in R : y <= high
    BY <2>7
  <2>9. PICK low \in R : \A y \in R : low <= y
    BY <2>7
  <2>10. \A y \in T : y \in R \/ y = c
    OBVIOUS
  <2>11. \E x \in T : \A y \in T : y <= x
    <3>1. CASE c <= high
      <4>1. \A y \in T : y <= high
        BY <2>4, <2>8, <2>10, <3>1
      <4> QED
        BY <2>8, <4>1
    <3>2. CASE ~(c <= high)
      <4>1. \A y \in T : y <= c
        BY <2>3, <2>4, <2>8, <2>10, <3>2
      <4> QED
        BY <2>3, <4>1
    <3> QED
      BY <3>1, <3>2
  <2>12. \E x \in T : \A y \in T : x <= y
    <3>1. CASE low <= c
      <4>1. \A y \in T : low <= y
        BY <2>4, <2>9, <2>10, <3>1
      <4> QED
        BY <2>9, <4>1
    <3>2. CASE ~(low <= c)
      <4>1. \A y \in T : c <= y
        BY <2>3, <2>4, <2>9, <2>10, <3>2
      <4> QED
        BY <2>3, <4>1
    <3> QED
      BY <3>1, <3>2
  <2> QED
    BY <2>2, <2>11, <2>12
<1>2. /\ \E x \in S : \A y \in S : y <= x
      /\ \E x \in S : \A y \in S : x <= y
  BY <1>1
<1>3. \A x, y \in S : x <= y <=> y >= x
  OBVIOUS
<1>4. \E x \in S : \A y \in S : x >= y
  BY <1>2, <1>3
<1>5. Max(S) \in S /\ \A y \in S : Max(S) >= y
  BY <1>4 DEF Max
<1>6. Min(S) \in S /\ \A y \in S : Min(S) <= y
  BY <1>2 DEF Min
<1> QED
  BY <1>3, <1>5, <1>6

-----------------------------------------------------------------------------
(* Sessions.                                                               *)

\* What was received is of the tape, up to the end of the query; the bars have every
\* minute traded before their last.
BarsOK ==
  /\ tape \in Tapes /\ contract \in Contracts /\ now \in Nat
  /\ bars \in SUBSET Nat /\ \A m \in bars : m < QueryEnd
  /\ \A m \in bars : \E i \in DOMAIN tape : m = Minute(i)
  /\ \A i \in DOMAIN tape : \A m \in bars : Minute(i) <= m => Minute(i) \in bars
  /\ trades \in SUBSET DOMAIN tape /\ \A i \in trades : Minute(i) < QueryEnd

LEMMA Constants ==
  ASSUME contract \in Contracts
  PROVE  /\ DayLength \in Nat /\ DayLength > 0 /\ Today \in Nat
         /\ Lookback \in Nat /\ Lookback > 0
         /\ WeekStart \in Nat /\ WeekStart <= Today
         /\ Window[contract].start \in Nat /\ Window[contract].end \in Nat
         /\ Window[contract].end < DayLength
         /\ QueryEnd \in Nat
<1>1. /\ Window[contract] \in [start: Nat, end: Nat]
      /\ Window[contract].end < DayLength
  BY WindowAssumption
<1>2. DayLength \in Nat /\ DayLength > 0 /\ Today \in Nat
  BY CalendarAssumption
<1>3. Today * DayLength \in Nat
  BY <1>2
<1>4. QueryEnd \in Nat
  BY <1>1, <1>3 DEF QueryEnd, At
<1> QED
  BY <1>1, <1>2, <1>4, CalendarAssumption

\* A minute of the tape is a natural.
LEMMA MinutesAreNatural == ASSUME tape \in Tapes, NEW i \in DOMAIN tape PROVE i \in Nat /\ Minute(i) \in Nat
<1>1. i \in Nat
  BY WindowAssumption
<1> QED
  BY <1>1 DEF Minute

LEMMA BarsReceived ==
  ASSUME tape \in Tapes, contract \in Contracts, now \in Nat
  PROVE  /\ BarsNow \in SUBSET Nat /\ \A m \in BarsNow : m < QueryEnd
         /\ \A m \in BarsNow : \E i \in DOMAIN tape : m = Minute(i)
         /\ \A i \in DOMAIN tape : \A m \in BarsNow : Minute(i) <= m => Minute(i) \in BarsNow
<1>1. \A m \in BarsNow : \E i \in DOMAIN tape :
        m = Minute(i) /\ Minute(i) < QueryEnd /\ 2 * Minute(i) + 2 <= now
  BY DEF BarsNow
<1>2. \A m \in BarsNow : m \in Nat /\ m < QueryEnd /\ 2 * m + 2 <= now
  BY <1>1, MinutesAreNatural
<1>3. ASSUME NEW i \in DOMAIN tape, NEW m \in BarsNow, Minute(i) <= m PROVE Minute(i) \in BarsNow
  <2>1. Minute(i) \in Nat /\ QueryEnd \in Nat
    BY MinutesAreNatural, Constants
  <2>2. Minute(i) < QueryEnd /\ 2 * Minute(i) + 2 <= now
    BY <1>2, <1>3, <2>1
  <2> QED
    BY <2>2 DEF BarsNow
<1> QED
  BY <1>1, <1>2, <1>3

LEMMA BarsInvariant == Spec => []BarsOK
<1>1. Init => BarsOK
  BY CalendarAssumption DEF Init, BarsOK
<1>2. ASSUME BarsOK, [Next]_vars PROVE BarsOK'
  <2>1. ASSUME UNCHANGED <<tape, contract, now, bars, trades>> PROVE BarsOK'
    BY <1>2, <2>1 DEF BarsOK, QueryEnd, At
  <2>2. CASE GetBars
    <3>1. UNCHANGED <<tape, contract, now, trades>> /\ bars' = BarsNow
      BY <2>2 DEF GetBars
    <3>2. /\ bars' \in SUBSET Nat /\ \A m \in bars' : m < QueryEnd
          /\ \A m \in bars' : \E i \in DOMAIN tape : m = Minute(i)
          /\ \A i \in DOMAIN tape : \A m \in bars' : Minute(i) <= m => Minute(i) \in bars'
      BY <1>2, <3>1, BarsReceived DEF BarsOK
    <3> QED
      BY <1>2, <3>1, <3>2 DEF BarsOK, QueryEnd, At
  <2>3. CASE GetTrades
    <3>1. UNCHANGED <<tape, contract, now, bars>> /\ trades' = TradesNow
      BY <2>3 DEF GetTrades
    <3>2. TradesNow \in SUBSET DOMAIN tape /\ \A i \in TradesNow : Minute(i) < QueryEnd
      BY DEF TradesNow
    <3> QED
      BY <1>2, <3>1, <3>2 DEF BarsOK, QueryEnd, At
  <2>4. CASE Again
    BY <1>2, <2>4 DEF Again, BarsOK
  <2>5. CASE Load
    BY <2>1, <2>5 DEF Load, LoadES, LoadCL, LoadNQ, LoadMGC, LoadSixE, LoadFields, Loaded, Refused
  <2>6. CASE Compile
    BY <2>1, <2>6 DEF Compile, CompileES, CompileCL, CompileNQ, CompileMGC, CompileSixE,
                      CompileFields, Refused
  <2>7. CASE GetDelta
    BY <2>1, <2>7 DEF GetDelta, Refused
  <2>8. CASE Tick
    <3>1. UNCHANGED <<tape, contract, bars, trades>> /\ now' = now + 1
      BY <2>8 DEF Tick
    <3> QED
      BY <1>2, <3>1 DEF BarsOK, QueryEnd, At
  <2>9. CASE UNCHANGED vars
    BY <2>1, <2>9 DEF vars
  <2> QED
    BY <1>2, <2>2, <2>3, <2>4, <2>5, <2>6, <2>7, <2>8, <2>9 DEF Next
<1> QED
  BY <1>1, <1>2, PTL DEF Spec

\* The minutes of a session are naturals of its day, and bounded.
LEMMA SessionFacts ==
  ASSUME BarsOK, NEW day
  PROVE  /\ Session(day) \in SUBSET Nat
         /\ \A m \in Session(day) : m <= QueryEnd /\ m \in bars /\ Date(m) = day
         /\ QueryEnd \in Nat
<1>1. contract \in Contracts /\ bars \in SUBSET Nat /\ \A m \in bars : m < QueryEnd
  BY DEF BarsOK
<1>2. \A m \in Session(day) : m \in bars /\ Date(m) = day
  BY DEF Session, InWindow
<1>3. QueryEnd \in Nat
  BY <1>1, Constants
<1>4. \A m \in Session(day) : m \in Nat /\ m <= QueryEnd
  <2>1. \A m \in bars : m \in Nat /\ m <= QueryEnd
    BY <1>1, <1>3
  <2> QED
    BY <1>2, <2>1
<1> QED
  BY <1>2, <1>3, <1>4

\* The prior sessions lie before today.
LEMMA PriorFacts ==
  ASSUME BarsOK
  PROVE  /\ PriorDates \in SUBSET Nat /\ IsFiniteSet(PriorDates)
         /\ \A day \in PriorDates : day < Today /\ day <= Today /\ Session(day) # {}
         /\ HasSessions => PriorDates # {} /\ Lookback <= Cardinality(PriorDates)
<1>1. Today \in Nat /\ Lookback \in Nat /\ Lookback > 0
  BY Constants DEF BarsOK
<1>2. \A day \in PriorDates : day \in 0..(Today - 1) /\ Session(day) # {}
  BY DEF PriorDates
<1>3. \A day \in PriorDates : day \in Nat /\ day < Today /\ day <= Today
  BY <1>1, <1>2
<1>4. IsFiniteSet(PriorDates)
  BY <1>1, <1>3, FS_BoundedSetOfNaturals
<1>5. ASSUME HasSessions PROVE PriorDates # {} /\ Lookback <= Cardinality(PriorDates)
  <2>1. Cardinality(PriorDates) >= Lookback /\ Cardinality(PriorDates) \in Nat
    BY <1>4, <1>5, FS_CardinalityType DEF HasSessions
  <2>2. Cardinality({}) = 0
    BY FS_EmptySet
  <2> QED
    BY <1>1, <2>1, <2>2
<1> QED
  BY <1>2, <1>3, <1>4, <1>5

\* The sessions needed are the last ones, and the latest of all is among them.
LEMMA LookbackFacts ==
  ASSUME BarsOK, HasSessions
  PROVE  /\ LookbackDates \in SUBSET PriorDates
         /\ Cardinality(LookbackDates) = Lookback
         /\ Max(PriorDates) \in LookbackDates
         /\ Max(LookbackDates) = Max(PriorDates)
         /\ Max(PriorDates) \in PriorDates /\ Max(PriorDates) \in Nat
         /\ Max(PriorDates) < Today
<1>1. /\ PriorDates \in SUBSET Nat /\ IsFiniteSet(PriorDates) /\ PriorDates # {}
      /\ Lookback <= Cardinality(PriorDates) /\ \A day \in PriorDates : day < Today /\ day <= Today
  BY PriorFacts
<1>2. Today \in Nat /\ Lookback \in Nat /\ Lookback > 0
  BY Constants DEF BarsOK
<1>3. LookbackDates = Last(PriorDates, Lookback)
  BY DEF LookbackDates, Last, Above
<1>4. Cardinality(LookbackDates) = Lookback
  BY <1>1, <1>2, <1>3, LastAreAsMany
<1>5. /\ Max(PriorDates) \in PriorDates /\ Max(PriorDates) \in Nat
      /\ \A day \in PriorDates : day <= Max(PriorDates)
  BY <1>1, <1>2, MaxIsGreatest
<1>6. Max(PriorDates) \in LookbackDates
  <2>1. \A e \in PriorDates : e \in Nat /\ ~(e > Max(PriorDates))
    BY <1>1, <1>5
  <2>2. Above(PriorDates, Max(PriorDates)) = {}
    BY <2>1 DEF Above
  <2>3. Cardinality(Above(PriorDates, Max(PriorDates))) < Lookback
    BY <1>2, <2>2, FS_EmptySet
  <2> QED
    BY <1>3, <1>5, <2>3 DEF Last
<1>7. LookbackDates \in SUBSET PriorDates
  BY DEF LookbackDates
<1>8. LookbackDates \in SUBSET Nat /\ LookbackDates # {} /\ \A day \in LookbackDates : day <= Today
  BY <1>1, <1>6, <1>7
<1>9. \A x \in LookbackDates : (\A y \in LookbackDates : y <= x) => x = Max(LookbackDates)
  BY <1>2, <1>8, MaxIsGreatest
<1>10. Max(LookbackDates) = Max(PriorDates)
  BY <1>5, <1>6, <1>7, <1>9
<1> QED
  BY <1>1, <1>4, <1>5, <1>6, <1>7, <1>10

\* The largest of one number is that number.
LEMMA MaxOfOne == ASSUME NEW n \in Nat PROVE Max({n}) = n
<1>1. {n} \in SUBSET Nat /\ {n} # {} /\ \A x \in {n} : x <= n
  OBVIOUS
<1> QED
  BY <1>1, MaxIsGreatest

\* Whatever the tape, of what the source makes of a session the checks refuse nothing.
LEMMA BarSetsFit == ASSUME BarsOK, HasSessions PROVE BarSetsValid(ESInput)
<1> DEFINE given == ESInput
           last == Max(PriorDates)
<1>1. /\ LookbackDates \in SUBSET PriorDates /\ Cardinality(LookbackDates) = Lookback
      /\ last \in LookbackDates /\ Max(LookbackDates) = last
      /\ last \in PriorDates /\ last \in Nat /\ last < Today
  BY LookbackFacts
<1>2. /\ given.prior_rth_bars = Prior /\ given.overnight_bars = Overnight
      /\ given.current_rth_bars = Current
      /\ given.prior_20_rth_sessions =
           [day \in LookbackDates |-> [high |-> High(Session(day)), low |-> Low(Session(day))]]
      /\ DOMAIN given.prior_20_rth_observed_volumes = LookbackDates
      /\ given.weekly_open_bar =
           Min({m \in bars : Date(m) \in WeekStart..Today /\ m \in Session(Date(m))})
  BY DEF ESInput
<1>3. /\ WeekStart \in Nat /\ WeekStart <= Today /\ Today \in Nat
  BY Constants DEF BarsOK
<1>4. Current # {} /\ Overnight # {}
  BY DEF HasSessions
<1>5. Prior = Session(last) /\ Prior # {}
  BY <1>1, PriorFacts DEF Prior
<1>6. /\ Current \in SUBSET Nat
      /\ \A m \in Current : m <= QueryEnd /\ m \in bars /\ Date(m) = Today
      /\ QueryEnd \in Nat
  BY SessionFacts DEF Current
<1>7. Prior \in SUBSET Nat /\ \A m \in Prior : m <= QueryEnd /\ m \in bars /\ Date(m) = last
  BY <1>5, SessionFacts
<1>8. {Date(m) : m \in Current} = {Today} /\ {Date(m) : m \in Prior} = {last}
  BY <1>4, <1>5, <1>6, <1>7
<1>9. /\ Cardinality({Today}) = 1 /\ Cardinality({last}) = 1
      /\ Max({Today}) = Today /\ Max({last}) = last
  BY <1>1, <1>3, MaxOfOne, FS_Singleton
<1> DEFINE week == {m \in bars : Date(m) \in WeekStart..Today /\ m \in Session(Date(m))}
<1>10. Min(week) <= Min(Current)
  <2>1. Min(Current) \in Current
    BY <1>4, <1>6, MinIsLeast
  <2>2. Today \in WeekStart..Today
    BY <1>3
  <2>3. Min(Current) \in week
    BY <1>6, <2>1, <2>2 DEF Current
  <2>4. week \in SUBSET Nat /\ week # {}
    BY <2>3 DEF BarsOK
  <2> HIDE DEF week
  <2> QED
    BY <2>3, <2>4, MinIsLeast
<1>11. \A m \in Overnight : Max(Prior) < m /\ m < Min(Current)
  BY DEF Overnight
<1>12. given.prior_20_rth_sessions[last] = [high |-> High(Prior), low |-> Low(Prior)]
  BY <1>1, <1>2, <1>5
<1>13. DOMAIN given.prior_20_rth_sessions = LookbackDates
  BY <1>2
<1> HIDE DEF last
<1>14. {} \notin {given.current_rth_bars, given.prior_rth_bars, given.overnight_bars}
  BY <1>2, <1>4, <1>5
<1> QED
  BY <1>1, <1>2, <1>8, <1>9, <1>10, <1>11, <1>12, <1>13, <1>14, Zenon DEF BarSetsValid

\* The checks of the ES input, written for hand-made files, refuse nothing that the
\* source makes of a day with sessions, whatever was traded and when it is asked.
THEOREM SourcesPassTheChecks == Spec => []OnlyTheMarketIsRefused
<1>1. BarsOK => OnlyTheMarketIsRefused
  BY BarSetsFit DEF OnlyTheMarketIsRefused
<1> QED
  BY <1>1, BarsInvariant, PTL

-----------------------------------------------------------------------------
(* Prices.                                                                 *)

\* The trades in some minutes are those of the tape that are stamped with one of them.
LEMMA InTheMinutes ==
  ASSUME tape \in Tapes, NEW M \in SUBSET Nat
  PROVE  /\ In(M) \in SUBSET DOMAIN tape /\ In(M) \in SUBSET Nat
         /\ \A i \in DOMAIN tape : i \in In(M) <=> Minute(i) \in M
<1>1. \A i \in DOMAIN tape : i \in Nat
  BY MinutesAreNatural
<1>2. ASSUME NEW i \in DOMAIN tape, i \in In(M) PROVE Minute(i) \in M
  <2>1. PICK m \in M : i \in {2 * m, 2 * m + 1}
    BY <1>2 DEF In
  <2>2. m \in Nat
    BY <2>1
  <2>3. i \div 2 = m
    BY <2>1, <2>2
  <2> QED
    BY <2>3 DEF Minute
<1>3. ASSUME NEW i \in DOMAIN tape, Minute(i) \in M PROVE i \in In(M)
  <2> DEFINE m == Minute(i)
  <2>1. i \in {2 * m, 2 * m + 1}
    BY <1>1 DEF Minute
  <2> QED
    BY <1>3, <2>1 DEF In
<1>4. In(M) \in SUBSET DOMAIN tape
  BY DEF In
<1> QED
  BY <1>1, <1>2, <1>3, <1>4

\* What a trade is made of.
LEMMA TradeFacts ==
  ASSUME tape \in Tapes, NEW i \in DOMAIN tape
  PROVE  tape[i].price \in Int /\ tape[i].size \in Nat /\ tape[i].size > 0
BY WindowAssumption DEF Trade

\* The prices of finitely many trades have a range.
LEMMA PricesBounded ==
  ASSUME tape \in Tapes, NEW T \in SUBSET DOMAIN tape, IsFiniteSet(T), T # {}
  PROVE  LET prices == {tape[i].price : i \in T}
         IN  /\ IsFiniteSet(prices) /\ prices # {} /\ \A p \in prices : p \in Int
             /\ Max(prices) \in prices /\ Max(prices) \in Int
             /\ Min(prices) \in prices /\ Min(prices) \in Int
             /\ \A i \in T : Min(prices) <= tape[i].price /\ tape[i].price <= Max(prices)
<1> DEFINE prices == {tape[i].price : i \in T}
           priced == [i \in T |-> tape[i].price]
<1>1. priced \in Surjection(T, prices)
  BY DEF Surjection
<1>2. IsFiniteSet(prices)
  BY <1>1, FS_Surjection
<1>3. prices # {} /\ \A p \in prices : p \in Int
  BY TradeFacts
<1>4. \A i \in T : tape[i].price \in prices
  OBVIOUS
<1> HIDE DEF prices
<1>5. /\ Max(prices) \in prices /\ Max(prices) \in Int
      /\ Min(prices) \in prices /\ Min(prices) \in Int
      /\ \A p \in prices : Min(prices) <= p /\ p <= Max(prices)
  BY <1>2, <1>3, Extremes
<1> USE DEF prices
<1> QED
  BY <1>2, <1>3, <1>4, <1>5

\* Every minute with a bar was traded in: its prices have a range, which the open and
\* the close lie in.
LEMMA RangeFacts ==
  ASSUME BarsOK, NEW M \in SUBSET bars, M # {}
  PROVE  /\ In(M) # {} /\ IsFiniteSet(In(M)) /\ In(M) \in SUBSET DOMAIN tape
         /\ Low(M) \in Int /\ High(M) \in Int /\ OpenOf(M) \in Int /\ CloseOf(M) \in Int
         /\ \A i \in In(M) : Low(M) <= tape[i].price /\ tape[i].price <= High(M)
         /\ \E i \in In(M) : OpenOf(M) = tape[i].price
         /\ \E i \in In(M) : CloseOf(M) = tape[i].price
         /\ \E i \in In(M) : Low(M) = tape[i].price
         /\ \E i \in In(M) : High(M) = tape[i].price
<1>1. /\ tape \in Tapes /\ QueryEnd \in Nat /\ M \in SUBSET Nat
      /\ \A m \in M : m \in Nat /\ m < QueryEnd
      /\ \A m \in M : \E i \in DOMAIN tape : m = Minute(i)
  BY Constants DEF BarsOK
<1>2. /\ In(M) \in SUBSET DOMAIN tape /\ In(M) \in SUBSET Nat
      /\ \A i \in DOMAIN tape : i \in In(M) <=> Minute(i) \in M
  BY <1>1, InTheMinutes
<1>3. In(M) # {}
  BY <1>1, <1>2
<1>4. \A i \in In(M) : i \in Nat /\ i <= 2 * QueryEnd
  <2> TAKE i \in In(M)
  <2>1. Minute(i) < QueryEnd /\ i \in Nat
    BY <1>1, <1>2
  <2> QED
    BY <1>1, <2>1 DEF Minute
<1>5. 2 * QueryEnd \in Nat
  BY <1>1
<1>6. IsFiniteSet(In(M))
  BY <1>2, <1>4, <1>5, FS_BoundedSetOfNaturals
<1>7. Min(In(M)) \in In(M) /\ Max(In(M)) \in In(M)
  BY <1>2, <1>3, <1>4, <1>5, MinIsLeast, MaxIsGreatest
<1> DEFINE prices == {tape[i].price : i \in In(M)}
<1>8. /\ Max(prices) \in prices /\ Max(prices) \in Int
      /\ Min(prices) \in prices /\ Min(prices) \in Int
      /\ \A i \in In(M) : Min(prices) <= tape[i].price /\ tape[i].price <= Max(prices)
  BY <1>1, <1>2, <1>3, <1>6, PricesBounded
<1>9. Low(M) = Min(prices) /\ High(M) = Max(prices)
  BY DEF Low, High
<1>10. (\E i \in In(M) : Low(M) = tape[i].price) /\ (\E i \in In(M) : High(M) = tape[i].price)
  BY <1>8, <1>9
<1> HIDE DEF prices
<1>11. OpenOf(M) \in Int /\ CloseOf(M) \in Int
  BY <1>1, <1>2, <1>7, TradeFacts DEF OpenOf, CloseOf
<1>12. (\E i \in In(M) : OpenOf(M) = tape[i].price) /\ (\E i \in In(M) : CloseOf(M) = tape[i].price)
  BY <1>7 DEF OpenOf, CloseOf
<1> QED
  BY <1>2, <1>3, <1>6, <1>8, <1>9, <1>10, <1>11, <1>12

-----------------------------------------------------------------------------
(* Volumes and the average price.                                          *)

Sizes == [i \in DOMAIN tape |-> tape[i].size]

\* A sum of sizes is a sum of the function Sizes.
LEMMA SizesSummed ==
  ASSUME NEW T \in SUBSET DOMAIN tape
  PROVE  MapThenSumSet(LAMBDA i : tape[i].size, T) = SumFunctionOnSet(Sizes, T)
<1> DEFINE Sized(it) == it = [s \in SUBSET T |->
             IF s = {} THEN 0 ELSE tape[Some(s)].size + it[s \ {Some(s)}]]
<1>1. MapThenSumSet(LAMBDA i : tape[i].size, T) = (CHOOSE it : Sized(it))[T]
  BY Zenon DEF MapThenSumSet, MapThenFoldSet, Some
<1>2. ASSUME NEW it PROVE Sized(it) <=> Iterates(it, Sizes, T)
  <2>1. ASSUME NEW s \in SUBSET T
        PROVE  (IF s = {} THEN 0 ELSE tape[Some(s)].size + it[s \ {Some(s)}]) =
               (IF s = {} THEN 0 ELSE Sizes[Some(s)] + it[s \ {Some(s)}])
    <3>1. s # {} => Some(s) \in s
      BY DEF Some
    <3>2. s # {} => Sizes[Some(s)] = tape[Some(s)].size
      BY <3>1 DEF Sizes
    <3> QED
      BY <3>2
  <2>2. [s \in SUBSET T |-> IF s = {} THEN 0 ELSE tape[Some(s)].size + it[s \ {Some(s)}]] =
        [s \in SUBSET T |-> IF s = {} THEN 0 ELSE Sizes[Some(s)] + it[s \ {Some(s)}]]
    BY <2>1
  <2> QED
    BY <2>2, Zenon DEF Iterates
<1>3. (CHOOSE it : Sized(it)) = (CHOOSE it : Iterates(it, Sizes, T))
  <2> HIDE DEF Sized
  <2> QED
    BY <1>2
<1> QED
  BY <1>1, <1>3, SumIsIterated

\* The volume of the trades of some minutes is a natural, and that of one minute and
\* the rest adds up.
LEMMA VolumeFacts ==
  ASSUME BarsOK, NEW M \in SUBSET bars
  PROVE  /\ Volume(M) \in Nat
         /\ M = {} => Volume(M) = 0
         /\ \A m \in M : Volume(M) = Volume({m}) + Volume(M \ {m})
<1>1. tape \in Tapes /\ M \in SUBSET Nat
  BY DEF BarsOK
<1>2. ASSUME NEW L \in SUBSET M
      PROVE  /\ In(L) \in SUBSET DOMAIN tape /\ IsFiniteSet(In(L))
             /\ \A i \in DOMAIN tape : i \in In(L) <=> Minute(i) \in L
             /\ Volume(L) = SumFunctionOnSet(Sizes, In(L))
  <2>1. L \in SUBSET Nat /\ L \in SUBSET bars
    BY <1>1
  <2>2. /\ In(L) \in SUBSET DOMAIN tape
        /\ \A i \in DOMAIN tape : i \in In(L) <=> Minute(i) \in L
    BY <1>1, <2>1, InTheMinutes
  <2>3. IsFiniteSet(In(L))
    <3>1. CASE L = {}
      <4>1. In(L) = {}
        BY <2>2, <3>1
      <4> QED
        BY <4>1, FS_EmptySet
    <3>2. CASE L # {}
      BY <2>1, <3>2, RangeFacts
    <3> QED
      BY <3>1, <3>2
  <2> QED
    BY <2>2, <2>3, SizesSummed DEF Volume
<1>3. \A i \in DOMAIN tape : Sizes[i] \in Nat
  BY <1>1, TradeFacts DEF Sizes
<1>4. Volume(M) \in Nat
  <2>1. IsFiniteSet(In(M)) /\ \A i \in In(M) : Sizes[i] \in Nat
    BY <1>2, <1>3
  <2>2. SumFunctionOnSet(Sizes, In(M)) \in Nat
    BY <2>1, SumNatural
  <2> QED
    BY <1>2, <2>2
<1>5. M = {} => Volume(M) = 0
  <2> SUFFICES ASSUME M = {} PROVE Volume(M) = 0
    OBVIOUS
  <2>1. In(M) = {}
    BY <1>2
  <2>2. SumFunctionOnSet(Sizes, {}) = 0
    BY SumStep, FS_EmptySet
  <2> QED
    BY <1>2, <2>1, <2>2
<1>6. ASSUME NEW m \in M PROVE Volume(M) = Volume({m}) + Volume(M \ {m})
  <2> DEFINE A == In({m})
             B == In(M \ {m})
  <2>1. {m} \in SUBSET M /\ M \ {m} \in SUBSET M
    OBVIOUS
  <2>2. /\ A \in SUBSET DOMAIN tape /\ B \in SUBSET DOMAIN tape
        /\ \A i \in DOMAIN tape : i \in A <=> Minute(i) = m
        /\ \A i \in DOMAIN tape : i \in B <=> Minute(i) \in M /\ Minute(i) # m
        /\ Volume({m}) = SumFunctionOnSet(Sizes, A)
        /\ Volume(M \ {m}) = SumFunctionOnSet(Sizes, B)
    BY <1>2, <2>1
  <2>3. /\ In(M) \in SUBSET DOMAIN tape /\ IsFiniteSet(In(M))
        /\ \A i \in DOMAIN tape : i \in In(M) <=> Minute(i) \in M
        /\ Volume(M) = SumFunctionOnSet(Sizes, In(M))
    BY <1>2
  <2> HIDE DEF A, B
  <2>4. B \in SUBSET In(M) /\ A \in SUBSET (In(M) \ B) /\ A \cup B = In(M)
    BY <2>2, <2>3
  <2>5. \A i \in In(M) : Sizes[i] \in Nat
    BY <1>3, <2>3
  <2>6. SumFunctionOnSet(Sizes, A \cup B) =
          SumFunctionOnSet(Sizes, A) + SumFunctionOnSet(Sizes, B)
    BY <2>3, <2>4, <2>5, SumUnion
  <2> QED
    BY <2>2, <2>3, <2>4, <2>6
<1> QED
  BY <1>4, <1>5, <1>6

\* The summands of _vwap, and their sum.
Worth(m) == (High({m}) + Low({m}) + CloseOf({m})) * Volume({m})

Worths == [m \in bars |-> Worth(m)]

LEMMA WorthsSummed ==
  ASSUME NEW M \in SUBSET bars
  PROVE  TypicalValue(M) = SumFunctionOnSet(Worths, M)
<1> DEFINE Valued(it) == it = [s \in SUBSET M |->
             IF s = {} THEN 0 ELSE Worth(Some(s)) + it[s \ {Some(s)}]]
<1>1. TypicalValue(M) = (CHOOSE it : Valued(it))[M]
  BY Zenon DEF TypicalValue, MapThenSumSet, MapThenFoldSet, Some, Worth
<1>2. ASSUME NEW it PROVE Valued(it) <=> Iterates(it, Worths, M)
  <2>1. ASSUME NEW s \in SUBSET M
        PROVE  (IF s = {} THEN 0 ELSE Worth(Some(s)) + it[s \ {Some(s)}]) =
               (IF s = {} THEN 0 ELSE Worths[Some(s)] + it[s \ {Some(s)}])
    <3>1. s # {} => Some(s) \in s
      BY DEF Some
    <3>2. s # {} => Worths[Some(s)] = Worth(Some(s))
      BY <3>1 DEF Worths
    <3> QED
      BY <3>2
  <2>2. [s \in SUBSET M |-> IF s = {} THEN 0 ELSE Worth(Some(s)) + it[s \ {Some(s)}]] =
        [s \in SUBSET M |-> IF s = {} THEN 0 ELSE Worths[Some(s)] + it[s \ {Some(s)}]]
    BY <2>1
  <2> QED
    BY <2>2, Zenon DEF Iterates
<1>3. (CHOOSE it : Valued(it)) = (CHOOSE it : Iterates(it, Worths, M))
  <2> HIDE DEF Valued
  <2> QED
    BY <1>2
<1> QED
  BY <1>1, <1>3, SumIsIterated

\* A price within bounds, by a volume.
LEMMA Scaled ==
  ASSUME NEW x \in Int, NEW y \in Int, NEW v \in Nat, x <= y
  PROVE  x * v <= y * v /\ x * v \in Int /\ y * v \in Int
<1>1. (y - x) * v >= 0
  OBVIOUS
<1>2. (y - x) * v = y * v - x * v
  OBVIOUS
<1> QED
  BY <1>1, <1>2

LEMMA Distributes ==
  ASSUME NEW x \in Int, NEW v \in Nat, NEW w \in Nat
  PROVE  x * (3 * (v + w)) = (3 * x) * v + x * (3 * w) /\ x * (3 * w) \in Int
OBVIOUS

\* The average price of some minutes is within every range that holds their prices.
LEMMA AverageWithin ==
  ASSUME BarsOK, IsFiniteSet(bars), NEW low \in Int, NEW high \in Int,
         NEW S \in SUBSET bars,
         \A m \in S : /\ low <= High({m}) /\ low <= Low({m}) /\ low <= CloseOf({m})
                      /\ High({m}) <= high /\ Low({m}) <= high /\ CloseOf({m}) <= high
  PROVE  /\ TypicalValue(S) \in Int
         /\ low * (3 * Volume(S)) <= TypicalValue(S)
         /\ TypicalValue(S) <= high * (3 * Volume(S))
<1> DEFINE Fine(T) == /\ TypicalValue(T) \in Int
                      /\ low * (3 * Volume(T)) <= TypicalValue(T)
                      /\ TypicalValue(T) <= high * (3 * Volume(T))
           D == {T \in SUBSET S : ~Fine(T)}
<1> SUFFICES ASSUME D # {} PROVE FALSE
  OBVIOUS
<1>1. IsFiniteSet(S)
  BY FS_Subset
<1>2. PICK T \in D : \A U \in D : U \subseteq T => U = T
  <2>1. D \in SUBSET SUBSET S
    OBVIOUS
  <2> HIDE DEF D
  <2> QED
    BY <1>1, <2>1, SmallestSet
<1>3. T \in SUBSET S /\ T \in SUBSET bars /\ IsFiniteSet(T) /\ ~Fine(T)
  BY <1>1, <1>2, FS_Subset
<1>4. T # {}
  <2> SUFFICES ASSUME T = {} PROVE FALSE
    OBVIOUS
  <2>1. Volume(T) = 0
    BY <1>3, VolumeFacts
  <2>2. TypicalValue(T) = 0
    BY <1>3, WorthsSummed, SumStep
  <2> QED
    BY <1>3, <2>1, <2>2
<1> DEFINE c == Some(T)
           R == T \ {c}
<1>5. c \in T
  BY <1>4 DEF Some
<1>6. R \in SUBSET S /\ R \in SUBSET bars /\ R \notin D
  BY <1>2, <1>3, <1>5
<1>7. Fine(R)
  BY <1>6
<1>8. TypicalValue(T) = Worth(c) + TypicalValue(R)
  <2>1. TypicalValue(T) = SumFunctionOnSet(Worths, T) /\ TypicalValue(R) = SumFunctionOnSet(Worths, R)
    BY <1>3, <1>6, WorthsSummed
  <2>2. SumFunctionOnSet(Worths, T) = Worths[c] + SumFunctionOnSet(Worths, R)
    BY <1>3, <1>4, SumStep
  <2>3. Worths[c] = Worth(c)
    BY <1>3, <1>5 DEF Worths
  <2> QED
    BY <2>1, <2>2, <2>3
<1> HIDE DEF c
<1>9. Volume(T) = Volume({c}) + Volume(R) /\ Volume({c}) \in Nat /\ Volume(R) \in Nat
  <2>1. {c} \in SUBSET bars
    BY <1>3, <1>5
  <2> QED
    BY <1>3, <1>5, <1>6, <2>1, VolumeFacts
<1>10. High({c}) \in Int /\ Low({c}) \in Int /\ CloseOf({c}) \in Int
  <2>1. {c} \in SUBSET bars /\ {c} # {}
    BY <1>3, <1>5
  <2> QED
    BY <2>1, RangeFacts
<1> DEFINE prices == High({c}) + Low({c}) + CloseOf({c})
           v == Volume({c})
           w == Volume(R)
<1>11. prices \in Int /\ 3 * low <= prices /\ prices <= 3 * high
  BY <1>3, <1>5, <1>10
<1>12. Worth(c) = prices * v
  BY DEF Worth
<1>13. v \in Nat /\ w \in Nat /\ Volume(T) = v + w
  BY <1>9
<1>14. /\ TypicalValue(R) \in Int /\ low * (3 * w) <= TypicalValue(R)
       /\ TypicalValue(R) <= high * (3 * w)
  BY <1>7
<1> HIDE DEF prices, v, w, Fine, D, R
<1>15. /\ (3 * low) * v <= prices * v /\ prices * v <= (3 * high) * v /\ prices * v \in Int
       /\ (3 * low) * v \in Int /\ (3 * high) * v \in Int
  <2>1. 3 * low \in Int /\ 3 * high \in Int
    OBVIOUS
  <2> QED
    BY <1>11, <1>13, <2>1, Scaled
<1>16. /\ low * (3 * (v + w)) = (3 * low) * v + low * (3 * w) /\ low * (3 * w) \in Int
       /\ high * (3 * (v + w)) = (3 * high) * v + high * (3 * w) /\ high * (3 * w) \in Int
  BY <1>13, Distributes
<1>17. TypicalValue(T) = prices * v + TypicalValue(R)
  BY <1>8, <1>12
<1> DEFINE p == prices * v
           l == (3 * low) * v
           h == (3 * high) * v
           ll == low * (3 * w)
           hh == high * (3 * w)
<1>18. /\ p \in Int /\ l \in Int /\ h \in Int /\ ll \in Int /\ hh \in Int
       /\ l <= p /\ p <= h /\ ll <= TypicalValue(R) /\ TypicalValue(R) <= hh
  BY <1>14, <1>15, <1>16
<1>19. /\ low * (3 * Volume(T)) = l + ll /\ high * (3 * Volume(T)) = h + hh
       /\ TypicalValue(T) = p + TypicalValue(R)
  BY <1>13, <1>16, <1>17
<1> HIDE DEF p, l, h, ll, hh
<1>20. Fine(T)
  BY <1>14, <1>18, <1>19 DEF Fine
<1> QED
  BY <1>3, <1>20

-----------------------------------------------------------------------------
(* Profiles.                                                               *)

\* A function has a least and a greatest value on a finite set.
LEMMA ValuesBounded ==
  ASSUME NEW S, IsFiniteSet(S), S # {}, NEW f, \A x \in S : f[x] \in Int
  PROVE  /\ \E x \in S : \A y \in S : f[x] <= f[y]
         /\ \E x \in S : \A y \in S : f[y] <= f[x]
<1> DEFINE image == {f[x] : x \in S}
           g == [x \in S |-> f[x]]
<1>1. g \in Surjection(S, image)
  BY DEF Surjection
<1>2. IsFiniteSet(image)
  BY <1>1, FS_Surjection
<1>3. image # {} /\ (\A v \in image : v \in Int) /\ \A x \in S : f[x] \in image
  OBVIOUS
<1>4. \A v \in image : \E x \in S : v = f[x]
  OBVIOUS
<1> HIDE DEF image
<1>5. /\ Max(image) \in image /\ \A v \in image : v <= Max(image)
      /\ Min(image) \in image /\ \A v \in image : Min(image) <= v
  BY <1>2, <1>3, Extremes
<1> QED
  BY <1>3, <1>4, <1>5

\* A finite set of prices has an n-th one.
LEMMA NthExists ==
  ASSUME NEW P, IsFiniteSet(P), \A p \in P : p \in Int, NEW n \in 1..Cardinality(P)
  PROVE  \E p \in P : Cardinality({q \in P : q <= p}) = n
<1> DEFINE Has(T, j) == \E p \in T : Cardinality({q \in T : q <= p}) = j
           D == {T \in SUBSET P : \E j \in 1..Cardinality(T) : ~Has(T, j)}
<1>1. D = {}
  <2> SUFFICES ASSUME D # {} PROVE FALSE
    OBVIOUS
  <2>1. PICK T \in D : \A U \in D : U \subseteq T => U = T
    <3>1. D \in SUBSET SUBSET P
      OBVIOUS
    <3> HIDE DEF D
    <3> QED
      BY <3>1, SmallestSet
  <2>2. PICK j \in 1..Cardinality(T) : ~Has(T, j)
    BY <2>1
  <2>3. T \in SUBSET P /\ IsFiniteSet(T) /\ Cardinality(T) \in Nat
    BY <2>1, FS_Subset, FS_CardinalityType
  <2>4. T # {}
    <3>1. T = {} => Cardinality(T) = 0
      BY FS_EmptySet
    <3> QED
      BY <2>2, <3>1
  <2>5. \A p \in T : p \in Int
    BY <2>3
  <2> DEFINE top == Max(T)
  <2>6. top \in T /\ (\A p \in T : p <= top) /\ top \in Int
    BY <2>3, <2>4, <2>5, Extremes
  <2> HIDE DEF top
  <2>7. CASE j = Cardinality(T)
    <3>1. {q \in T : q <= top} = T
      BY <2>6
    <3> QED
      BY <2>2, <2>6, <2>7, <3>1
  <2>8. CASE j # Cardinality(T)
    <3> DEFINE R == T \ {top}
    <3>1. Cardinality(R) = Cardinality(T) - 1
      BY <2>3, <2>6, FS_RemoveElement
    <3>2. j \in 1..Cardinality(R)
      BY <2>2, <2>3, <2>8, <3>1
    <3>3. R \in SUBSET P /\ R \notin D
      BY <2>1, <2>3, <2>6
    <3>4. Has(R, j)
      BY <3>2, <3>3
    <3>5. PICK p \in R : Cardinality({q \in R : q <= p}) = j
      BY <3>4
    <3>6. p \in T /\ ~(top <= p)
      BY <2>5, <2>6, <3>5
    <3>7. {q \in T : q <= p} = {q \in R : q <= p}
      BY <3>6
    <3> QED
      BY <2>2, <3>5, <3>6, <3>7
  <2> QED
    BY <2>7, <2>8
<1>2. ~(P \in D)
  BY <1>1
<1>3. \A j \in 1..Cardinality(P) : Has(P, j)
  BY <1>2
<1> QED
  BY <1>3

Priced == [price: Int, volume: Nat]

\* A function on 1..n is a sequence of n elements.
LEMMA IsASequence ==
  ASSUME NEW S, NEW n \in Nat, NEW f \in [1..n -> S]
  PROVE  f \in Seq(S) /\ Len(f) = n
OBVIOUS

\* A profile of finitely many trades is a sequence of levels at their prices.
LEMMA AggregateFacts ==
  ASSUME tape \in Tapes, NEW within, IsFiniteSet(DOMAIN tape \cap within)
  PROVE  /\ Aggregate(tape, within) \in Seq(Priced)
         /\ \A n \in 1..Len(Aggregate(tape, within)) :
              \E i \in DOMAIN tape \cap within : Aggregate(tape, within)[n].price = tape[i].price
<1> DEFINE dealt == DOMAIN tape \cap within
           prices == {tape[i].price : i \in dealt}
           nth(n) == CHOOSE p \in prices : Cardinality({q \in prices : q <= p}) = n
           volume(n) == MapThenSumSet(LAMBDA i : tape[i].size, {i \in dealt : tape[i].price = nth(n)})
           profile == [n \in 1..Cardinality(prices) |-> [price |-> nth(n), volume |-> volume(n)]]
<1>1. Aggregate(tape, within) = profile
  BY DEF Aggregate
<1>2. [i \in dealt |-> tape[i].price] \in Surjection(dealt, prices)
  BY DEF Surjection
<1>3. IsFiniteSet(prices) /\ Cardinality(prices) \in Nat
  BY <1>2, FS_Surjection, FS_CardinalityType
<1>4. \A p \in prices : p \in Int
  BY TradeFacts
<1>5. ASSUME NEW n \in 1..Cardinality(prices) PROVE nth(n) \in prices
  <2>1. \E p \in prices : Cardinality({q \in prices : q <= p}) = n
    <3> HIDE DEF prices
    <3> QED
      BY <1>3, <1>4, NthExists
  <2> QED
    BY <2>1
<1>6. ASSUME NEW n \in 1..Cardinality(prices) PROVE volume(n) \in Nat
  <2> DEFINE T == {i \in dealt : tape[i].price = nth(n)}
  <2>1. T \in SUBSET dealt /\ T \in SUBSET DOMAIN tape
    OBVIOUS
  <2>2. IsFiniteSet(T)
    BY <2>1, FS_Subset
  <2>3. \A i \in T : Sizes[i] \in Nat
    BY <2>1, TradeFacts DEF Sizes
  <2> HIDE DEF T
  <2>4. SumFunctionOnSet(Sizes, T) \in Nat
    BY <2>2, <2>3, SumNatural
  <2>5. MapThenSumSet(LAMBDA i : tape[i].size, T) = SumFunctionOnSet(Sizes, T)
    BY <2>1, SizesSummed
  <2> QED
    BY <2>4, <2>5 DEF T
<1> HIDE DEF nth, volume
<1>7. \A n \in 1..Cardinality(prices) : profile[n] \in Priced /\ profile[n].price = nth(n)
  BY <1>4, <1>5, <1>6 DEF Priced
<1>8. profile \in [1..Cardinality(prices) -> Priced]
  BY <1>7
<1>9. DOMAIN profile = 1..Cardinality(prices)
  OBVIOUS
<1> HIDE DEF profile
<1>10. profile \in Seq(Priced) /\ Len(profile) = Cardinality(prices)
  BY <1>3, <1>8, <1>9, IsASequence
<1>11. \A n \in 1..Len(profile) : \E i \in dealt : profile[n].price = tape[i].price
  BY <1>5, <1>7, <1>10
<1> QED
  BY <1>1, <1>10, <1>11

\* The table of areas that DeriveProfileLevels builds, up to n steps.
Start(levels) == [low |-> PointOfControl(levels), high |-> PointOfControl(levels)]

Grows(table, levels, n) ==
  table = [k \in 0..n |-> IF k = 0 THEN Start(levels) ELSE Widened(levels, table[k - 1])]

Areas(levels) == CHOOSE table : Grows(table, levels, Len(levels))

LEMMA DerivationUnfolds ==
  ASSUME NEW levels
  PROVE  DeriveProfileLevels(levels) =
           [poc |-> levels[PointOfControl(levels)].price,
            vah |-> levels[Areas(levels)[Len(levels)].high].price,
            val |-> levels[Areas(levels)[Len(levels)].low].price]
BY Zenon DEF DeriveProfileLevels, Areas, Grows, Start

\* There is such a table for every number of steps.
LEMMA AreasExist == ASSUME NEW levels, NEW N \in Nat PROVE \E table : Grows(table, levels, N)
<1> DEFINE D == {n \in Nat : ~\E table : Grows(table, levels, n)}
           start == Start(levels)
<1> SUFFICES ASSUME D # {} PROVE FALSE
  OBVIOUS
<1>1. PICK n \in D : \A m \in D : n <= m
  <2>1. D \in SUBSET Nat
    OBVIOUS
  <2> HIDE DEF D
  <2> QED
    BY <2>1, LeastNumber
<1>2. n \in Nat /\ ~\E table : Grows(table, levels, n)
  BY <1>1
<1> HIDE DEF start
<1>3. n # 0
  <2> DEFINE one == [k \in 0..0 |-> start]
  <2>1. one = [k \in 0..0 |-> IF k = 0 THEN start ELSE Widened(levels, one[k - 1])]
    <3>1. \A k \in 0..0 : k = 0
      OBVIOUS
    <3> QED
      BY <3>1
  <2>2. Grows(one, levels, 0)
    <3> HIDE DEF one
    <3> QED
      BY <2>1 DEF Grows, start
  <2> QED
    BY <1>2, <2>2
<1>4. n - 1 \in Nat /\ n - 1 \notin D
  BY <1>1, <1>2, <1>3
<1>5. PICK shorter : Grows(shorter, levels, n - 1)
  BY <1>4
<1> DEFINE longer == [k \in 0..n |-> IF k = n THEN Widened(levels, shorter[n - 1]) ELSE shorter[k]]
<1> HIDE DEF D
<1>6. ASSUME NEW k \in 0..n
      PROVE  longer[k] = IF k = 0 THEN start ELSE Widened(levels, longer[k - 1])
  <2>1. CASE k = 0
    <3>1. longer[0] = shorter[0]
      BY <1>2, <1>3
    <3>2. shorter[0] = start
      BY <1>4, <1>5 DEF Grows, start
    <3> QED
      BY <2>1, <3>1, <3>2
  <2>2. CASE k # 0
    <3>1. k - 1 \in 0..(n - 1) /\ k - 1 \in 0..n /\ k - 1 # n
      BY <1>2, <2>2
    <3>2. longer[k - 1] = shorter[k - 1]
      BY <3>1
    <3>3. CASE k = n
      BY <2>2, <3>2, <3>3
    <3>4. CASE k # n
      <4>1. k \in 0..(n - 1)
        BY <1>2, <3>4
      <4>2. shorter[k] = Widened(levels, shorter[k - 1])
        BY <1>5, <2>2, <4>1 DEF Grows
      <4>3. longer[k] = shorter[k]
        BY <3>4
      <4> QED
        BY <2>2, <3>2, <4>2, <4>3
    <3> QED
      BY <3>3, <3>4
  <2> QED
    BY <2>1, <2>2
<1>7. longer = [k \in 0..n |-> IF k = 0 THEN start ELSE Widened(levels, longer[k - 1])]
  BY <1>6
<1> HIDE DEF longer
<1>8. Grows(longer, levels, n)
  BY <1>7 DEF Grows, start
<1> QED
  BY <1>2, <1>8

LEMMA AreaSteps ==
  ASSUME NEW levels, Len(levels) \in Nat
  PROVE  /\ Areas(levels)[0] = Start(levels)
         /\ \A k \in 1..Len(levels) : Areas(levels)[k] = Widened(levels, Areas(levels)[k - 1])
<1>1. Grows(Areas(levels), levels, Len(levels))
  BY AreasExist DEF Areas
<1>2. \A k \in 1..Len(levels) : k \in 0..Len(levels) /\ k # 0
  OBVIOUS
<1> QED
  BY <1>1, <1>2 DEF Grows

\* A profile has a heaviest level, and of the heaviest one that is nearest and lowest.
LEMMA PocIsALevel ==
  ASSUME NEW levels \in Seq(Priced), Len(levels) > 0
  PROVE  PointOfControl(levels) \in 1..Len(levels)
<1> DEFINE volumes == [i \in 1..Len(levels) |-> levels[i].volume]
           distances == [i \in 1..Len(levels) |-> FromMidpoint(levels, i)]
           prices == [i \in 1..Len(levels) |-> levels[i].price]
           heaviest == {i \in 1..Len(levels) :
                          \A j \in 1..Len(levels) : levels[j].volume <= levels[i].volume}
           nearest == {i \in heaviest : \A j \in heaviest :
                         FromMidpoint(levels, i) <= FromMidpoint(levels, j)}
           first(i) == \A j \in heaviest :
             \/ FromMidpoint(levels, i) < FromMidpoint(levels, j)
             \/ FromMidpoint(levels, i) = FromMidpoint(levels, j) /\ levels[i].price <= levels[j].price
<1>1. Len(levels) \in Nat /\ IsFiniteSet(1..Len(levels)) /\ 1 \in 1..Len(levels)
  BY FS_Interval
<1>2. \A i \in 1..Len(levels) : levels[i] \in Priced
  OBVIOUS
<1>3. \A i \in 1..Len(levels) : levels[i].price \in Int /\ levels[i].volume \in Int
  BY <1>2 DEF Priced
<1>4. \A i \in 1..Len(levels) : FromMidpoint(levels, i) \in Int
  <2> TAKE i \in 1..Len(levels)
  <2> DEFINE x == 2 * levels[i].price
             y == levels[1].price + levels[Len(levels)].price
  <2>1. x \in Int /\ y \in Int
    BY <1>1, <1>3
  <2>2. FromMidpoint(levels, i) = Distance(x, y)
    BY DEF FromMidpoint
  <2> HIDE DEF x, y
  <2> QED
    BY <2>1, <2>2 DEF Distance
<1>5. heaviest # {} /\ IsFiniteSet(heaviest) /\ heaviest \in SUBSET (1..Len(levels))
  <2>1. \A i \in 1..Len(levels) : volumes[i] \in Int
    BY <1>3
  <2>2. \E i \in 1..Len(levels) : \A j \in 1..Len(levels) : volumes[j] <= volumes[i]
    <3> HIDE DEF volumes
    <3> QED
      BY <1>1, <2>1, ValuesBounded
  <2>3. heaviest # {}
    BY <2>2
  <2>4. heaviest \in SUBSET (1..Len(levels))
    OBVIOUS
  <2> QED
    BY <1>1, <2>3, <2>4, FS_Subset
<1>6. nearest # {} /\ IsFiniteSet(nearest) /\ nearest \in SUBSET heaviest
  <2>1. \A i \in heaviest : distances[i] \in Int /\ distances[i] = FromMidpoint(levels, i)
    BY <1>4, <1>5
  <2>2. \E i \in heaviest : \A j \in heaviest : distances[i] <= distances[j]
    <3> HIDE DEF distances, heaviest
    <3> QED
      BY <1>5, <2>1, ValuesBounded
  <2>3. nearest # {} /\ nearest \in SUBSET heaviest
    BY <2>1, <2>2
  <2> QED
    BY <1>5, <2>3, FS_Subset
<1>7. \E i \in nearest : \A j \in nearest : prices[i] <= prices[j]
  <2>1. \A i \in nearest : prices[i] \in Int
    BY <1>3, <1>5, <1>6
  <2> HIDE DEF prices, nearest
  <2> QED
    BY <1>6, <2>1, ValuesBounded
<1>8. PICK i \in nearest : \A j \in nearest : prices[i] <= prices[j]
  BY <1>7
<1>9. \A j \in nearest : levels[i].price <= levels[j].price
  BY <1>5, <1>6, <1>8
<1>10. i \in heaviest /\ first(i)
  <2>1. ASSUME NEW j \in heaviest
        PROVE  \/ FromMidpoint(levels, i) < FromMidpoint(levels, j)
               \/ FromMidpoint(levels, i) = FromMidpoint(levels, j) /\ levels[i].price <= levels[j].price
    <3>1. FromMidpoint(levels, i) \in Int /\ FromMidpoint(levels, j) \in Int
      BY <1>4, <1>5, <1>6
    <3>2. FromMidpoint(levels, i) <= FromMidpoint(levels, j)
      BY <1>8
    <3>3. CASE FromMidpoint(levels, i) = FromMidpoint(levels, j)
      <4>1. j \in nearest
        BY <1>8, <3>3
      <4> QED
        BY <1>9, <3>3, <4>1
    <3> QED
      BY <3>1, <3>2, <3>3
  <2> QED
    BY <1>6, <1>8, <2>1
<1>11. PointOfControl(levels) = CHOOSE k \in heaviest : first(k)
  BY DEF PointOfControl
<1> HIDE DEF first, heaviest
<1>12. PointOfControl(levels) \in heaviest
  BY <1>10, <1>11
<1> QED
  BY <1>5, <1>12

\* The area widens within the profile: while it has a neighbour on one side only it takes
\* that one, and the whole profile reaches the target.
Within(area, levels) ==
  /\ area = [low |-> area.low, high |-> area.high]
  /\ area.low \in 1..Len(levels) /\ area.high \in 1..Len(levels)

LEMMA WidensWithin ==
  ASSUME NEW levels \in Seq(Priced), NEW area, Within(area, levels)
  PROVE  Within(Widened(levels, area), levels)
<1> DEFINE l == area.low
           h == area.high
<1>1. Len(levels) \in Nat /\ l \in 1..Len(levels) /\ h \in 1..Len(levels)
  BY DEF Within
<1>2. CASE TargetReached(Volumes(levels, l, h), levels)
  BY <1>2 DEF Widened
<1>3. CASE ~TargetReached(Volumes(levels, l, h), levels)
  <2>1. ~(l = 1 /\ h = Len(levels))
    <3> SUFFICES ASSUME l = 1, h = Len(levels) PROVE FALSE
      OBVIOUS
    <3> DEFINE fun == [i \in 1..Len(levels) |-> levels[i].volume]
    <3>1. \A i \in 1..Len(levels) : levels[i] \in Priced
      OBVIOUS
    <3>2. \A i \in 1..Len(levels) : fun[i] \in Nat
      BY <3>1 DEF Priced
    <3>3. IsFiniteSet(1..Len(levels))
      BY <1>1, FS_Interval
    <3>4. Total(levels) = SumFunctionOnSet(fun, 1..Len(levels))
      BY DEF Total, Volumes
    <3> HIDE DEF fun
    <3>5. Total(levels) \in Nat
      BY <3>2, <3>3, <3>4, SumNatural
    <3>6. Volumes(levels, l, h) = Total(levels)
      BY DEF Total
    <3> QED
      BY <1>3, <3>5, <3>6 DEF TargetReached
  <2>2. CASE Upwards(levels, l - 1, h + 1)
    <3>1. h + 1 <= Len(levels)
      BY <2>2 DEF Upwards
    <3>2. Widened(levels, area) = [low |-> l, high |-> h + 1]
      BY <1>3, <2>2 DEF Widened
    <3> QED
      BY <1>1, <3>1, <3>2 DEF Within
  <2>3. CASE ~Upwards(levels, l - 1, h + 1)
    <3>1. l # 1
      <4> SUFFICES ASSUME l = 1 PROVE FALSE
        OBVIOUS
      <4>1. l - 1 < 1
        OBVIOUS
      <4>2. ~(h + 1 <= Len(levels))
        BY <2>3, <4>1 DEF Upwards
      <4> QED
        BY <1>1, <2>1, <4>2
    <3>2. l - 1 \in 1..Len(levels)
      BY <1>1, <3>1
    <3>3. Widened(levels, area) = [low |-> l - 1, high |-> h]
      BY <1>3, <2>3 DEF Widened
    <3> QED
      BY <1>1, <3>2, <3>3 DEF Within
  <2> QED
    BY <2>2, <2>3
<1> QED
  BY <1>2, <1>3

\* The three levels derived from a profile are prices of it.
LEMMA DerivedAreLevels ==
  ASSUME NEW levels \in Seq(Priced), Len(levels) > 0
  PROVE  LET derived == DeriveProfileLevels(levels)
         IN  /\ \E n \in 1..Len(levels) : derived.vah = levels[n].price
             /\ \E n \in 1..Len(levels) : derived.val = levels[n].price
             /\ \E n \in 1..Len(levels) : derived.poc = levels[n].price
<1> DEFINE D == {n \in Nat : n <= Len(levels) /\ ~Within(Areas(levels)[n], levels)}
<1>1. Len(levels) \in Nat
  OBVIOUS
<1>2. PointOfControl(levels) \in 1..Len(levels)
  BY PocIsALevel
<1>3. D = {}
  <2> SUFFICES ASSUME D # {} PROVE FALSE
    OBVIOUS
  <2>1. PICK n \in D : \A m \in D : n <= m
    <3>1. D \in SUBSET Nat
      OBVIOUS
    <3> HIDE DEF D
    <3> QED
      BY <3>1, LeastNumber
  <2>2. n \in Nat /\ n <= Len(levels) /\ ~Within(Areas(levels)[n], levels)
    BY <2>1
  <2>3. n # 0
    <3>1. Areas(levels)[0] = Start(levels)
      BY <1>1, AreaSteps
    <3>2. Within(Start(levels), levels)
      BY <1>2 DEF Start, Within
    <3> QED
      BY <2>2, <3>1, <3>2
  <2>4. n \in 1..Len(levels) /\ n - 1 \in Nat /\ n - 1 <= Len(levels) /\ n - 1 \notin D
    BY <1>1, <2>1, <2>2, <2>3
  <2>5. Within(Areas(levels)[n - 1], levels)
    BY <2>4
  <2>6. Areas(levels)[n] = Widened(levels, Areas(levels)[n - 1])
    BY <1>1, <2>4, AreaSteps
  <2> QED
    BY <2>2, <2>5, <2>6, WidensWithin
<1>4. Within(Areas(levels)[Len(levels)], levels)
  BY <1>1, <1>3
<1> QED
  BY <1>2, <1>4, DerivationUnfolds DEF Within

-----------------------------------------------------------------------------
(* From the bars and trades to the packet.                                 *)

\* The instants whose trades the current profile is made of.
Instants == IF contract = "6E" THEN Observed \cap trades ELSE SessionTrades

FieldsMade(fields) ==
  fields = MarketFields(Profile(Instants), DayProfile(Max(PriorDates)), fields.cumulative_delta)

\* From its source on, a run has sessions and a profile, and its fields are those of
\* the bars and trades it received.
Sourced ==
  /\ step \in {"delta", "compile", "compiled"} => HasSessions /\ Profile(Instants) # <<>>
  /\ step = "delta" => contract = "ES"
  /\ step \in {"delta", "compile"} /\ contract = "ES" => input = ESInput
  /\ step = "compile" /\ contract # "ES" => FieldsMade(input)
  /\ step = "compiled" => FieldsMade(packet.fields)

LEMMA SameVolume ==
  ASSUME UNCHANGED <<tape, contract, bars, trades>>, NEW M
  PROVE  /\ Volume(M)' = Volume(M) /\ TypicalValue(M)' = TypicalValue(M)
         /\ High(M)' = High(M) /\ Low(M)' = Low(M)
         /\ OpenOf(M)' = OpenOf(M) /\ CloseOf(M)' = CloseOf(M)
         /\ SessionRange(M)' = SessionRange(M)
<1>1. Volume(M)' = Volume(M)
  BY SMT DEF Volume, In, MapThenSumSet, MapThenFoldSet
<1>2. TypicalValue(M)' = TypicalValue(M)
  BY SMT DEF TypicalValue, MapThenSumSet, MapThenFoldSet, High, Low, CloseOf, Volume, In
<1>3. /\ High(M)' = High(M) /\ Low(M)' = Low(M) /\ SessionRange(M)' = SessionRange(M)
      /\ OpenOf(M)' = OpenOf(M) /\ CloseOf(M)' = CloseOf(M)
  BY DEF High, Low, SessionRange, OpenOf, CloseOf, In
<1> QED
  BY <1>1, <1>2, <1>3

LEMMA SameSessions ==
  ASSUME UNCHANGED <<tape, contract, bars, trades>>
  PROVE  /\ \A day : Session(day)' = Session(day) /\ MatchedWindow(day)' = MatchedWindow(day)
         /\ Current' = Current /\ PriorDates' = PriorDates /\ LookbackDates' = LookbackDates
         /\ Prior' = Prior /\ Overnight' = Overnight
         /\ HasSessions' <=> HasSessions
<1>1. \A day : Session(day)' = Session(day)
  BY DEF Session, InWindow
<1>2. Current' = Current
  BY <1>1 DEF Current
<1>3. \A day : MatchedWindow(day)' = MatchedWindow(day)
  BY DEF MatchedWindow, Current, Session, InWindow
<1>4. PriorDates' = PriorDates
  BY DEF PriorDates, Session, InWindow
<1>5. LookbackDates' = LookbackDates
  BY <1>4 DEF LookbackDates
<1>6. Prior' = Prior
  BY DEF Prior, PriorDates, Session, InWindow
<1>7. Overnight' = Overnight
  BY <1>2, <1>6 DEF Overnight
<1>8. HasSessions' <=> HasSessions
  BY <1>2, <1>4, <1>7 DEF HasSessions
<1> QED
  BY <1>1, <1>2, <1>3, <1>4, <1>5, <1>6, <1>7, <1>8

LEMMA SameInstants ==
  ASSUME UNCHANGED <<tape, contract, bars, trades>>
  PROVE  /\ Instants' = Instants
         /\ \A I : Profile(I)' = Profile(I)
         /\ \A day : DayProfile(day)' = DayProfile(day)
<1>1. Instants' = Instants
  BY SameSessions DEF Instants, Observed, SessionTrades, Bounds
<1>2. \A I : Profile(I)' = Profile(I)
  BY DEF Profile
<1>3. \A day : DayProfile(day)' = DayProfile(day)
  BY DEF DayProfile, Profile, Bounds
<1> QED
  BY <1>1, <1>2, <1>3

LEMMA SameSums ==
  ASSUME UNCHANGED <<tape, contract, bars, trades>>
  PROVE  RangeSum' = RangeSum /\ MatchedVolume' = MatchedVolume
<1>1. RangeSum' = RangeSum
  BY SameSessions, SMT DEF RangeSum, MapThenSumSet, MapThenFoldSet, SessionRange, High, Low, In,
                           Session, InWindow
<1>2. MatchedVolume' = MatchedVolume
  BY SameSessions, SMT DEF MatchedVolume, MapThenSumSet, MapThenFoldSet, Volume, In, MatchedWindow,
                           Session, InWindow
<1> QED
  BY <1>1, <1>2

LEMMA SameFields ==
  ASSUME UNCHANGED <<tape, contract, bars, trades>>, NEW p, NEW q, NEW s
  PROVE  MarketFields(p, q, s)' = MarketFields(p, q, s)
BY SameVolume, SameSessions, SameSums DEF MarketFields

LEMMA SameInput ==
  ASSUME UNCHANGED <<tape, contract, bars, trades>>
  PROVE  ESInput' = ESInput
<1>1. {m \in bars : Date(m) \in WeekStart..Today /\ m \in Session(Date(m))}' =
      {m \in bars : Date(m) \in WeekStart..Today /\ m \in Session(Date(m))}
  BY DEF Session, InWindow
<1> QED
  BY <1>1, SameVolume, SameSessions DEF ESInput

\* As long as nothing is received, what was made of it stays made of it.
LEMMA SourcedStays ==
  ASSUME Sourced, UNCHANGED <<tape, contract, bars, trades>>
  PROVE  /\ (Profile(Instants) # <<>>)' <=> Profile(Instants) # <<>>
         /\ HasSessions' <=> HasSessions
         /\ ESInput' = ESInput
         /\ \A f : (f = MarketFields(Profile(Instants), DayProfile(Max(PriorDates)), f.cumulative_delta))'
                   <=> FieldsMade(f)
<1>1. Profile(Instants)' = Profile(Instants)
  BY SameInstants
<1>2. DayProfile(Max(PriorDates))' = DayProfile(Max(PriorDates))
  BY SameInstants, SameSessions
<1>3. \A p, q, s : MarketFields(p, q, s)' = MarketFields(p, q, s)
  BY SameFields
<1>4. \A f : (f = MarketFields(Profile(Instants), DayProfile(Max(PriorDates)), f.cumulative_delta))'
             <=> FieldsMade(f)
  BY <1>1, <1>2, <1>3 DEF FieldsMade
<1> QED
  BY <1>1, <1>4, SameSessions, SameInput

LEMMA MadeOfItsDelta ==
  ASSUME NEW p, NEW q, NEW s
  PROVE  MarketFields(p, q, s).cumulative_delta = s
BY DEF MarketFields

\* ES is profiled over the instants of its session.
LEMMA SessionProfile == Profile(SessionTrades) = DayProfile(Today)
<1>1. SessionTrades \cap trades = Bounds(Today) \cap trades
  BY DEF SessionTrades
<1> QED
  BY <1>1 DEF Profile, DayProfile

LEMMA LoadSources == ASSUME BarsOK, Sourced, Load PROVE Sourced'
<1>1. step = "source" /\ UNCHANGED <<tape, contract, bars, trades, packet>>
  BY DEF Load, LoadES, LoadCL, LoadNQ, LoadMGC, LoadSixE, LoadFields, Loaded, Refused
<1>2. /\ (Profile(Instants) # <<>>)' <=> Profile(Instants) # <<>>
      /\ HasSessions' <=> HasSessions
      /\ ESInput' = ESInput
      /\ \A f : (f = MarketFields(Profile(Instants), DayProfile(Max(PriorDates)), f.cumulative_delta))'
                <=> FieldsMade(f)
  BY <1>1, SourcedStays
<1>3. CASE step' = "refused"
  BY <1>3 DEF Sourced
<1>4. CASE LoadES /\ step' # "refused"
  <2>1. contract = "ES" /\ LoadsES /\ input' = ESInput /\ step' = "delta"
    BY <1>4 DEF LoadES, Loaded, Refused
  <2>2. HasSessions /\ Len(DayProfile(Today)) >= 3
    BY <2>1 DEF LoadsES, MarketHasMoved
  <2>3. Profile(Instants) = DayProfile(Today)
    BY <2>1, SessionProfile DEF Instants
  <2>4. Profile(Instants) # <<>>
    BY <2>2, <2>3
  <2> QED
    BY <1>1, <1>2, <2>1, <2>2, <2>4 DEF Sourced
<1>5. ASSUME contract # "ES", LoadFields(Instants), step' # "refused" PROVE Sourced'
  <2>1. LoadsFields(Instants) /\ input' = SourceFields(Instants) /\ step' = "compile"
    BY <1>5 DEF LoadFields, Loaded, Refused
  <2>2. HasSessions /\ Profile(Instants) # <<>>
    BY <2>1 DEF LoadsFields
  <2>3. FieldsMade(input')
    BY <2>1, MadeOfItsDelta DEF FieldsMade, SourceFields
  <2>4. (input = MarketFields(Profile(Instants), DayProfile(Max(PriorDates)), input.cumulative_delta))'
    BY <1>2, <2>3
  <2> QED
    BY <1>1, <1>2, <1>5, <2>1, <2>2, <2>4 DEF Sourced, FieldsMade
<1>6. CASE LoadCL \/ LoadNQ \/ LoadMGC
  <2>1. contract # "ES" /\ LoadFields(Instants)
    BY <1>6 DEF LoadCL, LoadNQ, LoadMGC, Instants
  <2> QED
    BY <1>3, <1>5, <2>1
<1>7. CASE LoadSixE
  <2>1. contract = "6E" /\ Instants = Observed \cap trades
    BY <1>7 DEF LoadSixE, Instants
  <2>2. step' = "refused" \/ LoadFields(Instants)
    BY <1>7, <2>1 DEF LoadSixE, Refused
  <2> QED
    BY <1>3, <1>5, <2>1, <2>2
<1> QED
  BY <1>3, <1>4, <1>6, <1>7 DEF Load

LEMMA CompileSources == ASSUME BarsOK, Sourced, Compile PROVE Sourced'
<1>1. step = "compile" /\ UNCHANGED <<tape, contract, bars, trades, input>>
  BY DEF Compile, CompileES, CompileCL, CompileNQ, CompileMGC, CompileSixE, CompileFields, Refused
<1>2. /\ (Profile(Instants) # <<>>)' <=> Profile(Instants) # <<>>
      /\ HasSessions' <=> HasSessions
      /\ \A f : (f = MarketFields(Profile(Instants), DayProfile(Max(PriorDates)), f.cumulative_delta))'
                <=> FieldsMade(f)
  BY <1>1, SourcedStays
<1>3. HasSessions /\ Profile(Instants) # <<>>
  BY <1>1 DEF Sourced
<1>4. CASE step' = "refused"
  BY <1>4 DEF Sourced
<1>5. ASSUME FieldsMade(packet'.fields), step' = "compiled" PROVE Sourced'
  <2>1. (packet.fields = MarketFields(Profile(Instants), DayProfile(Max(PriorDates)),
                                      packet.fields.cumulative_delta))'
    BY <1>2, <1>5
  <2> QED
    BY <1>1, <1>2, <1>3, <1>5, <2>1 DEF Sourced, FieldsMade
<1>6. CASE CompileES /\ step' # "refused"
  <2>1. /\ contract = "ES" /\ step' = "compiled"
        /\ packet'.fields = MarketFields(DayProfile(Today), DayProfile(Max(PriorDates)), delta)
    BY <1>6 DEF CompileES, Refused
  <2>2. DayProfile(Today) = Profile(Instants)
    BY <2>1, SessionProfile DEF Instants
  <2>3. packet'.fields.cumulative_delta = delta
    BY <2>1, MadeOfItsDelta
  <2>4. FieldsMade(packet'.fields)
    BY <2>1, <2>2, <2>3 DEF FieldsMade
  <2> QED
    BY <1>5, <2>1, <2>4
<1>7. CASE (CompileCL \/ CompileNQ \/ CompileMGC \/ CompileSixE) /\ step' # "refused"
  <2>1. contract # "ES" /\ step' = "compiled" /\ packet'.fields = input
    BY <1>7 DEF CompileCL, CompileNQ, CompileMGC, CompileSixE, CompileFields, Refused
  <2>2. FieldsMade(packet'.fields)
    BY <1>1, <2>1 DEF Sourced
  <2> QED
    BY <1>5, <2>1, <2>2
<1> QED
  BY <1>4, <1>6, <1>7 DEF Compile

LEMMA SourcedInvariant == Spec => []Sourced
<1>1. Init => Sourced
  BY DEF Init, Sourced
<1>2. ASSUME BarsOK, Sourced, [Next]_vars PROVE Sourced'
  <2>1. CASE GetBars \/ GetTrades \/ Again
    BY <2>1 DEF GetBars, GetTrades, Again, Sourced
  <2>2. CASE Load
    BY <1>2, <2>2, LoadSources
  <2>3. CASE Compile
    BY <1>2, <2>3, CompileSources
  <2>4. ASSUME UNCHANGED <<tape, contract, bars, trades, input, packet>>,
               step' = step \/ (step = "delta" /\ contract = "ES" /\ step' \in {"compile", "refused"})
        PROVE  Sourced'
    <3>1. /\ (Profile(Instants) # <<>>)' <=> Profile(Instants) # <<>>
          /\ HasSessions' <=> HasSessions
          /\ ESInput' = ESInput
          /\ \A f : (f = MarketFields(Profile(Instants), DayProfile(Max(PriorDates)), f.cumulative_delta))'
                    <=> FieldsMade(f)
      BY <1>2, <2>4, SourcedStays
    <3>2. FieldsMade(input)' <=> FieldsMade(input)
      BY <2>4, <3>1 DEF FieldsMade
    <3>3. FieldsMade(packet.fields)' <=> FieldsMade(packet.fields)
      BY <2>4, <3>1 DEF FieldsMade
    <3> QED
      BY <1>2, <2>4, <3>1, <3>2, <3>3 DEF Sourced
  <2>5. CASE Tick \/ UNCHANGED vars
    BY <2>4, <2>5 DEF Tick, vars
  <2>6. CASE GetDelta
    <3>1. UNCHANGED <<tape, contract, bars, trades, input, packet>> /\ step = "delta"
          /\ step' \in {"compile", "refused"}
      BY <2>6 DEF GetDelta, Refused
    <3>2. contract = "ES"
      BY <1>2, <3>1 DEF Sourced
    <3> QED
      BY <2>4, <3>1, <3>2
  <2> QED
    BY <1>2, <2>1, <2>2, <2>3, <2>5, <2>6 DEF Next
<1> QED
  BY <1>1, <1>2, BarsInvariant, PTL DEF Spec

\* A minute is the day it is of, by the length of a day, and the minute of that day.
LEMMA Divided ==
  ASSUME NEW m \in Nat, NEW d \in Nat, d > 0
  PROVE  /\ m \div d \in Nat /\ m % d \in Nat /\ m % d < d
         /\ m = (m \div d) * d + (m % d)
OBVIOUS

\* The even number of ticks is within a tick of the average.
LEMMA EvenNearest ==
  ASSUME NEW sum \in Nat, NEW n \in Nat, n > 0, NEW up \in BOOLEAN
  PROVE  LET even == EvenTicks(sum, n, up)
         IN  /\ even \in Nat /\ even * n \in Nat
             /\ even * n <= sum + n /\ sum <= even * n + n
             /\ sum = 0 => even = 0
<1> DEFINE pairs == sum \div (2 * n)
           rest == sum % (2 * n)
           whole == pairs * (2 * n)
<1> DEFINE double == 2 * n
<1>1. /\ pairs \in Nat /\ rest \in Nat /\ rest < 2 * n /\ sum = whole + rest
      /\ whole \in Nat /\ 2 * n \in Nat
  <2>1. double \in Nat /\ double > 0
    OBVIOUS
  <2> HIDE DEF double
  <2>2. /\ sum \div double \in Nat /\ sum % double \in Nat /\ sum % double < double
        /\ sum = (sum \div double) * double + (sum % double)
    BY <2>1, Divided
  <2>3. (sum \div double) * double \in Nat
    BY <2>1, <2>2
  <2>4. /\ pairs = sum \div double /\ rest = sum % double /\ whole = (sum \div double) * double
        /\ 2 * n = double
    BY DEF double
  <2> HIDE DEF pairs, rest, whole
  <2> QED
    BY <2>1, <2>2, <2>3, <2>4
<1>2. whole = (2 * pairs) * n /\ (2 * (pairs + 1)) * n = (2 * pairs) * n + 2 * n
  <2>1. \A q \in Nat : q * (2 * n) = (2 * q) * n /\ (2 * (q + 1)) * n = (2 * q) * n + 2 * n
    OBVIOUS
  <2>2. pairs \in Nat
    BY <1>1
  <2> HIDE DEF pairs
  <2> QED
    BY <2>1, <2>2
<1>3. EvenTicks(sum, n, up) = IF rest > n \/ (rest = n /\ up) THEN 2 * (pairs + 1) ELSE 2 * pairs
  BY <1>1 DEF EvenTicks
<1>4. sum = 0 => pairs = 0 /\ rest = 0
  <2>1. pairs > 0 => whole >= 2 * n
    <3>1. pairs > 0 => 1 * (2 * n) <= pairs * (2 * n)
      BY <1>1, Scaled
    <3> QED
      BY <3>1
  <2> HIDE DEF pairs, rest, whole
  <2> QED
    BY <1>1, <2>1
<1> HIDE DEF pairs, rest, whole
<1>5. CASE rest > n \/ (rest = n /\ up)
  <2>1. EvenTicks(sum, n, up) = 2 * (pairs + 1) /\ 2 * (pairs + 1) \in Nat
    BY <1>1, <1>3, <1>5
  <2>2. (2 * (pairs + 1)) * n = whole + 2 * n
    BY <1>2
  <2> QED
    BY <1>1, <1>4, <1>5, <2>1, <2>2
<1>6. CASE ~(rest > n \/ (rest = n /\ up))
  <2>1. EvenTicks(sum, n, up) = 2 * pairs /\ 2 * pairs \in Nat
    BY <1>1, <1>3, <1>6
  <2>2. (2 * pairs) * n = whole
    BY <1>2
  <2> QED
    BY <1>1, <1>4, <1>6, <2>1, <2>2
<1> QED
  BY <1>5, <1>6

\* An average range is two numbers, and is positive only of sessions that moved.
LEMMA AverageFacts ==
  ASSUME tape \in Tapes, contract \in Contracts, NEW sum \in Nat
  PROVE  \E given \in Nat, n \in Nat :
           /\ AverageRange(tape, contract, sum) = [sum |-> given, sessions |-> n]
           /\ given > 0 => sum > 0
<1>1. Lookback \in Nat /\ Lookback > 0 /\ HalvesUp[tape] \in BOOLEAN
  BY CalendarAssumption, FloatAssumption
<1>2. CASE contract = "6E"
  <2> DEFINE even == EvenTicks(sum, Lookback, HalvesUp[tape])
  <2>1. even \in Nat /\ (sum = 0 => even = 0)
    BY <1>1, EvenNearest
  <2>2. AverageRange(tape, contract, sum) = [sum |-> even, sessions |-> 1]
    BY <1>2 DEF AverageRange
  <2> HIDE DEF even
  <2> QED
    BY <2>1, <2>2
<1>3. CASE contract # "6E"
  BY <1>1, <1>3 DEF AverageRange
<1> QED
  BY <1>2, <1>3

LEMMA DividesOnce ==
  ASSUME NEW q \in Nat, NEW r \in Nat, NEW s \in Nat, NEW t \in Nat, NEW d \in Nat,
         r < d, t < d, q * d + r = s * d + t
  PROVE  q = s /\ r = t
<1>1. ASSUME NEW x \in Nat, NEW y \in Nat, x < y PROVE x * d + d <= y * d /\ x * d \in Nat /\ y * d \in Nat
  <2>1. (x + 1) * d <= y * d /\ (x + 1) * d \in Int /\ y * d \in Int
    BY <1>1, Scaled
  <2>2. (x + 1) * d = x * d + d /\ x * d \in Nat /\ y * d \in Nat
    OBVIOUS
  <2> QED
    BY <2>1, <2>2
<1>2. q * d \in Nat /\ s * d \in Nat
  OBVIOUS
<1>3. ~(q < s)
  <2> SUFFICES ASSUME q < s PROVE FALSE
    OBVIOUS
  <2>1. q * d + d <= s * d
    BY <1>1
  <2> QED
    BY <1>2, <2>1
<1>4. ~(s < q)
  <2> SUFFICES ASSUME s < q PROVE FALSE
    OBVIOUS
  <2>1. s * d + d <= q * d
    BY <1>1
  <2> QED
    BY <1>2, <2>1
<1>5. q = s
  BY <1>3, <1>4
<1> QED
  BY <1>2, <1>5

LEMMA DayAndMinute ==
  ASSUME BarsOK, NEW m \in Nat
  PROVE  /\ Date(m) \in Nat /\ m % DayLength \in Nat /\ m % DayLength < DayLength
         /\ Date(m) * DayLength \in Nat
         /\ m = Date(m) * DayLength + (m % DayLength)
         /\ \A d \in Nat : \A r \in Nat :
              r < DayLength /\ m = d * DayLength + r => Date(m) = d /\ m % DayLength = r
<1>1. DayLength \in Nat /\ DayLength > 0
  BY Constants DEF BarsOK
<1>2. /\ Date(m) \in Nat /\ m % DayLength \in Nat /\ m % DayLength < DayLength
      /\ m = Date(m) * DayLength + (m % DayLength)
  BY <1>1, Divided DEF Date
<1>3. ASSUME NEW d \in Nat, NEW r \in Nat, r < DayLength, m = d * DayLength + r
      PROVE  Date(m) = d /\ m % DayLength = r
  <2>1. Date(m) * DayLength + (m % DayLength) = d * DayLength + r
    BY <1>2, <1>3
  <2> QED
    BY <1>1, <1>2, <1>3, <2>1, DividesOnce
<1> QED
  BY <1>1, <1>2, <1>3

\* The minutes between two of a session's are in its window, and so are those within
\* the bounds of its trades.
LEMMA BetweenIsWithin ==
  ASSUME BarsOK, NEW m \in Nat, NEW day \in Nat, NEW a \in Nat, NEW b \in Nat, b < DayLength,
         day * DayLength + a <= m, m <= day * DayLength + b
  PROVE  Date(m) = day /\ a <= m % DayLength /\ m % DayLength <= b
<1>1. DayLength \in Nat
  BY Constants DEF BarsOK
<1> DEFINE base == day * DayLength
           r == m - base
<1>2. base \in Nat
  BY <1>1
<1> HIDE DEF base
<1>3. r \in Nat /\ a <= r /\ r <= b /\ r < DayLength /\ m = base + r
  BY <1>1, <1>2 DEF base
<1> HIDE DEF r
<1>4. Date(m) = day /\ m % DayLength = r
  BY <1>3, DayAndMinute DEF base
<1> QED
  BY <1>3, <1>4

LEMMA WindowHolds ==
  ASSUME BarsOK, NEW m \in bars
  PROVE  /\ m \in Current <=> /\ Date(m) = Today
                              /\ Window[contract].start <= m % DayLength
                              /\ m % DayLength <= Window[contract].end
         /\ m \in Current <=> /\ At(Today, Window[contract].start) <= m
                              /\ m <= At(Today, Window[contract].end)
<1>1. /\ DayLength \in Nat /\ Today \in Nat
      /\ Window[contract].start \in Nat /\ Window[contract].end \in Nat
      /\ Window[contract].end < DayLength /\ m \in Nat
  BY Constants DEF BarsOK
<1>2. /\ Date(m) \in Nat /\ m % DayLength \in Nat
      /\ Date(m) * DayLength \in Nat
      /\ m = Date(m) * DayLength + (m % DayLength)
  BY <1>1, DayAndMinute
<1>3. m \in Current <=> /\ Date(m) = Today
                        /\ Window[contract].start <= m % DayLength
                        /\ m % DayLength <= Window[contract].end
  BY <1>1, <1>2 DEF Current, Session, InWindow
<1>4. ASSUME m \in Current
      PROVE  At(Today, Window[contract].start) <= m /\ m <= At(Today, Window[contract].end)
  <2> DEFINE base == Today * DayLength
             r == m % DayLength
  <2>1. m = base + r /\ base \in Nat /\ r \in Nat
    BY <1>2, <1>3, <1>4
  <2>2. Window[contract].start <= r /\ r <= Window[contract].end
    BY <1>3, <1>4
  <2>3. /\ At(Today, Window[contract].start) = base + Window[contract].start
        /\ At(Today, Window[contract].end) = base + Window[contract].end
    BY DEF At
  <2> HIDE DEF base, r
  <2> QED
    BY <1>1, <2>1, <2>2, <2>3
<1>5. ASSUME At(Today, Window[contract].start) <= m, m <= At(Today, Window[contract].end)
      PROVE  m \in Current
  <2>1. /\ Today * DayLength + Window[contract].start <= m
        /\ m <= Today * DayLength + Window[contract].end
    BY <1>5 DEF At
  <2>2. /\ Date(m) = Today
        /\ Window[contract].start <= m % DayLength /\ m % DayLength <= Window[contract].end
    BY <1>1, <2>1, BetweenIsWithin
  <2> QED
    BY <1>3, <2>2
<1> QED
  BY <1>3, <1>4, <1>5

\* A trade of the session that is stamped no later than the last bar's minute is one of
\* a minute with a bar.
LEMMA TradesHaveBars ==
  ASSUME BarsOK, Current # {}, NEW i \in DOMAIN tape, i <= 2 * Max(Current) + 1,
         At(Today, Window[contract].start) <= Minute(i), Minute(i) <= At(Today, Window[contract].end)
  PROVE  i \in In(Current)
<1>1. /\ Current \in SUBSET Nat /\ QueryEnd \in Nat /\ tape \in Tapes
      /\ \A m \in Current : m <= QueryEnd /\ m \in bars
  BY SessionFacts DEF Current, BarsOK
<1>2. Max(Current) \in Current /\ Max(Current) \in Nat
  BY <1>1, MaxIsGreatest
<1>3. i \in Nat /\ Minute(i) \in Nat
  BY <1>1, MinutesAreNatural
<1>4. Minute(i) <= Max(Current)
  BY <1>2, <1>3 DEF Minute
<1>5. Minute(i) \in bars
  BY <1>1, <1>2, <1>4 DEF BarsOK
<1>6. Minute(i) \in Current
  BY <1>5, WindowHolds
<1> QED
  BY <1>1, <1>6, InTheMinutes

\* Unless a trade overtook the bars, the profile is of trades in minutes with bars.
LEMMA ProfileInRange ==
  ASSUME BarsOK, HasSessions,
         contract = "6E" \/ ~\E i \in SessionTrades : i > 2 * Max(Current) + 1
  PROVE  \A i \in Instants \cap trades : i \in DOMAIN tape /\ i \in In(Current)
<1>1. /\ Current # {} /\ Current \in SUBSET Nat /\ QueryEnd \in Nat /\ tape \in Tapes
      /\ \A m \in Current : m <= QueryEnd /\ m \in bars /\ m \in Nat
      /\ trades \in SUBSET DOMAIN tape
  BY SessionFacts DEF Current, BarsOK, HasSessions
<1>2. /\ Max(Current) \in Current /\ Max(Current) \in Nat
      /\ Min(Current) \in Current /\ Min(Current) \in Nat
  BY <1>1, MaxIsGreatest, MinIsLeast
<1>3. /\ At(Today, Window[contract].start) <= Min(Current)
      /\ Max(Current) <= At(Today, Window[contract].end)
  BY <1>1, <1>2, WindowHolds
<1>4. /\ At(Today, Window[contract].start) \in Nat /\ At(Today, Window[contract].end) \in Nat
  <2>1. /\ DayLength \in Nat /\ Today \in Nat
        /\ Window[contract].start \in Nat /\ Window[contract].end \in Nat
    BY Constants DEF BarsOK
  <2>2. Today * DayLength \in Nat
    BY <2>1
  <2> QED
    BY <2>1, <2>2 DEF At
<1> SUFFICES ASSUME NEW i \in Instants \cap trades PROVE i \in In(Current)
  BY <1>1
<1>5. i \in trades /\ i \in DOMAIN tape /\ i \in Nat /\ Minute(i) \in Nat
  BY <1>1, MinutesAreNatural
<1>6. CASE contract = "6E"
  <2>1. 2 * Min(Current) <= i /\ i <= 2 * Max(Current)
    BY <1>2, <1>6 DEF Instants, Observed
  <2>2. i <= 2 * Max(Current) + 1 /\ Min(Current) <= Minute(i) /\ Minute(i) <= Max(Current)
    BY <1>2, <1>5, <2>1 DEF Minute
  <2>3. /\ At(Today, Window[contract].start) <= Minute(i)
        /\ Minute(i) <= At(Today, Window[contract].end)
    BY <1>2, <1>3, <1>4, <1>5, <2>2
  <2> QED
    BY <1>1, <1>5, <2>2, <2>3, TradesHaveBars
<1>7. CASE contract # "6E"
  <2>1. i \in SessionTrades /\ i \in Bounds(Today)
    BY <1>7 DEF Instants, SessionTrades
  <2>2. i <= 2 * Max(Current) + 1
    BY <1>2, <1>5, <1>7, <2>1
  <2>3. 2 * At(Today, Window[contract].start) <= i /\ i <= 2 * At(Today, Window[contract].end)
    BY <1>4, <2>1 DEF Bounds
  <2>4. /\ At(Today, Window[contract].start) <= Minute(i)
        /\ Minute(i) <= At(Today, Window[contract].end)
    BY <1>4, <1>5, <2>3 DEF Minute
  <2> QED
    BY <1>1, <1>5, <2>2, <2>4, TradesHaveBars
<1> QED
  BY <1>6, <1>7

\* The trades received are finitely many.
LEMMA TradesFinite == ASSUME BarsOK PROVE IsFiniteSet(trades) /\ IsFiniteSet(bars)
<1>1. QueryEnd \in Nat /\ tape \in Tapes
  BY Constants DEF BarsOK
<1>2. \A i \in trades : i \in Nat /\ i <= 2 * QueryEnd
  <2> TAKE i \in trades
  <2>1. i \in Nat /\ Minute(i) < QueryEnd
    BY <1>1, MinutesAreNatural DEF BarsOK
  <2> QED
    BY <1>1, <2>1 DEF Minute
<1>3. \A m \in bars : m \in Nat /\ m <= QueryEnd
  BY <1>1 DEF BarsOK
<1>4. 2 * QueryEnd \in Nat /\ trades \in SUBSET Nat /\ bars \in SUBSET Nat
  BY <1>1, <1>2, <1>3
<1> QED
  BY <1>1, <1>2, <1>3, <1>4, FS_BoundedSetOfNaturals

\* The average price of the session is within its range.
LEMMA AverageInRange ==
  ASSUME BarsOK, Current # {}
  PROVE  /\ Low(Current) * (3 * Volume(Current)) <= TypicalValue(Current)
         /\ TypicalValue(Current) <= High(Current) * (3 * Volume(Current))
<1>1. Current \in SUBSET bars /\ Current \in SUBSET Nat /\ tape \in Tapes
  BY SessionFacts DEF Current, BarsOK
<1>2. /\ Low(Current) \in Int /\ High(Current) \in Int /\ In(Current) \in SUBSET DOMAIN tape
      /\ \A i \in In(Current) : Low(Current) <= tape[i].price /\ tape[i].price <= High(Current)
  BY <1>1, RangeFacts
<1>3. ASSUME NEW m \in Current
      PROVE  /\ Low(Current) <= High({m}) /\ Low(Current) <= Low({m}) /\ Low(Current) <= CloseOf({m})
             /\ High({m}) <= High(Current) /\ Low({m}) <= High(Current) /\ CloseOf({m}) <= High(Current)
  <2>1. {m} \in SUBSET bars /\ {m} # {} /\ {m} \in SUBSET Nat
    BY <1>1
  <2>2. In({m}) \in SUBSET In(Current)
    BY <1>1, <2>1, InTheMinutes
  <2>3. /\ \E i \in In({m}) : High({m}) = tape[i].price
        /\ \E i \in In({m}) : Low({m}) = tape[i].price
        /\ \E i \in In({m}) : CloseOf({m}) = tape[i].price
    BY <2>1, RangeFacts
  <2> QED
    BY <1>2, <2>2, <2>3
<1> QED
  BY <1>1, <1>2, <1>3, AverageWithin, TradesFinite

LEMMA PacketFits == ASSUME BarsOK, Sourced PROVE PacketCoheres
<1> SUFFICES ASSUME step = "compiled" PROVE PacketCoheres
  BY DEF PacketCoheres
<1> DEFINE fields == packet.fields
           inside(x) == Low(Current) <= x /\ x <= High(Current)
           overtaken == \E i \in SessionTrades : i > 2 * Max(Current) + 1
           profile == Profile(Instants)
<1>1. HasSessions /\ profile # <<>> /\ FieldsMade(fields)
  BY DEF Sourced
<1>2. /\ fields.current_price = CloseOf(Current) /\ fields.session_open = OpenOf(Current)
      /\ fields.vwap = [value |-> TypicalValue(Current), volume |-> 3 * Volume(Current)]
      /\ fields.current_session = DeriveProfileLevels(profile)
  BY <1>1 DEF FieldsMade, MarketFields
<1>3. Current # {} /\ Current \in SUBSET bars /\ tape \in Tapes
  BY <1>1, SessionFacts DEF HasSessions, Current, BarsOK
<1>4. \A i \in In(Current) : inside(tape[i].price)
  BY <1>3, RangeFacts
<1>5. inside(fields.current_price) /\ inside(fields.session_open)
  BY <1>2, <1>3, <1>4, RangeFacts
<1>6. /\ Low(Current) * fields.vwap.volume <= fields.vwap.value
      /\ fields.vwap.value <= High(Current) * fields.vwap.volume
  BY <1>2, <1>3, AverageInRange
<1>7. ASSUME ~(overtaken /\ contract # "6E")
      PROVE  inside(fields.current_session.vah) /\ inside(fields.current_session.val)
  <2> DEFINE within == Instants \cap trades
  <2>1. \A i \in within : i \in DOMAIN tape /\ i \in In(Current)
    BY <1>1, <1>7, ProfileInRange
  <2>2. IsFiniteSet(DOMAIN tape \cap within)
    <3>1. DOMAIN tape \cap within \in SUBSET trades
      OBVIOUS
    <3> QED
      BY <3>1, TradesFinite, FS_Subset
  <2>3. profile = Aggregate(tape, within)
    BY DEF Profile
  <2> HIDE DEF within, profile
  <2>4. /\ profile \in Seq(Priced)
        /\ \A n \in 1..Len(profile) : \E i \in DOMAIN tape \cap within : profile[n].price = tape[i].price
    BY <1>3, <2>2, <2>3, AggregateFacts
  <2>5. Len(profile) > 0
    BY <1>1, <2>4
  <2>6. /\ \E n \in 1..Len(profile) : fields.current_session.vah = profile[n].price
        /\ \E n \in 1..Len(profile) : fields.current_session.val = profile[n].price
    BY <1>2, <2>4, <2>5, DerivedAreLevels
  <2> HIDE DEF inside, fields
  <2> QED
    BY <1>4, <2>1, <2>4, <2>6
<1> QED
  BY <1>5, <1>6, <1>7 DEF PacketCoheres

\* Whatever is traded, and whenever between the requests, a packet's price, open and
\* average price lie in the range of its session's bars; and so do the levels of its
\* profile, unless a trade came in between the bars and the trades.
THEOREM PacketsCohere == Spec => []PacketCoheres
BY PacketFits, BarsInvariant, SourcedInvariant, PTL

-----------------------------------------------------------------------------
(* From one packet of a session to the next.                               *)

\* What there is on a tape, whether received yet or not: the minutes a query can ask
\* for, the sessions in them, and their prices.
Asked(deals, c) ==
  {Minute(i) : i \in {j \in DOMAIN deals : Minute(j) < At(Today, Window[c].end) + 1}}

WholeWindow(deals, c, window, day) ==
  {m \in Asked(deals, c) : Date(m) = day /\ m % DayLength \in window.start..window.end}

WholeSession(deals, c, day) == WholeWindow(deals, c, Window[c], day)

Upto(deals, c, last) == {m \in WholeSession(deals, c, Today) : m <= last}

DealsIn(deals, minutes) == DOMAIN deals \cap UNION {{2 * m, 2 * m + 1} : m \in minutes}

Highest(deals, minutes) == Max({deals[i].price : i \in DealsIn(deals, minutes)})

Lowest(deals, minutes) == Min({deals[i].price : i \in DealsIn(deals, minutes)})

Opened(deals, minutes) == deals[Min(DealsIn(deals, minutes))].price

Closed(deals, minutes) == deals[Max(DealsIn(deals, minutes))].price

Spread(deals, minutes) == [high |-> Highest(deals, minutes), low |-> Lowest(deals, minutes)]

DatesTraded(deals, c) == {day \in 0..(Today - 1) : WholeSession(deals, c, day) # {}}

LastDates(deals, c) ==
  {day \in DatesTraded(deals, c) : Cardinality({d \in DatesTraded(deals, c) : d > day}) < Lookback}

LastSession(deals, c) == WholeSession(deals, c, Max(DatesTraded(deals, c)))

Night(deals, c) ==
  {m \in Asked(deals, c) : /\ Max(LastSession(deals, c)) < m
                           /\ m < Min(WholeSession(deals, c, Today))}

Ranges(deals, c) ==
  [day \in 0..(Today - 1) |-> Highest(deals, WholeSession(deals, c, day))
                              - Lowest(deals, WholeSession(deals, c, day))]

WeekOpens(deals, c) ==
  Min({m \in Asked(deals, c) : Date(m) \in WeekStart..Today /\ m \in WholeSession(deals, c, Date(m))})

DayBounds(c, day) == (2 * At(day, Window[c].start))..(2 * At(day, Window[c].end))

\* A packet with all of its fields as the tape has them, up to its timestamp.
AsTraded(p, deals, c) ==
  LET fields == p.fields
      shown == Upto(deals, c, fields.timestamp)
      last == LastSession(deals, c)
  IN  /\ fields.timestamp \in WholeSession(deals, c, Today)
      /\ fields.session_open = Opened(deals, WholeSession(deals, c, Today))
      /\ fields.prior_day = [high |-> Highest(deals, last), low |-> Lowest(deals, last),
                             close |-> Closed(deals, last)]
      /\ fields.overnight = Spread(deals, Night(deals, c))
      /\ fields.previous_session =
           DeriveProfileLevels(Aggregate(deals, DayBounds(c, Max(DatesTraded(deals, c)))))
      /\ fields.avg_20d_session_range =
           AverageRange(deals, c, SumFunctionOnSet(Ranges(deals, c), LastDates(deals, c)))
      /\ fields.session_range = Highest(deals, shown) - Lowest(deals, shown)
      /\ c = "ES" =>
           /\ p.initial_balance = Spread(deals, InitialBalanceBars(shown))
           /\ p.weekly_open = Opened(deals, {WeekOpens(deals, c)})
      /\ c = "6E" =>
           /\ p.asia_high_low = Spread(deals, WholeWindow(deals, c, Segments.asia, Today))
           /\ p.london_high_low = Spread(deals, WholeWindow(deals, c, Segments.london, Today))
           /\ p.ny_high_low_so_far = Spread(deals, shown)

\* The operators of the model, of the tape that is traded.
LEMMA OfTheTape ==
  ASSUME NEW M
  PROVE  /\ High(M) = Highest(tape, M) /\ Low(M) = Lowest(tape, M)
         /\ OpenOf(M) = Opened(tape, M) /\ CloseOf(M) = Closed(tape, M)
         /\ RangeOf(M) = Spread(tape, M)
<1>1. In(M) = DealsIn(tape, M)
  BY DEF In, DealsIn
<1> QED
  BY <1>1 DEF High, Highest, Low, Lowest, OpenOf, Opened, CloseOf, Closed, RangeOf, Spread

\* The bars are the minutes asked for, up to the last of them.
LEMMA BarsAsked ==
  ASSUME BarsOK
  PROVE  /\ Asked(tape, contract) \in SUBSET Nat
         /\ \A m \in Asked(tape, contract) : m < QueryEnd
         /\ \A m \in bars : m \in Asked(tape, contract)
         /\ \A m \in Asked(tape, contract) : \A b \in bars : m <= b => m \in bars
<1> DEFINE asked == Asked(tape, contract)
<1>1. /\ QueryEnd = At(Today, Window[contract].end) + 1 /\ tape \in Tapes
      /\ \A i \in DOMAIN tape : i \in Nat /\ Minute(i) \in Nat
  BY MinutesAreNatural DEF BarsOK, QueryEnd
<1>2. \A m \in asked : \E i \in DOMAIN tape : m = Minute(i) /\ Minute(i) < QueryEnd
  BY <1>1 DEF Asked
<1>3. \A i \in DOMAIN tape : Minute(i) < QueryEnd => Minute(i) \in asked
  BY <1>1 DEF Asked
<1> HIDE DEF asked
<1>4. \A m \in bars : m \in asked
  BY <1>3 DEF BarsOK
<1>5. \A m \in asked : \A b \in bars : m <= b => m \in bars
  BY <1>2 DEF BarsOK
<1>6. \A m \in asked : m \in Nat /\ m < QueryEnd
  BY <1>1, <1>2
<1> QED
  BY <1>4, <1>5, <1>6 DEF asked

\* While there is a session of today, what was traded before its window is in the bars.
LEMMA EarlierReceived ==
  ASSUME BarsOK, Current # {}, NEW m \in Asked(tape, contract),
         Date(m) < Today \/ (Date(m) = Today /\ m % DayLength < Window[contract].start)
  PROVE  m \in bars /\ \A b \in Current : m < b
<1>1. m \in Nat /\ Asked(tape, contract) \in SUBSET Nat
  BY BarsAsked
<1>2. Current \in SUBSET Nat /\ \A b \in Current : b \in bars
  BY SessionFacts DEF Current
<1>3. ASSUME NEW b \in Current PROVE m < b
  <2>1. /\ DayLength \in Nat /\ DayLength > 0 /\ Today \in Nat /\ Window[contract].start \in Nat
        /\ b \in Nat /\ b \in bars
    BY <1>2, Constants DEF BarsOK
  <2>2. /\ Date(m) \in Nat /\ m % DayLength \in Nat /\ m % DayLength < DayLength
        /\ Date(m) * DayLength \in Nat
        /\ m = Date(m) * DayLength + (m % DayLength)
    BY <1>1, DayAndMinute
  <2>3. At(Today, Window[contract].start) <= b
    BY <2>1, WindowHolds
  <2>4. Today * DayLength + Window[contract].start <= b /\ Today * DayLength \in Nat
    BY <2>1, <2>3 DEF At
  <2> DEFINE base == Today * DayLength
             mine == Date(m) * DayLength
             rest == m % DayLength
  <2>5. CASE Date(m) < Today
    <3>1. (Date(m) + 1) * DayLength <= Today * DayLength
      BY <2>1, <2>2, <2>5, Scaled
    <3>2. mine + DayLength <= base
      BY <2>1, <2>2, <3>1
    <3>3. m = mine + rest /\ mine \in Nat /\ rest \in Nat /\ rest < DayLength
      BY <2>2
    <3>4. base \in Nat /\ base + Window[contract].start <= b
      BY <2>4
    <3> HIDE DEF base, mine, rest
    <3> QED
      BY <2>1, <3>2, <3>3, <3>4
  <2>6. CASE Date(m) = Today /\ m % DayLength < Window[contract].start
    <3>1. m = base + rest /\ rest \in Nat /\ rest < Window[contract].start
      BY <2>2, <2>6
    <3>2. base \in Nat /\ base + Window[contract].start <= b
      BY <2>4
    <3> HIDE DEF base, rest
    <3> QED
      BY <2>1, <3>1, <3>2
  <2> QED
    BY <2>5, <2>6
<1>4. PICK b \in Current : TRUE
  OBVIOUS
<1>5. m \in bars
  BY <1>1, <1>2, <1>3, <1>4, BarsAsked
<1> QED
  BY <1>3, <1>5

\* So the sessions before today's are whole, and today's is whole up to its last bar.
LEMMA SessionsWhole ==
  ASSUME BarsOK, Current # {}
  PROVE  /\ \A day \in 0..(Today - 1) : Session(day) = WholeSession(tape, contract, day)
         /\ Current = Upto(tape, contract, Max(Current))
         /\ Max(Current) \in WholeSession(tape, contract, Today)
         /\ \A m \in WholeSession(tape, contract, Today) : m \in bars <=> m \in Current
<1>1. \A m \in bars : m \in Asked(tape, contract)
  BY BarsAsked
<1>2. Today \in Nat /\ Asked(tape, contract) \in SUBSET Nat
  BY Constants, BarsAsked DEF BarsOK
<1>3. ASSUME NEW day \in 0..(Today - 1) PROVE Session(day) = WholeSession(tape, contract, day)
  <2>1. \A m \in Asked(tape, contract) : Date(m) = day => m \in bars
    BY <1>2, EarlierReceived
  <2> QED
    BY <1>1, <2>1 DEF Session, InWindow, WholeSession, WholeWindow
<1>4. /\ Current \in SUBSET Nat /\ QueryEnd \in Nat
      /\ \A m \in Current : m <= QueryEnd /\ m \in bars
  BY SessionFacts DEF Current
<1>5. /\ Max(Current) \in Current /\ Max(Current) \in Nat
      /\ \A m \in Current : m <= Max(Current)
  BY <1>4, MaxIsGreatest
<1>6. \A m \in bars : m \in Current <=> m \in WholeSession(tape, contract, Today)
  BY <1>1 DEF Current, Session, InWindow, WholeSession, WholeWindow
<1>7. \A m \in WholeSession(tape, contract, Today) : m \in Asked(tape, contract)
  BY DEF WholeSession, WholeWindow
<1>8. \A m \in WholeSession(tape, contract, Today) : m <= Max(Current) => m \in bars
  BY <1>4, <1>5, <1>7, BarsAsked
<1>9. Current = Upto(tape, contract, Max(Current))
  BY <1>4, <1>5, <1>6, <1>8 DEF Upto
<1>10. Max(Current) \in WholeSession(tape, contract, Today)
  BY <1>4, <1>5, <1>6
<1>11. \A m \in WholeSession(tape, contract, Today) : m \in bars <=> m \in Current
  BY <1>4, <1>6
<1> QED
  BY <1>3, <1>9, <1>10, <1>11

\* And so are the dates of the prior sessions.
LEMMA DatesWhole ==
  ASSUME BarsOK, HasSessions
  PROVE  /\ PriorDates = DatesTraded(tape, contract)
         /\ LookbackDates = LastDates(tape, contract)
         /\ Prior = LastSession(tape, contract)
         /\ Max(PriorDates) \in 0..(Today - 1)
<1>1. \A day \in 0..(Today - 1) : Session(day) = WholeSession(tape, contract, day)
  BY SessionsWhole DEF HasSessions
<1>2. PriorDates = DatesTraded(tape, contract)
  BY <1>1 DEF PriorDates, DatesTraded
<1>3. LookbackDates = LastDates(tape, contract)
  BY <1>2 DEF LookbackDates, LastDates
<1>4. Max(PriorDates) \in PriorDates
  BY LookbackFacts
<1>5. Max(PriorDates) \in 0..(Today - 1)
  BY <1>4 DEF PriorDates
<1> QED
  BY <1>1, <1>2, <1>3, <1>5 DEF Prior, LastSession

\* The least of a set is in any part that has all before each of its members.
LEMMA LeastOfPart ==
  ASSUME NEW B \in SUBSET Nat, NEW A \in SUBSET B, A # {},
         \A b \in B : \A a \in A : b <= a => b \in A
  PROVE  Min(A) = Min(B)
<1>1. A \in SUBSET Nat /\ B # {}
  OBVIOUS
<1>2. Min(A) \in A /\ Min(A) \in Nat /\ \A x \in A : Min(A) <= x
  BY <1>1, MinIsLeast
<1>3. Min(A) \in B
  BY <1>2
<1>4. \A y \in B : Min(A) <= y
  BY <1>2
<1>5. \A x \in B : (\A y \in B : x <= y) => x = Min(B)
  BY <1>1, MinIsLeast
<1> QED
  BY <1>3, <1>4, <1>5

LEMMA OpenStands ==
  ASSUME BarsOK, HasSessions
  PROVE  /\ OpenOf(Current) = Opened(tape, WholeSession(tape, contract, Today))
         /\ Min(Current) = Min(WholeSession(tape, contract, Today))
<1> DEFINE whole == WholeSession(tape, contract, Today)
<1>1. /\ Current # {} /\ Current \in SUBSET bars /\ tape \in Tapes /\ bars \in SUBSET Nat
      /\ \A m \in Current : m <= Max(Current)
      /\ Max(Current) \in Current
  <2>1. /\ Current # {} /\ Current \in SUBSET Nat /\ QueryEnd \in Nat
        /\ \A m \in Current : m <= QueryEnd /\ m \in bars
    BY SessionFacts DEF Current, HasSessions
  <2> QED
    BY <2>1, MaxIsGreatest DEF BarsOK
<1>2. whole \in SUBSET Nat /\ \A m \in whole : m \in Asked(tape, contract)
  BY BarsAsked DEF WholeSession, WholeWindow
<1>3. \A m \in whole : m \in bars <=> m \in Current
  BY <1>1, SessionsWhole
<1>4. Current \in SUBSET whole
  BY <1>1, SessionsWhole DEF Upto
<1> HIDE DEF whole
<1>5. \A b \in whole : \A a \in Current : b <= a => b \in Current
  BY <1>1, <1>2, <1>3, BarsAsked
<1>6. Min(Current) = Min(whole)
  BY <1>1, <1>2, <1>4, <1>5, LeastOfPart
<1>7. /\ In(Current) \in SUBSET Nat /\ In(whole) \in SUBSET Nat
      /\ In(Current) # {} /\ In(Current) \in SUBSET In(whole)
  <2>1. /\ In(Current) \in SUBSET Nat /\ In(whole) \in SUBSET Nat
        /\ \A i \in In(Current) : i \in DOMAIN tape /\ Minute(i) \in Current
        /\ \A i \in DOMAIN tape : Minute(i) \in whole => i \in In(whole)
    <3>1. Current \in SUBSET Nat
      BY <1>1
    <3> QED
      BY <1>1, <1>2, <3>1, InTheMinutes
  <2>2. In(Current) # {}
    BY <1>1, RangeFacts
  <2> QED
    BY <1>4, <2>1, <2>2
<1>8. ASSUME NEW y \in In(whole), NEW x \in In(Current), y <= x PROVE y \in In(Current)
  <2>1. Current \in SUBSET Nat
    BY <1>1
  <2>2. y \in DOMAIN tape /\ Minute(y) \in whole /\ x \in DOMAIN tape /\ Minute(x) \in Current
    BY <1>1, <1>2, <2>1, InTheMinutes
  <2>3. y \in Nat /\ x \in Nat /\ Minute(y) <= Minute(x)
    BY <1>1, <1>8, <2>2, MinutesAreNatural DEF Minute
  <2>4. Minute(y) \in Current
    BY <1>5, <2>2, <2>3
  <2> QED
    BY <1>1, <2>1, <2>2, <2>4, InTheMinutes
<1>9. Min(In(Current)) = Min(In(whole))
  BY <1>7, <1>8, LeastOfPart
<1>10. OpenOf(Current) = OpenOf(whole)
  BY <1>9 DEF OpenOf
<1> QED
  BY <1>6, <1>10, OfTheTape DEF whole

LEMMA NightStands ==
  ASSUME BarsOK, HasSessions
  PROVE  Overnight = Night(tape, contract)
<1>1. /\ Current # {} /\ Current \in SUBSET Nat /\ \A m \in Current : m \in bars
  BY SessionFacts DEF Current, HasSessions
<1>2. Min(Current) \in Current /\ Min(Current) \in Nat
  BY <1>1, MinIsLeast
<1>3. \A m \in Asked(tape, contract) : m < Min(Current) => m \in bars
  BY <1>1, <1>2, BarsAsked
<1>4. \A m \in bars : m \in Asked(tape, contract)
  BY BarsAsked
<1>5. Max(Prior) = Max(LastSession(tape, contract))
  BY DatesWhole
<1>6. Min(Current) = Min(WholeSession(tape, contract, Today))
  BY OpenStands
<1> QED
  BY <1>3, <1>4, <1>5, <1>6 DEF Overnight, Night

LEMMA WeekStands ==
  ASSUME BarsOK, HasSessions
  PROVE  OpenOf({ESInput.weekly_open_bar}) = Opened(tape, {WeekOpens(tape, contract)})
<1> DEFINE A == {m \in bars : Date(m) \in WeekStart..Today /\ m \in Session(Date(m))}
           B == {m \in Asked(tape, contract) :
                   Date(m) \in WeekStart..Today /\ m \in WholeSession(tape, contract, Date(m))}
<1>1. \A m \in bars : m \in Asked(tape, contract)
  BY BarsAsked
<1>2. \A m \in bars : m \in Session(Date(m)) <=> m \in WholeSession(tape, contract, Date(m))
  BY <1>1 DEF Session, InWindow, WholeSession, WholeWindow
<1>3. A \in SUBSET B /\ \A m \in B : m \in bars => m \in A
  BY <1>1, <1>2
<1>4. B \in SUBSET Nat
  BY BarsAsked
<1>5. \A b \in B : \A a \in A : b <= a => b \in A
  BY <1>3, BarsAsked
<1>6. A # {}
  <2>1. Current # {} /\ \A m \in Current : m \in bars /\ Date(m) = Today
    BY SessionFacts DEF Current, HasSessions
  <2>2. Today \in WeekStart..Today
    BY Constants DEF BarsOK
  <2>3. \A m \in Current : m \in A
    BY <2>1, <2>2 DEF Current
  <2> QED
    BY <2>1, <2>3
<1>7. ESInput.weekly_open_bar = Min(A) /\ WeekOpens(tape, contract) = Min(B)
  BY DEF ESInput, WeekOpens
<1> HIDE DEF A, B
<1>8. Min(A) = Min(B)
  BY <1>3, <1>4, <1>5, <1>6, LeastOfPart
<1> QED
  BY <1>7, <1>8, OfTheTape

LEMMA SegmentStands ==
  ASSUME BarsOK, Current # {}, contract = "6E", NEW segment \in {"asia", "london"}
  PROVE  InWindow(Segments[segment], Today) = WholeWindow(tape, contract, Segments[segment], Today)
<1>1. /\ Segments[segment].start \in Nat /\ Segments[segment].end \in Nat
      /\ Segments[segment].end < Window[contract].start
  BY SegmentAssumption
<1>2. \A m \in bars : m \in Asked(tape, contract)
  BY BarsAsked
<1>3. \A m \in Asked(tape, contract) : m \in Nat /\ m % DayLength \in Nat
  BY BarsAsked, DayAndMinute
<1>4. Window[contract].start \in Nat
  BY Constants DEF BarsOK
<1>5. ASSUME NEW m \in Asked(tape, contract), Date(m) = Today,
             m % DayLength \in Segments[segment].start..Segments[segment].end
      PROVE  m \in bars
  <2>1. m % DayLength < Window[contract].start
    BY <1>1, <1>3, <1>4, <1>5
  <2> QED
    BY <1>5, <2>1, EarlierReceived
<1> QED
  BY <1>2, <1>5 DEF InWindow, WholeWindow

\* The ranges of the prior sessions are summed as a function of their days.
LEMMA RangesSummed ==
  ASSUME NEW f, NEW D, \A day \in D : f[day] = SessionRange(Session(day))
  PROVE  MapThenSumSet(LAMBDA day : SessionRange(Session(day)), D) = SumFunctionOnSet(f, D)
<1>1. MapThenSumSet(LAMBDA day : SessionRange(Session(day)), D) =
        (CHOOSE it : it = [s \in SUBSET D |->
             IF s = {} THEN 0 ELSE SessionRange(Session(Some(s))) + it[s \ {Some(s)}]])[D]
  BY Zenon DEF MapThenSumSet, MapThenFoldSet, Some
<1>2. \A it : (it = [s \in SUBSET D |->
                 IF s = {} THEN 0 ELSE SessionRange(Session(Some(s))) + it[s \ {Some(s)}]])
              <=> Iterates(it, f, D)
  <2> SUFFICES ASSUME NEW it, NEW s \in SUBSET D
        PROVE (IF s = {} THEN 0 ELSE SessionRange(Session(Some(s))) + it[s \ {Some(s)}]) =
              (IF s = {} THEN 0 ELSE f[Some(s)] + it[s \ {Some(s)}])
    BY Zenon DEF Iterates
  <2>1. CASE s = {}
    BY <2>1
  <2>2. CASE s # {}
    <3>1. Some(s) \in s
      BY <2>2 DEF Some
    <3> QED
      BY <2>2, <3>1
  <2> QED
    BY <2>1, <2>2
<1> QED
  BY <1>1, <1>2, SumIsIterated, Zenon

LEMMA RangesStand ==
  ASSUME BarsOK, HasSessions
  PROVE  /\ RangeSum = SumFunctionOnSet(Ranges(tape, contract), LastDates(tape, contract))
         /\ RangeSum \in Nat
<1> DEFINE ranges == Ranges(tape, contract)
<1>1. \A day \in 0..(Today - 1) : ranges[day] = SessionRange(Session(day))
  BY SessionsWhole, OfTheTape DEF Ranges, SessionRange, HasSessions
<1>2. /\ LookbackDates \in SUBSET PriorDates /\ LookbackDates = LastDates(tape, contract)
      /\ IsFiniteSet(PriorDates)
  BY LookbackFacts, DatesWhole, PriorFacts
<1>3. \A day \in LookbackDates : day \in 0..(Today - 1) /\ Session(day) # {}
  BY <1>2 DEF PriorDates
<1>4. \A day \in LookbackDates : ranges[day] = SessionRange(Session(day))
  BY <1>1, <1>3
<1>5. ASSUME NEW day \in LookbackDates PROVE SessionRange(Session(day)) \in Nat
  <2>1. Session(day) # {} /\ Session(day) \in SUBSET bars
    BY <1>3, SessionFacts
  <2>2. /\ In(Session(day)) # {} /\ Low(Session(day)) \in Int /\ High(Session(day)) \in Int
        /\ \A i \in In(Session(day)) : Low(Session(day)) <= tape[i].price /\ tape[i].price <= High(Session(day))
        /\ \E i \in In(Session(day)) : Low(Session(day)) = tape[i].price
    BY <2>1, RangeFacts
  <2>3. Low(Session(day)) <= High(Session(day))
    BY <2>2
  <2> QED
    BY <2>2, <2>3 DEF SessionRange
<1> HIDE DEF ranges
<1>6. RangeSum = SumFunctionOnSet(ranges, LookbackDates)
  BY <1>4, RangesSummed DEF RangeSum
<1>7. IsFiniteSet(LookbackDates)
  BY <1>2, FS_Subset
<1>8. \A day \in LookbackDates : ranges[day] \in Nat
  BY <1>4, <1>5
<1>9. SumFunctionOnSet(ranges, LookbackDates) \in Nat
  BY <1>7, <1>8, SumNatural
<1> QED
  BY <1>2, <1>6, <1>9 DEF ranges

\* A bar's minute is over when the bar is received, and the trades asked for after the
\* bars have all that the bars have.
Follows ==
  /\ \A m \in bars : 2 * m + 2 <= now
  /\ step \in {"source", "delta", "compile", "compiled"} =>
       \A i \in DOMAIN tape : \A m \in bars : Minute(i) <= m => i \in trades

LEMMA FollowsInvariant == Spec => []Follows
<1>1. Init => Follows
  BY DEF Init, Follows
<1>2. ASSUME BarsOK, Follows, [Next]_vars PROVE Follows'
  <2>1. ASSUME UNCHANGED <<tape, now, bars, trades>>,
               step \in {"source", "delta", "compile", "compiled"} \/ step' = step \/ step' = "refused"
        PROVE  Follows'
    BY <1>2, <2>1 DEF Follows
  <2>2. CASE GetBars
    <3>1. UNCHANGED <<tape, now>> /\ bars' = BarsNow /\ step' = "trades"
      BY <2>2 DEF GetBars
    <3>2. \A m \in BarsNow : 2 * m + 2 <= now
      BY DEF BarsNow
    <3> QED
      BY <3>1, <3>2 DEF Follows
  <2>3. CASE GetTrades
    <3>1. UNCHANGED <<tape, now, bars>> /\ trades' = TradesNow
      BY <2>3 DEF GetTrades
    <3>2. ASSUME NEW i \in DOMAIN tape, NEW m \in bars, Minute(i) <= m PROVE i \in TradesNow
      <4>1. /\ i \in Nat /\ Minute(i) \in Nat /\ m \in Nat /\ m < QueryEnd /\ QueryEnd \in Nat
            /\ 2 * m + 2 <= now /\ now \in Nat
        BY <1>2, MinutesAreNatural, Constants DEF BarsOK, Follows
      <4>2. i <= now /\ Minute(i) < QueryEnd
        BY <3>2, <4>1 DEF Minute
      <4> QED
        BY <4>2 DEF TradesNow
    <3> QED
      BY <1>2, <3>1, <3>2 DEF Follows
  <2>4. CASE Again
    BY <2>4 DEF Again, Follows
  <2>5. CASE Load
    <3>1. UNCHANGED <<tape, now, bars, trades>> /\ step = "source"
      BY <2>5 DEF Load, LoadES, LoadCL, LoadNQ, LoadMGC, LoadSixE, LoadFields, Loaded, Refused
    <3> QED
      BY <2>1, <3>1
  <2>6. CASE Compile
    <3>1. UNCHANGED <<tape, now, bars, trades>> /\ step = "compile"
      BY <2>6 DEF Compile, CompileES, CompileCL, CompileNQ, CompileMGC, CompileSixE,
                  CompileFields, Refused
    <3> QED
      BY <2>1, <3>1
  <2>7. CASE GetDelta
    BY <2>1, <2>7 DEF GetDelta, Refused
  <2>8. CASE Tick
    <3>1. UNCHANGED <<tape, bars, trades, step>> /\ now' = now + 1
      BY <2>8 DEF Tick
    <3>2. \A m \in bars : m \in Nat /\ 2 * m + 2 <= now /\ now \in Nat
      BY <1>2 DEF BarsOK, Follows
    <3>3. \A m \in bars : 2 * m + 2 <= now + 1
      BY <3>2
    <3> QED
      BY <1>2, <3>1, <3>3 DEF Follows
  <2>9. CASE UNCHANGED vars
    BY <2>1, <2>9 DEF vars
  <2> QED
    BY <1>2, <2>2, <2>3, <2>4, <2>5, <2>6, <2>7, <2>8, <2>9 DEF Next
<1> QED
  BY <1>1, <1>2, BarsInvariant, PTL DEF Spec

\* The profile of a prior day is of all its trades.
LEMMA PreviousStands ==
  ASSUME BarsOK, Follows, HasSessions, step \in {"compile", "compiled"}
  PROVE  DayProfile(Max(PriorDates)) =
           Aggregate(tape, DayBounds(contract, Max(DatesTraded(tape, contract))))
<1> DEFINE day == Max(PriorDates)
<1>1. day \in 0..(Today - 1) /\ day = Max(DatesTraded(tape, contract))
  BY DatesWhole
<1>2. /\ Today \in Nat /\ DayLength \in Nat /\ DayLength > 0 /\ tape \in Tapes
      /\ Window[contract].start \in Nat /\ Window[contract].end \in Nat
      /\ Window[contract].end < DayLength
  BY Constants DEF BarsOK
<1>3. /\ Current # {} /\ Current \in SUBSET Nat /\ \A m \in Current : m \in bars
  BY SessionFacts DEF Current, HasSessions
<1>4. PICK b \in Current : b \in bars /\ b \in Nat
  BY <1>3
<1> HIDE DEF day
<1>5. ASSUME NEW i \in DOMAIN tape, i \in Bounds(day) PROVE i \in trades
  <2> DEFINE base == Today * DayLength
             mine == day * DayLength
  <2>1. day \in Nat /\ day + 1 <= Today
    BY <1>1, <1>2
  <2>2. base \in Nat /\ mine \in Nat
    BY <1>2, <2>1
  <2>3. mine + DayLength <= base
    <3>1. (day + 1) * DayLength <= Today * DayLength
      BY <1>2, <2>1, Scaled
    <3> QED
      BY <1>2, <2>1, <3>1
  <2>4. base + Window[contract].start <= b
    <3>1. At(Today, Window[contract].start) <= b
      BY <1>4, WindowHolds
    <3> QED
      BY <3>1 DEF At
  <2>5. i \in Nat /\ i <= 2 * (mine + Window[contract].end)
    BY <1>2, <1>5, MinutesAreNatural DEF Bounds, At
  <2> HIDE DEF base, mine
  <2>6. Minute(i) <= b
    BY <1>2, <1>4, <2>2, <2>3, <2>4, <2>5 DEF Minute
  <2> QED
    BY <1>4, <2>6 DEF Follows
<1>6. DOMAIN tape \cap (Bounds(day) \cap trades) = DOMAIN tape \cap DayBounds(contract, day)
  BY <1>5 DEF Bounds, DayBounds
<1>7. ASSUME NEW A, NEW B, DOMAIN tape \cap A = DOMAIN tape \cap B
      PROVE  Aggregate(tape, A) = Aggregate(tape, B)
  BY <1>7, Zenon DEF Aggregate
<1>8. DayProfile(day) = Aggregate(tape, Bounds(day) \cap trades)
  BY DEF DayProfile, Profile
<1>9. DayProfile(day) = Aggregate(tape, DayBounds(contract, day))
  BY <1>6, <1>7, <1>8
<1> QED
  BY <1>1, <1>9 DEF day

\* What is compiled has its fields as the tape has them.
LEMMA CompiledAsTraded ==
  ASSUME BarsOK, Sourced, Follows, Compile, packet' # packet
  PROVE  /\ HasSessions /\ AsTraded(packet', tape, contract)
         /\ packet'.fields.timestamp = Max(Current) /\ step' = "compiled"
<1> DEFINE fields == packet'.fields
           shown == Upto(tape, contract, fields.timestamp)
           last == LastSession(tape, contract)
<1>1. step = "compile" /\ HasSessions
  BY DEF Compile, CompileES, CompileCL, CompileNQ, CompileMGC, CompileSixE, CompileFields, Refused,
         Sourced
<1>2. step' = "compiled"
  BY DEF Compile, CompileES, CompileCL, CompileNQ, CompileMGC, CompileSixE, CompileFields, Refused
<1>3. \E p, s : fields = MarketFields(p, DayProfile(Max(PriorDates)), s)
  <2>1. CASE contract = "ES"
    BY <2>1 DEF Compile, CompileES, CompileCL, CompileNQ, CompileMGC, CompileSixE, Refused
  <2>2. CASE contract # "ES"
    <3>1. fields = input
      BY <2>2 DEF Compile, CompileES, CompileCL, CompileNQ, CompileMGC, CompileSixE, CompileFields,
                  Refused
    <3>2. FieldsMade(input)
      BY <1>1, <2>2 DEF Sourced
    <3> QED
      BY <3>1, <3>2, Zenon DEF FieldsMade
  <2> QED
    BY <2>1, <2>2
<1>4. /\ fields.timestamp = Max(Current)
      /\ fields.session_open = OpenOf(Current)
      /\ fields.prior_day = [high |-> High(Prior), low |-> Low(Prior), close |-> CloseOf(Prior)]
      /\ fields.overnight = [high |-> High(Overnight), low |-> Low(Overnight)]
      /\ fields.previous_session = DeriveProfileLevels(DayProfile(Max(PriorDates)))
      /\ fields.avg_20d_session_range = AverageRange(tape, contract, RangeSum)
      /\ fields.session_range = SessionRange(Current)
  BY <1>3 DEF MarketFields
<1>5. Current # {}
  BY <1>1 DEF HasSessions
<1>6. shown = Current /\ fields.timestamp \in WholeSession(tape, contract, Today)
  BY <1>4, <1>5, SessionsWhole
<1>7. fields.session_open = Opened(tape, WholeSession(tape, contract, Today))
  BY <1>1, <1>4, OpenStands
<1>8. fields.prior_day = [high |-> Highest(tape, last), low |-> Lowest(tape, last),
                          close |-> Closed(tape, last)]
  BY <1>1, <1>4, DatesWhole, OfTheTape
<1>9. fields.overnight = Spread(tape, Night(tape, contract))
  BY <1>1, <1>4, NightStands, OfTheTape DEF Spread
<1>10. fields.previous_session =
         DeriveProfileLevels(Aggregate(tape, DayBounds(contract, Max(DatesTraded(tape, contract)))))
  BY <1>1, <1>4, PreviousStands
<1>11. fields.avg_20d_session_range =
         AverageRange(tape, contract, SumFunctionOnSet(Ranges(tape, contract), LastDates(tape, contract)))
  BY <1>1, <1>4, RangesStand
<1>12. fields.session_range = Highest(tape, shown) - Lowest(tape, shown)
  BY <1>4, <1>6, OfTheTape DEF SessionRange
<1>13. ASSUME contract = "ES"
       PROVE  /\ packet'.initial_balance = Spread(tape, InitialBalanceBars(shown))
              /\ packet'.weekly_open = Opened(tape, {WeekOpens(tape, contract)})
  <2>1. CompileES /\ input = ESInput
    BY <1>1, <1>13 DEF Compile, CompileCL, CompileNQ, CompileMGC, CompileSixE, Sourced
  <2>2. /\ packet'.initial_balance = InitialBalance(input.current_rth_bars)
        /\ packet'.weekly_open = OpenOf({input.weekly_open_bar})
    BY <2>1 DEF CompileES, Refused
  <2>3. ESInput.current_rth_bars = Current
    BY DEF ESInput
  <2>4. InitialBalance(Current) = Spread(tape, InitialBalanceBars(shown))
    BY <1>6, OfTheTape DEF InitialBalance, Spread
  <2> QED
    BY <1>1, <2>1, <2>2, <2>3, <2>4, WeekStands
<1>14. ASSUME contract = "6E"
       PROVE  /\ packet'.asia_high_low = Spread(tape, WholeWindow(tape, contract, Segments.asia, Today))
              /\ packet'.london_high_low = Spread(tape, WholeWindow(tape, contract, Segments.london, Today))
              /\ packet'.ny_high_low_so_far = Spread(tape, shown)
  <2>1. CompileSixE
    BY <1>14 DEF Compile, CompileES, CompileCL, CompileNQ, CompileMGC
  <2>2. /\ packet'.asia_high_low = RangeOf(InWindow(Segments.asia, Today))
        /\ packet'.london_high_low = RangeOf(InWindow(Segments.london, Today))
        /\ packet'.ny_high_low_so_far = RangeOf(Current)
    BY <2>1 DEF CompileSixE, CompileFields
  <2>3. /\ InWindow(Segments["asia"], Today) = WholeWindow(tape, contract, Segments["asia"], Today)
        /\ InWindow(Segments["london"], Today) = WholeWindow(tape, contract, Segments["london"], Today)
    BY <1>5, <1>14, SegmentStands
  <2> QED
    BY <1>6, <2>2, <2>3, OfTheTape
<1> QED
  BY <1>1, <1>2, <1>4, <1>6, <1>7, <1>8, <1>9, <1>10, <1>11, <1>12, <1>13, <1>14 DEF AsTraded

\* The last packet is of the tape, and its last bar is among the bars of a later run.
Stands ==
  packet # Null =>
    /\ AsTraded(packet, tape, contract)
    /\ 2 * packet.fields.timestamp + 2 <= now
    /\ step # "bars" => packet.fields.timestamp \in bars

LEMMA StandsInvariant == Spec => []Stands
<1>1. Init => Stands
  BY DEF Init, Stands
<1>2. ASSUME BarsOK, Sourced, Follows, Stands, [Next]_vars PROVE Stands'
  <2>1. ASSUME UNCHANGED <<tape, contract, now, packet>>, step' = "bars" \/ UNCHANGED bars,
               step' = "bars" \/ step # "bars" \/ step' = step
        PROVE  Stands'
    BY <1>2, <2>1 DEF Stands
  <2>2. CASE GetBars
    <3>1. UNCHANGED <<tape, contract, now, packet>> /\ bars' = BarsNow
      BY <2>2 DEF GetBars
    <3> SUFFICES ASSUME packet # Null PROVE packet.fields.timestamp \in BarsNow
      BY <1>2, <3>1 DEF Stands
    <3>2. /\ packet.fields.timestamp \in Asked(tape, contract)
          /\ 2 * packet.fields.timestamp + 2 <= now
      BY <1>2 DEF Stands, AsTraded, WholeSession, WholeWindow
    <3> QED
      BY <3>2 DEF Asked, BarsNow, QueryEnd
  <2>3. CASE Again
    BY <2>1, <2>3 DEF Again
  <2>4. CASE GetTrades \/ Load \/ GetDelta
    <3>1. UNCHANGED <<tape, contract, now, bars, packet>> /\ step # "bars"
      BY <2>4 DEF GetTrades, GetDelta, Load, LoadES, LoadCL, LoadNQ, LoadMGC, LoadSixE, LoadFields,
                  Loaded, Refused
    <3> QED
      BY <2>1, <3>1
  <2>5. CASE Compile
    <3>1. UNCHANGED <<tape, contract, now, bars>> /\ step = "compile"
      BY <2>5 DEF Compile, CompileES, CompileCL, CompileNQ, CompileMGC, CompileSixE,
                  CompileFields, Refused
    <3>2. CASE packet' = packet
      BY <2>1, <3>1, <3>2
    <3>3. CASE packet' # packet
      <4>1. /\ HasSessions /\ AsTraded(packet', tape, contract)
            /\ packet'.fields.timestamp = Max(Current)
        BY <1>2, <2>5, <3>3, CompiledAsTraded
      <4>2. Max(Current) \in bars /\ 2 * Max(Current) + 2 <= now
        <5>1. /\ Current # {} /\ Current \in SUBSET Nat /\ QueryEnd \in Nat
              /\ \A m \in Current : m <= QueryEnd /\ m \in bars
          BY <1>2, <4>1, SessionFacts DEF Current, HasSessions
        <5>2. Max(Current) \in Current
          BY <5>1, MaxIsGreatest
        <5> QED
          BY <1>2, <5>1, <5>2 DEF Follows
      <4> QED
        BY <3>1, <4>1, <4>2 DEF Stands
    <3> QED
      BY <3>2, <3>3
  <2>6. CASE Tick
    <3>1. UNCHANGED <<tape, contract, bars, packet, step>> /\ now' = now + 1
      BY <2>6 DEF Tick
    <3>2. packet # Null => packet.fields.timestamp \in Nat
      BY <1>2, BarsAsked DEF Stands, AsTraded, WholeSession, WholeWindow
    <3>3. now \in Nat
      BY <1>2 DEF BarsOK
    <3>4. packet # Null => 2 * packet.fields.timestamp + 2 <= now + 1
      BY <1>2, <3>2, <3>3 DEF Stands
    <3> QED
      BY <1>2, <3>1, <3>4 DEF Stands
  <2>7. CASE UNCHANGED vars
    BY <2>1, <2>7 DEF vars
  <2> QED
    BY <1>2, <2>2, <2>3, <2>4, <2>5, <2>6, <2>7 DEF Next
<1> QED
  BY <1>1, <1>2, BarsInvariant, SourcedInvariant, FollowsInvariant, PTL DEF Spec

\* The range of more minutes is wider.
LEMMA RangeWidens ==
  ASSUME BarsOK, NEW M \in SUBSET bars, NEW L \in SUBSET M, L # {}
  PROVE  /\ Low(M) \in Int /\ High(M) \in Int /\ Low(L) \in Int /\ High(L) \in Int
         /\ Low(M) <= Low(L) /\ High(L) <= High(M)
<1>1. M # {} /\ L \in SUBSET bars /\ M \in SUBSET Nat /\ L \in SUBSET Nat /\ tape \in Tapes
  BY DEF BarsOK
<1>2. \A i \in In(L) : i \in In(M)
  BY <1>1, InTheMinutes
<1>3. /\ Low(L) \in Int /\ High(L) \in Int
      /\ \E i \in In(L) : Low(L) = tape[i].price
      /\ \E i \in In(L) : High(L) = tape[i].price
  BY <1>1, RangeFacts
<1>4. /\ Low(M) \in Int /\ High(M) \in Int
      /\ \A i \in In(M) : Low(M) <= tape[i].price /\ tape[i].price <= High(M)
  BY <1>1, RangeFacts
<1> QED
  BY <1>2, <1>3, <1>4

\* With the same average, a wider range does not read as narrower.
LEMMA ReadsWider ==
  ASSUME NEW old, NEW new, NEW sum \in Int, NEW n \in Nat,
         old.avg_20d_session_range = [sum |-> sum, sessions |-> n],
         new.avg_20d_session_range = [sum |-> sum, sessions |-> n],
         old.session_range \in Int, new.session_range \in Int,
         old.session_range <= new.session_range
  PROVE  Expanded(old) <= Expanded(new)
<1> DEFINE x == old.session_range * n
           y == new.session_range * n
<1>1. x <= y /\ x \in Int /\ y \in Int
  BY Scaled
<1>2. /\ RangeExpansion(old) = IF 5 * x >= 6 * sum THEN "expanded"
                               ELSE IF 5 * x <= 4 * sum THEN "compressed" ELSE "normal"
      /\ RangeExpansion(new) = IF 5 * y >= 6 * sum THEN "expanded"
                               ELSE IF 5 * y <= 4 * sum THEN "compressed" ELSE "normal"
  BY DEF RangeExpansion
<1> HIDE DEF x, y
<1>3. /\ RangeExpansion(old) \in {"compressed", "normal", "expanded"}
      /\ RangeExpansion(new) \in {"compressed", "normal", "expanded"}
      /\ RangeExpansion(old) = "expanded" => RangeExpansion(new) = "expanded"
      /\ RangeExpansion(new) = "compressed" /\ RangeExpansion(old) # "expanded" =>
           RangeExpansion(old) = "compressed"
  BY <1>1, <1>2
<1> DEFINE order == [compressed |-> 0, normal |-> 1, expanded |-> 2]
<1>4. order["compressed"] = 0 /\ order["normal"] = 1 /\ order["expanded"] = 2
  OBVIOUS
<1>5. Expanded(old) = order[RangeExpansion(old)] /\ Expanded(new) = order[RangeExpansion(new)]
  BY DEF Expanded
<1> HIDE DEF order
<1> QED
  BY <1>3, <1>4, <1>5

\* What each compilation leaves standing of the one before.
LEMMA CompiledLater ==
  ASSUME BarsOK, Sourced, Follows, Stands, [Next]_vars,
         step = "compile", packet # Null, packet' # packet
  PROVE  LET old == packet.fields  new == packet'.fields
         IN  /\ new.session_open = old.session_open
             /\ new.prior_day = old.prior_day
             /\ new.overnight = old.overnight
             /\ new.previous_session = old.previous_session
             /\ new.avg_20d_session_range = old.avg_20d_session_range
             /\ old.timestamp <= new.timestamp
             /\ Expanded(old) <= Expanded(new)
             /\ contract = "ES" =>
                  LET before == packet.initial_balance  after == packet'.initial_balance
                  IN  /\ packet'.weekly_open = packet.weekly_open
                      /\ after.low <= before.low /\ before.high <= after.high
                      /\ old.timestamp >= Min(Current) + BalanceMinutes - 1 => after = before
             /\ contract = "6E" =>
                  /\ packet'.asia_high_low = packet.asia_high_low
                  /\ packet'.london_high_low = packet.london_high_low
                  /\ packet'.ny_high_low_so_far.low <= packet.ny_high_low_so_far.low
                  /\ packet.ny_high_low_so_far.high <= packet'.ny_high_low_so_far.high
<1> DEFINE old == packet.fields
           new == packet'.fields
           shown == Upto(tape, contract, old.timestamp)
<1>1. Compile
  BY DEF Next, vars, Tick, GetBars, GetTrades, Load, LoadES, LoadCL, LoadNQ, LoadMGC, LoadSixE,
         LoadFields, Loaded, Refused, GetDelta, Again
<1>2. /\ HasSessions /\ AsTraded(packet', tape, contract)
      /\ new.timestamp = Max(Current)
  BY <1>1, CompiledAsTraded
<1>3. AsTraded(packet, tape, contract) /\ old.timestamp \in bars
  BY DEF Stands
<1>4. /\ new.session_open = old.session_open
      /\ new.prior_day = old.prior_day
      /\ new.overnight = old.overnight
      /\ new.previous_session = old.previous_session
      /\ new.avg_20d_session_range = old.avg_20d_session_range
  BY <1>2, <1>3 DEF AsTraded
<1>5. /\ Current # {} /\ Current \in SUBSET Nat /\ Current \in SUBSET bars
      /\ \A m \in Current : m <= Max(Current)
      /\ Min(Current) \in Current /\ \A m \in Current : Min(Current) <= m
      /\ Current = Upto(tape, contract, Max(Current))
  <2>1. /\ Current # {} /\ Current \in SUBSET Nat /\ QueryEnd \in Nat
        /\ \A m \in Current : m <= QueryEnd /\ m \in bars
    BY <1>2, SessionFacts DEF Current, HasSessions
  <2> QED
    BY <2>1, MinIsLeast, MaxIsGreatest, SessionsWhole
<1>6. old.timestamp \in Current
  BY <1>3, <1>5, SessionsWhole DEF AsTraded
<1>7. old.timestamp <= new.timestamp
  BY <1>2, <1>5, <1>6
<1>8. shown = {m \in Current : m <= old.timestamp}
  <2>1. \A m \in WholeSession(tape, contract, Today) : m \in Nat /\ m \in Asked(tape, contract)
    BY BarsAsked DEF WholeSession, WholeWindow
  <2>2. \A m \in WholeSession(tape, contract, Today) : m <= old.timestamp => m \in Current
    BY <1>3, <1>5, <2>1, BarsAsked, SessionsWhole
  <2>3. \A m \in Current : m \in WholeSession(tape, contract, Today)
    BY <1>5 DEF Upto
  <2> QED
    BY <2>2, <2>3 DEF Upto
<1>9. /\ shown \in SUBSET Current /\ old.timestamp \in shown /\ shown # {}
      /\ shown \in SUBSET Nat /\ shown \in SUBSET bars
      /\ Min(Current) \in shown /\ Min(Current) \in Nat
  <2>1. \A m \in Current : m \in Nat
    BY <1>5
  <2>2. /\ old.timestamp \in Nat /\ Min(Current) \in Nat
        /\ old.timestamp <= old.timestamp /\ Min(Current) <= old.timestamp
    BY <1>5, <1>6, <2>1
  <2>3. \A m \in shown : m \in Current /\ m <= old.timestamp
    BY <1>8
  <2>4. old.timestamp \in shown /\ Min(Current) \in shown
    BY <1>5, <1>6, <1>8, <2>2
  <2> HIDE DEF shown, old
  <2> QED
    BY <1>5, <2>1, <2>2, <2>3, <2>4
<1>10. Upto(tape, contract, new.timestamp) = Current
  BY <1>2, <1>5
<1>11. /\ old.session_range = High(shown) - Low(shown)
       /\ new.session_range = High(Current) - Low(Current)
  BY <1>2, <1>3, <1>10, OfTheTape DEF AsTraded
<1> HIDE DEF shown
<1>12. /\ Low(Current) \in Int /\ High(Current) \in Int /\ Low(shown) \in Int /\ High(shown) \in Int
       /\ Low(Current) <= Low(shown) /\ High(shown) <= High(Current)
  BY <1>5, <1>9, RangeWidens
<1>13. Expanded(old) <= Expanded(new)
  <2>1. old.avg_20d_session_range = AverageRange(tape, contract, RangeSum) /\ RangeSum \in Nat
    BY <1>2, <1>3, RangesStand DEF AsTraded
  <2>2. \E given \in Nat, n \in Nat :
          AverageRange(tape, contract, RangeSum) = [sum |-> given, sessions |-> n]
    BY <2>1, AverageFacts DEF BarsOK
  <2>3. PICK given \in Nat, n \in Nat :
          old.avg_20d_session_range = [sum |-> given, sessions |-> n]
    BY <2>1, <2>2
  <2>4. /\ old.session_range \in Int /\ new.session_range \in Int
        /\ old.session_range <= new.session_range
    BY <1>11, <1>12
  <2> QED
    BY <1>4, <2>3, <2>4, ReadsWider
<1>14. ASSUME contract = "ES"
       PROVE  /\ packet'.weekly_open = packet.weekly_open
              /\ packet'.initial_balance.low <= packet.initial_balance.low
              /\ packet.initial_balance.high <= packet'.initial_balance.high
              /\ old.timestamp >= Min(Current) + BalanceMinutes - 1 =>
                   packet'.initial_balance = packet.initial_balance
  <2> DEFINE early == InitialBalanceBars(shown)
             late == InitialBalanceBars(Current)
  <2>1. packet'.weekly_open = packet.weekly_open
    BY <1>2, <1>3, <1>14 DEF AsTraded
  <2>2. /\ packet.initial_balance = [high |-> High(early), low |-> Low(early)]
        /\ packet'.initial_balance = [high |-> High(late), low |-> Low(late)]
    <3>1. /\ packet.initial_balance = Spread(tape, early)
          /\ packet'.initial_balance = Spread(tape, late)
      BY <1>2, <1>3, <1>10, <1>14 DEF AsTraded, shown
    <3> QED
      BY <3>1, OfTheTape DEF Spread
  <2>3. BalanceMinutes \in Nat /\ BalanceMinutes > 0
    BY CalendarAssumption
  <2>4. Min(shown) = Min(Current)
    BY <1>5, <1>9, MinIsLeast
  <2>5. /\ early = {m \in shown : m < Min(Current) + BalanceMinutes}
        /\ late = {m \in Current : m < Min(Current) + BalanceMinutes}
    BY <2>4 DEF InitialBalanceBars
  <2> HIDE DEF early, late
  <2>6. /\ early \in SUBSET late /\ late \in SUBSET bars
        /\ Min(Current) \in Nat /\ Min(Current) \in early
    <3>1. \A m \in early : m \in shown /\ m < Min(Current) + BalanceMinutes
      BY <2>5
    <3>2. \A m \in late : m \in bars
      BY <1>5, <2>5
    <3>3. \A m \in early : m \in late
      BY <1>9, <2>5, <3>1
    <3>4. Min(Current) < Min(Current) + BalanceMinutes
      BY <1>9, <2>3
    <3>5. Min(Current) \in early
      BY <1>9, <2>5, <3>4
    <3> QED
      BY <1>9, <3>2, <3>3, <3>5
  <2>7. Low(late) <= Low(early) /\ High(early) <= High(late)
    BY <2>6, RangeWidens
  <2>8. ASSUME old.timestamp >= Min(Current) + BalanceMinutes - 1 PROVE early = late
    <3>1. \A m \in Current : m \in Nat
      BY <1>5
    <3>2. \A m \in Current : m < Min(Current) + BalanceMinutes => m <= old.timestamp
      <4> TAKE m \in Current
      <4> DEFINE first == Min(Current)  last == old.timestamp
      <4>1. m \in Nat /\ first \in Nat /\ last \in Nat
        BY <1>6, <1>9, <3>1
      <4>2. last >= first + BalanceMinutes - 1
        BY <2>8
      <4> HIDE DEF first, last
      <4>3. m < first + BalanceMinutes => m <= last
        BY <2>3, <4>1, <4>2
      <4> QED
        BY <4>3 DEF first, last
    <3>3. \A m : m \in early <=> m \in late
      BY <1>8, <2>5, <3>2
    <3> QED
      BY <2>5, <3>3
  <2> QED
    BY <2>1, <2>2, <2>7, <2>8
<1>15. ASSUME contract = "6E"
       PROVE  /\ packet'.asia_high_low = packet.asia_high_low
              /\ packet'.london_high_low = packet.london_high_low
              /\ packet'.ny_high_low_so_far.low <= packet.ny_high_low_so_far.low
              /\ packet.ny_high_low_so_far.high <= packet'.ny_high_low_so_far.high
  <2>1. /\ packet'.asia_high_low = packet.asia_high_low
        /\ packet'.london_high_low = packet.london_high_low
        /\ packet.ny_high_low_so_far = Spread(tape, shown)
        /\ packet'.ny_high_low_so_far = Spread(tape, Current)
    BY <1>2, <1>3, <1>10, <1>15 DEF AsTraded, shown
  <2>2. /\ packet.ny_high_low_so_far = [high |-> High(shown), low |-> Low(shown)]
        /\ packet'.ny_high_low_so_far = [high |-> High(Current), low |-> Low(Current)]
    BY <2>1, OfTheTape DEF Spread
  <2> QED
    BY <1>12, <2>1, <2>2
<1> QED
  BY <1>4, <1>7, <1>13, <1>14, <1>15

\* Whatever the market trades, a later packet of a session says the same as an earlier
\* one of all that was over, and its ranges are no narrower.
THEOREM EarlierStand == Spec => EarlierPacketsStand
<1>1. BarsOK /\ Sourced /\ Follows /\ Stands /\ [Next]_vars =>
        [step = "compile" /\ packet # Null =>
           LET old == packet.fields  new == packet'.fields
           IN  /\ new.session_open = old.session_open
               /\ new.prior_day = old.prior_day
               /\ new.overnight = old.overnight
               /\ new.previous_session = old.previous_session
               /\ new.avg_20d_session_range = old.avg_20d_session_range
               /\ old.timestamp <= new.timestamp
               /\ Expanded(old) <= Expanded(new)
               /\ contract = "ES" =>
                    LET before == packet.initial_balance  after == packet'.initial_balance
                    IN  /\ packet'.weekly_open = packet.weekly_open
                        /\ after.low <= before.low /\ before.high <= after.high
                        /\ old.timestamp >= Min(Current) + BalanceMinutes - 1 => after = before
               /\ contract = "6E" =>
                    /\ packet'.asia_high_low = packet.asia_high_low
                    /\ packet'.london_high_low = packet.london_high_low
                    /\ packet'.ny_high_low_so_far.low <= packet.ny_high_low_so_far.low
                    /\ packet.ny_high_low_so_far.high <= packet'.ny_high_low_so_far.high]_packet
  BY CompiledLater
<1> QED
  BY <1>1, BarsInvariant, SourcedInvariant, FollowsInvariant, StandsInvariant, PTL
     DEF EarlierPacketsStand, Spec


-----------------------------------------------------------------------------
(* The sign of the delta.                                                  *)

\* A sum of integers is one, and has their sign when they all have the same.
LEMMA SumSigned ==
  ASSUME NEW fun, NEW S, IsFiniteSet(S), S # {}, \A x \in S : fun[x] \in Int
  PROVE  /\ SumFunctionOnSet(fun, S) \in Int
         /\ (\A x \in S : fun[x] > 0) => SumFunctionOnSet(fun, S) > 0
         /\ (\A x \in S : fun[x] < 0) => SumFunctionOnSet(fun, S) < 0
<1> DEFINE Sum(T) == SumFunctionOnSet(fun, T)
           Fine(T) == /\ Sum(T) \in Int
                      /\ T # {} /\ (\A x \in S : fun[x] > 0) => Sum(T) > 0
                      /\ T # {} /\ (\A x \in S : fun[x] < 0) => Sum(T) < 0
           D == {T \in SUBSET S : ~Fine(T)}
<1>1. ASSUME D # {} PROVE FALSE
  <2>1. D \in SUBSET SUBSET S
    OBVIOUS
  <2>2. PICK T \in D : \A U \in D : U \subseteq T => U = T
    <3> HIDE DEF D
    <3> QED
      BY <1>1, <2>1, SmallestSet
  <2>3. T \in SUBSET S /\ IsFiniteSet(T) /\ ~Fine(T)
    BY <2>2, FS_Subset
  <2>4. Sum({}) = 0
    BY FS_EmptySet, SumStep
  <2>5. T # {}
    BY <2>3, <2>4
  <2> DEFINE x == Some(T)
             R == T \ {x}
  <2>6. x \in T /\ x \in S /\ fun[x] \in Int
    BY <2>3, <2>5 DEF Some
  <2>7. R \in SUBSET S /\ R # T /\ R \subseteq T
    BY <2>3, <2>6
  <2>8. R \notin D
    BY <2>2, <2>7
  <2>9. Fine(R)
    BY <2>7, <2>8
  <2>10. Sum(T) = fun[x] + Sum(R)
    BY <2>3, <2>5, SumStep
  <2> HIDE DEF x, R
  <2>11. Sum(T) \in Int
    BY <2>6, <2>9, <2>10
  <2>12. ASSUME \A y \in S : fun[y] > 0 PROVE Sum(T) > 0
    <3>1. Sum(R) \in Int /\ (R = {} => Sum(R) = 0) /\ (R # {} => Sum(R) > 0) /\ fun[x] > 0
      BY <2>4, <2>6, <2>9, <2>12
    <3> QED
      BY <2>6, <2>10, <3>1
  <2>13. ASSUME \A y \in S : fun[y] < 0 PROVE Sum(T) < 0
    <3>1. Sum(R) \in Int /\ (R = {} => Sum(R) = 0) /\ (R # {} => Sum(R) < 0) /\ fun[x] < 0
      BY <2>4, <2>6, <2>9, <2>13
    <3> QED
      BY <2>6, <2>10, <3>1
  <2> QED
    BY <2>3, <2>11, <2>12, <2>13
<1>2. Fine(S)
  BY <1>1
<1> QED
  BY <1>2

\* What each trade adds to the delta.
Signs == [i \in DOMAIN tape |-> IF tape[i].side = "B" THEN tape[i].size ELSE -tape[i].size]

LEMMA SignsSummed ==
  ASSUME NEW T \in SUBSET DOMAIN tape
  PROVE  SignedDelta(T) = SumFunctionOnSet(Signs, T)
<1> DEFINE sign(i) == IF tape[i].side = "B" THEN tape[i].size ELSE -tape[i].size
           Signed(it) == it = [s \in SUBSET T |->
             IF s = {} THEN 0 ELSE sign(Some(s)) + it[s \ {Some(s)}]]
<1>1. SignedDelta(T) = (CHOOSE it : Signed(it))[T]
  BY Zenon DEF SignedDelta, MapThenSumSet, MapThenFoldSet, Some
<1>2. ASSUME NEW it PROVE Signed(it) <=> Iterates(it, Signs, T)
  <2>1. ASSUME NEW s \in SUBSET T
        PROVE  (IF s = {} THEN 0 ELSE sign(Some(s)) + it[s \ {Some(s)}]) =
               (IF s = {} THEN 0 ELSE Signs[Some(s)] + it[s \ {Some(s)}])
    <3>1. s # {} => Some(s) \in s
      BY DEF Some
    <3>2. s # {} => Signs[Some(s)] = sign(Some(s))
      BY <3>1 DEF Signs
    <3> HIDE DEF sign
    <3> QED
      BY <3>2
  <2> HIDE DEF sign
  <2>2. [s \in SUBSET T |-> IF s = {} THEN 0 ELSE sign(Some(s)) + it[s \ {Some(s)}]] =
        [s \in SUBSET T |-> IF s = {} THEN 0 ELSE Signs[Some(s)] + it[s \ {Some(s)}]]
    BY <2>1
  <2> QED
    BY <2>2, Zenon DEF Iterates
<1>3. (CHOOSE it : Signed(it)) = (CHOOSE it : Iterates(it, Signs, T))
  <2> HIDE DEF Signed
  <2> QED
    BY <1>2
<1> QED
  BY <1>1, <1>3, SumIsIterated

\* A delta that fits the sides of what the session has traded.
FitsSides(d) == d \in Int /\ (Traded("B") => d > 0) /\ (Traded("A") => d < 0)

\* So does the delta of any of its trades.
LEMMA DeltaFits ==
  ASSUME BarsOK, NEW T \in SUBSET DOMAIN tape, T # {}, IsFiniteSet(T),
         \A i \in T : i \in Bounds(Today) /\ i <= now
  PROVE  FitsSides(SignedDelta(T))
<1>1. ASSUME NEW i \in T
      PROVE  /\ Signs[i] \in Int
             /\ tape[i].side = "B" => Signs[i] > 0
             /\ tape[i].side = "A" => Signs[i] < 0
  <2>1. tape[i].size \in Nat /\ tape[i].size > 0
    BY TradeFacts DEF BarsOK
  <2> QED
    BY <2>1 DEF Signs
<1>2. Traded("B") => \A i \in T : Signs[i] > 0
  BY <1>1 DEF Traded
<1>3. Traded("A") => \A i \in T : Signs[i] < 0
  BY <1>1 DEF Traded
<1> QED
  BY <1>1, <1>2, <1>3, SumSigned, SignsSummed DEF FitsSides

\* The delta of a run and of its packet fit the sides that were traded, and the trades
\* received were traded.
Signed ==
  /\ \A i \in trades : i <= now
  /\ step = "compile" /\ contract = "ES" => FitsSides(delta)
  /\ step = "compile" /\ contract # "ES" => FitsSides(input.cumulative_delta)
  /\ step = "compiled" => FitsSides(packet.fields.cumulative_delta)

\* What 6E observes is in its session.
LEMMA ObservedInBounds ==
  ASSUME BarsOK, Current # {}, NEW i \in Observed \cap trades
  PROVE  i \in Bounds(Today)
<1>1. /\ Current \in SUBSET Nat /\ QueryEnd \in Nat
      /\ \A m \in Current : m <= QueryEnd /\ m \in bars
  BY SessionFacts DEF Current
<1>2. /\ Max(Current) \in Current /\ Max(Current) \in Nat
      /\ Min(Current) \in Current /\ Min(Current) \in Nat
  BY <1>1, MaxIsGreatest, MinIsLeast
<1>3. /\ At(Today, Window[contract].start) <= Min(Current)
      /\ Max(Current) <= At(Today, Window[contract].end)
  BY <1>1, <1>2, WindowHolds
<1>4. At(Today, Window[contract].start) \in Nat /\ At(Today, Window[contract].end) \in Nat
  <2>1. /\ DayLength \in Nat /\ Today \in Nat
        /\ Window[contract].start \in Nat /\ Window[contract].end \in Nat
    BY Constants DEF BarsOK
  <2>2. Today * DayLength \in Nat
    BY <2>1
  <2> QED
    BY <2>1, <2>2 DEF At
<1>5. i \in Int /\ 2 * Min(Current) <= i /\ i <= 2 * Max(Current)
  BY <1>2 DEF Observed
<1>6. /\ 2 * At(Today, Window[contract].start) <= i
      /\ i <= 2 * At(Today, Window[contract].end)
  BY <1>2, <1>3, <1>4, <1>5
<1> QED
  BY <1>4, <1>5, <1>6 DEF Bounds

LEMMA SignedInvariant == Spec => []Signed
<1>1. Init => Signed
  BY DEF Init, Signed
<1>2. ASSUME BarsOK, Sourced, Signed, [Next]_vars PROVE Signed'
  <2>1. ASSUME UNCHANGED <<tape, contract, now, trades>>,
               step' \in {"bars", "trades", "source", "delta", "refused"}
        PROVE  Signed'
    BY <1>2, <2>1 DEF Signed
  <2>2. CASE GetBars \/ LoadES \/ (GetDelta /\ step' = "refused") \/ (Compile /\ step' = "refused")
    BY <2>1, <2>2 DEF GetBars, LoadES, Loaded, Refused, GetDelta, Compile, CompileES, CompileCL,
                      CompileNQ, CompileMGC, CompileSixE, CompileFields
  <2>3. CASE GetTrades
    <3>1. UNCHANGED <<tape, contract, now>> /\ trades' = TradesNow /\ step' = "source"
      BY <2>3 DEF GetTrades
    <3>2. \A i \in TradesNow : i <= now
      BY DEF TradesNow
    <3> QED
      BY <3>1, <3>2 DEF Signed
  <2>4. CASE Again
    BY <2>4 DEF Again, Signed
  <2>5. ASSUME contract # "ES", LoadFields(Instants), step = "source" PROVE Signed'
    <3>1. CASE step' = "refused"
      BY <2>1, <2>5, <3>1 DEF LoadFields, Loaded, Refused
    <3>2. CASE step' # "refused"
      <4>1. /\ LoadsFields(Instants) /\ input' = SourceFields(Instants) /\ step' = "compile"
            /\ UNCHANGED <<tape, contract, now, trades>>
        BY <2>5, <3>2 DEF LoadFields, Loaded, Refused
      <4>2. Instants # {} /\ HasSessions
        BY <4>1 DEF LoadsFields, Sided
      <4>3. input'.cumulative_delta = SignedDelta(Instants)
        BY <4>1, MadeOfItsDelta DEF SourceFields
      <4>4. Instants \in SUBSET trades /\ trades \in SUBSET DOMAIN tape
        BY <1>2 DEF Instants, SessionTrades, BarsOK
      <4>5. \A i \in Instants : i \in Bounds(Today)
        BY <1>2, <4>2, ObservedInBounds DEF Instants, SessionTrades, HasSessions
      <4>6. IsFiniteSet(Instants)
        BY <1>2, <4>4, TradesFinite, FS_Subset
      <4>7. \A i \in Instants : i <= now
        BY <1>2, <4>4 DEF Signed
      <4>8. FitsSides(SignedDelta(Instants))
        BY <1>2, <4>2, <4>4, <4>5, <4>6, <4>7, DeltaFits
      <4>9. FitsSides(input.cumulative_delta)'
        BY <4>1, <4>3, <4>8 DEF FitsSides, Traded, Bounds
      <4> QED
        BY <1>2, <2>5, <4>1, <4>9 DEF Signed
    <3> QED
      BY <3>1, <3>2
  <2>6. CASE LoadCL \/ LoadNQ \/ LoadMGC
    BY <2>5, <2>6 DEF LoadCL, LoadNQ, LoadMGC, Instants
  <2>7. CASE LoadSixE
    <3>1. contract = "6E" /\ Instants = Observed \cap trades /\ step = "source"
      BY <2>7 DEF LoadSixE, Instants
    <3>2. CASE LoadFields(Observed \cap trades)
      BY <2>5, <3>1, <3>2
    <3>3. CASE Refused
      BY <2>1, <3>3 DEF Refused
    <3> QED
      BY <2>7, <3>1, <3>2, <3>3 DEF LoadSixE
  <2>8. CASE GetDelta /\ step' # "refused"
    <3>1. /\ Sided(DeltaTrades) /\ delta' = SignedDelta(DeltaTrades) /\ step' = "compile"
          /\ UNCHANGED <<tape, contract, now, trades>> /\ contract = "ES"
      BY <1>2, <2>8 DEF GetDelta, Refused, Sourced
    <3>2. /\ DeltaTrades # {} /\ DeltaTrades \in SUBSET DOMAIN tape
          /\ \A i \in DeltaTrades : i \in Bounds(Today) /\ i <= now /\ Minute(i) < QueryEnd
      BY <3>1 DEF Sided, DeltaTrades, TradesNow
    <3>3. IsFiniteSet(DeltaTrades)
      <4>1. now \in Nat /\ \A i \in DeltaTrades : i \in Nat /\ i <= now
        BY <1>2, <3>2, MinutesAreNatural DEF BarsOK
      <4>2. DeltaTrades \in SUBSET Nat
        BY <4>1
      <4> QED
        BY <4>1, <4>2, FS_BoundedSetOfNaturals
    <3>4. FitsSides(SignedDelta(DeltaTrades))
      BY <1>2, <3>2, <3>3, DeltaFits
    <3>5. FitsSides(delta)'
      BY <3>1, <3>4 DEF FitsSides, Traded, Bounds
    <3> QED
      BY <1>2, <3>1, <3>5 DEF Signed
  <2>9. CASE Compile /\ step' # "refused"
    <3>1. step = "compile" /\ UNCHANGED <<tape, contract, now, trades>> /\ step' = "compiled"
      BY <2>9 DEF Compile, CompileES, CompileCL, CompileNQ, CompileMGC, CompileSixE, CompileFields,
                  Refused
    <3>2. FitsSides(packet'.fields.cumulative_delta)
      <4>1. CASE contract = "ES"
        <5>1. packet'.fields = MarketFields(DayProfile(Today), DayProfile(Max(PriorDates)), delta)
          BY <2>9, <4>1 DEF Compile, CompileES, CompileCL, CompileNQ, CompileMGC, CompileSixE, Refused
        <5> QED
          BY <1>2, <3>1, <4>1, <5>1, MadeOfItsDelta DEF Signed
      <4>2. CASE contract # "ES"
        <5>1. packet'.fields = input
          BY <2>9, <4>2 DEF Compile, CompileES, CompileCL, CompileNQ, CompileMGC, CompileSixE,
                            CompileFields, Refused
        <5> QED
          BY <1>2, <3>1, <4>2, <5>1 DEF Signed
      <4> QED
        BY <4>1, <4>2
    <3>3. FitsSides(packet.fields.cumulative_delta)'
      BY <3>1, <3>2 DEF FitsSides, Traded, Bounds
    <3> QED
      BY <1>2, <3>1, <3>3 DEF Signed
  <2>10. CASE Tick
    <3>1. UNCHANGED <<tape, contract, trades, step>> /\ now' = now + 1
          /\ step \in {"bars", "trades", "delta"}
      BY <2>10 DEF Tick
    <3>2. \A i \in trades : i \in Nat /\ i <= now /\ now \in Nat
      BY <1>2, MinutesAreNatural DEF BarsOK, Signed
    <3>3. \A i \in trades : i <= now + 1
      BY <3>2
    <3> QED
      BY <3>1, <3>3 DEF Signed
  <2>11. CASE UNCHANGED vars
    BY <1>2, <2>11 DEF vars, Signed, FitsSides, Traded, Bounds
  <2> QED
    BY <1>2, <2>2, <2>3, <2>4, <2>6, <2>7, <2>8, <2>9, <2>10, <2>11 DEF Next, Load
<1> QED
  BY <1>1, <1>2, BarsInvariant, SourcedInvariant, PTL DEF Spec

-----------------------------------------------------------------------------
(* What the Watchman reads.                                                *)

\* The numbers of a packet are numbers.
LEMMA PacketTyped ==
  ASSUME BarsOK, Sourced, step = "compiled"
  PROVE  LET fields == packet.fields
         IN  /\ fields.current_price \in Int /\ fields.session_open \in Int
             /\ fields.session_range \in Int
             /\ fields.vwap.volume \in Nat /\ fields.vwap.value \in Int
             /\ fields.current_session.vah \in Int /\ fields.current_session.val \in Int
             /\ fields.avg_20d_session_range.sum \in Nat
             /\ fields.avg_20d_session_range.sessions \in Nat
             /\ Low(Current) \in Int /\ High(Current) \in Int
             /\ Current # {} /\ Current \in SUBSET bars
             /\ fields.current_price = CloseOf(Current)
<1> DEFINE fields == packet.fields
           profile == Profile(Instants)
<1>1. HasSessions /\ profile # <<>> /\ FieldsMade(fields)
  BY DEF Sourced
<1>2. /\ fields.current_price = CloseOf(Current) /\ fields.session_open = OpenOf(Current)
      /\ fields.session_range = High(Current) - Low(Current)
      /\ fields.vwap = [value |-> TypicalValue(Current), volume |-> 3 * Volume(Current)]
      /\ fields.current_session = DeriveProfileLevels(profile)
      /\ fields.avg_20d_session_range = AverageRange(tape, contract, RangeSum)
  BY <1>1 DEF FieldsMade, MarketFields, SessionRange
<1>3. Current # {} /\ Current \in SUBSET bars /\ tape \in Tapes /\ Current \in SUBSET Nat
  BY <1>1, SessionFacts DEF HasSessions, Current, BarsOK
<1>4. /\ Low(Current) \in Int /\ High(Current) \in Int
      /\ OpenOf(Current) \in Int /\ CloseOf(Current) \in Int
  BY <1>3, RangeFacts
<1>5. Volume(Current) \in Nat
  BY <1>3, VolumeFacts
<1>6. TypicalValue(Current) \in Int
  <2>1. ASSUME NEW m \in Current
        PROVE  /\ Low(Current) <= High({m}) /\ Low(Current) <= Low({m}) /\ Low(Current) <= CloseOf({m})
               /\ High({m}) <= High(Current) /\ Low({m}) <= High(Current) /\ CloseOf({m}) <= High(Current)
    <3>1. {m} \in SUBSET bars /\ {m} # {} /\ {m} \in SUBSET Nat
      BY <1>3
    <3>2. In({m}) \in SUBSET In(Current)
      BY <1>3, <3>1, InTheMinutes
    <3>3. /\ \E i \in In({m}) : High({m}) = tape[i].price
          /\ \E i \in In({m}) : Low({m}) = tape[i].price
          /\ \E i \in In({m}) : CloseOf({m}) = tape[i].price
      BY <3>1, RangeFacts
    <3>4. \A i \in In(Current) : Low(Current) <= tape[i].price /\ tape[i].price <= High(Current)
      BY <1>3, RangeFacts
    <3> QED
      BY <3>2, <3>3, <3>4
  <2> QED
    BY <1>3, <1>4, <2>1, AverageWithin, TradesFinite
<1>7. fields.current_session.vah \in Int /\ fields.current_session.val \in Int
  <2> DEFINE within == Instants \cap trades
  <2>1. IsFiniteSet(DOMAIN tape \cap within)
    <3>1. DOMAIN tape \cap within \in SUBSET trades
      OBVIOUS
    <3> QED
      BY <3>1, TradesFinite, FS_Subset
  <2>2. profile = Aggregate(tape, within)
    BY DEF Profile
  <2> HIDE DEF within, profile
  <2>3. profile \in Seq(Priced)
    BY <1>3, <2>1, <2>2, AggregateFacts
  <2>4. Len(profile) > 0
    BY <1>1, <2>3
  <2>5. \A n \in 1..Len(profile) : profile[n].price \in Int
    <3>1. \A n \in 1..Len(profile) : profile[n] \in Priced
      BY <2>3
    <3> QED
      BY <3>1 DEF Priced
  <2>6. /\ \E n \in 1..Len(profile) : fields.current_session.vah = profile[n].price
        /\ \E n \in 1..Len(profile) : fields.current_session.val = profile[n].price
    BY <1>2, <2>3, <2>4, DerivedAreLevels
  <2> QED
    BY <2>5, <2>6
<1>8. fields.avg_20d_session_range.sum \in Nat /\ fields.avg_20d_session_range.sessions \in Nat
  <2>1. RangeSum \in Nat
    BY <1>1, RangesStand
  <2>2. \E given \in Nat, n \in Nat :
          AverageRange(tape, contract, RangeSum) = [sum |-> given, sessions |-> n]
    BY <2>1, AverageFacts DEF BarsOK
  <2> HIDE DEF fields
  <2> QED
    BY <1>2, <2>2
<1> QED
  BY <1>2, <1>3, <1>4, <1>5, <1>6, <1>7, <1>8

\* At the top of its range a price is not read as below its average, nor at the bottom
\* as above it.
LEMMA PostureFits ==
  ASSUME NEW fields, NEW price \in Int, NEW volume \in Nat, NEW value \in Int,
         fields.current_price = price, fields.vwap.volume = volume, fields.vwap.value = value
  PROVE  /\ value <= price * volume => VwapPosture(fields) # "price_below_vwap"
         /\ price * volume <= value => VwapPosture(fields) # "price_above_vwap"
<1> DEFINE worth == price * volume
<1>1. worth \in Int
  OBVIOUS
<1>2. VwapPosture(fields) = IF 2 * Apart(worth, value) <= volume THEN "price_at_vwap"
                            ELSE IF worth > value THEN "price_above_vwap" ELSE "price_below_vwap"
  BY DEF VwapPosture
<1> HIDE DEF worth
<1>3. worth = value => 2 * Apart(worth, value) <= volume
  BY <1>1 DEF Apart
<1>4. value <= worth => VwapPosture(fields) # "price_below_vwap"
  BY <1>1, <1>2, <1>3
<1>5. worth <= value => VwapPosture(fields) # "price_above_vwap"
  BY <1>1, <1>2
<1> QED
  BY <1>4, <1>5 DEF worth

LEMMA PriceFits ==
  ASSUME BarsOK, Sourced, Signed, step = "compiled"
  PROVE  PriceReadingFits
<1> SUFFICES ASSUME ~Overtaken, NEW level \in TriggerLevels
    PROVE  LET fields == packet.fields
               read == Reading(fields, level)
               price == fields.current_price
           IN  /\ price = High(Current) =>
                    read.value_location_state # "below_value" /\ read.vwap_posture_state # "price_below_vwap"
               /\ price = Low(Current) =>
                    read.value_location_state # "above_value" /\ read.vwap_posture_state # "price_above_vwap"
               /\ level > 2 * High(Current) + 1 => read.trigger_context_state = "below_trigger_level"
               /\ level < 2 * Low(Current) - 1 => read.trigger_context_state = "above_trigger_level"
               /\ Traded("B") /\ price > fields.session_open =>
                    read.delta_agreement_state = "bullish_agreement"
               /\ Traded("A") /\ price < fields.session_open =>
                    read.delta_agreement_state = "bearish_agreement"
  BY DEF PriceReadingFits
<1> DEFINE fields == packet.fields
           read == Reading(fields, level)
           price == fields.current_price
           low == Low(Current)
           high == High(Current)
<1>1. /\ price \in Int /\ fields.session_open \in Int
      /\ fields.vwap.volume \in Nat /\ fields.vwap.value \in Int
      /\ fields.current_session.vah \in Int /\ fields.current_session.val \in Int
      /\ low \in Int /\ high \in Int /\ level \in Int
  BY PacketTyped, ReadAssumption
<1>2. /\ low <= price /\ price <= high
      /\ low * fields.vwap.volume <= fields.vwap.value
      /\ fields.vwap.value <= high * fields.vwap.volume
      /\ fields.current_session.val <= high /\ low <= fields.current_session.vah
  BY PacketFits DEF PacketCoheres, Overtaken
<1>3. /\ read.value_location_state = ValueLocation(fields)
      /\ read.vwap_posture_state = VwapPosture(fields)
      /\ read.delta_agreement_state = DeltaAgreement(fields)
      /\ read.trigger_context_state = TriggerLevelState(fields, level)
  BY DEF Reading, MarketRead
<1>4. FitsSides(fields.cumulative_delta)
  BY DEF Signed
<1>5. /\ price = high => ValueLocation(fields) # "below_value"
      /\ price = low => ValueLocation(fields) # "above_value"
  BY <1>1, <1>2 DEF ValueLocation
<1>6. /\ price = high => VwapPosture(fields) # "price_below_vwap"
      /\ price = low => VwapPosture(fields) # "price_above_vwap"
  BY <1>1, <1>2, PostureFits
<1>7. /\ level > 2 * high + 1 => TriggerLevelState(fields, level) = "below_trigger_level"
      /\ level < 2 * low - 1 => TriggerLevelState(fields, level) = "above_trigger_level"
  BY <1>1, <1>2 DEF TriggerLevelState, Apart
<1>8. /\ Traded("B") /\ price > fields.session_open => DeltaAgreement(fields) = "bullish_agreement"
      /\ Traded("A") /\ price < fields.session_open => DeltaAgreement(fields) = "bearish_agreement"
  BY <1>1, <1>4 DEF DeltaAgreement, FitsSides
<1> QED
  BY <1>3, <1>5, <1>6, <1>7, <1>8

LEMMA ESFits ==
  ASSUME BarsOK, Sourced, Signed, step = "compiled"
  PROVE  ESReadingFits
<1> DEFINE fields == packet.fields
<1>1. /\ fields.current_price \in Int /\ fields.session_open \in Int
      /\ FitsSides(fields.cumulative_delta)
  BY PacketTyped DEF Signed
<1> SUFFICES ASSUME NEW typed \in TypedES
    PROVE  LET aligned == MacroES(packet, typed).contract_specific_macro_state = "breadth_cash_delta_aligned"
           IN  /\ Traded("B") /\ fields.current_price > fields.session_open =>
                    (aligned <=> "positive" \in typed.breadth /\ typed.index_cash_tone = "bullish")
               /\ Traded("A") /\ fields.current_price < fields.session_open =>
                    (aligned <=> "negative" \in typed.breadth /\ typed.index_cash_tone = "bearish")
               /\ aligned => DeltaAgreement(fields) #
                    (IF typed.index_cash_tone = "bullish" THEN "bearish_agreement" ELSE "bullish_agreement")
  BY DEF ESReadingFits
<1> DEFINE aligned == MacroES(packet, typed).contract_specific_macro_state = "breadth_cash_delta_aligned"
           price == fields.current_price
           open == fields.session_open
           signed == fields.cumulative_delta
<1>2. aligned <=> IF price >= open
                  THEN "positive" \in typed.breadth /\ typed.index_cash_tone = "bullish" /\ signed >= 0
                  ELSE "negative" \in typed.breadth /\ typed.index_cash_tone = "bearish" /\ signed <= 0
  BY DEF MacroES, Macro
<1>3. /\ price > open /\ signed > 0 =>
           (aligned <=> "positive" \in typed.breadth /\ typed.index_cash_tone = "bullish")
      /\ price < open /\ signed < 0 =>
           (aligned <=> "negative" \in typed.breadth /\ typed.index_cash_tone = "bearish")
  BY <1>1, <1>2 DEF FitsSides
<1>4. aligned => DeltaAgreement(fields) #
                   (IF typed.index_cash_tone = "bullish" THEN "bearish_agreement" ELSE "bullish_agreement")
  BY <1>1, <1>2 DEF DeltaAgreement, FitsSides
<1> QED
  BY <1>1, <1>3, <1>4 DEF FitsSides

Asia == InWindow(Segments.asia, Today)

\* What each contract's compiler derives itself.
Derived ==
  /\ step \in {"compile", "compiled"} /\ contract = "6E" => Asia # {}
  /\ step = "compiled" /\ contract = "6E" => packet.asia_high_low = RangeOf(Asia)
  /\ step = "compiled" /\ contract = "NQ" =>
       /\ packet.fields.session_open # 0
       /\ \E es \in Comparisons :
            packet.relative_strength_vs_es = RelativeStrength(packet.fields, es)
  /\ step = "compiled" /\ contract = "CL" =>
       packet.realized_volatility_context = RealizedVolatilityContext(packet.fields)

LEMMA DerivedInvariant == Spec => []Derived
<1>1. Init => Derived
  BY DEF Init, Derived
<1>2. ASSUME Sourced, Derived, [Next]_vars PROVE Derived'
  <2>1. ASSUME UNCHANGED <<tape, bars>> PROVE Asia' = Asia /\ RangeOf(Asia)' = RangeOf(Asia)
    <3>1. Asia' = Asia
      BY <2>1 DEF Asia, InWindow
    <3> QED
      BY <2>1, <3>1 DEF RangeOf, High, Low, In
  <2>2. ASSUME step' \notin {"compile", "compiled"} PROVE Derived'
    BY <2>2 DEF Derived
  <2>3. CASE GetBars \/ GetTrades \/ Again
    BY <2>2, <2>3 DEF GetBars, GetTrades, Again
  <2>4. CASE GetDelta
    <3>1. contract' = "ES" /\ step' \in {"compile", "refused"}
      BY <1>2, <2>4 DEF GetDelta, Refused, Sourced
    <3> QED
      BY <3>1 DEF Derived
  <2>5. CASE Load
    <3>1. UNCHANGED <<tape, contract, bars, packet>> /\ step' \in {"delta", "compile", "refused"}
      BY <2>5 DEF Load, LoadES, LoadCL, LoadNQ, LoadMGC, LoadSixE, LoadFields, Loaded, Refused
    <3>2. step' = "compile" /\ contract = "6E" => Asia # {}
      <4>1. step' = "compile" /\ contract = "6E" => SegmentsCovered
        BY <2>5 DEF Load, LoadES, LoadCL, LoadNQ, LoadMGC, LoadSixE, LoadFields, Loaded, Refused
      <4>2. "asia" \in DOMAIN Segments
        BY SegmentAssumption
      <4> QED
        BY <4>1, <4>2 DEF SegmentsCovered, Asia
    <3> QED
      BY <2>1, <3>1, <3>2 DEF Derived
  <2>6. CASE Compile /\ step' = "refused"
    BY <2>2, <2>6
  <2>7. CASE Compile /\ step' # "refused"
    <3>1. step = "compile" /\ step' = "compiled" /\ UNCHANGED <<tape, contract, bars>>
      BY <2>7 DEF Compile, CompileES, CompileCL, CompileNQ, CompileMGC, CompileSixE, CompileFields,
                  Refused
    <3>2. contract = "6E" => packet'.asia_high_low = RangeOf(Asia)
      BY <2>7 DEF Compile, CompileES, CompileCL, CompileNQ, CompileMGC, CompileSixE, CompileFields,
                  Asia
    <3>3. contract = "NQ" =>
            /\ packet'.fields.session_open # 0
            /\ \E es \in Comparisons :
                 packet'.relative_strength_vs_es = RelativeStrength(packet'.fields, es)
      BY <2>7 DEF Compile, CompileES, CompileCL, CompileNQ, CompileMGC, CompileSixE, CompileFields,
                  Refused
    <3>4. contract = "CL" =>
            packet'.realized_volatility_context = RealizedVolatilityContext(packet'.fields)
      BY <2>7 DEF Compile, CompileES, CompileCL, CompileNQ, CompileMGC, CompileSixE, CompileFields
    <3> QED
      BY <1>2, <2>1, <3>1, <3>2, <3>3, <3>4 DEF Derived, RelativeStrength, RealizedVolatilityContext
  <2>8. CASE Tick \/ UNCHANGED vars
    <3>1. UNCHANGED <<tape, contract, bars, packet, step>>
      BY <2>8 DEF Tick, vars
    <3> QED
      BY <1>2, <2>1, <3>1 DEF Derived, RelativeStrength, RealizedVolatilityContext
  <2> QED
    BY <1>2, <2>3, <2>4, <2>5, <2>6, <2>7, <2>8 DEF Next
<1> QED
  BY <1>1, <1>2, SourcedInvariant, PTL DEF Spec

LEMMA CLFits ==
  ASSUME BarsOK, Sourced, Derived, step = "compiled", contract = "CL"
  PROVE  CLReadingFits
<1> DEFINE fields == packet.fields
           range == fields.session_range * fields.avg_20d_session_range.sessions
           average == fields.avg_20d_session_range.sum
<1>1. range \in Int /\ average \in Nat
  <2>1. /\ fields.session_range \in Int /\ fields.avg_20d_session_range.sessions \in Nat
        /\ average \in Nat
    BY PacketTyped
  <2> QED
    BY <2>1
<1>2. /\ packet.realized_volatility_context =
           IF 5 * range >= 6 * average THEN "elevated"
           ELSE IF 5 * range <= 3 * average THEN "compressed" ELSE "normal"
      /\ RangeExpansion(fields) =
           IF 5 * range >= 6 * average THEN "expanded"
           ELSE IF 5 * range <= 4 * average THEN "compressed" ELSE "normal"
  BY DEF Derived, RealizedVolatilityContext, RangeExpansion
<1> HIDE DEF range, average
<1>3. /\ packet.realized_volatility_context = "elevated" <=> RangeExpansion(fields) = "expanded"
      /\ packet.realized_volatility_context = "compressed" => RangeExpansion(fields) = "compressed"
  BY <1>1, <1>2
<1>4. \A typed \in TypedCL : typed.eia_status = "not_today" =>
        (MacroCL(packet, typed).contract_specific_macro_state = "volatility_elevated" <=>
           packet.realized_volatility_context = "elevated")
  BY DEF MacroCL, Macro
<1> QED
  BY <1>3, <1>4 DEF CLReadingFits

\* Two percent of a positive number are something.
LEMMA StrengthTells ==
  ASSUME NEW strength, strength.nq \in Int, strength.es \in Int, strength.es > 0
  PROVE  /\ Trails(strength) => strength.nq < strength.es
         /\ Leads(strength) => strength.nq > strength.es
BY DEF Trails, Leads

LEMMA NQFits ==
  ASSUME BarsOK, Sourced, Derived, step = "compiled", contract = "NQ"
  PROVE  NQReadingFits
<1> DEFINE strength == packet.relative_strength_vs_es
           fields == packet.fields
<1>1. strength.nq \in Int /\ strength.es \in Int /\ strength.es > 0
  <2>1. PICK es \in Comparisons : strength = RelativeStrength(fields, es)
    BY DEF Derived
  <2>2. /\ es.es_session_open \in Nat /\ es.es_current_price \in Nat /\ es.es_current_price > 0
    BY ComparisonAssumption
  <2>3. /\ fields.current_price \in Int /\ fields.session_open \in Int /\ fields.session_open # 0
    BY PacketTyped DEF Derived
  <2> DEFINE x == IF fields.session_open > 0 THEN fields.current_price ELSE -fields.current_price
             y == IF fields.session_open > 0 THEN fields.session_open ELSE -fields.session_open
             v == es.es_current_price
             w == es.es_session_open
  <2>4. x \in Int /\ y \in Int /\ y > 0
    BY <2>3
  <2>5. strength.nq = x * w /\ strength.es = y * v
    BY <2>1 DEF RelativeStrength
  <2>6. v \in Nat /\ w \in Nat /\ v > 0
    BY <2>2
  <2> HIDE DEF x, y, v, w, strength
  <2>7. y * v > 0 /\ y * v \in Int /\ x * w \in Int
    BY <2>4, <2>6
  <2> QED
    BY <2>5, <2>7
<1> HIDE DEF strength
<1>2. ASSUME NEW typed \in TypedNQ
      PROVE  LET state == MacroNQ(packet, typed).contract_specific_macro_state
                 table == typed.megacap_leadership_table
                 falling == {n \in DOMAIN table : table[n] = "down"}
             IN  /\ state = "relative_strength_fragile" /\ falling = {} => strength.nq < strength.es
                 /\ state = "relative_strength_leader" => strength.nq > strength.es
  <2> DEFINE state == MacroNQ(packet, typed).contract_specific_macro_state
             table == typed.megacap_leadership_table
             moved(way) == Cardinality({name \in DOMAIN table : table[name] = way})
  <2>1. /\ state = "relative_strength_leader" => Leads(strength)
        /\ state = "relative_strength_fragile" => Trails(strength) \/ moved("down") > moved("up")
    BY DEF MacroNQ, Macro, strength
  <2>2. ASSUME {n \in DOMAIN table : table[n] = "down"} = {} PROVE ~(moved("down") > moved("up"))
    <3>1. moved("down") = 0
      BY <2>2, FS_EmptySet
    <3>2. DOMAIN table \in SUBSET Megacaps
      <4>1. table \in UNION {[names -> {"up", "down", "other"}] : names \in SUBSET Megacaps}
        BY DEF TypedNQ
      <4>2. PICK names \in SUBSET Megacaps : table \in [names -> {"up", "down", "other"}]
        BY <4>1
      <4> QED
        BY <4>2
    <3>3. IsFiniteSet({name \in DOMAIN table : table[name] = "up"})
      <4>1. {name \in DOMAIN table : table[name] = "up"} \in SUBSET Megacaps
        BY <3>2
      <4> QED
        BY <4>1, FS_Subset, MegacapAssumption
    <3>4. moved("up") \in Nat
      BY <3>3, FS_CardinalityType
    <3> QED
      BY <3>1, <3>4
  <2> QED
    BY <1>1, <2>1, <2>2, StrengthTells
<1> QED
  BY <1>2 DEF NQReadingFits, strength

LEMMA SixEFlags ==
  ASSUME NEW p, NEW typed, NEW minute
  PROVE  LET flags == MacroSixE(p, typed, minute).awareness_flags
         IN  /\ "above_asia_high" \in flags <=> p.fields.current_price >= p.asia_high_low.high
             /\ "below_asia_low" \in flags <=> p.fields.current_price <= p.asia_high_low.low
<1>1. /\ "above_asia_high" \in AsiaFlags(p) <=> p.fields.current_price >= p.asia_high_low.high
      /\ "below_asia_low" \in AsiaFlags(p) <=> p.fields.current_price <= p.asia_high_low.low
  BY DEF AsiaFlags
<1>2. MacroSixE(p, typed, minute).awareness_flags \in
        {AsiaFlags(p), AsiaFlags(p) \cup {"london_close_thinning"}, AsiaFlags(p) \cup {"dxy_strengthening"}}
  BY DEF MacroSixE, Macro
<1> QED
  BY <1>1, <1>2

LEMMA SixEFits ==
  ASSUME BarsOK, Sourced, Derived, step = "compiled", contract = "6E"
  PROVE  SixEReadingFits
<1> DEFINE price == packet.fields.current_price
           day == {minute \in bars : Date(minute) = Today}
           asia == packet.asia_high_low
<1>1. Asia # {} /\ asia = [high |-> High(Asia), low |-> Low(Asia)]
  BY DEF Derived, RangeOf
<1>2. bars \in SUBSET Nat /\ tape \in Tapes /\ \A m \in bars : m % DayLength \in Nat
  BY DayAndMinute DEF BarsOK
<1>3. /\ Segments.asia.start = 0 /\ Segments.asia.end \in Nat
  BY SegmentAssumption
<1>4. Asia = {minute \in day : minute % DayLength <= Segments.asia.end}
  <2>1. Asia = {m \in bars : Date(m) = Today /\ m % DayLength \in 0..Segments.asia.end}
    BY <1>3 DEF Asia, InWindow
  <2>2. \A m \in bars : m % DayLength \in 0..Segments.asia.end <=> m % DayLength <= Segments.asia.end
    BY <1>2, <1>3
  <2> QED
    BY <2>1, <2>2, Zenon
<1>5. Asia \in SUBSET bars /\ day \in SUBSET bars /\ Asia \in SUBSET day
  BY <1>4
<1>6. /\ asia.low \in Int /\ asia.high \in Int /\ price \in Int
      /\ \A i \in In(Asia) : asia.low <= tape[i].price /\ tape[i].price <= asia.high
      /\ In(Asia) \in SUBSET DOMAIN tape
  <2>1. price \in Int
    BY PacketTyped
  <2>2. asia.low = Low(Asia) /\ asia.high = High(Asia)
    BY <1>1
  <2>3. /\ Low(Asia) \in Int /\ High(Asia) \in Int /\ In(Asia) \in SUBSET DOMAIN tape
        /\ \A i \in In(Asia) : Low(Asia) <= tape[i].price /\ tape[i].price <= High(Asia)
    <3> HIDE DEF day
    <3> QED
      BY <1>1, <1>5, RangeFacts
  <2> HIDE DEF asia, price
  <2> QED
    BY <2>1, <2>2, <2>3
<1> HIDE DEF day
<1>7. /\ High(day) \in Int /\ Low(day) \in Int
      /\ asia.high <= High(day) /\ Low(day) <= asia.low
  BY <1>1, <1>5, RangeWidens
<1>8. ASSUME NEW typed \in TypedSixE, NEW m \in Evaluations
      PROVE  LET flags == MacroSixE(packet, typed, m % DayLength).awareness_flags
             IN  /\ price = High(day) => "above_asia_high" \in flags
                 /\ price = Low(day) => "below_asia_low" \in flags
                 /\ \A i, j \in In(Asia) :
                      tape[i].price < price /\ price < tape[j].price =>
                        flags \cap {"above_asia_high", "below_asia_low"} = {}
  <2> DEFINE flags == MacroSixE(packet, typed, m % DayLength).awareness_flags
  <2>1. /\ "above_asia_high" \in flags <=> price >= asia.high
        /\ "below_asia_low" \in flags <=> price <= asia.low
    BY SixEFlags
  <2> HIDE DEF flags, price, asia
  <2>2. price = High(day) => "above_asia_high" \in flags
    BY <1>6, <1>7, <2>1
  <2>3. price = Low(day) => "below_asia_low" \in flags
    BY <1>6, <1>7, <2>1
  <2>4. ASSUME NEW i \in In(Asia), NEW j \in In(Asia), tape[i].price < price, price < tape[j].price
        PROVE  flags \cap {"above_asia_high", "below_asia_low"} = {}
    <3>1. /\ tape[i].price \in Int /\ tape[j].price \in Int
          /\ asia.low <= tape[i].price /\ tape[j].price <= asia.high
      BY <1>2, <1>6, TradeFacts
    <3>2. ~(price >= asia.high) /\ ~(price <= asia.low)
      BY <1>6, <2>4, <3>1
    <3> QED
      BY <2>1, <3>2
  <2> QED
    BY <2>2, <2>3, <2>4 DEF flags
<1> QED
  BY <1>4, <1>8 DEF SixEReadingFits, day

\* Whatever the market trades, what the Watchman says of a packet fits it.
THEOREM ReadingsFit == Spec => []ReadingFitsTape
<1>1. BarsOK /\ Sourced /\ Signed /\ Derived => ReadingFitsTape
  BY PriceFits, ESFits, NQFits, CLFits, SixEFits DEF ReadingFitsTape
<1> QED
  BY <1>1, BarsInvariant, SourcedInvariant, SignedInvariant, DerivedInvariant, PTL

-----------------------------------------------------------------------------
(* Days that are all alike.                                                *)

\* A sum is the same over numbers that were all moved by the same distance.
LEMMA SumMoved ==
  ASSUME NEW fun, NEW S, IsFiniteSet(S), NEW c \in Int,
         \A x \in S : x \in Int /\ fun[x] \in Nat /\ fun[x - c] = fun[x]
  PROVE  SumFunctionOnSet(fun, {x - c : x \in S}) = SumFunctionOnSet(fun, S)
<1> DEFINE Sum(T) == SumFunctionOnSet(fun, T)
           Moved(T) == {x - c : x \in T}
           D == {T \in SUBSET S : Sum(Moved(T)) # Sum(T)}
<1>1. ASSUME NEW T \in SUBSET S
      PROVE  IsFiniteSet(T) /\ IsFiniteSet(Moved(T)) /\ \A y \in Moved(T) : fun[y] \in Nat
  <2>1. IsFiniteSet(T)
    BY FS_Subset
  <2>2. IsFiniteSet(Moved(T))
    <3> DEFINE f == [x \in T |-> x - c]
    <3>1. f \in Surjection(T, Moved(T))
      BY DEF Surjection
    <3> HIDE DEF f
    <3> QED
      BY <2>1, <3>1, FS_Surjection
  <2>3. \A y \in Moved(T) : fun[y] \in Nat
    OBVIOUS
  <2> QED
    BY <2>1, <2>2, <2>3
<1>2. ASSUME D # {} PROVE FALSE
  <2>1. PICK T \in D : \A U \in D : U \subseteq T => U = T
    <3>1. D \in SUBSET SUBSET S
      OBVIOUS
    <3> HIDE DEF D
    <3> QED
      BY <1>2, <3>1, SmallestSet
  <2>2. T \in SUBSET S /\ Sum(Moved(T)) # Sum(T)
    BY <2>1
  <2>3. T # {}
    <3>1. Moved({}) = {}
      OBVIOUS
    <3> QED
      BY <2>2, <3>1
  <2>4. PICK x \in T : TRUE
    BY <2>3
  <2> DEFINE R == T \ {x}
  <2>5. x \in Int /\ fun[x - c] = fun[x] /\ x - c \in Moved(T)
    BY <2>2
  <2>6. Moved(R) = Moved(T) \ {x - c}
    <3>1. \A y \in T : y \in Int
      BY <2>2
    <3>2. \A y \in R : y - c # x - c
      BY <2>5, <3>1
    <3>3. \A z \in Moved(T) : z # x - c => z \in Moved(R)
      OBVIOUS
    <3>4. \A z \in Moved(R) : z \in Moved(T) /\ z # x - c
      BY <3>2
    <3> QED
      BY <3>3, <3>4
  <2>7. Sum(Moved(R)) = Sum(R)
    <3>1. R \in SUBSET S /\ R \subseteq T /\ R # T
      BY <2>2
    <3> QED
      BY <2>1, <3>1
  <2> HIDE DEF R, Moved
  <2>8. Sum(T) = fun[x] + Sum(R)
    BY <1>1, <2>2, <2>4, SumSplit DEF R
  <2>9. Sum(Moved(T)) = fun[x - c] + Sum(Moved(T) \ {x - c})
    BY <1>1, <2>2, <2>5, SumSplit
  <2> QED
    BY <2>2, <2>5, <2>6, <2>7, <2>8, <2>9
<1> QED
  BY <1>2

\* A sum of equal numbers.
LEMMA SumOfEquals ==
  ASSUME NEW fun, NEW S, IsFiniteSet(S), NEW v \in Nat, \A x \in S : fun[x] = v
  PROVE  SumFunctionOnSet(fun, S) = Cardinality(S) * v
<1> DEFINE Sum(T) == SumFunctionOnSet(fun, T)
           D == {T \in SUBSET S : Sum(T) # Cardinality(T) * v}
<1>1. ASSUME D # {} PROVE FALSE
  <2>1. PICK T \in D : \A U \in D : U \subseteq T => U = T
    <3>1. D \in SUBSET SUBSET S
      OBVIOUS
    <3> HIDE DEF D
    <3> QED
      BY <1>1, <3>1, SmallestSet
  <2>2. T \in SUBSET S /\ Sum(T) # Cardinality(T) * v /\ IsFiniteSet(T)
    BY <2>1, FS_Subset
  <2>3. T # {}
    <3>1. Sum({}) = 0 /\ Cardinality({}) = 0
      BY FS_EmptySet, SumStep
    <3>2. 0 * v = 0
      OBVIOUS
    <3> QED
      BY <2>2, <3>1, <3>2
  <2> DEFINE x == Some(T)
             R == T \ {x}
  <2>4. x \in T /\ fun[x] = v
    BY <2>2, <2>3 DEF Some
  <2>5. IsFiniteSet(R) /\ Cardinality(R) = Cardinality(T) - 1 /\ Cardinality(R) \in Nat
    BY <2>2, <2>4, FS_RemoveElement, FS_CardinalityType, FS_Subset
  <2>6. Sum(R) = Cardinality(R) * v
    <3>1. R \in SUBSET S /\ R \subseteq T /\ R # T
      BY <2>2, <2>4
    <3> QED
      BY <2>1, <3>1
  <2>7. Sum(T) = fun[x] + Sum(R)
    BY <2>2, <2>3, SumStep
  <2>8. Cardinality(T) \in Nat /\ Cardinality(T) = Cardinality(R) + 1
    BY <2>2, <2>5, FS_CardinalityType
  <2> HIDE DEF x, R
  <2>9. (Cardinality(R) + 1) * v = Cardinality(R) * v + v /\ Cardinality(R) * v \in Nat
    BY <2>5
  <2> QED
    BY <2>2, <2>4, <2>6, <2>7, <2>8, <2>9
<1> QED
  BY <1>1

-----------------------------------------------------------------------------
(* A day and the same day earlier.                                         *)

\* Instants or minutes, so much earlier.
Back(S, c) == {x - c : x \in S}

\* How many minutes a day was before today.
Since(day) == (Today - day) * DayLength

LEMMA SinceFacts ==
  ASSUME BarsOK, NEW day \in 0..(Today - 1)
  PROVE  /\ Since(day) \in Nat /\ day \in Nat /\ Today \in Nat /\ DayLength \in Nat /\ DayLength > 0
         /\ day * DayLength \in Nat /\ Today * DayLength = day * DayLength + Since(day)
<1>1. DayLength \in Nat /\ DayLength > 0 /\ Today \in Nat /\ day \in Nat
  BY Constants DEF BarsOK
<1>2. Today - day \in Nat
  BY <1>1
<1>3. Since(day) \in Nat /\ day * DayLength \in Nat
  BY <1>1, <1>2 DEF Since
<1>4. (Today - day) * DayLength = Today * DayLength - day * DayLength
  BY <1>1
<1>5. Today * DayLength \in Nat
  BY <1>1
<1> QED
  BY <1>1, <1>3, <1>4, <1>5 DEF Since

\* The minutes of today are those of an earlier day, moved.
LEMMA MinutesMoved ==
  ASSUME BarsOK, NEW day \in 0..(Today - 1), NEW m \in Nat
  PROVE  /\ Date(m) = Today => /\ m - Since(day) \in Nat /\ Date(m - Since(day)) = day
                               /\ (m - Since(day)) % DayLength = m % DayLength
         /\ Date(m) = day => /\ m + Since(day) \in Nat /\ Date(m + Since(day)) = Today
                             /\ (m + Since(day)) % DayLength = m % DayLength
<1> DEFINE o == Since(day)
           r == m % DayLength
           base == day * DayLength
<1>1. /\ o \in Nat /\ day \in Nat /\ Today \in Nat /\ DayLength \in Nat
      /\ base \in Nat /\ Today * DayLength = base + o
  BY SinceFacts
<1>2. r \in Nat /\ r < DayLength /\ m = Date(m) * DayLength + r
  BY DayAndMinute
<1> HIDE DEF o, r, base
<1>3. ASSUME Date(m) = Today
      PROVE  m - o \in Nat /\ Date(m - o) = day /\ (m - o) % DayLength = r
  <2>1. m = base + o + r
    BY <1>1, <1>2, <1>3
  <2>2. m - o \in Nat /\ m - o = base + r
    BY <1>1, <1>2, <2>1
  <2> QED
    BY <1>1, <1>2, <2>2, DayAndMinute DEF base
<1>4. ASSUME Date(m) = day
      PROVE  m + o \in Nat /\ Date(m + o) = Today /\ (m + o) % DayLength = r
  <2>1. m = base + r
    BY <1>2, <1>4 DEF base
  <2>2. m + o \in Nat /\ m + o = Today * DayLength + r
    BY <1>1, <1>2, <2>1
  <2> QED
    BY <1>1, <1>2, <2>2, DayAndMinute
<1> QED
  BY <1>3, <1>4 DEF o, r

\* On a market that trades every day alike, so are the trades.
LEMMA TradesMoved ==
  ASSUME BarsOK, Repeats, NEW day \in 0..(Today - 1), NEW i \in DOMAIN tape
  PROVE  /\ Date(Minute(i)) = Today =>
              /\ i - 2 * Since(day) \in DOMAIN tape /\ tape[i - 2 * Since(day)] = tape[i]
              /\ Minute(i - 2 * Since(day)) = Minute(i) - Since(day)
         /\ Date(Minute(i)) = day =>
              /\ i + 2 * Since(day) \in DOMAIN tape /\ tape[i + 2 * Since(day)] = tape[i]
              /\ Minute(i + 2 * Since(day)) = Minute(i) + Since(day)
<1> DEFINE o == Since(day)
           base == day * DayLength
           length == 2 * DayLength
           q == i \div length
           r == i % length
<1>1. /\ o \in Nat /\ day \in Nat /\ Today \in Nat /\ DayLength \in Nat /\ DayLength > 0
      /\ base \in Nat /\ Today * DayLength = base + o
  BY SinceFacts
<1>2. i \in Nat /\ Minute(i) \in Nat
  BY MinutesAreNatural DEF BarsOK
<1>3. length \in Nat /\ length > 0
  BY <1>1
<1>4. q \in Nat /\ r \in Nat /\ r < length /\ i = q * length + r
  <2> HIDE DEF length
  <2> QED
    BY <1>2, <1>3, Divided
<1> HIDE DEF q, r
<1>5. i = 2 * (q * DayLength) + r /\ q * DayLength \in Nat
  <2>1. q * length = 2 * (q * DayLength) /\ q * DayLength \in Nat
    BY <1>1, <1>4
  <2> QED
    BY <1>4, <2>1
<1>6. Date(Minute(i)) = q
  <2> DEFINE mine == q * DayLength
             half == r \div 2
  <2>1. mine \in Nat /\ i = 2 * mine + r /\ r \in Nat /\ r < 2 * DayLength
    BY <1>4, <1>5
  <2> HIDE DEF mine
  <2>2. half \in Nat /\ half < DayLength
    BY <1>1, <2>1
  <2>3. Minute(i) = mine + half
    BY <1>1, <2>1 DEF Minute
  <2> HIDE DEF half
  <2> QED
    BY <1>2, <1>4, <2>2, <2>3, DayAndMinute DEF mine
<1>7. ASSUME NEW d \in 0..Today
      PROVE  2 * (d * DayLength) + r \in DOMAIN tape /\ tape[2 * (d * DayLength) + r] = tape[i]
  <2>1. 2 * DayLength * d + (i % (2 * DayLength)) \in DOMAIN tape
        /\ tape[2 * DayLength * d + (i % (2 * DayLength))] = tape[i]
    BY <1>7 DEF Repeats
  <2>2. 2 * DayLength * d = 2 * (d * DayLength)
    BY <1>1, <1>7
  <2> QED
    BY <2>1, <2>2 DEF r
<1> HIDE DEF o, base
<1>8. ASSUME Date(Minute(i)) = Today
      PROVE  /\ i - 2 * o \in DOMAIN tape /\ tape[i - 2 * o] = tape[i]
             /\ Minute(i - 2 * o) = Minute(i) - o
  <2>1. i = 2 * (base + o) + r
    BY <1>1, <1>5, <1>6, <1>8
  <2>2. i - 2 * o = 2 * base + r
    BY <1>1, <1>4, <2>1
  <2>3. day \in 0..Today
    BY <1>1
  <2>4. Minute(i - 2 * o) = Minute(i) - o
    BY <1>1, <1>2 DEF Minute
  <2> QED
    BY <1>7, <2>2, <2>3, <2>4 DEF base
<1>9. ASSUME Date(Minute(i)) = day
      PROVE  /\ i + 2 * o \in DOMAIN tape /\ tape[i + 2 * o] = tape[i]
             /\ Minute(i + 2 * o) = Minute(i) + o
  <2>1. i = 2 * base + r
    BY <1>1, <1>5, <1>6, <1>9 DEF base
  <2>2. i + 2 * o = 2 * (Today * DayLength) + r
    BY <1>1, <1>4, <2>1
  <2>3. Today \in 0..Today
    BY <1>1
  <2>4. Minute(i + 2 * o) = Minute(i) + o
    BY <1>1, <1>2 DEF Minute
  <2> QED
    BY <1>7, <2>2, <2>3, <2>4
<1> QED
  BY <1>8, <1>9 DEF o

\* So are its sessions.
LEMMA SessionMoved ==
  ASSUME BarsOK, Repeats, Current # {}, NEW day \in 0..(Today - 1)
  PROVE  Session(day) = Back(WholeSession(tape, contract, Today), Since(day))
<1> DEFINE o == Since(day)
           whole == WholeSession(tape, contract, Today)
<1>1. /\ o \in Nat /\ day \in Nat /\ Today \in Nat /\ DayLength \in Nat
      /\ tape \in Tapes /\ QueryEnd = At(Today, Window[contract].end) + 1
  BY SinceFacts DEF BarsOK, QueryEnd
<1>2. Session(day) = WholeSession(tape, contract, day)
  BY SessionsWhole
<1>3. \A m \in Nat : \A d : m \in WholeSession(tape, contract, d) <=>
        /\ \E i \in DOMAIN tape : m = Minute(i)
        /\ m < QueryEnd /\ Date(m) = d /\ m % DayLength \in Window[contract].start..Window[contract].end
  BY <1>1 DEF WholeSession, WholeWindow, Asked
<1>4. \A d : WholeSession(tape, contract, d) \in SUBSET Nat
  BY BarsAsked DEF WholeSession, WholeWindow
<1> HIDE DEF o
<1>5. ASSUME NEW m \in Session(day) PROVE m \in Back(whole, o)
  <2>1. m \in Nat /\ Date(m) = day /\ m % DayLength \in Window[contract].start..Window[contract].end
    BY <1>2, <1>3, <1>4, <1>5
  <2>2. PICK i \in DOMAIN tape : m = Minute(i)
    BY <1>2, <1>3, <1>4, <1>5
  <2>3. i + 2 * o \in DOMAIN tape /\ Minute(i + 2 * o) = m + o
    BY <2>1, <2>2, TradesMoved DEF o
  <2>4. /\ m + o \in Nat /\ Date(m + o) = Today /\ (m + o) % DayLength = m % DayLength
    BY <2>1, MinutesMoved DEF o
  <2>5. m + o < QueryEnd
    <3> DEFINE base == Today * DayLength
               r == m % DayLength
    <3>1. m + o = base + r
      BY <2>4, DayAndMinute
    <3>2. QueryEnd = base + Window[contract].end + 1 /\ base \in Nat
      BY <1>1 DEF At
    <3>3. r \in Nat /\ r <= Window[contract].end /\ Window[contract].end \in Nat
      <4>1. r \in Nat /\ Window[contract].end \in Nat /\ Window[contract].start \in Nat
        BY <2>1, DayAndMinute, Constants DEF BarsOK
      <4> QED
        BY <2>1, <4>1
    <3> HIDE DEF base, r
    <3> QED
      BY <3>1, <3>2, <3>3
  <2>6. m + o \in whole
    BY <1>3, <2>1, <2>3, <2>4, <2>5
  <2>7. m = (m + o) - o
    BY <1>1, <2>1
  <2> QED
    BY <2>6, <2>7 DEF Back
<1>6. ASSUME NEW m \in whole PROVE m - o \in Session(day)
  <2>1. /\ m \in Nat /\ Date(m) = Today /\ m < QueryEnd
        /\ m % DayLength \in Window[contract].start..Window[contract].end
    BY <1>3, <1>4, <1>6
  <2>2. PICK i \in DOMAIN tape : m = Minute(i)
    BY <1>3, <1>4, <1>6
  <2>3. i - 2 * o \in DOMAIN tape /\ Minute(i - 2 * o) = m - o
    BY <2>1, <2>2, TradesMoved DEF o
  <2>4. m - o \in Nat /\ Date(m - o) = day /\ (m - o) % DayLength = m % DayLength
    BY <2>1, MinutesMoved DEF o
  <2>5. QueryEnd \in Nat
    BY Constants DEF BarsOK
  <2>6. m - o < QueryEnd
    BY <1>1, <2>1, <2>5
  <2> QED
    BY <1>2, <1>3, <2>1, <2>3, <2>4, <2>6
<1> QED
  BY <1>5, <1>6 DEF Back, o

\* And what was traded in some of its minutes.
LEMMA DealtMoved ==
  ASSUME BarsOK, Repeats, NEW day \in 0..(Today - 1), NEW M \in SUBSET bars, M # {},
         \A m \in M : Date(m) = Today
  PROVE  /\ Volume(Back(M, Since(day))) = Volume(M)
         /\ High(Back(M, Since(day))) = High(M) /\ Low(Back(M, Since(day))) = Low(M)
<1> DEFINE o == Since(day)
           B == Back(M, o)
<1>1. /\ o \in Nat /\ tape \in Tapes /\ bars \in SUBSET Nat /\ M \in SUBSET Nat
  BY SinceFacts DEF BarsOK
<1>2. \A m \in M : m \in Nat /\ m - o \in Nat /\ Date(m - o) = day
  BY <1>1, MinutesMoved
<1>3. B \in SUBSET Nat /\ \A m \in B : Date(m) = day /\ m + o \in M
  <2> SUFFICES ASSUME NEW b \in B PROVE b \in Nat /\ Date(b) = day /\ b + o \in M
    OBVIOUS
  <2>1. PICK m \in M : b = m - o
    BY DEF Back
  <2>2. b + o = m
    BY <1>1, <1>2, <2>1
  <2> QED
    BY <1>2, <2>1, <2>2
<1>4. \A m \in M : m - o \in B
  BY DEF Back
<1> HIDE DEF o, B
<1>5. /\ In(M) \in SUBSET DOMAIN tape /\ In(M) \in SUBSET Nat
      /\ \A i \in DOMAIN tape : i \in In(M) <=> Minute(i) \in M
  BY <1>1, InTheMinutes
<1>6. /\ In(B) \in SUBSET DOMAIN tape /\ In(B) \in SUBSET Nat
      /\ \A i \in DOMAIN tape : i \in In(B) <=> Minute(i) \in B
  BY <1>1, <1>3, InTheMinutes
<1>7. \A i \in In(M) : i - 2 * o \in In(B) /\ tape[i - 2 * o] = tape[i]
  <2> SUFFICES ASSUME NEW i \in In(M) PROVE i - 2 * o \in In(B) /\ tape[i - 2 * o] = tape[i]
    OBVIOUS
  <2>1. i \in DOMAIN tape /\ Minute(i) \in M /\ Date(Minute(i)) = Today
    BY <1>5
  <2>2. /\ i - 2 * o \in DOMAIN tape /\ tape[i - 2 * o] = tape[i]
        /\ Minute(i - 2 * o) = Minute(i) - o
    BY <2>1, TradesMoved DEF o
  <2> QED
    BY <1>4, <1>6, <2>1, <2>2
<1>8. \A i \in In(B) : i + 2 * o \in In(M) /\ i = (i + 2 * o) - 2 * o
  <2> SUFFICES ASSUME NEW i \in In(B) PROVE i + 2 * o \in In(M) /\ i = (i + 2 * o) - 2 * o
    OBVIOUS
  <2>1. i \in DOMAIN tape /\ i \in Nat /\ Minute(i) \in B /\ Date(Minute(i)) = day
    BY <1>3, <1>6
  <2>2. i + 2 * o \in DOMAIN tape /\ Minute(i + 2 * o) = Minute(i) + o
    BY <2>1, TradesMoved DEF o
  <2>3. Minute(i + 2 * o) \in M
    BY <1>3, <2>1, <2>2
  <2> QED
    BY <1>1, <1>5, <2>1, <2>2, <2>3
<1>9. In(B) = Back(In(M), 2 * o)
  BY <1>7, <1>8 DEF Back
<1>10. {tape[i].price : i \in In(B)} = {tape[i].price : i \in In(M)}
  <2>1. \A i \in In(B) : tape[i] = tape[i + 2 * o]
    BY <1>7, <1>8
  <2> QED
    BY <1>7, <1>8, <2>1
<1>11. High(B) = High(M) /\ Low(B) = Low(M)
  BY <1>10 DEF High, Low
<1>12. Volume(B) = Volume(M)
  <2>1. IsFiniteSet(In(M))
    BY RangeFacts
  <2>2. \A i \in In(M) : i \in Int /\ Sizes[i] \in Nat /\ Sizes[i - 2 * o] = Sizes[i]
    BY <1>1, <1>5, <1>6, <1>7, TradeFacts DEF Sizes
  <2>3. 2 * o \in Int
    BY <1>1
  <2>4. SumFunctionOnSet(Sizes, Back(In(M), 2 * o)) = SumFunctionOnSet(Sizes, In(M))
    BY <2>1, <2>2, <2>3, SumMoved DEF Back
  <2> QED
    BY <1>5, <1>6, <1>9, <2>4, SizesSummed DEF Volume
<1> QED
  BY <1>11, <1>12 DEF B, o

\* The stretch of a prior session that is compared is today's, moved.
LEMMA MatchedMoved ==
  ASSUME BarsOK, Repeats, HasSessions, NEW day \in 0..(Today - 1)
  PROVE  MatchedWindow(day) = Back(Current, Since(day))
<1> DEFINE o == Since(day)
           whole == WholeSession(tape, contract, Today)
           first == Min(Current)
           last == Max(Current)
<1>1. /\ Current # {} /\ Current \in SUBSET Nat /\ QueryEnd \in Nat
      /\ \A m \in Current : m <= QueryEnd /\ m \in bars /\ Date(m) = Today
  BY SessionFacts DEF Current, HasSessions
<1>2. last \in Current /\ last \in Nat /\ first \in Current /\ first \in Nat
  BY <1>1, MaxIsGreatest, MinIsLeast
<1>3. whole \in SUBSET Nat /\ Current = {m \in whole : m <= last} /\ first = Min(whole)
  BY <1>1, SessionsWhole, OpenStands, BarsAsked DEF Upto, WholeSession, WholeWindow
<1>4. o \in Nat /\ \A m \in whole : m - o \in Nat
  BY SinceFacts, BarsAsked, MinutesMoved DEF WholeSession, WholeWindow
<1>5. Session(day) = Back(whole, o)
  BY <1>1, SessionMoved
<1> HIDE DEF o, whole, first, last
<1>6. \A m \in whole : first <= m /\ first \in whole
  BY <1>2, <1>3, MinIsLeast
<1>7. Min(Session(day)) = first - o
  <2>1. Session(day) \in SUBSET Nat /\ Session(day) # {} /\ first - o \in Session(day)
    BY <1>2, <1>3, <1>4, <1>5, <1>6 DEF Back
  <2>2. \A b \in Session(day) : first - o <= b
    <3> SUFFICES ASSUME NEW b \in Session(day) PROVE first - o <= b
      OBVIOUS
    <3>1. PICK m \in whole : b = m - o
      BY <1>5 DEF Back
    <3> QED
      BY <1>2, <1>3, <1>4, <1>6, <3>1
  <2>3. \A x \in Session(day) : (\A y \in Session(day) : x <= y) => x = Min(Session(day))
    BY <2>1, MinIsLeast
  <2> QED
    BY <2>1, <2>2, <2>3
<1>8. MatchedWindow(day) = {b \in Session(day) : b <= Min(Session(day)) + (last - first)}
  BY DEF MatchedWindow, last, first
<1>9. Min(Session(day)) + (last - first) = last - o
  BY <1>2, <1>4, <1>7
<1>10. \A m \in whole : m - o <= last - o <=> m <= last
  BY <1>2, <1>3, <1>4
<1>11. ASSUME NEW b \in MatchedWindow(day) PROVE b \in Back(Current, o)
  <2>1. PICK m \in whole : b = m - o
    BY <1>5, <1>8, <1>11 DEF Back
  <2>2. m <= last
    BY <1>8, <1>9, <1>10, <1>11, <2>1
  <2> QED
    BY <1>3, <2>1, <2>2 DEF Back
<1>12. ASSUME NEW m \in Current PROVE m - o \in MatchedWindow(day)
  <2>1. m \in whole /\ m <= last
    BY <1>3, <1>12
  <2>2. m - o \in Session(day) /\ m - o <= last - o
    BY <1>5, <1>10, <2>1 DEF Back
  <2> QED
    BY <1>8, <1>9, <2>2
<1> QED
  BY <1>11, <1>12 DEF Back, o

\* The matched volumes are summed as a function of their days.
LEMMA MatchedSummed ==
  ASSUME NEW f, NEW D, \A day \in D : f[day] = Volume(MatchedWindow(day))
  PROVE  MapThenSumSet(LAMBDA day : Volume(MatchedWindow(day)), D) = SumFunctionOnSet(f, D)
<1>1. MapThenSumSet(LAMBDA day : Volume(MatchedWindow(day)), D) =
        (CHOOSE it : it = [s \in SUBSET D |->
             IF s = {} THEN 0 ELSE Volume(MatchedWindow(Some(s))) + it[s \ {Some(s)}]])[D]
  BY Zenon DEF MapThenSumSet, MapThenFoldSet, Some
<1>2. \A it : (it = [s \in SUBSET D |->
                 IF s = {} THEN 0 ELSE Volume(MatchedWindow(Some(s))) + it[s \ {Some(s)}]])
              <=> Iterates(it, f, D)
  <2> SUFFICES ASSUME NEW it, NEW s \in SUBSET D
        PROVE (IF s = {} THEN 0 ELSE Volume(MatchedWindow(Some(s))) + it[s \ {Some(s)}]) =
              (IF s = {} THEN 0 ELSE f[Some(s)] + it[s \ {Some(s)}])
    BY Zenon DEF Iterates
  <2>1. CASE s = {}
    BY <2>1
  <2>2. CASE s # {}
    <3>1. Some(s) \in s
      BY <2>2 DEF Some
    <3> QED
      BY <2>2, <3>1
  <2> QED
    BY <2>1, <2>2
<1> QED
  BY <1>1, <1>2, SumIsIterated, Zenon

\* A session that has bars has volume.
LEMMA VolumePositive ==
  ASSUME BarsOK, NEW M \in SUBSET bars, M # {}
  PROVE  Volume(M) \in Nat /\ Volume(M) > 0
<1>1. In(M) # {} /\ IsFiniteSet(In(M)) /\ In(M) \in SUBSET DOMAIN tape
  BY RangeFacts
<1>2. \A i \in In(M) : Sizes[i] \in Int /\ Sizes[i] > 0
  BY <1>1, TradeFacts DEF Sizes, BarsOK
<1>3. SumFunctionOnSet(Sizes, In(M)) > 0
  BY <1>1, <1>2, SumSigned
<1> QED
  BY <1>1, <1>3, SizesSummed, VolumeFacts DEF Volume

LEMMA VolumeMatches ==
  ASSUME BarsOK, Repeats, HasSessions
  PROVE  /\ MatchedVolume = Lookback * Volume(Current)
         /\ Volume(Current) * Lookback \in Nat /\ Volume(Current) * Lookback > 0
<1> DEFINE v == Volume(Current)
           f == [day \in LookbackDates |-> v]
<1>1. /\ Current # {} /\ Current \in SUBSET bars /\ \A m \in Current : Date(m) = Today
  BY SessionFacts DEF Current, HasSessions
<1>2. v \in Nat /\ v > 0 /\ Lookback \in Nat /\ Lookback > 0
  BY <1>1, VolumePositive, Constants DEF BarsOK
<1>3. /\ LookbackDates \in SUBSET PriorDates /\ IsFiniteSet(PriorDates)
      /\ Cardinality(LookbackDates) = Lookback
  BY LookbackFacts, PriorFacts
<1>4. \A day \in LookbackDates : Volume(MatchedWindow(day)) = v
  <2>1. \A day \in LookbackDates : day \in 0..(Today - 1)
    BY <1>3 DEF PriorDates
  <2> QED
    BY <1>1, <2>1, MatchedMoved, DealtMoved
<1> HIDE DEF v
<1>5. MatchedVolume = SumFunctionOnSet(f, LookbackDates)
  BY <1>4, MatchedSummed DEF MatchedVolume
<1>6. IsFiniteSet(LookbackDates)
  BY <1>3, FS_Subset
<1>7. SumFunctionOnSet(f, LookbackDates) = Cardinality(LookbackDates) * v
  BY <1>2, <1>6, SumOfEquals
<1>8. v * Lookback \in Nat /\ v * Lookback > 0
  BY <1>2
<1> QED
  BY <1>3, <1>5, <1>7, <1>8 DEF v

\* When the session is over, so are its ranges.
LEMMA RangesMatch ==
  ASSUME BarsOK, Repeats, HasSessions, Max(Current) = At(Today, Window[contract].end)
  PROVE  /\ RangeSum = Lookback * SessionRange(Current) /\ SessionRange(Current) \in Int
<1> DEFINE v == SessionRange(Current)
           f == [day \in LookbackDates |-> v]
           whole == WholeSession(tape, contract, Today)
<1>1. /\ Current # {} /\ Current \in SUBSET bars /\ \A m \in Current : Date(m) = Today
  BY SessionFacts DEF Current, HasSessions
<1>2. Current = whole
  <2>1. Current = {m \in whole : m <= Max(Current)}
    BY <1>1, SessionsWhole DEF Upto
  <2>2. /\ QueryEnd = Max(Current) + 1 /\ QueryEnd \in Nat
        /\ Max(Current) \in Nat
    <3>1. Current \in SUBSET Nat /\ \A m \in Current : m <= QueryEnd /\ QueryEnd \in Nat
      BY <1>1, SessionFacts DEF Current
    <3> QED
      BY <1>1, <3>1, MaxIsGreatest DEF QueryEnd
  <2>3. \A m \in whole : m \in Nat /\ m < QueryEnd
    BY BarsAsked DEF WholeSession, WholeWindow
  <2>4. \A m \in whole : m <= Max(Current)
    BY <2>2, <2>3
  <2> QED
    BY <2>1, <2>4
<1>3. /\ LookbackDates \in SUBSET PriorDates /\ IsFiniteSet(PriorDates)
      /\ Cardinality(LookbackDates) = Lookback
  BY LookbackFacts, PriorFacts
<1>4. \A day \in LookbackDates : SessionRange(Session(day)) = v
  <2>1. \A day \in LookbackDates : day \in 0..(Today - 1)
    BY <1>3 DEF PriorDates
  <2>2. \A day \in 0..(Today - 1) : Session(day) = Back(Current, Since(day))
    BY <1>1, <1>2, SessionMoved
  <2> QED
    BY <1>1, <2>1, <2>2, DealtMoved DEF SessionRange
<1>5. v \in Nat
  <2>1. /\ In(Current) # {} /\ Low(Current) \in Int /\ High(Current) \in Int
        /\ \A i \in In(Current) : Low(Current) <= tape[i].price /\ tape[i].price <= High(Current)
        /\ \E i \in In(Current) : Low(Current) = tape[i].price
    BY <1>1, RangeFacts
  <2>2. Low(Current) <= High(Current)
    BY <2>1
  <2> QED
    BY <2>1, <2>2 DEF SessionRange
<1> HIDE DEF v
<1>6. RangeSum = SumFunctionOnSet(f, LookbackDates)
  BY <1>4, RangesSummed DEF RangeSum
<1>7. IsFiniteSet(LookbackDates)
  BY <1>3, FS_Subset
<1>8. SumFunctionOnSet(f, LookbackDates) = Cardinality(LookbackDates) * v
  BY <1>5, <1>7, SumOfEquals
<1> QED
  BY <1>3, <1>5, <1>6, <1>8 DEF v

-----------------------------------------------------------------------------
(* An average day.                                                         *)

\* A run that has a source has prior sessions that moved.
MarketMoves == step \in {"delta", "compile", "compiled"} => RangeSum > 0

LEMMA MovedSessions ==
  ASSUME BarsOK, HasSessions, \A day \in LookbackDates : SessionRange(Session(day)) > 0
  PROVE  RangeSum > 0
<1> DEFINE f == [day \in LookbackDates |-> SessionRange(Session(day))]
<1>1. /\ LookbackDates \in SUBSET PriorDates /\ IsFiniteSet(PriorDates)
      /\ LookbackDates # {}
  BY LookbackFacts, PriorFacts
<1>2. ASSUME NEW day \in LookbackDates PROVE f[day] \in Int /\ f[day] > 0
  <2>1. Session(day) # {} /\ Session(day) \in SUBSET bars
    BY <1>1, SessionFacts DEF PriorDates
  <2>2. Low(Session(day)) \in Int /\ High(Session(day)) \in Int
    BY <2>1, RangeFacts
  <2> QED
    BY <2>2 DEF SessionRange
<1>3. IsFiniteSet(LookbackDates)
  BY <1>1, FS_Subset
<1>4. RangeSum = SumFunctionOnSet(f, LookbackDates)
  BY RangesSummed DEF RangeSum
<1> HIDE DEF f
<1>5. SumFunctionOnSet(f, LookbackDates) > 0
  BY <1>1, <1>2, <1>3, SumSigned
<1> QED
  BY <1>4, <1>5

LEMMA MovesInvariant == Spec => []MarketMoves
<1>1. Init => MarketMoves
  BY DEF Init, MarketMoves
<1>2. ASSUME BarsOK, Sourced, MarketMoves, [Next]_vars PROVE MarketMoves'
  <2>1. ASSUME UNCHANGED <<tape, contract, bars, trades>>, RangeSum > 0 PROVE MarketMoves'
    BY <2>1, SameSums DEF MarketMoves
  <2>2. ASSUME step' \in {"bars", "trades", "source", "refused"} PROVE MarketMoves'
    BY <2>2 DEF MarketMoves
  <2>3. ASSUME UNCHANGED <<tape, contract, bars, trades>>,
               step \in {"delta", "compile", "compiled"} \/ step' = step
        PROVE  MarketMoves'
    <3>1. CASE step \in {"delta", "compile", "compiled"}
      BY <1>2, <2>1, <2>3, <3>1 DEF MarketMoves
    <3>2. CASE step \notin {"delta", "compile", "compiled"}
      BY <2>3, <3>2 DEF MarketMoves
    <3> QED
      BY <3>1, <3>2
  <2>4. CASE Tick \/ UNCHANGED vars
    BY <2>3, <2>4 DEF Tick, vars
  <2>5. CASE GetBars \/ GetTrades \/ Again
    BY <2>2, <2>5 DEF GetBars, GetTrades, Again
  <2>6. CASE GetDelta \/ Compile
    BY <2>2, <2>3, <2>6 DEF GetDelta, Compile, CompileES, CompileCL, CompileNQ, CompileMGC,
                            CompileSixE, CompileFields, Refused
  <2>7. CASE Load
    <3>1. CASE Refused
      BY <2>2, <3>1 DEF Refused
    <3>2. CASE ~Refused /\ contract = "ES"
      <4>1. LoadsES /\ UNCHANGED <<tape, contract, bars, trades>>
        BY <2>7, <3>2 DEF Load, LoadES, LoadCL, LoadNQ, LoadMGC, LoadSixE, Loaded
      <4>2. HasSessions /\ \A day \in LookbackDates : SessionRange(Session(day)) > 0
        BY <4>1 DEF LoadsES, MarketHasMoved
      <4> QED
        BY <1>2, <2>1, <4>1, <4>2, MovedSessions
    <3>3. CASE ~Refused /\ contract # "ES"
      <4>1. \E I : LoadsFields(I) /\ UNCHANGED <<tape, contract, bars, trades>>
        BY <2>7, <3>3 DEF Load, LoadES, LoadCL, LoadNQ, LoadMGC, LoadSixE, LoadFields, Loaded
      <4>2. PICK I : LoadsFields(I) /\ UNCHANGED <<tape, contract, bars, trades>>
        BY <4>1
      <4>3. SourceFields(I).avg_20d_session_range.sum > 0
        BY <4>2 DEF LoadsFields, MarketFieldsValid
      <4>4. SourceFields(I).avg_20d_session_range = AverageRange(tape, contract, RangeSum)
        BY DEF SourceFields, MarketFields
      <4>5. RangeSum \in Nat
        BY <1>2, <4>2, RangesStand DEF LoadsFields
      <4>6. PICK given \in Nat, n \in Nat :
              /\ AverageRange(tape, contract, RangeSum) = [sum |-> given, sessions |-> n]
              /\ given > 0 => RangeSum > 0
        BY <1>2, <4>5, AverageFacts DEF BarsOK
      <4>7. RangeSum > 0
        BY <4>3, <4>4, <4>6
      <4> QED
        BY <2>1, <4>2, <4>7
    <3> QED
      BY <3>1, <3>2, <3>3
  <2> QED
    BY <1>2, <2>4, <2>5, <2>6, <2>7 DEF Next
<1> QED
  BY <1>1, <1>2, BarsInvariant, SourcedInvariant, PTL DEF Spec

\* The profile of trades that were all made so much earlier is the same.
LEMMA AggregateMoved ==
  ASSUME tape \in Tapes, NEW V, NEW W, NEW c \in Int, IsFiniteSet(DOMAIN tape \cap V),
         DOMAIN tape \cap W = Back(DOMAIN tape \cap V, c),
         \A i \in DOMAIN tape \cap V : tape[i - c] = tape[i]
  PROVE  Aggregate(tape, V) = Aggregate(tape, W)
<1> DEFINE A == DOMAIN tape \cap V
           B == DOMAIN tape \cap W
           sized(S, p) == MapThenSumSet(LAMBDA i : tape[i].size, {i \in S : tape[i].price = p})
           nth(prices, n) == CHOOSE p \in prices : Cardinality({q \in prices : q <= p}) = n
           prices(S) == {tape[i].price : i \in S}
           made(S) == [n \in 1..Cardinality(prices(S)) |->
                         [price |-> nth(prices(S), n), volume |-> sized(S, nth(prices(S), n))]]
<1>1. Aggregate(tape, V) = made(A) /\ Aggregate(tape, W) = made(B)
  BY Zenon DEF Aggregate
<1>2. prices(A) = prices(B)
  <2>1. \A i \in A : i - c \in B /\ tape[i - c].price = tape[i].price
    BY DEF Back
  <2>2. \A j \in B : \E i \in A : tape[j].price = tape[i].price
    BY DEF Back
  <2> HIDE DEF A, B
  <2> QED
    BY <2>1, <2>2
<1>3. ASSUME NEW p PROVE sized(A, p) = sized(B, p)
  <2> DEFINE T == {i \in A : tape[i].price = p}
             U == {i \in B : tape[i].price = p}
  <2>1. U = Back(T, c)
    <3>1. \A i \in T : i - c \in U
      BY DEF Back
    <3>2. \A j \in U : \E i \in T : j = i - c
      BY DEF Back
    <3> HIDE DEF T, U
    <3> QED
      BY <3>1, <3>2 DEF Back
  <2>2. T \in SUBSET DOMAIN tape /\ U \in SUBSET DOMAIN tape /\ IsFiniteSet(T)
    BY FS_Subset
  <2>3. \A i \in T : i \in Int /\ Sizes[i] \in Nat /\ Sizes[i - c] = Sizes[i]
    <3>1. \A i \in T : i \in DOMAIN tape /\ i - c \in DOMAIN tape /\ tape[i - c] = tape[i]
      BY DEF Back
    <3> HIDE DEF T
    <3> QED
      BY <3>1, TradeFacts, MinutesAreNatural DEF Sizes
  <2> HIDE DEF T, U
  <2>4. SumFunctionOnSet(Sizes, U) = SumFunctionOnSet(Sizes, T)
    BY <2>1, <2>2, <2>3, SumMoved DEF Back
  <2>5. MapThenSumSet(LAMBDA i : tape[i].size, T) = MapThenSumSet(LAMBDA i : tape[i].size, U)
    BY <2>2, <2>4, SizesSummed
  <2> QED
    BY <2>5 DEF T, U
<1> HIDE DEF sized, nth, prices, A, B
<1>4. made(A) = made(B)
  BY <1>2, <1>3
<1> QED
  BY <1>1, <1>4

\* When the session is over, its profile is of all its trades.
LEMMA ProfileWhole ==
  ASSUME BarsOK, Follows, HasSessions, step = "compiled",
         Max(Current) = At(Today, Window[contract].end)
  PROVE  Profile(Instants) = Aggregate(tape, DayBounds(contract, Today))
<1> DEFINE start == At(Today, Window[contract].start)
           end == At(Today, Window[contract].end)
<1>1. /\ Current # {} /\ Current \in SUBSET Nat /\ QueryEnd \in Nat /\ tape \in Tapes
      /\ \A m \in Current : m <= QueryEnd /\ m \in bars
  BY SessionFacts DEF Current, BarsOK, HasSessions
<1>2. /\ Max(Current) \in Current /\ Max(Current) \in Nat /\ \A m \in Current : m <= Max(Current)
      /\ Min(Current) \in Current /\ Min(Current) \in Nat /\ \A m \in Current : Min(Current) <= m
  BY <1>1, MaxIsGreatest, MinIsLeast
<1>3. start \in Nat /\ end \in Nat /\ end = Max(Current) /\ Bounds(Today) = DayBounds(contract, Today)
      /\ Bounds(Today) = (2 * start)..(2 * end)
  <2>1. /\ DayLength \in Nat /\ Today \in Nat
        /\ Window[contract].start \in Nat /\ Window[contract].end \in Nat
    BY Constants DEF BarsOK
  <2>2. Today * DayLength \in Nat
    BY <2>1
  <2> QED
    BY <2>1, <2>2 DEF At, Bounds, DayBounds
<1> HIDE DEF start, end
<1>4. ASSUME NEW i \in DOMAIN tape, i \in Bounds(Today)
      PROVE  i \in Instants /\ i \in trades
  <2>1. i \in Nat /\ Minute(i) \in Nat /\ 2 * start <= i /\ i <= 2 * end
    BY <1>1, <1>3, <1>4, MinutesAreNatural
  <2>2. start <= Minute(i) /\ Minute(i) <= end /\ i <= 2 * Max(Current) + 1
    BY <1>3, <2>1 DEF Minute
  <2>3. i \in In(Current)
    BY <1>1, <2>2, TradesHaveBars DEF start, end
  <2>4. Minute(i) \in Current
    BY <1>1, <2>3, InTheMinutes
  <2>5. i \in trades
    <3>1. Minute(i) \in bars /\ Minute(i) <= Minute(i)
      BY <1>1, <2>1, <2>4
    <3> QED
      BY <3>1 DEF Follows
  <2>6. i \in Observed
    <3>1. Min(Current) <= Minute(i) /\ i <= 2 * Max(Current)
      BY <1>2, <1>3, <2>1, <2>4
    <3>2. 2 * Min(Current) <= i
      BY <1>2, <2>1, <3>1 DEF Minute
    <3> QED
      BY <1>2, <2>1, <3>1, <3>2 DEF Observed
  <2> QED
    BY <1>4, <2>5, <2>6 DEF Instants, SessionTrades
<1>5. \A i \in Instants : i \in Bounds(Today)
  BY <1>1, ObservedInBounds DEF Instants, SessionTrades
<1>6. DOMAIN tape \cap (Instants \cap trades) = DOMAIN tape \cap DayBounds(contract, Today)
  BY <1>3, <1>4, <1>5
<1>7. ASSUME NEW A, NEW B, DOMAIN tape \cap A = DOMAIN tape \cap B
      PROVE  Aggregate(tape, A) = Aggregate(tape, B)
  BY <1>7, Zenon DEF Aggregate
<1>8. Profile(Instants) = Aggregate(tape, Instants \cap trades)
  BY DEF Profile
<1> QED
  BY <1>6, <1>7, <1>8

\* The trades of a day's session are today's, moved.
LEMMA BoundsMoved ==
  ASSUME BarsOK, Repeats, NEW day \in 0..(Today - 1)
  PROVE  /\ DOMAIN tape \cap DayBounds(contract, day) =
              Back(DOMAIN tape \cap DayBounds(contract, Today), 2 * Since(day))
         /\ \A i \in DOMAIN tape \cap DayBounds(contract, Today) : tape[i - 2 * Since(day)] = tape[i]
         /\ IsFiniteSet(DOMAIN tape \cap DayBounds(contract, Today))
<1> DEFINE o == Since(day)
           base == day * DayLength
           start == Window[contract].start
           end == Window[contract].end
<1>1. /\ o \in Nat /\ day \in Nat /\ Today \in Nat /\ base \in Nat
      /\ Today * DayLength = base + o
      /\ start \in Nat /\ end \in Nat /\ end < DayLength
  BY SinceFacts, Constants DEF BarsOK
<1>2. /\ DayBounds(contract, day) = (2 * (base + start))..(2 * (base + end))
      /\ DayBounds(contract, Today) = (2 * (base + o + start))..(2 * (base + o + end))
  BY <1>1 DEF DayBounds, At
<1>3. ASSUME NEW i \in DOMAIN tape, i \in DayBounds(contract, Today)
      PROVE  i \in Nat /\ Minute(i) \in Nat /\ Date(Minute(i)) = Today
  <2>1. i \in Nat /\ Minute(i) \in Nat
    BY MinutesAreNatural DEF BarsOK
  <2> HIDE DEF o, base, start, end
  <2>2. base + o + start <= Minute(i) /\ Minute(i) <= base + o + end
    BY <1>1, <1>2, <1>3, <2>1 DEF Minute
  <2>3. Today * DayLength + start <= Minute(i) /\ Minute(i) <= Today * DayLength + end
    BY <1>1, <2>2
  <2> QED
    BY <1>1, <2>1, <2>3, BetweenIsWithin
<1>4. ASSUME NEW i \in DOMAIN tape, i \in DayBounds(contract, day)
      PROVE  i \in Nat /\ Minute(i) \in Nat /\ Date(Minute(i)) = day
  <2>1. i \in Nat /\ Minute(i) \in Nat
    BY MinutesAreNatural DEF BarsOK
  <2> HIDE DEF o, base, start, end
  <2>2. base + start <= Minute(i) /\ Minute(i) <= base + end
    BY <1>1, <1>2, <1>4, <2>1 DEF Minute
  <2> QED
    BY <1>1, <2>1, <2>2, BetweenIsWithin DEF base
<1> HIDE DEF o, base, start, end
<1>5. ASSUME NEW i \in DOMAIN tape, i \in DayBounds(contract, Today)
      PROVE  /\ i - 2 * o \in DOMAIN tape /\ tape[i - 2 * o] = tape[i]
             /\ i - 2 * o \in DayBounds(contract, day)
  <2>1. i - 2 * o \in DOMAIN tape /\ tape[i - 2 * o] = tape[i]
    BY <1>3, <1>5, TradesMoved DEF o
  <2>2. i - 2 * o \in DayBounds(contract, day)
    BY <1>1, <1>2, <1>3, <1>5
  <2> QED
    BY <2>1, <2>2
<1>6. ASSUME NEW i \in DOMAIN tape, i \in DayBounds(contract, day)
      PROVE  /\ i + 2 * o \in DOMAIN tape /\ i = (i + 2 * o) - 2 * o
             /\ i + 2 * o \in DayBounds(contract, Today)
  <2>1. i + 2 * o \in DOMAIN tape
    BY <1>4, <1>6, TradesMoved DEF o
  <2>2. i + 2 * o \in DayBounds(contract, Today) /\ i = (i + 2 * o) - 2 * o
    BY <1>1, <1>2, <1>4, <1>6
  <2> QED
    BY <2>1, <2>2
<1>7. DOMAIN tape \cap DayBounds(contract, day) =
        Back(DOMAIN tape \cap DayBounds(contract, Today), 2 * o)
  BY <1>5, <1>6 DEF Back
<1>8. IsFiniteSet(DOMAIN tape \cap DayBounds(contract, Today))
  <2> DEFINE S == DOMAIN tape \cap DayBounds(contract, Today)
  <2>1. \A i \in S : i \in Nat /\ i <= 2 * (base + o + end)
    BY <1>1, <1>2, <1>3
  <2>2. S \in SUBSET Nat /\ 2 * (base + o + end) \in Nat
    BY <1>1, <2>1
  <2> HIDE DEF S
  <2>3. IsFiniteSet(S)
    BY <2>1, <2>2, FS_BoundedSetOfNaturals
  <2> QED
    BY <2>3 DEF S
<1> QED
  BY <1>5, <1>7, <1>8 DEF o

LEMMA ProfilesMatch ==
  ASSUME BarsOK, Follows, Repeats, HasSessions, step = "compiled",
         Max(Current) = At(Today, Window[contract].end)
  PROVE  Profile(Instants) = DayProfile(Max(PriorDates))
<1>1. /\ Max(PriorDates) \in 0..(Today - 1)
      /\ Max(PriorDates) = Max(DatesTraded(tape, contract))
  BY DatesWhole
<1>2. DayProfile(Max(PriorDates)) = Aggregate(tape, DayBounds(contract, Max(PriorDates)))
  BY <1>1, PreviousStands
<1>3. 2 * Since(Max(PriorDates)) \in Int
  BY <1>1, SinceFacts
<1> DEFINE day == Max(PriorDates)
<1> HIDE DEF day
<1>4. Aggregate(tape, DayBounds(contract, Today)) = Aggregate(tape, DayBounds(contract, day))
  BY <1>1, <1>3, BoundsMoved, AggregateMoved DEF BarsOK, day
<1> QED
  BY <1>2, <1>4, ProfileWhole DEF day

\* A price at one of the previous session's value levels is near to one of the levels
\* that the market made.
LEMMA NearValue ==
  ASSUME NEW fields, NEW given, NEW threshold \in Nat, fields.current_price \in Int,
         fields.current_price \in {fields.previous_session.vah, fields.previous_session.val,
                                   fields.previous_session.poc}
  PROVE  LevelProximity(fields, given, threshold) \in
           {"near_prior_day_level", "near_overnight_level", "near_previous_session_value_level"}
<1> DEFINE tiers == Tiers(fields, given)
           near == {i \in DOMAIN tiers :
                      \E level \in tiers[i].levels : Apart(fields.current_price, level) <= threshold}
           nearest == CHOOSE i \in near : \A j \in near : i <= j
<1>1. DOMAIN tiers = 1..5
  BY DEF Tiers
<1>2. tiers[3].levels = {fields.previous_session.vah, fields.previous_session.val,
                         fields.previous_session.poc}
  BY DEF Tiers
<1>3. Apart(fields.current_price, fields.current_price) <= threshold
  BY DEF Apart
<1>4. 3 \in near
  BY <1>1, <1>2, <1>3
<1>5. near \in SUBSET Nat /\ near # {}
  BY <1>1, <1>4
<1>6. /\ tiers[1].state = "near_prior_day_level" /\ tiers[2].state = "near_overnight_level"
      /\ tiers[3].state = "near_previous_session_value_level"
  BY DEF Tiers
<1>7. \A i \in near : i \in 1..5
  BY <1>1
<1>8. LevelProximity(fields, given, threshold) = tiers[nearest].state
  BY <1>5, Zenon DEF LevelProximity
<1> HIDE DEF near, tiers
<1>9. nearest \in near /\ nearest <= 3
  BY <1>4, <1>5, LeastNumber
<1>10. nearest \in 1..3
  BY <1>7, <1>9
<1> HIDE DEF nearest
<1> QED
  BY <1>6, <1>8, <1>10

\* What is within n of each other n-fold is within one.
LEMMA WithinOne ==
  ASSUME NEW n \in Nat, n > 0, NEW x \in Int, NEW y \in Int,
         x * n <= y * n + n, y * n <= x * n + n
  PROVE  x <= y + 1 /\ y <= x + 1
<1>1. ASSUME NEW u \in Int, NEW v \in Int, u * n <= v * n + n PROVE u <= v + 1
  <2> SUFFICES ASSUME v + 2 <= u PROVE FALSE
    BY <1>1
  <2>1. (v + 2) * n <= u * n /\ (v + 2) * n \in Int /\ u * n \in Int
    BY Scaled
  <2>2. (v + 2) * n = v * n + 2 * n /\ v * n \in Int
    OBVIOUS
  <2> QED
    BY <1>1, <2>1, <2>2
<1> QED
  BY <1>1

LEMMA AverageRead ==
  ASSUME BarsOK, Sourced, Follows, MarketMoves
  PROVE  AverageDayReadsAverage
<1> SUFFICES ASSUME step = "compiled", Repeats
    PROVE  LET fields == packet.fields
               read == Reading(fields, 0)
           IN  /\ read.volume_participation_state = "normal"
               /\ fields.timestamp = At(Today, Window[contract].end) =>
                    /\ contract # "6E" \/ fields.session_range > 6 => read.range_expansion_state = "normal"
                    /\ fields.current_session = fields.previous_session
                    /\ fields.current_price \in {fields.current_session.vah, fields.current_session.val,
                                                 fields.current_session.poc} =>
                         read.level_proximity_state \notin
                           {"clear_of_structure", "near_major_htf_level", "near_key_hvn_lvn"}
  BY DEF AverageDayReadsAverage
<1> DEFINE fields == packet.fields
           read == Reading(fields, 0)
           threshold == LEVEL_PROXIMITY_THRESHOLD_TICKS[contract]
<1>1. HasSessions /\ FieldsMade(fields)
  BY DEF Sourced
<1>2. /\ fields.timestamp = Max(Current)
      /\ fields.current_session = DeriveProfileLevels(Profile(Instants))
      /\ fields.previous_session = DeriveProfileLevels(DayProfile(Max(PriorDates)))
      /\ fields.session_range = SessionRange(Current)
      /\ fields.avg_20d_session_range = AverageRange(tape, contract, RangeSum)
      /\ fields.current_volume_vs_average = [volume |-> Volume(Current) * Lookback, matched |-> MatchedVolume]
  BY <1>1 DEF FieldsMade, MarketFields
<1>3. /\ read.volume_participation_state = VolumeParticipation(fields)
      /\ read.range_expansion_state = RangeExpansion(fields)
      /\ read.level_proximity_state = LevelProximity(fields, OperatorLevels, threshold)
  BY DEF Reading, MarketRead
<1>4. VolumeParticipation(fields) = "normal"
  <2> DEFINE x == Volume(Current) * Lookback
  <2>1. MatchedVolume = x /\ x \in Nat /\ x > 0
    <3>1. /\ MatchedVolume = Lookback * Volume(Current)
          /\ Volume(Current) * Lookback \in Nat /\ Volume(Current) * Lookback > 0
      BY <1>1, VolumeMatches
    <3>2. Lookback \in Nat /\ Volume(Current) \in Nat
      <4>1. Current \in SUBSET bars
        BY SessionFacts DEF Current
      <4> QED
        BY <4>1, Constants, VolumeFacts DEF BarsOK
    <3>3. Lookback * Volume(Current) = Volume(Current) * Lookback
      BY <3>2
    <3> QED
      BY <3>1, <3>3
  <2>2. fields.current_volume_vs_average.volume = x /\ fields.current_volume_vs_average.matched = x
    BY <1>2, <2>1
  <2> HIDE DEF x, fields
  <2> QED
    BY <2>1, <2>2 DEF VolumeParticipation
<1>5. ASSUME fields.timestamp = At(Today, Window[contract].end),
             contract # "6E" \/ fields.session_range > 6
      PROVE  RangeExpansion(fields) = "normal"
  <2> DEFINE r == SessionRange(Current)
             x == r * Lookback
  <2>1. RangeSum = x /\ x \in Int /\ x > 0 /\ r \in Int /\ Lookback \in Nat /\ Lookback > 0
    <3>1. RangeSum = Lookback * SessionRange(Current) /\ SessionRange(Current) \in Int
      BY <1>1, <1>2, <1>5, RangesMatch
    <3>2. Lookback \in Nat /\ Lookback > 0 /\ RangeSum > 0
      BY Constants DEF BarsOK, MarketMoves
    <3>3. Lookback * SessionRange(Current) = SessionRange(Current) * Lookback /\ x \in Int
      BY <3>1, <3>2
    <3> QED
      BY <3>1, <3>2, <3>3
  <2>2. CASE contract # "6E"
    <3>1. /\ fields.session_range * fields.avg_20d_session_range.sessions = x
          /\ fields.avg_20d_session_range.sum = x
      BY <1>2, <2>1, <2>2 DEF AverageRange
    <3> HIDE DEF x, fields
    <3> QED
      BY <2>1, <3>1 DEF RangeExpansion
  <2>3. CASE contract = "6E"
    <3> DEFINE even == EvenTicks(RangeSum, Lookback, HalvesUp[tape])
    <3>1. /\ fields.session_range = r /\ fields.avg_20d_session_range.sessions = 1
          /\ fields.avg_20d_session_range.sum = even /\ r > 6
      BY <1>2, <1>5, <2>3 DEF AverageRange
    <3>2. HalvesUp[tape] \in BOOLEAN /\ RangeSum \in Nat
      BY <2>1, FloatAssumption DEF BarsOK
    <3>3. /\ even \in Nat /\ even * Lookback \in Nat
          /\ even * Lookback <= r * Lookback + Lookback
          /\ r * Lookback <= even * Lookback + Lookback
      BY <2>1, <3>2, EvenNearest
    <3> HIDE DEF x, fields, r, even
    <3>4. even <= r + 1 /\ r <= even + 1
      BY <2>1, <3>3, WithinOne
    <3>5. RangeExpansion(fields) = IF 5 * (r * 1) >= 6 * even THEN "expanded"
                                   ELSE IF 5 * (r * 1) <= 4 * even THEN "compressed" ELSE "normal"
      BY <3>1 DEF RangeExpansion
    <3> QED
      BY <2>1, <3>1, <3>3, <3>4, <3>5
  <2> QED
    BY <2>2, <2>3
<1>6. ASSUME fields.timestamp = At(Today, Window[contract].end)
      PROVE  fields.current_session = fields.previous_session
  BY <1>1, <1>2, <1>6, ProfilesMatch
<1>7. ASSUME fields.timestamp = At(Today, Window[contract].end),
             fields.current_price \in {fields.current_session.vah, fields.current_session.val,
                                       fields.current_session.poc}
      PROVE  LevelProximity(fields, OperatorLevels, threshold) \notin
               {"clear_of_structure", "near_major_htf_level", "near_key_hvn_lvn"}
  <2>1. threshold \in Nat
    BY ReadAssumption DEF BarsOK
  <2>2. fields.current_price \in Int
    BY PacketTyped
  <2>3. fields.current_price \in {fields.previous_session.vah, fields.previous_session.val,
                                  fields.previous_session.poc}
    BY <1>6, <1>7
  <2> HIDE DEF fields, threshold
  <2>4. LevelProximity(fields, OperatorLevels, threshold) \in
          {"near_prior_day_level", "near_overnight_level", "near_previous_session_value_level"}
    BY <2>1, <2>2, <2>3, NearValue
  <2> QED
    BY <2>4
<1> QED
  BY <1>3, <1>4, <1>5, <1>6, <1>7

\* Whatever the market trades every day alike, the day reads as an average one.
THEOREM AverageDayIsAverage == Spec => []AverageDayReadsAverage
<1>1. BarsOK /\ Sourced /\ Follows /\ MarketMoves => AverageDayReadsAverage
  BY AverageRead
<1> QED
  BY <1>1, BarsInvariant, SourcedInvariant, FollowsInvariant, MovesInvariant, PTL
=============================================================================
