--------------------------- MODULE ValueAreaProofs ---------------------------
(***************************************************************************)
(* Proofs about ValueArea for every profile: the area is one run of levels *)
(* around the point of control, the levels returned are ordered as the     *)
(* input models demand, the area holds 70% of the volume and needs each of *)
(* the levels it took in, and the data sources' copy of the derivation     *)
(* gives the same levels.  Folds and recursive functions are reasoned      *)
(* about through a smallest counterexample: a set of finite sets has a     *)
(* smallest one, and a set of naturals a least one.                        *)
(***************************************************************************)
EXTENDS ValueArea, FiniteSetTheorems, TLAPS

Answer == [poc: Int, vah: Int, val: Int]

\* What CLHistoricalDataInput and the other input models check of the levels.
Ordered == answer # Null => answer.val <= answer.poc /\ answer.poc <= answer.vah

IInv == TypeOK /\ OneRunAroundPoc /\ Ordered

-----------------------------------------------------------------------------
(* Sums over finite sets.                                                  *)

\* A set of subsets of a finite set has a member that contains no other.
LEMMA SmallestSet ==
  ASSUME NEW S, IsFiniteSet(S), NEW D \in SUBSET SUBSET S, D # {}
  PROVE  \E T \in D : \A U \in D : U \subseteq T => U = T
<1>1. IsWellFoundedOn(StrictSubsetOrdering(S), SUBSET S)
  BY FS_StrictSubsetOrderingWellFounded, FS_FiniteSubsetsOfFinite
<1>2. PICK T \in D : \A U \in D : ~(<<U, T>> \in StrictSubsetOrdering(S))
  BY <1>1, WFMin
<1>3. \A U \in D : U \subseteq T /\ U # T => <<U, T>> \in StrictSubsetOrdering(S)
  BY DEF StrictSubsetOrdering
<1>4. \A U \in D : U \subseteq T => U = T
  BY <1>2, <1>3
<1> QED
  BY <1>4, Zenon

\* A set of naturals has a least element.
LEMMA LeastNumber ==
  ASSUME NEW D \in SUBSET Nat, D # {}
  PROVE  \E n \in D : \A m \in D : n <= m
<1>1. PICK n \in D : \A m \in D : ~(<<m, n>> \in OpToRel(<, Nat))
  BY NatLessThanWellFounded, WFMin
<1>2. \A m \in D : m < n => <<m, n>> \in OpToRel(<, Nat)
  BY DEF OpToRel
<1>3. \A m \in D : n \in Nat /\ m \in Nat /\ ~(m < n)
  BY <1>1, <1>2
<1>4. \A m \in D : n <= m
  BY <1>3
<1> QED
  BY <1>4, Zenon

Some(S) == CHOOSE x \in S : TRUE

\* What SumFunctionOnSet is made of: it is a table of the sums of the subsets of S.
Iterates(it, fun, S) ==
  it = [s \in SUBSET S |-> IF s = {} THEN 0 ELSE fun[Some(s)] + it[s \ {Some(s)}]]

LEMMA SumIsIterated ==
  ASSUME NEW fun, NEW S
  PROVE  SumFunctionOnSet(fun, S) = (CHOOSE it : Iterates(it, fun, S))[S]
BY Zenon DEF SumFunctionOnSet, FoldFunctionOnSet, MapThenFoldSet, Iterates, Some

\* Two tables agree on the subsets that both have.
LEMMA TablesAgree ==
  ASSUME NEW fun, NEW V, IsFiniteSet(V), NEW U \in SUBSET V,
         NEW i, Iterates(i, fun, U), NEW j, Iterates(j, fun, V)
  PROVE  \A s \in SUBSET U : i[s] = j[s]
<1> DEFINE D == {s \in SUBSET U : i[s] # j[s]}
<1> SUFFICES ASSUME D # {} PROVE FALSE
  OBVIOUS
<1>1. IsFiniteSet(U)
  BY FS_Subset
<1>2. PICK s \in D : \A t \in D : t \subseteq s => t = s
  <2>1. D \in SUBSET SUBSET U
    OBVIOUS
  <2> HIDE DEF D
  <2> QED
    BY <1>1, <2>1, SmallestSet
<1>3. s \in SUBSET U /\ s \in SUBSET V /\ i[s] # j[s]
  BY <1>2
<1>4. s # {}
  BY <1>3 DEF Iterates
<1>5. Some(s) \in s
  BY <1>4 DEF Some
<1>6. s \ {Some(s)} \in SUBSET U /\ s \ {Some(s)} # s
  BY <1>3, <1>5
<1>7. i[s \ {Some(s)}] = j[s \ {Some(s)}]
  BY <1>2, <1>6
<1>8. /\ i[s] = fun[Some(s)] + i[s \ {Some(s)}]
      /\ j[s] = fun[Some(s)] + j[s \ {Some(s)}]
  BY <1>3, <1>4 DEF Iterates
<1> QED
  BY <1>3, <1>7, <1>8

\* Every finite set has a table.
LEMMA TableExists ==
  ASSUME NEW fun, NEW S, IsFiniteSet(S)
  PROVE  \E it : Iterates(it, fun, S)
<1> DEFINE D == {T \in SUBSET S : ~\E it : Iterates(it, fun, T)}
           I(T) == CHOOSE it : Iterates(it, fun, T)
<1> SUFFICES ASSUME D # {} PROVE FALSE
  OBVIOUS
<1>1. PICK T \in D : \A U \in D : U \subseteq T => U = T
  <2>1. D \in SUBSET SUBSET S
    OBVIOUS
  <2> HIDE DEF D
  <2> QED
    BY <2>1, SmallestSet
<1>2. IsFiniteSet(T) /\ T \in SUBSET S
  BY <1>1, FS_Subset
<1>3. \A U \in SUBSET T : U # T => Iterates(I(U), fun, U)
  BY <1>1, <1>2
<1> HIDE DEF D, I
<1>4. ASSUME NEW s \in SUBSET T, s # {} PROVE Some(s) \in s
  BY <1>4 DEF Some
<1> DEFINE c == Some(T)
           it == [s \in SUBSET T |-> IF s = {} THEN 0
                                     ELSE IF s = T THEN fun[c] + I(T \ {c})[T \ {c}]
                                     ELSE I(s)[s]]
<1>5. ASSUME NEW s \in SUBSET T
      PROVE  it[s] = IF s = {} THEN 0 ELSE fun[Some(s)] + it[s \ {Some(s)}]
  <2> DEFINE r == s \ {Some(s)}
  <2>1. CASE s = {}
    BY <2>1
  <2>2. CASE s # {}
    <3>1. Some(s) \in s
      BY <1>4, <2>2
    <3>2. r \in SUBSET T /\ r # T /\ r \in SUBSET s /\ r # s
      BY <3>1
    <3>3. Iterates(I(r), fun, r)
      BY <1>3, <3>2
    <3>4. it[r] = I(r)[r]
      <4>1. CASE r = {}
        <5>1. I(r)[r] = 0
          BY <3>3, <4>1 DEF Iterates
        <5> QED
          BY <3>2, <4>1, <5>1
      <4>2. CASE r # {}
        BY <3>2, <4>2
      <4> QED
        BY <4>1, <4>2
    <3>5. CASE s = T
      BY <2>2, <3>4, <3>5
    <3>6. CASE s # T
      <4>1. it[s] = I(s)[s]
        BY <2>2, <3>6
      <4>2. Iterates(I(s), fun, s)
        BY <1>3, <3>6
      <4>3. I(s)[s] = fun[Some(s)] + I(s)[r]
        BY <2>2, <4>2 DEF Iterates
      <4>4. IsFiniteSet(s)
        BY <1>2, FS_Subset
      <4>5. I(r)[r] = I(s)[r]
        BY <3>2, <3>3, <4>2, <4>4, TablesAgree
      <4> QED
        BY <2>2, <3>4, <4>1, <4>3, <4>5
    <3> QED
      BY <3>5, <3>6
  <2> QED
    BY <2>1, <2>2
<1>6. Iterates(it, fun, T)
  <2>1. it = [s \in SUBSET T |-> IF s = {} THEN 0 ELSE fun[Some(s)] + it[s \ {Some(s)}]]
    BY <1>5
  <2> HIDE DEF it
  <2> QED
    BY <2>1 DEF Iterates
<1> HIDE DEF it
<1> QED
  BY <1>1, <1>6 DEF D

\* The sum of nothing, and of a set without the element that is taken first.
LEMMA SumStep ==
  ASSUME NEW fun, NEW S, IsFiniteSet(S)
  PROVE  /\ SumFunctionOnSet(fun, {}) = 0
         /\ S # {} => SumFunctionOnSet(fun, S) =
                        fun[Some(S)] + SumFunctionOnSet(fun, S \ {Some(S)})
<1> DEFINE I(T) == CHOOSE it : Iterates(it, fun, T)
<1>1. \A T : IsFiniteSet(T) => Iterates(I(T), fun, T)
  BY TableExists
<1>2. \A T : SumFunctionOnSet(fun, T) = I(T)[T]
  BY SumIsIterated
<1> HIDE DEF I
<1>3. IsFiniteSet({}) /\ IsFiniteSet(S \ {Some(S)})
  BY FS_EmptySet, FS_Subset
<1>4. I({})[{}] = 0
  BY <1>1, <1>3 DEF Iterates
<1>5. ASSUME S # {} PROVE I(S)[S] = fun[Some(S)] + I(S \ {Some(S)})[S \ {Some(S)}]
  <2>1. I(S)[S] = fun[Some(S)] + I(S)[S \ {Some(S)}]
    BY <1>1, <1>5 DEF Iterates
  <2>2. Iterates(I(S), fun, S) /\ Iterates(I(S \ {Some(S)}), fun, S \ {Some(S)})
    BY <1>1, <1>3
  <2>3. I(S \ {Some(S)})[S \ {Some(S)}] = I(S)[S \ {Some(S)}]
    <3>1. S \ {Some(S)} \in SUBSET S /\ S \ {Some(S)} \in SUBSET (S \ {Some(S)})
      OBVIOUS
    <3> QED
      BY <2>2, <3>1, TablesAgree
  <2> QED
    BY <2>1, <2>3
<1> QED
  BY <1>2, <1>4, <1>5

\* Sums of naturals are naturals.
LEMMA SumNatural ==
  ASSUME NEW fun, NEW S, IsFiniteSet(S), \A x \in S : fun[x] \in Nat
  PROVE  SumFunctionOnSet(fun, S) \in Nat
<1> DEFINE D == {T \in SUBSET S : SumFunctionOnSet(fun, T) \notin Nat}
<1> SUFFICES ASSUME D # {} PROVE FALSE
  OBVIOUS
<1>1. PICK T \in D : \A U \in D : U \subseteq T => U = T
  <2>1. D \in SUBSET SUBSET S
    OBVIOUS
  <2> HIDE DEF D
  <2> QED
    BY <2>1, SmallestSet
<1>2. T \in SUBSET S /\ IsFiniteSet(T) /\ SumFunctionOnSet(fun, T) \notin Nat
  BY <1>1, FS_Subset
<1>3. T # {}
  <2>1. SumFunctionOnSet(fun, {}) = 0
    BY SumStep
  <2> QED
    BY <1>2, <2>1
<1>4. Some(T) \in T
  BY <1>3 DEF Some
<1>5. T \ {Some(T)} \notin D
  BY <1>1, <1>4
<1>6. SumFunctionOnSet(fun, T \ {Some(T)}) \in Nat
  BY <1>2, <1>5
<1>7. SumFunctionOnSet(fun, T) = fun[Some(T)] + SumFunctionOnSet(fun, T \ {Some(T)})
  BY <1>2, <1>3, SumStep
<1>8. fun[Some(T)] \in Nat
  BY <1>2, <1>4
<1> QED
  BY <1>2, <1>6, <1>7, <1>8

\* Any element may be taken first.
LEMMA SumSplit ==
  ASSUME NEW fun, NEW S, IsFiniteSet(S), \A x \in S : fun[x] \in Nat, NEW x \in S
  PROVE  SumFunctionOnSet(fun, S) = fun[x] + SumFunctionOnSet(fun, S \ {x})
<1> DEFINE Sum(T) == SumFunctionOnSet(fun, T)
           D == {T \in SUBSET S : \E y \in T : Sum(T) # fun[y] + Sum(T \ {y})}
<1> SUFFICES ASSUME D # {} PROVE FALSE
  OBVIOUS
<1>1. PICK T \in D : \A U \in D : U \subseteq T => U = T
  <2>1. D \in SUBSET SUBSET S
    OBVIOUS
  <2> HIDE DEF D
  <2> QED
    BY <2>1, SmallestSet
<1>2. PICK y \in T : Sum(T) # fun[y] + Sum(T \ {y})
  BY <1>1
<1>3. \A U \in SUBSET T : U # T => \A z \in U : Sum(U) = fun[z] + Sum(U \ {z})
  BY <1>1
<1>4. T \in SUBSET S
  BY <1>1
<1>5. \A U \in SUBSET T : IsFiniteSet(U) /\ Sum(U) \in Nat
  <2> TAKE U \in SUBSET T
  <2>1. IsFiniteSet(U) /\ \A z \in U : fun[z] \in Nat
    BY <1>4, FS_Subset
  <2> QED
    BY <2>1, SumNatural
<1> DEFINE c == Some(T)
<1>6. c \in T
  BY <1>2 DEF Some
<1>7. Sum(T) = fun[c] + Sum(T \ {c})
  <2>1. IsFiniteSet(T)
    BY <1>5
  <2> QED
    BY <1>2, <2>1, SumStep
<1> HIDE DEF Sum, D, c
<1>8. y # c
  BY <1>2, <1>7
<1>9. Sum(T \ {c}) = fun[y] + Sum((T \ {c}) \ {y})
  BY <1>2, <1>3, <1>6, <1>8
<1>10. Sum(T \ {y}) = fun[c] + Sum((T \ {y}) \ {c})
  BY <1>2, <1>3, <1>6, <1>8
<1>11. (T \ {c}) \ {y} = (T \ {y}) \ {c}
  OBVIOUS
<1>12. fun[y] \in Nat /\ fun[c] \in Nat /\ Sum((T \ {c}) \ {y}) \in Nat
  BY <1>2, <1>4, <1>5, <1>6
<1> DEFINE w == Sum((T \ {c}) \ {y})
<1>13. Sum(T) = fun[c] + (fun[y] + w) /\ Sum(T \ {y}) = fun[c] + w
  BY <1>7, <1>9, <1>10, <1>11
<1> HIDE DEF w
<1>14. w \in Nat
  BY <1>12 DEF w
<1>15. fun[c] + (fun[y] + w) = fun[y] + (fun[c] + w)
  BY <1>12, <1>14
<1> QED
  BY <1>2, <1>13, <1>15

-----------------------------------------------------------------------------
(* The area is one run.                                                    *)

\* A profile's levels are typed and ascend in price.
LEMMA LevelFacts ==
  ASSUME levels \in Profiles
  PROVE  /\ Len(levels) \in Nat /\ Len(levels) > 0
         /\ \A i \in Indices : levels[i].price \in Int /\ levels[i].volume \in Nat
         /\ \A i, j \in Indices : i <= j => levels[i].price <= levels[j].price
<1>1. levels \in Seq(Level) /\ Len(levels) > 0
  BY ProfilesAssumption
<1>2. \A i \in Indices : levels[i] \in Level
  BY <1>1 DEF Indices
<1>3. \A i \in Indices : levels[i].price \in Int /\ levels[i].volume \in Nat
  BY <1>2 DEF Level
<1>4. \A i, j \in Indices : i < j => levels[i].price < levels[j].price
  BY ProfilesAssumption DEF Indices
<1>5. \A i, j \in Indices : i <= j => levels[i].price <= levels[j].price
  BY <1>1, <1>3, <1>4 DEF Indices
<1> QED
  BY <1>1, <1>3, <1>5

\* The ends of a run of indices are its first and its last element.
LEMMA EndsOfARun ==
  ASSUME NEW a \in Int, NEW b \in Int, a <= b
  PROVE  First(a..b) = a /\ Last(a..b) = b
<1>1. a \in a..b /\ \A j \in a..b : a <= j
  OBVIOUS
<1>2. b \in a..b /\ \A j \in a..b : j <= b
  OBVIOUS
<1>3. \A i \in a..b : (\A j \in a..b : i <= j) => i = a
  OBVIOUS
<1>4. \A i \in a..b : (\A j \in a..b : j <= i) => i = b
  OBVIOUS
<1>5. First(a..b) = a
  BY <1>1, <1>3 DEF First
<1>6. Last(a..b) = b
  BY <1>2, <1>4 DEF Last
<1> QED
  BY <1>5, <1>6

LEMMA InitInvariant == Init => IInv
<1> SUFFICES ASSUME Init PROVE IInv
  OBVIOUS
<1>1. levels \in Profiles /\ poc \in Indices /\ low = poc /\ high = poc /\ included = {poc}
  BY DEF Init
<1>2. cumulative = levels[poc].volume /\ answer = Null
  BY DEF Init
<1>3. TypeOK
  BY <1>1, <1>2, LevelFacts DEF TypeOK
<1>4. OneRunAroundPoc
  BY <1>1, LevelFacts DEF OneRunAroundPoc, Indices
<1> QED
  BY <1>2, <1>3, <1>4 DEF IInv, Ordered

\* Taking in the neighbour below keeps the area one run.
LEMMA LowerStep == ASSUME IInv, ExpandLower PROVE IInv'
<1>1. TypeOK /\ OneRunAroundPoc /\ levels \in Profiles
  BY DEF IInv, TypeOK
<1>2. /\ low > 1 /\ low' = low - 1 /\ high' = high /\ poc' = poc /\ levels' = levels
      /\ answer' = answer /\ answer = Null
      /\ included' = included \cup {low - 1}
      /\ cumulative' = cumulative + levels[low - 1].volume
  BY DEF ExpandLower, Include, ChoosesLower, CanLower
<1>3. low \in Int /\ high \in Int /\ poc \in Int /\ low - 1 \in Indices
  BY <1>1, <1>2, LevelFacts DEF TypeOK, Indices
<1>4. cumulative' \in Int
  BY <1>1, <1>2, <1>3, LevelFacts DEF TypeOK
<1>5. included' \in SUBSET Indices /\ Indices' = Indices
  BY <1>1, <1>2, <1>3 DEF TypeOK, Indices
<1>6. TypeOK'
  BY <1>1, <1>2, <1>3, <1>4, <1>5 DEF TypeOK
<1>7. OneRunAroundPoc'
  BY <1>1, <1>2, <1>3 DEF OneRunAroundPoc
<1> QED
  BY <1>2, <1>6, <1>7 DEF IInv, Ordered

\* So does taking in the neighbour above.
LEMMA UpperStep == ASSUME IInv, ExpandUpper PROVE IInv'
<1>1. TypeOK /\ OneRunAroundPoc /\ levels \in Profiles
  BY DEF IInv, TypeOK
<1>2. /\ high < Len(levels) /\ high' = high + 1 /\ low' = low /\ poc' = poc /\ levels' = levels
      /\ answer' = answer /\ answer = Null
      /\ included' = included \cup {high + 1}
      /\ cumulative' = cumulative + levels[high + 1].volume
  BY DEF ExpandUpper, Include, ChoosesUpper, CanUpper
<1>3. low \in Int /\ high \in Int /\ poc \in Int /\ high + 1 \in Indices
  BY <1>1, <1>2, LevelFacts DEF TypeOK, Indices
<1>4. cumulative' \in Int
  BY <1>1, <1>2, <1>3, LevelFacts DEF TypeOK
<1>5. included' \in SUBSET Indices /\ Indices' = Indices
  BY <1>1, <1>2, <1>3 DEF TypeOK, Indices
<1>6. TypeOK'
  BY <1>1, <1>2, <1>3, <1>4, <1>5 DEF TypeOK
<1>7. OneRunAroundPoc'
  BY <1>1, <1>2, <1>3 DEF OneRunAroundPoc
<1> QED
  BY <1>2, <1>6, <1>7 DEF IInv, Ordered

\* The levels are read from the ends of the run, around the point of control.
LEMMA ReturnStep == ASSUME IInv, Return PROVE IInv'
<1>1. TypeOK /\ OneRunAroundPoc /\ levels \in Profiles
  BY DEF IInv, TypeOK
<1>2. /\ answer' = [poc |-> levels[poc].price, vah |-> levels[Last(included)].price,
                    val |-> levels[First(included)].price]
      /\ UNCHANGED <<levels, low, high, poc, included, cumulative>>
  BY DEF Return
<1>3. low \in Indices /\ high \in Indices /\ poc \in Indices /\ low <= poc /\ poc <= high
  BY <1>1 DEF TypeOK, OneRunAroundPoc
<1>4. First(included) = low /\ Last(included) = high
  BY <1>1, <1>3, EndsOfARun, LevelFacts DEF OneRunAroundPoc, Indices
<1>5. levels[low].price <= levels[poc].price /\ levels[poc].price <= levels[high].price
  BY <1>1, <1>3, LevelFacts
<1>6. answer' \in Answer
  BY <1>1, <1>2, <1>3, <1>4, LevelFacts DEF Answer
<1>7. Indices' = Indices
  BY <1>2 DEF Indices
<1>8. TypeOK'
  BY <1>1, <1>2, <1>6, <1>7 DEF TypeOK, Answer
<1>9. OneRunAroundPoc'
  BY <1>1, <1>2 DEF OneRunAroundPoc
<1>10. Ordered'
  BY <1>2, <1>4, <1>5 DEF Ordered
<1> QED
  BY <1>8, <1>9, <1>10 DEF IInv

LEMMA Invariant == Spec => []IInv
<1>1. ASSUME IInv, [Next]_vars PROVE IInv'
  <2>1. CASE ExpandLower
    BY <2>1, <1>1, LowerStep
  <2>2. CASE ExpandUpper
    BY <2>2, <1>1, UpperStep
  <2>3. CASE Return
    BY <2>3, <1>1, ReturnStep
  <2>4. CASE UNCHANGED vars
    BY <2>4, <1>1 DEF vars, IInv, TypeOK, OneRunAroundPoc, Ordered, Indices
  <2> QED
    BY <1>1, <2>1, <2>2, <2>3, <2>4 DEF Next
<1> QED
  BY <1>1, InitInvariant, PTL DEF Spec

\* Every reachable state of the derivation is well typed: its indices never
\* leave the profile.
THEOREM TypeCorrect == Spec => []TypeOK
BY Invariant, PTL DEF IInv

\* The indices collected are always exactly the levels between the two ends,
\* around the point of control, whatever the profile.
THEOREM AreaIsOneRun == Spec => []OneRunAroundPoc
BY Invariant, PTL DEF IInv

\* No profile makes the input models refuse the levels derived from it.
THEOREM LevelsOrdered == Spec => []Ordered
BY Invariant, PTL DEF IInv
-----------------------------------------------------------------------------
(* What the levels of an area add up to.                                   *)

LEMMA VolumesAreSums ==
  ASSUME NEW ls, NEW a, NEW b
  PROVE  Copy!Volumes(ls, a, b) = SumFunctionOnSet([i \in 1..Len(ls) |-> ls[i].volume], a..b)
<1> DEFINE fun == [i \in 1..Len(ls) |-> ls[i].volume]
<1>1. Copy!SumFunctionOnSet(fun, a..b) = SumFunctionOnSet(fun, a..b)
  BY Zenon DEF Copy!SumFunctionOnSet, Copy!FoldFunctionOnSet, Copy!MapThenFoldSet,
               SumFunctionOnSet, FoldFunctionOnSet, MapThenFoldSet
<1> QED
  BY <1>1, Zenon DEF Copy!Volumes

\* An area's volume is a natural, that of one level is its own, and a larger one's
\* is that of either end and the rest.
LEMMA AreaVolume ==
  ASSUME levels \in Profiles, NEW a \in Indices, NEW b \in Indices, a <= b
  PROVE  /\ Copy!Volumes(levels, a, b) \in Nat
         /\ a = b => Copy!Volumes(levels, a, b) = levels[a].volume
         /\ a < b => /\ Copy!Volumes(levels, a, b) =
                          levels[a].volume + Copy!Volumes(levels, a + 1, b)
                     /\ Copy!Volumes(levels, a, b) =
                          levels[b].volume + Copy!Volumes(levels, a, b - 1)
<1> DEFINE fun == [i \in 1..Len(levels) |-> levels[i].volume]
<1>1. a \in Int /\ b \in Int /\ a..b \subseteq Indices
  BY LevelFacts DEF Indices
<1>2. IsFiniteSet(a..b)
  BY <1>1, FS_Interval
<1>3. \A i \in a..b : fun[i] = levels[i].volume /\ fun[i] \in Nat
  BY <1>1, LevelFacts DEF Indices
<1>4. \A c, d : Copy!Volumes(levels, c, d) = SumFunctionOnSet(fun, c..d)
  BY VolumesAreSums
<1> HIDE DEF fun
<1>5. SumFunctionOnSet(fun, a..b) \in Nat
  BY <1>2, <1>3, SumNatural
<1>6. a \in a..b /\ b \in a..b
  BY <1>1
<1>7. /\ SumFunctionOnSet(fun, a..b) = fun[a] + SumFunctionOnSet(fun, (a..b) \ {a})
      /\ SumFunctionOnSet(fun, a..b) = fun[b] + SumFunctionOnSet(fun, (a..b) \ {b})
  BY <1>2, <1>3, <1>6, SumSplit
<1>8. (a..b) \ {a} = (a + 1)..b /\ (a..b) \ {b} = a..(b - 1)
  BY <1>1
<1>9. a = b => SumFunctionOnSet(fun, (a..b) \ {a}) = 0
  <2>1. a = b => (a..b) \ {a} = {}
    BY <1>1
  <2> QED
    BY <2>1, <1>2, SumStep
<1>10. levels[a].volume \in Nat
  BY LevelFacts
<1>11. fun[a] = levels[a].volume /\ fun[b] = levels[b].volume
  BY <1>3, <1>6
<1>12. Copy!Volumes(levels, a, b) \in Nat
  BY <1>4, <1>5
<1>13. Copy!Volumes(levels, a, b) = SumFunctionOnSet(fun, a..b)
  BY <1>4
<1>14. a = b => Copy!Volumes(levels, a, b) = levels[a].volume
  <2> SUFFICES ASSUME a = b PROVE Copy!Volumes(levels, a, b) = levels[a].volume
    OBVIOUS
  <2>1. SumFunctionOnSet(fun, a..b) = levels[a].volume + 0
    BY <1>7, <1>9, <1>11
  <2>2. levels[a].volume + 0 = levels[a].volume
    BY <1>10
  <2> QED
    BY <1>13, <2>1, <2>2, Zenon
<1>15. /\ Copy!Volumes(levels, a, b) = levels[a].volume + Copy!Volumes(levels, a + 1, b)
       /\ Copy!Volumes(levels, a, b) = levels[b].volume + Copy!Volumes(levels, a, b - 1)
  BY <1>4, <1>7, <1>8, <1>11
<1> QED
  BY <1>12, <1>14, <1>15

\* cumulative_volume is the volume of the area, and the last level taken in was taken
\* below the target.
Accounted ==
  /\ cumulative = Copy!Volumes(levels, low, high)
  /\ low < high =>
       \/ low < poc /\ 10 * Copy!Volumes(levels, low + 1, high) < 7 * Target
       \/ poc < high /\ 10 * Copy!Volumes(levels, low, high - 1) < 7 * Target

\* The derivation goes on to the target: the whole profile reaches it.
Reached == answer # Null => ~BelowTarget

LEMMA InitAccounted == Init => Accounted
<1> SUFFICES ASSUME Init PROVE Accounted
  OBVIOUS
<1>1. levels \in Profiles /\ poc \in Indices /\ low = poc /\ high = poc
  BY DEF Init
<1>2. poc \in Int
  BY <1>1, LevelFacts DEF Indices
<1>3. Copy!Volumes(levels, poc, poc) = levels[poc].volume
  BY <1>1, <1>2, AreaVolume
<1> QED
  BY <1>1, <1>2, <1>3 DEF Init, Accounted

LEMMA LowerAccounted == ASSUME IInv, Accounted, ExpandLower PROVE Accounted'
<1>1. TypeOK /\ levels \in Profiles /\ low <= poc /\ poc <= high
  BY DEF IInv, TypeOK, OneRunAroundPoc
<1>2. /\ low > 1 /\ low' = low - 1 /\ high' = high /\ poc' = poc /\ levels' = levels
      /\ cumulative' = cumulative + levels[low - 1].volume
      /\ 10 * cumulative < 7 * Target
  BY DEF ExpandLower, Include, ChoosesLower, CanLower, BelowTarget
<1>3. low \in Int /\ high \in Int /\ poc \in Int
  BY <1>1, LevelFacts DEF TypeOK, Indices
<1>4. low - 1 \in Indices /\ high \in Indices /\ low - 1 < high /\ low \in Indices
  BY <1>1, <1>2, <1>3, LevelFacts DEF TypeOK, Indices
<1>5. Copy!Volumes(levels, low - 1, high) =
        levels[low - 1].volume + Copy!Volumes(levels, (low - 1) + 1, high)
  BY <1>1, <1>3, <1>4, AreaVolume
<1>6. (low - 1) + 1 = low
  BY <1>3
<1>7. Copy!Volumes(levels, low, high) \in Nat /\ levels[low - 1].volume \in Nat
  BY <1>1, <1>3, <1>4, AreaVolume, LevelFacts
<1>8. cumulative = Copy!Volumes(levels, low, high)
  BY DEF Accounted
<1>9. cumulative' = Copy!Volumes(levels, low - 1, high)
  BY <1>2, <1>5, <1>6, <1>7, <1>8
<1>10. low - 1 < poc /\ 10 * Copy!Volumes(levels, (low - 1) + 1, high) < 7 * Target
  BY <1>1, <1>2, <1>3, <1>6, <1>8
<1> QED
  BY <1>2, <1>9, <1>10 DEF Accounted, Target

LEMMA UpperAccounted == ASSUME IInv, Accounted, ExpandUpper PROVE Accounted'
<1>1. TypeOK /\ levels \in Profiles /\ low <= poc /\ poc <= high
  BY DEF IInv, TypeOK, OneRunAroundPoc
<1>2. /\ high < Len(levels) /\ high' = high + 1 /\ low' = low /\ poc' = poc
      /\ levels' = levels /\ cumulative' = cumulative + levels[high + 1].volume
      /\ 10 * cumulative < 7 * Target
  BY DEF ExpandUpper, Include, ChoosesUpper, CanUpper, BelowTarget
<1>3. low \in Int /\ high \in Int /\ poc \in Int
  BY <1>1, LevelFacts DEF TypeOK, Indices
<1>4. high + 1 \in Indices /\ low \in Indices /\ low < high + 1 /\ high \in Indices
  BY <1>1, <1>2, <1>3, LevelFacts DEF TypeOK, Indices
<1>5. Copy!Volumes(levels, low, high + 1) =
        levels[high + 1].volume + Copy!Volumes(levels, low, (high + 1) - 1)
  BY <1>1, <1>3, <1>4, AreaVolume
<1>6. (high + 1) - 1 = high
  BY <1>3
<1>7. Copy!Volumes(levels, low, high) \in Nat /\ levels[high + 1].volume \in Nat
  BY <1>1, <1>3, <1>4, AreaVolume, LevelFacts
<1>8. cumulative = Copy!Volumes(levels, low, high)
  BY DEF Accounted
<1>9. cumulative' = Copy!Volumes(levels, low, high + 1)
  BY <1>2, <1>5, <1>6, <1>7, <1>8
<1>10. poc < high + 1 /\ 10 * Copy!Volumes(levels, low, (high + 1) - 1) < 7 * Target
  BY <1>1, <1>2, <1>3, <1>6, <1>8
<1> QED
  BY <1>2, <1>9, <1>10 DEF Accounted, Target

\* With no neighbour left the area is the whole profile.
LEMMA ReturnReaches == ASSUME IInv, Accounted, Return PROVE ~BelowTarget
<1>1. TypeOK /\ levels \in Profiles
  BY DEF IInv, TypeOK
<1>2. CASE CanLower \/ CanUpper
  BY <1>2 DEF Return
<1>3. CASE ~(CanLower \/ CanUpper)
  <2>1. low = 1 /\ high = Len(levels)
    BY <1>1, <1>3, LevelFacts DEF TypeOK, Indices, CanLower, CanUpper
  <2>2. cumulative = Target
    BY <2>1 DEF Accounted, Target, Copy!Total
  <2>3. 1 \in Indices /\ Len(levels) \in Indices /\ 1 <= Len(levels)
    BY <1>1, LevelFacts DEF Indices
  <2>4. cumulative \in Nat
    BY <1>1, <2>1, <2>3, AreaVolume DEF Accounted
  <2> QED
    BY <2>2, <2>4 DEF BelowTarget
<1> QED
  BY <1>2, <1>3

LEMMA VolumeInvariant == Spec => [](Accounted /\ Reached)
<1>1. Init => Accounted /\ Reached
  BY InitAccounted DEF Init, Reached
<1>2. ASSUME IInv, Accounted, Reached, [Next]_vars PROVE Accounted' /\ Reached'
  <2>1. CASE ExpandLower
    BY <1>2, <2>1, LowerAccounted DEF ExpandLower, Include, Reached
  <2>2. CASE ExpandUpper
    BY <1>2, <2>2, UpperAccounted DEF ExpandUpper, Include, Reached
  <2>3. CASE Return
    <3>1. ~BelowTarget
      BY <1>2, <2>3, ReturnReaches
    <3>2. UNCHANGED <<levels, low, high, poc, cumulative>>
      BY <2>3 DEF Return
    <3> QED
      BY <1>2, <3>1, <3>2 DEF Accounted, Reached, BelowTarget, Target
  <2>4. CASE UNCHANGED vars
    BY <1>2, <2>4 DEF vars, Accounted, Reached, BelowTarget, Target
  <2> QED
    BY <1>2, <2>1, <2>2, <2>3, <2>4 DEF Next
<1> QED
  BY <1>1, <1>2, Invariant, PTL DEF Spec

\* The area returned holds 70% of the volume, and less without the level it took in
\* last, whatever the profile.
THEOREM AreaHoldsItsShare == Spec => []SeventyPercentAndNoMore
<1>1. ASSUME IInv, Accounted, Reached PROVE SeventyPercentAndNoMore
  <2>1. levels \in Profiles /\ low \in Indices /\ high \in Indices /\ low <= high
    BY <1>1, LevelFacts DEF IInv, TypeOK, OneRunAroundPoc, Indices
  <2>2. 1 \in Indices /\ Len(levels) \in Indices /\ 1 <= Len(levels)
    BY <2>1, LevelFacts DEF Indices
  <2>3. Copy!Volumes(levels, low, high) \in Nat /\ Target \in Nat
    BY <2>1, <2>2, AreaVolume DEF Target, Copy!Total
  <2> QED
    BY <1>1, <2>3 DEF Accounted, Reached, BelowTarget, SeventyPercentAndNoMore
<1> QED
  BY <1>1, Invariant, VolumeInvariant, PTL

-----------------------------------------------------------------------------
(* The copy of the derivation (ProfileLevels).                             *)

Area(k, l) == [low |-> k, high |-> l]

\* The table of areas that DeriveProfileLevels builds, up to n steps.
Grows(table, ls, n) ==
  table = [k \in 0..n |-> IF k = 0 THEN Area(Copy!PointOfControl(ls), Copy!PointOfControl(ls))
                          ELSE Copy!Widened(ls, table[k - 1])]

CopiedAreas == CHOOSE table : Grows(table, levels, Len(levels))

LEMMA CopyUnfolds ==
  Copy!DeriveProfileLevels(levels) =
    [poc |-> levels[Copy!PointOfControl(levels)].price,
     vah |-> levels[CopiedAreas[Len(levels)].high].price,
     val |-> levels[CopiedAreas[Len(levels)].low].price]
BY Zenon DEF Copy!DeriveProfileLevels, CopiedAreas, Grows, Area

\* There is such a table for every number of steps.
LEMMA AreasExist == ASSUME NEW ls, NEW N \in Nat PROVE \E table : Grows(table, ls, N)
<1> DEFINE D == {n \in Nat : ~\E table : Grows(table, ls, n)}
           start == Area(Copy!PointOfControl(ls), Copy!PointOfControl(ls))
<1> SUFFICES ASSUME D # {} PROVE FALSE
  OBVIOUS
<1>1. PICK n \in D : \A m \in D : n <= m
  <2>1. D \in SUBSET Nat
    OBVIOUS
  <2> HIDE DEF D
  <2> QED
    BY <2>1, LeastNumber
<1>2. n \in Nat /\ ~\E table : Grows(table, ls, n)
  BY <1>1
<1>3. n # 0
  <2> DEFINE one == [k \in 0..0 |-> start]
  <2>1. one = [k \in 0..0 |-> IF k = 0 THEN start ELSE Copy!Widened(ls, one[k - 1])]
    <3>1. \A k \in 0..0 : k = 0
      OBVIOUS
    <3> HIDE DEF start
    <3> QED
      BY <3>1
  <2>2. Grows(one, ls, 0)
    <3> HIDE DEF one
    <3> QED
      BY <2>1 DEF Grows
  <2> QED
    BY <1>2, <2>2
<1>4. n - 1 \in Nat /\ n - 1 \notin D
  BY <1>1, <1>2, <1>3
<1>5. PICK shorter : Grows(shorter, ls, n - 1)
  BY <1>4
<1> DEFINE longer == [k \in 0..n |-> IF k = n THEN Copy!Widened(ls, shorter[n - 1])
                                     ELSE shorter[k]]
<1> HIDE DEF D, start
<1>6. ASSUME NEW k \in 0..n
      PROVE  longer[k] = IF k = 0 THEN start ELSE Copy!Widened(ls, longer[k - 1])
  <2>1. CASE k = 0
    <3>1. longer[0] = shorter[0]
      BY <1>2, <1>3
    <3>2. shorter[0] = start
      BY <1>4, <1>5 DEF Grows, start
    <3> QED
      BY <2>1, <3>1, <3>2
  <2>2. CASE k # 0
    <3>1. k - 1 \in 0..(n - 1) /\ k - 1 \in 0..n /\ k - 1 # n
      BY <1>2, <2>2
    <3>2. longer[k - 1] = shorter[k - 1]
      BY <3>1
    <3>3. CASE k = n
      BY <2>2, <3>2, <3>3
    <3>4. CASE k # n
      <4>1. k \in 0..(n - 1)
        BY <1>2, <3>4
      <4>2. shorter[k] = Copy!Widened(ls, shorter[k - 1])
        BY <1>5, <2>2, <4>1 DEF Grows
      <4>3. longer[k] = shorter[k]
        BY <3>4
      <4> QED
        BY <2>2, <3>2, <4>2, <4>3
    <3> QED
      BY <3>3, <3>4
  <2> QED
    BY <2>1, <2>2
<1>7. longer = [k \in 0..n |-> IF k = 0 THEN start ELSE Copy!Widened(ls, longer[k - 1])]
  BY <1>6
<1> HIDE DEF longer
<1>8. Grows(longer, ls, n)
  BY <1>7 DEF Grows, start
<1> QED
  BY <1>2, <1>8

\* So the copy's areas are what its definition says.
LEMMA CopiedSteps ==
  ASSUME levels \in Profiles
  PROVE  /\ CopiedAreas[0] = Area(Copy!PointOfControl(levels), Copy!PointOfControl(levels))
         /\ \A k \in 1..Len(levels) :
              CopiedAreas[k] = Copy!Widened(levels, CopiedAreas[k - 1])
<1>1. Len(levels) \in Nat
  BY LevelFacts
<1>2. Grows(CopiedAreas, levels, Len(levels))
  BY <1>1, AreasExist DEF CopiedAreas
<1>3. \A k \in 1..Len(levels) : k \in 0..Len(levels) /\ k # 0
  BY <1>1
<1> QED
  BY <1>1, <1>2, <1>3 DEF Grows

\* Both copies measure the distance from the midpoint alike.
LEMMA SameDistance ==
  ASSUME levels \in Profiles, NEW i \in Indices
  PROVE  Copy!FromMidpoint(levels, i) = FromMidpoint(i) /\ FromMidpoint(i) \in Int
<1>1. levels[i].price \in Int /\ levels[1].price \in Int /\ levels[Len(levels)].price \in Int
  BY LevelFacts DEF Indices
<1> DEFINE x == 2 * levels[i].price
           y == levels[1].price + levels[Len(levels)].price
<1>2. x \in Int /\ y \in Int
  BY <1>1
<1>3. Copy!FromMidpoint(levels, i) = Copy!Distance(x, y) /\ FromMidpoint(i) = Abs(x - y)
  BY Zenon DEF Copy!FromMidpoint, FromMidpoint
<1> HIDE DEF x, y
<1> QED
  BY <1>2, <1>3 DEF Copy!Distance, Abs

\* ... and have the same point of control: both break ties by distance and price.
LEMMA SamePoc ==
  ASSUME levels \in Profiles, NEW i \in Indices, IsPoc(i)
  PROVE  Copy!PointOfControl(levels) = i
<1> DEFINE heaviest == {k \in 1..Len(levels) :
                          \A j \in 1..Len(levels) : levels[j].volume <= levels[k].volume}
           first(k) == \A j \in heaviest :
             \/ Copy!FromMidpoint(levels, k) < Copy!FromMidpoint(levels, j)
             \/ /\ Copy!FromMidpoint(levels, k) = Copy!FromMidpoint(levels, j)
                /\ levels[k].price <= levels[j].price
<1>1. heaviest \subseteq Indices /\ i \in heaviest
  BY DEF IsPoc, Indices
<1>2. \A j \in Indices : levels[j].price \in Int /\ levels[j].volume \in Nat
  BY LevelFacts
<1>3. \A j \in Indices : i <= j => levels[i].price <= levels[j].price
  BY LevelFacts
<1>4. \A j \in heaviest : levels[j].volume = levels[i].volume
  <2> TAKE j \in heaviest
  <2>1. levels[j].volume <= levels[i].volume /\ levels[i].volume <= levels[j].volume
    BY <1>1 DEF Indices
  <2> QED
    BY <1>1, <1>2, <2>1
<1>5. \A j \in Indices : Copy!FromMidpoint(levels, j) = FromMidpoint(j) /\ FromMidpoint(j) \in Int
  BY SameDistance
<1>6. first(i)
  <2> SUFFICES ASSUME NEW j \in heaviest
               PROVE  \/ FromMidpoint(i) < FromMidpoint(j)
                      \/ FromMidpoint(i) = FromMidpoint(j) /\ levels[i].price <= levels[j].price
    BY <1>1, <1>5
  <2>1. j \in Indices /\ levels[j].volume = levels[i].volume
    BY <1>1, <1>4
  <2>2. FromMidpoint(i) < FromMidpoint(j) \/ (FromMidpoint(i) = FromMidpoint(j) /\ i <= j)
    BY <2>1 DEF IsPoc
  <2> QED
    BY <1>3, <2>1, <2>2
<1>7. ASSUME NEW k \in heaviest, first(k) PROVE k = i
  <2>1. k \in Indices
    BY <1>1
  <2>2. \/ FromMidpoint(k) < FromMidpoint(i)
        \/ FromMidpoint(k) = FromMidpoint(i) /\ levels[k].price <= levels[i].price
    BY <1>1, <1>5, <1>7, <2>1
  <2>3. \/ FromMidpoint(i) < FromMidpoint(k)
        \/ FromMidpoint(i) = FromMidpoint(k) /\ levels[i].price <= levels[k].price
    BY <1>1, <1>5, <1>6, <1>7, <2>1
  <2>4. levels[k].price = levels[i].price
    BY <1>2, <1>5, <2>1, <2>2, <2>3
  <2>5. \A a, b \in Indices : a < b => levels[a].price < levels[b].price
    BY ProfilesAssumption DEF Indices
  <2>6. k \in Int /\ i \in Int
    BY <2>1, LevelFacts DEF Indices
  <2> QED
    BY <1>2, <2>1, <2>4, <2>5, <2>6
<1>8. Copy!PointOfControl(levels) = CHOOSE k \in heaviest : first(k)
  BY DEF Copy!PointOfControl
<1> HIDE DEF heaviest, first
<1>9. \A k \in heaviest : first(k) <=> k = i
  BY <1>1, <1>6, <1>7
<1> QED
  BY <1>1, <1>8, <1>9

\* What the copy has after as many steps as levels were taken in is the area so far,
\* and in the end it is the answer.
Copied ==
  /\ poc = Copy!PointOfControl(levels)
  /\ CopiedAreas[high - low] = Area(low, high)
  /\ answer # Null => answer = Copy!DeriveProfileLevels(levels)

LEMMA InitCopied == Init => Copied
<1> SUFFICES ASSUME Init PROVE Copied
  OBVIOUS
<1>1. /\ levels \in Profiles /\ poc \in Indices /\ IsPoc(poc)
      /\ low = poc /\ high = poc /\ answer = Null
  BY DEF Init
<1>2. poc = Copy!PointOfControl(levels)
  BY <1>1, SamePoc
<1>3. high - low = 0
  BY <1>1, LevelFacts DEF Indices
<1>4. CopiedAreas[0] = Area(poc, poc)
  BY <1>1, <1>2, CopiedSteps
<1>5. CopiedAreas[high - low] = Area(low, high)
  BY <1>1, <1>3, <1>4
<1> QED
  BY <1>1, <1>2, <1>5 DEF Copied

\* The copy widens the area exactly while the ES compiler does, and to the same side.
LEMMA SameWidening ==
  ASSUME IInv, Accounted
  PROVE  /\ ~BelowTarget => Copy!Widened(levels, Area(low, high)) = Area(low, high)
         /\ BelowTarget /\ ChoosesLower =>
              Copy!Widened(levels, Area(low, high)) = Area(low - 1, high)
         /\ BelowTarget /\ ChoosesUpper =>
              Copy!Widened(levels, Area(low, high)) = Area(low, high + 1)
<1>1. TypeOK /\ levels \in Profiles /\ low <= poc /\ poc <= high
  BY DEF IInv, TypeOK, OneRunAroundPoc
<1>2. low \in Indices /\ high \in Indices /\ poc \in Indices /\ Len(levels) \in Nat
  BY <1>1, LevelFacts DEF TypeOK
<1>3. low \in Int /\ high \in Int /\ low <= high
  BY <1>1, <1>2, LevelFacts DEF Indices
<1>4. 1 \in Indices /\ Len(levels) \in Indices /\ 1 <= Len(levels)
  BY <1>1, LevelFacts DEF Indices
<1>5. Target \in Nat /\ cumulative \in Nat
  BY <1>1, <1>2, <1>3, <1>4, AreaVolume DEF Target, Copy!Total, Accounted
<1>6. Copy!TargetReached(Copy!Volumes(levels, low, high), levels) <=> ~BelowTarget
  BY <1>5 DEF Accounted, Copy!TargetReached, BelowTarget, Target
<1>7. Area(low, high).low = low /\ Area(low, high).high = high
  BY DEF Area
<1>8. Copy!Widened(levels, Area(low, high)) =
        IF ~BelowTarget THEN Area(low, high)
        ELSE IF Copy!Upwards(levels, low - 1, high + 1) THEN Area(low, high + 1)
        ELSE Area(low - 1, high)
  BY <1>6, <1>7, Zenon DEF Copy!Widened, Area
<1>9. ASSUME ChoosesLower PROVE ~Copy!Upwards(levels, low - 1, high + 1)
  <2>1. low - 1 \in Indices /\ low - 1 >= 1
    BY <1>2, <1>3, <1>9 DEF ChoosesLower, CanLower, Indices
  <2>2. CASE ~CanUpper
    BY <1>2, <1>3, <2>2 DEF CanUpper, Copy!Upwards
  <2>3. CASE CanUpper
    <3>1. high + 1 \in Indices
      BY <1>2, <1>3, <2>3 DEF CanUpper, Indices
    <3>2. /\ levels[low - 1].volume \in Nat /\ levels[high + 1].volume \in Nat
          /\ Copy!FromMidpoint(levels, low - 1) = FromMidpoint(low - 1)
          /\ Copy!FromMidpoint(levels, high + 1) = FromMidpoint(high + 1)
          /\ FromMidpoint(low - 1) \in Int /\ FromMidpoint(high + 1) \in Int
      BY <1>1, <2>1, <3>1, LevelFacts, SameDistance
    <3>3. \/ levels[low - 1].volume > levels[high + 1].volume
          \/ /\ levels[low - 1].volume = levels[high + 1].volume
             /\ FromMidpoint(low - 1) <= FromMidpoint(high + 1)
      BY <1>9, <2>3 DEF ChoosesLower
    <3>4. ~(low - 1 < 1)
      BY <1>3, <2>1
    <3> QED
      BY <3>2, <3>3, <3>4 DEF Copy!Upwards
  <2> QED
    BY <2>2, <2>3
<1>10. ASSUME ChoosesUpper PROVE Copy!Upwards(levels, low - 1, high + 1)
  <2>1. high + 1 \in Indices /\ high + 1 <= Len(levels)
    BY <1>2, <1>3, <1>10 DEF ChoosesUpper, CanUpper, Indices
  <2>2. CASE ~CanLower
    <3>1. low - 1 < 1
      BY <1>3, <2>2 DEF CanLower
    <3> QED
      BY <2>1, <3>1 DEF Copy!Upwards
  <2>3. CASE CanLower
    <3>1. low - 1 \in Indices
      BY <1>2, <1>3, <2>3 DEF CanLower, Indices
    <3>2. /\ levels[low - 1].volume \in Nat /\ levels[high + 1].volume \in Nat
          /\ Copy!FromMidpoint(levels, low - 1) = FromMidpoint(low - 1)
          /\ Copy!FromMidpoint(levels, high + 1) = FromMidpoint(high + 1)
          /\ FromMidpoint(low - 1) \in Int /\ FromMidpoint(high + 1) \in Int
      BY <1>1, <2>1, <3>1, LevelFacts, SameDistance
    <3>3. /\ ~(levels[low - 1].volume > levels[high + 1].volume)
          /\ ~(/\ levels[low - 1].volume = levels[high + 1].volume
               /\ FromMidpoint(low - 1) <= FromMidpoint(high + 1))
      BY <1>10, <2>3 DEF ChoosesUpper, ChoosesLower
    <3> QED
      BY <2>1, <3>2, <3>3 DEF Copy!Upwards
  <2> QED
    BY <2>2, <2>3
<1> QED
  BY <1>8, <1>9, <1>10

LEMMA LowerCopied == ASSUME IInv, Accounted, Copied, ExpandLower PROVE Copied'
<1>1. /\ low \in Indices /\ high \in Indices /\ low <= high /\ levels \in Profiles
      /\ Len(levels) \in Nat
  BY LevelFacts DEF IInv, TypeOK, OneRunAroundPoc, Indices
<1>2. low \in Int /\ high \in Int
  BY <1>1 DEF Indices
<1>3. /\ low > 1 /\ low' = low - 1 /\ high' = high
      /\ UNCHANGED <<levels, poc, answer>> /\ answer = Null
  BY DEF ExpandLower, Include, ChoosesLower, CanLower
<1>4. Copy!Widened(levels, Area(low, high)) = Area(low - 1, high)
  BY SameWidening DEF ExpandLower
<1>5. high - (low - 1) \in 1..Len(levels) /\ (high - (low - 1)) - 1 = high - low
  BY <1>1, <1>2, <1>3 DEF Indices
<1>6. CopiedAreas[high - (low - 1)] = Copy!Widened(levels, CopiedAreas[(high - (low - 1)) - 1])
  BY <1>1, <1>5, CopiedSteps
<1>7. CopiedAreas[high - (low - 1)] = Area(low - 1, high)
  BY <1>4, <1>5, <1>6 DEF Copied
<1>8. CopiedAreas' = CopiedAreas
  BY <1>3 DEF CopiedAreas
<1>9. Area(low, high)' = Area(low - 1, high)
  BY <1>3 DEF Area
<1>10. (CopiedAreas[high - low] = Area(low, high))'
  BY <1>3, <1>7, <1>8, <1>9
<1> QED
  BY <1>3, <1>10 DEF Copied

LEMMA UpperCopied == ASSUME IInv, Accounted, Copied, ExpandUpper PROVE Copied'
<1>1. /\ low \in Indices /\ high \in Indices /\ low <= high /\ levels \in Profiles
      /\ Len(levels) \in Nat
  BY LevelFacts DEF IInv, TypeOK, OneRunAroundPoc, Indices
<1>2. low \in Int /\ high \in Int
  BY <1>1 DEF Indices
<1>3. /\ high < Len(levels) /\ low' = low /\ high' = high + 1
      /\ UNCHANGED <<levels, poc, answer>> /\ answer = Null
  BY DEF ExpandUpper, Include, ChoosesUpper, CanUpper
<1>4. Copy!Widened(levels, Area(low, high)) = Area(low, high + 1)
  BY SameWidening DEF ExpandUpper
<1>5. (high + 1) - low \in 1..Len(levels) /\ ((high + 1) - low) - 1 = high - low
  BY <1>1, <1>2, <1>3 DEF Indices
<1>6. CopiedAreas[(high + 1) - low] = Copy!Widened(levels, CopiedAreas[((high + 1) - low) - 1])
  BY <1>1, <1>5, CopiedSteps
<1>7. CopiedAreas[(high + 1) - low] = Area(low, high + 1)
  BY <1>4, <1>5, <1>6 DEF Copied
<1>8. CopiedAreas' = CopiedAreas
  BY <1>3 DEF CopiedAreas
<1>9. Area(low, high)' = Area(low, high + 1)
  BY <1>3 DEF Area
<1>10. (CopiedAreas[high - low] = Area(low, high))'
  BY <1>3, <1>7, <1>8, <1>9
<1> QED
  BY <1>3, <1>10 DEF Copied

\* At the target the copy's areas no longer change, so its last is the one returned.
LEMMA CopyRests ==
  ASSUME IInv, Accounted, Copied, ~BelowTarget
  PROVE  CopiedAreas[Len(levels)] = Area(low, high)
<1>1. /\ low \in Indices /\ high \in Indices /\ low <= high /\ levels \in Profiles
      /\ Len(levels) \in Nat
  BY LevelFacts DEF IInv, TypeOK, OneRunAroundPoc, Indices
<1>2. high - low \in Nat /\ high - low <= Len(levels)
  BY <1>1 DEF Indices
<1> DEFINE steps == high - low
           D == {n \in Nat : steps <= n /\ n <= Len(levels) /\ CopiedAreas[n] # Area(low, high)}
<1>3. D = {}
  <2> SUFFICES ASSUME D # {} PROVE FALSE
    OBVIOUS
  <2>1. PICK n \in D : \A m \in D : n <= m
    <3>1. D \in SUBSET Nat
      OBVIOUS
    <3> HIDE DEF D
    <3> QED
      BY <3>1, LeastNumber
  <2>2. n \in Nat /\ steps <= n /\ n <= Len(levels) /\ CopiedAreas[n] # Area(low, high)
    BY <2>1
  <2>3. n # steps
    BY <2>2 DEF Copied
  <2>4. n - 1 \in Nat /\ steps <= n - 1 /\ n - 1 <= Len(levels) /\ n \in 1..Len(levels)
    BY <1>1, <1>2, <2>2, <2>3
  <2>5. n - 1 \notin D
    BY <2>1, <2>4
  <2>6. CopiedAreas[n - 1] = Area(low, high)
    BY <2>4, <2>5
  <2>7. CopiedAreas[n] = Copy!Widened(levels, CopiedAreas[n - 1])
    BY <1>1, <2>4, CopiedSteps
  <2>8. Copy!Widened(levels, Area(low, high)) = Area(low, high)
    BY SameWidening
  <2> QED
    BY <2>2, <2>6, <2>7, <2>8
<1> QED
  BY <1>1, <1>2, <1>3

LEMMA ReturnCopied == ASSUME IInv, Accounted, Copied, Return PROVE Copied'
<1>1. low \in Int /\ high \in Int /\ low <= high /\ included = low..high
  BY LevelFacts DEF IInv, TypeOK, OneRunAroundPoc, Indices
<1>2. ~BelowTarget
  BY ReturnReaches
<1>3. CopiedAreas[Len(levels)] = Area(low, high)
  BY <1>2, CopyRests
<1>4. First(included) = low /\ Last(included) = high
  BY <1>1, EndsOfARun
<1>5. answer' = [poc |-> levels[poc].price, vah |-> levels[high].price,
                 val |-> levels[low].price]
  BY <1>4 DEF Return
<1>6. Copy!DeriveProfileLevels(levels) =
        [poc |-> levels[poc].price, vah |-> levels[high].price, val |-> levels[low].price]
  <2>1. Area(low, high).low = low /\ Area(low, high).high = high
    BY DEF Area
  <2> QED
    BY <1>3, <2>1, CopyUnfolds DEF Copied
<1>7. UNCHANGED <<levels, low, high, poc>>
  BY DEF Return
<1>8. (CopiedAreas[high - low] = Area(low, high))'
  <2>1. CopiedAreas' = CopiedAreas
    BY <1>7 DEF CopiedAreas
  <2>2. Area(low, high)' = Area(low, high)
    BY <1>7 DEF Area
  <2> QED
    BY <1>7, <2>1, <2>2 DEF Copied
<1>9. (poc = Copy!PointOfControl(levels))'
  BY <1>7 DEF Copied
<1>10. (answer = Copy!DeriveProfileLevels(levels))'
  BY <1>5, <1>6, <1>7
<1> QED
  BY <1>8, <1>9, <1>10 DEF Copied

LEMMA CopyInvariant == Spec => []Copied
<1>1. ASSUME IInv, Accounted, Copied, [Next]_vars PROVE Copied'
  <2>1. CASE ExpandLower
    BY <1>1, <2>1, LowerCopied
  <2>2. CASE ExpandUpper
    BY <1>1, <2>2, UpperCopied
  <2>3. CASE Return
    BY <1>1, <2>3, ReturnCopied
  <2>4. CASE UNCHANGED vars
    BY <1>1, <2>4 DEF vars, Copied, CopiedAreas, Area
  <2> QED
    BY <1>1, <2>1, <2>2, <2>3, <2>4 DEF Next
<1> QED
  BY <1>1, InitCopied, Invariant, VolumeInvariant, PTL DEF Spec

\* The two copies of the derivation give the same levels, whatever the profile: it does
\* not matter which of them a contract's packet is made with.
THEOREM CopiesAlwaysAgree == Spec => []CopiesAgree
<1>1. Copied => CopiesAgree
  BY DEF Copied, CopiesAgree
<1> QED
  BY <1>1, CopyInvariant, PTL
=============================================================================
