--------------------------- MODULE CostWarn_proofs ---------------------------
(***************************************************************************)
(* Proofs about the cost warnings, for every set of tasks with any costs    *)
(* and limits, and about the calendar they go by, for every zone,           *)
(* resolution and start of the week.                                        *)
(***************************************************************************)
EXTENDS Usage, FiniteSetTheorems, WellFoundedInduction, TLAPS

\* The quotient by a positive integer, without division (time.Time.In).
LEMMA Quotient ==
  ASSUME NEW n \in Nat \ {0}, NEW i \in Int, NEW q \in Int
  PROVE  (i \div n = q) <=> (q * n =< i /\ i < (q + 1) * n)
  OBVIOUS

LEMMA LocalDayType == ASSUME NEW i \in Int PROVE LocalDay(i) \in Int
  BY CalendarAssumption DEF LocalDay

\* A unit later it is the same local day or the next one (DateKey).
LEMMA LocalDayStep ==
  ASSUME NEW i \in Int
  PROVE  LocalDay(i + 1) \in {LocalDay(i), LocalDay(i) + 1}
  BY CalendarAssumption, LocalDayType DEF LocalDay

\* WeekKey is the number of the week the last week start falls in; it does not
\* change inside a local day and changes over midnight only into WeekStartsOn.
THEOREM WeekStep ==
  ASSUME NEW i \in Int
  PROVE  WeekKey(i) # WeekKey(i + 1) <=>
           /\ LocalDay(i) # LocalDay(i + 1)
           /\ Weekday(LocalDay(i + 1)) = WeekStartsOn
<1> DEFINE d == LocalDay(i)
<1> DEFINE e == LocalDay(i + 1)
<1>1. d \in Int /\ e \in Int /\ WeekStartsOn \in 0..6
  BY LocalDayType, CalendarAssumption
<1>2. e = d \/ e = d + 1
  BY LocalDayStep
<1>3. WeekKey(i) = (d - (((d % 7) - WeekStartsOn + 7) % 7)) \div 7
  BY DEF WeekKey, Weekday, IsoWeek
<1>4. WeekKey(i + 1) = (e - (((e % 7) - WeekStartsOn + 7) % 7)) \div 7
  BY DEF WeekKey, Weekday, IsoWeek
<1> HIDE DEF d, e
<1>5. WeekKey(i) # WeekKey(i + 1) <=> d # e /\ e % 7 = WeekStartsOn
  BY <1>1, <1>2, <1>3, <1>4
<1> QED BY <1>5 DEF d, e, Weekday

\* The range a daily sum covers is the day its key names, when reset_tz is UTC
\* (dayKeyToRange).
THEOREM DayRange ==
  ASSUME NEW i \in Int, NEW k \in Int, Zone = 0
  PROVE  DateKey(i) = k <=> DayKeyToRange(k).from =< i /\ i < DayKeyToRange(k).to
<1>1. (i \div U = k) <=> (k * U =< i /\ i < (k + 1) * U)
  BY Quotient, CalendarAssumption
<1>2. DateKey(i) = i \div U
  BY CalendarAssumption DEF DateKey, LocalDay
<1> QED BY <1>1, <1>2 DEF DayKeyToRange

\* The range a weekly sum covers is the week its key names, when the week
\* starts on Monday and reset_tz is UTC (weekKeyToRange).
THEOREM WeekRange ==
  ASSUME NEW i \in Int, NEW k \in Int, Zone = 0, WeekStartsOn = 0
  PROVE  WeekKey(i) = k <=> WeekKeyToRange(k).from =< i /\ i < WeekKeyToRange(k).to
<1> DEFINE d == i \div U
<1>1. d \in Int /\ LocalDay(i) = d
  BY CalendarAssumption DEF LocalDay
<1>2. \A q \in Int : (d >= q <=> i >= q * U)
  <2> SUFFICES ASSUME NEW q \in Int PROVE d >= q <=> i >= q * U
    OBVIOUS
  <2>1. d * U =< i /\ i < (d + 1) * U
    BY Quotient, CalendarAssumption, <1>1
  <2> HIDE DEF d
  <2>2. CASE d >= q
    <3>1. q * U =< d * U
      BY <2>2, <1>1, CalendarAssumption
    <3> QED BY <2>1, <2>2, <3>1, <1>1, CalendarAssumption
  <2>3. CASE d < q
    <3>1. (d + 1) * U =< q * U
      BY <2>3, <1>1, CalendarAssumption
    <3> QED BY <2>1, <2>3, <3>1, <1>1, CalendarAssumption
  <2> QED BY <2>2, <2>3, <1>1
<1>3. WeekKey(i) = d \div 7
  <2>1. WeekKey(i) = (d - (((d % 7) + 7) % 7)) \div 7
    BY <1>1 DEF WeekKey, Weekday, IsoWeek
  <2> HIDE DEF d
  <2> QED BY <2>1, <1>1
<1>4. WeekKey(i) = k <=> d >= 7 * k /\ ~(d >= 7 * (k + 1))
  <2> HIDE DEF d
  <2> QED BY <1>1, <1>3
<1>5. WeekKey(i) = k <=> i >= (7 * k) * U /\ ~(i >= (7 * (k + 1)) * U)
  <2> HIDE DEF d
  <2> QED BY <1>1, <1>2, <1>4
<1>6. U \in Int
  BY CalendarAssumption
<1> QED BY <1>5, <1>6 DEF WeekKeyToRange
-----------------------------------------------------------------------------
(* Sums                                                                     *)

First(S) == CHOOSE x \in S : TRUE
SumStep(f, h, s) == IF s = {} THEN 0 ELSE f[First(s)] + h[s \ {First(s)}]

\* Numbers for the subsets of D that satisfy the recursion of a sum up to size n.
SumsUpTo(D, f, n) ==
  {h \in [SUBSET D -> Nat] :
     \A s \in SUBSET D : Cardinality(s) =< n => h[s] = SumStep(f, h, s)}

LEMMA FirstIn == ASSUME NEW S, S # {} PROVE First(S) \in S
  BY DEF First

LEMMA SubsetsFinite == ASSUME NEW D, IsFiniteSet(D), NEW S \in SUBSET D
                       PROVE  IsFiniteSet(S) /\ Cardinality(S) \in Nat
  BY FS_Subset, FS_CardinalityType

\* A family of subsets of a finite set has one that contains no other.
LEMMA SmallestExists ==
  ASSUME NEW D, IsFiniteSet(D), NEW X \in SUBSET (SUBSET D), X # {}
  PROVE  \E x \in X : \A y \in X : y \subseteq x => y = x
<1> DEFINE R == StrictSubsetOrdering(D)
<1> DEFINE S == SUBSET D
<1>1. IsWellFoundedOn(R, S) /\ X \subseteq S /\ X # {}
  BY FS_StrictSubsetOrderingWellFounded, FS_FiniteSubsetsOfFinite
<1> HIDE DEF R, S
<1>2. \E x \in X : \A y \in X : ~(<<y, x>> \in R)
  BY <1>1, WFMin, Zenon
<1> USE DEF R
<1>3. PICK x \in X : \A y \in X : ~(<<y, x>> \in R)
  BY <1>2
<1>4. ASSUME NEW y \in X, y \subseteq x PROVE y = x
  BY <1>3, <1>4 DEF StrictSubsetOrdering
<1> QED BY <1>4

\* What holds of a set whenever it holds of the smaller ones holds of all.
LEMMA SubsetInduction ==
  ASSUME NEW D, IsFiniteSet(D), NEW T,
         \A s \in SUBSET D : (\A q \in SUBSET s : q # s => q \in T) => s \in T
  PROVE  SUBSET D \subseteq T
<1> DEFINE X == (SUBSET D) \ T
<1> SUFFICES ASSUME X # {} PROVE FALSE
  OBVIOUS
<1>1. PICK x \in X : \A y \in X : y \subseteq x => y = x
  <2>1. X \in SUBSET (SUBSET D)
    OBVIOUS
  <2> HIDE DEF X
  <2> QED BY <2>1, SmallestExists
<1>2. \A q \in SUBSET x : q # x => q \in T
  BY <1>1
<1> QED BY <1>1, <1>2

\* The same with one smaller set, the one without the first element.
LEMMA FirstInduction ==
  ASSUME NEW D, IsFiniteSet(D), NEW T, {} \in T,
         \A s \in SUBSET D : s # {} /\ s \ {First(s)} \in T => s \in T
  PROVE  SUBSET D \subseteq T
<1>1. ASSUME NEW s \in SUBSET D, \A q \in SUBSET s : q # s => q \in T
      PROVE  s \in T
  <2>1. CASE s = {}
    BY <2>1
  <2>2. CASE s # {}
    <3>1. s \ {First(s)} \in SUBSET s /\ s \ {First(s)} # s
      BY <2>2, FirstIn
    <3> QED BY <1>1, <2>2, <3>1
  <2> QED BY <2>1, <2>2
<1> HIDE DEF First
<1> QED BY <1>1, SubsetInduction

\* A set of natural numbers has a least element.
LEMMA NatMin == ASSUME NEW T \in SUBSET Nat, T # {}
                PROVE  \E n \in T : \A m \in T : n =< m
<1>1. PICK n0 \in T : TRUE
  OBVIOUS
<1> DEFINE F == {0..m : m \in {k \in T : k =< n0}}
<1>2. F \subseteq SUBSET (0..n0) /\ 0..n0 \in F
  BY <1>1
<1>3. IsWellFoundedOn(StrictSubsetOrdering(0..n0), FiniteSubsetsOf(0..n0))
  BY FS_StrictSubsetOrderingWellFounded
<1>4. FiniteSubsetsOf(0..n0) = SUBSET (0..n0)
  <2>1. IsFiniteSet(0..n0)
    BY <1>1, FS_Interval
  <2> QED BY <2>1, FS_FiniteSubsetsOfFinite
<1>5. PICK x \in F : \A y \in F : ~(<<y, x>> \in StrictSubsetOrdering(0..n0))
  <2> DEFINE R == StrictSubsetOrdering(0..n0)
  <2>1. IsWellFoundedOn(R, SUBSET (0..n0))
    BY <1>3, <1>4
  <2>2. F \subseteq SUBSET (0..n0) /\ F # {}
    BY <1>2
  <2> HIDE DEF F, R
  <2>3. \E x \in F : \A y \in F : ~(<<y, x>> \in R)
    BY <2>1, <2>2, WFMin, Zenon
  <2> QED BY <2>3 DEF R
<1>6. PICK n \in T : n =< n0 /\ x = 0..n
  OBVIOUS
<1>7. ASSUME NEW m \in T, m < n PROVE FALSE
  <2>1. 0..m \in F
    BY <1>1, <1>6, <1>7
  <2>2. 0..m \subseteq 0..n /\ 0..m # 0..n
    BY <1>6, <1>7
  <2> QED BY <1>2, <1>5, <1>6, <2>1, <2>2 DEF StrictSubsetOrdering
<1> QED BY <1>6, <1>7

\* The recursion has a solution up to every size.
LEMMA SumsExist ==
  ASSUME NEW D, IsFiniteSet(D), NEW f \in [D -> Nat]
  PROVE  \A n \in Nat : SumsUpTo(D, f, n) # {}
<1>1. ASSUME NEW n \in Nat, n = 0 \/ SumsUpTo(D, f, n - 1) # {} PROVE SumsUpTo(D, f, n) # {}
  <2>1. CASE n = 0
    <3> DEFINE h == [s \in SUBSET D |-> 0]
    <3>1. ASSUME NEW s \in SUBSET D, Cardinality(s) =< 0 PROVE h[s] = SumStep(f, h, s)
      <4>1. s = {}
        BY <3>1, SubsetsFinite, FS_EmptySet
      <4> QED BY <4>1 DEF SumStep
    <3>2. h \in SumsUpTo(D, f, 0)
      BY <3>1 DEF SumsUpTo
    <3> QED BY <2>1, <3>2
  <2>2. CASE n # 0
    <3>1. n - 1 \in Nat
      BY <2>2
    <3>2. PICK h \in SumsUpTo(D, f, n - 1) : TRUE
      BY <1>1, <2>2
    <3>3. /\ h \in [SUBSET D -> Nat]
          /\ \A s \in SUBSET D : Cardinality(s) =< n - 1 => h[s] = SumStep(f, h, s)
      BY <3>2 DEF SumsUpTo
    <3> DEFINE g == [s \in SUBSET D |-> SumStep(f, h, s)]
    <3>4. ASSUME NEW s \in SUBSET D, s # {}
          PROVE  /\ First(s) \in s /\ s \ {First(s)} \in SUBSET D
                 /\ Cardinality(s) \in Nat
                 /\ Cardinality(s \ {First(s)}) = Cardinality(s) - 1
      BY <3>4, FirstIn, SubsetsFinite, FS_RemoveElement
    <3>5. ASSUME NEW s \in SUBSET D PROVE SumStep(f, h, s) \in Nat
      <4>1. CASE s = {}
        BY <4>1 DEF SumStep
      <4>2. CASE s # {}
        <5>1. h[s \ {First(s)}] \in Nat
          BY <3>3, <3>4, <4>2
        <5>2. f[First(s)] \in Nat
          BY <3>4, <3>5, <4>2
        <5> QED BY <4>2, <5>1, <5>2 DEF SumStep
      <4> QED BY <4>1, <4>2
    <3>6. ASSUME NEW s \in SUBSET D, Cardinality(s) =< n PROVE g[s] = SumStep(f, g, s)
      <4>1. CASE s = {}
        BY <4>1 DEF SumStep
      <4>2. CASE s # {}
        <5>1. h[s \ {First(s)}] = SumStep(f, h, s \ {First(s)})
          BY <3>3, <3>4, <3>6, <4>2
        <5>2. g[s \ {First(s)}] = h[s \ {First(s)}]
          BY <3>4, <4>2, <5>1
        <5> QED BY <4>2, <5>2 DEF SumStep
      <4> QED BY <4>1, <4>2
    <3>7. g \in SumsUpTo(D, f, n)
      <4>1. g \in [SUBSET D -> Nat]
        BY <3>5
      <4> HIDE DEF g
      <4> QED BY <3>6, <4>1 DEF SumsUpTo
    <3> QED BY <3>7
  <2> QED BY <2>1, <2>2
<1> DEFINE T == {n \in Nat : SumsUpTo(D, f, n) = {}}
<1> SUFFICES ASSUME T # {} PROVE FALSE
  OBVIOUS
<1>2. PICK n \in T : \A m \in T : n =< m
  BY NatMin
<1>3. n = 0 \/ n - 1 \in Nat \ T
  BY <1>2
<1> QED BY <1>1, <1>2, <1>3

LEMMA SumUnfold ==
  ASSUME NEW f, NEW S
  PROVE  SumFunctionOnSet(f, S) = (CHOOSE h : h = [s \in SUBSET S |-> SumStep(f, h, s)])[S]
  BY DEF SumFunctionOnSet, FoldFunctionOnSet, MapThenFoldSet, SumStep, First

\* A sum is that solution: a number, and the first summand more than the rest.
LEMMA SumFirst ==
  ASSUME NEW D, IsFiniteSet(D), NEW f \in [D -> Nat], NEW S \in SUBSET D
  PROVE  /\ SumFunctionOnSet(f, S) \in Nat
         /\ S = {} => SumFunctionOnSet(f, S) = 0
         /\ S # {} => SumFunctionOnSet(f, S)
                        = f[First(S)] + SumFunctionOnSet(f, S \ {First(S)})
<1> DEFINE N == Cardinality(D)
<1>1. N \in Nat /\ \A s \in SUBSET D : Cardinality(s) =< N
  BY FS_CardinalityType, FS_Subset
<1>2. PICK H \in SumsUpTo(D, f, N) : TRUE
  BY <1>1, SumsExist
<1>3. H \in [SUBSET D -> Nat] /\ \A s \in SUBSET D : H[s] = SumStep(f, H, s)
  BY <1>1, <1>2 DEF SumsUpTo
<1>4. ASSUME NEW Q \in SUBSET D PROVE SumFunctionOnSet(f, Q) = H[Q]
  <2> DEFINE Solves(h) == h = [s \in SUBSET Q |-> SumStep(f, h, s)]
  <2> DEFINE h0 == [s \in SUBSET Q |-> H[s]]
  <2>1. ASSUME NEW s \in SUBSET Q PROVE h0[s] = SumStep(f, h0, s)
    <3>1. CASE s = {}
      BY <1>3, <3>1 DEF SumStep
    <3>2. CASE s # {}
      <4>1. s \ {First(s)} \in SUBSET Q /\ s \in SUBSET D
        BY <1>4
      <4>2. h0[s \ {First(s)}] = H[s \ {First(s)}] /\ h0[s] = H[s]
        BY <4>1
      <4>3. H[s] = f[First(s)] + H[s \ {First(s)}]
        BY <1>3, <3>2, <4>1 DEF SumStep
      <4> QED BY <3>2, <4>2, <4>3 DEF SumStep
    <3> QED BY <3>1, <3>2
  <2>2. Solves(h0)
    <3>1. h0 = [s \in SUBSET Q |-> h0[s]]
      OBVIOUS
    <3> HIDE DEF h0
    <3> QED BY <2>1, <3>1
  <2> DEFINE g == CHOOSE h : Solves(h)
  <2>3. Solves(g)
    <3> HIDE DEF h0, Solves
    <3> QED BY <2>2
  <2>4. \A s \in SUBSET Q : g[s] = SumStep(f, g, s)
    <3> HIDE DEF g
    <3> QED BY <2>3
  <2>5. SumFunctionOnSet(f, Q) = g[Q]
    BY SumUnfold
  <2> DEFINE T == {s \in SUBSET Q : g[s] = H[s]}
  <2> HIDE DEF g
  <2>6. {} \in T
    BY <1>3, <2>4 DEF SumStep
  <2>7. ASSUME NEW s \in SUBSET Q, s # {}, s \ {First(s)} \in T PROVE s \in T
    BY <1>3, <1>4, <2>4, <2>7 DEF SumStep
  <2>8. SUBSET Q \subseteq T
    <3> HIDE DEF T
    <3>1. IsFiniteSet(Q)
      BY <1>4, FS_Subset
    <3> QED BY <2>6, <2>7, <3>1, FirstInduction
  <2> QED BY <2>5, <2>8
<1>5. S # {} => SumFunctionOnSet(f, S \ {First(S)}) = H[S \ {First(S)}]
  BY <1>4
<1>6. SumFunctionOnSet(f, S) = H[S] /\ H[S] = SumStep(f, H, S) /\ H[S] \in Nat
  BY <1>3, <1>4
<1> QED BY <1>5, <1>6 DEF SumStep

\* Any summand more than the rest: the order does not matter.
LEMMA SumRemove ==
  ASSUME NEW D, IsFiniteSet(D), NEW f \in [D -> Nat], NEW S \in SUBSET D, NEW x \in S
  PROVE  SumFunctionOnSet(f, S) = f[x] + SumFunctionOnSet(f, S \ {x})
<1> DEFINE T == {s \in SUBSET D : \A y \in s :
                   SumFunctionOnSet(f, s) = f[y] + SumFunctionOnSet(f, s \ {y})}
<1>1. ASSUME NEW s \in SUBSET D, \A q \in SUBSET s : q # s => q \in T, NEW y \in s
      PROVE  SumFunctionOnSet(f, s) = f[y] + SumFunctionOnSet(f, s \ {y})
  <2> DEFINE z == First(s)
  <2>1. z \in s
    BY <1>1, FirstIn
  <2>2. SumFunctionOnSet(f, s) = f[z] + SumFunctionOnSet(f, s \ {z})
    BY <1>1, SumFirst
  <2>3. CASE z = y
    BY <2>2, <2>3
  <2>4. CASE z # y
    <3> HIDE DEF z
    <3>1. s \ {z} \in T /\ s \ {y} \in T /\ y \in s \ {z} /\ z \in s \ {y}
      BY <1>1, <2>1, <2>4
    <3>2. SumFunctionOnSet(f, s \ {z}) = f[y] + SumFunctionOnSet(f, (s \ {z}) \ {y})
      BY <3>1
    <3>3. SumFunctionOnSet(f, s \ {y}) = f[z] + SumFunctionOnSet(f, (s \ {y}) \ {z})
      BY <3>1
    <3>4. (s \ {z}) \ {y} = (s \ {y}) \ {z}
      OBVIOUS
    <3>5. f[y] \in Nat /\ f[z] \in Nat /\ SumFunctionOnSet(f, (s \ {y}) \ {z}) \in Nat
      <4>1. (s \ {y}) \ {z} \in SUBSET D /\ y \in D /\ z \in D
        BY <1>1, <2>1
      <4>2. SumFunctionOnSet(f, (s \ {y}) \ {z}) \in Nat
        BY <4>1, SumFirst
      <4> QED BY <4>1, <4>2
    <3>6. PICK n \in Nat : SumFunctionOnSet(f, (s \ {y}) \ {z}) = n
      BY <3>5
    <3>7. SumFunctionOnSet(f, s) = f[z] + (f[y] + n)
      BY <2>2, <3>2, <3>4, <3>6
    <3>8. SumFunctionOnSet(f, s \ {y}) = f[z] + n
      BY <3>3, <3>6
    <3> HIDE DEF T
    <3> QED BY <3>5, <3>6, <3>7, <3>8
  <2> QED BY <2>3, <2>4
<1>2. \A s \in SUBSET D : (\A q \in SUBSET s : q # s => q \in T) => s \in T
  BY <1>1
<1>3. SUBSET D \subseteq T
  <2> HIDE DEF T
  <2> QED BY <1>2, SubsetInduction
<1> QED BY <1>3

\* Sums of disjoint sets add up.
LEMMA SumUnion ==
  ASSUME NEW D, IsFiniteSet(D), NEW f \in [D -> Nat],
         NEW A \in SUBSET D, NEW B \in SUBSET D, A \cap B = {}
  PROVE  SumFunctionOnSet(f, A \cup B) = SumFunctionOnSet(f, A) + SumFunctionOnSet(f, B)
<1> DEFINE T == {s \in SUBSET B :
                   SumFunctionOnSet(f, A \cup s) = SumFunctionOnSet(f, A) + SumFunctionOnSet(f, s)}
<1>1. \A s \in SUBSET B : SumFunctionOnSet(f, s) \in Nat /\ A \cup s \in SUBSET D
  BY SumFirst
<1>2. SumFunctionOnSet(f, A) \in Nat
  BY SumFirst
<1>3. {} \in T
  <2>1. A \cup {} = A /\ SumFunctionOnSet(f, {}) = 0
    BY SumFirst
  <2> QED BY <1>2, <2>1
<1>4. ASSUME NEW s \in SUBSET B, s # {}, s \ {First(s)} \in T PROVE s \in T
  <2>1. PICK x \in s : x = First(s)
    BY <1>4, FirstIn
  <2>2. x \notin A /\ x \in A \cup s /\ s \in SUBSET D /\ f[x] \in Nat
    BY <1>4, <2>1
  <2>3. SumFunctionOnSet(f, s) = f[x] + SumFunctionOnSet(f, s \ {x})
    BY <2>2, SumRemove
  <2>4. SumFunctionOnSet(f, A \cup s) = f[x] + SumFunctionOnSet(f, (A \cup s) \ {x})
    BY <1>1, <2>2, SumRemove
  <2>5. (A \cup s) \ {x} = A \cup (s \ {x})
    BY <2>2
  <2>6. SumFunctionOnSet(f, A \cup (s \ {x}))
          = SumFunctionOnSet(f, A) + SumFunctionOnSet(f, s \ {x})
    BY <1>4, <2>1
  <2>7. PICK m \in Nat, n \in Nat :
          SumFunctionOnSet(f, s \ {x}) = m /\ SumFunctionOnSet(f, A) = n
    BY <1>1, <1>2
  <2>8. SumFunctionOnSet(f, s) = f[x] + m
    BY <2>3, <2>7
  <2>9. SumFunctionOnSet(f, A \cup s) = f[x] + (n + m)
    BY <2>4, <2>5, <2>6, <2>7
  <2> QED BY <2>2, <2>7, <2>8, <2>9
<1>5. SUBSET B \subseteq T
  <2>1. IsFiniteSet(B)
    BY FS_Subset
  <2> HIDE DEF T
  <2> QED BY <1>3, <1>4, <2>1, FirstInduction
<1> QED BY <1>5

\* The sum over the classes of a partition is the sum over what they hold.
LEMMA SumPartition ==
  ASSUME NEW E, IsFiniteSet(E), NEW c \in [E -> Nat], NEW class,
         NEW D, IsFiniteSet(D), NEW p \in [D -> Nat], NEW K \in SUBSET D,
         \A k \in K : p[k] = SumFunctionOnSet(c, {e \in E : class[e] = k})
  PROVE  SumFunctionOnSet(p, K) = SumFunctionOnSet(c, {e \in E : class[e] \in K})
<1> DEFINE Of(k) == {e \in E : class[e] \in k}
<1> DEFINE T == {k \in SUBSET K : SumFunctionOnSet(p, k) = SumFunctionOnSet(c, Of(k))}
<1>1. {} \in T
  <2>1. Of({}) = {}
    OBVIOUS
  <2>2. SumFunctionOnSet(p, {}) = 0 /\ SumFunctionOnSet(c, {}) = 0
    BY SumFirst
  <2> QED BY <2>1, <2>2
<1>2. ASSUME NEW k \in SUBSET K, k # {}, k \ {First(k)} \in T PROVE k \in T
  <2>1. PICK x \in k : x = First(k)
    BY <1>2, FirstIn
  <2>2. SumFunctionOnSet(p, k) = p[x] + SumFunctionOnSet(p, k \ {x})
    BY <1>2, <2>1, SumRemove
  <2>3. p[x] = SumFunctionOnSet(c, {e \in E : class[e] = x})
    BY <1>2, <2>1
  <2>4. SumFunctionOnSet(p, k \ {x}) = SumFunctionOnSet(c, Of(k \ {x}))
    BY <1>2, <2>1
  <2>5. /\ {e \in E : class[e] = x} \cup Of(k \ {x}) = Of(k)
        /\ {e \in E : class[e] = x} \cap Of(k \ {x}) = {}
        /\ {e \in E : class[e] = x} \in SUBSET E /\ Of(k \ {x}) \in SUBSET E
    BY <2>1
  <2>6. SumFunctionOnSet(c, Of(k))
          = SumFunctionOnSet(c, {e \in E : class[e] = x}) + SumFunctionOnSet(c, Of(k \ {x}))
    <3> DEFINE A == {e \in E : class[e] = x}
    <3> DEFINE B == Of(k \ {x})
    <3>1. A \in SUBSET E /\ B \in SUBSET E /\ A \cap B = {} /\ A \cup B = Of(k)
      BY <2>5
    <3> HIDE DEF A, B, Of
    <3>2. SumFunctionOnSet(c, A \cup B) = SumFunctionOnSet(c, A) + SumFunctionOnSet(c, B)
      BY <3>1, SumUnion
    <3> QED BY <3>1, <3>2 DEF A, B
  <2> HIDE DEF Of
  <2> QED BY <1>2, <2>2, <2>3, <2>4, <2>6
<1>3. SUBSET K \subseteq T
  <2>1. IsFiniteSet(K)
    BY FS_Subset
  <2> HIDE DEF T
  <2> QED BY <1>1, <1>2, <2>1, FirstInduction
<1> QED BY <1>3

\* Renaming what is summed does not change the sum.
LEMMA SumPairs ==
  ASSUME NEW E, IsFiniteSet(E), NEW c \in [E -> Nat],
         NEW M, IsFiniteSet(M), NEW f \in [M -> Nat], NEW r,
         \A m \in M : <<r, m>> \in E /\ c[<<r, m>>] = f[m]
  PROVE  SumFunctionOnSet(c, {<<r, m>> : m \in M}) = SumFunctionOnSet(f, M)
<1> DEFINE Pairs(s) == {<<r, m>> : m \in s}
<1> DEFINE T == {s \in SUBSET M : SumFunctionOnSet(c, Pairs(s)) = SumFunctionOnSet(f, s)}
<1>1. {} \in T
  <2>1. Pairs({}) = {}
    OBVIOUS
  <2>2. SumFunctionOnSet(f, {}) = 0 /\ SumFunctionOnSet(c, {}) = 0
    BY SumFirst
  <2> QED BY <2>1, <2>2
<1>2. ASSUME NEW s \in SUBSET M, s # {}, s \ {First(s)} \in T PROVE s \in T
  <2>1. PICK x \in s : x = First(s)
    BY <1>2, FirstIn
  <2>2. SumFunctionOnSet(f, s) = f[x] + SumFunctionOnSet(f, s \ {x})
    BY <1>2, <2>1, SumRemove
  <2>3. Pairs(s) \in SUBSET E /\ <<r, x>> \in Pairs(s) /\ Pairs(s) \ {<<r, x>>} = Pairs(s \ {x})
    BY <2>1
  <2>4. SumFunctionOnSet(c, Pairs(s)) = c[<<r, x>>] + SumFunctionOnSet(c, Pairs(s) \ {<<r, x>>})
    <3> HIDE DEF Pairs
    <3> QED BY <2>3, SumRemove
  <2>5. c[<<r, x>>] = f[x]
    BY <2>1
  <2>6. SumFunctionOnSet(c, Pairs(s \ {x})) = SumFunctionOnSet(f, s \ {x})
    BY <1>2, <2>1
  <2> HIDE DEF Pairs
  <2> QED BY <1>2, <2>2, <2>3, <2>4, <2>5, <2>6
<1>3. SUBSET M \subseteq T
  <2> HIDE DEF T
  <2> QED BY <1>1, <1>2, FirstInduction
<1> QED BY <1>3

\* The cost of tasks is a number, and that of none is 0.
LEMMA CostStep ==
  ASSUME NEW S \in SUBSET Runs
  PROVE  CostOfRuns(S) \in Nat /\ (S = {} => CostOfRuns(S) = 0)
  BY SumFirst, CostWarnAssumption DEF CostOfRuns
-----------------------------------------------------------------------------
(* Types                                                                    *)

Messages == [scope : Scopes, key : Int, level : Levels, pct : Int, run : Runs]

IType ==
  /\ TypeOK
  /\ sent \subseteq Messages /\ pending \subseteq Messages
  /\ \A m, n \in pending : m = n
  /\ pending # {} => holder # NoRun

-----------------------------------------------------------------------------
(* One warning of a kind in a bucket                                        *)

\* Every worker evaluates in the bucket its task finished in.
Prompt == \A r \in Runs, s \in Scopes : pc[r] = "waiting" => KeyOf(s, at[r]) = KeyOf(s, now)

\* A message there is belongs to a bucket that is over, or its flag is stored.
Told ==
  \A m \in sent \cup pending :
    \/ m.key < stored.key[m.scope]
    \/ m.key = stored.key[m.scope] /\ m.level \in stored.warned[m.scope]

\* The copy of the call that holds the mutex is what is stored, reset.
CopyFresh ==
  holder # NoRun =>
    \A s \in Scopes :
      /\ flags.key[s] = KeyOf(s, at[holder])
      /\ flags.warned[s] = IF stored.key[s] = flags.key[s] THEN stored.warned[s] ELSE {}

OnceEach ==
  \A m, n \in sent \cup pending : m.scope = n.scope /\ m.key = n.key /\ m.level = n.level => m = n

IOnce ==
  /\ IType
  /\ Prompt
  /\ \A s \in Scopes : stored.key[s] =< KeyOf(s, now)
  /\ Told
  /\ CopyFresh
  /\ OnceEach

-----------------------------------------------------------------------------
(* A limit that is reached is announced                                     *)

Bucket(s, k) == {r \in DoneRuns : KeyOf(s, done[r]) = k}

Announced(s, k) == \E m \in sent \cup pending : m.scope = s /\ m.key = k /\ m.level = 100

Evaluated(r, s) == holder = r /\ (step = "last" \/ (s = "daily" /\ step = "weekly"))

\* A worker is still to look at this bucket.
Expected(s, k) ==
  \E r \in Runs : pc[r] = "waiting" /\ KeyOf(s, at[r]) = k /\ ~Evaluated(r, s)

Rows ==
  \A r \in Runs :
    /\ pc[r] = "running" => done[r] = 0
    /\ pc[r] = "waiting" => at[r] # 0
    /\ smooth /\ pc[r] = "waiting" => done[r] = at[r]

Settled(s, k) ==
  MaxOf(s) = 0 \/ CostOfRuns(Bucket(s, k)) < MaxOf(s) \/ Announced(s, k) \/ Expected(s, k)

\* The flag of a limit is set for what is announced only.
FlagsTrue ==
  \A s \in Scopes :
    /\ 100 \in stored.warned[s] => Announced(s, stored.key[s])
    /\ holder # NoRun /\ 100 \in flags.warned[s] => Announced(s, flags.key[s])

ICap ==
  /\ IType
  /\ Rows
  /\ holder # NoRun => \A s \in Scopes : flags.key[s] = KeyOf(s, at[holder])
  /\ smooth => FlagsTrue
  /\ smooth => \A s \in Scopes, k \in Int : Settled(s, k)

LEMMA KeyType == ASSUME NEW s \in Scopes, NEW i \in Int PROVE KeyOf(s, i) \in Int
<1>1. LocalDay(i) \in Int
  BY LocalDayType
<1>2. WeekKey(i) \in Int
  <2> DEFINE d == LocalDay(i)
  <2>1. WeekKey(i) = (d - (((d % 7) - WeekStartsOn + 7) % 7)) \div 7
    BY DEF WeekKey, Weekday, IsoWeek
  <2> HIDE DEF d
  <2> QED BY <2>1, <1>1, CalendarAssumption DEF d
<1> QED BY <1>1, <1>2 DEF KeyOf, DateKey

\* Time goes on, and so do the names of the buckets.
LEMMA KeyLater == ASSUME NEW s \in Scopes, NEW i \in Int
                  PROVE  KeyOf(s, i) =< KeyOf(s, i + 1)
<1>1. LocalDay(i) =< LocalDay(i + 1)
  BY LocalDayStep, LocalDayType
<1>2. WeekKey(i) =< WeekKey(i + 1)
  <2> DEFINE d == LocalDay(i)
  <2> DEFINE e == LocalDay(i + 1)
  <2>1. d \in Int /\ e \in Int /\ WeekStartsOn \in 0..6 /\ (e = d \/ e = d + 1)
    BY LocalDayType, LocalDayStep, CalendarAssumption
  <2>2. WeekKey(i) = (d - (((d % 7) - WeekStartsOn + 7) % 7)) \div 7
    BY DEF WeekKey, Weekday, IsoWeek
  <2>3. WeekKey(i + 1) = (e - (((e % 7) - WeekStartsOn + 7) % 7)) \div 7
    BY DEF WeekKey, Weekday, IsoWeek
  <2> HIDE DEF d, e
  <2> QED BY <2>1, <2>2, <2>3
<1> QED BY <1>1, <1>2 DEF KeyOf, DateKey

\* The flags there are before the first call belong to no later bucket.
LEMMA KeyLow == ASSUME NEW s \in Scopes, NEW i \in Nat \ {0} PROVE KeyOf(s, i) >= -1
<1>1. LocalDay(i) >= -1
  <2>1. (i + Zone) \div U \in Int /\ i + Zone < ((i + Zone) \div U + 1) * U
    BY Quotient, CalendarAssumption
  <2>2. i + Zone > -1 * U
    BY CalendarAssumption
  <2>3. ASSUME NEW q \in Int, i + Zone < (q + 1) * U PROVE q >= -1
    <3>1. CASE q < -1
      <4>1. (q + 1) * U =< -1 * U
        BY <3>1, CalendarAssumption
      <4> QED BY <2>2, <2>3, <4>1, CalendarAssumption
    <3> QED BY <3>1, <2>3
  <2> QED BY <2>1, <2>3 DEF LocalDay
<1>2. WeekKey(i) >= -1
  <2> DEFINE d == LocalDay(i)
  <2>1. d \in Int /\ d >= -1 /\ WeekStartsOn \in 0..6
    BY <1>1, LocalDayType, CalendarAssumption
  <2>2. WeekKey(i) = (d - (((d % 7) - WeekStartsOn + 7) % 7)) \div 7
    BY DEF WeekKey, Weekday, IsoWeek
  <2> HIDE DEF d
  <2> QED BY <2>1, <2>2
<1> QED BY <1>1, <1>2 DEF KeyOf, DateKey

LEMMA SumType == ASSUME NEW s, NEW k PROVE SumCost(s, k) \in Nat
  BY CostStep DEF SumCost, DoneRuns

LEMMA PercentType == ASSUME NEW c \in Nat, NEW m \in Nat \ {0} PROVE Percent(c, m) \in Int
  BY DEF Percent

LEMMA MaxType == ASSUME NEW s \in Scopes PROVE MaxOf(s) \in Nat
  BY CostWarnAssumption DEF MaxOf

\* What a call does with one bucket: it sets one flag, stores and announces it,
\* or it changes nothing, because nothing is crossed or the sum has failed.
LEMMA EvaluateEffect ==
  ASSUME IType, NEW s \in Scopes, NEW next, Evaluate(s, next)
  PROVE  LET pct == Percent(SumCost(s, flags.key[s]), MaxOf(s))
         IN
         /\ step = s /\ pending = {} /\ step' = next
         /\ holder \in Runs /\ pc[holder] = "waiting"
         /\ UNCHANGED <<now, pc, at, done, failed, holder, crashes, sent>>
         /\ \/ \E l \in Levels :
                 /\ l \notin flags.warned[s]
                 /\ pending' = {[scope |-> s, key |-> flags.key[s], level |-> l,
                                 pct |-> pct, run |-> holder]}
                 /\ pct \in Int
                 /\ flags' = [flags EXCEPT !.warned[s] = @ \cup {l}]
                 /\ Persist
                 /\ l = 80 => ~(pct >= 1000) \/ 100 \in flags.warned[s]
            \/ /\ UNCHANGED <<flags, stored, pending>>
               /\ \/ smooth' = smooth /\ (MaxOf(s) = 0 \/ ~(pct >= 1000) \/ 100 \in flags.warned[s])
                  \/ smooth' = FALSE
<1> DEFINE pct == Percent(SumCost(s, flags.key[s]), MaxOf(s))
<1> DEFINE new == IF MaxOf(s) = 0 THEN {} ELSE Crossed(pct, flags.warned[s])
<1>1. /\ step = s /\ pending = {} /\ step' = next
      /\ UNCHANGED <<now, pc, at, done, failed, holder, crashes, sent>>
  BY DEF Evaluate
<1>2. holder \in Runs /\ pc[holder] = "waiting"
  BY <1>1 DEF IType, TypeOK, Scopes
<1>3. \/ /\ new # {}
         /\ flags' = [flags EXCEPT !.warned[s] = @ \cup new]
         /\ Persist
         /\ pending' = {[scope |-> s, key |-> flags.key[s], level |-> l, pct |-> pct, run |-> holder] : l \in new}
      \/ /\ (new = {} /\ Works) \/ Fails("sum")
         /\ UNCHANGED <<flags, stored, pending>>
  BY DEF Evaluate
<1>4. MaxOf(s) # 0 => pct \in Int
  BY SumType, PercentType, MaxType
<1> HIDE DEF pct
<1>5. new = {} => MaxOf(s) = 0 \/ ~(pct >= 1000) \/ 100 \in flags.warned[s]
  BY DEF Crossed
<1>6. \/ new = {}
      \/ \E l \in Levels : /\ new = {l} /\ l \notin flags.warned[s] /\ MaxOf(s) # 0
                           /\ l = 80 => ~(pct >= 1000) \/ 100 \in flags.warned[s]
  BY DEF Crossed, Levels
<1> HIDE DEF new
<1>7. CASE new # {} /\ flags' = [flags EXCEPT !.warned[s] = @ \cup new] /\ Persist
           /\ pending' = {[scope |-> s, key |-> flags.key[s], level |-> l, pct |-> pct, run |-> holder] : l \in new}
  <2>1. PICK l \in Levels : /\ new = {l} /\ l \notin flags.warned[s] /\ MaxOf(s) # 0
                            /\ l = 80 => ~(pct >= 1000) \/ 100 \in flags.warned[s]
    BY <1>6, <1>7
  <2>2. pending' = {[scope |-> s, key |-> flags.key[s], level |-> l, pct |-> pct, run |-> holder]}
    BY <1>7, <2>1
  <2>3. flags' = [flags EXCEPT !.warned[s] = @ \cup {l}]
    BY <1>7, <2>1
  <2> QED BY <1>1, <1>2, <1>4, <1>7, <2>1, <2>2, <2>3 DEF pct
<1>8. CASE ((new = {} /\ Works) \/ Fails("sum")) /\ UNCHANGED <<flags, stored, pending>>
  BY <1>1, <1>2, <1>5, <1>8 DEF pct, Works, Fails
<1> QED BY <1>3, <1>7, <1>8

\* Setting a flag changes no other.
LEMMA FlagSet ==
  ASSUME NEW f \in Flags, NEW s \in Scopes, NEW l \in Levels, NEW g,
         g = [f EXCEPT !.warned[s] = @ \cup {l}]
  PROVE  /\ g \in Flags /\ g.key = f.key
         /\ \A t \in Scopes : g.warned[t] = IF t = s THEN f.warned[t] \cup {l} ELSE f.warned[t]
  BY DEF Flags

LEMMA ResetType ==
  ASSUME NEW f \in Flags, NEW i \in Int
  PROVE  /\ ResetFlags(i, f) \in Flags
         /\ \A s \in Scopes :
              /\ ResetFlags(i, f).key[s] = KeyOf(s, i)
              /\ ResetFlags(i, f).warned[s] = IF f.key[s] = KeyOf(s, i) THEN f.warned[s] ELSE {}
<1>1. \A s \in Scopes : KeyOf(s, i) \in Int /\ f.warned[s] \in SUBSET Levels
  BY KeyType DEF Flags
<1> QED BY <1>1 DEF ResetFlags, Flags

LEMMA TypeInit == Init => IType
  BY CostWarnAssumption DEF Init, IType, TypeOK, NoFlags, Flags, Scopes

LEMMA TypeNext == IType /\ [Next]_vars => IType'
<1> SUFFICES ASSUME IType, [Next]_vars PROVE IType'
  OBVIOUS
<1> USE CostWarnAssumption
<1>1. CASE AdvanceClock
  BY <1>1 DEF AdvanceClock, IType, TypeOK
<1>2. ASSUME NEW r \in Runs, Finish(r) PROVE IType'
  <2>1. /\ pc' \in [Runs -> {"running", "waiting", "over"}]
        /\ at' \in [Runs -> 0..LastInstant] /\ done' \in [Runs -> 0..LastInstant]
        /\ failed' \in [Runs -> 0..LastInstant] /\ smooth' \in BOOLEAN
    <3>1. now \in 0..LastInstant
      BY DEF IType, TypeOK
    <3>2. /\ pc' \in [Runs -> {"running", "waiting", "over"}]
          /\ at' \in [Runs -> 0..LastInstant]
      BY <1>2, <3>1 DEF Finish, IType, TypeOK
    <3>3. done' \in [Runs -> 0..LastInstant]
      BY <1>2, <3>1 DEF Finish, IType, TypeOK
    <3>4. failed' \in [Runs -> 0..LastInstant]
      BY <1>2, <3>1 DEF Finish, IType, TypeOK
    <3>5. smooth' \in BOOLEAN
      BY <1>2 DEF Finish, IType, TypeOK, Works, Fails
    <3> QED BY <3>2, <3>3, <3>4, <3>5
  <2>2. holder' # NoRun => pc'[holder'] = "waiting"
    BY <1>2 DEF Finish, IType, TypeOK
  <2> QED BY <1>2, <2>1, <2>2 DEF Finish, IType, TypeOK
<1>3. ASSUME NEW r \in Runs, Enter(r) PROVE IType'
  <2>1. ResetFlags(at[r], stored) \in Flags
    BY ResetType DEF IType, TypeOK
  <2> QED BY <1>3, <2>1 DEF Enter, IType, TypeOK, Works, Fails
<1>4. ASSUME NEW s \in Scopes, NEW next \in {"weekly", "last"}, Evaluate(s, next) PROVE IType'
  <2> DEFINE pct == Percent(SumCost(s, flags.key[s]), MaxOf(s))
  <2>1. /\ holder \in Runs /\ pc[holder] = "waiting" /\ step' = next /\ pending = {}
        /\ UNCHANGED <<now, pc, at, done, failed, holder, crashes, sent>>
    BY <1>4, EvaluateEffect
  <2>2. /\ flags' \in Flags /\ stored' \in Flags /\ smooth' \in BOOLEAN
        /\ pending' \subseteq Messages /\ \A m, n \in pending' : m = n
    <3>1. CASE UNCHANGED <<flags, stored, pending>> /\ smooth' \in BOOLEAN
      BY <2>1, <3>1 DEF IType, TypeOK
    <3>2. ASSUME NEW l \in Levels,
                 pending' = {[scope |-> s, key |-> flags.key[s], level |-> l, pct |-> pct, run |-> holder]},
                 pct \in Int, flags' = [flags EXCEPT !.warned[s] = @ \cup {l}], Persist
          PROVE  /\ flags' \in Flags /\ stored' \in Flags /\ smooth' \in BOOLEAN
                 /\ pending' \subseteq Messages /\ \A m, n \in pending' : m = n
      <4>1. flags \in Flags /\ stored \in Flags /\ smooth \in BOOLEAN
        BY DEF IType, TypeOK
      <4>2. flags' \in Flags
        BY <3>2, <4>1, FlagSet
      <4>3. flags.key[s] \in Int
        BY <4>1 DEF Flags
      <4> HIDE DEF pct
      <4>4. pending' \subseteq Messages /\ \A m, n \in pending' : m = n
        BY <2>1, <3>2, <4>3 DEF Messages
      <4>5. stored' \in Flags /\ smooth' \in BOOLEAN
        BY <3>2, <4>1, <4>2 DEF Persist, Works, Fails
      <4> QED BY <4>2, <4>4, <4>5
    <3>3. smooth \in BOOLEAN
      BY DEF IType, TypeOK
    <3> QED BY <1>4, <3>1, <3>2, <3>3, EvaluateEffect
  <2>3. sent' \cup pending' \subseteq Messages
    BY <2>1, <2>2 DEF IType
  <2>4. \A m \in sent' \cup pending' : m.scope \in Scopes /\ m.level \in Levels
    BY <2>3 DEF Messages
  <2>5. holder' # NoRun /\ step' # "none" /\ step' \in {"none", "daily", "weekly", "last"}
    BY <2>1
  <2> QED BY <2>1, <2>2, <2>3, <2>4, <2>5 DEF IType, TypeOK
<1>5. CASE NotifyCostWarning
  BY <1>5 DEF NotifyCostWarning, IType, TypeOK, Works, Fails
<1>6. CASE Leave
  BY <1>6 DEF Leave, IType, TypeOK, Persist, Works, Fails
<1>7. CASE Crash
  <2>1. pc' \in [Runs -> {"running", "waiting", "over"}]
    BY <1>7 DEF Crash
  <2>2. crashes' \in 0..MaxCrashes
    BY <1>7 DEF Crash, IType, TypeOK
  <2>3. sent' \cup pending' \subseteq Messages
    BY <1>7 DEF Crash, IType
  <2>4. \A m \in sent' \cup pending' : m.scope \in Scopes /\ m.level \in Levels
    BY <2>3 DEF Messages
  <2>5. /\ UNCHANGED <<now, at, done, failed, stored, flags>> /\ smooth' = FALSE
        /\ holder' = NoRun /\ step' = "none" /\ pending' = {}
    BY <1>7 DEF Crash
  <2> QED BY <2>1, <2>2, <2>3, <2>4, <2>5 DEF IType, TypeOK
<1>8. CASE UNCHANGED vars
  BY <1>8 DEF vars, IType, TypeOK
<1> QED BY <1>1, <1>2, <1>3, <1>4, <1>5, <1>6, <1>7, <1>8 DEF Next, Scopes

LEMMA TypeInvariant == Spec => []IType
<1> QED BY TypeInit, TypeNext, PTL DEF Spec

\* Every run of the task workers keeps the types, for all costs and limits.
THEOREM TypeCorrect == Spec => []TypeOK
<1>1. IType => TypeOK
  BY DEF IType
<1> QED BY <1>1, TypeInvariant, PTL

\* What a stored set of flags must keep of the one before it.
Covers(f, g) ==
  \A s \in Scopes : \/ g.key[s] < f.key[s]
                    \/ g.key[s] = f.key[s] /\ g.warned[s] \subseteq f.warned[s]

LEMMA ToldStays ==
  ASSUME NEW f \in Flags, NEW g \in Flags, Covers(f, g),
         NEW m \in Messages,
         \/ m.key < g.key[m.scope]
         \/ m.key = g.key[m.scope] /\ m.level \in g.warned[m.scope]
  PROVE  \/ m.key < f.key[m.scope]
         \/ m.key = f.key[m.scope] /\ m.level \in f.warned[m.scope]
<1>1. m.scope \in Scopes /\ m.key \in Int
  BY DEF Messages
<1>2. f.key[m.scope] \in Int /\ g.key[m.scope] \in Int
  BY <1>1 DEF Flags
<1> QED BY <1>1, <1>2 DEF Covers

LEMMA OnceInit == Init => IOnce
<1> SUFFICES ASSUME Init PROVE IOnce
  OBVIOUS
<1>1. IType
  BY TypeInit
<1>2. \A s \in Scopes : stored.key[s] =< KeyOf(s, now)
  BY KeyLow, CostWarnAssumption DEF Init, NoFlags
<1> QED BY <1>1, <1>2 DEF Init, IOnce, Prompt, Told, CopyFresh, OnceEach

LEMMA OnceNext ==
  ASSUME ~SlowCalls, "store" \notin Faults, IOnce, [Next]_vars
  PROVE  IOnce'
<1>1. IType /\ IType'
  BY TypeNext DEF IOnce
<1>2. /\ now \in Int /\ stored \in Flags /\ flags \in Flags
      /\ at \in [Runs -> Int] /\ holder \in Runs \cup {NoRun} /\ NoRun \notin Runs
      /\ holder # NoRun => pc[holder] = "waiting"
      /\ pc \in [Runs -> {"running", "waiting", "over"}]
      /\ sent \cup pending \subseteq Messages
  BY <1>1, CostWarnAssumption DEF IType, TypeOK
<1>3. \A s \in Scopes : KeyOf(s, now) \in Int /\ stored.key[s] \in Int /\ flags.key[s] \in Int
  BY <1>2, KeyType DEF Flags
<1>4. /\ Prompt /\ Told /\ CopyFresh /\ OnceEach
      /\ \A s \in Scopes : stored.key[s] =< KeyOf(s, now)
  BY DEF IOnce
<1>5. ASSUME holder # NoRun
      PROVE  Covers(flags, stored) /\ \A s \in Scopes : flags.key[s] = KeyOf(s, now)
  <2>1. \A s \in Scopes : /\ flags.key[s] = KeyOf(s, now)
                          /\ flags.warned[s] = IF stored.key[s] = flags.key[s] THEN stored.warned[s] ELSE {}
    BY <1>2, <1>4, <1>5 DEF Prompt, CopyFresh
  <2> QED BY <1>3, <1>4, <2>1 DEF Covers
<1>6. CASE AdvanceClock
  <2>1. Prompt'
    BY <1>6 DEF AdvanceClock, Prompt
  <2>2. \A s \in Scopes : stored.key[s] =< KeyOf(s, now + 1)
    <3>1. \A s \in Scopes : KeyOf(s, now + 1) \in Int /\ KeyOf(s, now) =< KeyOf(s, now + 1)
      BY <1>2, KeyType, KeyLater
    <3> QED BY <1>3, <1>4, <3>1
  <2> QED BY <1>1, <1>4, <1>6, <2>1, <2>2 DEF AdvanceClock, IOnce, Told, CopyFresh, OnceEach
<1>7. ASSUME NEW r \in Runs, Finish(r) PROVE IOnce'
  <2>1. Prompt'
    BY <1>2, <1>4, <1>7 DEF Finish, Prompt
  <2>2. CopyFresh'
    <3>1. holder # NoRun => at'[holder] = at[holder]
      BY <1>2, <1>7 DEF Finish
    <3> QED BY <1>4, <1>7, <3>1 DEF Finish, CopyFresh
  <2> QED BY <1>1, <1>4, <1>7, <2>1, <2>2 DEF Finish, IOnce, Told, OnceEach
<1>8. ASSUME NEW r \in Runs, Enter(r) PROVE IOnce'
  <2>1. Prompt'
    BY <1>2, <1>4, <1>8 DEF Enter, Prompt
  <2>2. CopyFresh'
    <3>1. CASE holder' = r /\ flags' = ResetFlags(at[r], stored) /\ UNCHANGED <<stored, at>>
      <4>1. at[r] \in Int
        BY <1>2
      <4>2. \A s \in Scopes :
              /\ flags'.key[s] = KeyOf(s, at[r])
              /\ flags'.warned[s] = IF stored.key[s] = KeyOf(s, at[r]) THEN stored.warned[s] ELSE {}
        BY <1>2, <3>1, <4>1, ResetType
      <4> QED BY <3>1, <4>2 DEF CopyFresh
    <3>2. CASE holder' = NoRun
      BY <3>2 DEF CopyFresh
    <3> QED BY <1>8, <3>1, <3>2 DEF Enter
  <2> QED BY <1>1, <1>4, <1>8, <2>1, <2>2 DEF Enter, IOnce, Told, OnceEach
<1>9. ASSUME NEW s \in Scopes, NEW next, Evaluate(s, next) PROVE IOnce'
  <2> DEFINE pct == Percent(SumCost(s, flags.key[s]), MaxOf(s))
  <2>1. /\ holder \in Runs /\ pending = {}
        /\ UNCHANGED <<now, pc, at, done, failed, holder, crashes, sent>>
    BY <1>1, <1>9, EvaluateEffect
  <2>2. Prompt'
    BY <1>4, <2>1 DEF Prompt
  <2>3. CASE UNCHANGED <<flags, stored, pending>>
    BY <1>1, <1>4, <2>1, <2>2, <2>3 DEF IOnce, Told, CopyFresh, OnceEach
  <2>4. ASSUME NEW l \in Levels, l \notin flags.warned[s],
               pending' = {[scope |-> s, key |-> flags.key[s], level |-> l, pct |-> pct, run |-> holder]},
               flags' = [flags EXCEPT !.warned[s] = @ \cup {l}], Persist
        PROVE  IOnce'
    <3> HIDE DEF pct
    <3>1. stored' = flags'
      BY <2>4 DEF Persist, Fails
    <3>2. /\ flags' \in Flags /\ flags'.key = flags.key
          /\ \A t \in Scopes : flags'.warned[t] = IF t = s THEN flags.warned[t] \cup {l} ELSE flags.warned[t]
      <4>1. flags \in Flags /\ flags' = [flags EXCEPT !.warned[s] = @ \cup {l}]
        BY <1>2, <2>4
      <4>2. flags' \in Flags /\ flags'.key = flags.key
        BY <4>1, FlagSet
      <4>3. \A t \in Scopes : flags'.warned[t] = IF t = s THEN flags.warned[t] \cup {l} ELSE flags.warned[t]
        <5>1. flags.warned \in [Scopes -> SUBSET Levels]
          BY <4>1 DEF Flags
        <5>2. flags'.warned = [flags.warned EXCEPT ![s] = flags.warned[s] \cup {l}]
          BY <4>1 DEF Flags
        <5> QED BY <5>1, <5>2
      <4> QED BY <4>2, <4>3
    <3>3. holder # NoRun /\ \A t \in Scopes : flags.key[t] = KeyOf(t, now)
      BY <1>2, <1>5, <2>1
    <3>4. Covers(flags, stored) /\ Covers(flags', stored)
      BY <1>5, <3>2, <3>3 DEF Covers
    <3>5. \A m \in sent : \/ m.key < flags'.key[m.scope]
                          \/ m.key = flags'.key[m.scope] /\ m.level \in flags'.warned[m.scope]
      BY <1>2, <1>4, <3>2, <3>4, ToldStays DEF Told
    <3>6. Told'
      BY <2>1, <2>4, <3>1, <3>2, <3>5 DEF Told
    <3>7. CopyFresh'
      BY <1>4, <2>1, <3>1, <3>2, <3>3 DEF CopyFresh
    <3>8. ASSUME NEW m \in sent PROVE ~(m.scope = s /\ m.key = flags.key[s] /\ m.level = l)
      <4>1. \/ m.key < flags.key[m.scope]
            \/ m.key = flags.key[m.scope] /\ m.level \in flags.warned[m.scope]
        BY <1>2, <1>4, <3>4, ToldStays DEF Told
      <4> QED BY <1>3, <2>4, <4>1
    <3>9. OnceEach'
      BY <1>4, <2>1, <2>4, <3>8 DEF OnceEach
    <3>10. \A t \in Scopes : stored'.key[t] =< KeyOf(t, now')
      BY <1>3, <2>1, <3>1, <3>2, <3>3
    <3> QED BY <1>1, <2>2, <3>6, <3>7, <3>9, <3>10 DEF IOnce
  <2> QED BY <1>1, <1>9, <2>3, <2>4, EvaluateEffect
<1>10. CASE NotifyCostWarning
  <2>1. sent' \cup pending' \subseteq sent \cup pending
    BY <1>10 DEF NotifyCostWarning
  <2> QED BY <1>1, <1>4, <1>10, <2>1
          DEF NotifyCostWarning, IOnce, Prompt, Told, CopyFresh, OnceEach
<1>11. CASE Leave
  <2>1. /\ stored' = flags /\ holder' = NoRun /\ holder # NoRun
        /\ UNCHANGED <<now, at, pending, sent>>
    BY <1>1, <1>11 DEF Leave, Persist, Fails, IType, TypeOK
  <2>2. Prompt'
    BY <1>2, <1>4, <1>11 DEF Leave, Prompt
  <2>3. Told'
    BY <1>2, <1>4, <1>5, <2>1, ToldStays DEF Told
  <2>4. \A s \in Scopes : stored'.key[s] =< KeyOf(s, now')
    BY <1>3, <1>5, <2>1
  <2> QED BY <1>1, <1>4, <2>1, <2>2, <2>3, <2>4 DEF IOnce, CopyFresh, OnceEach
<1>12. CASE Crash
  <2>1. sent' \cup pending' \subseteq sent \cup pending
    BY <1>12 DEF Crash
  <2>2. Prompt'
    BY <1>12 DEF Crash, Prompt
  <2> QED BY <1>1, <1>4, <1>12, <2>1, <2>2 DEF Crash, IOnce, Told, CopyFresh, OnceEach
<1>13. CASE UNCHANGED vars
  BY <1>1, <1>4, <1>13 DEF vars, IOnce, Prompt, Told, CopyFresh, OnceEach
<1> QED BY <1>6, <1>7, <1>8, <1>9, <1>10, <1>11, <1>12, <1>13 DEF Next, Scopes

\* A warning is sent once in a bucket, whatever fails but the store of its flag
\* and however often the process dies, when no call outlives its bucket
\* (EvaluateCostWarn: reset, flag, store, message).
THEOREM WarnedOnce ==
  ASSUME ~SlowCalls, "store" \notin Faults
  PROVE  Spec => []AtMostOnce
<1>1. IOnce => AtMostOnce
  BY DEF IOnce, OnceEach, AtMostOnce
<1>2. IOnce /\ [Next]_vars => IOnce'
  BY OnceNext
<1> QED BY <1>1, <1>2, OnceInit, PTL DEF Spec

LEMMA PercentFull ==
  ASSUME NEW c \in Nat, NEW m \in Nat \ {0}, c >= m
  PROVE  Percent(c, m) >= 1000
<1> DEFINE i == 2000 * c + m
<1> DEFINE q == i \div (2 * m)
<1>1. i \in Int /\ i >= 1000 * (2 * m) /\ 2 * m \in Nat \ {0}
  OBVIOUS
<1>2. q \in Int
  BY <1>1
<1> HIDE DEF i
<1>3. i < (q + 1) * (2 * m)
  BY <1>1, <1>2, Quotient
<1> HIDE DEF q
<1>4. CASE q < 1000
  <2>1. (q + 1) * (2 * m) =< 1000 * (2 * m)
    BY <1>1, <1>2, <1>4
  <2> QED BY <1>1, <1>2, <1>3, <2>1
<1> QED BY <1>2, <1>4 DEF Percent, i, q

\* The sum that is compared is the cost of the bucket.
LEMMA BucketSum ==
  ASSUME Zone = 0, WeekStartsOn = 0, done \in [Runs -> Int],
         NEW s \in Scopes, NEW k \in Int
  PROVE  SumCost(s, k) = CostOfRuns(Bucket(s, k))
<1> DEFINE range == RangeOf(s, k)
<1>1. ASSUME NEW r \in Runs
      PROVE  KeyOf(s, done[r]) = k <=> done[r] >= range.from /\ done[r] < range.to
  <2>1. done[r] \in Int
    BY <1>1
  <2>2. CASE s = "daily"
    <3>1. DateKey(done[r]) = k <=> DayKeyToRange(k).from =< done[r] /\ done[r] < DayKeyToRange(k).to
      BY <2>1, DayRange
    <3>2. range = DayKeyToRange(k) /\ KeyOf(s, done[r]) = DateKey(done[r])
      BY <2>2 DEF RangeOf, KeyOf
    <3>3. DayKeyToRange(k).from \in Int
      BY CalendarAssumption DEF DayKeyToRange
    <3> HIDE DEF range
    <3> QED BY <2>1, <3>1, <3>2, <3>3
  <2>3. CASE s # "daily"
    <3>1. WeekKey(done[r]) = k <=> WeekKeyToRange(k).from =< done[r] /\ done[r] < WeekKeyToRange(k).to
      BY <2>1, WeekRange
    <3>2. range = WeekKeyToRange(k) /\ KeyOf(s, done[r]) = WeekKey(done[r])
      BY <2>3 DEF RangeOf, KeyOf
    <3>3. WeekKeyToRange(k).from \in Int
      BY CalendarAssumption DEF WeekKeyToRange
    <3> HIDE DEF range
    <3> QED BY <2>1, <3>1, <3>2, <3>3
  <2> QED BY <2>2, <2>3
<1> HIDE DEF range
<1>2. {r \in DoneRuns : done[r] >= range.from /\ done[r] < range.to} = Bucket(s, k)
  BY <1>1 DEF Bucket, DoneRuns
<1> QED BY <1>2 DEF SumCost, range

LEMMA BucketType == ASSUME NEW s, NEW k PROVE CostOfRuns(Bucket(s, k)) \in Nat
  BY CostStep DEF Bucket, DoneRuns

LEMMA CapInit == Init => ICap
<1> SUFFICES ASSUME Init PROVE ICap
  OBVIOUS
<1>1. IType
  BY TypeInit
<1>2. ASSUME NEW s \in Scopes, NEW k \in Int PROVE Settled(s, k)
  <2>1. Bucket(s, k) = {}
    BY DEF Init, Bucket, DoneRuns
  <2>2. CostOfRuns({}) = 0
    BY CostStep
  <2> QED BY <2>1, <2>2, MaxType DEF Settled
<1>3. FlagsTrue
  BY DEF Init, FlagsTrue, NoFlags
<1> QED BY <1>1, <1>2, <1>3 DEF Init, ICap, Rows

\* What a step must keep of the buckets when it adds no row.
LEMMA SettledStays ==
  ASSUME UNCHANGED done, sent \cup pending \subseteq sent' \cup pending',
         NEW s \in Scopes, NEW k \in Int, Settled(s, k),
         Expected(s, k) => Expected(s, k)' \/ Announced(s, k)' \/ CostOfRuns(Bucket(s, k)) < MaxOf(s)
  PROVE  Settled(s, k)'
<1>1. Bucket(s, k)' = Bucket(s, k)
  BY DEF Bucket, DoneRuns
<1>2. Announced(s, k) => Announced(s, k)'
  BY DEF Announced
<1>3. CostOfRuns(Bucket(s, k))' = CostOfRuns(Bucket(s, k))
  BY <1>1
<1> QED BY <1>2, <1>3 DEF Settled

LEMMA CapNext ==
  ASSUME Zone = 0, WeekStartsOn = 0, ICap, [Next]_vars
  PROVE  ICap'
<1> DEFINE KeyKept == holder # NoRun => \A s \in Scopes : flags.key[s] = KeyOf(s, at[holder])
<1> DEFINE AllSettled == \A s \in Scopes, k \in Int : Settled(s, k)
<1>1. IType /\ IType'
  BY TypeNext DEF ICap
<1>2. /\ now \in Nat \ {0} /\ stored \in Flags /\ flags \in Flags
      /\ at \in [Runs -> Int] /\ done \in [Runs -> Int]
      /\ holder \in Runs \cup {NoRun} /\ NoRun \notin Runs
      /\ holder # NoRun => pc[holder] = "waiting"
      /\ pc \in [Runs -> {"running", "waiting", "over"}]
      /\ smooth \in BOOLEAN
  BY <1>1, CostWarnAssumption DEF IType, TypeOK
<1>3. Rows /\ KeyKept /\ (smooth => FlagsTrue) /\ (smooth => AllSettled)
  BY DEF ICap
<1>4. ASSUME Rows', KeyKept', smooth' => FlagsTrue', smooth' => AllSettled' PROVE ICap'
  BY <1>1, <1>4 DEF ICap
<1>5. CASE AdvanceClock
  <2>1. UNCHANGED <<pc, at, done, failed, stored, flags, holder, step, pending, crashes, smooth, sent>>
    BY <1>5 DEF AdvanceClock
  <2>2. smooth' => AllSettled'
    BY <1>3, <2>1 DEF Settled, Announced, Expected, Evaluated, Bucket, DoneRuns
  <2>3. smooth' => FlagsTrue'
    BY <1>3, <2>1 DEF FlagsTrue, Announced
  <2> QED BY <1>3, <1>4, <2>1, <2>2, <2>3 DEF Rows
<1>6. ASSUME NEW r \in Runs, Finish(r) PROVE ICap'
  <2>1. /\ pc[r] = "running" /\ holder # r
        /\ UNCHANGED <<now, stored, flags, holder, step, pending, crashes, sent>>
    BY <1>2, <1>6 DEF Finish
  <2>2. Rows'
    BY <1>2, <1>3, <1>6 DEF Finish, Rows, Works, Fails
  <2>3. KeyKept'
    <3>1. holder # NoRun => at'[holder] = at[holder]
      BY <1>2, <1>6, <2>1 DEF Finish
    <3> QED BY <1>3, <2>1, <3>1
  <2>4. smooth' => smooth
    BY <1>2, <1>6 DEF Finish, Works, Fails
  <2>5. smooth' => FlagsTrue'
    BY <1>3, <2>1, <2>4 DEF FlagsTrue, Announced
  <2>6. ASSUME smooth', NEW s \in Scopes, NEW k \in Int PROVE Settled(s, k)'
    <3>1. Settled(s, k)
      BY <1>3, <2>4, <2>6
    <3>2. \A w \in Runs : Evaluated(w, s)' <=> Evaluated(w, s)
      BY <2>1 DEF Evaluated
    <3>3. Expected(s, k) => Expected(s, k)'
      <4> SUFFICES ASSUME Expected(s, k) PROVE Expected(s, k)'
        OBVIOUS
      <4>1. PICK w \in Runs : pc[w] = "waiting" /\ KeyOf(s, at[w]) = k /\ ~Evaluated(w, s)
        BY DEF Expected
      <4>2. pc'[w] = "waiting" /\ at'[w] = at[w]
        BY <1>2, <1>6, <2>1, <4>1 DEF Finish
      <4> QED BY <3>2, <4>1, <4>2 DEF Expected
    <3>4. CASE UNCHANGED done
      BY <2>1, <3>1, <3>3, <3>4, SettledStays
    <3>5. CASE done' = [done EXCEPT ![r] = now] /\ pc' = [pc EXCEPT ![r] = "waiting"] /\ at' = [at EXCEPT ![r] = now]
      <4>1. CASE KeyOf(s, now) = k
        <5>1. pc'[r] = "waiting" /\ at'[r] = now /\ ~Evaluated(r, s)
          BY <1>2, <2>1, <3>5 DEF Evaluated
        <5>2. Expected(s, k)'
          BY <3>2, <4>1, <5>1 DEF Expected
        <5> QED BY <5>2 DEF Settled
      <4>2. CASE KeyOf(s, now) # k
        <5>1. Bucket(s, k)' = Bucket(s, k)
          <6>1. done[r] = 0
            BY <1>3, <2>1 DEF Rows
          <6>2. \A w \in Runs : w # r => done'[w] = done[w]
            BY <1>2, <3>5
          <6>3. done'[r] = now
            BY <1>2, <3>5
          <6> QED BY <4>2, <6>1, <6>2, <6>3 DEF Bucket, DoneRuns
        <5>2. Announced(s, k) => Announced(s, k)'
          BY <2>1 DEF Announced
        <5>3. CostOfRuns(Bucket(s, k))' = CostOfRuns(Bucket(s, k))
          BY <5>1
        <5> QED BY <3>1, <3>3, <5>2, <5>3 DEF Settled
      <4> QED BY <4>1, <4>2
    <3> QED BY <1>6, <3>4, <3>5 DEF Finish
  <2> QED BY <1>4, <2>2, <2>3, <2>5, <2>6
<1>7. ASSUME NEW r \in Runs, Enter(r) PROVE ICap'
  <2>1. /\ pc[r] = "waiting" /\ holder = NoRun
        /\ UNCHANGED <<now, at, done, failed, stored, pending, crashes, sent>>
    BY <1>7 DEF Enter
  <2>2. CASE smooth' = FALSE /\ pc' = [pc EXCEPT ![r] = "over"] /\ UNCHANGED <<holder, step, flags>>
    <3>1. Rows'
      BY <1>2, <1>3, <2>1, <2>2 DEF Rows
    <3> QED BY <1>3, <1>4, <2>1, <2>2, <3>1
  <2>3. CASE holder' = r /\ step' = "daily" /\ flags' = ResetFlags(at[r], stored)
             /\ UNCHANGED <<pc, smooth>>
    <3>1. \A s \in Scopes :
            /\ flags'.key[s] = KeyOf(s, at[r])
            /\ flags'.warned[s] = IF stored.key[s] = KeyOf(s, at[r]) THEN stored.warned[s] ELSE {}
      <4>1. at[r] \in Int
        BY <1>2
      <4> QED BY <1>2, <2>3, <4>1, ResetType
    <3>2. KeyKept'
      BY <2>1, <2>3, <3>1
    <3>3. \A s, k : Announced(s, k)' <=> Announced(s, k)
      BY <2>1 DEF Announced
    <3>4. smooth' => FlagsTrue'
      <4> SUFFICES ASSUME smooth, NEW s \in Scopes
                   PROVE  /\ 100 \in stored'.warned[s] => Announced(s, stored.key[s])
                          /\ 100 \in flags'.warned[s] => Announced(s, KeyOf(s, at[r]))
        BY <2>1, <2>3, <3>1, <3>3 DEF FlagsTrue, Announced
      <4> QED BY <1>3, <2>1, <3>1 DEF FlagsTrue
    <3>5. ASSUME smooth', NEW s \in Scopes, NEW k \in Int PROVE Settled(s, k)'
      <4>1. Settled(s, k)
        BY <1>3, <2>3, <3>5
      <4>2. Expected(s, k) => Expected(s, k)'
        BY <2>1, <2>3 DEF Expected, Evaluated, Scopes
      <4> QED BY <2>1, <4>1, <4>2, SettledStays
    <3>6. Rows'
      BY <1>3, <2>1, <2>3 DEF Rows
    <3> QED BY <1>4, <3>2, <3>4, <3>5, <3>6
  <2> QED BY <1>7, <2>2, <2>3 DEF Enter, Works, Fails
<1>8. ASSUME NEW s0 \in Scopes, NEW next, Evaluate(s0, next),
             (s0 = "daily" /\ next = "weekly") \/ (s0 = "weekly" /\ next = "last")
      PROVE  ICap'
  <2>0. PICK k0 \in Int : k0 = flags.key[s0]
    BY <1>2 DEF Flags
  <2> DEFINE pct == Percent(SumCost(s0, k0), MaxOf(s0))
  <2>1. /\ step = s0 /\ pending = {} /\ step' = next /\ holder \in Runs /\ pc[holder] = "waiting"
        /\ UNCHANGED <<now, pc, at, done, failed, holder, crashes, sent>>
    BY <1>1, <1>8, EvaluateEffect
  <2>2. Rows'
    <3>1. smooth' => smooth
      BY <1>1, <1>2, <1>8 DEF Evaluate, Persist, Works, Fails
    <3> QED BY <1>3, <2>1, <3>1 DEF Rows
  <2>3. flags.key \in [Scopes -> Int] /\ flags.warned \in [Scopes -> SUBSET Levels]
    BY <1>2 DEF Flags
  <2>4. MaxOf(s0) # 0 /\ ~(pct >= 1000) => CostOfRuns(Bucket(s0, k0)) < MaxOf(s0)
    <3>1. SumCost(s0, k0) = CostOfRuns(Bucket(s0, k0))
      BY <1>2, <2>0, BucketSum
    <3>2. CostOfRuns(Bucket(s0, k0)) \in Nat /\ MaxOf(s0) \in Nat
      BY BucketType, MaxType
    <3> QED BY <3>1, <3>2, PercentFull
  <2>5. 100 \in flags.warned[s0] /\ smooth => Announced(s0, k0)
    BY <1>2, <1>3, <2>0, <2>1 DEF FlagsTrue
  <2>6. ASSUME smooth', NEW s \in Scopes, NEW k \in Int,
               sent \subseteq sent' \cup pending', smooth,
               MaxOf(s0) = 0 \/ Announced(s0, k0)' \/ CostOfRuns(Bucket(s0, k0)) < MaxOf(s0)
        PROVE  Settled(s, k)'
    <3>1. Settled(s, k)
      BY <1>3, <2>6
    <3>2. CASE s = s0 /\ k = k0
      <4>1. CostOfRuns(Bucket(s, k))' = CostOfRuns(Bucket(s, k))
        BY <2>1 DEF Bucket, DoneRuns
      <4> QED BY <2>6, <3>2, <4>1 DEF Settled
    <3>3. CASE ~(s = s0 /\ k = k0)
      <4>1. Expected(s, k) => Expected(s, k)'
        <5> SUFFICES ASSUME Expected(s, k) PROVE Expected(s, k)'
          OBVIOUS
        <5>1. PICK w \in Runs : pc[w] = "waiting" /\ KeyOf(s, at[w]) = k /\ ~Evaluated(w, s)
          BY DEF Expected
        <5>2. ~Evaluated(w, s)'
          <6>1. CASE s # s0
            BY <1>8, <2>1, <5>1, <6>1 DEF Evaluated, Scopes
          <6>2. CASE s = s0
            <7>1. KeyOf(s0, at[holder]) = k0
              BY <1>2, <1>3, <2>0, <2>1
            <7> QED BY <2>1, <3>3, <5>1, <6>2, <7>1 DEF Evaluated
          <6> QED BY <6>1, <6>2
        <5> QED BY <2>1, <5>1, <5>2 DEF Expected
      <4> QED BY <2>1, <2>6, <3>1, <4>1, SettledStays
    <3> QED BY <3>2, <3>3
  <2>7. CASE UNCHANGED <<flags, stored, pending>>
             /\ \/ smooth' = smooth /\ (MaxOf(s0) = 0 \/ ~(pct >= 1000) \/ 100 \in flags.warned[s0])
                \/ smooth' = FALSE
    <3>1. \A s, k : Announced(s, k)' <=> Announced(s, k)
      BY <2>1, <2>7 DEF Announced
    <3> HIDE DEF pct
    <3>2. smooth' => FlagsTrue'
      <4>1. smooth' => smooth
        BY <2>7
      <4> QED BY <1>3, <2>1, <2>7, <4>1 DEF FlagsTrue, Announced
    <3>3. smooth' => smooth /\ (MaxOf(s0) = 0 \/ Announced(s0, k0) \/ CostOfRuns(Bucket(s0, k0)) < MaxOf(s0))
      BY <2>4, <2>5, <2>7
    <3>4. Announced(s0, k0) => Announced(s0, k0)'
      BY <2>7, <3>1
    <3>5. smooth' => AllSettled'
      BY <2>1, <2>6, <3>3, <3>4
    <3>6. KeyKept'
      BY <1>3, <2>1, <2>7
    <3> QED BY <1>4, <2>2, <3>2, <3>5, <3>6
  <2>8. ASSUME NEW l \in Levels, l \notin flags.warned[s0],
               pending' = {[scope |-> s0, key |-> k0, level |-> l, pct |-> pct, run |-> holder]},
               flags' = [flags EXCEPT !.warned[s0] = @ \cup {l}], Persist,
               l = 80 => ~(pct >= 1000) \/ 100 \in flags.warned[s0]
        PROVE  ICap'
    <3> HIDE DEF pct
    <3>1. flags'.key = flags.key /\ flags'.warned = [flags.warned EXCEPT ![s0] = flags.warned[s0] \cup {l}]
      BY <1>2, <2>8 DEF Flags
    <3>2. smooth' => smooth /\ stored' = flags'
      BY <2>8 DEF Persist, Works, Fails
    <3>3. \A s, k : Announced(s, k) => \E m \in sent' \cup pending' : m.scope = s /\ m.key = k /\ m.level = 100
      BY <2>1 DEF Announced
    <3>4. l = 100 => \E m \in sent' \cup pending' : m.scope = s0 /\ m.key = k0 /\ m.level = 100
      <4> DEFINE msg == [scope |-> s0, key |-> k0, level |-> l, pct |-> pct, run |-> holder]
      <4>1. msg \in pending' /\ msg.scope = s0 /\ msg.key = k0 /\ msg.level = l
        BY <2>8
      <4> HIDE DEF msg
      <4> QED BY <4>1
    <3>5. ASSUME smooth', NEW s \in Scopes, 100 \in flags'.warned[s]
          PROVE  \E m \in sent' \cup pending' : m.scope = s /\ m.key = flags'.key[s] /\ m.level = 100
      <4>1. CASE 100 \in flags.warned[s]
        <5>1. Announced(s, flags.key[s])
          BY <1>2, <1>3, <2>1, <3>2, <3>5, <4>1 DEF FlagsTrue
        <5> QED BY <3>1, <3>3, <5>1
      <4>2. CASE 100 \notin flags.warned[s]
        <5>1. s = s0 /\ l = 100
          BY <2>3, <3>1, <3>5, <4>2
        <5> QED BY <2>0, <3>1, <3>4, <5>1
      <4> QED BY <4>1, <4>2
    <3>10. smooth' => FlagsTrue'
      BY <3>2, <3>5 DEF FlagsTrue, Announced
    <3>6. Announced(s0, k0)' <=> \E m \in sent' \cup pending' : m.scope = s0 /\ m.key = k0 /\ m.level = 100
      BY DEF Announced
    <3>7. smooth' => MaxOf(s0) = 0 \/ Announced(s0, k0)' \/ CostOfRuns(Bucket(s0, k0)) < MaxOf(s0)
      <4>1. CASE l = 100
        BY <3>4, <3>6, <4>1
      <4>2. CASE l = 80
        BY <2>4, <2>5, <2>8, <3>2, <3>3, <3>6, <4>2
      <4> QED BY <4>1, <4>2 DEF Levels
    <3>8. smooth' => AllSettled'
      BY <2>1, <2>6, <3>2, <3>7
    <3>9. KeyKept'
      BY <1>3, <2>1, <3>1
    <3> QED BY <1>4, <2>2, <3>8, <3>9, <3>10
  <2>9. \/ \E l \in Levels :
             /\ l \notin flags.warned[s0]
             /\ pending' = {[scope |-> s0, key |-> k0, level |-> l, pct |-> pct, run |-> holder]}
             /\ flags' = [flags EXCEPT !.warned[s0] = @ \cup {l}]
             /\ Persist
             /\ l = 80 => ~(pct >= 1000) \/ 100 \in flags.warned[s0]
        \/ /\ UNCHANGED <<flags, stored, pending>>
           /\ \/ smooth' = smooth /\ (MaxOf(s0) = 0 \/ ~(pct >= 1000) \/ 100 \in flags.warned[s0])
              \/ smooth' = FALSE
    <3> DEFINE p == Percent(SumCost(s0, flags.key[s0]), MaxOf(s0))
    <3>1. \/ \E l \in Levels :
               /\ l \notin flags.warned[s0]
               /\ pending' = {[scope |-> s0, key |-> flags.key[s0], level |-> l, pct |-> p, run |-> holder]}
               /\ flags' = [flags EXCEPT !.warned[s0] = @ \cup {l}]
               /\ Persist
               /\ l = 80 => ~(p >= 1000) \/ 100 \in flags.warned[s0]
          \/ /\ UNCHANGED <<flags, stored, pending>>
             /\ \/ smooth' = smooth /\ (MaxOf(s0) = 0 \/ ~(p >= 1000) \/ 100 \in flags.warned[s0])
                \/ smooth' = FALSE
      BY <1>1, <1>8, EvaluateEffect
    <3>2. p = pct
      BY <2>0
    <3> HIDE DEF p, pct
    <3> QED BY <2>0, <3>1, <3>2, ZenonT(60)
  <2> HIDE DEF pct
  <2> QED BY <2>7, <2>8, <2>9
<1>9. CASE NotifyCostWarning
  <2>1. /\ UNCHANGED <<now, pc, at, done, failed, stored, flags, holder, step, crashes>>
        /\ smooth' => smooth /\ sent' \cup pending' = sent \cup pending
    BY <1>9 DEF NotifyCostWarning, Works, Fails
  <2>2. smooth' => FlagsTrue'
    BY <1>3, <2>1 DEF FlagsTrue, Announced
  <2>3. ASSUME smooth', NEW s \in Scopes, NEW k \in Int PROVE Settled(s, k)'
    <3>1. Settled(s, k) /\ (Expected(s, k) => Expected(s, k)')
      BY <1>3, <2>1, <2>3 DEF Expected, Evaluated
    <3> QED BY <2>1, <2>3, <3>1, SettledStays
  <2> QED BY <1>3, <1>4, <2>1, <2>2, <2>3 DEF Rows
<1>10. CASE Leave
  <2>1. /\ step = "last" /\ pending = {} /\ holder' = NoRun /\ holder # NoRun
        /\ pc' = [pc EXCEPT ![holder] = "over"]
        /\ UNCHANGED <<now, at, done, failed, pending, crashes, sent, flags>>
        /\ smooth' => smooth /\ stored' = flags
    BY <1>1, <1>10 DEF Leave, Persist, Works, Fails, IType, TypeOK
  <2>2. smooth' => FlagsTrue'
    BY <1>3, <2>1 DEF FlagsTrue, Announced
  <2>3. ASSUME smooth', NEW s \in Scopes, NEW k \in Int PROVE Settled(s, k)'
    <3>1. Settled(s, k)
      BY <1>3, <2>1, <2>3
    <3>2. Expected(s, k) => Expected(s, k)'
      <4> SUFFICES ASSUME Expected(s, k) PROVE Expected(s, k)'
        OBVIOUS
      <4>1. PICK w \in Runs : pc[w] = "waiting" /\ KeyOf(s, at[w]) = k /\ ~Evaluated(w, s)
        BY DEF Expected
      <4>2. w # holder
        BY <2>1, <4>1 DEF Evaluated
      <4>3. pc'[w] = "waiting" /\ at'[w] = at[w] /\ ~Evaluated(w, s)'
        BY <1>2, <2>1, <4>1, <4>2 DEF Evaluated
      <4> QED BY <4>1, <4>3 DEF Expected
    <3> QED BY <2>1, <3>1, <3>2, SettledStays
  <2>4. Rows'
    BY <1>2, <1>3, <2>1 DEF Rows
  <2> QED BY <1>4, <2>1, <2>2, <2>3, <2>4
<1>11. CASE Crash
  <2>1. Rows' /\ holder' = NoRun /\ smooth' = FALSE
    BY <1>2, <1>3, <1>11 DEF Crash, Rows
  <2> QED BY <1>4, <2>1
<1>12. CASE UNCHANGED vars
  BY <1>1, <1>3, <1>12
     DEF vars, ICap, Rows, FlagsTrue, Settled, Announced, Expected, Evaluated, Bucket, DoneRuns
<1>13. Evaluate("daily", "weekly") \/ Evaluate("weekly", "last") => ICap'
  <2>1. "daily" \in Scopes /\ "weekly" \in Scopes
    BY DEF Scopes
  <2>2. Evaluate("daily", "weekly") => ICap'
    BY <1>8, <2>1, Zenon
  <2>3. Evaluate("weekly", "last") => ICap'
    BY <1>8, <2>1, Zenon
  <2> QED BY <2>2, <2>3
<1> QED BY <1>5, <1>6, <1>7, <1>9, <1>10, <1>11, <1>12, <1>13 DEF Next

\* A limit that is reached has been announced once every worker is back, in
\* whatever order the tasks finished and evaluated, and slow calls do not change
\* that, as long as the buckets are days and weeks in UTC from Monday
\* (EvaluateCostWarn, dayKeyToRange, weekKeyToRange).
THEOREM CapIsAnnounced ==
  ASSUME Zone = 0, WeekStartsOn = 0
  PROVE  Spec => []CapAnnounced
<1>1. ICap => CapAnnounced
  <2> SUFFICES ASSUME ICap, smooth, \A r \in Runs : pc[r] # "waiting", NEW s \in Scopes,
                      MaxOf(s) # 0, CostOfRuns(Bucket(s, KeyOf(s, now))) >= MaxOf(s)
               PROVE  \E m \in sent : m.scope = s /\ m.key = KeyOf(s, now) /\ m.level = 100
    BY DEF CapAnnounced, Bucket
  <2>1. pending = {} /\ now \in Int
    BY CostWarnAssumption DEF ICap, IType, TypeOK
  <2>2. Settled(s, KeyOf(s, now)) /\ ~Expected(s, KeyOf(s, now))
    BY <2>1, KeyType DEF ICap, Expected
  <2>3. CostOfRuns(Bucket(s, KeyOf(s, now))) \in Nat /\ MaxOf(s) \in Nat
    BY BucketType, MaxType
  <2> QED BY <2>1, <2>2, <2>3 DEF Settled, Announced
<1>2. ICap /\ [Next]_vars => ICap'
  BY CapNext
<1> QED BY <1>1, <1>2, CapInit, PTL DEF Spec

-----------------------------------------------------------------------------
(* The usage dashboard: no row is lost between the buckets                  *)

\* The stamps of the rows are instants that have passed.
IStamp == TypeOK /\ \A r \in Runs : done[r] =< now /\ failed[r] =< now

LEMMA StampInvariant == Spec => []IStamp
<1>1. Init => IStamp
  BY TypeInit, CostWarnAssumption DEF IStamp, IType, Init
<1>2. ASSUME IType, IStamp, [Next]_vars PROVE IStamp'
  <2>1. TypeOK'
    BY <1>2, TypeNext DEF IType
  <2>2. /\ now \in Nat /\ now' \in Nat
        /\ \A r \in Runs : done[r] \in Nat /\ failed[r] \in Nat /\ done[r] =< now /\ failed[r] =< now
        /\ DOMAIN done = Runs /\ DOMAIN failed = Runs
    BY <1>2, <2>1, CostWarnAssumption DEF IStamp, TypeOK
  <2>3. CASE AdvanceClock
    BY <2>1, <2>2, <2>3 DEF AdvanceClock, IStamp
  <2>4. ASSUME NEW r \in Runs, Finish(r) PROVE IStamp'
    <3>1. /\ done' \in {done, [done EXCEPT ![r] = now]}
          /\ failed' \in {failed, [failed EXCEPT ![r] = now]}
          /\ now' = now
      BY <2>4 DEF Finish
    <3> QED BY <2>1, <2>2, <3>1 DEF IStamp
  <2>5. CASE UNCHANGED <<now, done, failed>>
    BY <2>1, <2>2, <2>5 DEF IStamp
  <2>6. ASSUME NEW r \in Runs, Enter(r) PROVE UNCHANGED <<now, done, failed>>
    BY <2>6 DEF Enter
  <2>7. ASSUME NEW s, NEW n, Evaluate(s, n) PROVE UNCHANGED <<now, done, failed>>
    BY <2>7 DEF Evaluate
  <2>8. NotifyCostWarning \/ Leave \/ Crash \/ UNCHANGED vars => UNCHANGED <<now, done, failed>>
    BY DEF NotifyCostWarning, Leave, Crash, vars
  <2> QED BY <1>2, <2>3, <2>4, <2>5, <2>6, <2>7, <2>8 DEF Next
<1> QED BY <1>1, <1>2, TypeInvariant, PTL DEF Spec

LEMMA StampType ==
  ASSUME TypeOK
  PROVE  /\ now \in Nat /\ now \div U \in Int
         /\ \A r \in Runs : Stamp(r) \in Nat /\ Stamp(r) \div U \in Int
         /\ \A r \in DoneRuns : Stamp(r) = done[r] /\ r \in Ended
         /\ DoneRuns \subseteq Runs
<1>1. /\ now \in Nat /\ \A r \in Runs : done[r] \in Nat /\ failed[r] \in Nat
  BY CostWarnAssumption DEF TypeOK
<1>2. \A r \in Runs : Stamp(r) \in Nat
  BY <1>1 DEF Stamp
<1>3. \A i \in Nat : i \div U \in Int
  BY CalendarAssumption
<1>4. \A r \in DoneRuns : Stamp(r) = done[r] /\ r \in Ended
  BY DEF DoneRuns, Stamp, Ended
<1> QED BY <1>1, <1>2, <1>3, <1>4 DEF DoneRuns

\* The instants of a range of days, and the days they fall in.
LEMMA DaysOfRange ==
  ASSUME NEW from \in Int, NEW to \in Int, NEW i \in Nat
  PROVE  (i >= from * U /\ i < to * U) <=> i \div U \in from..(to - 1)
<1>1. PICK q \in Int : q = i \div U
  BY CalendarAssumption
<1>2. U \in Nat \ {0} /\ q * U =< i /\ i < (q + 1) * U
  BY <1>1, Quotient, CalendarAssumption
<1>3. i >= from * U <=> q >= from
  <2>1. CASE q >= from
    <3>1. from * U =< q * U
      BY <1>2, <2>1
    <3> QED BY <1>2, <2>1, <3>1
  <2>2. CASE q < from
    <3>1. (q + 1) * U =< from * U
      BY <1>2, <2>2
    <3> QED BY <1>2, <2>2, <3>1
  <2> QED BY <2>1, <2>2
<1>4. i < to * U <=> q < to
  <2>1. CASE q < to
    <3>1. (q + 1) * U =< to * U
      BY <1>2, <2>1
    <3> QED BY <1>2, <2>1, <3>1
  <2>2. CASE q >= to
    <3>1. to * U =< q * U
      BY <1>2, <2>2
    <3> QED BY <1>2, <2>2, <3>1
  <2> QED BY <2>1, <2>2
<1> QED BY <1>1, <1>3, <1>4

\* A range of dates selects the rows whose date is in it.
LEMMA RowsOfRange ==
  ASSUME TypeOK, NEW from \in Int, NEW to \in Int
  PROVE  RowsBetween(from, to + 1) = {r \in Ended : Stamp(r) \div U \in from..to}
<1>1. ASSUME NEW r \in Runs
      PROVE  (Stamp(r) >= from * U /\ Stamp(r) < (to + 1) * U) <=> Stamp(r) \div U \in from..to
  <2>1. PICK i \in Nat, next \in Int : i = Stamp(r) /\ next = to + 1
    BY StampType
  <2>2. (i >= from * U /\ i < next * U) <=> i \div U \in from..(next - 1)
    BY DaysOfRange
  <2>3. next - 1 = to
    BY <2>1
  <2> QED BY <2>1, <2>2, <2>3
<1> QED BY <1>1 DEF RowsBetween, Ended

LEMMA SumOfType ==
  ASSUME NEW A \in SUBSET Runs
  PROVE  /\ SumOf(A).tasks \in Nat /\ SumOf(A).cost \in Nat /\ SumOf(A).failed \in Nat
         /\ SumOf(A) = [tasks |-> SumOf(A).tasks, cost |-> SumOf(A).cost, failed |-> SumOf(A).failed]
         /\ DOMAIN SumOf(A) = {"tasks", "cost", "failed"}
<1>1. A \cap DoneRuns \in SUBSET Runs /\ A \ DoneRuns \in SUBSET Runs
    OBVIOUS
<1>2. Cardinality(A \cap DoneRuns) \in Nat
    BY <1>1, SubsetsFinite, CostWarnAssumption
<1> QED BY <1>1, <1>2, CostStep DEF SumOf

\* The rows of two sets add up, each of their columns for itself.
LEMMA SumOfUnion ==
  ASSUME NEW A \in SUBSET Runs, NEW B \in SUBSET Runs, A \cap B = {}
  PROVE  Plus(SumOf(A), SumOf(B)) = SumOf(A \cup B)
<1> DEFINE Ad == A \cap DoneRuns
<1> DEFINE Bd == B \cap DoneRuns
<1> DEFINE Af == A \ DoneRuns
<1> DEFINE Bf == B \ DoneRuns
<1>1. /\ (A \cup B) \cap DoneRuns = Ad \cup Bd /\ (A \cup B) \ DoneRuns = Af \cup Bf
      /\ Ad \cap Bd = {} /\ Af \cap Bf = {}
      /\ Ad \in SUBSET Runs /\ Bd \in SUBSET Runs /\ Af \in SUBSET Runs /\ Bf \in SUBSET Runs
  OBVIOUS
<1>2. SumOf(A) = [tasks |-> Cardinality(Ad), cost |-> CostOfRuns(Ad), failed |-> CostOfRuns(Af)]
  BY DEF SumOf
<1>3. SumOf(B) = [tasks |-> Cardinality(Bd), cost |-> CostOfRuns(Bd), failed |-> CostOfRuns(Bf)]
  BY DEF SumOf
<1>4. SumOf(A \cup B) = [tasks |-> Cardinality(Ad \cup Bd), cost |-> CostOfRuns(Ad \cup Bd),
                         failed |-> CostOfRuns(Af \cup Bf)]
  BY <1>1 DEF SumOf
<1> HIDE DEF Ad, Bd, Af, Bf
<1>5. /\ IsFiniteSet(Ad) /\ Cardinality(Ad) \in Nat
      /\ IsFiniteSet(Bd) /\ Cardinality(Bd) \in Nat
  BY <1>1, SubsetsFinite, CostWarnAssumption
<1>6. Cardinality(Ad \cup Bd) = Cardinality(Ad) + Cardinality(Bd)
  <2>1. Cardinality(Ad \cup Bd) = Cardinality(Ad) + Cardinality(Bd) - Cardinality(Ad \cap Bd)
    BY <1>5, FS_Union
  <2>2. Cardinality(Ad \cap Bd) = 0
    BY <1>1, FS_EmptySet
  <2> QED BY <1>5, <2>1, <2>2
<1>7. ASSUME NEW P \in SUBSET Runs, NEW Q \in SUBSET Runs, P \cap Q = {}
      PROVE  CostOfRuns(P \cup Q) = CostOfRuns(P) + CostOfRuns(Q)
  BY <1>7, SumUnion, CostWarnAssumption DEF CostOfRuns
<1>8. /\ CostOfRuns(Ad \cup Bd) = CostOfRuns(Ad) + CostOfRuns(Bd)
      /\ CostOfRuns(Af \cup Bf) = CostOfRuns(Af) + CostOfRuns(Bf)
  BY <1>1, <1>7
<1>9. /\ CostOfRuns(Ad) \in Nat /\ CostOfRuns(Bd) \in Nat
      /\ CostOfRuns(Af) \in Nat /\ CostOfRuns(Bf) \in Nat
  BY <1>1, CostStep
<1>10. Plus(SumOf(A), SumOf(B))
         = [tasks |-> Cardinality(Bd) + Cardinality(Ad), cost |-> CostOfRuns(Bd) + CostOfRuns(Ad),
            failed |-> CostOfRuns(Bf) + CostOfRuns(Af)]
  <2>1. /\ SumOf(A).tasks = Cardinality(Ad) /\ SumOf(A).cost = CostOfRuns(Ad)
        /\ SumOf(A).failed = CostOfRuns(Af)
    BY <1>2
  <2>2. /\ SumOf(B).tasks = Cardinality(Bd) /\ SumOf(B).cost = CostOfRuns(Bd)
        /\ SumOf(B).failed = CostOfRuns(Bf) /\ DOMAIN SumOf(B) = {"tasks", "cost", "failed"}
    BY <1>3
  <2>3. Plus(SumOf(A), SumOf(B))
          = [f \in {"tasks", "cost", "failed"} |-> SumOf(B)[f] + SumOf(A)[f]]
    BY <2>2 DEF Plus
  <2> HIDE DEF SumOf
  <2> QED BY <2>1, <2>2, <2>3
<1> QED BY <1>4, <1>5, <1>6, <1>8, <1>9, <1>10

TotalStep(b, h, s) == IF s = {} THEN SumOf({}) ELSE Plus(b[First(s)], h[s \ {First(s)}])

LEMMA TotalsUnfold ==
  ASSUME NEW b
  PROVE  ComputeTotals(b)
           = (CHOOSE h : h = [s \in SUBSET DOMAIN b |-> TotalStep(b, h, s)])[DOMAIN b]
  BY DEF ComputeTotals, FoldFunction, FoldFunctionOnSet, MapThenFoldSet, TotalStep, First

\* The totals of buckets that split up a set of rows are the sums of that set.
LEMMA TotalsAre ==
  ASSUME NEW R \in SUBSET Runs, NEW K, IsFiniteSet(K), NEW class, \A r \in R : class[r] \in K,
         NEW b, b = [k \in K |-> SumOf({r \in R : class[r] = k})]
  PROVE  ComputeTotals(b) = SumOf(R)
<1> DEFINE Of(s) == {r \in R : class[r] \in s}
<1> DEFINE h0 == [s \in SUBSET K |-> SumOf(Of(s))]
<1> DEFINE Solves(h) == h = [s \in SUBSET K |-> TotalStep(b, h, s)]
<1> DEFINE g == CHOOSE h : Solves(h)
<1>1. ComputeTotals(b) = g[K]
  BY TotalsUnfold
<1>2. ASSUME NEW s \in SUBSET K, s # {} 
      PROVE  SumOf(Of(s)) = Plus(b[First(s)], SumOf(Of(s \ {First(s)})))
  <2>1. PICK x \in s : x = First(s)
    BY <1>2, FirstIn
  <2> DEFINE A == {r \in R : class[r] = x}
  <2> DEFINE B == Of(s \ {x})
  <2>2. A \in SUBSET Runs /\ B \in SUBSET Runs /\ A \cap B = {} /\ A \cup B = Of(s)
    BY <2>1
  <2>3. b[x] = SumOf(A)
    BY <2>1
  <2> HIDE DEF A, Of
  <2>4. Plus(SumOf(A), SumOf(B)) = SumOf(A \cup B)
    <3> HIDE DEF B
    <3> QED BY <2>2, SumOfUnion
  <2> QED BY <2>1, <2>2, <2>3, <2>4
<1>3. ASSUME NEW s \in SUBSET K PROVE h0[s] = TotalStep(b, h0, s)
  <2>1. CASE s = {}
    <3>1. Of(s) = {}
      BY <2>1
    <3> QED BY <2>1, <3>1 DEF TotalStep
  <2>2. CASE s # {}
    <3>1. s \ {First(s)} \in SUBSET K
      OBVIOUS
    <3>2. h0[s] = SumOf(Of(s)) /\ h0[s \ {First(s)}] = SumOf(Of(s \ {First(s)}))
      BY <3>1
    <3> HIDE DEF h0, Of
    <3> QED BY <1>2, <2>2, <3>2 DEF TotalStep
  <2> QED BY <2>1, <2>2
<1>4. Solves(h0)
  <2>1. h0 = [s \in SUBSET K |-> h0[s]]
    OBVIOUS
  <2> HIDE DEF h0
  <2> QED BY <1>3, <2>1
<1>5. Solves(g)
  <2> HIDE DEF h0, Solves
  <2> QED BY <1>4
<1>6. \A s \in SUBSET K : g[s] = TotalStep(b, g, s)
  <2> HIDE DEF g
  <2> QED BY <1>5
<1> DEFINE T == {s \in SUBSET K : g[s] = SumOf(Of(s))}
<1> HIDE DEF g
<1>7. {} \in T
  <2>1. Of({}) = {}
    OBVIOUS
  <2> QED BY <1>6, <2>1 DEF TotalStep
<1>8. ASSUME NEW s \in SUBSET K, s # {}, s \ {First(s)} \in T PROVE s \in T
  <2>1. g[s] = Plus(b[First(s)], g[s \ {First(s)}])
    BY <1>6, <1>8 DEF TotalStep
  <2>2. g[s \ {First(s)}] = SumOf(Of(s \ {First(s)}))
    BY <1>8
  <2>3. SumOf(Of(s)) = Plus(b[First(s)], SumOf(Of(s \ {First(s)})))
    BY <1>2, <1>8
  <2> HIDE DEF Of
  <2> QED BY <1>8, <2>1, <2>2, <2>3
<1>9. SUBSET K \subseteq T
  <2> HIDE DEF T
  <2> QED BY <1>7, <1>8, FirstInduction
<1>10. Of(K) = R
  OBVIOUS
<1> QED BY <1>1, <1>9, <1>10

\* The names a range is divided into, for any row that ended in it
\* (gapFill against DATE_FORMAT).
LEMMA KeysCover ==
  ASSUME Zone = 0, WeekStartsOn = 0, NEW kind \in Kinds, NEW from \in Int, NEW to \in Int,
         NEW i \in Int, i \div U \in from..to
  PROVE  BucketOf(kind, i) \in KeysBetween(kind, from, to)
<1> DEFINE d == i \div U
<1>1. d \in Int /\ from =< d /\ d =< to
  OBVIOUS
<1>2. CASE kind = "day"
  BY <1>1, <1>2 DEF BucketOf, KeysBetween
<1>3. CASE kind = "week"
  <2>1. WeekKey(d * U) = d \div 7
    <3>1. LocalDay(d * U) = d
      <4>1. PICK n \in Int : n = d * U
        BY <1>1, CalendarAssumption
      <4>2. (n \div U = d) <=> (d * U =< n /\ n < (d + 1) * U)
        BY <1>1, <4>1, Quotient, CalendarAssumption
      <4>3. (d + 1) * U = d * U + U /\ U > 0
        BY <1>1, CalendarAssumption
      <4> HIDE DEF d
      <4> QED BY <1>1, <4>1, <4>2, <4>3, CalendarAssumption DEF LocalDay
    <3>2. WeekKey(d * U) = (d - (((d % 7) + 7) % 7)) \div 7
      BY <3>1 DEF WeekKey, Weekday, IsoWeek
    <3> HIDE DEF d
    <3> QED BY <1>1, <3>2
  <2>2. BucketOf(kind, i) = d \div 7
    BY <1>3 DEF BucketOf, IsoWeek
  <2> HIDE DEF d
  <2> QED BY <1>1, <1>3, <2>1, <2>2 DEF KeysBetween
<1>4. CASE kind = "month"
  <2>1. BucketOf(kind, i) = Month(d)
    BY <1>4 DEF BucketOf
  <2>2. Month(from) \in Int /\ Month(to) \in Int /\ Month(d) \in Int
    BY <1>1, UsageAssumption DEF Month
  <2>3. Month(from) =< Month(d) /\ Month(d) =< Month(to)
    <3> HIDE DEF d
    <3>1. ASSUME NEW x \in Int, NEW y \in Int, x =< y
          PROVE  x \div MonthLength =< y \div MonthLength
      <4>1. PICK p \in Int, q \in Int : p = x \div MonthLength /\ q = y \div MonthLength
        BY UsageAssumption
      <4>2. /\ p * MonthLength =< x /\ y < (q + 1) * MonthLength
            /\ MonthLength \in Nat \ {0}
        BY <4>1, Quotient, UsageAssumption
      <4>3. CASE p >= q + 1
        <5>1. (q + 1) * MonthLength =< p * MonthLength
          BY <4>2, <4>3
        <5> QED BY <3>1, <4>2, <5>1
      <4> QED BY <4>1, <4>3
    <3> QED BY <1>1, <3>1 DEF Month
  <2> QED BY <1>4, <2>1, <2>2, <2>3 DEF KeysBetween
<1> QED BY <1>2, <1>3, <1>4 DEF Kinds

LEMMA KeysFinite ==
  ASSUME NEW kind \in Kinds, NEW from \in Int, NEW to \in Int
  PROVE  IsFiniteSet(KeysBetween(kind, from, to))
<1>1. IsFiniteSet(from..to)
  BY FS_Interval
<1>2. CASE kind = "day"
  BY <1>1, <1>2 DEF KeysBetween
<1>3. CASE kind = "week"
  <2> DEFINE name == [d \in from..to |-> WeekKey(d * U)]
  <2>1. IsFiniteSet({WeekKey(d * U) : d \in from..to})
    <3>1. {WeekKey(d * U) : d \in from..to} = {name[d] : d \in from..to}
      OBVIOUS
    <3>2. name \in Surjection(from..to, {name[d] : d \in from..to})
      BY DEF Surjection
    <3> HIDE DEF name
    <3> QED BY <1>1, <3>1, <3>2, FS_Surjection
  <2> QED BY <1>3, <2>1 DEF KeysBetween
<1>4. CASE kind = "month"
  <2>1. Month(from) \in Int /\ Month(to) \in Int
    BY UsageAssumption DEF Month
  <2> QED BY <1>4, <2>1, FS_Interval DEF KeysBetween
<1> QED BY <1>2, <1>3, <1>4 DEF Kinds

\* A bucket holds the sums of its rows, of none too (Aggregate, gapFill).
LEMMA BucketHolds ==
  ASSUME NEW kind, NEW from, NEW to
  PROVE  Aggregate(kind, from, to)
           = [k \in KeysBetween(kind, from, to) |->
                SumOf({r \in RowsBetween(from, to + 1) : BucketOf(kind, Stamp(r)) = k})]
<1> DEFINE R == RowsBetween(from, to + 1)
<1> DEFINE B == {BucketOf(kind, Stamp(r)) : r \in R}
<1> DEFINE rows == [k \in B |-> SumOf({r \in R : BucketOf(kind, Stamp(r)) = k})]
<1>1. SumByBucket(kind, from, to + 1) = rows
  BY DEF SumByBucket
<1>2. ASSUME NEW k
      PROVE  (IF k \in DOMAIN rows THEN rows[k] ELSE SumOf({}))
               = SumOf({r \in R : BucketOf(kind, Stamp(r)) = k})
  <2>1. CASE k \in B
    BY <2>1
  <2>2. CASE k \notin B
    <3>1. {r \in R : BucketOf(kind, Stamp(r)) = k} = {}
      BY <2>2
    <3> HIDE DEF R
    <3> QED BY <2>2, <3>1
  <2> QED BY <2>1, <2>2
<1> HIDE DEF R, rows
<1>3. Aggregate(kind, from, to)
        = [k \in KeysBetween(kind, from, to) |->
             IF k \in DOMAIN rows THEN rows[k] ELSE SumOf({})]
  BY <1>1 DEF Aggregate, GapFill
<1>4. Aggregate(kind, from, to)
        = [k \in KeysBetween(kind, from, to) |-> SumOf({r \in R : BucketOf(kind, Stamp(r)) = k})]
  BY <1>2, <1>3
<1> QED BY <1>4 DEF R

\* The totals of a range are the sums of the rows that ended in it.
LEMMA TotalsOfRange ==
  ASSUME Zone = 0, WeekStartsOn = 0, TypeOK, NEW kind \in Kinds, NEW from \in Int, NEW to \in Int
  PROVE  ComputeTotals(Aggregate(kind, from, to))
           = SumOf({r \in Ended : Stamp(r) \div U \in from..to})
<1> DEFINE R == {r \in Ended : Stamp(r) \div U \in from..to}
<1> DEFINE K == KeysBetween(kind, from, to)
<1> DEFINE class == [r \in R |-> BucketOf(kind, Stamp(r))]
<1> DEFINE b == [k \in K |-> SumOf({r \in R : class[r] = k})]
<1>1. R \in SUBSET Runs
  BY DEF Ended
<1>2. \A r \in R : class[r] \in K
  <2> SUFFICES ASSUME NEW r \in R PROVE BucketOf(kind, Stamp(r)) \in K
    OBVIOUS
  <2>1. Stamp(r) \in Int /\ Stamp(r) \div U \in from..to
    BY <1>1, StampType
  <2> QED BY <2>1, KeysCover
<1>3. IsFiniteSet(K)
  BY KeysFinite
<1>4. Aggregate(kind, from, to) = b
  <2>1. R = RowsBetween(from, to + 1)
    BY RowsOfRange
  <2>2. Aggregate(kind, from, to)
          = [k \in K |-> SumOf({r \in R : BucketOf(kind, Stamp(r)) = k})]
    BY <2>1, BucketHolds
  <2>3. ASSUME NEW k PROVE {r \in R : BucketOf(kind, Stamp(r)) = k} = {r \in R : class[r] = k}
    OBVIOUS
  <2> HIDE DEF R, K, class
  <2> QED BY <2>2, <2>3
<1>5. ComputeTotals(b) = SumOf(R)
  <2> HIDE DEF R, K, class
  <2> QED BY <1>1, <1>2, <1>3, TotalsAre
<1> QED BY <1>4, <1>5

\* A request has two dates.
LEMMA RangeType ==
  ASSUME TypeOK
  PROVE  /\ \A range \in Ranges : range[1] \in Int /\ range[2] \in Int
         /\ ParseFromTo(<<>>, <<>>) = <<now \div U - DefaultDays, now \div U>>
<1>1. \A q \in Queries : q = <<>> \/ (q # <<>> /\ q[1] \in Int)
  BY DEF Queries, Dates
<1>2. now \div U \in Int /\ DefaultDays \in Int
  BY StampType, UsageAssumption
<1>3. ASSUME NEW f \in Queries, NEW t \in Queries
      PROVE  ParseFromTo(f, t)[1] \in Int /\ ParseFromTo(f, t)[2] \in Int
  BY <1>1, <1>2, <1>3 DEF ParseFromTo
<1>4. ParseFromTo(<<>>, <<>>) = <<now \div U - DefaultDays, now \div U>>
  BY DEF ParseFromTo
<1> QED BY <1>3, <1>4 DEF Ranges

\* The totals of the dashboard lose no row and count none twice, in whatever
\* buckets they are added up, as long as the weeks are the ISO weeks of UTC
\* (Aggregate, gapFill, computeTotals).
THEOREM TotalsAdd ==
  ASSUME Zone = 0, WeekStartsOn = 0
  PROVE  Spec => []TotalsComplete
<1>1. IStamp => TotalsComplete
  <2> SUFFICES ASSUME TypeOK, NEW kind \in Kinds, NEW range \in Ranges
               PROVE  GetUsage(kind, range)
                        = SumOf({r \in Ended : Stamp(r) \div U \in range[1]..range[2]})
    BY DEF IStamp, TotalsComplete
  <2>1. range[1] \in Int /\ range[2] \in Int
    BY RangeType
  <2>2. ComputeTotals(Aggregate(kind, range[1], range[2]))
          = SumOf({r \in Ended : Stamp(r) \div U \in range[1]..range[2]})
    BY <2>1, TotalsOfRange
  <2> QED BY <2>2 DEF GetUsage
<1> QED BY <1>1, StampInvariant, PTL

-----------------------------------------------------------------------------
(* The usage dashboard: the views show the same figures                     *)

LEMMA ImageFinite ==
  ASSUME NEW S, IsFiniteSet(S), NEW f, DOMAIN f = S
  PROVE  IsFiniteSet({f[x] : x \in S})
<1> DEFINE g == [x \in S |-> f[x]]
<1>2. g \in Surjection(S, {f[x] : x \in S})
  BY DEF Surjection
<1> QED BY <1>2, FS_Surjection

LEMMA ModelsFinite ==
  ASSUME NEW r \in Runs
  PROVE  /\ IsFiniteSet(ModelIds(r))
         /\ \A m \in ModelIds(r) : ModelCost(r, m) \in Nat
         /\ SumFunctionOnSet([m \in ModelIds(r) |-> ModelCost(r, m)], ModelIds(r)) = CostOf[r]
<1> DEFINE M == ModelIds(r)
<1> DEFINE f == [m \in M |-> ModelCost(r, m)]
<1>1. CostOf[r] \in Nat
  BY CostWarnAssumption
<1>2. CASE DOMAIN ModelUsageOf[r] = {}
  <2>1. M = {"unknown"} /\ f \in [M -> Nat] /\ f["unknown"] = CostOf[r]
    BY <1>1, <1>2 DEF ModelIds, ModelCost
  <2>2. IsFiniteSet(M)
    BY <2>1, FS_Singleton
  <2> HIDE DEF M, f
  <2>3. SumFunctionOnSet(f, M) = f["unknown"] + SumFunctionOnSet(f, M \ {"unknown"})
    BY <2>1, <2>2, SumRemove
  <2>4. M \ {"unknown"} = {} /\ SumFunctionOnSet(f, {}) = 0
    BY <2>1, <2>2, SumFirst
  <2>5. SumFunctionOnSet(f, M) = CostOf[r]
    <3>1. PICK n \in Nat : n = CostOf[r]
      BY <1>1
    <3>2. f["unknown"] = n /\ SumFunctionOnSet(f, M \ {"unknown"}) = 0
      BY <2>1, <2>4, <3>1
    <3>3. SumFunctionOnSet(f, M) = n + 0
      BY <2>3, <3>2
    <3> QED BY <3>1, <3>3
  <2>6. \A m \in M : f[m] \in Nat
    BY <2>1
  <2> QED BY <2>2, <2>5, <2>6 DEF M, f
<1>3. CASE DOMAIN ModelUsageOf[r] # {}
  <2>1. M = DOMAIN ModelUsageOf[r] /\ \A m \in M : ModelCost(r, m) = ModelUsageOf[r][m]
    BY <1>3 DEF ModelIds, ModelCost
  <2>2. /\ ModelUsageOf[r] \in [DOMAIN ModelUsageOf[r] -> Nat] /\ IsFiniteSet(DOMAIN ModelUsageOf[r])
        /\ SumFunction(ModelUsageOf[r]) = CostOf[r]
    BY <1>3, UsageAssumption
  <2> HIDE DEF M
  <2>3. f = ModelUsageOf[r]
    BY <2>1, <2>2
  <2> HIDE DEF f
  <2>4. SumFunctionOnSet(f, M) = CostOf[r] /\ IsFiniteSet(M) /\ \A m \in M : f[m] \in Nat
    BY <2>1, <2>2, <2>3 DEF SumFunction
  <2> QED BY <2>4 DEF M, f
<1> QED BY <1>2, <1>3

\* The pairs of task and model, and what each costs.
LEMMA EntriesType ==
  ASSUME NEW S \in SUBSET Runs
  PROVE  /\ IsFiniteSet(Entries(S))
         /\ [e \in Entries(S) |-> ModelCost(e[1], e[2])] \in [Entries(S) -> Nat]
         /\ \A k \in S : {e \in Entries(S) : e[1] = k} = {<<k, m>> : m \in ModelIds(k)}
         /\ {e \in Entries(S) : e[1] \in S} = Entries(S)
<1>1. ASSUME NEW r \in S PROVE IsFiniteSet({<<r, m>> : m \in ModelIds(r)})
  <2> DEFINE f == [m \in ModelIds(r) |-> <<r, m>>]
  <2>1. {<<r, m>> : m \in ModelIds(r)} = {f[m] : m \in ModelIds(r)}
    OBVIOUS
  <2>2. IsFiniteSet(ModelIds(r)) /\ DOMAIN f = ModelIds(r)
    BY ModelsFinite
  <2> HIDE DEF f
  <2> QED BY <2>1, <2>2, ImageFinite
<1>2. IsFiniteSet(Entries(S))
  <2> DEFINE f == [r \in S |-> {<<r, m>> : m \in ModelIds(r)}]
  <2> DEFINE F == {f[r] : r \in S}
  <2>1. Entries(S) = UNION F
    BY DEF Entries
  <2>2. IsFiniteSet(S)
    BY CostWarnAssumption, SubsetsFinite
  <2>3. IsFiniteSet(F)
    <3>1. DOMAIN f = S
      OBVIOUS
    <3> HIDE DEF f
    <3> QED BY <2>2, <3>1, ImageFinite
  <2>4. \A T \in F : IsFiniteSet(T)
    BY <1>1
  <2> HIDE DEF F
  <2> QED BY <2>1, <2>3, <2>4, FS_UNION
<1>3. ASSUME NEW e \in Entries(S)
      PROVE  e[1] \in S /\ e[2] \in ModelIds(e[1]) /\ e = <<e[1], e[2]>>
  <2>1. PICK r \in S : e \in {<<r, m>> : m \in ModelIds(r)}
    BY DEF Entries
  <2> QED BY <2>1
<1>4. \A e \in Entries(S) : ModelCost(e[1], e[2]) \in Nat
  BY <1>3, ModelsFinite
<1>5. ASSUME NEW k \in S PROVE {e \in Entries(S) : e[1] = k} = {<<k, m>> : m \in ModelIds(k)}
  <2>1. ASSUME NEW m \in ModelIds(k) PROVE <<k, m>> \in Entries(S)
    BY DEF Entries
  <2>2. ASSUME NEW e \in Entries(S), e[1] = k PROVE e \in {<<k, m>> : m \in ModelIds(k)}
    BY <1>3, <2>2
  <2> QED BY <2>1, <2>2
<1> QED BY <1>2, <1>3, <1>4, <1>5

\* The costs of all names together are the costs of the tasks (SumUsageByModel).
LEMMA ModelsAddUp ==
  ASSUME NEW S \in SUBSET Runs
  PROVE  SumFunction(CostByName(Entries(S))) = CostOfRuns(S)
<1> DEFINE E == Entries(S)
<1> DEFINE cost == [e \in E |-> ModelCost(e[1], e[2])]
<1> DEFINE byName == [e \in E |-> ModelName(e[2])]
<1> DEFINE byTask == [e \in E |-> e[1]]
<1> DEFINE names == {byName[e] : e \in E}
<1> DEFINE p == [n \in names |-> SumFunctionOnSet(cost, {e \in E : byName[e] = n})]
<1>1. IsFiniteSet(E) /\ cost \in [E -> Nat]
  BY EntriesType
<1>2. CostByName(E) = p
  <2>1. names = {ModelName(e[2]) : e \in E}
    OBVIOUS
  <2>2. \A n : {e \in E : byName[e] = n} = {e \in E : ModelName(e[2]) = n}
    OBVIOUS
  <2>3. CostByName(E) = [n \in {ModelName(e[2]) : e \in E} |->
                           SumFunctionOnSet(cost, {e \in E : ModelName(e[2]) = n})]
    BY DEF CostByName
  <2> HIDE DEF E, cost, byName, names
  <2> QED BY <2>1, <2>2, <2>3
<1>3. SumFunctionOnSet(p, names) = SumFunctionOnSet(cost, {e \in E : byName[e] \in names})
  <2>1. IsFiniteSet(names)
    <3>1. DOMAIN byName = E
      OBVIOUS
    <3> HIDE DEF byName, E
    <3> QED BY <1>1, <3>1, ImageFinite
  <2>2. \A n \in names : p[n] = SumFunctionOnSet(cost, {e \in E : byName[e] = n})
    OBVIOUS
  <2>3. p \in [names -> Nat]
    <3>1. \A n : {e \in E : byName[e] = n} \in SUBSET E
      OBVIOUS
    <3> HIDE DEF E, cost, byName, names
    <3>2. \A n : SumFunctionOnSet(cost, {e \in E : byName[e] = n}) \in Nat
      BY <1>1, <3>1, SumFirst
    <3> QED BY <3>2
  <2>4. names \in SUBSET names
    OBVIOUS
  <2> HIDE DEF E, cost, byName, names, p
  <2> QED BY <1>1, <2>1, <2>2, <2>3, <2>4, SumPartition
<1>4. {e \in E : byName[e] \in names} = E
  OBVIOUS
<1>5. SumFunctionOnSet(CostOf, S) = SumFunctionOnSet(cost, {e \in E : byTask[e] \in S})
  <2>1. ASSUME NEW k \in S PROVE CostOf[k] = SumFunctionOnSet(cost, {e \in E : byTask[e] = k})
    <3> DEFINE M == ModelIds(k)
    <3> DEFINE f == [m \in M |-> ModelCost(k, m)]
    <3>1. IsFiniteSet(M) /\ f \in [M -> Nat] /\ SumFunctionOnSet(f, M) = CostOf[k]
      BY ModelsFinite
    <3>2. {e \in E : byTask[e] = k} = {<<k, m>> : m \in M}
      <4>1. {e \in E : byTask[e] = k} = {e \in E : e[1] = k}
        OBVIOUS
      <4> QED BY <4>1, EntriesType
    <3>3. \A m \in M : <<k, m>> \in E /\ cost[<<k, m>>] = f[m]
      <4>1. ASSUME NEW m \in M PROVE <<k, m>> \in E /\ cost[<<k, m>>] = ModelCost(k, m)
        <5>1. <<k, m>> \in E
          BY <3>2
        <5>2. <<k, m>>[1] = k /\ <<k, m>>[2] = m
          OBVIOUS
        <5> HIDE DEF E, M
        <5> QED BY <5>1, <5>2
      <4>2. \A m \in M : f[m] = ModelCost(k, m)
        OBVIOUS
      <4> HIDE DEF E, M, cost, f
      <4> QED BY <4>1, <4>2
    <3> HIDE DEF E, cost, byTask, M, f
    <3>4. SumFunctionOnSet(cost, {<<k, m>> : m \in M}) = SumFunctionOnSet(f, M)
      <4>1. PICK E1, c : E1 = E /\ c = cost /\ c \in [E1 -> Nat] /\ IsFiniteSet(E1)
        BY <1>1
      <4>2. PICK M1, f1 : M1 = M /\ f1 = f /\ f1 \in [M1 -> Nat] /\ IsFiniteSet(M1)
        BY <3>1
      <4>3. \A m \in M1 : <<k, m>> \in E1 /\ c[<<k, m>>] = f1[m]
        BY <3>3, <4>1, <4>2
      <4>4. SumFunctionOnSet(c, {<<k, m>> : m \in M1}) = SumFunctionOnSet(f1, M1)
        BY <4>1, <4>2, <4>3, SumPairs
      <4> QED BY <4>1, <4>2, <4>4
    <3> QED BY <3>1, <3>2, <3>4
  <2>2. IsFiniteSet(Runs) /\ CostOf \in [Runs -> Nat] /\ S \in SUBSET Runs
    BY CostWarnAssumption
  <2> HIDE DEF E, cost, byTask
  <2> QED BY <1>1, <2>1, <2>2, SumPartition
<1>6. {e \in E : byTask[e] \in S} = E
  BY EntriesType
<1>7. DOMAIN p = names
  OBVIOUS
<1> HIDE DEF E, cost, byName, byTask, names, p
<1> QED BY <1>2, <1>3, <1>4, <1>5, <1>6, <1>7 DEF SumFunction, CostOfRuns, E

DoneIn(kind, from, to, k) ==
  {r \in DoneRuns : done[r] \div U \in from..to /\ BucketOf(kind, done[r]) = k}

\* The cost of a bucket of the dashboard is that of the tasks done in it.
LEMMA BucketCost ==
  ASSUME TypeOK, NEW kind, NEW from \in Int, NEW to \in Int, NEW k,
         k \in KeysBetween(kind, from, to)
  PROVE  Aggregate(kind, from, to)[k].cost = CostOfRuns(DoneIn(kind, from, to, k))
<1> DEFINE R == {r \in RowsBetween(from, to + 1) : BucketOf(kind, Stamp(r)) = k}
<1> DEFINE D == DoneIn(kind, from, to, k)
<1>1. Aggregate(kind, from, to)[k] = SumOf(R)
  BY BucketHolds
<1>2. SumOf(R).cost = CostOfRuns(R \cap DoneRuns)
  BY DEF SumOf
<1>3. RowsBetween(from, to + 1) = {r \in Ended : Stamp(r) \div U \in from..to}
  BY RowsOfRange
<1>4. R \cap DoneRuns = D
  <2>1. ASSUME NEW r \in DoneRuns PROVE r \in R <=> r \in D
    <3>1. Stamp(r) = done[r] /\ r \in Ended
      BY StampType
    <3> QED BY <1>3, <3>1 DEF DoneIn
  <2>2. D \subseteq DoneRuns
    BY DEF DoneIn
  <2> HIDE DEF R, D
  <2> QED BY <2>1, <2>2
<1> HIDE DEF R
<1> QED BY <1>1, <1>2, <1>4

\* The views of the dashboard and the limits show the same figures, under the
\* same condition: the cost compared with a limit is that of the bucket, the
\* costs by model add up, and the default range reaches the rows of today
\* (Limits, Aggregate, SumUsageByModel, parseFromTo).
THEOREM FiguresMatch ==
  ASSUME Zone = 0, WeekStartsOn = 0
  PROVE  Spec => []FiguresAgree
<1>1. ASSUME IStamp PROVE FiguresAgree
  <2> DEFINE day == DateKey(now)
  <2> DEFINE week == WeekKey(now)
  <2>1. /\ TypeOK /\ now \in Nat /\ now \div U \in Int
        /\ \A r \in Runs : done[r] \in Nat /\ Stamp(r) =< now
    <3>1. TypeOK /\ \A r \in Runs : done[r] =< now /\ failed[r] =< now
      BY <1>1 DEF IStamp
    <3> QED BY <3>1, StampType DEF TypeOK, Stamp
  <2>2. day \in Int /\ week \in Int
    BY <2>1, KeyType DEF KeyOf, Scopes
  <2>3. Limits["daily"] = Aggregate("day", day, day)[day].cost
    <3> HIDE DEF day
    <3>1. ASSUME NEW r \in DoneRuns
          PROVE  (done[r] >= day * U /\ done[r] < (day + 1) * U)
                   <=> (done[r] \div U \in day..day /\ BucketOf("day", done[r]) = day)
      <4>1. PICK i \in Nat : i = done[r]
        BY <2>1 DEF DoneRuns
      <4>2. PICK k \in Int, n \in Int : k = day /\ n = k + 1
        BY <2>2
      <4>3. (i >= k * U /\ i < n * U) <=> i \div U \in k..(n - 1)
        BY DaysOfRange
      <4>4. i \div U \in Int /\ BucketOf("day", i) = i \div U
        BY CalendarAssumption DEF BucketOf
      <4>5. (i \div U \in k..(n - 1)) <=> i \div U = k
        BY <4>2, <4>4
      <4>6. (i \div U \in k..k /\ BucketOf("day", i) = k) <=> i \div U = k
        BY <4>4
      <4> QED BY <4>1, <4>2, <4>3, <4>5, <4>6
    <3>2. SumCost("daily", day) = CostOfRuns({r \in DoneRuns : done[r] >= day * U /\ done[r] < (day + 1) * U})
      BY DEF SumCost, RangeOf, DayKeyToRange
    <3>3. day \in KeysBetween("day", day, day)
      BY <2>2 DEF KeysBetween
    <3>4. Aggregate("day", day, day)[day].cost = CostOfRuns(DoneIn("day", day, day, day))
      BY <2>1, <2>2, <3>3, BucketCost
    <3>5. Limits["daily"] = SumCost("daily", day)
      BY DEF Limits, Scopes, KeyOf, day
    <3>6. {r \in DoneRuns : done[r] >= day * U /\ done[r] < (day + 1) * U}
            = DoneIn("day", day, day, day)
      BY <3>1 DEF DoneIn
    <3> QED BY <3>2, <3>4, <3>5, <3>6
  <2>4. Limits["weekly"] = Aggregate("week", 7 * week, 7 * week + 6)[week].cost
    <3> HIDE DEF week
    <3>1. ASSUME NEW r \in DoneRuns
          PROVE  (done[r] >= (7 * week) * U /\ done[r] < (7 * (week + 1)) * U)
                   <=> /\ done[r] \div U \in (7 * week)..(7 * week + 6)
                       /\ BucketOf("week", done[r]) = week
      <4>1. PICK i \in Nat : i = done[r]
        BY <2>1 DEF DoneRuns
      <4>2. PICK k \in Int, from \in Int, to \in Int :
              k = week /\ from = 7 * k /\ to = 7 * (k + 1)
        BY <2>2
      <4>3. (i >= from * U /\ i < to * U) <=> i \div U \in from..(to - 1)
        BY DaysOfRange
      <4>4. to - 1 = from + 6
        BY <4>2
      <4>5. BucketOf("week", i) = (i \div U) \div 7
        BY DEF BucketOf, IsoWeek
      <4>6. ASSUME NEW d \in from..(from + 6) PROVE d \div 7 = k
        BY <4>2
      <4> QED BY <4>1, <4>2, <4>3, <4>4, <4>5, <4>6
    <3>2. SumCost("weekly", week)
            = CostOfRuns({r \in DoneRuns : done[r] >= (7 * week) * U /\ done[r] < (7 * (week + 1)) * U})
      <4>1. RangeOf("weekly", week) = [from |-> 7 * week * U, to |-> 7 * (week + 1) * U]
        BY DEF RangeOf, WeekKeyToRange
      <4> QED BY <4>1 DEF SumCost
    <3>3. week \in KeysBetween("week", 7 * week, 7 * week + 6)
      <4>1. BucketOf("week", (7 * week) * U) = week /\ ((7 * week) * U) \div U = 7 * week
        <5>1. PICK n \in Int, w \in Int : n = w * U /\ w = 7 * week
          BY <2>2, CalendarAssumption
        <5>2. n < (w + 1) * U
          <6>1. (w + 1) * U = w * U + U
            BY <5>1, CalendarAssumption
          <6> QED BY <5>1, <6>1, CalendarAssumption
        <5>3. n \div U = w
          BY <5>1, <5>2, Quotient, CalendarAssumption
        <5>4. w \div 7 = week
          BY <2>2, <5>1
        <5> QED BY <5>1, <5>3, <5>4 DEF BucketOf, IsoWeek
      <4>2. /\ "week" \in Kinds /\ 7 * week \in Int /\ 7 * week + 6 \in Int
            /\ (7 * week) * U \in Int
            /\ 7 * week \in (7 * week)..(7 * week + 6)
        BY <2>2, CalendarAssumption DEF Kinds
      <4>3. BucketOf("week", (7 * week) * U) \in KeysBetween("week", 7 * week, 7 * week + 6)
        BY <4>1, <4>2, KeysCover
      <4> QED BY <4>1, <4>3
    <3>4. 7 * week \in Int /\ 7 * week + 6 \in Int
      BY <2>2
    <3>5. Aggregate("week", 7 * week, 7 * week + 6)[week].cost
            = CostOfRuns(DoneIn("week", 7 * week, 7 * week + 6, week))
      BY <2>1, <3>3, <3>4, BucketCost
    <3>6. Limits["weekly"] = SumCost("weekly", week)
      BY DEF Limits, Scopes, KeyOf, week
    <3>7. {r \in DoneRuns : done[r] >= (7 * week) * U /\ done[r] < (7 * (week + 1)) * U}
            = DoneIn("week", 7 * week, 7 * week + 6, week)
      BY <3>1 DEF DoneIn
    <3> QED BY <3>2, <3>5, <3>6, <3>7
  <2>5. ASSUME NEW range \in Ranges
        PROVE  SumFunction(GetUsageByModel(range)) = GetUsage("day", range).cost
    <3> DEFINE R == {r \in Ended : Stamp(r) \div U \in range[1]..range[2]}
    <3>1. range[1] \in Int /\ range[2] \in Int /\ "day" \in Kinds
      BY <2>1, RangeType DEF Kinds
    <3>2. RowsBetween(range[1], range[2] + 1) = R
      BY <2>1, <3>1, RowsOfRange
    <3>3. ComputeTotals(Aggregate("day", range[1], range[2])) = SumOf(R)
      BY <2>1, <3>1, TotalsOfRange
    <3>4. R \cap DoneRuns \in SUBSET Runs
      BY DEF DoneRuns
    <3> HIDE DEF R
    <3>5. SumFunction(CostByName(Entries(R \cap DoneRuns))) = CostOfRuns(R \cap DoneRuns)
      BY <3>4, ModelsAddUp
    <3>6. SumOf(R).cost = CostOfRuns(R \cap DoneRuns)
      BY DEF SumOf
    <3>7. GetUsageByModel(range) = CostByName(Entries(R \cap DoneRuns))
      BY <3>2 DEF GetUsageByModel, ByModel
    <3> QED BY <3>3, <3>5, <3>6, <3>7 DEF GetUsage
  <2>6. GetUsage("day", ParseFromTo(<<>>, <<>>))
          = SumOf({r \in Ended : Stamp(r) \div U >= now \div U - DefaultDays})
    <3>1. PICK from \in Int, to \in Int : from = now \div U - DefaultDays /\ to = now \div U
      BY <2>1, UsageAssumption
    <3>2. ParseFromTo(<<>>, <<>>) = <<from, to>> /\ "day" \in Kinds
      BY <2>1, <3>1, RangeType DEF Kinds
    <3>3. ComputeTotals(Aggregate("day", from, to))
            = SumOf({r \in Ended : Stamp(r) \div U \in from..to})
      BY <2>1, <3>2, TotalsOfRange
    <3>4. {r \in Ended : Stamp(r) \div U \in from..to} = {r \in Ended : Stamp(r) \div U >= from}
      <4>1. ASSUME NEW r \in Ended PROVE Stamp(r) \div U \in Int /\ Stamp(r) \div U =< to
        <5>1. PICK i \in Nat, n \in Nat : i = Stamp(r) /\ n = now /\ i =< n
          BY <2>1, StampType DEF Ended
        <5>2. PICK p \in Int, q \in Int : p = i \div U /\ q = n \div U
          BY CalendarAssumption
        <5>3. p * U =< i /\ n < (q + 1) * U /\ U \in Nat \ {0}
          BY <5>2, Quotient, CalendarAssumption
        <5>4. ~(p >= q + 1)
          <6> SUFFICES ASSUME p >= q + 1 PROVE FALSE
            OBVIOUS
          <6>1. PICK a \in Int, b \in Int : a = p * U /\ b = (q + 1) * U
            BY <5>3
          <6>2. b =< a
            BY <5>2, <5>3, <6>1
          <6>3. a =< i /\ n < b
            BY <5>3, <6>1
          <6> QED BY <5>1, <6>1, <6>2, <6>3
        <5> QED BY <3>1, <5>1, <5>2, <5>4
      <4> QED BY <3>1, <4>1
    <3>5. {r \in Ended : Stamp(r) \div U >= now \div U - DefaultDays}
            = {r \in Ended : Stamp(r) \div U >= from}
      BY <3>1
    <3>6. GetUsage("day", <<from, to>>) = SumOf({r \in Ended : Stamp(r) \div U \in from..to})
      BY <3>3 DEF GetUsage
    <3> QED BY <3>2, <3>4, <3>5, <3>6
  <2> QED BY <2>3, <2>4, <2>5, <2>6 DEF FiguresAgree
<1> QED BY <1>1, StampInvariant, PTL
=============================================================================
