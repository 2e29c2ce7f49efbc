-------------------------- MODULE DecideEventsProofs ---------------------------
(***************************************************************************)
(* Machine-checked proofs about DecideEvents: what `update` makes of a     *)
(* decide event, for every event of every ledger; and, first, what proofs  *)
(* about folds over sequences need, by which the data sources insert what  *)
(* an event brings.                                                        *)
(*                                                                         *)
(* A fold of the community modules is a recursive function on sets of      *)
(* positions that always takes the greatest one away; the lemmas say that  *)
(* such a function exists, what it is on the initial segments, and how to  *)
(* reason by induction along them.  They speak of functions and sets only, *)
(* since the provers do not instantiate theorems about operators.          *)
(***************************************************************************)
EXTENDS DecideEvents, Functions, SequenceTheorems, FiniteSetTheorems, FunctionTheorems,
        WellFoundedInduction, TLAPS

-----------------------------------------------------------------------------
(* Lists of numbers in ascending order. *)

\* The sequence s lists the numbers in S in ascending order.
Lists(s, S) ==
  /\ s \in Seq(S)
  /\ S = { s[i] : i \in 1 .. Len(s) }
  /\ \A i, j \in 1 .. Len(s) : i < j => s[i] < s[j]

\* An injective sequence has as many elements as positions.
LEMMA CountOfRange ==
  ASSUME NEW S, NEW n \in Nat, NEW f \in [ 1 .. n -> S ],
         \A i, j \in 1 .. n : f[i] = f[j] => i = j
  PROVE  IsFiniteSet(Range(f)) /\ Cardinality(Range(f)) = n
<1>1. f \in Injection(1 .. n, S)
  BY DEF Injection, IsInjective
<1>2. f \in Bijection(1 .. n, Range(f))
  BY <1>1, Fun_InjMeansBijImage
<1>3. ExistsBijection(1 .. n, Range(f))
  BY <1>2 DEF ExistsBijection
<1>4. IsFiniteSet(1 .. n) /\ Cardinality(1 .. n) = n
  <2>1. IsFiniteSet(1 .. n) /\ Cardinality(1 .. n) = IF 1 > n THEN 0 ELSE n - 1 + 1
    BY FS_Interval
  <2>2. QED BY <2>1
<1>5. QED BY <1>3, <1>4, FS_Bijection

\* The numbers below the i-th are the i - 1 before it.
LEMMA CountBelow ==
  ASSUME NEW S \in SUBSET Int, NEW s, Lists(s, S), NEW i \in 1 .. Len(s)
  PROVE  s[i] \in S /\ Cardinality({ g \in S : g < s[i] }) = i - 1
<1>1. s \in [ 1 .. Len(s) -> S ] /\ Len(s) \in Nat /\ S = { s[j] : j \in 1 .. Len(s) }
  BY LenProperties DEF Lists
<1> DEFINE f == [ j \in 1 .. i - 1 |-> s[j] ]
<1>2. f \in [ 1 .. i - 1 -> S ] /\ i - 1 \in Nat
  BY <1>1
<1>3. \A j, k \in 1 .. Len(s) : j < k => s[j] < s[k]
  BY DEF Lists
<1>4. \A j \in 1 .. Len(s) : s[j] \in Int
  BY <1>1
<1>5. \A j \in 1 .. Len(s) : s[j] < s[i] <=> j < i
  <2>1. SUFFICES ASSUME NEW j \in 1 .. Len(s) PROVE s[j] < s[i] <=> j < i
    OBVIOUS
  <2>2. CASE j < i
    BY <2>2, <1>3
  <2>3. CASE j = i
    BY <2>3, <1>4
  <2>4. CASE i < j
    BY <2>4, <1>3, <1>4
  <2>5. QED BY <2>2, <2>3, <2>4, <1>1
<1>6. \A j, k \in 1 .. i - 1 : f[j] = f[k] => j = k
  <2>1. SUFFICES ASSUME NEW j \in 1 .. i - 1, NEW k \in 1 .. i - 1, f[j] = f[k], j < k
                 PROVE  FALSE
    <3>1. \A j, k \in 1 .. i - 1 : j < k \/ k < j \/ j = k
      OBVIOUS
    <3> HIDE DEF f
    <3>2. QED BY <2>1, <3>1
  <2>2. j \in 1 .. Len(s) /\ k \in 1 .. Len(s)
    BY <1>1
  <2>3. QED BY <2>1, <2>2, <1>3, <1>4
<1>7. Range(f) = { g \in S : g < s[i] }
  <2>1. Range(f) = { s[j] : j \in 1 .. i - 1 }
    BY DEF Range
  <2>2. \A j \in 1 .. i - 1 : j \in 1 .. Len(s) /\ j < i
    BY <1>1
  <2>3. \A j \in 1 .. Len(s) : j < i => j \in 1 .. i - 1
    BY <1>1
  <2>4. QED BY <2>1, <2>2, <2>3, <1>1, <1>5
<1> HIDE DEF f
<1>8. Cardinality({ g \in S : g < s[i] }) = i - 1
  BY <1>2, <1>6, <1>7, CountOfRange
<1>9. QED BY <1>1, <1>8

\* Nothing, one more number, and another list behind a list.
LEMMA ListsEmpty == Lists(<< >>, {})
BY DEF Lists

LEMMA ListsConcat ==
  ASSUME NEW S \in SUBSET Int, NEW U \in SUBSET Int, NEW s, NEW u, Lists(s, S), Lists(u, U),
         \A x \in S, y \in U : x < y
  PROVE  Lists(s \o u, S \cup U)
<1> DEFINE V == S \cup U
           w == s \o u
<1>1. s \in Seq(S) /\ u \in Seq(U) /\ Len(s) \in Nat /\ Len(u) \in Nat
  BY LenProperties DEF Lists
<1>2. s \in Seq(V) /\ u \in Seq(V)
  BY <1>1
<1>3. /\ w \in Seq(V) /\ Len(w) = Len(s) + Len(u)
      /\ \A i \in 1 .. Len(s) + Len(u) : w[i] = IF i <= Len(s) THEN s[i] ELSE u[i - Len(s)]
  <2> HIDE DEF V
  <2>1. QED BY <1>2, ConcatProperties
<1> HIDE DEF w
<1>4. /\ \A i \in 1 .. Len(s) : i \in 1 .. Len(w) /\ w[i] = s[i] /\ s[i] \in S
      /\ \A i \in 1 .. Len(u) : /\ i + Len(s) \in 1 .. Len(w) /\ w[i + Len(s)] = u[i] /\ u[i] \in U
      /\ \A i \in 1 .. Len(w) : i \in 1 .. Len(s) \/ i - Len(s) \in 1 .. Len(u)
      /\ \A i \in 1 .. Len(w) : i \notin 1 .. Len(s) => w[i] = u[i - Len(s)]
  <2>1. Len(w) = Len(s) + Len(u) /\ \A i \in 1 .. Len(s) + Len(u) : w[i] = IF i <= Len(s) THEN s[i] ELSE u[i - Len(s)]
    BY <1>3
  <2>2. (\A i \in 1 .. Len(s) : s[i] \in S) /\ (\A i \in 1 .. Len(u) : u[i] \in U)
    BY <1>1
  <2>3. ASSUME NEW i \in 1 .. Len(s) PROVE i \in 1 .. Len(w) /\ w[i] = s[i]
    <3>1. i \in 1 .. Len(s) + Len(u) /\ i <= Len(s)
      BY <1>1
    <3>2. QED BY <3>1, <2>1
  <2>4. ASSUME NEW i \in 1 .. Len(u) PROVE i + Len(s) \in 1 .. Len(w) /\ w[i + Len(s)] = u[i]
    <3>1. i + Len(s) \in 1 .. Len(s) + Len(u) /\ ~ i + Len(s) <= Len(s) /\ i + Len(s) - Len(s) = i
      BY <1>1
    <3>2. QED BY <3>1, <2>1
  <2>5. ASSUME NEW i \in 1 .. Len(w), i \notin 1 .. Len(s)
        PROVE  i - Len(s) \in 1 .. Len(u) /\ w[i] = u[i - Len(s)]
    <3>1. i \in 1 .. Len(s) + Len(u) /\ ~ i <= Len(s) /\ i - Len(s) \in 1 .. Len(u)
      BY <1>1, <2>1, <2>5
    <3>2. QED BY <3>1, <2>1
  <2>6. QED BY <2>2, <2>3, <2>4, <2>5
<1>5. V = { w[i] : i \in 1 .. Len(w) }
  <2>1. S = { s[i] : i \in 1 .. Len(s) } /\ U = { u[i] : i \in 1 .. Len(u) }
    BY DEF Lists
  <2>2. \A i \in 1 .. Len(w) : w[i] \in V
    BY <1>4
  <2>3. \A x \in S : \E i \in 1 .. Len(w) : x = w[i]
    BY <2>1, <1>4
  <2>4. ASSUME NEW x \in U PROVE \E i \in 1 .. Len(w) : x = w[i]
    <3>1. PICK k \in 1 .. Len(u) : x = u[k]
      BY <2>1
    <3>2. k + Len(s) \in 1 .. Len(w) /\ w[k + Len(s)] = u[k]
      BY <1>4
    <3>3. QED BY <3>1, <3>2
  <2>5. QED BY <2>2, <2>3, <2>4
<1>6. ASSUME NEW i \in 1 .. Len(w), NEW j \in 1 .. Len(w), i < j PROVE w[i] < w[j]
  <2>1. CASE j \in 1 .. Len(s)
    <3>1. i \in 1 .. Len(s)
      BY <2>1, <1>6, <1>1
    <3>2. s[i] < s[j]
      BY <3>1, <2>1, <1>6 DEF Lists
    <3>3. QED BY <3>1, <3>2, <2>1, <1>4
  <2>2. CASE j \notin 1 .. Len(s) /\ i \in 1 .. Len(s)
    <3>1. j - Len(s) \in 1 .. Len(u) /\ w[j] = u[j - Len(s)] /\ u[j - Len(s)] \in U
      BY <2>2, <1>4
    <3>2. w[i] \in S
      BY <2>2, <1>4
    <3>3. QED BY <3>1, <3>2
  <2>3. CASE j \notin 1 .. Len(s) /\ i \notin 1 .. Len(s)
    <3>1. /\ i - Len(s) \in 1 .. Len(u) /\ w[i] = u[i - Len(s)]
          /\ j - Len(s) \in 1 .. Len(u) /\ w[j] = u[j - Len(s)]
      BY <2>3, <1>4
    <3>2. i - Len(s) < j - Len(s)
      BY <1>6, <1>1
    <3>3. QED BY <3>1, <3>2 DEF Lists
  <2>4. QED BY <2>1, <2>2, <2>3
<1>7. QED BY <1>3, <1>5, <1>6 DEF Lists, w

LEMMA ListsAppend ==
  ASSUME NEW S \in SUBSET Int, NEW s, Lists(s, S), NEW x \in Int, \A y \in S : y < x
  PROVE  Lists(Append(s, x), S \cup {x})
<1>1. s \in Seq(S)
  BY DEF Lists
<1>2. s \in Seq(Int)
  BY <1>1, SeqMonotonic
<1>3. Append(s, x) = s \o << x >>
  BY <1>2, AppendIsConcat
<1>4. Lists(<< x >>, {x})
  <2>1. << x >> \in Seq({x}) /\ Len(<< x >>) = 1 /\ << x >>[1] = x
    OBVIOUS
  <2>2. QED BY <2>1 DEF Lists
<1>5. \A y \in S, z \in {x} : y < z
  OBVIOUS
<1>6. Lists(s \o << x >>, S \cup {x})
  BY <1>4, <1>5, ListsConcat
<1>7. QED BY <1>3, <1>6

\* The numbers above the i-th are those after it.
LEMMA CountAbove ==
  ASSUME NEW S \in SUBSET Int, NEW s, Lists(s, S), NEW i \in 1 .. Len(s)
  PROVE  Cardinality({ g \in S : g > s[i] }) = Len(s) - i
<1> DEFINE n == Len(s)
           f == [ j \in 1 .. n - i |-> s[i + j] ]
<1>1. s \in [ 1 .. n -> S ] /\ n \in Nat /\ S = { s[j] : j \in 1 .. n }
  BY LenProperties DEF Lists
<1>2. \A j, k \in 1 .. n : j < k => s[j] < s[k]
  BY DEF Lists
<1> HIDE DEF n
<1>3. i \in 1 .. n /\ n - i \in Nat /\ \A j \in 1 .. n : s[j] \in Int
  <2>1. i \in 1 .. n
    BY DEF n
  <2>2. n - i \in Nat
    BY <1>1, <2>1
  <2>3. \A j \in 1 .. n : s[j] \in Int
    BY <1>1
  <2>4. QED BY <2>1, <2>2, <2>3
<1>4. \A j \in 1 .. n - i : i + j \in 1 .. n
  BY <1>1, <1>3
<1>5. f \in [ 1 .. n - i -> S ]
  BY <1>1, <1>4
<1>6. \A j \in 1 .. n : s[j] > s[i] <=> j > i
  <2>1. SUFFICES ASSUME NEW j \in 1 .. n PROVE s[j] > s[i] <=> j > i
    OBVIOUS
  <2>2. CASE j < i
    BY <2>2, <1>2, <1>3
  <2>3. CASE j = i
    BY <2>3, <1>3
  <2>4. CASE i < j
    BY <2>4, <1>2, <1>3
  <2>5. QED BY <2>2, <2>3, <2>4, <1>1, <1>3
<1>7. \A j, k \in 1 .. n - i : f[j] = f[k] => j = k
  <2>1. SUFFICES ASSUME NEW j \in 1 .. n - i, NEW k \in 1 .. n - i, f[j] = f[k], j < k
                 PROVE  FALSE
    <3>1. \A j, k \in 1 .. n - i : j < k \/ k < j \/ j = k
      OBVIOUS
    <3> HIDE DEF f
    <3>2. QED BY <2>1, <3>1
  <2>2. i + j \in 1 .. n /\ i + k \in 1 .. n /\ i + j < i + k
    BY <1>3, <1>4, <2>1
  <2>3. s[i + j] = s[i + k]
    BY <2>1
  <2>4. QED BY <1>2, <1>3, <2>2, <2>3
<1>8. Range(f) = { g \in S : g > s[i] }
  <2>1. Range(f) = { s[i + j] : j \in 1 .. n - i }
    BY DEF Range
  <2>2. \A j \in 1 .. n - i : i + j \in 1 .. n /\ i + j > i
    BY <1>3, <1>4
  <2>3. \A j \in 1 .. n : j > i => j - i \in 1 .. n - i /\ i + (j - i) = j
    BY <1>1, <1>3
  <2>4. QED BY <2>1, <2>2, <2>3, <1>1, <1>6
<1> HIDE DEF f
<1>9. QED BY <1>3, <1>5, <1>7, <1>8, CountOfRange DEF n

\* A list has as many elements as positions, and there is one list of a set.
LEMMA ListCounts ==
  ASSUME NEW S \in SUBSET Int, NEW s, Lists(s, S)
  PROVE  Cardinality(S) = Len(s) /\ IsFiniteSet(S)
<1>1. s \in [ 1 .. Len(s) -> S ] /\ Len(s) \in Nat /\ S = { s[j] : j \in 1 .. Len(s) }
  BY LenProperties DEF Lists
<1>2. \A j, k \in 1 .. Len(s) : s[j] = s[k] => j = k
  <2>1. \A j, k \in 1 .. Len(s) : j < k => s[j] < s[k]
    BY DEF Lists
  <2>2. \A j, k \in 1 .. Len(s) : j < k \/ k < j \/ j = k
    BY <1>1
  <2>3. \A j \in 1 .. Len(s) : s[j] \in Int
    BY <1>1
  <2>4. SUFFICES ASSUME NEW j \in 1 .. Len(s), NEW k \in 1 .. Len(s), s[j] = s[k], j < k
                 PROVE  FALSE
    BY <2>2
  <2>5. QED BY <2>1, <2>3, <2>4
<1>3. IsFiniteSet(Range(s)) /\ Cardinality(Range(s)) = Len(s)
  BY <1>1, <1>2, CountOfRange
<1>4. Range(s) = S
  BY <1>1 DEF Range
<1>5. QED BY <1>3, <1>4

LEMMA OneList ==
  ASSUME NEW S \in SUBSET Int, NEW s, Lists(s, S), NEW t, Lists(t, S)
  PROVE  s = t
<1>1. /\ s \in Seq(S) /\ Len(s) \in Nat /\ S = { s[j] : j \in 1 .. Len(s) }
      /\ t \in Seq(S) /\ Len(t) \in Nat /\ S = { t[j] : j \in 1 .. Len(t) }
  BY LenProperties DEF Lists
<1>2. Len(s) = Len(t)
  BY ListCounts
<1>3. ASSUME NEW i \in 1 .. Len(s) PROVE s[i] = t[i]
  <2>1. s[i] \in S
    BY <1>1
  <2>2. PICK k \in 1 .. Len(t) : s[i] = t[k]
    BY <1>1, <2>1
  <2>3. Cardinality({ g \in S : g < s[i] }) = i - 1
    BY CountBelow
  <2>4. Cardinality({ g \in S : g < t[k] }) = k - 1
    BY CountBelow
  <2>5. i - 1 = k - 1
    BY <2>2, <2>3, <2>4
  <2>6. i = k
    BY <1>1, <2>5
  <2>7. QED BY <2>2, <2>6
<1>4. QED BY <1>1, <1>2, <1>3, SeqEqual

-----------------------------------------------------------------------------
(* Folds *)


\* A set of naturals that has 0 and with each number below n its successor has all
\* numbers up to n.
LEMMA Induction ==
  ASSUME NEW n \in Nat, NEW S, 0 \in S, \A k \in 0 .. n - 1 : k \in S => k + 1 \in S
  PROVE  \A k \in 0 .. n : k \in S
<1> DEFINE Bad == { k \in 0 .. n : k \notin S }
           R   == OpToRel(<, Nat)
<1>1. SUFFICES ASSUME Bad # {} PROVE FALSE
  OBVIOUS
<1>2. IsWellFoundedOn(R, Nat)
  BY NatLessThanWellFounded
<1>3. Bad \subseteq Nat
  OBVIOUS
<1>4. \E k \in Bad : \A j \in Bad : ~ << j, k >> \in R
  <2> HIDE DEF R, Bad
  <2>1. QED BY <1>1, <1>2, <1>3, WFMin
<1>5. PICK k \in Bad : \A j \in Bad : ~ << j, k >> \in R
  BY <1>4
<1>6. k # 0 /\ k \in 1 .. n
  OBVIOUS
<1>7. k - 1 \in 0 .. n - 1 /\ (k - 1) + 1 = k
  BY <1>6
<1>8. k - 1 \notin S
  BY <1>7
<1>9. k - 1 \in Bad
  BY <1>7, <1>8
<1>10. << k - 1, k >> \in R
  BY <1>6, <1>7 DEF OpToRel
<1>11. QED BY <1>5, <1>9, <1>10

\* The greatest position of an initial segment.
LEMMA GreatestOfSegment ==
  ASSUME NEW k \in Nat \ {0}
  PROVE  Max(1 .. k) = k /\ (1 .. k) \ {Max(1 .. k)} = 1 .. k - 1 /\ 1 .. k # {}
<1>1. k \in 1 .. k /\ \A y \in 1 .. k : k >= y
  OBVIOUS
<1>2. \A x \in 1 .. k : (\A y \in 1 .. k : x >= y) => x = k
  BY <1>1
<1>3. Max(1 .. k) = k
  BY <1>1, <1>2 DEF Max
<1>4. (1 .. k) \ {k} = 1 .. k - 1
  OBVIOUS
<1>5. QED BY <1>1, <1>3, <1>4

\* The greatest position of a set that reaches up to k.
LEMMA GreatestOfSet ==
  ASSUME NEW k \in Nat, NEW s \in SUBSET (1 .. k), k \in s
  PROVE  Max(s) = k
<1>1. \A y \in s : k >= y
  OBVIOUS
<1>2. \A x \in s : (\A y \in s : x >= y) => x = k
  OBVIOUS
<1>3. QED BY <1>1, <1>2 DEF Max

\* A set of positions has its greatest one among them.
LEMMA MaxOfSegment ==
  ASSUME NEW n \in Nat, NEW s \in SUBSET (1 .. n), s # {}
  PROVE  Max(s) \in s
<1>1. \E x \in s : \A y \in s : x >= y
  <2> DEFINE S == { k \in 0 .. n : \A y \in s : y <= n - k }
  <2>1. SUFFICES ASSUME \A x \in s : \E y \in s : y > x PROVE FALSE
    OBVIOUS
  <2>2. 0 \in S
    OBVIOUS
  <2>3. \A k \in 0 .. n - 1 : k \in S => k + 1 \in S
    <3>1. SUFFICES ASSUME NEW k \in 0 .. n - 1, k \in S PROVE k + 1 \in S
      OBVIOUS
    <3>2. \A y \in s : y <= n - k
      BY <3>1
    <3>3. \A y \in s : y # n - k
      BY <2>1, <3>2
    <3>4. \A y \in s : y <= n - (k + 1)
      BY <3>2, <3>3
    <3>5. k + 1 \in 0 .. n
      OBVIOUS
    <3>6. QED BY <3>4, <3>5
  <2> HIDE DEF S
  <2>4. n \in S
    BY <2>2, <2>3, Induction
  <2>5. \A y \in s : y <= n - n
    BY <2>4 DEF S
  <2>6. PICK y \in s : TRUE
    OBVIOUS
  <2>7. y <= n - n /\ y \in 1 .. n
    BY <2>5
  <2>8. QED BY <2>7
<1>2. QED BY <1>1 DEF Max

\* The functions that fold a step over the positions of a set D, from `base` on.
StepFunctions(D, T) == [ D \X T -> T ]

FoldFunctions(D, T, base, step) ==
  { it \in [ SUBSET D -> T ] : \A s \in SUBSET D :
      it[s] = IF s = {} THEN base ELSE step[<< Max(s), it[s \ {Max(s)}] >>] }

\* There is one, for every step from values to values.
LEMMA FoldExists ==
  ASSUME NEW T, NEW base \in T, NEW n \in Nat, NEW step \in StepFunctions(1 .. n, T)
  PROVE  \E it : it \in FoldFunctions(1 .. n, T, base, step)
<1> DEFINE D == 1 .. n
<1>0. step \in [ D \X T -> T ]
  BY DEF StepFunctions
<1> DEFINE Is(it, k) == \A s \in SUBSET (1 .. k) :
             it[s] = IF s = {} THEN base ELSE step[<< Max(s), it[s \ {Max(s)}] >>]
           Good == { k \in 0 .. n : \E it \in [ SUBSET (1 .. k) -> T ] : Is(it, k) }
<1>1. 0 \in Good
  <2>1. SUBSET (1 .. 0) = {{}}
    OBVIOUS
  <2> DEFINE none == [ s \in SUBSET (1 .. 0) |-> base ]
  <2>2. none \in [ SUBSET (1 .. 0) -> T ]
    OBVIOUS
  <2>3. Is(none, 0)
    BY <2>1
  <2> HIDE DEF none, Is
  <2>4. 0 \in 0 .. n
    OBVIOUS
  <2>5. QED BY <2>2, <2>3, <2>4
<1>2. ASSUME NEW k \in 0 .. n - 1, k \in Good PROVE k + 1 \in Good
  <2>1. PICK it \in [ SUBSET (1 .. k) -> T ] : Is(it, k)
    BY <1>2
  <2> DEFINE nx == [ s \in SUBSET (1 .. k + 1) |->
                       IF k + 1 \in s THEN step[<< k + 1, it[s \ {k + 1}] >>] ELSE it[s] ]
  <2>2. /\ k + 1 \in 1 .. n /\ k + 1 \in Nat
        /\ \A s \in SUBSET (1 .. k + 1) : s \ {k + 1} \in SUBSET (1 .. k)
        /\ \A s \in SUBSET (1 .. k + 1) : k + 1 \notin s => s \in SUBSET (1 .. k)
    OBVIOUS
  <2>3. nx \in [ SUBSET (1 .. k + 1) -> T ]
    <3>1. ASSUME NEW s \in SUBSET (1 .. k + 1) PROVE nx[s] \in T
      <4>1. CASE k + 1 \in s
        <5>1. << k + 1, it[s \ {k + 1}] >> \in D \X T
          BY <2>2, <1>0
        <5>2. QED BY <5>1, <4>1, <1>0
      <4>2. CASE k + 1 \notin s
        BY <2>2, <4>2
      <4>3. QED BY <4>1, <4>2
    <3>2. QED BY <3>1
  <2>4. ASSUME NEW s \in SUBSET (1 .. k + 1)
        PROVE  nx[s] = IF s = {} THEN base ELSE step[<< Max(s), nx[s \ {Max(s)}] >>]
    <3>1. CASE k + 1 \in s
      <4>1. Max(s) = k + 1
        BY <3>1, <2>2, GreatestOfSet
      <4>2. s \ {k + 1} \in SUBSET (1 .. k + 1) /\ k + 1 \notin s \ {k + 1}
        OBVIOUS
      <4>3. nx[s \ {k + 1}] = it[s \ {k + 1}]
        BY <4>2
      <4>4. nx[s] = step[<< k + 1, it[s \ {k + 1}] >>]
        BY <3>1
      <4>5. QED BY <4>1, <4>3, <4>4, <3>1
    <3>2. CASE k + 1 \notin s
      <4>1. s \in SUBSET (1 .. k) /\ s \ {Max(s)} \in SUBSET (1 .. k)
        BY <2>2, <3>2
      <4>2. nx[s] = it[s] /\ nx[s \ {Max(s)}] = it[s \ {Max(s)}]
        BY <4>1, <3>2, <2>2
      <4>3. it[s] = IF s = {} THEN base ELSE step[<< Max(s), it[s \ {Max(s)}] >>]
        BY <2>1, <4>1
      <4>4. QED BY <4>2, <4>3
    <3>3. QED BY <3>1, <3>2
  <2> HIDE DEF nx
  <2>5. Is(nx, k + 1)
    BY <2>4
  <2>6. k + 1 \in 0 .. n
    OBVIOUS
  <2>7. QED BY <2>3, <2>5, <2>6
<1> HIDE DEF Good
<1>3. n \in Good
  <2>1. \A k \in 0 .. n - 1 : k \in Good => k + 1 \in Good
    BY <1>2
  <2>2. \A k \in 0 .. n : k \in Good
    BY <1>1, <2>1, Induction
  <2>3. QED BY <2>2
<1>4. QED BY <1>3 DEF Good, Is, FoldFunctions

\* The values of a fold after each position.
Traces(n, T, base, step) ==
  { states \in [ 0 .. n -> T ] :
      /\ states[0] = base
      /\ \A k \in 1 .. n : states[k] = step[<< k, states[k - 1] >>] }

\* A function that takes the step from each initial segment to the next one goes
\* through values of the set, which the step does not leave.
LEMMA FoldTrace ==
  ASSUME NEW T, NEW base \in T, NEW n \in Nat, NEW step \in StepFunctions(1 .. n, T), NEW F,
         F[{}] = base,
         \A k \in 1 .. n : F[1 .. k - 1] \in T => F[1 .. k] = step[<< k, F[1 .. k - 1] >>]
  PROVE  \E states : states \in Traces(n, T, base, step) /\ F[1 .. n] = states[n]
<1>0. step \in [ (1 .. n) \X T -> T ]
  BY DEF StepFunctions
<1> DEFINE states == [ k \in 0 .. n |-> F[1 .. k] ]
<1>1. states[0] = base
  <2>1. 1 .. 0 = {}
    OBVIOUS
  <2>2. QED BY <2>1
<1>2. ASSUME NEW k \in 1 .. n, states[k - 1] \in T
      PROVE  states[k] = step[<< k, states[k - 1] >>] /\ states[k] \in T
  <2>1. k - 1 \in 0 .. n /\ k \in 0 .. n
    OBVIOUS
  <2>2. states[k - 1] = F[1 .. k - 1] /\ states[k] = F[1 .. k]
    BY <2>1
  <2> HIDE DEF states
  <2>3. states[k] = step[<< k, states[k - 1] >>]
    BY <1>2, <2>2
  <2>4. QED BY <1>0, <1>2, <2>3
<1>3. states[n] = F[1 .. n]
  OBVIOUS
<1>4. DOMAIN states = 0 .. n /\ states = [ k \in 0 .. n |-> states[k] ]
  OBVIOUS
<1> HIDE DEF states
<1> DEFINE Good == { k \in 0 .. n : states[k] \in T }
<1>5. 0 \in Good
  BY <1>1
<1>6. \A k \in 0 .. n - 1 : k \in Good => k + 1 \in Good
  <2>1. SUFFICES ASSUME NEW k \in 0 .. n - 1, k \in Good PROVE k + 1 \in Good
    OBVIOUS
  <2>2. k + 1 \in 1 .. n /\ (k + 1) - 1 = k /\ k + 1 \in 0 .. n
    OBVIOUS
  <2>3. states[k + 1] \in T
    BY <1>2, <2>1, <2>2
  <2>4. QED BY <2>2, <2>3
<1> HIDE DEF Good
<1>7. \A k \in 0 .. n : k \in Good
  BY <1>5, <1>6, Induction
<1>8. \A k \in 0 .. n : states[k] \in T
  BY <1>7 DEF Good
<1>9. \A k \in 1 .. n : k - 1 \in 0 .. n
  OBVIOUS
<1>10. \A k \in 1 .. n : states[k] = step[<< k, states[k - 1] >>]
  BY <1>2, <1>8, <1>9
<1>11. states \in [ 0 .. n -> T ]
  BY <1>4, <1>8
<1>12. QED BY <1>1, <1>3, <1>10, <1>11 DEF Traces

-----------------------------------------------------------------------------
(* Decide events *)

\* An event announces at least one leaf, and its heights are those of the ledger.
LEMMA EventFacts ==
  ASSUME NEW e \in Event
  PROVE  /\ e.first \in Nat /\ e.last \in Nat /\ 0 < e.first /\ e.first <= e.last
         /\ e.last <= MaxHeight /\ MaxHeight \in Nat /\ e.payloads \in SUBSET Heights
BY LedgerAssumption DEF Event, Heights

\* `update` inserts the leaves of an event from the oldest to the newest, every one
\* with the QC that references it, though HotShot lists them newest first and keeps
\* the QC of each leaf in the next.
THEOREM PairsAre ==
  ASSUME NEW e \in Event
  PROVE  UpdatePairs(e) = [ i \in 1 .. e.last - e.first + 1 |-> [ leaf |-> e.first + i - 1, qc |-> e.first + i - 1 ] ]
<1> DEFINE m == e.last - e.first + 1
           chain == LeafChain(e)
           older == [ i \in DOMAIN chain |-> JustifyQC(chain[i]) ]
           qcs   == << e.last >> \o older
<1>1. m \in Nat /\ m >= 1 /\ e.first \in Int /\ e.last \in Int
  BY EventFacts
<1>2. chain = [ i \in 1 .. m |-> e.last - i + 1 ] /\ older = [ i \in 1 .. m |-> e.last - i ]
  <2>1. \A i \in 1 .. m : e.last - i + 1 - 1 = e.last - i
    BY <1>1
  <2>2. chain = [ i \in 1 .. m |-> e.last - i + 1 ]
    BY DEF LeafChain
  <2> HIDE DEF chain, m
  <2>3. ASSUME NEW i \in 1 .. m PROVE JustifyQC(chain[i]) = e.last - i
    <3>1. chain[i] = e.last - i + 1
      BY <2>2
    <3>2. JustifyQC(chain[i]) = chain[i] - 1
      BY DEF JustifyQC
    <3> HIDE DEF older, qcs
    <3>3. QED BY <3>1, <3>2, <2>1, <1>1
  <2>4. DOMAIN chain = 1 .. m
    BY <2>2
  <2>5. older = [ i \in 1 .. m |-> e.last - i ]
    BY <2>3, <2>4
  <2>6. QED BY <2>2, <2>5
<1> HIDE DEF chain, older, m
<1>3. chain \in Seq(Int) /\ Len(chain) = m /\ older \in Seq(Int) /\ Len(older) = m
  <2>1. chain \in [ 1 .. m -> Int ] /\ older \in [ 1 .. m -> Int ]
    BY <1>1, <1>2
  <2>2. QED BY <2>1, <1>1
<1>4. << e.last >> \in Seq(Int) /\ Len(<< e.last >>) = 1
  BY <1>1
<1>5. /\ qcs \in Seq(Int) /\ Len(qcs) = m + 1
      /\ \A i \in 1 .. m + 1 : qcs[i] = e.last - i + 1
  <2>1. /\ qcs \in Seq(Int) /\ Len(qcs) = 1 + m
        /\ \A i \in 1 .. 1 + m : qcs[i] = IF i <= 1 THEN << e.last >>[i] ELSE older[i - 1]
    BY <1>3, <1>4, ConcatProperties
  <2>2. 1 + m = m + 1
    BY <1>1
  <2>3. ASSUME NEW i \in 1 .. m + 1 PROVE qcs[i] = e.last - i + 1
    <3>1. CASE i = 1
      BY <3>1, <2>1, <2>2, <1>1
    <3>2. CASE i # 1
      <4>1. i - 1 \in 1 .. m /\ ~ i <= 1
        BY <3>2, <1>1
      <4>2. qcs[i] = older[i - 1]
        BY <4>1, <2>1, <2>2
      <4>3. older[i - 1] = e.last - (i - 1)
        BY <4>1, <1>2
      <4>4. e.last - (i - 1) = e.last - i + 1
        BY <1>1
      <4> HIDE DEF qcs
      <4>5. QED BY <4>2, <4>3, <4>4
    <3>3. QED BY <3>1, <3>2
  <2> HIDE DEF qcs
  <2>4. QED BY <2>1, <2>2, <2>3
<1> HIDE DEF qcs
<1> DEFINE reversed == Reverse(qcs)
<1>6. /\ reversed \in Seq(Int) /\ Len(reversed) = m + 1
      /\ \A i \in 1 .. m + 1 : reversed[i] = e.first + i - 2
  <2>1. reversed = [ i \in 1 .. m + 1 |-> qcs[((m + 1) - i) + 1] ]
    BY <1>5 DEF Reverse
  <2>2. \A i \in 1 .. m + 1 : ((m + 1) - i) + 1 \in 1 .. m + 1
    BY <1>1
  <2>3. \A i \in 1 .. m + 1 : qcs[((m + 1) - i) + 1] = e.last - (((m + 1) - i) + 1) + 1
    BY <2>2, <1>5
  <2>4. \A i \in 1 .. m + 1 : e.last - (((m + 1) - i) + 1) + 1 = e.first + i - 2
    BY <1>1 DEF m
  <2>5. reversed = [ i \in 1 .. m + 1 |-> e.first + i - 2 ]
    BY <2>1, <2>3, <2>4
  <2> HIDE DEF reversed
  <2>6. reversed \in [ 1 .. m + 1 -> Int ]
    BY <2>5, <1>1
  <2>7. QED BY <2>5, <2>6, <1>1
<1> HIDE DEF reversed
<1>7. \A i \in 1 .. m : Tail(reversed)[i] = e.first + i - 1
  <2>1. reversed # << >>
    BY <1>6, <1>1
  <2>2. Len(Tail(reversed)) = m /\ \A i \in 1 .. Len(Tail(reversed)) : Tail(reversed)[i] = reversed[i + 1]
    BY <2>1, <1>1, <1>6, HeadTailProperties
  <2>3. \A i \in 1 .. m : i + 1 \in 1 .. m + 1 /\ e.first + (i + 1) - 2 = e.first + i - 1
    BY <1>1
  <2>4. QED BY <2>2, <2>3, <1>6
<1> DEFINE leaves == Reverse(chain)
<1>8. leaves = [ i \in 1 .. m |-> e.first + i - 1 ]
  <2>1. leaves = [ i \in 1 .. m |-> chain[(m - i) + 1] ]
    BY <1>3 DEF Reverse
  <2>2. \A i \in 1 .. m : (m - i) + 1 \in 1 .. m
    BY <1>1
  <2>3. \A i \in 1 .. m : chain[(m - i) + 1] = e.last - ((m - i) + 1) + 1
    BY <2>2, <1>2
  <2>4. \A i \in 1 .. m : e.last - ((m - i) + 1) + 1 = e.first + i - 1
    BY <1>1 DEF m
  <2>5. QED BY <2>1, <2>3, <2>4
<1>9. UpdatePairs(e) = [ i \in DOMAIN leaves |-> [ leaf |-> leaves[i], qc |-> Tail(reversed)[i] ] ]
  BY DEF UpdatePairs, chain, qcs, older, reversed
<1> HIDE DEF leaves
<1>10. UpdatePairs(e) = [ i \in 1 .. m |-> [ leaf |-> e.first + i - 1, qc |-> e.first + i - 1 ] ]
  BY <1>7, <1>8, <1>9
<1>11. QED BY <1>10 DEF m

\* The pairs of an event in the order they are inserted.
LEMMA PairFacts ==
  ASSUME NEW e \in Event, NEW n \in 0 .. e.last - e.first + 1
  PROVE  /\ Len(UpdatePairs(e)) = e.last - e.first + 1 /\ n \in Nat
         /\ \A k \in 1 .. n : UpdatePairs(e)[k].leaf = e.first + k - 1 /\ e.first + k - 1 \in Heights
         /\ DOMAIN SubSeq(UpdatePairs(e), 1, n) = 1 .. n
         /\ \A k \in 1 .. n : SubSeq(UpdatePairs(e), 1, n)[k] = UpdatePairs(e)[k]
<1> DEFINE m == e.last - e.first + 1
           pairs == UpdatePairs(e)
           Pair == [ leaf : Int, qc : Int ]
<1>1. m \in Nat /\ n \in Nat /\ n <= m /\ e.first \in Nat /\ e.last \in Nat /\ e.last <= MaxHeight /\ MaxHeight \in Nat
  BY EventFacts
<1>2. pairs = [ i \in 1 .. m |-> [ leaf |-> e.first + i - 1, qc |-> e.first + i - 1 ] ]
  BY PairsAre
<1>3. pairs \in [ 1 .. m -> Pair ]
  BY <1>1, <1>2
<1>4. pairs \in Seq(Pair) /\ Len(pairs) = m
  <2> HIDE DEF pairs, m, Pair
  <2>1. QED BY <1>1, <1>3
<1>5. ASSUME NEW k \in 1 .. n PROVE pairs[k].leaf = e.first + k - 1 /\ e.first + k - 1 \in Heights
  <2>1. k \in 1 .. m
    BY <1>1
  <2>2. pairs[k].leaf = e.first + k - 1
    BY <2>1, <1>2
  <2>3. e.first + k - 1 \in Heights
    BY <1>1 DEF Heights
  <2>4. QED BY <2>2, <2>3
<1> HIDE DEF pairs, m, Pair
<1>6. /\ Len(SubSeq(pairs, 1, n)) = n
      /\ SubSeq(pairs, 1, n) \in Seq(Pair)
      /\ \A k \in 1 .. n : SubSeq(pairs, 1, n)[k] = pairs[k]
  BY <1>1, <1>4, SubSeqProperties
<1>7. DOMAIN SubSeq(pairs, 1, n) = 1 .. n
  BY <1>6, LenProperties
<1>8. QED BY <1>1, <1>4, <1>5, <1>6, <1>7 DEF m, pairs
=============================================================================
