-------------------------- MODULE FileSystemLemmas --------------------------
(***************************************************************************)
(* Lemmas about the operations of the file system data source: what each   *)
(* preserves, and what its queries answer, for every ledger and every size *)
(* of the caches.                                                          *)
(***************************************************************************)
EXTENDS FileSystemOps, LedgerLogLemmas, DecideEventsProofs

-----------------------------------------------------------------------------
(* Places and the indices of places. *)

LEMMA BlockPlaces ==
  ASSUME NEW a \in Nat, NEW b \in Nat
  PROVE  PlaceBefore(<< a >>, << b >>) <=> a < b
<1> DEFINE p == << a >>
           q == << b >>
<1>1. DOMAIN p = {1} /\ p[1] = a /\ q[1] = b /\ 1 .. 1 - 1 = {}
  OBVIOUS
<1> HIDE DEF p, q
<1>2. PlaceBefore(p, q) <=> a < b
  BY <1>1 DEF PlaceBefore
<1>3. QED BY <1>2 DEF p, q

LEMMA TransactionPlaces ==
  ASSUME NEW a \in Nat, NEW b \in Nat, NEW c \in Nat, NEW d \in Nat
  PROVE  PlaceBefore(<< a, b >>, << c, d >>) <=> (a < c \/ (a = c /\ b < d))
<1> DEFINE p == << a, b >>
           q == << c, d >>
<1>1. DOMAIN p = {1, 2} /\ p[1] = a /\ p[2] = b /\ q[1] = c /\ q[2] = d
  OBVIOUS
<1> HIDE DEF p, q
<1>2. 1 .. 0 = {} /\ 1 .. 1 = {1} /\ 1 - 1 = 0 /\ 2 - 1 = 1
  OBVIOUS
<1>3. (\E k \in DOMAIN p : p[k] < q[k] /\ \A j \in 1 .. k - 1 : p[j] = q[j])
        <=> \/ p[1] < q[1] /\ \A j \in 1 .. 0 : p[j] = q[j]
            \/ p[2] < q[2] /\ \A j \in 1 .. 1 : p[j] = q[j]
  BY <1>1, <1>2
<1>4. PlaceBefore(p, q) <=> (a < c \/ (a = c /\ b < d))
  BY <1>1, <1>2, <1>3 DEF PlaceBefore
<1>5. QED BY <1>4 DEF p, q

\* A place is not the placeholder.
LEMMA PlaceIsNotNone ==
  /\ \A a \in Nat : << a >> # None
  /\ \A a, b \in Nat : << a, b >> # None
<1>1. None \notin Seq(Nat)
  BY ValuesAssumption
<1>2. \A a \in Nat : << a >> \in Seq(Nat)
  OBVIOUS
<1>3. \A a, b \in Nat : << a, b >> \in Seq(Nat)
  OBVIOUS
<1>4. QED BY <1>1, <1>2, <1>3

LEMMA HeightsAreNatural == Heights \subseteq Nat /\ MaxHeight \in Nat
BY LedgerAssumption DEF Heights

HashIndex == [ Hashes -> { << h >> : h \in Heights } \cup {None} ]
TransactionIndex == [ Transactions -> (Heights \X Nat) \cup {None} ]

\* The index leads from a hash to a block that has it, and from a transaction to a
\* place where it is.
HashIndexRight(index) ==
  \A x \in Hashes : index[x] # None =>
    \E g \in Heights : index[x] = << g >> /\ BlockHash[g] = x

TransactionIndexRight(index) ==
  \A t \in Transactions : index[t] # None =>
    \E g \in Heights : \E i \in DOMAIN Payload[g] : index[t] = << g, i >> /\ Payload[g][i] = t

\* The block of height h, its i-th transaction, is indexed, there or earlier.
HashCovered(index, h) == index[BlockHash[h]] \in { << g >> : g \in 0 .. h }

TransactionCovered(index, h, i) ==
  index[Payload[h][i]] # None /\ ~ PlaceBefore(<< h, i >>, index[Payload[h][i]])

LEMMA HashIndexed ==
  ASSUME NEW index \in HashIndex, HashIndexRight(index), NEW h \in Heights
  PROVE  LET new == UpdateIndexByHash(index, BlockHash[h], << h >>)
         IN  /\ new \in HashIndex /\ HashIndexRight(new) /\ HashCovered(new, h)
             /\ \A g \in Heights : HashCovered(index, g) => HashCovered(new, g)
<1> DEFINE b == BlockHash[h]
           v == IF index[b] = None \/ PlaceBefore(<< h >>, index[b]) THEN << h >> ELSE index[b]
           new == [ index EXCEPT ![b] = v ]
<1>1. b \in Hashes /\ h \in Nat
  BY HeightsAreNatural DEF Hashes
<1>2. new = UpdateIndexByHash(index, b, << h >>)
  BY DEF UpdateIndexByHash
<1>3. /\ v \in { << g >> : g \in Heights }
      /\ \E g \in Heights : v = << g >> /\ BlockHash[g] = b /\ g <= h
      /\ index[b] # None => \E g, j \in Heights : index[b] = << j >> /\ v = << g >> /\ g <= j
  <2>1. CASE index[b] = None
    <3>1. v = << h >>
      BY <2>1
    <3> HIDE DEF v
    <3>2. QED BY <1>1, <2>1, <3>1
  <2>2. CASE index[b] # None
    <3>1. PICK g \in Heights : index[b] = << g >> /\ BlockHash[g] = b
      BY <1>1, <2>2 DEF HashIndexRight
    <3>2. g \in Nat
      BY HeightsAreNatural
    <3>3. PlaceBefore(<< h >>, << g >>) <=> h < g
      BY <1>1, <3>2, BlockPlaces
    <3>4. CASE h < g
      <4>1. v = << h >>
        BY <3>1, <3>3, <3>4
      <4>2. h <= g /\ h <= h
        BY <1>1, <3>2, <3>4
      <4> HIDE DEF v
      <4>3. QED BY <3>1, <4>1, <4>2
    <3>5. CASE ~ (h < g)
      <4>1. v = << g >>
        BY <3>1, <3>3, <3>5, <2>2
      <4>2. g <= h /\ g <= g
        BY <1>1, <3>2, <3>5
      <4> HIDE DEF v
      <4>3. QED BY <3>1, <4>1, <4>2
    <3>6. QED BY <3>4, <3>5
  <2>3. QED BY <2>1, <2>2
<1> HIDE DEF b, v
<1>4. index \in [ Hashes -> { << g >> : g \in Heights } \cup {None} ]
  BY DEF HashIndex
<1>5. new \in [ Hashes -> { << g >> : g \in Heights } \cup {None} ]
  BY <1>1, <1>3, <1>4
<1>6. \A x \in Hashes : new[x] = IF x = b THEN v ELSE index[x]
  BY <1>1, <1>4
<1> HIDE DEF new
<1>7. HashIndexRight(new)
  <2>1. SUFFICES ASSUME NEW x \in Hashes, new[x] # None
                 PROVE  \E g \in Heights : new[x] = << g >> /\ BlockHash[g] = x
    BY DEF HashIndexRight
  <2>2. CASE x = b
    BY <1>3, <1>6, <2>2
  <2>3. CASE x # b
    BY <1>6, <2>1, <2>3 DEF HashIndexRight
  <2>4. QED BY <2>2, <2>3
<1>8. HashCovered(new, h)
  <2>1. PICK g \in Heights : v = << g >> /\ g <= h
    BY <1>3
  <2>2. g \in 0 .. h /\ new[BlockHash[h]] = << g >>
    BY <1>1, <1>6, <2>1, HeightsAreNatural DEF b
  <2>3. QED BY <2>2 DEF HashCovered
<1>9. ASSUME NEW g \in Heights, HashCovered(index, g) PROVE HashCovered(new, g)
  <2>1. BlockHash[g] \in Hashes
    BY DEF Hashes
  <2>2. CASE BlockHash[g] # b
    BY <1>6, <1>9, <2>1, <2>2 DEF HashCovered
  <2>3. CASE BlockHash[g] = b
    <3>1. PICK a \in 0 .. g : index[b] = << a >>
      BY <1>9, <2>3 DEF HashCovered
    <3>2. index[b] # None
      BY <3>1, PlaceIsNotNone
    <3>3. PICK c, j \in Heights : index[b] = << j >> /\ v = << c >> /\ c <= j
      BY <1>3, <3>2
    <3>4. j = a
      BY <3>1, <3>3
    <3>5. c \in 0 .. g
      BY <3>3, <3>4, HeightsAreNatural
    <3>6. new[BlockHash[g]] = << c >>
      BY <1>6, <2>1, <2>3, <3>3
    <3>7. QED BY <3>5, <3>6 DEF HashCovered
  <2>4. QED BY <2>2, <2>3
<1>10. QED BY <1>2, <1>5, <1>7, <1>8, <1>9 DEF b, HashIndex

LEMMA PayloadFacts ==
  ASSUME NEW h \in Heights
  PROVE  /\ Len(Payload[h]) \in Nat /\ DOMAIN Payload[h] = 1 .. Len(Payload[h])
         /\ \A i \in DOMAIN Payload[h] : Payload[h][i] \in Transactions /\ i \in Nat
<1>1. Payload[h] \in Seq(Range(Payload[h]))
  BY LedgerAssumption
<1>2. Len(Payload[h]) \in Nat /\ DOMAIN Payload[h] = 1 .. Len(Payload[h])
  BY <1>1, LenProperties
<1>3. \A i \in DOMAIN Payload[h] : Payload[h][i] \in Range(Payload[h])
  BY DEF Range
<1>4. QED BY <1>2, <1>3 DEF Transactions

LEMMA TransactionIndexed ==
  ASSUME NEW index \in TransactionIndex, TransactionIndexRight(index),
         NEW h \in Heights, NEW i \in DOMAIN Payload[h]
  PROVE  LET new == UpdateIndexByHash(index, Payload[h][i], << h, i >>)
         IN  /\ new \in TransactionIndex /\ TransactionIndexRight(new) /\ TransactionCovered(new, h, i)
             /\ \A g \in Heights : \A j \in DOMAIN Payload[g] :
                  TransactionCovered(index, g, j) => TransactionCovered(new, g, j)
<1> DEFINE t == Payload[h][i]
           v == IF index[t] = None \/ PlaceBefore(<< h, i >>, index[t]) THEN << h, i >> ELSE index[t]
           new == [ index EXCEPT ![t] = v ]
<1>1. t \in Transactions /\ h \in Nat /\ i \in Nat
  BY HeightsAreNatural, PayloadFacts
<1>2. new = UpdateIndexByHash(index, t, << h, i >>)
  BY DEF UpdateIndexByHash
<1>3. /\ \E g \in Heights : \E j \in DOMAIN Payload[g] :
           v = << g, j >> /\ Payload[g][j] = t /\ (g < h \/ (g = h /\ j <= i))
      /\ index[t] # None =>
           \E g, k \in Heights : \E j \in DOMAIN Payload[g], m \in DOMAIN Payload[k] :
             index[t] = << k, m >> /\ v = << g, j >> /\ (g < k \/ (g = k /\ j <= m))
  <2>1. CASE index[t] = None
    <3>1. v = << h, i >> /\ i <= i
      BY <1>1, <2>1
    <3> HIDE DEF v
    <3>2. QED BY <1>1, <2>1, <3>1
  <2>2. CASE index[t] # None
    <3>1. PICK g \in Heights : \E j \in DOMAIN Payload[g] : index[t] = << g, j >> /\ Payload[g][j] = t
      BY <1>1, <2>2 DEF TransactionIndexRight
    <3>2. PICK j \in DOMAIN Payload[g] : index[t] = << g, j >> /\ Payload[g][j] = t
      BY <3>1
    <3>3. g \in Nat /\ j \in Nat
      BY HeightsAreNatural, PayloadFacts
    <3>4. PlaceBefore(<< h, i >>, << g, j >>) <=> (h < g \/ (h = g /\ i < j))
      BY <1>1, <3>3, TransactionPlaces
    <3>5. CASE h < g \/ (h = g /\ i < j)
      <4>1. v = << h, i >>
        BY <3>2, <3>4, <3>5
      <4>2. i <= i /\ (h < g \/ (h = g /\ i <= j))
        BY <1>1, <3>3, <3>5
      <4> HIDE DEF v
      <4>3. QED BY <3>2, <4>1, <4>2
    <3>6. CASE ~ (h < g \/ (h = g /\ i < j))
      <4>1. v = << g, j >>
        BY <3>2, <3>4, <3>6, <2>2
      <4>2. j <= j /\ (g < h \/ (g = h /\ j <= i))
        BY <1>1, <3>3, <3>6
      <4> HIDE DEF v
      <4>3. QED BY <3>2, <4>1, <4>2
    <3>7. QED BY <3>5, <3>6
  <2>3. QED BY <2>1, <2>2
<1> HIDE DEF t, v
<1>4. index \in [ Transactions -> (Heights \X Nat) \cup {None} ] /\ v \in Heights \X Nat
  BY <1>3, PayloadFacts DEF TransactionIndex
<1>5. new \in [ Transactions -> (Heights \X Nat) \cup {None} ]
  BY <1>1, <1>4
<1>6. \A x \in Transactions : new[x] = IF x = t THEN v ELSE index[x]
  BY <1>1, <1>4
<1> HIDE DEF new
<1>7. TransactionIndexRight(new)
  <2>1. SUFFICES ASSUME NEW x \in Transactions, new[x] # None
                 PROVE  \E g \in Heights : \E j \in DOMAIN Payload[g] : new[x] = << g, j >> /\ Payload[g][j] = x
    BY DEF TransactionIndexRight
  <2>2. CASE x = t
    BY <1>3, <1>6, <2>2
  <2>3. CASE x # t
    BY <1>6, <2>1, <2>3 DEF TransactionIndexRight
  <2>4. QED BY <2>2, <2>3
<1>8. TransactionCovered(new, h, i)
  <2>1. PICK g \in Heights : \E j \in DOMAIN Payload[g] : v = << g, j >> /\ (g < h \/ (g = h /\ j <= i))
    BY <1>3
  <2>2. PICK j \in DOMAIN Payload[g] : v = << g, j >> /\ (g < h \/ (g = h /\ j <= i))
    BY <2>1
  <2>3. g \in Nat /\ j \in Nat
    BY HeightsAreNatural, PayloadFacts
  <2>4. ~ PlaceBefore(<< h, i >>, << g, j >>)
    BY <1>1, <2>2, <2>3, TransactionPlaces
  <2>5. << g, j >> # None
    BY <2>3, PlaceIsNotNone
  <2>6. QED BY <1>1, <1>6, <2>2, <2>4, <2>5 DEF TransactionCovered, t
<1>9. ASSUME NEW g \in Heights, NEW j \in DOMAIN Payload[g], TransactionCovered(index, g, j)
      PROVE  TransactionCovered(new, g, j)
  <2>1. Payload[g][j] \in Transactions /\ g \in Nat /\ j \in Nat
    BY HeightsAreNatural, PayloadFacts
  <2>2. CASE Payload[g][j] # t
    BY <1>6, <1>9, <2>1, <2>2 DEF TransactionCovered
  <2>3. CASE Payload[g][j] = t
    <3>1. index[t] # None /\ ~ PlaceBefore(<< g, j >>, index[t])
      BY <1>9, <2>3 DEF TransactionCovered
    <3>2. PICK a, k \in Heights : \E b \in DOMAIN Payload[a], m \in DOMAIN Payload[k] :
             index[t] = << k, m >> /\ v = << a, b >> /\ (a < k \/ (a = k /\ b <= m))
      BY <1>3, <3>1
    <3>3. PICK b \in DOMAIN Payload[a], m \in DOMAIN Payload[k] :
             index[t] = << k, m >> /\ v = << a, b >> /\ (a < k \/ (a = k /\ b <= m))
      BY <3>2
    <3>4. a \in Nat /\ k \in Nat /\ b \in Nat /\ m \in Nat
      BY HeightsAreNatural, PayloadFacts
    <3>5. ~ PlaceBefore(<< g, j >>, << k, m >>)
      BY <3>1, <3>3
    <3>6. ~ (g < k \/ (g = k /\ j < m))
      BY <2>1, <3>4, <3>5, TransactionPlaces
    <3>7. ~ (g < a \/ (g = a /\ j < b))
      BY <2>1, <3>3, <3>4, <3>6
    <3>8. ~ PlaceBefore(<< g, j >>, << a, b >>) /\ << a, b >> # None
      BY <2>1, <3>4, <3>7, TransactionPlaces, PlaceIsNotNone
    <3>9. new[Payload[g][j]] = << a, b >>
      BY <1>6, <2>1, <2>3, <3>3
    <3>10. QED BY <3>8, <3>9 DEF TransactionCovered
  <2>4. QED BY <2>2, <2>3
<1>10. QED BY <1>2, <1>5, <1>7, <1>8, <1>9 DEF t, TransactionIndex

\* The index with the transactions of a block, each at its place.
\* No transaction is indexed anew but at its places in the payload.
IndexedFrom(index, h, new) ==
  \A t \in Transactions : new[t] = index[t] \/ \E i \in DOMAIN Payload[h] : new[t] = << h, i >>

LEMMA PayloadIndexed ==
  ASSUME NEW index \in TransactionIndex, TransactionIndexRight(index), NEW h \in Heights
  PROVE  LET new == FoldLeftDomain(LAMBDA ix, i : UpdateIndexByHash(ix, Payload[h][i], << h, i >>),
                                   index, Payload[h])
         IN  /\ new \in TransactionIndex /\ TransactionIndexRight(new)
             /\ \A i \in DOMAIN Payload[h] : TransactionCovered(new, h, i)
             /\ \A g \in Heights : \A j \in DOMAIN Payload[g] :
                  TransactionCovered(index, g, j) => TransactionCovered(new, g, j)
             /\ IndexedFrom(index, h, new)
<1> DEFINE n == Len(Payload[h])
           Op(ix, i) == UpdateIndexByHash(ix, Payload[h][i], << h, i >>)
           Keeps(ix, nx) == \A g \in Heights : \A j \in DOMAIN Payload[g] :
                              TransactionCovered(ix, g, j) => TransactionCovered(nx, g, j)
           T == { ix \in TransactionIndex : TransactionIndexRight(ix) /\ Keeps(index, ix) /\ IndexedFrom(index, h, ix) }
           step == [ p \in (1 .. n) \X T |-> Op(p[2], p[1]) ]
           Is(it) == it = [ s \in SUBSET (1 .. n) |->
                              IF s = {} THEN index ELSE Op(it[s \ {Max(s)}], Max(s)) ]
           F == CHOOSE it : Is(it)
           new == FoldLeftDomain(LAMBDA ix, i : UpdateIndexByHash(ix, Payload[h][i], << h, i >>),
                                 index, Payload[h])
<1>1. n \in Nat /\ DOMAIN Payload[h] = 1 .. n
  BY PayloadFacts
<1>2. new = F[1 .. n]
  <2> DEFINE positions == [ i \in DOMAIN Payload[h] |-> i ]
  <2>1. DOMAIN positions = 1 .. n /\ \A i \in 1 .. n : positions[i] = i
    BY <1>1
  <2>2. \A s \in SUBSET (1 .. n) : s # {} => Max(s) \in 1 .. n
    BY <1>1, MaxOfSegment
  <2> HIDE DEF positions
  <2> DEFINE It(it) == it = [ s \in SUBSET (1 .. n) |->
                 IF s = {} THEN index ELSE Op(it[s \ {Max(s)}], positions[Max(s)]) ]
  <2>3. new = (CHOOSE it : It(it))[1 .. n]
    BY <2>1 DEF FoldLeftDomain, FoldLeft, MapThenFoldSet, positions
  <2>4. ASSUME NEW it PROVE It(it) <=> Is(it)
    <3> DEFINE A == [ s \in SUBSET (1 .. n) |-> IF s = {} THEN index ELSE Op(it[s \ {Max(s)}], positions[Max(s)]) ]
               B == [ s \in SUBSET (1 .. n) |-> IF s = {} THEN index ELSE Op(it[s \ {Max(s)}], Max(s)) ]
    <3> HIDE DEF Op, n
    <3>1. \A s \in SUBSET (1 .. n) : s # {} => positions[Max(s)] = Max(s)
      BY <2>1, <2>2
    <3>2. ASSUME NEW s \in SUBSET (1 .. n) PROVE A[s] = B[s]
      <4>1. CASE s = {}
        BY <4>1
      <4>2. CASE s # {}
        <5>1. positions[Max(s)] = Max(s)
          BY <3>1, <4>2
        <5>2. QED BY <5>1
      <4>3. QED BY <4>1, <4>2
    <3>3. A = B
      BY <3>2
    <3>4. (It(it) <=> it = A) /\ (Is(it) <=> it = B)
      OBVIOUS
    <3> HIDE DEF A, B, It, Is
    <3>5. QED BY <3>3, <3>4
  <2> HIDE DEF It, Is
  <2>5. (CHOOSE it : It(it)) = (CHOOSE it : Is(it))
    BY <2>4
  <2>6. QED BY <2>3, <2>5
<1>3. \A ix \in T, i \in 1 .. n : Op(ix, i) \in T /\ TransactionCovered(Op(ix, i), h, i) /\ Keeps(ix, Op(ix, i))
  <2>1. SUFFICES ASSUME NEW ix \in T, NEW i \in 1 .. n
                 PROVE  Op(ix, i) \in T /\ TransactionCovered(Op(ix, i), h, i) /\ Keeps(ix, Op(ix, i))
    OBVIOUS
  <2> DEFINE nx == Op(ix, i)
  <2>2. ix \in TransactionIndex /\ TransactionIndexRight(ix) /\ Keeps(index, ix) /\ i \in DOMAIN Payload[h]
        /\ IndexedFrom(index, h, ix)
    BY <1>1
  <2>3. \A t \in Transactions : nx[t] = ix[t] \/ nx[t] = << h, i >>
    BY <2>2 DEF UpdateIndexByHash, TransactionIndex
  <2>4. nx \in TransactionIndex /\ TransactionIndexRight(nx) /\ TransactionCovered(nx, h, i) /\ Keeps(ix, nx)
    BY <2>2, TransactionIndexed
  <2> HIDE DEF nx
  <2>5. Keeps(index, nx)
    BY <2>2, <2>4
  <2>6. IndexedFrom(index, h, nx)
    BY <2>2, <2>3 DEF IndexedFrom
  <2>7. nx \in T
    BY <2>4, <2>5, <2>6
  <2>8. QED BY <2>4, <2>7 DEF nx
<1>4. index \in T
  BY DEF IndexedFrom
<1> HIDE DEF T, Op, Keeps, n, new
<1>5. step \in StepFunctions(1 .. n, T) /\ \A v \in T, i \in 1 .. n : step[<< i, v >>] = Op(v, i)
  BY <1>3 DEF StepFunctions
<1>6. \A s \in SUBSET (1 .. n) : s # {} => Max(s) \in 1 .. n
  BY <1>1, MaxOfSegment
<1> HIDE DEF step
<1>7. \E it : Is(it)
  <2>1. \E it : it \in FoldFunctions(1 .. n, T, index, step)
    BY <1>1, <1>4, <1>5, FoldExists
  <2>2. PICK it \in [ SUBSET (1 .. n) -> T ] : \A s \in SUBSET (1 .. n) :
               it[s] = IF s = {} THEN index ELSE step[<< Max(s), it[s \ {Max(s)}] >>]
    BY <2>1 DEF FoldFunctions
  <2>3. \A s \in SUBSET (1 .. n) : s # {} => step[<< Max(s), it[s \ {Max(s)}] >>] = Op(it[s \ {Max(s)}], Max(s))
    BY <1>5, <1>6
  <2>4. \A s \in SUBSET (1 .. n) : it[s] = IF s = {} THEN index ELSE Op(it[s \ {Max(s)}], Max(s))
    BY <2>2, <2>3
  <2>5. Is(it)
    BY <2>4
  <2>6. QED BY <2>5
<1>8. Is(F)
  <2> HIDE DEF Is
  <2>1. QED BY <1>7
<1> HIDE DEF F
<1>9. F[{}] = index
  BY <1>8
<1>10. \A k \in 1 .. n : F[1 .. k - 1] \in T => F[1 .. k] = step[<< k, F[1 .. k - 1] >>]
  <2>1. SUFFICES ASSUME NEW k \in 1 .. n, F[1 .. k - 1] \in T PROVE F[1 .. k] = step[<< k, F[1 .. k - 1] >>]
    OBVIOUS
  <2>2. k \in Nat \ {0} /\ 1 .. k \in SUBSET (1 .. n)
    BY <1>1
  <2>3. Max(1 .. k) = k /\ (1 .. k) \ {Max(1 .. k)} = 1 .. k - 1 /\ 1 .. k # {}
    BY <2>2, GreatestOfSegment
  <2>4. F[1 .. k] = Op(F[1 .. k - 1], k)
    BY <1>8, <2>2, <2>3
  <2> HIDE DEF Is
  <2>5. QED BY <1>5, <2>1, <2>4
<1> HIDE DEF Is
<1>11. PICK states : states \in Traces(n, T, index, step) /\ F[1 .. n] = states[n]
  BY <1>1, <1>4, <1>5, <1>9, <1>10, FoldTrace
<1>12. /\ \A k \in 0 .. n : states[k] \in T
       /\ \A k \in 1 .. n : states[k] = step[<< k, states[k - 1] >>]
  BY <1>11 DEF Traces
<1> DEFINE Good == { k \in 0 .. n : \A i \in 1 .. k : TransactionCovered(states[k], h, i) }
<1>13. 0 \in Good
  BY <1>1
<1>14. \A k \in 0 .. n - 1 : k \in Good => k + 1 \in Good
  <2>1. SUFFICES ASSUME NEW k \in 0 .. n - 1, k \in Good PROVE k + 1 \in Good
    OBVIOUS
  <2>2. k \in 0 .. n /\ k + 1 \in 1 .. n /\ k + 1 \in 0 .. n /\ (k + 1) - 1 = k
    BY <1>1
  <2>3. states[k + 1] = Op(states[k], k + 1)
    BY <1>5, <1>12, <2>2
  <2>4. TransactionCovered(states[k + 1], h, k + 1) /\ Keeps(states[k], states[k + 1])
    BY <1>3, <1>12, <2>2, <2>3
  <2>5. ASSUME NEW i \in 1 .. k + 1 PROVE TransactionCovered(states[k + 1], h, i)
    <3>1. CASE i = k + 1
      BY <2>4, <3>1
    <3>2. CASE i # k + 1
      <4>1. i \in 1 .. k /\ i \in DOMAIN Payload[h]
        BY <1>1, <3>2
      <4>2. TransactionCovered(states[k], h, i)
        BY <2>1, <4>1
      <4>3. QED BY <2>4, <4>1, <4>2 DEF Keeps
    <3>3. QED BY <3>1, <3>2
  <2>6. QED BY <2>2, <2>5
<1> HIDE DEF Good
<1>15. n \in Good
  <2>1. \A k \in 0 .. n : k \in Good
    BY <1>1, <1>13, <1>14, Induction
  <2>2. QED BY <1>1, <2>1
<1>16. states[n] \in T /\ \A i \in 1 .. n : TransactionCovered(states[n], h, i)
  BY <1>1, <1>12, <1>15 DEF Good
<1>17. new = states[n]
  BY <1>2, <1>11
<1>18. /\ new \in TransactionIndex /\ TransactionIndexRight(new)
       /\ \A i \in DOMAIN Payload[h] : TransactionCovered(new, h, i)
       /\ Keeps(index, new) /\ IndexedFrom(index, h, new)
  BY <1>1, <1>16, <1>17 DEF T
<1>19. QED BY <1>18 DEF new, Keeps

ProposerIndex == [ Proposers -> Seq(Heights) ]

\* Only its own leaves are listed for a proposer.
ProposerIndexRight(index) ==
  \A p \in Proposers : \A k \in 1 .. Len(index[p]) : Proposer[index[p][k]] = p

LEMMA EntriesAppend ==
  ASSUME NEW S, NEW s \in Seq(S), NEW x \in S
  PROVE  Append(s, x) \in Seq(S) /\ Entries(Append(s, x)) = Entries(s) \cup {x}
<1> DEFINE n == Len(s)
           t == Append(s, x)
<1>1. n \in Nat /\ t \in Seq(S) /\ Len(t) = n + 1
      /\ (\A k \in 1 .. n : t[k] = s[k]) /\ t[n + 1] = x
  BY LenProperties, AppendProperties
<1> HIDE DEF n, t
<1>2. 1 .. n + 1 = (1 .. n) \cup {n + 1}
  BY <1>1
<1>3. Entries(t) = { t[k] : k \in 1 .. n } \cup {x}
  BY <1>1, <1>2 DEF Entries
<1>4. Entries(s) = { t[k] : k \in 1 .. n }
  BY <1>1 DEF Entries, n
<1>5. QED BY <1>1, <1>3, <1>4 DEF t

LEMMA ProposerIndexed ==
  ASSUME NEW index \in ProposerIndex, ProposerIndexRight(index), NEW h \in Heights
  PROVE  LET new == [ index EXCEPT ![Proposer[h]] = Append(@, h) ]
         IN  /\ new \in ProposerIndex /\ ProposerIndexRight(new)
             /\ h \in Entries(new[Proposer[h]])
             /\ \A p \in Proposers : Entries(index[p]) \subseteq Entries(new[p])
<1> DEFINE o == Proposer[h]
           s == index[o]
           t == Append(s, h)
           new == [ index EXCEPT ![o] = t ]
<1>1. o \in Proposers /\ index \in [ Proposers -> Seq(Heights) ]
  BY DEF Proposers, ProposerIndex
<1>2. s \in Seq(Heights) /\ Len(s) \in Nat
  BY <1>1, LenProperties
<1>3. /\ t \in Seq(Heights) /\ Entries(t) = Entries(s) \cup {h} /\ Len(t) = Len(s) + 1
      /\ (\A k \in 1 .. Len(s) : t[k] = s[k]) /\ t[Len(s) + 1] = h
  BY <1>2, EntriesAppend, AppendProperties
<1>4. \A k \in 1 .. Len(t) : k \in 1 .. Len(s) \/ k = Len(s) + 1
  BY <1>2, <1>3
<1> HIDE DEF t
<1>5. /\ new \in [ Proposers -> Seq(Heights) ]
      /\ \A p \in Proposers : new[p] = IF p = o THEN t ELSE index[p]
  BY <1>1, <1>3
<1> HIDE DEF new
<1>6. \A k \in 1 .. Len(s) : Proposer[s[k]] = o
  BY <1>1 DEF ProposerIndexRight
<1>7. \A k \in 1 .. Len(t) : Proposer[t[k]] = o
  BY <1>3, <1>4, <1>6
<1>8. ProposerIndexRight(new)
  <2>1. SUFFICES ASSUME NEW p \in Proposers, NEW k \in 1 .. Len(new[p]) PROVE Proposer[new[p][k]] = p
    BY DEF ProposerIndexRight
  <2>2. CASE p = o
    BY <1>5, <1>7, <2>2
  <2>3. CASE p # o
    BY <1>5, <2>3 DEF ProposerIndexRight
  <2>4. QED BY <2>2, <2>3
<1>9. \A p \in Proposers : Entries(index[p]) \subseteq Entries(new[p])
  BY <1>3, <1>5
<1>10. h \in Entries(new[o])
  BY <1>1, <1>3, <1>5
<1>11. QED BY <1>5, <1>8, <1>9, <1>10 DEF new, t, ProposerIndex

-----------------------------------------------------------------------------
(***************************************************************************)
(* The invariant of a data source: both logs are in order, the block log   *)
(* is never ahead of the leaf log, neither in what is committed nor in     *)
(* what is written, the indices lead to what they say, and everything a    *)
(* log still holds, in its store or only in its cache, is indexed.  The    *)
(* last is more than that what can be read is indexed: a revert may        *)
(* uncover the store under an entry of the cache that was popped.          *)
(***************************************************************************)
LeafIndexed(d, h) ==
  /\ h \in Heights /\ h \in d.index_by_leaf_hash
  /\ HashCovered(d.index_by_block_hash, h)
  /\ h \in Entries(d.index_by_proposer_id[Proposer[h]])

BlockIndexed(d, h) ==
  /\ h \in Heights
  /\ \A i \in DOMAIN Payload[h] : TransactionCovered(d.index_by_txn_hash, h, i)

LogsInv(d) ==
  /\ LogInv(d.leaf_storage) /\ LogInv(d.block_storage)
  /\ Len(d.block_storage.store) <= Len(d.leaf_storage.store)
  /\ NextPos(d.block_storage) <= NextPos(d.leaf_storage)

IndicesRight(d) ==
  /\ HashIndexRight(d.index_by_block_hash)
  /\ TransactionIndexRight(d.index_by_txn_hash)
  /\ ProposerIndexRight(d.index_by_proposer_id)

HeldIndexed(d) ==
  /\ \A h \in Held(d.leaf_storage)  : h # None => LeafIndexed(d, h)
  /\ \A h \in Held(d.block_storage) : h # None => BlockIndexed(d, h)

SourceInv(d) == d \in DataSource /\ LogsInv(d) /\ IndicesRight(d) /\ HeldIndexed(d)

SameStores(d, n) ==
  /\ n.leaf_storage.store = d.leaf_storage.store
  /\ n.block_storage.store = d.block_storage.store

LEMMA LengthsAre ==
  ASSUME NEW d, LogsInv(d)
  PROVE  /\ Len(d.leaf_storage.store) \in Nat /\ Len(d.block_storage.store) \in Nat
         /\ NextPos(d.leaf_storage) \in Nat /\ NextPos(d.block_storage) \in Nat
         /\ Len(d.leaf_storage.store) <= NextPos(d.leaf_storage)
         /\ Len(d.block_storage.store) <= NextPos(d.block_storage)
<1>1. ASSUME NEW l, LogInv(l) PROVE Len(l.store) \in Nat /\ NextPos(l) \in Nat /\ Len(l.store) <= NextPos(l)
  <2>1. Len(l.store) \in Nat /\ NextPos(l) \in Nat /\ l.pending_inserts \in Nat
    BY <1>1, LogParts, Zenon
  <2>2. QED BY <2>1 DEF NextPos
<1>2. LogInv(d.leaf_storage) /\ LogInv(d.block_storage)
  BY DEF LogsInv
<1>3. QED BY <1>1, <1>2

\* The fields of a data source that only its leaf log, or its block log, differs in.
LEMMA LeafLogReplaced ==
  ASSUME NEW d, SourceInv(d), NEW l, LogInv(l), Held(l) \subseteq Held(d.leaf_storage) \cup {None},
         NextPos(d.block_storage) <= NextPos(l), Len(d.block_storage.store) <= Len(l.store)
  PROVE  /\ SourceInv([ d EXCEPT !.leaf_storage = l ])
         /\ [ d EXCEPT !.leaf_storage = l ].leaf_storage = l
         /\ [ d EXCEPT !.leaf_storage = l ].block_storage = d.block_storage
<1> DEFINE x == [ d EXCEPT !.leaf_storage = l ]
<1>1. d \in DataSource /\ l \in LogType
  BY DEF SourceInv, LogInv
<1>2. /\ x \in DataSource /\ x.leaf_storage = l /\ x.block_storage = d.block_storage
      /\ x.index_by_leaf_hash = d.index_by_leaf_hash /\ x.index_by_block_hash = d.index_by_block_hash
      /\ x.index_by_txn_hash = d.index_by_txn_hash /\ x.index_by_proposer_id = d.index_by_proposer_id
  BY <1>1 DEF DataSource
<1> HIDE DEF x
<1>3. LogsInv(x) /\ IndicesRight(x)
  BY <1>2 DEF SourceInv, LogsInv, IndicesRight
<1>4. HeldIndexed(x)
  BY <1>2 DEF SourceInv, HeldIndexed, LeafIndexed, BlockIndexed
<1>5. QED BY <1>2, <1>3, <1>4 DEF SourceInv, x

LEMMA BlockLogReplaced ==
  ASSUME NEW d, SourceInv(d), NEW l, LogInv(l), Held(l) \subseteq Held(d.block_storage) \cup {None},
         NextPos(l) <= NextPos(d.leaf_storage), Len(l.store) <= Len(d.leaf_storage.store)
  PROVE  /\ SourceInv([ d EXCEPT !.block_storage = l ])
         /\ [ d EXCEPT !.block_storage = l ].block_storage = l
         /\ [ d EXCEPT !.block_storage = l ].leaf_storage = d.leaf_storage
<1> DEFINE x == [ d EXCEPT !.block_storage = l ]
<1>1. d \in DataSource /\ l \in LogType
  BY DEF SourceInv, LogInv
<1>2. /\ x \in DataSource /\ x.block_storage = l /\ x.leaf_storage = d.leaf_storage
      /\ x.index_by_leaf_hash = d.index_by_leaf_hash /\ x.index_by_block_hash = d.index_by_block_hash
      /\ x.index_by_txn_hash = d.index_by_txn_hash /\ x.index_by_proposer_id = d.index_by_proposer_id
  BY <1>1 DEF DataSource
<1> HIDE DEF x
<1>3. LogsInv(x) /\ IndicesRight(x)
  BY <1>2 DEF SourceInv, LogsInv, IndicesRight
<1>4. HeldIndexed(x)
  BY <1>2 DEF SourceInv, HeldIndexed, LeafIndexed, BlockIndexed
<1>5. QED BY <1>2, <1>3, <1>4 DEF SourceInv, x

-----------------------------------------------------------------------------
(* Inserting. *)

LEMMA LeafInserted ==
  ASSUME NEW d, SourceInv(d), NEW h \in Heights
  PROVE  /\ SourceInv(InsertLeaf(d, h)) /\ SameStores(d, InsertLeaf(d, h))
         /\ InsertLeaf(d, h).leaf_storage = InsertObject(d.leaf_storage, h, h)
         /\ InsertLeaf(d, h).block_storage = d.block_storage
         /\ h < NextPos(InsertLeaf(d, h).leaf_storage)
<1> DEFINE x == InsertLeaf(d, h)
           l == d.leaf_storage
           m == InsertObject(l, h, h)
           hashes == UpdateIndexByHash(d.index_by_block_hash, BlockHash[h], << h >>)
           own == [ d.index_by_proposer_id EXCEPT ![Proposer[h]] = Append(@, h) ]
<1>1. d \in DataSource /\ LogsInv(d) /\ IndicesRight(d) /\ HeldIndexed(d) /\ h \in Nat
  BY HeightsAreNatural DEF SourceInv
<1>2. /\ d.index_by_block_hash \in HashIndex /\ d.index_by_txn_hash \in TransactionIndex
      /\ d.index_by_proposer_id \in ProposerIndex /\ d.index_by_leaf_hash \in SUBSET Heights
  BY <1>1 DEF DataSource, HashIndex, TransactionIndex, ProposerIndex
<1>3. /\ hashes \in HashIndex /\ HashIndexRight(hashes) /\ HashCovered(hashes, h)
      /\ \A g \in Heights : HashCovered(d.index_by_block_hash, g) => HashCovered(hashes, g)
  BY <1>1, <1>2, HashIndexed DEF IndicesRight
<1>4. /\ own \in ProposerIndex /\ ProposerIndexRight(own) /\ h \in Entries(own[Proposer[h]])
      /\ \A p \in Proposers : Entries(d.index_by_proposer_id[p]) \subseteq Entries(own[p])
  BY <1>1, <1>2, ProposerIndexed DEF IndicesRight
<1>5. LogInv(l) /\ LogInv(m) /\ m.store = l.store /\ m \in LogType
  <2>1. LogInv(l)
    BY <1>1 DEF LogsInv
  <2>2. LogInv(m) /\ m.store = l.store
    BY <1>1, <2>1, InsertInv
  <2>3. QED BY <2>1, <2>2 DEF LogInv
<1>6. /\ Held(m) \subseteq Held(l) \cup {h, None}
      /\ NextPos(m) = IF h >= NextPos(l) THEN h + 1 ELSE NextPos(l)
  BY <1>1, <1>5, InsertHolds
<1>7. NextPos(m) >= NextPos(l) /\ h < NextPos(m)
  <2> DEFINE p == NextPos(l)
  <2>1. p \in Nat
    BY <1>5, LogParts, Zenon
  <2> HIDE DEF p
  <2>2. (IF h >= p THEN h + 1 ELSE p) >= p /\ h < (IF h >= p THEN h + 1 ELSE p)
    BY <1>1, <2>1
  <2>3. QED BY <1>6, <2>2 DEF p
<1> HIDE DEF m, hashes, own
<1>8. /\ x \in DataSource
      /\ x.leaf_storage = m /\ x.block_storage = d.block_storage
      /\ x.index_by_leaf_hash = d.index_by_leaf_hash \cup {h}
      /\ x.index_by_block_hash = hashes /\ x.index_by_txn_hash = d.index_by_txn_hash
      /\ x.index_by_proposer_id = own
  <2>1. x = [ d EXCEPT !.leaf_storage = m, !.index_by_leaf_hash = @ \cup {h},
                       !.index_by_block_hash = hashes, !.index_by_proposer_id = own ]
    BY <1>1 DEF InsertLeaf, IndexLeaf, m, hashes, own, DataSource
  <2> HIDE DEF x
  <2>2. QED BY <1>1, <1>3, <1>4, <1>5, <2>1 DEF DataSource, HashIndex, ProposerIndex
<1> HIDE DEF x
<1>9. LogsInv(x)
  <2> DEFINE b == NextPos(d.block_storage)
             p == NextPos(l)
             q == NextPos(m)
  <2>1. b \in Nat /\ p \in Nat /\ b <= p /\ q >= p /\ q \in Nat
    BY <1>1, <1>5, <1>7, LengthsAre, LogParts DEF LogsInv
  <2> HIDE DEF b, p, q
  <2>2. b <= q
    BY <2>1
  <2>3. QED BY <1>1, <1>5, <1>8, <2>2 DEF LogsInv, b, q
<1>10. IndicesRight(x)
  BY <1>1, <1>3, <1>4, <1>8 DEF IndicesRight
<1>11. \A g \in Held(m) : g # None => LeafIndexed(x, g)
  <2>1. SUFFICES ASSUME NEW g \in Held(m), g # None PROVE LeafIndexed(x, g)
    OBVIOUS
  <2>2. CASE g = h
    BY <1>3, <1>4, <1>8, <2>2 DEF LeafIndexed
  <2>3. CASE g # h
    <3>1. LeafIndexed(d, g)
      BY <1>1, <1>6, <2>1, <2>3 DEF HeldIndexed
    <3>2. g \in Heights /\ Proposer[g] \in Proposers
      BY <3>1 DEF LeafIndexed, Proposers
    <3>3. QED BY <1>3, <1>4, <1>8, <3>1, <3>2 DEF LeafIndexed
  <2>4. QED BY <2>2, <2>3
<1>12. \A g \in Held(d.block_storage) : g # None => BlockIndexed(x, g)
  BY <1>1, <1>8 DEF HeldIndexed, BlockIndexed
<1>13. HeldIndexed(x)
  BY <1>8, <1>11, <1>12 DEF HeldIndexed
<1>14. SameStores(d, x)
  BY <1>5, <1>8 DEF SameStores
<1>15. QED BY <1>7, <1>8, <1>9, <1>10, <1>13, <1>14 DEF SourceInv, x, m

\* A block is inserted only after its leaf.
LEMMA BlockInserted ==
  ASSUME NEW d, SourceInv(d), NEW h \in Heights, h < NextPos(d.leaf_storage)
  PROVE  /\ SourceInv(InsertBlock(d, h)) /\ SameStores(d, InsertBlock(d, h))
         /\ InsertBlock(d, h).block_storage = InsertObject(d.block_storage, h, h)
         /\ InsertBlock(d, h).leaf_storage = d.leaf_storage
<1> DEFINE x == InsertBlock(d, h)
           l == d.block_storage
           m == InsertObject(l, h, h)
           places == FoldLeftDomain(LAMBDA index, i : UpdateIndexByHash(index, Payload[h][i], << h, i >>),
                                    d.index_by_txn_hash, Payload[h])
<1>1. d \in DataSource /\ LogsInv(d) /\ IndicesRight(d) /\ HeldIndexed(d) /\ h \in Nat
  BY HeightsAreNatural DEF SourceInv
<1>2. d.index_by_txn_hash \in TransactionIndex /\ TransactionIndexRight(d.index_by_txn_hash)
  BY <1>1 DEF DataSource, TransactionIndex, IndicesRight
<1>3. /\ places \in TransactionIndex /\ TransactionIndexRight(places)
      /\ \A i \in DOMAIN Payload[h] : TransactionCovered(places, h, i)
      /\ \A g \in Heights : \A j \in DOMAIN Payload[g] :
           TransactionCovered(d.index_by_txn_hash, g, j) => TransactionCovered(places, g, j)
  BY <1>2, PayloadIndexed
<1>5. LogInv(l) /\ LogInv(m) /\ m.store = l.store /\ m \in LogType
  <2>1. LogInv(l)
    BY <1>1 DEF LogsInv
  <2>2. LogInv(m) /\ m.store = l.store
    BY <1>1, <2>1, InsertInv
  <2>3. QED BY <2>1, <2>2 DEF LogInv
<1>6. /\ Held(m) \subseteq Held(l) \cup {h, None}
      /\ NextPos(m) = IF h >= NextPos(l) THEN h + 1 ELSE NextPos(l)
  BY <1>1, <1>5, InsertHolds
<1> HIDE DEF m, places
<1>8. /\ x \in DataSource
      /\ x.block_storage = m /\ x.leaf_storage = d.leaf_storage
      /\ x.index_by_leaf_hash = d.index_by_leaf_hash
      /\ x.index_by_block_hash = d.index_by_block_hash /\ x.index_by_txn_hash = places
      /\ x.index_by_proposer_id = d.index_by_proposer_id
  <2>1. x = [ d EXCEPT !.block_storage = m, !.index_by_txn_hash = places ]
    BY <1>1 DEF InsertBlock, IndexBlock, m, places, DataSource
  <2> HIDE DEF x
  <2>2. QED BY <1>1, <1>3, <1>5, <2>1 DEF DataSource, TransactionIndex
<1> HIDE DEF x
<1>9. LogsInv(x)
  <2> DEFINE p == NextPos(d.leaf_storage)
             b == NextPos(l)
             q == NextPos(m)
  <2>1. b \in Nat /\ p \in Nat /\ b <= p /\ h < p /\ q = IF h >= b THEN h + 1 ELSE b
    BY <1>1, <1>6, LengthsAre DEF LogsInv
  <2> HIDE DEF b, p, q
  <2>2. q <= p
    BY <1>1, <2>1
  <2>3. QED BY <1>1, <1>5, <1>8, <2>2 DEF LogsInv, p, q
<1>10. IndicesRight(x)
  BY <1>1, <1>3, <1>8 DEF IndicesRight
<1>11. \A g \in Held(m) : g # None => BlockIndexed(x, g)
  <2>1. SUFFICES ASSUME NEW g \in Held(m), g # None PROVE BlockIndexed(x, g)
    OBVIOUS
  <2>2. CASE g = h
    BY <1>3, <1>8, <2>2 DEF BlockIndexed
  <2>3. CASE g # h
    <3>1. BlockIndexed(d, g)
      BY <1>1, <1>6, <2>1, <2>3 DEF HeldIndexed
    <3>2. QED BY <1>3, <1>8, <3>1 DEF BlockIndexed
  <2>4. QED BY <2>2, <2>3
<1>12. \A g \in Held(d.leaf_storage) : g # None => LeafIndexed(x, g)
  BY <1>1, <1>8 DEF HeldIndexed, LeafIndexed
<1>13. HeldIndexed(x)
  BY <1>8, <1>11, <1>12 DEF HeldIndexed
<1>14. SameStores(d, x)
  BY <1>5, <1>8 DEF SameStores
<1>15. QED BY <1>8, <1>9, <1>10, <1>13, <1>14 DEF SourceInv, x, m

LEMMA PairInserted ==
  ASSUME NEW d, SourceInv(d), NEW e, NEW pair, pair.leaf \in Heights
  PROVE  SourceInv(InsertPair(d, e, pair)) /\ SameStores(d, InsertPair(d, e, pair))
<1> DEFINE h == pair.leaf
           x == InsertLeaf(d, h)
           y == InsertBlock(x, h)
<1>1. h \in Heights
  OBVIOUS
<1> HIDE DEF h
<1>2. SourceInv(x) /\ SameStores(d, x) /\ h < NextPos(x.leaf_storage)
  BY <1>1, LeafInserted
<1> HIDE DEF x
<1>3. SourceInv(y) /\ SameStores(x, y)
  BY <1>1, <1>2, BlockInserted
<1> HIDE DEF y
<1>4. InsertPair(d, e, pair) = IF h \in e.payloads THEN y ELSE x
  BY DEF InsertPair, h, x, y
<1>5. QED BY <1>2, <1>3, <1>4 DEF SameStores

\* The first n leaves of an event, with their blocks, are inserted one after the other.
PairTrace(states, d, e, n) ==
  /\ states[0] = d /\ states[n] = InsertPairs(d, e, n)
  /\ \A k \in 1 .. n : states[k] = InsertPair(states[k - 1], e, UpdatePairs(e)[k])
  /\ \A k \in 0 .. n : SourceInv(states[k]) /\ SameStores(d, states[k])

LEMMA PairsTraced ==
  ASSUME NEW d, SourceInv(d), NEW e \in Event, NEW n \in 0 .. e.last - e.first + 1
  PROVE  \E states : PairTrace(states, d, e, n)
<1> DEFINE pairs == SubSeq(UpdatePairs(e), 1, n)
           Op(acc, pair) == InsertPair(acc, e, pair)
           T == { x \in DataSource : SourceInv(x) /\ SameStores(d, x) }
           step == [ p \in (1 .. n) \X T |-> Op(p[2], pairs[p[1]]) ]
           Is(it) == it = [ s \in SUBSET (1 .. n) |->
                              IF s = {} THEN d ELSE Op(it[s \ {Max(s)}], pairs[Max(s)]) ]
           F == CHOOSE it : Is(it)
<1>1. /\ n \in Nat /\ DOMAIN pairs = 1 .. n
      /\ \A k \in 1 .. n : pairs[k] = UpdatePairs(e)[k] /\ pairs[k].leaf \in Heights
  BY PairFacts
<1>2. InsertPairs(d, e, n) = F[1 .. n]
  BY <1>1 DEF InsertPairs, FoldLeft, MapThenFoldSet
<1> HIDE DEF pairs
<1>3. \A x \in T, k \in 1 .. n : Op(x, pairs[k]) \in T
  <2>1. SUFFICES ASSUME NEW x \in T, NEW k \in 1 .. n PROVE Op(x, pairs[k]) \in T
    OBVIOUS
  <2> DEFINE pair == pairs[k]
             y == Op(x, pair)
  <2>2. pair.leaf \in Heights /\ SourceInv(x) /\ SameStores(d, x)
    BY <1>1
  <2> HIDE DEF pair
  <2>3. SourceInv(y) /\ SameStores(x, y)
    BY <2>2, PairInserted
  <2> HIDE DEF y
  <2>4. y \in T
    BY <2>2, <2>3 DEF SourceInv, SameStores
  <2>5. QED BY <2>4 DEF y, pair
<1>4. d \in T
  BY DEF SourceInv, SameStores
<1> HIDE DEF T, Op
<1>5. step \in StepFunctions(1 .. n, T) /\ \A v \in T, i \in 1 .. n : step[<< i, v >>] = Op(v, pairs[i])
  BY <1>3 DEF StepFunctions
<1>6. \A s \in SUBSET (1 .. n) : s # {} => Max(s) \in 1 .. n
  BY <1>1, MaxOfSegment
<1> HIDE DEF step
<1>7. \E it : Is(it)
  <2>1. \E it : it \in FoldFunctions(1 .. n, T, d, step)
    BY <1>1, <1>4, <1>5, FoldExists
  <2>2. PICK it \in [ SUBSET (1 .. n) -> T ] : \A s \in SUBSET (1 .. n) :
               it[s] = IF s = {} THEN d ELSE step[<< Max(s), it[s \ {Max(s)}] >>]
    BY <2>1 DEF FoldFunctions
  <2>3. \A s \in SUBSET (1 .. n) : s # {} => step[<< Max(s), it[s \ {Max(s)}] >>] = Op(it[s \ {Max(s)}], pairs[Max(s)])
    BY <1>5, <1>6
  <2>4. \A s \in SUBSET (1 .. n) : it[s] = IF s = {} THEN d ELSE Op(it[s \ {Max(s)}], pairs[Max(s)])
    BY <2>2, <2>3
  <2>5. Is(it)
    BY <2>4
  <2>6. QED BY <2>5
<1>8. Is(F)
  <2> HIDE DEF Is
  <2>1. QED BY <1>7
<1> HIDE DEF F
<1>9. F[{}] = d
  BY <1>8
<1>10. \A k \in 1 .. n : F[1 .. k - 1] \in T => F[1 .. k] = step[<< k, F[1 .. k - 1] >>]
  <2>1. SUFFICES ASSUME NEW k \in 1 .. n, F[1 .. k - 1] \in T PROVE F[1 .. k] = step[<< k, F[1 .. k - 1] >>]
    OBVIOUS
  <2>2. k \in Nat \ {0} /\ 1 .. k \in SUBSET (1 .. n)
    BY <1>1
  <2>3. Max(1 .. k) = k /\ (1 .. k) \ {Max(1 .. k)} = 1 .. k - 1 /\ 1 .. k # {}
    BY <2>2, GreatestOfSegment
  <2>4. F[1 .. k] = Op(F[1 .. k - 1], pairs[k])
    BY <1>8, <2>2, <2>3
  <2> HIDE DEF Is
  <2>5. QED BY <1>5, <2>1, <2>4
<1> HIDE DEF Is
<1>11. PICK states : states \in Traces(n, T, d, step) /\ F[1 .. n] = states[n]
  BY <1>1, <1>4, <1>5, <1>9, <1>10, FoldTrace
<1>12. \A k \in 0 .. n : states[k] \in T
  BY <1>11 DEF Traces
<1>13. states[0] = d /\ states[n] = InsertPairs(d, e, n)
  BY <1>2, <1>11 DEF Traces
<1>14. ASSUME NEW k \in 1 .. n PROVE states[k] = InsertPair(states[k - 1], e, UpdatePairs(e)[k])
  <2>1. k - 1 \in 0 .. n
    BY <1>1
  <2>2. states[k] = step[<< k, states[k - 1] >>]
    BY <1>11 DEF Traces
  <2>3. states[k] = Op(states[k - 1], pairs[k])
    BY <1>5, <1>12, <2>1, <2>2
  <2>4. QED BY <1>1, <2>3 DEF Op
<1>15. \A k \in 0 .. n : SourceInv(states[k]) /\ SameStores(d, states[k])
  BY <1>12 DEF T
<1>16. PairTrace(states, d, e, n)
  BY <1>13, <1>14, <1>15 DEF PairTrace
<1>17. QED BY <1>16

LEMMA PairsInserted ==
  ASSUME NEW d, SourceInv(d), NEW e \in Event, NEW n \in 0 .. e.last - e.first + 1
  PROVE  SourceInv(InsertPairs(d, e, n)) /\ SameStores(d, InsertPairs(d, e, n))
<1>1. PICK states : PairTrace(states, d, e, n)
  BY PairsTraced
<1>2. n \in Nat /\ n \in 0 .. n
  BY PairFacts
<1>3. QED BY <1>1, <1>2 DEF PairTrace

LEMMA UpdateKeeps ==
  ASSUME NEW d, SourceInv(d), NEW e \in Event
  PROVE  SourceInv(UpdateFrom(d, e)) /\ SameStores(d, UpdateFrom(d, e))
<1> DEFINE m == e.last - e.first + 1
<1>1. m \in 0 .. m /\ m \in 0 .. e.last - e.first + 1
  BY EventFacts
<1>2. UpdateFrom(d, e) = InsertPairs(d, e, m)
  BY <1>1, PairFacts DEF UpdateFrom
<1> HIDE DEF m
<1>3. QED BY <1>1, <1>2, PairsInserted

\* A write that fails leaves the logs longer by placeholders at most: the block log
\* is still not ahead, since the failing block's leaf is there.
LEMMA LeafInsertFails ==
  ASSUME NEW d, SourceInv(d), NEW h \in Heights, NEW k \in 0 .. h - NextPos(d.leaf_storage)
  PROVE  SourceInv(InsertLeafFailing(d, h, k)) /\ SameStores(d, InsertLeafFailing(d, h, k))
<1> DEFINE l == d.leaf_storage
           m == InsertFailing(l, h, h, k)
<1>1. LogInv(l) /\ LogsInv(d) /\ h \in Nat
  BY HeightsAreNatural DEF SourceInv, LogsInv
<1>2. /\ LogInv(m) /\ m.store = l.store
      /\ Held(m) \subseteq Held(l) \cup {None}
      /\ NextPos(m) \in NextPos(l) .. h
  BY <1>1, InsertFailingKeeps
<1> HIDE DEF m
<1>3. NextPos(d.block_storage) <= NextPos(m) /\ Len(d.block_storage.store) <= Len(m.store)
  <2> DEFINE b == NextPos(d.block_storage)
             p == NextPos(l)
             q == NextPos(m)
  <2>1. b \in Nat /\ p \in Nat /\ b <= p /\ q \in p .. h
    BY <1>1, <1>2, LengthsAre DEF LogsInv
  <2> HIDE DEF b, p, q
  <2>2. b <= q
    BY <1>1, <2>1
  <2>3. QED BY <1>1, <1>2, <2>2 DEF LogsInv, b, q
<1>4. InsertLeafFailing(d, h, k) = [ d EXCEPT !.leaf_storage = m ]
  BY DEF InsertLeafFailing, m
<1>5. QED BY <1>2, <1>3, <1>4, LeafLogReplaced DEF SameStores

LEMMA BlockInsertFails ==
  ASSUME NEW d, SourceInv(d), NEW h \in Heights, h < NextPos(d.leaf_storage),
         NEW k \in 0 .. h - NextPos(d.block_storage)
  PROVE  SourceInv(InsertBlockFailing(d, h, k)) /\ SameStores(d, InsertBlockFailing(d, h, k))
<1> DEFINE l == d.block_storage
           m == InsertFailing(l, h, h, k)
<1>1. LogInv(l) /\ LogsInv(d) /\ h \in Nat
  BY HeightsAreNatural DEF SourceInv, LogsInv
<1>2. /\ LogInv(m) /\ m.store = l.store
      /\ Held(m) \subseteq Held(l) \cup {None}
      /\ NextPos(m) \in NextPos(l) .. h
  BY <1>1, InsertFailingKeeps
<1> HIDE DEF m
<1>3. NextPos(m) <= NextPos(d.leaf_storage) /\ Len(m.store) <= Len(d.leaf_storage.store)
  <2> DEFINE b == NextPos(l)
             p == NextPos(d.leaf_storage)
             q == NextPos(m)
  <2>1. b \in Nat /\ p \in Nat /\ h < p /\ q \in b .. h
    BY <1>1, <1>2, LengthsAre
  <2> HIDE DEF b, p, q
  <2>2. q <= p
    BY <1>1, <2>1
  <2>3. QED BY <1>1, <1>2, <2>2 DEF LogsInv, p, q
<1>4. InsertBlockFailing(d, h, k) = [ d EXCEPT !.block_storage = m ]
  BY DEF InsertBlockFailing, m
<1>5. QED BY <1>2, <1>3, <1>4, BlockLogReplaced DEF SameStores

LEMMA UpdateFailsKeeps ==
  ASSUME NEW d, SourceInv(d), NEW e \in Event, NEW x \in FailedUpdates(d, e)
  PROVE  SourceInv(x) /\ SameStores(d, x)
<1> DEFINE Leaves(b, g) == { InsertLeafFailing(b, g, k) : k \in 0 .. g - NextPos(b.leaf_storage) }
           Blocks(y, g) == { InsertBlockFailing(y, g, k) : k \in 0 .. g - NextPos(y.block_storage) }
           Failed(b, g) == Leaves(b, g) \cup IF g \in e.payloads THEN Blocks(InsertLeaf(b, g), g) ELSE {}
<1>0. FailedUpdates(d, e) = UNION { Failed(InsertPairs(d, e, n), e.first + n) : n \in 0 .. e.last - e.first }
  BY DEF FailedUpdates
<1> HIDE DEF Leaves, Blocks
<1>1. PICK n \in 0 .. e.last - e.first : x \in Failed(InsertPairs(d, e, n), e.first + n)
  <2> HIDE DEF Failed
  <2>1. QED BY <1>0
<1> DEFINE before == InsertPairs(d, e, n)
           h == e.first + n
           stored == InsertLeaf(before, h)
<1>2. h \in Heights /\ n \in 0 .. e.last - e.first + 1
  BY EventFacts DEF Heights
<1>3. SourceInv(before) /\ SameStores(d, before)
  BY <1>2, PairsInserted
<1> HIDE DEF before, h
<1>4. SourceInv(stored) /\ SameStores(before, stored) /\ h < NextPos(stored.leaf_storage)
  BY <1>2, <1>3, LeafInserted
<1> HIDE DEF stored
<1>5. \/ \E k \in 0 .. h - NextPos(before.leaf_storage) : x = InsertLeafFailing(before, h, k)
      \/ \E k \in 0 .. h - NextPos(stored.block_storage) : x = InsertBlockFailing(stored, h, k)
  <2>1. x \in Leaves(before, h) \/ x \in Blocks(stored, h)
    BY <1>1 DEF before, h, stored
  <2>2. QED BY <2>1 DEF Leaves, Blocks
<1>6. CASE \E k \in 0 .. h - NextPos(before.leaf_storage) : x = InsertLeafFailing(before, h, k)
  <2>1. PICK k \in 0 .. h - NextPos(before.leaf_storage) : x = InsertLeafFailing(before, h, k)
    BY <1>6
  <2>2. SourceInv(x) /\ SameStores(before, x)
    BY <1>2, <1>3, <2>1, LeafInsertFails
  <2>3. QED BY <1>3, <2>2 DEF SameStores
<1>7. CASE \E k \in 0 .. h - NextPos(stored.block_storage) : x = InsertBlockFailing(stored, h, k)
  <2>1. PICK k \in 0 .. h - NextPos(stored.block_storage) : x = InsertBlockFailing(stored, h, k)
    BY <1>7
  <2>2. SourceInv(x) /\ SameStores(stored, x)
    BY <1>2, <1>4, <2>1, BlockInsertFails
  <2>3. QED BY <1>3, <1>4, <2>2 DEF SameStores
<1>8. QED BY <1>5, <1>6, <1>7

-----------------------------------------------------------------------------
(* What an update brings, and where, when its event follows the leaf log. *)

\* The objects H at most, and placeholders, are new in the logs.
Brings(d, x, H) ==
  /\ Held(x.leaf_storage)  \subseteq Held(d.leaf_storage)  \cup H \cup {None}
  /\ Held(x.block_storage) \subseteq Held(d.block_storage) \cup H \cup {None}

CachesAreWritten(d) == CacheIsWritten(d.leaf_storage) /\ CacheIsWritten(d.block_storage)

\* What is written stays written.
WritesMore(d, x) ==
  /\ WrittenIn(d.leaf_storage)  \subseteq WrittenIn(x.leaf_storage)
  /\ WrittenIn(d.block_storage) \subseteq WrittenIn(x.block_storage)

LEMMA PairBrings ==
  ASSUME NEW d, SourceInv(d), NEW e, NEW pair, pair.leaf \in Heights
  PROVE  LET y == InsertPair(d, e, pair) IN
         /\ Brings(d, y, {pair.leaf})
         /\ CachesAreWritten(d) /\ pair.leaf >= NextPos(d.leaf_storage) =>
              /\ CachesAreWritten(y)
              /\ NextPos(y.leaf_storage) = pair.leaf + 1
              /\ WritesMore(d, y)
              /\ pair.leaf \in WrittenIn(y.leaf_storage)
<1> DEFINE h == pair.leaf
           l == d.leaf_storage
           b == d.block_storage
           m == InsertObject(l, h, h)
           k == InsertObject(b, h, h)
           x == InsertLeaf(d, h)
           z == InsertBlock(x, h)
           y == InsertPair(d, e, pair)
           ordered == CachesAreWritten(d) /\ h >= NextPos(l)
<1>1. h \in Heights /\ h \in Nat
  BY HeightsAreNatural
<1>2. LogInv(l) /\ LogInv(b) /\ NextPos(b) <= NextPos(l) /\ NextPos(b) \in Nat /\ NextPos(l) \in Nat
  BY LengthsAre DEF SourceInv, LogsInv
<1> HIDE DEF h
<1>3. SourceInv(x) /\ x.leaf_storage = m /\ x.block_storage = b /\ h < NextPos(x.leaf_storage)
  BY <1>1, LeafInserted
<1> HIDE DEF x
<1>4. z.block_storage = k /\ z.leaf_storage = m
  BY <1>1, <1>3, BlockInserted
<1> HIDE DEF z
<1>5. y.leaf_storage = m /\ y.block_storage \in {b, k}
  <2>1. y = IF h \in e.payloads THEN z ELSE x
    BY DEF InsertPair, h, x, z
  <2> HIDE DEF y
  <2>2. QED BY <1>3, <1>4, <2>1
<1> HIDE DEF y
<1>6. /\ Held(m) \subseteq Held(l) \cup {h, None} /\ Held(k) \subseteq Held(b) \cup {h, None}
      /\ h >= NextPos(l) => NextPos(m) = h + 1
  BY <1>1, <1>2, InsertHolds
<1>7. ASSUME ordered
      PROVE  /\ CacheIsWritten(l) /\ CacheIsWritten(b) /\ CacheIsWritten(m) /\ CacheIsWritten(k)
             /\ WrittenIn(l) \subseteq WrittenIn(m) /\ h \in WrittenIn(m)
             /\ WrittenIn(b) \subseteq WrittenIn(k)
  <2>1. h >= NextPos(l) /\ CacheIsWritten(l) /\ CacheIsWritten(b)
    BY <1>7 DEF CachesAreWritten
  <2>2. h >= NextPos(b)
    <3> DEFINE p == NextPos(l)
               q == NextPos(b)
    <3>1. q <= p /\ p \in Nat /\ q \in Nat /\ h >= p
      BY <1>2, <2>1
    <3> HIDE DEF p, q
    <3>2. h >= q
      BY <1>1, <3>1
    <3>3. QED BY <3>2 DEF q
  <2> HIDE DEF l, b
  <2>3. QED BY <1>1, <1>2, <2>1, <2>2, InsertWrites
<1> HIDE DEF m, k
<1>8. Brings(d, y, {h})
  BY <1>5, <1>6 DEF Brings
<1>9. ordered => /\ CachesAreWritten(y) /\ NextPos(y.leaf_storage) = h + 1
                 /\ WritesMore(d, y) /\ h \in WrittenIn(y.leaf_storage)
  BY <1>5, <1>6, <1>7 DEF CachesAreWritten, WritesMore
<1>10. QED BY <1>8, <1>9 DEF y, h

LEMMA PairsBring ==
  ASSUME NEW d, SourceInv(d), NEW e \in Event, NEW n \in 0 .. e.last - e.first + 1
  PROVE  LET y == InsertPairs(d, e, n) IN
         /\ Brings(d, y, e.first .. e.last)
         /\ CachesAreWritten(d) /\ e.first >= NextPos(d.leaf_storage) =>
              /\ CachesAreWritten(y)
              /\ WritesMore(d, y)
              /\ n > 0 => NextPos(y.leaf_storage) = e.first + n
              /\ e.first .. e.first + n - 1 \subseteq WrittenIn(y.leaf_storage)
<1> DEFINE range == e.first .. e.last
           ordered == CachesAreWritten(d) /\ e.first >= NextPos(d.leaf_storage)
           InOrder(x, k) == /\ CachesAreWritten(x) /\ WritesMore(d, x)
                            /\ IF k > 0 THEN NextPos(x.leaf_storage) = e.first + k ELSE x = d
                            /\ e.first .. e.first + k - 1 \subseteq WrittenIn(x.leaf_storage)
<1>1. PICK states : PairTrace(states, d, e, n)
  BY PairsTraced
<1>2. /\ n \in Nat /\ e.first \in Nat /\ e.last \in Nat /\ e.first <= e.last /\ n <= e.last - e.first + 1
      /\ \A k \in 1 .. n : UpdatePairs(e)[k].leaf = e.first + k - 1 /\ e.first + k - 1 \in Heights
  <2>1. e.first \in Nat /\ e.last \in Nat /\ e.first <= e.last
    BY EventFacts
  <2>2. n \in Nat /\ n <= e.last - e.first + 1
    BY <2>1
  <2>3. \A k \in 1 .. n : UpdatePairs(e)[k].leaf = e.first + k - 1 /\ e.first + k - 1 \in Heights
    BY PairFacts
  <2>4. QED BY <2>1, <2>2, <2>3
<1> DEFINE S == { k \in 0 .. n : Brings(d, states[k], range) /\ (ordered => InOrder(states[k], k)) }
<1>3. 0 \in S
  <2>1. states[0] = d
    BY <1>1 DEF PairTrace
  <2>2. Brings(d, d, range)
    BY DEF Brings
  <2>3. e.first .. e.first + 0 - 1 = {}
    BY <1>2
  <2>4. ordered => InOrder(d, 0)
    BY <2>3 DEF WritesMore
  <2>5. 0 \in 0 .. n
    BY <1>2
  <2> HIDE DEF ordered, InOrder, range
  <2>6. QED BY <2>1, <2>2, <2>4, <2>5
<1>4. ASSUME NEW k \in 0 .. n - 1, k \in S PROVE k + 1 \in S
  <2> DEFINE x == states[k]
             y == states[k + 1]
             pair == UpdatePairs(e)[k + 1]
  <2>1. k + 1 \in 1 .. n /\ k + 1 \in 0 .. n /\ k \in 0 .. n /\ k + 1 - 1 = k /\ k \in Nat
    BY <1>2
  <2>2. SourceInv(x) /\ y = InsertPair(x, e, pair)
    BY <1>1, <2>1 DEF PairTrace
  <2>3. pair.leaf = e.first + k /\ e.first + k \in Heights /\ e.first + k \in range
    BY <1>2, <2>1
  <2>4. Brings(d, x, range) /\ (ordered => InOrder(x, k))
    BY <1>4
  <2> HIDE DEF x, y, pair
  <2>5. /\ Brings(x, y, {pair.leaf})
        /\ CachesAreWritten(x) /\ pair.leaf >= NextPos(x.leaf_storage) =>
              /\ CachesAreWritten(y)
              /\ NextPos(y.leaf_storage) = pair.leaf + 1
              /\ WritesMore(x, y)
              /\ pair.leaf \in WrittenIn(y.leaf_storage)
    BY <2>2, <2>3, PairBrings
  <2>6. Brings(d, y, range)
    BY <2>3, <2>4, <2>5 DEF Brings
  <2>7. ASSUME ordered PROVE InOrder(y, k + 1)
    <3>1. CachesAreWritten(x) /\ WritesMore(d, x) /\ e.first .. e.first + k - 1 \subseteq WrittenIn(x.leaf_storage)
      BY <2>4, <2>7
    <3>2. pair.leaf >= NextPos(x.leaf_storage)
      <4>1. CASE k = 0
        BY <1>2, <2>3, <2>4, <2>7, <4>1
      <4>2. CASE k > 0
        BY <1>2, <2>1, <2>3, <2>4, <2>7, <4>2
      <4>3. QED BY <2>1, <4>1, <4>2
    <3>3. /\ CachesAreWritten(y) /\ NextPos(y.leaf_storage) = e.first + (k + 1)
          /\ WritesMore(x, y)
          /\ e.first + k \in WrittenIn(y.leaf_storage)
      <4>1. pair.leaf + 1 = e.first + (k + 1)
        BY <1>2, <2>1, <2>3
      <4>2. QED BY <2>3, <2>5, <3>1, <3>2, <4>1
    <3>4. \A h \in e.first .. e.first + (k + 1) - 1 : h \in e.first .. e.first + k - 1 \/ h = e.first + k
      BY <1>2, <2>1
    <3>5. e.first .. e.first + (k + 1) - 1 \subseteq WrittenIn(y.leaf_storage)
      BY <3>1, <3>3, <3>4 DEF WritesMore
    <3>6. k + 1 > 0
      BY <2>1
    <3>7. WritesMore(d, y)
      BY <3>1, <3>3 DEF WritesMore
    <3>8. QED BY <3>3, <3>5, <3>6, <3>7
  <2> HIDE DEF ordered, InOrder, range
  <2>8. QED BY <2>1, <2>6, <2>7 DEF y
<1> HIDE DEF S
<1>5. n \in S
  <2>1. \A k \in 0 .. n : k \in S
    BY <1>2, <1>3, <1>4, Induction
  <2>2. QED BY <1>2, <2>1
<1>6. states[n] = InsertPairs(d, e, n)
  BY <1>1 DEF PairTrace
<1> HIDE DEF InOrder, ordered, range
<1>7. Brings(d, states[n], range) /\ (ordered => InOrder(states[n], n))
  BY <1>5 DEF S
<1>8. QED BY <1>6, <1>7 DEF InOrder, ordered, range

LEMMA UpdateInOrder ==
  ASSUME NEW d, SourceInv(d), NEW e \in Event, CachesAreWritten(d), e.first >= NextPos(d.leaf_storage)
  PROVE  LET y == UpdateFrom(d, e) IN
         /\ Brings(d, y, e.first .. e.last)
         /\ CachesAreWritten(y) /\ WritesMore(d, y) /\ NextPos(y.leaf_storage) = e.last + 1
         /\ e.first .. e.last \subseteq WrittenIn(y.leaf_storage)
<1> DEFINE m == e.last - e.first + 1
           y == InsertPairs(d, e, m)
<1>1. /\ m \in 0 .. m /\ m \in 0 .. e.last - e.first + 1 /\ m > 0
      /\ e.first + m = e.last + 1 /\ e.first + m - 1 = e.last
  BY EventFacts
<1>2. UpdateFrom(d, e) = y
  BY <1>1, PairFacts DEF UpdateFrom
<1>3. m \in 0 .. e.last - e.first + 1
  BY <1>1
<1> HIDE DEF m
<1>4. /\ Brings(d, y, e.first .. e.last)
      /\ CachesAreWritten(y) /\ WritesMore(d, y)
      /\ m > 0 => NextPos(y.leaf_storage) = e.first + m
      /\ e.first .. e.first + m - 1 \subseteq WrittenIn(y.leaf_storage)
  BY <1>3, PairsBring
<1> HIDE DEF y
<1>5. QED BY <1>1, <1>2, <1>4

\* An update that fails brings no more.
LEMMA FailedUpdateBrings ==
  ASSUME NEW d, SourceInv(d), NEW e \in Event, NEW x \in FailedUpdates(d, e)
  PROVE  Brings(d, x, e.first .. e.last)
<1> DEFINE Leaves(b, g) == { InsertLeafFailing(b, g, k) : k \in 0 .. g - NextPos(b.leaf_storage) }
           Blocks(y, g) == { InsertBlockFailing(y, g, k) : k \in 0 .. g - NextPos(y.block_storage) }
           Failed(b, g) == Leaves(b, g) \cup IF g \in e.payloads THEN Blocks(InsertLeaf(b, g), g) ELSE {}
           range == e.first .. e.last
<1>0. FailedUpdates(d, e) = UNION { Failed(InsertPairs(d, e, n), e.first + n) : n \in 0 .. e.last - e.first }
  BY DEF FailedUpdates
<1> HIDE DEF Leaves, Blocks
<1>1. PICK n \in 0 .. e.last - e.first : x \in Failed(InsertPairs(d, e, n), e.first + n)
  <2> HIDE DEF Failed
  <2>1. QED BY <1>0
<1> DEFINE before == InsertPairs(d, e, n)
           h == e.first + n
           stored == InsertLeaf(before, h)
<1>2. h \in Heights /\ h \in Nat /\ h \in range /\ n \in 0 .. e.last - e.first + 1
  BY EventFacts DEF Heights
<1> HIDE DEF range
<1>3. SourceInv(before) /\ Brings(d, before, range)
  BY <1>2, PairsInserted, PairsBring DEF range
<1> HIDE DEF before, h
<1>4. /\ SourceInv(stored) /\ stored.block_storage = before.block_storage
      /\ Held(stored.leaf_storage) \subseteq Held(before.leaf_storage) \cup {h, None}
      /\ LogInv(before.leaf_storage) /\ LogInv(before.block_storage) /\ LogInv(stored.block_storage)
      /\ before \in DataSource /\ stored \in DataSource
  <2>1. LogInv(before.leaf_storage) /\ LogInv(before.block_storage)
    BY <1>3 DEF SourceInv, LogsInv
  <2>2. /\ SourceInv(stored) /\ stored.block_storage = before.block_storage
        /\ stored.leaf_storage = InsertObject(before.leaf_storage, h, h)
    BY <1>2, <1>3, LeafInserted
  <2>3. Held(InsertObject(before.leaf_storage, h, h)) \subseteq Held(before.leaf_storage) \cup {h, None}
    BY <1>2, <2>1, InsertHolds
  <2>4. QED BY <1>3, <2>1, <2>2, <2>3 DEF SourceInv
<1> HIDE DEF stored
<1>5. \/ \E k \in 0 .. h - NextPos(before.leaf_storage) : x = InsertLeafFailing(before, h, k)
      \/ \E k \in 0 .. h - NextPos(stored.block_storage) : x = InsertBlockFailing(stored, h, k)
  <2>1. x \in Leaves(before, h) \/ x \in Blocks(stored, h)
    BY <1>1 DEF before, h, stored
  <2>2. QED BY <2>1 DEF Leaves, Blocks
<1>6. CASE \E k \in 0 .. h - NextPos(before.leaf_storage) : x = InsertLeafFailing(before, h, k)
  <2>1. PICK k \in 0 .. h - NextPos(before.leaf_storage) : x = InsertLeafFailing(before, h, k)
    BY <1>6
  <2> DEFINE m == InsertFailing(before.leaf_storage, h, h, k)
  <2>2. Held(m) \subseteq Held(before.leaf_storage) \cup {None}
    BY <1>2, <1>4, InsertFailingKeeps
  <2>3. x = [ before EXCEPT !.leaf_storage = m ]
    BY <2>1 DEF InsertLeafFailing
  <2> HIDE DEF m
  <2>4. x.leaf_storage = m /\ x.block_storage = before.block_storage
    BY <1>4, <2>3 DEF DataSource
  <2>5. QED BY <1>3, <2>2, <2>4 DEF Brings, range
<1>7. CASE \E k \in 0 .. h - NextPos(stored.block_storage) : x = InsertBlockFailing(stored, h, k)
  <2>1. PICK k \in 0 .. h - NextPos(stored.block_storage) : x = InsertBlockFailing(stored, h, k)
    BY <1>7
  <2> DEFINE m == InsertFailing(stored.block_storage, h, h, k)
  <2>2. Held(m) \subseteq Held(stored.block_storage) \cup {None}
    BY <1>2, <1>4, InsertFailingKeeps
  <2>3. x = [ stored EXCEPT !.block_storage = m ]
    BY <2>1 DEF InsertBlockFailing
  <2> HIDE DEF m
  <2>4. x.block_storage = m /\ x.leaf_storage = stored.leaf_storage
    BY <1>4, <2>3 DEF DataSource
  <2>5. QED BY <1>2, <1>3, <1>4, <2>2, <2>4 DEF Brings, range
<1>8. QED BY <1>5, <1>6, <1>7

-----------------------------------------------------------------------------
(***************************************************************************)
(* What is indexed.  As long as events come in order, and nothing is       *)
(* reverted, every height that an index leads to is written in the log,    *)
(* and the proposals of a proposer are listed by height.  With the         *)
(* invariant above, which is the other direction, the logs determine the   *)
(* indices.                                                                *)
(***************************************************************************)
Ascends(s) == \A i, j \in 1 .. Len(s) : i < j => s[i] < s[j]

\* The indices lead to leaves in L and blocks in B only.
HashesWithin(index, L) == \A x \in Hashes : \A g \in Heights : index[x] = << g >> => g \in L

PlacesWithin(index, B) ==
  \A t \in Transactions : \A g \in Heights : \A i \in Nat : index[t] = << g, i >> => g \in B

ListsWithin(index, L) == \A p \in Proposers : Ascends(index[p]) /\ Entries(index[p]) \subseteq L

IndexedWithin(d, L, B) ==
  /\ d.index_by_leaf_hash \subseteq L
  /\ HashesWithin(d.index_by_block_hash, L)
  /\ PlacesWithin(d.index_by_txn_hash, B)
  /\ ListsWithin(d.index_by_proposer_id, L)

IndexedAreWritten(d) == IndexedWithin(d, WrittenIn(d.leaf_storage), WrittenIn(d.block_storage))

SameIndices(d, n) ==
  /\ n.index_by_leaf_hash = d.index_by_leaf_hash
  /\ n.index_by_block_hash = d.index_by_block_hash
  /\ n.index_by_txn_hash = d.index_by_txn_hash
  /\ n.index_by_proposer_id = d.index_by_proposer_id

LEMMA IndexedStays ==
  ASSUME NEW d, IndexedAreWritten(d), NEW n, SameIndices(d, n), WritesMore(d, n)
  PROVE  IndexedAreWritten(n)
BY DEF IndexedAreWritten, IndexedWithin, HashesWithin, PlacesWithin, ListsWithin, SameIndices, WritesMore

\* A leaf that is appended to its log, and its block, are indexed at their height.
LEMMA ListAscends ==
  ASSUME NEW s \in Seq(Heights), Ascends(s), NEW h \in Heights, \A g \in Entries(s) : g < h
  PROVE  Ascends(Append(s, h))
<1> DEFINE n == Len(s)
           t == Append(s, h)
<1>1. n \in Nat /\ Len(t) = n + 1 /\ t[n + 1] = h /\ \A i \in 1 .. n : t[i] = s[i]
  BY AppendProperties, LenProperties
<1>2. \A i \in 1 .. n : s[i] < h
  BY DEF Entries
<1>3. \A i, j \in 1 .. n : i < j => s[i] < s[j]
  BY DEF Ascends
<1> HIDE DEF t, n
<1>4. ASSUME NEW i \in 1 .. n + 1, NEW j \in 1 .. n + 1, i < j PROVE t[i] < t[j]
  <2>1. i \in 1 .. n /\ (j \in 1 .. n \/ j = n + 1)
    BY <1>1, <1>4
  <2>2. CASE j \in 1 .. n
    BY <1>1, <1>3, <1>4, <2>1, <2>2
  <2>3. CASE j = n + 1
    BY <1>1, <1>2, <2>1, <2>3
  <2>4. QED BY <2>1, <2>2, <2>3
<1>5. QED BY <1>1, <1>4 DEF Ascends, t

LEMMA LeafIndexedWithin ==
  ASSUME NEW d \in DataSource, NEW L, NEW B, IndexedWithin(d, L, B), NEW h \in Heights,
         \A g \in L : g # None => g < h
  PROVE  IndexedWithin(IndexLeaf(d, h), L \cup {h}, B)
<1> DEFINE y == IndexLeaf(d, h)
           q == Proposer[h]
<1>1. /\ d.index_by_block_hash \in HashIndex /\ d.index_by_proposer_id \in ProposerIndex
  BY DEF DataSource, HashIndex, ProposerIndex
<1>2. /\ y.index_by_leaf_hash = d.index_by_leaf_hash \cup {h}
      /\ y.index_by_block_hash = UpdateIndexByHash(d.index_by_block_hash, BlockHash[h], << h >>)
      /\ y.index_by_txn_hash = d.index_by_txn_hash
      /\ y.index_by_proposer_id = [ d.index_by_proposer_id EXCEPT ![q] = Append(@, h) ]
  BY DEF IndexLeaf, DataSource
<1> HIDE DEF y
<1>3. HashesWithin(y.index_by_block_hash, L \cup {h})
  <2> DEFINE ix == d.index_by_block_hash
             nx == UpdateIndexByHash(ix, BlockHash[h], << h >>)
  <2>1. \A x \in Hashes : nx[x] = ix[x] \/ nx[x] = << h >>
    BY <1>1 DEF UpdateIndexByHash, HashIndex
  <2>2. HashesWithin(ix, L)
    BY DEF IndexedWithin
  <2> HIDE DEF ix, nx
  <2>3. ASSUME NEW x \in Hashes, NEW g \in Heights, nx[x] = << g >> PROVE g \in L \cup {h}
    <3>1. CASE nx[x] = ix[x]
      BY <2>2, <2>3, <3>1 DEF HashesWithin
    <3>2. CASE nx[x] = << h >>
      BY <2>3, <3>2
    <3>3. QED BY <2>1, <3>1, <3>2
  <2>4. QED BY <1>2, <2>3 DEF HashesWithin, nx, ix
<1>4. ListsWithin(y.index_by_proposer_id, L \cup {h})
  <2> DEFINE ix == d.index_by_proposer_id
             nx == [ ix EXCEPT ![q] = Append(@, h) ]
  <2>1. q \in Proposers /\ h \in Nat
    BY HeightsAreNatural DEF Proposers
  <2>2. ASSUME NEW p \in Proposers PROVE Ascends(nx[p]) /\ Entries(nx[p]) \subseteq L \cup {h}
    <3>1. ix[p] \in Seq(Heights) /\ Ascends(ix[p]) /\ Entries(ix[p]) \subseteq L
      BY <1>1 DEF IndexedWithin, ListsWithin, ProposerIndex
    <3>2. nx[p] = IF p = q THEN Append(ix[p], h) ELSE ix[p]
      BY <1>1, <2>1 DEF ProposerIndex
    <3>3. \A g \in Entries(ix[p]) : g < h
      <4>1. \A g \in Entries(ix[p]) : g \in Heights
        BY <3>1, LenProperties, ElementOfSeq DEF Entries
      <4>2. QED BY <3>1, <4>1, HeightsAreNatural, NoneAssumption
    <3> HIDE DEF nx, ix
    <3>4. Ascends(Append(ix[p], h))
      BY <3>1, <3>3, ListAscends
    <3>5. Entries(Append(ix[p], h)) = Entries(ix[p]) \cup {h}
      BY <3>1, EntriesAppend
    <3>6. CASE p = q
      <4>1. nx[p] = Append(ix[p], h)
        BY <3>2, <3>6
      <4>2. QED BY <3>1, <3>4, <3>5, <4>1
    <3>7. CASE p # q
      <4>1. nx[p] = ix[p]
        BY <3>2, <3>7
      <4>2. QED BY <3>1, <4>1
    <3>8. QED BY <3>6, <3>7
  <2> HIDE DEF nx
  <2>3. ListsWithin(nx, L \cup {h})
    BY <2>2 DEF ListsWithin
  <2>4. QED BY <1>2, <2>3 DEF nx
<1>5. QED BY <1>2, <1>3, <1>4 DEF IndexedWithin, y

LEMMA BlockIndexedWithin ==
  ASSUME NEW d \in DataSource, IndicesRight(d), NEW L, NEW B, IndexedWithin(d, L, B), NEW h \in Heights
  PROVE  IndexedWithin(IndexBlock(d, h), L, B \cup {h})
<1> DEFINE y == IndexBlock(d, h)
           ix == d.index_by_txn_hash
           nx == FoldLeftDomain(LAMBDA index, i : UpdateIndexByHash(index, Payload[h][i], << h, i >>), ix, Payload[h])
<1>1. ix \in TransactionIndex /\ TransactionIndexRight(ix)
  BY DEF DataSource, TransactionIndex, IndicesRight
<1>2. IndexedFrom(ix, h, nx)
  BY <1>1, PayloadIndexed
<1>3. /\ y.index_by_leaf_hash = d.index_by_leaf_hash
      /\ y.index_by_block_hash = d.index_by_block_hash
      /\ y.index_by_txn_hash = nx
      /\ y.index_by_proposer_id = d.index_by_proposer_id
  BY DEF IndexBlock, DataSource
<1> HIDE DEF y, nx, ix
<1>4. PlacesWithin(ix, B)
  BY DEF IndexedWithin, ix
<1>5. ASSUME NEW t \in Transactions, NEW g \in Heights, NEW i \in Nat, nx[t] = << g, i >>
      PROVE  g \in B \cup {h}
  <2>1. CASE nx[t] = ix[t]
    BY <1>4, <1>5, <2>1 DEF PlacesWithin
  <2>2. CASE \E j \in DOMAIN Payload[h] : nx[t] = << h, j >>
    <3>1. PICK j \in DOMAIN Payload[h] : nx[t] = << h, j >>
      BY <2>2
    <3>2. g = h
      BY <1>5, <3>1
    <3>3. QED BY <3>2
  <2>3. QED BY <1>2, <2>1, <2>2 DEF IndexedFrom
<1>6. PlacesWithin(y.index_by_txn_hash, B \cup {h})
  BY <1>3, <1>5 DEF PlacesWithin
<1>7. QED BY <1>3, <1>6 DEF IndexedWithin, y

LEMMA MoreWithin ==
  ASSUME NEW d, NEW L, NEW B, IndexedWithin(d, L, B), NEW M, NEW C, L \subseteq M, B \subseteq C
  PROVE  IndexedWithin(d, M, C)
BY DEF IndexedWithin, HashesWithin, PlacesWithin, ListsWithin

LEMMA SameWithin ==
  ASSUME NEW d, NEW L, NEW B, IndexedWithin(d, L, B), NEW n, SameIndices(d, n)
  PROVE  IndexedWithin(n, L, B)
BY DEF IndexedWithin, HashesWithin, PlacesWithin, ListsWithin, SameIndices

LEMMA WrittenBefore ==
  ASSUME NEW l, LogInv(l), NEW g \in WrittenIn(l), g # None
  PROVE  g \in Nat /\ g < NextPos(l)
<1>1. CASE g \in Entries(l.store)
  <2> DEFINE c == Len(l.store)
             n == NextPos(l)
  <2>1. g \in Nat /\ g < c
    BY <1>1, StoredObject
  <2>2. c \in Nat /\ n \in Nat /\ c <= n
    <3> DEFINE a == Len(l.appended)
    <3>1. n = c + a /\ a \in Nat /\ c \in Nat
      BY LogParts
    <3> HIDE DEF a, c, n
    <3>2. QED BY <3>1
  <2> HIDE DEF c, n
  <2>3. g < n
    BY <2>1, <2>2
  <2>4. QED BY <2>1, <2>3 DEF n
<1>2. CASE g \in Entries(l.appended)
  BY <1>2, AppendedObject
<1>3. QED BY <1>1, <1>2 DEF WrittenIn

LEMMA LeafIndexedInOrder ==
  ASSUME NEW d, SourceInv(d), IndexedAreWritten(d), NEW h \in Heights, h >= NextPos(d.leaf_storage)
  PROVE  IndexedAreWritten(InsertLeaf(d, h))
<1> DEFINE l == d.leaf_storage
           m == InsertObject(l, h, h)
           L == WrittenIn(l)
           B == WrittenIn(d.block_storage)
           x == [ d EXCEPT !.leaf_storage = m ]
           y == InsertLeaf(d, h)
<1>1. LogInv(l) /\ NextPos(l) \in Nat /\ h \in Nat /\ d \in DataSource /\ IndexedWithin(d, L, B)
  BY LengthsAre, HeightsAreNatural DEF SourceInv, LogsInv, IndexedAreWritten
<1>2. LogInv(m) /\ L \subseteq WrittenIn(m) /\ h \in WrittenIn(m)
  BY <1>1, InsertInv, InsertWrites
<1>3. \A g \in L : g # None => g < h
  <2> DEFINE p == NextPos(l)
  <2>1. p \in Nat /\ h >= p
    BY <1>1
  <2>2. \A g \in L : g # None => g \in Nat /\ g < p
    BY <1>1, WrittenBefore
  <2> HIDE DEF p, L
  <2>3. QED BY <1>1, <2>1, <2>2
<1> HIDE DEF m, L, B
<1>4. x \in DataSource /\ SameIndices(d, x)
  BY <1>1, <1>2 DEF DataSource, SameIndices, LogInv
<1>5. y = IndexLeaf(x, h)
  BY DEF InsertLeaf, m
<1>6. y.leaf_storage = m /\ y.block_storage = d.block_storage
  BY LeafInserted DEF m
<1> HIDE DEF x, y
<1>7. IndexedWithin(x, L, B)
  BY <1>1, <1>4, SameWithin
<1>8. IndexedWithin(y, L \cup {h}, B)
  BY <1>3, <1>4, <1>5, <1>7, LeafIndexedWithin
<1>9. L \cup {h} \subseteq WrittenIn(m)
  BY <1>2
<1>10. IndexedWithin(y, WrittenIn(m), B)
  BY <1>8, <1>9, MoreWithin
<1>11. QED BY <1>6, <1>10 DEF IndexedAreWritten, B, y

LEMMA BlockIndexedInOrder ==
  ASSUME NEW d, SourceInv(d), IndexedAreWritten(d), NEW h \in Heights, h < NextPos(d.leaf_storage),
         h >= NextPos(d.block_storage)
  PROVE  IndexedAreWritten(InsertBlock(d, h))
<1> DEFINE b == d.block_storage
           m == InsertObject(b, h, h)
           L == WrittenIn(d.leaf_storage)
           B == WrittenIn(b)
           x == [ d EXCEPT !.block_storage = m ]
           y == InsertBlock(d, h)
<1>1. LogInv(b) /\ h \in Nat /\ d \in DataSource /\ IndexedWithin(d, L, B) /\ IndicesRight(d)
  BY HeightsAreNatural DEF SourceInv, LogsInv, IndexedAreWritten
<1>2. LogInv(m) /\ B \subseteq WrittenIn(m) /\ h \in WrittenIn(m)
  BY <1>1, InsertInv, InsertWrites
<1> HIDE DEF m, L, B
<1>3. x \in DataSource /\ SameIndices(d, x)
  BY <1>1, <1>2 DEF DataSource, SameIndices, LogInv
<1>4. y = IndexBlock(x, h)
  BY DEF InsertBlock, m
<1>5. y.block_storage = m /\ y.leaf_storage = d.leaf_storage
  BY BlockInserted DEF m
<1> HIDE DEF x, y
<1>6. IndexedWithin(x, L, B) /\ IndicesRight(x)
  BY <1>1, <1>3, SameWithin DEF IndicesRight, SameIndices
<1>7. IndexedWithin(y, L, B \cup {h})
  BY <1>3, <1>4, <1>6, BlockIndexedWithin
<1>8. B \cup {h} \subseteq WrittenIn(m)
  BY <1>2
<1>9. IndexedWithin(y, L, WrittenIn(m))
  BY <1>7, <1>8, MoreWithin
<1>10. QED BY <1>5, <1>9 DEF IndexedAreWritten, L, y

LEMMA PairIndexed ==
  ASSUME NEW d, SourceInv(d), IndexedAreWritten(d), NEW e, NEW pair, pair.leaf \in Heights,
         pair.leaf >= NextPos(d.leaf_storage)
  PROVE  IndexedAreWritten(InsertPair(d, e, pair))
<1> DEFINE h == pair.leaf
           x == InsertLeaf(d, h)
<1>1. h \in Heights /\ h \in Nat /\ h >= NextPos(d.leaf_storage)
  BY HeightsAreNatural
<1>2. NextPos(d.leaf_storage) \in Nat /\ NextPos(d.block_storage) \in Nat
      /\ NextPos(d.block_storage) <= NextPos(d.leaf_storage)
  BY LengthsAre DEF SourceInv, LogsInv
<1> HIDE DEF h
<1>3. SourceInv(x) /\ x.block_storage = d.block_storage /\ h < NextPos(x.leaf_storage) /\ IndexedAreWritten(x)
  BY <1>1, LeafInserted, LeafIndexedInOrder
<1> HIDE DEF x
<1>4. h >= NextPos(x.block_storage)
  <2> DEFINE p == NextPos(d.leaf_storage)
             q == NextPos(d.block_storage)
  <2>1. p \in Nat /\ q \in Nat /\ q <= p /\ h >= p
    BY <1>1, <1>2
  <2> HIDE DEF p, q
  <2>2. h >= q
    BY <1>1, <2>1
  <2>3. QED BY <1>3, <2>2 DEF q
<1>5. IndexedAreWritten(InsertBlock(x, h))
  BY <1>1, <1>3, <1>4, BlockIndexedInOrder
<1>6. InsertPair(d, e, pair) = IF h \in e.payloads THEN InsertBlock(x, h) ELSE x
  BY DEF InsertPair, h, x
<1>7. QED BY <1>3, <1>5, <1>6

\* So are the leaves of an event that comes in order, all of them or the first n.
LEMMA PairsIndexed ==
  ASSUME NEW d, SourceInv(d), CachesAreWritten(d), IndexedAreWritten(d), NEW e \in Event,
         e.first >= NextPos(d.leaf_storage), NEW n \in 0 .. e.last - e.first + 1
  PROVE  LET y == InsertPairs(d, e, n) IN
         IndexedAreWritten(y) /\ CachesAreWritten(y) /\ NextPos(y.leaf_storage) <= e.first + n
<1> DEFINE Reached(x, k) == IndexedAreWritten(x) /\ CachesAreWritten(x) /\ NextPos(x.leaf_storage) <= e.first + k
<1>1. PICK states : PairTrace(states, d, e, n)
  BY PairsTraced
<1>2. /\ n \in Nat /\ e.first \in Nat /\ e.last \in Nat
      /\ \A k \in 1 .. n : UpdatePairs(e)[k].leaf = e.first + k - 1 /\ e.first + k - 1 \in Heights
  <2>1. e.first \in Nat /\ e.last \in Nat /\ e.first <= e.last
    BY EventFacts
  <2>2. n \in Nat
    BY <2>1
  <2>3. \A k \in 1 .. n : UpdatePairs(e)[k].leaf = e.first + k - 1 /\ e.first + k - 1 \in Heights
    BY PairFacts
  <2>4. QED BY <2>1, <2>2, <2>3
<1> DEFINE S == { k \in 0 .. n : Reached(states[k], k) }
<1>3. 0 \in S
  <2>1. states[0] = d /\ 0 \in 0 .. n /\ e.first + 0 = e.first
    BY <1>1, <1>2 DEF PairTrace
  <2>2. NextPos(d.leaf_storage) \in Nat
    BY LengthsAre DEF SourceInv
  <2>3. NextPos(d.leaf_storage) <= e.first + 0
    BY <1>2, <2>1, <2>2
  <2>4. QED BY <2>1, <2>3
<1>4. ASSUME NEW k \in 0 .. n - 1, k \in S PROVE k + 1 \in S
  <2> DEFINE x == states[k]
             y == states[k + 1]
             pair == UpdatePairs(e)[k + 1]
             p == NextPos(x.leaf_storage)
  <2>1. k + 1 \in 1 .. n /\ k + 1 \in 0 .. n /\ k \in 0 .. n /\ k + 1 - 1 = k /\ k \in Nat
    BY <1>2
  <2>2. SourceInv(x) /\ y = InsertPair(x, e, pair)
    BY <1>1, <2>1 DEF PairTrace
  <2>3. pair.leaf = e.first + k /\ e.first + k \in Heights
    BY <1>2, <2>1
  <2>4. Reached(x, k)
    BY <1>4
  <2> HIDE DEF x, y, pair
  <2>5. p \in Nat
    BY <2>2, LengthsAre DEF SourceInv
  <2>6. p <= e.first + k
    BY <2>4
  <2> HIDE DEF p
  <2>7. pair.leaf >= p
    BY <1>2, <2>1, <2>3, <2>5, <2>6
  <2>8. IndexedAreWritten(y)
    BY <2>2, <2>3, <2>4, <2>7, PairIndexed DEF p
  <2>9. CachesAreWritten(y) /\ NextPos(y.leaf_storage) = pair.leaf + 1
    BY <2>2, <2>3, <2>4, <2>7, PairBrings DEF p
  <2>10. pair.leaf + 1 = e.first + (k + 1) /\ e.first + (k + 1) \in Nat
    BY <1>2, <2>1, <2>3
  <2>11. Reached(y, k + 1)
    BY <2>8, <2>9, <2>10
  <2> HIDE DEF Reached
  <2>12. QED BY <2>1, <2>11 DEF y
<1> HIDE DEF S
<1>5. n \in S
  <2>1. \A k \in 0 .. n : k \in S
    BY <1>2, <1>3, <1>4, Induction
  <2>2. QED BY <1>2, <2>1
<1>6. states[n] = InsertPairs(d, e, n)
  BY <1>1 DEF PairTrace
<1> HIDE DEF Reached
<1>7. Reached(states[n], n)
  BY <1>5 DEF S
<1>8. QED BY <1>6, <1>7 DEF Reached

LEMMA UpdateIndexed ==
  ASSUME NEW d, SourceInv(d), CachesAreWritten(d), IndexedAreWritten(d), NEW e \in Event,
         e.first >= NextPos(d.leaf_storage)
  PROVE  IndexedAreWritten(UpdateFrom(d, e))
<1> DEFINE m == e.last - e.first + 1
<1>1. m \in 0 .. m
  BY EventFacts
<1>2. UpdateFrom(d, e) = InsertPairs(d, e, m)
  BY <1>1, PairFacts DEF UpdateFrom
<1>3. m \in 0 .. e.last - e.first + 1
  BY <1>1
<1> HIDE DEF m
<1>4. QED BY <1>2, <1>3, PairsIndexed

\* A write that fails leaves placeholders only, and the indices alone.
LEMMA FailedUpdateIndexed ==
  ASSUME NEW d, SourceInv(d), CachesAreWritten(d), IndexedAreWritten(d), NEW e \in Event,
         e.first >= NextPos(d.leaf_storage), NEW x \in FailedUpdates(d, e)
  PROVE  /\ IndexedAreWritten(x)
         /\ CacheIsWritten(x.leaf_storage) /\ NextPos(x.leaf_storage) <= e.last + 1
<1> DEFINE Leaves(b, g) == { InsertLeafFailing(b, g, k) : k \in 0 .. g - NextPos(b.leaf_storage) }
           Blocks(y, g) == { InsertBlockFailing(y, g, k) : k \in 0 .. g - NextPos(y.block_storage) }
           Failed(b, g) == Leaves(b, g) \cup IF g \in e.payloads THEN Blocks(InsertLeaf(b, g), g) ELSE {}
<1>1. FailedUpdates(d, e) = UNION { Failed(InsertPairs(d, e, n), e.first + n) : n \in 0 .. e.last - e.first }
  BY DEF FailedUpdates
<1> HIDE DEF Leaves, Blocks
<1>2. PICK n \in 0 .. e.last - e.first : x \in Failed(InsertPairs(d, e, n), e.first + n)
  <2> HIDE DEF Failed
  <2>1. QED BY <1>1
<1> DEFINE before == InsertPairs(d, e, n)
           h == e.first + n
           stored == InsertLeaf(before, h)
           l == before.leaf_storage
<1>3. h \in Heights /\ h \in Nat /\ n \in 0 .. e.last - e.first + 1 /\ h + 1 <= e.last + 1 /\ e.last \in Nat
  BY EventFacts DEF Heights
<1>4. /\ SourceInv(before) /\ IndexedAreWritten(before) /\ CachesAreWritten(before)
      /\ NextPos(l) <= h
  BY <1>3, PairsInserted, PairsIndexed
<1> HIDE DEF before, h
<1>5. /\ LogInv(l) /\ LogInv(before.block_storage) /\ before \in DataSource /\ CacheIsWritten(l)
      /\ NextPos(l) \in Nat /\ h >= NextPos(l)
  BY <1>3, <1>4, LengthsAre DEF SourceInv, LogsInv, CachesAreWritten
<1>6. /\ SourceInv(stored) /\ IndexedAreWritten(stored)
      /\ stored.leaf_storage = InsertObject(l, h, h)
  BY <1>3, <1>4, <1>5, LeafInserted, LeafIndexedInOrder
<1>7. CacheIsWritten(stored.leaf_storage) /\ NextPos(stored.leaf_storage) = h + 1
  BY <1>3, <1>5, <1>6, InsertWrites, InsertHolds
<1> HIDE DEF stored, l
<1>8. stored \in DataSource /\ LogInv(stored.block_storage)
  BY <1>6 DEF SourceInv, LogsInv
<1>9. \/ \E k \in 0 .. h - NextPos(l) : x = InsertLeafFailing(before, h, k)
      \/ \E k \in 0 .. h - NextPos(stored.block_storage) : x = InsertBlockFailing(stored, h, k)
  <2>1. x \in Leaves(before, h) \/ x \in Blocks(stored, h)
    BY <1>2 DEF before, h, stored
  <2>2. QED BY <2>1 DEF Leaves, Blocks, l
<1>10. CASE \E k \in 0 .. h - NextPos(l) : x = InsertLeafFailing(before, h, k)
  <2>1. PICK k \in 0 .. h - NextPos(l) : x = InsertLeafFailing(before, h, k)
    BY <1>10
  <2> DEFINE m == InsertFailing(l, h, h, k)
  <2>2. WrittenIn(l) \subseteq WrittenIn(m) /\ CacheIsWritten(m)
    BY <1>3, <1>5, InsertFailingWrites
  <2>3. LogInv(m) /\ NextPos(m) \in NextPos(l) .. h
    BY <1>3, <1>5, InsertFailingKeeps
  <2>4. x = [ before EXCEPT !.leaf_storage = m ]
    BY <2>1 DEF InsertLeafFailing, l
  <2> HIDE DEF m
  <2>5. x.leaf_storage = m /\ x.block_storage = before.block_storage /\ SameIndices(before, x)
    BY <1>5, <2>4 DEF DataSource, SameIndices
  <2>6. WritesMore(before, x)
    BY <2>2, <2>5 DEF WritesMore, l
  <2>7. IndexedAreWritten(x)
    BY <1>4, <2>5, <2>6, IndexedStays
  <2>8. NextPos(m) <= e.last + 1
    <3> DEFINE a == NextPos(m)
               b == NextPos(l)
    <3>1. a \in b .. h /\ b \in Nat
      BY <1>5, <2>3
    <3> HIDE DEF a, b
    <3>2. a <= e.last + 1
      BY <1>3, <3>1
    <3>3. QED BY <3>2 DEF a
  <2>9. QED BY <2>2, <2>5, <2>7, <2>8
<1>11. CASE \E k \in 0 .. h - NextPos(stored.block_storage) : x = InsertBlockFailing(stored, h, k)
  <2>1. PICK k \in 0 .. h - NextPos(stored.block_storage) : x = InsertBlockFailing(stored, h, k)
    BY <1>11
  <2> DEFINE m == InsertFailing(stored.block_storage, h, h, k)
  <2>2. WrittenIn(stored.block_storage) \subseteq WrittenIn(m)
    BY <1>3, <1>8, InsertFailingWrites
  <2>3. x = [ stored EXCEPT !.block_storage = m ]
    BY <2>1 DEF InsertBlockFailing
  <2> HIDE DEF m
  <2>4. x.block_storage = m /\ x.leaf_storage = stored.leaf_storage /\ SameIndices(stored, x)
    BY <1>8, <2>3 DEF DataSource, SameIndices
  <2>5. WritesMore(stored, x)
    BY <2>2, <2>4 DEF WritesMore
  <2>6. IndexedAreWritten(x)
    BY <1>6, <2>4, <2>5, IndexedStays
  <2>7. QED BY <1>3, <1>7, <2>4, <2>6
<1>12. QED BY <1>9, <1>10, <1>11

-----------------------------------------------------------------------------
(* Committing and reverting. *)

\* Nothing that is stored is ever removed from a store, but by reopening.
Extends(W, V) == Len(V) <= Len(W) /\ \A k \in 1 .. Len(V) : W[k] = V[k]

StoresGrow(d, n) ==
  /\ Extends(n.leaf_storage.store, d.leaf_storage.store)
  /\ Extends(n.block_storage.store, d.block_storage.store)

LEMMA ExtendsItself ==
  ASSUME NEW d, LogsInv(d), NEW n, SameStores(d, n)
  PROVE  StoresGrow(d, n)
BY LengthsAre DEF SameStores, StoresGrow, Extends

LEMMA CommitExtends ==
  ASSUME NEW l, LogInv(l)
  PROVE  Extends(CommitVersion(l).store, l.store)
<1> DEFINE s == l.store
           a == l.appended
<1>1. s \in Seq(Entry) /\ a \in Seq(Entry) /\ Len(s) \in Nat /\ Len(a) \in Nat
  BY LogParts, Zenon
<1>2. CommitVersion(l).store = s \o a
  BY CommitInv
<1> HIDE DEF s, a
<1>3. Len(s \o a) = Len(s) + Len(a) /\ \A k \in 1 .. Len(s) : (s \o a)[k] = s[k]
  BY <1>1
<1>4. Extends(s \o a, s)
  BY <1>1, <1>3 DEF Extends
<1>5. QED BY <1>2, <1>4 DEF s

LEMMA LeavesCommitted ==
  ASSUME NEW d, SourceInv(d)
  PROVE  /\ SourceInv(CommitLeaves(d)) /\ StoresGrow(d, CommitLeaves(d))
         /\ Len(CommitLeaves(d).leaf_storage.store) = NextPos(d.leaf_storage)
         /\ CommitLeaves(d).leaf_storage = CommitVersion(d.leaf_storage)
         /\ CommitLeaves(d).block_storage = d.block_storage
<1> DEFINE l == d.leaf_storage
           m == CommitVersion(l)
           x == [ d EXCEPT !.leaf_storage = m ]
<1>1. LogInv(l) /\ LogsInv(d)
  BY DEF SourceInv, LogsInv
<1>2. /\ LogInv(m) /\ Held(m) \subseteq Held(l) \cup {None}
      /\ NextPos(m) = NextPos(l) /\ Len(m.store) = NextPos(l)
      /\ Extends(m.store, l.store)
  BY <1>1, CommitInv, CommitHolds, CommitExtends
<1>3. NextPos(d.block_storage) <= NextPos(m) /\ Len(d.block_storage.store) <= Len(m.store)
  <2> DEFINE b == NextPos(d.block_storage)
             c == Len(d.block_storage.store)
             p == NextPos(l)
  <2>1. b \in Nat /\ c \in Nat /\ p \in Nat /\ c <= b /\ b <= p
    BY <1>1, LengthsAre DEF LogsInv
  <2> HIDE DEF b, c, p, m
  <2>2. b <= p /\ c <= p
    BY <2>1
  <2>3. QED BY <1>2, <2>2 DEF b, c, p
<1>4. CommitLeaves(d) = x
  BY DEF CommitLeaves, SourceInv, DataSource
<1> HIDE DEF m
<1>5. SourceInv(x) /\ x.leaf_storage = m /\ x.block_storage = d.block_storage
  BY <1>2, <1>3, LeafLogReplaced
<1> HIDE DEF x
<1>6. StoresGrow(d, x)
  BY <1>1, <1>2, <1>5, LengthsAre DEF StoresGrow, Extends
<1>7. QED BY <1>2, <1>4, <1>5, <1>6 DEF m

\* The blocks are committed after the leaves: no more than there are leaves.
LEMMA BlocksCommitted ==
  ASSUME NEW d, SourceInv(d), NextPos(d.block_storage) <= Len(d.leaf_storage.store)
  PROVE  /\ SourceInv(CommitBlocks(d)) /\ StoresGrow(d, CommitBlocks(d))
         /\ CommitBlocks(d).block_storage = CommitVersion(d.block_storage)
         /\ CommitBlocks(d).leaf_storage = d.leaf_storage
<1> DEFINE l == d.block_storage
           m == CommitVersion(l)
           x == [ d EXCEPT !.block_storage = m ]
<1>1. LogInv(l) /\ LogsInv(d)
  BY DEF SourceInv, LogsInv
<1>2. /\ LogInv(m) /\ Held(m) \subseteq Held(l) \cup {None}
      /\ NextPos(m) = NextPos(l) /\ Len(m.store) = NextPos(l)
      /\ Extends(m.store, l.store)
  BY <1>1, CommitInv, CommitHolds, CommitExtends
<1>3. CommitBlocks(d) = x
  BY DEF CommitBlocks, SourceInv, DataSource
<1> HIDE DEF m
<1>4. NextPos(m) <= NextPos(d.leaf_storage) /\ Len(m.store) <= Len(d.leaf_storage.store)
  BY <1>1, <1>2 DEF LogsInv
<1>5. SourceInv(x) /\ x.block_storage = m /\ x.leaf_storage = d.leaf_storage
  BY <1>2, <1>4, BlockLogReplaced
<1> HIDE DEF x
<1>6. StoresGrow(d, x)
  BY <1>1, <1>2, <1>5, LengthsAre DEF StoresGrow, Extends
<1>7. QED BY <1>3, <1>5, <1>6 DEF m

LEMMA CommitKeeps ==
  ASSUME NEW d, SourceInv(d)
  PROVE  /\ SourceInv(CommitLeaves(d)) /\ StoresGrow(d, CommitLeaves(d))
         /\ SourceInv(CommitBlocks(CommitLeaves(d))) /\ StoresGrow(d, CommitBlocks(CommitLeaves(d)))
<1> DEFINE x == CommitLeaves(d)
           y == CommitBlocks(x)
<1>1. /\ SourceInv(x) /\ StoresGrow(d, x) /\ x.block_storage = d.block_storage
      /\ Len(x.leaf_storage.store) = NextPos(d.leaf_storage)
  BY LeavesCommitted
<1>2. NextPos(x.block_storage) <= Len(x.leaf_storage.store)
  BY <1>1 DEF SourceInv, LogsInv
<1> HIDE DEF x
<1>3. SourceInv(y) /\ StoresGrow(x, y) /\ y.leaf_storage = x.leaf_storage
  BY <1>1, <1>2, BlocksCommitted
<1> HIDE DEF y
<1>4. StoresGrow(d, y)
  BY <1>1, <1>3 DEF StoresGrow
<1>5. QED BY <1>1, <1>3, <1>4 DEF x, y

\* Neither the indices nor what is written changes.
LEMMA CommitIndexed ==
  ASSUME NEW d, SourceInv(d), IndexedAreWritten(d)
  PROVE  IndexedAreWritten(CommitLeaves(d)) /\ IndexedAreWritten(CommitBlocks(d))
<1> DEFINE x == CommitLeaves(d)
           y == CommitBlocks(d)
<1>1. d \in DataSource /\ LogInv(d.leaf_storage) /\ LogInv(d.block_storage)
  BY DEF SourceInv, LogsInv
<1>2. /\ SameIndices(d, x) /\ x.leaf_storage = CommitVersion(d.leaf_storage) /\ x.block_storage = d.block_storage
      /\ SameIndices(d, y) /\ y.block_storage = CommitVersion(d.block_storage) /\ y.leaf_storage = d.leaf_storage
  BY <1>1 DEF CommitLeaves, CommitBlocks, SameIndices, DataSource
<1> HIDE DEF x, y
<1>3. WritesMore(d, x) /\ WritesMore(d, y)
  BY <1>1, <1>2, CommitWrites DEF WritesMore
<1>4. IndexedAreWritten(x) /\ IndexedAreWritten(y)
  BY <1>2, <1>3, IndexedStays
<1>5. QED BY <1>4 DEF x, y

RevertBoth(d) == [ d EXCEPT !.leaf_storage = RevertVersion(@), !.block_storage = RevertVersion(@) ]

LEMMA RevertKeeps ==
  ASSUME NEW d, SourceInv(d), d.leaf_storage.pending_inserts <= CacheSize, d.block_storage.pending_inserts <= CacheSize
  PROVE  SourceInv(RevertBoth(d)) /\ SameStores(d, RevertBoth(d))
<1> DEFINE l == RevertVersion(d.leaf_storage)
           m == RevertVersion(d.block_storage)
           x == [ d EXCEPT !.block_storage = m ]
           y == [ x EXCEPT !.leaf_storage = l ]
<1>1. LogInv(d.leaf_storage) /\ LogInv(d.block_storage) /\ LogsInv(d)
  BY DEF SourceInv, LogsInv
<1>2. /\ LogInv(l) /\ l.store = d.leaf_storage.store /\ Held(l) \subseteq Held(d.leaf_storage)
      /\ NextPos(l) = Len(d.leaf_storage.store)
      /\ LogInv(m) /\ m.store = d.block_storage.store /\ Held(m) \subseteq Held(d.block_storage)
      /\ NextPos(m) = Len(d.block_storage.store)
  BY <1>1, RevertInv, RevertHolds
<1>3. RevertBoth(d) = y
  BY DEF RevertBoth, SourceInv, DataSource
<1> HIDE DEF l, m
<1>4. /\ NextPos(m) <= NextPos(d.leaf_storage) /\ Len(m.store) <= Len(d.leaf_storage.store)
      /\ NextPos(m) <= NextPos(l) /\ Len(m.store) <= Len(l.store)
  <2> DEFINE a == Len(d.block_storage.store)
             b == Len(d.leaf_storage.store)
             p == NextPos(d.leaf_storage)
  <2>1. a \in Nat /\ b \in Nat /\ p \in Nat /\ a <= b /\ b <= p
    BY <1>1, LengthsAre DEF LogsInv
  <2> HIDE DEF a, b, p
  <2>2. a <= p /\ a <= b
    BY <2>1
  <2>3. QED BY <1>2, <2>2 DEF a, b, p
<1>5. SourceInv(x) /\ x.block_storage = m /\ x.leaf_storage = d.leaf_storage
  BY <1>2, <1>4, BlockLogReplaced
<1> HIDE DEF x
<1>6. SourceInv(y) /\ y.leaf_storage = l /\ y.block_storage = m
  BY <1>2, <1>4, <1>5, LeafLogReplaced
<1> HIDE DEF y
<1>7. QED BY <1>2, <1>3, <1>6 DEF SameStores

-----------------------------------------------------------------------------
(* Opening: the genesis, and the indices made from what was loaded. *)

\* An invariant log is as long for its readers as for its writers.
LEMMA IterLenIs ==
  ASSUME NEW l, LogInv(l)
  PROVE  IterLen(l) = NextPos(l)
BY LogParts DEF LogInv, IterLen

\* The genesis object is the first entry of an empty log, and committed.
LEMMA GenesisLog ==
  ASSUME NEW l, LogInv(l), NextPos(l) = 0
  PROVE  LET m == CommitVersion(InsertObject(l, Genesis, Genesis))
         IN  LogInv(m) /\ Len(m.store) = 1 /\ m.store[1] = 0 /\ Settled(m)
<1> DEFINE P == Padded(l, 0, 0)
           n == InsertObject(l, 0, 0)
           s == l.store
           a == l.appended
<1>1. s \in Seq(Entry) /\ a \in Seq(Entry) /\ Len(s) = 0 /\ Len(a) = 0
  <2>1. s \in Seq(Entry) /\ a \in Seq(Entry) /\ Len(s) \in Nat /\ Len(a) \in Nat /\ NextPos(l) = Len(s) + Len(a)
    BY LogParts, Zenon
  <2> DEFINE b == Len(s)
             c == Len(a)
  <2> HIDE DEF b, c
  <2>2. b \in Nat /\ c \in Nat /\ b + c = 0
    BY <2>1 DEF b, c
  <2>3. b = 0 /\ c = 0
    BY <2>2
  <2>4. QED BY <2>1, <2>3 DEF b, c
<1>2. P = [ k \in 1 .. 1 |-> 0 ]
  BY DEF Padded
<1>3. P = << 0 >>
  BY <1>2
<1>4. l \in LogType
  BY DEF LogInv
<1>5. n.store = s /\ n.appended = a \o P
  BY <1>4 DEF InsertObject, StoreAll, LogType
<1>6. LogInv(n)
  BY InsertInv
<1>11. CacheIsWritten(n)
  <2> DEFINE c == Len(l.cache)
             b == Len(s)
             f == Len(a)
  <2>1. l.cache_start + c = b + f /\ c \in Nat /\ l.cache_start \in Nat /\ b = 0 /\ f = 0
    BY <1>1, LogParts DEF LogInv
  <2> HIDE DEF c, b, f
  <2>2. c = 0
    BY <2>1
  <2>3. CacheIsWritten(l)
    BY <2>2 DEF CacheIsWritten, Entries, c
  <2>4. QED BY <2>3, InsertWrites
<1> HIDE DEF P, n, s, a
<1>7. s = << >> /\ a = << >>
  BY <1>1
<1>8. CommitVersion(n).store = << 0 >> /\ LogInv(CommitVersion(n))
  <2>1. CommitVersion(n).store = n.store \o n.appended /\ LogInv(CommitVersion(n))
    BY <1>6, CommitInv
  <2>2. << >> \o (<< >> \o << 0 >>) = << 0 >>
    OBVIOUS
  <2>3. QED BY <1>3, <1>5, <1>7, <2>1, <2>2
<1>9. Len(<< 0 >>) = 1 /\ << 0 >>[1] = 0
  OBVIOUS
<1>10. Settled(CommitVersion(n))
  BY <1>6, <1>11, CommitWrites DEF Settled
<1>12. QED BY <1>8, <1>9, <1>10 DEF n, Genesis

\* Both logs have at least the genesis entry, and the entry is there.
HasGenesis(d) == Len(d.leaf_storage.store) >= 1 /\ Len(d.block_storage.store) >= 1

GenesisStored(d) == d.leaf_storage.store[1] = 0 /\ d.block_storage.store[1] = 0

\* They have nothing else.
GenesisOnly(d) ==
  GenesisStored(d) /\ Len(d.leaf_storage.store) = 1 /\ Len(d.block_storage.store) = 1

BothSettled(d) == Settled(d.leaf_storage) /\ Settled(d.block_storage)

LEMMA GenesisInserted ==
  ASSUME NEW d, SourceInv(d), NextPos(d.leaf_storage) = 0
  PROVE  /\ SourceInv(InsertGenesis(d)) /\ HasGenesis(InsertGenesis(d))
         /\ GenesisOnly(InsertGenesis(d)) /\ BothSettled(InsertGenesis(d))
         /\ IndexedAreWritten(d) => IndexedAreWritten(InsertGenesis(d))
<1> DEFINE x == InsertLeaf(d, Genesis)
           y == InsertBlock(x, Genesis)
           z == CommitBlocks(CommitLeaves(y))
<1>1. Genesis \in Heights /\ LogsInv(d) /\ LogInv(d.leaf_storage) /\ LogInv(d.block_storage)
  BY HeightsAreNatural DEF Genesis, Heights, SourceInv, LogsInv
<1>2. NextPos(d.block_storage) = 0
  BY <1>1, LengthsAre DEF LogsInv
<1>3. /\ SourceInv(x) /\ x.leaf_storage = InsertObject(d.leaf_storage, Genesis, Genesis)
      /\ x.block_storage = d.block_storage /\ Genesis < NextPos(x.leaf_storage)
  BY <1>1, LeafInserted
<1>4. IterLen(d.leaf_storage) = 0
  BY <1>1, IterLenIs
<1>5. InsertGenesis(d) = [ y EXCEPT !.leaf_storage = CommitVersion(@), !.block_storage = CommitVersion(@) ]
  BY <1>4 DEF InsertGenesis
<1> HIDE DEF x
<1>6. /\ SourceInv(y) /\ y.block_storage = InsertObject(x.block_storage, Genesis, Genesis)
      /\ y.leaf_storage = x.leaf_storage
  BY <1>1, <1>3, BlockInserted
<1> HIDE DEF y
<1>7. InsertGenesis(d) = z
  BY <1>5, <1>6 DEF CommitBlocks, CommitLeaves, SourceInv, DataSource
<1>8. SourceInv(z)
  BY <1>6, CommitKeeps
<1>9. ASSUME IndexedAreWritten(d) PROVE IndexedAreWritten(z)
  <2>1. Genesis >= NextPos(d.leaf_storage) /\ Genesis >= NextPos(x.block_storage)
    BY <1>2, <1>3 DEF Genesis
  <2>2. IndexedAreWritten(x)
    BY <1>1, <1>9, <2>1, LeafIndexedInOrder DEF x
  <2>3. IndexedAreWritten(y)
    BY <1>1, <1>3, <2>1, <2>2, BlockIndexedInOrder DEF y
  <2>4. SourceInv(CommitLeaves(y)) /\ IndexedAreWritten(CommitLeaves(y))
    BY <1>6, <2>3, CommitKeeps, CommitIndexed
  <2>5. QED BY <2>4, CommitIndexed
<1>10. z.leaf_storage = CommitVersion(y.leaf_storage) /\ z.block_storage = CommitVersion(y.block_storage)
  BY <1>6 DEF CommitBlocks, CommitLeaves, SourceInv, DataSource
<1> HIDE DEF z
<1>11. /\ Len(z.leaf_storage.store) = 1 /\ z.leaf_storage.store[1] = 0
       /\ Len(z.block_storage.store) = 1 /\ z.block_storage.store[1] = 0
       /\ Settled(z.leaf_storage) /\ Settled(z.block_storage)
  BY <1>1, <1>2, <1>3, <1>6, <1>10, GenesisLog
<1>12. QED BY <1>7, <1>8, <1>11, <1>9 DEF HasGenesis, GenesisStored, GenesisOnly, BothSettled

\* The earliest of a set of blocks, and of a set of places of transactions.
LEMMA EarliestBlock ==
  ASSUME NEW S \in SUBSET Heights
  PROVE  LET p == EarliestOf({ << h >> : h \in S })
         IN  IF S = {} THEN p = None ELSE \E m \in S : p = << m >> /\ \A h \in S : m <= h
<1> DEFINE B == { << h >> : h \in S }
<1>1. CASE S = {}
  BY <1>1 DEF EarliestOf
<1>2. CASE S # {}
  <2>1. S \subseteq Nat
    BY HeightsAreNatural
  <2>2. PICK m \in S : \A h \in S : m <= h
    BY <1>2, <2>1, LeastNatural
  <2>3. \A h \in S : << m >> = << h >> \/ PlaceBefore(<< m >>, << h >>)
    <3>1. SUFFICES ASSUME NEW h \in S PROVE << m >> = << h >> \/ PlaceBefore(<< m >>, << h >>)
      OBVIOUS
    <3>2. m = h \/ m < h
      BY <2>1, <2>2
    <3>3. QED BY <2>1, <3>2, BlockPlaces
  <2>4. \E p \in B : \A q \in B : p = q \/ PlaceBefore(p, q)
    BY <2>2, <2>3
  <2>5. B # {}
    BY <1>2
  <2> DEFINE e == EarliestOf(B)
  <2> HIDE DEF B
  <2>6. e \in B /\ \A q \in B : e = q \/ PlaceBefore(e, q)
    BY <2>4, <2>5 DEF EarliestOf
  <2> HIDE DEF e
  <2>7. PICK k \in S : e = << k >>
    BY <2>6 DEF B
  <2>8. \A h \in S : k <= h
    <3>1. SUFFICES ASSUME NEW h \in S PROVE k <= h
      OBVIOUS
    <3>2. << k >> = << h >> \/ PlaceBefore(<< k >>, << h >>)
      BY <2>6, <2>7 DEF B
    <3>3. k \in Nat /\ h \in Nat
      BY <2>1
    <3>4. CASE << k >> = << h >>
      BY <3>3, <3>4
    <3>5. CASE PlaceBefore(<< k >>, << h >>)
      BY <3>3, <3>5, BlockPlaces
    <3>6. QED BY <3>2, <3>4, <3>5
  <2>9. QED BY <1>2, <2>7, <2>8 DEF e, B
<1>3. QED BY <1>1, <1>2

LEMMA EarliestPlace ==
  ASSUME NEW S \in SUBSET (Nat \X Nat)
  PROVE  LET p == EarliestOf(S)
         IN  IF S = {} THEN p = None ELSE p \in S /\ \A q \in S : ~ PlaceBefore(q, p)
<1>1. CASE S = {}
  BY <1>1 DEF EarliestOf
<1>2. CASE S # {}
  <2> DEFINE H == { q[1] : q \in S }
  <2>1. H \subseteq Nat /\ H # {}
    BY <1>2
  <2> HIDE DEF H
  <2>2. PICK m \in H : \A h \in H : m <= h
    BY <2>1, LeastNatural
  <2> DEFINE I == { q[2] : q \in { r \in S : r[1] = m } }
  <2>3. I \subseteq Nat /\ I # {}
    BY <2>2 DEF H
  <2> HIDE DEF I
  <2>4. PICK i \in I : \A j \in I : i <= j
    BY <2>3, LeastNatural
  <2>5. << m, i >> \in S /\ m \in Nat /\ i \in Nat
    BY <2>1, <2>2, <2>3, <2>4 DEF I
  <2>6. \A q \in S : << m, i >> = q \/ PlaceBefore(<< m, i >>, q)
    <3>1. SUFFICES ASSUME NEW q \in S PROVE << m, i >> = q \/ PlaceBefore(<< m, i >>, q)
      OBVIOUS
    <3>2. q = << q[1], q[2] >> /\ q[1] \in Nat /\ q[2] \in Nat
      OBVIOUS
    <3>3. m <= q[1] /\ (q[1] = m => i <= q[2])
      BY <2>2, <2>4 DEF H, I
    <3>4. PlaceBefore(<< m, i >>, << q[1], q[2] >>) <=> (m < q[1] \/ (m = q[1] /\ i < q[2]))
      BY <2>5, <3>2, TransactionPlaces
    <3>5. \/ m = q[1] /\ i = q[2]
          \/ m < q[1] \/ (m = q[1] /\ i < q[2])
      BY <2>5, <3>2, <3>3
    <3>6. QED BY <3>2, <3>4, <3>5
  <2> DEFINE e == EarliestOf(S)
  <2>7. e \in S /\ \A q \in S : e = q \/ PlaceBefore(e, q)
    BY <1>2, <2>5, <2>6 DEF EarliestOf
  <2> HIDE DEF e
  <2>8. ASSUME NEW q \in S PROVE ~ PlaceBefore(q, e)
    <3> DEFINE a == q[1]
               b == q[2]
               c == e[1]
               d == e[2]
    <3>1. /\ q = << a, b >> /\ e = << c, d >>
          /\ a \in Nat /\ b \in Nat /\ c \in Nat /\ d \in Nat
      BY <2>7
    <3> HIDE DEF a, b, c, d
    <3>2. /\ PlaceBefore(<< a, b >>, << c, d >>) <=> (a < c \/ (a = c /\ b < d))
          /\ PlaceBefore(<< c, d >>, << a, b >>) <=> (c < a \/ (c = a /\ d < b))
      BY <3>1, TransactionPlaces
    <3>3. << c, d >> = << a, b >> \/ PlaceBefore(<< c, d >>, << a, b >>)
      BY <2>7, <3>1
    <3>4. CASE << c, d >> = << a, b >>
      <4>1. c = a /\ d = b
        BY <3>4
      <4>2. QED BY <3>1, <3>2, <4>1
    <3>5. CASE PlaceBefore(<< c, d >>, << a, b >>)
      <4>1. ~ (a < c \/ (a = c /\ b < d))
        BY <3>1, <3>2, <3>5
      <4>2. QED BY <3>1, <3>2, <4>1
    <3>6. QED BY <3>3, <3>4, <3>5
  <2>9. QED BY <1>2, <2>7, <2>8 DEF e
<1>3. QED BY <1>1, <1>2

\* The leaves that were loaded, listed for one proposer in the order of the log.
ListFor(leaves, p) ==
  FoldLeft(LAMBDA ids, h : IF h # None /\ Proposer[h] = p THEN Append(ids, h) ELSE ids, << >>, leaves)

\* The positions of the entries that were loaded are their heights.
LoadedHeights(s) == { h \in 0 .. Len(s) - 1 : s[h + 1] # None }

LEMMA ListedFor ==
  ASSUME NEW leaves \in Seq(Entry), EntriesInPlace(leaves), Entries(leaves) \subseteq Heights \cup {None}, NEW p
  PROVE  /\ ListFor(leaves, p) \in Seq(Heights)
         /\ Lists(ListFor(leaves, p), { h \in LoadedHeights(leaves) : Proposer[h] = p })
<1> DEFINE n == Len(leaves)
           Op(ids, h) == IF h # None /\ Proposer[h] = p THEN Append(ids, h) ELSE ids
           T == Seq(Heights)
           step == [ q \in (1 .. n) \X T |-> Op(q[2], leaves[q[1]]) ]
           Is(it) == it = [ s \in SUBSET (1 .. n) |->
                              IF s = {} THEN << >> ELSE Op(it[s \ {Max(s)}], leaves[Max(s)]) ]
           F == CHOOSE it : Is(it)
           new == ListFor(leaves, p)
<1>1. n \in Nat /\ DOMAIN leaves = 1 .. n
  BY LenProperties
<1>2. new = F[1 .. n]
  BY <1>1 DEF ListFor, FoldLeft, MapThenFoldSet
<1> HIDE DEF n, new
<1>3. \A ids \in T, k \in 1 .. n : Op(ids, leaves[k]) \in T
  <2>1. SUFFICES ASSUME NEW ids \in T, NEW k \in 1 .. n PROVE Op(ids, leaves[k]) \in T
    OBVIOUS
  <2> DEFINE h == leaves[k]
  <2>2. h \in Heights \cup {None}
    BY DEF Entries, n
  <2> HIDE DEF h
  <2>3. h # None => Append(ids, h) \in Seq(Heights)
    BY <2>2
  <2>4. QED BY <2>3 DEF h
<1>4. << >> \in T
  OBVIOUS
<1> HIDE DEF T, Op
<1>5. step \in StepFunctions(1 .. n, T) /\ \A v \in T, i \in 1 .. n : step[<< i, v >>] = Op(v, leaves[i])
  BY <1>3 DEF StepFunctions
<1>6. \A s \in SUBSET (1 .. n) : s # {} => Max(s) \in 1 .. n
  BY <1>1, MaxOfSegment
<1> HIDE DEF step
<1> DEFINE none == << >>
<1> HIDE DEF none
<1>7. \E it : Is(it)
  <2>0. none \in T
    BY <1>4 DEF none
  <2>1. \E it : it \in FoldFunctions(1 .. n, T, none, step)
    BY <1>1, <2>0, <1>5, FoldExists
  <2>2. PICK it \in [ SUBSET (1 .. n) -> T ] : \A s \in SUBSET (1 .. n) :
               it[s] = IF s = {} THEN none ELSE step[<< Max(s), it[s \ {Max(s)}] >>]
    BY <2>1 DEF FoldFunctions
  <2>3. \A s \in SUBSET (1 .. n) : s # {} => step[<< Max(s), it[s \ {Max(s)}] >>] = Op(it[s \ {Max(s)}], leaves[Max(s)])
    BY <1>5, <1>6
  <2>4. \A s \in SUBSET (1 .. n) : it[s] = IF s = {} THEN << >> ELSE Op(it[s \ {Max(s)}], leaves[Max(s)])
    BY <2>2, <2>3 DEF none
  <2>5. Is(it)
    BY <2>4
  <2>6. QED BY <2>5
<1>8. Is(F)
  <2> HIDE DEF Is
  <2>1. QED BY <1>7
<1> HIDE DEF F
<1>9. F[{}] = none /\ none \in T
  BY <1>4, <1>8 DEF none
<1>10. \A k \in 1 .. n : F[1 .. k - 1] \in T => F[1 .. k] = step[<< k, F[1 .. k - 1] >>]
  <2>1. SUFFICES ASSUME NEW k \in 1 .. n, F[1 .. k - 1] \in T PROVE F[1 .. k] = step[<< k, F[1 .. k - 1] >>]
    OBVIOUS
  <2>2. k \in Nat \ {0} /\ 1 .. k \in SUBSET (1 .. n)
    BY <1>1
  <2>3. Max(1 .. k) = k /\ (1 .. k) \ {Max(1 .. k)} = 1 .. k - 1 /\ 1 .. k # {}
    BY <2>2, GreatestOfSegment
  <2>4. F[1 .. k] = Op(F[1 .. k - 1], leaves[k])
    BY <1>8, <2>2, <2>3
  <2> HIDE DEF Is
  <2>5. QED BY <1>5, <2>1, <2>4
<1> HIDE DEF Is
<1>11. PICK states : states \in Traces(n, T, none, step) /\ F[1 .. n] = states[n]
  BY <1>1, <1>5, <1>9, <1>10, FoldTrace
<1>12. /\ \A k \in 0 .. n : states[k] \in T
       /\ \A k \in 1 .. n : states[k] = step[<< k, states[k - 1] >>]
  BY <1>11 DEF Traces
<1> DEFINE Taken(k) == { h \in 0 .. k - 1 : leaves[h + 1] # None /\ Proposer[h] = p }
           Good == { k \in 0 .. n : Lists(states[k], Taken(k)) }
<1>13. 0 \in Good
  <2>1. Taken(0) = {} /\ 0 \in 0 .. n
    BY <1>1
  <2>2. states[0] = << >>
    BY <1>11 DEF Traces, none
  <2> HIDE DEF Taken
  <2>3. QED BY <2>1, <2>2, ListsEmpty
<1>14. \A k \in 0 .. n - 1 : k \in Good => k + 1 \in Good
  <2>1. SUFFICES ASSUME NEW k \in 0 .. n - 1, k \in Good PROVE k + 1 \in Good
    OBVIOUS
  <2>2. k \in 0 .. n /\ k + 1 \in 1 .. n /\ k + 1 \in 0 .. n /\ (k + 1) - 1 = k /\ k \in Int
    BY <1>1
  <2>3. states[k + 1] = Op(states[k], leaves[k + 1])
    BY <1>5, <1>12, <2>2
  <2>4. leaves[k + 1] \in {None, k}
    BY <2>2 DEF EntriesInPlace, n
  <2>5. Lists(states[k], Taken(k)) /\ Taken(k) \in SUBSET Int /\ \A g \in Taken(k) : g < k
    BY <2>1, <2>2
  <2>6. \A h \in 0 .. (k + 1) - 1 : h \in 0 .. k - 1 \/ h = k
    BY <2>2
  <2>7. \A h \in 0 .. k - 1 : h \in 0 .. (k + 1) - 1
    BY <2>2
  <2>8. k \in 0 .. (k + 1) - 1
    BY <2>2
  <2>9. CASE leaves[k + 1] # None /\ Proposer[leaves[k + 1]] = p
    <3>1. leaves[k + 1] = k
      BY <2>4, <2>9
    <3>2. Taken(k + 1) = Taken(k) \cup {k}
      BY <2>6, <2>7, <2>8, <2>9, <3>1
    <3>3. states[k + 1] = Append(states[k], k)
      BY <2>3, <2>9, <3>1 DEF Op
    <3> HIDE DEF Taken
    <3>4. Lists(Append(states[k], k), Taken(k) \cup {k})
      BY <2>2, <2>5, ListsAppend
    <3>5. QED BY <2>2, <3>2, <3>3, <3>4
  <2>10. CASE ~ (leaves[k + 1] # None /\ Proposer[leaves[k + 1]] = p)
    <3>1. ~ (leaves[k + 1] # None /\ Proposer[k] = p)
      BY <2>4, <2>10
    <3>2. Taken(k + 1) = Taken(k)
      BY <2>6, <2>7, <3>1
    <3>3. states[k + 1] = states[k]
      BY <2>3, <2>10 DEF Op
    <3> HIDE DEF Taken
    <3>4. QED BY <2>2, <2>5, <3>2, <3>3
  <2>11. QED BY <2>9, <2>10
<1> HIDE DEF Good
<1>15. n \in Good
  <2>1. \A k \in 0 .. n : k \in Good
    BY <1>1, <1>13, <1>14, Induction
  <2>2. QED BY <1>1, <2>1
<1>16. new = states[n] /\ states[n] \in T
  BY <1>1, <1>2, <1>11, <1>12
<1>17. Taken(n) = { h \in LoadedHeights(leaves) : Proposer[h] = p }
  BY DEF LoadedHeights, n
<1> HIDE DEF Taken
<1>18. Lists(states[n], Taken(n))
  BY <1>15 DEF Good
<1>19. QED BY <1>16, <1>17, <1>18 DEF new, T

LEMMA LoadedAre ==
  ASSUME NEW s \in Seq(Entry), EntriesInPlace(s), Entries(s) \subseteq Heights \cup {None}
  PROVE  /\ LoadedHeights(s) \subseteq Heights
         /\ LoadedHeights(s) = Entries(s) \ {None}
<1> DEFINE n == Len(s)
<1>1. n \in Nat /\ \A k \in 1 .. n : s[k] \in {None, k - 1} /\ s[k] \in Entries(s)
  BY LenProperties DEF EntriesInPlace, Entries
<1>2. \A h \in 0 .. n - 1 : h + 1 \in 1 .. n /\ (h + 1) - 1 = h
  BY <1>1
<1>3. \A h \in LoadedHeights(s) : s[h + 1] = h /\ h \in Entries(s) /\ h # None
  BY <1>1, <1>2 DEF LoadedHeights
<1>4. \A k \in 1 .. n : s[k] # None => k - 1 \in 0 .. n - 1 /\ s[(k - 1) + 1] # None /\ s[k] = k - 1
  BY <1>1
<1>5. Entries(s) \ {None} \subseteq LoadedHeights(s)
  BY <1>4 DEF LoadedHeights, Entries
<1>6. QED BY <1>3, <1>5

LEMMA HashesLoaded ==
  ASSUME NEW S \in SUBSET Heights
  PROVE  LET index == [ x \in Hashes |-> EarliestOf({ << h >> : h \in { g \in S : BlockHash[g] = x } }) ]
         IN  /\ index \in HashIndex /\ HashIndexRight(index) /\ HashesWithin(index, S)
             /\ \A h \in S : HashCovered(index, h)
<1> DEFINE At(x) == { g \in S : BlockHash[g] = x }
           index == [ x \in Hashes |-> EarliestOf({ << h >> : h \in At(x) }) ]
<1>1. ASSUME NEW x \in Hashes
      PROVE  IF At(x) = {} THEN index[x] = None ELSE \E m \in At(x) : index[x] = << m >> /\ \A h \in At(x) : m <= h
  <2> DEFINE A == At(x)
  <2>1. A \in SUBSET Heights
    OBVIOUS
  <2>2. index[x] = EarliestOf({ << h >> : h \in A })
    OBVIOUS
  <2> HIDE DEF A, index
  <2>3. IF A = {} THEN index[x] = None ELSE \E m \in A : index[x] = << m >> /\ \A h \in A : m <= h
    BY <2>1, <2>2, EarliestBlock
  <2>4. QED BY <2>3 DEF A
<1>2. DOMAIN index = Hashes /\ index = [ x \in Hashes |-> index[x] ]
  OBVIOUS
<1> HIDE DEF index
<1>3. \A x \in Hashes : index[x] # None => \E g \in Heights : index[x] = << g >> /\ BlockHash[g] = x
  BY <1>1
<1>4. \A x \in Hashes : index[x] \in { << g >> : g \in Heights } \cup {None}
  BY <1>3
<1>5. index \in HashIndex
  BY <1>2, <1>4 DEF HashIndex
<1>6. ASSUME NEW h \in S PROVE HashCovered(index, h)
  <2>1. BlockHash[h] \in Hashes /\ h \in At(BlockHash[h])
    BY DEF Hashes
  <2>2. PICK m \in At(BlockHash[h]) : index[BlockHash[h]] = << m >> /\ m <= h
    BY <1>1, <2>1
  <2>3. m \in 0 .. h
    BY <2>2, HeightsAreNatural
  <2>4. QED BY <2>2, <2>3 DEF HashCovered
<1>7. ASSUME NEW x \in Hashes, NEW g \in Heights, index[x] = << g >> PROVE g \in S
  <2>1. CASE At(x) = {}
    <3>1. index[x] = None /\ g \in Nat
      BY <1>1, <2>1, HeightsAreNatural
    <3>2. << g >> # None
      BY <3>1, PlaceIsNotNone
    <3>3. QED BY <1>7, <3>1, <3>2
  <2>2. CASE At(x) # {}
    <3>1. PICK m \in At(x) : index[x] = << m >>
      BY <1>1, <2>2
    <3>2. g = m /\ m \in S
      BY <1>7, <3>1
    <3>3. QED BY <3>2
  <2>3. QED BY <2>1, <2>2
<1>8. HashesWithin(index, S)
  BY <1>7 DEF HashesWithin
<1>9. QED BY <1>3, <1>5, <1>6, <1>8 DEF HashIndexRight, index

LEMMA TransactionsLoaded ==
  ASSUME NEW S \in SUBSET Heights
  PROVE  LET places(t) == UNION { { << h, i >> : i \in { j \in DOMAIN Payload[h] : Payload[h][j] = t } } : h \in S }
             index == [ t \in Transactions |-> EarliestOf(places(t)) ]
         IN  /\ index \in TransactionIndex /\ TransactionIndexRight(index) /\ PlacesWithin(index, S)
             /\ \A h \in S : \A i \in DOMAIN Payload[h] : TransactionCovered(index, h, i)
<1> DEFINE places(t) == UNION { { << h, i >> : i \in { j \in DOMAIN Payload[h] : Payload[h][j] = t } } : h \in S }
           index == [ t \in Transactions |-> EarliestOf(places(t)) ]
<1>1. \A t, p : p \in places(t) <=> \E h \in S : \E i \in DOMAIN Payload[h] : Payload[h][i] = t /\ p = << h, i >>
  OBVIOUS
<1>2. \A t : places(t) \in SUBSET (Nat \X Nat)
  <2>1. SUFFICES ASSUME NEW t, NEW p \in places(t) PROVE p \in Nat \X Nat
    OBVIOUS
  <2> HIDE DEF places
  <2>2. PICK h \in S : \E i \in DOMAIN Payload[h] : Payload[h][i] = t /\ p = << h, i >>
    BY <1>1
  <2>3. PICK i \in DOMAIN Payload[h] : p = << h, i >>
    BY <2>2
  <2>4. h \in Nat /\ i \in Nat
    BY HeightsAreNatural, PayloadFacts
  <2>5. QED BY <2>3, <2>4
<1>3. DOMAIN index = Transactions /\ index = [ t \in Transactions |-> index[t] ]
      /\ \A t \in Transactions : index[t] = EarliestOf(places(t))
  OBVIOUS
<1> HIDE DEF places, index
<1>4. \A t \in Transactions : IF places(t) = {} THEN index[t] = None
                              ELSE index[t] \in places(t) /\ \A q \in places(t) : ~ PlaceBefore(q, index[t])
  <2>1. SUFFICES ASSUME NEW t \in Transactions
                 PROVE  IF places(t) = {} THEN index[t] = None
                        ELSE index[t] \in places(t) /\ \A q \in places(t) : ~ PlaceBefore(q, index[t])
    OBVIOUS
  <2> DEFINE P == places(t)
  <2>2. P \in SUBSET (Nat \X Nat) /\ index[t] = EarliestOf(P)
    BY <1>2, <1>3
  <2> HIDE DEF P
  <2>3. IF P = {} THEN index[t] = None ELSE index[t] \in P /\ \A q \in P : ~ PlaceBefore(q, index[t])
    BY <2>2, EarliestPlace
  <2>4. QED BY <2>3 DEF P
<1>5. ASSUME NEW t \in Transactions, index[t] # None
      PROVE  \E g \in Heights : \E i \in DOMAIN Payload[g] : index[t] = << g, i >> /\ Payload[g][i] = t
  <2>1. index[t] \in places(t)
    BY <1>4, <1>5
  <2>2. QED BY <1>1, <2>1
<1>6. ASSUME NEW t \in Transactions PROVE index[t] \in (Heights \X Nat) \cup {None}
  <2>1. CASE index[t] # None
    <3>1. PICK g \in Heights : \E i \in DOMAIN Payload[g] : index[t] = << g, i >> /\ Payload[g][i] = t
      BY <1>5, <2>1
    <3>2. PICK i \in DOMAIN Payload[g] : index[t] = << g, i >>
      BY <3>1
    <3>3. i \in Nat
      BY PayloadFacts
    <3>4. QED BY <3>2, <3>3
  <2>2. QED BY <2>1
<1>7. index \in TransactionIndex
  BY <1>3, <1>6 DEF TransactionIndex
<1>8. ASSUME NEW h \in S, NEW i \in DOMAIN Payload[h] PROVE TransactionCovered(index, h, i)
  <2> DEFINE t == Payload[h][i]
  <2>1. t \in Transactions /\ << h, i >> \in places(t)
    BY <1>1, PayloadFacts
  <2>2. index[t] \in places(t) /\ ~ PlaceBefore(<< h, i >>, index[t])
    BY <1>4, <2>1
  <2>3. index[t] # None
    <3>1. index[t] \in Nat \X Nat
      BY <1>2, <2>2
    <3>2. QED BY <3>1, PlaceIsNotNone
  <2>4. QED BY <2>2, <2>3 DEF TransactionCovered
<1>9. TransactionIndexRight(index)
  BY <1>5 DEF TransactionIndexRight
<1>10. ASSUME NEW t \in Transactions, NEW g \in Heights, NEW i \in Nat, index[t] = << g, i >> PROVE g \in S
  <2>1. g \in Nat
    BY HeightsAreNatural
  <2>2. index[t] # None
    BY <1>10, <2>1, PlaceIsNotNone
  <2>3. index[t] \in places(t)
    BY <1>4, <2>2
  <2>4. PICK h \in S : \E j \in DOMAIN Payload[h] : index[t] = << h, j >>
    BY <1>1, <2>3
  <2>5. g = h
    BY <1>10, <2>4
  <2>6. QED BY <2>5
<1>11. PlacesWithin(index, S)
  BY <1>10 DEF PlacesWithin
<1>12. QED BY <1>7, <1>8, <1>9, <1>11 DEF index, places

\* A data source opened on a prefix of the logs that has no more blocks than leaves.
LEMMA OpenedInv ==
  ASSUME NEW leaves \in Seq(Entry), NEW blocks \in Seq(Entry),
         EntriesInPlace(leaves), EntriesInPlace(blocks),
         Entries(leaves) \subseteq Heights \cup {None}, Entries(blocks) \subseteq Heights \cup {None},
         Len(blocks) <= Len(leaves), Len(blocks) = 0 => Len(leaves) = 0
  PROVE  LET d == OpenDataSource(leaves, blocks)
         IN  /\ SourceInv(d) /\ HasGenesis(d) /\ BothSettled(d) /\ IndexedAreWritten(d)
             /\ Len(leaves) = 0 => GenesisOnly(d)
             /\ Len(leaves) # 0 => d.leaf_storage.store = leaves /\ d.block_storage.store = blocks
<1> DEFINE L == LoadedHeights(leaves)
           B == LoadedHeights(blocks)
           places(t) == UNION { { << h, i >> : i \in { j \in DOMAIN Payload[h] : Payload[h][j] = t } } : h \in B }
           hashes == [ x \in Hashes |-> EarliestOf({ << h >> : h \in { g \in L : BlockHash[g] = x } }) ]
           transactions == [ t \in Transactions |-> EarliestOf(places(t)) ]
           lists == [ p \in Proposers |-> ListFor(leaves, p) ]
           raw == [ leaf_storage         |-> OpenLog(leaves),
                    block_storage        |-> OpenLog(blocks),
                    index_by_leaf_hash   |-> L,
                    index_by_block_hash  |-> hashes,
                    index_by_txn_hash    |-> transactions,
                    index_by_proposer_id |-> lists ]
<1>1. OpenDataSource(leaves, blocks) = InsertGenesis(raw)
  BY DEF OpenDataSource, LoadedHeights, ListFor
<1>2. /\ L \in SUBSET Heights /\ L = Entries(leaves) \ {None}
      /\ B \in SUBSET Heights /\ B = Entries(blocks) \ {None}
  BY LoadedAre
<1> HIDE DEF L, B
<1>3. /\ hashes \in HashIndex /\ HashIndexRight(hashes) /\ HashesWithin(hashes, L)
      /\ \A h \in L : HashCovered(hashes, h)
  BY <1>2, HashesLoaded
<1>4. /\ transactions \in TransactionIndex /\ TransactionIndexRight(transactions) /\ PlacesWithin(transactions, B)
      /\ \A h \in B : \A i \in DOMAIN Payload[h] : TransactionCovered(transactions, h, i)
  BY <1>2, TransactionsLoaded
<1>5. /\ lists \in ProposerIndex /\ ProposerIndexRight(lists) /\ ListsWithin(lists, L)
      /\ \A h \in L : h \in Entries(lists[Proposer[h]])
  <2> DEFINE Mine(p) == { h \in L : Proposer[h] = p }
  <2>1. \A p \in Proposers : lists[p] = ListFor(leaves, p)
    OBVIOUS
  <2>2. \A p \in Proposers : lists[p] \in Seq(Heights)
    BY <2>1, ListedFor
  <2>3. lists \in ProposerIndex
    BY <2>2 DEF ProposerIndex
  <2> HIDE DEF lists
  <2>4. ASSUME NEW p \in Proposers PROVE Entries(lists[p]) = Mine(p) /\ Ascends(lists[p])
    <3>1. Lists(lists[p], Mine(p))
      BY <2>1, ListedFor DEF L
    <3>2. QED BY <3>1 DEF Lists, Entries, Ascends
  <2>5. ProposerIndexRight(lists)
    BY <2>4 DEF ProposerIndexRight, Entries
  <2>6. ListsWithin(lists, L)
    BY <2>4 DEF ListsWithin
  <2>7. \A h \in L : h \in Entries(lists[Proposer[h]])
    BY <1>2, <2>4 DEF Proposers
  <2>8. QED BY <2>3, <2>5, <2>6, <2>7
<1>6. /\ LogInv(OpenLog(leaves)) /\ OpenLog(leaves).store = leaves
      /\ LogInv(OpenLog(blocks)) /\ OpenLog(blocks).store = blocks
      /\ Held(OpenLog(leaves)) \subseteq Entries(leaves) /\ NextPos(OpenLog(leaves)) = Len(leaves)
      /\ Held(OpenLog(blocks)) \subseteq Entries(blocks) /\ NextPos(OpenLog(blocks)) = Len(blocks)
      /\ IterLen(OpenLog(leaves)) = Len(leaves)
  BY OpenInv, OpenHolds
<1> HIDE DEF hashes, transactions, lists
<1>7. /\ raw \in DataSource
      /\ raw.leaf_storage = OpenLog(leaves) /\ raw.block_storage = OpenLog(blocks)
      /\ raw.index_by_leaf_hash = L /\ raw.index_by_block_hash = hashes
      /\ raw.index_by_txn_hash = transactions /\ raw.index_by_proposer_id = lists
  <2>1. OpenLog(leaves) \in LogType /\ OpenLog(blocks) \in LogType
    BY <1>6 DEF LogInv
  <2>2. raw \in DataSource
    BY <1>2, <1>3, <1>4, <1>5, <2>1 DEF DataSource, HashIndex, TransactionIndex, ProposerIndex
  <2>3. QED BY <2>2
<1> HIDE DEF raw
<1>8. SourceInv(raw)
  <2>1. LogsInv(raw)
    BY <1>6, <1>7 DEF LogsInv
  <2>2. IndicesRight(raw)
    BY <1>3, <1>4, <1>5, <1>7 DEF IndicesRight
  <2>3. HeldIndexed(raw)
    BY <1>2, <1>3, <1>4, <1>5, <1>6, <1>7 DEF HeldIndexed, LeafIndexed, BlockIndexed
  <2>4. QED BY <1>7, <2>1, <2>2, <2>3 DEF SourceInv
<1>9. IndexedAreWritten(raw)
  <2>1. L \subseteq WrittenIn(raw.leaf_storage) /\ B \subseteq WrittenIn(raw.block_storage)
    BY <1>2, <1>6, <1>7 DEF WrittenIn
  <2>2. IndexedWithin(raw, L, B)
    BY <1>3, <1>4, <1>5, <1>7 DEF IndexedWithin
  <2>3. QED BY <2>1, <2>2, MoreWithin DEF IndexedAreWritten
<1>10. CASE Len(leaves) = 0
  <2>1. NextPos(raw.leaf_storage) = 0
    BY <1>6, <1>7, <1>10
  <2>2. QED BY <1>1, <1>8, <1>10, <1>9, <2>1, GenesisInserted
<1>11. CASE Len(leaves) # 0
  <2>1. InsertGenesis(raw) = raw
    BY <1>6, <1>7, <1>11 DEF InsertGenesis
  <2>2. Len(leaves) >= 1 /\ Len(blocks) >= 1
    <3> DEFINE a == Len(leaves)
               b == Len(blocks)
    <3>1. a \in Nat /\ b \in Nat /\ a # 0 /\ b # 0
      BY <1>11, LenProperties
    <3> HIDE DEF a, b
    <3>2. a >= 1 /\ b >= 1
      BY <3>1
    <3>3. QED BY <3>2 DEF a, b
  <2>3. BothSettled(raw)
    BY <1>7, OpenSettled DEF BothSettled
  <2>4. QED BY <1>1, <1>6, <1>7, <1>8, <1>11, <1>9, <2>1, <2>2, <2>3 DEF HasGenesis
<1>12. QED BY <1>10, <1>11

-----------------------------------------------------------------------------
(***************************************************************************)
(* What is recorded, v, is a prefix of both stores of a data source d;     *)
(* once anything is recorded it has the genesis of both logs, so opening   *)
(* inserts the genesis into both logs or into neither.                     *)
(***************************************************************************)
RecordedIn(d, v) ==
  /\ v \in [ leaves : Nat, blocks : Nat ]
  /\ v.leaves <= Len(d.leaf_storage.store)
  /\ v.blocks <= Len(d.block_storage.store)
  /\ v.blocks <= v.leaves
  /\ v.blocks = 0 => v.leaves = 0

LEMMA EmptySourceInv == SourceInv(EmptyDataSource) /\ NextPos(EmptyDataSource.leaf_storage) = 0
<1> DEFINE d == EmptyDataSource
<1>1. /\ << >> \in Seq(Entry) /\ << >> \in Seq(Heights) /\ Len(<< >>) = 0 /\ << >> \o << >> = << >>
      /\ Entries(<< >>) = {}
  <2>1. << >> \in Seq(Entry) /\ << >> \in Seq(Heights) /\ Len(<< >>) = 0 /\ << >> \o << >> = << >>
    OBVIOUS
  <2>2. Entries(<< >>) = {}
    BY <2>1 DEF Entries
  <2>3. QED BY <2>1, <2>2
<1>2. LogInv(EmptyLog)
  BY <1>1 DEF LogInv, LogType, EmptyLog, EntriesInPlace, CacheRepeats
<1>3. /\ d.leaf_storage = EmptyLog /\ d.block_storage = EmptyLog /\ d.index_by_leaf_hash = {}
      /\ d.index_by_block_hash = [ x \in Hashes |-> None ]
      /\ d.index_by_txn_hash = [ t \in Transactions |-> None ]
      /\ d.index_by_proposer_id = [ p \in Proposers |-> << >> ]
  BY DEF EmptyDataSource
<1>4. d \in DataSource
  <2>1. EmptyLog \in LogType
    BY <1>2 DEF LogInv
  <2>2. QED BY <1>1, <2>1 DEF EmptyDataSource, DataSource
<1>5. NextPos(EmptyLog) = 0 /\ Held(EmptyLog) = {} /\ Len(EmptyLog.store) = 0
  BY <1>1 DEF NextPos, Held, EmptyLog
<1> HIDE DEF d
<1>6. LogsInv(d)
  BY <1>2, <1>3, <1>5 DEF LogsInv
<1>7. IndicesRight(d)
  BY <1>1, <1>3 DEF IndicesRight, HashIndexRight, TransactionIndexRight, ProposerIndexRight
<1>8. HeldIndexed(d)
  BY <1>3, <1>5 DEF HeldIndexed
<1>9. QED BY <1>3, <1>4, <1>5, <1>6, <1>7, <1>8 DEF SourceInv, d

\* What a log holds is the objects of the ledger.
LEMMA HeldHeights ==
  ASSUME NEW d, SourceInv(d)
  PROVE  /\ Entries(d.leaf_storage.store) \subseteq Heights \cup {None}
         /\ Entries(d.block_storage.store) \subseteq Heights \cup {None}
BY DEF SourceInv, HeldIndexed, LeafIndexed, BlockIndexed, Held

LEMMA LoadedInPlace ==
  ASSUME NEW l, LogInv(l), Entries(l.store) \subseteq Heights \cup {None}, NEW n \in 0 .. Len(l.store), NEW bad
  PROVE  /\ Loaded(l, n, bad) \in Seq(Entry) /\ Len(Loaded(l, n, bad)) = n
         /\ EntriesInPlace(Loaded(l, n, bad))
         /\ Entries(Loaded(l, n, bad)) \subseteq Heights \cup {None}
         /\ \A k \in 1 .. n : k - 1 \notin bad => Loaded(l, n, bad)[k] = l.store[k]
<1> DEFINE es == Loaded(l, n, bad)
<1>1. es \in Seq(Entry) /\ Len(es) = n /\ EntriesInPlace(es)
  BY ReloadedInPlace DEF Loaded
<1>2. \A k \in 1 .. n : es[k] = IF k - 1 \in bad THEN None ELSE l.store[k]
  BY DEF Loaded
<1> HIDE DEF es
<1>3. \A k \in 1 .. n : k \in 1 .. Len(l.store)
  <2> DEFINE m == Len(l.store)
  <2>1. m \in Nat /\ n \in 0 .. m
    BY LogParts, Zenon
  <2> HIDE DEF m
  <2>2. \A k \in 1 .. n : k \in 1 .. m
    BY <2>1
  <2>3. QED BY <2>2 DEF m
<1>4. \A k \in 1 .. n : es[k] \in Heights \cup {None}
  BY <1>2, <1>3 DEF Entries
<1>5. Entries(es) \subseteq Heights \cup {None}
  BY <1>1, <1>4 DEF Entries
<1>6. QED BY <1>1, <1>2, <1>5 DEF es

\* A data source opened from what was recorded, less what cannot be loaded.
LEMMA OpenedFromRecord ==
  ASSUME NEW d, SourceInv(d), NEW v, RecordedIn(d, v), NEW bad, NEW n,
         n = OpenDataSource(Loaded(d.leaf_storage, v.leaves, bad), Loaded(d.block_storage, v.blocks, bad))
  PROVE  /\ SourceInv(n) /\ HasGenesis(n) /\ BothSettled(n) /\ RecordedIn(n, v) /\ IndexedAreWritten(n)
         /\ \/ v.leaves = 0 /\ v.blocks = 0 /\ GenesisOnly(n)
            \/ /\ v.leaves >= 1 /\ v.blocks >= 1
               /\ n.leaf_storage.store = Loaded(d.leaf_storage, v.leaves, bad)
               /\ n.block_storage.store = Loaded(d.block_storage, v.blocks, bad)
<1> DEFINE l == d.leaf_storage
           b == d.block_storage
           leaves == Loaded(l, v.leaves, bad)
           blocks == Loaded(b, v.blocks, bad)
           nl == v.leaves
           nb == v.blocks
<1>1. /\ LogInv(l) /\ LogInv(b) /\ nl \in Nat /\ nb \in Nat
      /\ nl <= Len(l.store) /\ nb <= Len(b.store) /\ nb <= nl /\ (nb = 0 => nl = 0)
      /\ Len(l.store) \in Nat /\ Len(b.store) \in Nat
  BY LengthsAre DEF SourceInv, LogsInv, RecordedIn
<1>2. nl \in 0 .. Len(l.store) /\ nb \in 0 .. Len(b.store)
  BY <1>1
<1>3. /\ leaves \in Seq(Entry) /\ Len(leaves) = nl /\ EntriesInPlace(leaves) /\ Entries(leaves) \subseteq Heights \cup {None}
      /\ blocks \in Seq(Entry) /\ Len(blocks) = nb /\ EntriesInPlace(blocks) /\ Entries(blocks) \subseteq Heights \cup {None}
  BY <1>1, <1>2, HeldHeights, LoadedInPlace
<1>4. n = OpenDataSource(leaves, blocks)
  OBVIOUS
<1> HIDE DEF leaves, blocks
<1>5. /\ SourceInv(n) /\ HasGenesis(n) /\ BothSettled(n) /\ IndexedAreWritten(n)
      /\ nl = 0 => GenesisOnly(n)
      /\ nl # 0 => n.leaf_storage.store = leaves /\ n.block_storage.store = blocks
  BY <1>1, <1>3, <1>4, OpenedInv
<1>6. nl <= Len(n.leaf_storage.store) /\ nb <= Len(n.block_storage.store)
  <2>1. CASE nl = 0
    <3>1. nb = 0
      BY <1>1, <2>1
    <3>2. Len(n.leaf_storage.store) \in Nat /\ Len(n.block_storage.store) \in Nat
      BY <1>5, LengthsAre DEF SourceInv
    <3>3. QED BY <2>1, <3>1, <3>2
  <2>2. CASE nl # 0
    <3>1. Len(n.leaf_storage.store) = nl /\ Len(n.block_storage.store) = nb
      BY <1>3, <1>5, <2>2
    <3>2. QED BY <1>1, <3>1
  <2>3. QED BY <2>1, <2>2
<1>7. RecordedIn(n, v)
  BY <1>1, <1>6 DEF RecordedIn
<1>8. (nl = 0 /\ nb = 0) \/ (nl >= 1 /\ nb >= 1)
  BY <1>1
<1>9. QED BY <1>5, <1>7, <1>8 DEF leaves, blocks

\* What is recorded stays within stores that grow, and so is what they are recorded as.
LEMMA GrownRecord ==
  ASSUME NEW d, SourceInv(d), HasGenesis(d), NEW v, RecordedIn(d, v),
         NEW n, SourceInv(n), StoresGrow(d, n), NEW w \in {v, Lengths(n)}
  PROVE  HasGenesis(n) /\ RecordedIn(n, w)
<1> DEFINE sl == Len(d.leaf_storage.store)
           sb == Len(d.block_storage.store)
           tl == Len(n.leaf_storage.store)
           tb == Len(n.block_storage.store)
<1>1. /\ sl \in Nat /\ sb \in Nat /\ tl \in Nat /\ tb \in Nat /\ tb <= tl
      /\ sl <= tl /\ sb <= tb /\ sl >= 1 /\ sb >= 1
      /\ v \in [ leaves : Nat, blocks : Nat ]
      /\ v.leaves <= sl /\ v.blocks <= sb /\ v.blocks <= v.leaves
      /\ (v.blocks = 0 => v.leaves = 0)
  BY LengthsAre DEF SourceInv, LogsInv, RecordedIn, HasGenesis, StoresGrow, Extends
<1>2. HasGenesis(n) <=> (tl >= 1 /\ tb >= 1)
  BY DEF HasGenesis
<1>3. RecordedIn(n, w) <=> /\ w \in [ leaves : Nat, blocks : Nat ]
                      /\ w.leaves <= tl /\ w.blocks <= tb
                      /\ w.blocks <= w.leaves
                      /\ (w.blocks = 0 => w.leaves = 0)
  BY DEF RecordedIn
<1>4. w = v \/ w = [ leaves |-> tl, blocks |-> tb ]
  BY DEF Lengths
<1> HIDE DEF sl, sb, tl, tb
<1>5. CASE w = v
  <2>1. v.leaves \in Nat /\ v.blocks \in Nat
    BY <1>1
  <2>2. v.leaves <= tl /\ v.blocks <= tb
    BY <1>1, <2>1
  <2>3. RecordedIn(n, w)
    BY <1>1, <1>3, <1>5, <2>2
  <2>4. tl >= 1 /\ tb >= 1
    BY <1>1
  <2>5. QED BY <1>2, <2>3, <2>4 DEF HasGenesis
<1>6. CASE w = [ leaves |-> tl, blocks |-> tb ]
  <2>1. w \in [ leaves : Nat, blocks : Nat ] /\ w.leaves = tl /\ w.blocks = tb
    BY <1>1, <1>6
  <2>2. tl >= 1 /\ tb >= 1
    BY <1>1
  <2>3. RecordedIn(n, w)
    BY <1>1, <1>3, <2>1, <2>2
  <2>4. QED BY <1>2, <2>2, <2>3 DEF HasGenesis
<1>7. QED BY <1>4, <1>5, <1>6

-----------------------------------------------------------------------------
(* Queries. *)

LEMMA NthInPlace ==
  ASSUME NEW l, LogInv(l), NEW i \in Nat
  PROVE  /\ Nth(l, i) \in {i, NotFound, Missing}
         /\ i < Len(l.store) /\ l.store[i + 1] = i => Nth(l, i) = i
<1>1. Yields(l, i) => Item(l, i) \in {None, i}
  BY ReadsInPlace
<1>2. ASSUME i < Len(l.store), l.store[i + 1] = i PROVE Nth(l, i) = i
  BY <1>2, StoredAvailable DEF Available, Nth
<1>3. QED BY <1>1, <1>2 DEF Nth

LEMMA BlockByHashRight ==
  ASSUME NEW d, SourceInv(d), NEW x \in Hashes, GetBlockByHash(d, x) \in Nat
  PROVE  BlockHash[GetBlockByHash(d, x)] = x
<1>1. LogInv(d.block_storage) /\ HashIndexRight(d.index_by_block_hash) /\ NotFound \notin Nat /\ Missing \notin Nat
  BY ValuesAssumption DEF SourceInv, LogsInv, IndicesRight
<1>2. d.index_by_block_hash[x] # None
  BY <1>1 DEF GetBlockByHash
<1>3. PICK g \in Heights : d.index_by_block_hash[x] = << g >> /\ BlockHash[g] = x
  BY <1>1, <1>2 DEF HashIndexRight
<1>4. GetBlockByHash(d, x) = Nth(d.block_storage, g)
  BY <1>2, <1>3 DEF GetBlockByHash, GetBlock
<1>5. Nth(d.block_storage, g) \in {g, NotFound, Missing}
  BY <1>1, HeightsAreNatural, NthInPlace
<1>6. QED BY <1>1, <1>3, <1>4, <1>5

LEMMA TransactionRight ==
  ASSUME NEW d, SourceInv(d), NEW t \in Transactions, GetBlockWithTransaction(d, t) \in Seq(Nat)
  PROVE  Payload[GetBlockWithTransaction(d, t)[1]][GetBlockWithTransaction(d, t)[2]] = t
<1>1. /\ LogInv(d.block_storage) /\ TransactionIndexRight(d.index_by_txn_hash)
      /\ NotFound \notin Nat /\ Missing \notin Nat /\ NotFound \notin Seq(Nat) /\ Missing \notin Seq(Nat)
  BY ValuesAssumption DEF SourceInv, LogsInv, IndicesRight
<1>2. d.index_by_txn_hash[t] # None
  BY <1>1 DEF GetBlockWithTransaction
<1>3. PICK g \in Heights : \E i \in DOMAIN Payload[g] : d.index_by_txn_hash[t] = << g, i >> /\ Payload[g][i] = t
  BY <1>1, <1>2 DEF TransactionIndexRight
<1>4. PICK i \in DOMAIN Payload[g] : d.index_by_txn_hash[t] = << g, i >> /\ Payload[g][i] = t
  BY <1>3
<1> DEFINE b == GetBlock(d, g)
           found == GetBlockWithTransaction(d, t)
<1>5. found = IF b \in Nat THEN << b, i >> ELSE b
  BY <1>2, <1>4 DEF GetBlockWithTransaction
<1>6. b \in {g, NotFound, Missing}
  BY <1>1, HeightsAreNatural, NthInPlace DEF GetBlock
<1> HIDE DEF b, found
<1>7. found \in Seq(Nat)
  BY DEF found
<1>8. b = g /\ g \in Nat
  BY <1>1, <1>5, <1>6, <1>7, HeightsAreNatural
<1>9. found[1] = g /\ found[2] = i
  BY <1>5, <1>8
<1>10. QED BY <1>4, <1>9 DEF found

LEMMA ProposalsRight ==
  ASSUME NEW d, SourceInv(d), NEW p \in Proposers, NEW limit \in Nat, GetProposals(d, p, limit) \in Seq(Nat),
         NEW j \in DOMAIN GetProposals(d, p, limit)
  PROVE  Proposer[GetProposals(d, p, limit)[j]] = p
<1> DEFINE ids == d.index_by_proposer_id[p]
           n == Len(ids)
           from == IF n > limit THEN n - limit ELSE 0
           leaves == [ i \in 1 .. n - from |-> GetLeaf(d, ids[from + i]) ]
           errors == { i \in DOMAIN leaves : leaves[i] \notin Nat }
           found == GetProposals(d, p, limit)
<1>1. /\ LogInv(d.leaf_storage) /\ ProposerIndexRight(d.index_by_proposer_id)
      /\ NotFound \notin Nat /\ Missing \notin Nat /\ NotFound \notin Seq(Nat) /\ Missing \notin Seq(Nat)
      /\ ids \in Seq(Heights)
  BY ValuesAssumption DEF SourceInv, LogsInv, IndicesRight, DataSource
<1>2. n \in Nat /\ \A i \in 1 .. n : ids[i] \in Heights /\ Proposer[ids[i]] = p
  BY <1>1, LenProperties, ElementOfSeq DEF ProposerIndexRight
<1>3. found = IF errors = {} THEN leaves ELSE leaves[Min(errors)]
  BY DEF GetProposals
<1> HIDE DEF n, ids, found
<1>4. from \in 0 .. n /\ \A i \in 1 .. n - from : from + i \in 1 .. n
  BY <1>2
<1> HIDE DEF from
<1>5. \A i \in 1 .. n - from : leaves[i] = Nth(d.leaf_storage, ids[from + i])
  BY DEF GetLeaf
<1>6. DOMAIN leaves = 1 .. n - from
  OBVIOUS
<1> HIDE DEF leaves
<1>7. \A i \in 1 .. n - from : leaves[i] \in {ids[from + i], NotFound, Missing}
  BY <1>1, <1>2, <1>4, <1>5, NthInPlace, HeightsAreNatural
<1>8. errors = {}
  <2>1. SUFFICES ASSUME errors # {} PROVE FALSE
    OBVIOUS
  <2>2. errors \subseteq Nat
    BY <1>2, <1>4, <1>6
  <2> DEFINE E == errors
  <2> HIDE DEF E
  <2>3. \E x \in E : \A y \in E : x <= y
    BY <2>1, <2>2, LeastNatural DEF E
  <2>4. Min(E) \in E
    BY <2>3 DEF Min
  <2>5. leaves[Min(E)] \in {NotFound, Missing}
    <3>1. Min(E) \in 1 .. n - from /\ leaves[Min(E)] \notin Nat
      BY <1>6, <2>4 DEF E
    <3>2. ids[from + Min(E)] \in Nat
      BY <1>2, <1>4, <3>1, HeightsAreNatural
    <3>3. QED BY <1>7, <3>1, <3>2
  <2>6. found = leaves[Min(E)]
    BY <1>3, <2>1 DEF E
  <2>7. QED BY <1>1, <2>5, <2>6 DEF found
<1>9. found = leaves /\ \A i \in 1 .. n - from : leaves[i] \in Nat
  BY <1>3, <1>6, <1>8
<1>10. j \in 1 .. n - from
  BY <1>6, <1>9 DEF found
<1>11. leaves[j] = ids[from + j]
  BY <1>1, <1>7, <1>9, <1>10
<1>12. Proposer[leaves[j]] = p
  BY <1>2, <1>4, <1>10, <1>11
<1>13. QED BY <1>9, <1>12 DEF found

\* The latest proposals, if all the leaves that are listed can be read.
AreLatest(found, mine, limit) ==
  /\ found \in Seq(Nat)
  /\ Range(found) = { h \in mine : Cardinality({ g \in mine : g > h }) < limit }
  /\ \A i, j \in DOMAIN found : i < j => found[i] < found[j]

LEMMA ProposalsServed ==
  ASSUME NEW d, NEW p, NEW mine \in SUBSET Nat, Lists(d.index_by_proposer_id[p], mine),
         \A h \in mine : GetLeaf(d, h) = h, NEW limit \in Nat
  PROVE  AreLatest(GetProposals(d, p, limit), mine, limit)
<1> DEFINE ids == d.index_by_proposer_id[p]
           n == Len(ids)
           from == IF n > limit THEN n - limit ELSE 0
           k == n - from
           leaves == [ i \in 1 .. k |-> GetLeaf(d, ids[from + i]) ]
           errors == { i \in DOMAIN leaves : leaves[i] \notin Nat }
           found == GetProposals(d, p, limit)
           last == { h \in mine : Cardinality({ g \in mine : g > h }) < limit }
<1>1. /\ n \in Nat /\ ids \in [ 1 .. n -> mine ] /\ mine = { ids[j] : j \in 1 .. n }
      /\ \A i, j \in 1 .. n : i < j => ids[i] < ids[j]
  BY LenProperties DEF Lists
<1>2. found = IF errors = {} THEN leaves ELSE leaves[Min(errors)]
  BY DEF GetProposals
<1>3. \A j \in 1 .. n : Cardinality({ g \in mine : g > ids[j] }) = n - j
  <2>1. mine \in SUBSET Int
    OBVIOUS
  <2>2. \A j \in 1 .. Len(ids) : Cardinality({ g \in mine : g > ids[j] }) = Len(ids) - j
    BY <2>1, CountAbove
  <2>3. QED BY <2>2
<1> HIDE DEF ids, n, found
<1>4. /\ from \in 0 .. n /\ k \in Nat /\ \A i \in 1 .. k : from + i \in 1 .. n
      /\ \A j \in 1 .. n : n - j < limit <=> j > from
      /\ \A j \in 1 .. n : j > from => j - from \in 1 .. k /\ from + (j - from) = j
      /\ \A i \in 1 .. k : from + i > from
      /\ \A i, j \in 1 .. k : i < j => from + i < from + j
  BY <1>1
<1> HIDE DEF from, k
<1>5. leaves = [ i \in 1 .. k |-> ids[from + i] ] /\ \A i \in 1 .. k : ids[from + i] \in mine
  BY <1>1, <1>4
<1>6. DOMAIN leaves = 1 .. k
  OBVIOUS
<1> HIDE DEF leaves
<1>7. \A i \in 1 .. k : leaves[i] = ids[from + i] /\ leaves[i] \in mine /\ leaves[i] \in Nat
  BY <1>5
<1>8. errors = {} /\ found = leaves
  BY <1>2, <1>6, <1>7
<1>9. found \in Seq(Nat)
  <2>1. leaves = [ i \in 1 .. k |-> leaves[i] ]
    BY <1>5, <1>6
  <2>2. [ i \in 1 .. k |-> leaves[i] ] \in Seq(Nat)
    BY <1>4, <1>7, IsASeq
  <2>3. QED BY <1>8, <2>1, <2>2
<1>10. Range(leaves) = last
  <2>1. ASSUME NEW i \in 1 .. k PROVE leaves[i] \in last
    <3>1. from + i \in 1 .. n /\ n - (from + i) < limit
      BY <1>4
    <3>2. QED BY <1>3, <1>7, <3>1
  <2>2. ASSUME NEW h \in last PROVE \E i \in 1 .. k : leaves[i] = h
    <3>1. PICK j \in 1 .. n : h = ids[j]
      BY <1>1
    <3>2. n - j < limit
      BY <1>3, <3>1
    <3>3. j - from \in 1 .. k /\ from + (j - from) = j
      BY <1>4, <3>2
    <3>4. QED BY <1>7, <3>1, <3>3
  <2> HIDE DEF last
  <2>3. QED BY <1>6, <2>1, <2>2 DEF Range
<1>11. \A i, j \in 1 .. k : i < j => leaves[i] < leaves[j]
  BY <1>1, <1>4, <1>7
<1>12. QED BY <1>6, <1>8, <1>9, <1>10, <1>11 DEF AreLatest, found, last

-----------------------------------------------------------------------------
(***************************************************************************)
(* Versions.  While events come in order, what can be read of a data       *)
(* source is what is written in its logs, in the stores or since.          *)
(***************************************************************************)
WrittenObjects(d) ==
  { << "leaf", h >>  : h \in Heights \cap WrittenIn(d.leaf_storage) } \cup
  { << "block", h >> : h \in Heights \cap WrittenIn(d.block_storage) }

StoredObjects(d) ==
  { << "leaf", h >>  : h \in Heights \cap Entries(d.leaf_storage.store) } \cup
  { << "block", h >> : h \in Heights \cap Entries(d.block_storage.store) }

\* Blocks may be far behind the leaves, with many placeholders to write before the
\* next one; but the blocks themselves that are not committed are of uncommitted
\* leaves, of which the cache holds all.
InOrder(d) ==
  /\ CachesAreWritten(d)
  /\ NextPos(d.leaf_storage) <= Len(d.leaf_storage.store) + CacheSize
  /\ \A h \in Entries(d.block_storage.appended) : h # None => h >= Len(d.leaf_storage.store)

LEMMA VisibleIsWritten ==
  ASSUME NEW d, SourceInv(d), InOrder(d)
  PROVE  Visible(d) = WrittenObjects(d)
<1> DEFINE l == d.leaf_storage
           b == d.block_storage
           p == NextPos(l)
           q == NextPos(b)
           s == Len(l.store)
<1>1. /\ LogInv(l) /\ LogInv(b) /\ p \in Nat /\ q \in Nat /\ s \in Nat /\ q <= p
      /\ CacheIsWritten(l) /\ CacheIsWritten(b) /\ p <= s + CacheSize /\ CacheSize \in Nat
      /\ \A h \in Entries(b.appended) : h # None => h >= s
  BY LengthsAre, CacheSizeAssumption DEF SourceInv, LogsInv, InOrder, CachesAreWritten
<1>2. \A h \in Entries(l.appended) : h # None => h \in Nat /\ h >= s
  BY <1>1, AppendedObject
<1>3. \A h \in Entries(b.appended) : h # None => h \in Nat /\ h >= s
  BY <1>1, AppendedObject
<1> HIDE DEF l, b, p, q, s
<1>4. \A h \in Nat : h >= s => h + CacheSize >= p /\ h + CacheSize >= q
  BY <1>1
<1>5. RecentlyAppended(l) /\ RecentlyAppended(b)
  BY <1>2, <1>3, <1>4 DEF RecentlyAppended, p, q
<1>6. \A i \in Heights : /\ Available(l, i) <=> i \in WrittenIn(l)
                         /\ Available(b, i) <=> i \in WrittenIn(b)
  BY <1>1, <1>5, HeightsAreNatural, ReadableIsWritten
<1>7. QED BY <1>6 DEF Visible, WrittenObjects, l, b

\* What is in the stores, by position.
LEMMA StoredAre ==
  ASSUME NEW d, SourceInv(d)
  PROVE  StoredObjects(d) =
           { << "leaf", h >>  : h \in { n \in 0 .. Len(d.leaf_storage.store) - 1 : d.leaf_storage.store[n + 1] = n } } \cup
           { << "block", h >> : h \in { n \in 0 .. Len(d.block_storage.store) - 1 : d.block_storage.store[n + 1] = n } }
<1>1. ASSUME NEW l, LogInv(l), Entries(l.store) \subseteq Heights \cup {None}
      PROVE  Heights \cap Entries(l.store) = { n \in 0 .. Len(l.store) - 1 : l.store[n + 1] = n }
  <2> DEFINE c == Len(l.store)
  <2>1. c \in Nat
    BY <1>1, LogParts
  <2>2. \A h \in Entries(l.store) : h \in Heights => h \in Nat /\ h < c /\ l.store[h + 1] = h
    BY <1>1, StoredObject, HeightsAreNatural, NoneAssumption
  <2>3. ASSUME NEW n \in 0 .. c - 1, l.store[n + 1] = n PROVE n \in Heights \cap Entries(l.store)
    <3>1. n \in Nat /\ n + 1 \in 1 .. c
      BY <2>1
    <3>2. n \in Entries(l.store)
      BY <2>3, <3>1 DEF Entries
    <3>3. QED BY <1>1, <3>1, <3>2, NoneAssumption
  <2> HIDE DEF c
  <2>4. \A h \in Nat : h < c => h \in 0 .. c - 1
    BY <2>1
  <2>5. QED BY <2>2, <2>3, <2>4 DEF c
<1>2. LogInv(d.leaf_storage) /\ LogInv(d.block_storage)
  BY DEF SourceInv, LogsInv
<1>3. /\ Heights \cap Entries(d.leaf_storage.store) =
           { n \in 0 .. Len(d.leaf_storage.store) - 1 : d.leaf_storage.store[n + 1] = n }
      /\ Heights \cap Entries(d.block_storage.store) =
           { n \in 0 .. Len(d.block_storage.store) - 1 : d.block_storage.store[n + 1] = n }
  BY <1>1, <1>2, HeldHeights
<1>4. QED BY <1>3 DEF StoredObjects

\* A data source that has no uncommitted changes shows what is in its stores.
LEMMA SettledInOrder ==
  ASSUME NEW d, SourceInv(d), BothSettled(d)
  PROVE  InOrder(d) /\ WrittenObjects(d) = StoredObjects(d)
<1>1. LogInv(d.leaf_storage) /\ Settled(d.leaf_storage) /\ Settled(d.block_storage)
  BY DEF SourceInv, LogsInv, BothSettled
<1>2. Entries(<< >>) = {}
  BY DEF Entries
<1>3. NextPos(d.leaf_storage) = Len(d.leaf_storage.store) /\ Len(d.leaf_storage.store) \in Nat
  BY <1>1, SettledLog, LogParts
<1>4. NextPos(d.leaf_storage) <= Len(d.leaf_storage.store) + CacheSize
  BY <1>3, CacheSizeAssumption
<1>5. Entries(d.block_storage.appended) = {}
  BY <1>1, <1>2 DEF Settled
<1>6. InOrder(d)
  BY <1>1, <1>4, <1>5 DEF InOrder, CachesAreWritten, Settled
<1>7. /\ WrittenIn(d.leaf_storage) = Entries(d.leaf_storage.store)
      /\ WrittenIn(d.block_storage) = Entries(d.block_storage.store)
  BY <1>1, <1>2 DEF WrittenIn, Settled
<1>8. QED BY <1>6, <1>7 DEF WrittenObjects, StoredObjects

LEMMA UpdateStaysInOrder ==
  ASSUME NEW d, SourceInv(d), InOrder(d), NEW e \in Event, e.first = NextPos(d.leaf_storage),
         e.last + 1 <= Len(d.leaf_storage.store) + CacheSize
  PROVE  LET y == UpdateFrom(d, e) IN SourceInv(y) /\ InOrder(y) /\ SameStores(d, y) /\ WritesMore(d, y)
<1> DEFINE y == UpdateFrom(d, e)
           s == Len(d.leaf_storage.store)
           t == Len(d.block_storage.store)
           p == NextPos(d.leaf_storage)
<1>1. /\ LogInv(d.leaf_storage) /\ LogInv(d.block_storage) /\ s \in Nat /\ t \in Nat /\ p \in Nat /\ s <= p
      /\ CachesAreWritten(d) /\ \A h \in Entries(d.block_storage.appended) : h # None => h >= s
  BY LengthsAre DEF SourceInv, LogsInv, InOrder
<1>2. SourceInv(y) /\ SameStores(d, y)
  BY UpdateKeeps
<1>3. e.first >= p
  BY <1>1
<1>4. /\ Brings(d, y, e.first .. e.last) /\ CachesAreWritten(y) /\ WritesMore(d, y)
      /\ NextPos(y.leaf_storage) = e.last + 1
  BY <1>1, <1>3, UpdateInOrder
<1> HIDE DEF y
<1>5. ASSUME NEW h \in Entries(y.block_storage.appended), h # None PROVE h >= s
  <2>1. LogInv(y.block_storage) /\ y.block_storage.store = d.block_storage.store
    BY <1>2 DEF SourceInv, LogsInv, SameStores
  <2>2. h \in Nat /\ h >= t
    BY <1>5, <2>1, AppendedObject
  <2>3. h \in Held(d.block_storage) \/ h \in e.first .. e.last
    BY <1>4, <1>5 DEF Brings, Held
  <2>4. h \in Held(d.block_storage) => h \in WrittenIn(d.block_storage)
    BY <1>1, <1>5 DEF CachesAreWritten, CacheIsWritten, Held, WrittenIn
  <2>5. h \notin Entries(d.block_storage.store)
    <3>1. h \in Entries(d.block_storage.store) => h < t
      BY <1>1, <1>5, StoredObject
    <3> HIDE DEF t
    <3>2. QED BY <1>1, <2>2, <3>1
  <2>6. CASE h \in Entries(d.block_storage.appended)
    BY <1>1, <1>5, <2>6
  <2>7. CASE h \in e.first .. e.last
    <3>1. e.first \in Nat /\ e.last \in Nat /\ e.first = p
      BY EventFacts
    <3> HIDE DEF s, p
    <3>2. QED BY <1>1, <2>7, <3>1
  <2>8. QED BY <2>3, <2>4, <2>5, <2>6, <2>7 DEF WrittenIn
<1>6. y.leaf_storage.store = d.leaf_storage.store
  BY <1>2 DEF SameStores
<1>7. InOrder(y)
  BY <1>4, <1>5, <1>6 DEF InOrder
<1>8. QED BY <1>2, <1>4, <1>7 DEF y

\* A commit puts all that is written into the stores.
LEMMA CommitSettles ==
  ASSUME NEW d, SourceInv(d), CachesAreWritten(d)
  PROVE  LET y == CommitBlocks(CommitLeaves(d)) IN BothSettled(y) /\ StoredObjects(y) = WrittenObjects(d)
<1> DEFINE x == CommitLeaves(d)
           y == CommitBlocks(x)
           l == d.leaf_storage
           b == d.block_storage
<1>1. /\ LogInv(l) /\ LogInv(b) /\ CacheIsWritten(l) /\ CacheIsWritten(b)
      /\ NextPos(b) <= NextPos(l)
  BY DEF SourceInv, LogsInv, CachesAreWritten
<1>2. /\ SourceInv(x) /\ Len(x.leaf_storage.store) = NextPos(l)
      /\ x.leaf_storage = CommitVersion(l) /\ x.block_storage = b
  BY LeavesCommitted
<1>3. NextPos(x.block_storage) <= Len(x.leaf_storage.store)
  BY <1>1, <1>2
<1> HIDE DEF x
<1>4. y.block_storage = CommitVersion(b) /\ y.leaf_storage = CommitVersion(l)
  BY <1>2, <1>3, BlocksCommitted
<1> HIDE DEF y
<1>5. /\ Settled(CommitVersion(l)) /\ Settled(CommitVersion(b))
      /\ Entries(CommitVersion(l).store) = WrittenIn(l) /\ Entries(CommitVersion(b).store) = WrittenIn(b)
  BY <1>1, CommitWrites DEF Settled
<1>6. QED BY <1>4, <1>5 DEF BothSettled, StoredObjects, WrittenObjects, x, y

\* A revert takes all that is not in the stores back.
LEMMA RevertSettles ==
  ASSUME NEW d, SourceInv(d), CachesAreWritten(d),
         d.leaf_storage.pending_inserts <= CacheSize, d.block_storage.pending_inserts <= CacheSize
  PROVE  BothSettled(RevertBoth(d))
<1>1. /\ LogInv(d.leaf_storage) /\ LogInv(d.block_storage)
      /\ CacheIsWritten(d.leaf_storage) /\ CacheIsWritten(d.block_storage)
  BY DEF SourceInv, LogsInv, CachesAreWritten
<1>2. Settled(RevertVersion(d.leaf_storage)) /\ Settled(RevertVersion(d.block_storage))
  BY <1>1, RevertWrites
<1>3. d \in DataSource
  BY DEF SourceInv
<1>4. /\ RevertBoth(d).leaf_storage = RevertVersion(d.leaf_storage)
      /\ RevertBoth(d).block_storage = RevertVersion(d.block_storage)
  BY <1>3 DEF RevertBoth, DataSource
<1>5. QED BY <1>2, <1>4 DEF BothSettled

-----------------------------------------------------------------------------
(***************************************************************************)
(* Without uncommitted entries, all that a data source answers follows from *)
(* its stores: the indices are determined by what they cover and lead to.   *)
(***************************************************************************)

\* What is read of a log without uncommitted entries depends on its store only.
LEMMA SettledReads ==
  ASSUME NEW l, LogInv(l), Settled(l), NEW i \in Nat
  PROVE  /\ Nth(l, i) = IF i \in Entries(l.store) THEN i ELSE IF i < Len(l.store) THEN Missing ELSE NotFound
         /\ Available(l, i) <=> i \in Entries(l.store)
<1> DEFINE st == l.cache_start
           c  == Len(l.cache)
           s  == Len(l.store)
<1>1. /\ st \in Nat /\ c \in Nat /\ s \in Nat /\ IterLen(l) = st + c /\ IterLen(l) = s
  BY LogParts, IterLenIs, SettledLog DEF IterLen
<1>2. Yields(l, i) <=> IF i >= st THEN i - st < c ELSE i < s
  BY DEF Yields
<1>3. i < s => Yields(l, i)
  BY ReadsInPlace
<1> HIDE DEF st, c, s
<1>4. Yields(l, i) <=> i < s
  BY <1>1, <1>2, <1>3
<1>5. i # None
  BY NoneAssumption
<1>6. Entries(l.appended) = {} /\ CacheIsWritten(l) /\ RecentlyAppended(l) /\ WrittenIn(l) = Entries(l.store)
  BY DEF Settled, Entries, RecentlyAppended, WrittenIn
<1>7. Available(l, i) <=> i \in Entries(l.store)
  BY <1>6, ReadableIsWritten
<1>8. Yields(l, i) => Item(l, i) \in {None, i}
  BY ReadsInPlace
<1>9. QED BY <1>4, <1>5, <1>7, <1>8 DEF Nth, Available, s

\* The indices of blocks, of transactions and of proposals are determined by what
\* they cover.
LEMMA OneHashIndex ==
  ASSUME NEW L, NEW ix \in HashIndex, HashIndexRight(ix), HashesWithin(ix, L),
         NEW iy \in HashIndex, HashIndexRight(iy), HashesWithin(iy, L),
         \A h \in L : h # None => HashCovered(ix, h) /\ HashCovered(iy, h)
  PROVE  ix = iy
<1>1. ASSUME NEW a \in HashIndex, NEW b \in HashIndex, HashIndexRight(a), HashesWithin(a, L),
             \A h \in L : h # None => HashCovered(b, h),
             NEW x \in Hashes, a[x] # None
      PROVE  \E g, f \in Nat : a[x] = << g >> /\ b[x] = << f >> /\ f <= g
  <2>1. PICK g \in Heights : a[x] = << g >> /\ BlockHash[g] = x
    BY <1>1 DEF HashIndexRight
  <2>2. g \in L /\ g # None /\ g \in Nat
    BY <1>1, <2>1, HeightsAreNatural, NoneAssumption DEF HashesWithin
  <2>3. b[x] \in { << f >> : f \in 0 .. g }
    BY <1>1, <2>1, <2>2 DEF HashCovered
  <2>4. PICK f \in 0 .. g : b[x] = << f >>
    BY <2>3
  <2>5. f \in Nat /\ f <= g
    BY <2>2
  <2>6. QED BY <2>1, <2>2, <2>4, <2>5
<1>2. ASSUME NEW x \in Hashes PROVE ix[x] = iy[x]
  <2>1. CASE ix[x] # None
    <3>1. PICK g, f \in Nat : ix[x] = << g >> /\ iy[x] = << f >> /\ f <= g
      BY <1>1, <2>1
    <3>2. iy[x] # None
      BY <3>1, PlaceIsNotNone
    <3>3. PICK e, k \in Nat : iy[x] = << e >> /\ ix[x] = << k >> /\ k <= e
      BY <1>1, <3>2
    <3>4. e = f /\ k = g
      BY <3>1, <3>3
    <3>5. QED BY <3>1, <3>3, <3>4
  <2>2. CASE iy[x] # None
    <3>1. PICK g, f \in Nat : iy[x] = << g >> /\ ix[x] = << f >> /\ f <= g
      BY <1>1, <2>2
    <3>2. ix[x] # None
      BY <3>1, PlaceIsNotNone
    <3>3. QED BY <2>1, <3>2
  <2>3. QED BY <2>1, <2>2
<1>3. QED BY <1>2 DEF HashIndex

LEMMA OneTransactionIndex ==
  ASSUME NEW B, NEW ix \in TransactionIndex, TransactionIndexRight(ix), PlacesWithin(ix, B),
         NEW iy \in TransactionIndex, TransactionIndexRight(iy), PlacesWithin(iy, B),
         \A h \in B : h # None => \A i \in DOMAIN Payload[h] :
           TransactionCovered(ix, h, i) /\ TransactionCovered(iy, h, i)
  PROVE  ix = iy
<1>1. ASSUME NEW a \in TransactionIndex, TransactionIndexRight(a), PlacesWithin(a, B),
             NEW b, \A h \in B : h # None => \A i \in DOMAIN Payload[h] : TransactionCovered(b, h, i),
             NEW t \in Transactions, a[t] # None
      PROVE  /\ b[t] # None /\ ~ PlaceBefore(a[t], b[t])
             /\ \E g, i \in Nat : a[t] = << g, i >>
  <2>1. PICK g \in Heights : \E i \in DOMAIN Payload[g] : a[t] = << g, i >> /\ Payload[g][i] = t
    BY <1>1 DEF TransactionIndexRight
  <2>2. PICK i \in DOMAIN Payload[g] : a[t] = << g, i >> /\ Payload[g][i] = t
    BY <2>1
  <2>3. g \in Nat /\ i \in Nat /\ g # None
    BY HeightsAreNatural, PayloadFacts, NoneAssumption
  <2>4. g \in B
    BY <1>1, <2>2, <2>3 DEF PlacesWithin
  <2>5. TransactionCovered(b, g, i)
    BY <1>1, <2>3, <2>4
  <2>6. QED BY <2>2, <2>3, <2>5 DEF TransactionCovered
<1>2. ASSUME NEW t \in Transactions PROVE ix[t] = iy[t]
  <2>1. CASE ix[t] # None
    <3>1. iy[t] # None /\ ~ PlaceBefore(ix[t], iy[t]) /\ \E g, i \in Nat : ix[t] = << g, i >>
      BY <1>1, <2>1
    <3>2. ~ PlaceBefore(iy[t], ix[t]) /\ \E g, i \in Nat : iy[t] = << g, i >>
      BY <1>1, <3>1
    <3>3. PICK g, i \in Nat : ix[t] = << g, i >>
      BY <3>1
    <3>4. PICK f, j \in Nat : iy[t] = << f, j >>
      BY <3>2
    <3>5. /\ PlaceBefore(<< g, i >>, << f, j >>) <=> (g < f \/ (g = f /\ i < j))
          /\ PlaceBefore(<< f, j >>, << g, i >>) <=> (f < g \/ (f = g /\ j < i))
      BY TransactionPlaces
    <3>6. ~ PlaceBefore(<< g, i >>, << f, j >>) /\ ~ PlaceBefore(<< f, j >>, << g, i >>)
      BY <3>1, <3>2, <3>3, <3>4
    <3>7. g = f /\ i = j
      BY <3>5, <3>6
    <3>8. QED BY <3>3, <3>4, <3>7
  <2>2. CASE iy[t] # None
    <3>1. ix[t] # None
      BY <1>1, <2>2
    <3>2. QED BY <2>1, <3>1
  <2>3. QED BY <2>1, <2>2
<1>3. QED BY <1>2 DEF TransactionIndex

LEMMA ProposalsListed ==
  ASSUME NEW d, SourceInv(d), IndexedAreWritten(d), NEW p \in Proposers
  PROVE  /\ d.index_by_proposer_id[p] \in Seq(Heights)
         /\ Lists(d.index_by_proposer_id[p], { h \in WrittenIn(d.leaf_storage) : h # None /\ Proposer[h] = p })
<1> DEFINE s == d.index_by_proposer_id[p]
           L == WrittenIn(d.leaf_storage)
           S == { h \in L : h # None /\ Proposer[h] = p }
<1>1. s \in Seq(Heights) /\ Ascends(s) /\ Entries(s) \subseteq L
  BY DEF SourceInv, DataSource, IndexedAreWritten, IndexedWithin, ListsWithin
<1>2. \A k \in 1 .. Len(s) : s[k] \in Heights /\ Proposer[s[k]] = p
  BY <1>1, LenProperties, ElementOfSeq DEF SourceInv, IndicesRight, ProposerIndexRight
<1>3. \A k \in 1 .. Len(s) : s[k] \in S
  BY <1>1, <1>2, HeightsAreNatural, NoneAssumption DEF Entries
<1>4. L \subseteq Held(d.leaf_storage)
  BY DEF WrittenIn, Held
<1>5. \A h \in S : h \in Entries(s)
  BY <1>4 DEF SourceInv, HeldIndexed, LeafIndexed
<1> HIDE DEF S, s
<1>6. S = { s[k] : k \in 1 .. Len(s) }
  BY <1>3, <1>5 DEF Entries
<1>7. s \in Seq(S)
  <2> DEFINE n == Len(s)
  <2>1. n \in Nat /\ s = [ k \in 1 .. n |-> s[k] ]
    BY <1>1, LenProperties
  <2> HIDE DEF n
  <2>2. [ k \in 1 .. n |-> s[k] ] \in Seq(S)
    BY <1>3, <2>1, IsASeq DEF n
  <2>3. QED BY <2>1, <2>2
<1>8. QED BY <1>1, <1>6, <1>7 DEF Lists, Ascends, S, s

\* Without uncommitted entries, two data sources with the same stores answer the same.
LEMMA SameWhenSettled ==
  ASSUME NEW d, SourceInv(d), IndexedAreWritten(d), BothSettled(d),
         NEW n, SourceInv(n), IndexedAreWritten(n), BothSettled(n), SameStores(d, n)
  PROVE  /\ SameIndices(d, n)
         /\ \A h \in Nat : GetLeaf(n, h) = GetLeaf(d, h) /\ GetBlock(n, h) = GetBlock(d, h)
<1> DEFINE L == Entries(d.leaf_storage.store)
           B == Entries(d.block_storage.store)
<1>1. ASSUME NEW x \in {d, n}
      PROVE  /\ SourceInv(x) /\ x \in DataSource /\ IndicesRight(x) /\ IndexedAreWritten(x)
             /\ LogInv(x.leaf_storage) /\ Settled(x.leaf_storage) /\ x.leaf_storage.store = d.leaf_storage.store
             /\ LogInv(x.block_storage) /\ Settled(x.block_storage) /\ x.block_storage.store = d.block_storage.store
  BY DEF SourceInv, LogsInv, BothSettled, SameStores
<1>2. ASSUME NEW x \in {d, n}
      PROVE  /\ WrittenIn(x.leaf_storage) = L /\ WrittenIn(x.block_storage) = B
             /\ \A h \in L : h # None => LeafIndexed(x, h)
             /\ \A h \in B : h # None => BlockIndexed(x, h)
             /\ IndexedWithin(x, L, B)
  <2>1. Entries(x.leaf_storage.appended) = {} /\ Entries(x.block_storage.appended) = {}
    BY <1>1 DEF Settled, Entries
  <2>2. WrittenIn(x.leaf_storage) = L /\ WrittenIn(x.block_storage) = B
    BY <1>1, <2>1 DEF WrittenIn
  <2>3. HeldIndexed(x) /\ L \subseteq Held(x.leaf_storage) /\ B \subseteq Held(x.block_storage)
    BY <1>1 DEF SourceInv, Held
  <2> HIDE DEF L, B
  <2>4. QED BY <1>1, <2>2, <2>3 DEF HeldIndexed, IndexedAreWritten
<1> HIDE DEF L, B
<1>3. n.index_by_leaf_hash = d.index_by_leaf_hash
  <2>1. ASSUME NEW x \in {d, n} PROVE x.index_by_leaf_hash = L \ {None}
    <3>1. x.index_by_leaf_hash \subseteq Heights /\ x.index_by_leaf_hash \subseteq L
      BY <1>1, <1>2 DEF DataSource, IndexedWithin
    <3>2. \A h \in L : h # None => h \in x.index_by_leaf_hash
      BY <1>2 DEF LeafIndexed
    <3>3. QED BY <3>1, <3>2, HeightsAreNatural, NoneAssumption
  <2>2. QED BY <2>1
<1>4. n.index_by_block_hash = d.index_by_block_hash
  <2>1. ASSUME NEW x \in {d, n}
        PROVE  /\ x.index_by_block_hash \in HashIndex /\ HashIndexRight(x.index_by_block_hash)
               /\ HashesWithin(x.index_by_block_hash, L)
               /\ \A h \in L : h # None => HashCovered(x.index_by_block_hash, h)
    BY <1>1, <1>2 DEF DataSource, HashIndex, IndicesRight, IndexedWithin, LeafIndexed
  <2>2. QED BY <2>1, OneHashIndex
<1>5. n.index_by_txn_hash = d.index_by_txn_hash
  <2>1. ASSUME NEW x \in {d, n}
        PROVE  /\ x.index_by_txn_hash \in TransactionIndex /\ TransactionIndexRight(x.index_by_txn_hash)
               /\ PlacesWithin(x.index_by_txn_hash, B)
               /\ \A h \in B : h # None => \A i \in DOMAIN Payload[h] : TransactionCovered(x.index_by_txn_hash, h, i)
    BY <1>1, <1>2 DEF DataSource, TransactionIndex, IndicesRight, IndexedWithin, BlockIndexed
  <2>2. QED BY <2>1, OneTransactionIndex
<1>6. n.index_by_proposer_id = d.index_by_proposer_id
  <2>1. ASSUME NEW x \in {d, n}, NEW p \in Proposers
        PROVE  Lists(x.index_by_proposer_id[p], { h \in L : h # None /\ Proposer[h] = p })
    <3>1. SourceInv(x) /\ IndexedAreWritten(x) /\ WrittenIn(x.leaf_storage) = L
      BY <1>1, <1>2
    <3>2. QED BY <3>1, ProposalsListed
  <2>2. ASSUME NEW p \in Proposers PROVE n.index_by_proposer_id[p] = d.index_by_proposer_id[p]
    <3> DEFINE S == { h \in L : h # None /\ Proposer[h] = p }
    <3>1. S \in SUBSET Nat
      <4>1. \A h \in L : h # None => h \in Nat
        BY <1>2, HeightsAreNatural DEF LeafIndexed
      <4>2. QED BY <4>1
    <3>2. Lists(n.index_by_proposer_id[p], S) /\ Lists(d.index_by_proposer_id[p], S)
      BY <2>1
    <3> HIDE DEF S
    <3>3. QED BY <3>1, <3>2, OneList
  <2>3. d.index_by_proposer_id \in ProposerIndex /\ n.index_by_proposer_id \in ProposerIndex
    BY <1>1 DEF DataSource, ProposerIndex
  <2>4. QED BY <2>2, <2>3 DEF ProposerIndex
<1>7. ASSUME NEW h \in Nat PROVE GetLeaf(n, h) = GetLeaf(d, h) /\ GetBlock(n, h) = GetBlock(d, h)
  <2>1. Nth(n.leaf_storage, h) = Nth(d.leaf_storage, h)
    BY <1>1, SettledReads
  <2>2. Nth(n.block_storage, h) = Nth(d.block_storage, h)
    BY <1>1, SettledReads
  <2>3. QED BY <2>1, <2>2 DEF GetLeaf, GetBlock
<1>8. QED BY <1>3, <1>4, <1>5, <1>6, <1>7 DEF SameIndices

-----------------------------------------------------------------------------
(***************************************************************************)
(* Ranges.  The stream of a range is a recursive function of the number of *)
(* steps; its closed form is stated, shown to satisfy the recursion, and   *)
(* then to be the only function that does.                                 *)
(***************************************************************************)

\* The first position of a range and the position of the iterator moved there: the
\* iterator over the store follows it up to the cache, unless the range starts beyond.
RangeFrom(start) ==
  IF start.kind = "included" THEN start.n
  ELSE IF start.kind = "excluded" THEN start.n + 1 ELSE 0

IterAt(cs, from, k) ==
  [ index |-> from + k,
    store |-> IF from > cs THEN 0 ELSE IF from + k <= cs THEN from + k ELSE cs ]

\* Moving the iterator by one.
LEMMA IterAtNext ==
  ASSUME NEW cs \in Nat, NEW from \in Nat, NEW k \in Nat
  PROVE  /\ IterAt(cs, from, k + 1).index = IterAt(cs, from, k).index + 0 + 1
         /\ IterAt(cs, from, k + 1).store =
              IF IterAt(cs, from, k).index + 0 >= cs THEN IterAt(cs, from, k).store
              ELSE IterAt(cs, from, k).store + 0 + 1
         /\ ~ (IterAt(cs, from, k).index + 0 >= cs) => IterAt(cs, from, k).store = from + k
BY DEF IterAt

\* What a range reads at a position.
RangeItem(l, n) == IF Item(l, n) = None THEN Missing ELSE Item(l, n)

\* The iterator is moved to the start of the range.
LEMMA RangeStartIs ==
  ASSUME NEW l, LogInv(l), NEW start \in Bound
  PROVE  /\ RangeFrom(start) \in Nat
         /\ RangeStart(l, start) =
              [ pos |-> RangeFrom(start), iter |-> IterAt(l.cache_start, RangeFrom(start), 0) ]
<1> DEFINE cs == l.cache_start
           f  == RangeFrom(start)
<1>1. cs \in Nat
  BY LogParts
<1>2. CASE start.kind = "included"
  <2>1. start.n \in Nat /\ f = start.n
    BY <1>2, LedgerAssumption DEF Bound, RangeFrom
  <2>2. RangeStart(l, start) =
          [ pos  |-> start.n,
            iter |-> IF start.n > 0 THEN IterNth(l, FreshIter, start.n - 1).iter ELSE FreshIter ]
    BY <1>2 DEF RangeStart
  <2>3. CASE start.n > 0
    <3>1. IterNth(l, FreshIter, start.n - 1).iter
            = [ index |-> 0 + (start.n - 1) + 1,
                store |-> IF 0 + (start.n - 1) >= cs THEN 0 ELSE 0 + (start.n - 1) + 1 ]
      BY DEF IterNth, FreshIter
    <3>2. /\ 0 + (start.n - 1) + 1 = start.n + 0
          /\ (IF 0 + (start.n - 1) >= cs THEN 0 ELSE 0 + (start.n - 1) + 1)
               = IF start.n > cs THEN 0 ELSE IF start.n + 0 <= cs THEN start.n + 0 ELSE cs
      BY <1>1, <2>1, <2>3
    <3>3. QED BY <2>1, <2>2, <2>3, <3>1, <3>2 DEF IterAt
  <2>4. CASE ~ (start.n > 0)
    <3>1. start.n = 0
      BY <2>1, <2>4
    <3>2. /\ start.n + 0 = 0
          /\ (IF start.n > cs THEN 0 ELSE IF start.n + 0 <= cs THEN start.n + 0 ELSE cs) = 0
      BY <1>1, <3>1
    <3>3. QED BY <2>1, <2>2, <2>4, <3>1, <3>2 DEF IterAt, FreshIter
  <2>5. QED BY <2>3, <2>4
<1>3. CASE start.kind = "excluded"
  <2>1. start.n \in Nat /\ f = start.n + 1
    BY <1>3, LedgerAssumption DEF Bound, RangeFrom
  <2>2. RangeStart(l, start) = [ pos |-> start.n + 1, iter |-> IterNth(l, FreshIter, start.n).iter ]
    BY <1>3 DEF RangeStart
  <2>3. IterNth(l, FreshIter, start.n).iter
          = [ index |-> 0 + start.n + 1,
              store |-> IF 0 + start.n >= cs THEN 0 ELSE 0 + start.n + 1 ]
    BY DEF IterNth, FreshIter
  <2>4. /\ 0 + start.n + 1 = start.n + 1 + 0
        /\ (IF 0 + start.n >= cs THEN 0 ELSE 0 + start.n + 1)
             = IF start.n + 1 > cs THEN 0 ELSE IF start.n + 1 + 0 <= cs THEN start.n + 1 + 0 ELSE cs
    BY <1>1, <2>1
  <2>5. start.n + 1 \in Nat
    BY <2>1
  <2>6. QED BY <2>1, <2>2, <2>3, <2>4, <2>5 DEF IterAt
<1>4. CASE start.kind \notin {"included", "excluded"}
  <2>1. f = 0 /\ RangeStart(l, start) = [ pos |-> 0, iter |-> FreshIter ]
    BY <1>4 DEF RangeFrom, RangeStart
  <2>2. 0 + 0 = 0 /\ (IF 0 > cs THEN 0 ELSE IF 0 + 0 <= cs THEN 0 + 0 ELSE cs) = 0
    BY <1>1
  <2>3. QED BY <2>1, <2>2 DEF IterAt, FreshIter
<1>5. QED BY <1>2, <1>3, <1>4

\* One step of the iterator: it yields what is at its position, wherever that is kept.
LEMMA IterReads ==
  ASSUME NEW l, LogInv(l), l.pending_inserts <= CacheSize, NEW from \in Nat, NEW k \in Nat
  PROVE  LET next == IterNth(l, IterAt(l.cache_start, from, k), 0) IN
         /\ next.some <=> from + k < IterLen(l)
         /\ next.some => next.item = Item(l, from + k)
         /\ next.iter = IterAt(l.cache_start, from, k + 1)
<1> DEFINE cs == l.cache_start
           nC == Len(l.cache)
           nS == Len(l.store)
           it == IterAt(cs, from, k)
           at == from + k
           next == IterNth(l, it, 0)
<1>1. /\ cs \in Nat /\ nC \in Nat /\ nS \in Nat /\ cs <= nS
  <2> DEFINE nA == Len(l.appended)
  <2>1. /\ cs \in Nat /\ nC \in Nat /\ nS \in Nat /\ nA \in Nat /\ CacheSize \in Nat
        /\ cs + nC = nS + nA /\ (nC >= nA \/ nC >= CacheSize) /\ nA <= CacheSize
    BY LogParts, CacheSizeAssumption DEF LogInv
  <2> HIDE DEF nA, nC, nS
  <2>2. cs <= nS
    BY <2>1
  <2>3. QED BY <2>1, <2>2
<1>2. it.index = at /\ it.index + 0 = at /\ at \in Nat
  BY DEF IterAt
<1>3. /\ IterAt(cs, from, k + 1).index = at + 1
      /\ IterAt(cs, from, k + 1).store = IF at >= cs THEN it.store ELSE it.store + 0 + 1
      /\ ~ (at >= cs) => it.store = at
  <2>1. it.index + 0 + 1 = at + 1
    BY <1>2
  <2> HIDE DEF it, at
  <2>2. /\ IterAt(cs, from, k + 1).index = it.index + 0 + 1
        /\ IterAt(cs, from, k + 1).store =
             IF it.index + 0 >= cs THEN it.store ELSE it.store + 0 + 1
        /\ ~ (it.index + 0 >= cs) => it.store = from + k
    <3>1. cs \in Nat
      BY <1>1
    <3> HIDE DEF cs
    <3>2. QED BY <3>1, IterAtNext, Zenon DEF it
  <2>3. QED BY <1>2, <2>1, <2>2 DEF at
<1>4. next.iter = IterAt(cs, from, k + 1)
  <2>1. next.iter = [ index |-> at + 1, store |-> IF at >= cs THEN it.store ELSE it.store + 0 + 1 ]
    BY <1>2 DEF IterNth
  <2>2. IterAt(cs, from, k + 1)
          = [ index |-> IterAt(cs, from, k + 1).index, store |-> IterAt(cs, from, k + 1).store ]
    BY DEF IterAt
  <2>3. QED BY <2>1, <2>2, <1>3
<1>5. CASE at >= cs
  <2>1. /\ next.some <=> at - cs < nC
        /\ next.some => next.item = l.cache[at - cs + 1]
    BY <1>2, <1>5 DEF IterNth
  <2>2. at - cs < nC <=> at < IterLen(l)
    <3> HIDE DEF at, nC
    <3>1. at - cs < nC <=> at < cs + nC
      BY <1>1, <1>2
    <3>2. QED BY <3>1 DEF nC, IterLen
  <2>3. Item(l, at) = l.cache[at - cs + 1]
    BY <1>5 DEF Item
  <2>4. QED BY <1>4, <2>1, <2>2, <2>3
<1>6. CASE ~ (at >= cs)
  <2>1. it.store + 0 = at
    BY <1>2, <1>3, <1>6
  <2>2. /\ next.some <=> it.store + 0 < nS
        /\ next.some => next.item = l.store[it.store + 0 + 1]
    BY <1>2, <1>6 DEF IterNth
  <2>3. at < nS /\ at < IterLen(l)
    <3> HIDE DEF at, nC, nS
    <3>1. at < nS /\ at < cs + nC
      BY <1>1, <1>2, <1>6
    <3>2. QED BY <3>1 DEF nC, nS, IterLen
  <2>4. Item(l, at) = l.store[at + 1]
    BY <1>6 DEF Item
  <2> HIDE DEF it
  <2>5. next.some /\ next.item = l.store[at + 1]
    <3>1. next.some
      BY <2>1, <2>2, <2>3
    <3>2. it.store + 0 + 1 = it.store + 1 /\ it.store = at
      BY <1>2, <1>3, <1>6
    <3>3. QED BY <2>2, <3>1, <3>2
  <2>6. QED BY <1>4, <2>3, <2>4, <2>5 DEF it
<1>7. QED BY <1>5, <1>6

\* Where a range ends: at its end or at the end of the log.
RangeTo(l, end) ==
  LET n == IterLen(l)
      e == IF end.kind = "included" THEN end.n + 1 ELSE IF end.kind = "excluded" THEN end.n ELSE n
  IN  IF e < n THEN e ELSE n

LEMMA RangeToIs ==
  ASSUME NEW l, LogInv(l), NEW end \in Bound
  PROVE  /\ IterLen(l) \in Nat /\ RangeTo(l, end) \in 0 .. IterLen(l)
         /\ \A p \in Nat : p < IterLen(l) =>
              ((p < RangeTo(l, end)) <=> ~ ReachedEnd(end, p))
         /\ \A p \in Nat : p < RangeTo(l, end) => p < IterLen(l)
<1>1. IterLen(l) \in Nat
  <2>1. l.cache_start \in Nat /\ Len(l.cache) \in Nat
    BY LogParts
  <2>2. QED BY <2>1 DEF IterLen
<1>2. end.kind \in {"included", "excluded"} => end.n \in Nat
  BY LedgerAssumption DEF Bound
<1>3. QED BY <1>1, <1>2 DEF RangeTo, ReachedEnd

\* The stream after k steps of a range of n items from position f on.
RangeItems(l, f, m) == [ i \in 1 .. m |-> RangeItem(l, f + i - 1) ]

RangeOpen(l, f, m) ==
  [ pos |-> f + m, iter |-> IterAt(l.cache_start, f, m), items |-> RangeItems(l, f, m), over |-> FALSE ]

RangeOver(l, f, m) ==
  [ pos |-> f + m, iter |-> IterAt(l.cache_start, f, m), items |-> RangeItems(l, f, m), over |-> TRUE ]

RangeAfter(l, f, n, k) ==
  IF k <= n THEN RangeOpen(l, f, k) ELSE RangeOver(l, f, n)

\* Ending a stream changes nothing else of it.
LEMMA EndStream ==
  ASSUME NEW p, NEW iter, NEW items,
         NEW r \in [ pos : {p}, iter : {iter}, items : {items}, over : BOOLEAN ]
  PROVE  [ r EXCEPT !.over = TRUE ] = [ pos |-> p, iter |-> iter, items |-> items, over |-> TRUE ]
<1> DEFINE q == [ r EXCEPT !.over = TRUE ]
           s == [ pos |-> p, iter |-> iter, items |-> items, over |-> TRUE ]
<1>1. q \in [ pos : {p}, iter : {iter}, items : {items}, over : BOOLEAN ]
  OBVIOUS
<1>2. s \in [ pos : {p}, iter : {iter}, items : {items}, over : BOOLEAN ]
  OBVIOUS
<1>3. q.pos = s.pos /\ q.iter = s.iter /\ q.items = s.items
  OBVIOUS
<1>4. q.over = TRUE
  OBVIOUS
<1>5. s.over = TRUE
  OBVIOUS
<1> HIDE DEF q, s
<1>6. q = s
  BY <1>1, <1>2, <1>3, <1>4, <1>5
<1>7. QED BY <1>6 DEF q, s

\* A stream that is over, and one that is not.
LEMMA RangeOverIs ==
  ASSUME NEW l, NEW f, NEW m
  PROVE  /\ RangeOver(l, f, m).over
         /\ RangeOver(l, f, m).items = RangeItems(l, f, m)
         /\ [ RangeOver(l, f, m) EXCEPT !.over = TRUE ] = RangeOver(l, f, m)
<1> DEFINE p     == f + m
           iter  == IterAt(l.cache_start, f, m)
           items == RangeItems(l, f, m)
           r     == [ pos |-> p, iter |-> iter, items |-> items, over |-> TRUE ]
<1>1. RangeOver(l, f, m) = r
  BY Zenon DEF RangeOver
<1> HIDE DEF p, iter, items
<1>2. /\ r \in [ pos : {p}, iter : {iter}, items : {items}, over : BOOLEAN ]
      /\ r.pos = p /\ r.iter = iter /\ r.items = items /\ r.over
  OBVIOUS
<1> HIDE DEF r
<1>3. [ r EXCEPT !.over = TRUE ] = [ pos |-> p, iter |-> iter, items |-> items, over |-> TRUE ]
  BY <1>2, EndStream, Zenon
<1>4. [ r EXCEPT !.over = TRUE ] = r
  BY <1>3, Zenon DEF r
<1>5. QED BY <1>1, <1>2, <1>4, Zenon DEF items

LEMMA RangeOpenIs ==
  ASSUME NEW l, NEW f, NEW m
  PROVE  /\ RangeOpen(l, f, m).pos = f + m
         /\ RangeOpen(l, f, m).iter = IterAt(l.cache_start, f, m)
         /\ RangeOpen(l, f, m).items = RangeItems(l, f, m)
         /\ ~ RangeOpen(l, f, m).over
         /\ [ RangeOpen(l, f, m) EXCEPT !.over = TRUE ] = RangeOver(l, f, m)
<1> DEFINE p     == f + m
           iter  == IterAt(l.cache_start, f, m)
           items == RangeItems(l, f, m)
           r     == [ pos |-> p, iter |-> iter, items |-> items, over |-> FALSE ]
<1>1. RangeOpen(l, f, m) = r
  BY Zenon DEF RangeOpen
<1> HIDE DEF p, iter, items
<1>2. /\ r \in [ pos : {p}, iter : {iter}, items : {items}, over : BOOLEAN ]
      /\ r.pos = p /\ r.iter = iter /\ r.items = items
  OBVIOUS
<1>3. ~ r.over
  BY Zenon
<1> HIDE DEF r
<1>4. [ r EXCEPT !.over = TRUE ] = [ pos |-> p, iter |-> iter, items |-> items, over |-> TRUE ]
  BY <1>2, EndStream
<1>5. [ r EXCEPT !.over = TRUE ] = RangeOver(l, f, m)
  BY <1>4, Zenon DEF p, iter, items, RangeOver
<1>6. QED BY <1>1, <1>2, <1>3, <1>5, Zenon DEF p, iter, items

\* One item more.
LEMMA ItemsAppend ==
  ASSUME NEW l, NEW f \in Nat, NEW m \in Nat
  PROVE  Append(RangeItems(l, f, m), RangeItem(l, f + m))
           = RangeItems(l, f, m + 1)
<1> DEFINE T == { RangeItem(l, n) : n \in Nat }
           a == [ i \in 1 .. m |-> RangeItem(l, f + i - 1) ]
           b == [ i \in 1 .. m + 1 |-> RangeItem(l, f + i - 1) ]
           x == RangeItem(l, f + m)
<1>1. /\ \A i \in 1 .. m + 1 : f + i - 1 \in Nat
      /\ f + m \in Nat /\ f + (m + 1) - 1 = f + m
  OBVIOUS
<1>2. \A i \in 1 .. m + 1 : RangeItem(l, f + i - 1) \in T
  BY <1>1
<1>3. x \in T
  BY <1>1
<1>4. /\ a[m + 1] = a[m + 1] /\ b[m + 1] = x
      /\ \A i \in 1 .. m : a[i] = b[i]
  BY <1>1
<1> HIDE DEF T, x
<1>5. a \in Seq(T) /\ b \in Seq(T) /\ Len(a) = m /\ Len(b) = m + 1
  BY <1>2
<1> HIDE DEF a, b
<1> DEFINE c == Append(a, x)
<1>6. c \in Seq(T) /\ Len(c) = m + 1 /\ c[m + 1] = x /\ \A i \in 1 .. m : c[i] = a[i]
  BY <1>3, <1>5
<1> HIDE DEF c
<1>7. \A i \in 1 .. m + 1 : i = m + 1 \/ i \in 1 .. m
  OBVIOUS
<1>8. \A i \in 1 .. m + 1 : c[i] = b[i]
  BY <1>4, <1>6, <1>7
<1>9. c = b
  BY <1>5, <1>6, <1>8, SeqEqual
<1>10. QED BY <1>9, Zenon DEF c, a, b, x, RangeItems

\* The stream is the items from the start of the range up to its end.
LEMMA RangeStreamIs ==
  ASSUME NEW l, LogInv(l), l.pending_inserts <= CacheSize,
         NEW start \in Bound, NEW end \in Bound, NEW n \in Nat,
         n = IF RangeFrom(start) <= RangeTo(l, end) THEN RangeTo(l, end) - RangeFrom(start) ELSE 0
  PROVE  RangeStream(l, start, end) = RangeItems(l, RangeFrom(start), n)
<1> DEFINE f   == RangeFrom(start)
           t   == RangeTo(l, end)
           len == IterLen(l)
           first == RangeStart(l, start)
           step(prev) ==
             LET next == IterNth(l, prev.iter, 0)
             IN  IF prev.over \/ ReachedEnd(end, prev.pos) \/ ~ next.some
                 THEN [ prev EXCEPT !.over = TRUE ]
                 ELSE [ pos   |-> prev.pos + 1,
                        iter  |-> next.iter,
                        items |-> Append(prev.items, IF next.item = None THEN Missing ELSE next.item),
                        over  |-> FALSE ]
           begin == [ pos |-> first.pos, iter |-> first.iter, items |-> << >>, over |-> FALSE ]
           Loop(g) == g = [ k \in Nat |-> IF k = 0 THEN begin ELSE step(g[k - 1]) ]
           closed == [ k \in Nat |-> RangeAfter(l, f, n, k) ]
           after  == CHOOSE g : Loop(g)
<1>1. f \in Nat /\ first = [ pos |-> f, iter |-> IterAt(l.cache_start, f, 0) ]
  BY RangeStartIs
<1>2. /\ len \in Nat /\ t \in 0 .. len
      /\ \A p \in Nat : p < len => ((p < t) <=> ~ ReachedEnd(end, p))
      /\ \A p \in Nat : p < t => p < len
  BY RangeToIs
<1>3. n <= len /\ \A k \in Nat : k < n <=> f + k < t
  BY <1>1, <1>2
<1>4. begin = RangeAfter(l, f, n, 0)
  <2>1. 0 <= n /\ ~ (0 > n) /\ f + 0 = f
    BY <1>1
  <2>2. RangeItems(l, f, 0) = << >>
    BY DEF RangeItems
  <2>3. RangeAfter(l, f, n, 0) = RangeOpen(l, f, 0)
    BY <2>1, Zenon DEF RangeAfter
  <2>4. RangeOpen(l, f, 0)
          = [ pos |-> f, iter |-> IterAt(l.cache_start, f, 0), items |-> << >>, over |-> FALSE ]
    BY <2>1, <2>2, Zenon DEF RangeOpen
  <2>5. first.pos = f /\ first.iter = IterAt(l.cache_start, f, 0)
    <3> HIDE DEF f, first
    <3>1. QED BY <1>1
  <2> HIDE DEF f, first
  <2>6. QED BY <2>3, <2>4, <2>5, Zenon
<1> HIDE DEF f, t, len, first, begin
<1>5. ASSUME NEW k \in Nat PROVE RangeAfter(l, f, n, k + 1) = step(RangeAfter(l, f, n, k))
  <2> DEFINE prev == RangeAfter(l, f, n, k)
             next == IterNth(l, prev.iter, 0)
  <2>1. CASE k > n
    <3>1. prev = RangeOver(l, f, n)
      <4>1. ~ (k <= n)
        BY <2>1
      <4>2. QED BY <4>1, Zenon DEF RangeAfter
    <3>2. RangeAfter(l, f, n, k + 1) = prev
      <4>1. ~ (k + 1 <= n)
        BY <2>1
      <4>2. QED BY <3>1, <4>1, Zenon DEF RangeAfter
    <3>3. step(prev) = prev
      <4> HIDE DEF prev
      <4>1. prev.over
        BY <3>1, RangeOverIs
      <4>2. [ prev EXCEPT !.over = TRUE ] = prev
        <5> HIDE DEF prev
        <5>1. QED BY <3>1, RangeOverIs
      <4> HIDE DEF prev
      <4>3. QED BY <4>1, <4>2
    <3>4. QED BY <3>2, <3>3
  <2>2. CASE k = n
    <3> DEFINE itr == IterAt(l.cache_start, f, n)
    <3>1. prev = RangeOpen(l, f, n)
      <4>1. k <= n
        BY <2>2
      <4>2. QED BY <2>2, <4>1, Zenon DEF RangeAfter
    <3>2. RangeAfter(l, f, n, k + 1) = RangeOver(l, f, n)
      <4>1. ~ (k + 1 <= n)
        BY <2>2
      <4>2. QED BY <4>1, Zenon DEF RangeAfter
    <3>3. ReachedEnd(end, prev.pos) \/ ~ next.some
      <4>1. ~ (f + n < t) /\ f + n \in Nat
        BY <1>1, <1>3
      <4>2. prev.pos = f + n /\ prev.iter = itr
        <5> HIDE DEF prev, itr
        <5>1. RangeOpen(l, f, n).pos = f + n /\ RangeOpen(l, f, n).iter = itr
          BY RangeOpenIs DEF itr
        <5>2. QED BY <3>1, <5>1, Zenon
      <4>3. IterNth(l, itr, 0).some <=> f + n < len
        BY <1>1, IterReads DEF len
      <4> HIDE DEF prev, itr
      <4>4. QED BY <4>1, <4>2, <4>3, <1>2
    <3>4. step(prev) = [ prev EXCEPT !.over = TRUE ]
      <4> HIDE DEF prev, next
      <4>1. QED BY <3>3 DEF next
    <3>5. [ prev EXCEPT !.over = TRUE ] = RangeOver(l, f, n)
      <4> HIDE DEF prev
      <4>1. QED BY <3>1, RangeOpenIs
    <3>6. QED BY <3>2, <3>4, <3>5, Zenon
  <2>3. CASE k < n
    <3> DEFINE its == RangeItems(l, f, k)
               itr == IterAt(l.cache_start, f, k)
               x   == RangeItem(l, f + k)
    <3>1. prev = RangeOpen(l, f, k)
      <4>1. k <= n
        BY <2>3
      <4>2. QED BY <4>1, Zenon DEF RangeAfter
    <3>2. RangeAfter(l, f, n, k + 1)
            = [ pos |-> f + k + 1, iter |-> IterAt(l.cache_start, f, k + 1),
                items |-> RangeItems(l, f, k + 1), over |-> FALSE ]
      <4>1. k + 1 <= n /\ f + (k + 1) = f + k + 1
        BY <2>3, <1>1
      <4>2. RangeAfter(l, f, n, k + 1) = RangeOpen(l, f, k + 1)
        BY <4>1, Zenon DEF RangeAfter
      <4>3. QED BY <4>1, <4>2, Zenon DEF RangeOpen
    <3>3. f + k < t /\ f + k < len /\ f + k \in Nat
      BY <2>3, <1>1, <1>2, <1>3
    <3>4. /\ IterNth(l, itr, 0).some
          /\ IterNth(l, itr, 0).item = Item(l, f + k)
          /\ IterNth(l, itr, 0).iter = IterAt(l.cache_start, f, k + 1)
      BY <1>1, <3>3, IterReads DEF len
    <3>5. ~ ReachedEnd(end, f + k)
      BY <1>2, <3>3
    <3>6. /\ prev.pos = f + k /\ prev.iter = itr /\ prev.items = its /\ ~ prev.over
      <4> HIDE DEF prev, itr, its
      <4>1. /\ RangeOpen(l, f, k).pos = f + k /\ RangeOpen(l, f, k).iter = itr
            /\ RangeOpen(l, f, k).items = its /\ ~ RangeOpen(l, f, k).over
        BY RangeOpenIs DEF itr, its
      <4>2. QED BY <3>1, <4>1, Zenon
    <3> HIDE DEF prev, itr
    <3>7. step(prev) = [ pos   |-> f + k + 1,
                         iter  |-> IterAt(l.cache_start, f, k + 1),
                         items |-> Append(its, x),
                         over  |-> FALSE ]
      <4> HIDE DEF its
      <4>1. QED BY <3>4, <3>5, <3>6 DEF RangeItem
    <3>8. Append(its, x) = RangeItems(l, f, k + 1)
      BY <1>1, ItemsAppend
    <3> HIDE DEF its, x
    <3>9. QED BY <3>2, <3>7, <3>8 DEF prev
  <2>4. QED BY <2>1, <2>2, <2>3
<1> HIDE DEF step
<1>6. \A k \in Nat : k # 0 => k - 1 \in Nat /\ (k - 1) + 1 = k
  OBVIOUS
<1>7. Loop(closed)
  <2>1. \A k \in Nat : RangeAfter(l, f, n, k) = IF k = 0 THEN begin ELSE step(closed[k - 1])
    <3>1. TAKE k \in Nat
    <3>2. CASE k = 0
      BY <3>2, <1>4
    <3>3. CASE k # 0
      <4>1. k - 1 \in Nat /\ (k - 1) + 1 = k
        BY <3>3, <1>6
      <4>2. closed[k - 1] = RangeAfter(l, f, n, k - 1)
        BY <4>1
      <4>3. QED BY <3>3, <4>1, <4>2, <1>5
    <3>4. QED BY <3>2, <3>3
  <2>2. QED BY <2>1
<1>8. Loop(after)
  BY <1>7, Zenon
<1>9. /\ after[0] = begin
      /\ \A k \in Nat : k # 0 => after[k] = step(after[k - 1])
  <2> HIDE DEF after
  <2>1. QED BY <1>8
<1>10. /\ closed[0] = begin
       /\ \A k \in Nat : k # 0 => closed[k] = step(closed[k - 1])
  <2> HIDE DEF closed
  <2>1. QED BY <1>7
<1>11. closed[len + 1].items = RangeItems(l, f, n)
  <2>1. len + 1 \in Nat /\ ~ (len + 1 <= n)
    BY <1>2, <1>3
  <2>2. RangeAfter(l, f, n, len + 1) = RangeOver(l, f, n)
    BY <2>1, Zenon DEF RangeAfter
  <2>3. QED BY <2>1, <2>2, RangeOverIs
<1> HIDE DEF after, closed
<1> DEFINE Apart == { k \in Nat : after[k] # closed[k] }
<1>12. Apart = {}
  <2>1. SUFFICES ASSUME Apart # {} PROVE FALSE
    OBVIOUS
  <2>2. Apart \subseteq Nat
    OBVIOUS
  <2>3. PICK k \in Apart : \A y \in Apart : k <= y
    BY <2>1, <2>2, LeastNatural
  <2>4. k \in Nat /\ after[k] # closed[k]
    BY <2>3
  <2>5. k # 0
    BY <2>4, <1>9, <1>10
  <2>6. k - 1 \in Nat /\ ~ (k <= k - 1)
    BY <2>4, <2>5
  <2>7. after[k - 1] = closed[k - 1]
    BY <2>3, <2>6
  <2>8. QED BY <2>4, <2>5, <2>7, <1>9, <1>10
<1>13. after[len + 1] = closed[len + 1]
  BY <1>2, <1>12
<1>14. RangeStream(l, start, end) = after[len + 1].items
  BY DEF RangeStream, after, begin, step, first, len
<1>15. QED BY <1>11, <1>13, <1>14 DEF f
====
