---------------------------- MODULE LedgerLogLemmas ----------------------------
(***************************************************************************)
(* What the operations of LedgerLogOps do to a log: the invariant of a log *)
(* and the lemmas, one for each operation, that the proofs about the log   *)
(* on its own and about the two logs of a data source rest on.             *)
(***************************************************************************)
EXTENDS LedgerLogOps, SequenceTheorems, WellFoundedInduction, TLAPS

\* Every entry is a placeholder or the object of the position it is at.
EntriesInPlace(W) == \A k \in 1 .. Len(W) : W[k] \in {None, k - 1}

\* The cache C, which starts at position `start`, repeats the entries W, but
\* may know the object where W has a placeholder.
CacheRepeats(C, W, start) ==
  \A k \in 1 .. Len(C) :
    C[k] = W[start + k] \/ (W[start + k] = None /\ C[k] = start + k - 1)

(***************************************************************************)
(* The inductive invariant of the log.  The conjunct on the length of the  *)
(* cache is what a revert needs: a cache that no longer holds every        *)
(* uncommitted entry is full, so no more entries than it holds are popped  *)
(* when at most CacheSize are pending.                                     *)
(***************************************************************************)
LogInv(l) ==
  /\ l \in LogType
  /\ l.pending_inserts = Len(l.appended)
  /\ l.cache_start + Len(l.cache) = Len(l.store) + Len(l.appended)
  /\ Len(l.cache) >= Len(l.appended) \/ Len(l.cache) >= CacheSize
  /\ EntriesInPlace(l.store \o l.appended)
  /\ CacheRepeats(l.cache, l.store \o l.appended, l.cache_start)
  /\ l.stream_pos <= Len(l.store)

(***************************************************************************)
(* Streaming does not lag behind the store.  Within a commit, after the    *)
(* store is committed and before the broadcast, this does not hold, hence  *)
(* apart from LogInv.                                                      *)
(***************************************************************************)
FrontierInv(l) == l.stream_pos < Len(l.store) => l.store[l.stream_pos + 1] = None

-----------------------------------------------------------------------------
(* The operations of the log preserve its invariant. *)

\* The entries of a sequence after the first n.
LEMMA Suffix ==
  ASSUME NEW s \in Seq(Entry), NEW n \in 0 .. Len(s)
  PROVE  /\ SubSeq(s, n + 1, Len(s)) \in Seq(Entry)
         /\ Len(SubSeq(s, n + 1, Len(s))) = Len(s) - n
         /\ \A k \in 1 .. Len(s) - n : SubSeq(s, n + 1, Len(s))[k] = s[n + k]
<1> DEFINE len == Len(s)
           D   == SubSeq(s, n + 1, len)
<1>1. len \in Nat /\ n \in Nat /\ n <= len
  BY LenProperties
<1>2. \A k \in n + 1 .. len : s[k] \in Entry
  BY <1>1, ElementOfSeq
<1> HIDE DEF len
<1>3. /\ D \in Seq(Entry)
      /\ Len(D) = IF n + 1 <= len THEN len - (n + 1) + 1 ELSE 0
      /\ \A k \in 1 .. len - (n + 1) + 1 : D[k] = s[n + 1 + k - 1]
  BY <1>1, <1>2, SubSeqProperties
<1>4. /\ (IF n + 1 <= len THEN len - (n + 1) + 1 ELSE 0) = len - n
      /\ len - (n + 1) + 1 = len - n
      /\ \A k \in 1 .. len - n : n + 1 + k - 1 = n + k
  BY <1>1
<1> HIDE DEF D
<1>5. D \in Seq(Entry) /\ Len(D) = len - n /\ \A k \in 1 .. len - n : D[k] = s[n + k]
  BY <1>3, <1>4
<1>6. QED BY <1>5 DEF D, len

\* Appending entries E behind W and C and dropping the first n of the longer
\* cache leaves every entry in place and the cache in step.
LEMMA AppendInPlace ==
  ASSUME NEW W \in Seq(Entry), NEW C \in Seq(Entry), NEW E \in Seq(Entry),
         NEW start \in Nat, NEW n \in 0 .. Len(C) + Len(E),
         start + Len(C) = Len(W),
         EntriesInPlace(W), CacheRepeats(C, W, start),
         \A k \in 1 .. Len(E) : E[k] \in {None, Len(W) + k - 1},
         NEW D \in Seq(Entry), Len(D) = Len(C) + Len(E) - n,
         \A k \in 1 .. Len(C) + Len(E) - n : D[k] = (C \o E)[n + k]
  PROVE  /\ EntriesInPlace(W \o E)
         /\ CacheRepeats(D, W \o E, start + n)
<1>1. Len(W) \in Nat /\ Len(C) \in Nat /\ Len(E) \in Nat
  BY LenProperties
<1>2. /\ W \o E \in Seq(Entry) /\ Len(W \o E) = Len(W) + Len(E)
      /\ \A k \in 1 .. Len(W) + Len(E) :
           (W \o E)[k] = IF k <= Len(W) THEN W[k] ELSE E[k - Len(W)]
  BY ConcatProperties
<1>3. /\ C \o E \in Seq(Entry) /\ Len(C \o E) = Len(C) + Len(E)
      /\ \A k \in 1 .. Len(C) + Len(E) :
           (C \o E)[k] = IF k <= Len(C) THEN C[k] ELSE E[k - Len(C)]
  BY ConcatProperties
<1> DEFINE all == C \o E
           W2  == W \o E
<1> HIDE DEF all, W2
<1>4. \A k \in 1 .. Len(C) + Len(E) - n : D[k] = all[n + k]
  BY DEF all
<1>5. EntriesInPlace(W2)
  <2>1. SUFFICES ASSUME NEW k \in 1 .. Len(W) + Len(E) PROVE W2[k] \in {None, k - 1}
    BY <1>2 DEF EntriesInPlace, W2
  <2>2. CASE k <= Len(W)
    <3>1. k \in 1 .. Len(W) BY <2>2, <1>1
    <3>2. W2[k] = W[k] BY <2>2, <1>2 DEF W2
    <3>3. QED BY <3>1, <3>2 DEF EntriesInPlace
  <2>3. CASE ~ (k <= Len(W))
    <3>1. k - Len(W) \in 1 .. Len(E) /\ Len(W) + (k - Len(W)) - 1 = k - 1
      BY <2>3, <1>1
    <3>2. W2[k] = E[k - Len(W)] BY <2>3, <1>2 DEF W2
    <3>3. QED BY <3>1, <3>2
  <2>4. QED BY <2>2, <2>3
<1>6. CacheRepeats(D, W2, start + n)
  <2>1. SUFFICES ASSUME NEW k \in 1 .. Len(C) + Len(E) - n
                 PROVE  \/ D[k] = W2[start + n + k]
                        \/ W2[start + n + k] = None /\ D[k] = start + n + k - 1
    BY <1>4 DEF CacheRepeats
  <2> DEFINE j == n + k
  <2>2. /\ j \in 1 .. Len(C) + Len(E) /\ D[k] = all[j]
        /\ start + n + k = start + j /\ start + n + k - 1 = start + j - 1
    <3>1. j \in 1 .. Len(C) + Len(E)
      BY <1>1
    <3>2. D[k] = all[j]
      BY <1>4
    <3>3. start + n + k = start + j /\ start + n + k - 1 = start + j - 1
      BY <1>1
    <3>4. QED BY <3>1, <3>2, <3>3
  <2>3. start + j \in 1 .. Len(W) + Len(E)
    BY <2>2, <1>1
  <2> HIDE DEF j
  <2>4. CASE j <= Len(C)
    <3>1. j \in 1 .. Len(C) /\ start + j <= Len(W)
      <4> DEFINE nW == Len(W)
                 nC == Len(C)
      <4>1. j \in Int /\ j >= 1 /\ nW \in Int /\ nC \in Int /\ start \in Int /\ start + nC = nW /\ j <= nC
        BY <2>2, <2>4, <1>1
      <4> HIDE DEF nW, nC
      <4>2. j \in 1 .. nC /\ start + j <= nW
        BY <4>1
      <4>3. QED BY <4>2 DEF nW, nC
    <3>2. all[j] = C[j] BY <2>2, <2>4, <1>3 DEF all
    <3>3. W2[start + j] = W[start + j] BY <2>3, <3>1, <1>2 DEF W2
    <3>4. C[j] = W[start + j] \/ (W[start + j] = None /\ C[j] = start + j - 1)
      BY <3>1 DEF CacheRepeats
    <3>5. QED BY <2>2, <3>2, <3>3, <3>4
  <2>5. CASE ~ (j <= Len(C))
    <3>1. ~ (start + j <= Len(W)) /\ (start + j) - Len(W) = j - Len(C)
      <4> DEFINE nW == Len(W)
                 nC == Len(C)
      <4>1. j \in Int /\ nW \in Int /\ nC \in Int /\ start + nC = nW /\ ~ (j <= nC)
        BY <2>2, <2>5, <1>1
      <4> HIDE DEF nW, nC
      <4>2. ~ (start + j <= nW) /\ (start + j) - nW = j - nC
        BY <4>1
      <4>3. QED BY <4>2 DEF nW, nC
    <3>2. all[j] = E[j - Len(C)] BY <2>2, <2>5, <1>3 DEF all
    <3>3. W2[start + j] = E[(start + j) - Len(W)] 
      <4>1. \A i \in 1 .. Len(W) + Len(E) : ~ (i <= Len(W)) => W2[i] = E[i - Len(W)]
        BY <1>2 DEF W2
      <4>2. QED BY <4>1, <2>3, <3>1, Zenon
    <3>4. QED BY <2>2, <3>1, <3>2, <3>3
  <2>6. QED BY <2>4, <2>5
<1>7. QED BY <1>5, <1>6 DEF W2

\* Appending in two steps.
LEMMA ConcatEntries ==
  \A a, b, c \in Seq(Entry) : (a \o b) \o c = a \o (b \o c)
BY ConcatAssociative

\* What the invariant says of the types and lengths of a log's parts.
LEMMA LogParts ==
  ASSUME NEW l, LogInv(l)
  PROVE  /\ l.store \in Seq(Entry) /\ l.appended \in Seq(Entry) /\ l.cache \in Seq(Entry)
         /\ l.pending_inserts \in Nat /\ l.cache_start \in Nat /\ l.stream_pos \in Nat
         /\ Len(l.store) \in Nat /\ Len(l.appended) \in Nat /\ Len(l.cache) \in Nat
         /\ l.store \o l.appended \in Seq(Entry)
         /\ Len(l.store \o l.appended) = Len(l.store) + Len(l.appended)
         /\ NextPos(l) = Len(l.store) + Len(l.appended) /\ NextPos(l) \in Nat
         /\ CacheSize \in Nat \ {0}
<1>1. /\ l.store \in Seq(Entry) /\ l.appended \in Seq(Entry) /\ l.cache \in Seq(Entry)
      /\ l.pending_inserts \in Nat /\ l.cache_start \in Nat /\ l.stream_pos \in Nat
  BY DEF LogInv, LogType
<1>2. Len(l.store) \in Nat /\ Len(l.appended) \in Nat /\ Len(l.cache) \in Nat
  BY <1>1, LenProperties
<1>3. /\ l.store \o l.appended \in Seq(Entry)
      /\ Len(l.store \o l.appended) = Len(l.store) + Len(l.appended)
  BY <1>1, ConcatProperties
<1>4. NextPos(l) = Len(l.store) + Len(l.appended) /\ NextPos(l) \in Nat
  <2> DEFINE nS == Len(l.store)
             nA == Len(l.appended)
  <2>1. nS \in Nat /\ nA \in Nat /\ NextPos(l) = nS + nA
    BY <1>2 DEF LogInv, NextPos
  <2> HIDE DEF nS, nA
  <2>2. NextPos(l) \in Nat BY <2>1
  <2>3. QED BY <2>1, <2>2 DEF nS, nA
<1>5. QED BY <1>1, <1>2, <1>3, <1>4, CacheSizeAssumption

\* `store_resource` in a row keeps the invariant when the entries written are
\* placeholders or the objects of the positions they are written to.
LEMMA StoreAllInv ==
  ASSUME NEW l, LogInv(l),
         NEW es \in Seq(Entry),
         \A k \in 1 .. Len(es) : es[k] \in {None, NextPos(l) + k - 1}
  PROVE  /\ LogInv(StoreAll(l, es))
         /\ StoreAll(l, es).store = l.store
         /\ StoreAll(l, es).stream_pos = l.stream_pos
<1> DEFINE all == l.cache \o es
           n   == IF Len(all) > CacheSize THEN Len(all) - CacheSize ELSE 0
           D   == SubSeq(all, n + 1, Len(all))
           new == StoreAll(l, es)
           W   == l.store \o l.appended
           nS  == Len(l.store)
           nA  == Len(l.appended)
           nC  == Len(l.cache)
           nE  == Len(es)
           st  == l.cache_start
<1>1. /\ nS \in Nat /\ nA \in Nat /\ nC \in Nat /\ nE \in Nat /\ st \in Nat
      /\ CacheSize \in Nat \ {0} /\ Len(all) = nC + nE /\ Len(W) = nS + nA
      /\ NextPos(l) = Len(W)
      /\ l.cache \in Seq(Entry) /\ W \in Seq(Entry) /\ all \in Seq(Entry)
  <2>1. /\ l.cache \in Seq(Entry) /\ W \in Seq(Entry)
        /\ nS \in Nat /\ nA \in Nat /\ nC \in Nat /\ st \in Nat
        /\ CacheSize \in Nat \ {0} /\ Len(W) = nS + nA /\ NextPos(l) = nS + nA
    BY LogParts, Zenon
  <2>2. nE \in Nat
    BY LenProperties
  <2>3. all \in Seq(Entry) /\ Len(all) = nC + nE
    BY <2>1, ConcatProperties, Zenon
  <2>4. QED BY <2>1, <2>2, <2>3, Zenon
<1>2. /\ l.pending_inserts = nA /\ st + nC = nS + nA
      /\ nC >= nA \/ nC >= CacheSize
      /\ EntriesInPlace(W) /\ CacheRepeats(l.cache, W, st)
      /\ l.stream_pos <= nS
  BY DEF LogInv
<1>3. n \in 0 .. nC + nE /\ (nC + nE > CacheSize => n = nC + nE - CacheSize)
      /\ (~ (nC + nE > CacheSize) => n = 0)
  <2> HIDE DEF all, nC, nE
  <2>1. QED BY <1>1
<1> HIDE DEF n, nS, nA, nC, nE, st, W, all
<1>4. /\ D \in Seq(Entry) /\ Len(D) = nC + nE - n
      /\ \A k \in 1 .. nC + nE - n : D[k] = all[n + k]
  BY <1>1, <1>3, Suffix
<1>5. /\ EntriesInPlace(W \o es) /\ CacheRepeats(D, W \o es, st + n)
  <2> HIDE DEF D
  <2>1. /\ st + Len(l.cache) = Len(W) /\ n \in 0 .. Len(l.cache) + Len(es)
        /\ Len(D) = Len(l.cache) + Len(es) - n
        /\ \A k \in 1 .. Len(l.cache) + Len(es) - n : D[k] = (l.cache \o es)[n + k]
    BY <1>1, <1>2, <1>3, <1>4 DEF nC, nE, all
  <2>2. \A k \in 1 .. Len(es) : es[k] \in {None, Len(W) + k - 1}
    BY <1>1
  <2>3. QED BY <2>1, <2>2, <1>1, <1>2, <1>4, AppendInPlace
<1>6. /\ l.appended \o es \in Seq(Entry) /\ Len(l.appended \o es) = nA + nE
      /\ l.store \o (l.appended \o es) = W \o es
  <2>1. l.store \in Seq(Entry) /\ l.appended \in Seq(Entry)
    BY LogParts, Zenon
  <2>2. l.appended \o es \in Seq(Entry) /\ Len(l.appended \o es) = nA + nE
    BY <2>1, ConcatProperties, Zenon DEF nA, nE
  <2>3. W \o es = l.store \o (l.appended \o es)
    BY <2>1, ConcatEntries, Zenon DEF W
  <2>4. QED BY <2>2, <2>3
<1>7. /\ new.store = l.store /\ new.stream_pos = l.stream_pos
      /\ new.appended = l.appended \o es
      /\ new.pending_inserts = nA + nE
      /\ new.cache_start = st + n
      /\ new.cache = D
      /\ new \in LogType
  <2>1. l \in LogType /\ l.pending_inserts = nA /\ l.cache_start = st
    BY <1>2 DEF LogInv, st
  <2>2. nA + nE \in Nat /\ st + n \in Nat
    BY <1>1, <1>3
  <2>3. new = [ l EXCEPT !.appended        = @ \o es,
                         !.pending_inserts = @ + nE,
                         !.cache_start     = @ + n,
                         !.cache           = D ]
    BY DEF StoreAll, all, n, D, nE
  <2> HIDE DEF new, D
  <2>4. QED BY <2>1, <2>2, <2>3, <1>4, <1>6 DEF LogType
<1> HIDE DEF new, D
<1>8. /\ st + n + (nC + nE - n) = nS + (nA + nE)
      /\ nC + nE - n >= nA + nE \/ nC + nE - n >= CacheSize
  BY <1>1, <1>2, <1>3
<1>9. /\ new.pending_inserts = Len(new.appended)
      /\ new.cache_start + Len(new.cache) = Len(new.store) + Len(new.appended)
      /\ Len(new.cache) >= Len(new.appended) \/ Len(new.cache) >= CacheSize
  BY <1>4, <1>6, <1>7, <1>8 DEF nS
<1>10. /\ EntriesInPlace(new.store \o new.appended)
       /\ CacheRepeats(new.cache, new.store \o new.appended, new.cache_start)
       /\ new.stream_pos <= Len(new.store)
  BY <1>2, <1>5, <1>6, <1>7 DEF nS
<1>11. QED BY <1>7, <1>9, <1>10 DEF LogInv, new

\* What an insert at or past the end writes: placeholders and the object, each
\* allowed at its position; so is the part written before a failure.
LEMMA PaddedInPlace ==
  ASSUME NEW l, LogInv(l), NEW h \in Nat, h >= NextPos(l), NEW m \in 0 .. h - NextPos(l)
  PROVE  /\ Padded(l, h, h) \in Seq(Entry)
         /\ \A k \in 1 .. Len(Padded(l, h, h)) : Padded(l, h, h)[k] \in {None, NextPos(l) + k - 1}
         /\ SubSeq(Padded(l, h, h), 1, m) \in Seq(Entry)
         /\ \A k \in 1 .. Len(SubSeq(Padded(l, h, h), 1, m)) :
              SubSeq(Padded(l, h, h), 1, m)[k] \in {None, NextPos(l) + k - 1}
<1> DEFINE p == NextPos(l)
           n == h - p + 1
           P == Padded(l, h, h)
<1>1. p \in Nat /\ n \in Nat \ {0} /\ m \in 0 .. n - 1
  <2>1. p \in Nat BY LogParts, Zenon
  <2> HIDE DEF p
  <2>2. QED BY <2>1 DEF p
<1>2. P = [ k \in 1 .. n |-> IF k = n THEN h ELSE None ]
  BY DEF Padded
<1>3. n = 1 + (h - p) /\ p + n - 1 = h
  <2> HIDE DEF p
  <2>1. QED BY <1>1
<1> HIDE DEF n, p, P
<1>4. /\ P \in Seq(Entry) /\ Len(P) = n
      /\ \A k \in 1 .. n : P[k] = IF k = n THEN h ELSE None
  BY <1>1, <1>2 DEF Entry
<1>5. \A k \in 1 .. n : P[k] \in {None, p + k - 1}
  BY <1>1, <1>3, <1>4
<1>6. /\ SubSeq(P, 1, m) \in Seq(Entry) /\ Len(SubSeq(P, 1, m)) = m
      /\ \A k \in 1 .. m : SubSeq(P, 1, m)[k] = P[k]
  BY <1>1, <1>4
<1>7. \A k \in 1 .. m : P[k] \in {None, p + k - 1}
  BY <1>1, <1>5
<1>8. QED BY <1>4, <1>5, <1>6, <1>7 DEF P, p

\* `insert`, in place at the end or filling a placeholder in the cache.
LEMMA InsertInv ==
  ASSUME NEW l, LogInv(l), NEW h \in Nat
  PROVE  /\ LogInv(InsertObject(l, h, h))
         /\ InsertObject(l, h, h).store = l.store
         /\ InsertObject(l, h, h).stream_pos = l.stream_pos
<1>1. CASE h >= NextPos(l)
  <2>1. 0 \in 0 .. h - NextPos(l)
    <3> DEFINE p == NextPos(l)
    <3>1. p \in Nat /\ h >= p BY <1>1, LogParts, Zenon
    <3> HIDE DEF p
    <3>2. 0 \in 0 .. h - p BY <3>1
    <3>3. QED BY <3>2 DEF p
  <2>2. InsertObject(l, h, h) = StoreAll(l, Padded(l, h, h))
    BY <1>1 DEF InsertObject
  <2>3. QED BY <1>1, <2>1, <2>2, PaddedInPlace, StoreAllInv
<1>2. CASE ~ (h >= NextPos(l)) /\ h >= l.cache_start
  <2> DEFINE st  == l.cache_start
             C   == l.cache
             W   == l.store \o l.appended
             j   == h - st + 1
             D   == [ C EXCEPT ![j] = h ]
             new == InsertObject(l, h, h)
  <2>1. /\ st \in Nat /\ C \in Seq(Entry) /\ Len(C) \in Nat /\ W \in Seq(Entry)
        /\ st + Len(C) = Len(W) /\ NextPos(l) = Len(W)
        /\ EntriesInPlace(W) /\ CacheRepeats(C, W, st)
    BY LogParts DEF LogInv
  <2>2. new = [ l EXCEPT !.cache = D ]
    BY <1>2 DEF InsertObject
  <2> HIDE DEF st, C, W, new
  <2>3. j \in 1 .. Len(C) /\ st + j = h + 1 /\ h + 1 \in 1 .. Len(W) /\ st + j - 1 = h
    <3> DEFINE nC == Len(C)
               nW == Len(W)
    <3>1. nC \in Nat /\ nW \in Nat /\ st + nC = nW /\ ~ (h >= nW) /\ h >= st /\ st \in Nat
      BY <1>2, <2>1, LenProperties DEF st
    <3> HIDE DEF nC, nW
    <3>2. j \in 1 .. nC /\ st + j = h + 1 /\ h + 1 \in 1 .. nW /\ st + j - 1 = h
      BY <3>1
    <3>3. QED BY <3>2 DEF nC, nW
  <2> HIDE DEF j
  <2>4. /\ D \in Seq(Entry) /\ Len(D) = Len(C)
        /\ \A k \in 1 .. Len(C) : D[k] = IF k = j THEN h ELSE C[k]
    <3>1. h \in Entry BY DEF Entry
    <3>2. QED BY <3>1, <2>1, <2>3, ExceptSeq
  <2>5. W[st + j] \in {None, h}
    <3>1. W[h + 1] \in {None, h + 1 - 1}
      BY <2>1, <2>3 DEF EntriesInPlace
    <3>2. QED BY <3>1, <2>3
  <2> HIDE DEF D
  <2>6. CacheRepeats(D, W, st)
    <3>1. SUFFICES ASSUME NEW k \in 1 .. Len(C)
                   PROVE  D[k] = W[st + k] \/ (W[st + k] = None /\ D[k] = st + k - 1)
      BY <2>4 DEF CacheRepeats
    <3>2. CASE k = j
      BY <3>2, <2>3, <2>4, <2>5
    <3>3. CASE k # j
      BY <3>3, <2>1, <2>4 DEF CacheRepeats
    <3>4. QED BY <3>2, <3>3
  <2>7. /\ new.store = l.store /\ new.appended = l.appended /\ new.cache = D
        /\ new.pending_inserts = l.pending_inserts /\ new.cache_start = l.cache_start
        /\ new.stream_pos = l.stream_pos /\ new \in LogType
    <3>1. l \in LogType BY DEF LogInv
    <3>2. QED BY <3>1, <2>2, <2>4 DEF LogType
  <2>8. LogInv(new)
    BY <2>4, <2>6, <2>7 DEF LogInv, W, st, C
  <2>9. QED BY <2>7, <2>8 DEF new
<1>3. CASE ~ (h >= NextPos(l)) /\ ~ (h >= l.cache_start)
  BY <1>3 DEF InsertObject
<1>4. QED BY <1>1, <1>2, <1>3

\* `self.store.commit_version()`.
LEMMA StoredInv ==
  ASSUME NEW l, LogInv(l)
  PROVE  /\ LogInv(Stored(l))
         /\ Stored(l).store = l.store \o l.appended
         /\ Stored(l).appended = << >>
         /\ Stored(l).stream_pos = l.stream_pos
<1> DEFINE W   == l.store \o l.appended
           new == Stored(l)
<1>1. /\ W \in Seq(Entry) /\ W \o << >> = W /\ Len(W) = Len(l.store) + Len(l.appended)
      /\ Len(<< >>) = 0 /\ << >> \in Seq(Entry)
  BY LogParts, ConcatEmptySeq, EmptySeq
<1>2. new = [ l EXCEPT !.store = W, !.appended = << >>, !.pending_inserts = 0 ]
  BY DEF Stored
<1> HIDE DEF W, new
<1>3. /\ new.store = W /\ new.appended = << >> /\ new.pending_inserts = 0
      /\ new.cache = l.cache /\ new.cache_start = l.cache_start
      /\ new.stream_pos = l.stream_pos /\ new \in LogType
  <2>1. l \in LogType BY DEF LogInv
  <2>2. QED BY <2>1, <1>1, <1>2 DEF LogType
<1>4. /\ l.cache_start + Len(l.cache) = Len(W) /\ Len(l.cache) \in Nat /\ Len(W) + 0 = Len(W)
      /\ EntriesInPlace(W) /\ CacheRepeats(l.cache, W, l.cache_start)
      /\ l.stream_pos <= Len(W)
  <2> DEFINE nS == Len(l.store)
             nA == Len(l.appended)
             nC == Len(l.cache)
             nW == Len(W)
  <2>1. /\ nS \in Nat /\ nA \in Nat /\ nC \in Nat /\ l.stream_pos \in Nat /\ nW = nS + nA
        /\ l.cache_start + nC = nS + nA /\ l.stream_pos <= nS
    BY <1>1, LogParts DEF LogInv
  <2>2. EntriesInPlace(W) /\ CacheRepeats(l.cache, W, l.cache_start)
    BY DEF LogInv, W
  <2> HIDE DEF nS, nA, nC, nW
  <2>3. l.cache_start + nC = nW /\ l.stream_pos <= nW /\ nW + 0 = nW
    BY <2>1
  <2>4. QED BY <2>1, <2>2, <2>3 DEF nC, nW
<1>5. LogInv(new)
  <2>1. /\ new.pending_inserts = Len(new.appended)
        /\ new.cache_start + Len(new.cache) = Len(new.store) + Len(new.appended)
    BY <1>1, <1>3, <1>4
  <2>2. Len(new.cache) >= Len(new.appended)
    BY <1>1, <1>3, <1>4
  <2>3. new.store \o new.appended = W
    BY <1>1, <1>3
  <2>4. QED BY <2>1, <2>2, <2>3, <1>3, <1>4 DEF LogInv
<1>6. QED BY <1>3, <1>5 DEF new, W

\* An entry that was written and is not hidden is what a read yields, unless it
\* is a placeholder whose object arrived later.
LEMMA ReadsInPlace ==
  ASSUME NEW l, LogInv(l), NEW i \in Nat
  PROVE  LET W == l.store \o l.appended
         IN  /\ Yields(l, i) => /\ Item(l, i) \in {None, i}
                                /\ W[i + 1] # None => Item(l, i) = W[i + 1]
             /\ i < Len(l.store) => Yields(l, i) /\ W[i + 1] = l.store[i + 1]
             /\ l.pending_inserts <= CacheSize /\ i < IterLen(l) => Yields(l, i)
<1> DEFINE st == l.cache_start
           C  == l.cache
           W  == l.store \o l.appended
           nS == Len(l.store)
           nA == Len(l.appended)
           nC == Len(C)
<1>1. /\ st \in Nat /\ nS \in Nat /\ nA \in Nat /\ nC \in Nat /\ CacheSize \in Nat
      /\ st + nC = nS + nA /\ IterLen(l) = st + nC /\ Len(W) = nS + nA
      /\ nC >= nA \/ nC >= CacheSize
      /\ EntriesInPlace(W) /\ CacheRepeats(C, W, st)
  BY LogParts DEF LogInv, IterLen
<1>2. \A k \in 1 .. nS : W[k] = l.store[k]
  <2> DEFINE s == l.store
             a == l.appended
  <2>1. s \in Seq(Entry) /\ a \in Seq(Entry) BY LogParts, Zenon
  <2> HIDE DEF s, a
  <2>2. \A k \in 1 .. Len(s) : (s \o a)[k] = s[k] BY <2>1
  <2>3. QED BY <2>2 DEF s, a
<1>3. /\ Yields(l, i) <=> IF i >= st THEN i - st < nC ELSE i < nS
      /\ Item(l, i) = IF i >= st THEN C[i - st + 1] ELSE l.store[i + 1]
      /\ l.pending_inserts = nA
  BY DEF Yields, Item, LogInv
<1> HIDE DEF st, C, W, nS, nA, nC
<1>4. ASSUME Yields(l, i)
      PROVE  Item(l, i) \in {None, i} /\ (W[i + 1] # None => Item(l, i) = W[i + 1])
  <2>1. i + 1 \in 1 .. nS + nA /\ i + 1 - 1 = i
    BY <1>1, <1>3, <1>4
  <2>2. W[i + 1] \in {None, i}
    BY <1>1, <2>1 DEF EntriesInPlace
  <2>3. CASE i >= st
    <3> DEFINE k == i - st + 1
    <3>1. k \in 1 .. nC /\ st + k = i + 1 /\ st + k - 1 = i /\ Item(l, i) = C[k]
      BY <1>1, <1>3, <1>4, <2>3
    <3> HIDE DEF k
    <3>2. C[k] = W[st + k] \/ (W[st + k] = None /\ C[k] = st + k - 1)
      BY <1>1, <3>1 DEF CacheRepeats, nC
    <3>3. QED BY <2>2, <3>1, <3>2
  <2>4. CASE ~ (i >= st)
    <3>1. i + 1 \in 1 .. nS /\ Item(l, i) = l.store[i + 1]
      BY <1>1, <1>3, <1>4, <2>4
    <3>2. QED BY <3>1, <1>2, <2>2
  <2>5. QED BY <2>3, <2>4
<1>5. ASSUME i < nS PROVE Yields(l, i) /\ W[i + 1] = l.store[i + 1]
  <2>1. i + 1 \in 1 .. nS BY <1>1, <1>5
  <2>2. Yields(l, i) BY <1>1, <1>3, <1>5
  <2>3. QED BY <2>1, <2>2, <1>2
<1>6. l.pending_inserts <= CacheSize /\ i < IterLen(l) => Yields(l, i)
  BY <1>1, <1>3
<1>7. QED BY <1>4, <1>5, <1>6 DEF W, nS

\* An object that can be read is the one of the height it is read at.
LEMMA AvailableInPlace ==
  ASSUME NEW l, LogInv(l), NEW i \in Nat, Available(l, i)
  PROVE  Item(l, i) = i /\ i < IterLen(l)
<1> DEFINE st == l.cache_start
           nS == Len(l.store)
           nA == Len(l.appended)
           nC == Len(l.cache)
<1>1. Item(l, i) = i
  BY ReadsInPlace DEF Available
<1>2. /\ st \in Nat /\ nS \in Nat /\ nA \in Nat /\ nC \in Nat
      /\ st + nC = nS + nA /\ IterLen(l) = st + nC
  BY LogParts DEF LogInv, IterLen
<1>3. IF i >= st THEN i - st < nC ELSE i < nS
  BY DEF Available, Yields
<1> HIDE DEF st, nS, nA, nC
<1>4. i < IterLen(l)
  BY <1>2, <1>3
<1>5. QED BY <1>1, <1>4

\* Where no object can be read the store has none.
LEMMA UnavailableNotStored ==
  ASSUME NEW l, LogInv(l), NEW i \in Nat, ~ Available(l, i), i < Len(l.store)
  PROVE  l.store[i + 1] = None
BY ReadsInPlace DEF Available

\* A nonempty set of natural numbers has a least element.
LEMMA LeastNatural ==
  ASSUME NEW S, S \subseteq Nat, S # {}
  PROVE  \E x \in S : \A y \in S : x <= y
<1> DEFINE R == OpToRel(<, Nat)
<1>1. IsWellFoundedOn(R, Nat)
  BY NatLessThanWellFounded
<1>2. \A x, y \in Nat : y < x => << y, x >> \in R
  BY DEF OpToRel
<1> HIDE DEF R
<1>3. \E x \in S : \A y \in S : ~ (<< y, x >> \in R)
  BY <1>1, WFMin
<1>4. \A x, y \in Nat : ~ (y < x) => x <= y
  OBVIOUS
<1>5. QED BY <1>2, <1>3, <1>4

\* The search for the first position without an object ends within the log.
LEMMA FirstUnavailableInLog ==
  ASSUME NEW l, LogInv(l), NEW p \in Nat, p <= IterLen(l)
  PROVE  /\ FirstUnavailable(l, p) \in p .. IterLen(l)
         /\ ~ Available(l, FirstUnavailable(l, p))
         /\ \A r \in p .. FirstUnavailable(l, p) - 1 : Available(l, r)
<1> DEFINE n == IterLen(l)
           S == { q \in Nat : q >= p /\ ~ Available(l, q) }
<1>1. n \in Nat
  <2>1. l.cache_start \in Nat /\ Len(l.cache) \in Nat
    BY LogParts, Zenon
  <2>2. QED BY <2>1 DEF IterLen
<1> HIDE DEF n
<1>2. \A r \in Nat : Available(l, r) => r < n
  BY AvailableInPlace DEF n
<1>3. n \in S
  BY <1>1, <1>2 DEF n
<1>4. PICK q \in S : \A m \in S : q <= m
  BY <1>3, LeastNatural
<1>5. /\ q \in p .. p + n /\ ~ Available(l, q)
      /\ \A r \in p .. q - 1 : Available(l, r)
  BY <1>1, <1>3, <1>4
<1> HIDE DEF S
<1>6. /\ FirstUnavailable(l, p) \in p .. p + n
      /\ ~ Available(l, FirstUnavailable(l, p))
      /\ \A r \in p .. FirstUnavailable(l, p) - 1 : Available(l, r)
  BY <1>5 DEF FirstUnavailable, n
<1>7. FirstUnavailable(l, p) <= n
  <2> DEFINE f == FirstUnavailable(l, p)
  <2>1. f \in p .. p + n /\ \A r \in p .. f - 1 : Available(l, r)
    BY <1>6
  <2> HIDE DEF f
  <2>2. CASE f = p BY <2>2 DEF n, f
  <2>3. CASE f # p
    <3>1. f - 1 \in p .. f - 1 /\ f - 1 \in Nat BY <2>1, <2>3, <1>1
    <3>2. f - 1 < n BY <3>1, <2>1, <1>2
    <3>3. QED BY <3>1, <3>2, <1>1, <2>1 DEF f
  <2>4. QED BY <2>2, <2>3
<1>8. QED BY <1>1, <1>6, <1>7 DEF n

\* `commit_version` keeps the invariant and broadcasts, in order, the objects of
\* the heights from the old to the new stream_pos.
LEMMA CommitInv ==
  ASSUME NEW l, LogInv(l)
  PROVE  /\ LogInv(CommitVersion(l)) /\ FrontierInv(CommitVersion(l))
         /\ CommitVersion(l).store = l.store \o l.appended
         /\ CommitVersion(l).stream_pos >= l.stream_pos
         /\ Broadcast(l) \in Seq(Nat)
         /\ Len(Broadcast(l)) = CommitVersion(l).stream_pos - l.stream_pos
         /\ \A k \in 1 .. Len(Broadcast(l)) :
              Broadcast(l)[k] = l.stream_pos + k - 1 /\ Available(Stored(l), l.stream_pos + k - 1)
<1> DEFINE s == Stored(l)
           p == l.stream_pos
           f == FirstUnavailable(s, p)
           new == CommitVersion(l)
<1>1. /\ LogInv(s) /\ s.stream_pos = p /\ s.appended = << >> /\ s.store = l.store \o l.appended
  BY StoredInv
<1>2. p \in Nat /\ p <= IterLen(s) /\ IterLen(s) = Len(s.store)
  <2>1. /\ s.stream_pos <= Len(s.store) /\ s.appended = << >>
        /\ s.cache_start + Len(s.cache) = Len(s.store) + Len(s.appended)
    BY <1>1 DEF LogInv
  <2>2. Len(s.store) \in Nat /\ s.stream_pos \in Nat
    BY <1>1, LogParts
  <2> DEFINE n == Len(s.store)
  <2>3. n \in Nat /\ s.cache_start + Len(s.cache) = n + 0
    BY <2>1, <2>2
  <2> HIDE DEF n, s, p
  <2>4. s.cache_start + Len(s.cache) = n
    BY <2>3
  <2>5. IterLen(s) = Len(s.store) BY <2>4 DEF IterLen, n
  <2>6. QED BY <1>1, <2>1, <2>2, <2>5
<1> HIDE DEF s, f
<1>3. f \in p .. IterLen(s) /\ ~ Available(s, f) /\ \A r \in p .. f - 1 : Available(s, r)
  BY <1>1, <1>2, FirstUnavailableInLog DEF f
<1>4. new = [ s EXCEPT !.stream_pos = f ]
  BY DEF CommitVersion, s, f
<1>5. IterLen(s) \in Nat
  BY <1>1, <1>2, LogParts
<1>6. f \in Nat /\ f >= p /\ f <= Len(s.store)
  BY <1>2, <1>3, <1>5
<1> HIDE DEF new, p
<1>7. /\ new.store = s.store /\ new.appended = s.appended /\ new.cache = s.cache
      /\ new.cache_start = s.cache_start /\ new.pending_inserts = s.pending_inserts
      /\ new.stream_pos = f /\ new \in LogType
  <2>1. s \in LogType BY <1>1 DEF LogInv
  <2>2. QED BY <2>1, <1>4, <1>6 DEF LogType
<1>8. LogInv(new) /\ FrontierInv(new)
  <2>1. f < Len(s.store) => s.store[f + 1] = None
    BY <1>1, <1>3, <1>6, UnavailableNotStored
  <2>2. QED BY <1>1, <1>6, <1>7, <2>1 DEF LogInv, FrontierInv
<1>9. Broadcast(l) = [ k \in 1 .. f - p |-> Item(s, p + k - 1) ]
  BY DEF Broadcast, s, p, f
<1>10. \A k \in 1 .. f - p : /\ Item(s, p + k - 1) = p + k - 1 /\ p + k - 1 \in Nat
                             /\ Available(s, p + k - 1)
  <2>1. TAKE k \in 1 .. f - p
  <2> DEFINE r == p + k - 1
  <2>2. r \in p .. f - 1 /\ r \in Nat BY <1>2, <1>6
  <2> HIDE DEF r
  <2>3. Available(s, r) BY <2>2, <1>3
  <2>4. Item(s, r) = r BY <2>2, <2>3, <1>1, AvailableInPlace
  <2>5. QED BY <2>2, <2>3, <2>4 DEF r
<1> DEFINE B == Broadcast(l)
           d == f - p
<1>11. d \in Nat /\ B = [ k \in 1 .. d |-> p + k - 1 ] /\ \A k \in 1 .. d : p + k - 1 \in Nat /\ Available(s, p + k - 1)
  <2>1. d \in Nat BY <1>2, <1>6
  <2>2. B = [ k \in 1 .. d |-> p + k - 1 ] BY <1>9, <1>10
  <2>3. QED BY <2>1, <2>2, <1>10
<1> HIDE DEF B, d
<1>12. B \in Seq(Nat) /\ Len(B) = d /\ \A k \in 1 .. Len(B) : B[k] = p + k - 1 /\ Available(s, p + k - 1)
  BY <1>11
<1>13. QED BY <1>1, <1>6, <1>7, <1>8, <1>12 DEF B, d, p, s, new

\* `revert_version` when no more entries are pending than the cache can hold.
LEMMA RevertInv ==
  ASSUME NEW l, LogInv(l), l.pending_inserts <= CacheSize
  PROVE  /\ LogInv(RevertVersion(l))
         /\ RevertVersion(l).store = l.store
         /\ RevertVersion(l).stream_pos = l.stream_pos
<1> DEFINE S   == l.store
           A   == l.appended
           C   == l.cache
           st  == l.cache_start
           nS  == Len(S)
           nA  == Len(A)
           nC  == Len(C)
           m   == nC - nA
           D   == SubSeq(C, 1, m)
           new == RevertVersion(l)
<1>1. /\ S \in Seq(Entry) /\ A \in Seq(Entry) /\ C \in Seq(Entry) /\ CacheSize \in Nat
      /\ st \in Nat /\ nS \in Nat /\ nA \in Nat /\ nC \in Nat
      /\ st + nC = nS + nA /\ (nC >= nA \/ nC >= CacheSize) /\ nA <= CacheSize
      /\ EntriesInPlace(S \o A) /\ CacheRepeats(C, S \o A, st) /\ l.stream_pos <= nS
  BY LogParts DEF LogInv
<1>2. l.pending_inserts = nA
  BY DEF LogInv
<1> HIDE DEF S, A, C, st, nS, nA, nC
<1>3. m \in 0 .. nC /\ st + m = nS
  BY <1>1
<1> HIDE DEF m
<1>4. D \in Seq(Entry) /\ Len(D) = m /\ \A k \in 1 .. m : D[k] = C[k]
  BY <1>1, <1>3 DEF nC
<1>5. \A k \in 1 .. nS : (S \o A)[k] = S[k]
  BY <1>1 DEF nS
<1>6. EntriesInPlace(S)
  <2>1. \A k \in 1 .. nS : k \in 1 .. nS + nA BY <1>1
  <2>2. Len(S \o A) = nS + nA BY <1>1 DEF nS, nA
  <2>3. QED BY <2>1, <2>2, <1>1, <1>5 DEF EntriesInPlace, nS
<1> HIDE DEF D
<1>7. CacheRepeats(D, S, st)
  <2>1. SUFFICES ASSUME NEW k \in 1 .. m
                 PROVE  D[k] = S[st + k] \/ (S[st + k] = None /\ D[k] = st + k - 1)
    BY <1>4 DEF CacheRepeats
  <2>2. k \in 1 .. nC /\ st + k \in 1 .. nS BY <1>1, <1>3
  <2>3. C[k] = (S \o A)[st + k] \/ ((S \o A)[st + k] = None /\ C[k] = st + k - 1)
    BY <2>2, <1>1 DEF CacheRepeats, nC
  <2>4. QED BY <2>2, <2>3, <1>4, <1>5
<1>8. new = [ l EXCEPT !.appended = << >>, !.pending_inserts = 0, !.cache = D ]
  BY <1>2 DEF RevertVersion, D, C, m, nC
<1>9. << >> \in Seq(Entry) /\ Len(<< >>) = 0 /\ S \o << >> = S
  BY <1>1, EmptySeq, ConcatEmptySeq
<1> HIDE DEF new
<1>10. /\ new.store = S /\ new.appended = << >> /\ new.pending_inserts = 0
       /\ new.cache = D /\ new.cache_start = st /\ new.stream_pos = l.stream_pos
       /\ new \in LogType
  <2>1. l \in LogType BY DEF LogInv
  <2>2. QED BY <2>1, <1>4, <1>8, <1>9 DEF LogType, S, st
<1>11. /\ st + m = nS + 0 /\ m >= 0
  BY <1>1, <1>3
<1>12. LogInv(new)
  <2>1. /\ new.pending_inserts = Len(new.appended)
        /\ new.cache_start + Len(new.cache) = Len(new.store) + Len(new.appended)
        /\ Len(new.cache) >= Len(new.appended)
    BY <1>4, <1>9, <1>10, <1>11 DEF nS
  <2>2. new.store \o new.appended = S
    BY <1>9, <1>10
  <2>3. new.stream_pos <= Len(new.store)
    BY <1>1, <1>10 DEF nS
  <2>4. QED BY <2>1, <2>2, <2>3, <1>6, <1>7, <1>10 DEF LogInv
<1>13. QED BY <1>10, <1>12 DEF new, S

\* `open` on any entries that are in place.
LEMMA OpenInv ==
  ASSUME NEW es \in Seq(Entry), EntriesInPlace(es)
  PROVE  /\ LogInv(OpenLog(es)) /\ FrontierInv(OpenLog(es))
         /\ OpenLog(es).store = es
         /\ OpenLog(es).stream_pos \in 0 .. Len(es)
         /\ \A r \in 0 .. OpenLog(es).stream_pos - 1 : es[r + 1] # None
<1> DEFINE n   == Len(es)
           st  == IF n > CacheSize THEN n - CacheSize ELSE 0
           D   == SubSeq(es, st + 1, n)
           new == [ store |-> es, appended |-> << >>, pending_inserts |-> 0,
                    cache_start |-> st, cache |-> D, stream_pos |-> 0 ]
           f   == FirstUnavailable(new, 0)
<1>1. n \in Nat /\ CacheSize \in Nat
  BY LenProperties, CacheSizeAssumption
<1> HIDE DEF n
<1>2. st \in 0 .. n
  BY <1>1
<1> HIDE DEF st
<1>3. /\ D \in Seq(Entry) /\ Len(D) = n - st
      /\ \A k \in 1 .. n - st : D[k] = es[st + k]
  BY <1>2, Suffix DEF n
<1> HIDE DEF D
<1>4. CacheRepeats(D, es, st)
  BY <1>3 DEF CacheRepeats
<1>5. << >> \in Seq(Entry) /\ Len(<< >>) = 0 /\ es \o << >> = es
  BY EmptySeq, ConcatEmptySeq
<1>6. new \in LogType /\ new.store = es /\ new.appended = << >> /\ new.pending_inserts = 0
      /\ new.cache_start = st /\ new.cache = D /\ new.stream_pos = 0
  <2>1. st \in Nat BY <1>1, <1>2
  <2>2. QED BY <2>1, <1>3, <1>5 DEF LogType
<1>7. st + (n - st) = n + 0 /\ n - st >= 0 /\ 0 <= n /\ st + (n - st) = n
  BY <1>1, <1>2
<1> HIDE DEF new, f
<1>8. LogInv(new)
  <2>1. /\ new.pending_inserts = Len(new.appended)
        /\ new.cache_start + Len(new.cache) = Len(new.store) + Len(new.appended)
        /\ Len(new.cache) >= Len(new.appended)
        /\ new.stream_pos <= Len(new.store)
    BY <1>3, <1>5, <1>6, <1>7 DEF n
  <2>2. new.store \o new.appended = es
    BY <1>5, <1>6
  <2>3. QED BY <2>1, <2>2, <1>4, <1>6 DEF LogInv
<1>9. IterLen(new) = n
  BY <1>3, <1>6, <1>7 DEF IterLen
<1>10. f \in 0 .. n /\ ~ Available(new, f) /\ \A r \in 0 .. f - 1 : Available(new, r)
  BY <1>1, <1>8, <1>9, FirstUnavailableInLog DEF f
<1>11. OpenLog(es) = [ new EXCEPT !.stream_pos = f ]
  BY DEF OpenLog, new, st, D, n, f
<1> DEFINE o == OpenLog(es)
<1> HIDE DEF o
<1>12. /\ o.store = new.store /\ o.appended = new.appended /\ o.cache = new.cache
       /\ o.cache_start = new.cache_start /\ o.pending_inserts = new.pending_inserts
       /\ o.stream_pos = f /\ o \in LogType
  <2>1. new \in LogType /\ f \in Nat
    BY <1>1, <1>8, <1>10 DEF LogInv
  <2>2. o = [ new EXCEPT !.stream_pos = f ]
    BY <1>11 DEF o
  <2> HIDE DEF new, f
  <2>3. QED BY <2>1, <2>2 DEF LogType
<1>13. f <= Len(new.store)
  BY <1>6, <1>10, <1>1 DEF n
<1>14. LogInv(o)
  BY <1>8, <1>12, <1>13 DEF LogInv
<1>15. FrontierInv(o)
  BY <1>1, <1>8, <1>10, <1>12, UnavailableNotStored DEF FrontierInv
<1>16. \A r \in 0 .. f - 1 : es[r + 1] # None
  <2>1. TAKE r \in 0 .. f - 1
  <2>2. r \in Nat /\ r < n /\ Available(new, r)
    BY <1>1, <1>10
  <2>3. CASE r >= st
    <3>1. r - st + 1 \in 1 .. n - st /\ st + (r - st + 1) = r + 1
      BY <1>1, <1>2, <2>2, <2>3
    <3>2. Item(new, r) = D[r - st + 1]
      BY <1>6, <2>3 DEF Item
    <3>3. QED BY <1>3, <2>2, <3>1, <3>2 DEF Available
  <2>4. CASE ~ (r >= st)
    BY <1>6, <2>2, <2>4 DEF Item, Available
  <2>5. QED BY <2>3, <2>4
<1>17. QED BY <1>6, <1>10, <1>12, <1>14, <1>15, <1>16 DEF o, n

\* The prefix a subscription starts with holds the objects of the heights from
\* `from` up to stream_pos, none left out.
LEMMA PrefixInOrder ==
  ASSUME NEW l, LogInv(l), NEW from \in Nat, CanSubscribe(l, from)
  PROVE  /\ Prefix(l, from) \in Seq(Nat)
         /\ Skipped(l, from) \in Nat
         /\ from - Skipped(l, from) + Len(Prefix(l, from)) = l.stream_pos
         /\ Len(Prefix(l, from)) > 0 => Skipped(l, from) = 0
         /\ \A k \in 1 .. Len(Prefix(l, from)) :
              Prefix(l, from)[k] = from + k - 1 /\ Available(l, from + k - 1)
<1> DEFINE p == l.stream_pos
           n == PrefixLen(l, from)
           P == Prefix(l, from)
<1>1. p \in Nat
  BY LogParts, Zenon
<1>2. \A i \in Nat : i < p => Yields(l, i)
  <2> DEFINE st == l.cache_start
             nS == Len(l.store)
             nA == Len(l.appended)
             nC == Len(l.cache)
  <2>1. /\ st \in Nat /\ nS \in Nat /\ nA \in Nat /\ nC \in Nat
        /\ st + nC = nS + nA /\ p <= nS
    BY LogParts DEF LogInv
  <2>2. TAKE i \in Nat
  <2>3. Yields(l, i) <=> IF i >= st THEN i - st < nC ELSE i < nS
    BY DEF Yields
  <2> HIDE DEF st, nS, nA, nC, p
  <2>4. QED BY <1>1, <2>1, <2>3
<1>3. n = IF from >= p THEN 0 ELSE p - from
  <2>1. CASE from >= p BY <2>1 DEF PrefixLen
  <2>2. CASE ~ (from >= p)
    <3> DEFINE Q(x) == /\ \A k \in 0 .. x - 1 : Yields(l, from + k)
                       /\ x < p - from => ~ Yields(l, from + x)
    <3>1. n = CHOOSE x \in 0 .. p - from : Q(x)
      BY <2>2 DEF PrefixLen
    <3>2. p - from \in 0 .. p - from /\ Q(p - from)
      BY <1>1, <1>2, <2>2
    <3>3. \A x \in 0 .. p - from : x < p - from => Yields(l, from + x)
      BY <1>1, <1>2, <2>2
    <3> HIDE DEF n, p
    <3>4. n \in 0 .. p - from /\ Q(n)
      BY <3>1, <3>2
    <3>5. QED BY <1>1, <2>2, <3>3, <3>4
  <2>3. QED BY <2>1, <2>2
<1> HIDE DEF n, p
<1>4. P = [ k \in 1 .. n |-> Item(l, from + k - 1) ]
  BY DEF Prefix, n
<1>5. n \in Nat /\ (n > 0 => from + n = p)
  BY <1>1, <1>3
<1>6. \A k \in 1 .. n : /\ from + k - 1 \in Nat /\ Item(l, from + k - 1) = from + k - 1
                       /\ Available(l, from + k - 1)
  <2>1. TAKE k \in 1 .. n
  <2>2. from + k - 1 \in Nat /\ from + k - 1 < p
    BY <1>1, <1>5
  <2>3. Item(l, from + k - 1) # None
    BY <1>4 DEF CanSubscribe, n
  <2>4. QED BY <2>2, <2>3, <1>2, AvailableInPlace DEF Available
<1>7. P = [ k \in 1 .. n |-> from + k - 1 ]
  BY <1>4, <1>6
<1> HIDE DEF P
<1>8. P \in Seq(Nat) /\ Len(P) = n /\ \A k \in 1 .. Len(P) : P[k] = from + k - 1 /\ Available(l, from + k - 1)
  <2>1. P \in Seq(Nat) /\ Len(P) = n /\ \A k \in 1 .. n : P[k] = from + k - 1
    BY <1>5, <1>6, <1>7
  <2>2. QED BY <1>6, <2>1
<1>9. /\ Skipped(l, from) = IF from > p THEN from - p ELSE 0
  BY DEF Skipped, p
<1>10. Skipped(l, from) \in Nat /\ from - Skipped(l, from) + n = p
       /\ (n > 0 => Skipped(l, from) = 0)
  BY <1>1, <1>3, <1>9
<1>11. QED BY <1>8, <1>10 DEF P, p

\* What reopening reads back: a prefix of the store with placeholders where an
\* entry failed to load.
LEMMA ReloadedInPlace ==
  ASSUME NEW l, LogInv(l), NEW n \in 0 .. Len(l.store), NEW bad
  PROVE  LET es == [ i \in 1 .. n |-> IF i - 1 \in bad THEN None ELSE l.store[i] ]
         IN  es \in Seq(Entry) /\ Len(es) = n /\ EntriesInPlace(es)
<1> DEFINE es == [ i \in 1 .. n |-> IF i - 1 \in bad THEN None ELSE l.store[i] ]
           nS == Len(l.store)
           nA == Len(l.appended)
           W  == l.store \o l.appended
<1>1. /\ l.store \in Seq(Entry) /\ l.appended \in Seq(Entry) /\ nS \in Nat /\ nA \in Nat
      /\ Len(W) = nS + nA /\ EntriesInPlace(W)
  BY LogParts DEF LogInv
<1>2. \A k \in 1 .. nS : W[k] = l.store[k]
  <2> DEFINE s == l.store
             a == l.appended
  <2>1. s \in Seq(Entry) /\ a \in Seq(Entry) BY <1>1
  <2> HIDE DEF s, a
  <2>2. \A k \in 1 .. Len(s) : (s \o a)[k] = s[k] BY <2>1
  <2>3. QED BY <2>2 DEF s, a
<1>3. \A k \in 1 .. nS : l.store[k] \in Entry
  BY <1>1, ElementOfSeq
<1> HIDE DEF nS, nA, W
<1>4. n \in Nat /\ \A k \in 1 .. n : k \in 1 .. nS /\ k \in 1 .. nS + nA
  BY <1>1 DEF nS
<1>5. \A k \in 1 .. n : l.store[k] \in Entry /\ l.store[k] \in {None, k - 1}
  BY <1>1, <1>2, <1>3, <1>4 DEF EntriesInPlace
<1>6. \A k \in 1 .. n : es[k] \in Entry /\ es[k] \in {None, k - 1}
  BY <1>5 DEF Entry
<1>7. es \in Seq(Entry) /\ Len(es) = n
  BY <1>4, <1>6
<1> HIDE DEF es
<1>8. QED BY <1>6, <1>7 DEF EntriesInPlace, es

-----------------------------------------------------------------------------
(* What a log holds, and how many entries it has. *)

Entries(s) == { s[k] : k \in 1 .. Len(s) }

\* Everything there is in the store, written or not, and in the cache.
Held(l) == Entries(l.store) \cup Entries(l.appended) \cup Entries(l.cache)

LEMMA EntriesConcat ==
  ASSUME NEW a \in Seq(Entry), NEW b \in Seq(Entry)
  PROVE  Entries(a \o b) = Entries(a) \cup Entries(b)
<1>1. Len(a) \in Nat /\ Len(b) \in Nat
  BY LenProperties
<1>2. /\ Len(a \o b) = Len(a) + Len(b)
      /\ \A k \in 1 .. Len(a) + Len(b) : (a \o b)[k] = IF k <= Len(a) THEN a[k] ELSE b[k - Len(a)]
  BY ConcatProperties
<1> DEFINE c == a \o b
           nA == Len(a)
           nB == Len(b)
<1> HIDE DEF c, nA, nB
<1>3. \A k \in 1 .. nA : k \in 1 .. nA + nB /\ c[k] = a[k]
  BY <1>1, <1>2 DEF c, nA, nB
<1>4. \A k \in 1 .. nB : nA + k \in 1 .. nA + nB /\ c[nA + k] = b[k]
  <2>1. SUFFICES ASSUME NEW k \in 1 .. nB PROVE nA + k \in 1 .. nA + nB /\ c[nA + k] = b[k]
    OBVIOUS
  <2>2. nA + k \in 1 .. nA + nB /\ ~ (nA + k <= nA) /\ (nA + k) - nA = k
    BY <1>1 DEF nA, nB
  <2>3. \A j \in 1 .. nA + nB : c[j] = IF j <= nA THEN a[j] ELSE b[j - nA]
    BY <1>2 DEF c, nA, nB
  <2>4. QED BY <2>2, <2>3
<1>5. \A k \in 1 .. nA + nB : \/ k \in 1 .. nA /\ c[k] = a[k]
                              \/ k - nA \in 1 .. nB /\ c[k] = b[k - nA]
  BY <1>1, <1>2 DEF c, nA, nB
<1>6. Entries(c) = { c[k] : k \in 1 .. nA + nB }
  BY <1>2 DEF Entries, c, nA, nB
<1>7. Entries(a) = { a[k] : k \in 1 .. nA } /\ Entries(b) = { b[k] : k \in 1 .. nB }
  BY DEF Entries, nA, nB
<1>8. Entries(c) = Entries(a) \cup Entries(b)
  BY <1>3, <1>4, <1>5, <1>6, <1>7
<1>9. QED BY <1>8 DEF c

LEMMA EntriesSub ==
  ASSUME NEW s \in Seq(Entry), NEW m \in 1 .. Len(s) + 1, NEW n \in 0 .. Len(s)
  PROVE  Entries(SubSeq(s, m, n)) \subseteq Entries(s)
<1> DEFINE len == Len(s)
           t == SubSeq(s, m, n)
<1>1. len \in Nat /\ m \in Nat /\ n \in Nat /\ m >= 1 /\ n <= len
  BY LenProperties
<1>2. \A k \in m .. n : s[k] \in Entry
  BY <1>1, ElementOfSeq
<1> HIDE DEF len
<1>3. /\ Len(t) = IF m <= n THEN n - m + 1 ELSE 0
      /\ \A k \in 1 .. n - m + 1 : t[k] = s[m + k - 1]
  BY <1>1, <1>2, SubSeqProperties
<1> HIDE DEF t
<1>4. \A k \in 1 .. Len(t) : m + k - 1 \in 1 .. len /\ t[k] = s[m + k - 1]
  BY <1>1, <1>3
<1>5. QED BY <1>4 DEF Entries, t, len

\* Nothing is held that was not there or has just been written.
LEMMA StoreAllHolds ==
  ASSUME NEW l, LogInv(l), NEW es \in Seq(Entry)
  PROVE  /\ Held(StoreAll(l, es)) \subseteq Held(l) \cup Entries(es)
         /\ NextPos(StoreAll(l, es)) = NextPos(l) + Len(es)
<1> DEFINE all == l.cache \o es
           n   == IF Len(all) > CacheSize THEN Len(all) - CacheSize ELSE 0
           D   == SubSeq(all, n + 1, Len(all))
           new == StoreAll(l, es)
<1>1. /\ l.store \in Seq(Entry) /\ l.appended \in Seq(Entry) /\ l.cache \in Seq(Entry)
      /\ l.pending_inserts \in Nat /\ Len(l.store) \in Nat /\ Len(es) \in Nat
  BY LogParts, LenProperties, Zenon
<1>2. all \in Seq(Entry) /\ Entries(all) = Entries(l.cache) \cup Entries(es)
  BY <1>1, ConcatProperties, EntriesConcat, Zenon
<1>3. new = [ l EXCEPT !.appended        = @ \o es,
                       !.pending_inserts = @ + Len(es),
                       !.cache_start     = @ + n,
                       !.cache           = D ]
  BY DEF StoreAll
<1> HIDE DEF all
<1>4. n + 1 \in 1 .. Len(all) + 1 /\ Len(all) \in 0 .. Len(all)
  <2> DEFINE na == Len(all)
  <2>1. na \in Nat /\ CacheSize \in Nat \ {0}
    BY <1>2, LenProperties, CacheSizeAssumption
  <2> HIDE DEF na
  <2>2. QED BY <2>1 DEF na
<1> HIDE DEF n
<1>5. Entries(D) \subseteq Entries(all)
  BY <1>2, <1>4, EntriesSub
<1> HIDE DEF D, new
<1>6. l \in LogType
  BY DEF LogInv
<1>7. /\ new.store = l.store /\ new.appended = l.appended \o es /\ new.cache = D
      /\ new.pending_inserts = l.pending_inserts + Len(es)
  BY <1>3, <1>6 DEF LogType
<1>8. Entries(l.appended \o es) = Entries(l.appended) \cup Entries(es)
  BY <1>1, EntriesConcat
<1>9. Held(new) \subseteq Held(l) \cup Entries(es)
  BY <1>2, <1>5, <1>7, <1>8 DEF Held
<1>10. NextPos(new) = NextPos(l) + Len(es)
  BY <1>1, <1>7 DEF NextPos
<1>11. QED BY <1>9, <1>10 DEF new

\* An insert brings its object and placeholders, and reaches just past the object.
LEMMA InsertHolds ==
  ASSUME NEW l, LogInv(l), NEW h \in Nat
  PROVE  /\ Held(InsertObject(l, h, h)) \subseteq Held(l) \cup {h, None}
         /\ NextPos(InsertObject(l, h, h)) = IF h >= NextPos(l) THEN h + 1 ELSE NextPos(l)
         /\ NextPos(InsertObject(l, h, h)) \in Nat
<1> DEFINE p == NextPos(l)
<1>0. p \in Nat
  BY LogParts, Zenon
<1>1. CASE h >= p
  <2> DEFINE P == Padded(l, h, h)
             n == h - p + 1
  <2>1. 0 \in 0 .. h - p
    <3> HIDE DEF p
    <3>1. QED BY <1>0, <1>1
  <2>2. P \in Seq(Entry)
    BY <1>1, <2>1, PaddedInPlace
  <2>3. P = [ k \in 1 .. n |-> IF k = n THEN h ELSE None ]
    BY DEF Padded
  <2>4. InsertObject(l, h, h) = StoreAll(l, P)
    BY <1>1 DEF InsertObject
  <2>5. /\ Held(StoreAll(l, P)) \subseteq Held(l) \cup Entries(P)
        /\ NextPos(StoreAll(l, P)) = p + Len(P)
    BY <2>2, StoreAllHolds
  <2> HIDE DEF p, P
  <2>6. n \in Nat /\ p + n = h + 1
    BY <1>0, <1>1
  <2> HIDE DEF n
  <2>7. Len(P) = n /\ Entries(P) \subseteq {h, None}
    BY <2>2, <2>3, <2>6 DEF Entries
  <2>8. NextPos(StoreAll(l, P)) = h + 1
    BY <2>5, <2>6, <2>7
  <2>9. QED BY <1>1, <2>4, <2>5, <2>7, <2>8 DEF p
<1>2. CASE ~ (h >= p) /\ h >= l.cache_start
  <2> DEFINE new == InsertObject(l, h, h)
             j == h - l.cache_start + 1
             D == [ l.cache EXCEPT ![j] = h ]
  <2>1. new = [ l EXCEPT !.cache = D ] /\ l \in LogType /\ l.cache \in Seq(Entry)
    BY <1>2 DEF InsertObject, LogInv, LogType
  <2> HIDE DEF new, j
  <2>2. Len(D) = Len(l.cache) /\ \A k \in 1 .. Len(l.cache) : D[k] \in {h, l.cache[k]}
    BY <2>1
  <2> HIDE DEF D
  <2>3. Entries(D) \subseteq Entries(l.cache) \cup {h}
    BY <2>2 DEF Entries
  <2>4. /\ new.store = l.store /\ new.appended = l.appended /\ new.cache = D
        /\ new.pending_inserts = l.pending_inserts
    BY <2>1 DEF LogType
  <2>5. QED BY <1>0, <1>2, <2>3, <2>4 DEF Held, NextPos, new
<1>3. CASE ~ (h >= p) /\ ~ (h >= l.cache_start)
  BY <1>0, <1>3 DEF InsertObject
<1>4. QED BY <1>1, <1>2, <1>3

\* A failing insert leaves a part of that, and stays before the object.
LEMMA InsertFailingKeeps ==
  ASSUME NEW l, LogInv(l), NEW h \in Nat, NEW k \in 0 .. h - NextPos(l)
  PROVE  /\ LogInv(InsertFailing(l, h, h, k))
         /\ InsertFailing(l, h, h, k).store = l.store
         /\ Held(InsertFailing(l, h, h, k)) \subseteq Held(l) \cup {None}
         /\ NextPos(InsertFailing(l, h, h, k)) \in NextPos(l) .. h
<1> DEFINE p == NextPos(l)
           P == Padded(l, h, h)
           n == h - p + 1
           es == SubSeq(P, 1, k)
           new == InsertFailing(l, h, h, k)
<1>0. p \in Nat
  BY LogParts, Zenon
<1>1. h >= p /\ k \in Nat /\ k \in 0 .. h - p /\ p + k \in p .. h
  <2>1. k \in 0 .. h - p
    OBVIOUS
  <2> HIDE DEF p
  <2>2. QED BY <1>0, <2>1
<1>2. /\ P \in Seq(Entry) /\ es \in Seq(Entry)
      /\ \A i \in 1 .. Len(es) : es[i] \in {None, p + i - 1}
  BY <1>1, PaddedInPlace
<1>3. P = [ i \in 1 .. n |-> IF i = n THEN h ELSE None ]
  BY DEF Padded
<1>4. new = StoreAll(l, es)
  BY DEF InsertFailing
<1>5. /\ LogInv(StoreAll(l, es)) /\ StoreAll(l, es).store = l.store
      /\ Held(StoreAll(l, es)) \subseteq Held(l) \cup Entries(es)
      /\ NextPos(StoreAll(l, es)) = p + Len(es)
  BY <1>2, StoreAllInv, StoreAllHolds
<1> HIDE DEF p, P, new
<1>6. n \in Nat /\ k < n /\ n \in 1 .. n
  BY <1>0, <1>1
<1> HIDE DEF n
<1>7. Len(P) = n
  BY <1>2, <1>3, <1>6
<1>8. /\ Len(es) = k
      /\ \A i \in 1 .. k : es[i] = None
  <2>1. \A i \in 1 .. k : P[i] \in Entry
    BY <1>2, <1>6, <1>7, ElementOfSeq
  <2>2. Len(es) = k /\ \A i \in 1 .. k : es[i] = P[i]
    BY <1>1, <1>2, <1>6, <1>7, <2>1, SubSeqProperties
  <2>3. QED BY <2>2, <1>3, <1>6
<1>9. Entries(es) \subseteq {None}
  BY <1>8 DEF Entries
<1>10. QED BY <1>1, <1>4, <1>5, <1>8, <1>9 DEF p, new

\* A commit and a revert bring nothing.
LEMMA CommitHolds ==
  ASSUME NEW l, LogInv(l)
  PROVE  /\ Held(CommitVersion(l)) \subseteq Held(l)
         /\ NextPos(CommitVersion(l)) = NextPos(l)
         /\ Len(CommitVersion(l).store) = NextPos(l)
<1> DEFINE new == CommitVersion(l)
<1>1. /\ l.store \in Seq(Entry) /\ l.appended \in Seq(Entry) /\ l.cache \in Seq(Entry)
      /\ Len(l.store \o l.appended) = NextPos(l) /\ NextPos(l) \in Nat
  BY LogParts
<1>2. /\ new.store = l.store \o l.appended /\ new.appended = << >> /\ new.cache = l.cache
      /\ new.pending_inserts = 0
  <2>1. l \in LogType
    BY DEF LogInv
  <2>2. QED BY <2>1 DEF LogType, CommitVersion, Stored
<1> HIDE DEF new
<1>3. Entries(l.store \o l.appended) = Entries(l.store) \cup Entries(l.appended)
  BY <1>1, EntriesConcat
<1>4. Entries(<< >>) = {}
  BY DEF Entries
<1>5. Held(new) \subseteq Held(l)
  BY <1>2, <1>3, <1>4 DEF Held
<1>6. Len(new.store) = NextPos(l) /\ NextPos(new) = NextPos(l) + 0
  BY <1>1, <1>2 DEF NextPos
<1>7. QED BY <1>1, <1>5, <1>6 DEF new

LEMMA RevertHolds ==
  ASSUME NEW l, LogInv(l), l.pending_inserts <= CacheSize
  PROVE  /\ Held(RevertVersion(l)) \subseteq Held(l)
         /\ NextPos(RevertVersion(l)) = Len(l.store)
<1> DEFINE new == RevertVersion(l)
           n == Len(l.cache) - l.pending_inserts
           D == SubSeq(l.cache, 1, n)
<1>1. /\ l.store \in Seq(Entry) /\ l.cache \in Seq(Entry) /\ Len(l.store) \in Nat /\ Len(l.cache) \in Nat
      /\ l.pending_inserts \in Nat /\ CacheSize \in Nat /\ l.pending_inserts = Len(l.appended)
      /\ Len(l.cache) >= Len(l.appended) \/ Len(l.cache) >= CacheSize
  BY LogParts DEF LogInv
<1>2. n \in 0 .. Len(l.cache) /\ 1 \in 1 .. Len(l.cache) + 1
  <2> DEFINE c == Len(l.cache)
  <2>1. c \in Nat /\ (c >= l.pending_inserts \/ c >= CacheSize)
    BY <1>1
  <2> HIDE DEF c
  <2>2. c - l.pending_inserts \in 0 .. c /\ 1 \in 1 .. c + 1
    BY <1>1, <2>1
  <2>3. QED BY <2>2 DEF c
<1>3. Entries(D) \subseteq Entries(l.cache)
  BY <1>1, <1>2, EntriesSub
<1>4. /\ new.store = l.store /\ new.appended = << >> /\ new.cache = D
      /\ new.pending_inserts = 0
  <2>1. l \in LogType
    BY DEF LogInv
  <2>2. QED BY <2>1 DEF LogType, RevertVersion
<1> HIDE DEF new, D
<1>5. Entries(<< >>) = {}
  BY DEF Entries
<1>6. QED BY <1>1, <1>3, <1>4, <1>5 DEF Held, NextPos, new

\* An opened log holds what was loaded.
LEMMA OpenHolds ==
  ASSUME NEW es \in Seq(Entry)
  PROVE  /\ Held(OpenLog(es)) \subseteq Entries(es)
         /\ NextPos(OpenLog(es)) = Len(es) /\ IterLen(OpenLog(es)) = Len(es)
<1> DEFINE n == Len(es)
           start == IF n > CacheSize THEN n - CacheSize ELSE 0
           D == SubSeq(es, start + 1, n)
           new == OpenLog(es)
<1>1. n \in Nat /\ start \in 0 .. n /\ start + 1 \in 1 .. n + 1 /\ n \in 0 .. n
  <2>1. n \in Nat /\ CacheSize \in Nat
    BY LenProperties, CacheSizeAssumption
  <2> HIDE DEF n
  <2>2. QED BY <2>1
<1> HIDE DEF start
<1>2. Entries(D) \subseteq Entries(es) /\ Len(D) = n - start
  BY <1>1, EntriesSub, Suffix
<1>3. /\ new.store = es /\ new.appended = << >> /\ new.cache = D
      /\ new.pending_inserts = 0 /\ new.cache_start = start
  BY DEF OpenLog, start
<1> HIDE DEF new, D
<1>4. Entries(<< >>) = {}
  BY DEF Entries
<1>5. Held(new) \subseteq Entries(es) /\ NextPos(new) = n + 0
  BY <1>2, <1>3, <1>4 DEF Held, NextPos
<1>6. IterLen(new) = start + (n - start)
  BY <1>2, <1>3 DEF IterLen
<1> HIDE DEF n
<1>7. start + (n - start) = n /\ n + 0 = n
  BY <1>1
<1>8. QED BY <1>5, <1>6, <1>7 DEF new, n

\* What can be read is held, and a stored object can be read.
LEMMA AvailableHeld ==
  ASSUME NEW l, LogInv(l), NEW i \in Nat, Available(l, i)
  PROVE  i \in Held(l)
<1>1. Item(l, i) = i
  BY AvailableInPlace
<1>2. i >= l.cache_start => Item(l, i) \in Entries(l.cache)
  <2>1. l.cache_start \in Nat /\ Len(l.cache) \in Nat
    BY LogParts, Zenon
  <2>2. ASSUME i >= l.cache_start PROVE i - l.cache_start + 1 \in 1 .. Len(l.cache) /\ Item(l, i) = l.cache[i - l.cache_start + 1]
    <3> DEFINE c == Len(l.cache)
    <3>1. i - l.cache_start < c /\ c \in Nat
      BY <2>1, <2>2 DEF Available, Yields
    <3> HIDE DEF c
    <3>2. i - l.cache_start + 1 \in 1 .. c
      BY <2>1, <2>2, <3>1
    <3>3. QED BY <2>2, <3>2 DEF Item, c
  <2>3. QED BY <2>2 DEF Entries
<1>3. ~ (i >= l.cache_start) => Item(l, i) \in Entries(l.store)
  <2>1. l.cache_start \in Nat /\ Len(l.store) \in Nat
    BY LogParts, Zenon
  <2>2. ASSUME ~ (i >= l.cache_start) PROVE i + 1 \in 1 .. Len(l.store) /\ Item(l, i) = l.store[i + 1]
    <3> DEFINE c == Len(l.store)
    <3>1. i < c /\ c \in Nat
      BY <2>1, <2>2 DEF Available, Yields
    <3> HIDE DEF c
    <3>2. i + 1 \in 1 .. c
      BY <3>1
    <3>3. QED BY <2>2, <3>2 DEF Item, c
  <2>3. QED BY <2>2 DEF Entries
<1>4. QED BY <1>1, <1>2, <1>3 DEF Held

LEMMA StoredAvailable ==
  ASSUME NEW l, LogInv(l), NEW i \in Nat, i < Len(l.store), l.store[i + 1] = i
  PROVE  Available(l, i) /\ Item(l, i) = i
<1>1. i # None
  BY NoneAssumption
<1>2. QED BY <1>1, ReadsInPlace DEF Available

-----------------------------------------------------------------------------
(***************************************************************************)
(* An object that is replaced is replaced in the cache only, and is lost   *)
(* with the process.  As long as objects arrive in order, the cache knows  *)
(* nothing that is not in the store or about to be.                        *)
(***************************************************************************)
WrittenIn(l) == Entries(l.store) \cup Entries(l.appended)

CacheIsWritten(l) == Entries(l.cache) \subseteq WrittenIn(l) \cup {None}

LEMMA StoredObject ==
  ASSUME NEW l, LogInv(l), NEW h \in Entries(l.store), h # None
  PROVE  h \in Nat /\ h < Len(l.store) /\ l.store[h + 1] = h
<1> DEFINE n == Len(l.store)
           W == l.store \o l.appended
<1>1. /\ l.store \in Seq(Entry) /\ l.appended \in Seq(Entry) /\ n \in Nat
      /\ Len(W) = n + Len(l.appended) /\ Len(l.appended) \in Nat /\ EntriesInPlace(W)
  BY LogParts DEF LogInv
<1>2. PICK k \in 1 .. n : l.store[k] = h
  BY DEF Entries
<1>3. W[k] = l.store[k]
  <2> DEFINE s == l.store
             a == l.appended
  <2>1. s \in Seq(Entry) /\ a \in Seq(Entry) /\ k \in 1 .. Len(s)
    BY <1>1
  <2> HIDE DEF s, a
  <2>2. (s \o a)[k] = s[k]
    BY <2>1
  <2>3. QED BY <2>2 DEF s, a
<1> HIDE DEF n, W
<1>4. k \in 1 .. Len(W)
  BY <1>1
<1>5. h = k - 1 /\ k - 1 \in Nat /\ k - 1 < n /\ k - 1 + 1 = k
  BY <1>1, <1>2, <1>3, <1>4 DEF EntriesInPlace
<1>6. QED BY <1>2, <1>5 DEF n

LEMMA StoreInPlace ==
  ASSUME NEW l, LogInv(l)
  PROVE  EntriesInPlace(l.store)
<1> DEFINE s == l.store
           a == l.appended
<1>1. s \in Seq(Entry) /\ a \in Seq(Entry) /\ EntriesInPlace(s \o a)
  BY LogParts, Zenon DEF LogInv
<1> HIDE DEF s, a
<1>2. Len(s) <= Len(s \o a) /\ \A k \in 1 .. Len(s) : k \in 1 .. Len(s \o a) /\ (s \o a)[k] = s[k]
  BY <1>1
<1>3. EntriesInPlace(s)
  BY <1>1, <1>2 DEF EntriesInPlace
<1>4. QED BY <1>3 DEF s

LEMMA StoreAllWrites ==
  ASSUME NEW l, LogInv(l), NEW es \in Seq(Entry)
  PROVE  /\ WrittenIn(StoreAll(l, es)) = WrittenIn(l) \cup Entries(es)
         /\ CacheIsWritten(l) => CacheIsWritten(StoreAll(l, es))
<1> DEFINE all == l.cache \o es
           n   == IF Len(all) > CacheSize THEN Len(all) - CacheSize ELSE 0
           D   == SubSeq(all, n + 1, Len(all))
           new == StoreAll(l, es)
<1>1. l.store \in Seq(Entry) /\ l.appended \in Seq(Entry) /\ l.cache \in Seq(Entry)
  BY LogParts, Zenon
<1>2. all \in Seq(Entry) /\ Entries(all) = Entries(l.cache) \cup Entries(es)
  BY <1>1, ConcatProperties, EntriesConcat, Zenon
<1>3. new = [ l EXCEPT !.appended        = @ \o es,
                       !.pending_inserts = @ + Len(es),
                       !.cache_start     = @ + n,
                       !.cache           = D ]
  BY DEF StoreAll
<1> HIDE DEF all
<1>4. n + 1 \in 1 .. Len(all) + 1 /\ Len(all) \in 0 .. Len(all)
  <2> DEFINE na == Len(all)
  <2>1. na \in Nat /\ CacheSize \in Nat \ {0}
    BY <1>2, LenProperties, CacheSizeAssumption
  <2> HIDE DEF na
  <2>2. QED BY <2>1 DEF na
<1> HIDE DEF n
<1>5. Entries(D) \subseteq Entries(all)
  BY <1>2, <1>4, EntriesSub
<1> HIDE DEF D, new
<1>6. l \in LogType
  BY DEF LogInv
<1>7. new.store = l.store /\ new.appended = l.appended \o es /\ new.cache = D
  BY <1>3, <1>6 DEF LogType
<1>8. Entries(l.appended \o es) = Entries(l.appended) \cup Entries(es)
  BY <1>1, EntriesConcat
<1>9. WrittenIn(new) = WrittenIn(l) \cup Entries(es)
  BY <1>7, <1>8 DEF WrittenIn
<1>10. CacheIsWritten(l) => CacheIsWritten(new)
  BY <1>2, <1>5, <1>7, <1>9 DEF CacheIsWritten
<1>11. QED BY <1>9, <1>10 DEF new

\* An insert at or past the end writes its object.
LEMMA InsertWrites ==
  ASSUME NEW l, LogInv(l), NEW h \in Nat, h >= NextPos(l)
  PROVE  /\ WrittenIn(l) \subseteq WrittenIn(InsertObject(l, h, h)) /\ h \in WrittenIn(InsertObject(l, h, h))
         /\ CacheIsWritten(l) => CacheIsWritten(InsertObject(l, h, h))
<1> DEFINE p == NextPos(l)
           P == Padded(l, h, h)
           n == h - p + 1
<1>0. p \in Nat
  BY LogParts, Zenon
<1>1. 0 \in 0 .. h - p
  <2> HIDE DEF p
  <2>1. h >= p
    BY DEF p
  <2>2. QED BY <1>0, <2>1
<1>2. P \in Seq(Entry)
  BY <1>1, PaddedInPlace
<1>3. P = [ k \in 1 .. n |-> IF k = n THEN h ELSE None ]
  BY DEF Padded
<1>4. InsertObject(l, h, h) = StoreAll(l, P)
  BY DEF InsertObject
<1>5. /\ WrittenIn(StoreAll(l, P)) = WrittenIn(l) \cup Entries(P)
      /\ CacheIsWritten(l) => CacheIsWritten(StoreAll(l, P))
  BY <1>2, StoreAllWrites
<1>6. n \in Nat /\ n \in 1 .. n
  <2>1. h >= p
    OBVIOUS
  <2> HIDE DEF p
  <2>2. QED BY <1>0, <2>1
<1> HIDE DEF p, P, n
<1>7. Len(P) = n /\ P[n] = h
  BY <1>2, <1>3, <1>6
<1>8. h \in Entries(P)
  BY <1>6, <1>7 DEF Entries
<1>9. QED BY <1>4, <1>5, <1>8

\* A write that fails leaves placeholders only.
LEMMA InsertFailingWrites ==
  ASSUME NEW l, LogInv(l), NEW h \in Nat, NEW k \in 0 .. h - NextPos(l)
  PROVE  /\ WrittenIn(l) \subseteq WrittenIn(InsertFailing(l, h, h, k))
         /\ CacheIsWritten(l) => CacheIsWritten(InsertFailing(l, h, h, k))
<1> DEFINE P == SubSeq(Padded(l, h, h), 1, k)
<1>1. CASE h >= NextPos(l)
  <2>1. P \in Seq(Entry)
    BY <1>1, PaddedInPlace
  <2> HIDE DEF P
  <2>2. InsertFailing(l, h, h, k) = StoreAll(l, P)
    BY <1>1 DEF InsertFailing, P
  <2>3. /\ WrittenIn(StoreAll(l, P)) = WrittenIn(l) \cup Entries(P)
        /\ CacheIsWritten(l) => CacheIsWritten(StoreAll(l, P))
    BY <2>1, StoreAllWrites
  <2>4. QED BY <2>2, <2>3
<1>2. CASE ~ (h >= NextPos(l))
  <2>1. NextPos(l) \in Nat
    BY LogParts
  <2>2. k \notin 0 .. h - NextPos(l)
    BY <1>2, <2>1
  <2>3. QED BY <2>2
<1>3. QED BY <1>1, <1>2

\* A commit moves what is written into the store.
LEMMA CommitWrites ==
  ASSUME NEW l, LogInv(l)
  PROVE  /\ CommitVersion(l).appended = << >>
         /\ Entries(CommitVersion(l).store) = WrittenIn(l) /\ WrittenIn(CommitVersion(l)) = WrittenIn(l)
         /\ CacheIsWritten(l) => CacheIsWritten(CommitVersion(l))
<1> DEFINE new == CommitVersion(l)
<1>1. l.store \in Seq(Entry) /\ l.appended \in Seq(Entry)
  BY LogParts
<1>2. new.store = l.store \o l.appended /\ new.appended = << >> /\ new.cache = l.cache
  <2>1. l \in LogType
    BY DEF LogInv
  <2>2. QED BY <2>1 DEF LogType, CommitVersion, Stored
<1> HIDE DEF new
<1>3. Entries(l.store \o l.appended) = WrittenIn(l)
  BY <1>1, EntriesConcat DEF WrittenIn
<1>4. Entries(<< >>) = {}
  BY DEF Entries
<1>5. WrittenIn(new) = WrittenIn(l)
  BY <1>2, <1>3, <1>4 DEF WrittenIn
<1>6. QED BY <1>2, <1>3, <1>5 DEF CacheIsWritten, new

\* A log has all it holds in its store, and nothing else: it is as if just opened.
Settled(l) == l.appended = << >> /\ CacheIsWritten(l)

LEMMA OpenSettled ==
  ASSUME NEW es \in Seq(Entry)
  PROVE  Settled(OpenLog(es))
<1> DEFINE new == OpenLog(es)
<1>1. new.store = es /\ new.appended = << >>
  BY DEF OpenLog
<1>2. Held(new) \subseteq Entries(es)
  BY OpenHolds
<1> HIDE DEF new
<1>3. CacheIsWritten(new)
  BY <1>1, <1>2 DEF CacheIsWritten, WrittenIn, Held
<1>4. QED BY <1>1, <1>3 DEF Settled, new

LEMMA SettledLog ==
  ASSUME NEW l, LogInv(l), Settled(l)
  PROVE  /\ NextPos(l) = Len(l.store)
         /\ \A h \in Held(l) : h # None => h \in Entries(l.store)
<1>1. Entries(l.appended) = {} /\ Len(l.appended) = 0
  BY DEF Settled, Entries
<1>2. NextPos(l) = Len(l.store) + 0 /\ Len(l.store) \in Nat
  BY <1>1, LogParts
<1>3. NextPos(l) = Len(l.store)
  <2> DEFINE n == Len(l.store)
  <2>1. n \in Nat /\ NextPos(l) = n + 0
    BY <1>2
  <2> HIDE DEF n
  <2>2. NextPos(l) = n
    BY <2>1
  <2>3. QED BY <2>2 DEF n
<1>4. QED BY <1>1, <1>3 DEF Settled, CacheIsWritten, WrittenIn, Held

\* What was written since the last commit is past the store.
LEMMA AppendedObject ==
  ASSUME NEW l, LogInv(l), NEW h \in Entries(l.appended), h # None
  PROVE  /\ h \in Nat /\ h >= Len(l.store) /\ h < NextPos(l)
         /\ (l.store \o l.appended)[h + 1] = h
<1> DEFINE n == Len(l.store)
           m == Len(l.appended)
           W == l.store \o l.appended
<1>1. /\ l.store \in Seq(Entry) /\ l.appended \in Seq(Entry) /\ n \in Nat /\ m \in Nat
      /\ Len(W) = n + m /\ NextPos(l) = n + m /\ EntriesInPlace(W)
  BY LogParts DEF LogInv
<1>2. PICK k \in 1 .. m : l.appended[k] = h
  BY DEF Entries
<1>3. W[n + k] = l.appended[k]
  <2> DEFINE s == l.store
             a == l.appended
  <2>1. s \in Seq(Entry) /\ a \in Seq(Entry) /\ k \in 1 .. Len(a)
    BY <1>1
  <2> HIDE DEF s, a
  <2>2. (s \o a)[Len(s) + k] = a[k]
    BY <2>1
  <2>3. QED BY <2>2 DEF s, a
<1> HIDE DEF n, m, W
<1>4. n + k \in 1 .. Len(W)
  BY <1>1
<1>5. h = n + k - 1
  BY <1>1, <1>2, <1>3, <1>4 DEF EntriesInPlace
<1>6. h \in Nat /\ h >= n /\ h < n + m /\ h + 1 = n + k
  BY <1>1, <1>5
<1>7. QED BY <1>1, <1>2, <1>3, <1>6 DEF n, W

(***************************************************************************)
(* As long as objects arrive in order, what can be read is what is in the  *)
(* store or about to be: the uncommitted entries that the cache has let go *)
(* of are placeholders.                                                    *)
(***************************************************************************)
RecentlyAppended(l) == \A h \in Entries(l.appended) : h # None => h + CacheSize >= NextPos(l)

LEMMA ReadableIsWritten ==
  ASSUME NEW l, LogInv(l), CacheIsWritten(l), RecentlyAppended(l), NEW i \in Nat
  PROVE  Available(l, i) <=> i \in WrittenIn(l)
<1>1. i # None
  BY NoneAssumption
<1>2. Available(l, i) => i \in WrittenIn(l)
  BY <1>1, AvailableHeld DEF CacheIsWritten, Held, WrittenIn
<1>3. i \in Entries(l.store) => Available(l, i)
  BY <1>1, StoredObject, StoredAvailable
<1>4. ASSUME i \in Entries(l.appended) PROVE Available(l, i)
  <2> DEFINE W == l.store \o l.appended
             c == Len(l.cache)
             s == Len(l.store)
             a == Len(l.appended)
             st == l.cache_start
             p == NextPos(l)
  <2>1. i >= s /\ i < p /\ W[i + 1] = i
    BY <1>1, <1>4, AppendedObject
  <2>2. /\ c \in Nat /\ s \in Nat /\ a \in Nat /\ st \in Nat /\ CacheSize \in Nat
        /\ p = s + a /\ st + c = s + a /\ (c >= a \/ c >= CacheSize)
    BY LogParts DEF LogInv
  <2>3. i + CacheSize >= p
    BY <1>1, <1>4 DEF RecentlyAppended
  <2> HIDE DEF W, c, s, a, st, p
  <2>4. i >= st /\ i - st < c
    BY <2>1, <2>2, <2>3
  <2>5. Yields(l, i)
    BY <2>4 DEF Yields, c, st
  <2>6. Item(l, i) = W[i + 1]
    BY <1>1, <2>1, <2>5, ReadsInPlace DEF W
  <2>7. QED BY <1>1, <2>1, <2>5, <2>6 DEF Available
<1>5. QED BY <1>2, <1>3, <1>4 DEF WrittenIn

\* Then a revert leaves what is in the store, and nothing else.
LEMMA RevertWrites ==
  ASSUME NEW l, LogInv(l), CacheIsWritten(l), l.pending_inserts <= CacheSize
  PROVE  Settled(RevertVersion(l)) /\ WrittenIn(RevertVersion(l)) = Entries(l.store)
<1> DEFINE new == RevertVersion(l)
           m == Len(l.cache) - l.pending_inserts
<1>1. LogInv(new) /\ new.store = l.store
  BY RevertInv
<1>2. new.appended = << >> /\ new.cache = SubSeq(l.cache, 1, m)
  <2>1. l \in LogType
    BY DEF LogInv
  <2>2. QED BY <2>1 DEF LogType, RevertVersion
<1>3. /\ l.cache \in Seq(Entry) /\ Len(l.cache) \in Nat /\ l.pending_inserts \in Nat
      /\ Len(l.cache) >= l.pending_inserts
  <2> DEFINE c == Len(l.cache)
             a == Len(l.appended)
             p == l.pending_inserts
  <2>1. /\ l.cache \in Seq(Entry) /\ c \in Nat /\ p \in Nat /\ p = a /\ CacheSize \in Nat
        /\ (c >= a \/ c >= CacheSize) /\ p <= CacheSize
    BY LogParts DEF LogInv
  <2> HIDE DEF c, a, p
  <2>2. c >= p
    BY <2>1
  <2>3. QED BY <2>1, <2>2 DEF c, p
<1>4. Entries(<< >>) = {}
  BY DEF Entries
<1> HIDE DEF new
<1>5. WrittenIn(new) = Entries(l.store)
  BY <1>1, <1>2, <1>4 DEF WrittenIn
<1>6. Entries(new.cache) \subseteq Entries(l.cache)
  <2> DEFINE c == Len(l.cache)
             p == l.pending_inserts
  <2>1. c \in Nat /\ p \in Nat /\ c >= p /\ m = c - p
    BY <1>3
  <2> HIDE DEF c, p, m
  <2>2. 1 \in 1 .. c + 1 /\ m \in 0 .. c
    BY <2>1
  <2>3. QED BY <1>2, <1>3, <2>2, EntriesSub DEF c
<1>7. ASSUME NEW h \in Entries(new.cache), h # None PROVE h \in Entries(l.store)
  <2>1. h \in WrittenIn(l)
    BY <1>6, <1>7 DEF CacheIsWritten
  <2>2. h < NextPos(new) /\ NextPos(new) = Len(l.store)
    <3>1. PICK k \in 1 .. Len(new.cache) : new.cache[k] = h
      BY <1>7 DEF Entries
    <3> DEFINE W == new.store \o new.appended
               c == Len(new.cache)
               st == new.cache_start
               s == Len(l.store)
    <3>2. NextPos(new) = s
      BY RevertHolds DEF new
    <3>3. /\ c \in Nat /\ st \in Nat /\ s \in Nat /\ st + c = Len(W) /\ Len(W) = s
          /\ CacheRepeats(new.cache, W, st) /\ EntriesInPlace(W)
      BY <1>1, <3>2, LogParts DEF LogInv
    <3> HIDE DEF W, c, st, s
    <3>4. h = W[st + k] \/ h = st + k - 1
      BY <3>1, <3>3 DEF CacheRepeats
    <3>5. st + k \in 1 .. Len(W)
      BY <3>1, <3>3 DEF c
    <3>6. h = st + k - 1
      BY <1>7, <3>3, <3>4, <3>5 DEF EntriesInPlace
    <3>7. h < s
      BY <3>3, <3>5, <3>6
    <3>8. QED BY <3>2, <3>7 DEF s
  <2>3. h \notin Entries(l.appended)
    <3>1. SUFFICES ASSUME h \in Entries(l.appended) PROVE FALSE
      OBVIOUS
    <3> DEFINE s == Len(l.store)
    <3>2. h \in Nat /\ h >= s /\ s \in Nat
      BY <1>7, <3>1, AppendedObject, LogParts
    <3>3. h < s
      BY <2>2
    <3> HIDE DEF s
    <3>4. QED BY <3>2, <3>3
  <2>4. QED BY <2>1, <2>3 DEF WrittenIn
<1>8. CacheIsWritten(new)
  BY <1>5, <1>7 DEF CacheIsWritten
<1>9. QED BY <1>2, <1>5, <1>8 DEF Settled, new

\* What a subscriber gets at once, and what is sent to it, is held, and stored.
LEMMA PrefixHeld ==
  ASSUME NEW l, LogInv(l), NEW from \in Nat, CanSubscribe(l, from), NEW k \in 1 .. Len(Prefix(l, from))
  PROVE  LET h == Prefix(l, from)[k] IN h \in Nat /\ h \in Held(l) /\ h < Len(l.store)
<1> DEFINE P == Prefix(l, from)
           n == Len(P)
           p == l.stream_pos
           q == Len(l.store)
           h == from + k - 1
<1>1. /\ P \in Seq(Nat) /\ Skipped(l, from) \in Nat /\ from - Skipped(l, from) + n = p
      /\ n > 0 => Skipped(l, from) = 0
      /\ P[k] = h /\ Available(l, h)
  BY PrefixInOrder
<1>2. n \in Nat /\ p \in Nat /\ q \in Nat /\ p <= q
  BY <1>1, LenProperties, LogParts DEF LogInv
<1> HIDE DEF P, n, p, q
<1>3. k \in 1 .. n
  BY DEF P, n
<1>4. h \in Nat /\ h < q
  BY <1>1, <1>2, <1>3
<1> HIDE DEF h
<1>5. h \in Held(l)
  BY <1>1, <1>4, AvailableHeld
<1>6. QED BY <1>1, <1>4, <1>5 DEF P, q

LEMMA BroadcastHeld ==
  ASSUME NEW l, LogInv(l), NEW k \in 1 .. Len(Broadcast(l))
  PROVE  LET h == Broadcast(l)[k] IN h \in Nat /\ h \in Held(l) /\ h < Len(CommitVersion(l).store)
<1> DEFINE m == CommitVersion(l)
           s == Stored(l)
           B == Broadcast(l)
           n == Len(B)
           p == l.stream_pos
           q == Len(m.store)
           h == p + k - 1
<1>1. /\ LogInv(m) /\ B \in Seq(Nat) /\ n = m.stream_pos - p
      /\ B[k] = h /\ Available(s, h)
  BY CommitInv
<1>2. n \in Nat /\ p \in Nat /\ q \in Nat /\ m.stream_pos \in Nat /\ m.stream_pos <= q
  BY <1>1, LenProperties, LogParts DEF LogInv
<1>3. LogInv(s) /\ Held(s) = Held(m)
  <2>1. LogInv(s) /\ s \in LogType
    BY StoredInv DEF LogInv
  <2>2. m.store = s.store /\ m.appended = s.appended /\ m.cache = s.cache
    BY <2>1 DEF CommitVersion, LogType
  <2>3. QED BY <2>1, <2>2 DEF Held
<1> HIDE DEF B, n, p, q, m, s
<1>4. k \in 1 .. n
  BY DEF B, n
<1>5. h \in Nat /\ h < q
  BY <1>1, <1>2, <1>4
<1> HIDE DEF h
<1>6. h \in Held(s)
  BY <1>1, <1>3, <1>5, AvailableHeld
<1>7. Held(m) \subseteq Held(l)
  BY CommitHolds DEF m
<1>8. QED BY <1>1, <1>3, <1>5, <1>6, <1>7 DEF B, q, m
-----------------------------------------------------------------------------
(* The loop that stores entries one by one and its closed form.            *)

\* Appending one entry.
LEMMA AppendEntry ==
  ASSUME NEW s \in Seq(Entry), NEW e \in Entry
  PROVE  /\ Append(s, e) \in Seq(Entry) /\ Len(Append(s, e)) = Len(s) + 1
         /\ \A k \in 1 .. Len(s) : Append(s, e)[k] = s[k]
         /\ Append(s, e)[Len(s) + 1] = e
OBVIOUS

\* How many of this many entries the cache drops.
Evicted(len) == IF len > CacheSize THEN len - CacheSize ELSE 0

\* One entry more drops one more if the cache is full.
LEMMA EvictedCounts ==
  ASSUME NEW len \in Nat
  PROVE  /\ Evicted(len) \in 0 .. len /\ Evicted(len + 1) \in 0 .. len + 1
         /\ len >= CacheSize => /\ len - Evicted(len) = CacheSize
                                /\ Evicted(len + 1) = Evicted(len) + 1
         /\ ~ (len >= CacheSize) => Evicted(len) = 0 /\ Evicted(len + 1) = 0
BY CacheSizeAssumption DEF Evicted

\* The cache after one more entry: what StoreResource makes of the last entries
\* is what is left of all of them when the oldest are dropped at once.
CacheAppends(all, e, n, m, D) ==
  /\ Len(D) >= CacheSize =>
       m = n + 1 /\ Append(Tail(D), e) = SubSeq(Append(all, e), m + 1, Len(all) + 1)
  /\ ~ (Len(D) >= CacheSize) =>
       m = n /\ Append(D, e) = SubSeq(Append(all, e), m + 1, Len(all) + 1)

LEMMA CacheAppend ==
  ASSUME NEW all \in Seq(Entry), NEW e \in Entry
  PROVE  CacheAppends(all, e, Evicted(Len(all)), Evicted(Len(all) + 1),
                      SubSeq(all, Evicted(Len(all)) + 1, Len(all)))
<1> DEFINE len  == Len(all)
           n    == Evicted(len)
           m    == Evicted(len + 1)
           D    == SubSeq(all, n + 1, len)
           more == Append(all, e)
           R    == SubSeq(more, m + 1, Len(more))
<1>1. len \in Nat /\ CacheSize \in Nat \ {0}
  BY LenProperties, CacheSizeAssumption
<1>2. /\ more \in Seq(Entry) /\ Len(more) = len + 1
      /\ \A k \in 1 .. len : more[k] = all[k]
      /\ more[len + 1] = e
  BY AppendEntry
<1> HIDE DEF len, more
<1>3. D = SubSeq(all, n + 1, len)
  OBVIOUS
<1>4. /\ n \in Nat /\ m \in Nat
      /\ n \in 0 .. len /\ m \in 0 .. len + 1
      /\ len >= CacheSize => len - n = CacheSize /\ m = n + 1
      /\ ~ (len >= CacheSize) => n = 0 /\ m = 0
  <2>1. /\ n \in 0 .. len /\ m \in 0 .. len + 1
        /\ len >= CacheSize => len - n = CacheSize /\ m = n + 1
        /\ ~ (len >= CacheSize) => n = 0 /\ m = 0
    BY <1>1, EvictedCounts
  <2> HIDE DEF n, m
  <2>2. n \in Nat /\ m \in Nat
    BY <2>1, <1>1
  <2>3. QED BY <2>1, <2>2
<1> HIDE DEF n, m, D
<1>5. D \in Seq(Entry) /\ Len(D) = len - n /\ \A k \in 1 .. len - n : D[k] = all[n + k]
  <2>1. n \in 0 .. Len(all)
    BY <1>4 DEF len
  <2>2. QED BY <2>1, <1>3, Suffix DEF len
<1>6. /\ R \in Seq(Entry) /\ Len(R) = len + 1 - m
      /\ \A k \in 1 .. len + 1 - m : R[k] = more[m + k]
  <2>1. m \in 0 .. Len(more)
    BY <1>2, <1>4
  <2> DEFINE w == Len(more) - m
  <2>2. R \in Seq(Entry) /\ Len(R) = w /\ \A k \in 1 .. w : R[k] = more[m + k]
    BY <2>1, <1>2, Suffix
  <2>3. w = len + 1 - m
    <3>1. (len + 1) - m = len + 1 - m
      BY <1>1, <1>4
    <3>2. QED BY <1>2, <3>1, Zenon
  <2> HIDE DEF R, w
  <2>4. QED BY <2>2, <2>3
<1> HIDE DEF R
<1> DEFINE Goal == /\ Len(D) >= CacheSize =>
                     m = n + 1 /\ Append(Tail(D), e) = SubSeq(Append(all, e), m + 1, Len(all) + 1)
                   /\ ~ (Len(D) >= CacheSize) =>
                     m = n /\ Append(D, e) = SubSeq(Append(all, e), m + 1, Len(all) + 1)
<1>7. ASSUME len >= CacheSize PROVE Goal
  <2>1. len - n = CacheSize /\ m = n + 1 /\ len + 1 - m = len - n
    BY <1>1, <1>4, <1>7
  <2>2. D # << >>
    BY <1>1, <1>5, <2>1, EmptySeq
  <2> DEFINE T == Tail(D)
             X == Append(T, e)
             c == CacheSize - 1
  <2>3. c \in Nat /\ len - n = c + 1
    BY <1>1, <2>1
  <2>4. T \in Seq(Entry) /\ Len(T) = Len(D) - 1 /\ \A k \in 1 .. Len(T) : T[k] = D[k + 1]
    BY <1>5, <2>2, HeadTailProperties
  <2> HIDE DEF c, T
  <2>5. Len(T) = c
    BY <2>3, <2>4, <1>5
  <2>6. X \in Seq(Entry) /\ Len(X) = c + 1 /\ X[c + 1] = e /\ \A k \in 1 .. c : X[k] = T[k]
    BY <2>4, <2>5, AppendEntry
  <2> HIDE DEF X
  <2>7. ASSUME NEW k \in 1 .. c + 1 PROVE X[k] = R[k]
    <3>1. k \in 1 .. len + 1 - m
      BY <2>1, <2>3
    <3>2. R[k] = more[m + k]
      BY <3>1, <1>6
    <3>3. CASE k = c + 1
      <4>1. m + k = len + 1
        BY <3>3, <2>1, <2>3, <1>1, <1>4
      <4>2. QED BY <4>1, <3>2, <3>3, <2>6, <1>2
    <3>4. CASE k # c + 1
      <4>1. k \in 1 .. c
        BY <3>4, <2>3
      <4>2. k + 1 \in 1 .. len - n
        <5>1. k + 1 \in 1 .. c + 1
          BY <4>1, <2>3
        <5>2. QED BY <5>1, <2>3
      <4>3. m + k \in 1 .. len
        <5>1. n + c + 1 = len
          BY <1>1, <1>4, <2>3
        <5>2. n + 1 + k \in 1 .. len
          BY <5>1, <4>1, <2>3, <1>1, <1>4
        <5>3. QED BY <5>2, <2>1
      <4>4. n + (k + 1) = m + k
        BY <2>1, <1>4, <4>1, <2>3
      <4>5. X[k] = D[k + 1]
        BY <4>1, <2>4, <2>5, <2>6
      <4>6. D[k + 1] = all[n + (k + 1)]
        BY <4>2, <1>5
      <4>7. more[m + k] = all[m + k]
        BY <4>3, <1>2
      <4>8. QED BY <4>4, <4>5, <4>6, <4>7, <3>2
    <3>5. QED BY <3>3, <3>4
  <2>8. Len(X) = Len(R)
    BY <2>1, <2>3, <2>6, <1>6
  <2>9. X = R
    BY <2>6, <2>7, <2>8, <1>6, SeqEqual
  <2>10. Len(D) >= CacheSize
    <3>1. Len(D) = CacheSize
      BY <1>5, <2>1
    <3>2. CacheSize >= CacheSize
      BY <1>1
    <3>3. QED BY <3>1, <3>2
  <2>11. Append(Tail(D), e) = SubSeq(more, m + 1, len + 1)
    BY <2>9, <1>2 DEF X, T, R
  <2>12. QED BY <2>1, <2>10, <2>11 DEF more, len
<1>8. ASSUME ~ (len >= CacheSize) PROVE Goal
  <2>1. n = 0 /\ m = 0
    BY <1>4, <1>8
  <2>2. D = all
    <3>1. D = SubSeq(all, 1, Len(all))
      BY <2>1, <1>3 DEF len
    <3>2. QED BY <3>1, SubSeqFull
  <2>3. R = more
    <3>1. R = SubSeq(more, 1, Len(more))
      BY <2>1, <1>2 DEF R
    <3>2. QED BY <3>1, <1>2, SubSeqFull
  <2>4. ~ (Len(D) >= CacheSize)
    BY <1>8, <2>2 DEF len
  <2>5. Append(D, e) = SubSeq(more, m + 1, len + 1)
    BY <2>2, <2>3, <1>2 DEF R, more
  <2>6. m = n
    BY <2>1
  <2>7. QED BY <2>4, <2>5, <2>6 DEF more, len
<1>9. Goal
  BY <1>7, <1>8
<1>10. QED BY <1>9 DEF CacheAppends, D, n, m, len

\* Two logs with the same parts are the same.
LEMMA SameLog ==
  ASSUME NEW x \in LogType, NEW y \in LogType,
         x.store = y.store, x.appended = y.appended,
         x.pending_inserts = y.pending_inserts, x.cache_start = y.cache_start,
         x.cache = y.cache, x.stream_pos = y.stream_pos
  PROVE  x = y
BY DEF LogType

\* The parts of a log after some writes in closed form.
LEMMA StoreAllParts ==
  ASSUME NEW l \in LogType, NEW es \in Seq(Entry)
  PROVE  /\ StoreAll(l, es) \in LogType
         /\ StoreAll(l, es).store = l.store
         /\ StoreAll(l, es).stream_pos = l.stream_pos
         /\ StoreAll(l, es).appended = l.appended \o es
         /\ StoreAll(l, es).pending_inserts = l.pending_inserts + Len(es)
         /\ StoreAll(l, es).cache_start = l.cache_start + Evicted(Len(l.cache \o es))
         /\ StoreAll(l, es).cache = SubSeq(l.cache \o es, Evicted(Len(l.cache \o es)) + 1,
                                           Len(l.cache \o es))
<1> DEFINE all == l.cache \o es
           len == Len(all)
           n   == Evicted(len)
           D   == SubSeq(all, n + 1, len)
           k   == Len(es)
           app == l.appended \o es
<1>1. /\ l.cache \in Seq(Entry) /\ l.appended \in Seq(Entry)
      /\ l.pending_inserts \in Nat /\ l.cache_start \in Nat
  BY DEF LogType
<1>2. all \in Seq(Entry) /\ app \in Seq(Entry) /\ k \in Nat
  BY <1>1, ConcatProperties, LenProperties
<1>3. len \in Nat
  BY <1>2, LenProperties
<1>4. n \in 0 .. len
  <2> HIDE DEF len
  <2>1. QED BY <1>3, EvictedCounts
<1>5. D \in Seq(Entry)
  <2> HIDE DEF all, n
  <2>1. n \in 0 .. Len(all)
    BY <1>4
  <2>2. QED BY <2>1, <1>2, Suffix
<1>6. StoreAll(l, es) = [ l EXCEPT !.appended = app, !.pending_inserts = @ + k,
                                   !.cache_start = @ + n, !.cache = D ]
  BY DEF StoreAll, Evicted
<1> HIDE DEF all, len
<1>7. l.pending_inserts + k \in Nat /\ l.cache_start + n \in Nat
  <2> HIDE DEF k, n
  <2>1. QED BY <1>1, <1>2, <1>3, <1>4
<1> HIDE DEF k, n, D, app
<1>8. QED BY <1>2, <1>5, <1>6, <1>7 DEF LogType, all, len, k, n, D, app

\* The parts of a log after one write.
LEMMA StoreResourceParts ==
  ASSUME NEW l \in LogType, NEW e \in Entry
  PROVE  /\ StoreResource(l, e) \in LogType
         /\ StoreResource(l, e).store = l.store
         /\ StoreResource(l, e).stream_pos = l.stream_pos
         /\ StoreResource(l, e).appended = Append(l.appended, e)
         /\ StoreResource(l, e).pending_inserts = l.pending_inserts + 1
         /\ Len(l.cache) >= CacheSize =>
              /\ StoreResource(l, e).cache_start = l.cache_start + 1
              /\ StoreResource(l, e).cache = Append(Tail(l.cache), e)
         /\ ~ (Len(l.cache) >= CacheSize) =>
              /\ StoreResource(l, e).cache_start = l.cache_start
              /\ StoreResource(l, e).cache = Append(l.cache, e)
<1> DEFINE full == Len(l.cache) >= CacheSize
           st   == IF full THEN l.cache_start + 1 ELSE l.cache_start
           D    == Append(IF full THEN Tail(l.cache) ELSE l.cache, e)
           app  == Append(l.appended, e)
<1>1. /\ l.cache \in Seq(Entry) /\ l.appended \in Seq(Entry)
      /\ l.pending_inserts \in Nat /\ l.cache_start \in Nat
  BY DEF LogType
<1>2. st \in Nat /\ l.pending_inserts + 1 \in Nat /\ app \in Seq(Entry)
  BY <1>1
<1>3. D \in Seq(Entry)
  <2>1. CASE full
    <3> DEFINE C == l.cache
    <3>1. C \in Seq(Entry) /\ Len(C) \in Nat /\ Len(C) >= CacheSize /\ CacheSize \in Nat \ {0}
      BY <1>1, <2>1, LenProperties, CacheSizeAssumption
    <3> HIDE DEF C
    <3>2. C # << >>
      BY <3>1, EmptySeq
    <3>3. Tail(C) \in Seq(Entry)
      BY <3>1, <3>2, HeadTailProperties
    <3>4. Append(Tail(C), e) \in Seq(Entry)
      BY <3>3
    <3>5. QED BY <2>1, <3>4 DEF C
  <2>2. CASE ~ full
    BY <1>1, <2>2
  <2>3. QED BY <2>1, <2>2
<1>4. StoreResource(l, e) = [ l EXCEPT !.appended = app, !.pending_inserts = @ + 1,
                                       !.cache_start = st, !.cache = D ]
  BY DEF StoreResource
<1>5. (full => st = l.cache_start + 1 /\ D = Append(Tail(l.cache), e))
      /\ (~ full => st = l.cache_start /\ D = Append(l.cache, e))
  OBVIOUS
<1> HIDE DEF st, D, app
<1>6. QED BY <1>2, <1>3, <1>4, <1>5 DEF LogType, app

\* Storing one more entry is one more write.
LEMMA StoreAllAppend ==
  ASSUME NEW l \in LogType, NEW es \in Seq(Entry), NEW e \in Entry
  PROVE  StoreAll(l, Append(es, e)) = StoreResource(StoreAll(l, es), e)
<1> DEFINE all  == l.cache \o es
           n    == Evicted(Len(all))
           m    == Evicted(Len(all) + 1)
           D    == SubSeq(all, n + 1, Len(all))
           once == StoreAll(l, es)
           then == StoreResource(once, e)
           more == Append(es, e)
           both == StoreAll(l, more)
<1>1. /\ l.cache \in Seq(Entry) /\ l.appended \in Seq(Entry)
      /\ l.pending_inserts \in Nat /\ l.cache_start \in Nat
  BY DEF LogType
<1>2. /\ << e >> \in Seq(Entry) /\ more \in Seq(Entry) /\ more = es \o << e >>
      /\ Len(more) = Len(es) + 1 /\ Len(es) \in Nat
  OBVIOUS
<1>3. all \in Seq(Entry) /\ l.appended \o es \in Seq(Entry)
  BY <1>1, ConcatProperties
<1>4. l.cache \o more = Append(all, e) /\ l.appended \o more = Append(l.appended \o es, e)
  <2>1. /\ l.cache \o (es \o << e >>) = (l.cache \o es) \o << e >>
        /\ l.appended \o (es \o << e >>) = (l.appended \o es) \o << e >>
    BY <1>1, <1>2, ConcatEntries
  <2>2. \A s \in Seq(Entry) : Append(s, e) = s \o << e >>
    OBVIOUS
  <2>3. QED BY <2>1, <2>2, <1>2, <1>3, Zenon
<1>5. Len(all) \in Nat /\ Len(Append(all, e)) = Len(all) + 1
  <2> HIDE DEF all
  <2>1. QED BY <1>3, LenProperties, AppendEntry
<1>6. n \in Nat /\ m \in Nat
  <2> DEFINE len == Len(all)
  <2>1. len \in Nat /\ CacheSize \in Nat
    BY <1>5, CacheSizeAssumption
  <2> HIDE DEF len
  <2>2. Evicted(len) \in Nat /\ Evicted(len + 1) \in Nat
    BY <2>1 DEF Evicted
  <2>3. QED BY <2>2 DEF len
<1>7. /\ once \in LogType /\ once.store = l.store /\ once.stream_pos = l.stream_pos
      /\ once.appended = l.appended \o es /\ once.pending_inserts = l.pending_inserts + Len(es)
      /\ once.cache_start = l.cache_start + n /\ once.cache = D
  BY StoreAllParts
<1>8. /\ both \in LogType /\ both.store = l.store /\ both.stream_pos = l.stream_pos
      /\ both.appended = Append(l.appended \o es, e)
      /\ both.pending_inserts = l.pending_inserts + (Len(es) + 1)
      /\ both.cache_start = l.cache_start + m
      /\ both.cache = SubSeq(Append(all, e), m + 1, Len(all) + 1)
  <2> HIDE DEF more, both
  <2>1. /\ both \in LogType /\ both.store = l.store /\ both.stream_pos = l.stream_pos
        /\ both.appended = l.appended \o more
        /\ both.pending_inserts = l.pending_inserts + Len(more)
        /\ both.cache_start = l.cache_start + Evicted(Len(l.cache \o more))
        /\ both.cache = SubSeq(l.cache \o more, Evicted(Len(l.cache \o more)) + 1,
                               Len(l.cache \o more))
    BY <1>2, StoreAllParts DEF both
  <2> HIDE DEF all
  <2>2. QED BY <2>1, <1>2, <1>4, <1>5
<1>9. /\ Len(D) >= CacheSize =>
           m = n + 1 /\ Append(Tail(D), e) = SubSeq(Append(all, e), m + 1, Len(all) + 1)
      /\ ~ (Len(D) >= CacheSize) =>
           m = n /\ Append(D, e) = SubSeq(Append(all, e), m + 1, Len(all) + 1)
  <2>1. CacheAppends(all, e, n, m, D)
    BY <1>3, CacheAppend
  <2> HIDE DEF all, n, m, D
  <2>2. QED BY <2>1 DEF CacheAppends
<1> HIDE DEF once
<1>10. /\ then \in LogType /\ then.store = once.store /\ then.stream_pos = once.stream_pos
       /\ then.appended = Append(once.appended, e)
       /\ then.pending_inserts = once.pending_inserts + 1
       /\ Len(once.cache) >= CacheSize =>
            then.cache_start = once.cache_start + 1 /\ then.cache = Append(Tail(once.cache), e)
       /\ ~ (Len(once.cache) >= CacheSize) =>
            then.cache_start = once.cache_start /\ then.cache = Append(once.cache, e)
  BY <1>7, StoreResourceParts
<1> HIDE DEF both, then, D, n, m, all, more
<1>11. /\ l.pending_inserts + Len(es) + 1 = l.pending_inserts + (Len(es) + 1)
       /\ l.cache_start + n + 1 = l.cache_start + (n + 1)
  <2> DEFINE k == Len(es)
  <2>1. k \in Nat
    BY <1>2
  <2> HIDE DEF k
  <2>2. \A i, j \in Nat : i + j + 1 = i + (j + 1)
    OBVIOUS
  <2>3. QED BY <2>1, <2>2, <1>1, <1>6, Zenon DEF k
<1>12. both.cache = then.cache /\ both.cache_start = then.cache_start
  <2>1. CASE Len(D) >= CacheSize
    BY <1>7, <1>8, <1>9, <1>10, <1>11, <2>1
  <2>2. CASE ~ (Len(D) >= CacheSize)
    BY <1>7, <1>8, <1>9, <1>10, <2>2
  <2>3. QED BY <2>1, <2>2
<1>13. both.appended = then.appended /\ both.pending_inserts = then.pending_inserts
       /\ both.store = then.store /\ both.stream_pos = then.stream_pos
  BY <1>7, <1>8, <1>10, <1>11
<1>14. both = then
  BY <1>8, <1>10, <1>12, <1>13, SameLog
<1>15. QED BY <1>14 DEF both, then, once, more

\* The loop and the closed form: the closed form satisfies the recursion of the
\* loop, and nothing else does.
LEMMA StoreEachIsStoreAll ==
  ASSUME NEW l \in LogType, Len(l.cache) <= CacheSize, NEW es \in Seq(Entry)
  PROVE  StoreAll(l, es) = StoreEach(l, es)
<1> DEFINE n == Len(es)
           First(k) == SubSeq(es, 1, k)
           Loop(f) == f = [ k \in 0 .. n |->
                              IF k = 0 THEN l ELSE StoreResource(f[k - 1], es[k]) ]
           closed == [ k \in 0 .. n |-> StoreAll(l, First(k)) ]
           after  == CHOOSE f : Loop(f)
<1>1. n \in Nat
  BY LenProperties
<1>2. StoreAll(l, << >>) = l
  <2> DEFINE C   == l.cache
             len == Len(C)
  <2>1. /\ C \in Seq(Entry) /\ l.appended \in Seq(Entry)
        /\ l.pending_inserts \in Nat /\ l.cache_start \in Nat
    BY DEF LogType
  <2>2. /\ C \o << >> = C /\ l.appended \o << >> = l.appended
        /\ << >> \in Seq(Entry) /\ Len(<< >>) = 0
    BY <2>1, ConcatEmptySeq, EmptySeq
  <2>3. len \in Nat /\ len <= CacheSize
    BY <2>1, LenProperties
  <2>4. Evicted(len) = 0
    <3> HIDE DEF len
    <3>1. QED BY <2>3, CacheSizeAssumption DEF Evicted
  <2>5. SubSeq(C, 0 + 1, len) = C
    BY <2>1, SubSeqFull
  <2> DEFINE x == StoreAll(l, << >>)
  <2>6. /\ x \in LogType /\ x.store = l.store /\ x.stream_pos = l.stream_pos
        /\ x.appended = l.appended \o << >>
        /\ x.pending_inserts = l.pending_inserts + Len(<< >>)
        /\ x.cache_start = l.cache_start + Evicted(Len(C \o << >>))
        /\ x.cache = SubSeq(C \o << >>, Evicted(Len(C \o << >>)) + 1, Len(C \o << >>))
    BY <2>2, StoreAllParts
  <2> HIDE DEF x, C
  <2>7. /\ x.appended = l.appended /\ x.pending_inserts = l.pending_inserts + 0
        /\ x.cache_start = l.cache_start + 0 /\ x.cache = l.cache
    BY <2>2, <2>4, <2>5, <2>6 DEF len, C
  <2>8. \A i \in Nat : i + 0 = i
    OBVIOUS
  <2>9. x = l
    BY <2>1, <2>6, <2>7, <2>8, SameLog
  <2>10. QED BY <2>9 DEF x
<1>3. ASSUME NEW k \in 1 .. n
      PROVE  StoreAll(l, First(k)) = StoreResource(StoreAll(l, First(k - 1)), es[k])
  <2>1. /\ k \in 1 .. Len(es) /\ k \in Nat /\ k - 1 \in 0 .. Len(es)
        /\ 1 \in 1 .. Len(es) /\ k \in 1 .. k
    <3> HIDE DEF n
    <3>1. k \in 1 .. n /\ k \in Nat /\ k - 1 \in 0 .. n /\ 1 \in 1 .. n /\ k \in 1 .. k
      BY <1>1
    <3>2. QED BY <3>1 DEF n
  <2>2. es[k] \in Entry
    BY <2>1, ElementOfSeq
  <2>3. First(k) = First(k - 1) \o << es[k] >>
    BY <2>1, SubSeqRecursiveSecond
  <2>4. First(k - 1) \in Seq(Entry)
    <3>1. \A i \in 1 .. k - 1 : i \in 1 .. Len(es)
      <4> DEFINE len == Len(es)
      <4>1. len \in Nat /\ k \in 1 .. len
        BY <2>1, <1>1
      <4> HIDE DEF len
      <4>2. \A i \in 1 .. k - 1 : i \in 1 .. len
        BY <4>1
      <4>3. QED BY <4>2 DEF len
    <3>2. \A i \in 1 .. k - 1 : es[i] \in Entry
      BY <3>1, ElementOfSeq
    <3>3. k - 1 \in Int
      BY <2>1
    <3>4. QED BY <3>2, <3>3, SubSeqProperties
  <2> HIDE DEF First
  <2>5. First(k) = Append(First(k - 1), es[k])
    BY <2>2, <2>3, <2>4
  <2>6. QED BY <2>2, <2>4, <2>5, StoreAllAppend
<1>4. First(0) = << >> /\ First(n) = es
  BY SubSeqFull, SubSeqEmpty
<1> HIDE DEF n, First
<1>5. \A k \in 0 .. n : k # 0 => k \in 1 .. n /\ k - 1 \in 0 .. n
  BY <1>1
<1>6. Loop(closed)
  <2>1. \A k \in 0 .. n : StoreAll(l, First(k))
                            = IF k = 0 THEN l ELSE StoreResource(closed[k - 1], es[k])
    BY <1>2, <1>3, <1>4, <1>5
  <2>2. QED BY <2>1
<1>7. Loop(after)
  BY <1>6, Zenon
<1> DEFINE Apart == { k \in 0 .. n : after[k] # closed[k] }
<1>8. /\ after[0] = l
      /\ \A k \in 1 .. n : after[k] = StoreResource(after[k - 1], es[k])
  <2> HIDE DEF after
  <2>1. 0 \in 0 .. n /\ \A k \in 1 .. n : k \in 0 .. n /\ k # 0
    BY <1>1
  <2>2. QED BY <1>7, <2>1
<1>9. /\ closed[0] = l
      /\ \A k \in 1 .. n : closed[k] = StoreResource(closed[k - 1], es[k])
  <2> HIDE DEF closed
  <2>1. 0 \in 0 .. n /\ \A k \in 1 .. n : k \in 0 .. n /\ k # 0
    BY <1>1
  <2>2. QED BY <1>6, <2>1
<1>10. closed[n] = StoreAll(l, es)
  BY <1>1, <1>4
<1> HIDE DEF after, closed
<1>11. Apart = {}
  <2>1. SUFFICES ASSUME Apart # {} PROVE FALSE
    OBVIOUS
  <2>2. Apart \subseteq Nat
    OBVIOUS
  <2>3. PICK k \in Apart : \A y \in Apart : k <= y
    BY <2>1, <2>2, LeastNatural
  <2>4. k \in 0 .. n /\ after[k] # closed[k]
    BY <2>3
  <2>5. k # 0
    BY <2>4, <1>8, <1>9
  <2>6. k \in 1 .. n /\ k - 1 \in 0 .. n
    BY <2>4, <2>5, <1>5
  <2>7. ~ (k <= k - 1)
    BY <2>6
  <2>8. after[k - 1] = closed[k - 1]
    BY <2>3, <2>6, <2>7
  <2>9. QED BY <2>4, <2>6, <2>8, <1>8, <1>9
<1>12. after[n] = closed[n]
  BY <1>1, <1>11
<1>13. StoreEach(l, es) = after[n]
  BY DEF StoreEach, after, n
<1>14. QED BY <1>10, <1>12, <1>13
=============================================================================
