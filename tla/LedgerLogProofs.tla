--------------------------- MODULE LedgerLogProofs ---------------------------
(***************************************************************************)
(* Machine-checked proofs about LedgerLog, for every cache size, every     *)
(* bound on the heights, every set of clients and every load failure.      *)
(***************************************************************************)
EXTENDS LedgerLog, LedgerLogLemmas

(***************************************************************************)
(* The inductive invariant of a subscription: its inbox holds consecutive  *)
(* heights, the last one just before stream_pos, and what is still to be   *)
(* skipped comes before anything the client got.                           *)
(***************************************************************************)
SubInv(s, pos) ==
  /\ \A k \in 1 .. Len(s.got) : s.got[k] = s.from + k - 1
  /\ s.open => /\ s.from + Len(s.got) - s.skip + Len(s.inbox) = pos
               /\ \A k \in 1 .. Len(s.inbox) :
                    s.inbox[k] = s.from + Len(s.got) - s.skip + k - 1
               /\ s.skip > 0 => Len(s.got) = 0

IInv ==
  /\ LogInv(log) /\ FrontierInv(log)
  /\ durable \in 0 .. Len(log.store)
  /\ subs \in [ Clients -> Subscription ]
  /\ \A c \in Clients : SubInv(subs[c], log.stream_pos)
-----------------------------------------------------------------------------
(* The subscriptions keep their invariant. *)

\* Lengths and types of a subscription's parts.
LEMMA SubParts ==
  ASSUME NEW s \in Subscription
  PROVE  /\ s.open \in BOOLEAN /\ s.from \in Nat /\ s.skip \in Nat
         /\ s.inbox \in Seq(Entry) /\ s.got \in Seq(Entry)
         /\ Len(s.inbox) \in Nat /\ Len(s.got) \in Nat
BY LenProperties DEF Subscription

\* A closed subscription satisfies its invariant, whatever stream_pos is.
LEMMA ClosedInv ==
  Closed \in Subscription /\ \A pos : SubInv(Closed, pos)
BY EmptySeq DEF Closed, Subscription, SubInv

\* A commit hands an open subscription the objects from stream_pos on.
LEMMA BroadcastSub ==
  ASSUME NEW s \in Subscription, NEW pos \in Nat, SubInv(s, pos), s.open,
         NEW B \in Seq(Nat), \A k \in 1 .. Len(B) : B[k] = pos + k - 1
  PROVE  /\ [ s EXCEPT !.inbox = @ \o B ] \in Subscription
         /\ SubInv([ s EXCEPT !.inbox = @ \o B ], pos + Len(B))
<1> DEFINE I == s.inbox
           t == [ s EXCEPT !.inbox = @ \o B ]
           first == s.from + Len(s.got) - s.skip
           nI == Len(I)
           nB == Len(B)
<1>1. /\ I \in Seq(Entry) /\ nI \in Nat /\ B \in Seq(Entry) /\ nB \in Nat
  <2>1. Nat \subseteq Entry BY DEF Entry
  <2>2. B \in Seq(Entry) BY <2>1, SeqMonotonic
  <2>3. QED BY <2>2, SubParts, LenProperties
<1>2. /\ first \in Int /\ first + nI = pos
      /\ \A k \in 1 .. nI : I[k] = first + k - 1
  <2> DEFINE nG == Len(s.got)
  <2>1. /\ nG \in Nat /\ s.from \in Nat /\ s.skip \in Nat
        /\ s.from + nG - s.skip + nI = pos
        /\ \A k \in 1 .. nI : I[k] = s.from + nG - s.skip + k - 1
    BY SubParts DEF SubInv
  <2> HIDE DEF nG, nI, I
  <2>2. /\ s.from + nG - s.skip \in Int /\ s.from + nG - s.skip + nI = pos
        /\ \A k \in 1 .. nI : I[k] = (s.from + nG - s.skip) + k - 1
    BY <1>1, <2>1
  <2>3. QED BY <2>2 DEF nG
<1>3. /\ I \o B \in Seq(Entry) /\ Len(I \o B) = nI + nB
      /\ \A k \in 1 .. nI + nB : (I \o B)[k] = IF k <= nI THEN I[k] ELSE B[k - nI]
  <2> HIDE DEF I
  <2>1. QED BY <1>1, ConcatProperties
<1>4. t.inbox = I \o B /\ t.open = s.open /\ t.from = s.from /\ t.skip = s.skip
      /\ t.got = s.got /\ t \in Subscription
  BY <1>3 DEF Subscription
<1> HIDE DEF first, nI, nB, I, t
<1>5. \A k \in 1 .. nI + nB : (I \o B)[k] = first + k - 1
  <2>1. TAKE k \in 1 .. nI + nB
  <2>2. CASE k <= nI
    BY <2>2, <1>1, <1>2, <1>3
  <2>3. CASE ~ (k <= nI)
    <3>1. k - nI \in 1 .. nB /\ pos + (k - nI) - 1 = first + k - 1
      BY <2>3, <1>1, <1>2
    <3>2. (I \o B)[k] = B[k - nI] BY <2>3, <1>3
    <3>3. B[k - nI] = pos + (k - nI) - 1 BY <3>1 DEF nB
    <3>4. QED BY <3>1, <3>2, <3>3
  <2>4. QED BY <2>2, <2>3
<1>6. first + (nI + nB) = pos + nB
  BY <1>1, <1>2
<1>7. SubInv(t, pos + nB)
  <2>1. \A k \in 1 .. Len(t.got) : t.got[k] = t.from + k - 1
    BY <1>4 DEF SubInv
  <2>2. t.skip > 0 => Len(t.got) = 0
    BY <1>4 DEF SubInv
  <2>3. t.from + Len(t.got) - t.skip = first
    BY <1>4 DEF first
  <2>4. Len(t.inbox) = nI + nB /\ \A k \in 1 .. Len(t.inbox) : t.inbox[k] = first + k - 1
    BY <1>3, <1>4, <1>5
  <2>5. first + Len(t.inbox) = pos + nB
    BY <1>6, <2>4
  <2>6. QED BY <2>1, <2>2, <2>3, <2>4, <2>5 DEF SubInv
<1>8. QED BY <1>4, <1>7 DEF t, nB

\* Taking the head off the inbox, either to skip it or to give it to the client.
LEMMA TakeSub ==
  ASSUME NEW s \in Subscription, NEW pos \in Nat, SubInv(s, pos), s.open, s.inbox # << >>
  PROVE  /\ s.skip > 0 =>
              /\ [ s EXCEPT !.skip = @ - 1, !.inbox = Tail(@) ] \in Subscription
              /\ SubInv([ s EXCEPT !.skip = @ - 1, !.inbox = Tail(@) ], pos)
         /\ s.skip = 0 =>
              /\ Head(s.inbox) = s.from + Len(s.got)
              /\ [ s EXCEPT !.inbox = Tail(@), !.got = Append(@, Head(s.inbox)) ] \in Subscription
              /\ SubInv([ s EXCEPT !.inbox = Tail(@), !.got = Append(@, Head(s.inbox)) ], pos)
<1> DEFINE I == s.inbox
           G == s.got
           from == s.from
           skip == s.skip
           nI == Len(I)
           nG == Len(G)
           T  == Tail(I)
<1>1. /\ I \in Seq(Entry) /\ G \in Seq(Entry) /\ nI \in Nat /\ nG \in Nat
      /\ from \in Nat /\ skip \in Nat
  BY SubParts
<1>2. /\ from + nG - skip + nI = pos
      /\ \A k \in 1 .. nI : I[k] = from + nG - skip + k - 1
      /\ \A k \in 1 .. nG : G[k] = from + k - 1
      /\ skip > 0 => nG = 0
  BY DEF SubInv
<1>3. /\ T \in Seq(Entry) /\ Len(T) = nI - 1 /\ nI > 0
      /\ \A k \in 1 .. nI - 1 : T[k] = I[k + 1]
      /\ Head(I) \in Entry /\ Head(I) = I[1]
  <2> HIDE DEF I
  <2>1. I # << >> BY DEF I
  <2>2. QED BY <1>1, <2>1, HeadTailProperties, EmptySeq
<1>4. ASSUME skip > 0
      PROVE  /\ [ s EXCEPT !.skip = @ - 1, !.inbox = Tail(@) ] \in Subscription
             /\ SubInv([ s EXCEPT !.skip = @ - 1, !.inbox = Tail(@) ], pos)
  <2> DEFINE t == [ s EXCEPT !.skip = @ - 1, !.inbox = Tail(@) ]
  <2>1. skip - 1 \in Nat BY <1>1, <1>4
  <2>2. /\ t.open = s.open /\ t.from = from /\ t.skip = skip - 1 /\ t.inbox = T /\ t.got = G
        /\ t \in Subscription
    BY <1>3, <2>1 DEF Subscription
  <2> HIDE DEF t, I, G, from, skip, nI, nG, T
  <2>3. /\ from + nG - (skip - 1) + (nI - 1) = pos
        /\ \A k \in 1 .. nI - 1 : T[k] = from + nG - (skip - 1) + k - 1
        /\ nG = 0
    BY <1>1, <1>2, <1>3, <1>4
  <2>4. SubInv(t, pos)
    BY <1>2, <1>3, <2>2, <2>3 DEF SubInv, nG
  <2>5. QED BY <2>2, <2>4 DEF t
<1>5. ASSUME skip = 0
      PROVE  /\ Head(s.inbox) = s.from + Len(s.got)
             /\ [ s EXCEPT !.inbox = Tail(@), !.got = Append(@, Head(s.inbox)) ] \in Subscription
             /\ SubInv([ s EXCEPT !.inbox = Tail(@), !.got = Append(@, Head(s.inbox)) ], pos)
  <2> DEFINE t == [ s EXCEPT !.inbox = Tail(@), !.got = Append(@, Head(s.inbox)) ]
             A == Append(G, Head(I))
  <2>1. /\ A \in Seq(Entry) /\ Len(A) = nG + 1
        /\ \A k \in 1 .. nG : A[k] = G[k]
        /\ A[nG + 1] = Head(I)
    <3> HIDE DEF I, G
    <3>1. QED BY <1>1, <1>3, AppendProperties
  <2>2. /\ t.open = s.open /\ t.from = from /\ t.skip = skip /\ t.inbox = T /\ t.got = A
        /\ t \in Subscription
    BY <1>3, <2>1 DEF Subscription
  <2> HIDE DEF t, I, G, from, skip, nI, nG, T, A
  <2>3. Head(I) = from + nG
    <3>1. 1 \in 1 .. nI BY <1>1, <1>3
    <3>2. I[1] = from + nG - skip + 1 - 1 BY <3>1, <1>2
    <3>3. from + nG - skip + 1 - 1 = from + nG BY <1>1, <1>5
    <3>4. QED BY <3>2, <3>3, <1>3
  <2>4. /\ from + (nG + 1) - skip + (nI - 1) = pos
        /\ \A k \in 1 .. nI - 1 : T[k] = from + (nG + 1) - skip + k - 1
        /\ \A k \in 1 .. nG + 1 : A[k] = from + k - 1
    <3>1. /\ nG \in Nat /\ nI \in Nat /\ from \in Nat /\ skip = 0 /\ from + nG - skip + nI = pos
      BY <1>1, <1>2, <1>5
    <3>2. from + (nG + 1) - skip + (nI - 1) = pos
      BY <3>1
    <3>3. \A k \in 1 .. nI - 1 : /\ k + 1 \in 1 .. nI
                                /\ from + nG - skip + (k + 1) - 1 = from + (nG + 1) - skip + k - 1
      BY <3>1
    <3>4. \A k \in 1 .. nI - 1 : T[k] = from + (nG + 1) - skip + k - 1
      BY <3>3, <1>2, <1>3
    <3>5. \A k \in 1 .. nG + 1 : k \in 1 .. nG \/ (k = nG + 1 /\ from + k - 1 = from + nG)
      BY <3>1
    <3>6. \A k \in 1 .. nG + 1 : A[k] = from + k - 1
      BY <3>5, <1>2, <2>1, <2>3
    <3>7. QED BY <3>2, <3>4, <3>6
  <2>5. ~ (skip > 0)
    BY <1>5
  <2>6. SubInv(t, pos)
    BY <1>3, <2>1, <2>2, <2>4, <2>5 DEF SubInv
  <2>7. QED BY <2>2, <2>3, <2>6 DEF t, I, G, from, nG
<1>6. QED BY <1>4, <1>5

-----------------------------------------------------------------------------
(* The theorems. *)

LEMMA InitInv == Init => IInv
<1> SUFFICES ASSUME Init PROVE IInv
  OBVIOUS
<1>1. LogInv(EmptyLog) /\ FrontierInv(EmptyLog) /\ EmptyLog.store = << >> /\ Len(<< >>) = 0 /\ EmptyLog.stream_pos = 0
  <2>1. << >> \in Seq(Entry) /\ Len(<< >>) = 0 /\ << >> \o << >> = << >>
    BY EmptySeq, ConcatEmptySeq
  <2>2. /\ EmptyLog.store = << >> /\ EmptyLog.appended = << >> /\ EmptyLog.cache = << >>
        /\ EmptyLog.pending_inserts = 0 /\ EmptyLog.cache_start = 0 /\ EmptyLog.stream_pos = 0
        /\ EmptyLog \in LogType
    BY <2>1 DEF EmptyLog, LogType
  <2>3. EntriesInPlace(<< >>) /\ CacheRepeats(<< >>, << >>, 0)
    BY <2>1 DEF EntriesInPlace, CacheRepeats
  <2>4. QED BY <2>1, <2>2, <2>3 DEF LogInv, FrontierInv
<1>2. \A c \in Clients : subs[c] = Closed
  BY DEF Init
<1>3. subs \in [ Clients -> Subscription ]
  BY ClosedInv DEF Init
<1>4. QED BY <1>1, <1>2, <1>3, ClosedInv DEF Init, IInv

LEMMA StepInv ==
  ASSUME MaxRevert <= CacheSize
  PROVE  IInv /\ [Next]_vars => IInv'
<1> SUFFICES ASSUME IInv, [Next]_vars PROVE IInv'
  OBVIOUS
<1>0. /\ LogInv(log) /\ FrontierInv(log)
      /\ durable \in 0 .. Len(log.store) /\ Len(log.store) \in Nat
      /\ subs \in [ Clients -> Subscription ]
      /\ \A c \in Clients : subs[c] \in Subscription /\ SubInv(subs[c], log.stream_pos)
  BY LogParts DEF IInv
<1>1. ASSUME NEW h \in Heights, Insert(h) PROVE IInv'
  <2>1. h \in Nat BY BoundsAssumption DEF Heights
  <2>2. LogInv(log') /\ log'.store = log.store /\ log'.stream_pos = log.stream_pos
    BY <1>0, <1>1, <2>1, InsertInv DEF Insert
  <2>3. QED BY <1>0, <1>1, <2>2 DEF Insert, IInv, FrontierInv
<1>2. ASSUME NEW h \in Heights, NEW k \in Heights, InsertFails(h, k) PROVE IInv'
  <2>1. /\ h \in Nat /\ h >= NextPos(log) /\ k \in 0 .. h - NextPos(log)
    <3>1. NextPos(log) \in Nat BY <1>0, LogParts
    <3>2. QED BY <1>2, <3>1, BoundsAssumption DEF Heights, InsertFails
  <2>2. LogInv(log') /\ log'.store = log.store /\ log'.stream_pos = log.stream_pos
    BY <1>0, <1>2, <2>1, PaddedInPlace, StoreAllInv DEF InsertFails, InsertFailing
  <2>3. QED BY <1>0, <1>2, <2>2 DEF InsertFails, IInv, FrontierInv
<1>3. ASSUME Commit PROVE IInv'
  <2> DEFINE B == Broadcast(log)
             pos == log.stream_pos
  <2>1. /\ LogInv(log') /\ FrontierInv(log') /\ log'.store = log.store \o log.appended
        /\ B \in Seq(Nat) /\ Len(B) = log'.stream_pos - pos
        /\ \A k \in 1 .. Len(B) : B[k] = pos + k - 1
    BY <1>0, <1>3, CommitInv DEF Commit
  <2>2. pos \in Nat /\ log'.stream_pos \in Nat
    BY <1>0, <2>1, LogParts
  <2>3. pos + Len(B) = log'.stream_pos
    BY <2>1, <2>2
  <2> HIDE DEF B, pos
  <2>4. subs' = [ c \in Clients |-> IF subs[c].open THEN [ subs[c] EXCEPT !.inbox = @ \o B ]
                                                    ELSE subs[c] ]
    BY <1>3 DEF Commit, B
  <2>5. ASSUME NEW c \in Clients
        PROVE  subs'[c] \in Subscription /\ SubInv(subs'[c], log'.stream_pos)
    <3>1. CASE subs[c].open
      <4>1. subs'[c] = [ subs[c] EXCEPT !.inbox = @ \o B ]
        BY <2>4, <3>1
      <4>2. SubInv(subs[c], pos) /\ subs[c] \in Subscription
        BY <1>0 DEF pos
      <4>3. QED BY <3>1, <4>1, <4>2, <2>1, <2>2, <2>3, BroadcastSub
    <3>2. CASE ~ subs[c].open
      BY <1>0, <2>4, <3>2 DEF SubInv
    <3>3. QED BY <3>1, <3>2
  <2>6. subs' \in [ Clients -> Subscription ]
    BY <2>4, <2>5
  <2>7. durable' \in 0 .. Len(log'.store)
    <3>1. Len(log'.store) = Len(log.store) + Len(log.appended) /\ Len(log.appended) \in Nat
      BY <1>0, <2>1, LogParts
    <3> DEFINE nS == Len(log.store)
               nA == Len(log.appended)
               nN == Len(log'.store)
    <3>2. nN = nS + nA /\ nS \in Nat /\ nA \in Nat /\ durable \in 0 .. nS
      BY <1>0, <3>1
    <3> HIDE DEF nS, nA, nN
    <3>3. durable \in 0 .. nN BY <3>2
    <3>4. QED BY <1>3, <3>3 DEF Commit, nN
  <2>8. QED BY <2>1, <2>5, <2>6, <2>7 DEF IInv
<1>4. ASSUME Revert PROVE IInv'
  <2>1. log.pending_inserts <= CacheSize
    <3>1. log.pending_inserts \in Nat /\ CacheSize \in Nat BY <1>0, LogParts
    <3>2. QED BY <1>4, <3>1, BoundsAssumption DEF Revert
  <2>2. LogInv(log') /\ log'.store = log.store /\ log'.stream_pos = log.stream_pos
    BY <1>0, <1>4, <2>1, RevertInv DEF Revert
  <2>3. QED BY <1>0, <1>4, <2>2 DEF Revert, IInv, FrontierInv
<1>5. ASSUME Persist PROVE IInv'
  BY <1>0, <1>5 DEF Persist, IInv
<1>6. ASSUME NEW bad \in LoadFailures, Reopen(bad) PROVE IInv'
  <2> DEFINE es == [ i \in 1 .. durable |-> IF i - 1 \in bad THEN None ELSE log.store[i] ]
  <2>1. es \in Seq(Entry) /\ Len(es) = durable /\ EntriesInPlace(es)
    BY <1>0, ReloadedInPlace
  <2>2. log' = OpenLog(es) BY <1>6 DEF Reopen
  <2> HIDE DEF es
  <2>3. LogInv(log') /\ FrontierInv(log') /\ log'.store = es BY <2>1, <2>2, OpenInv
  <2>4. durable' \in 0 .. Len(log'.store) BY <1>0, <1>6, <2>1, <2>3 DEF Reopen
  <2>5. subs' = [ c \in Clients |-> Closed ] BY <1>6 DEF Reopen
  <2>6. QED BY <2>3, <2>4, <2>5, ClosedInv DEF IInv
<1>7. ASSUME NEW c \in Clients, NEW from \in Heights, Subscribe(c, from) PROVE IInv'
  <2> DEFINE P == Prefix(log, from)
             K == Skipped(log, from)
             s == [ open |-> TRUE, from |-> from, skip |-> K, inbox |-> P, got |-> << >> ]
  <2>1. from \in Nat BY BoundsAssumption DEF Heights
  <2>2. /\ P \in Seq(Nat) /\ K \in Nat /\ from - K + Len(P) = log.stream_pos
        /\ Len(P) > 0 => K = 0
        /\ \A k \in 1 .. Len(P) : P[k] = from + k - 1
    BY <1>0, <1>7, <2>1, PrefixInOrder DEF Subscribe
  <2> HIDE DEF P, K
  <2>3. P \in Seq(Entry) /\ Len(P) \in Nat
    <3>1. Nat \subseteq Entry BY DEF Entry
    <3>2. QED BY <2>2, <3>1, SeqMonotonic, LenProperties
  <2>4. << >> \in Seq(Entry) /\ Len(<< >>) = 0
    BY EmptySeq
  <2>5. s \in Subscription BY <2>1, <2>2, <2>3, <2>4 DEF Subscription
  <2>6. SubInv(s, log.stream_pos)
    <3>1. s.open = TRUE /\ s.from = from /\ s.skip = K /\ s.inbox = P /\ s.got = << >>
      OBVIOUS
    <3> HIDE DEF s
    <3> DEFINE nP == Len(P)
    <3>2. nP \in Nat BY <2>3
    <3>3. from - K + nP = log.stream_pos /\ (nP > 0 => K = 0) BY <2>2
    <3> HIDE DEF nP
    <3>4. from + 0 - K + nP = log.stream_pos BY <2>1, <2>2, <3>2, <3>3
    <3>5. \A k \in 1 .. nP : from + 0 - K + k - 1 = from + k - 1
      BY <2>1, <2>2, <3>2, <3>3
    <3>6. \A k \in 1 .. Len(P) : P[k] = from + 0 - K + k - 1
      BY <2>2, <3>5 DEF nP
    <3>7. \A k \in 1 .. 0 : FALSE OBVIOUS
    <3>8. QED BY <2>4, <3>1, <3>4, <3>6, <3>7 DEF SubInv, nP
  <2>7. subs' = [ subs EXCEPT ![c] = s ] /\ log' = log /\ durable' = durable
    BY <1>7 DEF Subscribe, s, P, K
  <2> HIDE DEF s
  <2>8. QED BY <1>0, <2>5, <2>6, <2>7 DEF IInv
<1>8. ASSUME NEW c \in Clients, Drop(c) PROVE IInv'
  <2> DEFINE s == [ subs[c] EXCEPT !.skip = @ - 1, !.inbox = Tail(@) ]
  <2>1. log.stream_pos \in Nat BY <1>0, LogParts
  <2>2. s \in Subscription /\ SubInv(s, log.stream_pos)
    BY <1>0, <1>8, <2>1, TakeSub DEF Drop
  <2>3. subs' = [ subs EXCEPT ![c] = s ] /\ log' = log /\ durable' = durable
    BY <1>8 DEF Drop
  <2> HIDE DEF s
  <2>4. QED BY <1>0, <2>2, <2>3 DEF IInv
<1>9. ASSUME NEW c \in Clients, Receive(c) PROVE IInv'
  <2> DEFINE s == [ subs[c] EXCEPT !.inbox = Tail(@), !.got = Append(@, Head(subs[c].inbox)) ]
  <2>1. log.stream_pos \in Nat BY <1>0, LogParts
  <2>2. s \in Subscription /\ SubInv(s, log.stream_pos)
    BY <1>0, <1>9, <2>1, TakeSub DEF Receive
  <2>3. subs' = [ subs EXCEPT ![c] = s ] /\ log' = log /\ durable' = durable
    BY <1>9 DEF Receive
  <2> HIDE DEF s
  <2>4. QED BY <1>0, <2>2, <2>3 DEF IInv
<1>10. ASSUME NEW c \in Clients, Unsubscribe(c) PROVE IInv'
  BY <1>0, <1>10, ClosedInv DEF Unsubscribe, IInv
<1>11. CASE UNCHANGED vars
  BY <1>11, <1>0 DEF vars, IInv
<1>12. QED
  BY <1>1, <1>2, <1>3, <1>4, <1>5, <1>6, <1>7, <1>8, <1>9, <1>10, <1>11 DEF Next

\* The inductive invariant holds as long as no more inserts are ever reverted
\* than the cache can hold.
THEOREM Invariance ==
  ASSUME MaxRevert <= CacheSize
  PROVE  Spec => []IInv
<1>1. Init => IInv BY InitInv
<1>2. IInv /\ [Next]_vars => IInv' BY StepInv
<1>3. QED BY <1>1, <1>2, PTL DEF Spec

\* What the invariant says at once: types, the height readers see, what reads
\* yield, what is visible, and the state of every stream.
LEMMA InvImplies ==
  IInv => /\ TypeOK
          /\ HeightIsWritten
          /\ ReadsMatchWrites
          /\ UncommittedIsVisible
          /\ StreamsAreContiguous
          /\ NothingIsLostOrRepeated
<1> SUFFICES ASSUME IInv
             PROVE  /\ TypeOK /\ HeightIsWritten /\ ReadsMatchWrites
                    /\ UncommittedIsVisible /\ StreamsAreContiguous /\ NothingIsLostOrRepeated
  OBVIOUS
<1>1. LogInv(log) /\ Len(log.store) \in Nat
  BY LogParts DEF IInv
<1>2. TypeOK
  BY <1>1 DEF IInv, LogInv, TypeOK
<1>3. HeightIsWritten
  BY <1>1 DEF LogInv, HeightIsWritten, IterLen, NextPos
<1>4. \A i \in 0 .. IterLen(log) - 1 : i \in Nat /\ i < IterLen(log)
  <2>1. log.cache_start \in Nat /\ Len(log.cache) \in Nat BY <1>1, LogParts, Zenon
  <2>2. IterLen(log) \in Nat BY <2>1 DEF IterLen
  <2>3. QED BY <2>2
<1>5. ReadsMatchWrites /\ UncommittedIsVisible
  BY <1>1, <1>4, ReadsInPlace DEF ReadsMatchWrites, UncommittedIsVisible, Written
<1>6. StreamsAreContiguous
  BY DEF IInv, SubInv, StreamsAreContiguous
<1>7. NothingIsLostOrRepeated
  BY DEF IInv, SubInv, NothingIsLostOrRepeated
<1>8. QED BY <1>2, <1>3, <1>5, <1>6, <1>7

\* The variables stay within their types.
THEOREM TypeCorrect ==
  ASSUME MaxRevert <= CacheSize
  PROVE  Spec => []TypeOK
BY Invariance, InvImplies, PTL

\* Readers see exactly as many entries as were written: caching, evicting,
\* committing, reverting and reopening never leave the two counts apart.
THEOREM HeightCorrect ==
  ASSUME MaxRevert <= CacheSize
  PROVE  Spec => []HeightIsWritten
BY Invariance, InvImplies, PTL

\* A read never yields the object of another height nor hides a stored object.
THEOREM ReadsCorrect ==
  ASSUME MaxRevert <= CacheSize
  PROVE  Spec => []ReadsMatchWrites
BY Invariance, InvImplies, PTL

\* Up to a cacheful of uncommitted entries is visible to readers.
THEOREM UncommittedVisible ==
  ASSUME MaxRevert <= CacheSize
  PROVE  Spec => []UncommittedIsVisible
BY Invariance, InvImplies, PTL

\* Every client is given consecutive heights from the one it asked for.
THEOREM StreamsContiguous ==
  ASSUME MaxRevert <= CacheSize
  PROVE  Spec => []StreamsAreContiguous
BY Invariance, InvImplies, PTL

\* No object falls between the prefix of a stream and its channel, none is in
\* both, and none is lost on the way.
THEOREM StreamsComplete ==
  ASSUME MaxRevert <= CacheSize
  PROVE  Spec => []NothingIsLostOrRepeated
BY Invariance, InvImplies, PTL

\* Entries reach the store by a commit and leave it by reopening only; nothing
\* but commit and reopening moves stream_pos.
LEMMA StoreSteps ==
  IInv /\ [Next]_vars =>
    \/ log'.store = log.store /\ log'.stream_pos = log.stream_pos
    \/ Commit
    \/ \E bad \in LoadFailures : Reopen(bad)
<1> SUFFICES ASSUME IInv, [Next]_vars, ~ Commit, ~ \E bad \in LoadFailures : Reopen(bad)
             PROVE  log'.store = log.store /\ log'.stream_pos = log.stream_pos
  OBVIOUS
<1>1. log \in LogType
  BY DEF IInv, LogInv
<1>2. \A es : /\ StoreAll(log, es).store = log.store
              /\ StoreAll(log, es).stream_pos = log.stream_pos
  BY <1>1 DEF StoreAll, LogType
<1>3. ASSUME NEW h \in Heights, Insert(h)
      PROVE  log'.store = log.store /\ log'.stream_pos = log.stream_pos
  <2>1. CASE h >= NextPos(log)
    BY <1>2, <1>3, <2>1 DEF Insert, InsertObject
  <2>2. CASE ~ (h >= NextPos(log))
    BY <1>1, <1>3, <2>2 DEF Insert, InsertObject, LogType
  <2>3. QED BY <2>1, <2>2
<1>4. ASSUME NEW h \in Heights, NEW k \in Heights, InsertFails(h, k)
      PROVE  log'.store = log.store /\ log'.stream_pos = log.stream_pos
  BY <1>2, <1>4 DEF InsertFails, InsertFailing
<1>5. Revert => log'.store = log.store /\ log'.stream_pos = log.stream_pos
  BY <1>1 DEF Revert, RevertVersion, LogType
<1>6. QED
  BY <1>3, <1>4, <1>5 DEF Next, Persist, Subscribe, Drop, Receive, Unsubscribe, vars

\* A durable object stays readable across every step, unless it is among those
\* that can fail to load.
THEOREM DurableReadable ==
  ASSUME MaxRevert <= CacheSize
  PROVE  Spec => DurableStaysReadable
<1> DEFINE Kept == \A i \in 0 .. durable - 1 :
                     /\ log.store[i + 1] = i
                     /\ i \notin UNION LoadFailures
                     => Yields(log', i) /\ Item(log', i) = i
<1>1. IInv /\ IInv' /\ [Next]_vars => Kept
  <2> SUFFICES ASSUME IInv, IInv', [Next]_vars,
                      NEW i \in 0 .. durable - 1,
                      log.store[i + 1] = i, i \notin UNION LoadFailures
               PROVE  Yields(log', i) /\ Item(log', i) = i
    OBVIOUS
  <2>1. /\ LogInv(log) /\ LogInv(log') /\ durable \in 0 .. Len(log.store)
        /\ log.store \in Seq(Entry) /\ log.appended \in Seq(Entry)
        /\ Len(log.store) \in Nat /\ Len(log.appended) \in Nat
    BY LogParts DEF IInv
  <2>2. i \in Nat /\ i + 1 \in 1 .. Len(log.store) /\ i + 1 \in 1 .. durable /\ i # None
    BY <2>1, NoneAssumption
  <2>3. i < Len(log'.store) /\ log'.store[i + 1] = i
    <3>1. CASE log'.store = log.store
      BY <2>2, <3>1, <2>1
    <3>2. CASE Commit
      <4> DEFINE s == log.store
                 a == log.appended
      <4>1. log'.store = s \o a
        BY <2>1, <3>2, CommitInv DEF Commit
      <4>2. s \in Seq(Entry) /\ a \in Seq(Entry) /\ i + 1 \in 1 .. Len(s) /\ s[i + 1] = i
            /\ Len(s) \in Nat /\ Len(a) \in Nat
        BY <2>1, <2>2
      <4> HIDE DEF s, a
      <4>3. Len(s \o a) = Len(s) + Len(a) /\ (s \o a)[i + 1] = s[i + 1]
        BY <4>2
      <4>4. i < Len(s) + Len(a)
        BY <4>2, <2>2
      <4>5. QED BY <4>1, <4>2, <4>3, <4>4
    <3>3. ASSUME NEW bad \in LoadFailures, Reopen(bad)
          PROVE  i < Len(log'.store) /\ log'.store[i + 1] = i
      <4> DEFINE es == [ j \in 1 .. durable |-> IF j - 1 \in bad THEN None ELSE log.store[j] ]
      <4>1. es \in Seq(Entry) /\ Len(es) = durable /\ EntriesInPlace(es)
        <5>1. LogInv(log) /\ durable \in 0 .. Len(log.store)
          BY <2>1
        <5>2. QED BY <5>1, ReloadedInPlace
      <4>2. log' = OpenLog(es)
        BY <3>3 DEF Reopen
      <4>3. i + 1 - 1 \notin bad
        BY <2>2
      <4>4. es[i + 1] = i
        BY <2>2, <4>3
      <4> HIDE DEF es
      <4>5. log'.store = es
        BY <4>1, <4>2, OpenInv
      <4>6. QED BY <4>1, <4>4, <4>5, <2>1
    <3>4. QED BY <3>1, <3>2, <3>3, StoreSteps
  <2>4. /\ Yields(log', i) /\ (log'.store \o log'.appended)[i + 1] # None
           => Item(log', i) = (log'.store \o log'.appended)[i + 1]
        /\ Yields(log', i) /\ (log'.store \o log'.appended)[i + 1] = log'.store[i + 1]
    <3>1. LogInv(log') /\ i \in Nat /\ i < Len(log'.store)
      BY <2>1, <2>2, <2>3
    <3>2. QED BY <3>1, ReadsInPlace
  <2>5. QED BY <2>2, <2>3, <2>4
<1>2. IInv /\ IInv' /\ [Next]_vars => [Kept]_vars
  BY <1>1
<1>3. Spec => []IInv
  BY Invariance
<1>4. Spec => [][Kept]_vars
  BY <1>2, <1>3, PTL DEF Spec
<1>5. QED BY <1>4 DEF DurableStaysReadable

-----------------------------------------------------------------------------
(* The loop in `insert` and its closed form.                               *)

\* The cache holds no more entries than it may.
CacheFits == Len(log.cache) <= CacheSize

\* What StoreAll leaves in the cache fits.
LEMMA StoreAllFits ==
  ASSUME NEW l \in LogType, NEW es \in Seq(Entry)
  PROVE  Len(StoreAll(l, es).cache) <= CacheSize
<1> DEFINE all == l.cache \o es
           len == Len(all)
           n   == Evicted(len)
<1>1. all \in Seq(Entry)
  <2>1. l.cache \in Seq(Entry)
    BY DEF LogType
  <2>2. QED BY <2>1, ConcatProperties
<1>2. len \in Nat
  BY <1>1, LenProperties
<1>3. n \in 0 .. len /\ len - n <= CacheSize
  <2> HIDE DEF len
  <2>1. n \in 0 .. len
    BY <1>2, EvictedCounts
  <2>2. len - n <= CacheSize
    BY <1>2, CacheSizeAssumption DEF Evicted
  <2>3. QED BY <2>1, <2>2
<1>4. StoreAll(l, es).cache = SubSeq(all, n + 1, len)
  BY StoreAllParts
<1> HIDE DEF n
<1>5. Len(SubSeq(all, n + 1, len)) = len - n
  <2> HIDE DEF all
  <2>1. n \in 0 .. Len(all)
    BY <1>3
  <2>2. QED BY <2>1, <1>1, Suffix
<1>6. QED BY <1>3, <1>4, <1>5

\* A step keeps the cache within its size.
LEMMA FitsStep ==
  IInv /\ CacheFits /\ [Next]_vars => CacheFits'
<1> SUFFICES ASSUME IInv, CacheFits, [Next]_vars PROVE CacheFits'
  OBVIOUS
<1>0. /\ LogInv(log) /\ log \in LogType /\ durable \in 0 .. Len(log.store)
      /\ log.cache \in Seq(Entry) /\ Len(log.cache) \in Nat /\ Len(log.cache) <= CacheSize
      /\ log.pending_inserts \in Nat /\ log.cache_start \in Nat
      /\ CacheSize \in Nat
  BY LogParts, CacheSizeAssumption DEF IInv, LogInv, CacheFits
<1>a. \A h \in Nat : h >= NextPos(log) => Padded(log, h, h) \in Seq(Entry)
  <2>1. TAKE h \in Nat
  <2>2. SUFFICES ASSUME h >= NextPos(log) PROVE Padded(log, h, h) \in Seq(Entry)
    OBVIOUS
  <2>3. 0 \in 0 .. h - NextPos(log)
    <3> DEFINE p == NextPos(log)
    <3>1. p \in Nat /\ h >= p
      BY <1>0, <2>2, LogParts, Zenon
    <3> HIDE DEF p
    <3>2. 0 \in 0 .. h - p
      BY <3>1
    <3>3. QED BY <3>2 DEF p
  <2>4. QED BY <2>2, <2>3, <1>0, PaddedInPlace
<1>b. Heights \subseteq Nat
  BY DEF Heights
<1>1. ASSUME NEW h \in Heights, Insert(h) PROVE CacheFits'
  <2>1. CASE h >= NextPos(log)
    <3>1. log' = StoreAll(log, Padded(log, h, h)) /\ Padded(log, h, h) \in Seq(Entry)
      BY <1>1, <1>a, <1>b, <2>1 DEF Insert, InsertObject
    <3>2. QED BY <3>1, <1>0, StoreAllFits DEF CacheFits
  <2>2. CASE ~ (h >= NextPos(log)) /\ h >= log.cache_start
    <3> DEFINE i == h - log.cache_start + 1
    <3>1. log' = [ log EXCEPT !.cache[i] = h ]
      BY <1>1, <2>2 DEF Insert, InsertObject
    <3>2. log'.cache = [ log.cache EXCEPT ![i] = h ]
      BY <3>1, <1>0 DEF LogType
    <3> HIDE DEF i
    <3>3. Len(log'.cache) = Len(log.cache)
      <4> DEFINE C == log.cache
      <4>1. C \in Seq(Entry) /\ DOMAIN C = 1 .. Len(C)
        BY <1>0, LenProperties
      <4> HIDE DEF C
      <4>2. Len([ C EXCEPT ![i] = h ]) = Len(C)
        BY <4>1
      <4>3. QED BY <3>2, <4>2 DEF C
    <3>4. QED BY <3>3, <1>0 DEF CacheFits
  <2>3. CASE ~ (h >= NextPos(log)) /\ ~ (h >= log.cache_start)
    BY <1>0, <1>1, <2>3 DEF Insert, InsertObject, CacheFits
  <2>4. QED BY <2>1, <2>2, <2>3
<1>2. ASSUME NEW h \in Heights, NEW k \in Heights, InsertFails(h, k) PROVE CacheFits'
  <2>1. h \in Nat /\ h >= NextPos(log) /\ k \in 1 .. h - NextPos(log)
        /\ log' = StoreAll(log, SubSeq(Padded(log, h, h), 1, k))
    BY <1>2, <1>b DEF InsertFails, InsertFailing
  <2>2. SubSeq(Padded(log, h, h), 1, k) \in Seq(Entry)
    <3>1. k \in 0 .. h - NextPos(log)
      BY <2>1, <1>b
    <3>2. QED BY <3>1, <2>1, <1>0, PaddedInPlace
  <2>3. QED BY <2>1, <2>2, <1>0, StoreAllFits DEF CacheFits
<1>3. ASSUME Commit PROVE CacheFits'
  <2>1. log'.cache = log.cache
    BY <1>0, <1>3 DEF Commit, CommitVersion, Stored, LogType
  <2>2. QED BY <2>1, <1>0 DEF CacheFits
<1>4. ASSUME Revert PROVE CacheFits'
  <2> DEFINE C == log.cache
             n == Len(C)
             m == n - log.pending_inserts
  <2>1. log'.cache = SubSeq(C, 1, m)
    BY <1>0, <1>4 DEF Revert, RevertVersion, LogType
  <2>2. C \in Seq(Entry) /\ n \in Nat /\ n <= CacheSize
    BY <1>0
  <2>3. m \in Int /\ m <= n
    <3> HIDE DEF n
    <3>1. QED BY <2>2, <1>0
  <2>4. \A i \in 1 .. m : C[i] \in Entry
    <3>1. \A i \in 1 .. m : i \in 1 .. n
      <4> HIDE DEF n, m
      <4>1. QED BY <2>2, <2>3
    <3>2. QED BY <2>2, <3>1, ElementOfSeq
  <2> HIDE DEF C, m
  <2>5. Len(SubSeq(C, 1, m)) = IF 1 <= m THEN m - 1 + 1 ELSE 0
    BY <2>3, <2>4, SubSeqProperties
  <2> HIDE DEF n
  <2>6. (IF 1 <= m THEN m - 1 + 1 ELSE 0) <= CacheSize
    BY <2>2, <2>3, <1>0
  <2>7. QED BY <2>1, <2>5, <2>6 DEF CacheFits
<1>5. ASSUME NEW bad \in LoadFailures, Reopen(bad) PROVE CacheFits'
  <2> DEFINE es == [ i \in 1 .. durable |-> IF i - 1 \in bad THEN None ELSE log.store[i] ]
             len == Len(es)
             n   == Evicted(len)
  <2>1. es \in Seq(Entry)
    BY <1>0, ReloadedInPlace
  <2>2. log' = OpenLog(es)
    BY <1>5 DEF Reopen
  <2> HIDE DEF es
  <2>3. log'.cache = SubSeq(es, n + 1, len)
    BY <2>2 DEF OpenLog, Evicted
  <2>4. len \in Nat
    BY <2>1, LenProperties
  <2>5. n \in 0 .. len /\ len - n <= CacheSize
    <3> HIDE DEF len
    <3>1. n \in 0 .. len
      BY <2>4, EvictedCounts
    <3>2. len - n <= CacheSize
      BY <2>4, CacheSizeAssumption DEF Evicted
    <3>3. QED BY <3>1, <3>2
  <2> HIDE DEF n
  <2>6. Len(SubSeq(es, n + 1, len)) = len - n
    BY <2>1, <2>5, Suffix
  <2>7. QED BY <2>3, <2>5, <2>6 DEF CacheFits
<1>6. ASSUME log' = log PROVE CacheFits'
  BY <1>6, <1>0 DEF CacheFits
<1>7. QED
  BY <1>1, <1>2, <1>3, <1>4, <1>5, <1>6
     DEF Next, Persist, Subscribe, Drop, Receive, Unsubscribe, vars

\* The loop in `insert` appends, evicts and counts what the closed form says,
\* for every gap it may have to fill.
THEOREM InsertLoopCorrect ==
  ASSUME MaxRevert <= CacheSize
  PROVE  Spec => []InsertLoopIsStoreAll
<1>1. Init => CacheFits
  BY EmptySeq, CacheSizeAssumption DEF Init, EmptyLog, CacheFits
<1>2. IInv /\ CacheFits => InsertLoopIsStoreAll
  <2> SUFFICES ASSUME IInv, CacheFits, NEW h \in NextPos(log) .. NextPos(log) + MaxHeight
               PROVE  StoreAll(log, Padded(log, h, h)) = StoreEach(log, Padded(log, h, h))
    BY DEF InsertLoopIsStoreAll
  <2> DEFINE p == NextPos(log)
  <2>1. LogInv(log) /\ log \in LogType /\ p \in Nat
    BY LogParts DEF IInv, LogInv
  <2>2. h \in Nat /\ h >= p /\ 0 \in 0 .. h - p
    <3>1. h \in p .. p + MaxHeight
      OBVIOUS
    <3> HIDE DEF p
    <3>2. QED BY <2>1, <3>1, BoundsAssumption
  <2>3. Padded(log, h, h) \in Seq(Entry)
    BY <2>1, <2>2, PaddedInPlace
  <2>4. QED BY <2>1, <2>3, StoreEachIsStoreAll DEF CacheFits
<1>3. Spec => []IInv
  BY Invariance
<1>4. Spec => []CacheFits
  BY <1>1, <1>3, FitsStep, PTL DEF Spec
<1>5. QED BY <1>2, <1>3, <1>4, PTL

-----------------------------------------------------------------------------
(* The log implements the abstract ordered stream.                         *)

\* What the abstract specification sees of the subscriptions.
SeenOf(f) ==
  [ c \in Clients |-> [ open |-> f[c].open, from |-> f[c].from, got |-> f[c].got ] ]

\* Every step of the log is a step of the ordered stream or leaves it alone.
LEMMA StepRefines ==
  IInv /\ [Next]_vars => [Streams!Next]_(Streams!sVars)
<1> SUFFICES ASSUME IInv, [Next]_vars PROVE [Streams!Next]_(Streams!sVars)
  OBVIOUS
<1> DEFINE pos == log.stream_pos
           Stutter == pos' = pos /\ SeenOf(subs)' = SeenOf(subs)
           Moves == Streams!Next \/ Stutter
<1>0. /\ LogInv(log) /\ FrontierInv(log) /\ pos \in Nat
      /\ durable \in 0 .. Len(log.store) /\ Len(log.store) \in Nat
      /\ subs \in [ Clients -> Subscription ]
      /\ \A c \in Clients : subs[c] \in Subscription /\ SubInv(subs[c], pos)
  BY LogParts DEF IInv
<1>a. ASSUME log' = log \/ log'.stream_pos = log.stream_pos, subs' = subs PROVE Stutter
  BY <1>a DEF SeenOf
<1>1. ASSUME NEW h \in Heights, Insert(h) \/ \E k \in Heights : InsertFails(h, k) PROVE Stutter
  <2>1. log \in LogType
    BY <1>0 DEF LogInv
  <2>2. \A es : StoreAll(log, es).stream_pos = pos
    BY <2>1 DEF StoreAll, LogType
  <2>3. log'.stream_pos = pos /\ subs' = subs
    BY <1>1, <2>1, <2>2 DEF Insert, InsertObject, InsertFails, InsertFailing, LogType
  <2>4. QED BY <1>a, <2>3
<1>2. ASSUME Commit PROVE Moves
  <2>1. pos' >= pos /\ pos' \in Nat
    BY <1>0, <1>2, CommitInv, LogParts DEF Commit
  <2>2. \A c \in Clients : /\ subs'[c].open = subs[c].open
                           /\ subs'[c].from = subs[c].from
                           /\ subs'[c].got = subs[c].got
    BY <1>0, <1>2 DEF Commit, Subscription
  <2>3. SeenOf(subs)' = SeenOf(subs)
    BY <2>2 DEF SeenOf
  <2>4. CASE pos' = pos
    BY <2>3, <2>4
  <2>5. CASE pos' # pos
    <3>1. pos' > pos BY <1>0, <2>1, <2>5
    <3>2. Streams!Advance BY <2>3, <3>1 DEF Streams!Advance, SeenOf
    <3>3. QED BY <3>2 DEF Streams!Next
  <2>6. QED BY <2>4, <2>5
<1>3. ASSUME Revert PROVE Stutter
  <2>1. log'.stream_pos = pos /\ subs' = subs
    BY <1>0, <1>3 DEF Revert, RevertVersion, LogInv, LogType
  <2>2. QED BY <1>a, <2>1
<1>4. ASSUME Persist PROVE Stutter
  BY <1>4, <1>a DEF Persist
<1>5. ASSUME NEW bad \in LoadFailures, Reopen(bad) PROVE Streams!Restart
  <2> DEFINE es == [ i \in 1 .. durable |-> IF i - 1 \in bad THEN None ELSE log.store[i] ]
  <2>1. es \in Seq(Entry) /\ Len(es) = durable /\ EntriesInPlace(es)
    <3>1. LogInv(log) /\ durable \in 0 .. Len(log.store) BY <1>0
    <3>2. QED BY <3>1, ReloadedInPlace
  <2>2. log' = OpenLog(es)
    BY <1>5 DEF Reopen
  <2>3. \A i \in 1 .. durable : es[i] # None => log.store[i] # None
    OBVIOUS
  <2> HIDE DEF es
  <2>4. pos' \in 0 .. durable /\ \A r \in 0 .. pos' - 1 : es[r + 1] # None
    BY <2>1, <2>2, OpenInv
  <2>5. pos' \in 0 .. pos
    <3>1. SUFFICES ASSUME pos' > pos PROVE FALSE
      BY <1>0, <2>4
    <3>2. pos \in 0 .. pos' - 1 /\ pos + 1 \in 1 .. durable /\ pos < Len(log.store)
      BY <1>0, <2>4, <3>1
    <3>3. es[pos + 1] # None BY <2>4, <3>2
    <3>4. QED BY <1>0, <2>3, <3>2, <3>3 DEF FrontierInv
  <2>6. SeenOf(subs)' = [ c \in Clients |-> Streams!Idle ]
    BY <1>5 DEF Reopen, SeenOf, Closed, Streams!Idle
  <2>7. QED BY <2>5, <2>6 DEF Streams!Restart, SeenOf
<1>6. ASSUME NEW c \in Clients, NEW from \in Heights, Subscribe(c, from)
      PROVE  Streams!Open(c, from)
  <2>1. SeenOf(subs)' = [ SeenOf(subs) EXCEPT ![c] = [ open |-> TRUE, from |-> from, got |-> << >> ] ]
    BY <1>0, <1>6 DEF Subscribe, SeenOf
  <2>2. ~ SeenOf(subs)[c].open /\ pos' = pos
    BY <1>6 DEF Subscribe, SeenOf
  <2>3. QED BY <2>1, <2>2 DEF Streams!Open, SeenOf
<1>7. ASSUME NEW c \in Clients, Drop(c) PROVE Stutter
  <2>1. \A d \in Clients : /\ subs'[d].open = subs[d].open
                           /\ subs'[d].from = subs[d].from
                           /\ subs'[d].got = subs[d].got
    BY <1>0, <1>7 DEF Drop, Subscription
  <2>2. QED BY <1>7, <2>1 DEF Drop, SeenOf
<1>8. ASSUME NEW c \in Clients, Receive(c) PROVE Streams!Deliver(c)
  <2> DEFINE s == subs[c]
  <2>1. /\ s \in Subscription /\ SubInv(s, pos) /\ s.open /\ s.skip = 0 /\ s.inbox # << >>
        /\ s.from \in Nat /\ Len(s.got) \in Nat /\ Len(s.inbox) \in Nat
    BY <1>0, <1>8, SubParts DEF Receive
  <2>2. Head(s.inbox) = s.from + Len(s.got)
    BY <1>0, <2>1, TakeSub
  <2>3. s.from + Len(s.got) < pos
    <3>1. s.from + Len(s.got) - 0 + Len(s.inbox) = pos
      BY <2>1 DEF SubInv
    <3>2. Len(s.inbox) > 0
      <4> DEFINE q == s.inbox
      <4>1. q \in Seq(Entry) /\ q # << >> /\ Len(q) \in Nat
        BY <2>1, SubParts
      <4> HIDE DEF q
      <4>2. Len(q) > 0 BY <4>1, EmptySeq
      <4>3. QED BY <4>2 DEF q
    <3> DEFINE n == Len(s.inbox)
               g == Len(s.got)
               f == s.from
    <3>3. f \in Nat /\ g \in Nat /\ n \in Nat /\ n > 0 /\ f + g - 0 + n = pos
      BY <2>1, <3>1, <3>2
    <3> HIDE DEF n, g, f
    <3>4. f + g < pos BY <3>3
    <3>5. QED BY <3>4 DEF g, f
  <2>4. SeenOf(subs)' = [ SeenOf(subs) EXCEPT ![c].got = Append(@, s.from + Len(s.got)) ]
    BY <1>0, <1>8, <2>2 DEF Receive, SeenOf, Subscription
  <2>5. /\ SeenOf(subs)[c].open /\ SeenOf(subs)[c].from = s.from
        /\ SeenOf(subs)[c].got = s.got /\ pos' = pos
    BY <1>8, <2>1 DEF Receive, SeenOf
  <2>6. QED BY <2>3, <2>4, <2>5 DEF Streams!Deliver, Streams!Due, SeenOf
<1>9. ASSUME NEW c \in Clients, Unsubscribe(c) PROVE Streams!Close(c)
  <2>1. SeenOf(subs)' = [ SeenOf(subs) EXCEPT ![c] = Streams!Idle ]
    BY <1>0, <1>9 DEF Unsubscribe, SeenOf, Closed, Streams!Idle
  <2>2. SeenOf(subs)[c].open /\ pos' = pos
    BY <1>9 DEF Unsubscribe, SeenOf
  <2>3. QED BY <2>1, <2>2 DEF Streams!Close, SeenOf
<1>10. ASSUME UNCHANGED vars PROVE Stutter
  BY <1>10, <1>a DEF vars
<1>11. Moves
  <2>1. (\/ \E bad \in LoadFailures : Reopen(bad)
         \/ \E c \in Clients : \/ \E from \in Heights : Subscribe(c, from)
                               \/ Receive(c) \/ Unsubscribe(c))
        => Streams!Next
    BY <1>5, <1>6, <1>8, <1>9 DEF Streams!Next
  <2>2. QED
    BY <2>1, <1>1, <1>2, <1>3, <1>4, <1>7, <1>10 DEF Next
<1>12. Stutter => UNCHANGED Streams!sVars
  BY DEF Streams!sVars, SeenOf
<1>13. QED BY <1>11, <1>12

\* The log implements the safety part of the ordered stream, for every number
\* of clients and whatever the order of inserts, commits, reverts and restarts.
THEOREM StreamRefinement ==
  ASSUME MaxRevert <= CacheSize
  PROVE  Spec => Streams!Spec
<1>1. Init => Streams!Init
  BY DEF Init, EmptyLog, Closed, Streams!Init, Streams!Idle
<1>2. IInv /\ [Next]_vars => [Streams!Next]_(Streams!sVars)
  BY StepRefines
<1>3. Spec => []IInv
  BY Invariance
<1>4. QED BY <1>1, <1>2, <1>3, PTL DEF Spec, Streams!Spec
=============================================================================
