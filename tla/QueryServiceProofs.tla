-------------------------- MODULE QueryServiceProofs --------------------------
(***************************************************************************)
(* The theorems of QueryService: what requests and subscribers are told is *)
(* recorded, whatever the loop is doing and however often the process      *)
(* starts again, for every ledger, any number of clients and of events     *)
(* that HotShot is ahead.                                                  *)
(***************************************************************************)
EXTENDS QueryService, FileSystemLemmas

\* The loop has not touched the data source since the last commit, or is at work.
Quiet      == {"subscribe", "start", "next", "lock", "update"}
Committing == {"leaves", "blocks", "record"}

Announced == loop.event.first .. loop.event.last

\* The data source and the record of it are right, and the last recorded leaf is no
\* placeholder.
SourceKept ==
  /\ SourceInv(ds) /\ HasGenesis(ds) /\ GenesisStored(ds) /\ RecordedIn(ds, durable)
  /\ durable.leaves > 0 => ds.leaf_storage.store[durable.leaves] # None

LoopKept ==
  /\ loop \in [ at : Steps, event : Event \cup {NoEvent} ]
  /\ loop.event \in IF loop.at \in {"subscribe", "start", "next"} THEN {NoEvent} ELSE Event

\* At rest everything is in the stores, and what is in the stores is recorded (or is
\* the genesis); at work the leaf log ends with the event being handled.
AtRest ==
  loop.at \in Quiet =>
    BothSettled(ds) /\ Lengths(ds) \in { durable, [ leaves |-> 1, blocks |-> 1 ] }

AtWork ==
  loop.at \in Committing =>
    /\ CachesAreWritten(ds)
    /\ NextPos(ds.leaf_storage) = loop.event.last + 1
    /\ Announced \subseteq WrittenIn(ds.leaf_storage)
    /\ loop.at # "leaves" => ds.leaf_storage.appended = << >>
    /\ loop.at = "record" => ds.block_storage.appended = << >>

\* Whatever an update did before the loop stopped, the logs hold nothing but what is
\* recorded, the genesis and objects of the event.
Known(h, length) == h = None \/ h = 0 \/ h < length \/ h \in Announced

HeldKnown ==
  loop.at \notin Quiet =>
    /\ \A h \in Held(ds.leaf_storage)  : Known(h, durable.leaves)
    /\ \A h \in Held(ds.block_storage) : Known(h, durable.blocks)

\* Someone listens before HotShot decides anything.
HotshotKept ==
  /\ hotshot \in [ started : BOOLEAN, listened : BOOLEAN, resumed : Nat, decided : Nat,
                   queue : Seq(Event) ]
  /\ hotshot.started \/ loop.at = "start" => hotshot.listened
  /\ ~ hotshot.started => hotshot.resumed = hotshot.decided + 1

\* Events follow one another, and follow the leaf log, as long as the loop runs.
EventsInOrder ==
  /\ durable.leaves <= hotshot.decided + 1 /\ loop.event.last <= hotshot.decided
  /\ \A i \in 1 .. Len(hotshot.queue) :
       /\ hotshot.queue[i].last <= hotshot.decided
       /\ \A j \in 1 .. i - 1 : hotshot.queue[j].last < hotshot.queue[i].first
  /\ Running =>
       /\ NextPos(ds.leaf_storage) <= hotshot.decided + 1
       /\ \A i \in 1 .. Len(hotshot.queue) :
            /\ loop.event.last < hotshot.queue[i].first
            /\ NextPos(ds.leaf_storage) <= hotshot.queue[i].first
  /\ loop.at \in {"lock", "update"} => NextPos(ds.leaf_storage) <= loop.event.first

\* An object that is in the store, and recorded or the genesis.
Kept(l, h, length) == h < Len(l.store) /\ l.store[h + 1] = h /\ (h = 0 \/ h < length)

DecisionsKept ==
  Running => \A h \in hotshot.resumed .. hotshot.decided :
    \/ Kept(ds.leaf_storage, h, durable.leaves)
    \/ h \in Announced
    \/ \E i \in 1 .. Len(hotshot.queue) : h \in hotshot.queue[i].first .. hotshot.queue[i].last

ReadersKept ==
  /\ clients \in [ Clients -> {"idle", "reading"} ]
  /\ SomeoneReads => ~ Writing

KeptObjects ==
  { << "leaf", h >>  : h \in { n \in Heights : Kept(ds.leaf_storage, n, durable.leaves) } } \cup
  { << "block", h >> : h \in { n \in Heights : Kept(ds.block_storage, n, durable.blocks) } }

ToldKept == told \subseteq KeptObjects

\* What is sent to a stream is in the store.
StreamType == [ kind : {"leaf", "block"}, skip : Nat, items : Seq(Heights) ]

StreamsKept ==
  /\ DOMAIN streams = Clients
  /\ \A c \in Clients : streams[c] # NoStream =>
       /\ streams[c] \in StreamType
       /\ \A i \in DOMAIN streams[c].items :
            streams[c].items[i] < IF streams[c].kind = "leaf" THEN Len(ds.leaf_storage.store)
                                  ELSE Len(ds.block_storage.store)

ServiceInv ==
  /\ SourceKept /\ LoopKept /\ AtRest /\ AtWork /\ HeldKnown
  /\ HotshotKept /\ EventsInOrder /\ DecisionsKept
  /\ ReadersKept /\ ToldKept /\ StreamsKept /\ StreamsAreRecorded

-----------------------------------------------------------------------------
(* What the invariant says at hand. *)

LEMMA LoopFacts ==
  ASSUME LoopKept
  PROVE  /\ loop.event.first \in Nat /\ loop.event.last \in Nat /\ loop.at \in Steps
         /\ loop.event = NoEvent => Announced = {} /\ loop.event.last = 0
         /\ loop.event \in Event => loop.event.first > 0 /\ loop.event.first <= loop.event.last
         /\ Announced \subseteq Nat
<1>1. loop.at \in Steps /\ (loop.event \in Event \/ loop.event = NoEvent)
  BY DEF LoopKept
<1>2. CASE loop.event \in Event
  <2> DEFINE e == loop.event
  <2> HIDE DEF e
  <2>1. e \in Event
    BY <1>2 DEF e
  <2>2. e.first \in Nat /\ e.last \in Nat /\ 0 < e.first /\ e.first <= e.last
    BY <2>1, EventFacts
  <2>3. e # NoEvent
    BY <2>2 DEF NoEvent
  <2>4. e.first .. e.last \subseteq Nat
    BY <2>2
  <2>5. QED BY <1>1, <2>2, <2>3, <2>4 DEF e, Announced
<1>3. CASE loop.event = NoEvent
  <2>1. loop.event.first = 1 /\ loop.event.last = 0
    BY <1>3 DEF NoEvent
  <2>2. Announced = {}
    BY <2>1 DEF Announced
  <2>3. loop.event \notin Event
    <3>1. ~ (1 <= 0)
      OBVIOUS
    <3>2. QED BY <2>1, <3>1 DEF Event
  <2>4. QED BY <1>1, <2>1, <2>2, <2>3
<1>4. QED BY <1>1, <1>2, <1>3

\* At rest, all the objects that the logs hold are in the stores, and recorded or
\* the genesis; and the log of leaves ends with its store.
LEMMA HeldAtRest ==
  ASSUME SourceKept, AtRest, loop.at \in Quiet
  PROVE  /\ \A h \in Held(ds.leaf_storage) : h # None => h \in Nat /\ Kept(ds.leaf_storage, h, durable.leaves)
         /\ \A h \in Held(ds.block_storage) : h # None => h \in Nat /\ Kept(ds.block_storage, h, durable.blocks)
         /\ NextPos(ds.leaf_storage) = Len(ds.leaf_storage.store)
<1> DEFINE l == ds.leaf_storage
           b == ds.block_storage
<1>1. LogInv(l) /\ LogInv(b) /\ Settled(l) /\ Settled(b)
  BY DEF SourceKept, SourceInv, LogsInv, AtRest, BothSettled
<1>2. \/ Len(l.store) = durable.leaves /\ Len(b.store) = durable.blocks
      \/ Len(l.store) = 1 /\ Len(b.store) = 1
  <2>1. Lengths(ds) = durable \/ Lengths(ds) = [ leaves |-> 1, blocks |-> 1 ]
    BY DEF AtRest
  <2>2. Lengths(ds).leaves = Len(l.store) /\ Lengths(ds).blocks = Len(b.store)
    BY DEF Lengths
  <2> DEFINE v == Lengths(ds)
             one == [ leaves |-> 1, blocks |-> 1 ]
  <2>3. one.leaves = 1 /\ one.blocks = 1
    OBVIOUS
  <2> HIDE DEF v, one, l, b
  <2>4. v = durable \/ v = one
    BY <2>1 DEF v, one
  <2>5. v.leaves = Len(l.store) /\ v.blocks = Len(b.store)
    BY <2>2 DEF v
  <2>6. QED BY <2>3, <2>4, <2>5
<1> HIDE DEF l, b
<1>3. ASSUME NEW g \in {l, b}, NEW n, Len(g.store) = n \/ Len(g.store) = 1, NEW h \in Held(g), h # None
      PROVE  h \in Nat /\ Kept(g, h, n)
  <2>1. LogInv(g) /\ Settled(g)
    BY <1>1
  <2>2. h \in Entries(g.store)
    BY <1>3, <2>1, SettledLog
  <2>3. h \in Nat /\ h < Len(g.store) /\ g.store[h + 1] = h
    BY <1>3, <2>1, <2>2, StoredObject
  <2>4. h = 0 \/ h < n
    BY <1>3, <2>3
  <2>5. QED BY <2>3, <2>4 DEF Kept
<1>4. NextPos(l) = Len(l.store)
  BY <1>1, SettledLog
<1>5. QED BY <1>2, <1>3, <1>4 DEF l, b

\* What is kept stays so while the stores and the record grow.
LEMMA KeptGrows ==
  ASSUME NEW l, LogInv(l), NEW m, LogInv(m), Extends(m.store, l.store),
         NEW n \in Nat, NEW k \in Nat, n <= k, NEW h \in Nat, Kept(l, h, n)
  PROVE  Kept(m, h, k)
<1> DEFINE a == Len(l.store)
           b == Len(m.store)
<1>1. a \in Nat /\ b \in Nat /\ a <= b /\ h < a /\ l.store[h + 1] = h /\ (h = 0 \/ h < n)
  BY LogParts DEF Kept, Extends
<1> HIDE DEF a, b
<1>2. h + 1 \in 1 .. a /\ h < b /\ (h = 0 \/ h < k)
  BY <1>1
<1>3. m.store[h + 1] = h
  BY <1>1, <1>2 DEF Extends, a
<1>4. QED BY <1>2, <1>3 DEF Kept, b

\* What is kept can be read.
LEMMA KeptVisible ==
  ASSUME SourceKept
  PROVE  KeptObjects \subseteq Visible(ds)
<1>1. LogInv(ds.leaf_storage) /\ LogInv(ds.block_storage)
  BY DEF SourceKept, SourceInv, LogsInv
<1>2. \A h \in Heights : Kept(ds.leaf_storage, h, durable.leaves) => Available(ds.leaf_storage, h)
  BY <1>1, StoredAvailable, HeightsAreNatural DEF Kept
<1>3. \A h \in Heights : Kept(ds.block_storage, h, durable.blocks) => Available(ds.block_storage, h)
  BY <1>1, StoredAvailable, HeightsAreNatural DEF Kept
<1>4. QED BY <1>2, <1>3 DEF KeptObjects, Visible

\* At rest, and only then, what can be read is kept.
LEMMA VisibleKept ==
  ASSUME SourceKept, AtRest, loop.at \in Quiet
  PROVE  Visible(ds) \subseteq KeptObjects
<1>1. LogInv(ds.leaf_storage) /\ LogInv(ds.block_storage)
  BY DEF SourceKept, SourceInv, LogsInv
<1>2. \A h \in Heights : h \in Nat /\ h # None
  BY HeightsAreNatural, NoneAssumption
<1>3. \A h \in Heights : Available(ds.leaf_storage, h) => Kept(ds.leaf_storage, h, durable.leaves)
  BY <1>1, <1>2, HeldAtRest, AvailableHeld
<1>4. \A h \in Heights : Available(ds.block_storage, h) => Kept(ds.block_storage, h, durable.blocks)
  BY <1>1, <1>2, HeldAtRest, AvailableHeld
<1>5. QED BY <1>3, <1>4 DEF KeptObjects, Visible

\* The objects that the logs hold are of the ledger.
LEMMA HeldOfLedger ==
  ASSUME SourceInv(ds)
  PROVE  /\ \A h \in Held(ds.leaf_storage) : h # None => h \in Heights
         /\ \A h \in Held(ds.block_storage) : h # None => h \in Heights
BY DEF SourceInv, HeldIndexed, LeafIndexed, BlockIndexed

LEMMA QueueFacts ==
  ASSUME NEW q \in Seq(Event)
  PROVE  /\ Len(q) \in Nat
         /\ \A i \in 1 .. Len(q) : /\ q[i] \in Event /\ q[i].first \in Nat /\ q[i].last \in Nat
                                   /\ 0 < q[i].first /\ q[i].first <= q[i].last
<1>1. Len(q) \in Nat /\ \A i \in 1 .. Len(q) : q[i] \in Event
  BY LenProperties, ElementOfSeq
<1>2. ASSUME NEW i \in 1 .. Len(q)
      PROVE  /\ q[i] \in Event /\ q[i].first \in Nat /\ q[i].last \in Nat
             /\ 0 < q[i].first /\ q[i].first <= q[i].last
  <2> DEFINE e == q[i]
  <2>1. e \in Event
    BY <1>1
  <2> HIDE DEF e
  <2>2. e.first \in Nat /\ e.last \in Nat /\ 0 < e.first /\ e.first <= e.last
    BY <2>1, EventFacts
  <2>3. QED BY <2>1, <2>2 DEF e
<1>3. QED BY <1>1, <1>2

-----------------------------------------------------------------------------
(* Steps that leave the data source alone. *)

LEMMA SameSource ==
  ASSUME ServiceInv, UNCHANGED store
  PROVE  /\ SourceKept'
         /\ UNCHANGED told => ToldKept'
         /\ UNCHANGED streams => StreamsKept'
         /\ UNCHANGED << clients, loop >> => ReadersKept'
         /\ UNCHANGED loop => LoopKept' /\ AtRest' /\ AtWork' /\ HeldKnown'
         /\ UNCHANGED << loop, streams >> => StreamsAreRecorded'
<1>1. ds' = ds /\ durable' = durable
  BY DEF store
<1>2. SourceKept'
  BY <1>1 DEF ServiceInv, SourceKept
<1>3. KeptObjects' = KeptObjects
  BY <1>1 DEF KeptObjects
<1>4. UNCHANGED told => ToldKept'
  BY <1>3 DEF ServiceInv, ToldKept
<1>5. UNCHANGED streams => StreamsKept'
  BY <1>1 DEF ServiceInv, StreamsKept
<1>6. UNCHANGED << clients, loop >> => ReadersKept'
  BY DEF ServiceInv, ReadersKept, SomeoneReads, Reading, Writing
<1>7. UNCHANGED loop => LoopKept' /\ AtRest' /\ AtWork' /\ HeldKnown'
  <2>1. UNCHANGED loop => LoopKept'
    BY DEF ServiceInv, LoopKept
  <2>2. UNCHANGED loop => AtRest'
    BY <1>1 DEF ServiceInv, AtRest
  <2>3. UNCHANGED loop => AtWork'
    BY <1>1 DEF ServiceInv, AtWork, Announced
  <2>4. UNCHANGED loop => HeldKnown'
    BY <1>1 DEF ServiceInv, HeldKnown, Known, Announced
  <2>5. QED BY <2>1, <2>2, <2>3, <2>4
<1>8. UNCHANGED << loop, streams >> => StreamsAreRecorded'
  BY <1>1 DEF ServiceInv, StreamsAreRecorded
<1>9. QED BY <1>2, <1>4, <1>5, <1>6, <1>7, <1>8

LEMMA DecideKeeps ==
  ASSUME ServiceInv, NEW e \in Event, Decide(e)
  PROVE  ServiceInv'
<1> DEFINE q == hotshot.queue
           n == Len(q)
           r == hotshot'.queue
<1>1. /\ hotshot.started /\ hotshot.listened /\ e.first = hotshot.decided + 1
      /\ UNCHANGED << store, loop, clients, streams, told >>
      /\ hotshot' = [ hotshot EXCEPT !.decided = e.last,
                                     !.queue = IF hotshot.listened THEN Append(@, e) ELSE @ ]
      /\ q \in Seq(Event) /\ hotshot.decided \in Nat /\ hotshot.resumed \in Nat
      /\ hotshot \in [ started : BOOLEAN, listened : BOOLEAN, resumed : Nat, decided : Nat, queue : Seq(Event) ]
  BY DEF ServiceInv, HotshotKept, Decide
<1>2. UNCHANGED store /\ loop' = loop /\ clients' = clients /\ streams' = streams /\ told' = told
      /\ ds' = ds /\ durable' = durable
  BY <1>1 DEF store
<1>3. e.first \in Nat /\ e.last \in Nat /\ e.first <= e.last
  BY EventFacts
<1>4. /\ SourceKept' /\ ToldKept' /\ StreamsKept' /\ ReadersKept' /\ LoopKept' /\ AtRest' /\ AtWork'
      /\ HeldKnown' /\ StreamsAreRecorded'
  BY <1>2, SameSource
<1>5. /\ hotshot'.started /\ hotshot'.listened /\ hotshot'.decided = e.last
      /\ hotshot'.resumed = hotshot.resumed /\ r = Append(q, e)
  BY <1>1
<1>6. /\ r \in Seq(Event) /\ Len(r) = n + 1 /\ n \in Nat /\ r[n + 1] = e
      /\ \A i \in 1 .. n : r[i] = q[i]
  BY <1>1, <1>5, AppendProperties, LenProperties
<1>7. HotshotKept'
  <2>1. hotshot' \in [ started : BOOLEAN, listened : BOOLEAN, resumed : Nat, decided : Nat, queue : Seq(Event) ]
    BY <1>1, <1>3, <1>5, <1>6
  <2>2. QED BY <1>5, <2>1 DEF HotshotKept
<1>8. /\ loop.event.last \in Nat
      /\ \A i \in 1 .. n : q[i].first \in Nat /\ q[i].last \in Nat
  BY <1>1, LoopFacts, QueueFacts DEF ServiceInv
<1>9. /\ durable.leaves \in Nat /\ NextPos(ds.leaf_storage) \in Nat
  BY LengthsAre DEF ServiceInv, SourceKept, RecordedIn, SourceInv
<1> DEFINE p == NextPos(ds.leaf_storage)
<1>10. /\ durable.leaves <= hotshot.decided + 1 /\ loop.event.last <= hotshot.decided
       /\ \A i \in 1 .. n : /\ q[i].last <= hotshot.decided
                            /\ \A j \in 1 .. i - 1 : q[j].last < q[i].first
       /\ Running => /\ p <= hotshot.decided + 1
                     /\ \A i \in 1 .. n : loop.event.last < q[i].first /\ p <= q[i].first
       /\ loop.at \in {"lock", "update"} => p <= loop.event.first
  BY DEF ServiceInv, EventsInOrder
<1> HIDE DEF p, n, q, r
<1>11. \A i \in 1 .. n + 1 : i \in 1 .. n \/ i = n + 1
  BY <1>6
<1>12. \A i \in 1 .. n + 1 : /\ r[i].last <= e.last
                             /\ \A j \in 1 .. i - 1 : r[j].last < r[i].first
  <2> DEFINE d == hotshot.decided
  <2>1. \A i \in 1 .. n : r[i].last \in Nat /\ r[i].last <= d
    BY <1>6, <1>8, <1>10
  <2>2. d \in Nat /\ e.first = d + 1
    BY <1>1
  <2> HIDE DEF d
  <2>3. \A x \in Nat : x <= d => x <= e.last /\ x < e.first
    BY <1>3, <2>2
  <2>4. ASSUME NEW i \in 1 .. n PROVE r[i].last <= e.last /\ \A j \in 1 .. i - 1 : r[j].last < r[i].first
    <3>1. r[i].last <= e.last
      BY <2>1, <2>3
    <3>2. \A j \in 1 .. i - 1 : j \in 1 .. n
      BY <1>6
    <3>3. QED BY <1>6, <1>10, <3>1, <3>2
  <2>5. \A j \in 1 .. (n + 1) - 1 : j \in 1 .. n
    BY <1>6
  <2>6. \A j \in 1 .. n : r[j].last < e.first
    BY <2>1, <2>3
  <2>7. r[n + 1].last <= e.last /\ \A j \in 1 .. (n + 1) - 1 : r[j].last < r[n + 1].first
    BY <1>3, <1>6, <2>5, <2>6
  <2>8. QED BY <1>11, <2>4, <2>7
<1>13. Running => /\ p <= e.last + 1
                  /\ \A i \in 1 .. n + 1 : loop.event.last < r[i].first /\ p <= r[i].first
  <2>1. SUFFICES ASSUME Running
                 PROVE  p <= e.last + 1 /\ \A i \in 1 .. n + 1 : loop.event.last < r[i].first /\ p <= r[i].first
    OBVIOUS
  <2>2. p <= e.last + 1
    BY <1>1, <1>3, <1>9, <1>10, <2>1 DEF p
  <2>3. loop.event.last < e.first /\ p <= e.first
    BY <1>1, <1>3, <1>8, <1>9, <1>10, <2>1 DEF p
  <2>4. QED BY <1>6, <1>10, <1>11, <2>1, <2>2, <2>3
<1>14. EventsInOrder'
  <2>1. durable.leaves <= e.last + 1 /\ loop.event.last <= e.last
    BY <1>1, <1>3, <1>8, <1>9, <1>10
  <2>2. /\ Running' <=> Running
        /\ NextPos(ds.leaf_storage)' = p
    BY <1>2 DEF Running, p
  <2>3. QED BY <1>2, <1>5, <1>6, <1>10, <1>12, <1>13, <2>1, <2>2 DEF EventsInOrder, r
<1>15. DecisionsKept'
  <2>1. SUFFICES ASSUME Running, NEW h \in hotshot.resumed .. e.last
                 PROVE  \/ Kept(ds.leaf_storage, h, durable.leaves)
                        \/ h \in Announced
                        \/ \E i \in 1 .. n + 1 : h \in r[i].first .. r[i].last
    BY <1>2, <1>5, <1>6 DEF DecisionsKept, Running, Announced, r
  <2>2. CASE h <= hotshot.decided
    <3>1. h \in hotshot.resumed .. hotshot.decided
      BY <1>1, <1>3, <2>2
    <3>2. \/ Kept(ds.leaf_storage, h, durable.leaves)
          \/ h \in Announced
          \/ \E i \in 1 .. n : h \in q[i].first .. q[i].last
      BY <2>1, <3>1 DEF ServiceInv, DecisionsKept, q, n
    <3>3. \A i \in 1 .. n : i \in 1 .. n + 1
      BY <1>6
    <3>4. QED BY <1>6, <3>2, <3>3
  <2>3. CASE ~ (h <= hotshot.decided)
    <3>1. h \in e.first .. e.last /\ n + 1 \in 1 .. n + 1
      BY <1>1, <1>3, <1>6, <2>3
    <3>2. QED BY <1>6, <3>1
  <2>4. QED BY <2>2, <2>3
<1>16. QED BY <1>4, <1>7, <1>14, <1>15 DEF ServiceInv

LEMMA StartupKeeps ==
  ASSUME ServiceInv, Startup
  PROVE  ServiceInv'
<1>1. /\ UNCHANGED store /\ ds' = ds /\ durable' = durable
      /\ clients' = clients /\ streams' = streams /\ told' = told
      /\ \/ /\ loop.at = "subscribe" /\ loop' = [ loop EXCEPT !.at = "start" ]
            /\ hotshot' = [ hotshot EXCEPT !.listened = TRUE ]
         \/ /\ loop.at = "start" /\ loop' = [ loop EXCEPT !.at = "next" ]
            /\ hotshot' = [ hotshot EXCEPT !.started = TRUE ]
  BY DEF Startup, store
<1>2. SourceKept' /\ ToldKept' /\ StreamsKept'
  BY <1>1, SameSource
<1>3. /\ loop.at \in {"subscribe", "start"} /\ loop'.at \in {"start", "next"}
      /\ loop.event = NoEvent /\ loop'.event = NoEvent
      /\ loop' \in [ at : Steps, event : Event \cup {NoEvent} ]
  BY <1>1 DEF ServiceInv, LoopKept, Steps
<1>4. LoopKept'
  BY <1>3 DEF LoopKept
<1>5. AtRest' /\ AtWork' /\ HeldKnown'
  BY <1>1, <1>3 DEF ServiceInv, AtRest, AtWork, HeldKnown, Quiet, Committing
<1>6. ReadersKept'
  BY <1>1, <1>3 DEF ServiceInv, ReadersKept, SomeoneReads, Reading, Writing
<1>7. StreamsAreRecorded'
  BY <1>1, <1>3 DEF ServiceInv, StreamsAreRecorded
<1>8. hotshot \in [ started : BOOLEAN, listened : BOOLEAN, resumed : Nat, decided : Nat, queue : Seq(Event) ]
  BY DEF ServiceInv, HotshotKept
<1>9. /\ hotshot'.resumed = hotshot.resumed /\ hotshot'.decided = hotshot.decided
      /\ hotshot'.queue = hotshot.queue
  BY <1>1, <1>8
<1>10. HotshotKept'
  BY <1>1, <1>3, <1>8 DEF ServiceInv, HotshotKept
<1>11. EventsInOrder'
  BY <1>1, <1>3, <1>9 DEF ServiceInv, EventsInOrder, Running
<1>12. DecisionsKept'
  BY <1>1, <1>3, <1>9 DEF ServiceInv, DecisionsKept, Running, Announced
<1>13. QED BY <1>2, <1>4, <1>5, <1>6, <1>7, <1>10, <1>11, <1>12 DEF ServiceInv

LEMMA NextEventKeeps ==
  ASSUME ServiceInv, NextEvent
  PROVE  ServiceInv'
<1> DEFINE q == hotshot.queue
           n == Len(q)
           r == hotshot'.queue
           e == Head(q)
           p == NextPos(ds.leaf_storage)
<1>1. /\ UNCHANGED store /\ ds' = ds /\ durable' = durable
      /\ clients' = clients /\ streams' = streams /\ told' = told
      /\ loop.at = "next" /\ q # << >>
      /\ loop' = [ at |-> "lock", event |-> e ]
      /\ hotshot' = [ hotshot EXCEPT !.queue = Tail(@) ]
      /\ hotshot \in [ started : BOOLEAN, listened : BOOLEAN, resumed : Nat, decided : Nat, queue : Seq(Event) ]
      /\ q \in Seq(Event) /\ hotshot.decided \in Nat /\ hotshot.resumed \in Nat
  BY DEF NextEvent, store, ServiceInv, HotshotKept
<1>2. SourceKept' /\ ToldKept' /\ StreamsKept'
  BY <1>1, SameSource
<1>3. /\ r = Tail(q) /\ hotshot'.decided = hotshot.decided /\ hotshot'.resumed = hotshot.resumed
      /\ hotshot'.started = hotshot.started /\ hotshot'.listened = hotshot.listened
  BY <1>1
<1>4. /\ n \in Nat /\ n >= 1 /\ r \in Seq(Event) /\ Len(r) = n - 1
      /\ e = q[1] /\ \A i \in 1 .. n - 1 : r[i] = q[i + 1]
  <2>1. q \in Seq(Event) /\ q # << >>
    BY <1>1
  <2> HIDE DEF q
  <2>2. Len(q) \in Nat /\ Len(q) >= 1 /\ Tail(q) \in Seq(Event) /\ Len(Tail(q)) = Len(q) - 1
        /\ Head(q) = q[1] /\ \A i \in 1 .. Len(q) - 1 : Tail(q)[i] = q[i + 1]
    BY <2>1, HeadTailProperties, LenProperties, EmptySeq
  <2>3. QED BY <1>3, <2>2
<1>5. \A i \in 1 .. n : q[i] \in Event /\ q[i].first \in Nat /\ q[i].last \in Nat /\ 0 < q[i].first
  BY <1>1, QueueFacts
<1>6. /\ durable.leaves <= hotshot.decided + 1
      /\ \A i \in 1 .. n : /\ q[i].last <= hotshot.decided
                           /\ \A j \in 1 .. i - 1 : q[j].last < q[i].first
      /\ p <= hotshot.decided + 1
      /\ \A i \in 1 .. n : p <= q[i].first
  BY <1>1 DEF ServiceInv, EventsInOrder, Running
<1>7. loop'.at = "lock" /\ loop'.event = e /\ e \in Event
  <2>1. 1 \in 1 .. n
    BY <1>4
  <2>2. q[1] \in Event
    BY <1>5, <2>1
  <2> HIDE DEF e
  <2>3. QED BY <1>1, <1>4, <2>2
<1>8. LoopKept'
  BY <1>1, <1>7 DEF LoopKept, Steps
<1> HIDE DEF q, n, r, e, p
<1>9. AtRest' /\ AtWork' /\ HeldKnown'
  BY <1>1, <1>7 DEF ServiceInv, AtRest, AtWork, HeldKnown, Quiet, Committing
<1>10. ReadersKept'
  BY <1>1, <1>7 DEF ServiceInv, ReadersKept, SomeoneReads, Reading, Writing
<1>11. StreamsAreRecorded'
  BY <1>1, <1>7 DEF ServiceInv, StreamsAreRecorded
<1>12. HotshotKept'
  <2>1. hotshot' \in [ started : BOOLEAN, listened : BOOLEAN, resumed : Nat, decided : Nat, queue : Seq(Event) ]
    BY <1>1, <1>4 DEF r, q
  <2>2. QED BY <1>1, <1>3, <1>7, <2>1 DEF ServiceInv, HotshotKept
<1>13. \A i \in 1 .. n - 1 : i + 1 \in 1 .. n
  BY <1>4
<1>14. EventsInOrder'
  <2>1. \A i \in 1 .. n - 1 : /\ r[i].last <= hotshot.decided
                              /\ \A j \in 1 .. i - 1 : r[j].last < r[i].first
    <3>1. SUFFICES ASSUME NEW i \in 1 .. n - 1
                   PROVE  r[i].last <= hotshot.decided /\ \A j \in 1 .. i - 1 : r[j].last < r[i].first
      OBVIOUS
    <3>2. r[i] = q[i + 1] /\ i + 1 \in 1 .. n
      BY <1>4, <1>13
    <3>3. \A j \in 1 .. i - 1 : j \in 1 .. n - 1 /\ j + 1 \in 1 .. (i + 1) - 1
      BY <1>4
    <3>4. \A j \in 1 .. i - 1 : r[j] = q[j + 1] /\ q[j + 1].last < q[i + 1].first
      BY <1>4, <1>6, <3>2, <3>3
    <3>5. QED BY <1>6, <3>2, <3>4
  <2>2. \A i \in 1 .. n - 1 : e.last < r[i].first /\ p <= r[i].first
    <3>1. SUFFICES ASSUME NEW i \in 1 .. n - 1 PROVE e.last < r[i].first /\ p <= r[i].first
      OBVIOUS
    <3>2. r[i] = q[i + 1] /\ i + 1 \in 1 .. n /\ 1 \in 1 .. (i + 1) - 1
      BY <1>4, <1>13
    <3>3. q[1].last < q[i + 1].first /\ p <= q[i + 1].first
      BY <1>6, <3>2
    <3>4. QED BY <1>4, <3>2, <3>3
  <2>3. 1 \in 1 .. n
    BY <1>4
  <2>4. e.last <= hotshot.decided /\ p <= e.first
    BY <1>4, <1>6, <2>3
  <2>5. NextPos(ds.leaf_storage)' = p
    BY <1>1 DEF p
  <2>6. QED BY <1>1, <1>3, <1>4, <1>6, <1>7, <2>1, <2>2, <2>4, <2>5 DEF EventsInOrder, r
<1>15. DecisionsKept'
  <2>1. SUFFICES ASSUME NEW h \in hotshot.resumed .. hotshot.decided
                 PROVE  \/ Kept(ds.leaf_storage, h, durable.leaves)
                        \/ h \in e.first .. e.last
                        \/ \E i \in 1 .. n - 1 : h \in r[i].first .. r[i].last
    BY <1>1, <1>3, <1>4, <1>7 DEF DecisionsKept, Announced, r
  <2>2. Announced = {}
    BY <1>1, LoopFacts DEF ServiceInv, LoopKept
  <2>3. \/ Kept(ds.leaf_storage, h, durable.leaves)
        \/ \E i \in 1 .. n : h \in q[i].first .. q[i].last
    BY <1>1, <2>2 DEF ServiceInv, DecisionsKept, Running, q, n
  <2>4. ASSUME NEW i \in 1 .. n, h \in q[i].first .. q[i].last
        PROVE  h \in e.first .. e.last \/ \E j \in 1 .. n - 1 : h \in r[j].first .. r[j].last
    <3>1. CASE i = 1
      BY <1>4, <2>4, <3>1
    <3>2. CASE i # 1
      <4>1. i - 1 \in 1 .. n - 1 /\ (i - 1) + 1 = i
        BY <1>4, <3>2
      <4>2. r[i - 1] = q[i]
        BY <1>4, <4>1
      <4>3. QED BY <2>4, <4>1, <4>2
    <3>3. QED BY <3>1, <3>2
  <2>5. QED BY <2>3, <2>4
<1>16. QED BY <1>2, <1>8, <1>9, <1>10, <1>11, <1>12, <1>14, <1>15 DEF ServiceInv

LEMMA LockKeeps ==
  ASSUME ServiceInv, Lock
  PROVE  ServiceInv'
<1>1. /\ UNCHANGED store /\ ds' = ds /\ durable' = durable /\ hotshot' = hotshot
      /\ clients' = clients /\ streams' = streams /\ told' = told
      /\ loop.at = "lock" /\ loop' = [ loop EXCEPT !.at = "update" ] /\ ~ SomeoneReads
  BY DEF Lock, store, MayWrite, SomeoneReads
<1>2. SourceKept' /\ ToldKept' /\ StreamsKept'
  BY <1>1, SameSource
<1>3. loop'.at = "update" /\ loop'.event = loop.event /\ LoopKept'
  BY <1>1 DEF ServiceInv, LoopKept, Steps
<1>4. AtRest' /\ AtWork' /\ HeldKnown'
  BY <1>1, <1>3 DEF ServiceInv, AtRest, AtWork, HeldKnown, Quiet, Committing
<1>5. ReadersKept'
  BY <1>1 DEF ServiceInv, ReadersKept, SomeoneReads, Reading
<1>6. StreamsAreRecorded'
  BY <1>1, <1>3 DEF ServiceInv, StreamsAreRecorded
<1>7. HotshotKept'
  BY <1>1, <1>3 DEF ServiceInv, HotshotKept
<1>8. EventsInOrder'
  BY <1>1, <1>3 DEF ServiceInv, EventsInOrder, Running
<1>9. DecisionsKept'
  BY <1>1, <1>3 DEF ServiceInv, DecisionsKept, Running, Announced
<1>10. QED BY <1>2, <1>3, <1>4, <1>5, <1>6, <1>7, <1>8, <1>9 DEF ServiceInv

LEMMA CommitFailsKeeps ==
  ASSUME ServiceInv, CommitFails
  PROVE  ServiceInv'
<1>1. /\ UNCHANGED store /\ ds' = ds /\ durable' = durable /\ hotshot' = hotshot
      /\ clients' = clients /\ streams' = streams /\ told' = told
      /\ loop.at \in Committing /\ loop' = [ loop EXCEPT !.at = "stopped" ]
  BY DEF CommitFails, store, Committing
<1>2. SourceKept' /\ ToldKept' /\ StreamsKept'
  BY <1>1, SameSource
<1>3. loop'.at = "stopped" /\ loop'.event = loop.event /\ LoopKept'
  BY <1>1 DEF ServiceInv, LoopKept, Steps, Committing
<1>4. AtRest' /\ AtWork'
  BY <1>3 DEF AtRest, AtWork, Quiet, Committing
<1>5. HeldKnown'
  BY <1>1, <1>3 DEF ServiceInv, HeldKnown, Known, Announced, Quiet, Committing
<1>6. ReadersKept'
  BY <1>1, <1>3 DEF ServiceInv, ReadersKept, SomeoneReads, Reading, Writing
<1>7. StreamsAreRecorded'
  BY <1>1, <1>3 DEF ServiceInv, StreamsAreRecorded
<1>8. HotshotKept'
  BY <1>1, <1>3 DEF ServiceInv, HotshotKept
<1>9. EventsInOrder'
  BY <1>1, <1>3 DEF ServiceInv, EventsInOrder, Running
<1>10. DecisionsKept'
  BY <1>3 DEF DecisionsKept, Running
<1>11. QED BY <1>2, <1>3, <1>4, <1>5, <1>6, <1>7, <1>8, <1>9, <1>10 DEF ServiceInv

LEMMA RequestKeeps ==
  ASSUME ServiceInv, NEW c \in Clients, Request(c)
  PROVE  ServiceInv'
<1>1. /\ UNCHANGED store /\ ds' = ds /\ durable' = durable /\ hotshot' = hotshot /\ loop' = loop
      /\ streams' = streams /\ told' = told
      /\ ~ Writing /\ clients' = [ clients EXCEPT ![c] = "reading" ]
  BY DEF Request, store, MayRead
<1>2. /\ SourceKept' /\ ToldKept' /\ StreamsKept' /\ LoopKept' /\ AtRest' /\ AtWork' /\ HeldKnown'
      /\ StreamsAreRecorded'
  BY <1>1, SameSource
<1>3. ReadersKept'
  BY <1>1 DEF ServiceInv, ReadersKept, Writing
<1>4. HotshotKept' /\ EventsInOrder' /\ DecisionsKept'
  BY <1>1 DEF ServiceInv, HotshotKept, EventsInOrder, DecisionsKept, Running, Announced
<1>5. QED BY <1>2, <1>3, <1>4 DEF ServiceInv

\* What a request is told while the loop runs is kept.
LEMMA RespondKeeps ==
  ASSUME ServiceInv, NEW c \in Clients, Respond(c)
  PROVE  ServiceInv'
<1>1. /\ UNCHANGED store /\ ds' = ds /\ durable' = durable /\ hotshot' = hotshot /\ loop' = loop
      /\ streams' = streams /\ told' = Told
      /\ SomeoneReads /\ clients' = [ clients EXCEPT ![c] = "idle" ]
  BY DEF Respond, store, SomeoneReads
<1>2. /\ SourceKept' /\ StreamsKept' /\ LoopKept' /\ AtRest' /\ AtWork' /\ HeldKnown'
      /\ StreamsAreRecorded'
  BY <1>1, SameSource
<1>3. ReadersKept'
  BY <1>1 DEF ServiceInv, ReadersKept, SomeoneReads, Reading, Writing
<1>4. ToldKept'
  <2>1. KeptObjects' = KeptObjects
    BY <1>1 DEF KeptObjects
  <2>2. loop.at = "stopped" \/ loop.at \in Quiet
    BY <1>1 DEF ServiceInv, LoopKept, Steps, ReadersKept, Writing, Quiet
  <2>3. Told \subseteq KeptObjects
    BY <2>2, VisibleKept DEF ServiceInv, ToldKept, Told
  <2>4. QED BY <1>1, <2>1, <2>3 DEF ToldKept
<1>5. HotshotKept' /\ EventsInOrder' /\ DecisionsKept'
  BY <1>1 DEF ServiceInv, HotshotKept, EventsInOrder, DecisionsKept, Running, Announced
<1>6. QED BY <1>2, <1>3, <1>4, <1>5 DEF ServiceInv

\* A new stream begins with objects that are kept: its client held the lock.
LEMMA StreamKeeps ==
  ASSUME ServiceInv, NEW c \in Clients, NEW kind \in {"leaf", "block"}, NEW from \in Starts,
         Stream(c, kind, from)
  PROVE  ServiceInv'
<1> DEFINE l == IF kind = "leaf" THEN ds.leaf_storage ELSE ds.block_storage
           n == IF kind = "leaf" THEN durable.leaves ELSE durable.blocks
           response == IF kind = "leaf" THEN StreamLeavesRequest(ds, from) ELSE StreamBlocksRequest(ds, from)
           s == IF response.status # 200 THEN NoStream
                ELSE [ kind |-> kind, skip |-> response.body.skip, items |-> response.body.items ]
           new == [ kind |-> kind, skip |-> Skipped(l, from), items |-> Prefix(l, from) ]
<1>1. /\ UNCHANGED store /\ ds' = ds /\ durable' = durable /\ hotshot' = hotshot /\ loop' = loop
      /\ told' = told /\ SomeoneReads /\ clients' = [ clients EXCEPT ![c] = "idle" ]
      /\ streams' = [ streams EXCEPT ![c] = s ]
  BY DEF Stream, store, SomeoneReads
<1>2. SourceKept' /\ ToldKept' /\ LoopKept' /\ AtRest' /\ AtWork' /\ HeldKnown'
  BY <1>1, SameSource
<1>3. ReadersKept'
  BY <1>1 DEF ServiceInv, ReadersKept, SomeoneReads, Reading, Writing
<1>4. HotshotKept' /\ EventsInOrder' /\ DecisionsKept'
  BY <1>1 DEF ServiceInv, HotshotKept, EventsInOrder, DecisionsKept, Running, Announced
<1>5. LogInv(l) /\ from \in Nat
  BY StartsAssumption DEF ServiceInv, SourceKept, SourceInv, LogsInv
<1>6. s = NoStream \/ (s = new /\ CanSubscribe(l, from))
  <2> DEFINE subscription == Subscribe(l, from)
  <2>1. response = StreamRequest(subscription)
    BY DEF StreamLeavesRequest, StreamBlocksRequest, SubscribeLeaves, SubscribeBlocks
  <2> HIDE DEF subscription, response
  <2>2. response.status = 200 => subscription # Missing /\ response.body = subscription
    BY <2>1 DEF StreamRequest, Fails, OK
  <2>3. subscription # Missing =>
          /\ CanSubscribe(l, from)
          /\ subscription.skip = Skipped(l, from) /\ subscription.items = Prefix(l, from)
    BY DEF subscription, Subscribe
  <2>4. QED BY <2>2, <2>3
<1>7. loop.at = "stopped" \/ loop.at \in Quiet
  BY <1>1 DEF ServiceInv, LoopKept, Steps, ReadersKept, Writing, Quiet
<1>8. \A h \in Held(l) : h # None =>
        h \in Heights /\ (h < n \/ h = 0 \/ (loop.at = "stopped" /\ h \in Announced))
  <2>1. \A h \in Held(l) : h # None => h \in Heights
    BY HeldOfLedger DEF ServiceInv, SourceKept
  <2>2. CASE loop.at \in Quiet
    <3>1. \A h \in Held(l) : h # None => Kept(l, h, n)
      BY <2>2, HeldAtRest DEF ServiceInv
    <3>2. QED BY <2>1, <3>1 DEF Kept
  <2>3. CASE loop.at = "stopped"
    <3>1. loop.at \notin Quiet
      BY <2>3 DEF Quiet
    <3>2. \A h \in Held(l) : Known(h, n)
      BY <3>1 DEF ServiceInv, HeldKnown
    <3>3. QED BY <2>1, <2>3, <3>2 DEF Known
  <2>4. QED BY <1>7, <2>2, <2>3
<1> HIDE DEF s, response
<1>9. ASSUME CanSubscribe(l, from)
      PROVE  /\ new \in StreamType
             /\ \A i \in DOMAIN new.items :
                  /\ new.items[i] < Len(l.store)
                  /\ \/ new.items[i] < n \/ new.items[i] = 0
                     \/ loop.at = "stopped" /\ new.items[i] \in Announced
  <2> DEFINE items == Prefix(l, from)
  <2>1. items \in Seq(Nat) /\ Skipped(l, from) \in Nat
    BY <1>5, <1>9, PrefixInOrder
  <2>2. \A i \in 1 .. Len(items) : items[i] \in Nat /\ items[i] \in Held(l) /\ items[i] < Len(l.store)
    BY <1>5, <1>9, PrefixHeld
  <2>3. new.items = items /\ new.skip = Skipped(l, from) /\ new.kind = kind
    OBVIOUS
  <2> HIDE DEF items, l, n
  <2>4. DOMAIN items = 1 .. Len(items) /\ Len(items) \in Nat
    BY <2>1, LenProperties
  <2>5. \A i \in 1 .. Len(items) : items[i] # None
    BY <2>2, NoneAssumption
  <2>6. \A i \in 1 .. Len(items) :
          /\ items[i] \in Heights
          /\ items[i] < n \/ items[i] = 0 \/ (loop.at = "stopped" /\ items[i] \in Announced)
    BY <1>8, <2>2, <2>5
  <2>7. items \in Seq(Heights)
    BY <2>1, <2>4, <2>6, SeqDef
  <2>8. new \in StreamType
    BY <2>1, <2>7 DEF StreamType, items
  <2>9. QED BY <2>2, <2>3, <2>4, <2>6, <2>8
<1>10. DOMAIN streams = Clients /\ DOMAIN streams' = Clients
       /\ streams'[c] = s /\ \A o \in Clients \ {c} : streams'[o] = streams[o]
  BY <1>1 DEF ServiceInv, StreamsKept
<1> HIDE DEF new
<1>11. new.kind = kind
  BY DEF new
<1>12. StreamsKept'
  <2>1. SUFFICES ASSUME NEW o \in Clients, streams'[o] # NoStream
                 PROVE  /\ streams'[o] \in StreamType
                        /\ \A i \in DOMAIN streams'[o].items :
                             streams'[o].items[i] < IF streams'[o].kind = "leaf"
                                                    THEN Len(ds.leaf_storage.store)
                                                    ELSE Len(ds.block_storage.store)
    BY <1>1, <1>10 DEF StreamsKept
  <2>2. CASE o = c
    <3>1. streams'[o] = new /\ CanSubscribe(l, from)
      BY <1>6, <1>10, <2>1, <2>2
    <3>2. QED BY <1>9, <1>11, <3>1
  <2>3. CASE o # c
    BY <1>10, <2>1, <2>3 DEF ServiceInv, StreamsKept
  <2>4. QED BY <2>2, <2>3
<1>13. StreamsAreRecorded'
  <2>1. SUFFICES ASSUME NEW o \in Clients, streams'[o] # NoStream,
                        NEW i \in DOMAIN streams'[o].items
                 PROVE  LET h == streams'[o].items[i] IN
                        \/ h < IF streams'[o].kind = "leaf" THEN durable.leaves ELSE durable.blocks
                        \/ h = 0
                        \/ loop.at \in {"blocks", "record", "stopped"} /\ h \in Announced
    BY <1>1 DEF StreamsAreRecorded, Announced
  <2>2. CASE o = c
    <3>1. streams'[o] = new /\ CanSubscribe(l, from)
      BY <1>6, <1>10, <2>1, <2>2
    <3>2. QED BY <1>9, <1>11, <2>1, <3>1
  <2>3. CASE o # c
    BY <1>10, <2>1, <2>3 DEF ServiceInv, StreamsAreRecorded, Announced
  <2>4. QED BY <2>2, <2>3
<1>14. QED BY <1>2, <1>3, <1>4, <1>12, <1>13 DEF ServiceInv

-----------------------------------------------------------------------------
(* Steps of the update task that change the data source. *)

\* An update, whole or not, leaves the stores as they were.
LEMMA SameStoresKeep ==
  ASSUME ServiceInv, SourceInv(ds'), SameStores(ds, ds'),
         durable' = durable, told' = told, streams' = streams
  PROVE  /\ SourceKept' /\ ToldKept' /\ StreamsKept'
         /\ KeptObjects' = KeptObjects
         /\ \A h : Kept(ds'.leaf_storage, h, durable.leaves) <=> Kept(ds.leaf_storage, h, durable.leaves)
<1>1. ds'.leaf_storage.store = ds.leaf_storage.store /\ ds'.block_storage.store = ds.block_storage.store
  BY DEF SameStores
<1>2. SourceKept'
  <2>1. StoresGrow(ds, ds')
    BY ExtendsItself DEF ServiceInv, SourceKept, SourceInv
  <2>2. HasGenesis(ds') /\ RecordedIn(ds', durable)
    BY <2>1, GrownRecord DEF ServiceInv, SourceKept
  <2>3. GenesisStored(ds') /\ (durable.leaves > 0 => ds'.leaf_storage.store[durable.leaves] # None)
    BY <1>1 DEF ServiceInv, SourceKept, GenesisStored
  <2>4. QED BY <2>2, <2>3 DEF SourceKept
<1>3. /\ \A h : Kept(ds'.leaf_storage, h, durable.leaves) <=> Kept(ds.leaf_storage, h, durable.leaves)
      /\ \A h : Kept(ds'.block_storage, h, durable.blocks) <=> Kept(ds.block_storage, h, durable.blocks)
  BY <1>1 DEF Kept
<1>4. KeptObjects' = KeptObjects
  BY <1>3 DEF KeptObjects
<1>5. ToldKept'
  BY <1>4 DEF ServiceInv, ToldKept
<1>6. StreamsKept'
  BY <1>1 DEF ServiceInv, StreamsKept
<1>7. QED BY <1>2, <1>3, <1>4, <1>5, <1>6

\* What the logs hold afterwards is known.
LEMMA BroughtKnown ==
  ASSUME ServiceInv, loop.at = "update", Brings(ds, ds', Announced)
  PROVE  /\ \A h \in Held(ds'.leaf_storage)  : Known(h, durable.leaves)
         /\ \A h \in Held(ds'.block_storage) : Known(h, durable.blocks)
<1>1. /\ \A h \in Held(ds.leaf_storage) : h # None => Kept(ds.leaf_storage, h, durable.leaves)
      /\ \A h \in Held(ds.block_storage) : h # None => Kept(ds.block_storage, h, durable.blocks)
  BY HeldAtRest DEF ServiceInv, Quiet
<1>2. QED BY <1>1 DEF Brings, Known, Kept

LEMMA UpdateStepKeeps ==
  ASSUME ServiceInv, Update
  PROVE  ServiceInv'
<1> DEFINE e == loop.event
           p == NextPos(ds.leaf_storage)
           q == hotshot.queue
<1>1. /\ loop.at = "update" /\ ds' = UpdateFrom(ds, e) /\ loop' = [ loop EXCEPT !.at = "leaves" ]
      /\ durable' = durable /\ hotshot' = hotshot /\ clients' = clients /\ streams' = streams /\ told' = told
  BY DEF Update
<1>2. loop'.at = "leaves" /\ loop'.event = e /\ e \in Event /\ LoopKept' /\ Announced' = Announced
  BY <1>1 DEF ServiceInv, LoopKept, Steps, Announced
<1>3. SourceInv(ds) /\ CachesAreWritten(ds) /\ e.first >= p
  <2>1. p <= e.first
    BY <1>1 DEF ServiceInv, EventsInOrder
  <2>2. e.first \in Nat /\ p \in Nat
    BY <1>2, EventFacts, LengthsAre DEF ServiceInv, SourceKept, SourceInv
  <2> HIDE DEF p, e
  <2>3. e.first >= p
    BY <2>1, <2>2
  <2>4. SourceInv(ds) /\ CachesAreWritten(ds)
    BY <1>1 DEF ServiceInv, SourceKept, AtRest, Quiet, BothSettled, Settled, CachesAreWritten
  <2>5. QED BY <2>3, <2>4
<1>4. /\ SourceInv(ds') /\ SameStores(ds, ds')
      /\ Brings(ds, ds', Announced) /\ CachesAreWritten(ds')
      /\ NextPos(ds'.leaf_storage) = e.last + 1
      /\ Announced \subseteq WrittenIn(ds'.leaf_storage)
  <2> DEFINE y == UpdateFrom(ds, e)
  <2>1. SourceInv(y) /\ SameStores(ds, y)
    BY <1>2, <1>3, UpdateKeeps
  <2>2. /\ Brings(ds, y, e.first .. e.last)
        /\ CachesAreWritten(y) /\ NextPos(y.leaf_storage) = e.last + 1
        /\ e.first .. e.last \subseteq WrittenIn(y.leaf_storage)
    BY <1>2, <1>3, UpdateInOrder
  <2> HIDE DEF y
  <2>3. ds' = y
    BY <1>1 DEF y
  <2>4. QED BY <2>1, <2>2, <2>3 DEF Announced
<1>5. /\ SourceKept' /\ ToldKept' /\ StreamsKept'
      /\ \A h : Kept(ds'.leaf_storage, h, durable.leaves) <=> Kept(ds.leaf_storage, h, durable.leaves)
  BY <1>1, <1>4, SameStoresKeep
<1>6. AtRest' /\ AtWork'
  BY <1>2, <1>4 DEF AtRest, AtWork, Quiet
<1>7. HeldKnown'
  <2>1. /\ \A h \in Held(ds'.leaf_storage)  : Known(h, durable.leaves)
        /\ \A h \in Held(ds'.block_storage) : Known(h, durable.blocks)
    BY <1>1, <1>4, BroughtKnown
  <2>2. QED BY <1>1, <1>2, <2>1 DEF HeldKnown, Known
<1>8. ReadersKept'
  BY <1>1, <1>2 DEF ServiceInv, ReadersKept, SomeoneReads, Reading, Writing
<1>9. StreamsAreRecorded'
  BY <1>1, <1>2 DEF ServiceInv, StreamsAreRecorded
<1>10. HotshotKept'
  BY <1>1, <1>2 DEF ServiceInv, HotshotKept
<1>11. DecisionsKept'
  BY <1>1, <1>2, <1>5 DEF ServiceInv, DecisionsKept, Running
<1>12. EventsInOrder'
  <2>1. /\ durable.leaves <= hotshot.decided + 1 /\ e.last <= hotshot.decided
        /\ \A i \in 1 .. Len(q) : /\ q[i].last <= hotshot.decided
                                  /\ \A j \in 1 .. i - 1 : q[j].last < q[i].first
        /\ \A i \in 1 .. Len(q) : e.last < q[i].first
    BY <1>1 DEF ServiceInv, EventsInOrder, Running
  <2>2. e.last \in Nat /\ hotshot.decided \in Nat /\ \A i \in 1 .. Len(q) : q[i].first \in Nat
    BY <1>2, EventFacts, QueueFacts DEF ServiceInv, HotshotKept
  <2> HIDE DEF e, q
  <2>3. e.last + 1 <= hotshot.decided + 1 /\ \A i \in 1 .. Len(q) : e.last + 1 <= q[i].first
    BY <2>1, <2>2
  <2>4. NextPos(ds.leaf_storage)' = e.last + 1
    BY <1>4
  <2>5. QED BY <1>1, <1>2, <2>1, <2>3, <2>4 DEF EventsInOrder, q, e
<1>13. QED BY <1>2, <1>5, <1>6, <1>7, <1>8, <1>9, <1>10, <1>11, <1>12 DEF ServiceInv

LEMMA UpdateFailsStepKeeps ==
  ASSUME ServiceInv, UpdateFails
  PROVE  ServiceInv'
<1> DEFINE e == loop.event
<1>1. /\ loop.at = "update" /\ ds' \in FailedUpdates(ds, e) /\ loop' = [ loop EXCEPT !.at = "stopped" ]
      /\ durable' = durable /\ hotshot' = hotshot /\ clients' = clients /\ streams' = streams /\ told' = told
  BY DEF UpdateFails
<1>2. loop'.at = "stopped" /\ loop'.event = e /\ e \in Event /\ LoopKept'
  BY <1>1 DEF ServiceInv, LoopKept, Steps
<1>3. SourceInv(ds') /\ SameStores(ds, ds') /\ Brings(ds, ds', Announced)
  BY <1>1, <1>2, UpdateFailsKeeps, FailedUpdateBrings DEF ServiceInv, SourceKept, Announced
<1>4. SourceKept' /\ ToldKept' /\ StreamsKept'
  BY <1>1, <1>3, SameStoresKeep
<1>5. AtRest' /\ AtWork' /\ DecisionsKept'
  BY <1>2 DEF AtRest, AtWork, DecisionsKept, Quiet, Committing, Running
<1>6. HeldKnown'
  <2>1. /\ \A h \in Held(ds'.leaf_storage)  : Known(h, durable.leaves)
        /\ \A h \in Held(ds'.block_storage) : Known(h, durable.blocks)
    BY <1>1, <1>3, BroughtKnown
  <2>2. QED BY <1>1, <1>2, <2>1 DEF HeldKnown, Known, Announced
<1>7. ReadersKept'
  BY <1>1, <1>2 DEF ServiceInv, ReadersKept, SomeoneReads, Reading, Writing
<1>8. StreamsAreRecorded'
  BY <1>1, <1>2 DEF ServiceInv, StreamsAreRecorded
<1>9. HotshotKept' /\ EventsInOrder'
  BY <1>1, <1>2 DEF ServiceInv, HotshotKept, EventsInOrder, Running
<1>10. QED BY <1>2, <1>4, <1>5, <1>6, <1>7, <1>8, <1>9 DEF ServiceInv

-----------------------------------------------------------------------------
(* Steps of the commit. *)

LogOf(d, kind) == IF kind = "leaf" THEN d.leaf_storage ELSE d.block_storage

RecordOf(kind) == IF kind = "leaf" THEN durable.leaves ELSE durable.blocks

\* What is announced comes behind what its streams have, less what they skip.
LEMMA AnnouncedItems ==
  ASSUME StreamsKept, NEW kind, NEW log, Broadcast(log) \in Seq(Heights), Announce(kind, log),
         NEW c \in Clients, streams'[c] # NoStream
  PROVE  /\ streams[c] # NoStream /\ streams'[c] \in StreamType /\ streams'[c].kind = streams[c].kind
         /\ streams[c].kind # kind => streams'[c] = streams[c]
         /\ Entries(streams'[c].items) \subseteq
              Entries(streams[c].items) \cup IF streams[c].kind = kind THEN Entries(Broadcast(log)) ELSE {}
<1> DEFINE s == streams[c]
           t == streams'[c]
           sent == Broadcast(log)
           n == Len(sent)
           skip == IF s.skip < n THEN s.skip ELSE n
           rest == SubSeq(sent, skip + 1, n)
           more == [ s EXCEPT !.skip = @ - skip, !.items = @ \o rest ]
<1>1. t = IF s = NoStream THEN NoStream ELSE IF s.kind # kind THEN s ELSE more
  BY DEF Announce
<1>2. s # NoStream
  BY <1>1
<1>3. s \in StreamType
  BY <1>2 DEF StreamsKept
<1>4. CASE s.kind # kind
  BY <1>1, <1>2, <1>3, <1>4
<1>5. CASE s.kind = kind
  <2>1. t = more
    BY <1>1, <1>2, <1>5
  <2>2. sent \in Seq(Heights) /\ s.items \in Seq(Heights) /\ s.skip \in Nat /\ s.kind \in {"leaf", "block"}
    BY <1>3 DEF StreamType
  <2>3. n \in Nat
    BY <2>2, LenProperties
  <2> HIDE DEF n, sent, s
  <2>4. skip \in Nat /\ s.skip - skip \in Nat /\ skip + 1 \in 1 .. n + 1 /\ n \in 0 .. n
    BY <2>2, <2>3
  <2> HIDE DEF skip
  <2>5. Heights \subseteq Entry
    BY HeightsAreNatural DEF Entry
  <2>6. sent \in Seq(Entry) /\ s.items \in Seq(Entry)
    BY <2>2, <2>5, SeqMonotonic
  <2>7. rest \in Seq(Heights) /\ rest \in Seq(Entry) /\ Entries(rest) \subseteq Entries(sent)
    <3>1. rest \in Seq(Heights)
      <4>1. skip + 1 \in 1 .. Len(sent) + 1 /\ n = Len(sent)
        BY <2>4 DEF n
      <4>2. QED BY <2>2, <2>3, <2>4, <4>1, SubSeqProperties
    <3>2. rest \in Seq(Entry)
      BY <2>5, <3>1, SeqMonotonic
    <3>3. Entries(rest) \subseteq Entries(sent)
      BY <2>4, <2>6, EntriesSub DEF n
    <3>4. QED BY <3>1, <3>2, <3>3
  <2> HIDE DEF rest
  <2>8. Entries(s.items \o rest) = Entries(s.items) \cup Entries(rest)
    BY <2>6, <2>7, EntriesConcat
  <2>9. s.items \o rest \in Seq(Heights)
    BY <2>2, <2>7, ConcatProperties
  <2>10. t \in StreamType /\ t.kind = s.kind /\ t.items = s.items \o rest
    <3>1. s \in StreamType
      BY <1>3
    <3>2. QED BY <2>1, <2>2, <2>4, <2>9, <3>1 DEF StreamType
  <2>11. QED BY <1>2, <1>5, <2>7, <2>8, <2>10 DEF s, sent
<1>6. QED BY <1>4, <1>5

\* Stores that grow keep what is in them.
LEMMA GrownSource ==
  ASSUME SourceKept, ToldKept, SourceInv(ds'), StoresGrow(ds, ds'), durable' = durable, told' = told
  PROVE  /\ SourceKept' /\ ToldKept'
         /\ \A h \in Nat : Kept(ds.leaf_storage, h, durable.leaves) => Kept(ds'.leaf_storage, h, durable.leaves)
<1> DEFINE l == ds.leaf_storage
           b == ds.block_storage
           m == ds'.leaf_storage
           c == ds'.block_storage
<1>1. /\ LogInv(l) /\ LogInv(b) /\ LogInv(m) /\ LogInv(c) /\ Extends(m.store, l.store) /\ Extends(c.store, b.store)
      /\ durable.leaves \in Nat /\ durable.blocks \in Nat
      /\ Len(l.store) \in Nat /\ Len(b.store) \in Nat
  BY LengthsAre DEF SourceKept, SourceInv, LogsInv, StoresGrow, RecordedIn
<1>2. HasGenesis(ds') /\ RecordedIn(ds', durable)
  BY GrownRecord DEF SourceKept
<1>3. m.store[1] = l.store[1] /\ c.store[1] = b.store[1]
      /\ (durable.leaves > 0 => m.store[durable.leaves] = l.store[durable.leaves])
  <2> DEFINE nl == Len(l.store)
             nb == Len(b.store)
  <2>1. nl \in Nat /\ nb \in Nat /\ nl >= 1 /\ nb >= 1 /\ durable.leaves <= nl
    BY <1>1 DEF SourceKept, HasGenesis, RecordedIn
  <2>2. /\ \A k \in 1 .. nl : m.store[k] = l.store[k]
        /\ \A k \in 1 .. nb : c.store[k] = b.store[k]
    BY <1>1 DEF Extends
  <2> HIDE DEF nl, nb, m, c, l, b
  <2>3. 1 \in 1 .. nl /\ 1 \in 1 .. nb /\ (durable.leaves > 0 => durable.leaves \in 1 .. nl)
    BY <1>1, <2>1
  <2>4. QED BY <2>2, <2>3
<1>4. SourceKept'
  BY <1>2, <1>3 DEF SourceKept, GenesisStored
<1>5. /\ \A h \in Nat : Kept(l, h, durable.leaves) => Kept(m, h, durable.leaves)
      /\ \A h \in Nat : Kept(b, h, durable.blocks) => Kept(c, h, durable.blocks)
  <2>1. durable.leaves <= durable.leaves /\ durable.blocks <= durable.blocks
    BY <1>1
  <2>2. QED BY <1>1, <2>1, KeptGrows
<1>6. KeptObjects \subseteq KeptObjects'
  BY <1>5, HeightsAreNatural DEF KeptObjects
<1>7. ToldKept'
  BY <1>6 DEF ToldKept
<1>8. QED BY <1>4, <1>5, <1>7

\* A commit of either log: what it announces was held, and is stored now.
LEMMA CommitStepKeeps ==
  ASSUME ServiceInv, NEW kind \in {"leaf", "block"}, NEW other \in {"leaf", "block"}, kind # other,
         loop.at \in {"leaves", "blocks"}, loop'.at \in {"blocks", "record"}, loop'.event = loop.event,
         loop' \in [ at : Steps, event : Event \cup {NoEvent} ],
         SourceInv(ds'), StoresGrow(ds, ds'),
         LogOf(ds', kind) = CommitVersion(LogOf(ds, kind)), LogOf(ds', other) = LogOf(ds, other),
         Announce(kind, LogOf(ds, kind)),
         durable' = durable, hotshot' = hotshot, clients' = clients, told' = told
  PROVE  /\ SourceKept' /\ LoopKept' /\ AtRest' /\ HeldKnown'
         /\ HotshotKept' /\ EventsInOrder' /\ DecisionsKept'
         /\ ReadersKept' /\ ToldKept' /\ StreamsKept' /\ StreamsAreRecorded'
<1> DEFINE l == LogOf(ds, kind)
           m == LogOf(ds', kind)
           sent == Broadcast(l)
<1>1. LogInv(l) /\ LogInv(m) /\ m = CommitVersion(l)
  BY DEF ServiceInv, SourceKept, SourceInv, LogsInv, LogOf
<1>2. /\ SourceKept' /\ ToldKept'
      /\ \A h \in Nat : Kept(ds.leaf_storage, h, durable.leaves) => Kept(ds'.leaf_storage, h, durable.leaves)
  BY GrownSource DEF ServiceInv
<1>3. LoopKept' /\ AtRest'
  BY DEF ServiceInv, LoopKept, AtRest, Quiet
<1>4. loop.at \notin Quiet /\ loop'.at \notin Quiet /\ Announced' = Announced
  BY DEF Quiet, Announced
<1>5. /\ Held(ds'.leaf_storage) \subseteq Held(ds.leaf_storage)
      /\ Held(ds'.block_storage) \subseteq Held(ds.block_storage)
      /\ NextPos(ds'.leaf_storage) = NextPos(ds.leaf_storage)
  <2>1. Held(m) \subseteq Held(l) /\ NextPos(m) = NextPos(l)
    BY <1>1, CommitHolds
  <2>2. QED BY <2>1 DEF LogOf
<1>6. HeldKnown'
  BY <1>4, <1>5 DEF ServiceInv, HeldKnown, Known
<1>7. HotshotKept' /\ ReadersKept'
  BY DEF ServiceInv, HotshotKept, ReadersKept, SomeoneReads, Reading, Writing
<1>8. EventsInOrder'
  BY <1>5 DEF ServiceInv, EventsInOrder, Running
<1>9. DecisionsKept'
  <2>1. SUFFICES ASSUME NEW h \in hotshot.resumed .. hotshot.decided
                 PROVE  \/ Kept(ds'.leaf_storage, h, durable.leaves)
                        \/ h \in Announced
                        \/ \E i \in 1 .. Len(hotshot.queue) : h \in hotshot.queue[i].first .. hotshot.queue[i].last
    BY <1>4 DEF DecisionsKept
  <2>2. h \in Nat
    BY DEF ServiceInv, HotshotKept
  <2>3. Running
    BY DEF Running
  <2>4. \/ Kept(ds.leaf_storage, h, durable.leaves)
        \/ h \in Announced
        \/ \E i \in 1 .. Len(hotshot.queue) : h \in hotshot.queue[i].first .. hotshot.queue[i].last
    BY <2>3 DEF ServiceInv, DecisionsKept
  <2>5. QED BY <1>2, <2>2, <2>4
<1>10. /\ sent \in Seq(Heights)
       /\ \A h \in Entries(sent) : /\ h < Len(m.store)
                                   /\ h < RecordOf(kind) \/ h = 0 \/ h \in Announced
  <2>1. sent \in Seq(Nat)
    BY <1>1, CommitInv
  <2>2. \A k \in 1 .. Len(sent) : sent[k] \in Nat /\ sent[k] \in Held(l) /\ sent[k] < Len(m.store)
    BY <1>1, BroadcastHeld
  <2>3. \A h \in Held(l) : h # None => h \in Heights
    BY HeldOfLedger DEF ServiceInv, SourceKept, LogOf
  <2>4. \A h \in Held(l) : Known(h, RecordOf(kind))
    BY <1>4 DEF ServiceInv, HeldKnown, LogOf, RecordOf
  <2> HIDE DEF sent, l, m
  <2>5. \A k \in 1 .. Len(sent) : sent[k] # None /\ sent[k] \in Heights
    BY <2>2, <2>3, NoneAssumption
  <2>6. sent \in Seq(Heights)
    <3>1. DOMAIN sent = 1 .. Len(sent) /\ Len(sent) \in Nat
      BY <2>1, LenProperties
    <3>2. QED BY <2>1, <2>5, <3>1, SeqDef
  <2>7. QED BY <2>2, <2>4, <2>5, <2>6 DEF Known, Entries
<1> HIDE DEF l, m, sent
<1>11. ASSUME NEW c \in Clients, streams'[c] # NoStream
       PROVE  /\ streams[c] # NoStream /\ streams'[c] \in StreamType /\ streams'[c].kind = streams[c].kind
              /\ \A h \in Entries(streams'[c].items) :
                   h \in Entries(streams[c].items) \/ (streams[c].kind = kind /\ h \in Entries(sent))
  BY <1>10, <1>11, AnnouncedItems DEF ServiceInv, sent, l
<1>12. ASSUME NEW c \in Clients, streams[c] # NoStream
       PROVE  /\ streams[c].kind \in {"leaf", "block"}
              /\ \A h \in Entries(streams[c].items) :
                   /\ h \in Heights /\ h < Len(LogOf(ds, streams[c].kind).store)
                   /\ h < RecordOf(streams[c].kind) \/ h = 0 \/ h \in Announced
  <2> DEFINE s == streams[c]
  <2>1. s \in StreamType
    BY <1>12 DEF ServiceInv, StreamsKept
  <2>2. /\ \A i \in DOMAIN s.items : s.items[i] < Len(LogOf(ds, s.kind).store)
        /\ \A i \in DOMAIN s.items : s.items[i] < RecordOf(s.kind) \/ s.items[i] = 0 \/ s.items[i] \in Announced
    BY <1>12 DEF ServiceInv, StreamsKept, StreamsAreRecorded, LogOf, RecordOf, Announced
  <2> HIDE DEF s
  <2>3. s.items \in Seq(Heights) /\ s.kind \in {"leaf", "block"}
    BY <2>1 DEF StreamType
  <2>4. DOMAIN s.items = 1 .. Len(s.items) /\ \A i \in 1 .. Len(s.items) : s.items[i] \in Heights
    BY <2>3, LenProperties, ElementOfSeq
  <2>5. QED BY <2>2, <2>3, <2>4 DEF Entries, s
<1>13. ASSUME NEW c \in Clients, streams'[c] # NoStream, NEW i \in DOMAIN streams'[c].items
       PROVE  /\ streams'[c].items[i] < Len(LogOf(ds', streams'[c].kind).store)
              /\ \/ streams'[c].items[i] < RecordOf(streams'[c].kind) \/ streams'[c].items[i] = 0
                 \/ streams'[c].items[i] \in Announced
  <2> DEFINE h == streams'[c].items[i]
             k == streams[c].kind
             a == Len(LogOf(ds, k).store)
             b == Len(LogOf(ds', k).store)
  <2>1. streams[c] # NoStream /\ k \in {"leaf", "block"} /\ streams'[c].kind = k
    BY <1>11, <1>12, <1>13
  <2>2. h \in Entries(streams'[c].items)
    <3>1. streams'[c].items \in Seq(Heights)
      BY <1>11, <1>13 DEF StreamType
    <3>2. DOMAIN streams'[c].items = 1 .. Len(streams'[c].items)
      BY <3>1, LenProperties
    <3>3. QED BY <1>13, <3>2 DEF Entries
  <2> HIDE DEF h, k
  <2>3. CASE h \in Entries(streams[c].items)
    <3>1. h \in Heights /\ h < a /\ (h < RecordOf(k) \/ h = 0 \/ h \in Announced)
      BY <1>12, <2>1, <2>3 DEF k
    <3>2. a \in Nat /\ b \in Nat /\ a <= b
      <4>1. LogInv(LogOf(ds, k)) /\ LogInv(LogOf(ds', k))
        BY DEF ServiceInv, SourceKept, SourceInv, LogsInv, LogOf
      <4>2. Extends(LogOf(ds', k).store, LogOf(ds, k).store)
        BY DEF StoresGrow, LogOf
      <4>3. QED BY <4>1, <4>2, LogParts DEF Extends
    <3> HIDE DEF a, b
    <3>3. h < b
      BY <3>1, <3>2, HeightsAreNatural
    <3>4. QED BY <2>1, <3>1, <3>3 DEF h, b
  <2>4. CASE h \notin Entries(streams[c].items)
    <3>1. k = kind /\ h \in Entries(sent)
      BY <1>11, <1>13, <2>2, <2>4 DEF k
    <3>2. QED BY <1>10, <2>1, <3>1 DEF h, m
  <2>5. QED BY <2>3, <2>4
<1>14. DOMAIN streams' = Clients
  BY DEF Announce
<1>15. StreamsKept'
  BY <1>11, <1>13, <1>14 DEF StreamsKept, LogOf
<1>16. StreamsAreRecorded'
  BY <1>13 DEF StreamsAreRecorded, RecordOf, Announced
<1>17. QED BY <1>2, <1>3, <1>6, <1>7, <1>8, <1>9, <1>15, <1>16

LEMMA CommitLeafLogKeeps ==
  ASSUME ServiceInv, CommitLeafLog
  PROVE  ServiceInv'
<1> DEFINE l == ds.leaf_storage
           m == CommitVersion(l)
<1>1. /\ loop.at = "leaves" /\ loop' = [ loop EXCEPT !.at = "blocks" ]
      /\ ds' = CommitLeaves(ds) /\ Announce("leaf", l)
      /\ durable' = durable /\ hotshot' = hotshot /\ clients' = clients /\ told' = told
  BY DEF CommitLeafLog
<1>2. /\ loop'.at = "blocks" /\ loop'.event = loop.event /\ Announced' = Announced
      /\ loop' \in [ at : Steps, event : Event \cup {NoEvent} ]
  BY <1>1 DEF ServiceInv, LoopKept, Steps, Announced
<1>3. /\ SourceInv(ds') /\ StoresGrow(ds, ds')
      /\ ds'.leaf_storage = m /\ ds'.block_storage = ds.block_storage
  BY <1>1, LeavesCommitted DEF ServiceInv, SourceKept
<1>4. LogInv(l) /\ CachesAreWritten(ds) /\ NextPos(l) = loop.event.last + 1 /\ Announced \subseteq WrittenIn(l)
  BY <1>1 DEF ServiceInv, SourceKept, SourceInv, LogsInv, AtWork, Committing
<1>5. AtWork'
  <2>1. m.appended = << >> /\ WrittenIn(m) = WrittenIn(l) /\ CacheIsWritten(m) /\ NextPos(m) = NextPos(l)
    BY <1>4, CommitWrites, CommitHolds DEF CachesAreWritten
  <2> HIDE DEF l, m
  <2>2. QED BY <1>2, <1>3, <1>4, <2>1 DEF AtWork, CachesAreWritten, l
<1>6. /\ LogOf(ds', "leaf") = CommitVersion(LogOf(ds, "leaf")) /\ LogOf(ds', "block") = LogOf(ds, "block")
      /\ Announce("leaf", LogOf(ds, "leaf"))
  BY <1>1, <1>3 DEF LogOf
<1>7. /\ SourceKept' /\ LoopKept' /\ AtRest' /\ HeldKnown'
      /\ HotshotKept' /\ EventsInOrder' /\ DecisionsKept'
      /\ ReadersKept' /\ ToldKept' /\ StreamsKept' /\ StreamsAreRecorded'
  <2> HIDE DEF l, m
  <2>1. loop.at \in {"leaves", "blocks"} /\ loop'.at \in {"blocks", "record"}
    BY <1>1, <1>2
  <2>2. QED BY <1>1, <1>2, <1>3, <1>6, <2>1, CommitStepKeeps
<1>8. QED BY <1>5, <1>7 DEF ServiceInv

LEMMA CommitBlockLogKeeps ==
  ASSUME ServiceInv, CommitBlockLog
  PROVE  ServiceInv'
<1> DEFINE l == ds.block_storage
           m == CommitVersion(l)
<1>1. /\ loop.at = "blocks" /\ loop' = [ loop EXCEPT !.at = "record" ]
      /\ ds' = CommitBlocks(ds) /\ Announce("block", l)
      /\ durable' = durable /\ hotshot' = hotshot /\ clients' = clients /\ told' = told
  BY DEF CommitBlockLog
<1>2. /\ loop'.at = "record" /\ loop'.event = loop.event /\ Announced' = Announced
      /\ loop' \in [ at : Steps, event : Event \cup {NoEvent} ]
  BY <1>1 DEF ServiceInv, LoopKept, Steps, Announced
<1>3. /\ SourceInv(ds) /\ LogInv(l) /\ LogInv(ds.leaf_storage) /\ NextPos(l) <= NextPos(ds.leaf_storage)
      /\ CachesAreWritten(ds) /\ ds.leaf_storage.appended = << >>
      /\ NextPos(ds.leaf_storage) = loop.event.last + 1 /\ Announced \subseteq WrittenIn(ds.leaf_storage)
  BY <1>1 DEF ServiceInv, SourceKept, SourceInv, LogsInv, AtWork, Committing
<1>4. NextPos(l) <= Len(ds.leaf_storage.store)
  BY <1>3, SettledLog DEF Settled, CachesAreWritten
<1>5. /\ SourceInv(ds') /\ StoresGrow(ds, ds')
      /\ ds'.block_storage = m /\ ds'.leaf_storage = ds.leaf_storage
  BY <1>1, <1>3, <1>4, BlocksCommitted
<1>6. AtWork'
  <2>1. m.appended = << >> /\ CacheIsWritten(m)
    BY <1>3, CommitWrites DEF CachesAreWritten
  <2> HIDE DEF l, m
  <2>2. QED BY <1>2, <1>3, <1>5, <2>1 DEF AtWork, CachesAreWritten
<1>7. /\ LogOf(ds', "block") = CommitVersion(LogOf(ds, "block")) /\ LogOf(ds', "leaf") = LogOf(ds, "leaf")
      /\ Announce("block", LogOf(ds, "block"))
  BY <1>1, <1>5 DEF LogOf
<1>8. /\ SourceKept' /\ LoopKept' /\ AtRest' /\ HeldKnown'
      /\ HotshotKept' /\ EventsInOrder' /\ DecisionsKept'
      /\ ReadersKept' /\ ToldKept' /\ StreamsKept' /\ StreamsAreRecorded'
  <2> HIDE DEF l, m
  <2>1. loop.at \in {"leaves", "blocks"} /\ loop'.at \in {"blocks", "record"}
    BY <1>1, <1>2
  <2>2. QED BY <1>1, <1>2, <1>5, <1>7, <2>1, CommitStepKeeps
<1>9. QED BY <1>6, <1>8 DEF ServiceInv

\* The version recorded is that of the whole event.
LEMMA RecordKeeps ==
  ASSUME ServiceInv, Record
  PROVE  ServiceInv'
<1> DEFINE l == ds.leaf_storage
           b == ds.block_storage
           nl == Len(l.store)
           nb == Len(b.store)
           last == loop.event.last
           q == hotshot.queue
<1>1. /\ loop.at = "record" /\ loop' = [ at |-> "next", event |-> NoEvent ] /\ durable' = Lengths(ds)
      /\ ds' = ds /\ hotshot' = hotshot /\ clients' = clients /\ streams' = streams /\ told' = told
  BY DEF Record
<1>2. /\ SourceInv(ds) /\ LogInv(l) /\ LogInv(b) /\ CachesAreWritten(ds)
      /\ l.appended = << >> /\ b.appended = << >>
      /\ NextPos(l) = last + 1 /\ Announced \subseteq WrittenIn(l) /\ loop.event \in Event
  BY <1>1 DEF ServiceInv, SourceKept, SourceInv, LogsInv, AtWork, Committing, LoopKept
<1>3. /\ Settled(l) /\ Settled(b) /\ nl = last + 1
  BY <1>2, SettledLog DEF Settled, CachesAreWritten
<1>4. nl \in Nat /\ nb \in Nat /\ last \in Nat /\ last \in Announced /\ Announced \subseteq Nat
  <2>1. nl \in Nat /\ nb \in Nat
    BY <1>2, LogParts
  <2>2. loop.event.first \in Nat /\ last \in Nat /\ loop.event.first <= last
    BY <1>2, EventFacts
  <2> HIDE DEF last
  <2>3. QED BY <2>1, <2>2 DEF Announced, last
<1>5. \A h \in Announced : h < nl /\ l.store[h + 1] = h
  <2>1. WrittenIn(l) = Entries(l.store)
    BY <1>2 DEF WrittenIn, Entries
  <2>2. \A h \in Announced : h \in Entries(l.store) /\ h # None
    BY <1>2, <1>4, <2>1, NoneAssumption
  <2>3. QED BY <1>2, <2>2, StoredObject
<1>6. durable'.leaves = nl /\ durable'.blocks = nb
  BY <1>1 DEF Lengths
<1>7. RecordedIn(ds, durable) /\ HasGenesis(ds) /\ RecordedIn(ds, durable')
  <2>1. StoresGrow(ds, ds)
    BY <1>2, ExtendsItself DEF SourceInv, SameStores
  <2>2. RecordedIn(ds, durable) /\ HasGenesis(ds)
    BY DEF ServiceInv, SourceKept
  <2>3. QED BY <1>1, <1>2, <2>1, <2>2, GrownRecord
<1>8. SourceKept'
  <2>1. l.store[nl] # None
    BY <1>3, <1>4, <1>5, NoneAssumption
  <2>2. QED BY <1>1, <1>6, <1>7, <2>1 DEF ServiceInv, SourceKept
<1> HIDE DEF nl, nb
<1>9. loop'.at = "next" /\ loop'.event = NoEvent /\ LoopKept'
  BY <1>1 DEF LoopKept, Steps
<1>10. AtRest'
  BY <1>1, <1>3 DEF AtRest, BothSettled
<1>11. AtWork' /\ HeldKnown'
  BY <1>9 DEF AtWork, HeldKnown, Quiet, Committing
<1>12. HotshotKept' /\ ReadersKept'
  BY <1>1, <1>9 DEF ServiceInv, HotshotKept, ReadersKept, SomeoneReads, Reading, Writing
<1>13. EventsInOrder'
  <2>1. /\ last <= hotshot.decided
        /\ \A i \in 1 .. Len(q) : /\ q[i].last <= hotshot.decided
                                  /\ \A j \in 1 .. i - 1 : q[j].last < q[i].first
        /\ NextPos(l) <= hotshot.decided + 1
        /\ \A i \in 1 .. Len(q) : NextPos(l) <= q[i].first
    BY <1>1 DEF ServiceInv, EventsInOrder, Running
  <2>2. hotshot.decided \in Nat /\ \A i \in 1 .. Len(q) : q[i].first \in Nat /\ 0 < q[i].first
    BY QueueFacts DEF ServiceInv, HotshotKept
  <2>3. NoEvent.last = 0
    BY DEF NoEvent
  <2> HIDE DEF q, last
  <2>4. durable'.leaves <= hotshot.decided + 1 /\ NoEvent.last <= hotshot.decided
        /\ \A i \in 1 .. Len(q) : NoEvent.last < q[i].first
    BY <1>3, <1>4, <1>6, <2>1, <2>2, <2>3
  <2>5. NextPos(ds.leaf_storage)' = NextPos(l)
    BY <1>1
  <2> HIDE DEF l
  <2>6. QED BY <1>1, <1>9, <2>1, <2>4, <2>5 DEF EventsInOrder, q
<1>14. /\ durable.leaves \in Nat /\ durable.blocks \in Nat
       /\ durable.leaves <= nl /\ durable.blocks <= nb
  BY <1>7 DEF RecordedIn, nl, nb
<1>15. /\ \A h \in Nat : Kept(l, h, durable.leaves) => Kept(l, h, nl)
       /\ \A h \in Nat : Kept(b, h, durable.blocks) => Kept(b, h, nb)
  <2> HIDE DEF l, b
  <2>1. \A h \in Nat : (h < durable.leaves => h < nl) /\ (h < durable.blocks => h < nb)
    BY <1>4, <1>14
  <2>2. QED BY <2>1 DEF Kept
<1>16. DecisionsKept'
  <2>1. SUFFICES ASSUME NEW h \in hotshot.resumed .. hotshot.decided
                 PROVE  \/ Kept(l, h, nl)
                        \/ \E i \in 1 .. Len(q) : h \in q[i].first .. q[i].last
    BY <1>1, <1>6, <1>9 DEF DecisionsKept
  <2>2. h \in Nat
    BY DEF ServiceInv, HotshotKept
  <2>3. \/ Kept(l, h, durable.leaves) \/ h \in Announced
        \/ \E i \in 1 .. Len(q) : h \in q[i].first .. q[i].last
    BY <1>1 DEF ServiceInv, DecisionsKept, Running
  <2>4. h \in Announced => Kept(l, h, nl)
    BY <1>5 DEF Kept, nl
  <2>5. QED BY <1>15, <2>2, <2>3, <2>4
<1>17. ToldKept'
  <2>1. KeptObjects \subseteq KeptObjects'
    BY <1>1, <1>6, <1>15, HeightsAreNatural DEF KeptObjects
  <2>2. QED BY <1>1, <2>1 DEF ServiceInv, ToldKept
<1>18. StreamsKept'
  BY <1>1 DEF ServiceInv, StreamsKept
<1>19. StreamsAreRecorded'
  BY <1>1, <1>6 DEF ServiceInv, StreamsKept, StreamsAreRecorded, nl, nb
<1>20. QED BY <1>8, <1>9, <1>10, <1>11, <1>12, <1>13, <1>16, <1>17, <1>18, <1>19 DEF ServiceInv

-----------------------------------------------------------------------------
(* Beginning, and beginning again. *)

\* A log loaded from a record keeps what was kept.
LEMMA KeptLoaded ==
  ASSUME NEW l, LogInv(l), Entries(l.store) \subseteq Heights \cup {None}, NEW n \in 1 .. Len(l.store),
         NEW m, m.store = Loaded(l, n, {}), l.store[1] = 0
  PROVE  /\ Len(m.store) = n /\ m.store[1] = 0 /\ m.store[n] = l.store[n]
         /\ \A h \in Nat : Kept(l, h, n) => Kept(m, h, n)
<1> DEFINE p == Len(l.store)
<1>1. p \in Nat /\ n \in 1 .. p
  BY LogParts, Zenon
<1> HIDE DEF p
<1>2. n \in 0 .. p /\ 1 \in 1 .. n /\ n \in 1 .. n /\ n \in Nat
  BY <1>1
<1>3. Len(m.store) = n /\ \A k \in 1 .. n : k - 1 \notin {} => m.store[k] = l.store[k]
  BY <1>2, LoadedInPlace DEF p
<1>4. m.store[1] = 0 /\ m.store[n] = l.store[n]
  BY <1>2, <1>3
<1>5. ASSUME NEW h \in Nat, Kept(l, h, n) PROVE Kept(m, h, n)
  <2>1. h < n /\ h + 1 \in 1 .. n /\ l.store[h + 1] = h
    BY <1>2, <1>5 DEF Kept
  <2>2. QED BY <1>3, <1>5, <2>1 DEF Kept
<1>6. QED BY <1>3, <1>4, <1>5

LEMMA LoadedPrefix ==
  ASSUME NEW l, LogInv(l), NEW n \in 0 .. Len(l.store)
  PROVE  SubSeq(l.store, 1, n) = Loaded(l, n, {})
<1> DEFINE p == Len(l.store)
           s == l.store
<1>1. s \in Seq(Entry) /\ Len(s) = p /\ p \in Nat
  BY LogParts, Zenon
<1>2. n \in 0 .. p
  OBVIOUS
<1>3. Loaded(l, n, {}) = [ i \in 1 .. n |-> s[i] ]
  BY DEF Loaded
<1> HIDE DEF s, p
<1>4. n \in Nat /\ n <= p
  BY <1>1, <1>2
<1>5. SubSeq(s, 1, n) = [ i \in 1 .. n |-> s[i] ]
  BY <1>1, <1>4
<1>6. QED BY <1>3, <1>5 DEF s

\* What was recorded is there again, and nothing else but the genesis.
LEMMA RestartKeeps ==
  ASSUME ServiceInv, Restart
  PROVE  ServiceInv'
<1> DEFINE l == ds.leaf_storage
           b == ds.block_storage
           m == ds'.leaf_storage
           c == ds'.block_storage
           nl == durable.leaves
           nb == durable.blocks
<1>1. /\ ds' = OpenDataSource(SubSeq(l.store, 1, nl), SubSeq(b.store, 1, nb))
      /\ hotshot' = Resumed(hotshot.decided)
      /\ loop' = [ at |-> "subscribe", event |-> NoEvent ]
      /\ clients' = [ o \in Clients |-> "idle" ] /\ streams' = [ o \in Clients |-> NoStream ]
      /\ durable' = durable /\ told' = told
  BY DEF Restart
<1>2. /\ SourceInv(ds) /\ RecordedIn(ds, durable) /\ LogInv(l) /\ LogInv(b)
      /\ nl \in Nat /\ nb \in Nat /\ durable \in [ leaves : Nat, blocks : Nat ]
      /\ nl <= Len(l.store) /\ nb <= Len(b.store) /\ Len(l.store) \in Nat /\ Len(b.store) \in Nat
  BY LengthsAre DEF ServiceInv, SourceKept, SourceInv, LogsInv, RecordedIn
<1>3. nl \in 0 .. Len(l.store) /\ nb \in 0 .. Len(b.store)
  BY <1>2
<1>4. ds' = OpenDataSource(Loaded(l, nl, {}), Loaded(b, nb, {}))
  BY <1>1, <1>2, <1>3, LoadedPrefix
<1>5. /\ SourceInv(ds') /\ HasGenesis(ds') /\ BothSettled(ds') /\ RecordedIn(ds', durable)
      /\ \/ nl = 0 /\ nb = 0 /\ GenesisOnly(ds')
         \/ /\ nl >= 1 /\ nb >= 1
            /\ m.store = Loaded(l, nl, {}) /\ c.store = Loaded(b, nb, {})
  BY <1>2, <1>4, OpenedFromRecord
<1>6. l.store[1] = 0 /\ b.store[1] = 0 /\ (nl > 0 => l.store[nl] # None)
  BY DEF ServiceInv, SourceKept, GenesisStored
<1> HIDE DEF l, b, m, c
<1>7. /\ m.store[1] = 0 /\ c.store[1] = 0 /\ (nl > 0 => m.store[nl] # None)
      /\ (Len(m.store) = 1 /\ Len(c.store) = 1) \/ (Len(m.store) = nl /\ Len(c.store) = nb)
      /\ \A h \in Nat : Kept(l, h, nl) => Kept(m, h, nl)
      /\ \A h \in Nat : Kept(b, h, nb) => Kept(c, h, nb)
  <2>1. CASE nl = 0 /\ nb = 0 /\ GenesisOnly(ds')
    <3>1. m.store[1] = 0 /\ c.store[1] = 0 /\ Len(m.store) = 1 /\ Len(c.store) = 1
      BY <2>1 DEF GenesisOnly, GenesisStored, m, c
    <3>2. Kept(m, 0, 0) /\ Kept(c, 0, 0)
      <4>1. 0 < 1 /\ 0 + 1 = 1
        OBVIOUS
      <4>2. QED BY <3>1, <4>1 DEF Kept
    <3>3. /\ \A h \in Nat : Kept(l, h, 0) => h = 0
          /\ \A h \in Nat : Kept(b, h, 0) => h = 0
      BY DEF Kept
    <3>4. QED BY <2>1, <3>1, <3>2, <3>3
  <2>2. CASE nl >= 1 /\ nb >= 1 /\ m.store = Loaded(l, nl, {}) /\ c.store = Loaded(b, nb, {})
    <3>1. nl \in 1 .. Len(l.store) /\ nb \in 1 .. Len(b.store)
      BY <1>2, <2>2 DEF l, b
    <3>2. /\ Entries(l.store) \subseteq Heights \cup {None}
          /\ Entries(b.store) \subseteq Heights \cup {None}
      BY <1>2, HeldHeights DEF l, b
    <3>3. /\ Len(m.store) = nl /\ m.store[1] = 0 /\ m.store[nl] = l.store[nl]
          /\ \A h \in Nat : Kept(l, h, nl) => Kept(m, h, nl)
      BY <1>2, <1>6, <2>2, <3>1, <3>2, KeptLoaded DEF l, b
    <3>4. /\ Len(c.store) = nb /\ c.store[1] = 0
          /\ \A h \in Nat : Kept(b, h, nb) => Kept(c, h, nb)
      BY <1>2, <1>6, <2>2, <3>1, <3>2, KeptLoaded DEF l, b
    <3>5. QED BY <1>6, <3>3, <3>4
  <2>3. QED BY <1>5, <2>1, <2>2 DEF m, c
<1>8. SourceKept'
  BY <1>1, <1>5, <1>7 DEF SourceKept, GenesisStored, m, c
<1>9. loop'.at = "subscribe" /\ loop'.event = NoEvent /\ LoopKept'
  BY <1>1 DEF LoopKept, Steps
<1>10. AtRest'
  <2>1. Lengths(ds') = durable \/ Lengths(ds') = [ leaves |-> 1, blocks |-> 1 ]
    <3>1. Lengths(ds') = [ leaves |-> Len(m.store), blocks |-> Len(c.store) ]
      BY DEF Lengths, m, c
    <3>2. durable = [ leaves |-> nl, blocks |-> nb ]
      BY <1>2
    <3> HIDE DEF nl, nb
    <3>3. QED BY <1>7, <3>1, <3>2
  <2>2. QED BY <1>1, <1>5, <2>1 DEF AtRest
<1>11. AtWork' /\ HeldKnown'
  BY <1>9 DEF AtWork, HeldKnown, Quiet, Committing
<1>12. /\ hotshot.decided \in Nat /\ hotshot'.decided = hotshot.decided
       /\ hotshot'.resumed = hotshot.decided + 1 /\ hotshot'.queue = << >> /\ HotshotKept'
  <2>1. hotshot.decided \in Nat
    BY DEF ServiceInv, HotshotKept
  <2>2. Resumed(hotshot.decided) \in [ started : BOOLEAN, listened : BOOLEAN, resumed : Nat, decided : Nat,
                                       queue : Seq(Event) ]
    BY <2>1, EmptySeq DEF Resumed
  <2>3. QED BY <1>1, <1>9, <2>1, <2>2 DEF Resumed, HotshotKept
<1>13. EventsInOrder'
  <2>1. nl <= hotshot.decided + 1
    BY DEF ServiceInv, EventsInOrder
  <2>2. NextPos(m) = Len(m.store)
    BY <1>5, SettledLog DEF SourceInv, LogsInv, BothSettled, m
  <2>3. NextPos(m) <= hotshot.decided + 1
    <3> DEFINE k == Len(m.store)
    <3> HIDE DEF k
    <3>1. k = 1 \/ k = nl
      BY <1>7 DEF k
    <3>2. k <= hotshot.decided + 1
      BY <1>12, <2>1, <3>1
    <3>3. QED BY <2>2, <3>2 DEF k
  <2>4. NoEvent.last <= hotshot.decided
    BY <1>12 DEF NoEvent
  <2>5. Len(hotshot'.queue) = 0
    BY <1>12
  <2>6. NextPos(ds.leaf_storage)' = NextPos(m)
    BY DEF m
  <2>7. QED BY <1>1, <1>9, <1>12, <2>1, <2>3, <2>4, <2>5, <2>6 DEF EventsInOrder
<1>14. DecisionsKept'
  BY <1>12 DEF DecisionsKept
<1>15. ReadersKept'
  BY <1>1 DEF ReadersKept, SomeoneReads, Reading
<1>16. ToldKept'
  <2>1. KeptObjects \subseteq KeptObjects'
    BY <1>1, <1>7, HeightsAreNatural DEF KeptObjects, l, b, m, c
  <2>2. QED BY <1>1, <2>1 DEF ServiceInv, ToldKept
<1>17. StreamsKept' /\ StreamsAreRecorded'
  BY <1>1 DEF StreamsKept, StreamsAreRecorded
<1>18. QED BY <1>8, <1>9, <1>10, <1>11, <1>12, <1>13, <1>14, <1>15, <1>16, <1>17 DEF ServiceInv

LEMMA ServiceInit ==
  ASSUME Init
  PROVE  ServiceInv
<1>1. SourceInv(ds) /\ HasGenesis(ds) /\ GenesisOnly(ds) /\ BothSettled(ds)
  BY EmptySourceInv, GenesisInserted DEF Init
<1>2. /\ durable = [ leaves |-> 0, blocks |-> 0 ] /\ hotshot = Resumed(0)
      /\ loop = [ at |-> "subscribe", event |-> NoEvent ]
      /\ clients = [ c \in Clients |-> "idle" ] /\ streams = [ c \in Clients |-> NoStream ] /\ told = {}
  BY DEF Init
<1>3. /\ LogInv(ds.leaf_storage) /\ Len(ds.leaf_storage.store) = 1 /\ Len(ds.block_storage.store) = 1
      /\ GenesisStored(ds)
  BY <1>1 DEF SourceInv, LogsInv, GenesisOnly
<1>4. SourceKept
  BY <1>1, <1>2, <1>3 DEF SourceKept, RecordedIn
<1>5. loop.at = "subscribe" /\ loop.event = NoEvent /\ LoopKept
  BY <1>2 DEF LoopKept, Steps
<1>6. AtRest /\ AtWork /\ HeldKnown
  BY <1>1, <1>3, <1>5 DEF AtRest, AtWork, HeldKnown, Quiet, Committing, Lengths
<1>7. hotshot.decided = 0 /\ hotshot.resumed = 1 /\ hotshot.queue = << >> /\ HotshotKept
  <2>1. Resumed(0) \in [ started : BOOLEAN, listened : BOOLEAN, resumed : Nat, decided : Nat, queue : Seq(Event) ]
    BY EmptySeq DEF Resumed
  <2>2. QED BY <1>2, <1>5, <2>1 DEF Resumed, HotshotKept
<1>8. EventsInOrder
  <2>1. NextPos(ds.leaf_storage) = 1
    BY <1>1, <1>3, SettledLog DEF BothSettled
  <2>2. Len(hotshot.queue) = 0 /\ NoEvent.last = 0
    BY <1>7 DEF NoEvent
  <2>3. QED BY <1>2, <1>5, <1>7, <2>1, <2>2 DEF EventsInOrder
<1>9. DecisionsKept
  BY <1>7 DEF DecisionsKept
<1>10. ReadersKept /\ ToldKept
  BY <1>2 DEF ReadersKept, ToldKept, SomeoneReads, Reading
<1>11. StreamsKept /\ StreamsAreRecorded
  BY <1>2 DEF StreamsKept, StreamsAreRecorded
<1>12. QED BY <1>4, <1>5, <1>6, <1>7, <1>8, <1>9, <1>10, <1>11 DEF ServiceInv

-----------------------------------------------------------------------------
(* The theorems. *)

LEMMA ServiceStep ==
  ASSUME ServiceInv, [Next]_vars
  PROVE  ServiceInv'
<1>1. CASE UNCHANGED vars
  <2>1. /\ UNCHANGED store /\ hotshot' = hotshot /\ loop' = loop /\ clients' = clients
        /\ streams' = streams /\ told' = told /\ ds' = ds /\ durable' = durable
    BY <1>1 DEF vars, store
  <2>2. HotshotKept' /\ EventsInOrder' /\ DecisionsKept'
    BY <2>1 DEF ServiceInv, HotshotKept, EventsInOrder, DecisionsKept, Running, Announced
  <2>3. QED BY <2>1, <2>2, SameSource DEF ServiceInv
<1>2. CASE \E e \in Event : Decide(e)
  BY <1>2, DecideKeeps
<1>3. CASE UpdateTask
  BY <1>3, StartupKeeps, NextEventKeeps, LockKeeps, UpdateStepKeeps, CommitLeafLogKeeps,
     CommitBlockLogKeeps, RecordKeeps DEF UpdateTask
<1>4. CASE UpdateFails \/ CommitFails \/ Restart
  BY <1>4, UpdateFailsStepKeeps, CommitFailsKeeps, RestartKeeps
<1>5. CASE \E c \in Clients :
             \/ Request(c)
             \/ Respond(c)
             \/ \E from \in Starts : \E kind \in {"leaf", "block"} : Stream(c, kind, from)
  BY <1>5, RequestKeeps, RespondKeeps, StreamKeeps
<1>6. QED BY <1>1, <1>2, <1>3, <1>4, <1>5 DEF Next

\* What the service keeps true, whatever it is doing (`run_standalone_service`).
THEOREM ServiceInvariance == Spec => []ServiceInv
<1>1. Init => ServiceInv
  BY ServiceInit
<1>2. ServiceInv /\ [Next]_vars => ServiceInv'
  BY ServiceStep
<1>3. QED BY <1>1, <1>2, PTL DEF Spec

\* The data source, the loop, the events that wait and the streams stay what they are.
THEOREM ServiceTypeCorrect == Spec => []TypeOK
<1>1. ServiceInv => TypeOK
  <2>1. SUFFICES ASSUME ServiceInv PROVE TypeOK
    OBVIOUS
  <2>2. ds \in DataSource
    BY <2>1 DEF ServiceInv, SourceKept, SourceInv
  <2>3. loop.at \in Steps /\ loop.event \in Event \cup {NoEvent}
    BY <2>1 DEF ServiceInv, LoopKept
  <2>4. hotshot.queue \in Seq(Event)
    BY <2>1 DEF ServiceInv, HotshotKept
  <2>5. \A c \in Clients : streams[c] # NoStream => streams[c].items \in Seq(Heights)
    BY <2>1 DEF ServiceInv, StreamsKept, StreamType
  <2>6. QED BY <2>2, <2>3, <2>4, <2>5 DEF TypeOK
<1>2. QED BY <1>1, ServiceInvariance, PTL

\* As long as the loop runs, every request sees the logs between two events, whole
\* and recorded (the RwLock around `update` and `commit`): the last leaf below the
\* height it is told can be had, by number and by hash, and there is none at it.
THEOREM RequestsAreServedWholeEvents == Spec => []RequestsSeeWholeEvents
<1>1. ServiceInv => RequestsSeeWholeEvents
  <2> DEFINE l == ds.leaf_storage
             b == ds.block_storage
             n == Len(l.store)
             one == [ leaves |-> 1, blocks |-> 1 ]
  <2>1. SUFFICES ASSUME ServiceInv, SomeoneReads, Running PROVE RequestsSeeWholeEvents
    BY DEF RequestsSeeWholeEvents
  <2>2. loop.at \in Quiet
    BY <2>1 DEF ServiceInv, LoopKept, Steps, ReadersKept, Writing, Quiet, Running
  <2>3. /\ LogInv(l) /\ LogInv(b) /\ Settled(l) /\ Settled(b)
        /\ Lengths(ds) = durable \/ Lengths(ds) = one
        /\ HeldIndexed(ds) /\ n >= 1 /\ l.store[1] = 0
        /\ (durable.leaves > 0 => l.store[durable.leaves] # None)
    BY <2>1, <2>2 DEF ServiceInv, SourceKept, SourceInv, LogsInv, AtRest, BothSettled, HasGenesis, GenesisStored
  <2>4. Uncommitted(l) = 0 /\ Uncommitted(b) = 0
    BY <2>3 DEF Settled, Uncommitted
  <2>5. /\ n \in Nat /\ IterLen(l) = n
        /\ l.cache_start \in Nat /\ Len(l.cache) \in Nat /\ l.cache_start + Len(l.cache) = n
        /\ EntriesInPlace(l.store)
    <3>1. NextPos(l) = n /\ n \in Nat /\ IterLen(l) = NextPos(l)
      BY <2>3, SettledLog, IterLenIs, LogParts
    <3>2. l.store \in Seq(Entry) /\ l.appended = << >> /\ EntriesInPlace(l.store \o l.appended)
      BY <2>3, LogParts DEF LogInv, Settled
    <3>3. l.cache_start \in Nat /\ Len(l.cache) \in Nat
      BY <2>3, LogParts
    <3>4. l.store \o l.appended = l.store
      BY <3>2, ConcatEmptySeq
    <3>5. QED BY <3>1, <3>2, <3>3, <3>4 DEF IterLen
  <2>6. n = durable.leaves \/ n = 1
    <3>1. Lengths(ds).leaves = n /\ one.leaves = 1
      BY DEF Lengths
    <3> HIDE DEF one, n
    <3>2. QED BY <2>3, <3>1
  <2> HIDE DEF n
  <2>7. n - 1 \in Nat /\ n - 1 < n /\ l.store[(n - 1) + 1] = n - 1 /\ n \in 1 .. n
    <3>1. n \in 1 .. n /\ n - 1 \in Nat /\ n - 1 < n /\ (n - 1) + 1 = n
      BY <2>3, <2>5 DEF n
    <3>2. l.store[n] \in {None, n - 1}
      BY <2>5, <3>1 DEF EntriesInPlace, n
    <3>3. l.store[n] # None
      <4>1. CASE n = 1
        BY <2>3, <4>1, NoneAssumption
      <4>2. CASE n = durable.leaves
        BY <2>3, <2>5, <3>1, <4>2
      <4>3. QED BY <2>6, <4>1, <4>2
    <3>4. QED BY <3>1, <3>2, <3>3
  <2>8. Nth(l, n - 1) = n - 1
    BY <2>3, <2>7, NthInPlace DEF n
  <2>9. \A k \in Nat : Answer(k) = OK(k)
    BY ValuesAssumption DEF Answer
  <2>10. GetLeafRequest(ds, n - 1) = OK(n - 1)
    BY <2>7, <2>8, <2>9 DEF GetLeafRequest, GetLeaf
  <2>11. GetLeafByHashRequest(ds, n - 1) = OK(n - 1)
    <3>1. n - 1 \in Held(l) /\ n - 1 # None
      <4>1. n - 1 # None
        BY <2>7, NoneAssumption
      <4>2. n - 1 \in Entries(l.store)
        <5>1. (n - 1) + 1 \in 1 .. n
          BY <2>5, <2>7
        <5>2. QED BY <2>7, <5>1 DEF Entries, n
      <4>3. QED BY <4>1, <4>2 DEF Held
    <3>2. n - 1 \in ds.index_by_leaf_hash
      BY <2>3, <3>1 DEF HeldIndexed, LeafIndexed
    <3>3. QED BY <2>7, <2>8, <2>9, <3>2 DEF GetLeafByHashRequest, GetLeafByHash, GetLeaf
  <2>12. GetLeafRequest(ds, n).status = 404
    <3>1. ~ Yields(l, n)
      <4> DEFINE k == Len(l.cache)
      <4>1. Yields(l, n) => (n >= l.cache_start => n - l.cache_start < k) /\ (n < l.cache_start => n < n)
        BY <2>5 DEF Yields, n
      <4>2. k \in Nat /\ l.cache_start \in Nat /\ n \in Nat /\ l.cache_start + k = n
        BY <2>5
      <4> HIDE DEF k, l
      <4>3. QED BY <4>1, <4>2
    <3>2. Nth(l, n) = NotFound
      BY <3>1 DEF Nth
    <3>3. QED BY <3>2 DEF GetLeafRequest, GetLeaf, Answer, Fails
  <2>13. HeightRequest(ds).body = n
    BY <2>5 DEF HeightRequest, OK, BlockHeight
  <2>14. Lengths(ds) \in { durable, [ leaves |-> 1, blocks |-> 1 ] }
    BY <2>3
  <2>15. QED BY <2>4, <2>10, <2>11, <2>12, <2>13, <2>14 DEF RequestsSeeWholeEvents
<1>2. QED BY <1>1, ServiceInvariance, PTL

\* Nothing that a request could see while the loop ran is ever taken back: not by a
\* failed update or commit, and not by a restart at any point.
THEOREM ToldIsKept == Spec => []ToldIsNeverTakenBack
<1>1. ServiceInv => ToldIsNeverTakenBack
  BY KeptVisible DEF ServiceInv, ToldKept, ToldIsNeverTakenBack
<1>2. QED BY <1>1, ServiceInvariance, PTL

\* A stream is never more than the event being committed ahead of the record
\* (`commit_version` sends before the AtomicStore records).
THEOREM StreamsStayRecorded == Spec => []StreamsAreRecorded
<1>1. ServiceInv => StreamsAreRecorded
  BY DEF ServiceInv
<1>2. QED BY <1>1, ServiceInvariance, PTL

\* As long as the loop runs, every leaf decided since the process began is readable,
\* at hand or waiting: the event stream is asked for before consensus starts.
THEOREM DecisionsAreNotMissed == Spec => []NoDecisionIsMissed
<1>1. ServiceInv => NoDecisionIsMissed
  <2>1. SUFFICES ASSUME ServiceInv, Running, NEW h \in hotshot.resumed .. hotshot.decided
                 PROVE  \/ GetLeaf(ds, h) = h
                        \/ h \in Announced
                        \/ \E i \in DOMAIN hotshot.queue :
                             h \in hotshot.queue[i].first .. hotshot.queue[i].last
    BY DEF NoDecisionIsMissed, Announced
  <2>2. LogInv(ds.leaf_storage) /\ h \in Nat
    BY <2>1 DEF ServiceInv, SourceKept, SourceInv, LogsInv, HotshotKept
  <2>3. Kept(ds.leaf_storage, h, durable.leaves) => GetLeaf(ds, h) = h
    BY <2>2, NthInPlace DEF Kept, GetLeaf
  <2>4. DOMAIN hotshot.queue = 1 .. Len(hotshot.queue)
    BY <2>1, LenProperties DEF ServiceInv, HotshotKept
  <2>5. QED BY <2>1, <2>3, <2>4 DEF ServiceInv, DecisionsKept
<1>2. QED BY <1>1, ServiceInvariance, PTL

-----------------------------------------------------------------------------
(* Transactions *)

\* The place that the index has of a transaction that is found is the first one in its
\* block: the block is held, so all its transactions are indexed, none earlier than that.
LEMMA TransactionPlace ==
  ASSUME NEW d, SourceInv(d), NEW t \in Transactions
  PROVE  \/ GetBlockWithTransaction(d, t) \in {NotFound, Missing}
         \/ \E g \in Heights : \E i \in DOMAIN Payload[g] :
              /\ GetBlockWithTransaction(d, t) = << g, i >> /\ GetBlock(d, g) = g
              /\ Payload[g][i] = t /\ \A j \in DOMAIN Payload[g] : Payload[g][j] = t => i <= j
<1> DEFINE found == GetBlockWithTransaction(d, t)
<1>1. /\ LogInv(d.block_storage) /\ TransactionIndexRight(d.index_by_txn_hash) /\ HeldIndexed(d)
      /\ NotFound \notin Nat /\ Missing \notin Nat
  BY ValuesAssumption DEF SourceInv, LogsInv, IndicesRight
<1>2. CASE d.index_by_txn_hash[t] = None
  BY <1>2 DEF GetBlockWithTransaction
<1>3. CASE d.index_by_txn_hash[t] # None
  <2>1. PICK g \in Heights : \E i \in DOMAIN Payload[g] : d.index_by_txn_hash[t] = << g, i >> /\ Payload[g][i] = t
    BY <1>1, <1>3 DEF TransactionIndexRight
  <2>2. PICK i \in DOMAIN Payload[g] : d.index_by_txn_hash[t] = << g, i >> /\ Payload[g][i] = t
    BY <2>1
  <2> DEFINE b == GetBlock(d, g)
  <2>3. found = IF b \in Nat THEN << b, i >> ELSE b
    BY <1>3, <2>2 DEF GetBlockWithTransaction
  <2>4. b \in {g, NotFound, Missing} /\ g \in Nat
    BY <1>1, HeightsAreNatural, NthInPlace DEF GetBlock
  <2>5. ASSUME b = g, NEW j \in DOMAIN Payload[g], Payload[g][j] = t PROVE i <= j
    <3>1. Available(d.block_storage, g)
      BY <1>1, <2>4, <2>5 DEF GetBlock, Nth, Available
    <3>2. g \in Held(d.block_storage) /\ g # None
      BY <1>1, <2>4, <3>1, AvailableHeld, NoneAssumption
    <3>3. ~ PlaceBefore(<< g, j >>, << g, i >>)
      BY <1>1, <2>2, <2>5, <3>2 DEF HeldIndexed, BlockIndexed, TransactionCovered
    <3>4. i \in Nat /\ j \in Nat
      BY PayloadFacts
    <3>5. ~ (j < i)
      BY <2>4, <3>3, <3>4, TransactionPlaces
    <3>6. QED BY <3>4, <3>5
  <2> HIDE DEF b, found
  <2>6. CASE b = g
    <3>1. found = << g, i >>
      BY <2>3, <2>4, <2>6
    <3>2. QED BY <2>2, <2>5, <2>6, <3>1 DEF b, found
  <2>7. CASE b # g
    BY <1>1, <2>3, <2>4, <2>7 DEF found
  <2>8. QED BY <2>6, <2>7
<1>4. QED BY <1>2, <1>3

\* What the operations of a payload yield.
LEMMA PayloadOperations ==
  ASSUME NEW h \in Heights
  PROVE  /\ \A n \in Nat : NthIndex(h, n) = IF n < Len(Payload[h]) THEN n + 1 ELSE None
         /\ \A i \in DOMAIN Payload[h] : /\ TransactionAnswer(h, i).status = 200
                                         /\ TransactionAnswer(h, i).body.transaction = Payload[h][i]
                                         /\ TransactionAnswer(h, i).body.height = h
         /\ \A n \in Nat : n < Len(Payload[h]) => NthTransaction(h, n) = Payload[h][n + 1]
         /\ \A i \in DOMAIN Payload[h] :
              (\A j \in DOMAIN Payload[h] : Payload[h][j] = Payload[h][i] => i <= j) =>
                /\ ByHash(h, Payload[h][i]) = i
                /\ TransactionByHash(h, Payload[h][i]) = Payload[h][i]
<1> DEFINE m == Len(Payload[h])
           indices == TransactionIndices(h)
<1>1. /\ m \in Nat /\ DOMAIN Payload[h] = 1 .. m
      /\ \A i \in 1 .. m : Payload[h][i] \in Transactions /\ Payload[h][i] # None /\ i # None
  BY PayloadFacts, TransactionsAssumption, NoneAssumption
<1> HIDE DEF m
<1>2. indices = [ i \in 1 .. m |-> i ]
  BY <1>1 DEF TransactionIndices
<1>3. Len(indices) = m /\ DOMAIN indices = 1 .. m /\ \A i \in 1 .. m : indices[i] = i
  BY <1>1, <1>2
<1> HIDE DEF indices
<1>4. \A n \in Nat : NthIndex(h, n) = IF n < m THEN n + 1 ELSE None
  <2>1. SUFFICES ASSUME NEW n \in Nat PROVE NthIndex(h, n) = IF n < m THEN n + 1 ELSE None
    OBVIOUS
  <2>2. NthIndex(h, n) = IF n < m THEN indices[n + 1] ELSE None
    BY <1>3 DEF NthIndex, indices
  <2>3. n < m => n + 1 \in 1 .. m
    BY <1>1
  <2>4. QED BY <1>3, <2>2, <2>3
<1>5. \A i \in 1 .. m : TransactionWithProof(h, i) = Payload[h][i]
  BY <1>1 DEF TransactionWithProof
<1>6. \A i \in 1 .. m : /\ TransactionAnswer(h, i).status = 200
                        /\ TransactionAnswer(h, i).body.transaction = Payload[h][i]
                        /\ TransactionAnswer(h, i).body.height = h
  BY <1>1, <1>5 DEF TransactionAnswer, OK
<1>7. \A n \in Nat : n < m => NthTransaction(h, n) = Payload[h][n + 1]
  <2>1. SUFFICES ASSUME NEW n \in Nat, n < m PROVE NthTransaction(h, n) = Payload[h][n + 1]
    OBVIOUS
  <2>2. n + 1 \in 1 .. m /\ NthIndex(h, n) = n + 1
    BY <1>1, <1>4, <2>1
  <2>3. QED BY <1>1, <1>5, <2>2 DEF NthTransaction
<1>8. ASSUME NEW i \in 1 .. m, \A j \in 1 .. m : Payload[h][j] = Payload[h][i] => i <= j
      PROVE  /\ ByHash(h, Payload[h][i]) = i
             /\ TransactionByHash(h, Payload[h][i]) = Payload[h][i]
  <2> DEFINE t == Payload[h][i]
             S == { n \in 1 .. m : Payload[h][n] = t }
  <2>1. { n \in DOMAIN indices : TransactionWithProof(h, indices[n]) = t } = S
    BY <1>3, <1>5
  <2>2. ByHash(h, t) = IF S = {} THEN None ELSE indices[Min(S)]
    BY <2>1 DEF ByHash, indices
  <2>3. i \in S /\ \A n \in S : i <= n
    BY <1>8
  <2>4. S \subseteq Nat
    BY <1>1
  <2> HIDE DEF S, t
  <2>5. Min(S) = i
    <3>1. Min(S) \in S /\ \A n \in S : Min(S) <= n
      BY <2>3 DEF Min
    <3>2. Min(S) \in Nat /\ i \in Nat /\ Min(S) <= i /\ i <= Min(S)
      BY <2>3, <2>4, <3>1
    <3>3. QED BY <3>2
  <2>6. ByHash(h, t) = i
    BY <1>3, <2>2, <2>3, <2>5
  <2>7. TransactionByHash(h, t) = t
    BY <1>1, <1>5, <2>6 DEF TransactionByHash, t
  <2>8. QED BY <2>6, <2>7 DEF t
<1>9. DOMAIN Payload[h] = 1 .. m /\ Len(Payload[h]) = m
  BY <1>1 DEF m
<1>10. \A i \in DOMAIN Payload[h] :
         (\A j \in DOMAIN Payload[h] : Payload[h][j] = Payload[h][i] => i <= j) =>
           ByHash(h, Payload[h][i]) = i /\ TransactionByHash(h, Payload[h][i]) = Payload[h][i]
  BY <1>8, <1>9
<1>11. QED BY <1>4, <1>6, <1>7, <1>9, <1>10

\* No request for a transaction panics, and a transaction that is found is the one asked
\* for, at the place that its payload gives for the hash: whatever the loop is doing, after
\* errors and restarts.
THEOREM TransactionsAreServedRight == Spec => []TransactionsAreRight
<1>1. ASSUME ServiceInv PROVE TransactionsAreRight
  <2>1. SourceInv(ds) /\ LogInv(ds.block_storage)
    BY <1>1 DEF ServiceInv, SourceKept, SourceInv, LogsInv
  <2>2. NotFound \notin Nat /\ Missing \notin Nat /\ NotFound \notin Seq(Nat) /\ Missing \notin Seq(Nat)
    BY ValuesAssumption
  <2>3. ASSUME NEW t \in Transactions
        PROVE  LET answer == GetTransactionRequest(ds, t) IN
               /\ answer.status \in {200, 404}
               /\ answer.status = 200 =>
                    /\ answer.body.transaction = t
                    /\ TransactionByHash(answer.body.height, t) = t
                    /\ GetBlockWithTransaction(ds, t)[2] = ByHash(answer.body.height, t)
                    /\ \E n \in 0 .. Len(Payload[answer.body.height]) :
                         GetTransactionAtRequest(ds, answer.body.height, n) = answer
    <3> DEFINE answer == GetTransactionRequest(ds, t)
    <3>1. CASE GetBlockWithTransaction(ds, t) \in {NotFound, Missing}
      <4>1. answer = Fails(404)
        BY <3>1 DEF GetTransactionRequest, Answer
      <4>2. QED BY <4>1 DEF Fails
    <3>2. CASE \E g \in Heights : \E i \in DOMAIN Payload[g] :
                 /\ GetBlockWithTransaction(ds, t) = << g, i >> /\ GetBlock(ds, g) = g
                 /\ Payload[g][i] = t /\ \A j \in DOMAIN Payload[g] : Payload[g][j] = t => i <= j
      <4>1. PICK g \in Heights : \E i \in DOMAIN Payload[g] :
                 /\ GetBlockWithTransaction(ds, t) = << g, i >> /\ GetBlock(ds, g) = g
                 /\ Payload[g][i] = t /\ \A j \in DOMAIN Payload[g] : Payload[g][j] = t => i <= j
        BY <3>2
      <4>2. PICK i \in DOMAIN Payload[g] :
                 /\ GetBlockWithTransaction(ds, t) = << g, i >> /\ GetBlock(ds, g) = g
                 /\ Payload[g][i] = t /\ \A j \in DOMAIN Payload[g] : Payload[g][j] = t => i <= j
        BY <4>1
      <4>3. g \in Nat /\ i \in Nat /\ Len(Payload[g]) \in Nat /\ DOMAIN Payload[g] = 1 .. Len(Payload[g])
        BY HeightsAreNatural, PayloadFacts
      <4>4. << g, i >> \notin {NotFound, Missing}
        <5>1. << g, i >> \in Seq(Nat)
          BY <4>3
        <5>2. QED BY <2>2, <5>1
      <4>5. answer = TransactionAnswer(g, i)
        BY <4>2, <4>4 DEF GetTransactionRequest
      <4>6. /\ TransactionAnswer(g, i).status = 200 /\ TransactionAnswer(g, i).body.transaction = t
            /\ TransactionAnswer(g, i).body.height = g
            /\ ByHash(g, t) = i /\ TransactionByHash(g, t) = t
        BY <4>2, PayloadOperations
      <4>7. i - 1 \in 0 .. Len(Payload[g]) /\ i - 1 \in Nat /\ i - 1 < Len(Payload[g]) /\ (i - 1) + 1 = i
        <5> DEFINE m == Len(Payload[g])
        <5>1. m \in Nat /\ i \in 1 .. m
          BY <4>3
        <5> HIDE DEF m
        <5>2. i - 1 \in 0 .. m /\ i - 1 \in Nat /\ i - 1 < m /\ (i - 1) + 1 = i
          BY <5>1
        <5>3. QED BY <5>2 DEF m
      <4>8. GetTransactionAtRequest(ds, g, i - 1) = TransactionAnswer(g, i)
        <5>1. NthIndex(g, i - 1) = i /\ i # None
          BY <4>3, <4>7, PayloadOperations, NoneAssumption
        <5>2. GetBlock(ds, g) \notin {NotFound, Missing}
          BY <2>2, <4>2, <4>3
        <5>3. QED BY <5>1, <5>2 DEF GetTransactionAtRequest
      <4>9. GetBlockWithTransaction(ds, t)[2] = i
        BY <4>2
      <4> HIDE DEF answer
      <4>10. answer.status = 200 /\ answer.body.transaction = t /\ answer.body.height = g
        BY <4>5, <4>6
      <4>11. \E n \in 0 .. Len(Payload[g]) : GetTransactionAtRequest(ds, g, n) = answer
        BY <4>5, <4>7, <4>8
      <4>12. QED BY <4>6, <4>9, <4>10, <4>11 DEF answer
    <3>3. QED BY <2>1, <3>1, <3>2, TransactionPlace
  <2>4. ASSUME NEW h \in Heights, NEW n \in 0 .. Len(Payload[h]) + 1
        PROVE  LET answer == GetTransactionAtRequest(ds, h, n) IN
               /\ answer.status \in {200, 404}
               /\ answer.status = 200 => answer.body.transaction = Payload[h][n + 1]
               /\ n < Len(Payload[h]) => NthTransaction(h, n) = Payload[h][n + 1]
    <3> DEFINE answer == GetTransactionAtRequest(ds, h, n)
               m == Len(Payload[h])
    <3>1. n \in Nat /\ m \in Nat /\ DOMAIN Payload[h] = 1 .. m
      BY PayloadFacts
    <3>2. /\ NthIndex(h, n) = IF n < m THEN n + 1 ELSE None
          /\ n < m => NthTransaction(h, n) = Payload[h][n + 1]
      BY <3>1, PayloadOperations
    <3> HIDE DEF m
    <3>3. n < m => n + 1 \in DOMAIN Payload[h] /\ n + 1 # None
      BY <3>1, NoneAssumption
    <3>4. answer = Fails(404) \/ (n < m /\ answer = TransactionAnswer(h, n + 1))
      BY <3>2, <3>3 DEF GetTransactionAtRequest, Answer
    <3> HIDE DEF answer
    <3>5. CASE answer = Fails(404)
      BY <3>2, <3>5 DEF Fails, answer, m
    <3>6. CASE n < m /\ answer = TransactionAnswer(h, n + 1)
      BY <3>2, <3>3, <3>6, PayloadOperations DEF answer, m
    <3>7. QED BY <3>4, <3>5, <3>6
  <2>5. QED BY <2>3, <2>4 DEF TransactionsAreRight
<1>2. QED BY <1>1, ServiceInvariance, PTL
-----------------------------------------------------------------------------
(***************************************************************************)
(* What is indexed: as long as the process runs, and when it starts again, *)
(* nothing but what is written; and, if the cache holds the leaves of any  *)
(* one event, nothing but what can be read, also after an update or a      *)
(* commit that failed half way.  An event longer than that would leave     *)
(* leaves that are indexed and that neither the cache nor the store has.   *)
(***************************************************************************)
EventsFitCache == \A e \in Event : e.last - e.first < CacheSize

Readable(l) == \A h \in WrittenIn(l) : h # None => Available(l, h)

IndexedKept ==
  /\ IndexedAreWritten(ds)
  /\ EventsFitCache => Readable(ds.leaf_storage)

LEMMA StoredReadable ==
  ASSUME NEW l, LogInv(l), l.appended = << >>
  PROVE  Readable(l)
<1>1. WrittenIn(l) = Entries(l.store)
  BY DEF WrittenIn, Entries
<1>2. QED BY <1>1, StoredObject, StoredAvailable DEF Readable

\* What an event brought, or a part of it, is still in the cache.
LEMMA RecentReadable ==
  ASSUME NEW l, LogInv(l), Settled(l), NEW m, LogInv(m), CacheIsWritten(m), m.store = l.store,
         NEW e \in Event, EventsFitCache, NextPos(m) <= e.last + 1,
         Held(m) \subseteq Held(l) \cup (e.first .. e.last) \cup {None}
  PROVE  Readable(m)
<1> DEFINE n == NextPos(m)
           s == Len(l.store)
<1>1. /\ e.first \in Nat /\ e.last \in Nat /\ e.last - e.first < CacheSize
      /\ CacheSize \in Nat /\ n \in Nat /\ s \in Nat /\ n <= e.last + 1
  BY EventFacts, LogParts, CacheSizeAssumption DEF EventsFitCache
<1>2. \A h \in Entries(l.store) : h # None => h \in Nat /\ h < s
  BY StoredObject
<1>3. ASSUME NEW h \in Entries(m.appended), h # None PROVE h \in e.first .. e.last
  <2>1. h \in Nat /\ h >= s
    BY <1>3, AppendedObject
  <2>2. h \in Held(l) => h \in Entries(l.store)
    BY <1>3, SettledLog
  <2>3. h \notin Entries(l.store)
    <3> HIDE DEF s
    <3>1. QED BY <1>1, <1>2, <1>3, <2>1
  <2>4. h \in Held(m)
    BY DEF Held
  <2>5. QED BY <1>3, <2>2, <2>3, <2>4
<1> HIDE DEF n
<1>4. \A h \in Entries(m.appended) : h # None => h + CacheSize >= n
  <2>1. \A h \in e.first .. e.last : h + CacheSize >= n
    BY <1>1
  <2>2. QED BY <1>3, <2>1
<1>5. RecentlyAppended(m)
  BY <1>4 DEF RecentlyAppended, n
<1>6. \A h \in WrittenIn(m) : h # None => h \in Nat
  BY StoredObject, AppendedObject DEF WrittenIn
<1>7. QED BY <1>5, <1>6, ReadableIsWritten DEF Readable

LEMMA UpdateKeepsIndexed ==
  ASSUME ServiceInv, IndexedKept, Update \/ UpdateFails
  PROVE  IndexedKept'
<1> DEFINE e == loop.event
           l == ds.leaf_storage
<1>1. loop.at = "update" /\ (ds' = UpdateFrom(ds, e) \/ ds' \in FailedUpdates(ds, e))
  BY DEF Update, UpdateFails
<1>2. e \in Event /\ SourceInv(ds) /\ BothSettled(ds) /\ CachesAreWritten(ds) /\ NextPos(l) <= e.first
  BY <1>1 DEF ServiceInv, LoopKept, SourceKept, AtRest, Quiet, EventsInOrder, BothSettled, Settled, CachesAreWritten
<1>3. LogInv(l) /\ Settled(l) /\ LogsInv(ds)
  BY <1>2 DEF SourceInv, LogsInv, BothSettled
<1>4. e.first >= NextPos(l)
  <2> DEFINE p == NextPos(l)
             f == e.first
  <2>1. p \in Nat /\ f \in Nat /\ p <= f
    BY <1>2, <1>3, EventFacts, LengthsAre
  <2> HIDE DEF p, f
  <2>2. f >= p
    BY <2>1
  <2>3. QED BY <2>2 DEF p, f
<1> DEFINE H == e.first .. e.last
<1>5. ASSUME NEW x, x = UpdateFrom(ds, e) \/ x \in FailedUpdates(ds, e)
      PROVE  /\ SourceInv(x) /\ SameStores(ds, x) /\ Brings(ds, x, H) /\ IndexedAreWritten(x)
             /\ CacheIsWritten(x.leaf_storage) /\ NextPos(x.leaf_storage) <= e.last + 1
  <2> HIDE DEF e, H
  <2>1. CASE x = UpdateFrom(ds, e)
    <3> DEFINE y == UpdateFrom(ds, e)
    <3>1. SourceInv(y) /\ SameStores(ds, y)
      BY <1>2, UpdateKeeps
    <3>2. Brings(ds, y, e.first .. e.last) /\ CachesAreWritten(y) /\ NextPos(y.leaf_storage) = e.last + 1
      BY <1>2, <1>4, UpdateInOrder
    <3>3. IndexedAreWritten(y)
      BY <1>2, <1>4, UpdateIndexed DEF IndexedKept
    <3>4. e.last + 1 <= e.last + 1
      BY <1>2, EventFacts
    <3> HIDE DEF y
    <3>5. x = y
      BY <2>1 DEF y
    <3>6. QED BY <3>1, <3>2, <3>3, <3>4, <3>5 DEF CachesAreWritten, H
  <2>2. CASE x \in FailedUpdates(ds, e)
    <3>1. SourceInv(x) /\ SameStores(ds, x) /\ Brings(ds, x, e.first .. e.last)
      BY <1>2, <2>2, UpdateFailsKeeps, FailedUpdateBrings
    <3>2. IndexedAreWritten(x) /\ CacheIsWritten(x.leaf_storage) /\ NextPos(x.leaf_storage) <= e.last + 1
      BY <1>2, <1>4, <2>2, FailedUpdateIndexed DEF IndexedKept
    <3>3. QED BY <3>1, <3>2 DEF H
  <2>3. QED BY <1>5, <2>1, <2>2
<1> HIDE DEF e
<1>6. PICK x : x = ds'
  OBVIOUS
<1>7. /\ SourceInv(x) /\ SameStores(ds, x) /\ Brings(ds, x, H) /\ IndexedAreWritten(x)
      /\ CacheIsWritten(x.leaf_storage) /\ NextPos(x.leaf_storage) <= e.last + 1
  BY <1>1, <1>5, <1>6
<1>8. ASSUME EventsFitCache PROVE Readable(x.leaf_storage)
  <2>1. /\ LogInv(x.leaf_storage) /\ x.leaf_storage.store = l.store
        /\ Held(x.leaf_storage) \subseteq Held(l) \cup (e.first .. e.last) \cup {None}
    BY <1>7 DEF SourceInv, LogsInv, SameStores, Brings
  <2> HIDE DEF l
  <2>2. QED BY <1>2, <1>3, <1>7, <1>8, <2>1, RecentReadable
<1>9. QED BY <1>6, <1>7, <1>8 DEF IndexedKept

LEMMA CommitKeepsIndexed ==
  ASSUME ServiceInv, IndexedKept, CommitLeafLog \/ CommitBlockLog
  PROVE  IndexedKept'
<1> DEFINE l == ds.leaf_storage
<1>1. SourceInv(ds) /\ LogInv(l) /\ IndexedAreWritten(ds)
  BY DEF ServiceInv, SourceKept, SourceInv, LogsInv, IndexedKept
<1>2. CASE CommitLeafLog
  <2>1. ds' = CommitLeaves(ds)
    BY <1>2 DEF CommitLeafLog
  <2>2. ds'.leaf_storage = CommitVersion(l) /\ IndexedAreWritten(ds')
    BY <1>1, <2>1, LeavesCommitted, CommitIndexed
  <2>3. LogInv(CommitVersion(l)) /\ CommitVersion(l).appended = << >>
    BY <1>1, CommitInv, CommitWrites
  <2> HIDE DEF l
  <2>4. Readable(CommitVersion(l))
    BY <2>3, StoredReadable
  <2>5. QED BY <2>2, <2>4 DEF IndexedKept
<1>3. CASE CommitBlockLog
  <2>1. ds' = CommitBlocks(ds)
    BY <1>3 DEF CommitBlockLog
  <2>2. ds'.leaf_storage = l
    BY <1>1, <2>1 DEF CommitBlocks, SourceInv, DataSource
  <2>3. IndexedAreWritten(ds')
    BY <1>1, <2>1, CommitIndexed
  <2>4. QED BY <2>2, <2>3 DEF IndexedKept
<1>4. QED BY <1>2, <1>3

LEMMA RestartKeepsIndexed ==
  ASSUME ServiceInv, Restart
  PROVE  IndexedKept'
<1> DEFINE l == ds.leaf_storage
           b == ds.block_storage
           nl == durable.leaves
           nb == durable.blocks
<1>1. /\ SourceInv(ds) /\ RecordedIn(ds, durable) /\ LogInv(l) /\ LogInv(b)
      /\ nl \in Nat /\ nb \in Nat /\ nl <= Len(l.store) /\ nb <= Len(b.store)
      /\ Len(l.store) \in Nat /\ Len(b.store) \in Nat
  BY LengthsAre DEF ServiceInv, SourceKept, SourceInv, LogsInv, RecordedIn
<1>2. nl \in 0 .. Len(l.store) /\ nb \in 0 .. Len(b.store)
  BY <1>1
<1>3. ds' = OpenDataSource(Loaded(l, nl, {}), Loaded(b, nb, {}))
  BY <1>1, <1>2, LoadedPrefix DEF Restart
<1>4. SourceInv(ds') /\ BothSettled(ds') /\ IndexedAreWritten(ds')
  BY <1>1, <1>3, OpenedFromRecord
<1>5. LogInv(ds'.leaf_storage) /\ ds'.leaf_storage.appended = << >>
  BY <1>4 DEF SourceInv, LogsInv, BothSettled, Settled
<1>6. QED BY <1>4, <1>5, StoredReadable DEF IndexedKept

LEMMA IndexedInit ==
  ASSUME Init
  PROVE  IndexedKept
<1>1. IndexedAreWritten(EmptyDataSource)
  <2>1. \A p \in Proposers : << >> \in Seq(Heights) /\ Ascends(<< >>) /\ Entries(<< >>) = {}
    BY DEF Ascends, Entries
  <2>2. \A g \in Heights : << g >> # None
    BY HeightsAreNatural, PlaceIsNotNone
  <2>3. \A g \in Heights : \A i \in Nat : << g, i >> # None
    BY HeightsAreNatural, PlaceIsNotNone
  <2>4. QED BY <2>1, <2>2, <2>3
            DEF IndexedAreWritten, IndexedWithin, HashesWithin, PlacesWithin, ListsWithin, EmptyDataSource
<1>2. SourceInv(ds) /\ BothSettled(ds) /\ IndexedAreWritten(ds)
  BY <1>1, EmptySourceInv, GenesisInserted DEF Init
<1>3. LogInv(ds.leaf_storage) /\ ds.leaf_storage.appended = << >>
  BY <1>2 DEF SourceInv, LogsInv, BothSettled, Settled
<1>4. QED BY <1>2, <1>3, StoredReadable DEF IndexedKept

LEMMA IndexedStep ==
  ASSUME ServiceInv, IndexedKept, [Next]_vars
  PROVE  IndexedKept'
<1>1. CASE ds' = ds
  BY <1>1 DEF IndexedKept
<1>2. CASE Update \/ UpdateFails
  BY <1>2, UpdateKeepsIndexed
<1>3. CASE CommitLeafLog \/ CommitBlockLog
  BY <1>3, CommitKeepsIndexed
<1>4. CASE Restart
  BY <1>4, RestartKeepsIndexed
<1>5. \/ ds' = ds \/ Update \/ UpdateFails \/ CommitLeafLog \/ CommitBlockLog \/ Restart
  BY DEF Next, UpdateTask, Decide, Startup, NextEvent, Lock, Record, CommitFails, Request, Respond, Stream, store, vars
<1>6. QED BY <1>1, <1>2, <1>3, <1>4, <1>5

\* The indices lead to what is written (`update`, `insert_leaf`, `insert_block`,
\* `open_with_store`).
THEOREM IndexedInvariance == Spec => [](ServiceInv /\ IndexedKept)
<1>1. Init => IndexedKept
  BY IndexedInit
<1>2. ServiceInv /\ IndexedKept /\ [Next]_vars => IndexedKept'
  BY IndexedStep
<1>3. Spec => []ServiceInv
  BY ServiceInvariance
<1>4. QED BY <1>1, <1>2, <1>3, PTL DEF Spec

-----------------------------------------------------------------------------
(* Restarts and proposals. *)

\* The answers depend on the indices and on what is read by number.
LEMMA SameAnswers ==
  ASSUME NEW d \in DataSource, NEW n \in DataSource, SameIndices(d, n),
         \A h \in Nat : GetLeaf(n, h) = GetLeaf(d, h) /\ GetBlock(n, h) = GetBlock(d, h)
  PROVE  Answers(n) = Answers(d)
<1>1. \A h \in Heights : h \in Nat
  BY HeightsAreNatural
<1>2. \A h \in Heights : GetLeafByHashRequest(n, h) = GetLeafByHashRequest(d, h)
  BY <1>1 DEF GetLeafByHashRequest, GetLeafByHash, SameIndices
<1>3. ASSUME NEW x \in Hashes PROVE GetBlockByHashRequest(n, x) = GetBlockByHashRequest(d, x)
  <2>1. d.index_by_block_hash[x] \in { << h >> : h \in Heights } \cup {None}
    BY DEF DataSource
  <2>2. n.index_by_block_hash = d.index_by_block_hash
    BY DEF SameIndices
  <2>3. d.index_by_block_hash[x] # None => d.index_by_block_hash[x][1] \in Nat
    BY <1>1, <2>1
  <2>4. GetBlockByHash(n, x) = GetBlockByHash(d, x)
    BY <2>2, <2>3 DEF GetBlockByHash
  <2>5. QED BY <2>4 DEF GetBlockByHashRequest
<1>4. ASSUME NEW t \in Transactions PROVE GetTransactionRequest(n, t) = GetTransactionRequest(d, t)
  <2>1. d.index_by_txn_hash[t] \in (Heights \X Nat) \cup {None}
    BY DEF DataSource
  <2>2. n.index_by_txn_hash = d.index_by_txn_hash
    BY DEF SameIndices
  <2>3. d.index_by_txn_hash[t] # None => d.index_by_txn_hash[t][1] \in Nat
    BY <1>1, <2>1
  <2>4. GetBlockWithTransaction(n, t) = GetBlockWithTransaction(d, t)
    BY <2>2, <2>3 DEF GetBlockWithTransaction
  <2>5. QED BY <2>4 DEF GetTransactionRequest
<1>5. ASSUME NEW p \in Proposers
      PROVE  /\ GetProposalsRequest(n, p, MaxHeight + 1) = GetProposalsRequest(d, p, MaxHeight + 1)
             /\ CountProposalsRequest(n, p) = CountProposalsRequest(d, p)
  <2> DEFINE ids == d.index_by_proposer_id[p]
             m == MaxHeight + 1
             from == IF Len(ids) > m THEN Len(ids) - m ELSE 0
             Leaves(x) == [ i \in 1 .. Len(ids) - from |-> GetLeaf(x, ids[from + i]) ]
             Errors(s) == { i \in DOMAIN s : s[i] \notin Nat }
  <2>1. ids \in Seq(Heights) /\ n.index_by_proposer_id[p] = ids
    BY DEF DataSource, SameIndices
  <2>2. Len(ids) \in Nat /\ \A k \in 1 .. Len(ids) : ids[k] \in Nat
    BY <1>1, <2>1, LenProperties, ElementOfSeq
  <2>3. ASSUME NEW x, x.index_by_proposer_id[p] = ids
        PROVE  GetProposals(x, p, m) = IF Errors(Leaves(x)) = {} THEN Leaves(x) ELSE Leaves(x)[Min(Errors(Leaves(x)))]
    <3> HIDE DEF ids, m
    <3>1. QED BY <2>3 DEF GetProposals
  <2>4. Leaves(n) = Leaves(d)
    <3>1. m \in Nat
      BY HeightsAreNatural
    <3>2. \A i \in 1 .. Len(ids) - from : from + i \in 1 .. Len(ids)
      <4> DEFINE c == Len(ids)
      <4>1. c \in Nat
        BY <2>2
      <4> HIDE DEF c, m
      <4>2. QED BY <3>1, <4>1
    <3> HIDE DEF ids, from
    <3>3. \A i \in 1 .. Len(ids) - from : GetLeaf(n, ids[from + i]) = GetLeaf(d, ids[from + i])
      BY <2>2, <3>2
    <3>4. QED BY <3>3
  <2> HIDE DEF Leaves, Errors, m
  <2>5. GetProposals(n, p, m) = GetProposals(d, p, m)
    BY <2>1, <2>3, <2>4
  <2>6. QED BY <2>1, <2>5 DEF GetProposalsRequest, CountProposalsRequest, CountProposals, m
<1>6. QED BY <1>2, <1>3, <1>4, <1>5 DEF Answers

\* Between two events a restart changes no answer (`open_with_store`).
THEOREM RestartsForgetNothing == Spec => []RestartForgetsNothing
<1> DEFINE leaves == ds.leaf_storage.store
           blocks == ds.block_storage.store
           n == OpenDataSource(leaves, blocks)
<1>1. ASSUME ServiceInv, IndexedKept PROVE RestartForgetsNothing
  <2>1. SUFFICES ASSUME loop.at \in {"next", "lock"} PROVE Answers(ds) = Answers(n)
    BY DEF RestartForgetsNothing
  <2>2. SourceInv(ds) /\ HasGenesis(ds) /\ BothSettled(ds) /\ IndexedAreWritten(ds)
    BY <1>1, <2>1 DEF ServiceInv, SourceKept, AtRest, Quiet, IndexedKept
  <2>3. /\ leaves \in Seq(Entry) /\ EntriesInPlace(leaves) /\ Entries(leaves) \subseteq Heights \cup {None}
        /\ blocks \in Seq(Entry) /\ EntriesInPlace(blocks) /\ Entries(blocks) \subseteq Heights \cup {None}
        /\ Len(blocks) <= Len(leaves) /\ Len(leaves) # 0 /\ Len(blocks) # 0
    <3>1. /\ LogInv(ds.leaf_storage) /\ LogInv(ds.block_storage) /\ Len(blocks) <= Len(leaves)
          /\ Len(leaves) \in Nat /\ Len(blocks) \in Nat /\ Len(leaves) >= 1 /\ Len(blocks) >= 1
      BY <2>2, LengthsAre DEF SourceInv, LogsInv, HasGenesis
    <3>2. leaves \in Seq(Entry) /\ blocks \in Seq(Entry)
      BY <3>1, LogParts
    <3>3. Entries(leaves) \subseteq Heights \cup {None} /\ Entries(blocks) \subseteq Heights \cup {None}
      BY <2>2, HeldHeights
    <3>4. EntriesInPlace(leaves) /\ EntriesInPlace(blocks)
      BY <3>1, StoreInPlace
    <3>5. Len(leaves) # 0 /\ Len(blocks) # 0
      BY <3>1
    <3>6. QED BY <3>1, <3>2, <3>3, <3>4, <3>5
  <2> HIDE DEF leaves, blocks
  <2>4. /\ SourceInv(n) /\ BothSettled(n) /\ IndexedAreWritten(n)
        /\ n.leaf_storage.store = leaves /\ n.block_storage.store = blocks
    BY <2>3, OpenedInv
  <2> HIDE DEF n
  <2>5. SameStores(ds, n)
    BY <2>4 DEF SameStores, leaves, blocks
  <2>6. SameIndices(ds, n) /\ \A h \in Nat : GetLeaf(n, h) = GetLeaf(ds, h) /\ GetBlock(n, h) = GetBlock(ds, h)
    BY <2>2, <2>4, <2>5, SameWhenSettled
  <2>7. ds \in DataSource /\ n \in DataSource
    BY <2>2, <2>4 DEF SourceInv
  <2>8. QED BY <2>6, <2>7, SameAnswers
<1>2. QED BY <1>1, IndexedInvariance, PTL

\* The proposals of p are served as `mine` has them.
AnsweredRight(p, mine) ==
  /\ CountProposalsRequest(ds, p) = OK(Cardinality(mine))
  /\ \A n \in 0 .. MaxHeight + 1 :
       GetProposalsRequest(ds, p, n).status = 200 /\ AreLatest(GetProposalsRequest(ds, p, n).body, mine, n)

\* The proposals of a proposer are those of its leaves that can be read, in order and
\* the latest first to be kept (`get_proposals`, `count_proposals`), if the cache holds
\* the leaves of any one event.
THEOREM ProposalsCorrect ==
  ASSUME EventsFitCache
  PROVE  Spec => []ProposalsAreChronological
<1>1. ASSUME ServiceInv, IndexedKept PROVE ProposalsAreChronological
  <2> DEFINE l == ds.leaf_storage
             L == WrittenIn(l)
  <2>1. SourceInv(ds) /\ IndexedAreWritten(ds) /\ LogInv(l) /\ HeldIndexed(ds) /\ Readable(l)
    BY <1>1 DEF ServiceInv, SourceKept, SourceInv, LogsInv, IndexedKept
  <2>2. ASSUME NEW p \in Proposers
        PROVE  LET mine == { h \in Heights : GetLeaf(ds, h) = h /\ Proposer[h] = p }
               IN  /\ mine \in SUBSET Nat /\ Lists(ds.index_by_proposer_id[p], mine)
                   /\ \A h \in mine : GetLeaf(ds, h) = h
    <3> DEFINE mine == { h \in Heights : GetLeaf(ds, h) = h /\ Proposer[h] = p }
               S == { h \in L : h # None /\ Proposer[h] = p }
    <3>1. Lists(ds.index_by_proposer_id[p], S) /\ Entries(ds.index_by_proposer_id[p]) \subseteq S
      <4>1. Lists(ds.index_by_proposer_id[p], S)
        BY <2>1, ProposalsListed
      <4> HIDE DEF S
      <4>2. QED BY <4>1 DEF Lists, Entries
    <3>2. ASSUME NEW h \in mine PROVE h \in S
      <4>1. h \in Nat /\ h # None /\ Available(l, h)
        BY HeightsAreNatural, ValuesAssumption, NoneAssumption DEF GetLeaf, Nth, Available
      <4>2. Item(l, h) = h
        BY <4>1 DEF GetLeaf, Nth, Available
      <4>3. h \in Held(l)
        BY <2>1, <4>1, <4>2, AvailableHeld
      <4>4. h \in Entries(ds.index_by_proposer_id[p])
        BY <2>1, <4>1, <4>3 DEF HeldIndexed, LeafIndexed
      <4>5. QED BY <3>1, <4>4
    <3>3. ASSUME NEW h \in S PROVE h \in mine
      <4>1. h \in Heights /\ h \in Nat /\ Available(l, h)
        BY <2>1, HeightsAreNatural DEF HeldIndexed, LeafIndexed, Held, WrittenIn, Readable
      <4>2. Item(l, h) \in {None, h}
        BY <2>1, <4>1, ReadsInPlace DEF Available
      <4>3. GetLeaf(ds, h) = h
        BY <4>1, <4>2 DEF GetLeaf, Nth, Available
      <4>4. QED BY <4>1, <4>3
    <3>4. mine = S
      BY <3>2, <3>3
    <3>5. mine \in SUBSET Nat
      BY HeightsAreNatural
    <3>6. QED BY <3>1, <3>4, <3>5
  <2>3. ASSUME NEW p \in Proposers, NEW mine \in SUBSET Nat, Lists(ds.index_by_proposer_id[p], mine),
               \A h \in mine : GetLeaf(ds, h) = h
        PROVE  AnsweredRight(p, mine)
    <3>1. mine \in SUBSET Int
      BY <2>3
    <3>2. Cardinality(mine) = Len(ds.index_by_proposer_id[p])
      BY <2>3, <3>1, ListCounts
    <3>3. ASSUME NEW n \in 0 .. MaxHeight + 1
          PROVE  GetProposalsRequest(ds, p, n).status = 200 /\ AreLatest(GetProposalsRequest(ds, p, n).body, mine, n)
      <4> DEFINE found == GetProposals(ds, p, n)
      <4>1. n \in Nat
        BY HeightsAreNatural
      <4>2. AreLatest(found, mine, n)
        BY <2>3, <4>1, ProposalsServed
      <4> HIDE DEF found
      <4>3. found \notin {NotFound, Missing}
        BY <4>2, ValuesAssumption DEF AreLatest
      <4>4. GetProposalsRequest(ds, p, n) = [ status |-> 200, body |-> found ]
        BY <4>3 DEF GetProposalsRequest, Answer, OK, found
      <4>5. QED BY <4>2, <4>4
    <3>4. QED BY <3>2, <3>3 DEF CountProposalsRequest, CountProposals, AnsweredRight
  <2>4. ASSUME NEW p \in Proposers
        PROVE  LET mine == { h \in Heights : GetLeaf(ds, h) = h /\ Proposer[h] = p }
               IN  /\ CountProposalsRequest(ds, p) = OK(Cardinality(mine))
                   /\ \A n \in 0 .. MaxHeight + 1 :
                        LET answer == GetProposalsRequest(ds, p, n) IN
                        /\ answer.status = 200
                        /\ Range(answer.body) = { h \in mine : Cardinality({ g \in mine : g > h }) < n }
                        /\ \A i, j \in DOMAIN answer.body : i < j => answer.body[i] < answer.body[j]
    <3> DEFINE mine == { h \in Heights : GetLeaf(ds, h) = h /\ Proposer[h] = p }
    <3>1. mine \in SUBSET Nat /\ Lists(ds.index_by_proposer_id[p], mine) /\ \A h \in mine : GetLeaf(ds, h) = h
      BY <2>2
    <3> HIDE DEF mine
    <3>2. AnsweredRight(p, mine)
      BY <2>3, <3>1
    <3>3. /\ CountProposalsRequest(ds, p) = OK(Cardinality(mine))
          /\ \A n \in 0 .. MaxHeight + 1 :
               LET answer == GetProposalsRequest(ds, p, n) IN
               /\ answer.status = 200
               /\ Range(answer.body) = { h \in mine : Cardinality({ g \in mine : g > h }) < n }
               /\ \A i, j \in DOMAIN answer.body : i < j => answer.body[i] < answer.body[j]
      BY <3>2 DEF AnsweredRight, AreLatest
    <3>4. QED BY <3>3 DEF mine
  <2>5. QED BY <2>4 DEF ProposalsAreChronological
<1>2. QED BY <1>1, IndexedInvariance, PTL
=============================================================================
