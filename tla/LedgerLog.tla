----------------------------- MODULE LedgerLog -----------------------------
(***************************************************************************)
(* One LedgerLog (data_source/ledger_log.rs) under its owner: objects      *)
(* arrive in any order, versions are committed and reverted, the           *)
(* AtomicStore makes committed versions durable, the process stops at any  *)
(* point and reopens the log, and clients subscribe from any height.       *)
(***************************************************************************)
EXTENDS LedgerLogOps

CONSTANTS
  MaxHeight,     \* bound: objects are inserted at 0 .. MaxHeight
  MaxRevert,     \* bound: most pending inserts the owner ever reverts
  LoadFailures,  \* sets of positions that may fail to load when reopening
  Clients        \* holders of at most one subscription each

ASSUME BoundsAssumption == MaxHeight \in Nat /\ MaxRevert \in Nat
ASSUME LoadFailuresAssumption == LoadFailures \subseteq SUBSET Nat

VARIABLES
  log,      \* the LedgerLog
  durable,  \* number of entries in the version the AtomicStore last recorded
  subs      \* the subscriptions

vars == << log, durable, subs >>

Heights == 0 .. MaxHeight

(***************************************************************************)
(* A subscription is the stream `subscribe` returns: the prefix, then the  *)
(* broadcast channel with its first `skip` items dropped.  `inbox` is what *)
(* the prefix and the channel still hold, `got` what the client was given. *)
(***************************************************************************)
Closed == [ open |-> FALSE, from |-> 0, skip |-> 0, inbox |-> << >>, got |-> << >> ]

Subscription ==
  [ open : BOOLEAN, from : Nat, skip : Nat, inbox : Seq(Entry), got : Seq(Entry) ]

TypeOK ==
  /\ log \in LogType
  /\ durable \in Nat
  /\ subs \in [ Clients -> Subscription ]

-----------------------------------------------------------------------------
Init ==
  /\ log = EmptyLog
  /\ durable = 0
  /\ subs = [ c \in Clients |-> Closed ]

\* `insert` of the object for height h.
Insert(h) ==
  /\ log' = InsertObject(log, h, h)
  /\ UNCHANGED << durable, subs >>

\* `insert` of an object at or past the end that fails at one of its writes.
InsertFails(h, k) ==
  /\ h >= NextPos(log)
  /\ k \in 1 .. h - NextPos(log)
  /\ log' = InsertFailing(log, h, h, k)
  /\ UNCHANGED << durable, subs >>

\* `commit_version`: every open subscription receives what is broadcast.
Commit ==
  /\ log' = CommitVersion(log)
  /\ subs' = [ c \in Clients |->
                 IF subs[c].open
                 THEN [ subs[c] EXCEPT !.inbox = @ \o Broadcast(log) ]
                 ELSE subs[c] ]
  /\ UNCHANGED durable

\* `revert_version`.
Revert ==
  /\ log.pending_inserts <= MaxRevert
  /\ log' = RevertVersion(log)
  /\ UNCHANGED << durable, subs >>

\* The owner's AtomicStore records the version of the log as the one to load.
Persist ==
  /\ durable' = Len(log.store)
  /\ UNCHANGED << log, subs >>

\* The process stops and opens the log again.  The version last recorded is
\* loaded, save for the entries that cannot be read; all streams have ended.
Reopen(unreadable) ==
  /\ log' = OpenLog([ i \in 1 .. durable |->
                        IF i - 1 \in unreadable THEN None ELSE log.store[i] ])
  /\ subs' = [ c \in Clients |-> Closed ]
  /\ UNCHANGED durable

\* `subscribe(from)`, when it does not return None.
Subscribe(c, from) ==
  /\ ~ subs[c].open
  /\ CanSubscribe(log, from)
  /\ subs' = [ subs EXCEPT ![c] = [ open  |-> TRUE,
                                    from  |-> from,
                                    skip  |-> Skipped(log, from),
                                    inbox |-> Prefix(log, from),
                                    got   |-> << >> ] ]
  /\ UNCHANGED << log, durable >>

\* The client's stream drops an item before `from` ...
Drop(c) ==
  /\ subs[c].open /\ subs[c].skip > 0 /\ subs[c].inbox # << >>
  /\ subs' = [ subs EXCEPT ![c].skip = @ - 1, ![c].inbox = Tail(@) ]
  /\ UNCHANGED << log, durable >>

\* ... or yields one.
Receive(c) ==
  /\ subs[c].open /\ subs[c].skip = 0 /\ subs[c].inbox # << >>
  /\ subs' = [ subs EXCEPT ![c].inbox = Tail(@),
                           ![c].got   = Append(@, Head(subs[c].inbox)) ]
  /\ UNCHANGED << log, durable >>

\* The client goes away; sending to it is no error.
Unsubscribe(c) ==
  /\ subs[c].open
  /\ subs' = [ subs EXCEPT ![c] = Closed ]
  /\ UNCHANGED << log, durable >>

Next ==
  \/ \E h \in Heights : Insert(h) \/ \E k \in Heights : InsertFails(h, k)
  \/ Commit
  \/ Revert
  \/ Persist
  \/ \E unreadable \in LoadFailures : Reopen(unreadable)
  \/ \E c \in Clients :
       \/ \E from \in Heights : Subscribe(c, from)
       \/ Drop(c)
       \/ Receive(c)
       \/ Unsubscribe(c)

Spec == Init /\ [][Next]_vars

\* An executor that keeps polling the clients' streams.
FairSpec == Spec /\ \A c \in Clients : WF_vars(Drop(c) \/ Receive(c))
-----------------------------------------------------------------------------
(* Properties *)

\* Everything written to the store so far, committed or not.
Written == log.store \o log.appended

\* The height readers see is the number of entries written, the position the
\* next append goes to: cache, eviction and popping agree with the store.
HeightIsWritten == IterLen(log) = NextPos(log)

\* Writing entries one after the other, as the loop in `insert` does, and the
\* closed form StoreAll that the model uses are the same, for every position that
\* an object may come for.
InsertLoopIsStoreAll ==
  \A h \in NextPos(log) .. NextPos(log) + MaxHeight :
    StoreAll(log, Padded(log, h, h)) = StoreEach(log, Padded(log, h, h))

\* A read at a position yields what was written there or, where a placeholder
\* was written, the object that arrived for it later: never the object of
\* another height, and never a placeholder for an object that is in the store.
ReadsMatchWrites ==
  \A i \in 0 .. IterLen(log) - 1 :
    Yields(log, i) => /\ Item(log, i) \in {None, i}
                      /\ Written[i + 1] # None => Item(log, i) = Written[i + 1]

\* As long as no more than a cacheful of entries is uncommitted, every position
\* below the height can be read, uncommitted ones included.
UncommittedIsVisible ==
  log.pending_inserts <= CacheSize => \A i \in 0 .. IterLen(log) - 1 : Yields(log, i)

\* Each client has been given the objects from its height on, consecutively,
\* whichever part came from the prefix and whichever from the channel.
StreamsAreContiguous ==
  \A c \in Clients : \A k \in 1 .. Len(subs[c].got) :
    subs[c].got[k] = subs[c].from + k - 1

\* What is on the way to a client joins what it has got to what will be
\* broadcast next: no object falls between prefix and channel or comes twice.
NothingIsLostOrRepeated ==
  \A c \in Clients : LET s == subs[c] IN
    s.open => s.from + Len(s.got) - s.skip + Len(s.inbox) = log.stream_pos

\* What was broadcast is available as a prefix: a client can subscribe from wherever an
\* earlier one was given objects, unless one of them came late and has left the
\* cache.  (A late object is broadcast from the cache, and its placeholder stays in the
\* store; the comment of `subscribe` knows no such exception.)
PrefixIsAvailable ==
  \A from \in 0 .. log.stream_pos : \/ CanSubscribe(log, from)
                                   \/ \E i \in from .. log.stream_pos - 1 :
                                        i < log.cache_start /\ log.store[i + 1] = None

\* Once an object is part of the durable version, no insert, eviction, revert
\* or restart takes it from the readers, unless it can no longer be loaded.
DurableStaysReadable ==
  [][ \A i \in 0 .. durable - 1 :
        /\ log.store[i + 1] = i
        /\ i \notin UNION LoadFailures
        => Yields(log', i) /\ Item(log', i) = i ]_vars

\* A subscription is an ordered stream: prefix, channel and skipping together
\* do what OrderedStream promises, and polled streams do not stall.
Streams == INSTANCE OrderedStream WITH
  Positions <- Heights,
  frontier  <- log.stream_pos,
  streams   <- [ c \in Clients |->
                   [ open |-> subs[c].open, from |-> subs[c].from, got |-> subs[c].got ] ]

ImplementsOrderedStream == Streams!FairSpec
=============================================================================
