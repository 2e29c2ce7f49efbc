----------------------------- MODULE QueryService -----------------------------
(***************************************************************************)
(* `run_standalone_service` (lib.rs): one task updates the data source     *)
(* with the events of HotShot while the handlers of the web server read    *)
(* it, all behind one RwLock; the first error ends the task but not the    *)
(* server.  The data source is the file system data source, with its own   *)
(* AtomicStore, behind the routes of AvailabilityApi.                      *)
(*                                                                         *)
(* HotShot is modelled from its use here: consensus, once started, decides *)
(* leaf after leaf and puts each event into the streams that exist by then.*)
(* So is the lock, async_std's: any number of readers or one writer, and a *)
(* reader that comes while a writer waits waits too.                       *)
(***************************************************************************)
EXTENDS AvailabilityApi

CONSTANTS
  Clients,      \* clients of the web server
  Subscribers,  \* those that may open a stream
  NoStream,     \* a client that has no stream open
  Starts,       \* bound: the heights that streams are asked for from
  MaxQueue      \* bound: events that HotShot is ahead of the service

\* Positions are unsigned.
ASSUME StartsAssumption == Starts \subseteq Nat

VARIABLES
  ds, durable,  \* the data source and what its AtomicStore recorded
  hotshot,      \* what HotShot has decided and not yet handed over
  loop,         \* where the update task is, with which event
  clients,      \* the request each client has made of the server
  streams,      \* the stream each client has open
  told          \* the objects a request could see while the loop was running

store == << ds, durable >>
vars == << ds, durable, hotshot, loop, clients, streams, told >>

NoEvent == [ first |-> 1, last |-> 0, payloads |-> {} ]

Steps == {"subscribe", "start", "next", "lock", "update", "leaves", "blocks", "record", "stopped"}

\* HotShot in a process that has just begun: it goes on from what it had decided.
Resumed(decided) ==
  [ started |-> FALSE, listened |-> FALSE, resumed |-> decided + 1,
    decided |-> decided, queue |-> << >> ]

Init ==
  /\ ds = InsertGenesis(EmptyDataSource)
  /\ durable = [ leaves |-> 0, blocks |-> 0 ]
  /\ hotshot = Resumed(0)
  /\ loop = [ at |-> "subscribe", event |-> NoEvent ]
  /\ clients = [ c \in Clients |-> "idle" ]
  /\ streams = [ c \in Clients |-> NoStream ]
  /\ told = {}

-----------------------------------------------------------------------------
(* The lock *)

\* Mutant: the write lock is held for the update only.
WritingUpdateOnly == loop.at = "update"

Writing == loop.at \in {"update", "leaves", "blocks", "record"}
Reading(c) == clients[c] = "reading"

\* Mutant: a reader need not wait for a waiting writer.
MayReadOvertaking == ~ Writing

MayRead  == ~ Writing /\ loop.at # "lock"
MayWrite == \A c \in Clients : ~ Reading(c)

-----------------------------------------------------------------------------
(* HotShot *)

\* Consensus decides the next leaves.
Decide(e) ==
  /\ hotshot.started
  /\ e.first = hotshot.decided + 1
  /\ Len(hotshot.queue) < MaxQueue
  /\ hotshot' = [ hotshot EXCEPT !.decided = e.last,
                                 !.queue   = IF hotshot.listened THEN Append(@, e) ELSE @ ]
  /\ UNCHANGED << store, loop, clients, streams, told >>

-----------------------------------------------------------------------------
(* The update task *)

\* Mutant: consensus is started before the event stream is asked for.
StartupBackwards ==
  /\ \/ /\ loop.at = "subscribe"
        /\ hotshot' = [ hotshot EXCEPT !.started = TRUE ]
        /\ loop' = [ loop EXCEPT !.at = "start" ]
     \/ /\ loop.at = "start"
        /\ hotshot' = [ hotshot EXCEPT !.listened = TRUE ]
        /\ loop' = [ loop EXCEPT !.at = "next" ]
  /\ UNCHANGED << store, clients, streams, told >>

\* The server is up; the task asks for the event stream, then starts consensus.
Startup ==
  /\ \/ /\ loop.at = "subscribe"
        /\ hotshot' = [ hotshot EXCEPT !.listened = TRUE ]
        /\ loop' = [ loop EXCEPT !.at = "start" ]
     \/ /\ loop.at = "start"
        /\ hotshot' = [ hotshot EXCEPT !.started = TRUE ]
        /\ loop' = [ loop EXCEPT !.at = "next" ]
  /\ UNCHANGED << store, clients, streams, told >>

\* `events.next()`, then `data_source.write()` ...
NextEvent ==
  /\ loop.at = "next" /\ hotshot.queue # << >>
  /\ loop' = [ at |-> "lock", event |-> Head(hotshot.queue) ]
  /\ hotshot' = [ hotshot EXCEPT !.queue = Tail(@) ]
  /\ UNCHANGED << store, clients, streams, told >>

Lock ==
  /\ loop.at = "lock" /\ MayWrite
  /\ loop' = [ loop EXCEPT !.at = "update" ]
  /\ UNCHANGED << store, hotshot, clients, streams, told >>

\* ... `update`, wholly or up to an error ...
Update ==
  /\ loop.at = "update"
  /\ ds' = UpdateFrom(ds, loop.event)
  /\ loop' = [ loop EXCEPT !.at = "leaves" ]
  /\ UNCHANGED << durable, hotshot, clients, streams, told >>

UpdateFails ==
  /\ loop.at = "update"
  /\ ds' \in FailedUpdates(ds, loop.event)
  /\ loop' = [ loop EXCEPT !.at = "stopped" ]
  /\ UNCHANGED << durable, hotshot, clients, streams, told >>

\* ... and `commit`: the leaves, the blocks, each announced to its streams, ...
Announce(kind, log) ==
  streams' = [ c \in Clients |->
    IF streams[c] = NoStream THEN NoStream
    ELSE IF streams[c].kind # kind THEN streams[c]
         ELSE LET sent == Broadcast(log)
                  skip == IF streams[c].skip < Len(sent) THEN streams[c].skip ELSE Len(sent)
              IN  [ streams[c] EXCEPT !.skip  = @ - skip,
                                      !.items = @ \o SubSeq(sent, skip + 1, Len(sent)) ] ]

CommitLeafLog ==
  /\ loop.at = "leaves"
  /\ ds' = CommitLeaves(ds)
  /\ Announce("leaf", ds.leaf_storage)
  /\ loop' = [ loop EXCEPT !.at = "blocks" ]
  /\ UNCHANGED << durable, hotshot, clients, told >>

\* Mutant: the lock is released before the version is recorded.
CommitBlockLogUnlocking ==
  /\ loop.at = "blocks"
  /\ ds' = CommitBlocks(ds)
  /\ Announce("block", ds.block_storage)
  /\ loop' = [ at |-> "next", event |-> NoEvent ]
  /\ UNCHANGED << durable, hotshot, clients, told >>

CommitBlockLog ==
  /\ loop.at = "blocks"
  /\ ds' = CommitBlocks(ds)
  /\ Announce("block", ds.block_storage)
  /\ loop' = [ loop EXCEPT !.at = "record" ]
  /\ UNCHANGED << durable, hotshot, clients, told >>

\* Mutant: only the log of leaves belongs to the recorded version.
RecordLeavesOnly ==
  /\ loop.at = "record"
  /\ durable' = [ durable EXCEPT !.leaves = Lengths(ds).leaves ]
  /\ loop' = [ at |-> "next", event |-> NoEvent ]
  /\ UNCHANGED << ds, hotshot, clients, streams, told >>

\* ... then the version of both; the lock is released.
Record ==
  /\ loop.at = "record"
  /\ durable' = Lengths(ds)
  /\ loop' = [ at |-> "next", event |-> NoEvent ]
  /\ UNCHANGED << ds, hotshot, clients, streams, told >>

\* Any step of the commit may fail: the task returns, and the lock is released.
CommitFails ==
  /\ loop.at \in {"leaves", "blocks", "record"}
  /\ loop' = [ loop EXCEPT !.at = "stopped" ]
  /\ UNCHANGED << store, hotshot, clients, streams, told >>

-----------------------------------------------------------------------------
(* The web server *)

\* A request takes the read lock for as long as its handler runs.
Request(c) ==
  /\ clients[c] = "idle"
  /\ MayRead
  /\ clients' = [ clients EXCEPT ![c] = "reading" ]
  /\ UNCHANGED << store, hotshot, loop, streams, told >>

\* What is there for a request to see, as long as the loop runs.
Told == IF loop.at = "stopped" THEN told ELSE told \cup Visible(ds)

Respond(c) ==
  /\ Reading(c)
  /\ clients' = [ clients EXCEPT ![c] = "idle" ]
  /\ told' = Told
  /\ UNCHANGED << store, hotshot, loop, streams >>

\* A stream route only subscribes under the lock; items are sent without it.
Stream(c, kind, from) ==
  LET response == IF kind = "leaf" THEN StreamLeavesRequest(ds, from)
                  ELSE StreamBlocksRequest(ds, from)
  IN  /\ c \in Subscribers /\ Reading(c)
      /\ streams[c] = NoStream
      /\ clients' = [ clients EXCEPT ![c] = "idle" ]
      /\ streams' = [ streams EXCEPT ![c] =
           IF response.status # 200 THEN NoStream
           ELSE [ kind |-> kind, skip |-> response.body.skip, items |-> response.body.items ] ]
      /\ UNCHANGED << store, hotshot, loop, told >>

-----------------------------------------------------------------------------
(* The process stops, and a new one opens the data source.  What HotShot had   *)
(* not yet handed over is lost, and it goes on from what it had decided.       *)
Restart ==
  /\ ds' = OpenDataSource(SubSeq(ds.leaf_storage.store, 1, durable.leaves),
                            SubSeq(ds.block_storage.store, 1, durable.blocks))
  /\ hotshot' = Resumed(hotshot.decided)
  /\ loop' = [ at |-> "subscribe", event |-> NoEvent ]
  /\ clients' = [ c \in Clients |-> "idle" ]
  /\ streams' = [ c \in Clients |-> NoStream ]
  /\ UNCHANGED << durable, told >>

UpdateTask ==
  Startup \/ NextEvent \/ Lock \/ Update \/ CommitLeafLog \/ CommitBlockLog \/ Record

Next ==
  \/ \E e \in Event : Decide(e)
  \/ UpdateTask
  \/ UpdateFails
  \/ CommitFails
  \/ \E c \in Clients :
       \/ Request(c)
       \/ Respond(c)
       \/ \E from \in Starts : \E kind \in {"leaf", "block"} : Stream(c, kind, from)
  \/ Restart

\* The executor runs the update task, and handlers that have the lock finish.
Spec == Init /\ [][Next]_vars /\ WF_vars(UpdateTask) /\ \A c \in Clients : WF_vars(Respond(c))
-----------------------------------------------------------------------------
(* Properties *)

TypeOK ==
  /\ ds \in DataSource
  /\ loop.at \in Steps
  /\ loop.event \in Event \cup {NoEvent}
  /\ hotshot.queue \in Seq(Event)
  /\ \A c \in Clients : streams[c] # NoStream => streams[c].items \in Seq(Heights)

SomeoneReads == \E c \in Clients : Reading(c)
Running == loop.at # "stopped"

\* As long as the loop runs, a request or a new subscription sees whole events,
\* committed and recorded: nothing in between, whatever the loop is doing.  (Every
\* opening brings the genesis objects; they are recorded with the first event.)  The
\* height it is told is that of the leaves: the last one below it can be had, by its
\* number and by its hash, and there is none at it.
RequestsSeeWholeEvents ==
  SomeoneReads /\ Running => LET height == HeightRequest(ds).body IN
    /\ Uncommitted(ds.leaf_storage) = 0 /\ Uncommitted(ds.block_storage) = 0
    /\ Lengths(ds) \in { durable, [ leaves |-> 1, blocks |-> 1 ] }
    /\ GetLeafRequest(ds, height - 1) = OK(height - 1)
    /\ GetLeafByHashRequest(ds, height - 1) = OK(height - 1)
    /\ height \in Heights => GetLeafRequest(ds, height).status = 404

\* What a request could see while the loop ran stays to be seen, also after later
\* failures and after the process has stopped at any point and begun again.
ToldIsNeverTakenBack == told \subseteq Visible(ds)

\* A stream is ahead of what is recorded, and so of what a crash leaves, only by
\* the event that is just being committed or whose commit has failed.
StreamsAreRecorded ==
  \A c \in Clients : streams[c] # NoStream =>
    \A i \in DOMAIN streams[c].items : LET h == streams[c].items[i] IN
      \/ h < IF streams[c].kind = "leaf" THEN durable.leaves ELSE durable.blocks
      \/ h = 0
      \/ loop.at \in {"blocks", "record", "stopped"} /\ h \in loop.event.first .. loop.event.last

\* Every leaf that HotShot decided since the process began is in the data source,
\* in the event being handled, or in a waiting one: none falls between asking for
\* the events and starting consensus, nor between two events.
NoDecisionIsMissed ==
  Running => \A h \in hotshot.resumed .. hotshot.decided :
    \/ GetLeaf(ds, h) = h
    \/ h \in loop.event.first .. loop.event.last
    \/ \E i \in DOMAIN hotshot.queue : h \in hotshot.queue[i].first .. hotshot.queue[i].last

\* No request for a transaction panics, and a transaction that is found is the one
\* that was asked for; by hash and by its place the answers agree, and the place is the
\* one that the payload gives for the hash.
TransactionsAreRight ==
  /\ \A t \in Transactions : LET answer == GetTransactionRequest(ds, t) IN
       /\ answer.status \in {200, 404}
       /\ answer.status = 200 =>
            /\ answer.body.transaction = t
            /\ TransactionByHash(answer.body.height, t) = t
            /\ GetBlockWithTransaction(ds, t)[2] = ByHash(answer.body.height, t)
            /\ \E n \in 0 .. Len(Payload[answer.body.height]) :
                 GetTransactionAtRequest(ds, answer.body.height, n) = answer
  /\ \A h \in Heights : \A n \in 0 .. Len(Payload[h]) + 1 :
       LET answer == GetTransactionAtRequest(ds, h, n) IN
       /\ answer.status \in {200, 404}
       /\ answer.status = 200 => answer.body.transaction = Payload[h][n + 1]
       /\ n < Len(Payload[h]) => NthTransaction(h, n) = Payload[h][n + 1]

\* The proposals of a proposer are its leaves, each once and by height, the latest
\* when they are limited, and are counted right: after restarts, gaps and errors.
ProposalsAreChronological ==
  \A p \in Proposers :
    LET mine == { h \in Heights : GetLeaf(ds, h) = h /\ Proposer[h] = p }
    IN  /\ CountProposalsRequest(ds, p) = OK(Cardinality(mine))
        /\ \A n \in 0 .. MaxHeight + 1 :
             LET answer == GetProposalsRequest(ds, p, n) IN
             /\ answer.status = 200
             /\ Range(answer.body) = { h \in mine : Cardinality({ g \in mine : g > h }) < n }
             /\ \A i, j \in DOMAIN answer.body : i < j => answer.body[i] < answer.body[j]

\* The answers of all routes but those by number.
Answers(d) ==
  [ leaves       |-> [ h \in Heights |-> GetLeafByHashRequest(d, h) ],
    blocks       |-> [ x \in Hashes |-> GetBlockByHashRequest(d, x) ],
    transactions |-> [ t \in Transactions |-> GetTransactionRequest(d, t) ],
    proposals    |-> [ p \in Proposers |-> GetProposalsRequest(d, p, MaxHeight + 1) ],
    counts       |-> [ p \in Proposers |-> CountProposalsRequest(d, p) ] ]

\* Between two events a restart changes no answer: the indices rebuilt from the
\* logs are those that the events had built up.
RestartForgetsNothing ==
  loop.at \in {"next", "lock"} /\ durable = Lengths(ds) =>
    Answers(ds) = Answers(OpenDataSource(ds.leaf_storage.store, ds.block_storage.store))

\* A leaf that HotShot decides, with someone listening, comes to be readable and
\* recorded, however many requests there are, unless an error ends the loop or the
\* process stops.
DecisionsBecomeReadable ==
  \A h \in Heights \ {0} :
    h \in hotshot.resumed .. hotshot.decided ~>
      \/ MayRead /\ GetLeaf(ds, h) = h /\ h < durable.leaves
      \/ loop.at \in {"stopped", "subscribe"}
=============================================================================
