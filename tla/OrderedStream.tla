---------------------------- MODULE OrderedStream ----------------------------
(***************************************************************************)
(* What a stream of ledger objects promises (availability.toml, stream/... *)
(* and `subscribe_leaves`, `subscribe_blocks` of the data sources): a      *)
(* client that subscribes from a height is given the object of that height *)
(* and then of every following one, each once and in order, up to a        *)
(* frontier that only a restart sets back; a restart ends every stream.    *)
(* Nothing here says how: no log, cache, prefix, channel or skipping.      *)
(***************************************************************************)
EXTENDS Integers, Sequences

CONSTANTS Clients, Positions

VARIABLES
  frontier,  \* every object before this height has been made available
  streams    \* for each client whether it listens, from where, and its objects

sVars == << frontier, streams >>

Idle == [ open |-> FALSE, from |-> 0, got |-> << >> ]

Init ==
  /\ frontier = 0
  /\ streams = [ c \in Clients |-> Idle ]

Advance ==
  /\ frontier' > frontier
  /\ UNCHANGED streams

Restart ==
  /\ frontier' \in 0 .. frontier
  /\ streams' = [ c \in Clients |-> Idle ]

Open(c, from) ==
  /\ ~ streams[c].open
  /\ streams' = [ streams EXCEPT ![c] = [ open |-> TRUE, from |-> from, got |-> << >> ] ]
  /\ UNCHANGED frontier

\* The next height client c is to be given.
Due(c) == streams[c].from + Len(streams[c].got)

Deliver(c) ==
  /\ streams[c].open
  /\ Due(c) < frontier
  /\ streams' = [ streams EXCEPT ![c].got = Append(@, Due(c)) ]
  /\ UNCHANGED frontier

Close(c) ==
  /\ streams[c].open
  /\ streams' = [ streams EXCEPT ![c] = Idle ]
  /\ UNCHANGED frontier

Next ==
  \/ Advance
  \/ Restart
  \/ \E c \in Clients : (\E from \in Positions : Open(c, from)) \/ Deliver(c) \/ Close(c)

Spec == Init /\ [][Next]_sVars

FairSpec == Spec /\ \A c \in Clients : WF_sVars(Deliver(c))
=============================================================================
