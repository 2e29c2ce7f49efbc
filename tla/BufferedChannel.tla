---------------------------- MODULE BufferedChannel ----------------------------
(***************************************************************************)
(* A channel that buffers the messages sent on it until they are flushed   *)
(* (data_source/buffered_channel.rs).  A receiver reads a FIFO that is     *)
(* never full and never loses a message, so that a message is taken to be  *)
(* received when it is delivered.  What a receiver was given before it     *)
(* subscribed (the current rows of a query) is the beginning of what it    *)
(* received.                                                               *)
(***************************************************************************)
EXTENDS Sequences

CONSTANTS
  Clients,   \* the possible receivers
  NoStream   \* in place of what was received: not subscribed

ChannelType(Message) ==
  [ pending : Seq(Message), received : [ Clients -> Seq(Message) \cup {NoStream} ] ]

\* `init`
NewChannel == [ pending |-> << >>, received |-> [ c \in Clients |-> NoStream ] ]

\* `subscribe`, by a client that was already given the messages `current`
Subscribed(ch, c, current) == [ ch EXCEPT !.received[c] = current ]

\* `push`
Push(ch, msg) == [ ch EXCEPT !.pending = Append(@, msg) ]

\* `flush`: every pending message, to the clients subscribed by now
Flush(ch) ==
  [ pending  |-> << >>,
    received |-> [ c \in Clients |-> IF ch.received[c] = NoStream THEN NoStream
                                     ELSE ch.received[c] \o ch.pending ] ]

\* Mutant: nothing is dropped.
ClearNothing(ch) == ch

\* `clear`
Clear(ch) == [ ch EXCEPT !.pending = << >> ]
=============================================================================
