------------------------------- MODULE MCLedger -------------------------------
(* The small ledger on which the data sources are checked. *)
EXTENDS Naturals, Sequences

CONSTANTS alice, bob, b0, b1, b2, tx, ty

\* Two proposers take turns; the blocks at heights 1 and 3 are duplicates; tx is
\* in the blocks at heights 1 and 2, twice in the latter.
MCProposer  == [ h \in 0 .. 6 |-> IF h \in {1, 3, 6} THEN bob ELSE alice ]
MCBlockHash == [ h \in 0 .. 6 |-> CASE h = 0 -> b0 [] h \in {1, 3, 6} -> b1 [] OTHER -> b2 ]
MCPayload   == [ h \in 0 .. 6 |-> CASE h = 1 -> << tx >> [] h = 2 -> << ty, tx, tx >> [] OTHER -> << >> ]
=============================================================================
