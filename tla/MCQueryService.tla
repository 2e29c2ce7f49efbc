---------------------------- MODULE MCQueryService ----------------------------
(* QueryService on a small ledger: see the README for the bounds. *)
EXTENDS QueryService, MCLedger

CONSTANTS c1, c2
MCClients     == {c1, c2}
MCSubscribers == {c1}
MCStarts      == {0, 2}
=============================================================================
