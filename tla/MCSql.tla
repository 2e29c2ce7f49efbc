--------------------------------- MODULE MCSql ---------------------------------
(* SqlDataSource on a small ledger: see the README for the bounds. *)
EXTENDS SqlDataSource, MCLedger

CONSTANT c1
MCOneClient == {c1}
=============================================================================
