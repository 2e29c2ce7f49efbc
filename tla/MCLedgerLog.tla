---------------------------- MODULE MCLedgerLog ----------------------------
(* A small instance of LedgerLog: see the README for the bounds. *)
EXTENDS LedgerLog

CONSTANT c1

\* Nothing fails to load, or the oldest entry does.
MCLoadFailures == { {}, {0} }
MCOneClient == { c1 }
=============================================================================
