---------------------------- MODULE MCFileSystem ----------------------------
(* FileSystemDataSource on a small ledger: see the README for the bounds. *)
EXTENDS FileSystemDataSource, MCLedger

MCNone        == {}
MCAllSteps    == {"blocks", "top"}
MCLoads       == { {} }
MCLateFailing == { {}, {1} }
=============================================================================
