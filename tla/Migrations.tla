------------------------------ MODULE Migrations ------------------------------
(***************************************************************************)
(* The schema of the SQL data source's database (data_source/sql.rs): the  *)
(* migrations that come with a release, the custom ones an application     *)
(* adds, and what `connect` does with them to a database that earlier      *)
(* releases have left behind.                                              *)
(*                                                                         *)
(* Of the library refinery (external) the module has what the code relies  *)
(* on: it keeps a history of the applied migrations in the database,       *)
(* refuses to go on from one that contradicts the migrations it is given,  *)
(* and applies the missing ones in one transaction (`set_grouped`).        *)
(***************************************************************************)
EXTENDS Naturals, FiniteSets, SequencesExt

CONSTANTS
  Migration,     \* the custom migrations: records of a `version` and a `name`
  Defaults,      \* the default migrations of each release of the software
  MaxMigrations  \* bound: a configuration has so many custom migrations

\* What `default_migrations` panics without: the versions are increasing, positive
\* multiples of ten.
ASSUME DefaultsAssumption ==
  \A default \in Defaults :
    /\ \A i \in DOMAIN default : default[i].version > 0 /\ default[i].version % 10 = 0
    /\ \A i, j \in DOMAIN default : i < j => default[i].version < default[j].version

VARIABLES
  release,  \* the default migrations of the software that runs
  config,   \* the configuration it is about to connect with
  applied,  \* the history in the database
  result    \* what the last `connect` came to

vars == << release, config, applied, result >>

NewConfig == [ migrations |-> << >>, no_migrations |-> FALSE ]

Init ==
  /\ release \in Defaults
  /\ config = NewConfig
  /\ applied = << >>
  /\ result = "none"

-----------------------------------------------------------------------------
(* The migrations of a connection *)

Versions(s) == { s[i].version : i \in DOMAIN s }

Increasing(s) == \A i \in 1 .. Len(s) - 1 : s[i].version < s[i + 1].version

\* `validate_migrations`: the migrations sorted by version, which are an error
\* unless no version comes twice.
Sorted(s)   == SortSeq(s, LAMBDA m, n : m.version < n.version)
Validate(s) == IF Increasing(Sorted(s)) THEN Sorted(s) ELSE "invalid"

\* Mutant: a default migration is preferred to the custom one of its version.
AddCustomMigrationsInVain(default, custom) ==
  LET merge[i \in 1 .. Len(default) + 1, j \in 1 .. Len(custom) + 1] ==
        CASE i > Len(default) -> SubSeq(custom, j, Len(custom))
          [] j > Len(custom) \/ default[i].version < custom[j].version ->
               << default[i] >> \o merge[i + 1, j]
          [] default[i].version > custom[j].version -> << custom[j] >> \o merge[i, j + 1]
          [] default[i].version = custom[j].version -> << default[i] >> \o merge[i + 1, j + 1]
  IN  merge[1, 1]

\* `add_custom_migrations`: two sorted sequences merged, a pair of equal versions
\* reduced to the custom migration.
AddCustomMigrations(default, custom) ==
  LET merge[i \in 1 .. Len(default) + 1, j \in 1 .. Len(custom) + 1] ==
        CASE i > Len(default) -> SubSeq(custom, j, Len(custom))
          [] j > Len(custom) -> SubSeq(default, i, Len(default))
          [] OTHER ->
               IF default[i].version < custom[j].version THEN << default[i] >> \o merge[i + 1, j]
               ELSE << custom[j] >> \o
                    merge[i + IF default[i].version = custom[j].version THEN 1 ELSE 0, j + 1]
  IN  merge[1, 1]

\* The migrations `connect` expects, of a valid configuration.
Expected == AddCustomMigrations(release, Sorted(config.migrations))

-----------------------------------------------------------------------------
(* What refinery makes of them *)

\* A migration of the history is not expected at all, or with other contents; one
\* that is expected was left out, below the last of the history.
Missing   == \E i \in DOMAIN applied : applied[i].version \notin Versions(Expected)
Divergent == \E i \in DOMAIN applied : applied[i] \notin Range(Expected)
                                       /\ applied[i].version \in Versions(Expected)
Overtaken ==
  /\ applied # << >>
  /\ \E m \in Range(Expected) : /\ m.version \notin Versions(applied)
                                /\ m.version <= Last(applied).version

Contradicted == Missing \/ Divergent \/ Overtaken

LastOf(s) == IF s = << >> THEN { } ELSE { Last(s) }

Unapplied == SelectSeq(Expected, LAMBDA m : m.version \notin Versions(applied))

-----------------------------------------------------------------------------
(* Behaviour *)

\* `Config::migrations` and `Config::no_migrations`.
AddMigration(m) ==
  /\ Len(config.migrations) < MaxMigrations
  /\ config' = [ config EXCEPT !.migrations = Append(@, m) ]
  /\ UNCHANGED << release, applied, result >>

NoMigrations ==
  /\ config' = [ config EXCEPT !.no_migrations = TRUE ]
  /\ UNCHANGED << release, applied, result >>

\* The process ends, and one of any release begins, with a configuration to make.
Deploy(default) ==
  /\ release' = default
  /\ config' = NewConfig
  /\ result' = "none"
  /\ UNCHANGED applied

\* `connect` has not been called by this process: its `?`s return from it, and the
\* configuration is gone.
Connecting == result = "none" /\ UNCHANGED << release, config >>

\* The server or the database cannot be connected to, or the history not be read.
ConnectUnreachable ==
  /\ Connecting
  /\ result' = "unreachable"
  /\ UNCHANGED applied

ConnectInvalid ==
  /\ Connecting
  /\ Validate(config.migrations) = "invalid"
  /\ result' = "invalid"
  /\ UNCHANGED applied

\* Without migrations: the last of the history is compared with the last expected.
ConnectChecking ==
  /\ Connecting
  /\ config.no_migrations
  /\ Validate(config.migrations) # "invalid"
  /\ result' = IF LastOf(applied) = LastOf(Expected) THEN "ok" ELSE "out of date"
  /\ UNCHANGED applied

\* Mutant: the error of a run is logged and not returned.
ConnectMigratingRegardless ==
  /\ Connecting
  /\ ~ config.no_migrations
  /\ Validate(config.migrations) # "invalid"
  /\ result' = "ok"
  /\ applied' = IF Contradicted THEN applied ELSE applied \o Unapplied

ConnectMigrating ==
  /\ Connecting
  /\ ~ config.no_migrations
  /\ Validate(config.migrations) # "invalid"
  /\ IF Contradicted
     THEN result' = "contradicted" /\ UNCHANGED applied
     ELSE result' = "ok" /\ applied' = applied \o Unapplied

\* Mutant: the migrations are not grouped, so that those before the failing one
\* stay applied.
MigrationFailsUngrouped ==
  /\ Connecting
  /\ ~ config.no_migrations
  /\ Validate(config.migrations) # "invalid"
  /\ ~ Contradicted
  /\ Unapplied # << >>
  /\ result' = "failed"
  /\ applied' = applied \o SubSeq(Unapplied, 1, Len(Unapplied) - 1)

\* One of the migrations to apply fails: the transaction takes the others with it.
MigrationFails ==
  /\ Connecting
  /\ ~ config.no_migrations
  /\ Validate(config.migrations) # "invalid"
  /\ ~ Contradicted
  /\ Unapplied # << >>
  /\ result' = "failed"
  /\ UNCHANGED applied

Next ==
  \/ result = "none" /\ \E m \in Migration : AddMigration(m)
  \/ result = "none" /\ NoMigrations
  \/ \E default \in Defaults : Deploy(default)
  \/ ConnectUnreachable \/ ConnectInvalid \/ ConnectChecking
  \/ ConnectMigrating \/ MigrationFails

Spec == Init /\ [][Next]_vars

-----------------------------------------------------------------------------
(* Properties *)

\* The migrations of a valid configuration are its custom ones and those default
\* ones that none of them replaces, in the order of their versions, whichever order
\* they were given in.
MergeIsByVersion ==
  Validate(config.migrations) # "invalid" =>
    /\ Increasing(Expected)
    /\ Range(Expected) = Range(config.migrations) \cup
         { m \in Range(release) : m.version \notin Versions(config.migrations) }

\* The schema is always that of one release and configuration that connected: the
\* history changes in one step only, of a connection that succeeds, and to just the
\* migrations that this one expects.  A connection that fails, in whichever of its
\* migrations or because it found another history than its own, leaves everything as
\* the last that succeeded left it.  Who has connected without `no_migrations` finds
\* just the migrations it expects.
SchemaIsWhole ==
  [][ /\ applied' # applied => result' = "ok" /\ Increasing(applied')
      /\ result' = "ok" /\ ~ config'.no_migrations => applied' = Expected' ]_vars
=============================================================================
