CONSTANTS
  Migration <- MCMigration
  Defaults <- MCDefaults
  MaxMigrations = 3
SPECIFICATION Spec
INVARIANT MergeIsByVersion
PROPERTY SchemaIsWhole
