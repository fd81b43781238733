SPECIFICATION Spec
CONSTANTS
  Source <- MCSource
  Migrator = {m1, m2}  Script = {s1}  Remover = {x1, x2}
  MaxCustomers = 2  MaxBusy = 2
SYMMETRY Alike
INVARIANTS TypeOK ChargedOnce LedgerFollowsWriters SucceededMeansComplete PlainMigrationValidates
CHECK_DEADLOCK FALSE
