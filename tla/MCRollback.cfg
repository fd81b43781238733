SPECIFICATION Spec
CONSTANTS
  Source <- MCOneSource
  Migrator = {m1}  Script = {}  Remover = {}
  MaxCustomers = 1  MaxBusy = 1
INVARIANT RollbackSucceeds
CHECK_DEADLOCK FALSE
