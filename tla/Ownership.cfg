SPECIFICATION Spec
CONSTANTS
  Programs <- MCPrograms
  KnownDefects <- MCKnownDefects
  MaxObjects = 32
INVARIANTS
  TypeOK
  NoFault
  NoLeak
  OutputsOwned
CHECK_DEADLOCK FALSE
