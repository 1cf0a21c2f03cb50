\* Liveness in the environment of SchemaCache_rc.
SPECIFICATION FairSpec
CONSTANTS
  None = None
  Backends = {b1, b2}
  Names = {n1}
  Capacity = 1
  MaxVersion = 1
  MaxOid = 1
  Corrupt = {}
  Levels = {"rc"}
  DetoastOnLoad = FALSE
  LookupInDml = FALSE
  ReplicaRole = FALSE
  Window = "transaction"
PROPERTIES
  BusyBackendsConverge
