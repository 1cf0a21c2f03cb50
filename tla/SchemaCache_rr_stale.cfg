\* A cache filled under a REPEATABLE READ snapshot.
SPECIFICATION Spec
CONSTANTS
  None = None
  Backends = {b1, b2}
  Names = {n1}
  Capacity = 1
  MaxVersion = 2
  MaxOid = 1
  Corrupt = {}
  Levels = {"rc", "rr"}
  DetoastOnLoad = FALSE
  LookupInDml = FALSE
  ReplicaRole = FALSE
  Window = "transaction"
SYMMETRY Interchangeable
INVARIANTS
  Coherence
