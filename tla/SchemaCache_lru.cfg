\* One backend, more schemas than the cache holds, a corrupt row: eviction and
\* reload between writes of the same backend.
SPECIFICATION Spec
CONSTANTS
  None = None
  Backends = {b1}
  Names = {n1, n2, n3}
  Capacity = 2
  MaxVersion = 4
  MaxOid = 1
  Corrupt = {4}
  Levels = {"rc"}
  DetoastOnLoad = FALSE
  LookupInDml = FALSE
  ReplicaRole = FALSE
  Window = "transaction"
SYMMETRY Interchangeable
INVARIANTS
  LruWellFormed
  CallbackArmed
  NoPhantomSchema
  Coherence
