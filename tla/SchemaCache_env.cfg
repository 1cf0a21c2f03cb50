\* Every environment at once: both isolation levels, schemas stored out of line,
\* extension calls inside catalog DML, replica sessions, a second CREATE EXTENSION.
SPECIFICATION Spec
CONSTANTS
  None = None
  Backends = {b1}
  Names = {n1, n2}
  Capacity = 1
  MaxVersion = 2
  MaxOid = 2
  Corrupt = {}
  Levels = {"rc", "rr"}
  DetoastOnLoad = TRUE
  LookupInDml = TRUE
  ReplicaRole = TRUE
  Window = "transaction"
SYMMETRY Interchangeable
INVARIANTS
  TypeOK
