--------------------------- MODULE MCSchemaCache ---------------------------
(* Instances of SchemaCache for TLC. *)
EXTENDS SchemaCache, TLC

(* Backends are interchangeable, and so are names: the specification only  *)
(* compares them for equality. Not used where a liveness property is       *)
(* checked.                                                                *)
Interchangeable == Permutations(Backends) \cup Permutations(Names)
=============================================================================
