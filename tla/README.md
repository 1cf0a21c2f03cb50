# pg_flatbuffers in TLA+

Specifications of [pg_flatbuffers](../src/README.md), a PostgreSQL extension that
stores FlatBuffers, queries them by path and converts them to and from JSON.
TLC checks the models on small instances and TLAPS proves theorems about them for
every value of their constants. `PROJECT.json` maps each definition to the lines it
models and lists runs, findings, hazards and theorems.

Paths below are relative to `src/crates/pg_flatbuffers/src/`.

```
tlc -config SchemaCache_rc.cfg MCSchemaCache.tla      # one run
tlapm KeyedVector_proofs.tla                          # the proofs of one module
```

## The system

All code runs inside a backend, the single-threaded PostgreSQL process that serves
one connection. Backends share the catalog table and PostgreSQL's queue of
invalidation messages, and nothing else.

| component | state it keeps | operations | calls |
|---|---|---|---|
| schema cache `schema_cache.rs` | per backend: LRU of verified schemas, OID of the catalog | `lookup_schema`, `load_and_insert`, `relcache_callback`, `init` | PostgreSQL (SPI, invalidation), verifier |
| catalog and trigger `catalog.rs`, `../sql/catalog.sql` | table `flatbuffers_schemas`, shared by all | rows are written by SQL; the statement trigger queues an invalidation; a CHECK verifies `bfbs` | PostgreSQL |
| path parser and AST `query/parser.rs`, `query/ast.rs` | none (cursor over the text) | `parse` | |
| executor `query/executor/` | none (recursion over path and buffer) | `execute_with_options`: walk tables, vectors, structs, unions; look elements up by key | verifier, then unchecked reads |
| verifier `verify.rs` | none | `verify` under `Bounds`; classification of errors | flatbuffers-reflection |
| from_json `from_json.rs` | the buffer under construction | `json_to_buf` | |
| to_json `to_json.rs` | none | `buf_to_json` | unchecked reads |
| SQL functions `functions/` | none | `flatbuffers_query`, `_query_array`, `_query_multi`, `_to_json`, `_from_json`, `_verify`, `_root_type` | all of the above |
| settings `guc.rs` | GUC values of the session | getters | |
| entry point `lib.rs` | | `_PG_init` registers settings and callback | |

A query runs parser → schema cache → verifier → executor; the two JSON functions
run schema cache → (verifier →) conversion. The settings are read afresh by each
call.

What is hard, and what makes each component correct:

- **schema cache.** Writers in other backends, rollback, message queues that
  overflow, loads that overlap invalidations, eviction. Correct if no entry is stale
  for good, no statement is answered from a schema that was replaced before its
  transaction began, no uncommitted or unverified row survives, the LRU keeps its bound.
- **keyed vectors.** A writer sorts, a reader bisects, and JSON lies in between: all
  three must agree on what a key is and how keys compare. Correct if a hit is the
  element written under that key, a miss means there is none, JSON loses nothing,
  and every lookup ends.
- **parser.** Limits, and brackets that read as index or as key. Correct if every
  accepted path is within the limits and says what its text says.
- **executor.** One leaf per element reached, absent or not, in wire order, through any
  nesting; agreement of the three query functions.
- **verifier and SQL functions.** Which failures are an ERROR under which settings: with
  `strict = off` a malformed buffer is NULL but an exceeded bound is not.
- **JSON.** Depth and size bounds on both sides; what one direction writes the other
  accepts.

The hazards in `PROJECT.json` name the lines at which each of these bites.

## Modules

| module | what it is |
|---|---|
| `Lru` | the `lru` crate, as a map with a strict order of recency: get, put, clear |
| `SchemaCache` | backends, transactions, invalidation queues, trigger, cache, load |
| `SchemaRegistry` | what the cache promises, with no cache in it |
| `MCSchemaCache` | TLC instances: symmetry of backends and names |
| `SchemaCache_proofs` | theorems about `SchemaCache` and its LRU, and that it implements `SchemaRegistry` |
| `KeyedVector` | a vector of keyed tables: written, looked up, carried through JSON |
| `MCKeyedVector` | TLC instances: integers scaled down, the texts that spell them |
| `KeyedVector_proofs` | theorems about `KeyedVector` |
| `Executor` | the walk of a path through a verified buffer |
| `MCExecutor` | TLC instance: a schema, its buffers, paths, and what a path means, defined recursively |
| `Executor_proofs` | theorems about `Executor` |
| `QueryParser` | the parser of query strings, character by character where the code decides by character |
| `SqlCall` | a session: settings, and calls of the SQL functions from arguments to answer; extends `QueryParser` |
| `MCSqlCall` | TLC instance: strings, buffers, catalog rows, and the grammar, defined recursively |
| `SqlCall_proofs` | theorems about `SqlCall`, and about its parser |
| `JsonScalar` | how a scalar is read from JSON and printed, as operators |
| `JsonTree` | from_json, the verifier's limit on nesting, to_json, and from_json once more |
| `MCJsonTree` | TLC instance: a schema with every shape, documents, what they mean and what is wrong with them |
| `JsonTree_proofs`, `JsonKeys_proofs`, `JsonRoundTrip_proofs` | theorems about `JsonTree`: its recursion and its nesting; the keys of what it builds; that it builds again what it prints |
| `LeastNumber` | every nonempty set of naturals has a least element: induction, in a form the provers can apply |

### SchemaCache

A row is an opaque version; 0 is no row. Each backend has a transaction (`txn`,
`stmt`, `snapshot`, `own`), the messages of its current and earlier commands
(`current`, `prior`), its shared queue (`queue`, a set: messages are idempotent
names of relations and the order of two is not observable), and the extension's own
state: `cache`, `catalogOid`, and `load`, the progress of `load_and_insert`.

`load_and_insert` is four actions, because PostgreSQL may process invalidations in
between: `ResolveOid` (`catalog_oid`), `OpenCatalog` (the SPI query locks the
table and processes messages unless the lock is held already), `ScanCatalog` (reads
the visible row; a row stored out of line makes detoasting open another relation) and
`FinishLoad` or `FailLoad` (verify, insert). A commit is two actions: it is visible
(`Commit`) before its messages are in the queues (`SendInvalidations`).
`relcache_callback` is an operator, applied wherever PostgreSQL processes messages:
`AcceptInvalidations`, `SinvalReset`, the start of a transaction, the end of a
command (`CommandEnd`), `Abort`.

The PostgreSQL half is external and modelled from what the extension relies on:
snapshots per statement (READ COMMITTED) or per transaction (REPEATABLE READ), own
writes visible, messages of the current command discarded when it fails and those of
earlier commands processed locally again at abort, one writer per name at a time.
The environments are constants:

| constant | meaning when on |
|---|---|
| `Levels` | isolation levels in use |
| `DetoastOnLoad` | schemas are stored out of line |
| `LookupInDml` | a statement that writes the catalog also calls the extension |
| `ReplicaRole` | some session skips triggers |
| `MaxOid` 2 | the extension is dropped and created again |
| `Corrupt` | versions the verifier rejects; they reach the table by a manual edit past the CHECK, the case schema_cache.rs:191-194 guards against |

`served`, `committed`, `replaced` and `allowed` are history variables for properties.

`SchemaRegistry` is the specification a user reads: a statement is answered from its
own transaction's write, else from a row current at some time since its transaction
began. `ImplementsRegistry` maps `SchemaCache` to it.

### KeyedVector

A text is its rank among strings. `Number` gives the integer a text spells and
`Decimal` the text an integer prints as, so "2" and "02" are two texts with one
number. An element is a pair: the key its author wrote, and what
`get_any_field_string` reads from it, which is all the query and to_json see; an
integer equal to the schema default is not stored and reads as the empty string.

The vector is written once (`WriteObject`, the object form that from_json sorts;
`WriteArray`, the array form that it does not, or another writer) and then looked up
any number of times, one comparison a step (`BisectHit`, `BisectRight`,
`BisectLeft`, `BisectMiss`, `ScanElement`, `ScanMiss`), and sent through to_json
and from_json (`Reload`). `kind` picks the type of the key field. Only two integer
widths appear: u64, whose values can exceed i64, and i64, which stands for every
type whose values do not. A `keyless` field stands for every shape that
`walk_vector_at_map_key` refuses before it reads the buffer. `MapKey::Int`, which the
parser never makes, is left out; the depth check of from_json is in `JsonTree`.

### Executor

The code is a recursion (`walk_table`, `walk_vector`, `walk_struct`, `walk_array`,
`walk_union`) that returns leaves. The model keeps the calls still to be made on `stack`, the
next one first, and the leaves so far in `out`; a call on one field of a table or
struct is one action, in which it returns leaves (`Emit`), goes on in one or more
values (`Walk`), or fails with an error that discards everything (`Fail`). Fan-out pushes all its elements
at once; as reads have no effect, that is the code's loop.

| code | actions |
|---|---|
| `walk_table` | `NoField`, `TypeLeaf`, `NoType`, `AbsentField`, `ScalarLeaf`, `StringLeaf`, `Descend` |
| `walk_union`, `read_union_value_leaf` | `DescendUnion` |
| `walk_vector`, `map_key.rs` | `NoSelector`, `VectorIndex`, `VectorAll`, `VectorKey`, `VectorKeys` |
| `walk_struct`, `walk_array` | `StructLeaf`, `StructInStruct`, `NoArraySelector`, `ArrayIndex`, `ArrayAll` |

The schema is data: `Fields` gives each object its fields and their types, `Structs`,
`KeyField`, `Variants` the rest. `Verified[o]` is external: the values that the upstream verifier accepts as
an `o`. `VerifierAssumption` says that what is accepted has only accepted parts, which the SAFETY comments of
the executor rely on.

A key field equal to its default is a leaf of its own: `|keys` gives the empty text for it (`KeyText`) where
`[*].key` gives the default, as the code does.

Abstracted: `#id` selects a field as its name does; a key is the text it reads as, and any element with it may be
the one found (how it is found is `KeyedVector`); a union's discriminator and value are present or absent
together, as the verifier demands; number formats. Left out: vectors of strings apart from vectors of scalars
(one model of both), Vector64 and vectors of unions, which `verify.rs` rejects before, and errors
that only a malformed schema gives.

### QueryParser and SqlCall

`QueryParser` has one action for each step that the path may gain (`FieldByName`, `BracketKey`, `Pipe`, ...) and one for
each way to be refused, with the kind of error and its position. Offsets count characters, where the code counts bytes;
`keys` and `type` are characters of their own, so that a word is one of them and not four. The limits are the constants
that the code compiles in: `max_query_length` and `max_path_depth`, to which its messages refer
(`query/ast.rs:146,150`), are settings that `guc.rs` does not define (`docs/design/safety.md` has them as planned).

`SqlCall` is one session. Between calls it changes its settings (`SetBound`, which takes a superuser, and `SetFlag`, which does
not); a call goes through the stages of the code, in which each function has its own order of checks:

| code | actions |
|---|---|
| arguments: `buf.is_empty()`, `parse`, `split_schema_and_table` | `AnswerEmpty`, `BeginParse`, `Parse`, `ParseFails`, `Parsed`, `NameFails`, `NameSplit`, `NameGiven` |
| `lookup_schema`, comparison with the catalog's root table | `LookupFails`, `AnswerRootType`, `RootDiffers` |
| `verify`, `should_error_on`, `resolve_execute_error` | `Verify`, `AnswerRejected` |
| the answer, in each function's shape | `AnswerQuery`, `AnswerVerified`, `AnswerToJson`, `AnswerFromJson` |

A buffer is what the verifier finds in it: length, depth, tables, apparent size, malformed or not. If several are
wrong, which one upstream reports is open (`Verdicts`). `Says` gives the words in its messages, of which
`is_bound_exceedance` looks for some. `DepthWording` takes for granted of another crate only that its message about depth contains the
words that the code looks for; for the rest `MCSqlCall` has the words of upstream's messages, two of which do not contain them
(`SqlCall_bounds`). The catalog is a constant, since `SchemaCache` is about it; the leaves that the executor returns are a
parameter, since `Executor` is about them. `last` keeps the previous call, so that properties compare two
functions on the same arguments.

What the model records of the code without judging it: `NoRootTable` is no ERROR when `strict` is
off, though `util.rs:61-63` calls schema-level mismatches a configuration problem; `flatbuffers_query` is NULL when its
first leaf is absent, although later ones are not; a key with a colon in it cannot be written, because the header is split at colons first;
blanks and negative numbers in a bracket are keys; messages about malformed buffers name tables and fields, whose names may
contain the words of a bound.

### JsonScalar and JsonTree

A document and a buffer are functions from paths to nodes. from_json is a recursion; its calls in progress are
`frames`, each with the fields or elements yet to be built (`todo`), and one step builds one item:

| code | actions |
|---|---|
| `json_to_buf`, head and tail of `build_table` | `JsonToBuf`, `EnterTable`, `Return` |
| fields that are absent or null, scalars, strings | `BuildAbsent`, `BuildScalar`, `BuildString` |
| tables, structs, arrays of structs | `BuildTable`, `BuildStruct`, `BuildArray` |
| `build_vector`, with `[ubyte]` and keyed tables | `BuildVector`, `BuildBytes`, `BuildKeyed` |
| `build_union_pair` | `BuildUnion` |

`Refuse` discards the buffer, as the code returns an error. `Verify` is the limit on nesting of the upstream verifier.
to_json has no state and is an operator, `Json`. What it prints goes through from_json once more, so that a
call is: build, verify, print, build, verify. `JsonScalar` scales the integers down: `Wide` stands for 2^63, and floats
hold integers up to `Wide / 2` exactly, so that the conversion of a number through f64 and the saturating cast
behave as they do at 2^53 and 2^63. What an f32 rounds away is left out, its overflow is not. Size is counted in
nodes. Buffers come from from_json only.

What the model records of the code:

- from_json counts the root as level 0 and the verifier as level 1, so from_json builds buffers of `max_depth + 1` nested tables that
  every read refuses (`OneLevelApart` says that this is all). `docs/design/json-conversion.md:19-20` has one limit for both.
- The object form of a keyed vector counts one level more than the array form, so what to_json prints of a verified
  buffer may be refused; bool and float keys print as an object that from_json refuses; an element without a string for its key gets
  an empty one, which takes room. An element whose integer key is left out, because it equals the default, is printed under the empty
  string (to_json.rs:472-478), which is no integer and is refused (from_json.rs:784-788); so are keys beyond i64, and an enum's
  key that has a member, as its body says the member's name. These are the four exceptions in `TakesBack`; they also say
  that a buffer with such an element never comes back.
- An unsorted keyed vector comes back sorted, and of equal keys one comes back: the exceptions in `SameBuffer`.
- 2^63 as a JSON number is stored in an i64 as 2^63 - 1, which `SameScalar` allows and `docs/design/json-conversion.md:46` does not (see `RangeIsEnforced`
  under *Other environments*); a number too large for a float is stored as an infinity that to_json refuses.

## Runs

Passing runs:

| run | bounds | shows |
|---|---|---|
| `SchemaCache_rc` | 2 backends, 1 name, 2 versions | under READ COMMITTED no entry is stale without a flush on its way, no answer is older than its transaction, no phantom, `SchemaRegistry` is implemented |
| `SchemaCache_lru` | 1 backend, 3 names, capacity 2, 4 versions, one corrupt | coherence and no phantoms across eviction and reload; the LRU is well formed; whoever holds an entry has an OID to be flushed by |
| `SchemaCache_env` | 1 backend, 2 names, everything on | every action fires, types hold |
| `SchemaCache_live` | 2 backends, 1 name, 1 version | a busy backend gets rid of every replaced schema |
| `KeyedVector_written` | up to 4 elements, i64 is -2..2, u64 0..4, 10 texts | bisect and scan find every key of a vector that keeps to the contract; JSON and back changes nothing, if no two elements have one key |
| `KeyedVector_any` | up to 3 elements, every kind and order | hits are right and lookups end, whatever the vector |
| `Executor_all` | one table type, two struct types, a union; tables nested up to three deep; paths of up to two descents and a last selection; both settings | the answer is what the path means, a path that selects one value has one leaf, every call has a step left and the object it expects |
| `SqlCall_all` | strings: every path of up to 3 of 12 characters, longer ones of those that matter, every header of up to 4; limits of 10 characters and 3 steps; buffers with every combination of faults, 4 registered schemas, two values of `max_depth`, both of each flag | the parser reads what the productions of the grammar say, within its limits; no setting relaxes the bound on depth or hides a bad registration; nothing unverified is read; verify foretells to_json; the three queries agree |
| `JsonTree_all` | a schema of 9 objects, with keys that are strings, numbers of both signs, enums and booleans; chains of up to 4 nestings in each of 5 ways under a `MaxDepth` of 3; one and two fields of every shape, right and wrong, at the root, and one within each nesting | from_json refuses a document for a fault it has and for no other cause; its recursion is bounded; to_json prints what was given; from_json takes it back and builds the same buffer, with the exceptions above |

Why the bounds are enough. A stale entry takes one reader, one writer and two
versions; two backends are both. A name's entry depends on other names only through
eviction and the shared queue, which `SchemaCache_lru` has. A bisect of four elements takes
up to three comparisons and both turns; the texts contain a sign, two spellings of
one integer, something that is no integer, and the empty string, and rank negative numbers
against their numeric order. A table of the executor has one compound field at a time, as a path visits one, and pairs
of elements that differ; one descent goes before every selection there is, right or wrong, and two, in every combination,
before one of each kind. A step of the parser depends on the place and on the next bracket, dot or bar: three characters and the longer
strings of brackets, dots and digits contain each pair of steps, and every limit is exceeded by one. Two calls in a
row are all that a comparison of functions takes. A level of a JSON document depends on the level around it; four nestings reach one past the limit in
every way, through what counts one, two and three levels. A vector has no more elements than `Position` has strings (`InPositions`);
three are one more than any document in use has.

Violation runs, each a statement of the repository that the code does not keep
(the quotations are in `PROJECT.json`):

| run | what TLC finds |
|---|---|
| `SchemaCache_rr_stale` | the cache refilled from an old snapshot after the flush, for good |
| `KeyedVector_default` | a key equal to the schema default is not found |
| `SqlCall_bounds` | with `strict = off` a buffer with too many tables (or too large an apparent size) is NULL and not an ERROR |

Other environments. A constant changed in a cfg above, with the one property named kept, gives more counterexamples, which mark
where the theorems below stop:

- `SchemaCache_rc` with `DetoastOnLoad = TRUE`: `Coherence` fails. The flush arrives while the load
  detoasts the row it has read, so the stale row is inserted after it.
- with `ReplicaRole = TRUE`: `Coherence` fails. A change applied by replication fires no
  trigger (`../sql/catalog.sql:58`) and tells no one.
- with `MaxOid = 2`: `Coherence` fails. After CREATE EXTENSION the callback still waits for the OID
  of the table that is gone (schema_cache.rs:213).
- with `LookupInDml = TRUE`: `NoPhantomSchema` fails. A statement that reads back the row it
  writes and then fails leaves that row cached, as its message is discarded with it.
- with `Window = "statement"`: `AnswersFresh` fails. A statement inside a transaction block is answered with a
  schema whose replacement was announced before it; `docs/design/schema-cache.md:50-55` speaks of "the next statement".
- `KeyedVector_default` with `Kinds = {"ulong"}`, `Sources = {"sorted"}`, `Written <- WithLarge`: `KeysFound` fails. A u64
  above i64::MAX compares as less than everything though it sorts last, so one such key hides small keys of a sorted vector from the
  bisect; map_key.rs:195-196 says it "only misorders entries within the `> i64::MAX` band".
- `KeyedVector_default` with `Sources = {"array"}`, `Written <- NoDefault`: `KeysFound` fails. from_json keeps the order of a JSON
  array (from_json.rs:682); `docs/design/json-conversion.md:33` says that it "sorts the result by the key field".
- `Executor_all` with `AbsentOptionalIsNull`: it fails. An absent optional scalar is answered with 0 when
  `fill_scalar_defaults` is on, as no line of the executor asks `Field::optional()`; `docs/design/sql-surface.md:135` says
  "absent → `NULL`".
- `SqlCall_bounds` with `RootNamedIsRoot` in place of its property: it fails. A query that names a table which the schema does not have is
  answered from its root table: the executor starts at `schema.root_table()` and reads `query.root` nowhere. `query/ast.rs:25-27` leaves
  it to the executor to see that the table exists.
- with `NoWhitespaceAccepted`, or `NegativeIndexRefused`: each fails. `parse_bracket` (query/parser.rs:370-384) takes "[ ]" and
  "[-1]" for keys; query/parser.rs:22-23 says "Whitespace is NOT allowed anywhere in the query" and
  `docs/design/sql-surface.md:74` "Negative indices are a parser error". `ReadsTheGrammar` is about the productions, which allow both.
- `JsonTree_all` with `NamedByKey`: it fails. The member of an element whose integer key equals its default has no name, where
  `docs/design/json-conversion.md:33` says "JSON object keyed by the `(key)` field's stringified value".
- `JsonTree_all` with `RangeIsEnforced`: it fails. 2^63 given to an i64 is stored as 2^63 - 1 (from_json.rs:1272);
  `docs/design/json-conversion.md:46` has an integer out of range as an ERROR.
- `KeyedVector_written` with `"enum"` in `Kinds`: `JsonRoundTrips` fails. to_json names the member by the number and
  writes the enum's name in its body, which from_json rejects.
- `KeyedVector_written` without `DistinctKeys` in `JsonRoundTrips` fails: "2" and "02" in one object become two
  elements with one key, of which to_json keeps one.

Fairness. `SchemaCache`: only `SendInvalidations`, as a commit that has become visible
runs on without an interrupt until its messages are sent. Clients may stop at any
time; `BusyBackendsConverge` therefore speaks of a backend whose client keeps starting
transactions. `KeyedVector`: only the steps of a lookup that has begun, which waits
for nothing. `Executor`, `SqlCall`, `JsonTree`: none, no liveness is stated; the runs of the
last two check deadlock, so that no call gets stuck before its answer.

## Proofs

TLAPS, for every value of the constants.

**SchemaCache_proofs**

- `TypeCorrect`: the type invariant, from `CacheAssumption` alone.
- `CallbackAlwaysArmed` (`MaxOid = 1`): whoever holds an entry has resolved the OID. The
  invariant `Resolved` says it of loads past `ResolveOid` too.
- `CacheCoherent` (`OrdinaryWriters`, `ReadCommitted`): `Coherence`. It is not inductive:
  an entry is stale only while a writer still owes a message, so `Discipline` says where
  that message is between the write and the end of the commit (trigger pending, in
  `current`, in `prior`, announcement pending), and `HeldSound` says of a row that a
  load has read, and not yet inserted, what `Coherence` says of entries.
  `ReadCommitted` excludes old snapshots and the flush between read and insertion;
  without either the theorem is false, as `SchemaCache_rr_stale` and the first line of
  *Other environments* show. `OrdinaryWriters` excludes the next three.
- `NoPhantomEver` (`OrdinaryWriters`, any isolation level): `NoPhantomSchema`, from `RowsCommitted`
  (the table holds committed rows), `CacheVerified`, and `HeldGenuine`, which says of held rows
  that they were committed or are the transaction's own, with a message queued that will flush
  them if it aborts.
- `LruAlwaysWellFormed`, in any environment: `LruWellFormed`. Eviction needs somebody to evict; that a finite strict order has a
  first element is an induction over its size, so the invariant carries it along (`HasOldest`: every nonempty set of
  keys has one that was used before the others) and shows that each operation keeps it.

and, under `PromisedFor` (`OrdinaryWriters`, `ReadCommitted`, and freshness counted from the start of a transaction:
the first two are those of `CacheCoherent`; the third excludes the environment with `Window = "statement"` above):

- `AnswersAlwaysFresh`: `AnswersFresh`. The invariant is `Fresh`. `RowsAllowed` says that what is committed may be answered;
  `HeldDated` that a row that is cached or being loaded is current, was so until a commit that is yet to be announced, or waits for a flush
  already in the queue; `HeldUsable` that what an open transaction holds is what it may be answered with, which
  is where the flush at its start is needed; `ServedToQuery` that answers do not outlive their query.
- `CacheImplementsRegistry`: `ImplementsRegistry`. The initial states agree, and each action of `SchemaCache` is a step of the
  registry or leaves its variables alone: a hit and the end of a load are `Answer`, by `Fresh`; everything about
  queues, flushes, eviction and the callback is a stutter. So freshness is not only an invariant: a user who knows the registry
  and nothing of caches can predict every answer.

**KeyedVector_proofs**

- `KeyedVectorTypeCorrect`: in particular `lo` and `hi` stay within the vector, so `vec.get(mid)`
  is never out of range. From `Sound`: types, `GoodEntries` (each element reads as what
  its author wrote is stored as) and `LookupLegal`.
- `HitsAreRight`: `HitIsRight` in every environment, sorted or not.
- `EveryKeyFound` and `BisectSkipsNothing`, under `Contract` (no unsorted array, no key equal to
  the default, none beyond i64): the invariant adds `OwnKeys` and `InOrder`. `OutOfRange` is the
  heart of it: an element that reads as less leaves no element with the key at or before it, one that reads
  as greater leaves none at or after it. The three conjuncts of `Contract` are what
  `KeyedVector_default` and the two other environments made from it violate.
- `JsonGivesVectorsBack`, under `Printable`: `JsonRoundTrips`. `Printable` is `Contract` for keys that are strings or integers; an enum key fails, as *Other
  environments* says, and a float key is no key of an object for from_json. A key is printed as the text it is
  stored under, so from_json accepts it (`PrintedIsAccepted`), and the sort puts the same texts in the same order: two
  sequences that one strict order sorts and that have the same elements are equal (`SortedOnce`, by the least index where they
  differ, from `LeastNumber`).

**Executor_proofs**, for any schema, buffers and paths under the three assumptions of `Executor`

- `ExecutorTypeCorrect`, `StepsAlwaysLeft`, `ReadsAlwaysVerified`, `OneLeafOnly`, all from one invariant. `FrameOK` says of
  each call on the stack that its value is verified as its object and that its place is within the path; it
  survives a step because each kind of field hands on a verified part (`ObjField`, `VectorField`, `UnionField`) and asks
  for the end of the path before it does (`Position`). `OneLeaf` speaks of the end only, so `Counted` says of
  the way there that calls and leaves together are one as long as nothing fans out.

**SqlCall_proofs**, for any characters, limits, settings, schemas and calls under the assumptions of the modules

- `ParserInv` is the inductive invariant of the parser: its place is within the string, the path is within
  `MaxDepth`, the string is within `MaxLength` once the header has been read, and what may follow a mark does. Each
  action has a lemma, and `ParserNextSound` puts them together. `LimitsKept` and `PathsWellShaped` follow, with `TypeCorrect`.
- `CallInv` says at each stage what the checks so far have established: a verdict is one that the verifier may give under the
  settings in force, which do not change during a call; and of an answer (`Concluded`), from which stage it comes. `DepthKept`,
  `ConfigurationErrs` and `OnlyVerifiedIsRead` follow. `DepthKept` rests on `DepthWording`, and nothing else does. Of the other two bounds there is
  nothing to prove: `SqlCall_bounds` refutes it.
- `VerifyForetells` compares two calls. `Meets` gives each name and buffer one fate (`OneFate`), and `PairInv` says
  that the answer to either function is the one which that fate has.
- `OneOutcome`: a query string has one outcome. `After` says what the parser comes to next as a function of the string and
  what it has come to; `NextIsAfter` that every action of `ParserNext` goes there, so that no two of them can lead apart: a string is split
  in one way (`OneHead`), a run of characters ends at one place (`OneEnd`), a bracket closes at one (`OneClose`), and no letter or digit is
  punctuation (`CharsAssumption`). What can be reached is what every set closed under `After` contains, which needs no recursion.
- `QueriesAgree`: `ShapesAgree`, if the executor answers a path with a sequence or fails (`WalkReads`). `AskInv` follows a query from
  its string (`LedHere`) to what becomes of it (`Befalls`); by `OneOutcome`, and as a verifier with one thing to say says it twice (`OneSaying`),
  the same becomes of both calls (`OneBefalls`). `FirstPresent` is the rest: dropping absent leaves keeps a first one that is there.

**JsonTree_proofs**, for any schema and documents

- `TypeCorrect` and `BoundedRecursion`, from one invariant. `Deepening` says that no call is shallower than the one that made
  it, and that a call of `build_table` is strictly deeper: so the tables open at once have different depths
  in `0 .. MaxDepth`, of which there are `MaxDepth + 1`.
- `NestingOneLevelApart`: `OneLevelApart`, for buffers that are finished as well as for those under construction. The invariant is `Nested`: there is
  a way to give each table of the buffer the depth at which it was built (`Leveled`) so that a table inside another has a
  greater one, and no call is less deep than the tables around its place. It survives a new table because what is yet to be built is nowhere in
  the buffer (`Untouched`) and calls lie one inside the other (`Inward`), which takes fields and positions that
  are all different (`SchemaAssumption`, `PositionAssumption`). The tables around a table then have different depths, so that they are
  `MaxDepth + 1` at the most (`NestingBounded`).

**JsonKeys_proofs**, for any schema and documents under the assumptions of `JsonTree`

- `KeysRebuiltInOrder`: `RebuiltInKeyOrder`. A vector is in order when it is finished, but its elements are built one by one, each through
  calls of its own, from a document that was printed of another buffer. The invariant `Ordered` relates the three. `Sound` says that
  a buffer keeps to the schema: every node is of the type that its place has, the variant of a union the one that its discriminator
  names. `CallFits` says of each call that the node it builds and the items it has left are of that kind. `Reads` says that a call of
  `build_table` or `build_vector` in the second pass reads what was printed of a node *of the same type* in `first`; so the keys of an
  object are what `Json` writes for the elements of one vector, and not whatever a document may contain. `Listed` says that a
  vector has its elements from the first position on, and `InOrder` that the keys of those it has and those to come have ranks in strict order, where
  an element whose key field is yet to be built is to get the key merged into it (`HasKey`).
- A sort gives an order, not a strict one: two texts may spell one number. The argument is that none do. An element whose integer key is stored
  is printed under the text made of it (`KeyText`, `Spelled`), which parses to it if to anything; an element whose key is left out
  is printed under the empty string, which parses to nothing, so that it is refused and no finished buffer has it.
  So the text of each accepted entry is the one made of its number, and two different texts are two numbers. That the key merged into an
  element is then stored, and not left out as a default, is a part of the invariant: no scalar that is stored is the default of
  its field (`Elides`). `SortedStrictly` is the step from there:
  an entry's place is the number of entries before it, which is one-to-one when all ranks differ, and therefore takes every place.

**JsonRoundTrip_proofs**, for any schema and documents under the assumptions of `JsonTree`

- `BufferRebuilt`: `SameBuffer`. Two buffers, built at different times of different documents, are to be equal to any depth; no step looks at
  more than one node of either. Four invariants, besides `Ordered`, carry it.
  - `Minted`: every node is stored as from_json stores it (`Made`). A scalar is a value that, printed, is refused or read as itself
    (`ScalarsReprint`: by sort of kind, through names of enums, through strings for wide unsigned numbers, through the saturating cast of numbers
    beyond 2^63), and in a table it is not the default; bytes are some that the codec encodes. That the buffer is finite is part of
    it, for its elements are counted.
  - `BelowAt` says what is printed in a printed node: what is in the node, under the label it has there, and the defaults of its absent scalars and
    discriminators; nothing else. It rests on `PrintedOnce`, of `JsonKeys_proofs`: no two nodes that are seen are printed in one place.
  - `Copying` is the copy: what the second pass has built is in the first buffer, with the same value; each call in progress reads what was
    printed of the node it builds (`CopyItem`); and what is in a node of the first buffer is built, or is an item of the call that builds it
    (`CopyCall`), so that a call with no items left has a node that is full (`FewerCopied`). Each action has its lemma. An absent item was
    absent (`ThereIsGiven`); a printed default is elided once more (`DefaultElided`); the union's discriminator is the one it had (`UnionNamed`).
  - A keyed vector (`BuildKeyedCopied`) is where the two hypotheses enter. Keys in strict order are all different, so no element is hidden
    (`ElementSeen`) and the sort has each at the place it had: two enumerations of one set in one order agree (`OneOrder`). A key that is
    there is printed inside the element, so that the one merged into it adds nothing (`KeyInside`, `KeyGiven`).
  - `Functional`: a buffer is no more than its domain and its values. In the end no node is missing: a shortest one would be in
    a node that is there, and full (`FullIsAll`, from `LeastNumber`).
- Where the elements of a list are not at the first positions (`Gaps`) nothing is claimed of it, and it needs no exception in the theorem: such an
  element is refused, because there is nothing where it is read.

The assumptions of `JsonTree` say of constants what the code has from elsewhere. `SchemaAssumption` is what `verify_schema` and flatc guarantee of a
schema: references resolve, structs are inline, a key is a string or a scalar, a union has a discriminator of its own. `FieldsAssumption` is the
rest of it: every field is in the list of fields, a default is a value of its kind, and the `<name>_type` field belongs to a union and is NONE
by default, as flatc writes it. `CodecAssumption` is what base64 and hex do: what is encoded is decoded to what it was, and any bytes that a document
gives can be encoded. `TextAssumption` is the order of Rust strings, which is total, that a number which parses is an i64, and that the empty string does not parse. `DocsAssumption` says
that documents are finite, `PositionAssumption` that positions differ.
`SpellingAssumption` says of `Spelled`, the text that upstream makes of a stored integer, that for an i64 it parses to that number. `MCJsonTree` satisfies all of them, as TLC checks.

Only model-checked: liveness; `AnswersAsMeant`, `ReadsTheGrammar`, `RefusedForCause` and `PrintsWhatWasGiven` (whose meanings are
recursive); `TakesBack`, which needs, of every cause to refuse, that what was printed does not have it. TLAPS here proves neither liveness under fairness nor
ENABLED, nor properties of RECURSIVE operators. Induction is available in one form, over sets of naturals (`LeastNumber`, from the library's theorem that `<` is
well-founded, which takes a set and no operator); induction over what a recursive definition computes is not. No module that has
theorems, or that they use, declares a RECURSIVE operator.

## Not modelled

Subtransactions and savepoints; several installations and the search path; parallel workers;
DML that changes no row; the mutex around the LRU (nothing contends for it); a crash of the cluster (nothing
of the cache is persistent). `schema_cache_mb`, which the documentation describes,
is not read by the code (schema_cache.rs:32-33): capacity is a constant. `invalidate(name)` is called
by tests only. Upstream code (PostgreSQL, the `lru`, `flatbuffers` and
`flatbuffers-reflection` crates) is modelled from how this code uses it.

The upstream verifier is what it measures: a description of each buffer in `SqlCall`, the nesting of tables in `JsonTree`,
the values it accepts in `Executor`. The version function, build files, benchmarks, samples and test harnesses have no state.

## Plan

Done: every component that has behaviour of its own has its module, each module its type correctness and its main
safety properties as theorems, and the cache its refinement. Left:

1. `TakesBack`: `Copying` already says which node of the first buffer a call of the second pass is about, so that missing fields, wrong types and
   unknown fields are refuted by what was printed there. What is left are the depth, which the two forms of a vector count differently, the number
   of nodes, and that no scalar which has been printed is refused (`Reprints` leaves that open).
2. Buffers of other writers in `JsonTree`: a union value without discriminator, shared subtables, keyed vectors with
   elements of every order.
