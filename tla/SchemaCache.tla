---------------------------- MODULE SchemaCache ----------------------------
(***************************************************************************)
(* The per-backend cache of registered schemas (schema_cache.rs), the      *)
(* trigger that invalidates it (catalog.rs, sql/catalog.sql), and as much  *)
(* of PostgreSQL as decides whether it is coherent: transactions over the  *)
(* table flatbuffers_schemas, the local and shared queues of invalidation  *)
(* messages, and the points at which a backend processes them.             *)
(*                                                                         *)
(* Rows are opaque versions: a version stands for one value of the columns *)
(* (bfbs, root_table, file_identifier) of one name; 0 stands for no row.   *)
(***************************************************************************)
EXTENDS Naturals, FiniteSets

CONSTANTS
  Backends,       \* server processes of one cluster, connected to one database
  Names,          \* schema names
  Capacity,       \* DEFAULT_CACHE_CAPACITY
  None,           \* absence of a value
  MaxVersion,     \* bound: rows ever written
  MaxOid,         \* bound: times the extension is created
  Corrupt,        \* versions whose bfbs the verifier rejects
  Levels,         \* isolation levels in use: "rc" READ COMMITTED, "rr" REPEATABLE READ
  DetoastOnLoad,  \* bfbs is stored out of line, so reading it locks another relation
  LookupInDml,    \* a statement that writes the catalog also calls the extension
  ReplicaRole,    \* some session writes with session_replication_role = replica
  Window          \* what AnswersFresh counts from: "transaction" or "statement"

Version == 1 .. MaxVersion
Row == 0 .. MaxVersion
Oid == 1 .. MaxOid
InvalidOid == 0

ASSUME CacheAssumption ==
  /\ IsFiniteSet(Names)
  /\ Capacity \in Nat \ {0}
  /\ MaxVersion \in Nat
  /\ MaxOid \in Nat \ {0}
  /\ None \notin Nat
  /\ Corrupt \subseteq Version
  /\ Levels \subseteq {"rc", "rr"}
  /\ {DetoastOnLoad, LookupInDml, ReplicaRole} \subseteq BOOLEAN
  /\ Window \in {"transaction", "statement"}

VARIABLES
  rows,        \* committed row of every name
  issued,      \* versions written so far
  relOid,      \* OID of flatbuffers_schemas
  queue,       \* shared messages a backend has not processed
  txn,         \* "none", the level of the open transaction, or "committing"
  stmt,        \* "none", "query", "dml", or "fired" once the trigger ran
  snapshot,    \* transaction snapshot of a REPEATABLE READ transaction
  own,         \* uncommitted rows of the open transaction
  current,     \* messages queued by the current command
  prior,       \* messages queued by earlier commands of the transaction
  holds,       \* the transaction holds AccessShareLock on the catalog
  cache,       \* CACHE
  catalogOid,  \* CATALOG_OID
  load,        \* progress of load_and_insert
  served,      \* history: what the current statement got for a name
  committed,   \* history: versions that were ever committed
  replaced,    \* history: rows replaced by a commit that is not yet announced
  allowed      \* history: rows an answer may come from, see AnswersFresh

vars == <<rows, issued, relOid, queue, txn, stmt, snapshot, own, current, prior,
          holds, cache, catalogOid, load, served, committed, replaced, allowed>>

database == <<rows, issued, relOid, committed, replaced>>
session  == <<txn, stmt, snapshot, own, holds>>
messages == <<queue, current, prior>>
backend  == <<cache, catalogOid>>

LRU == INSTANCE Lru WITH Values <- Version

PerName(v) == [n \in Names |-> v]

(* load_and_insert: not running, or at pc for name, with the row it found. *)
Loading(pc, name, row) == [pc |-> pc, name |-> name, row |-> row]
NoLoad == Loading("idle", None, None)
Loads == {NoLoad} \cup [pc : {"resolve", "open", "scan"}, name : Names, row : {None}]
                  \cup [pc : {"fetched"}, name : Names, row : Row]

(* No schema is registered and no backend has used the extension yet.      *)
Init ==
  /\ rows = PerName(0)
  /\ issued = 0
  /\ relOid = 1
  /\ queue = [b \in Backends |-> {}]
  /\ txn = [b \in Backends |-> "none"]
  /\ stmt = [b \in Backends |-> "none"]
  /\ snapshot = [b \in Backends |-> None]
  /\ own = [b \in Backends |-> PerName(None)]
  /\ current = [b \in Backends |-> {}]
  /\ prior = [b \in Backends |-> {}]
  /\ holds = [b \in Backends |-> FALSE]
  /\ cache = [b \in Backends |-> LRU!EmptyCache]
  /\ catalogOid = [b \in Backends |-> None]
  /\ load = [b \in Backends |-> NoLoad]
  /\ served = [b \in Backends |-> PerName(None)]
  /\ committed = {}
  /\ replaced = [b \in Backends |-> PerName(None)]
  /\ allowed = [b \in Backends |-> PerName({})]

-----------------------------------------------------------------------------
InTransaction(b) == txn[b] \in {"rc", "rr"}

(* The row b's next query would find for n. *)
Visible(b, n) ==
  IF own[b][n] # None THEN own[b][n]
  ELSE IF txn[b] = "rr" THEN snapshot[b][n]
  ELSE rows[n]

(* Mutant of Matches: a reset of the whole relcache is not recognised.     *)
MatchesByOidOnly(b, relids) == catalogOid[b] \in relids

(* relcache_callback, run for each of relids: flush when one of them is    *)
(* the whole relcache or the catalog as this backend knows it.             *)
Matches(b, relids) == InvalidOid \in relids \/ catalogOid[b] \in relids

(* Mutants of relcache_callback: pop_lru instead of clear; no flush at all.*)
PopOldest(b, relids) ==
  LET kept == LRU!Keys(cache[b]) \ {LRU!Oldest(cache[b])} IN
  cache' = IF Matches(b, relids) /\ LRU!Keys(cache[b]) # {}
             THEN [cache EXCEPT ![b] =
                    [entry |-> [n \in Names |-> IF n \in kept THEN @.entry[n] ELSE None],
                     older |-> @.older \cap (kept \X kept)]]
             ELSE cache
NeverFlush(b, relids) == UNCHANGED cache

relcache_callback(b, relids) ==
  cache' = IF Matches(b, relids)
             THEN [cache EXCEPT ![b] = LRU!EmptyCache]
             ELSE cache

(* The rows that are current, or were until a commit that has yet to be    *)
(* announced: what a statement starting now may be answered from.          *)
CurrentRows ==
  [n \in Names |-> {rows[n]} \cup
     {replaced[c][n] : c \in {d \in Backends : replaced[d][n] # None}}]

(* History: a commit makes row new[n] current for the names it wrote.      *)
AllowNew(new) ==
  [c \in Backends |-> [n \in Names |->
     IF InTransaction(c) /\ new[n] # None THEN allowed[c][n] \cup {new[n]}
                                          ELSE allowed[c][n]]]

-----------------------------------------------------------------------------
(* Transactions and statements.                                            *)

(* A transaction starts with its first statement: the backend processes    *)
(* the shared queue, and REPEATABLE READ takes the transaction's snapshot. *)
Begin(b, level, kind) ==
  /\ txn[b] = "none"
  /\ txn' = [txn EXCEPT ![b] = level]
  /\ stmt' = [stmt EXCEPT ![b] = kind]
  /\ snapshot' = [snapshot EXCEPT ![b] = IF level = "rr" THEN rows ELSE None]
  /\ relcache_callback(b, queue[b])
  /\ queue' = [queue EXCEPT ![b] = {}]
  /\ allowed' = [allowed EXCEPT ![b] = CurrentRows]
  /\ UNCHANGED <<database, own, holds, current, prior, catalogOid, load, served>>

(* A later statement of a transaction block: nothing obliges the backend   *)
(* to look at the shared queue.                                            *)
NextStatement(b, kind) ==
  /\ InTransaction(b)
  /\ stmt[b] = "none"
  /\ stmt' = [stmt EXCEPT ![b] = kind]
  /\ allowed' = IF Window = "statement"
                  THEN [allowed EXCEPT ![b] = CurrentRows]
                  ELSE allowed
  /\ UNCHANGED <<database, txn, snapshot, own, holds, messages, backend, load, served>>

(* AcceptInvalidationMessages: the backend acquires a lock on some         *)
(* relation, or is idle and told to catch up. Between the snapshot of a    *)
(* load and its insertion only detoasting acquires one.                    *)
AcceptInvalidations(b) ==
  /\ queue[b] # {}
  /\ txn[b] # "committing"
  /\ load[b].pc \in {"idle", "resolve", "open"} \cup
                    (IF DetoastOnLoad THEN {"fetched"} ELSE {})
  /\ relcache_callback(b, queue[b])
  /\ queue' = [queue EXCEPT ![b] = {}]
  /\ UNCHANGED <<database, session, current, prior, catalogOid, load, served, allowed>>

(* The queue overflows before b has read it: b is told to reset.           *)
SinvalReset(b) ==
  /\ queue[b] # {}
  /\ queue' = [queue EXCEPT ![b] = {InvalidOid}]
  /\ UNCHANGED <<database, session, current, prior, backend, load, served, allowed>>

(* INSERT, UPDATE (a new version) or DELETE, TRUNCATE (0) of the row of n. *)
(* A second writer of a row waits for the first; under REPEATABLE READ it  *)
(* fails when the row changed since its snapshot.                          *)
WriteRow(b, n, row) ==
  /\ stmt[b] = "dml"
  /\ load[b].pc = "idle"
  /\ \A c \in Backends \ {b} : own[c][n] = None
  /\ own[b][n] = None /\ txn[b] = "rr" => snapshot[b][n] = rows[n]
  /\ IF row = 0 THEN Visible(b, n) # 0 ELSE row = issued + 1
  /\ issued' = IF row = 0 THEN issued ELSE row
  /\ own' = [own EXCEPT ![b][n] = row]
  /\ UNCHANGED <<rows, relOid, committed, replaced, txn, stmt, snapshot, holds,
                 messages, backend, load, served, allowed>>

(* Mutant of FireTrigger: the trigger returns without queueing a message.  *)
FireSilently(b) ==
  /\ stmt[b] = "dml"
  /\ load[b].pc = "idle"
  /\ stmt' = [stmt EXCEPT ![b] = "fired"]
  /\ UNCHANGED <<database, txn, snapshot, own, holds, messages, backend, load,
                 served, allowed>>

(* flatbuffers_schemas_invalidate_trigger, AFTER ... FOR EACH STATEMENT.   *)
FireTrigger(b) ==
  /\ stmt[b] = "dml"
  /\ load[b].pc = "idle"
  /\ stmt' = [stmt EXCEPT ![b] = "fired"]
  /\ current' = [current EXCEPT ![b] = @ \cup {relOid}]
  /\ UNCHANGED <<database, txn, snapshot, own, holds, queue, prior, backend, load,
                 served, allowed>>

(* The trigger is enabled in origin mode: in a session that applies        *)
(* replicated changes or restores a dump it does not fire.                 *)
SkipTrigger(b) ==
  /\ ReplicaRole
  /\ stmt[b] = "dml"
  /\ load[b].pc = "idle"
  /\ stmt' = [stmt EXCEPT ![b] = "fired"]
  /\ UNCHANGED <<database, txn, snapshot, own, holds, messages, backend, load,
                 served, allowed>>

(* CommandCounterIncrement: this backend acts on its own messages.         *)
CommandEnd(b) ==
  /\ relcache_callback(b, current[b])
  /\ prior' = [prior EXCEPT ![b] = @ \cup current[b]]
  /\ current' = [current EXCEPT ![b] = {}]

EndStatement(b) ==
  /\ stmt[b] \in {"query", "fired"}
  /\ load[b].pc = "idle"
  /\ CommandEnd(b)
  /\ stmt' = [stmt EXCEPT ![b] = "none"]
  /\ served' = [served EXCEPT ![b] = PerName(None)]
  /\ UNCHANGED <<database, txn, snapshot, own, holds, queue, catalogOid, load, allowed>>

(* The rows become visible to everyone, and only then are the messages     *)
(* sent: a transaction that queued some is "committing" in between.        *)
Commit(b) ==
  /\ InTransaction(b)
  /\ stmt[b] = "none"
  /\ rows' = [n \in Names |-> IF own[b][n] # None THEN own[b][n] ELSE rows[n]]
  /\ committed' = committed \cup ({own[b][n] : n \in Names} \cap Version)
  /\ IF prior[b] = {}
       THEN txn' = [txn EXCEPT ![b] = "none"] /\ UNCHANGED replaced
       ELSE /\ txn' = [txn EXCEPT ![b] = "committing"]
            /\ replaced' = [replaced EXCEPT ![b] =
                 [n \in Names |-> IF own[b][n] # None THEN rows[n] ELSE None]]
  /\ allowed' = [AllowNew(own[b]) EXCEPT ![b] = PerName({})]
  /\ own' = [own EXCEPT ![b] = PerName(None)]
  /\ snapshot' = [snapshot EXCEPT ![b] = None]
  /\ holds' = [holds EXCEPT ![b] = FALSE]
  /\ UNCHANGED <<issued, relOid, stmt, messages, backend, load, served>>

SendInvalidations(b) ==
  /\ txn[b] = "committing"
  /\ txn' = [txn EXCEPT ![b] = "none"]
  /\ queue' = [c \in Backends |-> queue[c] \cup prior[b]]
  /\ prior' = [prior EXCEPT ![b] = {}]
  /\ replaced' = [replaced EXCEPT ![b] = PerName(None)]
  /\ UNCHANGED <<rows, issued, relOid, committed, stmt, snapshot, own, holds, current,
                 backend, load, served, allowed>>

(* The end of a transaction that does not commit: what it wrote is gone,   *)
(* and so are its messages.                                                *)
Discard(b) ==
  /\ txn' = [txn EXCEPT ![b] = "none"]
  /\ stmt' = [stmt EXCEPT ![b] = "none"]
  /\ snapshot' = [snapshot EXCEPT ![b] = None]
  /\ own' = [own EXCEPT ![b] = PerName(None)]
  /\ holds' = [holds EXCEPT ![b] = FALSE]
  /\ current' = [current EXCEPT ![b] = {}]
  /\ prior' = [prior EXCEPT ![b] = {}]
  /\ load' = [load EXCEPT ![b] = NoLoad]
  /\ served' = [served EXCEPT ![b] = PerName(None)]
  /\ allowed' = [allowed EXCEPT ![b] = PerName({})]

(* ROLLBACK, or an ERROR raised by any statement: the messages of the      *)
(* completed commands are acted on locally, those of the current command   *)
(* never are.                                                              *)
Abort(b) ==
  /\ InTransaction(b)
  /\ relcache_callback(b, prior[b])
  /\ Discard(b)
  /\ UNCHANGED <<database, queue, catalogOid>>

(* The backend exits and the client connects again: a new process.         *)
Reconnect(b) ==
  /\ txn[b] # "committing"
  /\ Discard(b)
  /\ cache' = [cache EXCEPT ![b] = LRU!EmptyCache]
  /\ catalogOid' = [catalogOid EXCEPT ![b] = None]
  /\ queue' = [queue EXCEPT ![b] = {}]
  /\ UNCHANGED database

(* DROP EXTENSION and CREATE EXTENSION in one transaction of b, which      *)
(* waits for the locks of all others. The table is new: it has another     *)
(* OID and no rows, under old snapshots too.                               *)
Recreate(b) ==
  /\ relOid < MaxOid
  /\ txn[b] = "none"
  /\ \A c \in Backends \ {b} :
       /\ txn[c] # "committing"
       /\ ~holds[c]
       /\ stmt[c] \notin {"dml", "fired"}
       /\ prior[c] = {} /\ own[c] = PerName(None)
  /\ relOid' = relOid + 1
  /\ rows' = PerName(0)
  /\ snapshot' = [c \in Backends |-> IF snapshot[c] = None THEN None ELSE PerName(0)]
  /\ txn' = [txn EXCEPT ![b] = "committing"]
  /\ relcache_callback(b, queue[b] \cup {relOid})
  /\ queue' = [queue EXCEPT ![b] = {}]
  /\ prior' = [prior EXCEPT ![b] = {relOid}]
  /\ replaced' = [replaced EXCEPT ![b] = rows]
  /\ allowed' = AllowNew(PerName(0))
  /\ UNCHANGED <<issued, committed, stmt, own, holds, current, catalogOid, load, served>>

-----------------------------------------------------------------------------
(* lookup_schema and load_and_insert.                                      *)

MayLookup(b) ==
  /\ load[b].pc = "idle"
  /\ stmt[b] \in {"query"} \cup (IF LookupInDml THEN {"dml", "fired"} ELSE {})

LookupHit(b, n) ==
  /\ MayLookup(b)
  /\ cache[b].entry[n] # None
  /\ cache' = [cache EXCEPT ![b] = LRU!Get(@, n)]
  /\ served' = [served EXCEPT ![b][n] = cache[b].entry[n]]
  /\ UNCHANGED <<database, session, messages, catalogOid, load, allowed>>

LookupMiss(b, n) ==
  /\ MayLookup(b)
  /\ cache[b].entry[n] = None
  /\ load' = [load EXCEPT ![b] = Loading("resolve", n, None)]
  /\ UNCHANGED <<database, session, messages, backend, served, allowed>>

(* Mutant of ResolveOid: the OID is not kept. *)
ForgetOid(b) ==
  /\ load[b].pc = "resolve"
  /\ load' = [load EXCEPT ![b] = Loading("open", load[b].name, None)]
  /\ UNCHANGED <<database, session, messages, backend, served, allowed>>

(* catalog_oid: resolved once in the life of the backend. *)
ResolveOid(b) ==
  /\ load[b].pc = "resolve"
  /\ catalogOid' = IF catalogOid[b] = None
                     THEN [catalogOid EXCEPT ![b] = relOid]
                     ELSE catalogOid
  /\ load' = [load EXCEPT ![b] = Loading("open", load[b].name, None)]
  /\ UNCHANGED <<database, session, messages, cache, served, allowed>>

(* SPI plans the SELECT: it locks the catalog, and a lock that is newly    *)
(* acquired is followed by AcceptInvalidationMessages.                     *)
OpenCatalog(b) ==
  /\ load[b].pc = "open"
  /\ IF holds[b]
       THEN UNCHANGED <<cache, queue>>
       ELSE relcache_callback(b, queue[b]) /\ queue' = [queue EXCEPT ![b] = {}]
  /\ holds' = [holds EXCEPT ![b] = TRUE]
  /\ load' = [load EXCEPT ![b] = Loading("scan", load[b].name, None)]
  /\ UNCHANGED <<database, txn, stmt, snapshot, own, current, prior, catalogOid,
                 served, allowed>>

(* SPI runs the SELECT read-write: it increments the command counter and   *)
(* uses a snapshot of its own under READ COMMITTED.                        *)
ScanCatalog(b) ==
  /\ load[b].pc = "scan"
  /\ CommandEnd(b)
  /\ load' = [load EXCEPT ![b] =
       Loading("fetched", load[b].name, Visible(b, load[b].name))]
  /\ UNCHANGED <<database, session, queue, catalogOid, served, allowed>>

(* Mutants of FinishLoad: the bytes are not verified; an absent row is     *)
(* cached like any other.                                                  *)
InsertUnverified(b) ==
  /\ load[b].pc = "fetched"
  /\ load[b].row \in Version
  /\ cache' = [cache EXCEPT ![b] = LRU!Put(@, load[b].name, load[b].row)]
  /\ served' = [served EXCEPT ![b][load[b].name] = load[b].row]
  /\ load' = [load EXCEPT ![b] = NoLoad]
  /\ UNCHANGED <<database, session, messages, catalogOid, allowed>>
InsertAbsent(b) ==
  /\ load[b].pc = "fetched"
  /\ load[b].row \notin Corrupt
  /\ cache' = [cache EXCEPT ![b] = LRU!Put(@, load[b].name, load[b].row)]
  /\ load' = [load EXCEPT ![b] = NoLoad]
  /\ UNCHANGED <<database, session, messages, catalogOid, served, allowed>>

(* The bytes verify: the entry is inserted and returned. *)
FinishLoad(b) ==
  /\ load[b].pc = "fetched"
  /\ load[b].row \in Version \ Corrupt
  /\ cache' = [cache EXCEPT ![b] = LRU!Put(@, load[b].name, load[b].row)]
  /\ served' = [served EXCEPT ![b][load[b].name] = load[b].row]
  /\ load' = [load EXCEPT ![b] = NoLoad]
  /\ UNCHANGED <<database, session, messages, catalogOid, allowed>>

(* Not registered, or the stored bytes fail verification: an ERROR. *)
FailLoad(b) ==
  /\ load[b].pc = "fetched"
  /\ load[b].row \notin Version \ Corrupt
  /\ Abort(b)

-----------------------------------------------------------------------------
Next ==
  \E b \in Backends :
    \/ \E level \in Levels, kind \in {"query", "dml"} : Begin(b, level, kind)
    \/ \E kind \in {"query", "dml"} : NextStatement(b, kind)
    \/ AcceptInvalidations(b)
    \/ SinvalReset(b)
    \/ \E n \in Names, row \in Row : WriteRow(b, n, row)
    \/ FireTrigger(b)
    \/ SkipTrigger(b)
    \/ EndStatement(b)
    \/ Commit(b)
    \/ SendInvalidations(b)
    \/ Abort(b)
    \/ Reconnect(b)
    \/ Recreate(b)
    \/ \E n \in Names : LookupHit(b, n) \/ LookupMiss(b, n)
    \/ ResolveOid(b)
    \/ OpenCatalog(b)
    \/ ScanCatalog(b)
    \/ FinishLoad(b)
    \/ FailLoad(b)

Spec == Init /\ [][Next]_vars

(* A commit that has become visible runs on to send its messages: there is *)
(* no interrupt and no wait in between. Nothing else is promised; clients  *)
(* may stop at any point.                                                  *)
FairSpec == Spec /\ \A b \in Backends : WF_vars(SendInvalidations(b))

-----------------------------------------------------------------------------
TypeOK ==
  /\ rows \in [Names -> Row]
  /\ issued \in Row
  /\ relOid \in Oid
  /\ queue \in [Backends -> SUBSET (Oid \cup {InvalidOid})]
  /\ txn \in [Backends -> {"none", "rc", "rr", "committing"}]
  /\ stmt \in [Backends -> {"none", "query", "dml", "fired"}]
  /\ snapshot \in [Backends -> [Names -> Row] \cup {None}]
  /\ \A b \in Backends : txn[b] = "rr" => snapshot[b] \in [Names -> Row]
  /\ own \in [Backends -> [Names -> Row \cup {None}]]
  /\ current \in [Backends -> SUBSET Oid]
  /\ prior \in [Backends -> SUBSET Oid]
  /\ holds \in [Backends -> BOOLEAN]
  /\ cache \in [Backends -> LRU!Caches]
  /\ catalogOid \in [Backends -> Oid \cup {None}]
  /\ load \in [Backends -> Loads]
  /\ served \in [Backends -> [Names -> Version \cup {None}]]
  /\ committed \subseteq Version
  /\ replaced \in [Backends -> [Names -> Row \cup {None}]]
  /\ allowed \in [Backends -> [Names -> SUBSET Row]]

(* The LRU never outgrows its capacity and its recency list is an order on *)
(* exactly the entries held, through every get, put, eviction and flush.   *)
LruWellFormed == \A b \in Backends : LRU!LruOK(cache[b])

(* A backend that holds a schema can be told to drop it: its callback      *)
(* knows the OID of the table the schema came from, so a message about     *)
(* that table matches (schema_cache.rs:150-153, 250-257).                  *)
CallbackArmed ==
  \A b \in Backends : LRU!Keys(cache[b]) # {} => catalogOid[b] = relOid

(* b itself has just written n, in the statement it is running. *)
WrittenByStatement(b, n) == own[b][n] # None /\ stmt[b] \in {"dml", "fired"}

(* No backend holds a schema that never was: every entry is a verified row *)
(* that was committed at some time or is this transaction's own (or was,   *)
(* until the statement being run). What a transaction loaded of its own    *)
(* writes is gone when it rolls back.                                      *)
NoPhantomSchema ==
  \A b \in Backends, n \in Names :
    LET v == cache[b].entry[n] IN
    v # None => /\ v \notin Corrupt
                /\ v \in committed \/ v = own[b][n] \/ WrittenByStatement(b, n)

(* b is yet to process a message that will flush its cache. *)
FlushPending(b) == Matches(b, queue[b])

(* A commit of n is visible but not yet announced. *)
AnnouncementPending(n) == \E c \in Backends : replaced[c][n] # None

(* An entry is the row its backend would read now, or something is on its  *)
(* way that will flush it. No entry is stale for good.                     *)
Coherence ==
  \A b \in Backends, n \in Names :
    cache[b].entry[n] # None =>
      \/ cache[b].entry[n] = Visible(b, n)
      \/ FlushPending(b)
      \/ AnnouncementPending(n)
      \/ WrittenByStatement(b, n)

(* A statement is answered from the rows its transaction has itself        *)
(* written, else from a row that was current at some time since the        *)
(* transaction (or, with Window = "statement", the statement) began: a     *)
(* schema replaced by a commit announced before that is never used.        *)
AnswersFresh ==
  \A b \in Backends, n \in Names :
    served[b][n] # None =>
      IF own[b][n] # None THEN served[b][n] = own[b][n]
                          ELSE served[b][n] \in allowed[b][n]

(* A backend whose client keeps starting transactions ends up with nothing *)
(* but current rows once nobody writes any more (MaxVersion sees to that): *)
(* no flush is lost for good, whatever the other backend does.             *)
BusyBackendsConverge ==
  \A b \in Backends :
    []<>(txn[b] = "none") /\ []<>InTransaction(b)
      => <>[](\A n \in Names : cache[b].entry[n] \in {None, rows[n]})

-----------------------------------------------------------------------------
(* The caches, the queues and the callback implement the registry that     *)
(* SchemaRegistry describes (READ COMMITTED, schemas stored inline, one    *)
(* extension, ordinary sessions, Window = "transaction").                  *)
Registry == INSTANCE SchemaRegistry WITH
  phase <- [b \in Backends |-> IF InTransaction(b) THEN "open" ELSE txn[b]]

ImplementsRegistry == Registry!Spec
=============================================================================
