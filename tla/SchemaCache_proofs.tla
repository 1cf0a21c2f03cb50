------------------------- MODULE SchemaCache_proofs -------------------------
(* Theorems about SchemaCache, for every value of its constants: first of  *)
(* each of its parts, then that it implements SchemaRegistry.               *)
EXTENDS SchemaCache, FiniteSetTheorems, TLAPS

(* The value that stands for nothing is none of the others. *)
LEMMA NoneIsNoRow == None \notin Row /\ None \notin Version /\ None \notin Corrupt
<1>1. Corrupt \subseteq Version /\ Version \subseteq Nat /\ Row \subseteq Nat
  BY CacheAssumption DEF Version, Row
<1>2. None \notin Nat
  BY CacheAssumption
<1> QED
  BY <1>1, <1>2, Zenon

(* Nothing is no OID, and InvalidOid is not nothing.                       *)
LEMMA NoneIsNoOid == None \notin Oid /\ None # InvalidOid
<1>1. Oid \subseteq Nat /\ InvalidOid \in Nat
  BY CacheAssumption DEF Oid, InvalidOid
<1> QED
  BY <1>1, CacheAssumption, Zenon

(* The operators of the LRU map stay within its type. *)
LEMMA LruEmptyType == LRU!EmptyCache \in LRU!Caches
BY DEF LRU!EmptyCache, LRU!Caches

(* A get leaves a cache (LruCache::get).                                   *)
LEMMA LruGetType ==
  ASSUME NEW c \in LRU!Caches, NEW n \in Names
  PROVE  LRU!Get(c, n) \in LRU!Caches
BY DEF LRU!Get, LRU!Caches, LRU!Promoted, LRU!Keys

(* A put leaves a cache, evicting or not (LruCache::put).                  *)
LEMMA LruPutType ==
  ASSUME NEW c \in LRU!Caches, NEW n \in Names, NEW v \in Version
  PROVE  LRU!Put(c, n, v) \in LRU!Caches
<1>1. LRU!Kept(c, n) \subseteq Names
  BY DEF LRU!Kept, LRU!Keys
<1>2. LRU!Promoted(c.older, LRU!Kept(c, n), n) \subseteq Names \X Names
  BY <1>1 DEF LRU!Promoted, LRU!Caches
<1>3. [m \in Names |-> IF m = n THEN v
                       ELSE IF m \in LRU!Kept(c, n) THEN c.entry[m] ELSE None]
        \in [Names -> Version \cup {None}]
  BY DEF LRU!Caches
<1>4. LRU!Put(c, n, v).older \subseteq Names \X Names
  BY <1>2 DEF LRU!Put
<1> QED
  BY <1>3, <1>4 DEF LRU!Put, LRU!Caches

(* The callback and CommandCounterIncrement keep the caches well typed. *)
LEMMA CallbackType ==
  ASSUME TypeOK, NEW b \in Backends, NEW relids, relcache_callback(b, relids)
  PROVE  cache' \in [Backends -> LRU!Caches]
BY LruEmptyType DEF TypeOK, relcache_callback

-----------------------------------------------------------------------------
(* The initial state is well typed.                                        *)
LEMMA TypeInit == Init => TypeOK
BY CacheAssumption, LruEmptyType
   DEF Init, TypeOK, PerName, NoLoad, Loading, Loads, Row, Oid, Version, InvalidOid

(* Every action of transactions, messages and loads keeps TypeOK.          *)
LEMMA TypeNext == TypeOK /\ [Next]_vars => TypeOK'
<1> SUFFICES ASSUME TypeOK, [Next]_vars PROVE TypeOK'
  OBVIOUS
<1>1. ASSUME NEW b \in Backends, NEW level \in Levels, NEW kind \in {"query", "dml"},
             Begin(b, level, kind)
      PROVE  TypeOK'
  BY <1>1, CacheAssumption, LruEmptyType
     DEF TypeOK, Begin, relcache_callback, CurrentRows, NoLoad, Loading, Loads,
         database, messages, backend, Row, Version, Oid, InvalidOid
<1>2. ASSUME NEW b \in Backends, NEW kind \in {"query", "dml"}, NextStatement(b, kind)
      PROVE  TypeOK'
  BY <1>2, CacheAssumption, LruEmptyType
     DEF TypeOK, NextStatement, CurrentRows, NoLoad, Loading, Loads, InTransaction,
         database, messages, backend, Row, Version, Oid, InvalidOid
<1>3. ASSUME NEW b \in Backends, AcceptInvalidations(b)
      PROVE  TypeOK'
  BY <1>3, CacheAssumption, LruEmptyType
     DEF TypeOK, AcceptInvalidations, relcache_callback, NoLoad, Loading, Loads,
         database, session, messages, backend, Row, Version, Oid, InvalidOid
<1>4. ASSUME NEW b \in Backends, SinvalReset(b)
      PROVE  TypeOK'
  BY <1>4, CacheAssumption, LruEmptyType
     DEF TypeOK, SinvalReset, NoLoad, Loading, Loads, database, session, messages,
         backend, Row, Version, Oid, InvalidOid
<1>5. ASSUME NEW b \in Backends, NEW n \in Names, NEW row \in Row, WriteRow(b, n, row)
      PROVE  TypeOK'
  BY <1>5, CacheAssumption, LruEmptyType
     DEF TypeOK, WriteRow, NoLoad, Loading, Loads, Visible, messages, backend, Row,
         Version, Oid, InvalidOid
<1>6. ASSUME NEW b \in Backends, FireTrigger(b)
      PROVE  TypeOK'
  BY <1>6, CacheAssumption, LruEmptyType
     DEF TypeOK, FireTrigger, NoLoad, Loading, Loads, database, messages, backend, Row,
         Version, Oid, InvalidOid
<1>7. ASSUME NEW b \in Backends, SkipTrigger(b)
      PROVE  TypeOK'
  BY <1>7, CacheAssumption, LruEmptyType
     DEF TypeOK, SkipTrigger, NoLoad, Loading, Loads, database, messages, backend, Row,
         Version, Oid, InvalidOid
<1>8. ASSUME NEW b \in Backends, EndStatement(b)
      PROVE  TypeOK'
  BY <1>8, CacheAssumption, LruEmptyType
     DEF TypeOK, EndStatement, relcache_callback, CommandEnd, NoLoad, Loading, Loads,
         PerName, database, messages, backend, Row, Version, Oid, InvalidOid
<1>9. ASSUME NEW b \in Backends, Commit(b)
      PROVE  TypeOK'
  <2>1. rows' \in [Names -> Row] /\ committed' \subseteq Version
    BY <1>9 DEF TypeOK, Commit, Row
  <2>2. replaced' \in [Backends -> [Names -> Row \cup {None}]]
    BY <1>9 DEF TypeOK, Commit
  <2>3. txn' \in [Backends -> {"none", "rc", "rr", "committing"}]
    BY <1>9 DEF TypeOK, Commit
  <2>4. \A c \in Backends : txn'[c] = "rr" => snapshot'[c] \in [Names -> Row]
    BY <1>9 DEF TypeOK, Commit
  <2>5. AllowNew(own[b]) \in [Backends -> [Names -> SUBSET Row]]
    BY DEF TypeOK, AllowNew
  <2>6. allowed' \in [Backends -> [Names -> SUBSET Row]]
    BY <1>9, <2>5 DEF Commit, PerName
  <2>7. own' \in [Backends -> [Names -> Row \cup {None}]]
    BY <1>9 DEF TypeOK, Commit, PerName
  <2> QED
    BY <1>9, <2>1, <2>2, <2>3, <2>4, <2>6, <2>7 DEF TypeOK, Commit, messages, backend
<1>10. ASSUME NEW b \in Backends, SendInvalidations(b)
      PROVE  TypeOK'
  BY <1>10, CacheAssumption, LruEmptyType
     DEF TypeOK, SendInvalidations, NoLoad, Loading, Loads, PerName, messages, backend,
         Row, Version, Oid, InvalidOid
<1>11. ASSUME NEW b \in Backends, Abort(b)
      PROVE  TypeOK'
  BY <1>11, CacheAssumption, LruEmptyType
     DEF TypeOK, Abort, relcache_callback, Discard, NoLoad, Loading, Loads, PerName,
         InTransaction, database, messages, backend, Row, Version, Oid, InvalidOid
<1>12. ASSUME NEW b \in Backends, Reconnect(b)
      PROVE  TypeOK'
  BY <1>12, CacheAssumption, LruEmptyType
     DEF TypeOK, Reconnect, Discard, NoLoad, Loading, Loads, PerName, database,
         messages, backend, Row, Version, Oid, InvalidOid
<1>13. ASSUME NEW b \in Backends, Recreate(b)
      PROVE  TypeOK'
  BY <1>13, CacheAssumption, LruEmptyType
     DEF TypeOK, Recreate, relcache_callback, AllowNew, NoLoad, Loading, Loads, PerName,
         InTransaction, messages, backend, Row, Version, Oid, InvalidOid
<1>14. ASSUME NEW b \in Backends, NEW n \in Names, LookupHit(b, n)
      PROVE  TypeOK'
  <2>1. cache[b] \in LRU!Caches
    BY DEF TypeOK
  <2>2. cache' \in [Backends -> LRU!Caches]
    BY <1>14, <2>1, LruGetType DEF TypeOK, LookupHit
  <2>3. cache[b].entry[n] \in Version
    BY <1>14, <2>1 DEF LookupHit, LRU!Caches
  <2>4. served' \in [Backends -> [Names -> Version \cup {None}]]
    BY <1>14, <2>3 DEF TypeOK, LookupHit
  <2> QED
    BY <1>14, <2>2, <2>4 DEF TypeOK, LookupHit, database, session, messages
<1>15. ASSUME NEW b \in Backends, NEW n \in Names, LookupMiss(b, n)
      PROVE  TypeOK'
  BY <1>15, CacheAssumption, LruEmptyType
     DEF TypeOK, LookupMiss, NoLoad, Loading, Loads, database, session, messages,
         backend, Row, Version, Oid, InvalidOid
<1>16. ASSUME NEW b \in Backends, ResolveOid(b)
      PROVE  TypeOK'
  BY <1>16, CacheAssumption, LruEmptyType
     DEF TypeOK, ResolveOid, NoLoad, Loading, Loads, database, session, messages,
         backend, Row, Version, Oid, InvalidOid
<1>17. ASSUME NEW b \in Backends, OpenCatalog(b)
      PROVE  TypeOK'
  <2>1. load' \in [Backends -> Loads]
    BY <1>17 DEF TypeOK, OpenCatalog, Loads, Loading, NoLoad
  <2>2. cache' \in [Backends -> LRU!Caches]
    BY <1>17, CallbackType DEF OpenCatalog, TypeOK
  <2>3. queue' \in [Backends -> SUBSET (Oid \cup {InvalidOid})]
    BY <1>17 DEF OpenCatalog, TypeOK
  <2> QED
    BY <1>17, <2>1, <2>2, <2>3 DEF TypeOK, OpenCatalog, database
<1>18. ASSUME NEW b \in Backends, ScanCatalog(b)
      PROVE  TypeOK'
  <2>1. load[b].name \in Names
    BY <1>18 DEF TypeOK, ScanCatalog, Loads, Loading, NoLoad
  <2>2. Visible(b, load[b].name) \in Row
    BY <2>1 DEF TypeOK, Visible
  <2>3. load' \in [Backends -> Loads]
    BY <1>18, <2>1, <2>2 DEF TypeOK, ScanCatalog, Loads, Loading
  <2>4. cache' \in [Backends -> LRU!Caches]
    BY <1>18, CallbackType DEF ScanCatalog, CommandEnd
  <2>5. /\ prior' \in [Backends -> SUBSET Oid]
        /\ current' \in [Backends -> SUBSET Oid]
    BY <1>18 DEF TypeOK, ScanCatalog, CommandEnd
  <2> QED
    BY <1>18, <2>3, <2>4, <2>5 DEF TypeOK, ScanCatalog, database, session
<1>19. ASSUME NEW b \in Backends, FinishLoad(b)
      PROVE  TypeOK'
  <2>1. load[b].name \in Names /\ load[b].row \in Version
    BY <1>19 DEF TypeOK, FinishLoad, Loads, Loading, NoLoad
  <2>2. LRU!Put(cache[b], load[b].name, load[b].row) \in LRU!Caches
    BY <2>1, LruPutType DEF TypeOK
  <2>3. cache' \in [Backends -> LRU!Caches]
    BY <1>19, <2>2 DEF TypeOK, FinishLoad
  <2>4. served' \in [Backends -> [Names -> Version \cup {None}]]
    BY <1>19, <2>1 DEF TypeOK, FinishLoad
  <2>5. load' \in [Backends -> Loads]
    BY <1>19 DEF TypeOK, FinishLoad, Loads
  <2> QED
    BY <1>19, <2>3, <2>4, <2>5 DEF TypeOK, FinishLoad, database, session, messages
<1>20. ASSUME NEW b \in Backends, FailLoad(b)
      PROVE  TypeOK'
  BY <1>20, CacheAssumption, LruEmptyType
     DEF TypeOK, FailLoad, relcache_callback, Discard, Abort, NoLoad, Loading, Loads,
         PerName, InTransaction, database, messages, backend, Row, Version, Oid,
         InvalidOid
<1>21. CASE UNCHANGED vars
  BY <1>21 DEF TypeOK, vars
<1> QED
  BY <1>1, <1>2, <1>3, <1>4, <1>5, <1>6, <1>7, <1>8, <1>9, <1>10, <1>11, <1>12, <1>13,
     <1>14, <1>15, <1>16, <1>17, <1>18, <1>19, <1>20, <1>21
     DEF Next

(* TypeOK holds in every state of every instance. *)
THEOREM TypeCorrect == Spec => []TypeOK
BY TypeInit, TypeNext, PTL DEF Spec

-----------------------------------------------------------------------------
(* What an invalidation, a hit and an insertion do to the entries held.    *)

(* An entry that survives the callback was there before, in a cache that   *)
(* did not match the message.                                              *)
LEMMA CallbackEntries ==
  ASSUME TypeOK, NEW b \in Backends, NEW relids, relcache_callback(b, relids),
         NEW c \in Backends, NEW n \in Names, cache'[c].entry[n] # None
  PROVE  cache'[c] = cache[c] /\ (c = b => ~Matches(b, relids))
BY DEF TypeOK, relcache_callback, LRU!EmptyCache

(* A cache hit changes the order of use, never what is held.               *)
LEMMA HitEntries ==
  ASSUME TypeOK, NEW b \in Backends, NEW m \in Names, LookupHit(b, m),
         NEW c \in Backends
  PROVE  cache'[c].entry = cache[c].entry
BY DEF TypeOK, LookupHit, LRU!Get

(* After an insertion an entry is the one held before or the row just      *)
(* loaded.                                                                 *)
LEMMA LoadEntries ==
  ASSUME TypeOK, NEW b \in Backends, FinishLoad(b),
         NEW c \in Backends, NEW n \in Names, cache'[c].entry[n] # None
  PROVE  \/ cache'[c].entry[n] = cache[c].entry[n]
         \/ c = b /\ n = load[b].name /\ cache'[c].entry[n] = load[b].row
<1>1. CASE c = b
  BY <1>1 DEF TypeOK, FinishLoad, LRU!Put
<1>2. CASE c # b
  BY <1>2 DEF TypeOK, FinishLoad
<1> QED
  BY <1>1, <1>2

(* catalog_oid() comes first in load_and_insert, so the OID is known while *)
(* a load runs and as long as anything is cached.                          *)
Resolved ==
  \A b \in Backends :
    \/ \E n \in Names : cache[b].entry[n] # None
    \/ load[b].pc \in {"open", "scan", "fetched"}
    => catalogOid[b] # None

(* No step leaves a cached schema or a running load behind without its     *)
(* OID.                                                                    *)
LEMMA ResolvedNext == TypeOK /\ Resolved /\ [Next]_vars => Resolved'
<1> SUFFICES ASSUME TypeOK, Resolved, [Next]_vars PROVE Resolved'
  OBVIOUS
<1>1. ASSUME NEW b \in Backends, NEW level \in Levels, NEW kind \in {"query", "dml"},
             Begin(b, level, kind)
      PROVE  Resolved'
  BY <1>1, CallbackEntries, CacheAssumption DEF TypeOK, Resolved, Begin, Oid
<1>2. ASSUME NEW b \in Backends, NEW kind \in {"query", "dml"}, NextStatement(b, kind)
      PROVE  Resolved'
  BY <1>2, CacheAssumption DEF TypeOK, Resolved, NextStatement, Oid, messages, backend
<1>3. ASSUME NEW b \in Backends, AcceptInvalidations(b)
      PROVE  Resolved'
  BY <1>3, CallbackEntries, CacheAssumption
     DEF TypeOK, Resolved, AcceptInvalidations, Oid, session
<1>4. ASSUME NEW b \in Backends, SinvalReset(b)
      PROVE  Resolved'
  BY <1>4, CacheAssumption DEF TypeOK, Resolved, SinvalReset, Oid, session, backend
<1>5. ASSUME NEW b \in Backends, NEW n \in Names, NEW row \in Row, WriteRow(b, n, row)
      PROVE  Resolved'
  BY <1>5, CacheAssumption DEF TypeOK, Resolved, WriteRow, Oid, messages, backend
<1>6. ASSUME NEW b \in Backends, FireTrigger(b)
      PROVE  Resolved'
  BY <1>6, CacheAssumption DEF TypeOK, Resolved, FireTrigger, Oid, backend
<1>7. ASSUME NEW b \in Backends, SkipTrigger(b)
      PROVE  Resolved'
  BY <1>7, CacheAssumption DEF TypeOK, Resolved, SkipTrigger, Oid, messages, backend
<1>8. ASSUME NEW b \in Backends, EndStatement(b)
      PROVE  Resolved'
  BY <1>8, CallbackEntries, CacheAssumption
     DEF TypeOK, Resolved, EndStatement, CommandEnd, Oid
<1>9. ASSUME NEW b \in Backends, Commit(b)
      PROVE  Resolved'
  BY <1>9, CacheAssumption DEF TypeOK, Resolved, Commit, Oid, messages, backend
<1>10. ASSUME NEW b \in Backends, SendInvalidations(b)
      PROVE  Resolved'
  BY <1>10, CacheAssumption DEF TypeOK, Resolved, SendInvalidations, Oid, backend
<1>11. ASSUME NEW b \in Backends, Abort(b)
      PROVE  Resolved'
  BY <1>11, CallbackEntries, CacheAssumption
     DEF TypeOK, Resolved, Abort, Discard, NoLoad, Loading, Oid
<1>12. ASSUME NEW b \in Backends, Reconnect(b)
      PROVE  Resolved'
  BY <1>12, CacheAssumption
     DEF TypeOK, Resolved, Reconnect, LRU!EmptyCache, Discard, NoLoad, Loading, Oid
<1>13. ASSUME NEW b \in Backends, Recreate(b)
      PROVE  Resolved'
  BY <1>13, CallbackEntries, CacheAssumption DEF TypeOK, Resolved, Recreate, Oid
<1>14. ASSUME NEW b \in Backends, NEW n \in Names, LookupHit(b, n)
      PROVE  Resolved'
  BY <1>14, HitEntries, CacheAssumption
     DEF TypeOK, Resolved, LookupHit, Oid, session, messages, backend
<1>15. ASSUME NEW b \in Backends, NEW n \in Names, LookupMiss(b, n)
      PROVE  Resolved'
  BY <1>15, CacheAssumption
     DEF TypeOK, Resolved, LookupMiss, Loading, Oid, session, messages, backend
<1>16. ASSUME NEW b \in Backends, ResolveOid(b)
      PROVE  Resolved'
  BY <1>16, CacheAssumption
     DEF TypeOK, Resolved, ResolveOid, Loading, Oid, session, messages, backend
<1>17. ASSUME NEW b \in Backends, OpenCatalog(b)
      PROVE  Resolved'
  BY <1>17, CallbackEntries, CacheAssumption
     DEF TypeOK, Resolved, OpenCatalog, Loading, Oid
<1>18. ASSUME NEW b \in Backends, ScanCatalog(b)
      PROVE  Resolved'
  BY <1>18, CallbackEntries, CacheAssumption
     DEF TypeOK, Resolved, ScanCatalog, CommandEnd, Loading, Oid, session
<1>19. ASSUME NEW b \in Backends, FinishLoad(b)
      PROVE  Resolved'
  BY <1>19, LoadEntries, CacheAssumption
     DEF TypeOK, Resolved, FinishLoad, NoLoad, Loading, Oid, session, messages, backend
<1>20. ASSUME NEW b \in Backends, FailLoad(b)
      PROVE  Resolved'
  BY <1>20, CallbackEntries, CacheAssumption
     DEF TypeOK, Resolved, FailLoad, Discard, Abort, NoLoad, Loading, Oid
<1>21. CASE UNCHANGED vars
  BY <1>21 DEF Resolved, vars
<1> QED
  BY <1>1, <1>2, <1>3, <1>4, <1>5, <1>6, <1>7, <1>8, <1>9, <1>10, <1>11, <1>12, <1>13,
     <1>14, <1>15, <1>16, <1>17, <1>18, <1>19, <1>20, <1>21
     DEF Next

(* Nothing is cached when a backend starts, so nothing need be resolved.   *)
LEMMA ResolvedInit == Init => Resolved
BY DEF Init, Resolved, LRU!EmptyCache, NoLoad, Loading

(* Resolved is an invariant, whatever the environment.                     *)
LEMMA ResolvedAlways == Spec => []Resolved
BY TypeCorrect, ResolvedInit, ResolvedNext, PTL DEF Spec

(* With one CREATE EXTENSION in the life of the database, a backend that   *)
(* holds a schema always recognises a message about the catalog.           *)
THEOREM CallbackAlwaysArmed ==
  ASSUME MaxOid = 1
  PROVE  Spec => []CallbackArmed
<1>1. TypeOK /\ Resolved => CallbackArmed
  BY DEF TypeOK, Resolved, CallbackArmed, Oid, LRU!Keys
<1> QED
  BY <1>1, TypeCorrect, ResolvedAlways, PTL

-----------------------------------------------------------------------------
(* The environment in which a flush is never missed, save for the          *)
(* isolation level and the storage of the schemas.                         *)
OrdinaryWriters == ~LookupInDml /\ ~ReplicaRole /\ MaxOid = 1

(* Where each piece of a transaction's state can be found: who writes has  *)
(* a message for it queued before the statement ends, and keeps it until   *)
(* it is sent.                                                             *)
Discipline ==
  /\ \A b \in Backends :
       /\ ~InTransaction(b) => stmt[b] = "none"
       /\ stmt[b] # "query" => load[b].pc = "idle"
       /\ IF stmt[b] = "fired" THEN relOid \in current[b] ELSE current[b] = {}
       /\ txn[b] = "none" => prior[b] = {}
  /\ \A b \in Backends, n \in Names :
       /\ own[b][n] # None =>
            InTransaction(b) /\ (stmt[b] \in {"dml", "fired"} \/ relOid \in prior[b])
       /\ replaced[b][n] # None => txn[b] = "committing" /\ relOid \in prior[b]
  /\ \A b, c \in Backends, n \in Names :
       own[b][n] # None /\ own[c][n] # None => b = c

(* No transaction is open in the initial state.                            *)
LEMMA DisciplineInit == Init => Discipline
BY DEF Init, Discipline, PerName, NoLoad, Loading, InTransaction

(* Every action keeps Discipline when each write fires the trigger.        *)
LEMMA DisciplineNext ==
  ASSUME OrdinaryWriters
  PROVE  TypeOK /\ Discipline /\ [Next]_vars => Discipline'
<1> SUFFICES ASSUME TypeOK, Discipline, [Next]_vars PROVE Discipline'
  OBVIOUS
<1>1. ASSUME NEW b \in Backends, NEW level \in Levels, NEW kind \in {"query", "dml"},
             Begin(b, level, kind)
      PROVE  Discipline'
  BY <1>1, CacheAssumption
     DEF OrdinaryWriters, TypeOK, Discipline, Begin, NoLoad, Loading, Loads,
         InTransaction, Oid, Row, database, session
<1>2. ASSUME NEW b \in Backends, NEW kind \in {"query", "dml"}, NextStatement(b, kind)
      PROVE  Discipline'
  BY <1>2, CacheAssumption
     DEF OrdinaryWriters, TypeOK, Discipline, NextStatement, NoLoad, Loading, Loads,
         InTransaction, Oid, Row, database, session, messages, backend
<1>3. ASSUME NEW b \in Backends, AcceptInvalidations(b)
      PROVE  Discipline'
  BY <1>3, CacheAssumption
     DEF OrdinaryWriters, TypeOK, Discipline, AcceptInvalidations, NoLoad, Loading,
         Loads, InTransaction, Oid, Row, database, session
<1>4. ASSUME NEW b \in Backends, SinvalReset(b)
      PROVE  Discipline'
  BY <1>4, CacheAssumption
     DEF OrdinaryWriters, TypeOK, Discipline, SinvalReset, NoLoad, Loading, Loads,
         InTransaction, Oid, Row, database, session, backend
<1>5. ASSUME NEW b \in Backends, NEW n \in Names, NEW row \in Row, WriteRow(b, n, row)
      PROVE  Discipline'
  BY <1>5, CacheAssumption
     DEF OrdinaryWriters, TypeOK, Discipline, WriteRow, NoLoad, Loading, Loads,
         InTransaction, Oid, Row, messages, backend
<1>6. ASSUME NEW b \in Backends, FireTrigger(b)
      PROVE  Discipline'
  BY <1>6, CacheAssumption
     DEF OrdinaryWriters, TypeOK, Discipline, FireTrigger, NoLoad, Loading, Loads,
         InTransaction, Oid, Row, database, session, backend
<1>7. ASSUME NEW b \in Backends, SkipTrigger(b)
      PROVE  Discipline'
  BY <1>7, CacheAssumption
     DEF OrdinaryWriters, TypeOK, Discipline, SkipTrigger, NoLoad, Loading, Loads,
         InTransaction, Oid, Row, database, session, messages, backend
<1>8. ASSUME NEW b \in Backends, EndStatement(b)
      PROVE  Discipline'
  BY <1>8, CacheAssumption
     DEF OrdinaryWriters, TypeOK, Discipline, EndStatement, CommandEnd, NoLoad, Loading,
         Loads, PerName, InTransaction, Oid, Row, database, session
<1>9. ASSUME NEW b \in Backends, Commit(b)
      PROVE  Discipline'
  BY <1>9, CacheAssumption
     DEF OrdinaryWriters, TypeOK, Discipline, Commit, NoLoad, Loading, Loads, PerName,
         InTransaction, Oid, Row, messages, backend
<1>10. ASSUME NEW b \in Backends, SendInvalidations(b)
      PROVE  Discipline'
  BY <1>10, CacheAssumption
     DEF OrdinaryWriters, TypeOK, Discipline, SendInvalidations, NoLoad, Loading, Loads,
         PerName, InTransaction, Oid, Row, backend
<1>11. ASSUME NEW b \in Backends, Abort(b)
      PROVE  Discipline'
  BY <1>11, CacheAssumption
     DEF OrdinaryWriters, TypeOK, Discipline, Abort, Discard, NoLoad, Loading, Loads,
         PerName, InTransaction, Oid, Row, database, session
<1>12. ASSUME NEW b \in Backends, Reconnect(b)
      PROVE  Discipline'
  BY <1>12, CacheAssumption
     DEF OrdinaryWriters, TypeOK, Discipline, Reconnect, Discard, NoLoad, Loading,
         Loads, PerName, InTransaction, Oid, Row, database, session
<1>13. ASSUME NEW b \in Backends, Recreate(b)
      PROVE  Discipline'
  BY <1>13, CacheAssumption
     DEF OrdinaryWriters, TypeOK, Discipline, Recreate, NoLoad, Loading, Loads, PerName,
         InTransaction, Oid, Row
<1>14. ASSUME NEW b \in Backends, NEW n \in Names, LookupHit(b, n)
      PROVE  Discipline'
  BY <1>14, CacheAssumption
     DEF OrdinaryWriters, TypeOK, Discipline, LookupHit, NoLoad, Loading, Loads,
         InTransaction, MayLookup, Oid, Row, database, session, messages, backend
<1>15. ASSUME NEW b \in Backends, NEW n \in Names, LookupMiss(b, n)
      PROVE  Discipline'
  BY <1>15, CacheAssumption
     DEF OrdinaryWriters, TypeOK, Discipline, LookupMiss, NoLoad, Loading, Loads,
         InTransaction, MayLookup, Oid, Row, database, session, messages, backend
<1>16. ASSUME NEW b \in Backends, ResolveOid(b)
      PROVE  Discipline'
  BY <1>16, CacheAssumption
     DEF OrdinaryWriters, TypeOK, Discipline, ResolveOid, NoLoad, Loading, Loads,
         InTransaction, Oid, Row, database, session, messages, backend
<1>17. ASSUME NEW b \in Backends, OpenCatalog(b)
      PROVE  Discipline'
  BY <1>17, CacheAssumption
     DEF OrdinaryWriters, TypeOK, Discipline, OpenCatalog, NoLoad, Loading, Loads,
         InTransaction, Oid, Row, database, session
<1>18. ASSUME NEW b \in Backends, ScanCatalog(b)
      PROVE  Discipline'
  BY <1>18, CacheAssumption
     DEF OrdinaryWriters, TypeOK, Discipline, ScanCatalog, CommandEnd, NoLoad, Loading,
         Loads, InTransaction, Oid, Row, database, session
<1>19. ASSUME NEW b \in Backends, FinishLoad(b)
      PROVE  Discipline'
  BY <1>19, CacheAssumption
     DEF OrdinaryWriters, TypeOK, Discipline, FinishLoad, NoLoad, Loading, Loads,
         InTransaction, Oid, Row, database, session, messages, backend
<1>20. ASSUME NEW b \in Backends, FailLoad(b)
      PROVE  Discipline'
  BY <1>20, CacheAssumption
     DEF OrdinaryWriters, TypeOK, Discipline, FailLoad, Discard, Abort, NoLoad, Loading,
         Loads, PerName, InTransaction, Oid, Row, database, session
<1>21. CASE UNCHANGED vars
  BY <1>21 DEF Discipline, InTransaction, vars
<1> QED
  BY <1>1, <1>2, <1>3, <1>4, <1>5, <1>6, <1>7, <1>8, <1>9, <1>10, <1>11, <1>12, <1>13,
     <1>14, <1>15, <1>16, <1>17, <1>18, <1>19, <1>20, <1>21
     DEF Next

(* Discipline is an invariant when each write fires the trigger.           *)
LEMMA DisciplineAlways ==
  ASSUME OrdinaryWriters
  PROVE  Spec => []Discipline
BY TypeCorrect, DisciplineInit, DisciplineNext, PTL DEF Spec

-----------------------------------------------------------------------------
(* Coherence. *)
ReadCommitted == Levels = {"rc"} /\ ~DetoastOnLoad

(* b has v for n, in its cache or as the result of a running load. *)
Held(b, n, v) ==
  \/ cache[b].entry[n] = v
  \/ load[b].pc = "fetched" /\ load[b].name = n /\ load[b].row = v

(* Where a row that a backend holds came from: it held it before, or its   *)
(* query has just found it.                                                *)
LEMMA HeldOrigin ==
  ASSUME TypeOK, [Next]_vars, NEW c \in Backends, NEW m \in Names, NEW v \in Row,
         Held(c, m, v)'
  PROVE  Held(c, m, v) \/ (ScanCatalog(c) /\ m = load[c].name /\ v = Visible(c, m))
<1>0. v # None
  BY CacheAssumption DEF Row
<1>1. ASSUME NEW b \in Backends, NEW level \in Levels, NEW kind \in {"query", "dml"},
             Begin(b, level, kind)
      PROVE  Held(c, m, v) \/ (ScanCatalog(c) /\ m = load[c].name /\ v = Visible(c, m))
  BY <1>0, <1>1, CallbackEntries DEF TypeOK, Held, Begin
<1>2. ASSUME NEW b \in Backends, NEW kind \in {"query", "dml"}, NextStatement(b, kind)
      PROVE  Held(c, m, v) \/ (ScanCatalog(c) /\ m = load[c].name /\ v = Visible(c, m))
  BY <1>0, <1>2 DEF TypeOK, Held, NextStatement, messages, backend
<1>3. ASSUME NEW b \in Backends, AcceptInvalidations(b)
      PROVE  Held(c, m, v) \/ (ScanCatalog(c) /\ m = load[c].name /\ v = Visible(c, m))
  BY <1>0, <1>3, CallbackEntries DEF TypeOK, Held, AcceptInvalidations, session
<1>4. ASSUME NEW b \in Backends, SinvalReset(b)
      PROVE  Held(c, m, v) \/ (ScanCatalog(c) /\ m = load[c].name /\ v = Visible(c, m))
  BY <1>0, <1>4 DEF TypeOK, Held, SinvalReset, session, backend
<1>5. ASSUME NEW b \in Backends, NEW n \in Names, NEW row \in Row, WriteRow(b, n, row)
      PROVE  Held(c, m, v) \/ (ScanCatalog(c) /\ m = load[c].name /\ v = Visible(c, m))
  BY <1>0, <1>5 DEF TypeOK, Held, WriteRow, messages, backend
<1>6. ASSUME NEW b \in Backends, FireTrigger(b)
      PROVE  Held(c, m, v) \/ (ScanCatalog(c) /\ m = load[c].name /\ v = Visible(c, m))
  BY <1>0, <1>6 DEF TypeOK, Held, FireTrigger, backend
<1>7. ASSUME NEW b \in Backends, SkipTrigger(b)
      PROVE  Held(c, m, v) \/ (ScanCatalog(c) /\ m = load[c].name /\ v = Visible(c, m))
  BY <1>0, <1>7 DEF TypeOK, Held, SkipTrigger, messages, backend
<1>8. ASSUME NEW b \in Backends, EndStatement(b)
      PROVE  Held(c, m, v) \/ (ScanCatalog(c) /\ m = load[c].name /\ v = Visible(c, m))
  BY <1>0, <1>8, CallbackEntries DEF TypeOK, Held, EndStatement, CommandEnd
<1>9. ASSUME NEW b \in Backends, Commit(b)
      PROVE  Held(c, m, v) \/ (ScanCatalog(c) /\ m = load[c].name /\ v = Visible(c, m))
  BY <1>0, <1>9 DEF TypeOK, Held, Commit, messages, backend
<1>10. ASSUME NEW b \in Backends, SendInvalidations(b)
      PROVE  Held(c, m, v) \/ (ScanCatalog(c) /\ m = load[c].name /\ v = Visible(c, m))
  BY <1>0, <1>10 DEF TypeOK, Held, SendInvalidations, backend
<1>11. ASSUME NEW b \in Backends, Abort(b)
      PROVE  Held(c, m, v) \/ (ScanCatalog(c) /\ m = load[c].name /\ v = Visible(c, m))
  BY <1>0, <1>11, CallbackEntries DEF TypeOK, Held, Abort, Discard, NoLoad, Loading
<1>12. ASSUME NEW b \in Backends, Reconnect(b)
      PROVE  Held(c, m, v) \/ (ScanCatalog(c) /\ m = load[c].name /\ v = Visible(c, m))
  BY <1>0, <1>12 DEF TypeOK, Held, Reconnect, LRU!EmptyCache, Discard, NoLoad, Loading
<1>13. ASSUME NEW b \in Backends, Recreate(b)
      PROVE  Held(c, m, v) \/ (ScanCatalog(c) /\ m = load[c].name /\ v = Visible(c, m))
  BY <1>0, <1>13, CallbackEntries DEF TypeOK, Held, Recreate
<1>14. ASSUME NEW b \in Backends, NEW n \in Names, LookupHit(b, n)
      PROVE  Held(c, m, v) \/ (ScanCatalog(c) /\ m = load[c].name /\ v = Visible(c, m))
  BY <1>0, <1>14, HitEntries DEF TypeOK, Held, LookupHit, session, messages
<1>15. ASSUME NEW b \in Backends, NEW n \in Names, LookupMiss(b, n)
      PROVE  Held(c, m, v) \/ (ScanCatalog(c) /\ m = load[c].name /\ v = Visible(c, m))
  BY <1>0, <1>15 DEF TypeOK, Held, LookupMiss, Loading, session, messages, backend
<1>16. ASSUME NEW b \in Backends, ResolveOid(b)
      PROVE  Held(c, m, v) \/ (ScanCatalog(c) /\ m = load[c].name /\ v = Visible(c, m))
  BY <1>0, <1>16 DEF TypeOK, Held, ResolveOid, Loading, session, messages
<1>17. ASSUME NEW b \in Backends, OpenCatalog(b)
      PROVE  Held(c, m, v) \/ (ScanCatalog(c) /\ m = load[c].name /\ v = Visible(c, m))
  BY <1>0, <1>17, CallbackEntries DEF TypeOK, Held, OpenCatalog, Loading
<1>18. ASSUME NEW b \in Backends, ScanCatalog(b)
      PROVE  Held(c, m, v) \/ (ScanCatalog(c) /\ m = load[c].name /\ v = Visible(c, m))
  <2>1. cache'[c].entry[m] = v => cache[c].entry[m] = v
    BY <1>0, <1>18, CallbackEntries DEF ScanCatalog, CommandEnd
  <2>2. \/ load'[c] = load[c]
        \/ c = b /\ load'[c] = Loading("fetched", load[c].name, Visible(c, load[c].name))
    BY <1>18 DEF ScanCatalog, TypeOK
  <2> QED
    BY <1>18, <2>1, <2>2 DEF Held, Loading
<1>19. ASSUME NEW b \in Backends, FinishLoad(b)
      PROVE  Held(c, m, v) \/ (ScanCatalog(c) /\ m = load[c].name /\ v = Visible(c, m))
  <2>1. CASE cache'[c].entry[m] = v
    <3>1. \/ cache[c].entry[m] = v
          \/ c = b /\ m = load[b].name /\ v = load[b].row
      BY <1>0, <1>19, <2>1, LoadEntries
    <3> QED
      BY <1>19, <3>1 DEF Held, FinishLoad
  <2>2. CASE cache'[c].entry[m] # v
    BY <1>19, <2>2 DEF Held, FinishLoad, TypeOK, NoLoad, Loading
  <2> QED
    BY <2>1, <2>2
<1>20. ASSUME NEW b \in Backends, FailLoad(b)
      PROVE  Held(c, m, v) \/ (ScanCatalog(c) /\ m = load[c].name /\ v = Visible(c, m))
  BY <1>0, <1>20, CallbackEntries
     DEF TypeOK, Held, FailLoad, Discard, Abort, NoLoad, Loading
<1>21. CASE UNCHANGED vars
  BY <1>21 DEF Held, vars
<1> QED
  BY <1>1, <1>2, <1>3, <1>4, <1>5, <1>6, <1>7, <1>8, <1>9, <1>10, <1>11, <1>12, <1>13,
     <1>14, <1>15, <1>16, <1>17, <1>18, <1>19, <1>20, <1>21
     DEF Next

FlushDue(b, n) == FlushPending(b) \/ AnnouncementPending(n)

(* Coherence is not inductive: when a statement that wrote n fails, the    *)
(* entry must agree with the committed row again. So an entry is also      *)
(* either the committed row or one a rollback will flush.                  *)
Sound(b, n, v) ==
  /\ v = Visible(b, n) \/ FlushDue(b, n) \/ WrittenByStatement(b, n)
  /\ v = rows[n] \/ FlushDue(b, n) \/ relOid \in prior[b]

HeldSound ==
  \A b \in Backends, n \in Names, v \in Row : Held(b, n, v) => Sound(b, n, v)

OnlyReadCommitted == \A b \in Backends : txn[b] # "rr"

(* No transaction becomes REPEATABLE READ when none may start so.          *)
LEMMA OnlyReadCommittedNext ==
  ASSUME ReadCommitted, MaxOid = 1
  PROVE  TypeOK /\ OnlyReadCommitted /\ [Next]_vars => OnlyReadCommitted'
BY DEF OnlyReadCommitted, ReadCommitted, TypeOK, Next, vars, Oid, Begin, NextStatement,
       AcceptInvalidations, SinvalReset, WriteRow, FireTrigger, SkipTrigger,
       EndStatement, Commit, SendInvalidations, Abort, Reconnect, Recreate, LookupHit,
       LookupMiss, ResolveOid, OpenCatalog, ScanCatalog, FinishLoad, FailLoad, Discard,
       session

(* Every step keeps what is held sound: a commit or a write that makes it  *)
(* stale leaves a flush behind, and no flush passes a running load by.     *)
LEMMA HeldSoundNext ==
  ASSUME OrdinaryWriters, ReadCommitted
  PROVE  TypeOK /\ Resolved /\ Discipline /\ OnlyReadCommitted /\ HeldSound /\ [Next]_vars
           => HeldSound'
<1> SUFFICES ASSUME TypeOK, Resolved, Discipline, OnlyReadCommitted, HeldSound, [Next]_vars,
                    NEW c \in Backends, NEW m \in Names, NEW v \in Row, Held(c, m, v)'
             PROVE  Sound(c, m, v)'
  BY DEF HeldSound
<1>a. v # None
  BY CacheAssumption DEF Row
<1>b. Held(c, m, v) \/ (ScanCatalog(c) /\ m = load[c].name /\ v = Visible(c, m))
  BY HeldOrigin
<1>e. OnlyReadCommitted'
  BY OnlyReadCommittedNext DEF OrdinaryWriters
(* What a query finds is sound, and scanning changes nothing it rests on.  *)
<1>c. CASE ScanCatalog(c) /\ v = Visible(c, m)
  <2>1. stmt[c] = "query" /\ current[c] = {}
    BY <1>c DEF ScanCatalog, Discipline
  <2>2. cache' = cache /\ prior' = prior
    BY <1>c, <2>1 DEF ScanCatalog, CommandEnd, relcache_callback, Matches, TypeOK
  <2>3. own[c][m] # None => relOid \in prior[c]
    BY <2>1 DEF Discipline
  <2>4. v = rows[m] \/ relOid \in prior[c]
    BY <1>c, <2>3 DEF Visible, OnlyReadCommitted
  <2> QED
    BY <1>c, <2>2, <2>4
       DEF ScanCatalog, Sound, FlushDue, FlushPending, AnnouncementPending,
           WrittenByStatement, Visible, Matches, database, session
<1>d. CASE Held(c, m, v)
  <2>0. Sound(c, m, v)
    BY <1>d DEF HeldSound
  <2>1. ASSUME NEW b \in Backends, NEW level \in Levels, NEW kind \in {"query", "dml"},
               Begin(b, level, kind)
        PROVE  Sound(c, m, v)'
    <3>1. CASE c # b
      BY <2>0, <2>1, <3>1
         DEF Begin, TypeOK, Sound, FlushDue, FlushPending, AnnouncementPending,
             WrittenByStatement, Visible, Matches, database
    <3>2. CASE c = b
      <4>1. cache'[b].entry[m] = v
        BY <2>1, <3>2 DEF Begin, Held, TypeOK, Discipline, InTransaction
      <4>2. ~Matches(b, queue[b])
        BY <1>a, <2>1, <4>1, CallbackEntries DEF Begin
      <4>3. own[b][m] = None /\ prior[b] = {}
        BY <2>1 DEF Begin, Discipline, InTransaction
      <4>4. v = rows[m] \/ AnnouncementPending(m)
        BY <2>0, <3>2, <4>2, <4>3 DEF Sound, FlushDue, FlushPending
      <4> QED
        BY <2>1, <1>e, <3>2, <4>3, <4>4
           DEF Begin, TypeOK, OnlyReadCommitted, Sound, FlushDue, FlushPending,
               AnnouncementPending, WrittenByStatement, Visible, Matches, database
    <3> QED
      BY <3>1, <3>2
  <2>2. ASSUME NEW b \in Backends, NEW kind \in {"query", "dml"}, NextStatement(b, kind)
        PROVE  Sound(c, m, v)'
    BY <2>0, <2>2
       DEF NextStatement, Sound, FlushDue, FlushPending, AnnouncementPending,
           WrittenByStatement, Visible, Matches, database, messages, backend
  <2>3. ASSUME NEW b \in Backends, AcceptInvalidations(b)
        PROVE  Sound(c, m, v)'
    <3>1. CASE c # b
      BY <2>0, <2>3, <3>1
         DEF AcceptInvalidations, TypeOK, Sound, FlushDue, FlushPending,
             AnnouncementPending, WrittenByStatement, Visible, Matches, database,
             session
    <3>2. CASE c = b
      <4>1. cache'[b].entry[m] = v
        BY <2>3, <3>2 DEF AcceptInvalidations, Held, ReadCommitted
      <4>2. ~Matches(b, queue[b])
        BY <1>a, <2>3, <4>1, CallbackEntries DEF AcceptInvalidations
      <4> QED
        BY <2>0, <2>3, <3>2, <4>2
           DEF AcceptInvalidations, TypeOK, Sound, FlushDue, FlushPending,
               AnnouncementPending, WrittenByStatement, Visible, Matches, database,
               session
    <3> QED
      BY <3>1, <3>2
  <2>4. ASSUME NEW b \in Backends, SinvalReset(b)
        PROVE  Sound(c, m, v)'
    BY <2>0, <2>4
       DEF SinvalReset, Sound, FlushDue, FlushPending, AnnouncementPending,
           WrittenByStatement, Visible, Matches, database, session, backend, InvalidOid
  <2>5. ASSUME NEW b \in Backends, NEW n \in Names, NEW row \in Row, WriteRow(b, n, row)
        PROVE  Sound(c, m, v)'
    <3>1. CASE c = b /\ m = n
      BY <2>0, <2>5, <3>1, NoneIsNoRow
         DEF WriteRow, TypeOK, Sound, FlushDue, FlushPending, AnnouncementPending,
             WrittenByStatement, Visible, Matches, messages, backend
    <3>2. CASE ~(c = b /\ m = n)
      BY <2>0, <2>5, <3>2
         DEF WriteRow, TypeOK, Sound, FlushDue, FlushPending, AnnouncementPending,
             WrittenByStatement, Visible, Matches, messages, backend
    <3> QED
      BY <3>1, <3>2
  <2>6. ASSUME NEW b \in Backends, FireTrigger(b)
        PROVE  Sound(c, m, v)'
    BY <2>0, <2>6
       DEF FireTrigger, TypeOK, Sound, FlushDue, FlushPending, AnnouncementPending,
           WrittenByStatement, Visible, Matches, database, backend
  <2>7. ASSUME NEW b \in Backends, SkipTrigger(b)
        PROVE  Sound(c, m, v)'
    BY <2>0, <2>7
       DEF SkipTrigger, Sound, FlushDue, FlushPending, AnnouncementPending,
           WrittenByStatement, Visible, Matches, OrdinaryWriters
  <2>8. ASSUME NEW b \in Backends, EndStatement(b)
        PROVE  Sound(c, m, v)'
    <3>1. CASE c # b
      BY <2>0, <2>8, <3>1
         DEF EndStatement, CommandEnd, TypeOK, Sound, FlushDue, FlushPending,
             AnnouncementPending, WrittenByStatement, Visible, Matches, database
    <3>2. CASE c = b
      <4>1. cache'[b].entry[m] = v
        BY <2>8, <3>2 DEF EndStatement, Held, TypeOK
      <4>2. cache[b].entry[m] # None /\ ~Matches(b, current[b])
        BY <1>a, <2>8, <4>1, CallbackEntries DEF EndStatement, CommandEnd
      <4>3. catalogOid[b] = relOid
        BY <4>2 DEF Resolved, OrdinaryWriters, Oid, TypeOK
      <4>4. stmt[b] = "query"
        BY <2>8, <4>2, <4>3 DEF EndStatement, Discipline, Matches
      <4> QED
        BY <2>0, <2>8, <3>2, <4>4
           DEF EndStatement, CommandEnd, TypeOK, Sound, FlushDue, FlushPending,
               AnnouncementPending, WrittenByStatement, Visible, Matches, database
    <3> QED
      BY <3>1, <3>2
  <2>9. ASSUME NEW b \in Backends, Commit(b)
        PROVE  Sound(c, m, v)'
    <3>1. ASSUME NEW d \in Backends, replaced[d][m] # None
          PROVE  replaced'[d][m] # None
      <4>1. d # b
        BY <2>9, <3>1 DEF Commit, Discipline, InTransaction
      <4> QED
        BY <2>9, <3>1, <4>1 DEF Commit, TypeOK
    <3>2. FlushPending(c) => FlushPending(c)'
      BY <2>9 DEF Commit, FlushPending, Matches, messages, backend
    <3>3. FlushDue(c, m) => FlushDue(c, m)'
      BY <3>1, <3>2 DEF FlushDue, AnnouncementPending
    <3>4. CASE own[b][m] = None
      <4>1. rows'[m] = rows[m] /\ own'[c][m] = own[c][m]
        BY <2>9, <3>4 DEF Commit, TypeOK, PerName
      <4> QED
        BY <2>0, <2>9, <1>e, <3>3, <4>1
           DEF Commit, Sound, Visible, WrittenByStatement, OnlyReadCommitted, messages
    <3>5. CASE own[b][m] # None
      <4>1. relOid \in prior[b] /\ rows'[m] = own[b][m]
        BY <2>9, <3>5 DEF Commit, Discipline
      <4>2. AnnouncementPending(m)'
        BY <2>9, <4>1, NoneIsNoRow DEF Commit, AnnouncementPending, TypeOK
      <4> QED
        BY <4>2 DEF Sound, FlushDue
    <3> QED
      BY <3>4, <3>5
  <2>10. ASSUME NEW b \in Backends, SendInvalidations(b)
        PROVE  Sound(c, m, v)'
    <3>1. catalogOid[c] = relOid
      BY <1>a, <1>d DEF Held, Resolved, OrdinaryWriters, Oid, TypeOK
    <3>2. CASE relOid \in prior[b]
      BY <2>10, <3>1, <3>2
         DEF SendInvalidations, Sound, FlushDue, FlushPending, Matches, backend
    <3>3. CASE relOid \notin prior[b]
      <4>1. replaced[b][m] = None
        BY <3>3 DEF Discipline
      <4>2. FlushDue(c, m) => FlushDue(c, m)'
        BY <2>10, <4>1
           DEF SendInvalidations, FlushDue, FlushPending, AnnouncementPending, Matches,
               TypeOK, PerName, backend
      <4> QED
        BY <2>0, <2>10, <3>3, <4>2
           DEF SendInvalidations, Sound, Visible, WrittenByStatement, TypeOK
    <3> QED
      BY <3>2, <3>3
  <2>11. ASSUME NEW b \in Backends, Abort(b)
        PROVE  Sound(c, m, v)'
    <3>1. CASE c # b
      BY <2>0, <2>11, <3>1
         DEF Abort, Discard, TypeOK, Sound, FlushDue, FlushPending, AnnouncementPending,
             WrittenByStatement, Visible, Matches, database
    <3>2. CASE c = b
      <4>1. cache'[b].entry[m] = v
        BY <2>11, <3>2 DEF Abort, Discard, Held, TypeOK, NoLoad, Loading
      <4>2. cache[b].entry[m] # None /\ ~Matches(b, prior[b])
        BY <1>a, <2>11, <4>1, CallbackEntries DEF Abort
      <4>3. relOid \notin prior[b]
        BY <4>2 DEF Matches, Resolved, OrdinaryWriters, Oid, TypeOK
      <4>4. v = rows[m] \/ FlushDue(b, m)
        BY <2>0, <3>2, <4>3 DEF Sound
      <4> QED
        BY <2>11, <3>2, <4>4
           DEF Abort, Discard, TypeOK, PerName, Sound, FlushDue, FlushPending,
               AnnouncementPending, WrittenByStatement, Visible, Matches, database
    <3> QED
      BY <3>1, <3>2
  <2>12. ASSUME NEW b \in Backends, Reconnect(b)
        PROVE  Sound(c, m, v)'
    <3>1. c # b
      BY <1>a, <2>12
         DEF Reconnect, Discard, Held, TypeOK, LRU!EmptyCache, NoLoad, Loading
    <3> QED
      BY <2>0, <2>12, <3>1
         DEF Reconnect, Discard, TypeOK, Sound, FlushDue, FlushPending,
             AnnouncementPending, WrittenByStatement, Visible, Matches, database
  <2>13. ASSUME NEW b \in Backends, Recreate(b)
        PROVE  Sound(c, m, v)'
    BY <2>0, <2>13
       DEF Recreate, Sound, FlushDue, FlushPending, AnnouncementPending,
           WrittenByStatement, Visible, Matches, OrdinaryWriters, TypeOK, Oid
  <2>14. ASSUME NEW b \in Backends, NEW n \in Names, LookupHit(b, n)
        PROVE  Sound(c, m, v)'
    BY <2>0, <2>14
       DEF LookupHit, Sound, FlushDue, FlushPending, AnnouncementPending,
           WrittenByStatement, Visible, Matches, database, session, messages
  <2>15. ASSUME NEW b \in Backends, NEW n \in Names, LookupMiss(b, n)
        PROVE  Sound(c, m, v)'
    BY <2>0, <2>15
       DEF LookupMiss, Sound, FlushDue, FlushPending, AnnouncementPending,
           WrittenByStatement, Visible, Matches, database, session, messages, backend
  <2>16. ASSUME NEW b \in Backends, ResolveOid(b)
        PROVE  Sound(c, m, v)'
    <3>1. catalogOid'[c] = catalogOid[c] \/ catalogOid[c] = None
      BY <2>16 DEF ResolveOid, TypeOK
    <3>2. FlushPending(c) => FlushPending(c)'
      BY <2>16, <3>1, NoneIsNoOid
         DEF ResolveOid, FlushPending, Matches, TypeOK, messages
    <3> QED
      BY <2>0, <2>16, <3>2
         DEF ResolveOid, Sound, FlushDue, AnnouncementPending, WrittenByStatement,
             Visible, database, session, messages
  <2>17. ASSUME NEW b \in Backends, OpenCatalog(b)
        PROVE  Sound(c, m, v)'
    <3>1. CASE holds[b]
      BY <2>0, <2>17, <3>1
         DEF OpenCatalog, TypeOK, Sound, FlushDue, FlushPending, AnnouncementPending,
             WrittenByStatement, Visible, Matches, database
    <3>2. CASE ~holds[b] /\ c # b
      BY <2>0, <2>17, <3>2
         DEF OpenCatalog, TypeOK, Sound, FlushDue, FlushPending, AnnouncementPending,
             WrittenByStatement, Visible, Matches, database
    <3>3. CASE ~holds[b] /\ c = b
      <4>1. cache'[b].entry[m] = v
        BY <2>17, <3>3 DEF OpenCatalog, Held, TypeOK, Loading
      <4>2. ~Matches(b, queue[b])
        BY <1>a, <2>17, <3>3, <4>1, CallbackEntries DEF OpenCatalog
      <4> QED
        BY <2>0, <2>17, <3>3, <4>2
           DEF OpenCatalog, TypeOK, Sound, FlushDue, FlushPending, AnnouncementPending,
               WrittenByStatement, Visible, Matches, database
    <3> QED
      BY <3>1, <3>2, <3>3
  <2>18. ASSUME NEW b \in Backends, ScanCatalog(b)
        PROVE  Sound(c, m, v)'
    <3>1. current[b] = {}
      BY <2>18 DEF ScanCatalog, Discipline
    <3>2. cache' = cache /\ prior' = prior
      BY <2>18, <3>1 DEF ScanCatalog, CommandEnd, relcache_callback, Matches, TypeOK
    <3> QED
      BY <2>0, <2>18, <3>2
         DEF ScanCatalog, Sound, FlushDue, FlushPending, AnnouncementPending,
             WrittenByStatement, Visible, Matches, database, session
  <2>19. ASSUME NEW b \in Backends, FinishLoad(b)
        PROVE  Sound(c, m, v)'
    BY <2>0, <2>19
       DEF FinishLoad, Sound, FlushDue, FlushPending, AnnouncementPending,
           WrittenByStatement, Visible, Matches, database, session, messages
  <2>20. ASSUME NEW b \in Backends, FailLoad(b)
        PROVE  Sound(c, m, v)'
    BY <2>11, <2>20 DEF FailLoad
  <2>21. CASE UNCHANGED vars
    BY <2>0, <2>21
       DEF Sound, FlushDue, FlushPending, AnnouncementPending, WrittenByStatement,
           Visible, Matches, vars
  <2> QED
    BY <2>1, <2>2, <2>3, <2>4, <2>5, <2>6, <2>7, <2>8, <2>9, <2>10, <2>11, <2>12, <2>13,
       <2>14, <2>15, <2>16, <2>17, <2>18, <2>19, <2>20, <2>21
       DEF Next
<1> QED
  BY <1>b, <1>c, <1>d

(* Under READ COMMITTED, with schemas small enough to be stored inline,    *)
(* one CREATE EXTENSION and writers that fire the trigger, no entry is     *)
(* ever stale without a flush on its way: the coherence the design rests   *)
(* on, for any number of backends, names and writes and any capacity.      *)
THEOREM CacheCoherent ==
  ASSUME OrdinaryWriters, ReadCommitted
  PROVE  Spec => []Coherence
<1>1. Init => OnlyReadCommitted /\ HeldSound
  BY CacheAssumption
     DEF Init, OnlyReadCommitted, HeldSound, Held, LRU!EmptyCache, NoLoad, Loading, Row
<1>2. TypeOK /\ HeldSound => Coherence
  BY DEF TypeOK, HeldSound, Held, Sound, FlushDue, Coherence, LRU!Caches, Version, Row
<1>3. MaxOid = 1
  BY DEF OrdinaryWriters
<1> QED
  BY <1>1, <1>2, <1>3, OnlyReadCommittedNext, HeldSoundNext, TypeCorrect,
     ResolvedAlways, DisciplineAlways, PTL
     DEF Spec

-----------------------------------------------------------------------------
(* No phantom. *)

(* Every committed row, and every row of a snapshot, was committed.        *)
RowsCommitted ==
  /\ \A n \in Names : rows[n] \in committed \cup {0}
  /\ \A b \in Backends, n \in Names : txn[b] = "rr" => snapshot[b][n] \in committed \cup {0}

(* Every step keeps rows and snapshots among what was committed.           *)
LEMMA RowsCommittedNext ==
  ASSUME MaxOid = 1
  PROVE  TypeOK /\ RowsCommitted /\ [Next]_vars => RowsCommitted'
<1> SUFFICES ASSUME TypeOK, RowsCommitted, [Next]_vars PROVE RowsCommitted'
  OBVIOUS
<1>1. ASSUME NEW b \in Backends, NEW level \in Levels, NEW kind \in {"query", "dml"},
             Begin(b, level, kind)
      PROVE  RowsCommitted'
  BY <1>1 DEF TypeOK, RowsCommitted, Begin, Oid, Row, Version, database, session
<1>2. ASSUME NEW b \in Backends, NEW kind \in {"query", "dml"}, NextStatement(b, kind)
      PROVE  RowsCommitted'
  BY <1>2 DEF TypeOK, RowsCommitted, NextStatement, Oid, Row, Version, database, session
<1>3. ASSUME NEW b \in Backends, AcceptInvalidations(b)
      PROVE  RowsCommitted'
  BY <1>3
     DEF TypeOK, RowsCommitted, AcceptInvalidations, Oid, Row, Version, database,
         session
<1>4. ASSUME NEW b \in Backends, SinvalReset(b)
      PROVE  RowsCommitted'
  BY <1>4 DEF TypeOK, RowsCommitted, SinvalReset, Oid, Row, Version, database, session
<1>5. ASSUME NEW b \in Backends, NEW n \in Names, NEW row \in Row, WriteRow(b, n, row)
      PROVE  RowsCommitted'
  BY <1>5 DEF TypeOK, RowsCommitted, WriteRow, Oid, Row, Version
<1>6. ASSUME NEW b \in Backends, FireTrigger(b)
      PROVE  RowsCommitted'
  BY <1>6 DEF TypeOK, RowsCommitted, FireTrigger, Oid, Row, Version, database, session
<1>7. ASSUME NEW b \in Backends, SkipTrigger(b)
      PROVE  RowsCommitted'
  BY <1>7 DEF TypeOK, RowsCommitted, SkipTrigger, Oid, Row, Version, database, session
<1>8. ASSUME NEW b \in Backends, EndStatement(b)
      PROVE  RowsCommitted'
  BY <1>8 DEF TypeOK, RowsCommitted, EndStatement, Oid, Row, Version, database, session
<1>9. ASSUME NEW b \in Backends, Commit(b)
      PROVE  RowsCommitted'
  BY <1>9 DEF TypeOK, RowsCommitted, Commit, Oid, Row, Version
<1>10. ASSUME NEW b \in Backends, SendInvalidations(b)
      PROVE  RowsCommitted'
  BY <1>10 DEF TypeOK, RowsCommitted, SendInvalidations, Oid, Row, Version
<1>11. ASSUME NEW b \in Backends, Abort(b)
      PROVE  RowsCommitted'
  BY <1>11
     DEF TypeOK, RowsCommitted, Abort, Discard, Oid, Row, Version, database, session
<1>12. ASSUME NEW b \in Backends, Reconnect(b)
      PROVE  RowsCommitted'
  BY <1>12
     DEF TypeOK, RowsCommitted, Reconnect, Discard, Oid, Row, Version, database, session
<1>13. ASSUME NEW b \in Backends, Recreate(b)
      PROVE  RowsCommitted'
  BY <1>13 DEF TypeOK, RowsCommitted, Recreate, Oid, Row, Version
<1>14. ASSUME NEW b \in Backends, NEW n \in Names, LookupHit(b, n)
      PROVE  RowsCommitted'
  BY <1>14 DEF TypeOK, RowsCommitted, LookupHit, Oid, Row, Version, database, session
<1>15. ASSUME NEW b \in Backends, NEW n \in Names, LookupMiss(b, n)
      PROVE  RowsCommitted'
  BY <1>15 DEF TypeOK, RowsCommitted, LookupMiss, Oid, Row, Version, database, session
<1>16. ASSUME NEW b \in Backends, ResolveOid(b)
      PROVE  RowsCommitted'
  BY <1>16 DEF TypeOK, RowsCommitted, ResolveOid, Oid, Row, Version, database, session
<1>17. ASSUME NEW b \in Backends, OpenCatalog(b)
      PROVE  RowsCommitted'
  BY <1>17 DEF TypeOK, RowsCommitted, OpenCatalog, Oid, Row, Version, database, session
<1>18. ASSUME NEW b \in Backends, ScanCatalog(b)
      PROVE  RowsCommitted'
  BY <1>18 DEF TypeOK, RowsCommitted, ScanCatalog, Oid, Row, Version, database, session
<1>19. ASSUME NEW b \in Backends, FinishLoad(b)
      PROVE  RowsCommitted'
  BY <1>19 DEF TypeOK, RowsCommitted, FinishLoad, Oid, Row, Version, database, session
<1>20. ASSUME NEW b \in Backends, FailLoad(b)
      PROVE  RowsCommitted'
  BY <1>20
     DEF TypeOK, RowsCommitted, FailLoad, Discard, Abort, Oid, Row, Version, database,
         session
<1>21. CASE UNCHANGED vars
  BY <1>21 DEF RowsCommitted, vars
<1> QED
  BY <1>1, <1>2, <1>3, <1>4, <1>5, <1>6, <1>7, <1>8, <1>9, <1>10, <1>11, <1>12, <1>13,
     <1>14, <1>15, <1>16, <1>17, <1>18, <1>19, <1>20, <1>21
     DEF Next

(* Only what the verifier accepted is ever inserted. *)
CacheVerified == \A b \in Backends, n \in Names : cache[b].entry[n] \notin Corrupt

(* No step inserts bytes the verifier rejects (schema_cache.rs:195-206).   *)
LEMMA CacheVerifiedNext == TypeOK /\ CacheVerified /\ [Next]_vars => CacheVerified'
<1> SUFFICES ASSUME TypeOK, CacheVerified, [Next]_vars, NEW c \in Backends, NEW m \in Names,
                    cache'[c].entry[m] # None
             PROVE  cache'[c].entry[m] \notin Corrupt
  BY NoneIsNoRow DEF CacheVerified
<1>1. ASSUME NEW b \in Backends, NEW level \in Levels, NEW kind \in {"query", "dml"},
             Begin(b, level, kind)
      PROVE  cache'[c].entry[m] \notin Corrupt
  BY <1>1, CallbackEntries DEF CacheVerified, Begin
<1>2. ASSUME NEW b \in Backends, NEW kind \in {"query", "dml"}, NextStatement(b, kind)
      PROVE  cache'[c].entry[m] \notin Corrupt
  BY <1>2 DEF CacheVerified, NextStatement, messages, backend
<1>3. ASSUME NEW b \in Backends, AcceptInvalidations(b)
      PROVE  cache'[c].entry[m] \notin Corrupt
  BY <1>3, CallbackEntries DEF CacheVerified, AcceptInvalidations
<1>4. ASSUME NEW b \in Backends, SinvalReset(b)
      PROVE  cache'[c].entry[m] \notin Corrupt
  BY <1>4 DEF CacheVerified, SinvalReset, backend
<1>5. ASSUME NEW b \in Backends, NEW n \in Names, NEW row \in Row, WriteRow(b, n, row)
      PROVE  cache'[c].entry[m] \notin Corrupt
  BY <1>5 DEF CacheVerified, WriteRow, messages, backend
<1>6. ASSUME NEW b \in Backends, FireTrigger(b)
      PROVE  cache'[c].entry[m] \notin Corrupt
  BY <1>6 DEF CacheVerified, FireTrigger, backend
<1>7. ASSUME NEW b \in Backends, SkipTrigger(b)
      PROVE  cache'[c].entry[m] \notin Corrupt
  BY <1>7 DEF CacheVerified, SkipTrigger, messages, backend
<1>8. ASSUME NEW b \in Backends, EndStatement(b)
      PROVE  cache'[c].entry[m] \notin Corrupt
  BY <1>8, CallbackEntries DEF CacheVerified, EndStatement, CommandEnd
<1>9. ASSUME NEW b \in Backends, Commit(b)
      PROVE  cache'[c].entry[m] \notin Corrupt
  BY <1>9 DEF CacheVerified, Commit, messages, backend
<1>10. ASSUME NEW b \in Backends, SendInvalidations(b)
      PROVE  cache'[c].entry[m] \notin Corrupt
  BY <1>10 DEF CacheVerified, SendInvalidations, backend
<1>11. ASSUME NEW b \in Backends, Abort(b)
      PROVE  cache'[c].entry[m] \notin Corrupt
  BY <1>11, CallbackEntries DEF CacheVerified, Abort
<1>12. ASSUME NEW b \in Backends, Reconnect(b)
      PROVE  cache'[c].entry[m] \notin Corrupt
  BY <1>12 DEF CacheVerified, Reconnect, LRU!EmptyCache, TypeOK, Discard
<1>13. ASSUME NEW b \in Backends, Recreate(b)
      PROVE  cache'[c].entry[m] \notin Corrupt
  BY <1>13, CallbackEntries DEF CacheVerified, Recreate
<1>14. ASSUME NEW b \in Backends, NEW n \in Names, LookupHit(b, n)
      PROVE  cache'[c].entry[m] \notin Corrupt
  BY <1>14, HitEntries DEF CacheVerified, LookupHit, messages, backend
<1>15. ASSUME NEW b \in Backends, NEW n \in Names, LookupMiss(b, n)
      PROVE  cache'[c].entry[m] \notin Corrupt
  BY <1>15 DEF CacheVerified, LookupMiss, messages, backend
<1>16. ASSUME NEW b \in Backends, ResolveOid(b)
      PROVE  cache'[c].entry[m] \notin Corrupt
  BY <1>16 DEF CacheVerified, ResolveOid, messages, backend
<1>17. ASSUME NEW b \in Backends, OpenCatalog(b)
      PROVE  cache'[c].entry[m] \notin Corrupt
  BY <1>17, CallbackEntries DEF CacheVerified, OpenCatalog
<1>18. ASSUME NEW b \in Backends, ScanCatalog(b)
      PROVE  cache'[c].entry[m] \notin Corrupt
  BY <1>18, CallbackEntries DEF CacheVerified, ScanCatalog, CommandEnd
<1>19. ASSUME NEW b \in Backends, FinishLoad(b)
      PROVE  cache'[c].entry[m] \notin Corrupt
  <2>1. \/ cache'[c].entry[m] = cache[c].entry[m]
        \/ cache'[c].entry[m] = load[b].row
    BY <1>19, LoadEntries
  <2>2. load[b].row \notin Corrupt
    BY <1>19 DEF FinishLoad
  <2> QED
    BY <2>1, <2>2 DEF CacheVerified
<1>20. ASSUME NEW b \in Backends, FailLoad(b)
      PROVE  cache'[c].entry[m] \notin Corrupt
  BY <1>20, CallbackEntries DEF CacheVerified, FailLoad, Abort
<1>21. CASE UNCHANGED vars
  BY <1>21 DEF CacheVerified, vars
<1> QED
  BY <1>1, <1>2, <1>3, <1>4, <1>5, <1>6, <1>7, <1>8, <1>9, <1>10, <1>11, <1>12, <1>13,
     <1>14, <1>15, <1>16, <1>17, <1>18, <1>19, <1>20, <1>21
     DEF Next

(* A row nobody committed is only held by the transaction that wrote it,   *)
(* and then a rollback will flush it.                                      *)
Genuine(b, n, v) ==
  \/ v \in committed
  \/ relOid \in prior[b] /\ (v = own[b][n] \/ WrittenByStatement(b, n))

HeldGenuine ==
  \A b \in Backends, n \in Names, v \in Version : Held(b, n, v) => Genuine(b, n, v)

(* Every step keeps what is held genuine: an abort flushes what it un-     *)
(* writes.                                                                 *)
LEMMA HeldGenuineNext ==
  ASSUME OrdinaryWriters
  PROVE  TypeOK /\ Resolved /\ Discipline /\ RowsCommitted /\ HeldGenuine /\ [Next]_vars
           => HeldGenuine'
<1> SUFFICES ASSUME TypeOK, Resolved, Discipline, RowsCommitted, HeldGenuine, [Next]_vars,
                    NEW c \in Backends, NEW m \in Names, NEW v \in Version, Held(c, m, v)'
             PROVE  Genuine(c, m, v)'
  BY DEF HeldGenuine
<1>a. v # None /\ v \in Row
  BY CacheAssumption DEF Row, Version
<1>b. Held(c, m, v) \/ (ScanCatalog(c) /\ m = load[c].name /\ v = Visible(c, m))
  BY <1>a, HeldOrigin
<1>c. CASE ScanCatalog(c) /\ v = Visible(c, m)
  <2>1. own[c][m] # None => relOid \in prior[c]
    BY <1>c DEF ScanCatalog, Discipline
  <2>2. Genuine(c, m, v)
    BY <1>c, <2>1 DEF Visible, Genuine, RowsCommitted, Version
  <2> QED
    BY <1>c, <2>2
       DEF ScanCatalog, CommandEnd, Genuine, WrittenByStatement, TypeOK, database,
           session
<1>d. CASE Held(c, m, v)
  <2>0. Genuine(c, m, v)
    BY <1>d DEF HeldGenuine
  <2>1. ASSUME NEW b \in Backends, NEW level \in Levels, NEW kind \in {"query", "dml"},
               Begin(b, level, kind)
        PROVE  Genuine(c, m, v)'
    BY <2>0, <2>1, <1>a, CallbackEntries, CacheAssumption
       DEF Matches, OrdinaryWriters, TypeOK, Discipline, Resolved, Held, Genuine,
           WrittenByStatement, Begin, InTransaction, Oid, Version, database, session
  <2>2. ASSUME NEW b \in Backends, NEW kind \in {"query", "dml"}, NextStatement(b, kind)
        PROVE  Genuine(c, m, v)'
    BY <2>0, <2>2, <1>a, CacheAssumption
       DEF Matches, OrdinaryWriters, TypeOK, Discipline, Resolved, Held, Genuine,
           WrittenByStatement, NextStatement, InTransaction, Oid, Version, database,
           session, messages
  <2>3. ASSUME NEW b \in Backends, AcceptInvalidations(b)
        PROVE  Genuine(c, m, v)'
    BY <2>0, <2>3, <1>a, CallbackEntries, CacheAssumption
       DEF Matches, OrdinaryWriters, TypeOK, Discipline, Resolved, Held, Genuine,
           WrittenByStatement, AcceptInvalidations, InTransaction, Oid, Version,
           database, session
  <2>4. ASSUME NEW b \in Backends, SinvalReset(b)
        PROVE  Genuine(c, m, v)'
    BY <2>0, <2>4, <1>a, CacheAssumption
       DEF Matches, OrdinaryWriters, TypeOK, Discipline, Resolved, Held, Genuine,
           WrittenByStatement, SinvalReset, InTransaction, Oid, Version, database,
           session
  <2>5. ASSUME NEW b \in Backends, NEW n \in Names, NEW row \in Row, WriteRow(b, n, row)
        PROVE  Genuine(c, m, v)'
    <3>1. own'[c][m] = own[c][m] \/ (c = b /\ own'[c][m] # None)
      BY <2>5, CacheAssumption DEF WriteRow, TypeOK, Row
    <3>2. CASE own'[c][m] = own[c][m]
      BY <2>0, <2>5, <3>2 DEF WriteRow, Genuine, WrittenByStatement, messages
    <3>3. CASE c = b /\ own'[c][m] # None
      BY <2>0, <2>5, <3>3 DEF WriteRow, Genuine, WrittenByStatement, messages
    <3> QED
      BY <3>1, <3>2, <3>3
  <2>6. ASSUME NEW b \in Backends, FireTrigger(b)
        PROVE  Genuine(c, m, v)'
    BY <2>0, <2>6, <1>a, CacheAssumption
       DEF Matches, OrdinaryWriters, TypeOK, Discipline, Resolved, Held, Genuine,
           WrittenByStatement, FireTrigger, InTransaction, Oid, Version, database,
           session
  <2>7. ASSUME NEW b \in Backends, SkipTrigger(b)
        PROVE  Genuine(c, m, v)'
    BY <2>0, <2>7, <1>a, CacheAssumption
       DEF Matches, OrdinaryWriters, TypeOK, Discipline, Resolved, Held, Genuine,
           WrittenByStatement, SkipTrigger, InTransaction, Oid, Version, database,
           session, messages
  <2>8. ASSUME NEW b \in Backends, EndStatement(b)
        PROVE  Genuine(c, m, v)'
    BY <2>0, <2>8, <1>a, CallbackEntries, CacheAssumption
       DEF Matches, OrdinaryWriters, TypeOK, Discipline, Resolved, Held, Genuine,
           WrittenByStatement, EndStatement, CommandEnd, PerName, InTransaction, Oid,
           Version, database, session
  <2>9. ASSUME NEW b \in Backends, Commit(b)
        PROVE  Genuine(c, m, v)'
    BY <2>0, <2>9, <1>a, CacheAssumption
       DEF Matches, OrdinaryWriters, TypeOK, Discipline, Resolved, Held, Genuine,
           WrittenByStatement, Commit, PerName, InTransaction, Oid, Version, messages
  <2>10. ASSUME NEW b \in Backends, SendInvalidations(b)
        PROVE  Genuine(c, m, v)'
    <3>1. own[b][m] = None /\ stmt[b] = "none"
      BY <2>10 DEF SendInvalidations, Discipline, InTransaction
    <3>2. CASE c = b
      BY <1>a, <2>0, <2>10, <3>1, <3>2
         DEF SendInvalidations, Genuine, WrittenByStatement
    <3>3. CASE c # b
      BY <2>0, <2>10, <3>3 DEF SendInvalidations, Genuine, WrittenByStatement, TypeOK
    <3> QED
      BY <3>2, <3>3
  <2>11. ASSUME NEW b \in Backends, Abort(b)
        PROVE  Genuine(c, m, v)'
    <3>1. CASE c # b
      BY <2>0, <2>11, <3>1
         DEF Abort, Discard, Genuine, WrittenByStatement, TypeOK, database
    <3>2. CASE c = b
      <4>1. cache'[b].entry[m] = v
        BY <2>11, <3>2 DEF Abort, Discard, Held, TypeOK, NoLoad, Loading
      <4>2. cache[b].entry[m] # None /\ ~Matches(b, prior[b])
        BY <1>a, <2>11, <4>1, CallbackEntries DEF Abort
      <4>3. relOid \notin prior[b]
        BY <4>2 DEF Matches, Resolved, OrdinaryWriters, Oid, TypeOK
      <4> QED
        BY <2>0, <2>11, <3>2, <4>3 DEF Abort, Genuine, database
    <3> QED
      BY <3>1, <3>2
  <2>12. ASSUME NEW b \in Backends, Reconnect(b)
        PROVE  Genuine(c, m, v)'
    <3>1. c # b
      BY <1>a, <2>12
         DEF Reconnect, Discard, Held, TypeOK, LRU!EmptyCache, NoLoad, Loading
    <3> QED
      BY <2>0, <2>12, <3>1
         DEF Reconnect, Discard, Genuine, WrittenByStatement, TypeOK, database
  <2>13. ASSUME NEW b \in Backends, Recreate(b)
        PROVE  Genuine(c, m, v)'
    BY <2>0, <2>13, <1>a, CallbackEntries, CacheAssumption
       DEF Matches, OrdinaryWriters, TypeOK, Discipline, Resolved, Held, Genuine,
           WrittenByStatement, Recreate, PerName, InTransaction, Oid, Version
  <2>14. ASSUME NEW b \in Backends, NEW n \in Names, LookupHit(b, n)
        PROVE  Genuine(c, m, v)'
    BY <2>0, <2>14, <1>a, CacheAssumption
       DEF Matches, OrdinaryWriters, TypeOK, Discipline, Resolved, Held, Genuine,
           WrittenByStatement, LookupHit, InTransaction, Oid, Version, database,
           session, messages
  <2>15. ASSUME NEW b \in Backends, NEW n \in Names, LookupMiss(b, n)
        PROVE  Genuine(c, m, v)'
    BY <2>0, <2>15, <1>a, CacheAssumption
       DEF Matches, OrdinaryWriters, TypeOK, Discipline, Resolved, Held, Genuine,
           WrittenByStatement, LookupMiss, Loading, InTransaction, Oid, Version,
           database, session, messages
  <2>16. ASSUME NEW b \in Backends, ResolveOid(b)
        PROVE  Genuine(c, m, v)'
    BY <2>0, <2>16, <1>a, CacheAssumption
       DEF Matches, OrdinaryWriters, TypeOK, Discipline, Resolved, Held, Genuine,
           WrittenByStatement, ResolveOid, Loading, InTransaction, Oid, Version,
           database, session, messages
  <2>17. ASSUME NEW b \in Backends, OpenCatalog(b)
        PROVE  Genuine(c, m, v)'
    BY <2>0, <2>17, <1>a, CallbackEntries, CacheAssumption
       DEF Matches, OrdinaryWriters, TypeOK, Discipline, Resolved, Held, Genuine,
           WrittenByStatement, OpenCatalog, Loading, InTransaction, Oid, Version,
           database, session
  <2>18. ASSUME NEW b \in Backends, ScanCatalog(b)
        PROVE  Genuine(c, m, v)'
    BY <2>0, <2>18, <1>a, CallbackEntries, CacheAssumption
       DEF Matches, OrdinaryWriters, TypeOK, Discipline, Resolved, Held, Genuine,
           WrittenByStatement, ScanCatalog, CommandEnd, Loading, InTransaction, Oid,
           Version, database, session
  <2>19. ASSUME NEW b \in Backends, FinishLoad(b)
        PROVE  Genuine(c, m, v)'
    BY <2>0, <2>19, <1>a, CacheAssumption
       DEF Matches, OrdinaryWriters, TypeOK, Discipline, Resolved, Held, Genuine,
           WrittenByStatement, FinishLoad, NoLoad, Loading, InTransaction, Oid, Version,
           database, session, messages
  <2>20. ASSUME NEW b \in Backends, FailLoad(b)
        PROVE  Genuine(c, m, v)'
    BY <2>0, <2>20, <1>a, CallbackEntries, CacheAssumption
       DEF Matches, OrdinaryWriters, TypeOK, Discipline, Resolved, Held, Genuine,
           WrittenByStatement, FailLoad, Discard, Abort, NoLoad, Loading, PerName,
           InTransaction, Oid, Version, database, session
  <2>21. CASE UNCHANGED vars
    BY <2>0, <2>21 DEF Genuine, WrittenByStatement, vars
  <2> QED
    BY <2>1, <2>2, <2>3, <2>4, <2>5, <2>6, <2>7, <2>8, <2>9, <2>10, <2>11, <2>12, <2>13,
       <2>14, <2>15, <2>16, <2>17, <2>18, <2>19, <2>20, <2>21
       DEF Next
<1> QED
  BY <1>b, <1>c, <1>d

(* Writers that fire the trigger and do not call the extension while they  *)
(* write never leave anything behind that was not committed, whatever the  *)
(* isolation level and however schemas are stored.                         *)
THEOREM NoPhantomEver ==
  ASSUME OrdinaryWriters
  PROVE  Spec => []NoPhantomSchema
<1>1. Init => RowsCommitted /\ CacheVerified /\ HeldGenuine
  BY NoneIsNoRow
     DEF Init, RowsCommitted, CacheVerified, HeldGenuine, Held, LRU!EmptyCache, NoLoad,
         Loading, PerName, Version
<1>2. TypeOK /\ CacheVerified /\ HeldGenuine => NoPhantomSchema
  BY DEF TypeOK, CacheVerified, HeldGenuine, Held, Genuine, NoPhantomSchema, LRU!Caches
<1>3. MaxOid = 1
  BY DEF OrdinaryWriters
<1> QED
  BY <1>1, <1>2, <1>3, RowsCommittedNext, CacheVerifiedNext, HeldGenuineNext,
     TypeCorrect, ResolvedAlways, DisciplineAlways, PTL
     DEF Spec

-----------------------------------------------------------------------------
(* The LRU map. *)

(* Every set of keys has one that was used before all others of the set.   *)
(* This says that the recency order of a finite map has a back of the list *)
(* to evict, in a form that every operation keeps.                         *)
HasOldest(c) ==
  \A S \in SUBSET LRU!Keys(c) :
    S # {} => \E n \in S : \A m \in S \ {n} : <<n, m>> \in c.older

LruInv(c) == LRU!LruOK(c) /\ HasOldest(c)

(* The instance brings a Cardinality of its own, which is the same. *)
LEMMA LruCardinality ==
  ASSUME NEW S PROVE LRU!Cardinality(S) = Cardinality(S)
BY DEF LRU!Cardinality, Cardinality

(* LruCache::new and clear leave an empty list. *)
LEMMA LruEmpty == LruInv(LRU!EmptyCache)
<1>1. LRU!Keys(LRU!EmptyCache) = {}
  BY DEF LRU!Keys, LRU!EmptyCache
<1>2. Cardinality({}) = 0 /\ 0 <= Capacity
  BY FS_EmptySet, CacheAssumption
<1> QED
  BY <1>1, <1>2, LruCardinality DEF LruInv, HasOldest, LRU!LruOK, LRU!EmptyCache

(* To move a key to the front, or to insert one there, keeps the order of  *)
(* the others: the list stays a list of exactly the keys that are kept.    *)
LEMMA PromotedOrder ==
  ASSUME NEW c \in LRU!Caches, LruInv(c), NEW n \in Names, NEW kept \in SUBSET Names,
         NEW d \in LRU!Caches, LRU!Keys(d) = kept, kept \ {n} \subseteq LRU!Keys(c),
         n \in kept, d.older = LRU!Promoted(c.older, kept, n),
         Cardinality(kept) <= Capacity
  PROVE  LruInv(d)
<1> DEFINE others == kept \ {n}
<1>1. \A p \in Names \X Names :
        p \in d.older <=> \/ p \in c.older /\ p[1] \in others /\ p[2] \in others
                          \/ p[1] \in others /\ p[2] = n
  BY DEF LRU!Promoted
<1>2. d.older \subseteq kept \X kept
  BY DEF LRU!Promoted
<1>3. \A m, k \in Names :
        <<m, k>> \in d.older <=> \/ <<m, k>> \in c.older /\ m \in others /\ k \in others
                                 \/ m \in others /\ k = n
  BY <1>1
<1>4. others \subseteq LRU!Keys(c) /\ others \subseteq Names /\ n \notin others
  OBVIOUS
<1>5. \A k, m \in kept : k # m => (<<k, m>> \in d.older <=> <<m, k>> \notin d.older)
  BY <1>3, <1>4 DEF LruInv, LRU!LruOK
<1>6. \A k \in kept : <<k, k>> \notin d.older
  BY <1>3, <1>4 DEF LruInv, LRU!LruOK
<1>7. \A k, l, m \in kept : <<k, l>> \in d.older /\ <<l, m>> \in d.older => <<k, m>> \in d.older
  BY <1>3, <1>4 DEF LruInv, LRU!LruOK
<1>8. HasOldest(d)
  <2> SUFFICES ASSUME NEW S \in SUBSET kept, S # {}
               PROVE  \E k \in S : \A m \in S \ {k} : <<k, m>> \in d.older
    BY DEF HasOldest
  <2>1. CASE S \ {n} = {}
    BY <2>1
  <2>2. CASE S \ {n} # {}
    <3>1. S \ {n} \in SUBSET LRU!Keys(c)
      BY <1>4
    <3>2. PICK k \in S \ {n} : \A m \in (S \ {n}) \ {k} : <<k, m>> \in c.older
      BY <2>2, <3>1 DEF LruInv, HasOldest
    <3>3. \A m \in S \ {k} : <<k, m>> \in d.older
      BY <1>3, <1>4, <3>2
    <3> QED
      BY <3>2, <3>3
  <2> QED
    BY <2>1, <2>2
<1> QED
  BY <1>2, <1>5, <1>6, <1>7, <1>8, LruCardinality DEF LruInv, LRU!LruOK

(* A get of a key that is held keeps the list well formed.                 *)
LEMMA LruGet ==
  ASSUME NEW c \in LRU!Caches, LruInv(c), NEW n \in Names, c.entry[n] # None
  PROVE  LruInv(LRU!Get(c, n))
<1>1. LRU!Get(c, n) \in LRU!Caches
  BY LruGetType
<1>2. LRU!Keys(LRU!Get(c, n)) = LRU!Keys(c) /\ n \in LRU!Keys(c)
  BY DEF LRU!Keys, LRU!Get
<1>3. LRU!Keys(c) \in SUBSET Names
  BY DEF LRU!Keys
<1>4. LRU!Get(c, n).older = LRU!Promoted(c.older, LRU!Keys(c), n)
  BY DEF LRU!Get
<1>5. Cardinality(LRU!Keys(c)) <= Capacity
  BY LruCardinality DEF LruInv, LRU!LruOK
<1> QED
  BY <1>1, <1>2, <1>3, <1>4, <1>5, PromotedOrder

(* A full map has a back of the list.                                      *)
LEMMA OldestIsKey ==
  ASSUME NEW c, LruInv(c), LRU!Keys(c) # {}
  PROVE  LRU!Oldest(c) \in LRU!Keys(c)
<1>1. \E n \in LRU!Keys(c) : LRU!IsOldest(c, n)
  BY DEF LruInv, HasOldest, LRU!IsOldest
<1> QED
  BY <1>1 DEF LRU!Oldest

(* A put evicts one key when it needs the room and no other ever: the map  *)
(* is never over its capacity, and is as full as it was if it was full.    *)
LEMMA LruKept ==
  ASSUME NEW c \in LRU!Caches, LruInv(c), NEW n \in Names
  PROVE  /\ n \in LRU!Kept(c, n)
         /\ LRU!Kept(c, n) \ {n} \subseteq LRU!Keys(c)
         /\ Cardinality(LRU!Kept(c, n)) <= Capacity
<1> DEFINE keys == LRU!Keys(c)
<1>1. keys \subseteq Names /\ IsFiniteSet(keys)
  BY CacheAssumption, FS_Subset DEF LRU!Keys
<1>2. Cardinality(keys) \in Nat /\ Cardinality(keys) <= Capacity /\ Capacity \in Nat \ {0}
  BY <1>1, FS_CardinalityType, LruCardinality, CacheAssumption DEF LruInv, LRU!LruOK
<1>3. CASE n \in keys
  <2>1. LRU!Kept(c, n) = keys
    BY <1>3 DEF LRU!Kept
  <2> QED
    BY <1>2, <1>3, <2>1
<1>4. CASE n \notin keys /\ Cardinality(keys) < Capacity
  <2>1. LRU!Kept(c, n) = keys \cup {n}
    BY <1>4, LruCardinality DEF LRU!Kept
  <2>2. Cardinality(keys \cup {n}) = Cardinality(keys) + 1
    BY <1>1, <1>4, FS_AddElement
  <2> QED
    BY <1>2, <1>4, <2>1, <2>2
<1>5. CASE n \notin keys /\ ~(Cardinality(keys) < Capacity)
  <2>1. keys # {}
    BY <1>2, <1>5, FS_EmptySet
  <2>2. LRU!Oldest(c) \in keys
    BY <2>1, OldestIsKey
  <2> DEFINE rest == keys \ {LRU!Oldest(c)}
  <2>3. LRU!Kept(c, n) = rest \cup {n}
    BY <1>5, LruCardinality DEF LRU!Kept
  <2>4. IsFiniteSet(rest) /\ Cardinality(rest) = Cardinality(keys) - 1
    BY <1>1, <2>2, FS_RemoveElement
  <2>5. n \notin rest
    BY <1>5
  <2>6. Cardinality(rest \cup {n}) = Cardinality(rest) + 1
    BY <2>4, <2>5, FS_AddElement
  <2> QED
    BY <1>2, <2>3, <2>4, <2>6
<1> QED
  BY <1>3, <1>4, <1>5

(* A put keeps the list well formed. *)
LEMMA LruPut ==
  ASSUME NEW c \in LRU!Caches, LruInv(c), NEW n \in Names, NEW v \in Version
  PROVE  LruInv(LRU!Put(c, n, v))
<1> DEFINE kept == LRU!Kept(c, n)
<1>1. n \in kept /\ kept \ {n} \subseteq LRU!Keys(c) /\ Cardinality(kept) <= Capacity
  BY LruKept
<1>2. LRU!Put(c, n, v) \in LRU!Caches
  BY LruPutType
<1>3. kept \in SUBSET Names
  BY <1>1 DEF LRU!Keys
<1>4. LRU!Keys(LRU!Put(c, n, v)) = kept
  BY <1>1, <1>3, NoneIsNoRow DEF LRU!Keys, LRU!Put
<1>5. LRU!Put(c, n, v).older = LRU!Promoted(c.older, kept, n)
  BY DEF LRU!Put
<1> QED
  BY <1>1, <1>2, <1>3, <1>4, <1>5, PromotedOrder

(* All a step can do to a cache: leave it, flush it, get from it or put.   *)
LEMMA CacheSteps ==
  ASSUME TypeOK, [Next]_vars, NEW c \in Backends
  PROVE  \/ cache'[c] = cache[c]
         \/ cache'[c] = LRU!EmptyCache
         \/ \E n \in Names : cache[c].entry[n] # None /\ cache'[c] = LRU!Get(cache[c], n)
         \/ \E n \in Names, v \in Version : cache'[c] = LRU!Put(cache[c], n, v)
<1> DEFINE Goal == \/ cache'[c] = cache[c]
                   \/ cache'[c] = LRU!EmptyCache
                   \/ \E n \in Names : cache[c].entry[n] # None
                                       /\ cache'[c] = LRU!Get(cache[c], n)
                   \/ \E n \in Names, v \in Version : cache'[c] = LRU!Put(cache[c], n, v)
<1>1. ASSUME NEW b \in Backends, NEW level \in Levels, NEW kind \in {"query", "dml"},
             Begin(b, level, kind)
      PROVE  Goal
  BY <1>1 DEF Begin, TypeOK, relcache_callback
<1>2. ASSUME NEW b \in Backends, NEW kind \in {"query", "dml"}, NextStatement(b, kind)
      PROVE  Goal
  BY <1>2 DEF NextStatement, TypeOK, backend
<1>3. ASSUME NEW b \in Backends, AcceptInvalidations(b)
      PROVE  Goal
  BY <1>3 DEF AcceptInvalidations, TypeOK, relcache_callback
<1>4. ASSUME NEW b \in Backends, SinvalReset(b)
      PROVE  Goal
  BY <1>4 DEF SinvalReset, TypeOK, backend
<1>5. ASSUME NEW b \in Backends, NEW n \in Names, NEW row \in Row, WriteRow(b, n, row)
      PROVE  Goal
  BY <1>5 DEF WriteRow, TypeOK, backend
<1>6. ASSUME NEW b \in Backends, FireTrigger(b)
      PROVE  Goal
  BY <1>6 DEF FireTrigger, TypeOK, backend
<1>7. ASSUME NEW b \in Backends, SkipTrigger(b)
      PROVE  Goal
  BY <1>7 DEF SkipTrigger, TypeOK, backend
<1>8. ASSUME NEW b \in Backends, EndStatement(b)
      PROVE  Goal
  BY <1>8 DEF EndStatement, CommandEnd, TypeOK, relcache_callback
<1>9. ASSUME NEW b \in Backends, Commit(b)
      PROVE  Goal
  BY <1>9 DEF Commit, TypeOK, backend
<1>10. ASSUME NEW b \in Backends, SendInvalidations(b)
       PROVE  Goal
  BY <1>10 DEF SendInvalidations, TypeOK, backend
<1>11. ASSUME NEW b \in Backends, Abort(b)
       PROVE  Goal
  BY <1>11 DEF Abort, Discard, TypeOK, relcache_callback
<1>12. ASSUME NEW b \in Backends, Reconnect(b)
       PROVE  Goal
  BY <1>12 DEF Reconnect, Discard, TypeOK
<1>13. ASSUME NEW b \in Backends, Recreate(b)
       PROVE  Goal
  BY <1>13 DEF Recreate, TypeOK, relcache_callback
<1>14. ASSUME NEW b \in Backends, NEW n \in Names, LookupHit(b, n)
       PROVE  Goal
  BY <1>14 DEF LookupHit, TypeOK
<1>15. ASSUME NEW b \in Backends, NEW n \in Names, LookupMiss(b, n)
       PROVE  Goal
  BY <1>15 DEF LookupMiss, TypeOK, backend
<1>16. ASSUME NEW b \in Backends, ResolveOid(b)
       PROVE  Goal
  BY <1>16 DEF ResolveOid, TypeOK
<1>17. ASSUME NEW b \in Backends, OpenCatalog(b)
       PROVE  Goal
  BY <1>17 DEF OpenCatalog, TypeOK, relcache_callback
<1>18. ASSUME NEW b \in Backends, ScanCatalog(b)
       PROVE  Goal
  BY <1>18 DEF ScanCatalog, CommandEnd, TypeOK, relcache_callback
<1>19. ASSUME NEW b \in Backends, FinishLoad(b)
       PROVE  Goal
  <2>1. load[b].name \in Names /\ load[b].row \in Version
    BY <1>19 DEF FinishLoad, TypeOK, Loads, NoLoad, Loading
  <2> QED
    BY <1>19, <2>1 DEF FinishLoad, TypeOK
<1>20. ASSUME NEW b \in Backends, FailLoad(b)
       PROVE  Goal
  BY <1>20 DEF FailLoad, Abort, Discard, TypeOK, relcache_callback
<1>21. CASE UNCHANGED vars
  BY <1>21 DEF vars
<1> QED
  BY <1>1, <1>2, <1>3, <1>4, <1>5, <1>6, <1>7, <1>8, <1>9, <1>10, <1>11, <1>12, <1>13,
     <1>14, <1>15, <1>16, <1>17, <1>18, <1>19, <1>20, <1>21
     DEF Next

(* The map never outgrows DEFAULT_CACHE_CAPACITY and its recency list is   *)
(* an order on exactly the schemas held, through every get, put, eviction  *)
(* and flush, in every environment and for every capacity.                 *)
THEOREM LruAlwaysWellFormed == Spec => []LruWellFormed
<1> DEFINE AllLruInv == \A b \in Backends : LruInv(cache[b])
<1>1. Init => AllLruInv
  BY LruEmpty DEF Init
<1>2. TypeOK /\ AllLruInv /\ [Next]_vars => AllLruInv'
  <2> SUFFICES ASSUME TypeOK, AllLruInv, [Next]_vars, NEW c \in Backends
               PROVE  LruInv(cache'[c])
    OBVIOUS
  <2>1. cache[c] \in LRU!Caches /\ LruInv(cache[c])
    BY DEF TypeOK
  <2> QED
    BY <2>1, CacheSteps, LruEmpty, LruGet, LruPut
<1>3. AllLruInv => LruWellFormed
  BY DEF LruInv, LruWellFormed
<1> QED
  BY <1>1, <1>2, <1>3, TypeCorrect, PTL DEF Spec

-----------------------------------------------------------------------------
(* SchemaCache implements SchemaRegistry, for every value of its constants. *)
(* What the registry promises of an answer is AnswersFresh: why every       *)
(* answer keeps it is proved first, and the steps are mapped with what that *)
(* proof found.                                                             *)

(* The environment in which the promise holds: writers fire the trigger,   *)
(* READ COMMITTED, and freshness counted from the start of a transaction.  *)
PromisedFor == OrdinaryWriters /\ ReadCommitted /\ Window = "transaction"

(* An open transaction may be answered with whatever is committed, and     *)
(* what it may be answered with is forgotten when it ends.                 *)
RowsAllowed ==
  \A b \in Backends, n \in Names :
    IF InTransaction(b) THEN rows[n] \in allowed[b][n] ELSE allowed[b][n] = {}

(* v is the committed row of n, or was until a commit yet to be announced. *)
IsCurrent(n, v) == v = rows[n] \/ \E c \in Backends : replaced[c][n] = v

(* What is held is current or about to be flushed: by a message that       *)
(* waits, or, when the transaction has written, by the one it will send.   *)
Dated(b, n, v) == IsCurrent(n, v) \/ FlushPending(b) \/ relOid \in prior[b]

(* What an open transaction holds is what it may be answered with, but for *)
(* the name it is writing, which no query can ask for before the flush.    *)
Usable(b, n, v) ==
  InTransaction(b) =>
    IF own[b][n] # None THEN v = own[b][n] \/ WrittenByStatement(b, n)
                        ELSE v \in allowed[b][n]

HeldDated == \A b \in Backends, n \in Names, v \in Row : Held(b, n, v) => Dated(b, n, v)
HeldUsable == \A b \in Backends, n \in Names, v \in Row : Held(b, n, v) => Usable(b, n, v)

(* Answers are kept no longer than the query they were given to. *)
ServedToQuery ==
  \A b \in Backends, n \in Names : served[b][n] # None => stmt[b] = "query"

(* What CurrentRows collects. *)
LEMMA CurrentRowsAre ==
  ASSUME NEW n \in Names, NEW v \in Row
  PROVE  IsCurrent(n, v) <=> v \in CurrentRows[n]
BY NoneIsNoRow DEF IsCurrent, CurrentRows

(* No step opens a transaction that may not be answered with a committed   *)
(* row, or commits a row that an open one may not be answered with.        *)
LEMMA RowsAllowedNext ==
  ASSUME PromisedFor
  PROVE  TypeOK /\ RowsAllowed /\ [Next]_vars => RowsAllowed'
<1> SUFFICES ASSUME TypeOK, RowsAllowed, [Next]_vars PROVE RowsAllowed'
  OBVIOUS
<1>1. ASSUME NEW b \in Backends, NEW level \in Levels, NEW kind \in {"query", "dml"},
             Begin(b, level, kind)
      PROVE  RowsAllowed'
  <2>1. \A n \in Names : rows[n] \in CurrentRows[n]
    BY DEF CurrentRows
  <2> QED
    BY <1>1, <2>1, CacheAssumption
       DEF Begin, TypeOK, RowsAllowed, InTransaction, PromisedFor, ReadCommitted, database
<1>2. ASSUME NEW b \in Backends, NEW kind \in {"query", "dml"}, NextStatement(b, kind)
      PROVE  RowsAllowed'
  BY <1>2 DEF NextStatement, TypeOK, RowsAllowed, InTransaction, PromisedFor, database
<1>3. ASSUME NEW b \in Backends, AcceptInvalidations(b)
      PROVE  RowsAllowed'
  BY <1>3 DEF AcceptInvalidations, TypeOK, RowsAllowed, InTransaction, database, session
<1>4. ASSUME NEW b \in Backends, SinvalReset(b)
      PROVE  RowsAllowed'
  BY <1>4 DEF SinvalReset, TypeOK, RowsAllowed, InTransaction, database, session
<1>5. ASSUME NEW b \in Backends, NEW n \in Names, NEW row \in Row, WriteRow(b, n, row)
      PROVE  RowsAllowed'
  BY <1>5 DEF WriteRow, TypeOK, RowsAllowed, InTransaction
<1>6. ASSUME NEW b \in Backends, FireTrigger(b)
      PROVE  RowsAllowed'
  BY <1>6 DEF FireTrigger, TypeOK, RowsAllowed, InTransaction, database
<1>7. ASSUME NEW b \in Backends, SkipTrigger(b)
      PROVE  RowsAllowed'
  BY <1>7 DEF SkipTrigger, TypeOK, RowsAllowed, InTransaction, database
<1>8. ASSUME NEW b \in Backends, EndStatement(b)
      PROVE  RowsAllowed'
  BY <1>8 DEF EndStatement, CommandEnd, TypeOK, RowsAllowed, InTransaction, database
<1>9. ASSUME NEW b \in Backends, Commit(b)
      PROVE  RowsAllowed'
  <2> SUFFICES ASSUME NEW c \in Backends, NEW m \in Names
               PROVE  IF InTransaction(c)' THEN rows'[m] \in allowed'[c][m]
                                           ELSE allowed'[c][m] = {}
    BY DEF RowsAllowed
  <2>1. IF InTransaction(c) THEN rows[m] \in allowed[c][m] ELSE allowed[c][m] = {}
    BY DEF RowsAllowed
  <2>2. rows'[m] = IF own[b][m] # None THEN own[b][m] ELSE rows[m]
    BY <1>9 DEF Commit
  <2>3. CASE c = b
    BY <1>9, <2>3 DEF Commit, AllowNew, InTransaction, TypeOK, PerName
  <2>4. CASE c # b
    <3>1. txn'[c] = txn[c]
      BY <1>9, <2>4 DEF Commit, TypeOK
    <3>2. allowed'[c][m] = IF InTransaction(c) /\ own[b][m] # None
                             THEN allowed[c][m] \cup {own[b][m]} ELSE allowed[c][m]
      BY <1>9, <2>4 DEF Commit, AllowNew
    <3> QED
      BY <2>1, <2>2, <3>1, <3>2 DEF InTransaction
  <2> QED
    BY <2>3, <2>4
<1>10. ASSUME NEW b \in Backends, SendInvalidations(b)
       PROVE  RowsAllowed'
  BY <1>10 DEF SendInvalidations, TypeOK, RowsAllowed, InTransaction
<1>11. ASSUME NEW b \in Backends, Abort(b)
       PROVE  RowsAllowed'
  BY <1>11 DEF Abort, Discard, TypeOK, RowsAllowed, InTransaction, PerName, database
<1>12. ASSUME NEW b \in Backends, Reconnect(b)
       PROVE  RowsAllowed'
  BY <1>12 DEF Reconnect, Discard, TypeOK, RowsAllowed, InTransaction, PerName, database
<1>13. ASSUME NEW b \in Backends, Recreate(b)
       PROVE  RowsAllowed'
  BY <1>13 DEF Recreate, PromisedFor, OrdinaryWriters, TypeOK, Oid
<1>14. ASSUME NEW b \in Backends, NEW n \in Names, LookupHit(b, n)
       PROVE  RowsAllowed'
  BY <1>14 DEF LookupHit, TypeOK, RowsAllowed, InTransaction, database, session
<1>15. ASSUME NEW b \in Backends, NEW n \in Names, LookupMiss(b, n)
       PROVE  RowsAllowed'
  BY <1>15 DEF LookupMiss, TypeOK, RowsAllowed, InTransaction, database, session
<1>16. ASSUME NEW b \in Backends, ResolveOid(b)
       PROVE  RowsAllowed'
  BY <1>16 DEF ResolveOid, TypeOK, RowsAllowed, InTransaction, database, session
<1>17. ASSUME NEW b \in Backends, OpenCatalog(b)
       PROVE  RowsAllowed'
  BY <1>17 DEF OpenCatalog, TypeOK, RowsAllowed, InTransaction, database
<1>18. ASSUME NEW b \in Backends, ScanCatalog(b)
       PROVE  RowsAllowed'
  BY <1>18
     DEF ScanCatalog, CommandEnd, TypeOK, RowsAllowed, InTransaction, database, session
<1>19. ASSUME NEW b \in Backends, FinishLoad(b)
       PROVE  RowsAllowed'
  BY <1>19 DEF FinishLoad, TypeOK, RowsAllowed, InTransaction, database, session
<1>20. ASSUME NEW b \in Backends, FailLoad(b)
       PROVE  RowsAllowed'
  BY <1>20
     DEF FailLoad, Abort, Discard, TypeOK, RowsAllowed, InTransaction, PerName, database
<1>21. CASE UNCHANGED vars
  BY <1>21 DEF RowsAllowed, InTransaction, vars
<1> QED
  BY <1>1, <1>2, <1>3, <1>4, <1>5, <1>6, <1>7, <1>8, <1>9, <1>10, <1>11, <1>12, <1>13,
     <1>14, <1>15, <1>16, <1>17, <1>18, <1>19, <1>20, <1>21
     DEF Next

(* What is held stays dated: a commit that replaces a row announces it,    *)
(* and an announcement reaches every backend that holds anything.          *)
LEMMA HeldDatedNext ==
  ASSUME PromisedFor
  PROVE  TypeOK /\ Resolved /\ Discipline /\ OnlyReadCommitted /\ HeldDated /\ [Next]_vars
           => HeldDated'
<1> SUFFICES ASSUME TypeOK, Resolved, Discipline, OnlyReadCommitted, HeldDated, [Next]_vars,
                    NEW c \in Backends, NEW m \in Names, NEW v \in Row, Held(c, m, v)'
             PROVE  Dated(c, m, v)'
  BY DEF HeldDated
<1>a. v # None /\ relOid = 1
  BY CacheAssumption DEF Row, PromisedFor, OrdinaryWriters, TypeOK, Oid
<1>b. Held(c, m, v) \/ (ScanCatalog(c) /\ m = load[c].name /\ v = Visible(c, m))
  BY HeldOrigin
(* A query finds the committed row, or one its transaction wrote.          *)
<1>c. CASE ScanCatalog(c) /\ v = Visible(c, m)
  <2>1. stmt[c] = "query"
    BY <1>c DEF ScanCatalog, Discipline
  <2>2. v = rows[m] \/ relOid \in prior[c]
    BY <1>c, <2>1 DEF Visible, OnlyReadCommitted, Discipline
  <2> QED
    BY <1>c, <2>2 DEF ScanCatalog, CommandEnd, Dated, IsCurrent, TypeOK, database
<1>d. CASE Held(c, m, v)
  <2>0. Dated(c, m, v)
    BY <1>d DEF HeldDated
  <2>a. catalogOid[c] = relOid
    BY <1>a, <1>d DEF Resolved, Held, TypeOK, Oid, PromisedFor, OrdinaryWriters
  <2>1. ASSUME NEW b \in Backends, NEW level \in Levels, NEW kind \in {"query", "dml"},
               Begin(b, level, kind)
        PROVE  Dated(c, m, v)'
    <3>1. CASE c # b
      BY <2>0, <2>1, <3>1
         DEF Begin, Dated, IsCurrent, FlushPending, Matches, TypeOK, database
    <3>2. CASE c = b
      <4>1. cache'[b].entry[m] = v
        BY <2>1, <3>2 DEF Begin, Held, TypeOK, Discipline, InTransaction
      <4>2. ~Matches(b, queue[b])
        BY <1>a, <2>1, <4>1, CallbackEntries DEF Begin
      <4> QED
        BY <2>0, <2>1, <3>2, <4>2
           DEF Begin, Dated, IsCurrent, FlushPending, TypeOK, database
    <3> QED
      BY <3>1, <3>2
  <2>2. ASSUME NEW b \in Backends, NEW kind \in {"query", "dml"}, NextStatement(b, kind)
        PROVE  Dated(c, m, v)'
    BY <2>2, <2>0
       DEF NextStatement, Dated, IsCurrent, FlushPending, Matches, TypeOK, database,
           messages, backend
  <2>3. ASSUME NEW b \in Backends, AcceptInvalidations(b)
        PROVE  Dated(c, m, v)'
    <3>1. CASE c # b
      BY <2>0, <2>3, <3>1
         DEF AcceptInvalidations, Dated, IsCurrent, FlushPending, Matches, TypeOK, database
    <3>2. CASE c = b
      <4>1. cache'[b].entry[m] = v
        BY <2>3, <3>2
           DEF AcceptInvalidations, Held, TypeOK, PromisedFor, ReadCommitted
      <4>2. ~Matches(b, queue[b])
        BY <1>a, <2>3, <4>1, CallbackEntries DEF AcceptInvalidations
      <4> QED
        BY <2>0, <2>3, <3>2, <4>2
           DEF AcceptInvalidations, Dated, IsCurrent, FlushPending, TypeOK, database
    <3> QED
      BY <3>1, <3>2
  <2>4. ASSUME NEW b \in Backends, SinvalReset(b)
        PROVE  Dated(c, m, v)'
    BY <2>0, <2>4
       DEF SinvalReset, Dated, IsCurrent, FlushPending, Matches, TypeOK, database, backend,
           InvalidOid
  <2>5. ASSUME NEW b \in Backends, NEW n \in Names, NEW row \in Row, WriteRow(b, n, row)
        PROVE  Dated(c, m, v)'
    BY <2>5, <2>0
       DEF WriteRow, Dated, IsCurrent, FlushPending, Matches, TypeOK, database,
           messages, backend
  <2>6. ASSUME NEW b \in Backends, FireTrigger(b)
        PROVE  Dated(c, m, v)'
    BY <2>6, <2>0
       DEF FireTrigger, Dated, IsCurrent, FlushPending, Matches, TypeOK, database,
           messages, backend
  <2>7. ASSUME NEW b \in Backends, SkipTrigger(b)
        PROVE  Dated(c, m, v)'
    BY <2>7, <2>0
       DEF SkipTrigger, Dated, IsCurrent, FlushPending, Matches, TypeOK, database,
           messages, backend
  <2>8. ASSUME NEW b \in Backends, EndStatement(b)
        PROVE  Dated(c, m, v)'
    BY <2>8, <2>0
       DEF EndStatement, CommandEnd, Dated, IsCurrent, FlushPending, Matches, TypeOK,
           database, messages, backend
  <2>9. ASSUME NEW b \in Backends, Commit(b)
        PROVE  Dated(c, m, v)'
    <3>1. own[b][m] # None => relOid \in prior[b] /\ replaced'[b][m] = rows[m]
      <4>1. own[b][m] # None => relOid \in prior[b]
        BY <2>9 DEF Commit, Discipline
      <4> QED
        BY <4>1, <2>9 DEF Commit, TypeOK
    <3>2. replaced[b][m] = None
      BY <2>9 DEF Commit, Discipline, InTransaction
    <3>3. \A d \in Backends \ {b} : replaced'[d] = replaced[d]
      BY <2>9 DEF Commit, TypeOK
    <3>4. rows'[m] = IF own[b][m] # None THEN own[b][m] ELSE rows[m]
      BY <2>9 DEF Commit
    <3>5. IsCurrent(m, v) => IsCurrent(m, v)'
      BY <1>a, <3>1, <3>2, <3>3, <3>4 DEF IsCurrent
    <3> QED
      BY <2>0, <3>5, <2>9 DEF Commit, Dated, FlushPending, Matches, messages, backend
  <2>10. ASSUME NEW b \in Backends, SendInvalidations(b)
         PROVE  Dated(c, m, v)'
    <3>1. IsCurrent(m, v) => IsCurrent(m, v)' \/ relOid \in prior[b]
      <4>1. CASE v = rows[m]
        BY <2>10, <4>1 DEF SendInvalidations, IsCurrent
      <4>2. ASSUME NEW d \in Backends, replaced[d][m] = v
            PROVE  IsCurrent(m, v)' \/ relOid \in prior[b]
        BY <1>a, <2>10, <4>2 DEF SendInvalidations, IsCurrent, Discipline, TypeOK
      <4> QED
        BY <4>1, <4>2 DEF IsCurrent
    <3>2. relOid \in prior[b] => FlushPending(c)'
      BY <2>a, <2>10 DEF SendInvalidations, FlushPending, Matches, backend
    <3>3. FlushPending(c) => FlushPending(c)'
      BY <2>10 DEF SendInvalidations, FlushPending, Matches, backend
    <3>4. relOid \in prior[c] => relOid \in prior'[c] \/ relOid \in prior[b]
      BY <2>10 DEF SendInvalidations, TypeOK
    <3>5. relOid' = relOid
      BY <2>10 DEF SendInvalidations
    <3> QED
      BY <2>0, <3>1, <3>2, <3>3, <3>4, <3>5 DEF Dated
  <2>11. ASSUME NEW b \in Backends, Abort(b)
         PROVE  Dated(c, m, v)'
    <3>1. CASE c # b
      BY <2>0, <2>11, <3>1
         DEF Abort, Discard, Dated, IsCurrent, FlushPending, Matches, TypeOK, database
    <3>2. CASE c = b
      <4>1. cache'[b].entry[m] = v
        BY <2>11, <3>2 DEF Abort, Discard, Held, TypeOK, NoLoad, Loading
      <4>2. relOid \notin prior[b]
        BY <1>a, <2>a, <2>11, <3>2, <4>1, CallbackEntries DEF Abort, Matches
      <4>3. cache'[b] = cache[b]
        BY <1>a, <2>11, <4>1, CallbackEntries DEF Abort
      <4> QED
        BY <2>0, <2>11, <3>2, <4>2
           DEF Abort, Dated, IsCurrent, FlushPending, Matches, database
    <3> QED
      BY <3>1, <3>2
  <2>12. ASSUME NEW b \in Backends, Reconnect(b)
         PROVE  Dated(c, m, v)'
    <3>1. c # b
      BY <1>a, <2>12 DEF Reconnect, Discard, Held, TypeOK, LRU!EmptyCache, NoLoad, Loading
    <3> QED
      BY <2>0, <2>12, <3>1
         DEF Reconnect, Discard, Dated, IsCurrent, FlushPending, Matches, TypeOK, database
  <2>13. ASSUME NEW b \in Backends, Recreate(b)
         PROVE  Dated(c, m, v)'
    BY <2>13 DEF Recreate, PromisedFor, OrdinaryWriters, TypeOK, Oid
  <2>14. ASSUME NEW b \in Backends, NEW n \in Names, LookupHit(b, n)
         PROVE  Dated(c, m, v)'
    BY <2>14, <2>0
       DEF LookupHit, Dated, IsCurrent, FlushPending, Matches, TypeOK, database,
           messages, backend
  <2>15. ASSUME NEW b \in Backends, NEW n \in Names, LookupMiss(b, n)
         PROVE  Dated(c, m, v)'
    BY <2>15, <2>0
       DEF LookupMiss, Dated, IsCurrent, FlushPending, Matches, TypeOK, database,
           messages, backend
  <2>16. ASSUME NEW b \in Backends, ResolveOid(b)
         PROVE  Dated(c, m, v)'
    <3>1. catalogOid'[c] = catalogOid[c]
      BY <1>a, <2>a, <2>16, CacheAssumption DEF ResolveOid, TypeOK
    <3> QED
      BY <2>0, <2>16, <3>1
         DEF ResolveOid, Dated, IsCurrent, FlushPending, Matches, database, messages
  <2>17. ASSUME NEW b \in Backends, OpenCatalog(b)
         PROVE  Dated(c, m, v)'
    <3>1. CASE holds[b] \/ c # b
      BY <2>0, <2>17, <3>1
         DEF OpenCatalog, Dated, IsCurrent, FlushPending, Matches, TypeOK, database
    <3>2. CASE ~holds[b] /\ c = b
      <4>1. cache'[b].entry[m] = v
        BY <2>17, <3>2 DEF OpenCatalog, Held, TypeOK, Loading
      <4>2. ~Matches(b, queue[b])
        BY <1>a, <2>17, <3>2, <4>1, CallbackEntries DEF OpenCatalog
      <4> QED
        BY <2>0, <2>17, <3>2, <4>2
           DEF OpenCatalog, Dated, IsCurrent, FlushPending, database
    <3> QED
      BY <3>1, <3>2
  <2>18. ASSUME NEW b \in Backends, ScanCatalog(b)
         PROVE  Dated(c, m, v)'
    BY <2>18, <2>0
       DEF ScanCatalog, CommandEnd, Dated, IsCurrent, FlushPending, Matches, TypeOK,
           database, messages, backend
  <2>19. ASSUME NEW b \in Backends, FinishLoad(b)
         PROVE  Dated(c, m, v)'
    BY <2>19, <2>0
       DEF FinishLoad, Dated, IsCurrent, FlushPending, Matches, TypeOK, database,
           messages, backend
  <2>20. ASSUME NEW b \in Backends, FailLoad(b)
         PROVE  Dated(c, m, v)'
    BY <2>11, <2>20 DEF FailLoad
  <2>21. CASE UNCHANGED vars
    BY <2>21, <2>0 DEF Dated, IsCurrent, FlushPending, Matches, vars
  <2> QED
    BY <2>1, <2>2, <2>3, <2>4, <2>5, <2>6, <2>7, <2>8, <2>9, <2>10, <2>11, <2>12, <2>13,
       <2>14, <2>15, <2>16, <2>17, <2>18, <2>19, <2>20, <2>21
       DEF Next
<1> QED
  BY <1>b, <1>c, <1>d

(* What is held stays usable: a transaction begins with what is dated and  *)
(* has not been flushed, and drops what it held of a name it has written.  *)
LEMMA HeldUsableNext ==
  ASSUME PromisedFor
  PROVE  /\ TypeOK /\ Resolved /\ Discipline /\ OnlyReadCommitted /\ RowsAllowed
         /\ HeldDated /\ HeldUsable /\ [Next]_vars
         => HeldUsable'
<1> SUFFICES ASSUME TypeOK, Resolved, Discipline, OnlyReadCommitted, RowsAllowed,
                    HeldDated, HeldUsable, [Next]_vars,
                    NEW c \in Backends, NEW m \in Names, NEW v \in Row, Held(c, m, v)'
             PROVE  Usable(c, m, v)'
  BY DEF HeldUsable
<1>a. v # None /\ relOid = 1
  BY CacheAssumption DEF Row, PromisedFor, OrdinaryWriters, TypeOK, Oid
<1>b. Held(c, m, v) \/ (ScanCatalog(c) /\ m = load[c].name /\ v = Visible(c, m))
  BY HeldOrigin
<1>c. CASE ScanCatalog(c) /\ v = Visible(c, m)
  BY <1>c DEF ScanCatalog, Visible, Usable, OnlyReadCommitted, RowsAllowed,
              InTransaction, WrittenByStatement, database, session
<1>d. CASE Held(c, m, v)
  <2>0. Usable(c, m, v)
    BY <1>d DEF HeldUsable
  <2>1. ASSUME NEW b \in Backends, NEW level \in Levels, NEW kind \in {"query", "dml"},
               Begin(b, level, kind)
        PROVE  Usable(c, m, v)'
    <3>1. CASE c # b
      BY <2>0, <2>1, <3>1
         DEF Begin, Usable, InTransaction, WrittenByStatement, TypeOK
    <3>2. CASE c = b
      <4>1. cache'[b].entry[m] = v
        BY <2>1, <3>2 DEF Begin, Held, TypeOK, Discipline, InTransaction
      <4>2. ~Matches(b, queue[b])
        BY <1>a, <2>1, <4>1, CallbackEntries DEF Begin
      <4>3. own[b][m] = None /\ prior[b] = {}
        BY <2>1 DEF Begin, Discipline, InTransaction
      <4>4. v \in CurrentRows[m]
        BY <1>d, <3>2, <4>2, <4>3, CurrentRowsAre DEF HeldDated, Dated, FlushPending
      <4> QED
        BY <2>1, <3>2, <4>3, <4>4 DEF Begin, Usable, TypeOK
    <3> QED
      BY <3>1, <3>2
  <2>2. ASSUME NEW b \in Backends, NEW kind \in {"query", "dml"}, NextStatement(b, kind)
        PROVE  Usable(c, m, v)'
    BY <2>2, <2>0
       DEF NextStatement, Usable, InTransaction, WrittenByStatement, TypeOK, PromisedFor
  <2>3. ASSUME NEW b \in Backends, AcceptInvalidations(b)
        PROVE  Usable(c, m, v)'
    BY <2>3, <2>0
       DEF AcceptInvalidations, Usable, InTransaction, WrittenByStatement, TypeOK,
           session
  <2>4. ASSUME NEW b \in Backends, SinvalReset(b)
        PROVE  Usable(c, m, v)'
    BY <2>4, <2>0
       DEF SinvalReset, Usable, InTransaction, WrittenByStatement, TypeOK, session
  <2>5. ASSUME NEW b \in Backends, NEW n \in Names, NEW row \in Row, WriteRow(b, n, row)
        PROVE  Usable(c, m, v)'
    <3>1. CASE c = b /\ m = n
      BY <2>5, <3>1, NoneIsNoRow DEF WriteRow, Usable, WrittenByStatement, TypeOK
    <3>2. CASE ~(c = b /\ m = n)
      BY <2>0, <2>5, <3>2 DEF WriteRow, Usable, InTransaction, WrittenByStatement, TypeOK
    <3> QED
      BY <3>1, <3>2
  <2>6. ASSUME NEW b \in Backends, FireTrigger(b)
        PROVE  Usable(c, m, v)'
    BY <2>6, <2>0 DEF FireTrigger, Usable, InTransaction, WrittenByStatement, TypeOK
  <2>7. ASSUME NEW b \in Backends, SkipTrigger(b)
        PROVE  Usable(c, m, v)'
    BY <2>7, <2>0 DEF SkipTrigger, Usable, InTransaction, WrittenByStatement, TypeOK
  <2>8. ASSUME NEW b \in Backends, EndStatement(b)
        PROVE  Usable(c, m, v)'
    <3>1. CASE c # b
      BY <2>0, <2>8, <3>1
         DEF EndStatement, Usable, InTransaction, WrittenByStatement, TypeOK
    <3>2. CASE c = b
      <4>1. cache'[b].entry[m] = v
        BY <2>8, <3>2 DEF EndStatement, Held, TypeOK
      <4>2. cache[b].entry[m] # None /\ ~Matches(b, current[b])
        BY <1>a, <2>8, <4>1, CallbackEntries DEF EndStatement, CommandEnd
      <4>3. catalogOid[b] = relOid
        BY <1>a, <4>2 DEF Resolved, TypeOK, Oid, PromisedFor, OrdinaryWriters
      <4>4. stmt[b] = "query"
        BY <2>8, <4>2, <4>3 DEF EndStatement, Discipline, Matches
      <4> QED
        BY <2>0, <2>8, <3>2, <4>4
           DEF EndStatement, Usable, InTransaction, WrittenByStatement, TypeOK
    <3> QED
      BY <3>1, <3>2
  <2>9. ASSUME NEW b \in Backends, Commit(b)
        PROVE  Usable(c, m, v)'
    <3>1. CASE c = b
      BY <2>9, <3>1 DEF Commit, Usable, InTransaction, TypeOK
    <3>2. CASE c # b
      <4>1. allowed[c][m] \subseteq allowed'[c][m]
        BY <2>9, <3>2 DEF Commit, AllowNew
      <4>2. txn'[c] = txn[c] /\ own'[c] = own[c] /\ stmt'[c] = stmt[c]
        BY <2>9, <3>2 DEF Commit, TypeOK
      <4> QED
        BY <2>0, <4>1, <4>2 DEF Usable, InTransaction, WrittenByStatement
    <3> QED
      BY <3>1, <3>2
  <2>10. ASSUME NEW b \in Backends, SendInvalidations(b)
         PROVE  Usable(c, m, v)'
    BY <2>10, <2>0
       DEF SendInvalidations, Usable, InTransaction, WrittenByStatement, TypeOK
  <2>11. ASSUME NEW b \in Backends, Abort(b)
         PROVE  Usable(c, m, v)'
    BY <2>11, <2>0
       DEF Abort, Discard, Usable, InTransaction, WrittenByStatement, TypeOK, PerName
  <2>12. ASSUME NEW b \in Backends, Reconnect(b)
         PROVE  Usable(c, m, v)'
    BY <2>12, <2>0
       DEF Reconnect, Discard, Usable, InTransaction, WrittenByStatement, TypeOK,
           PerName
  <2>13. ASSUME NEW b \in Backends, Recreate(b)
         PROVE  Usable(c, m, v)'
    BY <2>13 DEF Recreate, PromisedFor, OrdinaryWriters, TypeOK, Oid
  <2>14. ASSUME NEW b \in Backends, NEW n \in Names, LookupHit(b, n)
         PROVE  Usable(c, m, v)'
    BY <2>14, <2>0
       DEF LookupHit, Usable, InTransaction, WrittenByStatement, TypeOK, session
  <2>15. ASSUME NEW b \in Backends, NEW n \in Names, LookupMiss(b, n)
         PROVE  Usable(c, m, v)'
    BY <2>15, <2>0
       DEF LookupMiss, Usable, InTransaction, WrittenByStatement, TypeOK, session
  <2>16. ASSUME NEW b \in Backends, ResolveOid(b)
         PROVE  Usable(c, m, v)'
    BY <2>16, <2>0
       DEF ResolveOid, Usable, InTransaction, WrittenByStatement, TypeOK, session
  <2>17. ASSUME NEW b \in Backends, OpenCatalog(b)
         PROVE  Usable(c, m, v)'
    BY <2>17, <2>0 DEF OpenCatalog, Usable, InTransaction, WrittenByStatement, TypeOK
  <2>18. ASSUME NEW b \in Backends, ScanCatalog(b)
         PROVE  Usable(c, m, v)'
    BY <2>18, <2>0
       DEF ScanCatalog, CommandEnd, Usable, InTransaction, WrittenByStatement, TypeOK,
           session
  <2>19. ASSUME NEW b \in Backends, FinishLoad(b)
         PROVE  Usable(c, m, v)'
    BY <2>19, <2>0
       DEF FinishLoad, Usable, InTransaction, WrittenByStatement, TypeOK, session
  <2>20. ASSUME NEW b \in Backends, FailLoad(b)
         PROVE  Usable(c, m, v)'
    BY <2>20, <2>0
       DEF FailLoad, Abort, Discard, Usable, InTransaction, WrittenByStatement, TypeOK,
           PerName
  <2>21. CASE UNCHANGED vars
    BY <2>21, <2>0 DEF Usable, InTransaction, WrittenByStatement, vars
  <2> QED
    BY <2>1, <2>2, <2>3, <2>4, <2>5, <2>6, <2>7, <2>8, <2>9, <2>10, <2>11, <2>12, <2>13,
       <2>14, <2>15, <2>16, <2>17, <2>18, <2>19, <2>20, <2>21
       DEF Next
<1> QED
  BY <1>b, <1>c, <1>d

(* An answer ends with the query it was given to.                          *)
LEMMA ServedToQueryNext ==
  ASSUME PromisedFor
  PROVE  TypeOK /\ Discipline /\ ServedToQuery /\ [Next]_vars => ServedToQuery'
<1> SUFFICES ASSUME TypeOK, Discipline, ServedToQuery, [Next]_vars
             PROVE  ServedToQuery'
  OBVIOUS
<1>1. ASSUME NEW b \in Backends, NEW level \in Levels, NEW kind \in {"query", "dml"},
             Begin(b, level, kind)
      PROVE  ServedToQuery'
  BY <1>1 DEF Begin, ServedToQuery, TypeOK, Discipline, InTransaction
<1>2. ASSUME NEW b \in Backends, NEW kind \in {"query", "dml"}, NextStatement(b, kind)
      PROVE  ServedToQuery'
  BY <1>2 DEF NextStatement, ServedToQuery, TypeOK
<1>3. ASSUME NEW b \in Backends, AcceptInvalidations(b)
      PROVE  ServedToQuery'
  BY <1>3 DEF AcceptInvalidations, ServedToQuery, TypeOK, session
<1>4. ASSUME NEW b \in Backends, SinvalReset(b)
      PROVE  ServedToQuery'
  BY <1>4 DEF SinvalReset, ServedToQuery, TypeOK, session
<1>5. ASSUME NEW b \in Backends, NEW n \in Names, NEW row \in Row, WriteRow(b, n, row)
      PROVE  ServedToQuery'
  BY <1>5 DEF WriteRow, ServedToQuery, TypeOK
<1>6. ASSUME NEW b \in Backends, FireTrigger(b)
      PROVE  ServedToQuery'
  BY <1>6 DEF FireTrigger, ServedToQuery, TypeOK
<1>7. ASSUME NEW b \in Backends, SkipTrigger(b)
      PROVE  ServedToQuery'
  BY <1>7 DEF SkipTrigger, ServedToQuery, TypeOK
<1>8. ASSUME NEW b \in Backends, EndStatement(b)
      PROVE  ServedToQuery'
  BY <1>8 DEF EndStatement, CommandEnd, ServedToQuery, TypeOK, PerName
<1>9. ASSUME NEW b \in Backends, Commit(b)
      PROVE  ServedToQuery'
  BY <1>9 DEF Commit, ServedToQuery, TypeOK
<1>10. ASSUME NEW b \in Backends, SendInvalidations(b)
       PROVE  ServedToQuery'
  BY <1>10 DEF SendInvalidations, ServedToQuery, TypeOK
<1>11. ASSUME NEW b \in Backends, Abort(b)
       PROVE  ServedToQuery'
  BY <1>11 DEF Abort, Discard, ServedToQuery, TypeOK, PerName
<1>12. ASSUME NEW b \in Backends, Reconnect(b)
       PROVE  ServedToQuery'
  BY <1>12 DEF Reconnect, Discard, ServedToQuery, TypeOK, PerName
<1>13. ASSUME NEW b \in Backends, Recreate(b)
       PROVE  ServedToQuery'
  BY <1>13 DEF Recreate, PromisedFor, OrdinaryWriters, TypeOK, Oid
<1>14. ASSUME NEW b \in Backends, NEW n \in Names, LookupHit(b, n)
       PROVE  ServedToQuery'
  BY <1>14
     DEF LookupHit, ServedToQuery, TypeOK, Discipline, MayLookup, PromisedFor,
         OrdinaryWriters, session
<1>15. ASSUME NEW b \in Backends, NEW n \in Names, LookupMiss(b, n)
       PROVE  ServedToQuery'
  BY <1>15 DEF LookupMiss, ServedToQuery, TypeOK, session
<1>16. ASSUME NEW b \in Backends, ResolveOid(b)
       PROVE  ServedToQuery'
  BY <1>16 DEF ResolveOid, ServedToQuery, TypeOK, session
<1>17. ASSUME NEW b \in Backends, OpenCatalog(b)
       PROVE  ServedToQuery'
  BY <1>17 DEF OpenCatalog, ServedToQuery, TypeOK
<1>18. ASSUME NEW b \in Backends, ScanCatalog(b)
       PROVE  ServedToQuery'
  BY <1>18 DEF ScanCatalog, CommandEnd, ServedToQuery, TypeOK, session
<1>19. ASSUME NEW b \in Backends, FinishLoad(b)
       PROVE  ServedToQuery'
  BY <1>19
     DEF FinishLoad, ServedToQuery, TypeOK, Discipline, MayLookup, PromisedFor,
         OrdinaryWriters, session
<1>20. ASSUME NEW b \in Backends, FailLoad(b)
       PROVE  ServedToQuery'
  BY <1>20 DEF FailLoad, Abort, Discard, ServedToQuery, TypeOK, PerName
<1>21. CASE UNCHANGED vars
  BY <1>21 DEF ServedToQuery, vars
<1> QED
  BY <1>1, <1>2, <1>3, <1>4, <1>5, <1>6, <1>7, <1>8, <1>9, <1>10, <1>11, <1>12, <1>13,
     <1>14, <1>15, <1>16, <1>17, <1>18, <1>19, <1>20, <1>21
     DEF Next

(* Every answer is given from what is held, and what it rests on does not  *)
(* change while the query runs.                                            *)
LEMMA AnswersFreshNext ==
  ASSUME PromisedFor
  PROVE  /\ TypeOK /\ Discipline /\ HeldUsable /\ ServedToQuery /\ AnswersFresh
         /\ [Next]_vars
         => AnswersFresh'
<1> SUFFICES ASSUME TypeOK, Discipline, HeldUsable, ServedToQuery, AnswersFresh,
                    [Next]_vars,
                    NEW c \in Backends, NEW m \in Names, served'[c][m] # None
             PROVE  IF own'[c][m] # None THEN served'[c][m] = own'[c][m]
                                         ELSE served'[c][m] \in allowed'[c][m]
  BY DEF AnswersFresh
<1>a. served[c][m] # None =>
        /\ stmt[c] = "query" /\ InTransaction(c)
        /\ IF own[c][m] # None THEN served[c][m] = own[c][m]
                               ELSE served[c][m] \in allowed[c][m]
  BY DEF ServedToQuery, AnswersFresh, Discipline
<1>1. ASSUME NEW b \in Backends, NEW level \in Levels, NEW kind \in {"query", "dml"},
             Begin(b, level, kind)
      PROVE  IF own'[c][m] # None THEN served'[c][m] = own'[c][m]
                                ELSE served'[c][m] \in allowed'[c][m]
  BY <1>1, <1>a DEF Begin, TypeOK, InTransaction
<1>2. ASSUME NEW b \in Backends, NEW kind \in {"query", "dml"}, NextStatement(b, kind)
      PROVE  IF own'[c][m] # None THEN served'[c][m] = own'[c][m]
                                ELSE served'[c][m] \in allowed'[c][m]
  BY <1>2, <1>a DEF NextStatement, TypeOK, PromisedFor
<1>3. ASSUME NEW b \in Backends, AcceptInvalidations(b)
      PROVE  IF own'[c][m] # None THEN served'[c][m] = own'[c][m]
                                ELSE served'[c][m] \in allowed'[c][m]
  BY <1>3, <1>a DEF AcceptInvalidations, TypeOK, session
<1>4. ASSUME NEW b \in Backends, SinvalReset(b)
      PROVE  IF own'[c][m] # None THEN served'[c][m] = own'[c][m]
                                ELSE served'[c][m] \in allowed'[c][m]
  BY <1>4, <1>a DEF SinvalReset, TypeOK, session
<1>5. ASSUME NEW b \in Backends, NEW n \in Names, NEW row \in Row, WriteRow(b, n, row)
      PROVE  IF own'[c][m] # None THEN served'[c][m] = own'[c][m]
                                ELSE served'[c][m] \in allowed'[c][m]
  BY <1>5, <1>a DEF WriteRow, TypeOK
<1>6. ASSUME NEW b \in Backends, FireTrigger(b)
      PROVE  IF own'[c][m] # None THEN served'[c][m] = own'[c][m]
                                ELSE served'[c][m] \in allowed'[c][m]
  BY <1>6, <1>a DEF FireTrigger, TypeOK
<1>7. ASSUME NEW b \in Backends, SkipTrigger(b)
      PROVE  IF own'[c][m] # None THEN served'[c][m] = own'[c][m]
                                ELSE served'[c][m] \in allowed'[c][m]
  BY <1>7, <1>a DEF SkipTrigger, TypeOK
<1>8. ASSUME NEW b \in Backends, EndStatement(b)
      PROVE  IF own'[c][m] # None THEN served'[c][m] = own'[c][m]
                                ELSE served'[c][m] \in allowed'[c][m]
  BY <1>8, <1>a DEF EndStatement, CommandEnd, TypeOK, PerName
<1>9. ASSUME NEW b \in Backends, Commit(b)
      PROVE  IF own'[c][m] # None THEN served'[c][m] = own'[c][m]
                                ELSE served'[c][m] \in allowed'[c][m]
  <2>1. c # b /\ served[c][m] # None
    BY <1>a, <1>9 DEF Commit
  <2>2. allowed[c][m] \subseteq allowed'[c][m] /\ own'[c] = own[c]
    BY <1>9, <2>1 DEF Commit, AllowNew, TypeOK
  <2> QED
    BY <1>a, <1>9, <2>1, <2>2 DEF Commit
<1>10. ASSUME NEW b \in Backends, SendInvalidations(b)
       PROVE  IF own'[c][m] # None THEN served'[c][m] = own'[c][m]
                                ELSE served'[c][m] \in allowed'[c][m]
  BY <1>10, <1>a DEF SendInvalidations, TypeOK
<1>11. ASSUME NEW b \in Backends, Abort(b)
       PROVE  IF own'[c][m] # None THEN served'[c][m] = own'[c][m]
                                ELSE served'[c][m] \in allowed'[c][m]
  BY <1>11, <1>a DEF Abort, Discard, TypeOK, PerName
<1>12. ASSUME NEW b \in Backends, Reconnect(b)
       PROVE  IF own'[c][m] # None THEN served'[c][m] = own'[c][m]
                                ELSE served'[c][m] \in allowed'[c][m]
  BY <1>12, <1>a DEF Reconnect, Discard, TypeOK, PerName
<1>13. ASSUME NEW b \in Backends, Recreate(b)
       PROVE  IF own'[c][m] # None THEN served'[c][m] = own'[c][m]
                                ELSE served'[c][m] \in allowed'[c][m]
  BY <1>13 DEF Recreate, PromisedFor, OrdinaryWriters, TypeOK, Oid
<1>14. ASSUME NEW b \in Backends, NEW n \in Names, LookupHit(b, n)
       PROVE  IF own'[c][m] # None THEN served'[c][m] = own'[c][m]
                                ELSE served'[c][m] \in allowed'[c][m]
  <2>1. CASE c = b /\ m = n
    <3>1. Held(c, m, cache[c].entry[m]) /\ cache[c].entry[m] \in Row
      BY <1>14, <2>1 DEF LookupHit, Held, TypeOK, LRU!Caches, Version, Row
    <3>2. stmt[c] = "query" /\ InTransaction(c)
      BY <1>14, <2>1 DEF LookupHit, MayLookup, PromisedFor, OrdinaryWriters, Discipline
    <3>3. Usable(c, m, cache[c].entry[m])
      BY <3>1 DEF HeldUsable
    <3>4. served'[c][m] = cache[c].entry[m]
      BY <1>14, <2>1 DEF LookupHit, TypeOK
    <3> QED
      BY <1>14, <3>2, <3>3, <3>4 DEF LookupHit, Usable, WrittenByStatement, session
  <2>2. CASE ~(c = b /\ m = n)
    BY <1>a, <1>14, <2>2 DEF LookupHit, TypeOK, session
  <2> QED
    BY <2>1, <2>2
<1>15. ASSUME NEW b \in Backends, NEW n \in Names, LookupMiss(b, n)
       PROVE  IF own'[c][m] # None THEN served'[c][m] = own'[c][m]
                                ELSE served'[c][m] \in allowed'[c][m]
  BY <1>15, <1>a DEF LookupMiss, TypeOK, session
<1>16. ASSUME NEW b \in Backends, ResolveOid(b)
       PROVE  IF own'[c][m] # None THEN served'[c][m] = own'[c][m]
                                ELSE served'[c][m] \in allowed'[c][m]
  BY <1>16, <1>a DEF ResolveOid, TypeOK, session
<1>17. ASSUME NEW b \in Backends, OpenCatalog(b)
       PROVE  IF own'[c][m] # None THEN served'[c][m] = own'[c][m]
                                ELSE served'[c][m] \in allowed'[c][m]
  BY <1>17, <1>a DEF OpenCatalog, TypeOK
<1>18. ASSUME NEW b \in Backends, ScanCatalog(b)
       PROVE  IF own'[c][m] # None THEN served'[c][m] = own'[c][m]
                                ELSE served'[c][m] \in allowed'[c][m]
  BY <1>18, <1>a DEF ScanCatalog, CommandEnd, TypeOK, session
<1>19. ASSUME NEW b \in Backends, FinishLoad(b)
       PROVE  IF own'[c][m] # None THEN served'[c][m] = own'[c][m]
                                ELSE served'[c][m] \in allowed'[c][m]
  <2>1. CASE c = b /\ m = load[b].name
    <3>1. Held(c, m, load[c].row) /\ load[c].row \in Row
      BY <1>19, <2>1 DEF FinishLoad, Held, Version, Row
    <3>2. stmt[c] = "query" /\ InTransaction(c)
      BY <1>19, <2>1 DEF FinishLoad, Discipline
    <3>3. Usable(c, m, load[c].row)
      BY <3>1 DEF HeldUsable
    <3>4. served'[c][m] = load[c].row
      BY <1>19, <2>1 DEF FinishLoad, TypeOK
    <3> QED
      BY <1>19, <3>2, <3>3, <3>4 DEF FinishLoad, Usable, WrittenByStatement, session
  <2>2. CASE ~(c = b /\ m = load[b].name)
    BY <1>a, <1>19, <2>2 DEF FinishLoad, TypeOK, session
  <2> QED
    BY <2>1, <2>2
<1>20. ASSUME NEW b \in Backends, FailLoad(b)
       PROVE  IF own'[c][m] # None THEN served'[c][m] = own'[c][m]
                                ELSE served'[c][m] \in allowed'[c][m]
  BY <1>20, <1>a DEF FailLoad, Abort, Discard, TypeOK, PerName
<1>21. CASE UNCHANGED vars
  BY <1>21, <1>a DEF vars
<1> QED
  BY <1>1, <1>2, <1>3, <1>4, <1>5, <1>6, <1>7, <1>8, <1>9, <1>10, <1>11, <1>12, <1>13,
     <1>14, <1>15, <1>16, <1>17, <1>18, <1>19, <1>20, <1>21
     DEF Next

(* The strengthening of AnswersFresh that every step keeps. *)
Fresh ==
  /\ OnlyReadCommitted /\ RowsAllowed
  /\ HeldDated /\ HeldUsable
  /\ ServedToQuery /\ AnswersFresh

(* Nothing is held and nobody has been answered in the initial state.      *)
LEMMA FreshInit == Init => Fresh
BY CacheAssumption
   DEF Init, Fresh, OnlyReadCommitted, RowsAllowed, HeldDated, HeldUsable, Held,
       ServedToQuery, AnswersFresh, InTransaction, LRU!EmptyCache, NoLoad, Loading,
       PerName, Row

(* Fresh is an invariant where the promise is made.                        *)
LEMMA FreshAlways ==
  ASSUME PromisedFor
  PROVE  Spec => []Fresh
<1>1. TypeOK /\ Resolved /\ Discipline /\ Fresh /\ [Next]_vars => Fresh'
  BY OnlyReadCommittedNext, RowsAllowedNext, HeldDatedNext, HeldUsableNext,
     ServedToQueryNext, AnswersFreshNext
     DEF Fresh, PromisedFor, OrdinaryWriters
<1>2. OrdinaryWriters
  BY DEF PromisedFor
<1> QED
  BY <1>1, <1>2, FreshInit, TypeCorrect, ResolvedAlways, DisciplineAlways, PTL DEF Spec

(* No statement is ever answered with a schema whose replacement was       *)
(* announced before its transaction began, nor with anything but what the  *)
(* transaction itself wrote: for any number of backends, names and writes, *)
(* any capacity and every order of commits, messages, loads and rollbacks. *)
THEOREM AnswersAlwaysFresh ==
  ASSUME PromisedFor
  PROVE  Spec => []AnswersFresh
BY FreshAlways, PTL DEF Fresh

-----------------------------------------------------------------------------
(* The refinement. *)

Open == [b \in Backends |-> IF InTransaction(b) THEN "open" ELSE txn[b]]

(* The registry's view of a transaction that starts or ends.               *)
LEMMA PhaseChange ==
  ASSUME TypeOK, NEW b \in Backends, NEW p \in {"none", "rc", "rr", "committing"},
         txn' = [txn EXCEPT ![b] = p]
  PROVE  Open' = [Open EXCEPT ![b] = IF p \in {"rc", "rr"} THEN "open" ELSE p]
BY DEF Open, InTransaction, TypeOK

(* ... and of a step that does neither.                                    *)
LEMMA PhaseKept == txn' = txn => Open' = Open
BY DEF Open, InTransaction

(* A step that keeps the rows, the transactions and the answers is none of *)
(* the registry's business.                                                *)
LEMMA Stutter ==
  ASSUME TypeOK, UNCHANGED <<rows, own, txn, replaced, allowed, served>>
  PROVE  UNCHANGED Registry!vars
BY PhaseKept DEF Registry!vars, Open

(* A transaction that ends without committing, by ROLLBACK, by an ERROR or *)
(* because its backend exits, is a rollback of the registry.               *)
LEMMA DiscardImplements ==
  ASSUME TypeOK, Discipline, Fresh, NEW b \in Backends, Discard(b),
         txn[b] # "committing", UNCHANGED <<rows, replaced>>
  PROVE  Registry!Rollback(b) \/ UNCHANGED Registry!vars
<1>1. Open' = [Open EXCEPT ![b] = "none"]
  BY PhaseChange DEF Discard
<1>2. CASE InTransaction(b)
  BY <1>1, <1>2
     DEF Discard, Registry!Rollback, Registry!Nothing, Open, PerName, TypeOK
<1>3. CASE ~InTransaction(b)
  <2>1. own[b] = PerName(None) /\ allowed[b] = PerName({}) /\ served[b] = PerName(None)
    BY <1>3 DEF TypeOK, Discipline, Fresh, RowsAllowed, ServedToQuery, PerName
  <2>2. txn[b] = "none"
    BY <1>3 DEF TypeOK, InTransaction
  <2>3. UNCHANGED <<rows, own, txn, replaced, allowed, served>>
    BY <2>1, <2>2 DEF Discard, TypeOK
  <2> QED
    BY <2>3, Stutter
<1> QED
  BY <1>2, <1>3

(* A hit and a finished load answer the query with what AnswersFresh says. *)
LEMMA AnswerImplements ==
  ASSUME TypeOK, Discipline, Fresh, PromisedFor, NEW b \in Backends, NEW n \in Names,
         NEW row \in Version, Fresh', MayLookup(b) \/ stmt[b] = "query",
         served' = [served EXCEPT ![b][n] = row],
         UNCHANGED <<rows, own, txn, replaced, allowed>>
  PROVE  Registry!Answer(b, n, row)
<1>1. InTransaction(b)
  BY DEF MayLookup, PromisedFor, OrdinaryWriters, Discipline
<1>2. served'[b][n] = row /\ row # None /\ row # 0
  BY NoneIsNoRow DEF TypeOK, Version
<1>3. IF own[b][n] # None THEN row = own[b][n] ELSE row \in allowed[b][n]
  BY <1>2 DEF Fresh, AnswersFresh
<1> QED
  BY <1>1, <1>2, <1>3, PhaseKept DEF Registry!Answer, Open

(* A commit allows the other open transactions what it wrote.              *)
LEMMA CommitAllows ==
  ASSUME TypeOK, NEW b \in Backends, Commit(b)
  PROVE  allowed' = [c \in Backends |-> [n \in Names |->
           IF c = b THEN {}
           ELSE IF Open[c] = "open" /\ own[b][n] # None THEN allowed[c][n] \cup {own[b][n]}
           ELSE allowed[c][n]]]
<1>1. \A c \in Backends : Open[c] = "open" <=> InTransaction(c)
  BY DEF Open, InTransaction, TypeOK
<1>2. allowed' = [c \in Backends |->
        IF c = b THEN PerName({}) ELSE AllowNew(own[b])[c]]
  BY DEF Commit, AllowNew
<1> QED
  BY <1>1, <1>2 DEF AllowNew, PerName

(* A commit is a publication: it waits for the messages exactly when there *)
(* are some, and there are some whenever it wrote.                         *)
LEMMA CommitImplements ==
  ASSUME TypeOK, Discipline, Fresh, NEW b \in Backends, Commit(b)
  PROVE  Registry!Publish(b)
<1>1. InTransaction(b) /\ served[b] = Registry!Nothing
  BY DEF Commit, Fresh, ServedToQuery, TypeOK, Registry!Nothing
<1>2. own' = [own EXCEPT ![b] = Registry!Nothing] /\ UNCHANGED served
  BY DEF Commit, PerName, Registry!Nothing
<1>3. rows' = [n \in Names |-> IF own[b][n] # None THEN own[b][n] ELSE rows[n]]
  BY DEF Commit
<1>4. CASE prior[b] = {}
  <2>1. own[b] = Registry!Nothing /\ replaced[b] = Registry!Nothing
    <3>1. \A n \in Names : own[b][n] = None
      BY <1>4 DEF Commit, Discipline
    <3>2. \A n \in Names : replaced[b][n] = None
      BY <1>1 DEF Discipline, InTransaction
    <3> QED
      BY <3>1, <3>2 DEF TypeOK, Registry!Nothing
  <2>2. Open' = [Open EXCEPT ![b] = "none"]
    BY <1>4, PhaseChange DEF Commit
  <2>3. replaced' = [replaced EXCEPT ![b] =
          [n \in Names |-> IF own[b][n] # None THEN rows[n] ELSE None]]
    BY <1>4, <2>1 DEF Commit, TypeOK, Registry!Nothing
  <2> QED
    BY <1>1, <1>2, <1>3, <2>1, <2>2, <2>3, CommitAllows DEF Registry!Publish, Open
<1>5. CASE prior[b] # {}
  <2>1. Open' = [Open EXCEPT ![b] = "committing"]
    BY <1>5, PhaseChange DEF Commit
  <2>2. replaced' = [replaced EXCEPT ![b] =
          [n \in Names |-> IF own[b][n] # None THEN rows[n] ELSE None]]
    BY <1>5 DEF Commit
  <2> QED
    BY <1>1, <1>2, <1>3, <2>1, <2>2, CommitAllows DEF Registry!Publish, Open
<1> QED
  BY <1>4, <1>5

(* Every step of the caches, the queues and the callback is a step of the  *)
(* registry or changes nothing the registry knows of.                      *)
LEMMA StepImplements ==
  ASSUME PromisedFor
  PROVE  /\ TypeOK /\ Discipline /\ Fresh /\ Fresh' /\ [Next]_vars
         => [Registry!Next]_Registry!vars
<1> SUFFICES ASSUME TypeOK, Discipline, Fresh, Fresh', [Next]_vars
             PROVE  [Registry!Next]_Registry!vars
  OBVIOUS
<1>1. ASSUME NEW b \in Backends, NEW level \in Levels, NEW kind \in {"query", "dml"},
             Begin(b, level, kind)
      PROVE  [Registry!Next]_Registry!vars
  <2>1. [n \in Names |-> {rows[n]} \cup Registry!Replaced(n)] = CurrentRows
    BY DEF CurrentRows, Registry!Replaced
  <2>2. Open' = [Open EXCEPT ![b] = "open"]
    BY <1>1, PhaseChange DEF Begin, PromisedFor, ReadCommitted
  <2>3. Open[b] = "none"
    BY <1>1 DEF Begin, Open, InTransaction
  <2>4. Registry!Start(b)
    BY <1>1, <2>1, <2>2, <2>3 DEF Begin, Registry!Start, Open, database
  <2> QED
    BY <2>4 DEF Registry!Next
<1>2. ASSUME NEW b \in Backends, NEW kind \in {"query", "dml"}, NextStatement(b, kind)
      PROVE  [Registry!Next]_Registry!vars
  BY <1>2, Stutter DEF NextStatement, database, PromisedFor
<1>3. ASSUME NEW b \in Backends, AcceptInvalidations(b)
      PROVE  [Registry!Next]_Registry!vars
  BY <1>3, Stutter DEF AcceptInvalidations, database, session
<1>4. ASSUME NEW b \in Backends, SinvalReset(b)
      PROVE  [Registry!Next]_Registry!vars
  BY <1>4, Stutter DEF SinvalReset, database, session
<1>5. ASSUME NEW b \in Backends, NEW n \in Names, NEW row \in Row, WriteRow(b, n, row)
      PROVE  [Registry!Next]_Registry!vars
  <2>1. Open[b] = "open" /\ Open' = Open
    BY <1>5, PhaseKept DEF WriteRow, Open, Discipline
  <2>2. Registry!Write(b, n, row)
    BY <1>5, <2>1 DEF WriteRow, Registry!Write, Open
  <2> QED
    BY <2>2 DEF Registry!Next
<1>6. ASSUME NEW b \in Backends, FireTrigger(b)
      PROVE  [Registry!Next]_Registry!vars
  BY <1>6, Stutter DEF FireTrigger, database
<1>7. ASSUME NEW b \in Backends, SkipTrigger(b)
      PROVE  [Registry!Next]_Registry!vars
  BY <1>7, Stutter DEF SkipTrigger, database
<1>8. ASSUME NEW b \in Backends, EndStatement(b)
      PROVE  [Registry!Next]_Registry!vars
  <2>1. Registry!EndOfStatement(b)
    BY <1>8, PhaseKept
       DEF EndStatement, Registry!EndOfStatement, Registry!Nothing, Open, PerName, database
  <2> QED
    BY <2>1 DEF Registry!Next
<1>9. ASSUME NEW b \in Backends, Commit(b)
      PROVE  [Registry!Next]_Registry!vars
  BY <1>9, CommitImplements DEF Registry!Next
<1>10. ASSUME NEW b \in Backends, SendInvalidations(b)
       PROVE  [Registry!Next]_Registry!vars
  <2>1. Open[b] = "committing" /\ Open' = [Open EXCEPT ![b] = "none"]
    BY <1>10, PhaseChange DEF SendInvalidations, Open, InTransaction
  <2>2. Registry!Announce(b)
    BY <1>10, <2>1 DEF SendInvalidations, Registry!Announce, Registry!Nothing, Open, PerName
  <2> QED
    BY <2>2 DEF Registry!Next
<1>11. ASSUME NEW b \in Backends, Abort(b)
       PROVE  [Registry!Next]_Registry!vars
  BY <1>11, DiscardImplements DEF Abort, InTransaction, database, Registry!Next
<1>12. ASSUME NEW b \in Backends, Reconnect(b)
       PROVE  [Registry!Next]_Registry!vars
  BY <1>12, DiscardImplements DEF Reconnect, database, Registry!Next
<1>13. ASSUME NEW b \in Backends, Recreate(b)
       PROVE  [Registry!Next]_Registry!vars
  BY <1>13 DEF Recreate, PromisedFor, OrdinaryWriters, TypeOK, Oid
<1>14. ASSUME NEW b \in Backends, NEW n \in Names, LookupHit(b, n)
       PROVE  [Registry!Next]_Registry!vars
  <2>1. cache[b].entry[n] \in Version
    BY <1>14 DEF LookupHit, TypeOK, LRU!Caches
  <2>2. Registry!Answer(b, n, cache[b].entry[n])
    BY <1>14, <2>1, AnswerImplements DEF LookupHit, database, session
  <2> QED
    BY <2>1, <2>2 DEF Registry!Next, Row, Version
<1>15. ASSUME NEW b \in Backends, NEW n \in Names, LookupMiss(b, n)
       PROVE  [Registry!Next]_Registry!vars
  BY <1>15, Stutter DEF LookupMiss, database, session
<1>16. ASSUME NEW b \in Backends, ResolveOid(b)
       PROVE  [Registry!Next]_Registry!vars
  BY <1>16, Stutter DEF ResolveOid, database, session
<1>17. ASSUME NEW b \in Backends, OpenCatalog(b)
       PROVE  [Registry!Next]_Registry!vars
  BY <1>17, Stutter DEF OpenCatalog, database
<1>18. ASSUME NEW b \in Backends, ScanCatalog(b)
       PROVE  [Registry!Next]_Registry!vars
  BY <1>18, Stutter DEF ScanCatalog, database, session
<1>19. ASSUME NEW b \in Backends, FinishLoad(b)
       PROVE  [Registry!Next]_Registry!vars
  <2>1. load[b].name \in Names /\ load[b].row \in Version
    BY <1>19 DEF FinishLoad, TypeOK, Loads, NoLoad, Loading
  <2>2. stmt[b] = "query"
    BY <1>19 DEF FinishLoad, Discipline
  <2>3. Registry!Answer(b, load[b].name, load[b].row)
    BY <1>19, <2>1, <2>2, AnswerImplements DEF FinishLoad, database, session
  <2> QED
    BY <2>1, <2>3 DEF Registry!Next, Row, Version
<1>20. ASSUME NEW b \in Backends, FailLoad(b)
       PROVE  [Registry!Next]_Registry!vars
  BY <1>20, DiscardImplements DEF FailLoad, Abort, InTransaction, database, Registry!Next
<1>21. CASE UNCHANGED vars
  BY <1>21, Stutter DEF vars
<1> QED
  BY <1>1, <1>2, <1>3, <1>4, <1>5, <1>6, <1>7, <1>8, <1>9, <1>10, <1>11, <1>12, <1>13,
     <1>14, <1>15, <1>16, <1>17, <1>18, <1>19, <1>20, <1>21
     DEF Next

(* The extension keeps the registry's promise: its caches, its trigger and *)
(* PostgreSQL's queues behave like a registry without any of them.         *)
THEOREM CacheImplementsRegistry ==
  ASSUME PromisedFor
  PROVE  Spec => ImplementsRegistry
<1>1. Init => Registry!Init
  BY DEF Init, Registry!Init, Registry!Nothing, PerName, InTransaction
<1>2. OrdinaryWriters
  BY DEF PromisedFor
<1> QED
  BY <1>1, <1>2, StepImplements, FreshAlways, TypeCorrect, DisciplineAlways, PTL
     DEF Spec, ImplementsRegistry, Registry!Spec
=============================================================================
