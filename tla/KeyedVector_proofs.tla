-------------------------- MODULE KeyedVector_proofs --------------------------
(* Theorems about KeyedVector, for every value of its constants.           *)
EXTENDS KeyedVector, SequenceTheorems, LeastNumber, TLAPS

Entries == [from : Texts, reads : Texts]

(* Every element reads as what its author wrote is stored as.              *)
GoodEntries ==
  vec # None =>
    \A i \in DOMAIN vec :
      /\ kind \notin IntKinds => vec[i].reads = vec[i].from
      /\ kind \in IntKinds => /\ Number[vec[i].from] \in I64Min .. U64Max
                              /\ vec[i].reads = Stored(vec[i].from)

(* Only lookups that were not refused run.                                 *)
LookupLegal ==
  /\ Busy => kind # "keyless"
  /\ status = "bisect" => kind # "float" /\ ~Unmatchable(key)

Sound == TypeOK /\ GoodEntries /\ LookupLegal

-----------------------------------------------------------------------------
(* What the tuples of the writer are.                                      *)
LEMMA TupleIsSeq ==
  ASSUME NEW S, NEW s \in Tuples(S)
  PROVE  /\ Len(s) \in Nat
         /\ DOMAIN s = 1 .. Len(s)
         /\ \A i \in DOMAIN s : s[i] \in S
<1>1. PICK n \in 0 .. MaxElements : s \in [1 .. n -> S]
  BY DEF Tuples
<1>2. n \in Nat
  BY <1>1, KeyAssumption
<1>3. s \in Seq(S)
  BY <1>1, <1>2
<1> QED
  BY <1>1, <1>3, LenProperties

(* A vector in the making is a sequence of entries.                        *)
LEMMA EntriesAreSeq ==
  ASSUME NEW n \in Nat, NEW f, NEW g,
         \A i \in 1 .. n : f[i] \in Texts /\ g[i] \in Texts
  PROVE  [i \in 1 .. n |-> Entry(f[i], g[i])] \in Seq(Entries)
<1>1. \A i \in 1 .. n : Entry(f[i], g[i]) \in Entries
  BY DEF Entry, Entries
<1> QED
  BY <1>1

(* What a vector is made of.                                               *)
LEMMA VecIsSeq ==
  ASSUME TypeOK, vec # None
  PROVE  /\ Len(vec) \in Nat
         /\ DOMAIN vec = 1 .. Len(vec)
         /\ \A i \in 1 .. Len(vec) : vec[i].from \in Texts /\ vec[i].reads \in Texts
<1>1. vec \in Seq(Entries)
  BY DEF TypeOK, Entries
<1>2. /\ Len(vec) \in Nat
      /\ DOMAIN vec = 1 .. Len(vec)
      /\ \A i \in 1 .. Len(vec) : vec[i] \in Entries
  BY <1>1, LenProperties
<1> QED
  BY <1>2 DEF Entries

(* What is stored for a key is a text, and reads as that key's integer     *)
(* unless it reads as none (push_slot, get_any_field_string).              *)
LEMMA StoredReads ==
  ASSUME NEW t \in Texts,
         kind \in IntKinds => Number[t] \in I64Min .. U64Max
  PROVE  /\ Stored(t) \in Texts
         /\ kind \in IntKinds /\ ParseI64(Stored(t)) # None =>
              /\ ParseI64(Stored(t)) = Number[t]
              /\ Number[Stored(t)] = Number[t]
<1>1. CASE kind \notin IntKinds
  BY <1>1 DEF Stored
<1>2. CASE kind \in IntKinds /\ Number[t] = Default
  BY <1>2, KeyAssumption DEF Stored, ParseI64
<1>3. CASE kind \in IntKinds /\ Number[t] # Default
  <2>1. Stored(t) = Decimal[Number[t]]
    BY <1>3 DEF Stored
  <2>2. Stored(t) \in Texts /\ Number[Stored(t)] = Number[t]
    BY <1>3, <2>1, KeyAssumption
  <2> QED
    BY <1>3, <2>2 DEF ParseI64
<1> QED
  BY <1>1, <1>2, <1>3

-----------------------------------------------------------------------------
(* Authors' integer keys are integers.                                     *)
LEMMA WrittenIsInt == Written \subseteq Int
<1>1. Written \subseteq I64Min .. U64Max
  BY KeyAssumption
<1> QED
  BY <1>1

(* Both writers of from_json make a vector of the keys they are given, one *)
(* element for each, that is well typed and reads as it should.            *)
LEMMA WrittenIsGood ==
  ASSUME NEW S, NEW s \in Tuples(S),
         \A t \in S : t \in Texts /\ (kind \in IntKinds => Number[t] \in I64Min .. U64Max),
         vec' = [i \in DOMAIN s |-> Entry(s[i], Stored(s[i]))],
         kind' = kind
  PROVE  /\ vec' \in Seq(Entries)
         /\ DOMAIN vec' = DOMAIN s
         /\ \A i \in DOMAIN s : s[i] \in S /\ vec'[i].from = s[i]
         /\ GoodEntries'
<1>1. /\ Len(s) \in Nat
      /\ DOMAIN s = 1 .. Len(s)
      /\ \A i \in DOMAIN s : s[i] \in S
  BY TupleIsSeq
<1>2. \A i \in DOMAIN s : s[i] \in Texts /\ Stored(s[i]) \in Texts
  BY <1>1, StoredReads
<1>3. vec' \in Seq(Entries)
  <2> DEFINE g == [i \in 1 .. Len(s) |-> Stored(s[i])]
  <2>1. \A i \in 1 .. Len(s) : s[i] \in Texts /\ g[i] \in Texts
    BY <1>1, <1>2
  <2>2. [i \in 1 .. Len(s) |-> Entry(s[i], g[i])] \in Seq(Entries)
    BY <1>1, <2>1, EntriesAreSeq
  <2>3. vec' = [i \in 1 .. Len(s) |-> Entry(s[i], g[i])]
    BY <1>1
  <2> QED
    BY <2>2, <2>3
<1>4. DOMAIN vec' = DOMAIN s
  OBVIOUS
<1>5. \A i \in DOMAIN s : vec'[i].from = s[i] /\ vec'[i].reads = Stored(s[i])
  BY DEF Entry
<1>6. \A t : Stored(t)' = Stored(t)
  BY DEF Stored
<1>7. GoodEntries'
  BY <1>1, <1>4, <1>5, <1>6 DEF GoodEntries, Stored
<1> QED
  BY <1>1, <1>3, <1>4, <1>5, <1>7

(* A key accepted from a JSON object is an integer of the field's range.   *)
LEMMA AcceptedKeys ==
  ASSUME NEW t \in Texts, Accepts(t), kind \in IntKinds
  PROVE  /\ ParseI64(t) = Number[t] /\ ParseI64(t) # None
         /\ Number[t] \in I64Min .. I64Max
         /\ Number[t] \in I64Min .. U64Max
<1>1. ParseI64(t) # None
  BY DEF Accepts, IntKinds
<1>2. Number[t] \in I64Min .. I64Max /\ ParseI64(t) = Number[t]
  BY <1>1 DEF ParseI64
<1> QED
  BY <1>1, <1>2, KeyAssumption

(* The object form (build_vector_of_keyed_tables_from_object).             *)
LEMMA ObjectIsGood ==
  ASSUME WriteObject
  PROVE  /\ vec' \in Seq(Entries) /\ GoodEntries'
         /\ \E s \in SortedKeys(ObjectKeys) :
              /\ DOMAIN vec' = DOMAIN s
              /\ \A i \in DOMAIN s : s[i] \in ObjectKeys /\ vec'[i].from = s[i]
<1>1. PICK s \in SortedKeys(ObjectKeys) :
        vec' = [i \in DOMAIN s |-> Entry(s[i], Stored(s[i]))]
  BY DEF WriteObject
<1>2. s \in Tuples(ObjectKeys) /\ kind' = kind
  BY <1>1 DEF SortedKeys, WriteObject
<1>3. \A t \in ObjectKeys : t \in Texts /\ (kind \in IntKinds => Number[t] \in I64Min .. U64Max)
  BY AcceptedKeys DEF ObjectKeys
<1> QED
  BY <1>1, <1>2, <1>3, WrittenIsGood

(* The array form (build_vector), and other writers.                       *)
LEMMA ArrayIsGood ==
  ASSUME WriteArray
  PROVE  /\ vec' \in Seq(Entries) /\ GoodEntries'
         /\ \E s \in Tuples(ArrayKeys) :
              /\ "array" \in Sources \/ Ordered(s, NotAfter)
              /\ DOMAIN vec' = DOMAIN s
              /\ \A i \in DOMAIN s : s[i] \in ArrayKeys /\ vec'[i].from = s[i]
<1>1. PICK s \in Tuples(ArrayKeys) :
        /\ "array" \in Sources \/ Ordered(s, NotAfter)
        /\ vec' = [i \in DOMAIN s |-> Entry(s[i], Stored(s[i]))]
  BY DEF WriteArray
<1>2. kind' = kind
  BY DEF WriteArray
<1>3. \A t \in ArrayKeys : t \in Texts /\ (kind \in IntKinds => Number[t] \in I64Min .. U64Max)
  BY KeyAssumption DEF ArrayKeys
<1> QED
  BY <1>1, <1>2, <1>3, WrittenIsGood

(* Through JSON and back: every element of the new vector has the author's *)
(* key of an element of the old one, and the order is that of the sort.    *)
LEMMA ReloadIsGood ==
  ASSUME Sound, Reload, kind # "keyless"
  PROVE  /\ vec' \in Seq(Entries) /\ GoodEntries'
         /\ \E s \in SortedKeys(Members) : \E e \in [DOMAIN s -> DOMAIN vec] :
              /\ DOMAIN vec' = DOMAIN s
              /\ \A i \in DOMAIN s :
                   /\ s[i] \in Texts
                   /\ vec'[i].from = vec[e[i]].from
                   /\ kind \in IntKinds => Number[vec[e[i]].from] = Number[s[i]]
                   /\ kind \notin IntKinds => vec[e[i]].from = s[i]
<1>1. vec # None /\ \A t \in Members : Accepts(t)
  BY DEF Reload
<1>2. PICK s \in SortedKeys(Members) : \E e \in [DOMAIN s -> DOMAIN vec] :
        /\ \A i \in DOMAIN s : IsLast(e[i]) /\ vec[e[i]].reads = s[i]
        /\ vec' = [i \in DOMAIN s |-> Entry(vec[e[i]].from, Stored(s[i]))]
  BY DEF Reload
<1>3. PICK e \in [DOMAIN s -> DOMAIN vec] :
        /\ \A i \in DOMAIN s : vec[e[i]].reads = s[i]
        /\ vec' = [i \in DOMAIN s |-> Entry(vec[e[i]].from, Stored(s[i]))]
  BY <1>2
<1>4. /\ Len(s) \in Nat
      /\ DOMAIN s = 1 .. Len(s)
      /\ \A i \in DOMAIN s : s[i] \in Members
  <2>1. s \in Tuples(Members)
    BY <1>2 DEF SortedKeys
  <2> QED
    BY <2>1, TupleIsSeq
<1>5. /\ DOMAIN vec = 1 .. Len(vec)
      /\ \A i \in DOMAIN vec : vec[i].from \in Texts /\ vec[i].reads \in Texts
  BY <1>1, VecIsSeq DEF Sound
<1>6. \A i \in DOMAIN s : e[i] \in DOMAIN vec /\ vec[e[i]].from \in Texts /\ s[i] \in Texts
  BY <1>3, <1>5
<1>7. \A i \in DOMAIN s : kind \notin IntKinds => vec[e[i]].from = s[i]
  BY <1>1, <1>3, <1>6 DEF Sound, GoodEntries
<1>8. \A i \in DOMAIN s : kind \in IntKinds =>
        /\ Number[vec[e[i]].from] = Number[s[i]]
        /\ Number[s[i]] \in I64Min .. U64Max
  <2> SUFFICES ASSUME NEW i \in DOMAIN s, kind \in IntKinds
               PROVE  /\ Number[vec[e[i]].from] = Number[s[i]]
                      /\ Number[s[i]] \in I64Min .. U64Max
    OBVIOUS
  <2>1. /\ Number[vec[e[i]].from] \in I64Min .. U64Max
        /\ s[i] = Stored(vec[e[i]].from)
    BY <1>1, <1>3, <1>6 DEF Sound, GoodEntries
  <2>2. Accepts(s[i])
    BY <1>1, <1>4
  <2>3. ParseI64(s[i]) # None /\ Number[s[i]] \in I64Min .. U64Max
    BY <1>6, <2>2, AcceptedKeys
  <2>4. vec[e[i]].from \in Texts
    BY <1>6
  <2> QED
    BY <2>1, <2>3, <2>4, StoredReads
<1>9. \A i \in DOMAIN s : Stored(s[i]) \in Texts
  BY <1>6, <1>8, StoredReads
<1>10. vec' \in Seq(Entries)
  <2> DEFINE f == [i \in 1 .. Len(s) |-> vec[e[i]].from]
             g == [i \in 1 .. Len(s) |-> Stored(s[i])]
  <2>1. \A i \in 1 .. Len(s) : f[i] \in Texts /\ g[i] \in Texts
    BY <1>4, <1>6, <1>9
  <2>2. [i \in 1 .. Len(s) |-> Entry(f[i], g[i])] \in Seq(Entries)
    BY <1>4, <2>1, EntriesAreSeq
  <2>3. vec' = [i \in 1 .. Len(s) |-> Entry(f[i], g[i])]
    BY <1>3, <1>4
  <2> QED
    BY <2>2, <2>3
<1>11. DOMAIN vec' = DOMAIN s
  BY <1>3
<1>12. \A i \in DOMAIN s : vec'[i].from = vec[e[i]].from /\ vec'[i].reads = Stored(s[i])
  BY <1>3 DEF Entry
<1>13. GoodEntries'
  <2>1. kind' = kind /\ \A t : Stored(t)' = Stored(t)
    BY DEF Reload, Stored
  <2>2. \A i \in DOMAIN s : kind \notin IntKinds => vec'[i].reads = vec'[i].from
    BY <1>7, <1>12 DEF Stored
  <2>3. \A i \in DOMAIN s : kind \in IntKinds => vec'[i].reads = Stored(vec'[i].from)
    BY <1>8, <1>12 DEF Stored
  <2>4. \A i \in DOMAIN s : kind \in IntKinds => Number[vec'[i].from] \in I64Min .. U64Max
    BY <1>8, <1>12
  <2> QED
    BY <1>11, <2>1, <2>2, <2>3, <2>4 DEF GoodEntries
<1> QED
  BY <1>6, <1>7, <1>8, <1>10, <1>11, <1>12, <1>13, <1>2, <1>3

-----------------------------------------------------------------------------
(* Before anything is written the invariant holds.                         *)
LEMMA SoundInit == Init => Sound
BY KeyAssumption DEF Init, Sound, TypeOK, GoodEntries, LookupLegal, Busy

(* The vector stays what it was unless it is written or reloaded.          *)
LEMMA GoodEntriesKept ==
  ASSUME GoodEntries, UNCHANGED <<kind, vec>>
  PROVE  GoodEntries'
BY DEF GoodEntries, Stored

(* A write leaves everything well typed and no lookup running.             *)
LEMMA WriteKeepsSound ==
  ASSUME Sound, WriteObject \/ WriteArray
  PROVE  Sound' /\ status' = "idle"
<1>1. vec' \in Seq(Entries) /\ GoodEntries'
  BY ObjectIsGood, ArrayIsGood
<1>2. /\ kind' = kind /\ key' = key /\ lo' = lo /\ hi' = hi
      /\ status' = "idle"
  BY DEF WriteObject, WriteArray
<1> QED
  BY <1>1, <1>2 DEF Sound, TypeOK, Entries, LookupLegal, Busy

(* Going through JSON leaves everything well typed and no lookup running.  *)
LEMMA ReloadKeepsSound ==
  ASSUME Sound, Reload
  PROVE  Sound' /\ status' = "idle"
<1>1. /\ kind' = kind /\ key' = key /\ lo' = lo /\ hi' = hi
      /\ status' = "idle"
  BY DEF Reload
<1>2. CASE kind = "keyless"
  <2>1. vec' = vec
    BY <1>2 DEF Reload
  <2> QED
    BY <1>1, <2>1, GoodEntriesKept DEF Sound, TypeOK, LookupLegal, Busy
<1>3. CASE kind # "keyless"
  <2>1. vec' \in Seq(Entries) /\ GoodEntries'
    BY <1>3, ReloadIsGood
  <2> QED
    BY <1>1, <2>1 DEF Sound, TypeOK, Entries, LookupLegal, Busy
<1> QED
  BY <1>2, <1>3

(* Starting a lookup, or refusing it.                                      *)
LEMMA CallKeepsSound ==
  ASSUME Sound, NEW k \in Texts, NEW hasTail \in BOOLEAN,
         Refuse(k, hasTail) \/ LookupAbsent(k) \/ StartBisect(k) \/ StartScan(k)
  PROVE  /\ Sound'
         /\ UNCHANGED <<kind, vec>> /\ key' = k /\ lo' = 0
         /\ status' \in {"bisect", "scan", "miss", "error"}
         /\ status' = "bisect" => hi' = Len(vec)
         /\ status' = "miss" => vec = None \/ Unmatchable(k)
<1>1. PICK s \in {"bisect", "scan", "miss", "error"} :
        /\ Called(k, s)
        /\ s \in {"bisect", "scan"} => vec # None /\ kind # "keyless"
        /\ s = "bisect" => kind # "float" /\ ~Unmatchable(k)
        /\ s = "miss" => vec = None \/ Unmatchable(k)
  BY DEF Refuse, LookupAbsent, StartBisect, StartScan
<1>2. /\ UNCHANGED <<kind, vec>> /\ key' = k /\ status' = s /\ lo' = 0
      /\ hi' = IF vec = None THEN 0 ELSE Len(vec)
  BY <1>1 DEF Called
<1>3. vec # None => Len(vec) \in Nat
  BY VecIsSeq DEF Sound
<1>4. TypeOK'
  BY <1>1, <1>2, <1>3 DEF Sound, TypeOK, Busy
<1>5. LookupLegal'
  BY <1>1, <1>2 DEF LookupLegal, Busy, Unmatchable, ParseI64
<1>6. GoodEntries'
  BY <1>2, GoodEntriesKept DEF Sound
<1> QED
  BY <1>1, <1>2, <1>4, <1>5, <1>6 DEF Sound

(* The middle of a range that is not empty is in the range.                *)
LEMMA MidInRange ==
  ASSUME TypeOK, lo < hi
  PROVE  Mid \in Nat /\ lo <= Mid /\ Mid < hi
BY DEF TypeOK, Mid

(* A step of a lookup reads within the vector and leaves it alone.         *)
LEMMA StepKeepsSound ==
  ASSUME Sound, Step
  PROVE  Sound' /\ UNCHANGED <<kind, vec, key>>
<1>1. UNCHANGED <<kind, vec, key>>
  BY DEF Step, BisectHit, BisectRight, BisectLeft, BisectMiss, ScanElement, ScanMiss, Answer
<1>2. Busy /\ vec # None /\ hi <= Len(vec) /\ lo <= Len(vec)
  BY DEF Sound, TypeOK, Busy, Step, BisectHit, BisectRight, BisectLeft, BisectMiss,
         ScanElement, ScanMiss
<1>3. Len(vec) \in Nat /\ lo \in Nat /\ hi \in Nat
  BY <1>2, VecIsSeq DEF Sound, TypeOK
<1>4. lo < hi => Mid \in Nat /\ lo <= Mid /\ Mid < hi
  BY MidInRange DEF Sound
<1>5. /\ lo' \in Nat /\ hi' \in Nat
      /\ lo' <= Len(vec) /\ hi' <= Len(vec)
  <2>1. CASE BisectHit
    BY <2>1, <1>2, <1>3, <1>4 DEF BisectHit
  <2>2. CASE BisectRight
    BY <2>2, <1>2, <1>3, <1>4 DEF BisectRight
  <2>3. CASE BisectLeft
    BY <2>3, <1>2, <1>3, <1>4 DEF BisectLeft
  <2>4. CASE BisectMiss \/ ScanMiss
    BY <2>4, <1>2, <1>3 DEF BisectMiss, ScanMiss, Answer
  <2>5. CASE ScanElement
    BY <2>5, <1>2, <1>3 DEF ScanElement, Answer
  <2> QED
    BY <2>1, <2>2, <2>3, <2>4, <2>5 DEF Step
<1>6. status' \in {status, "hit", "miss", "error"}
  BY DEF Step, BisectHit, BisectRight, BisectLeft, BisectMiss, ScanElement, ScanMiss, Answer
<1>7. TypeOK'
  BY <1>1, <1>2, <1>5, <1>6 DEF Sound, TypeOK, Busy
<1>8. LookupLegal'
  BY <1>1, <1>2, <1>6 DEF Sound, LookupLegal, Busy, Unmatchable, ParseI64
<1>9. GoodEntries'
  BY <1>1, GoodEntriesKept DEF Sound
<1> QED
  BY <1>1, <1>7, <1>8, <1>9 DEF Sound

(* A refused JSON value changes nothing but the answer.                    *)
LEMMA RejectKeepsSound ==
  ASSUME Sound, RejectObject \/ RejectReload
  PROVE  Sound' /\ status' = "error"
<1>1. status' = "error" /\ UNCHANGED <<kind, vec, key, lo, hi>>
  BY DEF RejectObject, RejectReload
<1>2. GoodEntries'
  BY <1>1, GoodEntriesKept DEF Sound
<1> QED
  BY <1>1, <1>2 DEF Sound, TypeOK, LookupLegal, Busy

(* Sound is inductive.                                                     *)
LEMMA SoundNext == Sound /\ [Next]_vars => Sound'
<1> SUFFICES ASSUME Sound, [Next]_vars
             PROVE  Sound'
  OBVIOUS
<1>1. CASE WriteObject \/ WriteArray
  BY <1>1, WriteKeepsSound
<1>2. CASE RejectObject \/ RejectReload
  BY <1>2, RejectKeepsSound
<1>3. CASE Reload
  BY <1>3, ReloadKeepsSound
<1>4. CASE \E k \in Texts : \/ \E hasTail \in BOOLEAN : Refuse(k, hasTail)
                            \/ LookupAbsent(k) \/ StartBisect(k) \/ StartScan(k)
  <2>1. PICK k \in Texts, hasTail \in BOOLEAN :
          Refuse(k, hasTail) \/ LookupAbsent(k) \/ StartBisect(k) \/ StartScan(k)
    BY <1>4
  <2> QED
    BY <2>1, CallKeepsSound
<1>5. CASE Step
  BY <1>5, StepKeepsSound
<1>6. CASE UNCHANGED vars
  <2>1. GoodEntries'
    BY <1>6, GoodEntriesKept DEF Sound, vars
  <2> QED
    BY <1>6, <2>1 DEF Sound, TypeOK, LookupLegal, Busy, Unmatchable, ParseI64, vars
<1> QED
  BY <1>1, <1>2, <1>3, <1>4, <1>5, <1>6 DEF Next

(* Every state is sound.                                                   *)
LEMMA AlwaysSound == Spec => []Sound
BY SoundInit, SoundNext, PTL DEF Spec

(* Type correctness: in particular a lookup never reads past the vector.   *)
THEOREM KeyedVectorTypeCorrect == Spec => []TypeOK
<1>1. Sound => TypeOK
  BY DEF Sound
<1> QED
  BY <1>1, AlwaysSound, PTL

-----------------------------------------------------------------------------
(* An element that reads as the integer looked for was written as it.      *)
LEMMA ReadsAsSought ==
  ASSUME Sound, vec # None, NEW i \in 1 .. Len(vec), kind \in IntKinds,
         ParseI64(key) # None, ParseI64(vec[i].reads) = ParseI64(key)
  PROVE  Same(vec[i].from, key)
<1>1. DOMAIN vec = 1 .. Len(vec) /\ vec[i].from \in Texts
  BY VecIsSeq DEF Sound
<1>2. /\ Number[vec[i].from] \in I64Min .. U64Max
      /\ vec[i].reads = Stored(vec[i].from)
  BY <1>1 DEF Sound, GoodEntries
<1>3. ParseI64(vec[i].reads) = Number[vec[i].from]
  BY <1>1, <1>2, StoredReads
<1>4. ParseI64(key) = Number[key]
  BY DEF ParseI64
<1> QED
  BY <1>3, <1>4 DEF Same, IntKinds

(* Elements are counted from 0 in the code and from 1 in a sequence.       *)
LEMMA IndexFromZero ==
  ASSUME NEW n \in Nat, NEW i \in 0 .. n - 1
  PROVE  i + 1 \in 1 .. n
OBVIOUS

(* A kind that is searched is a string or an integer.                      *)
LEMMA SearchedKinds ==
  ASSUME Sound, kind # "keyless", kind # "float"
  PROVE  kind = "string" \/ (kind \in IntKinds /\ kind # "string")
BY KeyAssumption DEF Sound, TypeOK, IntKinds

(* A step that ends in a hit hits an element written under the key.        *)
LEMMA StepHits ==
  ASSUME Sound, Step, status' = "hit"
  PROVE  HitIsRight'
<1>1. /\ UNCHANGED <<kind, vec, key>>
      /\ Busy /\ vec # None /\ hi <= Len(vec) /\ kind # "keyless"
  BY StepKeepsSound DEF Sound, TypeOK, LookupLegal, Busy, Step, BisectHit, BisectRight,
     BisectLeft, BisectMiss, ScanElement, ScanMiss
<1>2. /\ Len(vec) \in Nat /\ lo \in Nat /\ hi \in Nat
      /\ DOMAIN vec = 1 .. Len(vec)
  BY <1>1, VecIsSeq DEF Sound, TypeOK
<1>3. /\ lo' \in 0 .. Len(vec) - 1
      /\ kind # "float"
      /\ kind = "string" => vec[lo' + 1].reads = key
      /\ kind # "string" => /\ ParseI64(key) # None \/ (status = "bisect" /\ ~Unmatchable(key))
                            /\ ParseI64(vec[lo' + 1].reads) = ParseI64(key)
  <2>1. CASE BisectHit
    <3>1. Mid \in Nat /\ Mid < hi /\ lo' = Mid
      BY <2>1, MidInRange DEF Sound, BisectHit
    <3>2. kind # "float" /\ status = "bisect" /\ ~Unmatchable(key)
      BY <2>1 DEF BisectHit, Sound, LookupLegal
    <3> QED
      BY <2>1, <3>1, <3>2, <1>1, <1>2 DEF BisectHit, IsEqual, Actual
  <2>2. CASE ScanElement
    BY <2>2, <1>1, <1>2 DEF ScanElement, Answer, Matches, Actual
  <2>3. BisectHit \/ ScanElement
    BY DEF Step, BisectRight, BisectLeft, BisectMiss, ScanMiss, Answer
  <2> QED
    BY <2>1, <2>2, <2>3
<1>4. lo' + 1 \in 1 .. Len(vec)
  <2>1. lo' \in 0 .. Len(vec) - 1 /\ Len(vec) \in Nat
    BY <1>2, <1>3, Zenon
  <2> QED
    BY <2>1, IndexFromZero
<1>5. Same(vec[lo' + 1].from, key)
  <2>1. CASE kind = "string"
    <3>1. vec[lo' + 1].reads = vec[lo' + 1].from
      BY <2>1, <1>1, <1>2, <1>4 DEF Sound, GoodEntries, IntKinds
    <3> QED
      BY <2>1, <3>1, <1>3 DEF Same
  <2>2. CASE kind \in IntKinds /\ kind # "string"
    <3>1. ParseI64(key) # None /\ ParseI64(vec[lo' + 1].reads) = ParseI64(key)
      BY <2>2, <1>3 DEF Unmatchable
    <3> QED
      BY <2>2, <3>1, <1>1, <1>4, ReadsAsSought
  <2> QED
    BY <2>1, <2>2, <1>1, <1>3, SearchedKinds
<1> QED
  BY <1>1, <1>3, <1>5 DEF HitIsRight, Same, ParseI64

(* The answers of lookups stay right.                                      *)
LEMMA HitNext == Sound /\ HitIsRight /\ [Next]_vars => HitIsRight'
<1> SUFFICES ASSUME Sound, HitIsRight, [Next]_vars, status' = "hit"
             PROVE  HitIsRight'
  BY DEF HitIsRight
<1>1. CASE Step
  BY <1>1, StepHits
<1>2. CASE UNCHANGED vars
  BY <1>2 DEF HitIsRight, Same, ParseI64, vars
<1>3. ASSUME NEW k \in Texts, NEW hasTail \in BOOLEAN,
             Refuse(k, hasTail) \/ LookupAbsent(k) \/ StartBisect(k) \/ StartScan(k)
      PROVE  FALSE
  BY <1>3, CallKeepsSound
<1>4. ~(WriteObject \/ WriteArray \/ RejectObject \/ Reload \/ RejectReload)
  BY WriteKeepsSound, RejectKeepsSound, ReloadKeepsSound
<1> QED
  BY <1>1, <1>2, <1>3, <1>4 DEF Next

(* Whatever the vector and the key field, in both modes, a lookup answers  *)
(* from an element that was written under the key asked for.               *)
THEOREM HitsAreRight == Spec => []HitIsRight
<1>1. Init => HitIsRight
  BY DEF Init, HitIsRight
<1> QED
  BY <1>1, HitNext, AlwaysSound, PTL DEF Spec

-----------------------------------------------------------------------------
(* What vectors have to keep to: whoever does not use from_json's object   *)
(* form sorts, no integer key is the default, and i64 holds every key.     *)
Contract ==
  /\ "array" \notin Sources
  /\ Default \notin Written
  /\ Written \subseteq I64Min .. I64Max

(* The integer keys on the wire are ones that authors use.                 *)
OwnKeys ==
  vec # None /\ kind \in IntKinds => \A i \in DOMAIN vec : Number[vec[i].from] \in Written

(* The vector is in the order of its keys.                                 *)
InOrder ==
  vec # None /\ kind \in {"string"} \cup IntKinds =>
    \A i, j \in DOMAIN vec : i < j => NotAfter(vec[i].from, vec[j].from)

Kept == Sound /\ OwnKeys /\ InOrder /\ NothingSkipped /\ KeysFound

(* OwnKeys and InOrder only look at the vector.                            *)
LEMMA OrderKept ==
  ASSUME OwnKeys, InOrder, UNCHANGED <<kind, vec>>
  PROVE  OwnKeys' /\ InOrder'
BY DEF OwnKeys, InOrder, NotAfter

(* The object form writes in the order of keys.                            *)
LEMMA ObjectInOrder ==
  ASSUME Sound, WriteObject
  PROVE  OwnKeys' /\ InOrder'
<1>1. PICK s \in SortedKeys(ObjectKeys) :
        /\ DOMAIN vec' = DOMAIN s
        /\ \A i \in DOMAIN s : s[i] \in ObjectKeys /\ vec'[i].from = s[i]
  BY ObjectIsGood
<1>2. kind' = kind
  BY DEF WriteObject
<1>3. kind \in IntKinds => kind # "string"
  BY DEF IntKinds
<1>4. OwnKeys'
  BY <1>1, <1>2, <1>3 DEF OwnKeys, ObjectKeys
<1>5. \A i, j \in DOMAIN s : i < j => Before(s[i], s[j])
  BY <1>1 DEF SortedKeys, Ordered
<1>6. ASSUME NEW t \in ObjectKeys, NEW u \in ObjectKeys, Before(t, u)
      PROVE  NotAfter(t, u)
  <2>1. t \in Nat /\ u \in Nat
    BY KeyAssumption DEF ObjectKeys
  <2>2. kind \in IntKinds => Number[t] \in Int /\ Number[u] \in Int
    BY AcceptedKeys DEF ObjectKeys
  <2> QED
    BY <1>6, <2>1, <2>2 DEF Before, NotAfter
<1>7. \A i, j \in DOMAIN s : i < j => NotAfter(s[i], s[j])
  BY <1>1, <1>5, <1>6
<1>8. InOrder'
  BY <1>1, <1>2, <1>7 DEF InOrder, NotAfter
<1> QED
  BY <1>4, <1>8

(* A sorted array is in the order of keys.                                 *)
LEMMA ArrayInOrder ==
  ASSUME Contract, WriteArray
  PROVE  OwnKeys' /\ InOrder'
<1>1. PICK s \in Tuples(ArrayKeys) :
        /\ Ordered(s, NotAfter)
        /\ DOMAIN vec' = DOMAIN s
        /\ \A i \in DOMAIN s : s[i] \in ArrayKeys /\ vec'[i].from = s[i]
  BY ArrayIsGood DEF Contract
<1>2. kind' = kind
  BY DEF WriteArray
<1>3. kind \in IntKinds => \A t \in ArrayKeys : Number[t] \in Written
  BY KeyAssumption DEF ArrayKeys
<1> QED
  BY <1>1, <1>2, <1>3 DEF OwnKeys, InOrder, NotAfter, Ordered

(* So is a vector that went through JSON.                                  *)
LEMMA ReloadInOrder ==
  ASSUME Sound, OwnKeys, InOrder, Reload
  PROVE  OwnKeys' /\ InOrder'
<1>1. CASE kind = "keyless"
  BY <1>1, OrderKept DEF Reload
<1>2. CASE kind # "keyless"
  <2>1. kind' = kind /\ vec # None
    BY DEF Reload
  <2>2. PICK s \in SortedKeys(Members) : \E e \in [DOMAIN s -> DOMAIN vec] :
          /\ DOMAIN vec' = DOMAIN s
          /\ \A i \in DOMAIN s :
               /\ s[i] \in Texts
               /\ vec'[i].from = vec[e[i]].from
               /\ kind \in IntKinds => Number[vec[e[i]].from] = Number[s[i]]
               /\ kind \notin IntKinds => vec[e[i]].from = s[i]
    BY <1>2, ReloadIsGood
  <2>3. PICK e \in [DOMAIN s -> DOMAIN vec] :
          /\ DOMAIN vec' = DOMAIN s
          /\ \A i \in DOMAIN s :
               /\ s[i] \in Texts
               /\ vec'[i].from = vec[e[i]].from
               /\ kind \in IntKinds => Number[vec[e[i]].from] = Number[s[i]]
               /\ kind \notin IntKinds => vec[e[i]].from = s[i]
    BY <2>2
  <2>4. OwnKeys'
    BY <2>1, <2>3 DEF OwnKeys
  <2>5. \A i, j \in DOMAIN s : i < j => Before(s[i], s[j])
    BY <2>2 DEF SortedKeys, Ordered
  <2>6. ASSUME NEW i \in DOMAIN s, NEW j \in DOMAIN s, i < j, kind \in {"string"} \cup IntKinds
        PROVE  NotAfter(vec'[i].from, vec'[j].from)
    <3>1. Before(s[i], s[j])
      BY <2>5, <2>6
    <3>2. CASE kind \in IntKinds
      <4>1. Number[s[i]] \in Written /\ Number[s[j]] \in Written
        BY <2>1, <2>3, <3>2 DEF OwnKeys
      <4>2. Number[s[i]] \in Int /\ Number[s[j]] \in Int
        BY <4>1, WrittenIsInt
      <4> QED
        BY <2>3, <3>1, <3>2, <4>2 DEF Before, NotAfter
    <3>3. CASE kind \notin IntKinds
      <4>1. s[i] \in Nat /\ s[j] \in Nat
        BY <2>3, KeyAssumption
      <4> QED
        BY <2>3, <3>1, <3>3, <4>1 DEF Before, NotAfter
    <3> QED
      BY <3>2, <3>3
  <2>7. InOrder'
    BY <2>1, <2>3, <2>6 DEF InOrder, NotAfter
  <2> QED
    BY <2>4, <2>7
<1> QED
  BY <1>1, <1>2

-----------------------------------------------------------------------------
(* On the author's side of an element of a vector that keeps to the        *)
(* contract: the three ways the bisect can go tell where its key is.       *)
LEMMA WhatIsLess ==
  ASSUME Contract, Sound, OwnKeys, vec # None, NEW i \in 1 .. Len(vec),
         kind \in IntKinds
  PROVE  /\ Number[vec[i].from] \in Int
         /\ ParseI64(vec[i].reads) = Number[vec[i].from]
         /\ ParseI64(vec[i].reads) # None
<1>1. DOMAIN vec = 1 .. Len(vec) /\ vec[i].from \in Texts
  BY VecIsSeq DEF Sound
<1>2. /\ Number[vec[i].from] \in Written
      /\ vec[i].reads = Stored(vec[i].from)
  BY <1>1 DEF Sound, GoodEntries, OwnKeys
<1>3. /\ Number[vec[i].from] \in I64Min .. I64Max
      /\ Number[vec[i].from] \in I64Min .. U64Max
      /\ Number[vec[i].from] # Default
  BY <1>2, KeyAssumption DEF Contract
<1>4. /\ vec[i].reads = Decimal[Number[vec[i].from]]
      /\ Number[vec[i].reads] = Number[vec[i].from]
  BY <1>2, <1>3, KeyAssumption DEF Stored
<1>5. Number[vec[i].from] \in Int
  BY <1>2, WrittenIsInt
<1>6. ParseI64(vec[i].reads) = Number[vec[i].from]
  BY <1>3, <1>4 DEF ParseI64
<1> QED
  BY <1>5, <1>6, KeyAssumption

(* What the key of a running bisect is.                                    *)
LEMMA SoughtKey ==
  ASSUME Sound, kind \in IntKinds, ~Unmatchable(key)
  PROVE  ParseI64(key) \in Int /\ ParseI64(key) = Number[key]
<1>1. Number[key] \in I64Min .. I64Max /\ ParseI64(key) = Number[key]
  BY DEF Unmatchable, ParseI64
<1> QED
  BY <1>1, KeyAssumption

(* Left of an element that reads as less, and right of one that reads as   *)
(* greater, no element was written under the key.                          *)
LEMMA OutOfRange ==
  ASSUME Contract, Sound, OwnKeys, InOrder, status = "bisect",
         NEW m \in 1 .. Len(vec), NEW i \in 1 .. Len(vec), Same(vec[i].from, key)
  PROVE  /\ IsLess(vec[m].reads, key) => m < i
         /\ ~IsLess(vec[m].reads, key) /\ ~IsEqual(vec[m].reads, key) => i < m
<1>1. /\ vec # None /\ kind # "keyless" /\ kind # "float" /\ ~Unmatchable(key)
      /\ key \in Texts
  BY DEF Sound, TypeOK, LookupLegal, Busy
<1>2. /\ DOMAIN vec = 1 .. Len(vec) /\ Len(vec) \in Nat
      /\ \A j \in 1 .. Len(vec) : vec[j].from \in Texts
  BY <1>1, VecIsSeq DEF Sound
<1>3. m \in Nat /\ i \in Nat
  BY <1>2
<1>4. CASE kind = "string"
  <2>1. vec[i].from = key /\ vec[m].reads = vec[m].from
    BY <1>1, <1>2, <1>4 DEF Same, Sound, GoodEntries, IntKinds
  <2>2. key \in Nat /\ vec[m].from \in Nat
    BY <1>1, <1>2, KeyAssumption
  <2>3. /\ i < m => vec[i].from <= vec[m].from
        /\ m < i => vec[m].from <= vec[i].from
    BY <1>1, <1>2, <1>4 DEF InOrder, NotAfter, IntKinds
  <2>4. /\ IsLess(vec[m].reads, key) <=> vec[m].from < key
        /\ IsEqual(vec[m].reads, key) <=> vec[m].from = key
    BY <1>4, <2>1 DEF IsLess, IsEqual
  <2> QED
    BY <1>3, <2>1, <2>2, <2>3, <2>4
<1>5. CASE kind \in IntKinds /\ kind # "string"
  <2>1. /\ Number[vec[m].from] \in Int
        /\ ParseI64(vec[m].reads) = Number[vec[m].from]
        /\ ParseI64(vec[m].reads) # None
    BY <1>1, <1>5, WhatIsLess
  <2>2. ParseI64(key) \in Int /\ Number[vec[i].from] = ParseI64(key)
    BY <1>1, <1>5, SoughtKey DEF Same
  <2>3. /\ i < m => Number[vec[i].from] <= Number[vec[m].from]
        /\ m < i => Number[vec[m].from] <= Number[vec[i].from]
    BY <1>1, <1>2, <1>5 DEF InOrder, NotAfter
  <2>4. /\ IsLess(vec[m].reads, key) <=> Number[vec[m].from] < ParseI64(key)
        /\ IsEqual(vec[m].reads, key) <=> Number[vec[m].from] = ParseI64(key)
    BY <1>5, <2>1 DEF IsLess, IsEqual
  <2> QED
    BY <1>3, <2>1, <2>2, <2>3, <2>4
<1> QED
  BY <1>1, <1>4, <1>5, SearchedKinds

(* An element that the scan passes over was not written under the key.     *)
LEMMA PassedOver ==
  ASSUME Contract, Sound, OwnKeys, status = "scan", NEW i \in 1 .. Len(vec),
         kind # "float", Same(vec[i].from, key)
  PROVE  Matches(vec[i].reads, key)
<1>1. vec # None /\ kind # "keyless"
  BY DEF Sound, TypeOK, LookupLegal, Busy
<1>2. DOMAIN vec = 1 .. Len(vec)
  BY <1>1, VecIsSeq DEF Sound
<1>3. CASE kind = "string"
  BY <1>1, <1>2, <1>3 DEF Same, Matches, Sound, GoodEntries, IntKinds
<1>4. CASE kind \in IntKinds /\ kind # "string"
  <2>1. ParseI64(vec[i].reads) = Number[vec[i].from]
    BY <1>1, <1>4, WhatIsLess
  <2>2. ParseI64(key) # None /\ Number[vec[i].from] = ParseI64(key)
    BY <1>4 DEF Same, ParseI64
  <2> QED
    BY <1>4, <2>1, <2>2 DEF Matches
<1> QED
  BY <1>1, <1>3, <1>4, SearchedKinds

-----------------------------------------------------------------------------
(* A step of a lookup rules out no element written under the key, and      *)
(* misses only when all are ruled out.                                     *)
LEMMA StepSkipsNothing ==
  ASSUME Contract, Kept, Step
  PROVE  NothingSkipped' /\ KeysFound'
<1>1. /\ UNCHANGED <<kind, vec, key>>
      /\ Busy /\ vec # None /\ hi <= Len(vec) /\ kind # "keyless"
  BY StepKeepsSound DEF Kept, Sound, TypeOK, LookupLegal, Busy, Step, BisectHit,
     BisectRight, BisectLeft, BisectMiss, ScanElement, ScanMiss
<1>2. /\ Len(vec) \in Nat /\ lo \in Nat /\ hi \in Nat
      /\ DOMAIN vec = 1 .. Len(vec)
  BY <1>1, VecIsSeq DEF Kept, Sound, TypeOK
<1>3. ASSUME NEW i \in 1 .. Len(vec), Same(vec[i].from, key)
      PROVE  lo < i /\ (status = "bisect" => i <= hi)
  BY <1>1, <1>2, <1>3 DEF Kept, NothingSkipped
<1>4. DOMAIN vec' = 1 .. Len(vec) /\ vec' = vec /\ kind' = kind /\ key' = key
  BY <1>1, <1>2
<1>5. SUFFICES ASSUME NEW i \in 1 .. Len(vec), Same(vec[i].from, key)
               PROVE  /\ status' = "bisect" => lo' < i /\ i <= hi'
                      /\ status' = "scan" => lo' < i
                      /\ status' # "miss"
  BY <1>4 DEF NothingSkipped, KeysFound, Busy, Same, ParseI64
<1>6. i \in Nat
  BY <1>2
<1>7. CASE BisectHit
  BY <1>7 DEF BisectHit
<1>8. CASE BisectRight \/ BisectLeft
  <2>1. status = "bisect" /\ lo < hi /\ status' = "bisect"
    BY <1>8 DEF BisectRight, BisectLeft
  <2>2. Mid \in Nat /\ lo <= Mid /\ Mid < hi
    BY <2>1, MidInRange DEF Kept, Sound
  <2>3. Mid + 1 \in 1 .. Len(vec)
    BY <1>1, <1>2, <2>2
  <2>4. /\ IsLess(vec[Mid + 1].reads, key) => Mid + 1 < i
        /\ ~IsLess(vec[Mid + 1].reads, key) /\ ~IsEqual(vec[Mid + 1].reads, key)
             => i < Mid + 1
    BY <1>5, <2>1, <2>3, OutOfRange DEF Kept
  <2>5. CASE BisectRight
    <3>1. lo' = Mid + 1 /\ hi' = hi /\ IsLess(vec[Mid + 1].reads, key)
      BY <2>5 DEF BisectRight, Actual
    <3> QED
      BY <1>3, <1>5, <2>1, <2>4, <3>1
  <2>6. CASE BisectLeft
    <3>1. lo' = lo /\ hi' = Mid /\ i < Mid + 1
      BY <2>4, <2>6 DEF BisectLeft, Actual
    <3> QED
      BY <1>3, <1>5, <1>6, <2>1, <2>2, <3>1
  <2> QED
    BY <1>8, <2>5, <2>6
<1>9. CASE BisectMiss
  BY <1>2, <1>3, <1>5, <1>6, <1>9 DEF BisectMiss
<1>10. CASE ScanMiss
  BY <1>2, <1>3, <1>5, <1>6, <1>10 DEF ScanMiss
<1>11. CASE ScanElement
  <2>1. status = "scan" /\ lo < Len(vec) /\ lo < i
    BY <1>3, <1>5, <1>11 DEF ScanElement
  <2>2. CASE status' # "scan"
    BY <2>1, <2>2, <1>11 DEF ScanElement, Answer
  <2>3. CASE status' = "scan"
    <3>1. kind # "float" /\ lo' = lo + 1 /\ ~Matches(vec[lo + 1].reads, key)
      BY <1>11, <2>3 DEF ScanElement, Answer, Actual
    <3>2. Matches(vec[i].reads, key)
      BY <1>5, <2>1, <3>1, PassedOver DEF Kept
    <3>3. i # lo + 1
      BY <3>1, <3>2
    <3> QED
      BY <1>2, <1>6, <2>1, <2>3, <3>1, <3>3
  <2> QED
    BY <2>2, <2>3
<1> QED
  BY <1>7, <1>8, <1>9, <1>10, <1>11 DEF Step

(* A lookup starts with every element of the vector ahead of it.           *)
LEMMA CallSkipsNothing ==
  ASSUME Kept, NEW k \in Texts, NEW hasTail \in BOOLEAN,
         Refuse(k, hasTail) \/ LookupAbsent(k) \/ StartBisect(k) \/ StartScan(k)
  PROVE  NothingSkipped' /\ KeysFound'
<1>1. /\ UNCHANGED <<kind, vec>> /\ key' = k /\ lo' = 0
      /\ status' \in {"bisect", "scan", "miss", "error"}
      /\ status' = "bisect" => hi' = Len(vec)
      /\ status' = "miss" => vec = None \/ Unmatchable(k)
      /\ Sound'
  BY CallKeepsSound DEF Kept
<1>2. NothingSkipped'
  <2> SUFFICES ASSUME Busy', NEW i \in DOMAIN vec
               PROVE  0 < i /\ i <= Len(vec)
    BY <1>1 DEF NothingSkipped, Busy
  <2>1. vec # None
    BY <1>1 DEF Sound, TypeOK
  <2>2. Len(vec) \in Nat /\ DOMAIN vec = 1 .. Len(vec)
    BY <2>1, VecIsSeq DEF Kept, Sound
  <2> QED
    BY <2>2
<1>3. KeysFound'
  <2> SUFFICES ASSUME status' = "miss", vec # None, NEW t
               PROVE  ~Same(t, key)'
    BY <1>1 DEF KeysFound, Same, ParseI64
  <2>1. kind \in IntKinds /\ ParseI64(k) = None
    BY <1>1 DEF Unmatchable
  <2> QED
    BY <1>1, <2>1 DEF Same, ParseI64, IntKinds
<1> QED
  BY <1>2, <1>3

(* No lookup is running, and the last call was no lookup that missed.      *)
LEMMA QuietSkipsNothing ==
  ASSUME status' \in {"idle", "error"}
  PROVE  NothingSkipped' /\ KeysFound'
BY DEF NothingSkipped, KeysFound, Busy

(* Kept is inductive for vectors that keep to the contract.                *)
LEMMA KeptNext == ASSUME Contract PROVE Kept /\ [Next]_vars => Kept'
<1> SUFFICES ASSUME Kept, [Next]_vars
             PROVE  OwnKeys' /\ InOrder' /\ NothingSkipped' /\ KeysFound'
  BY SoundNext DEF Kept
<1> USE DEF Kept
<1>1. CASE WriteObject \/ WriteArray
  BY <1>1, ObjectInOrder, ArrayInOrder, WriteKeepsSound, QuietSkipsNothing
<1>2. CASE Reload
  BY <1>2, ReloadInOrder, ReloadKeepsSound, QuietSkipsNothing
<1>3. CASE RejectObject \/ RejectReload
  <2>1. UNCHANGED <<kind, vec>>
    BY <1>3 DEF RejectObject, RejectReload
  <2> QED
    BY <1>3, <2>1, OrderKept, RejectKeepsSound, QuietSkipsNothing
<1>4. CASE \E k \in Texts : \/ \E hasTail \in BOOLEAN : Refuse(k, hasTail)
                            \/ LookupAbsent(k) \/ StartBisect(k) \/ StartScan(k)
  <2>1. PICK k \in Texts, hasTail \in BOOLEAN :
          Refuse(k, hasTail) \/ LookupAbsent(k) \/ StartBisect(k) \/ StartScan(k)
    BY <1>4
  <2> QED
    BY <2>1, CallKeepsSound, CallSkipsNothing, OrderKept
<1>5. CASE Step
  BY <1>5, StepKeepsSound, StepSkipsNothing, OrderKept
<1>6. CASE UNCHANGED vars
  <2>1. OwnKeys' /\ InOrder'
    BY <1>6, OrderKept DEF vars
  <2>2. NothingSkipped' /\ KeysFound'
    BY <1>6 DEF NothingSkipped, KeysFound, Same, ParseI64, Busy, vars
  <2> QED
    BY <2>1, <2>2
<1> QED
  BY <1>1, <1>2, <1>3, <1>4, <1>5, <1>6 DEF Next

(* Initially there is nothing to find.                                     *)
LEMMA KeptInit == Init => Kept
BY SoundInit DEF Init, Kept, OwnKeys, InOrder, NothingSkipped, KeysFound, Busy

(* In a vector that keeps to the (key) contract, with no key equal to the  *)
(* default or beyond i64, both modes of lookup find every key written.     *)
THEOREM EveryKeyFound == ASSUME Contract PROVE Spec => []KeysFound
<1>1. Kept /\ [Next]_vars => Kept'
  BY KeptNext
<1>2. Kept => KeysFound
  BY DEF Kept
<1> QED
  BY <1>1, <1>2, KeptInit, PTL DEF Spec

(* And no lookup in progress has ruled out the element it looks for.       *)
THEOREM BisectSkipsNothing == ASSUME Contract PROVE Spec => []NothingSkipped
<1>1. Kept /\ [Next]_vars => Kept'
  BY KeptNext
<1>2. Kept => NothingSkipped
  BY DEF Kept
<1> QED
  BY <1>1, <1>2, KeptInit, PTL DEF Spec

-----------------------------------------------------------------------------
(* A contract under which vectors go through JSON unchanged: of the kinds  *)
(* of keyed vector, enum keys come back as numbers and float keys not at   *)
(* all.                                                                    *)
Printable == Contract /\ Kinds \subseteq {"string", "long", "ulong", "keyless"}

(* The integer keys on the wire are in range of their field.               *)
InRange ==
  vec # None /\ kind \in IntKinds => \A i \in DOMAIN vec : Fits(Number[vec[i].from])

(* The object form takes integers that fit, and the array form's elements  *)
(* and those of a vector that went through JSON hold none but such.        *)
LEMMA InRangeNext == ASSUME Kept, InRange, [Next]_vars PROVE InRange'
<1>1. kind' = kind
  BY DEF Next, WriteObject, RejectObject, WriteArray, Reload, RejectReload, Refuse,
     LookupAbsent, StartBisect, StartScan, Called, Step, BisectHit, BisectRight,
     BisectLeft, BisectMiss, ScanElement, ScanMiss, Answer, vars
<1>2. \A n : Fits(n)' <=> Fits(n)
  BY <1>1 DEF Fits
<1>3. CASE vec' = vec
  BY <1>1, <1>2, <1>3 DEF InRange
<1>4. CASE WriteObject
  <2>1. PICK s \in SortedKeys(ObjectKeys) :
          /\ DOMAIN vec' = DOMAIN s
          /\ \A i \in DOMAIN s : s[i] \in ObjectKeys /\ vec'[i].from = s[i]
    BY <1>4, ObjectIsGood
  <2>2. ASSUME kind \in IntKinds, NEW t \in ObjectKeys
        PROVE  Fits(Number[t])
    <3>1. t \in Texts /\ Accepts(t)
      BY DEF ObjectKeys
    <3>2. ParseI64(t) = Number[t]
      BY <2>2, <3>1, AcceptedKeys
    <3> QED
      BY <2>2, <3>1, <3>2 DEF Accepts, IntKinds
  <2> QED
    BY <1>1, <1>2, <2>1, <2>2 DEF InRange
<1>5. CASE WriteArray
  <2>1. PICK s \in Tuples(ArrayKeys) :
          /\ DOMAIN vec' = DOMAIN s
          /\ \A i \in DOMAIN s : s[i] \in ArrayKeys /\ vec'[i].from = s[i]
    BY <1>5, ArrayIsGood
  <2>2. kind \in IntKinds => \A t \in ArrayKeys : Fits(Number[t])
    BY KeyAssumption DEF ArrayKeys
  <2> QED
    BY <1>1, <1>2, <2>1, <2>2 DEF InRange
<1>6. CASE Reload /\ kind # "keyless"
  <2>1. vec # None
    BY <1>6 DEF Reload
  <2>2. PICK s \in SortedKeys(Members) : \E e \in [DOMAIN s -> DOMAIN vec] :
          /\ DOMAIN vec' = DOMAIN s
          /\ \A i \in DOMAIN s : vec'[i].from = vec[e[i]].from
    BY <1>6, ReloadIsGood DEF Kept
  <2> QED
    BY <1>1, <1>2, <2>1, <2>2 DEF InRange
<1>7. Next => vec' = vec \/ WriteObject \/ WriteArray \/ (Reload /\ kind # "keyless")
  BY DEF Next, RejectObject, Reload, RejectReload, Refuse, LookupAbsent, StartBisect,
     StartScan, Called, Step, BisectHit, BisectRight, BisectLeft, BisectMiss,
     ScanElement, ScanMiss, Answer
<1> QED
  BY <1>3, <1>4, <1>5, <1>6, <1>7 DEF vars

(* A strict order, a sequence of length n that it sorts, and a sequence    *)
(* whose elements are all among those of another.                          *)
Asymmetric(R) == \A x, y : <<x, y>> \in R => <<y, x>> \notin R
SortedBy(s, n, R) == \A i, j \in 1 .. n : i < j => <<s[i], s[j]>> \in R
Among(s, n, r, m) == \A i \in 1 .. n : \E k \in 1 .. m : r[k] = s[i]

(* Two sequences that one strict order sorts and that have the same        *)
(* elements are the same: at the first index where they differ each would  *)
(* have to hold an element that comes later in the other.                  *)
LEMMA SortedOnce ==
  ASSUME NEW m \in Nat, NEW n \in Nat, NEW r, NEW s, NEW R, Asymmetric(R),
         SortedBy(r, m, R), SortedBy(s, n, R), Among(r, m, s, n), Among(s, n, r, m)
  PROVE  m = n /\ \A i \in 1 .. m : r[i] = s[i]
<1> USE DEF Asymmetric, SortedBy, Among
<1> DEFINE Agree(i) == /\ i \in 1 .. m <=> i \in 1 .. n
                       /\ i \in 1 .. m => r[i] = s[i]
           G == {i \in Nat : Agree(i)}
<1>1. ASSUME NEW i \in Nat, \A k \in Nat : k < i => k \in G
      PROVE  i \in G
  <2>1. ASSUME i \in 1 .. m
        PROVE  \E k \in 1 .. n : k >= i /\ s[k] = r[i]
    <3>1. PICK k \in 1 .. n : s[k] = r[i]
      BY <2>1
    <3>2. ASSUME k < i
          PROVE  FALSE
      <4>1. k \in G /\ k \in Nat
        BY <1>1, <3>2
      <4>2. k \in 1 .. m /\ r[k] = s[k]
        BY <4>1
      <4>3. <<r[k], r[i]>> \in R
        BY <2>1, <3>2, <4>2
      <4> QED
        BY <3>1, <4>2, <4>3
    <3> QED
      BY <3>1, <3>2
  <2>2. ASSUME i \in 1 .. n
        PROVE  \E k \in 1 .. m : k >= i /\ r[k] = s[i]
    <3>1. PICK k \in 1 .. m : r[k] = s[i]
      BY <2>2
    <3>2. ASSUME k < i
          PROVE  FALSE
      <4>1. k \in G /\ k \in Nat
        BY <1>1, <3>2
      <4>2. k \in 1 .. n /\ r[k] = s[k]
        BY <4>1
      <4>3. <<s[k], s[i]>> \in R
        BY <2>2, <3>2, <4>2
      <4> QED
        BY <3>1, <4>2, <4>3
    <3> QED
      BY <3>1, <3>2
  <2>3. i \in 1 .. m <=> i \in 1 .. n
    BY <2>1, <2>2
  <2>4. ASSUME i \in 1 .. m
        PROVE  r[i] = s[i]
    <3>1. PICK k \in 1 .. n : k >= i /\ s[k] = r[i]
      BY <2>1, <2>4
    <3>2. PICK l \in 1 .. m : l >= i /\ r[l] = s[i]
      BY <2>2, <2>3, <2>4
    <3>3. i < k => <<s[i], r[i]>> \in R
      BY <2>3, <2>4, <3>1
    <3>4. i < l => <<r[i], s[i]>> \in R
      BY <2>4, <3>2
    <3>5. k = i \/ l = i \/ (i < k /\ i < l)
      BY <3>1, <3>2
    <3> QED
      BY <3>1, <3>2, <3>3, <3>4, <3>5
  <2> QED
    BY <2>3, <2>4
<1> HIDE DEF G
<1>2. Nat \subseteq G
  BY <1>1, AllNaturals
<1>3. \A i \in Nat : Agree(i)
  BY <1>2 DEF G
<1>4. m = n
  <2>1. m # 0 => m <= n
    <3>1. Agree(m)
      BY <1>3
    <3>2. m # 0 => m \in 1 .. m
      OBVIOUS
    <3> QED
      BY <3>1, <3>2
  <2>2. n # 0 => n <= m
    <3>1. Agree(n)
      BY <1>3
    <3>2. n # 0 => n \in 1 .. n
      OBVIOUS
    <3> QED
      BY <3>1, <3>2
  <2> QED
    BY <2>1, <2>2
<1> QED
  BY <1>3, <1>4

(* The keys of a vector that keeps to the contract and has them distinct   *)
(* are in the order of the sort, and are what is stored for themselves.    *)
LEMMA ReadsInOrder ==
  ASSUME Printable, Kept, vec # None, DistinctKeys, kind # "keyless",
         NEW i \in 1 .. Len(vec)
  PROVE  /\ vec[i].reads \in Texts
         /\ Stored(vec[i].reads) = vec[i].reads
         /\ \A j \in 1 .. Len(vec) : i < j => Before(vec[i].reads, vec[j].reads)
<1>1. /\ DOMAIN vec = 1 .. Len(vec) /\ Len(vec) \in Nat
      /\ \A j \in 1 .. Len(vec) : vec[j].from \in Texts /\ vec[j].reads \in Texts
  BY VecIsSeq DEF Kept, Sound
<1>2. kind \in {"string"} \cup IntKinds
  BY DEF Printable, Kept, Sound, TypeOK, IntKinds
<1>3. ASSUME NEW j \in 1 .. Len(vec), i < j
      PROVE  /\ vec[i].reads # vec[j].reads
             /\ NotAfter(vec[i].from, vec[j].from)
  <2>1. i # j
    BY <1>1, <1>3
  <2> QED
    BY <1>1, <1>2, <1>3, <2>1 DEF DistinctKeys, Kept, InOrder
<1>4. CASE kind \notin IntKinds
  <2>1. \A j \in 1 .. Len(vec) : vec[j].reads = vec[j].from /\ vec[j].from \in Nat
    BY <1>1, <1>4, KeyAssumption DEF Kept, Sound, GoodEntries
  <2> QED
    BY <1>1, <1>3, <1>4, <2>1 DEF Stored, NotAfter, Before
<1>5. CASE kind \in IntKinds
  <2>1. ASSUME NEW j \in 1 .. Len(vec)
        PROVE  /\ Number[vec[j].from] \in Int
               /\ Number[vec[j].from] # Default
               /\ vec[j].reads = Decimal[Number[vec[j].from]]
               /\ Number[vec[j].reads] = Number[vec[j].from]
    <3>1. /\ Number[vec[j].from] \in Written
          /\ vec[j].reads = Stored(vec[j].from)
      BY <1>1, <1>5 DEF Kept, Sound, GoodEntries, OwnKeys
    <3>2. Number[vec[j].from] \in I64Min .. U64Max /\ Number[vec[j].from] # Default
      BY <3>1, KeyAssumption DEF Printable, Contract
    <3> QED
      BY <1>5, <3>1, <3>2, WrittenIsInt, KeyAssumption DEF Stored
  <2>2. Stored(vec[i].reads) = vec[i].reads
    BY <1>5, <2>1 DEF Stored
  <2>3. ASSUME NEW j \in 1 .. Len(vec), i < j
        PROVE  Number[vec[i].reads] < Number[vec[j].reads]
    <3>1. Number[vec[i].from] <= Number[vec[j].from]
      BY <1>3, <1>5, <2>3 DEF NotAfter
    <3>2. Number[vec[i].from] # Number[vec[j].from]
      BY <1>3, <2>1, <2>3
    <3> QED
      BY <2>1, <3>1, <3>2
  <2> QED
    BY <1>1, <1>5, <2>2, <2>3 DEF Before
<1> QED
  BY <1>4, <1>5

(* from_json accepts every member of the object that to_json makes.        *)
LEMMA PrintedIsAccepted ==
  ASSUME Printable, Kept, InRange, vec # None, kind # "keyless"
  PROVE  BodyAgrees /\ \A t \in Members : Accepts(t)
<1>1. kind \in {"string", "long", "ulong"}
  BY DEF Printable, Kept, Sound, TypeOK
<1>2. DOMAIN vec = 1 .. Len(vec)
  BY VecIsSeq DEF Kept, Sound
<1>3. ASSUME NEW i \in DOMAIN vec, kind \in IntKinds
      PROVE  Accepts(vec[i].reads)
  <2>1. /\ ParseI64(vec[i].reads) = Number[vec[i].from]
        /\ ParseI64(vec[i].reads) # None
    BY <1>2, <1>3, WhatIsLess DEF Printable, Kept
  <2> QED
    BY <1>3, <2>1 DEF InRange, Accepts
<1> QED
  BY <1>1, <1>3 DEF Members, BodyAgrees, Accepts, IntKinds

(* What from_json makes of that object is the vector it was made from.     *)
LEMMA ReloadGivesBack ==
  ASSUME Printable, Kept, Reload, DistinctKeys, kind # "keyless"
  PROVE  vec' = vec
<1>1. vec # None
  BY DEF Reload
<1>2. /\ DOMAIN vec = 1 .. Len(vec) /\ Len(vec) \in Nat
      /\ vec \in Seq(Entries)
  BY <1>1, VecIsSeq DEF Kept, Sound, TypeOK, Entries
<1>3. PICK s \in SortedKeys(Members) :
        /\ {s[i] : i \in DOMAIN s} = Members
        /\ \E e \in [DOMAIN s -> DOMAIN vec] :
             /\ \A i \in DOMAIN s : vec[e[i]].reads = s[i]
             /\ vec' = [i \in DOMAIN s |-> Entry(vec[e[i]].from, Stored(s[i]))]
  BY DEF Reload
<1>4. PICK e \in [DOMAIN s -> DOMAIN vec] :
        /\ \A i \in DOMAIN s : vec[e[i]].reads = s[i]
        /\ vec' = [i \in DOMAIN s |-> Entry(vec[e[i]].from, Stored(s[i]))]
  BY <1>3
<1>5. Len(s) \in Nat /\ DOMAIN s = 1 .. Len(s) /\ \A i \in DOMAIN s : s[i] \in Members
  <2>1. s \in Tuples(Members)
    BY <1>3 DEF SortedKeys
  <2> QED
    BY <2>1, TupleIsSeq
<1> DEFINE r == [i \in 1 .. Len(vec) |-> vec[i].reads]
           Known == {vec[i].reads : i \in 1 .. Len(vec)}
           R == {p \in Known \X Known : Before(p[1], p[2])}
<1>6. \A t \in Known : t \in Nat /\ (kind \in IntKinds => Number[t] \in Int)
  <2>1. ASSUME NEW i \in 1 .. Len(vec)
        PROVE  /\ vec[i].reads \in Nat
               /\ kind \in IntKinds => Number[vec[i].reads] \in Int
    <3>1. vec[i].reads \in Texts /\ Stored(vec[i].reads) = vec[i].reads
      BY <1>1, ReadsInOrder
    <3>2. vec[i].reads \in Nat
      BY <3>1, KeyAssumption
    <3>3. ASSUME kind \in IntKinds
          PROVE  Number[vec[i].reads] \in Int
      <4>1. ParseI64(vec[i].reads) # None
        BY <1>1, <3>3, WhatIsLess DEF Printable, Kept
      <4>2. Number[vec[i].reads] \in I64Min .. I64Max
        BY <4>1 DEF ParseI64
      <4> QED
        BY <4>2
    <3> QED
      BY <3>2, <3>3
  <2> QED
    BY <2>1
<1>7. Members = Known
  BY <1>2 DEF Members
<1>8. Asymmetric(R)
  <2> SUFFICES ASSUME NEW x, NEW y, <<x, y>> \in R, <<y, x>> \in R
               PROVE  FALSE
    BY DEF Asymmetric
  <2>1. x \in Known /\ y \in Known /\ Before(x, y) /\ Before(y, x)
    BY Zenon
  <2> HIDE DEF R, Known
  <2> QED
    BY <1>6, <2>1 DEF Before
<1>9. SortedBy(r, Len(vec), R)
  <2> SUFFICES ASSUME NEW i \in 1 .. Len(vec), NEW j \in 1 .. Len(vec), i < j
               PROVE  <<r[i], r[j]>> \in R
    BY DEF SortedBy
  <2>1. Before(vec[i].reads, vec[j].reads)
    BY <1>1, ReadsInOrder
  <2> QED
    BY <2>1
<1>10. SortedBy(s, Len(s), R)
  <2> SUFFICES ASSUME NEW i \in 1 .. Len(s), NEW j \in 1 .. Len(s), i < j
               PROVE  <<s[i], s[j]>> \in R
    BY DEF SortedBy
  <2>1. Before(s[i], s[j])
    BY <1>3, <1>5 DEF SortedKeys, Ordered
  <2> QED
    BY <1>5, <1>7, <2>1
<1>11. Among(r, Len(vec), s, Len(s)) /\ Among(s, Len(s), r, Len(vec))
  <2>1. {s[i] : i \in 1 .. Len(s)} = Known
    BY <1>3, <1>5, <1>7
  <2>2. ASSUME NEW i \in 1 .. Len(vec)
        PROVE  \E k \in 1 .. Len(s) : vec[i].reads = s[k]
    <3>1. vec[i].reads \in {s[k] : k \in 1 .. Len(s)}
      BY <2>1
    <3> QED
      BY <3>1
  <2>3. ASSUME NEW i \in 1 .. Len(s)
        PROVE  \E k \in 1 .. Len(vec) : s[i] = vec[k].reads
    BY <1>5, <1>7
  <2> QED
    BY <2>2, <2>3 DEF Among
<1> HIDE DEF r, R, Known
<1>12. Len(vec) = Len(s) /\ \A i \in 1 .. Len(vec) : r[i] = s[i]
  BY <1>2, <1>5, <1>8, <1>9, <1>10, <1>11, SortedOnce
<1>13. \A i \in 1 .. Len(vec) : e[i] = i
  BY <1>2, <1>4, <1>5, <1>12 DEF DistinctKeys, r
<1>14. ASSUME NEW i \in 1 .. Len(vec)
       PROVE  Entry(vec[e[i]].from, Stored(s[i])) = vec[i]
  <2>1. vec[i] \in Entries /\ Stored(vec[i].reads) = vec[i].reads
    BY <1>1, <1>2, ReadsInOrder
  <2> QED
    BY <1>12, <1>13, <2>1 DEF Entry, Entries, r
<1>15. vec' = [i \in 1 .. Len(vec) |-> vec[i]]
  BY <1>4, <1>5, <1>12, <1>14
<1> QED
  BY <1>2, <1>15

(* A vector that keeps to the (key) contract, with distinct keys, none     *)
(* equal to the default or beyond i64, comes back unchanged from to_json   *)
(* and from_json, and from_json refuses no such JSON.                      *)
THEOREM JsonGivesVectorsBack == ASSUME Printable PROVE Spec => JsonRoundTrips
<1>1. Init => Kept /\ InRange
  BY KeptInit DEF Init, InRange
<1>2. Kept /\ InRange /\ [Next]_vars => Kept' /\ InRange'
  BY KeptNext, InRangeNext DEF Printable
<1>3. Kept /\ InRange /\ [Next]_vars =>
        [vec # None /\ DistinctKeys => vec' = vec /\ ~RejectReload]_vars
  <2> SUFFICES ASSUME Kept, InRange, Next, vec # None, DistinctKeys
               PROVE  vec' = vec /\ ~RejectReload
    OBVIOUS
  <2>1. ~RejectReload
    BY PrintedIsAccepted DEF RejectReload
  <2>2. Next => vec' = vec \/ (Reload /\ kind # "keyless")
    BY DEF Next, WriteObject, WriteArray, RejectObject, Reload, RejectReload, Refuse,
       LookupAbsent, StartBisect, StartScan, Called, Step, BisectHit, BisectRight,
       BisectLeft, BisectMiss, ScanElement, ScanMiss, Answer
  <2> QED
    BY <2>1, <2>2, ReloadGivesBack
<1> QED
  BY <1>1, <1>2, <1>3, PTL DEF Spec, JsonRoundTrips
=============================================================================
