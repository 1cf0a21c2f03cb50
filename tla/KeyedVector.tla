----------------------------- MODULE KeyedVector -----------------------------
(***************************************************************************)
(* A vector of tables with a (key) field: how from_json writes it, how a   *)
(* query looks an element up by key (map_key.rs), and how to_json and      *)
(* from_json carry it to JSON and back.                                    *)
(*                                                                         *)
(* A text is its rank in the order of strings. An element of the vector is *)
(* the key its author wrote (from) and what get_any_field_string says of   *)
(* its key field (reads), which is all that the query and to_json see.     *)
(***************************************************************************)
EXTENDS Integers, Sequences

CONSTANTS
  Texts,        \* the strings keys and lookups are made of, as their ranks
  Empty,        \* the empty string
  Number,       \* the integer a text spells, or None
  Decimal,      \* the text an integer is printed as
  I64Min, I64Max, U64Max,   \* ranges of i64 and u64
  Default,      \* schema default of an integer (key) field
  None,         \* absence of a value
  MaxElements,  \* bound: length of a vector
  Kinds,        \* of key fields in use, see Init
  Sources,      \* of vectors in use: JSON "object", JSON "array", "sorted" array
  Written       \* integers that authors use as keys

IntKinds == {"long", "ulong", "enum"}

ASSUME KeyAssumption ==
  /\ Texts \subseteq Nat
  /\ Empty \in Texts
  /\ {I64Min, I64Max, U64Max, Default} \subseteq Int
  /\ I64Min <= I64Max /\ I64Max <= U64Max
  /\ None \notin Int
  /\ Number \in [Texts -> Int \cup {None}]
  /\ Number[Empty] = None
  /\ Decimal \in [I64Min .. U64Max -> Texts]
  /\ \A n \in I64Min .. U64Max : Number[Decimal[n]] = n
  /\ MaxElements \in Nat
  /\ Kinds \subseteq {"string", "float", "keyless"} \cup IntKinds
  /\ Sources \subseteq {"object", "array", "sorted"}
  /\ Written \subseteq I64Min .. U64Max

VARIABLES
  kind,    \* type of the (key) field; "keyless": not a vector of keyed tables
  vec,     \* the vector, or None when the field is absent
  status,  \* "bisect" or "scan" during a lookup, else how the last call ended
  key,     \* key looked up
  lo, hi   \* bounds of the bisect; lo is the scan's index, and a hit's

vars == <<kind, vec, status, key, lo, hi>>

Busy == status \in {"bisect", "scan"}

(***************************************************************************)
(* Keys                                                                    *)
(***************************************************************************)
(* str::parse::<i64>. *)
ParseI64(t) == IF Number[t] \in I64Min .. I64Max THEN Number[t] ELSE None

(* Mutant of Matches: the scan compares formatted decimals. *)
MatchesText(actual, k) == actual = k

(* key_matches, for the kinds it supports. *)
Matches(actual, k) ==
  IF kind = "string" THEN actual = k
                     ELSE ParseI64(k) # None /\ ParseI64(actual) = ParseI64(k)

(* compare_actual_to_compiled says Less. *)
IsLess(actual, k) ==
  IF kind = "string" THEN actual < k
  ELSE ParseI64(actual) # None => ParseI64(actual) < ParseI64(k)

(* compare_actual_to_compiled says Equal. *)
IsEqual(actual, k) ==
  IF kind = "string" THEN actual = k ELSE ParseI64(actual) = ParseI64(k)

(* compile_key finds nothing to search for. *)
Unmatchable(k) == kind \in IntKinds /\ ParseI64(k) = None

(* An integer the key field can hold. *)
Fits(n) == n \in IF kind = "ulong" THEN 0 .. U64Max ELSE I64Min .. I64Max

(* What the key field written with key t reads as: a scalar equal to its   *)
(* default is not stored, and an absent field reads as the empty string.   *)
Stored(t) ==
  IF kind \notin IntKinds THEN t
  ELSE IF Number[t] = Default THEN Empty ELSE Decimal[Number[t]]

(* A key of a JSON object that from_json accepts for this key field. *)
Accepts(t) ==
  \/ kind = "string"
  \/ kind \in IntKinds /\ ParseI64(t) # None /\ Fits(ParseI64(t))

(***************************************************************************)
(* Writing                                                                 *)
(***************************************************************************)
(* The order of entries: a stable sort by key of a map ordered by text.    *)
Before(t, u) ==
  IF kind \in IntKinds
  THEN Number[t] < Number[u] \/ (Number[t] = Number[u] /\ t < u)
  ELSE t < u

(* The same, for arrays that a writer sorted: equal keys are in any order. *)
NotAfter(t, u) == IF kind \in IntKinds THEN Number[t] <= Number[u] ELSE t <= u

Tuples(S) == UNION {[1 .. n -> S] : n \in 0 .. MaxElements}

Ordered(s, Precedes(_, _)) ==
  \A i, j \in DOMAIN s : i < j => Precedes(s[i], s[j])

(* Mutant of SortedKeys: entries stay in the order of the JSON object. *)
UnsortedKeys(S) == {s \in Tuples(S) : Ordered(s, LAMBDA t, u : t < u)}

(* The keys of the JSON objects over S, in the order the sort gives them. *)
SortedKeys(S) == {s \in Tuples(S) : Ordered(s, Before)}

Entry(from, reads) == [from |-> from, reads |-> reads]

Init ==
  /\ kind \in Kinds
  /\ vec = None
  /\ status = "idle"
  /\ key = Empty
  /\ lo = 0 /\ hi = 0

(* The keys that the JSON objects in use have, of those that are accepted. *)
ObjectKeys == {t \in Texts : Accepts(t) /\ (kind = "string" \/ Number[t] \in Written)}

(* build_vector_of_keyed_tables_from_object. *)
WriteObject ==
  /\ "object" \in Sources /\ kind # "keyless" /\ vec = None /\ ~Busy
  /\ \E s \in SortedKeys(ObjectKeys) :
       vec' = [i \in DOMAIN s |-> Entry(s[i], Stored(s[i]))]
  /\ status' = "idle"
  /\ UNCHANGED <<kind, key, lo, hi>>

(* A key that is no integer, or none the field can hold, or an object for  *)
(* a field that takes none.                                                *)
RejectObject ==
  /\ "object" \in Sources /\ vec = None /\ ~Busy
  /\ \E t \in Texts : ~Accepts(t)
  /\ status' = "error"
  /\ UNCHANGED <<kind, vec, key, lo, hi>>

(* The keys that the objects of a JSON array hold. *)
ArrayKeys ==
  IF kind \in IntKinds THEN {Decimal[n] : n \in {m \in Written : Fits(m)}} ELSE Texts

(* build_vector, array form: elements in the order they are given. Also    *)
(* any other writer, which keeps to the (key) contract if it is "sorted".  *)
WriteArray ==
  /\ vec = None /\ ~Busy
  /\ \E s \in Tuples(ArrayKeys) :
       /\ "array" \in Sources \/ ("sorted" \in Sources /\ Ordered(s, NotAfter))
       /\ vec' = [i \in DOMAIN s |-> Entry(s[i], Stored(s[i]))]
  /\ status' = "idle"
  /\ UNCHANGED <<kind, key, lo, hi>>

(***************************************************************************)
(* JSON and back                                                           *)
(***************************************************************************)
(* Mutant of Members: the loop ends one element early. *)
MembersButLast == {vec[i].reads : i \in 1 .. Len(vec) - 1}

(* The members of the object to_json makes of the vector, the last element *)
(* with a key winning.                                                     *)
Members == {vec[i].reads : i \in DOMAIN vec}

IsLast(i) == \A j \in DOMAIN vec : j > i => vec[j].reads # vec[i].reads

(* The member's body repeats its key as the field's value, which must be   *)
(* the number that the member's name spells; an enum's is a name.          *)
BodyAgrees == kind # "enum"

Reload ==
  /\ vec # None /\ ~Busy
  /\ kind # "keyless" => BodyAgrees /\ \A t \in Members : Accepts(t)
  /\ IF kind = "keyless" THEN UNCHANGED vec
     ELSE \E s \in SortedKeys(Members) :
            /\ {s[i] : i \in DOMAIN s} = Members
            /\ \E e \in [DOMAIN s -> DOMAIN vec] :
                 /\ \A i \in DOMAIN s : IsLast(e[i]) /\ vec[e[i]].reads = s[i]
                 /\ vec' = [i \in DOMAIN s |-> Entry(vec[e[i]].from, Stored(s[i]))]
  /\ status' = "idle"
  /\ UNCHANGED <<kind, key, lo, hi>>

RejectReload ==
  /\ vec # None /\ ~Busy
  /\ kind # "keyless"
  /\ \E t \in Members : ~Accepts(t) \/ ~BodyAgrees
  /\ status' = "error"
  /\ UNCHANGED <<kind, vec, key, lo, hi>>

(***************************************************************************)
(* Looking up                                                              *)
(***************************************************************************)
Answer(s) == status' = s /\ UNCHANGED <<kind, vec, key, lo, hi>>

Called(k, s) ==
  /\ ~Busy
  /\ key' = k
  /\ status' = s
  /\ lo' = 0
  /\ hi' = IF vec = None THEN 0 ELSE Len(vec)
  /\ UNCHANGED <<kind, vec>>

(* Not a vector of keyed tables, or nothing follows the bracket. *)
Refuse(k, hasTail) ==
  /\ kind = "keyless" \/ ~hasTail
  /\ Called(k, "error")

LookupAbsent(k) ==
  /\ kind # "keyless" /\ vec = None
  /\ Called(k, "miss")

(* key_lookup_strict = on. *)
StartBisect(k) ==
  /\ kind # "keyless" /\ vec # None
  /\ \/ kind = "float" /\ Called(k, "error")
     \/ Unmatchable(k) /\ Called(k, "miss")
     \/ kind # "float" /\ ~Unmatchable(k) /\ Called(k, "bisect")

(* key_lookup_strict = off. *)
StartScan(k) ==
  /\ kind # "keyless" /\ vec # None
  /\ Called(k, "scan")

Mid == lo + (hi - lo) \div 2

Actual(i) == vec[i + 1].reads

BisectHit ==
  /\ status = "bisect" /\ lo < hi
  /\ IsEqual(Actual(Mid), key)
  /\ lo' = Mid
  /\ status' = "hit"
  /\ UNCHANGED <<kind, vec, key, hi>>

(* Mutant of BisectRight: the element just read stays in the range. *)
BisectStuck ==
  /\ status = "bisect" /\ lo < hi
  /\ IsLess(Actual(Mid), key)
  /\ lo' = Mid
  /\ UNCHANGED <<kind, vec, status, key, hi>>

BisectRight ==
  /\ status = "bisect" /\ lo < hi
  /\ IsLess(Actual(Mid), key)
  /\ lo' = Mid + 1
  /\ UNCHANGED <<kind, vec, status, key, hi>>

(* Mutant of BisectLeft: one element too many is left out. *)
BisectTooFarLeft ==
  /\ status = "bisect" /\ lo < hi
  /\ ~IsLess(Actual(Mid), key) /\ ~IsEqual(Actual(Mid), key)
  /\ hi' = Mid - 1
  /\ UNCHANGED <<kind, vec, status, key, lo>>

BisectLeft ==
  /\ status = "bisect" /\ lo < hi
  /\ ~IsLess(Actual(Mid), key) /\ ~IsEqual(Actual(Mid), key)
  /\ hi' = Mid
  /\ UNCHANGED <<kind, vec, status, key, lo>>

BisectMiss == status = "bisect" /\ lo >= hi /\ Answer("miss")

ScanElement ==
  /\ status = "scan" /\ lo < Len(vec)
  /\ \/ kind = "float" /\ Answer("error")
     \/ kind # "float" /\ Matches(Actual(lo), key) /\ Answer("hit")
     \/ /\ kind # "float" /\ ~Matches(Actual(lo), key)
        /\ lo' = lo + 1
        /\ UNCHANGED <<kind, vec, status, key, hi>>

ScanMiss == status = "scan" /\ lo >= Len(vec) /\ Answer("miss")

Step == BisectHit \/ BisectRight \/ BisectLeft \/ BisectMiss \/ ScanElement \/ ScanMiss

Next ==
  \/ WriteObject \/ RejectObject \/ WriteArray
  \/ Reload \/ RejectReload
  \/ \E k \in Texts :
       \/ \E hasTail \in BOOLEAN : Refuse(k, hasTail)
       \/ LookupAbsent(k) \/ StartBisect(k) \/ StartScan(k)
  \/ Step

Spec == Init /\ [][Next]_vars

(* A call that has begun runs on: nothing in it waits. *)
FairSpec == Spec /\ WF_vars(Step)

(***************************************************************************)
(* Properties                                                              *)
(***************************************************************************)
TypeOK ==
  /\ kind \in Kinds
  /\ vec \in {None} \cup Seq([from : Texts, reads : Texts])
  /\ status \in {"idle", "bisect", "scan", "hit", "miss", "error"}
  /\ key \in Texts
  /\ lo \in Nat /\ hi \in Nat
  /\ Busy => vec # None /\ hi <= Len(vec) /\ lo <= Len(vec)

(* What authors and readers of a key mean by equal: the same string, or    *)
(* the same integer.                                                       *)
Same(t, k) == IF kind = "string" THEN t = k ELSE ParseI64(k) # None /\ Number[t] = Number[k]

(* Whatever the order of the vector, and in both modes, the element a      *)
(* lookup answers from is one that was written under the key asked for.    *)
HitIsRight == status = "hit" => lo \in 0 .. Len(vec) - 1 /\ Same(vec[lo + 1].from, key)

(* In both modes a lookup misses only if no element was written under the  *)
(* key asked for.                                                          *)
KeysFound ==
  status = "miss" /\ vec # None => \A i \in DOMAIN vec : ~Same(vec[i].from, key)

(* The elements that a lookup in progress has ruled out were not written   *)
(* under the key asked for.                                                *)
NothingSkipped ==
  Busy => \A i \in DOMAIN vec :
    Same(vec[i].from, key) => lo < i /\ (status = "bisect" => i <= hi)

(* to_json.rs:460-461 calls a vector with equal keys malformed.            *)
DistinctKeys == \A i, j \in DOMAIN vec : vec[i].reads = vec[j].reads => i = j

(* Turning the vector to JSON and back gives the same vector again, and    *)
(* from_json accepts whatever to_json writes.                              *)
JsonRoundTrips == [][vec # None /\ DistinctKeys => vec' = vec /\ ~RejectReload]_vars

(* Every lookup comes to an end. *)
LookupEnds == Busy ~> ~Busy
=============================================================================
