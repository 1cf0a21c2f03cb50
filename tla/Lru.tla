-------------------------------- MODULE Lru --------------------------------
(***************************************************************************)
(* The bounded least-recently-used map of the `lru` crate, as far as       *)
(* schema_cache.rs uses it: get, put and clear.                            *)
(*                                                                         *)
(* A cache is a record: entry maps every key to the value held for it, or  *)
(* to None; older is the recency list, as the strict order it stands for:  *)
(* <<m, n>> is in it when m was used less recently than n.                 *)
(***************************************************************************)
EXTENDS Naturals, FiniteSets

CONSTANTS
  Names,     \* the keys
  Values,    \* what a key can be mapped to
  Capacity,  \* most keys held at a time
  None       \* no value

Caches == [entry : [Names -> Values \cup {None}],
           older : SUBSET (Names \X Names)]

Keys(c) == {n \in Names : c.entry[n] # None}

(* LruCache::new, and what clear leaves behind. *)
EmptyCache == [entry |-> [n \in Names |-> None], older |-> {}]

(* The recency order once n is the most recently used of keys. *)
Promoted(older, keys, n) ==
  LET others == keys \ {n} IN
  (older \cap (others \X others)) \cup (others \X {n})

(* LruCache::get of a key that is held: the value stays, the key moves to  *)
(* the front of the list.                                                  *)
Get(c, n) == [entry |-> c.entry, older |-> Promoted(c.older, Keys(c), n)]

(* The key at the back of the list. *)
IsOldest(c, n) == n \in Keys(c) /\ \A m \in Keys(c) \ {n} : <<n, m>> \in c.older

Oldest(c) == CHOOSE n \in Keys(c) : IsOldest(c, n)

(* Mutant of Kept: put never evicts. *)
KeptAll(c, n) == Keys(c) \cup {n}

(* The keys put keeps: all of them, or all but the oldest when the map is  *)
(* full and the key is new.                                                *)
Kept(c, n) ==
  IF n \in Keys(c) \/ Cardinality(Keys(c)) < Capacity
    THEN Keys(c) \cup {n}
    ELSE (Keys(c) \ {Oldest(c)}) \cup {n}

Put(c, n, v) ==
  LET kept == Kept(c, n) IN
  [entry |-> [m \in Names |-> IF m = n THEN v
                              ELSE IF m \in kept THEN c.entry[m] ELSE None],
   older |-> Promoted(c.older, kept, n)]

(* The recency order is a strict total order on exactly the keys held, and *)
(* no more than Capacity are held.                                         *)
LruOK(c) ==
  /\ Cardinality(Keys(c)) <= Capacity
  /\ c.older \subseteq Keys(c) \X Keys(c)
  /\ \A m, n \in Keys(c) : m # n => (<<m, n>> \in c.older <=> <<n, m>> \notin c.older)
  /\ \A n \in Keys(c) : <<n, n>> \notin c.older
  /\ \A k, m, n \in Keys(c) :
       <<k, m>> \in c.older /\ <<m, n>> \in c.older => <<k, n>> \in c.older
=============================================================================
