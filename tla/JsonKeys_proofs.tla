--------------------------- MODULE JsonKeys_proofs ---------------------------
(***************************************************************************)
(* Keys. What from_json builds of to_json's objects has its keyed vectors  *)
(* in order. The argument follows the second document back to the buffer   *)
(* it was printed of: a call of build_table or build_vector is about a     *)
(* node of that buffer, of the same type, so the keys of an object are     *)
(* what to_json prints for the elements of one vector. A number is printed *)
(* in one way, and an entry whose key is not the one inside is refused: no *)
(* two keys are equal, and the sort is strict.                             *)
(***************************************************************************)
EXTENDS JsonTree_proofs, LeastNumber

Tag(base) == IF base \in {"scalar", "disc"} THEN "scalar" ELSE base

(* A node as the type t wants it. *)
Fits(node, t) ==
  /\ node[1] = Tag(t.base)
  /\ t.base \in {"table", "struct"} => node = <<t.base, t.of>>
  /\ t.base \in {"vector", "array"} => node = <<t.base, t>>

(* A node of an object or a type that the schema has. *)
Known(node) ==
  /\ node[1] \in {"table", "struct"} =>
       node[2] \in DOMAIN Objects /\ Objects[node[2]].struct = (node[1] = "struct")
  /\ node[1] \in {"vector", "array"} => WellTyped(node[2]) /\ node[2].base = node[1]
  /\ node[1] = "scalar" => node[3][1] # "absent"

ElementType(node) == [base |-> node[2].elem, of |-> node[2].of]

(* The discriminator d of the object at p has the value of the variant v. *)
Told(b, p, d, v) ==
  LET kind == Kinds[Objects[b[p][2]].type[d].of]
  IN /\ Append(p, d) \in DOMAIN b
     /\ b[Append(p, d)] = <<"scalar", kind, <<"int", kind.names[v]>>>>

(* What is at x in the node at p is of the type it has there. *)
ChildFits(b, p, x) ==
  LET here == b[Append(p, x)]
  IN \/ b[p][1] \in {"vector", "array"} /\ Fits(here, ElementType(b[p]))
     \/ /\ b[p][1] \in {"table", "struct"} /\ x \in DOMAIN Objects[b[p][2]].type
        /\ LET t == Objects[b[p][2]].type[x]
           IN \/ t.base # "union" /\ Fits(here, t)
              \/ /\ t.base = "union"
                 /\ \E v \in DOMAIN Variants[t.of] : Fits(here, Variants[t.of][v]) /\ Told(b, p, t.disc, v)

(* A buffer that keeps to the schema. *)
Sound(b) ==
  /\ \A p \in DOMAIN b :
       /\ Path(p) /\ Known(b[p])
       /\ \A i \in 0 .. Len(p) : SubSeq(p, 1, i) \in DOMAIN b
  /\ \A p \in DOMAIN b : \A x \in KeysAt(b, p) : ChildFits(b, p, x)

(* A JSON string that is v. *)
Says(json, v) == json[1] = "string" /\ json[2] = v

(* The document has the variant v of the union t for the call F, and the   *)
(* buffer has its discriminator.                                           *)
Chosen(d, b, F, t, v) ==
  /\ v \in DOMAIN Variants[t.of]
  /\ Told(b, F.to, t.disc, v)
  /\ Says(Node(d, Append(F.from, t.disc)), v)

(* A key that is merged into the object o. *)
OverFits(was, over, o) ==
  \/ over = <<>>
  \/ /\ over # <<>> /\ KeyField(o) # NoKey
     /\ over[1] = KeyField(o) /\ over[2][1] \in {"string", "int"}
     /\ was = Empty /\ over[2][1] = "string" => over[2][2] \in DOMAIN TextRank

(* An item of the call F has a type of the schema, and is not there yet.   *)
ItemFits(d, was, b, F, item) ==
  IF F.op \in {"vector", "array"}
    THEN /\ item.type = ElementType(b[F.to]) /\ item.need = "value"
         /\ OverFits(was, item.over, b[F.to][2].of)
         /\ Append(F.to, item.slot) \notin DOMAIN b
    ELSE /\ item.slot = item.key /\ item.over = <<>> /\ item.key \in DOMAIN Objects[F.type].type
         /\ LET t == Objects[F.type].type[item.key]
            IN /\ \/ item.type = t
                  \/ /\ F.op = "table" /\ t.base = "union"
                     /\ \E v : Chosen(d, b, F, t, v) /\ item.type = Variants[t.of][v]
               /\ Append(F.to, item.slot) \in DOMAIN b => F.op = "table" /\ t.base = "disc"

(* A call and the node that it builds. *)
CallFits(d, was, b, F) ==
  /\ Path(F.from) /\ F.to \in DOMAIN b /\ F.op \in Ops
  /\ F.op = "table" => b[F.to] = <<"table", F.type>> /\ OverFits(was, F.over, F.type)
  /\ F.op # "table" => F.over = <<>>
  /\ F.op \in {"struct", "variant"} => b[F.to] = <<"struct", F.type>>
  /\ F.op \in {"vector", "array"} => b[F.to][1] = F.op
  /\ \A k \in DOMAIN F.todo : ItemFits(d, was, b, F, F.todo[k])
  /\ F.op = "table" =>
       \A u \in DOMAIN Objects[F.type].type :
         LET t == Objects[F.type].type[u]
         IN t.base = "union" /\ Append(F.to, u) \in DOMAIN b =>
              \E v : Chosen(d, b, F, t, v) /\ Fits(b[Append(F.to, u)], Variants[t.of][v])

(* Vectors of tables, and how many elements they have. *)
Lists(b) == {p \in DOMAIN b : b[p][1] = "vector" /\ b[p][2].elem = "table"}

Row(b, p, m) == m \in 0 .. Len(Position) /\ KeysAt(b, p) = {Position[i] : i \in 1 .. m}

(* The key of rank x, merged into the object o. *)
Merges(over, o, x) ==
  /\ over # <<>> /\ over[1] = KeyField(o)
  /\ IF Objects[o].type[KeyField(o)].base = "string"
       THEN \E t \in DOMAIN TextRank : over[2] = <<"string", t>> /\ TextRank[t] = x
       ELSE /\ Kinds[Objects[o].type[KeyField(o)].of].sort \in {"signed", "unsigned"}
            /\ over[2] = <<"int", x>> /\ x \in -Wide .. Wide - 1
            /\ <<"int", x>> # Objects[o].type[KeyField(o)].default

(* The element at e has a key of rank x, or will have it. *)
HasKey(s, b, e, o, x) ==
  /\ b[e] = <<"table", o>>
  /\ \A i \in DOMAIN s : s[i].to = e => Merges(s[i].over, o, x)
  /\ \/ KeyRank(b, e) = x
     \/ \E i \in DOMAIN s : s[i].to = e /\ \E k \in DOMAIN s[i].todo : s[i].todo[k].key = KeyField(o)

(* The keys of the vector at p, the ones of its m elements and those to    *)
(* come, have ranks r in strict order.                                     *)
InOrder(s, b, p, m, n, r) ==
  LET o == b[p][2].of
  IN /\ \A i \in 1 .. n : r[i] \in Int
     /\ \A i, j \in 1 .. n : i < j => r[i] < r[j]
     /\ \A i \in 1 .. m : HasKey(s, b, Append(p, Position[i]), o, r[i])
     /\ \A i \in DOMAIN s : s[i].to = p => \A k \in DOMAIN s[i].todo : Merges(s[i].todo[k].over, o, r[m + k])

(* A vector of tables is built from the first position on. *)
Listed(was, s, b, p) ==
  \E m, n \in 0 .. Len(Position) : \E r :
    /\ m <= n /\ Row(b, p, m)
    /\ \A i \in DOMAIN s : s[i].to = p =>
         m + Len(s[i].todo) <= n /\ \A k \in DOMAIN s[i].todo : s[i].todo[k].slot = Position[m + k]
    /\ was # Empty /\ KeyField(b[p][2].of) # NoKey => InOrder(s, b, p, m, n, r)

(* What to_json prints of a buffer, elements of a repeated key left out. *)
Seen(b) == {p \in DOMAIN b : ~Hidden(b, p)}

(* In what document the call reads, as a node of the buffer it is printed of. *)
Reads(was, b, F) ==
  F.op \in {"table", "vector"} =>
    \E p \in Seen(was) : Printed(was, p) = F.from /\ was[p] = b[F.to]

Shaped(d, was, s, b) ==
  /\ Sound(b)
  /\ \A i \in DOMAIN s : CallFits(d, was, b, s[i])
  /\ \A p \in Lists(b) : Listed(was, s, b, p)
  /\ was # Empty => \A i \in DOMAIN s : Reads(was, b, s[i])

HasRoot(b) == <<>> \in DOMAIN b /\ b[<<>>] = <<"table", RootTable>>

StringsRanked(b) == \A p \in DOMAIN b : b[p][1] = "string" => b[p][2] \in DOMAIN TextRank

(* No scalar of a table is stored that is the default of its field. *)
Elides(b) ==
  \A e \in DOMAIN b : \A f :
    b[e][1] = "table" /\ Append(e, f) \in DOMAIN b /\ Objects[b[e][2]].type[f].base = "scalar" =>
      b[Append(e, f)][3] # Objects[b[e][2]].type[f].default

(* The inductive invariant. *)
Ordered ==
  /\ Nested
  /\ Shaped(doc, first, frames, buffer)
  /\ frames # <<>> \/ phase \in {"built", "verified", "unverified"} => HasRoot(buffer)
  /\ first = Empty => doc = given /\ StringsRanked(buffer) /\ Elides(buffer)
  /\ given \in Docs
  /\ first # Empty =>
       /\ doc = Json(first) /\ Sound(first) /\ HasRoot(first)
       /\ StringsRanked(first) /\ Elides(first)
       /\ \A p \in Lists(first) : \E m : Row(first, p, m)

-----------------------------------------------------------------------------
(* Paths, once more. *)

(* A path is not what it was with a step more. *)
LEMMA StepsEqual ==
  ASSUME NEW p, NEW q, Path(p), Path(q), NEW x, NEW y, Append(p, x) = Append(q, y)
  PROVE  p = q /\ x = y
<1> DEFINE a == Append(p, x)
           c == Append(q, y)
<1>1. /\ Len(p) \in Nat /\ Len(a) = Len(p) + 1 /\ a[Len(p) + 1] = x
      /\ \A i \in 1 .. Len(p) : a[i] = p[i]
  BY PathGrows
<1>2. /\ Len(q) \in Nat /\ Len(c) = Len(q) + 1 /\ c[Len(q) + 1] = y
      /\ \A i \in 1 .. Len(q) : c[i] = q[i]
  BY PathGrows
<1>3. a = c
  OBVIOUS
<1> HIDE DEF a, c
<1>4. Len(p) = Len(q)
  BY <1>1, <1>2, <1>3
<1>5. \A i \in 1 .. Len(p) : p[i] = q[i]
  BY <1>1, <1>2, <1>3, <1>4
<1>6. p = q
  BY <1>4, <1>5, PathEqual
<1> QED BY <1>1, <1>2, <1>3, <1>4, <1>6

(* A path that is not empty has a last step. *)
LEMMA PathSplits ==
  ASSUME NEW q, Path(q), q # <<>>
  PROVE  /\ Len(q) \in Nat /\ Len(q) > 0
         /\ Path(SubSeq(q, 1, Len(q) - 1))
         /\ q = Append(SubSeq(q, 1, Len(q) - 1), q[Len(q)])
<1> DEFINE own == {q[i] : i \in DOMAIN q}
           p == SubSeq(q, 1, Len(q) - 1)
           r == Append(p, q[Len(q)])
<1>1. q \in Seq(own)
  BY DEF Path
<1> HIDE DEF own
<1>2. Len(q) \in Nat /\ Len(q) > 0
  BY <1>1
<1>3. Len(q) - 1 \in 0 .. Len(q)
  BY <1>2
<1>4. Path(p) /\ Len(p) = Len(q) - 1 /\ \A i \in 1 .. (Len(q) - 1) : p[i] = q[i]
  BY <1>3, PathBegins
<1> HIDE DEF p
<1>5. /\ Path(r) /\ Len(r) = Len(p) + 1 /\ r[Len(p) + 1] = q[Len(q)]
      /\ \A i \in 1 .. Len(p) : r[i] = p[i]
  BY <1>4, PathGrows
<1> HIDE DEF r
<1>6. Len(r) = Len(q) /\ \A i \in 1 .. Len(r) : r[i] = q[i]
  BY <1>2, <1>4, <1>5
<1>7. r = q
  BY <1>5, <1>6, PathEqual
<1> QED BY <1>2, <1>4, <1>7 DEF r, p

(* The beginnings of a path that is a step longer. *)
LEMMA StepBegins ==
  ASSUME NEW p, Path(p), NEW x
  PROVE  /\ \A i \in 0 .. Len(p) : SubSeq(Append(p, x), 1, i) = SubSeq(p, 1, i)
         /\ SubSeq(Append(p, x), 1, Len(p) + 1) = Append(p, x)
         /\ SubSeq(p, 1, Len(p)) = p
<1> DEFINE q == Append(p, x)
<1>1. /\ Len(p) \in Nat /\ Path(q) /\ Len(q) = Len(p) + 1
      /\ \A i \in 1 .. Len(p) : q[i] = p[i]
  BY PathGrows
<1> HIDE DEF q
<1>2. ASSUME NEW i \in 0 .. Len(p)
      PROVE  SubSeq(q, 1, i) = SubSeq(p, 1, i)
  <2> DEFINE c == SubSeq(q, 1, i)
             d == SubSeq(p, 1, i)
  <2>1. i \in 0 .. Len(q)
    BY <1>1
  <2>2. Path(c) /\ Len(c) = i /\ \A j \in 1 .. i : c[j] = q[j]
    BY <1>1, <2>1, PathBegins
  <2>3. Path(d) /\ Len(d) = i /\ \A j \in 1 .. i : d[j] = p[j]
    BY PathBegins
  <2> HIDE DEF c, d
  <2>4. \A j \in 1 .. Len(c) : c[j] = d[j]
    BY <1>1, <2>2, <2>3
  <2>5. c = d
    BY <2>2, <2>3, <2>4, PathEqual
  <2> QED BY <2>5 DEF c, d
<1>3. ASSUME NEW s, Path(s)
      PROVE  SubSeq(s, 1, Len(s)) = s
  <2> DEFINE c == SubSeq(s, 1, Len(s))
  <2>1. Len(s) \in Nat
    BY <1>3, PathGrows
  <2>2. Len(s) \in 0 .. Len(s)
    BY <2>1
  <2>3. Path(c) /\ Len(c) = Len(s) /\ \A j \in 1 .. Len(s) : c[j] = s[j]
    BY <1>3, <2>2, PathBegins
  <2> HIDE DEF c
  <2>4. c = s
    BY <1>3, <2>3, PathEqual
  <2> QED BY <2>4 DEF c
<1>4. SubSeq(q, 1, Len(p) + 1) = q
  BY <1>1, <1>3
<1> QED BY <1>2, <1>3, <1>4 DEF q

(* The keys at a path are the steps from there. *)
LEMMA KeysAre ==
  ASSUME NEW b, \A q \in DOMAIN b : Path(q), NEW p, Path(p), NEW x
  PROVE  x \in KeysAt(b, p) <=> Append(p, x) \in DOMAIN b
<1> DEFINE a == Append(p, x)
<1>1. /\ Len(p) \in Nat /\ Path(a) /\ Len(a) = Len(p) + 1 /\ a[Len(p) + 1] = x
      /\ \A i \in 1 .. Len(p) : a[i] = p[i]
  BY PathGrows
<1>2. ASSUME a \in DOMAIN b
      PROVE  x \in KeysAt(b, p)
  <2> HIDE DEF a
  <2>1. IsPrefix(p, a)
    BY <1>1, PrefixIs
  <2> QED BY <1>1, <1>2, <2>1 DEF KeysAt
<1>3. ASSUME x \in KeysAt(b, p)
      PROVE  a \in DOMAIN b
  <2>1. PICK q \in DOMAIN b : Len(q) = Len(p) + 1 /\ IsPrefix(p, q) /\ x = q[Len(q)]
    BY <1>3 DEF KeysAt
  <2> HIDE DEF a
  <2>2. Path(q) /\ \A i \in 1 .. Len(p) : q[i] = p[i]
    BY <2>1, PrefixIs
  <2>3. \A i \in 1 .. Len(q) : q[i] = a[i]
    BY <1>1, <2>1, <2>2
  <2>4. q = a
    BY <1>1, <2>1, <2>2, <2>3, PathEqual
  <2> QED BY <2>4
<1> QED BY <1>2, <1>3 DEF a

-----------------------------------------------------------------------------
(* Sorting. *)

(* What is assumed of texts, as the proofs use it. *)
LEMMA TextsRanked ==
  /\ DOMAIN Number \subseteq DOMAIN TextRank
  /\ \A t \in DOMAIN TextRank : TextRank[t] \in Int
  /\ \A t, u \in DOMAIN TextRank : TextRank[t] = TextRank[u] => t = u
  /\ \A t \in DOMAIN Number : Number[t] \in Int
<1>1. Wide \in Int
  BY KindsAssumption
<1>2. \A t \in DOMAIN Number : Number[t] \in -Wide .. Wide - 1
  BY TextAssumption, Zenon
<1>3. \A t \in DOMAIN Number : Number[t] \in Int
  BY <1>1, <1>2
<1> QED BY <1>3, TextAssumption, Zenon

(* How many elements of K have a smaller rank than k. *)
Below(K, rk, k) == {j \in K : rk[j] < rk[k]}

(* Different ranks are counted off without a gap. *)
LEMMA RanksApart ==
  ASSUME NEW K, IsFiniteSet(K), NEW rk,
         \A k \in K : rk[k] \in Int,
         \A k, l \in K : rk[k] = rk[l] => k = l
  PROVE  /\ Cardinality(K) \in Nat
         /\ \A i \in 1 .. Cardinality(K) : \E k \in K : Cardinality(Below(K, rk, k)) = i - 1
         /\ \A k, l \in K : rk[k] < rk[l] => Cardinality(Below(K, rk, k)) < Cardinality(Below(K, rk, l))
<1> DEFINE n == Cardinality(K)
           f == [k \in K |-> Cardinality(Below(K, rk, k))]
           R == 0 .. n - 1
<1>1. n \in Nat
  BY FS_CardinalityType
<1>2. \A k \in K : /\ Below(K, rk, k) \in SUBSET K /\ k \notin Below(K, rk, k)
                   /\ IsFiniteSet(Below(K, rk, k))
                   /\ Cardinality(Below(K, rk, k)) \in Nat
                   /\ Cardinality(Below(K, rk, k)) <= n
                   /\ Cardinality(Below(K, rk, k)) # n
  <2> SUFFICES ASSUME NEW k \in K
               PROVE  /\ Below(K, rk, k) \in SUBSET K /\ k \notin Below(K, rk, k)
                      /\ IsFiniteSet(Below(K, rk, k))
                      /\ Cardinality(Below(K, rk, k)) \in Nat
                      /\ Cardinality(Below(K, rk, k)) <= n
                      /\ Cardinality(Below(K, rk, k)) # n
    OBVIOUS
  <2>1. Below(K, rk, k) \in SUBSET K /\ k \notin Below(K, rk, k)
    BY DEF Below
  <2>2. /\ IsFiniteSet(Below(K, rk, k)) /\ Cardinality(Below(K, rk, k)) <= n
        /\ n = Cardinality(Below(K, rk, k)) => K = Below(K, rk, k)
    BY <2>1, FS_Subset
  <2>3. Cardinality(Below(K, rk, k)) \in Nat
    BY <2>2, FS_CardinalityType
  <2> QED BY <2>1, <2>2, <2>3
<1>3. ASSUME NEW k \in K, NEW l \in K, rk[k] < rk[l]
      PROVE  Cardinality(Below(K, rk, k)) < Cardinality(Below(K, rk, l))
  <2>1. Below(K, rk, k) \in SUBSET Below(K, rk, l) /\ k \in Below(K, rk, l)
    BY <1>3 DEF Below
  <2>2. IsFiniteSet(Below(K, rk, l)) /\ k \notin Below(K, rk, k)
    BY <1>2
  <2>3. /\ Cardinality(Below(K, rk, k)) <= Cardinality(Below(K, rk, l))
        /\ Cardinality(Below(K, rk, l)) = Cardinality(Below(K, rk, k)) => Below(K, rk, l) = Below(K, rk, k)
    BY <2>1, <2>2, FS_Subset
  <2>4. Cardinality(Below(K, rk, l)) # Cardinality(Below(K, rk, k))
    BY <2>1, <2>2, <2>3
  <2>5. Cardinality(Below(K, rk, l)) \in Nat /\ Cardinality(Below(K, rk, k)) \in Nat
    BY <1>2
  <2> QED BY <2>3, <2>4, <2>5
<1>4. f \in Injection(K, R)
  <2>1. f \in [K -> R]
    BY <1>1, <1>2
  <2>2. ASSUME NEW k \in K, NEW l \in K, f[k] = f[l]
        PROVE  k = l
    <3>1. Cardinality(Below(K, rk, k)) = Cardinality(Below(K, rk, l))
      BY <2>2
    <3>2. rk[k] \in Int /\ rk[l] \in Int /\ Cardinality(Below(K, rk, k)) \in Nat
      BY <1>2
    <3>3. ~(rk[k] < rk[l]) /\ ~(rk[l] < rk[k])
      BY <1>3, <3>1, <3>2
    <3> QED BY <3>2, <3>3
  <2> QED BY <2>1, <2>2 DEF Injection, IsInjective
<1>5. IsFiniteSet(R) /\ Cardinality(R) = n
  BY <1>1, FS_Interval
<1>6. f \in Surjection(K, R)
  BY <1>4, <1>5, FS_Injection
<1>7. \A i \in 1 .. n : \E k \in K : Cardinality(Below(K, rk, k)) = i - 1
  <2> SUFFICES ASSUME NEW i \in 1 .. n
               PROVE  \E k \in K : Cardinality(Below(K, rk, k)) = i - 1
    OBVIOUS
  <2>1. i - 1 \in R
    BY <1>1
  <2>2. PICK k \in K : f[k] = i - 1
    BY <1>6, <2>1 DEF Surjection
  <2> QED BY <2>2
<1> QED BY <1>1, <1>3, <1>7

(* How entries are ranked: strings by their place, others by their number. *)
EntryRanks(K) == [k \in K |-> IF KeySort = "string" THEN TextRank[k] ELSE Number[k]]

(* Of entries with ranks of their own, SortedKeys are all, in strict order. *)
LEMMA SortedStrictly ==
  ASSUME NEW K, K = KeysAt(doc, From), IsFiniteSet(K),
         K \subseteq IF KeySort = "string" THEN DOMAIN TextRank ELSE DOMAIN Number,
         KeySort # "string" => \A k, l \in K : Number[k] = Number[l] => k = l
  PROVE  /\ DOMAIN SortedKeys = 1 .. Cardinality(K)
         /\ \A i \in DOMAIN SortedKeys : SortedKeys[i] \in K
         /\ \A i, j \in DOMAIN SortedKeys :
              i < j => EntryRanks(K)[SortedKeys[i]] < EntryRanks(K)[SortedKeys[j]]
<1> DEFINE rk == EntryRanks(K)
           n == Cardinality(K)
<1>1. \A k \in K : /\ rk[k] = IF KeySort = "string" THEN TextRank[k] ELSE Number[k]
                   /\ rk[k] \in Int
  <2>1. \A k \in DOMAIN Number : Number[k] \in Int
    BY TextsRanked
  <2>2. \A k \in K : rk[k] = IF KeySort = "string" THEN TextRank[k] ELSE Number[k]
    BY DEF EntryRanks
  <2> HIDE DEF rk
  <2> QED BY <2>1, <2>2, TextsRanked
<1>2. \A k, l \in K : rk[k] = rk[l] => k = l
  <2> HIDE DEF rk
  <2> QED BY <1>1, TextsRanked
<1>3. \A k, l \in K : Before(k, l) <=> rk[k] < rk[l]
  <2> SUFFICES ASSUME NEW k \in K, NEW l \in K
               PROVE  Before(k, l) <=> rk[k] < rk[l]
    OBVIOUS
  <2>1. CASE KeySort = "string"
    BY <1>1, <2>1 DEF Before
  <2>2. CASE KeySort # "string"
    <3>1. Number[k] = Number[l] => k = l
      BY <2>2
    <3>2. k \in DOMAIN TextRank /\ TextRank[k] \in Int /\ Number[k] \in Int
      BY <2>2, TextsRanked
    <3> QED BY <1>1, <2>2, <3>1, <3>2 DEF Before
  <2> QED BY <2>1, <2>2
<1> HIDE DEF rk
<1>4. /\ n \in Nat
      /\ \A i \in 1 .. n : \E k \in K : Cardinality(Below(K, rk, k)) = i - 1
      /\ \A k, l \in K : rk[k] < rk[l] => Cardinality(Below(K, rk, k)) < Cardinality(Below(K, rk, l))
  BY <1>1, <1>2, RanksApart
<1>5. \A k \in K : {j \in K : Before(j, k)} = Below(K, rk, k)
  BY <1>3 DEF Below
<1>6. /\ DOMAIN SortedKeys = 1 .. n
      /\ \A i \in 1 .. n : SortedKeys[i] = CHOOSE k \in K : Cardinality({j \in K : Before(j, k)}) = i - 1
  BY DEF SortedKeys
<1>7. ASSUME NEW i \in 1 .. n
      PROVE  SortedKeys[i] \in K /\ Cardinality(Below(K, rk, SortedKeys[i])) = i - 1
  <2>1. PICK k \in K : Cardinality(Below(K, rk, k)) = i - 1
    BY <1>4
  <2>2. Cardinality({j \in K : Before(j, k)}) = i - 1
    BY <1>5, <2>1
  <2>3. /\ SortedKeys[i] \in K
        /\ Cardinality({j \in K : Before(j, SortedKeys[i])}) = i - 1
    <3> DEFINE G(x) == Cardinality({j \in K : Before(j, x)}) = i - 1
    <3>1. G(k)
      BY <2>2
    <3>2. SortedKeys[i] = CHOOSE x \in K : G(x)
      BY <1>6
    <3> HIDE DEF G
    <3>3. SortedKeys[i] \in K /\ G(SortedKeys[i])
      BY <2>1, <3>1, <3>2
    <3> QED BY <3>3 DEF G
  <2> QED BY <1>5, <2>3
<1>8. ASSUME NEW i \in 1 .. n, NEW j \in 1 .. n, i < j
      PROVE  rk[SortedKeys[i]] < rk[SortedKeys[j]]
  <2> DEFINE a == SortedKeys[i]
             c == SortedKeys[j]
  <2>1. /\ a \in K /\ Cardinality(Below(K, rk, a)) = i - 1
        /\ c \in K /\ Cardinality(Below(K, rk, c)) = j - 1
    BY <1>7
  <2> HIDE DEF a, c
  <2>2. a # c /\ rk[a] \in Int /\ rk[c] \in Int
    BY <1>1, <1>4, <1>8, <2>1
  <2>3. rk[a] # rk[c] /\ ~(rk[c] < rk[a])
    BY <1>2, <1>4, <1>8, <2>1, <2>2
  <2>4. rk[a] < rk[c]
    BY <2>2, <2>3
  <2> QED BY <2>4 DEF a, c
<1> QED BY <1>6, <1>7, <1>8 DEF rk

-----------------------------------------------------------------------------
(* Where a node of a buffer is printed. *)

(* What is printed for the step x from p. *)
Label(b, p, x) == IF IsKeyed(b, p) THEN KeyText(b, Append(p, x)) ELSE x

(* The vectors of tables of b have elements from the first position on. *)
Rows(b) == \A p \in Lists(b) : \E m : Row(b, p, m)

(* What is printed is where its steps and keys say. *)
LEMMA PrintedPath ==
  ASSUME NEW b, NEW p, Path(p)
  PROVE  /\ Path(Printed(b, p)) /\ Len(Printed(b, p)) = Len(p) /\ Len(p) \in Nat
         /\ \A i \in 1 .. Len(p) : Printed(b, p)[i] =
              IF IsKeyed(b, SubSeq(p, 1, i - 1)) THEN KeyText(b, SubSeq(p, 1, i)) ELSE p[i]
<1> DEFINE e(i) == IF IsKeyed(b, SubSeq(p, 1, i - 1)) THEN KeyText(b, SubSeq(p, 1, i)) ELSE p[i]
           w == [i \in 1 .. Len(p) |-> e(i)]
<1>1. Len(p) \in Nat
  BY PathGrows
<1>2. Printed(b, p) = w
  BY DEF Printed
<1> HIDE DEF e
<1>3. w \in Seq({e(i) : i \in 1 .. Len(p)}) /\ Len(w) = Len(p) /\ \A i \in 1 .. Len(p) : w[i] = e(i)
  BY <1>1
<1> HIDE DEF w
<1>4. Path(w)
  BY <1>3, OwnElements DEF Path
<1> QED BY <1>1, <1>2, <1>3, <1>4 DEF e

(* It is printed a step, or a key, further than what it is in. *)
LEMMA PrintedGrows ==
  ASSUME NEW b, NEW p, Path(p), NEW x
  PROVE  Printed(b, Append(p, x)) = Append(Printed(b, p), Label(b, p, x))
<1> DEFINE q == Append(p, x)
           l == Label(b, p, x)
           u == Printed(b, q)
           v == Append(Printed(b, p), l)
<1>1. /\ Len(p) \in Nat /\ Path(q) /\ Len(q) = Len(p) + 1 /\ q[Len(p) + 1] = x
      /\ \A i \in 1 .. Len(p) : q[i] = p[i]
  BY PathGrows
<1>2. /\ \A i \in 0 .. Len(p) : SubSeq(q, 1, i) = SubSeq(p, 1, i)
      /\ SubSeq(q, 1, Len(p) + 1) = q /\ SubSeq(p, 1, Len(p)) = p
  BY StepBegins
<1>3. /\ Path(u) /\ Len(u) = Len(q)
      /\ \A i \in 1 .. Len(q) : u[i] =
           IF IsKeyed(b, SubSeq(q, 1, i - 1)) THEN KeyText(b, SubSeq(q, 1, i)) ELSE q[i]
  BY <1>1, PrintedPath
<1>4. /\ Path(Printed(b, p)) /\ Len(Printed(b, p)) = Len(p)
      /\ \A i \in 1 .. Len(p) : Printed(b, p)[i] =
           IF IsKeyed(b, SubSeq(p, 1, i - 1)) THEN KeyText(b, SubSeq(p, 1, i)) ELSE p[i]
  BY PrintedPath
<1>5. /\ Path(v) /\ Len(v) = Len(p) + 1 /\ v[Len(p) + 1] = l
      /\ \A i \in 1 .. Len(p) : v[i] = Printed(b, p)[i]
  BY <1>4, PathGrows
<1>6. ASSUME NEW i \in 1 .. Len(q)
      PROVE  u[i] = v[i]
  <2>1. CASE i \in 1 .. Len(p)
    <3> HIDE DEF q, u, v
    <3>1. i - 1 \in 0 .. Len(p) /\ i \in 0 .. Len(p)
      BY <1>1, <2>1
    <3>2. SubSeq(q, 1, i - 1) = SubSeq(p, 1, i - 1) /\ SubSeq(q, 1, i) = SubSeq(p, 1, i) /\ q[i] = p[i]
      BY <1>1, <1>2, <2>1, <3>1
    <3>3. u[i] = IF IsKeyed(b, SubSeq(q, 1, i - 1)) THEN KeyText(b, SubSeq(q, 1, i)) ELSE q[i]
      BY <1>3
    <3>4. v[i] = IF IsKeyed(b, SubSeq(p, 1, i - 1)) THEN KeyText(b, SubSeq(p, 1, i)) ELSE p[i]
      BY <1>4, <1>5, <2>1
    <3>5. u[i] = IF IsKeyed(b, SubSeq(p, 1, i - 1)) THEN KeyText(b, SubSeq(p, 1, i)) ELSE p[i]
      BY <3>2, <3>3
    <3> QED BY <3>4, <3>5
  <2>2. CASE i = Len(p) + 1
    <3>1. i - 1 = Len(p) /\ Len(p) \in 0 .. Len(p)
      BY <1>1, <2>2
    <3>2. SubSeq(q, 1, i - 1) = p /\ SubSeq(q, 1, i) = q /\ q[i] = x
      BY <1>1, <1>2, <2>2, <3>1
    <3>3. u[i] = IF IsKeyed(b, SubSeq(q, 1, i - 1)) THEN KeyText(b, SubSeq(q, 1, i)) ELSE q[i]
      BY <1>3
    <3>4. u[i] = IF IsKeyed(b, p) THEN KeyText(b, q) ELSE x
      BY <3>2, <3>3
    <3>5. v[i] = l
      BY <1>5, <2>2
    <3> QED BY <3>4, <3>5 DEF Label
  <2> HIDE DEF q, u, v, l
  <2>3. i \in 1 .. Len(p) \/ i = Len(p) + 1
    BY <1>1
  <2> QED BY <2>1, <2>2, <2>3
<1> HIDE DEF q, u, v, l
<1>7. u = v
  BY <1>1, <1>3, <1>5, <1>6, PathEqual
<1> QED BY <1>7 DEF q, u, v, l

(* Nothing in a buffer is empty space. *)
LEMMA SoundPaths ==
  ASSUME NEW b, Sound(b)
  PROVE  /\ \A p \in DOMAIN b : Path(p) /\ Known(b[p])
         /\ \A p, x : Path(p) /\ Append(p, x) \in DOMAIN b => p \in DOMAIN b /\ ChildFits(b, p, x)
         /\ \A p, x : Path(p) => (x \in KeysAt(b, p) <=> Append(p, x) \in DOMAIN b)
         /\ \A q \in DOMAIN b : q # <<>> => \E p \in DOMAIN b : \E x : q = Append(p, x)
<1>1. \A p \in DOMAIN b : Path(p) /\ Known(b[p])
  BY DEF Sound
<1>2. \A p, x : Path(p) => (x \in KeysAt(b, p) <=> Append(p, x) \in DOMAIN b)
  BY <1>1, KeysAre
<1>3. ASSUME NEW p, NEW x, Path(p), Append(p, x) \in DOMAIN b
      PROVE  p \in DOMAIN b /\ ChildFits(b, p, x)
  <2>1. SubSeq(Append(p, x), 1, Len(p)) = p /\ Len(p) \in 0 .. Len(Append(p, x))
    <3>1. Len(p) \in Nat /\ Len(Append(p, x)) = Len(p) + 1
      BY <1>3, PathGrows
    <3>2. Len(p) \in 0 .. Len(p)
      BY <3>1
    <3>3. SubSeq(Append(p, x), 1, Len(p)) = p
      BY <1>3, <3>2, StepBegins
    <3> QED BY <3>1, <3>3
  <2>2. p \in DOMAIN b
    BY <1>3, <2>1 DEF Sound
  <2> QED BY <1>2, <1>3, <2>2 DEF Sound
<1>4. ASSUME NEW q \in DOMAIN b, q # <<>>
      PROVE  \E p \in DOMAIN b : \E x : q = Append(p, x)
  <2>1. Path(q)
    BY <1>1
  <2>2. Path(SubSeq(q, 1, Len(q) - 1)) /\ q = Append(SubSeq(q, 1, Len(q) - 1), q[Len(q)])
    BY <1>4, <2>1, PathSplits
  <2>3. SubSeq(q, 1, Len(q) - 1) \in DOMAIN b
    BY <1>3, <2>2
  <2> QED BY <2>2, <2>3
<1> QED BY <1>1, <1>2, <1>3, <1>4

(* What is not hidden is in something that is not. *)
LEMMA SeenBegins ==
  ASSUME NEW b, Sound(b), NEW p, Path(p), NEW x, Append(p, x) \in Seen(b)
  PROVE  p \in Seen(b)
<1> DEFINE q == Append(p, x)
<1>1. p \in DOMAIN b /\ ~Hidden(b, q)
  BY SoundPaths DEF Seen
<1>2. /\ Len(p) \in Nat /\ Len(q) = Len(p) + 1
      /\ \A i \in 1 .. Len(p) : q[i] = p[i]
  BY PathGrows
<1>3. \A i \in 0 .. Len(p) : SubSeq(q, 1, i) = SubSeq(p, 1, i)
  BY StepBegins
<1> HIDE DEF q
<1>4. ASSUME Hidden(b, p)
      PROVE  FALSE
  <2>1. PICK i \in 1 .. Len(p) :
          /\ IsKeyed(b, SubSeq(p, 1, i - 1))
          /\ \E j \in Place(p[i]) + 1 .. Cardinality(KeysAt(b, SubSeq(p, 1, i - 1))) :
               KeyText(b, Append(SubSeq(p, 1, i - 1), Position[j])) = KeyText(b, Append(SubSeq(p, 1, i - 1), p[i]))
    BY <1>4 DEF Hidden
  <2>2. i - 1 \in 0 .. Len(p) /\ i \in 1 .. Len(q)
    BY <1>2
  <2>3. SubSeq(q, 1, i - 1) = SubSeq(p, 1, i - 1) /\ q[i] = p[i]
    BY <1>2, <1>3, <2>2
  <2>4. Hidden(b, q)
    BY <2>1, <2>2, <2>3 DEF Hidden
  <2> QED BY <1>1, <2>4
<1> QED BY <1>1, <1>4 DEF Seen

(* Positions are counted. *)
LEMMA RowCounts ==
  ASSUME NEW b, NEW p, NEW m, Row(b, p, m)
  PROVE  m \in Nat /\ IsFiniteSet(KeysAt(b, p)) /\ Cardinality(KeysAt(b, p)) = m
<1> DEFINE S == KeysAt(b, p)
           f == [i \in 1 .. m |-> Position[i]]
<1>1. Len(Position) \in Nat /\ DOMAIN Position = 1 .. Len(Position) /\ Distinct(Position)
  <2> DEFINE own == {Position[i] : i \in DOMAIN Position}
  <2>1. Position \in Seq(own) /\ Distinct(Position)
    BY PositionAssumption
  <2> HIDE DEF own
  <2> QED BY <2>1
<1>2. m \in Nat /\ m <= Len(Position) /\ S = {Position[i] : i \in 1 .. m}
  BY <1>1 DEF Row
<1> HIDE DEF S
<1>3. f \in [1 .. m -> S] /\ \A s \in S : \E i \in 1 .. m : f[i] = s
  BY <1>2
<1>4. \A i, j \in 1 .. m : f[i] = f[j] => i = j
  <2>1. \A i \in 1 .. m : i \in DOMAIN Position /\ f[i] = Position[i]
    BY <1>1, <1>2
  <2> QED BY <1>1, <2>1 DEF Distinct
<1> HIDE DEF f
<1>5. f \in Surjection(1 .. m, S) /\ f \in Injection(1 .. m, S)
  BY <1>3, <1>4 DEF Surjection, Injection, IsInjective
<1>6. IsFiniteSet(1 .. m) /\ Cardinality(1 .. m) = m
  BY <1>2, FS_Interval
<1>7. IsFiniteSet(S) /\ Cardinality(S) = m
  BY <1>5, <1>6, FS_Surjection
<1> QED BY <1>2, <1>7 DEF S

(* The position of an element is where it is. *)
LEMMA PlaceIs ==
  ASSUME NEW m \in 0 .. Len(Position), NEW i \in 1 .. m
  PROVE  Place(Position[i]) = i
<1>1. Len(Position) \in Nat /\ DOMAIN Position = 1 .. Len(Position) /\ Distinct(Position)
  <2> DEFINE own == {Position[k] : k \in DOMAIN Position}
  <2>1. Position \in Seq(own) /\ Distinct(Position)
    BY PositionAssumption
  <2> HIDE DEF own
  <2> QED BY <2>1
<1>2. i \in DOMAIN Position
  BY <1>1
<1>3. \A k \in DOMAIN Position : Position[k] = Position[i] => k = i
  BY <1>1, <1>2 DEF Distinct
<1> QED BY <1>2, <1>3 DEF Place

(* No two elements that are printed have a key in common. *)
LEMMA KeysOnce ==
  ASSUME NEW b, Sound(b), Rows(b), NEW p, Path(p), IsKeyed(b, p),
         NEW x, NEW y, Append(p, x) \in Seen(b), Append(p, y) \in Seen(b),
         KeyText(b, Append(p, x)) = KeyText(b, Append(p, y))
  PROVE  x = y
<1>1. p \in Lists(b)
  <2>1. Append(p, x) \in DOMAIN b
    BY DEF Seen
  <2>2. p \in DOMAIN b
    BY <2>1, SoundPaths
  <2> QED BY <2>2 DEF Lists, IsKeyed, Node
<1>2. PICK m : Row(b, p, m)
  BY <1>1 DEF Rows
<1>3. m \in Nat /\ Cardinality(KeysAt(b, p)) = m /\ m \in 0 .. Len(Position)
  BY <1>2, RowCounts DEF Row
<1>4. x \in KeysAt(b, p) /\ y \in KeysAt(b, p)
  BY SoundPaths DEF Seen
<1>5. PICK i \in 1 .. m : x = Position[i]
  BY <1>2, <1>4 DEF Row
<1>6. PICK j \in 1 .. m : y = Position[j]
  BY <1>2, <1>4 DEF Row
<1>7. ASSUME NEW k \in 1 .. m, NEW l \in 1 .. m, k < l,
             KeyText(b, Append(p, Position[k])) = KeyText(b, Append(p, Position[l])),
             Append(p, Position[k]) \in Seen(b)
      PROVE  FALSE
  <2> DEFINE q == Append(p, Position[k])
             n == Len(p) + 1
  <2>1. Len(p) \in Nat /\ Len(q) = Len(p) + 1 /\ q[Len(p) + 1] = Position[k]
    BY PathGrows
  <2>2. Len(p) \in 0 .. Len(p)
    BY <2>1
  <2>3. SubSeq(q, 1, Len(p)) = p
    BY <2>2, StepBegins
  <2>4. n \in 1 .. Len(q) /\ n - 1 = Len(p) /\ SubSeq(q, 1, n - 1) = p /\ q[n] = Position[k]
    BY <2>1, <2>3
  <2>5. Place(Position[k]) = k
    BY <1>3, PlaceIs
  <2>6. l \in Place(Position[k]) + 1 .. Cardinality(KeysAt(b, p))
    BY <1>3, <1>7, <2>5
  <2> HIDE DEF n
  <2>7. Hidden(b, q)
    BY <1>7, <2>4, <2>6 DEF Hidden
  <2> QED BY <1>7, <2>7 DEF Seen
<1>8. ~(i < j) /\ ~(j < i)
  BY <1>5, <1>6, <1>7
<1> QED BY <1>3, <1>5, <1>6, <1>8

(* Nodes printed at one place are printed under one label there. *)
LEMMA LabelsEqual ==
  ASSUME NEW b, NEW c, NEW d, Path(c), Path(d), NEW x, NEW y,
         Printed(b, Append(c, x)) = Printed(b, Append(d, y))
  PROVE  Printed(b, c) = Printed(b, d) /\ Label(b, c, x) = Label(b, d, y)
<1> DEFINE f == Printed(b, c)
           g == Printed(b, d)
           k == Label(b, c, x)
           h == Label(b, d, y)
<1>1. Append(f, k) = Append(g, h)
  BY PrintedGrows
<1>2. Path(f) /\ Path(g)
  BY PrintedPath
<1> HIDE DEF f, g, k, h
<1>3. f = g /\ k = h
  BY <1>1, <1>2, StepsEqual
<1> QED BY <1>3 DEF f, g, k, h

(* No two nodes are printed in one place. *)
LEMMA PrintedOnce ==
  ASSUME NEW b, Sound(b), Rows(b), NEW p \in Seen(b), NEW q \in Seen(b),
         Printed(b, p) = Printed(b, q)
  PROVE  p = q
<1> DEFINE G == {n \in Nat : \A u, v \in Seen(b) :
                   Len(u) = n /\ Printed(b, u) = Printed(b, v) => u = v}
<1>1. ASSUME NEW n \in Nat, \A m \in Nat : m < n => m \in G
      PROVE  n \in G
  <2> SUFFICES ASSUME NEW u \in Seen(b), NEW v \in Seen(b), Len(u) = n, Printed(b, u) = Printed(b, v)
               PROVE  u = v
    OBVIOUS
  <2>1. Path(u) /\ Path(v) /\ u \in DOMAIN b /\ v \in DOMAIN b
    BY SoundPaths DEF Seen
  <2>2. Len(u) = Len(v)
    BY <2>1, PrintedPath
  <2>3. CASE n = 0
    <3>1. \A i \in 1 .. Len(u) : u[i] = v[i]
      BY <2>3
    <3> QED BY <2>1, <2>2, <3>1, PathEqual
  <2>4. CASE n # 0
    <3>1. u # <<>> /\ v # <<>>
      BY <2>2, <2>4
    <3>2. PICK c \in DOMAIN b : \E x : u = Append(c, x)
      BY <2>1, <3>1, SoundPaths
    <3>3. PICK x : u = Append(c, x)
      BY <3>2
    <3>4. PICK d \in DOMAIN b : \E y : v = Append(d, y)
      BY <2>1, <3>1, SoundPaths
    <3>5. PICK y : v = Append(d, y)
      BY <3>4
    <3>6. Path(c) /\ Path(d)
      BY SoundPaths
    <3>7. c \in Seen(b) /\ d \in Seen(b)
      BY <3>3, <3>5, <3>6, SeenBegins
    <3>10. Printed(b, c) = Printed(b, d) /\ Label(b, c, x) = Label(b, d, y)
      BY <3>3, <3>5, <3>6, LabelsEqual
    <3>11. Len(c) \in Nat /\ Len(c) < n
      BY <3>3, <3>6, PathGrows
    <3>12. c = d
      BY <1>1, <3>7, <3>10, <3>11
    <3>13. CASE IsKeyed(b, c)
      BY <3>3, <3>5, <3>6, <3>10, <3>12, <3>13, KeysOnce DEF Label
    <3>14. CASE ~IsKeyed(b, c)
      BY <3>3, <3>5, <3>10, <3>12, <3>14 DEF Label
    <3> QED BY <3>13, <3>14
  <2> QED BY <2>3, <2>4
<1> HIDE DEF G
<1>2. Nat \subseteq G
  BY <1>1, AllNaturals
<1>3. Len(p) \in Nat
  BY SoundPaths, PathGrows DEF Seen
<1> QED BY <1>2, <1>3 DEF G

-----------------------------------------------------------------------------
(* What is printed, place by place. *)

(* The places and values of Json(b). *)
Prints(b) ==
  {<<Printed(b, p), Shape(b, p)>> : p \in {q \in Seen(b) : ~IsDiscriminator(b, q)}}
    \cup UNION {Defaults(b, p) \cup Discriminators(b, p) : p \in Seen(b) \cap Tables(b)}

(* A document printed has a printed node or default wherever it has one.   *)
LEMMA JsonPrints ==
  ASSUME NEW b
  PROVE  /\ \A n \in Prints(b) : n[1] \in DOMAIN Json(b)
         /\ \A x \in DOMAIN Json(b) : \E n \in Prints(b) : n[1] = x /\ Json(b)[x] = n[2]
<1> DEFINE N == Prints(b)
<1>1. Json(b) = [x \in {n[1] : n \in N} |-> (CHOOSE n \in N : n[1] = x)[2]]
  BY DEF Json, Prints, Seen
<1> HIDE DEF N
<1>2. \A n \in N : n[1] \in DOMAIN Json(b)
  BY <1>1
<1>3. ASSUME NEW x \in DOMAIN Json(b)
      PROVE  \E n \in N : n[1] = x /\ Json(b)[x] = n[2]
  <2>1. \E n \in N : n[1] = x
    BY <1>1
  <2> DEFINE c == CHOOSE n \in N : n[1] = x
  <2>2. c \in N /\ c[1] = x
    BY <2>1
  <2>3. Json(b)[x] = c[2]
    BY <1>1
  <2> QED BY <2>2, <2>3
<1> QED BY <1>2, <1>3 DEF N

(* The default of a scalar field, and what a union has for discriminator.  *)
DefaultShown(b, p, f) ==
  Shown(Kinds[Objects[b[p][2]].type[f].of], Objects[b[p][2]].type[f].default)
DiscShown(b, p, d) ==
  Shown(Kinds[Objects[b[p][2]].type[d].of], IF Append(p, d) \in DOMAIN b THEN b[Append(p, d)][3] ELSE <<"int", 0>>)

(* The defaults a table prints are of scalar fields that it does not have. *)
LEMMA DefaultsAre ==
  ASSUME NEW b, NEW p
  PROVE  /\ \A n \in Defaults(b, p) : \E f \in Fields(b, p, "scalar") :
              /\ Append(p, f) \notin DOMAIN b
              /\ n[1] = Append(Printed(b, p), f) /\ n[2] = DefaultShown(b, p, f)
         /\ \A f \in Fields(b, p, "scalar") : Append(p, f) \notin DOMAIN b =>
              \E n \in Defaults(b, p) : n[1] = Append(Printed(b, p), f)
<1> DEFINE P == Printed(b, p)
           D(f) == DefaultShown(b, p, f)
           S == {g \in Fields(b, p, "scalar") : Append(p, g) \notin DOMAIN b}
<1>1. Defaults(b, p) = {<<Append(P, f), D(f)>> : f \in S}
  BY DEF Defaults, DefaultShown
<1>2. \A f \in S : f \in Fields(b, p, "scalar") /\ Append(p, f) \notin DOMAIN b
  OBVIOUS
<1>3. \A f \in Fields(b, p, "scalar") : Append(p, f) \notin DOMAIN b => f \in S
  OBVIOUS
<1> HIDE DEF P, D, S
<1>4. \A n \in Defaults(b, p) : \E f \in S : n[1] = Append(P, f) /\ n[2] = D(f)
  BY <1>1
<1>5. \A f \in S : \E n \in Defaults(b, p) : n[1] = Append(P, f)
  <2> SUFFICES ASSUME NEW f \in S
               PROVE  \E n \in Defaults(b, p) : n[1] = Append(P, f)
    OBVIOUS
  <2>1. <<Append(P, f), D(f)>> \in Defaults(b, p)
    BY <1>1
  <2> QED BY <2>1
<1> QED BY <1>2, <1>3, <1>4, <1>5 DEF P, D

(* The discriminators a table prints are of its unions. *)
LEMMA DiscriminatorsAre ==
  ASSUME NEW b, NEW p
  PROVE  /\ \A n \in Discriminators(b, p) : \E u \in Fields(b, p, "union") :
              /\ n[1] = Append(Printed(b, p), Objects[b[p][2]].type[u].disc)
              /\ n[2] = DiscShown(b, p, Objects[b[p][2]].type[u].disc)
         /\ \A u \in Fields(b, p, "union") :
              \E n \in Discriminators(b, p) : n[1] = Append(Printed(b, p), Objects[b[p][2]].type[u].disc)
<1> DEFINE P == Printed(b, p)
           D(d) == DiscShown(b, p, d)
           S == Fields(b, p, "union")
           t(u) == Objects[b[p][2]].type[u].disc
<1>1. Discriminators(b, p) = {<<Append(P, t(u)), D(t(u))>> : u \in S}
  BY DEF Discriminators, DiscShown
<1> HIDE DEF P, D, S, t
<1>2. \A n \in Discriminators(b, p) : \E u \in S : n[1] = Append(P, t(u)) /\ n[2] = D(t(u))
  BY <1>1
<1>3. \A u \in S : \E n \in Discriminators(b, p) : n[1] = Append(P, t(u))
  <2> SUFFICES ASSUME NEW u \in S
               PROVE  \E n \in Discriminators(b, p) : n[1] = Append(P, t(u))
    OBVIOUS
  <2>1. <<Append(P, t(u)), D(t(u))>> \in Discriminators(b, p)
    BY <1>1
  <2> QED BY <2>1
<1> QED BY <1>2, <1>3 DEF P, D, S, t

(* A buffer as it is when it is printed. *)
Whole(b) == Sound(b) /\ Rows(b)

(* A place right below the one of p is that of a node in p, of an absent   *)
(* scalar, or of the discriminator of a union.                             *)
LEMMA PrintedBelow ==
  ASSUME NEW b, Whole(b), NEW p \in Seen(b), NEW k, Append(Printed(b, p), k) \in DOMAIN Json(b)
  PROVE  LET json == Json(b)[Append(Printed(b, p), k)]
         IN \/ \E y : /\ Append(p, y) \in Seen(b) /\ ~IsDiscriminator(b, Append(p, y))
                      /\ k = Label(b, p, y) /\ json = Shape(b, Append(p, y))
            \/ /\ p \in Tables(b) /\ k \in Fields(b, p, "scalar") /\ Append(p, k) \notin DOMAIN b
               /\ json = DefaultShown(b, p, k)
            \/ /\ p \in Tables(b)
               /\ \E u \in Fields(b, p, "union") : k = Objects[b[p][2]].type[u].disc
               /\ json = DiscShown(b, p, k)
<1> DEFINE P == Printed(b, p)
           x == Append(P, k)
<1>1. Path(p) /\ p \in DOMAIN b
  BY SoundPaths DEF Seen, Whole
<1>2. Path(P) /\ Len(P) \in Nat /\ Len(x) = Len(P) + 1
  <2>1. Path(P)
    BY <1>1, PrintedPath
  <2> HIDE DEF P
  <2> QED BY <2>1, PathGrows
<1>3. PICK n \in Prints(b) : n[1] = x /\ Json(b)[x] = n[2]
  BY JsonPrints
<1> HIDE DEF x
<1>4. ASSUME NEW q \in Seen(b), ~IsDiscriminator(b, q), n = <<Printed(b, q), Shape(b, q)>>
      PROVE  \E y : /\ Append(p, y) \in Seen(b) /\ ~IsDiscriminator(b, Append(p, y))
                    /\ k = Label(b, p, y) /\ n[2] = Shape(b, Append(p, y))
  <2>1. Printed(b, q) = x /\ n[2] = Shape(b, q)
    BY <1>3, <1>4
  <2>2. Path(q) /\ q \in DOMAIN b
    BY SoundPaths DEF Seen, Whole
  <2>3. Len(q) = Len(x)
    BY <2>1, <2>2, PrintedPath
  <2>4. q # <<>>
    BY <1>2, <2>3
  <2>5. PICK c \in DOMAIN b : \E y : q = Append(c, y)
    BY <2>2, <2>4, SoundPaths DEF Whole
  <2>6. PICK y : q = Append(c, y)
    BY <2>5
  <2>7. Path(c)
    BY SoundPaths DEF Whole
  <2>8. c \in Seen(b)
    BY <2>6, <2>7, SeenBegins DEF Whole
  <2>9. Printed(b, c) = P /\ Label(b, c, y) = k
    <3> DEFINE C == Printed(b, c)
               l == Label(b, c, y)
    <3>1. Append(C, l) = Append(P, k)
      BY <2>1, <2>6, <2>7, PrintedGrows DEF x
    <3>2. Path(C)
      BY <2>7, PrintedPath
    <3> HIDE DEF C, l, P
    <3>3. C = P /\ l = k
      BY <1>2, <3>1, <3>2, StepsEqual
    <3> QED BY <3>3 DEF C, l
  <2>10. c = p
    BY <2>8, <2>9, PrintedOnce DEF Whole
  <2> QED BY <1>4, <2>1, <2>6, <2>9, <2>10
<1>5. ASSUME NEW q \in Seen(b), NEW y, n[1] = Append(Printed(b, q), y)
      PROVE  q = p /\ y = k
  <2> DEFINE C == Printed(b, q)
  <2>1. Path(C)
    BY SoundPaths, PrintedPath DEF Seen, Whole
  <2>2. Append(C, y) = Append(P, k)
    BY <1>3, <1>5 DEF x
  <2> HIDE DEF C, P
  <2>3. C = P /\ y = k
    BY <1>2, <2>1, <2>2, StepsEqual
  <2>4. q = p
    BY <2>3, PrintedOnce DEF Whole, C, P
  <2> QED BY <2>3, <2>4
<1>6. \/ \E q \in Seen(b) : ~IsDiscriminator(b, q) /\ n = <<Printed(b, q), Shape(b, q)>>
      \/ \E q \in Seen(b) \cap Tables(b) : n \in Defaults(b, q)
      \/ \E q \in Seen(b) \cap Tables(b) : n \in Discriminators(b, q)
  BY DEF Prints
<1>7. CASE \E q \in Seen(b) : ~IsDiscriminator(b, q) /\ n = <<Printed(b, q), Shape(b, q)>>
  BY <1>3, <1>4, <1>7 DEF x
<1>8. CASE \E q \in Seen(b) \cap Tables(b) : n \in Defaults(b, q)
  <2>1. PICK q \in Seen(b) \cap Tables(b) : n \in Defaults(b, q)
    BY <1>8
  <2>2. PICK f \in Fields(b, q, "scalar") :
          /\ Append(q, f) \notin DOMAIN b
          /\ n[1] = Append(Printed(b, q), f) /\ n[2] = DefaultShown(b, q, f)
    BY <2>1, DefaultsAre
  <2>3. q = p /\ f = k
    BY <1>5, <2>2
  <2> QED BY <1>3, <2>1, <2>2, <2>3 DEF x
<1>9. CASE \E q \in Seen(b) \cap Tables(b) : n \in Discriminators(b, q)
  <2>1. PICK q \in Seen(b) \cap Tables(b) : n \in Discriminators(b, q)
    BY <1>9
  <2>2. PICK u \in Fields(b, q, "union") :
          /\ n[1] = Append(Printed(b, q), Objects[b[q][2]].type[u].disc)
          /\ n[2] = DiscShown(b, q, Objects[b[q][2]].type[u].disc)
    BY <2>1, DiscriminatorsAre
  <2>3. q = p /\ Objects[b[q][2]].type[u].disc = k
    BY <1>5, <2>2
  <2> QED BY <1>3, <2>1, <2>2, <2>3 DEF x
<1> QED BY <1>6, <1>7, <1>8, <1>9

-----------------------------------------------------------------------------
(* The places that from_json looks up. *)

(* The parts of a triple. *)
LEMMA Triples ==
  \A t, x, y, z : t = <<x, y, z>> => t[1] = x /\ t[2] = y /\ t[3] = z
OBVIOUS

(* The parts of a pair. *)
LEMMA Pairs ==
  \A t, x, y : t = <<x, y>> => t[1] = x /\ t[2] = y
OBVIOUS

(* A table is no keyed vector: it prints under the names of its fields.    *)
LEMMA TablesPrintNames ==
  ASSUME NEW b, NEW p, b[p][1] # "vector", NEW y
  PROVE  Label(b, p, y) = y
BY DEF Label, IsKeyed, Node, Absent

(* What is assumed of a field, as the proofs use it. *)
LEMMA FieldTypes ==
  ASSUME NEW o \in DOMAIN Objects, NEW f \in DOMAIN Objects[o].type
  PROVE  /\ Objects[o].type[f].base \in Bases /\ WellTyped(Objects[o].type[f])
         /\ Objects[o].type[f].base = "scalar" =>
              Objects[o].type[f].default[1] \in {"bool", "int", "real"}
         /\ Objects[o].struct => Objects[o].type[f].base \in {"scalar", "struct", "array"}
         /\ Objects[o].type[f].base = "union" =>
              /\ Discriminated(o, Objects[o].type[f])
              /\ \A g \in DOMAIN Objects[o].type :
                   /\ Objects[o].type[g].base = "union"
                   /\ Objects[o].type[g].disc = Objects[o].type[f].disc
                   => f = g
BY SchemaAssumption, Zenon DEF Inline

(* The key of a table is a string or a scalar among its fields. *)
LEMMA KeyTypes ==
  ASSUME NEW o \in DOMAIN Objects, KeyField(o) # NoKey
  PROVE  /\ KeyField(o) \in DOMAIN Objects[o].type
         /\ Objects[o].type[KeyField(o)].base \in {"string", "scalar"}
         /\ \E i \in DOMAIN Objects[o].order : Objects[o].order[i] = KeyField(o)
         /\ Objects[o].type[KeyField(o)].base = "scalar" =>
              Kinds[Objects[o].type[KeyField(o)].of].sort \in {"bool", "signed", "unsigned", "float"}
<1>1. Keyed(o) /\ Objects[o].order \in Seq(DOMAIN Objects[o].type)
  BY SchemaAssumption, Zenon DEF KeyField
<1>2. PICK i \in DOMAIN Objects[o].order : Objects[o].order[i] = KeyField(o)
  BY <1>1 DEF Keyed, KeyField
<1>3. KeyField(o) \in DOMAIN Objects[o].type
  BY <1>1, <1>2
<1>4. Objects[o].type[KeyField(o)].base \in {"string", "scalar"}
  BY <1>1 DEF Keyed, KeyField
<1>5. WellTyped(Objects[o].type[KeyField(o)])
  BY <1>3, FieldTypes
<1>6. Objects[o].type[KeyField(o)].base = "scalar" => Objects[o].type[KeyField(o)].of \in DOMAIN Kinds
  BY <1>5 DEF WellTyped, Refers
<1>7. \A k \in DOMAIN Kinds : Kinds[k].sort \in {"bool", "signed", "unsigned", "float"}
  BY KindsAssumption
<1> QED BY <1>2, <1>3, <1>4, <1>6, <1>7

(* All places of a printed document are paths. *)
LEMMA JsonPaths ==
  ASSUME NEW b, Sound(b), NEW x \in DOMAIN Json(b)
  PROVE  Path(x)
<1>1. PICK n \in Prints(b) : n[1] = x
  BY JsonPrints
<1>2. \A p \in Seen(b) : Path(Printed(b, p))
  BY SoundPaths, PrintedPath DEF Seen
<1>3. \A p \in Seen(b) : \A k : Path(Append(Printed(b, p), k))
  <2> SUFFICES ASSUME NEW p \in Seen(b), NEW k
               PROVE  Path(Append(Printed(b, p), k))
    OBVIOUS
  <2> DEFINE P == Printed(b, p)
  <2>1. Path(P)
    BY <1>2
  <2> HIDE DEF P
  <2>2. Path(Append(P, k))
    BY <2>1, PathGrows
  <2> QED BY <2>2 DEF P
<1>4. \/ \E p \in Seen(b) : n = <<Printed(b, p), Shape(b, p)>>
      \/ \E p \in Seen(b) : n \in Defaults(b, p)
      \/ \E p \in Seen(b) : n \in Discriminators(b, p)
  BY DEF Prints
<1>5. CASE \E p \in Seen(b) : n = <<Printed(b, p), Shape(b, p)>>
  BY <1>1, <1>2, <1>5
<1>6. CASE \E p \in Seen(b) : n \in Defaults(b, p)
  <2>1. PICK p \in Seen(b) : n \in Defaults(b, p)
    BY <1>6
  <2>2. PICK f \in Fields(b, p, "scalar") : n[1] = Append(Printed(b, p), f)
    BY <2>1, DefaultsAre
  <2> QED BY <1>1, <1>3, <2>2
<1>7. CASE \E p \in Seen(b) : n \in Discriminators(b, p)
  <2>1. PICK p \in Seen(b) : n \in Discriminators(b, p)
    BY <1>7
  <2>2. PICK u \in Fields(b, p, "union") : n[1] = Append(Printed(b, p), Objects[b[p][2]].type[u].disc)
    BY <2>1, DiscriminatorsAre
  <2> QED BY <1>1, <1>3, <2>2
<1> QED BY <1>4, <1>5, <1>6, <1>7

(* What is not a scalar is printed of a node of the buffer. *)
LEMMA ChildPrinted ==
  ASSUME NEW b, Whole(b), NEW p \in Seen(b), NEW k, Append(Printed(b, p), k) \in DOMAIN Json(b),
         \/ b[p][1] = "vector"
         \/ /\ b[p][1] = "table" /\ k \in DOMAIN Objects[b[p][2]].type
            /\ Objects[b[p][2]].type[k].base \notin {"scalar", "disc"}
  PROVE  \E y : /\ Append(p, y) \in Seen(b) /\ k = Label(b, p, y)
                /\ Printed(b, Append(p, y)) = Append(Printed(b, p), k)
                /\ Json(b)[Append(Printed(b, p), k)] = Shape(b, Append(p, y))
<1> DEFINE json == Json(b)[Append(Printed(b, p), k)]
<1>1. p \in DOMAIN b /\ Path(p) /\ Known(b[p])
  BY SoundPaths DEF Seen, Whole
<1>2. \/ \E y : /\ Append(p, y) \in Seen(b) /\ ~IsDiscriminator(b, Append(p, y))
                /\ k = Label(b, p, y) /\ json = Shape(b, Append(p, y))
      \/ p \in Tables(b) /\ k \in Fields(b, p, "scalar")
      \/ p \in Tables(b) /\ \E u \in Fields(b, p, "union") : k = Objects[b[p][2]].type[u].disc
  BY PrintedBelow
<1>3. CASE \E y : /\ Append(p, y) \in Seen(b) /\ k = Label(b, p, y) /\ json = Shape(b, Append(p, y))
  BY <1>1, <1>3, PrintedGrows
<1>4. ~(p \in Tables(b) /\ k \in Fields(b, p, "scalar"))
  BY DEF Tables, Fields
<1>5. ASSUME p \in Tables(b), NEW u \in Fields(b, p, "union"), k = Objects[b[p][2]].type[u].disc
      PROVE  FALSE
  <2> DEFINE o == b[p][2]
  <2>1. o \in DOMAIN Objects /\ b[p][1] = "table"
    BY <1>1, <1>5 DEF Tables, Known
  <2>2. u \in DOMAIN Objects[o].type /\ Objects[o].type[u].base = "union"
    BY DEF Fields
  <2>3. Discriminated(o, Objects[o].type[u])
    BY <2>1, <2>2, FieldTypes
  <2>4. Objects[o].type[k].base = "disc"
    BY <1>5, <2>3, Zenon DEF Discriminated
  <2> QED BY <2>1, <2>4
<1> QED BY <1>2, <1>3, <1>4, <1>5

(* The name of a union's variant is printed for its discriminator. *)
LEMMA DiscPrinted ==
  ASSUME NEW b, Whole(b), NEW p \in Seen(b), b[p][1] = "table",
         NEW u \in DOMAIN Objects[b[p][2]].type, Objects[b[p][2]].type[u].base = "union",
         NEW v \in DOMAIN Variants[Objects[b[p][2]].type[u].of],
         Told(b, p, Objects[b[p][2]].type[u].disc, v)
  PROVE  Node(Json(b), Append(Printed(b, p), Objects[b[p][2]].type[u].disc)) = <<"string", v>>
<1> DEFINE o == b[p][2]
           d == Objects[o].type[u].disc
           x == Append(Printed(b, p), d)
           kind == Kinds[Objects[o].type[d].of]
<1>1. p \in DOMAIN b /\ Path(p) /\ Known(b[p]) /\ o \in DOMAIN Objects /\ p \in Tables(b)
  BY SoundPaths DEF Seen, Whole, Known, Tables
<1>2. u \in Fields(b, p, "union")
  BY DEF Fields
<1>3. /\ Objects[o].type[d].base = "disc" /\ v \in DOMAIN kind.names
      /\ \A w \in DOMAIN kind.names : kind.names[w] = kind.names[v] => w = v
  <2>1. Discriminated(o, Objects[o].type[u])
    BY <1>1, FieldTypes
  <2> QED BY <2>1, Zenon DEF Discriminated
<1>4. x \in DOMAIN Json(b)
  <2>1. PICK n \in Discriminators(b, p) : n[1] = x
    BY <1>2, DiscriminatorsAre
  <2>2. n \in Prints(b)
    BY <1>1, <2>1 DEF Prints
  <2> QED BY <2>1, <2>2, JsonPrints, Zenon
<1>5. \/ \E y : /\ Append(p, y) \in Seen(b) /\ ~IsDiscriminator(b, Append(p, y))
                /\ d = Label(b, p, y)
      \/ d \in Fields(b, p, "scalar")
      \/ Json(b)[x] = DiscShown(b, p, d)
  BY <1>4, PrintedBelow
<1>6. ~(d \in Fields(b, p, "scalar"))
  BY <1>3, Zenon DEF Fields
<1>7. ASSUME NEW y, ~IsDiscriminator(b, Append(p, y)), d = Label(b, p, y)
      PROVE  FALSE
  <2> DEFINE q == Append(p, y)
  <2>1. y = d
    BY <1>7, TablesPrintNames
  <2>2. Len(p) \in Nat /\ Len(q) = Len(p) + 1 /\ q[Len(p) + 1] = y
    BY <1>1, PathGrows
  <2>3. Len(p) \in 0 .. Len(p)
    BY <2>2
  <2>4. SubSeq(q, 1, Len(p)) = p
    BY <1>1, <2>3, StepBegins
  <2> HIDE DEF q
  <2>5. Len(q) - 1 = Len(p) /\ q[Len(q)] = d /\ q # <<>>
    BY <2>1, <2>2
  <2>6. IsDiscriminator(b, q)
    BY <1>3, <2>4, <2>5, Zenon DEF IsDiscriminator
  <2> QED BY <1>7, <2>6 DEF q
<1>8. Json(b)[x] = DiscShown(b, p, d)
  BY <1>5, <1>6, <1>7, Zenon
<1>9. DiscShown(b, p, d) = Shown(kind, <<"int", kind.names[v]>>)
  <2>1. Append(p, d) \in DOMAIN b /\ b[Append(p, d)] = <<"scalar", kind, <<"int", kind.names[v]>>>>
    BY Zenon DEF Told
  <2>2. b[Append(p, d)][3] = <<"int", kind.names[v]>>
    <3> DEFINE value == <<"int", kind.names[v]>>
    <3>1. b[Append(p, d)] = <<"scalar", kind, value>>
      BY <2>1, Zenon
    <3> HIDE DEF value, kind
    <3>2. b[Append(p, d)][3] = value
      BY <3>1, Triples, Zenon
    <3> QED BY <3>2, Zenon DEF value
  <2> QED BY <2>1, <2>2, Zenon DEF DiscShown
<1> HIDE DEF kind
<1>10. Shown(kind, <<"int", kind.names[v]>>) = <<"string", v>>
  <2> DEFINE named == {name \in DOMAIN kind.names : kind.names[name] = kind.names[v]}
  <2>1. named = {v}
    BY <1>3
  <2>2. (CHOOSE name \in named : TRUE) = v
    BY <2>1
  <2>3. Shown(kind, <<"int", kind.names[v]>>) =
          IF named # {} THEN <<"string", CHOOSE name \in named : TRUE>> ELSE <<"int", kind.names[v]>>
    BY DEF Shown
  <2> HIDE DEF named
  <2> QED BY <2>1, <2>2, <2>3
<1> QED BY <1>4, <1>8, <1>9, <1>10 DEF Node

(* The discriminator printed with a union names the variant of its value.  *)
LEMMA VariantPrinted ==
  ASSUME NEW b, Whole(b), NEW p \in Seen(b), NEW o, b[p][1] = "table", b[p][2] = o,
         NEW u \in DOMAIN Objects[o].type, NEW t, t = Objects[o].type[u], t.base = "union",
         NEW v \in DOMAIN Variants[t.of], Told(b, p, t.disc, v)
  PROVE  Node(Json(b), Append(Printed(b, p), t.disc)) = <<"string", v>>
<1>1. /\ u \in DOMAIN Objects[b[p][2]].type /\ Objects[b[p][2]].type[u].base = "union"
      /\ v \in DOMAIN Variants[Objects[b[p][2]].type[u].of]
      /\ Told(b, p, Objects[b[p][2]].type[u].disc, v)
  OBVIOUS
<1>2. Node(Json(b), Append(Printed(b, p), Objects[b[p][2]].type[u].disc)) = <<"string", v>>
  BY <1>1, DiscPrinted
<1> QED BY <1>2

-----------------------------------------------------------------------------
(* The call in progress, and what it looks up in the document. *)

(* The call in progress, and the item that is due in it. *)
LEMMA DueIs ==
  ASSUME Nested, Building
  PROVE  /\ Len(frames) \in Nat /\ DOMAIN frames = 1 .. Len(frames)
         /\ Len(frames) \in DOMAIN frames /\ Top = frames[Len(frames)]
         /\ Open(Top) /\ Path(Top.to) /\ Path(To) /\ To = Append(Top.to, Due.slot)
         /\ Path(Top.todo) /\ Len(Top.todo) \in Nat /\ Len(Top.todo) # 0
         /\ DOMAIN Top.todo = 1 .. Len(Top.todo)
         /\ Due = Top.todo[1] /\ 1 \in DOMAIN Top.todo
<1>1. frames # <<>> /\ Top.todo # <<>> /\ Grown(frames, Tables(buffer))
  BY DEF Building, Nested
<1>2. Len(frames) \in Nat /\ DOMAIN frames = 1 .. Len(frames) /\ Len(frames) \in DOMAIN frames
  BY <1>1, GrownDomain
<1>3. Open(Top)
  BY <1>1, <1>2 DEF Grown, Top
<1>4. Path(Top.to) /\ Path(Top.todo)
  BY <1>3 DEF Open, Pending
<1>5. Path(To)
  BY <1>4, PathGrows DEF To
<1> DEFINE todo == Top.todo
           own == {todo[k] : k \in DOMAIN todo}
<1>6. todo \in Seq(own) /\ todo # <<>>
  BY <1>1, <1>4 DEF Path
<1> HIDE DEF own, todo
<1>7. /\ Len(todo) \in Nat /\ Len(todo) # 0 /\ DOMAIN todo = 1 .. Len(todo)
      /\ Head(todo) = todo[1] /\ 1 \in DOMAIN todo
  BY <1>6
<1> QED BY <1>2, <1>3, <1>4, <1>5, <1>7 DEF Top, To, Due, todo

(* The stack once the item that is due has been taken. *)
LEMMA RestIs ==
  ASSUME Nested, Building
  PROVE  LET n == Len(frames)
         IN  /\ Len(Rest) = n /\ DOMAIN Rest = DOMAIN frames
             /\ \A i \in DOMAIN frames : i # n => Rest[i] = frames[i]
             /\ \A i \in DOMAIN frames : Rest[i].to = frames[i].to
             /\ Rest[n].op = Top.op /\ Rest[n].from = Top.from /\ Rest[n].to = Top.to
             /\ Rest[n].type = Top.type /\ Rest[n].over = Top.over
             /\ Len(Rest[n].todo) = Len(Top.todo) - 1
             /\ DOMAIN Rest[n].todo = 1 .. (Len(Top.todo) - 1)
             /\ \A k \in DOMAIN Rest[n].todo :
                  k + 1 \in DOMAIN Top.todo /\ k + 1 # 1 /\ Rest[n].todo[k] = Top.todo[k + 1]
<1> DEFINE n == Len(frames)
           todo == Top.todo
           tail == Tail(todo)
           own == {todo[k] : k \in DOMAIN todo}
           ends == [Top EXCEPT !.todo = tail]
           s == frames
<1>1. n \in Nat /\ DOMAIN frames = 1 .. n /\ n \in DOMAIN frames /\ Top = frames[n] /\ Open(Top)
  BY DueIs
<1>2. Path(s) /\ todo \in Seq(own) /\ todo # <<>>
  BY DueIs DEF Nested, Grown, Path, Building
<1>3. Rest = [s EXCEPT ![n] = ends]
  BY DEF Rest, Top
<1>4. /\ ends.op = Top.op /\ ends.from = Top.from /\ ends.to = Top.to
      /\ ends.type = Top.type /\ ends.over = Top.over /\ ends.todo = tail
  <2> DEFINE F == Top
  <2>1. DOMAIN F = {"op", "from", "to", "type", "depth", "over", "todo"}
    BY <1>1 DEF Open
  <2>2. ends = [F EXCEPT !.todo = tail]
    OBVIOUS
  <2> HIDE DEF F, ends, tail
  <2>3. /\ ends.op = F.op /\ ends.from = F.from /\ ends.to = F.to
        /\ ends.type = F.type /\ ends.over = F.over /\ ends.todo = tail
    BY <2>1, <2>2
  <2> QED BY <2>3 DEF F
<1> HIDE DEF own, todo
<1>5. /\ Len(todo) \in Nat /\ Len(todo) # 0 /\ DOMAIN todo = 1 .. Len(todo)
      /\ Len(tail) = Len(todo) - 1 /\ DOMAIN tail = 1 .. (Len(todo) - 1)
      /\ \A k \in DOMAIN tail : k + 1 \in DOMAIN todo /\ k + 1 # 1 /\ tail[k] = todo[k + 1]
  BY <1>2
<1> HIDE DEF tail, ends, n, s
<1>6. /\ Len(Rest) = n /\ DOMAIN Rest = DOMAIN frames
      /\ \A i \in DOMAIN frames : Rest[i] = IF i = n THEN ends ELSE frames[i]
  <2> DEFINE all == {s[i] : i \in DOMAIN s}
  <2>1. s \in Seq(all) /\ Len(s) = n
    BY <1>2 DEF Path, n, s
  <2> HIDE DEF all
  <2>2. /\ Len(Rest) = n /\ DOMAIN Rest = DOMAIN s
        /\ \A i \in DOMAIN s : Rest[i] = IF i = n THEN ends ELSE s[i]
    BY <1>3, <2>1
  <2> QED BY <2>2 DEF s
<1> QED BY <1>1, <1>4, <1>5, <1>6 DEF n, todo

(* No two calls build the same node. *)
LEMMA CallsApart ==
  ASSUME NEW s, NEW T, Grown(s, T), NEW i \in DOMAIN s, NEW j \in DOMAIN s, s[i].to = s[j].to
  PROVE  i = j
<1>1. Len(s) \in Nat /\ DOMAIN s = 1 .. Len(s)
  BY GrownDomain
<1>2. Path(s[i].to) /\ Len(s[i].to) \in Nat
  BY PathGrows DEF Grown, Open
<1>3. ~(i < j) /\ ~(j < i)
  BY <1>1, <1>2 DEF Grown, Inward
<1> QED BY <1>1, <1>3

(* What the invariant says of the call in progress. *)
LEMMA DueFits ==
  ASSUME Ordered, Building
  PROVE  /\ Nested /\ Sound(buffer) /\ CallFits(doc, first, buffer, Top) /\ ItemFits(doc, first, buffer, Top, Due)
         /\ Top.to \in DOMAIN buffer /\ Known(buffer[Top.to])
         /\ Path(Top.from) /\ Path(From) /\ From = Append(Top.from, Due.key)
         /\ WellTyped(Type)
         /\ first # Empty => Reads(first, buffer, Top) /\ Whole(first) /\ doc = Json(first)
<1>1. Nested /\ Shaped(doc, first, frames, buffer)
  BY DEF Ordered
<1>2. Len(frames) \in DOMAIN frames /\ Top = frames[Len(frames)] /\ Due = Top.todo[1] /\ 1 \in DOMAIN Top.todo
  BY <1>1, DueIs
<1>3. Sound(buffer) /\ CallFits(doc, first, buffer, Top)
  BY <1>1, <1>2 DEF Shaped
<1>4. ItemFits(doc, first, buffer, Top, Due) /\ Top.to \in DOMAIN buffer /\ Path(Top.from)
  BY <1>2, <1>3 DEF CallFits
<1>5. Known(buffer[Top.to])
  BY <1>3, <1>4, SoundPaths
<1>6. From = Append(Top.from, Due.key) /\ Path(From)
  BY <1>4, PathGrows DEF From
<1>7. WellTyped(Type)
  BY <1>1, RestNested
<1>8. first # Empty => Reads(first, buffer, Top) /\ Whole(first) /\ doc = Json(first)
  BY <1>1, <1>2 DEF Shaped, Ordered, Whole, Rows
<1> QED BY <1>1, <1>3, <1>4, <1>5, <1>6, <1>7, <1>8

(* The operation of a call tells the node it builds. *)
LEMMA OpIs ==
  ASSUME NEW d, NEW was, NEW b, NEW F, CallFits(d, was, b, F)
  PROVE  /\ F.op \in Ops
         /\ F.op = "table" => b[F.to] = <<"table", F.type>> /\ b[F.to][1] = "table" /\ b[F.to][2] = F.type
         /\ F.op \in {"struct", "variant"} =>
              b[F.to] = <<"struct", F.type>> /\ b[F.to][1] = "struct" /\ b[F.to][2] = F.type
         /\ F.op \in {"vector", "array"} => b[F.to][1] = F.op
BY DEF CallFits

(* The type of an item of the call in progress, by the kind of call. *)
LEMMA DueTypes ==
  ASSUME Ordered, Building
  PROVE  /\ Top.op \in Ops
         /\ Top.op \in {"vector", "array"} =>
              /\ buffer[Top.to][1] = Top.op /\ Type = ElementType(buffer[Top.to]) /\ Due.need = "value"
              /\ Type.base = buffer[Top.to][2].elem /\ Type.of = buffer[Top.to][2].of
              /\ Type.base \notin {"vector", "array", "union"}
              /\ OverFits(first, Due.over, buffer[Top.to][2].of)
              /\ To \notin DOMAIN buffer
         /\ Top.op = "array" => Type.base \in {"scalar", "struct"}
         /\ Top.op \notin {"vector", "array"} =>
              /\ Top.type \in DOMAIN Objects /\ Due.key \in DOMAIN Objects[Top.type].type
              /\ Due.slot = Due.key /\ Due.over = <<>>
              /\ \/ Type = Objects[Top.type].type[Due.key]
                 \/ /\ Top.op = "table" /\ Objects[Top.type].type[Due.key].base = "union"
                    /\ Type.base \notin {"vector", "array", "union"}
                    /\ \E v : /\ Chosen(doc, buffer, Top, Objects[Top.type].type[Due.key], v)
                              /\ Type = Variants[Objects[Top.type].type[Due.key].of][v]
              /\ To \in DOMAIN buffer => Top.op = "table" /\ Objects[Top.type].type[Due.key].base = "disc"
         /\ Top.op = "table" => buffer[Top.to] = <<"table", Top.type>> /\ buffer[Top.to][2] = Top.type
         /\ Top.op \in {"struct", "variant"} =>
              buffer[Top.to] = <<"struct", Top.type>> /\ Type.base \in {"scalar", "struct", "array"}
<1>1. /\ CallFits(doc, first, buffer, Top) /\ ItemFits(doc, first, buffer, Top, Due) /\ Known(buffer[Top.to])
      /\ To = Append(Top.to, Due.slot)
  BY DueFits, DueIs
<1>2. /\ Top.op \in Ops
      /\ Top.op = "table" => buffer[Top.to] = <<"table", Top.type>> /\ buffer[Top.to][1] = "table" /\ buffer[Top.to][2] = Top.type
      /\ Top.op \in {"struct", "variant"} =>
           buffer[Top.to] = <<"struct", Top.type>> /\ buffer[Top.to][1] = "struct" /\ buffer[Top.to][2] = Top.type
      /\ Top.op \in {"vector", "array"} => buffer[Top.to][1] = Top.op
  <2> DEFINE F == Top
  <2>1. CallFits(doc, first, buffer, F)
    BY <1>1
  <2> HIDE DEF F
  <2>2. /\ F.op \in Ops
        /\ F.op = "table" => buffer[F.to] = <<"table", F.type>> /\ buffer[F.to][1] = "table" /\ buffer[F.to][2] = F.type
        /\ F.op \in {"struct", "variant"} =>
             buffer[F.to] = <<"struct", F.type>> /\ buffer[F.to][1] = "struct" /\ buffer[F.to][2] = F.type
        /\ F.op \in {"vector", "array"} => buffer[F.to][1] = F.op
    BY <2>1, OpIs
  <2> QED BY <2>2 DEF F
<1>3. ASSUME Top.op \in {"vector", "array"}
      PROVE  /\ Type = ElementType(buffer[Top.to]) /\ Due.need = "value"
             /\ Type.base = buffer[Top.to][2].elem /\ Type.of = buffer[Top.to][2].of
             /\ Type.base \notin {"vector", "array", "union"}
             /\ OverFits(first, Due.over, buffer[Top.to][2].of)
             /\ To \notin DOMAIN buffer
             /\ Top.op = "array" => Type.base \in {"scalar", "struct"}
  <2>1. /\ Type = ElementType(buffer[Top.to]) /\ Due.need = "value"
        /\ OverFits(first, Due.over, buffer[Top.to][2].of) /\ To \notin DOMAIN buffer
    BY <1>1, <1>3 DEF ItemFits, Type
  <2>2. WellTyped(buffer[Top.to][2]) /\ buffer[Top.to][2].base = Top.op
    BY <1>1, <1>2, <1>3 DEF Known
  <2>3. Type.base = buffer[Top.to][2].elem /\ Type.of = buffer[Top.to][2].of
    BY <2>1 DEF ElementType
  <2>4. /\ buffer[Top.to][2].elem \notin {"vector", "array", "union"}
        /\ Top.op = "array" => buffer[Top.to][2].elem \in {"scalar", "struct"}
    BY <1>3, <2>2 DEF WellTyped
  <2> QED BY <2>1, <2>3, <2>4
<1>4. ASSUME Top.op \notin {"vector", "array"}
      PROVE  /\ Top.type \in DOMAIN Objects /\ Due.key \in DOMAIN Objects[Top.type].type
             /\ Due.slot = Due.key /\ Due.over = <<>>
             /\ \/ Type = Objects[Top.type].type[Due.key]
                \/ /\ Top.op = "table" /\ Objects[Top.type].type[Due.key].base = "union"
                   /\ Type.base \notin {"vector", "array", "union"}
                   /\ \E v : /\ Chosen(doc, buffer, Top, Objects[Top.type].type[Due.key], v)
                             /\ Type = Variants[Objects[Top.type].type[Due.key].of][v]
             /\ To \in DOMAIN buffer => Top.op = "table" /\ Objects[Top.type].type[Due.key].base = "disc"
  <2>1. Top.type \in DOMAIN Objects
    BY <1>1, <1>2, <1>4 DEF Known, Ops
  <2>2. /\ Due.key \in DOMAIN Objects[Top.type].type /\ Due.slot = Due.key /\ Due.over = <<>>
        /\ To \in DOMAIN buffer => Top.op = "table" /\ Objects[Top.type].type[Due.key].base = "disc"
    BY <1>1, <1>4, Zenon DEF ItemFits
  <2>3. \/ Type = Objects[Top.type].type[Due.key]
        \/ /\ Top.op = "table" /\ Objects[Top.type].type[Due.key].base = "union"
           /\ \E v : /\ Chosen(doc, buffer, Top, Objects[Top.type].type[Due.key], v)
                     /\ Type = Variants[Objects[Top.type].type[Due.key].of][v]
    BY <1>1, <1>4, Zenon DEF ItemFits, Type
  <2>4. WellTyped(Objects[Top.type].type[Due.key])
    BY <2>1, <2>2, FieldTypes
  <2>5. ASSUME Objects[Top.type].type[Due.key].base = "union",
               NEW v, Chosen(doc, buffer, Top, Objects[Top.type].type[Due.key], v),
               Type = Variants[Objects[Top.type].type[Due.key].of][v]
        PROVE  Type.base \notin {"vector", "array", "union"}
    BY <2>4, <2>5, Zenon DEF WellTyped, Chosen
  <2> QED BY <2>1, <2>2, <2>3, <2>5, Zenon
<1>5. ASSUME Top.op \in {"struct", "variant"}
      PROVE  Type.base \in {"scalar", "struct", "array"}
  <2>1. Objects[Top.type].struct
    BY <1>1, <1>2, <1>5 DEF Known
  <2> QED BY <1>4, <1>5, <2>1, FieldTypes
<1> QED BY <1>2, <1>3, <1>4, <1>5

(* A merged key is a string or an integer, of a table only. *)
LEMMA MergedIs ==
  ASSUME Ordered, Building
  PROVE  /\ Value = Node(doc, From) \/ Value = Top.over[2]
         /\ Value # Node(doc, From) =>
              /\ Top.op = "table" /\ Top.over # <<>> /\ Top.over[1] = Due.key /\ Value = Top.over[2]
              /\ KeyField(Top.type) # NoKey /\ Due.key = KeyField(Top.type)
              /\ Value[1] \in {"string", "int"} /\ OverFits(first, Top.over, Top.type)
<1>1. CallFits(doc, first, buffer, Top)
  BY DueFits
<1>2. /\ Top.over # <<>> => Top.op = "table" /\ OverFits(first, Top.over, Top.type)
  BY <1>1 DEF CallFits
<1>3. Value = IF Top.over # <<>> /\ Top.over[1] = Due.key THEN Top.over[2] ELSE Node(doc, From)
  BY DEF Value
<1> QED BY <1>2, <1>3 DEF OverFits

(* An object or an array is in the document. *)
LEMMA ObjectGiven ==
  ASSUME Ordered, Building, Value[1] \in {"object", "array"}
  PROVE  From \in DOMAIN doc /\ Value = doc[From]
<1>1. Value = Node(doc, From)
  BY MergedIs
<1> QED BY <1>1 DEF Node, Absent

(* So it does for the union that the call in progress reads. *)
LEMMA TopVariantPrinted ==
  ASSUME Whole(first), NEW p \in Seen(first), first[p][1] = "table", first[p][2] = Top.type,
         Due.key \in DOMAIN Objects[Top.type].type, Objects[Top.type].type[Due.key].base = "union",
         NEW v \in DOMAIN Variants[Objects[Top.type].type[Due.key].of],
         Told(first, p, Objects[Top.type].type[Due.key].disc, v)
  PROVE  Node(Json(first), Append(Printed(first, p), Objects[Top.type].type[Due.key].disc)) = <<"string", v>>
<1> DEFINE t == Objects[Top.type].type[Due.key]
<1>1. t = Objects[Top.type].type[Due.key] /\ t.base = "union" /\ v \in DOMAIN Variants[t.of] /\ Told(first, p, t.disc, v)
  OBVIOUS
<1> HIDE DEF t
<1>2. Node(Json(first), Append(Printed(first, p), t.disc)) = <<"string", v>>
  BY <1>1, VariantPrinted
<1> QED BY <1>2 DEF t

(* What a table or a vector is built of is what was printed of another.    *)
LEMMA ChildRead ==
  ASSUME Ordered, Building, first # Empty, Type.base \in {"table", "vector"}, From \in DOMAIN doc
  PROVE  \E q \in Seen(first) :
           Printed(first, q) = From /\ Fits(first[q], Type) /\ doc[From] = Shape(first, q)
<1>1. Top.op \in {"table", "vector"}
  BY DueTypes DEF Ops
<1>2. PICK p \in Seen(first) : Printed(first, p) = Top.from /\ first[p] = buffer[Top.to]
  BY <1>1, DueFits DEF Reads
<1>3. Whole(first) /\ doc = Json(first) /\ From = Append(Printed(first, p), Due.key)
  BY <1>2, DueFits
<1>4. Path(p) /\ p \in DOMAIN first /\ Known(first[p])
  BY <1>3, SoundPaths DEF Seen, Whole
<1>5. \A y : Append(p, y) \in Seen(first) => ChildFits(first, p, y)
  BY <1>3, <1>4, SoundPaths DEF Seen, Whole
<1>6. CASE Top.op = "vector"
  <2>1. first[p][1] = "vector" /\ Type = ElementType(first[p])
    BY <1>2, <1>6, DueTypes
  <2>2. PICK y : /\ Append(p, y) \in Seen(first)
                 /\ Printed(first, Append(p, y)) = From
                 /\ doc[From] = Shape(first, Append(p, y))
    BY <1>3, <2>1, ChildPrinted
  <2>3. Fits(first[Append(p, y)], Type)
    BY <1>5, <2>1, <2>2 DEF ChildFits
  <2> QED BY <2>2, <2>3
<1>7. CASE Top.op = "table"
  <2> DEFINE t == Objects[Top.type].type[Due.key]
  <2>0. first[p] = <<"table", Top.type>>
    BY <1>2, <1>7, DueTypes
  <2>1. /\ Due.key \in DOMAIN Objects[Top.type].type
        /\ \/ Type = t
           \/ t.base = "union" /\ \E v : Chosen(doc, buffer, Top, t, v) /\ Type = Variants[t.of][v]
    BY <1>7, DueTypes, Zenon
  <2>2. first[p][1] = "table" /\ first[p][2] = Top.type
    BY <2>0, Pairs
  <2>3. t.base \notin {"scalar", "disc"}
    <3> HIDE DEF t
    <3>1. Type = t \/ t.base = "union"
      BY <2>1
    <3> QED BY <3>1
  <2>4. PICK y : /\ Append(p, y) \in Seen(first) /\ Due.key = Label(first, p, y)
                 /\ Printed(first, Append(p, y)) = From
                 /\ doc[From] = Shape(first, Append(p, y))
    <3>1. /\ Due.key \in DOMAIN Objects[first[p][2]].type
          /\ Objects[first[p][2]].type[Due.key].base \notin {"scalar", "disc"}
      BY <2>1, <2>2, <2>3, Zenon
    <3> HIDE DEF t
    <3> QED BY <1>3, <2>2, <3>1, ChildPrinted
  <2>5. y = Due.key
    BY <2>2, <2>4, TablesPrintNames
  <2> DEFINE here == first[Append(p, Due.key)]
  <2>6. \/ t.base # "union" /\ Fits(here, t)
        \/ t.base = "union" /\ \E v \in DOMAIN Variants[t.of] : Fits(here, Variants[t.of][v]) /\ Told(first, p, t.disc, v)
    <3>1. ChildFits(first, p, Due.key)
      BY <1>5, <2>4, <2>5
    <3> QED BY <2>2, <3>1, Zenon DEF ChildFits
  <2>7. CASE t.base # "union"
    <3>1. Fits(here, Type)
      BY <2>1, <2>6, <2>7, Zenon
    <3> QED BY <2>4, <2>5, <3>1
  <2>8. CASE t.base = "union"
    <3>1. PICK v \in DOMAIN Variants[t.of] : Fits(here, Variants[t.of][v]) /\ Told(first, p, t.disc, v)
      BY <2>6, <2>8
    <3>2. Type # t
      BY <2>8
    <3>3. PICK w : Chosen(doc, buffer, Top, t, w) /\ Type = Variants[t.of][w]
      BY <2>1, <3>2, Zenon
    <3>4. Node(doc, Append(Top.from, t.disc))[2] = w
      BY <3>3, Zenon DEF Chosen, Says
    <3>5. Node(doc, Append(Top.from, t.disc))[2] = v
      <4>1. Node(Json(first), Append(Printed(first, p), t.disc)) = <<"string", v>>
        BY <1>3, <2>1, <2>2, <2>8, <3>1, TopVariantPrinted, Zenon
      <4> QED BY <1>2, <1>3, <4>1
    <3>6. v = w
      BY <3>4, <3>5
    <3> QED BY <2>4, <2>5, <3>1, <3>3, <3>6, Zenon
  <2> QED BY <2>7, <2>8
<1> QED BY <1>1, <1>6, <1>7

(* The scalar field f of the table at q as it is printed. *)
LEMMA EntryPrinted ==
  ASSUME NEW b, Whole(b), NEW q \in Seen(b), NEW o \in DOMAIN Objects, b[q] = <<"table", o>>,
         NEW f \in DOMAIN Objects[o].type, Objects[o].type[f].base = "scalar"
  PROVE  LET s == IF Append(q, f) \in DOMAIN b THEN b[Append(q, f)][3] ELSE Objects[o].type[f].default
             x == Append(Printed(b, q), f)
         IN /\ x \in DOMAIN Json(b) /\ s[1] # "absent"
            /\ Json(b)[x] = s \/ Json(b)[x][1] = "string"
<1> DEFINE s == IF Append(q, f) \in DOMAIN b THEN b[Append(q, f)][3] ELSE Objects[o].type[f].default
           x == Append(Printed(b, q), f)
           a == Append(q, f)
<1>1. Path(q) /\ q \in DOMAIN b /\ b[q][1] = "table" /\ b[q][2] = o /\ q \in Tables(b)
  BY SoundPaths DEF Seen, Whole, Tables
<1>2. f \in Fields(b, q, "scalar")
  BY <1>1 DEF Fields
<1>3. \A kind, value : Shown(kind, value) = value \/ Shown(kind, value)[1] = "string"
  BY DEF Shown
<1>4. ASSUME a \in DOMAIN b
      PROVE  b[a][1] = "scalar" /\ b[a][3][1] # "absent" /\ a \in Seen(b) /\ ~IsDiscriminator(b, a)
  <2>1. ChildFits(b, q, f) /\ Known(b[a])
    BY <1>1, <1>4, SoundPaths DEF Whole
  <2>2. Fits(b[a], Objects[o].type[f])
    BY <1>1, <2>1 DEF ChildFits
  <2>3. b[a][1] = "scalar" /\ b[a][3][1] # "absent"
    BY <2>1, <2>2 DEF Fits, Tag, Known
  <2>4. /\ Len(q) \in Nat /\ Len(a) = Len(q) + 1 /\ a[Len(q) + 1] = f
        /\ \A i \in 1 .. Len(q) : a[i] = q[i]
    BY <1>1, PathGrows
  <2>5. \A i \in 0 .. Len(q) : SubSeq(a, 1, i) = SubSeq(q, 1, i)
    BY <1>1, StepBegins
  <2>6. SubSeq(q, 1, Len(q)) = q
    BY <1>1, StepBegins
  <2> HIDE DEF a
  <2>7. SubSeq(a, 1, Len(q)) = q
    BY <2>4, <2>5, <2>6
  <2>8. ~Hidden(b, a)
    <3> SUFFICES ASSUME NEW i \in 1 .. Len(a), IsKeyed(b, SubSeq(a, 1, i - 1)),
                        NEW j \in Place(a[i]) + 1 .. Cardinality(KeysAt(b, SubSeq(a, 1, i - 1))),
                        KeyText(b, Append(SubSeq(a, 1, i - 1), Position[j]))
                          = KeyText(b, Append(SubSeq(a, 1, i - 1), a[i]))
                 PROVE  FALSE
      BY DEF Hidden
    <3>1. CASE i \in 1 .. Len(q)
      <4>1. i - 1 \in 0 .. Len(q)
        BY <2>4, <3>1
      <4>2. SubSeq(a, 1, i - 1) = SubSeq(q, 1, i - 1) /\ a[i] = q[i]
        BY <2>4, <2>5, <3>1, <4>1
      <4>3. Hidden(b, q)
        BY <3>1, <4>2 DEF Hidden
      <4> QED BY <4>3 DEF Seen
    <3>2. CASE i = Len(q) + 1
      <4>1. SubSeq(a, 1, i - 1) = q
        BY <2>4, <2>7, <3>2
      <4> QED BY <1>1, <4>1 DEF IsKeyed, Node, Absent
    <3> QED BY <2>4, <3>1, <3>2
  <2>9. ~IsDiscriminator(b, a)
    <3>1. Len(a) - 1 = Len(q) /\ a[Len(a)] = f
      BY <2>4
    <3> QED BY <1>1, <2>7, <3>1 DEF IsDiscriminator
  <2> QED BY <1>4, <2>3, <2>8, <2>9 DEF Seen, a
<1>5. Objects[o].type[f].default[1] # "absent"
  BY FieldTypes
<1>6. x \in DOMAIN Json(b)
  <2>1. CASE a \in DOMAIN b
    <3>1. <<Printed(b, a), Shape(b, a)>> \in Prints(b)
      BY <1>4, <2>1 DEF Prints
    <3>2. Printed(b, a) \in DOMAIN Json(b)
      BY <3>1, JsonPrints
    <3>3. Printed(b, a) = x
      BY <1>1, PrintedGrows, TablesPrintNames
    <3> QED BY <3>2, <3>3
  <2>2. CASE a \notin DOMAIN b
    <3>1. PICK n \in Defaults(b, q) : n[1] = x
      BY <1>2, <2>2, DefaultsAre
    <3>2. n \in Prints(b)
      BY <1>1, <3>1 DEF Prints
    <3> QED BY <3>1, <3>2, JsonPrints
  <2> QED BY <2>1, <2>2
<1> DEFINE json == Json(b)[x]
<1>7. \/ \E y : Append(q, y) \in Seen(b) /\ f = Label(b, q, y) /\ json = Shape(b, Append(q, y))
      \/ a \notin DOMAIN b /\ json = DefaultShown(b, q, f)
      \/ \E u \in Fields(b, q, "union") : f = Objects[b[q][2]].type[u].disc
  BY <1>6, PrintedBelow
<1>8. CASE \E y : Append(q, y) \in Seen(b) /\ f = Label(b, q, y) /\ json = Shape(b, Append(q, y))
  <2>1. PICK y : Append(q, y) \in Seen(b) /\ f = Label(b, q, y) /\ json = Shape(b, Append(q, y))
    BY <1>8
  <2>2. y = f
    BY <1>1, <2>1, TablesPrintNames
  <2>3. a \in DOMAIN b /\ json = Shape(b, a)
    BY <2>1, <2>2 DEF Seen
  <2>4. Shape(b, a) = Shown(b[a][2], b[a][3])
    BY <1>4, <2>3 DEF Shape
  <2> QED BY <1>3, <1>4, <1>6, <2>3, <2>4
<1>9. CASE a \notin DOMAIN b /\ json = DefaultShown(b, q, f)
  <2>1. json = Shown(Kinds[Objects[o].type[f].of], Objects[o].type[f].default)
    BY <1>1, <1>9 DEF DefaultShown
  <2> QED BY <1>3, <1>5, <1>6, <1>9, <2>1
<1>10. ASSUME NEW u \in Fields(b, q, "union"), f = Objects[b[q][2]].type[u].disc
       PROVE  FALSE
  <2>1. u \in DOMAIN Objects[o].type /\ Objects[o].type[u].base = "union"
    BY <1>1 DEF Fields
  <2>2. Discriminated(o, Objects[o].type[u])
    BY <2>1, FieldTypes
  <2> QED BY <1>1, <1>10, <2>2, Zenon DEF Discriminated
<1> QED BY <1>7, <1>8, <1>9, <1>10

(* The type of the key of a keyed vector. *)
LEMMA KeySorts ==
  ASSUME WellTyped(Type), Type.base = "vector", Type.elem = "table", KeyField(Type.of) # NoKey
  PROVE  /\ Type.of \in DOMAIN Objects /\ KeyField(Type.of) \in DOMAIN Objects[Type.of].type
         /\ KeyType = Objects[Type.of].type[KeyField(Type.of)]
         /\ KeyType.base \in {"string", "scalar"}
         /\ (KeySort = "string") <=> (KeyType.base = "string")
         /\ KeyType.base = "scalar" => KeySort = Kinds[KeyType.of].sort
<1>1. Type.of \in DOMAIN Objects
  BY DEF WellTyped, Refers
<1>2. /\ KeyField(Type.of) \in DOMAIN Objects[Type.of].type
      /\ KeyType.base \in {"string", "scalar"}
      /\ KeyType.base = "scalar" => Kinds[KeyType.of].sort \in {"bool", "signed", "unsigned", "float"}
  BY <1>1, KeyTypes DEF KeyType
<1> QED BY <1>1, <1>2 DEF KeyType, KeySort

(* The string that is the key of an element. *)
LEMMA StringKey ==
  ASSUME NEW b, Sound(b), StringsRanked(b), NEW e \in DOMAIN b, NEW o \in DOMAIN Objects,
         b[e] = <<"table", o>>, KeyField(o) # NoKey, Objects[o].type[KeyField(o)].base = "string"
  PROVE  KeyText(b, e) \in DOMAIN TextRank
<1> DEFINE a == Append(e, KeyField(o))
           node == Node(b, a)
<1>1. b[e][1] = "table" /\ b[e][2] = o
  BY Pairs
<1>2. Path(e)
  BY SoundPaths
<1>3. KeyText(b, e) = IF node = Absent THEN "" ELSE node[2]
  BY <1>1, Zenon DEF KeyText
<1>4. ASSUME a \in DOMAIN b
      PROVE  b[a][2] \in DOMAIN TextRank
  <2>1. ChildFits(b, e, KeyField(o))
    BY <1>2, <1>4, SoundPaths
  <2>2. Fits(b[a], Objects[o].type[KeyField(o)])
    BY <1>1, <2>1 DEF ChildFits
  <2>3. b[a][1] = "string"
    BY <2>2 DEF Fits, Tag
  <2> QED BY <1>4, <2>3 DEF StringsRanked
<1>5. "" \in DOMAIN TextRank
  BY TextAssumption, Zenon
<1> QED BY <1>3, <1>4, <1>5, Zenon DEF Node

(* The number that is the key of an element, when from_json takes it. *)
LEMMA NumberKey ==
  ASSUME NEW b, Whole(b), Elides(b), NEW e \in Seen(b), NEW o \in DOMAIN Objects,
         b[e] = <<"table", o>>, KeyField(o) # NoKey, Objects[o].type[KeyField(o)].base = "scalar",
         KeyText(b, e) \in DOMAIN Number,
         NEW x, Node(Json(b), Append(Printed(b, e), KeyField(o))) \in {Absent, <<"int", x>>}
  PROVE  KeyText(b, e) = Spelled[<<"int", x>>] /\ <<"int", x>> # Objects[o].type[KeyField(o)].default
<1> DEFINE f == KeyField(o)
           a == Append(e, f)
           node == Node(b, a)
           s == IF a \in DOMAIN b THEN b[a][3] ELSE Objects[o].type[f].default
           at == Append(Printed(b, e), f)
           json == Json(b)[at]
<1>1. b[e][1] = "table" /\ b[e][2] = o /\ e \in DOMAIN b
  BY Pairs DEF Seen
<1>2. f \in DOMAIN Objects[o].type
  BY KeyTypes
<1>3. /\ at \in DOMAIN Json(b) /\ s[1] # "absent" /\ (json = s \/ json[1] = "string")
  BY <1>2, EntryPrinted
<1>4. json \in {Absent, <<"int", x>>}
  BY <1>3 DEF Node
<1>5. KeyText(b, e) = IF node = Absent THEN "" ELSE Spelled[node[3]]
  BY <1>1, Zenon DEF KeyText
<1>6. "" \notin DOMAIN Number
  BY TextAssumption
<1>7. node # Absent
  <2> HIDE DEF node
  <2> QED BY <1>5, <1>6
<1>8. a \in DOMAIN b /\ node = b[a]
  BY <1>7 DEF Node
<1> HIDE DEF json
<1>9. s = <<"int", x>>
  <2>1. json[1] # "string"
    BY <1>4 DEF Absent
  <2>2. json = s
    BY <1>3, <2>1
  <2>3. s # Absent
    BY <1>3 DEF Absent
  <2> HIDE DEF s
  <2> QED BY <1>4, <2>2, <2>3
<1>10. b[a][3] = <<"int", x>>
  BY <1>8, <1>9
<1>11. b[a][3] # Objects[o].type[f].default
  <2> HIDE DEF f
  <2> QED BY <1>1, <1>8 DEF Elides, f
<1> HIDE DEF node, a
<1> QED BY <1>5, <1>7, <1>8, <1>10, <1>11

(* The keys of an object that is read for a keyed vector. *)
LEMMA EntriesRead ==
  ASSUME Ordered, Building, first # Empty, Type.base = "vector", InKeyedForm, BadEntries = {}
  PROVE  LET K == KeysAt(doc, From)
         IN  /\ IsFiniteSet(K)
             /\ K \subseteq IF KeySort = "string" THEN DOMAIN TextRank ELSE DOMAIN Number
             /\ KeySort # "string" => \A k, l \in K : Number[k] = Number[l] => k = l
             /\ KeySort # "string" => \A k \in K :
                  KeySort \in {"signed", "unsigned"} /\ <<"int", Number[k]>> # KeyType.default
<1> DEFINE K == KeysAt(doc, From)
           o == Type.of
           f == KeyField(o)
<1>1. /\ WellTyped(Type) /\ Whole(first) /\ doc = Json(first) /\ Path(From)
      /\ Value[1] = "object" /\ Type.elem = "table" /\ f # NoKey
  BY DueFits DEF InKeyedForm
<1>2. From \in DOMAIN doc
  BY <1>1, ObjectGiven
<1>3. PICK q \in Seen(first) : Printed(first, q) = From /\ Fits(first[q], Type)
  BY <1>2, ChildRead
<1>4. first[q] = <<"vector", Type>> /\ first[q][1] = "vector" /\ first[q][2] = Type
  BY <1>3, Pairs DEF Fits
<1>5. q \in DOMAIN first /\ Path(q) /\ IsKeyed(first, q) /\ q \in Lists(first)
  <2>1. q \in DOMAIN first /\ Path(q)
    BY <1>1, SoundPaths DEF Seen, Whole
  <2> QED BY <1>1, <1>4, <2>1 DEF IsKeyed, Node, Lists
<1>6. PICK m : Row(first, q, m)
  BY <1>1, <1>5 DEF Whole, Rows
<1>7. m \in Nat
  BY <1>6, RowCounts
<1>8. ASSUME NEW k \in K
      PROVE  \E y \in KeysAt(first, q) :
               /\ Append(q, y) \in Seen(first) /\ k = KeyText(first, Append(q, y))
               /\ Printed(first, Append(q, y)) = Append(From, k)
  <2>1. \A x \in DOMAIN doc : Path(x)
    BY <1>1, JsonPaths DEF Whole
  <2>2. Append(From, k) \in DOMAIN doc
    BY <1>1, <2>1, KeysAre
  <2>3. PICK y : /\ Append(q, y) \in Seen(first) /\ k = Label(first, q, y)
                 /\ Printed(first, Append(q, y)) = Append(From, k)
    BY <1>1, <1>3, <1>4, <2>2, ChildPrinted
  <2>4. y \in KeysAt(first, q)
    BY <1>1, <1>5, <2>3, SoundPaths DEF Seen, Whole
  <2> QED BY <1>5, <2>3, <2>4 DEF Label
<1>9. IsFiniteSet(K)
  <2> DEFINE g == [i \in 1 .. m |-> KeyText(first, Append(q, Position[i]))]
             T == {g[i] : i \in 1 .. m}
  <2>1. g \in [1 .. m -> T] /\ \A t \in T : \E i \in 1 .. m : g[i] = t
    OBVIOUS
  <2>2. IsFiniteSet(1 .. m)
    BY <1>7, FS_Interval
  <2>3. K \subseteq T
    <3> SUFFICES ASSUME NEW k \in K
                 PROVE  k \in T
      OBVIOUS
    <3>1. PICK y \in KeysAt(first, q) : k = KeyText(first, Append(q, y))
      BY <1>8
    <3>2. PICK i \in 1 .. m : y = Position[i]
      BY <1>6, <3>1 DEF Row
    <3> QED BY <3>1, <3>2
  <2> HIDE DEF g, T
  <2>4. g \in Surjection(1 .. m, T)
    BY <2>1 DEF Surjection
  <2>5. IsFiniteSet(T)
    BY <2>2, <2>4, FS_Surjection
  <2> QED BY <2>3, <2>5, FS_Subset
<1>10. ASSUME NEW y, Append(q, y) \in Seen(first)
       PROVE  first[Append(q, y)] = <<"table", o>> /\ Append(q, y) \in DOMAIN first
  <2>1. ChildFits(first, q, y) /\ Append(q, y) \in DOMAIN first
    BY <1>1, <1>5, <1>10, SoundPaths DEF Seen, Whole
  <2>2. Fits(first[Append(q, y)], ElementType(first[q]))
    BY <1>4, <2>1 DEF ChildFits
  <2>3. ElementType(first[q]).base = "table" /\ ElementType(first[q]).of = o
    BY <1>1, <1>4 DEF ElementType
  <2> QED BY <2>1, <2>2, <2>3 DEF Fits
<1>11. /\ o \in DOMAIN Objects /\ f \in DOMAIN Objects[o].type
       /\ KeyType = Objects[o].type[f]
       /\ KeyType.base \in {"string", "scalar"}
       /\ (KeySort = "string") <=> (KeyType.base = "string")
  BY <1>1, KeySorts
<1>12. CASE KeySort = "string"
  <2>1. ASSUME NEW k \in K
        PROVE  k \in DOMAIN TextRank
    <3>1. PICK y : Append(q, y) \in Seen(first) /\ k = KeyText(first, Append(q, y))
      BY <1>8
    <3>2. Sound(first) /\ StringsRanked(first)
      BY DEF Ordered
    <3>3. first[Append(q, y)] = <<"table", o>> /\ Append(q, y) \in DOMAIN first
      BY <1>10, <3>1
    <3>4. Objects[o].type[f].base = "string"
      BY <1>11, <1>12
    <3> HIDE DEF o
    <3> QED BY <1>1, <1>11, <3>1, <3>2, <3>3, <3>4, StringKey
  <2> QED BY <1>9, <1>12, <2>1
<1>13. CASE KeySort # "string"
  <2>1. ASSUME NEW k \in K
        PROVE  /\ k \in DOMAIN Number /\ KeySort \in {"signed", "unsigned"}
               /\ k = Spelled[<<"int", Number[k]>>] /\ <<"int", Number[k]>> # KeyType.default
    <3>1. PICK y : /\ Append(q, y) \in Seen(first) /\ k = KeyText(first, Append(q, y))
                   /\ Printed(first, Append(q, y)) = Append(From, k)
      BY <1>8
    <3>2. EntryFault(k) = "none"
      BY DEF BadEntries
    <3>3. /\ k \in DOMAIN Number /\ KeySort \in {"signed", "unsigned"}
          /\ Node(doc, Append(Append(From, k), f)) \in {Absent, <<"int", Number[k]>>}
      BY <1>13, <3>2 DEF EntryFault, KeyJson
    <3>4. first[Append(q, y)] = <<"table", o>>
      BY <1>10, <3>1
    <3>5. Objects[o].type[f].base = "scalar"
      BY <1>11, <1>13
    <3>6. Node(Json(first), Append(Printed(first, Append(q, y)), f)) \in {Absent, <<"int", Number[k]>>}
      BY <1>1, <3>1, <3>3
    <3>7. /\ KeyText(first, Append(q, y)) = Spelled[<<"int", Number[k]>>]
          /\ <<"int", Number[k]>> # Objects[o].type[f].default
      <4> DEFINE e == Append(q, y)
                 x == Number[k]
      <4>1. Whole(first) /\ e \in Seen(first) /\ o \in DOMAIN Objects /\ first[e] = <<"table", o>>
        BY <1>1, <1>11, <3>1, <3>4
      <4>2. KeyField(o) # NoKey /\ Objects[o].type[KeyField(o)].base = "scalar"
        BY <1>1, <3>5
      <4>3. Node(Json(first), Append(Printed(first, e), KeyField(o))) \in {Absent, <<"int", x>>}
        BY <3>6
      <4>4. KeyText(first, e) \in DOMAIN Number /\ Elides(first)
        BY <3>1, <3>3 DEF Ordered
      <4> HIDE DEF e, x, o
      <4>5. /\ KeyText(first, e) = Spelled[<<"int", x>>]
            /\ <<"int", x>> # Objects[o].type[KeyField(o)].default
        BY <4>1, <4>2, <4>3, <4>4, NumberKey
      <4> QED BY <4>5 DEF e, x, o
    <3> QED BY <1>11, <3>1, <3>3, <3>7
  <2>2. \A k, l \in K : Number[k] = Number[l] => k = l
    <3> SUFFICES ASSUME NEW k \in K, NEW l \in K, Number[k] = Number[l]
                 PROVE  k = l
      OBVIOUS
    <3>1. k = Spelled[<<"int", Number[k]>>] /\ l = Spelled[<<"int", Number[l]>>]
      BY <2>1
    <3> QED BY <3>1
  <2>3. \A k \in K : KeySort \in {"signed", "unsigned"} /\ <<"int", Number[k]>> # KeyType.default
    BY <2>1
  <2>4. K \subseteq DOMAIN Number
    BY <2>1
  <2> QED BY <1>9, <1>13, <2>2, <2>3, <2>4
<1> QED BY <1>12, <1>13
-----------------------------------------------------------------------------
(* A node is put into the buffer. *)

With(b, q, node) == [r \in DOMAIN b \cup {q} |-> IF r = q THEN node ELSE b[r]]

(* Put leaves the other nodes alone. *)
LEMMA WithIs ==
  ASSUME NEW b, NEW q, NEW node
  PROVE  /\ DOMAIN With(b, q, node) = DOMAIN b \cup {q} /\ With(b, q, node)[q] = node
         /\ \A r \in DOMAIN b : r # q => With(b, q, node)[r] = b[r]
         /\ b = buffer => With(b, q, node) = Put(q, node)
BY DEF With, Put

(* A buffer with one more node, or another scalar in place of one, keeps   *)
(* to the schema if what is in the node around it does.                    *)
LEMMA WithSound ==
  ASSUME NEW b, Sound(b), NEW p \in DOMAIN b, NEW x, NEW node, Known(node),
         NEW c, c = With(b, Append(p, x), node),
         Append(p, x) \in DOMAIN b => b[Append(p, x)][1] = "scalar",
         \A y : Append(p, y) \in DOMAIN c => ChildFits(c, p, y)
  PROVE  Sound(c)
<1> DEFINE q == Append(p, x)
<1>1. DOMAIN c = DOMAIN b \cup {q} /\ c[q] = node /\ \A r \in DOMAIN b : r # q => c[r] = b[r]
  BY DEF With
<1>2. Path(p) /\ Len(p) \in Nat
  BY SoundPaths, PathGrows
<1>3. Path(q) /\ Len(q) = Len(p) + 1
  BY <1>2, PathGrows
<1>4. \A i \in 0 .. Len(p) : SubSeq(q, 1, i) = SubSeq(p, 1, i)
  BY <1>2, StepBegins
<1>5. SubSeq(q, 1, Len(p) + 1) = q
  BY <1>2, StepBegins
<1>6. q # p
  BY <1>2, <1>3
<1>7. \A y : Append(p, y) \in DOMAIN c => ChildFits(c, p, y)
  OBVIOUS
<1>8. q \in DOMAIN b => b[q][1] = "scalar"
  OBVIOUS
<1>9. \A r, y : Path(r) /\ r # p => Append(r, y) # q
  BY <1>2, StepsEqual
<1>10. \A r, y : Path(r) /\ Append(r, y) \in DOMAIN b => r \in DOMAIN b /\ ChildFits(b, r, y)
  BY SoundPaths
<1> HIDE DEF q
<1>11. ASSUME NEW r \in DOMAIN c
       PROVE  Path(r) /\ Known(c[r]) /\ \A i \in 0 .. Len(r) : SubSeq(r, 1, i) \in DOMAIN c
  <2>1. CASE r = q
    <3>1. \A i \in 0 .. Len(p) : SubSeq(p, 1, i) \in DOMAIN b
      BY DEF Sound
    <3>2. \A i \in 0 .. Len(q) : i \in 0 .. Len(p) \/ i = Len(p) + 1
      BY <1>2, <1>3
    <3> QED BY <1>1, <1>3, <1>4, <1>5, <2>1, <3>1, <3>2
  <2>2. CASE r # q
    BY <1>1, <2>2 DEF Sound
  <2> QED BY <2>1, <2>2
<1>12. ASSUME NEW r \in DOMAIN c, NEW y, Append(r, y) \in DOMAIN c
       PROVE  ChildFits(c, r, y)
  <2>1. CASE r = p
    BY <1>7, <1>12, <2>1
  <2>2. CASE r # p
    <3>1. Path(r)
      BY <1>11
    <3>2. Append(r, y) # q /\ Append(r, y) \in DOMAIN b
      BY <1>1, <1>9, <1>12, <2>2, <3>1
    <3>3. r \in DOMAIN b /\ ChildFits(b, r, y)
      BY <1>10, <3>1, <3>2
    <3>4. r # q
      BY <1>8, <3>3, Zenon DEF ChildFits
    <3>5. c[r] = b[r] /\ c[Append(r, y)] = b[Append(r, y)]
      BY <1>1, <3>2, <3>3, <3>4, Zenon
    <3>6. \A d, v : Told(b, r, d, v) => Told(c, r, d, v)
      <4> SUFFICES ASSUME NEW d, NEW v, Told(b, r, d, v)
                   PROVE  Told(c, r, d, v)
        OBVIOUS
      <4>1. Append(r, d) # q /\ Append(r, d) \in DOMAIN b
        BY <1>9, <2>2, <3>1 DEF Told
      <4>2. c[Append(r, d)] = b[Append(r, d)] /\ Append(r, d) \in DOMAIN c
        BY <1>1, <4>1
      <4> QED BY <3>5, <4>2, Zenon DEF Told
    <3> QED BY <3>3, <3>5, <3>6, Zenon DEF ChildFits
  <2> QED BY <2>1, <2>2
<1>13. ASSUME NEW r \in DOMAIN c, NEW y \in KeysAt(c, r)
       PROVE  Append(r, y) \in DOMAIN c
  BY <1>11, KeysAre
<1> QED BY <1>11, <1>12, <1>13 DEF Sound

(* What the unions of the call F of p still have once x is put there: the *)
(* chosen variant, if x is their discriminator, and their value's type.   *)
KeepsUnions(d, b, c, F, p, x, node) ==
  F.op = "table" /\ F.to = p =>
    \A u \in DOMAIN Objects[F.type].type :
      LET t == Objects[F.type].type[u]
      IN t.base = "union" =>
           /\ \A v : t.disc = x /\ Chosen(d, b, F, t, v) => Told(c, p, x, v)
           /\ u = x => \E v : Chosen(d, c, F, t, v) /\ Fits(node, Variants[t.of][v])

(* The calls around it, and the one that has put it there, still fit.      *)
LEMMA WithFits ==
  ASSUME NEW d, NEW was, NEW b, NEW F, CallFits(d, was, b, F), Path(F.to),
         NEW p, Path(p), NEW x, NEW node, NEW c, c = With(b, Append(p, x), node),
         F.to # Append(p, x),
         \A k \in DOMAIN F.todo : Append(F.to, F.todo[k].slot) = Append(p, x) =>
           F.op = "table" /\ Objects[F.type].type[F.todo[k].slot].base = "disc",
         KeepsUnions(d, b, c, F, p, x, node)
  PROVE  CallFits(d, was, c, F)
<1> DEFINE q == Append(p, x)
<1>1. DOMAIN c = DOMAIN b \cup {q} /\ c[q] = node /\ \A r \in DOMAIN b : r # q => c[r] = b[r]
  BY DEF With
<1>2. \A r, y : Path(r) /\ Append(r, y) = q => r = p /\ y = x
  BY StepsEqual
<1>3. F.to # q /\ F.to \in DOMAIN b /\ c[F.to] = b[F.to]
  BY <1>1 DEF CallFits
<1>4. \A k \in DOMAIN F.todo : Append(F.to, F.todo[k].slot) = q =>
        F.op = "table" /\ Objects[F.type].type[F.todo[k].slot].base = "disc"
  OBVIOUS
<1>5. F.op = "table" /\ F.to = p =>
        \A u \in DOMAIN Objects[F.type].type : Objects[F.type].type[u].base = "union" =>
          /\ \A v : Objects[F.type].type[u].disc = x /\ Chosen(d, b, F, Objects[F.type].type[u], v)
               => Told(c, p, x, v)
          /\ u = x => \E v : /\ Chosen(d, c, F, Objects[F.type].type[u], v)
                             /\ Fits(node, Variants[Objects[F.type].type[u].of][v])
  BY DEF KeepsUnions
<1> HIDE DEF q
<1>6. ASSUME F.op = "table", NEW u \in DOMAIN Objects[F.type].type,
             Objects[F.type].type[u].base = "union", NEW v, Chosen(d, b, F, Objects[F.type].type[u], v)
      PROVE  Chosen(d, c, F, Objects[F.type].type[u], v)
  <2> DEFINE t == Objects[F.type].type[u]
  <2>1. t.base = "union" /\ Chosen(d, b, F, t, v)
    BY <1>6
  <2>2. F.to = p /\ t.disc = x => Told(c, p, x, v)
    BY <1>5, <1>6
  <2> HIDE DEF t
  <2>3. Append(F.to, t.disc) # q => Told(c, F.to, t.disc, v)
    BY <1>1, <1>3, <2>1, Zenon DEF Chosen, Told
  <2>4. Append(F.to, t.disc) = q => F.to = p /\ t.disc = x
    BY <1>2
  <2>5. Chosen(d, c, F, t, v)
    BY <2>1, <2>2, <2>3, <2>4 DEF Chosen
  <2> QED BY <2>5 DEF t
<1>7. ASSUME NEW k \in DOMAIN F.todo
      PROVE  ItemFits(d, was, c, F, F.todo[k])
  <2> DEFINE item == F.todo[k]
  <2>1. ItemFits(d, was, b, F, item)
    BY DEF CallFits
  <2>2. Append(F.to, item.slot) = q => F.op = "table" /\ Objects[F.type].type[item.slot].base = "disc"
    BY <1>4
  <2>3. Append(F.to, item.slot) \in DOMAIN c => Append(F.to, item.slot) \in DOMAIN b \/ Append(F.to, item.slot) = q
    BY <1>1
  <2> HIDE DEF item
  <2>4. ASSUME F.op \in {"vector", "array"}
        PROVE  ItemFits(d, was, c, F, item)
    <3>1. /\ item.type = ElementType(b[F.to]) /\ item.need = "value"
          /\ OverFits(was, item.over, b[F.to][2].of) /\ Append(F.to, item.slot) \notin DOMAIN b
      BY <2>1, <2>4 DEF ItemFits
    <3>2. F.op # "table"
      BY <2>4
    <3>3. Append(F.to, item.slot) \notin DOMAIN c
      BY <2>2, <2>3, <3>1, <3>2
    <3> QED BY <1>3, <2>4, <3>1, <3>3 DEF ItemFits
  <2>5. ASSUME F.op \notin {"vector", "array"}
        PROVE  ItemFits(d, was, c, F, item)
    <3>1. /\ item.slot = item.key /\ item.over = <<>> /\ item.key \in DOMAIN Objects[F.type].type
          /\ Append(F.to, item.slot) \in DOMAIN b => F.op = "table" /\ Objects[F.type].type[item.key].base = "disc"
          /\ \/ item.type = Objects[F.type].type[item.key]
             \/ /\ F.op = "table" /\ Objects[F.type].type[item.key].base = "union"
                /\ \E v : /\ Chosen(d, b, F, Objects[F.type].type[item.key], v)
                          /\ item.type = Variants[Objects[F.type].type[item.key].of][v]
      BY <2>1, <2>5, Zenon DEF ItemFits
    <3>2. Append(F.to, item.slot) \in DOMAIN c => F.op = "table" /\ Objects[F.type].type[item.key].base = "disc"
      BY <2>2, <2>3, <3>1, Zenon
    <3>3. \/ item.type = Objects[F.type].type[item.key]
          \/ /\ F.op = "table" /\ Objects[F.type].type[item.key].base = "union"
             /\ \E v : /\ Chosen(d, c, F, Objects[F.type].type[item.key], v)
                       /\ item.type = Variants[Objects[F.type].type[item.key].of][v]
      BY <1>6, <3>1, Zenon
    <3> QED BY <2>5, <3>1, <3>2, <3>3, Zenon DEF ItemFits
  <2> QED BY <2>4, <2>5 DEF item
<1>8. ASSUME F.op = "table", NEW u \in DOMAIN Objects[F.type].type,
             Objects[F.type].type[u].base = "union", Append(F.to, u) \in DOMAIN c
      PROVE  \E v : /\ Chosen(d, c, F, Objects[F.type].type[u], v)
                    /\ Fits(c[Append(F.to, u)], Variants[Objects[F.type].type[u].of][v])
  <2>1. CASE Append(F.to, u) = q
    <3>1. F.to = p /\ u = x
      BY <1>2, <2>1
    <3>2. \E v : /\ Chosen(d, c, F, Objects[F.type].type[u], v)
                 /\ Fits(node, Variants[Objects[F.type].type[u].of][v])
      BY <1>5, <1>8, <3>1
    <3> QED BY <1>1, <2>1, <3>2, Zenon
  <2>2. CASE Append(F.to, u) # q
    <3>1. Append(F.to, u) \in DOMAIN b /\ c[Append(F.to, u)] = b[Append(F.to, u)]
      BY <1>1, <1>8, <2>2
    <3>2. PICK v : /\ Chosen(d, b, F, Objects[F.type].type[u], v)
                   /\ Fits(b[Append(F.to, u)], Variants[Objects[F.type].type[u].of][v])
      BY <1>8, <3>1 DEF CallFits
    <3> QED BY <1>6, <1>8, <3>1, <3>2, Zenon
  <2> QED BY <2>1, <2>2
<1>9. F.to \in DOMAIN c
  BY <1>1, <1>3
<1> QED BY <1>3, <1>7, <1>8, <1>9 DEF CallFits
-----------------------------------------------------------------------------
(* The calls in progress when the next item is taken, and when it is built. *)

(* A call goes on with other items. *)
LEMMA FieldsFit ==
  ASSUME NEW d, NEW was, NEW b, NEW F, CallFits(d, was, b, F), NEW G,
         G.op = F.op, G.from = F.from, G.to = F.to, G.type = F.type, G.over = F.over,
         \A k \in DOMAIN G.todo : ItemFits(d, was, b, F, G.todo[k])
  PROVE  CallFits(d, was, b, G)
<1>1. \A t, v : Chosen(d, b, F, t, v) => Chosen(d, b, G, t, v)
  BY DEF Chosen
<1>2. ASSUME NEW k \in DOMAIN G.todo
      PROVE  ItemFits(d, was, b, G, G.todo[k])
  <2> DEFINE item == G.todo[k]
  <2>1. ItemFits(d, was, b, F, item)
    OBVIOUS
  <2> HIDE DEF item
  <2>2. ItemFits(d, was, b, G, item)
    BY <1>1, <2>1, Zenon DEF ItemFits
  <2> QED BY <2>2 DEF item
<1>3. F.op = "table" =>
        \A u \in DOMAIN Objects[F.type].type :
          Objects[F.type].type[u].base = "union" /\ Append(F.to, u) \in DOMAIN b =>
            \E v : /\ Chosen(d, b, G, Objects[F.type].type[u], v)
                   /\ Fits(b[Append(F.to, u)], Variants[Objects[F.type].type[u].of][v])
  BY <1>1 DEF CallFits
<1> QED BY <1>2, <1>3 DEF CallFits

(* The next item's place is no call's, and no other item's. *)
LEMMA ToIsFree ==
  ASSUME Ordered, Building
  PROVE  /\ \A i \in DOMAIN frames : /\ frames[i].to # To /\ Path(frames[i].to)
                                     /\ frames[i].to \in DOMAIN buffer
                                     /\ (frames[i].to = Top.to => i = Len(frames))
         /\ \A i \in DOMAIN Rest : \A k \in DOMAIN Rest[i].todo :
              Append(Rest[i].to, Rest[i].todo[k].slot) # To
<1>1. Nested /\ Grown(frames, Tables(buffer)) /\ Shaped(doc, first, frames, buffer)
  BY DEF Ordered, Nested
<1>2. Free(Rest, Tables(buffer), To) /\ Path(To)
  BY <1>1, RestNested
<1>3. /\ DOMAIN Rest = DOMAIN frames /\ \A i \in DOMAIN frames : Rest[i].to = frames[i].to
      /\ Len(frames) \in DOMAIN frames /\ Top = frames[Len(frames)]
  BY <1>1, DueIs, RestIs
<1>4. IsPrefix(To, To) /\ Len(To) \in Nat
  BY <1>2, PathGrows, PrefixIs
<1>5. ASSUME NEW i \in DOMAIN frames
      PROVE  frames[i].to # To /\ Path(frames[i].to) /\ frames[i].to \in DOMAIN buffer
  <2>1. Len(Rest[i].to) < Len(To)
    BY <1>2, <1>3 DEF Free
  <2>2. Path(frames[i].to) /\ frames[i].to \in DOMAIN buffer
    BY <1>1 DEF Grown, Open, Shaped, CallFits
  <2> QED BY <1>3, <1>4, <2>1, <2>2
<1>6. ASSUME NEW i \in DOMAIN frames, frames[i].to = Top.to
      PROVE  i = Len(frames)
  <2> DEFINE n == Len(frames)
             T == Tables(buffer)
  <2>1. Grown(frames, T) /\ i \in DOMAIN frames /\ n \in DOMAIN frames /\ frames[i].to = frames[n].to
    BY <1>1, <1>3, <1>6
  <2> HIDE DEF n, T
  <2>2. i = n
    BY <2>1, CallsApart
  <2> QED BY <2>2 DEF n
<1>7. ASSUME NEW i \in DOMAIN Rest, NEW k \in DOMAIN Rest[i].todo
      PROVE  Append(Rest[i].to, Rest[i].todo[k].slot) # To
  BY <1>2, <1>4 DEF Free, Ahead
<1> QED BY <1>5, <1>6, <1>7

(* The calls, when an item is taken. *)
LEMMA RestFits ==
  ASSUME Ordered, Building
  PROVE  \A i \in DOMAIN Rest : CallFits(doc, first, buffer, Rest[i])
<1>1. Nested /\ Shaped(doc, first, frames, buffer) /\ CallFits(doc, first, buffer, Top)
  BY DueFits DEF Ordered
<1> DEFINE n == Len(frames)
           G == Rest[n]
<1>2. /\ DOMAIN Rest = DOMAIN frames /\ n \in DOMAIN frames
      /\ \A i \in DOMAIN frames : i # n => Rest[i] = frames[i]
  BY <1>1, DueIs, RestIs
<1>3. /\ G.op = Top.op /\ G.from = Top.from /\ G.to = Top.to
      /\ G.type = Top.type /\ G.over = Top.over
      /\ \A k \in DOMAIN G.todo : k + 1 \in DOMAIN Top.todo /\ G.todo[k] = Top.todo[k + 1]
  BY <1>1, RestIs
<1>4. \A k \in DOMAIN Top.todo : ItemFits(doc, first, buffer, Top, Top.todo[k])
  BY <1>1 DEF CallFits
<1>5. \A k \in DOMAIN G.todo : ItemFits(doc, first, buffer, Top, G.todo[k])
  BY <1>3, <1>4
<1> HIDE DEF G
<1>6. CallFits(doc, first, buffer, G)
  <2> DEFINE F == Top
  <2>1. /\ CallFits(doc, first, buffer, F) /\ G.op = F.op /\ G.from = F.from /\ G.to = F.to
        /\ G.type = F.type /\ G.over = F.over
        /\ \A k \in DOMAIN G.todo : ItemFits(doc, first, buffer, F, G.todo[k])
    BY <1>1, <1>3, <1>5
  <2> HIDE DEF F
  <2> QED BY <2>1, FieldsFit
<1>7. \A i \in DOMAIN frames : CallFits(doc, first, buffer, frames[i])
  BY <1>1 DEF Shaped
<1> QED BY <1>2, <1>6, <1>7 DEF G

(* An item that is there already is a discriminator, and it has the type   *)
(* that the field has.                                                     *)
LEMMA DiscDue ==
  ASSUME Ordered, Building,
         To \in DOMAIN buffer \/ (Top.op = "table" /\ Objects[Top.type].type[Due.key].base = "disc")
  PROVE  /\ Top.op = "table" /\ Top.type \in DOMAIN Objects /\ Due.key \in DOMAIN Objects[Top.type].type
         /\ Type = Objects[Top.type].type[Due.key] /\ Type.base = "disc"
         /\ Value = Node(doc, From) /\ ScalarKind = Kinds[Type.of]
         /\ To \in DOMAIN buffer => buffer[To][1] = "scalar"
<1>1. /\ Top.op = "table" /\ Top.type \in DOMAIN Objects /\ Due.key \in DOMAIN Objects[Top.type].type
      /\ Objects[Top.type].type[Due.key].base = "disc" /\ Due.slot = Due.key
      /\ Type = Objects[Top.type].type[Due.key]
      /\ buffer[Top.to] = <<"table", Top.type>> /\ buffer[Top.to][2] = Top.type
  BY DueTypes
<1>2. buffer[Top.to][1] = "table"
  BY <1>1, Pairs
<1>3. Value = Node(doc, From)
  <2>1. KeyField(Top.type) # NoKey => Objects[Top.type].type[KeyField(Top.type)].base \in {"string", "scalar"}
    BY <1>1, KeyTypes
  <2> QED BY <1>1, <2>1, MergedIs
<1>4. ScalarKind = Kinds[Type.of]
  BY <1>1 DEF ScalarKind
<1>5. ASSUME To \in DOMAIN buffer
      PROVE  buffer[To][1] = "scalar"
  <2>1. To = Append(Top.to, Due.key) /\ Path(Top.to) /\ Sound(buffer)
    BY <1>1, DueIs, DueFits
  <2>2. ChildFits(buffer, Top.to, Due.key)
    BY <1>5, <2>1, SoundPaths
  <2>3. Fits(buffer[To], Objects[Top.type].type[Due.key])
    BY <1>1, <1>2, <2>1, <2>2, Zenon DEF ChildFits
  <2> QED BY <1>1, <2>3 DEF Fits, Tag
<1> QED BY <1>1, <1>3, <1>4, <1>5
(* The buffer and the calls, when an item is built. *)
LEMMA PutFits ==
  ASSUME Ordered, Building, NEW node, Known(node), Fits(node, Type), Type.base # "union",
         NEW c, c = Put(To, node),
         Type.base = "disc" /\ Top.op = "table" =>
           \A v \in DOMAIN Kinds[Type.of].names : Says(Node(doc, From), v) =>
             node = <<"scalar", Kinds[Type.of], <<"int", Kinds[Type.of].names[v]>>>>
  PROVE  Sound(c) /\ \A i \in DOMAIN Rest : CallFits(doc, first, c, Rest[i])
<1> DEFINE p == Top.to
           x == Due.slot
<1>1. /\ Sound(buffer) /\ CallFits(doc, first, buffer, Top) /\ p \in DOMAIN buffer /\ Path(p)
      /\ To = Append(p, x) /\ From = Append(Top.from, Due.key) /\ Path(Top.from) /\ Len(p) \in Nat
  BY DueFits, DueIs, PathGrows
<1>2. c = With(buffer, Append(p, x), node)
  BY <1>1 DEF With, Put
<1>3. /\ DOMAIN c = DOMAIN buffer \cup {To} /\ c[To] = node
      /\ \A r \in DOMAIN buffer : r # To => c[r] = buffer[r]
  BY DEF Put
<1>4. p # To /\ c[p] = buffer[p]
  BY <1>1, <1>3, ToIsFree, DueIs
<1>5. To \in DOMAIN buffer => buffer[To][1] = "scalar"
  BY DiscDue
<1>6. \A y : Append(p, y) = To => y = x
  BY <1>1, StepsEqual
(* What the call has found of a union stays as it is. *)
<1>7. ASSUME Top.op = "table", NEW u \in DOMAIN Objects[Top.type].type,
             Objects[Top.type].type[u].base = "union",
             NEW v, Chosen(doc, buffer, Top, Objects[Top.type].type[u], v)
      PROVE  Told(c, p, Objects[Top.type].type[u].disc, v)
  <2> DEFINE t == Objects[Top.type].type[u]
             kind == Kinds[Objects[Top.type].type[t.disc].of]
  <2>1. /\ buffer[p] = <<"table", Top.type>> /\ buffer[p][2] = Top.type
        /\ Top.type \in DOMAIN Objects /\ Due.slot = Due.key
    BY <1>7, DueTypes, Zenon
  <2>2. Discriminated(Top.type, t)
    BY <1>7, <2>1, FieldTypes
  <2>3. /\ Objects[Top.type].type[t.disc].base = "disc"
        /\ DOMAIN Variants[t.of] \subseteq DOMAIN kind.names
    BY <2>2, Zenon DEF Discriminated
  <2>4. v \in DOMAIN Variants[t.of] /\ Told(buffer, p, t.disc, v) /\ Says(Node(doc, Append(Top.from, t.disc)), v)
    BY <1>7 DEF Chosen
  <2> HIDE DEF t
  <2>5. Append(p, t.disc) \in DOMAIN buffer /\ buffer[Append(p, t.disc)] = <<"scalar", kind, <<"int", kind.names[v]>>>>
    BY <2>1, <2>4 DEF Told
  <2>6. c[Append(p, t.disc)] = <<"scalar", kind, <<"int", kind.names[v]>>>>
    <3>1. CASE Append(p, t.disc) # To
      BY <1>3, <2>5, <3>1, Zenon
    <3>2. CASE Append(p, t.disc) = To
      <4>1. t.disc = Due.key
        BY <1>6, <2>1, <3>2
      <4>2. Type = Objects[Top.type].type[Due.key] /\ Type.base = "disc"
        BY <1>7, <2>3, <4>1, DiscDue
      <4>3. Says(Node(doc, From), v) /\ kind = Kinds[Type.of] /\ v \in DOMAIN Kinds[Type.of].names
        BY <1>1, <2>3, <2>4, <4>1, <4>2, Zenon
      <4>4. node = <<"scalar", Kinds[Type.of], <<"int", Kinds[Type.of].names[v]>>>>
        BY <1>7, <4>2, <4>3, Zenon
      <4> QED BY <1>3, <3>2, <4>3, <4>4, Zenon
    <3> QED BY <3>1, <3>2, Zenon
  <2>7. Append(p, t.disc) \in DOMAIN c /\ c[p][2] = Top.type
    BY <1>3, <1>4, <2>1, <2>5
  <2>8. Told(c, p, t.disc, v)
    BY <2>6, <2>7 DEF Told
  <2> QED BY <2>8 DEF t
(* What is built is of the type of an element, of a field or of a variant. *)
<1>8. Top.op \notin {"vector", "array"} =>
        /\ Top.type \in DOMAIN Objects /\ buffer[p][2] = Top.type /\ buffer[p][1] \in {"table", "struct"}
        /\ Due.key \in DOMAIN Objects[Top.type].type /\ Due.key = x
        /\ \/ Type = Objects[Top.type].type[x]
           \/ /\ Top.op = "table" /\ Objects[Top.type].type[x].base = "union"
              /\ \E v : /\ Chosen(doc, buffer, Top, Objects[Top.type].type[x], v)
                        /\ Type = Variants[Objects[Top.type].type[x].of][v]
  <2>1. Top.op \notin {"vector", "array"} =>
          /\ Top.type \in DOMAIN Objects /\ Due.key \in DOMAIN Objects[Top.type].type
          /\ Due.slot = Due.key
          /\ \/ Type = Objects[Top.type].type[Due.key]
             \/ /\ Top.op = "table" /\ Objects[Top.type].type[Due.key].base = "union"
                /\ \E v : /\ Chosen(doc, buffer, Top, Objects[Top.type].type[Due.key], v)
                          /\ Type = Variants[Objects[Top.type].type[Due.key].of][v]
    BY DueTypes
  <2>2. /\ Top.op = "table" => buffer[p] = <<"table", Top.type>>
        /\ Top.op \in {"struct", "variant"} => buffer[p] = <<"struct", Top.type>>
    BY DueTypes
  <2>3. Top.op \in Ops
    BY DueTypes
  <2>4. /\ Top.op = "table" => buffer[p][1] = "table" /\ buffer[p][2] = Top.type
        /\ Top.op \in {"struct", "variant"} => buffer[p][1] = "struct" /\ buffer[p][2] = Top.type
    BY <2>2, Pairs
  <2> QED BY <2>1, <2>3, <2>4 DEF Ops
<1>9. Top.op \in {"vector", "array"} => buffer[p][1] \in {"vector", "array"} /\ Type = ElementType(buffer[p])
  BY DueTypes
<1>10. ASSUME NEW y, Append(p, y) \in DOMAIN c
       PROVE  ChildFits(c, p, y)
  <2>1. CASE y = x /\ Top.op \in {"vector", "array"}
    BY <1>1, <1>3, <1>4, <1>9, <2>1, Zenon DEF ChildFits
  <2>2. CASE y = x /\ Top.op \notin {"vector", "array"}
    <3> DEFINE t == Objects[Top.type].type[x]
    <3>1. c[p][1] \in {"table", "struct"} /\ c[p][2] = Top.type /\ x \in DOMAIN Objects[Top.type].type /\ c[Append(p, x)] = node
      BY <1>1, <1>3, <1>4, <1>8, <2>2
    <3>2. CASE Type = t
      BY <2>2, <3>1, <3>2, Zenon DEF ChildFits
    <3>3. ASSUME Top.op = "table", t.base = "union",
                 NEW v, Chosen(doc, buffer, Top, t, v), Type = Variants[t.of][v]
          PROVE  ChildFits(c, p, y)
      <4>1. Told(c, p, t.disc, v) /\ v \in DOMAIN Variants[t.of]
        BY <1>7, <1>8, <2>2, <3>3, Zenon DEF Chosen
      <4>2. Fits(c[Append(p, x)], Variants[t.of][v])
        BY <3>1, <3>3, Zenon
      <4>3. t = Objects[c[p][2]].type[x]
        BY <3>1
      <4> HIDE DEF t
      <4> QED BY <2>2, <3>1, <3>3, <4>1, <4>2, <4>3, Zenon DEF ChildFits
    <3> QED BY <1>8, <2>2, <3>2, <3>3
  <2>3. CASE y # x
    <3>1. Append(p, y) # To /\ Append(p, y) \in DOMAIN buffer /\ c[Append(p, y)] = buffer[Append(p, y)]
      BY <1>3, <1>6, <1>10, <2>3
    <3>2. ChildFits(buffer, p, y)
      BY <1>1, <3>1, SoundPaths
    <3>3. CASE Top.op = "table" /\ Objects[Top.type].type[y].base = "union"
      <4> DEFINE t == Objects[Top.type].type[y]
      <4>1. /\ buffer[p][1] \in {"table", "struct"} /\ buffer[p][2] = Top.type
        BY <1>8, <3>3
      <4>2. y \in DOMAIN Objects[Top.type].type
        BY <3>2, <4>1, Zenon DEF ChildFits
      <4>3. PICK v : Chosen(doc, buffer, Top, t, v) /\ Fits(buffer[Append(p, y)], Variants[t.of][v])
        BY <1>1, <3>1, <3>3, <4>2 DEF CallFits
      <4>4. Told(c, p, t.disc, v) /\ v \in DOMAIN Variants[t.of]
        BY <1>7, <3>3, <4>2, <4>3, Zenon DEF Chosen
      <4>5. t = Objects[c[p][2]].type[y] /\ t.base = "union" /\ y \in DOMAIN Objects[c[p][2]].type
            /\ c[p][1] \in {"table", "struct"} /\ Fits(c[Append(p, y)], Variants[t.of][v])
        BY <1>4, <3>1, <3>3, <4>1, <4>2, <4>3
      <4> HIDE DEF t
      <4> QED BY <4>4, <4>5, Zenon DEF ChildFits
    <3>4. CASE Top.op = "table" /\ Objects[Top.type].type[y].base # "union"
      BY <1>4, <1>8, <3>1, <3>2, <3>4, Zenon DEF ChildFits
    <3>5. CASE Top.op # "table"
      <4>1. Top.op \in {"struct", "variant"} =>
              (y \in DOMAIN Objects[Top.type].type => Objects[Top.type].type[y].base # "union")
        <5>1. Top.op \in {"struct", "variant"} => buffer[p] = <<"struct", Top.type>>
          BY DueTypes
        <5>2. Known(buffer[p])
          BY DueFits
        <5>3. Top.op \in {"struct", "variant"} => buffer[p][1] = "struct" /\ buffer[p][2] = Top.type
          BY <5>1, Pairs
        <5>4. Top.op \in {"struct", "variant"} => Top.type \in DOMAIN Objects /\ Objects[Top.type].struct
          BY <5>2, <5>3 DEF Known
        <5> QED BY <5>4, FieldTypes
      <4>2. Top.op \in Ops
        BY DueTypes
      <4>3. buffer[p][1] \in {"vector", "array"} => ChildFits(c, p, y)
        BY <1>4, <3>1, <3>2, Zenon DEF ChildFits
      <4>4. Top.op \in {"struct", "variant"} => ChildFits(c, p, y)
        BY <1>4, <1>8, <3>1, <3>2, <4>1, Zenon DEF ChildFits
      <4> QED BY <1>9, <3>5, <4>2, <4>3, <4>4 DEF Ops
    <3> QED BY <3>3, <3>4, <3>5
  <2> QED BY <2>1, <2>2, <2>3
<1>11. Sound(c)
  <2>1. To = Append(p, x) /\ Sound(buffer) /\ p \in DOMAIN buffer
    BY <1>1
  <2> HIDE DEF p, x
  <2> QED BY <1>2, <1>5, <1>10, <2>1, WithSound
<1>12. ASSUME NEW i \in DOMAIN Rest
       PROVE  CallFits(doc, first, c, Rest[i])
  <2> DEFINE F == Rest[i]
  <2>1. CallFits(doc, first, buffer, F)
    BY RestFits
  <2>2. /\ DOMAIN Rest = DOMAIN frames /\ F.to = frames[i].to /\ Path(F.to) /\ F.to # To
        /\ (F.to = p => i = Len(frames))
    BY ToIsFree, DueFits, RestIs
  <2>3. i = Len(frames) => F.op = Top.op /\ F.type = Top.type /\ F.from = Top.from /\ F.to = Top.to
    BY DueFits, RestIs
  <2>4. \A k \in DOMAIN F.todo : Append(F.to, F.todo[k].slot) # Append(p, x)
    BY <1>1, ToIsFree
  <2>5. ASSUME F.op = "table", F.to = p, NEW u \in DOMAIN Objects[F.type].type,
               Objects[F.type].type[u].base = "union"
        PROVE  /\ \A v : Objects[F.type].type[u].disc = x /\ Chosen(doc, buffer, F, Objects[F.type].type[u], v)
                    => Told(c, p, x, v)
               /\ u = x => \E v : /\ Chosen(doc, c, F, Objects[F.type].type[u], v)
                                  /\ Fits(node, Variants[Objects[F.type].type[u].of][v])
    <3>1. Top.op = "table" /\ F.type = Top.type /\ F.from = Top.from
      BY <2>2, <2>3, <2>5
    <3> DEFINE t == Objects[Top.type].type[u]
    <3>2. t.base = "union" /\ u \in DOMAIN Objects[Top.type].type
      BY <2>5, <3>1
    <3>3. ASSUME NEW v, Chosen(doc, buffer, F, t, v)
          PROVE  Chosen(doc, buffer, Top, t, v) /\ Told(c, p, t.disc, v)
      <4>1. Chosen(doc, buffer, Top, t, v)
        BY <2>5, <3>1, <3>3 DEF Chosen
      <4> QED BY <1>7, <3>1, <3>2, <4>1
    <3>4. ASSUME u = x
          PROVE  \E v : Chosen(doc, c, F, t, v) /\ Fits(node, Variants[t.of][v])
      <4>1. Type # t
        BY <3>2
      <4>2. PICK v : Chosen(doc, buffer, Top, t, v) /\ Type = Variants[t.of][v]
        BY <1>8, <3>1, <3>4, <4>1, Zenon
      <4>3. Told(c, p, t.disc, v)
        BY <1>7, <3>1, <3>2, <4>2, Zenon
      <4>4. Chosen(doc, c, F, t, v)
        BY <2>5, <3>1, <4>2, <4>3, Zenon DEF Chosen
      <4> QED BY <4>2, <4>4, Zenon
    <3>5. Objects[F.type].type[u] = t
      BY <3>1
    <3> HIDE DEF t
    <3> QED BY <3>3, <3>4, <3>5
  <2> HIDE DEF F, p, x
  <2>6. Path(p) /\ KeepsUnions(doc, buffer, c, F, p, x, node)
    BY <1>1, <2>5 DEF KeepsUnions
  <2>7. F.to # Append(p, x)
    BY <1>1, <2>2
  <2>8. CallFits(doc, first, c, F)
    BY <1>2, <2>1, <2>2, <2>4, <2>6, <2>7, WithFits
  <2> QED BY <2>8 DEF F
<1> QED BY <1>11, <1>12
-----------------------------------------------------------------------------
(* Vectors of tables when a step puts a node at y in the call in progress. *)

(* The new buffer c and stack t: Top's other items are there, and the key  *)
(* of its table, if it is what was due, is what it has been merged as.     *)
Advances(t, c, y) ==
  LET n == Len(frames)
      q == Append(Top.to, y)
      key == KeyField(Top.type)
  IN /\ DOMAIN buffer \subseteq DOMAIN c /\ DOMAIN c \subseteq DOMAIN buffer \cup {q}
     /\ \A r \in DOMAIN buffer : r # q => c[r] = buffer[r]
     /\ q \in DOMAIN buffer => buffer[q][1] = "scalar"
     /\ \A i \in DOMAIN t : t[i].to \in DOMAIN buffer => i \in DOMAIN frames
     /\ \A i \in DOMAIN frames : i \in DOMAIN t /\ (i # n => t[i] = frames[i])
     /\ t[n].to = Top.to /\ t[n].over = Top.over
     /\ \A k \in DOMAIN Top.todo : k # 1 =>
          \E l \in DOMAIN t[n].todo : t[n].todo[l].key = Top.todo[k].key
     /\ Top.op = "table" /\ key # NoKey =>
          /\ Due.key # key => y # key
          /\ first # Empty /\ Due.key = key =>
               \A x : Merges(Top.over, Top.type, x) => KeyRank(c, Top.to) = x

(* The rank of a table's key is that of its key field. *)
LEMMA RankSame ==
  ASSUME NEW b, NEW c, NEW e, NEW o, b[e] = <<"table", o>>, c[e] = b[e],
         Node(c, Append(e, KeyField(o))) = Node(b, Append(e, KeyField(o)))
  PROVE  KeyRank(c, e) = KeyRank(b, e)
<1>1. b[e][2] = o /\ c[e][2] = o
  BY Pairs
<1>2. KeyText(c, e) = KeyText(b, e)
  BY <1>1 DEF KeyText
<1> QED BY <1>1, <1>2 DEF KeyRank

(* An element keeps its key. *)
LEMMA KeyKept ==
  ASSUME NEW s, NEW t, NEW b, NEW c, NEW e, NEW o, NEW x, HasKey(s, b, e, o, x), c[e] = b[e],
         \A i \in DOMAIN t : t[i].to = e => i \in DOMAIN s /\ s[i].to = e /\ t[i].over = s[i].over,
         \/ KeyRank(c, e) = x
         \/ /\ KeyRank(c, e) = KeyRank(b, e)
            /\ \A i \in DOMAIN s : s[i].to = e =>
                 \A k \in DOMAIN s[i].todo : s[i].todo[k].key = KeyField(o) =>
                   \E j \in DOMAIN t : t[j].to = e /\ \E l \in DOMAIN t[j].todo : t[j].todo[l].key = KeyField(o)
  PROVE  HasKey(t, c, e, o, x)
<1>1. c[e] = <<"table", o>>
  BY DEF HasKey
<1>2. \A i \in DOMAIN t : t[i].to = e => Merges(t[i].over, o, x)
  <2> SUFFICES ASSUME NEW i \in DOMAIN t, t[i].to = e
               PROVE  Merges(t[i].over, o, x)
    OBVIOUS
  <2>1. i \in DOMAIN s /\ s[i].to = e /\ t[i].over = s[i].over
    OBVIOUS
  <2>2. Merges(s[i].over, o, x)
    BY <2>1 DEF HasKey
  <2> QED BY <2>1, <2>2
<1>3. \/ KeyRank(c, e) = x
      \/ \E i \in DOMAIN t : t[i].to = e /\ \E k \in DOMAIN t[i].todo : t[i].todo[k].key = KeyField(o)
  BY DEF HasKey
<1> QED BY <1>1, <1>2, <1>3 DEF HasKey

(* A vector that has no new element keeps its own ones. *)
LEMMA ListKept ==
  ASSUME NEW was, NEW s, NEW t, NEW b, NEW c, NEW p, Listed(was, s, b, p),
         c[p] = b[p], KeysAt(c, p) = KeysAt(b, p),
         \A i \in DOMAIN t : t[i].to = p => i \in DOMAIN s /\ s[i].to = p /\ t[i].todo = s[i].todo,
         was # Empty /\ KeyField(b[p][2].of) # NoKey =>
           \A y \in KeysAt(b, p) : \A x :
             HasKey(s, b, Append(p, y), b[p][2].of, x) =>
             HasKey(t, c, Append(p, y), b[p][2].of, x)
  PROVE  Listed(was, t, c, p)
<1> DEFINE o == b[p][2].of
<1>1. PICK m, n, r :
        /\ m \in 0 .. Len(Position) /\ n \in 0 .. Len(Position)
        /\ m <= n /\ Row(b, p, m)
        /\ \A i \in DOMAIN s : s[i].to = p =>
             m + Len(s[i].todo) <= n /\ \A k \in DOMAIN s[i].todo : s[i].todo[k].slot = Position[m + k]
        /\ was # Empty /\ KeyField(o) # NoKey => InOrder(s, b, p, m, n, r)
  BY DEF Listed
<1>2. Row(c, p, m)
  BY <1>1 DEF Row
<1>3. \A i \in DOMAIN t : t[i].to = p =>
        m + Len(t[i].todo) <= n /\ \A k \in DOMAIN t[i].todo : t[i].todo[k].slot = Position[m + k]
  BY <1>1
<1>4. ASSUME was # Empty, KeyField(o) # NoKey
      PROVE  InOrder(t, c, p, m, n, r)
  <2>1. /\ \A i \in 1 .. n : r[i] \in Int
        /\ \A i, j \in 1 .. n : i < j => r[i] < r[j]
        /\ \A i \in 1 .. m : HasKey(s, b, Append(p, Position[i]), o, r[i])
        /\ \A i \in DOMAIN s : s[i].to = p => \A k \in DOMAIN s[i].todo : Merges(s[i].todo[k].over, o, r[m + k])
    BY <1>1, <1>4 DEF InOrder
  <2>2. \A i \in 1 .. m : HasKey(t, c, Append(p, Position[i]), o, r[i])
    BY <1>1, <1>4, <2>1 DEF Row
  <2>3. \A i \in DOMAIN t : t[i].to = p => \A k \in DOMAIN t[i].todo : Merges(t[i].todo[k].over, o, r[m + k])
    BY <2>1
  <2>4. c[p][2].of = o
    OBVIOUS
  <2> QED BY <2>1, <2>2, <2>3, <2>4 DEF InOrder
<1>5. c[p][2].of = o
  OBVIOUS
<1> HIDE DEF o
<1> QED BY <1>1, <1>2, <1>3, <1>4, <1>5 DEF Listed

(* Elements of vectors keep their keys. *)
LEMMA KeysAdvance ==
  ASSUME Ordered, Building, NEW t, NEW c, NEW y, Advances(t, c, y), first # Empty,
         NEW e \in DOMAIN buffer, NEW o, KeyField(o) # NoKey, NEW x, HasKey(frames, buffer, e, o, x)
  PROVE  HasKey(t, c, e, o, x)
<1> DEFINE n == Len(frames)
           q == Append(Top.to, y)
           key == KeyField(o)
<1>1. /\ n \in DOMAIN frames /\ Top = frames[n] /\ Due = Top.todo[1] /\ Path(Top.to)
      /\ Sound(buffer) /\ Path(e)
  BY DueIs, DueFits, SoundPaths
<1>2. buffer[e] = <<"table", o>> /\ buffer[e][1] = "table"
  BY Pairs DEF HasKey
<1>3. e # q /\ c[e] = buffer[e]
  BY <1>2 DEF Advances
<1>4. \A i \in DOMAIN t : t[i].to = e => i \in DOMAIN frames /\ frames[i].to = e /\ t[i].over = frames[i].over
  BY <1>1 DEF Advances
<1>5. \A i \in DOMAIN frames : i # n => i \in DOMAIN t /\ t[i] = frames[i]
  BY DEF Advances
<1>6. ASSUME Append(e, key) # q
      PROVE  KeyRank(c, e) = KeyRank(buffer, e)
  <2> DEFINE a == Append(e, key)
  <2>1. /\ DOMAIN buffer \subseteq DOMAIN c /\ DOMAIN c \subseteq DOMAIN buffer \cup {q}
        /\ \A r \in DOMAIN buffer : r # q => c[r] = buffer[r]
    BY DEF Advances
  <2> HIDE DEF q, a
  <2>2. Node(c, a) = Node(buffer, a)
    BY <1>6, <2>1 DEF Node, a
  <2> QED BY <1>2, <1>3, <2>2, RankSame DEF a
<1>7. CASE e # Top.to
  <2>1. Append(e, key) # q
    BY <1>1, <1>7, StepsEqual
  <2>2. \A i \in DOMAIN frames : frames[i].to = e => i \in DOMAIN t /\ t[i] = frames[i]
    BY <1>1, <1>5, <1>7
  <2>3. KeyRank(c, e) = KeyRank(buffer, e)
    BY <1>6, <2>1
  <2> HIDE DEF q
  <2> QED BY <1>3, <1>4, <2>2, <2>3, KeyKept
<1>8. CASE e = Top.to
  <2>1. Top.op = "table" /\ Top.type = o
    <3>1. Top.op \in Ops
      BY DueTypes
    <3>2. Top.op \in {"vector", "array"} => buffer[Top.to][1] = Top.op
      BY DueTypes
    <3>3. /\ Top.op = "table" => buffer[Top.to] = <<"table", Top.type>>
          /\ Top.op \in {"struct", "variant"} => buffer[Top.to] = <<"struct", Top.type>>
      BY DueTypes
    <3>4. Top.op \in {"struct", "variant"} => buffer[Top.to][1] = "struct"
      BY <3>3, Pairs
    <3>5. Top.op = "table"
      BY <1>2, <1>8, <3>1, <3>2, <3>4 DEF Ops
    <3>6. Top.op = "table" => buffer[Top.to][2] = Top.type
      BY <3>3, Pairs
    <3>7. buffer[e][2] = o
      BY <1>2, Pairs
    <3> QED BY <1>8, <3>5, <3>6, <3>7
  <2>2. CASE Due.key = key
    <3>1. Merges(Top.over, o, x)
      BY <1>1, <1>8 DEF HasKey
    <3>2. KeyRank(c, e) = x
      BY <1>8, <2>1, <2>2, <3>1 DEF Advances
    <3> QED BY <1>3, <1>4, <3>2, KeyKept
  <2>3. CASE Due.key # key
    <3>1. Append(e, key) # q
      <4>1. y # key
        BY <2>1, <2>3 DEF Advances
      <4> QED BY <1>1, <1>8, <4>1, StepsEqual
    <3>2. KeyRank(c, e) = KeyRank(buffer, e)
      BY <1>6, <3>1
    <3>3. ASSUME NEW i \in DOMAIN frames, frames[i].to = e,
                 NEW k \in DOMAIN frames[i].todo, frames[i].todo[k].key = key
          PROVE  \E j \in DOMAIN t : t[j].to = e /\ \E l \in DOMAIN t[j].todo : t[j].todo[l].key = key
      <4>1. i = n
        BY <1>8, <3>3, ToIsFree
      <4>2. k \in DOMAIN Top.todo /\ k # 1 /\ Top.todo[k].key = key
        BY <1>1, <2>3, <3>3, <4>1
      <4>3. n \in DOMAIN t /\ t[n].to = e /\ \E l \in DOMAIN t[n].todo : t[n].todo[l].key = key
        BY <1>1, <1>8, <4>2 DEF Advances
      <4> QED BY <4>3
    <3> HIDE DEF q
    <3> QED BY <1>3, <1>4, <3>2, <3>3, KeyKept
  <2> QED BY <2>2, <2>3
<1> QED BY <1>7, <1>8

(* Vectors that the step is not about keep their elements in order. *)
LEMMA ListsAdvance ==
  ASSUME Ordered, Building, NEW t, NEW c, NEW y, Advances(t, c, y), \A r \in DOMAIN c : Path(r),
         NEW p \in Lists(buffer), p # Top.to
  PROVE  Listed(first, t, c, p)
<1> DEFINE n == Len(frames)
           q == Append(Top.to, y)
<1>1. /\ n \in DOMAIN frames /\ Top = frames[n] /\ Path(Top.to)
      /\ Sound(buffer) /\ Path(p) /\ p \in DOMAIN buffer /\ buffer[p][1] = "vector"
  BY DueIs, DueFits, SoundPaths DEF Lists
<1>2. Listed(first, frames, buffer, p)
  BY DEF Ordered, Shaped
<1>3. /\ DOMAIN buffer \subseteq DOMAIN c /\ DOMAIN c \subseteq DOMAIN buffer \cup {q}
      /\ \A r \in DOMAIN buffer : r # q => c[r] = buffer[r]
      /\ p # q
  BY <1>1 DEF Advances
<1>4. c[p] = buffer[p]
  BY <1>1, <1>3
<1>5. ASSUME NEW x
      PROVE  Append(p, x) # q
  <2>1. Append(p, x) = Append(Top.to, y) => p = Top.to
    BY <1>1, StepsEqual
  <2> QED BY <2>1
<1>6. \A x : x \in KeysAt(c, p) <=> Append(p, x) \in DOMAIN c
  BY <1>1, KeysAre
<1>7. \A x : x \in KeysAt(buffer, p) <=> Append(p, x) \in DOMAIN buffer
  BY <1>1, SoundPaths
<1>8. KeysAt(c, p) = KeysAt(buffer, p)
  <2> DEFINE A == KeysAt(c, p)
             B == KeysAt(buffer, p)
  <2>1. \A x : x \in A <=> Append(p, x) \in DOMAIN c
    BY <1>6
  <2>2. \A x : x \in B <=> Append(p, x) \in DOMAIN buffer
    BY <1>7
  <2> HIDE DEF A, B, q
  <2>3. ASSUME NEW x
        PROVE  x \in A <=> x \in B
    <3> DEFINE a == Append(p, x)
    <3>1. a # q
      BY <1>5
    <3>2. (x \in A <=> a \in DOMAIN c) /\ (x \in B <=> a \in DOMAIN buffer)
      BY <2>1, <2>2
    <3> HIDE DEF a
    <3> QED BY <1>3, <3>1, <3>2
  <2>4. A = B
    BY <2>3
  <2> QED BY <2>4 DEF A, B
<1>9. \A i \in DOMAIN t : t[i].to = p => i \in DOMAIN frames /\ frames[i].to = p /\ t[i].todo = frames[i].todo
  BY <1>1 DEF Advances
<1>10. first # Empty /\ KeyField(buffer[p][2].of) # NoKey =>
         \A x \in KeysAt(buffer, p) : \A z :
           HasKey(frames, buffer, Append(p, x), buffer[p][2].of, z) =>
           HasKey(t, c, Append(p, x), buffer[p][2].of, z)
  BY <1>7, KeysAdvance
<1> HIDE DEF q, n
<1> QED BY <1>2, <1>4, <1>8, <1>9, <1>10, ListKept
-----------------------------------------------------------------------------
(* What is to be shown of a step. *)

Settled(c) ==
  Top.op = "table" /\ KeyField(Top.type) # NoKey /\ first # Empty /\ Due.key = KeyField(Top.type) =>
    \A x : Merges(Top.over, Top.type, x) => KeyRank(c, Top.to) = x

(* What is stored at y in the call in progress is not a default. *)
Stored(c, y) ==
  LET q == Append(Top.to, y)
      type == Objects[Top.type].type[y]
  IN first = Empty /\ Top.op = "table" /\ type.base = "scalar" /\ q \in DOMAIN c /\ c[q][1] = "scalar" =>
       c[q][3] # type.default

(* The buffer goes on without stored defaults. *)
LEMMA StepElides ==
  ASSUME Ordered, Building, first = Empty, NEW t, NEW c, NEW y, Advances(t, c, y), Sound(c), Stored(c, y)
  PROVE  Elides(c)
<1> DEFINE q == Append(Top.to, y)
<1>1. /\ DOMAIN buffer \subseteq DOMAIN c /\ DOMAIN c \subseteq DOMAIN buffer \cup {q}
      /\ \A r \in DOMAIN buffer : r # q => c[r] = buffer[r]
      /\ q \in DOMAIN buffer => buffer[q][1] = "scalar"
  BY DEF Advances
<1>2. Path(Top.to) /\ Sound(buffer) /\ Elides(buffer)
  BY DueIs, DueFits DEF Ordered
<1> SUFFICES ASSUME NEW e \in DOMAIN c, NEW f, c[e][1] = "table", Append(e, f) \in DOMAIN c,
                    Objects[c[e][2]].type[f].base = "scalar"
             PROVE  c[Append(e, f)][3] # Objects[c[e][2]].type[f].default
  BY Zenon DEF Elides
<1>3. Path(e) /\ ChildFits(c, e, f)
  BY SoundPaths
<1>4. c[Append(e, f)][1] = "scalar"
  <2>1. Fits(c[Append(e, f)], Objects[c[e][2]].type[f])
    BY <1>3 DEF ChildFits
  <2> QED BY <2>1 DEF Fits, Tag
<1>5. CASE Append(e, f) = q
  <2>1. e = Top.to /\ f = y
    BY <1>2, <1>3, <1>5, StepsEqual
  <2>2. e \in DOMAIN buffer /\ e # q
    <3>1. Top.to \in DOMAIN buffer
      BY DueFits
    <3>2. Len(q) = Len(Top.to) + 1 /\ Len(Top.to) \in Nat
      BY <1>2, PathGrows
    <3> HIDE DEF q
    <3> QED BY <2>1, <3>1, <3>2
  <2>3. buffer[e][1] = "table" /\ c[e] = buffer[e]
    BY <1>1, <2>2
  <2>4. Top.op = "table" /\ buffer[e][2] = Top.type
    <3>1. CallFits(doc, first, buffer, Top)
      BY DueFits
    <3> QED BY <2>1, <2>3, <3>1, OpIs DEF Ops
  <2> QED BY <1>4, <1>5, <2>1, <2>3, <2>4 DEF Stored
<1>6. CASE Append(e, f) # q
  <2>1. Append(e, f) \in DOMAIN buffer
    BY <1>1, <1>6
  <2>2. e \in DOMAIN buffer /\ ChildFits(buffer, e, f)
    BY <1>2, <1>3, <2>1, SoundPaths
  <2>3. e # q
    <3>1. buffer[e][1] # "scalar"
      BY <2>2 DEF ChildFits
    <3> QED BY <1>1, <2>2, <3>1
  <2>4. c[e] = buffer[e] /\ c[Append(e, f)] = buffer[Append(e, f)]
    BY <1>1, <1>6, <2>1, <2>2, <2>3
  <2> QED BY <1>2, <2>1, <2>2, <2>4 DEF Elides
<1> QED BY <1>5, <1>6

(* A step of from_json that gets on with what is due.                      *)
LEMMA StepOrdered ==
  ASSUME Ordered, Building, NEW t, NEW c, NEW y, Move(t, c), Nested', Advances(t, c, y),
         Sound(c), \A i \in DOMAIN t : CallFits(doc, first, c, t[i]),
         \A p \in Lists(c) : p \notin Lists(buffer) \/ p = Top.to => Listed(first, t, c, p),
         \A i \in DOMAIN t :
           \/ /\ i \in DOMAIN frames /\ t[i].op = frames[i].op
              /\ t[i].from = frames[i].from /\ t[i].to = frames[i].to
           \/ first # Empty => Reads(first, c, t[i]),
         first = Empty => \A r \in DOMAIN c : r \notin DOMAIN buffer \/ r = Append(Top.to, y) =>
           (c[r][1] = "string" => c[r][2] \in DOMAIN TextRank),
         Stored(c, y)
  PROVE  Ordered'
<1> DEFINE q == Append(Top.to, y)
<1>1. /\ frames' = t /\ buffer' = c /\ doc' = doc /\ first' = first
      /\ given' = given /\ phase' = phase
  BY DEF Move
<1>2. /\ DOMAIN buffer \subseteq DOMAIN c
      /\ \A r \in DOMAIN buffer : r # q => c[r] = buffer[r]
      /\ q \in DOMAIN buffer => buffer[q][1] = "scalar"
  BY DEF Advances
<1>3. Path(Top.to) /\ Shaped(doc, first, frames, buffer) /\ frames # <<>>
  BY DueIs DEF Ordered, Building
<1>4. \A p \in Lists(c) : Listed(first, t, c, p)
  <2> SUFFICES ASSUME NEW p \in Lists(c), p \in Lists(buffer), p # Top.to
               PROVE  Listed(first, t, c, p)
    OBVIOUS
  <2>1. \A r \in DOMAIN c : Path(r)
    BY SoundPaths
  <2> QED BY <2>1, ListsAdvance
<1>5. first # Empty => \A i \in DOMAIN t : Reads(first, c, t[i])
  <2> SUFFICES ASSUME first # Empty, NEW i \in DOMAIN t,
                      i \in DOMAIN frames, t[i].op = frames[i].op,
                      t[i].from = frames[i].from, t[i].to = frames[i].to
               PROVE  Reads(first, c, t[i])
    OBVIOUS
  <2>1. Reads(first, buffer, frames[i]) /\ CallFits(doc, first, buffer, frames[i])
    BY <1>3 DEF Shaped
  <2>2. frames[i].to \in DOMAIN buffer
    BY <2>1 DEF CallFits
  <2>3. frames[i].op \in {"table", "vector"} => c[frames[i].to] = buffer[frames[i].to]
    <3>1. frames[i].op = "table" => buffer[frames[i].to] = <<"table", frames[i].type>>
      BY <2>1 DEF CallFits
    <3>2. frames[i].op = "table" => buffer[frames[i].to][1] = "table"
      BY <3>1, Pairs
    <3>3. frames[i].op = "vector" => buffer[frames[i].to][1] = "vector"
      BY <2>1 DEF CallFits
    <3> QED BY <1>2, <2>2, <3>2, <3>3
  <2> QED BY <2>1, <2>3 DEF Reads
<1>6. Shaped(doc, first, t, c)
  BY <1>4, <1>5 DEF Shaped
<1>7. HasRoot(c)
  <2>1. HasRoot(buffer)
    BY <1>3 DEF Ordered
  <2>2. q # <<>>
    <3>1. Len(q) = Len(Top.to) + 1 /\ Len(Top.to) \in Nat /\ Len(<<>>) = 0
      BY <1>3, PathGrows
    <3> HIDE DEF q
    <3> QED BY <3>1
  <2> HIDE DEF q
  <2> QED BY <1>2, <2>1, <2>2 DEF HasRoot
<1>8. first = Empty => StringsRanked(c) /\ Elides(c)
  <2>1. first = Empty => StringsRanked(buffer)
    BY DEF Ordered
  <2>2. first = Empty => Elides(c)
    BY StepElides
  <2> QED BY <1>2, <2>1, <2>2 DEF StringsRanked
<1>9. /\ first = Empty => doc = given
      /\ given \in Docs
      /\ first # Empty =>
           /\ doc = Json(first) /\ Sound(first) /\ HasRoot(first)
           /\ StringsRanked(first) /\ Elides(first)
           /\ \A p \in Lists(first) : \E m : Row(first, p, m)
  BY DEF Ordered
<1> QED BY <1>1, <1>6, <1>7, <1>8, <1>9 DEF Ordered

(* The next item is the key of the table.                                  *)
LEMMA KeyDue ==
  ASSUME Ordered, Building, Top.op = "table", KeyField(Top.type) # NoKey, Due.key = KeyField(Top.type)
  PROVE  /\ Type = Objects[Top.type].type[KeyField(Top.type)] /\ Type.base \in {"string", "scalar"}
         /\ Top.type \in DOMAIN Objects /\ buffer[Top.to] = <<"table", Top.type>>
         /\ To = Append(Top.to, KeyField(Top.type)) /\ To \notin DOMAIN buffer
<1>1. /\ Top.type \in DOMAIN Objects /\ Due.slot = Due.key /\ buffer[Top.to] = <<"table", Top.type>>
      /\ \/ Type = Objects[Top.type].type[Due.key]
         \/ Objects[Top.type].type[Due.key].base = "union"
      /\ To \in DOMAIN buffer => Objects[Top.type].type[Due.key].base = "disc"
  BY DueTypes
<1>2. Objects[Top.type].type[KeyField(Top.type)].base \in {"string", "scalar"}
  BY <1>1, KeyTypes
<1>3. To = Append(Top.to, Due.slot)
  BY DueIs DEF Ordered
<1> QED BY <1>1, <1>2, <1>3

(* The call in progress goes on. *)
LEMMA RestAdvances ==
  ASSUME Ordered, Building, NEW c, Settled(c), c = buffer \/ \E node : c = Put(To, node)
  PROVE  Advances(Rest, c, Due.slot)
<1> DEFINE n == Len(frames)
           q == Append(Top.to, Due.slot)
<1>1. q = To /\ n \in DOMAIN frames /\ Due = Top.todo[1]
  BY DueIs DEF Ordered
<1>2. /\ DOMAIN buffer \subseteq DOMAIN c /\ DOMAIN c \subseteq DOMAIN buffer \cup {To}
      /\ \A r \in DOMAIN buffer : r # To => c[r] = buffer[r]
  BY DEF Put
<1>3. To \in DOMAIN buffer => buffer[To][1] = "scalar"
  BY DiscDue
<1>4. /\ DOMAIN Rest = DOMAIN frames
      /\ \A i \in DOMAIN frames : i # n => Rest[i] = frames[i]
      /\ Rest[n].to = Top.to /\ Rest[n].over = Top.over
      /\ DOMAIN Rest[n].todo = 1 .. (Len(Top.todo) - 1)
      /\ \A k \in DOMAIN Rest[n].todo :
           k + 1 \in DOMAIN Top.todo /\ k + 1 # 1 /\ Rest[n].todo[k] = Top.todo[k + 1]
  BY RestIs DEF Ordered
<1>5. ASSUME NEW k \in DOMAIN Top.todo, k # 1
      PROVE  \E l \in DOMAIN Rest[n].todo : Rest[n].todo[l].key = Top.todo[k].key
  <2>1. Len(Top.todo) \in Nat /\ DOMAIN Top.todo = 1 .. Len(Top.todo)
    BY DueIs DEF Ordered
  <2>2. k - 1 \in DOMAIN Rest[n].todo /\ (k - 1) + 1 = k
    BY <1>4, <1>5, <2>1
  <2>3. Rest[n].todo[k - 1] = Top.todo[k]
    BY <1>4, <2>2
  <2> QED BY <2>2, <2>3
<1>6. Top.op = "table" => Due.slot = Due.key
  BY DueTypes
<1> HIDE DEF n
<1> QED BY <1>1, <1>2, <1>3, <1>4, <1>5, <1>6 DEF Advances, Settled, n

(* A scalar of a table is not the default. *)
Fresh(node) == Top.op = "table" /\ Type.base = "scalar" /\ node[1] = "scalar" => node[3] # Type.default

(* It goes on without a new table or vector of tables.                     *)
LEMMA RestOrdered ==
  ASSUME Ordered, Building, Type.base = "table" => Due.need # "value",
         NEW c, Move(Rest, c), Nested', Settled(c),
         Sound(c), \A i \in DOMAIN Rest : CallFits(doc, first, c, Rest[i]),
         \/ c = buffer
         \/ \E node : /\ c = Put(To, node) /\ node[1] # "vector"
                      /\ first = Empty /\ node[1] = "string" => node[2] \in DOMAIN TextRank
                      /\ Fresh(node)
  PROVE  Ordered'
<1> DEFINE y == Due.slot
<1>1. Advances(Rest, c, y)
  BY RestAdvances
<1>2. Append(Top.to, y) = To /\ frames # <<>>
  BY DueIs DEF Ordered, Building
<1>3. Top.to \notin Lists(buffer)
  <2>1. Top.op \in Ops
    BY DueTypes
  <2>2. Top.op \in {"vector", "array"} =>
          buffer[Top.to][1] = Top.op /\ Type.base = buffer[Top.to][2].elem /\ Due.need = "value"
    BY DueTypes
  <2>3. /\ Top.op = "table" => buffer[Top.to] = <<"table", Top.type>>
        /\ Top.op \in {"struct", "variant"} => buffer[Top.to] = <<"struct", Top.type>>
    BY DueTypes
  <2>4. Top.op \in {"table", "struct", "variant"} => buffer[Top.to][1] # "vector"
    BY <2>3, Pairs
  <2> QED BY <2>1, <2>2, <2>4 DEF Lists, Ops
<1>4. \A p \in Lists(c) : p \in Lists(buffer)
  <2>1. CASE c = buffer
    BY <2>1
  <2>2. ASSUME NEW node, c = Put(To, node), node[1] # "vector", NEW p \in Lists(c)
        PROVE  p \in Lists(buffer)
    BY <2>2 DEF Put, Lists
  <2> QED BY <2>1, <2>2
<1>5. \A i \in DOMAIN Rest :
        /\ i \in DOMAIN frames /\ Rest[i].op = frames[i].op
        /\ Rest[i].from = frames[i].from /\ Rest[i].to = frames[i].to
  <2>1. /\ DOMAIN Rest = DOMAIN frames /\ Top = frames[Len(frames)]
        /\ \A i \in DOMAIN frames : i # Len(frames) => Rest[i] = frames[i]
        /\ Rest[Len(frames)].op = Top.op /\ Rest[Len(frames)].from = Top.from /\ Rest[Len(frames)].to = Top.to
    BY RestIs, DueIs DEF Ordered
  <2> QED BY <2>1
<1>6. first = Empty => \A r \in DOMAIN c : r \notin DOMAIN buffer \/ r = To =>
        (c[r][1] = "string" => c[r][2] \in DOMAIN TextRank)
  <2>1. CASE c = buffer
    BY <2>1 DEF Ordered, StringsRanked
  <2>2. ASSUME NEW node, c = Put(To, node), first = Empty,
               node[1] = "string" => node[2] \in DOMAIN TextRank,
               NEW r \in DOMAIN c, r \notin DOMAIN buffer \/ r = To, c[r][1] = "string"
        PROVE  c[r][2] \in DOMAIN TextRank
    <3>1. c[r] = node
      BY <2>2 DEF Put
    <3> QED BY <2>2, <3>1
  <2> QED BY <2>1, <2>2
<1>7. Stored(c, y)
  <2>1. CASE c = buffer
    <3> SUFFICES ASSUME first = Empty, Top.op = "table", Objects[Top.type].type[y].base = "scalar",
                        To \in DOMAIN buffer
                 PROVE  buffer[To][3] # Objects[Top.type].type[y].default
      BY <1>2, <2>1 DEF Stored
    <3>1. Top.to \in DOMAIN buffer /\ CallFits(doc, first, buffer, Top) /\ Elides(buffer)
      BY DueFits DEF Ordered
    <3>2. buffer[Top.to][1] = "table" /\ buffer[Top.to][2] = Top.type
      BY <3>1, OpIs
    <3> HIDE DEF y
    <3> QED BY <1>2, <3>1, <3>2 DEF Elides
  <2>2. ASSUME NEW node, c = Put(To, node), Fresh(node)
        PROVE  Stored(c, y)
    <3> SUFFICES ASSUME Top.op = "table", Objects[Top.type].type[y].base = "scalar", c[To][1] = "scalar"
                 PROVE  c[To][3] # Objects[Top.type].type[y].default
      BY <1>2 DEF Stored
    <3>1. c[To] = node
      BY <2>2 DEF Put
    <3>2. Type = Objects[Top.type].type[y]
      BY DueTypes
    <3> HIDE DEF y
    <3> QED BY <2>2, <3>1, <3>2 DEF Fresh
  <2> QED BY <2>1, <2>2
<1> DEFINE t == Rest
<1>8. /\ Move(t, c) /\ Advances(t, c, y) /\ \A i \in DOMAIN t : CallFits(doc, first, c, t[i])
      /\ \A i \in DOMAIN t : /\ i \in DOMAIN frames /\ t[i].op = frames[i].op
                             /\ t[i].from = frames[i].from /\ t[i].to = frames[i].to
  BY <1>1, <1>5
<1> HIDE DEF t, y
<1> QED BY <1>2, <1>3, <1>4, <1>6, <1>8, <1>7, StepOrdered
-----------------------------------------------------------------------------
(* Scalars. *)

(* What a scalar can be decoded to. *)
LEMMA DecodedIs ==
  ASSUME NEW kind, NEW json
  PROVE  Decode(kind, json)[1] \in {"int", "real", "inf", "bool", "bad"}
<1> DEFINE All == {"int", "real", "inf", "bool", "bad"}
<1>1. \A reason : Bad(reason)[1] \in All
  BY DEF Bad
<1>2. \A n : <<"int", n>>[1] \in All /\ <<"real", n>>[1] \in All /\ <<"inf", 0>>[1] \in All
  OBVIOUS
<1>3. \A n : InRange(kind, n)[1] \in All
  BY <1>1, <1>2 DEF InRange
<1>4. DecodeBool(json)[1] \in All
  BY <1>1 DEF DecodeBool
<1> HIDE DEF All
<1>5. DecodeSigned(kind, json)[1] \in All
  BY <1>1, <1>3 DEF DecodeSigned
<1>6. DecodeUnsigned(kind, json)[1] \in All
  BY <1>1, <1>3 DEF DecodeUnsigned
<1>7. DecodeFloat(kind, json)[1] \in All
  BY <1>1, <1>2 DEF DecodeFloat
<1>8. DecodeEnum(kind, json)[1] \in All
  BY <1>1, <1>3 DEF DecodeEnum
<1>9. Decode(kind, json)[1] \in All
  BY <1>4, <1>5, <1>6, <1>7, <1>8 DEF Decode
<1> QED BY <1>9 DEF All

(* An integer of the i64 stays what it is, if its type is one of integers. *)
LEMMA DecodedInt ==
  ASSUME NEW kind, kind.sort \in {"signed", "unsigned"}, NEW x \in -Wide .. Wide - 1,
         ~IsBad(Decode(kind, <<"int", x>>))
  PROVE  Decode(kind, <<"int", x>>) = <<"int", x>>
<1> DEFINE json == <<"int", x>>
<1>1. json[1] = "int" /\ json[2] = x /\ json[1] # "string"
  OBVIOUS
<1>2. \A reason : IsBad(Bad(reason))
  BY DEF IsBad, Bad
<1>3. IsI64(json)
  BY <1>1 DEF IsI64
<1> HIDE DEF json
<1>4. InRange(kind, x) = <<"int", x>> \/ IsBad(InRange(kind, x))
  BY <1>2 DEF InRange
<1>5. DecodeEnum(kind, json) = InRange(kind, x)
  BY <1>1, <1>3 DEF DecodeEnum
<1>6. DecodeSigned(kind, json) = InRange(kind, x)
  BY <1>1, <1>3 DEF DecodeSigned
<1>7. DecodeUnsigned(kind, json) = InRange(kind, x) \/ IsBad(DecodeUnsigned(kind, json))
  BY <1>1, <1>2 DEF DecodeUnsigned
<1>8. Decode(kind, json) = InRange(kind, x) \/ IsBad(Decode(kind, json))
  BY <1>5, <1>6, <1>7 DEF Decode
<1> QED BY <1>4, <1>8 DEF json

(* The name of an enum's member becomes its value. *)
LEMMA DecodedName ==
  ASSUME NEW kind, NEW json, NEW v \in DOMAIN kind.names, Says(json, v), ~IsBad(Decode(kind, json))
  PROVE  Decode(kind, json) = <<"int", kind.names[v]>>
<1>1. json[1] = "string" /\ json[2] = v
  BY DEF Says
<1>2. kind.names # <<>>
  OBVIOUS
<1>3. Decode(kind, json) = InRange(kind, kind.names[v])
  BY <1>1, <1>2 DEF Decode, DecodeEnum
<1>4. InRange(kind, kind.names[v]) = <<"int", kind.names[v]>> \/ IsBad(InRange(kind, kind.names[v]))
  BY DEF InRange, IsBad, Bad
<1> QED BY <1>3, <1>4

-----------------------------------------------------------------------------
(* One lemma for each action of BuildStep, once more. *)

(* A refusal leaves nothing to be in order. *)
LEMMA RefuseOrdered ==
  ASSUME Ordered, NEW reason, Refuse(reason)
  PROVE  Ordered'
<1>1. /\ phase' = "refused" /\ frames' = <<>> /\ buffer' = Empty
      /\ given' = given /\ doc' = doc /\ first' = first
  BY DEF Refuse
<1>2. DOMAIN Empty = {} /\ DOMAIN <<>> = {}
  BY DEF Empty
<1>3. Shaped(doc, first, <<>>, Empty) /\ StringsRanked(Empty) /\ Elides(Empty)
  BY <1>2 DEF Shaped, Sound, Lists, StringsRanked, Elides
<1>4. Nested'
  BY RefuseNested
<1>5. /\ first = Empty => doc = given
      /\ given \in Docs
      /\ first # Empty =>
           /\ doc = Json(first) /\ Sound(first) /\ HasRoot(first)
           /\ StringsRanked(first) /\ Elides(first)
           /\ \A p \in Lists(first) : \E m : Row(first, p, m)
  BY DEF Ordered
<1> QED BY <1>1, <1>3, <1>4, <1>5 DEF Ordered

(* The value of the key of a table is the key it has been merged as.       *)
LEMMA KeyMerged ==
  ASSUME Ordered, Building, Top.op = "table", KeyField(Top.type) # NoKey, Due.key = KeyField(Top.type),
         NEW x, Merges(Top.over, Top.type, x)
  PROVE  /\ Type.base = "string" => \E t \in DOMAIN TextRank : Value = <<"string", t>> /\ TextRank[t] = x
         /\ Type.base # "string" =>
              /\ Kinds[Type.of].sort \in {"signed", "unsigned"}
              /\ Value = <<"int", x>> /\ x \in -Wide .. Wide - 1 /\ Value # Type.default
         /\ Value \notin {Absent, Null}
<1>1. Value = Top.over[2]
  BY DEF Merges, Value
<1>2. Type = Objects[Top.type].type[KeyField(Top.type)]
  BY KeyDue
<1>3. /\ Type.base = "string" => \E t \in DOMAIN TextRank : Value = <<"string", t>> /\ TextRank[t] = x
      /\ Type.base # "string" =>
           /\ Kinds[Type.of].sort \in {"signed", "unsigned"}
           /\ Value = <<"int", x>> /\ x \in -Wide .. Wide - 1 /\ Value # Type.default
  BY <1>1, <1>2 DEF Merges
<1>4. Value[1] \in {"string", "int"}
  BY <1>3, Pairs
<1>5. Absent[1] = "absent" /\ Null[1] = "null"
  BY DEF Absent, Null
<1> QED BY <1>3, <1>4, <1>5

(* Nothing is built. *)
LEMMA NothingBuilt ==
  ASSUME Ordered, Building, Type.base = "union" \/ ~IsGiven, Move(Rest, buffer)
  PROVE  Ordered'
<1>1. Nested'
  BY RestMoves DEF Ordered
<1>2. Sound(buffer) /\ \A i \in DOMAIN Rest : CallFits(doc, first, buffer, Rest[i])
  BY DueFits, RestFits
<1>3. Settled(buffer)
  BY KeyDue, KeyMerged DEF Settled, IsGiven
<1>4. Type.base = "table" => Due.need # "value"
  BY DEF IsGiven
<1> QED BY <1>1, <1>2, <1>3, <1>4, RestOrdered

(* Nothing is built for what is not given. *)
LEMMA BuildAbsentOrdered == Ordered /\ BuildAbsent => Ordered'
BY RefuseOrdered, NothingBuilt DEF BuildAbsent
(* A leaf is built. *)
LEMMA LeafBuilt ==
  ASSUME Ordered, Building, Type.base \notin {"table", "union"}, NEW node, Known(node), Fits(node, Type),
         node[1] \notin {"table", "vector"}, Move(Rest, Put(To, node)), Settled(Put(To, node)),
         Type.base = "disc" /\ Top.op = "table" =>
           \A v \in DOMAIN Kinds[Type.of].names : Says(Node(doc, From), v) =>
             node = <<"scalar", Kinds[Type.of], <<"int", Kinds[Type.of].names[v]>>>>,
         first = Empty /\ node[1] = "string" => node[2] \in DOMAIN TextRank, Fresh(node)
  PROVE  Ordered'
<1> DEFINE c == Put(To, node)
<1>1. Tables(c) \subseteq Tables(buffer)
  BY PutTables
<1>2. c = Put(To, node) /\ Move(Rest, c) /\ Settled(c)
  OBVIOUS
<1> HIDE DEF c
<1>3. Nested'
  BY <1>1, <1>2, RestMoves DEF Ordered
<1>4. Sound(c) /\ \A i \in DOMAIN Rest : CallFits(doc, first, c, Rest[i])
  BY <1>2, PutFits
<1> QED BY <1>2, <1>3, <1>4, RestOrdered

(* A string of a document given has its place in the order of strings.     *)
LEMMA StringGiven ==
  ASSUME Ordered, Building, first = Empty, Value[1] = "string"
  PROVE  Value[2] \in DOMAIN TextRank
<1>1. CASE Value = Node(doc, From)
  <2>1. From \in DOMAIN doc /\ Value = doc[From]
    BY <1>1 DEF Node, Absent
  <2>2. doc \in Docs
    BY DEF Ordered
  <2> QED BY <2>1, <2>2, DocsAssumption
<1>2. CASE Value # Node(doc, From)
  BY <1>2, MergedIs DEF OverFits
<1> QED BY <1>1, <1>2

(* A string, the key of its table at times. *)
LEMMA BuildStringOrdered == Ordered /\ BuildString => Ordered'
<1> SUFFICES ASSUME Ordered, BuildString PROVE Ordered'
  OBVIOUS
<1> DEFINE node == Value
<1>1. CASE Refuse("type")
  BY <1>1, RefuseOrdered
<1>2. CASE ~Refuse("type")
  <2>1. Building /\ Type.base = "string" /\ node[1] = "string" /\ Move(Rest, Put(To, node))
    BY <1>2 DEF BuildString
  <2>2. Known(node) /\ Fits(node, Type)
    BY <2>1 DEF Known, Fits, Tag
  <2>3. first = Empty => node[2] \in DOMAIN TextRank
    BY <2>1, StringGiven
  <2>4. ASSUME Top.op = "table", KeyField(Top.type) # NoKey, first # Empty, Due.key = KeyField(Top.type),
               NEW x, Merges(Top.over, Top.type, x)
        PROVE  KeyRank(Put(To, node), Top.to) = x
    <3> DEFINE c == Put(To, node)
               o == Top.type
               e == Top.to
               key == KeyField(o)
    <3>1. PICK t \in DOMAIN TextRank : node = <<"string", t>> /\ TextRank[t] = x
      BY <2>1, <2>4, KeyMerged
    <3>2. /\ Type = Objects[o].type[key] /\ buffer[e] = <<"table", o>>
          /\ To = Append(e, key)
      BY <2>1, <2>4, KeyDue
    <3>3. e # To /\ e \in DOMAIN buffer
      BY <2>1, ToIsFree, DueIs DEF Ordered
    <3>4. c[e] = <<"table", o>> /\ To \in DOMAIN c /\ c[To] = node
      BY <3>2, <3>3 DEF Put
    <3>5. c[e][2] = o /\ node[2] = t /\ node # Absent
      <4>1. Absent[1] = "absent"
        BY DEF Absent
      <4> QED BY <2>1, <3>1, <3>4, <4>1, Pairs
    <3> HIDE DEF c, o, e, node
    <3>6. Node(c, Append(e, key)) = node
      BY <3>2, <3>4 DEF Node
    <3> HIDE DEF key
    <3>7. KeyText(c, e) = t
      BY <2>1, <3>2, <3>5, <3>6 DEF KeyText, key
    <3>8. KeyRank(c, e) = x
      BY <2>1, <3>1, <3>2, <3>5, <3>7 DEF KeyRank, key
    <3> QED BY <3>8 DEF c, e, node
  <2>5. Settled(Put(To, node))
    BY <2>4 DEF Settled
  <2>6. Fresh(node)
    BY <2>1 DEF Fresh
  <2> HIDE DEF node
  <2> QED BY <2>1, <2>2, <2>3, <2>5, <2>6, LeafBuilt
<1> QED BY <1>1, <1>2

(* A string of bytes is no key. *)
LEMMA BuildBytesOrdered == Ordered /\ BuildBytes => Ordered'
<1> SUFFICES ASSUME Ordered, BuildBytes PROVE Ordered'
  OBVIOUS
<1>1. \/ \E reason : Refuse(reason)
      \/ \E bytes : Move(Rest, Put(To, <<"bytes", Type.of, bytes>>))
  BY Zenon DEF BuildBytes
<1>2. CASE \E reason : Refuse(reason)
  BY <1>2, RefuseOrdered
<1>3. ASSUME NEW bytes, Move(Rest, Put(To, <<"bytes", Type.of, bytes>>))
      PROVE  Ordered'
  <2> DEFINE node == <<"bytes", Type.of, bytes>>
  <2>1. Building /\ Type.base = "bytes" /\ node[1] = "bytes" /\ Move(Rest, Put(To, node))
    BY <1>3, Zenon DEF BuildBytes
  <2> HIDE DEF node
  <2>2. Known(node) /\ Fits(node, Type)
    BY <2>1 DEF Known, Fits, Tag
  <2>3. Settled(Put(To, node))
    BY <2>1, KeyDue DEF Settled
  <2>4. Fresh(node)
    BY <2>1 DEF Fresh
  <2> QED BY <2>1, <2>2, <2>3, <2>4, LeafBuilt
<1> QED BY <1>1, <1>2, <1>3

(* What the key of a number is, once it is decoded, left out or not.       *)
LEMMA NumberSettled ==
  ASSUME Ordered, Building, IsGiven, Type.base \in {"scalar", "disc"}, ~IsBad(Decode(ScalarKind, Value)),
         NEW c, c = IF Elided(Decode(ScalarKind, Value)) THEN buffer
                    ELSE Put(To, <<"scalar", ScalarKind, Decode(ScalarKind, Value)>>)
  PROVE  Settled(c)
<1> SUFFICES ASSUME Top.op = "table", KeyField(Top.type) # NoKey, first # Empty, Due.key = KeyField(Top.type),
                    NEW x, Merges(Top.over, Top.type, x)
             PROVE  KeyRank(c, Top.to) = x
  BY DEF Settled
<1> DEFINE scalar == Decode(ScalarKind, Value)
           node == <<"scalar", ScalarKind, scalar>>
           o == Top.type
           e == Top.to
           key == KeyField(o)
<1>1. /\ Kinds[Type.of].sort \in {"signed", "unsigned"}
      /\ Value = <<"int", x>> /\ x \in -Wide .. Wide - 1 /\ Value # Type.default
  BY KeyDue, KeyMerged
<1>2. ScalarKind = Kinds[Type.of]
  BY DEF ScalarKind
<1>3. scalar = <<"int", x>>
  BY <1>1, <1>2, DecodedInt
<1>4. /\ Type = Objects[o].type[key] /\ buffer[e] = <<"table", o>>
      /\ To = Append(e, key) /\ Type.base # "string"
  BY KeyDue
<1>5. e # To /\ e \in DOMAIN buffer
  BY ToIsFree, DueIs DEF Ordered
<1>6. c = Put(To, node)
  BY <1>1, <1>3 DEF Elided
<1>7. node[1] = "scalar" /\ node[3] = scalar
  BY Triples
<1> HIDE DEF node
<1>8. c[e] = <<"table", o>> /\ Node(c, To) = node
  BY <1>4, <1>5, <1>6 DEF Put, Node
<1>9. node # Absent
  BY <1>7 DEF Absent
<1>10. c[e][2] = o
  BY <1>8, Pairs
<1> HIDE DEF scalar
<1>11. KeyText(c, e) = Spelled[<<"int", x>>]
  <2> HIDE DEF key, o, e
  <2>1. KeyText(c, e) = Spelled[node[3]]
    BY <1>4, <1>8, <1>9, <1>10, Zenon DEF KeyText, key
  <2> QED BY <1>3, <1>7, <2>1
<1>12. Spelled[<<"int", x>>] \in DOMAIN Number /\ Number[Spelled[<<"int", x>>]] = x
  BY <1>1, SpellingAssumption
<1> HIDE DEF o, e
<1>13. KeyRank(c, e) = x
  BY <1>4, <1>10, <1>11, <1>12, Zenon DEF KeyRank, key
<1> QED BY <1>13 DEF e

(* A number, left out of a table when it is the default. *)
LEMMA BuildScalarOrdered == Ordered /\ BuildScalar => Ordered'
<1> SUFFICES ASSUME Ordered, BuildScalar PROVE Ordered'
  OBVIOUS
<1> DEFINE scalar == Decode(ScalarKind, Value)
           node == <<"scalar", ScalarKind, scalar>>
<1>1. Building /\ IsGiven /\ Type.base \in {"scalar", "disc"}
  BY DEF BuildScalar
<1>2. CASE IsBad(scalar)
  <2>1. Refuse(scalar[2])
    BY <1>2 DEF BuildScalar
  <2> QED BY <2>1, RefuseOrdered
<1>3. CASE ~IsBad(scalar)
  <2>1. Move(Rest, IF Elided(scalar) THEN buffer ELSE Put(To, node))
    BY <1>3 DEF BuildScalar
  <2> DEFINE c == IF Elided(scalar) THEN buffer ELSE Put(To, node)
  <2>2. Settled(c)
    BY <1>1, <1>3, NumberSettled
  <2>3. CASE Elided(scalar)
    <3>1. Move(Rest, buffer) /\ Settled(buffer)
      BY <2>1, <2>2, <2>3
    <3>2. Nested'
      BY <1>1, <3>1, RestMoves DEF Ordered
    <3>3. Sound(buffer) /\ \A i \in DOMAIN Rest : CallFits(doc, first, buffer, Rest[i])
      BY <1>1, DueFits, RestFits
    <3> QED BY <1>1, <3>1, <3>2, <3>3, RestOrdered
  <2>4. CASE ~Elided(scalar)
    <3>1. Move(Rest, Put(To, node)) /\ Settled(Put(To, node))
      BY <2>1, <2>2, <2>4
    <3>2. node[1] = "scalar" /\ node[3] = scalar
      BY Triples
    <3>3. scalar[1] # "absent"
      BY DecodedIs
    <3>4. Type.base = "disc" /\ Top.op = "table" =>
            \A v \in DOMAIN Kinds[Type.of].names : Says(Node(doc, From), v) =>
              node = <<"scalar", Kinds[Type.of], <<"int", Kinds[Type.of].names[v]>>>>
      <4> SUFFICES ASSUME Type.base = "disc", Top.op = "table",
                          NEW v \in DOMAIN Kinds[Type.of].names, Says(Node(doc, From), v)
                   PROVE  node = <<"scalar", Kinds[Type.of], <<"int", Kinds[Type.of].names[v]>>>>
        OBVIOUS
      <4>1. ScalarKind = Kinds[Type.of] /\ Value = Node(doc, From)
        <5>1. Top.op = "table" => Top.type \in DOMAIN Objects /\ Due.key \in DOMAIN Objects[Top.type].type
          BY <1>1, DueTypes
        <5>2. ScalarKind = Kinds[Type.of]
          BY DEF ScalarKind
        <5>3. Value = Node(doc, From)
          BY <1>1, KeyDue, MergedIs
        <5> QED BY <5>2, <5>3
      <4> HIDE DEF scalar
      <4>2. scalar = <<"int", Kinds[Type.of].names[v]>>
        BY <1>3, <4>1, DecodedName DEF scalar
      <4> QED BY <4>1, <4>2
    <3>5. Fresh(node)
      BY <2>4, <3>2 DEF Fresh, Elided
    <3> HIDE DEF node, scalar
    <3>6. Known(node) /\ Fits(node, Type)
      BY <1>1, <3>2, <3>3 DEF Known, Fits, Tag
    <3> QED BY <1>1, <3>1, <3>2, <3>4, <3>5, <3>6, LeafBuilt
  <2> QED BY <2>3, <2>4
<1> QED BY <1>2, <1>3
-----------------------------------------------------------------------------
(* Calls of the call in progress. *)

(* The stack with the new call F. *)
LEMMA NewCall ==
  ASSUME Ordered, Building, Type.base \in {"table", "struct", "vector", "array"}, NEW F, F.to = To
  PROVE  LET t == Append(Rest, F)
             n == Len(frames)
         IN  /\ DOMAIN t = DOMAIN frames \cup {n + 1} /\ n + 1 \notin DOMAIN frames
             /\ \A i \in DOMAIN frames : t[i] = Rest[i]
             /\ t[n + 1] = F
             /\ \A i \in DOMAIN t : t[i].to = To => t[i] = F
             /\ To \notin DOMAIN buffer
<1> DEFINE t == Append(Rest, F)
           n == Len(frames)
<1>1. Path(Rest)
  BY RestNested DEF Ordered, Grown
<1>2. n \in Nat /\ DOMAIN frames = 1 .. n
  BY DueIs DEF Ordered
<1>3. Len(Rest) = n /\ \A i \in DOMAIN frames : Rest[i].to = frames[i].to
  BY RestIs DEF Ordered
<1>4. /\ Len(t) = n + 1 /\ Path(t) /\ \A i \in 1 .. n : t[i] = Rest[i]
      /\ t[n + 1] = F
  BY <1>1, <1>3, PathGrows
<1> HIDE DEF t
<1>5. DOMAIN t = 1 .. (n + 1)
  BY <1>2, <1>4 DEF Path
<1>6. \A i \in DOMAIN frames : frames[i].to # To
  BY ToIsFree
<1>7. To \notin DOMAIN buffer
  BY DiscDue
<1> HIDE DEF n
<1>8. DOMAIN t = DOMAIN frames \cup {n + 1} /\ n + 1 \notin DOMAIN frames
  BY <1>2, <1>5
<1> QED BY <1>2, <1>3, <1>4, <1>6, <1>7, <1>8 DEF t, n

(* What is new in the buffer has nothing in it. *)
LEMMA NewHasNone ==
  ASSUME Ordered, Building, Type.base \in {"table", "struct", "vector", "array"}, NEW node
  PROVE  \A x : Append(To, x) \notin DOMAIN Put(To, node)
<1> SUFFICES ASSUME NEW x, Append(To, x) \in DOMAIN Put(To, node) PROVE FALSE
  OBVIOUS
<1>1. Path(To) /\ To \notin DOMAIN buffer
  BY DueIs, DiscDue DEF Ordered
<1>2. Append(To, x) # To
  <2> DEFINE q == Append(To, x)
  <2>1. Len(q) = Len(To) + 1 /\ Len(To) \in Nat
    BY <1>1, PathGrows
  <2> HIDE DEF q
  <2> QED BY <2>1 DEF q
<1>3. Append(To, x) \in DOMAIN buffer
  BY <1>2 DEF Put
<1>4. Sound(buffer)
  BY DueFits
<1> QED BY <1>1, <1>3, <1>4, SoundPaths

(* The call in progress goes on, under the new one. *)
LEMMA CallAdvances ==
  ASSUME Ordered, Building, Type.base \in {"table", "struct", "vector", "array"}, NEW F, F.to = To,
         NEW node
  PROVE  Advances(Append(Rest, F), Put(To, node), Due.slot)
<1> DEFINE t == Append(Rest, F)
           c == Put(To, node)
           n == Len(frames)
           y == Due.slot
<1>1. Settled(c)
  BY KeyDue DEF Settled
<1>2. \E m : c = Put(To, m)
  OBVIOUS
<1> HIDE DEF c
<1>3. Advances(Rest, c, Due.slot)
  BY <1>1, <1>2, RestAdvances
<1>4. /\ DOMAIN t = DOMAIN frames \cup {n + 1} /\ n + 1 \notin DOMAIN frames
      /\ \A i \in DOMAIN frames : t[i] = Rest[i]
      /\ t[n + 1] = F /\ To \notin DOMAIN buffer
  BY NewCall
<1>5. n \in DOMAIN frames /\ DOMAIN Rest = DOMAIN frames
  BY DueIs, RestIs DEF Ordered
<1> HIDE DEF t, n
<1>6. \A i \in DOMAIN t : t[i].to \in DOMAIN buffer => i \in DOMAIN frames
  BY <1>4
<1>7. \A i \in DOMAIN frames : i \in DOMAIN t /\ t[i] = Rest[i]
  BY <1>4
<1> HIDE DEF y
<1>8. Advances(t, c, Due.slot)
  BY <1>3, <1>5, <1>6, <1>7 DEF Advances, n
<1> QED BY <1>8 DEF t, c

(* A call is made for a node of its type, and it reads what has been       *)
(* printed of such a node.                                                 *)
LEMMA CallOrdered ==
  ASSUME Ordered, Building, Type.base \in {"table", "struct", "vector", "array"},
         NEW node, Known(node), Fits(node, Type), NEW F, F.to = To,
         Move(Append(Rest, F), Put(To, node)), Nested',
         CallFits(doc, first, Put(To, node), F),
         first # Empty => Reads(first, Put(To, node), F),
         \A p \in Lists(Put(To, node)) : p \notin Lists(buffer) \/ p = Top.to =>
           Listed(first, Append(Rest, F), Put(To, node), p)
  PROVE  Ordered'
<1> DEFINE t == Append(Rest, F)
           c == Put(To, node)
           n == Len(frames)
           y == Due.slot
<1>1. Advances(t, c, y)
  BY CallAdvances
<1>2. Sound(c) /\ \A i \in DOMAIN Rest : CallFits(doc, first, c, Rest[i])
  BY PutFits
<1>3. /\ DOMAIN t = DOMAIN frames \cup {n + 1} /\ n + 1 \notin DOMAIN frames
      /\ \A i \in DOMAIN frames : t[i] = Rest[i]
      /\ t[n + 1] = F
  BY NewCall
<1>4. /\ DOMAIN Rest = DOMAIN frames /\ Top = frames[n]
      /\ \A i \in DOMAIN frames : i # n => Rest[i] = frames[i]
      /\ Rest[n].op = Top.op /\ Rest[n].from = Top.from /\ Rest[n].to = Top.to
  BY RestIs, DueIs DEF Ordered
<1>5. /\ CallFits(doc, first, c, F)
      /\ first # Empty => Reads(first, c, F)
      /\ Move(t, c)
      /\ \A p \in Lists(c) : p \notin Lists(buffer) \/ p = Top.to => Listed(first, t, c, p)
  OBVIOUS
<1>6. first = Empty => \A r \in DOMAIN c : r \notin DOMAIN buffer \/ r = Append(Top.to, y) =>
        (c[r][1] = "string" => c[r][2] \in DOMAIN TextRank)
  <2>1. Append(Top.to, y) = To
    BY DueIs DEF Ordered
  <2>2. node[1] # "string"
    BY DEF Fits, Tag
  <2> QED BY <2>1, <2>2 DEF Put
<1>7. Stored(c, y)
  <2>1. Append(Top.to, y) = To
    BY DueIs DEF Ordered
  <2>2. node[1] # "scalar"
    BY DEF Fits, Tag
  <2>3. c[To] = node
    BY DEF Put
  <2> HIDE DEF c, y
  <2> QED BY <2>1, <2>2, <2>3 DEF Stored
<1> HIDE DEF t, c, y, n
<1>8. ASSUME NEW i \in DOMAIN t
      PROVE  /\ CallFits(doc, first, c, t[i])
             /\ \/ /\ i \in DOMAIN frames /\ t[i].op = frames[i].op
                   /\ t[i].from = frames[i].from /\ t[i].to = frames[i].to
                \/ first # Empty => Reads(first, c, t[i])
  <2>1. CASE i = n + 1
    <3>1. t[i] = F
      BY <1>3, <2>1
    <3> QED BY <1>5, <3>1
  <2>2. CASE i \in DOMAIN frames
    <3>1. t[i] = Rest[i] /\ i \in DOMAIN Rest
      BY <1>3, <1>4, <2>2
    <3>2. t[i].op = frames[i].op /\ t[i].from = frames[i].from /\ t[i].to = frames[i].to
      BY <1>4, <2>2, <3>1
    <3> QED BY <1>2, <2>2, <3>1, <3>2
  <2> QED BY <1>3, <2>1, <2>2
<1>9. /\ \A i \in DOMAIN t : CallFits(doc, first, c, t[i])
      /\ \A i \in DOMAIN t :
           \/ /\ i \in DOMAIN frames /\ t[i].op = frames[i].op
              /\ t[i].from = frames[i].from /\ t[i].to = frames[i].to
           \/ first # Empty => Reads(first, c, t[i])
  BY <1>8
<1> QED BY <1>1, <1>2, <1>5, <1>6, <1>9, <1>7, StepOrdered

(* A new call for a table or a struct has all of its fields to build.      *)
LEMMA FieldsCall ==
  ASSUME NEW d, NEW was, NEW c, NEW o \in DOMAIN Objects, NEW F, F.op \in {"table", "struct", "variant"},
         F.type = o, F.todo = FieldItems(o), Path(F.from), F.to \in DOMAIN c,
         c[F.to] = <<IF F.op = "table" THEN "table" ELSE "struct", o>>,
         \A x : Append(F.to, x) \notin DOMAIN c,
         F.op = "table" => OverFits(was, F.over, o), F.op # "table" => F.over = <<>>
  PROVE  CallFits(d, was, c, F)
<1> DEFINE order == Objects[o].order
           items == FieldItems(o)
<1>1. /\ order \in Seq(DOMAIN Objects[o].type)
      /\ DOMAIN items = 1 .. Len(order)
      /\ \A k \in 1 .. Len(order) :
           /\ items[k].slot = order[k] /\ items[k].key = order[k]
           /\ items[k].type = Objects[o].type[order[k]] /\ items[k].over = <<>>
  BY SchemaAssumption DEF FieldItems, Item
<1>2. F.todo = items /\ F.op \notin {"vector", "array"} /\ F.op \in Ops
  BY DEF Ops
<1> HIDE DEF items, order
<1>3. \A k \in 1 .. Len(order) : order[k] \in DOMAIN Objects[o].type
  BY <1>1
<1>4. \A k \in DOMAIN F.todo : ItemFits(d, was, c, F, F.todo[k])
  BY <1>1, <1>2, <1>3 DEF ItemFits
<1> QED BY <1>2, <1>4 DEF CallFits

(* A new call for a vector or an array. *)
LEMMA ElementsCall ==
  ASSUME NEW d, NEW was, NEW c, NEW F, F.op \in {"vector", "array"}, NEW t, F.over = <<>>,
         Path(F.from), F.to \in DOMAIN c, c[F.to] = <<F.op, t>>,
         \A x : Append(F.to, x) \notin DOMAIN c,
         \A k \in DOMAIN F.todo :
           /\ F.todo[k].type = [base |-> t.elem, of |-> t.of] /\ F.todo[k].need = "value"
           /\ OverFits(was, F.todo[k].over, t.of)
  PROVE  CallFits(d, was, c, F)
<1>1. c[F.to][1] = F.op /\ c[F.to][2] = t
  BY Pairs
<1>2. F.op \notin {"table", "struct", "variant"} /\ F.op \in Ops
  BY DEF Ops
<1>3. ElementType(c[F.to]) = [base |-> t.elem, of |-> t.of]
  BY <1>1 DEF ElementType
<1>4. \A k \in DOMAIN F.todo : ItemFits(d, was, c, F, F.todo[k])
  BY <1>1, <1>3 DEF ItemFits
<1> QED BY <1>1, <1>2, <1>4 DEF CallFits

(* It reads what has been printed of a node of the type that it builds.    *)
LEMMA NewReads ==
  ASSUME Ordered, Building, Value[1] \in {"object", "array"},
         NEW node, Fits(node, Type), NEW F, F.from = From, F.to = To,
         F.op = "table" => Type.base = "table", F.op = "vector" => Type.base = "vector"
  PROVE  first # Empty => Reads(first, Put(To, node), F)
<1> SUFFICES ASSUME first # Empty, F.op \in {"table", "vector"}
             PROVE  \E q \in Seen(first) : Printed(first, q) = F.from /\ first[q] = Put(To, node)[F.to]
  BY DEF Reads
<1>1. PICK q \in Seen(first) : Printed(first, q) = From /\ Fits(first[q], Type)
  BY ObjectGiven, ChildRead
<1>2. first[q] = node
  BY <1>1 DEF Fits
<1>3. Put(To, node)[F.to] = node
  BY DEF Put
<1> QED BY <1>1, <1>2, <1>3

(* A table becomes an element of a vector, at the next position and, of a  *)
(* keyed object, with the next key.                                        *)
LEMMA TableListed ==
  ASSUME Ordered, Building, Type.base = "table", Top.to \in Lists(buffer),
         NEW F, F.to = To, F.over = Due.over, F.todo = FieldItems(Type.of)
  PROVE  Listed(first, Append(Rest, F), Put(To, <<"table", Type.of>>), Top.to)
<1> DEFINE p == Top.to
           o == buffer[p][2].of
           l == Len(frames)
           L == Len(Top.todo)
           t == Append(Rest, F)
           node == <<"table", Type.of>>
           c == Put(To, node)
<1>1. Top.op = "vector"
  <2>1. buffer[p][1] = "vector"
    BY DEF Lists
  <2>2. CallFits(doc, first, buffer, Top)
    BY DueFits
  <2> HIDE DEF p
  <2>3. Top.op = "table" => buffer[p][1] = "table"
    BY <2>2, OpIs DEF p
  <2>4. Top.op \in {"struct", "variant"} => buffer[p][1] = "struct"
    BY <2>2, OpIs DEF p
  <2>5. Top.op = "array" => buffer[p][1] = "array"
    BY <2>2, OpIs DEF p
  <2> QED BY <2>1, <2>2, <2>3, <2>4, <2>5, OpIs DEF Ops
<1>2. Type.of = o /\ To \notin DOMAIN buffer
  BY <1>1, DueTypes
<1>3. /\ l \in Nat /\ l \in DOMAIN frames /\ Top = frames[l] /\ Path(p) /\ To = Append(p, Due.slot)
      /\ L \in Nat /\ L # 0 /\ DOMAIN Top.todo = 1 .. L /\ Due = Top.todo[1]
  BY DueIs DEF Ordered
<1>4. p \in DOMAIN buffer /\ p # To
  BY <1>3, ToIsFree DEF Lists
<1>5. PICK m, n \in 0 .. Len(Position) : \E r :
        /\ m <= n /\ Row(buffer, p, m)
        /\ \A i \in DOMAIN frames : frames[i].to = p =>
             m + Len(frames[i].todo) <= n /\ \A k \in DOMAIN frames[i].todo : frames[i].todo[k].slot = Position[m + k]
        /\ first # Empty /\ KeyField(o) # NoKey => InOrder(frames, buffer, p, m, n, r)
  BY DEF Ordered, Shaped, Listed
<1>6. PICK r :
        /\ m <= n /\ Row(buffer, p, m)
        /\ \A i \in DOMAIN frames : frames[i].to = p =>
             m + Len(frames[i].todo) <= n /\ \A k \in DOMAIN frames[i].todo : frames[i].todo[k].slot = Position[m + k]
        /\ first # Empty /\ KeyField(o) # NoKey => InOrder(frames, buffer, p, m, n, r)
  BY <1>5
<1>7. /\ m + L <= n /\ \A k \in DOMAIN Top.todo : Top.todo[k].slot = Position[m + k]
      /\ Due.slot = Position[m + 1]
  BY <1>3, <1>6
<1>8. Len(Position) \in Nat
  BY PositionAssumption
<1>9. m + 1 \in 0 .. Len(Position) /\ m + 1 <= n
  BY <1>3, <1>7, <1>8
<1>10. /\ DOMAIN t = DOMAIN frames \cup {l + 1} /\ l + 1 \notin DOMAIN frames
       /\ \A i \in DOMAIN frames : t[i] = Rest[i]
       /\ t[l + 1] = F
       /\ \A i \in DOMAIN t : t[i].to = To => t[i] = F
  BY NewCall
<1>11. /\ \A i \in DOMAIN frames : Rest[i].to = frames[i].to
       /\ Rest[l].to = p /\ Len(Rest[l].todo) = L - 1
       /\ DOMAIN Rest[l].todo = 1 .. (L - 1)
       /\ \A k \in DOMAIN Rest[l].todo :
            k + 1 \in DOMAIN Top.todo /\ k + 1 # 1 /\ Rest[l].todo[k] = Top.todo[k + 1]
  BY RestIs DEF Ordered
<1>12. \A i \in DOMAIN frames : frames[i].to = p => i = l
  BY ToIsFree
<1>13. Sound(c) /\ c[p] = buffer[p] /\ c[To] = node /\ DOMAIN c = DOMAIN buffer \cup {To}
  <2>1. Known(node) /\ Fits(node, Type)
    <3>1. Type.of \in DOMAIN Objects /\ ~Objects[Type.of].struct /\ Objects[Type.of].struct \in BOOLEAN
      <4>1. WellTyped(Type)
        BY DueFits
      <4> QED BY <4>1, SchemaAssumption DEF WellTyped, Refers
    <3>2. node[1] = "table" /\ node[2] = Type.of /\ node = <<Type.base, Type.of>>
      OBVIOUS
    <3> HIDE DEF node
    <3> QED BY <3>1, <3>2 DEF Known, Fits, Tag
  <2>2. Sound(c)
    BY <2>1, PutFits
  <2>3. c[p] = buffer[p] /\ c[To] = node /\ DOMAIN c = DOMAIN buffer \cup {To}
    BY <1>4 DEF Put
  <2> QED BY <2>2, <2>3
<1>14. Advances(t, c, Due.slot)
  BY CallAdvances
<1>15. \A i \in DOMAIN t : t[i].to = p => i = l /\ t[i] = Rest[l]
  <2> SUFFICES ASSUME NEW i \in DOMAIN t, t[i].to = p
               PROVE  i = l /\ t[i] = Rest[l]
    OBVIOUS
  <2>1. i # l + 1
    BY <1>4, <1>10
  <2> HIDE DEF t, p, l
  <2> QED BY <1>10, <1>11, <1>12, <2>1
<1> HIDE DEF t, c, node, p, o, l, L
<1>16. Row(c, p, m + 1)
  <2>1. \A x : x \in KeysAt(c, p) <=> (x \in KeysAt(buffer, p) \/ x = Position[m + 1])
    <3> SUFFICES ASSUME NEW x
                 PROVE  x \in KeysAt(c, p) <=> (x \in KeysAt(buffer, p) \/ x = Position[m + 1])
      OBVIOUS
    <3>1. x \in KeysAt(c, p) <=> Append(p, x) \in DOMAIN c
      BY <1>3, <1>13, SoundPaths
    <3>2. x \in KeysAt(buffer, p) <=> Append(p, x) \in DOMAIN buffer
      <4>1. Sound(buffer)
        BY DueFits
      <4> QED BY <1>3, <4>1, SoundPaths
    <3>3. Append(p, x) = To <=> x = Position[m + 1]
      BY <1>3, <1>7, StepsEqual
    <3> QED BY <1>13, <3>1, <3>2, <3>3
  <2>2. KeysAt(buffer, p) = {Position[i] : i \in 1 .. m}
    BY <1>6 DEF Row
  <2>3. \A i : i \in 1 .. (m + 1) <=> (i \in 1 .. m \/ i = m + 1)
    BY <1>8
  <2>4. \A x : x \in KeysAt(c, p) <=> x \in {Position[i] : i \in 1 .. (m + 1)}
    BY <2>1, <2>2, <2>3
  <2> DEFINE A == KeysAt(c, p)
             B == {Position[i] : i \in 1 .. (m + 1)}
  <2>5. \A x : x \in A <=> x \in B
    BY <2>4
  <2>6. A = B
    <3> HIDE DEF A, B
    <3> QED BY <2>5
  <2> QED BY <1>9, <2>6 DEF Row
<1>17. \A i \in DOMAIN t : t[i].to = p =>
         (m + 1) + Len(t[i].todo) <= n /\ \A k \in DOMAIN t[i].todo : t[i].todo[k].slot = Position[(m + 1) + k]
  <2> SUFFICES ASSUME NEW i \in DOMAIN t, t[i].to = p
               PROVE  /\ (m + 1) + Len(Rest[l].todo) <= n
                      /\ \A k \in DOMAIN Rest[l].todo : Rest[l].todo[k].slot = Position[(m + 1) + k]
    BY <1>15
  <2>1. (m + 1) + (L - 1) <= n
    BY <1>3, <1>7
  <2>2. ASSUME NEW k \in DOMAIN Rest[l].todo
        PROVE  Rest[l].todo[k].slot = Position[(m + 1) + k]
    <3>1. k \in 1 .. (L - 1)
      BY <1>11
    <3>2. m + (k + 1) = (m + 1) + k
      BY <1>3, <3>1
    <3> QED BY <1>7, <1>11, <3>2
  <2> QED BY <1>11, <2>1, <2>2
<1>18. c[p][2].of = o
  BY <1>13 DEF o
<1>19. ASSUME first # Empty, KeyField(o) # NoKey
       PROVE  InOrder(t, c, p, m + 1, n, r)
  <2>1. InOrder(frames, buffer, p, m, n, r)
    BY <1>6, <1>19
  <2>2. /\ \A i \in 1 .. n : r[i] \in Int
        /\ \A i, j \in 1 .. n : i < j => r[i] < r[j]
        /\ \A i \in 1 .. m : HasKey(frames, buffer, Append(p, Position[i]), o, r[i])
        /\ \A i \in DOMAIN frames : frames[i].to = p =>
             \A k \in DOMAIN frames[i].todo : Merges(frames[i].todo[k].over, o, r[m + k])
    BY <2>1 DEF InOrder, o
  <2>3. \A k \in DOMAIN Top.todo : Merges(Top.todo[k].over, o, r[m + k])
    <3>1. frames[l].to = p
      BY <1>3 DEF p
    <3> QED BY <1>3, <2>2, <3>1
  <2>4. ASSUME NEW i \in 1 .. m
        PROVE  HasKey(t, c, Append(p, Position[i]), o, r[i])
    <3> DEFINE e == Append(p, Position[i])
    <3>1. e \in DOMAIN buffer
      <4>1. Position[i] \in KeysAt(buffer, p)
        BY <1>6 DEF Row
      <4>2. Sound(buffer)
        BY DueFits
      <4> QED BY <1>3, <4>1, <4>2, SoundPaths
    <3>2. HasKey(frames, buffer, e, o, r[i])
      BY <2>2
    <3> HIDE DEF e
    <3>3. HasKey(t, c, e, o, r[i])
      BY <1>14, <1>19, <3>1, <3>2, KeysAdvance
    <3> QED BY <3>3 DEF e
  <2>5. HasKey(t, c, Append(p, Position[m + 1]), o, r[m + 1])
    <3>1. Append(p, Position[m + 1]) = To
      BY <1>3, <1>7
    <3>2. Merges(F.over, o, r[m + 1])
      BY <1>3, <2>3
    <3>3. c[To] = <<"table", o>>
      BY <1>2, <1>13 DEF node
    <3>4. \E k \in DOMAIN F.todo : F.todo[k].key = KeyField(o)
      <4>1. o \in DOMAIN Objects
        <5>1. WellTyped(Type)
          BY DueFits
        <5> QED BY <1>2, <5>1 DEF WellTyped, Refers
      <4>2. PICK k \in DOMAIN Objects[o].order : Objects[o].order[k] = KeyField(o)
        BY <1>19, <4>1, KeyTypes
      <4>3. Objects[o].order \in Seq(DOMAIN Objects[o].type)
        BY <4>1, SchemaAssumption
      <4>4. k \in 1 .. Len(Objects[o].order)
        BY <4>2, <4>3
      <4>5. k \in DOMAIN FieldItems(o) /\ FieldItems(o)[k].key = KeyField(o)
        BY <4>2, <4>4 DEF FieldItems, Item
      <4> QED BY <1>2, <4>5
    <3>5. l + 1 \in DOMAIN t /\ t[l + 1] = F
      BY <1>10
    <3>6. HasKey(t, c, To, o, r[m + 1])
      BY <1>10, <3>2, <3>3, <3>4, <3>5 DEF HasKey
    <3> QED BY <3>1, <3>6
  <2>6. \A i \in 1 .. (m + 1) : i \in 1 .. m \/ i = m + 1
    BY <1>8
  <2>7. \A i \in 1 .. (m + 1) : HasKey(t, c, Append(p, Position[i]), o, r[i])
    BY <2>4, <2>5, <2>6
  <2>8. ASSUME NEW i \in DOMAIN t, t[i].to = p, NEW k \in DOMAIN t[i].todo
        PROVE  Merges(t[i].todo[k].over, o, r[(m + 1) + k])
    <3>1. t[i] = Rest[l]
      BY <1>15, <2>8
    <3>2. k \in 1 .. (L - 1) /\ k + 1 \in DOMAIN Top.todo /\ Rest[l].todo[k] = Top.todo[k + 1]
      BY <1>11, <2>8, <3>1
    <3>3. m + (k + 1) = (m + 1) + k
      BY <1>3, <3>2
    <3> QED BY <2>3, <3>1, <3>2, <3>3
  <2> QED BY <1>18, <2>2, <2>7, <2>8 DEF InOrder
<1>20. Listed(first, t, c, p)
  BY <1>9, <1>16, <1>17, <1>18, <1>19 DEF Listed
<1> QED BY <1>20 DEF t, c, p, node

(* Only a vector of tables is a list. *)
LEMMA ListsTables ==
  ASSUME Ordered, Building, Top.to \in Lists(buffer)
  PROVE  Type.base = "table"
<1>1. Top.op \in Ops
  BY DueTypes
<1>2. Top.op \in {"vector", "array"} =>
        buffer[Top.to][1] = Top.op /\ Type.base = buffer[Top.to][2].elem
  BY DueTypes
<1>3. /\ Top.op = "table" => buffer[Top.to] = <<"table", Top.type>>
      /\ Top.op \in {"struct", "variant"} => buffer[Top.to] = <<"struct", Top.type>>
  BY DueTypes
<1>4. Top.op \in {"table", "struct", "variant"} => buffer[Top.to][1] # "vector"
  BY <1>3, Pairs
<1> QED BY <1>1, <1>2, <1>4 DEF Lists, Ops

(* A node of the type due is of the schema. *)
LEMMA NodeFits ==
  ASSUME Ordered, Building
  PROVE  /\ Type.base \in {"table", "struct"} =>
              /\ Known(<<Type.base, Type.of>>) /\ Fits(<<Type.base, Type.of>>, Type)
              /\ Type.of \in DOMAIN Objects
         /\ Type.base \in {"vector", "array"} =>
              Known(<<Type.base, Type>>) /\ Fits(<<Type.base, Type>>, Type)
<1>1. WellTyped(Type)
  BY DueFits
<1>2. ASSUME Type.base \in {"table", "struct"}
      PROVE  /\ Known(<<Type.base, Type.of>>) /\ Fits(<<Type.base, Type.of>>, Type)
             /\ Type.of \in DOMAIN Objects
  <2> DEFINE node == <<Type.base, Type.of>>
  <2>1. Type.of \in DOMAIN Objects /\ Objects[Type.of].struct = (Type.base = "struct")
    BY <1>1, <1>2 DEF WellTyped, Refers
  <2>2. node[1] = Type.base /\ node[2] = Type.of /\ node = <<Type.base, Type.of>>
    OBVIOUS
  <2> HIDE DEF node
  <2>3. Known(node) /\ Fits(node, Type)
    BY <1>2, <2>1, <2>2 DEF Known, Fits, Tag
  <2> QED BY <2>1, <2>3 DEF node
<1>3. ASSUME Type.base \in {"vector", "array"}
      PROVE  Known(<<Type.base, Type>>) /\ Fits(<<Type.base, Type>>, Type)
  <2> DEFINE node == <<Type.base, Type>>
  <2>1. node[1] = Type.base /\ node[2] = Type /\ node = <<Type.base, Type>>
    OBVIOUS
  <2> HIDE DEF node
  <2>2. Known(node) /\ Fits(node, Type)
    BY <1>1, <1>3, <2>1 DEF Known, Fits, Tag
  <2> QED BY <2>2 DEF node
<1> QED BY <1>2, <1>3

(* A table is begun. *)
LEMMA BuildTableOrdered == Ordered /\ BuildTable => Ordered'
<1> SUFFICES ASSUME Ordered, BuildTable PROVE Ordered'
  OBVIOUS
<1>1. CASE \E reason : Refuse(reason)
  BY <1>1, RefuseOrdered
<1>2. CASE ~\E reason : Refuse(reason)
  <2> DEFINE F == Frame("table", From, To, Type.of, Top.depth + 1, Due.over, FieldItems(Type.of))
             node == <<"table", Type.of>>
             c == Put(To, node)
  <2>1. Building /\ Type.base = "table" /\ Value[1] = "object" /\ Move(Append(Rest, F), c)
    BY <1>2, Zenon DEF BuildTable, EnterTable
  <2>2. Known(node) /\ Fits(node, Type) /\ Type.of \in DOMAIN Objects
    BY <2>1, NodeFits
  <2>3. Nested'
    BY BuildTableNested DEF Ordered
  <2>4. /\ F.op = "table" /\ F.from = From /\ F.to = To /\ F.type = Type.of
        /\ F.over = Due.over /\ F.todo = FieldItems(Type.of)
    BY DEF Frame
  <2>5. Path(From) /\ To \in DOMAIN c /\ c[To] = <<"table", Type.of>>
    <3>1. Path(From)
      BY <2>1, DueFits
    <3> QED BY <3>1 DEF Put
  <2>6. \A x : Append(To, x) \notin DOMAIN c
    BY <2>1, NewHasNone
  <2>7. OverFits(first, Due.over, Type.of)
    BY <2>1, DueTypes DEF OverFits
  <2>8. \A p \in Lists(c) : p \in Lists(buffer)
    <3>1. node[1] # "vector"
      OBVIOUS
    <3> HIDE DEF node
    <3> QED BY <3>1 DEF Put, Lists
  <2>9. Top.to \in Lists(buffer) => Listed(first, Append(Rest, F), c, Top.to)
    <3> HIDE DEF F
    <3> QED BY <2>1, <2>4, TableListed
  <2> HIDE DEF F
  <2>10. first # Empty => Reads(first, c, F)
    <3> HIDE DEF node
    <3> QED BY <2>1, <2>2, <2>4, NewReads
  <2>11. CallFits(doc, first, c, F)
    <3> HIDE DEF c
    <3> QED BY <2>2, <2>4, <2>5, <2>6, <2>7, FieldsCall
  <2> HIDE DEF node
  <2> QED BY <2>1, <2>2, <2>3, <2>4, <2>8, <2>9, <2>10, <2>11, CallOrdered
<1> QED BY <1>1, <1>2

(* A struct is begun. *)
LEMMA BuildStructOrdered == Ordered /\ BuildStruct => Ordered'
<1> SUFFICES ASSUME Ordered, BuildStruct PROVE Ordered'
  OBVIOUS
<1>1. CASE \E reason : Refuse(reason)
  BY <1>1, RefuseOrdered
<1>2. CASE ~\E reason : Refuse(reason)
  <2> DEFINE node == <<"struct", Type.of>>
             c == Put(To, node)
  <2>1. /\ Building /\ Type.base = "struct" /\ Value[1] = "object"
        /\ \E op \in {"struct", "variant"} :
             Move(Append(Rest, Frame(op, From, To, Type.of, Top.depth, <<>>, FieldItems(Type.of))), c)
    BY <1>2, Zenon DEF BuildStruct, EnterStruct
  <2>2. PICK op \in {"struct", "variant"} :
          Move(Append(Rest, Frame(op, From, To, Type.of, Top.depth, <<>>, FieldItems(Type.of))), c)
    BY <2>1
  <2> DEFINE F == Frame(op, From, To, Type.of, Top.depth, <<>>, FieldItems(Type.of))
  <2>3. Known(node) /\ Fits(node, Type) /\ Type.of \in DOMAIN Objects
    BY <2>1, NodeFits
  <2>4. Nested'
    BY BuildStructNested DEF Ordered
  <2>5. /\ F.op \in {"struct", "variant"} /\ F.from = From /\ F.to = To /\ F.type = Type.of
        /\ F.over = <<>> /\ F.todo = FieldItems(Type.of)
    BY DEF Frame
  <2>6. Path(From) /\ To \in DOMAIN c /\ c[To] = <<"struct", Type.of>>
    <3>1. Path(From)
      BY <2>1, DueFits
    <3> QED BY <3>1 DEF Put
  <2>7. \A x : Append(To, x) \notin DOMAIN c
    BY <2>1, NewHasNone
  <2>8. \A p \in Lists(c) : p \in Lists(buffer)
    <3>1. node[1] # "vector"
      OBVIOUS
    <3> HIDE DEF node
    <3> QED BY <3>1 DEF Put, Lists
  <2>9. Top.to \notin Lists(buffer)
    BY <2>1, ListsTables
  <2> HIDE DEF F
  <2>10. first # Empty => Reads(first, c, F)
    <3>1. F.op \notin {"table", "vector"}
      BY <2>5
    <3> QED BY <3>1 DEF Reads
  <2>11. CallFits(doc, first, c, F)
    <3> HIDE DEF c
    <3> QED BY <2>3, <2>5, <2>6, <2>7, FieldsCall
  <2>12. Move(Append(Rest, F), c)
    BY <2>2 DEF F
  <2> HIDE DEF node
  <2> QED BY <2>1, <2>3, <2>4, <2>5, <2>8, <2>9, <2>10, <2>11, <2>12, CallOrdered
<1> QED BY <1>1, <1>2

-----------------------------------------------------------------------------
(* Vectors and arrays. *)

(* The keys of a document given are texts. *)
LEMMA GivenKeys ==
  ASSUME Ordered, Building, first = Empty
  PROVE  IsFiniteSet(KeysAt(doc, From)) /\ KeysAt(doc, From) \subseteq DOMAIN TextRank
<1> DEFINE R == {r \in DOMAIN doc : Len(r) = Len(From) + 1 /\ IsPrefix(From, r)}
           K == KeysAt(doc, From)
           g == [r \in R |-> r[Len(r)]]
<1>1. IsFiniteSet(DOMAIN doc) /\ \A r \in DOMAIN doc : r \in Seq(DOMAIN TextRank)
  BY DocsAssumption DEF Ordered
<1>2. R \subseteq DOMAIN doc
  OBVIOUS
<1>3. g \in [R -> K] /\ \A k \in K : \E r \in R : g[r] = k
  BY DEF KeysAt
<1>4. Len(From) \in Nat
  BY DueFits, PathGrows
<1>5. ASSUME NEW k \in K
      PROVE  k \in DOMAIN TextRank
  <2>1. PICK r \in R : k = r[Len(r)]
    BY DEF KeysAt
  <2>2. r \in Seq(DOMAIN TextRank) /\ Len(r) = Len(From) + 1
    BY <1>1, <2>1
  <2>3. Len(r) \in 1 .. Len(r)
    BY <1>4, <2>2
  <2> QED BY <2>1, <2>2, <2>3
<1> HIDE DEF R, K, g
<1>6. IsFiniteSet(R)
  BY <1>1, <1>2, FS_Subset
<1>7. g \in Surjection(R, K)
  BY <1>3 DEF Surjection
<1>8. IsFiniteSet(K)
  BY <1>6, <1>7, FS_Surjection
<1> QED BY <1>5, <1>8 DEF K

(* The entries of an object are in the order of their keys. *)
LEMMA EntriesRanked ==
  ASSUME Ordered, Building, first # Empty, Type.base = "vector", InKeyedForm, BadEntries = {}
  PROVE  \E r :
           LET n == Cardinality(KeysAt(doc, From))
           IN  /\ \A i \in 1 .. n : r[i] \in Int
               /\ \A i, j \in 1 .. n : i < j => r[i] < r[j]
               /\ \A i \in 1 .. n : Merges(EntryItems[i].over, Type.of, r[i])
<1> DEFINE K == KeysAt(doc, From)
           n == Cardinality(K)
           o == Type.of
           r == [i \in 1 .. n |-> EntryRanks(K)[SortedKeys[i]]]
<1>1. /\ IsFiniteSet(K)
      /\ K \subseteq IF KeySort = "string" THEN DOMAIN TextRank ELSE DOMAIN Number
      /\ KeySort # "string" => \A k, l \in K : Number[k] = Number[l] => k = l
      /\ KeySort # "string" => \A k \in K :
           KeySort \in {"signed", "unsigned"} /\ <<"int", Number[k]>> # KeyType.default
  BY EntriesRead
<1>2. /\ DOMAIN SortedKeys = 1 .. n
      /\ \A i \in DOMAIN SortedKeys : SortedKeys[i] \in K
      /\ \A i, j \in DOMAIN SortedKeys :
           i < j => EntryRanks(K)[SortedKeys[i]] < EntryRanks(K)[SortedKeys[j]]
  BY <1>1, SortedStrictly
<1>3. \A k \in K : EntryRanks(K)[k] = IF KeySort = "string" THEN TextRank[k] ELSE Number[k]
  BY DEF EntryRanks
<1>4. /\ WellTyped(Type) /\ Type.elem = "table" /\ KeyField(o) # NoKey
  BY DueFits DEF InKeyedForm
<1>5. /\ o \in DOMAIN Objects /\ KeyType = Objects[o].type[KeyField(o)]
      /\ KeyType.base \in {"string", "scalar"}
      /\ (KeySort = "string") <=> (KeyType.base = "string")
      /\ KeyType.base = "scalar" => KeySort = Kinds[KeyType.of].sort
  BY <1>4, KeySorts
<1> HIDE DEF K
<1>6. \A i \in 1 .. n : r[i] = EntryRanks(K)[SortedKeys[i]] /\ SortedKeys[i] \in K
  BY <1>2
<1>7. \A i \in 1 .. n : /\ EntryItems[i].over = <<KeyField(o), KeyJson(SortedKeys[i])>>
  BY <1>2 DEF EntryItems, Item
<1> HIDE DEF n, r, o
<1>8. ASSUME NEW i \in 1 .. n
      PROVE  r[i] \in Int /\ Merges(EntryItems[i].over, Type.of, r[i])
  <2> DEFINE k == SortedKeys[i]
             over == EntryItems[i].over
  <2>1. k \in K /\ r[i] = IF KeySort = "string" THEN TextRank[k] ELSE Number[k]
    BY <1>3, <1>6
  <2>2. over = <<KeyField(o), KeyJson(k)>>
    BY <1>7
  <2>3. over # <<>> /\ over[1] = KeyField(o) /\ over[2] = KeyJson(k)
    BY <2>2
  <2> HIDE DEF k, over
  <2>4. CASE KeySort = "string"
    <3>1. k \in DOMAIN TextRank /\ r[i] = TextRank[k] /\ KeyJson(k) = <<"string", k>>
      BY <1>1, <2>1, <2>4 DEF KeyJson
    <3>2. r[i] \in Int
      BY <3>1, TextsRanked
    <3>3. Merges(over, o, r[i])
      BY <1>5, <2>3, <2>4, <3>1 DEF Merges
    <3> QED BY <3>2, <3>3 DEF o, over
  <2>5. CASE KeySort # "string"
    <3>1. k \in DOMAIN Number /\ r[i] = Number[k] /\ KeyJson(k) = <<"int", Number[k]>>
      BY <1>1, <2>1, <2>5 DEF KeyJson
    <3>2. Number[k] \in -Wide .. Wide - 1 /\ Number[k] \in Int
      BY <3>1, TextAssumption, TextsRanked, Zenon
    <3>3. KeySort \in {"signed", "unsigned"} /\ <<"int", Number[k]>> # KeyType.default
      BY <1>1, <2>1, <2>5
    <3>4. Merges(over, o, r[i])
      BY <1>5, <2>3, <2>5, <3>1, <3>2, <3>3 DEF Merges
    <3> QED BY <3>1, <3>2, <3>4 DEF o, over
  <2> QED BY <2>4, <2>5
<1>9. \A i, j \in 1 .. n : i < j => r[i] < r[j]
  BY <1>2, <1>6
<1> QED BY <1>8, <1>9 DEF n, K

(* The key of an entry may be merged into an element. *)
LEMMA EntriesFit ==
  ASSUME Ordered, Building, Type.base = "vector", InKeyedForm, BadEntries = {},
         NEW i \in 1 .. Cardinality(KeysAt(doc, From))
  PROVE  OverFits(first, EntryItems[i].over, Type.of)
<1> DEFINE over == EntryItems[i].over
           k == SortedKeys[i]
           o == Type.of
           K == KeysAt(doc, From)
<1>1. DOMAIN SortedKeys = 1 .. Cardinality(K)
  BY DEF SortedKeys
<1>2. over = <<KeyField(o), KeyJson(k)>>
  BY <1>1 DEF EntryItems, Item
<1>3. KeyJson(k) = IF KeySort = "string" THEN <<"string", k>> ELSE <<"int", Number[k]>>
  BY DEF KeyJson
<1>4. over # <<>> /\ over[1] = KeyField(o) /\ over[2] = KeyJson(k)
  BY <1>2
<1>5. KeyField(o) # NoKey
  BY DEF InKeyedForm
<1>6. /\ over[2][1] \in {"string", "int"}
      /\ over[2][1] = "string" => KeySort = "string" /\ over[2][2] = k
  <2> HIDE DEF over, k
  <2>1. KeyJson(k)[1] \in {"string", "int"}
    BY <1>3
  <2>2. KeyJson(k)[1] = "string" => KeySort = "string" /\ KeyJson(k)[2] = k
    BY <1>3
  <2> QED BY <1>4, <2>1, <2>2
<1>7. ASSUME first = Empty, KeySort = "string"
      PROVE  k \in DOMAIN TextRank
  <2>1. IsFiniteSet(K) /\ K \subseteq DOMAIN TextRank
    BY <1>7, GivenKeys
  <2>2. K \subseteq IF KeySort = "string" THEN DOMAIN TextRank ELSE DOMAIN Number
    BY <1>7, <2>1
  <2>3. \A j \in DOMAIN SortedKeys : SortedKeys[j] \in K
    BY <1>7, <2>1, <2>2, SortedStrictly
  <2> HIDE DEF K
  <2> QED BY <1>1, <2>1, <2>3 DEF K
<1> HIDE DEF over, k, o
<1>8. OverFits(first, over, o)
  BY <1>4, <1>5, <1>6, <1>7 DEF OverFits
<1> QED BY <1>8 DEF over, o

(* A vector of tables is empty when it is begun. *)
LEMMA NewListed ==
  ASSUME Ordered, Building, Type.base = "vector", Type.elem = "table",
         NEW F, F.to = To, NEW n \in 0 .. Len(Position), DOMAIN F.todo = 1 .. n, Len(F.todo) = n,
         \A k \in 1 .. n : F.todo[k].slot = Position[k],
         first # Empty /\ KeyField(Type.of) # NoKey =>
           \E r : /\ \A i \in 1 .. n : r[i] \in Int
                  /\ \A i, j \in 1 .. n : i < j => r[i] < r[j]
                  /\ \A i \in 1 .. n : Merges(F.todo[i].over, Type.of, r[i])
  PROVE  Listed(first, Append(Rest, F), Put(To, <<"vector", Type>>), To)
<1> DEFINE t == Append(Rest, F)
           node == <<"vector", Type>>
           c == Put(To, node)
           o == Type.of
<1>1. c[To] = node /\ node[2] = Type
  BY DEF Put
<1>2. \A i \in DOMAIN t : t[i].to = To => t[i] = F
  BY NewCall
<1>3. Row(c, To, 0)
  <2>1. \A x : Append(To, x) \notin DOMAIN c
    BY NewHasNone
  <2>2. Sound(c)
    BY NodeFits, PutFits
  <2>3. Path(To)
    BY DueIs DEF Ordered
  <2>4. \A x : x \notin KeysAt(c, To)
    <3> HIDE DEF c
    <3> QED BY <2>1, <2>2, <2>3, SoundPaths
  <2>5. KeysAt(c, To) = {}
    BY <2>4
  <2>6. {Position[i] : i \in 1 .. 0} = {}
    OBVIOUS
  <2>7. 0 \in 0 .. Len(Position)
    BY PositionAssumption
  <2> HIDE DEF c
  <2> QED BY <2>5, <2>6, <2>7 DEF Row
<1>4. c[To][2].of = o
  BY <1>1
<1> HIDE DEF t, c, node, o
<1>5. 0 \in 0 .. Len(Position) /\ 0 <= n /\ n \in Nat
  BY PositionAssumption
<1>6. ASSUME NEW i \in DOMAIN t, t[i].to = To
      PROVE  /\ 0 + Len(t[i].todo) <= n
             /\ \A k \in DOMAIN t[i].todo : t[i].todo[k].slot = Position[0 + k]
  BY <1>2, <1>5, <1>6
<1>7. PICK r : first # Empty /\ KeyField(o) # NoKey => InOrder(t, c, To, 0, n, r)
  <2>1. CASE ~(first # Empty /\ KeyField(o) # NoKey)
    BY <2>1
  <2>2. CASE first # Empty /\ KeyField(o) # NoKey
    <3>1. PICK r : /\ \A i \in 1 .. n : r[i] \in Int
                   /\ \A i, j \in 1 .. n : i < j => r[i] < r[j]
                   /\ \A i \in 1 .. n : Merges(F.todo[i].over, o, r[i])
      BY <2>2 DEF o
    <3>2. \A i \in 1 .. 0 : FALSE
      OBVIOUS
    <3>3. ASSUME NEW i \in DOMAIN t, t[i].to = To, NEW k \in DOMAIN t[i].todo
          PROVE  Merges(t[i].todo[k].over, o, r[0 + k])
      <4>1. t[i] = F /\ k \in 1 .. n /\ 0 + k = k
        BY <1>2, <1>5, <3>3
      <4> QED BY <3>1, <4>1
    <3>4. InOrder(t, c, To, 0, n, r)
      BY <1>4, <3>1, <3>2, <3>3 DEF InOrder
    <3> QED BY <3>4
  <2> QED BY <2>1, <2>2
<1>8. Listed(first, t, c, To)
  BY <1>3, <1>4, <1>5, <1>6, <1>7 DEF Listed
<1> QED BY <1>8 DEF t, c, node

(* A vector or an array is begun. *)
LEMMA ListOrdered ==
  ASSUME Ordered, Building, Type.base \in {"vector", "array"}, Value[1] \in {"object", "array"},
         NEW n \in 0 .. Len(Position), NEW F,
         F.op = Type.base, F.from = From, F.to = To, F.over = <<>>,
         DOMAIN F.todo = 1 .. n, Len(F.todo) = n,
         \A k \in 1 .. n :
           /\ F.todo[k].slot = Position[k] /\ F.todo[k].need = "value"
           /\ F.todo[k].type = [base |-> Type.elem, of |-> Type.of]
           /\ OverFits(first, F.todo[k].over, Type.of),
         Type.base = "vector" /\ Type.elem = "table" /\ first # Empty /\ KeyField(Type.of) # NoKey =>
           \E r : /\ \A i \in 1 .. n : r[i] \in Int
                  /\ \A i, j \in 1 .. n : i < j => r[i] < r[j]
                  /\ \A i \in 1 .. n : Merges(F.todo[i].over, Type.of, r[i]),
         Nested', Move(Append(Rest, F), Put(To, <<Type.base, Type>>))
  PROVE  Ordered'
<1> DEFINE node == <<Type.base, Type>>
           c == Put(To, node)
<1>1. Known(node) /\ Fits(node, Type)
  BY NodeFits
<1>2. Path(From) /\ To \in DOMAIN c /\ c[To] = <<F.op, Type>>
  <2>1. Path(From)
    BY DueFits
  <2> QED BY <2>1 DEF Put
<1>3. \A x : Append(To, x) \notin DOMAIN c
  BY NewHasNone
<1>4. CallFits(doc, first, c, F)
  <2> DEFINE t == Type
  <2>1. /\ F.op \in {"vector", "array"} /\ c[F.to] = <<F.op, t>> /\ F.to \in DOMAIN c /\ Path(F.from)
        /\ \A x : Append(F.to, x) \notin DOMAIN c
        /\ \A k \in DOMAIN F.todo :
             /\ F.todo[k].type = [base |-> t.elem, of |-> t.of] /\ F.todo[k].need = "value"
             /\ OverFits(first, F.todo[k].over, t.of)
    BY <1>2, <1>3
  <2> HIDE DEF c, t
  <2> QED BY <2>1, ElementsCall
<1>5. first # Empty => Reads(first, c, F)
  <2> HIDE DEF node
  <2> QED BY <1>1, NewReads
<1>6. \A p \in Lists(c) : p \notin Lists(buffer) \/ p = Top.to => Listed(first, Append(Rest, F), c, p)
  <2> SUFFICES ASSUME NEW p \in Lists(c), p \notin Lists(buffer) \/ p = Top.to
               PROVE  Listed(first, Append(Rest, F), c, p)
    OBVIOUS
  <2>1. p \notin Lists(buffer)
    BY ListsTables
  <2>2. p = To /\ c[p] = node
    BY <2>1 DEF Put, Lists
  <2>3. Type.base = "vector" /\ Type.elem = "table"
    <3>1. node[1] = Type.base /\ node[2] = Type
      OBVIOUS
    <3> HIDE DEF node, c
    <3> QED BY <2>2, <3>1 DEF Lists
  <2>4. node = <<"vector", Type>>
    BY <2>3
  <2>5. Listed(first, Append(Rest, F), Put(To, <<"vector", Type>>), To)
    BY <2>3, NewListed
  <2> QED BY <2>2, <2>4, <2>5
<1>7. Move(Append(Rest, F), c)
  OBVIOUS
<1> HIDE DEF node
<1> QED BY <1>1, <1>4, <1>5, <1>6, <1>7, CallOrdered

(* The elements of a vector or an array that is given as one. *)
LEMMA ElementsAre ==
  ASSUME Ordered, Building, InPositions, Value[1] = "array"
  PROVE  LET n == Cardinality(KeysAt(doc, From))
         IN  /\ n \in 0 .. Len(Position) /\ DOMAIN ElementItems = 1 .. n /\ Len(ElementItems) = n
             /\ \A k \in 1 .. n :
                  /\ ElementItems[k].slot = Position[k] /\ ElementItems[k].need = "value"
                  /\ ElementItems[k].type = [base |-> Type.elem, of |-> Type.of]
                  /\ OverFits(first, ElementItems[k].over, Type.of)
<1> DEFINE n == Cardinality(KeysAt(doc, From))
<1>1. n \in 0 .. Len(Position) /\ Len(Position) \in Nat
  BY PositionAssumption DEF InPositions
<1>2. DOMAIN Elements(doc, From) = 1 .. n
  BY DEF Elements
<1>3. /\ DOMAIN ElementItems = 1 .. n
      /\ \A k \in 1 .. n :
           /\ ElementItems[k].slot = Position[k] /\ ElementItems[k].need = "value"
           /\ ElementItems[k].type = [base |-> Type.elem, of |-> Type.of]
           /\ ElementItems[k].over = <<>>
  BY <1>2 DEF ElementItems, Item
<1>4. ElementItems = [k \in 1 .. n |-> ElementItems[k]]
  BY <1>2 DEF ElementItems
<1> DEFINE items == ElementItems
<1> HIDE DEF n, items
<1>5. Len(items) = n
  <2>1. n \in Nat
    BY <1>1
  <2>2. items = [k \in 1 .. n |-> items[k]]
    BY <1>4 DEF items
  <2>3. Len([k \in 1 .. n |-> items[k]]) = n
    BY <2>1
  <2> QED BY <2>2, <2>3
<1> QED BY <1>1, <1>3, <1>5 DEF OverFits, n, items

(* A vector of a JSON array is begun: of a document printed, not a keyed one. *)
LEMMA BuildVectorOrdered == Ordered /\ BuildVector => Ordered'
<1> SUFFICES ASSUME Ordered, BuildVector PROVE Ordered'
  OBVIOUS
<1>1. CASE \E reason : Refuse(reason)
  BY <1>1, RefuseOrdered
<1>2. CASE ~\E reason : Refuse(reason)
  <2> DEFINE F == Frame("vector", From, To, Type.of, Top.depth + 1, <<>>, ElementItems)
             n == Cardinality(KeysAt(doc, From))
  <2>1. /\ Building /\ Type.base = "vector" /\ InPositions /\ Value[1] = "array"
        /\ Move(Append(Rest, F), Put(To, <<"vector", Type>>))
    BY <1>2, Zenon DEF BuildVector
  <2>2. Nested'
    BY BuildVectorNested DEF Ordered
  <2>3. /\ F.op = "vector" /\ F.from = From /\ F.to = To /\ F.over = <<>> /\ F.todo = ElementItems
    BY DEF Frame
  <2>4. /\ n \in 0 .. Len(Position) /\ DOMAIN ElementItems = 1 .. n /\ Len(ElementItems) = n
        /\ \A k \in 1 .. n :
             /\ ElementItems[k].slot = Position[k] /\ ElementItems[k].need = "value"
             /\ ElementItems[k].type = [base |-> Type.elem, of |-> Type.of]
             /\ OverFits(first, ElementItems[k].over, Type.of)
    BY <2>1, ElementsAre
  <2>5. ~(Type.elem = "table" /\ first # Empty /\ KeyField(Type.of) # NoKey)
    <3> SUFFICES ASSUME Type.elem = "table", first # Empty, KeyField(Type.of) # NoKey
                 PROVE  FALSE
      OBVIOUS
    <3>1. From \in DOMAIN doc /\ Value = doc[From]
      BY <2>1, ObjectGiven
    <3>2. PICK q \in Seen(first) :
            Printed(first, q) = From /\ Fits(first[q], Type) /\ doc[From] = Shape(first, q)
      BY <2>1, <3>1, ChildRead
    <3>3. first[q] = <<"vector", Type>> /\ q \in DOMAIN first
      BY <2>1, <3>2 DEF Fits, Seen
    <3>4. first[q][1] = "vector" /\ first[q][2] = Type
      BY <3>3
    <3>5. IsKeyed(first, q)
      BY <3>3, <3>4 DEF IsKeyed, Node
    <3>6. Shape(first, q) = <<"object", 0>>
      BY <3>4, <3>5 DEF Shape
    <3>7. Value[1] = "object"
      BY <3>1, <3>2, <3>6
    <3> QED BY <2>1, <3>7
  <2> HIDE DEF F, n
  <2>6. /\ DOMAIN F.todo = 1 .. n /\ Len(F.todo) = n
        /\ \A k \in 1 .. n :
             /\ F.todo[k].slot = Position[k] /\ F.todo[k].need = "value"
             /\ F.todo[k].type = [base |-> Type.elem, of |-> Type.of]
             /\ OverFits(first, F.todo[k].over, Type.of)
    BY <2>3, <2>4
  <2>7. Move(Append(Rest, F), Put(To, <<Type.base, Type>>))
    BY <2>1
  <2> QED BY <2>1, <2>2, <2>3, <2>4, <2>5, <2>6, <2>7, ListOrdered
<1> QED BY <1>1, <1>2

(* A vector is begun with the keys of an object, sorted. *)
LEMMA BuildKeyedOrdered == Ordered /\ BuildKeyed => Ordered'
<1> SUFFICES ASSUME Ordered, BuildKeyed PROVE Ordered'
  OBVIOUS
<1>1. CASE \E reason : Refuse(reason)
  BY <1>1, RefuseOrdered
<1>2. CASE ~\E reason : Refuse(reason)
  <2> DEFINE F == Frame("vector", From, To, Type.of, Top.depth + 2, <<>>, EntryItems)
             n == Cardinality(KeysAt(doc, From))
             items == EntryItems
  <2>1. /\ Building /\ Type.base = "vector" /\ InPositions /\ InKeyedForm /\ BadEntries = {}
        /\ Move(Append(Rest, F), Put(To, <<"vector", Type>>))
    BY <1>2, Zenon DEF BuildKeyed
  <2>2. Nested'
    BY BuildKeyedNested DEF Ordered
  <2>3. /\ F.op = "vector" /\ F.from = From /\ F.to = To /\ F.over = <<>> /\ F.todo = EntryItems
    BY DEF Frame
  <2>4. n \in 0 .. Len(Position) /\ n \in Nat /\ Value[1] = "object" /\ Type.elem = "table"
    BY <2>1, PositionAssumption DEF InPositions, InKeyedForm
  <2>5. DOMAIN SortedKeys = 1 .. n
    BY DEF SortedKeys
  <2>6. /\ DOMAIN EntryItems = 1 .. n
        /\ \A k \in 1 .. n :
             /\ EntryItems[k].slot = Position[k] /\ EntryItems[k].need = "value"
             /\ EntryItems[k].type = [base |-> "table", of |-> Type.of]
    BY <2>5 DEF EntryItems, Item
  <2>7. \A k \in 1 .. n : OverFits(first, EntryItems[k].over, Type.of)
    BY <2>1, EntriesFit
  <2>8. items = [k \in 1 .. n |-> items[k]]
    BY <2>5 DEF EntryItems
  <2>9. first # Empty => \E r :
          /\ \A i \in 1 .. n : r[i] \in Int
          /\ \A i, j \in 1 .. n : i < j => r[i] < r[j]
          /\ \A i \in 1 .. n : Merges(EntryItems[i].over, Type.of, r[i])
    BY <2>1, EntriesRanked
  <2> HIDE DEF F, n, items
  <2>10. Len(items) = n
    <3>1. Len([k \in 1 .. n |-> items[k]]) = n
      BY <2>4
    <3> QED BY <2>8, <3>1
  <2>11. /\ DOMAIN F.todo = 1 .. n /\ Len(F.todo) = n
         /\ \A k \in 1 .. n :
              /\ F.todo[k].slot = Position[k] /\ F.todo[k].need = "value"
              /\ F.todo[k].type = [base |-> Type.elem, of |-> Type.of]
              /\ OverFits(first, F.todo[k].over, Type.of)
    BY <2>3, <2>4, <2>6, <2>7, <2>10 DEF items
  <2>12. Move(Append(Rest, F), Put(To, <<Type.base, Type>>))
    BY <2>1
  <2>13. Type.base = "vector" /\ Type.elem = "table" /\ first # Empty /\ KeyField(Type.of) # NoKey =>
           \E r : /\ \A i \in 1 .. n : r[i] \in Int
                  /\ \A i, j \in 1 .. n : i < j => r[i] < r[j]
                  /\ \A i \in 1 .. n : Merges(F.todo[i].over, Type.of, r[i])
    BY <2>3, <2>9
  <2>14. /\ Building /\ Type.base \in {"vector", "array"} /\ Value[1] \in {"object", "array"}
         /\ F.op = Type.base
    BY <2>1, <2>3, <2>4
  <2> QED BY <2>2, <2>3, <2>4, <2>11, <2>12, <2>13, <2>14, ListOrdered
<1> QED BY <1>1, <1>2

(* A fixed-size array is begun. *)
LEMMA BuildArrayOrdered == Ordered /\ BuildArray => Ordered'
<1> SUFFICES ASSUME Ordered, BuildArray PROVE Ordered'
  OBVIOUS
<1>1. CASE \E reason : Refuse(reason)
  BY <1>1, RefuseOrdered
<1>2. CASE ~\E reason : Refuse(reason)
  <2> DEFINE F == Frame("array", From, To, Type.of, Top.depth, <<>>, ElementItems)
             n == Cardinality(KeysAt(doc, From))
  <2>1. /\ Building /\ Type.base = "array" /\ InPositions /\ Value[1] = "array"
        /\ Move(Append(Rest, F), Put(To, <<"array", Type>>))
    BY <1>2 DEF BuildArray
  <2>2. Nested'
    BY BuildArrayNested DEF Ordered
  <2>3. /\ F.op = "array" /\ F.from = From /\ F.to = To /\ F.over = <<>> /\ F.todo = ElementItems
    BY DEF Frame
  <2>4. /\ n \in 0 .. Len(Position) /\ DOMAIN ElementItems = 1 .. n /\ Len(ElementItems) = n
        /\ \A k \in 1 .. n :
             /\ ElementItems[k].slot = Position[k] /\ ElementItems[k].need = "value"
             /\ ElementItems[k].type = [base |-> Type.elem, of |-> Type.of]
             /\ OverFits(first, ElementItems[k].over, Type.of)
    BY <2>1, ElementsAre
  <2> HIDE DEF F, n
  <2>5. /\ DOMAIN F.todo = 1 .. n /\ Len(F.todo) = n
        /\ \A k \in 1 .. n :
             /\ F.todo[k].slot = Position[k] /\ F.todo[k].need = "value"
             /\ F.todo[k].type = [base |-> Type.elem, of |-> Type.of]
             /\ OverFits(first, F.todo[k].over, Type.of)
    BY <2>3, <2>4
  <2>6. Move(Append(Rest, F), Put(To, <<Type.base, Type>>))
    BY <2>1
  <2> QED BY <2>1, <2>2, <2>3, <2>4, <2>5, <2>6, ListOrdered
<1> QED BY <1>1, <1>2

-----------------------------------------------------------------------------
(* Unions. *)

(* A union is a field of a table, with a discriminator of its own. *)
LEMMA UnionDue ==
  ASSUME Ordered, Building, Type.base = "union"
  PROVE  LET o == Top.type
         IN  /\ Top.op = "table" /\ o \in DOMAIN Objects /\ Due.key \in DOMAIN Objects[o].type
             /\ Type = Objects[o].type[Due.key] /\ Due.slot = Due.key /\ Due.over = <<>>
             /\ buffer[Top.to] = <<"table", o>> /\ buffer[Top.to][1] = "table" /\ buffer[Top.to][2] = o
             /\ To = Append(Top.to, Due.key) /\ To \notin DOMAIN buffer
             /\ Type.disc \in DOMAIN Objects[o].type /\ Objects[o].type[Type.disc].base = "disc"
             /\ DOMAIN Variants[Type.of] \subseteq DOMAIN DiscKind.names
             /\ \A g \in DOMAIN Objects[o].type :
                  Objects[o].type[g].base = "union" /\ Objects[o].type[g].disc = Type.disc => g = Due.key
<1> DEFINE o == Top.type
<1>1. Top.op = "table"
  BY DueTypes DEF Ops
<1>2. /\ o \in DOMAIN Objects /\ Due.key \in DOMAIN Objects[o].type
      /\ Type = Objects[o].type[Due.key] /\ Due.slot = Due.key /\ Due.over = <<>>
      /\ buffer[Top.to] = <<"table", o>> /\ buffer[Top.to][2] = o
      /\ To \notin DOMAIN buffer
  BY <1>1, DueTypes
<1>3. buffer[Top.to][1] = "table"
  BY <1>2, Pairs
<1>4. To = Append(Top.to, Due.key)
  BY <1>2, DueIs DEF Ordered
<1>5. /\ Discriminated(o, Type)
      /\ \A g \in DOMAIN Objects[o].type :
           Objects[o].type[g].base = "union" /\ Objects[o].type[g].disc = Type.disc => g = Due.key
  BY <1>2, FieldTypes
<1>6. /\ Type.disc \in DOMAIN Objects[o].type /\ Objects[o].type[Type.disc].base = "disc"
      /\ DOMAIN Variants[Type.of] \subseteq DOMAIN DiscKind.names
  BY <1>5, Zenon DEF Discriminated, DiscKind
<1> QED BY <1>1, <1>2, <1>3, <1>4, <1>5, <1>6

(* The call goes on with the value of the union. *)
LEMMA UnionGoesOn ==
  ASSUME Nested, Building, NEW item
  PROVE  LET n == Len(frames)
             t == [frames EXCEPT ![n].todo = <<item>> \o Tail(@)]
         IN  /\ DOMAIN t = DOMAIN frames
             /\ \A i \in DOMAIN frames : i # n => t[i] = frames[i]
             /\ t[n].op = Top.op /\ t[n].from = Top.from /\ t[n].to = Top.to
             /\ t[n].type = Top.type /\ t[n].over = Top.over
             /\ DOMAIN t[n].todo = DOMAIN Top.todo
             /\ \A k \in DOMAIN Top.todo : t[n].todo[k] = IF k = 1 THEN item ELSE Top.todo[k]
<1> DEFINE n == Len(frames)
           todo == Top.todo
           tail == Tail(todo)
           items == <<item>> \o tail
           own == {todo[k] : k \in DOMAIN todo}
           ends == [Top EXCEPT !.todo = items]
           s == frames
           t == [frames EXCEPT ![n].todo = <<item>> \o Tail(@)]
<1>1. n \in Nat /\ DOMAIN frames = 1 .. n /\ n \in DOMAIN frames /\ Top = frames[n] /\ Open(Top)
  BY DueIs
<1>2. Path(s) /\ todo \in Seq(own) /\ todo # <<>>
  BY DueIs DEF Nested, Grown, Path, Building
<1>3. t = [s EXCEPT ![n] = ends]
  BY DEF Top
<1>4. /\ ends.op = Top.op /\ ends.from = Top.from /\ ends.to = Top.to
      /\ ends.type = Top.type /\ ends.over = Top.over /\ ends.todo = items
  <2> DEFINE F == Top
  <2>1. DOMAIN F = {"op", "from", "to", "type", "depth", "over", "todo"}
    BY <1>1 DEF Open
  <2>2. ends = [F EXCEPT !.todo = items]
    OBVIOUS
  <2> HIDE DEF F, ends, items
  <2>3. /\ ends.op = F.op /\ ends.from = F.from /\ ends.to = F.to
        /\ ends.type = F.type /\ ends.over = F.over /\ ends.todo = items
    BY <2>1, <2>2
  <2> QED BY <2>3 DEF F
<1> HIDE DEF own, todo
<1>5. DOMAIN items = DOMAIN todo /\ \A k \in DOMAIN todo : items[k] = IF k = 1 THEN item ELSE todo[k]
  <2>1. /\ Len(todo) \in Nat /\ Len(todo) # 0 /\ DOMAIN todo = 1 .. Len(todo)
        /\ tail \in Seq(own) /\ Len(tail) = Len(todo) - 1
        /\ \A k \in 1 .. (Len(todo) - 1) : tail[k] = todo[k + 1]
    BY <1>2
  <2>2. tail \in Seq(own) /\ Len(tail) \in Nat
    BY <2>1
  <2> HIDE DEF tail
  <2>3. /\ Len(items) = Len(tail) + 1 /\ items \in Seq(own \cup {item}) /\ items[1] = item
        /\ \A k \in 1 .. Len(items) : k # 1 => items[k] = tail[k - 1]
    BY <2>2
  <2> HIDE DEF items
  <2>4. DOMAIN items = 1 .. Len(todo)
    BY <2>1, <2>3
  <2>5. ASSUME NEW k \in DOMAIN todo
        PROVE  items[k] = IF k = 1 THEN item ELSE todo[k]
    <3>1. CASE k = 1
      BY <2>3, <3>1
    <3>2. CASE k # 1
      <4>1. k \in 1 .. Len(items) /\ k - 1 \in 1 .. (Len(todo) - 1) /\ (k - 1) + 1 = k
        BY <2>1, <2>3, <2>5, <3>2
      <4>2. tail[k - 1] = todo[(k - 1) + 1]
        BY <2>1, <4>1
      <4> QED BY <2>3, <3>2, <4>1, <4>2
    <3> QED BY <3>1, <3>2
  <2> QED BY <2>1, <2>4, <2>5
<1> HIDE DEF tail, items, ends, n, s, t
<1>6. DOMAIN t = DOMAIN frames /\ \A i \in DOMAIN frames : t[i] = IF i = n THEN ends ELSE frames[i]
  <2> DEFINE all == {s[i] : i \in DOMAIN s}
  <2>1. s \in Seq(all)
    BY <1>2 DEF Path
  <2> HIDE DEF all
  <2>2. DOMAIN t = DOMAIN s /\ \A i \in DOMAIN s : t[i] = IF i = n THEN ends ELSE s[i]
    BY <1>3, <2>1
  <2> QED BY <2>2 DEF s
<1>7. t[n] = ends /\ \A i \in DOMAIN frames : i # n => t[i] = frames[i]
  BY <1>1, <1>6
<1>8. /\ t[n].op = Top.op /\ t[n].from = Top.from /\ t[n].to = Top.to
      /\ t[n].type = Top.type /\ t[n].over = Top.over
  BY <1>4, <1>7
<1>9. t[n].todo = items
  BY <1>4, <1>7
<1> QED BY <1>5, <1>6, <1>7, <1>8, <1>9 DEF n, todo, t

(* The discriminator of a union, in the buffer. *)
LEMMA UnionSound ==
  ASSUME Ordered, Building, Type.base = "union", Disc[1] = "string", Disc[2] \in DOMAIN Variants[Type.of],
         NEW c, c = Put(Append(Top.to, Type.disc), <<"scalar", DiscKind, <<"int", DiscKind.names[Disc[2]]>>>>)
  PROVE  /\ Sound(c) /\ Told(c, Top.to, Type.disc, Disc[2])
         /\ \A i \in DOMAIN frames : CallFits(doc, first, c, frames[i])
         /\ Append(Top.to, Type.disc) \in DOMAIN buffer => buffer[Append(Top.to, Type.disc)][1] = "scalar"
         /\ Append(Top.to, Type.disc) # To
<1> DEFINE o == Top.type
           p == Top.to
           x == Type.disc
           q == Append(p, x)
           name == Disc[2]
           number == <<"int", DiscKind.names[name]>>
           scalar == <<"scalar", DiscKind, number>>
<1>1. /\ Top.op = "table" /\ o \in DOMAIN Objects /\ Due.key \in DOMAIN Objects[o].type
      /\ Type = Objects[o].type[Due.key] /\ Due.slot = Due.key
      /\ buffer[p] = <<"table", o>> /\ buffer[p][1] = "table" /\ buffer[p][2] = o
      /\ To = Append(p, Due.key) /\ To \notin DOMAIN buffer
      /\ x \in DOMAIN Objects[o].type /\ Objects[o].type[x].base = "disc"
      /\ \A g \in DOMAIN Objects[o].type :
           Objects[o].type[g].base = "union" /\ Objects[o].type[g].disc = x => g = Due.key
  BY UnionDue
<1>2. /\ Sound(buffer) /\ CallFits(doc, first, buffer, Top) /\ p \in DOMAIN buffer /\ Path(p)
      /\ Path(Top.from)
  BY DueFits, DueIs
<1>3. /\ DOMAIN c = DOMAIN buffer \cup {q} /\ c[q] = scalar
      /\ \A r \in DOMAIN buffer : r # q => c[r] = buffer[r]
      /\ c = With(buffer, Append(p, x), scalar)
  BY DEF Put, With
<1>4. scalar[1] = "scalar" /\ scalar[3] = number /\ number[1] = "int"
  OBVIOUS
<1>5. p # q
  <2> DEFINE l == Len(q)
  <2>1. Len(q) = Len(p) + 1 /\ Len(p) \in Nat
    BY <1>2, PathGrows
  <2> HIDE DEF q
  <2> QED BY <2>1
<1>6. c[p] = buffer[p] /\ x # Due.key
  <2>1. Objects[o].type[Due.key].base = "union"
    BY <1>1
  <2> QED BY <1>1, <1>2, <1>3, <1>5, <2>1, Zenon
<1>7. q # To
  <2> HIDE DEF p, x
  <2>1. Append(p, x) = Append(p, Due.key) => x = Due.key
    BY <1>2, StepsEqual
  <2> QED BY <1>1, <1>6, <2>1, Zenon
<1>8. Told(c, p, x, name)
  <2>1. c[p][2] = Top.type
    BY <1>1, <1>6, Zenon
  <2>2. scalar = <<"scalar", Kinds[Objects[c[p][2]].type[x].of], <<"int", Kinds[Objects[c[p][2]].type[x].of].names[name]>>>>
    BY <2>1, Zenon DEF DiscKind
  <2> HIDE DEF scalar
  <2> QED BY <1>3, <2>2, Zenon DEF Told
<1> HIDE DEF scalar, number
<1>9. Known(scalar)
  BY <1>4 DEF Known
<1> HIDE DEF o, p, x, name
<1>10. q \in DOMAIN buffer => buffer[q][1] = "scalar"
  <2> SUFFICES ASSUME q \in DOMAIN buffer PROVE buffer[q][1] = "scalar"
    OBVIOUS
  <2>1. ChildFits(buffer, p, x)
    BY <1>2, SoundPaths
  <2>2. Fits(buffer[q], Objects[o].type[x])
    BY <1>1, <2>1 DEF ChildFits
  <2> QED BY <1>1, <2>2 DEF Fits, Tag
<1>11. ASSUME NEW y, Append(p, y) \in DOMAIN c
       PROVE  ChildFits(c, p, y)
  <2>1. CASE y = x
    <3>1. Fits(c[Append(p, x)], Objects[o].type[x])
      BY <1>1, <1>3, <1>4 DEF Fits, Tag
    <3>2. c[p][1] \in {"table", "struct"} /\ c[p][2] = o
      BY <1>1, <1>6
    <3> QED BY <1>1, <2>1, <3>1, <3>2, Zenon DEF ChildFits
  <2>2. CASE y # x
    <3>1. Append(p, y) # q
      BY <1>2, <2>2, StepsEqual
    <3>2. Append(p, y) \in DOMAIN buffer /\ c[Append(p, y)] = buffer[Append(p, y)]
      BY <1>3, <1>11, <3>1
    <3>3. ChildFits(buffer, p, y)
      BY <1>2, <3>2, SoundPaths
    <3>4. c[p][1] = "table" /\ c[p][2] = o
      BY <1>1, <1>6
    <3> DEFINE t == Objects[o].type[y]
    <3>5. y \in DOMAIN Objects[o].type
      BY <1>1, <3>3 DEF ChildFits
    <3>6. CASE t.base # "union"
      BY <1>1, <3>2, <3>3, <3>4, <3>6, Zenon DEF ChildFits
    <3>7. CASE t.base = "union"
      <4>1. PICK w \in DOMAIN Variants[t.of] : Fits(buffer[Append(p, y)], Variants[t.of][w]) /\ Told(buffer, p, t.disc, w)
        BY <1>1, <3>3, <3>7 DEF ChildFits
      <4>2. y # Due.key
        BY <1>1, <3>2
      <4>3. t.disc # x
        BY <1>1, <3>5, <3>7, <4>2
      <4>4. Append(p, t.disc) # q
        BY <1>2, <4>3, StepsEqual
      <4>5. Told(c, p, t.disc, w)
        <5> HIDE DEF t
        <5> QED BY <1>3, <1>6, <4>1, <4>4, Zenon DEF Told
      <4>6. Fits(c[Append(p, y)], Variants[t.of][w]) /\ t = Objects[c[p][2]].type[y]
        BY <3>2, <3>4, <4>1
      <4> HIDE DEF t
      <4> QED BY <3>4, <3>5, <3>7, <4>1, <4>5, <4>6, Zenon DEF ChildFits
    <3> QED BY <3>6, <3>7
  <2> QED BY <2>1, <2>2
<1>12. Sound(c)
  <2> DEFINE b == buffer
  <2>1. Sound(b) /\ p \in DOMAIN b
    BY <1>2
  <2>2. c = With(b, Append(p, x), scalar)
    BY <1>3
  <2>3. Append(p, x) \in DOMAIN b => b[Append(p, x)][1] = "scalar"
    BY <1>10
  <2> HIDE DEF b
  <2> QED BY <1>9, <1>11, <2>1, <2>2, <2>3, WithSound
<1>13. ASSUME NEW i \in DOMAIN frames
       PROVE  CallFits(doc, first, c, frames[i])
  <2> DEFINE F == frames[i]
  <2>1. CallFits(doc, first, buffer, F)
    BY DEF Ordered, Shaped
  <2>2. /\ F.to \in DOMAIN buffer /\ Path(F.to) /\ (F.to = p => i = Len(frames))
        /\ Top = frames[Len(frames)]
    BY ToIsFree, DueIs DEF Ordered, p
  <2>3. F.to # q
    <3>1. buffer[F.to][1] \in {"table", "struct", "vector", "array"}
      <4> HIDE DEF F
      <4> QED BY <2>1, OpIs DEF Ops
    <3> QED BY <1>10, <2>2, <3>1
  <2>4. F.to = p => F = Top
    BY <2>2
  <2>5. \A k \in DOMAIN F.todo : Append(F.to, F.todo[k].slot) = q =>
          F.op = "table" /\ Objects[F.type].type[F.todo[k].slot].base = "disc"
    <3> SUFFICES ASSUME NEW k \in DOMAIN F.todo, Append(F.to, F.todo[k].slot) = q
                 PROVE  F.op = "table" /\ Objects[F.type].type[F.todo[k].slot].base = "disc"
      OBVIOUS
    <3>1. F.to = p /\ F.todo[k].slot = x
      BY <1>2, <2>2, StepsEqual
    <3>2. F.op = "table" /\ F.type = o
      BY <1>1, <2>4, <3>1 DEF o
    <3> QED BY <1>1, <3>1, <3>2
  <2>6. ASSUME F.op = "table", F.to = p, NEW u \in DOMAIN Objects[F.type].type,
               Objects[F.type].type[u].base = "union"
        PROVE  /\ \A w : Objects[F.type].type[u].disc = x /\ Chosen(doc, buffer, F, Objects[F.type].type[u], w)
                    => Told(c, p, x, w)
               /\ u = x => \E w : /\ Chosen(doc, c, F, Objects[F.type].type[u], w)
                                  /\ Fits(scalar, Variants[Objects[F.type].type[u].of][w])
    <3>1. F = Top /\ F.type = o /\ u # x
      BY <1>1, <2>4, <2>6 DEF o
    <3>2. ASSUME NEW w, Objects[F.type].type[u].disc = x, Chosen(doc, buffer, F, Objects[F.type].type[u], w)
          PROVE  Told(c, p, x, w)
      <4>1. Says(Node(doc, Append(F.from, x)), w)
        BY <3>2 DEF Chosen
      <4>2. w = name
        BY <3>1, <4>1 DEF Says, Disc, name, x
      <4> QED BY <1>8, <4>2
    <3> QED BY <3>1, <3>2
  <2> HIDE DEF F
  <2>7. CallFits(doc, first, c, F)
    <3>1. c = With(buffer, Append(p, x), scalar) /\ Path(p) /\ F.to # Append(p, x)
      BY <1>2, <1>3, <2>3
    <3>2. \A k \in DOMAIN F.todo : Append(F.to, F.todo[k].slot) = Append(p, x) =>
            F.op = "table" /\ Objects[F.type].type[F.todo[k].slot].base = "disc"
      BY <2>5
    <3>3. KeepsUnions(doc, buffer, c, F, p, x, scalar)
      BY <2>6 DEF KeepsUnions
    <3>4. Path(F.to)
      BY <2>2
    <3> QED BY <2>1, <3>1, <3>2, <3>3, <3>4, WithFits
  <2> QED BY <2>7 DEF F
<1> QED BY <1>7, <1>8, <1>10, <1>12, <1>13 DEF p, x, name

(* The call of a union's table fits, with the value of the variant due.    *)
LEMMA VariantFits ==
  ASSUME Ordered, Building, Type.base = "union", Disc[1] = "string", Disc[2] \in DOMAIN Variants[Type.of],
         NEW c, c = Put(Append(Top.to, Type.disc), <<"scalar", DiscKind, <<"int", DiscKind.names[Disc[2]]>>>>),
         NEW G, G.op = Top.op, G.from = Top.from, G.to = Top.to, G.type = Top.type, G.over = Top.over,
         DOMAIN G.todo = DOMAIN Top.todo,
         \A k \in DOMAIN Top.todo : G.todo[k] = IF k = 1 THEN VariantItem ELSE Top.todo[k]
  PROVE  CallFits(doc, first, c, G)
<1> DEFINE item == VariantItem
           F == Top
           q == Append(Top.to, Type.disc)
<1>1. /\ F.op = "table" /\ Due.key \in DOMAIN Objects[F.type].type
      /\ Type = Objects[F.type].type[Due.key] /\ Due.slot = Due.key
      /\ To = Append(F.to, Due.key) /\ To \notin DOMAIN buffer
  BY UnionDue
<1>2. /\ Told(c, F.to, Type.disc, Disc[2]) /\ q # To
      /\ \A i \in DOMAIN frames : CallFits(doc, first, c, frames[i])
  BY UnionSound
<1>3. CallFits(doc, first, c, F)
  BY <1>2, DueIs, Zenon DEF Ordered
<1>4. /\ item.key = Due.key /\ item.slot = Due.key /\ item.over = <<>>
      /\ item.type = Variants[Type.of][Disc[2]]
  BY <1>1, Zenon DEF VariantItem, Item
<1>5. To \notin DOMAIN c
  BY <1>1, <1>2, Zenon DEF Put
<1>6. /\ G.op = F.op /\ G.from = F.from /\ G.to = F.to /\ G.type = F.type /\ G.over = F.over
      /\ DOMAIN G.todo = DOMAIN F.todo
      /\ \A k \in DOMAIN F.todo : G.todo[k] = IF k = 1 THEN item ELSE F.todo[k]
  OBVIOUS
<1> HIDE DEF item
<1>7. Chosen(doc, c, F, Type, Disc[2])
  BY <1>2 DEF Chosen, Says, Disc
<1> HIDE DEF F
<1>8. ItemFits(doc, first, c, F, item)
  BY <1>1, <1>4, <1>5, <1>7, Zenon DEF ItemFits
<1>9. \A k \in DOMAIN F.todo : ItemFits(doc, first, c, F, F.todo[k])
  BY <1>3 DEF CallFits
<1>10. \A k \in DOMAIN G.todo : ItemFits(doc, first, c, F, G.todo[k])
  BY <1>6, <1>8, <1>9
<1> QED BY <1>3, <1>6, <1>10, FieldsFit

(* A union: nothing, or its discriminator with its value due.              *)
LEMMA BuildUnionOrdered == Ordered /\ BuildUnion => Ordered'
<1> SUFFICES ASSUME Ordered, BuildUnion PROVE Ordered'
  OBVIOUS
<1> DEFINE number == <<"int", DiscKind.names[Disc[2]]>>
           scalar == <<"scalar", DiscKind, number>>
           c == Put(Append(Top.to, Type.disc), scalar)
           n == Len(frames)
           t == [frames EXCEPT ![n].todo = <<VariantItem>> \o Tail(@)]
           y == Type.disc
<1>1. Building /\ Type.base = "union"
  BY Zenon DEF BuildUnion
<1>2. CASE \E reason : Refuse(reason)
  BY <1>2, RefuseOrdered
<1>3. CASE Move(Rest, buffer)
  BY <1>1, <1>3, NothingBuilt
<1>4. CASE ~(\E reason : Refuse(reason)) /\ ~Move(Rest, buffer)
  <2>1. Disc[1] = "string" /\ Disc[2] \in DOMAIN Variants[Type.of] /\ Move(t, c)
    BY <1>4, Zenon DEF BuildUnion
  <2>2. /\ Sound(c) /\ Append(Top.to, y) # To
        /\ \A i \in DOMAIN frames : CallFits(doc, first, c, frames[i])
        /\ Append(Top.to, y) \in DOMAIN buffer => buffer[Append(Top.to, y)][1] = "scalar"
    BY <1>1, <2>1, UnionSound
  <2>3. /\ DOMAIN t = DOMAIN frames /\ \A i \in DOMAIN frames : i # n => t[i] = frames[i]
        /\ t[n].op = Top.op /\ t[n].from = Top.from /\ t[n].to = Top.to
        /\ t[n].type = Top.type /\ t[n].over = Top.over
        /\ DOMAIN t[n].todo = DOMAIN Top.todo
        /\ \A k \in DOMAIN Top.todo : t[n].todo[k] = IF k = 1 THEN VariantItem ELSE Top.todo[k]
    BY <1>1, UnionGoesOn DEF Ordered
  <2>4. Nested'
    BY BuildUnionNested DEF Ordered
  <2>5. /\ Top.op = "table" /\ Top.type \in DOMAIN Objects /\ Type.disc \in DOMAIN Objects[Top.type].type
        /\ Objects[Top.type].type[Type.disc].base = "disc"
        /\ Type = Objects[Top.type].type[Due.key]
    BY <1>1, UnionDue
  <2>6. n \in DOMAIN frames /\ Top = frames[n]
    BY <1>1, DueIs DEF Ordered
  <2> DEFINE G == t[n]
  <2>7. CallFits(doc, first, c, G)
    <3>1. c = Put(Append(Top.to, Type.disc), <<"scalar", DiscKind, <<"int", DiscKind.names[Disc[2]]>>>>)
      OBVIOUS
    <3>2. /\ G.op = Top.op /\ G.from = Top.from /\ G.to = Top.to /\ G.type = Top.type /\ G.over = Top.over
          /\ DOMAIN G.todo = DOMAIN Top.todo
          /\ \A k \in DOMAIN Top.todo : G.todo[k] = IF k = 1 THEN VariantItem ELSE Top.todo[k]
      BY <2>3
    <3> HIDE DEF G, c
    <3> QED BY <1>1, <2>1, <3>1, <3>2, VariantFits
  <2>8. scalar[1] = "scalar"
    OBVIOUS
  <2> HIDE DEF scalar, number
  <2>9. /\ DOMAIN c = DOMAIN buffer \cup {Append(Top.to, y)} /\ c[Append(Top.to, y)] = scalar
        /\ \A r \in DOMAIN buffer : r # Append(Top.to, y) => c[r] = buffer[r]
    BY DEF Put
  <2> HIDE DEF c, t, G
  <2>10. \A i \in DOMAIN t : CallFits(doc, first, c, t[i])
    BY <2>2, <2>3, <2>7 DEF G
  <2>11. \A p \in Lists(c) : p \in Lists(buffer) /\ p # Top.to
    <3>1. Top.to \notin Lists(buffer)
      BY <1>1, ListsTables
    <3> QED BY <2>8, <2>9, <3>1 DEF Lists
  <2>12. first = Empty => \A r \in DOMAIN c : r \notin DOMAIN buffer \/ r = Append(Top.to, y) =>
           (c[r][1] = "string" => c[r][2] \in DOMAIN TextRank)
    BY <2>8, <2>9
  <2>13. KeyField(Top.type) # NoKey => Due.key # KeyField(Top.type) /\ y # KeyField(Top.type)
    <3>1. KeyField(Top.type) # NoKey => Objects[Top.type].type[KeyField(Top.type)].base \in {"string", "scalar"}
      BY <2>5, KeyTypes
    <3> QED BY <1>1, <2>5, <3>1
  <2>14. ASSUME NEW k \in DOMAIN Top.todo, k # 1
         PROVE  \E l \in DOMAIN t[n].todo : t[n].todo[l].key = Top.todo[k].key
    <3>1. k \in DOMAIN t[n].todo /\ t[n].todo[k] = Top.todo[k]
      BY <2>3, <2>14
    <3> QED BY <3>1
  <2> HIDE DEF y
  <2>15. Advances(t, c, y)
    <3> HIDE DEF n
    <3> QED BY <2>2, <2>3, <2>9, <2>13, <2>14 DEF Advances, n
  <2>16. \A i \in DOMAIN t :
           /\ i \in DOMAIN frames /\ t[i].op = frames[i].op
           /\ t[i].from = frames[i].from /\ t[i].to = frames[i].to
    BY <2>3, <2>6
  <2>17. Stored(c, y)
    BY <2>5 DEF Stored, y
  <2> QED BY <1>1, <2>1, <2>2, <2>4, <2>10, <2>11, <2>12, <2>15, <2>16, <2>17, StepOrdered
<1> QED BY <1>2, <1>3, <1>4

-----------------------------------------------------------------------------
(* Calls return. *)

(* Without a call that has nothing left to build, the rest is as it was.   *)
LEMMA FewerCalls ==
  ASSUME Ordered, NEW t, DOMAIN t \subseteq DOMAIN frames, \A i \in DOMAIN t : t[i] = frames[i],
         \A i \in DOMAIN frames : i \in DOMAIN t \/ frames[i].todo = <<>>
  PROVE  Shaped(doc, first, t, buffer)
<1>1. Shaped(doc, first, frames, buffer)
  BY DEF Ordered
<1>2. \A i \in DOMAIN t : CallFits(doc, first, buffer, t[i])
  BY <1>1 DEF Shaped
<1>3. first # Empty => \A i \in DOMAIN t : Reads(first, buffer, t[i])
  BY <1>1 DEF Shaped
<1>4. ASSUME NEW e, NEW o, NEW x, HasKey(frames, buffer, e, o, x)
      PROVE  HasKey(t, buffer, e, o, x)
  <2>1. \A i \in DOMAIN t : t[i].to = e => i \in DOMAIN frames /\ frames[i].to = e /\ t[i].over = frames[i].over
    OBVIOUS
  <2>2. ASSUME NEW i \in DOMAIN frames, frames[i].to = e,
               NEW k \in DOMAIN frames[i].todo, frames[i].todo[k].key = KeyField(o)
        PROVE  \E j \in DOMAIN t : t[j].to = e /\ \E l \in DOMAIN t[j].todo : t[j].todo[l].key = KeyField(o)
    <3>1. i \in DOMAIN t
      BY <2>2
    <3> QED BY <2>2, <3>1
  <2>3. KeyRank(buffer, e) = KeyRank(buffer, e) /\ buffer[e] = buffer[e]
    OBVIOUS
  <2> DEFINE b == buffer
             s == frames
  <2>4. /\ HasKey(s, b, e, o, x) /\ b[e] = b[e] /\ KeyRank(b, e) = KeyRank(b, e)
        /\ \A i \in DOMAIN t : t[i].to = e => i \in DOMAIN s /\ s[i].to = e /\ t[i].over = s[i].over
        /\ \A i \in DOMAIN s : s[i].to = e =>
             \A k \in DOMAIN s[i].todo : s[i].todo[k].key = KeyField(o) =>
               \E j \in DOMAIN t : t[j].to = e /\ \E l \in DOMAIN t[j].todo : t[j].todo[l].key = KeyField(o)
    BY <1>4, <2>1, <2>2
  <2> HIDE DEF b, s
  <2>5. HasKey(t, b, e, o, x)
    BY <2>4, KeyKept
  <2> QED BY <2>5 DEF b
<1>5. ASSUME NEW p \in Lists(buffer)
      PROVE  Listed(first, t, buffer, p)
  <2> DEFINE b == buffer
             s == frames
  <2>1. Listed(first, s, b, p) /\ b[p] = b[p] /\ KeysAt(b, p) = KeysAt(b, p)
    BY <1>1 DEF Shaped
  <2>2. \A i \in DOMAIN t : t[i].to = p => i \in DOMAIN s /\ s[i].to = p /\ t[i].todo = s[i].todo
    OBVIOUS
  <2>3. first # Empty /\ KeyField(b[p][2].of) # NoKey =>
          \A y \in KeysAt(b, p) : \A x :
            HasKey(s, b, Append(p, y), b[p][2].of, x) =>
            HasKey(t, b, Append(p, y), b[p][2].of, x)
    BY <1>4
  <2> HIDE DEF b, s
  <2>4. Listed(first, t, b, p)
    BY <2>1, <2>2, <2>3, ListKept
  <2> QED BY <2>4 DEF b
<1>6. Sound(buffer)
  BY <1>1 DEF Shaped
<1> QED BY <1>2, <1>3, <1>5, <1>6 DEF Shaped

(* A call returns to the one that made it, or ends the conversion. *)
LEMMA ReturnOrdered == Ordered /\ Return => Ordered'
<1> SUFFICES ASSUME Ordered, Return PROVE Ordered'
  OBVIOUS
<1> DEFINE n == Len(frames)
           s == SubSeq(frames, 1, n - 1)
<1>1. Nested'
  BY ReturnNested DEF Ordered
<1>2. /\ phase = "build" /\ frames # <<>> /\ Grown(frames, Tables(buffer)) /\ Top.todo = <<>>
      /\ Top = frames[n]
  BY Zenon DEF Ordered, Nested, Return, Top
<1>3. n \in Nat /\ DOMAIN frames = 1 .. n /\ n \in DOMAIN frames
  BY <1>2, GrownDomain
<1>4. HasRoot(buffer) /\ (first = Empty => StringsRanked(buffer) /\ Elides(buffer))
  BY <1>2 DEF Ordered
<1>5. /\ first = Empty => doc = given
      /\ given \in Docs
      /\ first # Empty =>
           /\ doc = Json(first) /\ Sound(first) /\ HasRoot(first)
           /\ StringsRanked(first) /\ Elides(first)
           /\ \A p \in Lists(first) : \E m : Row(first, p, m)
  BY DEF Ordered
<1>6. CASE \E reason : Refuse(reason)
  BY <1>6, RefuseOrdered
<1>7. CASE Len(frames) > 1 /\ Move(s, buffer)
  <2>1. n - 1 \in Nat /\ n - 1 \in 0 .. n /\ Path(frames)
    BY <1>2, <1>3, <1>7 DEF Grown
  <2>2. Len(s) = n - 1 /\ Path(s) /\ \A i \in 1 .. (n - 1) : s[i] = frames[i]
    BY <2>1, PathBegins
  <2> HIDE DEF s
  <2>3. DOMAIN s = 1 .. (n - 1)
    BY <2>1, <2>2, PathGrows
  <2>4. \A i \in DOMAIN frames : i \in DOMAIN s \/ i = n
    BY <1>3, <2>1, <2>3
  <2> HIDE DEF n
  <2>5. DOMAIN s \subseteq DOMAIN frames /\ \A i \in DOMAIN s : s[i] = frames[i]
    BY <1>3, <2>1, <2>2, <2>3
  <2>6. Shaped(doc, first, s, buffer)
    BY <1>2, <2>4, <2>5, FewerCalls
  <2>7. /\ frames' = s /\ buffer' = buffer /\ doc' = doc /\ first' = first
        /\ given' = given /\ phase' = phase
    BY <1>7 DEF Move
  <2> QED BY <1>1, <1>4, <1>5, <2>6, <2>7 DEF Ordered
<1>8. CASE /\ ~(Len(frames) > 1) /\ phase' = "built" /\ frames' = <<>>
           /\ UNCHANGED <<given, lenient, doc, buffer, first, refusal>>
  <2>1. \A i \in DOMAIN frames : i = n
    BY <1>3, <1>8
  <2> DEFINE none == <<>>
  <2>2. DOMAIN none = {}
    OBVIOUS
  <2> HIDE DEF none, n
  <2>3. Shaped(doc, first, none, buffer)
    BY <1>2, <2>1, <2>2, FewerCalls
  <2>4. /\ frames' = none /\ buffer' = buffer /\ doc' = doc /\ first' = first
        /\ given' = given
    BY <1>8 DEF none
  <2> QED BY <1>1, <1>4, <1>5, <2>3, <2>4 DEF Ordered
<1> QED BY <1>6, <1>7, <1>8, Zenon DEF Return

-----------------------------------------------------------------------------
(* The root of the document. *)

(* What is at the root is printed at the root. *)
LEMMA RootPrinted ==
  ASSUME NEW b, HasRoot(b)
  PROVE  <<>> \in Seen(b) /\ Printed(b, <<>>) = <<>>
<1> DEFINE none == <<>>
<1>1. Path(none) /\ Len(none) = 0
  BY OwnElements DEF Path
<1>2. \A i : i \notin 1 .. 0
  OBVIOUS
<1> HIDE DEF none
<1>3. ~Hidden(b, none)
  BY <1>1, <1>2 DEF Hidden
<1>4. Path(Printed(b, none)) /\ Len(Printed(b, none)) = Len(none)
  BY <1>1, PrintedPath
<1>5. Printed(b, none) = none
  BY <1>1, <1>2, <1>4, PathEqual
<1> QED BY <1>3, <1>5 DEF none, HasRoot, Seen

(* The call of the root table, the first one. *)
LEMMA RootOrdered ==
  ASSUME Ordered, Nested', NEW F, F.op = "table", F.from = <<>>, F.to = <<>>, F.type = RootTable,
         F.over = <<>>, F.todo = FieldItems(RootTable), buffer = Empty,
         Move(Append(<<>>, F), Put(<<>>, <<"table", RootTable>>))
  PROVE  Ordered'
<1> DEFINE root == <<>>
           node == <<"table", RootTable>>
           c == Put(<<>>, node)
           t == Append(root, F)
<1>1. Path(root) /\ Len(root) = 0 /\ \A i : i \notin DOMAIN root
  BY OwnElements DEF Path
<1>2. DOMAIN c = {root} /\ c[root] = node
  BY DEF Put, Empty
<1>3. node[1] = "table" /\ node[2] = RootTable
  BY Pairs
<1>4. RootTable \in DOMAIN Objects /\ Objects[RootTable].struct = FALSE
  BY SchemaAssumption
<1>5. DOMAIN t = {1} /\ t[1] = F
  <2> HIDE DEF root
  <2>1. Len(t) = Len(root) + 1 /\ t[Len(root) + 1] = F /\ Path(t)
    BY <1>1, PathGrows
  <2> HIDE DEF t
  <2>2. Len(t) = 1 /\ t[1] = F /\ DOMAIN t = 1 .. 1
    BY <1>1, <2>1 DEF Path
  <2> QED BY <2>2
<1>6. /\ frames' = t /\ buffer' = c /\ doc' = doc /\ first' = first
      /\ given' = given /\ phase' = phase
  BY DEF Move
<1>7. /\ F.op = "table" /\ F.from = root /\ F.to = root /\ F.type = RootTable
      /\ F.over = <<>> /\ F.todo = FieldItems(RootTable)
  OBVIOUS
<1>8. \A x : Append(root, x) # root
  <2> SUFFICES ASSUME NEW x PROVE Append(root, x) # root
    OBVIOUS
  <2> DEFINE a == Append(root, x)
  <2>1. Len(a) = Len(root) + 1
    BY <1>1, PathGrows
  <2> HIDE DEF a, root
  <2> QED BY <1>1, <2>1 DEF a
<1> HIDE DEF root, c, t
<1>9. Sound(c)
  <2>1. Known(node)
    <3> HIDE DEF node
    <3>1. (node[1] = "struct") = FALSE
      BY <1>3
    <3> QED BY <1>3, <1>4, <3>1 DEF Known
  <2> HIDE DEF node
  <2>2. \A p \in DOMAIN c : Path(p)
    BY <1>1, <1>2
  <2>3. \A i \in 0 .. Len(root) : SubSeq(root, 1, i) \in DOMAIN c
    <3>1. \A i \in 0 .. 0 : i = 0
      OBVIOUS
    <3>2. SubSeq(root, 1, 0) = root
      <4>1. 0 \in 0 .. Len(root)
        BY <1>1
      <4>2. Path(SubSeq(root, 1, 0)) /\ Len(SubSeq(root, 1, 0)) = 0
        BY <1>1, <4>1, PathBegins
      <4>3. \A i : i \notin 1 .. 0
        OBVIOUS
      <4> QED BY <1>1, <4>2, <4>3, PathEqual
    <3> QED BY <1>1, <1>2, <3>1, <3>2
  <2>4. \A x : x \notin KeysAt(c, root)
    BY <1>1, <1>2, <1>8, <2>2, KeysAre
  <2> QED BY <1>1, <1>2, <2>1, <2>3, <2>4 DEF Sound
<1>10. CallFits(doc, first, c, F)
  <2>1. \A x : Append(F.to, x) \notin DOMAIN c
    BY <1>2, <1>7, <1>8
  <2>2. OverFits(first, F.over, RootTable)
    BY <1>7 DEF OverFits
  <2>3. F.to \in DOMAIN c /\ c[F.to] = <<"table", RootTable>> /\ Path(F.from)
    BY <1>1, <1>2, <1>7
  <2>4. c[F.to] = <<IF F.op = "table" THEN "table" ELSE "struct", RootTable>>
    BY <1>7, <2>3
  <2> DEFINE o == RootTable
  <2>5. /\ F.op \in {"table", "struct", "variant"} /\ o \in DOMAIN Objects
        /\ F.type = o /\ F.todo = FieldItems(o) /\ OverFits(first, F.over, o) /\ F.over = <<>>
        /\ c[F.to] = <<IF F.op = "table" THEN "table" ELSE "struct", o>>
    BY <1>4, <1>7, <2>2, <2>4
  <2>6. (F.op = "table" => OverFits(first, F.over, o)) /\ (F.op # "table" => F.over = <<>>)
    BY <2>5
  <2> HIDE DEF o, node
  <2> QED BY ONLY <2>1, <2>3, <2>5, <2>6, FieldsCall
<1>11. Lists(c) = {}
  <2> HIDE DEF node
  <2> QED BY <1>2, <1>3 DEF Lists
<1>12. first # Empty => Reads(first, c, F)
  <2> SUFFICES ASSUME first # Empty
               PROVE  \E p \in Seen(first) : Printed(first, p) = F.from /\ first[p] = c[F.to]
    BY DEF Reads
  <2>1. HasRoot(first)
    BY DEF Ordered
  <2>2. root \in Seen(first) /\ Printed(first, root) = root
    BY <2>1, RootPrinted DEF root
  <2>3. first[root] = node
    BY <2>1 DEF HasRoot, root
  <2> QED BY <1>2, <1>7, <2>2, <2>3
<1>13. Shaped(doc, first, t, c)
  BY <1>5, <1>9, <1>10, <1>11, <1>12 DEF Shaped
<1>14. HasRoot(c)
  BY <1>2 DEF HasRoot, root
<1>15. StringsRanked(c) /\ Elides(c)
  <2> HIDE DEF node
  <2> QED BY <1>2, <1>3, <1>8 DEF StringsRanked, Elides
<1>16. /\ first = Empty => doc = given
       /\ given \in Docs
       /\ first # Empty =>
            /\ doc = Json(first) /\ Sound(first) /\ HasRoot(first)
            /\ StringsRanked(first) /\ Elides(first)
            /\ \A p \in Lists(first) : \E m : Row(first, p, m)
  BY DEF Ordered
<1> QED BY <1>6, <1>13, <1>14, <1>15, <1>16 DEF Ordered

(* from_json begins. *)
LEMMA JsonToBufOrdered == Ordered /\ JsonToBuf => Ordered'
<1> SUFFICES ASSUME Ordered, JsonToBuf PROVE Ordered'
  OBVIOUS
<1>1. CASE \E reason : Refuse(reason)
  BY <1>1, RefuseOrdered
<1>2. CASE ~\E reason : Refuse(reason)
  <2> DEFINE F == Frame("table", <<>>, <<>>, RootTable, 0, <<>>, FieldItems(RootTable))
  <2>1. Move(Append(<<>>, F), Put(<<>>, <<"table", RootTable>>))
    BY <1>2, Zenon DEF JsonToBuf, EnterTable
  <2>2. buffer = Empty
    BY DEF JsonToBuf, Ordered, Nested
  <2>3. Nested'
    BY JsonToBufNested DEF Ordered
  <2>4. /\ F.op = "table" /\ F.from = <<>> /\ F.to = <<>> /\ F.type = RootTable
        /\ F.over = <<>> /\ F.todo = FieldItems(RootTable)
    BY DEF Frame
  <2> HIDE DEF F
  <2> QED BY <2>1, <2>2, <2>3, <2>4, RootOrdered
<1> QED BY <1>1, <1>2

-----------------------------------------------------------------------------
(* The keys, from the first state on. *)

(* No call is in progress once the document is built. *)
LEMMA VerifyOrdered == Ordered /\ Verify => Ordered'
<1> SUFFICES ASSUME Ordered, Verify PROVE Ordered'
  OBVIOUS
<1>1. /\ frames' = frames /\ buffer' = buffer /\ doc' = doc /\ first' = first /\ given' = given
      /\ phase = "built" /\ phase' \in {"verified", "unverified"}
  BY DEF Verify
<1>2. Nested'
  BY NestedNext DEF Ordered, Next
<1> QED BY <1>1, <1>2 DEF Ordered

(* What is printed has its vectors of tables in rows, as they are built.   *)
LEMMA BufToJsonOrdered == Ordered /\ frames = <<>> /\ BufToJson => Ordered'
<1> SUFFICES ASSUME Ordered, frames = <<>>, BufToJson PROVE Ordered'
  OBVIOUS
<1>1. CASE \E reason : Refuse(reason)
  BY <1>1, RefuseOrdered
<1>2. CASE ~\E reason : Refuse(reason)
  <2>1. /\ phase = "verified" /\ first = Empty
        /\ doc' = Json(buffer) /\ first' = buffer /\ buffer' = Empty /\ phase' = "build"
        /\ given' = given /\ frames' = frames
    BY <1>2 DEF BufToJson
  <2>2. Nested'
    BY NestedNext DEF Ordered, Next
  <2>3. HasRoot(buffer) /\ StringsRanked(buffer) /\ Elides(buffer) /\ Sound(buffer)
    BY <2>1 DEF Ordered, Shaped
  <2>4. \A p \in Lists(buffer) : \E m : Row(buffer, p, m)
    BY DEF Ordered, Shaped, Listed
  <2>5. buffer # Empty
    BY <2>3 DEF HasRoot, Empty
  <2> DEFINE none == <<>>
  <2>6. DOMAIN none = {} /\ DOMAIN Empty = {}
    BY DEF Empty
  <2> HIDE DEF none
  <2>7. Shaped(Json(buffer), buffer, none, Empty)
    BY <2>6 DEF Shaped, Sound, Lists
  <2>8. frames' = none
    BY <2>1 DEF none
  <2>9. given \in Docs
    BY DEF Ordered
  <2>10. ~(frames' # <<>> \/ phase' \in {"built", "verified", "unverified"})
    BY <2>1
  <2> QED BY <2>1, <2>2, <2>3, <2>4, <2>5, <2>7, <2>8, <2>9, <2>10 DEF Ordered
<1> QED BY <1>1, <1>2

(* A document that is given has not been printed of anything. *)
LEMMA OrderedInit == Init => Ordered
<1> SUFFICES ASSUME Init PROVE Ordered
  OBVIOUS
<1>1. Nested
  BY NestedInit
<1> DEFINE none == <<>>
<1>2. DOMAIN none = {} /\ DOMAIN Empty = {}
  BY DEF Empty
<1> HIDE DEF none
<1>3. Shaped(doc, Empty, none, Empty) /\ StringsRanked(Empty) /\ Elides(Empty)
  BY <1>2 DEF Shaped, Sound, Lists, StringsRanked, Elides
<1>4. /\ frames = none /\ buffer = Empty /\ first = Empty /\ phase = "build" /\ frames = <<>>
      /\ doc = given /\ given \in Docs
  BY DEF Init, none
<1> QED BY <1>1, <1>3, <1>4 DEF Ordered

(* Every step keeps the keys in order. *)
LEMMA OrderedNext == Ordered /\ TypeOK /\ [Next]_vars => Ordered'
<1> SUFFICES ASSUME Ordered, TypeOK, [Next]_vars PROVE Ordered'
  OBVIOUS
<1>1. CASE BuildStep
  BY <1>1, BuildAbsentOrdered, BuildScalarOrdered, BuildStringOrdered, BuildTableOrdered,
     BuildStructOrdered, BuildBytesOrdered, BuildVectorOrdered, BuildKeyedOrdered, BuildArrayOrdered,
     BuildUnionOrdered, ReturnOrdered, JsonToBufOrdered DEF BuildStep
<1>2. CASE Verify
  BY <1>2, VerifyOrdered
<1>3. CASE BufToJson
  <2>1. frames = <<>>
    BY <1>3 DEF TypeOK, BufToJson
  <2> QED BY <1>3, <2>1, BufToJsonOrdered
<1>4. CASE UNCHANGED vars
  <2>1. /\ frames' = frames /\ buffer' = buffer /\ doc' = doc /\ first' = first /\ given' = given
        /\ phase' = phase
    BY <1>4 DEF vars
  <2>2. Nested'
    BY NestedNext DEF Ordered
  <2> QED BY <2>1, <2>2 DEF Ordered
<1> QED BY <1>1, <1>2, <1>3, <1>4 DEF Next

(* Once no call is in progress, every element has the key of its rank.     *)
LEMMA KeysOrdered == Ordered /\ TypeOK => RebuiltInKeyOrder
<1> SUFFICES ASSUME Ordered, TypeOK, first # Empty, phase \in {"built", "verified", "unverified"},
                    NEW p \in DOMAIN buffer, IsKeyed(buffer, p),
                    NEW i \in 2 .. Cardinality(KeysAt(buffer, p))
             PROVE  KeyRank(buffer, Append(p, Position[i - 1])) < KeyRank(buffer, Append(p, Position[i]))
  BY DEF RebuiltInKeyOrder, Rebuilt, KeysIncrease
<1> DEFINE none == <<>>
           o == buffer[p][2].of
<1>1. frames = none /\ DOMAIN none = {}
  BY DEF TypeOK
<1>2. p \in Lists(buffer) /\ KeyField(o) # NoKey
  BY DEF IsKeyed, Lists, Node
<1> HIDE DEF none, o
<1>3. Listed(first, frames, buffer, p)
  BY <1>2 DEF Ordered, Shaped
<1>4. PICK m, n, r :
        /\ m \in 0 .. Len(Position) /\ n \in 0 .. Len(Position)
        /\ m <= n /\ Row(buffer, p, m) /\ InOrder(frames, buffer, p, m, n, r)
  BY <1>2, <1>3 DEF Listed, o
<1>5. /\ \A j \in 1 .. n : r[j] \in Int
      /\ \A j, k \in 1 .. n : j < k => r[j] < r[k]
      /\ \A j \in 1 .. m : HasKey(frames, buffer, Append(p, Position[j]), o, r[j])
  BY <1>4 DEF InOrder, o
<1>6. \A j \in 1 .. m : KeyRank(buffer, Append(p, Position[j])) = r[j]
  BY <1>1, <1>5 DEF HasKey
<1>7. m \in Nat /\ Cardinality(KeysAt(buffer, p)) = m
  BY <1>4, RowCounts
<1>8. Len(Position) \in Nat
  BY PositionAssumption
<1>9. i - 1 \in 1 .. m /\ i \in 1 .. m /\ i - 1 \in 1 .. n /\ i \in 1 .. n /\ i - 1 < i
  BY <1>4, <1>7, <1>8
<1> QED BY <1>5, <1>6, <1>9

(* RebuiltInKeyOrder: whatever has been printed, what from_json builds of  *)
(* it has the keys of every keyed vector in strict order.                  *)
THEOREM KeysRebuiltInOrder == Spec => []RebuiltInKeyOrder
<1>1. Init => Ordered
  BY OrderedInit
<1>2. Ordered /\ TypeOK /\ [Next]_vars => Ordered'
  BY OrderedNext
<1>3. Ordered /\ TypeOK => RebuiltInKeyOrder
  BY KeysOrdered
<1> QED BY <1>1, <1>2, <1>3, TypeCorrect, PTL DEF Spec
=============================================================================
