------------------------ MODULE JsonRoundTrip_proofs ------------------------
(***************************************************************************)
(* from_json, to_json, and from_json once more: what is built of a printed *)
(* buffer is that buffer. First, every node that from_json makes is one    *)
(* that is printed as what from_json reads of it (Made). Then, what is     *)
(* printed of such a buffer, and where (BelowAt). Last, the second         *)
(* building copies the first buffer, node by node (Copies): what it has    *)
(* built is in that buffer, and what is in that buffer it has built, or    *)
(* has it among the items of a call in progress.                           *)
(***************************************************************************)
EXTENDS JsonKeys_proofs

(* What is printed of a stored scalar is refused, or read as that scalar.  *)
Reprints(kind, s) ==
  LET again == Decode(kind, Shown(kind, s)) IN IsBad(again) \/ again = s

-----------------------------------------------------------------------------
(* Scalars. *)

(* InRange gives the number back, or refuses it.                           *)
LEMMA InRangeIs ==
  ASSUME NEW kind, NEW n
  PROVE  /\ ~IsBad(InRange(kind, n)) => InRange(kind, n) = <<"int", n>> /\ n \in kind.lo .. kind.hi
         /\ n \in kind.lo .. kind.hi => InRange(kind, n) = <<"int", n>>
         /\ ~IsBad(<<"int", n>>) /\ \A reason : IsBad(Bad(reason))
<1>1. \A reason : IsBad(Bad(reason))
  BY Pairs DEF IsBad, Bad
<1>2. ~IsBad(<<"int", n>>)
  BY DEF IsBad
<1>3. CASE n \in kind.lo .. kind.hi
  <2>1. InRange(kind, n) = <<"int", n>>
    BY <1>3, Zenon DEF InRange
  <2> QED BY <1>1, <1>2, <1>3, <2>1, Zenon
<1>4. CASE n \notin kind.lo .. kind.hi
  <2>1. InRange(kind, n) = Bad("range")
    BY <1>4, Zenon DEF InRange
  <2>2. IsBad(Bad("range"))
    BY <1>1
  <2>3. IsBad(InRange(kind, n))
    BY <2>1, <2>2
  <2> QED BY <1>1, <1>2, <1>4, <2>3, Zenon
<1> QED BY <1>3, <1>4

(* A value that an enum has decoded. *)
LEMMA EnumReprints ==
  ASSUME NEW kind, NEW json, kind.names # <<>>, ~IsBad(Decode(kind, json))
  PROVE  Reprints(kind, Decode(kind, json))
<1>1. Decode(kind, json) = DecodeEnum(kind, json)
  BY DEF Decode
<1>2. PICK n : DecodeEnum(kind, json) = <<"int", n>> /\ n \in kind.lo .. kind.hi
  <2>1. CASE json[1] = "string"
    <3>1. DecodeEnum(kind, json) = InRange(kind, kind.names[json[2]])
      BY <1>1, <2>1, InRangeIs DEF DecodeEnum
    <3> QED BY <1>1, <3>1, InRangeIs
  <2>2. CASE json[1] # "string"
    <3>1. DecodeEnum(kind, json) = InRange(kind, json[2])
      BY <1>1, <2>2, InRangeIs DEF DecodeEnum
    <3> QED BY <1>1, <3>1, InRangeIs
  <2> QED BY <2>1, <2>2
<1> DEFINE s == <<"int", n>>
           named == {name \in DOMAIN kind.names : kind.names[name] = s[2]}
<1>3. s[1] = "int" /\ s[2] = n
  OBVIOUS
<1>4. CASE named # {}
  <2>1. PICK v \in named : Shown(kind, s) = <<"string", v>>
    BY <1>4 DEF Shown
  <2>2. v \in DOMAIN kind.names /\ kind.names[v] = n
    BY <1>3, <2>1
  <2>3. Decode(kind, <<"string", v>>) = InRange(kind, n)
    BY <2>2 DEF Decode, DecodeEnum
  <2> QED BY <1>1, <1>2, <2>1, <2>3, InRangeIs DEF Reprints
<1>5. CASE named = {}
  <2>1. Shown(kind, s) = s
    BY <1>5 DEF Shown
  <2>2. Decode(kind, s) = IF IsI64(s) THEN InRange(kind, n) ELSE Bad("type")
    BY <1>3 DEF Decode, DecodeEnum
  <2> QED BY <1>1, <1>2, <2>1, <2>2, InRangeIs DEF Reprints
<1> QED BY <1>4, <1>5

(* A value of a kind without names is printed as it is. *)
LEMMA PlainShown ==
  ASSUME NEW kind, kind.names = <<>>, NEW s
  PROVE  Shown(kind, s) = s
BY DEF Shown

(* Signed numbers, narrow or wide. *)
LEMMA SignedReprints ==
  ASSUME NEW kind, NEW json, kind.names = <<>>, kind.sort = "signed", ~IsBad(Decode(kind, json))
  PROVE  Reprints(kind, Decode(kind, json))
<1>1. \A x : Decode(kind, x) = DecodeSigned(kind, x)
  BY DEF Decode
<1>2. PICK n : DecodeSigned(kind, json) = <<"int", n>> /\ n \in kind.lo .. kind.hi /\ n \in -Wide .. Wide - 1
  <2>1. CASE IsI64(json)
    BY <1>1, <2>1, InRangeIs DEF DecodeSigned, IsI64
  <2>2. CASE ~IsI64(json)
    <3> DEFINE h == AsF64(json) \div 2
    <3>1. /\ DecodeSigned(kind, json) = InRange(kind, Saturated(h))
          /\ h \in AsFloat(kind.lo) .. AsFloat(kind.hi)
      BY <1>1, <2>2, InRangeIs DEF DecodeSigned
    <3>2. h \in Int /\ Wide \in Nat \ {0, 1}
      BY <3>1, KindsAssumption
    <3> HIDE DEF h
    <3>3. Saturated(h) \in -Wide .. Wide - 1
      BY <3>2 DEF Saturated
    <3> QED BY <1>1, <3>1, <3>3, InRangeIs
  <2> QED BY <2>1, <2>2
<1>3. DecodeSigned(kind, <<"int", n>>) = <<"int", n>>
  BY <1>2, InRangeIs DEF DecodeSigned, IsI64
<1> QED BY <1>1, <1>2, <1>3, PlainShown DEF Reprints

(* Unsigned numbers, narrow or wide. *)
LEMMA UnsignedReprints ==
  ASSUME NEW kind, NEW json, kind.names = <<>>, kind.sort = "unsigned", ~IsBad(Decode(kind, json))
  PROVE  Reprints(kind, Decode(kind, json))
<1>1. \A x : Decode(kind, x) = DecodeUnsigned(kind, x)
  BY DEF Decode
<1>2. PICK n : DecodeUnsigned(kind, json) = <<"int", n>> /\ n \in kind.lo .. kind.hi /\ n >= 0
  BY <1>1, InRangeIs DEF DecodeUnsigned
<1>3. DecodeUnsigned(kind, <<"int", n>>) = <<"int", n>>
  BY <1>2, InRangeIs DEF DecodeUnsigned
<1> QED BY <1>1, <1>2, <1>3, PlainShown DEF Reprints

(* Booleans, and floats. *)
LEMMA OtherReprints ==
  ASSUME NEW kind, NEW json, kind.names = <<>>, kind.sort \notin {"signed", "unsigned"},
         Decode(kind, json)[1] \notin {"bad", "inf"}
  PROVE  Reprints(kind, Decode(kind, json))
<1>1. CASE kind.sort = "bool"
  <2>1. \A x : Decode(kind, x) = DecodeBool(x)
    BY <1>1 DEF Decode
  <2>2. json[1] = "bool" /\ DecodeBool(json) = json
    BY <2>1 DEF DecodeBool, Bad
  <2> QED BY <2>1, <2>2, PlainShown DEF Reprints
<1>2. CASE kind.sort # "bool"
  <2>1. \A x : Decode(kind, x) = DecodeFloat(kind, x)
    BY <1>2 DEF Decode
  <2>2. PICK h : DecodeFloat(kind, json) = <<"real", h>> /\ h \in -2 * kind.hi .. 2 * kind.hi
    BY <2>1 DEF DecodeFloat, Bad
  <2>3. DecodeFloat(kind, <<"real", h>>) = <<"real", h>>
    BY <2>2 DEF DecodeFloat, IsNumber, AsF64
  <2> QED BY <2>1, <2>2, <2>3, PlainShown DEF Reprints
<1> QED BY <1>1, <1>2

(* Whatever was decoded, other than an infinity, is printed so that it is  *)
(* read as the same value or refused.                                      *)
LEMMA ScalarsReprint ==
  ASSUME NEW kind, NEW json, Decode(kind, json)[1] \notin {"bad", "inf"}
  PROVE  Reprints(kind, Decode(kind, json))
<1>1. ~IsBad(Decode(kind, json))
  BY DEF IsBad
<1> QED BY <1>1, EnumReprints, SignedReprints, UnsignedReprints, OtherReprints

-----------------------------------------------------------------------------
(* Buffers as from_json makes them. *)

(* T is the type of what is at x in the node at p. *)
TypeAt(b, p, x, T) ==
  \/ b[p][1] \in {"vector", "array"} /\ T = ElementType(b[p])
  \/ /\ b[p][1] \in {"table", "struct"} /\ x \in DOMAIN Objects[b[p][2]].type
     /\ LET t == Objects[b[p][2]].type[x]
        IN \/ t.base # "union" /\ T = t
           \/ /\ t.base = "union"
              /\ \E v \in DOMAIN Variants[t.of] : Told(b, p, t.disc, v) /\ T = Variants[t.of][v]

(* The kind of a scalar in a node of this sort. *)
KindIn(parent, T) ==
  IF parent = "vector" THEN VectorElement(Kinds[T.of])
  ELSE IF parent = "array" THEN ArrayElement(Kinds[T.of])
  ELSE Kinds[T.of]

(* A node as it is stored. A scalar is a value of its kind, in a table     *)
(* never the default; bytes can be encoded; of NONE there is nothing.      *)
BuiltAs(parent, node, T) ==
  /\ T.base \in Bases
  /\ T.base \in {"scalar", "disc"} =>
       /\ node = <<"scalar", KindIn(parent, T), node[3]>>
       /\ node[3][1] \in {"bool", "int", "real", "inf"}
       /\ node[3][1] # "inf" => Reprints(node[2], node[3])
       /\ parent = "table" => node[3] # T.default
  /\ T.base = "bytes" => node = <<"bytes", T.of, node[3]>> /\ node[3] \in DOMAIN Codecs[T.of].encode

Made(b) ==
  /\ IsFiniteSet(DOMAIN b)
  /\ \A p \in DOMAIN b : \A x \in KeysAt(b, p) : \A T :
       TypeAt(b, p, x, T) => BuiltAs(b[p][1], b[Append(p, x)], T)

(* A discriminator names one variant. *)
LEMMA ToldOnce ==
  ASSUME NEW o \in DOMAIN Objects, NEW u \in DOMAIN Objects[o].type, Objects[o].type[u].base = "union",
         NEW b, NEW p, b[p][2] = o
  PROVE  LET t == Objects[o].type[u]
         IN \A v, w \in DOMAIN Variants[t.of] : Told(b, p, t.disc, v) /\ Told(b, p, t.disc, w) => v = w
<1> DEFINE t == Objects[o].type[u]
           names == Kinds[Objects[o].type[t.disc].of].names
           node == b[Append(p, t.disc)]
<1>1. Discriminated(o, t)
  BY FieldTypes
<1>2. /\ DOMAIN Variants[t.of] \subseteq DOMAIN names
      /\ \A x, y \in DOMAIN names : names[x] = names[y] => x = y
  BY <1>1, Zenon DEF Discriminated
<1>3. ASSUME NEW v \in DOMAIN Variants[t.of], NEW w \in DOMAIN Variants[t.of],
             Told(b, p, t.disc, v), Told(b, p, t.disc, w)
      PROVE  v = w
  <2>1. node = <<"scalar", Kinds[Objects[o].type[t.disc].of], <<"int", names[v]>>>>
    BY <1>3, Zenon DEF Told
  <2>2. node = <<"scalar", Kinds[Objects[o].type[t.disc].of], <<"int", names[w]>>>>
    BY <1>3, Zenon DEF Told
  <2> HIDE DEF node, names, t
  <2>3. node[3] = <<"int", names[v]>> /\ node[3] = <<"int", names[w]>>
    BY <2>1, <2>2
  <2>4. names[v] = names[w]
    BY <2>3, Pairs
  <2> QED BY <1>2, <1>3, <2>4
<1> QED BY <1>3, Zenon

(* What is at a place has one type, and is of that type. *)
LEMMA TypesFit ==
  ASSUME NEW b, Sound(b), NEW p, Path(p), NEW x, Append(p, x) \in DOMAIN b,
         NEW T, TypeAt(b, p, x, T)
  PROVE  Fits(b[Append(p, x)], T) /\ \A U : TypeAt(b, p, x, U) => U = T
<1>1. p \in DOMAIN b /\ ChildFits(b, p, x) /\ Known(b[p])
  BY SoundPaths
<1>2. CASE b[p][1] \in {"vector", "array"}
  BY <1>1, <1>2 DEF ChildFits, TypeAt
<1>3. CASE b[p][1] \notin {"vector", "array"}
  <2> DEFINE o == b[p][2]
             t == Objects[o].type[x]
  <2>1. b[p][1] \in {"table", "struct"} /\ o \in DOMAIN Objects /\ x \in DOMAIN Objects[o].type
    BY <1>1, <1>3, Zenon DEF ChildFits, Known
  <2>2. CASE t.base # "union"
    BY <1>1, <1>3, <2>2, Zenon DEF ChildFits, TypeAt
  <2>3. CASE t.base = "union"
    <3>1. PICK v \in DOMAIN Variants[t.of] : Told(b, p, t.disc, v) /\ T = Variants[t.of][v]
      BY <1>3, <2>3, Zenon DEF TypeAt
    <3>2. PICK w \in DOMAIN Variants[t.of] : Told(b, p, t.disc, w) /\ Fits(b[Append(p, x)], Variants[t.of][w])
      BY <1>1, <1>3, <2>3, Zenon DEF ChildFits
    <3>3. \A y \in DOMAIN Variants[t.of] : Told(b, p, t.disc, y) => y = v
      <4>1. \A y, z \in DOMAIN Variants[t.of] : Told(b, p, t.disc, y) /\ Told(b, p, t.disc, z) => y = z
        BY <2>1, <2>3, ToldOnce, Zenon
      <4> QED BY <3>1, <4>1, Zenon
    <3>4. w = v
      BY <3>2, <3>3
    <3>5. ASSUME NEW U, TypeAt(b, p, x, U)
          PROVE  U = T
      <4>1. PICK y \in DOMAIN Variants[t.of] : Told(b, p, t.disc, y) /\ U = Variants[t.of][y]
        BY <1>3, <2>3, <3>5, Zenon DEF TypeAt
      <4> QED BY <3>1, <3>3, <4>1
    <3> HIDE DEF t
    <3> QED BY <3>1, <3>2, <3>4, <3>5
  <2> QED BY <2>2, <2>3
<1> QED BY <1>2, <1>3

(* What has a place has a type. *)
LEMMA TypesExist ==
  ASSUME NEW b, Sound(b), NEW p, Path(p), NEW x, Append(p, x) \in DOMAIN b
  PROVE  \E T : TypeAt(b, p, x, T)
<1>1. ChildFits(b, p, x)
  BY SoundPaths
<1> QED BY <1>1, Zenon DEF ChildFits, TypeAt

(* A node that is put into a buffer leaves the types of others alone.      *)
LEMMA MadeGrows ==
  ASSUME NEW b, Sound(b), Made(b), NEW p \in DOMAIN b, NEW x, NEW node, NEW c, Sound(c),
         c = With(b, Append(p, x), node),
         Append(p, x) \in DOMAIN b => b[Append(p, x)][1] = "scalar",
         \A u : /\ Append(p, u) \in DOMAIN b /\ b[p][1] = "table"
                /\ u \in DOMAIN Objects[b[p][2]].type /\ Objects[b[p][2]].type[u].base = "union"
                /\ Objects[b[p][2]].type[u].disc = x
                => Append(p, x) \in DOMAIN b /\ node = b[Append(p, x)],
         \A T : TypeAt(c, p, x, T) => BuiltAs(c[p][1], node, T)
  PROVE  Made(c)
<1> DEFINE q == Append(p, x)
<1>1. /\ DOMAIN c = DOMAIN b \cup {q} /\ c[q] = node
      /\ \A r \in DOMAIN b : r # q => c[r] = b[r]
  BY DEF With
<1>2. \A r \in DOMAIN b : Path(r) /\ Known(b[r])
  BY SoundPaths
<1>3. \A r \in DOMAIN c : Path(r)
  BY SoundPaths
<1>4. IsFiniteSet(DOMAIN c)
  BY <1>1, FS_AddElement DEF Made
<1>5. ASSUME NEW r \in DOMAIN c, NEW y \in KeysAt(c, r), NEW T, TypeAt(c, r, y, T)
      PROVE  BuiltAs(c[r][1], c[Append(r, y)], T)
  <2>1. Append(r, y) \in DOMAIN c /\ Path(r)
    BY <1>3, <1>5, SoundPaths
  <2>2. CASE Append(r, y) = q
    <3>1. r = p /\ y = x
      BY <1>2, <2>1, <2>2, StepsEqual
    <3> QED BY <1>1, <1>5, <3>1
  <2>3. CASE Append(r, y) # q
    <3>1. Append(r, y) \in DOMAIN b /\ c[Append(r, y)] = b[Append(r, y)]
      BY <1>1, <2>1, <2>3
    <3>2. r \in DOMAIN b /\ ChildFits(b, r, y) /\ y \in KeysAt(b, r)
      BY <2>1, <3>1, SoundPaths
    <3>3. r # q
      <4>1. b[r][1] # "scalar"
        BY <3>2 DEF ChildFits
      <4> QED BY <3>2, <4>1
    <3>4. c[r] = b[r]
      BY <1>1, <3>2, <3>3
    <3>5. TypeAt(b, r, y, T)
      <4> DEFINE t == Objects[b[r][2]].type[y]
      <4>1. CASE b[r][1] \in {"table", "struct"} /\ y \in DOMAIN Objects[b[r][2]].type /\ t.base = "union"
        <5>0. b[r][1] \notin {"vector", "array"}
          BY <4>1
        <5>1. PICK v \in DOMAIN Variants[t.of] : Told(c, r, t.disc, v) /\ T = Variants[t.of][v]
          BY <1>5, <3>4, <4>1, <5>0, Zenon DEF TypeAt
        <5>2. PICK w \in DOMAIN Variants[t.of] : Told(b, r, t.disc, w)
          BY <3>2, <4>1, <5>0, Zenon DEF ChildFits
        <5>3. Append(r, t.disc) \in DOMAIN b
          BY <5>2 DEF Told
        <5>4. c[Append(r, t.disc)] = b[Append(r, t.disc)]
          <6>1. CASE Append(r, t.disc) # q
            BY <1>1, <5>3, <6>1
          <6>2. CASE Append(r, t.disc) = q
            <7>1. r = p /\ t.disc = x
              BY <1>2, <2>1, <6>2, StepsEqual
            <7>2. b[r][1] = "table"
              <8>1. b[r][2] \in DOMAIN Objects /\ Objects[b[r][2]].struct = (b[r][1] = "struct")
                BY <1>2, <3>2, <4>1, Zenon DEF Known
              <8>2. Objects[b[r][2]].struct => t.base # "union"
                BY <4>1, <8>1, FieldTypes
              <8> QED BY <4>1, <8>1, <8>2
            <7> QED BY <1>1, <3>1, <4>1, <6>2, <7>1, <7>2
          <6> QED BY <6>1, <6>2
        <5>5. Told(b, r, t.disc, v)
          <6> HIDE DEF t
          <6> QED BY <3>4, <5>1, <5>3, <5>4, Zenon DEF Told
        <5> QED BY <4>1, <5>1, <5>5, Zenon DEF TypeAt
      <4>2. CASE ~(b[r][1] \in {"table", "struct"} /\ y \in DOMAIN Objects[b[r][2]].type /\ t.base = "union")
        BY <1>5, <3>4, <4>2, Zenon DEF TypeAt
      <4> QED BY <4>1, <4>2
    <3>6. BuiltAs(b[r][1], b[Append(r, y)], T)
      BY <3>2, <3>5 DEF Made
    <3> QED BY <3>1, <3>4, <3>6
  <2> QED BY <2>2, <2>3
<1> QED BY <1>4, <1>5 DEF Made

(* A union that is there has a variant that the document has chosen. *)
LEMMA UnionChosen ==
  ASSUME NEW d, NEW was, NEW b, NEW F, CallFits(d, was, b, F), F.op = "table",
         NEW u \in DOMAIN Objects[F.type].type, Objects[F.type].type[u].base = "union",
         Append(F.to, u) \in DOMAIN b
  PROVE  \E v : Chosen(d, b, F, Objects[F.type].type[u], v)
BY DEF CallFits

(* The type due is the one of its place in the buffer. *)
LEMMA DueTyped ==
  ASSUME Ordered, Building, Type.base # "union",
         NEW c, Sound(c), To \in DOMAIN c, c[Top.to] = buffer[Top.to],
         NEW F, CallFits(doc, first, c, F),
         F.op = Top.op, F.from = Top.from, F.to = Top.to, F.type = Top.type
  PROVE  TypeAt(c, Top.to, Due.slot, Type) /\ \A T : TypeAt(c, Top.to, Due.slot, T) => T = Type
<1>1. Path(Top.to) /\ To = Append(Top.to, Due.slot) /\ Append(Top.to, Due.slot) \in DOMAIN c
  BY DueIs DEF Ordered
<1>2. TypeAt(c, Top.to, Due.slot, Type)
  <2>1. CASE Top.op \in {"vector", "array"}
    <3>1. buffer[Top.to][1] = Top.op /\ Type = ElementType(buffer[Top.to])
      BY <2>1, DueTypes
    <3>2. c[Top.to][1] \in {"vector", "array"} /\ Type = ElementType(c[Top.to])
      BY <2>1, <3>1
    <3> QED BY <3>2, Zenon DEF TypeAt
  <2>2. CASE Top.op \notin {"vector", "array"}
    <3> DEFINE t == Objects[Top.type].type[Due.key]
    <3>1. /\ Due.key \in DOMAIN Objects[Top.type].type /\ Due.slot = Due.key
          /\ \/ Type = t
             \/ /\ Top.op = "table" /\ t.base = "union"
                /\ \E v : Chosen(doc, buffer, Top, t, v) /\ Type = Variants[t.of][v]
      BY <2>2, DueTypes, Zenon
    <3>2. c[Top.to][1] \in {"table", "struct"} /\ c[Top.to][2] = Top.type
      BY <2>2, OpIs DEF Ops
    <3>3. CASE Type = t
      BY <3>1, <3>2, <3>3, Zenon DEF TypeAt
    <3>4. ASSUME Top.op = "table", t.base = "union",
                 NEW v, Chosen(doc, buffer, Top, t, v), Type = Variants[t.of][v]
          PROVE  TypeAt(c, Top.to, Due.slot, Type)
      <4>0. Due.key \in DOMAIN Objects[Top.type].type /\ Due.slot = Due.key
        BY <3>1, Zenon
      <4>1. PICK w : Chosen(doc, c, F, t, w)
        <5>1. F.op = "table" /\ Due.key \in DOMAIN Objects[F.type].type /\ Append(F.to, Due.key) \in DOMAIN c
          BY <1>1, <3>4, <4>0
        <5>2. t = Objects[F.type].type[Due.key] /\ Objects[F.type].type[Due.key].base = "union"
          BY <3>4
        <5>3. \E w : Chosen(doc, c, F, Objects[F.type].type[Due.key], w)
          BY <5>1, <5>2, UnionChosen
        <5> HIDE DEF t
        <5> QED BY <5>2, <5>3
      <4>4. t = Objects[c[Top.to][2]].type[Due.slot] /\ Due.slot \in DOMAIN Objects[c[Top.to][2]].type
        BY <3>2, <4>0
      <4> HIDE DEF t
      <4>2. w = v
        <5>1. Says(Node(doc, Append(Top.from, t.disc)), v) /\ Says(Node(doc, Append(Top.from, t.disc)), w)
          BY <3>4, <4>1 DEF Chosen
        <5> QED BY <5>1 DEF Says
      <4>3. v \in DOMAIN Variants[t.of] /\ Told(c, Top.to, t.disc, v)
        BY <4>1, <4>2 DEF Chosen
      <4> QED BY <3>2, <3>4, <4>3, <4>4, Zenon DEF TypeAt
    <3> QED BY <3>1, <3>3, <3>4, Zenon
  <2> QED BY <2>1, <2>2
<1> QED BY <1>1, <1>2, TypesFit

(* A node is put where it is due. *)
LEMMA PutMade ==
  ASSUME Ordered, Made(buffer), Building, Type.base # "union", NEW node, NEW c, c = Put(To, node), Sound(c),
         CallFits(doc, first, c, Rest[Len(frames)]), BuiltAs(buffer[Top.to][1], node, Type)
  PROVE  Made(c)
<1> DEFINE p == Top.to
           x == Due.slot
           F == Rest[Len(frames)]
<1>1. /\ Path(p) /\ To = Append(p, x) /\ p \in DOMAIN buffer /\ p # To
      /\ F.op = Top.op /\ F.from = Top.from /\ F.to = p /\ F.type = Top.type
  BY DueIs, DueFits, RestIs, ToIsFree DEF Ordered
<1>2. /\ c = With(buffer, Append(p, x), node) /\ c[p] = buffer[p] /\ c[To] = node /\ To \in DOMAIN c
      /\ \A r \in DOMAIN buffer : r \in DOMAIN c /\ (r # To => c[r] = buffer[r])
  <2>1. c = With(buffer, To, node)
    BY DEF With, Put
  <2>2. DOMAIN c = DOMAIN buffer \cup {To} /\ c[To] = node /\ \A r \in DOMAIN buffer : r # To => c[r] = buffer[r]
    BY DEF Put
  <2> HIDE DEF p, x
  <2> QED BY <1>1, <2>1, <2>2
<1>3. To \in DOMAIN buffer => buffer[To][1] = "scalar"
  BY DiscDue
<1>4. ASSUME NEW u, Append(p, u) \in DOMAIN buffer, buffer[p][1] = "table",
             u \in DOMAIN Objects[buffer[p][2]].type, Objects[buffer[p][2]].type[u].base = "union",
             Objects[buffer[p][2]].type[u].disc = x
      PROVE  To \in DOMAIN buffer /\ node = buffer[To]
  <2> DEFINE t == Objects[Top.type].type[u]
             kind == Kinds[Objects[Top.type].type[x].of]
  <2>1. CallFits(doc, first, buffer, Top)
    BY DueFits
  <2>2. Top.op = "table" /\ buffer[p][2] = Top.type /\ c[p][2] = Top.type
    BY <1>2, <1>4, <2>1, OpIs DEF Ops
  <2>3. PICK v : Chosen(doc, buffer, Top, t, v)
    BY <1>4, <2>1, <2>2 DEF CallFits
  <2>4. PICK w : Chosen(doc, c, F, t, w)
    BY <1>1, <1>2, <1>4, <2>2 DEF CallFits
  <2>5. w = v
    BY <1>1, <2>3, <2>4 DEF Chosen, Says
  <2>6. t.disc = x
    BY <1>4, <2>2
  <2>7. Told(buffer, p, x, v) /\ Told(c, p, x, v)
    <3> HIDE DEF F, t
    <3> QED BY <1>1, <2>3, <2>4, <2>5, <2>6 DEF Chosen
  <2> DEFINE told == <<"scalar", kind, <<"int", kind.names[v]>>>>
  <2>8. To \in DOMAIN buffer /\ buffer[To] = told /\ c[To] = told
    <3>1. /\ Append(p, x) \in DOMAIN buffer /\ buffer[Append(p, x)] = told /\ c[Append(p, x)] = told
      BY <2>2, <2>7, Zenon DEF Told
    <3> HIDE DEF told, F
    <3> QED BY <1>1, <3>1
  <2> HIDE DEF told
  <2> QED BY <1>2, <2>8
<1>5. \A T : TypeAt(c, p, x, T) => BuiltAs(c[p][1], node, T)
  <2>1. \A T : TypeAt(c, p, x, T) => T = Type
    BY <1>1, <1>2, DueTyped
  <2> QED BY <1>2, <2>1
<1> HIDE DEF p, x, F
<1> QED BY <1>1, <1>2, <1>3, <1>4, <1>5, MadeGrows DEF Ordered, Shaped

-----------------------------------------------------------------------------
(* Each step of from_json makes such a buffer. *)

(* An empty buffer is one. *)
LEMMA EmptyMade == Made(Empty)
<1>1. DOMAIN Empty = {}
  BY DEF Empty
<1> QED BY <1>1, FS_EmptySet DEF Made

(* The call in progress is where it was, when it has made another one. *)
LEMMA StackedCall ==
  ASSUME Ordered, Building, NEW F
  PROVE  LET n == Len(frames)
         IN /\ n \in DOMAIN frames /\ Rest[n] = Append(Rest, F)[n]
            /\ n \in DOMAIN Rest /\ n \in DOMAIN Append(Rest, F)
<1> DEFINE n == Len(frames)
           t == Append(Rest, F)
<1>1. Path(Rest)
  BY RestNested DEF Ordered, Grown
<1>2. n \in Nat /\ DOMAIN frames = 1 .. n /\ n \in DOMAIN frames
  BY DueIs DEF Ordered
<1>3. Len(Rest) = n /\ DOMAIN Rest = DOMAIN frames
  BY RestIs DEF Ordered
<1> HIDE DEF n
<1>4. (\A i \in 1 .. n : t[i] = Rest[i]) /\ Len(t) = n + 1 /\ Path(t)
  BY <1>1, <1>3, PathGrows
<1> HIDE DEF t
<1>5. DOMAIN t = 1 .. (n + 1)
  BY <1>4, PathGrows
<1>6. n \in 1 .. n /\ n \in 1 .. (n + 1)
  BY <1>2
<1>7. n \in DOMAIN frames /\ Rest[n] = t[n] /\ n \in DOMAIN Rest /\ n \in DOMAIN t
  BY <1>2, <1>3, <1>4, <1>5, <1>6
<1> QED BY <1>7 DEF n, t

(* A step with a node where it is due. *)
LEMMA StepPut ==
  ASSUME Ordered, Ordered', Building, NEW node, NEW s, Move(s, Put(To, node)),
         s = Rest \/ \E F : s = Append(Rest, F)
  PROVE  /\ Sound(Put(To, node)) /\ CallFits(doc, first, Put(To, node), Rest[Len(frames)])
         /\ buffer' = Put(To, node)
<1> DEFINE n == Len(frames)
           c == Put(To, node)
<1>1. n \in DOMAIN s /\ s[n] = Rest[n]
  BY StackedCall
<1>2. frames' = s /\ buffer' = c /\ doc' = doc /\ first' = first
  BY DEF Move
<1> HIDE DEF c, n
<1>3. Sound(c) /\ \A i \in DOMAIN s : CallFits(doc, first, c, s[i])
  BY <1>2 DEF Ordered, Shaped
<1> QED BY <1>1, <1>2, <1>3 DEF c, n

(* A node is put where it is due, of the type that is due. *)
LEMMA StepMade ==
  ASSUME Ordered, Ordered', Made(buffer), Building, Type.base # "union", NEW node, NEW s, Move(s, Put(To, node)),
         s = Rest \/ \E F : s = Append(Rest, F), BuiltAs(buffer[Top.to][1], node, Type)
  PROVE  Made(buffer')
<1> DEFINE c == Put(To, node)
<1>1. Sound(c) /\ CallFits(doc, first, c, Rest[Len(frames)]) /\ buffer' = c
  BY StepPut
<1>2. Made(c)
  <2> HIDE DEF c
  <2> QED BY <1>1, PutMade DEF c
<1> QED BY <1>1, <1>2

(* What is built of scalars and bytes is as they are stored. *)
LEMMA OthersBuilt ==
  ASSUME NEW parent, NEW node, NEW T, T.base \in Bases \ {"scalar", "disc", "bytes"}
  PROVE  BuiltAs(parent, node, T)
BY DEF BuiltAs

(* The kind of a scalar is the one that it has in the call in progress. *)
LEMMA KindDue ==
  ASSUME Ordered, Building
  PROVE  ScalarKind = KindIn(buffer[Top.to][1], Type) /\ (buffer[Top.to][1] = "table" <=> Top.op = "table")
<1>1. CallFits(doc, first, buffer, Top)
  BY DueFits
<1>2. /\ Top.op \in Ops
      /\ Top.op = "table" => buffer[Top.to][1] = "table"
      /\ Top.op \in {"struct", "variant"} => buffer[Top.to][1] = "struct"
      /\ Top.op \in {"vector", "array"} => buffer[Top.to][1] = Top.op
  BY <1>1, OpIs
<1>3. buffer[Top.to][1] = "table" <=> Top.op = "table"
  BY <1>2 DEF Ops
<1>4. CASE Top.op = "vector"
  BY <1>2, <1>4, Zenon DEF ScalarKind, KindIn
<1>5. CASE Top.op = "array"
  <2>1. buffer[Top.to][1] = "array" /\ buffer[Top.to][1] # "vector" /\ Top.op # "vector"
    BY <1>2, <1>5
  <2>2. ScalarKind = ArrayElement(Kinds[Type.of])
    BY <1>5 DEF ScalarKind
  <2>3. KindIn(buffer[Top.to][1], Type) = ArrayElement(Kinds[Type.of])
    BY <2>1, Zenon DEF KindIn
  <2> QED BY <1>3, <2>2, <2>3
<1>6. CASE Top.op \notin {"vector", "array"}
  <2>1. buffer[Top.to][1] \notin {"vector", "array"}
    BY <1>2, <1>6 DEF Ops
  <2>2. ScalarKind = Kinds[Type.of]
    BY <1>6 DEF ScalarKind
  <2> QED BY <1>3, <2>1, <2>2 DEF KindIn
<1> QED BY <1>3, <1>4, <1>5, <1>6

(* A scalar is stored as it was decoded, unless it is the default. *)
LEMMA BuildScalarMade ==
  ASSUME Ordered, Ordered', Made(buffer), BuildScalar
  PROVE  Made(buffer')
<1> DEFINE scalar == Decode(ScalarKind, Value)
           node == <<"scalar", ScalarKind, scalar>>
<1>1. Building /\ IsGiven /\ Type.base \in {"scalar", "disc"}
  BY DEF BuildScalar
<1>2. CASE IsBad(scalar)
  <2>1. buffer' = Empty
    BY <1>2 DEF BuildScalar, Refuse
  <2> QED BY <2>1, EmptyMade
<1>3. CASE ~IsBad(scalar) /\ Elided(scalar)
  <2>1. Move(Rest, buffer)
    BY <1>3 DEF BuildScalar
  <2> QED BY <2>1 DEF Move
<1>4. CASE ~IsBad(scalar) /\ ~Elided(scalar)
  <2>1. Move(Rest, Put(To, node))
    BY <1>4 DEF BuildScalar
  <2>2. node[1] = "scalar" /\ node[2] = ScalarKind /\ node[3] = scalar
    OBVIOUS
  <2>3. scalar[1] \in {"bool", "int", "real", "inf"}
    BY <1>4, DecodedIs DEF IsBad
  <2>4. scalar[1] # "inf" => Reprints(ScalarKind, scalar)
    BY <2>3, ScalarsReprint
  <2>5. Top.op = "table" => scalar # Type.default
    BY <1>4 DEF Elided
  <2>6. ScalarKind = KindIn(buffer[Top.to][1], Type) /\ (buffer[Top.to][1] = "table" <=> Top.op = "table")
    BY <1>1, KindDue
  <2>7. node = <<"scalar", ScalarKind, node[3]>>
    BY <2>2
  <2> HIDE DEF node, scalar
  <2>8. BuiltAs(buffer[Top.to][1], node, Type)
    BY <1>1, <2>2, <2>3, <2>4, <2>5, <2>6, <2>7 DEF BuiltAs, Bases
  <2> QED BY <1>1, <2>1, <2>8, StepMade
<1> QED BY <1>2, <1>3, <1>4

(* A string is stored as it is. *)
LEMMA BuildStringMade ==
  ASSUME Ordered, Ordered', Made(buffer), BuildString
  PROVE  Made(buffer')
<1>1. CASE \E reason : Refuse(reason)
  BY <1>1, EmptyMade DEF Refuse
<1>2. CASE ~\E reason : Refuse(reason)
  <2>1. Building /\ Type.base = "string" /\ Move(Rest, Put(To, Value))
    BY <1>2, Zenon DEF BuildString
  <2> QED BY <2>1, OthersBuilt, StepMade DEF Bases
<1> QED BY <1>1, <1>2

(* A table begins empty, in a vector or in a field of its type. *)
LEMMA BuildTableMade ==
  ASSUME Ordered, Ordered', Made(buffer), BuildTable
  PROVE  Made(buffer')
<1>1. CASE \E reason : Refuse(reason)
  BY <1>1, EmptyMade DEF Refuse
<1>2. CASE ~\E reason : Refuse(reason)
  <2>1. PICK F : Move(Append(Rest, F), Put(To, <<"table", Type.of>>))
    BY <1>2, Zenon DEF BuildTable, EnterTable
  <2>2. Building /\ Type.base = "table"
    BY DEF BuildTable
  <2> QED BY <2>1, <2>2, OthersBuilt, StepMade DEF Bases
<1> QED BY <1>1, <1>2

(* A struct begins empty. *)
LEMMA BuildStructMade ==
  ASSUME Ordered, Ordered', Made(buffer), BuildStruct
  PROVE  Made(buffer')
<1>1. CASE \E reason : Refuse(reason)
  BY <1>1, EmptyMade DEF Refuse
<1>2. CASE ~\E reason : Refuse(reason)
  <2>1. PICK F : Move(Append(Rest, F), Put(To, <<"struct", Type.of>>))
    BY <1>2, Zenon DEF BuildStruct, EnterStruct
  <2>2. Building /\ Type.base = "struct"
    BY DEF BuildStruct
  <2> QED BY <2>1, <2>2, OthersBuilt, StepMade DEF Bases
<1> QED BY <1>1, <1>2

(* A vector, in either form, or an array begins empty, with its type. *)
LEMMA BuildVectorMade ==
  ASSUME Ordered, Ordered', Made(buffer), BuildVector \/ BuildKeyed \/ BuildArray
  PROVE  Made(buffer')
<1>1. CASE \E reason : Refuse(reason)
  BY <1>1, EmptyMade DEF Refuse
<1>2. CASE ~\E reason : Refuse(reason)
  <2>1. \E F : \E node : Move(Append(Rest, F), Put(To, node))
    <3>1. CASE BuildVector
      BY <1>2, <3>1, Zenon DEF BuildVector
    <3>2. CASE BuildKeyed
      BY <1>2, <3>2, Zenon DEF BuildKeyed
    <3>3. CASE BuildArray
      BY <1>2, <3>3, Zenon DEF BuildArray
    <3> QED BY <3>1, <3>2, <3>3
  <2>2. PICK F : \E node : Move(Append(Rest, F), Put(To, node))
    BY <2>1
  <2>3. PICK node : Move(Append(Rest, F), Put(To, node))
    BY <2>2
  <2>4. Building /\ Type.base \in Bases \ {"scalar", "disc", "bytes"} /\ Type.base # "union"
    <3>1. Building /\ (Type.base = "vector" \/ Type.base = "array")
      BY Zenon DEF BuildVector, BuildKeyed, BuildArray
    <3> QED BY <3>1 DEF Bases
  <2>5. BuiltAs(buffer[Top.to][1], node, Type)
    BY <2>4, OthersBuilt
  <2>6. \E G : Append(Rest, F) = Append(Rest, G)
    OBVIOUS
  <2> QED BY <2>3, <2>4, <2>5, <2>6, StepMade
<1> QED BY <1>1, <1>2

(* Bytes decoded can be encoded. *)
LEMMA BuildBytesMade ==
  ASSUME Ordered, Ordered', Made(buffer), first = Empty, BuildBytes
  PROVE  Made(buffer')
<1>1. CASE \E reason : Refuse(reason)
  BY <1>1, EmptyMade DEF Refuse
<1>2. CASE ~\E reason : Refuse(reason)
  <2>1. Building /\ Type.base = "bytes"
    BY Zenon DEF BuildBytes
  <2>2. Type.of \in DOMAIN Codecs
    <3>1. WellTyped(Type)
      BY <2>1, DueFits
    <3> QED BY <2>1, <3>1, Zenon DEF WellTyped, Refers
  <2> DEFINE decode == Codecs[Type.of].decode
             encode == Codecs[Type.of].encode
  <2>3. PICK bytes : /\ Move(Rest, Put(To, <<"bytes", Type.of, bytes>>))
                     /\ \/ Value[1] = "string" /\ Value[2] \in DOMAIN decode /\ bytes = decode[Value[2]]
                        \/ /\ Value[1] = "array" /\ BadBytes = {}
                           /\ bytes = [i \in DOMAIN Elements(doc, From) |-> Byte(i)[2]]
    BY <1>2, Zenon DEF BuildBytes
  <2>4. bytes \in DOMAIN encode
    <3>1. CASE Value[1] = "string"
      <4>1. Value[2] \in DOMAIN decode /\ bytes = decode[Value[2]]
        BY <2>3, <3>1
      <4> QED BY <2>2, <4>1, CodecAssumption
    <3>2. CASE Value[1] = "array"
      <4>1. bytes = [i \in DOMAIN Elements(doc, From) |-> Byte(i)[2]] /\ BadBytes = {}
        BY <2>3, <3>2
      <4>2. doc \in Docs
        BY DEF Ordered
      <4>3. From \in DOMAIN doc /\ doc[From][1] = "array"
        BY <2>1, <3>2, ObjectGiven
      <4>4. \A i \in DOMAIN Elements(doc, From) : ~IsBad(Byte(i))
        BY <4>1, Zenon DEF BadBytes
      <4>5. (\A i \in DOMAIN Elements(doc, From) :
               ~IsBad(DecodeUnsigned(Kinds["ubyte"], Node(doc, Append(From, Position[i]))))) =>
              [i \in DOMAIN Elements(doc, From) |->
                 DecodeUnsigned(Kinds["ubyte"], Node(doc, Append(From, Position[i])))[2]] \in DOMAIN encode
        <5>1. \A d \in Docs : \A p \in DOMAIN d :
                d[p][1] = "array" /\
                (\A i \in DOMAIN Elements(d, p) :
                   ~IsBad(DecodeUnsigned(Kinds["ubyte"], Node(d, Append(p, Position[i]))))) =>
                  [i \in DOMAIN Elements(d, p) |->
                     DecodeUnsigned(Kinds["ubyte"], Node(d, Append(p, Position[i])))[2]] \in DOMAIN encode
          BY <2>2, CodecAssumption, Zenon
        <5> HIDE DEF encode
        <5> QED BY <4>2, <4>3, <5>1
      <4>6. bytes = [i \in DOMAIN Elements(doc, From) |->
                       DecodeUnsigned(Kinds["ubyte"], Node(doc, Append(From, Position[i])))[2]]
        BY <4>1 DEF Byte
      <4>7. \A i \in DOMAIN Elements(doc, From) :
               ~IsBad(DecodeUnsigned(Kinds["ubyte"], Node(doc, Append(From, Position[i]))))
        BY <4>4 DEF Byte
      <4> QED BY <4>5, <4>6, <4>7, Zenon
    <3> QED BY <2>3, <3>1, <3>2
  <2> DEFINE node == <<"bytes", Type.of, bytes>>
  <2>5. node[3] = bytes /\ node = <<"bytes", Type.of, node[3]>>
    OBVIOUS
  <2>6. Move(Rest, Put(To, node))
    BY <2>3
  <2> HIDE DEF node
  <2>7. BuiltAs(buffer[Top.to][1], node, Type)
    BY <2>1, <2>4, <2>5 DEF BuiltAs, Bases
  <2> QED BY <2>1, <2>6, <2>7, StepMade
<1> QED BY <1>1, <1>2

(* The value of a member is printed as the name of one. *)
LEMMA MemberReprints ==
  ASSUME NEW kind, NEW v \in DOMAIN kind.names
  PROVE  Reprints(kind, <<"int", kind.names[v]>>)
<1> DEFINE s == <<"int", kind.names[v]>>
           named == {name \in DOMAIN kind.names : kind.names[name] = s[2]}
<1>1. v \in named
  OBVIOUS
<1>2. PICK w \in named : Shown(kind, s) = <<"string", w>>
  <2> HIDE DEF named
  <2>1. Shown(kind, s) = <<"string", CHOOSE name \in named : TRUE>>
    BY <1>1 DEF Shown, named
  <2> QED BY <1>1, <2>1
<1>3. w \in DOMAIN kind.names /\ kind.names[w] = kind.names[v]
  OBVIOUS
<1>4. kind.names # <<>>
  <2> DEFINE none == <<>>
  <2>1. DOMAIN none = {}
    OBVIOUS
  <2> HIDE DEF none
  <2> QED BY <2>1 DEF none
<1>5. Decode(kind, <<"string", w>>) = InRange(kind, kind.names[v])
  BY <1>3, <1>4 DEF Decode, DecodeEnum
<1> QED BY <1>2, <1>5, InRangeIs DEF Reprints

(* A union begins with its discriminator, which is not NONE. *)
LEMMA BuildUnionMade ==
  ASSUME Ordered, Ordered', Made(buffer), BuildUnion
  PROVE  Made(buffer')
<1> DEFINE number == <<"int", DiscKind.names[Disc[2]]>>
           node == <<"scalar", DiscKind, number>>
           p == Top.to
           c == Put(Append(p, Type.disc), node)
<1>1. Building /\ Type.base = "union"
  BY Zenon DEF BuildUnion
<1>2. CASE \E reason : Refuse(reason)
  BY <1>2, EmptyMade DEF Refuse
<1>3. CASE Move(Rest, buffer)
  BY <1>3 DEF Move
<1>4. CASE ~(\E reason : Refuse(reason)) /\ ~Move(Rest, buffer)
  <2>1. /\ Disc[1] = "string" /\ Disc[2] \in DOMAIN Variants[Type.of] /\ DiscKind.names[Disc[2]] # 0
        /\ \E t : Move(t, c)
    BY <1>4, Zenon DEF BuildUnion
  <2>2. /\ Sound(c)
        /\ Append(p, Type.disc) \in DOMAIN buffer => buffer[Append(p, Type.disc)][1] = "scalar"
    BY <1>1, <2>1, UnionSound
  <2>3. LET o == Top.type
        IN  /\ o \in DOMAIN Objects /\ buffer[p][1] = "table" /\ buffer[p][2] = o
            /\ To = Append(p, Due.key) /\ To \notin DOMAIN buffer
            /\ Type.disc \in DOMAIN Objects[o].type /\ Objects[o].type[Type.disc].base = "disc"
            /\ DOMAIN Variants[Type.of] \subseteq DOMAIN DiscKind.names
            /\ \A g \in DOMAIN Objects[o].type :
                 Objects[o].type[g].base = "union" /\ Objects[o].type[g].disc = Type.disc => g = Due.key
    BY <1>1, UnionDue
  <2>4. p \in DOMAIN buffer /\ Sound(buffer)
    BY <1>1, DueFits
  <2>5. \A u : /\ Append(p, u) \in DOMAIN buffer /\ buffer[p][1] = "table"
               /\ u \in DOMAIN Objects[buffer[p][2]].type /\ Objects[buffer[p][2]].type[u].base = "union"
               /\ Objects[buffer[p][2]].type[u].disc = Type.disc
               => Append(p, Type.disc) \in DOMAIN buffer /\ node = buffer[Append(p, Type.disc)]
    <3> HIDE DEF node
    <3> QED BY <2>3
  <2>6. c = With(buffer, Append(p, Type.disc), node)
    BY DEF With, Put
  <2>7. c[p] = buffer[p]
    <3>1. p # Append(p, Type.disc)
      BY <1>1, <2>4, DueIs, PathGrows DEF Ordered
    <3> HIDE DEF p, node
    <3> QED BY <2>4, <3>1 DEF Put
  <2>8. ASSUME NEW T, TypeAt(c, p, Type.disc, T)
        PROVE  BuiltAs(c[p][1], node, T)
    <3>1. c[p][1] = "table" /\ c[p][2] = Top.type
      BY <2>3, <2>7
    <3>2. T = Objects[Top.type].type[Type.disc]
      <4> HIDE DEF c, p
      <4> QED BY <2>3, <2>8, <3>1, Zenon DEF TypeAt
    <3>3. T.base = "disc" /\ T.default = <<"int", 0>>
      BY <2>3, <3>2, FieldsAssumption
    <3>4. KindIn(c[p][1], T) = DiscKind
      <4>1. c[p][1] # "vector" /\ c[p][1] # "array" /\ DiscKind = Kinds[T.of]
        <5>1. DiscKind = Kinds[T.of]
          BY <3>2 DEF DiscKind
        <5> HIDE DEF c, p
        <5> QED BY <3>1, <5>1
      <4> HIDE DEF c, p
      <4> QED BY <4>1, Zenon DEF KindIn
    <3>5. node[2] = DiscKind /\ node[3] = number /\ number[1] = "int" /\ number[2] = DiscKind.names[Disc[2]]
      OBVIOUS
    <3>6. Reprints(DiscKind, number)
      BY <2>1, <2>3, MemberReprints
    <3>7. number # T.default
      <4> HIDE DEF number
      <4> QED BY <2>1, <3>3, <3>5, Pairs
    <3>8. node = <<"scalar", DiscKind, node[3]>>
      OBVIOUS
    <3> HIDE DEF node, number, c
    <3> QED BY <3>3, <3>4, <3>5, <3>6, <3>7, <3>8 DEF BuiltAs, Bases
  <2>9. Made(c)
    <3> HIDE DEF c, p, node
    <3> QED BY <2>2, <2>4, <2>5, <2>6, <2>8, MadeGrows
  <2>10. buffer' = c
    BY <2>1 DEF Move
  <2> QED BY <2>9, <2>10
<1> QED BY <1>2, <1>3, <1>4

(* The root of the document, in an empty buffer. *)
LEMMA JsonToBufMade ==
  ASSUME Ordered, Ordered', JsonToBuf
  PROVE  Made(buffer')
<1>1. CASE \E reason : Refuse(reason)
  BY <1>1, EmptyMade DEF Refuse
<1>2. CASE ~\E reason : Refuse(reason)
  <2>1. \E s : Move(s, Put(<<>>, <<"table", RootTable>>))
    BY <1>2, Zenon DEF JsonToBuf, EnterTable
  <2>2. buffer = Empty
    BY DEF JsonToBuf, Ordered, Nested
  <2> DEFINE c == Put(<<>>, <<"table", RootTable>>)
             root == <<>>
  <2>3. DOMAIN c = {root} /\ buffer' = c
    BY <2>1, <2>2 DEF Put, Empty, Move
  <2>4. Len(root) = 0 /\ Path(root)
    BY DEF Path
  <2> HIDE DEF c, root
  <2>5. Sound(c)
    BY <2>3 DEF Ordered, Shaped
  <2>6. \A x : Append(root, x) \notin DOMAIN c
    BY <2>3, <2>4, PathGrows
  <2>7. \A p \in DOMAIN c : KeysAt(c, p) = {}
    BY <2>3, <2>4, <2>5, <2>6, SoundPaths
  <2>8. IsFiniteSet(DOMAIN c)
    BY <2>3, FS_Singleton
  <2> QED BY <2>3, <2>7, <2>8 DEF Made
<1> QED BY <1>1, <1>2

(* The buffer is as from_json makes it, the first one and what is printed. *)
Minted ==
  IF first = Empty THEN Made(buffer)
  ELSE Made(first) /\ ~HasNonFinite(first)

(* from_json leaves the first buffer alone. *)
LEMMA FirstStays == BuildStep => first' = first
<1>1. \A reason : Refuse(reason) => first' = first
  BY DEF Refuse
<1>2. \A s, c : Move(s, c) => first' = first
  BY DEF Move
<1>3. JsonToBuf => first' = first
  BY <1>1, <1>2, Zenon DEF JsonToBuf, EnterTable
<1>4. BuildAbsent => first' = first
  BY <1>1, <1>2, Zenon DEF BuildAbsent
<1>5. BuildScalar => first' = first
  BY <1>1, <1>2, Zenon DEF BuildScalar
<1>6. BuildString => first' = first
  BY <1>1, <1>2, Zenon DEF BuildString
<1>7. BuildTable => first' = first
  BY <1>1, <1>2, Zenon DEF BuildTable, EnterTable
<1>8. BuildStruct => first' = first
  BY <1>1, <1>2, Zenon DEF BuildStruct, EnterStruct
<1>9. BuildBytes => first' = first
  BY <1>1, <1>2, Zenon DEF BuildBytes
<1>10. BuildVector => first' = first
  BY <1>1, <1>2, Zenon DEF BuildVector
<1>11. BuildKeyed => first' = first
  BY <1>1, <1>2, Zenon DEF BuildKeyed
<1>12. BuildArray => first' = first
  BY <1>1, <1>2, Zenon DEF BuildArray
<1>13. BuildUnion => first' = first
  BY <1>1, <1>2, Zenon DEF BuildUnion
<1>14. Return => first' = first
  <2>1. CASE \E reason : Refuse(reason)
    BY <1>1, <2>1
  <2>2. CASE \E s, c : Move(s, c)
    BY <1>2, <2>2
  <2>3. CASE UNCHANGED <<given, lenient, doc, buffer, first, refusal>>
    BY <2>3
  <2> QED BY <2>1, <2>2, <2>3, Zenon DEF Return
<1> QED BY <1>3, <1>4, <1>5, <1>6, <1>7, <1>8, <1>9, <1>10, <1>11, <1>12, <1>13, <1>14 DEF BuildStep

(* Every step keeps the first buffer as from_json has made it. *)
LEMMA MintedNext == Ordered /\ Ordered' /\ Minted /\ [Next]_vars => Minted'
<1> SUFFICES ASSUME Ordered, Ordered', Minted, [Next]_vars PROVE Minted'
  OBVIOUS
<1>1. CASE first' = first /\ first # Empty
  BY <1>1 DEF Minted
<1>2. CASE first = Empty /\ BufToJson
  <2>1. Made(buffer)
    BY <1>2 DEF Minted
  <2>2. CASE \E reason : Refuse(reason)
    BY <1>2, <2>2, EmptyMade DEF Refuse, Minted
  <2>3. CASE ~\E reason : Refuse(reason)
    <3>1. first' = buffer /\ ~HasNonFinite(buffer) /\ buffer # Empty
      <4>1. /\ first' = buffer /\ ~HasNonFinite(buffer) /\ HasRoot(buffer)
        BY <1>2, <2>3 DEF BufToJson, Ordered
      <4> QED BY <4>1 DEF HasRoot, Empty
    <3> QED BY <2>1, <3>1 DEF Minted
  <2> QED BY <2>2, <2>3
<1>3. CASE first = Empty /\ BuildStep
  <2>1. Made(buffer)
    BY <1>3 DEF Minted
  <2>2. Made(buffer')
    <3>1. CASE BuildAbsent \/ Return
      <4>1. buffer' = Empty \/ buffer' = buffer
        BY <3>1, Zenon DEF BuildAbsent, Return, Refuse, Move
      <4> QED BY <2>1, <4>1, EmptyMade
    <3> QED BY <1>3, <2>1, <3>1, JsonToBufMade, BuildScalarMade, BuildStringMade, BuildTableMade,
              BuildStructMade, BuildBytesMade, BuildVectorMade, BuildUnionMade DEF BuildStep
  <2>3. first' = first
    BY <1>3, FirstStays
  <2> QED BY <1>3, <2>2, <2>3 DEF Minted
<1>4. CASE first = Empty /\ (Verify \/ UNCHANGED vars)
  <2>1. first' = first /\ buffer' = buffer
    BY <1>4 DEF Verify, vars
  <2> QED BY <1>4, <2>1 DEF Minted
<1>5. first # Empty => first' = first
  BY FirstStays DEF Next, Verify, vars, BufToJson
<1> QED BY <1>1, <1>2, <1>3, <1>4, <1>5 DEF Next

-----------------------------------------------------------------------------
(* What is printed of such a buffer. *)

(* A step further, only another element of the same key can hide a node.   *)
LEMMA HiddenStep ==
  ASSUME NEW b, NEW p, Path(p), NEW x, Hidden(b, Append(p, x))
  PROVE  \/ Hidden(b, p)
         \/ /\ IsKeyed(b, p)
            /\ \E j \in Place(x) + 1 .. Cardinality(KeysAt(b, p)) :
                 KeyText(b, Append(p, Position[j])) = KeyText(b, Append(p, x))
<1> DEFINE q == Append(p, x)
<1>1. /\ Len(p) \in Nat /\ Len(q) = Len(p) + 1 /\ q[Len(p) + 1] = x
      /\ \A i \in 1 .. Len(p) : q[i] = p[i]
  BY PathGrows
<1>2. \A i \in 0 .. Len(p) : SubSeq(q, 1, i) = SubSeq(p, 1, i)
  BY StepBegins
<1>3. SubSeq(p, 1, Len(p)) = p
  BY StepBegins
<1> HIDE DEF q
<1>4. PICK i \in 1 .. Len(q) :
        /\ IsKeyed(b, SubSeq(q, 1, i - 1))
        /\ \E j \in Place(q[i]) + 1 .. Cardinality(KeysAt(b, SubSeq(q, 1, i - 1))) :
             KeyText(b, Append(SubSeq(q, 1, i - 1), Position[j])) = KeyText(b, Append(SubSeq(q, 1, i - 1), q[i]))
  BY DEF Hidden, q
<1>5. CASE i \in 1 .. Len(p)
  <2>1. i - 1 \in 0 .. Len(p)
    BY <1>1, <1>5
  <2>2. SubSeq(q, 1, i - 1) = SubSeq(p, 1, i - 1) /\ q[i] = p[i]
    BY <1>1, <1>2, <1>5, <2>1
  <2>3. Hidden(b, p)
    BY <1>4, <1>5, <2>2 DEF Hidden
  <2> QED BY <2>3
<1>6. CASE i \notin 1 .. Len(p)
  <2>1. i = Len(p) + 1 /\ i - 1 = Len(p) /\ Len(p) \in 0 .. Len(p)
    BY <1>1, <1>4, <1>6
  <2>2. SubSeq(q, 1, i - 1) = p /\ q[i] = x
    BY <1>1, <1>2, <1>3, <2>1
  <2> QED BY <1>4, <2>2
<1> QED BY <1>5, <1>6

(* What is in a node that is no keyed vector is seen with it. *)
LEMMA SeenGrows ==
  ASSUME NEW b, NEW p \in Seen(b), Path(p), ~IsKeyed(b, p), NEW x, Append(p, x) \in DOMAIN b
  PROVE  Append(p, x) \in Seen(b)
<1>1. ~Hidden(b, p)
  BY DEF Seen
<1>2. ~Hidden(b, Append(p, x))
  BY <1>1, HiddenStep
<1> QED BY <1>2 DEF Seen

(* No two nodes are printed in one place, below one of them. *)
LEMMA PrintedApart ==
  ASSUME NEW b, Whole(b), NEW p, Path(p), NEW x, NEW y, Append(p, x) \in Seen(b), Append(p, y) \in Seen(b),
         Label(b, p, x) = Label(b, p, y)
  PROVE  x = y
<1>1. Printed(b, Append(p, x)) = Printed(b, Append(p, y))
  <2>1. /\ Printed(b, Append(p, x)) = Append(Printed(b, p), Label(b, p, x))
        /\ Printed(b, Append(p, y)) = Append(Printed(b, p), Label(b, p, y))
    BY PrintedGrows
  <2> QED BY <2>1
<1>2. Append(p, x) = Append(p, y)
  BY <1>1, PrintedOnce DEF Whole
<1> QED BY <1>2, StepsEqual

(* What is printed of a node, by the sort of the node. *)
LEMMA ShapeIs ==
  ASSUME NEW b, NEW p
  PROVE  /\ b[p][1] \in {"table", "struct"} => Shape(b, p) = <<"object", 0>>
         /\ b[p][1] \in {"vector", "array"} =>
              Shape(b, p) = IF IsKeyed(b, p) THEN <<"object", 0>> ELSE <<"array", 0>>
         /\ b[p][1] = "string" => Shape(b, p) = b[p]
         /\ b[p][1] = "bytes" => Shape(b, p) = <<"string", Codecs[b[p][2]].encode[b[p][3]]>>
         /\ b[p][1] = "scalar" => Shape(b, p) = Shown(b[p][2], b[p][3])
BY DEF Shape

(* The type of a discriminator is the one of its field. *)
LEMMA DiscBuilt ==
  ASSUME NEW b, Sound(b), Made(b), NEW p, Path(p), NEW d, Append(p, d) \in DOMAIN b, b[p][1] = "table",
         Objects[b[p][2]].type[d].base = "disc"
  PROVE  /\ Shape(b, Append(p, d)) = Shown(Kinds[Objects[b[p][2]].type[d].of], b[Append(p, d)][3])
         /\ b[p][2] \in DOMAIN Objects /\ d \in DOMAIN Objects[b[p][2]].type
<1> DEFINE t == Objects[b[p][2]].type[d]
<1>1. p \in DOMAIN b /\ ChildFits(b, p, d) /\ d \in KeysAt(b, p) /\ Known(b[p])
  BY SoundPaths
<1>2. b[p][2] \in DOMAIN Objects /\ d \in DOMAIN Objects[b[p][2]].type
  BY <1>1, Zenon DEF ChildFits, Known
<1>3. TypeAt(b, p, d, t)
  BY <1>2, Zenon DEF TypeAt
<1>4. BuiltAs(b[p][1], b[Append(p, d)], t)
  BY <1>1, <1>3 DEF Made
<1>5. b[Append(p, d)] = <<"scalar", KindIn(b[p][1], t), b[Append(p, d)][3]>>
  BY <1>4, Zenon DEF BuiltAs
<1>6. KindIn(b[p][1], t) = Kinds[t.of]
  BY DEF KindIn
<1> DEFINE node == b[Append(p, d)]
<1>7. node[1] = "scalar" /\ node[2] = Kinds[t.of]
  <2> HIDE DEF node, t
  <2> QED BY <1>5, <1>6, Triples DEF node
<1> QED BY <1>2, <1>7, ShapeIs

(* The node at a place is what is printed there, seen from the node around it. *)
LEMMA ShapeBelow ==
  ASSUME NEW b, Whole(b), Made(b), NEW p, Path(p), NEW x, Append(p, x) \in Seen(b)
  PROVE  LET q == Append(p, x)
         IN Printed(b, q) \in DOMAIN Json(b) /\ Json(b)[Printed(b, q)] = Shape(b, q)
<1> DEFINE q == Append(p, x)
           k == Label(b, p, x)
<1>1. p \in Seen(b) /\ p \in DOMAIN b /\ q \in DOMAIN b /\ Printed(b, q) = Append(Printed(b, p), k)
  BY SeenBegins, PrintedGrows DEF Whole, Seen
<1>2. /\ Len(p) \in Nat /\ Len(q) = Len(p) + 1 /\ q # <<>> /\ SubSeq(q, 1, Len(q) - 1) = p /\ q[Len(q)] = x
  <2>1. Len(p) \in Nat /\ Len(q) = Len(p) + 1 /\ q[Len(p) + 1] = x /\ Len(p) \in 0 .. Len(p) /\ Path(q)
    BY PathGrows
  <2>2. SubSeq(q, 1, Len(p)) = p
    <3>1. \A i \in 0 .. Len(p) : SubSeq(q, 1, i) = SubSeq(p, 1, i)
      BY StepBegins
    <3>2. SubSeq(p, 1, Len(p)) = p
      BY StepBegins
    <3> QED BY <2>1, <3>1, <3>2
  <2> HIDE DEF q
  <2>3. q # <<>>
    BY <2>1
  <2> QED BY <2>1, <2>2, <2>3
<1>3. IsDiscriminator(b, q) <=> b[p][1] = "table" /\ Objects[b[p][2]].type[x].base = "disc"
  <2> HIDE DEF q
  <2> QED BY <1>2 DEF IsDiscriminator
<1>4. b[p][1] = "table" => k = x
  BY TablesPrintNames
<1>5. Printed(b, q) \in DOMAIN Json(b)
  <2>1. CASE ~IsDiscriminator(b, q)
    <3>1. <<Printed(b, q), Shape(b, q)>> \in Prints(b)
      BY <2>1 DEF Prints
    <3> HIDE DEF q
    <3> QED BY <3>1, JsonPrints
  <2>2. CASE IsDiscriminator(b, q)
    <3>1. /\ b[p][1] = "table" /\ b[p][2] \in DOMAIN Objects /\ x \in DOMAIN Objects[b[p][2]].type
          /\ Objects[b[p][2]].type[x].base = "disc"
      BY <1>1, <1>3, <2>2, DiscBuilt DEF Whole
    <3>2. PICK u \in DOMAIN Objects[b[p][2]].type :
            Objects[b[p][2]].type[u].base = "union" /\ Objects[b[p][2]].type[u].disc = x
      BY <3>1, FieldsAssumption
    <3>3. u \in Fields(b, p, "union")
      BY <3>2 DEF Fields
    <3>4. PICK n \in Discriminators(b, p) : n[1] = Append(Printed(b, p), x)
      BY <3>2, <3>3, DiscriminatorsAre
    <3>5. n \in Prints(b)
      BY <1>1, <3>1, <3>4 DEF Prints, Tables
    <3>6. Append(Printed(b, p), x) \in DOMAIN Json(b)
      BY <3>4, <3>5, JsonPrints
    <3> QED BY <1>1, <1>4, <3>1, <3>6
  <2> QED BY <2>1, <2>2
<1> DEFINE json == Json(b)[Printed(b, q)]
<1>6. json = Json(b)[Append(Printed(b, p), k)]
  BY <1>1
<1>7. ASSUME NEW y, Append(p, y) \in Seen(b), k = Label(b, p, y), json = Shape(b, Append(p, y))
      PROVE  json = Shape(b, q)
  BY <1>7, PrintedApart
<1>8. ASSUME p \in Tables(b), Append(p, k) \notin DOMAIN b
      PROVE  FALSE
  BY <1>1, <1>4, <1>8 DEF Tables
<1>9. ASSUME p \in Tables(b), NEW u \in Fields(b, p, "union"), k = Objects[b[p][2]].type[u].disc,
             json = DiscShown(b, p, k)
      PROVE  json = Shape(b, q)
  <2>1. b[p][1] = "table" /\ k = x
    BY <1>4, <1>9 DEF Tables
  <2>2. u \in DOMAIN Objects[b[p][2]].type /\ Objects[b[p][2]].type[u].base = "union"
    BY <1>9 DEF Fields
  <2>3. b[p][2] \in DOMAIN Objects
    BY <1>1, <2>1, SoundPaths DEF Whole, Known
  <2>4. Objects[b[p][2]].type[x].base = "disc"
    <3>1. Discriminated(b[p][2], Objects[b[p][2]].type[u])
      BY <2>2, <2>3, FieldTypes
    <3> QED BY <1>9, <2>1, <3>1 DEF Discriminated
  <2>5. Shape(b, q) = Shown(Kinds[Objects[b[p][2]].type[x].of], b[q][3])
    BY <1>1, <2>1, <2>4, DiscBuilt DEF Whole
  <2>6. json = Shown(Kinds[Objects[b[p][2]].type[x].of], b[q][3])
    <3>1. json = DiscShown(b, p, x) /\ Append(p, x) \in DOMAIN b
      BY <1>1, <1>9, <2>1
    <3> HIDE DEF json, k
    <3> QED BY <3>1 DEF DiscShown
  <2> QED BY <2>5, <2>6
<1>10. \/ \E y : /\ Append(p, y) \in Seen(b) /\ ~IsDiscriminator(b, Append(p, y))
                 /\ k = Label(b, p, y) /\ json = Shape(b, Append(p, y))
       \/ /\ p \in Tables(b) /\ k \in Fields(b, p, "scalar") /\ Append(p, k) \notin DOMAIN b
          /\ json = DefaultShown(b, p, k)
       \/ /\ p \in Tables(b)
          /\ \E u \in Fields(b, p, "union") : k = Objects[b[p][2]].type[u].disc
          /\ json = DiscShown(b, p, k)
  <2>1. Append(Printed(b, p), k) \in DOMAIN Json(b)
    BY <1>1, <1>5
  <2> HIDE DEF json, k
  <2> QED BY <1>1, <1>6, <2>1, PrintedBelow
<1>11. json = Shape(b, q)
  <2> HIDE DEF json, k, q
  <2> QED BY <1>7, <1>8, <1>9, <1>10
<1> QED BY <1>5, <1>11

(* The default that the table at p prints for a scalar k it does not have. *)
DefaultAt(b, p, k) ==
  /\ b[p][1] = "table" /\ b[p][2] \in DOMAIN Objects /\ k \in DOMAIN Objects[b[p][2]].type
  /\ Append(p, k) \notin DOMAIN b
  /\ LET t == Objects[b[p][2]].type[k]
     IN /\ t.base \in {"scalar", "disc"}
        /\ Json(b)[Append(Printed(b, p), k)] = Shown(Kinds[t.of], t.default)

(* A place right below the one of p is that of a node in p, or of such a   *)
(* scalar.                                                                 *)
LEMMA BelowAt ==
  ASSUME NEW b, Whole(b), Made(b), NEW p \in Seen(b), NEW k, Append(Printed(b, p), k) \in DOMAIN Json(b)
  PROVE  \/ \E y : Append(p, y) \in Seen(b) /\ k = Label(b, p, y)
         \/ DefaultAt(b, p, k)
<1> DEFINE json == Json(b)[Append(Printed(b, p), k)]
           t == Objects[b[p][2]].type[k]
<1>1. p \in DOMAIN b /\ Path(p) /\ Known(b[p])
  BY SoundPaths DEF Whole, Seen
<1>2. \/ \E y : /\ Append(p, y) \in Seen(b) /\ ~IsDiscriminator(b, Append(p, y))
                /\ k = Label(b, p, y) /\ json = Shape(b, Append(p, y))
      \/ /\ p \in Tables(b) /\ k \in Fields(b, p, "scalar") /\ Append(p, k) \notin DOMAIN b
         /\ json = DefaultShown(b, p, k)
      \/ /\ p \in Tables(b)
         /\ \E u \in Fields(b, p, "union") : k = Objects[b[p][2]].type[u].disc
         /\ json = DiscShown(b, p, k)
  BY PrintedBelow
<1>3. ASSUME p \in Tables(b), k \in Fields(b, p, "scalar"), Append(p, k) \notin DOMAIN b,
             json = DefaultShown(b, p, k)
      PROVE  /\ b[p][1] = "table" /\ b[p][2] \in DOMAIN Objects /\ k \in DOMAIN Objects[b[p][2]].type
             /\ t.base \in {"scalar", "disc"} /\ json = Shown(Kinds[t.of], t.default)
  <2>1. b[p][1] = "table" /\ b[p][2] \in DOMAIN Objects
    BY <1>1, <1>3 DEF Known, Tables
  <2>2. k \in DOMAIN Objects[b[p][2]].type /\ t.base = "scalar"
    BY <1>3 DEF Fields
  <2>3. json = Shown(Kinds[t.of], t.default)
    BY <1>3 DEF DefaultShown
  <2> HIDE DEF t, json
  <2> QED BY <2>1, <2>2, <2>3
<1>4. ASSUME p \in Tables(b), NEW u \in Fields(b, p, "union"), k = Objects[b[p][2]].type[u].disc,
             json = DiscShown(b, p, k)
      PROVE  /\ b[p][1] = "table" /\ b[p][2] \in DOMAIN Objects /\ k \in DOMAIN Objects[b[p][2]].type
             /\ t.base \in {"scalar", "disc"}
             /\ Append(p, k) \notin DOMAIN b => json = Shown(Kinds[t.of], t.default)
  <2>1. b[p][1] = "table" /\ b[p][2] \in DOMAIN Objects
    BY <1>1, <1>4 DEF Known, Tables
  <2>2. u \in DOMAIN Objects[b[p][2]].type /\ Objects[b[p][2]].type[u].base = "union"
    BY <1>4 DEF Fields
  <2>3. Discriminated(b[p][2], Objects[b[p][2]].type[u])
    BY <2>1, <2>2, FieldTypes
  <2>4. k \in DOMAIN Objects[b[p][2]].type /\ t.base = "disc"
    <3>1. /\ Objects[b[p][2]].type[u].disc \in DOMAIN Objects[b[p][2]].type
          /\ Objects[b[p][2]].type[Objects[b[p][2]].type[u].disc].base = "disc"
      BY <2>3, Zenon DEF Discriminated
    <3> QED BY <1>4, <3>1
  <2>5. t.default = <<"int", 0>>
    BY <2>1, <2>4, FieldsAssumption
  <2>6. Append(p, k) \notin DOMAIN b => json = Shown(Kinds[t.of], <<"int", 0>>)
    <3>1. json = DiscShown(b, p, k)
      BY <1>4
    <3> HIDE DEF json
    <3>2. json = Shown(Kinds[t.of], IF Append(p, k) \in DOMAIN b THEN b[Append(p, k)][3] ELSE <<"int", 0>>)
      BY <3>1, Zenon DEF DiscShown
    <3> HIDE DEF t
    <3> QED BY <3>2
  <2> HIDE DEF t, json
  <2> QED BY <2>1, <2>4, <2>5, <2>6
<1>5. ASSUME b[p][1] = "table", Append(p, k) \in DOMAIN b
      PROVE  \E y : Append(p, y) \in Seen(b) /\ k = Label(b, p, y)
  <2>1. ~IsKeyed(b, p)
    BY <1>1, <1>5 DEF IsKeyed, Node
  <2>2. Append(p, k) \in Seen(b)
    BY <1>1, <1>5, <2>1, SeenGrows
  <2>3. k = Label(b, p, k)
    BY <1>5, TablesPrintNames
  <2> QED BY <2>2, <2>3
<1> HIDE DEF json, t
<1>6. CASE \E y : Append(p, y) \in Seen(b) /\ k = Label(b, p, y)
  BY <1>6
<1>7. CASE ~\E y : Append(p, y) \in Seen(b) /\ k = Label(b, p, y)
  <2>1. /\ b[p][1] = "table" /\ b[p][2] \in DOMAIN Objects /\ k \in DOMAIN Objects[b[p][2]].type
        /\ Append(p, k) \notin DOMAIN b
        /\ t.base \in {"scalar", "disc"} /\ json = Shown(Kinds[t.of], t.default)
    BY <1>2, <1>3, <1>4, <1>5, <1>7
  <2> QED BY <2>1, Zenon DEF t, json, DefaultAt
<1> QED BY <1>6, <1>7

-----------------------------------------------------------------------------
(* Copying the first buffer. *)

Kept(b) == KeysIncrease(b) /\ KeysPresent(b)

(* An item of the call F is of what was printed of a node of was.          *)
CopyItem(d, was, F, item) ==
  /\ item.key = Label(was, F.to, item.slot)
  /\ item.over # <<>> => item.over[2] = Node(d, Append(Append(F.from, item.key), item.over[1]))
  /\ IsKeyed(was, F.to) => Append(F.to, item.slot) \in Seen(was)

(* A list whose elements are not at the first positions, to be refused.    *)
Gaps(was, F) ==
  F.op \in {"vector", "array"} /\ \E k \in DOMAIN F.todo : Append(F.to, F.todo[k].slot) \notin DOMAIN was

(* A call reads what was printed of the node that it builds, and all that  *)
(* is in the node is there or in its items.                                *)
CopyCall(d, was, b, F) ==
  /\ Printed(was, F.to) = F.from
  /\ F.over # <<>> => F.over[2] = Node(d, Append(F.from, F.over[1]))
  /\ \A k \in DOMAIN F.todo : CopyItem(d, was, F, F.todo[k])
  /\ \/ \A y : Append(F.to, y) \in DOMAIN was =>
          Append(F.to, y) \in DOMAIN b \/ \E k \in DOMAIN F.todo : F.todo[k].slot = y
     \/ Gaps(was, F)

(* All that is in p is there. *)
Full(was, b, p) == \A y : Append(p, y) \in DOMAIN was => Append(p, y) \in DOMAIN b

Copies(d, was, s, b) ==
  /\ \A p \in DOMAIN b : p \in Seen(was) /\ b[p] = was[p]
  /\ \A i \in DOMAIN s : CopyCall(d, was, b, s[i])
  /\ \A p \in DOMAIN b : (\E i \in DOMAIN s : s[i].to = p) \/ Full(was, b, p)

(* The inductive invariant of the second building. *)
Copying == first # Empty /\ Kept(first) => Copies(doc, first, frames, buffer)

(* The second building, and what is known of it. *)
Again == Ordered /\ Minted /\ Copying /\ first # Empty /\ Kept(first)

(* What it has of the first buffer. *)
LEMMA AgainIs ==
  ASSUME Again
  PROVE  /\ Ordered /\ Whole(first) /\ Sound(first) /\ Made(first) /\ doc = Json(first) /\ HasRoot(first)
         /\ ~HasNonFinite(first) /\ KeysIncrease(first) /\ KeysPresent(first)
         /\ Copies(doc, first, frames, buffer)
BY DEF Again, Ordered, Minted, Copying, Kept, Whole, Rows

(* The item due is of what was printed of a node of the first buffer.      *)
LEMMA DueCopied ==
  ASSUME Again, Building
  PROVE  /\ CopyCall(doc, first, buffer, Top) /\ CopyItem(doc, first, Top, Due)
         /\ Top.to \in Seen(first) /\ first[Top.to] = buffer[Top.to]
         /\ Value = Node(doc, From)
<1>1. Ordered /\ Copies(doc, first, frames, buffer)
  BY AgainIs
<1>2. /\ Len(frames) \in DOMAIN frames /\ Top = frames[Len(frames)] /\ Due = Top.todo[1] /\ 1 \in DOMAIN Top.todo
      /\ Top.to \in DOMAIN buffer /\ From = Append(Top.from, Due.key)
  BY <1>1, DueIs, DueFits
<1>3. CopyCall(doc, first, buffer, Top)
  BY <1>1, <1>2 DEF Copies
<1>4. CopyItem(doc, first, Top, Due) /\ (Top.over # <<>> => Top.over[2] = Node(doc, Append(Top.from, Top.over[1])))
  BY <1>2, <1>3, Zenon DEF CopyCall
<1>5. Value = Node(doc, From)
  BY <1>2, <1>4 DEF Value
<1> QED BY <1>1, <1>2, <1>3, <1>4, <1>5, Zenon DEF Copies

(* What is there in the first buffer is what the document has for it.      *)
LEMMA DueThere ==
  ASSUME Again, Building, To \in DOMAIN first
  PROVE  /\ To \in Seen(first) /\ Printed(first, To) = From
         /\ From \in DOMAIN doc /\ Value = doc[From] /\ Value = Shape(first, To)
<1>1. /\ Top.to \in Seen(first) /\ CopyItem(doc, first, Top, Due) /\ CopyCall(doc, first, buffer, Top)
      /\ Value = Node(doc, From)
  BY DueCopied
<1>2. Path(Top.to) /\ To = Append(Top.to, Due.slot) /\ From = Append(Top.from, Due.key)
  BY AgainIs, DueIs, DueFits
<1>3. To \in Seen(first)
  <2>1. CASE IsKeyed(first, Top.to)
    BY <1>1, <1>2, <2>1 DEF CopyItem
  <2>2. CASE ~IsKeyed(first, Top.to)
    <3>1. Append(Top.to, Due.slot) \in DOMAIN first
      BY <1>2
    <3> QED BY <1>1, <1>2, <2>2, <3>1, SeenGrows
  <2> QED BY <2>1, <2>2
<1>4. Printed(first, To) = From
  <2>1. Printed(first, Append(Top.to, Due.slot)) = Append(Printed(first, Top.to), Label(first, Top.to, Due.slot))
    BY <1>2, PrintedGrows
  <2>2. Printed(first, Top.to) = Top.from /\ Due.key = Label(first, Top.to, Due.slot)
    BY <1>1 DEF CopyCall, CopyItem
  <2> QED BY <1>2, <2>1, <2>2
<1>5. From \in DOMAIN Json(first) /\ Json(first)[From] = Shape(first, To)
  <2>1. Append(Top.to, Due.slot) \in Seen(first) /\ Whole(first) /\ Made(first) /\ Path(Top.to)
    BY <1>2, <1>3, AgainIs
  <2> DEFINE q == Append(Top.to, Due.slot)
  <2>2. Printed(first, q) \in DOMAIN Json(first) /\ Json(first)[Printed(first, q)] = Shape(first, q)
    BY <2>1, ShapeBelow
  <2> QED BY <1>2, <1>4, <2>2
<1> QED BY <1>1, <1>3, <1>4, <1>5, AgainIs DEF Node

(* What the document has is there, or the default of an absent scalar.     *)
LEMMA DueGiven ==
  ASSUME Again, Building, Value # Absent
  PROVE  \/ To \in DOMAIN first
         \/ /\ Top.op = "table" /\ To \notin DOMAIN first /\ Top.type \in DOMAIN Objects
            /\ Due.key \in DOMAIN Objects[Top.type].type /\ Type = Objects[Top.type].type[Due.key]
            /\ Type.base \in {"scalar", "disc"} /\ Value = Shown(Kinds[Type.of], Type.default)
<1> DEFINE p == Top.to
           k == Due.key
<1>1. /\ p \in Seen(first) /\ CopyItem(doc, first, Top, Due) /\ CopyCall(doc, first, buffer, Top)
      /\ Value = Node(doc, From) /\ first[p] = buffer[p]
  BY DueCopied
<1>2. /\ Path(p) /\ To = Append(p, Due.slot) /\ From = Append(Top.from, k)
      /\ Whole(first) /\ Made(first) /\ doc = Json(first) /\ Ordered
  BY AgainIs, DueIs, DueFits
<1>3. Printed(first, p) = Top.from /\ k = Label(first, p, Due.slot)
  BY <1>1 DEF CopyCall, CopyItem
<1>4. From \in DOMAIN doc /\ Value = doc[From]
  BY <1>1 DEF Node
<1>5. Append(Printed(first, p), k) \in DOMAIN Json(first) /\ From = Append(Printed(first, p), k)
  BY <1>2, <1>3, <1>4
<1>6. ASSUME NEW y, Append(p, y) \in Seen(first), k = Label(first, p, y)
      PROVE  To \in DOMAIN first
  <2>1. CASE IsKeyed(first, p)
    BY <1>1, <1>2, <2>1 DEF CopyItem, Seen
  <2>2. CASE ~IsKeyed(first, p)
    <3>1. y = Due.slot
      BY <1>3, <1>6, <2>2 DEF Label
    <3> QED BY <1>2, <1>6, <3>1 DEF Seen
  <2> QED BY <2>1, <2>2
<1>7. ASSUME DefaultAt(first, p, k)
      PROVE  /\ Top.op = "table" /\ To \notin DOMAIN first /\ Top.type \in DOMAIN Objects
             /\ Due.key \in DOMAIN Objects[Top.type].type /\ Type = Objects[Top.type].type[Due.key]
             /\ Type.base \in {"scalar", "disc"} /\ Value = Shown(Kinds[Type.of], Type.default)
  <2>0. /\ first[p][1] = "table" /\ k \in DOMAIN Objects[first[p][2]].type
        /\ Append(p, k) \notin DOMAIN first /\ Objects[first[p][2]].type[k].base \in {"scalar", "disc"}
        /\ Json(first)[Append(Printed(first, p), k)]
             = Shown(Kinds[Objects[first[p][2]].type[k].of], Objects[first[p][2]].type[k].default)
    BY <1>7, Zenon DEF DefaultAt
  <2>1. Top.op = "table"
    <3>1. buffer[Top.to][1] = "table"
      BY <1>1, <2>0
    <3> QED BY <1>2, <3>1, KindDue, Zenon
  <2>2. buffer[p][2] = Top.type /\ Top.type \in DOMAIN Objects /\ Due.slot = Due.key
    <3>1. Top.op \notin {"vector", "array"}
      BY <2>1
    <3> QED BY <1>2, <2>1, <3>1, DueTypes, Zenon
  <2>3. Type = Objects[Top.type].type[k] \/ Objects[Top.type].type[k].base = "union"
    <3>1. Top.op \notin {"vector", "array"}
      BY <2>1
    <3> QED BY <1>2, <3>1, DueTypes, Zenon
  <2>4. Type = Objects[Top.type].type[k] /\ Objects[Top.type].type[k] = Objects[first[p][2]].type[k]
    BY <1>1, <2>0, <2>2, <2>3
  <2>5. Value = Json(first)[Append(Printed(first, p), k)]
    BY <1>2, <1>4, <1>5
  <2>6. To \notin DOMAIN first
    <3>1. Due.slot = k
      BY <2>2
    <3> HIDE DEF p, k
    <3> QED BY <1>2, <2>0, <3>1
  <2>7. first[p][2] = Top.type
    BY <1>1, <2>2
  <2> QED BY <2>0, <2>1, <2>2, <2>4, <2>5, <2>6, <2>7
<1>8. \/ \E y : Append(p, y) \in Seen(first) /\ k = Label(first, p, y)
      \/ DefaultAt(first, p, k)
  <2> HIDE DEF p, k
  <2> QED BY <1>1, <1>2, <1>5, BelowAt, Zenon
<1> HIDE DEF p, k
<1> QED BY <1>6, <1>7, <1>8, Zenon

(* The value of a union in a buffer is of the variant that is printed.     *)
LEMMA VariantBuilt ==
  ASSUME NEW b, Whole(b), Made(b), NEW p \in Seen(b), NEW x, Append(p, x) \in DOMAIN b,
         NEW o, b[p][1] = "table", b[p][2] = o, NEW t, t = Objects[o].type[x], t.base = "union"
  PROVE  \E w \in DOMAIN Variants[t.of] :
           /\ Fits(b[Append(p, x)], Variants[t.of][w]) /\ Told(b, p, t.disc, w)
           /\ Node(Json(b), Append(Printed(b, p), t.disc)) = <<"string", w>>
           /\ BuiltAs("table", b[Append(p, x)], Variants[t.of][w])
           /\ TypeAt(b, p, x, Variants[t.of][w])
<1>1. Sound(b) /\ p \in DOMAIN b /\ Path(p) /\ ChildFits(b, p, x) /\ x \in KeysAt(b, p)
  <2>1. Sound(b) /\ p \in DOMAIN b
    BY DEF Whole, Seen
  <2>2. Path(p)
    BY <2>1, SoundPaths
  <2> QED BY <2>1, <2>2, SoundPaths
<1>2. b[p][1] \notin {"vector", "array"}
  OBVIOUS
<1>3. x \in DOMAIN Objects[o].type
  BY <1>1, <1>2, Zenon DEF ChildFits
<1>4. PICK w \in DOMAIN Variants[t.of] : Fits(b[Append(p, x)], Variants[t.of][w]) /\ Told(b, p, t.disc, w)
  BY <1>1, <1>2, Zenon DEF ChildFits
<1>5. Node(Json(b), Append(Printed(b, p), t.disc)) = <<"string", w>>
  BY <1>3, <1>4, VariantPrinted
<1>6. TypeAt(b, p, x, Variants[t.of][w])
  BY <1>3, <1>4, Zenon DEF TypeAt
<1>7. BuiltAs("table", b[Append(p, x)], Variants[t.of][w])
  <2>1. BuiltAs(b[p][1], b[Append(p, x)], Variants[t.of][w])
    BY <1>1, <1>6, Zenon DEF Made
  <2> QED BY <2>1
<1> QED BY <1>4, <1>5, <1>6, <1>7, Zenon

(* The union whose value is there has the variant that the document names. *)
LEMMA UnionThere ==
  ASSUME Again, Building, To \in DOMAIN first, Top.op = "table",
         Objects[Top.type].type[Due.key].base = "union"
  PROVE  LET t == Objects[Top.type].type[Due.key]
         IN \E w \in DOMAIN Variants[t.of] :
              /\ Fits(first[To], Variants[t.of][w]) /\ Told(first, Top.to, t.disc, w)
              /\ Node(doc, Append(Top.from, t.disc)) = <<"string", w>>
              /\ BuiltAs("table", first[To], Variants[t.of][w])
              /\ TypeAt(first, Top.to, Due.slot, Variants[t.of][w])
<1> DEFINE p == Top.to
           t == Objects[Top.type].type[Due.key]
<1>1. p \in Seen(first) /\ first[p] = buffer[p] /\ Printed(first, p) = Top.from
  BY DueCopied DEF CopyCall
<1>2. /\ Ordered /\ To = Append(p, Due.slot) /\ Whole(first) /\ Made(first) /\ doc = Json(first)
  BY AgainIs, DueIs, DueFits
<1>3. Due.slot = Due.key /\ buffer[p] = <<"table", Top.type>>
  <2>1. Top.op \notin {"vector", "array"}
    OBVIOUS
  <2> QED BY <1>2, <2>1, DueTypes, Zenon
<1>4. first[p][1] = "table" /\ first[p][2] = Top.type
  BY <1>1, <1>3
<1>5. t.base = "union" /\ t = Objects[Top.type].type[Due.slot] /\ Append(p, Due.slot) \in DOMAIN first
  BY <1>2, <1>3
<1> HIDE DEF p, t
<1>6. \E w \in DOMAIN Variants[t.of] :
        /\ Fits(first[Append(p, Due.slot)], Variants[t.of][w]) /\ Told(first, p, t.disc, w)
        /\ Node(Json(first), Append(Printed(first, p), t.disc)) = <<"string", w>>
        /\ BuiltAs("table", first[Append(p, Due.slot)], Variants[t.of][w])
        /\ TypeAt(first, p, Due.slot, Variants[t.of][w])
  BY <1>1, <1>2, <1>4, <1>5, VariantBuilt, Zenon
<1>7. \E w \in DOMAIN Variants[t.of] :
        /\ Fits(first[To], Variants[t.of][w]) /\ Told(first, p, t.disc, w)
        /\ Node(doc, Append(Top.from, t.disc)) = <<"string", w>>
        /\ BuiltAs("table", first[To], Variants[t.of][w])
        /\ TypeAt(first, p, Due.slot, Variants[t.of][w])
  BY <1>1, <1>2, <1>6
<1> QED BY <1>7, Zenon DEF p, t

(* What is there is of the type that is due.                               *)
LEMMA DueFirst ==
  ASSUME Again, Building, To \in DOMAIN first, Type.base # "union"
  PROVE  Fits(first[To], Type) /\ BuiltAs(buffer[Top.to][1], first[To], Type)
<1> DEFINE p == Top.to
           x == Due.slot
           t == Objects[Top.type].type[Due.key]
<1>1. p \in Seen(first) /\ first[p] = buffer[p]
  BY DueCopied
<1>2. /\ Ordered /\ Path(p) /\ To = Append(p, x) /\ Append(p, x) \in DOMAIN first
      /\ Sound(first) /\ Made(first)
  BY AgainIs, DueIs, DueFits
<1>3. TypeAt(first, p, x, Type)
  <2>1. CASE Top.op \in {"vector", "array"}
    <3>1. buffer[p][1] = Top.op /\ Type = ElementType(buffer[p])
      BY <1>2, <2>1, DueTypes, Zenon
    <3> HIDE DEF p, x
    <3>2. first[p][1] \in {"vector", "array"} /\ Type = ElementType(first[p])
      BY <1>1, <2>1, <3>1
    <3> QED BY <3>2, Zenon DEF TypeAt
  <2>2. CASE Top.op \notin {"vector", "array"}
    <3>1. /\ Due.slot = Due.key /\ Due.key \in DOMAIN Objects[Top.type].type
          /\ \/ Type = t
             \/ /\ Top.op = "table" /\ t.base = "union"
                /\ \E v : Chosen(doc, buffer, Top, t, v) /\ Type = Variants[t.of][v]
      BY <1>2, <2>2, DueTypes, Zenon
    <3>2. /\ Top.op = "table" => buffer[p][1] = "table" /\ buffer[p][2] = Top.type
          /\ Top.op \in {"struct", "variant"} => buffer[p][1] = "struct" /\ buffer[p][2] = Top.type
          /\ Top.op \in Ops
      BY <1>2, DueFits, OpIs
    <3>3. first[p][1] \in {"table", "struct"} /\ first[p][2] = Top.type
      BY <1>1, <2>2, <3>2 DEF Ops
    <3>4. t = Objects[first[p][2]].type[x] /\ x \in DOMAIN Objects[first[p][2]].type
      BY <3>1, <3>3
    <3>5. CASE t.base # "union"
      <4>1. Type = t
        <5> HIDE DEF t
        <5> QED BY <3>1, <3>5, Zenon
      <4> HIDE DEF p, x, t
      <4> QED BY <3>3, <3>4, <3>5, <4>1, Zenon DEF TypeAt
    <3>6. CASE t.base = "union"
      <4>1. Top.op = "table" /\ \E v : Chosen(doc, buffer, Top, t, v) /\ Type = Variants[t.of][v]
        <5>1. Type # t
          BY <3>6
        <5> HIDE DEF t
        <5> QED BY <3>1, <5>1, Zenon
      <4>2. PICK v : Chosen(doc, buffer, Top, t, v) /\ Type = Variants[t.of][v]
        BY <4>1, Zenon
      <4>3. PICK w : Node(doc, Append(Top.from, t.disc)) = <<"string", w>> /\ TypeAt(first, p, x, Variants[t.of][w])
        <5>1. Top.op = "table" /\ Objects[Top.type].type[Due.key].base = "union"
          BY <3>6, <4>1
        <5> QED BY <5>1, UnionThere, Zenon
      <4>4. Node(doc, Append(Top.from, t.disc))[2] = v
        BY <4>2, Zenon DEF Chosen, Says
      <4>5. v = w
        <5> HIDE DEF t
        <5> QED BY <4>3, <4>4
      <4> HIDE DEF p, x, t
      <4> QED BY <4>2, <4>3, <4>5
    <3> HIDE DEF t, p, x
    <3> QED BY <3>5, <3>6
  <2> QED BY <2>1, <2>2
<1> HIDE DEF p, x
<1>4. Fits(first[Append(p, x)], Type)
  BY <1>2, <1>3, TypesFit
<1>5. BuiltAs(first[p][1], first[Append(p, x)], Type)
  <2>1. p \in DOMAIN first /\ x \in KeysAt(first, p)
    BY <1>2, SoundPaths
  <2> QED BY <1>2, <1>3, <2>1, Zenon DEF Made
<1> QED BY <1>1, <1>2, <1>4, <1>5 DEF p

(* What is there is printed, so it is given. *)
LEMMA ThereIsGiven ==
  ASSUME Again, Building, To \in DOMAIN first
  PROVE  Value \notin {Absent, Null}
<1>1. Value = Shape(first, To) /\ To \in Seen(first)
  BY DueThere
<1>2. ASSUME NEW q, NEW parent, NEW T, Fits(first[q], T), BuiltAs(parent, first[q], T), T.base \in Bases \ {"union"}
      PROVE  Shape(first, q) \notin {Absent, Null}
  <2> DEFINE node == first[q]
  <2>1. node[1] = Tag(T.base)
    BY <1>2 DEF Fits
  <2>2. CASE T.base \in {"scalar", "disc"}
    <3>1. node[1] = "scalar" /\ node[3][1] \in {"bool", "int", "real", "inf"}
      BY <1>2, <2>1, <2>2 DEF BuiltAs, Tag
    <3>2. Shape(first, q) = Shown(node[2], node[3])
      BY <3>1, ShapeIs
    <3>3. Shown(node[2], node[3])[1] \in {"string", "bool", "int", "real", "inf"}
      <4> HIDE DEF node
      <4> QED BY <3>1 DEF Shown
    <3> QED BY <3>2, <3>3 DEF Absent, Null
  <2>3. CASE T.base \notin {"scalar", "disc"}
    <3>1. node[1] \in {"table", "struct", "vector", "array", "string", "bytes"}
      BY <1>2, <2>1, <2>3 DEF Tag, Bases
    <3>2. Shape(first, q)[1] \in {"object", "array", "string"}
      <4>1. node[1] = "string" => Shape(first, q)[1] = "string"
        BY ShapeIs
      <4>2. node[1] = "bytes" => Shape(first, q)[1] = "string"
        BY ShapeIs
      <4> QED BY <3>1, <4>1, <4>2, ShapeIs
    <3> QED BY <3>2 DEF Absent, Null
  <2> QED BY <2>2, <2>3
<1>3. CASE Type.base # "union"
  <2>1. Fits(first[To], Type) /\ BuiltAs(buffer[Top.to][1], first[To], Type)
    BY <1>3, DueFirst
  <2>2. Type.base \in Bases
    BY <2>1, Zenon DEF BuiltAs
  <2> QED BY <1>1, <1>2, <1>3, <2>1, <2>2
<1>4. CASE Type.base = "union"
  <2>1. /\ Top.op = "table" /\ Top.type \in DOMAIN Objects /\ Due.key \in DOMAIN Objects[Top.type].type
        /\ Type = Objects[Top.type].type[Due.key]
    BY <1>4, AgainIs, UnionDue
  <2>2. PICK w \in DOMAIN Variants[Type.of] :
          Fits(first[To], Variants[Type.of][w]) /\ BuiltAs("table", first[To], Variants[Type.of][w])
    BY <1>4, <2>1, UnionThere
  <2>3. Variants[Type.of][w].base \in Bases \ {"union"}
    <3>1. WellTyped(Type)
      BY AgainIs, DueFits
    <3>2. Variants[Type.of][w].base \in Bases
      BY <2>2, Zenon DEF BuiltAs
    <3> QED BY <1>4, <3>1, <3>2 DEF WellTyped
  <2> QED BY <1>1, <1>2, <2>2, <2>3
<1> QED BY <1>3, <1>4

-----------------------------------------------------------------------------
(* The copy grows. *)

(* A call that has gone on, with what it has built in c.                   *)
LEMMA CallGoesOn ==
  ASSUME NEW d, NEW was, NEW b, NEW F, CopyCall(d, was, b, F), NEW c, DOMAIN b \subseteq DOMAIN c,
         NEW G, G.op = F.op, G.from = F.from, G.to = F.to, G.over = F.over,
         \A k \in DOMAIN G.todo : \E l \in DOMAIN F.todo : G.todo[k] = F.todo[l],
         \A l \in DOMAIN F.todo :
           \/ \E k \in DOMAIN G.todo : G.todo[k] = F.todo[l]
           \/ /\ Append(F.to, F.todo[l].slot) \in DOMAIN was => Append(F.to, F.todo[l].slot) \in DOMAIN c
              /\ F.op \in {"vector", "array"} => Append(F.to, F.todo[l].slot) \in DOMAIN was
  PROVE  CopyCall(d, was, c, G)
<1>1. /\ Printed(was, F.to) = F.from
      /\ F.over # <<>> => F.over[2] = Node(d, Append(F.from, F.over[1]))
      /\ \A k \in DOMAIN F.todo : CopyItem(d, was, F, F.todo[k])
      /\ \/ \A y : Append(F.to, y) \in DOMAIN was =>
              Append(F.to, y) \in DOMAIN b \/ \E k \in DOMAIN F.todo : F.todo[k].slot = y
         \/ Gaps(was, F)
  BY Zenon DEF CopyCall
<1>2. ASSUME NEW k \in DOMAIN G.todo
      PROVE  CopyItem(d, was, G, G.todo[k])
  <2>1. PICK l \in DOMAIN F.todo : G.todo[k] = F.todo[l]
    OBVIOUS
  <2>2. CopyItem(d, was, F, F.todo[l])
    BY <1>1
  <2> QED BY <2>1, <2>2 DEF CopyItem
<1>3. CASE Gaps(was, F)
  <2>1. F.op \in {"vector", "array"} /\ \E k \in DOMAIN F.todo : Append(F.to, F.todo[k].slot) \notin DOMAIN was
    BY <1>3, Zenon DEF Gaps
  <2>2. PICK l \in DOMAIN F.todo : Append(F.to, F.todo[l].slot) \notin DOMAIN was
    BY <2>1
  <2>3. PICK k \in DOMAIN G.todo : G.todo[k] = F.todo[l]
    BY <2>1, <2>2
  <2>4. Gaps(was, G)
    BY <2>1, <2>2, <2>3 DEF Gaps
  <2> QED BY <1>1, <1>2, <2>4 DEF CopyCall
<1>4. CASE ~Gaps(was, F)
  <2>1. ASSUME NEW y, Append(G.to, y) \in DOMAIN was
        PROVE  Append(G.to, y) \in DOMAIN c \/ \E k \in DOMAIN G.todo : G.todo[k].slot = y
    <3>1. Append(F.to, y) \in DOMAIN b \/ \E l \in DOMAIN F.todo : F.todo[l].slot = y
      BY <1>1, <1>4, <2>1
    <3>2. ASSUME NEW l \in DOMAIN F.todo, F.todo[l].slot = y
          PROVE  Append(F.to, y) \in DOMAIN c \/ \E k \in DOMAIN G.todo : G.todo[k].slot = y
      BY <2>1, <3>2
    <3> QED BY <3>1, <3>2
  <2> QED BY <1>1, <1>2, <2>1, Zenon DEF CopyCall
<1> QED BY <1>3, <1>4

(* What the stack t and the buffer c are to be after a step.               *)
LEMMA StepCopied ==
  ASSUME NEW d, NEW was, NEW s, NEW b, Copies(d, was, s, b),
         NEW t, NEW c, DOMAIN b \subseteq DOMAIN c,
         \A p \in DOMAIN c : p \in Seen(was) /\ c[p] = was[p],
         \A i \in DOMAIN t : CopyCall(d, was, c, t[i]),
         \A i \in DOMAIN s : \E j \in DOMAIN t : t[j].to = s[i].to,
         \A p \in DOMAIN c : p \in DOMAIN b \/ (\E j \in DOMAIN t : t[j].to = p) \/ Full(was, c, p)
  PROVE  Copies(d, was, t, c)
<1>1. ASSUME NEW p \in DOMAIN c
      PROVE  (\E j \in DOMAIN t : t[j].to = p) \/ Full(was, c, p)
  <2>1. CASE p \in DOMAIN b
    <3>1. (\E i \in DOMAIN s : s[i].to = p) \/ Full(was, b, p)
      BY <2>1 DEF Copies
    <3>2. Full(was, b, p) => Full(was, c, p)
      BY DEF Full
    <3>3. (\E i \in DOMAIN s : s[i].to = p) => \E j \in DOMAIN t : t[j].to = p
      OBVIOUS
    <3> QED BY <3>1, <3>2, <3>3
  <2> QED BY <2>1
<1> QED BY <1>1 DEF Copies

(* The calls, when the item that is due has been taken.                    *)
LEMMA RestCopied ==
  ASSUME Again, Building, NEW c, DOMAIN buffer \subseteq DOMAIN c,
         To \in DOMAIN first => To \in DOMAIN c,
         Top.op \in {"vector", "array"} => To \in DOMAIN first
  PROVE  /\ \A i \in DOMAIN Rest : CopyCall(doc, first, c, Rest[i])
         /\ \A i \in DOMAIN frames : i \in DOMAIN Rest /\ Rest[i].to = frames[i].to
<1> DEFINE n == Len(frames)
<1>1. Nested /\ Copies(doc, first, frames, buffer)
  BY AgainIs DEF Ordered
<1>2. /\ n \in DOMAIN frames /\ Top = frames[n] /\ To = Append(Top.to, Due.slot)
      /\ Due = Top.todo[1] /\ DOMAIN Top.todo = 1 .. Len(Top.todo) /\ Len(Top.todo) \in Nat
  BY <1>1, DueIs
<1>3. /\ DOMAIN Rest = DOMAIN frames
      /\ \A i \in DOMAIN frames : i # n => Rest[i] = frames[i]
      /\ \A i \in DOMAIN frames : Rest[i].to = frames[i].to
  BY <1>1, RestIs
<1>4. /\ Rest[n].op = Top.op /\ Rest[n].from = Top.from /\ Rest[n].to = Top.to /\ Rest[n].over = Top.over
      /\ DOMAIN Rest[n].todo = 1 .. (Len(Top.todo) - 1)
      /\ \A k \in DOMAIN Rest[n].todo :
           k + 1 \in DOMAIN Top.todo /\ k + 1 # 1 /\ Rest[n].todo[k] = Top.todo[k + 1]
  BY <1>1, RestIs
<1>5. \A i \in DOMAIN frames : CopyCall(doc, first, buffer, frames[i])
  BY <1>1 DEF Copies
<1>6. ASSUME NEW i \in DOMAIN frames, i # n
      PROVE  CopyCall(doc, first, c, Rest[i])
  BY <1>3, <1>5, <1>6, CallGoesOn
<1>7. CopyCall(doc, first, c, Rest[n])
  <2> DEFINE F == Top
             G == Rest[n]
  <2>1. CopyCall(doc, first, buffer, F)
    BY <1>2, <1>5
  <2>2. \A k \in DOMAIN G.todo : \E l \in DOMAIN F.todo : G.todo[k] = F.todo[l]
    BY <1>4
  <2>3. ASSUME NEW l \in DOMAIN F.todo
        PROVE  \/ \E k \in DOMAIN G.todo : G.todo[k] = F.todo[l]
               \/ /\ Append(F.to, F.todo[l].slot) \in DOMAIN first => Append(F.to, F.todo[l].slot) \in DOMAIN c
                  /\ F.op \in {"vector", "array"} => Append(F.to, F.todo[l].slot) \in DOMAIN first
    <3>1. CASE l = 1
      <4>1. To = Append(F.to, F.todo[l].slot)
        BY <1>2, <3>1
      <4> QED BY <4>1
    <3>2. CASE l # 1
      <4> DEFINE m == Len(Top.todo)
      <4>0. l \in 1 .. m /\ m \in Nat
        BY <1>2
      <4> HIDE DEF F, G, m
      <4>1. l - 1 \in 1 .. (m - 1) /\ (l - 1) + 1 = l
        BY <3>2, <4>0
      <4>2. l - 1 \in DOMAIN G.todo
        BY <1>4, <4>1 DEF F, G, m
      <4>3. G.todo[l - 1] = F.todo[l]
        BY <1>4, <4>1, <4>2 DEF F, G, m
      <4> QED BY <4>2, <4>3
    <3> QED BY <3>1, <3>2
  <2>4. G.op = F.op /\ G.from = F.from /\ G.to = F.to /\ G.over = F.over
    BY <1>4
  <2> HIDE DEF F, G
  <2>5. CopyCall(doc, first, c, G)
    BY <2>1, <2>2, <2>3, <2>4, CallGoesOn
  <2> QED BY <2>5 DEF G
<1> QED BY <1>3, <1>6, <1>7

(* A leaf has nothing in it. *)
LEMMA LeavesEmpty ==
  ASSUME NEW b, Sound(b), NEW q \in DOMAIN b, b[q][1] \notin {"table", "struct", "vector", "array"}, NEW y
  PROVE  Append(q, y) \notin DOMAIN b
<1> SUFFICES ASSUME Append(q, y) \in DOMAIN b PROVE FALSE
  OBVIOUS
<1>1. ChildFits(b, q, y)
  BY SoundPaths
<1> QED BY <1>1, Zenon DEF ChildFits

(* A node of the first buffer in its place. *)
LEMMA NodeCopied ==
  ASSUME Again, Building, To \in DOMAIN first
  PROVE  LET c == Put(To, first[To])
         IN /\ DOMAIN c = DOMAIN buffer \cup {To}
            /\ \A p \in DOMAIN c : p \in Seen(first) /\ c[p] = first[p]
<1> DEFINE c == Put(To, first[To])
<1>1. Copies(doc, first, frames, buffer) /\ To \in Seen(first)
  BY AgainIs, DueThere
<1>2. \A p \in DOMAIN buffer : p \in Seen(first) /\ buffer[p] = first[p]
  BY <1>1 DEF Copies
<1>3. DOMAIN c = DOMAIN buffer \cup {To}
  BY DEF Put
<1>4. \A p \in DOMAIN c : c[p] = IF p = To THEN first[To] ELSE buffer[p]
  BY <1>3 DEF Put
<1> HIDE DEF c
<1>5. ASSUME NEW p \in DOMAIN c
      PROVE  p \in Seen(first) /\ c[p] = first[p]
  <2>1. CASE p = To
    BY <1>1, <1>4, <2>1
  <2>2. CASE p # To
    BY <1>2, <1>3, <1>4, <2>2
  <2> QED BY <2>1, <2>2
<1> QED BY <1>3, <1>5 DEF c

(* A step that builds nothing, of nothing. *)
LEMMA NothingCopied ==
  ASSUME Again, Building, To \notin DOMAIN first, Top.op \notin {"vector", "array"}
  PROVE  Copies(doc, first, Rest, buffer)
<1>1. Copies(doc, first, frames, buffer)
  BY AgainIs
<1>2. /\ \A i \in DOMAIN Rest : CopyCall(doc, first, buffer, Rest[i])
      /\ \A i \in DOMAIN frames : i \in DOMAIN Rest /\ Rest[i].to = frames[i].to
  BY RestCopied
<1>3. \A p \in DOMAIN buffer : p \in Seen(first) /\ buffer[p] = first[p]
  BY <1>1 DEF Copies
<1>4. \A i \in DOMAIN frames : \E j \in DOMAIN Rest : Rest[j].to = frames[i].to
  BY <1>2
<1> QED BY <1>1, <1>2, <1>3, <1>4, StepCopied

(* A step that builds a leaf. *)
LEMMA LeafCopied ==
  ASSUME Again, Building, To \in DOMAIN first, first[To][1] \notin {"table", "struct", "vector", "array"}
  PROVE  Copies(doc, first, Rest, Put(To, first[To]))
<1> DEFINE c == Put(To, first[To])
<1>1. Copies(doc, first, frames, buffer) /\ Sound(first)
  BY AgainIs
<1>2. /\ DOMAIN c = DOMAIN buffer \cup {To}
      /\ \A p \in DOMAIN c : p \in Seen(first) /\ c[p] = first[p]
  BY NodeCopied
<1> HIDE DEF c
<1>3. /\ \A i \in DOMAIN Rest : CopyCall(doc, first, c, Rest[i])
      /\ \A i \in DOMAIN frames : i \in DOMAIN Rest /\ Rest[i].to = frames[i].to
  BY <1>2, RestCopied
<1>4. \A i \in DOMAIN frames : \E j \in DOMAIN Rest : Rest[j].to = frames[i].to
  BY <1>3
<1>5. Full(first, c, To)
  BY <1>1, LeavesEmpty DEF Full
<1>6. \A p \in DOMAIN c : p \in DOMAIN buffer \/ Full(first, c, p)
  BY <1>2, <1>5
<1>7. Copies(doc, first, Rest, c)
  BY <1>1, <1>2, <1>3, <1>4, <1>6, StepCopied
<1> QED BY <1>7 DEF c

(* A step that makes the call F. *)
LEMMA CallCopied ==
  ASSUME Again, Building, To \in DOMAIN first, Type.base \in {"table", "struct", "vector", "array"},
         NEW F, F.to = To, CopyCall(doc, first, Put(To, first[To]), F)
  PROVE  Copies(doc, first, Append(Rest, F), Put(To, first[To]))
<1> DEFINE c == Put(To, first[To])
           t == Append(Rest, F)
           n == Len(frames)
<1>1. Copies(doc, first, frames, buffer) /\ Ordered
  BY AgainIs
<1>2. /\ DOMAIN c = DOMAIN buffer \cup {To}
      /\ \A p \in DOMAIN c : p \in Seen(first) /\ c[p] = first[p]
  BY NodeCopied
<1>3. /\ DOMAIN t = DOMAIN frames \cup {n + 1} /\ t[n + 1] = F
      /\ \A i \in DOMAIN frames : t[i] = Rest[i]
  BY <1>1, NewCall
<1>4. CopyCall(doc, first, c, F)
  OBVIOUS
<1> HIDE DEF c, t
<1>5. /\ \A i \in DOMAIN Rest : CopyCall(doc, first, c, Rest[i])
      /\ \A i \in DOMAIN frames : i \in DOMAIN Rest /\ Rest[i].to = frames[i].to
  BY <1>2, RestCopied
<1>6. \A i \in DOMAIN t : CopyCall(doc, first, c, t[i])
  BY <1>3, <1>4, <1>5
<1>7. \A i \in DOMAIN frames : \E j \in DOMAIN t : t[j].to = frames[i].to
  BY <1>3, <1>5
<1>8. \A p \in DOMAIN c : p \in DOMAIN buffer \/ \E j \in DOMAIN t : t[j].to = p
  BY <1>2, <1>3
<1>9. Copies(doc, first, t, c)
  BY <1>1, <1>2, <1>6, <1>7, <1>8, StepCopied
<1> QED BY <1>9 DEF c, t

(* A call for a table or a struct has an item for each of its fields.      *)
LEMMA FieldsCopied ==
  ASSUME NEW d, NEW was, Sound(was), NEW c, NEW o \in DOMAIN Objects, NEW F, F.to \in DOMAIN was,
         was[F.to][1] \in {"table", "struct"}, was[F.to][2] = o, F.todo = FieldItems(o),
         Printed(was, F.to) = F.from,
         F.over # <<>> => F.over[2] = Node(d, Append(F.from, F.over[1]))
  PROVE  CopyCall(d, was, c, F)
<1> DEFINE order == Objects[o].order
<1>1. order \in Seq(DOMAIN Objects[o].type) /\ DOMAIN order = 1 .. Len(order)
  <2>1. order \in Seq(DOMAIN Objects[o].type)
    BY SchemaAssumption
  <2> HIDE DEF order
  <2> QED BY <2>1
<1>2. DOMAIN F.todo = 1 .. Len(order) /\ \A k \in DOMAIN F.todo :
        F.todo[k].key = order[k] /\ F.todo[k].slot = order[k] /\ F.todo[k].over = <<>>
  BY DEF FieldItems, Item
<1>3. ~IsKeyed(was, F.to) /\ was[F.to][1] # "vector"
  BY DEF IsKeyed, Node
<1>4. ASSUME NEW k \in DOMAIN F.todo
      PROVE  CopyItem(d, was, F, F.todo[k])
  <2>1. Label(was, F.to, F.todo[k].slot) = F.todo[k].slot
    BY <1>3 DEF Label
  <2> QED BY <1>2, <1>3, <2>1 DEF CopyItem
<1>5. ASSUME NEW y, Append(F.to, y) \in DOMAIN was
      PROVE  \E k \in DOMAIN F.todo : F.todo[k].slot = y
  <2>1. ChildFits(was, F.to, y)
    BY <1>5, SoundPaths
  <2>2. was[F.to][1] \notin {"vector", "array"}
    OBVIOUS
  <2>3. y \in DOMAIN Objects[o].type
    BY <2>1, <2>2, Zenon DEF ChildFits
  <2>4. PICK k \in DOMAIN order : order[k] = y
    BY <2>3, FieldsAssumption
  <2> HIDE DEF order
  <2> QED BY <1>1, <1>2, <2>4
<1> QED BY <1>4, <1>5, Zenon DEF CopyCall

-----------------------------------------------------------------------------
(* Each step of from_json copies the first buffer. *)

(* A refusal leaves nothing that is not copied. *)
LEMMA RefuseCopied ==
  ASSUME NEW reason, Refuse(reason)
  PROVE  Copies(doc, first, frames', buffer')
<1>1. frames' = <<>> /\ buffer' = Empty
  BY DEF Refuse
<1>2. DOMAIN Empty = {} /\ DOMAIN <<>> = {}
  BY DEF Empty
<1> QED BY <1>1, <1>2 DEF Copies

(* What is not given is not there. *)
LEMMA BuildAbsentCopied ==
  ASSUME Again, BuildAbsent
  PROVE  Copies(doc, first, frames', buffer')
<1>1. Building /\ ~IsGiven
  BY DEF BuildAbsent
<1>2. CASE \E reason : Refuse(reason)
  BY <1>2, RefuseCopied
<1>3. CASE ~\E reason : Refuse(reason)
  <2>1. Move(Rest, buffer)
    BY <1>3, Zenon DEF BuildAbsent
  <2>2. Due.need # "value" /\ Value \in {Absent, Null}
    BY <1>1 DEF IsGiven
  <2>3. To \notin DOMAIN first
    BY <1>1, <2>2, ThereIsGiven
  <2>4. Top.op \notin {"vector", "array"}
    BY <1>1, <2>2, AgainIs, DueTypes, Zenon
  <2>5. Copies(doc, first, Rest, buffer)
    BY <1>1, <2>3, <2>4, NothingCopied
  <2>6. frames' = Rest /\ buffer' = buffer
    BY <2>1 DEF Move
  <2> QED BY <2>5, <2>6
<1> QED BY <1>2, <1>3

(* No scalar is decoded of nothing. *)
LEMMA AbsentIsBad ==
  ASSUME NEW kind
  PROVE  IsBad(Decode(kind, Absent))
<1>1. \A reason : IsBad(Bad(reason))
  BY Pairs DEF IsBad, Bad
<1>2. Absent[1] \notin {"string", "int", "real", "bool"}
  BY DEF Absent
<1>3. ~IsI64(Absent) /\ ~IsNumber(Absent)
  BY <1>2 DEF IsI64, IsNumber
<1>4. /\ DecodeEnum(kind, Absent) = Bad("type") /\ DecodeSigned(kind, Absent) = Bad("type")
      /\ DecodeUnsigned(kind, Absent) = Bad("type") /\ DecodeFloat(kind, Absent) = Bad("type")
      /\ DecodeBool(Absent) = Bad("type")
  BY <1>2, <1>3 DEF DecodeEnum, DecodeSigned, DecodeUnsigned, DecodeFloat, DecodeBool
<1>5. Decode(kind, Absent) = Bad("type")
  BY <1>4, Zenon DEF Decode
<1> QED BY <1>1, <1>5

(* A scalar that is there is decoded as it was. *)
LEMMA ScalarThere ==
  ASSUME Again, Building, To \in DOMAIN first, Type.base \in {"scalar", "disc"}, ~IsBad(Decode(ScalarKind, Value))
  PROVE  /\ first[To] = <<"scalar", ScalarKind, Decode(ScalarKind, Value)>> /\ first[To][1] = "scalar"
         /\ ~Elided(Decode(ScalarKind, Value))
<1> DEFINE parent == buffer[Top.to][1]
           node == first[To]
           s == node[3]
           kind == KindIn(parent, Type)
<1>1. BuiltAs(parent, node, Type)
  BY DueFirst
<1>2. /\ node = <<"scalar", kind, s>>
      /\ s[1] # "inf" => Reprints(node[2], s)
      /\ parent = "table" => s # Type.default
  BY <1>1, Zenon DEF BuiltAs
<1>3. ScalarKind = kind /\ (parent = "table" <=> Top.op = "table")
  BY AgainIs, KindDue
<1>4. Value = Shape(first, To) /\ ~HasNonFinite(first)
  BY AgainIs, DueThere
<1>5. node[1] = "scalar" /\ node[2] = kind
  <2> HIDE DEF node, kind
  <2>1. node = <<"scalar", kind, node[3]>>
    BY <1>2
  <2> QED BY <2>1, Triples
<1>6. Value = Shown(kind, s)
  <2>1. Shape(first, To) = Shown(node[2], node[3])
    BY <1>5, ShapeIs
  <2> HIDE DEF node, kind
  <2> QED BY <1>4, <1>5, <2>1
<1>7. s[1] # "inf"
  BY <1>4, <1>5 DEF HasNonFinite, NonFinite
<1>8. Reprints(kind, s)
  BY <1>2, <1>5, <1>7
<1> HIDE DEF node, kind, parent
<1>9. Decode(ScalarKind, Value) = s
  BY <1>3, <1>6, <1>8 DEF Reprints
<1>10. ~Elided(s)
  BY <1>2, <1>3 DEF Elided
<1> QED BY <1>2, <1>3, <1>5, <1>9, <1>10 DEF node

(* The default of an absent scalar is left out once more. *)
LEMMA DefaultElided ==
  ASSUME Again, Building, Top.op = "table", Top.type \in DOMAIN Objects, Due.key \in DOMAIN Objects[Top.type].type,
         Type = Objects[Top.type].type[Due.key], Type.base \in {"scalar", "disc"},
         Value = Shown(Kinds[Type.of], Type.default), ~IsBad(Decode(ScalarKind, Value))
  PROVE  Elided(Decode(ScalarKind, Value))
<1> DEFINE kind == Kinds[Type.of]
<1>1. ScalarKind = kind
  <2>1. Top.op \notin {"vector", "array"}
    OBVIOUS
  <2> QED BY <2>1, Zenon DEF ScalarKind
<1>2. ~Objects[Top.type].struct
  <2>1. Ordered /\ Known(buffer[Top.to]) /\ buffer[Top.to] = <<"table", Top.type>>
    BY AgainIs, DueFits, DueTypes
  <2>2. buffer[Top.to][1] = "table" /\ buffer[Top.to][2] = Top.type
    BY <2>1, Pairs
  <2>3. Objects[Top.type].struct = ("table" = "struct")
    BY <2>1, <2>2 DEF Known
  <2> QED BY <2>3
<1>3. Decode(kind, Type.default) = Type.default
  BY <1>2, FieldsAssumption
<1>4. Type.default[1] \notin {"bad", "inf"}
  <2>1. CASE Type.base = "scalar"
    <3>1. Type.default[1] \in {"bool", "int", "real"}
      BY <2>1, FieldTypes
    <3> QED BY <3>1
  <2>2. CASE Type.base = "disc"
    <3>1. Type.default = <<"int", 0>>
      BY <2>2, FieldsAssumption
    <3> QED BY <3>1, Pairs
  <2> QED BY <2>1, <2>2
<1>5. Reprints(kind, Type.default)
  <2> HIDE DEF kind
  <2>1. Decode(kind, Type.default) = Type.default
    BY <1>3 DEF kind
  <2> QED BY <1>4, <2>1, ScalarsReprint
<1>6. Value = Shown(kind, Type.default) /\ ~IsBad(Decode(kind, Value))
  BY <1>1
<1> HIDE DEF kind
<1>7. Decode(ScalarKind, Value) = Type.default
  BY <1>1, <1>5, <1>6 DEF Reprints
<1> QED BY <1>7 DEF Elided

(* A scalar is the one that was printed. *)
LEMMA BuildScalarCopied ==
  ASSUME Again, BuildScalar
  PROVE  Copies(doc, first, frames', buffer')
<1>1. Building /\ IsGiven /\ Type.base \in {"scalar", "disc"}
  BY DEF BuildScalar
<1> DEFINE scalar == Decode(ScalarKind, Value)
<1>2. CASE IsBad(scalar)
  <2>1. Refuse(scalar[2])
    BY <1>2 DEF BuildScalar
  <2> QED BY <2>1, RefuseCopied
<1>3. CASE ~IsBad(scalar)
  <2>1. frames' = Rest /\ buffer' = IF Elided(scalar) THEN buffer ELSE Put(To, <<"scalar", ScalarKind, scalar>>)
    BY <1>3 DEF BuildScalar, Move
  <2>2. Value # Absent
    BY <1>3, AbsentIsBad
  <2>3. CASE To \in DOMAIN first
    <3>1. first[To] = <<"scalar", ScalarKind, scalar>> /\ first[To][1] = "scalar" /\ ~Elided(scalar)
      BY <1>1, <1>3, <2>3, ScalarThere
    <3> HIDE DEF scalar
    <3>2. buffer' = Put(To, first[To])
      BY <2>1, <3>1
    <3>3. Copies(doc, first, Rest, Put(To, first[To]))
      BY <1>1, <2>3, <3>1, LeafCopied
    <3> QED BY <2>1, <3>2, <3>3
  <2>4. CASE To \notin DOMAIN first
    <3>1. /\ Top.op = "table" /\ Top.type \in DOMAIN Objects
          /\ Due.key \in DOMAIN Objects[Top.type].type /\ Type = Objects[Top.type].type[Due.key]
          /\ Value = Shown(Kinds[Type.of], Type.default)
      BY <1>1, <2>2, <2>4, DueGiven
    <3>2. Elided(scalar)
      BY <1>1, <1>3, <3>1, DefaultElided
    <3>3. Copies(doc, first, Rest, buffer)
      BY <1>1, <2>4, <3>1, NothingCopied
    <3> QED BY <2>1, <3>2, <3>3
  <2> QED BY <2>3, <2>4
<1> QED BY <1>2, <1>3

(* A string or bytes. *)
LEMMA BuildStringCopied ==
  ASSUME Again, BuildString
  PROVE  Copies(doc, first, frames', buffer')
<1>1. Building /\ IsGiven /\ Type.base = "string"
  BY DEF BuildString
<1>2. CASE Value[1] = "string"
  <2>1. frames' = Rest /\ buffer' = Put(To, Value)
    BY <1>2 DEF BuildString, Move
  <2>2. Value # Absent
    BY <1>2 DEF Absent
  <2>3. To \in DOMAIN first
    <3>1. Type.base \notin {"scalar", "disc"}
      BY <1>1
    <3> QED BY <1>1, <2>2, <3>1, DueGiven
  <2>4. first[To][1] = "string"
    <3>1. Fits(first[To], Type)
      BY <1>1, <2>3, DueFirst
    <3> QED BY <1>1, <3>1 DEF Fits, Tag
  <2>5. Value = first[To]
    BY <1>1, <2>3, <2>4, DueThere, ShapeIs
  <2>6. Copies(doc, first, Rest, Put(To, first[To]))
    BY <1>1, <2>3, <2>4, LeafCopied
  <2> QED BY <2>1, <2>5, <2>6
<1>3. CASE Value[1] # "string"
  <2>1. Refuse("type")
    BY <1>3 DEF BuildString
  <2> QED BY <2>1, RefuseCopied
<1> QED BY <1>2, <1>3

(* Bytes are encoded and decoded again. *)
LEMMA BuildBytesCopied ==
  ASSUME Again, BuildBytes
  PROVE  Copies(doc, first, frames', buffer')
<1>1. Building /\ IsGiven /\ Type.base = "bytes"
  BY Zenon DEF BuildBytes
<1>2. CASE \E reason : Refuse(reason)
  BY <1>2, RefuseCopied
<1>3. CASE ~\E reason : Refuse(reason)
  <2>1. \/ /\ Value[1] = "string"
           /\ Move(Rest, Put(To, <<"bytes", Type.of, Codecs[Type.of].decode[Value[2]]>>))
        \/ Value[1] = "array"
    BY <1>3, Zenon DEF BuildBytes
  <2>2. Value # Absent
    BY <2>1 DEF Absent
  <2>3. To \in DOMAIN first
    <3>1. Type.base \notin {"scalar", "disc"}
      BY <1>1
    <3> QED BY <1>1, <2>2, <3>1, DueGiven
  <2> DEFINE node == first[To]
             bytes == node[3]
  <2>4. node = <<"bytes", Type.of, bytes>> /\ bytes \in DOMAIN Codecs[Type.of].encode
    <3>1. BuiltAs(buffer[Top.to][1], node, Type)
      BY <1>1, <2>3, DueFirst
    <3> HIDE DEF node
    <3> QED BY <1>1, <3>1, Zenon DEF BuiltAs
  <2>5. node[1] = "bytes" /\ node[2] = Type.of
    <3>1. node = <<"bytes", Type.of, node[3]>>
      BY <2>4
    <3> HIDE DEF node
    <3> QED BY <3>1, Triples
  <2>6. Value = <<"string", Codecs[Type.of].encode[bytes]>>
    <3>1. Shape(first, To) = <<"string", Codecs[node[2]].encode[node[3]]>>
      BY <2>5, ShapeIs
    <3> QED BY <1>1, <2>3, <2>5, <3>1, DueThere
  <2>7. Type.of \in DOMAIN Codecs
    BY <1>1, AgainIs, DueFits DEF WellTyped, Refers
  <2>8. Codecs[Type.of].decode[Codecs[Type.of].encode[bytes]] = bytes
    BY <2>4, <2>7, CodecAssumption
  <2> HIDE DEF node
  <2>9. Move(Rest, Put(To, <<"bytes", Type.of, bytes>>))
    <3>1. Value[1] = "string" /\ Value[2] = Codecs[Type.of].encode[bytes]
      BY <2>6, Pairs
    <3> QED BY <2>1, <2>8, <3>1
  <2>10. frames' = Rest /\ buffer' = Put(To, node)
    BY <2>4, <2>9 DEF Move
  <2>11. Copies(doc, first, Rest, Put(To, first[To]))
    <3>1. first[To][1] = "bytes"
      BY <2>5 DEF node
    <3> QED BY <1>1, <2>3, <3>1, LeafCopied
  <2> QED BY <2>10, <2>11 DEF node
<1> QED BY <1>2, <1>3

(* The object of a table or a struct is that of one that was there. *)
LEMMA ObjectCopied ==
  ASSUME Again, Building, Type.base \in {"table", "struct"}, Value[1] = "object",
         NEW op, NEW depth, NEW over, over = <<>> \/ over = Due.over,
         Move(Append(Rest, Frame(op, From, To, Type.of, depth, over, FieldItems(Type.of))),
              Put(To, <<Type.base, Type.of>>))
  PROVE  Copies(doc, first, frames', buffer')
<1> DEFINE F == Frame(op, From, To, Type.of, depth, over, FieldItems(Type.of))
           o == Type.of
           node == first[To]
<1>1. Value # Absent
  BY DEF Absent
<1>2. To \in DOMAIN first
  <2>1. Type.base \notin {"scalar", "disc"}
    OBVIOUS
  <2> QED BY <1>1, <2>1, DueGiven
<1>3. node = <<Type.base, o>>
  <2>1. Fits(first[To], Type) /\ Type.base # "union"
    BY <1>2, DueFirst
  <2> QED BY <2>1 DEF Fits
<1>4. node[1] = Type.base /\ node[2] = o
  <2> HIDE DEF node, o
  <2> QED BY <1>3, Pairs
<1>5. o \in DOMAIN Objects
  BY AgainIs, DueFits DEF WellTyped, Refers
<1>6. Printed(first, To) = From
  BY <1>2, DueThere
<1>7. over # <<>> => over[2] = Node(doc, Append(From, over[1]))
  BY AgainIs, DueCopied, DueFits DEF CopyItem
<1>8. CopyCall(doc, first, Put(To, node), F)
  <2>1. F.to = To /\ F.from = From /\ F.over = over /\ F.todo = FieldItems(o)
    BY DEF Frame
  <2>2. Sound(first)
    BY AgainIs
  <2> DEFINE c == Put(To, node)
  <2>3. first[F.to][1] \in {"table", "struct"} /\ first[F.to][2] = o /\ F.to \in DOMAIN first
    BY <1>2, <1>4, <2>1
  <2> HIDE DEF F, o, c, node
  <2>4. Printed(first, F.to) = F.from /\ (F.over # <<>> => F.over[2] = Node(doc, Append(F.from, F.over[1])))
    BY <1>6, <1>7, <2>1
  <2>5. CopyCall(doc, first, c, F)
    BY <1>5, <2>1, <2>2, <2>3, <2>4, FieldsCopied
  <2> QED BY <2>5 DEF c
<1>9. F.to = To
  BY DEF Frame
<1> DEFINE t == Append(Rest, F)
<1>10. frames' = t /\ buffer' = Put(To, node)
  BY <1>3 DEF Move
<1> HIDE DEF F
<1>11. Copies(doc, first, t, Put(To, node))
  BY <1>2, <1>8, <1>9, CallCopied
<1> QED BY <1>10, <1>11

(* A table. *)
LEMMA BuildTableCopied ==
  ASSUME Again, BuildTable
  PROVE  Copies(doc, first, frames', buffer')
<1>1. Building /\ IsGiven /\ Type.base = "table"
  BY DEF BuildTable
<1>2. CASE \E reason : Refuse(reason)
  BY <1>2, RefuseCopied
<1>3. CASE ~\E reason : Refuse(reason)
  <2>1. Value[1] = "object" /\ EnterTable(From, To, Type.of, Top.depth + 1, Due.over, Rest)
    BY <1>3, Zenon DEF BuildTable
  <2>2. Move(Append(Rest, Frame("table", From, To, Type.of, Top.depth + 1, Due.over, FieldItems(Type.of))),
             Put(To, <<"table", Type.of>>))
    BY <1>3, <2>1, Zenon DEF EnterTable
  <2> QED BY <1>1, <2>1, <2>2, ObjectCopied
<1> QED BY <1>2, <1>3

(* A struct. *)
LEMMA BuildStructCopied ==
  ASSUME Again, BuildStruct
  PROVE  Copies(doc, first, frames', buffer')
<1>1. Building /\ IsGiven /\ Type.base = "struct"
  BY DEF BuildStruct
<1> DEFINE op == IF Top.op = "table" /\ Due.need = "value" THEN "variant" ELSE "struct"
<1>2. CASE \E reason : Refuse(reason)
  BY <1>2, RefuseCopied
<1>3. CASE ~\E reason : Refuse(reason)
  <2>1. Value[1] = "object" /\ EnterStruct(op, From, To, Type.of, Rest)
    BY <1>3, Zenon DEF BuildStruct
  <2> HIDE DEF op
  <2>2. Move(Append(Rest, Frame(op, From, To, Type.of, Top.depth, <<>>, FieldItems(Type.of))),
             Put(To, <<"struct", Type.of>>))
    BY <1>3, <2>1, Zenon DEF EnterStruct
  <2> QED BY <1>1, <2>1, <2>2, ObjectCopied
<1> QED BY <1>2, <1>3

(* What is in a node is finitely much. *)
LEMMA KeysFinite ==
  ASSUME NEW b, IsFiniteSet(DOMAIN b), NEW p
  PROVE  IsFiniteSet(KeysAt(b, p))
<1> DEFINE K == KeysAt(b, p)
           R == {r \in DOMAIN b : Len(r) = Len(p) + 1 /\ IsPrefix(p, r)}
           g == [r \in R |-> r[Len(r)]]
<1>1. g \in [R -> K] /\ \A k \in K : \E r \in R : g[r] = k
  BY DEF KeysAt
<1>2. R \in SUBSET DOMAIN b
  OBVIOUS
<1> HIDE DEF R, K, g
<1>3. IsFiniteSet(R)
  BY <1>2, FS_Subset
<1>4. g \in Surjection(R, K)
  BY <1>1 DEF Surjection
<1> QED BY <1>3, <1>4, FS_Surjection DEF K

(* As many positions as there are keys are all the keys, if they are keys. *)
LEMMA PositionsFill ==
  ASSUME NEW K, IsFiniteSet(K), Cardinality(K) \in 0 .. Len(Position),
         \A i \in 1 .. Cardinality(K) : Position[i] \in K
  PROVE  \A k \in K : \E i \in 1 .. Cardinality(K) : Position[i] = k
<1> DEFINE n == Cardinality(K)
           P == {Position[i] : i \in 1 .. n}
           f == [i \in 1 .. n |-> Position[i]]
<1>1. Len(Position) \in Nat /\ DOMAIN Position = 1 .. Len(Position) /\ Distinct(Position)
  <2> DEFINE own == {Position[i] : i \in DOMAIN Position}
  <2>1. Position \in Seq(own) /\ Distinct(Position)
    BY PositionAssumption
  <2> HIDE DEF own
  <2> QED BY <2>1
<1>2. n \in Nat /\ n <= Len(Position)
  <2> HIDE DEF n
  <2>1. n \in 0 .. Len(Position)
    BY DEF n
  <2> QED BY <1>1, <2>1
<1> HIDE DEF n
<1>3. f \in [1 .. n -> K]
  BY DEF n
<1>4. \A i, j \in 1 .. n : f[i] = f[j] => i = j
  <2>1. \A i \in 1 .. n : i \in DOMAIN Position /\ f[i] = Position[i]
    BY <1>1, <1>2
  <2> QED BY <1>1, <2>1 DEF Distinct
<1>5. IsFiniteSet(1 .. n) /\ Cardinality(1 .. n) = n
  BY <1>2, FS_Interval
<1>6. \A i \in 1 .. n : f[i] = Position[i]
  OBVIOUS
<1> HIDE DEF f
<1>7. f \in Injection(1 .. n, K)
  BY <1>3, <1>4 DEF Injection, IsInjective
<1>8. f \in Surjection(1 .. n, K)
  BY <1>5, <1>7, FS_Injection DEF n
<1>9. \A k \in K : \E i \in 1 .. n : f[i] = k
  BY <1>8 DEF Surjection
<1> QED BY <1>6, <1>9 DEF n

(* An array has in the document what it had in the buffer. *)
LEMMA ArrayKeys ==
  ASSUME NEW b, Whole(b), Made(b), NEW p \in Seen(b), b[p][1] \in {"vector", "array"}, ~IsKeyed(b, p)
  PROVE  KeysAt(Json(b), Printed(b, p)) = KeysAt(b, p)
<1> DEFINE from == Printed(b, p)
<1>1. Sound(b) /\ Path(p) /\ Path(from)
  BY SoundPaths, PrintedPath DEF Whole, Seen
<1>2. \A x \in DOMAIN Json(b) : Path(x)
  BY <1>1, JsonPaths
<1>3. ASSUME NEW x \in KeysAt(Json(b), from)
      PROVE  x \in KeysAt(b, p)
  <2>1. Append(from, x) \in DOMAIN Json(b)
    BY <1>1, <1>2, KeysAre
  <2>2. ~DefaultAt(b, p, x)
    BY Zenon DEF DefaultAt
  <2>3. PICK y : Append(p, y) \in Seen(b) /\ x = Label(b, p, y)
    BY <2>1, <2>2, BelowAt, Zenon
  <2>4. x = y /\ Append(p, y) \in DOMAIN b
    BY <2>3 DEF Label, Seen
  <2> QED BY <1>1, <2>4, SoundPaths
<1>4. ASSUME NEW x \in KeysAt(b, p)
      PROVE  x \in KeysAt(Json(b), from)
  <2>1. Append(p, x) \in DOMAIN b
    BY <1>1, SoundPaths
  <2>2. Append(p, x) \in Seen(b)
    BY <1>1, <2>1, SeenGrows
  <2>3. Printed(b, Append(p, x)) \in DOMAIN Json(b)
    BY <1>1, <2>2, ShapeBelow
  <2>4. Printed(b, Append(p, x)) = Append(from, x)
    BY <1>1, PrintedGrows DEF Label
  <2> QED BY <1>1, <1>2, <2>3, <2>4, KeysAre
<1> QED BY <1>3, <1>4

(* A list is copied from an array. *)
LEMMA ListCopied ==
  ASSUME Again, Building, Type.base \in {"vector", "array"}, Value[1] = "array", InPositions, NEW depth,
         Move(Append(Rest, Frame(Type.base, From, To, Type.of, depth, <<>>, ElementItems)),
              Put(To, <<Type.base, Type>>))
  PROVE  Copies(doc, first, frames', buffer')
<1> DEFINE F == Frame(Type.base, From, To, Type.of, depth, <<>>, ElementItems)
           node == first[To]
           K == KeysAt(doc, From)
           n == Cardinality(K)
<1>1. Value # Absent
  BY DEF Absent
<1>2. To \in DOMAIN first
  <2>1. Type.base \notin {"scalar", "disc"}
    OBVIOUS
  <2> QED BY <1>1, <2>1, DueGiven
<1>3. node = <<Type.base, Type>>
  <2>1. Fits(first[To], Type) /\ Type.base # "union"
    BY <1>2, DueFirst
  <2> QED BY <2>1 DEF Fits
<1>4. node[1] = Type.base /\ node[2] = Type
  <2> HIDE DEF node
  <2>1. \A base : node = <<base, Type>> => node[1] = base /\ node[2] = Type
    BY Pairs
  <2> QED BY <1>3, <2>1
<1>5. Printed(first, To) = From /\ To \in Seen(first) /\ Value = Shape(first, To)
  BY <1>2, DueThere
<1>6. Whole(first) /\ Made(first) /\ Sound(first) /\ doc = Json(first) /\ Path(To)
  BY AgainIs, DueIs, DueFits
<1>7. ~IsKeyed(first, To)
  <2>1. IsKeyed(first, To) => Shape(first, To) = <<"object", 0>>
    BY <1>4, ShapeIs
  <2>2. \A v : v = <<"object", 0>> => v[1] = "object"
    BY Pairs
  <2> QED BY <1>5, <2>1, <2>2
<1>8. K = KeysAt(first, To)
  <2>1. first[To][1] \in {"vector", "array"}
    BY <1>4
  <2>2. KeysAt(Json(first), Printed(first, To)) = KeysAt(first, To)
    BY <1>5, <1>6, <1>7, <2>1, ArrayKeys
  <2> QED BY <1>5, <1>6, <2>2
<1>9. IsFiniteSet(K)
  <2>1. IsFiniteSet(DOMAIN first)
    BY <1>6, Zenon DEF Made
  <2> QED BY <1>8, <2>1, KeysFinite
<1>10. /\ DOMAIN F.todo = 1 .. n
       /\ \A k \in 1 .. n : F.todo[k].key = Position[k] /\ F.todo[k].slot = Position[k] /\ F.todo[k].over = <<>>
  <2>1. F.todo = ElementItems
    BY DEF Frame
  <2>2. DOMAIN ElementItems = 1 .. n
    BY DEF ElementItems, Elements
  <2>3. \A k \in 1 .. n : ElementItems[k].key = Position[k] /\ ElementItems[k].slot = Position[k] /\ ElementItems[k].over = <<>>
    BY <2>2 DEF ElementItems, Item
  <2> QED BY <2>1, <2>2, <2>3
<1>11. F.op = Type.base /\ F.to = To /\ F.from = From /\ F.over = <<>>
  BY DEF Frame
<1>12. n \in 0 .. Len(Position)
  BY DEF InPositions
<1> HIDE DEF F, n, K, node
<1>13. ASSUME NEW k \in DOMAIN F.todo
       PROVE  CopyItem(doc, first, F, F.todo[k])
  BY <1>7, <1>10, <1>11 DEF CopyItem, Label
<1>14. ASSUME \A i \in 1 .. n : Position[i] \in K
       PROVE  CopyCall(doc, first, Put(To, node), F)
  <2>1. \A y \in K : \E i \in 1 .. n : Position[i] = y
    BY <1>9, <1>12, <1>14, PositionsFill DEF n
  <2>2. \A y : Append(F.to, y) \in DOMAIN first => y \in K
    BY <1>6, <1>8, <1>11, SoundPaths
  <2>3. \A y : Append(F.to, y) \in DOMAIN first => \E k \in DOMAIN F.todo : F.todo[k].slot = y
    BY <1>10, <2>1, <2>2
  <2> QED BY <1>5, <1>11, <1>13, <2>3, Zenon DEF CopyCall
<1>15. ASSUME ~\A i \in 1 .. n : Position[i] \in K
       PROVE  CopyCall(doc, first, Put(To, node), F)
  <2>1. PICK i \in 1 .. n : Position[i] \notin K
    BY <1>15
  <2>2. Append(To, Position[i]) \notin DOMAIN first
    BY <1>6, <1>8, <2>1, SoundPaths
  <2>3. Gaps(first, F)
    BY <1>10, <1>11, <2>1, <2>2 DEF Gaps
  <2> QED BY <1>5, <1>11, <1>13, <2>3, Zenon DEF CopyCall
<1>16. CopyCall(doc, first, Put(To, node), F)
  BY <1>14, <1>15
<1> DEFINE t == Append(Rest, F)
<1>17. frames' = t /\ buffer' = Put(To, node)
  BY <1>3 DEF Move, F, node
<1>18. Copies(doc, first, t, Put(To, node))
  BY <1>2, <1>11, <1>16, CallCopied DEF node
<1> QED BY <1>17, <1>18

(* A vector or an array. *)
LEMMA BuildVectorCopied ==
  ASSUME Again, BuildVector
  PROVE  Copies(doc, first, frames', buffer')
<1>1. Building /\ Type.base = "vector" /\ InPositions
  BY Zenon DEF BuildVector
<1>2. CASE \E reason : Refuse(reason)
  BY <1>2, RefuseCopied
<1>3. CASE ~\E reason : Refuse(reason)
  <2>1. /\ Value[1] = "array"
        /\ Move(Append(Rest, Frame("vector", From, To, Type.of, Top.depth + 1, <<>>, ElementItems)),
                Put(To, <<"vector", Type>>))
    BY <1>3, Zenon DEF BuildVector
  <2> QED BY <1>1, <2>1, ListCopied
<1> QED BY <1>2, <1>3

(* A fixed-size array of a struct. *)
LEMMA BuildArrayCopied ==
  ASSUME Again, BuildArray
  PROVE  Copies(doc, first, frames', buffer')
<1>1. Building /\ Type.base = "array" /\ InPositions
  BY Zenon DEF BuildArray
<1>2. CASE \E reason : Refuse(reason)
  BY <1>2, RefuseCopied
<1>3. CASE ~\E reason : Refuse(reason)
  <2>1. /\ Value[1] = "array"
        /\ Move(Append(Rest, Frame("array", From, To, Type.of, Top.depth, <<>>, ElementItems)),
                Put(To, <<"array", Type>>))
    BY <1>3, Zenon DEF BuildArray
  <2> QED BY <1>1, <2>1, ListCopied
<1> QED BY <1>2, <1>3

(* The discriminator of a union that is there is the one that is printed.  *)
LEMMA UnionNamed ==
  ASSUME Again, Building, Type.base = "union", To \in DOMAIN first
  PROVE  /\ Append(Top.to, Type.disc) \in Seen(first)
         /\ first[Append(Top.to, Type.disc)] = <<"scalar", DiscKind, <<"int", DiscKind.names[Disc[2]]>>>>
         /\ DiscKind.names[Disc[2]] # 0
<1> DEFINE p == Top.to
           o == Top.type
           d == Type.disc
           q == Append(p, d)
<1>1. /\ Top.op = "table" /\ o \in DOMAIN Objects /\ Due.key \in DOMAIN Objects[o].type
      /\ Type = Objects[o].type[Due.key] /\ buffer[p][1] = "table" /\ buffer[p][2] = o
      /\ d \in DOMAIN Objects[o].type /\ Objects[o].type[d].base = "disc"
  BY AgainIs, UnionDue
<1>2. PICK w \in DOMAIN Variants[Type.of] : Told(first, p, d, w) /\ Disc = <<"string", w>>
  <2> DEFINE t == Objects[Top.type].type[Due.key]
  <2>1. Top.op = "table" /\ Objects[Top.type].type[Due.key].base = "union" /\ Type = t
    BY <1>1
  <2>2. \E w \in DOMAIN Variants[t.of] : Told(first, Top.to, t.disc, w) /\ Node(doc, Append(Top.from, t.disc)) = <<"string", w>>
    BY <2>1, UnionThere, Zenon
  <2> HIDE DEF t
  <2>3. \E w \in DOMAIN Variants[Type.of] : Told(first, p, d, w) /\ Node(doc, Append(Top.from, d)) = <<"string", w>>
    BY <2>1, <2>2
  <2> QED BY <2>3, Zenon DEF Disc
<1>3. Disc[2] = w
  BY <1>2, Pairs
<1>4. p \in Seen(first) /\ first[p] = buffer[p] /\ Path(p) /\ Sound(first) /\ Made(first)
  BY DueCopied, AgainIs, DueIs, DueFits
<1>5. q \in DOMAIN first /\ first[q] = <<"scalar", DiscKind, <<"int", DiscKind.names[w]>>>>
  <2>1. first[p][2] = o
    BY <1>1, <1>4
  <2>2. DiscKind = Kinds[Objects[first[p][2]].type[d].of]
    BY <2>1 DEF DiscKind
  <2> HIDE DEF p, d, o
  <2> QED BY <1>2, <2>2, Zenon DEF Told
<1>6. q \in Seen(first)
  <2>1. first[p][1] = "table" /\ p \in DOMAIN first
    BY <1>1, <1>4 DEF Seen
  <2> HIDE DEF p, d
  <2>2. ~IsKeyed(first, p)
    BY <2>1 DEF IsKeyed, Node
  <2> QED BY <1>4, <1>5, <2>2, SeenGrows
<1>7. DiscKind.names[w] # 0
  <2> DEFINE T == Objects[o].type[d]
             x == DiscKind.names[w]
             node == first[q]
  <2>1. T.default = <<"int", 0>> /\ T.base = "disc"
    BY <1>1, FieldsAssumption
  <2>2. TypeAt(first, p, d, T)
    <3>1. first[p][1] = "table" /\ first[p][2] = o
      BY <1>1, <1>4
    <3>2. d \in DOMAIN Objects[o].type /\ T.base # "union"
      BY <1>1
    <3> HIDE DEF p, d, o
    <3> QED BY <3>1, <3>2 DEF TypeAt
  <2>3. d \in KeysAt(first, p) /\ p \in DOMAIN first
    <3> HIDE DEF p, d
    <3> QED BY <1>4, <1>5, SoundPaths DEF Seen
  <2>4. BuiltAs("table", node, T)
    <3>1. first[p][1] = "table"
      BY <1>1, <1>4
    <3> HIDE DEF p, d, o, T
    <3> QED BY <1>4, <2>2, <2>3, <3>1, Zenon DEF Made
  <2>5. node[3] # T.default
    <3> HIDE DEF node, T
    <3> QED BY <2>1, <2>4 DEF BuiltAs
  <2> HIDE DEF node, T
  <2>6. node = <<"scalar", DiscKind, <<"int", x>>>>
    BY <1>5 DEF node
  <2> HIDE DEF x
  <2>7. node[3] = <<"int", x>>
    BY <2>6, Triples
  <2>8. x # 0
    BY <2>1, <2>5, <2>7
  <2> QED BY <2>8 DEF x
<1> QED BY <1>3, <1>5, <1>6, <1>7

(* A union, of which nothing is there or the variant that was. *)
LEMMA BuildUnionCopied ==
  ASSUME Again, BuildUnion
  PROVE  Copies(doc, first, frames', buffer')
<1> DEFINE node == <<"scalar", DiscKind, <<"int", DiscKind.names[Disc[2]]>>>>
           q == Append(Top.to, Type.disc)
           c == Put(q, node)
           n == Len(frames)
           t == [frames EXCEPT ![n].todo = <<VariantItem>> \o Tail(@)]
<1>1. Building /\ Type.base = "union"
  BY Zenon DEF BuildUnion
<1>2. Ordered /\ Copies(doc, first, frames, buffer)
  BY AgainIs
<1>3. CASE \E reason : Refuse(reason)
  BY <1>3, RefuseCopied
<1>4. CASE ~(\E reason : Refuse(reason)) /\ To \notin DOMAIN first
  <2>1. Top.op \notin {"vector", "array"}
    <3>1. Top.op = "table"
      BY <1>1, <1>2, UnionDue
    <3> QED BY <3>1
  <2>2. Copies(doc, first, Rest, buffer)
    BY <1>1, <1>4, <2>1, NothingCopied
  <2>3. Value = Absent
    <3>1. Type.base \notin {"scalar", "disc"}
      BY <1>1
    <3> QED BY <1>1, <1>4, <3>1, DueGiven
  <2>4. Move(Rest, buffer)
    BY <1>4, <2>3, Zenon DEF BuildUnion
  <2> QED BY <2>2, <2>4 DEF Move
<1>5. CASE ~(\E reason : Refuse(reason)) /\ To \in DOMAIN first
  <2>1. q \in Seen(first) /\ first[q] = node /\ DiscKind.names[Disc[2]] # 0
    BY <1>1, <1>5, UnionNamed
  <2>2. Value \notin {Absent, Null}
    BY <1>1, <1>5, ThereIsGiven
  <2>3. Move(t, c)
    BY <1>5, <2>1, <2>2, Zenon DEF BuildUnion
  <2>4. /\ DOMAIN t = DOMAIN frames /\ \A i \in DOMAIN frames : i # n => t[i] = frames[i]
        /\ t[n].op = Top.op /\ t[n].from = Top.from /\ t[n].to = Top.to /\ t[n].over = Top.over
        /\ DOMAIN t[n].todo = DOMAIN Top.todo
        /\ \A k \in DOMAIN Top.todo : t[n].todo[k] = IF k = 1 THEN VariantItem ELSE Top.todo[k]
    BY <1>1, <1>2, UnionGoesOn DEF Ordered
  <2>5. n \in DOMAIN frames /\ Top = frames[n] /\ Due = Top.todo[1] /\ 1 \in DOMAIN Top.todo
    BY <1>1, <1>2, DueIs DEF Ordered
  <2>6. CopyCall(doc, first, buffer, Top) /\ CopyItem(doc, first, Top, Due)
    BY <1>1, DueCopied
  <2>7. Due.over = <<>> /\ Top.op = "table"
    <3>1. Top.op = "table"
      BY <1>1, <1>2, UnionDue
    <3>2. Top.op \notin {"vector", "array"}
      BY <3>1
    <3> QED BY <1>1, <1>2, <3>1, <3>2, DueTypes, Zenon
  <2>8. VariantItem.key = Due.key /\ VariantItem.slot = Due.slot /\ VariantItem.over = <<>>
    BY DEF VariantItem, Item
  <2> HIDE DEF t, node, q
  <2>9. DOMAIN c = DOMAIN buffer \cup {q} /\ \A p \in DOMAIN c : c[p] = IF p = q THEN node ELSE buffer[p]
    BY DEF Put
  <2> HIDE DEF c, n
  <2>10. DOMAIN buffer \subseteq DOMAIN c /\ \A p \in DOMAIN c : p \in Seen(first) /\ c[p] = first[p]
    <3>1. \A p \in DOMAIN buffer : p \in Seen(first) /\ buffer[p] = first[p]
      BY <1>2 DEF Copies
    <3> QED BY <2>1, <2>9, <3>1
  <2>11. CopyCall(doc, first, c, t[n])
    <3>1. ASSUME NEW k \in DOMAIN t[n].todo
          PROVE  CopyItem(doc, first, t[n], t[n].todo[k])
      <4>1. CASE k = 1
        <5>1. t[n].todo[k] = VariantItem
          BY <2>4, <2>5, <4>1
        <5> QED BY <2>4, <2>6, <2>8, <5>1 DEF CopyItem
      <4>2. CASE k # 1
        <5>1. t[n].todo[k] = Top.todo[k] /\ k \in DOMAIN Top.todo
          BY <2>4, <4>2
        <5>2. CopyItem(doc, first, Top, Top.todo[k])
          BY <2>6, <5>1, Zenon DEF CopyCall
        <5> QED BY <2>4, <5>1, <5>2 DEF CopyItem
      <4> QED BY <4>1, <4>2
    <3>2. ASSUME NEW y, Append(t[n].to, y) \in DOMAIN first
          PROVE  Append(t[n].to, y) \in DOMAIN c \/ \E k \in DOMAIN t[n].todo : t[n].todo[k].slot = y
      <4>1. ~Gaps(first, Top)
        BY <2>7 DEF Gaps
      <4>2. Append(Top.to, y) \in DOMAIN buffer \/ \E k \in DOMAIN Top.todo : Top.todo[k].slot = y
        BY <2>4, <2>6, <3>2, <4>1, Zenon DEF CopyCall
      <4>3. \A k \in DOMAIN Top.todo : t[n].todo[k].slot = Top.todo[k].slot
        BY <2>4, <2>5, <2>8
      <4> QED BY <2>4, <2>10, <4>2, <4>3
    <3>3. Printed(first, t[n].to) = t[n].from
      BY <2>4, <2>6, Zenon DEF CopyCall
    <3>4. t[n].over # <<>> => t[n].over[2] = Node(doc, Append(t[n].from, t[n].over[1]))
      <4>1. Top.over # <<>> => Top.over[2] = Node(doc, Append(Top.from, Top.over[1]))
        BY <2>6, Zenon DEF CopyCall
      <4> QED BY <2>4, <4>1
    <3> QED BY <3>1, <3>2, <3>3, <3>4, Zenon DEF CopyCall
  <2>12. ASSUME NEW i \in DOMAIN t
         PROVE  CopyCall(doc, first, c, t[i])
    <3>1. CASE i = n
      BY <2>11, <3>1
    <3>2. CASE i # n
      <4>1. t[i] = frames[i] /\ CopyCall(doc, first, buffer, frames[i])
        BY <1>2, <2>4, <3>2 DEF Copies
      <4> QED BY <2>10, <4>1, CallGoesOn
    <3> QED BY <3>1, <3>2
  <2>13. \A i \in DOMAIN frames : \E j \in DOMAIN t : t[j].to = frames[i].to
    BY <2>4, <2>5
  <2>14. Full(first, c, q)
    <3>1. first[q][1] = "scalar"
      BY <2>1, Triples DEF node
    <3>2. Sound(first) /\ q \in DOMAIN first
      BY <2>1, AgainIs DEF Seen
    <3> QED BY <3>1, <3>2, LeavesEmpty DEF Full
  <2>15. \A p \in DOMAIN c : p \in DOMAIN buffer \/ Full(first, c, p)
    BY <2>9, <2>14
  <2>16. Copies(doc, first, t, c)
    BY <1>2, <2>10, <2>12, <2>13, <2>15, StepCopied
  <2> QED BY <2>3, <2>16 DEF Move
<1> QED BY <1>3, <1>4, <1>5

-----------------------------------------------------------------------------
(* Keyed vectors. *)

(* What grows from each place to the next grows from place to place. *)
LEMMA GrowsOn ==
  ASSUME NEW m \in Nat, NEW r, \A i \in 1 .. m : r[i] \in Int, \A i \in 2 .. m : r[i - 1] < r[i]
  PROVE  \A i, j \in 1 .. m : i < j => r[i] < r[j]
<1> SUFFICES ASSUME NEW i \in 1 .. m, NEW j \in 1 .. m, i < j, ~(r[i] < r[j])
             PROVE  FALSE
  OBVIOUS
<1> DEFINE T == {k \in 1 .. m : i < k /\ ~(r[i] < r[k])}
<1>1. T \subseteq Nat /\ T # {}
  OBVIOUS
<1>2. PICK k \in T : \A l \in T : k <= l
  <2> HIDE DEF T
  <2> QED BY <1>1, LeastOfNaturals
<1>3. k \in 2 .. m /\ k - 1 \in 1 .. m /\ i < k /\ ~(r[i] < r[k]) /\ r[k - 1] < r[k]
  OBVIOUS
<1>4. k - 1 \notin T
  <2> HIDE DEF T
  <2> QED BY <1>1, <1>2, <1>3
<1>5. k - 1 = i \/ r[i] < r[k - 1]
  BY <1>3, <1>4
<1> QED BY <1>3, <1>5

(* f has all of K, in the order of their ranks. *)
Enumerates(f, m, K, R) ==
  /\ \A i \in 1 .. m : f[i] \in K
  /\ \A k \in K : \E i \in 1 .. m : f[i] = k
  /\ \A i, j \in 1 .. m : i < j => R[f[i]] < R[f[j]]

(* There is one way to do so. *)
LEMMA OneOrder ==
  ASSUME NEW m \in Nat, NEW K, NEW R, \A k \in K : R[k] \in Int,
         NEW f, Enumerates(f, m, K, R), NEW g, Enumerates(g, m, K, R)
  PROVE  \A i \in 1 .. m : f[i] = g[i]
<1>1. /\ \A i \in 1 .. m : f[i] \in K
      /\ \A k \in K : \E i \in 1 .. m : f[i] = k
      /\ \A i, j \in 1 .. m : i < j => R[f[i]] < R[f[j]]
      /\ \A i \in 1 .. m : g[i] \in K
      /\ \A k \in K : \E i \in 1 .. m : g[i] = k
      /\ \A i, j \in 1 .. m : i < j => R[g[i]] < R[g[j]]
  BY DEF Enumerates
<1> SUFFICES ASSUME \E i \in 1 .. m : f[i] # g[i]
             PROVE  FALSE
  OBVIOUS
<1> DEFINE T == {i \in 1 .. m : f[i] # g[i]}
<1>2. T \subseteq Nat /\ T # {}
  OBVIOUS
<1>3. PICK i \in T : \A l \in T : i <= l
  <2> HIDE DEF T
  <2> QED BY <1>2, LeastOfNaturals
<1>4. i \in 1 .. m /\ f[i] # g[i]
  OBVIOUS
<1>5. \A l \in 1 .. m : l < i => f[l] = g[l]
  <2> SUFFICES ASSUME NEW l \in 1 .. m, l < i, f[l] # g[l]
               PROVE  FALSE
    OBVIOUS
  <2>1. l \in T
    OBVIOUS
  <2> HIDE DEF T
  <2> QED BY <1>3, <1>4, <2>1
<1>6. PICK a \in 1 .. m : g[a] = f[i]
  BY <1>1, <1>4
<1>7. PICK b \in 1 .. m : f[b] = g[i]
  BY <1>1, <1>4
<1> HIDE DEF T
<1>8. i < a
  <2>1. a # i
    BY <1>4, <1>6
  <2>2. ~(a < i)
    <3> SUFFICES ASSUME a < i PROVE FALSE
      OBVIOUS
    <3>1. f[a] = f[i] /\ R[f[a]] < R[f[i]] /\ R[f[i]] \in Int
      BY <1>1, <1>4, <1>5, <1>6
    <3> QED BY <3>1
  <2> QED BY <1>4, <2>1, <2>2
<1>9. i < b
  <2>1. b # i
    BY <1>4, <1>7
  <2>2. ~(b < i)
    <3> SUFFICES ASSUME b < i PROVE FALSE
      OBVIOUS
    <3>1. g[b] = g[i] /\ R[g[b]] < R[g[i]] /\ R[g[i]] \in Int
      BY <1>1, <1>4, <1>5, <1>7
    <3> QED BY <3>1
  <2> QED BY <1>4, <2>1, <2>2
<1>10. R[g[i]] < R[g[a]] /\ R[f[i]] < R[f[b]] /\ R[f[i]] \in Int /\ R[g[i]] \in Int
  BY <1>1, <1>4, <1>8, <1>9
<1> QED BY <1>6, <1>7, <1>10

(* The texts of the keys of the first m elements. *)
Texts(b, p, m) == [i \in 1 .. m |-> KeyText(b, Append(p, Position[i]))]

(* An element is seen if no later one has its key; of those that have one  *)
(* key, the last is seen.                                                  *)
LEMMA ElementSeen ==
  ASSUME NEW b, Whole(b), NEW p \in Seen(b), IsKeyed(b, p), NEW m, Row(b, p, m), NEW i \in 1 .. m
  PROVE  /\ (\A j \in 1 .. m : i < j => Texts(b, p, m)[j] # Texts(b, p, m)[i]) => Append(p, Position[i]) \in Seen(b)
         /\ \E j \in 1 .. m : Texts(b, p, m)[j] = Texts(b, p, m)[i] /\ Append(p, Position[j]) \in Seen(b)
<1> DEFINE kt == Texts(b, p, m)
<1>1. Sound(b) /\ Path(p)
  BY SoundPaths DEF Whole, Seen
<1>2. m \in Nat /\ Cardinality(KeysAt(b, p)) = m /\ m \in 0 .. Len(Position)
  BY RowCounts DEF Row
<1>3. \A k \in 1 .. m : kt[k] = KeyText(b, Append(p, Position[k]))
  BY DEF Texts
<1> HIDE DEF kt
<1>4. ASSUME NEW k \in 1 .. m, \A j \in 1 .. m : k < j => kt[j] # kt[k]
      PROVE  Append(p, Position[k]) \in Seen(b)
  <2>1. Append(p, Position[k]) \in DOMAIN b
    <3>1. Position[k] \in KeysAt(b, p)
      BY DEF Row
    <3> QED BY <1>1, <3>1, SoundPaths
  <2>2. ~Hidden(b, Append(p, Position[k]))
    <3> SUFFICES ASSUME Hidden(b, Append(p, Position[k])) PROVE FALSE
      OBVIOUS
    <3>1. ~Hidden(b, p)
      BY DEF Seen
    <3>2. PICK j \in Place(Position[k]) + 1 .. Cardinality(KeysAt(b, p)) :
            KeyText(b, Append(p, Position[j])) = KeyText(b, Append(p, Position[k]))
      BY <1>1, <3>1, HiddenStep
    <3>3. Place(Position[k]) = k
      BY <1>2, PlaceIs
    <3>4. j \in 1 .. m /\ k < j
      BY <1>2, <3>2, <3>3
    <3> QED BY <1>3, <1>4, <3>2, <3>4
  <2> QED BY <2>1, <2>2 DEF Seen
<1>5. \E j \in 1 .. m : kt[j] = kt[i] /\ Append(p, Position[j]) \in Seen(b)
  <2> DEFINE T == {d \in 0 .. m : \E j \in 1 .. m : kt[j] = kt[i] /\ d = m - j}
  <2>1. T \subseteq Nat /\ m - i \in T
    BY <1>2
  <2>2. PICK d \in T : \A l \in T : d <= l
    <3> HIDE DEF T
    <3> QED BY <2>1, LeastOfNaturals
  <2>3. PICK j \in 1 .. m : kt[j] = kt[i] /\ d = m - j
    OBVIOUS
  <2>4. \A l \in 1 .. m : j < l => kt[l] # kt[j]
    <3> SUFFICES ASSUME NEW l \in 1 .. m, j < l, kt[l] = kt[j] PROVE FALSE
      OBVIOUS
    <3>1. m - l \in T
      BY <1>2, <2>3
    <3>2. d <= m - l
      <4> HIDE DEF T
      <4> QED BY <2>2, <3>1
    <3> QED BY <1>2, <2>3, <3>2
  <2> QED BY <1>4, <2>3, <2>4
<1> QED BY <1>4, <1>5 DEF kt

(* The keyed vector that is due is one that was there. *)
LEMMA KeyedThere ==
  ASSUME Again, Building, Type.base = "vector", InKeyedForm
  PROVE  /\ To \in DOMAIN first /\ To \in Seen(first) /\ Path(To) /\ Printed(first, To) = From
         /\ first[To] = <<"vector", Type>> /\ first[To][1] = "vector" /\ first[To][2] = Type
         /\ IsKeyed(first, To) /\ KeyField(Type.of) # NoKey /\ Type.of \in DOMAIN Objects
         /\ \E m : Row(first, To, m)
<1>1. Value[1] = "object" /\ Type.elem = "table" /\ KeyField(Type.of) # NoKey
  BY DEF InKeyedForm
<1>2. To \in DOMAIN first
  <2>1. Value # Absent
    BY <1>1 DEF Absent
  <2>2. Type.base \notin {"scalar", "disc"}
    OBVIOUS
  <2> QED BY <2>1, <2>2, DueGiven
<1>3. first[To] = <<"vector", Type>>
  <2>1. Fits(first[To], Type) /\ Type.base # "union"
    BY <1>2, DueFirst
  <2> QED BY <2>1 DEF Fits
<1>4. first[To][1] = "vector" /\ first[To][2] = Type
  <2> DEFINE node == first[To]
  <2>1. \A u : node = <<"vector", u>> => node[1] = "vector" /\ node[2] = u
    BY Pairs
  <2> HIDE DEF node
  <2>2. node = <<"vector", Type>>
    BY <1>3 DEF node
  <2>3. node[1] = "vector" /\ node[2] = Type
    BY <2>1, <2>2
  <2> QED BY <2>3 DEF node
<1>5. Whole(first) /\ Path(To) /\ WellTyped(Type)
  BY AgainIs, DueIs, DueFits
<1>6. IsKeyed(first, To) /\ To \in Lists(first)
  BY <1>1, <1>2, <1>4 DEF IsKeyed, Node, Lists
<1>7. \E m : Row(first, To, m)
  BY <1>5, <1>6 DEF Whole, Rows
<1>8. Type.of \in DOMAIN Objects
  BY <1>1, <1>5 DEF WellTyped, Refers
<1> QED BY <1>1, <1>2, <1>3, <1>4, <1>5, <1>6, <1>7, <1>8, DueThere

(* The keys of a printed object are the texts of the vector's keys. *)
LEMMA TextsPrinted ==
  ASSUME NEW b, Whole(b), Made(b), NEW p \in Seen(b), IsKeyed(b, p), NEW m, Row(b, p, m)
  PROVE  LET K == KeysAt(Json(b), Printed(b, p))
         IN  /\ \A i \in 1 .. m : Texts(b, p, m)[i] \in K
             /\ \A k \in K : \E i \in 1 .. m : Texts(b, p, m)[i] = k
<1> DEFINE kt == Texts(b, p, m)
           from == Printed(b, p)
           K == KeysAt(Json(b), from)
<1>1. Sound(b) /\ Path(p) /\ Path(from)
  BY SoundPaths, PrintedPath DEF Whole, Seen
<1>2. \A x \in DOMAIN Json(b) : Path(x)
  BY <1>1, JsonPaths
<1>3. \A i \in 1 .. m : kt[i] = KeyText(b, Append(p, Position[i]))
  BY DEF Texts
<1>4. \A k : k \in K <=> Append(from, k) \in DOMAIN Json(b)
  BY <1>1, <1>2, KeysAre
<1>5. b[p][1] = "vector"
  BY DEF IsKeyed, Node, Seen
<1> HIDE DEF K
<1>6. ASSUME NEW i \in 1 .. m
      PROVE  kt[i] \in K
  <2>1. PICK j \in 1 .. m : kt[j] = kt[i] /\ Append(p, Position[j]) \in Seen(b)
    BY ElementSeen
  <2>2. Printed(b, Append(p, Position[j])) \in DOMAIN Json(b)
    BY <1>1, <2>1, ShapeBelow
  <2>3. Printed(b, Append(p, Position[j])) = Append(from, kt[j])
    BY <1>1, <1>3, PrintedGrows DEF Label
  <2> QED BY <1>4, <2>1, <2>2, <2>3
<1>7. ASSUME NEW k \in K
      PROVE  \E i \in 1 .. m : kt[i] = k
  <2>1. Append(from, k) \in DOMAIN Json(b)
    BY <1>4
  <2>2. ~DefaultAt(b, p, k)
    BY <1>5, Zenon DEF DefaultAt
  <2>3. PICK y : Append(p, y) \in Seen(b) /\ k = Label(b, p, y)
    BY <2>1, <2>2, BelowAt, Zenon
  <2>4. y \in KeysAt(b, p)
    BY <1>1, <2>3, SoundPaths DEF Seen
  <2>5. PICK i \in 1 .. m : y = Position[i]
    BY <2>4 DEF Row
  <2> QED BY <1>3, <2>3, <2>5 DEF Label
<1> QED BY <1>6, <1>7 DEF K

(* The element at y of the keyed vector is a table of its type. *)
LEMMA ElementIs ==
  ASSUME NEW b, Sound(b), NEW p, Path(p), NEW t, b[p] = <<"vector", t>>, t.elem = "table", t.of \in DOMAIN Objects,
         NEW y, Append(p, y) \in DOMAIN b
  PROVE  /\ b[Append(p, y)] = <<"table", t.of>>
         /\ b[Append(p, y)][1] = "table" /\ b[Append(p, y)][2] = t.of
<1> DEFINE e == Append(p, y)
           node == b[p]
<1>1. ChildFits(b, p, y)
  BY SoundPaths
<1>2. node[1] = "vector" /\ node[2] = t
  <2>1. node = <<"vector", t>>
    OBVIOUS
  <2> HIDE DEF node
  <2> QED BY <2>1, Pairs
<1>3. Fits(b[e], ElementType(node))
  <2> HIDE DEF node, e
  <2>1. b[p] = node /\ b[p][1] = "vector"
    BY <1>2 DEF node
  <2> QED BY <1>1, <2>1 DEF ChildFits, e
<1>4. ElementType(node).base = "table" /\ ElementType(node).of = t.of
  <2> HIDE DEF node
  <2> QED BY <1>2 DEF ElementType
<1> HIDE DEF e, node
<1>5. b[e] = <<"table", t.of>>
  BY <1>3, <1>4 DEF Fits
<1>6. b[e][1] = "table" /\ b[e][2] = t.of
  BY <1>5, Pairs
<1> QED BY <1>5, <1>6 DEF e

(* The keys of the first buffer are in strict order, so they are sorted as *)
(* they were, and no element was hidden.                                   *)
LEMMA KeyedInOrder ==
  ASSUME Again, Building, Type.base = "vector", InKeyedForm, BadEntries = {}, NEW m, Row(first, To, m)
  PROVE  /\ DOMAIN SortedKeys = 1 .. m
         /\ \A i \in 1 .. m : SortedKeys[i] = Texts(first, To, m)[i]
         /\ \A i \in 1 .. m : Append(To, Position[i]) \in Seen(first)
<1> DEFINE kt == Texts(first, To, m)
           K == KeysAt(doc, From)
           R == EntryRanks(K)
           o == Type.of
           r == [i \in 1 .. m |-> R[kt[i]]]
<1>1. /\ To \in DOMAIN first /\ To \in Seen(first) /\ Path(To) /\ Printed(first, To) = From
      /\ first[To] = <<"vector", Type>> /\ IsKeyed(first, To) /\ KeyField(o) # NoKey /\ o \in DOMAIN Objects
  BY KeyedThere
<1>2. /\ Ordered /\ Whole(first) /\ Sound(first) /\ Made(first) /\ doc = Json(first) /\ KeysIncrease(first)
      /\ first # Empty
  BY AgainIs DEF Again
<1>3. /\ IsFiniteSet(K)
      /\ K \subseteq IF KeySort = "string" THEN DOMAIN TextRank ELSE DOMAIN Number
      /\ KeySort # "string" => \A k, l \in K : Number[k] = Number[l] => k = l
  BY <1>2, EntriesRead
<1>4. (\A i \in 1 .. m : kt[i] \in K) /\ \A k \in K : \E i \in 1 .. m : kt[i] = k
  <2>1. LET L == KeysAt(Json(first), Printed(first, To))
        IN  /\ \A i \in 1 .. m : Texts(first, To, m)[i] \in L
            /\ \A k \in L : \E i \in 1 .. m : Texts(first, To, m)[i] = k
    BY <1>1, <1>2, TextsPrinted
  <2> QED BY <1>1, <1>2, <2>1
<1>5. m \in Nat /\ Cardinality(KeysAt(first, To)) = m
  BY RowCounts
<1>6. DOMAIN SortedKeys = 1 .. Cardinality(K) /\ (\A i \in DOMAIN SortedKeys : SortedKeys[i] \in K)
      /\ \A i, j \in DOMAIN SortedKeys : i < j => R[SortedKeys[i]] < R[SortedKeys[j]]
  BY <1>3, SortedStrictly
<1>7. \A k \in K : R[k] \in Int /\ R[k] = IF KeySort = "string" THEN TextRank[k] ELSE Number[k]
  <2>1. \A k \in K : R[k] = IF KeySort = "string" THEN TextRank[k] ELSE Number[k]
    BY DEF EntryRanks
  <2> HIDE DEF K, R
  <2> QED BY <1>3, <2>1, TextsRanked
<1> HIDE DEF K, R
<1>8. \A i \in 1 .. m : r[i] = R[kt[i]] /\ r[i] \in Int
  BY <1>4, <1>7
<1>9. \A i \in 1 .. m : kt[i] = KeyText(first, Append(To, Position[i]))
  BY DEF Texts
<1> HIDE DEF kt, r
<1>10. ASSUME NEW i \in 1 .. m
       PROVE  KeyRank(first, Append(To, Position[i])) = r[i]
  <2> DEFINE e == Append(To, Position[i])
  <2>1. e \in DOMAIN first
    <3>1. Position[i] \in KeysAt(first, To)
      BY DEF Row
    <3> QED BY <1>1, <1>2, <3>1, SoundPaths
  <2>2. first[e][2] = o
    <3>1. Type.elem = "table"
      BY DEF InKeyedForm
    <3> QED BY <1>1, <1>2, <2>1, <3>1, ElementIs
  <2>3. (KeySort = "string") <=> Objects[o].type[KeyField(o)].base = "string"
    <3>1. WellTyped(Type) /\ Type.elem = "table" /\ KeyField(Type.of) # NoKey
      BY <1>1, <1>2, DueFits DEF InKeyedForm
    <3> QED BY <3>1, KeySorts
  <2>4. KeyText(first, e) = kt[i] /\ kt[i] \in K /\ r[i] = R[kt[i]]
    BY <1>4, <1>8, <1>9
  <2> HIDE DEF e, o
  <2>5. KeyRank(first, e) = IF KeySort = "string" THEN TextRank[KeyText(first, e)] ELSE Number[KeyText(first, e)]
    <3>1. KeySort # "string" => KeyText(first, e) \in DOMAIN Number
      BY <1>3, <2>4
    <3> QED BY <2>2, <2>3, <3>1 DEF KeyRank
  <2>6. KeyRank(first, e) = r[i]
    BY <1>7, <2>4, <2>5
  <2> QED BY <2>6 DEF e
<1>11. \A i \in 2 .. m : r[i - 1] < r[i]
  <2> SUFFICES ASSUME NEW i \in 2 .. m PROVE r[i - 1] < r[i]
    OBVIOUS
  <2>1. KeyRank(first, Append(To, Position[i - 1])) < KeyRank(first, Append(To, Position[i]))
    BY <1>1, <1>2, <1>5 DEF KeysIncrease
  <2>2. i \in 1 .. m /\ i - 1 \in 1 .. m
    BY <1>5
  <2> QED BY <1>10, <2>1, <2>2
<1>12. \A i, j \in 1 .. m : i < j => r[i] < r[j]
  BY <1>5, <1>8, <1>11, GrowsOn
<1>13. \A i, j \in 1 .. m : i < j => R[kt[i]] < R[kt[j]]
  BY <1>8, <1>12
<1>14. \A i, j \in 1 .. m : kt[i] = kt[j] => i = j
  <2> SUFFICES ASSUME NEW i \in 1 .. m, NEW j \in 1 .. m, kt[i] = kt[j], i # j
               PROVE  FALSE
    OBVIOUS
  <2>1. R[kt[i]] \in Int /\ R[kt[j]] = R[kt[i]]
    BY <1>4, <1>7
  <2>2. i < j \/ j < i
    BY <1>5
  <2> QED BY <1>13, <2>1, <2>2
<1>15. \A i \in 1 .. m : Append(To, Position[i]) \in Seen(first)
  <2> SUFFICES ASSUME NEW i \in 1 .. m PROVE Append(To, Position[i]) \in Seen(first)
    OBVIOUS
  <2>1. \A j \in 1 .. m : i < j => Texts(first, To, m)[j] # Texts(first, To, m)[i]
    BY <1>5, <1>14 DEF kt
  <2> QED BY <1>1, <1>2, <2>1, ElementSeen
<1>16. Cardinality(K) = m
  <2> DEFINE f == [i \in 1 .. m |-> kt[i]]
  <2>1. f \in [1 .. m -> K] /\ (\A k \in K : \E i \in 1 .. m : f[i] = k) /\ \A i, j \in 1 .. m : f[i] = f[j] => i = j
    BY <1>4, <1>14
  <2> HIDE DEF f
  <2>2. f \in Surjection(1 .. m, K) /\ f \in Injection(1 .. m, K)
    BY <2>1 DEF Surjection, Injection, IsInjective
  <2>3. IsFiniteSet(1 .. m) /\ Cardinality(1 .. m) = m
    BY <1>5, FS_Interval
  <2> QED BY <2>2, <2>3, FS_Surjection
<1>17. /\ \A i \in 1 .. m : SortedKeys[i] \in K
       /\ \A i, j \in 1 .. m : i < j => R[SortedKeys[i]] < R[SortedKeys[j]]
  BY <1>6, <1>16
<1>18. \A k \in K : \E i \in 1 .. m : SortedKeys[i] = k
  <2> DEFINE f == [i \in 1 .. m |-> SortedKeys[i]]
  <2>1. f \in [1 .. m -> K]
    BY <1>17
  <2>2. \A i, j \in 1 .. m : f[i] = f[j] => i = j
    <3> SUFFICES ASSUME NEW i \in 1 .. m, NEW j \in 1 .. m, SortedKeys[i] = SortedKeys[j], i # j
                 PROVE  FALSE
      OBVIOUS
    <3>1. R[SortedKeys[i]] \in Int /\ R[SortedKeys[j]] = R[SortedKeys[i]]
      BY <1>7, <1>17
    <3>2. i < j \/ j < i
      BY <1>5
    <3> QED BY <1>17, <3>1, <3>2
  <2>3. \A i \in 1 .. m : f[i] = SortedKeys[i]
    OBVIOUS
  <2> HIDE DEF f
  <2>4. f \in Injection(1 .. m, K)
    BY <2>1, <2>2 DEF Injection, IsInjective
  <2>5. f \in Surjection(1 .. m, K)
    BY <1>3, <1>5, <1>16, <2>4, FS_Injection, FS_Interval
  <2>6. \A k \in K : \E i \in 1 .. m : f[i] = k
    BY <2>5 DEF Surjection
  <2> QED BY <2>3, <2>6
<1> DEFINE sk == SortedKeys
<1>19. \A i \in 1 .. m : sk[i] = kt[i]
  <2>1. Enumerates(kt, m, K, R)
    BY <1>4, <1>13, Zenon DEF Enumerates
  <2>2. /\ \A i \in 1 .. m : sk[i] \in K
        /\ \A k \in K : \E i \in 1 .. m : sk[i] = k
        /\ \A i, j \in 1 .. m : i < j => R[sk[i]] < R[sk[j]]
    BY <1>17, <1>18
  <2> HIDE DEF sk
  <2>3. Enumerates(sk, m, K, R)
    BY <2>2, Zenon DEF Enumerates
  <2>4. \A k \in K : R[k] \in Int
    BY <1>7
  <2> QED BY <1>5, <2>1, <2>3, <2>4, OneOrder
<1> QED BY <1>6, <1>15, <1>16, <1>19 DEF kt

(* Two steps further. *)
LEMMA TwoSteps ==
  ASSUME NEW p, Path(p), NEW x, NEW y
  PROVE  p \o <<x, y>> = Append(Append(p, x), y)
<1> DEFINE S == {p[i] : i \in DOMAIN p} \cup {x, y}
<1>1. p \in Seq(S)
  <2>1. /\ Len(p) \in Nat /\ DOMAIN p = 1 .. Len(p) /\ \A i \in 1 .. Len(p) : p[i] \in S
    BY PathGrows
  <2>2. p \in Seq({p[i] : i \in DOMAIN p})
    BY DEF Path
  <2> DEFINE T == {p[i] : i \in DOMAIN p}
  <2>3. T \subseteq S
    OBVIOUS
  <2> HIDE DEF T, S
  <2>4. p \in Seq(T)
    BY <2>2 DEF T
  <2> QED BY <2>3, <2>4
<1>2. x \in S /\ y \in S
  OBVIOUS
<1> HIDE DEF S
<1> QED BY <1>1, <1>2

(* The key of an element is printed in the element, if it is a scalar or   *)
(* was there.                                                              *)
LEMMA KeyInside ==
  ASSUME NEW b, Whole(b), Made(b), NEW e \in Seen(b), NEW o \in DOMAIN Objects, b[e] = <<"table", o>>,
         KeyField(o) # NoKey,
         Objects[o].type[KeyField(o)].base = "string" => Append(e, KeyField(o)) \in DOMAIN b
  PROVE  Node(Json(b), Append(Printed(b, e), KeyField(o))) # Absent
<1> DEFINE key == KeyField(o)
           x == Append(Printed(b, e), key)
<1>1. /\ key \in DOMAIN Objects[o].type /\ Objects[o].type[key].base \in {"string", "scalar"}
  BY KeyTypes
<1>2. Sound(b) /\ Path(e) /\ e \in DOMAIN b
  BY SoundPaths DEF Whole, Seen
<1>3. CASE Objects[o].type[key].base = "scalar"
  <2>1. LET s == IF Append(e, key) \in DOMAIN b THEN b[Append(e, key)][3] ELSE Objects[o].type[key].default
        IN x \in DOMAIN Json(b) /\ s[1] # "absent" /\ (Json(b)[x] = s \/ Json(b)[x][1] = "string")
    BY <1>1, <1>3, EntryPrinted
  <2>2. x \in DOMAIN Json(b) /\ Json(b)[x][1] # "absent"
    BY <2>1
  <2> QED BY <2>2 DEF Node, Absent
<1>4. CASE Objects[o].type[key].base = "string"
  <2> DEFINE q == Append(e, key)
             node == b[e]
  <2>0. node[1] = "table" /\ node[2] = o
    <3>1. node = <<"table", o>>
      OBVIOUS
    <3> HIDE DEF node
    <3> QED BY <3>1, Pairs
  <2>1. ~IsKeyed(b, e)
    BY <1>2, <2>0 DEF IsKeyed, Node
  <2>2. q \in Seen(b)
    BY <1>2, <1>4, <2>1, SeenGrows
  <2>3. Printed(b, q) \in DOMAIN Json(b) /\ Json(b)[Printed(b, q)] = Shape(b, q)
    <3> HIDE DEF key
    <3> QED BY <1>2, <2>2, ShapeBelow
  <2>4. Printed(b, q) = x
    BY <1>2, <2>1, PrintedGrows DEF Label
  <2>5. b[q][1] = "string"
    <3>1. TypeAt(b, e, key, Objects[o].type[key])
      <4>1. b[e][1] = "table" /\ b[e][2] = o /\ Objects[o].type[key].base # "union"
        BY <1>4, <2>0
      <4> HIDE DEF key
      <4> QED BY <1>1, <4>1 DEF TypeAt
    <3>2. Fits(b[q], Objects[o].type[key])
      <4> HIDE DEF key
      <4>1. Append(e, key) \in DOMAIN b
        BY <2>2 DEF Seen
      <4> QED BY <1>2, <3>1, <4>1, TypesFit
    <3> QED BY <1>4, <3>2 DEF Fits, Tag
  <2>6. Shape(b, q)[1] = "string"
    BY <2>5, ShapeIs
  <2>7. x \in DOMAIN Json(b) /\ Json(b)[x][1] = "string"
    BY <2>3, <2>4, <2>6
  <2> QED BY <2>7 DEF Node, Absent
<1> QED BY <1>1, <1>3, <1>4

(* The key merged into an element is the one inside. *)
LEMMA KeyGiven ==
  ASSUME Again, Building, Type.base = "vector", InKeyedForm, BadEntries = {}, NEW m, Row(first, To, m),
         NEW i \in 1 .. m
  PROVE  KeyJson(Texts(first, To, m)[i])
           = Node(doc, Append(Append(From, Texts(first, To, m)[i]), KeyField(Type.of)))
<1> DEFINE k == Texts(first, To, m)[i]
           K == KeysAt(doc, From)
           o == Type.of
           e == Append(To, Position[i])
           key == KeyField(o)
<1>1. /\ To \in DOMAIN first /\ To \in Seen(first) /\ Path(To) /\ Printed(first, To) = From
      /\ first[To] = <<"vector", Type>> /\ first[To][2] = Type /\ IsKeyed(first, To)
      /\ KeyField(o) # NoKey /\ o \in DOMAIN Objects /\ Type.elem = "table"
  BY KeyedThere DEF InKeyedForm
<1>2. Whole(first) /\ Sound(first) /\ Made(first) /\ doc = Json(first) /\ KeysPresent(first)
  BY AgainIs
<1>3. k \in K
  <2>1. LET L == KeysAt(Json(first), Printed(first, To))
        IN  \A j \in 1 .. m : Texts(first, To, m)[j] \in L
    BY <1>1, <1>2, TextsPrinted
  <2> QED BY <1>1, <1>2, <2>1
<1>4. k = KeyText(first, e)
  BY DEF Texts
<1>5. e \in Seen(first) /\ e \in DOMAIN first
  BY KeyedInOrder DEF Seen
<1> HIDE DEF k, K
<1>6. EntryFault(k) = "none"
  BY <1>3 DEF BadEntries, K
<1>7. Node(doc, Append(Append(From, k), key)) \in {Absent, KeyJson(k)}
  BY <1>6, Zenon DEF EntryFault
<1>8. Printed(first, e) = Append(From, k)
  <2>1. Printed(first, e) = Append(Printed(first, To), Label(first, To, Position[i]))
    BY <1>1, PrintedGrows
  <2> QED BY <1>1, <1>4, <2>1 DEF Label
<1>9. first[e] = <<"table", o>>
  BY <1>1, <1>2, <1>5, ElementIs
<1>10. Objects[o].type[key].base = "string" => Append(e, key) \in DOMAIN first
  <2> SUFFICES ASSUME Objects[o].type[key].base = "string" PROVE Append(e, key) \in DOMAIN first
    OBVIOUS
  <2>1. Position[i] \in KeysAt(first, To)
    BY DEF Row
  <2>2. To \o <<Position[i], key>> \in DOMAIN first
    BY <1>1, <1>2, <2>1 DEF KeysPresent
  <2>3. To \o <<Position[i], key>> = Append(e, key)
    BY <1>1, TwoSteps
  <2> QED BY <2>2, <2>3
<1>11. Node(doc, Append(Append(From, k), key)) # Absent
  <2> HIDE DEF e, o
  <2>1. Node(Json(first), Append(Printed(first, e), KeyField(o))) # Absent
    BY <1>1, <1>2, <1>5, <1>9, <1>10, KeyInside
  <2> QED BY <1>2, <1>8, <2>1
<1>12. KeyJson(k) = Node(doc, Append(Append(From, k), key))
  BY <1>7, <1>11
<1> QED BY <1>12 DEF k

(* A keyed vector, element by element. *)
LEMMA BuildKeyedCopied ==
  ASSUME Again, BuildKeyed
  PROVE  Copies(doc, first, frames', buffer')
<1> DEFINE F == Frame("vector", From, To, Type.of, Top.depth + 2, <<>>, EntryItems)
           node == first[To]
           kt(m) == Texts(first, To, m)
<1>1. Building /\ Type.base = "vector" /\ InKeyedForm
  BY Zenon DEF BuildKeyed
<1>2. CASE \E reason : Refuse(reason)
  BY <1>2, RefuseCopied
<1>3. CASE ~\E reason : Refuse(reason)
  <2>1. ~(Top.depth + 2 > MaxDepth) /\ BadEntries = {}
    BY <1>3, Zenon DEF BuildKeyed
  <2>2. Move(Append(Rest, F), Put(To, <<"vector", Type>>))
    BY <2>1, Zenon DEF BuildKeyed
  <2>3. /\ To \in DOMAIN first /\ Path(To) /\ Printed(first, To) = From /\ node = <<"vector", Type>>
        /\ IsKeyed(first, To)
    BY <1>1, KeyedThere
  <2>4. PICK m : Row(first, To, m)
    BY <1>1, KeyedThere
  <2>5. /\ DOMAIN SortedKeys = 1 .. m
        /\ \A i \in 1 .. m : SortedKeys[i] = kt(m)[i]
        /\ \A i \in 1 .. m : Append(To, Position[i]) \in Seen(first)
    BY <1>1, <2>1, <2>4, KeyedInOrder
  <2>6. F.to = To /\ F.from = From /\ F.over = <<>> /\ F.todo = EntryItems
    BY DEF Frame
  <2>7. DOMAIN EntryItems = 1 .. m /\ \A i \in 1 .. m :
          /\ EntryItems[i].key = kt(m)[i] /\ EntryItems[i].slot = Position[i]
          /\ EntryItems[i].over = <<KeyField(Type.of), KeyJson(kt(m)[i])>>
    BY <2>5 DEF EntryItems, Item
  <2>8. ASSUME NEW i \in 1 .. m
        PROVE  CopyItem(doc, first, F, EntryItems[i])
    <3> DEFINE over == EntryItems[i].over
               k == kt(m)[i]
    <3>1. over = <<KeyField(Type.of), KeyJson(k)>> /\ EntryItems[i].key = k
      BY <2>7
    <3>2. KeyJson(k) = Node(doc, Append(Append(From, k), KeyField(Type.of)))
      BY <1>1, <2>1, <2>4, KeyGiven
    <3>3. k = Label(first, To, Position[i])
      BY <2>3 DEF Label, Texts
    <3> HIDE DEF k, over
    <3>4. over[1] = KeyField(Type.of) /\ over[2] = KeyJson(k)
      BY <3>1, Pairs
    <3>5. over[2] = Node(doc, Append(Append(From, k), over[1]))
      BY <3>2, <3>4
    <3> QED BY <2>5, <2>6, <2>7, <3>1, <3>3, <3>5 DEF CopyItem, over
  <2> HIDE DEF F, node
  <2>9. \A y : Append(F.to, y) \in DOMAIN first => \E k \in DOMAIN F.todo : F.todo[k].slot = y
    <3> SUFFICES ASSUME NEW y, Append(F.to, y) \in DOMAIN first
                 PROVE  \E k \in DOMAIN F.todo : F.todo[k].slot = y
      OBVIOUS
    <3>1. y \in KeysAt(first, To)
      BY <2>3, <2>6, AgainIs, SoundPaths
    <3>2. PICK i \in 1 .. m : y = Position[i]
      BY <2>4, <3>1 DEF Row
    <3> QED BY <2>6, <2>7, <3>2
  <2>10. CopyCall(doc, first, Put(To, node), F)
    <3>1. \A k \in DOMAIN F.todo : CopyItem(doc, first, F, F.todo[k])
      BY <2>6, <2>7, <2>8
    <3> QED BY <2>3, <2>6, <2>9, <3>1, Zenon DEF CopyCall
  <2> DEFINE t == Append(Rest, F)
  <2>11. frames' = t /\ buffer' = Put(To, node)
    BY <2>2, <2>3 DEF Move
  <2>12. Copies(doc, first, t, Put(To, node))
    BY <1>1, <2>3, <2>6, <2>10, CallCopied DEF node
  <2> QED BY <2>11, <2>12
<1> QED BY <1>2, <1>3

-----------------------------------------------------------------------------
(* The end of a call, and the call of the root. *)

(* Calls that have nothing left to build may go: their nodes are full.     *)
LEMMA FewerCopied ==
  ASSUME NEW d, NEW was, NEW s, NEW t, NEW b, Copies(d, was, s, b), DOMAIN t \subseteq DOMAIN s,
         \A i \in DOMAIN t : t[i] = s[i],
         \A i \in DOMAIN s : i \in DOMAIN t \/ s[i].todo = <<>>
  PROVE  Copies(d, was, t, b)
<1>1. ASSUME NEW i \in DOMAIN s, s[i].todo = <<>>
      PROVE  Full(was, b, s[i].to)
  <2>1. CopyCall(d, was, b, s[i])
    BY DEF Copies
  <2>2. DOMAIN s[i].todo = {}
    BY <1>1
  <2> QED BY <2>1, <2>2 DEF CopyCall, Gaps, Full
<1>2. ASSUME NEW p \in DOMAIN b
      PROVE  (\E i \in DOMAIN t : t[i].to = p) \/ Full(was, b, p)
  <2>1. CASE \E i \in DOMAIN s : s[i].to = p
    <3>1. PICK i \in DOMAIN s : s[i].to = p
      BY <2>1
    <3> QED BY <1>1, <3>1
  <2>2. CASE Full(was, b, p)
    BY <2>2
  <2> QED BY <2>1, <2>2 DEF Copies
<1>3. \A i \in DOMAIN t : CopyCall(d, was, b, t[i])
  BY DEF Copies
<1>4. \A p \in DOMAIN b : p \in Seen(was) /\ b[p] = was[p]
  BY DEF Copies
<1> QED BY <1>2, <1>3, <1>4 DEF Copies

(* A call returns to the one that made it, or ends the conversion. *)
LEMMA ReturnCopied ==
  ASSUME Again, Return
  PROVE  Copies(doc, first, frames', buffer')
<1> DEFINE n == Len(frames)
           s == SubSeq(frames, 1, n - 1)
<1>1. Ordered /\ Copies(doc, first, frames, buffer)
  BY AgainIs
<1>2. /\ Grown(frames, Tables(buffer)) /\ Top.todo = <<>> /\ frames # <<>>
      /\ Top = frames[n]
  BY <1>1, Zenon DEF Ordered, Nested, Return, Top
<1>3. n \in Nat /\ DOMAIN frames = 1 .. n /\ n \in DOMAIN frames
  BY <1>2, GrownDomain
<1>4. CASE \E reason : Refuse(reason)
  BY <1>4, RefuseCopied
<1>5. CASE Len(frames) > 1 /\ Move(s, buffer)
  <2>1. n - 1 \in Nat /\ n - 1 \in 0 .. n /\ Path(frames)
    BY <1>2, <1>3, <1>5 DEF Grown
  <2>2. Len(s) = n - 1 /\ Path(s) /\ \A i \in 1 .. (n - 1) : s[i] = frames[i]
    BY <2>1, PathBegins
  <2> HIDE DEF s
  <2>3. DOMAIN s = 1 .. (n - 1)
    BY <2>1, <2>2, PathGrows
  <2>4. \A i \in DOMAIN frames : i \in DOMAIN s \/ i = n
    BY <1>3, <2>1, <2>3
  <2> HIDE DEF n
  <2>5. DOMAIN s \subseteq DOMAIN frames /\ \A i \in DOMAIN s : s[i] = frames[i]
    BY <1>3, <2>1, <2>2, <2>3
  <2>6. Copies(doc, first, s, buffer)
    BY <1>1, <1>2, <2>4, <2>5, FewerCopied
  <2>7. frames' = s /\ buffer' = buffer
    BY <1>5 DEF Move
  <2> QED BY <2>6, <2>7
<1>6. CASE ~(Len(frames) > 1) /\ frames' = <<>> /\ buffer' = buffer
  <2>1. \A i \in DOMAIN frames : i = n
    BY <1>3, <1>6
  <2> DEFINE none == <<>>
  <2>2. DOMAIN none = {}
    OBVIOUS
  <2> HIDE DEF none, n
  <2>3. Copies(doc, first, none, buffer)
    BY <1>1, <1>2, <2>1, <2>2, FewerCopied
  <2> QED BY <1>6, <2>3 DEF none
<1>7. (\E reason : Refuse(reason)) \/ (Len(frames) > 1 /\ Move(s, buffer))
        \/ (~(Len(frames) > 1) /\ frames' = <<>> /\ buffer' = buffer)
  <2>1. UNCHANGED <<given, lenient, doc, buffer, first, refusal>> => buffer' = buffer
    OBVIOUS
  <2> QED BY <2>1, Zenon DEF Return
<1> QED BY <1>4, <1>5, <1>6, <1>7

(* The call of the root table, the first one. *)
LEMMA RootCopied ==
  ASSUME Again, NEW F, F.from = <<>>, F.to = <<>>, F.over = <<>>, F.todo = FieldItems(RootTable), buffer = Empty,
         Move(Append(<<>>, F), Put(<<>>, <<"table", RootTable>>))
  PROVE  Copies(doc, first, frames', buffer')
<1> DEFINE root == <<>>
           node == <<"table", RootTable>>
           c == Put(<<>>, node)
           t == Append(root, F)
<1>1. DOMAIN c = {root} /\ c[root] = node
  BY DEF Put, Empty
<1>2. node[1] = "table" /\ node[2] = RootTable
  BY Pairs
<1>3. RootTable \in DOMAIN Objects
  BY SchemaAssumption
<1>4. DOMAIN t = {1} /\ t[1] = F
  <2>1. Path(root) /\ Len(root) = 0
    BY OwnElements DEF Path
  <2> HIDE DEF root
  <2>2. Len(t) = Len(root) + 1 /\ t[Len(root) + 1] = F /\ Path(t)
    BY <2>1, PathGrows
  <2> HIDE DEF t
  <2>3. Len(t) = 1 /\ t[1] = F /\ DOMAIN t = 1 .. 1
    BY <2>1, <2>2 DEF Path
  <2> QED BY <2>3
<1>5. frames' = t /\ buffer' = c
  BY DEF Move
<1>6. F.from = root /\ F.to = root /\ F.over = <<>> /\ F.todo = FieldItems(RootTable)
  OBVIOUS
<1>7. HasRoot(first) /\ Sound(first)
  BY AgainIs
<1>8. root \in Seen(first) /\ Printed(first, root) = root /\ first[root] = node
  BY <1>7, RootPrinted DEF HasRoot
<1> HIDE DEF root, c, t, node
<1>9. root \in DOMAIN first
  BY <1>8 DEF Seen
<1>10. CopyCall(doc, first, c, F)
  BY <1>2, <1>3, <1>6, <1>7, <1>8, <1>9, FieldsCopied
<1>11. Copies(doc, first, t, c)
  BY <1>1, <1>4, <1>6, <1>8, <1>10 DEF Copies
<1> QED BY <1>5, <1>11

(* from_json begins again. *)
LEMMA JsonToBufCopied ==
  ASSUME Again, JsonToBuf
  PROVE  Copies(doc, first, frames', buffer')
<1>1. CASE \E reason : Refuse(reason)
  BY <1>1, RefuseCopied
<1>2. CASE ~\E reason : Refuse(reason)
  <2> DEFINE F == Frame("table", <<>>, <<>>, RootTable, 0, <<>>, FieldItems(RootTable))
  <2>1. Move(Append(<<>>, F), Put(<<>>, <<"table", RootTable>>))
    BY <1>2, Zenon DEF JsonToBuf, EnterTable
  <2>2. buffer = Empty
    BY AgainIs DEF JsonToBuf, Ordered, Nested
  <2>3. F.from = <<>> /\ F.to = <<>> /\ F.over = <<>> /\ F.todo = FieldItems(RootTable)
    BY DEF Frame
  <2> HIDE DEF F
  <2> QED BY <2>1, <2>2, <2>3, RootCopied
<1> QED BY <1>1, <1>2

-----------------------------------------------------------------------------
(* The buffer that was printed, from the first state on. *)

(* No document has been printed at first, and nothing has been built. *)
LEMMA CopyingInit == Init => Minted /\ Copying
BY EmptyMade DEF Init, Minted, Copying

(* Every step copies the buffer that was printed, once there is one. *)
LEMMA CopyingNext == Ordered /\ Ordered' /\ TypeOK /\ Minted /\ Copying /\ [Next]_vars => Copying'
<1> SUFFICES ASSUME Ordered, Ordered', TypeOK, Minted, Copying, [Next]_vars, first' # Empty, Kept(first')
             PROVE  Copies(doc', first', frames', buffer')
  BY DEF Copying
<1>1. CASE first' = first /\ BuildStep
  <2>1. Again
    BY <1>1 DEF Again
  <2>2. doc' = doc
    BY <1>1 DEF Ordered
  <2>3. Copies(doc, first, frames', buffer')
    BY <1>1, <2>1, BuildAbsentCopied, BuildScalarCopied, BuildStringCopied, BuildTableCopied,
       BuildStructCopied, BuildBytesCopied, BuildVectorCopied, BuildKeyedCopied, BuildArrayCopied,
       BuildUnionCopied, ReturnCopied, JsonToBufCopied DEF BuildStep
  <2> QED BY <1>1, <2>2, <2>3
<1>2. CASE Verify \/ UNCHANGED vars
  <2>1. doc' = doc /\ first' = first /\ frames' = frames /\ buffer' = buffer
    BY <1>2 DEF Verify, vars
  <2> QED BY <2>1 DEF Copying
<1>3. CASE BufToJson
  <2>1. first = Empty
    BY <1>3 DEF BufToJson
  <2>2. ~\E reason : Refuse(reason)
    BY <2>1 DEF Refuse
  <2> DEFINE none == <<>>
  <2>3. frames' = none /\ buffer' = Empty
    BY <1>3, <2>2 DEF BufToJson, TypeOK
  <2>4. DOMAIN none = {} /\ DOMAIN Empty = {}
    BY DEF Empty
  <2> HIDE DEF none
  <2> QED BY <2>3, <2>4 DEF Copies
<1>4. BuildStep => first' = first
  BY FirstStays
<1> QED BY <1>1, <1>2, <1>3, <1>4 DEF Next

(* A buffer is a function, of no more than its domain and its values. *)
Plain(b) == b = [p \in DOMAIN b |-> b[p]]

Functional == Plain(buffer) /\ Plain(first)

(* At first there are no buffers. *)
LEMMA FunctionalInit == Init => Functional
<1>1. Plain(Empty)
  BY DEF Plain, Empty
<1> QED BY <1>1 DEF Init, Functional

(* A step of from_json leaves the buffer, puts a node or leaves nothing.   *)
LEMMA BufferStep ==
  BuildStep => buffer' = buffer \/ buffer' = Empty \/ \E p, node : buffer' = Put(p, node)
<1> DEFINE Good == buffer' = buffer \/ buffer' = Empty \/ \E p, node : buffer' = Put(p, node)
<1>1. \A reason : Refuse(reason) => Good
  BY DEF Refuse
<1>2. \A s : Move(s, buffer) => Good
  BY DEF Move
<1>3. \A s, p, node : Move(s, Put(p, node)) => Good
  <2> SUFFICES ASSUME NEW s, NEW p, NEW node, Move(s, Put(p, node)) PROVE Good
    BY Zenon
  <2>1. buffer' = Put(p, node)
    BY Zenon DEF Move
  <2> QED BY <2>1, Zenon
<1> HIDE DEF Good
<1>4. JsonToBuf => Good
  BY <1>1, <1>3, Zenon DEF JsonToBuf, EnterTable
<1>5. BuildAbsent => Good
  BY <1>1, <1>2, Zenon DEF BuildAbsent
<1>6. BuildScalar => Good
  <2>1. BuildScalar =>
          \/ \E reason : Refuse(reason)
          \/ Move(Rest, IF Elided(Decode(ScalarKind, Value)) THEN buffer
                        ELSE Put(To, <<"scalar", ScalarKind, Decode(ScalarKind, Value)>>))
    BY Zenon DEF BuildScalar
  <2>2. CASE Elided(Decode(ScalarKind, Value))
    BY <1>1, <1>2, <2>1, <2>2
  <2>3. CASE ~Elided(Decode(ScalarKind, Value))
    BY <1>1, <1>3, <2>1, <2>3
  <2> QED BY <2>2, <2>3
<1>7. BuildString => Good
  BY <1>1, <1>3, Zenon DEF BuildString
<1>8. BuildTable => Good
  BY <1>1, <1>3, Zenon DEF BuildTable, EnterTable
<1>9. BuildStruct => Good
  BY <1>1, <1>3, Zenon DEF BuildStruct, EnterStruct
<1>10. BuildBytes => Good
  BY <1>1, <1>3, Zenon DEF BuildBytes
<1>11. BuildVector => Good
  BY <1>1, <1>3, Zenon DEF BuildVector
<1>12. BuildKeyed => Good
  BY <1>1, <1>3, Zenon DEF BuildKeyed
<1>13. BuildArray => Good
  BY <1>1, <1>3, Zenon DEF BuildArray
<1>14. BuildUnion => Good
  BY <1>1, <1>2, <1>3, Zenon DEF BuildUnion
<1>15. Return => Good
  <2>1. UNCHANGED <<given, lenient, doc, buffer, first, refusal>> => Good
    BY DEF Good
  <2> QED BY <1>1, <1>2, <2>1, Zenon DEF Return
<1> QED BY <1>4, <1>5, <1>6, <1>7, <1>8, <1>9, <1>10, <1>11, <1>12, <1>13, <1>14, <1>15
        DEF BuildStep, Good

(* Every step leaves the buffers functions. *)
LEMMA FunctionalNext == Functional /\ [Next]_vars => Functional'
<1> SUFFICES ASSUME Functional, [Next]_vars PROVE Functional'
  OBVIOUS
<1>1. Plain(Empty)
  BY DEF Plain, Empty
<1>2. \A p, node : Plain(Put(p, node))
  BY DEF Plain, Put
<1>3. CASE BuildStep
  <2>1. first' = first
    BY <1>3, FirstStays
  <2>2. Plain(buffer')
    BY <1>1, <1>2, <1>3, BufferStep, Zenon DEF Functional
  <2> QED BY <2>1, <2>2 DEF Functional
<1>4. CASE Verify \/ UNCHANGED vars
  <2>1. first' = first /\ buffer' = buffer
    BY <1>4 DEF Verify, vars
  <2> QED BY <2>1 DEF Functional
<1>5. CASE BufToJson
  <2>1. (first' = first \/ first' = buffer) /\ buffer' = Empty
    BY <1>5, Zenon DEF BufToJson, Refuse
  <2> QED BY <1>1, <2>1 DEF Functional
<1> QED BY <1>3, <1>4, <1>5 DEF Next

(* All of a buffer is there that has a root and all that is in each node.  *)
LEMMA FullIsAll ==
  ASSUME NEW b, Sound(b), NEW c, <<>> \in DOMAIN c, \A p \in DOMAIN c : Full(b, c, p)
  PROVE  DOMAIN b \subseteq DOMAIN c
<1> SUFFICES ASSUME DOMAIN b \ DOMAIN c # {} PROVE FALSE
  OBVIOUS
<1> DEFINE missing == DOMAIN b \ DOMAIN c
           lengths == {Len(p) : p \in missing}
<1>1. \A p \in DOMAIN b : Path(p) /\ Len(p) \in Nat
  BY SoundPaths, PathGrows
<1>2. lengths \subseteq Nat /\ lengths # {}
  BY <1>1
<1>3. PICK q \in missing : \A p \in missing : Len(q) <= Len(p)
  <2>1. PICK l \in lengths : \A k \in lengths : l <= k
    <3> HIDE DEF lengths
    <3> QED BY <1>2, LeastOfNaturals
  <2> QED BY <2>1
<1>4. q # <<>>
  OBVIOUS
<1>5. PICK p \in DOMAIN b : \E x : q = Append(p, x)
  BY <1>3, <1>4, SoundPaths
<1>6. PICK x : q = Append(p, x)
  BY <1>5
<1>7. Len(q) = Len(p) + 1 /\ Len(p) \in Nat
  BY <1>1, <1>6, PathGrows
<1>8. p \in DOMAIN c
  <2> HIDE DEF missing
  <2>1. p \notin missing
    BY <1>3, <1>7
  <2> QED BY <2>1 DEF missing
<1>9. Append(p, x) \in DOMAIN c
  BY <1>6, <1>8 DEF Full
<1> QED BY <1>6, <1>9

(* Once no call is in progress, the copy is the buffer that was printed. *)
LEMMA CopiedIsSame == Ordered /\ TypeOK /\ Copying /\ Functional => SameBuffer
<1> SUFFICES ASSUME Ordered, TypeOK, Copying, Functional, Rebuilt, Kept(first)
             PROVE  buffer = first
  BY DEF SameBuffer, Kept
<1> DEFINE none == <<>>
<1>1. frames = none /\ DOMAIN none = {}
  BY DEF TypeOK, Rebuilt
<1> HIDE DEF none
<1>2. /\ Sound(first) /\ HasRoot(buffer) /\ Copies(doc, first, frames, buffer)
  BY DEF Ordered, Copying, Rebuilt
<1>3. \A p \in DOMAIN buffer : p \in DOMAIN first /\ buffer[p] = first[p] /\ Full(first, buffer, p)
  BY <1>1, <1>2 DEF Copies, Seen
<1>4. DOMAIN first \subseteq DOMAIN buffer
  BY <1>2, <1>3, FullIsAll DEF HasRoot
<1>5. DOMAIN first = DOMAIN buffer
  BY <1>3, <1>4
<1> QED BY <1>3, <1>5 DEF Functional, Plain

(* SameBuffer: whatever from_json has built, to_json prints it so that     *)
(* from_json builds the same of it, unless a keyed vector was out of order *)
(* or an element of it had no key.                                         *)
THEOREM BufferRebuilt == Spec => []SameBuffer
<1>1. Init => Ordered /\ Minted /\ Copying /\ Functional
  BY OrderedInit, CopyingInit, FunctionalInit
<1>2. Ordered /\ TypeOK /\ [Next]_vars => Ordered'
  BY OrderedNext
<1>3. Ordered /\ Ordered' /\ Minted /\ [Next]_vars => Minted'
  BY MintedNext
<1>4. Ordered /\ Ordered' /\ TypeOK /\ Minted /\ Copying /\ [Next]_vars => Copying'
  BY CopyingNext
<1>5. Functional /\ [Next]_vars => Functional'
  BY FunctionalNext
<1>6. Ordered /\ TypeOK /\ Copying /\ Functional => SameBuffer
  BY CopiedIsSame
<1> QED BY <1>1, <1>2, <1>3, <1>4, <1>5, <1>6, TypeCorrect, PTL DEF Spec
=============================================================================
