----------------------------- MODULE MCJsonTree -----------------------------
(***************************************************************************)
(* An instance of JsonTree for TLC: a schema with a field of every shape,  *)
(* documents good and bad, and a recursive account of what a document      *)
(* means and of what is wrong with it, to compare the machine with.        *)
(***************************************************************************)
EXTENDS JsonTree, TLC

Whole == [sort |-> "signed", lo |-> -8, hi |-> 12, names |-> <<>>, elements |-> TRUE]

TheKinds ==
  ("short" :> Whole)
    @@ ("long" :> [Whole EXCEPT !.lo = -16, !.hi = 15])
    @@ ("ubyte" :> [Whole EXCEPT !.sort = "unsigned", !.lo = 0, !.hi = 3])
    @@ ("ulong" :> [Whole EXCEPT !.sort = "unsigned", !.lo = 0, !.hi = 31])
    @@ ("bool" :> [Whole EXCEPT !.sort = "bool"])
    @@ ("float" :> [Whole EXCEPT !.sort = "float", !.hi = 24])
    @@ ("double" :> [Whole EXCEPT !.sort = "float", !.hi = 100])
    @@ ("color" :> [Whole EXCEPT !.names = ("Red" :> 1) @@ ("Blue" :> 2)])
    @@ ("shade" :> [Whole EXCEPT !.names = ("Red" :> 1), !.elements = FALSE])
    @@ ("which" :> [Whole EXCEPT !.sort = "unsigned", !.lo = 0, !.hi = 3,
                                 !.names = ("NONE" :> 0) @@ ("A" :> 1) @@ ("S" :> 2) @@ ("V" :> 3)])

Scalar(kind, default) == [base |-> "scalar", of |-> kind, default |-> <<"int", default>>]
Of(base, of) == [base |-> base, of |-> of]
VectorOf(elem, of) == [base |-> "vector", elem |-> elem, of |-> of]

Table(order, type, key, required) ==
  [struct |-> FALSE, order |-> order, type |-> type, key |-> key, required |-> required, size |-> <<0, 0>>]
Struct(order, type, size) ==
  [struct |-> TRUE, order |-> order, type |-> type, key |-> NoKey, required |-> {}, size |-> size]

(* Fields in the order of the reflection schema, which is alphabetical. *)
TheObjects ==
  ("Node" :> Table(
      <<"back", "bands", "cells", "color", "flags", "gain", "hp", "kids", "name", "odd", "pos", "raw", "rows", "shades",
        "slots", "sub", "tags", "u", "u_type", "way">>,
      ("back" :> Of("bytes", "hex"))
        @@ ("bands" :> VectorOf("table", "Band"))
        @@ ("cells" :> VectorOf("table", "Cell"))
        @@ ("color" :> Scalar("color", 0))
        @@ ("flags" :> VectorOf("table", "Flag"))
        @@ ("gain" :> [Scalar("float", 0) EXCEPT !.default = <<"real", 0>>])
        @@ ("hp" :> Scalar("long", 2))
        @@ ("kids" :> VectorOf("table", "Node"))
        @@ ("name" :> Of("string", "text"))
        @@ ("odd" :> Of("struct", "Odd"))
        @@ ("pos" :> Of("struct", "Pos"))
        @@ ("raw" :> Of("bytes", "base64"))
        @@ ("rows" :> VectorOf("table", "Row"))
        @@ ("shades" :> VectorOf("scalar", "shade"))
        @@ ("slots" :> VectorOf("table", "Slot"))
        @@ ("sub" :> Of("table", "Node"))
        @@ ("tags" :> VectorOf("string", "text"))
        @@ ("u" :> [base |-> "union", of |-> "which", disc |-> "u_type"])
        @@ ("u_type" :> [Scalar("which", 0) EXCEPT !.base = "disc"])
        @@ ("way" :> VectorOf("struct", "Pos")),
      "name", {}))
    @@ ("Row" :> Table(<<"at", "on">>,
                       ("at" :> Of("table", "Node")) @@ ("on" :> [Scalar("bool", 0) EXCEPT !.default = <<"bool", TRUE>>]),
                       NoKey, {"on"}))
    @@ ("Slot" :> Table(<<"id", "n">>, ("id" :> Scalar("short", 0)) @@ ("n" :> Scalar("ulong", 0)), "id", {}))
    @@ ("Band" :> Table(<<"color">>, "color" :> Scalar("color", 0), "color", {}))
    @@ ("Cell" :> Table(<<"id">>, "id" :> Scalar("ulong", 1), "id", {}))
    @@ ("Flag" :> Table(<<"on">>, ("on" :> [Scalar("bool", 0) EXCEPT !.default = <<"bool", FALSE>>]), "on", {}))
    @@ ("Pos" :> Struct(<<"dir", "in", "x">>,
                        ("dir" :> [base |-> "array", elem |-> "scalar", of |-> "color", len |-> 2])
                          @@ ("in" :> Of("struct", "In"))
                          @@ ("x" :> Scalar("color", 0)),
                        <<12, 4>>))
    @@ ("In" :> Struct(<<"y">>, "y" :> Scalar("double", 0), <<8, 8>>))
    @@ ("Odd" :> Struct(<<"b">>, "b" :> Scalar("ubyte", 0), <<5, 1>>))

TheVariants ==
  "which" :> (("NONE" :> Of("none", "none")) @@ ("A" :> Of("table", "Node"))
                @@ ("S" :> Of("string", "text")) @@ ("V" :> Of("struct", "Odd")))

ThePositions == <<"1", "2", "3">>

(* The numerals of 0 .. 31, and of -1 .. -16. *)
Natural == <<
    "0", "1", "2", "3", "4", "5", "6", "7", "8", "9", "10", "11", "12", "13", "14", "15", "16",
    "17", "18", "19", "20", "21", "22", "23", "24", "25", "26", "27", "28", "29", "30", "31">>
Negative == <<
    "-1", "-2", "-3", "-4", "-5", "-6", "-7", "-8", "-9", "-10", "-11", "-12", "-13", "-14",
    "-15", "-16">>
Numeral(n) == IF n < 0 THEN Negative[-n] ELSE Natural[n + 1]

TheSpelling ==
  [s \in {"int"} \X (-16 .. 31) |-> Numeral(s[2])]
    @@ (<<"bool", FALSE>> :> "0") @@ (<<"bool", TRUE>> :> "1")
TheNumbers ==
  [t \in {Numeral(n) : n \in -16 .. 15} |-> CHOOSE n \in -16 .. 15 : Numeral(n) = t] @@ ("01" :> 1)
TheTexts == <<
    "", "-1", "-10", "-11", "-12", "-13", "-14", "-15", "-16", "-2", "-3", "-4", "-5", "-6", "-7",
    "-8", "-9", "0", "01", "0A", "0a", "1", "10", "11", "12", "13", "14", "15", "16", "17", "18",
    "19", "2", "20", "21", "22", "23", "24", "25", "26", "27", "28", "29", "3", "30", "31", "4",
    "5", "6", "7", "8", "9", "?", "A", "AQ==", "AQI=", "Blue", "NONE", "Nope", "Red", "S", "V",
    "a", "at", "b", "back", "bands", "cells", "color", "dir", "flags", "gain", "hp", "id", "in",
    "junk", "kids", "n", "name", "odd", "on", "pos", "raw", "rows", "shades", "slots", "sub",
    "tags", "u", "u_type", "way", "x", "xx", "y">>
TheRanks == [t \in {TheTexts[i] : i \in DOMAIN TheTexts} |-> CHOOSE i \in DOMAIN TheTexts : TheTexts[i] = t]

(* How each codec writes what is used of bytes; hex reads either case. *)
Base64 == (<<>> :> "") @@ (<<1>> :> "AQ==") @@ (<<1, 1>> :> "AQE=") @@ (<<1, 2>> :> "AQI=")
            @@ (<<1, 3>> :> "AQM=") @@ (<<2, 1>> :> "AgE=")
Hex == (<<>> :> "") @@ (<<1>> :> "01") @@ (<<1, 1>> :> "0101") @@ (<<1, 2>> :> "0102")
         @@ (<<1, 3>> :> "0103") @@ (<<2, 1>> :> "0201") @@ (<<10>> :> "0a")
Decoded(encode) ==
  [s \in {encode[v] : v \in DOMAIN encode} |-> CHOOSE v \in DOMAIN encode : encode[v] = s]
TheCodecs ==
  ("base64" :> [decode |-> Decoded(Base64), encode |-> Base64])
    @@ ("hex" :> [decode |-> ("0A" :> <<10>>) @@ Decoded(Hex), encode |-> Hex])

(***************************************************************************)
(* Documents.                                                              *)
(***************************************************************************)

Leaf(kind, v) == <<>> :> <<kind, v>>
N(n) == Leaf("int", n)
H(h) == Leaf("real", h)
S(s) == Leaf("string", s)
B(b) == Leaf("bool", b)
Nil == Leaf("null", 0)

Under(key, d) == [p \in {<<key>> \o q : q \in DOMAIN d} |-> d[Tail(p)]]
RECURSIVE Join(_, _)
Join(keys, m) ==
  IF keys = {} THEN <<>>
  ELSE LET k == CHOOSE x \in keys : TRUE IN Under(k, m[k]) @@ Join(keys \ {k}, m)
Obj(m) == (<<>> :> <<"object", 0>>) @@ Join(DOMAIN m, m)
Arr(s) == (<<>> :> <<"array", 0>>) @@ Join({ThePositions[i] : i \in DOMAIN s},
                                           [k \in {ThePositions[i] : i \in DOMAIN s} |-> s[Place(k)]])
None == Obj(<<>>)

(* The ways from a Node to a Node, counting 1, 1, 2, 3 and 3 levels. *)
Ways == {"sub", "union", "array", "keyed", "row"}
Wrap(way, d) ==
  CASE way = "sub"   -> Obj("sub" :> d)
    [] way = "union" -> Obj(("u" :> d) @@ ("u_type" :> S("A")))
    [] way = "array" -> Obj("kids" :> Arr(<<d @@ Under("name", S("a"))>>))
    [] way = "keyed" -> Obj("kids" :> Obj("a" :> d))
    [] way = "row"   -> Obj("rows" :> Arr(<<Obj(("at" :> d) @@ ("on" :> B(TRUE)))>>))

RECURSIVE Chains(_)
Chains(n) == IF n = 0 THEN {None} ELSE {Wrap(w, d) : w \in Ways, d \in Chains(n - 1)}

Pair(x, y) == Obj(("dir" :> Arr(<<x, N(1)>>)) @@ ("in" :> Obj("y" :> H(3))) @@ ("x" :> y))

(* Values worth trying for each field. *)
Trials ==
  ("back" :> {S("0A"), S("0a"), S("xx")})
    @@ ("bands" :> {Arr(<<Obj("color" :> S("Blue"))>>), Arr(<<Obj("color" :> N(5))>>), Arr(<<None>>),
                    Obj("1" :> None), Obj("5" :> None), Obj("2" :> Obj("color" :> S("Blue")))})
    @@ ("cells" :> {Arr(<<Obj("id" :> N(31)), Obj("id" :> N(2))>>), Obj("14" :> None), Obj("31" :> None),
                    Obj("1" :> None), Obj("-1" :> None)})
    @@ ("color" :> {S("Red"), S("Nope"), N(1), N(5), N(13), H(2), Nil})
    @@ ("flags" :> {Obj("1" :> None), Arr(<<Obj("on" :> B(TRUE))>>)})
    @@ ("gain" :> {N(3), N(15), H(5), N(25), N(26), S("a")})
    @@ ("hp" :> {N(2), N(0), N(15), N(16), N(17), N(-16), H(6), H(7), H(32), H(-34), B(TRUE)})
    @@ ("kids" :> {Arr(<<Obj("name" :> S("b")), Obj("name" :> S("a"))>>),
                   Arr(<<Obj("name" :> S("a")), Obj(("hp" :> N(3)) @@ ("name" :> S("a")))>>),
                   Arr(<<None>>), Arr(<<Nil>>), N(1),
                   Obj(("b" :> None) @@ ("a" :> None)), Obj("a" :> Obj("name" :> S("b"))),
                   Obj("a" :> Obj("name" :> S("a"))), Obj("a" :> N(1)),
                   Obj("a" :> Obj("name" :> Nil))})
    @@ ("name" :> {S("a"), N(1), Nil})
    @@ ("odd" :> {Obj("b" :> N(3)), Obj("b" :> N(4))})
    @@ ("pos" :> {Pair(N(2), S("Blue")), Pair(S("Red"), N(1)), Pair(N(13), N(1)), Pair(N(1), Nil), None, N(1),
                  Pair(N(1), N(1)) @@ Under("junk", N(1)), Obj("dir" :> Arr(<<N(1)>>))})
    @@ ("raw" :> {S("AQI="), S("?"), Arr(<<N(1), N(2)>>), Arr(<<>>), Arr(<<N(9), S("a")>>), None})
    @@ ("rows" :> {Arr(<<None>>), Arr(<<Obj("on" :> B(TRUE))>>), Obj("1" :> None)})
    @@ ("shades" :> {Arr(<<N(1), N(3)>>), Arr(<<S("Red")>>), S("Red")})
    @@ ("slots" :> {Obj(("10" :> None) @@ ("2" :> Obj("n" :> N(31)))), Obj(("1" :> None) @@ ("01" :> Obj("n" :> N(1)))),
                    Obj("a" :> None), Obj("0" :> None), Obj("2" :> Obj("id" :> N(3))), Obj("14" :> None), Obj("5" :> Obj("n" :> N(-1))),
                    Arr(<<Obj("id" :> N(2)), None>>), Arr(<<None, Obj("id" :> H(4))>>)})
    @@ ("sub" :> {None, Obj("junk" :> N(1)), S("a")})
    @@ ("tags" :> {Arr(<<S("b"), S("a")>>), Arr(<<N(1)>>), Arr(<<>>)})
    @@ ("u" :> {None, S("a"), Nil, Obj("b" :> N(1))})
    @@ ("u_type" :> {S("NONE"), S("A"), S("S"), S("V"), S("Nope"), N(1), Nil})
    @@ ("way" :> {Arr(<<Pair(N(1), N(2))>>), Arr(<<None>>), Arr(<<>>)})
    @@ ("junk" :> {N(1)})

FieldDocs(f) == {Under(f, v) : v \in Trials[f]}
OneField == UNION {FieldDocs(f) : f \in DOMAIN Trials}
With(f) == {a @@ b : a \in FieldDocs(f), b \in UNION {FieldDocs(g) : g \in DOMAIN Trials \ {f}}}
TwoFields == UNION {With(f) : f \in DOMAIN Trials}

TheDocs ==
  UNION {Chains(n) : n \in 0 .. 4}
    \cup {None @@ d : d \in OneField \cup TwoFields}
    \cup {Wrap(w, None @@ d) : w \in Ways, d \in OneField}
    \cup {N(1), Nil}

(* For a look at one field. *)
SmallDocs == {None @@ d : d \in OneField}

(***************************************************************************)
(* What is wrong with a document, by recursion over it. n is the level of  *)
(* the value at p.                                                         *)
(***************************************************************************)

Children(d, p) == {Append(p, k) : k \in KeysAt(d, p)}

(* The document with the keys of a keyed object in its elements. *)
KeyValue(o, k) ==
  IF Objects[o].type[KeyField(o)].base = "string" THEN <<"string", k>> ELSE <<"int", TheNumbers[k]>>
WithKeys(o, d, p) ==
  [q \in {r \o <<KeyField(o)>> : r \in Children(d, p)} |-> KeyValue(o, q[Len(q) - 1])] @@ d

KindOf(t, d, p) ==
  IF t.base # "element" THEN Kinds[t.of]
  ELSE IF t.of = "shade" \/ t.elem = "array" THEN [Kinds[t.of] EXCEPT !.names = <<>>] ELSE Kinds[t.of]

ElementOf(t) ==
  IF t.elem = "scalar" THEN [base |-> "element", of |-> t.of, elem |-> t.base] ELSE Of(t.elem, t.of)

NotIf(ok, reason) == IF ok THEN {} ELSE {reason}
Is(d, p, kind) == p \in DOMAIN d /\ d[p][1] = kind
Lacks(d, p) == p \notin DOMAIN d \/ d[p] = Null

RECURSIVE Causes(_, _, _, _)
CausesInFields(o, d, p, n) ==
  UNION {LET t == Objects[o].type[f]
             at == Append(p, f)
             disc == Append(p, t.disc)
         IN IF t.base = "union"
              THEN IF disc \notin DOMAIN d
                     THEN NotIf(Lacks(d, at), "no discriminator")
                   ELSE IF ~Is(d, disc, "string") THEN {"type"}
                   ELSE IF d[disc][2] \notin DOMAIN TheVariants[t.of] THEN {"enum"}
                   ELSE IF d[disc][2] = "NONE" THEN {}
                   ELSE IF at \notin DOMAIN d THEN {"missing"}
                   ELSE Causes(TheVariants[t.of][d[disc][2]], d, at, n + 1)
              ELSE IF Lacks(d, at)
                THEN NotIf(~Objects[o].struct /\ f \notin Objects[o].required, "missing")
                ELSE Causes(t, d, at, n + 1)
           : f \in DOMAIN Objects[o].type}

CausesInKeyed(t, d, p, n) ==
  LET key == Objects[t.of].type[KeyField(t.of)]
      sort == IF key.base = "string" THEN "string" ELSE Kinds[key.of].sort
      numeric == sort \in {"signed", "unsigned"}
      parsed == numeric => KeysAt(d, p) \subseteq DOMAIN TheNumbers
  IN NotIf(n + 1 <= MaxDepth, "too deep")
       \cup (IF \E q \in Children(d, p) : d[q][1] # "object" THEN {"type"} ELSE {})
       \cup (IF KeysAt(d, p) # {} /\ ~numeric /\ sort # "string" THEN {"unsupported"} ELSE {})
       \cup NotIf(parsed, "type")
       \cup (IF ~parsed \/ (~numeric /\ sort # "string") THEN {}
             ELSE NotIf(\A q \in Children(d, p) :
                          LET at == Append(q, KeyField(t.of))
                          IN at \in DOMAIN d => d[at] = KeyValue(t.of, q[Len(q)]), "type")
                    \cup UNION {Causes(Of("table", t.of), WithKeys(t.of, d, p), q, n + 2) : q \in Children(d, p)})

Causes(t, d, p, n) ==
  LET unknown(o) == ~(KeysAt(d, p) \subseteq DOMAIN Objects[o].type)
  IN CASE t.base \in {"scalar", "disc", "element"} ->
            LET scalar == Decode(KindOf(t, d, p), d[p]) IN IF IsBad(scalar) THEN {scalar[2]} ELSE {}
       [] t.base = "string" -> NotIf(Is(d, p, "string"), "type")
       [] t.base = "table" ->
            IF ~Is(d, p, "object") THEN {"type"}
            ELSE NotIf(n <= MaxDepth, "too deep")
                   \cup NotIf(lenient \/ ~unknown(t.of), "unknown field")
                   \cup CausesInFields(t.of, d, p, n)
       [] t.base = "struct" ->
            IF ~Is(d, p, "object") THEN {"type"}
            ELSE NotIf(t.of # "Odd", "unsupported")
                   \cup NotIf(~unknown(t.of), "unknown field")
                   \cup CausesInFields(t.of, d, p, n)
       [] t.base = "bytes" ->
            NotIf(n <= MaxDepth, "too deep")
              \cup (CASE Is(d, p, "string") -> NotIf(d[p][2] \in {"", "AQ==", "AQI=", "0a", "0A"}, "encoding")
                      [] Is(d, p, "array")  ->
                           UNION {Causes([base |-> "element", of |-> "ubyte", elem |-> "vector"], d, q, n) :
                                    q \in Children(d, p)}
                      [] ~Is(d, p, "string") /\ ~Is(d, p, "array") -> {"type"})
       [] t.base \in {"vector", "array"} ->
            NotIf(t.base = "array" \/ n <= MaxDepth, "too deep")
              \cup IF Is(d, p, "array")
                     THEN NotIf(t.base = "vector" \/ Cardinality(KeysAt(d, p)) = 2, "range")
                            \cup UNION {Causes(ElementOf(t), d, q, n + 1) : q \in Children(d, p)}
                     ELSE IF Is(d, p, "object") /\ t.elem = "table" /\ KeyField(t.of) # NoKey
                       THEN CausesInKeyed(t, d, p, n)
                       ELSE {"type"}

Faults == NotIf(Is(given, <<>>, "object"), "root") \cup
  IF Is(given, <<>>, "object") THEN Causes(Of("table", RootTable), given, <<>>, 0) ELSE {}

(* from_json refuses a document for a fault it has, and no document that   *)
(* has none; but for documents whose buffer is too large or has a number   *)
(* JSON cannot print.                                                      *)
RefusedForCause ==
  first = Empty =>
    /\ phase = "refused" => refusal \in Faults \cup {"too large", "non-finite"}
    /\ phase \in {"built", "verified", "unverified"} => Faults = {}

(***************************************************************************)
(* What a faultless document means, by recursion over it: the nodes that   *)
(* to_json prints for the value at p, under q.                             *)
(***************************************************************************)

NumberOf(kind, v) ==
  CASE v[1] = "string" -> kind.names[v[2]]
    [] v[1] = "bool"   -> IF v[2] THEN 1 ELSE 0
    [] v[1] = "int"    -> v[2]
    [] v[1] = "real"   -> v[2] \div 2

(* The name of an element: its key, but nothing if that is left out or is  *)
(* a number equal to its default.                                          *)
KeyOf(o, d, p) ==
  LET t == Objects[o].type[KeyField(o)]
      at == Append(p, KeyField(o))
  IN IF Lacks(d, at) THEN ""
     ELSE IF t.base = "string" THEN d[at][2]
     ELSE LET n == NumberOf(Kinds[t.of], d[at])
          IN IF n = NumberOf(Kinds[t.of], t.default) THEN "" ELSE Numeral(n)

(* In place of a scalar's kind: the node is printed as it is here. *)
Exactly == [Whole EXCEPT !.sort = "none"]

RECURSIVE Means(_, _, _, _)
MeansTable(o, d, p, q) ==
  {<<q, Exactly, <<"object", 0>>>>} \cup
  UNION {LET t == Objects[o].type[f]
             at == Append(p, f)
             disc == Append(p, t.disc)
             variant == IF disc \in DOMAIN d THEN d[disc][2] ELSE "NONE"
         IN CASE t.base = "disc" -> {}
              [] t.base = "union" ->
                   {<<Append(q, t.disc), Exactly, <<"string", variant>>>>}
                     \cup IF variant = "NONE" THEN {}
                          ELSE Means(TheVariants[t.of][variant], d, at, Append(q, f))
              [] t.base = "scalar" /\ Lacks(d, at) -> {<<Append(q, f), Kinds[t.of], t.default>>}
              [] t.base \notin {"union", "disc", "scalar"} /\ Lacks(d, at) -> {}
              [] t.base \notin {"union", "disc"} /\ ~Lacks(d, at) -> Means(t, d, at, Append(q, f))
         : f \in DOMAIN Objects[o].type}

(* A vector with a key prints an object; of two equal keys the last is     *)
(* kept, in the order of an array or of the strings of an object.          *)
MeansKeyed(t, d, p, q) ==
  LET e == IF Is(d, p, "object") THEN WithKeys(t.of, d, p) ELSE d
      hidden(r) == \E o \in Children(e, p) :
                     /\ KeyOf(t.of, e, o) = KeyOf(t.of, e, r)
                     /\ TheRanks[o[Len(o)]] > TheRanks[r[Len(r)]]
  IN UNION {Means(Of("table", t.of), e, r, Append(q, KeyOf(t.of, e, r))) :
              r \in {s \in Children(e, p) : ~hidden(s)}}

Means(t, d, p, q) ==
  CASE t.base \in {"scalar", "element"} -> {<<q, KindOf(t, d, p), d[p]>>}
    [] t.base = "string" -> {<<q, Exactly, d[p]>>}
    [] t.base \in {"table", "struct"} -> MeansTable(t.of, d, p, q)
    [] t.base = "bytes" ->
         {<<q, Exactly, <<"string",
            CASE Is(d, p, "string") -> IF d[p][2] = "0A" THEN "0a" ELSE d[p][2]
              [] ~Is(d, p, "string") -> IF KeysAt(d, p) = {} THEN "" ELSE "AQI=">>>>}
    [] t.base \in {"vector", "array"} ->
         IF t.elem = "table" /\ KeyField(t.of) # NoKey
           THEN {<<q, Exactly, <<"object", 0>>>>} \cup MeansKeyed(t, d, p, q)
           ELSE {<<q, Exactly, <<"array", 0>>>>}
                  \cup UNION {Means(ElementOf(t), d, r, Append(q, r[Len(r)])) : r \in Children(d, p)}

(* A printed scalar is the number, the member or the boolean that was    *)
(* given; a float as near as floats go. 2^63 given to an i64, which the  *)
(* code should refuse and does not (RangeIsEnforced), is 2^63 - 1.       *)
SameScalar(kind, a, b) ==
  LET value(s) ==
        CASE s[1] = "string"          -> 2 * kind.names[s[2]]
          [] s[1] = "bool"            -> IF s[2] THEN 1 ELSE 0
          [] IsNumber(s)              -> IF kind.sort = "float" THEN AsF64(s)
                                         ELSE IF s[1] = "int" THEN 2 * s[2] ELSE s[2]
  IN value(a) = value(b) \/ (kind.hi = Wide - 1 /\ IsNumber(a) /\ AsF64(a) = 2 * Wide /\ b[2] = Wide - 1)

(* to_json prints every field of a document that from_json accepted: the   *)
(* value it was given or its default, and nothing besides. Elements with a *)
(* key are under its text, and under nothing's if it is not stored.        *)
PrintsWhatWasGiven ==
  WasPrinted =>
    LET meant == Means(Of("table", RootTable), given, <<>>, <<>>)
    IN /\ DOMAIN doc = {m[1] : m \in meant}
       /\ \A m \in meant :
            IF m[2] = Exactly THEN doc[m[1]] = m[3] ELSE SameScalar(m[2], m[3], doc[m[1]])
=============================================================================
