------------------------------ MODULE JsonTree ------------------------------
(***************************************************************************)
(* from_json and to_json: a JSON document becomes a buffer, the verifier   *)
(* looks at the buffer, to_json prints it, and the printed document goes   *)
(* through from_json once more.                                            *)
(*                                                                         *)
(* A document and a buffer are functions from paths to nodes. A path is a  *)
(* sequence of object keys, field names and positions ("1", "2", ...).     *)
(* The recursive calls of from_json are an explicit stack of frames, and   *)
(* a step is one field of a table or struct or one element of a vector,    *)
(* in the order of the code.                                               *)
(***************************************************************************)
EXTENDS JsonScalar, Sequences, FiniteSets

CONSTANTS
  Objects,      \* tables and structs of the schema, by name
  RootTable,    \* its root_table
  Variants,     \* by union name, by variant name, the type of the value
  Position,     \* the strings for positions in a vector, in order
  Number,       \* the integer a text parses to, for those that do
  Spelled,      \* the text get_any_field_string makes of a stored scalar
  TextRank,     \* place of a text in the order of strings
  Codecs,       \* "base64" and "hex": the bytes of each text in use
  MaxDepth,     \* options.max_depth
  MaxNodes,     \* options.max_output_size, counted in nodes of the buffer
  Docs          \* documents in use

(* A field's type has a base, and of: a kind, an object, a union, a codec. *)
(* A vector or an array has the type of its elements in elem, too.         *)
Bases == {"scalar", "disc", "string", "table", "struct", "vector", "array", "bytes", "union"}

(* A type refers to objects, kinds and codecs that there are. The elements *)
(* of a vector, and the variants of a union, are scalars, strings, tables  *)
(* or structs, those of an array scalars or structs.                       *)
Refers(base, of) ==
  /\ base \in {"scalar", "disc"} => of \in DOMAIN Kinds
  /\ base = "bytes" => of \in DOMAIN Codecs
  /\ base \in {"table", "struct"} =>
       of \in DOMAIN Objects /\ Objects[of].struct = (base = "struct")

WellTyped(t) ==
  /\ Refers(t.base, t.of)
  /\ t.base \in {"vector", "array"} =>
       t.elem \notin {"vector", "array", "union"} /\ Refers(t.elem, t.of)
  /\ t.base = "array" => t.elem \in {"scalar", "struct"}
  /\ t.base = "union" =>
       \A v \in DOMAIN Variants[t.of] :
         /\ Variants[t.of][v].base \notin {"vector", "array", "union"}
         /\ Refers(Variants[t.of][v].base, Variants[t.of][v].of)

(* A sequence without repetitions. *)
Distinct(s) == \A i, j \in DOMAIN s : s[i] = s[j] => i = j

NoKey == "no key"

(* A struct has scalars, structs and arrays only. The key of a table is a  *)
(* string or a scalar. The union t has a discriminator of its own, an enum *)
(* of distinct values with a member for each variant.                      *)
Inline(o) ==
  \A f \in DOMAIN Objects[o].type : Objects[o].type[f].base \in {"scalar", "struct", "array"}

Keyed(o) ==
  /\ \E i \in DOMAIN Objects[o].order : Objects[o].order[i] = Objects[o].key
  /\ Objects[o].type[Objects[o].key].base \in {"string", "scalar"}

Discriminated(o, t) ==
  /\ t.disc \in DOMAIN Objects[o].type
  /\ Objects[o].type[t.disc].base = "disc"
  /\ LET names == Kinds[Objects[o].type[t.disc].of].names
     IN /\ DOMAIN Variants[t.of] \subseteq DOMAIN names
        /\ \A v, w \in DOMAIN names : names[v] = names[w] => v = w

ASSUME SchemaAssumption ==
  /\ RootTable \in DOMAIN Objects /\ ~Objects[RootTable].struct
  /\ \A o \in DOMAIN Objects :
       /\ Objects[o].struct \in BOOLEAN
       /\ Objects[o].order \in Seq(DOMAIN Objects[o].type)
       /\ Distinct(Objects[o].order)
       /\ \A f \in DOMAIN Objects[o].type :
            /\ Objects[o].type[f].base \in Bases /\ WellTyped(Objects[o].type[f])
            /\ Objects[o].type[f].base = "scalar" =>
                 Objects[o].type[f].default[1] \in {"bool", "int", "real"}
       /\ Objects[o].struct => Inline(o)
       /\ Objects[o].key # NoKey => Keyed(o)
       /\ \A f \in DOMAIN Objects[o].type : Objects[o].type[f].base = "union" =>
            /\ Discriminated(o, Objects[o].type[f])
            /\ \A g \in DOMAIN Objects[o].type :
                 /\ Objects[o].type[g].base = "union"
                 /\ Objects[o].type[g].disc = Objects[o].type[f].disc
                 => f = g

(* Every field has its place in the order. A default is a value of its     *)
(* kind; a discriminator belongs to a union and is NONE by default.        *)
ASSUME FieldsAssumption ==
  \A o \in DOMAIN Objects : \A f \in DOMAIN Objects[o].type :
    LET t == Objects[o].type[f]
    IN /\ \E i \in DOMAIN Objects[o].order : Objects[o].order[i] = f
       /\ t.base \in {"scalar", "disc"} /\ ~Objects[o].struct =>
            Decode(Kinds[t.of], t.default) = t.default
       /\ t.base = "disc" =>
            /\ t.default = <<"int", 0>>
            /\ \E u \in DOMAIN Objects[o].type :
                 Objects[o].type[u].base = "union" /\ Objects[o].type[u].disc = f

(* Strings, and the texts of numbers, have their place in an order; the    *)
(* number of a text is an i64, and the empty string is none. Documents are *)
(* finite.                                                                 *)
ASSUME TextAssumption ==
  /\ "" \in DOMAIN TextRank /\ DOMAIN Number \subseteq DOMAIN TextRank \ {""}
  /\ \A t \in DOMAIN TextRank : TextRank[t] \in Int
  /\ \A t, u \in DOMAIN TextRank : TextRank[t] = TextRank[u] => t = u
  /\ \A t \in DOMAIN Number : Number[t] \in -Wide .. Wide - 1
(* The text made of an i64 parses to it. *)
ASSUME SpellingAssumption ==
  /\ \A s \in DOMAIN Spelled : Spelled[s] \in DOMAIN TextRank
  /\ \A n \in -Wide .. Wide - 1 :
       /\ <<"int", n>> \in DOMAIN Spelled
       /\ Spelled[<<"int", n>>] \in DOMAIN Number /\ Number[Spelled[<<"int", n>>]] = n
ASSUME DocsAssumption ==
  \A d \in Docs :
    /\ IsFiniteSet(DOMAIN d)
    /\ \A p \in DOMAIN d :
         p \in Seq(DOMAIN TextRank) /\ (d[p][1] = "string" => d[p][2] \in DOMAIN TextRank)
ASSUME PositionAssumption ==
  Position \in Seq({Position[i] : i \in DOMAIN Position}) /\ Distinct(Position)
ASSUME DepthAssumption == MaxDepth \in Nat /\ MaxNodes \in Nat

Absent == <<"absent", 0>>
Empty == [p \in {} |-> Absent]

VARIABLES
  given,      \* the document of the SQL call
  lenient,    \* from_json_unknown = drop: unknown_field_is_error is FALSE
  doc,        \* the document being built: given, or what to_json printed
  frames,     \* calls of from_json that have not returned
  buffer,     \* what they have built
  first,      \* the buffer built of given, once it is printed
  phase,      \* "build", "built", "verified", "unverified" or "refused"
  refusal     \* the error of from_json or to_json

vars == <<given, lenient, doc, frames, buffer, first, phase, refusal>>

Node(f, p) == IF p \in DOMAIN f THEN f[p] ELSE Absent

IsPrefix(p, q) == Len(p) <= Len(q) /\ SubSeq(q, 1, Len(p)) = p

(* Keys of the object, or positions of the array, at p. *)
KeysAt(f, p) == {q[Len(q)] : q \in {r \in DOMAIN f : Len(r) = Len(p) + 1 /\ IsPrefix(p, r)}}

Elements(f, p) == [i \in 1 .. Cardinality(KeysAt(f, p)) |-> Position[i]]

(* A codec decodes what it encodes, and encodes what it has decoded or     *)
(* what a document gives as an array of bytes.                             *)
ASSUME CodecAssumption ==
  \A c \in DOMAIN Codecs :
    LET decode == Codecs[c].decode
        encode == Codecs[c].encode
    IN /\ \A s \in DOMAIN decode : decode[s] \in DOMAIN encode
       /\ \A v \in DOMAIN encode : encode[v] \in DOMAIN decode /\ decode[encode[v]] = v
       /\ \A d \in Docs : \A p \in DOMAIN d :
            LET byte(i) == DecodeUnsigned(Kinds["ubyte"], Node(d, Append(p, Position[i])))
            IN d[p][1] = "array" /\ (\A i \in DOMAIN Elements(d, p) : ~IsBad(byte(i))) =>
                 [i \in DOMAIN Elements(d, p) |-> byte(i)[2]] \in DOMAIN encode

(* An item of a frame is a field or an element yet to be built: where it   *)
(* is in the document and in the buffer, its type, what its absence means, *)
(* and, in a keyed object, the key merged into it.                         *)
Item(key, slot, type, need, over) ==
  [key |-> key, slot |-> slot, type |-> type, need |-> need, over |-> over]

FieldItems(o) ==
  LET object == Objects[o]
      need(f) ==
        IF object.struct \/ f \in object.required THEN "required" ELSE "optional"
  IN [i \in 1 .. Len(object.order) |->
        Item(object.order[i], object.order[i], object.type[object.order[i]],
             need(object.order[i]), <<>>)]

(* op says which function the frame is a call of: "table", "struct", or    *)
(* "variant" for the struct of a union, "vector", or "array" of a struct.  *)
Frame(op, from, to, type, depth, over, todo) ==
  [op |-> op, from |-> from, to |-> to, type |-> type, depth |-> depth, over |-> over, todo |-> todo]

Top == frames[Len(frames)]
Due == Head(Top.todo)

Type == Due.type
From == Append(Top.from, Due.key)
To == Append(Top.to, Due.slot)

(* The value of the next item: a key merged into an element hides what the *)
(* document has there (and is equal to it).                                *)
Value ==
  IF Top.over # <<>> /\ Top.over[1] = Due.key THEN Top.over[2] ELSE Node(doc, From)

Rest == [frames EXCEPT ![Len(frames)].todo = Tail(@)]

Put(p, node) == [q \in DOMAIN buffer \cup {p} |-> IF q = p THEN node ELSE buffer[q]]

(***************************************************************************)
(* Outcomes of a step.                                                     *)
(***************************************************************************)

(* Mutant of Refuse: what was built so far is kept. *)
RefuseKeepsWork(reason) ==
  /\ phase' = "refused"
  /\ refusal' = reason
  /\ frames' = <<>>
  /\ UNCHANGED <<given, lenient, doc, buffer, first>>

Refuse(reason) ==
  /\ phase' = "refused"
  /\ refusal' = reason
  /\ frames' = <<>>
  /\ buffer' = Empty
  /\ UNCHANGED <<given, lenient, doc, first>>

Move(stack, built) ==
  /\ frames' = stack
  /\ buffer' = built
  /\ UNCHANGED <<given, lenient, doc, first, phase, refusal>>

(* Keys of a table are the names of its fields, among them the             *)
(* `<name>_type` of each union. A struct never tolerates an unknown one.   *)
Unknown(type, from) == KeysAt(doc, from) \ DOMAIN Objects[type].type # {}

(* Mutant of EnterTable: the depth is compared after the table is built.   *)
EnterTableUnchecked(from, to, type, depth, over, stack) ==
  IF Unknown(type, from) /\ ~lenient
    THEN Refuse("unknown field")
    ELSE Move(Append(stack, Frame("table", from, to, type, depth, over, FieldItems(type))),
              Put(to, <<"table", type>>))

(* The head of build_table. *)
EnterTable(from, to, type, depth, over, stack) ==
  IF depth > MaxDepth THEN Refuse("too deep")
  ELSE IF Unknown(type, from) /\ ~lenient
    THEN Refuse("unknown field")
    ELSE Move(Append(stack, Frame("table", from, to, type, depth, over, FieldItems(type))),
              Put(to, <<"table", type>>))

(* Mutant of EnterStruct: from_json_unknown = drop is for structs, too. *)
EnterStructLenient(op, from, to, type, stack) ==
  IF Unknown(type, from) /\ ~lenient
    THEN Refuse("unknown field")
    ELSE Move(Append(stack, Frame(op, from, to, type, Top.depth, <<>>, FieldItems(type))),
              Put(to, <<"struct", type>>))

(* The head of build_struct_bytes. *)
EnterStruct(op, from, to, type, stack) ==
  IF Unknown(type, from)
    THEN Refuse("unknown field")
    ELSE Move(Append(stack, Frame(op, from, to, type, Top.depth, <<>>, FieldItems(type))),
              Put(to, <<"struct", type>>))

(***************************************************************************)
(* Steps of from_json: the next item of the top frame, by its type.        *)
(***************************************************************************)

Building == phase = "build" /\ frames # <<>> /\ Top.todo # <<>>

IsGiven == Due.need = "value" \/ Value \notin {Absent, Null}

(* JSON null is absence, which a table's optional field alone may have. *)
BuildAbsent ==
  /\ Building /\ ~IsGiven
  /\ Type.base # "union"
  /\ IF Due.need = "required" THEN Refuse("missing") ELSE Move(Rest, buffer)

ScalarKind ==
  CASE Top.op = "vector" -> VectorElement(Kinds[Type.of])
    [] Top.op = "array"  -> ArrayElement(Kinds[Type.of])
    [] Top.op \notin {"vector", "array"} -> Kinds[Type.of]

(* Mutant of Elided: a zero is left out, as if it were every default. *)
ElidedZero(scalar) == Top.op = "table" /\ scalar \in {<<"int", 0>>, <<"real", 0>>, <<"bool", FALSE>>}

(* push_slot writes nothing for a scalar of a table equal to its default. *)
Elided(scalar) == Top.op = "table" /\ scalar = Type.default

BuildScalar ==
  /\ Building /\ IsGiven
  /\ Type.base \in {"scalar", "disc"}
  /\ LET scalar == Decode(ScalarKind, Value)
     IN IF IsBad(scalar)
          THEN Refuse(scalar[2])
          ELSE Move(Rest, IF Elided(scalar) THEN buffer
                          ELSE Put(To, <<"scalar", ScalarKind, scalar>>))

BuildString ==
  /\ Building /\ IsGiven
  /\ Type.base = "string"
  /\ IF Value[1] = "string" THEN Move(Rest, Put(To, Value)) ELSE Refuse("type")

(* Mutant of BuildTable: a union's table is not a level of its own. *)
BuildTableUnion ==
  /\ Building /\ IsGiven
  /\ Type.base = "table"
  /\ IF Value[1] = "object"
       THEN EnterTable(From, To, Type.of,
                       IF Top.op = "table" /\ Due.need = "value" THEN Top.depth ELSE Top.depth + 1,
                       Due.over, Rest)
       ELSE Refuse("type")

BuildTable ==
  /\ Building /\ IsGiven
  /\ Type.base = "table"
  /\ IF Value[1] = "object"
       THEN EnterTable(From, To, Type.of, Top.depth + 1, Due.over, Rest)
       ELSE Refuse("type")

BuildStruct ==
  /\ Building /\ IsGiven
  /\ Type.base = "struct"
  /\ IF Value[1] = "object"
       THEN EnterStruct(IF Top.op = "table" /\ Due.need = "value" THEN "variant" ELSE "struct",
                        From, To, Type.of, Rest)
       ELSE Refuse("type")

(* [ubyte]: a string of the field's codec, or an array of bytes. *)
Byte(i) == DecodeUnsigned(Kinds["ubyte"], Node(doc, Append(From, Position[i])))
BadBytes == {i \in DOMAIN Elements(doc, From) : IsBad(Byte(i))}

BuildBytes ==
  /\ Building /\ IsGiven
  /\ Type.base = "bytes"
  /\ IF Top.depth + 1 > MaxDepth THEN Refuse("too deep")
     ELSE IF Value[1] = "string"
       THEN IF Value[2] \in DOMAIN Codecs[Type.of].decode
              THEN Move(Rest, Put(To, <<"bytes", Type.of, Codecs[Type.of].decode[Value[2]]>>))
              ELSE Refuse("encoding")
     ELSE IF Value[1] = "array"
       THEN IF BadBytes # {}
              THEN \E i \in BadBytes : (\A j \in BadBytes : i <= j) /\ Refuse(Byte(i)[2])
              ELSE Move(Rest, Put(To, <<"bytes", Type.of,
                                        [i \in DOMAIN Elements(doc, From) |-> Byte(i)[2]]>>))
     ELSE Refuse("type")

ElementItems ==
  [i \in DOMAIN Elements(doc, From) |->
     Item(Position[i], Position[i], [base |-> Type.elem, of |-> Type.of], "value", <<>>)]

KeyField(o) == Objects[o].key

(* The object form of a vector of tables with a key. *)
InKeyedForm == Value[1] = "object" /\ Type.elem = "table" /\ KeyField(Type.of) # NoKey

(* Bound: a vector has no more elements than there are positions. *)
InPositions == Cardinality(KeysAt(doc, From)) \in 0 .. Len(Position)

BuildVector ==
  /\ Building /\ IsGiven
  /\ Type.base = "vector" /\ InPositions
  /\ IF Top.depth + 1 > MaxDepth THEN Refuse("too deep")
     ELSE IF Value[1] = "array"
       THEN Move(Append(Rest, Frame("vector", From, To, Type.of, Top.depth + 1, <<>>, ElementItems)),
                 Put(To, <<"vector", Type>>))
       ELSE ~InKeyedForm /\ Refuse("type")

KeyType == Objects[Type.of].type[KeyField(Type.of)]
KeySort == IF KeyType.base = "scalar" THEN Kinds[KeyType.of].sort ELSE KeyType.base

(* The key of an entry as from_json merges it into the element. *)
KeyJson(key) == IF KeySort = "string" THEN <<"string", key>> ELSE <<"int", Number[key]>>

EntryFault(key) ==
  LET entry == Append(From, key)
  IN IF Node(doc, entry)[1] # "object" THEN "type"
     ELSE IF KeySort \notin {"string", "signed", "unsigned"} THEN "unsupported"
     ELSE IF KeySort # "string" /\ key \notin DOMAIN Number THEN "type"
     ELSE IF Node(doc, Append(entry, KeyField(Type.of))) \notin {Absent, KeyJson(key)} THEN "type"
     ELSE "none"

BadEntries == {key \in KeysAt(doc, From) : EntryFault(key) # "none"}

(* Mutant of Before: integers are sorted as the strings they are written as. *)
BeforeAsText(a, b) == TextRank[a] < TextRank[b]

(* Entries are sorted by their key; the sort is stable, over a map in the  *)
(* order of strings.                                                       *)
Before(a, b) ==
  IF KeySort = "string" \/ Number[a] = Number[b]
    THEN TextRank[a] < TextRank[b]
    ELSE Number[a] < Number[b]

SortedKeys ==
  LET keys == KeysAt(doc, From)
  IN [i \in 1 .. Cardinality(keys) |->
        CHOOSE k \in keys : Cardinality({j \in keys : Before(j, k)}) = i - 1]

EntryItems ==
  [i \in DOMAIN SortedKeys |->
     Item(SortedKeys[i], Position[i], [base |-> "table", of |-> Type.of], "value",
          <<KeyField(Type.of), KeyJson(SortedKeys[i])>>)]

(* A keyed object counts two levels: build_vector and the call it makes. *)
BuildKeyed ==
  /\ Building /\ IsGiven
  /\ Type.base = "vector" /\ InPositions /\ InKeyedForm
  /\ Top.depth + 1 <= MaxDepth
  /\ IF Top.depth + 2 > MaxDepth THEN Refuse("too deep")
     ELSE IF BadEntries # {}
       THEN \E a \in BadEntries :
              (\A b \in BadEntries : TextRank[a] <= TextRank[b]) /\ Refuse(EntryFault(a))
       ELSE Move(Append(Rest, Frame("vector", From, To, Type.of, Top.depth + 2, <<>>, EntryItems)),
                 Put(To, <<"vector", Type>>))

(* A fixed-size array of a struct has as many elements as its type says. *)
BuildArray ==
  /\ Building /\ IsGiven
  /\ Type.base = "array" /\ InPositions
  /\ IF Value[1] # "array" THEN Refuse("type")
     ELSE IF Len(ElementItems) # Type.len THEN Refuse("range")
     ELSE Move(Append(Rest, Frame("array", From, To, Type.of, Top.depth, <<>>, ElementItems)),
               Put(To, <<"array", Type>>))

(* build_union_pair: the discriminator and, unless it is NONE, the value,  *)
(* which becomes the next item, of the variant's type.                     *)
Disc == Node(doc, Append(Top.from, Type.disc))
VariantItem == Item(Due.key, Due.slot, Variants[Type.of][Disc[2]], "value", <<>>)
DiscKind == Kinds[Objects[Top.type].type[Type.disc].of]

BuildUnion ==
  /\ Building
  /\ Type.base = "union"
  /\ IF Disc = Absent /\ Value \in {Absent, Null}
       THEN IF Due.need = "required" THEN Refuse("missing") ELSE Move(Rest, buffer)
     ELSE IF Disc = Absent THEN Refuse("no discriminator")
     ELSE IF Disc[1] # "string" THEN Refuse("type")
     ELSE IF Disc[2] \notin DOMAIN Variants[Type.of] THEN Refuse("enum")
     ELSE IF DiscKind.names[Disc[2]] = 0 THEN Move(Rest, buffer)
     ELSE IF Value = Absent THEN Refuse("missing")
     ELSE Move([frames EXCEPT ![Len(frames)].todo = <<VariantItem>> \o Tail(@)],
               Put(Append(Top.to, Type.disc),
                   <<"scalar", DiscKind, <<"int", DiscKind.names[Disc[2]]>>>>))

(* The sizes and alignments of structs that can be written into a table,   *)
(* a vector or a union.                                                    *)
Dispatched ==
  {<<n, 1>> : n \in {1, 2, 3, 4, 8}}
    \cup {<<n, 2>> : n \in {2, 4, 6, 8, 10, 12, 16}}
    \cup {<<n, 4>> : n \in {4, 8, 12, 16, 20, 24, 28, 32, 36, 40, 44, 48, 56, 64}}
    \cup {<<n, 8>> : n \in {8, 16, 24, 32, 40, 48, 56, 64, 72, 80, 96, 128, 192, 256}}

Packs(o) == Objects[o].size \in Dispatched

(* Structs that the call writes itself, before it returns. *)
Writes ==
  CASE Top.op = "variant" -> {Top.type}
    [] Top.op = "vector"  -> IF buffer[Top.to][2].elem = "struct" THEN {Top.type} ELSE {}
    [] Top.op = "table"   ->
         {Objects[Top.type].type[f].of : f \in
            {g \in DOMAIN Objects[Top.type].type :
               Objects[Top.type].type[g].base = "struct" /\ Append(Top.to, g) \in DOMAIN buffer}}
    [] Top.op \in {"struct", "array"} -> {}

Return ==
  /\ phase = "build" /\ frames # <<>> /\ Top.todo = <<>>
  /\ IF \E o \in Writes : ~Packs(o) THEN Refuse("unsupported")
     ELSE IF Len(frames) > 1 THEN Move(SubSeq(frames, 1, Len(frames) - 1), buffer)
     ELSE IF Cardinality(DOMAIN buffer) > MaxNodes THEN Refuse("too large")
     ELSE /\ phase' = "built" /\ frames' = <<>>
          /\ UNCHANGED <<given, lenient, doc, buffer, first, refusal>>

JsonToBuf ==
  /\ phase = "build" /\ frames = <<>>
  /\ IF doc[<<>>][1] = "object"
       THEN EnterTable(<<>>, <<>>, RootTable, 0, <<>>, <<>>)
       ELSE Refuse("root")

BuildStep ==
  \/ JsonToBuf \/ BuildAbsent \/ BuildScalar \/ BuildString \/ BuildTable \/ BuildStruct
  \/ BuildBytes \/ BuildVector \/ BuildKeyed \/ BuildArray \/ BuildUnion \/ Return

(***************************************************************************)
(* The verifier, as far as its limit on nesting: a level for each table,   *)
(* the root included. External to the extension.                           *)
(***************************************************************************)

Tables(b) == {p \in DOMAIN b : b[p][1] = "table"}

Prefixes(p) == {SubSeq(p, 1, i) : i \in 0 .. Len(p)}

Nesting(b, p) == Cardinality(Prefixes(p) \cap Tables(b))

Verify ==
  /\ phase = "built"
  /\ phase' = IF \E p \in Tables(buffer) : Nesting(buffer, p) > MaxDepth
                THEN "unverified" ELSE "verified"
  /\ UNCHANGED <<given, lenient, doc, frames, buffer, first, refusal>>

(***************************************************************************)
(* to_json, node by node.                                                  *)
(***************************************************************************)

Place(position) == CHOOSE i \in DOMAIN Position : Position[i] = position

IsKeyed(b, p) ==
  Node(b, p)[1] = "vector" /\ b[p][2].elem = "table" /\ KeyField(b[p][2].of) # NoKey

(* Mutant of KeyText: a key that is left out reads as its default. *)
KeyTextFilled(b, p) ==
  LET key == KeyField(b[p][2])
      type == Objects[b[p][2]].type[key]
      node == Node(b, Append(p, key))
  IN IF type.base = "string" THEN IF node = Absent THEN "" ELSE node[2]
     ELSE Spelled[IF node = Absent THEN type.default ELSE node[3]]

(* get_any_field_string of the key field of the table at p: of a key that  *)
(* is not stored, of whatever type, the empty string. External.            *)
KeyText(b, p) ==
  LET key == KeyField(b[p][2])
      node == Node(b, Append(p, key))
  IN IF node = Absent THEN ""
     ELSE IF Objects[b[p][2]].type[key].base = "string" THEN node[2]
     ELSE Spelled[node[3]]

(* Where a node of the buffer is in the document: an element of a keyed    *)
(* vector is under its key, and hides earlier ones of the same key.        *)
Printed(b, p) ==
  [i \in 1 .. Len(p) |->
     IF IsKeyed(b, SubSeq(p, 1, i - 1)) THEN KeyText(b, SubSeq(p, 1, i)) ELSE p[i]]

Hidden(b, p) ==
  \E i \in 1 .. Len(p) :
    LET vector == SubSeq(p, 1, i - 1)
    IN /\ IsKeyed(b, vector)
       /\ \E j \in Place(p[i]) + 1 .. Cardinality(KeysAt(b, vector)) :
            KeyText(b, Append(vector, Position[j])) = KeyText(b, Append(vector, p[i]))

(* The discriminator of each union is printed with the union. *)
IsDiscriminator(b, p) ==
  /\ p # <<>>
  /\ LET table == SubSeq(p, 1, Len(p) - 1)
     IN b[table][1] = "table" /\ Objects[b[table][2]].type[p[Len(p)]].base = "disc"

Shape(b, p) ==
  LET node == b[p]
  IN CASE node[1] \in {"table", "struct"} -> <<"object", 0>>
       [] node[1] \in {"vector", "array"} -> IF IsKeyed(b, p) THEN <<"object", 0>> ELSE <<"array", 0>>
       [] node[1] = "string"              -> node
       [] node[1] = "bytes"               -> <<"string", Codecs[node[2]].encode[node[3]]>>
       [] node[1] = "scalar"              -> Shown(node[2], node[3])

Fields(b, p, base) ==
  {f \in DOMAIN Objects[b[p][2]].type : Objects[b[p][2]].type[f].base = base}

(* What a table prints for an absent scalar. *)
Defaults(b, p) ==
  {<<Append(Printed(b, p), f), Shown(Kinds[Objects[b[p][2]].type[f].of], Objects[b[p][2]].type[f].default)>> :
     f \in {g \in Fields(b, p, "scalar") : Append(p, g) \notin DOMAIN b}}

(* What it prints for the discriminator of each union, NONE if absent. *)
Discriminators(b, p) ==
  LET object == Objects[b[p][2]]
      number(d) == IF Append(p, d) \in DOMAIN b THEN b[Append(p, d)][3] ELSE <<"int", 0>>
  IN {<<Append(Printed(b, p), object.type[u].disc),
        Shown(Kinds[object.type[object.type[u].disc].of], number(object.type[u].disc))>> :
        u \in Fields(b, p, "union")}

Json(b) ==
  LET seen == {p \in DOMAIN b : ~Hidden(b, p)}
      nodes == {<<Printed(b, p), Shape(b, p)>> : p \in {q \in seen : ~IsDiscriminator(b, q)}}
                 \cup UNION {Defaults(b, p) \cup Discriminators(b, p) : p \in seen \cap Tables(b)}
  IN [p \in {n[1] : n \in nodes} |-> (CHOOSE n \in nodes : n[1] = p)[2]]

(* An infinity is refused wherever it is, in a hidden element too. *)
HasNonFinite(b) == \E p \in DOMAIN b : b[p][1] = "scalar" /\ NonFinite(b[p][3])

(* Printing, and the second use of from_json on what is printed. *)
BufToJson ==
  /\ phase = "verified" /\ first = Empty
  /\ IF HasNonFinite(buffer)
       THEN Refuse("non-finite")
       ELSE /\ doc' = Json(buffer)
            /\ first' = buffer
            /\ buffer' = Empty
            /\ phase' = "build"
            /\ UNCHANGED <<given, lenient, frames, refusal>>

Over == phase \in {"unverified", "refused"} \/ (phase = "verified" /\ first # Empty)

Init ==
  /\ given \in Docs
  /\ lenient \in BOOLEAN
  /\ doc = given
  /\ frames = <<>>
  /\ buffer = Empty
  /\ first = Empty
  /\ phase = "build"
  /\ refusal = "none"

Next == BuildStep \/ Verify \/ BufToJson \/ (Over /\ UNCHANGED vars)

Spec == Init /\ [][Next]_vars

(***************************************************************************)
(* Properties.                                                             *)
(***************************************************************************)

Phases == {"build", "built", "verified", "unverified", "refused"}

Errors ==
  {"none", "root", "too deep", "unknown field", "missing", "type", "range", "enum", "encoding",
   "no discriminator", "unsupported", "too large", "non-finite"}

(* Type correctness of a call: its calls in progress are at depths that    *)
(* check_depth lets pass, and a refusal leaves no part of a buffer.        *)
TypeOK ==
  /\ phase \in Phases
  /\ refusal \in Errors
  /\ (phase = "refused") <=> (refusal # "none")
  /\ (frames # <<>>) => (phase = "build")
  /\ \A i \in DOMAIN frames :
       /\ frames[i].op \in {"table", "struct", "variant", "vector", "array"}
       /\ frames[i].depth \in 0 .. MaxDepth
  /\ (phase = "refused") => (buffer = Empty)

(* Tables open at once, the stack from_json uses, are at most one more     *)
(* than max_depth: every way from a table into another one, through a      *)
(* vector, a keyed object or a union, counts at least a level.             *)
RecursionBounded ==
  Cardinality({i \in DOMAIN frames : frames[i].op = "table"}) <= MaxDepth + 1

(* The only nesting that from_json builds and the verifier, with the same  *)
(* max_depth, refuses is one of exactly max_depth + 1 tables: from_json    *)
(* counts the root as 0 and the verifier as 1.                             *)
OneLevelApart ==
  /\ \A p \in Tables(buffer) : Nesting(buffer, p) <= MaxDepth + 1
  /\ phase = "unverified" => \E p \in Tables(buffer) : Nesting(buffer, p) = MaxDepth + 1

(* The lookup takes a key that is no i64 for the smallest. *)
KeyRank(b, p) ==
  LET text == KeyText(b, p)
  IN IF Objects[b[p][2]].type[KeyField(b[p][2])].base = "string" THEN TextRank[text]
     ELSE IF text \in DOMAIN Number THEN Number[text] ELSE -Wide - 1

KeysIncrease(b) ==
  \A p \in {q \in DOMAIN b : IsKeyed(b, q)} :
    \A i \in 2 .. Cardinality(KeysAt(b, p)) :
      KeyRank(b, Append(p, Position[i - 1])) < KeyRank(b, Append(p, Position[i]))

Rebuilt == first # Empty /\ phase \in {"built", "verified", "unverified"}

(* What from_json makes of to_json's objects has keys in strict order, as  *)
(* the strict lookup of keyed vectors relies on, whatever the order or the *)
(* repetitions of the vector that was printed.                             *)
RebuiltInKeyOrder == Rebuilt => KeysIncrease(buffer)

KeysPresent(b) ==
  \A p \in {q \in DOMAIN b : IsKeyed(b, q)} :
    LET key == KeyField(b[p][2].of)
    IN Objects[b[p][2].of].type[key].base = "string" =>
         \A i \in KeysAt(b, p) : p \o <<i, key>> \in DOMAIN b

(* Printing and building again gives the buffer that was printed, unless a *)
(* keyed vector was out of order or an element of it had no key.           *)
SameBuffer ==
  (Rebuilt /\ KeysIncrease(first) /\ KeysPresent(first)) => buffer = first

KeyedFields ==
  {f \in UNION {DOMAIN Objects[o].type : o \in DOMAIN Objects} :
     \E o \in DOMAIN Objects : f \in DOMAIN Objects[o].type
       /\ LET t == Objects[o].type[f] IN t.base = "vector" /\ t.elem = "table" /\ KeyField(t.of) # NoKey}

KeyedElements(b) == {p \in DOMAIN b : p # <<>> /\ IsKeyed(b, SubSeq(p, 1, Len(p) - 1))}

(* Elements with an integer key that do not come back: the key is not      *)
(* stored, or is beyond i64, so that the name of the entry is no integer,  *)
(* or is an enum's with a member for it, whose name is in the entry.       *)
Unreadable(b) ==
  {e \in KeyedElements(b) :
     LET key == KeyField(b[e][2])
         type == Objects[b[e][2]].type[key]
         node == Node(b, Append(e, key))
     IN /\ type.base = "scalar" /\ Kinds[type.of].sort \in {"signed", "unsigned"}
        /\ \/ node = Absent
           \/ node[3][2] >= Wide
           \/ Shown(node[2], node[3]) # node[3]}

(* from_json takes back what to_json prints of a buffer that passed the    *)
(* verifier, with four exceptions, all for keyed vectors. The object form  *)
(* counts a level more than the array that was given; it has no keys that  *)
(* are floats or booleans; it gives an empty string to an element that had *)
(* no key, which takes room; and no element that is Unreadable comes back. *)
TakesBack ==
  LET unread == {e \in Unreadable(first) : ~Hidden(first, e)}
      array == \E p \in DOMAIN given :
                 p # <<>> /\ p[Len(p)] \in KeyedFields /\ given[p][1] = "array"
  IN /\ Rebuilt => unread = {}
     /\ phase = "refused" /\ first # Empty =>
          \/ refusal = "too deep" /\ array
          \/ refusal = "too large" /\ array /\ ~KeysPresent(first)
          \/ refusal = "type" /\ unread # {}
          \/ /\ refusal = "unsupported" /\ array
             /\ \E p \in {q \in DOMAIN first : IsKeyed(first, q)} :
                  LET key == Objects[first[p][2].of].type[KeyField(first[p][2].of)]
                  IN key.base = "scalar" /\ Kinds[key.of].sort \in {"bool", "float"}

WasPrinted == phase = "build" /\ frames = <<>> /\ first # Empty

(* A member of a printed object of keyed tables is named by the key that *)
(* its body has (json-conversion.md: "JSON object keyed by the `(key)`   *)
(* field's stringified value"). The code fails it for a key that is left *)
(* out, whose member has no name and whose body has the default.         *)
NamedByKey ==
  WasPrinted => \A e \in KeyedElements(first) :
    LET member == Printed(first, e)
        key == Node(doc, Append(member, KeyField(first[e][2])))
    IN key[1] = "int" => member[Len(member)] = Spelled[key]

(* A number that is stored is in the range of the field's type           *)
(* (json-conversion.md: "Integer out of range for declared scalar width" *)
(* is an ERROR). Stated for the fields of the root. The code fails it    *)
(* for 2^63 in a field of type long, which is stored as 2^63 - 1.        *)
RangeIsEnforced ==
  phase = "built" /\ first = Empty => \A f \in DOMAIN Objects[RootTable].type :
    LET kind == Kinds[Objects[RootTable].type[f].of]
    IN /\ Objects[RootTable].type[f].base = "scalar" /\ kind.sort \in {"signed", "unsigned"}
       /\ <<f>> \in DOMAIN buffer /\ Node(given, <<f>>)[1] = "int"
       => given[<<f>>][2] \in kind.lo .. kind.hi
=============================================================================
