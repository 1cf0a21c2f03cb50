------------------------------ MODULE Executor ------------------------------
(***************************************************************************)
(* The query executor: it walks a parsed path through a verified buffer    *)
(* and answers with a list of leaves, None standing for SQL NULL.          *)
(*                                                                         *)
(* The walk_ functions call each other; the calls still to be made are the *)
(* frames of a stack. Reads have no effect and one error discards all, so  *)
(* a fan-out may push the frames of all its elements at once.              *)
(*                                                                         *)
(* A table or a struct is a function of its fields, None where a table     *)
(* lacks one. A vector or array is a sequence. A union value is a function *)
(* of one variant to that variant's content. Leaves are their texts.       *)
(***************************************************************************)
EXTENDS Naturals, Sequences

CONSTANTS
  Fields,    \* the schema: for an object, the types of its fields
  Structs,   \* the objects that are structs
  KeyField,  \* for a table, its (key) field, or None
  Optional,  \* optional scalars (`= null`), as pairs <<object, field>>
  Variants,  \* for a union, what its variants hold: an object or "string"
  Verified,  \* for an object, the values that pass the verifier as one
  Root,      \* the root object
  Buffers,   \* root tables in use
  Names,     \* field names and keys that paths may use
  Paths,     \* parsed paths in use
  Fill,      \* values of fill_scalar_defaults in use
  Leaves,    \* texts of leaves
  Default,   \* the text of a scalar's schema default
  Empty,     \* the empty text
  None       \* absence of a value

Objects == DOMAIN Fields

Values == UNION {Verified[o] : o \in Objects}

(* A step of a path: name is a field's or a key, at an index. *)
Step == [kind : {"field", "index", "all", "key", "keys", "type"},
         name : Names, at : Nat]

(* What a field of type t may hold, if the verifier accepts the buffer. *)
Content(e) == IF e \in Objects THEN Verified[e] ELSE Leaves

Holds(t, x) ==
  CASE t.base \in {"scalar", "string"} -> x \in Leaves
    [] t.base = "obj"                  -> x \in Verified[t.of]
    [] t.base \in {"vector", "array"}  -> x \in Seq(Content(t.of))
    [] t.base = "union" ->
         \E w \in DOMAIN Variants[t.of] : x \in [{w} -> Content(Variants[t.of][w])]

ASSUME SchemaAssumption ==
  /\ Structs \subseteq Objects /\ Root \in Objects \ Structs
  /\ \A o \in Objects, f \in UNION {DOMAIN Fields[p] : p \in Objects} :
       f \in DOMAIN Fields[o] =>
         LET t == Fields[o][f] IN
         /\ t.base \in IF o \in Structs THEN {"scalar", "obj", "array"}
                       ELSE {"scalar", "string", "obj", "vector", "union"}
         /\ t.base = "obj" => t.of \in Objects /\ (o \in Structs => t.of \in Structs)
         /\ t.base = "array" => t.of \in Structs \cup {"scalar"}
         /\ t.base = "union" => DOMAIN Variants[t.of] \subseteq Leaves
  /\ \A o \in Objects \ Structs :
       KeyField[o] # None => /\ KeyField[o] \in DOMAIN Fields[o]
                             /\ Fields[o][KeyField[o]].base \in {"scalar", "string"}
  /\ {"scalar", "string"} \cap Objects = {}
  /\ {Default, Empty, "NONE"} \subseteq Leaves
  /\ None \notin Leaves

(* What the SAFETY comments of the executor rely on. *)
ASSUME VerifierAssumption ==
  /\ Buffers \subseteq Verified[Root]
  /\ \A o \in Objects : \A v \in Verified[o], f \in DOMAIN Fields[o] :
       \/ v[f] = None /\ o \notin Structs
       \/ v[f] # None /\ Holds(Fields[o][f], v[f])

(* parse_segment pushes a step before anything else. *)
ASSUME ParserAssumption ==
  /\ Paths \subseteq Seq(Step)
  /\ <<>> \notin Paths
  /\ Fill \subseteq BOOLEAN

VARIABLES
  buffer, path, fill,   \* the query: its input and setting
  status,               \* "walking", "done" or "error"
  stack,                \* calls to walk_table and walk_struct still to be made
  out                   \* leaves so far

query == <<buffer, path, fill>>
vars == <<buffer, path, fill, status, stack, out>>

Frame(o, v, i) == [obj |-> o, val |-> v, at |-> i]

Init ==
  /\ buffer \in Buffers /\ path \in Paths /\ fill \in Fill
  /\ status = "walking"
  /\ stack = <<Frame(Root, buffer, 1)>>
  /\ out = <<>>

(***************************************************************************)
(* The call in progress                                                    *)
(***************************************************************************)
Top == Head(stack)
This == path[Top.at]
Type == Fields[Top.obj][This.name]
Value == Top.val[This.name]

(* The selector that follows the field. *)
Next1 == path[Top.at + 1]

(* The path ends with the field (0), or with the selector after it (1). *)
Ends(k) == Top.at + k = Len(path)

Called == status = "walking" /\ stack # <<>>

(* find_field; by name and by #id. *)
FieldFound == This.kind = "field" /\ This.name \in DOMAIN Fields[Top.obj]

AtTable(base) == Called /\ FieldFound /\ Top.obj \notin Structs /\ Type.base = base
AtStruct(base) == Called /\ FieldFound /\ Top.obj \in Structs /\ Type.base = base

Selects(kind) == ~Ends(0) /\ Next1.kind = kind

Emit(leaves) ==
  /\ out' = out \o leaves
  /\ stack' = Tail(stack)
  /\ UNCHANGED <<query, status>>

(* Mutant of Walk: breadth first. *)
WalkBreadthFirst(o, values, k) ==
  /\ stack' = Tail(stack) \o [i \in DOMAIN values |-> Frame(o, values[i], Top.at + k)]
  /\ UNCHANGED <<query, status, out>>

(* Calls that go on k steps after the field, one per value. *)
Walk(o, values, k) ==
  /\ stack' = [i \in DOMAIN values |-> Frame(o, values[i], Top.at + k)] \o Tail(stack)
  /\ UNCHANGED <<query, status, out>>

Fail ==
  /\ status' = "error"
  /\ stack' = <<>> /\ out' = <<>>
  /\ UNCHANGED query

(***************************************************************************)
(* Tables                                                                  *)
(***************************************************************************)
(* The step is no field selector, or names no field of the table or struct. *)
NoField == Called /\ ~FieldFound /\ Fail

(* The active variant: what a union value holds. *)
Active(x) == CHOOSE w \in DOMAIN x : TRUE

(* `|type`: the name of the active variant, NONE if the union is absent. *)
TypeLeaf ==
  /\ AtTable("union") /\ Selects("type")
  /\ IF Ends(1) THEN Emit(<<IF Value = None THEN "NONE" ELSE Active(Value)>>)
                ELSE Fail

(* `|type` on a field that is no union. *)
NoType ==
  /\ \E base \in {"scalar", "string", "obj", "vector"} : AtTable(base)
  /\ Selects("type")
  /\ Fail

(* Mutant of AbsentField: no leaf instead of an absent one. *)
AbsentNoLeaf ==
  /\ \E base \in {"string", "obj", "union"} : AtTable(base)
  /\ ~Selects("type") /\ Value = None
  /\ Emit(<<>>)

(* An absent string, table, struct or union, wherever the path would go on. *)
AbsentField ==
  /\ \E base \in {"string", "obj", "union"} : AtTable(base)
  /\ ~Selects("type") /\ Value = None
  /\ Emit(<<None>>)

ScalarLeaf ==
  /\ AtTable("scalar") /\ ~Selects("type")
  /\ IF Ends(0)
     THEN Emit(<<IF Value = None /\ fill THEN Default ELSE Value>>)
     ELSE Fail

StringLeaf ==
  /\ AtTable("string") /\ ~Selects("type") /\ Value # None
  /\ IF Ends(0) THEN Emit(<<Value>>) ELSE Fail

Descend ==
  /\ AtTable("obj") /\ ~Selects("type") /\ Value # None
  /\ IF Ends(0) THEN Fail ELSE Walk(Type.of, <<Value>>, 1)

(* Mutant of DescendUnion: the discriminator of another field is read. *)
DescendWrongVariant ==
  /\ AtTable("union") /\ ~Selects("type") /\ Value # None
  /\ LET w == CHOOSE u \in DOMAIN Variants[Type.of] : u \notin DOMAIN Value
         held == Variants[Type.of][w]
     IN IF held \in Objects
        THEN IF Ends(0) THEN Fail ELSE Walk(held, <<Value[Active(Value)]>>, 1)
        ELSE IF Ends(0) THEN Emit(<<Value[Active(Value)]>>) ELSE Fail

(* Mutant of DescendUnion: the union's own index is taken for an object's. *)
DescendUnresolved ==
  /\ AtTable("union") /\ ~Selects("type") /\ Value # None
  /\ IF Ends(0) THEN Fail ELSE Walk(Type.of, <<Value[Active(Value)]>>, 1)

(* A union is walked as what it holds; a string has no fields, and a table *)
(* or a struct is no leaf.                                                 *)
DescendUnion ==
  /\ AtTable("union") /\ ~Selects("type") /\ Value # None
  /\ LET w == Active(Value)
         held == Variants[Type.of][w]
     IN IF held \in Objects
        THEN IF Ends(0) THEN Fail ELSE Walk(held, <<Value[w]>>, 1)
        ELSE IF Ends(0) THEN Emit(<<Value[w]>>) ELSE Fail

(***************************************************************************)
(* Vectors                                                                 *)
(***************************************************************************)
(* No selector, or a field right after the vector. *)
NoSelector == AtTable("vector") /\ (Ends(0) \/ Selects("field")) /\ Fail

Within(x, i) == i < Len(x)

(* Mutant of VectorIndex: a path may end with an element that is a table. *)
VectorIndexAnywhere ==
  /\ AtTable("vector") /\ Selects("index")
  /\ LET i == Next1.at IN
     IF Type.of \notin Objects
     THEN IF ~Ends(1) THEN Fail
          ELSE Emit(<<IF Value # None /\ Within(Value, i) THEN Value[i + 1] ELSE None>>)
     ELSE IF Value = None \/ ~Within(Value, i) THEN Emit(<<None>>)
     ELSE Walk(Type.of, <<Value[i + 1]>>, 2)

(* `[i]`. Whether a path may end here is asked before the vector is read   *)
(* for structs, and after that for tables.                                 *)
VectorIndex ==
  /\ AtTable("vector") /\ Selects("index")
  /\ LET i == Next1.at IN
     IF Type.of \notin Objects
     THEN IF ~Ends(1) THEN Fail
          ELSE Emit(<<IF Value # None /\ Within(Value, i) THEN Value[i + 1] ELSE None>>)
     ELSE IF Type.of \in Structs /\ Ends(1) THEN Fail
     ELSE IF Value = None \/ ~Within(Value, i) THEN Emit(<<None>>)
     ELSE IF Ends(1) THEN Fail
     ELSE Walk(Type.of, <<Value[i + 1]>>, 2)

(* `[*]`. *)
VectorAll ==
  /\ AtTable("vector") /\ Selects("all")
  /\ IF Type.of \notin Objects
     THEN IF ~Ends(1) THEN Fail ELSE Emit(IF Value = None THEN <<>> ELSE Value)
     ELSE IF Type.of \in Structs /\ Ends(1) THEN Fail
     ELSE IF Value = None THEN Emit(<<>>)
     ELSE IF Ends(1) THEN Fail
     ELSE Walk(Type.of, Value, 2)

Keyed == Type.of \in Objects \ Structs /\ KeyField[Type.of] # None

(* The text a key field reads as. *)
KeyText(x) == IF x[KeyField[Type.of]] = None THEN Empty ELSE x[KeyField[Type.of]]

(* `[key]`: the element that the lookup finds, which module KeyedVector    *)
(* models step by step.                                                    *)
VectorKey ==
  /\ AtTable("vector") /\ Selects("key")
  /\ IF ~Keyed \/ Ends(1) THEN Fail
     ELSE IF Value = None \/ \A i \in DOMAIN Value : KeyText(Value[i]) # Next1.name
     THEN Emit(<<None>>)
     ELSE \E i \in DOMAIN Value :
            KeyText(Value[i]) = Next1.name /\ Walk(Type.of, <<Value[i]>>, 2)

(* `|keys`. *)
VectorKeys ==
  /\ AtTable("vector") /\ Selects("keys")
  /\ IF ~Keyed \/ ~Ends(1) THEN Fail
     ELSE IF Value = None THEN Emit(<<>>)
     ELSE Emit([i \in DOMAIN Value |-> KeyText(Value[i])])

(***************************************************************************)
(* Structs and their arrays                                                *)
(***************************************************************************)
StructLeaf ==
  /\ AtStruct("scalar")
  /\ IF Ends(0) THEN Emit(<<Value>>) ELSE Fail

StructInStruct ==
  /\ AtStruct("obj")
  /\ IF Ends(0) THEN Fail ELSE Walk(Type.of, <<Value>>, 1)

NoArraySelector == AtStruct("array") /\ ~Selects("index") /\ ~Selects("all") /\ Fail

(* Elements of the array: leaves, or structs that the path goes on from. *)
ArrayElements(elements) ==
  IF Type.of = "scalar"
  THEN IF Ends(1) THEN Emit(elements) ELSE Fail
  ELSE IF Ends(1) THEN Fail ELSE Walk(Type.of, elements, 2)

ArrayIndex ==
  /\ AtStruct("array") /\ Selects("index")
  /\ IF Within(Value, Next1.at) THEN ArrayElements(<<Value[Next1.at + 1]>>)
                                ELSE Emit(<<None>>)

(* An array has at least one element. *)
ArrayAll == AtStruct("array") /\ Selects("all") /\ ArrayElements(Value)

-----------------------------------------------------------------------------
(* The outermost call returns. *)
Answer ==
  /\ status = "walking" /\ stack = <<>>
  /\ status' = "done"
  /\ UNCHANGED <<query, stack, out>>

Next ==
  \/ NoField \/ TypeLeaf \/ NoType \/ AbsentField \/ ScalarLeaf \/ StringLeaf
  \/ Descend \/ DescendUnion
  \/ NoSelector \/ VectorIndex \/ VectorAll \/ VectorKey \/ VectorKeys
  \/ StructLeaf \/ StructInStruct \/ NoArraySelector \/ ArrayIndex \/ ArrayAll
  \/ Answer

Spec == Init /\ [][Next]_vars

(***************************************************************************)
(* Properties                                                              *)
(***************************************************************************)
TypeOK ==
  /\ status \in {"walking", "done", "error"}
  /\ stack \in Seq([obj : Objects, val : Values, at : Nat])
  /\ out \in Seq(Leaves \cup {None})

(* Every call has a step left to take: walk_table's "parser guarantees at  *)
(* least one step" does not panic, whatever the path ends with.            *)
StepsLeft == \A i \in DOMAIN stack : stack[i].at \in 1 .. Len(path)

(* No call reads memory as anything but what the verifier has checked it   *)
(* to be: the object a call is given describes the value it is given,      *)
(* through unions, vectors, nested structs and arrays. This is what every  *)
(* SAFETY comment of the executor claims.                                  *)
ReadsVerified == \A i \in DOMAIN stack : stack[i].val \in Verified[stack[i].obj]

(* A path without [*] and |keys has exactly one leaf, present or not, in   *)
(* every buffer it does not fail on (mod.rs:190-198).                      *)
FansOut == \E i \in DOMAIN path : path[i].kind \in {"all", "keys"}

OneLeaf == status = "done" /\ ~FansOut => Len(out) = 1

(* sql-surface.md:135-136: an optional scalar that is absent reads as      *)
(* NULL, whatever the setting.                                             *)
AbsentOptionalIsNull ==
  status = "done" /\ Len(path) = 1 /\ <<Root, path[1].name>> \in Optional
    => out = <<buffer[path[1].name]>>
=============================================================================
