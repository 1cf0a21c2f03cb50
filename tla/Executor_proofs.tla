--------------------------- MODULE Executor_proofs ---------------------------
(***************************************************************************)
(* Theorems about Executor, for any schema, any set of verified buffers    *)
(* and any paths.                                                          *)
(***************************************************************************)
EXTENDS Executor, TLAPS

(* A call that has been given what it expects. *)
FrameOK(F) ==
  /\ F \in [obj : Objects, val : Values, at : Nat]
  /\ F.val \in Verified[F.obj]
  /\ F.at \in 1 .. Len(path)

(* The inductive invariant, without the number of leaves. *)
Sound ==
  /\ buffer \in Buffers /\ path \in Paths /\ fill \in BOOLEAN
  /\ status \in {"walking", "done", "error"}
  /\ stack \in Seq([obj : Objects, val : Values, at : Nat])
  /\ \A i \in DOMAIN stack : FrameOK(stack[i])
  /\ out \in Seq(Leaves \cup {None})

(* Until the answer is given, a path that does not fan out has either one  *)
(* call to make or one leaf.                                               *)
Counted ==
  /\ status = "walking" /\ ~FansOut => Len(out) + Len(stack) = 1
  /\ status = "done" /\ ~FansOut => Len(out) = 1

-----------------------------------------------------------------------------
(* The steps that remain of a path. *)
LEMMA PathSteps ==
  ASSUME Sound
  PROVE  path \in Seq(Step) /\ Len(path) \in Nat \ {0}
BY ParserAssumption DEF Sound

(* The call in progress has been given what it expects. *)
LEMMA TopSound ==
  ASSUME Sound, Called
  PROVE  FrameOK(Top) /\ Len(stack) \in Nat \ {0}
<1>1. stack \in Seq([obj : Objects, val : Values, at : Nat]) /\ stack # <<>>
  BY DEF Sound, Called
<1>2. Len(stack) \in Nat \ {0} /\ 1 \in DOMAIN stack /\ Top = stack[1]
  BY <1>1 DEF Top
<1> QED BY <1>2 DEF Sound

(* The field's value is absent, or what its type promises. *)
LEMMA FieldSound ==
  ASSUME Sound, Called, FieldFound
  PROVE  /\ Top.obj \in Objects
         /\ \/ Value = None /\ Top.obj \notin Structs
            \/ Value # None /\ Holds(Type, Value)
BY TopSound, VerifierAssumption DEF FrameOK, FieldFound, Value, Type

(* A call that returns leaves. *)
LEMMA EmitSound ==
  ASSUME Sound, Called, NEW leaves \in Seq(Leaves \cup {None}), Emit(leaves)
  PROVE  Sound'
<1>1. stack \in Seq([obj : Objects, val : Values, at : Nat]) /\ stack # <<>>
  BY DEF Sound, Called
<1>2. /\ stack' \in Seq([obj : Objects, val : Values, at : Nat])
      /\ \A i \in DOMAIN stack' : i + 1 \in DOMAIN stack /\ stack'[i] = stack[i + 1]
  BY <1>1 DEF Emit
<1>3. (\A i \in DOMAIN stack : FrameOK(stack[i]))'
  BY <1>2 DEF Sound, FrameOK, Emit, query
<1>4. out' \in Seq(Leaves \cup {None})
  BY DEF Sound, Emit
<1>5. UNCHANGED <<buffer, path, fill, status>>
  BY DEF Emit, query
<1> QED BY <1>2, <1>3, <1>4, <1>5 DEF Sound

(* A call that goes on in values of one object. *)
LEMMA WalkSound ==
  ASSUME Sound, Called, NEW o \in Objects, NEW values \in Seq(Verified[o]),
         NEW k \in Nat, Top.at + k <= Len(path), Walk(o, values, k)
  PROVE  Sound'
<1> DEFINE Frames == [obj : Objects, val : Values, at : Nat]
           called == [i \in DOMAIN values |-> Frame(o, values[i], Top.at + k)]
<1>1. FrameOK(Top) /\ Len(path) \in Nat
  BY TopSound, PathSteps
<1>2. \A i \in DOMAIN values : values[i] \in Verified[o] /\ values[i] \in Values
  BY DEF Values
<1>3. /\ DOMAIN called = DOMAIN values
      /\ \A i \in DOMAIN called : called[i] \in Frames /\ FrameOK(called[i])
  <2>1. Top.at + k \in 1 .. Len(path) /\ Top.at + k \in Nat
    BY <1>1 DEF FrameOK
  <2>2. ASSUME NEW x \in Values, x \in Verified[o], NEW at \in Nat, at \in 1 .. Len(path)
        PROVE  Frame(o, x, at) \in Frames /\ FrameOK(Frame(o, x, at))
    BY <2>2 DEF FrameOK, Frame
  <2>3. ASSUME NEW i \in DOMAIN values
        PROVE  called[i] = Frame(o, values[i], Top.at + k)
    OBVIOUS
  <2> DEFINE next == Top.at + k
  <2>4. \A i \in DOMAIN values : called[i] = Frame(o, values[i], next)
    BY <2>3
  <2>5. next \in 1 .. Len(path) /\ next \in Nat
    BY <2>1
  <2>6. DOMAIN called = DOMAIN values
    OBVIOUS
  <2> HIDE DEF called, next, Frames
  <2> QED BY <2>2, <2>4, <2>5, <2>6, <1>2
<1>4. called \in Seq(Frames) /\ DOMAIN called = 1 .. Len(called)
  <2>1. called = [i \in 1 .. Len(values) |-> called[i]] /\ Len(values) \in Nat
    OBVIOUS
  <2> HIDE DEF called, Frames
  <2> QED BY <2>1, <1>3
<1>5. Tail(stack) \in Seq(Frames) /\ \A i \in DOMAIN Tail(stack) : FrameOK(Tail(stack)[i])
  BY DEF Sound, Called
<1>6. stack' = called \o Tail(stack)
  BY DEF Walk
<1> HIDE DEF called, Frames
<1>7. stack' \in Seq(Frames) /\ \A i \in DOMAIN stack' : FrameOK(stack'[i])
  <2>1. stack' \in Seq(Frames)
    BY <1>4, <1>5, <1>6
  <2>2. ASSUME NEW i \in DOMAIN stack'
        PROVE  FrameOK(stack'[i])
    <3>1. CASE i <= Len(called)
      <4>1. i \in DOMAIN called /\ stack'[i] = called[i]
        BY <1>4, <1>5, <1>6, <2>2, <3>1
      <4> QED BY <4>1, <1>3
    <3>2. CASE ~(i <= Len(called))
      <4>1. i - Len(called) \in DOMAIN Tail(stack) /\ stack'[i] = Tail(stack)[i - Len(called)]
        BY <1>4, <1>5, <1>6, <2>2, <3>2
      <4> QED BY <4>1, <1>5
    <3> QED BY <3>1, <3>2
  <2> QED BY <2>1, <2>2
<1>8. (\A i \in DOMAIN stack : FrameOK(stack[i]))'
  BY <1>7 DEF FrameOK, Walk, query
<1>9. UNCHANGED <<buffer, path, fill, status, out>>
  BY DEF Walk, query
<1> QED BY <1>7, <1>8, <1>9 DEF Sound, Frames

(* An error. *)
LEMMA FailSound ==
  ASSUME Sound, Fail
  PROVE  Sound'
BY DEF Sound, Fail, query, FrameOK

-----------------------------------------------------------------------------
(* The inductive invariant. *)
IInv == Sound /\ Counted

(* The count, after a call that returns leaves. *)
LEMMA EmitStep ==
  ASSUME IInv, Called, NEW leaves \in Seq(Leaves \cup {None}),
         Len(leaves) = 1 \/ FansOut, Emit(leaves)
  PROVE  IInv'
<1>1. Sound'
  BY EmitSound DEF IInv
<1>2. /\ Len(out') = Len(out) + Len(leaves) /\ Len(stack') = Len(stack) - 1
      /\ Len(out) \in Nat /\ Len(stack) \in Nat /\ Len(leaves) \in Nat
  BY DEF IInv, Sound, Emit, Called
<1>3. FansOut' = FansOut /\ status' = status /\ status = "walking"
  BY DEF Emit, query, FansOut, Called
<1>4. ~FansOut => Len(out) + Len(stack) = 1 /\ Len(leaves) = 1
  BY <1>3 DEF IInv, Counted
<1>5. ~FansOut => Len(out') + Len(stack') = 1
  BY <1>2, <1>4
<1>6. Counted'
  BY <1>3, <1>5 DEF Counted
<1> QED BY <1>1, <1>6 DEF IInv

(* The count, after a call that goes on. *)
LEMMA WalkStep ==
  ASSUME IInv, Called, NEW o \in Objects, NEW values \in Seq(Verified[o]),
         Len(values) = 1 \/ FansOut,
         NEW k \in Nat, Top.at + k <= Len(path), Walk(o, values, k)
  PROVE  IInv'
<1>1. Sound'
  BY WalkSound DEF IInv
<1> DEFINE called == [i \in DOMAIN values |-> Frame(o, values[i], Top.at + k)]
<1>2. stack' = called \o Tail(stack) /\ out' = out
  BY DEF Walk
<1>3. /\ DOMAIN called = 1 .. Len(values) /\ Len(values) \in Nat
      /\ called = [i \in 1 .. Len(values) |-> called[i]]
  OBVIOUS
<1>4. Tail(stack) \in Seq([obj : Objects, val : Values, at : Nat])
      /\ Len(Tail(stack)) = Len(stack) - 1 /\ Len(stack) \in Nat /\ Len(out) \in Nat
  BY DEF IInv, Sound, Called
<1> HIDE DEF called
<1>5. called \in Seq({called[i] : i \in 1 .. Len(values)}) /\ Len(called) = Len(values)
  BY <1>3
<1>6. Len(stack') = Len(values) + Len(stack) - 1
  BY <1>2, <1>3, <1>4, <1>5
<1>7. FansOut' = FansOut /\ status' = status /\ status = "walking"
  BY DEF Walk, query, FansOut, Called
<1>8. Counted'
  BY <1>2, <1>3, <1>4, <1>6, <1>7 DEF IInv, Counted
<1> QED BY <1>1, <1>8 DEF IInv

(* An error has no leaves to count. *)
LEMMA FailStep ==
  ASSUME IInv, Fail
  PROVE  IInv'
BY FailSound DEF IInv, Counted, Fail

-----------------------------------------------------------------------------
(* What the field of the call in progress holds, by its type. *)
LEMMA LeafField ==
  ASSUME Sound, Called, FieldFound, Type.base \in {"scalar", "string"}
  PROVE  Value \in Leaves \cup {None} /\ (Top.obj \in Structs => Value \in Leaves)
BY FieldSound DEF Holds

LEMMA ObjField ==
  ASSUME Sound, Called, FieldFound, Type.base = "obj", Value # None
  PROVE  Type.of \in Objects /\ Value \in Verified[Type.of]
<1>1. Top.obj \in Objects /\ This.name \in DOMAIN Fields[Top.obj]
  BY FieldSound DEF FieldFound
<1>2. Type.of \in Objects
  BY <1>1, SchemaAssumption DEF Type
<1> QED BY <1>2, FieldSound DEF Holds

LEMMA VectorField ==
  ASSUME Sound, Called, FieldFound, Type.base \in {"vector", "array"}, Value # None
  PROVE  Value \in Seq(Content(Type.of))
BY FieldSound DEF Holds

LEMMA UnionField ==
  ASSUME Sound, Called, FieldFound, Type.base = "union", Value # None
  PROVE  /\ Active(Value) \in Leaves
         /\ Value[Active(Value)] \in Content(Variants[Type.of][Active(Value)])
<1>1. Top.obj \in Objects /\ This.name \in DOMAIN Fields[Top.obj]
  BY FieldSound DEF FieldFound
<1>2. DOMAIN Variants[Type.of] \subseteq Leaves
  BY <1>1, SchemaAssumption DEF Type
<1>3. PICK w \in DOMAIN Variants[Type.of] : Value \in [{w} -> Content(Variants[Type.of][w])]
  BY FieldSound DEF Holds
<1>4. Active(Value) = w
  BY <1>3 DEF Active
<1> QED BY <1>2, <1>3, <1>4

(* A struct has every field. *)
LEMMA StructField ==
  ASSUME Sound, Called, FieldFound, Top.obj \in Structs
  PROVE  Value # None
BY FieldSound

(* Where the call in progress is in the path. *)
LEMMA Position ==
  ASSUME Sound, Called
  PROVE  /\ Top.at \in Nat /\ Len(path) \in Nat /\ Top.at <= Len(path)
         /\ ~Ends(0) => Top.at + 1 <= Len(path)
         /\ ~Ends(0) => Next1.at \in Nat
         /\ ~Ends(0) /\ ~Ends(1) => Top.at + 2 <= Len(path)
         /\ Selects("all") \/ Selects("keys") => FansOut
<1>1. Top.at \in 1 .. Len(path) /\ Top.at \in Nat /\ Len(path) \in Nat /\ path \in Seq(Step)
  BY TopSound, PathSteps DEF FrameOK
<1>2. ASSUME ~Ends(0)
      PROVE  Top.at + 1 \in 1 .. Len(path) /\ Top.at + 1 \in DOMAIN path
    BY <1>1, <1>2 DEF Ends
<1>3. ASSUME ~Ends(0)
      PROVE  Next1 \in Step
    BY <1>1, <1>2, <1>3 DEF Next1
<1>4. ~Ends(0) => Next1.at \in Nat
  BY <1>3 DEF Step
<1>5. Selects("all") \/ Selects("keys") => FansOut
  BY <1>2 DEF Selects, Next1, FansOut
<1>6. ~Ends(0) /\ ~Ends(1) => Top.at + 2 <= Len(path)
  BY <1>1 DEF Ends
<1> QED BY <1>1, <1>2, <1>4, <1>5, <1>6

(* An element of a vector, and the text of its key. *)
LEMMA Element ==
  ASSUME NEW S, NEW x \in Seq(S), NEW i \in Nat, Within(x, i)
  PROVE  x[i + 1] \in S
BY DEF Within

LEMMA KeyOfTable ==
  ASSUME Keyed, NEW x \in Verified[Type.of]
  PROVE  KeyText(x) \in Leaves
<1> DEFINE f == KeyField[Type.of]
<1>1. Type.of \in Objects \ Structs /\ f # None
  BY DEF Keyed
<1>2. f \in DOMAIN Fields[Type.of] /\ Fields[Type.of][f].base \in {"scalar", "string"}
  BY <1>1, SchemaAssumption
<1>3. x[f] = None \/ Holds(Fields[Type.of][f], x[f])
  BY <1>1, <1>2, VerifierAssumption
<1>4. x[f] = None \/ x[f] \in Leaves
  BY <1>2, <1>3 DEF Holds
<1> QED BY <1>4, SchemaAssumption DEF KeyText

-----------------------------------------------------------------------------
(* Every action keeps the invariant: those that fail, those of a table's   *)
(* fields, those of a vector, those of a struct.                           *)
LEMMA RefusalStep ==
  ASSUME IInv, NoField \/ NoType \/ NoSelector \/ NoArraySelector
  PROVE  IInv'
BY FailStep DEF NoField, NoType, NoSelector, NoArraySelector

LEMMA Single ==
  ASSUME NEW S, NEW x \in S
  PROVE  <<x>> \in Seq(S) /\ Len(<<x>>) = 1
OBVIOUS

(* One leaf, or none. *)
LEMMA OneLeafStep ==
  ASSUME IInv, Called, NEW leaf \in Leaves \cup {None}, Emit(<<leaf>>)
  PROVE  IInv'
<1>1. <<leaf>> \in Seq(Leaves \cup {None}) /\ Len(<<leaf>>) = 1
  OBVIOUS
<1> QED BY <1>1, EmitStep

(* The path goes on in one value. *)
LEMMA OneWalkStep ==
  ASSUME IInv, Called, NEW o \in Objects, NEW x \in Verified[o],
         NEW k \in Nat, Top.at + k <= Len(path), Walk(o, <<x>>, k)
  PROVE  IInv'
<1>1. <<x>> \in Seq(Verified[o]) /\ Len(<<x>>) = 1
  BY Single
<1> QED BY <1>1, WalkStep

LEMMA FieldStep ==
  ASSUME IInv, TypeLeaf \/ AbsentField \/ ScalarLeaf \/ StringLeaf \/ Descend \/ DescendUnion
  PROVE  IInv'
<1>0. Sound
  BY DEF IInv
<1>1. CASE TypeLeaf
  <2>1. Called /\ FieldFound /\ Type.base = "union"
    BY <1>1 DEF TypeLeaf, AtTable
  <2>2. (IF Value = None THEN "NONE" ELSE Active(Value)) \in Leaves
    BY <1>0, <2>1, UnionField, SchemaAssumption
  <2> QED BY <1>1, <2>1, <2>2, OneLeafStep, FailStep DEF TypeLeaf
<1>2. CASE AbsentField
  BY <1>2, OneLeafStep DEF AbsentField, AtTable
<1>3. CASE ScalarLeaf
  <2>1. Called /\ FieldFound /\ Type.base = "scalar"
    BY <1>3 DEF ScalarLeaf, AtTable
  <2>2. (IF Value = None /\ fill THEN Default ELSE Value) \in Leaves \cup {None}
    BY <1>0, <2>1, LeafField, SchemaAssumption
  <2> QED BY <1>3, <2>1, <2>2, OneLeafStep, FailStep DEF ScalarLeaf
<1>4. CASE StringLeaf
  <2>1. Called /\ FieldFound /\ Type.base = "string"
    BY <1>4 DEF StringLeaf, AtTable
  <2>2. Value \in Leaves \cup {None}
    BY <1>0, <2>1, LeafField
  <2> QED BY <1>4, <2>1, <2>2, OneLeafStep, FailStep DEF StringLeaf
<1>5. CASE Descend
  <2>1. Called /\ FieldFound /\ Type.base = "obj" /\ Value # None
    BY <1>5 DEF Descend, AtTable
  <2>2. Type.of \in Objects /\ Value \in Verified[Type.of]
    BY <1>0, <2>1, ObjField
  <2>3. CASE Ends(0)
    BY <1>5, <2>3, FailStep DEF Descend
  <2>4. CASE ~Ends(0)
    <3>1. Walk(Type.of, <<Value>>, 1)
      BY <1>5, <2>4 DEF Descend
    <3>2. Top.at + 1 <= Len(path)
      BY <1>0, <2>1, <2>4, Position
    <3> QED BY <2>1, <2>2, <3>1, <3>2, OneWalkStep
  <2> QED BY <2>3, <2>4
<1>6. CASE DescendUnion
  <2> DEFINE w == Active(Value)
             held == Variants[Type.of][w]
  <2>1. Called /\ FieldFound /\ Type.base = "union" /\ Value # None
    BY <1>6 DEF DescendUnion, AtTable
  <2>2. Value[w] \in Content(held)
    BY <1>0, <2>1, UnionField
  <2>3. IF held \in Objects
        THEN IF Ends(0) THEN Fail ELSE Walk(held, <<Value[w]>>, 1)
        ELSE IF Ends(0) THEN Emit(<<Value[w]>>) ELSE Fail
    BY <1>6 DEF DescendUnion
  <2> HIDE DEF w, held
  <2>4. CASE Fail
    BY <2>4, FailStep
  <2>5. CASE held \in Objects /\ ~Ends(0)
    <3>1. Value[w] \in Verified[held] /\ Walk(held, <<Value[w]>>, 1)
      BY <2>2, <2>3, <2>5 DEF Content
    <3>2. Top.at + 1 <= Len(path)
      BY <1>0, <2>1, <2>5, Position
    <3> QED BY <2>1, <2>5, <3>1, <3>2, OneWalkStep
  <2>6. CASE held \notin Objects /\ Ends(0)
    <3>1. Value[w] \in Leaves /\ Emit(<<Value[w]>>)
      BY <2>2, <2>3, <2>6 DEF Content
    <3> QED BY <2>1, <3>1, OneLeafStep
  <2> QED BY <2>3, <2>4, <2>5, <2>6
<1> QED BY <1>1, <1>2, <1>3, <1>4, <1>5, <1>6

LEMMA StructStep ==
  ASSUME IInv, StructLeaf \/ StructInStruct \/ ArrayIndex \/ ArrayAll
  PROVE  IInv'
<1>0. Sound
  BY DEF IInv
<1>1. Called /\ FieldFound /\ Top.obj \in Structs
  BY DEF StructLeaf, StructInStruct, ArrayIndex, ArrayAll, AtStruct
<1>2. Value # None
  BY <1>0, <1>1, StructField
<1>3. CASE StructLeaf
  <2>1. Value \in Leaves
    BY <1>0, <1>1, <1>3, LeafField DEF StructLeaf, AtStruct
  <2> QED BY <1>1, <1>3, <2>1, OneLeafStep, FailStep DEF StructLeaf
<1>4. CASE StructInStruct
  <2>1. Type.of \in Objects /\ Value \in Verified[Type.of]
    BY <1>0, <1>1, <1>2, <1>4, ObjField DEF StructInStruct, AtStruct
  <2>2. CASE Ends(0)
    BY <1>4, <2>2, FailStep DEF StructInStruct
  <2>3. CASE ~Ends(0)
    <3>1. Walk(Type.of, <<Value>>, 1)
      BY <1>4, <2>3 DEF StructInStruct
    <3>2. Top.at + 1 <= Len(path)
      BY <1>0, <1>1, <2>3, Position
    <3> QED BY <1>1, <2>1, <3>1, <3>2, OneWalkStep
  <2> QED BY <2>2, <2>3
<1>5. ASSUME Type.base = "array", ~Ends(0), NEW elements \in Seq(Content(Type.of)),
             Len(elements) = 1 \/ FansOut, ArrayElements(elements)
      PROVE  IInv'
  <2>1. Type.of \in Structs \cup {"scalar"} /\ Structs \subseteq Objects /\ "scalar" \notin Objects
    <3>1. Top.obj \in Objects /\ This.name \in DOMAIN Fields[Top.obj]
      BY <1>0, <1>1, FieldSound DEF FieldFound
    <3> QED BY <3>1, <1>5, SchemaAssumption DEF Type
  <2>2. CASE Fail
    BY <2>2, FailStep
  <2>3. CASE Type.of = "scalar" /\ Emit(elements)
    <3>1. elements \in Seq(Leaves \cup {None})
      BY <1>5, <2>1, <2>3 DEF Content
    <3> QED BY <1>1, <1>5, <2>3, <3>1, EmitStep
  <2>4. CASE Type.of # "scalar" /\ ~Ends(1) /\ Walk(Type.of, elements, 2)
    <3>1. Type.of \in Objects /\ elements \in Seq(Verified[Type.of])
      BY <1>5, <2>1, <2>4 DEF Content
    <3>2. Top.at + 2 <= Len(path)
      BY <1>0, <1>1, <1>5, <2>4, Position
    <3> QED BY <1>1, <1>5, <2>4, <3>1, <3>2, WalkStep
  <2> QED BY <1>5, <2>2, <2>3, <2>4 DEF ArrayElements
<1>6. CASE ArrayIndex
  <2>1. /\ Type.base = "array" /\ ~Ends(0)
        /\ IF Within(Value, Next1.at) THEN ArrayElements(<<Value[Next1.at + 1]>>)
                                      ELSE Emit(<<None>>)
    BY <1>6 DEF ArrayIndex, AtStruct, Selects
  <2>2. Value \in Seq(Content(Type.of)) /\ Next1.at \in Nat
    BY <1>0, <1>1, <1>2, <2>1, VectorField, Position
  <2>3. CASE Within(Value, Next1.at)
    <3>1. Value[Next1.at + 1] \in Content(Type.of)
      BY <2>2, <2>3, Element
    <3>2. <<Value[Next1.at + 1]>> \in Seq(Content(Type.of)) /\ Len(<<Value[Next1.at + 1]>>) = 1
      BY <3>1
    <3> QED BY <2>1, <2>3, <3>2, <1>5
  <2>4. CASE ~Within(Value, Next1.at)
    BY <1>1, <2>1, <2>4, OneLeafStep
  <2> QED BY <2>3, <2>4
<1>7. CASE ArrayAll
  <2>1. Type.base = "array" /\ ~Ends(0) /\ ArrayElements(Value) /\ Selects("all")
    BY <1>7 DEF ArrayAll, AtStruct, Selects
  <2>2. Value \in Seq(Content(Type.of)) /\ FansOut
    BY <1>0, <1>1, <1>2, <2>1, VectorField, Position
  <2> QED BY <2>1, <2>2, <1>5
<1> QED BY <1>3, <1>4, <1>6, <1>7

LEMMA VectorStep ==
  ASSUME IInv, VectorIndex \/ VectorAll \/ VectorKey \/ VectorKeys
  PROVE  IInv'
<1>0. Sound
  BY DEF IInv
<1>1. Called /\ FieldFound /\ Type.base = "vector" /\ ~Ends(0)
  BY DEF VectorIndex, VectorAll, VectorKey, VectorKeys, AtTable, Selects
<1>2. Value # None => Value \in Seq(Content(Type.of))
  BY <1>0, <1>1, VectorField
<1>3. Next1.at \in Nat /\ (~Ends(1) => Top.at + 2 <= Len(path))
  BY <1>0, <1>1, Position
<1>4. CASE Fail
  BY <1>4, FailStep
<1>5. CASE Emit(<<None>>)
  BY <1>1, <1>5, OneLeafStep
<1>6. ASSUME NEW x \in Content(Type.of), Emit(<<x>>), Type.of \notin Objects
      PROVE  IInv'
  <2>1. x \in Leaves
    BY <1>6 DEF Content
  <2> QED BY <1>1, <1>6, <2>1, OneLeafStep
<1>7. ASSUME NEW x \in Content(Type.of), Walk(Type.of, <<x>>, 2), Type.of \in Objects, ~Ends(1)
      PROVE  IInv'
  <2>1. x \in Verified[Type.of]
    BY <1>7 DEF Content
  <2> QED BY <1>1, <1>3, <1>7, <2>1, OneWalkStep
<1>8. ASSUME VectorAll \/ VectorKeys, NEW leaves \in Seq(Leaves \cup {None}), Emit(leaves)
      PROVE  IInv'
  <2>1. FansOut
    BY <1>0, <1>1, <1>8, Position DEF VectorAll, VectorKeys
  <2> QED BY <1>1, <1>8, <2>1, EmitStep
<1>9. <<>> \in Seq(Leaves \cup {None})
  OBVIOUS
<1>10. CASE VectorIndex
  <2> DEFINE i == Next1.at
  <2>1. CASE Type.of \notin Objects
    <3>1. CASE Value # None /\ Within(Value, i) /\ Ends(1)
      <4>1. Emit(<<Value[i + 1]>>)
        BY <1>10, <2>1, <3>1 DEF VectorIndex
      <4>2. Value[i + 1] \in Content(Type.of)
        BY <1>2, <1>3, <3>1, Element
      <4> QED BY <1>6, <2>1, <4>1, <4>2
    <3>2. CASE ~(Value # None /\ Within(Value, i)) /\ Ends(1)
      BY <1>5, <1>10, <2>1, <3>2 DEF VectorIndex
    <3>3. CASE ~Ends(1)
      BY <1>4, <1>10, <2>1, <3>3 DEF VectorIndex
    <3> QED BY <3>1, <3>2, <3>3
  <2>2. CASE Type.of \in Objects
    <3>1. CASE Value # None /\ Within(Value, i) /\ ~Ends(1)
      <4>1. Walk(Type.of, <<Value[i + 1]>>, 2)
        BY <1>10, <2>2, <3>1 DEF VectorIndex
      <4>2. Value[i + 1] \in Content(Type.of)
        BY <1>2, <1>3, <3>1, Element
      <4> QED BY <1>7, <2>2, <3>1, <4>1, <4>2
    <3>2. CASE ~(Value # None /\ Within(Value, i) /\ ~Ends(1))
      <4>1. Fail \/ Emit(<<None>>)
        BY <1>10, <2>2, <3>2 DEF VectorIndex
      <4> QED BY <4>1, <1>4, <1>5
    <3> QED BY <3>1, <3>2
  <2> QED BY <2>1, <2>2
<1>11. CASE VectorAll
  <2>1. CASE Type.of \notin Objects /\ Ends(1)
    <3>1. Emit(IF Value = None THEN <<>> ELSE Value)
      BY <1>11, <2>1 DEF VectorAll
    <3>2. Value # None => Value \in Seq(Leaves \cup {None})
      BY <1>2, <2>1 DEF Content
    <3>3. (IF Value = None THEN <<>> ELSE Value) \in Seq(Leaves \cup {None})
      BY <3>2, <1>9
    <3> QED BY <1>8, <1>11, <3>1, <3>3
  <2>2. CASE Type.of \in Objects /\ Value # None /\ ~Ends(1)
    <3>1. Walk(Type.of, Value, 2)
      BY <1>11, <2>2 DEF VectorAll
    <3>2. Value \in Seq(Verified[Type.of])
      BY <1>2, <2>2 DEF Content
    <3>3. FansOut
      BY <1>0, <1>1, <1>11, Position DEF VectorAll
    <3> QED BY <1>1, <1>3, <2>2, <3>1, <3>2, <3>3, WalkStep
  <2>3. CASE ~(Type.of \notin Objects /\ Ends(1)) /\ ~(Type.of \in Objects /\ Value # None /\ ~Ends(1))
    <3>1. Fail \/ Emit(<<>>)
      BY <1>11, <2>3 DEF VectorAll
    <3> QED BY <3>1, <1>4, <1>8, <1>9, <1>11
  <2> QED BY <2>1, <2>2, <2>3
<1>12. CASE VectorKey
  <2>1. CASE Fail \/ Emit(<<None>>)
    BY <2>1, <1>4, <1>5
  <2>2. CASE ~(Fail \/ Emit(<<None>>))
    <3>1. Keyed /\ ~Ends(1) /\ Value # None
      BY <1>12, <2>2 DEF VectorKey
    <3>2. PICK i \in DOMAIN Value : Walk(Type.of, <<Value[i]>>, 2)
      BY <1>12, <2>2 DEF VectorKey
    <3>3. Value[i] \in Content(Type.of)
      BY <1>2, <3>1
    <3>4. Type.of \in Objects
      BY <3>1 DEF Keyed
    <3> QED BY <1>7, <3>1, <3>2, <3>3, <3>4
  <2> QED BY <2>1, <2>2
<1>13. CASE VectorKeys
  <2>1. CASE Fail
    BY <2>1, <1>4
  <2>2. CASE Emit(<<>>)
    BY <2>2, <1>8, <1>9, <1>13
  <2>3. CASE ~Fail /\ ~Emit(<<>>)
    <3> DEFINE keys == [i \in DOMAIN Value |-> KeyText(Value[i])]
    <3>1. Keyed /\ Value # None /\ Emit(keys)
      BY <1>13, <2>3 DEF VectorKeys
    <3>2. Type.of \in Objects
      BY <3>1 DEF Keyed
    <3>3. Value \in Seq(Verified[Type.of])
      BY <1>2, <3>1, <3>2 DEF Content
    <3>4. \A i \in 1 .. Len(Value) : KeyText(Value[i]) \in Leaves \cup {None}
      BY <3>1, <3>3, KeyOfTable
    <3>5. keys = [i \in 1 .. Len(Value) |-> KeyText(Value[i])] /\ Len(Value) \in Nat
      BY <3>3
    <3>6. keys \in Seq(Leaves \cup {None})
      BY <3>4, <3>5
    <3> QED BY <1>8, <1>13, <3>1, <3>6
  <2> QED BY <2>1, <2>2, <2>3
<1> QED BY <1>10, <1>11, <1>12, <1>13

-----------------------------------------------------------------------------
(* Every call is given a value of the object it takes it for and has a     *)
(* step left, and a path that does not fan out has one leaf, in every      *)
(* reachable state.                                                        *)
THEOREM ExecutorInvariant == Spec => []IInv
<1>1. Init => IInv
  <2> SUFFICES ASSUME Init PROVE IInv
    OBVIOUS
  <2>1. path \in Seq(Step) /\ Len(path) \in Nat \ {0} /\ fill \in BOOLEAN
    BY ParserAssumption DEF Init
  <2>2. Root \in Objects /\ buffer \in Verified[Root] /\ buffer \in Values
    BY SchemaAssumption, VerifierAssumption DEF Init, Values
  <2>3. FrameOK(Frame(Root, buffer, 1))
    BY <2>1, <2>2 DEF FrameOK, Frame
  <2>4. /\ stack \in Seq([obj : Objects, val : Values, at : Nat])
        /\ DOMAIN stack = {1} /\ stack[1] = Frame(Root, buffer, 1) /\ Len(stack) = 1
    BY <2>3, Single DEF Init, FrameOK
  <2>5. out \in Seq(Leaves \cup {None}) /\ Len(out) = 0
    BY DEF Init
  <2>6. Sound
    BY <2>1, <2>3, <2>4, <2>5 DEF Init, Sound
  <2>7. Counted
    BY <2>4, <2>5 DEF Init, Counted
  <2> QED BY <2>6, <2>7 DEF IInv
<1>2. IInv /\ [Next]_vars => IInv'
  <2> SUFFICES ASSUME IInv, [Next]_vars PROVE IInv'
    OBVIOUS
  <2>1. CASE Answer
    <3>1. UNCHANGED <<buffer, path, fill, stack, out>> /\ status' = "done" /\ status = "walking" /\ stack = <<>>
      BY <2>1 DEF Answer, query
    <3>2. Sound'
      BY <3>1 DEF IInv, Sound, FrameOK
    <3>3. FansOut' = FansOut
      BY <3>1 DEF FansOut
    <3>4. ~FansOut => Len(out) = 1
      BY <3>1 DEF IInv, Counted, Sound
    <3> QED BY <3>1, <3>2, <3>3, <3>4 DEF IInv, Counted
  <2>2. CASE UNCHANGED vars
    BY <2>2 DEF vars, IInv, Sound, FrameOK, Counted, FansOut
  <2> QED BY <2>1, <2>2, RefusalStep, FieldStep, VectorStep, StructStep DEF Next
<1> QED BY <1>1, <1>2, PTL DEF Spec

(* The state has its type: calls are of objects with values, leaves are    *)
(* texts or absent.                                                        *)
THEOREM ExecutorTypeCorrect == Spec => []TypeOK
<1>1. IInv => TypeOK
  BY DEF IInv, Sound, TypeOK
<1> QED BY <1>1, ExecutorInvariant, PTL

(* No call is made with an empty rest of the path: the `expect` of         *)
(* walk_table does not panic.                                              *)
THEOREM StepsAlwaysLeft == Spec => []StepsLeft
<1>1. IInv => StepsLeft
  BY DEF IInv, Sound, StepsLeft, FrameOK
<1> QED BY <1>1, ExecutorInvariant, PTL

(* What the verifier accepts as a whole is never read as anything else: no *)
(* sequence of descents, through unions, vectors, structs or arrays, gives *)
(* a call a value of another object than it takes it for.                  *)
THEOREM ReadsAlwaysVerified == Spec => []ReadsVerified
<1>1. IInv => ReadsVerified
  BY DEF IInv, Sound, ReadsVerified, FrameOK
<1> QED BY <1>1, ExecutorInvariant, PTL

(* A path without [*] and |keys has one leaf exactly: the scalar functions *)
(* neither drop a leaf nor find none.                                      *)
THEOREM OneLeafOnly == Spec => []OneLeaf
<1>1. IInv => OneLeaf
  BY DEF IInv, Counted, OneLeaf
<1> QED BY <1>1, ExecutorInvariant, PTL
=============================================================================
