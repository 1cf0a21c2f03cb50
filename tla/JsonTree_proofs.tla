--------------------------- MODULE JsonTree_proofs ---------------------------
(***************************************************************************)
(* Theorems about JsonTree, for any schema, any documents and any          *)
(* max_depth: the calls of from_json in progress, how many of them are     *)
(* calls of build_table, and how deep the tables nest in what they build.  *)
(***************************************************************************)
EXTENDS JsonTree, FiniteSetTheorems, TLAPS

Ops == {"table", "struct", "variant", "vector", "array"}

(* A call within max_depth. *)
CallOK(F) ==
  /\ {"op", "depth"} \subseteq DOMAIN F
  /\ F.op \in Ops
  /\ F.depth \in 0 .. MaxDepth

(* A call is at least as deep as the one that made it, and deeper if it is *)
(* one of build_table.                                                     *)
Deepening(s) ==
  \A i, j \in DOMAIN s : i < j =>
    /\ s[i].depth <= s[j].depth
    /\ s[j].op = "table" => s[i].depth < s[j].depth

Stack(s) ==
  /\ s \in Seq({s[i] : i \in DOMAIN s})
  /\ \A i \in DOMAIN s : CallOK(s[i])
  /\ Deepening(s)

(* The inductive invariant. *)
IInv ==
  /\ phase \in Phases
  /\ refusal \in Errors
  /\ (phase = "refused") <=> (refusal # "none")
  /\ (frames # <<>>) => (phase = "build")
  /\ (phase = "refused") => (buffer = Empty)
  /\ Stack(frames)

-----------------------------------------------------------------------------
(* Sequences. *)

(* A sequence is one of its own elements. *)
LEMMA OwnElements ==
  ASSUME NEW S, NEW s \in Seq(S)
  PROVE  s \in Seq({s[i] : i \in DOMAIN s})
<1> DEFINE own == {s[i] : i \in DOMAIN s}
<1>1. s = [i \in 1 .. Len(s) |-> s[i]] /\ Len(s) \in Nat /\ DOMAIN s = 1 .. Len(s)
  OBVIOUS
<1>2. \A i \in 1 .. Len(s) : s[i] \in own
  BY <1>1
<1> HIDE DEF own
<1>3. s \in Seq(own)
  BY <1>1, <1>2
<1> QED BY <1>3 DEF own

(* What a stack is, index by index. *)
LEMMA StackDomain ==
  ASSUME NEW s, Stack(s)
  PROVE  /\ Len(s) \in Nat /\ DOMAIN s = 1 .. Len(s)
         /\ s # <<>> => Len(s) \in DOMAIN s /\ Len(s) # 0
<1> DEFINE own == {s[i] : i \in DOMAIN s}
<1>1. s \in Seq(own)
  BY DEF Stack
<1> HIDE DEF own
<1> QED BY <1>1

(* No call, and the first one. *)
LEMMA StackStarts ==
  /\ Stack(<<>>)
  /\ \A F : CallOK(F) => Stack(Append(<<>>, F))
<1>1. Stack(<<>>)
  <2>1. <<>> \in Seq({}) /\ DOMAIN <<>> = {}
    OBVIOUS
  <2>2. <<>> \in Seq({<<>>[i] : i \in DOMAIN <<>>})
    BY <2>1, OwnElements
  <2> QED BY <2>1, <2>2 DEF Stack, Deepening
<1>2. ASSUME NEW F, CallOK(F) PROVE Stack(Append(<<>>, F))
  <2> DEFINE s == Append(<<>>, F)
  <2>1. s \in Seq({F}) /\ DOMAIN s = {1} /\ s[1] = F
    <3>1. <<>> \in Seq({F}) /\ Len(<<>>) = 0
      OBVIOUS
    <3> QED BY <3>1
  <2> HIDE DEF s
  <2>2. s \in Seq({s[i] : i \in DOMAIN s})
    BY <2>1, OwnElements
  <2>3. Deepening(s)
    BY <2>1 DEF Deepening
  <2>4. Stack(s)
    BY <1>2, <2>1, <2>2, <2>3 DEF Stack
  <2> QED BY <2>4 DEF s
<1> QED BY <1>1, <1>2

(* A call returns. *)
LEMMA StackReturns ==
  ASSUME NEW s, Stack(s), s # <<>>
  PROVE  Stack(SubSeq(s, 1, Len(s) - 1))
<1> DEFINE own == {s[i] : i \in DOMAIN s}
           r == SubSeq(s, 1, Len(s) - 1)
<1>1. s \in Seq(own) /\ Len(s) \in Nat \ {0} /\ DOMAIN s = 1 .. Len(s)
  BY StackDomain DEF Stack
<1> HIDE DEF own
<1>2. /\ r \in Seq(own) /\ DOMAIN r = 1 .. (Len(s) - 1)
      /\ \A i \in DOMAIN r : i \in DOMAIN s /\ r[i] = s[i]
  BY <1>1
<1> HIDE DEF r
<1>3. r \in Seq({r[i] : i \in DOMAIN r})
  BY <1>2, OwnElements
<1>4. Stack(r)
  BY <1>2, <1>3 DEF Stack, Deepening
<1> QED BY <1>4 DEF r

(* The call in progress goes on to its other items. *)
LEMMA StackGoesOn ==
  ASSUME NEW s, Stack(s), s # <<>>, NEW items
  PROVE  LET r == [s EXCEPT ![Len(s)].todo = items]
         IN  Stack(r) /\ r # <<>> /\ Len(r) = Len(s) /\ r[Len(r)].depth = s[Len(s)].depth
<1> DEFINE own == {s[i] : i \in DOMAIN s}
           top == [s[Len(s)] EXCEPT !.todo = items]
           r == [s EXCEPT ![Len(s)].todo = items]
<1>1. s \in Seq(own) /\ Len(s) \in Nat \ {0} /\ DOMAIN s = 1 .. Len(s)
  BY StackDomain DEF Stack
<1>2. r = [s EXCEPT ![Len(s)] = top]
  OBVIOUS
<1>3. CallOK(s[Len(s)])
  BY <1>1 DEF Stack
<1>4. /\ CallOK(top)
      /\ top.depth = s[Len(s)].depth /\ top.op = s[Len(s)].op
  BY <1>3 DEF CallOK
<1> HIDE DEF own, top, r
<1>5. /\ r \in Seq(own \cup {top}) /\ Len(r) = Len(s) /\ DOMAIN r = DOMAIN s
      /\ \A i \in DOMAIN s : r[i] = IF i = Len(s) THEN top ELSE s[i]
  BY <1>1, <1>2
<1>6. r \in Seq({r[i] : i \in DOMAIN r})
  BY <1>5, OwnElements
<1>7. \A i \in DOMAIN r : CallOK(r[i]) /\ r[i].depth = s[i].depth /\ r[i].op = s[i].op
  BY <1>4, <1>5 DEF Stack
<1>8. Deepening(r)
  BY <1>5, <1>7 DEF Stack, Deepening
<1>9. Stack(r)
  BY <1>6, <1>7, <1>8 DEF Stack
<1> QED BY <1>1, <1>5, <1>7, <1>9 DEF r

(* The call in progress makes another one. *)
LEMMA StackGrows ==
  ASSUME NEW s, Stack(s), s # <<>>, NEW F, CallOK(F),
         s[Len(s)].depth <= F.depth,
         F.op = "table" => s[Len(s)].depth < F.depth
  PROVE  Stack(Append(s, F))
<1> DEFINE own == {s[i] : i \in DOMAIN s}
           r == Append(s, F)
<1>1. s \in Seq(own) /\ Len(s) \in Nat \ {0} /\ DOMAIN s = 1 .. Len(s)
  BY StackDomain DEF Stack
<1> HIDE DEF own
<1>2. /\ r \in Seq(own \cup {F}) /\ DOMAIN r = 1 .. (Len(s) + 1)
      /\ \A i \in DOMAIN s : r[i] = s[i]
      /\ r[Len(s) + 1] = F
  BY <1>1
<1> HIDE DEF r
<1>3. r \in Seq({r[i] : i \in DOMAIN r})
  BY <1>2, OwnElements
<1>4. \A i \in DOMAIN r : CallOK(r[i])
  BY <1>1, <1>2 DEF Stack
<1>5. \A i \in DOMAIN s : s[i].depth <= s[Len(s)].depth
  <2> SUFFICES ASSUME NEW i \in DOMAIN s
               PROVE  s[i].depth <= s[Len(s)].depth
    OBVIOUS
  <2>1. s[i].depth \in Int /\ i \in 1 .. Len(s) /\ Len(s) \in DOMAIN s
    BY <1>1 DEF Stack, CallOK
  <2>2. CASE i = Len(s)
    BY <2>1, <2>2
  <2>3. CASE i < Len(s)
    BY <2>1, <2>3 DEF Stack, Deepening
  <2> QED BY <2>1, <2>2, <2>3, <1>1
<1>6. Deepening(r)
  <2> SUFFICES ASSUME NEW i \in DOMAIN r, NEW j \in DOMAIN r, i < j
               PROVE  r[i].depth <= r[j].depth /\ (r[j].op = "table" => r[i].depth < r[j].depth)
    BY DEF Deepening
  <2>1. i \in DOMAIN s /\ r[i] = s[i]
    BY <1>1, <1>2
  <2>2. CASE j \in DOMAIN s
    BY <1>2, <2>1, <2>2 DEF Stack, Deepening
  <2>3. CASE j = Len(s) + 1
    <3>1. r[j] = F /\ s[i].depth <= s[Len(s)].depth
      BY <1>2, <1>5, <2>1, <2>3
    <3>2. s[i].depth \in Int /\ s[Len(s)].depth \in Int /\ F.depth \in Int
      BY <1>1, <2>1 DEF Stack, CallOK
    <3> QED BY <2>1, <3>1, <3>2
  <2> QED BY <1>1, <1>2, <2>2, <2>3
<1>7. Stack(r)
  BY <1>3, <1>4, <1>6 DEF Stack
<1> QED BY <1>7 DEF r

-----------------------------------------------------------------------------
(* Outcomes of a step. *)

(* A refusal. *)
LEMMA RefuseSound ==
  ASSUME IInv, NEW reason \in Errors \ {"none"}, Refuse(reason)
  PROVE  IInv'
BY StackStarts DEF IInv, Refuse, Phases

(* The call in progress goes on, or returns, or makes another one. *)
LEMMA MoveSound ==
  ASSUME IInv, phase = "build", NEW s, NEW built, Stack(s), Move(s, built)
  PROVE  IInv'
BY DEF IInv, Move

(* The call in progress, once its next item is taken from it. *)
LEMMA RestSound ==
  ASSUME IInv, frames # <<>>
  PROVE  /\ Stack(Rest) /\ Rest # <<>>
         /\ Rest[Len(Rest)].depth = Top.depth
         /\ Top.op \in Ops /\ Top.depth \in 0 .. MaxDepth
<1>1. Stack(frames) /\ Len(frames) \in DOMAIN frames
  BY StackDomain DEF IInv
<1>2. Rest = [frames EXCEPT ![Len(frames)].todo = Tail(Top.todo)]
  BY DEF Rest, Top
<1>3. Stack(Rest) /\ Rest # <<>> /\ Rest[Len(Rest)].depth = Top.depth
  BY <1>1, <1>2, StackGoesOn DEF Top
<1> QED BY <1>1, <1>3 DEF Stack, CallOK, Top

(* A call in progress makes another one. *)
LEMMA CallSound ==
  ASSUME IInv, frames # <<>>, phase = "build", NEW built,
         NEW op \in Ops, NEW from, NEW to, NEW type, NEW depth, NEW over, NEW todo,
         depth \in 0 .. MaxDepth, Top.depth <= depth, op = "table" => Top.depth < depth,
         Move(Append(Rest, Frame(op, from, to, type, depth, over, todo)), built)
  PROVE  IInv'
<1> DEFINE F == Frame(op, from, to, type, depth, over, todo)
<1>1. CallOK(F) /\ F.depth = depth /\ F.op = op
  BY DEF CallOK, Frame
<1> HIDE DEF F
<1>2. Stack(Append(Rest, F))
  BY <1>1, RestSound, StackGrows
<1> QED BY <1>2, MoveSound DEF F

(* What is wrong with a scalar. *)
LEMMA BadScalar ==
  ASSUME NEW kind, NEW json
  PROVE  /\ IsBad(Decode(kind, json)) => Decode(kind, json)[2] \in {"range", "type", "enum"}
         /\ IsBad(DecodeUnsigned(kind, json)) => DecodeUnsigned(kind, json)[2] \in {"range", "type"}
<1>1. \A n : IsBad(InRange(kind, n)) => InRange(kind, n)[2] = "range"
  BY DEF InRange, IsBad, Bad
<1>2. IsBad(Bad("type")) /\ Bad("type")[2] = "type" /\ Bad("enum")[2] = "enum"
  BY DEF IsBad, Bad
<1>3. IsBad(DecodeUnsigned(kind, json)) => DecodeUnsigned(kind, json)[2] \in {"range", "type"}
  BY <1>1, <1>2 DEF DecodeUnsigned
<1>4. IsBad(DecodeSigned(kind, json)) => DecodeSigned(kind, json)[2] \in {"range", "type"}
  BY <1>1, <1>2 DEF DecodeSigned
<1>5. IsBad(DecodeEnum(kind, json)) => DecodeEnum(kind, json)[2] \in {"range", "type", "enum"}
  BY <1>1, <1>2 DEF DecodeEnum
<1>6. IsBad(DecodeBool(json)) => DecodeBool(json)[2] = "type"
  BY <1>2 DEF DecodeBool, IsBad
<1>7. IsBad(DecodeFloat(kind, json)) => DecodeFloat(kind, json)[2] = "type"
  BY <1>2 DEF DecodeFloat, IsBad
<1> QED BY <1>3, <1>4, <1>5, <1>6, <1>7 DEF Decode

(* The head of build_table, called from nowhere or from the top frame. *)
LEMMA EnterTableSound ==
  ASSUME IInv, phase = "build", frames # <<>>,
         NEW from, NEW to, NEW type, NEW over,
         EnterTable(from, to, type, Top.depth + 1, over, Rest)
  PROVE  IInv'
<1>1. Top.depth \in 0 .. MaxDepth /\ MaxDepth \in Nat
  BY RestSound, DepthAssumption
<1>2. CASE Top.depth + 1 > MaxDepth
  BY <1>2, RefuseSound DEF EnterTable, Errors
<1>3. CASE Unknown(type, from) /\ ~lenient /\ ~(Top.depth + 1 > MaxDepth)
  BY <1>3, RefuseSound DEF EnterTable, Errors
<1>4. CASE ~(Unknown(type, from) /\ ~lenient) /\ ~(Top.depth + 1 > MaxDepth)
  <2> DEFINE depth == Top.depth + 1
             todo == FieldItems(type)
  <2>1. Move(Append(Rest, Frame("table", from, to, type, depth, over, todo)),
             Put(to, <<"table", type>>))
    BY <1>4 DEF EnterTable
  <2>2. depth \in 0 .. MaxDepth /\ Top.depth < depth /\ Top.depth <= depth /\ "table" \in Ops
    BY <1>1, <1>4 DEF Ops
  <2> HIDE DEF depth, todo
  <2> QED BY <2>1, <2>2, CallSound
<1> QED BY <1>2, <1>3, <1>4

(* The head of build_struct_bytes. *)
LEMMA EnterStructSound ==
  ASSUME IInv, phase = "build", frames # <<>>, NEW op \in {"struct", "variant"},
         NEW from, NEW to, NEW type, EnterStruct(op, from, to, type, Rest)
  PROVE  IInv'
<1>1. CASE Unknown(type, from)
  BY <1>1, RefuseSound DEF EnterStruct, Errors
<1>2. CASE ~Unknown(type, from)
  <2> DEFINE depth == Top.depth
             todo == FieldItems(type)
  <2>1. Move(Append(Rest, Frame(op, from, to, type, depth, <<>>, todo)),
             Put(to, <<"struct", type>>))
    BY <1>2 DEF EnterStruct
  <2>2. depth \in 0 .. MaxDepth /\ Top.depth <= depth /\ op \in Ops /\ op # "table"
    BY RestSound DEF Ops
  <2> HIDE DEF depth, todo
  <2> QED BY <2>1, <2>2, CallSound
<1> QED BY <1>1, <1>2

-----------------------------------------------------------------------------
(* One lemma for each action of BuildStep with outcomes of its own. *)

(* An item of the call in progress is due. *)
LEMMA DueSound ==
  ASSUME IInv, Building
  PROVE  /\ phase = "build" /\ frames # <<>>
         /\ \A built : Move(Rest, built) => IInv'
         /\ \A reason \in Errors \ {"none"} : Refuse(reason) => IInv'
BY RestSound, MoveSound, RefuseSound DEF Building

LEMMA BuildAbsentSound == IInv /\ BuildAbsent => IInv'
BY DueSound DEF BuildAbsent, Errors

LEMMA BuildScalarSound == IInv /\ BuildScalar => IInv'
<1> SUFFICES ASSUME IInv, BuildScalar PROVE IInv'
  OBVIOUS
<1> DEFINE scalar == Decode(ScalarKind, Value)
<1>1. CASE IsBad(scalar)
  <2>1. Refuse(scalar[2])
    BY <1>1 DEF BuildScalar
  <2>2. scalar[2] \in {"range", "type", "enum"}
    BY <1>1, BadScalar
  <2>3. scalar[2] \in Errors \ {"none"}
    BY <2>2 DEF Errors
  <2> QED BY <2>1, <2>3, DueSound DEF BuildScalar
<1>2. CASE ~IsBad(scalar)
  <2>1. \E built : Move(Rest, built)
    BY <1>2 DEF BuildScalar
  <2> QED BY <2>1, DueSound DEF BuildScalar
<1> QED BY <1>1, <1>2

LEMMA BuildStringSound == IInv /\ BuildString => IInv'
BY DueSound DEF BuildString, Errors

LEMMA BuildTableSound == IInv /\ BuildTable => IInv'
BY DueSound, EnterTableSound DEF BuildTable, Errors

LEMMA BuildStructSound == IInv /\ BuildStruct => IInv'
BY DueSound, EnterStructSound DEF BuildStruct, Errors

LEMMA BuildBytesSound == IInv /\ BuildBytes => IInv'
<1> SUFFICES ASSUME IInv, BuildBytes PROVE IInv'
  OBVIOUS
<1>1. \/ Refuse("too deep") \/ Refuse("encoding") \/ Refuse("type")
      \/ \E built : Move(Rest, built)
      \/ \E i \in BadBytes : Refuse(Byte(i)[2])
  BY DEF BuildBytes
<1>2. \A i \in BadBytes : Byte(i)[2] \in {"range", "type"}
  BY BadScalar DEF BadBytes, Byte
<1>3. \A i \in BadBytes : Byte(i)[2] \in Errors \ {"none"}
  BY <1>2 DEF Errors
<1>4. {"too deep", "encoding", "type"} \subseteq Errors \ {"none"}
  BY DEF Errors
<1> QED BY <1>1, <1>3, <1>4, DueSound DEF BuildBytes

LEMMA BuildVectorSound == IInv /\ BuildVector => IInv'
<1> SUFFICES ASSUME IInv, BuildVector PROVE IInv'
  OBVIOUS
<1>1. CASE Refuse("too deep") \/ Refuse("type")
  BY <1>1, DueSound DEF BuildVector, Errors
<1>2. CASE ~(Refuse("too deep") \/ Refuse("type"))
  <2> DEFINE depth == Top.depth + 1
  <2>1. /\ ~(depth > MaxDepth)
        /\ \E built : Move(Append(Rest, Frame("vector", From, To, Type.of, depth, <<>>, ElementItems)), built)
    BY <1>2 DEF BuildVector
  <2>2. Top.depth \in 0 .. MaxDepth
    BY RestSound DEF BuildVector, Building
  <2>3. depth \in 0 .. MaxDepth /\ Top.depth <= depth
    BY <2>1, <2>2, DepthAssumption
  <2>4. "vector" \in Ops /\ phase = "build" /\ frames # <<>>
    BY DEF Ops, BuildVector, Building
  <2> HIDE DEF depth
  <2> QED BY <2>1, <2>3, <2>4, CallSound
<1> QED BY <1>1, <1>2

LEMMA BuildKeyedSound == IInv /\ BuildKeyed => IInv'
<1> SUFFICES ASSUME IInv, BuildKeyed PROVE IInv'
  OBVIOUS
<1> DEFINE depth == Top.depth + 2
<1>1. \/ Refuse("too deep")
      \/ \E a \in BadEntries : Refuse(EntryFault(a))
      \/ /\ ~(depth > MaxDepth)
         /\ \E built : Move(Append(Rest, Frame("vector", From, To, Type.of, depth, <<>>, EntryItems)), built)
  BY DEF BuildKeyed
<1>2. \A a \in BadEntries : EntryFault(a) \in {"type", "unsupported"}
  BY DEF BadEntries, EntryFault
<1>3. \A a \in BadEntries : EntryFault(a) \in Errors \ {"none"}
  BY <1>2 DEF Errors
<1>4. "too deep" \in Errors \ {"none"}
  BY DEF Errors
<1>5. Top.depth \in 0 .. MaxDepth
  BY RestSound DEF BuildKeyed, Building
<1>6. ~(depth > MaxDepth) => depth \in 0 .. MaxDepth /\ Top.depth <= depth
  BY <1>5, DepthAssumption
<1>7. "vector" \in Ops /\ phase = "build" /\ frames # <<>>
  BY DEF Ops, BuildKeyed, Building
<1> HIDE DEF depth
<1> QED BY <1>1, <1>3, <1>4, <1>6, <1>7, CallSound, DueSound DEF BuildKeyed

LEMMA BuildArraySound == IInv /\ BuildArray => IInv'
<1> SUFFICES ASSUME IInv, BuildArray PROVE IInv'
  OBVIOUS
<1> DEFINE depth == Top.depth
<1>1. \/ Refuse("type") \/ Refuse("range")
      \/ \E built : Move(Append(Rest, Frame("array", From, To, Type.of, depth, <<>>, ElementItems)), built)
  BY DEF BuildArray
<1>2. {"type", "range"} \subseteq Errors \ {"none"}
  BY DEF Errors
<1>3. depth \in 0 .. MaxDepth /\ Top.depth <= depth
  BY RestSound DEF BuildArray, Building
<1>4. "array" \in Ops /\ phase = "build" /\ frames # <<>>
  BY DEF Ops, BuildArray, Building
<1> HIDE DEF depth
<1> QED BY <1>1, <1>2, <1>3, <1>4, CallSound, DueSound DEF BuildArray

LEMMA BuildUnionSound == IInv /\ BuildUnion => IInv'
<1> SUFFICES ASSUME IInv, BuildUnion PROVE IInv'
  OBVIOUS
<1> DEFINE items == <<VariantItem>> \o Tail(Top.todo)
           goesOn == [frames EXCEPT ![Len(frames)].todo = items]
<1>1. \/ Refuse("missing") \/ Refuse("no discriminator") \/ Refuse("type") \/ Refuse("enum")
      \/ \E built : Move(Rest, built)
      \/ \E built : Move(goesOn, built)
  BY DEF BuildUnion, Top
<1>2. {"missing", "no discriminator", "type", "enum"} \subseteq Errors \ {"none"}
  BY DEF Errors
<1>3. Stack(frames) /\ frames # <<>> /\ phase = "build"
  BY DEF IInv, BuildUnion, Building
<1> HIDE DEF items
<1>4. Stack(goesOn)
  BY <1>3, StackGoesOn
<1> HIDE DEF goesOn
<1> QED BY <1>1, <1>2, <1>3, <1>4, MoveSound, DueSound DEF BuildUnion

LEMMA ReturnSound == IInv /\ Return => IInv'
<1> SUFFICES ASSUME IInv, Return PROVE IInv'
  OBVIOUS
<1>1. Stack(frames) /\ frames # <<>> /\ phase = "build"
  BY DEF IInv, Return
<1>2. CASE Refuse("unsupported") \/ Refuse("too large")
  BY <1>2, RefuseSound DEF Errors
<1>3. CASE Move(SubSeq(frames, 1, Len(frames) - 1), buffer)
  BY <1>1, <1>3, StackReturns, MoveSound
<1>4. CASE phase' = "built" /\ frames' = <<>> /\ UNCHANGED <<given, lenient, doc, buffer, first, refusal>>
  BY <1>1, <1>4, StackStarts DEF IInv, Phases
<1> QED BY <1>2, <1>3, <1>4 DEF Return

LEMMA JsonToBufSound == IInv /\ JsonToBuf => IInv'
<1> SUFFICES ASSUME IInv, JsonToBuf PROVE IInv'
  OBVIOUS
<1>1. CASE Refuse("root") \/ Refuse("unknown field")
  BY <1>1, RefuseSound DEF Errors
<1>2. CASE ~(Refuse("root") \/ Refuse("unknown field"))
  <2> DEFINE F == Frame("table", <<>>, <<>>, RootTable, 0, <<>>, FieldItems(RootTable))
  <2>1. ~(0 > MaxDepth) /\ 0 \in 0 .. MaxDepth
    BY DepthAssumption
  <2>2. \E built : Move(Append(<<>>, F), built)
    BY <1>2, <2>1 DEF JsonToBuf, EnterTable
  <2>3. CallOK(F)
    BY <2>1 DEF CallOK, Frame, Ops
  <2> HIDE DEF F
  <2> QED BY <2>2, <2>3, StackStarts, MoveSound DEF JsonToBuf
<1> QED BY <1>1, <1>2

-----------------------------------------------------------------------------
(* Initially no call has been made. *)
LEMMA InitSound == Init => IInv
BY StackStarts DEF Init, IInv, Phases, Errors

(* Every step keeps the inductive invariant. *)
LEMMA NextSound == IInv /\ [Next]_vars => IInv'
<1> SUFFICES ASSUME IInv, [Next]_vars PROVE IInv'
  OBVIOUS
<1>1. CASE BuildStep
  BY <1>1, BuildAbsentSound, BuildScalarSound, BuildStringSound, BuildTableSound, BuildStructSound,
     BuildBytesSound, BuildVectorSound, BuildKeyedSound, BuildArraySound, BuildUnionSound,
     ReturnSound, JsonToBufSound DEF BuildStep
<1>2. CASE Verify
  BY <1>2 DEF Verify, IInv, Phases
<1>3. CASE BufToJson
  <2>1. CASE Refuse("non-finite")
    BY <2>1, RefuseSound DEF Errors
  <2>2. CASE ~Refuse("non-finite")
    BY <1>3, <2>2 DEF BufToJson, IInv, Phases
  <2> QED BY <2>1, <2>2
<1>4. CASE UNCHANGED vars
  BY <1>4 DEF vars, IInv
<1> QED BY <1>1, <1>2, <1>3, <1>4 DEF Next

(* from_json's calls in progress, and how it ends. *)
THEOREM Soundness == Spec => []IInv
BY InitSound, NextSound, PTL DEF Spec

(* TypeOK: a call in progress is at a depth that check_depth lets pass,    *)
(* and a refusal leaves no part of a buffer.                               *)
THEOREM TypeCorrect == Spec => []TypeOK
<1>1. IInv => TypeOK
  BY DEF IInv, TypeOK, Stack, CallOK, Ops
<1> QED BY <1>1, Soundness, PTL

(* Calls of build_table have depths of their own, and there are            *)
(* max_depth + 1 depths.                                                   *)
LEMMA TablesHaveDepths == IInv => RecursionBounded
<1> SUFFICES ASSUME IInv PROVE RecursionBounded
  OBVIOUS
<1> DEFINE T == {i \in DOMAIN frames : frames[i].op = "table"}
           f == [i \in T |-> frames[i].depth]
<1>1. Stack(frames) /\ DOMAIN frames = 1 .. Len(frames) /\ Len(frames) \in Nat
  BY StackDomain DEF IInv
<1>2. f \in [T -> 0 .. MaxDepth]
  BY <1>1 DEF Stack, CallOK
<1>3. ASSUME NEW i \in T, NEW j \in T, f[i] = f[j]
      PROVE  i = j
  <2>1. i \in Int /\ j \in Int /\ frames[i].depth \in Int /\ frames[j].depth \in Int
    BY <1>1 DEF Stack, CallOK
  <2>2. ~(i < j) /\ ~(j < i)
    BY <1>1, <1>3, <2>1 DEF Stack, Deepening
  <2> QED BY <2>1, <2>2
<1>4. f \in Injection(T, 0 .. MaxDepth)
  <2> HIDE DEF T
  <2> QED BY <1>2, <1>3 DEF Injection, IsInjective
<1>5. IsFiniteSet(0 .. MaxDepth) /\ Cardinality(0 .. MaxDepth) = MaxDepth + 1
  BY FS_Interval, DepthAssumption
<1>6. Cardinality(T) <= MaxDepth + 1
  <2> HIDE DEF T, f
  <2> QED BY <1>4, <1>5, FS_Injection
<1> QED BY <1>6 DEF RecursionBounded

(* RecursionBounded: at any time from_json is in at most max_depth + 1     *)
(* calls of build_table, whatever the document and the schema.             *)
THEOREM BoundedRecursion == Spec => []RecursionBounded
BY TablesHaveDepths, Soundness, PTL

-----------------------------------------------------------------------------
(***************************************************************************)
(* Nesting. Each table of the buffer has the depth of the call that built  *)
(* it, and a table inside another has a greater one: so the tables around  *)
(* a table are as many as depths in 0 .. MaxDepth at the most. That the    *)
(* depths of a new table and of those around it are all there is to        *)
(* compare rests on paths: what a call has yet to build is nowhere in the  *)
(* buffer, and no open call is inside of it.                               *)
(***************************************************************************)

(* A path is a sequence, of whatever. *)
Path(p) == p \in Seq({p[i] : i \in DOMAIN p})

(* Items have types of the schema, and places that are all different.      *)
Pending(todo) ==
  /\ Path(todo)
  /\ \A k \in DOMAIN todo : WellTyped(todo[k].type)
  /\ \A k, l \in DOMAIN todo : todo[k].slot = todo[l].slot => k = l

(* A call in progress. *)
Open(F) ==
  /\ DOMAIN F = {"op", "from", "to", "type", "depth", "over", "todo"}
  /\ Path(F.to)
  /\ F.depth \in 0 .. MaxDepth
  /\ Pending(F.todo)

(* Where an item of a call will be. *)
Ahead(F, k) == Append(F.to, F.todo[k].slot)

(* p is ahead of every table and of every open call. *)
Free(s, T, p) ==
  /\ \A r \in T : ~IsPrefix(p, r)
  /\ \A i \in DOMAIN s : Len(s[i].to) < Len(p)
  /\ \A i \in DOMAIN s : \A k \in DOMAIN s[i].todo : ~IsPrefix(Ahead(s[i], k), p)

(* So is what the open calls have yet to build. *)
Untouched(s, T) ==
  \A i \in DOMAIN s : \A k \in DOMAIN s[i].todo :
    /\ \A r \in T : ~IsPrefix(Ahead(s[i], k), r)
    /\ \A j \in DOMAIN s : i < j => ~IsPrefix(Ahead(s[i], k), s[j].to)

(* A call is further inside than the one that made it. *)
Inward(s) == \A i, j \in DOMAIN s : i < j => Len(s[i].to) < Len(s[j].to)

(* The depths at which the tables were built. *)
Leveled(s, T, level) ==
  /\ level \in [T -> 0 .. MaxDepth]
  /\ \A q, r \in T : IsPrefix(q, r) /\ q # r => level[q] < level[r]
  /\ \A i \in DOMAIN s : \A q \in T : IsPrefix(q, s[i].to) => level[q] <= s[i].depth

(* The stack and the tables of the buffer. *)
Grown(s, T) ==
  /\ Path(s)
  /\ \A i \in DOMAIN s : Open(s[i])
  /\ \A p \in T : Path(p)
  /\ Untouched(s, T)
  /\ Inward(s)
  /\ \E level : Leveled(s, T, level)

(* The inductive invariant. *)
Nested ==
  /\ phase \in Phases
  /\ (phase = "build" /\ frames = <<>>) => (buffer = Empty)
  /\ Grown(frames, Tables(buffer))
  /\ (phase = "unverified") => \E p \in Tables(buffer) : Nesting(buffer, p) > MaxDepth

-----------------------------------------------------------------------------
(* Paths. *)

(* A path, and one that is a step longer. *)
LEMMA PathGrows ==
  ASSUME NEW p, Path(p), NEW x
  PROVE  /\ Len(p) \in Nat /\ DOMAIN p = 1 .. Len(p)
         /\ Path(Append(p, x))
         /\ Len(Append(p, x)) = Len(p) + 1
         /\ \A i \in 1 .. Len(p) : Append(p, x)[i] = p[i]
         /\ Append(p, x)[Len(p) + 1] = x
<1> DEFINE own == {p[i] : i \in DOMAIN p}
           r == Append(p, x)
<1>1. p \in Seq(own)
  BY DEF Path
<1> HIDE DEF own
<1>2. /\ Len(p) \in Nat /\ DOMAIN p = 1 .. Len(p)
      /\ r \in Seq(own \cup {x})
      /\ Len(r) = Len(p) + 1
      /\ \A i \in 1 .. Len(p) : r[i] = p[i]
      /\ r[Len(p) + 1] = x
  BY <1>1
<1> HIDE DEF r
<1>3. Path(r)
  BY <1>2, OwnElements DEF Path
<1> QED BY <1>2, <1>3 DEF r

(* Paths with the same elements are the same. *)
LEMMA PathEqual ==
  ASSUME NEW p, NEW q, Path(p), Path(q), Len(p) = Len(q),
         \A i \in 1 .. Len(p) : p[i] = q[i]
  PROVE  p = q
<1> DEFINE ownp == {p[i] : i \in DOMAIN p}
           ownq == {q[i] : i \in DOMAIN q}
<1>1. p \in Seq(ownp) /\ q \in Seq(ownq)
  BY DEF Path
<1> HIDE DEF ownp, ownq
<1>2. p = [i \in 1 .. Len(p) |-> p[i]] /\ q = [i \in 1 .. Len(q) |-> q[i]]
  BY <1>1
<1> QED BY <1>2

(* The beginnings of a path. *)
LEMMA PathBegins ==
  ASSUME NEW q, Path(q), NEW n \in 0 .. Len(q)
  PROVE  /\ Path(SubSeq(q, 1, n)) /\ Len(SubSeq(q, 1, n)) = n
         /\ \A i \in 1 .. n : SubSeq(q, 1, n)[i] = q[i]
<1> DEFINE own == {q[i] : i \in DOMAIN q}
           r == SubSeq(q, 1, n)
<1>1. q \in Seq(own)
  BY DEF Path
<1> HIDE DEF own
<1>2. r \in Seq(own) /\ Len(r) = n /\ \A i \in 1 .. n : r[i] = q[i]
  BY <1>1
<1> HIDE DEF r
<1>3. Path(r)
  BY <1>2, OwnElements DEF Path
<1> QED BY <1>2, <1>3 DEF r

(* A prefix, element by element. *)
LEMMA PrefixIs ==
  ASSUME NEW p, NEW q, Path(p), Path(q)
  PROVE  IsPrefix(p, q) <=> (Len(p) <= Len(q) /\ \A i \in 1 .. Len(p) : q[i] = p[i])
<1>1. Len(p) \in Nat /\ Len(q) \in Nat
  BY PathGrows
<1>2. CASE Len(p) <= Len(q)
  <2>1. Len(p) \in 0 .. Len(q)
    BY <1>1, <1>2
  <2> DEFINE r == SubSeq(q, 1, Len(p))
  <2>2. Path(r) /\ Len(r) = Len(p) /\ \A i \in 1 .. Len(p) : r[i] = q[i]
    BY <2>1, PathBegins
  <2>3. IsPrefix(p, q) <=> r = p
    BY <1>2 DEF IsPrefix
  <2> HIDE DEF r
  <2>4. (\A i \in 1 .. Len(p) : q[i] = p[i]) => r = p
    <3> SUFFICES ASSUME \A i \in 1 .. Len(p) : q[i] = p[i] PROVE r = p
      OBVIOUS
    <3>1. \A i \in 1 .. Len(r) : r[i] = p[i]
      BY <2>2
    <3> QED BY <2>2, <3>1, PathEqual
  <2>5. r = p => \A i \in 1 .. Len(p) : q[i] = p[i]
    BY <2>2
  <2> QED BY <1>2, <2>3, <2>4, <2>5
<1>3. CASE ~(Len(p) <= Len(q))
  BY <1>3 DEF IsPrefix
<1> QED BY <1>2, <1>3

(* The prefixes of a path that is a step longer. *)
LEMMA PrefixOfLonger ==
  ASSUME NEW p, NEW q, Path(p), Path(q), NEW x, IsPrefix(q, Append(p, x))
  PROVE  IsPrefix(q, p) \/ q = Append(p, x)
<1> DEFINE r == Append(p, x)
<1>1. /\ Len(p) \in Nat /\ Len(q) \in Nat /\ Path(r) /\ Len(r) = Len(p) + 1
      /\ \A i \in 1 .. Len(p) : r[i] = p[i]
  BY PathGrows
<1> HIDE DEF r
<1>2. Len(q) <= Len(r) /\ \A i \in 1 .. Len(q) : r[i] = q[i]
  BY <1>1, PrefixIs DEF r
<1>3. CASE Len(q) = Len(r)
  <2>1. \A i \in 1 .. Len(q) : q[i] = r[i]
    BY <1>2
  <2>2. q = r
    BY <1>1, <1>3, <2>1, PathEqual
  <2> QED BY <2>2 DEF r
<1>4. CASE Len(q) <= Len(p)
  <2>1. \A i \in 1 .. Len(q) : p[i] = q[i]
    BY <1>1, <1>2, <1>4
  <2> QED BY <1>4, <2>1, PrefixIs
<1> QED BY <1>1, <1>2, <1>3, <1>4

(* What a path that is a step longer is a prefix of, and is not. *)
LEMMA LongerIsPrefix ==
  ASSUME NEW p, NEW q, Path(p), Path(q), NEW x, IsPrefix(Append(p, x), q)
  PROVE  IsPrefix(p, q) /\ Len(p) < Len(q)
<1> DEFINE r == Append(p, x)
<1>1. /\ Len(p) \in Nat /\ Len(q) \in Nat /\ Path(r) /\ Len(r) = Len(p) + 1
      /\ \A i \in 1 .. Len(p) : r[i] = p[i]
  BY PathGrows
<1> HIDE DEF r
<1>2. Len(r) <= Len(q) /\ \A i \in 1 .. Len(r) : q[i] = r[i]
  BY <1>1, PrefixIs DEF r
<1>3. Len(p) <= Len(q) /\ \A i \in 1 .. Len(p) : q[i] = p[i]
  BY <1>1, <1>2
<1> QED BY <1>1, <1>2, <1>3, PrefixIs

(* Siblings. *)
LEMMA SiblingsDiffer ==
  ASSUME NEW p, Path(p), NEW x, NEW y, IsPrefix(Append(p, x), Append(p, y))
  PROVE  x = y
<1> DEFINE a == Append(p, x)
           b == Append(p, y)
<1>1. /\ Len(p) \in Nat
      /\ Path(a) /\ Len(a) = Len(p) + 1 /\ a[Len(p) + 1] = x
      /\ Path(b) /\ Len(b) = Len(p) + 1 /\ b[Len(p) + 1] = y
      /\ IsPrefix(a, b)
  BY PathGrows
<1> HIDE DEF a, b
<1>2. \A i \in 1 .. Len(a) : b[i] = a[i]
  BY <1>1, PrefixIs
<1>3. Len(p) + 1 \in 1 .. Len(a)
  BY <1>1
<1> QED BY <1>1, <1>2, <1>3

-----------------------------------------------------------------------------
(* The tables around a table are at most MaxDepth + 1, itself included.    *)
LEMMA NestingBounded ==
  ASSUME NEW s, NEW b, Grown(s, Tables(b)), NEW p \in Tables(b)
  PROVE  Nesting(b, p) \in Nat /\ Nesting(b, p) <= MaxDepth + 1
<1> DEFINE T == Tables(b)
           around == Prefixes(p) \cap T
<1>1. PICK level : Leveled(s, T, level)
  BY DEF Grown
<1>2. /\ level \in [T -> 0 .. MaxDepth]
      /\ \A q, r \in T : IsPrefix(q, r) /\ q # r => level[q] < level[r]
  BY <1>1 DEF Leveled
<1>3. Path(p) /\ \A q \in T : Path(q)
  BY DEF Grown
<1> HIDE DEF T
<1>4. \A q \in around : \E n \in 0 .. Len(p) :
        q \in T /\ Path(q) /\ Len(q) = n /\ \A i \in 1 .. n : q[i] = p[i]
  BY <1>3, PathBegins DEF Prefixes
<1>5. ASSUME NEW q \in around, NEW r \in around
      PROVE  IsPrefix(q, r) \/ IsPrefix(r, q)
  <2>1. /\ q \in T /\ Path(q) /\ Len(q) \in 0 .. Len(p) /\ \A i \in 1 .. Len(q) : q[i] = p[i]
        /\ r \in T /\ Path(r) /\ Len(r) \in 0 .. Len(p) /\ \A i \in 1 .. Len(r) : r[i] = p[i]
    BY <1>4
  <2>2. CASE Len(q) <= Len(r)
    <3>1. \A i \in 1 .. Len(q) : r[i] = q[i]
      BY <2>1, <2>2
    <3> QED BY <2>1, <2>2, <3>1, PrefixIs
  <2>3. CASE Len(r) <= Len(q)
    <3>1. \A i \in 1 .. Len(r) : q[i] = r[i]
      BY <2>1, <2>3
    <3> QED BY <2>1, <2>3, <3>1, PrefixIs
  <2> QED BY <2>1, <2>2, <2>3
<1> DEFINE f == [q \in around |-> level[q]]
<1>6. f \in [around -> 0 .. MaxDepth] /\ around \subseteq T
  BY <1>2
<1>7. ASSUME NEW q \in around, NEW r \in around, f[q] = f[r]
      PROVE  q = r
  <2>1. q \in T /\ r \in T /\ level[q] \in Int /\ level[r] \in Int /\ level[q] = level[r]
    BY <1>2, <1>7
  <2>2. ~(level[q] < level[r]) /\ ~(level[r] < level[q])
    BY <2>1
  <2> QED BY <1>2, <1>5, <2>1, <2>2
<1> HIDE DEF around, f
<1>8. f \in Injection(around, 0 .. MaxDepth)
  BY <1>6, <1>7 DEF Injection, IsInjective
<1>9. IsFiniteSet(0 .. MaxDepth) /\ Cardinality(0 .. MaxDepth) = MaxDepth + 1
  BY FS_Interval, DepthAssumption
<1>10. IsFiniteSet(around) /\ Cardinality(around) <= MaxDepth + 1
  BY <1>8, <1>9, FS_Injection
<1>11. Cardinality(around) \in Nat
  BY <1>10, FS_CardinalityType
<1>12. Nesting(b, p) = Cardinality(around)
  BY DEF Nesting, around, T
<1> QED BY <1>10, <1>11, <1>12

-----------------------------------------------------------------------------
(* Steps of the stack. *)

(* Fewer tables, as when a node that is none takes a table's place. *)
LEMMA GrownFewer ==
  ASSUME NEW s, NEW T, Grown(s, T), NEW U, U \subseteq T
  PROVE  Grown(s, U)
<1>1. PICK level : Leveled(s, T, level)
  BY DEF Grown
<1> DEFINE f == [q \in U |-> level[q]]
<1>2. /\ f \in [U -> 0 .. MaxDepth]
      /\ \A q \in U : f[q] = level[q] /\ q \in T
  BY <1>1 DEF Leveled
<1> HIDE DEF f
<1>3. Leveled(s, U, f)
  BY <1>1, <1>2 DEF Leveled
<1>4. Untouched(s, U)
  BY DEF Grown, Untouched
<1> QED BY <1>3, <1>4 DEF Grown

(* No call, and no table. *)
LEMMA GrownEmpty == Grown(<<>>, {})
<1>1. Path(<<>>) /\ DOMAIN <<>> = {}
  BY OwnElements DEF Path
<1>2. Leveled(<<>>, {}, [q \in {} |-> 0])
  BY <1>1 DEF Leveled
<1> QED BY <1>1, <1>2 DEF Grown, Untouched, Inward

(* What a stack is, index by index. *)
LEMMA GrownDomain ==
  ASSUME NEW s, NEW T, Grown(s, T)
  PROVE  /\ Len(s) \in Nat /\ DOMAIN s = 1 .. Len(s)
         /\ s # <<>> => Len(s) \in DOMAIN s /\ Len(s) # 0
<1> DEFINE own == {s[i] : i \in DOMAIN s}
<1>1. s \in Seq(own)
  BY DEF Grown, Path
<1> HIDE DEF own
<1> QED BY <1>1

(* Whatever calls have returned, and whichever items have been built, what *)
(* is left of the stack has the same places.                               *)
LEMMA GrownLess ==
  ASSUME NEW s, NEW T, Grown(s, T), NEW r, Path(r), DOMAIN r \subseteq DOMAIN s,
         \A i \in DOMAIN r :
           /\ Open(r[i]) /\ r[i].to = s[i].to /\ r[i].depth = s[i].depth
           /\ \A k \in DOMAIN r[i].todo : \E l \in DOMAIN s[i].todo :
                r[i].todo[k].slot = s[i].todo[l].slot
  PROVE  Grown(r, T)
<1>1. PICK level : Leveled(s, T, level)
  BY DEF Grown
<1>2. Leveled(r, T, level)
  BY <1>1 DEF Leveled
<1>3. Inward(r)
  BY DEF Grown, Inward
<1>4. Untouched(r, T)
  <2> SUFFICES ASSUME NEW i \in DOMAIN r, NEW k \in DOMAIN r[i].todo
               PROVE  /\ \A q \in T : ~IsPrefix(Ahead(r[i], k), q)
                      /\ \A j \in DOMAIN r : i < j => ~IsPrefix(Ahead(r[i], k), r[j].to)
    BY DEF Untouched
  <2>1. PICK l \in DOMAIN s[i].todo : r[i].todo[k].slot = s[i].todo[l].slot
    OBVIOUS
  <2>2. Ahead(r[i], k) = Ahead(s[i], l) /\ i \in DOMAIN s
    BY <2>1 DEF Ahead
  <2>3. /\ \A q \in T : ~IsPrefix(Ahead(s[i], l), q)
        /\ \A j \in DOMAIN s : i < j => ~IsPrefix(Ahead(s[i], l), s[j].to)
    BY <2>2 DEF Grown, Untouched
  <2> QED BY <2>2, <2>3
<1> QED BY <1>2, <1>3, <1>4 DEF Grown

(* A call returns. *)
LEMMA GrownReturns ==
  ASSUME NEW s, NEW T, Grown(s, T), s # <<>>
  PROVE  Grown(SubSeq(s, 1, Len(s) - 1), T)
<1> DEFINE r == SubSeq(s, 1, Len(s) - 1)
<1>1. Path(s) /\ Len(s) \in Nat \ {0} /\ DOMAIN s = 1 .. Len(s) /\ Len(s) - 1 \in 0 .. Len(s)
  BY GrownDomain DEF Grown
<1>2. Path(r) /\ Len(r) = Len(s) - 1 /\ \A i \in 1 .. (Len(s) - 1) : r[i] = s[i]
  BY <1>1, PathBegins
<1> HIDE DEF r
<1>3. DOMAIN r = 1 .. (Len(s) - 1)
  BY <1>2, PathGrows
<1>4. \A i \in DOMAIN r : r[i] = s[i] /\ i \in DOMAIN s /\ Open(s[i])
  BY <1>1, <1>2, <1>3 DEF Grown
<1>5. Grown(r, T)
  BY <1>1, <1>2, <1>3, <1>4, GrownLess
<1> QED BY <1>5 DEF r

(* The call in progress has other items, in some of the places it had.     *)
LEMMA GrownItems ==
  ASSUME NEW s, NEW T, Grown(s, T), s # <<>>, NEW items, Path(items),
         \A k \in DOMAIN items :
           /\ WellTyped(items[k].type)
           /\ \E l \in DOMAIN s[Len(s)].todo : items[k].slot = s[Len(s)].todo[l].slot
           /\ \A l \in DOMAIN items : items[k].slot = items[l].slot => k = l
  PROVE  LET r == [s EXCEPT ![Len(s)].todo = items]
         IN  /\ Grown(r, T) /\ Path(r) /\ r # <<>> /\ Len(r) = Len(s) /\ DOMAIN r = DOMAIN s
             /\ \A i \in DOMAIN s :
                  /\ r[i].to = s[i].to /\ r[i].depth = s[i].depth
                  /\ i # Len(s) => r[i] = s[i]
             /\ r[Len(s)].todo = items
<1> DEFINE top == [s[Len(s)] EXCEPT !.todo = items]
           r == [s EXCEPT ![Len(s)].todo = items]
           own == {s[i] : i \in DOMAIN s}
<1>1. /\ Len(s) \in Nat \ {0} /\ DOMAIN s = 1 .. Len(s) /\ Len(s) \in DOMAIN s
      /\ \A i \in DOMAIN s : Open(s[i])
  BY GrownDomain DEF Grown
<1>2. s \in Seq(own)
  BY DEF Grown, Path
<1>3. r = [s EXCEPT ![Len(s)] = top]
  OBVIOUS
<1>4. Open(s[Len(s)])
  BY <1>1
<1>5. /\ Open(top) /\ top.todo = items
      /\ top.to = s[Len(s)].to /\ top.depth = s[Len(s)].depth
  <2>1. /\ DOMAIN top = DOMAIN s[Len(s)] /\ top.todo = items
        /\ top.to = s[Len(s)].to /\ top.depth = s[Len(s)].depth
    BY <1>4 DEF Open
  <2> HIDE DEF top
  <2>2. Pending(items)
    BY DEF Pending
  <2> QED BY <1>4, <2>1, <2>2 DEF Open
<1> HIDE DEF own, top, r
<1>6. /\ r \in Seq(own \cup {top}) /\ Len(r) = Len(s) /\ DOMAIN r = DOMAIN s
      /\ \A i \in DOMAIN s : r[i] = IF i = Len(s) THEN top ELSE s[i]
  BY <1>1, <1>2, <1>3
<1>7. Path(r)
  BY <1>6, OwnElements DEF Path
<1>8. \A i \in DOMAIN r :
        /\ Open(r[i]) /\ r[i].to = s[i].to /\ r[i].depth = s[i].depth
        /\ \A k \in DOMAIN r[i].todo : \E l \in DOMAIN s[i].todo :
             r[i].todo[k].slot = s[i].todo[l].slot
  BY <1>1, <1>5, <1>6
<1>9. Grown(r, T)
  BY <1>6, <1>7, <1>8, GrownLess
<1>10. r # <<>>
  BY <1>1, <1>6
<1> QED BY <1>1, <1>5, <1>6, <1>7, <1>8, <1>9, <1>10 DEF r

(* The next item of the call in progress is taken from it. What is ahead   *)
(* of it stays ahead, and the item's own place is free.                    *)
LEMMA GrownRest ==
  ASSUME NEW s, NEW T, Grown(s, T), s # <<>>, s[Len(s)].todo # <<>>
  PROVE  LET todo == s[Len(s)].todo
             r == [s EXCEPT ![Len(s)].todo = Tail(todo)]
         IN  /\ Grown(r, T) /\ r # <<>> /\ Len(r) = Len(s)
             /\ r[Len(r)].to = s[Len(s)].to /\ r[Len(r)].depth = s[Len(s)].depth
             /\ Free(r, T, Append(s[Len(s)].to, Head(todo).slot))
             /\ Path(s[Len(s)].to) /\ s[Len(s)].depth \in 0 .. MaxDepth
             /\ WellTyped(Head(todo).type)
<1> DEFINE n == Len(s)
           todo == s[n].todo
           tail == Tail(todo)
           own == {todo[k] : k \in DOMAIN todo}
           r == [s EXCEPT ![n].todo = tail]
           p == Append(s[n].to, Head(todo).slot)
<1>1. /\ n \in Nat \ {0} /\ DOMAIN s = 1 .. n /\ n \in DOMAIN s
      /\ \A i \in DOMAIN s : Open(s[i])
  BY GrownDomain DEF Grown
<1>2. Open(s[n])
  BY <1>1
<1>3. todo \in Seq(own) /\ todo # <<>>
  BY <1>2 DEF Open, Pending, Path
<1> HIDE DEF own, todo
<1>4. /\ Len(todo) \in Nat \ {0} /\ DOMAIN todo = 1 .. Len(todo) /\ Head(todo) = todo[1]
      /\ tail \in Seq(own) /\ DOMAIN tail = 1 .. (Len(todo) - 1)
      /\ \A k \in DOMAIN tail : tail[k] = todo[k + 1] /\ k + 1 \in DOMAIN todo /\ k \in Nat
  BY <1>3
<1> HIDE DEF tail
<1>5. Path(tail)
  BY <1>4, OwnElements DEF Path
<1>6. /\ \A k \in DOMAIN todo : WellTyped(todo[k].type)
      /\ \A k, l \in DOMAIN todo : todo[k].slot = todo[l].slot => k = l
  BY <1>2 DEF Open, Pending, todo
<1>7. ASSUME NEW k \in DOMAIN tail
      PROVE  /\ WellTyped(tail[k].type)
             /\ \E l \in DOMAIN todo : tail[k].slot = todo[l].slot
             /\ \A l \in DOMAIN tail : tail[k].slot = tail[l].slot => k = l
             /\ tail[k].slot # Head(todo).slot
  <2>1. 1 \in DOMAIN todo /\ k + 1 # 1
    BY <1>4
  <2> QED BY <1>4, <1>6, <2>1
<1>8. /\ Grown(r, T) /\ Path(r) /\ r # <<>> /\ Len(r) = n /\ DOMAIN r = DOMAIN s
      /\ \A i \in DOMAIN s :
           /\ r[i].to = s[i].to /\ r[i].depth = s[i].depth
           /\ i # n => r[i] = s[i]
      /\ r[n].todo = tail
  BY <1>5, <1>7, GrownItems DEF todo
<1> HIDE DEF r
<1>9. 1 \in DOMAIN todo /\ p = Ahead(s[n], 1)
  BY <1>4 DEF Ahead, todo
<1>10. Path(s[n].to) /\ Path(p) /\ Len(p) = Len(s[n].to) + 1 /\ Len(s[n].to) \in Nat
  BY <1>2, PathGrows DEF Open
<1>11. \A q \in T : ~IsPrefix(p, q)
  BY <1>1, <1>9 DEF Grown, Untouched, todo
<1>12. ASSUME NEW i \in DOMAIN s
       PROVE  Len(s[i].to) < Len(p)
  <2>1. Path(s[i].to) /\ Len(s[i].to) \in Nat
    BY <1>1, PathGrows DEF Open
  <2>2. i # n => Len(s[i].to) < Len(s[n].to)
    BY <1>1 DEF Grown, Inward
  <2> QED BY <1>10, <2>1, <2>2
<1> HIDE DEF p
<1>13. ASSUME NEW i \in DOMAIN r, NEW k \in DOMAIN r[i].todo, IsPrefix(Ahead(r[i], k), p)
       PROVE  FALSE
  <2>1. i \in DOMAIN s /\ Path(s[i].to) /\ Len(s[i].to) \in Nat
    BY <1>1, <1>8, PathGrows DEF Open
  <2>2. CASE i = n
    <3>1. k \in DOMAIN tail /\ Ahead(r[i], k) = Append(s[n].to, tail[k].slot)
      BY <1>8, <1>13, <2>1, <2>2 DEF Ahead
    <3>2. IsPrefix(Append(s[n].to, tail[k].slot), Append(s[n].to, Head(todo).slot))
      BY <1>13, <3>1 DEF p
    <3> QED BY <1>7, <1>10, <3>1, <3>2, SiblingsDiffer
  <2>3. CASE i # n
    <3>1. r[i] = s[i] /\ i < n
      BY <1>1, <1>8, <2>1, <2>3
    <3> DEFINE a == Ahead(s[i], k)
    <3>2. Path(a) /\ Len(a) = Len(s[i].to) + 1
      BY <2>1, PathGrows DEF Ahead
    <3>3. ~IsPrefix(a, s[n].to)
      BY <1>1, <1>13, <2>1, <3>1 DEF Grown, Untouched
    <3>4. Len(s[i].to) < Len(s[n].to)
      BY <1>1, <2>1, <3>1 DEF Grown, Inward
    <3>5. IsPrefix(a, p)
      BY <1>13, <3>1
    <3> HIDE DEF a
    <3>6. a = p
      BY <1>10, <3>2, <3>3, <3>5, PrefixOfLonger DEF p
    <3> QED BY <1>10, <2>1, <3>2, <3>4, <3>6
  <2> QED BY <2>2, <2>3
<1>14. Free(r, T, p)
  BY <1>8, <1>11, <1>12, <1>13 DEF Free
<1>15. WellTyped(Head(todo).type)
  BY <1>4, <1>6
<1>16. s[n].depth \in 0 .. MaxDepth
  BY <1>2 DEF Open
<1> QED BY <1>1, <1>8, <1>10, <1>14, <1>15, <1>16 DEF r, p, todo, tail

(* A call is made for what is at a free place in the call in progress. If  *)
(* it is a table's, it is deeper.                                          *)
LEMMA GrownCall ==
  ASSUME NEW r, NEW T, Grown(r, T), r # <<>>, NEW x,
         Free(r, T, Append(r[Len(r)].to, x)), NEW F, Open(F),
         F.to = Append(r[Len(r)].to, x), r[Len(r)].depth <= F.depth,
         NEW U, U \subseteq T \cup {F.to},
         F.to \in U => r[Len(r)].depth < F.depth
  PROVE  Grown(Append(r, F), U)
<1> DEFINE n == Len(r)
           p == F.to
           s == Append(r, F)
<1>1. /\ n \in Nat \ {0} /\ DOMAIN r = 1 .. n /\ n \in DOMAIN r /\ Path(r)
      /\ \A i \in DOMAIN r : Open(r[i])
  BY GrownDomain DEF Grown
<1>2. /\ Path(s) /\ DOMAIN s = 1 .. (n + 1)
      /\ \A i \in DOMAIN r : s[i] = r[i]
      /\ s[n + 1] = F
  <2>1. Path(s) /\ Len(s) = n + 1 /\ (\A i \in 1 .. n : s[i] = r[i]) /\ s[n + 1] = F
    BY <1>1, PathGrows
  <2> HIDE DEF s
  <2>2. DOMAIN s = 1 .. (n + 1)
    BY <2>1, PathGrows
  <2> QED BY <1>1, <2>1, <2>2
<1> HIDE DEF s
<1>3. \A i \in DOMAIN s : (i \in DOMAIN r /\ s[i] = r[i]) \/ (i = n + 1 /\ s[i] = F)
  BY <1>1, <1>2
<1>4. /\ Path(r[n].to) /\ Len(r[n].to) \in Nat /\ Path(p) /\ p = Append(r[n].to, x)
      /\ Len(p) = Len(r[n].to) + 1
  BY <1>1, PathGrows DEF Open
<1>5. p \notin T
  <2>1. IsPrefix(p, p)
    BY <1>4, PrefixIs
  <2> QED BY <1>4, <2>1 DEF Free
<1>6. \A i \in DOMAIN s : Open(s[i])
  BY <1>1, <1>3
<1>7. Inward(s)
  <2>1. \A i \in DOMAIN r : Len(r[i].to) < Len(p)
    BY <1>4 DEF Free
  <2>2. \A i, j \in DOMAIN r : i < j => Len(r[i].to) < Len(r[j].to)
    BY DEF Grown, Inward
  <2>3. \A i, j \in DOMAIN s : i < j => i \in DOMAIN r /\ s[i] = r[i]
    BY <1>1, <1>2
  <2> QED BY <1>3, <2>1, <2>2, <2>3 DEF Inward
<1>8. \A q \in U : Path(q) /\ (q \in T \/ q = p)
  BY <1>4 DEF Grown
<1>9. Untouched(s, U)
  <2>1. ASSUME NEW i \in DOMAIN r, NEW k \in DOMAIN r[i].todo
        PROVE  /\ \A q \in U : ~IsPrefix(Ahead(r[i], k), q)
               /\ ~IsPrefix(Ahead(r[i], k), p)
               /\ \A j \in DOMAIN r : i < j => ~IsPrefix(Ahead(r[i], k), r[j].to)
    <3>1. ~IsPrefix(Ahead(r[i], k), p)
      BY <1>4 DEF Free
    <3> QED BY <1>8, <3>1 DEF Grown, Untouched
  <2>2. ASSUME NEW k \in DOMAIN F.todo, NEW q \in U, IsPrefix(Ahead(F, k), q)
        PROVE  FALSE
    <3>1. IsPrefix(p, q) /\ Len(p) < Len(q)
      BY <1>4, <1>8, <2>2, LongerIsPrefix DEF Ahead
    <3>2. q # p
      BY <1>4, <3>1
    <3> QED BY <1>4, <1>8, <3>1, <3>2 DEF Free
  <2> SUFFICES ASSUME NEW i \in DOMAIN s, NEW k \in DOMAIN s[i].todo
               PROVE  /\ \A q \in U : ~IsPrefix(Ahead(s[i], k), q)
                      /\ \A j \in DOMAIN s : i < j => ~IsPrefix(Ahead(s[i], k), s[j].to)
    BY DEF Untouched
  <2>3. CASE i \in DOMAIN r /\ s[i] = r[i]
    BY <1>3, <2>1, <2>3
  <2>4. CASE i = n + 1 /\ s[i] = F
    <3>1. \A j \in DOMAIN s : ~(i < j)
      BY <1>1, <1>2, <2>4
    <3> QED BY <2>2, <2>4, <3>1
  <2> QED BY <1>3, <2>3, <2>4
<1>10. PICK level : Leveled(r, T, level)
  BY DEF Grown
<1> DEFINE f == [q \in U |-> IF q = p THEN F.depth ELSE level[q]]
<1>11. /\ f \in [U -> 0 .. MaxDepth]
       /\ \A q \in U : f[q] = IF q = p THEN F.depth ELSE level[q]
  BY <1>8, <1>10 DEF Leveled, Open
<1> HIDE DEF f
<1>12. \A q \in T : IsPrefix(q, r[n].to) => level[q] <= r[n].depth /\ level[q] \in Int
  BY <1>1, <1>10 DEF Leveled
<1>13. r[n].depth \in Int /\ F.depth \in Int
  BY <1>1 DEF Open
<1>14. ASSUME NEW q \in U, NEW t \in U, IsPrefix(q, t), q # t
       PROVE  f[q] < f[t]
  <2>1. q # p
    BY <1>8, <1>14 DEF Free
  <2>2. CASE t = p
    <3>1. IsPrefix(q, r[n].to)
      BY <1>4, <1>8, <1>14, <2>2, PrefixOfLonger
    <3>2. q \in T
      BY <1>8, <2>1
    <3>3. level[q] <= r[n].depth /\ level[q] \in Int
      BY <1>12, <3>1, <3>2
    <3>4. r[n].depth < F.depth
      BY <2>2
    <3>5. f[q] = level[q] /\ f[t] = F.depth
      BY <1>11, <2>1, <2>2
    <3> HIDE DEF n, p
    <3> QED BY <1>13, <3>3, <3>4, <3>5
  <2>3. CASE t # p
    BY <1>8, <1>10, <1>11, <1>14, <2>1, <2>3 DEF Leveled
  <2> QED BY <2>2, <2>3
<1>15. ASSUME NEW i \in DOMAIN s, NEW q \in U, IsPrefix(q, s[i].to)
       PROVE  f[q] <= s[i].depth
  <2>1. CASE i \in DOMAIN r /\ s[i] = r[i]
    <3>1. Len(r[i].to) < Len(p) /\ Path(r[i].to)
      BY <1>1, <1>4, <2>1 DEF Free, Open
    <3>2. Len(q) <= Len(r[i].to)
      BY <1>15, <2>1 DEF IsPrefix
    <3>3. q # p
      <4>1. Len(r[i].to) \in Nat
        BY <3>1, PathGrows
      <4> QED BY <1>4, <3>1, <3>2, <4>1
    <3> QED BY <1>8, <1>10, <1>11, <1>15, <2>1, <3>3 DEF Leveled
  <2>2. CASE i = n + 1 /\ s[i] = F
    <3>1. CASE q = p
      <4>1. f[q] = F.depth /\ s[i].depth = F.depth
        BY <1>11, <2>2, <3>1
      <4> QED BY <1>13, <4>1
    <3>2. CASE q # p
      <4>1. IsPrefix(q, r[n].to)
        BY <1>4, <1>8, <1>15, <2>2, <3>2, PrefixOfLonger
      <4> QED BY <1>8, <1>11, <1>12, <1>13, <2>2, <3>2, <4>1
    <3> QED BY <3>1, <3>2
  <2> QED BY <1>3, <2>1, <2>2
<1>16. Leveled(s, U, f)
  BY <1>11, <1>14, <1>15 DEF Leveled
<1>17. Grown(s, U)
  BY <1>2, <1>6, <1>7, <1>8, <1>9, <1>16 DEF Grown
<1> QED BY <1>17 DEF s

(* The first call, for the root. *)
LEMMA GrownStarts ==
  ASSUME NEW F, Open(F), F.to = <<>>, NEW U, U \subseteq {<<>>}
  PROVE  Grown(Append(<<>>, F), U)
<1> DEFINE s == Append(<<>>, F)
<1>1. Path(<<>>) /\ Len(<<>>) = 0
  BY OwnElements DEF Path
<1>2. Path(s) /\ DOMAIN s = {1} /\ s[1] = F
  <2>1. Path(s) /\ Len(s) = 1 /\ s[1] = F
    <3>1. Path(s) /\ Len(s) = Len(<<>>) + 1 /\ s[Len(<<>>) + 1] = F
      BY <1>1, PathGrows
    <3>2. Len(<<>>) + 1 = 1
      BY <1>1
    <3> HIDE DEF s
    <3> QED BY <3>1, <3>2
  <2> HIDE DEF s
  <2>2. DOMAIN s = 1 .. 1
    BY <2>1, PathGrows
  <2> QED BY <2>1, <2>2
<1> HIDE DEF s
<1>3. \A q \in U : q = <<>> /\ Path(q)
  BY <1>1
<1>4. Inward(s)
  BY <1>2 DEF Inward
<1>5. ASSUME NEW k \in DOMAIN F.todo, NEW q \in U, IsPrefix(Ahead(F, k), q)
      PROVE  FALSE
  <2>1. IsPrefix(Append(<<>>, F.todo[k].slot), <<>>)
    BY <1>3, <1>5 DEF Ahead
  <2>2. Len(<<>>) < Len(<<>>)
    BY <1>1, <2>1, LongerIsPrefix
  <2> QED BY <1>1, <2>2
<1>6. Untouched(s, U)
  BY <1>2, <1>5 DEF Untouched
<1>7. 0 \in 0 .. MaxDepth /\ F.depth \in 0 .. MaxDepth
  BY DepthAssumption DEF Open
<1> DEFINE f == [q \in U |-> 0]
<1>8. f \in [U -> 0 .. MaxDepth] /\ \A q \in U : f[q] = 0
  BY <1>7
<1> HIDE DEF f
<1>9. \A q \in U : f[q] <= F.depth
  BY <1>7, <1>8
<1>10. Leveled(s, U, f)
  BY <1>2, <1>3, <1>8, <1>9 DEF Leveled
<1>11. Grown(s, U)
  BY <1>2, <1>3, <1>4, <1>6, <1>10 DEF Grown
<1> QED BY <1>11 DEF s

-----------------------------------------------------------------------------
(* Items of calls. *)

(* The fields of a table or a struct. *)
LEMMA FieldsPending ==
  ASSUME NEW o \in DOMAIN Objects
  PROVE  Pending(FieldItems(o))
<1> DEFINE order == Objects[o].order
           type == Objects[o].type
           items == FieldItems(o)
<1>1. /\ order \in Seq(DOMAIN type) /\ Distinct(order)
      /\ \A f \in DOMAIN type : WellTyped(type[f])
  BY SchemaAssumption
<1>2. /\ Len(order) \in Nat /\ DOMAIN order = 1 .. Len(order)
      /\ \A i \in 1 .. Len(order) : order[i] \in DOMAIN type
  <2> HIDE DEF order, type
  <2> QED BY <1>1
<1>3. /\ DOMAIN items = 1 .. Len(order)
      /\ \A i \in 1 .. Len(order) : items[i].slot = order[i] /\ items[i].type = type[order[i]]
  BY DEF FieldItems, Item
<1>4. items = [i \in 1 .. Len(order) |-> items[i]]
  BY DEF FieldItems
<1> HIDE DEF order, type, items
<1>5. Path(items)
  BY <1>2, <1>3, <1>4 DEF Path
<1>6. Pending(items)
  BY <1>1, <1>2, <1>3, <1>5 DEF Pending, Distinct
<1> QED BY <1>6 DEF items

(* Items at the first n positions. *)
LEMMA PositionsPending ==
  ASSUME NEW n \in 0 .. Len(Position), NEW items, DOMAIN items = 1 .. n,
         items = [i \in 1 .. n |-> items[i]],
         \A i \in 1 .. n : items[i].slot = Position[i] /\ WellTyped(items[i].type)
  PROVE  Pending(items)
<1> DEFINE own == {Position[i] : i \in DOMAIN Position}
<1>1. Position \in Seq(own)
  BY PositionAssumption
<1> HIDE DEF own
<1>2. Len(Position) \in Nat /\ DOMAIN Position = 1 .. Len(Position)
  BY <1>1
<1>3. \A i \in 1 .. n : i \in DOMAIN Position
  BY <1>2
<1>4. Path(items)
  BY <1>2 DEF Path
<1> QED BY <1>3, <1>4, PositionAssumption DEF Pending, Distinct

(* The elements of a vector or an array. *)
LEMMA ElementsPending ==
  ASSUME WellTyped(Type), Type.base \in {"vector", "array"}, InPositions
  PROVE  Pending(ElementItems)
<1> DEFINE n == Cardinality(KeysAt(doc, From))
           t == [base |-> Type.elem, of |-> Type.of]
           items == ElementItems
<1>1. n \in 0 .. Len(Position)
  BY DEF InPositions
<1>2. WellTyped(t)
  <2>1. /\ t.base = Type.elem /\ t.of = Type.of
        /\ Type.elem \notin {"vector", "array", "union"} /\ Refers(Type.elem, Type.of)
    BY DEF WellTyped
  <2> HIDE DEF t
  <2> QED BY <2>1 DEF WellTyped
<1>3. DOMAIN Elements(doc, From) = 1 .. n
  BY DEF Elements
<1>4. /\ DOMAIN items = 1 .. n
      /\ items = [i \in 1 .. n |-> items[i]]
      /\ \A i \in 1 .. n : items[i].slot = Position[i] /\ items[i].type = t
  BY <1>3 DEF ElementItems, Item
<1> HIDE DEF n, t, items
<1>5. Pending(items)
  BY <1>1, <1>2, <1>4, PositionsPending
<1> QED BY <1>5 DEF items

(* The entries of a keyed object. *)
LEMMA EntriesPending ==
  ASSUME WellTyped(Type), Type.base = "vector", InPositions, InKeyedForm
  PROVE  Pending(EntryItems)
<1> DEFINE n == Cardinality(KeysAt(doc, From))
           t == [base |-> "table", of |-> Type.of]
           items == EntryItems
<1>1. n \in 0 .. Len(Position)
  BY DEF InPositions
<1>2. WellTyped(t)
  <2>1. t.base = "table" /\ t.of = Type.of /\ Refers("table", Type.of)
    BY DEF WellTyped, InKeyedForm
  <2> HIDE DEF t
  <2> QED BY <2>1 DEF WellTyped
<1>3. DOMAIN SortedKeys = 1 .. n
  BY DEF SortedKeys
<1>4. /\ DOMAIN items = 1 .. n
      /\ items = [i \in 1 .. n |-> items[i]]
      /\ \A i \in 1 .. n : items[i].slot = Position[i] /\ items[i].type = t
  BY <1>3 DEF EntryItems, Item
<1> HIDE DEF n, t, items
<1>5. Pending(items)
  BY <1>1, <1>2, <1>4, PositionsPending
<1> QED BY <1>5 DEF items

-----------------------------------------------------------------------------
(* Outcomes of a step, once more. *)

(* A refusal leaves nothing. *)
LEMMA RefuseNested ==
  ASSUME NEW reason, Refuse(reason)
  PROVE  Nested'
<1>1. phase' = "refused" /\ frames' = <<>> /\ buffer' = Empty
  BY DEF Refuse
<1>2. Tables(Empty) = {}
  BY DEF Tables, Empty
<1>3. Grown(frames', Tables(buffer'))
  BY <1>1, <1>2, GrownEmpty
<1> QED BY <1>1, <1>3 DEF Nested, Phases

(* A step of from_json leaves a stack and what it has built. *)
LEMMA MoveNested ==
  ASSUME phase = "build", NEW s, NEW built, s # <<>>, Grown(s, Tables(built)), Move(s, built)
  PROVE  Nested'
<1>1. phase' = "build" /\ frames' = s /\ buffer' = built
  BY DEF Move
<1>2. Grown(frames', Tables(buffer'))
  BY <1>1
<1> QED BY <1>1, <1>2 DEF Nested, Phases

(* A node put into the buffer. *)
LEMMA PutTables ==
  ASSUME NEW p, NEW node
  PROVE  /\ Tables(Put(p, node)) \subseteq Tables(buffer) \cup {p}
         /\ node[1] # "table" => Tables(Put(p, node)) \subseteq Tables(buffer)
BY DEF Tables, Put

(* The call in progress, and the place of its next item. *)
LEMMA RestNested ==
  ASSUME Nested, Building
  PROVE  /\ phase = "build" /\ Grown(Rest, Tables(buffer)) /\ Rest # <<>>
         /\ Rest[Len(Rest)].depth = Top.depth /\ Top.depth \in 0 .. MaxDepth
         /\ To = Append(Rest[Len(Rest)].to, Due.slot) /\ Path(To)
         /\ Free(Rest, Tables(buffer), To)
         /\ WellTyped(Type)
<1>1. phase = "build" /\ frames # <<>> /\ frames[Len(frames)].todo # <<>>
  BY DEF Building, Top
<1>2. Rest = [frames EXCEPT ![Len(frames)].todo = Tail(frames[Len(frames)].todo)]
  BY DEF Rest
<1>3. /\ Grown(Rest, Tables(buffer)) /\ Rest # <<>>
      /\ Rest[Len(Rest)].to = Top.to /\ Rest[Len(Rest)].depth = Top.depth
      /\ Free(Rest, Tables(buffer), Append(Top.to, Due.slot))
      /\ Path(Top.to) /\ Top.depth \in 0 .. MaxDepth
      /\ WellTyped(Due.type)
  BY <1>1, <1>2, GrownRest DEF Nested, Top, Due
<1>4. Path(Append(Top.to, Due.slot))
  BY <1>3, PathGrows
<1> QED BY <1>1, <1>3, <1>4 DEF To, Type

(* The call in progress goes on. *)
LEMMA RestMoves ==
  ASSUME Nested, Building, NEW built, Tables(built) \subseteq Tables(buffer), Move(Rest, built)
  PROVE  Nested'
BY RestNested, GrownFewer, MoveNested

(* The call in progress makes another one. *)
LEMMA CallNested ==
  ASSUME Nested, Building, NEW built,
         NEW op, NEW from, NEW type, NEW depth, NEW over, NEW todo,
         Pending(todo), depth \in 0 .. MaxDepth, Top.depth <= depth,
         Tables(built) \subseteq Tables(buffer) \cup {To},
         Tables(built) \subseteq Tables(buffer) \/ Top.depth < depth,
         Move(Append(Rest, Frame(op, from, To, type, depth, over, todo)), built)
  PROVE  Nested'
<1> DEFINE F == Frame(op, from, To, type, depth, over, todo)
           s == Append(Rest, F)
<1>1. /\ phase = "build" /\ Grown(Rest, Tables(buffer)) /\ Rest # <<>>
      /\ Rest[Len(Rest)].depth = Top.depth
      /\ To = Append(Rest[Len(Rest)].to, Due.slot) /\ Path(To)
      /\ Free(Rest, Tables(buffer), To)
  BY RestNested
<1>2. Open(F) /\ F.to = To /\ F.depth = depth
  BY <1>1 DEF Open, Frame
<1> HIDE DEF F
<1>3. To \notin Tables(buffer)
  <2>1. IsPrefix(To, To)
    BY <1>1, PathGrows, PrefixIs
  <2> QED BY <1>1, <2>1 DEF Free
<1>4. F.to \in Tables(built) => Rest[Len(Rest)].depth < F.depth
  BY <1>1, <1>2, <1>3
<1>5. Grown(s, Tables(built))
  BY <1>1, <1>2, <1>4, GrownCall
<1>6. s # <<>>
  <2>1. Path(Rest) /\ Len(Rest) \in Nat
    BY <1>1, GrownDomain DEF Grown
  <2>2. Len(s) = Len(Rest) + 1
    BY <2>1, PathGrows
  <2> HIDE DEF s
  <2> QED BY <2>1, <2>2
<1> HIDE DEF s
<1> QED BY <1>1, <1>5, <1>6, MoveNested DEF F, s

(* The head of build_table, called from a call in progress. *)
LEMMA EnterTableNested ==
  ASSUME Nested, Building, NEW from, NEW over, NEW type \in DOMAIN Objects,
         EnterTable(from, To, type, Top.depth + 1, over, Rest)
  PROVE  Nested'
<1> DEFINE depth == Top.depth + 1
           todo == FieldItems(type)
           built == Put(To, <<"table", type>>)
<1>1. CASE \E reason : Refuse(reason)
  BY <1>1, RefuseNested
<1>2. CASE ~\E reason : Refuse(reason)
  <2>1. /\ ~(depth > MaxDepth)
        /\ Move(Append(Rest, Frame("table", from, To, type, depth, over, todo)), built)
    BY <1>2 DEF EnterTable
  <2>2. Top.depth \in 0 .. MaxDepth
    BY RestNested
  <2>3. depth \in 0 .. MaxDepth /\ Top.depth <= depth /\ Top.depth < depth
    BY <2>1, <2>2, DepthAssumption
  <2>4. Tables(built) \subseteq Tables(buffer) \cup {To}
    BY PutTables
  <2>5. Pending(todo)
    BY FieldsPending
  <2> HIDE DEF depth, todo, built
  <2> QED BY <2>1, <2>3, <2>4, <2>5, CallNested
<1> QED BY <1>1, <1>2

(* The head of build_struct_bytes. *)
LEMMA EnterStructNested ==
  ASSUME Nested, Building, NEW op, NEW from, NEW type \in DOMAIN Objects,
         EnterStruct(op, from, To, type, Rest)
  PROVE  Nested'
<1> DEFINE depth == Top.depth
           todo == FieldItems(type)
           built == Put(To, <<"struct", type>>)
<1>1. CASE \E reason : Refuse(reason)
  BY <1>1, RefuseNested
<1>2. CASE ~\E reason : Refuse(reason)
  <2>1. Move(Append(Rest, Frame(op, from, To, type, depth, <<>>, todo)), built)
    BY <1>2 DEF EnterStruct
  <2>2. depth \in 0 .. MaxDepth /\ Top.depth <= depth
    BY RestNested
  <2>3. Tables(built) \subseteq Tables(buffer)
    BY PutTables
  <2>4. Pending(todo)
    BY FieldsPending
  <2> HIDE DEF depth, todo, built
  <2> QED BY <2>1, <2>2, <2>3, <2>4, CallNested
<1> QED BY <1>1, <1>2

(* A vector or an array. *)
LEMMA ListNested ==
  ASSUME Nested, Building, NEW op, NEW depth, NEW todo, NEW node,
         Pending(todo), depth \in 0 .. MaxDepth, Top.depth <= depth, node[1] # "table",
         Move(Append(Rest, Frame(op, From, To, Type.of, depth, <<>>, todo)), Put(To, node))
  PROVE  Nested'
<1> DEFINE built == Put(To, node)
<1>1. Tables(built) \subseteq Tables(buffer)
  BY PutTables
<1> HIDE DEF built
<1> QED BY <1>1, CallNested DEF built

-----------------------------------------------------------------------------
(* One lemma for each action of BuildStep. *)

LEMMA BuildAbsentNested == Nested /\ BuildAbsent => Nested'
BY RefuseNested, RestMoves DEF BuildAbsent

LEMMA BuildScalarNested == Nested /\ BuildScalar => Nested'
<1> SUFFICES ASSUME Nested, BuildScalar PROVE Nested'
  OBVIOUS
<1> DEFINE scalar == Decode(ScalarKind, Value)
           node == <<"scalar", ScalarKind, scalar>>
<1>1. CASE Refuse(scalar[2])
  BY <1>1, RefuseNested
<1>2. CASE ~Refuse(scalar[2])
  <2>1. Move(Rest, buffer) \/ Move(Rest, Put(To, node))
    BY <1>2 DEF BuildScalar
  <2>2. node[1] # "table"
    OBVIOUS
  <2> HIDE DEF node
  <2>3. Tables(Put(To, node)) \subseteq Tables(buffer)
    BY <2>2, PutTables
  <2> QED BY <2>1, <2>3, RestMoves DEF BuildScalar
<1> QED BY <1>1, <1>2

LEMMA BuildStringNested == Nested /\ BuildString => Nested'
<1> SUFFICES ASSUME Nested, BuildString PROVE Nested'
  OBVIOUS
<1>1. CASE Refuse("type")
  BY <1>1, RefuseNested
<1>2. CASE ~Refuse("type")
  <2>1. Value[1] = "string" /\ Move(Rest, Put(To, Value))
    BY <1>2 DEF BuildString
  <2>2. Tables(Put(To, Value)) \subseteq Tables(buffer)
    BY <2>1, PutTables
  <2> QED BY <2>1, <2>2, RestMoves DEF BuildString
<1> QED BY <1>1, <1>2

LEMMA BuildTableNested == Nested /\ BuildTable => Nested'
<1> SUFFICES ASSUME Nested, BuildTable PROVE Nested'
  OBVIOUS
<1>1. CASE Refuse("type")
  BY <1>1, RefuseNested
<1>2. CASE ~Refuse("type")
  <2>1. Building /\ Type.base = "table" /\ EnterTable(From, To, Type.of, Top.depth + 1, Due.over, Rest)
    BY <1>2 DEF BuildTable
  <2>2. Type.of \in DOMAIN Objects
    BY <2>1, RestNested DEF WellTyped, Refers
  <2> QED BY <2>1, <2>2, EnterTableNested
<1> QED BY <1>1, <1>2

LEMMA BuildStructNested == Nested /\ BuildStruct => Nested'
<1> SUFFICES ASSUME Nested, BuildStruct PROVE Nested'
  OBVIOUS
<1>1. CASE Refuse("type")
  BY <1>1, RefuseNested
<1>2. CASE ~Refuse("type")
  <2>1. /\ Building /\ Type.base = "struct"
        /\ \E op \in {"variant", "struct"} : EnterStruct(op, From, To, Type.of, Rest)
    BY <1>2 DEF BuildStruct
  <2>2. Type.of \in DOMAIN Objects
    BY <2>1, RestNested DEF WellTyped, Refers
  <2> QED BY <2>1, <2>2, EnterStructNested
<1> QED BY <1>1, <1>2

LEMMA BuildBytesNested == Nested /\ BuildBytes => Nested'
<1> SUFFICES ASSUME Nested, BuildBytes PROVE Nested'
  OBVIOUS
<1>1. \/ \E reason : Refuse(reason)
      \/ \E bytes : Move(Rest, Put(To, <<"bytes", Type.of, bytes>>))
  BY DEF BuildBytes
<1>2. CASE \E reason : Refuse(reason)
  BY <1>2, RefuseNested
<1>3. ASSUME NEW bytes, Move(Rest, Put(To, <<"bytes", Type.of, bytes>>))
      PROVE  Nested'
  <2>1. Tables(Put(To, <<"bytes", Type.of, bytes>>)) \subseteq Tables(buffer)
    BY PutTables
  <2> QED BY <1>3, <2>1, RestMoves DEF BuildBytes
<1> QED BY <1>1, <1>2, <1>3

LEMMA BuildVectorNested == Nested /\ BuildVector => Nested'
<1> SUFFICES ASSUME Nested, BuildVector PROVE Nested'
  OBVIOUS
<1> DEFINE depth == Top.depth + 1
           node == <<"vector", Type>>
<1>1. CASE \E reason : Refuse(reason)
  BY <1>1, RefuseNested
<1>2. CASE ~\E reason : Refuse(reason)
  <2>1. /\ Building /\ Type.base = "vector" /\ InPositions /\ ~(depth > MaxDepth)
        /\ Move(Append(Rest, Frame("vector", From, To, Type.of, depth, <<>>, ElementItems)), Put(To, node))
    BY <1>2 DEF BuildVector
  <2>2. Top.depth \in 0 .. MaxDepth /\ WellTyped(Type)
    BY <2>1, RestNested
  <2>3. depth \in 0 .. MaxDepth /\ Top.depth <= depth
    BY <2>1, <2>2, DepthAssumption
  <2>4. Pending(ElementItems)
    BY <2>1, <2>2, ElementsPending
  <2>5. node[1] # "table"
    OBVIOUS
  <2> HIDE DEF depth, node
  <2> QED BY <2>1, <2>3, <2>4, <2>5, ListNested
<1> QED BY <1>1, <1>2

LEMMA BuildKeyedNested == Nested /\ BuildKeyed => Nested'
<1> SUFFICES ASSUME Nested, BuildKeyed PROVE Nested'
  OBVIOUS
<1> DEFINE depth == Top.depth + 2
           node == <<"vector", Type>>
<1>1. CASE \E reason : Refuse(reason)
  BY <1>1, RefuseNested
<1>2. CASE ~\E reason : Refuse(reason)
  <2>1. /\ Building /\ Type.base = "vector" /\ InPositions /\ InKeyedForm /\ ~(depth > MaxDepth)
        /\ Move(Append(Rest, Frame("vector", From, To, Type.of, depth, <<>>, EntryItems)), Put(To, node))
    BY <1>2 DEF BuildKeyed
  <2>2. Top.depth \in 0 .. MaxDepth /\ WellTyped(Type)
    BY <2>1, RestNested
  <2>3. depth \in 0 .. MaxDepth /\ Top.depth <= depth
    BY <2>1, <2>2, DepthAssumption
  <2>4. Pending(EntryItems)
    BY <2>1, <2>2, EntriesPending
  <2>5. node[1] # "table"
    OBVIOUS
  <2> HIDE DEF depth, node
  <2> QED BY <2>1, <2>3, <2>4, <2>5, ListNested
<1> QED BY <1>1, <1>2

LEMMA BuildArrayNested == Nested /\ BuildArray => Nested'
<1> SUFFICES ASSUME Nested, BuildArray PROVE Nested'
  OBVIOUS
<1> DEFINE depth == Top.depth
           node == <<"array", Type>>
<1>1. CASE \E reason : Refuse(reason)
  BY <1>1, RefuseNested
<1>2. CASE ~\E reason : Refuse(reason)
  <2>1. /\ Building /\ Type.base = "array" /\ InPositions
        /\ Move(Append(Rest, Frame("array", From, To, Type.of, depth, <<>>, ElementItems)), Put(To, node))
    BY <1>2 DEF BuildArray
  <2>2. depth \in 0 .. MaxDepth /\ Top.depth <= depth /\ WellTyped(Type)
    BY <2>1, RestNested
  <2>3. Pending(ElementItems)
    BY <2>1, <2>2, ElementsPending
  <2>4. node[1] # "table"
    OBVIOUS
  <2> HIDE DEF depth, node
  <2> QED BY <2>1, <2>2, <2>3, <2>4, ListNested
<1> QED BY <1>1, <1>2

LEMMA BuildUnionNested == Nested /\ BuildUnion => Nested'
<1> SUFFICES ASSUME Nested, BuildUnion PROVE Nested'
  OBVIOUS
<1> DEFINE tail == Tail(Top.todo)
           items == <<VariantItem>> \o tail
           goesOn == [frames EXCEPT ![Len(frames)].todo = items]
           disc == Append(Top.to, Type.disc)
           node == <<"scalar", DiscKind, <<"int", DiscKind.names[Disc[2]]>>>>
           variant == Variants[Type.of][Disc[2]]
<1>1. \/ \E reason : Refuse(reason)
      \/ Move(Rest, buffer)
      \/ Disc[2] \in DOMAIN Variants[Type.of] /\ Move(goesOn, Put(disc, node))
  BY DEF BuildUnion, Top
<1>2. CASE \E reason : Refuse(reason)
  BY <1>2, RefuseNested
<1>3. CASE Move(Rest, buffer)
  BY <1>3, RestMoves DEF BuildUnion
<1>4. CASE Disc[2] \in DOMAIN Variants[Type.of] /\ Move(goesOn, Put(disc, node))
  <2>1. Type.base = "union" /\ phase = "build" /\ frames # <<>> /\ Top.todo # <<>>
    BY DEF BuildUnion, Building
  <2>2. WellTyped(Type)
    BY RestNested DEF BuildUnion
  <2>3. WellTyped(variant)
    <3>1. variant.base \notin {"vector", "array", "union"} /\ Refers(variant.base, variant.of)
      BY <1>4, <2>1, <2>2 DEF WellTyped
    <3> HIDE DEF variant
    <3> QED BY <3>1 DEF WellTyped
  <2>4. VariantItem.slot = Due.slot /\ VariantItem.type = variant
    BY DEF VariantItem, Item
  <2>5. Grown(frames, Tables(buffer)) /\ Pending(Top.todo)
    <3>1. Grown(frames, Tables(buffer)) /\ Len(frames) \in DOMAIN frames
      BY <2>1, GrownDomain DEF Nested
    <3> QED BY <3>1 DEF Grown, Open, Top
  <2> DEFINE own == {Top.todo[k] : k \in DOMAIN Top.todo}
  <2>6. Top.todo \in Seq(own)
    BY <2>5 DEF Pending, Path
  <2> HIDE DEF own
  <2>7. /\ Len(Top.todo) \in Nat \ {0} /\ DOMAIN Top.todo = 1 .. Len(Top.todo)
        /\ Due = Top.todo[1]
        /\ tail \in Seq(own) /\ Len(tail) = Len(Top.todo) - 1
        /\ \A k \in 1 .. Len(tail) : tail[k] = Top.todo[k + 1]
    BY <2>1, <2>6 DEF Due
  <2> HIDE DEF tail
  <2>8. /\ items \in Seq(own \cup {VariantItem}) /\ DOMAIN items = DOMAIN Top.todo
        /\ items[1] = VariantItem
        /\ \A k \in DOMAIN items : k # 1 => items[k] = Top.todo[k]
    <3>1. /\ items \in Seq(own \cup {VariantItem}) /\ Len(items) = Len(tail) + 1
          /\ items[1] = VariantItem
          /\ \A k \in 1 .. Len(items) : k # 1 => items[k] = tail[k - 1]
      BY <2>7
    <3> HIDE DEF items
    <3>2. DOMAIN items = 1 .. Len(Top.todo)
      BY <2>7, <3>1
    <3>3. ASSUME NEW k \in DOMAIN items, k # 1
          PROVE  items[k] = Top.todo[k]
      <4>1. k \in 1 .. Len(items) /\ k - 1 \in 1 .. Len(tail) /\ (k - 1) + 1 = k
        BY <2>7, <3>1, <3>2, <3>3
      <4>2. tail[k - 1] = Top.todo[(k - 1) + 1]
        BY <2>7, <4>1
      <4> QED BY <3>1, <3>3, <4>1, <4>2
    <3> QED BY <2>7, <3>1, <3>2, <3>3
  <2> HIDE DEF items, variant
  <2>9. Path(items)
    BY <2>8, OwnElements DEF Path
  <2>10. \A k \in DOMAIN items : items[k].slot = Top.todo[k].slot /\ WellTyped(items[k].type)
    BY <2>3, <2>4, <2>5, <2>7, <2>8 DEF Pending
  <2>11. \A k \in DOMAIN items :
           /\ WellTyped(items[k].type)
           /\ \E l \in DOMAIN Top.todo : items[k].slot = Top.todo[l].slot
           /\ \A l \in DOMAIN items : items[k].slot = items[l].slot => k = l
    BY <2>5, <2>8, <2>10 DEF Pending
  <2>12. Grown(goesOn, Tables(buffer)) /\ goesOn # <<>>
    <3>1. \A k \in DOMAIN items :
            /\ WellTyped(items[k].type)
            /\ \E l \in DOMAIN frames[Len(frames)].todo :
                 items[k].slot = frames[Len(frames)].todo[l].slot
            /\ \A l \in DOMAIN items : items[k].slot = items[l].slot => k = l
      BY <2>11 DEF Top
    <3>2. Grown(frames, Tables(buffer)) /\ frames # <<>> /\ Path(items)
      BY <2>1, <2>5, <2>9
    <3> QED BY ONLY <3>1, <3>2, GrownItems DEF goesOn
  <2> HIDE DEF goesOn
  <2>13. Tables(Put(disc, node)) \subseteq Tables(buffer)
    <3>1. node[1] # "table"
      OBVIOUS
    <3> HIDE DEF node
    <3> QED BY <3>1, PutTables
  <2>14. Grown(goesOn, Tables(Put(disc, node)))
    BY <2>12, <2>13, GrownFewer
  <2> HIDE DEF disc, node
  <2> QED BY <1>4, <2>1, <2>12, <2>14, MoveNested
<1> QED BY <1>1, <1>2, <1>3, <1>4

LEMMA ReturnNested == Nested /\ Return => Nested'
<1> SUFFICES ASSUME Nested, Return PROVE Nested'
  OBVIOUS
<1> DEFINE s == SubSeq(frames, 1, Len(frames) - 1)
<1>1. phase = "build" /\ frames # <<>> /\ Grown(frames, Tables(buffer))
  BY DEF Nested, Return
<1>2. CASE \E reason : Refuse(reason)
  BY <1>2, RefuseNested
<1>3. CASE Len(frames) > 1 /\ Move(s, buffer)
  <2>1. Grown(s, Tables(buffer))
    BY <1>1, GrownReturns
  <2>2. s # <<>>
    <3>1. Path(frames) /\ Len(frames) \in Nat
      BY <1>1, GrownDomain DEF Grown
    <3>2. Len(frames) - 1 \in 0 .. Len(frames)
      BY <1>3, <3>1
    <3>3. Len(s) = Len(frames) - 1
      BY <3>1, <3>2, PathBegins
    <3> HIDE DEF s
    <3> QED BY <1>3, <3>1, <3>3
  <2> HIDE DEF s
  <2> QED BY <1>1, <1>3, <2>1, <2>2, MoveNested
<1>4. CASE phase' = "built" /\ frames' = <<>> /\ buffer' = buffer
  <2>1. \A p \in Tables(buffer) : Path(p)
    BY <1>1 DEF Grown
  <2>2. PICK level : Leveled(frames, Tables(buffer), level)
    BY <1>1 DEF Grown
  <2>3. Leveled(<<>>, Tables(buffer), level)
    BY <2>2 DEF Leveled
  <2>4. Grown(<<>>, Tables(buffer))
    BY <2>1, <2>3, GrownEmpty DEF Grown, Untouched, Inward
  <2> QED BY <1>4, <2>4 DEF Nested, Phases
<1> QED BY <1>2, <1>3, <1>4 DEF Return

LEMMA JsonToBufNested == Nested /\ JsonToBuf => Nested'
<1> SUFFICES ASSUME Nested, JsonToBuf PROVE Nested'
  OBVIOUS
<1>1. CASE \E reason : Refuse(reason)
  BY <1>1, RefuseNested
<1>2. CASE ~\E reason : Refuse(reason)
  <2> DEFINE F == Frame("table", <<>>, <<>>, RootTable, 0, <<>>, FieldItems(RootTable))
             built == Put(<<>>, <<"table", RootTable>>)
             s == Append(<<>>, F)
  <2>1. Move(s, built)
    BY <1>2 DEF JsonToBuf, EnterTable
  <2>2. phase = "build" /\ buffer = Empty
    BY DEF JsonToBuf, Nested
  <2>3. Tables(built) \subseteq {<<>>}
    <3>1. Tables(Empty) = {}
      BY DEF Tables, Empty
    <3> QED BY <2>2, <3>1, PutTables
  <2>4. Open(F) /\ F.to = <<>>
    <3>1. Pending(FieldItems(RootTable))
      BY FieldsPending, SchemaAssumption
    <3>2. 0 \in 0 .. MaxDepth
      BY DepthAssumption
    <3>3. Path(<<>>)
      BY GrownEmpty DEF Grown
    <3> QED BY <3>1, <3>2, <3>3 DEF Open, Frame
  <2> HIDE DEF F, built
  <2>5. Grown(s, Tables(built))
    BY <2>3, <2>4, GrownStarts
  <2>6. s # <<>>
    <3>1. Len(s) = 1 /\ Len(<<>>) = 0
      BY GrownEmpty, PathGrows DEF Grown
    <3> HIDE DEF s
    <3> QED BY <3>1
  <2> HIDE DEF s
  <2> QED BY <2>1, <2>2, <2>5, <2>6, MoveNested
<1> QED BY <1>1, <1>2

-----------------------------------------------------------------------------
(* Initially nothing is built. *)
LEMMA NestedInit == Init => Nested
<1>1. Tables(Empty) = {}
  BY DEF Tables, Empty
<1> QED BY <1>1, GrownEmpty DEF Init, Nested, Phases

(* Every step keeps the tables nested. *)
LEMMA NestedNext == Nested /\ [Next]_vars => Nested'
<1> SUFFICES ASSUME Nested, [Next]_vars PROVE Nested'
  OBVIOUS
<1>1. CASE BuildStep
  BY <1>1, BuildAbsentNested, BuildScalarNested, BuildStringNested, BuildTableNested,
     BuildStructNested, BuildBytesNested, BuildVectorNested, BuildKeyedNested, BuildArrayNested,
     BuildUnionNested, ReturnNested, JsonToBufNested DEF BuildStep
<1>2. CASE Verify
  <2>1. /\ frames' = frames /\ buffer' = buffer /\ phase' \in {"verified", "unverified"}
        /\ phase' = "unverified" => \E p \in Tables(buffer) : Nesting(buffer, p) > MaxDepth
    BY <1>2 DEF Verify
  <2> QED BY <2>1 DEF Nested, Phases
<1>3. CASE BufToJson
  <2>1. CASE Refuse("non-finite")
    BY <2>1, RefuseNested
  <2>2. CASE ~Refuse("non-finite")
    <3>1. frames' = frames /\ buffer' = Empty /\ phase' = "build"
      BY <1>3, <2>2 DEF BufToJson
    <3>2. {} \subseteq Tables(buffer) /\ Tables(Empty) = {}
      BY DEF Tables, Empty
    <3>3. Grown(frames, {})
      BY <3>2, GrownFewer DEF Nested
    <3> QED BY <3>1, <3>2, <3>3 DEF Nested, Phases
  <2> QED BY <2>1, <2>2
<1>4. CASE UNCHANGED vars
  BY <1>4 DEF vars, Nested
<1> QED BY <1>1, <1>2, <1>3, <1>4 DEF Next

(* OneLevelApart: of all the buffers that from_json builds, the verifier   *)
(* of the same max_depth refuses for their nesting those of max_depth + 1  *)
(* tables and no others.                                                   *)
THEOREM NestingOneLevelApart == Spec => []OneLevelApart
<1>1. Nested => OneLevelApart
  <2> SUFFICES ASSUME Nested PROVE OneLevelApart
    OBVIOUS
  <2>1. \A p \in Tables(buffer) : Nesting(buffer, p) \in Nat /\ Nesting(buffer, p) <= MaxDepth + 1
    BY NestingBounded DEF Nested
  <2>2. MaxDepth \in Nat
    BY DepthAssumption
  <2>3. \A n \in Nat : n <= MaxDepth + 1 /\ n > MaxDepth => n = MaxDepth + 1
    BY <2>2
  <2>4. \A p \in Tables(buffer) : Nesting(buffer, p) > MaxDepth => Nesting(buffer, p) = MaxDepth + 1
    BY <2>1, <2>3
  <2> QED BY <2>1, <2>4 DEF Nested, OneLevelApart
<1>2. Init => Nested
  BY NestedInit
<1>3. Nested /\ [Next]_vars => Nested'
  BY NestedNext
<1> QED BY <1>1, <1>2, <1>3, PTL DEF Spec
=============================================================================
