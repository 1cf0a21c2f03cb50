---------------------------- MODULE SqlCall_proofs ----------------------------
(***************************************************************************)
(* Theorems about SqlCall, for any catalog, any settings, any calls and    *)
(* any answers of the executor.                                            *)
(***************************************************************************)
EXTENDS SqlCall, SequenceTheorems, FiniteSetTheorems, TLAPS

-----------------------------------------------------------------------------
(***************************************************************************)
(* The parser: what every step of it keeps, and its one outcome, for any   *)
(* characters and any limits.                                              *)
(***************************************************************************)

(* The inductive invariant of the parser. *)
ParserInv ==
  /\ ParserTypeOK
  /\ Len(steps) <= MaxDepth
  /\ pc # "header" /\ ~Refused => Len(input) <= MaxLength
  /\ pc = "header" => steps = <<>>
  /\ pc \in {"selectors", "marked"} \/ Accepted => steps # <<>>
  /\ pc = "selectors" => steps[Len(steps)].kind \notin Marks
  /\ steps # <<>> => steps[1].kind \in Fields
  /\ \A n \in 2 .. Len(steps) :
       steps[n - 1].kind \in Marks => steps[n].kind \in Fields

-----------------------------------------------------------------------------
(* A part of the string is a string. *)
LEMMA PartOfString ==
  ASSUME NEW s \in Seq(Chars), NEW i \in Nat, NEW j \in Int, j <= Len(s)
  PROVE  SubSeq(s, i + 1, j) \in Seq(Chars)
<1>1. CASE j < i + 1
  <2>1. SubSeq(s, i + 1, j) = <<>>
    BY <1>1
  <2> QED BY <2>1
<1>2. CASE ~(j < i + 1)
  <2>1. i + 1 \in 1 .. Len(s) + 1 /\ j \in i .. Len(s)
    BY <1>2
  <2> QED BY <2>1
<1> QED BY <1>1, <1>2

(* A part that is one character. *)
LEMMA OneCharacter ==
  ASSUME NEW S, NEW s \in Seq(S), NEW i \in Nat, NEW j \in i .. Len(s), NEW c,
         SubSeq(s, i + 1, j) = <<c>>
  PROVE  j = i + 1 /\ s[j] = c
<1>1. i + 1 \in 1 .. Len(s) + 1 /\ j \in (i + 1) - 1 .. Len(s)
  OBVIOUS
<1>2. /\ Len(SubSeq(s, i + 1, j)) = j - (i + 1) + 1
      /\ \A k \in 1 .. j - (i + 1) + 1 : SubSeq(s, i + 1, j)[k] = s[i + 1 + k - 1]
  BY <1>1, SubSeqProperties
<1>3. Len(<<c>>) = 1 /\ <<c>>[1] = c
  OBVIOUS
<1>4. j = i + 1
  BY <1>2, <1>3
<1>5. 1 \in 1 .. j - (i + 1) + 1 /\ i + 1 + 1 - 1 = j
  BY <1>4
<1>6. SubSeq(s, i + 1, j)[1] = s[j]
  BY <1>2, <1>5
<1> QED BY <1>3, <1>4, <1>6

(* A call of parse begins. *)
LEMMA StartSound ==
  ASSUME NEW text \in Seq(Chars), StartParser(text)
  PROVE  ParserInv'
<1>1. <<>> \in Seq(Steps) /\ Len(<<>>) = 0 /\ <<>> \in Seq(Chars) /\ Len(text) \in Nat
  OBVIOUS
<1>2. ParserTypeOK'
  BY <1>1 DEF StartParser, ParserTypeOK, NoRoot, NoError, Strings
<1>3. Len(steps') <= MaxDepth /\ 2 .. Len(steps') = {}
  BY <1>1, CharsAssumption DEF StartParser
<1> QED BY <1>2, <1>3 DEF StartParser, ParserInv, Accepted

(* Before the first call there is nothing to read. *)
LEMMA ParserInitSound == ParserInit => ParserInv
<1> SUFFICES ASSUME ParserInit PROVE ParserInv
  OBVIOUS
<1>1. <<>> \in Seq(Steps) /\ Len(<<>>) = 0 /\ <<>> \in Seq(Chars)
  OBVIOUS
<1>2. ParserTypeOK
  BY <1>1 DEF ParserInit, ParserTypeOK, NoRoot, NoError, Strings
<1>3. Len(steps) <= MaxDepth /\ 2 .. Len(steps) = {}
  BY <1>1, CharsAssumption DEF ParserInit
<1> QED BY <1>2, <1>3 DEF ParserInit, ParserInv, Accepted

(* The string is refused. *)
LEMMA RefuseSound ==
  ASSUME ParserInv, NEW kind \in ErrorKinds, NEW at \in 0 .. Len(input), Refuse(kind, at)
  PROVE  ParserInv'
<1>1. Refused'
  BY DEF Refuse, Refused, NoError, ErrorKinds
<1>2. ParserTypeOK'
  BY DEF Refuse, ParserInv, ParserTypeOK
<1> QED BY <1>1, <1>2 DEF ParserInv, Refuse, Refused, Accepted

(* A step is added. *)
LEMMA PushSound ==
  ASSUME ParserInv, NEW step \in Steps, NEW end \in 0 .. Len(input),
         NEW next \in {"selectors", "marked"}, Push(step, end, next),
         pc \in {"segment", "selectors"},
         pc = "segment" => step.kind \in Fields,
         next = "selectors" => step.kind \notin Marks,
         ~Refused
  PROVE  ParserInv'
<1>1. CASE Len(steps) = MaxDepth
  <2>1. Refuse("PathTooDeep", end)
    BY <1>1 DEF Push
  <2> QED BY <2>1, RefuseSound DEF ErrorKinds
<1>2. CASE Len(steps) # MaxDepth
  <2>1. steps \in Seq(Steps) /\ Len(steps) \in Nat /\ MaxDepth \in Nat
    BY CharsAssumption DEF ParserInv, ParserTypeOK
  <2>2. /\ steps' = Append(steps, step) /\ pos' = end /\ pc' = next
        /\ UNCHANGED <<input, root, refusal>>
    BY <1>2 DEF Push
  <2>3. /\ steps' \in Seq(Steps) /\ Len(steps') = Len(steps) + 1
        /\ \A i \in 1 .. Len(steps) : steps'[i] = steps[i]
        /\ steps'[Len(steps) + 1] = step
        /\ steps' # <<>>
    BY <2>1, <2>2
  <2>4. ParserTypeOK'
    BY <2>2, <2>3 DEF ParserInv, ParserTypeOK
  <2>5. Len(steps') <= MaxDepth
    BY <1>2, <2>1, <2>3 DEF ParserInv
  <2>6. steps'[1].kind \in Fields
    <3>1. CASE steps = <<>>
      <4>1. pc = "segment" /\ Len(steps) = 0
        BY <3>1 DEF ParserInv
      <4> QED BY <4>1, <2>3
    <3>2. CASE steps # <<>>
      <4>1. 1 \in 1 .. Len(steps)
        BY <2>1, <3>2
      <4> QED BY <2>3, <3>2, <4>1 DEF ParserInv
    <3> QED BY <3>1, <3>2
  <2>7. \A n \in 2 .. Len(steps') : steps'[n - 1].kind \in Marks => steps'[n].kind \in Fields
    <3> SUFFICES ASSUME NEW n \in 2 .. Len(steps'), steps'[n - 1].kind \in Marks
                 PROVE  steps'[n].kind \in Fields
      OBVIOUS
    <3>1. n - 1 \in 1 .. Len(steps) /\ steps'[n - 1] = steps[n - 1]
      BY <2>1, <2>3
    <3>2. CASE n \in 2 .. Len(steps)
      <4>1. n \in 1 .. Len(steps) /\ steps'[n] = steps[n]
        BY <2>1, <2>3, <3>2
      <4> QED BY <3>1, <3>2, <4>1 DEF ParserInv
    <3>3. CASE n = Len(steps) + 1
      <4>1. steps[Len(steps)].kind \in Marks /\ steps'[n] = step
        BY <2>1, <2>3, <3>1, <3>3
      <4>2. pc = "segment"
        BY <4>1 DEF ParserInv
      <4> QED BY <4>1, <4>2
    <3> QED BY <2>1, <2>3, <3>2, <3>3
  <2>8. next = "selectors" => steps'[Len(steps')].kind \notin Marks
    BY <2>1, <2>3
  <2> QED BY <2>2, <2>3, <2>4, <2>5, <2>6, <2>7, <2>8 DEF ParserInv, Accepted, Refused
<1> QED BY <1>1, <1>2

-----------------------------------------------------------------------------
(* The header. *)

(* Offsets that split the string. *)
LEMMA SplitOffsets ==
  ASSUME ParserInv, NEW t, NEW p, Splits(t, p)
  PROVE  /\ t \in 0 .. Len(input) /\ p \in 1 .. Len(input) /\ t < p
         /\ Len(input) \in Nat
BY DEF ParserInv, ParserTypeOK, Strings, Splits, Colons

LEMMA RefuseHeaderSound == ParserInv /\ RefuseHeader => ParserInv'
<1> SUFFICES ASSUME ParserInv, RefuseHeader PROVE ParserInv'
  OBVIOUS
<1>1. Len(input) \in Nat
  BY DEF ParserInv, ParserTypeOK, Strings
<1>2. CASE RefuseLong
  BY <1>1, <1>2, RefuseSound DEF RefuseLong, ErrorKinds
<1>3. CASE RefuseNoColon
  BY <1>1, <1>3, RefuseSound DEF RefuseNoColon, ErrorKinds
<1>4. CASE RefuseColons
  BY <1>1, <1>4, RefuseSound DEF RefuseColons, ErrorKinds
<1>5. CASE RefuseEmptyPart
  <2>1. PICK t, p \in 0 .. Len(input) : \E i \in {0, t, p} : Refuse("EmptyComponent", i)
    BY <1>5 DEF RefuseEmptyPart
  <2> QED BY <1>1, <2>1, RefuseSound DEF ErrorKinds
<1>6. CASE RefuseTable
  <2>0. PICK t, p \in 0 .. Len(input) : \E i \in t + 1 .. p :
          /\ WholeParts(t, p)
          /\ IF i = p THEN Refuse("EmptyComponent", p - 1)
             ELSE TableError(t, i) # "none" /\ Refuse(TableError(t, i), i - 1)
    BY <1>6 DEF RefuseTable
  <2>1. PICK i \in t + 1 .. p :
          /\ WholeParts(t, p)
          /\ IF i = p THEN Refuse("EmptyComponent", p - 1)
             ELSE TableError(t, i) # "none" /\ Refuse(TableError(t, i), i - 1)
    BY <2>0
  <2>2. p - 1 \in 0 .. Len(input) /\ i - 1 \in 0 .. Len(input)
    BY <2>1, SplitOffsets DEF WholeParts
  <2>3. TableError(t, i) \in ErrorKinds \cup {"none"}
    BY DEF TableError, ErrorKinds
  <2> QED BY <2>1, <2>2, <2>3, RefuseSound DEF ErrorKinds
<1>7. CASE RefuseSchema
  <2>0. PICK t \in 0 .. Len(input) : \E i \in 1 .. t - 1 :
          SchemaError(i) # "none" /\ Refuse(SchemaError(i), i - 1)
    BY <1>7 DEF RefuseSchema
  <2>1. PICK i \in 1 .. t - 1 : SchemaError(i) # "none" /\ Refuse(SchemaError(i), i - 1)
    BY <2>0
  <2>2. i - 1 \in 0 .. Len(input)
    BY <1>1, <2>1
  <2>3. SchemaError(i) \in ErrorKinds \cup {"none"}
    BY DEF SchemaError, ErrorKinds
  <2> QED BY <2>1, <2>2, <2>3, RefuseSound
<1> QED BY <1>2, <1>3, <1>4, <1>5, <1>6, <1>7 DEF RefuseHeader

LEMMA ReadHeaderSound == ParserInv /\ ReadHeader => ParserInv'
<1> SUFFICES ASSUME ParserInv, ReadHeader PROVE ParserInv'
  OBVIOUS
<1>1. PICK t, p \in 0 .. Len(input) :
        /\ WholeParts(t, p)
        /\ root' = [schema |-> Text(0, t - 1), table |-> Text(t, p - 1)]
        /\ pos' = p
  BY DEF ReadHeader
<1>2. input \in Seq(Chars) /\ Len(input) \in Nat /\ t \in Nat /\ t - 1 \in Int /\ p - 1 \in Int
      /\ t - 1 <= Len(input) /\ p - 1 <= Len(input)
  BY DEF ParserInv, ParserTypeOK, Strings
<1>3. Text(0, t - 1) \in Strings /\ Text(t, p - 1) \in Strings
  BY <1>2, PartOfString DEF Text, Strings
<1>4. ParserTypeOK'
  BY <1>1, <1>3 DEF ReadHeader, ParserInv, ParserTypeOK
<1>5. Len(input') <= MaxLength
  BY DEF ReadHeader, InHeader
<1> QED BY <1>4, <1>5 DEF ReadHeader, InHeader, ParserInv, Accepted, Refused

-----------------------------------------------------------------------------
(* The path. *)

(* While the path is read, nothing was refused. *)
Reading == pc \in {"segment", "selectors", "marked"} => ~Refused

LEMMA ParseFieldSound == ParserInv /\ Reading /\ ParseField => ParserInv'
<1> SUFFICES ASSUME ParserInv, Reading, ParseField PROVE ParserInv'
  OBVIOUS
<1>1. /\ input \in Seq(Chars) /\ pos \in 0 .. Len(input) /\ Len(input) \in Nat
      /\ pc = "segment" /\ ~Refused
  BY DEF ParserInv, ParserTypeOK, Strings, Reading, ParseField, FieldByName, FieldById, RefuseField, AtSegment
<1>2. CASE FieldByName
  <2>1. PICK end \in pos .. Len(input) : Push(Step("name", Text(pos, end), 0), end, "selectors")
    BY <1>2 DEF FieldByName
  <2> DEFINE step == Step("name", Text(pos, end), 0)
  <2>2. Text(pos, end) \in Strings
    BY <1>1, PartOfString DEF Text, Strings
  <2>3. step \in Steps /\ step.kind \in Fields /\ step.kind \notin Marks /\ end \in 0 .. Len(input)
    BY <1>1, <2>2, CharsAssumption DEF Step, Steps, StepKinds, Fields, Marks
  <2> HIDE DEF step
  <2> QED BY <1>1, <2>1, <2>3, PushSound DEF step
<1>3. CASE FieldById
  <2>1. PICK end \in pos + 1 .. Len(input) :
          \/ /\ Number(Text(pos + 1, end)) \in 0 .. MaxId
             /\ Push(Step("id", <<>>, Number(Text(pos + 1, end))), end, "selectors")
          \/ Refuse("InvalidFieldId", pos)
    BY <1>3 DEF FieldById
  <2>2. CASE Refuse("InvalidFieldId", pos)
    BY <1>1, <2>2, RefuseSound DEF ErrorKinds
  <2>3. ASSUME NEW n \in 0 .. MaxId, Push(Step("id", <<>>, n), end, "selectors")
        PROVE  ParserInv'
    <3> DEFINE step == Step("id", <<>>, n)
    <3>1. step \in Steps /\ step.kind \in Fields /\ step.kind \notin Marks /\ end \in 0 .. Len(input)
      <4>1. <<>> \in Strings
        BY DEF Strings
      <4> QED BY <1>1, <4>1 DEF Step, Steps, StepKinds, Fields, Marks
    <3> HIDE DEF step
    <3> QED BY <1>1, <2>3, <3>1, PushSound DEF step
  <2> QED BY <2>1, <2>2, <2>3
<1>4. CASE RefuseField
  BY <1>1, <1>4, RefuseSound DEF RefuseField, ErrorKinds
<1> QED BY <1>2, <1>3, <1>4 DEF ParseField

LEMMA ParseBracketSound == ParserInv /\ Reading /\ ParseBracket => ParserInv'
<1> SUFFICES ASSUME ParserInv, Reading, ParseBracket PROVE ParserInv'
  OBVIOUS
<1>1. /\ input \in Seq(Chars) /\ pos \in 0 .. Len(input) /\ Len(input) \in Nat
      /\ pc = "selectors" /\ ~Refused
      /\ pos < Len(input)
  BY DEF ParserInv, ParserTypeOK, Strings, Reading, ParseBracket, RefuseUnclosed, RefuseEmptyBracket,
         BracketAll, BracketIndex, BracketKey, AtBracket, Sees, More
<1>2. CASE RefuseUnclosed \/ RefuseEmptyBracket
  BY <1>1, <1>2, RefuseSound DEF RefuseUnclosed, RefuseEmptyBracket, ErrorKinds
<1>3. ASSUME NEW step \in Steps, step.kind \notin Marks, NEW end \in 0 .. Len(input),
             Push(step, end, "selectors")
      PROVE  ParserInv'
  BY <1>1, <1>3, PushSound
<1>4. CASE BracketAll
  <2>1. <<>> \in Strings /\ 0 \in 0 .. MaxId
    BY CharsAssumption DEF Strings
  <2>2. Step("all", <<>>, 0) \in Steps /\ Step("all", <<>>, 0).kind \notin Marks
    BY <2>1 DEF Step, Steps, StepKinds, Marks
  <2>3. pos + 3 \in 0 .. Len(input)
    BY <1>1, <1>4 DEF BracketAll, Closes
  <2> QED BY <1>3, <1>4, <2>2, <2>3 DEF BracketAll
<1>5. CASE BracketIndex
  <2>0. PICK close \in pos + 3 .. Len(input) :
          \E n : \/ n \in 0 .. MaxIndex /\ Push(Step("index", <<>>, n), close, "selectors")
                \/ Refuse("IndexTooLarge", pos + 1)
    BY <1>5 DEF BracketIndex
  <2>1. PICK n :
          \/ n \in 0 .. MaxIndex /\ Push(Step("index", <<>>, n), close, "selectors")
          \/ Refuse("IndexTooLarge", pos + 1)
    BY <2>0
  <2>2. CASE Refuse("IndexTooLarge", pos + 1)
    BY <1>1, <2>2, RefuseSound DEF ErrorKinds
  <2>3. CASE n \in 0 .. MaxIndex /\ Push(Step("index", <<>>, n), close, "selectors")
    <3>1. <<>> \in Strings
      BY DEF Strings
    <3>2. Step("index", <<>>, n) \in Steps /\ Step("index", <<>>, n).kind \notin Marks
      BY <2>3, <3>1 DEF Step, Steps, StepKinds, Marks
    <3>3. close \in 0 .. Len(input)
      BY <1>1
    <3> QED BY <1>3, <2>3, <3>2, <3>3
  <2> QED BY <2>1, <2>2, <2>3
<1>6. CASE BracketKey
  <2>1. PICK close \in pos + 3 .. Len(input) :
          Push(Step("key", Text(pos + 1, close - 1), 0), close, "selectors")
    BY <1>6 DEF BracketKey
  <2>2. Text(pos + 1, close - 1) \in Strings
    BY <1>1, PartOfString DEF Text, Strings
  <2>3. Step("key", Text(pos + 1, close - 1), 0) \in Steps
        /\ Step("key", Text(pos + 1, close - 1), 0).kind \notin Marks
    BY <2>2, CharsAssumption DEF Step, Steps, StepKinds, Marks
  <2>4. close \in 0 .. Len(input)
    BY <1>1
  <2> QED BY <1>3, <2>1, <2>3, <2>4
<1> QED BY <1>2, <1>4, <1>5, <1>6 DEF ParseBracket

LEMMA PipeSound == ParserInv /\ Reading /\ Pipe => ParserInv'
<1> SUFFICES ASSUME ParserInv, Reading, Pipe PROVE ParserInv'
  OBVIOUS
<1>1. /\ input \in Seq(Chars) /\ pos \in 0 .. Len(input) /\ Len(input) \in Nat
      /\ pc = "selectors" /\ ~Refused
  BY DEF ParserInv, ParserTypeOK, Strings, Reading, Pipe, AtPipe
<1>2. PICK end \in pos + 1 .. Len(input) :
        \/ /\ \E mark \in Marks : Text(pos + 1, end) = <<mark>>
           /\ Push(Step(input[end], <<>>, 0), end, "marked")
        \/ Refuse("UnknownPipeKeyword", pos)
  BY DEF Pipe
<1>3. CASE Refuse("UnknownPipeKeyword", pos)
  BY <1>1, <1>3, RefuseSound DEF ErrorKinds
<1>4. ASSUME NEW mark \in Marks, Text(pos + 1, end) = <<mark>>, Push(Step(input[end], <<>>, 0), end, "marked")
      PROVE  ParserInv'
  <2>1. end = pos + 2 /\ input[end] = mark
    <3>1. pos + 1 \in Nat /\ end \in pos + 1 .. Len(input) /\ SubSeq(input, (pos + 1) + 1, end) = <<mark>>
      BY <1>1, <1>4 DEF Text
    <3>2. end = (pos + 1) + 1 /\ input[end] = mark
      BY <1>1, <3>1, OneCharacter
    <3> QED BY <1>1, <3>2
  <2>2. <<>> \in Strings /\ 0 \in 0 .. MaxId
    BY CharsAssumption DEF Strings
  <2>3. Step(mark, <<>>, 0) \in Steps
    BY <2>2 DEF Step, Steps, StepKinds
  <2>4. end \in 0 .. Len(input)
    BY <1>1
  <2> QED BY <1>1, <1>4, <2>1, <2>3, <2>4, PushSound
<1> QED BY <1>2, <1>3, <1>4

(* A refusal, a dot, or the end, after the steps of a segment. *)
LEMMA AfterSegmentSound ==
  ParserInv /\ Reading /\ (RefuseAfterPipe \/ RefuseAfterSegment \/ Dot \/ Accept) => ParserInv'
<1> SUFFICES ASSUME ParserInv, Reading, RefuseAfterPipe \/ RefuseAfterSegment \/ Dot \/ Accept
             PROVE  ParserInv'
  OBVIOUS
<1>1. /\ pos \in 0 .. Len(input) /\ Len(input) \in Nat
      /\ pc \in {"selectors", "marked"} /\ ~Refused
  BY DEF ParserInv, ParserTypeOK, Strings, Reading, RefuseAfterPipe, RefuseAfterSegment, Dot, Accept, AfterSegment
<1>2. CASE RefuseAfterPipe \/ RefuseAfterSegment
  BY <1>1, <1>2, RefuseSound DEF RefuseAfterPipe, RefuseAfterSegment, ErrorKinds
<1>3. CASE Dot
  <2>1. pos + 1 \in 0 .. Len(input)
    BY <1>1, <1>3 DEF Dot, Sees, More
  <2>2. CASE Refuse("ExpectedIdentifier", pos + 1)
    BY <2>1, <2>2, RefuseSound DEF ErrorKinds
  <2>3. CASE pos' = pos + 1 /\ pc' = "segment" /\ UNCHANGED <<input, root, steps, refusal>>
    BY <1>1, <2>1, <2>3 DEF ParserInv, ParserTypeOK, Accepted, Refused
  <2> QED BY <1>3, <2>2, <2>3 DEF Dot
<1>4. CASE Accept
  BY <1>1, <1>4 DEF Accept, ParserInv, ParserTypeOK, Accepted, Refused
<1> QED BY <1>2, <1>3, <1>4

-----------------------------------------------------------------------------
(* While the path is read, nothing was refused, and nothing in the header. *)
Unrefused == pc # "end" => ~Refused

(* Every step of the parser keeps its invariant. *)
LEMMA ParserNextSound ==
  ASSUME ParserInv, Unrefused, ParserNext
  PROVE  ParserInv' /\ Unrefused'
<1>1. Reading
  BY DEF Unrefused, Reading
<1>2. ParserInv'
  BY <1>1, RefuseHeaderSound, ReadHeaderSound, ParseFieldSound, ParseBracketSound, PipeSound,
     AfterSegmentSound DEF ParserNext
<1>3. Unrefused'
  <2>1. ASSUME NEW kind, NEW at, Refuse(kind, at) PROVE Unrefused'
    BY <2>1 DEF Refuse, Unrefused
  <2>2. ASSUME NEW step, NEW end, NEW next, Push(step, end, next), ~Refused PROVE Unrefused'
    BY <2>1, <2>2 DEF Push, Unrefused, Refused
  <2>3. CASE RefuseHeader
    BY <2>1, <2>3 DEF RefuseHeader, RefuseLong, RefuseNoColon, RefuseColons, RefuseEmptyPart,
                      RefuseTable, RefuseSchema
  <2>4. CASE ReadHeader \/ Dot \/ Accept
    <3>1. pc # "end"
      BY <2>4 DEF ReadHeader, InHeader, Dot, Accept, AfterSegment
    <3> QED BY <2>1, <2>4, <3>1 DEF ReadHeader, Dot, Accept, Unrefused, Refused
  <2>5. CASE ParseField
    <3>1. ~Refused
      BY <2>5 DEF ParseField, FieldByName, FieldById, RefuseField, AtSegment, Unrefused
    <3> QED BY <2>1, <2>2, <2>5, <3>1 DEF ParseField, FieldByName, FieldById, RefuseField
  <2>6. CASE ParseBracket
    <3>1. ~Refused
      BY <2>6 DEF ParseBracket, RefuseUnclosed, RefuseEmptyBracket, BracketAll, BracketIndex,
                  BracketKey, AtBracket, Unrefused
    <3> QED BY <2>1, <2>2, <2>6, <3>1 DEF ParseBracket, RefuseUnclosed, RefuseEmptyBracket, BracketAll,
                                          BracketIndex, BracketKey
  <2>7. CASE Pipe
    <3>1. ~Refused
      BY <2>7 DEF Pipe, AtPipe, Unrefused
    <3> QED BY <2>1, <2>2, <2>7, <3>1 DEF Pipe
  <2>8. CASE RefuseAfterPipe \/ RefuseAfterSegment
    BY <2>1, <2>8 DEF RefuseAfterPipe, RefuseAfterSegment
  <2> QED BY <2>3, <2>4, <2>5, <2>6, <2>7, <2>8 DEF ParserNext
<1> QED BY <1>2, <1>3
-----------------------------------------------------------------------------
(***************************************************************************)
(* One outcome. The string and what the parser has come to decide what it  *)
(* does next: the alternatives of ParserNext exclude one another.          *)
(***************************************************************************)
(* The operators of the parser, of any string and any place in it.         *)
At(x, i) == INSTANCE QueryParser
  WITH input <- x, pos <- i, pc <- "header", root <- NoRoot, steps <- <<>>, refusal <- NoError

(* What the parser has come to. *)
Config(at, state, header, path, refused) ==
  [at |-> at, state |-> state, header |-> header, path |-> path, refused |-> refused]

Here == Config(pos, pc, root, steps, Refused)

Configs(x) ==
  [at : 0 .. Len(x), state : {"header", "segment", "selectors", "marked", "end"},
   header : [schema : Strings, table : Strings], path : Seq(Steps), refused : BOOLEAN]

Start == Config(0, "header", NoRoot, <<>>, FALSE)

Rejected(c) == Config(c.at, "end", c.header, c.path, TRUE)

Pushed(c, step, end, next) ==
  IF Len(c.path) = MaxDepth THEN Rejected(c)
  ELSE Config(end, next, c.header, Append(c.path, step), c.refused)

(* A header that is read, with its table after t and its path after p. *)
Heads(x, t, p) ==
  /\ Len(x) <= MaxLength
  /\ t \in 0 .. Len(x) /\ p \in 0 .. Len(x)
  /\ At(x, 0)!WholeParts(t, p) /\ At(x, 0)!TableIsName(t, p)
  /\ \A i \in 1 .. t - 1 : At(x, 0)!SchemaError(i) = "none"

PathAt(x) == CHOOSE p : \E t : Heads(x, t, p)
TableAt(x) == CHOOSE t : \E p : Heads(x, t, p)

AfterHeader(x, c) ==
  IF \E t, p : Heads(x, t, p)
  THEN Config(PathAt(x), "segment",
              [schema |-> SubSeq(x, 1, TableAt(x) - 1),
               table |-> SubSeq(x, TableAt(x) + 1, PathAt(x) - 1)], c.path, c.refused)
  ELSE Rejected(c)

(* The end of a run of characters of S that follow the i-th. *)
RunEnd(x, i, S) == CHOOSE j : At(x, 0)!RunEnds(i, j, S)

FieldNamed(x, c, end) == Pushed(c, Step("name", SubSeq(x, c.at + 1, end), 0), end, "selectors")

FieldNumbered(x, c, end) ==
  IF end > c.at + 1 /\ Number(SubSeq(x, c.at + 2, end)) \in 0 .. MaxId
  THEN Pushed(c, Step("id", <<>>, Number(SubSeq(x, c.at + 2, end))), end, "selectors")
  ELSE Rejected(c)

AfterField(x, c) ==
  IF c.at < Len(x) /\ x[c.at + 1] \in IdentStart THEN FieldNamed(x, c, RunEnd(x, c.at, IdentCont))
  ELSE IF c.at < Len(x) /\ x[c.at + 1] = "#" THEN FieldNumbered(x, c, RunEnd(x, c.at + 1, Digits))
  ELSE Rejected(c)

Close(x, i) == CHOOSE close : At(x, i)!Closes(close)

Bracketed(x, c, close) ==
  LET text == SubSeq(x, c.at + 2, close - 1) IN
  IF close = c.at + 2 THEN Rejected(c)
  ELSE IF IsNumeral(text)
    THEN IF Number(text) \in 0 .. MaxIndex
         THEN Pushed(c, Step("index", <<>>, Number(text)), close, "selectors")
         ELSE Rejected(c)
  ELSE IF text = <<"*">> THEN Pushed(c, Step("all", <<>>, 0), close, "selectors")
  ELSE Pushed(c, Step("key", text, 0), close, "selectors")

AfterBracket(x, c) ==
  IF \E close : At(x, c.at)!Closes(close) THEN Bracketed(x, c, Close(x, c.at)) ELSE Rejected(c)

Piped(x, c, end) ==
  IF \E mark \in Marks : SubSeq(x, c.at + 2, end) = <<mark>>
  THEN Pushed(c, Step(x[end], <<>>, 0), end, "marked")
  ELSE Rejected(c)

AfterSelectors(x, c) ==
  IF ~(c.at < Len(x)) THEN Config(c.at, "end", c.header, c.path, c.refused)
  ELSE IF x[c.at + 1] = "." THEN
    IF c.at + 1 = Len(x) THEN Rejected(c)
    ELSE Config(c.at + 1, "segment", c.header, c.path, c.refused)
  ELSE IF c.state = "marked" THEN Rejected(c)
  ELSE IF x[c.at + 1] = "[" THEN AfterBracket(x, c)
  ELSE IF x[c.at + 1] = "|" THEN Piped(x, c, RunEnd(x, c.at + 1, Letters))
  ELSE Rejected(c)

(* What the parser comes to next. *)
After(x, c) ==
  IF c.state = "header" THEN AfterHeader(x, c)
  ELSE IF c.state = "segment" THEN AfterField(x, c)
  ELSE AfterSelectors(x, c)

(* A refusal leads to a configuration that ends. *)
LEMMA RefuseIs ==
  ASSUME NEW kind, NEW at, kind # "none", Refuse(kind, at)
  PROVE  Here' = Rejected(Here)
<1>1. Refused'
  BY DEF Refuse, Refused, NoError
<1> QED BY <1>1 DEF Refuse, Here, Rejected, Config

LEMMA PushIs ==
  ASSUME NEW step, NEW end, NEW next, Push(step, end, next)
  PROVE  Here' = Pushed(Here, step, end, next)
<1>1. CASE Len(steps) = MaxDepth
  <2>1. Refuse("PathTooDeep", end)
    BY <1>1 DEF Push
  <2>2. Here' = Rejected(Here)
    BY <2>1, RefuseIs
  <2> QED BY <1>1, <2>2 DEF Pushed, Here, Config
<1>2. CASE Len(steps) # MaxDepth
  <2>1. steps' = Append(steps, step) /\ pos' = end /\ pc' = next /\ UNCHANGED <<root, refusal>>
    BY <1>2 DEF Push
  <2> QED BY <1>2, <2>1 DEF Pushed, Here, Config, Refused
<1> QED BY <1>1, <1>2

-----------------------------------------------------------------------------
(* The parts of a string. *)

LEMMA InputIs ==
  ASSUME ParserTypeOK
  PROVE  /\ input \in Seq(Chars) /\ Len(input) \in Nat /\ pos \in 0 .. Len(input)
         /\ DOMAIN input = 1 .. Len(input)
BY DEF ParserTypeOK, Strings

(* A part that is one character long. *)
LEMMA OneLong ==
  ASSUME NEW S, NEW s \in Seq(S), NEW i \in 1 .. Len(s)
  PROVE  SubSeq(s, i, i) = <<s[i]>>
<1>1. i \in 1 .. Len(s) + 1 /\ i \in i - 1 .. Len(s)
  OBVIOUS
<1>2. /\ SubSeq(s, i, i) \in Seq(S) /\ Len(SubSeq(s, i, i)) = i - i + 1
      /\ \A k \in 1 .. i - i + 1 : SubSeq(s, i, i)[k] = s[i + k - 1]
  BY <1>1, SubSeqProperties
<1>3. i - i + 1 = 1 /\ i + 1 - 1 = i /\ 1 \in 1 .. i - i + 1
  OBVIOUS
<1>4. Len(SubSeq(s, i, i)) = 1 /\ SubSeq(s, i, i)[1] = s[i]
  BY <1>2, <1>3
<1>5. ASSUME NEW q \in Seq(S), NEW c, Len(q) = 1, q[1] = c
      PROVE  q = <<c>>
  BY <1>5
<1> QED BY <1>2, <1>4, <1>5

(* A string is split in one way. *)
LEMMA OneHead ==
  ASSUME NEW x \in Seq(Chars), NEW t, NEW p, Heads(x, t, p), NEW u, NEW q, Heads(x, u, q)
  PROVE  t = u /\ p = q
<1>1. /\ At(x, 0)!Splits(t, p) /\ At(x, 0)!Splits(u, q)
      /\ t \in Nat /\ p \in Nat /\ u \in Nat /\ q \in Nat
  BY DEF Heads, At!WholeParts
<1>2. /\ p \in At(x, 0)!Colons /\ q \in At(x, 0)!Colons
      /\ t \in At(x, 0)!Colons \cup {0} /\ u \in At(x, 0)!Colons \cup {0}
      /\ t < p /\ u < q
      /\ At(x, 0)!Colons \subseteq {t, p} /\ At(x, 0)!Colons \subseteq {u, q}
  BY <1>1 DEF At!Splits
<1>3. p = q
  <2>1. p \in {u, q} /\ q \in {t, p}
    BY <1>2
  <2> QED BY <1>1, <1>2, <2>1
<1>4. 0 \notin At(x, 0)!Colons
  BY DEF At!Colons
<1> QED BY <1>1, <1>2, <1>3, <1>4

LEMMA HeadAt ==
  ASSUME NEW x \in Seq(Chars), NEW t, NEW p, Heads(x, t, p)
  PROVE  PathAt(x) = p /\ TableAt(x) = t
<1>1. \E u : Heads(x, u, PathAt(x))
  BY DEF PathAt
<1>2. \E q : Heads(x, TableAt(x), q)
  BY DEF TableAt
<1> QED BY <1>1, <1>2, OneHead

(* What is read of the header, as the parser puts it. *)
LEMMA HeadsIs ==
  ASSUME NEW t, NEW p, InHeader
  PROVE  Heads(input, t, p) <=>
           /\ t \in 0 .. Len(input) /\ p \in 0 .. Len(input)
           /\ WholeParts(t, p) /\ TableIsName(t, p)
           /\ \A i \in 1 .. t - 1 : SchemaError(i) = "none"
<1>1. At(input, 0)!WholeParts(t, p) <=> WholeParts(t, p)
  BY DEF At!WholeParts, WholeParts, At!Splits, Splits, At!Colons, Colons, At!EmptyAt, EmptyAt
<1>2. At(input, 0)!IdentStart = IdentStart /\ At(input, 0)!IdentCont = IdentCont
  BY DEF At!IdentStart, IdentStart, At!IdentCont, IdentCont, At!Digits, Digits
<1>3. \A i : At(input, 0)!Begins(t, i) <=> Begins(t, i)
  BY DEF At!Begins, Begins
<1>4. \A i : At(input, 0)!TableError(t, i) = TableError(t, i)
  BY <1>2, <1>3 DEF At!TableError, TableError
<1>5. At(input, 0)!TableIsName(t, p) <=> TableIsName(t, p)
  BY <1>4 DEF At!TableIsName, TableIsName
<1>6. \A i : At(input, 0)!SchemaError(i) = SchemaError(i)
  BY <1>2 DEF At!SchemaError, SchemaError
<1> QED BY <1>1, <1>5, <1>6 DEF Heads, InHeader

(* A run of characters ends at one place. *)
LEMMA OneEnd ==
  ASSUME NEW i \in Nat, NEW j, NEW S, RunEnds(i, j, S), ParserTypeOK
  PROVE  RunEnd(input, i, S) = j
<1>1. ASSUME NEW k
      PROVE  At(input, 0)!RunEnds(i, k, S) <=> RunEnds(i, k, S)
  BY DEF At!RunEnds, RunEnds
<1>2. ASSUME NEW k, NEW l, RunEnds(i, k, S), RunEnds(i, l, S), k < l
      PROVE  FALSE
  <2>1. k \in Nat /\ l \in Nat /\ i <= k /\ l <= Len(input) /\ Len(input) \in Nat
    BY <1>2, InputIs DEF RunEnds
  <2>2. k + 1 \in i + 1 .. l /\ k < Len(input)
    BY <1>2, <2>1
  <2> QED BY <1>2, <2>2 DEF RunEnds
<1>3. ASSUME NEW k, RunEnds(i, k, S)
      PROVE  k = j
  <2>1. k \in Int /\ j \in Int
    BY <1>3 DEF RunEnds
  <2> QED BY <1>2, <1>3, <2>1
<1> QED BY <1>1, <1>3 DEF RunEnd

(* And a bracket at one. *)
LEMMA ClosesIs == \A close : At(input, pos)!Closes(close) <=> Closes(close)
BY DEF At!Closes, Closes

LEMMA OneClose ==
  ASSUME NEW close, Closes(close), ParserTypeOK
  PROVE  Close(input, pos) = close
<1>1. ASSUME NEW k, NEW l, Closes(k), Closes(l)
      PROVE  ~(k < l)
  <2>1. k \in Int /\ l \in Int /\ pos \in Int
    BY <1>1, InputIs DEF Closes
  <2> QED BY <1>1, <2>1 DEF Closes
<1>2. ASSUME NEW k, Closes(k)
      PROVE  k = close
  <2>1. k \in Int /\ close \in Int
    BY <1>2 DEF Closes
  <2> QED BY <1>1, <1>2, <2>1
<1> QED BY <1>2, ClosesIs DEF Close

-----------------------------------------------------------------------------
(* Each action leads where After says. *)

LEMMA HereIs ==
  /\ Here.at = pos /\ Here.state = pc /\ Here.header = root
  /\ Here.path = steps /\ Here.refused = Refused
BY DEF Here, Config

LEMMA HeaderRefusedIs ==
  ASSUME ParserTypeOK, RefuseHeader
  PROVE  Here' = After(input, Here)
<1>1. pc = "header" /\ Here' = Rejected(Here)
  <2>1. pc = "header"
    BY DEF RefuseHeader, RefuseLong, RefuseNoColon, RefuseColons, RefuseEmptyPart, RefuseTable,
           RefuseSchema, InHeader
  <2>2. \E kind, at : kind # "none" /\ Refuse(kind, at)
    BY DEF RefuseHeader, RefuseLong, RefuseNoColon, RefuseColons, RefuseEmptyPart, RefuseTable,
           RefuseSchema
  <2> QED BY <2>1, <2>2, RefuseIs
<1>2. ASSUME NEW t, NEW p, Heads(input, t, p)
      PROVE  FALSE
  <2>1. Len(input) <= MaxLength /\ Len(input) \in Nat /\ MaxLength \in Nat
    BY <1>2, InputIs, CharsAssumption DEF Heads
  <2>2. InHeader
    BY <1>1, <2>1 DEF InHeader
  <2>3. /\ WholeParts(t, p) /\ TableIsName(t, p)
        /\ \A i \in 1 .. t - 1 : SchemaError(i) = "none"
    BY <1>2, <2>2, HeadsIs
  <2>4. ASSUME NEW u \in 0 .. Len(input), NEW q \in 0 .. Len(input), Splits(u, q)
        PROVE  u = t /\ q = p
    <3>1. /\ p \in Colons /\ q \in Colons /\ t \in Colons \cup {0} /\ u \in Colons \cup {0}
          /\ t < p /\ u < q /\ Colons \subseteq {t, p} /\ Colons \subseteq {u, q}
          /\ 0 \notin Colons /\ Colons \subseteq Int
      BY <2>3, <2>4, InputIs DEF WholeParts, Splits, Colons
    <3>2. p = q
      BY <3>1
    <3> QED BY <3>1, <3>2
  <2>5. ~RefuseLong
    BY <2>1 DEF RefuseLong
  <2>6. ~RefuseNoColon
    BY <2>3 DEF RefuseNoColon, WholeParts, Splits
  <2>7. ~RefuseColons
    <3>1. Colons \subseteq {t, p} /\ Colons \subseteq Int
      BY <2>3, InputIs DEF WholeParts, Splits, Colons
    <3> QED BY <3>1 DEF RefuseColons
  <2>8. ~RefuseEmptyPart
    BY <2>3, <2>4 DEF RefuseEmptyPart, WholeParts
  <2>9. ~RefuseTable
    BY <2>3, <2>4 DEF RefuseTable, WholeParts
  <2>10. ~RefuseSchema
    BY <2>3, <2>4 DEF RefuseSchema, WholeParts
  <2> QED BY <2>5, <2>6, <2>7, <2>8, <2>9, <2>10 DEF RefuseHeader
<1> QED BY <1>1, <1>2, HereIs DEF After, AfterHeader

LEMMA HeaderReadIs ==
  ASSUME ParserTypeOK, ReadHeader
  PROVE  Here' = After(input, Here)
<1>1. PICK t, p \in 0 .. Len(input) :
        /\ WholeParts(t, p) /\ TableIsName(t, p)
        /\ \A i \in 1 .. t - 1 : SchemaError(i) = "none"
        /\ root' = [schema |-> Text(0, t - 1), table |-> Text(t, p - 1)]
        /\ pos' = p
  BY DEF ReadHeader
<1>2. Heads(input, t, p)
  BY <1>1, HeadsIs DEF ReadHeader
<1>3. PathAt(input) = p /\ TableAt(input) = t
  BY <1>2, HeadAt, InputIs
<1>4. root' = [schema |-> SubSeq(input, 1, t - 1), table |-> SubSeq(input, t + 1, p - 1)]
  BY <1>1 DEF Text
<1>5. After(input, Here) = Config(p, "segment", root', steps, Refused)
  <2>1. pc = "header"
    BY DEF ReadHeader, InHeader
  <2> QED BY <1>2, <1>3, <1>4, <2>1, HereIs DEF After, AfterHeader
<1> QED BY <1>1, <1>5 DEF ReadHeader, Here, Refused

LEMMA FieldIs ==
  ASSUME ParserTypeOK, ParseField
  PROVE  Here' = After(input, Here)
<1>1. pc = "segment" /\ pos \in Nat /\ Len(input) \in Nat
  BY InputIs DEF ParseField, FieldByName, FieldById, RefuseField, AtSegment
<1>2. After(input, Here) = AfterField(input, Here)
  BY <1>1, HereIs DEF After
<1>3. "#" \notin IdentStart
  BY CharsAssumption DEF Punctuation, IdentStart
<1>4. CASE FieldByName
  <2>1. PICK end \in pos .. Len(input) :
          RunEnds(pos, end, IdentCont) /\ Push(Step("name", Text(pos, end), 0), end, "selectors")
    BY <1>4 DEF FieldByName
  <2>2. RunEnd(input, pos, IdentCont) = end
    BY <1>1, <2>1, OneEnd
  <2>3. pos < Len(input) /\ input[pos + 1] \in IdentStart
    BY <1>4 DEF FieldByName, More
  <2>4. Here' = Pushed(Here, Step("name", Text(pos, end), 0), end, "selectors")
    BY <2>1, PushIs
  <2>5. Here' = FieldNamed(input, Here, end)
    BY <2>4, HereIs DEF FieldNamed, Text
  <2> QED BY <1>2, <2>2, <2>3, <2>5, HereIs DEF AfterField
<1>5. CASE FieldById
  <2>1. PICK end \in pos + 1 .. Len(input) :
          /\ RunEnds(pos + 1, end, Digits)
          /\ IF end > pos + 1 /\ Number(Text(pos + 1, end)) \in 0 .. MaxId
             THEN Push(Step("id", <<>>, Number(Text(pos + 1, end))), end, "selectors")
             ELSE Refuse("InvalidFieldId", pos)
    BY <1>5 DEF FieldById
  <2>2. RunEnd(input, pos + 1, Digits) = end
    BY <1>1, <2>1, OneEnd
  <2>3. pos < Len(input) /\ input[pos + 1] = "#"
    BY <1>5 DEF FieldById, Sees, More
  <2>4. Text(pos + 1, end) = SubSeq(input, pos + 2, end)
    <3>1. pos + 1 + 1 = pos + 2
      BY <1>1
    <3> QED BY <3>1 DEF Text
  <2>5. Here' = FieldNumbered(input, Here, end)
    <3> DEFINE n == Number(Text(pos + 1, end))
    <3>1. CASE end > pos + 1 /\ n \in 0 .. MaxId
      <4>1. Here' = Pushed(Here, Step("id", <<>>, n), end, "selectors")
        BY <2>1, <3>1, PushIs
      <4> QED BY <2>4, <3>1, <4>1, HereIs DEF FieldNumbered
    <3>2. CASE ~(end > pos + 1 /\ n \in 0 .. MaxId)
      <4>1. Here' = Rejected(Here)
        BY <2>1, <3>2, RefuseIs
      <4> QED BY <2>4, <3>2, <4>1, HereIs DEF FieldNumbered
    <3> QED BY <3>1, <3>2
  <2> QED BY <1>2, <1>3, <2>2, <2>3, <2>5, HereIs DEF AfterField
<1>6. CASE RefuseField
  <2>1. Here' = Rejected(Here)
    BY <1>6, RefuseIs DEF RefuseField
  <2>2. ~(pos < Len(input) /\ input[pos + 1] \in IdentStart) /\ ~(pos < Len(input) /\ input[pos + 1] = "#")
    BY <1>6 DEF RefuseField, Sees, More
  <2> QED BY <1>2, <2>1, <2>2, HereIs DEF AfterField
<1> QED BY <1>4, <1>5, <1>6 DEF ParseField

LEMMA BracketIs ==
  ASSUME ParserTypeOK, ParseBracket
  PROVE  Here' = After(input, Here)
<1>1. /\ pc = "selectors" /\ pos \in Nat /\ Len(input) \in Nat
      /\ pos < Len(input) /\ input[pos + 1] = "["
  BY InputIs DEF ParseBracket, RefuseUnclosed, RefuseEmptyBracket, BracketAll, BracketIndex, BracketKey,
                 AtBracket, Sees, More
<1>2. After(input, Here) = AfterBracket(input, Here)
  BY <1>1, HereIs DEF After, AfterSelectors
<1>3. ASSUME NEW close, Closes(close), Here' = Bracketed(input, Here, close)
      PROVE  Here' = After(input, Here)
  BY <1>2, <1>3, ClosesIs, OneClose, HereIs DEF AfterBracket
<1>4. "*" \notin Digits
  BY CharsAssumption DEF Punctuation
<1>5. ASSUME NEW close
      PROVE  Text(pos + 1, close - 1) = SubSeq(input, pos + 2, close - 1)
  <2>1. pos + 1 + 1 = pos + 2
    BY <1>1
  <2> QED BY <2>1 DEF Text
<1>6. CASE RefuseUnclosed
  <2>1. Here' = Rejected(Here)
    BY <1>6, RefuseIs DEF RefuseUnclosed
  <2>2. \A close : ~Closes(close)
    BY <1>6 DEF RefuseUnclosed, Closes
  <2> QED BY <1>2, <2>1, <2>2, ClosesIs, HereIs DEF AfterBracket
<1>7. CASE RefuseEmptyBracket
  <2>1. Here' = Rejected(Here) /\ Closes(pos + 2)
    BY <1>7, RefuseIs DEF RefuseEmptyBracket
  <2>2. Here' = Bracketed(input, Here, pos + 2)
    BY <2>1, HereIs DEF Bracketed
  <2> QED BY <1>3, <2>1, <2>2
<1>8. CASE BracketAll
  <2> DEFINE text == SubSeq(input, pos + 2, pos + 2)
  <2>1. /\ Closes(pos + 3) /\ input[pos + 2] = "*"
        /\ Here' = Pushed(Here, Step("all", <<>>, 0), pos + 3, "selectors")
    BY <1>8, PushIs DEF BracketAll
  <2>2. pos + 3 \in Nat /\ pos + 3 <= Len(input) /\ pos + 3 # pos + 2 /\ (pos + 3) - 1 = pos + 2
    BY <1>1, <2>1 DEF Closes
  <2>3. text = <<"*">>
    <3>1. pos + 2 \in 1 .. Len(input)
      BY <1>1, <2>2
    <3> QED BY <2>1, <3>1, OneLong, InputIs
  <2>4. ~IsNumeral(text)
    <3> HIDE DEF text
    <3>1. 1 \in DOMAIN text /\ text[1] = "*"
      BY <2>3
    <3> QED BY <1>4, <3>1 DEF IsNumeral
  <2>5. Here' = Bracketed(input, Here, pos + 3)
    <3>1. SubSeq(input, Here.at + 2, (pos + 3) - 1) = text /\ pos + 3 # Here.at + 2
      BY <2>2, HereIs
    <3> HIDE DEF text
    <3> QED BY <2>1, <2>3, <2>4, <3>1 DEF Bracketed
  <2> QED BY <1>3, <2>1, <2>5
<1>9. CASE BracketIndex \/ BracketKey
  <2>1. PICK close \in pos + 3 .. Len(input) :
          /\ Closes(close)
          /\ LET text == Text(pos + 1, close - 1) IN
             \/ /\ IsNumeral(text)
                /\ IF Number(text) \in 0 .. MaxIndex
                   THEN Push(Step("index", <<>>, Number(text)), close, "selectors")
                   ELSE Refuse("IndexTooLarge", pos + 1)
             \/ /\ ~IsNumeral(text) /\ text # <<"*">>
                /\ Push(Step("key", text, 0), close, "selectors")
    BY <1>9 DEF BracketIndex, BracketKey
  <2> DEFINE text == SubSeq(input, pos + 2, close - 1)
  <2>2. \/ /\ IsNumeral(text) /\ Number(text) \in 0 .. MaxIndex
           /\ Push(Step("index", <<>>, Number(text)), close, "selectors")
        \/ /\ IsNumeral(text) /\ Number(text) \notin 0 .. MaxIndex
           /\ Refuse("IndexTooLarge", pos + 1)
        \/ /\ ~IsNumeral(text) /\ text # <<"*">>
           /\ Push(Step("key", text, 0), close, "selectors")
    BY <1>5, <2>1
  <2>3. SubSeq(input, Here.at + 2, close - 1) = text /\ close # Here.at + 2
    BY <1>1, HereIs
  <2> HIDE DEF text
  <2>4. Here' = Bracketed(input, Here, close)
    BY <2>2, <2>3, PushIs, RefuseIs DEF Bracketed
  <2> QED BY <1>3, <2>1, <2>4
<1> QED BY <1>6, <1>7, <1>8, <1>9 DEF ParseBracket

LEMMA PipeIs ==
  ASSUME ParserTypeOK, Pipe
  PROVE  Here' = After(input, Here)
<1>1. /\ pc = "selectors" /\ pos \in Nat /\ Len(input) \in Nat
      /\ pos < Len(input) /\ input[pos + 1] = "|"
  BY InputIs DEF Pipe, AtPipe, Sees, More
<1>2. PICK end \in pos + 1 .. Len(input) :
        /\ RunEnds(pos + 1, end, Letters)
        /\ IF \E mark \in Marks : Text(pos + 1, end) = <<mark>>
           THEN Push(Step(input[end], <<>>, 0), end, "marked")
           ELSE Refuse("UnknownPipeKeyword", pos)
  BY DEF Pipe
<1>3. RunEnd(input, pos + 1, Letters) = end
  BY <1>1, <1>2, OneEnd
<1>4. Text(pos + 1, end) = SubSeq(input, pos + 2, end)
  <2>1. pos + 1 + 1 = pos + 2
    BY <1>1
  <2> QED BY <2>1 DEF Text
<1>5. Here' = Piped(input, Here, end)
  BY <1>2, <1>4, PushIs, RefuseIs, HereIs DEF Piped
<1> QED BY <1>1, <1>3, <1>5, HereIs DEF After, AfterSelectors

LEMMA AfterSegmentIs ==
  ASSUME ParserTypeOK, RefuseAfterPipe \/ RefuseAfterSegment \/ Dot \/ Accept
  PROVE  Here' = After(input, Here)
<1>1. pc \in {"selectors", "marked"}
  BY DEF RefuseAfterPipe, RefuseAfterSegment, Dot, Accept, AfterSegment
<1>2. After(input, Here) = AfterSelectors(input, Here)
  BY <1>1, HereIs DEF After
<1>3. CASE RefuseAfterPipe
  <2>1. Here' = Rejected(Here)
    BY <1>3, RefuseIs DEF RefuseAfterPipe
  <2> QED BY <1>2, <1>3, <2>1, HereIs DEF RefuseAfterPipe, More, Sees, AfterSelectors
<1>4. CASE RefuseAfterSegment
  <2>1. Here' = Rejected(Here)
    BY <1>4, RefuseIs DEF RefuseAfterSegment
  <2> QED BY <1>2, <1>4, <2>1, HereIs DEF RefuseAfterSegment, More, AfterSelectors
<1>5. CASE Dot
  <2>1. pos < Len(input) /\ input[pos + 1] = "."
    BY <1>5 DEF Dot, Sees, More
  <2>2. CASE pos + 1 = Len(input)
    <3>1. Here' = Rejected(Here)
      BY <1>5, <2>2, RefuseIs DEF Dot
    <3> QED BY <1>2, <2>1, <2>2, <3>1, HereIs DEF AfterSelectors
  <2>3. CASE pos + 1 # Len(input)
    <3>1. Here' = Config(pos + 1, "segment", root, steps, Refused)
      BY <1>5, <2>3 DEF Dot, Here, Refused
    <3> QED BY <1>2, <2>1, <2>3, <3>1, HereIs DEF AfterSelectors
  <2> QED BY <2>2, <2>3
<1>6. CASE Accept
  <2>1. Here' = Config(pos, "end", root, steps, Refused) /\ ~(pos < Len(input))
    BY <1>6 DEF Accept, Here, Refused, More
  <2> QED BY <1>2, <2>1, HereIs DEF AfterSelectors
<1> QED BY <1>3, <1>4, <1>5, <1>6

(* The parser goes where After says, until it has come to an end. *)
LEMMA NextIsAfter ==
  ASSUME ParserTypeOK, ParserNext
  PROVE  pc # "end" /\ input' = input /\ Here' = After(input, Here)
<1>1. Here' = After(input, Here)
  BY HeaderRefusedIs, HeaderReadIs, FieldIs, BracketIs, PipeIs, AfterSegmentIs DEF ParserNext
<1>2. pc # "end" /\ input' = input
  BY DEF ParserNext, RefuseHeader, RefuseLong, RefuseNoColon, RefuseColons, RefuseEmptyPart, RefuseTable,
         RefuseSchema, ReadHeader, InHeader, ParseField, FieldByName, FieldById, RefuseField, AtSegment,
         ParseBracket, RefuseUnclosed, RefuseEmptyBracket, BracketAll, BracketIndex, BracketKey, AtBracket,
         Pipe, AtPipe, RefuseAfterPipe, RefuseAfterSegment, Dot, Accept, AfterSegment, Push, Refuse
<1> QED BY <1>1, <1>2

-----------------------------------------------------------------------------
(* What the parser may come to. Being reached is being in every set that   *)
(* has the start and is closed under After, so that no recursion is needed.*)

Closed(x, S) ==
  \A c \in S : c.state # "end" /\ After(x, c) \in Configs(x) => After(x, c) \in S

Reaches(x, c, e) == \A S \in SUBSET Configs(x) : c \in S /\ Closed(x, S) => e \in S

Outcomes(x) == {e \in Configs(x) : e.state = "end" /\ Reaches(x, Start, e)}

(* The string that is being parsed has led here. *)
LedHere == Reaches(input, Start, Here)

LEMMA HereInConfigs ==
  ASSUME ParserTypeOK
  PROVE  Here \in Configs(input)
BY DEF ParserTypeOK, Here, Config, Configs, Refused

LEMMA StartInConfigs ==
  ASSUME NEW x \in Seq(Chars)
  PROVE  Start \in Configs(x)
<1>1. <<>> \in Seq(Steps) /\ <<>> \in Seq(Chars) /\ 0 \in 0 .. Len(x)
  OBVIOUS
<1> QED BY <1>1 DEF Start, Config, Configs, NoRoot, Strings

LEMMA StartLeads ==
  ASSUME NEW text, StartParser(text)
  PROVE  LedHere'
<1>1. Here' = Start
  BY DEF StartParser, Here, Start, Config, Refused, NoError
<1> QED BY <1>1 DEF LedHere, Reaches

LEMMA NextLeads ==
  ASSUME ParserTypeOK, ParserTypeOK', ParserNext, LedHere
  PROVE  LedHere'
<1>1. /\ input' = input /\ Here.state # "end" /\ Here' = After(input, Here)
      /\ Here' \in Configs(input)
  <2>1. input' = input /\ Here.state # "end" /\ Here' = After(input, Here)
    BY NextIsAfter, HereIs
  <2>2. (Here \in Configs(input))'
    BY DEF ParserTypeOK, Here, Config, Configs, Refused
  <2> QED BY <2>1, <2>2 DEF Configs
<1>2. ASSUME NEW S \in SUBSET Configs(input), Start \in S, Closed(input, S)
      PROVE  Here' \in S
  BY <1>1, <1>2 DEF LedHere, Reaches, Closed
<1> QED BY <1>1, <1>2 DEF LedHere, Reaches

(* A string has one outcome: what leads to the one leads to the other, and *)
(* from an end nothing leads anywhere.                                     *)
THEOREM OneOutcome ==
  ASSUME NEW x \in Seq(Chars), NEW e \in Outcomes(x), NEW f \in Outcomes(x)
  PROVE  e = f
<1> DEFINE leading == {c \in Configs(x) : Reaches(x, c, e)}
<1>1. ASSUME NEW c \in leading, c.state # "end", After(x, c) \in Configs(x)
      PROVE  After(x, c) \in leading
  <2>1. ASSUME NEW S \in SUBSET Configs(x), After(x, c) \in S, Closed(x, S)
        PROVE  e \in S
    <3>1. S \cup {c} \in SUBSET Configs(x) /\ Closed(x, S \cup {c})
      BY <2>1 DEF Closed
    <3>2. e \in S \cup {c}
      BY <3>1 DEF Reaches
    <3>3. e # c
      BY <1>1 DEF Outcomes
    <3> QED BY <3>2, <3>3
  <2> QED BY <1>1, <2>1 DEF Reaches
<1>2. Start \in leading
  BY StartInConfigs DEF Outcomes
<1>3. f \in leading
  <2>1. leading \in SUBSET Configs(x) /\ Closed(x, leading)
    BY <1>1 DEF Closed
  <2> HIDE DEF leading
  <2> QED BY <1>2, <2>1 DEF Outcomes, Reaches
<1>4. {f} \in SUBSET Configs(x) /\ Closed(x, {f})
  BY DEF Outcomes, Closed
<1> QED BY <1>3, <1>4 DEF Reaches

-----------------------------------------------------------------------------
(***************************************************************************)
(* The calls: what every step of a session and of a call keeps.            *)
(***************************************************************************)

Stages == {"idle", "called", "parsing", "lookup", "verified", "done"}

(* The verifier was given the buffer, and said what it may. *)
Examined == fn \in TakesBuffer /\ buf.len > 0 /\ verdict \in Verdicts(buf)

(* What is answered of a buffer the verifier rejected. *)
Rejection ==
  IF fn \in Queries THEN IF ShouldErrorOn(verdict) THEN Error("verifier") ELSE NoLeaves
  ELSE IF fn = "verify" /\ ~IsSchemaFeatureRejection(verdict) THEN Only("false")
  ELSE Error("verifier")

(* An answer that says nothing of what is in a buffer. *)
Silent(a) == a.kind \notin {"leaf", "true", "json"} /\ a.leaves = <<>>

Concluded ==
  /\ answer.kind \in AnswerKinds
  /\ verdict # None => Examined /\ (verdict # "ok" => answer = Rejection)
  /\ verdict = None /\ fn \in TakesBuffer /\ buf.len > 0 => Silent(answer)

(* The inductive invariant of a call, whatever the previous one was. *)
CallInv ==
  /\ settings \in Sessions
  /\ \A b \in Bounds : settings[b] \in InUse[b]
  /\ \A g \in Flags : settings[g] \in BOOLEAN
  /\ stage \in Stages
  /\ stage # "idle" =>
       /\ fn \in Functions /\ call.text \in Seq(Chars)
       /\ fn \in TakesBuffer => buf.len \in Nat
  /\ stage = "parsing" => fn \in Queries
  /\ stage \in {"parsing", "lookup", "verified"} /\ fn \in TakesBuffer => buf.len > 0
  /\ verdict \in VerdictKinds \cup {None}
  /\ stage \in {"idle", "called", "parsing", "lookup"} => verdict = None
  /\ stage = "verified" => Examined
  /\ stage = "done" => Concluded

-----------------------------------------------------------------------------
(* Sessions. *)

(* What a session is. *)
LEMMA SessionIs ==
  ASSUME NEW s
  PROVE  s \in Sessions <=>
           /\ s = [x \in Bounds \cup Flags |-> s[x]]
           /\ \A b \in Bounds : s[b] \in UNION {InUse[x] : x \in Bounds}
           /\ \A g \in Flags : s[g] \in BOOLEAN
<1> DEFINE values == UNION {InUse[x] : x \in Bounds}
<1>1. Bounds \cap Flags = {}
  BY DEF Bounds, Flags
<1> DEFINE Both(p) == [x \in Bounds \cup Flags |-> IF x \in Bounds THEN p[1][x] ELSE p[2][x]]
           pairs == [Bounds -> values] \X [Flags -> BOOLEAN]
<1>2. s \in Sessions <=> \E p \in pairs : s = Both(p)
  BY DEF Sessions
<1>3. ASSUME NEW p \in pairs, s = Both(p)
      PROVE  /\ s = [x \in Bounds \cup Flags |-> s[x]]
             /\ \A b \in Bounds : s[b] \in values
             /\ \A g \in Flags : s[g] \in BOOLEAN
  <2> HIDE DEF values
  <2>1. p[1] \in [Bounds -> values] /\ p[2] \in [Flags -> BOOLEAN]
    BY <1>3
  <2> QED BY <1>1, <1>3, <2>1
<1>4. ASSUME s = [x \in Bounds \cup Flags |-> s[x]],
             \A b \in Bounds : s[b] \in values,
             \A g \in Flags : s[g] \in BOOLEAN
      PROVE  \E p \in pairs : s = Both(p)
  <2> DEFINE b == [x \in Bounds |-> s[x]]
             f == [x \in Flags |-> s[x]]
  <2> HIDE DEF values
  <2>1. b \in [Bounds -> values] /\ f \in [Flags -> BOOLEAN]
    BY <1>4
  <2>2. \A x \in Bounds \cup Flags : s[x] = IF x \in Bounds THEN b[x] ELSE f[x]
    BY <1>1
  <2> HIDE DEF b, f
  <2>3. s = Both(<<b, f>>)
    BY <1>4, <2>2
  <2>4. <<b, f>> \in pairs
    BY <2>1
  <2> QED BY <2>3, <2>4
<1> HIDE DEF values, Both, pairs
<1>5. ASSUME s \in Sessions
      PROVE  /\ s = [x \in Bounds \cup Flags |-> s[x]]
             /\ \A b \in Bounds : s[b] \in values
             /\ \A g \in Flags : s[g] \in BOOLEAN
  BY <1>2, <1>3, <1>5
<1>6. ASSUME s = [x \in Bounds \cup Flags |-> s[x]],
             \A b \in Bounds : s[b] \in values,
             \A g \in Flags : s[g] \in BOOLEAN
      PROVE  s \in Sessions
  <2>1. \E p \in pairs : s = Both(p)
    BY <1>4, <1>6
  <2> QED BY <1>2, <2>1
<1> QED BY <1>5, <1>6 DEF values

(* SET keeps the settings in range. *)
LEMMA SetSound ==
  ASSUME CallInv, SetBound \/ SetFlag
  PROVE  /\ settings' \in Sessions
         /\ \A b \in Bounds : settings'[b] \in InUse[b]
         /\ \A g \in Flags : settings'[g] \in BOOLEAN
<1> DEFINE values == UNION {InUse[x] : x \in Bounds}
<1>1. Bounds \cap Flags = {}
  BY DEF Bounds, Flags
<1>2. /\ settings = [x \in Bounds \cup Flags |-> settings[x]]
      /\ \A b \in Bounds : settings[b] \in InUse[b]
      /\ \A g \in Flags : settings[g] \in BOOLEAN
  BY SessionIs DEF CallInv
<1>3. PICK y, v :
        /\ y \in Bounds \cup Flags
        /\ settings' = [settings EXCEPT ![y] = v]
        /\ y \in Bounds => v \in InUse[y]
        /\ y \in Flags => v \in BOOLEAN
  <2>1. CASE SetBound
    <3>1. PICK b, v : b \in Bounds /\ v \in InUse[b] /\ settings' = [settings EXCEPT ![b] = v]
      BY <2>1 DEF SetBound
    <3>2. b \notin Flags
      BY <1>1, <3>1
    <3> QED BY <3>1, <3>2
  <2>2. CASE SetFlag
    <3>1. PICK g \in Flags : settings' = [settings EXCEPT ![g] = ~settings[g]]
      BY <2>2 DEF SetFlag
    <3>2. g \notin Bounds
      BY <1>1, <3>1
    <3> QED BY <1>2, <3>1, <3>2
  <2> QED BY <2>1, <2>2
<1>4. /\ settings' = [x \in Bounds \cup Flags |-> settings'[x]]
      /\ \A x \in Bounds \cup Flags : settings'[x] = IF x = y THEN v ELSE settings[x]
  BY <1>2, <1>3
<1>5. /\ \A b \in Bounds : settings'[b] \in InUse[b]
      /\ \A g \in Flags : settings'[g] \in BOOLEAN
  BY <1>2, <1>3, <1>4
<1>6. \A b \in Bounds : settings'[b] \in values
  BY <1>5
<1>7. settings' \in Sessions
  BY <1>4, <1>5, <1>6, SessionIs
<1> QED BY <1>5, <1>7

-----------------------------------------------------------------------------
(* Verdicts. *)

(* What a verdict says of the buffer. *)
LEMMA VerdictMeans ==
  ASSUME NEW b, NEW v \in Verdicts(b)
  PROVE  /\ v \in VerdictKinds
         /\ v \in Reasons => v \in Faults(b)
         /\ v = "ok" => Faults(b) = {} /\ ~Row.unsupported
<1>1. Faults(b) \subseteq Reasons
  BY DEF Faults
<1>2. Reasons \cap {"TooSmall", "NoRootTable", "Unsupported", "ok"} = {}
  BY DEF Reasons, BoundReasons
<1> QED BY <1>1, <1>2 DEF Verdicts, VerdictKinds

(* Nothing it depends on changes during a call. *)
LEMMA VerdictsKept ==
  ASSUME UNCHANGED <<settings, call, name>>
  PROVE  Verdicts(buf)' = Verdicts(buf)
BY DEF Verdicts, Row, Faults, Measure, MaxBytes, buf

(* The verdict that is depth's makes every caller answer as it would in a  *)
(* strict session.                                                         *)
LEMMA DepthIsExceedance == IsBoundExceedance("depth") /\ ~IsSchemaFeatureRejection("depth")
<1>1. "depth" \in Reasons
  BY DEF Reasons, BoundReasons
<1> QED BY <1>1, DepthWording DEF IsBoundExceedance, IsSchemaFeatureRejection

-----------------------------------------------------------------------------
(* Steps of a call. *)

(* A session between calls, or a call at its start. *)
LEMMA IdleSound ==
  ASSUME CallInv, SetBound \/ SetFlag \/ Forget \/ Call
  PROVE  CallInv'
<1>1. stage = "idle" /\ verdict = None
  BY DEF CallInv, SetBound, SetFlag, Forget, Call
<1>2. CASE SetBound \/ SetFlag
  <2>1. UNCHANGED <<stage, verdict>>
    BY <1>2 DEF SetBound, SetFlag, progress
  <2> QED BY <1>1, <1>2, <2>1, SetSound DEF CallInv
<1>3. CASE Forget
  <2>1. UNCHANGED <<settings, stage, verdict>>
    BY <1>3 DEF Forget, progress
  <2> QED BY <1>1, <2>1 DEF CallInv
<1>4. CASE Call
  <2>1. PICK c \in Calls(settings) : call' = c
    BY <1>4 DEF Call
  <2>2. UNCHANGED <<settings, verdict>> /\ stage' = "called"
    BY <1>4 DEF Call, session, progress
  <2>3. /\ c.fn \in Functions /\ c.text \in Seq(Chars)
        /\ c.fn \in TakesBuffer => c.arg.len \in Nat
    BY CallsAssumption DEF CallInv
  <2> QED BY <1>1, <2>1, <2>2, <2>3 DEF CallInv, fn, buf, Stages
<1> QED BY <1>2, <1>3, <1>4

(* The call returns. *)
LEMMA ReturnSound ==
  ASSUME CallInv, Return
  PROVE  CallInv'
BY DEF CallInv, Return, Stages

(* The call goes on, before the verifier is reached. *)
LEMMA GoesOnSound ==
  ASSUME CallInv, NEW next \in {"parsing", "lookup"},
         stage \in {"called", "parsing"},
         next = "parsing" => fn \in Queries,
         fn \in TakesBuffer => buf.len > 0,
         stage' = next, UNCHANGED <<settings, call, verdict>>
  PROVE  CallInv'
BY DEF CallInv, Stages, fn, buf

(* It is answered before the verifier is reached. *)
LEMMA EarlySound ==
  ASSUME CallInv, stage \in {"called", "parsing", "lookup"}, NEW a, Finish(a),
         a.kind \in AnswerKinds,
         fn \in TakesBuffer /\ buf.len > 0 => Silent(a)
  PROVE  CallInv'
<1>1. /\ stage' = "done" /\ answer' = a
      /\ UNCHANGED <<settings, call, name, verdict>> /\ verdict = None
  BY DEF Finish, session, CallInv
<1>2. Concluded'
  BY <1>1 DEF Concluded, Silent, fn, buf
<1> QED BY <1>1, <1>2 DEF CallInv, Stages, fn, buf

(* It is answered after the verifier. *)
LEMMA LateSound ==
  ASSUME CallInv, stage = "verified", NEW a, Finish(a),
         a.kind \in AnswerKinds,
         verdict # "ok" => a = Rejection
  PROVE  CallInv'
<1>1. /\ stage' = "done" /\ answer' = a
      /\ UNCHANGED <<settings, call, name, verdict>> /\ verdict # None
  <2>1. verdict \in VerdictKinds
    BY VerdictMeans DEF CallInv, Examined
  <2> QED BY <2>1, NoneAssumption DEF Finish, session
<1>2. Examined'
  BY <1>1, VerdictsKept DEF CallInv, Examined, fn, buf
<1>3. Rejection' = Rejection
  BY <1>1 DEF Rejection, ShouldErrorOn, IsBoundExceedance, IsSchemaFeatureRejection, NoLeaves, fn
<1>4. Concluded'
  BY <1>1, <1>2, <1>3 DEF Concluded
<1> QED BY <1>1, <1>4 DEF CallInv, Stages, fn, buf

(* Answers, by their kind. *)
LEMMA Kinds ==
  /\ \A why : Error(why).kind = "error" /\ Silent(Error(why)) /\ Error(why).kind \in AnswerKinds
  /\ Null.kind = "null" /\ Silent(Null) /\ Null.kind \in AnswerKinds
  /\ Rows(<<>>).kind = "rows" /\ Silent(Rows(<<>>))
  /\ \A leaves : Rows(leaves).kind \in AnswerKinds
  /\ \A kind : Only(kind).kind = kind /\ Only(kind).leaves = <<>>
BY DEF Error, Null, Rows, Only, Answer, Silent, AnswerKinds

(* The functions are three query functions and four others. *)
LEMMA FunctionsAre ==
  /\ Queries \cap Named = {} /\ "root_type" \notin TakesBuffer
  /\ Queries \subseteq TakesBuffer
  /\ \A f \in Named : f \in {"verify", "to_json", "from_json"}
  /\ "from_json" \notin TakesBuffer
  /\ TakesBuffer \ Queries = {"verify", "to_json"}
  /\ {"verify", "to_json"} \subseteq TakesBuffer
BY DEF Queries, Named, TakesBuffer

LEMMA EmptySound ==
  ASSUME CallInv, AnswerEmpty
  PROVE  CallInv'
<1>1. PICK a : Finish(a) /\ a \in {NoLeaves, Only("false"), Null}
  <2>1. fn \in Queries \/ fn = "verify" \/ fn = "to_json"
    BY FunctionsAre DEF AnswerEmpty
  <2> QED BY <2>1, FunctionsAre DEF AnswerEmpty
<1>2. a.kind \in AnswerKinds
  BY <1>1, Kinds DEF NoLeaves, AnswerKinds
<1>3. ~(buf.len > 0)
  BY DEF AnswerEmpty
<1> QED BY <1>1, <1>2, <1>3, EarlySound DEF AnswerEmpty

LEMMA ParsingSound ==
  ASSUME CallInv, BeginParse \/ Parse \/ ParseFails \/ Parsed
  PROVE  CallInv'
<1>1. CASE BeginParse
  BY <1>1, GoesOnSound, FunctionsAre DEF BeginParse, Proceeds, session, progress
<1>2. CASE Parse
  BY <1>2, GoesOnSound DEF Parse, session, progress, CallInv
<1>3. CASE ParseFails
  BY <1>3, EarlySound, Kinds DEF ParseFails
<1>4. CASE Parsed
  BY <1>4, GoesOnSound DEF Parsed, LookUp, session, CallInv
<1> QED BY <1>1, <1>2, <1>3, <1>4

LEMMA NamingSound ==
  ASSUME CallInv, NameFails \/ NameSplit \/ NameGiven
  PROVE  CallInv'
<1>1. CASE NameFails
  BY <1>1, EarlySound, Kinds DEF NameFails, Proceeds
<1>2. CASE NameSplit \/ NameGiven
  <2>1. stage' = "lookup" /\ UNCHANGED <<settings, call, verdict>>
    BY <1>2 DEF NameSplit, NameGiven, LookUp, session
  <2>2. stage = "called" /\ (fn \in TakesBuffer => buf.len > 0)
    BY <1>2 DEF NameSplit, NameGiven, Proceeds
  <2> QED BY <2>1, <2>2, GoesOnSound
<1> QED BY <1>1, <1>2

LEMMA LookupSound ==
  ASSUME CallInv, LookupFails \/ AnswerRootType \/ RootDiffers \/ AnswerFromJson
  PROVE  CallInv'
<1>1. CASE LookupFails
  BY <1>1, EarlySound, Kinds DEF LookupFails
<1>2. CASE AnswerRootType
  <2>1. Answer("text", Row.table, "").kind \in AnswerKinds
    BY DEF Answer, AnswerKinds
  <2> QED BY <1>2, <2>1, EarlySound, FunctionsAre DEF AnswerRootType, Found
<1>3. CASE RootDiffers
  <2>1. PICK a \in {Only("false"), Error("root")} : Finish(a)
    BY <1>3 DEF RootDiffers
  <2>2. Silent(a) /\ a.kind \in AnswerKinds
    BY <2>1, Kinds DEF Silent, AnswerKinds
  <2> QED BY <1>3, <2>1, <2>2, EarlySound DEF RootDiffers, Found
<1>4. CASE AnswerFromJson
  <2>1. PICK a \in {Error("json"), Only("bytes")} : Finish(a)
    BY <1>4 DEF AnswerFromJson
  <2>2. a.kind \in AnswerKinds
    BY <2>1, Kinds DEF AnswerKinds
  <2> QED BY <1>4, <2>1, <2>2, EarlySound, FunctionsAre DEF AnswerFromJson, RootAgrees, Found
<1> QED BY <1>1, <1>2, <1>3, <1>4

LEMMA VerifySound ==
  ASSUME CallInv, Verify
  PROVE  CallInv'
<1>1. /\ stage = "lookup" /\ stage' = "verified" /\ verdict' \in Verdicts(buf)
      /\ fn \in TakesBuffer /\ UNCHANGED <<settings, call, name, answer>>
  BY DEF Verify, RootAgrees, Found, session
<1>2. Verdicts(buf)' = Verdicts(buf)
  BY <1>1, VerdictsKept
<1>3. Examined'
  BY <1>1, <1>2 DEF CallInv, Examined, fn, buf
<1>4. verdict' \in VerdictKinds
  BY <1>1, VerdictMeans
<1> QED BY <1>1, <1>3, <1>4 DEF CallInv, Stages, fn, buf

LEMMA AnswerSound ==
  ASSUME CallInv, AnswerRejected \/ AnswerQuery \/ AnswerVerified \/ AnswerToJson
  PROVE  CallInv'
<1>1. CASE AnswerRejected
  <2>1. stage = "verified" /\ fn \in TakesBuffer
    BY <1>1 DEF AnswerRejected, CallInv, Examined
  <2>2. CASE fn \in Queries
    <3>1. Finish(Rejection)
      BY <1>1, <2>2, FunctionsAre DEF AnswerRejected, Rejection
    <3>2. Rejection.kind \in AnswerKinds
      BY <2>2, Kinds DEF Rejection, NoLeaves
    <3> QED BY <2>1, <3>1, <3>2, LateSound
  <2>3. CASE fn = "verify"
    <3>1. fn \notin Queries
      BY <2>3, FunctionsAre
    <3>2. Finish(Rejection)
      BY <1>1, <2>3, <3>1 DEF AnswerRejected, Rejection
    <3>3. Rejection.kind \in AnswerKinds
      BY <2>3, <3>1, Kinds DEF Rejection, AnswerKinds
    <3> QED BY <2>1, <3>2, <3>3, LateSound
  <2>4. CASE fn = "to_json"
    <3>1. fn \notin Queries
      BY <2>4, FunctionsAre
    <3>2. Finish(Rejection)
      BY <1>1, <2>4, <3>1 DEF AnswerRejected, Rejection
    <3>3. Rejection.kind \in AnswerKinds
      BY <2>4, <3>1, Kinds DEF Rejection
    <3> QED BY <2>1, <3>2, <3>3, LateSound
  <2> QED BY <2>1, <2>2, <2>3, <2>4, FunctionsAre
<1>2. CASE AnswerQuery \/ AnswerVerified \/ AnswerToJson
  <2>1. stage = "verified" /\ verdict = "ok"
    BY <1>2 DEF AnswerQuery, AnswerVerified, AnswerToJson, Verified
  <2>2. ASSUME NEW leaves
        PROVE  Shape(leaves).kind \in AnswerKinds
    BY Kinds DEF Shape, Answer, AnswerKinds
  <2>3. PICK a : Finish(a) /\ a.kind \in AnswerKinds
    BY <1>2, <2>2, Kinds DEF AnswerQuery, AnswerVerified, AnswerToJson, AnswerKinds
  <2> QED BY <2>1, <2>3, LateSound
<1> QED BY <1>1, <1>2

-----------------------------------------------------------------------------
(* The inductive invariant. *)
IInv == ParserInv /\ Unrefused /\ CallInv

LEMMA InitSound == Init => IInv
<1> SUFFICES ASSUME Init PROVE IInv
  OBVIOUS
<1>1. ParserInv /\ Unrefused
  BY ParserInitSound DEF Init, ParserInit, Unrefused, Refused
<1>2. /\ \A b \in Bounds : settings[b] \in InUse[b]
      /\ \A g \in Flags : settings[g] \in BOOLEAN
      /\ settings \in Sessions
  BY SettingsAssumption, CallsAssumption DEF Init
<1>3. CallInv
  BY <1>2 DEF Init, CallInv, Stages
<1> QED BY <1>1, <1>3 DEF IInv

(* What a step does to the parser: nothing, a step of its own, or a new    *)
(* string to read.                                                         *)
LEMMA ParserSound ==
  ASSUME IInv, [Next]_vars
  PROVE  ParserInv' /\ Unrefused'
<1>1. CASE UNCHANGED parser
  BY <1>1 DEF parser, IInv, ParserInv, ParserTypeOK, Unrefused, Refused, Accepted
<1>2. ASSUME NEW text \in Seq(Chars), StartParser(text)
      PROVE  ParserInv' /\ Unrefused'
  BY <1>2, StartSound DEF StartParser, Unrefused, Refused
<1>3. CASE BeginParse
  <2>1. call.text \in Seq(Chars) /\ StartParser(call.text)
    BY <1>3 DEF BeginParse, Proceeds, IInv, CallInv
  <2> QED BY <1>2, <2>1
<1>4. CASE Return
  <2>1. <<>> \in Seq(Chars) /\ StartParser(<<>>)
    BY <1>4 DEF Return
  <2> QED BY <1>2, <2>1
<1>5. CASE Parse
  BY <1>5, ParserNextSound DEF Parse, IInv
<1>6. CASE UNCHANGED vars
  BY <1>1, <1>6 DEF vars
<1>7. CASE SetBound \/ SetFlag \/ Forget \/ Call
  BY <1>1, <1>7 DEF SetBound, SetFlag, Forget, Call, parser
<1>8. CASE AnswerEmpty \/ ParseFails \/ Parsed \/ NameFails \/ NameSplit \/ NameGiven
  BY <1>1, <1>8 DEF AnswerEmpty, ParseFails, Parsed, NameFails, NameSplit, NameGiven, LookUp
<1>9. CASE LookupFails \/ AnswerRootType \/ RootDiffers \/ Verify \/ AnswerRejected
  BY <1>1, <1>9 DEF LookupFails, AnswerRootType, RootDiffers, Verify, AnswerRejected
<1>10. CASE AnswerQuery \/ AnswerVerified \/ AnswerToJson \/ AnswerFromJson
  BY <1>1, <1>10 DEF AnswerQuery, AnswerVerified, AnswerToJson, AnswerFromJson
<1> QED BY <1>3, <1>4, <1>5, <1>6, <1>7, <1>8, <1>9, <1>10 DEF Next

LEMMA NextSound == IInv /\ [Next]_vars => IInv'
<1> SUFFICES ASSUME IInv, [Next]_vars PROVE IInv'
  OBVIOUS
<1>1. CallInv
  BY DEF IInv
<1>2. CASE UNCHANGED vars
  <2>1. UNCHANGED <<settings, call, stage, name, verdict, answer>>
    BY <1>2 DEF vars, session, progress
  <2>2. Examined' = Examined
    BY <2>1, VerdictsKept DEF Examined, fn, buf
  <2>3. Concluded' = Concluded
    BY <2>1, <2>2 DEF Concluded, Rejection, ShouldErrorOn, IsBoundExceedance,
                      IsSchemaFeatureRejection, NoLeaves, Silent, fn, buf
  <2> QED BY <1>1, <2>1, <2>2, <2>3, ParserSound DEF IInv, CallInv, fn, buf
<1>3. CASE Next
  BY <1>1, <1>3, ParserSound, IdleSound, ReturnSound, EmptySound, ParsingSound, NamingSound,
     LookupSound, VerifySound, AnswerSound DEF Next, IInv
<1> QED BY <1>2, <1>3

(* Parser and call together. *)
THEOREM Soundness == Spec => []IInv
BY InitSound, NextSound, PTL DEF Spec

(* TypeOK: the parser's places in the string and steps, the settings and   *)
(* the kinds of answers are what the code has for them.                    *)
THEOREM TypeCorrect == Spec => []TypeOK
<1>1. IInv => TypeOK
  <2> SUFFICES ASSUME IInv PROVE TypeOK
    OBVIOUS
  <2>1. DOMAIN settings = Bounds \cup Flags
    <3>1. settings = [x \in Bounds \cup Flags |-> settings[x]]
      BY SessionIs DEF IInv, CallInv
    <3> QED BY <3>1
  <2> QED BY <2>1 DEF IInv, ParserInv, CallInv, TypeOK, Concluded, Stages
<1> QED BY <1>1, Soundness, PTL

(* WithinLimits: no path is longer than max_path_depth at any time, and no *)
(* accepted query is longer than max_query_length.                         *)
THEOREM LimitsKept == Spec => []WithinLimits
<1>1. IInv => WithinLimits
  BY DEF IInv, ParserInv, WithinLimits, Accepted, Refused
<1> QED BY <1>1, Soundness, PTL

(* WellShaped: every accepted path begins with a field, and goes on with a *)
(* field after `|keys` or `|type`.                                         *)
THEOREM PathsWellShaped == Spec => []WellShaped
<1>1. IInv => WellShaped
  BY DEF IInv, ParserInv, WellShaped
<1> QED BY <1>1, Soundness, PTL

(* DepthNotRelaxed: in any session, a buffer the verifier finds too deep   *)
(* is answered with an error, and by flatbuffers_verify with false.        *)
THEOREM DepthKept == Spec => []DepthNotRelaxed
<1>1. IInv => DepthNotRelaxed
  <2> SUFFICES ASSUME IInv, WasVerified, verdict = "depth"
               PROVE  IF fn = "verify" THEN answer = Only("false") ELSE Failed
    BY DEF DepthNotRelaxed
  <2>1. Concluded /\ verdict # None
    BY DEF IInv, CallInv, WasVerified, Answered
  <2>2. IsBoundExceedance(verdict) /\ ~IsSchemaFeatureRejection(verdict) /\ verdict # "ok"
    BY DepthIsExceedance
  <2>3. answer = Rejection
    BY <2>1, <2>2 DEF Concluded
  <2>4. CASE fn = "verify"
    BY <2>2, <2>3, <2>4, FunctionsAre DEF Rejection, Queries
  <2>5. CASE fn # "verify"
    <3>1. answer = Error("verifier")
      BY <2>2, <2>3, <2>5 DEF Rejection, ShouldErrorOn
    <3> QED BY <2>5, <3>1, Kinds DEF Failed
  <2> QED BY <2>4, <2>5
<1> QED BY <1>1, Soundness, PTL

(* ConfigurationIsLoud: a schema with unsupported features is an error for *)
(* every buffer of at least four bytes, in any session.                    *)
THEOREM ConfigurationErrs == Spec => []ConfigurationIsLoud
<1>1. IInv => ConfigurationIsLoud
  <2> SUFFICES ASSUME IInv, WasVerified, Row.unsupported, Row.declares # None, buf.len >= MinLen
               PROVE  Failed
    BY DEF ConfigurationIsLoud
  <2>1. Concluded /\ Examined
    BY DEF IInv, CallInv, WasVerified, Answered, Concluded
  <2>2. ~(buf.len < MinLen)
    <3>1. buf.len \in Nat /\ MinLen \in Nat
      BY <2>1, SettingsAssumption DEF IInv, CallInv, Examined, WasVerified, Answered
    <3> QED BY <3>1
  <2>3. verdict = "Unsupported"
    BY <2>1, <2>2 DEF Examined, Verdicts
  <2>4. IsSchemaFeatureRejection(verdict)
    BY <2>3 DEF IsSchemaFeatureRejection
  <2>5. answer = Error("verifier")
    BY <2>1, <2>3, <2>4 DEF Concluded, Rejection, ShouldErrorOn, WasVerified
  <2> QED BY <2>5, Kinds DEF Failed
<1> QED BY <1>1, Soundness, PTL

(* ReadsOnlyVerified: what is in a buffer is answered only if the verifier *)
(* had nothing to say of it under the settings of the session.             *)
THEOREM OnlyVerifiedIsRead == Spec => []ReadsOnlyVerified
<1>1. IInv => ReadsOnlyVerified
  <2> SUFFICES ASSUME IInv, Answered, fn \in TakesBuffer, buf.len > 0,
                      answer.kind \in {"leaf", "true", "json"} \/ answer.leaves # <<>>
               PROVE  verdict = "ok" /\ Faults(buf) = {} /\ ~Row.unsupported
    BY DEF ReadsOnlyVerified
  <2>1. Concluded /\ ~Silent(answer)
    BY DEF IInv, CallInv, Answered, Silent
  <2>2. verdict # None /\ Examined
    BY <2>1 DEF Concluded
  <2>3. verdict = "ok"
    <3>1. Silent(Rejection)
      <4>1. Silent(Error("verifier")) /\ Silent(NoLeaves) /\ Silent(Only("false"))
        BY Kinds DEF NoLeaves, Silent
      <4> QED BY <4>1 DEF Rejection
    <3> QED BY <2>1, <2>2, <3>1 DEF Concluded
  <2> QED BY <2>2, <2>3, VerdictMeans DEF Examined
<1> QED BY <1>1, Soundness, PTL

-----------------------------------------------------------------------------
(* flatbuffers_verify and flatbuffers_to_json of one name and one buffer   *)
(* meet the same fate, and each answers what it answers of that fate.      *)
Judges == {"verify", "to_json"}

ColonsIn(text) == {i \in DOMAIN text : text[i] = ":"}

(* The name that a text is split into. *)
Resolves(text, n) ==
  /\ text # <<>>
  /\ \/ ColonsIn(text) = {} /\ n = [schema |-> DefaultSchema, table |-> text]
     \/ \E c \in ColonsIn(text) :
          /\ ColonsIn(text) = {c} /\ c \in 2 .. Len(text) - 1
          /\ n = [schema |-> SubSeq(text, 1, c - 1), table |-> SubSeq(text, c + 1, Len(text))]

(* What becomes of a buffer under a name. *)
Fate(n, b) ==
  IF n.schema \notin DOMAIN Schemas THEN "schema"
  ELSE IF Schemas[n.schema].table # n.table THEN "root"
  ELSE IF b.len < MinLen \/ Schemas[n.schema].declares = None THEN "rejected"
  ELSE IF Schemas[n.schema].unsupported THEN "unsupported"
  ELSE IF Faults(b) # {} THEN "rejected" ELSE "ok"

Meets(text, b, fate) ==
  \/ b.len = 0 /\ fate = "empty"
  \/ b.len # 0 /\ (\A n : ~Resolves(text, n)) /\ fate = "name"
  \/ b.len # 0 /\ \E n : Resolves(text, n) /\ fate = Fate(n, b)

Answers(f, b, fate) ==
  IF fate \in {"name", "schema"} THEN Error(fate)
  ELSE IF fate = "unsupported" THEN Error("verifier")
  ELSE IF fate = "ok"
    THEN IF f = "verify" THEN Only("true") ELSE IF b.finite THEN Only("json") ELSE Error("json")
  ELSE IF f = "verify" THEN Only("false")
  ELSE IF fate = "empty" THEN Null
  ELSE IF fate = "root" THEN Error("root") ELSE Error("verifier")

Judged(c, a) ==
  c.fn \in Judges => \E fate : Meets(c.text, c.arg, fate) /\ a = Answers(c.fn, c.arg, fate)

(* The inductive invariant of two calls. *)
PairInv ==
  /\ stage # "idle" /\ last # None => last.call.text = call.text /\ last.call.arg = call.arg
  /\ stage \in {"lookup", "verified"} /\ fn \in Judges => Resolves(call.text, name)
  /\ stage = "verified" /\ fn \in Judges => name.schema \in DOMAIN Schemas /\ Row.table = name.table
  /\ stage = "done" => Judged(call, answer)
  /\ last # None => Judged(last.call, last.answer)

(* A text is split in one way, and so a buffer meets one fate. *)
LEMMA OneFate ==
  ASSUME NEW text, NEW b, NEW f, NEW g, Meets(text, b, f), Meets(text, b, g)
  PROVE  f = g
<1>1. ASSUME NEW m, NEW n, Resolves(text, m), Resolves(text, n)
      PROVE  m = n
  BY <1>1 DEF Resolves
<1> QED BY <1>1 DEF Meets

(* Fates depend on the settings alone. *)
LEMMA JudgedKept ==
  ASSUME UNCHANGED settings, NEW c, NEW a, Judged(c, a)
  PROVE  Judged(c, a)'
<1>1. \A b : Faults(b)' = Faults(b)
  BY DEF Faults, Measure, MaxBytes
<1>2. \A n, b : Fate(n, b)' = Fate(n, b)
  BY <1>1 DEF Fate
<1>3. \A fate : Meets(c.text, c.arg, fate) => Meets(c.text, c.arg, fate)'
  BY <1>2 DEF Meets
<1> QED BY <1>3 DEF Judged

(* A call is answered. *)
LEMMA FinishJudged ==
  ASSUME PairInv, stage # "idle", NEW a, Finish(a), Judged(call, a)
  PROVE  PairInv'
<1>1. /\ stage' = "done" /\ answer' = a
      /\ UNCHANGED <<settings, call, name, last>>
  BY DEF Finish, session
<1>2. (Judged(call, answer))'
  <2>1. Judged(call, a)'
    BY <1>1, JudgedKept
  <2> QED BY <1>1, <2>1 DEF Judged
<1>3. (last # None => Judged(last.call, last.answer))'
  <2>1. last # None => Judged(last.call, last.answer)'
    BY <1>1, JudgedKept DEF PairInv
  <2> QED BY <1>1, <2>1
<1> QED BY <1>1, <1>2, <1>3 DEF PairInv

(* A call goes on. *)
LEMMA StepJudged ==
  ASSUME PairInv, stage # "idle", stage' \in {"parsing", "lookup", "verified"},
         UNCHANGED <<settings, call, last>>,
         stage' \in {"lookup", "verified"} /\ fn \in Judges => Resolves(call.text, name'),
         stage' = "verified" /\ fn \in Judges =>
           name'.schema \in DOMAIN Schemas /\ Schemas[name'.schema].table = name'.table
  PROVE  PairInv'
<1>1. (last # None => Judged(last.call, last.answer))'
  <2>1. last # None => Judged(last.call, last.answer)'
    BY JudgedKept DEF PairInv
  <2> QED BY <2>1
<1>2. (stage \in {"lookup", "verified"} /\ fn \in Judges => Resolves(call.text, name))'
  BY DEF Resolves, ColonsIn, fn
<1>3. (stage = "verified" /\ fn \in Judges => name.schema \in DOMAIN Schemas /\ Row.table = name.table)'
  BY DEF Row, fn
<1> QED BY <1>1, <1>2, <1>3 DEF PairInv

(* What is answered of a name. *)
LEMMA JudgedByName ==
  ASSUME fn \in Judges, ~(buf.len = 0), NEW n, Resolves(call.text, n), NEW fate, fate = Fate(n, buf)
  PROVE  Judged(call, Answers(fn, buf, fate))
BY DEF Judged, Meets, fn, buf

(* What is answered of any other function's call is not looked at. *)
LEMMA NotJudged ==
  ASSUME fn \notin Judges, NEW a
  PROVE  Judged(call, a)
BY DEF Judged, fn

LEMMA EmptyJudged ==
  ASSUME IInv, PairInv, AnswerEmpty
  PROVE  PairInv'
<1>1. CASE fn \in Queries
  <2>1. \E a : Finish(a)
    BY <1>1, FunctionsAre DEF AnswerEmpty
  <2>2. fn \notin Judges
    BY <1>1 DEF Judges, Queries
  <2> QED BY <2>1, <2>2, NotJudged, FinishJudged DEF AnswerEmpty
<1>2. CASE fn \in Judges
  <2>1. Finish(Answers(fn, buf, "empty"))
    <3>1. fn \notin Queries
      BY <1>2 DEF Judges, Queries
    <3>2. CASE fn = "verify"
      BY <3>1, <3>2 DEF AnswerEmpty, Answers
    <3>3. CASE fn = "to_json"
      BY <3>1, <3>3 DEF AnswerEmpty, Answers
    <3> QED BY <1>2, <3>2, <3>3 DEF Judges
  <2>2. Judged(call, Answers(fn, buf, "empty"))
    BY DEF AnswerEmpty, Judged, Meets, fn, buf
  <2> QED BY <2>1, <2>2, FinishJudged DEF AnswerEmpty
<1> QED BY <1>1, <1>2, FunctionsAre DEF AnswerEmpty, Judges

LEMMA NamingJudged ==
  ASSUME IInv, PairInv, NameFails \/ NameSplit \/ NameGiven
  PROVE  PairInv'
<1>1. CASE NameFails
  <2>1. Finish(Error("name")) /\ stage # "idle"
    BY <1>1 DEF NameFails, Proceeds
  <2>2. Judged(call, Error("name"))
    <3>1. CASE fn \in Judges
      <4>1. \A n : ~Resolves(call.text, n)
        BY <1>1 DEF NameFails, NameColons, SplitsAt, Resolves, ColonsIn
      <4>2. ~(buf.len = 0)
        BY <1>1, <3>1, FunctionsAre DEF NameFails, Proceeds, Judges, IInv, CallInv
      <4>3. Meets(call.text, buf, "name")
        BY <4>1, <4>2 DEF Meets
      <4>4. Answers(fn, buf, "name") = Error("name")
        BY DEF Answers
      <4> QED BY <4>3, <4>4 DEF Judged, fn, buf
    <3> QED BY <3>1, NotJudged
  <2> QED BY <2>1, <2>2, FinishJudged
<1>2. CASE NameSplit
  <2>1. /\ stage # "idle" /\ stage' = "lookup" /\ UNCHANGED <<settings, call, last>>
    BY <1>2 DEF NameSplit, Proceeds, LookUp, session
  <2>2. Resolves(call.text, name')
    BY <1>2 DEF NameSplit, NameColons, SplitsAt, Resolves, ColonsIn, LookUp
  <2> QED BY <2>1, <2>2, StepJudged
<1>3. CASE NameGiven
  <2>1. /\ stage # "idle" /\ stage' = "lookup" /\ UNCHANGED <<settings, call, last>>
    BY <1>3 DEF NameGiven, Proceeds, LookUp, session
  <2>2. fn \notin Judges
    BY <1>3 DEF NameGiven, Judges
  <2> QED BY <2>1, <2>2, StepJudged
<1> QED BY <1>1, <1>2, <1>3

LEMMA ParsingJudged ==
  ASSUME IInv, PairInv, BeginParse \/ Parse \/ ParseFails \/ Parsed
  PROVE  PairInv'
<1>1. fn \in Queries /\ stage # "idle"
  BY DEF BeginParse, Proceeds, Parse, ParseFails, Parsed, IInv, CallInv
<1>2. fn \notin Judges
  BY <1>1 DEF Judges, Queries
<1>3. CASE ParseFails
  <2>1. Finish(Error("query"))
    BY <1>3 DEF ParseFails
  <2> QED BY <1>1, <1>2, <2>1, NotJudged, FinishJudged
<1>4. CASE BeginParse \/ Parse \/ Parsed
  <2>1. stage' \in {"parsing", "lookup"} /\ UNCHANGED <<settings, call, last>>
    BY <1>4 DEF BeginParse, Parse, Parsed, LookUp, session
  <2> QED BY <1>1, <1>2, <2>1, StepJudged
<1> QED BY <1>3, <1>4

LEMMA LookupJudged ==
  ASSUME IInv, PairInv, LookupFails \/ AnswerRootType \/ RootDiffers \/ AnswerFromJson
  PROVE  PairInv'
<1>1. stage = "lookup"
  BY DEF LookupFails, AnswerRootType, RootDiffers, AnswerFromJson, RootAgrees, Found
<1>2. CASE fn \notin Judges
  <2>1. \E a : Finish(a)
    BY DEF LookupFails, AnswerRootType, RootDiffers, AnswerFromJson
  <2> QED BY <1>1, <1>2, <2>1, NotJudged, FinishJudged
<1>3. CASE fn \in Judges
  <2>1. Resolves(call.text, name) /\ ~(buf.len = 0)
    BY <1>1, <1>3, FunctionsAre DEF PairInv, Judges, IInv, CallInv
  <2>2. CASE LookupFails
    <3>1. Fate(name, buf) = "schema" /\ Answers(fn, buf, "schema") = Error("schema")
      BY <2>2 DEF LookupFails, Fate, Answers
    <3> QED BY <1>1, <1>3, <2>1, <2>2, <3>1, JudgedByName, FinishJudged DEF LookupFails
  <2>3. CASE RootDiffers
    <3>1. Fate(name, buf) = "root"
      BY <2>3 DEF RootDiffers, Found, Row, Fate
    <3>2. Finish(Answers(fn, buf, "root"))
      BY <2>3 DEF RootDiffers, Answers
    <3> QED BY <1>1, <1>3, <2>1, <3>1, <3>2, JudgedByName, FinishJudged
  <2>4. ~AnswerRootType /\ ~AnswerFromJson
    BY <1>3 DEF AnswerRootType, AnswerFromJson, Judges
  <2> QED BY <2>2, <2>3, <2>4
<1> QED BY <1>2, <1>3

LEMMA VerifyJudged ==
  ASSUME IInv, PairInv, Verify
  PROVE  PairInv'
<1>1. /\ stage = "lookup" /\ stage' = "verified" /\ UNCHANGED <<settings, call, last, name>>
      /\ name.schema \in DOMAIN Schemas
      /\ fn \in Judges => Row.table = name.table
  BY FunctionsAre DEF Verify, RootAgrees, Found, session, Judges, Named
<1> QED BY <1>1, StepJudged DEF PairInv, Row

(* What the verifier says decides the fate of a buffer. *)
LEMMA VerdictIsFate ==
  ASSUME IInv, PairInv, stage = "verified", fn \in Judges
  PROVE  Fate(name, buf) = IF verdict = "ok" THEN "ok"
                           ELSE IF verdict = "Unsupported" THEN "unsupported" ELSE "rejected"
<1>1. /\ name.schema \in DOMAIN Schemas /\ Row.table = name.table
      /\ verdict \in Verdicts(buf)
  BY DEF PairInv, IInv, CallInv, Examined
<1>2. Faults(buf) \cap {"ok", "Unsupported"} = {}
  BY DEF Faults, Reasons, BoundReasons
<1> QED BY <1>1, <1>2 DEF Verdicts, Fate, Row

LEMMA AnswerJudged ==
  ASSUME IInv, PairInv, AnswerRejected \/ AnswerQuery \/ AnswerVerified \/ AnswerToJson
  PROVE  PairInv'
<1>1. stage = "verified" /\ fn \in TakesBuffer
  BY DEF AnswerRejected, AnswerQuery, AnswerVerified, AnswerToJson, Verified, IInv, CallInv, Examined
<1>2. CASE fn \notin Judges
  <2>1. fn \in Queries /\ fn \notin {"verify", "to_json"}
    BY <1>1, <1>2, FunctionsAre DEF Judges
  <2>2. \E a : Finish(a)
    BY <2>1 DEF AnswerRejected, AnswerQuery, AnswerVerified, AnswerToJson
  <2> QED BY <1>1, <1>2, <2>2, NotJudged, FinishJudged
<1>3. CASE fn \in Judges
  <2>1. Resolves(call.text, name) /\ ~(buf.len = 0)
    BY <1>1, <1>3 DEF PairInv, IInv, CallInv
  <2>2. fn \notin Queries
    BY <1>3 DEF Judges, Queries
  <2>3. CASE AnswerRejected
    <3>1. verdict # "ok"
      BY <2>3 DEF AnswerRejected
    <3>2. CASE fn = "verify"
      <4>1. Finish(IF verdict = "Unsupported" THEN Error("verifier") ELSE Only("false"))
        BY <2>2, <2>3, <3>2 DEF AnswerRejected, IsSchemaFeatureRejection
      <4>2. Finish(Answers(fn, buf, Fate(name, buf)))
        BY <1>1, <1>3, <3>1, <3>2, <4>1, VerdictIsFate DEF Answers
      <4> QED BY <1>1, <1>3, <2>1, <4>2, JudgedByName, FinishJudged
    <3>3. CASE fn = "to_json"
      <4>1. Finish(Error("verifier"))
        BY <2>2, <2>3, <3>3 DEF AnswerRejected
      <4>2. Finish(Answers(fn, buf, Fate(name, buf)))
        BY <1>1, <1>3, <3>1, <3>3, <4>1, VerdictIsFate DEF Answers
      <4> QED BY <1>1, <1>3, <2>1, <4>2, JudgedByName, FinishJudged
    <3> QED BY <1>3, <3>2, <3>3 DEF Judges
  <2>4. CASE AnswerVerified \/ AnswerToJson
    <3>1. verdict = "ok"
      BY <2>4 DEF AnswerVerified, AnswerToJson, Verified
    <3>2. Fate(name, buf) = "ok"
      BY <1>1, <1>3, <3>1, VerdictIsFate
    <3>3. Finish(Answers(fn, buf, "ok"))
      BY <2>4 DEF AnswerVerified, AnswerToJson, Answers
    <3> QED BY <1>1, <1>3, <2>1, <3>2, <3>3, JudgedByName, FinishJudged
  <2>5. ~AnswerQuery
    BY <2>2 DEF AnswerQuery
  <2> QED BY <2>3, <2>4, <2>5
<1> QED BY <1>2, <1>3

LEMMA SessionJudged ==
  ASSUME IInv, PairInv, SetBound \/ SetFlag \/ Forget \/ Call \/ Return
  PROVE  PairInv'
<1>1. CASE SetBound \/ SetFlag \/ Forget
  BY <1>1 DEF SetBound, SetFlag, Forget, PairInv
<1>2. CASE Call
  <2>1. /\ stage' = "called" /\ UNCHANGED <<settings, last>>
        /\ last # None => call'.text = last.call.text /\ call'.arg = last.call.arg
    BY <1>2 DEF Call, session
  <2>2. PICK c, a : c = last.call /\ a = last.answer
    OBVIOUS
  <2>3. last # None => Judged(c, a)'
    BY <2>1, <2>2, JudgedKept DEF PairInv
  <2>4. (last # None => Judged(last.call, last.answer))'
    BY <2>1, <2>2, <2>3
  <2> QED BY <2>1, <2>4 DEF PairInv
<1>3. CASE Return
  <2>1. /\ stage = "done" /\ stage' = "idle" /\ UNCHANGED settings
        /\ last' = [call |-> call, answer |-> answer]
    BY <1>3 DEF Return
  <2>2. PICK c, a : c = call /\ a = answer
    OBVIOUS
  <2>3. Judged(c, a)'
    BY <2>1, <2>2, JudgedKept DEF PairInv
  <2>4. (Judged(last.call, last.answer))'
    BY <2>1, <2>2, <2>3
  <2> QED BY <2>1, <2>4 DEF PairInv
<1> QED BY <1>1, <1>2, <1>3

LEMMA PairNext == IInv /\ PairInv /\ [Next]_vars => PairInv'
<1> SUFFICES ASSUME IInv, PairInv, [Next]_vars PROVE PairInv'
  OBVIOUS
<1>1. CASE UNCHANGED vars
  <2>1. UNCHANGED <<settings, call, stage, name, verdict, answer, last>>
    BY <1>1 DEF vars, session, progress
  <2>2. PICK c, a : c = last.call /\ a = last.answer
    OBVIOUS
  <2>3. PICK d, b : d = call /\ b = answer
    OBVIOUS
  <2>4. /\ last # None => Judged(c, a)'
        /\ stage = "done" => Judged(d, b)'
    BY <2>1, <2>2, <2>3, JudgedKept DEF PairInv
  <2>5. (last # None => Judged(last.call, last.answer))' /\ (stage = "done" => Judged(call, answer))'
    BY <2>1, <2>2, <2>3, <2>4
  <2> QED BY <2>1, <2>5 DEF PairInv, Row, fn, Resolves, ColonsIn
<1>2. CASE Next
  BY <1>2, SessionJudged, EmptyJudged, ParsingJudged, NamingJudged, LookupJudged, VerifyJudged,
     AnswerJudged DEF Next
<1> QED BY <1>1, <1>2

(* Both calls, the previous one and the present one. *)
LEMMA PairSound == Spec => []PairInv
<1>1. Init => PairInv
  BY DEF Init, PairInv
<1> QED BY <1>1, PairNext, Soundness, PTL DEF Spec

(* VerifyForetellsToJson: for any registered schemas and any settings,     *)
(* flatbuffers_verify answers true of no buffer that the verifier then     *)
(* refuses to_json, and false of none that to_json prints.                 *)
THEOREM VerifyForetells == Spec => []VerifyForetellsToJson
<1>1. IInv /\ PairInv => VerifyForetellsToJson
  <2> SUFFICES ASSUME IInv, PairInv, Answered, last # None, {fn, last.call.fn} = {"verify", "to_json"}
               PROVE  VerifyForetellsToJson
    BY DEF VerifyForetellsToJson
  <2> DEFINE v == IF fn = "verify" THEN answer ELSE last.answer
             j == IF fn = "to_json" THEN answer ELSE last.answer
  <2>1. /\ Judged(call, answer) /\ Judged(last.call, last.answer)
        /\ last.call.text = call.text /\ last.call.arg = buf
        /\ fn \in Judges /\ last.call.fn \in Judges /\ fn # last.call.fn
    BY DEF PairInv, Answered, Judges, buf
  <2>2. PICK fate :
          /\ Meets(call.text, buf, fate)
          /\ answer = Answers(fn, buf, fate) /\ last.answer = Answers(last.call.fn, buf, fate)
    BY <2>1, OneFate DEF Judged, fn, buf
  <2>3. v = Answers("verify", buf, fate) /\ j = Answers("to_json", buf, fate)
    BY <2>1, <2>2 DEF Judges
  <2>4. fate = "empty" => buf.len = 0
    BY <2>2 DEF Meets, Fate
  <2> HIDE DEF v, j
  <2>5. fate = "ok" => v.kind = "true" /\ (j.kind = "json" \/ j.why = "json")
    BY <2>3 DEF Answers, Only, Error, Answer
  <2>6. fate \in {"name", "schema", "unsupported"} => v.kind = "error" /\ j = v
    BY <2>3 DEF Answers, Error, Answer
  <2>7. fate \notin {"ok", "name", "schema", "unsupported"} =>
          v.kind = "false" /\ (j.why \in {"root", "verifier"} \/ (buf.len = 0 /\ j = Null))
    <3>1. fate \in {"empty", "root", "rejected"} \cup {"ok", "name", "schema", "unsupported"}
      BY <2>2 DEF Meets, Fate
    <3> QED BY <2>3, <2>4, <3>1 DEF Answers, Only, Error, Answer
  <2>8. (CASE v.kind = "true"  -> j.kind = "json" \/ j.why = "json"
           [] v.kind = "false" -> j.why \in {"root", "verifier"} \/ (buf.len = 0 /\ j = Null)
           [] v.kind = "error" -> j = v)
    <3>1. CASE v.kind = "true"
      BY <2>5, <2>6, <2>7, <3>1
    <3>2. CASE v.kind = "false"
      BY <2>5, <2>6, <2>7, <3>2
    <3>3. CASE v.kind = "error"
      BY <2>5, <2>6, <2>7, <3>3
    <3> QED BY <2>5, <2>6, <2>7, <3>1, <3>2, <3>3
  <2> QED BY <2>8 DEF VerifyForetellsToJson, v, j
<1> QED BY <1>1, Soundness, PairSound, PTL

-----------------------------------------------------------------------------
(* The three query functions, given one string and one buffer, meet the    *)
(* same fate, as long as the verifier has one thing to say of the buffer.  *)

AskedName(e) ==
  [schema |-> IF e.header.schema = <<>> THEN DefaultSchema ELSE e.header.schema,
   table |-> e.header.table]

Parses(text, n, path) ==
  \E e \in Outcomes(text) : ~e.refused /\ n = AskedName(e) /\ path = e.path /\ path # <<>>

(* What the verifier may say of a buffer, of the schema a query names. *)
Sayings(n, b) ==
  IF b.len < MinLen THEN {"TooSmall"}
  ELSE IF Schemas[n.schema].declares = None THEN {"NoRootTable"}
  ELSE IF Schemas[n.schema].unsupported THEN {"Unsupported"}
  ELSE IF Faults(b) # {} THEN Faults(b) ELSE {"ok"}

Came(kind, v, path) == [kind |-> kind, verdict |-> v, path |-> path]

(* What becomes of a query of a buffer. *)
Befalls(text, b, o) ==
  \/ b.len = 0 /\ o = Came("empty", None, <<>>)
  \/ /\ ~(b.len = 0) /\ o = Came("query", None, <<>>)
     /\ \E e \in Outcomes(text) : e.refused
  \/ /\ ~(b.len = 0)
     /\ \E n, path :
          /\ Parses(text, n, path)
          /\ \/ n.schema \notin DOMAIN Schemas /\ o = Came("schema", None, <<>>)
             \/ /\ n.schema \in DOMAIN Schemas
                /\ \E v \in Sayings(n, b) : o = Came("verified", v, path)

NothingFrom(f) == IF f = "query" THEN Null ELSE Rows(<<>>)

ShapeFrom(f, leaves) ==
  IF f = "query"
  THEN IF leaves = <<>> \/ Head(leaves) = None THEN Null ELSE Answer("leaf", <<Head(leaves)>>, "")
  ELSE Rows(Present(leaves))

(* What a query function answers of it. *)
Replies(f, b, o) ==
  IF o.kind = "empty" THEN NothingFrom(f)
  ELSE IF o.kind \in {"query", "schema"} THEN Error(o.kind)
  ELSE IF o.verdict # "ok" THEN IF ShouldErrorOn(o.verdict) THEN Error("verifier") ELSE NothingFrom(f)
  ELSE IF Walk(b, o.path) = Err THEN Error("executor") ELSE ShapeFrom(f, Walk(b, o.path))

Asked(c, a, v) ==
  c.fn \in Queries =>
    \E o : Befalls(c.text, c.arg, o) /\ o.verdict = v /\ a = Replies(c.fn, c.arg, o)

(* The inductive invariant of two calls of query functions. *)
AskInv ==
  /\ stage = "parsing" => input = call.text /\ LedHere
  /\ stage \in {"lookup", "verified"} /\ fn \in Queries => Parses(call.text, name, steps)
  /\ stage = "verified" => name.schema \in DOMAIN Schemas
  /\ stage = "done" => Asked(call, answer, verdict)
  /\ last # None => \E v : Asked(last.call, last.answer, v)

(* A query is read in one way. *)
LEMMA OneParse ==
  ASSUME NEW text \in Seq(Chars), NEW n, NEW path, Parses(text, n, path)
  PROVE  /\ \A m, way : Parses(text, m, way) => m = n /\ way = path
         /\ ~\E e \in Outcomes(text) : e.refused
BY OneOutcome DEF Parses

(* What the verifier says it can say alone, unless it is of several faults.*)
LEMMA OneSaying ==
  ASSUME NEW n, NEW b, NEW v \in Sayings(n, b), NEW w \in Sayings(n, b),
         v \in Reasons => Faults(b) = {v}
  PROVE  v = w
<1>1. Faults(b) \subseteq Reasons
  BY DEF Faults
<1> QED BY <1>1 DEF Sayings

LEMMA OneBefalls ==
  ASSUME NEW text \in Seq(Chars), NEW b, NEW o, NEW q, Befalls(text, b, o), Befalls(text, b, q),
         o.verdict \in Reasons => Faults(b) = {o.verdict}
  PROVE  o = q
<1>1. CASE b.len = 0
  BY <1>1 DEF Befalls
<1>2. CASE ~(b.len = 0) /\ \E e \in Outcomes(text) : e.refused
  <2>1. \A n, path : ~Parses(text, n, path)
    BY <1>2, OneParse
  <2> QED BY <1>2, <2>1 DEF Befalls
<1>3. CASE ~(b.len = 0) /\ ~\E e \in Outcomes(text) : e.refused
  <2>1. PICK n, path :
          /\ Parses(text, n, path)
          /\ \/ n.schema \notin DOMAIN Schemas /\ o = Came("schema", None, <<>>)
             \/ /\ n.schema \in DOMAIN Schemas
                /\ \E v \in Sayings(n, b) : o = Came("verified", v, path)
    BY <1>3 DEF Befalls
  <2>2. \/ n.schema \notin DOMAIN Schemas /\ q = Came("schema", None, <<>>)
        \/ /\ n.schema \in DOMAIN Schemas
           /\ \E v \in Sayings(n, b) : q = Came("verified", v, path)
    <3>1. PICK m, way :
            /\ Parses(text, m, way)
            /\ \/ m.schema \notin DOMAIN Schemas /\ q = Came("schema", None, <<>>)
               \/ /\ m.schema \in DOMAIN Schemas
                  /\ \E v \in Sayings(m, b) : q = Came("verified", v, way)
      BY <1>3 DEF Befalls
    <3>2. m = n /\ way = path
      BY <2>1, <3>1, OneParse
    <3> QED BY <3>1, <3>2
  <2>3. CASE n.schema \notin DOMAIN Schemas
    BY <2>1, <2>2, <2>3
  <2>4. CASE n.schema \in DOMAIN Schemas
    <3>1. PICK v \in Sayings(n, b), w \in Sayings(n, b) :
            o = Came("verified", v, path) /\ q = Came("verified", w, path)
      BY <2>1, <2>2, <2>4
    <3>2. o.verdict = v
      BY <3>1 DEF Came
    <3>3. v = w
      BY <3>2, OneSaying
    <3> QED BY <3>1, <3>3
  <2> QED BY <2>3, <2>4
<1> QED BY <1>1, <1>2, <1>3

(* What befalls a query, and the reply, depend on the settings alone. *)
LEMMA AskedKept ==
  ASSUME UNCHANGED settings, NEW c, NEW a, NEW v, Asked(c, a, v)
  PROVE  Asked(c, a, v)'
<1>1. \A b : Faults(b)' = Faults(b)
  BY DEF Faults, Measure, MaxBytes
<1>2. \A n, b : Sayings(n, b)' = Sayings(n, b)
  BY <1>1 DEF Sayings
<1>3. \A o : Befalls(c.text, c.arg, o)' <=> Befalls(c.text, c.arg, o)
  BY <1>2 DEF Befalls
<1>4. \A o : Replies(c.fn, c.arg, o)' = Replies(c.fn, c.arg, o)
  BY DEF Replies, ShouldErrorOn, IsBoundExceedance, IsSchemaFeatureRejection
<1> QED BY <1>3, <1>4 DEF Asked

(* What was asked before stays as it was. *)
LEMMA LastKept ==
  ASSUME AskInv, UNCHANGED <<settings, last>>
  PROVE  (last # None => \E v : Asked(last.call, last.answer, v))'
<1>1. PICK c, a : c = last.call /\ a = last.answer
  OBVIOUS
<1>2. last # None => \E v : Asked(c, a, v)'
  BY <1>1, AskedKept DEF AskInv
<1> QED BY <1>1, <1>2

LEMMA FinishAsked ==
  ASSUME AskInv, NEW a, Finish(a), Asked(call, a, verdict)
  PROVE  AskInv'
<1>1. /\ stage' = "done" /\ answer' = a
      /\ UNCHANGED <<settings, call, verdict, last>>
  BY DEF Finish, session
<1>2. (Asked(call, answer, verdict))'
  <2>1. PICK c, v : c = call /\ v = verdict
    OBVIOUS
  <2>2. Asked(c, a, v)'
    BY <1>1, <2>1, AskedKept
  <2> QED BY <1>1, <2>1, <2>2
<1> QED BY <1>1, <1>2, LastKept DEF AskInv

LEMMA StepAsked ==
  ASSUME AskInv, stage' \in {"parsing", "lookup", "verified"},
         UNCHANGED <<settings, call, last>>,
         stage' = "parsing" => input' = call.text /\ LedHere',
         stage' \in {"lookup", "verified"} /\ fn \in Queries => Parses(call.text, name', steps'),
         stage' = "verified" => name'.schema \in DOMAIN Schemas
  PROVE  AskInv'
<1>1. (stage \in {"lookup", "verified"} /\ fn \in Queries => Parses(call.text, name, steps))'
  BY DEF fn, Parses
<1> QED BY <1>1, LastKept DEF AskInv

(* What is answered of any other function's call is not looked at. *)
LEMMA NotAsked ==
  ASSUME fn \notin Queries, NEW a
  PROVE  Asked(call, a, verdict)
BY DEF Asked, fn

(* What is answered of what befell a query. *)
LEMMA AskedOf ==
  ASSUME NEW o, Befalls(call.text, buf, o), o.verdict = verdict
  PROVE  Asked(call, Replies(fn, buf, o), verdict)
BY DEF Asked, fn, buf

LEMMA EmptyAsked ==
  ASSUME IInv, AskInv, AnswerEmpty
  PROVE  AskInv'
<1>1. CASE fn \notin Queries
  <2>1. \E a : Finish(a)
    BY FunctionsAre DEF AnswerEmpty
  <2> QED BY <1>1, <2>1, NotAsked, FinishAsked
<1>2. CASE fn \in Queries
  <2> DEFINE o == Came("empty", None, <<>>)
  <2>1. Befalls(call.text, buf, o) /\ o.verdict = verdict
    BY DEF AnswerEmpty, Befalls, Came, IInv, CallInv
  <2>2. Finish(Replies(fn, buf, o))
    <3>1. Replies(fn, buf, o) = NoLeaves
      BY DEF Replies, Came, NothingFrom, NoLeaves
    <3>2. Finish(NoLeaves)
      BY <1>2, FunctionsAre DEF AnswerEmpty
    <3> QED BY <3>1, <3>2
  <2> HIDE DEF o
  <2> QED BY <2>1, <2>2, AskedOf, FinishAsked
<1> QED BY <1>1, <1>2

LEMMA NamingAsked ==
  ASSUME IInv, AskInv, NameFails \/ NameSplit \/ NameGiven
  PROVE  AskInv'
<1>1. fn \notin Queries
  BY FunctionsAre DEF NameFails, NameSplit, NameGiven, Queries, Named
<1>2. CASE NameFails
  BY <1>1, <1>2, NotAsked, FinishAsked DEF NameFails
<1>3. CASE NameSplit \/ NameGiven
  <2>1. stage' = "lookup" /\ UNCHANGED <<settings, call, last>>
    BY <1>3 DEF NameSplit, NameGiven, LookUp, session
  <2> QED BY <1>1, <2>1, StepAsked
<1> QED BY <1>2, <1>3

(* The configuration a query's parse ends in is the string's outcome. *)
LEMMA EndIsOutcome ==
  ASSUME IInv, AskInv, stage = "parsing", pc = "end"
  PROVE  Here \in Outcomes(call.text)
BY HereInConfigs, HereIs DEF IInv, ParserInv, AskInv, LedHere, Outcomes

LEMMA ParsingAsked ==
  ASSUME IInv, IInv', AskInv, BeginParse \/ Parse \/ ParseFails \/ Parsed
  PROVE  AskInv'
<1>1. fn \in Queries
  BY DEF BeginParse, Parse, ParseFails, Parsed, IInv, CallInv
<1>2. CASE BeginParse
  <2>1. /\ stage' = "parsing" /\ UNCHANGED <<settings, call, last>>
        /\ StartParser(call.text)
    BY <1>2 DEF BeginParse, session
  <2>2. input' = call.text /\ LedHere'
    BY <2>1, StartLeads DEF StartParser
  <2> QED BY <2>1, <2>2, StepAsked
<1>3. CASE Parse
  <2>1. /\ stage = "parsing" /\ stage' = "parsing" /\ UNCHANGED <<settings, call, last>>
        /\ ParserNext
    BY <1>3 DEF Parse, session
  <2>2. input' = input /\ LedHere'
    BY <2>1, NextLeads, NextIsAfter DEF IInv, ParserInv, AskInv
  <2> QED BY <2>1, <2>2, StepAsked DEF AskInv
<1>4. CASE ParseFails
  <2>1. stage = "parsing" /\ pc = "end" /\ Refused /\ Finish(Error("query"))
    BY <1>4 DEF ParseFails
  <2> DEFINE o == Came("query", None, <<>>)
  <2>2. \E e \in Outcomes(call.text) : e.refused
    BY <2>1, EndIsOutcome, HereIs
  <2>3. ~(buf.len = 0) /\ verdict = None
    BY <1>1, <2>1, FunctionsAre DEF IInv, CallInv
  <2>4. Befalls(call.text, buf, o) /\ o.verdict = verdict
    BY <2>2, <2>3 DEF Befalls, Came
  <2>5. Replies(fn, buf, o) = Error("query")
    BY DEF Replies, Came
  <2> HIDE DEF o
  <2> QED BY <2>1, <2>4, <2>5, AskedOf, FinishAsked
<1>5. CASE Parsed
  <2>1. /\ stage = "parsing" /\ pc = "end" /\ ~Refused /\ UNCHANGED <<settings, call, last, steps>>
        /\ stage' = "lookup"
        /\ name' = [schema |-> IF root.schema = <<>> THEN DefaultSchema ELSE root.schema,
                    table |-> root.table]
    BY <1>5 DEF Parsed, LookUp, Accepted, Refused, session, parser
  <2>2. name' = AskedName(Here) /\ steps' = Here.path /\ ~Here.refused /\ steps' # <<>>
    BY <2>1, HereIs DEF AskedName, IInv, ParserInv, Accepted, Refused
  <2>3. Parses(call.text, name', steps')
    BY <2>1, <2>2, EndIsOutcome DEF Parses
  <2> QED BY <2>1, <2>3, StepAsked
<1> QED BY <1>2, <1>3, <1>4, <1>5

LEMMA LookupAsked ==
  ASSUME IInv, AskInv, LookupFails \/ AnswerRootType \/ RootDiffers \/ AnswerFromJson
  PROVE  AskInv'
<1>1. CASE fn \notin Queries
  <2>1. \E a : Finish(a)
    BY DEF LookupFails, AnswerRootType, RootDiffers, AnswerFromJson
  <2> QED BY <1>1, <2>1, NotAsked, FinishAsked
<1>2. CASE fn \in Queries
  <2>1. LookupFails
    BY <1>2, FunctionsAre DEF AnswerRootType, RootDiffers, AnswerFromJson, Queries, Named
  <2>2. /\ stage = "lookup" /\ name.schema \notin DOMAIN Schemas /\ Finish(Error("schema"))
    BY <2>1 DEF LookupFails
  <2> DEFINE o == Came("schema", None, <<>>)
  <2>3. ~(buf.len = 0) /\ verdict = None
    BY <1>2, <2>2, FunctionsAre DEF IInv, CallInv
  <2>4. Parses(call.text, name, steps)
    BY <1>2, <2>2 DEF AskInv
  <2>5. Befalls(call.text, buf, o) /\ o.verdict = verdict
    BY <2>2, <2>3, <2>4 DEF Befalls, Came
  <2>6. Replies(fn, buf, o) = Error("schema")
    BY DEF Replies, Came
  <2> HIDE DEF o
  <2> QED BY <2>2, <2>5, <2>6, AskedOf, FinishAsked
<1> QED BY <1>1, <1>2

LEMMA VerifyAsked ==
  ASSUME IInv, AskInv, Verify
  PROVE  AskInv'
<1>1. /\ stage = "lookup" /\ stage' = "verified" /\ UNCHANGED <<settings, call, last, name, steps>>
      /\ name.schema \in DOMAIN Schemas
  BY DEF Verify, RootAgrees, Found, session, parser
<1> QED BY <1>1, StepAsked DEF AskInv

LEMMA AnswerAsked ==
  ASSUME IInv, AskInv, AnswerRejected \/ AnswerQuery \/ AnswerVerified \/ AnswerToJson
  PROVE  AskInv'
<1>1. stage = "verified"
  BY DEF AnswerRejected, AnswerQuery, AnswerVerified, AnswerToJson, Verified
<1>2. CASE fn \notin Queries
  <2>1. \E a : Finish(a)
    <3>1. fn \in {"verify", "to_json"}
      BY <1>1, <1>2, FunctionsAre DEF IInv, CallInv, Examined
    <3> QED BY <1>2, <3>1 DEF AnswerRejected, AnswerQuery, AnswerVerified, AnswerToJson
  <2> QED BY <1>2, <2>1, NotAsked, FinishAsked
<1>3. CASE fn \in Queries
  <2> DEFINE o == Came("verified", verdict, steps)
  <2>1. /\ verdict \in Verdicts(buf) /\ ~(buf.len = 0)
        /\ name.schema \in DOMAIN Schemas /\ Parses(call.text, name, steps)
    BY <1>1, <1>3 DEF IInv, CallInv, Examined, AskInv
  <2>2. verdict \in Sayings(name, buf)
    BY <2>1 DEF Sayings, Verdicts, Row
  <2>3. Befalls(call.text, buf, o)
    BY <2>1, <2>2 DEF Befalls
  <2>4. o.kind = "verified" /\ o.verdict = verdict /\ o.path = steps
    BY DEF Came
  <2> HIDE DEF o
  <2>5. Finish(Replies(fn, buf, o))
    <3>1. CASE AnswerRejected
      <4>1. Finish(IF ShouldErrorOn(verdict) THEN Error("verifier") ELSE NoLeaves) /\ verdict # "ok"
        BY <1>3, <3>1, FunctionsAre DEF AnswerRejected
      <4>2. Replies(fn, buf, o) = IF ShouldErrorOn(verdict) THEN Error("verifier") ELSE NoLeaves
        BY <2>4, <4>1 DEF Replies, NothingFrom, NoLeaves
      <4> QED BY <4>1, <4>2
    <3>2. CASE AnswerQuery
      <4>1. /\ verdict = "ok"
            /\ Finish(IF Walk(buf, steps) = Err THEN Error("executor") ELSE Shape(Walk(buf, steps)))
        BY <3>2 DEF AnswerQuery, Verified
      <4>2. Shape(Walk(buf, steps)) = ShapeFrom(fn, Walk(buf, steps))
        BY DEF Shape, ShapeFrom
      <4>3. Replies(fn, buf, o) = IF Walk(buf, steps) = Err THEN Error("executor")
                                  ELSE Shape(Walk(buf, steps))
        BY <2>4, <4>1, <4>2 DEF Replies
      <4> QED BY <4>1, <4>3
    <3>3. ~AnswerVerified /\ ~AnswerToJson
      BY <1>3, FunctionsAre DEF AnswerVerified, AnswerToJson, Queries
    <3> QED BY <3>1, <3>2, <3>3
  <2> QED BY <2>3, <2>4, <2>5, AskedOf, FinishAsked
<1> QED BY <1>2, <1>3

LEMMA SessionAsked ==
  ASSUME IInv, AskInv, SetBound \/ SetFlag \/ Forget \/ Call \/ Return
  PROVE  AskInv'
<1>1. CASE SetBound \/ SetFlag \/ Forget
  BY <1>1 DEF SetBound, SetFlag, Forget, AskInv
<1>2. CASE Call
  <2>1. stage' = "called" /\ UNCHANGED <<settings, last>>
    BY <1>2 DEF Call, session
  <2> QED BY <2>1, LastKept DEF AskInv
<1>3. CASE Return
  <2>1. /\ stage = "done" /\ stage' = "idle" /\ UNCHANGED settings
        /\ last' = [call |-> call, answer |-> answer]
    BY <1>3 DEF Return
  <2>2. PICK c, a, v : c = call /\ a = answer /\ v = verdict
    OBVIOUS
  <2>3. Asked(c, a, v)'
    BY <2>1, <2>2, AskedKept DEF AskInv
  <2>4. (\E w : Asked(last.call, last.answer, w))'
    BY <2>1, <2>2, <2>3
  <2> QED BY <2>1, <2>4 DEF AskInv
<1> QED BY <1>1, <1>2, <1>3

LEMMA AskNext == IInv /\ IInv' /\ AskInv /\ [Next]_vars => AskInv'
<1> SUFFICES ASSUME IInv, IInv', AskInv, [Next]_vars PROVE AskInv'
  OBVIOUS
<1>1. CASE UNCHANGED vars
  <2>1. UNCHANGED <<settings, call, stage, name, verdict, answer, last>> /\ UNCHANGED parser
    BY <1>1 DEF vars, session, progress
  <2>2. (stage = "done" => Asked(call, answer, verdict))'
    <3>1. PICK c, a, v : c = call /\ a = answer /\ v = verdict
      OBVIOUS
    <3>2. stage = "done" => Asked(c, a, v)'
      BY <2>1, <3>1, AskedKept DEF AskInv
    <3> QED BY <2>1, <3>1, <3>2
  <2>3. /\ (stage = "parsing" => input = call.text /\ LedHere)'
        /\ (stage \in {"lookup", "verified"} /\ fn \in Queries => Parses(call.text, name, steps))'
    BY <2>1 DEF AskInv, parser, LedHere, Here, Refused, fn, Parses
  <2> QED BY <2>1, <2>2, <2>3, LastKept DEF AskInv
<1>2. CASE Next
  BY <1>2, SessionAsked, EmptyAsked, ParsingAsked, NamingAsked, LookupAsked, VerifyAsked, AnswerAsked
     DEF Next
<1> QED BY <1>1, <1>2

LEMMA AskSound == Spec => []AskInv
<1>1. Init => AskInv
  BY DEF Init, AskInv
<1> QED BY <1>1, AskNext, Soundness, PTL DEF Spec

-----------------------------------------------------------------------------
(* A first leaf that is there is the first of those that are.              *)
LEMMA FirstPresent ==
  ASSUME NEW Leaf, NEW leaves \in Seq(Leaf), leaves # <<>>, Head(leaves) # None
  PROVE  Present(leaves) # <<>> /\ Head(Present(leaves)) = Head(leaves)
<1> DEFINE there == {n \in DOMAIN leaves : leaves[n] # None}
           upto(n) == {m \in there : m <= n}
           Nth(k) == CHOOSE n \in there : Cardinality(upto(n)) = k
           shown == [k \in 1 .. Cardinality(there) |-> leaves[Nth(k)]]
<1>1. Present(leaves) = shown
  BY DEF Present
<1>2. /\ DOMAIN leaves = 1 .. Len(leaves) /\ Len(leaves) \in Nat
      /\ 1 \in DOMAIN leaves /\ Head(leaves) = leaves[1]
  OBVIOUS
<1>3. there \subseteq 1 .. Len(leaves) /\ 1 \in there
  BY <1>2
<1> HIDE DEF there
<1>4. IsFiniteSet(there)
  <2>1. IsFiniteSet(1 .. Len(leaves)) /\ there \in SUBSET (1 .. Len(leaves))
    BY <1>2, <1>3, FS_Interval
  <2> QED BY <2>1, FS_Subset
<1>5. Cardinality(there) \in Nat /\ Cardinality(there) # 0
  BY <1>3, <1>4, FS_CardinalityType, FS_EmptySet
<1>6. upto(1) = {1}
  <2>1. \A m \in there : m \in Nat /\ 1 <= m
    BY <1>2, <1>3
  <2>2. \A m \in there : m <= 1 => m = 1
    BY <2>1
  <2>3. 1 <= 1
    OBVIOUS
  <2> QED BY <1>3, <2>2, <2>3
<1>7. Cardinality(upto(1)) = 1
  BY <1>6, FS_Singleton
<1>8. ASSUME NEW n \in there, Cardinality(upto(n)) = 1
      PROVE  n = 1
  <2>1. upto(n) \subseteq there /\ n \in upto(n) /\ 1 \in upto(n)
    BY <1>2, <1>3
  <2>2. IsFiniteSet(upto(n))
    BY <1>4, <2>1, FS_Subset
  <2> HIDE DEF upto
  <2>3. \E x : upto(n) = {x}
    BY <1>8, <2>2, FS_Singleton
  <2> QED BY <2>1, <2>3
<1> HIDE DEF upto
<1>9. Nth(1) = 1
  BY <1>3, <1>7, <1>8
<1> HIDE DEF Nth
<1>10. 1 \in DOMAIN shown /\ shown[1] = leaves[1]
  BY <1>5, <1>9
<1>11. shown \in Seq({leaves[Nth(k)] : k \in 1 .. Cardinality(there)})
  BY <1>5
<1> HIDE DEF shown
<1>12. shown # <<>> /\ Head(shown) = shown[1]
  BY <1>10, <1>11
<1> QED BY <1>1, <1>2, <1>10, <1>12

(* What is in an answer. *)
LEMMA LeavesIn ==
  ASSUME NEW kind, NEW leaves, NEW why, NEW a, a = Answer(kind, leaves, why)
  PROVE  a.leaves = leaves
BY DEF Answer

LEMMA OneLeaf == \A leaf : <<leaf>> # <<>> /\ Head(<<leaf>>) = leaf /\ <<leaf>>[1] = leaf
OBVIOUS

(* A buffer that reaches the verifier is asked for the path of the query.  *)
LEMMA VerifiedPath ==
  ASSUME NEW text, NEW b, NEW o, Befalls(text, b, o), o.kind \notin {"empty", "query", "schema"}
  PROVE  o.path \in Seq(Steps) \ {<<>>}
<1>1. \A kind, v, path : Came(kind, v, path).kind = kind /\ Came(kind, v, path).path = path
  BY DEF Came
<1>2. PICK n, path, v : Parses(text, n, path) /\ o = Came("verified", v, path)
  BY <1>1 DEF Befalls
<1>3. path \in Seq(Steps) \ {<<>>}
  BY <1>2 DEF Parses, Outcomes, Configs
<1> QED BY <1>1, <1>2, <1>3

(* The executor answers the leaves of a path in their order, or fails. *)
WalkReads(Leaf) ==
  \A b : \A path \in Seq(Steps) \ {<<>>} : Walk(b, path) \in Seq(Leaf) \cup {Err}

(* ShapesAgree: in any session, whatever the catalog and the executor, the *)
(* three query functions fail alike on a string and a buffer, the two that *)
(* answer rows answer the same, and the one that answers a leaf answers    *)
(* the first of their rows.                                                *)
THEOREM QueriesAgree ==
  ASSUME NEW Leaf, WalkReads(Leaf)
  PROVE  Spec => []ShapesAgree
<1>1. IInv /\ PairInv /\ AskInv => ShapesAgree
  <2> SUFFICES ASSUME IInv, PairInv, AskInv, Answered, last # None, {fn, last.call.fn} \subseteq Queries,
                      verdict \in Reasons => Faults(buf) = {verdict}
               PROVE  IF Failed \/ last.answer.kind = "error" \/ "query" \notin {fn, last.call.fn}
                      THEN answer = last.answer
                      ELSE LET one == IF fn = "query" THEN answer ELSE last.answer
                               rows == IF fn = "query" THEN last.answer ELSE answer
                           IN  one.kind = "leaf" =>
                                 rows.leaves # <<>> /\ Head(rows.leaves) = one.leaves[1]
    BY DEF ShapesAgree
  <2> DEFINE g == last.call.fn
  <2>1. /\ call.text \in Seq(Chars) /\ last.call.text = call.text /\ last.call.arg = buf
        /\ fn \in Queries /\ g \in Queries
    BY DEF IInv, CallInv, PairInv, Answered, buf
  <2>2. PICK o :
          /\ Befalls(call.text, buf, o)
          /\ answer = Replies(fn, buf, o) /\ last.answer = Replies(g, buf, o)
    <3>1. PICK o : Befalls(call.text, buf, o) /\ o.verdict = verdict /\ answer = Replies(fn, buf, o)
      BY <2>1 DEF AskInv, Asked, Answered, fn, buf
    <3>2. PICK q : Befalls(call.text, buf, q) /\ last.answer = Replies(g, buf, q)
      BY <2>1 DEF AskInv, Asked
    <3>3. o = q
      BY <2>1, <3>1, <3>2, OneBefalls
    <3> QED BY <3>1, <3>2, <3>3
  <2> HIDE DEF g
  <2>3. ASSUME NEW f \in Queries, Replies(f, buf, o).kind = "error"
        PROVE  \A h \in Queries : Replies(h, buf, o) = Replies(f, buf, o)
    <3>1. /\ NothingFrom(f).kind # "error"
          /\ \A leaves : ShapeFrom(f, leaves).kind # "error"
      BY DEF NothingFrom, ShapeFrom, Null, Rows, Answer
    <3> QED BY <2>3, <3>1 DEF Replies
  <2>4. ASSUME NEW f \in Queries \ {"query"}, NEW h \in Queries \ {"query"}
        PROVE  Replies(h, buf, o) = Replies(f, buf, o)
    BY DEF Replies, NothingFrom, ShapeFrom
  <2>5. ASSUME NEW f \in Queries, Replies("query", buf, o).kind = "leaf",
               Replies(f, buf, o).kind # "error"
        PROVE  /\ Replies(f, buf, o).leaves # <<>>
               /\ Head(Replies(f, buf, o).leaves) = Replies("query", buf, o).leaves[1]
    <3> DEFINE walked == Walk(buf, o.path)
    <3>1. /\ o.kind \notin {"empty", "query", "schema"} /\ walked # Err /\ walked # <<>>
          /\ Head(walked) # None /\ Replies("query", buf, o) = Answer("leaf", <<Head(walked)>>, "")
          /\ o.verdict = "ok"
      BY <2>5 DEF Replies, NothingFrom, ShapeFrom, Null, Error, Answer
    <3>2. o.path \in Seq(Steps) \ {<<>>}
      BY <2>2, <3>1, VerifiedPath
    <3>3. walked \in Seq(Leaf)
      BY <3>1, <3>2 DEF WalkReads
    <3>4. Replies(f, buf, o) = ShapeFrom(f, walked)
      BY <3>1 DEF Replies
    <3> HIDE DEF walked
    <3>5. Replies("query", buf, o).leaves = <<Head(walked)>>
      <4>1. PICK s : s = <<Head(walked)>>
        OBVIOUS
      <4>2. Replies("query", buf, o) = Answer("leaf", s, "")
        BY <3>1, <4>1
      <4>3. Replies("query", buf, o).leaves = s
        BY <4>2, LeavesIn, Zenon
      <4> QED BY <4>1, <4>3
    <3>6. Replies("query", buf, o).leaves[1] = Head(walked)
      <4>1. PICK leaf : leaf = Head(walked)
        OBVIOUS
      <4>2. Replies("query", buf, o).leaves = <<leaf>>
        BY <3>5, <4>1
      <4> QED BY <4>1, <4>2, OneLeaf
    <3>7. CASE f = "query"
      <4>1. Replies(f, buf, o).leaves = <<Head(walked)>>
        BY <3>5, <3>7
      <4> QED BY <3>6, <4>1, OneLeaf
    <3>8. CASE f # "query"
      <4>1. Replies(f, buf, o) = Rows(Present(walked))
        BY <3>4, <3>8 DEF ShapeFrom
      <4>2. Replies(f, buf, o).leaves = Present(walked)
        BY <4>1, LeavesIn, Zenon DEF Rows
      <4>3. Present(walked) # <<>> /\ Head(Present(walked)) = Head(walked)
        BY <3>1, <3>3, FirstPresent
      <4> QED BY <3>6, <4>2, <4>3
    <3> QED BY <3>7, <3>8
  <2>6. CASE Failed \/ last.answer.kind = "error" \/ "query" \notin {fn, g}
    BY <2>1, <2>2, <2>3, <2>4, <2>6 DEF Failed, g
  <2>7. CASE ~(Failed \/ last.answer.kind = "error" \/ "query" \notin {fn, g})
    BY <2>1, <2>2, <2>5, <2>7 DEF Failed, g
  <2> QED BY <2>6, <2>7 DEF g
<1> QED BY <1>1, Soundness, PairSound, AskSound, PTL
=============================================================================
