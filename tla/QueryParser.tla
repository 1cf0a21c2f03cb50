---------------------------- MODULE QueryParser ----------------------------
(***************************************************************************)
(* The parser of query strings, `[<schema>:]<table>:<path>`: one action    *)
(* per step that the path may gain and per way to be refused.              *)
(*                                                                         *)
(* A string is a sequence of characters, and its length is theirs. Runs of *)
(* letters stand for words: "keys" and "type" are characters of their own. *)
(***************************************************************************)
EXTENDS Integers, Sequences

CONSTANTS
  Letters,     \* alphabetic characters
  Digit,       \* the values of the characters that are digits
  OtherChars,  \* characters the grammar gives no meaning to
  MaxLength,   \* DEFAULT_MAX_QUERY_LENGTH
  MaxDepth,    \* DEFAULT_MAX_PATH_DEPTH
  MaxId,       \* u16::MAX
  MaxIndex     \* usize::MAX

Digits == DOMAIN Digit

Punctuation == {"_", ".", ":", "[", "]", "*", "|", "#"}

Chars == Letters \cup Digits \cup OtherChars \cup Punctuation

ASSUME CharsAssumption ==
  /\ {"keys", "type"} \subseteq Letters
  /\ \A d \in Digits : Digit[d] \in 0 .. 9
  /\ (Letters \cup Digits) \cap Punctuation = {}
  /\ {MaxLength, MaxDepth, MaxId, MaxIndex} \subseteq Nat

VARIABLES
  input,    \* the query string
  pos,      \* how much of it is consumed
  pc,       \* "header", "segment", "selectors", "marked" (after `|keyword`), "end"
  root,     \* schema and table of the header; an empty schema when none is named
  steps,    \* steps of the path so far
  refusal   \* the kind of error and its position, if the string is refused

parser == <<input, pos, pc, root, steps, refusal>>

NoRoot == [schema |-> <<>>, table |-> <<>>]
NoError == [kind |-> "none", at |-> 0]

(* A step: text is its name or its key, number its field id or its index.  *)
Step(kind, text, number) == [kind |-> kind, text |-> text, number |-> number]

Fields == {"name", "id"}
Marks == {"keys", "type"}

StepKinds == Fields \cup {"index", "all", "key"} \cup Marks

ErrorKinds ==
  {"QueryTooLong", "PathTooDeep", "MissingPathSeparator", "TooManyColons", "EmptyComponent",
   "ExpectedIdentifier", "UnexpectedChar", "InvalidFieldId", "UnclosedBracket", "EmptyBracket",
   "IndexTooLarge", "UnknownPipeKeyword", "TrailingAfterPipe"}

ParserInit ==
  /\ input = <<>>
  /\ pos = 0
  /\ pc = "header"
  /\ root = NoRoot
  /\ steps = <<>>
  /\ refusal = NoError

(* parse is called with a text. *)
StartParser(text) ==
  /\ input' = text
  /\ pos' = 0
  /\ pc' = "header"
  /\ root' = NoRoot
  /\ steps' = <<>>
  /\ refusal' = NoError

Accepted == pc = "end" /\ refusal = NoError
Refused == refusal # NoError

(***************************************************************************)
(* Characters                                                              *)
(***************************************************************************)
IdentStart == Letters \cup {"_"}
IdentCont == IdentStart \cup Digits

More == pos < Len(input)
Sees(c) == More /\ input[pos + 1] = c

(* The characters after i, up to and including the j-th. *)
Text(i, j) == SubSeq(input, i + 1, j)

(* The j-th is the last of the characters of S that follow the i-th. *)
RunEnds(i, j, S) ==
  /\ j \in i .. Len(input)
  /\ \A k \in i + 1 .. j : input[k] \in S
  /\ j < Len(input) => input[j + 1] \notin S

(* The number that digits spell. *)
Number(digits) ==
  LET v[n \in 0 .. Len(digits)] ==
        IF n = 0 THEN 0 ELSE 10 * v[n - 1] + Digit[digits[n]]
  IN  v[Len(digits)]

Refuse(kind, at) ==
  /\ refusal' = [kind |-> kind, at |-> at]
  /\ pc' = "end"
  /\ UNCHANGED <<input, pos, root, steps>>

(***************************************************************************)
(* The header                                                              *)
(***************************************************************************)
InHeader == pc = "header" /\ Len(input) <= MaxLength

RefuseLong ==
  /\ pc = "header" /\ Len(input) > MaxLength
  /\ Refuse("QueryTooLong", 0)

Colons == {i \in DOMAIN input : input[i] = ":"}

(* The table begins after t, the path after p. *)
Splits(t, p) ==
  /\ p \in Colons /\ t \in Colons \cup {0} /\ t < p
  /\ Colons \subseteq {t, p}

RefuseNoColon ==
  /\ InHeader /\ Colons = {}
  /\ Refuse("MissingPathSeparator", Len(input))

RefuseColons ==
  /\ InHeader
  /\ \E i, j, k \in Colons : i < j /\ j < k
  /\ Refuse("TooManyColons", 0)

(* Nothing stands between offset i and the next colon, or the end. *)
EmptyAt(i) == i < Len(input) => input[i + 1] = ":"

RefuseEmptyPart ==
  /\ InHeader
  /\ \E t, p \in 0 .. Len(input) :
       /\ Splits(t, p)
       /\ \E i \in {0, t, p} :
            /\ EmptyAt(i) /\ \A j \in {0, t, p} : j < i => ~EmptyAt(j)
            /\ Refuse("EmptyComponent", i)

WholeParts(t, p) == Splits(t, p) /\ \A i \in {0, t, p} : ~EmptyAt(i)

(* The i-th character begins a component of the dotted name after t. *)
Begins(t, i) == i = t + 1 \/ input[i - 1] = "."

(* What validate_table_name says of the i-th character. *)
TableError(t, i) ==
  CASE Begins(t, i) /\ input[i] = "."             -> "EmptyComponent"
    [] Begins(t, i) /\ input[i] # "."             ->
         IF input[i] \in IdentStart THEN "none" ELSE "ExpectedIdentifier"
    [] ~Begins(t, i)                              ->
         IF input[i] \in IdentCont \cup {"."} THEN "none" ELSE "UnexpectedChar"

TableIsName(t, p) ==
  /\ \A i \in t + 1 .. p - 1 : TableError(t, i) = "none"
  /\ input[p - 1] # "."

RefuseTable ==
  /\ InHeader
  /\ \E t, p \in 0 .. Len(input) :
       /\ WholeParts(t, p) /\ ~TableIsName(t, p)
       /\ \E i \in t + 1 .. p :
            /\ \A j \in t + 1 .. i - 1 : TableError(t, j) = "none"
            /\ IF i = p THEN Refuse("EmptyComponent", p - 1)
               ELSE TableError(t, i) # "none" /\ Refuse(TableError(t, i), i - 1)

(* What validate_schema_name says of the i-th character. *)
SchemaError(i) ==
  IF i = 1 THEN IF input[i] \in IdentStart THEN "none" ELSE "ExpectedIdentifier"
           ELSE IF input[i] \in IdentCont THEN "none" ELSE "UnexpectedChar"

RefuseSchema ==
  /\ InHeader
  /\ \E t, p \in 0 .. Len(input) :
       /\ WholeParts(t, p) /\ TableIsName(t, p)
       /\ \E i \in 1 .. t - 1 :
            /\ SchemaError(i) # "none"
            /\ \A j \in 1 .. i - 1 : SchemaError(j) = "none"
            /\ Refuse(SchemaError(i), i - 1)

ReadHeader ==
  /\ InHeader
  /\ \E t, p \in 0 .. Len(input) :
       /\ WholeParts(t, p) /\ TableIsName(t, p)
       /\ \A i \in 1 .. t - 1 : SchemaError(i) = "none"
       /\ root' = [schema |-> Text(0, t - 1), table |-> Text(t, p - 1)]
       /\ pos' = p
  /\ pc' = "segment"
  /\ UNCHANGED <<input, steps, refusal>>

(***************************************************************************)
(* The path                                                                *)
(***************************************************************************)
(* Mutant of Push: the limit is checked after the step is added. *)
PushThenCheck(step, end, next) ==
  /\ steps' = Append(steps, step)
  /\ pos' = end
  /\ IF Len(steps) > MaxDepth
     THEN refusal' = [kind |-> "PathTooDeep", at |-> end] /\ pc' = "end"
     ELSE pc' = next /\ UNCHANGED refusal
  /\ UNCHANGED <<input, root>>

(* The text of a step ends at end; the path goes on as next says. *)
Push(step, end, next) ==
  IF Len(steps) = MaxDepth THEN Refuse("PathTooDeep", end)
  ELSE /\ steps' = Append(steps, step)
       /\ pos' = end
       /\ pc' = next
       /\ UNCHANGED <<input, root, refusal>>

AtSegment == pc = "segment"

FieldByName ==
  /\ AtSegment /\ More /\ input[pos + 1] \in IdentStart
  /\ \E end \in pos .. Len(input) :
       RunEnds(pos, end, IdentCont) /\ Push(Step("name", Text(pos, end), 0), end, "selectors")

(* Mutant of FieldById: an id of any size is taken. *)
FieldByAnyId ==
  /\ AtSegment /\ Sees("#")
  /\ \E end \in pos + 1 .. Len(input) :
       /\ RunEnds(pos + 1, end, Digits)
       /\ IF end > pos + 1
          THEN Push(Step("id", <<>>, Number(Text(pos + 1, end))), end, "selectors")
          ELSE Refuse("InvalidFieldId", pos)

FieldById ==
  /\ AtSegment /\ Sees("#")
  /\ \E end \in pos + 1 .. Len(input) :
       /\ RunEnds(pos + 1, end, Digits)
       /\ IF end > pos + 1 /\ Number(Text(pos + 1, end)) \in 0 .. MaxId
          THEN Push(Step("id", <<>>, Number(Text(pos + 1, end))), end, "selectors")
          ELSE Refuse("InvalidFieldId", pos)

RefuseField ==
  /\ AtSegment /\ ~Sees("#")
  /\ More => input[pos + 1] \notin IdentStart
  /\ Refuse("ExpectedIdentifier", pos)

AtBracket == pc = "selectors" /\ Sees("[")

(* A bracket's text runs to the first "]". *)
Closes(close) ==
  /\ close \in pos + 2 .. Len(input) /\ input[close] = "]"
  /\ \A k \in pos + 2 .. close - 1 : input[k] # "]"

RefuseUnclosed ==
  /\ AtBracket /\ \A k \in pos + 2 .. Len(input) : input[k] # "]"
  /\ Refuse("UnclosedBracket", pos)

RefuseEmptyBracket ==
  /\ AtBracket /\ Closes(pos + 2)
  /\ Refuse("EmptyBracket", pos)

IsNumeral(text) == \A k \in DOMAIN text : text[k] \in Digits

BracketAll ==
  /\ AtBracket /\ Closes(pos + 3) /\ input[pos + 2] = "*"
  /\ Push(Step("all", <<>>, 0), pos + 3, "selectors")

BracketIndex ==
  /\ AtBracket
  /\ \E close \in pos + 3 .. Len(input) :
       LET text == Text(pos + 1, close - 1) IN
       /\ Closes(close) /\ IsNumeral(text)
       /\ IF Number(text) \in 0 .. MaxIndex
          THEN Push(Step("index", <<>>, Number(text)), close, "selectors")
          ELSE Refuse("IndexTooLarge", pos + 1)

BracketKey ==
  /\ AtBracket
  /\ \E close \in pos + 3 .. Len(input) :
       LET text == Text(pos + 1, close - 1) IN
       /\ Closes(close) /\ ~IsNumeral(text) /\ text # <<"*">>
       /\ Push(Step("key", text, 0), close, "selectors")

AtPipe == pc = "selectors" /\ Sees("|")

(* Mutant of Pipe: selectors may follow a mark. *)
PipeGoesOn ==
  /\ AtPipe
  /\ \E end \in pos + 1 .. Len(input) :
       /\ RunEnds(pos + 1, end, Letters)
       /\ IF \E mark \in Marks : Text(pos + 1, end) = <<mark>>
          THEN Push(Step(input[end], <<>>, 0), end, "selectors")
          ELSE Refuse("UnknownPipeKeyword", pos)

Pipe ==
  /\ AtPipe
  /\ \E end \in pos + 1 .. Len(input) :
       /\ RunEnds(pos + 1, end, Letters)
       /\ IF \E mark \in Marks : Text(pos + 1, end) = <<mark>>
          THEN Push(Step(input[end], <<>>, 0), end, "marked")
          ELSE Refuse("UnknownPipeKeyword", pos)

AfterSegment == pc \in {"selectors", "marked"}

RefuseAfterPipe ==
  /\ pc = "marked" /\ More /\ ~Sees(".")
  /\ Refuse("TrailingAfterPipe", pos)

RefuseAfterSegment ==
  /\ pc = "selectors" /\ More
  /\ input[pos + 1] \notin {".", "[", "|"}
  /\ Refuse("UnexpectedChar", pos)

(* Mutant of Dot: a dot may end the path. *)
DotMayEnd ==
  /\ AfterSegment /\ Sees(".")
  /\ pos' = pos + 1
  /\ pc' = IF pos' = Len(input) THEN "end" ELSE "segment"
  /\ UNCHANGED <<input, root, steps, refusal>>

Dot ==
  /\ AfterSegment /\ Sees(".")
  /\ IF pos + 1 = Len(input) THEN Refuse("ExpectedIdentifier", pos + 1)
     ELSE /\ pos' = pos + 1
          /\ pc' = "segment"
          /\ UNCHANGED <<input, root, steps, refusal>>

Accept ==
  /\ AfterSegment /\ ~More
  /\ pc' = "end"
  /\ UNCHANGED <<input, pos, root, steps, refusal>>

RefuseHeader ==
  \/ RefuseLong \/ RefuseNoColon \/ RefuseColons
  \/ RefuseEmptyPart \/ RefuseTable \/ RefuseSchema

ParseField == FieldByName \/ FieldById \/ RefuseField

ParseBracket ==
  RefuseUnclosed \/ RefuseEmptyBracket \/ BracketAll \/ BracketIndex \/ BracketKey

ParserNext ==
  \/ RefuseHeader \/ ReadHeader
  \/ ParseField \/ ParseBracket \/ Pipe
  \/ RefuseAfterPipe \/ RefuseAfterSegment \/ Dot \/ Accept

(***************************************************************************)
(* Properties                                                              *)
(***************************************************************************)
Strings == Seq(Chars)

Steps == [kind : StepKinds, text : Strings, number : 0 .. MaxId \cup 0 .. MaxIndex]

(* Types; an error is reported at a place in the string, or at its end.    *)
ParserTypeOK ==
  /\ input \in Strings
  /\ pos \in 0 .. Len(input)
  /\ pc \in {"header", "segment", "selectors", "marked", "end"}
  /\ root \in [schema : Strings, table : Strings]
  /\ steps \in Seq(Steps)
  /\ refusal \in [kind : ErrorKinds \cup {"none"}, at : 0 .. Len(input)]

(* The steps are at most as many as DEFAULT_MAX_PATH_DEPTH allows at any   *)
(* time, and a query that is accepted is no longer than allowed.           *)
WithinLimits ==
  /\ Len(steps) <= MaxDepth
  /\ Accepted => Len(input) <= MaxLength

(* What the executor relies on: a path has a step, begins with a field,    *)
(* and after `|keys` or `|type` goes on with a field.                      *)
WellShaped ==
  Accepted =>
    /\ steps # <<>> /\ steps[1].kind \in Fields
    /\ \A n \in 2 .. Len(steps) :
         steps[n - 1].kind \in Marks => steps[n].kind \in Fields
=============================================================================
