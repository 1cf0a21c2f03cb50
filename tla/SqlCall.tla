------------------------------ MODULE SqlCall ------------------------------
(***************************************************************************)
(* A session that calls the SQL functions of the extension: the settings   *)
(* (GUCs) it changes between calls, and a call from its arguments through  *)
(* parser, catalog, verifier and executor or JSON builder to its answer.   *)
(*                                                                         *)
(* A buffer is described by what the verifier finds in it. What the        *)
(* executor reads is a parameter here; module Executor is about it.        *)
(***************************************************************************)
EXTENDS QueryParser, FiniteSets

CONSTANTS
  None,            \* SQL NULL, or absence of a value
  Calls(_),        \* calls in use in a session that has some settings
  Defaults,        \* settings of a new session
  InUse,           \* values in use of each bound, within its minimum and maximum
  MiB,             \* bytes of a unit of max_apparent_size_mb
  MinLen,          \* size of a root offset
  DefaultSchema,   \* DEFAULT_SCHEMA
  Schemas,         \* the catalog: rows by schema name
  Walk(_, _),      \* leaves of a path in a buffer, or Err
  Err,             \* an error of the executor
  Says             \* the words of the verifier's messages, by reason

Queries == {"query", "query_array", "query_multi"}
Named == {"verify", "to_json", "from_json"}
Functions == Queries \cup Named \cup {"root_type"}

TakesBuffer == Queries \cup {"verify", "to_json"}

Bounds == {"max_depth", "max_tables", "max_apparent_size_mb"}
Flags == {"strict", "from_json_unknown"}

(* Why the upstream verifier rejects a buffer. *)
BoundReasons == {"depth", "tables", "size"}
Reasons == {"malformed"} \cup BoundReasons

(* A schema's row: root_table of the catalog, the root_table its bfbs      *)
(* declares (or None), and whether it has 64-bit vectors or vectors of     *)
(* unions.                                                                 *)
ASSUME CatalogAssumption ==
  /\ DefaultSchema \in Seq(Chars)
  /\ DOMAIN Schemas \subseteq Seq(Chars)
  /\ \A s \in DOMAIN Schemas :
       /\ Schemas[s].table \in Seq(Chars)
       /\ Schemas[s].declares \in Seq(Chars) \cup {None}
       /\ Schemas[s].unsupported \in BOOLEAN

ASSUME SettingsAssumption ==
  /\ \A b \in Bounds : Defaults[b] \in InUse[b] /\ InUse[b] \subseteq Nat \ {0}
  /\ \A g \in Flags : Defaults[g] \in BOOLEAN
  /\ MiB \in Nat /\ MinLen \in Nat \ {0}

(* What a session may be set to. *)
Sessions ==
  {[x \in Bounds \cup Flags |-> IF x \in Bounds THEN s[1][x] ELSE s[2][x]] :
     s \in [Bounds -> UNION {InUse[b] : b \in Bounds}] \X [Flags -> BOOLEAN]}

ASSUME CallsAssumption ==
  /\ Defaults \in Sessions
  /\ \A s \in Sessions : \A c \in Calls(s) :
       /\ c.fn \in Functions /\ c.text \in Seq(Chars)
       /\ c.fn \in TakesBuffer => c.arg.len \in Nat

(* Upstream's message is "Nested table depth limit reached."; nothing is   *)
(* assumed of its other messages.                                          *)
ASSUME DepthWording == {"depth", "limit"} \subseteq Says["depth"]

(* How verify may end. *)
VerdictKinds == Reasons \cup {"TooSmall", "NoRootTable", "Unsupported", "ok"}

ASSUME NoneAssumption == None \notin VerdictKinds

VARIABLES
  settings,  \* the GUCs
  call,      \* function, text and payload of the call being made, or None
  stage,     \* how far the call is
  name,      \* schema and root table asked for
  verdict,   \* what verify said
  answer,    \* the call's answer, or None
  last       \* the previous call and its answer, or None

session == <<settings, last>>
progress == <<name, verdict, answer>>
vars == <<parser, session, call, stage, progress>>

(* why: of an error, its source; leaves: texts that are answered. *)
Answer(kind, leaves, why) == [kind |-> kind, leaves |-> leaves, why |-> why]
Error(why) == Answer("error", <<>>, why)
Null == Answer("null", <<>>, "")
Rows(leaves) == Answer("rows", leaves, "")
Only(kind) == Answer(kind, <<>>, "")

Init ==
  /\ ParserInit
  /\ settings = Defaults
  /\ call = None
  /\ stage = "idle"
  /\ name = NoRoot
  /\ verdict = None
  /\ answer = None
  /\ last = None

(***************************************************************************)
(* The session                                                             *)
(***************************************************************************)
(* SET by a superuser, of a value in range. *)
SetBound ==
  /\ stage = "idle"
  /\ \E b \in Bounds : \E v \in InUse[b] \ {settings[b]} :
       settings' = [settings EXCEPT ![b] = v]
  /\ last' = None
  /\ UNCHANGED <<parser, call, stage, progress>>

(* SET by anybody. *)
SetFlag ==
  /\ stage = "idle"
  /\ \E g \in Flags : settings' = [settings EXCEPT ![g] = ~settings[g]]
  /\ last' = None
  /\ UNCHANGED <<parser, call, stage, progress>>

(* Bound: while the last call is remembered, the next one is another       *)
(* function's with the same arguments.                                     *)
Call ==
  /\ stage = "idle"
  /\ \E c \in Calls(settings) :
       /\ last # None => /\ c.text = last.call.text /\ c.arg = last.call.arg
                         /\ c.fn # last.call.fn
       /\ call' = c
  /\ stage' = "called"
  /\ UNCHANGED <<parser, session, progress>>

Forget ==
  /\ stage = "idle" /\ last # None
  /\ last' = None
  /\ UNCHANGED <<parser, settings, call, stage, progress>>

Finish(a) ==
  /\ answer' = a
  /\ stage' = "done"
  /\ UNCHANGED <<session, call, name, verdict>>

Return ==
  /\ stage = "done"
  /\ last' = [call |-> call, answer |-> answer]
  /\ call' = None /\ answer' = None /\ verdict' = None /\ name' = NoRoot
  /\ stage' = "idle"
  /\ StartParser(<<>>)
  /\ UNCHANGED settings

(***************************************************************************)
(* Arguments                                                               *)
(***************************************************************************)
fn == call.fn
buf == call.arg

(* What a query answers when it has no leaves to answer. *)
NoLeaves == IF fn = "query" THEN Null ELSE Rows(<<>>)

AnswerEmpty ==
  /\ stage = "called" /\ fn \in TakesBuffer /\ buf.len = 0
  /\ Finish(CASE fn \in Queries   -> NoLeaves
              [] fn = "verify"    -> Only("false")
              [] fn = "to_json"   -> Null)
  /\ UNCHANGED parser

Proceeds == stage = "called" /\ (fn \in TakesBuffer => buf.len > 0)

BeginParse ==
  /\ Proceeds /\ fn \in Queries
  /\ UNCHANGED <<session, call, progress>>
  /\ StartParser(call.text)
  /\ stage' = "parsing"

Parse ==
  /\ stage = "parsing"
  /\ ParserNext
  /\ UNCHANGED <<session, call, stage, progress>>

ParseFails ==
  /\ stage = "parsing" /\ pc = "end" /\ Refused
  /\ Finish(Error("query"))
  /\ UNCHANGED parser

LookUp(schema, table) ==
  /\ name' = [schema |-> schema, table |-> table]
  /\ stage' = "lookup"
  /\ UNCHANGED <<parser, session, call, verdict, answer>>

Parsed ==
  /\ stage = "parsing" /\ Accepted
  /\ LookUp(IF root.schema = <<>> THEN DefaultSchema ELSE root.schema, root.table)

(* split_schema_and_table: colons of the name, and the parts at the first. *)
NameColons == {i \in DOMAIN call.text : call.text[i] = ":"}

SplitsAt(c) == NameColons = {c} /\ c \in 2 .. Len(call.text) - 1

NameFails ==
  /\ Proceeds /\ fn \in Named
  /\ \/ call.text = <<>>
     \/ NameColons # {} /\ \A c \in NameColons : ~SplitsAt(c)
  /\ Finish(Error("name"))
  /\ UNCHANGED parser

NameSplit ==
  /\ Proceeds /\ fn \in Named /\ call.text # <<>>
  /\ \/ NameColons = {} /\ LookUp(DefaultSchema, call.text)
     \/ \E c \in NameColons :
          /\ SplitsAt(c)
          /\ LookUp(SubSeq(call.text, 1, c - 1), SubSeq(call.text, c + 1, Len(call.text)))

NameGiven ==
  /\ Proceeds /\ fn = "root_type"
  /\ LookUp(call.text, <<>>)

(***************************************************************************)
(* The schema                                                              *)
(***************************************************************************)
Row == Schemas[name.schema]

LookupFails ==
  /\ stage = "lookup" /\ name.schema \notin DOMAIN Schemas
  /\ Finish(Error("schema"))
  /\ UNCHANGED parser

Found == stage = "lookup" /\ name.schema \in DOMAIN Schemas

AnswerRootType ==
  /\ Found /\ fn = "root_type"
  /\ Finish(Answer("text", Row.table, ""))
  /\ UNCHANGED parser

(* Compared by the functions that take a table name, and not by queries. *)
RootDiffers ==
  /\ Found /\ fn \in Named /\ Row.table # name.table
  /\ Finish(IF fn = "verify" THEN Only("false") ELSE Error("root"))
  /\ UNCHANGED parser

RootAgrees == Found /\ (fn \in Named => Row.table = name.table) /\ fn # "root_type"

(***************************************************************************)
(* The verifier                                                            *)
(***************************************************************************)
(* current_bounds. *)
MaxBytes == settings["max_apparent_size_mb"] * MiB

Measure(b, reason) ==
  CASE reason = "depth" -> b.depth > settings["max_depth"]
    [] reason = "tables" -> b.tables > settings["max_tables"]
    [] reason = "size" -> b.size > MaxBytes
    [] reason = "malformed" -> b.malformed

(* What upstream could complain of; it stops at the first thing it finds.  *)
Faults(b) == {reason \in Reasons : Measure(b, reason)}

(* Mutant of Verdicts: the schema is inspected after the buffer. *)
VerdictsBufferFirst(b) ==
  IF b.len < MinLen THEN {"TooSmall"}
  ELSE IF Row.declares = None THEN {"NoRootTable"}
  ELSE IF Faults(b) # {} THEN Faults(b)
  ELSE IF Row.unsupported THEN {"Unsupported"} ELSE {"ok"}

(* verify: the ways it may end. A reason stands for Invalid and a message. *)
Verdicts(b) ==
  IF b.len < MinLen THEN {"TooSmall"}
  ELSE IF Row.declares = None THEN {"NoRootTable"}
  ELSE IF Row.unsupported THEN {"Unsupported"}
  ELSE IF Faults(b) # {} THEN Faults(b) ELSE {"ok"}

Verify ==
  /\ RootAgrees /\ fn \in TakesBuffer
  /\ verdict' \in Verdicts(buf)
  /\ stage' = "verified"
  /\ UNCHANGED <<parser, session, call, name, answer>>

(* Mutant of IsBoundExceedance: the depth is forgotten. *)
IsTablesOrSize(v) ==
  /\ v \in Reasons
  /\ {"tables", "limit"} \subseteq Says[v] \/ "apparent size" \in Says[v]

IsBoundExceedance(v) ==
  /\ v \in Reasons
  /\ \/ {"depth", "limit"} \subseteq Says[v]
     \/ {"tables", "limit"} \subseteq Says[v]
     \/ "apparent size" \in Says[v]

IsSchemaFeatureRejection(v) == v = "Unsupported"

(* should_error_on, for a verifier's error. *)
ShouldErrorOn(v) ==
  settings["strict"] \/ IsBoundExceedance(v) \/ IsSchemaFeatureRejection(v)

(* Mutant of AnswerRejected: to_json heeds strict as queries do. *)
AnswerRejectedLeniently ==
  /\ stage = "verified" /\ verdict # "ok"
  /\ Finish(CASE fn = "verify" -> IF IsSchemaFeatureRejection(verdict)
                                 THEN Error("verifier") ELSE Only("false")
              [] fn # "verify" -> IF ShouldErrorOn(verdict)
                                 THEN Error("verifier") ELSE NoLeaves)
  /\ UNCHANGED parser

AnswerRejected ==
  /\ stage = "verified" /\ verdict # "ok"
  /\ Finish(CASE fn \in Queries  -> IF ShouldErrorOn(verdict)
                                    THEN Error("verifier") ELSE NoLeaves
              [] fn = "verify"  -> IF IsSchemaFeatureRejection(verdict)
                                    THEN Error("verifier") ELSE Only("false")
              [] fn = "to_json" -> Error("verifier"))
  /\ UNCHANGED parser

(***************************************************************************)
(* Answers                                                                 *)
(***************************************************************************)
(* Mutant of Verified: a lenient session reads any buffer. *)
VerifiedIfStrict == stage = "verified" /\ (settings["strict"] => verdict = "ok")

Verified == stage = "verified" /\ verdict = "ok"

(* The leaves that are there, in their order. *)
Present(leaves) ==
  LET there == {n \in DOMAIN leaves : leaves[n] # None}
      Nth(k) == CHOOSE n \in there : Cardinality({m \in there : m <= n}) = k
  IN  [k \in 1 .. Cardinality(there) |-> leaves[Nth(k)]]

(* Mutant of Shape: a query answers the last leaf. *)
ShapeLast(leaves) ==
  IF fn = "query"
  THEN IF leaves = <<>> \/ leaves[Len(leaves)] = None THEN Null
       ELSE Answer("leaf", <<leaves[Len(leaves)]>>, "")
  ELSE Rows(Present(leaves))

(* A query answers the first leaf, the other two every leaf that is there. *)
Shape(leaves) ==
  IF fn = "query"
  THEN IF leaves = <<>> \/ Head(leaves) = None THEN Null
       ELSE Answer("leaf", <<Head(leaves)>>, "")
  ELSE Rows(Present(leaves))

AnswerQuery ==
  /\ Verified /\ fn \in Queries
  /\ Finish(IF Walk(buf, steps) = Err THEN Error("executor") ELSE Shape(Walk(buf, steps)))
  /\ UNCHANGED parser

AnswerVerified ==
  /\ Verified /\ fn = "verify"
  /\ Finish(Only("true"))
  /\ UNCHANGED parser

(* A scalar that JSON has no number for is an error. *)
AnswerToJson ==
  /\ Verified /\ fn = "to_json"
  /\ Finish(IF buf.finite THEN Only("json") ELSE Error("json"))
  /\ UNCHANGED parser

(* json_to_buf, on a document of some depth and size, with or without a    *)
(* key that the schema does not have.                                      *)
AnswerFromJson ==
  /\ RootAgrees /\ fn = "from_json"
  /\ Finish(IF \/ Row.declares = None
               \/ call.arg.depth > settings["max_depth"]
               \/ call.arg.unknown /\ settings["from_json_unknown"]
               \/ call.arg.size > MaxBytes
            THEN Error("json") ELSE Only("bytes"))
  /\ UNCHANGED parser

Next ==
  \/ SetBound \/ SetFlag \/ Forget \/ Call \/ Return
  \/ AnswerEmpty \/ BeginParse \/ Parse \/ ParseFails \/ Parsed
  \/ NameFails \/ NameSplit \/ NameGiven
  \/ LookupFails \/ AnswerRootType \/ RootDiffers
  \/ Verify \/ AnswerRejected
  \/ AnswerQuery \/ AnswerVerified \/ AnswerToJson \/ AnswerFromJson

Spec == Init /\ [][Next]_vars

(***************************************************************************)
(* Properties                                                              *)
(***************************************************************************)
AnswerKinds == {"error", "null", "rows", "leaf", "true", "false", "json", "bytes", "text"}

(* Types of what the properties below read. *)
TypeOK ==
  /\ ParserTypeOK
  /\ DOMAIN settings = Bounds \cup Flags
  /\ \A b \in Bounds : settings[b] \in InUse[b]
  /\ \A g \in Flags : settings[g] \in BOOLEAN
  /\ stage \in {"idle", "called", "parsing", "lookup", "verified", "done"}
  /\ stage # "idle" => fn \in Functions
  /\ verdict \in VerdictKinds \cup {None}
  /\ stage = "done" => answer.kind \in AnswerKinds

Answered == stage = "done"
Failed == answer.kind = "error"

(* The verifier was reached with the call's buffer. *)
WasVerified == Answered /\ verdict # None

(* The limit on nesting is never relaxed: a buffer the verifier finds too  *)
(* deep gets false from verify and an error from the others, strict or     *)
(* not, whatever else is wrong with it.                                    *)
DepthNotRelaxed ==
  WasVerified /\ verdict = "depth" =>
    IF fn = "verify" THEN answer = Only("false") ELSE Failed

(* No bound is relaxed: if nothing but a bound is wrong with a buffer,     *)
(* verify answers false and the others an error, strict or not             *)
(* (is_bound_exceedance: "strict does not relax bounds").                  *)
BoundsNotRelaxed ==
  WasVerified /\ verdict \in Reasons /\ Faults(buf) \subseteq BoundReasons =>
    IF fn = "verify" THEN answer = Only("false") ELSE Failed

(* What can only be wrong with the registration is never taken for a bad   *)
(* buffer: a buffer of at least four bytes gets an error from every        *)
(* function that verifies it, whatever else is wrong with it.              *)
ConfigurationIsLoud ==
  WasVerified /\ Row.unsupported /\ Row.declares # None /\ buf.len >= MinLen => Failed

(* Leaves, JSON and a true answer come from buffers without a fault under  *)
(* the settings of the session.                                            *)
ReadsOnlyVerified ==
  Answered /\ fn \in TakesBuffer /\ buf.len > 0
    /\ (answer.kind \in {"leaf", "true", "json"} \/ answer.leaves # <<>>) =>
    verdict = "ok" /\ Faults(buf) = {} /\ ~Row.unsupported

(* verify foretells to_json of the same name and buffer, under the same    *)
(* settings: after true no verifier refuses it, after false it is an error *)
(* or, for an empty buffer, NULL; and the other way round.                 *)
VerifyForetellsToJson ==
  Answered /\ last # None /\ {fn, last.call.fn} = {"verify", "to_json"} =>
    LET v == IF fn = "verify" THEN answer ELSE last.answer
        j == IF fn = "to_json" THEN answer ELSE last.answer
    IN  CASE v.kind = "true"  -> j.kind = "json" \/ j.why = "json"
          [] v.kind = "false" -> j.why \in {"root", "verifier"} \/ (buf.len = 0 /\ j = Null)
          [] v.kind = "error" -> j = v

(* The three query functions agree on a query and a buffer, if the         *)
(* verifier has at most one thing to say of it: all fail alike, and the    *)
(* leaf of flatbuffers_query is the first row of the others.               *)
ShapesAgree ==
  Answered /\ last # None /\ {fn, last.call.fn} \subseteq Queries
    /\ (verdict \in Reasons => Faults(buf) = {verdict}) =>
    IF Failed \/ last.answer.kind = "error" \/ "query" \notin {fn, last.call.fn}
    THEN answer = last.answer
    ELSE LET one == IF fn = "query" THEN answer ELSE last.answer
             rows == IF fn = "query" THEN last.answer ELSE answer
         IN  one.kind = "leaf" => rows.leaves # <<>> /\ Head(rows.leaves) = one.leaves[1]
=============================================================================
