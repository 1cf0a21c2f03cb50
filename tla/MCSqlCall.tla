----------------------------- MODULE MCSqlCall -----------------------------
(***************************************************************************)
(* Instances of SqlCall for TLC, and the grammar of query strings as the   *)
(* head of parser.rs gives it, to compare the parser with.                 *)
(***************************************************************************)
EXTENDS SqlCall, FiniteSets, TLC

TheLetters == {"a", "b", "keys", "type"}
TheDigit == ("1" :> 1) @@ ("2" :> 2)
TheOthers == {" ", "-"}

TheDefaultSchema == <<"b">>

Alphabet == {"a", "keys", "_", "1", ".", ":", "[", "]", "*", "|", "#", " "}

Length(n, S) == [1 .. n -> S]

(* Every path of up to three characters; longer ones of the characters     *)
(* that matter to brackets, to marks and to limits.                        *)
SomePaths ==
  UNION {Length(n, Alphabet) : n \in 0 .. 3}
    \cup Length(4, {"a", "|", "keys", "type", ".", "["})
    \cup UNION {Length(n, {"a", "1", "[", "]", "."}) : n \in 4 .. 5}
    \cup UNION {Length(n, {"#", "1", "2"}) : n \in 2 .. 4}
    \cup {<<"a", "[">> \o s \o <<"]">> : s \in UNION {Length(n, {"1", "2", "*", ":", "-", " "}) : n \in 1 .. 3}}
    \cup {h \o s : h \in {<<"a", "|", "keys">>, <<"a", ".", "a">>, <<"a", ".", "a", ".", "a">>},
                  s \in {<<".", "#", "1">>, <<"[", "*", "]">>, <<"[", "1", "]">>, <<"[", "_", "]">>,
                         <<"|", "keys">>, <<".", "a">>, <<".", "a", ".", "a">>}}

(* Every header of up to four characters that names and colons are made of. *)
SomeHeaders == UNION {Length(n, {"a", "1", ".", ":"}) : n \in 0 .. 4}

SomeTexts ==
  UNION {Length(n, Alphabet) : n \in 0 .. 2}
    \cup {<<"a", ":">> \o s : s \in SomePaths}
    \cup {h \o s : h \in SomeHeaders, s \in {<<":">>, <<":", "a">>, <<":", ":", "a">>}}

Texts(fields) == [table |-> fields[1], declares |-> fields[2], unsupported |-> fields[3]]

(* Four registered schemas: a good one, one with unsupported features, one *)
(* with no root_table, one registered under a table that is not its root.  *)
TheSchemas ==
  (<<"b">> :> Texts(<<<<"a">>, <<"a">>, FALSE>>))
    @@ (<<"a">> :> Texts(<<<<"a">>, <<"a">>, TRUE>>))
    @@ (<<"_">> :> Texts(<<<<"a">>, None, FALSE>>))
    @@ (<<"keys">> :> Texts(<<<<"keys">>, <<"a">>, FALSE>>))

QueryTexts ==
  {<<"a", ":", "a">>, <<"a", ":", "_", "[", "*", "]">>, <<"b", ":", "type", ":", "b">>,
   <<"a", ":", "a", ":", "a">>, <<"_", ":", "a", ":", "a">>, <<"type", ":", "a", ":", "a">>}

TableNames ==
  {<<>>, <<"a">>, <<"type">>, <<"a", ":", "a">>, <<"_", ":", "a">>, <<"keys", ":", "keys">>,
   <<"type", ":", "a">>, <<":", "a">>, <<"a", ":">>, <<"a", ":", "a", ":", "a">>}

Good == [len |-> 8, malformed |-> FALSE, depth |-> 1, tables |-> 1, size |-> 2, finite |-> TRUE]

Payloads ==
  {[Good EXCEPT !.len = 0], [Good EXCEPT !.len = 3], [Good EXCEPT !.finite = FALSE]}
    \cup [len : {8}, malformed : BOOLEAN, depth : 1 .. 2, tables : 1 .. 2, size : 2 .. 3,
          finite : {TRUE}]

Documents == [depth : 1 .. 2, unknown : BOOLEAN, size : 2 .. 3]

ComparedCalls ==
  [fn : Queries, text : QueryTexts, arg : Payloads]
    \cup [fn : {"verify", "to_json"}, text : TableNames, arg : Payloads]
    \cup [fn : {"from_json"}, text : TableNames, arg : Documents]
    \cup [fn : {"root_type"}, text : {<<"b">>, <<"type">>}, arg : {None}]

TheDefaults ==
  [max_depth |-> 1, max_tables |-> 1, max_apparent_size_mb |-> 1,
   strict |-> TRUE, from_json_unknown |-> TRUE]

TheBounds == [max_depth |-> {1, 2}, max_tables |-> {1}, max_apparent_size_mb |-> {1}]

(* All texts are parsed in sessions that have the default settings. *)
ParserCalls == [fn : {"query"}, text : SomeTexts, arg : {Good}]

TheCalls(s) == ComparedCalls \cup IF s = TheDefaults THEN ParserCalls ELSE {}

(* Field "a" has a leaf, "b" has none, "_" is a vector of which one is.    *)
TheWalk(b, path) ==
  IF path[1].kind # "name" THEN Err
  ELSE CASE path[1].text = <<"a">> -> <<"x">>
         [] path[1].text = <<"b">> -> <<None>>
         [] path[1].text = <<"_">> -> <<"x", None, "y">>
         [] path[1].text \notin {<<"a">>, <<"b">>, <<"_">>} -> Err

(* Of upstream's "Nested table depth limit reached.", "Too many tables."   *)
(* and "Apparent size too large.", the words that the code looks for.      *)
TheWords ==
  [malformed |-> {}, depth |-> {"depth", "limit"}, tables |-> {"tables"}, size |-> {}]

(***************************************************************************)
(* The productions at the head of parser.rs: what a string may be read as. *)
(* A bracket holds anything but "]", blanks and signs included; what is    *)
(* said of them besides are properties of their own, at the end.           *)
(***************************************************************************)
IsIdent(s) == s # <<>> /\ s[1] \in IdentStart /\ \A i \in DOMAIN s : s[i] \in IdentCont

FieldsOf(s) ==
  {Step("name", t, 0) : t \in {u \in {s} : IsIdent(u)}}
    \cup {Step("id", <<>>, Number(Tail(t))) :
            t \in {u \in {s} : Len(u) > 1 /\ u[1] = "#" /\ IsNumeral(Tail(u))}}

Inside(s) == SubSeq(s, 2, Len(s) - 1)

BracketsOf(s) ==
  IF Len(s) < 3 \/ s[1] # "[" \/ s[Len(s)] # "]" \/ \E i \in 2 .. Len(s) - 1 : s[i] = "]" THEN {}
  ELSE {IF Inside(s) = <<"*">> THEN Step("all", <<>>, 0)
        ELSE IF IsNumeral(Inside(s)) THEN Step("index", <<>>, Number(Inside(s)))
        ELSE Step("key", Inside(s), 0)}

MarksOf(s) == {Step(mark, <<>>, 0) : mark \in {m \in Marks : s = <<"|", m>>}}

Upto(s, i) == SubSeq(s, 1, i)
From(s, i) == SubSeq(s, i, Len(s))

RECURSIVE SelectorsOf(_)
SelectorsOf(s) ==
  IF s = <<>> THEN {<<>>}
  ELSE {<<mark>> : mark \in MarksOf(s)}
         \cup UNION {{<<b>> \o rest : b \in BracketsOf(Upto(s, i)), rest \in SelectorsOf(From(s, i + 1))}
                     : i \in {j \in DOMAIN s : s[j] = "]"}}

SegmentsOf(s) ==
  UNION {{<<f>> \o rest : f \in FieldsOf(Upto(s, i)), rest \in SelectorsOf(From(s, i + 1))}
         : i \in {j \in DOMAIN s : FieldsOf(Upto(s, j)) # {}}}

RECURSIVE PathsOf(_)
PathsOf(s) ==
  SegmentsOf(s)
    \cup UNION {{a \o b : a \in SegmentsOf(Upto(s, i - 1)), b \in PathsOf(From(s, i + 1))}
                : i \in {j \in DOMAIN s : s[j] = "."}}

RECURSIVE IsTable(_)
IsTable(s) ==
  \/ IsIdent(s)
  \/ \E i \in DOMAIN s : s[i] = "." /\ IsIdent(Upto(s, i - 1)) /\ IsTable(From(s, i + 1))

ColonsOf(s) == {i \in DOMAIN s : s[i] = ":"}

(* The readings of a query string: its schema and table, and its path.     *)
ReadingsOf(s) ==
  UNION {{[root |-> [schema |-> <<>>, table |-> Upto(s, p - 1)], steps |-> path] :
            path \in PathsOf(From(s, p + 1))}
         : p \in {q \in ColonsOf(s) : IsTable(Upto(s, q - 1))}}
  \cup
  UNION {{[root |-> [schema |-> Upto(s, t[1] - 1), table |-> SubSeq(s, t[1] + 1, t[2] - 1)],
           steps |-> path] : path \in PathsOf(From(s, t[2] + 1))}
         : t \in {u \in ColonsOf(s) \X ColonsOf(s) :
                    u[1] < u[2] /\ IsIdent(Upto(s, u[1] - 1)) /\ IsTable(SubSeq(s, u[1] + 1, u[2] - 1))}}

Exceeds(r) ==
  \/ Len(input) > MaxLength \/ Len(r.steps) > MaxDepth
  \/ \E i \in DOMAIN r.steps :
       \/ r.steps[i].kind = "id" /\ r.steps[i].number > MaxId
       \/ r.steps[i].kind = "index" /\ r.steps[i].number > MaxIndex

HasColon(r) == \E i \in DOMAIN r.steps : \E j \in DOMAIN r.steps[i].text : r.steps[i].text[j] = ":"

(* The parser reads what the productions at the head of parser.rs say: an  *)
(* accepted string has one reading, which is the parser's; a refused one   *)
(* has none within the limits, a key with a colon in it left aside.        *)
ReadsTheGrammar ==
  stage = "parsing" /\ pc = "end" =>
    IF Accepted THEN ReadingsOf(input) = {[root |-> root, steps |-> steps]}
    ELSE \A r \in ReadingsOf(input) : Exceeds(r) \/ HasColon(r)

(* What stands beside the productions (parser.rs: "Whitespace is NOT     *)
(* allowed anywhere in the query"). The code fails it: "[ ]" is a key.   *)
NoWhitespaceAccepted ==
  stage = "parsing" /\ Accepted => \A i \in DOMAIN input : input[i] # " "

(* No accepted path has a negative number in a bracket (sql-surface.md:  *)
(* "Negative indices are a parser error"). The code fails it, as "[-1]"  *)
(* is a key.                                                             *)
NegativeIndexRefused ==
  stage = "parsing" /\ Accepted =>
    \A i \in DOMAIN steps :
      LET text == steps[i].text
      IN ~(Len(text) > 1 /\ text[1] = "-" /\ IsNumeral(Tail(text)))

(* The table that a query names is the root table of its schema (ast.rs: *)
(* "the parser does not validate that the named table actually exists in *)
(* the registered schema; that is the executor's job"). The code fails   *)
(* it: it compares the two nowhere.                                      *)
RootNamedIsRoot ==
  Answered /\ fn \in Queries /\ verdict = "ok" /\ ~Failed => name.table = Row.declares
=============================================================================
