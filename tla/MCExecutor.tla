----------------------------- MODULE MCExecutor -----------------------------
(***************************************************************************)
(* An instance of Executor for TLC: a schema with every kind of field, the *)
(* tables of up to three levels over it that have one compound field each, *)
(* and the paths of up to two descents and a last selection. Also what a   *)
(* path means, defined recursively and without the executor's stack.       *)
(***************************************************************************)
EXTENDS Executor, FiniteSets, SequencesExt, TLC

-----------------------------------------------------------------------------
(* Schema: table T, structs P and Q, union U. *)
Ty(base, of) == [base |-> base, of |-> of]

TheFields == [
  T |-> [n  |-> Ty("scalar", "scalar"), s  |-> Ty("string", "string"),
         o  |-> Ty("scalar", "scalar"),
         t  |-> Ty("obj", "T"),         p  |-> Ty("obj", "P"),
         v  |-> Ty("vector", "T"),      ps |-> Ty("vector", "P"),
         w  |-> Ty("vector", "scalar"), u  |-> Ty("union", "U")],
  P |-> [q |-> Ty("obj", "Q"), a |-> Ty("array", "scalar"), b |-> Ty("array", "Q")],
  Q |-> [y |-> Ty("scalar", "scalar")]]

TheKeyField == [T |-> "n", P |-> None, Q |-> None]
TheOptional == {<<"T", "o">>}
TheVariants == [U |-> [A |-> "T", B |-> "P", C |-> "string"]]

-----------------------------------------------------------------------------
(* Values. Vectors of T are sorted by key, as a key lookup expects. *)
Q1 == [y |-> "1"]
Q2 == [y |-> "2"]
P1 == [q |-> Q1, a |-> <<"1", "2">>, b |-> <<Q1, Q2>>]
P2 == [q |-> Q2, a |-> <<"2", "2">>, b |-> <<Q2, Q2>>]

Blank == [f \in DOMAIN TheFields.T |-> None]

Plain == {[Blank EXCEPT !.n = k] : k \in {None, "1", "2"}} \cup {[Blank EXCEPT !.s = "x", !.o = "0"]}

(* Tables with one compound field, the tables in it taken from S and the   *)
(* pairs of tables in it from R.                                           *)
Over(S, R) ==
  LET Pairs == {<<[x EXCEPT !.n = None], [y EXCEPT !.n = "2"]>> : x, y \in R} IN
  UNION {
    {[Blank EXCEPT !.t = x] : x \in S},
    {[Blank EXCEPT !.u = [A |-> x]] : x \in S},
    {[Blank EXCEPT !.u = [B |-> P2]], [Blank EXCEPT !.u = [C |-> "x"]]},
    {[Blank EXCEPT !.n = "1", !.v = x] : x \in {<<>>} \cup {<<y>> : y \in S} \cup Pairs},
    {[Blank EXCEPT !.p = P1]},
    {[Blank EXCEPT !.ps = x] : x \in {<<>>, <<P1, P2>>}},
    {[Blank EXCEPT !.w = x] : x \in {<<>>, <<"2", "1">>}}}

Level1 == Plain \cup Over(Plain, Plain)
HasVector == {x \in Level1 : x.v # None /\ Len(x.v) # 1}
Keys(S) == {[x EXCEPT !.n = k] : x \in S, k \in {None, "2"}}

TheBuffers == Level1 \cup Over(Level1, HasVector)
Tables == TheBuffers \cup Keys(Level1)
TheVerified == [T |-> Tables, P |-> {P1, P2}, Q |-> {Q1, Q2}]

-----------------------------------------------------------------------------
(* Paths *)
St(kind, name, at) == [kind |-> kind, name |-> name, at |-> at]
F(name) == St("field", name, 0)
I(i) == St("index", "n", i)
All == St("all", "n", 0)
K(key) == St("key", key, 0)
KeysOf == St("keys", "n", 0)
TypeOf == St("type", "n", 0)

TheNames == UNION {DOMAIN TheFields[o] : o \in DOMAIN TheFields} \cup {"z", "", "2"}
TheLeaves == {"", "0", "1", "2", "x", "NONE", "A", "B", "C"}

Descents == {<<F("t")>>, <<F("u")>>, <<F("v"), I(0)>>, <<F("v"), All>>, <<F("v"), K("2")>>}

InStruct == {<<>>, <<F("q")>>, <<F("q"), F("y")>>, <<F("z")>>, <<F("a")>>, <<F("a"), I(1)>>,
             <<F("a"), I(2)>>, <<F("a"), All>>, <<F("b"), I(0)>>, <<F("b"), All, F("y")>>}

Endings ==
  {<<F(f)>> : f \in {"n", "o", "s", "t", "u", "v", "w", "p", "ps", "z"}}
  \cup {<<F("n"), TypeOf>>, <<F("u"), TypeOf>>, <<F("u"), TypeOf, F("n")>>, <<F("n"), F("n")>>}
  \cup {<<F("v"), x>> : x \in {I(0), I(1), All, K("2"), KeysOf, F("n")}}
  \cup {<<F("v"), KeysOf, F("n")>>, <<F("ps"), K("2"), F("q")>>, <<F("ps"), KeysOf>>}
  \cup {<<F("w"), x>> : x \in {I(1), I(2), All, K("2"), KeysOf}}
  \cup {<<F("w"), All, F("n")>>}
  \cup {<<F("p")>> \o x : x \in InStruct}
  \cup {<<F("u")>> \o x : x \in InStruct}
  \cup {<<F("ps"), x>> \o y : x \in {I(1), I(2), All}, y \in {<<>>, <<F("q"), F("y")>>, <<F("b"), All, F("y")>>}}

(* After two descents, a selection of each kind. *)
LastSteps ==
  {<<F("n")>>, <<F("s")>>, <<F("u")>>, <<F("u"), TypeOf>>, <<F("u"), F("q"), F("y")>>,
   <<F("p"), F("b"), All, F("y")>>, <<F("v"), I(1)>>, <<F("v"), All, F("n")>>,
   <<F("v"), KeysOf>>, <<F("v"), K("2"), F("n")>>, <<F("w"), All>>, <<F("ps"), I(1), F("a"), All>>}

ThePaths ==
  {x \o e : x \in {<<>>} \cup Descents, e \in Endings}
  \cup {x \o y \o e : x, y \in Descents, e \in LastSteps}

-----------------------------------------------------------------------------
(* What a path means: the leaves it reaches in the order of the buffer,    *)
(* with Err in place of one it cannot reach.                               *)
CONSTANT Err

RECURSIVE Meaning(_, _, _)

(* The leaves of values that a path has reached, rest steps before its end. *)
Reached(held, values, rest) ==
  IF held \in Objects /\ rest > 0
  THEN FlattenSeq([k \in DOMAIN values |-> Meaning(held, values[k], Len(path) - rest + 1)])
  ELSE IF held \in Objects \/ rest > 0 THEN [k \in DOMAIN values |-> Err]
  ELSE values

(* A selection no element of which can be a leaf, or have more steps. It   *)
(* is told from the type alone, but for tables, where it takes a table.    *)
Refused(t, sel, i, y) ==
  IF t.base = "array" \/ t.of \notin Structs \cup {"scalar", "string"}
  THEN i + 1 = Len(path) /\ t.of \in Objects /\ y # None
       /\ (sel = "all" \/ path[i + 1].at < Len(y))
  ELSE (t.of \in Objects) = (i + 1 = Len(path))

Meaning(o, x, i) ==
  LET this == path[i]
      t == Fields[o][this.name]
      y == x[this.name]
      left == Len(path) - i
      sel == IF left = 0 THEN "" ELSE path[i + 1].kind
      Key(e) == IF e[KeyField[t.of]] = None THEN Empty ELSE e[KeyField[t.of]]
      keyed == t.base = "vector" /\ t.of \in Objects /\ KeyField[t.of] # None
  IN
  IF this.kind # "field" \/ this.name \notin DOMAIN Fields[o] THEN <<Err>>
  ELSE IF sel = "type" THEN
    IF t.base # "union" \/ left > 1 THEN <<Err>>
    ELSE IF y = None THEN <<"NONE">> ELSE <<CHOOSE w \in DOMAIN y : TRUE>>
  ELSE IF t.base \in {"vector", "array"} THEN
    IF sel \in {"index", "all"} THEN
      IF Refused(t, sel, i, y) THEN <<Err>>
      ELSE IF sel = "all" THEN IF y = None THEN <<>> ELSE Reached(t.of, y, left - 1)
      ELSE IF y = None \/ path[i + 1].at >= Len(y) THEN <<None>>
      ELSE Reached(t.of, <<y[path[i + 1].at + 1]>>, left - 1)
    ELSE IF ~keyed \/ sel \notin {"key", "keys"} \/ (sel = "keys") # (left = 1) THEN <<Err>>
    ELSE IF sel = "keys" THEN IF y = None THEN <<>> ELSE [k \in DOMAIN y |-> Key(y[k])]
    ELSE LET found == IF y = None THEN <<>>
                      ELSE SelectSeq(y, LAMBDA e : Key(e) = path[i + 1].name)
         IN IF found = <<>> THEN <<None>> ELSE Reached(t.of, <<found[1]>>, left - 1)
  ELSE IF y = None THEN
    IF t.base # "scalar" THEN <<None>>
    ELSE IF left > 0 THEN <<Err>> ELSE IF fill THEN <<Default>> ELSE <<None>>
  ELSE IF t.base = "union" THEN
    LET w == CHOOSE w \in DOMAIN y : TRUE IN Reached(Variants[t.of][w], <<y[w]>>, left)
  ELSE Reached(t.of, <<y>>, left)

Meant == Meaning(Root, buffer, 1)

(* The executor answers with the leaves that the path means, depth first   *)
(* and in the order of the vectors, None where a value is absent; it fails *)
(* only where one of them cannot be reached.                               *)
AnswersAsMeant ==
  /\ status = "done" => out = Meant
  /\ status = "error" => \E i \in DOMAIN Meant : Meant[i] = Err
=============================================================================
