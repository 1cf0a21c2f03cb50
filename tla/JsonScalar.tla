----------------------------- MODULE JsonScalar -----------------------------
(***************************************************************************)
(* How from_json decodes a JSON scalar into a field of some type, and how  *)
(* to_json prints it again. A JSON scalar and a stored scalar are both a   *)
(* pair: <<"null", 0>>, <<"bool", b>>, <<"int", n>>, <<"string", s>>,      *)
(* <<"real", h>>, a number written with a fraction or an exponent, in      *)
(* halves; and, stored only, <<"inf", 0>>.                                 *)
(*                                                                         *)
(* The integers are scaled down: Wide stands for 2^63, and an f64 holds    *)
(* every integer up to Wide / 2 and the even ones above it.                *)
(***************************************************************************)
EXTENDS Integers

CONSTANTS
  Wide,    \* one more than the largest i64
  Kinds    \* the scalar types of fields, by name

(* A kind's sort is how its values are decoded; lo .. hi are the integers  *)
(* it holds (for a float, hi is the largest finite one); names gives the   *)
(* values of an enum's members, and is <<>> for other types; elements says *)
(* if a vector of the enum prints and reads names (an int-backed enum).    *)
ASSUME KindsAssumption ==
  /\ Wide \in Nat \ {0, 1}
  /\ \A k \in DOMAIN Kinds :
       /\ Kinds[k].sort \in {"bool", "signed", "unsigned", "float"}
       /\ Kinds[k].elements \in BOOLEAN
       /\ \A name \in DOMAIN Kinds[k].names : Kinds[k].names[name] \in Int

Null == <<"null", 0>>

Bad(reason) == <<"bad", reason>>
IsBad(scalar) == scalar[1] = "bad"

IsNumber(json) == json[1] \in {"int", "real"}

(* An integer as an f64: to the nearest even one above Wide / 2, and to a  *)
(* multiple of four if it is as near to two of them.                       *)
AsFloat(n) ==
  IF 2 * n \in -Wide .. Wide \/ n % 2 = 0 THEN n
  ELSE IF (n - 1) % 4 = 0 THEN n - 1 ELSE n + 1

(* Value::as_i64, which has no answer for a real or a larger integer, and  *)
(* Value::as_f64, in halves.                                               *)
IsI64(json) == json[1] = "int" /\ json[2] \in -Wide .. Wide - 1
AsF64(json) == IF json[1] = "int" THEN 2 * AsFloat(json[2]) ELSE json[2]

(* `f as i64` saturates. *)
Saturated(n) == IF n >= Wide THEN Wide - 1 ELSE IF n < -Wide THEN -Wide ELSE n

InRange(kind, n) == IF n \in kind.lo .. kind.hi THEN <<"int", n>> ELSE Bad("range")

(* Mutant of DecodeSigned: the range of a fractionless real is not checked *)
(* before it is cast.                                                      *)
DecodeSignedSaturating(kind, json) ==
  IF IsI64(json) THEN InRange(kind, json[2])
  ELSE IF IsNumber(json) /\ AsF64(json) % 2 = 0
    THEN LET n == AsF64(json) \div 2
         IN <<"int", IF n > kind.hi THEN kind.hi ELSE IF n < kind.lo THEN kind.lo ELSE n>>
    ELSE Bad("type")

(* Besides integers, a number with no fractional part that lies within the *)
(* type's limits as floats: the i64 limit as an f64 is one above i64::MAX. *)
DecodeSigned(kind, json) ==
  IF IsI64(json) THEN InRange(kind, json[2])
  ELSE IF /\ IsNumber(json)
          /\ AsF64(json) % 2 = 0
          /\ AsF64(json) \div 2 \in AsFloat(kind.lo) .. AsFloat(kind.hi)
    THEN InRange(kind, Saturated(AsF64(json) \div 2))
    ELSE Bad("type")

DecodeUnsigned(kind, json) ==
  IF json[1] = "int" /\ json[2] >= 0 THEN InRange(kind, json[2]) ELSE Bad("type")

(* A number out of a float's range is stored as infinity; what a narrower  *)
(* float rounds away is left out.                                          *)
DecodeFloat(kind, json) ==
  IF ~IsNumber(json) THEN Bad("type")
  ELSE IF AsF64(json) \in -2 * kind.hi .. 2 * kind.hi
    THEN <<"real", AsF64(json)>>
    ELSE <<"inf", 0>>

DecodeBool(json) == IF json[1] = "bool" THEN json ELSE Bad("type")

(* An enum's value is a member's name or any integer its type holds. *)
DecodeEnum(kind, json) ==
  IF json[1] = "string"
    THEN IF json[2] \in DOMAIN kind.names THEN InRange(kind, kind.names[json[2]]) ELSE Bad("enum")
    ELSE IF IsI64(json) THEN InRange(kind, json[2]) ELSE Bad("type")

Decode(kind, json) ==
  IF kind.names # <<>> THEN DecodeEnum(kind, json)
  ELSE IF kind.sort = "bool" THEN DecodeBool(json)
  ELSE IF kind.sort = "signed" THEN DecodeSigned(kind, json)
  ELSE IF kind.sort = "unsigned" THEN DecodeUnsigned(kind, json)
  ELSE DecodeFloat(kind, json)

(* A vector of enums takes and prints names only if its type is int; a     *)
(* fixed-size array never does.                                            *)
VectorElement(kind) == IF kind.elements THEN kind ELSE [kind EXCEPT !.names = <<>>]
ArrayElement(kind) == [kind EXCEPT !.names = <<>>]

(* What to_json prints for a stored scalar: a member's name if the enum    *)
(* has one of that value. An infinity has no JSON form: see NonFinite.     *)
Shown(kind, scalar) ==
  LET named == {name \in DOMAIN kind.names : kind.names[name] = scalar[2]}
  IN IF named # {} THEN <<"string", CHOOSE name \in named : TRUE>> ELSE scalar

NonFinite(scalar) == scalar[1] = "inf"
=============================================================================
