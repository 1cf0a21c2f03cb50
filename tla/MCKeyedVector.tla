---------------------------- MODULE MCKeyedVector ----------------------------
(***************************************************************************)
(* Instances of KeyedVector for TLC: integers of 64 bits are scaled down   *)
(* to -2 .. 2 (i64) and 0 .. 4 (u64). In the order of strings, the texts   *)
(* are "", "-1", "-2", "0", "02", "1", "2", "3", "4" and "x".              *)
(***************************************************************************)
EXTENDS KeyedVector, TLC

CONSTANT Alias   \* whether "02" is among the texts

Rank == 0 .. 9

TheTexts == IF Alias THEN Rank ELSE Rank \ {4}

Spelled == <<-1, -2, 0, 2, 1, 2, 3, 4>>

TheNumber == [t \in TheTexts |-> IF t \in 1 .. 8 THEN Spelled[t] ELSE None]

TheDecimal ==
  (-2 :> 2) @@ (-1 :> 1) @@ (0 :> 3) @@ (1 :> 5) @@ (2 :> 6) @@ (3 :> 7) @@ (4 :> 8)

MinusTwo == -2

NoDefault == {-2, -1, 1, 2}
WithDefault == NoDefault \cup {0}
WithLarge == {1, 2, 3, 4}
AnyInteger == -2 .. 4
=============================================================================
