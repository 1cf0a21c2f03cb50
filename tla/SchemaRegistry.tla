--------------------------- MODULE SchemaRegistry ---------------------------
(***************************************************************************)
(* What the extension promises of a schema name under READ COMMITTED, with *)
(* no cache, no queue and no callback in sight: a statement is answered    *)
(* with the row its own transaction wrote, else with a row that was        *)
(* current at some time since its transaction began. A commit becomes      *)
(* visible first and is announced second; until it is announced a new      *)
(* transaction may still be answered with the row it replaced.             *)
(***************************************************************************)
EXTENDS Naturals

CONSTANTS Backends, Names, Row, None

VARIABLES
  rows,      \* committed row of every name, 0 when it is not registered
  own,       \* uncommitted rows of the open transaction
  phase,     \* "none", "open" or "committing"
  replaced,  \* rows replaced by a commit that is not announced
  allowed,   \* rows the open transaction may be answered with
  served     \* answers the current statement got

vars == <<rows, own, phase, replaced, allowed, served>>

Nothing == [n \in Names |-> None]

Init ==
  /\ rows = [n \in Names |-> 0]
  /\ own = [b \in Backends |-> Nothing]
  /\ phase = [b \in Backends |-> "none"]
  /\ replaced = [b \in Backends |-> Nothing]
  /\ allowed = [b \in Backends |-> [n \in Names |-> {}]]
  /\ served = [b \in Backends |-> Nothing]

Replaced(n) == {replaced[c][n] : c \in Backends} \ {None}

Start(b) ==
  /\ phase[b] = "none"
  /\ phase' = [phase EXCEPT ![b] = "open"]
  /\ allowed' = [allowed EXCEPT ![b] = [n \in Names |-> {rows[n]} \cup Replaced(n)]]
  /\ UNCHANGED <<rows, own, replaced, served>>

(* A name has one uncommitted writer at a time. *)
Write(b, n, row) ==
  /\ phase[b] = "open"
  /\ \A c \in Backends \ {b} : own[c][n] = None
  /\ own' = [own EXCEPT ![b][n] = row]
  /\ UNCHANGED <<rows, phase, replaced, allowed, served>>

(* Only a registered schema is ever an answer: with none there is an ERROR.*)
Answer(b, n, row) ==
  /\ phase[b] = "open"
  /\ row # 0
  /\ IF own[b][n] # None THEN row = own[b][n] ELSE row \in allowed[b][n]
  /\ served' = [served EXCEPT ![b][n] = row]
  /\ UNCHANGED <<rows, own, phase, replaced, allowed>>

EndOfStatement(b) ==
  /\ served' = [served EXCEPT ![b] = Nothing]
  /\ UNCHANGED <<rows, own, phase, replaced, allowed>>

Publish(b) ==
  /\ phase[b] = "open"
  /\ served[b] = Nothing
  /\ rows' = [n \in Names |-> IF own[b][n] # None THEN own[b][n] ELSE rows[n]]
  /\ own' = [own EXCEPT ![b] = Nothing]
  /\ \/ phase' = [phase EXCEPT ![b] = "committing"]
     \/ own[b] = Nothing /\ phase' = [phase EXCEPT ![b] = "none"]
  /\ replaced' = [replaced EXCEPT ![b] =
       [n \in Names |-> IF own[b][n] # None THEN rows[n] ELSE None]]
  /\ allowed' = [c \in Backends |-> [n \in Names |->
       IF c = b THEN {}
       ELSE IF phase[c] = "open" /\ own[b][n] # None THEN allowed[c][n] \cup {own[b][n]}
       ELSE allowed[c][n]]]
  /\ UNCHANGED served

Announce(b) ==
  /\ phase[b] = "committing"
  /\ phase' = [phase EXCEPT ![b] = "none"]
  /\ replaced' = [replaced EXCEPT ![b] = Nothing]
  /\ UNCHANGED <<rows, own, allowed, served>>

Rollback(b) ==
  /\ phase[b] = "open"
  /\ phase' = [phase EXCEPT ![b] = "none"]
  /\ own' = [own EXCEPT ![b] = Nothing]
  /\ allowed' = [allowed EXCEPT ![b] = [n \in Names |-> {}]]
  /\ served' = [served EXCEPT ![b] = Nothing]
  /\ UNCHANGED <<rows, replaced>>

Next ==
  \E b \in Backends :
    \/ Start(b) \/ EndOfStatement(b) \/ Publish(b) \/ Announce(b) \/ Rollback(b)
    \/ \E n \in Names, row \in Row : Write(b, n, row) \/ Answer(b, n, row)

Spec == Init /\ [][Next]_vars
=============================================================================
