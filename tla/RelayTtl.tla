------------------------------- MODULE RelayTtl -------------------------------
(***************************************************************************)
(* The operations of RelayTtlTable (src/relay/relay_ttl_table.hpp) on a    *)
(* table value.  A table is a partial function from keys to entries; an    *)
(* entry holds its value and rem, the time left before expires_at (zero:   *)
(* expired but still stored, because expiry is lazy).  Keeping the time    *)
(* left instead of the instant makes the passage of time a step on the     *)
(* table, with no bound on how long the relay runs.                        *)
(***************************************************************************)
EXTENDS Naturals, FiniteSets

Empty == [k \in {} |-> {}]

LiveKeys(t) == {k \in DOMAIN t : t[k].rem > 0}

Without(t, k) == [j \in DOMAIN t \ {k} |-> t[j]]

With(t, k, e) == [j \in DOMAIN t \cup {k} |-> IF j = k THEN e ELSE t[j]]

Expire(t) == [k \in LiveKeys(t) |-> t[k]]

(* One unit of time; nothing is removed by it. *)
Age(t) == [k \in DOMAIN t |->
             [t[k] EXCEPT !.rem = IF t[k].rem > 0 THEN t[k].rem - 1 ELSE 0]]

MutantPressed(t, cap, k) ==
  IF k \in DOMAIN t /\ t[k].rem = 0 THEN Without(t, k) ELSE t
(* What upsert finds once a dead entry under the same key is dropped and,  *)
(* when the table is at capacity, every dead entry is.                     *)
Pressed(t, cap, k) ==
  LET mine == IF k \in DOMAIN t /\ t[k].rem = 0 THEN Without(t, k) ELSE t
  IN  IF k \in LiveKeys(t) \/ Cardinality(DOMAIN mine) < cap
      THEN mine ELSE Expire(mine)

Accepts(t, cap, k) ==
  \/ k \in LiveKeys(t)
  \/ Cardinality(DOMAIN Pressed(t, cap, k)) < cap

Upsert(t, cap, k, v, ttl) ==
  LET p == Pressed(t, cap, k)
  IN  IF Accepts(t, cap, k) THEN With(p, k, [val |-> v, rem |-> ttl]) ELSE p
===============================================================================
