-------------------------------- MODULE TtlMap --------------------------------
(***************************************************************************)
(* What the relay's expiring tables promise their callers: a map of live   *)
(* entries.  An entry is there until it is taken, erased or its time is    *)
(* up, and at that instant it is gone; a new key is refused only when the  *)
(* map holds Capacity live entries.                                        *)
(***************************************************************************)
EXTENDS Naturals, FiniteSets

CONSTANTS Keys, Values, Ttls, Capacity, None

VARIABLES live,   \* the live entries: a partial function from Keys
          out     \* the answer to the last call

vars == <<live, out>>

Init == live = [k \in {} |-> {}] /\ out = None

Upsert(k, v, ttl) ==
  \/ /\ k \in DOMAIN live \/ Cardinality(DOMAIN live) < Capacity
     /\ live' = [j \in DOMAIN live \cup {k} |->
                   IF j = k THEN [val |-> v, rem |-> ttl] ELSE live[j]]
     /\ out' = "stored"
  \/ /\ k \notin DOMAIN live /\ Cardinality(DOMAIN live) >= Capacity
     /\ out' = "refused"
     /\ UNCHANGED live

Answer(k) == IF k \in DOMAIN live THEN live[k].val ELSE None

Get(k) == out' = Answer(k) /\ UNCHANGED live

Take(k) == out' = Answer(k) /\ live' = [j \in DOMAIN live \ {k} |-> live[j]]

Erase(k) == out' = None /\ live' = [j \in DOMAIN live \ {k} |-> live[j]]

Tick ==
  /\ live' = [k \in {j \in DOMAIN live : live[j].rem > 1} |->
                [live[k] EXCEPT !.rem = live[k].rem - 1]]
  /\ out' = None

Next == \/ \E k \in Keys : Get(k) \/ Take(k) \/ Erase(k)
        \/ \E k \in Keys, v \in Values, ttl \in Ttls : Upsert(k, v, ttl)
        \/ Tick

Spec == Init /\ [][Next]_vars
===============================================================================
