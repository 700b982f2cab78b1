---------------------------- MODULE RelayTtlTable ----------------------------
(***************************************************************************)
(* RelayTtlTable (src/relay/relay_ttl_table.hpp), the table under the      *)
(* relay's enrollment challenges, login challenges and endpoint directory. *)
(* Entries are dropped lazily: by a call that meets a dead one, by an      *)
(* upsert at capacity and by the periodic sweep.  The module shows that    *)
(* the laziness cannot be observed: the table implements TtlMap.           *)
(***************************************************************************)
EXTENDS RelayTtl

CONSTANTS Keys, Values, Ttls, Capacity, None

ASSUME TtlAssumption ==
  /\ IsFiniteSet(Keys)
  /\ Ttls \subseteq Nat \ {0}
  /\ Capacity \in Nat \ {0}

VARIABLES entries, out

vars == <<entries, out>>

TypeOK ==
  /\ DOMAIN entries \subseteq Keys
  /\ entries \in [DOMAIN entries -> [val : Values, rem : Nat]]

Init == entries = Empty /\ out = None

upsert(k, v, ttl) ==
  /\ entries' = Upsert(entries, Capacity, k, v, ttl)
  /\ out' = IF Accepts(entries, Capacity, k) THEN "stored" ELSE "refused"

get(k) ==
  /\ out' = IF k \in LiveKeys(entries) THEN entries[k].val ELSE None
  /\ UNCHANGED entries

take(k) ==
  /\ out' = IF k \in LiveKeys(entries) THEN entries[k].val ELSE None
  /\ entries' = Without(entries, k)

erase(k) == entries' = Without(entries, k) /\ out' = None

expire == entries' = Expire(entries) /\ UNCHANGED out

Tick == entries' = Age(entries) /\ out' = None

Next == \/ \E k \in Keys : get(k) \/ take(k) \/ erase(k)
        \/ \E k \in Keys, v \in Values, ttl \in Ttls : upsert(k, v, ttl)
        \/ expire
        \/ Tick

Spec == Init /\ [][Next]_vars

(* The refinement mapping: the caller's map is the part of the table that  *)
(* has time left.                                                          *)
Map == INSTANCE TtlMap WITH live <- Expire(entries)

(* relay_ttl_table.hpp:142-144 says "rejection only happens when the table *)
(* is full of live entries".  Every call answers as the map of live        *)
(* entries would, whatever dead entries the table still holds: capacity    *)
(* is never lost to them, none is ever handed out, and a challenge taken   *)
(* once is gone.                                                           *)
ImplementsTtlMap == Map!Spec
===============================================================================
