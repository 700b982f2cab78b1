------------------------- MODULE SignalingReplayCache -------------------------
(***************************************************************************)
(* The signaling replay cache (src/core/signaling_replay_cache.cpp): the   *)
(* keys of signed messages admitted in the last ttl, with a capacity and a *)
(* capacity per signer, expired inline for the key asked for and swept at  *)
(* most once per sweep interval.  A key is a signer and one of the ids it  *)
(* used; rem is the time until the entry expires.                          *)
(***************************************************************************)
EXTENDS Naturals, FiniteSets, FiniteSetsExt

CONSTANTS
  Signers, Ids,
  ReplayTtl, ReplayCapacity, PerPeer,  \* ReplayCachePolicy
  SweepEvery                           \* one second

(* create: the capacity covers the capacity of a peer. *)
ASSUME ReplayAssumption ==
  ReplayTtl > 0 /\ PerPeer > 0 /\ ReplayCapacity >= PerPeer

ReplayKeys == Signers \X Ids

VARIABLES
  seen,     \* entries_: time left, a partial function from ReplayKeys
  perPeer,  \* per_peer_: counts, a partial function from Signers
  sweep     \* time until next_sweep_

replayVars == <<seen, perPeer, sweep>>

ReplayInit ==
  /\ seen = [k \in {} |-> 0]
  /\ perPeer = [s \in {} |-> 0]
  /\ sweep = 0

(* evict_entry for every key of D: the count of the signer goes down and   *)
(* its slot goes at zero.                                                  *)
Evicted(counts, D) ==
  LET left(s) == counts[s] - Cardinality({k \in D : k[1] = s})
  IN  [s \in {x \in DOMAIN counts : left(x) > 0 \/ \A k \in D : k[1] # x} |->
         left(s)]

Live(t) == {k \in DOMAIN t : t[k] > 0}

MutantAfterOwn(t, c, k) ==
  IF k \in DOMAIN t /\ t[k] = 0
  THEN <<Restrict(t, DOMAIN t \ {k}), c>> ELSE <<t, c>>
(* The table and the counts once the sweep that may be due and the expired *)
(* entry of the key itself are out of the way.                             *)
AfterOwn(t, c, k) ==
  IF k \in DOMAIN t /\ t[k] = 0
  THEN <<Restrict(t, DOMAIN t \ {k}), Evicted(c, {k})>> ELSE <<t, c>>

AfterSweep ==
  IF sweep > 0 THEN <<seen, perPeer>>
  ELSE <<Restrict(seen, Live(seen)),
         Evicted(perPeer, DOMAIN seen \ Live(seen))>>

ReplayAdmit(k) ==
  LET swept == AfterSweep
      at    == AfterOwn(swept[1], swept[2], k)
      t     == at[1]
      n     == IF k[1] \in DOMAIN at[2] THEN at[2][k[1]] ELSE 0
      count(m) == [s \in DOMAIN at[2] \cup {k[1]} |->
                     IF s = k[1] THEN m ELSE at[2][s]]
  IN  /\ sweep' = IF sweep > 0 THEN sweep ELSE SweepEvery
      /\ IF k \in DOMAIN t
         THEN seen' = t /\ perPeer' = at[2]
         ELSE IF n >= PerPeer \/ Cardinality(DOMAIN t) >= ReplayCapacity
         THEN seen' = t /\ perPeer' = count(n)
         ELSE /\ seen' = [j \in DOMAIN t \cup {k} |->
                            IF j = k THEN ReplayTtl ELSE t[j]]
              /\ perPeer' = count(n + 1)

ReplayTick ==
  /\ seen' = [k \in DOMAIN seen |-> IF seen[k] > 0 THEN seen[k] - 1 ELSE 0]
  /\ sweep' = IF sweep > 0 THEN sweep - 1 ELSE 0
  /\ UNCHANGED perPeer

ReplayNext == (\E k \in ReplayKeys : ReplayAdmit(k)) \/ ReplayTick

ReplaySpec == ReplayInit /\ [][ReplayNext]_replayVars

(* The counts per signer are kept by every path that adds, sweeps or       *)
(* expires an entry: a signer is refused only while it really holds        *)
(* PerPeer entries or the table is full, so a count that drifted never     *)
(* shuts a peer out.                                                       *)
PeerCountsExact ==
  \A s \in Signers :
    (IF s \in DOMAIN perPeer THEN perPeer[s] ELSE 0)
      = Cardinality({k \in DOMAIN seen : k[1] = s})
===============================================================================
