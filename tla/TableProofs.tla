------------------------------ MODULE TableProofs ------------------------------
(***************************************************************************)
(* What the bounded tables promise: the lazy table of the relay implements *)
(* the map of live entries, for every set of keys, values and times to     *)
(* live and every capacity; and the two memories against replays keep      *)
(* their word for any number of endpoints, signers, boots, sequences and   *)
(* ids and any capacities.                                                 *)
(***************************************************************************)
EXTENDS RelayTtlTable, LanDirectory, SignalingReplayCache, FiniteSetTheorems, TLAPS

(* A table over Keys, as TypeOK has it. *)
Table(t) == /\ DOMAIN t \subseteq Keys
            /\ t \in [DOMAIN t -> [val : Values, rem : Nat]]

(* What a lookup in the live part of a table finds. *)
LEMMA LiveLookup ==
  ASSUME NEW t, Table(t)
  PROVE  /\ DOMAIN Expire(t) = LiveKeys(t)
         /\ \A k \in LiveKeys(t) : Expire(t)[k] = t[k]
         /\ LiveKeys(t) \subseteq DOMAIN t
  BY DEF Expire, LiveKeys

(* Two tables with the same live entries are the same map. *)
LEMMA SameLive ==
  ASSUME NEW t, NEW u, LiveKeys(t) = LiveKeys(u),
         \A k \in LiveKeys(t) : t[k] = u[k]
  PROVE  Expire(t) = Expire(u)
  BY DEF Expire

(* Sweeping keeps the live entries, and only them. *)
LEMMA ExpireLive ==
  ASSUME NEW t, Table(t)
  PROVE  /\ Table(Expire(t))
         /\ LiveKeys(Expire(t)) = LiveKeys(t)
         /\ Expire(Expire(t)) = Expire(t)
  BY DEF Expire, LiveKeys, Table

(* Taking or erasing a key takes it from the map, whatever it held. *)
LEMMA WithoutLive ==
  ASSUME NEW t, Table(t), NEW k
  PROVE  /\ Table(Without(t, k))
         /\ LiveKeys(Without(t, k)) = LiveKeys(t) \ {k}
         /\ Expire(Without(t, k)) =
              [j \in DOMAIN Expire(t) \ {k} |-> Expire(t)[j]]
  BY DEF Expire, LiveKeys, Table, Without

(* Storing an entry stores it in the map. *)
LEMMA WithLive ==
  ASSUME NEW t, Table(t), NEW k \in Keys, NEW v \in Values, NEW n \in Nat \ {0}
  PROVE  LET e == [val |-> v, rem |-> n]
         IN  /\ Table(With(t, k, e))
             /\ Expire(With(t, k, e)) =
                  [j \in DOMAIN Expire(t) \cup {k} |->
                     IF j = k THEN e ELSE Expire(t)[j]]
  BY DEF Expire, LiveKeys, Table, With

(* A unit of time ends the entries that had one left. *)
LEMMA AgeLive ==
  ASSUME NEW t, Table(t)
  PROVE  /\ Table(Age(t))
         /\ Expire(Age(t)) =
              [k \in {j \in DOMAIN Expire(t) : Expire(t)[j].rem > 1} |->
                 [Expire(t)[k] EXCEPT !.rem = Expire(t)[k].rem - 1]]
  BY DEF Expire, LiveKeys, Table, Age

(* Making room keeps every live entry. *)
LEMMA PressedLive ==
  ASSUME NEW t, Table(t), NEW k
  PROVE  /\ Table(Pressed(t, Capacity, k))
         /\ Expire(Pressed(t, Capacity, k)) = Expire(t)
  <1> DEFINE mine == IF k \in DOMAIN t /\ t[k].rem = 0 THEN Without(t, k) ELSE t
  <1>1. Table(mine)
    BY WithoutLive, Zenon
  <1>2. Expire(mine) = Expire(t)
    <2>1. CASE k \in DOMAIN t /\ t[k].rem = 0
      <3>1. k \notin LiveKeys(t)
        BY <2>1 DEF LiveKeys
      <3>2. LiveKeys(mine) = LiveKeys(t)
        <4>1. mine = Without(t, k)
          BY <2>1
        <4>2. LiveKeys(Without(t, k)) = LiveKeys(t) \ {k}
          BY WithoutLive, Zenon
        <4> QED
          BY <3>1, <4>1, <4>2
      <3>3. \A j \in LiveKeys(t) : mine[j] = t[j]
        BY <2>1, <3>1 DEF Without, LiveKeys
      <3> QED
        BY <3>2, <3>3, SameLive
    <2>2. CASE ~(k \in DOMAIN t /\ t[k].rem = 0)
      BY <2>2
    <2> QED
      BY <2>1, <2>2
  <1>3. Table(Expire(mine)) /\ Expire(Expire(mine)) = Expire(mine)
    BY <1>1, ExpireLive
  <1>4. Pressed(t, Capacity, k) \in {mine, Expire(mine)}
    BY DEF Pressed
  <1> QED
    BY <1>1, <1>2, <1>3, <1>4

(* Cardinalities of a finite set and its subsets. *)
LEMMA Fits ==
  ASSUME NEW S, NEW T, IsFiniteSet(S), T \subseteq S
  PROVE  /\ Cardinality(T) \in Nat /\ Cardinality(S) \in Nat
         /\ Cardinality(T) <= Cardinality(S)
  BY FS_Subset, FS_CardinalityType

(* An upsert is refused exactly when the live entries alone fill the table.*)
LEMMA AcceptsWhenLiveFit ==
  ASSUME NEW t, Table(t), NEW k
  PROVE  Accepts(t, Capacity, k) <=>
           k \in LiveKeys(t) \/ Cardinality(LiveKeys(t)) < Capacity
  <1> DEFINE mine == IF k \in DOMAIN t /\ t[k].rem = 0 THEN Without(t, k) ELSE t
  <1>1. CASE k \in LiveKeys(t)
    BY <1>1 DEF Accepts
  <1>2. CASE k \notin LiveKeys(t)
    <2>1. /\ Table(mine) /\ LiveKeys(mine) = LiveKeys(t)
          /\ LiveKeys(t) \subseteq DOMAIN mine
          /\ IsFiniteSet(DOMAIN mine)
      <3>1. DOMAIN mine \subseteq DOMAIN t /\ DOMAIN t \subseteq Keys
        BY DEF Without, Table
      <3>2. IsFiniteSet(DOMAIN mine)
        BY <3>1, TtlAssumption, FS_Subset
      <3> QED
        BY <1>2, <3>2, WithoutLive, Zenon DEF LiveKeys, Without
    <2>2. /\ Cardinality(LiveKeys(t)) \in Nat /\ Cardinality(DOMAIN mine) \in Nat
          /\ Cardinality(LiveKeys(t)) <= Cardinality(DOMAIN mine)
      BY <2>1, Fits
    <2>3. CASE Cardinality(DOMAIN mine) < Capacity
      BY <1>2, <2>2, <2>3, TtlAssumption DEF Accepts, Pressed
    <2>4. CASE ~(Cardinality(DOMAIN mine) < Capacity)
      <3>1. Pressed(t, Capacity, k) = Expire(mine)
        BY <1>2, <2>4 DEF Pressed
      <3>2. DOMAIN Expire(mine) = LiveKeys(t)
        BY <2>1, LiveLookup
      <3> QED
        BY <1>2, <3>1, <3>2 DEF Accepts
    <2> QED
      BY <2>3, <2>4
  <1> QED
    BY <1>1, <1>2

(***************************************************************************)
(* Type correctness.                                                       *)
(***************************************************************************)

(* An upsert leaves a table. *)
LEMMA UpsertTable ==
  ASSUME NEW t, Table(t), NEW k \in Keys, NEW v \in Values, NEW n \in Ttls
  PROVE  Table(Upsert(t, Capacity, k, v, n))
  <1>1. n \in Nat \ {0}
    BY TtlAssumption
  <1>2. Table(Pressed(t, Capacity, k))
    BY PressedLive
  <1> QED
    BY <1>1, <1>2, WithLive, Zenon DEF Upsert

(* One step per operation of the table. *)
LEMMA TypeStep == TypeOK /\ [Next]_vars => TypeOK'
  <1> SUFFICES ASSUME TypeOK, [Next]_vars PROVE TypeOK'
    OBVIOUS
  <1>0. Table(entries)
    BY DEF TypeOK, Table
  <1>1. ASSUME NEW k \in Keys, get(k) \/ take(k) \/ erase(k) PROVE TypeOK'
    <2>1. Table(Without(entries, k))
      BY <1>0, WithoutLive, Zenon
    <2>2. entries' = entries \/ entries' = Without(entries, k)
      BY <1>1 DEF get, take, erase
    <2> QED
      BY <1>0, <2>1, <2>2 DEF TypeOK, Table
  <1>2. ASSUME NEW k \in Keys, NEW v \in Values, NEW n \in Ttls, upsert(k, v, n)
        PROVE TypeOK'
    BY <1>0, <1>2, UpsertTable DEF upsert, TypeOK, Table
  <1>3. CASE expire
    BY <1>0, <1>3, ExpireLive DEF expire, TypeOK, Table
  <1>4. CASE Tick
    BY <1>0, <1>4, AgeLive, Zenon DEF Tick, TypeOK, Table
  <1>5. CASE UNCHANGED vars
    BY <1>5 DEF vars, TypeOK
  <1> QED
    BY <1>1, <1>2, <1>3, <1>4, <1>5 DEF Next

(* The entries of the table stay well typed under every operation. *)
THEOREM TypeCorrect == Spec => []TypeOK
  <1>1. Init => TypeOK
    BY DEF Init, TypeOK, Empty
  <1> QED
    BY <1>1, TypeStep, PTL DEF Spec

(***************************************************************************)
(* The refinement, action by action.                                       *)
(***************************************************************************)

(* The map counts as the table does. *)
LEMMA SameCardinality == \A S : Map!Cardinality(S) = Cardinality(S)
  BY DEF Map!Cardinality, Cardinality

(* An upsert of the table is an upsert of the map: stored or refused alike.*)
LEMMA UpsertImplements ==
  ASSUME Table(entries), NEW k \in Keys, NEW v \in Values, NEW n \in Ttls,
         upsert(k, v, n)
  PROVE  Map!Upsert(k, v, n)
  <1> DEFINE p == Pressed(entries, Capacity, k)
  <1>1. DOMAIN Expire(entries) = LiveKeys(entries)
    BY LiveLookup
  <1>2. Table(p) /\ Expire(p) = Expire(entries)
    BY PressedLive
  <1>3. Accepts(entries, Capacity, k) <=>
          k \in LiveKeys(entries) \/ Cardinality(LiveKeys(entries)) < Capacity
    BY AcceptsWhenLiveFit
  <1>4. CASE Accepts(entries, Capacity, k)
    <2>1. entries' = With(p, k, [val |-> v, rem |-> n]) /\ out' = "stored"
      BY <1>4 DEF upsert, Upsert
    <2>2. n \in Nat \ {0}
      BY TtlAssumption
    <2>3. Expire(entries') = [j \in DOMAIN Expire(p) \cup {k} |->
              IF j = k THEN [val |-> v, rem |-> n] ELSE Expire(p)[j]]
      BY <1>2, <2>1, <2>2, WithLive
    <2> QED
      BY <1>1, <1>2, <1>3, <1>4, <2>1, <2>3, SameCardinality DEF Map!Upsert
  <1>5. CASE ~Accepts(entries, Capacity, k)
    <2>1. entries' = p /\ out' = "refused"
      BY <1>5 DEF upsert, Upsert
    <2>2. Cardinality(LiveKeys(entries)) \in Nat
      <3>1. LiveKeys(entries) \subseteq Keys
        BY DEF LiveKeys, Table
      <3> QED
        BY <3>1, TtlAssumption, FS_Subset, FS_CardinalityType
    <2>3. Cardinality(LiveKeys(entries)) >= Capacity
      BY <1>3, <1>5, <2>2, TtlAssumption
    <2> QED
      BY <1>1, <1>2, <1>3, <1>5, <2>1, <2>3, SameCardinality DEF Map!Upsert
  <1> QED
    BY <1>4, <1>5

(* Lookups answer from the live entries alone. *)
LEMMA LookupImplements ==
  ASSUME Table(entries), NEW k \in Keys
  PROVE  /\ get(k) => Map!Get(k)
         /\ take(k) => Map!Take(k)
         /\ erase(k) => Map!Erase(k)
  <1>1. /\ DOMAIN Expire(entries) = LiveKeys(entries)
        /\ \A j \in LiveKeys(entries) : Expire(entries)[j] = entries[j]
    BY LiveLookup
  <1>2. Expire(Without(entries, k)) =
          [j \in DOMAIN Expire(entries) \ {k} |-> Expire(entries)[j]]
    BY WithoutLive, Zenon
  <1>3. Map!Answer(k) = IF k \in LiveKeys(entries) THEN entries[k].val ELSE None
    BY <1>1 DEF Map!Answer
  <1>4. ASSUME get(k) PROVE Map!Get(k)
    BY <1>3, <1>4 DEF get, Map!Get
  <1>5. ASSUME take(k) PROVE Map!Take(k)
    BY <1>2, <1>3, <1>5 DEF take, Map!Take
  <1>6. ASSUME erase(k) PROVE Map!Erase(k)
    BY <1>2, <1>6 DEF erase, Map!Erase
  <1> QED
    BY <1>4, <1>5, <1>6

(* Every step of the table is a step of the map; a sweep is none. *)
LEMMA StepImplements == TypeOK /\ [Next]_vars => [Map!Next]_(Map!vars)
  <1> SUFFICES ASSUME TypeOK, [Next]_vars PROVE [Map!Next]_(Map!vars)
    OBVIOUS
  <1>0. Table(entries)
    BY DEF TypeOK, Table
  <1>1. ASSUME NEW k \in Keys, get(k) \/ take(k) \/ erase(k) PROVE Map!Next
    BY <1>0, <1>1, LookupImplements DEF Map!Next
  <1>2. ASSUME NEW k \in Keys, NEW v \in Values, NEW n \in Ttls, upsert(k, v, n)
        PROVE Map!Next
    BY <1>0, <1>2, UpsertImplements DEF Map!Next
  <1>3. CASE expire
    <2>1. Expire(entries') = Expire(entries)
      BY <1>0, <1>3, ExpireLive DEF expire
    <2> QED
      BY <1>3, <2>1 DEF expire, Map!vars
  <1>4. CASE Tick
    <2>1. Map!Tick
      BY <1>0, <1>4, AgeLive, Zenon DEF Tick, Map!Tick
    <2> QED
      BY <2>1 DEF Map!Next
  <1>5. CASE UNCHANGED vars
    BY <1>5 DEF vars, Map!vars
  <1> QED
    BY <1>1, <1>2, <1>3, <1>4, <1>5 DEF Next

(* relay_ttl_table.hpp:142-144: whatever the keys, the times to live and   *)
(* the capacity, callers of the table cannot tell it from a map in which   *)
(* an entry is gone the instant its time is up.                            *)
THEOREM TableImplementsMap == Spec => ImplementsTtlMap
  <1>1. Init => Map!Init
    BY DEF Init, Map!Init, Empty, Expire, LiveKeys
  <1> QED
    BY <1>1, StepImplements, TypeCorrect, PTL
       DEF Spec, ImplementsTtlMap, Map!Spec

(***************************************************************************)
(* The two memories against replays.                                       *)
(***************************************************************************)

-------------------------------------------------------------------------------
(* AcceptedOnce: what a replay state remembers covers every presence that  *)
(* was accepted since it was created (an older boot is retired, the        *)
(* current one is behind its sequence), and a fresh presence is neither.   *)

HintOK(h) ==
  h = NoHint \/ /\ DOMAIN h = {"boot", "seq", "rem"}
                /\ h.rem \in Nat

EntryOK(e) == "lan" \in DOMAIN e /\ HintOK(e.lan)

StateOK(r) ==
  /\ {"boot", "seq", "retired"} \subseteq DOMAIN r
  /\ r.seq \in Nat /\ r.boot \notin r.retired

(* The replay state r covers the accepted presence u. *)
Covers(r, u) ==
  \/ u[1] \in r.retired
  \/ u[1] = r.boot /\ u[2] \in Nat /\ u[2] <= r.seq

Remembers(t, h) ==
  /\ \A k \in DOMAIN t : StateOK(t[k])
  /\ DOMAIN h = LanKeys
  /\ \A k \in LanKeys : \A u \in h[k] : k \in DOMAIN t /\ Covers(t[k], u)

LanInv ==
  /\ \A k \in DOMAIN dir : EntryOK(dir[k])
  /\ Remembers(replay, used)

Hint(d, k) == IF k \in DOMAIN d THEN d[k].lan ELSE NoHint

(* The step shows no presence of k that it did not show already. *)
Shows(d, e, k) ==
  /\ Hint(e, k) # NoHint
  /\ \/ Hint(d, k) = NoHint
     \/ Hint(e, k).rem > Hint(d, k).rem
     \/ Hint(e, k).boot # Hint(d, k).boot
     \/ Hint(e, k).seq # Hint(d, k).seq

LEMMA SameShows ==
  ASSUME NEW d, NEW e, NEW k, HintOK(Hint(d, k)),
         Hint(e, k) = Hint(d, k) \/ Hint(e, k) = NoHint
  PROVE  ~Shows(d, e, k)
BY DEF Shows, HintOK

LEMMA Restricted ==
  ASSUME NEW f, NEW S PROVE DOMAIN Restrict(f, S) = S /\ \A x \in S : Restrict(f, S)[x] = f[x]
BY DEF Restrict

LEMMA ForgetRemembers ==
  ASSUME LanInv, NEW t, DOMAIN t \subseteq DOMAIN replay, \A k \in DOMAIN t : t[k] = replay[k]
  PROVE  Remembers(t, Forget(t))
BY DEF LanInv, Remembers, Forget

LEMMA SlotsRemember ==
  ASSUME LanInv, NEW k, NEW t \in Slots(k) PROVE Remembers(t, Forget(t))
<1>1. t = replay \/ \E v : t = Restrict(replay, DOMAIN replay \ {v})
  BY DEF Slots
<1>2. DOMAIN t \subseteq DOMAIN replay /\ \A j \in DOMAIN t : t[j] = replay[j]
  BY <1>1, Zenon DEF Restrict
<1> QED BY <1>2, ForgetRemembers

LEMMA StateHolds ==
  ASSUME NEW t, NEW h, Remembers(t, h), NEW k, NEW p
  PROVE  StateOK(State(t, k, p))
<1>1. CASE k \in DOMAIN t
  BY <1>1 DEF Remembers, State
<1>2. CASE k \notin DOMAIN t
  BY <1>2 DEF State, StateOK
<1> QED BY <1>1, <1>2

LEMMA TurnedHolds ==
  ASSUME NEW r, StateOK(r), NEW p, FreshOf(r, p)
  PROVE  /\ StateOK(Turned(r, p)) /\ Turned(r, p).boot = p.boot
         /\ \A u : Covers(r, u) => Covers(Turned(r, p), u)
<1>1. CASE r.boot = p.boot
  BY <1>1 DEF Turned
<1>2. CASE r.boot # p.boot
  <2>1. /\ DOMAIN Turned(r, p) = DOMAIN r /\ Turned(r, p).boot = p.boot
        /\ Turned(r, p).seq = 0 /\ Turned(r, p).retired = r.retired \cup {r.boot}
    BY <1>2 DEF Turned, StateOK
  <2>2. p.boot \notin r.retired \cup {r.boot}
    BY <1>2 DEF FreshOf
  <2> QED BY <2>1, <2>2 DEF StateOK, Covers
<1> QED BY <1>1, <1>2

LEMMA FreshUncovered ==
  ASSUME NEW r, StateOK(r), NEW p, p.seq \in Nat, FreshOf(r, p)
  PROVE  ~Covers(r, <<p.boot, p.seq>>)
BY DEF StateOK, FreshOf, Covers

(* A state that covers what the old one of k covered takes its place. *)
LEMMA EnteredRemembers ==
  ASSUME NEW t, NEW h, Remembers(t, h), NEW k, NEW r, StateOK(r),
         \A u : k \in DOMAIN t /\ Covers(t[k], u) => Covers(r, u)
  PROVE  Remembers(Entered(t, k, r), h)
<1> DEFINE e == Entered(t, k, r)
<1>1. DOMAIN e = DOMAIN t \cup {k} /\ \A j \in DOMAIN e : e[j] = IF j = k THEN r ELSE t[j]
  BY DEF Entered
<1> HIDE DEF e
<1>2. \A j \in DOMAIN e : StateOK(e[j])
  BY <1>1 DEF Remembers
<1>3. \A j \in LanKeys : \A u \in h[j] : j \in DOMAIN e /\ Covers(e[j], u)
  BY <1>1 DEF Remembers
<1> QED BY <1>2, <1>3 DEF Remembers, e

LEMMA EntryHolds == ASSUME LanInv, NEW k PROVE EntryOK(Entry(k)) /\ Entry(k).lan = Hint(dir, k)
<1>1. CASE k \in DOMAIN dir
  BY <1>1 DEF Entry, LanInv, Hint
<1>2. CASE k \notin DOMAIN dir
  BY <1>2 DEF Entry, NoEntry, EntryOK, HintOK, Hint
<1> QED BY <1>1, <1>2

LEMMA HintHolds == ASSUME LanInv, NEW k PROVE HintOK(Hint(dir, k))
BY EntryHolds DEF EntryOK

LEMMA RoomsHold ==
  ASSUME NEW trusted, NEW d \in Rooms(trusted) \cup {dir}
  PROVE  DOMAIN d \subseteq DOMAIN dir /\ \A j \in DOMAIN d : d[j] = dir[j]
<1>1. d = dir \/ \E v : d = Restrict(dir, DOMAIN dir \ {v})
  BY SMTT(30) DEF Rooms
<1> QED BY <1>1, Zenon DEF Restrict

LEMMA EnteredEntry ==
  ASSUME LanInv, NEW d, NEW k, NEW e, EntryOK(e),
         DOMAIN d \subseteq DOMAIN dir, \A j \in DOMAIN d : d[j] = dir[j],
         dir' = Entered(d, k, e)
  PROVE  /\ \A j \in DOMAIN dir' : EntryOK(dir'[j])
         /\ \A j : j # k => ~Shows(dir, dir', j)
         /\ Hint(dir', k) = e.lan
<1>1. DOMAIN dir' = DOMAIN d \cup {k} /\ \A j \in DOMAIN dir' : dir'[j] = IF j = k THEN e ELSE d[j]
  BY DEF Entered
<1>2. \A j \in DOMAIN dir' : EntryOK(dir'[j])
  BY <1>1 DEF LanInv
<1>3. ASSUME NEW j, j # k PROVE Hint(dir', j) = Hint(dir, j) \/ Hint(dir', j) = NoHint
  BY <1>1, <1>3 DEF Hint
<1>4. Hint(dir', k) = e.lan
  BY <1>1 DEF Hint
<1> QED BY <1>2, <1>3, <1>4, HintHolds, SameShows

(* What a step may show. *)
Unused(k) == Shows(dir, dir', k) => <<Hint(dir', k).boot, Hint(dir', k).seq>> \notin used[k]

LEMMA SameDirectory == ASSUME LanInv, UNCHANGED dir PROVE \A k : Unused(k)
BY HintHolds, SameShows DEF Unused

LEMMA ObserveHolds ==
  ASSUME LanInv, NEW k \in LanKeys, NEW p \in Presences, ObserveLan(k, p)
  PROVE  LanInv' /\ \A j \in LanKeys : Unused(j)
<1>1. CASE UNCHANGED <<dir, replay, used>>
  BY <1>1, SameDirectory DEF LanInv
<1>2. ASSUME NEW t \in Slots(k),
             \/ /\ ~FreshOf(State(t, k, p), p)
                /\ replay' = Entered(t, k, State(t, k, p))
             \/ /\ FreshOf(State(t, k, p), p)
                /\ replay' = Entered(t, k, Turned(State(t, k, p), p)),
             UNCHANGED dir, used' = Forget(t)
      PROVE  LanInv' /\ \A j \in LanKeys : Unused(j)
  <2> DEFINE r == State(t, k, p)
  <2>1. Remembers(t, Forget(t)) /\ StateOK(r)
    BY SlotsRemember, StateHolds
  <2>2. \A u : k \in DOMAIN t /\ Covers(t[k], u) => Covers(r, u)
    BY DEF State
  <2> HIDE DEF r
  <2>3. CASE replay' = Entered(t, k, r)
    <3>1. Remembers(replay', used')
      BY <1>2, <2>1, <2>2, <2>3, EnteredRemembers
    <3> QED BY <1>2, <3>1, SameDirectory DEF LanInv
  <2>4. CASE FreshOf(r, p) /\ replay' = Entered(t, k, Turned(r, p))
    <3>1. StateOK(Turned(r, p)) /\ \A u : k \in DOMAIN t /\ Covers(t[k], u) => Covers(Turned(r, p), u)
      BY <2>1, <2>2, <2>4, TurnedHolds
    <3>2. Remembers(replay', used')
      BY <1>2, <2>1, <2>4, <3>1, EnteredRemembers
    <3> QED BY <1>2, <3>2, SameDirectory DEF LanInv
  <2> QED BY <1>2, <2>3, <2>4 DEF r
<1> DEFINE trusted == k \in Known
           hint == [boot |-> p.boot, seq |-> p.seq, rem |-> Lease]
           entry == [trusted |-> Entry(k).trusted \/ trusted, relay |-> Entry(k).relay,
                     age |-> 0, lan |-> hint]
<1>3. ASSUME NEW t \in Slots(k), FreshOf(State(t, k, p), p),
             replay' = Entered(t, k, [Turned(State(t, k, p), p)
                                        EXCEPT !.seq = p.seq, !.retain = 2 * Lease]),
             used' = [Forget(t) EXCEPT ![k] = @ \cup {<<p.boot, p.seq>>}],
             NEW d \in Rooms(trusted) \cup {dir},
             dir' = Entered(d, k, entry)
      PROVE  LanInv' /\ \A j \in LanKeys : Unused(j)
  <2> DEFINE r == State(t, k, p)
             turn == Turned(r, p)
             took == [turn EXCEPT !.seq = p.seq, !.retain = 2 * Lease]
             new == <<p.boot, p.seq>>
  <2>1. Remembers(t, Forget(t)) /\ StateOK(r) /\ p.seq \in Nat /\ Lease \in Nat
    BY SlotsRemember, StateHolds, LanAssumption, Zenon DEF Presences
  <2>2. \A u : k \in DOMAIN t /\ Covers(t[k], u) => Covers(r, u)
    BY DEF State
  <2>3. FreshOf(r, p) /\ replay' = Entered(t, k, took)
    BY <1>3
  <2> HIDE DEF r
  <2>4. StateOK(turn) /\ turn.boot = p.boot /\ \A u : Covers(r, u) => Covers(turn, u)
    BY <2>1, <2>3, TurnedHolds
  <2>5. turn.seq <= p.seq /\ turn.seq \in Nat
    BY <2>1, <2>3 DEF FreshOf, Turned, StateOK
  <2> HIDE DEF turn
  <2>6. /\ DOMAIN took = DOMAIN turn /\ took.boot = p.boot /\ took.seq = p.seq
        /\ took.retired = turn.retired
    BY <2>4 DEF StateOK
  <2> HIDE DEF took
  <2>7. StateOK(took) /\ Covers(took, new)
    BY <2>1, <2>4, <2>6 DEF StateOK, Covers
  <2>8. ASSUME NEW u, Covers(turn, u) PROVE Covers(took, u)
    BY <2>1, <2>4, <2>5, <2>6, <2>8 DEF Covers
  <2>9. Remembers(replay', Forget(t))
    BY <2>1, <2>2, <2>3, <2>4, <2>7, <2>8, EnteredRemembers
  <2>10. replay'[k] = took /\ k \in DOMAIN replay'
    BY <2>3 DEF Entered
  <2>11. Remembers(replay', used')
    BY <1>3, <2>7, <2>9, <2>10 DEF Remembers
  <2>12. EntryOK(entry) /\ entry.lan = hint
    BY <2>1 DEF EntryOK, HintOK
  <2>13. DOMAIN d \subseteq DOMAIN dir /\ \A j \in DOMAIN d : d[j] = dir[j]
    BY <1>3, RoomsHold
  <2> HIDE DEF entry
  <2>14. /\ \A j \in DOMAIN dir' : EntryOK(dir'[j])
         /\ \A j : j # k => ~Shows(dir, dir', j)
         /\ Hint(dir', k) = hint
    BY <1>3, <2>12, <2>13, EnteredEntry
  <2>15. new \notin used[k]
    <3>1. SUFFICES ASSUME new \in used[k] PROVE FALSE
      OBVIOUS
    <3>2. k \in DOMAIN replay /\ Covers(replay[k], new)
      BY <3>1 DEF LanInv, Remembers
    <3>3. t = replay
      BY <1>3, <3>2 DEF Slots
    <3>4. Covers(r, new)
      BY <3>2, <3>3 DEF r, State
    <3> QED BY <2>1, <2>3, <3>4, FreshUncovered
  <2>16. Unused(k)
    BY <2>14, <2>15 DEF Unused
  <2> QED BY <2>11, <2>14, <2>16 DEF LanInv, Unused
<1> QED BY <1>1, <1>2, <1>3, Zenon DEF ObserveLan

LEMMA RelayHolds ==
  ASSUME LanInv, NEW k, NEW id, UpsertRelay(k, id)
  PROVE  LanInv' /\ \A j : Unused(j)
<1>1. CASE UNCHANGED dir
  BY <1>1, SameDirectory DEF LanInv, UpsertRelay
<1> DEFINE e == [Entry(k) EXCEPT !.trusted = @ \/ (k \in Known), !.age = 0,
                                 !.relay = [id |-> id, rem |-> Lease]]
<1>2. ASSUME NEW d \in Rooms(k \in Known) \cup {dir}, dir' = Entered(d, k, e)
      PROVE  LanInv' /\ \A j : Unused(j)
  <2>1. EntryOK(e) /\ e.lan = Hint(dir, k)
    BY EntryHolds DEF EntryOK
  <2>2. DOMAIN d \subseteq DOMAIN dir /\ \A j \in DOMAIN d : d[j] = dir[j]
    BY <1>2, RoomsHold
  <2> HIDE DEF e
  <2>3. /\ \A j \in DOMAIN dir' : EntryOK(dir'[j])
        /\ \A j : j # k => ~Shows(dir, dir', j)
        /\ Hint(dir', k) = Hint(dir, k)
    BY <1>2, <2>1, <2>2, EnteredEntry
  <2>4. ~Shows(dir, dir', k)
    BY <2>3, HintHolds, SameShows
  <2> QED BY <2>3, <2>4 DEF LanInv, UpsertRelay, Unused
<1> QED BY <1>1, <1>2 DEF UpsertRelay

LEMMA TrustHolds ==
  ASSUME LanInv, NEW k, NEW b, SetTrusted(k, b) PROVE LanInv' /\ \A j : Unused(j)
<1>1. k \in DOMAIN dir /\ dir' = [dir EXCEPT ![k].trusted = b] /\ UNCHANGED <<replay, used>>
  BY DEF SetTrusted
<1>2. DOMAIN dir' = DOMAIN dir
      /\ \A j \in DOMAIN dir : EntryOK(dir'[j]) /\ dir'[j].lan = dir[j].lan
  BY <1>1 DEF LanInv, EntryOK
<1>3. LanInv'
  BY <1>1, <1>2 DEF LanInv
<1>4. \A j : Hint(dir', j) = Hint(dir, j)
  BY <1>2 DEF Hint
<1> QED BY <1>3, <1>4, HintHolds, SameShows DEF Unused

LEMMA ExpireHolds == ASSUME LanInv, LanExpire PROVE LanInv' /\ \A j : Unused(j)
<1> DEFINE d == [k \in DOMAIN dir |-> [dir[k] EXCEPT !.lan = Unexpired(@),
                                                     !.relay = Unexpired(@)]]
           S == {k \in DOMAIN d : d[k].lan # NoHint \/ d[k].relay # NoHint}
           t == Restrict(replay, {k \in DOMAIN replay : replay[k].retain > 0})
<1>1. dir' = Restrict(d, S) /\ replay' = t /\ used' = Forget(t)
  BY Zenon DEF LanExpire
<1>2. DOMAIN t \subseteq DOMAIN replay /\ \A k \in DOMAIN t : t[k] = replay[k]
  BY Restricted
<1>3. Remembers(replay', used')
  BY <1>1, <1>2, ForgetRemembers, ZenonT(30)
<1>4. DOMAIN d = DOMAIN dir
      /\ \A k \in DOMAIN dir : "lan" \in DOMAIN d[k] /\ d[k].lan = Unexpired(dir[k].lan)
  BY Zenon DEF LanInv, EntryOK
<1>5. S \subseteq DOMAIN d
  OBVIOUS
<1> HIDE DEF d, S
<1>6. DOMAIN dir' \subseteq DOMAIN dir /\ \A k \in DOMAIN dir' :
        "lan" \in DOMAIN dir'[k] /\ (dir'[k].lan = dir[k].lan \/ dir'[k].lan = NoHint)
  BY <1>1, <1>4, <1>5, Restricted DEF Unexpired
<1>7. \A k \in DOMAIN dir' : EntryOK(dir'[k])
  BY <1>6 DEF LanInv, EntryOK, HintOK
<1>8. \A k : Hint(dir', k) = Hint(dir, k) \/ Hint(dir', k) = NoHint
  BY <1>6 DEF Hint
<1>9. \A k : Unused(k)
  BY <1>8, HintHolds, SameShows DEF Unused
<1> QED BY <1>3, <1>7, <1>9 DEF LanInv

LEMMA AgedHolds ==
  ASSUME NEW h, HintOK(h), h # NoHint, AgedHint(h) # NoHint
  PROVE  /\ HintOK(AgedHint(h)) /\ AgedHint(h).rem <= h.rem
         /\ AgedHint(h).boot = h.boot /\ AgedHint(h).seq = h.seq
BY DEF HintOK, AgedHint, Older

LEMMA TickHolds == ASSUME LanInv, LanTick PROVE LanInv' /\ \A j : Unused(j)
<1>1. DOMAIN dir' = DOMAIN dir
      /\ \A k \in DOMAIN dir : "lan" \in DOMAIN dir'[k] /\ dir'[k].lan = AgedHint(dir[k].lan)
  BY Zenon DEF LanTick, LanInv, EntryOK
<1>2. \A k : Hint(dir', k) = AgedHint(Hint(dir, k))
  BY <1>1 DEF Hint, AgedHint
<1>3. ASSUME NEW k
      PROVE  HintOK(Hint(dir', k)) /\ ~Shows(dir, dir', k)
  <2> DEFINE h == Hint(dir, k)
             a == Hint(dir', k)
  <2>1. HintOK(h) /\ a = AgedHint(h)
    BY <1>2, HintHolds
  <2>2. CASE a = NoHint
    BY <2>2 DEF HintOK, Shows
  <2>3. CASE a # NoHint
    <3>1. h # NoHint
      BY <2>1, <2>3 DEF AgedHint
    <3>2. HintOK(a) /\ a.rem <= h.rem /\ a.boot = h.boot /\ a.seq = h.seq
      BY <2>1, <2>3, <3>1, AgedHolds
    <3>3. a.rem \in Nat /\ h.rem \in Nat
      BY <2>1, <2>3, <3>1, <3>2 DEF HintOK
    <3> HIDE DEF a, h
    <3>4. ~(a # NoHint /\ (h = NoHint \/ a.rem > h.rem \/ a.boot # h.boot \/ a.seq # h.seq))
      BY <3>1, <3>2, <3>3
    <3> QED BY <3>2, <3>4 DEF Shows, a, h
  <2> QED BY <2>2, <2>3
<1>4. \A k \in DOMAIN dir' : EntryOK(dir'[k])
  BY <1>1, <1>3, SMTT(30) DEF EntryOK, Hint
<1>5. used' = used /\ DOMAIN replay' = DOMAIN replay
  BY Zenon DEF LanTick
<1>6. ASSUME NEW k \in DOMAIN replay
      PROVE  StateOK(replay'[k]) /\ \A u : Covers(replay[k], u) => Covers(replay'[k], u)
  <2> DEFINE r == replay[k]
             left == Older(r.retain)
  <2>1. StateOK(r) /\ replay'[k] = [r EXCEPT !.retain = left]
    BY Zenon DEF LanInv, Remembers, LanTick
  <2> HIDE DEF r, left
  <2>2. /\ DOMAIN replay'[k] = DOMAIN r /\ replay'[k].boot = r.boot
        /\ replay'[k].seq = r.seq /\ replay'[k].retired = r.retired
    BY <2>1 DEF StateOK
  <2>3. StateOK(replay'[k]) /\ \A u : Covers(r, u) => Covers(replay'[k], u)
    BY <2>1, <2>2 DEF StateOK, Covers
  <2> QED BY <2>3, SMTT(30) DEF r
<1>7. Remembers(replay', used')
  BY <1>5, <1>6 DEF LanInv, Remembers
<1> QED BY <1>3, <1>4, <1>7, SMTT(30) DEF LanInv, Unused

LEMMA LanStep == ASSUME LanInv, LanNext PROVE LanInv' /\ \A j \in LanKeys : Unused(j)
BY ObserveHolds, RelayHolds, TrustHolds, ExpireHolds, TickHolds DEF LanNext

(* What a replay state remembers covers every presence accepted since it   *)
(* was created (observe_lan, expire).                                      *)
THEOREM ReplayCoversUsed == LanSpec => []LanInv
<1>1. LanInit => LanInv
  BY DEF LanInit, LanInv, Remembers
<1>2. LanInv /\ [LanNext]_lanVars => LanInv'
  <2>1. ASSUME LanInv, UNCHANGED lanVars PROVE LanInv'
    BY <2>1 DEF LanInv, lanVars
  <2> QED BY <2>1, LanStep
<1> QED BY <1>1, <1>2, PTL DEF LanSpec

(* No presence that was accepted is accepted again while the replay state  *)
(* of its endpoint lasts, however the network delays, repeats and reorders *)
(* presences (observe_lan).                                                *)
THEOREM PresenceAcceptedOnce == LanSpec => AcceptedOnce
<1> DEFINE Once ==
      \A k \in LanKeys :
       LET hint(d) == IF k \in DOMAIN d THEN d[k].lan ELSE NoHint
       IN  /\ hint(dir') # NoHint
           /\ \/ hint(dir) = NoHint
              \/ hint(dir').rem > hint(dir).rem
              \/ hint(dir').boot # hint(dir).boot
              \/ hint(dir').seq # hint(dir).seq
           => <<hint(dir').boot, hint(dir').seq>> \notin used[k]
<1>1. (\A k \in LanKeys : Unused(k)) => Once
  BY DEF Unused, Shows, Hint
<1> HIDE DEF Once
<1>2. LanInv /\ [LanNext]_lanVars => [Once]_lanVars
  BY <1>1, LanStep
<1>3. LanSpec => [][Once]_lanVars
  BY <1>2, ReplayCoversUsed, PTL DEF LanSpec
<1> QED BY <1>3 DEF AcceptedOnce, Once
-------------------------------------------------------------------------------
(* PeerCountsExact: the counts match the entries through the sweep, the    *)
(* inline expiry of the key asked for and the admission, in that order;    *)
(* the argument is the cardinality of a signer's entries as entries go and *)
(* come.                                                                   *)

Of(K, s) == {k \in K : k[1] = s}

Count(c, s) == IF s \in DOMAIN c THEN c[s] ELSE 0

(* Counts c are those of the entries K. *)
Counts(K, c) ==
  /\ IsFiniteSet(K) /\ DOMAIN c \subseteq Signers
  /\ \A s \in Signers : Count(c, s) = Cardinality(Of(K, s))

LEMMA OfFinite ==
  ASSUME NEW K, IsFiniteSet(K), NEW s
  PROVE  IsFiniteSet(Of(K, s)) /\ Cardinality(Of(K, s)) \in Nat
<1>1. Of(K, s) \in SUBSET K
  BY DEF Of
<1>2. IsFiniteSet(Of(K, s))
  BY <1>1, FS_Subset
<1> QED BY <1>2, FS_CardinalityType

LEMMA EvictKeeps ==
  ASSUME NEW K, NEW c, Counts(K, c), NEW D \in SUBSET K
  PROVE  Counts(K \ D, Evicted(c, D))
<1> DEFINE e == Evicted(c, D)
           left(s) == c[s] - Cardinality(Of(D, s))
<1>1. IsFiniteSet(K) /\ IsFiniteSet(D) /\ IsFiniteSet(K \ D)
  BY FS_Subset DEF Counts
<1>2. /\ DOMAIN e = {x \in DOMAIN c : left(x) > 0 \/ \A k \in D : k[1] # x}
      /\ \A s \in DOMAIN e : e[s] = left(s)
  BY DEF Evicted, Of
<1> HIDE DEF e
<1>3. DOMAIN e \subseteq Signers
  BY <1>2 DEF Counts
<1>4. ASSUME NEW s \in Signers PROVE Count(e, s) = Cardinality(Of(K \ D, s))
  <2> DEFINE k == Cardinality(Of(K, s))
             d == Cardinality(Of(D, s))
  <2>1. IsFiniteSet(Of(K, s)) /\ k \in Nat /\ IsFiniteSet(Of(D, s)) /\ d \in Nat
    BY <1>1, OfFinite
  <2>2. Of(K \ D, s) = Of(K, s) \ Of(D, s) /\ Of(K, s) \cap Of(D, s) = Of(D, s)
    BY DEF Of
  <2>3. Cardinality(Of(K \ D, s)) = k - d
    <3>1. Cardinality(Of(K, s) \ Of(D, s))
            = k - Cardinality(Of(K, s) \cap Of(D, s))
      BY <2>1, FS_Difference, Zenon
    <3> QED BY <2>2, <3>1, Zenon
  <2>4. Cardinality(Of(K \ D, s)) \in Nat
    BY <1>1, OfFinite
  <2>5. (\A j \in D : j[1] # s) => d = 0
    <3>1. (\A j \in D : j[1] # s) => Of(D, s) = {}
      BY DEF Of
    <3> QED BY <3>1, FS_EmptySet
  <2>6. Count(c, s) = k
    BY DEF Counts
  <2> HIDE DEF k, d
  <2>7. CASE s \in DOMAIN c
    <3>1. left(s) = k - d
      BY <2>6, <2>7 DEF Count, d
    <3>2. CASE s \in DOMAIN e
      BY <1>2, <2>3, <3>1, <3>2 DEF Count
    <3>3. CASE s \notin DOMAIN e
      <4>1. ~(k - d > 0)
        BY <1>2, <2>7, <3>1, <3>3
      <4> QED BY <2>1, <2>3, <2>4, <3>3, <4>1 DEF Count
    <3> QED BY <3>2, <3>3
  <2>8. CASE s \notin DOMAIN c
    <3>1. k = 0 /\ s \notin DOMAIN e
      BY <1>2, <2>6, <2>8 DEF Count
    <3> QED BY <2>1, <2>3, <2>4, <3>1 DEF Count
  <2> QED BY <2>7, <2>8
<1> QED BY <1>1, <1>3, <1>4 DEF Counts, e

LEMMA SweepKeeps ==
  ASSUME Counts(DOMAIN seen, perPeer)
  PROVE  Counts(DOMAIN AfterSweep[1], AfterSweep[2])
<1>1. CASE sweep > 0
  BY <1>1 DEF AfterSweep
<1>2. CASE ~(sweep > 0)
  <2> DEFINE D == DOMAIN seen \ Live(seen)
  <2>1. AfterSweep[2] = Evicted(perPeer, D) /\ DOMAIN AfterSweep[1] = Live(seen)
    BY <1>2 DEF AfterSweep, Restrict
  <2>2. Live(seen) = DOMAIN seen \ D /\ D \in SUBSET DOMAIN seen
    BY DEF Live
  <2> HIDE DEF D
  <2> QED BY <2>1, <2>2, EvictKeeps
<1> QED BY <1>1, <1>2

LEMMA OwnKeeps ==
  ASSUME NEW t, NEW c, Counts(DOMAIN t, c), NEW k
  PROVE  Counts(DOMAIN AfterOwn(t, c, k)[1], AfterOwn(t, c, k)[2])
<1>1. CASE k \in DOMAIN t /\ t[k] = 0
  <2>1. /\ AfterOwn(t, c, k)[2] = Evicted(c, {k})
        /\ DOMAIN AfterOwn(t, c, k)[1] = DOMAIN t \ {k}
    BY <1>1 DEF AfterOwn, Restrict
  <2> QED BY <1>1, <2>1, EvictKeeps
<1>2. CASE ~(k \in DOMAIN t /\ t[k] = 0)
  BY <1>2 DEF AfterOwn
<1> QED BY <1>1, <1>2

LEMMA AddKeeps ==
  ASSUME NEW K, NEW c, Counts(K, c), NEW k \in ReplayKeys, NEW m, NEW L,
         \/ L = K /\ m = Count(c, k[1])
         \/ k \notin K /\ L = K \cup {k} /\ m = Count(c, k[1]) + 1
  PROVE  Counts(L, [s \in DOMAIN c \cup {k[1]} |-> IF s = k[1] THEN m ELSE c[s]])
<1> DEFINE n == [s \in DOMAIN c \cup {k[1]} |-> IF s = k[1] THEN m ELSE c[s]]
<1>1. k[1] \in Signers /\ IsFiniteSet(K) /\ IsFiniteSet(L)
  BY FS_AddElement DEF ReplayKeys, Counts
<1>2. DOMAIN n = DOMAIN c \cup {k[1]}
      /\ \A s \in DOMAIN n : n[s] = IF s = k[1] THEN m ELSE c[s]
  OBVIOUS
<1> HIDE DEF n
<1>3. \A s \in Signers : Count(n, s) = IF s = k[1] THEN m ELSE Count(c, s)
  BY <1>2 DEF Count
<1>4. ASSUME NEW s \in Signers PROVE Count(n, s) = Cardinality(Of(L, s))
  <2>1. CASE s # k[1]
    <3>1. Of(L, s) = Of(K, s)
      BY <2>1 DEF Of
    <3> QED BY <1>3, <2>1, <3>1 DEF Counts
  <2>2. CASE s = k[1] /\ L = K /\ m = Count(c, k[1])
    BY <1>3, <2>2 DEF Counts
  <2>3. CASE s = k[1] /\ k \notin K /\ L = K \cup {k} /\ m = Count(c, k[1]) + 1
    <3>1. Of(L, s) = Of(K, s) \cup {k} /\ k \notin Of(K, s)
      BY <2>3 DEF Of
    <3>2. Cardinality(Of(L, s)) = Cardinality(Of(K, s)) + 1
      BY <1>1, <3>1, OfFinite, FS_AddElement, Zenon
    <3> QED BY <1>3, <2>3, <3>2 DEF Counts
  <2> QED BY <2>1, <2>2, <2>3
<1>5. DOMAIN n \subseteq Signers
  BY <1>1, <1>2 DEF Counts
<1> QED BY <1>1, <1>4, <1>5 DEF Counts, n

LEMMA AdmitKeeps ==
  ASSUME Counts(DOMAIN seen, perPeer), NEW k \in ReplayKeys, ReplayAdmit(k)
  PROVE  Counts(DOMAIN seen, perPeer)'
<1> DEFINE at == AfterOwn(AfterSweep[1], AfterSweep[2], k)
           t == at[1]
           c == at[2]
           n == Count(c, k[1])
           count(m) == [s \in DOMAIN c \cup {k[1]} |-> IF s = k[1] THEN m ELSE c[s]]
<1>1. Counts(DOMAIN t, c)
  BY SweepKeeps, OwnKeeps
<1>2. \/ seen' = t /\ perPeer' = c
      \/ seen' = t /\ perPeer' = count(n)
      \/ /\ k \notin DOMAIN t /\ DOMAIN seen' = DOMAIN t \cup {k}
         /\ perPeer' = count(n + 1)
  BY DEF ReplayAdmit, Count
<1> HIDE DEF t, c
<1>3. CASE seen' = t /\ perPeer' = c
  BY <1>1, <1>3
<1>4. CASE seen' = t /\ perPeer' = count(n)
  BY <1>1, <1>4, AddKeeps
<1>5. CASE k \notin DOMAIN t /\ DOMAIN seen' = DOMAIN t \cup {k} /\ perPeer' = count(n + 1)
  BY <1>1, <1>5, AddKeeps
<1> QED BY <1>2, <1>3, <1>4, <1>5

(* The count of a signer is the number of its entries (admit, expire,      *)
(* evict_entry).                                                           *)
THEOREM CountsAreExact == ReplaySpec => []PeerCountsExact
<1> DEFINE CountInv == Counts(DOMAIN seen, perPeer)
<1>1. ReplayInit => CountInv
  <2> SUFFICES ASSUME ReplayInit PROVE CountInv
    OBVIOUS
  <2>1. DOMAIN seen = {} /\ DOMAIN perPeer = {}
    BY DEF ReplayInit
  <2>2. \A s : Of({}, s) = {}
    BY DEF Of
  <2> QED BY <2>1, <2>2, FS_EmptySet DEF Counts, Count
<1>2. CountInv /\ [ReplayNext]_replayVars => CountInv'
  <2>1. ASSUME CountInv, ReplayTick PROVE CountInv'
    <3>1. DOMAIN seen' = DOMAIN seen /\ perPeer' = perPeer
      BY <2>1 DEF ReplayTick
    <3> QED BY <2>1, <3>1
  <2>2. ASSUME CountInv, UNCHANGED replayVars PROVE CountInv'
    BY <2>2 DEF replayVars
  <2> QED BY <2>1, <2>2, AdmitKeeps DEF ReplayNext
<1>3. CountInv => PeerCountsExact
  BY DEF Counts, Count, Of, PeerCountsExact
<1> HIDE DEF CountInv
<1> QED BY <1>1, <1>2, <1>3, PTL DEF ReplaySpec
================================================================================
