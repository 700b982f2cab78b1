----------------------------- MODULE LanDirectory -----------------------------
(***************************************************************************)
(* The endpoint directory of a node (src/client/lan_directory.cpp): LAN    *)
(* presences, which the network may delay, repeat and reorder, and relay   *)
(* hints, with the replay state that outlives the entries and the capacity *)
(* rules between trusted and unknown devices.  One unit of time is the     *)
(* one-second rate window; rem, retain and idle are times left or gone by. *)
(*                                                                         *)
(* A presence carries its sender's boot nonce and a sequence number (a     *)
(* repeated sequence is refused or ignored alike, whatever it signs).  All *)
(* come from one source address on one interface, so that the limits per   *)
(* source, per interface and in total coincide.                            *)
(***************************************************************************)
EXTENDS Naturals, FiniteSets, FiniteSetsExt

CONSTANTS
  LanKeys,                \* endpoints
  Known,                  \* the endpoints of trusted devices
  Boots, Seqs,            \* what presences carry
  RelayIds,               \* identities relay hints carry ("own" is right)
  Lease,
  Directory, Reserve,     \* directory_capacity, trusted_directory_reserve
  PerSource, Unknown,     \* the capacities of a source, of unknown devices
  ReplaySlots,            \* replay_capacity
  BootHistory,            \* the retired boots a replay state remembers
  Rate,                   \* announcements admitted per second
  NoHint                  \* an absent hint

(* validate_lan_configuration. *)
ASSUME LanAssumption ==
  /\ Lease > 0 /\ Reserve > 0 /\ Reserve < Directory
  /\ ReplaySlots > 0 /\ PerSource > 0 /\ Unknown > 0 /\ Rate > 0
  /\ Lease \in Nat /\ Seqs \subseteq Nat

VARIABLES
  dir,       \* entries: trusted, lan hint, relay hint, age of the last update
  replay,    \* replay states
  admitted,  \* global_rate_count in the current second
  used       \* the presences accepted since a replay state was created

lanVars == <<dir, replay, admitted, used>>

LanInit ==
  /\ dir = [k \in {} |-> {}]
  /\ replay = [k \in {} |-> {}]
  /\ admitted = 0
  /\ used = [k \in LanKeys |-> {}]

Entered(t, k, e) == [j \in DOMAIN t \cup {k} |-> IF j = k THEN e ELSE t[j]]

NoEntry == [trusted |-> FALSE, lan |-> NoHint, relay |-> NoHint, age |-> 0]
Entry(k) == IF k \in DOMAIN dir THEN dir[k] ELSE NoEntry

(* evict_untrusted_lan_only: the one updated longest ago. *)
Evictable == {k \in DOMAIN dir : ~dir[k].trusted /\ dir[k].relay = NoHint}
Oldest == {k \in Evictable : \A j \in Evictable : dir[j].age <= dir[k].age}

(* The directory as a new entry of k finds it, one choice per victim; none *)
(* when there is no room.                                                  *)
Rooms(trusted) ==
  IF Cardinality(DOMAIN dir) < Directory THEN {dir}
  ELSE IF trusted THEN {Restrict(dir, DOMAIN dir \ {v}) : v \in Oldest} ELSE {}

(* What the untrusted may take: their share, and so many devices. *)
Share(trusted) ==
  trusted \/ /\ Cardinality(DOMAIN dir) < Directory - Reserve
             /\ Cardinality({k \in DOMAIN dir : ~dir[k].trusted}) < Unknown

(***************************************************************************)
(* Replay.                                                                 *)
(***************************************************************************)

(* A new endpoint takes a slot, or that of the state whose retention ended *)
(* first, if it has ended.                                                 *)
Slots(k) ==
  IF k \in DOMAIN replay \/ Cardinality(DOMAIN replay) < ReplaySlots
  THEN {replay}
  ELSE {Restrict(replay, DOMAIN replay \ {v}) :
          v \in {j \in DOMAIN replay : replay[j].retain = 0}}

State(t, k, p) ==
  IF k \in DOMAIN t THEN t[k]
  ELSE [boot |-> p.boot, seq |-> 0, retired |-> {},
        retain |-> 2 * Lease]

(* A presence of the current boot must be newer; one of another boot       *)
(* retires the current boot, which must not be in the history already.     *)
MutantFreshOf(r, p) ==
  \/ r.boot = p.boot /\ p.seq > r.seq
  \/ r.boot # p.boot /\ Cardinality(r.retired) < BootHistory
FreshOf(r, p) ==
  \/ r.boot = p.boot /\ p.seq > r.seq
  \/ /\ r.boot # p.boot /\ p.boot \notin r.retired
     /\ Cardinality(r.retired) < BootHistory

Turned(r, p) ==
  IF r.boot = p.boot THEN r
  ELSE [r EXCEPT !.boot = p.boot, !.seq = 0,
                 !.retired = @ \cup {r.boot}]

Forget(t) == [k \in LanKeys |-> IF k \in DOMAIN t THEN used[k] ELSE {}]

(***************************************************************************)
(* Operations.                                                             *)
(***************************************************************************)

(* observe_lan: the rate is charged first; a refusal by a capacity leaves  *)
(* the replay state, with the new boot if there is one, but no newer       *)
(* sequence.                                                               *)
ObserveLan(k, p) ==
  LET trusted == k \in Known
      new     == k \notin DOMAIN dir
      sourceFull == /\ Entry(k).lan = NoHint
                    /\ Cardinality({j \in DOMAIN dir : dir[j].lan # NoHint})
                         >= PerSource
      conflict == Entry(k).relay # NoHint /\ Entry(k).relay.id # "own"
  IN  /\ admitted < Rate
      /\ admitted' = admitted + 1
      /\ \/ /\ Slots(k) = {}
            /\ UNCHANGED <<dir, replay, used>>
         \/ \E t \in Slots(k) :
              LET r    == State(t, k, p)
                  turn == Turned(r, p)
                  took == [turn EXCEPT !.seq = p.seq, !.retain = 2 * Lease]
                  rooms == IF ~new THEN {dir}
                           ELSE IF Share(trusted) THEN Rooms(trusted) ELSE {}
                  may  == FreshOf(r, p) /\ ~conflict /\ ~sourceFull
              IN  \/ /\ ~FreshOf(r, p)
                     /\ replay' = Entered(t, k, r) /\ UNCHANGED dir
                     /\ used' = Forget(t)
                  \/ /\ FreshOf(r, p) /\ (~may \/ rooms = {})
                     /\ replay' = Entered(t, k, turn) /\ UNCHANGED dir
                     /\ used' = Forget(t)
                  \/ \E d \in rooms :
                       /\ may
                       /\ replay' = Entered(t, k, took)
                       /\ used' = [Forget(t) EXCEPT ![k] =
                                     @ \cup {<<p.boot, p.seq>>}]
                       /\ dir' = Entered(d, k,
                            [trusted |-> Entry(k).trusted \/ trusted,
                             relay |-> Entry(k).relay, age |-> 0,
                             lan |-> [boot |-> p.boot, seq |-> p.seq,
                                      rem |-> Lease]])

(* upsert_relay, which no share limits; an identity that differs from a    *)
(* hint already held is refused.                                           *)
UpsertRelay(k, id) ==
  LET trusted  == k \in Known
      conflict == \/ Entry(k).lan # NoHint /\ id # "own"
                  \/ Entry(k).relay # NoHint /\ Entry(k).relay.id # id
      e == [Entry(k) EXCEPT !.trusted = @ \/ trusted, !.age = 0,
                            !.relay = [id |-> id, rem |-> Lease]]
  IN  /\ \E d \in IF k \in DOMAIN dir THEN {dir} ELSE Rooms(trusted) :
           dir' = IF conflict THEN dir ELSE Entered(d, k, e)
      /\ UNCHANGED <<replay, admitted, used>>

SetTrusted(k, trusted) ==
  /\ k \in DOMAIN dir
  /\ dir' = [dir EXCEPT ![k].trusted = trusted]
  /\ UNCHANGED <<replay, admitted, used>>

Unexpired(hint) == IF hint # NoHint /\ hint.rem = 0 THEN NoHint ELSE hint

(* expire, every half second. *)
LanExpire ==
  LET d == [k \in DOMAIN dir |-> [dir[k] EXCEPT !.lan = Unexpired(@),
                                                !.relay = Unexpired(@)]]
      t == Restrict(replay, {k \in DOMAIN replay : replay[k].retain > 0})
  IN  /\ dir' = Restrict(d, {k \in DOMAIN d : \/ d[k].lan # NoHint
                                              \/ d[k].relay # NoHint})
      /\ replay' = t
      /\ used' = Forget(t)
      /\ UNCHANGED admitted

Older(n) == IF n > 0 THEN n - 1 ELSE 0
AgedHint(h) == IF h = NoHint THEN h ELSE [h EXCEPT !.rem = Older(@)]

LanTick ==
  /\ dir' = [k \in DOMAIN dir |->
               [dir[k] EXCEPT !.lan = AgedHint(@), !.relay = AgedHint(@),
                              !.age = Min({@ + 1, 2 * Lease})]]
  /\ replay' = [k \in DOMAIN replay |-> [replay[k] EXCEPT !.retain = Older(@)]]
  /\ admitted' = 0
  /\ UNCHANGED used

Presences == [boot : Boots, seq : Seqs]

LanNext ==
  \/ \E k \in LanKeys :
       \/ \E p \in Presences : ObserveLan(k, p)
       \/ \E id \in RelayIds : UpsertRelay(k, id)
       \/ \E b \in BOOLEAN : SetTrusted(k, b)
  \/ LanExpire \/ LanTick

LanSpec == LanInit /\ [][LanNext]_lanVars

(* A presence the network repeats or delays is not believed twice: while   *)
(* the replay state of an endpoint lasts, no boot and sequence that was    *)
(* accepted is accepted again, through restarts of the sender, refusals by *)
(* a capacity, evictions and the re-creation of the entry.                 *)
AcceptedOnce ==
  [][\A k \in LanKeys :
       LET hint(d) == IF k \in DOMAIN d THEN d[k].lan ELSE NoHint
       IN  /\ hint(dir') # NoHint
           /\ \/ hint(dir) = NoHint
              \/ hint(dir').rem > hint(dir).rem
              \/ hint(dir').boot # hint(dir).boot
              \/ hint(dir').seq # hint(dir).seq
           => <<hint(dir').boot, hint(dir').seq>> \notin used[k]]_lanVars
===============================================================================
