------------------------------ MODULE RelayProofs ------------------------------
(***************************************************************************)
(* The relay's promises for any number of connections, devices, tenants    *)
(* and uses of a token, and any capacities: a bootstrap token is never     *)
(* overspent and a revocation holds; a leased, listed or online key has a  *)
(* session that is logged in now (NoOrphans), and what a revoked device    *)
(* left there only runs out (RevokedOnlyAges).                             *)
(*                                                                         *)
(* An enrollment is three transactions.  Between the second and the third  *)
(* a use of the token is spent and its device not yet active: Reserved     *)
(* counts it, and makes the token's account inductive.  The record an      *)
(* enrollment read first is still the one stored, or the stored one has a  *)
(* greater generation: every commit raises the generation, so a stale      *)
(* enrollment is refused.                                                  *)
(***************************************************************************)
EXTENDS RelayServer, TLAPS

Request(b) ==
  /\ b = [conn |-> b.conn, tenant |-> b.tenant, found |-> b.found, step |-> b.step]
  /\ b.conn \in Conns /\ b.tenant \in Tenants /\ b.found \in DeviceRecord

Types ==
  /\ load \in Loads
  /\ tokens \in [Tenants -> Nat] /\ enrolled \in [Tenants -> Nat]
  /\ devices \in [Devices -> DeviceRecord]
  /\ busy # None => Request(busy)

Reserved(t) ==
  IF load.mode = "token" /\ busy # None /\ busy.step = "enroll" /\ busy.tenant = t
  THEN 1 ELSE 0

Accounted == \A t \in Tenants : enrolled[t] + tokens[t] + Reserved(t) <= Uses

(* What the database holds now for a device whose record was read before. *)
Newer(now, read) == now = read \/ now.gen > read.gen
Current == busy # None => Newer(device(Mine(busy.conn)), busy.found)

IInv == Types /\ Accounted /\ Current

Still == UNCHANGED <<load, devices, tokens, busy, enrolled>>

LEMMA OwnDevice ==
  ASSUME load \in Loads, NEW c \in Conns
  PROVE  Device(Mine(c)) \in Devices
<1>1. load.owner[c] \in Devices \X STRING
  BY ServerAssumption
<1> QED BY <1>1 DEF Device, Mine

LEMMA StillKeeps == ASSUME IInv, Still PROVE IInv'
BY DEF IInv, Still, Types, Accounted, Reserved, Current, device, Mine, Request

LEMMA RequestKeeps ==
  ASSUME IInv, NEW c \in Conns, NEW t \in Tenants, NEW valid,
         EnrollRequest(c, t, valid)
  PROVE  IInv'
<1>1. CASE UNCHANGED busy
  BY <1>1, StillKeeps DEF EnrollRequest, Still
<1> DEFINE found == device(Mine(c))
           step == IF load.mode = "token" THEN "consume" ELSE "enroll"
<1>2. CASE busy' = [conn |-> c, tenant |-> t, found |-> found, step |-> step]
  <2>1. UNCHANGED <<load, devices, tokens, enrolled>>
    BY DEF EnrollRequest
  <2>2. found \in DeviceRecord
    BY OwnDevice DEF IInv, Types, device
  <2> HIDE DEF found
  <2>3. Request(busy')
    BY <1>2, <2>2 DEF Request
  <2>4. Types'
    BY <2>1, <2>3 DEF IInv, Types, Request
  <2>5. busy'.conn = c /\ busy'.found = found /\ busy'.step = step
    BY <1>2
  <2>6. Current'
    BY <2>1, <2>5 DEF Current, Newer, found, device, Mine
  <2>7. \A u \in Tenants : Reserved(u)' = 0
    BY <2>1, <2>5 DEF Reserved
  <2>8. ASSUME NEW u \in Tenants PROVE enrolled'[u] + tokens'[u] + Reserved(u)' <= Uses
    <3>1. enrolled[u] \in Nat /\ tokens[u] \in Nat /\ Uses \in Nat
      BY ServerAssumption DEF IInv, Types
    <3>2. Reserved(u) \in {0, 1}
      BY DEF Reserved
    <3>3. enrolled[u] + tokens[u] + Reserved(u) <= Uses
      BY DEF IInv, Accounted
    <3> QED BY <2>1, <2>7, <3>1, <3>2, <3>3
  <2>9. Accounted'
    BY <2>8 DEF Accounted
  <2> QED BY <2>4, <2>6, <2>9 DEF IInv
<1> QED BY <1>1, <1>2 DEF EnrollRequest

LEMMA ConsumeKeeps == ASSUME IInv, NEW ok, ConsumeToken(ok) PROVE IInv'
<1>0. /\ busy # None /\ busy.step = "consume" /\ Request(busy)
      /\ UNCHANGED <<load, devices, enrolled>>
  BY DEF ConsumeToken, IInv, Types
<1> DEFINE n == busy.tenant
<1>1. n \in Tenants /\ tokens[n] \in Nat /\ Uses \in Nat /\ \A t \in Tenants : Reserved(t) = 0
  BY <1>0, ServerAssumption DEF Request, IInv, Types, Reserved
<1>2. \A t \in Tenants : enrolled[t] \in Nat /\ tokens[t] \in Nat /\ enrolled[t] + tokens[t] <= Uses
  BY <1>1 DEF IInv, Types, Accounted
<1>3. CASE tokens[n] > 0 /\ tokens' = [tokens EXCEPT ![n] = @ - 1]
           /\ busy' = [busy EXCEPT !.step = "enroll"]
  <2>1. busy' = [conn |-> busy.conn, tenant |-> n, found |-> busy.found, step |-> "enroll"]
    BY <1>0, <1>3 DEF Request
  <2>2. busy'.conn = busy.conn /\ busy'.tenant = n /\ busy'.found = busy.found
    BY <2>1
  <2>3. Request(busy')
    BY <1>0, <2>1, <2>2 DEF Request
  <2>4. tokens' \in [Tenants -> Nat]
    BY <1>1, <1>3 DEF IInv, Types
  <2>5. Types'
    BY <1>0, <2>3, <2>4 DEF IInv, Types, Request
  <2>6. Current'
    BY <1>0, <2>2 DEF IInv, Current, Newer, device, Mine
  <2>7. ASSUME NEW t \in Tenants PROVE enrolled'[t] + tokens'[t] + Reserved(t)' <= Uses
    <3>1. Reserved(t)' \in {0, 1} /\ (t # n => Reserved(t)' = 0)
      BY <2>2 DEF Reserved
    <3>2. tokens'[t] = IF t = n THEN tokens[t] - 1 ELSE tokens[t]
      BY <1>3 DEF IInv, Types
    <3> HIDE DEF n
    <3> QED BY <1>0, <1>1, <1>2, <1>3, <3>1, <3>2
  <2>8. Accounted'
    BY <2>7 DEF Accounted
  <2> QED BY <2>5, <2>6, <2>8 DEF IInv
<1>4. CASE busy' = None /\ UNCHANGED tokens
  <2>1. Types' /\ Current'
    BY <1>0, <1>4 DEF IInv, Types, Current
  <2>2. \A t \in Tenants : Reserved(t)' = 0
    BY <1>4 DEF Reserved
  <2>3. Accounted'
    BY <1>0, <1>2, <1>4, <2>2 DEF Accounted
  <2> QED BY <2>1, <2>3 DEF IInv
<1> QED BY <1>3, <1>4 DEF ConsumeToken

LEMMA EnrollKeeps == ASSUME IInv, NEW ok, EnrollDevice(ok) PROVE IInv'
<1>0. /\ busy # None /\ busy.step = "enroll" /\ Request(busy) /\ busy' = None
      /\ UNCHANGED <<load, tokens>>
  BY DEF EnrollDevice, IInv, Types
<1> DEFINE n == busy.tenant
           d == Device(Mine(busy.conn))
           gen == NextGeneration(busy.found)
<1>1. n \in Tenants /\ Uses \in Nat /\ d \in Devices
  BY <1>0, OwnDevice, ServerAssumption DEF Request, IInv, Types
<1>2. \A t \in Tenants : /\ enrolled[t] \in Nat /\ tokens[t] \in Nat
                         /\ enrolled[t] + tokens[t] + Reserved(t) <= Uses
  BY DEF IInv, Types, Accounted
<1>3. \A t \in Tenants : Reserved(t)' = 0 /\ Reserved(t) \in {0, 1}
  BY <1>0 DEF Reserved
<1>4. CASE UNCHANGED <<devices, enrolled>>
  <2>1. Types' /\ Current'
    BY <1>0, <1>4 DEF IInv, Types, Current
  <2>2. \A t \in Tenants : enrolled'[t] + tokens'[t] + Reserved(t)' <= Uses
    BY <1>0, <1>1, <1>2, <1>3, <1>4
  <2> QED BY <2>1, <2>2 DEF IInv, Accounted
<1>5. CASE /\ devices' = [devices EXCEPT ![d] = [status |-> "active", gen |-> gen, tenant |-> n]]
           /\ enrolled' = [enrolled EXCEPT ![n] = IF load.mode = "token" THEN @ + 1 ELSE @]
  <2>1. gen \in Nat
    BY <1>0 DEF Request, DeviceRecord, NextGeneration
  <2> DEFINE rec == [status |-> "active", gen |-> gen, tenant |-> n]
  <2>2. rec \in DeviceRecord
    BY <1>1, <2>1 DEF DeviceRecord
  <2> HIDE DEF rec, d
  <2>3. devices' \in [Devices -> DeviceRecord]
    BY <1>1, <1>5, <2>2 DEF IInv, Types, rec
  <2> HIDE DEF n, gen
  <2>4. enrolled' \in [Tenants -> Nat]
    BY <1>1, <1>5 DEF IInv, Types
  <2>5. Types' /\ Current'
    BY <1>0, <2>3, <2>4 DEF IInv, Types, Current
  <2>6. ASSUME NEW t \in Tenants PROVE enrolled'[t] + tokens'[t] + Reserved(t)' <= Uses
    <3>1. CASE t = n /\ load.mode = "token"
      <4>1. enrolled'[t] = enrolled[t] + 1
        BY <1>5, <3>1 DEF IInv, Types
      <4>2. Reserved(t) = 1
        BY <1>0, <3>1 DEF Reserved, n
      <4> QED BY <1>0, <1>1, <1>2, <1>3, <4>1, <4>2
    <3>2. CASE ~(t = n /\ load.mode = "token")
      <4>1. enrolled'[t] = enrolled[t]
        BY <1>5, <3>2 DEF IInv, Types
      <4> QED BY <1>0, <1>1, <1>2, <1>3, <4>1
    <3> QED BY <3>1, <3>2
  <2> QED BY <2>5, <2>6 DEF IInv, Accounted
<1> QED BY <1>4, <1>5 DEF EnrollDevice

LEMMA RevokeKeeps ==
  ASSUME IInv, NEW x \in Devices, NEW g \in Gens, RevokeDevice(x, g) PROVE IInv'
<1>0. /\ UNCHANGED <<load, tokens, busy, enrolled>> /\ g \in Nat
      /\ devices' = [devices EXCEPT ![x].status = "revoked", ![x].gen = g]
      /\ g > devices[x].gen /\ devices[x] \in DeviceRecord
  BY DEF RevokeDevice, Gens, IInv, Types
<1> DEFINE rec == [status |-> "revoked", gen |-> g, tenant |-> devices[x].tenant]
<1>1. devices' = [devices EXCEPT ![x] = rec]
  BY <1>0 DEF IInv, Types, DeviceRecord
<1>2. rec \in DeviceRecord
  BY <1>0 DEF DeviceRecord
<1>3. devices' \in [Devices -> DeviceRecord]
  BY <1>1, <1>2 DEF IInv, Types
<1>4. Types'
  BY <1>0, <1>3 DEF IInv, Types, Request
<1>5. Accounted'
  BY <1>0 DEF IInv, Accounted, Reserved
<1>6. ASSUME busy # None PROVE Newer(device(Mine(busy.conn))', busy.found)
  <2> DEFINE d == Device(Mine(busy.conn))
  <2>1. d \in Devices /\ busy.found \in DeviceRecord
    BY <1>6, OwnDevice DEF IInv, Types, Request
  <2>2. Newer(devices[d], busy.found) /\ devices[d].gen \in Nat /\ busy.found.gen \in Nat
    BY <1>6, <2>1 DEF IInv, Current, device, Types, DeviceRecord
  <2>3. device(Mine(busy.conn))' = devices'[d]
    BY <1>0 DEF device, Mine
  <2> HIDE DEF d
  <2>4. CASE d = x
    <3>1. devices'[d].gen = g
      BY <1>1, <2>1, <2>4 DEF IInv, Types
    <3>2. devices'[d].gen > busy.found.gen
      BY <1>0, <2>2, <2>4, <3>1 DEF Newer
    <3> QED BY <2>3, <3>2 DEF Newer
  <2>5. CASE d # x
    BY <1>1, <2>1, <2>2, <2>3, <2>5 DEF IInv, Types, Newer
  <2> QED BY <2>4, <2>5
<1>7. Current'
  BY <1>0, <1>6 DEF Current
<1> QED BY <1>4, <1>5, <1>7 DEF IInv

LEMMA CrashKeeps == ASSUME IInv, Crash PROVE IInv'
<1>0. busy' = None /\ UNCHANGED <<load, devices, tokens, enrolled>>
  BY DEF Crash
<1>1. Types' /\ Current'
  BY <1>0 DEF IInv, Types, Current
<1>2. \A t \in Tenants : Reserved(t)' = 0 /\ Reserved(t) \in {0, 1}
  BY <1>0 DEF Reserved
<1>3. ASSUME NEW t \in Tenants PROVE enrolled'[t] + tokens'[t] + Reserved(t)' <= Uses
  <2>1. enrolled[t] \in Nat /\ tokens[t] \in Nat /\ Uses \in Nat
    BY ServerAssumption DEF IInv, Types
  <2>2. enrolled[t] + tokens[t] + Reserved(t) <= Uses
    BY DEF IInv, Accounted
  <2> QED BY <1>0, <1>2, <2>1, <2>2
<1> QED BY <1>1, <1>3 DEF IInv, Accounted

(* Every other handler leaves the database and the enrollment alone. *)
LEMMA StepKeeps == ASSUME IInv, [Next]_vars PROVE IInv'
<1>1. CASE UNCHANGED vars
  BY <1>1, StillKeeps, SMTT(30) DEF vars, Still
<1>2. ASSUME NEW c \in Conns,
             \/ Accept(c) \/ Upgrade(c) \/ Finish(c) \/ Refuse(c)
             \/ \E late \in BOOLEAN : Written(c, late)
             \/ Revoked(c) \/ Heartbeat(c) \/ EndpointQuery(c)
      PROVE  IInv'
  BY <1>2, StillKeeps, ZenonT(30) DEF Still, Accept, Upgrade, Finish, Refuse, Written,
     Revoked, Heartbeat, EndpointQuery
<1>3. ASSUME NEW c \in Conns,
             \/ \E kind \in {"enrollment", "login"} : Challenge(c, kind)
             \/ \E t \in Tenants, g \in Gens, valid \in BOOLEAN :
                  LoginRequest(c, g, t, valid)
             \/ \E r \in load.records : EndpointPublish(c, r[1], r[2])
             \/ \E k \in Keys, within \in BOOLEAN : SignalingSend(c, k, within)
      PROVE  IInv'
  BY <1>3, StillKeeps, Zenon DEF Still, Challenge, LoginRequest, EndpointPublish,
     SignalingSend
<1>4. CASE Tick \/ Sweep \/ Shutdown
  BY <1>4, StillKeeps DEF Still, Tick, Sweep, Shutdown
<1>5. ASSUME NEW c \in Conns, NEW t \in Tenants, NEW valid \in BOOLEAN,
             EnrollRequest(c, t, valid)
      PROVE  IInv'
  BY <1>5, RequestKeeps
<1>6. ASSUME NEW ok \in BOOLEAN, ConsumeToken(ok) \/ EnrollDevice(ok) PROVE IInv'
  BY <1>6, ConsumeKeeps, EnrollKeeps
<1>7. ASSUME NEW d \in Devices, NEW g \in Gens, RevokeDevice(d, g) PROVE IInv'
  BY <1>7, RevokeKeeps
<1>8. CASE Crash
  BY <1>8, CrashKeeps
<1> QED BY <1>1, <1>2, <1>3, <1>4, <1>5, <1>6, <1>7, <1>8 DEF Next

LEMMA InitHolds == ASSUME Init PROVE IInv
<1>1. load \in Loads /\ busy = None /\ Uses \in Nat /\ devices = load.devices
  BY ServerAssumption DEF Init
<1>2. tokens = [t \in Tenants |-> Uses] /\ enrolled = [t \in Tenants |-> 0]
  BY DEF Init
<1>3. devices \in [Devices -> DeviceRecord]
  BY <1>1, ServerAssumption
<1>4. Types /\ Current
  BY <1>1, <1>2, <1>3 DEF Types, Current
<1>5. \A t \in Tenants : Reserved(t) = 0 /\ tokens[t] = Uses /\ enrolled[t] = 0
  BY <1>1, <1>2 DEF Reserved
<1> QED BY <1>1, <1>4, <1>5 DEF IInv, Accounted

(* The inductive invariant: the token's account, with the use an           *)
(* enrollment under way has taken (consume_bootstrap_token), and the       *)
(* record it read against the one stored (RelayDatabase::device).          *)
THEOREM DatabaseInvariant == Spec => []IInv
<1>1. Init => IInv
  BY InitHolds
<1>2. IInv /\ [Next]_vars => IInv'
  BY StepKeeps
<1> QED BY <1>1, <1>2, PTL DEF Spec

(* A token never activates more devices than it has uses, for any number   *)
(* of tenants, devices and connections: consume_bootstrap_token commits    *)
(* before enroll_device.                                                   *)
THEOREM TokenNeverOverspent == Spec => []TokenUsesHonoured
<1>1. IInv => TokenUsesHonoured
  <2> SUFFICES ASSUME IInv, NEW t \in Tenants
               PROVE  enrolled[t] + tokens[t] <= Uses
    BY DEF TokenUsesHonoured
  <2>1. enrolled[t] \in Nat /\ tokens[t] \in Nat /\ Uses \in Nat
    BY ServerAssumption DEF IInv, Types
  <2>2. enrolled[t] + tokens[t] + Reserved(t) <= Uses /\ Reserved(t) \in {0, 1}
    BY DEF IInv, Accounted, Reserved
  <2> QED BY <2>1, <2>2
<1> QED BY <1>1, DatabaseInvariant, PTL

(* The condition RevocationSticks puts on a step. *)
Seen(d) ==
  devices[d].status = "revoked" /\ devices'[d].status = "active"
  => busy # None /\ busy.found = devices[d]

LEMMA EnrollSees ==
  ASSUME IInv, NEW ok, EnrollDevice(ok), NEW x \in Devices PROVE Seen(x)
<1> DEFINE d == Device(Mine(busy.conn))
           gen == NextGeneration(busy.found)
<1>0. busy # None /\ Request(busy)
  BY DEF EnrollDevice, IInv, Types
<1>1. CASE UNCHANGED devices
  BY <1>1 DEF Seen
<1>2. CASE /\ Enrollable(devices[d], gen)
           /\ devices' = [devices EXCEPT ![d] =
                [status |-> "active", gen |-> gen, tenant |-> busy.tenant]]
  <2>1. d \in Devices
    BY <1>0, OwnDevice DEF Request, IInv, Types
  <2>2. CASE x = d
    <3>1. devices[d].gen \in Nat /\ busy.found.gen \in Nat
      BY <1>0, <2>1 DEF IInv, Types, Request, DeviceRecord
    <3>2. busy.found.gen + 1 > devices[d].gen
      BY <1>2 DEF Enrollable, NextGeneration
    <3>3. devices[d] = busy.found \/ devices[d].gen > busy.found.gen
      BY <1>0 DEF IInv, Current, Newer, device
    <3>4. devices[d] = busy.found
      BY <3>1, <3>2, <3>3
    <3> QED BY <1>0, <2>2, <3>4 DEF Seen
  <2>3. CASE x # d
    BY <1>2, <2>1, <2>3 DEF Seen, IInv, Types
  <2> QED BY <2>2, <2>3
<1> QED BY <1>1, <1>2 DEF EnrollDevice

LEMMA RevokeSees ==
  ASSUME IInv, NEW y \in Devices, NEW g \in Gens, RevokeDevice(y, g), NEW x \in Devices
  PROVE  Seen(x)
<1>1. devices' = [devices EXCEPT ![y].status = "revoked", ![y].gen = g]
      /\ devices[y] \in DeviceRecord /\ devices \in [Devices -> DeviceRecord]
  BY DEF RevokeDevice, IInv, Types
<1>2. CASE x = y
  <2>1. devices'[x].status = "revoked"
    BY <1>1, <1>2 DEF DeviceRecord
  <2> QED BY <2>1 DEF Seen
<1>3. CASE x # y
  BY <1>1, <1>3 DEF Seen
<1> QED BY <1>2, <1>3

LEMMA StepSees == ASSUME IInv, Next, NEW x \in Devices PROVE Seen(x)
<1>1. CASE UNCHANGED devices
  BY <1>1 DEF Seen
<1>2. \/ UNCHANGED devices
      \/ \E ok \in BOOLEAN : EnrollDevice(ok)
      \/ \E d \in Devices, g \in Gens : RevokeDevice(d, g)
  <2>1. ASSUME NEW c \in Conns,
               \/ Accept(c) \/ Upgrade(c) \/ Finish(c) \/ Refuse(c)
               \/ \E late \in BOOLEAN : Written(c, late)
               \/ Revoked(c) \/ Heartbeat(c) \/ EndpointQuery(c)
        PROVE  UNCHANGED devices
    BY <2>1, ZenonT(30) DEF Accept, Upgrade, Finish, Refuse, Written, Revoked, Heartbeat,
       EndpointQuery
  <2>2. ASSUME NEW c \in Conns,
               \/ \E kind \in {"enrollment", "login"} : Challenge(c, kind)
               \/ \E t \in Tenants, valid \in BOOLEAN : EnrollRequest(c, t, valid)
               \/ \E t \in Tenants, g \in Gens, valid \in BOOLEAN :
                    LoginRequest(c, g, t, valid)
               \/ \E r \in load.records : EndpointPublish(c, r[1], r[2])
               \/ \E k \in Keys, within \in BOOLEAN : SignalingSend(c, k, within)
        PROVE  UNCHANGED devices
    BY <2>2, Zenon DEF Challenge, EnrollRequest, LoginRequest, EndpointPublish,
       SignalingSend
  <2>3. CASE (\E ok \in BOOLEAN : ConsumeToken(ok)) \/ Tick \/ Sweep \/ Shutdown \/ Crash
    BY <2>3 DEF ConsumeToken, Tick, Sweep, Shutdown, Crash
  <2> QED BY <2>1, <2>2, <2>3, SMTT(30) DEF Next
<1> QED BY <1>1, <1>2, EnrollSees, RevokeSees

(* An enrollment that read the device's record before a revocation never   *)
(* makes the device active again: enroll_device refuses its generation.    *)
THEOREM RevocationNotUndone == Spec => RevocationSticks
<1>1. IInv /\ [Next]_vars => [\A d \in Devices : Seen(d)]_vars
  BY StepSees
<1>2. [\A d \in Devices : Seen(d)]_vars
      => [\A d \in Devices :
            devices[d].status = "revoked" /\ devices'[d].status = "active"
            => busy # None /\ busy.found = devices[d]]_vars
  BY DEF Seen
<1> QED BY <1>1, <1>2, DatabaseInvariant, PTL DEF Spec, RevocationSticks

(***************************************************************************)
(* Presence rests on one fact about the tables: an operation lengthens at  *)
(* most the time of the key it is called for.  The invariant is            *)
(* strengthened: the connection online for a key is itself logged in, so   *)
(* that an older session of the key may finish and take the lease away.    *)
(***************************************************************************)

TableOK(t) ==
  \A k \in DOMAIN t : "rem" \in DOMAIN t[k] /\ t[k].rem \in Nat

(* Table u is table t after an operation for key j. *)
Fades(u, t, j) ==
  /\ TableOK(u)
  /\ \A k : k # j => TimeLeft(u, k) <= TimeLeft(t, k)

(* Table u is table t after something that renews nothing. *)
Wanes(u, t) ==
  /\ TableOK(u)
  /\ \A k : TimeLeft(u, k) <= TimeLeft(t, k)

LEMMA TimeNat == ASSUME NEW t, TableOK(t), NEW k PROVE TimeLeft(t, k) \in Nat
BY DEF TableOK, TimeLeft, LiveKeys

LEMMA LiveTime ==
  ASSUME NEW t, TableOK(t), NEW k PROVE k \in LiveKeys(t) <=> TimeLeft(t, k) > 0
BY DEF TableOK, TimeLeft, LiveKeys

LEMMA SameWanes == ASSUME NEW t, TableOK(t) PROVE Wanes(t, t)
BY TimeNat DEF Wanes

LEMMA SubtableWanes ==
  ASSUME NEW t, TableOK(t), NEW S, NEW u, u = [k \in S |-> t[k]], S \subseteq DOMAIN t
  PROVE  Wanes(u, t)
<1>1. TableOK(u)
  BY DEF TableOK
<1>2. ASSUME NEW k PROVE TimeLeft(u, k) <= TimeLeft(t, k)
  BY DEF TableOK, TimeLeft, LiveKeys
<1> QED BY <1>1, <1>2 DEF Wanes

LEMMA WanesTwice ==
  ASSUME NEW t, NEW u, NEW v, TableOK(t), Wanes(u, t), Wanes(v, u) PROVE Wanes(v, t)
<1>1. ASSUME NEW k PROVE TimeLeft(v, k) <= TimeLeft(t, k)
  <2>1. TimeLeft(v, k) \in Nat /\ TimeLeft(u, k) \in Nat /\ TimeLeft(t, k) \in Nat
    BY TimeNat DEF Wanes
  <2> QED BY <2>1 DEF Wanes
<1> QED BY <1>1 DEF Wanes

LEMMA FadesAfter ==
  ASSUME NEW t, NEW u, NEW v, NEW j, TableOK(t), Wanes(u, t), Fades(v, u, j)
  PROVE  Fades(v, t, j)
<1>1. ASSUME NEW k, k # j PROVE TimeLeft(v, k) <= TimeLeft(t, k)
  <2>1. TimeLeft(v, k) \in Nat /\ TimeLeft(u, k) \in Nat /\ TimeLeft(t, k) \in Nat
    BY TimeNat DEF Wanes, Fades
  <2> QED BY <1>1, <2>1 DEF Wanes, Fades
<1> QED BY <1>1 DEF Fades

LEMMA FadesThen ==
  ASSUME NEW t, NEW u, NEW v, NEW j, TableOK(t), Fades(u, t, j), Wanes(v, u)
  PROVE  Fades(v, t, j)
<1>1. ASSUME NEW k, k # j PROVE TimeLeft(v, k) <= TimeLeft(t, k)
  <2>1. TimeLeft(v, k) \in Nat /\ TimeLeft(u, k) \in Nat /\ TimeLeft(t, k) \in Nat
    BY TimeNat DEF Wanes, Fades
  <2> QED BY <1>1, <2>1 DEF Wanes, Fades
<1> QED BY <1>1 DEF Fades, Wanes

LEMMA WanesFades == ASSUME NEW t, NEW u, NEW j, Wanes(u, t) PROVE Fades(u, t, j)
BY DEF Wanes, Fades

LEMMA WithoutWanes == ASSUME NEW t, TableOK(t), NEW k PROVE Wanes(Without(t, k), t)
BY SubtableWanes DEF Without

LEMMA ExpireWanes == ASSUME NEW t, TableOK(t) PROVE Wanes(Expire(t), t)
<1>1. LiveKeys(t) \subseteq DOMAIN t
  BY DEF LiveKeys
<1> QED BY <1>1, SubtableWanes DEF Expire

LEMMA AgeWanes == ASSUME NEW t, TableOK(t) PROVE Wanes(Age(t), t)
<1> DEFINE u == Age(t)
<1>1. DOMAIN u = DOMAIN t
  BY DEF Age
<1>2. ASSUME NEW k \in DOMAIN t
      PROVE  /\ "rem" \in DOMAIN u[k]
             /\ u[k].rem = IF t[k].rem > 0 THEN t[k].rem - 1 ELSE 0
  BY DEF Age, TableOK
<1> HIDE DEF u
<1>3. TableOK(u)
  BY <1>1, <1>2 DEF TableOK
<1>4. ASSUME NEW k PROVE TimeLeft(u, k) <= TimeLeft(t, k)
  BY <1>1, <1>2 DEF TableOK, TimeLeft, LiveKeys
<1> QED BY <1>3, <1>4 DEF Wanes, u

LEMMA WithFades ==
  ASSUME NEW t, TableOK(t), NEW k, NEW e, "rem" \in DOMAIN e, e.rem \in Nat
  PROVE  Fades(With(t, k, e), t, k)
<1> DEFINE u == With(t, k, e)
<1>1. DOMAIN u = DOMAIN t \cup {k} /\ \A j \in DOMAIN u : u[j] = IF j = k THEN e ELSE t[j]
  BY DEF With
<1> HIDE DEF u
<1>2. TableOK(u)
  BY <1>1 DEF TableOK
<1>3. ASSUME NEW j, j # k PROVE TimeLeft(u, j) <= TimeLeft(t, j)
  BY <1>1, <1>3 DEF TableOK, TimeLeft, LiveKeys
<1> QED BY <1>2, <1>3 DEF Fades, u

LEMMA PressedWanes ==
  ASSUME NEW t, TableOK(t), NEW cap, NEW k PROVE Wanes(Pressed(t, cap, k), t)
<1> DEFINE mine == IF k \in DOMAIN t /\ t[k].rem = 0 THEN Without(t, k) ELSE t
<1>1. Wanes(mine, t)
  BY WithoutWanes, SameWanes
<1> HIDE DEF mine
<1>2. Wanes(Expire(mine), t)
  BY <1>1, ExpireWanes, WanesTwice DEF Wanes
<1>3. Pressed(t, cap, k) = mine \/ Pressed(t, cap, k) = Expire(mine)
  BY DEF Pressed, mine
<1> QED BY <1>1, <1>2, <1>3

LEMMA UpsertFades ==
  ASSUME NEW t, TableOK(t), NEW cap, NEW k, NEW v, NEW ttl \in Nat
  PROVE  Fades(Upsert(t, cap, k, v, ttl), t, k)
<1> DEFINE p == Pressed(t, cap, k)
           e == [val |-> v, rem |-> ttl]
<1>1. Wanes(p, t)
  BY PressedWanes
<1>2. "rem" \in DOMAIN e /\ e.rem \in Nat
  OBVIOUS
<1>3. Upsert(t, cap, k, v, ttl) = With(p, k, e) \/ Upsert(t, cap, k, v, ttl) = p
  BY DEF Upsert
<1> HIDE DEF p, e
<1>4. Fades(With(p, k, e), p, k)
  BY <1>1, <1>2, WithFades DEF Wanes
<1>5. Fades(With(p, k, e), t, k)
  BY <1>1, <1>4, FadesAfter
<1> QED BY <1>1, <1>3, <1>5, WanesFades

(***************************************************************************)
(* The lease table.                                                        *)
(***************************************************************************)
LeasesOK(l) == "entries" \in DOMAIN l /\ TableOK(l.entries)

LEMMA UnlinkWanes ==
  ASSUME NEW l, LeasesOK(l), NEW k
  PROVE  LeasesOK(unlink(l, k)) /\ Wanes(unlink(l, k).entries, l.entries)
<1>1. CASE k \notin DOMAIN l.entries
  BY <1>1, SameWanes DEF unlink, LeasesOK
<1>2. CASE k \in DOMAIN l.entries
  <2>1. "entries" \in DOMAIN unlink(l, k) /\ unlink(l, k).entries = Without(l.entries, k)
    BY <1>2 DEF unlink
  <2> QED BY <2>1, WithoutWanes DEF LeasesOK, Wanes
<1> QED BY <1>1, <1>2

LEMMA LeaseExpireWanes ==
  ASSUME NEW l, LeasesOK(l)
  PROVE  LeasesOK(lease_expire(l)) /\ Wanes(lease_expire(l).entries, l.entries)
<1> DEFINE S == DOMAIN l.entries \ (DOMAIN l.entries \ LiveKeys(l.entries))
<1>1. /\ "entries" \in DOMAIN lease_expire(l)
      /\ lease_expire(l).entries = [k \in S |-> l.entries[k]]
  BY DEF lease_expire, unlink_all
<1>2. Wanes(lease_expire(l).entries, l.entries)
  BY <1>1, SubtableWanes DEF LeasesOK
<1> QED BY <1>1, <1>2 DEF LeasesOK, Wanes

LEMMA LeaseAgeWanes ==
  ASSUME NEW l, LeasesOK(l)
  PROVE  LeasesOK(lease_age(l)) /\ Wanes(lease_age(l).entries, l.entries)
<1>1. "entries" \in DOMAIN lease_age(l) /\ lease_age(l).entries = Age(l.entries)
  BY DEF lease_age, LeasesOK
<1> QED BY <1>1, AgeWanes DEF LeasesOK, Wanes

LEMMA LeasePressedWanes ==
  ASSUME NEW l, LeasesOK(l), NEW k
  PROVE  LeasesOK(lease_pressed(l, k)) /\ Wanes(lease_pressed(l, k).entries, l.entries)
<1> DEFINE mine == IF lease_get(l, k) THEN l ELSE unlink(l, k)
<1>1. LeasesOK(mine) /\ Wanes(mine.entries, l.entries)
  BY UnlinkWanes, SameWanes DEF LeasesOK
<1>2. lease_pressed(l, k) = mine \/ lease_pressed(l, k) = lease_expire(mine)
  BY DEF lease_pressed
<1> HIDE DEF mine
<1>3. LeasesOK(lease_expire(mine)) /\ Wanes(lease_expire(mine).entries, l.entries)
  BY <1>1, LeaseExpireWanes, WanesTwice DEF LeasesOK
<1> QED BY <1>1, <1>2, <1>3

LEMMA HeartbeatFades ==
  ASSUME NEW l, LeasesOK(l), NEW k, NEW tenant, NEW duration \in Nat
  PROVE  /\ LeasesOK(heartbeat(l, k, tenant, duration))
         /\ Fades(heartbeat(l, k, tenant, duration).entries, l.entries, k)
<1> DEFINE h == heartbeat(l, k, tenant, duration)
           p == lease_pressed(l, k)
<1>1. CASE h = l
  BY <1>1, SameWanes, WanesFades DEF LeasesOK
<1>2. CASE h = p
  BY <1>2, LeasePressedWanes, WanesFades
<1>3. CASE k \in DOMAIN l.entries /\ h = [l EXCEPT !.entries[k].rem = duration]
  <2>1. "entries" \in DOMAIN h /\ h.entries = [l.entries EXCEPT ![k].rem = duration]
    BY <1>3 DEF LeasesOK
  <2> DEFINE u == h.entries
             t == l.entries
  <2>2. /\ DOMAIN u = DOMAIN t /\ u[k].rem = duration /\ "rem" \in DOMAIN u[k]
        /\ \A j \in DOMAIN t \ {k} : u[j] = t[j]
    BY <1>3, <2>1 DEF LeasesOK, TableOK
  <2>3. TableOK(t)
    BY DEF LeasesOK
  <2> HIDE DEF h, u, t
  <2>4. TableOK(u)
    BY <2>2, <2>3 DEF TableOK
  <2>5. ASSUME NEW j, j # k PROVE TimeLeft(u, j) <= TimeLeft(t, j)
    BY <2>2, <2>3, <2>5 DEF TableOK, TimeLeft, LiveKeys
  <2> QED BY <2>1, <2>4, <2>5 DEF LeasesOK, Fades, u, t, h
<1> DEFINE e == [tenant |-> tenant, rem |-> duration]
<1>4. CASE "entries" \in DOMAIN h /\ h.entries = With(p.entries, k, e)
  <2>1. "rem" \in DOMAIN e /\ e.rem \in Nat
    OBVIOUS
  <2> HIDE DEF e, p, h
  <2>2. Wanes(p.entries, l.entries) /\ TableOK(p.entries) /\ TableOK(l.entries)
    BY LeasePressedWanes DEF LeasesOK, p
  <2>3. Fades(With(p.entries, k, e), p.entries, k)
    BY <2>1, <2>2, WithFades
  <2>4. Fades(h.entries, l.entries, k)
    BY <1>4, <2>2, <2>3, FadesAfter
  <2> QED BY <1>4, <2>4 DEF LeasesOK, Fades, h
<1>5. CASE lease_get(l, k)
  BY <1>1, <1>3, <1>5 DEF heartbeat, lease_get, LiveKeys
<1>6. CASE ~lease_get(l, k)
  <2>1. h = p \/ ("entries" \in DOMAIN h /\ h.entries = With(p.entries, k, e))
    BY <1>6 DEF heartbeat
  <2> QED BY <1>2, <1>4, <2>1
<1> QED BY <1>5, <1>6

(***************************************************************************)
(* Sessions and the index of online ones.                                  *)
(***************************************************************************)
SessionOK(s) == "st" \in DOMAIN s /\ "fin" \in DOMAIN s

LoggedIn(s) == s.st = "logged_in" /\ ~s.fin

Shown(l, d, k) == lease_get(l, k) \/ k \in LiveKeys(d)

Shapes ==
  /\ load \in Loads
  /\ DOMAIN sess = Conns /\ \A c \in Conns : SessionOK(sess[c])
  /\ LeasesOK(leases) /\ TableOK(directory) /\ DOMAIN online = Keys

Held ==
  \A k \in Keys : Shown(leases, directory, k)
                  => \E c \in Conns : load.owner[c] = k /\ LoggedIn(sess[c])

OnlineHeld ==
  \A k \in Keys : online[k] # None
                  => online[k] \in Conns /\ load.owner[online[k]] = k /\ LoggedIn(sess[online[k]])

Presence == Shapes /\ Held /\ OnlineHeld

LEMMA OwnKey == ASSUME load \in Loads, NEW c \in Conns PROVE Mine(c) \in Keys
BY DEF Mine, Keys

LEMMA UnlinkRemoves == ASSUME NEW l, NEW k PROVE ~lease_get(unlink(l, k), k)
<1>1. CASE k \notin DOMAIN l.entries
  BY <1>1 DEF unlink, lease_get, LiveKeys
<1>2. CASE k \in DOMAIN l.entries
  <2>1. unlink(l, k).entries = Without(l.entries, k)
    BY <1>2 DEF unlink
  <2> QED BY <2>1 DEF lease_get, LiveKeys, Without
<1> QED BY <1>1, <1>2

LEMMA CleanupRemoves ==
  ASSUME NEW c, NEW d, TableOK(d)
  PROVE  /\ Mine(c) \notin LiveKeys(cleanup_directory(c, d))
         /\ Wanes(cleanup_directory(c, d), d)
<1>1. CASE Mine(c) \in LiveKeys(d)
  <2>1. cleanup_directory(c, d) = Without(d, Mine(c))
    BY <1>1 DEF cleanup_directory
  <2> QED BY <2>1, WithoutWanes DEF LiveKeys, Without
<1>2. CASE Mine(c) \notin LiveKeys(d)
  BY <1>2, SameWanes DEF cleanup_directory
<1> QED BY <1>1, <1>2

(* What Settle does to the tables renews nothing. *)
LEMMA SettleWanes ==
  ASSUME NEW c, NEW s, NEW l, NEW d, NEW o, Settle(c, s, l, d, o),
         LeasesOK(l), TableOK(d)
  PROVE  /\ LeasesOK(leases') /\ Wanes(leases'.entries, l.entries)
         /\ TableOK(directory') /\ Wanes(directory', d)
<1>1. leases' = l \/ leases' = unlink(l, Mine(c))
  BY DEF Settle, cleanup_leases
<1>2. directory' = d \/ directory' = cleanup_directory(c, d)
  BY DEF Settle
<1>3. Wanes(directory', d)
  BY <1>2, SameWanes, CleanupRemoves
<1>4. LeasesOK(leases') /\ Wanes(leases'.entries, l.entries)
  BY <1>1, SameWanes, UnlinkWanes DEF LeasesOK
<1> QED BY <1>3, <1>4 DEF Wanes

LEMMA WanesShown ==
  ASSUME NEW l, NEW m, NEW d, NEW e, NEW k, LeasesOK(l), LeasesOK(m), TableOK(d),
         TableOK(e), TimeLeft(m.entries, k) <= TimeLeft(l.entries, k),
         TimeLeft(e, k) <= TimeLeft(d, k), Shown(m, e, k)
  PROVE  Shown(l, d, k)
<1>1. /\ TimeLeft(m.entries, k) \in Nat /\ TimeLeft(l.entries, k) \in Nat
      /\ TimeLeft(e, k) \in Nat /\ TimeLeft(d, k) \in Nat
  BY TimeNat DEF LeasesOK
<1>2. TimeLeft(m.entries, k) > 0 \/ TimeLeft(e, k) > 0
  BY LiveTime DEF Shown, lease_get, LeasesOK
<1>3. TimeLeft(l.entries, k) > 0 \/ TimeLeft(d, k) > 0
  BY <1>1, <1>2
<1> QED BY <1>3, LiveTime DEF Shown, lease_get, LeasesOK

(* A handler that ends in Settle keeps the invariant when what it adds is  *)
(* for its own key, and its session is logged in.                          *)
LEMMA SettleKeeps ==
  ASSUME Presence, load' = load, NEW c \in Conns, NEW s, NEW l, NEW d, NEW o,
         Settle(c, s, l, d, o),
         SessionOK(s), LeasesOK(l), TableOK(d), DOMAIN o = Keys,
         LoggedIn(sess[c]) => s.st = "logged_in",
         \A k \in Keys : Shown(l, d, k)
           => Shown(leases, directory, k) \/ (k = Mine(c) /\ s.st = "logged_in"),
         \A k \in Keys : o[k] = online[k]
           \/ (k = Mine(c) /\ o[k] = c /\ s.st = "logged_in")
  PROVE  Presence'
<1>1. /\ LeasesOK(leases') /\ Wanes(leases'.entries, l.entries)
      /\ TableOK(directory') /\ Wanes(directory', d)
  BY SettleWanes
<1>2. DOMAIN sess' = Conns /\ \A b \in Conns : b # c => sess'[b] = sess[b]
  BY DEF Settle, Presence, Shapes
<1>3. sess'[c] = IF s.fin THEN Gone ELSE s
  BY DEF Settle, Presence, Shapes
<1>4. SessionOK(Gone)
  BY DEF SessionOK, Gone, Fresh
<1>5. \A b \in Conns : SessionOK(sess'[b])
  BY <1>2, <1>3, <1>4 DEF Presence, Shapes
<1>6. DOMAIN online' = Keys
  BY DEF Settle, cleanup_online
<1>7. Shapes'
  BY <1>1, <1>2, <1>5, <1>6 DEF Presence, Shapes, LeasesOK
<1>8. Mine(c) = load.owner[c]
  BY DEF Mine
<1>9. Mine(c) \in Keys
  BY OwnKey DEF Presence, Shapes
<1>10. \A b \in Conns : b # c => (LoggedIn(sess'[b]) <=> LoggedIn(sess[b]))
  BY <1>2
<1>11. ~s.fin => (LoggedIn(sess'[c]) <=> s.st = "logged_in")
  BY <1>3 DEF LoggedIn
<1>12. ASSUME NEW k \in Keys, Shown(leases', directory', k) PROVE Shown(l, d, k)
  BY <1>1, <1>12, WanesShown DEF Wanes
<1>13. CASE s.fin /\ s.st = "logged_in"
  <2>1. leases' = unlink(l, Mine(c)) /\ directory' = cleanup_directory(c, d)
        /\ online' = cleanup_online(c, o)
    BY <1>13 DEF Settle, cleanup_leases
  <2>2. ~Shown(leases', directory', Mine(c))
    BY <2>1, UnlinkRemoves, CleanupRemoves DEF Shown
  <2>3. ASSUME NEW k \in Keys, Shown(leases', directory', k)
        PROVE  \E b \in Conns : load'.owner[b] = k /\ LoggedIn(sess'[b])
    <3>1. k # Mine(c) /\ Shown(leases, directory, k)
      BY <1>12, <2>2, <2>3
    <3>2. PICK b \in Conns : load.owner[b] = k /\ LoggedIn(sess[b])
      BY <3>1 DEF Presence, Held
    <3> QED BY <1>8, <1>10, <3>1, <3>2
  <2>4. ASSUME NEW k \in Keys, online'[k] # None
        PROVE  online'[k] \in Conns /\ load'.owner[online'[k]] = k /\ LoggedIn(sess'[online'[k]])
    <3>1. online'[k] = o[k] /\ o[k] # c
      <4>1. CASE k = Mine(c)
        BY <2>1, <2>4, <4>1 DEF cleanup_online
      <4>2. CASE k # Mine(c)
        <5>1. online'[k] = o[k] /\ o[k] = online[k]
          BY <2>1, <4>2 DEF cleanup_online
        <5> QED BY <1>8, <2>4, <4>2, <5>1 DEF Presence, OnlineHeld
      <4> QED BY <4>1, <4>2
    <3>2. o[k] = online[k]
      BY <3>1
    <3>3. online[k] \in Conns /\ load.owner[online[k]] = k /\ LoggedIn(sess[online[k]])
      BY <2>4, <3>1, <3>2 DEF Presence, OnlineHeld
    <3> QED BY <1>8, <1>10, <3>1, <3>2, <3>3
  <2>5. Held'
    BY <2>3 DEF Held
  <2>6. OnlineHeld'
    BY <2>4 DEF OnlineHeld
  <2> QED BY <1>7, <2>5, <2>6 DEF Presence
<1>14. CASE ~(s.fin /\ s.st = "logged_in")
  <2>1. leases' = l /\ directory' = d /\ online' = o
    BY <1>14 DEF Settle
  <2>2. s.st = "logged_in" => LoggedIn(sess'[c])
    BY <1>11, <1>14
  <2>3. \A b \in Conns : LoggedIn(sess[b]) => LoggedIn(sess'[b])
    BY <1>10, <2>2
  <2>4. ASSUME NEW k \in Keys, Shown(leases', directory', k)
        PROVE  \E b \in Conns : load'.owner[b] = k /\ LoggedIn(sess'[b])
    BY <1>8, <2>1, <2>2, <2>3, <2>4 DEF Presence, Held
  <2>5. ASSUME NEW k \in Keys, online'[k] # None
        PROVE  online'[k] \in Conns /\ load'.owner[online'[k]] = k /\ LoggedIn(sess'[online'[k]])
    BY <1>8, <2>1, <2>2, <2>3, <2>5 DEF Presence, OnlineHeld
  <2>6. Held'
    BY <2>4 DEF Held
  <2>7. OnlineHeld'
    BY <2>5 DEF OnlineHeld
  <2> QED BY <1>7, <2>6, <2>7 DEF Presence
<1> QED BY <1>13, <1>14

(* A step of the sessions or of time alone keeps it when nobody leaves.    *)
LEMMA StayKeeps ==
  ASSUME Presence, UNCHANGED <<load, online>>, DOMAIN sess' = Conns,
         \A c \in Conns : SessionOK(sess'[c]) /\ (LoggedIn(sess[c]) => LoggedIn(sess'[c])),
         LeasesOK(leases'), Wanes(leases'.entries, leases.entries),
         Wanes(directory', directory)
  PROVE  Presence'
<1>2. Shapes'
  BY DEF Presence, Shapes, Wanes
<1>3. ASSUME NEW k \in Keys, Shown(leases', directory', k)
      PROVE  \E b \in Conns : load'.owner[b] = k /\ LoggedIn(sess'[b])
  <2>1. Shown(leases, directory, k)
    BY <1>3, WanesShown DEF Wanes, Presence, Shapes
  <2> QED BY <2>1 DEF Presence, Held
<1>4. ASSUME NEW k \in Keys, online'[k] # None
      PROVE  online'[k] \in Conns /\ load'.owner[online'[k]] = k /\ LoggedIn(sess'[online'[k]])
  BY <1>4 DEF Presence, OnlineHeld
<1>5. Held'
  BY <1>3 DEF Held
<1>6. OnlineHeld'
  BY <1>4 DEF OnlineHeld
<1> QED BY <1>2, <1>5, <1>6 DEF Presence

LEMMA QueuedKeeps ==
  ASSUME NEW s, SessionOK(s), NEW f
  PROVE  SessionOK(Queued(s, f)) /\ Queued(s, f).st = s.st /\ Queued(s, f).fin = s.fin
<1>1. CASE s.flight = "closing"
  BY <1>1 DEF Queued
<1>2. CASE s.flight = "idle"
  BY <1>2 DEF Queued, SessionOK
<1>3. CASE s.flight # "closing" /\ s.flight # "idle"
  BY <1>3 DEF Queued, SessionOK
<1> QED BY <1>1, <1>2, <1>3

LEMMA SendKeeps ==
  ASSUME NEW s, SessionOK(s), NEW f PROVE SessionOK(Send(s, f)) /\ Send(s, f).st = s.st
<1>1. CASE Room(s)
  BY <1>1, QueuedKeeps DEF Send
<1>2. CASE ~Room(s)
  BY <1>2 DEF Send, SessionOK
<1> QED BY <1>1, <1>2

LEMMA ReadKeeps ==
  ASSUME Presence, NEW c \in Conns PROVE SessionOK(Read(c)) /\ Read(c).st = sess[c].st
BY DEF Read, Presence, Shapes, SessionOK

LEMMA AnswerKeeps ==
  ASSUME NEW s, SessionOK(s)
  PROVE  /\ SessionOK(Reply(s)) /\ Reply(s).st = s.st
         /\ SessionOK(Error(s)) /\ Error(s).st = s.st
BY SendKeeps DEF Reply, Error

(* The tables renew nothing in the step. *)
Waning ==
  /\ LeasesOK(leases') /\ Wanes(leases'.entries, leases.entries)
  /\ Wanes(directory', directory)

LEMMA TablesStay == ASSUME Presence, UNCHANGED <<leases, directory>> PROVE Waning
BY SameWanes DEF Presence, Shapes, LeasesOK, Waning

(* A handler that only answers, or ends the session. *)
LEMMA EndsKeeps ==
  ASSUME Presence, load' = load, NEW c \in Conns, NEW s, Ends(c, s), SessionOK(s),
         LoggedIn(sess[c]) => s.st = "logged_in"
  PROVE  Presence' /\ Waning
<1>1. LeasesOK(leases) /\ TableOK(directory) /\ DOMAIN online = Keys
  BY DEF Presence, Shapes
<1>2. Settle(c, s, leases, directory, online)
  BY DEF Ends
<1>3. Presence'
  BY <1>1, <1>2, SettleKeeps
<1>4. Waning
  BY <1>1, <1>2, SettleWanes DEF Waning
<1> QED BY <1>3, <1>4

LEMMA AnswersKeep ==
  ASSUME Presence, load' = load, NEW c \in Conns,
         \/ Ends(c, Error(Read(c))) \/ Ends(c, Reply(Read(c))) \/ Ends(c, Read(c))
         \/ Ends(c, Error(sess[c]))
  PROVE  Presence' /\ Waning
<1>1. SessionOK(sess[c])
  BY DEF Presence, Shapes
<1> QED BY <1>1, EndsKeeps, ReadKeeps, AnswerKeeps DEF LoggedIn

(* The answers that move a session that is not logged in to a new state. *)
LEMMA MovesKeep ==
  ASSUME Presence, load' = load, NEW c \in Conns, NEW r, NEW st,
         r = Read(c) \/ r = sess[c], ~LoggedIn(sess[c]),
         Ends(c, Reply([r EXCEPT !.st = st]))
  PROVE  Presence' /\ Waning
<1>1. SessionOK(r)
  BY ReadKeeps DEF Presence, Shapes
<1>2. SessionOK([r EXCEPT !.st = st])
  BY <1>1 DEF SessionOK
<1> QED BY <1>2, EndsKeeps, AnswerKeeps

LEMMA AcceptKeeps ==
  ASSUME Presence, NEW c \in Conns, Accept(c) \/ Upgrade(c) PROVE Presence' /\ Waning
<1>1. Waning
  BY TablesStay DEF Accept, Upgrade
<1>2. SessionOK(Fresh) /\ DOMAIN sess = Conns /\ \A b \in Conns : SessionOK(sess[b])
  BY DEF SessionOK, Fresh, Presence, Shapes
<1>3. CASE Accept(c)
  <2>1. sess' = [sess EXCEPT ![c] = Fresh] /\ sess[c].st = "unused"
        /\ UNCHANGED <<load, online>>
    BY <1>3 DEF Accept
  <2>2. \A b \in Conns : SessionOK(sess'[b]) /\ (LoggedIn(sess[b]) => LoggedIn(sess'[b]))
    BY <1>2, <2>1 DEF LoggedIn
  <2> QED BY <1>1, <1>2, <2>1, <2>2, StayKeeps DEF Waning
<1>4. CASE Upgrade(c)
  <2>1. sess' = [sess EXCEPT ![c].st = "awaiting_challenge"] /\ sess[c].st = "handshake"
        /\ UNCHANGED <<load, online>>
    BY <1>4 DEF Upgrade
  <2>2. DOMAIN sess' = Conns /\ \A b \in Conns : b # c => sess'[b] = sess[b]
    BY <1>2, <2>1
  <2>3. SessionOK(sess'[c]) /\ ~LoggedIn(sess[c])
    BY <1>2, <2>1 DEF SessionOK, LoggedIn
  <2>4. \A b \in Conns : SessionOK(sess'[b]) /\ (LoggedIn(sess[b]) => LoggedIn(sess'[b]))
    BY <1>2, <2>2, <2>3
  <2> QED BY <1>1, <2>1, <2>2, <2>4, StayKeeps DEF Waning
<1> QED BY <1>3, <1>4

LEMMA WrittenKeeps ==
  ASSUME Presence, NEW c \in Conns, NEW late, Written(c, late) PROVE Presence' /\ Waning
<1>1. Waning
  BY TablesStay DEF Written
<1>2. UNCHANGED <<load, online>> /\ SessionOK(sess[c]) /\ DOMAIN sess = Conns
  BY DEF Written, Presence, Shapes
<1> DEFINE s == sess[c]
           next == IF s.flight = "last" THEN [s EXCEPT !.flight = "closing", !.late = late]
                   ELSE IF s.pending = <<>> THEN [s EXCEPT !.flight = "idle"]
                   ELSE [s EXCEPT !.flight = Head(s.pending), !.pending = Tail(s.pending)]
<1>3. sess' = [sess EXCEPT ![c] = next]
  BY DEF Written
<1>4. SessionOK(next) /\ next.st = s.st /\ next.fin = s.fin
  BY <1>2 DEF SessionOK
<1> HIDE DEF next
<1>5. DOMAIN sess' = Conns
  BY <1>2, <1>3
<1>6. \A b \in Conns : SessionOK(sess'[b]) /\ (LoggedIn(sess[b]) => LoggedIn(sess'[b]))
  BY <1>2, <1>3, <1>4 DEF LoggedIn, Presence, Shapes
<1> QED BY <1>1, <1>2, <1>5, <1>6, StayKeeps DEF Waning

LEMMA FinishKeeps ==
  ASSUME Presence, NEW c \in Conns, Finish(c) PROVE Presence' /\ Waning
<1> DEFINE s == [sess[c] EXCEPT !.fin = TRUE, !.late = FALSE]
<1>1. SessionOK(s) /\ s.st = sess[c].st
  BY DEF Presence, Shapes, SessionOK
<1>2. Ends(c, s) /\ load' = load
  BY DEF Finish
<1> HIDE DEF s
<1> QED BY <1>1, <1>2, EndsKeeps DEF LoggedIn

LEMMA ChallengeKeeps ==
  ASSUME Presence, NEW c \in Conns, NEW kind, Challenge(c, kind) PROVE Presence' /\ Waning
<1>1. load' = load /\ ~LoggedIn(sess[c])
  BY DEF Challenge, LoggedIn
<1>2. \/ Ends(c, Error(Read(c)))
      \/ \E st : Ends(c, Reply([Read(c) EXCEPT !.st = st]))
  BY Zenon DEF Challenge
<1> QED BY <1>1, <1>2, AnswersKeep, MovesKeep, Zenon

LEMMA EnrollRequestKeeps ==
  ASSUME Presence, NEW c \in Conns, NEW t, NEW valid, EnrollRequest(c, t, valid)
  PROVE  Presence' /\ Waning
<1>1. load' = load /\ ~LoggedIn(sess[c])
  BY DEF EnrollRequest, LoggedIn
<1>2. \/ Ends(c, Error(Read(c))) \/ Ends(c, Read(c))
      \/ \E st : Ends(c, Reply([Read(c) EXCEPT !.st = st]))
  BY Zenon DEF EnrollRequest
<1> QED BY <1>1, <1>2, AnswersKeep, MovesKeep, Zenon

LEMMA LoginKeeps ==
  ASSUME Presence, NEW c \in Conns, NEW g, NEW t, NEW valid, LoginRequest(c, g, t, valid)
  PROVE  Presence' /\ Waning
<1>1. load' = load /\ ~LoggedIn(sess[c])
  BY DEF LoginRequest, LoggedIn
<1> DEFINE r == [Read(c) EXCEPT !.st = "logged_in", !.gen = g, !.tenant = t]
           o == [online EXCEPT ![Mine(c)] = c]
<1>2. CASE Ends(c, Error(Read(c)))
  BY <1>1, <1>2, AnswersKeep
<1>3. CASE Settle(c, Reply(r), leases, directory, o)
  <2>1. SessionOK(r) /\ r.st = "logged_in"
    BY ReadKeeps DEF SessionOK
  <2>2. LeasesOK(leases) /\ TableOK(directory) /\ DOMAIN online = Keys /\ Mine(c) \in Keys
    BY OwnKey DEF Presence, Shapes
  <2>3. DOMAIN o = Keys /\ \A k \in Keys : o[k] = online[k] \/ (k = Mine(c) /\ o[k] = c)
    BY <2>2
  <2> HIDE DEF r, o
  <2>4. SessionOK(Reply(r)) /\ Reply(r).st = "logged_in"
    BY <2>1, AnswerKeeps, SMTT(30)
  <2>5. Presence'
    BY <1>1, <1>3, <2>2, <2>3, <2>4, SettleKeeps
  <2>6. Waning
    BY <1>3, <2>2, SettleWanes DEF Waning
  <2> QED BY <2>5, <2>6
<1> QED BY <1>2, <1>3 DEF LoginRequest

(* The connection of an enrollment under way is not logged in. *)
Enrolling == busy # None => ~LoggedIn(sess[busy.conn])

LEMMA RequestEnrolling ==
  ASSUME IInv, Presence, Enrolling, NEW c \in Conns, NEW t, NEW valid,
         EnrollRequest(c, t, valid)
  PROVE  Enrolling'
<1>1. CASE UNCHANGED busy
  BY <1>1 DEF EnrollRequest, Reading, Enrolling
<1>2. CASE busy' = [conn |-> c, tenant |-> t, found |-> device(Mine(c)),
                    step |-> IF load.mode = "token" THEN "consume" ELSE "enroll"]
           /\ Ends(c, Read(c))
  <2>1. busy'.conn = c /\ sess[c].st = "awaiting_enrollment"
    BY <1>2 DEF EnrollRequest
  <2>2. sess'[c] = Gone \/ sess'[c] = Read(c)
    BY <1>2 DEF Ends, Settle, Presence, Shapes
  <2>3. Read(c).st = "awaiting_enrollment" /\ Gone.st = "enrolled"
    BY <2>1, ReadKeeps DEF Gone, Fresh
  <2>4. ~LoggedIn(sess'[c])
    BY <2>2, <2>3 DEF LoggedIn
  <2> QED BY <2>1, <2>4 DEF Enrolling
<1> QED BY <1>1, <1>2 DEF EnrollRequest

LEMMA ConsumeEnrolling ==
  ASSUME IInv, Enrolling, NEW ok, ConsumeToken(ok) PROVE Enrolling'
<1>1. CASE busy' = None
  BY <1>1 DEF Enrolling
<1>2. CASE busy' = [busy EXCEPT !.step = "enroll"] /\ UNCHANGED sess
  <2>1. busy # None /\ Request(busy)
    BY DEF ConsumeToken, IInv, Types
  <2>2. busy'.conn = busy.conn
    BY <1>2, <2>1, SMTT(30) DEF Request
  <2> QED BY <1>2, <2>1, <2>2 DEF Enrolling
<1> QED BY <1>1, <1>2 DEF ConsumeToken

LEMMA StepEnrolling ==
  ASSUME IInv, Presence, Enrolling, [Next]_vars PROVE Enrolling'
<1>1. CASE UNCHANGED <<busy, sess>>
  BY <1>1 DEF Enrolling
<1>2. CASE busy' = None
  BY <1>2, SMTT(30) DEF Enrolling
<1>3. ASSUME NEW c \in Conns,
             \/ Accept(c) \/ Upgrade(c) \/ Finish(c) \/ Refuse(c)
             \/ \E late \in BOOLEAN : Written(c, late)
             \/ Revoked(c) \/ Heartbeat(c) \/ EndpointQuery(c)
      PROVE  busy' = None
  BY <1>3, ZenonT(30) DEF Accept, Upgrade, Finish, Refuse, Written, Revoked, Heartbeat,
     EndpointQuery, Serving, Reading
<1>4. ASSUME NEW c \in Conns,
             \/ \E kind \in {"enrollment", "login"} : Challenge(c, kind)
             \/ \E t \in Tenants, g \in Gens, valid \in BOOLEAN :
                  LoginRequest(c, g, t, valid)
             \/ \E r \in load.records : EndpointPublish(c, r[1], r[2])
             \/ \E k \in Keys, within \in BOOLEAN : SignalingSend(c, k, within)
      PROVE  busy' = None
  BY <1>4, Zenon DEF Challenge, LoginRequest, EndpointPublish, SignalingSend, Serving, Reading
<1>5. CASE \/ Tick \/ Sweep \/ Shutdown \/ Crash \/ UNCHANGED vars
           \/ \E ok \in BOOLEAN : EnrollDevice(ok)
           \/ \E d \in Devices, g \in Gens : RevokeDevice(d, g)
  BY <1>1, <1>2, <1>5, Zenon DEF Tick, Sweep, Shutdown, Crash, EnrollDevice, RevokeDevice, vars
<1>6. CASE \/ \E c \in Conns, t \in Tenants, valid \in BOOLEAN : EnrollRequest(c, t, valid)
           \/ \E ok \in BOOLEAN : ConsumeToken(ok)
  BY <1>6, RequestEnrolling, ConsumeEnrolling
<1> QED BY <1>2, <1>3, <1>4, <1>5, <1>6 DEF Next

LEMMA EnrollmentKeeps ==
  ASSUME IInv, Presence, Enrolling, NEW ok, ConsumeToken(ok) \/ EnrollDevice(ok)
  PROVE  Presence' /\ Waning
<1>1. busy.conn \in Conns /\ load' = load /\ ~LoggedIn(sess[busy.conn])
  BY DEF IInv, Types, Request, ConsumeToken, EnrollDevice, Enrolling
<1>2. CASE UNCHANGED <<sess, leases, directory, online>>
  <2>1. Waning
    BY <1>2, TablesStay
  <2>2. DOMAIN sess' = Conns
        /\ \A c \in Conns : SessionOK(sess'[c]) /\ (LoggedIn(sess[c]) => LoggedIn(sess'[c]))
    BY <1>2 DEF Presence, Shapes
  <2> QED BY <1>1, <1>2, <2>1, <2>2, StayKeeps DEF Waning
<1>3. CASE Ends(busy.conn, Error(sess[busy.conn]))
  BY <1>1, <1>3, AnswersKeep
<1>4. CASE Ends(busy.conn, Reply([sess[busy.conn] EXCEPT !.st = "enrolled"]))
  BY <1>1, <1>4, MovesKeep
<1>5. CASE ConsumeToken(ok)
  BY <1>2, <1>3, <1>5 DEF ConsumeToken
<1>6. CASE EnrollDevice(ok)
  BY <1>3, <1>4, <1>6, SMTT(30) DEF EnrollDevice
<1> QED BY <1>5, <1>6

(* An operation of a logged-in session: what it renews is its own key's,   *)
(* and its device is active.                                               *)
LEMMA ServedKeeps ==
  ASSUME Presence, load' = load, NEW c \in Conns, LoggedIn(sess[c]),
         NEW s, SessionOK(s), s.st = "logged_in", NEW l, NEW d,
         Settle(c, s, l, d, online), LeasesOK(l),
         Fades(l.entries, leases.entries, Mine(c)), Fades(d, directory, Mine(c))
  PROVE  /\ Presence'
         /\ Fades(leases'.entries, leases.entries, Mine(c))
         /\ Fades(directory', directory, Mine(c))
<1>1. LeasesOK(leases) /\ TableOK(directory) /\ TableOK(d) /\ DOMAIN online = Keys
  BY SMTT(30) DEF Presence, Shapes, Fades
<1>2. ASSUME NEW k \in Keys, Shown(l, d, k), k # Mine(c) PROVE Shown(leases, directory, k)
  BY <1>1, <1>2, WanesShown, SMTT(30) DEF Fades
<1>3. Presence'
  BY <1>1, <1>2, SettleKeeps, SMTT(30)
<1>4. Wanes(leases'.entries, l.entries) /\ Wanes(directory', d)
  BY <1>1, SettleWanes, SMTT(30)
<1> QED BY <1>1, <1>3, <1>4, FadesThen, SMTT(30) DEF LeasesOK

Renewing(c) ==
  /\ ActiveDevice(c) /\ Fades(leases'.entries, leases.entries, Mine(c))
  /\ Fades(directory', directory, Mine(c))

LEMMA HeartbeatKeeps ==
  ASSUME Presence, NEW c \in Conns, Heartbeat(c) PROVE Presence' /\ Renewing(c)
<1>1. LoggedIn(sess[c]) /\ ActiveDevice(c) /\ load' = load
  BY DEF Heartbeat, Serving, Reading, LoggedIn
<1> DEFINE l == heartbeat(leases, Mine(c), sess[c].tenant, LeaseTime)
           s == IF heartbeat_ok(leases, Mine(c), sess[c].tenant)
                THEN Reply(Read(c)) ELSE Error(Read(c))
<1>2. Settle(c, s, l, directory, online)
  BY SMTT(30) DEF Heartbeat
<1>3. SessionOK(s) /\ s.st = "logged_in"
  BY <1>1, ReadKeeps, AnswerKeeps DEF LoggedIn
<1>4. LeasesOK(l) /\ Fades(l.entries, leases.entries, Mine(c))
  BY HeartbeatFades, ServerAssumption DEF Presence, Shapes
<1>5. Fades(directory, directory, Mine(c))
  BY SameWanes, WanesFades, SMTT(30) DEF Presence, Shapes
<1> HIDE DEF l, s
<1> QED BY <1>1, <1>2, <1>3, <1>4, <1>5, ServedKeeps, SMTT(30) DEF Renewing

LEMMA PublishKeeps ==
  ASSUME Presence, NEW c \in Conns, NEW g, NEW body, EndpointPublish(c, g, body)
  PROVE  Presence' /\ Renewing(c)
<1>1. LoggedIn(sess[c]) /\ ActiveDevice(c) /\ load' = load
  BY Zenon DEF EndpointPublish, Serving, Reading, LoggedIn
<1> DEFINE rec == [gen |-> g, body |-> body, tenant |-> sess[c].tenant]
           may == lease_get(leases, Mine(c)) /\ Publishable(Mine(c), rec)
           s == IF may /\ Accepts(directory, DirectoryCapacity, Mine(c))
                THEN Reply(Read(c)) ELSE Error(Read(c))
           d == IF may THEN Upsert(directory, DirectoryCapacity, Mine(c), rec, RecordTime)
                ELSE directory
<1>2. Settle(c, s, leases, d, online)
  BY SMTT(30) DEF EndpointPublish
<1>3. SessionOK(s) /\ s.st = "logged_in"
  BY <1>1, ReadKeeps, AnswerKeeps, ZenonT(30) DEF LoggedIn
<1>4. TableOK(directory) /\ LeasesOK(leases) /\ RecordTime \in Nat
  BY ServerAssumption, Zenon DEF Presence, Shapes
<1>5. Fades(d, directory, Mine(c))
  <2> HIDE DEF may, rec
  <2>1. Fades(directory, directory, Mine(c))
    BY <1>4, SameWanes, WanesFades
  <2>2. Fades(Upsert(directory, DirectoryCapacity, Mine(c), rec, RecordTime),
              directory, Mine(c))
    BY <1>4, UpsertFades
  <2> QED BY <2>1, <2>2
<1>6. Fades(leases.entries, leases.entries, Mine(c))
  BY <1>4, SameWanes, WanesFades DEF LeasesOK
<1> HIDE DEF d, s
<1> QED BY <1>1, <1>2, <1>3, <1>4, <1>5, <1>6, ServedKeeps, SMTT(30) DEF Renewing

LEMMA SignalingKeeps ==
  ASSUME Presence, NEW c \in Conns, NEW k \in Keys, NEW within,
         SignalingSend(c, k, within)
  PROVE  Presence' /\ Waning
<1> DEFINE to == online[k]
           mid == [sess EXCEPT ![c] = Read(c)]
<1>1. load' = load
  BY DEF SignalingSend
<1>2. CASE Ends(c, Reply(Read(c)))
  BY <1>1, <1>2, AnswersKeep
<1>3. CASE /\ to # None /\ sess' = [mid EXCEPT ![to] = Queued(@, "reply")]
           /\ UNCHANGED <<leases, directory, online>>
  <2>1. DOMAIN sess = Conns /\ \A b \in Conns : SessionOK(sess[b])
    BY SMTT(30) DEF Presence, Shapes
  <2>2. to \in Conns
    BY <1>3 DEF Presence, OnlineHeld
  <2>3. SessionOK(Read(c)) /\ Read(c).st = sess[c].st /\ Read(c).fin = sess[c].fin
    BY <2>1 DEF Read, SessionOK
  <2>4. /\ DOMAIN mid = Conns
        /\ \A b \in Conns : SessionOK(mid[b]) /\ mid[b].st = sess[b].st /\ mid[b].fin = sess[b].fin
    BY <2>1, <2>3
  <2> HIDE DEF mid, to
  <2>5. DOMAIN sess' = Conns
    BY <1>3, <2>4
  <2>6. \A b \in Conns : sess'[b] = mid[b] \/ sess'[b] = Queued(mid[b], "reply")
    BY <1>3, <2>2, <2>4, SMTT(30)
  <2>7. \A b \in Conns : SessionOK(sess'[b]) /\ (LoggedIn(sess[b]) => LoggedIn(sess'[b]))
    BY <2>4, <2>6, QueuedKeeps DEF LoggedIn
  <2>8. Waning
    BY <1>3, TablesStay
  <2> QED BY <1>1, <1>3, <2>5, <2>7, <2>8, StayKeeps DEF Waning
<1> QED BY <1>2, <1>3 DEF SignalingSend

LEMMA TimeKeeps ==
  ASSUME Presence,
         Tick \/ Sweep \/ (\E d \in Devices, g \in Gens : RevokeDevice(d, g))
              \/ UNCHANGED vars
  PROVE  Presence' /\ Waning
<1>1. LeasesOK(leases) /\ TableOK(directory)
  BY DEF Presence, Shapes
<1>2. UNCHANGED <<load, sess, online>>
  BY Zenon DEF Tick, Sweep, RevokeDevice, vars
<1>3. \/ leases' = leases /\ directory' = directory
      \/ leases' = lease_age(leases) /\ directory' = Age(directory)
      \/ leases' = lease_expire(leases) /\ directory' = Expire(directory)
  BY Zenon DEF Tick, Sweep, RevokeDevice, vars
<1>4. Waning
  BY <1>1, <1>3, TablesStay, LeaseAgeWanes, LeaseExpireWanes, AgeWanes, ExpireWanes
  DEF Waning
<1>5. DOMAIN sess' = Conns
      /\ \A c \in Conns : SessionOK(sess'[c]) /\ (LoggedIn(sess[c]) => LoggedIn(sess'[c]))
  BY <1>2, SMTT(30) DEF Presence, Shapes
<1> QED BY <1>2, <1>4, <1>5, StayKeeps DEF Waning

LEMMA ShutdownKeeps == ASSUME Presence, Shutdown PROVE Presence' /\ Waning
<1>1. UNCHANGED <<load, online, leases, directory>>
  BY DEF Shutdown
<1>2. PICK late : sess' = [c \in Conns |-> [sess[c] EXCEPT !.late = c \in late]]
  BY Zenon DEF Shutdown
<1>3. ASSUME NEW c \in Conns
      PROVE  SessionOK(sess'[c]) /\ (LoggedIn(sess[c]) => LoggedIn(sess'[c]))
  <2>1. SessionOK(sess[c])
    BY DEF Presence, Shapes
  <2>2. DOMAIN sess'[c] = DOMAIN sess[c]
    BY <1>2
  <2>3. sess'[c].st = sess[c].st /\ sess'[c].fin = sess[c].fin
    BY <1>2, <2>1 DEF SessionOK
  <2> QED BY <2>1, <2>2, <2>3 DEF SessionOK, LoggedIn
<1>4. DOMAIN sess' = Conns
  BY <1>2
<1>5. Waning
  BY <1>1, TablesStay
<1> QED BY <1>1, <1>3, <1>4, <1>5, StayKeeps DEF Waning

LEMMA EmptyTable == TableOK(Empty) /\ \A k : TimeLeft(Empty, k) = 0 /\ k \notin LiveKeys(Empty)
BY DEF TableOK, Empty, TimeLeft, LiveKeys

LEMMA NoLeasesShape ==
  LeasesOK(NoLeases(Devices, Tenants)) /\ NoLeases(Devices, Tenants).entries = Empty
BY EmptyTable DEF NoLeases, LeasesOK

LEMMA CrashEmpties == ASSUME Presence, Crash PROVE Presence' /\ Waning
<1>1. /\ leases' = NoLeases(Devices, Tenants) /\ directory' = Empty /\ load' = load
      /\ online' = [k \in Keys |-> None]
      /\ sess' = [c \in Conns |-> IF sess[c].st = "unused" THEN Unused ELSE Gone]
  BY DEF Crash
<1>2. SessionOK(Unused) /\ SessionOK(Gone)
  BY SMTT(30) DEF SessionOK, Unused, Gone, Fresh
<1>3. Shapes'
  BY <1>1, <1>2, EmptyTable, NoLeasesShape, SMTT(30) DEF Presence, Shapes
<1>4. Held'
  BY <1>1, EmptyTable, NoLeasesShape DEF Held, Shown, lease_get
<1>5. OnlineHeld'
  BY <1>1 DEF OnlineHeld
<1>6. \A k : TimeLeft(leases.entries, k) \in Nat /\ TimeLeft(directory, k) \in Nat
  BY TimeNat DEF Presence, Shapes, LeasesOK
<1>7. Waning
  BY <1>1, <1>6, EmptyTable, NoLeasesShape, SMTT(30) DEF Waning, Wanes
<1> QED BY <1>3, <1>4, <1>5, <1>7 DEF Presence

LEMMA StepPresence ==
  ASSUME IInv, Presence, Enrolling, [Next]_vars
  PROVE  Presence' /\ (Waning \/ \E c \in Conns : Renewing(c))
<1>1. ASSUME NEW c \in Conns,
             \/ Accept(c) \/ Upgrade(c) \/ Finish(c)
             \/ \E late \in BOOLEAN : Written(c, late)
             \/ \E kind \in {"enrollment", "login"} : Challenge(c, kind)
             \/ \E t \in Tenants, valid \in BOOLEAN : EnrollRequest(c, t, valid)
             \/ \E t \in Tenants, g \in Gens, valid \in BOOLEAN :
                  LoginRequest(c, g, t, valid)
             \/ \E k \in Keys, within \in BOOLEAN : SignalingSend(c, k, within)
      PROVE  Presence' /\ Waning
  BY <1>1, AcceptKeeps, FinishKeeps, WrittenKeeps, ChallengeKeeps,
     EnrollRequestKeeps, LoginKeeps, SignalingKeeps
<1>2. ASSUME NEW c \in Conns, Refuse(c) \/ Revoked(c) \/ EndpointQuery(c)
      PROVE  Presence' /\ Waning
  <2>1. load' = load /\ (Ends(c, Error(Read(c))) \/ Ends(c, Reply(Read(c))))
    BY <1>2 DEF Refuse, Revoked, EndpointQuery
  <2> QED BY <2>1, AnswersKeep
<1>3. ASSUME NEW c \in Conns,
             Heartbeat(c) \/ \E r \in load.records : EndpointPublish(c, r[1], r[2])
      PROVE  Presence' /\ Renewing(c)
  BY <1>3, HeartbeatKeeps, PublishKeeps
<1>4. CASE \E ok \in BOOLEAN : ConsumeToken(ok) \/ EnrollDevice(ok)
  BY <1>4, EnrollmentKeeps
<1>5. CASE Tick \/ Sweep \/ (\E d \in Devices, g \in Gens : RevokeDevice(d, g))
           \/ UNCHANGED vars
  BY <1>5, TimeKeeps
<1>6. CASE Shutdown \/ Crash
  BY <1>6, ShutdownKeeps, CrashEmpties
<1> QED BY <1>1, <1>2, <1>3, <1>4, <1>5, <1>6, Zenon DEF Next

LEMMA InitPresence == ASSUME Init PROVE Presence /\ Enrolling
<1>1. /\ leases = NoLeases(Devices, Tenants) /\ directory = Empty /\ load \in Loads
      /\ online = [k \in Keys |-> None] /\ sess = [c \in Conns |-> Unused] /\ busy = None
  BY DEF Init
<1>2. SessionOK(Unused)
  BY DEF SessionOK, Unused, Fresh
<1>3. Shapes
  BY <1>1, <1>2, EmptyTable, NoLeasesShape DEF Shapes
<1>4. Held
  BY <1>1, EmptyTable, NoLeasesShape DEF Held, Shown, lease_get
<1>5. OnlineHeld /\ Enrolling
  BY <1>1 DEF OnlineHeld, Enrolling
<1> QED BY <1>3, <1>4, <1>5 DEF Presence

(* Every shown key is held by a logged-in session, and the session online  *)
(* for a key is itself logged in (session_cleanup, the login in            *)
(* session_handle_control).                                                *)
THEOREM PresenceInvariant == Spec => [](Presence /\ Enrolling)
<1>1. Init => Presence /\ Enrolling
  BY InitPresence
<1>2. IInv /\ (Presence /\ Enrolling) /\ [Next]_vars => (Presence /\ Enrolling)'
  BY StepPresence, StepEnrolling
<1> QED BY <1>1, <1>2, DatabaseInvariant, PTL DEF Spec

(* A leased, listed or online key has a session that is logged in now, for *)
(* any number of overlapping sessions of a key (session_cleanup).          *)
THEOREM NobodyOrphaned == Spec => []NoOrphans
<1>1. Presence => NoOrphans
  <2> SUFFICES ASSUME Presence, NEW k \in Keys,
                      \/ lease_get(leases, k) \/ k \in LiveKeys(directory)
                      \/ online[k] # None
               PROVE  \E c \in Conns : load.owner[c] = k /\ ~sess[c].fin
                                       /\ sess[c].st = "logged_in"
    BY DEF NoOrphans, Mine
  <2>1. CASE Shown(leases, directory, k)
    BY <2>1 DEF Presence, Held, LoggedIn
  <2>2. CASE online[k] # None
    BY <2>2 DEF Presence, OnlineHeld, LoggedIn
  <2> QED BY <2>1, <2>2 DEF Shown
<1> QED BY <1>1, PresenceInvariant, PTL

(* The condition RevokedOnlyAges puts on a step. *)
Runs(k) ==
  devices[Device(k)].status = "revoked"
  => /\ TimeLeft(leases'.entries, k) <= TimeLeft(leases.entries, k)
     /\ TimeLeft(directory', k) <= TimeLeft(directory, k)

LEMMA StepRuns ==
  ASSUME IInv, Presence, Enrolling, [Next]_vars, NEW k \in Keys PROVE Runs(k)
<1>1. CASE Waning
  BY <1>1, SMTT(30) DEF Waning, Wanes, Runs
<1>2. ASSUME NEW c \in Conns, Renewing(c) PROVE Runs(k)
  <2>1. device(Mine(c)).status = "active"
    BY <1>2 DEF Renewing, ActiveDevice
  <2>2. devices[Device(k)].status = "revoked" => k # Mine(c)
    BY <2>1 DEF device
  <2> QED BY <1>2, <2>2, SMTT(30) DEF Renewing, Fades, Runs
<1> QED BY <1>1, <1>2, StepPresence

(* From its revocation on, the leases and directory entries of a device's  *)
(* keys only run out or go, whatever its open sessions send                *)
(* (require_active_device), and no enrollment that had not seen the        *)
(* revocation undoes it (enroll_device).                                   *)
THEOREM RevocationIsKept == Spec => RevocationHolds
<1>1. IInv /\ (Presence /\ Enrolling) /\ [Next]_vars => [\A k \in Keys : Runs(k)]_vars
  BY StepRuns
<1>2. [\A k \in Keys : Runs(k)]_vars
      => [\A k \in Keys :
            devices[Device(k)].status = "revoked"
            => /\ TimeLeft(leases'.entries, k) <= TimeLeft(leases.entries, k)
               /\ TimeLeft(directory', k) <= TimeLeft(directory, k)]_vars
  BY DEF Runs
<1>3. Spec => RevokedOnlyAges
  BY <1>1, <1>2, DatabaseInvariant, PresenceInvariant, PTL DEF Spec, RevokedOnlyAges
<1> QED BY <1>3, RevocationNotUndone DEF RevocationHolds
================================================================================
