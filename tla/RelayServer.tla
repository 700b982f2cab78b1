------------------------------ MODULE RelayServer ------------------------------
(***************************************************************************)
(* The relay server (src/relay/relay_server.cpp) with the services it      *)
(* calls: challenges and their single use, enrollment against a bootstrap  *)
(* token or password (relay_enrollment_service.cpp), login                 *)
(* (relay_login_service.cpp), the device database (relay_database.cpp),    *)
(* the lease table, the endpoint directory, the index of online sessions   *)
(* and each session's bounded write queue.  Everything of the server runs  *)
(* on one strand, so a handler is one step, except an enrollment: it makes *)
(* three database calls, each a transaction of its own, and an operator's  *)
(* process may commit between them, or the relay may crash.                *)
(*                                                                         *)
(* A connection is the client's key (device and endpoint) for its life.    *)
(* A refusal by the rate limiter (RelayRateLimiter) may meet any message.  *)
(***************************************************************************)
EXTENDS RelayLeases, Sequences

CONSTANTS
  Conns, Devices, Tenants, None,
  Loads,              \* the relay's configuration, database and clients
  LeaseTime,          \* the lease a heartbeat grants
  ChallengeTime,      \* challenge_validity
  ChallengeCapacity,
  DirectoryCapacity, RecordTime,
  WriteFrames,        \* control_write_queue_frames
  QueryMax,           \* endpoint_query_max_results
  Uses,               \* uses of each tenant's bootstrap token
  MaxGen              \* bound on enrollment generations

(* A load: the enrollment mode, the device records the relay starts with,  *)
(* the key the client of each connection holds, and the records clients    *)
(* publish, as pairs of a generation and a body.                           *)
DeviceRecord ==
  [status : {"none", "active", "revoked"}, gen : Nat, tenant : Tenants \cup {None}]

ASSUME ServerAssumption ==
  /\ None \notin Conns /\ Uses \in Nat
  /\ LeaseTime \in Nat /\ ChallengeTime \in Nat /\ RecordTime \in Nat
  /\ \A l \in Loads :
       /\ l.mode \in {"token", "password", "closed"}
       /\ l.devices \in [Devices -> DeviceRecord]
       /\ l.owner \in [Conns -> Devices \X STRING]
       /\ l.records \subseteq (Nat \ {0}) \X STRING

VARIABLES
  load,        \* the load, fixed
  srv,         \* "running" or "stopped"
  sess,        \* the sessions, by connection
  challenges,  \* the challenge tables of the two services, by kind
  devices,     \* the database: the device records
  tokens,      \* the database: remaining uses by tenant
  leases,      \* lease_table
  directory,   \* endpoint_directory
  online,      \* online_endpoints
  busy,        \* the enrollment whose database calls are under way
  enrolled     \* devices activated so far with each tenant's token

vars == <<load, srv, sess, challenges, devices, tokens, leases, directory,
          online, busy, enrolled>>

Gens == 1..MaxGen
Keys == {l.owner[c] : l \in Loads, c \in Conns}
Mine(c) == load.owner[c]

(* RelayDatabase::device: the stored record, "none" when there is none. *)
device(k) == devices[Device(k)]

Fresh == [st |-> "handshake", gen |-> 0, tenant |-> None, fin |-> FALSE,
          flight |-> "idle", pending |-> <<>>, late |-> FALSE]
Unused == [Fresh EXCEPT !.st = "unused"]

(* A finished session: nothing reads its other fields any more. *)
Gone == [Fresh EXCEPT !.st = "enrolled", !.fin = TRUE]

(* The relay may start over a database that already holds devices. *)
Init ==
  /\ load \in Loads
  /\ srv = "running"
  /\ sess = [c \in Conns |-> Unused]
  /\ challenges = [kind \in {"enrollment", "login"} |-> Empty]
  /\ devices = load.devices
  /\ tokens = [t \in Tenants |-> Uses]
  /\ leases = NoLeases(Devices, Tenants)
  /\ directory = Empty
  /\ online = [k \in Keys |-> None]
  /\ busy = None
  /\ enrolled = [t \in Tenants |-> 0]

(***************************************************************************)
(* The write queue of a session.                                           *)
(***************************************************************************)

(* send_control: accepted unless the queue is at its watermark; the pump   *)
(* starts the write at once when none is in flight.                        *)
Room(s) == ~s.fin /\ (Len(s.pending) < WriteFrames \/ s.flight = "closing")

Queued(s, frame) ==
  CASE s.flight = "closing" -> s
    [] s.flight = "idle"    -> [s EXCEPT !.flight = frame]
    [] OTHER                -> [s EXCEPT !.pending = Append(@, frame)]

(* A response the queue cannot take fails the session. *)
Send(s, frame) == IF Room(s) THEN Queued(s, frame) ELSE [s EXCEPT !.fin = TRUE]

Reply(s) == Send(s, "reply")
Error(s) == Send(s, "last")       \* send_error: close_after_write

(* session_cleanup: the online index is cleared only of this session; the  *)
(* lease and the directory entry of its key go whoever holds them.         *)
cleanup_online(c, o) ==
  [o EXCEPT ![Mine(c)] = IF @ = c THEN None ELSE @]
cleanup_leases(c, l) == unlink(l, Mine(c))
MutantCleanupDirectory(c, d) == d
cleanup_directory(c, d) ==
  IF Mine(c) \in LiveKeys(d) THEN Without(d, Mine(c)) ELSE d

(* A handler ends: s is the session after it, and a session that has just  *)
(* finished while logged in is cleaned up.                                 *)
Settle(c, s, l, d, o) ==
  LET gone == s.fin /\ s.st = "logged_in"
  IN  /\ sess' = [sess EXCEPT ![c] = IF s.fin THEN Gone ELSE s]
      /\ leases'    = IF gone THEN cleanup_leases(c, l) ELSE l
      /\ directory' = IF gone THEN cleanup_directory(c, d) ELSE d
      /\ online'    = IF gone THEN cleanup_online(c, o) ELSE o

Ends(c, s) == Settle(c, s, leases, directory, online)

(***************************************************************************)
(* Connections.                                                            *)
(***************************************************************************)

Accept(c) ==
  /\ srv = "running" /\ busy = None /\ sess[c].st = "unused"
  /\ sess' = [sess EXCEPT ![c] = Fresh]
  /\ UNCHANGED <<load, srv, challenges, devices, tokens, leases, directory,
                 online, busy, enrolled>>

(* The TLS handshake and the upgrade to the control path succeed. *)
Upgrade(c) ==
  /\ busy = None /\ srv = "running"
  /\ sess[c].st = "handshake" /\ ~sess[c].fin
  /\ sess' = [sess EXCEPT ![c].st = "awaiting_challenge"]
  /\ UNCHANGED <<load, srv, challenges, devices, tokens, leases, directory,
                 online, busy, enrolled>>

(* A write completes: the next frame is pumped, or after the last frame    *)
(* the WebSocket close starts, which takes over the reads; late says a     *)
(* read had completed by then and its handler is still to run.             *)
Written(c, late) ==
  LET s == sess[c]
  IN  /\ busy = None /\ ~s.fin /\ s.flight \in {"reply", "last"}
      /\ late => s.flight = "last"
      /\ sess' = [sess EXCEPT ![c] =
           IF s.flight = "last"
           THEN [s EXCEPT !.flight = "closing", !.late = late]
           ELSE IF s.pending = <<>> THEN [s EXCEPT !.flight = "idle"]
           ELSE [s EXCEPT !.flight = Head(s.pending),
                          !.pending = Tail(s.pending)]]
      /\ UNCHANGED <<load, srv, challenges, devices, tokens, leases,
                     directory, online, busy, enrolled>>

(* The session ends: the close completes, a read or a write fails, the     *)
(* peer closes, or the handshake fails or times out.                       *)
Finish(c) ==
  /\ busy = None /\ sess[c].st # "unused" /\ ~sess[c].fin
  /\ Ends(c, [sess[c] EXCEPT !.fin = TRUE, !.late = FALSE])
  /\ UNCHANGED <<load, srv, challenges, devices, tokens, busy, enrolled>>

(***************************************************************************)
(* Control messages (session_handle_control).  Once its close has started  *)
(* or the server has stopped, a session handles at most the one message    *)
(* whose read had already completed.                                       *)
(***************************************************************************)
Reading(c) ==
  /\ busy = None
  /\ sess[c].st \notin {"unused", "handshake"} /\ ~sess[c].fin
  /\ \/ srv = "running" /\ sess[c].flight # "closing"
     \/ sess[c].late

Read(c) == [sess[c] EXCEPT !.late = FALSE]

(* A message refused in whatever state: the rate limits, a text frame, a   *)
(* parse failure, a type the state does not expect, a nonce that is not    *)
(* this session's, a refused signature or throttled source.  The error is  *)
(* queued as the last frame; until it is written the session reads on.     *)
Refuse(c) ==
  /\ Reading(c)
  /\ Ends(c, Error(Read(c)))
  /\ UNCHANGED <<load, srv, challenges, devices, tokens, busy, enrolled>>

(* begin_challenge of the enrollment or the login service, each with its   *)
(* own table; the nonce is the connection's own.                           *)
begin_challenge(t, c, kind) ==
  [t EXCEPT ![kind] = Upsert(@, ChallengeCapacity, c, kind, ChallengeTime)]

Challenge(c, kind) ==
  LET closed == kind = "enrollment" /\ load.mode = "closed"
      given  == ~closed /\ Accepts(challenges[kind], ChallengeCapacity, c)
  IN  /\ Reading(c) /\ sess[c].st = "awaiting_challenge"
      /\ challenges' = IF closed THEN challenges
                       ELSE begin_challenge(challenges, c, kind)
      /\ Ends(c, IF given
                 THEN Reply([Read(c) EXCEPT !.st =
                               IF kind = "enrollment" THEN "awaiting_enrollment"
                                                      ELSE "awaiting_login"])
                 ELSE Error(Read(c)))
      /\ UNCHANGED <<load, srv, devices, tokens, busy, enrolled>>

(***************************************************************************)
(* Enrollment (RelayEnrollmentService::complete).                          *)
(***************************************************************************)

(* The challenge is taken whatever follows.  A valid request reads the     *)
(* device's record; an active device of the same key and tenant is already *)
(* enrolled and spends no token.                                           *)
EnrollRequest(c, t, valid) ==
  LET taken == c \in LiveKeys(challenges["enrollment"])
      found == device(Mine(c))
      again == found.status = "active" /\ found.tenant = t
  IN  /\ Reading(c) /\ sess[c].st = "awaiting_enrollment"
      /\ found.gen < MaxGen                                    \* bound
      /\ challenges' = [challenges EXCEPT !["enrollment"] = Without(@, c)]
      /\ IF ~taken \/ ~valid
         THEN Ends(c, Error(Read(c))) /\ UNCHANGED busy
         ELSE IF again
         THEN Ends(c, Reply([Read(c) EXCEPT !.st = "enrolled"]))
              /\ UNCHANGED busy
         ELSE /\ busy' = [conn |-> c, tenant |-> t, found |-> found,
                          step |-> IF load.mode = "token"
                                    THEN "consume" ELSE "enroll"]
              /\ Ends(c, Read(c))
      /\ UNCHANGED <<load, srv, devices, tokens, enrolled>>

(* Mutant: the count is written back only with the device. *)
MutantConsumeToken(ok) ==
  /\ busy # None /\ busy.step = "consume"
  /\ busy' = [busy EXCEPT !.step = "enroll"]
  /\ UNCHANGED <<load, srv, sess, challenges, devices, tokens, leases,
                 directory, online, enrolled>>

(* consume_bootstrap_token, one transaction. *)
ConsumeToken(ok) ==
  /\ busy # None /\ busy.step = "consume"
  /\ IF ok /\ tokens[busy.tenant] > 0
     THEN /\ tokens' = [tokens EXCEPT ![busy.tenant] = @ - 1]
          /\ busy' = [busy EXCEPT !.step = "enroll"]
          /\ UNCHANGED <<sess, leases, directory, online>>
     ELSE /\ busy' = None
          /\ Ends(busy.conn, Error(sess[busy.conn]))
          /\ UNCHANGED tokens
  /\ UNCHANGED <<load, srv, challenges, devices, enrolled>>

(* The generation complete asks enroll_device for: one past the record it  *)
(* read before the token was consumed.                                     *)
NextGeneration(found) == found.gen + 1

(* enroll_device against the record now in the database: an older          *)
(* generation is refused, the same one only confirms an active record.     *)
MutantEnrollable(now, gen) == gen >= now.gen
Enrollable(now, gen) == gen > now.gen
Confirmed(now, gen, t) ==
  gen = now.gen /\ now.status = "active" /\ now.tenant = t

EnrollDevice(ok) ==
  LET d   == Device(Mine(busy.conn))
      gen == NextGeneration(busy.found)
      s   == sess[busy.conn]
  IN  /\ busy # None /\ busy.step = "enroll"
      /\ busy' = None
      /\ IF ok /\ Enrollable(devices[d], gen)
         THEN /\ devices' = [devices EXCEPT ![d] =
                               [status |-> "active", gen |-> gen,
                                tenant |-> busy.tenant]]
              /\ enrolled' = [enrolled EXCEPT ![busy.tenant] =
                                IF load.mode = "token" THEN @ + 1 ELSE @]
         ELSE UNCHANGED <<devices, enrolled>>
      /\ Ends(busy.conn,
              IF ok /\ (\/ Enrollable(devices[d], gen)
                        \/ Confirmed(devices[d], gen, busy.tenant))
              THEN Reply([s EXCEPT !.st = "enrolled"]) ELSE Error(s))
      /\ UNCHANGED <<load, srv, challenges, tokens>>

(***************************************************************************)
(* Login and the messages of a logged-in session.                          *)
(***************************************************************************)

(* RelayLoginService::authenticate for a request that claims generation g  *)
(* and tenant t.                                                           *)
authenticate(c, g, t, valid) ==
  LET d == device(Mine(c))
  IN  /\ c \in LiveKeys(challenges["login"]) /\ valid
      /\ d.status = "active" /\ d.gen = g /\ d.tenant = t

(* The newest login of a key becomes its online session. *)
LoginRequest(c, g, t, valid) ==
  LET s == Reply([Read(c) EXCEPT !.st = "logged_in", !.gen = g, !.tenant = t])
  IN  /\ Reading(c) /\ sess[c].st = "awaiting_login"
      /\ challenges' = [challenges EXCEPT !["login"] = Without(@, c)]
      /\ IF authenticate(c, g, t, valid)
         THEN Settle(c, s, leases, directory, [online EXCEPT ![Mine(c)] = c])
         ELSE Ends(c, Error(Read(c)))
      /\ UNCHANGED <<load, srv, devices, tokens, busy, enrolled>>

(* require_active_device (close_revoked_sessions). *)
MutantActiveDevice(c) == sess[c].st = "logged_in"
ActiveDevice(c) ==
  LET d == device(Mine(c))
  IN  d.status = "active" /\ d.gen = sess[c].gen /\ d.tenant = sess[c].tenant

Serving(c) == Reading(c) /\ sess[c].st = "logged_in"

(* A logged-in session whose device is no longer active under its          *)
(* generation is told so in a last frame, whatever it sent.                *)
Revoked(c) ==
  /\ Serving(c) /\ ~ActiveDevice(c)
  /\ Ends(c, Error(Read(c)))
  /\ UNCHANGED <<load, srv, challenges, devices, tokens, busy, enrolled>>

Heartbeat(c) ==
  LET t == sess[c].tenant
  IN  /\ Serving(c) /\ ActiveDevice(c)
      /\ Settle(c, IF heartbeat_ok(leases, Mine(c), t)
                   THEN Reply(Read(c)) ELSE Error(Read(c)),
                heartbeat(leases, Mine(c), t, LeaseTime), directory, online)
      /\ UNCHANGED <<load, srv, challenges, devices, tokens, busy, enrolled>>

(* RelayEndpointDirectory::publish: while a record of the key is live, a   *)
(* newer one replaces it, an equal generation must be the same record.     *)
Publishable(k, rec) ==
  k \in LiveKeys(directory) =>
    LET now == directory[k].val
    IN  /\ now.tenant = rec.tenant
        /\ \/ rec.gen > now.gen
           \/ rec = now

EndpointPublish(c, g, body) ==
  LET k    == Mine(c)
      rec  == [gen |-> g, body |-> body, tenant |-> sess[c].tenant]
      may  == lease_get(leases, k) /\ Publishable(k, rec)
      ok   == may /\ Accepts(directory, DirectoryCapacity, k)
  IN  /\ Serving(c) /\ ActiveDevice(c)
      /\ Settle(c, IF ok THEN Reply(Read(c)) ELSE Error(Read(c)), leases,
                IF may THEN Upsert(directory, DirectoryCapacity, k, rec,
                                   RecordTime)
                ELSE directory, online)
      /\ UNCHANGED <<load, srv, challenges, devices, tokens, busy, enrolled>>

(* session_handle_endpoint_query: the leases online_tenant finds that have *)
(* a live directory entry.                                                 *)
QueryResult(tenant) == online_tenant(leases, tenant) \cap LiveKeys(directory)

EndpointQuery(c) ==
  /\ Serving(c) /\ ActiveDevice(c)
  /\ Ends(c, IF Cardinality(online_tenant(leases, sess[c].tenant)) > QueryMax
             THEN Error(Read(c)) ELSE Reply(Read(c)))
  /\ UNCHANGED <<load, srv, challenges, devices, tokens, busy, enrolled>>

(* session_handle_signaling_send: delivered through the bounded queue of   *)
(* the session online for the key; every refusal but a protocol error      *)
(* answers the sender without closing it.  within is the per-second rate.  *)
SignalingSend(c, k, within) ==
  LET to      == online[k]
      reaches == /\ within /\ to # None
                 /\ ~sess[to].fin /\ sess[to].st = "logged_in"
                 /\ sess[to].tenant = sess[c].tenant
                 /\ Room(sess[to])
  IN  /\ Serving(c) /\ ActiveDevice(c)
      /\ IF reaches
         THEN /\ sess' = [[sess EXCEPT ![c] = Read(c)]
                             EXCEPT ![to] = Queued(@, "reply")]
              /\ UNCHANGED <<leases, directory, online>>
         ELSE Ends(c, Reply(Read(c)))
      /\ UNCHANGED <<load, srv, challenges, devices, tokens, busy, enrolled>>

(***************************************************************************)
(* Time, the operator, shutdown and crashes.                               *)
(***************************************************************************)

Tick ==
  /\ challenges' = [kind \in DOMAIN challenges |-> Age(challenges[kind])]
  /\ leases' = lease_age(leases)
  /\ directory' = Age(directory)
  /\ UNCHANGED <<load, srv, sess, devices, tokens, online, busy, enrolled>>

(* The one-second sweep timer. *)
Sweep ==
  /\ srv = "running" /\ busy = None
  /\ leases' = lease_expire(leases)
  /\ directory' = Expire(directory)
  /\ UNCHANGED <<load, srv, sess, challenges, devices, tokens, online, busy,
                 enrolled>>

(* revoke_device, committed by an operator's process at any time. *)
RevokeDevice(d, g) ==
  /\ devices[d].status # "none" /\ g > devices[d].gen
  /\ devices' = [devices EXCEPT ![d].status = "revoked", ![d].gen = g]
  /\ UNCHANGED <<load, srv, sess, challenges, tokens, leases, directory,
                 online, busy, enrolled>>

(* finish_shutdown: the sockets are closed and the sessions forgotten, but *)
(* none is marked finished; each ends when its reads fail.                 *)
Shutdown ==
  /\ srv = "running" /\ busy = None
  /\ srv' = "stopped"
  /\ \E late \in SUBSET {c \in Conns : sess[c].st # "unused" /\ ~sess[c].fin} :
       sess' = [c \in Conns |-> [sess[c] EXCEPT !.late = c \in late]]
  /\ UNCHANGED <<load, challenges, devices, tokens, leases, directory, online,
                 busy, enrolled>>

(* The process dies and starts again: only the database survives. *)
Crash ==
  /\ sess' = [c \in Conns |-> IF sess[c].st = "unused" THEN Unused ELSE Gone]
  /\ challenges' = [kind \in {"enrollment", "login"} |-> Empty]
  /\ leases' = NoLeases(Devices, Tenants)
  /\ directory' = Empty
  /\ online' = [k \in Keys |-> None]
  /\ busy' = None
  /\ srv' = "running"
  /\ UNCHANGED <<load, devices, tokens, enrolled>>

Next ==
  \/ \E c \in Conns :
       \/ Accept(c) \/ Upgrade(c) \/ Finish(c) \/ Refuse(c)
       \/ \E late \in BOOLEAN : Written(c, late)
       \/ \E kind \in {"enrollment", "login"} : Challenge(c, kind)
       \/ \E t \in Tenants, valid \in BOOLEAN : EnrollRequest(c, t, valid)
       \/ \E t \in Tenants, g \in Gens, valid \in BOOLEAN :
            LoginRequest(c, g, t, valid)
       \/ Revoked(c) \/ Heartbeat(c) \/ EndpointQuery(c)
       \/ \E r \in load.records : EndpointPublish(c, r[1], r[2])
       \/ \E k \in Keys, within \in BOOLEAN : SignalingSend(c, k, within)
  \/ \E ok \in BOOLEAN : ConsumeToken(ok) \/ EnrollDevice(ok)
  \/ \E d \in Devices, g \in Gens : RevokeDevice(d, g)
  \/ Tick \/ Sweep \/ Shutdown \/ Crash

Spec == Init /\ [][Next]_vars

(***************************************************************************)
(* Properties.                                                             *)
(***************************************************************************)

TimeLeft(t, k) == IF k \in LiveKeys(t) THEN t[k].rem ELSE 0

(* session_cleanup: a key that is leased, listed in the directory or       *)
(* online belongs to a session that is logged in now, so a query never     *)
(* shows and signaling never reaches an endpoint nobody is connected for,  *)
(* however sessions of one key overlap, fail, are refused or reconnect.    *)
NoOrphans ==
  \A k \in Keys :
    \/ lease_get(leases, k) \/ k \in LiveKeys(directory) \/ online[k] # None
    => \E c \in Conns : /\ Mine(c) = k /\ ~sess[c].fin
                        /\ sess[c].st = "logged_in"

(* consume_bootstrap_token and enroll_device are two transactions: across  *)
(* failures, retries, crashes and an operator's commits between them, a    *)
(* token never activates more devices than the uses it was created with.   *)
TokenUsesHonoured ==
  \A t \in Tenants : enrolled[t] + tokens[t] <= Uses

(* A revocation that commits while an enrollment is under way is not       *)
(* undone by it: a revoked device becomes active again only by an          *)
(* enrollment that started after the revocation and saw it.                *)
RevocationSticks ==
  [][\A d \in Devices :
       devices[d].status = "revoked" /\ devices'[d].status = "active"
       => busy # None /\ busy.found = devices[d]]_vars

(* heyaki-wire-protocol.md:107 "by default a revoked device also loses its *)
(* existing control session": from the revocation on, whichever of its     *)
(* sessions are still open and whatever reads were already completed, the  *)
(* leases and directory entries of its keys only run out or go.            *)
RevokedOnlyAges ==
  [][\A k \in Keys :
       devices[Device(k)].status = "revoked"
       => /\ TimeLeft(leases'.entries, k) <= TimeLeft(leases.entries, k)
          /\ TimeLeft(directory', k) <= TimeLeft(directory, k)]_vars

(* m3b_relay_lease_test.cpp:71 names what unlink owes the table:           *)
(* "ExpiryRemoveAndRemoveDeviceMaintainIndexes".  An endpoint that is      *)
(* leased and published is in the answer to its own tenant's query.        *)
QueryListsOnline ==
  \A k \in Keys :
    lease_get(leases, k) /\ k \in LiveKeys(directory)
    => k \in QueryResult(leases.entries[k].tenant)

(* A revocation holds: no enrollment that had not seen it undoes it, and   *)
(* no session of the device keeps its keys alive (enroll_device, renew,    *)
(* endpoint_publish).                                                      *)
RevocationHolds == RevocationSticks /\ RevokedOnlyAges
===============================================================================
