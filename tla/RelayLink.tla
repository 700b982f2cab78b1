-------------------------------- MODULE RelayLink --------------------------------
(***************************************************************************)
(* The node's link to its relay: the login phases, the WSS client, poll,   *)
(* heartbeat and reconnect timers, publication, connect requests stashed   *)
(* until the caller's identity is known, and runtime reconfiguration (the  *)
(* relay part of src/client/node.cpp, src/client/relay_wss_client.cpp).    *)
(*                                                                         *)
(* The relay itself is external: it answers every request in order and     *)
(* delivers connect requests of one peer.  A client the node lets go is    *)
(* forgotten.  A timer is "armed", or "due" once it has expired and its    *)
(* handler is queued, when cancelling it comes too late.  Lengths of       *)
(* delays, texts and signatures are left out.                              *)
(***************************************************************************)
EXTENDS Naturals, Sequences

CONSTANTS
  LinkLoads,       \* what may happen: see LinkInit
  Nothing,
  SendCapacity,    \* send_capacity of the WSS client
  MissedLimit      \* missed_heartbeat_limit

VARIABLES
  course,   \* the load: how often each fault or call may still strike
  link      \* the node's relay state

(* A load counts what may still happen: losses of the connection, security *)
(* errors, heartbeats that come due, requests of the peer, dials to it,    *)
(* configurations set by the application, shutdown.  Its field "on" is the *)
(* configuration the node starts with, 0 for none; with "prompt" the relay *)
(* answers a heartbeat before the next is due, with "abrupt" it may close  *)
(* a connection as soon as it stands, with "issues" it issues ICE          *)
(* credentials.  The state is the one after begin_relay.                   *)
NewClient == [state |-> "connecting", in |-> <<>>, out |-> <<>>,
              security |-> FALSE]
LinkInit ==
  /\ course \in LinkLoads
  /\ LET up == course.on # 0
     IN link = [phase |-> IF up THEN "connecting" ELSE "disabled",
                on |-> course.on,
                client |-> IF up THEN NewClient ELSE Nothing,
                poll |-> IF up THEN {"armed"} ELSE {}, flag |-> up,
                poke |-> FALSE, retry |-> {}, beat |-> {},
                pending |-> FALSE, missed |-> 0, ice |-> FALSE, gen |-> 0,
                stash |-> Nothing, known |-> course.knows,
                attempt |-> "none"]

Terminal == {"failed", "stopped", "disabled"}

(***************************************************************************)
(* The WSS client.                                                         *)
(***************************************************************************)

Alive(s) == s.client # Nothing /\ s.client.state \in {"connecting", "ready"}

(* RelayWssClient::send refuses unless ready and below its capacity. *)
CanSend(s) ==
  /\ s.client # Nothing /\ s.client.state = "ready"
  /\ Len(s.client.out) < SendCapacity
send_relay_control(s, m) == [s EXCEPT !.client.out = Append(@, m)]

(* on_resolve, on_tcp, on_tls, on_handshake: the connection stands. *)
LinkConnected ==
  /\ link.client # Nothing /\ link.client.state = "connecting"
  /\ link' = [link EXCEPT !.client.state = "ready", !.poke = TRUE]
  /\ UNCHANGED course

(* fail: a broken connection, a timeout, or a certificate that does not    *)
(* verify; on_read: the relay closed the connection.  What had arrived can *)
(* still be received.                                                      *)
ClientFails ==
  /\ Alive(link) /\ course.losses > 0
  /\ \E state \in {"failed", "disconnected"} :
       /\ \/ state = "failed"
          \/ /\ link.client.state = "ready"
             /\ link.phase # "connecting" \/ course.abrupt
       /\ link' = [link EXCEPT !.client.state = state, !.client.out = <<>>,
                               !.poke = TRUE]
  /\ course' = [course EXCEPT !.losses = @ - 1]
PinMismatch ==
  /\ link.client # Nothing /\ link.client.state = "connecting"
  /\ course.refusals > 0
  /\ link' = [link EXCEPT !.client.state = "failed",
                          !.client.security = TRUE, !.poke = TRUE]
  /\ course' = [course EXCEPT !.refusals = @ - 1]

(* The relay reads a request and its answer arrives (drain_send, on_write, *)
(* on_read). *)
Answer(m) ==
  CASE m.k = "login_challenge" -> <<[k |-> "challenge_response"]>>
    [] m.k = "login_request" -> <<[k |-> "login_result"]>>
    [] m.k = "heartbeat" -> <<[k |-> "heartbeat_ack"]>>
    [] m.k = "publish" -> <<[k |-> "publish_ack", gen |-> m.gen]>>
    [] m.k = "query" -> <<[k |-> "query_result"]>>
    [] OTHER -> <<>>                               \* signaling_send
RelayAnswers ==
  /\ link.client # Nothing /\ link.client.state = "ready"
  /\ link.client.out # <<>>
  /\ LET m == Head(link.client.out)
     IN link' = [link EXCEPT !.client.out = Tail(@),
                             !.client.in = @ \o Answer(m),
                             !.poke = @ \/ Answer(m) # <<>>]
  /\ UNCHANGED course
Deliver(m) ==
  /\ link.client # Nothing /\ link.client.state = "ready"
  /\ link' = [link EXCEPT !.client.in = Append(@, m), !.poke = TRUE]
PeerRequests ==
  /\ course.requests > 0 /\ link.phase = "ready"
  /\ Deliver([k |-> "connect_request", id |-> course.requests])
  /\ course' = [course EXCEPT !.requests = @ - 1]
RelayRefuses ==
  /\ course.refusals > 0
  /\ Deliver([k |-> "control_error"])
  /\ course' = [course EXCEPT !.refusals = @ - 1]

(***************************************************************************)
(* Timers of the node.  Cancelling a wait queues its handler, with an      *)
(* error; the one of the poll timer clears relay_poll_timer_active.        *)
(***************************************************************************)

Cancelled(timer) ==
  (timer \ {"armed"}) \cup (IF "armed" \in timer THEN {"stale"} ELSE {})

schedule_relay_poll(s) ==
  IF s.flag \/ s.on = 0 \/ s.phase \in {"failed", "stopped"} THEN s
  ELSE [s EXCEPT !.flag = TRUE, !.poll = Cancelled(@) \cup {"armed"}]

schedule_relay_reconnect(s) ==
  IF s.phase # "connecting" \/ s.on = 0 THEN s
  ELSE [s EXCEPT !.retry = @ \cup {"armed"}]

(***************************************************************************)
(* Signaling over the relay, as far as the link is concerned: the node has *)
(* no attempt, one that depends on relay signaling, or a session.          *)
(***************************************************************************)

(* The relay route exists only if the node started with a relay. *)
Routed(s) == course.on # 0 /\ s.phase = "ready" /\ CanSend(s)
Signals(s) ==
  IF Routed(s) THEN send_relay_control(s, [k |-> "signaling_send"]) ELSE s

(* A connect request reaches the coordinator: the node admits it if it     *)
(* knows the caller and has no attempt, and keeps its attempt even if the  *)
(* accept cannot be sent. *)
deliver_relay_envelope(s) ==
  IF s.known /\ s.attempt = "none"
  THEN Signals([s EXCEPT !.attempt = "relay"]) ELSE Signals(s)

DeliverStash(s) ==
  IF s.stash = Nothing THEN s
  ELSE deliver_relay_envelope([s EXCEPT !.stash = Nothing])
EndAttempts(s) ==
  IF s.attempt = "relay" THEN [s EXCEPT !.attempt = "none"] ELSE s

publish_and_query(s) ==
  LET t == [s EXCEPT !.gen = @ + 1]
  IN  IF CanSend(t)
      THEN send_relay_control(t, [k |-> "publish", gen |-> t.gen]) ELSE t

stash_relay_connect_request(s, id) ==
  IF s.stash = id THEN s
  ELSE publish_and_query([s EXCEPT !.stash = id])
release_stashed(s) == IF s.known THEN DeliverStash(s) ELSE s

(***************************************************************************)
(* The phases of the link.                                                 *)
(***************************************************************************)

(* Stashed requests are delivered first, so that the attempts they make    *)
(* are among those that end.                                               *)
MutantRelayFailed(s, security) ==
  LET gone == [DeliverStash(EndAttempts([s EXCEPT !.client = Nothing]))
                 EXCEPT !.pending = FALSE, !.beat = @ \ {"armed"},
                        !.ice = FALSE]
  IN  IF s.phase \in {"stopped", "disabled"} THEN s
      ELSE IF security
      THEN [gone EXCEPT !.phase = "failed", !.flag = FALSE,
                        !.poll = Cancelled(@)]
      ELSE schedule_relay_reconnect([gone EXCEPT !.phase = "connecting"])
relay_failed(s, security) ==
  LET gone == [EndAttempts(DeliverStash([s EXCEPT !.client = Nothing]))
                 EXCEPT !.pending = FALSE, !.beat = @ \ {"armed"},
                        !.ice = FALSE]
  IN  IF s.phase \in {"stopped", "disabled"} THEN s
      ELSE IF security
      THEN [gone EXCEPT !.phase = "failed", !.flag = FALSE,
                        !.poll = Cancelled(@)]
      ELSE schedule_relay_reconnect([gone EXCEPT !.phase = "connecting"])

start_relay_connect(s) ==
  IF s.on = 0 \/ s.phase \in {"failed", "stopped"} THEN s
  ELSE schedule_relay_poll(
         [s EXCEPT !.phase = "connecting", !.client = NewClient])

SendOrFail(s, m) ==
  IF CanSend(s) THEN send_relay_control(s, m) ELSE relay_failed(s, FALSE)

relay_heartbeat_tick(s) ==
  LET t == IF s.pending THEN [s EXCEPT !.missed = @ + 1] ELSE s
  IN  IF s.phase # "ready" THEN s
      ELSE IF t.missed >= MissedLimit \/ ~CanSend(t)
      THEN relay_failed(t, FALSE)
      ELSE [send_relay_control(t, [k |-> "heartbeat"])
              EXCEPT !.pending = TRUE, !.beat = @ \cup {"armed"}]

(* What the node does on each answer of the relay. *)
ChallengeResponse(s) ==
  SendOrFail([s EXCEPT !.phase = "awaiting_login"], [k |-> "login_request"])

(* An ICE configuration that has expired is dropped and the last one kept. *)
apply_relay_ice_config(s) == [s EXCEPT !.ice = @ \/ course.issues]

LoggedIn(s) ==
  [apply_relay_ice_config(s) EXCEPT !.phase = "ready", !.missed = 0,
                                    !.pending = FALSE]
MutantLoginResult(s) == publish_and_query(relay_heartbeat_tick(LoggedIn(s)))
LoginResult(s) == relay_heartbeat_tick(LoggedIn(s))

HeartbeatAck(s) ==
  LET t == apply_relay_ice_config(
             [s EXCEPT !.missed = 0, !.pending = FALSE])
  IN  IF CanSend(t) THEN publish_and_query(t)
      ELSE relay_failed([t EXCEPT !.gen = @ + 1], FALSE)

PublishAck(s, gen) ==
  IF gen # s.gen THEN relay_failed(s, TRUE)   \* generation mismatch
  ELSE SendOrFail(s, [k |-> "query"])

(* admit_relay_endpoints: the peer is in the relay's directory. *)
QueryResult(s) == release_stashed([s EXCEPT !.known = TRUE])

ConnectRequest(s, id) ==
  IF s.known THEN deliver_relay_envelope(s)
  ELSE stash_relay_connect_request(s, id)

handle_relay_message(s, m) ==
  IF m.k = "control_error" THEN relay_failed(s, TRUE)
  ELSE CASE s.phase = "awaiting_challenge" ->
              IF m.k = "challenge_response" THEN ChallengeResponse(s)
              ELSE relay_failed(s, TRUE)
         [] s.phase = "awaiting_login" ->
              IF m.k = "login_result" THEN LoginResult(s)
              ELSE relay_failed(s, TRUE)
         [] s.phase = "ready" ->
              (CASE m.k = "heartbeat_ack" -> HeartbeatAck(s)
                 [] m.k = "publish_ack" -> PublishAck(s, m.gen)
                 [] m.k = "query_result" -> QueryResult(s)
                 [] m.k = "connect_request" -> ConnectRequest(s, m.id)
                 [] OTHER -> relay_failed(s, TRUE))
         [] OTHER -> s

(* relay_poll: connecting, it looks at the client's state; later it takes  *)
(* every message that has arrived, and then looks at the state again.      *)
RECURSIVE Drained(_)
Drained(s) ==
  IF s.client = Nothing THEN s
  ELSE IF s.client.in = <<>>
  THEN IF s.client.state \in {"failed", "disconnected"}
       THEN relay_failed(s, s.client.security) ELSE schedule_relay_poll(s)
  ELSE LET t == handle_relay_message([s EXCEPT !.client.in = Tail(@)],
                                     Head(s.client.in))
       IN  IF t.phase \in {"failed", "connecting"} THEN t ELSE Drained(t)

relay_poll(s) ==
  IF s.on = 0 \/ s.phase \in Terminal \/ s.client = Nothing THEN s
  ELSE IF s.phase # "connecting" THEN Drained(s)
  ELSE CASE s.client.state = "ready" ->
              schedule_relay_poll(
                SendOrFail([s EXCEPT !.phase = "awaiting_challenge"],
                           [k |-> "login_challenge"]))
         [] s.client.state = "failed" -> relay_failed(s, s.client.security)
         [] OTHER -> schedule_relay_poll(s)

(***************************************************************************)
(* Runtime reconfiguration and shutdown.                                   *)
(***************************************************************************)

close_relay_control(s) ==
  [s EXCEPT !.poll = Cancelled(@), !.beat = @ \ {"armed"},
            !.retry = @ \ {"armed"}, !.flag = FALSE, !.pending = FALSE,
            !.client = Nothing]
sever_relay_signaling(s) == EndAttempts(DeliverStash(s))

disable_relay_control(s) ==
  [sever_relay_signaling(close_relay_control(s))
     EXCEPT !.on = 0, !.phase = "disabled", !.ice = FALSE]

apply_relay_update(s, config) ==
  IF config = 0
  THEN IF s.phase = "disabled" /\ s.client = Nothing THEN s
       ELSE disable_relay_control(s)
  ELSE IF s.on = config /\ s.phase \notin Terminal THEN s
  ELSE start_relay_connect(
         [sever_relay_signaling(close_relay_control(s))
            EXCEPT !.on = config, !.phase = "connecting"])

stop_relay(s) ==
  IF s.phase \in {"stopped", "disabled"} THEN [s EXCEPT !.client = Nothing]
  ELSE [close_relay_control(s) EXCEPT !.phase = "stopped",
                                      !.pending = s.pending]

(***************************************************************************)
(* Steps.  The strand runs handlers in the order they were queued: one     *)
(* that is due runs before what comes later, but a call of the application *)
(* may have been queued before it.                                         *)
(***************************************************************************)

NoneDue == \A t \in {link.poll, link.retry, link.beat} : "due" \notin t
Runs(s) == link' = s /\ UNCHANGED course

PollDue ==
  /\ "armed" \in link.poll
  /\ Runs([link EXCEPT !.poll = (@ \ {"armed"}) \cup {"due"}])
PollHandler ==
  /\ "due" \in link.poll /\ "due" \notin link.retry \cup link.beat
  /\ Runs(relay_poll([link EXCEPT !.poll = @ \ {"due"}, !.flag = FALSE]))
PollAborted ==
  /\ "stale" \in link.poll
  /\ Runs([link EXCEPT !.poll = @ \ {"stale"}, !.flag = FALSE])
PokeHandler ==           \* poke_relay_activity
  /\ NoneDue /\ link.poke
  /\ Runs(relay_poll([link EXCEPT !.poke = FALSE]))

RetryDue ==
  /\ "armed" \in link.retry
  /\ Runs([link EXCEPT !.retry = {"due"}])
MutantRetryHandler ==
  /\ "due" \in link.retry
  /\ Runs(IF link.client = Nothing
          THEN [start_relay_connect([link EXCEPT !.retry = @ \ {"due"}])
                  EXCEPT !.poll = link.poll]
          ELSE [link EXCEPT !.retry = @ \ {"due"}])
RetryHandler ==
  /\ "due" \in link.retry
  /\ Runs(start_relay_connect([link EXCEPT !.retry = @ \ {"due"}]))

HeartbeatDue ==
  /\ "armed" \in link.beat /\ course.beats > 0
  /\ course.prompt => ~link.pending
  /\ link' = [link EXCEPT !.beat = {"due"}]
  /\ course' = [course EXCEPT !.beats = @ - 1]
HeartbeatHandler ==
  /\ "due" \in link.beat
  /\ Runs(relay_heartbeat_tick([link EXCEPT !.beat = @ \ {"due"}]))

StashDeadline ==
  /\ link.stash # Nothing
  /\ Runs(DeliverStash(link))
LanPresence ==           \* the peer becomes known by LAN discovery
  /\ NoneDue /\ ~link.known /\ link.stash # Nothing
  /\ Runs([link EXCEPT !.known = TRUE])
ExpiryTick ==
  /\ NoneDue /\ link.known /\ link.stash # Nothing
  /\ Runs(release_stashed(link))

StartDial ==
  /\ NoneDue /\ course.dials > 0
  /\ link.known /\ link.attempt = "none" /\ Routed(link)
  /\ link' = [Signals(link) EXCEPT !.attempt = "relay"]
  /\ course' = [course EXCEPT !.dials = @ - 1]
SessionStarts ==
  /\ NoneDue /\ link.attempt = "relay" /\ link.phase = "ready"
  /\ Runs([link EXCEPT !.attempt = "session"])

UpdateRelay ==
  /\ course.updates # <<>> /\ link.phase # "stopped"
  /\ link' = apply_relay_update(link, Head(course.updates))
  /\ course' = [course EXCEPT !.updates = Tail(@)]
StopRelay ==
  /\ course.stops
  /\ link' = stop_relay(link)
  /\ course' = [course EXCEPT !.stops = FALSE, !.updates = <<>>]

StrandTask ==
  PollHandler \/ PollAborted \/ RetryHandler \/ HeartbeatHandler
RelayTask == LinkConnected \/ RelayAnswers

LinkNext ==
  \/ StrandTask \/ RelayTask \/ PokeHandler
  \/ PollDue \/ RetryDue \/ HeartbeatDue \/ StashDeadline
  \/ ClientFails \/ PinMismatch \/ PeerRequests \/ RelayRefuses
  \/ LanPresence \/ ExpiryTick \/ StartDial \/ SessionStarts
  \/ UpdateRelay \/ StopRelay

linkVars == <<course, link>>

(* The strand runs its handlers, timers expire, and a relay that is        *)
(* connected answers.  That activity of the client wakes the node is not   *)
(* needed: the poll timer is the watchdog.                                 *)
LinkFairness ==
  /\ WF_linkVars(StrandTask) /\ WF_linkVars(RelayTask)
  /\ WF_linkVars(PollDue) /\ WF_linkVars(RetryDue \/ StashDeadline)

(***************************************************************************)
(* Properties.                                                             *)
(***************************************************************************)

(* An enabled link comes up: every loss is followed by a reconnect and the *)
(* polling that drives the login is never lost, whatever timers were       *)
(* cancelled or replaced meanwhile (schedule_relay_poll,                   *)
(* schedule_relay_reconnect, apply_relay_update).  A relay that closes     *)
(* without a word right after the handshake is excluded: the poll takes    *)
(* that for a client still connecting, for good.                           *)
LinkRecovers ==
  ~course.abrupt => []<>(link.on = 0 \/ link.phase \in {"ready", "failed", "stopped"})

(* What depends on relay signaling goes with the link: when it is down no  *)
(* attempt still signals over it, no request waits for it, and no ICE      *)
(* credential it issued is kept (relay_failed, sever_relay_signaling,      *)
(* disable_relay_control).                                                 *)
NothingOutlivesLink ==
  link.phase \notin {"ready", "stopped"} =>
    /\ link.attempt # "relay" /\ link.stash = Nothing
    /\ link.ice => course.replaces

(* "The refresh is best effort" (stash_relay_connect_request): a relay     *)
(* that answers every request in order and sends no error is never given   *)
(* up for a protocol violation, as long as the callers are known.          *)
HonestRelayKept == course.honest /\ course.knows => link.phase # "failed"

(* The same for unknown callers.  The code fails it: the refresh publishes *)
(* again while the acknowledgement of the last publication is under way,   *)
(* whose older generation then counts as a violation.                      *)
HonestRelayAlwaysKept == course.honest => link.phase # "failed"

(* The link's state tells the truth about the relay: nothing outlives it,  *)
(* and it is given up only for a relay that broke the protocol.            *)
LinkSound == NothingOutlivesLink /\ HonestRelayKept
================================================================================
