------------------------------- MODULE PeerConnect -------------------------------
(***************************************************************************)
(* How two nodes reach an authenticated session: duplicate LAN connections *)
(* and their arbitration, the dialogue of the signaling coordinators over  *)
(* the LAN or the relay, glare of two dials, and the transport and session *)
(* that result (src/client/signaling_coordinator.cpp and the connection    *)
(* part of src/client/node.cpp).                                           *)
(*                                                                         *)
(* A line carries messages: <<n, k>> is the k-th LAN connection node n     *)
(* dialled, Relay is the relay.  A request id is <<n, k>>, the k-th        *)
(* attempt node n began.  Signatures, replay and rate admission of two     *)
(* honest nodes always pass and are left out, as are the texts of          *)
(* descriptions and candidates; one candidate stands for all.              *)
(***************************************************************************)
EXTENDS NodePair, Naturals, Sequences, FiniteSets

CONSTANT ConnectLoads   \* what may happen: see ConnectInit

VARIABLES
  dial,      \* the load, fixed
  conn,      \* connections: per node, the LAN connections it holds
  active,    \* active_connections: the connection arbitration settled on
  wire,      \* messages on their way, per line and reader
  online,    \* the relay link of the node is ready
  attempt,   \* peer_attempts and peer_attempt_by_endpoint
  coord,     \* attempts_ of the node's signaling coordinator
  hello,     \* session hello on its way to the node: the request id
  dials,     \* dials so far
  drawn      \* request ids drawn so far

dialVars == <<conn, active, wire, online, attempt, coord, hello, dials, drawn>>

MaxDials == 2
Lan == Ends \X (1..MaxDials)
Relay == <<"relay", 0>>
Lines == Lan \cup {Relay}

(* A load says which routes each node dials, whether links and timers may  *)
(* fail, whether the relay's send queue may be full, and whether local     *)
(* candidates may still appear when the session is up.                     *)
ConnectInit ==
  /\ dial \in ConnectLoads
  /\ conn = [n \in Ends |-> <<>>]
  /\ active = [n \in Ends |-> None]
  /\ wire = [c \in Lines |-> [n \in Ends |-> <<>>]]
  /\ online = [n \in Ends |-> TRUE]
  /\ attempt = [n \in Ends |-> None]
  /\ coord = [n \in Ends |-> {}]
  /\ hello = [n \in Ends |-> None]
  /\ dials = [n \in Ends |-> 0]
  /\ drawn = [n \in Ends |-> 0]

(* Handlers are operators from state to state. *)
DialNow == [conn |-> conn, active |-> active, wire |-> wire,
            online |-> online, attempt |-> attempt, coord |-> coord,
            hello |-> hello, dials |-> dials, drawn |-> drawn]
DialBecomes(s) ==
  /\ conn' = s.conn /\ active' = s.active /\ wire' = s.wire
  /\ online' = s.online /\ attempt' = s.attempt /\ coord' = s.coord
  /\ hello' = s.hello /\ dials' = s.dials /\ drawn' = s.drawn
  /\ UNCHANGED dial

Held(s, n, c) == c \in DOMAIN s.conn[n]
Without(f, c) == [d \in DOMAIN f \ {c} |-> f[d]]
With(f, c, v) == [d \in DOMAIN f \cup {c} |-> IF d = c THEN v ELSE f[d]]
Inbound(n, c) == c[1] # n

Put(s, c, n, m) ==     \* m travels on c to n; a closed end loses it
  IF c # Relay /\ ~Held(s, n, c) THEN s
  ELSE [s EXCEPT !.wire[c][n] = Append(@, m)]

(***************************************************************************)
(* Attempts of the node and of its coordinator.                            *)
(***************************************************************************)

find(s, n, id) == {r \in s.coord[n] : r.id = id}
Forget(s, n, id) == [s EXCEPT !.coord[n] = @ \ find(s, n, id)]
Store(s, n, r) == [Forget(s, n, r.id) EXCEPT !.coord[n] = @ \cup {r}]

Mine(s, n, id) == s.attempt[n] # None /\ s.attempt[n].id = id

(* fail_peer_attempt: cancel_attempt, close the transport, forget it. *)
fail_peer_attempt(s, n, id) ==
  IF ~Mine(s, n, id) THEN s
  ELSE [Forget(s, n, id) EXCEPT !.attempt[n] = None]

(* send_via_route: over the active LAN connection, or over the relay.      *)
(* Result: whether the route took the message, and the state.              *)
Sendable(s, n, route) ==
  IF route = "lan" THEN s.active[n] # None ELSE s.online[n]
send_via_route(s, n, route, m) ==
  Put(s, IF route = "lan" THEN s.active[n] ELSE Relay, Peer(n), m)

NewAttempt(id, route, initiator) ==
  [id |-> id, route |-> route, init |-> initiator, tp |-> FALSE,
   desc |-> None, ready |-> FALSE, cand |-> "none", sess |-> "none"]

(* begin_peer_attempt and the coordinator's begin_attempt. *)
begin_peer_attempt(s, n, route) ==
  LET id == <<n, s.drawn[n] + 1>>
      out == send_via_route(s, n, route, [k |-> "connect_request", id |-> id])
  IN  IF \/ s.attempt[n] # None
         \/ \E r \in s.coord[n] : ~r.inbound
         \/ ~Sendable(s, n, route)
      THEN s
      ELSE [Store(out, n, [id |-> id, inbound |-> FALSE, route |-> route,
                           phase |-> "requesting"])
              EXCEPT !.attempt[n] = NewAttempt(id, route, TRUE),
                     !.drawn[n] = @ + 1]

(* maybe_begin_peer_attempt: only the offer owner, and only once exactly   *)
(* one authenticated connection remains and no duplicate is settling.      *)
Settling(s, n) ==
  \E c \in DOMAIN s.conn[n] \ {s.active[n]} :
    s.conn[n][c].known /\ s.conn[n][c].state # "authenticated"
MutantMaybeBegin(s, n) ==
  IF is_lan_offer_owner(n) /\ s.attempt[n] = None /\ s.active[n] # None
  THEN begin_peer_attempt(s, n, "lan") ELSE s
maybe_begin_peer_attempt(s, n) ==
  IF /\ is_lan_offer_owner(n)
     /\ s.attempt[n] = None /\ s.active[n] # None
     /\ ~Settling(s, n)
  THEN begin_peer_attempt(s, n, "lan")
  ELSE s

(***************************************************************************)
(* LAN connections.                                                        *)
(***************************************************************************)

retire_connection(s, n, c) ==
  IF ~Held(s, n, c) THEN s
  ELSE [s EXCEPT !.conn[n] = Without(@, c),
                 !.active[n] = IF @ = c THEN None ELSE @,
                 !.wire[c][n] = <<>>]

close_peer(s, n) ==
  [s EXCEPT !.conn[n] = <<>>, !.active[n] = None,
            !.wire = [c \in Lines |->
              IF c \in DOMAIN s.conn[n] THEN [@[c] EXCEPT ![n] = <<>>]
              ELSE @[c]]]

(* connection_failed, before authentication; signaling_failed, after it,   *)
(* also ends the attempt that depends on the connection.                   *)
Dropped(s, n, c) ==
  IF s.active[n] = c THEN retire_connection(s, n, c)
  ELSE maybe_begin_peer_attempt(retire_connection(s, n, c), n)
connection_failed(s, n, c) == IF Held(s, n, c) THEN Dropped(s, n, c) ELSE s
signaling_failed(s, n, c) ==
  IF ~Held(s, n, c) THEN s
  ELSE Dropped(IF s.attempt[n] # None /\ s.attempt[n].sess = "none"
               THEN fail_peer_attempt(s, n, s.attempt[n].id) ELSE s, n, c)

(* start_outbound_connection: over the relay the attempt begins at once;   *)
(* over the LAN a connection is dialled, accepted by the peer, and carries *)
(* the initial hello.                                                      *)
start_outbound_connection(s, n, route) ==
  LET c == <<n, s.dials[n] + 1>>
      counted == [s EXCEPT !.dials[n] = @ + 1]
  IN  IF route = "relay" THEN begin_peer_attempt(counted, n, "relay")
      ELSE IF \E d \in DOMAIN s.conn[n] : s.conn[n][d].known THEN counted
      ELSE [counted EXCEPT
              !.conn[n] = With(@, c, [known |-> TRUE, state |-> "hello"]),
              !.conn[Peer(n)] = With(@, c, [known |-> FALSE,
                                            state |-> "accepted"]),
              !.wire[c][Peer(n)] = <<[k |-> "initial"]>>]

Connect(n) ==
  /\ dials[n] < Len(dial.routes[n])
  /\ DialBecomes(start_outbound_connection(DialNow, n,
                                           dial.routes[n][dials[n] + 1]))

(* authenticate_connection: of two connections to the peer the one dialled *)
(* by the offer owner is kept.                                             *)
Preferred(n, c) == Inbound(n, c) # is_lan_offer_owner(n)
Activated(s, n, c) ==
  maybe_begin_peer_attempt(
    [s EXCEPT !.conn[n][c].state = "authenticated", !.active[n] = c], n)
authenticate_connection(s, n, c) ==
  LET e == s.active[n]
  IN  IF ~Held(s, n, c) THEN s
      ELSE IF e \in {None, c} THEN Activated(s, n, c)
      ELSE IF ~Preferred(n, c) \/ Preferred(n, e)
           THEN maybe_begin_peer_attempt(retire_connection(s, n, c), n)
      ELSE Activated(retire_connection(s, n, e), n, c)

Reads(n, c, k) ==
  /\ conn[n][c].state \in {"hello", "accepted"}
  /\ wire[c][n] # <<>> /\ Head(wire[c][n]).k = k
Rest(n, c) == [DialNow EXCEPT !.wire[c][n] = Tail(@)]

handle_initial_hello(n) ==
  \E c \in DOMAIN conn[n] :
    /\ Reads(n, c, "initial")
    /\ DialBecomes(Put([Rest(n, c) EXCEPT !.conn[n][c].known = TRUE],
                       c, Peer(n), [k |-> "response"]))

(* The final hello is written before the connection is authenticated here. *)
handle_response_hello(n) ==
  \E c \in DOMAIN conn[n] :
    /\ Reads(n, c, "response")
    /\ DialBecomes(Put([Rest(n, c) EXCEPT !.conn[n][c].state = "writing"],
                       c, Peer(n), [k |-> "final"]))
FinalWritten(n) ==
  \E c \in DOMAIN conn[n] :
    /\ conn[n][c].state = "writing"
    /\ DialBecomes(authenticate_connection(DialNow, n, c))

handle_final_hello(n) ==
  \E c \in DOMAIN conn[n] :
    /\ Reads(n, c, "final")
    /\ DialBecomes(authenticate_connection(Rest(n, c), n, c))

(***************************************************************************)
(* The dialogue of the coordinators.  A handler's result says whether the  *)
(* message was taken and what the state is then.                           *)
(***************************************************************************)

Taken(s) == [ok |-> TRUE, s |-> s]
Refused(s) == [ok |-> FALSE, s |-> s]

(* start_webrtc_transport, called back by the coordinator: the transport   *)
(* will report its local description. *)
start_webrtc_transport(s, n, id, description) ==
  IF ~Mine(s, n, id) \/ s.attempt[n].tp THEN fail_peer_attempt(s, n, id)
  ELSE [s EXCEPT !.attempt[n].tp = TRUE, !.attempt[n].desc = description]

(* admit_inbound_attempt: in a glare of two dials the offer owner keeps    *)
(* its own and the other side gives its own up.                            *)
Dialing(s, n) == s.attempt[n].init /\ ~s.attempt[n].tp
Admits(s, n) ==
  \/ s.attempt[n] = None
  \/ Dialing(s, n) /\ ~is_lan_offer_owner(n)
admit_inbound_attempt(s, n, id, route) ==
  LET free == IF s.attempt[n] = None THEN s
              ELSE fail_peer_attempt(s, n, s.attempt[n].id)
  IN  [free EXCEPT !.attempt[n] = NewAttempt(id, route, FALSE)]

(* The node's attempt is made before the accept is sent, the coordinator's *)
(* after it. *)
handle_connect_request(s, n, route, id) ==
  LET in == admit_inbound_attempt(s, n, id, route)
      reply(t, k) == send_via_route(t, n, route, [k |-> k, id |-> id])
  IN  IF find(s, n, id) # {} THEN {Refused(s)}
      ELSE IF ~Admits(s, n) THEN
        {Refused(IF Sendable(s, n, route) THEN reply(s, "connect_deny") ELSE s)}
      ELSE (IF Sendable(in, n, route)
            THEN {Taken(Store(reply(in, "connect_accept"), n,
                              [id |-> id, inbound |-> TRUE, route |-> route,
                               phase |-> "responding"]))}
            ELSE {Refused(in)})
           \cup (IF route = "relay" /\ dial.full THEN {Refused(in)} ELSE {})

Expects(s, n, route, id, inbound, phases) ==
  \E r \in find(s, n, id) :
    r.inbound = inbound /\ r.route = route /\ r.phase \in phases
Phase(s, n, id, phase) ==
  [s EXCEPT !.coord[n] =
     {IF r.id = id THEN [r EXCEPT !.phase = phase] ELSE r : r \in @}]

handle_connect_accept(s, n, route, id) ==
  IF ~Expects(s, n, route, id, FALSE, {"requesting"}) THEN Refused(s)
  ELSE Taken(start_webrtc_transport(Phase(s, n, id, "accepted"), n, id, "offer"))

handle_connect_deny(s, n, route, id) ==
  IF ~\E r \in find(s, n, id) : ~r.inbound /\ r.route = route THEN Refused(s)
  ELSE Taken(fail_peer_attempt(Forget(s, n, id), n, id))

handle_signed_offer(s, n, route, id) ==
  IF ~Expects(s, n, route, id, TRUE, {"responding"}) THEN Refused(s)
  ELSE Taken(start_webrtc_transport(Phase(s, n, id, "offered"), n, id, "answer"))

(* send_local_candidate of the coordinator, called for a candidate of the  *)
(* transport: a failure fails the attempt, whatever has become of it.      *)
send_local_candidate(s, n) ==
  LET a == s.attempt[n]
      known == \E r \in find(s, n, a.id) : r.phase \in {"answered", "candidates"}
  IN  IF ~known \/ ~Sendable(s, n, a.route) THEN fail_peer_attempt(s, n, a.id)
      ELSE send_via_route(
             Phase([s EXCEPT !.attempt[n].cand = "sent"], n, a.id, "candidates"),
             n, a.route, [k |-> "signed_candidate", id |-> a.id])

(* flush_local_candidates, once candidates may be signed. *)
flush_local_candidates(s, n) ==
  LET ready == [s EXCEPT !.attempt[n].ready = TRUE]
  IN  IF s.attempt[n].cand = "held" THEN send_local_candidate(ready, n)
      ELSE ready

start_verified_peer_session(s, n) ==
  IF s.attempt[n] = None THEN s
  ELSE [s EXCEPT !.attempt[n].sess = "started"]

handle_signed_answer(s, n, route, id) ==
  LET t == Phase(s, n, id, "answered")
  IN  IF ~Expects(s, n, route, id, FALSE, {"offered"}) THEN Refused(s)
      ELSE IF ~Mine(s, n, id) THEN Taken(t)
      ELSE Taken(start_verified_peer_session(flush_local_candidates(t, n), n))

handle_signed_candidate(s, n, route, id) ==
  IF ~\E inb \in BOOLEAN :
        Expects(s, n, route, id, inb, {"answered", "candidates"})
  THEN Refused(s)
  ELSE Taken(Phase(s, n, id, "candidates"))

handle_message(s, n, route, m) ==
  CASE m.k = "connect_request" -> handle_connect_request(s, n, route, m.id)
    [] m.k = "connect_accept" -> {handle_connect_accept(s, n, route, m.id)}
    [] m.k = "connect_deny" -> {handle_connect_deny(s, n, route, m.id)}
    [] m.k = "signed_offer" -> {handle_signed_offer(s, n, route, m.id)}
    [] m.k = "signed_answer" -> {handle_signed_answer(s, n, route, m.id)}
    [] OTHER -> {handle_signed_candidate(s, n, route, m.id)}

(* start_signaling_read and dispatch_signaling_callback: a message that is *)
(* refused fails the LAN connection it came on.                            *)
ReadSignaling(n) ==
  \E c \in DOMAIN conn[n] :
    /\ conn[n][c].state = "authenticated" /\ wire[c][n] # <<>>
    /\ \E r \in handle_message(Rest(n, c), n, "lan", Head(wire[c][n])) :
         DialBecomes(IF r.ok THEN r.s ELSE signaling_failed(r.s, n, c))

(* deliver_relay_envelope: a refusal is recorded and nothing else. *)
ReadRelay(n) ==
  /\ online[n] /\ wire[Relay][n] # <<>>
  /\ \E r \in handle_message(Rest(n, Relay), n, "relay",
                             Head(wire[Relay][n])) :
       DialBecomes(r.s)

(***************************************************************************)
(* The transport and the session on it.                                    *)
(***************************************************************************)

(* on_local_description of the transport.  The coordinator signs and sends *)
(* the description if the dialogue is where it should be, else the attempt *)
(* fails; after an answer candidates may be signed and the session starts. *)
Sends(s, n, kind, from, to) ==
  LET a == s.attempt[n]
  IN  IF \/ ~Expects(s, n, a.route, a.id, ~a.init, {from})
         \/ ~Sendable(s, n, a.route)
      THEN fail_peer_attempt(s, n, a.id)
      ELSE send_via_route(Phase(s, n, a.id, to), n, a.route,
                          [k |-> kind, id |-> a.id])
send_local_offer(s, n) == Sends(s, n, "signed_offer", "accepted", "offered")
send_local_answer(s, n) == Sends(s, n, "signed_answer", "offered", "answered")

LocalDescription(n) ==
  /\ attempt[n] # None /\ attempt[n].desc # None
  /\ LET s == [DialNow EXCEPT !.attempt[n].desc = None]
         t == send_local_answer(s, n)
     IN DialBecomes(IF attempt[n].desc = "offer" THEN send_local_offer(s, n)
                    ELSE IF t.attempt[n] = None THEN t
                    ELSE start_verified_peer_session(
                           flush_local_candidates(t, n), n))

(* on_local_candidate; gathering may be over before the session starts or  *)
(* go on beside it.                                                        *)
LocalCandidate(n) ==
  /\ attempt[n] # None /\ attempt[n].tp
  /\ attempt[n].desc = None /\ attempt[n].cand = "none"
  /\ dial.late \/ attempt[n].sess = "none"
  /\ DialBecomes(IF attempt[n].ready THEN send_local_candidate(DialNow, n)
                 ELSE [DialNow EXCEPT !.attempt[n].cand = "held"])

Matched(n) ==      \* both nodes hold the same request with a session on it
  /\ attempt[n] # None /\ attempt[Peer(n)] # None
  /\ attempt[n].id = attempt[Peer(n)].id
  /\ "none" \notin {attempt[n].sess, attempt[Peer(n)].sess}

(* The initiator's control channel opens and its session hello goes out. *)
SessionOpens(n) ==
  /\ Matched(n) /\ attempt[n].init /\ attempt[n].sess = "started"
  /\ DialBecomes([DialNow EXCEPT !.attempt[n].sess = "greeted",
                                 !.hello[Peer(n)] = attempt[n].id])

(* The peer's hello authenticates the session, or leaves it restricted to  *)
(* pairing: signaling is over (peer_session_changed).                      *)
peer_session_changed(s, n) ==
  close_peer(Forget([s EXCEPT !.attempt[n].sess = "up"], n, s.attempt[n].id), n)
SessionHello(n) ==
  /\ hello[n] # None
  /\ LET s == [DialNow EXCEPT !.hello[n] = None]
         t == IF attempt[n] # None /\ attempt[n].sess = "started"
              THEN [s EXCEPT !.hello[Peer(n)] = attempt[n].id] ELSE s
     IN DialBecomes(IF Mine(s, n, hello[n])
                    THEN peer_session_changed(t, n) ELSE s)

(***************************************************************************)
(* Losses and time.                                                        *)
(***************************************************************************)

(* The transport fails, or the peer closed its end of it: observed by the  *)
(* session, or by check_peer_transport_failures.  The loss of an           *)
(* authenticated session is followed by one dial if the peer is to be      *)
(* connected automatically (maybe_reestablish_peer_session).               *)
TransportLost(n) ==
  /\ attempt[n] # None /\ attempt[n].tp
  /\ dial.loss \/ ~Mine(DialNow, Peer(n), attempt[n].id)
  /\ LET s == fail_peer_attempt(DialNow, n, attempt[n].id)
     IN DialBecomes(
          IF attempt[n].sess = "up" /\ dial.auto # None /\ dials[n] < MaxDials
          THEN start_outbound_connection(s, n, dial.auto) ELSE s)

(* The peer closed a connection: what it had sent may still be read first. *)
(* An end of file retires the connection, anything else fails it.          *)
ConnectionClosed(n) ==
  \E c \in DOMAIN conn[n] :
    /\ ~Held(DialNow, Peer(n), c)
    /\ \/ conn[n][c].state # "authenticated"
          /\ DialBecomes(connection_failed(DialNow, n, c))
       \/ conn[n][c].state = "authenticated"
          /\ DialBecomes(signaling_failed(DialNow, n, c))
       \/ conn[n][c].state = "authenticated"
          /\ DialBecomes(retire_connection(DialNow, n, c))

ConnectionFails(n) ==      \* a timeout, a refusal, a broken link
  /\ dial.loss
  /\ \E c \in DOMAIN conn[n] :
       DialBecomes(IF conn[n][c].state = "authenticated"
                   THEN signaling_failed(DialNow, n, c)
                   ELSE connection_failed(DialNow, n, c))

(* relay_failed and sever_relay_signaling end the attempts that depend on  *)
(* the relay; the link comes back later.                                   *)
MutantRelayFails(n) ==
  /\ dial.loss /\ online[n]
  /\ LET s == [DialNow EXCEPT !.online[n] = FALSE, !.wire[Relay][n] = <<>>]
     IN DialBecomes(
          IF attempt[n] # None /\ attempt[n].route = "relay"
          THEN fail_peer_attempt(s, n, attempt[n].id) ELSE s)
RelayFails(n) ==
  /\ dial.loss /\ online[n]
  /\ LET s == [DialNow EXCEPT !.online[n] = FALSE, !.wire[Relay][n] = <<>>]
     IN DialBecomes(
          IF attempt[n] # None /\ attempt[n].route = "relay"
             /\ attempt[n].sess = "none"
          THEN fail_peer_attempt(s, n, attempt[n].id) ELSE s)
RelayReturns(n) ==
  /\ ~online[n]
  /\ DialBecomes([DialNow EXCEPT !.online[n] = TRUE])

(* SignalingCoordinator::expire ends what it still knows of. *)
MutantExpire(n) ==
  /\ dial.loss \/ dial.late \/ dial.full
  /\ \E r \in coord[n] : DialBecomes(Forget(DialNow, n, r.id))
Expire(n) ==
  /\ dial.loss \/ dial.late \/ dial.full
  /\ \E r \in coord[n] :
       DialBecomes(fail_peer_attempt(Forget(DialNow, n, r.id), n, r.id))

(* The strand runs its tasks, links that hold deliver, timers fire. *)
ConnectTask(n) ==
  \/ Connect(n) \/ handle_initial_hello(n) \/ handle_response_hello(n)
  \/ FinalWritten(n) \/ handle_final_hello(n) \/ ReadSignaling(n)
  \/ ReadRelay(n) \/ LocalDescription(n) \/ SessionOpens(n)
  \/ SessionHello(n) \/ TransportLost(n) \/ ConnectionClosed(n) \/ Expire(n)
ConnectNext ==
  \E n \in Ends :
    \/ ConnectTask(n) \/ LocalCandidate(n)
    \/ ConnectionFails(n) \/ RelayFails(n) \/ RelayReturns(n)

ConnectFairness == WF_dialVars(\E n \in Ends : ConnectTask(n))

(***************************************************************************)
(* Properties.                                                             *)
(***************************************************************************)

Connected ==
  /\ Matched("a")
  /\ \A n \in Ends : attempt[n].sess = "up"

(* "Exactly one connection survives regardless of arrival order"           *)
(* (admit_inbound_attempt), and frames are never queued on a connection    *)
(* that arbitration is about to retire (maybe_begin_peer_attempt): while   *)
(* no link fails, nodes that dial each other, over the LAN, the relay or   *)
(* one over each, both end up authenticated on the same request.           *)
DialsMeet ==
  (~dial.loss /\ ~dial.late /\ ~dial.full /\ \E n \in Ends : dials[n] > 0)
    ~> Connected

(* A node's attempt that has no session yet is known to its coordinator,   *)
(* whose TTL will end it: an attempt the coordinator does not know would   *)
(* block every later connection to the peer.                               *)
AttemptsExpire ==
  ~dial.full => \A n \in Ends :
    attempt[n] # None /\ attempt[n].sess # "up" => find(DialNow, n, attempt[n].id) # {}

(* "A session that already authenticated keeps its direct DataChannel and  *)
(* now owns its transport; it only re-establishes if the association       *)
(* itself dies" (relay_failed): nothing that happens to the signaling that *)
(* brought it up ends an authenticated session.  A candidate gathered      *)
(* after authentication does (on_local_candidate finds no attempt at the   *)
(* coordinator and fails the peer), so gathering has to be over by then.   *)
SessionOwnsTransport ==
  [][\A n \in Ends :
       ~dial.late /\ attempt[n] # None /\ attempt[n].sess = "up" /\ attempt'[n] # attempt[n]
         => TransportLost(n)]_dialVars
==================================================================================
