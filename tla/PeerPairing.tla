------------------------------ MODULE PeerPairing ------------------------------
(***************************************************************************)
(* The two ends of one peer session from its hello to the grant a pairing  *)
(* ends with: PeerSession (src/client/peer_session.cpp), the registries a  *)
(* node keeps of the pairings it asked for and was asked for               *)
(* (src/client/node.cpp) and its TrustStore.                               *)
(*                                                                         *)
(* The handlers of a node run on its strand.  They are operators from the  *)
(* state p of the pair to its next state, so that a handler which fails    *)
(* the session contains what the node does about a failed session.  A      *)
(* password is checked on the strand too, but slowly, while revoke and     *)
(* rotate run on the caller's thread: PairingService::evaluate is three    *)
(* steps here, and work holds what it carries from one to the next.        *)
(*                                                                         *)
(* deal is the load, fixed at the start: who opened the session, the       *)
(* grants held before, the pairings each end asks for, the business frames *)
(* it sends, and which of the faults and the trust operations happen.  A   *)
(* frame that is still queued in a transport after a close is dropped: the *)
(* node no longer knows the session it would reach.                        *)
(***************************************************************************)
EXTENDS NodePair, TrustStore, Sequences

CONSTANTS PairingLoads, MaxPairingAttempts, MaxPairings

VARIABLES deal, pair

pairVars == <<deal, pair>>

Requests == Ends \X (1..MaxPairings)
Asked(req) == deal.asks[req[1]][req[2]]

NewEnd ==
  [state |-> "authenticating", hello |-> FALSE, late |-> FALSE,
   pending |-> None, by |-> None, scopes |-> {}, basic |-> FALSE,
   attempts |-> 0, results |-> {}, strikes |-> 0]
NoEnd == [NewEnd EXCEPT !.state = "closed"]

\* What the two ends trusted before: request <<n, 0>> is from the past.
HeldBefore(n) ==
  LET g == [req |-> <<"a", 0>>, no |-> 1, scopes |-> deal.policy, gen |-> 1,
            revoked |-> FALSE]
      s == NewStore(deal.enabled, deal.policy)
  IN IF n = "b" /\ deal.trust # "none" THEN [s EXCEPT !.issued = {g}]
     ELSE IF n = "a" /\ deal.trust = "both" THEN [s EXCEPT !.received = {g}]
     ELSE s

PairingInit ==
  /\ deal \in PairingLoads
  /\ pair = [end |-> [n \in Ends |-> NoEnd],
             store |-> [n \in Ends |-> HeldBefore(n)],
             want |-> [n \in Ends |-> None], \* pending_pairings
             open |-> [n \in Ends |-> None], \* pending_pairing_approvals
             told |-> [r \in Requests |-> 0], asks |-> [n \in Ends |-> 0],
             work |-> [n \in Ends |-> None],
             wire |-> [n \in Ends |-> <<>>], \* control frames on their way to n
             flow |-> [n \in Ends |-> 0],    \* business frames on their way to n
             held |-> [n \in Ends |-> 0],    \* business frames queued by n
             frames |-> deal.frames,
             chan |-> [n \in Ends |-> "none"], \* the physical business channel
             dials |-> deal.dials, rotates |-> deal.rotates,
             revokes |-> deal.revokes, revoking |-> [n \in Ends |-> 0],
             repeats |-> deal.repeats, killed |-> {}]

PairBecomes(p) == pair' = p /\ UNCHANGED deal

Live(p, n) == p.end[n].state # "closed"
Authorized(p, n) == p.end[n].state = "authorized" \* authenticated or active
Verified(p, n) == p.end[n].state \in {"restricted", "authorized"}

Send(p, n, frame) ==
  IF Live(p, Peer(n)) THEN [p EXCEPT !.wire[Peer(n)] = Append(@, frame)] ELSE p
ResultFrame(req, status, grant) ==
  [type |-> "result", req |-> req, status |-> status, grant |-> grant]

-----------------------------------------------------------------------------
(* The end of a session, and of the pairings pending on it.                *)

Tell(p, req) == [p EXCEPT !.told[req] = @ + 1]

MutantNotifyFailure(p, n) ==
  IF p.want[n] = None /\ p.open[n] = None THEN p
  ELSE [(IF p.want[n] = None THEN p ELSE Tell(p, p.want[n]))
          EXCEPT !.open[n] = None]
notify_pairing_failure(p, n) ==
  IF p.want[n] = None /\ p.open[n] = None THEN p
  ELSE [(IF p.want[n] = None THEN p ELSE Tell(p, p.want[n]))
          EXCEPT !.want[n] = None, !.open[n] = None]

\* PeerSession::fail and ::close, and the node's closed branch.  A session
\* that was authorized leaves the reason behind, for the properties.
fail(p, n, why) ==
  IF ~Live(p, n) THEN p
  ELSE notify_pairing_failure(
         [p EXCEPT !.killed = IF Authorized(p, n) THEN @ \cup {why} ELSE @,
                   !.end[n] = NoEnd, !.wire[n] = <<>>, !.flow[n] = 0,
                   !.held[n] = 0, !.chan[n] = "none"], n)

\* The node's authenticated branch: the consumed result ends the pairing.
Resolved(p, n, req) ==
  IF p.want[n] = req THEN [Tell(p, req) EXCEPT !.want[n] = None] ELSE p

upgrade_to_authorized(p, n, scopes, by) ==
  [p EXCEPT !.end[n].state = "authorized", !.end[n].scopes = scopes,
            !.end[n].basic = FALSE, !.end[n].late = FALSE,
            !.end[n].by = by]

-----------------------------------------------------------------------------
(* The control frames.                                                     *)

session_hello(p, n) ==
  LET answered == IF p.end[n].hello THEN p
                  ELSE Send([p EXCEPT !.end[n].hello = TRUE], n, [type |-> "hello"])
      scopes == authorize(p.store[n])
  IN IF scopes # {} THEN upgrade_to_authorized(answered, n, scopes, None)
     ELSE [answered EXCEPT !.end[n].state = "restricted",
                           !.end[n].basic = deal.basic]

\* The deny lambda of handle_pairing_request: the answer, and the end of a
\* session that is not authorized.
Deny(p, n, req, status) ==
  LET sent == Send(p, n, ResultFrame(req, status, None))
  IN IF Authorized(p, n) THEN sent ELSE fail(sent, n, "denied")

\* What follows the verdict of the evaluator.
MutantConclude(p, n, req, status, grant) ==
  LET result == ResultFrame(req, status, grant)
      sent == Send([p EXCEPT !.end[n].results = @ \cup {result}], n, result)
  IN IF Authorized(p, n) \/ status = "ok" THEN sent ELSE fail(sent, n, "denied")
Conclude(p, n, req, status, grant) ==
  LET result == ResultFrame(req, status, grant)
      sent == Send([p EXCEPT !.end[n].results = @ \cup {result}], n, result)
  IN IF Authorized(p, n) THEN sent
     ELSE IF status = "ok" THEN upgrade_to_authorized(sent, n, grant.scopes, None)
     ELSE fail(sent, n, "denied")

\* PairingRequestAdmission remembers the results of the session: a duplicate
\* replays the one that was recorded for it.
MutantTerminalResults(p, n, req) == {}
terminal_results(p, n, req) == {r \in p.end[n].results : r.req = req}

\* The admission, and the part of evaluate that checks the password.
handle_pairing_request(p, n, req) ==
  LET known == terminal_results(p, n, req)
      checked == verify(p.store[n], Asked(req).scopes, Asked(req).password)
      admitted == [p EXCEPT !.end[n].attempts = @ + 1,
                            !.store[n] = checked.store]
  IN IF ~Verified(p, n) THEN fail(p, n, "protocol")
     ELSE IF p.end[n].late THEN Deny(p, n, req, "deadline_exceeded")
     ELSE IF known # {} THEN Send(p, n, CHOOSE r \in known : TRUE)
     ELSE IF p.end[n].attempts >= MaxPairingAttempts
          THEN Deny(p, n, req, "resource_exhausted")
     ELSE IF checked.status # "ok"
          THEN Conclude(admitted, n, req, checked.status, None)
     ELSE [admitted EXCEPT !.work[n] = [req |-> req, scopes |-> checked.scopes,
                                        gen |-> 0]]

MutantDenialReceived(p, n, req) == fail(p, n, "denied")
DenialReceived(p, n, req) ==
  IF Authorized(p, n) THEN Resolved(p, n, req) ELSE fail(p, n, "denied")

handle_pairing_result(p, n, f) ==
  LET consumed == [p EXCEPT !.end[n].pending = None]
      stored == [consumed EXCEPT
                   !.store[n] = put_trust_grant(@, "received", f.grant)]
  IN IF p.end[n].pending = None
     THEN IF Authorized(p, n) THEN p ELSE fail(p, n, "protocol")
     ELSE IF ~Verified(p, n) \/ f.req # p.end[n].pending
     THEN fail(p, n, "protocol")
     ELSE IF f.status = "ok"
     THEN IF ~accept_grant(f.grant, f.req, Asked(f.req).scopes)
          THEN fail(p, n, "protocol")
          ELSE Resolved(IF Authorized(p, n) THEN stored
                        ELSE upgrade_to_authorized(stored, n, f.grant.scopes,
                                                   f.req), n, f.req)
     ELSE DenialReceived(consumed, n, f.req)

\* A full registry, or one that already holds a request of this peer, denies
\* without a request id, which encode_pairing_result refuses: nothing is sent.
handle_pairing_approval_request(p, n, req) ==
  IF ~Verified(p, n) THEN fail(p, n, "protocol")
  ELSE IF ~deal.approvable THEN Deny(p, n, req, "permission_denied")
  ELSE IF p.end[n].late THEN Deny(p, n, req, "deadline_exceeded")
  ELSE IF p.open[n] # None \/ deal.full
       THEN IF Authorized(p, n) THEN p ELSE fail(p, n, "denied")
  ELSE [p EXCEPT !.open[n] = req] \* record_pending_pairing_approval

handle_control_frame(p, n, f) ==
  CASE f.type = "hello"    -> session_hello(p, n)
    [] f.type = "request"  -> handle_pairing_request(p, n, f.req)
    [] f.type = "approval" -> handle_pairing_approval_request(p, n, f.req)
    [] f.type = "result"   -> handle_pairing_result(p, n, f)

-----------------------------------------------------------------------------
(* Business frames, of a domain whose channel the initiator of the session *)
(* owns (message, rpc, event and file).                                    *)

MayTalk(p, n) == Authorized(p, n) \/ p.end[n].basic

MutantEnsureChannel(p, n) ==
  IF p.chan[n] # "none" THEN p ELSE [p EXCEPT !.chan[n] = "opening"]
ensure_physical_channel(p, n) ==
  IF p.chan[n] # "none" \/ n # deal.initiator THEN p
  ELSE [p EXCEPT !.chan[n] = "opening"]

\* A send on a channel the other end closed fails the session.
pump(p, n) ==
  IF p.held[n] = 0 \/ p.chan[n] \in {"none", "opening"} THEN p
  ELSE IF p.chan[n] = "shut" THEN fail(p, n, "send")
  ELSE [p EXCEPT !.flow[Peer(n)] = IF Live(p, Peer(n)) THEN @ + p.held[n] ELSE @,
                 !.held[n] = 0]

send_frame(p, n) ==
  pump(ensure_physical_channel([p EXCEPT !.held[n] = @ + 1], n), n)

note_business_violation(p, n) ==
  LET q == [p EXCEPT !.end[n].strikes = @ + 1] IN
  IF q.end[n].strikes >= 2 THEN fail(q, n, "strikes")
  ELSE [q EXCEPT !.chan = [m \in Ends |-> IF @[m] = "none" THEN @[m] ELSE "shut"],
                 !.flow = [m \in Ends |-> 0]]

handle_business_frame(p, n) ==
  IF MayTalk(p, n) THEN p ELSE note_business_violation(p, n)

-----------------------------------------------------------------------------
(* The steps.  Idle(n): the strand of node n is not checking a password.   *)

Idle(n) == pair.work[n] = None

\* A new attempt of PeerConnect gave both ends a transport.
Dials ==
  /\ pair.dials > 0
  /\ \A n \in Ends : ~Live(pair, n) /\ Idle(n)
  /\ PairBecomes([pair EXCEPT !.dials = @ - 1,
                              !.end = [n \in Ends |-> NewEnd],
                              !.wire = [n \in Ends |-> <<>>],
                              !.flow = [n \in Ends |-> 0],
                              !.held = [n \in Ends |-> 0],
                              !.chan = [n \in Ends |-> "none"]])

ControlOpens(n) ==
  /\ Live(pair, n) /\ n = deal.initiator /\ ~pair.end[n].hello
  /\ PairBecomes(Send([pair EXCEPT !.end[n].hello = TRUE], n,
                      [type |-> "hello"]))

ReadsControl(n) ==
  /\ Live(pair, n) /\ Idle(n) /\ pair.wire[n] # <<>>
  /\ PairBecomes(handle_control_frame([pair EXCEPT !.wire[n] = Tail(@)], n,
                                      Head(pair.wire[n])))

\* The profile cannot be read for the hello, or written for the grant.
ProfileFails(n) ==
  LET f == Head(pair.wire[n])
      read == [pair EXCEPT !.wire[n] = Tail(@)]
  IN /\ deal.faulty /\ Live(pair, n) /\ Idle(n) /\ pair.wire[n] # <<>>
     /\ \/ /\ f.type = "hello"
           /\ PairBecomes(fail(IF pair.end[n].hello THEN read
                               ELSE Send(read, n, [type |-> "hello"]),
                               n, "profile"))
        \/ /\ f.type = "result" /\ f.status = "ok"
           /\ Verified(pair, n) /\ f.req = pair.end[n].pending
           /\ PairBecomes(fail(read, n, "profile"))

\* The session is gone for the transport: this end saw the link fail, or the
\* other end closed it.
TransportClosed(n) ==
  /\ Live(pair, n) /\ Idle(n)
  /\ deal.loss \/ ~Live(pair, Peer(n))
  /\ PairBecomes(fail(pair, n, "lost"))

Lapse(n) == \* pairing_deadline has passed since the session was restricted
  /\ deal.slow /\ pair.end[n].state = "restricted" /\ ~pair.end[n].late
  /\ PairBecomes([pair EXCEPT !.end[n].late = TRUE])

\* pair_peer and request_pairing_approval.  What they refuse changes nothing.
PairPeer(n) ==
  LET k == pair.asks[n] + 1
      req == <<n, k>>
      frame == [type |-> IF deal.asks[n][k].kind = "password" THEN "request"
                         ELSE "approval", req |-> req]
      asked(p) == [p EXCEPT !.want[n] = req, !.asks[n] = k]
  IN /\ k <= Len(deal.asks[n]) /\ Idle(n)
     /\ Verified(pair, n) /\ pair.want[n] = None
     /\ pair.end[n].pending = None /\ ~pair.end[n].late
     /\ \/ PairBecomes(asked(Send([pair EXCEPT !.end[n].pending = req],
                                  n, frame)))
        \/ \* the send failed the session before the pairing was registered
           /\ deal.breaks
           /\ PairBecomes(asked(fail(pair, n, "send")))

\* The peer repeats a request whose answer is late.
Repeats(n) ==
  /\ pair.repeats > 0 /\ Live(pair, n) /\ pair.end[n].pending # None
  /\ Asked(pair.end[n].pending).kind = "password"
  /\ PairBecomes(Send([pair EXCEPT !.repeats = @ - 1], n,
                      [type |-> "request", req |-> pair.end[n].pending]))

ReadGeneration(n) ==
  /\ ~Idle(n) /\ pair.work[n].gen = 0
  /\ PairBecomes([pair EXCEPT !.work[n].gen = pair.store[n].gen])

\* put_trust_grant fails when the profile cannot be written.
PersistGrant(n) ==
  LET w == pair.work[n]
      g == NewGrant(pair.store[n], w.req, w.scopes, w.gen)
      done == [pair EXCEPT !.work[n] = None]
  IN /\ ~Idle(n) /\ w.gen # 0
     /\ \/ PairBecomes(Conclude(
             [done EXCEPT !.store[n] = put_trust_grant(@, "issued", g)],
             n, w.req, "ok", g))
        \/ deal.faulty /\ PairBecomes(Conclude(done, n, w.req, "internal", None))

expire_pairing(n) ==
  /\ pair.want[n] # None /\ Idle(n)
  /\ PairBecomes(fail(notify_pairing_failure(pair, n), n, "deadline"))

expire_pairing_approval(n) ==
  /\ pair.open[n] # None /\ Idle(n)
  /\ PairBecomes(Send([pair EXCEPT !.open[n] = None], n,
                      ResultFrame(pair.open[n], "deadline_exceeded", None)))

resolve_pairing_approval(n, decision) ==
  LET req == pair.open[n]
      s == pair.store[n]
      scopes == approve(s, Asked(req).scopes)
      g == NewGrant(s, req, scopes, s.gen)
      done == [pair EXCEPT !.open[n] = None]
  IN /\ req # None /\ Idle(n) /\ decision \in deal.answers
     /\ \/ PairBecomes(
             IF decision = "reject" \/ scopes = {}
             THEN Send(done, n, ResultFrame(req, "permission_denied", None))
             ELSE Send([done EXCEPT !.store[n] = put_trust_grant(@, "issued", g)],
                       n, ResultFrame(req, "ok", g)))
        \/ /\ deal.faulty /\ decision = "approve"
           /\ PairBecomes(Send(done, n, ResultFrame(req, "internal", None)))

BackoffOver(n) ==
  /\ pair.store[n].cooling
  /\ PairBecomes([pair EXCEPT !.store[n].cooling = FALSE])

\* The trust operations, on the caller's thread.
RevokeGrant(n, direction) ==
  /\ pair.revokes > 0
  /\ \E g \in pair.store[n][direction] :
       /\ ~g.revoked
       /\ PairBecomes([pair EXCEPT !.revokes = @ - 1,
                         !.store[n] = revoke_trust_grant(@, direction, g)])

RotatePassword(n) ==
  LET s == rotate_password(pair.store[n]) IN
  /\ pair.rotates > 0 /\ pair.revoking[n] = 0
  /\ \E sweep \in BOOLEAN : \* rotate_password_and_revoke_grants, or the former
       PairBecomes([pair EXCEPT !.rotates = @ - 1, !.store[n] = s,
                                !.revoking[n] = IF sweep THEN s.gen ELSE 0])

RevokeBelow(n) ==
  /\ pair.revoking[n] # 0
  /\ PairBecomes([pair EXCEPT !.revoking[n] = 0,
                    !.store[n] = revoke_issued_below(@, pair.revoking[n])])

SendsBusiness(n) ==
  /\ pair.frames[n] > 0 /\ Idle(n) /\ MayTalk(pair, n)
  /\ PairBecomes(send_frame([pair EXCEPT !.frames[n] = @ - 1], n))

ChannelOpens(n) == \* at the end that opened it, or adopted from the other
  /\ Live(pair, n) /\ Idle(n)
  /\ \/ pair.chan[n] = "opening"
     \/ pair.chan[n] = "none" /\ pair.chan[Peer(n)] = "open"
  /\ PairBecomes(pump([pair EXCEPT !.chan[n] = "open"], n))

ReadsBusiness(n) ==
  /\ Live(pair, n) /\ Idle(n) /\ pair.flow[n] > 0 /\ pair.chan[n] = "open"
  /\ PairBecomes(handle_business_frame([pair EXCEPT !.flow[n] = @ - 1], n))

PairingNext ==
  \/ Dials
  \/ \E n \in Ends :
       \/ ControlOpens(n) \/ ReadsControl(n) \/ ProfileFails(n)
       \/ TransportClosed(n)
       \/ Lapse(n) \/ PairPeer(n) \/ Repeats(n)
       \/ ReadGeneration(n) \/ PersistGrant(n)
       \/ expire_pairing(n) \/ expire_pairing_approval(n)
       \/ \E d \in {"approve", "reject"} : resolve_pairing_approval(n, d)
       \/ BackoffOver(n) \/ RotatePassword(n) \/ RevokeBelow(n)
       \/ \E direction \in {"issued", "received"} : RevokeGrant(n, direction)
       \/ SendsBusiness(n) \/ ChannelOpens(n) \/ ReadsBusiness(n)

PairingSpec == PairingInit /\ [][PairingNext]_pairVars

-----------------------------------------------------------------------------
(* Properties.                                                             *)

\* A pairing that pair_peer or request_pairing_approval admitted is reported
\* to the pairing observer exactly once: until then it is in
\* pending_pairings with its deadline armed, whatever the session does, and
\* afterwards no result, deadline or close reports it again.
ExactlyOneOutcome ==
  \A r \in Requests :
    pair.told[r] + (IF pair.want[r[1]] = r THEN 1 ELSE 0)
      = IF r[2] <= pair.asks[r[1]] THEN 1 ELSE 0

\* A grant one end received is one the other end issued, for a request that
\* asked for all its scopes, and within the policy of the issuer; a request
\* is granted at most once, however often it is repeated, evaluated beside a
\* rotation or answered after its session was replaced.
GrantsAgree ==
  \A n \in Ends :
    /\ \A g \in pair.store[n].issued : g.no = 1
    /\ \A g \in pair.store[n].received :
         /\ \E h \in pair.store[Peer(n)].issued :
              <<h.req, h.no, h.scopes, h.gen>> = <<g.req, g.no, g.scopes, g.gen>>
         /\ g.req[2] # 0 =>
              /\ g.scopes \subseteq Asked(g.req).scopes
              /\ \A s \in g.scopes : \E t \in deal.policy : trust_scope_covers(t, s)

\* A pairing that is denied never ends a session its end has authorized:
\* neither the answer to a wrong password nor the denial that comes back.
DenialKeepsSession == "denied" \notin pair.killed

\* The end that was granted trust by password is not authorized alone: while
\* the session it was granted on lasts, the end that granted it is authorized
\* too, so what the first sends is admitted.
UpgradedTogether ==
  \A n \in Ends :
    (/\ pair.end[n].by # None /\ Live(pair, Peer(n))
     /\ Asked(pair.end[n].by).kind = "password") => Authorized(pair, Peer(n))

\* The same for every pairing, by password or by approval: "successful grant
\* moves to authorized".
GrantMovesBoth ==
  \A n \in Ends :
    pair.end[n].by # None /\ Live(pair, Peer(n)) => Authorized(pair, Peer(n))

\* Two ends that trust each other, or both allow basic communication, never
\* count a business frame of the other as a violation: the end that is
\* authorized first cannot send before the other is.
NeverStruck ==
  (deal.trust = "both" \/ deal.basic) /\ deal.revokes = 0 =>
    \A n \in Ends : pair.end[n].strikes = 0

\* The two ends of a pairing agree on what was granted and on who is
\* authorized (evaluate, handle_pairing_result, upgrade_to_authorized).
PairingAgrees == GrantsAgree /\ UpgradedTogether

\* Pairing costs no session and no strike: a denial closes nothing that is
\* authorized, and ends that trust each other never count a frame of the other
\* as a violation (handle_pairing_result, handle_business_frame).
PairingKeepsSession == DenialKeepsSession /\ NeverStruck
================================================================================
