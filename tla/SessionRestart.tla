----------------------------- MODULE SessionRestart -----------------------------
(***************************************************************************)
(* The in-place restart of an authenticated session between two nodes      *)
(* (src/core/session_restart.cpp and the restart part of                   *)
(* src/client/node.cpp): a replacement transport is negotiated by signed   *)
(* offer, answer and candidates over the control channel of the session it *)
(* replaces; when its hello exchange succeeds each node, on its own, swaps *)
(* the successor in and closes the superseded transport.                   *)
(*                                                                         *)
(* A transport is <<node, k>>, the k-th the node made; two transports are  *)
(* connected when each has the other as its remote.  A nonce is the first  *)
(* transport of the record that drew it.  Signatures and expiry times of   *)
(* the objects of two honest nodes always verify and are left out.         *)
(***************************************************************************)
EXTENDS NodePair, Naturals, Sequences, FiniteSets

CONSTANT RestartLoads   \* what may happen: see RestartInit

RequestIds == 1..2

VARIABLES
  plan,     \* the load, fixed
  att,      \* the node's peer attempt: the session in use
  rst,      \* session_restarts: the restart in flight
  cool,     \* restart_cooldown_until lies ahead
  net,      \* control frames on their way, by receiving transport
  closed,   \* transports that are closed or have failed
  made,     \* transports made so far
  begun,    \* restarts begun so far
  used      \* request ids drawn so far

restartVars == <<plan, att, rst, cool, net, closed, made, begun, used>>

Transports == Ends \X (0..3)

(* A load says how many restarts each node begins, whether deadlines and   *)
(* the loss of the link may strike, whether a grant may have lapsed, how   *)
(* long candidates are gathered, and whether SessionKept is asked of it.   *)
RestartInit ==
  /\ plan \in RestartLoads
  /\ att = [n \in Ends |-> [tp |-> <<n, 0>>, rem |-> <<Peer(n), 0>>,
                            epoch |-> 1, obs |-> "attempt"]]
  /\ rst = [n \in Ends |-> None]
  /\ cool = [n \in Ends |-> FALSE]
  /\ net = [t \in Transports |-> <<>>]
  /\ closed = {}
  /\ made = [n \in Ends |-> 0]
  /\ begun = [n \in Ends |-> 0]
  /\ used = {}

(* Handlers are operators from state to state, so that one may call        *)
(* another; a step makes the result the next state.                        *)
RestartNow == [att |-> att, rst |-> rst, cool |-> cool, net |-> net,
        closed |-> closed, made |-> made]
RestartBecomes(s) ==
  /\ att' = s.att /\ rst' = s.rst /\ cool' = s.cool
  /\ closed' = s.closed /\ made' = s.made
  /\ net' = [t \in Transports |-> IF t \in s.closed THEN <<>> ELSE s.net[t]]

HasSession(s, n) ==                      \* authenticated_attempt
  /\ s.att[n] # None
  /\ s.att[n].tp \notin s.closed

(* send_restart_frame; a frame to a transport its owner closed is lost. *)
Framed(s, n, frame) ==
  [s EXCEPT !.net[s.att[n].rem] =
     IF s.att[n].rem \in s.closed THEN @ ELSE Append(@, frame)]

(***************************************************************************)
(* Ends of a restart.                                                      *)
(***************************************************************************)

MutantAbort(s, n) == [s EXCEPT !.rst[n] = None]
abort_session_restart(s, n) ==
  IF s.rst[n] = None THEN s
  ELSE [s EXCEPT !.rst[n] = None,
                 !.closed = @ \cup ({s.rst[n].tp} \ {None})]

(* The session of the node's attempt reports that it closed.  The session  *)
(* of a first connection and the successor of a restart have different     *)
(* observers: peer_session_changed knows that the restart in flight may    *)
(* supersede it, restart_session_changed takes the report for one about    *)
(* the restart in flight.                                                  *)
MutantSessionClosed(s, n) ==
  [abort_session_restart(s, n) EXCEPT !.att[n] = None]
SessionClosed(s, n) ==
  LET gone == [s EXCEPT !.closed = @ \cup {s.att[n].tp}]
  IN  IF s.att[n].obs = "attempt" THEN [gone EXCEPT !.att[n] = None]
      ELSE [abort_session_restart(gone, n) EXCEPT !.att[n] = None]

(* fail_peer_attempt closes the session and forgets the attempt; the       *)
(* record of a restart it carried stays.                                   *)
fail_session_protocol(s, n) ==
  IF s.att[n] = None THEN s ELSE SessionClosed(s, n)

(* The successor is authenticated: the superseded session is closed first  *)
(* and its attempt replaced.                                               *)
complete_session_restart(s, n) ==
  LET r == s.rst[n]
      old == IF s.att[n] = None THEN {} ELSE {s.att[n].tp}
  IN  [s EXCEPT !.rst[n] = None,
                !.cool[n] = TRUE,
                !.closed = @ \cup old,
                !.att[n] = [tp |-> r.tp, rem |-> r.rem,
                            epoch |-> r.epoch + 1, obs |-> "restart"]]

(***************************************************************************)
(* Records and transports.                                                 *)
(***************************************************************************)

(* start_restart_transport: a new transport for the record, whose previous *)
(* one, if any, is dropped and so closed.  A record of the initiator makes *)
(* an offer; a remote offer is answered whatever the record.               *)
start_restart_transport(s, n, offer) ==
  LET t == <<n, s.made[n] + 1>>
  IN  [s EXCEPT !.made[n] = @ + 1,
                !.closed = @ \cup ({s.rst[n].tp} \ {None}),
                !.rst[n].tp = t,
                !.rst[n].nonce = IF @ = None THEN t ELSE @,
                !.rst[n].rem = offer,
                !.rst[n].desc = IF offer = None THEN "offer" ELSE "answer"]

(* new_restart_record with an admission of its own. *)
new_restart_record(s, n, initiator, id) ==
  [init |-> initiator, req |-> id, nonce |-> None, reg |-> FALSE,
   old |-> s.att[n].tp, epoch |-> s.att[n].epoch,
   tp |-> None, rem |-> None, desc |-> None,
   acc |-> None, inN |-> None, reN |-> None, tr |-> None, facts |-> FALSE,
   ready |-> FALSE, cand |-> "none", sess |-> "none"]

(* begin_session_restart, at the application's call or on an interface     *)
(* change; the deadline is armed at once and lives with the record.        *)
BeginRestart(n) ==
  /\ begun[n] < plan.begins[n] /\ made[n] < 3
  /\ rst[n] = None /\ HasSession(RestartNow, n)
  /\ \E id \in RequestIds \ used :
       /\ used' = used \cup {id}
       /\ LET r == new_restart_record(RestartNow, n, TRUE, id)
          IN RestartBecomes(start_restart_transport(
               [RestartNow EXCEPT !.rst[n] = r], n, None))
  /\ begun' = [begun EXCEPT ![n] = @ + 1]
  /\ UNCHANGED plan

(***************************************************************************)
(* Local events of the replacement transport.                              *)
(***************************************************************************)

Binding(n, r) == [init |-> IF r.init THEN n ELSE Peer(n), req |-> r.req,
                  inN |-> r.inN, reN |-> r.reN, tr |-> r.tr]
CandidateOf(n, r) == [t |-> "candidate", b |-> Binding(n, r)]

(* A local candidate, held until candidates may be signed.  Gathering may  *)
(* end before the successor session starts, or go on while it connects.    *)
RestartCandidate(n) ==
  /\ rst[n] # None /\ rst[n].desc = None /\ rst[n].cand = "none"
  /\ plan.gathers = "late" \/ rst[n].sess = "none"
  /\ RestartBecomes(
       IF ~rst[n].ready THEN [RestartNow EXCEPT !.rst[n].cand = "held"]
       ELSE IF ~HasSession(RestartNow, n)
       THEN abort_session_restart(RestartNow, n)
       ELSE Framed([RestartNow EXCEPT !.rst[n].cand = "sent"], n,
                 CandidateOf(n, rst[n])))
  /\ UNCHANGED <<plan, begun, used>>

(* candidate_signing_ready, and the held candidate is sent; with no        *)
(* session left to carry it the restart is given up.                       *)
flush_restart_local_candidates(s, n) ==
  LET r == s.rst[n]
      ready == [s EXCEPT !.rst[n].ready = TRUE]
  IN  IF r.cand # "held" THEN ready
      ELSE Framed([ready EXCEPT !.rst[n].cand = "sent"], n, CandidateOf(n, r))

(* start_restart_peer_session needs both nonces, the transcript and the    *)
(* facts of the peer's description.                                        *)
start_restart_peer_session(s, n) ==
  LET r == s.rst[n]
  IN  IF \/ r.sess # "none" \/ ~r.facts
         \/ None \in {r.tp, r.inN, r.reN, r.tr}
      THEN abort_session_restart(s, n)
      ELSE [s EXCEPT !.rst[n].sess = "started"]

set_local_restart(r) ==
  [r EXCEPT !.reg = TRUE, !.acc = r.req, !.inN = r.nonce]
(* The transcript is the hash of the offer known here and this answer.     *)
set_local_restart_answer(r) ==
  [r EXCEPT !.reN = r.nonce, !.tr = <<r.inN, r.tp>>]

(* handle_restart_local_description: the offer is registered and sent ...  *)
SendOffer(s, n) ==
  LET r == s.rst[n]
  IN  Framed([s EXCEPT !.rst[n] = set_local_restart(r)], n,
             [t |-> "offer", req |-> r.req, nonce |-> r.nonce, tp |-> r.tp])

(* ... or the answer, and the successor session starts. *)
SendAnswer(s, n) ==
  LET r == s.rst[n]
      out == Framed([s EXCEPT !.rst[n] = set_local_restart_answer(r)], n,
                    [t |-> "answer", req |-> r.req, inN |-> r.inN,
                     reN |-> r.nonce, tp |-> r.tp])
  IN  start_restart_peer_session(flush_restart_local_candidates(out, n), n)

handle_restart_local_description(n) ==
  /\ rst[n] # None /\ rst[n].desc # None
  /\ LET s == [RestartNow EXCEPT !.rst[n].desc = None]
     IN RestartBecomes(IF ~HasSession(s, n) THEN abort_session_restart(s, n)
                ELSE IF rst[n].desc = "offer" THEN SendOffer(s, n)
                ELSE SendAnswer(s, n))
  /\ UNCHANGED <<plan, begun, used>>

(***************************************************************************)
(* Frames of the peer, read by the session in use.                         *)
(***************************************************************************)

session_restart_offer_wins(candidate, other) == candidate > other

(* A restart is in flight here that has not offered yet and the peer's     *)
(* offer loses: it is dropped.                                             *)
Suppressed(s, n, f) ==
  /\ s.rst[n] # None /\ s.rst[n].init /\ ~s.rst[n].reg
  /\ ~session_restart_offer_wins(f.req, s.rst[n].req)

Yields(s, n) == s.rst[n] # None /\ s.rst[n].init /\ ~s.rst[n].reg

(* admit_offer: "fail", "ignore" (a duplicate, or a glare the local offer  *)
(* wins) or "admit".                                                       *)
admit_offer(r, f) ==
  LET glare == r.reg /\ f.req # r.acc
  IN  IF glare /\ ~session_restart_offer_wins(f.req, r.acc) THEN "ignore"
      ELSE IF r.acc = f.req THEN "ignore"
      ELSE IF r.acc # None /\ ~glare THEN "fail" ELSE "admit"

(* Every offer is admitted by the admission of a record made for it, which *)
(* knows of no local restart; the record is kept only if the node has none *)
(* (emplace), and the transport is started for the one it has.             *)
handle_restart_offer(s, n, f) ==
  LET s1 == IF Yields(s, n) THEN abort_session_restart(s, n) ELSE s
      new == new_restart_record(s1, n, FALSE, f.req)
      r == [new EXCEPT !.acc = f.req, !.inN = f.nonce, !.facts = TRUE]
      s2 == IF s1.rst[n] = None THEN [s1 EXCEPT !.rst[n] = r] ELSE s1
  IN  IF Suppressed(s, n, f) THEN s
      ELSE IF ~HasSession(s1, n) \/ s1.cool[n] THEN s1
      ELSE CASE admit_offer(new, f) = "fail" -> fail_session_protocol(s1, n)
             [] admit_offer(new, f) = "ignore" -> s1
             [] OTHER -> start_restart_transport(s2, n, f.tp)

(* admit_answer: "fail", "ignore" (a duplicate) or "admit". *)
admit_answer(r, f) ==
  IF ~r.reg \/ f.req # r.acc \/ f.inN # r.inN THEN "fail"
  ELSE IF r.reN = None THEN "admit"
  ELSE IF r.reN = f.reN THEN "ignore" ELSE "fail"

handle_restart_answer(s, n, f) ==
  LET r == s.rst[n]
  IN  IF r = None THEN fail_session_protocol(s, n)
      ELSE CASE admit_answer(r, f) = "fail" -> fail_session_protocol(s, n)
             [] admit_answer(r, f) = "ignore" -> s
             [] OTHER ->
                  start_restart_peer_session(flush_restart_local_candidates(
                    [s EXCEPT !.rst[n].reN = f.reN, !.rst[n].facts = TRUE,
                              !.rst[n].tr = <<r.inN, f.tp>>,
                              !.rst[n].rem = f.tp], n), n)

(* admit_candidate: the binding must be the one of the restart in flight,  *)
(* in which the node is the initiator exactly if it registered an offer.   *)
admit_candidate(n, r, f) ==
  /\ None \notin {r.acc, r.inN, r.reN, r.tr}
  /\ f.b = [init |-> IF r.reg THEN n ELSE Peer(n), req |-> r.acc,
            inN |-> r.inN, reN |-> r.reN, tr |-> r.tr]

handle_restart_candidate(s, n, f) ==
  IF s.rst[n] # None /\ ~admit_candidate(n, s.rst[n], f)
  THEN fail_session_protocol(s, n) ELSE s

ReadControl(n) ==
  /\ HasSession(RestartNow, n) /\ net[att[n].tp] # <<>>
  /\ made[n] < 3
  /\ LET t == att[n].tp
         f == Head(net[t])
         s == [RestartNow EXCEPT !.net[t] = Tail(@)]
     IN RestartBecomes(CASE f.t = "offer" -> handle_restart_offer(s, n, f)
                  [] f.t = "answer" -> handle_restart_answer(s, n, f)
                  [] f.t = "candidate" -> handle_restart_candidate(s, n, f))
  /\ UNCHANGED <<plan, begun, used>>

(***************************************************************************)
(* The successor session.                                                  *)
(***************************************************************************)

Replaced(n) ==          \* the replacement transport of n is connected
  /\ rst[n] # None /\ rst[n].sess # "none"
  /\ rst[n].rem \notin closed
  /\ LET m == Peer(n)
     IN \/ rst[m] # None /\ rst[m].tp = rst[n].rem /\ rst[m].rem = rst[n].tp
        \/ att[m] # None /\ att[m].tp = rst[n].rem /\ att[m].rem = rst[n].tp

Hello(n, r) == [t |-> "hello", b |-> Binding(n, r), epoch |-> r.epoch + 1]

(* The initiator's control channel opens and its hello goes out. *)
RestartOpen(n) ==
  /\ Replaced(n) /\ rst[n].init /\ rst[n].sess = "started"
  /\ rst' = [rst EXCEPT ![n].sess = "greeted"]
  /\ net' = [net EXCEPT ![rst[n].rem] = Append(@, Hello(n, rst[n]))]
  /\ UNCHANGED <<plan, att, cool, closed, made, begun, used>>

(* A hello that carries this side's own binding is accepted and answered   *)
(* once; with a grant in force the session is authenticated and reports    *)
(* to restart_session_changed, without one it waits for the deadline.      *)
RestartHello(n) ==
  /\ rst[n] # None /\ rst[n].sess \in {"started", "greeted"}
  /\ net[rst[n].tp] # <<>>
  /\ LET r == rst[n]
         f == Head(net[r.tp])
         s == [RestartNow EXCEPT !.net[r.tp] = Tail(@)]
         out == IF r.sess = "greeted" \/ r.rem \in closed THEN s
                ELSE [s EXCEPT !.net[r.rem] = Append(@, Hello(n, r))]
     IN IF f # Hello(Peer(n), [r EXCEPT !.init = ~@])
        THEN RestartBecomes(abort_session_restart(s, n))
        ELSE \/ RestartBecomes(complete_session_restart(out, n))
             \/ /\ plan.lapses
                /\ RestartBecomes([out EXCEPT !.rst[n].sess = "restricted"])
  /\ UNCHANGED <<plan, begun, used>>

(***************************************************************************)
(* Losses and time.                                                        *)
(***************************************************************************)

(* The peer closed the transport of the session in use, or the link to it  *)
(* was lost: the session closes here too.                                  *)
SessionLost(n) ==
  /\ att[n] # None
  /\ {att[n].tp, att[n].rem} \cap closed # {}
  /\ RestartBecomes(SessionClosed(RestartNow, n))
  /\ UNCHANGED <<plan, begun, used>>

LinkLost ==
  /\ plan.loss
  /\ \E n \in Ends : /\ HasSession(RestartNow, n) /\ att[n].epoch = 1
                     /\ closed' = closed \cup {att[n].tp, att[n].rem}
                     /\ net' = [net EXCEPT ![att[n].tp] = <<>>,
                                           ![att[n].rem] = <<>>]
  /\ UNCHANGED <<plan, att, rst, cool, made, begun, used>>

(* The successor session sees its transport close under it. *)
RestartLost(n) ==
  /\ rst[n] # None /\ rst[n].sess # "none" /\ rst[n].rem \in closed
  /\ RestartBecomes(abort_session_restart(RestartNow, n))
  /\ UNCHANGED <<plan, begun, used>>

MutantRestartDeadline(n) ==
  /\ rst[n] # None /\ rst[n].init /\ plan.deadlines
  /\ RestartBecomes(abort_session_restart(RestartNow, n))
  /\ UNCHANGED <<plan, begun, used>>
RestartDeadline(n) ==
  /\ rst[n] # None /\ plan.deadlines
  /\ RestartBecomes(abort_session_restart(RestartNow, n))
  /\ UNCHANGED <<plan, begun, used>>

CooldownOver(n) ==
  /\ cool[n]
  /\ cool' = [cool EXCEPT ![n] = FALSE]
  /\ UNCHANGED <<plan, att, rst, net, closed, made, begun, used>>

RestartTask(n) ==
  \/ handle_restart_local_description(n)
  \/ ReadControl(n) \/ RestartOpen(n) \/ RestartHello(n)
  \/ SessionLost(n) \/ RestartLost(n) \/ RestartDeadline(n)

RestartNext ==
  \/ LinkLost
  \/ \E n \in Ends :
       RestartTask(n) \/ BeginRestart(n) \/ RestartCandidate(n) \/ CooldownOver(n)

(* Timers fire, the strand runs its tasks and the transports deliver. *)
RestartFairness == WF_restartVars(\E n \in Ends : RestartTask(n))

(***************************************************************************)
(* Properties.                                                             *)
(***************************************************************************)

(* When one node has swapped its successor session in, the other has       *)
(* swapped in the same one, still has its half of that restart in flight,  *)
(* or has closed its end, so that the first will notice: an abort or a     *)
(* close of the superseded transport never leaves a node on a session      *)
(* whose other half nobody holds (complete_session_restart,                *)
(* abort_session_restart, peer_session_changed).                           *)
NoHalfSession ==
  \A n \in Ends : att[n] # None /\ att[n].obs = "restart" =>
    LET m == Peer(n)
    IN \/ att[m] # None /\ att[m].tp = att[n].rem
       \/ rst[m] # None /\ rst[m].tp = att[n].rem
       \/ att[n].rem \in closed

(* "The losing side aborts its own attempt and answers the winner"         *)
(* (docs/design/heyaki-wire-protocol.md, 2.3): while no deadline strikes   *)
(* and the link holds, a node always has its session or a restart that     *)
(* will give it one, also when the peer completes first and closes the     *)
(* superseded transport, and also when both nodes began.                   *)
SessionKept ==
  plan.keeps => \A n \in Ends : att[n] # None \/ rst[n] # None

(* Every restart ends, in a swap or an abort: a record never blocks the    *)
(* restarts to come.                                                       *)
RestartEnds == \A n \in Ends : []<>(rst[n] = None)
=================================================================================
