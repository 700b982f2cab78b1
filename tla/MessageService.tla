--------------------------- MODULE MessageService ---------------------------
(***************************************************************************)
(* Point-to-point messages over one session: a sender's and a receiver's   *)
(* MessageService (src/client/message_service.cpp).                        *)
(*                                                                         *)
(* The sender tracks the messages that ask for an acknowledgement until    *)
(* the ACK, a timeout or the end of the session.  The receiver remembers   *)
(* the ids it has seen in a bounded cache, acknowledges and delivers the   *)
(* new ones, acknowledges exact duplicates again, and closes the channel   *)
(* on an id that comes back with other bytes.                              *)
(*                                                                         *)
(* Each service runs on its node's strand.  Times to live are modelled by  *)
(* the steps AckTimeout and Forget: an entry may expire at any moment.     *)
(***************************************************************************)
EXTENDS Integers, Sequences, FiniteSets, FiniteSetsExt, Functions

CONSTANTS
  Ids,       \* message ids, ordered as in the code's maps
  Acked,     \* ids sent in mode peer_acked
  Contents,  \* envelope contents
  AckCap,    \* MessageServiceConfig::pending_ack_capacity
  DedupCap,  \* MessageServiceConfig::dedup_capacity
  MaxSends   \* bound: messages ever sent

ASSUME MessageAssumption ==
  /\ Ids \subseteq Nat /\ Acked \subseteq Ids /\ "none" \notin Contents
  /\ AckCap \in Nat \ {0} /\ DedupCap \in Nat \ {0}

VARIABLES
  open,      \* the session is open
  line,      \* the message channel is open
  sends,     \* messages sent so far
  pending,   \* pending_acks_
  events,    \* history: delivery events reported for each id
  wire,      \* MESSAGE frames on their way
  acks,      \* MESSAGE_ACK frames on their way
  scope,     \* the session covers message.send
  dedup,     \* dedup_ : contents remembered for each id
  received,  \* history: deliveries of each id since its dedup entry was made
  ever       \* history: ids ever delivered

senderVars == <<sends, pending, events>>
receiverVars == <<scope, dedup, received, ever>>
messageVars == <<open, line, senderVars, wire, acks, receiverVars>>

None == [queued |-> 0, ended |-> 0, failed |-> 0, acked |-> 0]

MessageInit ==
  /\ open = TRUE /\ line = TRUE
  /\ sends = 0
  /\ pending = {}
  /\ events = [i \in Ids |-> None]
  /\ wire = <<>> /\ acks = <<>>
  /\ scope \in BOOLEAN
  /\ dedup = [i \in Ids |-> "none"]
  /\ received = [i \in Ids |-> 0]
  /\ ever = {}

-----------------------------------------------------------------------------
(* Sender.                                                                 *)

MutantTooMany == {}

\* The entry that makes room when the tracking table is full.
TooMany == IF Cardinality(pending) >= AckCap THEN {Min(pending)} ELSE {}

\* send, when the bounded queue takes the frame.  A tracked id that is sent
\* again keeps one entry.
Send(i, c) ==
  /\ open /\ sends < MaxSends
  /\ sends' = sends + 1
  /\ wire' = IF line THEN Append(wire, [id |-> i, contents |-> c]) ELSE wire
  /\ IF i \in Acked
       THEN /\ pending' = (pending \ TooMany) \cup {i}
            /\ events' = [j \in Ids |->
                 [events[j] EXCEPT !.queued = IF j = i THEN @ + 1 ELSE @,
                                   !.ended = IF j \in TooMany THEN @ + 1 ELSE @]]
       ELSE UNCHANGED <<pending, events>>
  /\ UNCHANGED <<open, line, acks, receiverVars>>

\* send, when the queue refuses the frame.
SendFails(i) ==
  /\ open /\ sends < MaxSends
  /\ sends' = sends + 1
  /\ events' = [events EXCEPT ![i].failed = @ + 1]
  /\ UNCHANGED <<open, line, pending, wire, acks, receiverVars>>

\* pending ids end, for a reason that is not an ACK.
End(S) ==
  /\ pending' = pending \ S
  /\ events' = [i \in Ids |-> IF i \in S THEN [events[i] EXCEPT !.ended = @ + 1] ELSE events[i]]

\* The transport refuses the frame and send_frame closes the session: the id is
\* tracked after handle_session_closed has ended the others.
SendClosesSession(i) ==
  /\ open /\ sends < MaxSends
  /\ i \in Acked
  /\ sends' = sends + 1
  /\ open' = FALSE
  /\ pending' = {}
  /\ events' = [j \in Ids |->
       [events[j] EXCEPT !.queued = IF j = i THEN @ + 1 ELSE @,
                         !.ended = IF j \in pending THEN @ + 1 ELSE @]]
  /\ wire' = <<>> /\ acks' = <<>>
  /\ UNCHANGED <<line, receiverVars>>

\* prune_expired finds the time to live of a tracked message over.
AckTimeout(i) ==
  /\ open /\ i \in pending
  /\ End({i})
  /\ UNCHANGED <<open, line, sends, wire, acks, receiverVars>>

MutantHandleAck ==
  /\ open /\ acks # <<>>
  /\ acks' = Tail(acks)
  /\ LET i == Head(acks)
     IN /\ events' = [events EXCEPT ![i].ended = @ + 1, ![i].acked = @ + 1]
        /\ pending' = pending \ {i}
  /\ UNCHANGED <<open, line, sends, wire, receiverVars>>

\* handle_inbound_ack: an unknown or late ACK is only counted.
HandleAck ==
  /\ open /\ acks # <<>>
  /\ acks' = Tail(acks)
  /\ LET S == {Head(acks)} \cap pending
     IN /\ pending' = pending \ S
        /\ events' = [i \in Ids |-> IF i \in S THEN [events[i] EXCEPT !.ended = @ + 1, !.acked = @ + 1]
                                               ELSE events[i]]
  /\ UNCHANGED <<open, line, sends, wire, receiverVars>>

\* handle_session_closed; the services of both nodes go with the session.
SessionClosed ==
  /\ open
  /\ open' = FALSE
  /\ End(pending)
  /\ wire' = <<>> /\ acks' = <<>>
  /\ UNCHANGED <<line, sends, receiverVars>>

-----------------------------------------------------------------------------
(* Receiver.                                                               *)

KnownIds == {i \in Ids : dedup[i] # "none"}

\* send_ack_for: the control reservation may refuse the frame.
Acknowledge(i) ==
  IF i \in Acked THEN acks' \in {acks, Append(acks, i)} ELSE UNCHANGED acks

\* A new entry; a full cache gives up the smallest id.
Remember(m) ==
  LET out == IF Cardinality(KnownIds) >= DedupCap THEN {Min(KnownIds)} ELSE {}
  IN dedup' = [i \in Ids |-> IF i = m.id THEN m.contents
                             ELSE IF i \in out THEN "none" ELSE dedup[i]]

MutantAdmit(m) ==
  /\ Acknowledge(m.id)
  /\ IF scope
       THEN /\ received' = [received EXCEPT ![m.id] = 1]
            /\ ever' = ever \cup {m.id}
       ELSE /\ received' = [received EXCEPT ![m.id] = 0]
            /\ UNCHANGED ever

\* The scope gate, then the ACK, then the handler.
Admit(m) ==
  IF scope
    THEN /\ Acknowledge(m.id)
         /\ received' = [received EXCEPT ![m.id] = IF dedup'[m.id] = dedup[m.id] THEN @ + 1 ELSE 1]
         /\ ever' = ever \cup {m.id}
    ELSE /\ received' = [received EXCEPT ![m.id] = 0]
         /\ UNCHANGED <<acks, ever>>

MutantHandleMessage ==
  /\ open /\ wire # <<>>
  /\ LET m == Head(wire)
     IN /\ wire' = Tail(wire)
        /\ Remember(m)
        /\ Admit(m)
  /\ UNCHANGED <<open, line, senderVars, scope>>

\* handle_inbound_message.
HandleMessage ==
  /\ open /\ wire # <<>>
  /\ LET m == Head(wire)
     IN \/ /\ m.id \notin KnownIds
           /\ wire' = Tail(wire)
           /\ Remember(m)
           /\ Admit(m)
           /\ UNCHANGED line
        \/ /\ m.id \in KnownIds /\ dedup[m.id] = m.contents
           /\ wire' = Tail(wire)
           /\ Acknowledge(m.id)
           /\ UNCHANGED <<line, dedup, received, ever>>
        \/ /\ m.id \in KnownIds /\ dedup[m.id] # m.contents
           /\ line' = FALSE
           /\ wire' = <<>> /\ acks' = <<>>
           /\ UNCHANGED <<dedup, received, ever>>
  /\ UNCHANGED <<open, senderVars, scope>>

\* prune_expired finds the time to live of a remembered id over.
Forget(i) ==
  /\ open /\ i \in KnownIds
  /\ dedup' = [dedup EXCEPT ![i] = "none"]
  /\ UNCHANGED <<open, line, senderVars, wire, acks, scope, received, ever>>

\* The session is upgraded by a pairing; its scopes are read live.
Grant ==
  /\ open /\ ~scope
  /\ scope' = TRUE
  /\ UNCHANGED <<open, line, senderVars, wire, acks, dedup, received, ever>>

MessageNext ==
  \/ \E i \in Ids : \/ \E c \in Contents : Send(i, c)
                    \/ SendFails(i) \/ AckTimeout(i) \/ Forget(i)
  \/ HandleAck \/ HandleMessage \/ Grant

\* The service over its session, to its end.
MessageStep == MessageNext \/ SessionClosed \/ \E i \in Ids : SendClosesSession(i)
MessageSpec == MessageInit /\ [][MessageStep]_messageVars

-----------------------------------------------------------------------------
(* Properties.                                                             *)

MessageTypeOK ==
  /\ pending \subseteq Acked /\ Cardinality(pending) <= AckCap
  /\ Range(acks) \subseteq Acked
  /\ dedup \in [Ids -> Contents \cup {"none"}]
  /\ Cardinality(KnownIds) <= DedupCap

\* "never redeliver" (handle_inbound_message): while an id is remembered, its
\* handler has run at most once for it, however often it arrives.
OnceWhileRemembered == \A i \in KnownIds : received[i] <= 1

\* A sender told "acked" of a message it sent once sent one that was really
\* accepted: it passed the receiver's scope gate and went to the handler.
AckedWasReceived ==
  \A i \in Ids : (events[i].acked > 0 /\ events[i].queued = 1) => i \in ever

\* Each tracked message ends at most once, by ACK, timeout, eviction or the end of
\* the session, a late ACK never ends it again, and while the session is open
\* none is forgotten; an id sent again while it is tracked shares the one end.
EventsAccounted ==
  \A i \in Ids :
    LET ends == events[i].ended + (IF i \in pending THEN 1 ELSE 0)
    IN /\ ends <= events[i].queued
       /\ (open /\ events[i].queued = 1) => ends = 1
       /\ ~open => pending = {}

\* What the two ends of a message say of it is true and said once, over
\* duplicates, late ACKs, evictions, refusals and the end of the session
\* (handle_inbound_message, handle_inbound_ack, prune_expired).
MessagesSound ==
  MessageTypeOK /\ OnceWhileRemembered /\ AckedWasReceived /\ EventsAccounted
=============================================================================
