---------------------------- MODULE EventService ----------------------------
(***************************************************************************)
(* Remote events over one session: a publisher's and a subscriber's        *)
(* EventService (src/client/event_service.cpp).                            *)
(*                                                                         *)
(* The publisher stages each event once per matching subscription: a       *)
(* best_effort_latest subscription keeps only the newest unsent item, a    *)
(* reliable_live one a bounded queue whose overflow ends the subscription. *)
(* Staged items enter the session's channel queue while it has room, in    *)
(* publish and in every maintenance pass.  The subscriber accepts          *)
(* increasing sequences and ends a subscription on any other item that is  *)
(* not an exact duplicate.                                                 *)
(*                                                                         *)
(* Subscriptions and unsubscriptions travel in the standard class and      *)
(* items in the bulk class, so nothing orders one against the other.  Ids  *)
(* are random: a correct peer never subscribes twice with one id.          *)
(***************************************************************************)
EXTENDS Integers, Sequences, FiniteSets, FiniteSetsExt, SequencesExt

CONSTANTS
  NumSubs,     \* subscriptions ever made
  Topics,      \* topics published
  Matches,     \* the topics each subscription's pattern matches
  Latest,      \* subscriptions with QoS best_effort_latest
  Covered,     \* subscriptions the subscriber's scopes cover
  MaxSubs,     \* EventServiceConfig::max_subscriptions_per_peer
  QueueItems,  \* EventServiceConfig::subscriber_queue_items
  ChannelCap,  \* EventServiceConfig::channel_frame_capacity
  MaxEvents    \* bound: events ever published

\* Subscription ids, ordered as in the code's maps.
Subs == 1 .. NumSubs

VARIABLES
  attached,   \* the session is open
  local,      \* local_subscriptions_ at the subscriber, by id
  newest,     \* newest_sequence and last_event_id of each, 0 before the first
  delivered,  \* history: sequences handed to the subscriber's sink, by id
  remote,     \* remote_subscriptions_ at the publisher
  staged,     \* items staged for each of them
  stagedSeq,  \* last_staged_sequence of each
  sequence,   \* topic_sequences_
  published,  \* events published so far; the number of an event is its id
  asks,       \* EVENT_SUBSCRIBE and EVENT_UNSUBSCRIBE to the publisher
  notices,    \* EVENT_UNSUBSCRIBE to the subscriber
  items,      \* EVENT_ITEM to the subscriber
  conflicts   \* history: subscriptions ended for a conflicting item

subscriberVars == <<local, newest, delivered, conflicts>>
publisherVars == <<remote, staged, stagedSeq, sequence, published>>
eventVars == <<attached, subscriberVars, publisherVars, asks, notices, items>>

EventInit ==
  /\ attached = TRUE
  /\ local = [s \in Subs |-> "new"]
  /\ newest = [s \in Subs |-> [seq |-> 0, event |-> 0]]
  /\ delivered = [s \in Subs |-> <<>>]
  /\ remote = {}
  /\ staged = [s \in Subs |-> <<>>]
  /\ stagedSeq = [s \in Subs |-> 0]
  /\ sequence = [t \in Topics |-> 0]
  /\ published = 0
  /\ asks = <<>> /\ notices = <<>> /\ items = <<>>
  /\ conflicts = {}

\* send_frame of the subscriber: a full channel queue refuses the frame.
Ask(type, s) ==
  asks' = IF Len(asks) < ChannelCap THEN Append(asks, [type |-> type, sub |-> s]) ELSE asks

\* Room in the publisher's channel queue once q notices are in it.
Room(q) == Max({0, ChannelCap - Len(items) - Len(q)})

\* send_unsubscribe of the publisher, for the ids in ss.
Notify(ss) ==
  notices \o SubSeq(SetToSortSeq(ss, <), 1, Min({Cardinality(ss), Room(notices)}))

-----------------------------------------------------------------------------
(* Subscriber.                                                             *)

\* subscribe, when the channel takes the frame.
Subscribe(s) ==
  /\ attached /\ local[s] = "new"
  /\ Len(asks) < ChannelCap
  /\ Ask("subscribe", s)
  /\ local' = [local EXCEPT ![s] = "active"]
  /\ UNCHANGED <<attached, newest, delivered, conflicts, publisherVars, notices, items>>

\* unsubscribe and unsubscribe_id: erased here even if the frame is refused.
Unsubscribe(s) ==
  /\ attached /\ local[s] = "active"
  /\ Ask("unsubscribe", s)
  /\ local' = [local EXCEPT ![s] = "gone"]
  /\ UNCHANGED <<attached, newest, delivered, conflicts, publisherVars, notices, items>>

\* handle_inbound_item: increasing sequences are delivered, exact duplicates and
\* unknown subscriptions are counted, anything else ends the subscription.
HandleItem ==
  /\ attached /\ items # <<>>
  /\ items' = Tail(items)
  /\ LET m == Head(items)
         n == newest[m.sub]
     IN IF local[m.sub] # "active" \/ (m.seq = n.seq /\ m.event = n.event)
          THEN UNCHANGED <<subscriberVars, asks>>
        ELSE IF m.seq > n.seq
          THEN /\ newest' = [newest EXCEPT ![m.sub] = [seq |-> m.seq, event |-> m.event]]
               /\ delivered' = [delivered EXCEPT ![m.sub] = Append(@, m.seq)]
               /\ UNCHANGED <<local, conflicts, asks>>
        ELSE /\ Ask("unsubscribe", m.sub)
             /\ local' = [local EXCEPT ![m.sub] = "gone"]
             /\ conflicts' = conflicts \cup {m.sub}
             /\ UNCHANGED <<newest, delivered>>
  /\ UNCHANGED <<attached, publisherVars, notices>>

\* handle_inbound_unsubscribe at the subscriber: the id is looked up among the
\* peer's own subscriptions and not found.
HandleNotice ==
  /\ attached /\ notices # <<>>
  /\ notices' = Tail(notices)
  /\ UNCHANGED <<attached, subscriberVars, publisherVars, asks, items>>

-----------------------------------------------------------------------------
(* Publisher.                                                              *)

\* handle_inbound_subscribe: the scope gate, the limit, then the entry.
HandleSubscribe ==
  /\ attached /\ asks # <<>> /\ Head(asks).type = "subscribe"
  /\ asks' = Tail(asks)
  /\ LET s == Head(asks).sub
     IN IF s \in Covered /\ Cardinality(remote) < MaxSubs
          THEN remote' = remote \cup {s} /\ UNCHANGED notices
          ELSE notices' = Notify({s}) /\ UNCHANGED remote
  /\ UNCHANGED <<attached, subscriberVars, staged, stagedSeq, sequence, published, items>>

\* handle_inbound_unsubscribe at the publisher.
HandleUnsubscribe ==
  /\ attached /\ asks # <<>> /\ Head(asks).type = "unsubscribe"
  /\ asks' = Tail(asks)
  /\ remote' = remote \ {Head(asks).sub}
  /\ staged' = [staged EXCEPT ![Head(asks).sub] = <<>>]
  /\ UNCHANGED <<attached, subscriberVars, stagedSeq, sequence, published, notices, items>>

MutantKept(st, s, room) == <<>>

\* What stays staged for s when room items of all the staged ones are taken.
Kept(st, s, room) ==
  LET before == MapThenSumSet(LAMBDA i : Len(st[i]), 1 .. s - 1)
      taken == Max({0, Min({Len(st[s]), room - before})})
  IN SubSeq(st[s], taken + 1, Len(st[s]))

\* drain_staged, for each subscription in turn: items enter the channel queue
\* while it has room beside q notices, and a refused item stays first.
Drain(st, q) ==
  LET all == FlattenSeq(st)
  IN /\ items' = items \o SubSeq(all, 1, Min({Len(all), Room(q)}))
     /\ staged' = [s \in Subs |-> Kept(st, s, Room(q))]

MutantSuperseded(q, item) == IF q = <<>> THEN <<item>> ELSE q

MutantAppended(q, item) == Append(q, item)

\* Keep-latest: the still-unsent older item is superseded.
Superseded(q, item) == <<item>>

\* The live subscriptions to t whose staging queue is full.
Overflowed(t) ==
  {s \in remote \ Latest : t \in Matches[s] /\ Len(staged[s]) >= QueueItems}

MutantItem(s, t) == [sub |-> s, seq |-> sequence[t], event |-> published + 1]

Item(s, t) == [sub |-> s, seq |-> sequence[t] + 1, event |-> published + 1]

\* The staging queue of s with the new item in it.
Stage(s, t) ==
  IF s \in Latest THEN Superseded(staged[s], Item(s, t))
  ELSE IF Len(staged[s]) < QueueItems THEN Append(staged[s], Item(s, t))
  ELSE staged[s]

\* publish: stage the item, end the subscriptions that overflow, drain.
Publish(t) ==
  /\ attached /\ published < MaxEvents
  /\ published' = published + 1
  /\ sequence' = [sequence EXCEPT ![t] = @ + 1]
  /\ remote' = remote \ Overflowed(t)
  /\ notices' = Notify(Overflowed(t))
  /\ LET hit == {s \in remote' : t \in Matches[s]}
     IN /\ stagedSeq' = [s \in Subs |-> IF s \in hit THEN sequence[t] + 1 ELSE stagedSeq[s]]
        /\ Drain([s \in Subs |-> IF s \in Overflowed(t) THEN <<>>
                                 ELSE IF s \in hit THEN Stage(s, t) ELSE staged[s]],
                 notices')
  /\ UNCHANGED <<attached, subscriberVars, asks>>

\* prune, in every maintenance pass.
PruneEvents ==
  /\ attached /\ Room(notices) > 0
  /\ \E s \in Subs : staged[s] # <<>>
  /\ Drain(staged, notices)
  /\ UNCHANGED <<attached, subscriberVars, remote, stagedSeq, sequence, published, asks, notices>>

\* handle_session_closed on both sides: subscriptions belong to a connection.
EventsClosed ==
  /\ attached
  /\ attached' = FALSE
  /\ local' = [s \in Subs |-> "gone"]
  /\ remote' = {}
  /\ staged' = [s \in Subs |-> <<>>]
  /\ asks' = <<>> /\ notices' = <<>> /\ items' = <<>>
  /\ UNCHANGED <<newest, delivered, conflicts, stagedSeq, sequence, published>>

EventNext ==
  \/ \E s \in Subs : Subscribe(s) \/ Unsubscribe(s)
  \/ HandleItem \/ HandleNotice \/ HandleSubscribe \/ HandleUnsubscribe
  \/ \E t \in Topics : Publish(t)
  \/ PruneEvents

\* The maintenance timer runs again and again, and the transport delivers.
EventFairness ==
  /\ WF_eventVars(PruneEvents) /\ WF_eventVars(HandleItem)
  /\ WF_eventVars(HandleNotice) /\ WF_eventVars(HandleSubscribe \/ HandleUnsubscribe)

-----------------------------------------------------------------------------
(* Properties.                                                             *)

EventTypeOK ==
  /\ local \in [Subs -> {"new", "active", "gone"}]
  /\ remote \subseteq Covered /\ Cardinality(remote) <= MaxSubs
  /\ \A s \in Subs : Len(staged[s]) <= (IF s \in Latest THEN 1 ELSE QueueItems)
  /\ Len(asks) <= ChannelCap
  /\ Len(items) + Len(notices) <= ChannelCap
  /\ \A s \in Subs \ remote : staged[s] = <<>>

\* Subscriptions to one topic.
Exact == {s \in Subs : Cardinality(Matches[s]) = 1}

\* A reliable_live subscriber never sees a gap: what it receives of a topic is
\* consecutive from its first item on, and a publisher that cannot keep up ends
\* the subscription rather than skip an item.
LiveIsGapless ==
  \A s \in Exact \ Latest :
    \A i \in 1 .. Len(delivered[s]) - 1 : delivered[s][i + 1] = delivered[s][i] + 1

\* No subscription to one topic is ended for a conflict: between correct peers
\* its items arrive in increasing sequence, however often the channel was full.
NoFalseConflict == conflicts \cap Exact = {}

\* The subscriber of an accepted subscription catches up with the newest item
\* staged for it again and again, or the subscription is over: superseding drops
\* the older item, never the newer, and a full channel only delays.
NewestArrives ==
  \A s \in Exact :
    []<>(\/ newest[s].seq >= stagedSeq[s]
         \/ s \notin remote \/ local[s] # "active" \/ ~attached)

\* "Explicit refusal: answer with unsubscribe so the peer observes it": the
\* subscriber that handles the publisher's EVENT_UNSUBSCRIBE ends its
\* subscription.
RefusalObserved ==
  [][(notices # <<>> /\ notices' = Tail(notices) /\ attached')
       => local'[Head(notices)] # "active"]_eventVars

\* A subscription to one topic sees its items in order: a live one without a
\* gap, and none is ended for a conflict that no peer caused (handle_inbound_item,
\* publish, drain).
EventsSound == EventTypeOK /\ LiveIsGapless /\ NoFalseConflict
=============================================================================
