--------------------------- MODULE SessionChannels ---------------------------
(***************************************************************************)
(* The send side of one peer session: the SessionChannelManager            *)
(* (src/client/session_channels.cpp), which bounds and schedules the       *)
(* frames of every logical channel, and the pump of PeerSession            *)
(* (src/client/peer_session.cpp), which drains it into the transport.      *)
(*                                                                         *)
(* Channel 0 is the control channel.  A frame has a scheduling class, 0    *)
(* (control) to 3 (bulk).  Each class is one queue over all channels, and  *)
(* next_to_send takes the first class that has a frame and a token.  The   *)
(* logical channels of this model have a physical line each: a line that   *)
(* is still opening, or whose queue is full, is not writable, and the pump *)
(* then puts the frame back and stops.                                     *)
(*                                                                         *)
(* Everything runs on the node's strand: while the pump runs, or holds a   *)
(* frame between next_to_send and the transport's answer, no other call    *)
(* is made.                                                                *)
(***************************************************************************)
EXTENDS Integers, Sequences, FiniteSets, FiniteSetsExt, Functions

CONSTANTS
  Channels,    \* logical business channels the session may open
  Tickets,     \* capacity waits ever made
  Weight,      \* frame_class_weight of each class
  Configs      \* what a session may be configured with, and its traffic

Class == 0 .. 3
Lines == {0} \cup Channels

\* Budgets and frame sizes are unsigned, only the control class is 0, and the
\* services, which send control-class frames of their own, open every channel
\* with QueueFullPolicy::reject.
ASSUME SchedulerAssumption ==
  /\ Weight \in [Class -> Nat \ {0}]
  /\ Channels \subseteq Nat \ {0} /\ IsFiniteSet(Channels)
  /\ \A x \in Configs :
       /\ DOMAIN x.policy \subseteq Channels
       /\ x.urgent \subseteq DOMAIN x.policy
       /\ \A c \in x.urgent : x.policy[c] = "reject"
       /\ x.classes \subseteq 1 .. 3
       /\ x.sizes \subseteq Nat
       /\ x.waits \subseteq Tickets
       /\ {x.channelF, x.channelB, x.peerF, x.peerB, x.controlF, x.controlB, x.frames} \subseteq Nat

VARIABLES
  config,    \* budgets (ChannelBudgetConfig), queue policies and capacities of
             \* the channels, and the traffic: sizes, classes, bounds
  open,      \* channels_ : the channels that exist
  queued,    \* each channel's queued_frames and queued_bytes
  queues,    \* class_queues_
  tokens,    \* class_state_ : tokens left to each class in this round
  business,  \* business_queued_frames_ and business_queued_bytes_
  control,   \* control_queued_frames_ and control_queued_bytes_
  waiters,   \* the registered waiters of each channel, in order
  ticket,    \* what each capacity wait has come to
  pumping,   \* the pump is running
  picked,    \* the frame the pump holds, if any
  writable,  \* lines the transport accepts a frame on
  alive,     \* the session has not failed
  total,     \* history: frames admitted so far
  sent,      \* history: number of the last frame each class has sent
  waited     \* history: turns other classes had since this one's last

vars == <<config, open, queued, queues, tokens, business, control, waiters, ticket, pumping,
          picked, writable, alive, total, sent, waited>>

Zero == [frames |-> 0, bytes |-> 0]
Plus(a, n, b) == [frames |-> a.frames + n, bytes |-> a.bytes + b]
\* Counters are unsigned: every subtraction is clamped with std::min, except
\* the frame counts of next_to_send.
Minus(a, n, b) == [frames |-> a.frames - Min({a.frames, n}), bytes |-> a.bytes - Min({a.bytes, b})]

\* The queue q without the frames (or waits) in out, in the same order.
Without(q, out) ==
  LET kept[i \in 0 .. Len(q)] ==
        IF i = 0 THEN <<>>
        ELSE IF q[i] \in out THEN kept[i - 1] ELSE Append(kept[i - 1], q[i])
  IN kept[Len(q)]

Line(f) == f.ch

\* The frames of channel c that are queued in classes ks.
Mine(c, ks) ==
  UNION {{f \in Range(queues[k]) : f.ch = c} : k \in ks}

\* The bytes of the frames fs, one by one, and what the frames add up to.
Octets(fs) == UNION {{f} \X (1 .. f.size) : f \in fs}
Bytes(fs) == Cardinality(Octets(fs))
Tally(fs) == [frames |-> Cardinality(fs), bytes |-> Bytes(fs)]

Pending == {k \in Class : queues[k] # <<>>}

Init ==
  /\ config \in Configs
  /\ open = {}
  /\ queued = [c \in Channels |-> Zero]
  /\ queues = [k \in Class |-> <<>>]
  /\ tokens = Weight
  /\ business = Zero
  /\ control = Zero
  /\ waiters = [c \in Channels |-> <<>>]
  /\ ticket = [w \in Tickets |-> "unused"]
  /\ pumping = FALSE
  /\ picked = {}
  /\ writable = {0}
  /\ alive = TRUE
  /\ total = 0
  /\ sent = [k \in Class |-> 0]
  /\ waited = [k \in Class |-> 0]

Idle == alive /\ ~pumping

\* The channels of this configuration.
Used == DOMAIN config.policy

-----------------------------------------------------------------------------
(* Logical channels.                                                       *)

\* allocate_channel: the initiator takes the lowest free odd id.
Allocate ==
  /\ Idle
  /\ Cardinality(open) < config.maxOpen
  /\ LET free == {c \in Used \ open : c % 2 = 1}
     IN /\ free # {}
        /\ open' = open \cup {Min(free)}
  /\ UNCHANGED <<config, queued, queues, tokens, business, control, waiters, ticket, pumping,
                 picked, writable, alive, total, sent, waited>>

\* open_channel for a peer-initiated (even) id.
Adopt(c) ==
  /\ Idle
  /\ c % 2 = 0 /\ c \notin open
  /\ Cardinality(open) < config.maxOpen
  /\ open' = open \cup {c}
  /\ UNCHANGED <<config, queued, queues, tokens, business, control, waiters, ticket, pumping,
                 picked, writable, alive, total, sent, waited>>

Settle(ws, verdict) ==
  [w \in Tickets |-> IF w \in Range(ws) THEN verdict ELSE ticket[w]]

MutantClosed(c) ==
  /\ open' = open \ {c}
  /\ waiters' = [waiters EXCEPT ![c] = <<>>]
  /\ ticket' = Settle(waiters[c], "cancelled")
  /\ queues' = [k \in Class |-> Without(queues[k], Mine(c, Class))]
  /\ business' = business
  /\ queued' = [queued EXCEPT ![c] = Zero]

\* close_channel: waits fail first, then the channel's frames leave every class
\* queue.  What they were charged to the control reservation stays charged.
Closed(c) ==
  /\ open' = open \ {c}
  /\ waiters' = [waiters EXCEPT ![c] = <<>>]
  /\ ticket' = Settle(waiters[c], "cancelled")
  /\ queues' = [k \in Class |-> Without(queues[k], Mine(c, Class))]
  /\ business' = Minus(business, queued[c].frames, queued[c].bytes)
  /\ queued' = [queued EXCEPT ![c] = Zero]

\* A class whose queue empties has nothing left that waits for a turn.
Reckon(q, w) == [k \in Class |-> IF q[k] = <<>> THEN 0 ELSE w[k]]

CloseChannel(c) ==
  /\ Idle /\ c \in open
  /\ Closed(c)
  /\ waited' = Reckon(queues', waited)
  /\ UNCHANGED <<config, tokens, control, pumping, picked, writable, alive, total, sent>>

-----------------------------------------------------------------------------
(* enqueue.  A refused frame changes nothing but counters, unless the      *)
(* channel's policy has evicted frames for it.                             *)

NewFrame(c, k, size) == [ch |-> c, class |-> k, size |-> size, no |-> total + 1]

Admitted(q, c, k, size) ==
  /\ queues' = [q EXCEPT ![k] = Append(@, NewFrame(c, k, size))]
  /\ total' = total + 1
  /\ pumping' = TRUE

\* enqueue_control: the channel need not be open.
EnqueueControl(c, size) ==
  /\ Idle /\ total < config.frames
  /\ control.frames + 1 <= config.controlF
  /\ control.bytes + size <= config.controlB
  /\ control' = Plus(control, 1, size)
  /\ Admitted(queues, c, 0, size)
  /\ UNCHANGED <<config, open, queued, tokens, business, waiters, ticket, picked, writable,
                 alive, sent, waited>>

MutantPeerFull(size) == business.frames > config.peerF \/ business.bytes + size > config.peerB

PeerFull(size) == business.frames + 1 > config.peerF \/ business.bytes + size > config.peerB

ChannelFull(q, size) == q.frames + 1 > config.channelF \/ q.bytes + size > config.channelB

\* drop_oldest takes the first frame of the channel in class order, the control
\* class first; keep_latest takes all of them, on every enqueue.
Oldest(c) ==
  CHOOSE f \in Mine(c, Class) :
    \A g \in Mine(c, Class) : f.class < g.class \/ (f.class = g.class /\ f.no <= g.no)

Evicted(c, size) ==
  IF config.policy[c] = "keep_latest" THEN Mine(c, Class)
  ELSE IF config.policy[c] = "drop_oldest" /\ ChannelFull(queued[c], size) /\ queued[c].frames > 0
         THEN {Oldest(c)}
  ELSE {}

\* charge_drop takes the evicted frames from the business counters.  A frame
\* that still does not fit is refused all the same.
EnqueueBusiness(c, k, size) ==
  /\ Idle /\ total < config.frames
  /\ c \in open
  /\ ~PeerFull(size)
  /\ LET out == Evicted(c, size)
         kept == [j \in Class |-> Without(queues[j], out)]
         mine == Minus(queued[c], Cardinality(out), Bytes(out))
         all == Minus(business, Cardinality(out), Bytes(out))
     IN IF ChannelFull(mine, size)
          THEN /\ out # {}
               /\ queues' = kept
               /\ queued' = [queued EXCEPT ![c] = mine]
               /\ business' = all
               /\ UNCHANGED <<total, pumping>>
          ELSE /\ Admitted(kept, c, k, size)
               /\ queued' = [queued EXCEPT ![c] = Plus(mine, 1, size)]
               /\ business' = Plus(all, 1, size)
  /\ waited' = Reckon(queues', waited)
  /\ UNCHANGED <<config, open, tokens, control, waiters, ticket, picked, writable, alive, sent>>

-----------------------------------------------------------------------------
(* Capacity waits.                                                         *)

HasRoom(q) == q.frames < config.channelF /\ q.bytes < config.channelB

\* wait_for_capacity, when there is none: with capacity the callback runs at
\* once.
WaitForCapacity(c) ==
  /\ Idle /\ c \in open
  /\ ~(HasRoom(queued[c]) /\ business.frames < config.peerF)
  /\ \E w \in {v \in config.waits : ticket[v] = "unused"} :
       /\ ticket' = [ticket EXCEPT ![w] = "waiting"]
       /\ waiters' = [waiters EXCEPT ![c] = Append(@, w)]
  /\ UNCHANGED <<config, open, queued, queues, tokens, business, control, pumping, picked,
                 writable, alive, total, sent, waited>>

\* CapacityWaitTicket::cancel, and its destructor.
CancelWait(w) ==
  /\ Idle /\ ticket[w] = "waiting"
  /\ ticket' = [ticket EXCEPT ![w] = "cancelled"]
  /\ waiters' = [c \in Channels |-> Without(waiters[c], {w})]
  /\ UNCHANGED <<config, open, queued, queues, tokens, business, control, pumping, picked,
                 writable, alive, total, sent, waited>>

MutantNotified(c, q) == IF q.frames + 1 < config.channelF THEN waiters[c] ELSE <<>>

\* notify_capacity: the waiters a channel with counters q completes.
Notified(c, q) == IF HasRoom(q) THEN waiters[c] ELSE <<>>

-----------------------------------------------------------------------------
(* The pump.                                                               *)

MutantRefill == Pending # {} /\ tokens[Min(Pending)] = 0

\* Every class with frames is out of tokens: a new round begins.
Refill == Pending # {} /\ \A k \in Pending : tokens[k] = 0

Round == IF Refill THEN Weight ELSE tokens

MutantReleased(f) == control

MutantReleasedTwice(f) == [frames |-> control.frames - 2, bytes |-> control.bytes]

Released(f) == [frames |-> control.frames - 1, bytes |-> Minus(control, 0, f.size).bytes]

Uncharge(f) ==
  IF f.class = 0
    THEN /\ control' = Released(f)
         /\ UNCHANGED <<queued, business, waiters, ticket>>
    ELSE LET q == [frames |-> queued[f.ch].frames - 1,
                   bytes |-> Minus(queued[f.ch], 0, f.size).bytes]
             told == Notified(f.ch, q)
         IN /\ queued' = [queued EXCEPT ![f.ch] = q]
            /\ business' = [frames |-> business.frames - 1,
                            bytes |-> Minus(business, 0, f.size).bytes]
            /\ ticket' = Settle(told, "ready")
            /\ waiters' = IF told = <<>> THEN waiters ELSE [waiters EXCEPT ![f.ch] = <<>>]
            /\ UNCHANGED control

\* next_to_send: the first class in order with a frame and a token.
NextToSend ==
  /\ alive /\ pumping /\ picked = {}
  /\ Pending # {}
  /\ \E k \in Pending :
       /\ Round[k] > 0
       /\ \A j \in Pending : j < k => Round[j] = 0
       /\ tokens' = [Round EXCEPT ![k] = @ - 1]
       /\ queues' = [queues EXCEPT ![k] = Tail(@)]
       /\ picked' = {Head(queues[k])}
       /\ Uncharge(Head(queues[k]))
       /\ waited' = [j \in Class |-> IF j = k \/ queues[j] = <<>> THEN 0 ELSE waited[j] + 1]
  /\ UNCHANGED <<config, open, pumping, writable, alive, total, sent>>

PumpDone ==
  /\ alive /\ pumping /\ picked = {}
  /\ Pending = {}
  /\ pumping' = FALSE
  /\ UNCHANGED <<config, open, queued, queues, tokens, business, control, waiters, ticket,
                 picked, writable, alive, total, sent, waited>>

\* The transport takes the frame.
PumpSent ==
  /\ \E f \in picked :
       /\ Line(f) \in writable
       /\ sent' = [sent EXCEPT ![f.class] = f.no]
  /\ picked' = {}
  /\ UNCHANGED <<config, open, queued, queues, tokens, business, control, waiters, ticket,
                 pumping, writable, alive, total, waited>>

MutantPutBack(q, f) == Append(q, f)

PutBack(q, f) == <<f>> \o q

\* return_to_send: the line is not writable.  The frame goes back to the head of
\* its class, its token is spent, and the pump stops.
PumpBlocked ==
  /\ \E f \in picked :
       /\ Line(f) \notin writable
       /\ queues' = [queues EXCEPT ![f.class] = PutBack(@, f)]
       /\ IF f.class = 0
            THEN control' = Plus(control, 1, f.size) /\ UNCHANGED <<queued, business>>
            ELSE /\ queued' = [queued EXCEPT ![f.ch] = Plus(@, 1, f.size)]
                 /\ business' = Plus(business, 1, f.size)
                 /\ UNCHANGED control
  /\ picked' = {}
  /\ pumping' = FALSE
  /\ UNCHANGED <<config, open, tokens, waiters, ticket, writable, alive, total, sent, waited>>

\* The frame cannot be sent: its channel is closed and the session fails.
PumpFails ==
  /\ \E f \in picked :
       IF f.ch \in open THEN Closed(f.ch)
                        ELSE UNCHANGED <<open, waiters, ticket, queues, business, queued>>
  /\ picked' = {}
  /\ pumping' = FALSE
  /\ alive' = FALSE
  /\ waited' = Reckon(queues', waited)
  /\ UNCHANGED <<config, tokens, control, writable, total, sent>>

\* ~SessionChannelManager: the waits still registered fail.
Destroy ==
  /\ ~alive
  /\ \E c \in Channels : waiters[c] # <<>>
  /\ ticket' = [w \in Tickets |-> IF ticket[w] = "waiting" THEN "cancelled" ELSE ticket[w]]
  /\ waiters' = [c \in Channels |-> <<>>]
  /\ UNCHANGED <<config, open, queued, queues, tokens, business, control, pumping, picked,
                 writable, alive, total, sent, waited>>

\* The transport reports a line open, or writable again: the pump runs.
LineReady(l) ==
  /\ Idle /\ l \notin writable
  /\ writable' = writable \cup {l}
  /\ pumping' = TRUE
  /\ UNCHANGED <<config, open, queued, queues, tokens, business, control, waiters, ticket,
                 picked, alive, total, sent, waited>>

\* The transport's queue for a line has filled up.
LineFull(l) ==
  /\ alive /\ l \in writable
  /\ writable' = writable \ {l}
  /\ UNCHANGED <<config, open, queued, queues, tokens, business, control, waiters, ticket,
                 pumping, picked, alive, total, sent, waited>>

Next ==
  \/ Allocate
  \/ \E c \in Used : Adopt(c) \/ CloseChannel(c) \/ WaitForCapacity(c)
  \/ \E c \in {0} \cup config.urgent, size \in config.sizes : EnqueueControl(c, size)
  \/ \E c \in Used, k \in config.classes, size \in config.sizes : EnqueueBusiness(c, k, size)
  \/ \E w \in Tickets : CancelWait(w)
  \/ NextToSend \/ PumpDone \/ PumpSent \/ PumpBlocked \/ PumpFails \/ Destroy
  \/ \E l \in Lines : LineReady(l) \/ LineFull(l)

Spec == Init /\ [][Next]_vars

-----------------------------------------------------------------------------
(* Properties.                                                             *)

Counter == [frames : Nat, bytes : Nat]
Frame == [ch : Lines, class : Class, size : config.sizes, no : 1 .. config.frames]

TypeOK ==
  /\ open \subseteq Channels
  /\ queued \in [Channels -> Counter]
  /\ \A k \in Class : \A i \in DOMAIN queues[k] : queues[k][i] \in Frame /\ queues[k][i].class = k
  /\ tokens \in [Class -> Nat]
  /\ business \in Counter
  /\ control \in Counter
  /\ \A c \in Channels : Range(waiters[c]) \subseteq Tickets
  /\ ticket \in [Tickets -> {"unused", "waiting", "ready", "cancelled"}]
  /\ picked \subseteq Frame /\ Cardinality(picked) <= 1
  /\ picked # {} => pumping
  /\ writable \subseteq Lines

\* What the frames of channels cs queued in classes ks add up to.
Held(cs, ks) == Tally(UNION {Mine(c, ks) : c \in cs})

\* The business counters are exact after any sequence of admissions, evictions,
\* sends, returns and closes: each channel's is what it has queued in the
\* business classes, and the peer's total is the sum.  A counter that drifts
\* blocks the channel for good, or wraps below zero.
BudgetsExact ==
  /\ \A c \in Channels : queued[c] = Held({c}, 1 .. 3)
  /\ business = Held(Channels, 1 .. 3)

\* The control reservation is charged for every control-class frame queued, and
\* for no other while only the control channel sends such frames: a reservation
\* that shrinks would end with PING and PONG refused.
ControlCharged ==
  LET held == Held(Lines, {0})
  IN /\ held.frames <= control.frames /\ held.bytes <= control.bytes
     /\ config.urgent = {} => control = held

\* "Drops only that channel's queued frames ...; the session and its other
\* channels are unaffected" (close_channel): the reservation charged for them is
\* given back.
CloseReleasesControl == control = Held(Lines, {0})

\* Memory stays within the configured budgets, whatever the pump puts back.
QueuesBounded ==
  LET all == Held(Channels, 1 .. 3)
      ctl == Held(Lines, {0})
  IN /\ all.frames <= config.peerF /\ all.bytes <= config.peerB
     /\ ctl.frames <= config.controlF /\ ctl.bytes <= config.controlB
     /\ \A c \in Channels : Held({c}, 1 .. 3).frames <= config.channelF

\* Within a class, frames leave in the order they were admitted, however often
\* the transport was not writable and return_to_send put one back.
InOrder ==
  \A k \in Class :
    LET q == {f.no : f \in {g \in picked : g.class = k}}
    IN /\ \A i, j \in DOMAIN queues[k] : i < j => queues[k][i].no < queues[k][j].no
       /\ \A i \in DOMAIN queues[k] : sent[k] < queues[k][i].no
       /\ \A n \in q : sent[k] < n /\ \A i \in DOMAIN queues[k] : n < queues[k][i].no

Total(f) == f[0] + f[1] + f[2] + f[3]
Others(f, k) == Total(f) - f[k]
Above(f, k) ==
  IF k = 0 THEN 0 ELSE IF k = 1 THEN f[0] ELSE IF k = 2 THEN f[0] + f[1] ELSE f[0] + f[1] + f[2]

\* No class starves: one with a frame waiting gets its turn in next_to_send
\* after the others have had at most their weights, and the classes above it
\* their weights once more.
TurnBound == \A k \in Class : waited[k] <= Others(Weight, k) + Above(Weight, k)

PeerCovers == config.peerF > Cardinality(Used) * config.channelF

\* No wake-up is lost: where the peer's budget covers the channels' budgets, a
\* capacity wait on a channel that rejects when full, as every service's does,
\* stays registered only while the channel is full, so its callback fires when
\* capacity appears.
NoLostWakeup ==
  alive /\ PeerCovers =>
    \A c \in Used :
      config.policy[c] = "reject" /\ waiters[c] # <<>> => ~HasRoom(queued[c])

\* "The callback fires when capacity appears (including after drops by
\* drop-oldest/keep_latest policies ...)" (wait_for_capacity): charge_drop
\* notifies nobody, so a channel that evicts may leave a wait behind.
WakesAfterDrops ==
  alive /\ PeerCovers => \A c \in Used : waiters[c] # <<>> => ~HasRoom(queued[c])

\* The scheduler's books and queues are right together, whatever is refused,
\* evicted, put back, closed or failed: every state is well typed, budgets and
\* the control reservation equal what is queued, memory is bounded, and classes
\* keep their order (enqueue, next_to_send, return_to_send, close_channel).
QueuesSound ==
  TypeOK /\ BudgetsExact /\ ControlCharged /\ QueuesBounded /\ InOrder
=============================================================================
